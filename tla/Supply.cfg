SPECIFICATION Spec
CONSTANTS
  earth = earth  alice = alice  bob = bob
  root = root  boss = boss  earthling = earthling  martian = martian
  a1 = a1  a2 = a2
  Colonies = {earth}
  Users = {alice, bob}
  Admins = {root, boss, earthling, martian}
  SuperAdmins = {root, boss}
  ActionIds = {a1, a2}
  Home <- MCHome
  Manages <- MCManages
  Received <- MCReceived
  MintAmounts = {1, 2}
  PolicyRequests <- MCPolicies
  PendingActionTTL = 1
  DefaultMintCap = 3
  MaxInt64 = 5
  MaxClock = 2
INVARIANTS TypeOK CapHolds MintsAreBacked MintsAreCredited
PROPERTY ControlledByTwo
SYMMETRY Symmetry
CHECK_DEADLOCK FALSE
