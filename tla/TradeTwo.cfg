SPECIFICATION Spec
CONSTANTS
  earth = earth  mars = mars  alice = alice  bob = bob
  root = root  warden = warden  t1 = t1  t2 = t2  a1 = a1  a2 = a2
  Colonies = {earth, mars}
  Traders = {alice, bob}
  Admins = {root, warden}
  TradeIds = {t1, t2}
  ActionIds = {}
  Home <- MCHome
  Seller <- TwoSeller
  Buyer <- TwoBuyer
  Price <- TwoPrice
  Manages <- MCManages
  Funding <- MCFunding
  InitialTrust <- CrossTrust
  TrustPairs = {}
  OfferTTLs = {1}
  PendingActionTTL = 1
  MaxAmount = 2
  MaxInt64 = 10
  MaxClock = 2
  MaxEnvelopes = 3
  MaxBundle = 2
  MaxLosses = 0
INVARIANTS TypeOK Conservation NetPositionsMirror
PROPERTY ImplementsEscrow
CHECK_DEADLOCK FALSE
