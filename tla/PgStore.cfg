SPECIFICATION FairSpec
CONSTANTS
  Users = {1, 2, 3, 4, 5, 6}
  Colonies = {31, 32}
  Trades = {21}
  Tokens = {11, 12, 13, 14, 15, 16, 17, 18}
  AdvisoryLock = 99
  Envelopes = {"e"}
  Names = {"new", "old", "root", "boss"}
  Name <- MCName
  Owner <- MCOwner
  Expired = {11, 12}
  Parties <- MCParties
  Between <- MCBetween
  Requests = {"login1", "login2", "reset1", "accept1", "accept2", "import1", "import2", "import3", "create3", "create4", "boot5", "boot6"}
  Req <- MCReq
  InitialTables <- MCTables
  Workloads <- MCWorkloads
  NoRequest = "nobody"
  MaxAttempts = 2
  MaxOpenConns = 3
INVARIANTS TypeOK OnlyPruningDeadlocks
PROPERTIES ImplementsAtomicStore EveryRequestEnds
CHECK_DEADLOCK FALSE
