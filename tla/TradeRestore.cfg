SPECIFICATION RestoreSpec
CONSTANTS
  earth = earth  mars = mars  alice = alice  bob = bob
  root = root  warden = warden  t1 = t1  a1 = a1
  Colonies = {earth, mars}
  Traders = {alice, bob}
  Admins = {root, warden}
  TradeIds = {t1}
  ActionIds = {}
  Home <- MCHome
  Seller <- MCSeller
  Buyer <- MCBuyer
  Price <- MCPrice
  Manages <- MCManages
  Funding <- MCFunding
  InitialTrust <- CrossTrust
  TrustPairs = {}
  OfferTTLs = {1}
  PendingActionTTL = 1
  MaxAmount = 2
  MaxInt64 = 10
  MaxClock = 2
  MaxEnvelopes = 4
  MaxBundle = 1
  MaxLosses = 0
  MaxRestores = 1
INVARIANT Conservation
PROPERTY SellerStillDecides
CHECK_DEADLOCK FALSE
