SPECIFICATION Spec
CONSTANTS
  earth = earth  mars = mars  alice = alice  bob = bob
  root = root  warden = warden  t1 = t1  t2 = t2  a1 = a1  a2 = a2
  Colonies = {earth, mars}
  Traders = {alice, bob}
  Admins = {root, warden}
  TradeIds = {t1}
  ActionIds = {a1, a2}
  Home <- MCHome
  Seller <- OneSeller
  Buyer <- OneBuyer
  Price <- OnePrice
  Manages <- MCManages
  Funding <- MCFunding
  InitialTrust <- MarsTrusts
  TrustPairs <- EarthMay
  OfferTTLs = {1}
  PendingActionTTL = 1
  MaxAmount = 2
  MaxInt64 = 10
  MaxClock = 2
  MaxEnvelopes = 4
  MaxBundle = 2
  MaxLosses = 0
INVARIANTS BookedOnce ClosedOffersHoldNoMoney NoPoisonMessage NoDecisionIsStranded
PROPERTY SellerDecides
SYMMETRY ActionSymmetry
CHECK_DEADLOCK FALSE
