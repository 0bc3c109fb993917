CONSTANTS
  s1 = s1
  i1 = i1
  i2 = i2
  Seller = {s1}
  Invoice = {i2}
  Call = {k1, k2}
  Buyer <- OneBuyer
  ProductOf <- OneEach
  Nobody = Nobody
  Trial = Trial
  NoInvoice = NoInvoice
  Term = 2
  TrialTerm = 1
  MaxClicks = 2
SPECIFICATION FairSpec
INVARIANTS
  OkMeansActivated
  TrialIsGivenOnce
PROPERTIES
  MoneyBuysThePlan
  ExpiredPlanEnds
