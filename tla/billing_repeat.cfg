CONSTANTS
  s1 = s1
  i1 = i1
  i2 = i2
  Seller = {s1}
  Invoice = {i1, i2}
  Call = {k1}
  Buyer <- OneBuyer
  ProductOf <- TwoOfAKind
  Nobody = Nobody
  Trial = Trial
  NoInvoice = NoInvoice
  Term = 2
  TrialTerm = 1
  MaxClicks = 0
SPECIFICATION Spec
PROPERTY RepeatIsSafe
