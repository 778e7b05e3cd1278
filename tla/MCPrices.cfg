SPECIFICATION FairPricesSpec
CONSTANTS
  shirt = shirt
  e1 = e1
  job = job
  None = None
  Product = {shirt}
  Editor = {e1}
  Checker = {job}
  Rate = {0, 1900}
  Base = {420, 1050}
  Lines = 3
  Purchase <- const_Purchase
  Circumstance <- const_Circumstance
  Account <- const_Account
  Divipola <- const_Divipola
  Null = Null
  Production = "1"
  Tests = "2"
  MaxWork = 3
INVARIANTS PricesTypeOK PricesFit ExemptStays InvoicesAddUp PaidInFull
PROPERTIES NewsSettles
CHECK_DEADLOCK FALSE
