SPECIFICATION Spec
CONSTANTS
    o1 = o1  o2 = o2  vest = vest  p1 = p1  p2 = p2  p3 = p3  stray = stray
    Order = {o1}
    NoOrder = NoOrder
    Target = {vest}
    Payment = {p1, p2, stray}
    NoPayment = NoPayment
    Provider = {"WOMPI", "BANK_TRANSFER"}
    NoProvider = NoProvider
    MaxQty = 1
    Items <- ExpiryItems
    PaidFor <- MCPaidFor
    Rail <- ExpiryRail
    RightAmount = {p1, stray}
    Reports <- ExpiryReports
    CouponOrders = {}
    MaxUses = 0
    MaxStock = 1
    MaxAge = 2
    InitStock <- ExpiryStock
    CategoryOf <- SalesCategory
    NoCategory = NoCategory
INVARIANTS DeductedIffFulfilling
CHECK_DEADLOCK FALSE
