SPECIFICATION Spec
CONSTANTS
    o1 = o1  o2 = o2  vest = vest  p1 = p1  p2 = p2  p3 = p3  stray = stray
    Order = {o1, o2}
    NoOrder = NoOrder
    Target = {vest}
    Payment = {p1, p2, p3, stray}
    NoPayment = NoPayment
    Provider = {"WOMPI"}
    NoProvider = NoProvider
    MaxQty = 2
    Items <- SalesItems
    PaidFor <- MCPaidFor
    Rail <- SalesRail
    RightAmount = {p1, p2, p3, stray}
    Reports <- SalesReports
    CouponOrders = {o1, o2}
    MaxUses = 1
    MaxStock = 2
    MaxAge = 0
    InitStock <- SalesStock
    CategoryOf <- SalesCategory
    NoCategory = NoCategory
INVARIANTS TypeOK DeductedIffFulfilling FiguresAgree CouponCounted
PROPERTIES NoMoveBack ApprovalAnswered CompletedNotDegraded
CHECK_DEADLOCK FALSE
