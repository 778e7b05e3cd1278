SPECIFICATION CheckoutSpec
CONSTANTS
    o1 = o1  vest = vest  w1 = w1  m1 = m1  a1 = a1  b1 = b1
    Order = {o1}
    NoOrder = NoOrder
    Target = {vest}
    Payment = {m1}
    NoPayment = NoPayment
    Provider = {"MERCADOPAGO"}
    NoProvider = NoProvider
    MaxQty = 1
    Items <- MCItems
    PaidFor <- MCPaidFor
    Rail <- MCRail
    RightAmount = {m1}
    Reports <- MCReports
    CouponOrders = {}
    MaxUses = 0
    MaxCheckouts = 1
    MaxReviews = 1
    MaxStock = 1
    MaxAge = 1
    InitStock <- MCStock
INVARIANTS UnpaidStaysRetriable
CHECK_DEADLOCK FALSE
