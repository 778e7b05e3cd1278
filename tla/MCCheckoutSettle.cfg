SPECIFICATION FairCheckoutSpec
CONSTANTS
    o1 = o1  vest = vest  w1 = w1  m1 = m1  a1 = a1  b1 = b1
    Order = {o1}
    NoOrder = NoOrder
    Target = {}
    Payment = {m1, a1, b1}
    NoPayment = NoPayment
    Provider = {"MERCADOPAGO", "ADDI", "BANK_TRANSFER"}
    NoProvider = NoProvider
    MaxQty = 1
    Items <- MCItems
    PaidFor <- MCPaidFor
    Rail <- MCRail
    RightAmount = {m1, a1}
    Reports <- SettleReports
    CouponOrders = {}
    MaxUses = 0
    MaxCheckouts = 1
    MaxReviews = 1
    MaxStock = 0
    MaxAge = 2
    InitStock <- MCStock
PROPERTIES OpenOrdersSettle
CHECK_DEADLOCK FALSE
