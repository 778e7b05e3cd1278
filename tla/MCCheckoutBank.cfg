SPECIFICATION CheckoutSpec
CONSTANTS
    o1 = o1  vest = vest  w1 = w1  m1 = m1  a1 = a1  b1 = b1
    Order = {o1}
    NoOrder = NoOrder
    Target = {vest}
    Payment = {w1, b1}
    NoPayment = NoPayment
    Provider = {"WOMPI", "BANK_TRANSFER"}
    NoProvider = NoProvider
    MaxQty = 1
    Items <- MCItems
    PaidFor <- MCPaidFor
    Rail <- MCRail
    RightAmount = {w1, b1}
    Reports <- MCReports
    CouponOrders = {}
    MaxUses = 0
    MaxCheckouts = 1
    MaxReviews = 1
    MaxStock = 0
    MaxAge = 0
    InitStock <- MCStock
INVARIANTS CompletedIsBacked RefundsAreReal UnpaidStaysRetriable
PROPERTIES Spec
CHECK_DEADLOCK FALSE
