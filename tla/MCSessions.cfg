SPECIFICATION FairSessionsSpec
CONSTANTS
    ana = ana  boss = boss  phone = phone  tab1 = tab1  tab2 = tab2
    User = {ana, boss}
    FirstRole <- MCFirstRole
    Kinds = {"update", "delete"}
    Grants = {}
    MaxOps = 1
    Browser = {phone}
    Tab = {tab1, tab2}
    BrowserOf <- MCBrowserOf
    CustomerOf <- MCCustomerOf
    MaxTokens = 3
    NoUser = NoUser
    NoToken = NoToken
INVARIANTS SessionsTypeOK SessionsSurvive AlarmsAreEarned
PROPERTIES DeactivatedDrain
CHECK_DEADLOCK FALSE
