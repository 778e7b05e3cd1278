SPECIFICATION SecretsSpec
CONSTANTS
    ana = ana  boss = boss
    User = {ana, boss}
    FirstRole <- MCFirstRole
    Kinds = {"update", "role", "password", "delete", "erase"}
    Grants = {}
    MaxOps = 1
    Asking = {ana}
    MaxCodes = 2
    MaxTries = 1
    MaxConfirms = 2
INVARIANTS SecretsTypeOK
PROPERTIES SupersededCodeFails
CHECK_DEADLOCK FALSE
