\* Three requests under way: two refreshes with one cookie and a logout.
\* Three tokens: a login and two refreshes, together or in turn, or a second
\* login.
CONSTANTS
    r1 = r1
    r2 = r2
    r3 = r3
    Requests = {r1, r2, r3}
    MaxTokens = 3
SYMMETRY Symmetry
SPECIFICATION Spec
INVARIANTS TypeOK CookieIsOfUse OnlyDoubledLoginsSplit LogoutIsFinal
PROPERTIES LogoutEndsLogin
