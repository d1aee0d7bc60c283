\* Two registrations that collide in one value or both, and any two of
\* verification and reset for one account, with one token or two.
CONSTANTS
    e1 = e1
    e2 = e2
    n1 = n1
    n2 = n2
    p1 = p1
    p2 = p2
    r1 = r1
    r2 = r2
    Emails = {e1, e2}
    Names = {n1, n2}
    Passwords = {p1, p2}
    Requests = {r1, r2}
    MaxAccounts = 2
    MaxTokens = 2
SYMMETRY Symmetry
SPECIFICATION Spec
INVARIANTS TypeOK UniqueAccounts
PROPERTIES ConfirmationsStand SpentTokenIsRefused IsAccountTable
