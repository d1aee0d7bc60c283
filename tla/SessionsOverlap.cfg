\* Two refreshes with one cookie.
CONSTANTS
    r1 = r1
    r2 = r2
    r3 = r3
    Requests = {r1, r2}
    MaxTokens = 3
SYMMETRY Symmetry
SPECIFICATION Spec
INVARIANTS OneSessionPerLogin
