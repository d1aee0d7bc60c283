\* Two overlapping requests leave a live organization without an owner.
CONSTANTS
    u1 = u1
    u2 = u2
    r1 = r1
    r2 = r2
    Users = {u1, u2}
    Requests = {r1, r2}
    NoOne = NoOne
SPECIFICATION Spec
INVARIANTS OrgHasOwner
CHECK_DEADLOCK FALSE
