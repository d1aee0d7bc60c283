\* Two users and two overlapping requests, enough for the cycle of waits the
\* deadlock detector breaks (a hand-over against a cascading delete).  No
\* symmetry: one of the properties is a liveness property.
CONSTANTS
    u1 = u1
    u2 = u2
    r1 = r1
    r2 = r2
    Users = {u1, u2}
    Requests = {r1, r2}
    NoOne = NoOne
SPECIFICATION Spec
INVARIANTS TypeOK MembersNeedOrg DeadlocksNeedTransfer
PROPERTIES UndisturbedKeepsOwner UndisturbedAuthority IsRoleTable EveryRequestEnds
\* A deleted organization takes no more requests: a behaviour may stop there.
CHECK_DEADLOCK FALSE
