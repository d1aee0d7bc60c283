\* Three notifications from overlapping dispatches, two requests that mark
\* them and a walk with pages of one row.
CONSTANTS
    n1 = n1
    n2 = n2
    n3 = n3
    d1 = d1
    d2 = d2
    r1 = r1
    r2 = r2
    Notes = {n1, n2, n3}
    Dispatchers = {d1, d2}
    Requests = {r1, r2}
    NoOne = NoOne
    Limit = 1
    MaxTime = 2
SYMMETRY Symmetry
SPECIFICATION Spec
INVARIANTS TypeOK WalkMissesNothing QuietWalkIsExact
PROPERTIES CountsWhatItMarks AnsweredAllRead TotalMissesOnlyArrivals
