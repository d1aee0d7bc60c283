\* One project with one task, two users and two overlapping requests.
CONSTANTS
    u1 = u1
    u2 = u2
    p1 = p1
    t1 = t1
    r1 = r1
    r2 = r2
    Org = Org
    Elsewhere = Elsewhere
    NoOne = NoOne
    Users = {u1, u2}
    Projects = {p1}
    Tasks = {t1}
    Requests = {r1, r2}
    GivenRoles = {"MEMBER"}
    StatusInputs = {"DONE", "null"}
    ColumnSets = {{"text"}, {"status"}, {"assigned_to"}}
SYMMETRY Symmetry
SPECIFICATION Spec
INVARIANTS TypeOK TasksAreAtHome AnswersHold NoCircularWait ErrorsNeedOverlap
PROPERTIES UndisturbedAuthority UpdatesWriteTheirBody IsWorkTree
