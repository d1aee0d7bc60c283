\* Three rows for two workers with batches of two, one of a foreign event type:
\* fewer rows than a batch stay undeliverable.
CONSTANTS
    t1 = t1
    t2 = t2
    u1 = u1
    u2 = u2
    w1 = w1
    w2 = w2
    Nobody = Nobody
    Tasks = {t1}
    Users = {u1, u2}
    N = 3
    Foreign = {1}
    Titles = {"short", "long"}
    Workers = {w1, w2}
    Limit = 2
    BeatRunning = TRUE
SPECIFICATION Spec
INVARIANTS TypeOK NotifiedOnce
PROPERTIES IsAssignmentNotice AssigneeIsNotified
