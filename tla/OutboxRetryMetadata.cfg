\* A title whose payload the notifications table refuses.
CONSTANTS
    t1 = t1
    t2 = t2
    u1 = u1
    u2 = u2
    w1 = w1
    w2 = w2
    Nobody = Nobody
    Tasks = {t1}
    Users = {u1, u2}
    N = 2
    Foreign = {}
    Titles = {"short", "long"}
    Workers = {w1, w2}
    Limit = 2
    BeatRunning = TRUE
SPECIFICATION Spec
INVARIANTS RetryMetadataStored
