\* The deployment of docker-compose.yml: a worker and no beat.
CONSTANTS
    t1 = t1
    t2 = t2
    u1 = u1
    u2 = u2
    w1 = w1
    w2 = w2
    Nobody = Nobody
    Tasks = {t1}
    Users = {u1, u2}
    N = 2
    Foreign = {}
    Titles = {"short"}
    Workers = {w1, w2}
    Limit = 2
    BeatRunning = FALSE
SPECIFICATION Spec
PROPERTIES AssigneeIsNotified
\* Without beat nothing more happens once the messages are used up.
CHECK_DEADLOCK FALSE
