\* Three requests around a buffer of two, one reader and one clearer.
SPECIFICATION Spec
CONSTANTS
    Requests = {q1, q2, q3}
    Readers = {r}
    Clearers = {c}
    Free = Free
    CaptureMax = 2
    MaxBodyBytes = 1
    MaxSize = 3
INVARIANTS TypeOK NewestKept ServedIsLogged BodyPreserved
PROPERTY KeepsPromise
