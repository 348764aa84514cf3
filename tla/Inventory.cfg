\* Two repositories with a tag each; a short interval: runs outlive their lock.
CONSTANTS
    a = a
    b = b
    t = t
    u = u
    r1 = r1
    r2 = r2
    c1 = c1
    c2 = c2
    Repos = {a, b}
    Tags = {t, u}
    Replicas = {r1, r2}
    Clients = {c1, c2}
    Interval = 300
    k = k
    l = l
    w = w
    x = x
    Types <- MCTypes
    Credentials = {k, l}
    URLs = {w, x}
    Working <- MCWorking
    Scenes <- MCScenes
SPECIFICATION Spec
INVARIANTS
    TypeOK
    DuplicateRowsBounded
    TargetsBounded
    StoredWasTested
PROPERTIES
    PresentImageKept
    InventoryConverges
CHECK_DEADLOCK FALSE
