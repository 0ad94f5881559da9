SPECIFICATION Spec
CONSTANTS
    update = update
    process = process
    write = write
    u1 = u1
    u2 = u2
    s1 = s1
    s2 = s2
    Pods = {p1, p2}
    Lookups = {k1}
    Readers = {r1}
    Loaders = {update, process, write}
    List <- MCList
    FinalMark <- MCFinalMark
    Users = {u1, u2, s1, s2}
    Size = 2
    MaxRuns = 2
    MaxFails = 2
    blank = blank
    nobody = nobody
SYMMETRY Alike
INVARIANT TypeOK
INVARIANT SequentialTakersServed
INVARIANT HeldIsMarked
INVARIANT NamedKeysComeFirst
INVARIANT OneKeyPerUser
PROPERTY LoadLeavesItsList
CHECK_DEADLOCK FALSE
