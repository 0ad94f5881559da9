SPECIFICATION Spec
CONSTANTS
    update = update
    process = process
    write = write
    u1 = u1
    u2 = u2
    s1 = s1
    s2 = s2
    Pods = {p1, p2}
    Lookups = {}
    Readers = {}
    Loaders = {update}
    List <- MCList
    FinalMark <- MCFinalMark
    Users = {u1, u2, s1, s2}
    Size = 2
    MaxRuns = 2
    MaxFails = 0
    blank = blank
    nobody = nobody
INVARIANT NotSharedWhileFree
CHECK_DEADLOCK FALSE
