\* Liveness: two control planes on one database.
SPECIFICATION FairSpec
CONSTANTS
    r1 = r1  r2 = r2  p1 = p1  p2 = p2  j1 = j1  j2 = j2  j3 = j3
    k1 = k1  d1 = d1  d2 = d2  ta = ta  tb = tb
    Absent = Absent
    Requests = {r1, r2}
    Procs = {p1, p2}
    Jobs = {j1, j2}
    Keys = {k1}
    Works = {"one"}
    Digests = {d1, d2}
    Size <- MCSize
    Files <- MCFiles
    TaskNames = {"compile", "simulate", "lint"}
    Tasks <- MCTasks
    Deps <- MCDeps
    Toolchains = {ta}
    Pin <- MCPin
    Configs <- MCSnug
PROPERTIES LockIsFreed RetriesLand
