\* One client reads while another submits, through either of two processes.
SPECIFICATION ReadSpec
CONSTANTS
    p1 = p1  p2 = p2  r1 = r1  r2 = r2  d1 = d1  ta = ta
    Absent = Absent
    Requests = {r1, r2}
    Procs = {p1, p2}
    Jobs = {1, 2}
    Keys = {k1}
    Works = {"flow"}
    Digests = {d1}
    Size <- MCSize
    Files <- MCFiles
    TaskNames = {"compile", "simulate"}
    Tasks <- MCTasks
    Deps <- MCDeps
    Toolchains = {ta}
    Pin <- MCPin
    Configs <- MCConfigs
    Readers = {c1}
    Times = {1, 2}
    Limits = {2, 3}
    LimitDefault = 1
    LimitCap = 2
SYMMETRY Symmetry
INVARIANT WholeAnswers
PROPERTIES ReadsOwnWrites PollsLoseNothing
