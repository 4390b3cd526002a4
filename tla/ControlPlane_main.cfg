\* Two processes of two releases; one name in tmp/, for an upload or a probe.
SPECIFICATION Spec
CONSTANTS
    Absent = Absent  Empty = Empty  Client = Client  Worker = Worker
    Procs = {p1, p2}
    Files = {f1}
    Releases = {1, 2}
    Tokens = {Empty, Client, Worker}
    Configs <- MCConfigs
SYMMETRY Symmetry
INVARIANTS TypeOK AnswersAreEntitled WalIsExplained ReadyzIsExplained
PROPERTIES KeepsBringUp
