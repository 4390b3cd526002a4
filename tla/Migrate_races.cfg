\* Two processes of two releases; the newer one has scripts that are not plain.
SPECIFICATION FairSpec
CONSTANTS
    p1 = p1  p2 = p2
    Absent = Absent
    Procs = {p1, p2}
    Scripts <- MCScripts
    Releases = {3, 5}
INVARIANT TypeOK
PROPERTIES KeepsLog RestartsComeUp
