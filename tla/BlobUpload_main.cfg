\* Two control planes on one data directory, two uploads, two blobs, two kinds.
SPECIFICATION Spec
CONSTANTS
    c1 = c1  r1 = r1  r2 = r2  n1 = n1  n2 = n2  n3 = n3  p1 = p1  p2 = p2
    input = input  log = log
    Absent = Absent
    Requests = {r1, r2}
    Procs = {p1, p2}
    TmpNames = {n1, n2}
    Chunks = {c1}
    Blobs <- MCBlobs
    Kinds = {input, log}
    Cap <- MCCap
SYMMETRY Symmetry
INVARIANTS TypeOK NoDebris DownloadsAreExact AnswersAreDurable AnswersAreExplained
PROPERTIES KeepsPromise
