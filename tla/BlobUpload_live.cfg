\* Liveness: one control plane, two uploads, one blob.
SPECIFICATION FairSpec
CONSTANTS
    c1 = c1  r1 = r1  r2 = r2  n1 = n1  n2 = n2  n3 = n3  p1 = p1  p2 = p2
    input = input  log = log
    Absent = Absent
    Requests = {r1, r2}
    Procs = {p1}
    TmpNames = {n1, n2}
    Chunks = {c1}
    Blobs <- MCOneBlob
    Kinds = {input}
    Cap <- MCCapOne
PROPERTIES RetriesHeal DebrisIsSwept SweepsOnlyTheDead
