\* Directories edited while they are packed, and manifests written by hand.
SPECIFICATION Spec
CONSTANTS
    d = d  a = a  b = b  c = c  w = w  z = z
    Nothing = Nothing
    Nodes <- MCNodes
    Within <- MCWithin
    Rank <- MCRank
    Skipped = {z}
    Misnamed = {w}
    Globs <- MCGlobs
    Matches <- MCMatches
    BadGlobs = {"/c"}
    Bytes = {1, 2}
    Trees <- MCTrees
    Pipelines <- MCPipelines
    Handmade <- MCHandmade
    MaxFiles = 3
    KillGrace = 1
INVARIANTS TypeOK ManifestsAreSound
PROPERTY KeepsOrder
