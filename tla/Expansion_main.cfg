\* Every small graph of stages, and every kind of stage on the target lists that matter.
SPECIFICATION Spec
CONSTANTS
    Nothing = Nothing
    Whole = "_"
    Names <- MCNames
    Tags <- MCTags
    Pipelines <- MCPipelines
    Selections <- MCSelections
INVARIANTS TypeOK CycleVerdict IdsAreUnique
PROPERTY KeepsPromise
