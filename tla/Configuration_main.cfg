\* One command that loads, one pin under way, an operator who edits both files.
SPECIFICATION Spec
CONSTANTS
    NaN = NaN  Absent = Absent  Unreadable = Unreadable  Bad = Bad
    Unclosed = Unclosed
    PinName <- PIN
    KeyOf <- MCKeyOf
    Typed <- MCTyped
    Texts <- MCTexts
    Digests = {"d1"}
    Tomls <- MCTomls
    Envs <- MCEnvs
    Environs <- MCEnvirons
INVARIANT TypeOK
PROPERTIES LaterLayersWin NothingIgnored PinTakes
