\* A histogram is put with enabled: false.
SPECIFICATION Spec
CONSTANTS
    Sessions = {s1, s2}
    Names = {"a"}
    Docs <- MCDisable
    None = None
    Invalid = Invalid
PROPERTY SuccessMeansDone
SYMMETRY SessionSymmetry
