SPECIFICATION Spec
CONSTANTS
    Sessions = {s1, s2}
    Names = {"a"}
    Docs <- MCDocs
    None = None
    Invalid = Invalid
INVARIANTS SavedRestores StoredChecked NoOrphans
PROPERTIES StoreSpec SuccessMeansDone
SYMMETRY SessionSymmetry
