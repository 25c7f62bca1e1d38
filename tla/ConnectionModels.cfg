SPECIFICATION Spec
CONSTANTS
    Value = {v1}
    Secret = {s1, s2}
    None = None
    Blank = Blank
    Std = Std
SYMMETRY Symmetry
INVARIANTS TypeOK WrittenIsReadBack
PROPERTIES NothingElseChanges SecretsFromCallers
