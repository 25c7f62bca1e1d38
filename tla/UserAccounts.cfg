SPECIFICATION Spec
CONSTANTS
    Client = {c1, c2}
    Password <- MCPassword
    NoPassword = NoPassword
    MaxId = 2
    Char <- MCChar
    Length = 4
SYMMETRY Symmetry
INVARIANTS TypeOK PasswordKept NewPasswordSet
PROPERTY AccountsStartStrong
