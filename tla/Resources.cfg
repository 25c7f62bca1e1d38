SPECIFICATION Spec
CONSTANTS
    Client = {c1, c2}
    Name = {n1, n2}
    NoName = NoName
    MaxId = 2
SYMMETRY Symmetry
INVARIANTS TypeOK NamesStayUnique ObjectNamesItsResource DeleteByNameComplete
PROPERTIES OnlyNamedTouched
