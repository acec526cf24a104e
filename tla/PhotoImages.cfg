SPECIFICATION ImagesSpec
CONSTANTS
    a = a
    b = b
    Photo = {a, b}
    Cell = {c1, c2}
    Lists <- MCLists
    Items = 2
    MaxDisplays = 2
    NoImage = NoImage
INVARIANTS
    ForeignImageOnlyIfNotCancelled
    CurrentLoadCancelledOnlyByTwin
    SettledCellShowsImage
SYMMETRY CellSymmetry
CHECK_DEADLOCK FALSE
