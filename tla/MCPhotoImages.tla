--------------------------- MODULE MCPhotoImages ---------------------------
(* Two cells; a search brings two photos, or the same photo twice.        *)
EXTENDS PhotoImages, TLC

CONSTANTS a, b

MCLists == {<<a, b>>, <<a, a>>}

\* The cells of the pool are alike.
CellSymmetry == Permutations(Cell)
=============================================================================
