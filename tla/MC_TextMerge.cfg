\* Texts of up to three lines.
CONSTANTS
  Lines = {1, 2, 3, 4}
  MaxLines = 3
SPECIFICATION Spec
INVARIANT CleanMergeIsBoth
CHECK_DEADLOCK FALSE
