CONSTANTS
  Texts <- Pieces
  MaxBytes = 4
  MaxLength = 2

SPECIFICATION Spec

INVARIANTS
  
  Faithful
  WordsInTurn
