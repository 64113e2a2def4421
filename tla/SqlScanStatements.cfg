SPECIFICATION Spec
CONSTANTS
  Pieces <- Differing
  MaxPieces = 4
  Texts <- AllTexts
  ParamSets <- NameSets
  MaxColumns = 0
INVARIANT
  AcceptedIsOneStatement
