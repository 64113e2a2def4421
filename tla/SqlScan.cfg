SPECIFICATION Spec
CONSTANTS
  Pieces <- Plain
  MaxPieces = 3
  Texts <- AllTexts
  ParamSets <- NameSets
  MaxColumns = 1
INVARIANTS
  MatchesPostgres
  OneStatement
  LimitIsEffective
  ScannersAgree
  NumbersFitArguments
  QuotedTextIsKept
