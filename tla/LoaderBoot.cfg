SPECIFICATION FairSpec
CONSTANTS
  L1 = L1
  L2 = L2
  A1 = A1
  d1 = d1
  d2 = d2
  pL = pL
  p1 = p1
  p2 = p2
  Images <- MCImages
  LoaderImages <- MCLoaders
  SessionImages <- MCSessions
  Trees <- MCTrees
  Packages <- MCPackages
  ImageOf <- MCImageOf
  DataOf <- MCDataOf
  FormatOf <- MCFormatOf
  Factory = L1
  None = None
  Torn = Torn
  Unfinished = Unfinished
INVARIANTS
  RecordsTrue
PROPERTIES
  ContractSpec
  NotRelaunched
  StageKept
  Settles
