SPECIFICATION Spec
CONSTANTS
  a1 = a1  a2 = a2  a3 = a3  b1 = b1
  imgA = imgA  imgB = imgB
  NoVM = NoVM
  VM = {a1, a2, b1}
  Image = {imgA, imgB}
  ImageOf <- TwoAndOne
  Overlap = TRUE
  PathlessPrepare = FALSE
  UncountedStop = FALSE
  SaveFails = TRUE
  TornWrite = FALSE
  MaxCrashes = 0
INVARIANTS
  SteadyInv
  CountMatchesUsers
PROPERTIES
  LastMeansNoOtherUser
  ImplementsRegistry
