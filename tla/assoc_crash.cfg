SPECIFICATION Spec
CONSTANTS
  a1 = a1  a2 = a2  a3 = a3  b1 = b1
  imgA = imgA  imgB = imgB
  NoVM = NoVM
  VM = {a1, a2, b1}
  Image = {imgA, imgB}
  ImageOf <- TwoAndOne
  Overlap = FALSE
  PathlessPrepare = FALSE
  UncountedStop = FALSE
  SaveFails = FALSE
  TornWrite = FALSE
  MaxCrashes = 2
INVARIANTS
  CountCoversUsers
  FileMatchesMap
