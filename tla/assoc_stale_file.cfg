SPECIFICATION Spec
CONSTANTS
  a1 = a1  a2 = a2  a3 = a3  b1 = b1
  imgA = imgA  imgB = imgB
  NoVM = NoVM
  VM = {a1, a2}
  Image = {imgA}
  ImageOf <- OneImage
  Overlap = TRUE
  PathlessPrepare = FALSE
  UncountedStop = FALSE
  SaveFails = FALSE
  TornWrite = FALSE
  MaxCrashes = 0
INVARIANTS
  FileMatchesMap
