SPECIFICATION Spec
CONSTANTS
  a1 = a1  a2 = a2  c1 = c1
  imgA = imgA  imgC = imgC
  NoVM = NoVM
  VM = {a1, a2}
  Image = {imgA}
  Plain = {}
  ImageOf <- ImageOfEach
  MaxFaults = 1
INVARIANTS
  RunningHasImage
