SPECIFICATION Spec
CONSTANTS
  a1 = a1  a2 = a2  c1 = c1
  imgA = imgA  imgC = imgC
  NoVM = NoVM
  VM = {a1, a2, c1}
  Image = {imgA, imgC}
  Plain = {imgC}
  ImageOf <- ImageOfEach
  MaxFaults = 1
INVARIANTS
  TypeOK
  ImageStays
  RunningDiskInVolume
  RunningAttested
  OffVolumeClosed
  CountMatchesRunning
  ChangeDiskKept
PROPERTIES
  DataStays
SYMMETRY Alike
