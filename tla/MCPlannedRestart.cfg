SPECIFICATION Spec
CONSTANTS
  w1 = w1
  w2 = w2
  w3 = w3
  Work <- MCWork
  EventOf <- MCEventOf
  Fitting <- MCFitting
  MaxRecords = 1
  NoFile = NoFile
  Torn = Torn
  MaxStray = 1
  MaxGeneration = 3
INVARIANTS NothingLost SecuredOnDisk ExitDurable NeverTorn DrainedLeavesNoSpool
