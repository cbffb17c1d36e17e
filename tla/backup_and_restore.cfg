SPECIFICATION BackupSpec
CONSTANTS
  k1 = k1
  k2 = k2
  Files = {k1, k2}
  MaxBackups = 2
INVARIANT BackupIsComplete
INVARIANT ServedDataIsComplete
PROPERTY ReturnsWhatWasAsked
SYMMETRY KeySymmetry
