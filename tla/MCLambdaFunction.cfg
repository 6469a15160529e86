CONSTANTS
  k1 = k1
  k2 = k2
  z1 = z1
  z2 = z2
  o1 = o1
  none = none
  Confs <- MCConfs
  Contents <- MCContents
  Objects <- MCObjects
  None = none
SPECIFICATION Spec
INVARIANT LambdaTypeOK
INVARIANT NoSilentDrift
PROPERTY ConfiguredApplied
