CONSTANTS
  t1 = t1
  t2 = t2
  t3 = t3
  none = none
  TeamIds <- MCTeamIds
  NoId <- none
  Ldaps = {"", "dn"}
SYMMETRY Perms
SPECIFICATION Spec
INVARIANT TeamTypeOK AppliedMatchesConfig
