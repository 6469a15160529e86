CONSTANTS
  p1 = p1  p2 = p2  v1 = v1  v2 = v2  dflt = dflt
  ParamNames <- MCParamNames
  Values <- MCValues
  Default = dflt
SPECIFICATION Spec
INVARIANT RefreshForgetsMissing
