SPECIFICATION Spec
CONSTANTS
  DeviceStrings <- AllStrings
  IfaceNum = {0, 1, 3}
  EndpointsOf <- Endpoints
  HidExtra <- Extras
  Reports <- ReportDescs
  Names <- Strings
  MaxAlts = 2
INVARIANT StringsResolve
CHECK_DEADLOCK FALSE
