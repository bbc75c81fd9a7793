SPECIFICATION Spec
CONSTANTS
  DeviceStrings <- NoStrings
  IfaceNum = {0, 1, 3}
  EndpointsOf <- Endpoints
  HidExtra <- Extras
  Reports <- ReportDescs
  Names <- Strings
  MaxAlts = 3
INVARIANTS HidgRoundTrip LoadMatchesEmulate ReportsDeclared FfsTablesAgree StringsResolve FfsReadsBack OutputComesHome
CHECK_DEADLOCK FALSE
