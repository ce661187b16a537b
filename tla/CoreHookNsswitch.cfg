\* Test mode, a file with one hosts line, no failing call, two Hook calls and
\* a cancel at any moment: is nsswitch.conf restored once keploy stopped?
CONSTANTS
  Mode = "test"
  OrigHosts <- MCOrigHosts
  FileExists = TRUE
  CallsMayFail = FALSE
  MaxHooks = 2
  Ids <- MCIds
  Empty <- MCEmpty
  FilesDns <- MCFilesDns
SPECIFICATION Spec
INVARIANT NsswitchRestored
CHECK_DEADLOCK FALSE
