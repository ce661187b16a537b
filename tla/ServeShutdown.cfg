\* Any failing hooks call, up to two interrupts at any moment, a server that
\* may fail to listen: the hooks and proxy are stopped at most once, and Serve
\* returns once the application has ended.
CONSTANTS
  MaxSignals <- MCMaxSignals
  HooksMayFail = TRUE
  ListenMayFail = TRUE
SPECIFICATION FairSpec
INVARIANT StopAtMostOnce
INVARIANT IInv
PROPERTY ServeReturns
PROPERTY ImplementsResources
CHECK_DEADLOCK FALSE
