SPECIFICATION KernelSpec
CONSTANTS
  None = None
  KInstances = {i1}
  InvokeTimeouts = {3}
  HeaderValues = {None}
  BadNumber = BadNumber
  GrayNums = {10}
  BlueRatios = {0, 50}
  BadSession = BadSession
  MaxInvokeRetries = 1
  MaxClock = 1
INVARIANT RoutingFailureSparesLease
CHECK_DEADLOCK FALSE
