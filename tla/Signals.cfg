CONSTANTS
  a = a  b = b  Process = Process
  Threads = {a, b}
  Order <- OrderAB
  Signals = {1, 2}
  Cap = 1
  Fatal = {1, 2}
  SaMask <- HandlerMasks
  NoDefer = {1}
  ResetHand = {2}
  Installed <- AllHandled
  Actions <- Reinstall
  Masks <- BlockAll
  SuspendMasks <- LetOne
  WaitSets <- WaitOne
  Faults = {1}
  Senders = {a, b}
  MaxSends = 2
SPECIFICATION FairSpec
INVARIANTS OwnMask NoSignalLost
PROPERTIES WaiterReturns SharedDelivered
CHECK_DEADLOCK FALSE
