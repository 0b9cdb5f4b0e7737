CONSTANTS
  a = a  b = b  Process = Process
  Threads = {a, b}
  Order <- OrderAB
  Signals = {1, 2}
  Cap = 2
  Fatal = {1, 2}
  SaMask <- HandlerMasks
  NoDefer = {}
  ResetHand = {}
  Installed <- FirstIgnored
  Actions = {}
  Masks <- BlockAll
  SuspendMasks <- LetOne
  WaitSets <- Nothing
  Faults = {}
  Senders = {a}
  MaxSends = 2
SPECIFICATION Spec
INVARIANT OwnMask
CHECK_DEADLOCK FALSE
