CONSTANTS
  a = a  b = b  Process = Process
  Threads = {a, b}
  Order <- OrderAB
  Signals = {1, 2}
  Cap = 2
  Fatal = {1, 2}
  SaMask <- HandlerMasks
  NoDefer = {}
  ResetHand = {}
  Installed <- AllHandled
  Actions = {}
  Masks <- Nothing
  SuspendMasks <- LetOne
  WaitSets <- Nothing
  Faults = {}
  Senders = {b}
  MaxSends = 2
SPECIFICATION FairSpec
PROPERTY SleeperWakes
CHECK_DEADLOCK FALSE
