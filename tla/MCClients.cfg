SPECIFICATION StreamSpec
CONSTANTS
  sender = sender
  receiver = receiver
  closer = closer
  Nobody = nobody
  Goroutines = {sender, receiver, closer}
  May <- MayCall
  MaxCalls <- Quota
  Bodies <- Responses
  ErrorUnits = 1
INVARIANTS
  StreamFaithful
  NothingLeaks
PROPERTIES
  CallsReturn
CHECK_DEADLOCK FALSE
