\* Two messages of the broker, each byte one of five, a size and a uint32_t of three bytes.
CONSTANTS
  Radix = 5
  SizeBytes = 3
  HeadBytes = 5
  Messages <- ValueMessages
  MaxMessages = 2
  Cmds = {1, 2, 3, 4}
SPECIFICATION Spec
INVARIANTS
  MessagesAsSent
  ReadBackAsSent
  TruncatedThrows
CHECK_DEADLOCK FALSE
