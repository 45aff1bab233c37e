CONSTANTS
  FIFO_WORDS = 7
  CTS_AT = 3
  Byte <- Bytes
  USBMODE_PACKET_SIZE = 3
  CMDSIZE = 7
  Length <- Lengths
  Clients <- MCClients
  MaxStray = 1
  StraySizes <- Sizes
  None = None
SPECIFICATION Spec
INVARIANTS InStep
PROPERTIES ImplementsChannel RepliesArrive
