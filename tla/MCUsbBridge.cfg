CONSTANTS
  UART_RX_BUF_SIZE = 9
  CTS_STOP_AT = 4
  MAX_FRAME_SIZE = 2
  MaxLength = 3
  FIFO_SIZE = 8
  FIFO_STOP_AT = 6
  Keeps <- Masks
  FrameLens <- MCFrameLens
  PacketLens <- MCPacketLens
  Budgets <- MCBudgets
SPECIFICATION Spec
INVARIANTS UploadsInOrder DeliveredIsSent OnlyActiveEndpoints
PROPERTIES NoOverrun
