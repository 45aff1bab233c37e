CONSTANTS
  Prescaler = 2
  Ticks <- MCTicks
  MaxCalls = 2
  MaxTouches = 4
  PAGE_SIZE = 8
  SectorSize = 16
  Block32Size = 32
  Block64Size = 64
  FlashSize = 128
  Programs <- MCPrograms
  NoCall = NoCall
  SAMPLE_CYCLES = 2
  SKIP_BITS = 4
  WordBits = 4
  BitCtrRange = 16
  Callers <- MCCallers
  Message <- MCMessage
  WordLimit = 2147483647
  Table = {t1, t2, t3}
  Invalid = Invalid
  MaxFaults = 4
  Masks <- AllMasks
  Lengths = {0, 9, 64, 255}
  Addresses = {5, 9}
  OutData = {"SET_LINE_CODING"}
  MaxRequests = 2
  MaxLost = 1
SPECIFICATION BenchSpec
INVARIANTS
  TouchWaitIsRight
  WordsAreFresh
  DigestIsOfMessage
  NeverWithoutTable
  RecoversLatest
  DescriptorIsExact
  ConfigurationIsSound
PROPERTIES
  ImplementsAtomicFlash
  DriversReturn
  AddressAfterStatus
  TransfersEnd
