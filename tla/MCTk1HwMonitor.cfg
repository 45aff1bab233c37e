SPECIFICATION Spec
CONSTANTS
  Addrs <- MonitorAddrs
  Words <- MonitorWords
  Cells <- MonitorCells
INVARIANTS
  NoForbiddenFetch
PROPERTIES
  TrapIsSilent
  StrikeStops
  BusAnswers
