SPECIFICATION Spec
CONSTANTS
  Cdi = {a, b, m}
  MgmtCdi = m
  None = None
  Nonce = {n}
  N_STORAGE_AREA = 2
  BLOCK_SECTORS = 1
  Invalid = Invalid
  MaxFaults = 3
SYMMETRY Symmetry
INVARIANTS OneAreaPerApp NoForeignData FreeIsErased AllocationDurable
PROPERTY OnlyOwnerChangesData
