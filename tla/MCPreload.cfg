SPECIFICATION Spec
CONSTANTS
  Data = {d1, d2}
  Digest = {g1, g2}
  Pubkey = {k}
  Zero = Zero
  BLOCK_CHUNKS = 1
  Buffers <- MCBuffers
  Invalid = Invalid
  MaxFaults = 2
INVARIANTS InstalledIsWhole ToldIsDurable
