SPECIFICATION Spec
CONSTANTS
  Addrs <- SecretAddrs
  Words <- SecretWords
  Cells <- SecretCells
INVARIANTS
  AppUnprivileged
  SecretsStayInside
PROPERTIES
  ProtectedWords
