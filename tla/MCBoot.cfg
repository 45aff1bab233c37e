SPECIFICATION FairSpec
CONSTANTS
  Byte = {"x", "y"}
  TK1_APP_MAX_SIZE = 3
  FRAME_DATA = 2
  Uss = {u1}
  Seeds = {s1}
  Zero = Zero
  Scrambled = Scrambled
  Residue = Residue
  allowed_app_digest <- MCMgmt
  Sizes <- MCSizes
  Frames <- MCFrames
  Digests <- MCDigests
  NextData <- MCNextData
  FlashApps <- MCFlashApps
  MaxResets = 2
INVARIANTS VerifiedStart PrivilegeIsVerified CdiBinding RequestUsedOnce ReportedAppRuns
PROPERTIES CleanRam BootEnds
CHECK_DEADLOCK FALSE
