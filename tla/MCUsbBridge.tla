---------------------------- MODULE MCUsbBridge ----------------------------
(* Instances of UsbBridge for TLC. *)
EXTENDS UsbBridge

\* With and without DEBUG; the bits main() adds itself are missing.
Masks == {IO_CDC, IO_CDC + IO_DEBUG}
OnlyCdc == {IO_CDC}

\* Short and full frames to CDC, short ones to DEBUG, and frames to CCID, which
\* is never active here.
MCFrameLens ==
  [m \in Modes \ {IO_CH552} |->
     CASE m = IO_CDC -> {1, 2} [] m = IO_DEBUG -> {1} [] m = IO_CCID -> {1} [] OTHER -> {}]
MCPacketLens == [e \in Endpoints |-> CASE e = 2 -> {0, 2} [] e = 4 -> {1} [] OTHER -> {}]

Budget(frames, commands, packets, resets, clears, lost, window) ==
  [frames |-> frames, commands |-> commands, packets |-> packets, resets |-> resets,
   clears |-> clears, lost |-> lost, window |-> window]

\* Uploads (the third frame wraps around the ring), downloads with a lost
\* handshake, both, changes of the endpoints, downloads under a CLEAR_FEATURE
\* request and a bus reset, and a bus reset at every step of a frame or a command on
\* its way through the ring.
MCBudgets ==
  {Budget(3, 0, 0, 0, 0, 0, 2), Budget(0, 0, 2, 0, 0, 1, 2), Budget(1, 0, 1, 0, 0, 0, 2),
   Budget(1, 1, 0, 0, 0, 0, 2), Budget(0, 1, 1, 0, 0, 0, 2), Budget(1, 0, 0, 0, 1, 0, 2),
   Budget(0, 0, 1, 1, 1, 0, 2), Budget(1, 0, 0, 1, 0, 0, 2), Budget(0, 1, 0, 1, 0, 0, 2)}
TwoFrames == {Budget(2, 0, 0, 0, 0, 0, 2)}

\* Full frames and full packets to CDC: two frames fill the ring, and two packets,
\* when the host does not wait for the first to be read, the FIFO.
FlowFrameLens == [m \in Modes \ {IO_CH552} |-> IF m = IO_CDC THEN {MAX_FRAME_SIZE} ELSE {}]
FlowPacketLens == [e \in Endpoints |-> IF e = 2 THEN {MAX_FRAME_SIZE} ELSE {}]
FlowBudgets ==
  {Budget(2, 0, 2, 0, 0, 0, 1), Budget(2, 0, 2, 0, 0, 0, 2), Budget(1, 1, 2, 0, 0, 0, 2)}

\* A frame and a bus reset.
OneReset == {Budget(1, 0, 0, 1, 0, 0, 2)}
=============================================================================
