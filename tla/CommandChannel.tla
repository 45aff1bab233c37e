---------------------------- MODULE CommandChannel ----------------------------
(***************************************************************************)
(* What the firmware protocol promises a client that waits for each reply: *)
(* the firmware gets exactly the command that was sent, with its header    *)
(* and the rest of the buffer zero, the client gets exactly the reply that *)
(* was given, and only a frame that is not for the firmware stops it.      *)
(***************************************************************************)
CONSTANTS
  Frames,         \* the frames a client may send
  Good(_),        \* is the frame one for the firmware?
  Delivered(_),   \* what readcommand() hands to the state machine for it
  Replies(_)      \* the frames it may answer with

VARIABLES phase, asked, taken, answer
chvars == <<phase, asked, taken, answer>>

CONSTANT None

Init == phase = "idle" /\ asked = None /\ taken = None /\ answer = None

Ask(f) == phase = "idle" /\ phase' = "asked" /\ asked' = f /\ UNCHANGED <<taken, answer>>

Take ==
  /\ phase = "asked" /\ Good(asked)
  /\ phase' = "taken" /\ taken' = Delivered(asked)
  /\ UNCHANGED <<asked, answer>>

Reject ==
  /\ phase = "asked" /\ ~Good(asked)
  /\ phase' = "failed"
  /\ UNCHANGED <<asked, taken, answer>>

Answer ==
  /\ phase = "taken"
  /\ answer' \in Replies(asked)
  /\ phase' = "answered" /\ taken' = None
  /\ UNCHANGED asked

Receive ==
  /\ phase = "answered"
  /\ phase' = "idle" /\ asked' = None /\ answer' = None
  /\ UNCHANGED taken

Next ==
  \/ \E f \in Frames : Ask(f)
  \/ Take \/ Reject \/ Answer \/ Receive

Spec == Init /\ [][Next]_chvars
=============================================================================
