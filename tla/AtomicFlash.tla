----------------------------- MODULE AtomicFlash -----------------------------
(***************************************************************************)
(* What the other modules take a call of the flash driver for: each erase, *)
(* and each page of a write, happens in one step, in order, all of them    *)
(* before the call returns, and a read returns what is there.              *)
(***************************************************************************)
EXTENDS Naturals

CONSTANTS
  Calls,
  Pieces(_),       \* how many commands of a call change the contents
  Piece(_, _, _),  \* the contents after the i-th of them
  Reply(_, _),     \* what the call returns, given the contents
  Erased, None

VARIABLES contents, call, done, returned
avars == <<contents, call, done, returned>>

Init == contents = Erased /\ call = None /\ done = 0 /\ returned = None

Begin(c) ==
  /\ call = None
  /\ call' = c /\ done' = 0 /\ returned' = None
  /\ UNCHANGED contents

Apply ==
  /\ call # None /\ done < Pieces(call)
  /\ contents' = Piece(call, done + 1, contents)
  /\ done' = done + 1
  /\ UNCHANGED <<call, returned>>

Return ==
  /\ call # None /\ done = Pieces(call)
  /\ returned' = Reply(call, contents)
  /\ call' = None /\ done' = 0
  /\ UNCHANGED contents

Next == (\E c \in Calls : Begin(c)) \/ Apply \/ Return

Spec == Init /\ [][Next]_avars
=============================================================================
