------------------------------- MODULE MCBoot -------------------------------
(***************************************************************************)
(* Boot for TLC: a RAM of three bytes, two bytes per frame, so that an app *)
(* of three bytes needs two frames and the last one is not full.           *)
(***************************************************************************)
EXTENDS Boot

\* The management app, and an app of the same size.
MCMgmt == [i \in 0 .. 1 |-> "x"]
MCOther == [i \in 0 .. 1 |-> "y"]

MCFrames == {[i \in 0 .. 1 |-> "x"], [i \in 0 .. 1 |-> "y"]}
MCDigests == {Zero, MCMgmt, MCOther}
MCSizes == {0, 2, 3, 4}
MCFlashApps == {[size |-> 0, data |-> [i \in Ram |-> "y"]],
                [size |-> 2, data |-> [i \in Ram |-> "x"]],
                [size |-> 2, data |-> [i \in Ram |-> "y"]]}
MCNextData == {Zero, "next"}
=============================================================================
