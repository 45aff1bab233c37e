---------------------------- MODULE MCAppStorage ----------------------------
(***************************************************************************)
(* AppStorage for TLC: three apps for two areas, so that areas run out and *)
(* change hands.  The two ordinary apps are interchangeable.               *)
(***************************************************************************)
EXTENDS AppStorage, TLC

Symmetry == Permutations(Cdi \ {MgmtCdi})
=============================================================================
