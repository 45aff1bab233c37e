-------------------------------- MODULE Trng --------------------------------
(***************************************************************************)
(* The random number core (core/trng) and the firmware's reads of it       *)
(* (rng.c and rnd_word() in main.c).                                       *)
(*                                                                         *)
(* The oscillators are sampled twice for a bit of entropy; bits are        *)
(* shifted into a word, and a word may be read when enough new ones have   *)
(* come in.  The value of a sample or bit is left out: what is kept is     *)
(* whether it is stale, that is, already part of a bit or of a word that   *)
(* was handed out, or no sample at all.                                    *)
(***************************************************************************)
EXTENDS Naturals

CONSTANTS
  SAMPLE_CYCLES,  \* clocks between two samples, 0x1000 in the code
  SKIP_BITS,      \* new bits before a word is ready, 32
  WordBits,       \* bits of a word, 32
  BitCtrRange     \* values of bit_ctr_reg, 2^8

ASSUME TrngAssumption ==
  /\ SAMPLE_CYCLES \in Nat /\ SKIP_BITS \in Nat /\ BitCtrRange \in Nat
  /\ WordBits \in Nat /\ WordBits > 0
  /\ WordBits <= SKIP_BITS /\ SKIP_BITS + 1 < BitCtrRange

VARIABLES
  cycle_ctr_reg, bit_ctr_reg, data_ready_reg, trng_ctrl_reg,
  older, newer, \* bits 1 and 0 of sample1_reg and of sample2_reg, which change
                \* together: stale?
  entropy_reg,  \* stale?
  rpc,          \* where rng_get_word() is
  word          \* the word it returned last
trngvars == <<cycle_ctr_reg, bit_ctr_reg, data_ready_reg, trng_ctrl_reg, older, newer,
              entropy_reg, rpc, word>>

Stale == [i \in 1 .. WordBits |-> TRUE]

TrngReset ==
  /\ cycle_ctr_reg = 0 /\ bit_ctr_reg = 0 /\ data_ready_reg = FALSE
  /\ trng_ctrl_reg = "SAMPLE1"
  /\ older = TRUE /\ newer = TRUE /\ entropy_reg = Stale

TrngInit == TrngReset /\ rpc = "idle" /\ word = [i \in 1 .. WordBits |-> FALSE]

cycle_ctr_done == cycle_ctr_reg = SAMPLE_CYCLES

(* cycle_ctr_logic: the counter starts again with every sample. *)
CycleCtr ==
  cycle_ctr_reg' = IF trng_ctrl_reg # "DATA_READY" /\ cycle_ctr_done THEN 0 ELSE cycle_ctr_reg + 1

BitCtrKept(read) ==
  LET inc == trng_ctrl_reg = "DATA_READY"
  IN /\ bit_ctr_reg' = IF ~inc THEN bit_ctr_reg
                       ELSE IF bit_ctr_reg + 1 < BitCtrRange THEN bit_ctr_reg + 1 ELSE 0
     /\ data_ready_reg' = (~read /\ (data_ready_reg \/ (inc /\ bit_ctr_reg = SKIP_BITS)))

(* bit_ctr_logic: reading the word goes before counting a bit. *)
BitCtr(read) ==
  LET inc == trng_ctrl_reg = "DATA_READY"
  IN /\ bit_ctr_reg' = IF read THEN 0
                       ELSE IF ~inc THEN bit_ctr_reg
                       ELSE IF bit_ctr_reg + 1 < BitCtrRange THEN bit_ctr_reg + 1 ELSE 0
     /\ data_ready_reg' = (~read /\ (data_ready_reg \/ (inc /\ bit_ctr_reg = SKIP_BITS)))

(* trng_ctrl_logic.  With a read on this edge all bits in the word are handed
   out; the bit that comes in on the same edge is not one of them. *)
Sampling(next) ==
  IF cycle_ctr_done THEN older' = newer /\ newer' = FALSE /\ trng_ctrl_reg' = next
                    ELSE UNCHANGED <<older, newer, trng_ctrl_reg>>

Shifted(bits, new) == [i \in 1 .. WordBits |-> IF i < WordBits THEN bits[i + 1] ELSE new]

TrngCtrl(read) ==
  LET bits == IF read THEN Stale ELSE entropy_reg
  IN \/ trng_ctrl_reg = "SAMPLE1" /\ Sampling("SAMPLE2") /\ entropy_reg' = bits
     \/ trng_ctrl_reg = "SAMPLE2" /\ Sampling("DATA_READY") /\ entropy_reg' = bits
     \/ /\ trng_ctrl_reg = "DATA_READY"
        /\ entropy_reg' = Shifted(bits, older \/ newer)
        /\ older' = TRUE /\ newer' = TRUE
        /\ trng_ctrl_reg' = "SAMPLE1"

(* One rising edge; `read': the CPU reads ENTROPY. *)
TrngEdge(read) == CycleCtr /\ BitCtr(read) /\ TrngCtrl(read)

(***************************************************************************)
(* rng_get_word(); any number of clocks may pass between its accesses.     *)
(***************************************************************************)
TrngTick == TrngEdge(FALSE) /\ UNCHANGED <<rpc, word>>

CallRng == rpc = "idle" /\ rpc' = "status" /\ TrngEdge(FALSE) /\ UNCHANGED word

ReadStatus ==
  /\ rpc = "status"
  /\ rpc' = IF data_ready_reg THEN "entropy" ELSE "status"
  /\ TrngEdge(FALSE) /\ UNCHANGED word

ReadEntropy ==
  /\ rpc = "entropy"
  /\ rpc' = "idle" /\ word' = entropy_reg
  /\ TrngEdge(TRUE)

\* A system reset; the word that was returned is not used any more.
ResetTrng ==
  /\ cycle_ctr_reg' = 0 /\ bit_ctr_reg' = 0 /\ data_ready_reg' = FALSE
  /\ trng_ctrl_reg' = "SAMPLE1"
  /\ older' = TRUE /\ newer' = TRUE /\ entropy_reg' = Stale
  /\ rpc' = "idle" /\ word' = [i \in 1 .. WordBits |-> FALSE]

TrngNext == TrngTick \/ CallRng \/ ReadStatus \/ ReadEntropy \/ ResetTrng

TrngSpec == TrngInit /\ [][TrngNext]_trngvars

\* The CPU runs.
TrngFairness == WF_trngvars(ReadStatus) /\ WF_trngvars(ReadEntropy)

(***************************************************************************)
(* Properties                                                              *)
(***************************************************************************)
(* Each word that rng_get_word() returns is made of bits that are in no word
   it returned before, each from two samples of its own, even when the word is
   read on the very clock a bit comes in or long after it was ready. *)
WordsAreFresh == \A i \in 1 .. WordBits : ~word[i]
=============================================================================
