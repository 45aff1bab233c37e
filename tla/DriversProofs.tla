---------------------------- MODULE DriversProofs ----------------------------
(***************************************************************************)
(* Proofs for the drivers, each of which is on its own.                    *)
(*                                                                         *)
(* The drivers of the device libraries and of the firmware: touch_wait()   *)
(* is right about touches and timeouts, no bit of entropy is handed out    *)
(* twice, and what a system call touches is the app's own, for every       *)
(* timeout, every size of word and counter, and every pointer and offset.  *)
(*                                                                         *)
(* The flash driver: with the SPI master and the device, clock edge by     *)
(* clock edge and bit by bit, it implements AtomicFlash, for every program *)
(* of calls, every contents and every size of page, sector and flash.      *)
(*                                                                         *)
(* The driver of the control endpoint in the CH552 (whose Init, Next, vars *)
(* and Spec have no prefix): the address changes in its status stage, and  *)
(* descriptors arrive byte for byte, for every number of requests, lost    *)
(* handshakes and lengths.                                                 *)
(*                                                                         *)
(* The hash library: the digest is that of RFC 7693, for every key and     *)
(* every message, in whatever pieces it is added.                          *)
(***************************************************************************)
EXTENDS UsbControl, TouchWait, Trng, FlashArgs, SpiFlash, Blake2s, WellFoundedInduction, SequenceTheorems, TLAPS

-----------------------------------------------------------------------------
(* touch_wait(): the sensor *)

SensorTypes ==
  /\ touch_event \in Nat /\ sample0_reg \in Nat /\ sample1_reg \in Nat
  /\ touch_event_reg \in Nat /\ touches \in Nat /\ known \in Nat /\ confirmed \in Nat
  /\ touch_sense_ctrl_reg \in {"IDLE", "EVENT", "WAIT"}

\* A touch is in the sampling registers once, and touches stay in their order.
Sampled ==
  /\ touch_event \in {0, touches} /\ sample0_reg <= touches /\ sample1_reg <= touches
  /\ sample0_reg > 0 /\ touch_event > 0 => sample0_reg <= touch_event
  /\ sample1_reg > 0 /\ sample0_reg > 0 => sample1_reg <= sample0_reg
  /\ sample1_reg > 0 /\ sample0_reg = 0 => touch_event = 0 \/ sample1_reg < touch_event

\* The latest touch the program can know of, and whether a level is from it.
LatestKnown == Later(Later(known, confirmed), touch_event_reg)
IsOld(touch) == touch > 0 /\ touch <= LatestKnown

\* No old touch becomes an event: until sample1_reg has been 0 the core waits.
EventsAreNew ==
  /\ touch_event_reg > 0 <=> touch_sense_ctrl_reg = "EVENT"
  /\ touch_event_reg > 0 => touch_event_reg > Later(known, confirmed)
  /\ LatestKnown <= touches
  /\ IsOld(sample0_reg) => IsOld(sample1_reg)
  /\ IsOld(touch_event) => IsOld(sample0_reg)
  /\ touch_sense_ctrl_reg = "IDLE" => ~IsOld(sample1_reg)

SensorInv == SensorTypes /\ Sampled /\ EventsAreNew

-----------------------------------------------------------------------------
(* touch_wait(): the timer *)

Before == {"call", "prescaler", "timer", "start"}
Waiting == {"stray", "touched", "status", "time", "final"}

TimerTypes ==
  /\ core_prescaler_reg \in Nat /\ core_timer_reg \in Nat /\ elapsed \in Nat /\ timeout \in Nat
  /\ running \in BOOLEAN /\ start_reg \in BOOLEAN /\ stop_reg \in BOOLEAN
  /\ prescaler_reg \in Nat /\ timer_reg \in Nat
  /\ pc \in Before \cup Waiting \cup {"stop", "confirm"}
  /\ result \in {"none", "true", "false"}

\* The timer is set to what was asked for, stands still between two calls, and
\* the pulses are seen by the core before anything else is written.
TimerIsSet ==
  /\ pc \notin {"call", "prescaler"} => prescaler_reg = Prescaler
  /\ pc \notin {"call", "prescaler", "timer"} => timer_reg = timeout
  /\ pc \in Before => ~running
  /\ start_reg => pc = "stray" /\ ~running
  /\ stop_reg => pc = "confirm"
  /\ pc = "confirm" => stop_reg \/ ~running

\* What the clocks still to come are worth, and what has passed.
EnoughTime(e, t, p) ==
  \/ e + t * Prescaler + p >= Prescaler * timeout + Prescaler
  \/ e >= Prescaler * timeout

\* While the timer runs, the clocks passed and those still to come are enough;
\* once it has stopped by itself, those passed are.
TimeIsKept ==
  /\ pc \in Waiting /\ running => EnoughTime(elapsed, core_timer_reg, core_prescaler_reg)
  /\ pc \in Waiting /\ ~running /\ ~start_reg => elapsed >= Prescaler * timeout

\* What the answer rests on.
AnswerIsFounded ==
  /\ pc = "final" => touch_event_reg > 0 \/ ~running
  /\ pc \in {"stop", "confirm"} => touch_event_reg > 0
  /\ result # "none" => pc = "call"

TimerInv == TimerTypes /\ TimerIsSet /\ TimeIsKept

TouchInv == SensorInv /\ TimerInv /\ AnswerIsFounded /\ TouchWaitIsRight

Unknowing(a) == ~Writes(a, "touch") /\ UNCHANGED <<known, confirmed>>
Acknowledging(a) ==
  /\ Writes(a, "touch") /\ confirmed' = confirmed
  /\ known' = IF touch_sense_ctrl_reg = "EVENT" THEN touch_event_reg ELSE Later(known, confirmed)
Confirming(a) ==
  /\ Writes(a, "touch") /\ touch_event_reg > 0 /\ known' = known
  /\ confirmed' = touch_event_reg

\* The samples move on by one, the finger does what it does.
LEMMA SamplesMove ==
  ASSUME SensorTypes, Sampled, Finger, NEW a, Sense(a)
  PROVE  /\ touch_event' \in Nat /\ sample0_reg' \in Nat /\ sample1_reg' \in Nat
         /\ touches' \in Nat /\ touches <= touches'
         /\ touch_event' \in {0, touch_event} \/ touch_event' = touches + 1
         /\ Sampled'
<1>1. /\ touch_event \in Nat /\ sample0_reg \in Nat /\ sample1_reg \in Nat /\ touches \in Nat
      /\ sample0_reg' = touch_event /\ sample1_reg' = sample0_reg
  BY DEF SensorTypes, Sense
<1>2. \/ touch_event' = touch_event /\ touches' = touches
      \/ touch_event' = touches + 1 /\ touches' = touches + 1
      \/ touch_event' = 0 /\ touches' = touches
  BY DEF Finger
<1> QED
  BY <1>1, <1>2 DEF Sampled

LEMMA SenseStep ==
  ASSUME SensorInv, Finger, NEW a, Sense(a), Unknowing(a) \/ Acknowledging(a) \/ Confirming(a)
  PROVE  /\ SensorInv'
         /\ ~Writes(a, "touch") /\ touch_event_reg > 0 => touch_event_reg' = touch_event_reg
<1> USE DEF SensorInv
<1>1. /\ touch_event \in Nat /\ sample0_reg \in Nat /\ sample1_reg \in Nat /\ touches \in Nat
      /\ touch_event_reg \in Nat /\ known \in Nat /\ confirmed \in Nat
      /\ touch_sense_ctrl_reg \in {"IDLE", "EVENT", "WAIT"}
      /\ sample0_reg' = touch_event /\ sample1_reg' = sample0_reg
  BY DEF SensorTypes, Sense
<1>2. /\ touch_event' \in Nat /\ sample0_reg' \in Nat /\ sample1_reg' \in Nat
      /\ touches' \in Nat /\ touches <= touches'
      /\ touch_event' \in {0, touch_event} \/ touch_event' = touches + 1
      /\ Sampled'
  BY SamplesMove
<1>0. LatestKnown \in Nat /\ Later(known, confirmed) \in Nat
  BY <1>1 DEF LatestKnown, Later
<1>3. CASE touch_sense_ctrl_reg = "IDLE" /\ sample1_reg > 0
  <2>1. touch_event_reg' = sample1_reg /\ touch_sense_ctrl_reg' = "EVENT" /\ touch_event_reg = 0
    BY <1>1, <1>3 DEF Sense, EventsAreNew
  <2>2. /\ known' \in Nat /\ confirmed' \in Nat
        /\ Later(known', confirmed') <= Later(known, confirmed)
        /\ sample1_reg > Later(known, confirmed)
    BY <1>1, <1>3, <2>1
       DEF Unknowing, Acknowledging, Confirming, Later, EventsAreNew, IsOld, LatestKnown
  <2>3. LatestKnown' = sample1_reg
    BY <1>1, <2>1, <2>2 DEF LatestKnown, Later
  <2>4. EventsAreNew'
    BY <1>1, <1>2, <1>3, <2>1, <2>2, <2>3 DEF EventsAreNew, IsOld, Later, Sampled
  <2> QED
    BY <1>1, <1>2, <2>1, <2>2, <2>4 DEF SensorTypes
<1>4. CASE touch_sense_ctrl_reg = "EVENT" /\ Writes(a, "touch")
  <2>1. touch_event_reg' = 0 /\ touch_sense_ctrl_reg' = "WAIT" /\ touch_event_reg > 0
    BY <1>1, <1>4 DEF Sense, EventsAreNew
  <2>2. /\ known' \in Nat /\ confirmed' \in Nat /\ Later(known', confirmed') \in Nat
        /\ LatestKnown' = LatestKnown
    BY <1>1, <1>4, <2>1
       DEF Unknowing, Acknowledging, Confirming, Later, EventsAreNew, LatestKnown
  <2>3. EventsAreNew'
    BY <1>0, <1>1, <1>2, <1>4, <2>1, <2>2 DEF EventsAreNew, IsOld
  <2> QED
    BY <1>1, <1>2, <1>4, <2>1, <2>2, <2>3 DEF SensorTypes
<1>5. CASE touch_sense_ctrl_reg = "EVENT" /\ ~Writes(a, "touch")
  <2>1. UNCHANGED <<touch_event_reg, touch_sense_ctrl_reg, known, confirmed>>
    BY <1>1, <1>5 DEF Sense, Unknowing, Acknowledging, Confirming
  <2>2. LatestKnown' = LatestKnown
    BY <2>1 DEF LatestKnown, Later
  <2>3. EventsAreNew'
    BY <1>0, <1>1, <1>2, <1>5, <2>1, <2>2 DEF EventsAreNew, IsOld, Later
  <2> QED
    BY <1>1, <1>2, <2>1, <2>3 DEF SensorTypes
<1>6. CASE \/ touch_sense_ctrl_reg = "WAIT"
           \/ touch_sense_ctrl_reg = "IDLE" /\ sample1_reg = 0
  <2>1. /\ touch_event_reg' = touch_event_reg /\ touch_event_reg = 0
        /\ touch_sense_ctrl_reg' \in {"IDLE", "WAIT"}
        /\ touch_sense_ctrl_reg' = "IDLE" => sample1_reg = 0
    BY <1>1, <1>6 DEF Sense, EventsAreNew
  <2>2. known' \in Nat /\ confirmed' \in Nat /\ LatestKnown' = LatestKnown
    BY <1>1, <1>6, <2>1 DEF Unknowing, Acknowledging, Confirming, Later, LatestKnown
  <2>3. EventsAreNew'
    BY <1>0, <1>1, <1>2, <1>6, <2>1, <2>2 DEF EventsAreNew, IsOld
  <2> QED
    BY <1>1, <1>2, <2>1, <2>2, <2>3 DEF SensorTypes
<1> QED
  BY <1>1, <1>3, <1>4, <1>5, <1>6

-----------------------------------------------------------------------------
LEMMA OneTickMore ==
  ASSUME NEW m \in Nat, NEW k \in Nat, k > 0
  PROVE  /\ k * m \in Nat /\ (k - 1) * m \in Nat
         /\ k * m = (k - 1) * m + m
OBVIOUS

Elapses == elapsed' = IF elapsed <= Prescaler * timeout THEN elapsed + 1 ELSE elapsed

\* An edge while the timer runs and is not told to stop.
LEMMA TimerRuns ==
  ASSUME TimerTypes, prescaler_reg = Prescaler, running, ~stop_reg, CoreStop \/ CoreCount,
         Elapses, timeout' = timeout, EnoughTime(elapsed, core_timer_reg, core_prescaler_reg)
  PROVE  /\ core_timer_reg' \in Nat /\ core_prescaler_reg' \in Nat /\ running' \in BOOLEAN
         /\ running' => EnoughTime(elapsed, core_timer_reg, core_prescaler_reg)'
         /\ ~running' => elapsed' >= Prescaler * timeout
<1>1. /\ core_prescaler_reg \in Nat /\ core_timer_reg \in Nat /\ elapsed \in Nat
      /\ Prescaler \in Nat /\ timeout \in Nat /\ running \in BOOLEAN
  BY TouchAssumption DEF TimerTypes
<1> DEFINE goal == Prescaler * timeout
           rest == core_timer_reg * Prescaler
<1>2. goal \in Nat /\ rest \in Nat
  BY <1>1
<1>3. \/ elapsed + rest + core_prescaler_reg >= goal + Prescaler
      \/ elapsed >= goal
  BY DEF EnoughTime
<1>4. elapsed' = IF elapsed <= goal THEN elapsed + 1 ELSE elapsed
  BY DEF Elapses
<1>5. CASE Expired
  <2>1. running' = FALSE /\ UNCHANGED <<core_prescaler_reg, core_timer_reg>>
    BY <1>5 DEF CoreStop, CoreCount
  <2>2. rest <= Prescaler
    <3>1. core_timer_reg = 0 \/ core_timer_reg = 1
      BY <1>1, <1>5 DEF Expired
    <3> QED
      BY <1>1, <3>1
  <2>3. core_prescaler_reg <= 1
    BY <1>5 DEF Expired, LastTick
  <2> HIDE DEF goal, rest
  <2>4. elapsed' >= goal
    BY <1>1, <1>2, <1>3, <1>4, <2>2, <2>3
  <2> QED
    BY <1>1, <2>1, <2>4 DEF goal
<1>6. CASE ~Expired /\ LastTick
  <2>1. /\ running' \in BOOLEAN /\ running' /\ core_prescaler_reg' = Prescaler
        /\ core_timer_reg' = core_timer_reg - 1 /\ core_timer_reg > 1 /\ core_prescaler_reg <= 1
    <3>1. CoreCount
      BY <1>6 DEF CoreStop
    <3>2. core_timer_reg > 1 /\ core_prescaler_reg <= 1
      BY <1>1, <1>6 DEF Expired, LastTick
    <3>3. core_prescaler_reg' = Prescaler /\ core_timer_reg' = core_timer_reg - 1
      BY <1>6, <3>1 DEF CoreCount
    <3>4. running' \in BOOLEAN /\ running'
      BY <1>1, <3>1 DEF CoreCount
    <3> QED
      BY <3>2, <3>3, <3>4
  <2> DEFINE less == core_timer_reg' * Prescaler
  <2>2. less \in Nat /\ rest = less + Prescaler
    BY <1>1, <2>1, OneTickMore
  <2> HIDE DEF goal, rest, less
  <2>3. elapsed' + less + Prescaler >= goal + Prescaler \/ elapsed' >= goal
    BY <1>1, <1>2, <1>3, <1>4, <2>1, <2>2
  <2> QED
    BY <1>1, <2>1, <2>3 DEF goal, less, EnoughTime
<1>7. CASE ~LastTick
  <2>1. /\ running' \in BOOLEAN /\ running' /\ core_prescaler_reg' = core_prescaler_reg - 1
        /\ core_timer_reg' = core_timer_reg /\ core_prescaler_reg > 1
    <3>1. CoreCount
      BY <1>7 DEF CoreStop, Expired
    <3>2. core_prescaler_reg > 1
      BY <1>1, <1>7 DEF LastTick
    <3>3. core_prescaler_reg' = core_prescaler_reg - 1 /\ core_timer_reg' = core_timer_reg
      BY <1>7, <3>1 DEF CoreCount
    <3>4. running' \in BOOLEAN /\ running'
      BY <1>1, <3>1 DEF CoreCount
    <3> QED
      BY <3>2, <3>3, <3>4
  <2> HIDE DEF goal, rest
  <2>2. \/ elapsed' + rest + core_prescaler_reg' >= goal + Prescaler
        \/ elapsed' >= goal
    BY <1>1, <1>2, <1>3, <1>4, <2>1
  <2> QED
    BY <1>1, <2>1, <2>2 DEF goal, rest, EnoughTime
<1> QED
  BY <1>5, <1>6, <1>7

\* The timer core, whatever it does.
CoreEdge == CoreStart \/ CoreStop \/ CoreCount \/ CoreIdle

LEMMA CoreTypes ==
  ASSUME TimerTypes, CoreEdge
  PROVE  core_prescaler_reg' \in Nat /\ core_timer_reg' \in Nat /\ running' \in BOOLEAN
<1>1. /\ core_prescaler_reg \in Nat /\ core_timer_reg \in Nat /\ running \in BOOLEAN
      /\ prescaler_reg \in Nat /\ timer_reg \in Nat
  BY DEF TimerTypes
<1>2. CASE CoreStart \/ CoreStop \/ CoreIdle
  BY <1>1, <1>2 DEF CoreStart, CoreStop, CoreIdle
<1>3. CASE CoreCount
  <2>1. LastTick => core_timer_reg > 1
    BY <1>1, <1>3 DEF CoreCount, Expired
  <2>2. ~LastTick => core_prescaler_reg > 1
    BY <1>1 DEF LastTick
  <2>3. running' \in BOOLEAN
    BY <1>1, <1>3 DEF CoreCount
  <2>4. CASE LastTick
    BY <1>1, <1>3, <2>1, <2>3, <2>4 DEF CoreCount
  <2>5. CASE ~LastTick
    BY <1>1, <1>3, <2>2, <2>3, <2>5 DEF CoreCount
  <2> QED
    BY <2>4, <2>5
<1> QED
  BY <1>2, <1>3 DEF CoreEdge

Accesses ==
  {NoAccess, ReadReg("touch"), ReadReg("status"), ReadReg("timer"), WriteReg("touch", 0)}

\* An edge on which nothing is written to the timer.
LEMMA QuietEdge ==
  ASSUME TimerInv, NEW a \in Accesses, TouchEdge(a)
  PROVE  /\ start_reg' = FALSE /\ stop_reg' = FALSE /\ UNCHANGED <<prescaler_reg, timer_reg>>
         /\ core_prescaler_reg' \in Nat /\ core_timer_reg' \in Nat /\ running' \in BOOLEAN
         /\ elapsed' \in Nat /\ elapsed' >= elapsed
         /\ ~running /\ ~start_reg => ~running'
         /\ pc = "confirm" => ~running'
         /\ pc \in Waiting /\ timeout' = timeout =>
              /\ running' => EnoughTime(elapsed, core_timer_reg, core_prescaler_reg)'
              /\ ~running' => elapsed' >= Prescaler * timeout
<1>1. /\ TimerTypes /\ TimerIsSet /\ TimeIsKept /\ CoreEdge /\ elapsed \in Nat
      /\ running \in BOOLEAN /\ start_reg \in BOOLEAN /\ stop_reg \in BOOLEAN
  BY DEF TimerInv, TimerTypes, TouchEdge, CoreEdge
<1>2. \A r \in {"ctrl", "prescaler", "timer"} : ~Writes(a, r)
  BY DEF Accesses, NoAccess, ReadReg, WriteReg, Writes
<1>3. start_reg' = FALSE /\ stop_reg' = FALSE /\ UNCHANGED <<prescaler_reg, timer_reg>>
  BY <1>2 DEF TouchEdge, TimerApi
<1>4. core_prescaler_reg' \in Nat /\ core_timer_reg' \in Nat /\ running' \in BOOLEAN
  BY <1>1, CoreTypes
<1>5. Elapses
  BY <1>2 DEF TouchEdge, Elapses
<1>6. elapsed' \in Nat /\ elapsed' >= elapsed
  BY <1>1, <1>5 DEF Elapses
<1>7. ~running /\ ~start_reg => CoreIdle /\ running' = running
  BY <1>1 DEF CoreEdge, CoreStart, CoreStop, CoreCount, CoreIdle
<1>8. pc = "confirm" => ~running'
  <2>1. CASE pc = "confirm" /\ running
    <3>1. CoreStop
      BY <1>1, <2>1 DEF CoreEdge, CoreStart, CoreStop, CoreCount, CoreIdle, TimerIsSet
    <3> QED
      BY <3>1 DEF CoreStop
  <2>2. CASE pc = "confirm" /\ ~running
    BY <1>1, <1>7, <2>2 DEF TimerIsSet
  <2> QED
    BY <2>1, <2>2
<1>9. ASSUME pc \in Waiting, timeout' = timeout
      PROVE  /\ running' => EnoughTime(elapsed, core_timer_reg, core_prescaler_reg)'
             /\ ~running' => elapsed' >= Prescaler * timeout
  <2>1. prescaler_reg = Prescaler /\ timer_reg = timeout /\ ~stop_reg
    BY <1>1, <1>9 DEF TimerIsSet, Waiting
  <2>2. CASE running
    <3>1. CoreStop \/ CoreCount
      BY <1>1, <2>2 DEF CoreEdge, CoreStart, CoreIdle
    <3>2. EnoughTime(elapsed, core_timer_reg, core_prescaler_reg)
      BY <1>1, <1>9, <2>2 DEF TimeIsKept
    <3> QED
      BY <1>1, <1>5, <1>9, <2>1, <2>2, <3>1, <3>2, TimerRuns
  <2>3. CASE ~running /\ start_reg
    <3>1. CoreStart
      BY <1>1, <2>3 DEF CoreEdge, CoreStop, CoreCount, CoreIdle
    <3>2. core_prescaler_reg' = Prescaler /\ core_timer_reg' = timeout /\ running' = TRUE
      BY <2>1, <3>1 DEF CoreStart
    <3>3. Prescaler \in Nat /\ timeout \in Nat /\ timeout * Prescaler = Prescaler * timeout
          /\ Prescaler * timeout \in Nat
      BY <1>1, TouchAssumption DEF TimerTypes
    <3> DEFINE goal == Prescaler * timeout
    <3>4. elapsed' + goal + Prescaler >= goal + Prescaler
      <4> DEFINE e == elapsed'
      <4>1. goal \in Nat /\ Prescaler \in Nat /\ e \in Nat
        BY <1>6, <3>3
      <4> HIDE DEF goal, e
      <4>2. e + goal + Prescaler >= goal + Prescaler
        BY <4>1
      <4> QED
        BY <4>2 DEF e
    <3> QED
      BY <1>9, <3>2, <3>3, <3>4 DEF EnoughTime
  <2>4. CASE ~running /\ ~start_reg
    <3>1. ~running' /\ elapsed >= Prescaler * timeout
      BY <1>1, <1>7, <1>9, <2>4 DEF TimeIsKept
    <3>2. Prescaler * timeout \in Nat
      BY <1>1, TouchAssumption DEF TimerTypes
    <3> DEFINE goal == Prescaler * timeout
    <3>3. goal \in Nat /\ elapsed >= goal
      BY <3>1, <3>2
    <3> HIDE DEF goal
    <3>4. elapsed' >= goal
      BY <1>1, <1>6, <3>3
    <3> QED
      BY <3>1, <3>4 DEF goal
  <2> QED
    BY <1>1, <2>2, <2>3, <2>4
<1> QED
  BY <1>3, <1>4, <1>6, <1>7, <1>8, <1>9

\* An edge on which the program writes to the timer, which stands still.
LEMMA StillEdge ==
  ASSUME TimerInv, pc \in {"prescaler", "timer", "start"}, NEW a, TouchEdge(a)
  PROVE  /\ core_prescaler_reg' \in Nat /\ core_timer_reg' \in Nat /\ running' = FALSE
         /\ stop_reg' = (Writes(a, "ctrl") /\ a.val = "stop")
         /\ start_reg' = (Writes(a, "ctrl") /\ a.val = "start")
         /\ prescaler_reg' = IF Writes(a, "prescaler") THEN a.val ELSE prescaler_reg
         /\ timer_reg' = IF Writes(a, "timer") THEN a.val ELSE timer_reg
         /\ elapsed' \in Nat
<1>1. TimerTypes /\ CoreEdge /\ ~running /\ ~start_reg /\ elapsed \in Nat /\ running \in BOOLEAN
  BY DEF TimerInv, TimerTypes, TimerIsSet, TouchEdge, CoreEdge, Before
<1>2. running' = FALSE
  BY <1>1 DEF CoreEdge, CoreStart, CoreStop, CoreCount, CoreIdle
<1>3. core_prescaler_reg' \in Nat /\ core_timer_reg' \in Nat
  BY <1>1, CoreTypes
<1>4. elapsed' \in Nat
  BY <1>1 DEF TouchEdge
<1> QED
  BY <1>1, <1>2, <1>3, <1>4 DEF TouchEdge, TimerApi

\* The steps of the program that only read, or write to the sensor.
LEMMA QuietStep ==
  ASSUME TimerInv, NEW a \in Accesses, TouchEdge(a), timeout' = timeout,
         result' \in {"none", "true", "false"},
         \/ pc' = pc
         \/ pc \in Waiting /\ pc' \in Waiting \ {"stray"}
         \/ pc = "final" /\ pc' = "stop"
         \/ pc = "final" /\ ~running /\ pc' = "call"
         \/ pc = "confirm" /\ pc' = "call"
  PROVE  TimerInv'
<1>1. /\ start_reg' = FALSE /\ stop_reg' = FALSE /\ UNCHANGED <<prescaler_reg, timer_reg>>
      /\ core_prescaler_reg' \in Nat /\ core_timer_reg' \in Nat /\ running' \in BOOLEAN
      /\ elapsed' \in Nat /\ elapsed' >= elapsed
      /\ ~running /\ ~start_reg => ~running'
      /\ pc = "confirm" => ~running'
      /\ pc \in Waiting =>
           /\ running' => EnoughTime(elapsed, core_timer_reg, core_prescaler_reg)'
           /\ ~running' => elapsed' >= Prescaler * timeout
  BY QuietEdge
<1>2. TimerTypes'
  BY <1>1 DEF TimerInv, TimerTypes, Waiting, Before
<1>3. TimerIsSet'
  BY <1>1 DEF TimerInv, TimerIsSet, Waiting, Before
<1>4. pc' \in Waiting => pc \in Waiting
  BY DEF Waiting
<1>5. TimeIsKept'
  BY <1>1, <1>4 DEF TimeIsKept
<1> QED
  BY <1>2, <1>3, <1>5 DEF TimerInv

LEMMA TouchInitially == TouchInit => TouchInv
<1> SUFFICES ASSUME TouchInit PROVE TouchInv
  OBVIOUS
<1>1. SensorInv
  BY DEF TouchInit, SensorInv, SensorTypes, Sampled, EventsAreNew, LatestKnown, IsOld, Later
<1>2. TimerInv
  BY DEF TouchInit, TimerInv, TimerTypes, TimerIsSet, TimeIsKept, Before, Waiting
<1>3. AnswerIsFounded /\ TouchWaitIsRight
  BY DEF TouchInit, AnswerIsFounded, TouchWaitIsRight, TouchIsNew, TimeoutIsFull
<1> QED
  BY <1>1, <1>2, <1>3 DEF TouchInv

\* A step of the program with an access that is not to the timer's registers.
LEMMA QuietProgram ==
  ASSUME TouchInv, NEW a \in Accesses, TouchEdge(a), timeout' = timeout,
         Unknowing(a) \/ Acknowledging(a) \/ Confirming(a),
         \/ pc' = pc /\ UNCHANGED <<known, confirmed>> /\ ~Writes(a, "touch") /\ result' = result
         \/ /\ pc \in Waiting /\ pc' \in Waiting \ {"stray", "final"}
            /\ result' = result
         \/ /\ pc = "touched" /\ pc' = "final" /\ touch_event_reg > 0 /\ ~Writes(a, "touch")
            /\ result' = result
         \/ pc = "status" /\ pc' = "final" /\ ~running /\ result' = result
         \/ /\ pc = "final" /\ pc' = "stop" /\ running /\ ~Writes(a, "touch")
            /\ result' = result
         \/ pc = "final" /\ ~running /\ pc' = "call" /\ result' = "false"
         \/ pc = "confirm" /\ pc' = "call" /\ Confirming(a) /\ result' = "true"
  PROVE  TouchInv'
<1>1. /\ SensorInv /\ TimerInv /\ AnswerIsFounded /\ Finger /\ Sense(a)
      /\ pc \in Before \cup Waiting \cup {"stop", "confirm"} /\ result \in {"none", "true", "false"}
  BY DEF TouchInv, TouchEdge, TimerInv, TimerTypes
<1>2. /\ SensorInv'
      /\ ~Writes(a, "touch") /\ touch_event_reg > 0 => touch_event_reg' = touch_event_reg
  BY <1>1, SenseStep
<1>3. TimerInv'
  BY <1>1, QuietStep DEF Waiting
<1>4. ~running /\ ~start_reg => ~running'
  BY <1>1, QuietEdge
<1>5. start_reg => pc = "stray"
  BY <1>1 DEF TimerInv, TimerIsSet
<1>6. AnswerIsFounded'
  BY <1>1, <1>2, <1>4, <1>5 DEF AnswerIsFounded, Waiting
<1>7. TouchIsNew'
  <2>1. CASE result' = result
    <3>1. result = "true" => confirmed > known /\ pc = "call"
      BY DEF TouchInv, TouchWaitIsRight, TouchIsNew, AnswerIsFounded
    <3>2. pc = "call" => UNCHANGED <<known, confirmed>>
      BY DEF Waiting
    <3> QED
      BY <2>1, <3>1, <3>2 DEF TouchIsNew
  <2>2. CASE result' = "true" /\ Confirming(a)
    <3>1. touch_event_reg \in Nat /\ known \in Nat /\ confirmed \in Nat
      BY <1>1 DEF SensorInv, SensorTypes
    <3> QED
      BY <1>1, <2>2, <3>1 DEF Confirming, SensorInv, EventsAreNew, Later, TouchIsNew
  <2>3. CASE result' = "false"
    BY <2>3 DEF TouchIsNew
  <2> QED
    BY <2>1, <2>2, <2>3
<1>8. TimeoutIsFull'
  <2>1. elapsed \in Nat /\ elapsed' \in Nat /\ elapsed' >= elapsed
    BY <1>1, QuietEdge DEF TimerInv, TimerTypes
  <2>2. result' = "false" => elapsed >= Prescaler * timeout
    BY <1>1, <1>5 DEF TouchInv, TouchWaitIsRight, TimeoutIsFull, TimerInv, TimeIsKept, Waiting
  <2> DEFINE goal == Prescaler * timeout
  <2>3. goal \in Nat
    BY <1>1, TouchAssumption DEF TimerInv, TimerTypes
  <2>4. result' = "false" => elapsed >= goal
    BY <2>2
  <2> HIDE DEF goal
  <2>5. result' = "false" => elapsed' >= goal
    BY <2>1, <2>3, <2>4
  <2> QED
    BY <2>5 DEF goal, TimeoutIsFull
<1> QED
  BY <1>2, <1>3, <1>6, <1>7, <1>8 DEF TouchInv, TouchWaitIsRight

\* The steps up to the start of the timer leave the answer open.
LEMMA SettingStep ==
  ASSUME TouchInv, NEW a, TouchEdge(a), Unknowing(a), TimerInv',
         result' = "none", pc' \notin {"final", "stop", "confirm"}
  PROVE  TouchInv'
<1>1. SensorInv /\ Finger /\ Sense(a)
  BY DEF TouchInv, TouchEdge
<1>2. SensorInv'
  BY <1>1, SenseStep
<1> QED
  BY <1>2 DEF TouchInv, AnswerIsFounded, TouchWaitIsRight, TouchIsNew, TimeoutIsFull

LEMMA TouchNextKeeps == TouchInv /\ [TouchNext]_touchvars => TouchInv'
<1> SUFFICES ASSUME TouchInv, [TouchNext]_touchvars PROVE TouchInv'
  OBVIOUS
<1>1. /\ TimerInv /\ TimerTypes /\ TimerIsSet /\ AnswerIsFounded /\ SensorInv
      /\ pc \in Before \cup Waiting \cup {"stop", "confirm"}
      /\ touch_event_reg \in Nat /\ running \in BOOLEAN /\ timeout \in Nat
      /\ prescaler_reg \in Nat /\ timer_reg \in Nat /\ Prescaler \in Nat
      /\ result # "none" => pc = "call"
      /\ result \in {"none", "true", "false"}
  BY TouchAssumption
     DEF TouchInv, TimerInv, TimerTypes, SensorInv, SensorTypes, AnswerIsFounded
<1>2. CASE UNCHANGED touchvars
  <2>1. SensorInv'
    BY <1>1, <1>2 DEF SensorInv, SensorTypes, Sampled, EventsAreNew, LatestKnown, IsOld, Later,
                      touchvars, sensorvars, programvars
  <2>2. TimerInv'
    BY <1>1, <1>2 DEF TimerInv, TimerTypes, TimerIsSet, TimeIsKept, EnoughTime, touchvars, timervars,
                      programvars
  <2>3. AnswerIsFounded' /\ TouchWaitIsRight'
    BY <1>2 DEF TouchInv, AnswerIsFounded, TouchWaitIsRight, TouchIsNew, TimeoutIsFull, touchvars,
                timervars, sensorvars, programvars
  <2> QED
    BY <2>1, <2>2, <2>3 DEF TouchInv
<1>3. CASE Tick
  <2>1. NoAccess \in Accesses /\ Unknowing(NoAccess) /\ TouchEdge(NoAccess)
    BY <1>3 DEF Tick, Accesses, Unknowing, Writes, NoAccess, programvars
  <2>2. UNCHANGED <<pc, timeout, known, confirmed, result>> /\ ~Writes(NoAccess, "touch")
    BY <1>3 DEF Tick, programvars, Writes, NoAccess
  <2> QED
    BY <2>1, <2>2, QuietProgram
<1>4. CASE CallTouchWait
  <2>1. /\ NoAccess \in Accesses /\ Unknowing(NoAccess) /\ TouchEdge(NoAccess)
        /\ pc = "call" /\ pc' = "prescaler" /\ result' = "none" /\ timeout' \in Nat
    BY <1>4, TouchAssumption DEF CallTouchWait, Accesses, Unknowing, Writes, NoAccess
  <2>2. /\ start_reg' = FALSE /\ stop_reg' = FALSE /\ UNCHANGED <<prescaler_reg, timer_reg>>
        /\ core_prescaler_reg' \in Nat /\ core_timer_reg' \in Nat /\ running' \in BOOLEAN
        /\ elapsed' \in Nat
        /\ ~running /\ ~start_reg => ~running'
    BY <1>1, <2>1, QuietEdge
  <2>3. ~running /\ ~start_reg
    BY <1>1, <2>1 DEF TimerIsSet, Before
  <2>4. TimerInv'
    BY <1>1, <2>1, <2>2, <2>3 DEF TimerInv, TimerTypes, TimerIsSet, TimeIsKept, Before, Waiting
  <2> QED
    BY <2>1, <2>4, SettingStep
<1>5. CASE SetPrescaler
  <2> DEFINE a == WriteReg("prescaler", Prescaler)
  <2>1. /\ TouchEdge(a) /\ Unknowing(a) /\ pc = "prescaler" /\ pc' = "timer"
        /\ UNCHANGED <<result, timeout>>
        /\ Writes(a, "prescaler") /\ ~Writes(a, "timer") /\ ~Writes(a, "ctrl") /\ a.val = Prescaler
    BY <1>5 DEF SetPrescaler, At, Setting, Unknowing, Writes, WriteReg
  <2>2. /\ core_prescaler_reg' \in Nat /\ core_timer_reg' \in Nat /\ running' = FALSE
        /\ stop_reg' = FALSE /\ start_reg' = FALSE
        /\ prescaler_reg' = Prescaler /\ timer_reg' = timer_reg /\ elapsed' \in Nat
    BY <1>1, <2>1, StillEdge
  <2>3. TimerInv'
    BY <1>1, <2>1, <2>2 DEF TimerInv, TimerTypes, TimerIsSet, TimeIsKept, Before, Waiting
  <2> QED
    BY <1>1, <2>1, <2>3, SettingStep
<1>6. CASE SetTimer
  <2> DEFINE a == WriteReg("timer", timeout)
  <2>1. /\ TouchEdge(a) /\ Unknowing(a) /\ pc = "timer" /\ pc' = "start"
        /\ UNCHANGED <<result, timeout>>
        /\ Writes(a, "timer") /\ ~Writes(a, "prescaler") /\ ~Writes(a, "ctrl") /\ a.val = timeout
    BY <1>6 DEF SetTimer, At, Setting, Unknowing, Writes, WriteReg
  <2>2. /\ core_prescaler_reg' \in Nat /\ core_timer_reg' \in Nat /\ running' = FALSE
        /\ stop_reg' = FALSE /\ start_reg' = FALSE
        /\ prescaler_reg' = prescaler_reg /\ timer_reg' = timeout /\ elapsed' \in Nat
    BY <1>1, <2>1, StillEdge
  <2>3. prescaler_reg = Prescaler
    BY <1>1, <2>1 DEF TimerIsSet
  <2>4. TimerInv'
    BY <1>1, <2>1, <2>2, <2>3 DEF TimerInv, TimerTypes, TimerIsSet, TimeIsKept, Before, Waiting
  <2> QED
    BY <1>1, <2>1, <2>4, SettingStep
<1>7. CASE StartTimer
  <2> DEFINE a == WriteReg("ctrl", "start")
  <2>1. /\ TouchEdge(a) /\ Unknowing(a) /\ pc = "start" /\ pc' = "stray"
        /\ UNCHANGED <<result, timeout>>
        /\ ~Writes(a, "timer") /\ ~Writes(a, "prescaler") /\ Writes(a, "ctrl") /\ a.val = "start"
    BY <1>7 DEF StartTimer, At, Setting, Unknowing, Writes, WriteReg
  <2>2. /\ core_prescaler_reg' \in Nat /\ core_timer_reg' \in Nat /\ running' = FALSE
        /\ stop_reg' = FALSE /\ start_reg' = TRUE
        /\ prescaler_reg' = prescaler_reg /\ timer_reg' = timer_reg /\ elapsed' \in Nat
    BY <1>1, <2>1, StillEdge
  <2>3. prescaler_reg = Prescaler /\ timer_reg = timeout
    BY <1>1, <2>1 DEF TimerIsSet
  <2>4. TimerInv'
    BY <1>1, <2>1, <2>2, <2>3 DEF TimerInv, TimerTypes, TimerIsSet, TimeIsKept, Before, Waiting
  <2> QED
    BY <1>1, <2>1, <2>4, SettingStep
<1>8. CASE AcknowledgeStray
  <2> DEFINE a == WriteReg("touch", 0)
  <2>1. /\ a \in Accesses /\ TouchEdge(a) /\ Acknowledging(a)
        /\ pc = "stray" /\ pc' = "touched" /\ UNCHANGED <<result, timeout>>
    BY <1>8 DEF AcknowledgeStray, At, Setting, Accesses, Acknowledging, Writes, WriteReg
  <2> QED
    BY <1>1, <2>1, QuietProgram DEF Waiting
<1>9. CASE Touched
  <2> DEFINE a == ReadReg("touch")
  <2>1. /\ a \in Accesses /\ TouchEdge(a) /\ Unknowing(a) /\ ~Writes(a, "touch")
        /\ pc = "touched" /\ pc' = (IF touch_event_reg > 0 THEN "final" ELSE "status")
        /\ UNCHANGED <<result, timeout>>
    BY <1>9 DEF Touched, At, Setting, Accesses, Unknowing, Writes, ReadReg
  <2> QED
    BY <1>1, <2>1, QuietProgram DEF Waiting
<1>10. CASE Status
  <2> DEFINE a == ReadReg("status")
  <2>1. /\ a \in Accesses /\ TouchEdge(a) /\ Unknowing(a)
        /\ pc = "status" /\ pc' = (IF running THEN "time" ELSE "final")
        /\ UNCHANGED <<result, timeout>>
    BY <1>10 DEF Status, At, Setting, Accesses, Unknowing, Writes, ReadReg
  <2> QED
    BY <1>1, <2>1, QuietProgram DEF Waiting
<1>11. CASE Blink
  <2> DEFINE a == ReadReg("timer")
  <2>1. /\ a \in Accesses /\ TouchEdge(a) /\ Unknowing(a)
        /\ pc = "time" /\ pc' = "touched" /\ UNCHANGED <<result, timeout>>
    BY <1>11 DEF Blink, At, Accesses, Unknowing, Writes, ReadReg
  <2> QED
    BY <1>1, <2>1, QuietProgram DEF Waiting
<1>12. CASE Timeout
  <2> DEFINE a == ReadReg("status")
  <2>1. /\ a \in Accesses /\ TouchEdge(a) /\ Unknowing(a)
        /\ pc = "final" /\ ~running /\ pc' = "call" /\ result' = "false" /\ timeout' = timeout
    BY <1>12 DEF Timeout, At, Accesses, Unknowing, Writes, ReadReg
  <2> QED
    BY <1>1, <2>1, QuietProgram
<1>13. CASE InTime
  <2> DEFINE a == ReadReg("status")
  <2>1. /\ a \in Accesses /\ TouchEdge(a) /\ Unknowing(a) /\ ~Writes(a, "touch")
        /\ pc = "final" /\ running /\ pc' = "stop" /\ UNCHANGED <<result, timeout>>
    BY <1>13 DEF InTime, At, Accesses, Unknowing, Writes, ReadReg
  <2> QED
    BY <1>1, <2>1, QuietProgram
<1>14. CASE StopTimer
  <2> DEFINE a == WriteReg("ctrl", "stop")
  <2>1. /\ TouchEdge(a) /\ Unknowing(a) /\ ~Writes(a, "touch") /\ pc = "stop" /\ pc' = "confirm"
        /\ UNCHANGED <<result, timeout>>
        /\ ~Writes(a, "timer") /\ ~Writes(a, "prescaler") /\ Writes(a, "ctrl") /\ a.val = "stop"
        /\ a.val # "start"
    BY <1>14 DEF StopTimer, At, Setting, Unknowing, Writes, WriteReg
  <2>2. /\ stop_reg' = TRUE /\ start_reg' = FALSE
        /\ prescaler_reg' = prescaler_reg /\ timer_reg' = timer_reg /\ elapsed' \in Nat
    <3>1. stop_reg' = TRUE /\ start_reg' = FALSE
      BY <2>1 DEF TouchEdge, TimerApi
    <3>2. prescaler_reg' = prescaler_reg /\ timer_reg' = timer_reg
      BY <2>1 DEF TouchEdge, TimerApi
    <3>3. elapsed \in Nat /\ elapsed' \in {elapsed, elapsed + 1}
      BY <1>1, <2>1 DEF TouchEdge, TimerTypes
    <3> QED
      BY <3>1, <3>2, <3>3
  <2>3. core_prescaler_reg' \in Nat /\ core_timer_reg' \in Nat /\ running' \in BOOLEAN
    BY <1>1, <2>1, CoreTypes DEF TouchEdge, CoreEdge
  <2>4. prescaler_reg = Prescaler /\ timer_reg = timeout
    BY <1>1, <2>1 DEF TimerIsSet
  <2>5. TimerInv'
    BY <1>1, <2>1, <2>2, <2>3, <2>4
       DEF TimerInv, TimerTypes, TimerIsSet, TimeIsKept, Before, Waiting
  <2>6. SensorInv' /\ touch_event_reg' = touch_event_reg
    BY <1>1, <2>1, SenseStep DEF TouchEdge, AnswerIsFounded
  <2>7. result' = "none" /\ touch_event_reg > 0
    BY <1>1, <2>1 DEF AnswerIsFounded
  <2> QED
    BY <2>1, <2>5, <2>6, <2>7
       DEF TouchInv, AnswerIsFounded, TouchWaitIsRight, TouchIsNew, TimeoutIsFull
<1>15. CASE Confirm
  <2> DEFINE a == WriteReg("touch", 0)
  <2>1. /\ a \in Accesses /\ TouchEdge(a) /\ Writes(a, "touch")
        /\ pc = "confirm" /\ pc' = "call" /\ result' = "true" /\ timeout' = timeout
        /\ confirmed' = touch_event_reg /\ known' = known
    BY <1>15 DEF Confirm, At, Accesses, Writes, WriteReg
  <2>2. Confirming(a)
    BY <1>1, <2>1 DEF Confirming, AnswerIsFounded
  <2> QED
    BY <1>1, <2>1, <2>2, QuietProgram
<1> QED
  BY <1>2, <1>3, <1>4, <1>5, <1>6, <1>7, <1>8, <1>9, <1>10, <1>11, <1>12, <1>13, <1>14, <1>15
     DEF TouchNext, Cpu

\* touch_wait() never takes a touch from before the call for a confirmation,
\* nor the same touch twice, and never gives up early, whatever the finger does.
THEOREM TouchWaitAlwaysRight == TouchSpec => []TouchWaitIsRight
<1>1. TouchInv => TouchWaitIsRight
  BY DEF TouchInv
<1> QED
  BY <1>1, TouchInitially, TouchNextKeeps, PTL DEF TouchSpec

-----------------------------------------------------------------------------
(* The random number core *)

\* A ready word is fresh because it became ready with more new bits than it has;
\* until then the counter says how many bits from its end are new, which it can
\* only do as it has not wrapped around.
NewBits ==
  /\ data_ready_reg => \A i \in 1 .. WordBits : ~entropy_reg[i]
  /\ ~data_ready_reg =>
       /\ bit_ctr_reg <= SKIP_BITS
       /\ \A i \in 1 .. WordBits : i > WordBits - bit_ctr_reg => ~entropy_reg[i]

NewSamples ==
  /\ trng_ctrl_reg = "SAMPLE2" => ~newer
  /\ trng_ctrl_reg = "DATA_READY" => ~older /\ ~newer

TrngTypes ==
  /\ bit_ctr_reg \in 0 .. BitCtrRange - 1
  /\ data_ready_reg \in BOOLEAN
  /\ trng_ctrl_reg \in {"SAMPLE1", "SAMPLE2", "DATA_READY"}
  /\ older \in BOOLEAN /\ newer \in BOOLEAN
  /\ entropy_reg \in [1 .. WordBits -> BOOLEAN]

TrngInv ==
  /\ TrngTypes /\ NewBits /\ NewSamples
  /\ rpc = "entropy" => data_ready_reg
  /\ WordsAreFresh

LEMMA AfterReset ==
  TrngReset => TrngTypes /\ NewBits /\ NewSamples
<1> SUFFICES ASSUME TrngReset PROVE TrngTypes /\ NewBits /\ NewSamples
  OBVIOUS
<1>1. TrngTypes
  <2>1. entropy_reg \in [1 .. WordBits -> BOOLEAN]
    BY Zenon DEF TrngReset, Stale
  <2>2. bit_ctr_reg \in 0 .. BitCtrRange - 1
    BY TrngAssumption DEF TrngReset
  <2> QED BY <2>1, <2>2, Zenon DEF TrngReset, TrngTypes
<1>2. NewBits
  BY TrngAssumption DEF TrngReset, NewBits, Stale
<1>3. NewSamples
  BY DEF TrngReset, NewSamples
<1> QED BY <1>1, <1>2, <1>3

\* The effect of an edge, whether the word is read on it or not.
LEMMA EdgeKeepsNew ==
  ASSUME TrngTypes, NewBits, NewSamples, NEW read \in BOOLEAN, TrngEdge(read)
  PROVE  (TrngTypes /\ NewBits /\ NewSamples)'
<1> USE TrngAssumption
<1>1. /\ bit_ctr_reg' \in 0 .. BitCtrRange - 1
      /\ data_ready_reg' \in BOOLEAN
  BY DEF TrngEdge, BitCtr, TrngTypes
<1> DEFINE bits == IF read THEN Stale ELSE entropy_reg
<1>2. bits \in [1 .. WordBits -> BOOLEAN]
  BY DEF TrngTypes, Stale
<1>3. CASE trng_ctrl_reg # "DATA_READY"
  <2>1. entropy_reg' = bits
    BY <1>3 DEF TrngEdge, TrngCtrl
  <2>2. bit_ctr_reg' = (IF read THEN 0 ELSE bit_ctr_reg)
        /\ data_ready_reg' = (~read /\ data_ready_reg)
    BY <1>3 DEF TrngEdge, BitCtr
  <2>3. /\ trng_ctrl_reg' \in {"SAMPLE1", "SAMPLE2", "DATA_READY"}
        /\ older' \in BOOLEAN /\ newer' \in BOOLEAN
        /\ NewSamples'
    <3>1. CASE trng_ctrl_reg = "SAMPLE1"
      BY <3>1 DEF TrngEdge, TrngCtrl, Sampling, TrngTypes, NewSamples
    <3>2. CASE trng_ctrl_reg = "SAMPLE2"
      BY <3>2 DEF TrngEdge, TrngCtrl, Sampling, TrngTypes, NewSamples
    <3> QED BY <1>3, <3>1, <3>2 DEF TrngTypes
  <2>4. TrngTypes'
    BY <1>1, <1>2, <2>1, <2>3 DEF TrngTypes
  <2>5. NewBits'
    <3>1. CASE read
      <4>1. bit_ctr_reg' = 0
        BY <2>2, <3>1
      <4>2. data_ready_reg' = FALSE
        BY <2>2, <3>1, Zenon
      <4> QED BY <4>1, <4>2 DEF NewBits
    <3>2. CASE ~read
      <4>1. entropy_reg' = entropy_reg /\ bit_ctr_reg' = bit_ctr_reg
        BY <2>1, <2>2, <3>2
      <4>2. data_ready_reg' <=> data_ready_reg
        BY <2>2, <3>2, Zenon
      <4> QED BY <4>1, <4>2 DEF NewBits
    <3> QED BY <3>1, <3>2
  <2> QED BY <2>3, <2>4, <2>5
<1>4. CASE trng_ctrl_reg = "DATA_READY"
  <2> DEFINE new == older \/ newer
  <2>1. new = FALSE
    BY <1>4 DEF NewSamples, TrngTypes
  <2>2. /\ entropy_reg' = Shifted(bits, new)
        /\ older' = TRUE /\ newer' = TRUE /\ trng_ctrl_reg' = "SAMPLE1"
    BY <1>4 DEF TrngEdge, TrngCtrl
  <2> HIDE DEF new, bits
  <2>3. entropy_reg' = [i \in 1 .. WordBits |-> IF i < WordBits THEN bits[i + 1] ELSE FALSE]
    BY <2>1, <2>2 DEF Shifted
  <2>4. NewSamples' /\ TrngTypes'
    <3>1. \A i \in 1 .. WordBits : i < WordBits => bits[i + 1] \in BOOLEAN
      BY <1>2
    <3>2. entropy_reg' \in [1 .. WordBits -> BOOLEAN]
      BY <2>3, <3>1, Zenon
    <3>3. NewSamples'
      BY <2>2, Zenon DEF NewSamples
    <3> QED BY <1>1, <2>2, <3>2, <3>3, Zenon DEF TrngTypes
  <2>5. CASE read
    <3>1. bit_ctr_reg' = 0 /\ data_ready_reg' = FALSE
      BY <2>5 DEF TrngEdge, BitCtr
    <3>2. NewBits'
      BY <3>1 DEF NewBits
    <3> QED BY <3>2, <2>4
  <2>6. CASE ~read
    <3>1. bits = entropy_reg
      BY <2>6 DEF bits
    <3>2. data_ready_reg' = (data_ready_reg \/ bit_ctr_reg = SKIP_BITS)
      BY <1>4, <2>6 DEF TrngEdge, BitCtr
    <3>3. ~data_ready_reg => bit_ctr_reg' = bit_ctr_reg + 1
      BY <1>4, <2>6 DEF TrngEdge, BitCtr, NewBits, TrngTypes
    <3>4. CASE data_ready_reg
      <4>1. \A i \in 1 .. WordBits : ~entropy_reg'[i]
        BY <2>3, <3>1, <3>4 DEF NewBits
      <4>2. data_ready_reg'
        BY <3>2, <3>4
      <4> QED BY <4>1, <4>2, <2>4 DEF NewBits
    <3>5. CASE ~data_ready_reg
      <4>1. \A i \in 1 .. WordBits : i > WordBits - (bit_ctr_reg + 1) => ~entropy_reg'[i]
        BY <2>3, <3>1, <3>5 DEF NewBits, TrngTypes
      <4>2. CASE bit_ctr_reg = SKIP_BITS
        <5>1. data_ready_reg' /\ \A i \in 1 .. WordBits : i > WordBits - (bit_ctr_reg + 1)
          <6>1. data_ready_reg'
            BY <4>2, <3>2, Zenon
          <6> QED BY <4>2, <6>1
        <5> QED BY <4>1, <5>1, <2>4 DEF NewBits
      <4>3. CASE bit_ctr_reg # SKIP_BITS
        <5>1. data_ready_reg' = FALSE /\ bit_ctr_reg' = bit_ctr_reg + 1 /\ bit_ctr_reg' <= SKIP_BITS
          BY <4>3, <3>2, <3>3, <3>5 DEF NewBits, TrngTypes
        <5> QED BY <4>1, <5>1, <2>4 DEF NewBits
      <4> QED BY <4>2, <4>3
    <3> QED BY <3>4, <3>5, <2>4
  <2> QED BY <2>5, <2>6
<1> QED BY <1>3, <1>4

LEMMA TrngInvariant == TrngSpec => []TrngInv
<1>1. TrngInit => TrngInv
  BY AfterReset DEF TrngInit, TrngInv, WordsAreFresh
<1>2. TrngInv /\ [TrngNext]_trngvars => TrngInv'
  <2> SUFFICES ASSUME TrngInv, [TrngNext]_trngvars PROVE TrngInv'
    OBVIOUS
  <2>1. CASE TrngTick \/ CallRng
    <3>1. TrngEdge(FALSE) /\ word' = word /\ (rpc' = rpc \/ rpc' = "status")
      BY <2>1 DEF TrngTick, CallRng
    <3>2. data_ready_reg => data_ready_reg'
      BY <3>1 DEF TrngEdge, BitCtr
    <3> QED BY <3>1, <3>2, EdgeKeepsNew DEF TrngInv, WordsAreFresh
  <2>2. CASE ReadStatus
    <3>1. TrngEdge(FALSE) /\ word' = word /\ (rpc' = "entropy" => data_ready_reg)
      BY <2>2 DEF ReadStatus
    <3>2. data_ready_reg => data_ready_reg'
      BY <3>1 DEF TrngEdge, BitCtr
    <3> QED BY <3>1, <3>2, EdgeKeepsNew DEF TrngInv, WordsAreFresh
  <2>3. CASE ReadEntropy
    <3>1. TrngEdge(TRUE) /\ word' = entropy_reg /\ rpc' = "idle" /\ data_ready_reg
      BY <2>3 DEF ReadEntropy, TrngInv
    <3>2. (TrngTypes /\ NewBits /\ NewSamples)'
      BY <3>1, EdgeKeepsNew DEF TrngInv
    <3>3. WordsAreFresh'
      BY <3>1 DEF TrngInv, NewBits, WordsAreFresh
    <3> QED BY <3>1, <3>2, <3>3 DEF TrngInv
  <2>4. CASE ResetTrng
    <3>0. TrngReset'
      BY <2>4 DEF ResetTrng, TrngReset, Stale
    <3>1. (TrngTypes /\ NewBits /\ NewSamples)'
      BY <3>0, AfterReset, PTL
    <3> QED BY <2>4, <3>1 DEF ResetTrng, TrngInv, WordsAreFresh
  <2>5. CASE UNCHANGED trngvars
    BY <2>5 DEF trngvars, TrngInv, TrngTypes, NewBits, NewSamples, WordsAreFresh
  <2> QED BY <2>1, <2>2, <2>3, <2>4, <2>5 DEF TrngNext
<1> QED BY <1>1, <1>2, PTL DEF TrngSpec

\* Every word the firmware gets is new entropy from end to end, at any time it is
\* asked for.
THEOREM NoBitTwice == TrngSpec => []WordsAreFresh
<1>1. TrngInv => WordsAreFresh
  BY DEF TrngInv
<1> QED BY <1>1, TrngInvariant, PTL

-----------------------------------------------------------------------------
(* What a system call touches *)

\* Of the numbers the proofs about words need only this.
LEMMA Sizes ==
  /\ RAM_BASE \in Nat /\ RAM_SIZE \in Nat /\ RAM_SIZE > 0
  /\ WordLimit \in Nat /\ WordLimit > RAM_BASE + RAM_SIZE
  /\ RAM_BASE + RAM_SIZE > FLASH_SIZE + 3 * SIZE_STORAGE_AREA
  /\ FLASH_SIZE \in Nat /\ SIZE_STORAGE_AREA \in Nat
  /\ SIZE_PRE_LOADED_APP = SIZE_STORAGE_AREA
BY SMT, WordAssumption
   DEF RAM_BASE, RAM_SIZE, FLASH_SIZE, SIZE_STORAGE_AREA, SIZE_PRE_LOADED_APP

\* in_app_ram() accepts a buffer exactly when each of its bytes, wherever the
\* address wraps to, is in the RAM of the app (and an empty buffer when it
\* points there).
THEOREM BufferIsAppRam ==
  ASSUME NEW p \in Word, NEW size \in Word
  PROVE  in_app_ram(p, size) <=> p \in AppRam /\ \A i \in 0 .. size - 1 : Plus(p, i) \in AppRam
<1>1. ASSUME in_app_ram(p, size)
      PROVE  p \in AppRam /\ \A i \in 0 .. size - 1 : Plus(p, i) \in AppRam
  BY <1>1, Sizes DEF in_app_ram, AppRam, Span, Plus, Word
<1>2. ASSUME p \in AppRam, \A i \in 0 .. size - 1 : Plus(p, i) \in AppRam
      PROVE  in_app_ram(p, size)
  <2>1. p >= RAM_BASE /\ p < RAM_BASE + RAM_SIZE
    BY <1>2, Sizes DEF AppRam, Span, Word
  <2>2. SUFFICES ASSUME size > RAM_BASE + RAM_SIZE - p PROVE FALSE
    BY <2>1, Sizes DEF in_app_ram, Word
  <2> DEFINE i == RAM_BASE + RAM_SIZE - p
  <2>3. i \in 0 .. size - 1
    BY <2>1, <2>2, Sizes DEF Word
  <2>4. Plus(p, i) = RAM_BASE + RAM_SIZE
    BY <2>1, Sizes DEF Plus, Word
  <2>5. RAM_BASE + RAM_SIZE \notin AppRam
    BY Sizes DEF AppRam, Span
  <2> QED BY <1>2, <2>3, <2>4, <2>5
<1> QED BY <1>1, <1>2

\* Wherever a piece of flash starts, offset and size that pass the three checks
\* keep it inside: their sum cannot have wrapped around.
LEMMA Inside ==
  ASSUME NEW start \in 0 .. FLASH_SIZE, NEW limit \in 0 .. SIZE_STORAGE_AREA,
         NEW offset \in Word, NEW size \in Word,
         offset <= limit, size <= limit, Plus(offset, size) <= limit
  PROVE  \A i \in 0 .. size - 1 : Plus(Plus(start, offset), i) \in Span(start, limit)
<1>1. offset + size <= limit
  BY Sizes DEF Plus, Word
<1>2. TAKE i \in 0 .. size - 1
<1>3. Plus(start, offset) = start + offset
  BY Sizes DEF Plus, Word
<1>4. Plus(start + offset, i) = start + offset + i
  BY <1>1, Sizes DEF Plus, Word
<1> QED BY <1>1, <1>3, <1>4, Sizes DEF Span, Word

\* The layout in numbers.
LEMMA Layout ==
  /\ \A index \in Nat : index_to_address(index) = 458752 + index * 131072
  /\ slot_to_start_address(0) = 196608 /\ slot_to_start_address(1) = 327680
  /\ ADDR_PARTITION_TABLE_0 = 131072 /\ ADDR_PARTITION_TABLE_1 = 983040
  /\ SIZE_BITSTREAM = 131072 /\ SIZE_PARTITION_TABLE = 65536
  /\ SIZE_PRE_LOADED_APP = 131072 /\ SIZE_STORAGE_AREA = 131072
  /\ FLASH_SIZE = 1048576 /\ SECTOR = 4096 /\ N_STORAGE_AREA - 1 = 3
BY SMT DEF index_to_address, N_STORAGE_AREA, FLASH_SIZE, ADDR_STORAGE_AREA, SIZE_STORAGE_AREA,
           ADDR_PRE_LOADED_APP_0, N_PRELOADED_APP, SIZE_PRE_LOADED_APP, SECTOR,
           ADDR_PARTITION_TABLE_0, SIZE_PARTITION_TABLE, SIZE_BITSTREAM,
           slot_to_start_address, ADDR_PARTITION_TABLE_1

LEMMA IsUpTo == ASSUME NEW n \in Nat, NEW m \in Nat, n <= m PROVE n \in 0 .. m
BY SMT

LEMMA AreaStarts ==
  ASSUME NEW index \in 0 .. N_STORAGE_AREA - 1
  PROVE  index_to_address(index) \in 0 .. FLASH_SIZE
<1>1. /\ index_to_address(index) \in Nat /\ FLASH_SIZE \in Nat
      /\ index_to_address(index) <= FLASH_SIZE
  BY Layout, SMT
<1> QED BY <1>1, IsUpTo

LEMMA SlotStart == slot_to_start_address(1) \in 0 .. FLASH_SIZE
<1>1. /\ slot_to_start_address(1) \in Nat /\ FLASH_SIZE \in Nat
      /\ slot_to_start_address(1) <= FLASH_SIZE
  BY Layout, SMT
<1> QED BY <1>1, IsUpTo

\* A system call that writes or reads app storage touches bytes of the caller's
\* area and of the app's RAM only.
THEOREM StorageStaysInArea ==
  ASSUME NEW index \in 0 .. N_STORAGE_AREA - 1,
         NEW offset \in Word, NEW data \in Word, NEW size \in Word,
         storage_write_data(offset, data, size) \/ storage_read_data(offset, data, size)
  PROVE  \A i \in 0 .. size - 1 :
           /\ Plus(Plus(index_to_address(index), offset), i) \in Area(index)
           /\ Plus(data, i) \in AppRam
<1>1. in_app_ram(data, size)
  BY DEF storage_write_data, storage_read_data
<1>2. offset <= SIZE_STORAGE_AREA /\ size <= SIZE_STORAGE_AREA
      /\ Plus(offset, size) <= SIZE_STORAGE_AREA
  BY SMT DEF storage_write_data, storage_read_data, SIZE_STORAGE_AREA, Word
<1>3. index_to_address(index) \in 0 .. FLASH_SIZE
  BY AreaStarts
<1>4. \A i \in 0 .. size - 1 :
        Plus(Plus(index_to_address(index), offset), i) \in Span(index_to_address(index), SIZE_STORAGE_AREA)
  BY <1>2, <1>3, Sizes, Inside
<1> QED BY <1>1, <1>4, BufferIsAppRam DEF Area

\* Installing an app touches bytes of its slot and of the management app's RAM
\* only: never storage area 0, which is its neighbour.
THEOREM PreloadStaysInSlot ==
  ASSUME NEW offset \in Word, NEW data \in Word, NEW size \in Word,
         preload_store(offset, data, size)
  PROVE  \A i \in 0 .. size - 1 :
           /\ Plus(Plus(slot_to_start_address(1), offset), i) \in Slot(1)
           /\ Plus(data, i) \in AppRam
<1>1. in_app_ram(data, size)
  BY DEF preload_store
<1>2. offset <= SIZE_STORAGE_AREA /\ size <= SIZE_STORAGE_AREA
      /\ Plus(offset, size) <= SIZE_STORAGE_AREA
  BY Sizes DEF preload_store
<1>3. slot_to_start_address(1) \in 0 .. FLASH_SIZE
  BY SlotStart
<1>4. \A i \in 0 .. size - 1 :
        Plus(Plus(slot_to_start_address(1), offset), i) \in Span(slot_to_start_address(1), SIZE_STORAGE_AREA)
  BY <1>2, <1>3, Sizes, Inside
<1> QED BY <1>1, <1>4, BufferIsAppRam, Sizes DEF Slot

\* Erasing takes whole sectors: although the device erases the sector an address
\* is in from its beginning to its end, nothing outside of the area goes.
THEOREM EraseStaysInArea ==
  ASSUME NEW index \in 0 .. N_STORAGE_AREA - 1, NEW offset \in Word, NEW size \in Word,
         storage_erase_sector(offset, size),
         NEW i \in 0 .. size - 1, i % SECTOR = 0
  PROVE  LET address == Plus(Plus(index_to_address(index), offset), i)
         IN address % SECTOR = 0 /\ Span(address, SECTOR) \subseteq Area(index)
<1> DEFINE start == index_to_address(index)
<1>1. start \in 0 .. FLASH_SIZE
  BY AreaStarts
<1>2. start % 4096 = 0
  BY Layout, SMT
<1> HIDE DEF start
<1>3. /\ offset + size <= SIZE_STORAGE_AREA
      /\ offset % 4096 = 0 /\ size % 4096 = 0 /\ i % 4096 = 0 /\ start % 4096 = 0
  BY <1>2, Sizes, SMT DEF storage_erase_sector, Plus, Word, SECTOR
<1>4. Plus(start, offset) = start + offset
  BY <1>1, <1>3, Sizes DEF Plus, Word
<1>5. Plus(start + offset, i) = start + offset + i
  BY <1>1, <1>3, Sizes DEF Plus, Word
<1>6. offset + i + 4095 < SIZE_STORAGE_AREA
  BY <1>3, Sizes, SMT DEF Word
<1>7. (start + offset + i) % 4096 = 0
  BY <1>1, <1>3, Sizes, SMT DEF Word
<1> QED BY <1>1, <1>4, <1>5, <1>6, <1>7, Sizes, SMT DEF Span, Area, SECTOR, Word, start

\* The parts of the flash do not overlap and fit in it: the bitstream, the two
\* copies of the partition table, the two slots and the four areas.
THEOREM PartsAreApart ==
  /\ \A i \in 0 .. N_STORAGE_AREA - 1 :
       /\ Area(i) \subseteq Flash
       /\ \A j \in 0 .. N_STORAGE_AREA - 1 : i # j => Area(i) \cap Area(j) = {}
       /\ Area(i) \cap (Slot(0) \cup Slot(1) \cup TableCopy(0) \cup TableCopy(1) \cup Bitstream) = {}
  /\ Slot(0) \cap Slot(1) = {}
  /\ (Slot(0) \cup Slot(1)) \cap (TableCopy(0) \cup TableCopy(1) \cup Bitstream) = {}
  /\ TableCopy(0) \cap TableCopy(1) = {}
  /\ (TableCopy(0) \cup TableCopy(1)) \cap Bitstream = {}
  /\ Slot(0) \cup Slot(1) \cup TableCopy(0) \cup TableCopy(1) \cup Bitstream \subseteq Flash
<1>1. /\ SIZE_BITSTREAM <= ADDR_PARTITION_TABLE_0
      /\ ADDR_PARTITION_TABLE_0 + SIZE_PARTITION_TABLE <= slot_to_start_address(0)
      /\ slot_to_start_address(0) + SIZE_PRE_LOADED_APP <= slot_to_start_address(1)
      /\ slot_to_start_address(1) + SIZE_PRE_LOADED_APP <= ADDR_PARTITION_TABLE_1
      /\ ADDR_PARTITION_TABLE_1 + SIZE_PARTITION_TABLE <= FLASH_SIZE
  BY Layout, SMT
<1>2. /\ SIZE_BITSTREAM \in Nat /\ SIZE_PARTITION_TABLE \in Nat /\ SIZE_PRE_LOADED_APP \in Nat
      /\ ADDR_PARTITION_TABLE_0 \in Nat /\ ADDR_PARTITION_TABLE_1 \in Nat
      /\ slot_to_start_address(0) \in Nat /\ slot_to_start_address(1) \in Nat
      /\ SIZE_STORAGE_AREA \in Nat /\ FLASH_SIZE \in Nat
  BY Layout, SMT
<1>3. \A i \in 0 .. N_STORAGE_AREA - 1 :
        /\ index_to_address(i) \in Nat
        /\ slot_to_start_address(1) + SIZE_PRE_LOADED_APP <= index_to_address(i)
        /\ index_to_address(i) + SIZE_STORAGE_AREA <= ADDR_PARTITION_TABLE_1
  BY Layout, SMT
<1>4. \A i, j \in 0 .. N_STORAGE_AREA - 1 :
        i # j => \/ index_to_address(i) + SIZE_STORAGE_AREA <= index_to_address(j)
                 \/ index_to_address(j) + SIZE_STORAGE_AREA <= index_to_address(i)
  BY Layout, SMT
<1>5. ASSUME NEW i \in 0 .. N_STORAGE_AREA - 1
      PROVE  /\ Area(i) \subseteq Flash
             /\ \A j \in 0 .. N_STORAGE_AREA - 1 : i # j => Area(i) \cap Area(j) = {}
             /\ Area(i) \cap (Slot(0) \cup Slot(1) \cup TableCopy(0) \cup TableCopy(1) \cup Bitstream) = {}
  <2>1. Area(i) \subseteq Flash
    BY <1>1, <1>2, <1>3, SMT DEF Area, Flash, Span
  <2>2. ASSUME NEW j \in 0 .. N_STORAGE_AREA - 1, i # j PROVE Area(i) \cap Area(j) = {}
    BY <2>2, <1>2, <1>3, <1>4, SMT DEF Area, Span
  <2>3. Area(i) \cap Slot(0) = {} /\ Area(i) \cap Slot(1) = {}
    BY <1>1, <1>2, <1>3, SMT DEF Area, Slot, Span
  <2>4. Area(i) \cap TableCopy(0) = {} /\ Area(i) \cap TableCopy(1) = {}
    BY <1>1, <1>2, <1>3, SMT DEF Area, TableCopy, Span
  <2>5. Area(i) \cap Bitstream = {}
    BY <1>1, <1>2, <1>3, SMT DEF Area, Bitstream, Span
  <2> QED BY <2>1, <2>2, <2>3, <2>4, <2>5
<1>6. /\ Slot(0) \cap Slot(1) = {}
      /\ (Slot(0) \cup Slot(1)) \cap Bitstream = {}
  BY <1>1, <1>2, SMT DEF Slot, Bitstream, Span
<1>7. (Slot(0) \cup Slot(1)) \cap (TableCopy(0) \cup TableCopy(1)) = {}
  BY <1>1, <1>2, SMT DEF Slot, TableCopy, Span
<1>8. /\ TableCopy(0) \cap TableCopy(1) = {}
      /\ (TableCopy(0) \cup TableCopy(1)) \cap Bitstream = {}
  BY <1>1, <1>2, SMT DEF TableCopy, Bitstream, Span
<1>9. Slot(0) \cup Slot(1) \cup TableCopy(0) \cup TableCopy(1) \cup Bitstream \subseteq Flash
  BY <1>1, <1>2, SMT DEF Slot, TableCopy, Bitstream, Flash, Span
<1> QED BY <1>5, <1>6, <1>7, <1>8, <1>9

-----------------------------------------------------------------------------
(* Sums over sequences *)

LEMMA Least ==
  ASSUME NEW S \in SUBSET Nat, S # {}
  PROVE  \E x \in S : \A y \in S : x <= y
<1> DEFINE Less == {ss \in Nat \X Nat : ss[1] < ss[2]}
<1>1. OpToRel(<, Nat) = Less
  BY Zenon DEF OpToRel
<1>2. IsWellFoundedOn(Less, Nat)
  BY NatLessThanWellFounded, <1>1, Zenon
<1>3. \E x \in S : \A y \in S : <<y, x>> \notin Less
  <2> HIDE DEF Less
  <2> QED BY <1>2, WFMin
<1>4. PICK x \in S : \A y \in S : <<y, x>> \notin Less
  BY <1>3
<1>5. ASSUME NEW y \in S PROVE x <= y
  <2>1. <<y, x>> \notin Less
    BY <1>4
  <2>2. ~(y < x)
    BY <2>1
  <2> QED BY <2>2
<1> QED BY <1>5

\* The partial sums of a sequence: what the recursive function of Total is.
Sums(s, f) == f = [i \in 0 .. Len(s) |-> IF i = 0 THEN 0 ELSE f[i - 1] + s[i]]

LEMMA SumsUnique ==
  ASSUME NEW s \in Seq(Nat), NEW f, NEW g, Sums(s, f),
         \A i \in 0 .. Len(s) : g[i] = IF i = 0 THEN 0 ELSE g[i - 1] + s[i]
  PROVE  \A i \in 0 .. Len(s) : f[i] = g[i]
<1> DEFINE Differ == {i \in 0 .. Len(s) : f[i] # g[i]}
<1>1. ASSUME Differ # {} PROVE FALSE
  <2>0. Differ \in SUBSET Nat
    OBVIOUS
  <2>1. PICK i \in Differ : \A j \in Differ : i <= j
    <3> HIDE DEF Differ
    <3> QED
      BY <1>1, <2>0, Least
  <2>2. i \in 0 .. Len(s) /\ f[i] = IF i = 0 THEN 0 ELSE f[i - 1] + s[i]
    BY DEF Sums
  <2>3. i # 0 /\ i - 1 \in 0 .. Len(s)
    BY <2>2
  <2>4. i - 1 \notin Differ
    BY <2>1, <2>2
  <2> QED
    BY <2>2, <2>3, <2>4
<1> QED
  BY <1>1

LEMMA SumsExist ==
  ASSUME NEW s \in Seq(Nat)
  PROVE  \E f \in [0 .. Len(s) -> Nat] : Sums(s, f)
<1> DEFINE Upto(n) == \E f \in [0 .. n -> Nat] :
             \A i \in 0 .. n : f[i] = IF i = 0 THEN 0 ELSE f[i - 1] + s[i]
           Without == {n \in 0 .. Len(s) : ~Upto(n)}
<1>1. ASSUME Without # {} PROVE FALSE
  <2>0. Without \in SUBSET Nat
    OBVIOUS
  <2>1. PICK n \in Without : \A j \in Without : n <= j
    <3> HIDE DEF Without
    <3> QED
      BY <1>1, <2>0, Least
  <2>2. n # 0
    <3> DEFINE z == [i \in 0 .. 0 |-> 0]
    <3>1. z \in [0 .. 0 -> Nat] /\ \A i \in 0 .. 0 : z[i] = 0 /\ i = 0
      OBVIOUS
    <3> HIDE DEF z
    <3>2. Upto(0)
      BY <3>1
    <3> QED
      BY <3>2
  <2>3. n - 1 \in 0 .. Len(s) /\ n - 1 \notin Without
    <3>1. n \in 0 .. Len(s) /\ n - 1 \in 0 .. Len(s) /\ ~(n <= n - 1)
      BY <2>2
    <3> QED
      BY <2>1, <3>1
  <2>4. PICK f \in [0 .. n - 1 -> Nat] :
          \A i \in 0 .. n - 1 : f[i] = IF i = 0 THEN 0 ELSE f[i - 1] + s[i]
    BY <2>3
  <2> DEFINE g == [i \in 0 .. n |-> IF i = n THEN f[n - 1] + s[n] ELSE f[i]]
  <2>5. g \in [0 .. n -> Nat]
    BY <2>2, <2>4
  <2>6. \A i \in 0 .. n : g[i] = IF i = 0 THEN 0 ELSE g[i - 1] + s[i]
    BY <2>2, <2>4
  <2> QED
    BY <2>5, <2>6
<1>2. Len(s) \in 0 .. Len(s)
  OBVIOUS
<1>3. PICK f \in [0 .. Len(s) -> Nat] :
        \A i \in 0 .. Len(s) : f[i] = IF i = 0 THEN 0 ELSE f[i - 1] + s[i]
  BY <1>1, <1>2
<1>4. Sums(s, f)
  BY <1>3 DEF Sums
<1> QED
  BY <1>4

LEMMA TotalIsSum ==
  ASSUME NEW s \in Seq(Nat), NEW g,
         \A i \in 0 .. Len(s) : g[i] = IF i = 0 THEN 0 ELSE g[i - 1] + s[i]
  PROVE  Total(s) = g[Len(s)]
<1> DEFINE f == CHOOSE f : Sums(s, f)
<1>1. Sums(s, f)
  BY SumsExist
<1>2. Total(s) = f[Len(s)]
  BY Zenon DEF Total, Sums
<1> QED
  BY <1>1, <1>2, SumsUnique

LEMMA TotalIsNat == ASSUME NEW s \in Seq(Nat) PROVE Total(s) \in Nat
<1>1. PICK f \in [0 .. Len(s) -> Nat] : Sums(s, f)
  BY SumsExist
<1>2. Total(s) = f[Len(s)]
  BY <1>1, TotalIsSum DEF Sums
<1> QED
  BY <1>2

LEMMA TotalEmpty == Total(<<>>) = 0
<1>1. Len(<<>>) = 0 /\ <<>> \in Seq(Nat)
  OBVIOUS
<1>2. PICK f \in [0 .. 0 -> Nat] : Sums(<<>>, f)
  BY <1>1, SumsExist
<1>3. f[0] = 0
  BY <1>1, <1>2 DEF Sums
<1> QED
  BY <1>1, <1>2, <1>3, TotalIsSum DEF Sums

LEMMA TotalAppend ==
  ASSUME NEW s \in Seq(Nat), NEW x \in Nat
  PROVE  Total(Append(s, x)) = Total(s) + x
<1> DEFINE t == Append(s, x)
<1>1. t \in Seq(Nat) /\ Len(t) = Len(s) + 1 /\ Len(s) \in Nat /\ t[Len(s) + 1] = x
      /\ \A i \in 1 .. Len(s) : t[i] = s[i]
  OBVIOUS
<1> HIDE DEF t
<1>2. PICK g \in [0 .. Len(t) -> Nat] : Sums(t, g)
  BY <1>1, SumsExist
<1>3. \A i \in 0 .. Len(t) : g[i] = IF i = 0 THEN 0 ELSE g[i - 1] + t[i]
  BY <1>2 DEF Sums
<1>4. Total(t) = g[Len(t)]
  BY <1>1, <1>3, TotalIsSum
<1>7. g[Len(s) + 1] = g[Len(s)] + x
  BY <1>1, <1>3
<1>5. \A i \in 0 .. Len(s) : g[i] = IF i = 0 THEN 0 ELSE g[i - 1] + s[i]
  BY <1>1, <1>3
<1>6. Total(s) = g[Len(s)]
  BY <1>5, TotalIsSum
<1> QED
  BY <1>1, <1>4, <1>6, <1>7 DEF t

-----------------------------------------------------------------------------
(* Sizes of descriptors *)

\* A sequence of records with a length each.
IsDescriptor(desc) ==
  /\ Len(desc) \in Nat /\ DOMAIN desc = 1 .. Len(desc)
  /\ desc = [i \in 1 .. Len(desc) |-> desc[i]]
  /\ \A i \in 1 .. Len(desc) : "len" \in DOMAIN desc[i] /\ desc[i].len \in Nat

LEMMA LenIsDomain ==
  ASSUME NEW x, NEW n \in Nat, DOMAIN x = 1 .. n, x = [i \in 1 .. n |-> x[i]]
  PROVE  Len(x) = n
<1> DEFINE S == {x[i] : i \in 1 .. n}
<1>1. x \in [1 .. n -> S]
  OBVIOUS
<1> HIDE DEF S
<1>2. x \in Seq(S)
  BY <1>1, SeqDef
<1>3. Len(x) \in Nat /\ DOMAIN x = 1 .. Len(x)
  BY <1>2, LenProperties
<1> QED
  BY <1>3

LEMMA SizeIsNat == ASSUME NEW desc, IsDescriptor(desc) PROVE SizeOf(desc) \in Nat
<1> DEFINE sizes == [i \in DOMAIN desc |-> desc[i].len]
<1>1. sizes \in Seq(Nat)
  <2>1. sizes \in [1 .. Len(desc) -> Nat]
    BY DEF IsDescriptor
  <2> QED
    BY <2>1, SeqDef DEF IsDescriptor
<1>2. Total(sizes) \in Nat
  <2> HIDE DEF sizes
  <2> QED BY <1>1, TotalIsNat
<1> QED
  BY <1>2 DEF SizeOf

LEMMA ConcatDescriptors ==
  ASSUME NEW a, NEW b, IsDescriptor(a), IsDescriptor(b)
  PROVE  IsDescriptor(a \o b) /\ Len(a \o b) = Len(a) + Len(b)
<1> DEFINE S == {a[i] : i \in DOMAIN a} \cup {b[i] : i \in DOMAIN b}
<1>1. a \in Seq(S) /\ b \in Seq(S)
  <2>1. a \in [1 .. Len(a) -> S] /\ b \in [1 .. Len(b) -> S]
    <3> USE DEF IsDescriptor
    <3>1. \A i \in 1 .. Len(a) : a[i] \in S
      OBVIOUS
    <3>2. \A i \in 1 .. Len(b) : b[i] \in S
      OBVIOUS
    <3> HIDE DEF S
    <3> QED
      BY <3>1, <3>2
  <2>2. Len(a) \in Nat /\ Len(b) \in Nat
    BY DEF IsDescriptor
  <2> HIDE DEF S
  <2>3. \A k \in Nat : [1 .. k -> S] \subseteq Seq(S)
    BY SeqDef
  <2> QED
    BY <2>1, <2>2, <2>3
<1>2. \A x \in S : "len" \in DOMAIN x /\ x.len \in Nat
  BY DEF IsDescriptor
<1> HIDE DEF S
<1>3. a \o b \in Seq(S) /\ Len(a \o b) = Len(a) + Len(b)
  BY <1>1, ConcatProperties
<1> DEFINE ab == a \o b
<1>4. ab \in [1 .. Len(ab) -> S] /\ Len(ab) \in Nat
  BY <1>3, LenProperties
<1>5. Len(ab) = Len(a) + Len(b)
  BY <1>3
<1> HIDE DEF ab
<1>6. IsDescriptor(ab)
  BY <1>2, <1>4 DEF IsDescriptor
<1> QED
  BY <1>5, <1>6 DEF ab

LEMMA DescriptorsAre ==
  /\ IsDescriptor(CfgDesc) /\ IsDescriptor(CdcDesc) /\ IsDescriptor(FidoDesc)
  /\ IsDescriptor(CcidDesc) /\ IsDescriptor(DebugDesc)
  /\ Len(CfgDesc) = 1
<1>1. IsDescriptor(CfgDesc) /\ Len(CfgDesc) = 1
  BY DEF IsDescriptor, CfgDesc
<1>2. IsDescriptor(CdcDesc)
  BY DEF IsDescriptor, CdcDesc, Iface, Functional, Endpoint
<1>3. IsDescriptor(FidoDesc)
  BY DEF IsDescriptor, FidoDesc, Iface, Hid, Endpoint
<1>4. IsDescriptor(<<Iface(2), CcidFunctional>>) /\ IsDescriptor(CcidEndpoints)
  BY DEF IsDescriptor, Iface, CcidFunctional, CcidEndpoints, Endpoint
<1>6. IsDescriptor(CcidDesc)
  BY <1>4, ConcatDescriptors DEF CcidDesc
<1>5. IsDescriptor(DebugDesc)
  BY DEF IsDescriptor, DebugDesc, Iface, Hid, Endpoint
<1> QED
  BY <1>1, <1>2, <1>3, <1>5, <1>6

LEMMA PutDescriptor ==
  ASSUME NEW desc, IsDescriptor(desc), NEW off, NEW v
  PROVE  IsDescriptor(Put(desc, off, v)) /\ Len(Put(desc, off, v)) = Len(desc)
<1> DEFINE p == Put(desc, off, v)
<1>1. DOMAIN p = 1 .. Len(desc)
  BY DEF Put, IsDescriptor
<1>2. \A i \in 1 .. Len(desc) : p[i] = desc[i] \/ p[i] = [desc[i] EXCEPT !.num = v]
  BY DEF Put, IsDescriptor
<1>3. \A i \in 1 .. Len(desc) : "len" \in DOMAIN p[i] /\ p[i].len = desc[i].len
  BY <1>2 DEF IsDescriptor
<1>4. p = [i \in 1 .. Len(desc) |-> p[i]]
  BY DEF Put, IsDescriptor
<1> HIDE DEF p
<1>5. Len(p) = Len(desc)
  BY <1>1, <1>4, LenIsDomain DEF IsDescriptor
<1>6. IsDescriptor(p)
  BY <1>1, <1>3, <1>4, <1>5 DEF IsDescriptor
<1> QED
  BY <1>5, <1>6 DEF p

LEMMA WithFunctionDescriptor ==
  ASSUME NEW on, NEW cfg, NEW desc, IsDescriptor(desc), IsDescriptor(cfg.bytes), Len(cfg.bytes) > 0
  PROVE  LET with == WithFunction(on, cfg, desc)
         IN  IsDescriptor(with.bytes) /\ Len(with.bytes) > 0
<1>1. IsDescriptor(cfg.bytes \o desc) /\ Len(cfg.bytes \o desc) > 0
  BY ConcatDescriptors DEF IsDescriptor
<1>2. \A off, v : IsDescriptor(Put(cfg.bytes \o desc, off, v)) /\ Len(Put(cfg.bytes \o desc, off, v)) > 0
  BY <1>1, PutDescriptor
<1> QED
  BY <1>2 DEF WithFunction

LEMMA CfgDescriptorSize == ASSUME NEW functions PROVE SizeOf(CreateCfgDescriptor(functions)) \in Nat
<1> DEFINE size == SizeOf(CfgDesc)
           cdc == [bytes |-> Put(Put(CfgDesc \o CdcDesc, size + 10, 0), size + 45, 1), num |-> 2]
           fido == WithFunction("FIDO" \in functions, cdc, FidoDesc)
           ccid == WithFunction("CCID" \in functions, fido, CcidDesc)
           all  == WithFunction("DEBUG" \in functions, ccid, DebugDesc)
<1>1. IsDescriptor(cdc.bytes) /\ Len(cdc.bytes) > 0
  <2>1. IsDescriptor(CfgDesc \o CdcDesc) /\ Len(CfgDesc \o CdcDesc) > 0
    <3>1. Len(CdcDesc) \in Nat
      BY DescriptorsAre DEF IsDescriptor
    <3> QED
      BY <3>1, DescriptorsAre, ConcatDescriptors
  <2>2. \A i, j : IsDescriptor(Put(Put(CfgDesc \o CdcDesc, i, 0), j, 1))
                  /\ Len(Put(Put(CfgDesc \o CdcDesc, i, 0), j, 1)) > 0
    BY <2>1, PutDescriptor
  <2> QED
    BY <2>2
<1> HIDE DEF cdc
<1>2. IsDescriptor(fido.bytes) /\ Len(fido.bytes) > 0
  BY <1>1, DescriptorsAre, WithFunctionDescriptor
<1> HIDE DEF fido
<1>3. IsDescriptor(ccid.bytes) /\ Len(ccid.bytes) > 0
  BY <1>2, DescriptorsAre, WithFunctionDescriptor
<1> HIDE DEF ccid
<1>4. IsDescriptor(all.bytes) /\ Len(all.bytes) > 0
  BY <1>3, DescriptorsAre, WithFunctionDescriptor
<1> HIDE DEF all
<1>5. CreateCfgDescriptor(functions)
        = [all.bytes EXCEPT ![1].total = SizeOf(all.bytes), ![1].num = all.num]
  BY DEF CreateCfgDescriptor, all, ccid, fido, cdc
<1>6. IsDescriptor([all.bytes EXCEPT ![1].total = SizeOf(all.bytes), ![1].num = all.num])
  <2> DEFINE x == [all.bytes EXCEPT ![1].total = SizeOf(all.bytes), ![1].num = all.num]
  <2>1. DOMAIN x = 1 .. Len(all.bytes) /\ Len(x) = Len(all.bytes)
    <3>1. DOMAIN x = 1 .. Len(all.bytes) /\ x = [i \in 1 .. Len(all.bytes) |-> x[i]]
      BY <1>4 DEF IsDescriptor
    <3> HIDE DEF x
    <3> QED
      BY <1>4, <3>1, LenIsDomain DEF IsDescriptor
  <2>2. \A i \in 1 .. Len(all.bytes) : "len" \in DOMAIN x[i] /\ x[i].len = all.bytes[i].len
    BY <1>4 DEF IsDescriptor
  <2> QED
    BY <1>4, <2>1, <2>2 DEF IsDescriptor
<1> QED
  BY <1>5, <1>6, SizeIsNat

-----------------------------------------------------------------------------
(* The address *)

Phases == {"idle", "data_in", "data_out", "status_in", "status_out"}

\* Names of what a packet is from.
Sized == {"DEVICE", "CONFIGURATION", "FIDO_HID", "DEBUG_HID", "FIDO_REPORT", "DEBUG_REPORT",
          "LINE_CODING"} \cup Strings
PieceNames == Sized \cup {"NULL", "NONE", "GET_CONFIGURATION", "GET_STATUS"}
Pieces == [d : PieceNames, from : Nat, len : Nat]

ControlTypes ==
  /\ mask \in Masks
  /\ SetupLen \in Nat
  /\ pDescr \in [d : PieceNames, off : Nat]
  /\ ep0 \in [data : Pieces, res : {"ACK", "NAK", "STALL"}, tog : {0, 1}]
  /\ host \in [phase : Phases, r : Requests \cup {Idle.r}, got : Seq(Pieces), tog : {0, 1}]

\* The request the device is at is the one the host is at, unless it was refused,
\* and what is left of SET_ADDRESS is the address.
AddressInv ==
  /\ host.phase # "idle" => SetupReq \in {host.r.req, "NONE"}
  /\ host.phase # "idle" /\ ep0.res = "ACK" => SetupReq = host.r.req
  /\ host.phase # "idle" /\ SetupReq = "SET_ADDRESS" => SetupLen = host.r.arg
  /\ host.phase \in {"data_in", "data_out", "status_out"} => host.r.req # "SET_ADDRESS"

ControlInv == ControlTypes /\ AddressInv

LEMMA RequestTypes ==
  ASSUME NEW r \in Requests
  PROVE  /\ r.wLength \in Nat /\ r.req # "NONE"
         /\ r.req = "GET_DESCRIPTOR" => r.desc \in Descriptors \cup HidDescriptors
         /\ r.req = "SET_ADDRESS" => r.wLength = 0 /\ r.arg \in Nat
         /\ r.req \in OutData => r.req \notin {"GET_DESCRIPTOR", "SET_ADDRESS"}
<1> USE DEF Request, Plain
<1>1. Lengths \subseteq Nat /\ Addresses \subseteq Nat
      /\ OutData \cap {"NONE", "GET_DESCRIPTOR", "SET_ADDRESS"} = {}
  BY ConstantsAssumption
<1>2. \/ \E d \in Descriptors, n \in Lengths : r = Request("GET_DESCRIPTOR", d, 0, n)
      \/ \E d \in HidDescriptors, i \in Interfaces, n \in Lengths : r = Request("GET_DESCRIPTOR", d, i, n)
      \/ \E a \in Addresses : r = Plain("SET_ADDRESS", a, 0)
      \/ \E c \in 0 .. 1 : r = Plain("SET_CONFIGURATION", c, 0)
      \/ \E f \in {"CLEAR_FEATURE", "SET_FEATURE"}, e \in EndpointAddresses \cup {5} : r = Plain(f, e, 0)
      \/ \E f \in {"GET_CONFIGURATION", "GET_STATUS", "GET_LINE_CODING"}, n \in Lengths \ {0} :
           r = Plain(f, 0, n)
      \/ \E f \in {"SET_IDLE", "SET_CONTROL_LINE_STATE", "UNSUPPORTED"} : r = Plain(f, 0, 0)
      \/ \E f \in OutData : r = Plain(f, 0, 7)
  BY DEF Requests
<1>3. \A d \in Descriptors \cup HidDescriptors : \A i, n :
        LET q == Request("GET_DESCRIPTOR", d, i, n)
        IN  q.req = "GET_DESCRIPTOR" /\ q.desc = d /\ q.wLength = n
  OBVIOUS
<1>4. \A f, i, n : LET q == Plain(f, i, n) IN q.req = f /\ q.arg = i /\ q.wLength = n
  OBVIOUS
<1> HIDE DEF Request, Plain
<1> QED
  BY <1>1, <1>2, <1>3, <1>4

LEMMA AskedIsKnown ==
  ASSUME NEW r \in Requests, r.req = "GET_DESCRIPTOR"
  PROVE  Asked(r) \in Sized \cup {"EMPTY", "UNKNOWN"}
BY RequestTypes DEF Asked, Sized, Descriptors, Strings, HidDescriptors

LEMMA LengthIsNat == ASSUME NEW d \in Sized PROVE Length(d) \in Nat
<1>1. CASE d = "CONFIGURATION"
  <2>1. Length(d) = SizeOf(CreateCfgDescriptor(mask))
    BY <1>1 DEF Length, StringSizes
  <2> QED
    BY <2>1, CfgDescriptorSize
<1>2. CASE d = "FIDO_REPORT"
  <2>1. FidoReportDesc \in Seq(Nat)
    BY DEF FidoReportDesc
  <2> QED
    BY <1>2, <2>1, TotalIsNat DEF Length, StringSizes
<1>3. CASE d = "DEBUG_REPORT"
  <2>1. DebugReportDesc \in Seq(Nat)
    BY DEF DebugReportDesc
  <2> QED
    BY <1>3, <2>1, TotalIsNat DEF Length, StringSizes
<1>4. CASE d \in Strings
  BY <1>4 DEF Strings, Length, StringSizes, LangDesc
<1>5. CASE d \in {"DEVICE", "FIDO_HID", "DEBUG_HID", "LINE_CODING"}
  BY <1>5 DEF Length, StringSizes, DevDesc, FidoCfgDesc, DebugCfgDesc, LineCoding, Hid
<1> QED
  BY <1>1, <1>2, <1>3, <1>4, <1>5 DEF Sized

\* A handler of a request for data stores nothing but what is there.
LEMMA MinIsNat == ASSUME NEW a \in Nat, NEW b \in Nat PROVE Min2(a, b) \in Nat /\ Min2(a, b) <= a /\ Min2(a, b) <= b
BY DEF Min2

LEMMA SendTypes ==
  ASSUME ControlTypes, NEW d \in Sized, NEW n \in Nat, Send(d, n)
  PROVE  /\ SetupLen' \in Nat /\ pDescr' \in [d : PieceNames, off : Nat]
         /\ ep0' \in [data : Pieces, res : {"ACK", "NAK", "STALL"}, tog : {0, 1}]
<1> DEFINE all == Min2(n, Length(d))
           len == Min2(all, BUF_EP0_SIZE)
<1>1. all \in Nat
  BY LengthIsNat, MinIsNat
<1>2. len \in Nat /\ len <= all
  BY <1>1, MinIsNat DEF BUF_EP0_SIZE
<1>3. /\ SetupLen' = all - len
      /\ pDescr' = [d |-> d, off |-> len]
      /\ Answer(IF len > 0 THEN Piece(d, 0, len) ELSE NoData)
  BY DEF Send
<1> HIDE DEF all, len
<1> QED
  BY <1>1, <1>2, <1>3 DEF Answer, Piece, NoData, Pieces, PieceNames, Sized

\* The handlers, and what each keeps.
Handled(r) ==
  \/ GetDescriptor(r) \/ ClassRequest(r) \/ SetAddress(r) \/ Configuration(r)
  \/ GetStatus(r) \/ ClearFeature(r) \/ SetFeature(r) \/ Unsupported(r)

LEMMA HandledTypes ==
  ASSUME ControlTypes, NEW r \in Requests, Handled(r)
  PROVE  /\ SetupLen' \in Nat /\ pDescr' \in [d : PieceNames, off : Nat]
         /\ ep0' \in [data : Pieces, res : {"ACK", "NAK", "STALL"}, tog : {0, 1}]
         /\ SetupReq' \in {r.req, "NONE"}
         /\ ep0'.res = "ACK" => SetupReq' = r.req
         /\ r.req = "SET_ADDRESS" => SetupLen' = r.arg
<1> USE RequestTypes
<1>1. CASE GetDescriptor(r)
  <2>1. r.req = "GET_DESCRIPTOR"
    BY <1>1 DEF GetDescriptor
  <2>2. CASE Asked(r) \in {"UNKNOWN", "EMPTY"}
    BY <1>1, <2>1, <2>2 DEF GetDescriptor, Stall, Answer, NoData, Piece, Pieces, PieceNames, ControlTypes
  <2>3. CASE Asked(r) \notin {"UNKNOWN", "EMPTY"}
    <3>1. Asked(r) \in Sized
      BY <2>1, <2>3, AskedIsKnown
    <3>2. SetupReq' = r.req /\ Send(Asked(r), r.wLength)
      BY <1>1, <2>3 DEF GetDescriptor
    <3>3. r.wLength \in Nat
      OBVIOUS
    <3> QED
      BY <2>1, <3>1, <3>2, <3>3, SendTypes
  <2> QED
    BY <2>2, <2>3
<1>2. CASE ClassRequest(r)
  <2>1. SetupReq' = r.req /\ r.req # "SET_ADDRESS"
    BY <1>2 DEF ClassRequest
  <2>2. CASE r.req = "GET_LINE_CODING"
    <3>1. Send("LINE_CODING", r.wLength) /\ "LINE_CODING" \in Sized /\ r.wLength \in Nat
      BY <1>2, <2>2 DEF ClassRequest, Sized
    <3> QED
      BY <2>1, <3>1, SendTypes
  <2>3. CASE r.req # "GET_LINE_CODING"
    BY <1>2, <2>1, <2>3 DEF ClassRequest, Answer, NoData, Piece, Pieces, PieceNames, ControlTypes
  <2> QED
    BY <2>2, <2>3
<1>3. CASE SetAddress(r)
  BY <1>3 DEF SetAddress, Answer, NoData, Piece, Pieces, PieceNames, ControlTypes
<1>4. CASE Configuration(r)
  BY <1>4 DEF Configuration, Answer, NoData, Piece, Pieces, PieceNames, ControlTypes
<1>5. CASE GetStatus(r)
  <2>1. Min2(r.wLength, 2) \in Nat
    BY MinIsNat
  <2> QED
    BY <1>5, <2>1 DEF GetStatus, Answer, NoData, Piece, Pieces, PieceNames, ControlTypes
<1>6. CASE ClearFeature(r)
  BY <1>6 DEF ClearFeature, Stall, Answer, NoData, Piece, Pieces, PieceNames, ControlTypes
<1>7. CASE SetFeature(r)
  BY <1>7 DEF SetFeature, Stall, Answer, NoData, Piece, Pieces, PieceNames, ControlTypes
<1>8. CASE Unsupported(r)
  BY <1>8 DEF Unsupported, Stall, ControlTypes
<1> QED
  BY <1>1, <1>2, <1>3, <1>4, <1>5, <1>6, <1>7, <1>8 DEF Handled

LEMMA AddressKept ==
  ASSUME NEW r, Handled(r) PROVE USB_DEV_AD' = USB_DEV_AD
BY DEF Handled, GetDescriptor, ClassRequest, SetAddress, Configuration, GetStatus, ClearFeature,
       SetFeature, Unsupported

LEMMA Ep0InTypes ==
  ASSUME ControlTypes, Ep0In
  PROVE  /\ SetupLen' \in Nat /\ pDescr' \in [d : PieceNames, off : Nat]
         /\ ep0' \in [data : Pieces, res : {"ACK", "NAK", "STALL"}, tog : {0, 1}]
         /\ SetupReq' = SetupReq
         /\ SetupReq # "SET_ADDRESS" => USB_DEV_AD' = USB_DEV_AD
         /\ SetupReq = "SET_ADDRESS" => USB_DEV_AD' = SetupLen /\ SetupLen' = SetupLen
<1>i. NoData \in Pieces
  BY DEF Piece, NoData, Pieces, PieceNames
<1>1. SetupReq' = SetupReq
  BY DEF Ep0In
<1>2. CASE SetupReq = "GET_DESCRIPTOR"
  <2> DEFINE len == Min2(SetupLen, BUF_EP0_SIZE)
  <2>1. len \in Nat /\ len <= SetupLen
    BY MinIsNat DEF BUF_EP0_SIZE, ControlTypes
  <2>2. /\ SetupLen' = SetupLen - len
        /\ pDescr' = [pDescr EXCEPT !.off = @ + len]
        /\ ep0' = [ep0 EXCEPT !.tog = 1 - @,
                     !.data = IF len > 0 THEN Piece(pDescr.d, pDescr.off, len) ELSE NoData]
        /\ USB_DEV_AD' = USB_DEV_AD
    BY <1>2 DEF Ep0In
  <2> HIDE DEF len
  <2>3. Piece(pDescr.d, pDescr.off, len) \in Pieces
    BY <2>1 DEF Piece, Pieces, ControlTypes
  <2>4. ep0' \in [data : Pieces, res : {"ACK", "NAK", "STALL"}, tog : {0, 1}]
    <3>1. PICK x \in Pieces : ep0' = [ep0 EXCEPT !.tog = 1 - @, !.data = x]
      BY <1>i, <2>2, <2>3
    <3>2. ep0' = [data |-> x, res |-> ep0.res, tog |-> 1 - ep0.tog]
      BY <3>1 DEF ControlTypes
    <3>3. ep0.res \in {"ACK", "NAK", "STALL"} /\ 1 - ep0.tog \in {0, 1}
      BY DEF ControlTypes
    <3> QED
      BY <3>2, <3>3
  <2>5. pDescr' \in [d : PieceNames, off : Nat]
    BY <2>1, <2>2 DEF ControlTypes
  <2> QED
    BY <1>1, <1>2, <2>1, <2>2, <2>4, <2>5 DEF ControlTypes
<1>3. CASE SetupReq # "GET_DESCRIPTOR"
  <2>1. ep0' = [ep0 EXCEPT !.res = "NAK", !.tog = 0]
        \/ ep0' = [data |-> NoData, res |-> "NAK", tog |-> 0]
    BY <1>3 DEF Ep0In
  <2>2. ep0' \in [data : Pieces, res : {"ACK", "NAK", "STALL"}, tog : {0, 1}]
    <3>1. ep0' = [data |-> ep0.data, res |-> "NAK", tog |-> 0]
          \/ ep0' = [data |-> NoData, res |-> "NAK", tog |-> 0]
      BY <2>1 DEF ControlTypes
    <3>2. ep0.data \in Pieces
      BY DEF ControlTypes
    <3> QED
      BY <1>i, <3>1, <3>2
  <2> QED
    BY <1>1, <1>3, <2>2 DEF Ep0In, ControlTypes
<1> QED
  BY <1>2, <1>3

LEMMA Ep0OutTypes ==
  ASSUME ControlTypes, Ep0Out
  PROVE  /\ ep0' \in [data : Pieces, res : {"ACK", "NAK", "STALL"}, tog : {0, 1}]
         /\ ep0'.res = "ACK" => ep0.res = "ACK"
         /\ UNCHANGED <<SetupReq, SetupLen, pDescr, USB_DEV_AD>>
BY DEF Ep0Out, ControlTypes, Piece, NoData, Pieces, PieceNames

LEMMA GotTypes ==
  ASSUME ControlTypes
  PROVE  Got \in Seq(Pieces)
BY DEF ControlTypes, Got

LEMMA ControlInit == Init => ControlInv
BY EmptySeq DEF Init, ControlInv, ControlTypes, AddressInv, Idle, Phases, Pieces, Piece, NoData, PieceNames, Plain,
       Request

LEMMA ControlNext == ControlInv /\ [Next]_vars => ControlInv'
<1> SUFFICES ASSUME ControlInv, [Next]_vars PROVE ControlInv'
  OBVIOUS
<1> USE DEF ControlInv
<1>i. Idle.phase = "idle" /\ Idle.got \in Seq(Pieces) /\ Idle.tog \in {0, 1}
      /\ Idle \in [phase : Phases, r : Requests \cup {Idle.r}, got : Seq(Pieces), tog : {0, 1}]
  BY EmptySeq DEF Idle, Phases
<1>1. ASSUME NEW r \in Requests, Setup(r) PROVE ControlInv'
  <2>1. Handled(r) /\ mask' = mask
        /\ host' = [phase |-> FirstPhase(r), r |-> r, got |-> <<>>, tog |-> 1]
    BY <1>1 DEF Setup, Handled
  <2>2. FirstPhase(r) \in {"data_in", "data_out", "status_in"}
    BY DEF FirstPhase
  <2>3. r.req = "SET_ADDRESS" => FirstPhase(r) = "status_in"
    BY RequestTypes DEF FirstPhase
  <2>4. ControlTypes'
    BY <2>1, <2>2, HandledTypes, EmptySeq DEF ControlTypes, Phases
  <2> QED
    BY <2>1, <2>2, <2>3, <2>4, HandledTypes DEF AddressInv
<1>2. ASSUME NEW l \in BOOLEAN, DataIn(l) PROVE ControlInv'
  <2>1. Got \in Seq(Pieces)
    BY GotTypes
  <2>2. /\ host.phase = "data_in" /\ mask' = mask
        /\ host' = [host EXCEPT !.got = Got,
                      !.tog = IF ep0.tog = @ THEN 1 - @ ELSE @,
                      !.phase = IF Enough(Got) /\ ~l THEN "status_out" ELSE @]
    BY <1>2 DEF DataIn
  <2>3. Ep0In \/ UNCHANGED device
    BY <1>2 DEF DataIn
  <2>4. ControlTypes'
    <3>1. host' \in [phase : Phases, r : Requests \cup {Idle.r}, got : Seq(Pieces), tog : {0, 1}]
      <4> DEFINE t == IF ep0.tog = host.tog THEN 1 - host.tog ELSE host.tog
                 p == IF Enough(Got) /\ ~l THEN "status_out" ELSE host.phase
      <4>1. /\ host' = [host EXCEPT !.got = Got, !.tog = t, !.phase = p]
            /\ t \in {0, 1} /\ p \in Phases
        BY <2>2 DEF ControlTypes, Phases
      <4> HIDE DEF t, p
      <4>2. host' = [phase |-> p, r |-> host.r, got |-> Got, tog |-> t]
        BY <4>1 DEF ControlTypes
      <4>3. host.r \in Requests \cup {Idle.r}
        BY DEF ControlTypes
      <4> QED
        BY <2>1, <4>1, <4>2, <4>3
    <3> QED
      BY <2>2, <2>3, <3>1, Ep0InTypes DEF ControlTypes, device
  <2>5. host'.r = host.r /\ host'.phase \in {"data_in", "status_out"}
    BY <2>2 DEF ControlTypes
  <2>6. SetupReq' = SetupReq /\ SetupReq # "SET_ADDRESS"
    BY <2>2, <2>3, Ep0InTypes DEF device, AddressInv
  <2> QED
    <3>1. ep0'.res = "ACK" => SetupReq = host.r.req
      BY <2>2, <2>3 DEF DataIn, AddressInv, device, Ep0In
    <3> QED
      BY <2>2, <2>4, <2>5, <2>6, <3>1 DEF AddressInv
<1>3. CASE DataOut
  <2>1. host.phase = "data_out" /\ host' = [host EXCEPT !.phase = "status_in"] /\ mask' = mask
        /\ Ep0Out /\ ep0.res # "STALL"
    BY <1>3 DEF DataOut
  <2>2. ControlTypes'
    BY <2>1, Ep0OutTypes DEF ControlTypes, Phases
  <2>3. SetupReq = host.r.req \/ ep0'.res # "ACK"
    BY <2>1, Ep0OutTypes DEF AddressInv
  <2> QED
    BY <2>1, <2>2, <2>3, Ep0OutTypes DEF AddressInv, ControlTypes
<1>4. CASE StatusIn
  BY <1>4, <1>i, Ep0InTypes DEF StatusIn, ControlTypes, AddressInv
<1>5. CASE StatusOut
  BY <1>5, <1>i, Ep0OutTypes DEF StatusOut, ControlTypes, AddressInv
<1>6. CASE Refused
  BY <1>6, <1>i DEF Refused, device, ControlTypes, AddressInv
<1>7. CASE BusReset
  BY <1>7, <1>i DEF BusReset, ControlTypes, AddressInv
<1>8. CASE UNCHANGED vars
  BY <1>8 DEF vars, device, ControlTypes, AddressInv
<1> QED
  BY <1>1, <1>2, <1>3, <1>4, <1>5, <1>6, <1>7, <1>8 DEF Next, Transfer

\* The address is set by the status stage of the request that sets it, or cleared
\* by a bus reset.
LEMMA AddressStep ==
  ASSUME ControlInv, [Next]_vars
  PROVE  [IF StatusIn /\ host.r.req = "SET_ADDRESS"
          THEN USB_DEV_AD' = host.r.arg
          ELSE USB_DEV_AD' = USB_DEV_AD \/ BusReset]_vars
<1> USE DEF ControlInv
<1>1. CASE StatusIn
  <2>1. SetupReq = host.r.req /\ Ep0In
    BY <1>1 DEF StatusIn, AddressInv
  <2>2. CASE host.r.req = "SET_ADDRESS"
    <3>1. USB_DEV_AD' = host.r.arg
      BY <1>1, <2>1, <2>2, Ep0InTypes DEF StatusIn, AddressInv
    <3> QED
      BY <1>1, <2>2, <3>1
  <2>3. CASE host.r.req # "SET_ADDRESS"
    <3>1. USB_DEV_AD' = USB_DEV_AD
      BY <2>1, <2>3, Ep0InTypes
    <3> QED
      BY <2>3, <3>1
  <2> QED
    BY <2>2, <2>3
<1>2. CASE ~StatusIn
  <2>1. ASSUME NEW r \in Requests, Setup(r) PROVE USB_DEV_AD' = USB_DEV_AD
    BY <2>1, AddressKept DEF Setup, Handled
  <2>2. ASSUME NEW l \in BOOLEAN, DataIn(l) PROVE USB_DEV_AD' = USB_DEV_AD
    <3>1. SetupReq # "SET_ADDRESS"
      BY <2>2 DEF DataIn, AddressInv
    <3> QED
      BY <2>2, <3>1, Ep0InTypes DEF DataIn
  <2>3. ASSUME DataOut \/ StatusOut PROVE USB_DEV_AD' = USB_DEV_AD
    BY <2>3, Ep0OutTypes DEF DataOut, StatusOut
  <2>4. ASSUME Refused \/ UNCHANGED vars PROVE USB_DEV_AD' = USB_DEV_AD
    BY <2>4 DEF Refused, vars
  <2>5. USB_DEV_AD' = USB_DEV_AD \/ BusReset
    BY <1>2, <2>1, <2>2, <2>3, <2>4 DEF Next, Transfer
  <2> QED
    BY <1>2, <2>5
<1> QED
  BY <1>1, <1>2

LEMMA ControlInvHolds == Spec => []ControlInv
BY ControlInit, ControlNext, PTL DEF Spec

\* The address of the device changes in the status stage of the SET_ADDRESS it
\* belongs to, to the address it names, whatever requests were abandoned before.
THEOREM AddressChangesInTime == Spec => AddressAfterStatus
<1>1. ControlInv /\ [Next]_vars
        => [IF StatusIn /\ host.r.req = "SET_ADDRESS"
            THEN USB_DEV_AD' = host.r.arg
            ELSE USB_DEV_AD' = USB_DEV_AD \/ BusReset]_vars
  BY AddressStep
<1> QED
  BY <1>1, ControlInvHolds, PTL DEF Spec, AddressAfterStatus

-----------------------------------------------------------------------------
(* Descriptors in packets *)

\* The i-th packet of the first n bytes of a descriptor.
Packet(d, n, i) ==
  LET from == BUF_EP0_SIZE * (i - 1)
  IN  IF from < n THEN Piece(d, from, Min2(n - from, BUF_EP0_SIZE)) ELSE NoData

Lens(got) == [i \in DOMAIN got |-> got[i].len]

\* What the host has got: the first packets, all of them full but the last.
Received(got, d, n) ==
  /\ \A i \in 1 .. Len(got) : got[i] = Packet(d, n, i)
  /\ Len(got) > 0 => BUF_EP0_SIZE * (Len(got) - 1) <= n
  /\ Total(Lens(got)) = Min2(n, BUF_EP0_SIZE * Len(got))

LEMMA PacketLen ==
  ASSUME NEW d, NEW n \in Nat, NEW i \in Nat \ {0}
  PROVE  Packet(d, n, i).len =
           IF BUF_EP0_SIZE * i <= n THEN BUF_EP0_SIZE
           ELSE IF BUF_EP0_SIZE * (i - 1) <= n THEN n - BUF_EP0_SIZE * (i - 1) ELSE 0
BY DEF Packet, Piece, NoData, Min2, BUF_EP0_SIZE

LEMMA LensIsSeq ==
  ASSUME NEW got \in Seq(Pieces)
  PROVE  /\ Lens(got) \in Seq(Nat) /\ Len(Lens(got)) = Len(got)
         /\ \A i \in 1 .. Len(got) : Lens(got)[i] = got[i].len
<1> DEFINE f == Lens(got)
<1>1. DOMAIN got = 1 .. Len(got) /\ Len(got) \in Nat /\ \A i \in 1 .. Len(got) : got[i] \in Pieces
  BY LenProperties
<1>2. f \in [1 .. Len(got) -> Nat] /\ \A i \in 1 .. Len(got) : f[i] = got[i].len
  BY <1>1 DEF Lens, Pieces
<1> HIDE DEF f
<1>3. f \in Seq(Nat)
  BY <1>1, <1>2, SeqDef
<1>4. DOMAIN f = 1 .. Len(got) /\ f = [i \in 1 .. Len(got) |-> f[i]]
  BY <1>2
<1>5. Len(f) = Len(got)
  BY <1>1, <1>4, LenIsDomain
<1> QED
  BY <1>2, <1>3, <1>5 DEF f

LEMMA LensAppend ==
  ASSUME NEW got \in Seq(Pieces), NEW x \in Pieces
  PROVE  /\ Lens(got) \in Seq(Nat) /\ Lens(Append(got, x)) = Append(Lens(got), x.len)
         /\ x.len \in Nat
<1> DEFINE g == Append(got, x)
           f == Lens(got)
           h == Lens(g)
           y == x.len
<1>1. /\ g \in Seq(Pieces) /\ Len(g) = Len(got) + 1 /\ g[Len(got) + 1] = x
      /\ \A i \in 1 .. Len(got) : g[i] = got[i]
  OBVIOUS
<1>2. y \in Nat
  BY DEF Pieces
<1>3. Len(got) \in Nat /\ f \in Seq(Nat) /\ Len(f) = Len(got) /\ \A i \in 1 .. Len(got) : f[i] = got[i].len
  BY LensIsSeq
<1>4. h \in Seq(Nat) /\ Len(h) = Len(g) /\ \A i \in 1 .. Len(g) : h[i] = g[i].len
  <2> HIDE DEF g
  <2> QED
    BY <1>1, LensIsSeq
<1>5. h[Len(got) + 1] = y /\ \A i \in 1 .. Len(got) : h[i] = f[i]
  <2> HIDE DEF g, h, f
  <2>1. h[Len(got) + 1] = g[Len(got) + 1].len
    BY <1>1, <1>3, <1>4
  <2>2. \A i \in 1 .. Len(got) : h[i] = g[i].len /\ f[i] = got[i].len
    BY <1>1, <1>3, <1>4
  <2> QED
    BY <1>1, <2>1, <2>2
<1>6. h = Append(f, y)
  <2> HIDE DEF g, h, f, y
  <2>1. /\ Append(f, y) \in Seq(Nat) /\ Len(Append(f, y)) = Len(f) + 1
        /\ \A i \in 1 .. Len(f) + 1 : Append(f, y)[i] = IF i = Len(f) + 1 THEN y ELSE f[i]
    BY <1>2, <1>3
  <2> HIDE DEF y
  <2>2. \A i \in 1 .. Len(h) : h[i] = Append(f, y)[i]
    BY <1>1, <1>3, <1>4, <1>5, <2>1
  <2> QED
    BY <1>1, <1>3, <1>4, <2>1, <2>2, SeqEqual
<1> QED
  BY <1>2, <1>3, <1>6

LEMMA ReceivedNothing == ASSUME NEW d, NEW n \in Nat PROVE Received(<<>>, d, n)
<1>1. Lens(<<>>) = <<>> /\ Len(<<>>) = 0
  BY DEF Lens
<1> QED
  BY <1>1, TotalEmpty DEF Received, Min2, BUF_EP0_SIZE

LEMMA ReceivedMore ==
  ASSUME NEW d, NEW n \in Nat, NEW got \in Seq(Pieces), NEW x \in Pieces, Received(got, d, n),
         x = Packet(d, n, Len(got) + 1), BUF_EP0_SIZE * Len(got) <= n
  PROVE  Received(Append(got, x), d, n)
<1> DEFINE g == Append(got, x)
<1>1. /\ Len(g) = Len(got) + 1 /\ Len(got) \in Nat
      /\ g[Len(got) + 1] = x /\ \A i \in 1 .. Len(got) : g[i] = got[i]
  OBVIOUS
<1>2. Total(Lens(g)) = Total(Lens(got)) + x.len
  BY LensAppend, TotalAppend
<1>3. Total(Lens(got)) = BUF_EP0_SIZE * Len(got)
  BY <1>1 DEF Received, Min2, BUF_EP0_SIZE
<1>4. x.len = IF BUF_EP0_SIZE * (Len(got) + 1) <= n THEN BUF_EP0_SIZE ELSE n - BUF_EP0_SIZE * Len(got)
  BY <1>1, PacketLen DEF BUF_EP0_SIZE
<1> HIDE DEF g
<1>5. Total(Lens(g)) = Min2(n, BUF_EP0_SIZE * Len(g))
  BY <1>1, <1>2, <1>3, <1>4 DEF Min2, BUF_EP0_SIZE
<1>6. \A i \in 1 .. Len(g) : g[i] = Packet(d, n, i)
  BY <1>1 DEF Received
<1>7. BUF_EP0_SIZE * (Len(g) - 1) <= n
  BY <1>1
<1>8. Received(g, d, n)
  BY <1>5, <1>6, <1>7 DEF Received
<1> QED
  BY <1>8 DEF g

\* The host goes on when it has to.
LEMMA GoesOn ==
  ASSUME NEW d, NEW n \in Nat, NEW w \in Nat, NEW got \in Seq(Pieces), Received(got, d, n), Len(got) > 0,
         ~(Total(Lens(got)) >= w), ~(got[Len(got)].len < BUF_EP0_SIZE)
  PROVE  BUF_EP0_SIZE * Len(got) <= n /\ BUF_EP0_SIZE * Len(got) < w
<1>1. Len(got) \in Nat \ {0} /\ got[Len(got)] = Packet(d, n, Len(got))
  BY DEF Received
<1>2. BUF_EP0_SIZE * Len(got) <= n
  BY <1>1, PacketLen DEF BUF_EP0_SIZE
<1>3. Total(Lens(got)) = BUF_EP0_SIZE * Len(got)
  BY <1>1, <1>2 DEF Received, Min2, BUF_EP0_SIZE
<1> QED
  BY <1>1, <1>2, <1>3 DEF BUF_EP0_SIZE

\* It ends when it has all of it.
LEMMA Ends ==
  ASSUME NEW d, NEW n \in Nat, NEW w \in Nat, n <= w, NEW got \in Seq(Pieces), Received(got, d, n),
         \/ Total(Lens(got)) >= w
         \/ Len(got) > 0 /\ got[Len(got)].len < BUF_EP0_SIZE
  PROVE  Total(Lens(got)) = n
<1>1. Len(got) \in Nat
  OBVIOUS
<1>2. CASE Total(Lens(got)) >= w
  BY <1>1, <1>2 DEF Received, Min2, BUF_EP0_SIZE
<1>3. CASE Len(got) > 0 /\ got[Len(got)].len < BUF_EP0_SIZE
  <2>1. got[Len(got)] = Packet(d, n, Len(got))
    BY <1>1, <1>3 DEF Received
  <2>2. n < BUF_EP0_SIZE * Len(got)
    BY <1>1, <1>3, <2>1, PacketLen DEF BUF_EP0_SIZE
  <2> QED
    BY <1>1, <2>2 DEF Received, Min2, BUF_EP0_SIZE
<1> QED
  BY <1>2, <1>3

\* What the host has got is the descriptor.
LEMMA PacketsAreExact ==
  ASSUME NEW d, NEW n \in Nat, NEW got \in Seq(Pieces), Received(got, d, n)
  PROVE  \A i \in 1 .. Len(got) :
           \/ i = Len(got) /\ got[i].len = 0
           \/ /\ got[i].d = d /\ got[i].from = BUF_EP0_SIZE * (i - 1)
              /\ i < Len(got) => got[i].len = BUF_EP0_SIZE
<1> SUFFICES ASSUME NEW i \in 1 .. Len(got)
             PROVE  \/ i = Len(got) /\ got[i].len = 0
                    \/ /\ got[i].d = d /\ got[i].from = BUF_EP0_SIZE * (i - 1)
                       /\ i < Len(got) => got[i].len = BUF_EP0_SIZE
  OBVIOUS
<1>1. Len(got) \in Nat /\ got[i] = Packet(d, n, i) /\ BUF_EP0_SIZE * (Len(got) - 1) <= n
  BY DEF Received
<1>2. CASE BUF_EP0_SIZE * (i - 1) < n
  BY <1>1, <1>2, PacketLen DEF Packet, Piece, BUF_EP0_SIZE
<1>3. CASE ~(BUF_EP0_SIZE * (i - 1) < n)
  BY <1>1, <1>3 DEF Packet, NoData, Piece, BUF_EP0_SIZE
<1> QED
  BY <1>2, <1>3

-----------------------------------------------------------------------------
(* Requests for descriptors *)

\* How many bytes the host is to get.
Wanted(r) == IF Asked(r) = "EMPTY" THEN 0 ELSE Min2(r.wLength, Length(Asked(r)))

\* What the device is about to send is packet k of what the host asked for, and it
\* goes on from there.
Sending(d, n, k) ==
  /\ SetupReq = "GET_DESCRIPTOR"
  /\ ep0.data = Packet(d, n, k)
  /\ d # "EMPTY" => /\ SetupLen = n - Min2(n, BUF_EP0_SIZE * k)
                    /\ pDescr = [d |-> d, off |-> Min2(n, BUF_EP0_SIZE * k)]

\* That packet is the one after those the host has got, or, with the other toggle,
\* the last of them, the handshake of which was lost.
InTransfer(d, n) ==
  /\ d # "UNKNOWN"
  /\ Received(host.got, d, n)
  /\ \/ /\ ep0.tog = host.tog
        /\ BUF_EP0_SIZE * Len(host.got) <= n /\ BUF_EP0_SIZE * Len(host.got) < host.r.wLength
        /\ Sending(d, n, Len(host.got) + 1)
     \/ /\ ep0.tog # host.tog /\ Len(host.got) > 0
        /\ Sending(d, n, Len(host.got))

DescriptorInv ==
  /\ host.phase = "data_in" /\ host.r.req = "GET_DESCRIPTOR" /\ ep0.res = "ACK"
       => InTransfer(Asked(host.r), Wanted(host.r))
  /\ DescriptorIsExact

LEMMA WantedIsNat ==
  ASSUME NEW r \in Requests, r.req = "GET_DESCRIPTOR", Asked(r) # "UNKNOWN"
  PROVE  /\ Wanted(r) \in Nat /\ Wanted(r) <= r.wLength
         /\ Asked(r) \in Sized \cup {"EMPTY"}
<1>1. Asked(r) \in Sized \cup {"EMPTY"} /\ r.wLength \in Nat
  BY AskedIsKnown, RequestTypes
<1>2. CASE Asked(r) = "EMPTY"
  BY <1>1, <1>2 DEF Wanted
<1>3. CASE Asked(r) # "EMPTY"
  <2>1. Length(Asked(r)) \in Nat
    BY <1>1, <1>3, LengthIsNat
  <2> QED
    BY <1>1, <1>3, <2>1, MinIsNat DEF Wanted
<1> QED
  BY <1>2, <1>3

\* The same request asks for the same while the mask does not change.
LEMMA WantedStays ==
  ASSUME NEW r, mask' = mask, host'.r = r
  PROVE  Asked(host.r)' = Asked(r) /\ Wanted(host.r)' = Wanted(r) /\ Length(Asked(host.r))' = Length(Asked(r))
<1>1. \A x : Asked(x)' = Asked(x)
  BY DEF Asked, FidoInterfaceNum, DebugInterfaceNum
<1> QED
  BY <1>1 DEF Asked, FidoInterfaceNum, DebugInterfaceNum, Wanted, Length

\* The answer to a request for a descriptor starts with its first packet.
LEMMA FirstPacket ==
  ASSUME ControlInv, NEW r \in Requests, Setup(r), r.req = "GET_DESCRIPTOR", r.wLength > 0,
         ep0'.res = "ACK"
  PROVE  InTransfer(Asked(host.r), Wanted(host.r))'
<1>1. /\ Handled(r) /\ mask' = mask
      /\ host' = [phase |-> FirstPhase(r), r |-> r, got |-> <<>>, tog |-> 1]
  BY DEF Setup, Handled
<1>2. GetDescriptor(r)
  BY <1>1, RequestTypes DEF Handled, ClassRequest, SetAddress, Configuration, GetStatus, ClearFeature,
         SetFeature, Unsupported
<1>3. Asked(r) # "UNKNOWN"
  BY <1>2 DEF GetDescriptor, Stall
<1> PICK d, n : d = Asked(r) /\ n = Wanted(r)
  OBVIOUS
<1>4. Asked(host.r)' = d /\ Wanted(host.r)' = n
  BY <1>1, WantedStays
<1>5. n \in Nat /\ d \in Sized \cup {"EMPTY"} /\ r.wLength \in Nat
  BY <1>3, WantedIsNat, RequestTypes
<1>6. ep0'.tog = 1 /\ SetupReq' = "GET_DESCRIPTOR" /\ ep0'.data = Packet(d, n, 1)
      /\ (d # "EMPTY" => SetupLen' = n - Min2(n, BUF_EP0_SIZE * 1)
                         /\ pDescr' = [d |-> d, off |-> Min2(n, BUF_EP0_SIZE * 1)])
  <2>1. CASE d = "EMPTY"
    <3>1. Packet(d, n, 1) = NoData
      BY <2>1 DEF Packet, Wanted, BUF_EP0_SIZE
    <3> QED
      BY <1>2, <2>1, <3>1 DEF GetDescriptor, Answer
  <2>2. CASE d # "EMPTY"
    <3>1. SetupReq' = r.req /\ Send(d, r.wLength) /\ n = Min2(r.wLength, Length(d))
      BY <1>2, <1>3, <2>2 DEF GetDescriptor, Wanted
    <3>2. Packet(d, n, 1) = IF Min2(n, BUF_EP0_SIZE) > 0 THEN Piece(d, 0, Min2(n, BUF_EP0_SIZE)) ELSE NoData
      BY <1>5 DEF Packet, Min2, BUF_EP0_SIZE
    <3>3. BUF_EP0_SIZE * 1 = BUF_EP0_SIZE
      BY DEF BUF_EP0_SIZE
    <3> QED
      BY <2>2, <3>1, <3>2, <3>3 DEF Send, Answer
  <2> QED
    BY <2>1, <2>2
<1>7. host'.got = <<>> /\ host'.tog = 1 /\ Len(<<>>) = 0 /\ host'.r = r
  BY <1>1
<1>8. Received(<<>>, d, n)
  BY <1>5, ReceivedNothing
<1>9. (/\ BUF_EP0_SIZE * Len(host.got) <= n /\ BUF_EP0_SIZE * Len(host.got) < host.r.wLength)'
  BY <1>5, <1>7 DEF BUF_EP0_SIZE
<1>10. Sending(d, n, Len(host.got) + 1)'
  BY <1>6, <1>7 DEF Sending
<1>11. InTransfer(d, n)'
  BY <1>3, <1>6, <1>7, <1>8, <1>9, <1>10 DEF InTransfer
<1> QED
  BY <1>4, <1>11 DEF InTransfer

\* Every further IN brings the next packet.
LEMMA NextPacket ==
  ASSUME ControlInv, NEW d, NEW n \in Nat, NEW k \in Nat \ {0}, Sending(d, n, k), BUF_EP0_SIZE * k <= n,
         d # "EMPTY", Ep0In
  PROVE  Sending(d, n, k + 1)' /\ ep0'.tog = 1 - ep0.tog
<1> DEFINE sent == BUF_EP0_SIZE * k
           len == Min2(n - sent, BUF_EP0_SIZE)
<1>1. SetupLen = n - sent /\ pDescr = [d |-> d, off |-> sent]
  BY DEF Sending, Min2, BUF_EP0_SIZE
<1>2. sent \in Nat /\ n - sent \in Nat /\ len \in Nat /\ len <= n - sent
  <2>1. sent \in Nat /\ n - sent \in Nat /\ BUF_EP0_SIZE \in Nat
    BY DEF BUF_EP0_SIZE
  <2> HIDE DEF sent
  <2> QED
    BY <2>1, MinIsNat
<1>3. /\ SetupReq' = "GET_DESCRIPTOR" /\ SetupLen' = n - sent - len
      /\ pDescr' = [d |-> d, off |-> sent + len]
      /\ ep0' = [ep0 EXCEPT !.tog = 1 - @, !.data = IF len > 0 THEN Piece(d, sent, len) ELSE NoData]
  BY <1>1 DEF Ep0In, Sending
<1>4. Packet(d, n, k + 1) = IF len > 0 THEN Piece(d, sent, len) ELSE NoData
  BY <1>2 DEF Packet, Min2, BUF_EP0_SIZE
<1>5. sent + len = Min2(n, BUF_EP0_SIZE * (k + 1))
  BY <1>2 DEF Min2, BUF_EP0_SIZE
<1>6. ep0'.data = Packet(d, n, k + 1) /\ ep0'.tog = 1 - ep0.tog
  BY <1>3, <1>4 DEF ControlInv, ControlTypes
<1>7. SetupLen' = n - (sent + len)
  BY <1>2, <1>3
<1> HIDE DEF sent, len
<1> QED
  BY <1>3, <1>5, <1>6, <1>7 DEF Sending

LEMMA DataInStep ==
  ASSUME ControlInv, DescriptorInv, NEW l \in BOOLEAN, DataIn(l), host.r.req = "GET_DESCRIPTOR"
  PROVE  DescriptorInv'
<1> USE DEF ControlInv
<1>1. /\ host.phase = "data_in" /\ ep0.res = "ACK" /\ mask' = mask
      /\ host' = [host EXCEPT !.got = Got,
                    !.tog = IF ep0.tog = @ THEN 1 - @ ELSE @,
                    !.phase = IF Enough(Got) /\ ~l THEN "status_out" ELSE @]
      /\ IF l THEN UNCHANGED device ELSE Ep0In
  BY DEF DataIn
<1>2. /\ host'.phase = IF Enough(Got) /\ ~l THEN "status_out" ELSE "data_in"
      /\ host'.r = host.r /\ host'.got = Got
      /\ host'.tog = IF ep0.tog = host.tog THEN 1 - host.tog ELSE host.tog
  BY <1>1 DEF ControlTypes
<1>3. PICK r : r = host.r
  OBVIOUS
<1>4. r \in Requests /\ r.req = "GET_DESCRIPTOR" /\ r.wLength \in Nat
  BY <1>3, RequestTypes DEF ControlTypes, Idle, Plain, Request
<1> PICK d, n, w : d = Asked(r) /\ n = Wanted(r) /\ w = r.wLength
  OBVIOUS
<1>5. InTransfer(d, n) /\ d # "UNKNOWN"
  BY <1>1, <1>3 DEF DescriptorInv, InTransfer
<1>6. n \in Nat /\ n <= w /\ w \in Nat /\ d \in Sized \cup {"EMPTY"} /\ (d = "EMPTY" => n = 0)
  BY <1>4, <1>5, WantedIsNat DEF Wanted
<1>7. Asked(host.r)' = d /\ Wanted(host.r)' = n /\ Length(Asked(host.r))' = Length(d)
  BY <1>1, <1>2, <1>3, WantedStays
<1> PICK got : got = host.got
  OBVIOUS
<1>8. got \in Seq(Pieces) /\ Len(got) \in Nat /\ ep0.data \in Pieces /\ ep0.tog \in {0, 1} /\ host.tog \in {0, 1}
  BY DEF ControlTypes
<1> PICK now : now = Got
  OBVIOUS
\* What the host has got then.
<1>9. /\ now \in Seq(Pieces) /\ Received(now, d, n) /\ Len(now) \in Nat \ {0}
      /\ Sending(d, n, Len(now))
      /\ now = IF ep0.tog = host.tog THEN Append(got, ep0.data) ELSE got
  <2>1. CASE ep0.tog = host.tog
    <3>1. /\ now = Append(got, ep0.data) /\ Sending(d, n, Len(got) + 1) /\ BUF_EP0_SIZE * Len(got) <= n
          /\ Received(got, d, n)
      BY <1>5, <2>1 DEF Got, InTransfer
    <3>2. ep0.data = Packet(d, n, Len(got) + 1)
      BY <3>1 DEF Sending
    <3>3. Received(now, d, n)
      BY <1>6, <1>8, <3>1, <3>2, ReceivedMore
    <3>4. Len(now) = Len(got) + 1 /\ now \in Seq(Pieces)
      BY <1>8, <3>1
    <3> QED
      BY <1>8, <2>1, <3>1, <3>3, <3>4
  <2>2. CASE ep0.tog # host.tog
    BY <1>5, <1>8, <2>2 DEF Got, InTransfer
  <2> QED
    BY <2>1, <2>2
<1>10. Enough(now) <=> \/ Total(Lens(now)) >= w
                       \/ now[Len(now)].len < BUF_EP0_SIZE
  <2>1. now # <<>>
    <3>1. now \in Seq(Pieces) /\ Len(now) \in Nat \ {0}
      BY <1>9
    <3> QED
      BY <3>1, EmptySeq
  <2> QED
    BY <1>3, <2>1 DEF Enough, Lens, Last
<1>13. now \in Seq(Pieces) /\ Received(now, d, n) /\ n \in Nat /\ w \in Nat /\ n <= w /\ Len(now) > 0
  BY <1>6, <1>9
<1>11. CASE Enough(now) /\ ~l
  <2>1. Total(Lens(now)) = n
    BY <1>10, <1>11, <1>13, Ends
  <2>2. \A i \in 1 .. Len(now) :
           \/ i = Len(now) /\ now[i].len = 0
           \/ /\ now[i].d = d /\ now[i].from = BUF_EP0_SIZE * (i - 1)
              /\ i < Len(now) => now[i].len = BUF_EP0_SIZE
    BY <1>13, PacketsAreExact
  <2>3. host'.phase = "status_out" /\ host'.got = now /\ host'.r = r
    BY <1>2, <1>3, <1>11
  <2>4. n = IF d = "EMPTY" THEN 0 ELSE Min2(w, Length(d))
    BY DEF Wanted
  <2>5. DescriptorIsExact'
    BY <1>5, <1>7, <2>1, <2>2, <2>3, <2>4 DEF DescriptorIsExact, Lens
  <2> QED
    BY <2>3, <2>5 DEF DescriptorInv
<1>12. CASE ~(Enough(now) /\ ~l)
  <2>1. host'.phase = "data_in" /\ host'.got = now /\ host'.r = r
    BY <1>2, <1>3, <1>12
  <2>2. CASE l
    <3>1. UNCHANGED <<SetupReq, SetupLen, pDescr, ep0>> /\ ep0.tog # host'.tog
      BY <1>1, <1>2, <1>8, <2>2 DEF device
    <3>2. InTransfer(d, n)'
      BY <1>5, <1>9, <2>1, <3>1 DEF InTransfer, Sending
    <3> QED
      BY <1>7, <2>1, <3>2 DEF DescriptorInv, DescriptorIsExact, InTransfer
  <2>3. CASE ~l
    <3>1. Ep0In /\ ~Enough(now)
      BY <1>1, <1>12, <2>3
    <3>2. BUF_EP0_SIZE * Len(now) <= n /\ BUF_EP0_SIZE * Len(now) < w
      BY <1>10, <1>13, <3>1, GoesOn
    <3>3. d # "EMPTY"
      BY <1>6, <1>9, <3>2 DEF BUF_EP0_SIZE
    <3>4. Sending(d, n, Len(now) + 1)' /\ ep0'.tog = 1 - ep0.tog
      BY <1>6, <1>9, <3>1, <3>2, <3>3, NextPacket
    <3>5. ep0'.tog = host'.tog
      BY <1>2, <1>8, <3>4
    <3>6. InTransfer(d, n)'
      BY <1>5, <1>9, <2>1, <3>2, <3>4, <3>5 DEF InTransfer
    <3> QED
      BY <1>7, <2>1, <3>6 DEF DescriptorInv, DescriptorIsExact, InTransfer
  <2> QED
    BY <2>2, <2>3
<1> QED
  BY <1>11, <1>12

\* In the other phases the invariant says nothing.
LEMMA OtherPhases ==
  ASSUME host'.phase \in {"idle", "data_out", "status_in"} \/ host'.r.req # "GET_DESCRIPTOR"
  PROVE  DescriptorInv'
BY DEF DescriptorInv, DescriptorIsExact

LEMMA DescriptorInit == Init => DescriptorInv
BY DEF Init, Idle, DescriptorInv, DescriptorIsExact

LEMMA DescriptorNext == ControlInv /\ DescriptorInv /\ [Next]_vars => DescriptorInv'
<1> SUFFICES ASSUME ControlInv, DescriptorInv, [Next]_vars PROVE DescriptorInv'
  OBVIOUS
<1>1. ASSUME NEW r \in Requests, Setup(r) PROVE DescriptorInv'
  <2>1. host'.phase = FirstPhase(r) /\ host'.r = r
    BY <1>1 DEF Setup
  <2>2. CASE FirstPhase(r) = "data_in" /\ r.req = "GET_DESCRIPTOR" /\ ep0'.res = "ACK"
    <3>1. r.wLength > 0
      BY <2>2, RequestTypes DEF FirstPhase
    <3>2. InTransfer(Asked(host.r), Wanted(host.r))'
      BY <1>1, <2>2, <3>1, FirstPacket
    <3> QED
      BY <2>1, <2>2, <3>2 DEF DescriptorInv, DescriptorIsExact
  <2>3. CASE FirstPhase(r) = "data_in" /\ ep0'.res # "ACK"
    BY <2>1, <2>3 DEF DescriptorInv, DescriptorIsExact
  <2>4. CASE FirstPhase(r) # "data_in" \/ r.req # "GET_DESCRIPTOR"
    <3>1. FirstPhase(r) \in {"data_in", "data_out", "status_in"}
      BY DEF FirstPhase
    <3> QED
      BY <2>1, <2>4, <3>1, OtherPhases
  <2> QED
    BY <2>2, <2>3, <2>4
<1>2. ASSUME NEW l \in BOOLEAN, DataIn(l) PROVE DescriptorInv'
  <2>1. host'.r = host.r
    BY <1>2 DEF DataIn, ControlInv, ControlTypes
  <2>2. CASE host.r.req = "GET_DESCRIPTOR"
    BY <1>2, <2>2, DataInStep
  <2>3. CASE host.r.req # "GET_DESCRIPTOR"
    BY <2>1, <2>3, OtherPhases
  <2> QED
    BY <2>2, <2>3
<1>3. CASE DataOut
  <2>1. host'.phase = "status_in"
    BY <1>3 DEF DataOut, ControlInv, ControlTypes
  <2> QED
    BY <2>1, OtherPhases
<1>4. CASE StatusIn \/ StatusOut \/ Refused \/ BusReset
  <2>1. host'.phase = "idle"
    BY <1>4 DEF StatusIn, StatusOut, Refused, BusReset, Idle
  <2> QED
    BY <2>1, OtherPhases
<1>5. CASE UNCHANGED vars
  <2>1. mask' = mask /\ host' = host /\ UNCHANGED <<SetupReq, SetupLen, pDescr, ep0>>
    BY <1>5 DEF vars, device
  <2> PICK r : r = host.r
    OBVIOUS
  <2> PICK d, n, len : d = Asked(r) /\ n = Wanted(r) /\ len = Length(Asked(r))
    OBVIOUS
  <2>2. Asked(host.r)' = d /\ Wanted(host.r)' = n /\ Length(Asked(host.r))' = len
    BY <2>1, WantedStays
  <2>3. InTransfer(d, n) => InTransfer(d, n)'
    BY <2>1 DEF InTransfer, Sending
  <2>4. DescriptorIsExact'
    BY <2>1, <2>2 DEF DescriptorInv, DescriptorIsExact
  <2> QED
    BY <2>1, <2>2, <2>3, <2>4 DEF DescriptorInv, InTransfer
<1> QED
  BY <1>1, <1>2, <1>3, <1>4, <1>5 DEF Next, Transfer

\* The host gets the descriptor it asked for, byte for byte as far as it asked for
\* it, whatever handshakes were lost and whatever requests were abandoned.
THEOREM DescriptorsArrive == Spec => []DescriptorIsExact
<1>1. Init => DescriptorInv
  BY DescriptorInit
<1>2. ControlInv /\ DescriptorInv /\ [Next]_vars => DescriptorInv'
  BY DescriptorNext
<1>3. DescriptorInv => DescriptorIsExact
  BY DEF DescriptorInv
<1> QED
  BY <1>1, <1>2, <1>3, ControlInvHolds, PTL DEF Spec

-----------------------------------------------------------------------------
(* The flash driver: the inductive invariant *)

(***************************************************************************)
(* FlashInv says, for every clock edge: where the driver is in             *)
(* spi_transfer() (Place), that the SPI master runs only where the driver  *)
(* waits for it (Master), which bits are on the line and which bytes have  *)
(* arrived (Line), what is in the receive register (Reads), that the busy  *)
(* bit read as 0 means done (Polls), what the device has done of the call  *)
(* at each of its transfers (Progress), that it is asleep only when it has *)
(* been sent to sleep (Power), and what has been read so far (Replies).    *)
(* None of these is inductive alone: that a command is executed (Progress) *)
(* needs it to have arrived whole (Line), that write enable finds the      *)
(* device idle needs the poll before it to have been right (Polls).        *)
(***************************************************************************)
\* Bytes, bits and registers; the calls that programs make.
Byte == 0 .. 255
Bit == {0, 1}
Vector == [1 .. 8 -> {0, 1}]
Calls == UNION {{p[i] : i \in DOMAIN p} : p \in Programs}

\* Byte i of the transfer: the command and its data, then the zeros of the reads.
Wire(i) == IF i <= Len(Current.wr) THEN Current.wr[i] ELSE 0
\* Bytes started, and what the device answers after i of them.
Started == put + Len(buf) + (IF fpc \in {"waitread", "read"} THEN 1 ELSE 0)
Answered(i) == OutByte([j \in 1 .. i |-> Wire(j)])

Selected == fpc \in {"write", "data", "start", "dummy", "startread", "waitread", "read", "disable"}
Busy == fpc \notin {"call", "return"}

FlashTypes ==
  /\ spi_ss_reg \in BOOLEAN /\ spi_csk_reg \in BOOLEAN /\ spi_ready_reg \in BOOLEAN
  /\ spi_tx_data_reg \in Vector /\ spi_rx_data_reg \in Vector
  /\ spi_miso_sample_reg \in {0, 1} /\ miso \in {0, 1}
  /\ spi_bit_ctr_reg \in 0 .. 7
  /\ spi_ctrl_reg \in {"IDLE", "POS_FLANK", "NEG_FLANK", "NEXT"}
  /\ mem \in [0 .. FlashSize - 1 -> Byte]
  /\ received \in Seq(Byte) /\ shift \in Seq(Bit)
  /\ wel \in BOOLEAN /\ asleep \in BOOLEAN /\ work \in Seq(Byte) /\ applied \in Nat
  /\ todo \in Seq(FlashCalls) /\ call \in FlashCalls \cup {NoCall} /\ nth \in Nat
  /\ fpc \in {"call", "enable", "write", "data", "start", "dummy", "startread", "waitread", "read",
              "disable", "return"}
  /\ put \in Nat /\ buf \in Seq(Byte)

\* The place in spi_transfer() and its loop counters.
Place ==
  /\ call = NoCall <=> fpc = "call"
  /\ Busy => nth < Len(Transfers(call))
  /\ fpc = "return" => nth = Len(Transfers(call))
  /\ Selected => /\ put <= Len(Current.wr) /\ Len(buf) <= Current.n
  /\ fpc \in {"write", "data", "start"} => buf = <<>>
  /\ fpc \in {"data", "start"} => put < Len(Current.wr)
  /\ fpc \in {"dummy", "startread", "waitread", "read"} => Written /\ Len(buf) < Current.n
  /\ fpc = "disable" => Written /\ Len(buf) = Current.n

\* The SPI master is selected in a transfer and runs only where the driver waits for it.
Master ==
  /\ spi_ss_reg = ~Selected
  /\ spi_ready_reg <=> spi_ctrl_reg = "IDLE"
  /\ spi_csk_reg <=> spi_ctrl_reg = "NEG_FLANK"
  /\ spi_ctrl_reg # "IDLE" => fpc \in {"write", "waitread"} /\ Started >= 1

\* What is on the line: the device has whole bytes and bits of what was started.
Line ==
  Selected =>
    /\ CASE spi_ctrl_reg = "IDLE" -> Len(received) = Started /\ shift = <<>>
         [] spi_ctrl_reg = "POS_FLANK" ->
              Len(received) = Started - 1 /\ Len(shift) = spi_bit_ctr_reg
         [] OTHER ->
              IF spi_bit_ctr_reg = 7 THEN Len(received) = Started /\ shift = <<>>
              ELSE Len(received) = Started - 1 /\ Len(shift) = spi_bit_ctr_reg + 1
    /\ \A i \in 1 .. Len(received) : received[i] = Wire(i)
    /\ \A i \in 1 .. Len(shift) : shift[i] = Bits(Wire(Started))[i]
    /\ spi_ctrl_reg \in {"POS_FLANK", "NEG_FLANK"} =>
         \A i \in 1 .. 8 - spi_bit_ctr_reg :
           spi_tx_data_reg[i] = Bits(Wire(Started))[i + spi_bit_ctr_reg]
    /\ spi_ctrl_reg = "NEXT" =>
         \A i \in 1 .. 7 - spi_bit_ctr_reg :
           spi_tx_data_reg[i] = Bits(Wire(Started))[i + spi_bit_ctr_reg + 1]
    /\ fpc = "start" => spi_tx_data_reg = Bits(Wire(Started + 1))
    /\ fpc = "startread" => spi_tx_data_reg = Bits(0)

\* What a read gets, when the device has nothing to do but answer.
Reads ==
  Selected /\ Current.n > 0 /\ ~Current.poll =>
    /\ \A i \in 1 .. Len(buf) : buf[i] = Answered(Len(Current.wr) + i - 1)
    /\ spi_ctrl_reg # "NEG_FLANK" /\ received # <<>> =>
         miso = Bits(OutByte(received))[Len(shift) + 1]
    /\ Started >= 2 =>
         /\ spi_ctrl_reg = "NEG_FLANK" => miso = Bits(Answered(Started - 1))[spi_bit_ctr_reg + 1]
         /\ spi_ctrl_reg = "NEXT" =>
              spi_miso_sample_reg = Bits(Answered(Started - 1))[spi_bit_ctr_reg + 1]
         /\ spi_ctrl_reg # "IDLE" =>
              \A i \in 1 .. spi_bit_ctr_reg :
                spi_rx_data_reg[8 - spi_bit_ctr_reg + i] = Bits(Answered(Started - 1))[i]
         /\ spi_ctrl_reg = "IDLE" => spi_rx_data_reg = Bits(Answered(Started - 1))

\* The busy bit is the last bit of the answer: once it is 0 the device has finished.
Polls ==
  Selected /\ Current.poll /\ Started = 2 /\ work # <<>> =>
    /\ spi_ctrl_reg = "NEXT" /\ spi_bit_ctr_reg = 6 => miso = 1
    /\ spi_ctrl_reg \in {"POS_FLANK", "NEG_FLANK"} /\ spi_bit_ctr_reg = 7 => miso = 1
    /\ spi_ctrl_reg = "NEXT" /\ spi_bit_ctr_reg = 7 => spi_miso_sample_reg = 1
    /\ spi_ctrl_reg = "IDLE" => spi_rx_data_reg[8] = 1
    /\ buf # <<>> => buf[1] % 2 = 1

Changes(c) == c.name \in {"sector_erase", "block_32_erase", "block_64_erase", "write_data"}

AtRest(n) == work = <<>> /\ ~wel /\ applied = n

\* What of the call has been done.
Progress ==
  /\ fpc = "call" => AtRest(0)
  /\ fpc # "call" /\ ~Changes(call) => AtRest(0)
  /\ fpc # "call" /\ Changes(call) =>
       /\ nth % 3 = 0 => AtRest(nth \div 3)
       /\ nth % 3 = 1 => work = <<>> /\ wel /\ applied = nth \div 3
       /\ nth % 3 = 2 => \/ work = Transfers(call)[nth].wr /\ wel /\ applied = nth \div 3
                         \/ AtRest(nth \div 3 + 1)

Power ==
  /\ Busy /\ asleep => call.name = "release_powerdown"
  /\ fpc = "return" => asleep = (call.name = "powerdown")
  /\ WokenFirst(todo, IF fpc = "call" THEN asleep ELSE call.name = "powerdown")

Replies ==
  fpc # "call" =>
    results = IF Changes(call) \/ nth = 0 THEN <<>>
              ELSE IF nth < Len(Transfers(call)) THEN <<0>>
              ELSE CallReply(call, mem)

\* Calls are of the programs.
OfPrograms == /\ \A i \in DOMAIN todo : todo[i] \in Calls
         /\ call \in Calls \cup {NoCall}

FlashInv ==
  FlashTypes /\ Place /\ Master /\ Line /\ Reads /\ Polls /\ Progress /\ Power /\ Replies /\ OfPrograms

-----------------------------------------------------------------------------
(* Bits, and the digits of an address *)

\* A byte as bits, and back.
LEMMA BitsAreVector == \A b \in Byte : Bits(b) \in Vector
BY DEF Bits, Weight, Byte, Vector

\* Eight bits are a byte, odd if the last of them is 1.
LEMMA VectorIsByte ==
  ASSUME NEW v \in Vector
  PROVE  Value(v) \in Byte /\ Value(v) % 2 = v[8] /\ v[8] \in {0, 1}
<1>1. \A i \in 1 .. 8 : v[i] = 0 \/ v[i] = 1
  BY DEF Vector
<1>2. /\ v[1] \in 0 .. 1 /\ v[2] \in 0 .. 1 /\ v[3] \in 0 .. 1 /\ v[4] \in 0 .. 1
      /\ v[5] \in 0 .. 1 /\ v[6] \in 0 .. 1 /\ v[7] \in 0 .. 1 /\ v[8] \in 0 .. 1
  BY <1>1
<1> QED
  BY <1>2 DEF Value, Byte

\* The bits of a byte make the byte.
LEMMA ValueOfBits ==
  ASSUME NEW b \in Byte
  PROVE  Value(Bits(b)) = b
<1>1. /\ Bits(b)[1] = (b \div 128) % 2 /\ Bits(b)[2] = (b \div 64) % 2
      /\ Bits(b)[3] = (b \div 32) % 2 /\ Bits(b)[4] = (b \div 16) % 2
      /\ Bits(b)[5] = (b \div 8) % 2 /\ Bits(b)[6] = (b \div 4) % 2
      /\ Bits(b)[7] = (b \div 2) % 2 /\ Bits(b)[8] = (b \div 1) % 2
  BY DEF Bits, Weight
<1>2. /\ b \div 1 = b
      /\ b = 2 * (b \div 2) + (b % 2)
      /\ (b \div 2) = 2 * (b \div 4) + ((b \div 2) % 2)
      /\ (b \div 4) = 2 * (b \div 8) + ((b \div 4) % 2)
      /\ (b \div 8) = 2 * (b \div 16) + ((b \div 8) % 2)
      /\ (b \div 16) = 2 * (b \div 32) + ((b \div 16) % 2)
      /\ (b \div 32) = 2 * (b \div 64) + ((b \div 32) % 2)
      /\ (b \div 64) = 2 * (b \div 128) + ((b \div 64) % 2)
      /\ (b \div 128) % 2 = b \div 128
  BY DEF Byte
<1> QED
  BY <1>1, <1>2 DEF Value, Byte

\* Quotient and remainder are unique.
LEMMA Division ==
  ASSUME NEW n \in Nat, NEW q \in Nat, NEW r \in Nat, NEW d \in Nat \ {0}, n = q * d + r, r < d
  PROVE  n \div d = q /\ n % d = r
OBVIOUS

\* Quotient and remainder.
LEMMA Divided ==
  ASSUME NEW n \in Nat, NEW d \in Nat \ {0}
  PROVE  /\ n \div d \in Nat /\ n % d \in 0 .. d - 1 /\ n = (n \div d) * d + (n % d)
OBVIOUS

\* The sum of two digits to the base P is less than its square.
LEMMA TwoDigits ==
  ASSUME NEW P \in Nat \ {0}, NEW r \in 0 .. P - 1, NEW s \in 0 .. P - 1
  PROVE  /\ P * P \in Nat \ {0} /\ r * P \in Nat /\ r * P + s \in Nat /\ r * P + s < P * P
         /\ r * P + P <= P * P
<1>1. (r + 1) * P <= P * P
  <2>1. P = (r + 1) + (P - 1 - r) /\ P - 1 - r \in Nat
    OBVIOUS
  <2>2. (P - 1 - r) * P \in Nat
    BY <2>1
  <2>3. P * P = (r + 1) * P + (P - 1 - r) * P
    BY <2>1
  <2> QED
    BY <2>2, <2>3
<1>2. (r + 1) * P = r * P + P
  OBVIOUS
<1>3. r * P \in Nat /\ P * P \in Nat
  OBVIOUS
<1> QED
  BY <1>1, <1>2, <1>3

\* An address is its three digits.
LEMMA Digits ==
  ASSUME NEW P \in Nat \ {0}, NEW a \in Nat, a < P * (P * P)
  PROVE  /\ a \div 1 = a
         /\ \E h, m, l \in 0 .. P - 1 :
              /\ (a \div (P * P)) % P = h /\ (a \div P) % P = m /\ a % P = l
              /\ a % (P * P) = m * P + l /\ a = h * (P * P) + (m * P + l)
<1> DEFINE q == a \div P
           r == a % P
           q2 == q \div P
           r2 == q % P
<1>1. q \in Nat /\ r \in 0 .. P - 1 /\ a = q * P + r
  BY Divided
<1>2. q2 \in Nat /\ r2 \in 0 .. P - 1 /\ q = q2 * P + r2
  BY <1>1, Divided
<1> HIDE DEF q, r, q2, r2
<1>3. a = q2 * (P * P) + (r2 * P + r)
  <2>1. q * P = (q2 * P) * P + r2 * P
    BY <1>1, <1>2
  <2>2. (q2 * P) * P = q2 * (P * P)
    BY <1>2
  <2>3. q2 * (P * P) \in Nat /\ r2 * P \in Nat
    BY <1>2
  <2> QED
    BY <1>1, <2>1, <2>2, <2>3
<1>4. /\ P * P \in Nat \ {0} /\ r2 * P + r \in Nat /\ r2 * P + r < P * P
  BY <1>1, <1>2, TwoDigits
<1>5. a \div (P * P) = q2 /\ a % (P * P) = r2 * P + r
  <2> DEFINE s == P * P
             x == r2 * P + r
  <2>1. s \in Nat \ {0} /\ x \in Nat /\ x < s /\ a = q2 * s + x
    BY <1>3, <1>4
  <2> HIDE DEF s, x
  <2>2. a \div s = q2 /\ a % s = x
    BY <1>2, <2>1, Division
  <2> QED
    BY <2>2 DEF s, x
<1>6. q2 < P
  <2> SUFFICES ASSUME q2 >= P PROVE FALSE
    BY <1>2
  <2> DEFINE s == P * P
             d == q2 - P
  <2>1. d \in Nat /\ q2 = P + d /\ s \in Nat
    BY <1>2, <1>4
  <2>2. q2 * s = P * s + d * s /\ d * s \in Nat /\ P * s \in Nat
    BY <2>1
  <2> QED
    BY <1>3, <1>4, <2>2
<1>7. q2 % P = q2 /\ q2 \in 0 .. P - 1 /\ r2 \in 0 .. P - 1 /\ r \in 0 .. P - 1
  BY <1>1, <1>2, <1>6
<1>8. r = a % P /\ r2 = (a \div P) % P
  BY DEF q, r, r2
<1>9. (a \div (P * P)) % P = q2
  BY <1>5, <1>7
<1>10. a \div 1 = a
  OBVIOUS
<1> SUFFICES \E h, m, l \in 0 .. P - 1 :
               /\ (a \div (P * P)) % P = h /\ (a \div P) % P = m /\ a % P = l
               /\ a % (P * P) = m * P + l /\ a = h * (P * P) + (m * P + l)
  BY <1>10
<1> WITNESS q2 \in 0 .. P - 1, r2 \in 0 .. P - 1, r \in 0 .. P - 1
<1> QED
  BY <1>3, <1>5, <1>8, <1>9

\* What FlashAssumption says of the sizes.
LEMMA SizesAre ==
  /\ PAGE_SIZE \in Nat \ {0} /\ PAGE_SIZE <= 256 /\ ADDR_BYTE_2 = PAGE_SIZE
  /\ ADDR_BYTE_3 = PAGE_SIZE * PAGE_SIZE /\ Block64Size = ADDR_BYTE_3
  /\ ADDR_BYTE_3 \in Nat \ {0}
  /\ FlashSize \in Nat \ {0} /\ FlashSize <= PAGE_SIZE * ADDR_BYTE_3
  /\ SectorSize \in Nat \ {0} /\ Block32Size \in Nat \ {0}
<1>1. /\ PAGE_SIZE \in Nat \ {0} /\ PAGE_SIZE <= 256 /\ Block32Size \in Nat \ {0}
      /\ Block64Size = PAGE_SIZE * PAGE_SIZE
      /\ FlashSize \in 1 .. PAGE_SIZE * Block64Size
  BY FlashAssumption
<1>2. SectorSize \in Nat \ {0}
  <2>1. PICK k \in 1 .. PAGE_SIZE : SectorSize = k * PAGE_SIZE
    BY FlashAssumption
  <2>2. k \in Nat \ {0}
    BY <1>1
  <2> QED
    BY <1>1, <2>1, <2>2
<1>3. PAGE_SIZE * PAGE_SIZE \in Nat \ {0}
  BY <1>1
<1> QED
  BY <1>1, <1>2, <1>3 DEF ADDR_BYTE_2, ADDR_BYTE_3

\* The digits of an address fit into bytes and AddressOf() puts them together.
LEMMA AddressDigits ==
  ASSUME NEW a \in 0 .. FlashSize - 1
  PROVE  /\ Digit(a, 1) \in Byte /\ Digit(a, ADDR_BYTE_2) \in Byte /\ Digit(a, ADDR_BYTE_3) \in Byte
         /\ a = Digit(a, ADDR_BYTE_3) * ADDR_BYTE_3 + Digit(a, ADDR_BYTE_2) * ADDR_BYTE_2
                + Digit(a, 1)
         /\ Digit(a, 1) = a % PAGE_SIZE
         /\ Digit(a, ADDR_BYTE_2) * ADDR_BYTE_2 + Digit(a, 1) = a % Block64Size
<1> DEFINE P == PAGE_SIZE
<1>1. P \in Nat \ {0} /\ P <= 256 /\ a \in Nat /\ a < P * (P * P)
  BY SizesAre
<1> HIDE DEF P
<1>2. PICK h, m, l \in 0 .. P - 1 :
        /\ (a \div (P * P)) % P = h /\ (a \div P) % P = m /\ a % P = l
        /\ a % (P * P) = m * P + l /\ a = h * (P * P) + (m * P + l)
  BY <1>1, Digits
<1>3. a \div 1 = a
  OBVIOUS
<1>4. Digit(a, 1) = l /\ Digit(a, ADDR_BYTE_2) = m /\ Digit(a, ADDR_BYTE_3) = h
  BY <1>2, <1>3, SizesAre DEF Digit, P
<1>5. h * (P * P) \in Nat /\ m * P \in Nat /\ l \in Nat
  BY <1>1
<1>6. a = h * (P * P) + m * P + l
  BY <1>2, <1>5
<1>7. h \in Byte /\ m \in Byte /\ l \in Byte
  BY <1>1 DEF Byte
<1>8. /\ h * ADDR_BYTE_3 = h * (P * P) /\ m * ADDR_BYTE_2 = m * P
      /\ a % Block64Size = a % (P * P) /\ a % PAGE_SIZE = a % P
  BY SizesAre DEF P
<1> QED
  BY <1>2, <1>4, <1>6, <1>7, <1>8

\* The digits alone.
LEMMA DigitsAreBytes ==
  ASSUME NEW a \in 0 .. FlashSize - 1
  PROVE  /\ Digit(a, 1) \in Byte /\ Digit(a, 1) \in Nat
         /\ Digit(a, ADDR_BYTE_2) \in Byte /\ Digit(a, ADDR_BYTE_2) \in Nat
         /\ Digit(a, ADDR_BYTE_3) \in Byte /\ Digit(a, ADDR_BYTE_3) \in Nat
<1>1. Digit(a, 1) \in Byte /\ Digit(a, ADDR_BYTE_2) \in Byte /\ Digit(a, ADDR_BYTE_3) \in Byte
  BY AddressDigits
<1>2. \A b \in Byte : b \in Nat
  BY DEF Byte
<1> QED
  BY <1>1, <1>2

\* An erase command names what it erases by some address in it.
LEMMA SameAligned ==
  ASSUME NEW a \in Nat, NEW b \in Nat, NEW s \in Nat \ {0}, a \div s = b \div s
  PROVE  Aligned(a, s) = Aligned(b, s)
BY DEF Aligned

\* The start of its page is in the same multiple of pages as an address.
LEMMA SectorDigits ==
  ASSUME NEW P \in Nat \ {0}, NEW k \in Nat \ {0}, NEW a \in Nat
  PROVE  a - (a % P) \in Nat /\ (a - (a % P)) \div (k * P) = a \div (k * P)
<1> DEFINE q == a \div P
           r == a % P
           t == q \div k
           u == q % k
           S == k * P
<1>1. q \in Nat /\ r \in 0 .. P - 1 /\ a = q * P + r
  BY Divided
<1>2. t \in Nat /\ u \in 0 .. k - 1 /\ q = t * k + u
  BY <1>1, Divided
<1> HIDE DEF q, r, t, u
<1>3. S \in Nat \ {0} /\ u * P \in Nat /\ t * S \in Nat /\ q * P \in Nat
  BY <1>1, <1>2
<1>4. q * P = t * S + u * P
  <2>1. q * P = (t * k) * P + u * P
    BY <1>2
  <2>2. (t * k) * P = t * S
    BY <1>2
  <2> QED
    BY <2>1, <2>2
<1>5. u * P + P <= S
  <2> DEFINE e == k - 1 - u
  <2>1. e \in Nat /\ k = u + 1 + e
    BY <1>2
  <2> HIDE DEF e
  <2>2. k * P = (u + 1) * P + e * P /\ e * P \in Nat /\ (u + 1) * P = u * P + P
    BY <1>2, <2>1
  <2> QED
    BY <1>3, <2>2
<1> DEFINE x == u * P
           y == t * S
<1>6. x \in Nat /\ y \in Nat /\ x + P <= S /\ a = y + x + r /\ y = t * S /\ S \in Nat \ {0}
  <2> DEFINE z == q * P
  <2>1. z = y + x /\ a = z + r /\ z \in Nat
    BY <1>1, <1>3, <1>4
  <2>2. x \in Nat /\ y \in Nat /\ x + P <= S /\ y = t * S
    BY <1>3, <1>5
  <2>3. S \in Nat \ {0}
    BY <1>3, <1>5
  <2> HIDE DEF x, y, z, S
  <2> QED
    BY <1>1, <2>1, <2>2, <2>3
<1> HIDE DEF x, y, S
<1>7. a = t * S + (x + r) /\ x + r \in Nat /\ x + r < S
      /\ a - r = t * S + x /\ a - r \in Nat /\ x < S
  BY <1>1, <1>6
<1>9. a \div S = t /\ (a - r) \div S = t
  BY <1>2, <1>6, <1>7, Division
<1>10. a - r \in Nat /\ (a - r) \div S = a \div S
  BY <1>7, <1>9
<1> QED
  BY <1>10 DEF r, S

\* flash_sector_erase() leaves out the last digit: it does not change the sector.
LEMMA SectorOfPage ==
  ASSUME NEW a \in Nat
  PROVE  a - (a % PAGE_SIZE) \in Nat /\ (a - (a % PAGE_SIZE)) \div SectorSize = a \div SectorSize
<1>1. PICK k \in 1 .. PAGE_SIZE : SectorSize = k * PAGE_SIZE
  BY FlashAssumption
<1>2. k \in Nat \ {0} /\ PAGE_SIZE \in Nat \ {0}
  BY SizesAre
<1> QED
  BY <1>1, <1>2, SectorDigits

-----------------------------------------------------------------------------
(* What the commands mean *)

\* Contents of the flash, and the opcodes that erase.
Memory == [0 .. FlashSize - 1 -> Byte]
Erases == {SECTOR_ERASE, BLOCK_ERASE_32K, BLOCK_ERASE_64K}

\* The g-th command of call c: the device takes it whole and does what is meant by it.
Means(c, g, cmd) ==
  /\ cmd \in Seq(Byte) /\ Len(cmd) >= 4
  /\ \/ cmd[1] \in Erases /\ Len(cmd) = 4
     \/ cmd[1] = PAGE_PROGRAM /\ Len(cmd) > 4
  /\ \A m \in Memory : Executed(m, cmd) = CallPiece(c, g, m) /\ CallPiece(c, g, m) \in Memory

\* An erase command with an address in the region erases it.
LEMMA EraseMeans ==
  ASSUME NEW c \in FlashCalls, NEW op \in Erases, NEW d3 \in Byte, NEW d2 \in Byte, NEW d1 \in Byte,
         NEW size,
         \/ c.name = "sector_erase" /\ op = SECTOR_ERASE /\ size = SectorSize
         \/ c.name = "block_32_erase" /\ op = BLOCK_ERASE_32K /\ size = Block32Size
         \/ c.name = "block_64_erase" /\ op = BLOCK_ERASE_64K /\ size = Block64Size,
         Aligned(AddressOf(<<op, d3, d2, d1>>), size) = Aligned(c.address, size)
  PROVE  Means(c, 1, <<op, d3, d2, d1>>)
<1> DEFINE cmd == <<op, d3, d2, d1>>
<1>1. cmd \in Seq(Byte) /\ Len(cmd) = 4 /\ cmd[1] = op
  BY DEF Byte, Erases, SECTOR_ERASE, BLOCK_ERASE_32K, BLOCK_ERASE_64K
<1> HIDE DEF cmd
<1>2. ASSUME NEW m \in Memory
      PROVE  Executed(m, cmd) = CallPiece(c, 1, m) /\ CallPiece(c, 1, m) \in Memory
  <2> DEFINE region == Aligned(c.address, size)
  <2>1. Executed(m, cmd) = Erase(m, region)
    BY <1>1 DEF Executed, SECTOR_ERASE, BLOCK_ERASE_32K, BLOCK_ERASE_64K, PAGE_PROGRAM, cmd
  <2>2. CallPiece(c, 1, m) = [a \in DOMAIN m |-> IF a \in region THEN 255 ELSE m[a]]
    BY DEF CallPiece
  <2> HIDE DEF region
  <2>3. CallPiece(c, 1, m) \in Memory
    <3>1. DOMAIN m = 0 .. FlashSize - 1 /\ \A a \in DOMAIN m : m[a] \in Byte
      BY DEF Memory
    <3>2. 255 \in Byte
      BY DEF Byte
    <3> QED
      BY <2>2, <3>1, <3>2 DEF Memory
  <2> QED
    BY <2>1, <2>2, <2>3 DEF Erase
<1>3. cmd[1] \in Erases
  BY <1>1
<1>4. Means(c, 1, cmd)
  BY <1>1, <1>2, <1>3 DEF Means
<1> QED
  BY <1>4 DEF cmd

\* flash_sector_erase() sends the command for its sector.
LEMMA SectorMeans ==
  ASSUME NEW c \in FlashCalls, c.name = "sector_erase"
  PROVE  Means(c, 1, <<SECTOR_ERASE, Digit(c.address, ADDR_BYTE_3), Digit(c.address, ADDR_BYTE_2), 0>>)
<1> DEFINE a == c.address
           h == Digit(a, ADDR_BYTE_3)
           m == Digit(a, ADDR_BYTE_2)
<1>1. a \in 0 .. FlashSize - 1 /\ a \in Nat
  BY SizesAre DEF FlashCalls
<1> HIDE DEF a
<1>2. /\ h \in Byte /\ m \in Byte /\ 0 \in Byte
      /\ a = h * ADDR_BYTE_3 + m * ADDR_BYTE_2 + (a % PAGE_SIZE)
  BY <1>1, AddressDigits DEF Byte
<1> HIDE DEF h, m
<1>3. AddressOf(<<SECTOR_ERASE, h, m, 0>>) = a - (a % PAGE_SIZE)
  <2> DEFINE x == h * ADDR_BYTE_3
             y == m * ADDR_BYTE_2
             z == a % PAGE_SIZE
  <2>1. AddressOf(<<SECTOR_ERASE, h, m, 0>>) = x + y + 0
    BY DEF AddressOf
  <2>2. x \in Nat /\ y \in Nat /\ z \in Nat /\ a = x + y + z
    BY <1>1, <1>2, SizesAre DEF Byte
  <2> HIDE DEF x, y, z
  <2>3. x + y + 0 = a - z
    BY <2>2
  <2> QED
    BY <2>1, <2>3 DEF z
<1>4. Aligned(AddressOf(<<SECTOR_ERASE, h, m, 0>>), SectorSize) = Aligned(a, SectorSize)
  BY <1>1, <1>3, SectorOfPage DEF Aligned
<1>5. Means(c, 1, <<SECTOR_ERASE, h, m, 0>>)
  BY <1>2, <1>4, EraseMeans DEF Erases, a
<1> QED
  BY <1>5 DEF h, m, a

\* flash_block_32_erase() sends the command for its block.
LEMMA Block32Means ==
  ASSUME NEW c \in FlashCalls, c.name = "block_32_erase"
  PROVE  Means(c, 1, <<BLOCK_ERASE_32K, Digit(c.address, ADDR_BYTE_3), Digit(c.address, ADDR_BYTE_2),
                       Digit(c.address, 1)>>)
<1> DEFINE a == c.address
           h == Digit(a, ADDR_BYTE_3)
           m == Digit(a, ADDR_BYTE_2)
           l == Digit(a, 1)
<1>1. a \in 0 .. FlashSize - 1 /\ a \in Nat
  BY SizesAre DEF FlashCalls
<1> HIDE DEF a
<1>2. /\ h \in Byte /\ m \in Byte /\ l \in Byte
      /\ a = h * ADDR_BYTE_3 + m * ADDR_BYTE_2 + l
  BY <1>1, AddressDigits
<1> HIDE DEF h, m, l
<1>3. AddressOf(<<BLOCK_ERASE_32K, h, m, l>>) = a
  BY <1>2 DEF AddressOf
<1>5. Means(c, 1, <<BLOCK_ERASE_32K, h, m, l>>)
  BY <1>2, <1>3, EraseMeans DEF Erases, a
<1> QED
  BY <1>5 DEF h, m, l, a

\* flash_block_64_erase() sends the first digit alone: it names the block.
LEMMA Block64Means ==
  ASSUME NEW c \in FlashCalls, c.name = "block_64_erase"
  PROVE  Means(c, 1, <<BLOCK_ERASE_64K, Digit(c.address, ADDR_BYTE_3), 0, 0>>)
<1> DEFINE a == c.address
           h == Digit(a, ADDR_BYTE_3)
<1>1. a \in 0 .. FlashSize - 1 /\ a \in Nat
  BY SizesAre DEF FlashCalls
<1> HIDE DEF a
<1>2. /\ h \in Byte /\ 0 \in Byte /\ h * ADDR_BYTE_3 \in Nat
      /\ a = h * ADDR_BYTE_3 + (a % ADDR_BYTE_3) /\ a % ADDR_BYTE_3 \in 0 .. ADDR_BYTE_3 - 1
  <2> DEFINE x == h * ADDR_BYTE_3
             y == Digit(a, ADDR_BYTE_2) * ADDR_BYTE_2
             z == Digit(a, 1)
  <2>1. a = x + y + z /\ y + z = a % ADDR_BYTE_3 /\ h \in Byte
    BY <1>1, AddressDigits, SizesAre
  <2>2. x \in Nat /\ y \in Nat /\ z \in Nat /\ 0 \in Byte
    <3>1. h \in Nat /\ Digit(a, ADDR_BYTE_2) \in Nat /\ z \in Nat
      BY <1>1, DigitsAreBytes
    <3>0. 0 \in Byte
      BY DEF Byte
    <3>2. ADDR_BYTE_3 \in Nat /\ ADDR_BYTE_2 \in Nat
      BY SizesAre
    <3> HIDE DEF h, z
    <3> QED
      BY <3>0, <3>1, <3>2
  <2>3. a % ADDR_BYTE_3 \in 0 .. ADDR_BYTE_3 - 1
    BY <1>1, SizesAre
  <2> HIDE DEF y, z, h
  <2>4. a = x + (y + z)
    <3> HIDE DEF x
    <3> QED
      BY <2>1, <2>2
  <2> QED
    BY <2>1, <2>2, <2>3, <2>4
<1> HIDE DEF h
<1>3. AddressOf(<<BLOCK_ERASE_64K, h, 0, 0>>) = h * ADDR_BYTE_3
  BY <1>2, SizesAre DEF AddressOf
<1>4. (h * ADDR_BYTE_3) \div ADDR_BYTE_3 = h /\ a \div ADDR_BYTE_3 = h
  <2> DEFINE d == ADDR_BYTE_3
             r == a % ADDR_BYTE_3
  <2>1. d \in Nat \ {0} /\ r \in Nat /\ r < d /\ a = h * d + r /\ h \in Nat
    BY <1>2, SizesAre DEF Byte
  <2>2. h * d \in Nat /\ h * d = h * d + 0 /\ 0 < d
    BY <2>1
  <2> HIDE DEF d, r
  <2>3. (h * d) \div d = h /\ a \div d = h
    BY <1>1, <2>1, <2>2, Division
  <2> QED
    BY <2>3 DEF d
<1>5. Aligned(AddressOf(<<BLOCK_ERASE_64K, h, 0, 0>>), Block64Size) = Aligned(a, Block64Size)
  BY <1>1, <1>3, <1>4, SizesAre DEF Aligned
<1>6. Means(c, 1, <<BLOCK_ERASE_64K, h, 0, 0>>)
  BY <1>2, <1>5, EraseMeans DEF Erases, a
<1> QED
  BY <1>6 DEF h, a

\* A product grows with its factor.
LEMMA Monotone ==
  ASSUME NEW i \in Nat, NEW j \in Nat, NEW P \in Nat, i <= j
  PROVE  i * P \in Nat /\ j * P \in Nat /\ i * P <= j * P
<1> DEFINE d == j - i
<1>1. d \in Nat /\ j = i + d
  OBVIOUS
<1> HIDE DEF d
<1>2. j * P = i * P + d * P /\ d * P \in Nat /\ i * P \in Nat
  BY <1>1
<1> QED
  BY <1>2

\* The pages of a write: all but the last are full and the last is not empty.
LEMMA Pages ==
  ASSUME NEW size \in Nat \ {0}, NEW g \in 1 .. PageCount(size)
  PROVE  /\ PageCount(size) \in Nat
         /\ (g - 1) * PAGE_SIZE \in Nat /\ (g - 1) * PAGE_SIZE < size
         /\ g < PageCount(size) => PAGE_SIZE < size - (g - 1) * PAGE_SIZE
         /\ g = PageCount(size) => size - (g - 1) * PAGE_SIZE <= PAGE_SIZE
<1> DEFINE P == PAGE_SIZE
           n == PageCount(size)
           r == (size + P - 1) % P
<1>1. P \in Nat \ {0}
  BY SizesAre
<1>2. n \in Nat /\ r \in 0 .. P - 1 /\ size + P - 1 = n * P + r
  BY <1>1, Divided DEF PageCount
<1> HIDE DEF P, n, r
<1>3. g \in Nat /\ g >= 1 /\ g <= n
  BY <1>2 DEF n
<1>4. n * P \in Nat /\ (n - 1) * P \in Nat /\ n * P = (n - 1) * P + P
  BY <1>1, <1>2, <1>3
<1>5. (n - 1) * P < size /\ size <= n * P
  BY <1>1, <1>2, <1>4
<1>6. (g - 1) * P \in Nat /\ (g - 1) * P <= (n - 1) * P
  BY <1>1, <1>2, <1>3, Monotone
<1>7. ASSUME g < n PROVE P < size - (g - 1) * P
  <2>1. g * P <= (n - 1) * P /\ g * P \in Nat
    BY <1>1, <1>2, <1>3, <1>7, Monotone
  <2>2. g * P = (g - 1) * P + P
    BY <1>1, <1>3
  <2> QED
    BY <1>1, <1>4, <1>5, <1>6, <2>1, <2>2
<1>8. g = n => size - (g - 1) * P <= P
  BY <1>1, <1>4, <1>5
<1>9. (g - 1) * P < size
  BY <1>4, <1>5, <1>6
<1> QED
  BY <1>2, <1>6, <1>7, <1>8, <1>9 DEF P, n

\* The data of a page: full but for the last, and the bytes of the write at its place.
LEMMA PageBytesAre ==
  ASSUME NEW size \in Nat \ {0}, NEW g \in 1 .. PageCount(size)
  PROVE  /\ PageBytes(size, g) \in Seq(Byte) /\ Len(PageBytes(size, g)) \in 1 .. PAGE_SIZE
         /\ g < PageCount(size) => Len(PageBytes(size, g)) = PAGE_SIZE
         /\ g = PageCount(size) => Len(PageBytes(size, g)) = size - (g - 1) * PAGE_SIZE
         /\ \A i \in 1 .. Len(PageBytes(size, g)) :
              PageBytes(size, g)[i] = Data((g - 1) * PAGE_SIZE + i)
<1> DEFINE x == (g - 1) * PAGE_SIZE
           len == IF size - x >= PAGE_SIZE THEN PAGE_SIZE ELSE size - x
<1>1. /\ x \in Nat /\ x < size /\ PAGE_SIZE \in Nat \ {0}
      /\ g < PageCount(size) => PAGE_SIZE < size - x
      /\ g = PageCount(size) => size - x <= PAGE_SIZE
  BY Pages, SizesAre
<1>2. PageBytes(size, g) = [i \in 1 .. len |-> Data(x + i)]
  BY DEF PageBytes
<1> HIDE DEF x
<1>3. len \in 1 .. PAGE_SIZE
      /\ (g < PageCount(size) => len = PAGE_SIZE) /\ (g = PageCount(size) => len = size - x)
  BY <1>1
<1> HIDE DEF len
<1>4. \A i \in 1 .. len : Data(x + i) \in Byte
  <2> SUFFICES ASSUME NEW i \in 1 .. len PROVE Data(x + i) \in Byte
    OBVIOUS
  <2> DEFINE k == (x + i) * 37
  <2>1. k \in Nat
    BY <1>1, <1>3
  <2> HIDE DEF k
  <2>2. k % 256 \in Byte
    BY <2>1 DEF Byte
  <2> QED
    BY <2>2 DEF Data, k
<1>5. PageBytes(size, g) \in Seq(Byte) /\ Len(PageBytes(size, g)) = len
  BY <1>2, <1>3, <1>4
<1> QED
  BY <1>2, <1>3, <1>5 DEF x

\* The command flash_write_data() sends for the g-th page.
PageCommand(c, g) ==
  LET address == c.address + (g - 1) * PAGE_SIZE
  IN  <<PAGE_PROGRAM, Digit(address, ADDR_BYTE_3), Digit(address, ADDR_BYTE_2), 0>>
        \o PageBytes(c.size, g)

\* A page of a write starts on a page boundary and inside of the flash.
LEMMA PageAddress ==
  ASSUME NEW c \in FlashCalls, c.name = "write_data", ~WriteRefused(c.address, c.size),
         NEW g \in 1 .. PageCount(c.size)
  PROVE  /\ c.size \in Nat \ {0} /\ c.address \in Nat /\ c.address + c.size <= FlashSize
         /\ (g - 1) * PAGE_SIZE \in Nat
         /\ c.address + (g - 1) * PAGE_SIZE \in 0 .. FlashSize - 1
         /\ (c.address + (g - 1) * PAGE_SIZE) % PAGE_SIZE = 0
         /\ Aligned(c.address + (g - 1) * PAGE_SIZE, PAGE_SIZE)
              = c.address + (g - 1) * PAGE_SIZE .. c.address + (g - 1) * PAGE_SIZE + PAGE_SIZE - 1
<1> DEFINE P == PAGE_SIZE
           a == c.address
           x == (g - 1) * P
           q == a \div P
<1>1. /\ c.size \in Nat \ {0} /\ a \in Nat /\ a + c.size <= FlashSize /\ a % P = 0
      /\ P \in Nat \ {0} /\ FlashSize \in Nat
  BY SizesAre DEF FlashCalls, WriteRefused
<1>2. x \in Nat /\ x < c.size /\ PageCount(c.size) \in Nat
  BY <1>1, Pages
<1>3. a + x \in 0 .. FlashSize - 1
  <2> HIDE DEF a, x
  <2> QED
    BY <1>1, <1>2
<1>4. q \in Nat /\ a = q * P
  <2> HIDE DEF a, P
  <2>1. q \in Nat /\ a = q * P + (a % P)
    BY <1>1, Divided
  <2> HIDE DEF q
  <2>2. q * P \in Nat /\ a % P = 0
    BY <1>1, <2>1
  <2> QED
    BY <2>1, <2>2
<1> DEFINE k == q + (g - 1)
<1>5. k \in Nat /\ a + x = k * P
  <2>1. g - 1 \in Nat
    BY <1>2
  <2> HIDE DEF P, q, a
  <2>2. k \in Nat /\ k * P = q * P + (g - 1) * P
    BY <1>1, <1>4, <2>1
  <2> QED
    BY <1>4, <2>2
<1> DEFINE y == a + x
<1> HIDE DEF k, x, a, P, q
<1>6. y \in Nat /\ y = k * P + 0 /\ 0 < P /\ 0 \in Nat /\ P \in Nat \ {0} /\ k \in Nat
  BY <1>1, <1>2, <1>5
<1> HIDE DEF y
<1>7. y \div P = k /\ y % P = 0
  BY <1>6, Division
<1>8. Aligned(y, P) = y .. y + P - 1
  BY <1>1, <1>5, <1>6, <1>7 DEF Aligned
<1> QED
  BY <1>1, <1>2, <1>3, <1>7, <1>8 DEF y, x, a, P

\* The program command of a page does not wrap, and programs what the caller means.
LEMMA PageMeans ==
  ASSUME NEW c \in FlashCalls, c.name = "write_data", ~WriteRefused(c.address, c.size),
         NEW g \in 1 .. PageCount(c.size)
  PROVE  Means(c, g, PageCommand(c, g))
<1> DEFINE P == PAGE_SIZE
           A == c.address + (g - 1) * PAGE_SIZE
           h == <<PAGE_PROGRAM, Digit(A, ADDR_BYTE_3), Digit(A, ADDR_BYTE_2), 0>>
           d == PageBytes(c.size, g)
           x == (g - 1) * PAGE_SIZE
           cmd == h \o d
<1>1. /\ A \in 0 .. FlashSize - 1 /\ A % P = 0 /\ Aligned(A, P) = A .. A + P - 1
      /\ A = c.address + x /\ x \in Nat /\ c.size \in Nat \ {0} /\ c.address \in Nat
      /\ FlashSize \in Nat /\ P \in Nat \ {0} /\ A \in Nat /\ c.address + c.size <= FlashSize
  BY PageAddress, SizesAre
<1>2. /\ d \in Seq(Byte) /\ Len(d) \in 1 .. P
      /\ g < PageCount(c.size) => Len(d) = P
      /\ g = PageCount(c.size) => Len(d) = c.size - x
      /\ \A i \in 1 .. Len(d) : d[i] = Data(x + i)
      /\ PageCount(c.size) \in Nat
  BY <1>1, PageBytesAre, Pages
<1>3. /\ Digit(A, ADDR_BYTE_3) \in Byte /\ Digit(A, ADDR_BYTE_2) \in Byte
      /\ A = Digit(A, ADDR_BYTE_3) * ADDR_BYTE_3 + Digit(A, ADDR_BYTE_2) * ADDR_BYTE_2 + 0
  <2>1. A % PAGE_SIZE = 0
    BY <1>1
  <2> HIDE DEF A
  <2> QED
    BY <1>1, <2>1, AddressDigits
<1> HIDE DEF P, A, d, x
<1>10. A \in Nat /\ P \in Nat \ {0} /\ Len(d) \in Nat /\ 1 <= Len(d) /\ Len(d) <= P
  BY <1>1, <1>2
<1>11. /\ A = c.address + x /\ x \in Nat /\ c.size \in Nat /\ c.address \in Nat
       /\ FlashSize \in Nat
  BY <1>1
<1>4. h \in Seq(Byte) /\ Len(h) = 4 /\ h[1] = PAGE_PROGRAM /\ h[4] = 0
      /\ h[2] = Digit(A, ADDR_BYTE_3) /\ h[3] = Digit(A, ADDR_BYTE_2)
  BY <1>3 DEF Byte, PAGE_PROGRAM
<1> HIDE DEF h
<1>5. /\ cmd \in Seq(Byte) /\ Len(cmd) = 4 + Len(d) /\ Len(d) \in Nat
      /\ \A i \in 1 .. 4 + Len(d) : cmd[i] = IF i <= 4 THEN h[i] ELSE d[i - 4]
  <2>1. d \in Seq(Byte) /\ h \in Seq(Byte) /\ Len(h) = 4 /\ Len(d) \in Nat
    BY <1>2, <1>4, <1>10
  <2>2. /\ h \o d \in Seq(Byte) /\ Len(h \o d) = Len(h) + Len(d)
        /\ \A i \in 1 .. Len(h) + Len(d) :
             (h \o d)[i] = IF i <= Len(h) THEN h[i] ELSE d[i - Len(h)]
    BY <2>1, ConcatProperties
  <2> QED
    BY <2>1, <2>2
<1>6. AddressOf(cmd) = A /\ cmd[1] = PAGE_PROGRAM
  <2>1. cmd[1] = h[1] /\ cmd[2] = h[2] /\ cmd[3] = h[3] /\ cmd[4] = h[4]
    BY <1>5
  <2> HIDE DEF cmd
  <2> QED
    BY <1>3, <1>4, <2>1 DEF AddressOf
<1> HIDE DEF cmd
<1> DEFINE s == SubSeq(cmd, 5, Len(cmd))
<1>7. Len(s) = Len(d) /\ \A i \in 1 .. Len(d) : s[i] = d[i]
  <2>1. s \in Seq(Byte) /\ Len(s) = Len(d) /\ \A i \in 1 .. Len(d) : s[i] = cmd[5 + i - 1]
    <3>1. 5 \in 1 .. Len(cmd) + 1 /\ Len(cmd) \in 5 - 1 .. Len(cmd)
      BY <1>5
    <3> QED
      BY <1>5, <3>1, SubSeqProperties
  <2>2. ASSUME NEW i \in 1 .. Len(d) PROVE s[i] = d[i]
    <3> HIDE DEF s
    <3>1. i + 4 \in 1 .. 4 + Len(d) /\ ~(i + 4 <= 4) /\ (i + 4) - 4 = i /\ 5 + i - 1 = i + 4
      BY <1>10
    <3>2. s[i] = cmd[i + 4]
      BY <2>1, <3>1
    <3>3. cmd[i + 4] = d[(i + 4) - 4]
      BY <1>4, <1>5, <3>1
    <3> QED
      BY <3>1, <3>2, <3>3
  <2> QED
    BY <2>1, <2>2
<1> HIDE DEF s
<1>8. ASSUME NEW m \in Memory
      PROVE  Executed(m, cmd) = CallPiece(c, g, m) /\ CallPiece(c, g, m) \in Memory
  <2>1. /\ DOMAIN m = 0 .. FlashSize - 1 /\ m = [a \in DOMAIN m |-> m[a]]
        /\ \A a \in DOMAIN m : m[a] \in Byte
    BY DEF Memory
  <2>2. Executed(m, cmd)
          = [a \in DOMAIN m |->
               IF a \in A .. A + P - 1 /\ 1 + ((a + P - A) % P) <= Len(d)
               THEN BitAnd(m[a], s[1 + ((a + P - A) % P)]) ELSE m[a]]
    <3>1. Executed(m, cmd) = Program(m, A, s)
      BY <1>6 DEF Executed, SECTOR_ERASE, BLOCK_ERASE_32K, BLOCK_ERASE_64K, PAGE_PROGRAM, s
    <3>2. Aligned(A, PAGE_SIZE) = A .. A + P - 1 /\ PAGE_SIZE = P
      BY <1>1 DEF P
    <3> QED
      BY <1>7, <3>1, <3>2 DEF Program
  <2> DEFINE last == IF g = PageCount(c.size) THEN c.address + c.size - 1 ELSE A + P - 1
  <2>3. CallPiece(c, g, m)
          = [a \in DOMAIN m |->
               IF a \in A .. last THEN BitAnd(m[a], Data(a - c.address + 1)) ELSE m[a]]
    BY DEF CallPiece, A, P
  <2>4. last \in Nat /\ last = A + Len(d) - 1
    <3>1. CASE g = PageCount(c.size)
      <4>1. Len(d) = c.size - x /\ last = c.address + c.size - 1
        BY <1>2, <3>1
      <4> DEFINE ca == c.address
                 cs == c.size
      <4>2. /\ Len(d) = cs - x /\ last = ca + cs - 1 /\ A = ca + x
            /\ ca \in Nat /\ cs \in Nat /\ x \in Nat
        BY <1>11, <4>1
      <4> HIDE DEF last, ca, cs
      <4> QED
        BY <1>10, <4>2
    <3>2. CASE g # PageCount(c.size)
      <4>1. Len(d) = P
        BY <1>2, <3>2
      <4> QED
        BY <1>10, <3>2, <4>1
    <3> QED
      BY <3>1, <3>2
  <2> HIDE DEF last
  <2>5. ASSUME NEW a \in DOMAIN m
        PROVE  /\ a \in A .. last <=> a \in A .. A + P - 1 /\ 1 + ((a + P - A) % P) <= Len(d)
               /\ a \in A .. last => Data(a - c.address + 1) = s[1 + ((a + P - A) % P)]
               /\ a \in A .. last => Data(a - c.address + 1) \in Byte
    <3>0. a \in Nat
      BY <1>11, <2>1
    <3>1. CASE a \notin A .. A + P - 1
      BY <1>10, <2>1, <2>4, <3>1, <3>0
    <3>2. CASE a \in A .. A + P - 1
      <4> DEFINE i == a - A
      <4>1. a \in Nat /\ i \in Nat /\ i < P /\ a + P - A = i + P
        BY <1>10, <3>0, <3>2
      <4>2. (a + P - A) % P = i
        <5>1. (a + P - A) = 1 * P + i /\ (a + P - A) \in Nat
          BY <1>10, <4>1
        <5> DEFINE n == a + P - A
        <5>2. n = 1 * P + i /\ n \in Nat /\ i \in Nat /\ i < P /\ P \in Nat \ {0} /\ 1 \in Nat
          BY <1>10, <4>1, <5>1
        <5> HIDE DEF i, n
        <5>3. n % P = i
          BY <5>2, Division
        <5> QED
          BY <5>3 DEF n
      <4>3. a \in A .. last <=> 1 + i <= Len(d)
        BY <1>10, <2>4, <4>1
      <4>4. ASSUME 1 + i <= Len(d)
            PROVE  Data(a - c.address + 1) = s[1 + i] /\ Data(a - c.address + 1) \in Byte
        <5>1. 1 + i \in 1 .. Len(d)
          BY <1>2, <4>1, <4>4
        <5>2. s[1 + i] = Data(x + (1 + i)) /\ d[1 + i] \in Byte /\ d[1 + i] = Data(x + (1 + i))
          BY <1>2, <1>7, <5>1
        <5>3. a - c.address + 1 = x + (1 + i)
          <6>1. A = c.address + x /\ c.address \in Nat /\ x \in Nat
            BY <1>11
          <6> QED
            BY <4>1, <6>1
        <5> QED
          BY <5>2, <5>3
      <4> QED
        BY <3>2, <4>2, <4>3, <4>4
    <3> QED
      BY <3>1, <3>2
  <2>6. \A b, e \in Byte : BitAnd(b, e) \in Byte
    <3> TAKE b, e \in Byte
    <3>1. Bits(b) \in Vector /\ Bits(e) \in Vector
      BY BitsAreVector
    <3> DEFINE v == [i \in 1 .. 8 |-> Bits(b)[i] * Bits(e)[i]]
    <3>2. \A i \in 1 .. 8 : Bits(b)[i] \in {0, 1} /\ Bits(e)[i] \in {0, 1}
      BY <3>1 DEF Vector
    <3>3. v \in Vector
      BY <3>2 DEF Vector
    <3> QED
      BY <3>3, VectorIsByte DEF BitAnd
  <2>7. CallPiece(c, g, m) \in Memory
    BY <2>1, <2>3, <2>5, <2>6 DEF Memory
  <2>8. Executed(m, cmd) = CallPiece(c, g, m)
    BY <2>2, <2>3, <2>5
  <2> QED
    BY <2>7, <2>8
<1>9. Means(c, g, cmd)
  BY <1>2, <1>5, <1>6, <1>8 DEF Means
<1> QED
  BY <1>9 DEF cmd, h, d, A, PageCommand

-----------------------------------------------------------------------------
(* The transfers of a call *)

\* Transfers of flash.c.
TransferTypes == [wr : Seq(Byte), n : Nat, poll : BOOLEAN]

\* Each command of a call that changes the contents does one piece of it.
LEMMA ChangingCommands ==
  ASSUME NEW c \in FlashCalls, Changes(c)
  PROVE  \E cmds \in Seq(Seq(Byte)) :
           /\ Transfers(c) = Changing(cmds) /\ Len(cmds) = CallPieces(c)
           /\ \A g \in 1 .. Len(cmds) : Means(c, g, cmds[g])
<1>1. ASSUME NEW cmd, Means(c, 1, cmd), Transfers(c) = Changing(<<cmd>>), CallPieces(c) = 1
      PROVE  \E cmds \in Seq(Seq(Byte)) :
               /\ Transfers(c) = Changing(cmds) /\ Len(cmds) = CallPieces(c)
               /\ \A g \in 1 .. Len(cmds) : Means(c, g, cmds[g])
  <2>1. cmd \in Seq(Byte)
    BY <1>1 DEF Means
  <2> DEFINE cmds == <<cmd>>
  <2>2. cmds \in Seq(Seq(Byte)) /\ Len(cmds) = 1 /\ cmds[1] = cmd
    BY <2>1
  <2> HIDE DEF cmds
  <2>3. \A g \in 1 .. Len(cmds) : Means(c, g, cmds[g])
    <3> SUFFICES ASSUME NEW g \in 1 .. 1 PROVE Means(c, g, cmds[g])
      BY <2>2
    <3>1. g = 1
      OBVIOUS
    <3> QED
      BY <1>1, <2>2, <3>1
  <2>4. Transfers(c) = Changing(cmds) /\ Len(cmds) = CallPieces(c)
    BY <1>1, <2>2 DEF cmds
  <2> QED
    BY <2>2, <2>3, <2>4
<1>2. CASE c.name = "sector_erase"
  <2>1. /\ Transfers(c) = Changing(<<<<SECTOR_ERASE, Digit(c.address, ADDR_BYTE_3),
                                       Digit(c.address, ADDR_BYTE_2), 0>>>>)
        /\ CallPieces(c) = 1
    BY <1>2 DEF Transfers, flash_sector_erase, CallPieces
  <2> QED
    BY <1>1, <1>2, <2>1, SectorMeans
<1>3. CASE c.name = "block_32_erase"
  <2>1. /\ Transfers(c) = Changing(<<<<BLOCK_ERASE_32K, Digit(c.address, ADDR_BYTE_3),
                                       Digit(c.address, ADDR_BYTE_2), Digit(c.address, 1)>>>>)
        /\ CallPieces(c) = 1
    BY <1>3 DEF Transfers, flash_block_32_erase, CallPieces
  <2> QED
    BY <1>1, <1>3, <2>1, Block32Means
<1>4. CASE c.name = "block_64_erase"
  <2>1. /\ Transfers(c) = Changing(<<<<BLOCK_ERASE_64K, Digit(c.address, ADDR_BYTE_3), 0, 0>>>>)
        /\ CallPieces(c) = 1
    BY <1>4 DEF Transfers, flash_block_64_erase, CallPieces
  <2> QED
    BY <1>1, <1>4, <2>1, Block64Means
<1>5. CASE c.name = "write_data" /\ WriteRefused(c.address, c.size)
  <2>1. Transfers(c) = <<>> /\ CallPieces(c) = 0
    BY <1>5 DEF Transfers, flash_write_data, CallPieces
  <2> DEFINE cmds == <<>>
             s == Changing(cmds)
  <2>2. cmds \in Seq(Seq(Byte)) /\ Len(cmds) = 0
    OBVIOUS
  <2> HIDE DEF cmds
  <2>3. DOMAIN s = 1 .. 0 /\ s = [i \in DOMAIN s |-> s[i]]
    BY <2>2 DEF Changing
  <2>4. s \in Seq(Nat) /\ Len(s) = 0
    <3>1. s \in [1 .. 0 -> Nat]
      BY <2>3
    <3> HIDE DEF s
    <3> QED
      BY <3>1
  <2>5. s = <<>>
    <3> HIDE DEF s
    <3> QED
      BY <2>4, EmptySeq
  <2>6. Transfers(c) = Changing(cmds) /\ Len(cmds) = CallPieces(c)
    BY <2>1, <2>2, <2>5
  <2>7. \A g \in 1 .. Len(cmds) : Means(c, g, cmds[g])
    BY <2>2
  <2> QED
    BY <2>2, <2>6, <2>7
<1>6. CASE c.name = "write_data" /\ ~WriteRefused(c.address, c.size)
  <2> DEFINE n == PageCount(c.size)
             cmds == [p \in 1 .. n |-> PageCommand(c, p)]
  <2>1. Transfers(c) = Changing(cmds) /\ CallPieces(c) = n
    BY <1>6 DEF Transfers, flash_write_data, CallPieces, PageCommand
  <2>2. \A p \in 1 .. n : Means(c, p, PageCommand(c, p)) /\ PageCommand(c, p) \in Seq(Byte)
    <3> SUFFICES ASSUME NEW p \in 1 .. n
                 PROVE  Means(c, p, PageCommand(c, p)) /\ PageCommand(c, p) \in Seq(Byte)
      OBVIOUS
    <3>1. Means(c, p, PageCommand(c, p))
      BY <1>6, PageMeans
    <3> QED
      BY <3>1 DEF Means
  <2>3. n \in Nat
    <3>1. c.size + PAGE_SIZE - 1 \in Nat /\ PAGE_SIZE \in Nat \ {0}
      BY SizesAre DEF FlashCalls
    <3> DEFINE k == c.size + PAGE_SIZE - 1
    <3> HIDE DEF k
    <3> QED
      BY <3>1, Divided DEF PageCount, k
  <2> HIDE DEF n
  <2>4. cmds \in Seq(Seq(Byte)) /\ Len(cmds) = n /\ \A p \in 1 .. n : cmds[p] = PageCommand(c, p)
    BY <2>2, <2>3
  <2> HIDE DEF cmds
  <2> QED
    BY <2>1, <2>2, <2>4
<1> QED
  BY <1>2, <1>3, <1>4, <1>5, <1>6 DEF Changes

\* The place in the groups of three transfers that Changing() makes.
LEMMA Thirds ==
  ASSUME NEW n \in Nat
  PROVE  /\ n % 3 \in {0, 1, 2} /\ n \div 3 \in Nat
         /\ n % 3 = 0 => (n + 1) % 3 = 1 /\ (n + 1) \div 3 = n \div 3
         /\ n % 3 = 1 => /\ (n + 1) % 3 = 2 /\ (n + 1) \div 3 = n \div 3
                         /\ ((n + 1) + 1) \div 3 = n \div 3 + 1
         /\ n % 3 = 2 => (n + 1) % 3 = 0 /\ (n + 1) \div 3 = n \div 3 + 1
OBVIOUS

\* Write enable, command, poll: the transfers of a call that changes the contents.
LEMMA ChangingShape ==
  ASSUME NEW c \in FlashCalls, Changes(c)
  PROVE  /\ Transfers(c) \in Seq(TransferTypes)
         /\ CallPieces(c) \in Nat /\ Len(Transfers(c)) = 3 * CallPieces(c)
         /\ \A n \in 0 .. Len(Transfers(c)) - 1 :
              /\ n % 3 = 0 => Transfers(c)[n + 1] = flash_write_enable
              /\ n % 3 = 1 => \E cmd : Transfers(c)[n + 1] = Write(cmd) /\ Means(c, n \div 3 + 1, cmd)
              /\ n % 3 = 2 => Transfers(c)[n + 1] = flash_wait_busy
<1>1. PICK cmds \in Seq(Seq(Byte)) :
        /\ Transfers(c) = Changing(cmds) /\ Len(cmds) = CallPieces(c)
        /\ \A g \in 1 .. Len(cmds) : Means(c, g, cmds[g])
  BY ChangingCommands
<1> DEFINE N == Len(cmds)
           T == Transfers(c)
<1>2. N \in Nat
  OBVIOUS
<1>3. T = [i \in 1 .. 3 * N |->
             CASE i % 3 = 1 -> flash_write_enable
               [] i % 3 = 2 -> Write(cmds[(i + 1) \div 3])
               [] i % 3 = 0 -> flash_wait_busy]
  BY <1>1 DEF Changing
<1> HIDE DEF N, T
<1>5. ASSUME NEW n \in 0 .. 3 * N - 1
      PROVE  /\ n % 3 = 0 => T[n + 1] = flash_write_enable
             /\ n % 3 = 1 => \E cmd : T[n + 1] = Write(cmd) /\ Means(c, n \div 3 + 1, cmd)
             /\ n % 3 = 2 => T[n + 1] = flash_wait_busy
  <2>1. n + 1 \in 1 .. 3 * N /\ n \in Nat
    BY <1>2
  <2>2. CASE n % 3 = 0
    <3>1. (n + 1) % 3 = 1
      BY <2>1, <2>2, Thirds
    <3> QED
      BY <1>3, <2>1, <2>2, <3>1
  <2>3. CASE n % 3 = 1
    <3>1. /\ (n + 1) % 3 = 2 /\ ((n + 1) + 1) \div 3 = n \div 3 + 1
          /\ n \div 3 + 1 \in 1 .. N
      BY <1>2, <2>1, <2>3
    <3>2. T[n + 1] = Write(cmds[n \div 3 + 1])
      BY <1>3, <2>1, <3>1
    <3>3. Means(c, n \div 3 + 1, cmds[n \div 3 + 1])
      BY <1>1, <3>1 DEF N
    <3> QED
      BY <2>3, <3>2, <3>3
  <2>4. CASE n % 3 = 2
    <3>1. (n + 1) % 3 = 0
      BY <2>1, <2>4, Thirds
    <3> QED
      BY <1>3, <2>1, <2>4, <3>1
  <2> QED
    BY <2>1, <2>2, <2>3, <2>4
<1>4. T \in Seq(TransferTypes) /\ Len(T) = 3 * N
  <2>1. 3 * N \in Nat /\ DOMAIN T = 1 .. 3 * N /\ T = [i \in 1 .. 3 * N |-> T[i]]
    BY <1>2, <1>3
  <2>2. ASSUME NEW i \in 1 .. 3 * N PROVE T[i] \in TransferTypes
    <3> DEFINE n == i - 1
    <3>1. n \in 0 .. 3 * N - 1 /\ n + 1 = i /\ n % 3 \in {0, 1, 2}
      BY <1>2
    <3> HIDE DEF n
    <3>5. /\ n % 3 = 0 => T[i] = flash_write_enable
          /\ n % 3 = 1 => \E cmd : T[i] = Write(cmd) /\ Means(c, n \div 3 + 1, cmd)
          /\ n % 3 = 2 => T[i] = flash_wait_busy
      <4>1. /\ n % 3 = 0 => T[n + 1] = flash_write_enable
            /\ n % 3 = 1 => \E cmd : T[n + 1] = Write(cmd) /\ Means(c, n \div 3 + 1, cmd)
            /\ n % 3 = 2 => T[n + 1] = flash_wait_busy
        BY <1>5, <3>1
      <4> QED
        BY <3>1, <4>1
    <3>2. CASE n % 3 = 0
      <4>1. <<WRITE_ENABLE>> \in Seq(Byte) /\ T[i] = flash_write_enable
        BY <3>2, <3>5 DEF WRITE_ENABLE, Byte
      <4> QED
        BY <4>1 DEF flash_write_enable, Write, TransferTypes
    <3>3. CASE n % 3 = 1
      <4>1. PICK cmd : T[i] = Write(cmd) /\ cmd \in Seq(Byte)
        BY <3>3, <3>5 DEF Means
      <4> QED
        BY <4>1 DEF Write, TransferTypes
    <3>4. CASE n % 3 = 2
      <4>1. <<READ_STATUS_REG_1>> \in Seq(Byte) /\ T[i] = flash_wait_busy
        BY <3>4, <3>5 DEF READ_STATUS_REG_1, Byte
      <4> QED
        BY <4>1 DEF flash_wait_busy, TransferTypes
    <3> QED
      BY <3>1, <3>2, <3>3, <3>4
  <2>3. T \in [1 .. 3 * N -> TransferTypes]
    BY <2>1, <2>2
  <2> QED
    BY <2>1, <2>3
<1> QED
  BY <1>1, <1>2, <1>4, <1>5 DEF N, T

\* The one transfer of a call that changes nothing.
PlainTransfer(c, wr, n) ==
  /\ Transfers(c) = <<[wr |-> wr, n |-> n, poll |-> FALSE]>>
  /\ wr \in Seq(Byte) /\ Len(wr) >= 1 /\ n \in Nat
  /\ wr[1] \notin Erases \cup {PAGE_PROGRAM, WRITE_ENABLE}
  /\ wr[1] = POWER_DOWN <=> c.name = "powerdown"
  /\ wr[1] = RELEASE_POWER_DOWN <=> c.name = "release_powerdown"

\* The calls that change nothing: one transfer or two, none of them a command that does.
LEMMA PlainShape ==
  ASSUME NEW c \in FlashCalls, ~Changes(c)
  PROVE  /\ Transfers(c) \in Seq(TransferTypes) /\ Len(Transfers(c)) \in {1, 2}
         /\ CallPieces(c) = 0
         /\ \A n \in 1 .. Len(Transfers(c)) :
              /\ ~Transfers(c)[n].poll /\ Len(Transfers(c)[n].wr) >= 1
              /\ Transfers(c)[n].wr[1] \notin Erases \cup {PAGE_PROGRAM, WRITE_ENABLE}
              /\ Transfers(c)[n].wr[1] = POWER_DOWN <=> c.name = "powerdown"
              /\ Transfers(c)[n].wr[1] = RELEASE_POWER_DOWN <=> c.name = "release_powerdown"
<1> USE DEF Erases, SECTOR_ERASE, BLOCK_ERASE_32K, BLOCK_ERASE_64K, PAGE_PROGRAM, WRITE_ENABLE,
            POWER_DOWN, RELEASE_POWER_DOWN, WRITE_DISABLE, READ_STATUS_REG_1, READ_STATUS_REG_2,
            READ_DATA, READ_MANUFACTURER_ID, READ_JEDEC_ID, READ_UNIQUE_ID
<1>0. CallPieces(c) = 0
  BY DEF CallPieces, Changes
<1>1. ASSUME NEW wr, NEW n, PlainTransfer(c, wr, n)
      PROVE  /\ Transfers(c) \in Seq(TransferTypes) /\ Len(Transfers(c)) = 1
             /\ \A i \in 1 .. Len(Transfers(c)) :
                  Transfers(c)[i] = [wr |-> wr, n |-> n, poll |-> FALSE]
  <2> DEFINE t == [wr |-> wr, n |-> n, poll |-> FALSE]
  <2>1. t \in TransferTypes /\ Transfers(c) = <<t>>
    BY <1>1 DEF TransferTypes, PlainTransfer
  <2> HIDE DEF t
  <2>2. <<t>> \in Seq(TransferTypes) /\ Len(<<t>>) = 1 /\ \A i \in 1 .. 1 : <<t>>[i] = t
    BY <2>1
  <2>3. \A i \in 1 .. Len(Transfers(c)) : Transfers(c)[i] = t
    BY <2>1, <2>2
  <2> QED
    BY <2>1, <2>2, <2>3 DEF t
<1>2. CASE c.name = "read_data"
  <2> DEFINE wr == <<READ_DATA, Digit(c.address, ADDR_BYTE_3), Digit(c.address, ADDR_BYTE_2),
                     Digit(c.address, 1)>>
  <2>1. c.address \in 0 .. FlashSize - 1 /\ c.size \in Nat
    BY SizesAre DEF FlashCalls
  <2>2. /\ Digit(c.address, 1) \in Byte /\ Digit(c.address, ADDR_BYTE_2) \in Byte
        /\ Digit(c.address, ADDR_BYTE_3) \in Byte /\ 3 \in Byte
    BY <2>1, AddressDigits DEF Byte
  <2>3. wr \in Seq(Byte) /\ Len(wr) = 4 /\ wr[1] = 3
    BY <2>2
  <2>4. Transfers(c) = <<[wr |-> wr, n |-> c.size, poll |-> FALSE]>>
    BY <1>2 DEF Transfers, flash_read_data, ReadBack
  <2> HIDE DEF wr
  <2>5. PlainTransfer(c, wr, c.size)
    BY <1>2, <2>1, <2>3, <2>4 DEF PlainTransfer
  <2> QED
    BY <1>0, <1>1, <2>5 DEF PlainTransfer
<1>3. CASE c.name = "read_status"
  <2> DEFINE t == [wr |-> <<5>>, n |-> 1, poll |-> FALSE]
             u == [wr |-> <<53>>, n |-> 1, poll |-> FALSE]
  <2>1. Transfers(c) = <<t, u>>
    BY <1>3 DEF Transfers, flash_read_status, ReadBack
  <2>2. <<5>> \in Seq(Byte) /\ <<53>> \in Seq(Byte)
    BY DEF Byte
  <2>3. t \in TransferTypes /\ u \in TransferTypes
    BY <2>2 DEF TransferTypes
  <2>4. t.wr = <<5>> /\ u.wr = <<53>> /\ ~t.poll /\ ~u.poll
    OBVIOUS
  <2> HIDE DEF t, u
  <2>5. /\ <<t, u>> \in Seq(TransferTypes) /\ Len(<<t, u>>) = 2
        /\ \A i \in 1 .. 2 : <<t, u>>[i] = t \/ <<t, u>>[i] = u
    BY <2>3
  <2> QED
    BY <1>0, <1>3, <2>1, <2>4, <2>5
<1>4. CASE c.name \in {"write_disable", "powerdown", "release_powerdown",
                      "read_manufacturer_device_id", "read_jedec_id", "read_unique_id"}
  <2>1. PICK wr, n : PlainTransfer(c, wr, n)
    <3>1. CASE c.name = "write_disable"
      <4>1. Transfers(c) = <<[wr |-> <<4>>, n |-> 0, poll |-> FALSE]>>
        BY <3>1 DEF Transfers, Write
      <4>2. <<4>> \in Seq(Byte) /\ Len(<<4>>) = 1 /\ <<4>>[1] = 4
        BY DEF Byte
      <4>3. PlainTransfer(c, <<4>>, 0)
        BY <3>1, <4>1, <4>2 DEF PlainTransfer
      <4> QED
        BY <4>3
    <3>2. CASE c.name = "powerdown"
      <4>1. Transfers(c) = <<[wr |-> <<185>>, n |-> 0, poll |-> FALSE]>>
        BY <3>2 DEF Transfers, Write
      <4>2. <<185>> \in Seq(Byte) /\ Len(<<185>>) = 1 /\ <<185>>[1] = 185
        BY DEF Byte
      <4>3. PlainTransfer(c, <<185>>, 0)
        BY <3>2, <4>1, <4>2 DEF PlainTransfer
      <4> QED
        BY <4>3
    <3>3. CASE c.name = "release_powerdown"
      <4> DEFINE wr == <<171, 0, 0, 0>>
      <4>1. Transfers(c) = <<[wr |-> wr, n |-> 0, poll |-> FALSE]>>
        BY <3>3 DEF Transfers, Write
      <4>2. wr \in Seq(Byte) /\ Len(wr) = 4 /\ wr[1] = 171
        BY DEF Byte
      <4> HIDE DEF wr
      <4>3. PlainTransfer(c, wr, 0)
        BY <3>3, <4>1, <4>2 DEF PlainTransfer
      <4> QED
        BY <4>3
    <3>4. CASE c.name = "read_manufacturer_device_id"
      <4> DEFINE wr == <<144, 0, 0, 0>>
      <4>1. Transfers(c) = <<[wr |-> wr, n |-> 2, poll |-> FALSE]>>
        BY <3>4 DEF Transfers, ReadBack
      <4>2. wr \in Seq(Byte) /\ Len(wr) = 4 /\ wr[1] = 144
        BY DEF Byte
      <4> HIDE DEF wr
      <4>3. PlainTransfer(c, wr, 2)
        BY <3>4, <4>1, <4>2 DEF PlainTransfer
      <4> QED
        BY <4>3
    <3>5. CASE c.name = "read_jedec_id"
      <4>1. Transfers(c) = <<[wr |-> <<159>>, n |-> 3, poll |-> FALSE]>>
        BY <3>5 DEF Transfers, ReadBack
      <4>2. <<159>> \in Seq(Byte) /\ Len(<<159>>) = 1 /\ <<159>>[1] = 159
        BY DEF Byte
      <4>3. PlainTransfer(c, <<159>>, 3)
        BY <3>5, <4>1, <4>2 DEF PlainTransfer
      <4> QED
        BY <4>3
    <3>6. CASE c.name = "read_unique_id"
      <4> DEFINE wr == <<75, 0, 0, 0, 0>>
      <4>1. Transfers(c) = <<[wr |-> wr, n |-> 8, poll |-> FALSE]>>
        BY <3>6 DEF Transfers, ReadBack
      <4>2. wr \in Seq(Byte) /\ Len(wr) = 5 /\ wr[1] = 75
        BY DEF Byte
      <4> HIDE DEF wr
      <4>3. PlainTransfer(c, wr, 8)
        BY <3>6, <4>1, <4>2 DEF PlainTransfer
      <4> QED
        BY <4>3
    <3> QED
      BY <1>4, <3>1, <3>2, <3>3, <3>4, <3>5, <3>6
  <2> QED
    BY <1>0, <1>1, <2>1 DEF PlainTransfer
<1>5. c.name \in CallNames
  BY DEF FlashCalls
<1> QED
  BY <1>2, <1>3, <1>4, <1>5 DEF CallNames, Changes

-----------------------------------------------------------------------------
(* What the device answers *)

\* The opcodes that identify the device.
Opcodes == {READ_MANUFACTURER_ID, READ_JEDEC_ID, READ_UNIQUE_ID, READ_STATUS_REG_2}

\* The identification of the device, opcode by opcode.
LEMMA IdsAre ==
  /\ DOMAIN Ids = Opcodes
  /\ Ids[READ_MANUFACTURER_ID] = <<4, <<239, 19>>>>
  /\ Ids[READ_JEDEC_ID] = <<1, <<239, 64, 20>>>>
  /\ Ids[READ_UNIQUE_ID] = <<5, <<201, 2, 33, 4, 5, 6, 7, 136>>>>
  /\ Ids[READ_STATUS_REG_2] = <<1, <<2>>>>
BY DEF Ids, Opcodes, READ_MANUFACTURER_ID, READ_JEDEC_ID, READ_UNIQUE_ID, READ_STATUS_REG_2

\* It is made of bytes.
LEMMA IdsAreBytes ==
  ASSUME NEW op \in Opcodes
  PROVE  Ids[op][1] \in Nat /\ Ids[op][2] \in Seq(Byte)
<1>1. /\ <<239, 19>> \in Seq(Byte) /\ <<239, 64, 20>> \in Seq(Byte)
      /\ <<201, 2, 33, 4, 5, 6, 7, 136>> \in Seq(Byte) /\ <<2>> \in Seq(Byte)
  BY DEF Byte
<1>2. ASSUME NEW n \in Nat, NEW s \in Seq(Byte), Ids[op] = <<n, s>>
      PROVE  Ids[op][1] \in Nat /\ Ids[op][2] \in Seq(Byte)
  BY <1>2
<1>3. CASE op = READ_MANUFACTURER_ID
  BY <1>1, <1>2, <1>3, IdsAre
<1>4. CASE op = READ_JEDEC_ID
  BY <1>1, <1>2, <1>4, IdsAre
<1>5. CASE op = READ_UNIQUE_ID
  BY <1>1, <1>2, <1>5, IdsAre
<1>6. CASE op = READ_STATUS_REG_2
  BY <1>1, <1>2, <1>6, IdsAre
<1> QED
  BY <1>3, <1>4, <1>5, <1>6 DEF Opcodes

\* The device puts out bytes.
LEMMA OutByteIsByte ==
  ASSUME FlashTypes, NEW cmd \in Seq(Byte)
  PROVE  OutByte(cmd) \in Byte
<1> DEFINE k == Len(cmd)
           op == cmd[1]
<1>1. 0 \in Byte /\ \A i, j \in {0, 1} : i + 2 * j \in Byte
  BY DEF Byte
<1>2. (IF work # <<>> THEN 1 ELSE 0) + (IF wel THEN 2 ELSE 0) \in Byte
  BY DEF Byte
<1>3. ASSUME k >= 4 PROVE mem[(AddressOf(cmd) + (k - 4)) % FlashSize] \in Byte
  <2>1. cmd[2] \in Nat /\ cmd[3] \in Nat /\ cmd[4] \in Nat
    <3>1. \A b \in Byte : b \in Nat
      BY DEF Byte
    <3>2. k \in Nat /\ \A j \in 1 .. k : cmd[j] \in Byte
      OBVIOUS
    <3>3. 2 \in 1 .. k /\ 3 \in 1 .. k /\ 4 \in 1 .. k
      BY <1>3, <3>2
    <3> QED
      BY <3>1, <3>2, <3>3
  <2>2. AddressOf(cmd) \in Nat
    <3> DEFINE x == cmd[2] * ADDR_BYTE_3
               y == cmd[3] * ADDR_BYTE_2
    <3>0. ADDR_BYTE_2 \in Nat /\ ADDR_BYTE_3 \in Nat
      BY SizesAre
    <3>1. x \in Nat /\ y \in Nat
      <4>1. \A i, j \in Nat : i * j \in Nat
        OBVIOUS
      <4> QED
        BY <2>1, <3>0, <4>1
    <3> HIDE DEF x, y
    <3>2. x + y + cmd[4] \in Nat
      BY <2>1, <3>1
    <3> QED
      BY <3>2 DEF AddressOf, x, y
  <2> DEFINE z == AddressOf(cmd) + (k - 4)
  <2>3. z \in Nat
    BY <1>3, <2>2
  <2> HIDE DEF z
  <2>4. z % FlashSize \in 0 .. FlashSize - 1
    BY <2>3, SizesAre, Divided
  <2> QED
    BY <2>4 DEF z, FlashTypes
<1>4. ASSUME op \in DOMAIN Ids, k - Ids[op][1] + 1 \in DOMAIN Ids[op][2]
      PROVE  Ids[op][2][k - Ids[op][1] + 1] \in Byte
  <2>1. Ids[op][2] \in Seq(Byte)
    BY <1>4, IdsAre, IdsAreBytes
  <2> QED
    BY <1>4, <2>1
<1> QED
  BY <1>1, <1>2, <1>3, <1>4 DEF OutByte

\* What the device has received after i bytes of a transfer, from the command on.
LEMMA PutBytes ==
  ASSUME Current \in TransferTypes, NEW i \in Nat
  PROVE  /\ Len([j \in 1 .. i |-> Wire(j)]) = i
         /\ [j \in 1 .. i |-> Wire(j)] \in Seq(Byte)
         /\ \A j \in 1 .. i : [k \in 1 .. i |-> Wire(k)][j] = Wire(j)
         /\ \A j \in 1 .. Len(Current.wr) : Wire(j) = Current.wr[j]
         /\ \A j \in Nat \ {0} : Wire(j) \in Byte
<1>1. Current.wr \in Seq(Byte) /\ 0 \in Byte /\ Len(Current.wr) \in Nat
  BY DEF TransferTypes, Byte
<1>2. \A j \in Nat \ {0} : Wire(j) \in Byte
  BY <1>1 DEF Wire
<1>3. \A j \in 1 .. Len(Current.wr) : Wire(j) = Current.wr[j]
  BY <1>1 DEF Wire
<1> DEFINE f == [j \in 1 .. i |-> Wire(j)]
<1>4. f \in [1 .. i -> Byte]
  BY <1>2
<1>5. \A j \in 1 .. i : f[j] = Wire(j)
  OBVIOUS
<1> HIDE DEF f
<1>6. f \in Seq(Byte) /\ Len(f) = i
  BY <1>4
<1> QED
  BY <1>2, <1>3, <1>5, <1>6 DEF f

\* A device that answers every read.
Quiet == work = <<>> /\ ~wel /\ ~asleep

\* A read gets the contents from its address on.
LEMMA DataAnswers ==
  ASSUME FlashTypes, Quiet, call \in FlashCalls, call.name = "read_data",
         Current = Transfers(call)[1], NEW i \in 1 .. Current.n
  PROVE  Answered(Len(Current.wr) + i - 1) = CallReply(call, mem)[i]
<1> DEFINE a == call.address
           h == Digit(a, ADDR_BYTE_3)
           m == Digit(a, ADDR_BYTE_2)
           l == Digit(a, 1)
           wr == <<READ_DATA, h, m, l>>
           k == 4 + i - 1
<1>1. Current = [wr |-> wr, n |-> call.size, poll |-> FALSE] /\ call.size \in Nat
  BY SizesAre DEF Transfers, flash_read_data, ReadBack, FlashCalls
<1>2. /\ a \in 0 .. FlashSize - 1 /\ a + call.size <= FlashSize /\ a \in Nat
      /\ FlashSize \in Nat \ {0}
  BY SizesAre DEF FlashCalls
<1>3. h \in Byte /\ m \in Byte /\ l \in Byte /\ a = h * ADDR_BYTE_3 + m * ADDR_BYTE_2 + l
  BY <1>2, AddressDigits
<1>4. CallReply(call, mem)[i] = mem[a + i - 1]
  BY <1>1 DEF CallReply
<1>5. i \in Nat /\ i >= 1 /\ a + (i - 1) < FlashSize /\ a + (i - 1) \in Nat
  BY <1>1, <1>2
<1> HIDE DEF a, h, m, l
<1>6. /\ wr \in Seq(Byte) /\ Len(wr) = 4 /\ wr[1] = READ_DATA /\ wr[2] = h /\ wr[3] = m /\ wr[4] = l
  BY <1>3 DEF Byte, READ_DATA
<1> HIDE DEF wr
<1> DEFINE f == [j \in 1 .. k |-> Wire(j)]
<1>7. k \in Nat /\ k >= 4 /\ k - 4 = i - 1
  BY <1>5
<1>8. Current \in TransferTypes /\ Current.wr = wr
  BY <1>1, <1>6 DEF TransferTypes
<1> HIDE DEF k
<1>9. Len(f) = k /\ f[1] = READ_DATA /\ f[2] = h /\ f[3] = m /\ f[4] = l
  <2>1. Len(f) = k /\ \A j \in 1 .. k : f[j] = Wire(j)
    BY <1>7, <1>8, PutBytes
  <2>3. \A j \in 1 .. 4 : Wire(j) = wr[j]
    BY <1>6, <1>8, PutBytes
  <2>4. 1 \in 1 .. k /\ 2 \in 1 .. k /\ 3 \in 1 .. k /\ 4 \in 1 .. k
    BY <1>7
  <2> HIDE DEF f
  <2> QED
    BY <1>6, <2>1, <2>3, <2>4
<1> HIDE DEF f
<1>10. AddressOf(f) = a
  BY <1>3, <1>9 DEF AddressOf
<1>11. (a + (i - 1)) % FlashSize = a + (i - 1)
  <2> DEFINE z == a + (i - 1)
  <2>1. z \in Nat /\ z < FlashSize
    BY <1>5
  <2> HIDE DEF z
  <2>2. z % FlashSize = z
    BY <1>2, <2>1
  <2> QED
    BY <2>2 DEF z
<1>12. OutByte(f) = mem[a + (i - 1)]
  BY <1>7, <1>9, <1>10, <1>11 DEF OutByte, Quiet, READ_DATA, READ_STATUS_REG_1
<1>13. Answered(Len(Current.wr) + i - 1) = OutByte(f)
  BY <1>6, <1>8 DEF Answered, f, k
<1>14. a + (i - 1) = a + i - 1
  BY <1>2, <1>5
<1> QED
  BY <1>4, <1>12, <1>13, <1>14 DEF a

\* A read of the identification gets it from its first byte on.
LEMMA IdAnswers ==
  ASSUME FlashTypes, Quiet, Current \in TransferTypes, ~Current.poll, Len(Current.wr) >= 1,
         Current.wr[1] \in Opcodes, Len(Current.wr) = Ids[Current.wr[1]][1],
         Current.n = Len(Ids[Current.wr[1]][2]), NEW i \in 1 .. Current.n
  PROVE  Answered(Len(Current.wr) + i - 1) = Ids[Current.wr[1]][2][i]
<1> DEFINE op == Current.wr[1]
           w == Len(Current.wr)
           n == Current.n
           k == w + i - 1
           f == [j \in 1 .. k |-> Wire(j)]
<1>1. w \in Nat /\ w >= 1 /\ n \in Nat /\ i \in 1 .. n
  BY DEF TransferTypes
<1>3. Answered(Len(Current.wr) + i - 1) = OutByte(f)
  BY DEF Answered
<1>2. k \in Nat /\ k >= 1 /\ k - w + 1 = i
  <2> HIDE DEF w, n
  <2> QED
    BY <1>1
<1>4. Len(f) = k /\ f[1] = op
  <2> HIDE DEF k
  <2>1. Len(f) = k /\ \A j \in 1 .. k : f[j] = Wire(j)
    BY <1>2, PutBytes
  <2>2. Wire(1) = op
    BY <1>1, PutBytes
  <2>3. 1 \in 1 .. k
    BY <1>2
  <2> HIDE DEF f, op
  <2> QED
    BY <2>1, <2>2, <2>3
<1>5. Ids[op][1] = w /\ op \in DOMAIN Ids /\ DOMAIN Ids[op][2] = 1 .. n
  <2> DEFINE s == Ids[op][2]
  <2>1. s \in Seq(Byte) /\ Len(s) = n
    BY IdsAreBytes
  <2>2. DOMAIN s = 1 .. n
    <3> HIDE DEF s, n
    <3> QED
      BY <2>1
  <2> QED
    BY <2>2, IdsAre
<1> HIDE DEF f, w, k, n
<1>6. op # READ_STATUS_REG_1 /\ op # READ_DATA
  BY DEF Opcodes, READ_STATUS_REG_1, READ_DATA, READ_MANUFACTURER_ID, READ_JEDEC_ID, READ_UNIQUE_ID,
         READ_STATUS_REG_2
<1> HIDE DEF op
<1>7. OutByte(f) = Ids[op][2][k - w + 1]
  BY <1>1, <1>2, <1>4, <1>5, <1>6 DEF OutByte, Quiet
<1> QED
  BY <1>2, <1>3, <1>7 DEF op

\* A device that is done and not write enabled has a zero status.
LEMMA StatusAnswer ==
  ASSUME FlashTypes, Quiet, Current \in TransferTypes, Current.wr = <<READ_STATUS_REG_1>>
  PROVE  Answered(1) = 0
<1> DEFINE f == [j \in 1 .. 1 |-> Wire(j)]
<1>1. Len(f) = 1 /\ f[1] = READ_STATUS_REG_1
  BY PutBytes
<1> HIDE DEF f
<1>2. OutByte(f) = 0
  BY <1>1 DEF OutByte, Quiet
<1> QED
  BY <1>2 DEF Answered, f

\* A call with one transfer is in it.
LEMMA OneTransfer ==
  ASSUME NEW t, Transfers(call) = <<t>>, nth \in Nat, nth < Len(Transfers(call))
  PROVE  Len(Transfers(call)) = 1 /\ nth = 0 /\ Current = t
BY DEF Current

\* What a transfer of a call that changes nothing reads is what the call is to return.
LEMMA Answers ==
  ASSUME FlashTypes, call.name # "release_powerdown" => Quiet, call \in FlashCalls, ~Changes(call),
         nth < Len(Transfers(call)),
         NEW b \in Seq(Byte), Len(b) = Current.n,
         \A i \in 1 .. Len(b) : b[i] = Answered(Len(Current.wr) + i - 1)
  PROVE  /\ nth + 1 < Len(Transfers(call)) => nth = 0 /\ b = <<0>>
         /\ nth + 1 = Len(Transfers(call)) /\ nth = 0 => b = CallReply(call, mem)
         /\ nth + 1 = Len(Transfers(call)) /\ nth # 0 => <<0>> \o b = CallReply(call, mem)
<1>1. nth \in Nat /\ mem \in Memory
  BY DEF FlashTypes, Memory
<1>2. Transfers(call) \in Seq(TransferTypes) /\ Current \in TransferTypes /\ ~Current.poll
      /\ Len(Current.wr) >= 1 /\ Len(Transfers(call)) \in {1, 2}
  <2>1. /\ Transfers(call) \in Seq(TransferTypes) /\ Len(Transfers(call)) \in {1, 2}
        /\ \A n \in 1 .. Len(Transfers(call)) : ~Transfers(call)[n].poll /\ Len(Transfers(call)[n].wr) >= 1
    BY PlainShape
  <2>2. nth + 1 \in 1 .. Len(Transfers(call))
    BY <1>1, <2>1
  <2>3. Current \in TransferTypes /\ ~Current.poll /\ Len(Current.wr) >= 1
    BY <2>1, <2>2, ElementOfSeq DEF Current
  <2> QED
    BY <2>1, <2>3
<1>3. call.name \in CallNames
  BY DEF FlashCalls
<1>4. CASE call.name = "read_data"
  <2> DEFINE n == call.size
             t == [wr |-> <<READ_DATA, Digit(call.address, ADDR_BYTE_3), Digit(call.address, ADDR_BYTE_2),
                            Digit(call.address, 1)>>, n |-> n, poll |-> FALSE]
             r == CallReply(call, mem)
  <2>1. Transfers(call) = <<t>> /\ t.n = n /\ n \in Nat
    <3>1. Transfers(call) = <<t>>
      BY <1>4 DEF Transfers, flash_read_data, ReadBack
    <3>2. t.n = n
      OBVIOUS
    <3>3. n \in Nat
      BY SizesAre DEF FlashCalls
    <3> QED
      BY <3>1, <3>2, <3>3
  <2> HIDE DEF n, t
  <2>2. Len(Transfers(call)) = 1 /\ nth = 0 /\ Current = t
    BY <1>1, <2>1, OneTransfer
  <2>3. Current = Transfers(call)[1] /\ Current.n = n
    BY <2>1, <2>2 DEF Current
  <2>4. \A i \in 1 .. n : b[i] = r[i]
    BY <1>4, <2>3, DataAnswers
  <2>5. r = [i \in 1 .. n |-> mem[call.address + i - 1]]
    BY <1>4 DEF CallReply, n
  <2>6. \A i \in 1 .. n : r[i] \in Byte
    BY <2>1, <2>3, <2>4
  <2>7. DOMAIN r = 1 .. n /\ r = [i \in DOMAIN r |-> r[i]]
    BY <2>5
  <2> HIDE DEF r
  <2>8. r \in Seq(Byte) /\ Len(r) = n
    <3>1. r \in [1 .. n -> Byte]
      BY <2>6, <2>7
    <3> QED
      BY <2>1, <3>1
  <2>9. b = r
    BY <2>3, <2>4, <2>8, SeqEqual
  <2> QED
    BY <2>2, <2>9 DEF r
<1>5. ASSUME call.name # "release_powerdown", NEW op \in Opcodes, Current.wr[1] = op,
             Len(Current.wr) = Ids[op][1],
             Current.n = Len(Ids[op][2])
      PROVE  b = Ids[op][2]
  <2>1. Ids[op][2] \in Seq(Byte)
    BY <1>5, IdsAreBytes
  <2>2. \A i \in 1 .. Len(b) : b[i] = Ids[op][2][i]
    BY <1>2, <1>5, IdAnswers
  <2> QED
    BY <1>5, <2>1, <2>2, SeqEqual
<1>6. CASE call.name = "read_manufacturer_device_id"
  <2> DEFINE t == [wr |-> <<144, 0, 0, 0>>, n |-> 2, poll |-> FALSE]
  <2>1. Transfers(call) = <<t>>
    BY <1>6 DEF Transfers, ReadBack, READ_MANUFACTURER_ID
  <2>5. t.wr[1] = READ_MANUFACTURER_ID /\ Len(t.wr) = 4 /\ t.n = 2
    BY DEF READ_MANUFACTURER_ID
  <2> HIDE DEF t
  <2>2. Len(Transfers(call)) = 1 /\ nth = 0 /\ Current = t
    BY <1>1, <2>1, OneTransfer
  <2>3. Current.wr[1] = READ_MANUFACTURER_ID /\ Len(Current.wr) = 4 /\ Current.n = 2
    BY <2>2, <2>5
  <2>4. b = Ids[READ_MANUFACTURER_ID][2]
    BY <1>5, <1>6, <2>3, IdsAre DEF Opcodes
  <2> QED
    BY <1>6, <2>2, <2>4 DEF CallReply
<1>7. CASE call.name = "read_jedec_id"
  <2> DEFINE t == [wr |-> <<159>>, n |-> 3, poll |-> FALSE]
  <2>1. Transfers(call) = <<t>>
    BY <1>7 DEF Transfers, ReadBack, READ_JEDEC_ID
  <2>5. t.wr[1] = READ_JEDEC_ID /\ Len(t.wr) = 1 /\ t.n = 3
    BY DEF READ_JEDEC_ID
  <2> HIDE DEF t
  <2>2. Len(Transfers(call)) = 1 /\ nth = 0 /\ Current = t
    BY <1>1, <2>1, OneTransfer
  <2>3. Current.wr[1] = READ_JEDEC_ID /\ Len(Current.wr) = 1 /\ Current.n = 3
    BY <2>2, <2>5
  <2>4. b = Ids[READ_JEDEC_ID][2]
    BY <1>5, <1>7, <2>3, IdsAre DEF Opcodes
  <2> QED
    BY <1>7, <2>2, <2>4 DEF CallReply
<1>8. CASE call.name = "read_unique_id"
  <2> DEFINE t == [wr |-> <<75, 0, 0, 0, 0>>, n |-> 8, poll |-> FALSE]
  <2>1. Transfers(call) = <<t>>
    BY <1>8 DEF Transfers, ReadBack, READ_UNIQUE_ID
  <2>5. t.wr[1] = READ_UNIQUE_ID /\ Len(t.wr) = 5 /\ t.n = 8
    BY DEF READ_UNIQUE_ID
  <2> HIDE DEF t
  <2>2. Len(Transfers(call)) = 1 /\ nth = 0 /\ Current = t
    BY <1>1, <2>1, OneTransfer
  <2>3. Current.wr[1] = READ_UNIQUE_ID /\ Len(Current.wr) = 5 /\ Current.n = 8
    BY <2>2, <2>5
  <2>4. b = Ids[READ_UNIQUE_ID][2]
    BY <1>5, <1>8, <2>3, IdsAre DEF Opcodes
  <2> QED
    BY <1>8, <2>2, <2>4 DEF CallReply
<1>9. CASE call.name = "read_status"
  <2> DEFINE t == [wr |-> <<READ_STATUS_REG_1>>, n |-> 1, poll |-> FALSE]
             u == [wr |-> <<READ_STATUS_REG_2>>, n |-> 1, poll |-> FALSE]
  <2>1. Transfers(call) = <<t, u>>
    BY <1>9 DEF Transfers, flash_read_status, ReadBack
  <2>2. Len(Transfers(call)) = 2 /\ nth \in {0, 1}
    <3> HIDE DEF t, u
    <3> QED
      BY <1>1, <2>1
  <2>3. CASE nth = 0
    <3>1. Current = t
      BY <2>1, <2>3 DEF Current
    <3>2. Current.wr = <<READ_STATUS_REG_1>> /\ Current.n = 1 /\ Len(Current.wr) = 1
      BY <3>1
    <3>3. b[1] = 0 /\ Len(b) = 1
      BY <1>2, <1>9, <3>2, StatusAnswer
    <3>4. <<0>> \in Seq(Byte) /\ Len(<<0>>) = 1 /\ <<0>>[1] = 0
      BY DEF Byte
    <3>5. b = <<0>>
      BY <3>3, <3>4, SeqEqual
    <3> QED
      BY <2>2, <2>3, <3>5
  <2>4. CASE nth = 1
    <3>1. Current = u
      BY <2>1, <2>4 DEF Current
    <3>2. Current.wr[1] = READ_STATUS_REG_2 /\ Current.n = 1 /\ Len(Current.wr) = 1
      BY <3>1
    <3>3. b = Ids[READ_STATUS_REG_2][2]
      BY <1>5, <1>9, <3>2, IdsAre DEF Opcodes
    <3>4. CallReply(call, mem) = <<0>> \o Ids[READ_STATUS_REG_2][2]
      BY <1>9 DEF CallReply
    <3> QED
      BY <2>2, <2>4, <3>3, <3>4
  <2> QED
    BY <2>2, <2>3, <2>4
<1>10. CASE call.name \in {"write_disable", "powerdown", "release_powerdown"}
  <2>4. ASSUME NEW wr, Transfers(call) = <<[wr |-> wr, n |-> 0, poll |-> FALSE]>>
        PROVE  Len(Transfers(call)) = 1 /\ nth = 0 /\ Current.n = 0
    <3> DEFINE t == [wr |-> wr, n |-> 0, poll |-> FALSE]
    <3>1. t.n = 0 /\ Transfers(call) = <<t>>
      BY <2>4
    <3> HIDE DEF t
    <3> QED
      BY <1>1, <3>1, OneTransfer
  <2>5. \E wr : Transfers(call) = <<[wr |-> wr, n |-> 0, poll |-> FALSE]>>
    BY <1>10 DEF Transfers, Write
  <2>1. Len(Transfers(call)) = 1 /\ nth = 0 /\ Current.n = 0
    BY <2>4, <2>5
  <2>2. b = <<>>
    BY <2>1, EmptySeq
  <2>3. CallReply(call, mem) = <<>>
    BY <1>10 DEF CallReply
  <2> QED
    BY <2>1, <2>2, <2>3
<1> QED
  BY <1>3, <1>4, <1>6, <1>7, <1>8, <1>9, <1>10 DEF CallNames, Changes

-----------------------------------------------------------------------------
(* The clock edges of the SPI master *)

\* The transfer under way.
LEMMA CurrentIs ==
  ASSUME FlashTypes, Place, Busy
  PROVE  /\ call \in FlashCalls /\ Transfers(call) \in Seq(TransferTypes)
         /\ nth \in 0 .. Len(Transfers(call)) - 1
         /\ Current \in TransferTypes /\ Len(Current.wr) >= 1
         /\ Changes(call) =>
              /\ nth % 3 = 0 => Current = flash_write_enable
              /\ nth % 3 = 1 => \E cmd : Current = Write(cmd) /\ Means(call, nth \div 3 + 1, cmd)
              /\ nth % 3 = 2 => Current = flash_wait_busy
         /\ ~Changes(call) =>
              /\ ~Current.poll
              /\ Current.wr[1] \notin Erases \cup {PAGE_PROGRAM, WRITE_ENABLE}
              /\ Current.wr[1] = POWER_DOWN <=> call.name = "powerdown"
              /\ Current.wr[1] = RELEASE_POWER_DOWN <=> call.name = "release_powerdown"
<1>1. call \in FlashCalls /\ nth \in Nat /\ nth < Len(Transfers(call))
  BY DEF FlashTypes, Place, Busy
<1>2. Transfers(call) \in Seq(TransferTypes)
  BY <1>1, ChangingShape, PlainShape
<1>3. nth \in 0 .. Len(Transfers(call)) - 1 /\ nth + 1 \in 1 .. Len(Transfers(call))
  BY <1>1, <1>2
<1>4. Current \in TransferTypes
  BY <1>2, <1>3 DEF Current
<1>5. CASE Changes(call)
  <2>1. /\ nth % 3 = 0 => Current = flash_write_enable
        /\ nth % 3 = 1 => \E cmd : Current = Write(cmd) /\ Means(call, nth \div 3 + 1, cmd)
        /\ nth % 3 = 2 => Current = flash_wait_busy
    BY <1>1, <1>3, <1>5, ChangingShape DEF Current
  <2>2. nth % 3 \in {0, 1, 2}
    BY <1>1, Thirds
  <2>3. Len(Current.wr) >= 1
    <3>1. CASE nth % 3 = 0
      <4>1. Current.wr = <<WRITE_ENABLE>>
        BY <2>1, <3>1 DEF flash_write_enable, Write
      <4>2. Len(<<WRITE_ENABLE>>) = 1
        OBVIOUS
      <4> QED
        BY <4>1, <4>2
    <3>2. CASE nth % 3 = 1
      BY <2>1, <3>2 DEF Write, Means
    <3>3. CASE nth % 3 = 2
      BY <2>1, <3>3 DEF flash_wait_busy
    <3> QED
      BY <2>2, <3>1, <3>2, <3>3
  <2> QED
    BY <1>1, <1>2, <1>3, <1>4, <1>5, <2>1, <2>3
<1>6. CASE ~Changes(call)
  BY <1>1, <1>2, <1>3, <1>4, <1>6, PlainShape DEF Current
<1> QED
  BY <1>5, <1>6

\* The registers of the SPI master shift to the left.
LEMMA ShiftInIs ==
  ASSUME NEW v \in Vector, NEW b \in {0, 1}
  PROVE  /\ ShiftIn(v, b) \in Vector /\ ShiftIn(v, b)[8] = b
         /\ \A i \in 1 .. 7 : ShiftIn(v, b)[i] = v[i + 1]
BY DEF ShiftIn, Vector

\* Appending to a sequence.
LEMMA AppendIs ==
  ASSUME NEW S, NEW s \in Seq(S), NEW x \in S
  PROVE  /\ Append(s, x) \in Seq(S) /\ Len(Append(s, x)) = Len(s) + 1 /\ Append(s, x) # <<>>
         /\ Append(s, x)[Len(s) + 1] = x
         /\ \A i \in 1 .. Len(s) : Append(s, x)[i] = s[i]
OBVIOUS

\* Appending the eighth bit.
LEMMA EighthBit ==
  ASSUME NEW s \in Seq(Bit), Len(s) = 7, NEW bit \in Bit
  PROVE  /\ Append(s, bit) \in Seq(Bit) /\ Len(Append(s, bit)) = 8
         /\ Append(s, bit)[8] = bit /\ \A i \in 1 .. 7 : Append(s, bit)[i] = s[i]
<1>1. ASSUME NEW t \in Seq(Bit)
      PROVE  /\ Append(t, bit) \in Seq(Bit) /\ Len(Append(t, bit)) = Len(t) + 1
             /\ Append(t, bit)[Len(t) + 1] = bit /\ \A i \in 1 .. Len(t) : Append(t, bit)[i] = t[i]
  BY AppendIs
<1> DEFINE a == Append(s, bit)
<1>2. /\ a \in Seq(Bit) /\ Len(a) = Len(s) + 1
      /\ a[Len(s) + 1] = bit /\ \A i \in 1 .. Len(s) : a[i] = s[i]
  BY <1>1, Zenon
<1> HIDE DEF a
<1> QED
  BY <1>2 DEF a

\* Eight bits in a sequence are a register.
LEMMA EightBits ==
  ASSUME NEW v \in Seq(Bit), Len(v) = 8
  PROVE  v \in Vector
BY LenProperties DEF Vector, Bit

\* Registers with the same bits are the same.
LEMMA SameVector ==
  ASSUME NEW v \in Vector, NEW w \in Vector, \A i \in 1 .. 8 : v[i] = w[i]
  PROVE  v = w
BY DEF Vector

\* The eighth bit makes a byte of the seven before it.
LEMMA LastBit ==
  ASSUME NEW s \in Seq(Bit), Len(s) = 7, NEW bit \in Bit, NEW b \in Byte,
         \A i \in 1 .. 7 : s[i] = Bits(b)[i], bit = Bits(b)[8]
  PROVE  Value(Append(s, bit)) = b
<1>1. Append(s, bit) \in Seq(Bit) /\ Len(Append(s, bit)) = 8
      /\ Append(s, bit)[8] = bit /\ \A i \in 1 .. 7 : Append(s, bit)[i] = s[i]
  BY EighthBit
<1> DEFINE v == Append(s, bit)
<1>3. v \in Vector /\ \A i \in 1 .. 8 : v[i] = Bits(b)[i]
  <2> HIDE DEF v
  <2>1. v \in Vector
    BY <1>1, EightBits DEF v
  <2>2. ASSUME NEW i \in 1 .. 8 PROVE v[i] = Bits(b)[i]
    <3>1. i = 8 \/ i \in 1 .. 7
      OBVIOUS
    <3> QED
      BY <1>1, <3>1 DEF v
  <2> QED
    BY <2>1, <2>2
<1> HIDE DEF v
<1>4. v = Bits(b)
  BY <1>3, BitsAreVector, SameVector
<1> QED
  BY <1>4, ValueOfBits DEF v

\* Eight bits in a sequence make a byte.
LEMMA AppendValue ==
  ASSUME NEW s \in Seq(Bit), Len(s) = 7, NEW bit \in Bit
  PROVE  Value(Append(s, bit)) \in Byte
<1>1. Append(s, bit) \in Seq(Bit) /\ Len(Append(s, bit)) = 8
  BY EighthBit
<1> DEFINE v == Append(s, bit)
<1> HIDE DEF v
<1>2. v \in Vector
  BY <1>1, EightBits DEF v
<1> QED
  BY <1>2, VectorIsByte DEF v

\* What a clock edge leaves alone when the CPU neither selects nor deselects.
Unmoved == UNCHANGED <<spi_ss_reg, mem, applied, wel, asleep, work>>

\* POS_FLANK: the clock rises and the device takes a bit.
LEMMA PosEdge ==
  ASSUME FlashTypes, ~spi_ss_reg, ~spi_csk_reg, spi_ctrl_reg = "POS_FLANK", SpiEdge(Nothing)
  PROVE  /\ Unmoved /\ spi_ctrl_reg' = "NEG_FLANK" /\ spi_csk_reg' = TRUE
         /\ UNCHANGED <<spi_tx_data_reg, spi_rx_data_reg, spi_ready_reg, spi_bit_ctr_reg, miso>>
         /\ spi_miso_sample_reg' = miso
         /\ IF Len(shift) = 7
            THEN received' = Append(received, Value(Append(shift, spi_tx_data_reg[1]))) /\ shift' = <<>>
            ELSE shift' = Append(shift, spi_tx_data_reg[1]) /\ UNCHANGED received
BY DEF FlashTypes, SpiEdge, Nothing, Starts, LoadsData, spi_ctrl_new, Device, Unmoved

\* NEG_FLANK: the clock falls, the device puts out a bit, the data register shifts.
LEMMA NegEdge ==
  ASSUME FlashTypes, ~spi_ss_reg, spi_csk_reg, spi_ctrl_reg = "NEG_FLANK", SpiEdge(Nothing)
  PROVE  /\ Unmoved /\ spi_ctrl_reg' = "NEXT" /\ spi_csk_reg' = FALSE
         /\ UNCHANGED <<spi_rx_data_reg, spi_ready_reg, spi_bit_ctr_reg, received, shift>>
         /\ spi_tx_data_reg' = ShiftIn(spi_tx_data_reg, 0)
         /\ spi_miso_sample_reg' = miso
         /\ miso' = Bits(OutByte(received))[Len(shift) + 1]
BY DEF FlashTypes, SpiEdge, Nothing, Starts, LoadsData, spi_ctrl_new, Device, Unmoved

\* NEXT: the receive register shifts, the counter goes on.
LEMMA NextEdge ==
  ASSUME FlashTypes, ~spi_ss_reg, ~spi_csk_reg, spi_ctrl_reg = "NEXT", SpiEdge(Nothing)
  PROVE  /\ Unmoved /\ spi_ctrl_reg' = IF spi_bit_ctr_reg = 7 THEN "IDLE" ELSE "POS_FLANK"
         /\ spi_csk_reg' = FALSE
         /\ UNCHANGED <<spi_tx_data_reg, received, shift, miso>>
         /\ spi_rx_data_reg' = ShiftIn(spi_rx_data_reg, spi_miso_sample_reg)
         /\ spi_ready_reg' = IF spi_bit_ctr_reg = 7 THEN TRUE ELSE spi_ready_reg
         /\ spi_bit_ctr_reg' = (spi_bit_ctr_reg + 1) % 8
         /\ spi_miso_sample_reg' = miso
BY DEF FlashTypes, SpiEdge, Nothing, Starts, LoadsData, spi_ctrl_new, Device, Unmoved

\* While it is idle, an access to a register has its effect and no other.
LEMMA IdleEdge ==
  ASSUME FlashTypes, ~spi_csk_reg, spi_ready_reg, spi_ctrl_reg = "IDLE", NEW w, SpiEdge(w), ~spi_ss_reg,
         w.reg # "en"
  PROVE  /\ Unmoved /\ spi_csk_reg' = FALSE
         /\ UNCHANGED <<spi_rx_data_reg, received, shift, miso>>
         /\ spi_tx_data_reg' = IF w.reg = "data" THEN Bits(w.val) ELSE spi_tx_data_reg
         /\ spi_ready_reg' = (w.reg # "xfer")
         /\ spi_bit_ctr_reg' = IF w.reg = "xfer" THEN 0 ELSE spi_bit_ctr_reg
         /\ spi_ctrl_reg' = IF w.reg = "xfer" THEN "POS_FLANK" ELSE "IDLE"
         /\ spi_miso_sample_reg' = miso
BY DEF FlashTypes, SpiEdge, Starts, LoadsData, spi_ctrl_new, Device, Unmoved

\* Select and deselect.
LEMMA SelectEdge ==
  ASSUME FlashTypes, ~spi_csk_reg, spi_ready_reg, spi_ctrl_reg = "IDLE", spi_ss_reg, SpiEdge(EN(1))
  PROVE  /\ spi_ss_reg' = FALSE /\ spi_csk_reg' = FALSE /\ spi_ready_reg' = TRUE /\ spi_ctrl_reg' = "IDLE"
         /\ spi_rx_data_reg' = Bits(0) /\ received' = <<>> /\ shift' = <<>>
         /\ UNCHANGED <<spi_tx_data_reg, spi_bit_ctr_reg, miso, mem, applied, wel, asleep, work>>
         /\ spi_miso_sample_reg' = miso
BY DEF FlashTypes, SpiEdge, EN, Starts, LoadsData, spi_ctrl_new, Device

\* Deselected, the device takes its command.
LEMMA DeselectEdge ==
  ASSUME FlashTypes, ~spi_csk_reg, spi_ready_reg, spi_ctrl_reg = "IDLE", ~spi_ss_reg, SpiEdge(EN(0))
  PROVE  /\ spi_ss_reg' = TRUE /\ spi_csk_reg' = FALSE /\ spi_ready_reg' = TRUE /\ spi_ctrl_reg' = "IDLE"
         /\ UNCHANGED <<spi_tx_data_reg, spi_rx_data_reg, spi_bit_ctr_reg, miso, received, shift, mem, applied>>
         /\ Deselected /\ spi_miso_sample_reg' = miso
BY DEF FlashTypes, SpiEdge, EN, Starts, LoadsData, spi_ctrl_new, Device

\* What does not speak of the line.
LEMMA Frame ==
  ASSUME UNCHANGED <<drivervars, mem, wel, work, asleep, applied>>,
         Place, Progress, Power, Replies, OfPrograms
  PROVE  (Place /\ Progress /\ Power /\ Replies /\ OfPrograms)'
BY DEF Place, Progress, Power, Replies, OfPrograms, Busy, Selected, Current, Written, AtRest, drivervars

-----------------------------------------------------------------------------
(* While the SPI master runs: the line *)

\* The bit on the line is the next one of the byte that was started.
LEMMA PutNext ==
  ASSUME NEW b \in Byte, NEW c \in 0 .. 7, NEW s \in Seq(Bit), Len(s) = c, NEW tx \in Vector,
         \A i \in 1 .. Len(s) : s[i] = Bits(b)[i], \A i \in 1 .. 8 - c : tx[i] = Bits(b)[i + c]
  PROVE  /\ tx[1] \in Bit
         /\ c = 7 => Value(Append(s, tx[1])) = b
         /\ c # 7 => /\ Append(s, tx[1]) \in Seq(Bit) /\ Len(Append(s, tx[1])) = c + 1
                     /\ \A i \in 1 .. c + 1 : Append(s, tx[1])[i] = Bits(b)[i]
<1>1. tx[1] \in Bit
  BY DEF Vector, Bit
<1>2. tx[1] = Bits(b)[c + 1]
  <2>1. 1 \in 1 .. 8 - c /\ 1 + c = c + 1
    OBVIOUS
  <2> QED
    BY <2>1
<1>3. ASSUME c = 7 PROVE Value(Append(s, tx[1])) = b
  <2>1. Len(s) = 7 /\ tx[1] = Bits(b)[8] /\ \A i \in 1 .. 7 : s[i] = Bits(b)[i]
    BY <1>2, <1>3
  <2> QED
    BY <1>1, <2>1, LastBit
<1>4. /\ Append(s, tx[1]) \in Seq(Bit) /\ Len(Append(s, tx[1])) = c + 1
      /\ \A i \in 1 .. c + 1 : Append(s, tx[1])[i] = Bits(b)[i]
  <2> DEFINE x == tx[1]
             a == Append(s, x)
  <2>1. x \in Bit
    BY <1>1
  <2> HIDE DEF x
  <2>2. a \in Seq(Bit) /\ Len(a) = Len(s) + 1 /\ a[Len(s) + 1] = x /\ \A i \in 1 .. Len(s) : a[i] = s[i]
    BY <2>1, AppendIs
  <2> HIDE DEF a
  <2>3. ASSUME NEW i \in 1 .. c + 1 PROVE a[i] = Bits(b)[i]
    <3>1. i = c + 1 \/ i \in 1 .. c
      OBVIOUS
    <3> QED
      BY <1>2, <2>2, <3>1 DEF x
  <2> QED
    BY <2>2, <2>3 DEF a, x
<1> QED
  BY <1>1, <1>3, <1>4

\* Where the SPI master runs, and what stays as it was while it does.
Running == spi_ctrl_reg # "IDLE" /\ UNCHANGED drivervars

\* While it runs the driver waits, and stays where it is.
LEMMA WhileRunning ==
  ASSUME FlashInv, Running
  PROVE  /\ fpc \in {"write", "waitread"} /\ Selected /\ Busy /\ ~spi_ss_reg /\ ~spi_ready_reg
         /\ Started \in Nat \ {0} /\ Current \in TransferTypes /\ Wire(Started) \in Byte
         /\ Started' = Started /\ Current' = Current /\ fpc' = fpc /\ buf' = buf /\ Selected' = Selected
         /\ \A i : Wire(i)' = Wire(i)
         /\ Wire(Started)' = Wire(Started)
<1>1. fpc \in {"write", "waitread"} /\ Started >= 1 /\ ~spi_ready_reg
  BY DEF FlashInv, Master, Running
<1>2. Selected /\ Busy /\ ~spi_ss_reg
  BY <1>1 DEF Selected, Busy, FlashInv, Master
<1>3. Started \in Nat
  BY <1>1 DEF Started, FlashInv, FlashTypes
<1>4. Current \in TransferTypes
  BY <1>2, CurrentIs DEF FlashInv
<1>5. \A j \in Nat \ {0} : Wire(j) \in Byte
  BY <1>4, PutBytes, <1>3
<1>6. Wire(Started) \in Byte
  BY <1>1, <1>3, <1>5
<1>7. Started' = Started /\ Current' = Current /\ fpc' = fpc /\ buf' = buf /\ Selected' = Selected
  BY DEF Running, drivervars, Started, Current, Selected
<1>8. \A i : Wire(i)' = Wire(i)
  BY <1>7 DEF Wire
<1>9. Wire(Started)' = Wire(Started)
  BY <1>7 DEF Wire
<1> QED
  BY <1>1, <1>2, <1>3, <1>4, <1>6, <1>7, <1>8, <1>9

\* What the device answers does not change by a clock edge.
LEMMA SameAnswers ==
  ASSUME FlashInv, Running, Unmoved
  PROVE  /\ \A i : Answered(i)' = Answered(i)
         /\ Answered(Started - 1)' = Answered(Started - 1)
         /\ \A c : OutByte(c)' = OutByte(c)
<1>1. \A c : OutByte(c)' = OutByte(c)
  BY DEF Unmoved, OutByte
<1> QED
  BY <1>1, WhileRunning DEF Answered, Running, drivervars, Unmoved, OutByte, Wire, Current, Started

\* POS_FLANK: the device takes a bit.
LEMMA PosLine ==
  ASSUME FlashInv, Running, spi_ctrl_reg = "POS_FLANK", SpiEdge(Nothing)
  PROVE  FlashTypes' /\ Master' /\ Line'
<1> DEFINE S == Started
           b == Wire(Started)
           c == spi_bit_ctr_reg
           x == spi_tx_data_reg[1]
<1>1. /\ fpc \in {"write", "waitread"} /\ Selected /\ Busy /\ ~spi_ss_reg /\ ~spi_ready_reg
      /\ S \in Nat \ {0} /\ b \in Byte /\ S' = S /\ fpc' = fpc /\ Selected' = Selected
      /\ \A i : Wire(i)' = Wire(i)
      /\ b' = b
  BY WhileRunning
<1>2. FlashTypes /\ ~spi_csk_reg
  BY DEF FlashInv, Master
<1>3. /\ c \in 0 .. 7 /\ spi_tx_data_reg \in Vector /\ shift \in Seq(Bit) /\ received \in Seq(Byte)
  BY <1>2 DEF FlashTypes
<1>4. /\ Len(received) = S - 1 /\ Len(shift) = c
      /\ \A i \in 1 .. Len(received) : received[i] = Wire(i)
      /\ \A i \in 1 .. Len(shift) : shift[i] = Bits(b)[i]
      /\ \A i \in 1 .. 8 - c : spi_tx_data_reg[i] = Bits(b)[i + c]
  BY <1>1 DEF FlashInv, Line
<1>5. /\ Unmoved /\ spi_ctrl_reg' = "NEG_FLANK" /\ spi_csk_reg' = TRUE
      /\ UNCHANGED <<spi_tx_data_reg, spi_rx_data_reg, spi_ready_reg, spi_bit_ctr_reg, miso>>
      /\ spi_miso_sample_reg' = miso
      /\ IF Len(shift) = 7
         THEN received' = Append(received, Value(Append(shift, x))) /\ shift' = <<>>
         ELSE shift' = Append(shift, x) /\ UNCHANGED received
  BY <1>1, <1>2, PosEdge
<1> HIDE DEF S, b, c, x
<1>6. /\ x \in Bit
      /\ c = 7 => Value(Append(shift, x)) = b
      /\ c # 7 => /\ Append(shift, x) \in Seq(Bit) /\ Len(Append(shift, x)) = c + 1
                  /\ \A i \in 1 .. c + 1 : Append(shift, x)[i] = Bits(b)[i]
  <2> DEFINE tx == spi_tx_data_reg
  <2>1. /\ b \in Byte /\ c \in 0 .. 7 /\ shift \in Seq(Bit) /\ Len(shift) = c /\ tx \in Vector
        /\ \A i \in 1 .. Len(shift) : shift[i] = Bits(b)[i]
        /\ \A i \in 1 .. 8 - c : tx[i] = Bits(b)[i + c]
    BY <1>1, <1>3, <1>4
  <2> HIDE DEF tx
  <2>2. /\ tx[1] \in Bit
        /\ c = 7 => Value(Append(shift, tx[1])) = b
        /\ c # 7 => /\ Append(shift, tx[1]) \in Seq(Bit) /\ Len(Append(shift, tx[1])) = c + 1
                    /\ \A i \in 1 .. c + 1 : Append(shift, tx[1])[i] = Bits(b)[i]
    BY <2>1, PutNext
  <2> QED
    BY <2>2 DEF tx, x
<1>7. /\ received' \in Seq(Byte) /\ shift' \in Seq(Bit)
      /\ c = 7 => Len(received') = S /\ shift' = <<>>
      /\ c # 7 => Len(received') = S - 1 /\ Len(shift') = c + 1
      /\ \A i \in 1 .. Len(received') : received'[i] = Wire(i)
      /\ \A i \in 1 .. Len(shift') : shift'[i] = Bits(b)[i]
  <2>1. CASE c = 7
    <3>1. received' = Append(received, b) /\ shift' = <<>>
      BY <1>4, <1>5, <1>6, <2>1
    <3>2. /\ received' \in Seq(Byte) /\ Len(received') = Len(received) + 1
          /\ received'[Len(received) + 1] = b /\ \A i \in 1 .. Len(received) : received'[i] = received[i]
      BY <1>1, <1>3, <3>1, AppendIs
    <3>3. Len(received') = S
      BY <1>1, <1>4, <3>2
    <3>4. ASSUME NEW i \in 1 .. Len(received') PROVE received'[i] = Wire(i)
      <4>1. i = S \/ i \in 1 .. Len(received)
        BY <1>1, <1>4, <3>3
      <4>2. Len(received) + 1 = S
        BY <1>1, <1>4
      <4> QED
        BY <1>4, <3>2, <4>1, <4>2 DEF b, S
    <3> QED
      BY <2>1, <3>1, <3>2, <3>3, <3>4
  <2>2. CASE c # 7
    BY <1>3, <1>4, <1>5, <1>6, <2>2
  <2> QED
    BY <2>1, <2>2
<1>8. FlashTypes'
  BY <1>2, <1>5, <1>7 DEF FlashTypes, Running, drivervars, Unmoved
<1>9. Master'
  BY <1>1, <1>5 DEF FlashInv, Master, Running, Unmoved, S
<1>10. Line'
  <2>1. /\ IF c = 7 THEN Len(received') = S /\ shift' = <<>>
           ELSE Len(received') = S - 1 /\ Len(shift') = c + 1
        /\ c' = c /\ spi_tx_data_reg' = spi_tx_data_reg
    BY <1>5, <1>7 DEF c
  <2> QED
    BY <1>1, <1>4, <1>5, <1>7, <2>1 DEF Line, S, b, c
<1> QED
  BY <1>8, <1>9, <1>10

\* NEG_FLANK: the device puts out a bit, the data register moves.
LEMMA NegLine ==
  ASSUME FlashInv, Running, spi_ctrl_reg = "NEG_FLANK", SpiEdge(Nothing)
  PROVE  FlashTypes' /\ Master' /\ Line'
<1> DEFINE S == Started
           b == Wire(Started)
           c == spi_bit_ctr_reg
<1>1. /\ fpc \in {"write", "waitread"} /\ Selected /\ Busy /\ ~spi_ss_reg /\ ~spi_ready_reg
      /\ S \in Nat \ {0} /\ b \in Byte /\ S' = S /\ fpc' = fpc /\ Selected' = Selected
      /\ \A i : Wire(i)' = Wire(i)
      /\ b' = b
  BY WhileRunning
<1>2. FlashTypes /\ spi_csk_reg
  BY DEF FlashInv, Master
<1>3. /\ c \in 0 .. 7 /\ spi_tx_data_reg \in Vector /\ shift \in Seq(Bit) /\ received \in Seq(Byte)
  BY <1>2 DEF FlashTypes
<1>4. /\ IF c = 7 THEN Len(received) = S /\ shift = <<>>
         ELSE Len(received) = S - 1 /\ Len(shift) = c + 1
      /\ \A i \in 1 .. Len(received) : received[i] = Wire(i)
      /\ \A i \in 1 .. Len(shift) : shift[i] = Bits(b)[i]
      /\ \A i \in 1 .. 8 - c : spi_tx_data_reg[i] = Bits(b)[i + c]
  BY <1>1 DEF FlashInv, Line
<1>5. /\ Unmoved /\ spi_ctrl_reg' = "NEXT" /\ spi_csk_reg' = FALSE
      /\ UNCHANGED <<spi_rx_data_reg, spi_ready_reg, spi_bit_ctr_reg, received, shift>>
      /\ spi_tx_data_reg' = ShiftIn(spi_tx_data_reg, 0)
      /\ spi_miso_sample_reg' = miso
      /\ miso' = Bits(OutByte(received))[Len(shift) + 1]
  BY <1>1, <1>2, NegEdge
<1> HIDE DEF S, b, c
<1>6. Len(shift) + 1 \in 1 .. 8
  <2>1. CASE c = 7
    <3>1. Len(<<>>) = 0
      OBVIOUS
    <3> QED
      BY <1>4, <2>1, <3>1
  <2>2. CASE c # 7
    <3> DEFINE n == Len(shift)
    <3>1. n = c + 1
      BY <1>4, <2>2
    <3> HIDE DEF n
    <3>2. n + 1 \in 1 .. 8
      BY <1>3, <2>2, <3>1
    <3> QED
      BY <3>2 DEF n
  <2> QED
    BY <2>1, <2>2
<1>7. miso' \in {0, 1}
  <2>1. Bits(OutByte(received)) \in Vector
    BY <1>2, <1>3, OutByteIsByte, BitsAreVector
  <2> DEFINE v == Bits(OutByte(received))
             k == Len(shift) + 1
  <2>2. miso' = v[k]
    BY <1>5
  <2> HIDE DEF v, k
  <2>3. v \in Vector /\ k \in 1 .. 8
    BY <1>6, <2>1 DEF v, k
  <2> QED
    BY <2>2, <2>3 DEF Vector
<1>8. /\ spi_tx_data_reg' \in Vector
      /\ \A i \in 1 .. 7 - c : spi_tx_data_reg'[i] = Bits(b)[i + c + 1]
  <2>1. /\ spi_tx_data_reg' \in Vector
        /\ \A i \in 1 .. 7 : spi_tx_data_reg'[i] = spi_tx_data_reg[i + 1]
    BY <1>3, <1>5, ShiftInIs
  <2>2. ASSUME NEW i \in 1 .. 7 - c PROVE spi_tx_data_reg'[i] = Bits(b)[i + c + 1]
    <3>1. i \in 1 .. 7 /\ i + 1 \in 1 .. 8 - c /\ (i + 1) + c = i + c + 1
      BY <1>3
    <3>2. spi_tx_data_reg[i + 1] = Bits(b)[(i + 1) + c]
      BY <1>4, <3>1
    <3> QED
      BY <2>1, <3>1, <3>2
  <2> QED
    BY <2>1, <2>2
<1>9. FlashTypes'
  <2>1. /\ spi_ss_reg' = spi_ss_reg /\ spi_csk_reg' \in BOOLEAN /\ spi_ready_reg' = spi_ready_reg
        /\ spi_tx_data_reg' \in Vector /\ spi_rx_data_reg' = spi_rx_data_reg
        /\ spi_miso_sample_reg' = miso /\ miso' \in {0, 1} /\ spi_bit_ctr_reg' = spi_bit_ctr_reg
        /\ spi_ctrl_reg' = "NEXT"
    BY <1>5, <1>7, <1>8 DEF Unmoved
  <2>2. UNCHANGED <<mem, received, shift, wel, asleep, work, applied, drivervars>>
    BY <1>5 DEF Unmoved, Running
  <2> QED
    BY <1>2, <2>1, <2>2 DEF FlashTypes, drivervars
<1>10. Master'
  BY <1>1, <1>5 DEF FlashInv, Master, Running, Unmoved, S
<1>11. Line'
  <2>1. /\ IF c = 7 THEN Len(received') = S /\ shift' = <<>>
           ELSE Len(received') = S - 1 /\ Len(shift') = c + 1
        /\ c' = c
    BY <1>4, <1>5 DEF c
  <2> QED
    BY <1>1, <1>4, <1>5, <1>8, <2>1 DEF Line, S, b, c
<1> QED
  BY <1>9, <1>10, <1>11

\* NEXT: the receive register takes the sampled bit, the counter goes on.
LEMMA NextLine ==
  ASSUME FlashInv, Running, spi_ctrl_reg = "NEXT", SpiEdge(Nothing)
  PROVE  FlashTypes' /\ Master' /\ Line'
<1> DEFINE S == Started
           b == Wire(Started)
           c == spi_bit_ctr_reg
<1>1. /\ fpc \in {"write", "waitread"} /\ Selected /\ Busy /\ ~spi_ss_reg /\ ~spi_ready_reg
      /\ S \in Nat \ {0} /\ b \in Byte /\ S' = S /\ fpc' = fpc /\ Selected' = Selected
      /\ \A i : Wire(i)' = Wire(i)
      /\ b' = b
  BY WhileRunning
<1>2. FlashTypes /\ ~spi_csk_reg
  BY DEF FlashInv, Master
<1>3. /\ c \in 0 .. 7 /\ spi_rx_data_reg \in Vector /\ spi_miso_sample_reg \in {0, 1}
  BY <1>2 DEF FlashTypes
<1>4. /\ IF c = 7 THEN Len(received) = S /\ shift = <<>>
         ELSE Len(received) = S - 1 /\ Len(shift) = c + 1
      /\ \A i \in 1 .. Len(received) : received[i] = Wire(i)
      /\ \A i \in 1 .. Len(shift) : shift[i] = Bits(b)[i]
      /\ \A i \in 1 .. 7 - c : spi_tx_data_reg[i] = Bits(b)[i + c + 1]
  BY <1>1 DEF FlashInv, Line
<1>5. /\ Unmoved /\ spi_ctrl_reg' = IF c = 7 THEN "IDLE" ELSE "POS_FLANK"
      /\ spi_csk_reg' = FALSE
      /\ UNCHANGED <<spi_tx_data_reg, received, shift, miso>>
      /\ spi_rx_data_reg' = ShiftIn(spi_rx_data_reg, spi_miso_sample_reg)
      /\ spi_ready_reg' = IF c = 7 THEN TRUE ELSE spi_ready_reg
      /\ spi_bit_ctr_reg' = (c + 1) % 8
      /\ spi_miso_sample_reg' = miso
  BY <1>1, <1>2, NextEdge
<1> HIDE DEF S, b, c
<1>6. spi_rx_data_reg' \in Vector /\ spi_bit_ctr_reg' \in 0 .. 7
  BY <1>3, <1>5, ShiftInIs
<1>7. FlashTypes'
  BY <1>2, <1>5, <1>6 DEF FlashTypes, Running, drivervars, Unmoved
<1>8. Master'
  BY <1>1, <1>5 DEF FlashInv, Master, Running, Unmoved, S
<1>9. Line'
  <2>1. CASE c = 7
    BY <1>1, <1>4, <1>5, <2>1 DEF Line, S, b
  <2>2. CASE c # 7
    <3>1. spi_bit_ctr_reg' = c + 1
      BY <1>3, <1>5, <2>2
    <3>2. \A i \in 1 .. 8 - (c + 1) : spi_tx_data_reg'[i] = Bits(b)[i + (c + 1)]
      <4> SUFFICES ASSUME NEW i \in 1 .. 8 - (c + 1)
                   PROVE  spi_tx_data_reg'[i] = Bits(b)[i + (c + 1)]
        OBVIOUS
      <4>1. i \in 1 .. 7 - c /\ i + (c + 1) = i + c + 1
        BY <1>3
      <4> QED
        BY <1>4, <1>5, <4>1
    <3> QED
      BY <1>1, <1>4, <1>5, <2>2, <3>1, <3>2 DEF Line, S, b
  <2> QED
    BY <2>1, <2>2
<1> QED
  BY <1>7, <1>8, <1>9

-----------------------------------------------------------------------------
(* While the SPI master runs: what is read *)

\* The device answers what it has received, which is what was put on the line.
LEMMA ReceivedAnswer ==
  ASSUME FlashInv, Selected
  PROVE  OutByte(received) = Answered(Len(received))
<1> DEFINE n == Len(received)
           f == [j \in 1 .. n |-> Wire(j)]
<1>1. received \in Seq(Byte) /\ \A i \in 1 .. n : received[i] = Wire(i)
  BY DEF FlashInv, FlashTypes, Line
<1>2. n \in Nat
  BY <1>1
<1>3. Current \in TransferTypes
  BY CurrentIs DEF Selected, Busy, FlashInv
<1>4. f \in Seq(Byte) /\ Len(f) = n /\ \A i \in 1 .. n : f[i] = Wire(i)
  <2> HIDE DEF n
  <2> QED
    BY <1>2, <1>3, PutBytes
<1> HIDE DEF f
<1>5. received = f
  BY <1>1, <1>4, SeqEqual
<1> QED
  BY <1>5 DEF Answered, f

\* An answer is a byte.
LEMMA AnswerIsByte ==
  ASSUME FlashInv, Selected, NEW i \in Nat
  PROVE  Answered(i) \in Byte
<1>1. Current \in TransferTypes /\ FlashTypes
  BY CurrentIs DEF Selected, Busy, FlashInv
<1> DEFINE f == [j \in 1 .. i |-> Wire(j)]
<1>2. f \in Seq(Byte)
  BY <1>1, PutBytes
<1> HIDE DEF f
<1>3. OutByte(f) \in Byte
  BY <1>1, <1>2, OutByteIsByte
<1> QED
  BY <1>3 DEF Answered, f

\* A read that is not a poll.
Reading == Selected /\ Current.n > 0 /\ ~Current.poll

\* What Reads says while the SPI master runs, and its next state.
ReadsIn(phase, answer, pending) ==
  /\ phase # "NEG_FLANK" /\ received # <<>> => miso = Bits(OutByte(received))[Len(shift) + 1]
  /\ pending =>
       /\ phase = "NEG_FLANK" => miso = Bits(answer)[spi_bit_ctr_reg + 1]
       /\ phase = "NEXT" => spi_miso_sample_reg = Bits(answer)[spi_bit_ctr_reg + 1]
       /\ phase # "IDLE" =>
            \A i \in 1 .. spi_bit_ctr_reg :
              spi_rx_data_reg[8 - spi_bit_ctr_reg + i] = Bits(answer)[i]
       /\ phase = "IDLE" => spi_rx_data_reg = Bits(answer)

\* Reads is about a read alone: what has been read before stays.
LEMMA RunningReads ==
  ASSUME FlashInv, Running, Unmoved,
         ASSUME Reading, ReadsIn(spi_ctrl_reg, Answered(Started - 1), Started >= 2)
         PROVE  ReadsIn(spi_ctrl_reg, Answered(Started - 1), Started >= 2)'
  PROVE  Reads'
<1> SUFFICES ASSUME Reading' PROVE Reads'
  BY DEF Reads, Reading
<1>1. Current' = Current /\ Selected' = Selected /\ buf' = buf
  BY WhileRunning
<1>2. Reading
  BY <1>1 DEF Reading
<1>3. ReadsIn(spi_ctrl_reg, Answered(Started - 1), Started >= 2)
  BY <1>2 DEF FlashInv, Reads, Reading, ReadsIn
<1>4. ReadsIn(spi_ctrl_reg, Answered(Started - 1), Started >= 2)'
  BY <1>2, <1>3
<1>5. \A i \in 1 .. Len(buf) : buf[i] = Answered(Len(Current.wr) + i - 1)
  BY <1>2 DEF FlashInv, Reads, Reading
<1>6. (\A i \in 1 .. Len(buf) : buf[i] = Answered(Len(Current.wr) + i - 1))'
  <2> SUFFICES ASSUME NEW i \in 1 .. Len(buf)
               PROVE  buf[i] = Answered(Len(Current.wr) + i - 1)'
    BY <1>1
  <2>1. Answered(Len(Current.wr) + i - 1)' = Answered(Len(Current.wr) + i - 1)
    <3>1. \A k : Answered(k)' = Answered(k)
      BY SameAnswers
    <3>2. (Len(Current.wr) + i - 1)' = Len(Current.wr) + i - 1
      BY <1>1
    <3> QED
      BY <3>1, <3>2, <1>1, SameAnswers DEF Answered, OutByte, Wire
  <2> QED
    BY <1>5, <2>1
<1> QED
  BY <1>4, <1>6 DEF Reads, ReadsIn

\* POS_FLANK keeps what is known of a read.
LEMMA PosReads ==
  ASSUME FlashInv, Running, spi_ctrl_reg = "POS_FLANK", SpiEdge(Nothing)
  PROVE  Reads'
<1> DEFINE S == Started
           a == Answered(Started - 1)
           c == spi_bit_ctr_reg
<1>1. Selected /\ ~spi_ss_reg /\ S \in Nat \ {0} /\ S' = S
  BY WhileRunning
<1>2. FlashTypes /\ ~spi_csk_reg
  BY DEF FlashInv, Master
<1>3. Len(received) = S - 1 /\ Len(shift) = c
  BY <1>1 DEF FlashInv, Line
<1>4. /\ Unmoved /\ spi_ctrl_reg' = "NEG_FLANK"
      /\ UNCHANGED <<spi_rx_data_reg, spi_bit_ctr_reg, miso>>
  BY <1>1, <1>2, PosEdge
<1>5. a' = a
  BY <1>4, SameAnswers
<1>6. OutByte(received) = a
  BY <1>1, <1>3, ReceivedAnswer
<1> HIDE DEF S, a, c
<1>7. ASSUME ReadsIn(spi_ctrl_reg, a, S >= 2)
      PROVE  ReadsIn(spi_ctrl_reg, a, S >= 2)'
  <2>1. ASSUME S >= 2 PROVE miso = Bits(a)[c + 1]
    <3>1. received # <<>>
      <4>1. Len(<<>>) = 0
        OBVIOUS
      <4> QED
        BY <1>1, <1>3, <2>1, <4>1
    <3> QED
      BY <1>3, <1>6, <1>7, <3>1 DEF ReadsIn
  <2> QED
    BY <1>1, <1>4, <1>5, <1>7, <2>1 DEF ReadsIn, c
<1> QED
  BY <1>4, <1>7, RunningReads DEF S, a

\* NEG_FLANK: the device puts out the next bit of its answer.
LEMMA NegReads ==
  ASSUME FlashInv, Running, spi_ctrl_reg = "NEG_FLANK", SpiEdge(Nothing)
  PROVE  Reads'
<1> DEFINE S == Started
           a == Answered(Started - 1)
           c == spi_bit_ctr_reg
<1>1. Selected /\ ~spi_ss_reg /\ S \in Nat \ {0} /\ S' = S
  BY WhileRunning
<1>2. FlashTypes /\ spi_csk_reg
  BY DEF FlashInv, Master
<1>4. /\ Unmoved /\ spi_ctrl_reg' = "NEXT"
      /\ UNCHANGED <<spi_rx_data_reg, spi_bit_ctr_reg, received, shift>>
      /\ spi_miso_sample_reg' = miso
      /\ miso' = Bits(OutByte(received))[Len(shift) + 1]
  BY <1>1, <1>2, NegEdge
<1>5. a' = a /\ OutByte(received)' = OutByte(received)
  BY <1>4, SameAnswers DEF OutByte, Unmoved
<1> HIDE DEF S, a, c
<1>7. ASSUME ReadsIn(spi_ctrl_reg, a, S >= 2)
      PROVE  ReadsIn(spi_ctrl_reg, a, S >= 2)'
  BY <1>1, <1>4, <1>5, <1>7 DEF ReadsIn, c
<1> QED
  BY <1>4, <1>7, RunningReads DEF S, a

\* NEXT: the bit sampled before goes into the receive register.
LEMMA NextReads ==
  ASSUME FlashInv, Running, spi_ctrl_reg = "NEXT", SpiEdge(Nothing)
  PROVE  Reads'
<1> DEFINE S == Started
           a == Answered(Started - 1)
           c == spi_bit_ctr_reg
<1>1. Selected /\ ~spi_ss_reg /\ S \in Nat \ {0} /\ S' = S
  BY WhileRunning
<1>2. FlashTypes /\ ~spi_csk_reg
  BY DEF FlashInv, Master
<1>3. c \in 0 .. 7 /\ spi_rx_data_reg \in Vector /\ spi_miso_sample_reg \in {0, 1}
  BY <1>2 DEF FlashTypes
<1>4. /\ Unmoved /\ spi_ctrl_reg' = IF c = 7 THEN "IDLE" ELSE "POS_FLANK"
      /\ UNCHANGED <<received, shift, miso>>
      /\ spi_rx_data_reg' = ShiftIn(spi_rx_data_reg, spi_miso_sample_reg)
      /\ spi_bit_ctr_reg' = (c + 1) % 8
  BY <1>1, <1>2, NextEdge
<1>5. a' = a /\ OutByte(received)' = OutByte(received)
  BY <1>4, SameAnswers DEF OutByte, Unmoved
<1>6. Bits(a) \in Vector
  <2>1. Started - 1 \in Nat
    BY <1>1
  <2> QED
    BY <1>1, <2>1, AnswerIsByte, BitsAreVector
<1> HIDE DEF S, a, c
<1>7. ASSUME ReadsIn(spi_ctrl_reg, a, S >= 2)
      PROVE  ReadsIn(spi_ctrl_reg, a, S >= 2)'
  <2> DEFINE rx == spi_rx_data_reg
             v == Bits(a)
  <2>1. received' # <<>> => miso' = Bits(OutByte(received))'[Len(shift') + 1]
    BY <1>4, <1>5, <1>7 DEF ReadsIn
  <2>2. ASSUME S >= 2
        PROVE  \A j \in 1 .. c + 1 : rx'[7 - c + j] = v[j]
    <3>1. spi_miso_sample_reg = v[c + 1] /\ \A i \in 1 .. c : rx[8 - c + i] = v[i]
      BY <1>7, <2>2 DEF ReadsIn, c
    <3>2. rx'[8] = spi_miso_sample_reg /\ \A i \in 1 .. 7 : rx'[i] = rx[i + 1]
      BY <1>3, <1>4, ShiftInIs
    <3> HIDE DEF rx, v
    <3> SUFFICES ASSUME NEW j \in 1 .. c + 1 PROVE rx'[7 - c + j] = v[j]
      OBVIOUS
    <3>3. CASE j = c + 1
      <4>1. 7 - c + j = 8
        BY <1>3, <3>3
      <4> QED
        BY <3>1, <3>2, <3>3, <4>1
    <3>4. CASE j # c + 1
      <4>1. j \in 1 .. c /\ 7 - c + j \in 1 .. 7 /\ (7 - c + j) + 1 = 8 - c + j
        BY <1>3, <3>4
      <4> QED
        BY <3>1, <3>2, <4>1
    <3> QED
      BY <3>3, <3>4
  <2>3. CASE c = 7
    <3>1. spi_ctrl_reg' = "IDLE"
      BY <1>4, <2>3
    <3>2. ASSUME S >= 2 PROVE rx' = v
      <4>1. \A j \in 1 .. 8 : rx'[j] = v[j]
        <5> SUFFICES ASSUME NEW j \in 1 .. 8 PROVE rx'[j] = v[j]
          OBVIOUS
        <5>1. j \in 1 .. c + 1 /\ 7 - c + j = j
          BY <2>3
        <5> HIDE DEF rx, v
        <5>2. rx'[7 - c + j] = v[j]
          BY <2>2, <3>2, <5>1
        <5> QED
          BY <5>1, <5>2
      <4>2. rx' \in Vector
        BY <1>3, <1>4, ShiftInIs
      <4> QED
        BY <1>6, <4>1, <4>2, SameVector
    <3> QED
      BY <1>1, <1>5, <2>1, <3>1, <3>2 DEF ReadsIn
  <2>4. CASE c # 7
    <3>1. spi_ctrl_reg' = "POS_FLANK" /\ spi_bit_ctr_reg' = c + 1
      BY <1>3, <1>4, <2>4
    <3>2. ASSUME S >= 2 PROVE \A i \in 1 .. c + 1 : rx'[8 - (c + 1) + i] = v[i]
      <4> SUFFICES ASSUME NEW i \in 1 .. c + 1 PROVE rx'[8 - (c + 1) + i] = v[i]
        OBVIOUS
      <4>1. 8 - (c + 1) + i = 7 - c + i
        BY <1>3
      <4> HIDE DEF rx, v
      <4>2. rx'[7 - c + i] = v[i]
        BY <2>2, <3>2
      <4> QED
        BY <4>1, <4>2
    <3> QED
      BY <1>1, <1>5, <2>1, <3>1, <3>2 DEF ReadsIn
  <2> QED
    BY <2>3, <2>4
<1> QED
  BY <1>4, <1>7, RunningReads DEF S, a

-----------------------------------------------------------------------------
(* While the SPI master runs: the busy bit *)

\* A poll is the last of three transfers, and reads the status register.
LEMMA PollIs ==
  ASSUME FlashInv, Busy, Current.poll
  PROVE  /\ Changes(call) /\ nth % 3 = 2 /\ Current = flash_wait_busy
         /\ Current.wr = <<READ_STATUS_REG_1>> /\ Len(Current.wr) = 1 /\ Current.n = 1
<1>1. Changes(call) /\ (nth % 3 = 2 => Current = flash_wait_busy)
  BY CurrentIs DEF FlashInv
<1>2. nth % 3 # 0
  BY <1>1, CurrentIs DEF FlashInv, flash_write_enable, Write
<1>3. nth % 3 # 1
  BY <1>1, CurrentIs DEF FlashInv, Write
<1>4. nth % 3 \in {0, 1, 2}
  BY Thirds DEF FlashInv, FlashTypes
<1>5. Current = flash_wait_busy /\ nth % 3 = 2
  BY <1>1, <1>2, <1>3, <1>4
<1>6. Current.wr = <<READ_STATUS_REG_1>> /\ Current.n = 1
  BY <1>5 DEF flash_wait_busy
<1>7. Len(<<READ_STATUS_REG_1>>) = 1
  OBVIOUS
<1> QED
  BY <1>1, <1>5, <1>6, <1>7

\* The second byte of a poll of a busy device.
Polling == Selected /\ Current.poll /\ Started = 2 /\ work # <<>>

\* What Polls says while the SPI master runs.
PollsIn ==
  /\ spi_ctrl_reg = "NEXT" /\ spi_bit_ctr_reg = 6 => miso = 1
  /\ spi_ctrl_reg \in {"POS_FLANK", "NEG_FLANK"} /\ spi_bit_ctr_reg = 7 => miso = 1
  /\ spi_ctrl_reg = "NEXT" /\ spi_bit_ctr_reg = 7 => spi_miso_sample_reg = 1
  /\ spi_ctrl_reg = "IDLE" => spi_rx_data_reg[8] = 1

\* Polls is about a poll alone.
LEMMA RunningPolls ==
  ASSUME FlashInv, Running, Unmoved,
         ASSUME Polling, PollsIn PROVE PollsIn'
  PROVE  Polls'
<1>1. Current' = Current /\ Selected' = Selected /\ buf' = buf /\ Started' = Started /\ work' = work
  BY WhileRunning DEF Unmoved
<1> SUFFICES ASSUME Polling' PROVE Polls'
  BY DEF Polls, Polling
<1>2. Polling
  BY <1>1 DEF Polling
<1>3. PollsIn /\ (buf # <<>> => buf[1] % 2 = 1)
  BY <1>2 DEF FlashInv, Polls, Polling, PollsIn
<1>4. PollsIn'
  BY <1>2, <1>3
<1> QED
  BY <1>1, <1>3, <1>4 DEF Polls, PollsIn

\* A busy device answers a poll with 1 in the last bit.
LEMMA BusyBit ==
  ASSUME FlashInv, Polling, Len(received) = 1
  PROVE  Bits(OutByte(received))[8] = 1
<1>1. Busy
  BY DEF Polling, Selected, Busy
<1>2. Changes(call) /\ Current.wr = <<READ_STATUS_REG_1>> /\ Len(Current.wr) = 1 /\ Current \in TransferTypes
  BY <1>1, PollIs, CurrentIs DEF Polling, FlashInv
<1>3. received[1] = READ_STATUS_REG_1
  <2>1. received[1] = Wire(1)
    BY DEF FlashInv, Line, Polling
  <2>2. Wire(1) = Current.wr[1]
    BY <1>2, PutBytes
  <2> QED
    BY <1>2, <2>1, <2>2
<1>4. ~asleep
  BY <1>1, <1>2 DEF FlashInv, Power, Changes
<1>5. OutByte(received) = 1 + (IF wel THEN 2 ELSE 0)
  BY <1>3, <1>4 DEF OutByte, Polling
<1>6. OutByte(received) \in {1, 3}
  BY <1>5
<1>7. Bits(1)[8] = 1 /\ Bits(3)[8] = 1
  BY DEF Bits, Weight
<1> QED
  BY <1>6, <1>7

\* POS_FLANK keeps what is known of the busy bit.
LEMMA PosPolls ==
  ASSUME FlashInv, Running, spi_ctrl_reg = "POS_FLANK", SpiEdge(Nothing)
  PROVE  Polls'
<1>1. ~spi_ss_reg /\ FlashTypes /\ ~spi_csk_reg
  BY WhileRunning DEF FlashInv, Master
<1>2. /\ Unmoved /\ spi_ctrl_reg' = "NEG_FLANK" /\ UNCHANGED <<spi_bit_ctr_reg, miso>>
  BY <1>1, PosEdge
<1>3. ASSUME PollsIn PROVE PollsIn'
  BY <1>2, <1>3 DEF PollsIn
<1> QED
  BY <1>2, <1>3, RunningPolls

\* NEG_FLANK: the busy bit is put out after the seven others.
LEMMA NegPolls ==
  ASSUME FlashInv, Running, spi_ctrl_reg = "NEG_FLANK", SpiEdge(Nothing)
  PROVE  Polls'
<1>1. ~spi_ss_reg /\ FlashTypes /\ spi_csk_reg
  BY WhileRunning DEF FlashInv, Master
<1>2. /\ Unmoved /\ spi_ctrl_reg' = "NEXT" /\ spi_bit_ctr_reg' = spi_bit_ctr_reg
      /\ spi_miso_sample_reg' = miso /\ miso' = Bits(OutByte(received))[Len(shift) + 1]
  BY <1>1, NegEdge
<1>3. ASSUME Polling, PollsIn PROVE PollsIn'
  <2>1. ASSUME spi_bit_ctr_reg = 6 PROVE miso' = 1
    <3>1. Len(received) = Started - 1 /\ Len(shift) = spi_bit_ctr_reg + 1
      BY <1>3, <2>1 DEF FlashInv, Line, Polling
    <3>2. Len(received) = 1 /\ Len(shift) = 7
      BY <1>3, <2>1, <3>1 DEF Polling
    <3>3. Bits(OutByte(received))[8] = 1
      BY <1>3, <3>2, BusyBit
    <3> QED
      BY <1>2, <3>2, <3>3
  <2> QED
    BY <1>2, <1>3, <2>1 DEF PollsIn
<1> QED
  BY <1>2, <1>3, RunningPolls

\* NEXT: the busy bit is the last to go into the receive register.
LEMMA NextPolls ==
  ASSUME FlashInv, Running, spi_ctrl_reg = "NEXT", SpiEdge(Nothing)
  PROVE  Polls'
<1>1. ~spi_ss_reg /\ FlashTypes /\ ~spi_csk_reg
  BY WhileRunning DEF FlashInv, Master
<1>2. /\ Unmoved /\ spi_ctrl_reg' = IF spi_bit_ctr_reg = 7 THEN "IDLE" ELSE "POS_FLANK"
      /\ miso' = miso /\ spi_bit_ctr_reg' = (spi_bit_ctr_reg + 1) % 8
      /\ spi_rx_data_reg' = ShiftIn(spi_rx_data_reg, spi_miso_sample_reg)
  BY <1>1, NextEdge
<1>3. spi_rx_data_reg'[8] = spi_miso_sample_reg
  BY <1>1, <1>2, ShiftInIs DEF FlashTypes
<1>4. spi_bit_ctr_reg \in 0 .. 7
  BY <1>1 DEF FlashTypes
<1>5. ASSUME PollsIn PROVE PollsIn'
  <2>1. CASE spi_bit_ctr_reg = 7
    BY <1>2, <1>3, <1>5, <2>1 DEF PollsIn
  <2>2. CASE spi_bit_ctr_reg # 7
    <3>1. spi_bit_ctr_reg' = spi_bit_ctr_reg + 1
      BY <1>2, <1>4, <2>2
    <3> QED
      BY <1>2, <1>4, <1>5, <2>2, <3>1 DEF PollsIn
  <2> QED
    BY <2>1, <2>2
<1> QED
  BY <1>2, <1>5, RunningPolls

\* The SPI master runs.
LEMMA RunningInv ==
  ASSUME FlashInv, Running, SpiEdge(Nothing)
  PROVE  FlashInv'
<1>1. spi_ctrl_reg \in {"POS_FLANK", "NEG_FLANK", "NEXT"} /\ ~spi_ss_reg /\ FlashTypes
      /\ (spi_csk_reg <=> spi_ctrl_reg = "NEG_FLANK")
  BY WhileRunning DEF FlashInv, FlashTypes, Running, Master
<1>2. Unmoved
  BY <1>1, PosEdge, NegEdge, NextEdge
<1>3. (Place /\ Progress /\ Power /\ Replies /\ OfPrograms)'
  BY <1>2, Frame DEF FlashInv, Running, Unmoved
<1>4. FlashTypes' /\ Master' /\ Line' /\ Reads' /\ Polls'
  BY <1>1, PosLine, PosReads, PosPolls, NegLine, NegReads, NegPolls, NextLine, NextReads, NextPolls
<1> QED
  BY <1>3, <1>4 DEF FlashInv

-----------------------------------------------------------------------------
(* The actions of the driver *)

\* The transfer under way, and its bytes, stay the same.
LEMMA SameTransfer ==
  ASSUME UNCHANGED <<call, nth>>
  PROVE  Current' = Current /\ \A i : Wire(i)' = Wire(i)
BY DEF Current, Wire

\* So do the answers of the device.
LEMMA SameAnswer ==
  ASSUME UNCHANGED <<call, nth>>, Unmoved
  PROVE  \A i : Answered(i)' = Answered(i)
BY DEF Answered, OutByte, Wire, Current, Unmoved

\* What has been read so far, when no byte is added to it.
LEMMA SameBytesRead ==
  ASSUME UNCHANGED <<call, nth, buf>>, Unmoved,
         \A i \in 1 .. Len(buf) : buf[i] = Answered(Len(Current.wr) + i - 1)
  PROVE  (\A i \in 1 .. Len(buf) : buf[i] = Answered(Len(Current.wr) + i - 1))'
<1>1. Current' = Current
  BY SameTransfer
<1> SUFFICES ASSUME NEW i \in 1 .. Len(buf)
             PROVE  buf[i] = Answered(Len(Current.wr) + i - 1)'
  OBVIOUS
<1>2. (Len(Current.wr) + i - 1)' = Len(Current.wr) + i - 1
  BY <1>1
<1>3. Answered(Len(Current.wr) + i - 1)' = Answered(Len(Current.wr) + i - 1)
  <2>1. \A k : OutByte(k)' = OutByte(k) /\ Wire(k)' = Wire(k)
    BY SameTransfer DEF OutByte, Unmoved
  <2> QED
    BY <1>1, <1>2, <2>1, SameAnswer DEF Answered, OutByte, Wire
<1> QED
  BY <1>3

\* A step inside of a transfer changes nothing of what the call is about.
LEMMA InsideFrame ==
  ASSUME FlashInv, Selected, Selected', Unmoved, UNCHANGED <<todo, call, nth, results>>
  PROVE  (Progress /\ Power /\ Replies /\ OfPrograms)'
<1>1. fpc \notin {"call", "return"} /\ fpc' \notin {"call", "return"}
  BY DEF Selected
<1> QED
  BY <1>1 DEF FlashInv, Progress, Power, Replies, OfPrograms, Busy, AtRest, Unmoved

\* Selected and idle: the device has received every byte that was started.
LEMMA Resting ==
  ASSUME FlashInv, Selected, spi_ctrl_reg = "IDLE"
  PROVE  /\ FlashTypes /\ ~spi_csk_reg /\ spi_ready_reg /\ ~spi_ss_reg /\ Busy
         /\ Current \in TransferTypes /\ Len(Current.wr) >= 1 /\ Started \in Nat
         /\ put \in Nat /\ buf \in Seq(Byte)
         /\ Len(received) = Started /\ shift = <<>>
<1>1. FlashTypes /\ ~spi_csk_reg /\ spi_ready_reg /\ ~spi_ss_reg /\ Busy
  BY DEF FlashInv, Master, Selected, Busy
<1>2. Current \in TransferTypes /\ Len(Current.wr) >= 1
  BY <1>1, CurrentIs DEF FlashInv
<1>3. put \in Nat /\ buf \in Seq(Byte) /\ Started \in Nat
  BY <1>1 DEF FlashTypes, Started
<1> QED
  BY <1>1, <1>2, <1>3 DEF FlashInv, Line

\* The places in spi_transfer() with the device selected.
Places == {"write", "data", "start", "dummy", "startread", "waitread", "read", "disable"}

\* The CPU leaves the SPI master alone, or loads its data register.
LEMMA RestingStep ==
  ASSUME FlashInv, Selected, spi_ctrl_reg = "IDLE", NEW w, w.reg \in {"none", "data"}, w.val \in Byte,
         SpiEdge(w), UNCHANGED <<todo, call, nth, put, buf, results>>, fpc' \in Places, Place',
         Started' = Started,
         fpc' = "start" => w.reg = "data" /\ w.val = Wire(Started + 1),
         fpc' = "startread" => w.reg = "data" /\ w.val = 0
  PROVE  FlashInv'
<1> DEFINE S == Started
<1>1. /\ FlashTypes /\ ~spi_csk_reg /\ spi_ready_reg /\ ~spi_ss_reg /\ Busy
      /\ S \in Nat /\ S' = S /\ Len(received) = S /\ shift = <<>>
  BY Resting
<1>2. /\ Unmoved /\ spi_csk_reg' = FALSE
      /\ UNCHANGED <<spi_rx_data_reg, received, shift, miso>>
      /\ spi_tx_data_reg' = IF w.reg = "data" THEN Bits(w.val) ELSE spi_tx_data_reg
      /\ spi_ready_reg' = TRUE
      /\ spi_bit_ctr_reg' = spi_bit_ctr_reg
      /\ spi_ctrl_reg' = "IDLE"
      /\ spi_miso_sample_reg' = miso
  BY <1>1, IdleEdge
<1>3. Selected'
  BY DEF Selected, Places
<1>4. Current' = Current /\ (\A i : Wire(i)' = Wire(i)) /\ (\A i : Answered(i)' = Answered(i))
  BY <1>2, SameTransfer, SameAnswer
<1>5. FlashTypes'
  <2>1. Bits(w.val) \in Vector
    BY BitsAreVector
  <2> QED
    BY <1>1, <1>2, <2>1 DEF FlashTypes, Unmoved, Places
<1>6. Master'
  BY <1>1, <1>2, <1>3 DEF FlashInv, Master, Unmoved
<1> HIDE DEF S
<1>7. Line'
  <2>1. \A i \in 1 .. Len(received) : received[i] = Wire(i)
    BY DEF FlashInv, Line
  <2>2. fpc' = "start" => spi_tx_data_reg' = Bits(Wire(Started + 1))'
    <3>1. Wire(Started + 1)' = Wire(Started + 1)
      BY <1>1, <1>4 DEF Wire, S
    <3> QED
      BY <1>2, <3>1
  <2>3. fpc' = "startread" => spi_tx_data_reg' = Bits(0)
    BY <1>2
  <2>4. Len(received') = S' /\ shift' = <<>> /\ Len(shift') = 0
    BY <1>1, <1>2
  <2>5. \A i \in 1 .. Len(received') : received'[i] = Wire(i)'
    BY <1>2, <1>4, <2>1
  <2> QED
    BY <1>2, <2>2, <2>3, <2>4, <2>5 DEF Line, S
<1>8. Reads'
  <2> SUFFICES ASSUME Reading' PROVE Reads'
    BY DEF Reads, Reading
  <2>1. Reading
    BY <1>4 DEF Reading
  <2>2. ReadsIn(spi_ctrl_reg, Answered(Started - 1), Started >= 2)
    BY <2>1 DEF FlashInv, Reads, Reading, ReadsIn
  <2>3. (\A i \in 1 .. Len(buf) : buf[i] = Answered(Len(Current.wr) + i - 1))'
    BY <1>2, <2>1, SameBytesRead DEF FlashInv, Reads, Reading
  <2>4. Answered(Started - 1)' = Answered(Started - 1) /\ OutByte(received)' = OutByte(received)
    BY <1>1, <1>2, <1>4 DEF Answered, OutByte, Wire, Unmoved, S
  <2>5. ReadsIn(spi_ctrl_reg, Answered(Started - 1), Started >= 2)'
    BY <1>1, <1>2, <2>2, <2>4 DEF ReadsIn, S
  <2> QED
    BY <2>3, <2>5 DEF Reads, ReadsIn
<1>9. Polls'
  BY <1>1, <1>2, <1>4 DEF FlashInv, Polls, Unmoved, S
<1>10. (Progress /\ Power /\ Replies /\ OfPrograms)'
  BY <1>2, <1>3, InsideFrame
<1> QED
  BY <1>5, <1>6, <1>7, <1>8, <1>9, <1>10 DEF FlashInv

\* The CPU starts the transfer of a byte.
LEMMA StartingStep ==
  ASSUME FlashInv, fpc \in {"start", "startread"}, SpiEdge(XFER),
         UNCHANGED <<todo, call, nth, buf, results>>, put' \in Nat, fpc' \in {"write", "waitread"}, Place',
         Started' = Started + 1,
         \A i \in 1 .. 8 : spi_tx_data_reg[i] = Bits(Wire(Started + 1))[i]
  PROVE  FlashInv'
<1> DEFINE S == Started
<1>0. Selected /\ spi_ctrl_reg = "IDLE"
  BY DEF Selected, FlashInv, Master, FlashTypes
<1>1. /\ FlashTypes /\ ~spi_csk_reg /\ spi_ready_reg /\ ~spi_ss_reg /\ Busy
      /\ S \in Nat /\ S' = S + 1 /\ Len(received) = S /\ shift = <<>>
  BY <1>0, Resting
<1>2. /\ Unmoved /\ spi_csk_reg' = FALSE
      /\ UNCHANGED <<spi_rx_data_reg, received, shift, miso, spi_tx_data_reg>>
      /\ spi_ready_reg' = FALSE
      /\ spi_bit_ctr_reg' = 0
      /\ spi_ctrl_reg' = "POS_FLANK"
      /\ spi_miso_sample_reg' = miso
  <2>1. XFER.reg = "xfer"
    BY DEF XFER
  <2> QED
    BY <1>0, <1>1, <2>1, IdleEdge
<1>3. Selected'
  BY DEF Selected
<1>4. Current' = Current /\ (\A i : Wire(i)' = Wire(i)) /\ (\A i : Answered(i)' = Answered(i))
  BY <1>2, SameTransfer, SameAnswer
<1>5. FlashTypes'
  <2>1. spi_bit_ctr_reg' \in 0 .. 7 /\ spi_ctrl_reg' \in {"IDLE", "POS_FLANK", "NEG_FLANK", "NEXT"}
        /\ spi_ready_reg' \in BOOLEAN /\ spi_csk_reg' \in BOOLEAN /\ spi_ss_reg' \in BOOLEAN
    <3>1. spi_ready_reg' \in BOOLEAN /\ spi_csk_reg' \in BOOLEAN
      BY <1>2, Zenon
    <3>2. spi_ss_reg' \in BOOLEAN
      BY <1>1, <1>2 DEF Unmoved, FlashTypes
    <3>3. spi_bit_ctr_reg' \in 0 .. 7 /\ spi_ctrl_reg' \in {"IDLE", "POS_FLANK", "NEG_FLANK", "NEXT"}
      BY <1>2
    <3> QED
      BY <3>1, <3>2, <3>3
  <2>2. spi_tx_data_reg' \in Vector /\ spi_rx_data_reg' \in Vector
        /\ spi_miso_sample_reg' \in {0, 1} /\ miso' \in {0, 1}
    BY <1>1, <1>2 DEF FlashTypes
  <2>3. mem' \in [0 .. FlashSize - 1 -> Byte] /\ received' \in Seq(Byte) /\ shift' \in Seq(Bit)
        /\ wel' \in BOOLEAN /\ asleep' \in BOOLEAN /\ work' \in Seq(Byte) /\ applied' \in Nat
    BY <1>1, <1>2 DEF Unmoved, FlashTypes
  <2>4. todo' \in Seq(FlashCalls) /\ call' \in FlashCalls \cup {NoCall} /\ nth' \in Nat /\ buf' \in Seq(Byte)
    BY <1>1 DEF FlashTypes
  <2> QED
    BY <2>1, <2>2, <2>3, <2>4 DEF FlashTypes
<1>6. Master'
  <2>1. Started' >= 1
    BY <1>1
  <2>2. spi_ss_reg' = FALSE /\ Selected' = TRUE
    BY <1>1, <1>2, <1>3 DEF Unmoved, Selected
  <2> QED
    BY <1>2, <2>1, <2>2 DEF Master
<1> HIDE DEF S
<1>7. Line'
  <2>1. \A i \in 1 .. Len(received) : received[i] = Wire(i)
    BY <1>0 DEF FlashInv, Line
  <2>2. Wire(Started)' = Wire(Started + 1)
    BY <1>4 DEF Wire
  <2>3. \A i \in 1 .. 8 : spi_tx_data_reg'[i] = Bits(Wire(Started))'[i + 0]
    BY <1>2, <2>2
  <2>4. Len(received') = S' - 1 /\ Len(shift') = 0 /\ shift' = <<>>
    BY <1>1, <1>2
  <2>5. \A i \in 1 .. Len(received') : received'[i] = Wire(i)'
    BY <1>2, <1>4, <2>1
  <2> QED
    BY <1>2, <2>3, <2>4, <2>5 DEF Line, S
<1>8. Reads'
  <2> SUFFICES ASSUME Reading' PROVE Reads'
    BY DEF Reads, Reading
  <2>1. Reading
    BY <1>0, <1>4 DEF Reading
  <2>2. received # <<>> => miso = Bits(OutByte(received))[Len(shift) + 1]
    BY <1>0, <2>1 DEF FlashInv, Reads, Reading
  <2>3. (\A i \in 1 .. Len(buf) : buf[i] = Answered(Len(Current.wr) + i - 1))'
    BY <1>2, <2>1, SameBytesRead DEF FlashInv, Reads, Reading
  <2>4. OutByte(received)' = OutByte(received)
    BY <1>2 DEF OutByte, Unmoved
  <2>5. received' # <<>> => miso' = Bits(OutByte(received))'[Len(shift') + 1]
    BY <1>2, <2>2, <2>4
  <2> QED
    BY <1>2, <2>3, <2>5 DEF Reads
<1>9. Polls'
  <2> SUFFICES ASSUME Polling' PROVE buf' = <<>>
    BY <1>2 DEF Polls, Polling
  <2>1. Current.n = 1 /\ Len(Current.wr) = 1
    BY <1>1, <1>4, PollIs DEF Polling
  <2>2. CASE fpc = "start"
    BY <2>2 DEF FlashInv, Place
  <2>3. CASE fpc = "startread"
    <3>1. Len(buf) < 1 /\ buf \in Seq(Byte)
      BY <1>1, <2>1, <2>3 DEF FlashInv, Place, FlashTypes
    <3> QED
      BY <3>1, EmptySeq
  <2> QED
    BY <2>2, <2>3
<1>10. (Progress /\ Power /\ Replies /\ OfPrograms)'
  BY <1>0, <1>2, <1>3, InsideFrame
<1> QED
  BY <1>5, <1>6, <1>7, <1>8, <1>9, <1>10 DEF FlashInv

\* The accesses of the CPU.
LEMMA AccessesAre ==
  /\ Nothing.reg = "none" /\ Nothing.val = 0 /\ 0 \in Byte
  /\ \A v : DATA(v).reg = "data" /\ DATA(v).val = v
BY DEF Nothing, DATA, Byte

\* Waiting in spi_write() keeps the invariant.
LEMMA WaitWriteInv ==
  ASSUME FlashInv, WaitWrite
  PROVE  FlashInv'
<1>1. /\ fpc = "write" /\ SpiEdge(Nothing) /\ UNCHANGED <<todo, call, nth, put, buf, results>>
      /\ fpc' = IF ~spi_ready_reg THEN "write"
                ELSE IF ~Written THEN "data" ELSE IF Current.n > 0 THEN "dummy" ELSE "disable"
  BY DEF WaitWrite, Do
<1>2. spi_ready_reg <=> spi_ctrl_reg = "IDLE"
  BY DEF FlashInv, Master
<1>3. CASE ~spi_ready_reg
  BY <1>1, <1>2, <1>3, RunningInv DEF Running, drivervars
<1>4. CASE spi_ready_reg
  <2>0. Selected /\ spi_ctrl_reg = "IDLE"
    BY <1>1, <1>2, <1>4 DEF Selected
  <2>1. /\ buf = <<>> /\ put <= Len(Current.wr) /\ put \in Nat /\ Current \in TransferTypes /\ Busy
        /\ nth < Len(Transfers(call)) /\ call # NoCall
    BY <1>1, <2>0, Resting DEF FlashInv, Place, FlashTypes, Busy
  <2>2. Current' = Current
    BY <1>1, SameTransfer
  <2>3. fpc' \in Places /\ fpc' \in {"data", "dummy", "disable"}
    BY <1>1, <1>4 DEF Places
  <2>4. Started' = Started
    BY <1>1, <2>3 DEF Started
  <2>5. Place'
    <3>1. Len(Current.wr) \in Nat /\ Current.n \in Nat /\ Len(buf) = 0
      BY <2>1 DEF TransferTypes
    <3>2. fpc' = "data" => ~Written
      BY <1>1, <1>4
    <3>3. fpc' = "dummy" => Written /\ Current.n > 0
      BY <1>1, <1>4
    <3>4. fpc' = "disable" => Written /\ ~(Current.n > 0)
      BY <1>1, <1>4
    <3>5. Transfers(call)' = Transfers(call) /\ buf' = <<>> /\ put' = put /\ nth' = nth /\ call' = call
      BY <1>1, <2>1
    <3>6. /\ fpc' = "data" => put < Len(Current.wr)
          /\ fpc' = "dummy" => put = Len(Current.wr) /\ Len(buf) < Current.n
          /\ fpc' = "disable" => put = Len(Current.wr) /\ Len(buf) = Current.n
      BY <2>1, <3>1, <3>2, <3>3, <3>4 DEF Written
    <3>7. put <= Len(Current.wr) /\ Len(buf) <= Current.n
      BY <2>1, <3>1
    <3> HIDE <1>1
    <3> QED
      BY <2>1, <2>2, <2>3, <3>5, <3>6, <3>7 DEF Place, Selected, Busy, Written
  <2>6. fpc' \notin {"start", "startread"}
    BY <2>3
  <2> QED
    BY <1>1, <2>0, <2>3, <2>4, <2>5, <2>6, AccessesAre, RestingStep
<1> QED
  BY <1>3, <1>4

\* Where the driver does not wait, the SPI master is idle.
LEMMA NotWaiting ==
  ASSUME FlashInv, fpc \notin {"write", "waitread"}
  PROVE  spi_ctrl_reg = "IDLE"
BY DEF FlashInv, Master

\* Loading the next byte of the command keeps it.
LEMMA WriteDataInv ==
  ASSUME FlashInv, WriteData
  PROVE  FlashInv'
<1> DEFINE w == DATA(Current.wr[put + 1])
<1>1. /\ fpc = "data" /\ fpc' = "start" /\ SpiEdge(w)
      /\ UNCHANGED <<todo, call, nth, put, buf, results>>
  BY DEF WriteData, Do
<1>2. Selected /\ spi_ctrl_reg = "IDLE" /\ Current' = Current
  BY <1>1, NotWaiting, SameTransfer DEF Selected
<1>3. /\ buf = <<>> /\ put < Len(Current.wr) /\ put \in Nat /\ Current \in TransferTypes /\ Started \in Nat
  BY <1>1, <1>2, Resting DEF FlashInv, Place
<1>4. Started = put /\ Started' = put
  <2>1. Len(buf) = 0
    BY <1>3
  <2> QED
    BY <1>1, <1>3, <2>1 DEF Started
<1>5. put + 1 \in 1 .. Len(Current.wr) /\ Len(Current.wr) \in Nat
  BY <1>3 DEF TransferTypes
<1>6. Wire(Started + 1) = Current.wr[put + 1] /\ Current.wr[put + 1] \in Byte
  <2>1. Wire(put + 1) = Current.wr[put + 1]
    BY <1>3, <1>5, PutBytes
  <2>2. Wire(put + 1) \in Byte
    BY <1>3, PutBytes
  <2> QED
    BY <1>4, <2>1, <2>2
<1>7. w.reg = "data" /\ w.val = Wire(Started + 1) /\ w.val \in Byte
  BY <1>6, AccessesAre
<1> HIDE DEF w
<1>8. Place'
  BY <1>1, <1>2, <1>3 DEF FlashInv, Place, Selected, Busy, Written
<1>9. fpc' \in Places /\ fpc' # "startread"
  BY <1>1 DEF Places
<1> QED
  BY <1>1, <1>2, <1>4, <1>7, <1>8, <1>9, RestingStep

\* Starting its transfer keeps it.
LEMMA StartWriteInv ==
  ASSUME FlashInv, StartWrite
  PROVE  FlashInv'
<1>1. /\ fpc = "start" /\ fpc' = "write" /\ SpiEdge(XFER) /\ put' = put + 1
      /\ UNCHANGED <<todo, call, nth, buf, results>>
  BY DEF StartWrite, Do
<1>2. Selected /\ spi_ctrl_reg = "IDLE" /\ Current' = Current
  BY <1>1, NotWaiting, SameTransfer DEF Selected
<1>3. /\ buf = <<>> /\ put < Len(Current.wr) /\ put \in Nat /\ Current \in TransferTypes
      /\ Len(Current.wr) \in Nat /\ Current.n \in Nat
  BY <1>1, <1>2, Resting DEF FlashInv, Place, TransferTypes
<1>4. Started' = Started + 1
  <2>1. Len(buf) = 0
    BY <1>3
  <2> QED
    BY <1>1, <1>3, <2>1 DEF Started
<1>5. spi_tx_data_reg = Bits(Wire(Started + 1))
  BY <1>1, <1>2 DEF FlashInv, Line
<1>6. \A i \in 1 .. 8 : spi_tx_data_reg[i] = Bits(Wire(Started + 1))[i]
  BY <1>5, Zenon
<1>7. Place'
  <2>1. put' <= Len(Current.wr)' /\ Len(buf') <= Current.n /\ buf' = <<>>
    BY <1>1, <1>2, <1>3
  <2> HIDE <1>5
  <2> QED
    BY <1>1, <1>2, <2>1 DEF FlashInv, Place, Selected, Busy, Written
<1>8. put' \in Nat
  BY <1>1, <1>3
<1>9. fpc' \in {"write", "waitread"} /\ fpc \in {"start", "startread"}
  BY <1>1
<1> QED
  BY <1>1, <1>4, <1>6, <1>7, <1>8, <1>9, StartingStep

\* Loading the zero of a read keeps it.
LEMMA DummyDataInv ==
  ASSUME FlashInv, DummyData
  PROVE  FlashInv'
<1>1. /\ fpc = "dummy" /\ fpc' = "startread" /\ SpiEdge(DATA(0))
      /\ UNCHANGED <<todo, call, nth, put, buf, results>>
  BY DEF DummyData, Do
<1>2. Selected /\ spi_ctrl_reg = "IDLE" /\ Current' = Current
  BY <1>1, NotWaiting, SameTransfer DEF Selected
<1>3. Started' = Started
  BY <1>1 DEF Started
<1>4. Place'
  BY <1>1, <1>2 DEF FlashInv, Place, Selected, Busy, Written
<1>5. fpc' \in Places /\ fpc' # "start"
  BY <1>1 DEF Places
<1>6. DATA(0).reg = "data" /\ DATA(0).val = 0 /\ 0 \in Byte
  BY AccessesAre
<1> QED
  BY <1>1, <1>2, <1>3, <1>4, <1>5, <1>6, RestingStep

\* Starting its transfer keeps it.
LEMMA StartReadInv ==
  ASSUME FlashInv, StartRead
  PROVE  FlashInv'
<1>1. /\ fpc = "startread" /\ fpc' = "waitread" /\ SpiEdge(XFER)
      /\ UNCHANGED <<todo, call, nth, put, buf, results>>
  BY DEF StartRead, Do
<1>2. Selected /\ spi_ctrl_reg = "IDLE" /\ Current' = Current
  BY <1>1, NotWaiting, SameTransfer DEF Selected
<1>3. /\ put \in Nat /\ Current \in TransferTypes /\ Started \in Nat /\ Len(Current.wr) \in Nat
      /\ put = Len(Current.wr) /\ Len(buf) \in Nat
  BY <1>1, <1>2, Resting DEF FlashInv, Place, TransferTypes, Written
<1>4. Started = put + Len(buf) /\ Started' = Started + 1
  <2> DEFINE n == Len(buf)
  <2>1. n \in Nat /\ n' = n
    BY <1>1, <1>3
  <2> HIDE DEF n
  <2>2. put + n + 0 = put + n /\ put + n + 1 = (put + n) + 1
    BY <1>3, <2>1
  <2>3. Started = put + n + 0 /\ Started' = put + n + 1
    BY <1>1, <2>1 DEF Started, n
  <2> QED
    BY <2>2, <2>3 DEF n
<1>5. Wire(Started + 1) = 0
  <2>1. ~(Started + 1 <= Len(Current.wr))
    BY <1>3, <1>4
  <2> QED
    BY <2>1 DEF Wire
<1>6. \A i \in 1 .. 8 : spi_tx_data_reg[i] = Bits(Wire(Started + 1))[i]
  <2>1. spi_tx_data_reg = Bits(0)
    BY <1>1, <1>2 DEF FlashInv, Line
  <2> QED
    BY <1>5, <2>1, Zenon
<1>7. Place'
  BY <1>1, <1>2 DEF FlashInv, Place, Selected, Busy, Written
<1>8. put' \in Nat
  BY <1>1, <1>3
<1>9. fpc' \in {"write", "waitread"} /\ fpc \in {"start", "startread"}
  BY <1>1
<1> QED
  BY <1>1, <1>4, <1>6, <1>7, <1>8, <1>9, StartingStep

\* Waiting in spi_read() keeps it.
LEMMA WaitReadInv ==
  ASSUME FlashInv, WaitRead
  PROVE  FlashInv'
<1>1. /\ fpc = "waitread" /\ SpiEdge(Nothing) /\ UNCHANGED <<todo, call, nth, put, buf, results>>
      /\ fpc' = IF spi_ready_reg THEN "read" ELSE "waitread"
  BY DEF WaitRead, Do
<1>2. spi_ready_reg <=> spi_ctrl_reg = "IDLE"
  BY DEF FlashInv, Master
<1>3. CASE ~spi_ready_reg
  BY <1>1, <1>2, <1>3, RunningInv DEF Running, drivervars
<1>4. CASE spi_ready_reg
  <2>0. Selected /\ spi_ctrl_reg = "IDLE" /\ fpc' = "read"
    BY <1>1, <1>2, <1>4 DEF Selected
  <2>1. Current' = Current
    BY <1>1, SameTransfer
  <2>2. Started' = Started
    BY <1>1, <2>0 DEF Started
  <2>3. Place'
    BY <1>1, <2>0, <2>1 DEF FlashInv, Place, Selected, Busy, Written
  <2>4. fpc' \in Places /\ fpc' \notin {"start", "startread"}
    BY <2>0 DEF Places
  <2> QED
    BY <1>1, <2>0, <2>2, <2>3, <2>4, AccessesAre, RestingStep
<1> QED
  BY <1>3, <1>4

\* Outside of a transfer nothing is said of the line.
LEMMA NotSelected ==
  ASSUME ~Selected
  PROVE  Line /\ Reads /\ Polls
BY DEF Line, Reads, Polls

\* The receive register holds the whole answer when the driver takes it.
LEMMA ReadDataInv ==
  ASSUME FlashInv, ReadData
  PROVE  FlashInv'
<1> DEFINE S == Started
           x == Value(spi_rx_data_reg)
           n == Len(buf)
<1>1. /\ fpc = "read" /\ SpiEdge(Nothing) /\ UNCHANGED <<todo, call, nth, put, results>>
      /\ fpc' = IF Len(buf) + 1 < Current.n THEN "dummy" ELSE "disable"
      /\ buf' = Append(buf, x)
  BY DEF ReadData, Do
<1>2. Selected /\ spi_ctrl_reg = "IDLE"
  BY <1>1, NotWaiting DEF Selected
<1>3. /\ FlashTypes /\ ~spi_csk_reg /\ spi_ready_reg /\ ~spi_ss_reg /\ Busy
      /\ S \in Nat /\ Len(received) = S /\ shift = <<>>
      /\ Current \in TransferTypes /\ Len(Current.wr) >= 1 /\ buf \in Seq(Byte) /\ put \in Nat
  BY <1>2, Resting
<1>4. /\ Unmoved /\ spi_csk_reg' = FALSE
      /\ UNCHANGED <<spi_rx_data_reg, received, shift, miso, spi_tx_data_reg, spi_bit_ctr_reg>>
      /\ spi_ready_reg' = TRUE /\ spi_ctrl_reg' = "IDLE"
      /\ spi_miso_sample_reg' = miso
  <2>1. Nothing.reg = "none"
    BY AccessesAre
  <2> QED
    BY <1>1, <1>2, <1>3, <2>1, IdleEdge
<1>5. Selected' /\ fpc' \in {"dummy", "disable"}
  BY <1>1 DEF Selected
<1>6. Current' = Current /\ (\A i : Wire(i)' = Wire(i)) /\ (\A i : Answered(i)' = Answered(i))
  BY <1>1, <1>4, SameTransfer, SameAnswer
<1>7. put = Len(Current.wr) /\ n < Current.n /\ Current.n \in Nat /\ n \in Nat /\ Len(Current.wr) \in Nat
  BY <1>1, <1>3 DEF FlashInv, Place, Written, TransferTypes
<1>8. x \in Byte /\ x % 2 = spi_rx_data_reg[8]
  BY <1>3, VectorIsByte DEF FlashTypes
<1>9. buf' \in Seq(Byte) /\ Len(buf') = n + 1 /\ buf'[n + 1] = x /\ \A i \in 1 .. n : buf'[i] = buf[i]
  <2> HIDE DEF x
  <2> QED
    BY <1>1, <1>3, <1>8, AppendIs
<1>10. S = put + n + 1 /\ S' = S
  <2>1. S = put + n + 1
    BY <1>1 DEF Started
  <2>2. S' = put + (n + 1) + 0
    BY <1>1, <1>5, <1>9 DEF Started
  <2> HIDE DEF S, n
  <2>3. put + (n + 1) + 0 = put + n + 1
    <3>1. put \in Nat /\ n \in Nat
      BY <1>3, <1>7
    <3> QED
      BY <3>1
  <2> QED
    BY <2>1, <2>2, <2>3
<1> HIDE DEF S, x, n
<1>11. FlashTypes'
  <2>1. spi_ready_reg' \in BOOLEAN /\ spi_csk_reg' \in BOOLEAN
    BY <1>4, Zenon
  <2>2. spi_ss_reg' \in BOOLEAN /\ spi_bit_ctr_reg' \in 0 .. 7
        /\ spi_ctrl_reg' \in {"IDLE", "POS_FLANK", "NEG_FLANK", "NEXT"}
    BY <1>3, <1>4 DEF Unmoved, FlashTypes
  <2>3. spi_tx_data_reg' \in Vector /\ spi_rx_data_reg' \in Vector
        /\ spi_miso_sample_reg' \in {0, 1} /\ miso' \in {0, 1}
    BY <1>3, <1>4 DEF FlashTypes
  <2>4. mem' \in [0 .. FlashSize - 1 -> Byte] /\ received' \in Seq(Byte) /\ shift' \in Seq(Bit)
        /\ wel' \in BOOLEAN /\ asleep' \in BOOLEAN /\ work' \in Seq(Byte) /\ applied' \in Nat
    BY <1>3, <1>4 DEF Unmoved, FlashTypes
  <2>5. todo' \in Seq(FlashCalls) /\ call' \in FlashCalls \cup {NoCall} /\ nth' \in Nat /\ put' \in Nat
    BY <1>1, <1>3 DEF FlashTypes
  <2> QED
    BY <1>5, <1>9, <2>1, <2>2, <2>3, <2>4, <2>5 DEF FlashTypes
<1>12. Place'
  <2>1. fpc' = "dummy" => n + 1 < Current.n
    BY <1>1 DEF n
  <2>2. fpc' = "disable" => n + 1 = Current.n
    <3>1. fpc' = "disable" => ~(n + 1 < Current.n)
      BY <1>1 DEF n
    <3> QED
      BY <1>7, <3>1
  <2>3. n + 1 <= Current.n /\ put' = Len(Current.wr)'
    BY <1>1, <1>6, <1>7
  <2>4. call # NoCall /\ nth < Len(Transfers(call))
    BY <1>1, <1>3 DEF FlashInv, Place
  <2>5. call' = call /\ nth' = nth /\ put' <= Len(Current.wr)'
    BY <1>1, <1>6, <1>7
  <2> QED
    BY <1>5, <1>6, <1>9, <2>1, <2>2, <2>3, <2>4, <2>5 DEF Place, Selected, Busy, Written
<1>13. Master'
  <2>1. spi_ss_reg' = FALSE /\ Selected' = TRUE
    BY <1>3, <1>4, <1>5 DEF Unmoved, Selected
  <2> QED
    BY <1>4, <2>1 DEF Master
<1>14. Line'
  <2>1. \A i \in 1 .. Len(received) : received[i] = Wire(i)
    BY <1>2 DEF FlashInv, Line
  <2>2. Len(received') = S' /\ shift' = <<>> /\ Len(shift') = 0
    BY <1>3, <1>4, <1>10
  <2>3. \A i \in 1 .. Len(received') : received'[i] = Wire(i)'
    BY <1>4, <1>6, <2>1
  <2> QED
    BY <1>4, <1>5, <2>2, <2>3 DEF Line, S
<1>15. Reads'
  <2> SUFFICES ASSUME Reading' PROVE Reads'
    BY DEF Reads, Reading
  <2>1. Reading
    BY <1>2, <1>6 DEF Reading
  <2>2. /\ ReadsIn(spi_ctrl_reg, Answered(Started - 1), Started >= 2)
        /\ \A i \in 1 .. n : buf[i] = Answered(Len(Current.wr) + i - 1)
    BY <2>1 DEF FlashInv, Reads, Reading, ReadsIn, n
  <2>4. Answered(Started - 1)' = Answered(Started - 1) /\ OutByte(received)' = OutByte(received)
    BY <1>4, <1>6, <1>10 DEF Answered, OutByte, Wire, Unmoved, S
  <2>5. ReadsIn(spi_ctrl_reg, Answered(Started - 1), Started >= 2)'
    BY <1>2, <1>4, <1>10, <2>2, <2>4 DEF ReadsIn, S
  <2>6. (\A i \in 1 .. Len(buf) : buf[i] = Answered(Len(Current.wr) + i - 1))'
    <3> SUFFICES ASSUME NEW i \in 1 .. n + 1
                 PROVE  buf'[i] = Answered(Len(Current.wr) + i - 1)'
      BY <1>9
    <3>1. (Len(Current.wr) + i - 1)' = Len(Current.wr) + i - 1
      BY <1>6
    <3>2. Answered(Len(Current.wr) + i - 1)' = Answered(Len(Current.wr) + i - 1)
      <4>1. \A k : OutByte(k)' = OutByte(k) /\ Wire(k)' = Wire(k)
        BY <1>4, <1>6 DEF OutByte, Unmoved
      <4> QED
        BY <1>6, <3>1, <4>1 DEF Answered, OutByte, Wire
    <3>3. CASE i \in 1 .. n
      BY <1>9, <2>2, <3>2, <3>3
    <3>4. CASE i = n + 1
      <4>1. Len(Current.wr) + i - 1 = S - 1 /\ S - 1 \in Nat /\ S >= 2
        BY <1>3, <1>7, <1>10, <3>4
      <4>2. spi_rx_data_reg = Bits(Answered(S - 1))
        BY <1>2, <2>2, <4>1 DEF ReadsIn, S
      <4>3. Answered(S - 1) \in Byte
        BY <1>2, <4>1, AnswerIsByte
      <4>4. x = Answered(S - 1)
        BY <4>2, <4>3, ValueOfBits DEF x
      <4> QED
        BY <1>9, <3>2, <3>4, <4>1, <4>4
    <3>5. i \in 1 .. n \/ i = n + 1
      BY <1>7
    <3> QED
      BY <3>3, <3>4, <3>5
  <2> QED
    BY <2>5, <2>6 DEF Reads, ReadsIn
<1>16. Polls'
  <2> SUFFICES ASSUME Polling' PROVE Polls'
    BY DEF Polls, Polling
  <2>1. Polling
    BY <1>2, <1>4, <1>6, <1>10 DEF Polling, Unmoved, S
  <2>2. spi_rx_data_reg[8] = 1
    BY <1>2, <2>1 DEF FlashInv, Polls, Polling
  <2>3. Current.n = 1
    BY <1>3, <2>1, PollIs DEF Polling
  <2>4. n = 0
    BY <1>7, <2>3
  <2>5. buf'[1] % 2 = 1
    BY <1>8, <1>9, <2>2, <2>4
  <2> QED
    BY <1>4, <2>2, <2>5 DEF Polls
<1>17. (Progress /\ Power /\ Replies /\ OfPrograms)'
  BY <1>1, <1>2, <1>4, <1>5, InsideFrame
<1> QED
  BY <1>11, <1>12, <1>13, <1>14, <1>15, <1>16, <1>17 DEF FlashInv

\* spi_enable() finds the SPI master idle and the device deselected.
LEMMA EnableInv ==
  ASSUME FlashInv, spi_enable
  PROVE  FlashInv'
<1>1. /\ fpc = "enable" /\ fpc' = "write" /\ SpiEdge(EN(1)) /\ put' = 0 /\ buf' = <<>>
      /\ UNCHANGED <<todo, call, nth, results>>
  BY DEF spi_enable, Do
<1>2. FlashTypes /\ spi_ctrl_reg = "IDLE" /\ ~spi_csk_reg /\ spi_ready_reg /\ spi_ss_reg /\ Busy
  BY <1>1, NotWaiting DEF FlashInv, Master, Selected, Busy
<1>3. /\ spi_ss_reg' = FALSE /\ spi_csk_reg' = FALSE /\ spi_ready_reg' = TRUE /\ spi_ctrl_reg' = "IDLE"
      /\ spi_rx_data_reg' = Bits(0) /\ received' = <<>> /\ shift' = <<>>
      /\ UNCHANGED <<spi_tx_data_reg, spi_bit_ctr_reg, miso, mem, applied, wel, asleep, work>>
      /\ spi_miso_sample_reg' = miso
  BY <1>1, <1>2, SelectEdge
<1>4. Current' = Current /\ Current \in TransferTypes /\ Selected'
  BY <1>1, <1>2, SameTransfer, CurrentIs DEF Selected, FlashInv
<1>5. Len(<<>>) = 0 /\ <<>> \in Seq(Byte) /\ <<>> \in Seq(Bit)
  OBVIOUS
<1>6. Started' = 0
  BY <1>1, <1>5 DEF Started
<1>7. FlashTypes'
  <2>1. Bits(0) \in Vector
    BY BitsAreVector, AccessesAre
  <2>2. spi_ready_reg' \in BOOLEAN /\ spi_csk_reg' \in BOOLEAN /\ spi_ss_reg' \in BOOLEAN
    BY <1>3, Zenon
  <2>3. spi_bit_ctr_reg' \in 0 .. 7 /\ spi_ctrl_reg' \in {"IDLE", "POS_FLANK", "NEG_FLANK", "NEXT"}
    BY <1>2, <1>3 DEF FlashTypes
  <2>4. mem' \in [0 .. FlashSize - 1 -> Byte] /\ received' \in Seq(Byte) /\ shift' \in Seq(Bit)
        /\ wel' \in BOOLEAN /\ asleep' \in BOOLEAN /\ work' \in Seq(Byte) /\ applied' \in Nat
    BY <1>2, <1>3, <1>5 DEF FlashTypes
  <2>5. todo' \in Seq(FlashCalls) /\ call' \in FlashCalls \cup {NoCall} /\ nth' \in Nat /\ put' \in Nat
        /\ buf' \in Seq(Byte)
    BY <1>1, <1>2, <1>5 DEF FlashTypes
  <2>6. spi_tx_data_reg' \in Vector /\ spi_rx_data_reg' \in Vector
        /\ spi_miso_sample_reg' \in {0, 1} /\ miso' \in {0, 1}
    BY <1>2, <1>3, <2>1 DEF FlashTypes
  <2> QED
    BY <1>1, <2>2, <2>3, <2>4, <2>5, <2>6 DEF FlashTypes
<1>8. Place'
  <2>1. put' <= Len(Current.wr)' /\ Len(buf') <= Current.n'
    BY <1>1, <1>4, <1>5 DEF TransferTypes
  <2> QED
    BY <1>1, <1>2, <1>4, <2>1 DEF FlashInv, Place, Selected, Busy, Written
<1>9. Master'
  <2>1. Selected' = TRUE
    BY <1>1 DEF Selected
  <2> QED
    BY <1>3, <2>1 DEF Master
<1>10. Line'
  <2>1. Len(received') = Started' /\ Len(shift') = 0
    BY <1>3, <1>5, <1>6
  <2> QED
    BY <1>1, <1>3, <1>5, <2>1 DEF Line
<1>11. Reads'
  BY <1>1, <1>3, <1>5, <1>6 DEF Reads
<1>12. Polls'
  BY <1>6 DEF Polls
<1>13. (Progress /\ Power /\ Replies /\ OfPrograms)'
  <2>1. fpc \notin {"call", "return"} /\ fpc' \notin {"call", "return"}
    BY <1>1
  <2> HIDE <1>1
  <2>2. UNCHANGED <<todo, call, nth, results>>
    BY <1>1
  <2> QED
    BY <1>3, <2>1, <2>2 DEF FlashInv, Progress, Power, Replies, OfPrograms, Busy, AtRest
<1> QED
  BY <1>7, <1>8, <1>9, <1>10, <1>11, <1>12, <1>13 DEF FlashInv

\* The device is busy only while the driver polls it.
LEMMA WorkIs ==
  ASSUME FlashInv, work # <<>>
  PROVE  /\ Changes(call) /\ call \in FlashCalls /\ Busy /\ nth % 3 = 2 /\ nth \in Nat
         /\ nth < Len(Transfers(call)) /\ Current.poll
         /\ work = Transfers(call)[nth].wr /\ applied = nth \div 3
         /\ Means(call, nth \div 3 + 1, work) /\ nth \div 3 + 1 \in 1 .. CallPieces(call)
<1>1. fpc # "call" /\ Changes(call)
  BY DEF FlashInv, Progress, AtRest
<1>2. call \in FlashCalls /\ nth \in Nat
  BY <1>1 DEF FlashInv, FlashTypes, Place
<1>3. nth % 3 = 2
  BY <1>1, <1>2, Thirds DEF FlashInv, Progress, AtRest
<1>4. work = Transfers(call)[nth].wr /\ applied = nth \div 3
  BY <1>1, <1>3 DEF FlashInv, Progress, AtRest
<1> DEFINE N == CallPieces(call)
           L == Len(Transfers(call))
<1>5. N \in Nat /\ L = 3 * N
  BY <1>1, <1>2, ChangingShape
<1>6. (fpc = "return" => nth = L) /\ (Busy => nth < L)
  BY DEF FlashInv, Place
<1> HIDE DEF N, L
<1>7. fpc # "return"
  <2> SUFFICES ASSUME nth = 3 * N PROVE FALSE
    BY <1>5, <1>6
  <2> QED
    BY <1>3, <1>5
<1>8. Busy /\ nth < L
  BY <1>1, <1>6, <1>7 DEF Busy
<1>9. Current.poll
  <2>1. Current = flash_wait_busy
    BY <1>1, <1>3, <1>8, CurrentIs DEF FlashInv
  <2> QED
    BY <2>1 DEF flash_wait_busy
<1> DEFINE k == nth - 1
<1>10. k \in 0 .. L - 1 /\ k + 1 = nth /\ k % 3 = 1 /\ k \div 3 = nth \div 3 /\ nth \div 3 + 1 \in 1 .. N
  BY <1>2, <1>3, <1>5, <1>8
<1> HIDE DEF k
<1>11. PICK cmd : Transfers(call)[k + 1] = Write(cmd) /\ Means(call, k \div 3 + 1, cmd)
  BY <1>1, <1>2, <1>10, ChangingShape DEF L
<1>12. work = cmd
  BY <1>4, <1>10, <1>11 DEF Write
<1> QED
  BY <1>1, <1>2, <1>3, <1>4, <1>8, <1>9, <1>10, <1>11, <1>12 DEF N, L

\* The device finishes: one more piece of the call is done, the one meant.
LEMMA CompleteInv ==
  ASSUME FlashInv, Complete
  PROVE  FlashInv' /\ call # NoCall /\ applied < CallPieces(call)
         /\ mem' = CallPiece(call, applied + 1, mem) /\ applied' = applied + 1
<1>1. /\ work # <<>> /\ mem' = Executed(mem, work) /\ work' = <<>> /\ wel' = FALSE
      /\ applied' = applied + 1
      /\ UNCHANGED <<mastervars, received, shift, miso, asleep, drivervars>>
  BY DEF Complete
<1>2. /\ Changes(call) /\ call \in FlashCalls /\ Busy /\ nth % 3 = 2 /\ nth \in Nat
      /\ nth < Len(Transfers(call)) /\ Current.poll
      /\ applied = nth \div 3
      /\ Means(call, nth \div 3 + 1, work) /\ nth \div 3 + 1 \in 1 .. CallPieces(call)
  BY <1>1, WorkIs
<1>3. mem \in Memory /\ applied \in Nat
  BY DEF FlashInv, FlashTypes, Memory
<1>4. mem' = CallPiece(call, applied + 1, mem) /\ mem' \in Memory
  BY <1>1, <1>2, <1>3 DEF Means
<1>5. applied < CallPieces(call)
  <2>1. CallPieces(call) \in Nat
    BY <1>2, ChangingShape
  <2> QED
    BY <1>2, <1>3, <2>1
<1>6. call # NoCall
  BY <1>2, ProgramsAssumption
<1>7. FlashTypes'
  <2>1. work' \in Seq(Byte) /\ wel' \in BOOLEAN
    BY <1>1, EmptySeq
  <2>2. applied' \in Nat
    BY <1>1, <1>3
  <2>3. mem' \in [0 .. FlashSize - 1 -> Byte]
    BY <1>4 DEF Memory
  <2>4. UNCHANGED <<mastervars, received, shift, miso, asleep, drivervars>>
    BY <1>1
  <2> QED
    BY <2>1, <2>2, <2>3, <2>4 DEF FlashInv, FlashTypes, mastervars, drivervars
<1>8. (Place /\ Master /\ Line)'
  <2>1. UNCHANGED <<mastervars, received, shift, drivervars>>
    BY <1>1
  <2> QED
    BY <2>1 DEF FlashInv, Place, Master, Line, Selected, Busy, Written, Current, Started, Wire,
                mastervars, drivervars
<1>9. Current' = Current /\ fpc' = fpc
  BY <1>1 DEF Current, drivervars
<1>10. Reads'
  BY <1>2, <1>9 DEF Reads
<1>11. Polls'
  BY <1>1 DEF Polls
<1>12. (Progress /\ Power /\ Replies /\ OfPrograms)'
  <2>1. fpc \notin {"call", "return"}
    BY <1>2 DEF Busy
  <2>2. UNCHANGED <<todo, call, nth, fpc, results, asleep>>
    BY <1>1 DEF drivervars
  <2>3. Progress'
    <3>1. AtRest(nth \div 3 + 1)'
      BY <1>1, <1>2, <2>2 DEF AtRest
    <3> QED
      BY <1>2, <2>1, <2>2, <3>1 DEF Progress
  <2>4. Power' /\ OfPrograms'
    BY <2>2 DEF FlashInv, Power, OfPrograms, Busy
  <2>5. Replies'
    BY <1>2, <2>2 DEF FlashInv, Replies
  <2> QED
    BY <2>3, <2>4, <2>5
<1> QED
  BY <1>1, <1>4, <1>5, <1>6, <1>7, <1>8, <1>10, <1>11, <1>12 DEF FlashInv

\* A call has been made: the rest of the program finds the device as it leaves it.
LEMMA WokenTail ==
  ASSUME NEW p \in Seq(FlashCalls), p # <<>>, NEW down \in BOOLEAN, WokenFirst(p, down)
  PROVE  /\ Head(p) \in FlashCalls /\ Tail(p) \in Seq(FlashCalls)
         /\ down => Head(p).name = "release_powerdown"
         /\ WokenFirst(Tail(p), Head(p).name = "powerdown")
<1> DEFINE t == Tail(p)
           n == Len(p)
<1>1. /\ Head(p) \in FlashCalls /\ t \in Seq(FlashCalls) /\ Len(t) = n - 1
      /\ \A i \in 1 .. Len(t) : t[i] = p[i + 1]
  BY HeadTailProperties
<1>2. n \in Nat /\ n >= 1 /\ DOMAIN p = 1 .. n /\ DOMAIN t = 1 .. n - 1 /\ Head(p) = p[1]
  BY <1>1, EmptySeq, LenProperties
<1> HIDE DEF t, n
<1>3. ASSUME NEW i \in 1 .. n
      PROVE  \/ p[i].name = "release_powerdown"
             \/ \E j \in 0 .. i - 1 :
                  /\ IF j = 0 THEN ~down ELSE p[j].name = "release_powerdown"
                  /\ \A k \in j + 1 .. i - 1 : p[k].name # "powerdown"
  BY <1>2 DEF WokenFirst
<1>4. down => p[1].name = "release_powerdown"
  <2>1. 1 \in 1 .. n
    BY <1>2
  <2>2. \/ p[1].name = "release_powerdown"
        \/ \E j \in 0 .. 0 : IF j = 0 THEN ~down ELSE p[j].name = "release_powerdown"
    BY <1>3, <2>1
  <2> QED
    BY <2>2
<1>5. ASSUME NEW i \in 1 .. n - 1
      PROVE  \/ t[i].name = "release_powerdown"
             \/ \E j \in 0 .. i - 1 :
                  /\ IF j = 0 THEN ~(p[1].name = "powerdown") ELSE t[j].name = "release_powerdown"
                  /\ \A k \in j + 1 .. i - 1 : t[k].name # "powerdown"
  <2>1. i + 1 \in 1 .. n /\ t[i] = p[i + 1] /\ (i + 1) - 1 = i
    BY <1>1, <1>2
  <2>2. \A k \in 1 .. i : t[k] = p[k + 1]
    BY <1>1, <1>2
  <2>3. CASE p[i + 1].name = "release_powerdown"
    BY <2>1, <2>3
  <2>4. CASE p[i + 1].name # "release_powerdown"
    <3>1. PICK j \in 0 .. i :
            /\ IF j = 0 THEN ~down ELSE p[j].name = "release_powerdown"
            /\ \A k \in j + 1 .. i : p[k].name # "powerdown"
      BY <1>3, <2>1, <2>4
    <3>2. CASE j \in {0, 1}
      <4>1. p[1].name # "powerdown"
        <5>1. CASE j = 0
          <6>1. 1 \in j + 1 .. i
            BY <5>1
          <6> QED
            BY <3>1, <6>1
        <5>2. CASE j = 1
          <6>1. p[1].name = "release_powerdown"
            BY <3>1, <5>2
          <6> QED
            BY <6>1
        <5> QED
          BY <3>2, <5>1, <5>2
      <4>2. ASSUME NEW k \in 1 .. i - 1 PROVE t[k].name # "powerdown"
        <5>1. k + 1 \in j + 1 .. i /\ k \in 1 .. i
          BY <3>2
        <5> QED
          BY <2>2, <3>1, <5>1
      <4>3. 0 \in 0 .. i - 1 /\ \A k \in 0 + 1 .. i - 1 : t[k].name # "powerdown"
        BY <4>2
      <4> QED
        BY <4>1, <4>3
    <3>3. CASE j \notin {0, 1}
      <4> DEFINE l == j - 1
      <4>1. l \in 0 .. i - 1 /\ l # 0 /\ l + 1 = j /\ l \in 1 .. i
        BY <3>3
      <4>2. t[l].name = "release_powerdown"
        <5>1. p[j].name = "release_powerdown"
          BY <3>1, <3>3
        <5> HIDE DEF l
        <5> QED
          BY <2>2, <4>1, <5>1
      <4> HIDE DEF l
      <4>3. ASSUME NEW k \in l + 1 .. i - 1 PROVE t[k].name # "powerdown"
        <5>1. k + 1 \in j + 1 .. i /\ k \in 1 .. i
          BY <4>1
        <5> QED
          BY <2>2, <3>1, <5>1
      <4> QED
        BY <4>1, <4>2, <4>3
    <3> QED
      BY <3>2, <3>3
  <2> QED
    BY <2>3, <2>4
<1>6. WokenFirst(t, p[1].name = "powerdown")
  BY <1>2, <1>5 DEF WokenFirst
<1> QED
  BY <1>1, <1>2, <1>4, <1>6 DEF t

\* A call begins with an idle device, awake or to be woken.
LEMMA CallDriverInv ==
  ASSUME FlashInv, CallDriver
  PROVE  FlashInv' /\ call = NoCall /\ call' \in Calls /\ call' # NoCall
<1> DEFINE c == Head(todo)
<1>1. /\ fpc = "call" /\ todo # <<>> /\ call' = c /\ todo' = Tail(todo) /\ nth' = 0
      /\ fpc' = IF Transfers(c) = <<>> THEN "return" ELSE "enable"
      /\ results' = <<>> /\ applied' = 0
      /\ UNCHANGED <<mastervars, mem, received, shift, miso, wel, work, asleep, put, buf>>
  BY DEF CallDriver
<1>2. FlashTypes /\ todo \in Seq(FlashCalls) /\ asleep \in BOOLEAN /\ WokenFirst(todo, asleep)
  BY <1>1 DEF FlashInv, FlashTypes, Power
<1>3. /\ c \in FlashCalls /\ Tail(todo) \in Seq(FlashCalls)
      /\ asleep => c.name = "release_powerdown"
      /\ WokenFirst(Tail(todo), c.name = "powerdown")
  BY <1>1, <1>2, WokenTail
<1>4. c \in Calls /\ \A i \in DOMAIN Tail(todo) : Tail(todo)[i] \in Calls
  <2>1. \A i \in DOMAIN todo : todo[i] \in Calls
    BY DEF FlashInv, OfPrograms
  <2>2. /\ Len(Tail(todo)) = Len(todo) - 1 /\ \A i \in 1 .. Len(Tail(todo)) : Tail(todo)[i] = todo[i + 1]
    BY <1>1, <1>2, HeadTailProperties
  <2>3. Len(todo) \in Nat \ {0} /\ DOMAIN todo = 1 .. Len(todo) /\ DOMAIN Tail(todo) = 1 .. Len(Tail(todo))
        /\ c = todo[1]
    BY <1>1, <1>2, <1>3, EmptySeq, LenProperties
  <2> QED
    BY <2>1, <2>2, <2>3
<1>5. c # NoCall
  BY <1>3, ProgramsAssumption
<1>6. Transfers(c) \in Seq(TransferTypes) /\ (Transfers(c) = <<>> => Changes(c)) /\ Len(<<>>) = 0
  <2>1. Len(<<>>) = 0
    OBVIOUS
  <2>2. CASE Changes(c)
    BY <1>3, <2>1, <2>2, ChangingShape
  <2>3. CASE ~Changes(c)
    <3>1. Transfers(c) \in Seq(TransferTypes) /\ Len(Transfers(c)) \in {1, 2}
      BY <1>3, <2>3, PlainShape
    <3>2. Len(Transfers(c)) # 0
      BY <3>1
    <3> QED
      BY <2>1, <3>1, <3>2
  <2> QED
    BY <2>2, <2>3
<1>7. fpc' \in {"enable", "return"} /\ ~Selected' /\ ~Selected
  BY <1>1 DEF Selected
<1>8. IF fpc' = "return" THEN Len(Transfers(c)) = 0 /\ Changes(c) ELSE 0 < Len(Transfers(c))
  <2>1. CASE Transfers(c) = <<>>
    BY <1>1, <1>6, <2>1
  <2>2. CASE Transfers(c) # <<>>
    <3>1. Len(Transfers(c)) \in Nat \ {0}
      BY <1>6, <2>2, EmptySeq
    <3> QED
      BY <1>1, <2>2, <3>1
  <2> QED
    BY <2>1, <2>2
<1> HIDE DEF c
<1>9. FlashTypes'
  <2>1. UNCHANGED <<mastervars, mem, received, shift, miso, wel, work, asleep, put, buf>>
        /\ todo' \in Seq(FlashCalls) /\ call' \in FlashCalls \cup {NoCall} /\ nth' \in Nat /\ applied' \in Nat
    BY <1>1, <1>3
  <2> QED
    BY <1>2, <1>7, <2>1 DEF FlashTypes, mastervars
<1>10. Place'
  BY <1>1, <1>5, <1>7, <1>8 DEF Place, Busy, Selected
<1>11. Master'
  <2>1. Selected' = FALSE /\ Selected = FALSE
    BY <1>1, <1>7 DEF Selected
  <2>2. spi_ctrl_reg = "IDLE"
    BY <1>1, NotWaiting
  <2> QED
    BY <1>1, <2>1, <2>2 DEF FlashInv, Master, mastervars
<1>12. Line' /\ Reads' /\ Polls'
  BY <1>7 DEF Line, Reads, Polls
<1>13. Progress'
  <2>1. AtRest(0)'
    BY <1>1 DEF FlashInv, Progress, AtRest
  <2>2. nth' % 3 = 0 /\ nth' \div 3 = 0
    BY <1>1
  <2> QED
    <3>1. AtRest(nth \div 3)'
      BY <2>1, <2>2 DEF AtRest
    <3> QED
      <4>1. fpc' # "call" /\ AtRest(0)' /\ (nth % 3)' = 0 /\ AtRest(nth \div 3)'
        BY <1>7, <2>1, <2>2, <3>1
      <4> QED
        BY <4>1 DEF Progress
<1>14. Power'
  <2>1. fpc' = "return" => ~asleep /\ c.name # "powerdown"
    BY <1>3, <1>8 DEF Changes
  <2> QED
    BY <1>1, <1>2, <1>3, <1>7, <2>1 DEF Power, Busy
<1>15. Replies' /\ OfPrograms'
  BY <1>1, <1>4 DEF Replies, OfPrograms
<1> QED
  BY <1>1, <1>4, <1>5, <1>9, <1>10, <1>11, <1>12, <1>13, <1>14, <1>15 DEF FlashInv, Place

\* After the last transfer every piece has been done, and the reply is known.
LEMMA FinishedIs ==
  ASSUME FlashInv, fpc = "return"
  PROVE  /\ call \in FlashCalls /\ call # NoCall /\ AtRest(CallPieces(call))
         /\ asleep = (call.name = "powerdown")
         /\ ReturnValue(call, results) = CallReply(call, mem)
<1>1. call \in FlashCalls /\ call # NoCall /\ nth \in Nat /\ nth = Len(Transfers(call))
  BY DEF FlashInv, FlashTypes, Place
<1>2. asleep = (call.name = "powerdown")
  BY DEF FlashInv, Power
<1>3. CASE Changes(call)
  <2>1. CallPieces(call) \in Nat /\ nth = 3 * CallPieces(call)
    BY <1>1, <1>3, ChangingShape
  <2>2. nth % 3 = 0 /\ nth \div 3 = CallPieces(call)
    <3> DEFINE n == CallPieces(call)
    <3>1. n \in Nat /\ nth = 3 * n
      BY <2>1
    <3> HIDE DEF n
    <3>2. nth % 3 = 0 /\ nth \div 3 = n
      BY <3>1
    <3> QED
      BY <3>2 DEF n
  <2>3. AtRest(CallPieces(call))
    BY <1>3, <2>2 DEF FlashInv, Progress
  <2>4. results = <<>>
    BY <1>3 DEF FlashInv, Replies
  <2>5. ReturnValue(call, results) = CallReply(call, mem)
    BY <1>3, <2>4 DEF ReturnValue, CallReply, Changes
  <2> QED
    BY <1>1, <1>2, <2>3, <2>5
<1>4. CASE ~Changes(call)
  <2>1. CallPieces(call) = 0 /\ Len(Transfers(call)) \in {1, 2}
    BY <1>1, <1>4, PlainShape
  <2>2. AtRest(CallPieces(call))
    BY <1>4, <2>1 DEF FlashInv, Progress
  <2>3. results = CallReply(call, mem)
    <3>1. nth # 0 /\ ~(nth < Len(Transfers(call)))
      BY <1>1, <2>1
    <3> QED
      BY <1>4, <3>1 DEF FlashInv, Replies
  <2>4. ReturnValue(call, results) = CallReply(call, mem)
    BY <1>4, <2>3 DEF ReturnValue, Changes
  <2> QED
    BY <1>1, <1>2, <2>2, <2>4
<1> QED
  BY <1>3, <1>4

\* The call returns what its caller is promised.
LEMMA ReturnInv ==
  ASSUME FlashInv, Return
  PROVE  /\ FlashInv' /\ call # NoCall /\ applied = CallPieces(call) /\ applied' = 0 /\ mem' = mem
         /\ call' = NoCall /\ results' = CallReply(call, mem)
<1>1. /\ fpc = "return" /\ fpc' = "call" /\ call' = NoCall
      /\ results' = ReturnValue(call, results) /\ applied' = 0
      /\ UNCHANGED <<mastervars, mem, received, shift, miso, wel, work, asleep, todo, nth, put, buf>>
  BY DEF Return
<1>2. /\ call \in FlashCalls /\ call # NoCall /\ AtRest(CallPieces(call))
      /\ asleep = (call.name = "powerdown")
      /\ ReturnValue(call, results) = CallReply(call, mem)
  BY <1>1, FinishedIs
<1>3. ~Selected /\ ~Selected'
  BY <1>1 DEF Selected
<1>4. FlashTypes'
  BY <1>1 DEF FlashInv, FlashTypes, mastervars
<1>5. Place'
  BY <1>1 DEF Place, Busy, Selected
<1>6. Master'
  <2>1. Selected' = FALSE /\ Selected = FALSE
    BY <1>1 DEF Selected
  <2>2. spi_ctrl_reg = "IDLE"
    BY <1>1, NotWaiting
  <2> QED
    BY <1>1, <2>1, <2>2 DEF FlashInv, Master, mastervars
<1>7. Line' /\ Reads' /\ Polls'
  BY <1>3 DEF Line, Reads, Polls
<1>8. Progress'
  BY <1>1, <1>2 DEF Progress, AtRest
<1>9. Power'
  BY <1>1, <1>2 DEF FlashInv, Power, Busy
<1>10. Replies' /\ OfPrograms'
  BY <1>1 DEF FlashInv, Replies, OfPrograms
<1>11. applied = CallPieces(call)
  BY <1>2 DEF AtRest
<1> QED
  BY <1>1, <1>2, <1>4, <1>5, <1>6, <1>7, <1>8, <1>9, <1>10, <1>11 DEF FlashInv

\* The invariant holds initially.
LEMMA FlashInitially ==
  ASSUME FlashInit
  PROVE  FlashInv
<1>1. todo \in Seq(FlashCalls) /\ WokenFirst(todo, TRUE) /\ \A i \in DOMAIN todo : todo[i] \in Calls
  <2>1. todo \in Programs
    BY DEF FlashInit
  <2>2. todo \in Seq(FlashCalls) /\ WokenFirst(todo, TRUE)
    BY <2>1, ProgramsAssumption
  <2>3. ASSUME NEW i \in DOMAIN todo PROVE todo[i] \in Calls
    BY <2>1 DEF Calls
  <2> QED
    BY <2>2, <2>3
<1>2. WokenFirst(todo, asleep)
  <2>1. CASE asleep = TRUE
    BY <1>1, <2>1
  <2>2. CASE asleep = FALSE
    <3> SUFFICES ASSUME NEW i \in DOMAIN todo
                 PROVE  \/ todo[i].name = "release_powerdown"
                        \/ \E j \in 0 .. i - 1 :
                             /\ IF j = 0 THEN ~FALSE ELSE todo[j].name = "release_powerdown"
                             /\ \A k \in j + 1 .. i - 1 : todo[k].name # "powerdown"
      BY <2>2 DEF WokenFirst
    <3>1. \/ todo[i].name = "release_powerdown"
          \/ \E j \in 0 .. i - 1 :
               /\ IF j = 0 THEN ~TRUE ELSE todo[j].name = "release_powerdown"
               /\ \A k \in j + 1 .. i - 1 : todo[k].name # "powerdown"
      BY <1>1 DEF WokenFirst
    <3> QED
      BY <3>1
  <2> QED
    BY <2>1, <2>2 DEF FlashInit
<1>3. FlashTypes
  <2>1. Bits(0) \in Vector /\ <<>> \in Seq(Byte) /\ <<>> \in Seq(Bit)
    BY BitsAreVector, AccessesAre
  <2>2. mem \in [0 .. FlashSize - 1 -> Byte]
    BY DEF FlashInit, Byte
  <2>3. spi_tx_data_reg \in Vector /\ spi_rx_data_reg \in Vector /\ received \in Seq(Byte)
        /\ shift \in Seq(Bit) /\ work \in Seq(Byte) /\ buf \in Seq(Byte)
    BY <2>1 DEF FlashInit
  <2>4. /\ spi_ss_reg \in BOOLEAN /\ spi_csk_reg \in BOOLEAN /\ spi_ready_reg \in BOOLEAN
        /\ wel \in BOOLEAN /\ asleep \in BOOLEAN
    BY Zenon DEF FlashInit
  <2>5. /\ spi_miso_sample_reg \in {0, 1} /\ miso \in {0, 1} /\ spi_bit_ctr_reg \in 0 .. 7
        /\ spi_ctrl_reg \in {"IDLE", "POS_FLANK", "NEG_FLANK", "NEXT"} /\ applied \in Nat
        /\ call \in FlashCalls \cup {NoCall} /\ nth \in Nat /\ put \in Nat
        /\ fpc \in {"call", "enable", "write", "data", "start", "dummy", "startread", "waitread", "read",
                    "disable", "return"}
    BY DEF FlashInit
  <2> QED
    BY <1>1, <2>2, <2>3, <2>4, <2>5 DEF FlashTypes
<1>4. ~Selected /\ ~Busy
  BY DEF FlashInit, Selected, Busy
<1>5. Place
  BY <1>4 DEF FlashInit, Place
<1>6. Master
  BY DEF FlashInit, Master, Selected
<1>7. Progress /\ Power /\ Replies /\ OfPrograms
  BY <1>1, <1>2, <1>4 DEF FlashInit, Progress, Power, Replies, OfPrograms, AtRest
<1> QED
  BY <1>3, <1>4, <1>5, <1>6, <1>7, NotSelected DEF FlashInv

-----------------------------------------------------------------------------
(* The end of a transfer, where the device takes its command *)

\* What the device makes of the command it has received.
LEMMA PlainCommand ==
  ASSUME Deselected, shift = <<>>, received # <<>>, wel \in BOOLEAN, asleep \in BOOLEAN,
         received[1] \notin Erases \cup {PAGE_PROGRAM, WRITE_ENABLE}
  PROVE  /\ work' = work
         /\ ~wel => ~wel'
         /\ received[1] # WRITE_DISABLE => wel' = wel
         /\ received[1] \notin {POWER_DOWN, RELEASE_POWER_DOWN} => asleep' = asleep
         /\ received[1] = POWER_DOWN /\ work = <<>> /\ ~asleep => asleep' = TRUE
         /\ received[1] = RELEASE_POWER_DOWN /\ work = <<>> => asleep' = FALSE
<1> DEFINE op == received[1]
           takes == Whole(received) /\ work = <<>> /\ (asleep => op = RELEASE_POWER_DOWN)
<1>1. /\ wel' = IF takes /\ op = WRITE_ENABLE THEN TRUE
                ELSE IF takes /\ op = WRITE_DISABLE THEN FALSE ELSE wel
      /\ asleep' = IF takes /\ op = POWER_DOWN THEN TRUE
                   ELSE IF takes /\ op = RELEASE_POWER_DOWN THEN FALSE ELSE asleep
      /\ work' = IF /\ takes /\ wel
                    /\ op \in {SECTOR_ERASE, BLOCK_ERASE_32K, BLOCK_ERASE_64K, PAGE_PROGRAM}
                 THEN received ELSE work
  BY DEF Deselected
<1>2. op \notin {SECTOR_ERASE, BLOCK_ERASE_32K, BLOCK_ERASE_64K, PAGE_PROGRAM, WRITE_ENABLE}
  BY DEF Erases
<1>3. Whole(received)
  BY <1>2 DEF Whole
<1>4. /\ POWER_DOWN # RELEASE_POWER_DOWN /\ POWER_DOWN # WRITE_DISABLE
      /\ RELEASE_POWER_DOWN # WRITE_DISABLE
  BY DEF POWER_DOWN, RELEASE_POWER_DOWN, WRITE_DISABLE
<1>5. takes <=> work = <<>> /\ (asleep => op = RELEASE_POWER_DOWN)
  BY <1>3
<1> HIDE DEF op, takes
<1>6. work' = work /\ (~wel => ~wel') /\ (op # WRITE_DISABLE => wel' = wel)
  BY <1>1, <1>2
<1>7. /\ op \notin {POWER_DOWN, RELEASE_POWER_DOWN} => asleep' = asleep
      /\ op = POWER_DOWN /\ work = <<>> /\ ~asleep => asleep' = TRUE
      /\ op = RELEASE_POWER_DOWN /\ work = <<>> => asleep' = FALSE
  BY <1>1, <1>4, <1>5
<1> QED
  BY <1>6, <1>7 DEF op

\* Write enable sets the latch.
LEMMA EnableCommand ==
  ASSUME Deselected, shift = <<>>, received # <<>>, received[1] = WRITE_ENABLE, work = <<>>, ~asleep
  PROVE  wel' = TRUE /\ work' = <<>> /\ asleep' = asleep
BY DEF Deselected, Whole, SECTOR_ERASE, BLOCK_ERASE_32K, BLOCK_ERASE_64K, PAGE_PROGRAM, WRITE_ENABLE,
       POWER_DOWN, RELEASE_POWER_DOWN

\* An erase or program that is whole, with write enable, is executed.
LEMMA ChangingCommand ==
  ASSUME Deselected, shift = <<>>, received # <<>>, work = <<>>, ~asleep, wel,
         \/ received[1] \in Erases /\ Len(received) = 4
         \/ received[1] = PAGE_PROGRAM /\ Len(received) > 4
  PROVE  wel' = wel /\ work' = received /\ asleep' = asleep
<1> DEFINE op == received[1]
           takes == Whole(received) /\ work = <<>> /\ (asleep => op = RELEASE_POWER_DOWN)
<1>1. /\ wel' = IF takes /\ op = WRITE_ENABLE THEN TRUE
                ELSE IF takes /\ op = WRITE_DISABLE THEN FALSE ELSE wel
      /\ asleep' = IF takes /\ op = POWER_DOWN THEN TRUE
                   ELSE IF takes /\ op = RELEASE_POWER_DOWN THEN FALSE ELSE asleep
      /\ work' = IF /\ takes /\ wel
                    /\ op \in {SECTOR_ERASE, BLOCK_ERASE_32K, BLOCK_ERASE_64K, PAGE_PROGRAM}
                 THEN received ELSE work
  BY DEF Deselected
<1>2. /\ op \in {SECTOR_ERASE, BLOCK_ERASE_32K, BLOCK_ERASE_64K, PAGE_PROGRAM}
      /\ op \in {SECTOR_ERASE, BLOCK_ERASE_32K, BLOCK_ERASE_64K} => Len(received) = 4
      /\ op = PAGE_PROGRAM => Len(received) > 4
  BY DEF Erases, SECTOR_ERASE, BLOCK_ERASE_32K, BLOCK_ERASE_64K, PAGE_PROGRAM
<1>3. Whole(received)
  BY <1>2 DEF Whole
<1>4. op \notin {WRITE_ENABLE, WRITE_DISABLE, POWER_DOWN, RELEASE_POWER_DOWN}
  BY <1>2 DEF SECTOR_ERASE, BLOCK_ERASE_32K, BLOCK_ERASE_64K, PAGE_PROGRAM,
              WRITE_ENABLE, WRITE_DISABLE, POWER_DOWN, RELEASE_POWER_DOWN
<1>5. takes
  BY <1>3
<1> HIDE DEF op, takes
<1> QED
  BY <1>1, <1>2, <1>4, <1>5

\* At the end of a transfer the device has its command and a zero for each byte read.
LEMMA EndOfTransfer ==
  ASSUME FlashInv, spi_disable
  PROVE  /\ fpc = "disable" /\ Selected /\ Busy /\ spi_ctrl_reg = "IDLE" /\ Current \in TransferTypes
         /\ Written /\ Len(buf) = Current.n /\ Started = Len(Current.wr) + Current.n
         /\ received \in Seq(Byte) /\ received # <<>> /\ shift = <<>> /\ received[1] = Current.wr[1]
         /\ Current.n = 0 => received = Current.wr
         /\ spi_ss_reg' = TRUE /\ spi_csk_reg' = FALSE /\ spi_ready_reg' = TRUE /\ spi_ctrl_reg' = "IDLE"
         /\ UNCHANGED <<spi_tx_data_reg, spi_rx_data_reg, spi_bit_ctr_reg, miso, received, shift, mem, applied>>
         /\ Deselected /\ spi_miso_sample_reg' = miso
<1>1. fpc = "disable" /\ SpiEdge(EN(0))
  BY DEF spi_disable, Do
<1>2. Selected /\ spi_ctrl_reg = "IDLE"
  BY <1>1, NotWaiting DEF Selected
<1>3. /\ FlashTypes /\ ~spi_csk_reg /\ spi_ready_reg /\ ~spi_ss_reg /\ Busy
      /\ Current \in TransferTypes /\ Len(Current.wr) >= 1
      /\ Len(received) = Started /\ shift = <<>>
  BY <1>2, Resting
<1>4. Written /\ Len(buf) = Current.n
  BY <1>1 DEF FlashInv, Place
<1>5. Len(Current.wr) \in Nat /\ Current.n \in Nat
  BY <1>3 DEF TransferTypes
<1>6. Started = Len(Current.wr) + Current.n
  <2>1. Started = put + Len(buf) + 0
    BY <1>1 DEF Started
  <2> QED
    BY <1>4, <1>5, <2>1 DEF Written
<1>7. received \in Seq(Byte) /\ \A i \in 1 .. Len(received) : received[i] = Wire(i)
  BY <1>2, <1>3 DEF FlashTypes, FlashInv, Line
<1>8. \A j \in 1 .. Len(Current.wr) : Wire(j) = Current.wr[j]
  BY <1>3, <1>5, PutBytes
<1>9. received[1] = Current.wr[1] /\ received # <<>>
  <2>1. 1 \in 1 .. Len(received) /\ 1 \in 1 .. Len(Current.wr) /\ Len(received) # 0
    BY <1>3, <1>5, <1>6
  <2>2. Len(<<>>) = 0
    OBVIOUS
  <2> QED
    BY <1>7, <1>8, <2>1, <2>2
<1>10. ASSUME Current.n = 0 PROVE received = Current.wr
  <2>1. Len(received) = Len(Current.wr) /\ Current.wr \in Seq(Byte)
    BY <1>3, <1>5, <1>6, <1>10 DEF TransferTypes
  <2>2. \A i \in 1 .. Len(received) : received[i] = Current.wr[i]
    BY <1>7, <1>8, <2>1
  <2> QED
    BY <1>7, <2>1, <2>2, SeqEqual
<1>11. /\ spi_ss_reg' = TRUE /\ spi_csk_reg' = FALSE /\ spi_ready_reg' = TRUE /\ spi_ctrl_reg' = "IDLE"
       /\ UNCHANGED <<spi_tx_data_reg, spi_rx_data_reg, spi_bit_ctr_reg, miso, received, shift, mem, applied>>
       /\ Deselected /\ spi_miso_sample_reg' = miso
  BY <1>1, <1>2, <1>3, DeselectEdge
<1> QED
  BY <1>1, <1>2, <1>3, <1>4, <1>6, <1>7, <1>9, <1>10, <1>11

\* A transfer of a call that changes the contents.
LEMMA EndOfChangingTransfer ==
  ASSUME FlashInv, spi_disable, Changes(call)
  PROVE  /\ asleep' = FALSE /\ work' \in Seq(Byte) /\ wel' \in BOOLEAN
         /\ nth' \in {nth, nth + 1} /\ results' = <<>>
         /\ nth' % 3 = 0 => AtRest(nth \div 3)'
         /\ nth' % 3 = 1 => work' = <<>> /\ wel' /\ applied' = nth' \div 3
         /\ nth' % 3 = 2 => \/ work' = Transfers(call)[nth'].wr /\ wel' /\ applied' = nth' \div 3
                            \/ AtRest(nth \div 3 + 1)'
<1>1. /\ fpc = "disable" /\ Selected /\ Busy /\ spi_ctrl_reg = "IDLE" /\ Current \in TransferTypes
      /\ Len(buf) = Current.n /\ Started = Len(Current.wr) + Current.n
      /\ received \in Seq(Byte) /\ received # <<>> /\ shift = <<>> /\ received[1] = Current.wr[1]
      /\ Current.n = 0 => received = Current.wr
      /\ applied' = applied /\ Deselected
  BY EndOfTransfer
<1>2. /\ IF Current.poll /\ buf[1] % 2 = 1 THEN UNCHANGED <<nth, results>>
         ELSE nth' = nth + 1 /\ results' = IF Current.poll THEN results ELSE results \o buf
  BY DEF spi_disable
<1>3. nth \in Nat /\ nth % 3 \in {0, 1, 2} /\ buf \in Seq(Byte) /\ wel \in BOOLEAN /\ work \in Seq(Byte)
      /\ asleep \in BOOLEAN
  BY Thirds DEF FlashInv, FlashTypes
<1>4. ~asleep /\ results = <<>>
  BY <1>1 DEF FlashInv, Power, Changes, Replies
<1>5. /\ nth % 3 = 0 => Current = flash_write_enable
      /\ nth % 3 = 1 => \E cmd : Current = Write(cmd) /\ Means(call, nth \div 3 + 1, cmd)
      /\ nth % 3 = 2 => Current = flash_wait_busy
  BY <1>1, CurrentIs DEF FlashInv
<1>6. /\ nth % 3 = 0 => AtRest(nth \div 3)
      /\ nth % 3 = 1 => work = <<>> /\ wel /\ applied = nth \div 3
      /\ nth % 3 = 2 => \/ work = Transfers(call)[nth].wr /\ wel /\ applied = nth \div 3
                        \/ AtRest(nth \div 3 + 1)
  BY <1>1 DEF FlashInv, Progress
<1>7. ASSUME Current.n = 0, ~Current.poll PROVE nth' = nth + 1 /\ results' = <<>>
  <2>1. buf = <<>>
    BY <1>1, <1>3, <1>7, EmptySeq
  <2> QED
    BY <1>2, <1>4, <1>7, <2>1
<1>8. CASE nth % 3 = 0
  <2>1. Current.n = 0 /\ ~Current.poll /\ Current.wr = <<WRITE_ENABLE>>
    BY <1>5, <1>8 DEF flash_write_enable, Write
  <2>2. received[1] = WRITE_ENABLE
    BY <1>1, <2>1
  <2>3. work = <<>> /\ applied = nth \div 3
    BY <1>6, <1>8 DEF AtRest
  <2>4. wel' = TRUE /\ work' = <<>> /\ asleep' = asleep
    BY <1>1, <1>4, <2>2, <2>3, EnableCommand
  <2>5. nth' = nth + 1 /\ results' = <<>>
    BY <1>7, <2>1
  <2>6. nth' % 3 = 1 /\ nth' \div 3 = nth \div 3
    BY <1>3, <1>8, <2>5, Thirds
  <2>7. work' \in Seq(Byte) /\ wel' \in BOOLEAN
    BY <2>4, EmptySeq
  <2> QED
    BY <1>1, <1>4, <2>3, <2>4, <2>5, <2>6, <2>7
<1>9. CASE nth % 3 = 1
  <2>1. PICK cmd : Current = Write(cmd) /\ Means(call, nth \div 3 + 1, cmd)
    BY <1>5, <1>9
  <2>2. Current.n = 0 /\ ~Current.poll /\ Current.wr = cmd
    BY <2>1 DEF Write
  <2>3. received = cmd
    BY <1>1, <2>2
  <2>4. \/ received[1] \in Erases /\ Len(received) = 4
        \/ received[1] = PAGE_PROGRAM /\ Len(received) > 4
    BY <2>1, <2>3 DEF Means
  <2>5. wel' = wel /\ work' = received /\ asleep' = asleep
    BY <1>1, <1>4, <1>6, <1>9, <2>4, ChangingCommand
  <2>6. nth' = nth + 1 /\ results' = <<>>
    BY <1>7, <2>2
  <2>7. nth' % 3 = 2 /\ nth' \div 3 = nth \div 3
    BY <1>3, <1>9, <2>6, Thirds
  <2>8. work' = Transfers(call)[nth'].wr
    <3>1. Current = Transfers(call)[nth']
      BY <2>6 DEF Current
    <3> QED
      BY <2>2, <2>3, <2>5, <3>1
  <2> QED
    BY <1>1, <1>3, <1>4, <1>6, <1>9, <2>5, <2>6, <2>7, <2>8
<1>10. CASE nth % 3 = 2
  <2>1. Current = flash_wait_busy
    BY <1>5, <1>10
  <2>2. Current.poll /\ Current.n = 1 /\ Current.wr = <<READ_STATUS_REG_1>>
    BY <2>1 DEF flash_wait_busy
  <2>3. received[1] = READ_STATUS_REG_1
    BY <1>1, <2>2
  <2>4. work' = work /\ wel' = wel /\ asleep' = asleep
    <3>1. /\ received[1] \notin Erases \cup {PAGE_PROGRAM, WRITE_ENABLE}
          /\ received[1] # WRITE_DISABLE /\ received[1] \notin {POWER_DOWN, RELEASE_POWER_DOWN}
      BY <2>3 DEF READ_STATUS_REG_1, Erases, SECTOR_ERASE, BLOCK_ERASE_32K, BLOCK_ERASE_64K, PAGE_PROGRAM,
                  WRITE_ENABLE, WRITE_DISABLE, POWER_DOWN, RELEASE_POWER_DOWN
    <3> QED
      BY <1>1, <1>3, <3>1, PlainCommand
  <2>5. CASE buf[1] % 2 = 1
    <3>1. nth' = nth /\ results' = results
      BY <1>2, <2>2, <2>5
    <3>2. nth' % 3 = 2 /\ nth' \div 3 = nth \div 3
      BY <1>10, <3>1
    <3>3. \/ work' = Transfers(call)[nth'].wr /\ wel' /\ applied' = nth' \div 3
          \/ AtRest(nth \div 3 + 1)'
      <4>1. applied' = applied /\ (nth \div 3)' = nth \div 3 /\ (nth \div 3 + 1)' = nth \div 3 + 1
        BY <1>1, <3>1
      <4>2. CASE work = Transfers(call)[nth].wr /\ wel /\ applied = nth \div 3
        BY <2>4, <3>1, <4>1, <4>2
      <4>3. CASE AtRest(nth \div 3 + 1)
        BY <2>4, <4>1, <4>3 DEF AtRest
      <4> QED
        BY <1>6, <1>10, <4>2, <4>3
    <3> QED
      BY <1>3, <1>4, <2>4, <3>1, <3>2, <3>3
  <2>6. CASE buf[1] % 2 # 1
    <3>1. nth' = nth + 1 /\ results' = results
      BY <1>2, <2>2, <2>6
    <3>2. nth' % 3 = 0 /\ nth' \div 3 = nth \div 3 + 1
      BY <1>3, <1>10, <3>1, Thirds
    <3>3. work = <<>>
      <4>1. Started = 2
        <5>1. Len(<<READ_STATUS_REG_1>>) = 1
          OBVIOUS
        <5>2. Len(Current.wr) = 1
          BY <2>2, <5>1
        <5> QED
          BY <1>1, <2>2, <5>2
      <4>2. buf # <<>>
        <5>1. Len(<<>>) = 0
          OBVIOUS
        <5>2. Len(buf) = 1
          BY <1>1, <2>2
        <5> QED
          BY <5>1, <5>2
      <4> QED
        BY <1>1, <2>2, <2>6, <4>1, <4>2 DEF FlashInv, Polls
    <3>4. AtRest(nth \div 3 + 1)
      <4> SUFFICES ASSUME work = Transfers(call)[nth].wr PROVE FALSE
        BY <1>6, <1>10
      <4> DEFINE k == nth - 1
      <4>1. nth < Len(Transfers(call)) /\ call \in FlashCalls
        BY <1>1, CurrentIs DEF FlashInv, Place
      <4>2. k + 1 = nth /\ k % 3 = 1 /\ k \in 0 .. Len(Transfers(call)) - 1
        <5> DEFINE L == Len(Transfers(call))
        <5>1. L \in Nat /\ nth < L
          BY <1>1, <4>1, CurrentIs DEF FlashInv
        <5> HIDE DEF L
        <5>2. k + 1 = nth /\ k % 3 = 1 /\ k \in 0 .. L - 1
          BY <1>3, <1>10, <5>1
        <5> QED
          BY <5>2 DEF L
      <4> HIDE DEF k
      <4>3. PICK cmd : Transfers(call)[k + 1] = Write(cmd) /\ Means(call, k \div 3 + 1, cmd)
        BY <4>1, <4>2, ChangingShape
      <4>4. work = cmd
        BY <4>2, <4>3 DEF Write
      <4>5. Len(cmd) >= 4 /\ Len(<<>>) = 0
        BY <4>3 DEF Means
      <4> QED
        BY <3>3, <4>4, <4>5
    <3>5. AtRest(nth \div 3)'
      <4>1. applied' = applied /\ (nth \div 3)' = nth \div 3 + 1
        BY <1>1, <3>2
      <4> QED
        BY <2>4, <3>4, <4>1 DEF AtRest
    <3> QED
      BY <1>3, <1>4, <2>4, <3>1, <3>2, <3>5
  <2> QED
    BY <2>5, <2>6
<1> QED
  BY <1>3, <1>8, <1>9, <1>10

\* A transfer of a call that changes nothing.
LEMMA EndOfPlainTransfer ==
  ASSUME FlashInv, spi_disable, ~Changes(call)
  PROVE  /\ AtRest(0)' /\ nth' = nth + 1
         /\ asleep' = (call.name = "powerdown") /\ asleep' \in BOOLEAN
         /\ call.name = "powerdown" => nth + 1 = Len(Transfers(call))
         /\ results' = IF nth + 1 < Len(Transfers(call)) THEN <<0>> ELSE CallReply(call, mem)
<1>1. /\ fpc = "disable" /\ Selected /\ Busy /\ spi_ctrl_reg = "IDLE" /\ Current \in TransferTypes
      /\ Written /\ Len(buf) = Current.n
      /\ received \in Seq(Byte) /\ received # <<>> /\ shift = <<>> /\ received[1] = Current.wr[1]
      /\ applied' = applied /\ Deselected
  BY EndOfTransfer
<1>2. /\ call \in FlashCalls /\ nth \in 0 .. Len(Transfers(call)) - 1 /\ ~Current.poll
      /\ Current.wr[1] \notin Erases \cup {PAGE_PROGRAM, WRITE_ENABLE}
      /\ Current.wr[1] = POWER_DOWN <=> call.name = "powerdown"
      /\ Current.wr[1] = RELEASE_POWER_DOWN <=> call.name = "release_powerdown"
  BY <1>1, CurrentIs DEF FlashInv
<1>3. nth' = nth + 1 /\ results' = results \o buf
  BY <1>2 DEF spi_disable
<1>4. FlashTypes /\ nth \in Nat /\ buf \in Seq(Byte) /\ wel \in BOOLEAN /\ asleep \in BOOLEAN
      /\ work = <<>> /\ ~wel /\ applied = 0
  BY <1>1 DEF FlashInv, FlashTypes, Progress, AtRest
<1>5. asleep => call.name = "release_powerdown"
  BY <1>1 DEF FlashInv, Power
<1>6. /\ work' = work /\ ~wel'
      /\ received[1] \notin {POWER_DOWN, RELEASE_POWER_DOWN} => asleep' = asleep
      /\ received[1] = POWER_DOWN /\ ~asleep => asleep' = TRUE
      /\ received[1] = RELEASE_POWER_DOWN => asleep' = FALSE
  <2>1. received[1] \notin Erases \cup {PAGE_PROGRAM, WRITE_ENABLE}
    BY <1>1, <1>2
  <2> QED
    BY <1>1, <1>4, <2>1, PlainCommand
<1>7. AtRest(0)'
  BY <1>1, <1>4, <1>6 DEF AtRest
<1>8. asleep' = (call.name = "powerdown") /\ asleep' \in BOOLEAN
  <2>1. CASE call.name = "powerdown"
    <3>1. received[1] = POWER_DOWN /\ ~asleep
      BY <1>1, <1>2, <1>5, <2>1
    <3> QED
      BY <1>6, <2>1, <3>1
  <2>2. CASE call.name = "release_powerdown"
    <3>1. received[1] = RELEASE_POWER_DOWN
      BY <1>1, <1>2, <2>2
    <3> QED
      BY <1>6, <2>2, <3>1
  <2>3. CASE call.name \notin {"powerdown", "release_powerdown"}
    <3>1. received[1] \notin {POWER_DOWN, RELEASE_POWER_DOWN} /\ ~asleep
      BY <1>1, <1>2, <1>5, <2>3
    <3> QED
      BY <1>4, <1>6, <2>3, <3>1
  <2> QED
    BY <2>1, <2>2, <2>3
<1> DEFINE L == Len(Transfers(call))
<1>9. L \in {1, 2}
  BY <1>2, PlainShape
<1>10. ASSUME call.name = "powerdown" PROVE nth + 1 = L
  <2>1. Transfers(call) = <<Write(<<POWER_DOWN>>)>>
    BY <1>10 DEF Transfers
  <2> DEFINE t == Write(<<POWER_DOWN>>)
  <2> HIDE DEF t
  <2>2. L = 1
    BY <2>1 DEF t
  <2> QED
    BY <1>2, <1>4, <2>2
<1>11. /\ nth + 1 < L => nth = 0 /\ buf = <<0>>
       /\ nth + 1 = L /\ nth = 0 => buf = CallReply(call, mem)
       /\ nth + 1 = L /\ nth # 0 => <<0>> \o buf = CallReply(call, mem)
  <2>1. call.name # "release_powerdown" => Quiet
    BY <1>4, <1>5 DEF Quiet
  <2>2. \A i \in 1 .. Len(buf) : buf[i] = Answered(Len(Current.wr) + i - 1)
    <3>1. CASE Current.n > 0
      BY <1>1, <1>2, <3>1 DEF FlashInv, Reads
    <3>2. CASE ~(Current.n > 0)
      <4>1. Len(buf) = 0
        BY <1>1, <3>2 DEF TransferTypes
      <4> QED
        BY <4>1
    <3> QED
      BY <3>1, <3>2
  <2>3. nth < Len(Transfers(call))
    BY <1>1 DEF FlashInv, Place
  <2> QED
    BY <1>1, <1>2, <1>4, <2>1, <2>2, <2>3, Answers
<1>12. results = IF nth = 0 THEN <<>> ELSE <<0>>
  <2>1. nth < L /\ fpc # "call"
    BY <1>1 DEF FlashInv, Place
  <2> QED
    BY <2>1 DEF FlashInv, Replies
<1>13. results' = IF nth + 1 < L THEN <<0>> ELSE CallReply(call, mem)
  <2> HIDE DEF L
  <2>1. nth + 1 < L \/ nth + 1 = L
    BY <1>2, <1>9 DEF L
  <2>2. <<>> \o buf = buf
    BY <1>4, ConcatEmptySeq
  <2>3. CASE nth = 0
    BY <1>3, <1>11, <1>12, <2>1, <2>2, <2>3
  <2>4. CASE nth # 0
    BY <1>3, <1>11, <1>12, <2>1, <2>4
  <2> QED
    BY <2>3, <2>4
<1> QED
  BY <1>3, <1>7, <1>8, <1>10, <1>13

\* spi_disable() keeps the invariant.
LEMMA DisableInv ==
  ASSUME FlashInv, spi_disable
  PROVE  FlashInv' /\ mem' = mem /\ applied' = applied
<1> DEFINE L == Len(Transfers(call))
<1>1. /\ fpc = "disable" /\ Busy /\ received \in Seq(Byte)
      /\ spi_ss_reg' = TRUE /\ spi_csk_reg' = FALSE /\ spi_ready_reg' = TRUE /\ spi_ctrl_reg' = "IDLE"
      /\ UNCHANGED <<spi_tx_data_reg, spi_rx_data_reg, spi_bit_ctr_reg, miso, received, shift, mem, applied>>
      /\ spi_miso_sample_reg' = miso
  BY EndOfTransfer
<1>2. /\ fpc' = IF nth' = L THEN "return" ELSE "enable"
      /\ UNCHANGED <<todo, call, put, buf>>
  BY DEF spi_disable, Do
<1>3. FlashTypes /\ call \in FlashCalls /\ call # NoCall /\ nth \in 0 .. L - 1 /\ L \in Nat /\ nth \in Nat
  BY <1>1, CurrentIs, ProgramsAssumption DEF FlashInv, FlashTypes
<1>4. /\ nth' \in {nth, nth + 1} /\ work' \in Seq(Byte) /\ wel' \in BOOLEAN /\ asleep' \in BOOLEAN
  <2>1. CASE Changes(call)
    BY <2>1, EndOfChangingTransfer
  <2>2. CASE ~Changes(call)
    <3>1. AtRest(0)' /\ nth' = nth + 1 /\ asleep' \in BOOLEAN
      BY <2>2, EndOfPlainTransfer
    <3>2. work' = <<>> /\ wel' = FALSE
      BY <3>1, EndOfChangingTransfer, EndOfPlainTransfer, <2>2 DEF AtRest, Deselected
    <3> QED
      BY <3>1, <3>2, EmptySeq
  <2> QED
    BY <2>1, <2>2
<1> HIDE DEF L
<1>5. fpc' \in {"return", "enable"} /\ ~Selected'
  BY <1>2 DEF Selected
<1>6. nth' \in Nat /\ nth' <= L /\ (fpc' = "return" => nth' = L) /\ (fpc' = "enable" => nth' < L)
  BY <1>2, <1>3, <1>4
<1>7. FlashTypes'
  <2>1. spi_ready_reg' \in BOOLEAN /\ spi_csk_reg' \in BOOLEAN /\ spi_ss_reg' \in BOOLEAN
    BY <1>1, Zenon
  <2>2. /\ spi_bit_ctr_reg' \in 0 .. 7 /\ spi_ctrl_reg' \in {"IDLE", "POS_FLANK", "NEG_FLANK", "NEXT"}
        /\ spi_tx_data_reg' \in Vector /\ spi_rx_data_reg' \in Vector
        /\ spi_miso_sample_reg' \in {0, 1} /\ miso' \in {0, 1}
        /\ mem' \in [0 .. FlashSize - 1 -> Byte] /\ received' \in Seq(Byte) /\ shift' \in Seq(Bit)
        /\ applied' \in Nat
    BY <1>1, <1>3 DEF FlashTypes
  <2>3. todo' \in Seq(FlashCalls) /\ call' \in FlashCalls \cup {NoCall} /\ put' \in Nat /\ buf' \in Seq(Byte)
    BY <1>2, <1>3 DEF FlashTypes
  <2> QED
    BY <1>4, <1>5, <1>6, <2>1, <2>2, <2>3 DEF FlashTypes
<1>8. Place'
  <2>1. Len(Transfers(call))' = L /\ call' # NoCall
    BY <1>2, <1>3 DEF L
  <2> QED
    BY <1>5, <1>6, <2>1 DEF Place, Busy, Selected
<1>9. Master'
  <2>1. Selected' = FALSE
    BY <1>5 DEF Selected
  <2> QED
    BY <1>1, <2>1 DEF Master
<1>10. Line' /\ Reads' /\ Polls'
  BY <1>5 DEF Line, Reads, Polls
<1>11. OfPrograms'
  BY <1>2 DEF FlashInv, OfPrograms
<1>12. WokenFirst(todo, call.name = "powerdown")
  BY <1>1 DEF FlashInv, Power
<1>13. CASE Changes(call)
  <2>1. /\ asleep' = FALSE /\ results' = <<>>
        /\ nth' % 3 = 0 => AtRest(nth \div 3)'
        /\ nth' % 3 = 1 => work' = <<>> /\ wel' /\ applied' = nth' \div 3
        /\ nth' % 3 = 2 => \/ work' = Transfers(call)[nth'].wr /\ wel' /\ applied' = nth' \div 3
                           \/ AtRest(nth \div 3 + 1)'
    BY <1>13, EndOfChangingTransfer
  <2>2. Progress'
    BY <1>2, <1>5, <1>13, <2>1 DEF Progress
  <2>3. Power'
    <3>1. call'.name # "powerdown"
      BY <1>2, <1>13 DEF Changes
    <3> QED
      BY <1>2, <1>5, <1>12, <2>1, <3>1 DEF Power
  <2>4. Replies'
    BY <1>2, <1>13, <2>1 DEF Replies
  <2> QED
    BY <1>1, <1>7, <1>8, <1>9, <1>10, <1>11, <2>2, <2>3, <2>4 DEF FlashInv
<1>14. CASE ~Changes(call)
  <2>1. /\ AtRest(0)' /\ nth' = nth + 1
        /\ asleep' = (call.name = "powerdown")
        /\ call.name = "powerdown" => nth + 1 = L
        /\ results' = IF nth + 1 < L THEN <<0>> ELSE CallReply(call, mem)
    BY <1>14, EndOfPlainTransfer DEF L
  <2>2. Progress'
    BY <1>2, <1>5, <1>14, <2>1 DEF Progress
  <2>3. Power'
    <3>1. fpc' = "enable" => ~asleep'
      <4>1. fpc' = "enable" => ~(nth + 1 = L)
        BY <1>3, <1>6, <2>1
      <4> QED
        BY <2>1, <4>1
    <3> QED
      BY <1>2, <1>5, <1>12, <2>1, <3>1 DEF Power, Busy
  <2>4. Replies'
    <3>1. nth' # 0 /\ ~Changes(call)' /\ CallReply(call, mem)' = CallReply(call, mem)
          /\ Len(Transfers(call))' = L
      BY <1>1, <1>2, <1>3, <1>14, <2>1 DEF L
    <3> QED
      BY <2>1, <3>1 DEF Replies
  <2> QED
    BY <1>1, <1>7, <1>8, <1>9, <1>10, <1>11, <2>2, <2>3, <2>4 DEF FlashInv
<1> QED
  BY <1>13, <1>14

-----------------------------------------------------------------------------
(* The invariant holds *)

\* Every step keeps the invariant.
LEMMA FlashNextKeeps == FlashInv /\ [FlashNext]_flashvars => FlashInv'
<1> SUFFICES ASSUME FlashInv, [FlashNext]_flashvars PROVE FlashInv'
  OBVIOUS
<1>1. CASE Shift
  BY <1>1, RunningInv DEF Shift, Running
<1>2. CASE Complete
  BY <1>2, CompleteInv
<1>3. CASE Driver
  BY <1>3, CallDriverInv, EnableInv, WaitWriteInv, WriteDataInv, StartWriteInv, DummyDataInv,
     StartReadInv, WaitReadInv, ReadDataInv, DisableInv, ReturnInv DEF Driver
<1>4. CASE UNCHANGED flashvars
  <2>1. UNCHANGED mastervars /\ UNCHANGED devicevars /\ UNCHANGED drivervars
    BY <1>4 DEF flashvars
  <2>2. Current' = Current /\ Selected' = Selected /\ Busy' = Busy /\ Written' = Written
        /\ Started' = Started /\ Transfers(call)' = Transfers(call)
    BY <2>1 DEF drivervars, Current, Selected, Busy, Written, Started
  <2>3. \A i : Wire(i)' = Wire(i)
    BY <2>1, <2>2 DEF Wire
  <2>4. \A i : Answered(i)' = Answered(i) /\ OutByte(received)' = OutByte(received)
    <3>1. \A cmd : OutByte(cmd)' = OutByte(cmd)
      BY <2>1 DEF devicevars, OutByte
    <3>2. \A i : [j \in 1 .. i |-> Wire(j)]' = [j \in 1 .. i |-> Wire(j)]
      BY <2>3
    <3> QED
      BY <2>1, <3>1, <3>2 DEF devicevars, Answered
  <2>5. (FlashTypes /\ Place /\ Master)'
    BY <2>1, <2>2 DEF FlashInv, FlashTypes, Place, Master, mastervars, devicevars, drivervars
  <2>6. Line'
    BY <2>1, <2>2, <2>3 DEF FlashInv, Line, mastervars, devicevars, drivervars
  <2>7. Reads' /\ Polls'
    BY <2>1, <2>2, <2>4 DEF FlashInv, Reads, Polls, mastervars, devicevars, drivervars
  <2>8. (Progress /\ Power /\ Replies /\ OfPrograms)'
    BY <2>1, <2>2 DEF FlashInv, Progress, Power, Replies, OfPrograms, AtRest, devicevars, drivervars
  <2> QED
    BY <2>5, <2>6, <2>7, <2>8 DEF FlashInv
<1> QED
  BY <1>1, <1>2, <1>3, <1>4 DEF FlashNext

(* In every reachable state, for every program of calls, every size of page,
   sector, block and flash and every contents: the place of the driver in
   spi_transfer(), the registers of the SPI master and what the device has
   received agree bit by bit, a poll that reads a 0 means that the device is done,
   and at every transfer of a call the device has done as much as it should. *)
THEOREM FlashInvHolds == FlashSpec => []FlashInv
<1>1. FlashInit => FlashInv
  BY FlashInitially
<1> QED
  BY <1>1, FlashNextKeeps, PTL DEF FlashSpec

-----------------------------------------------------------------------------
(* The refinement *)

\* The clock of the SPI master changes neither the contents nor what has been done.
LEMMA EdgeKeepsContents ==
  ASSUME NEW w, SpiEdge(w)
  PROVE  mem' = mem /\ applied' = applied
BY DEF SpiEdge, Device

\* All steps but three are not seen by the caller of the driver.
LEMMA NotSeen ==
  ASSUME FlashInv,
         \/ Shift \/ spi_enable \/ WaitWrite \/ WriteData \/ StartWrite
         \/ DummyData \/ StartRead \/ WaitRead \/ ReadData \/ spi_disable
  PROVE  call # NoCall /\ call' = call /\ mem' = mem /\ applied' = applied
<1>1. \/ spi_ctrl_reg # "IDLE"
      \/ fpc \in {"enable", "write", "data", "start", "dummy", "startread", "waitread", "read", "disable"}
  BY DEF Shift, Do, spi_enable, WaitWrite, WriteData, StartWrite, DummyData, StartRead, WaitRead, ReadData,
         spi_disable
<1>2. fpc # "call"
  BY <1>1, NotWaiting
<1>3. \E w : SpiEdge(w)
  BY DEF Shift, Do, spi_enable, WaitWrite, WriteData, StartWrite, DummyData, StartRead, WaitRead, ReadData,
         spi_disable
<1>4. call' = call
  BY DEF Shift, spi_enable, WaitWrite, WriteData, StartWrite, DummyData, StartRead, WaitRead, ReadData,
         spi_disable, drivervars
<1> QED
  BY <1>2, <1>3, <1>4, EdgeKeepsContents DEF FlashInv, Place

\* Every step is one of AtomicFlash or not seen by it.
LEMMA FlashStep ==
  ASSUME FlashInv, [FlashNext]_flashvars
  PROVE  [Atomic!Next]_Atomic!avars
<1> DEFINE shown == IF call = NoCall THEN results ELSE NoCall
<1>1. CASE CallDriver
  <2>1. call = NoCall /\ call' \in Calls /\ call' # NoCall
    BY <1>1, CallDriverInv
  <2>2. applied' = 0 /\ mem' = mem
    BY <1>1 DEF CallDriver
  <2> QED
    BY <2>1, <2>2 DEF Atomic!Next, Atomic!Begin, Calls
<1>2. CASE Complete
  <2>1. call # NoCall /\ applied < CallPieces(call)
        /\ mem' = CallPiece(call, applied + 1, mem) /\ applied' = applied + 1
    BY <1>2, CompleteInv
  <2>2. call' = call /\ results' = results
    BY <1>2 DEF Complete, drivervars
  <2> QED
    BY <2>1, <2>2 DEF Atomic!Next, Atomic!Apply
<1>3. CASE Return
  <2>1. call # NoCall /\ applied = CallPieces(call) /\ applied' = 0 /\ mem' = mem
        /\ call' = NoCall /\ results' = CallReply(call, mem)
    BY <1>3, ReturnInv
  <2> QED
    BY <2>1 DEF Atomic!Next, Atomic!Return
<1>4. CASE \/ Shift \/ spi_enable \/ WaitWrite \/ WriteData \/ StartWrite
           \/ DummyData \/ StartRead \/ WaitRead \/ ReadData \/ spi_disable
  <2>1. call # NoCall /\ call' = call /\ mem' = mem /\ applied' = applied
    BY <1>4, NotSeen
  <2> QED
    BY <2>1 DEF Atomic!avars
<1>5. CASE UNCHANGED flashvars
  BY <1>5 DEF flashvars, devicevars, drivervars, Atomic!avars
<1> QED
  BY <1>1, <1>2, <1>3, <1>4, <1>5 DEF FlashNext, Driver

(* What every other part of the firmware takes for granted of the flash driver:
   whatever calls a program makes, each erase and each page of a write reaches the
   contents once, completely, in order and before the call returns, and a read
   returns the bytes that are there. *)
THEOREM FlashIsAtomic == FlashSpec => ImplementsAtomicFlash
<1>1. FlashInit => Atomic!Init
  BY DEF FlashInit, Atomic!Init
<1>2. FlashInv /\ [FlashNext]_flashvars => [Atomic!Next]_Atomic!avars
  BY FlashStep
<1> QED
  BY <1>1, <1>2, FlashInvHolds, PTL DEF FlashSpec, ImplementsAtomicFlash, Atomic!Spec

-----------------------------------------------------------------------------
(* The hash library *)

\* What a call of blake2s_update() leaves when `bytes' have been put in, the key's
\* block among them: the state is chained over all blocks before the last, which
\* is in the buffer, full or not.
IsContext(x) ==
  /\ DOMAIN x = {"h", "t", "c", "outlen", "b"}
  /\ x.b \in [1 .. BLOCK -> 0 .. 255]
MidHash(x, outlen, keylen, bytes) ==
  LET full == FullBlocks(Len(bytes))
  IN  /\ IsContext(x) /\ x.outlen = outlen
      /\ x.h = Chain(outlen, keylen, bytes, full)
      /\ x.t = Count(full * BLOCK)
      /\ x.c = Len(bytes) - full * BLOCK
      /\ \A i \in 1 .. x.c : x.b[i] = bytes[full * BLOCK + i]

HashTypes ==
  /\ stage \in {"none", "open", "done"} /\ fed \in 0 .. Len(Message)
  /\ key \in Seq(0 .. 255) /\ Len(key) <= 32
HashInv ==
  /\ HashTypes
  /\ stage = "none" => fed = 0
  /\ stage = "open" => MidHash(ctx, ctx.outlen, Len(key), Padded(key) \o SubSeq(Message, 1, fed))
  /\ DigestIsOfMessage

-----------------------------------------------------------------------------
(* The count of bytes *)

LEMMA HalfIs == Half \in Nat \ {0} /\ Half > 64 /\ BLOCK = 64
BY DEF Half, BLOCK

LEMMA DivisionByHalf ==
  ASSUME NEW m \in Nat, NEW q \in Nat, NEW r \in Nat, m = q * Half + r, r < Half
  PROVE  m \div Half = q /\ m % Half = r
BY HalfIs, Division

\* Adding to a number, with a carry from its last digit.
Carried(n, c) ==
  \/ /\ (n % Half) + c < Half
     /\ (n + c) \div Half = n \div Half /\ (n + c) % Half = (n % Half) + c
     /\ ((n % Half) + c) \div Half = 0 /\ ((n % Half) + c) % Half = (n % Half) + c
  \/ /\ (n % Half) + c >= Half
     /\ (n + c) \div Half = (n \div Half) + 1 /\ (n + c) % Half = ((n % Half) + c) - Half
     /\ ((n % Half) + c) \div Half = 1 /\ ((n % Half) + c) % Half = ((n % Half) + c) - Half

LEMMA CarryOver ==
  ASSUME NEW n \in Nat, NEW c \in 0 .. 64
  PROVE  Carried(n, c)
<1> DEFINE q == n \div Half
           r == n % Half
           m == n + c
<1>1. q \in Nat /\ r \in Nat /\ r < Half /\ n = q * Half + r
  BY HalfIs, Divided
<1>5. m = n + c
  OBVIOUS
<1> HIDE DEF q, r, m
<1>2. m \in Nat /\ r + c \in Nat /\ q + 1 \in Nat
  BY <1>1, <1>5
<1>3. CASE r + c < Half
  <2>1. m = q * Half + (r + c) /\ r + c = 0 * Half + (r + c)
    BY <1>1, <1>5, HalfIs
  <2>2. m \div Half = q /\ m % Half = r + c
    <3>1. m \in Nat /\ q \in Nat /\ r + c \in Nat /\ r + c < Half
      BY <1>1, <1>2, <1>3
    <3>2. m = q * Half + (r + c)
      BY <2>1
    <3> QED
      BY <3>1, <3>2, DivisionByHalf
  <2>3. (r + c) \div Half = 0 /\ (r + c) % Half = r + c
    <3>1. 0 \in Nat /\ r + c \in Nat /\ r + c < Half
      BY <1>2, <1>3
    <3>2. r + c = 0 * Half + (r + c)
      BY <2>1
    <3> QED
      BY <3>1, <3>2, DivisionByHalf
  <2> QED
    BY <1>3, <2>2, <2>3 DEF q, r, m, Carried
<1>4. CASE r + c >= Half
  <2> DEFINE s == (r + c) - Half
  <2>1. s \in Nat /\ s < Half /\ r + c = 1 * Half + s /\ s = (r + c) - Half
    BY <1>1, <1>4, HalfIs
  <2>2. (q + 1) * Half = q * Half + Half /\ q * Half \in Nat
    BY <1>1, HalfIs
  <2>3. m = (q + 1) * Half + s
    BY <1>1, <1>5, <2>1, <2>2, HalfIs
  <2> HIDE DEF s
  <2>4. m \div Half = q + 1 /\ m % Half = s
    <3> DEFINE p == q + 1
    <3>1. p \in Nat /\ m = p * Half + s
      BY <1>2, <2>3
    <3> HIDE DEF p
    <3>2. m \in Nat /\ s \in Nat /\ s < Half
      BY <1>2, <2>1
    <3>3. m \div Half = p /\ m % Half = s
      BY <3>1, <3>2, DivisionByHalf
    <3> QED
      BY <3>3 DEF p
  <2>5. (r + c) \div Half = 1 /\ (r + c) % Half = s
    <3>1. 1 \in Nat /\ s \in Nat /\ r + c \in Nat /\ s < Half
      BY <1>2, <2>1
    <3>2. r + c = 1 * Half + s
      BY <2>1
    <3> QED
      BY <3>1, <3>2, DivisionByHalf
  <2> QED
    BY <1>4, <2>1, <2>4, <2>5 DEF q, r, m, Carried
<1> QED
  BY <1>1, <1>2, <1>3, <1>4, HalfIs

LEMMA AddSmall ==
  ASSUME NEW n \in Nat, NEW c \in 0 .. 64
  PROVE  Add(<<(n \div Half) % Half, n % Half>>, Small(c))
           = <<((n + c) \div Half) % Half, (n + c) % Half>>
<1> DEFINE a == n \div Half
           e == ((n % Half) + c) \div Half
<1>1. a \in Nat /\ n % Half \in Nat /\ a % Half \in Nat
  BY HalfIs, Divided
<1>2. /\ e = 0 \/ e = 1
      /\ (n + c) \div Half = a + e /\ ((n % Half) + c) % Half = (n + c) % Half
  <2>1. Carried(n, c)
    BY CarryOver
  <2> QED
    BY <1>1, <2>1 DEF Carried
<1>3. Add(<<a % Half, n % Half>>, Small(c)) = <<((a % Half) + e) % Half, ((n % Half) + c) % Half>>
  <2>1. (a % Half) + 0 = a % Half
    BY <1>1
  <2> QED
    BY <2>1 DEF Add, Small
<1> HIDE DEF a, e
<1>4. ((a % Half) + e) % Half = (a + e) % Half
  <2>1. Carried(a, e)
    BY <1>1, <1>2, CarryOver
  <2> QED
    BY <2>1 DEF Carried
<1> QED
  BY <1>2, <1>3, <1>4 DEF a

\* blake2s.c:273-276: the count is the number of bytes, in words and modulo 2^64.
LEMMA CountedIsCount ==
  ASSUME NEW n \in Nat, NEW c \in 0 .. BLOCK
  PROVE  Counted(Count(n), c) = Count(n + c)
<1> DEFINE a == n \div Half
           b == (n + c) \div Half
           d == (n + c) % Half
           low == <<b % Half, d>>
<1>0. c \in 0 .. 64 /\ n + c \in Nat
  BY HalfIs
<1>1. a \in Nat /\ b \in Nat /\ d \in Nat /\ a \div Half \in Nat /\ n % Half \in Nat
      /\ a % Half \in Nat /\ a % Half < Half /\ b % Half \in Nat /\ n % Half < Half
  BY <1>0, HalfIs, Divided
<1>2. Add(Count(n)[1], Small(c)) = low
  BY <1>0, AddSmall DEF Count
<1>3. Counted(Count(n), c)
        = <<low, IF Below(low, Small(c)) THEN Add(Count(n)[2], Small(1)) ELSE Count(n)[2]>>
  BY <1>2 DEF Counted
<1>9. \/ b = a /\ d >= c
      \/ b = a + 1 /\ d < c
  <2>1. Carried(n, c)
    BY <1>0, CarryOver
  <2> QED
    BY <1>0, <1>1, <2>1, HalfIs DEF Carried
<1>6. Add(Count(n)[2], Small(1)) = <<((a \div Half + 1) \div Half) % Half, (a \div Half + 1) % Half>>
  BY <1>1, AddSmall DEF Count
<1>7. Count(n + c) = <<low, <<((b \div Half) \div Half) % Half, (b \div Half) % Half>>>>
  BY DEF Count
<1>8. Count(n)[2] = <<((a \div Half) \div Half) % Half, (a \div Half) % Half>>
  BY DEF Count
<1>10. low[1] = b % Half /\ low[2] = d
  OBVIOUS
<1> HIDE DEF a, b, d, low
<1>4. Below(low, Small(c)) <=> b % Half = 0 /\ d < c
  BY <1>1, <1>10 DEF Below, Small
<1>5. IF Below(low, Small(c)) THEN b \div Half = a \div Half + 1 ELSE b \div Half = a \div Half
  <2>1. CASE b = a /\ d >= c
    BY <1>0, <1>1, <1>4, <2>1
  <2>2. CASE b = a + 1 /\ d < c
    <3>1. \/ b % Half = (a % Half) + 1 /\ b \div Half = a \div Half
          \/ b % Half = 0 /\ b \div Half = (a \div Half) + 1
      <4>1. Carried(a, 1)
        BY <1>1, CarryOver
      <4> QED
        BY <1>1, <2>2, <4>1, HalfIs DEF Carried
    <3> QED
      BY <1>1, <1>4, <2>2, <3>1
  <2> QED
    BY <2>1, <2>2, <1>9
<1> QED
  BY <1>3, <1>5, <1>6, <1>7, <1>8

-----------------------------------------------------------------------------
(* The chained state *)

\* What is chained to state h by block n, and the recursive function of Chain.
Linked(h, bytes, n) == Compressed(h, Block(bytes, n), Count(n * BLOCK), FALSE)
Links(outlen, keylen, bytes, m, f) ==
  \A n \in 0 .. m : f[n] = IF n = 0 THEN Fresh(outlen, keylen).h ELSE Linked(f[n - 1], bytes, n)
IsChain(outlen, keylen, bytes, m, f) ==
  f = [n \in 0 .. m |-> IF n = 0 THEN Fresh(outlen, keylen).h ELSE Linked(f[n - 1], bytes, n)]

LEMMA ChainUnique ==
  ASSUME NEW o, NEW k, NEW bytes, NEW m \in Nat, NEW f, NEW g,
         Links(o, k, bytes, m, f), Links(o, k, bytes, m, g)
  PROVE  f[m] = g[m]
<1> DEFINE Differ == {n \in 0 .. m : f[n] # g[n]}
<1>1. ASSUME Differ # {} PROVE FALSE
  <2>0. Differ \in SUBSET Nat
    OBVIOUS
  <2>1. PICK n \in Differ : \A j \in Differ : n <= j
    <3> HIDE DEF Differ
    <3> QED
      BY <1>1, <2>0, Least
  <2>2. /\ n \in 0 .. m /\ f[n] # g[n]
        /\ f[n] = IF n = 0 THEN Fresh(o, k).h ELSE Linked(f[n - 1], bytes, n)
        /\ g[n] = IF n = 0 THEN Fresh(o, k).h ELSE Linked(g[n - 1], bytes, n)
    BY DEF Links
  <2>3. n # 0 /\ n - 1 \in 0 .. m /\ f[n - 1] # g[n - 1]
    BY <2>2
  <2>4. n <= n - 1
    BY <2>1, <2>3
  <2> QED
    BY <2>2, <2>4
<1> QED
  BY <1>1

LEMMA ChainExists ==
  ASSUME NEW o, NEW k, NEW bytes, NEW m \in Nat
  PROVE  \E f : IsChain(o, k, bytes, m, f)
<1> DEFINE Without == {n \in Nat : ~\E f : IsChain(o, k, bytes, n, f)}
<1>1. ASSUME Without # {} PROVE FALSE
  <2>0. Without \in SUBSET Nat
    OBVIOUS
  <2>1. PICK n \in Without : \A j \in Without : n <= j
    <3> HIDE DEF Without
    <3> QED
      BY <1>1, <2>0, Least
  <2>2. n # 0
    <3> DEFINE z == [i \in 0 .. 0 |-> Fresh(o, k).h]
    <3>1. IsChain(o, k, bytes, 0, z)
      <4>1. \A i \in 0 .. 0 : i = 0
        OBVIOUS
      <4> QED
        BY <4>1 DEF IsChain
    <3> QED
      BY <3>1
  <2>3. n \in Nat /\ n - 1 \in Nat /\ n - 1 \notin Without
    <3>1. n \in Nat /\ n - 1 \in Nat /\ ~(n <= n - 1)
      BY <2>2
    <3> QED
      BY <2>1, <3>1
  <2>4. PICK f : IsChain(o, k, bytes, n - 1, f)
    BY <2>3
  <2> DEFINE g == [i \in 0 .. n |-> IF i = n THEN Linked(f[n - 1], bytes, n) ELSE f[i]]
  <2>5. \A i \in 0 .. n - 1 : g[i] = f[i]
    BY <2>3
  <2>6. \A i \in 0 .. n : g[i] = IF i = 0 THEN Fresh(o, k).h ELSE Linked(g[i - 1], bytes, i)
    <3> SUFFICES ASSUME NEW i \in 0 .. n
                 PROVE  g[i] = IF i = 0 THEN Fresh(o, k).h ELSE Linked(g[i - 1], bytes, i)
      OBVIOUS
    <3>1. CASE i = n
      <4>1. n - 1 \in 0 .. n - 1 /\ i # 0
        BY <2>2, <2>3, <3>1
      <4> QED
        BY <2>5, <3>1, <4>1
    <3>2. CASE i # n
      <4>1. i \in 0 .. n - 1 /\ (i # 0 => i - 1 \in 0 .. n - 1)
        BY <2>3, <3>2
      <4> HIDE DEF g
      <4>2. f[i] = IF i = 0 THEN Fresh(o, k).h ELSE Linked(f[i - 1], bytes, i)
        BY <2>4, <4>1 DEF IsChain
      <4> QED
        BY <2>5, <4>1, <4>2
    <3> QED
      BY <3>1, <3>2
  <2>7. g = [i \in 0 .. n |-> g[i]]
    OBVIOUS
  <2> HIDE DEF g
  <2>8. IsChain(o, k, bytes, n, g)
    BY <2>6, <2>7 DEF IsChain
  <2> QED
    BY <2>3, <2>8
<1> QED
  BY <1>1

LEMMA ChainIs ==
  ASSUME NEW o, NEW k, NEW bytes, NEW m \in Nat, NEW g, Links(o, k, bytes, m, g)
  PROVE  Chain(o, k, bytes, m) = g[m]
<1> DEFINE f == CHOOSE f : IsChain(o, k, bytes, m, f)
<1>1. IsChain(o, k, bytes, m, f)
  BY ChainExists
<1>2. Chain(o, k, bytes, m) = f[m]
  BY Zenon DEF Chain, IsChain, Linked
<1> HIDE DEF f
<1>3. Links(o, k, bytes, m, f)
  BY <1>1 DEF Links, IsChain
<1> QED
  BY <1>2, <1>3, ChainUnique

LEMMA ChainZero == ASSUME NEW o, NEW k, NEW bytes PROVE Chain(o, k, bytes, 0) = Fresh(o, k).h
<1> DEFINE z == [i \in 0 .. 0 |-> Fresh(o, k).h]
<1>1. Links(o, k, bytes, 0, z)
  BY DEF Links
<1>2. Chain(o, k, bytes, 0) = z[0]
  BY <1>1, ChainIs
<1> QED
  BY <1>2

\* Bytes with the same first blocks.
SameBlocks(x, y, m) == \A n \in 1 .. m : Block(x, n) = Block(y, n)

\* One more block, of bytes of which more may have come.
LEMMA ChainNext ==
  ASSUME NEW o, NEW k, NEW x, NEW y, NEW m \in Nat, SameBlocks(x, y, m)
  PROVE  /\ Chain(o, k, y, m) = Chain(o, k, x, m)
         /\ Chain(o, k, y, m + 1) = Linked(Chain(o, k, x, m), y, m + 1)
<1>1. PICK f : IsChain(o, k, y, m + 1, f)
  BY ChainExists
<1>2. Links(o, k, y, m + 1, f)
  BY <1>1 DEF IsChain, Links
<1>3. Links(o, k, y, m, f)
  BY <1>2 DEF Links
<1>4. Links(o, k, x, m, f)
  <2> SUFFICES ASSUME NEW n \in 0 .. m
               PROVE  f[n] = IF n = 0 THEN Fresh(o, k).h ELSE Linked(f[n - 1], x, n)
    BY DEF Links
  <2>1. f[n] = IF n = 0 THEN Fresh(o, k).h ELSE Linked(f[n - 1], y, n)
    BY <1>3 DEF Links
  <2>2. n # 0 => Block(x, n) = Block(y, n)
    BY DEF SameBlocks
  <2> QED
    BY <2>1, <2>2 DEF Linked
<1>5. Chain(o, k, y, m) = f[m] /\ Chain(o, k, x, m) = f[m] /\ Chain(o, k, y, m + 1) = f[m + 1]
  BY <1>2, <1>3, <1>4, ChainIs
<1>6. f[m + 1] = Linked(f[m], y, m + 1)
  BY <1>2 DEF Links
<1> QED
  BY <1>5, <1>6

-----------------------------------------------------------------------------
(* The buffer *)

LEMMA FullIs ==
  ASSUME NEW n \in Nat
  PROVE  /\ FullBlocks(n) \in Nat /\ FullBlocks(n) * BLOCK \in Nat /\ FullBlocks(n) * BLOCK <= n
         /\ n - FullBlocks(n) * BLOCK \in 0 .. BLOCK
         /\ n > 0 => n - FullBlocks(n) * BLOCK > 0
<1>1. CASE n = 0
  BY <1>1 DEF FullBlocks, BLOCK
<1>2. CASE n # 0
  <2> DEFINE q == (n - 1) \div 64
  <2>1. n - 1 \in Nat /\ q \in Nat
    BY <1>2
  <2>2. q * 64 <= n - 1 /\ n - 1 <= q * 64 + 63
    BY <2>1
  <2>3. FullBlocks(n) = q
    BY <1>2 DEF FullBlocks, BLOCK
  <2> HIDE DEF q
  <2> QED
    BY <1>2, <2>1, <2>2, <2>3 DEF BLOCK
<1> QED
  BY <1>1, <1>2

\* One more byte begins a block just if the block before is full.
LEMMA FullNext ==
  ASSUME NEW n \in Nat
  PROVE  FullBlocks(n + 1) = IF n - FullBlocks(n) * BLOCK = BLOCK THEN FullBlocks(n) + 1 ELSE FullBlocks(n)
<1> DEFINE m == FullBlocks(n)
<1>1. m \in Nat /\ m * 64 <= n /\ n - m * 64 \in 0 .. 64
  BY FullIs DEF BLOCK
<1>2. FullBlocks(n + 1) = n \div 64
  BY DEF FullBlocks, BLOCK
<1> HIDE DEF m
<1>3. CASE n - m * 64 = 64
  <2>1. n = (m + 1) * 64 + 0
    BY <1>1, <1>3
  <2>2. n \div 64 = m + 1
    BY <1>1, <2>1
  <2> QED
    BY <1>2, <1>3, <2>2 DEF m, BLOCK
<1>4. CASE n - m * 64 # 64
  <2>1. n \div 64 = m
    BY <1>1, <1>4
  <2> QED
    BY <1>2, <1>4, <2>1 DEF m, BLOCK
<1> QED
  BY <1>3, <1>4

\* A block that is complete stays what it is.
LEMMA BlockStays ==
  ASSUME NEW bytes \in Seq(0 .. 255), NEW y \in 0 .. 255, NEW m \in Nat, m * BLOCK <= Len(bytes)
  PROVE  SameBlocks(bytes, Append(bytes, y), m)
<1> DEFINE z == Append(bytes, y)
<1>1. Len(z) = Len(bytes) + 1 /\ Len(bytes) \in Nat /\ \A p \in 1 .. Len(bytes) : z[p] = bytes[p]
  BY AppendProperties
<1>2. m * 64 <= Len(bytes)
  BY DEF BLOCK
<1> HIDE DEF z
<1>3. ASSUME NEW n \in 1 .. m
      PROVE  Block(z, n) = Block(bytes, n)
  <2> DEFINE From(i) == ((n - 1) * BLOCK) + i
  <2>1. \A i \in 1 .. BLOCK : From(i) \in 1 .. Len(bytes)
    BY <1>1, <1>2 DEF BLOCK
  <2> HIDE DEF From
  <2>2. \A i \in 1 .. BLOCK : (IF From(i) <= Len(z) THEN z[From(i)] ELSE 0)
                               = (IF From(i) <= Len(bytes) THEN bytes[From(i)] ELSE 0)
    BY <1>1, <2>1
  <2>3. /\ Block(z, n) = [i \in 1 .. BLOCK |-> IF From(i) <= Len(z) THEN z[From(i)] ELSE 0]
        /\ Block(bytes, n) = [i \in 1 .. BLOCK |-> IF From(i) <= Len(bytes) THEN bytes[From(i)] ELSE 0]
    BY DEF Block, From
  <2> QED
    BY <2>2, <2>3
<1> QED
  BY <1>3 DEF z, SameBlocks

\* z is context x with one more byte y in its buffer.
Holds(z, x, y) ==
  /\ IsContext(z)
  /\ z.h = x.h /\ z.t = x.t /\ z.outlen = x.outlen /\ z.c = x.c + 1
  /\ z.b = [x.b EXCEPT ![x.c + 1] = y]

LEMMA StoredIs ==
  ASSUME NEW x, NEW y \in 0 .. 255, IsContext(x), x.c \in 0 .. BLOCK - 1
  PROVE  Holds(Stored(x, y), x, y)
<1> DEFINE z == Stored(x, y)
<1>1. DOMAIN x = {"h", "t", "c", "outlen", "b"}
  BY DEF IsContext
<1>2. /\ z.h = x.h /\ z.t = x.t /\ z.outlen = x.outlen /\ z.c = x.c + 1
      /\ z.b = [x.b EXCEPT ![x.c + 1] = y]
  BY <1>1 DEF Stored
<1>3. DOMAIN z = DOMAIN x
  BY <1>1 DEF Stored
<1>4. [x.b EXCEPT ![x.c + 1] = y] \in [1 .. BLOCK -> 0 .. 255]
  BY DEF IsContext
<1> HIDE DEF z
<1>5. IsContext(z)
  BY <1>1, <1>2, <1>3, <1>4 DEF IsContext
<1>6. Holds(z, x, y)
  BY <1>2, <1>5 DEF Holds
<1> QED
  BY <1>6 DEF z

LEMMA CompressIs ==
  ASSUME NEW x, IsContext(x), NEW last \in BOOLEAN
  PROVE  LET z == blake2s_compress(x, last)
         IN  /\ IsContext(z)
             /\ z.t = Counted(x.t, x.c) /\ z.h = Compressed(x.h, x.b, Counted(x.t, x.c), last)
             /\ z.outlen = x.outlen /\ z.c = x.c /\ z.b = x.b
<1> DEFINE z == blake2s_compress(x, last)
<1>1. DOMAIN x = {"h", "t", "c", "outlen", "b"}
  BY DEF IsContext
<1>2. /\ z.t = Counted(x.t, x.c) /\ z.h = Compressed(x.h, x.b, Counted(x.t, x.c), last)
      /\ z.outlen = x.outlen /\ z.c = x.c /\ z.b = x.b
  BY <1>1 DEF blake2s_compress
<1>3. DOMAIN z = DOMAIN x
  BY <1>1 DEF blake2s_compress
<1> HIDE DEF z
<1>4. IsContext(z)
  BY <1>1, <1>2, <1>3 DEF IsContext
<1> QED
  BY <1>2, <1>4 DEF z

-----------------------------------------------------------------------------
(* A byte is added; the last block *)

\* A turn of the loop of blake2s_update(), at the end of a block or not.
LEMMA ByteAdded ==
  ASSUME NEW o, NEW k, NEW bytes \in Seq(0 .. 255), NEW y \in 0 .. 255, NEW x, MidHash(x, o, k, bytes)
  PROVE  MidHash(Added(x, y), o, k, Append(bytes, y))
<1> DEFINE n == Len(bytes)
           m == FullBlocks(n)
           more == Append(bytes, y)
           flushed == [blake2s_compress(x, FALSE) EXCEPT !.c = 0]
<1>1. n \in Nat /\ m \in Nat /\ m * BLOCK \in Nat /\ m * BLOCK <= n /\ n - m * BLOCK \in 0 .. BLOCK
  BY FullIs
<1>2. Len(more) = n + 1 /\ more[n + 1] = y /\ \A i \in 1 .. n : more[i] = bytes[i]
  BY AppendProperties
<1>3. FullBlocks(n + 1) = IF n - m * BLOCK = BLOCK THEN m + 1 ELSE m
  BY <1>1, FullNext
<1>4. /\ IsContext(x) /\ x.outlen = o /\ x.h = Chain(o, k, bytes, m) /\ x.t = Count(m * BLOCK)
      /\ x.c = n - m * BLOCK /\ \A i \in 1 .. x.c : x.b[i] = bytes[m * BLOCK + i]
  BY DEF MidHash
<1>5. SameBlocks(bytes, more, m)
  BY <1>1, BlockStays
<1>6. Chain(o, k, more, m) = Chain(o, k, bytes, m)
      /\ Chain(o, k, more, m + 1) = Linked(Chain(o, k, bytes, m), more, m + 1)
  <2>1. m \in Nat
    BY <1>1
  <2> HIDE DEF m, more, flushed
  <2>2. /\ Chain(o, k, more, m) = Chain(o, k, bytes, m)
        /\ Chain(o, k, more, m + 1) = Linked(Chain(o, k, bytes, m), more, m + 1)
    BY <2>1, <1>5, ChainNext
  <2> QED
    BY <2>2
<1> HIDE DEF n, m, more, flushed
<1>7. CASE x.c = BLOCK
  <2>1. IsContext(flushed) /\ flushed.c = 0 /\ flushed.outlen = o
        /\ flushed.t = Counted(x.t, x.c)
        /\ flushed.h = Compressed(x.h, x.b, Counted(x.t, x.c), FALSE)
    <3> DEFINE z == blake2s_compress(x, FALSE)
    <3>1. /\ IsContext(z) /\ z.t = Counted(x.t, x.c) /\ z.outlen = x.outlen
          /\ z.h = Compressed(x.h, x.b, Counted(x.t, x.c), FALSE)
      BY <1>4, CompressIs
    <3>2. flushed = [z EXCEPT !.c = 0]
      BY DEF flushed
    <3> HIDE DEF z
    <3> QED
      BY <1>4, <3>1, <3>2 DEF IsContext
  <2>2. n = m * BLOCK + BLOCK /\ (m + 1) * BLOCK = n /\ n + 1 - (m + 1) * BLOCK = 1 /\ m + 1 \in Nat
    BY <1>1, <1>4, <1>7 DEF BLOCK
  <2>3. Counted(x.t, x.c) = Count((m + 1) * BLOCK)
    <3>1. BLOCK \in 0 .. BLOCK
      BY DEF BLOCK
    <3>2. Counted(Count(m * BLOCK), BLOCK) = Count(m * BLOCK + BLOCK)
      BY <1>1, <3>1, CountedIsCount
    <3> QED
      BY <1>4, <1>7, <2>2, <3>2
  <2>4. x.b = Block(more, m + 1)
    <3>1. \A i \in 1 .. BLOCK : ((m + 1) - 1) * BLOCK + i = m * BLOCK + i
                                 /\ m * BLOCK + i \in 1 .. n
      BY <1>1, <2>2 DEF BLOCK
    <3>2. \A i \in 1 .. BLOCK : Block(more, m + 1)[i] = more[m * BLOCK + i]
      BY <1>1, <1>2, <3>1 DEF Block
    <3>3. x.b = [i \in 1 .. BLOCK |-> x.b[i]]
      BY <1>4 DEF IsContext
    <3>4. Block(more, m + 1) = [i \in 1 .. BLOCK |-> Block(more, m + 1)[i]]
      BY DEF Block
    <3>5. \A i \in 1 .. BLOCK : x.b[i] = bytes[m * BLOCK + i]
      BY <1>4, <1>7
    <3>6. \A i \in 1 .. BLOCK : x.b[i] = Block(more, m + 1)[i]
      BY <1>2, <3>1, <3>2, <3>5
    <3> QED
      BY <3>3, <3>4, <3>6
  <2>5. flushed.h = Chain(o, k, more, m + 1)
    BY <1>4, <1>6, <2>1, <2>3, <2>4 DEF Linked
  <2> DEFINE z == Stored(flushed, y)
  <2>6. /\ IsContext(z) /\ z.h = flushed.h /\ z.t = flushed.t /\ z.outlen = o /\ z.c = 1
        /\ z.b = [flushed.b EXCEPT ![1] = y]
    <3>1. flushed.c \in 0 .. BLOCK - 1 /\ flushed.c + 1 = 1
      BY <2>1 DEF BLOCK
    <3>2. /\ IsContext(z) /\ z.h = flushed.h /\ z.t = flushed.t /\ z.outlen = flushed.outlen
          /\ z.c = flushed.c + 1 /\ z.b = [flushed.b EXCEPT ![flushed.c + 1] = y]
      <4> HIDE DEF flushed
      <4>1. IsContext(flushed) /\ flushed.c \in 0 .. BLOCK - 1
        BY <2>1, <3>1
      <4>2. Holds(z, flushed, y)
        BY <4>1, StoredIs
      <4> HIDE DEF z
      <4> QED
        BY <4>2 DEF Holds
    <3> HIDE DEF z
    <3> QED
      BY <2>1, <3>1, <3>2
  <2>7. Added(x, y) = z
    BY <1>7 DEF Added, flushed
  <2>8. z.b[1] = y
    <3>1. flushed.b \in [1 .. BLOCK -> 0 .. 255]
      BY <2>1 DEF IsContext
    <3>2. 1 \in 1 .. BLOCK
      BY DEF BLOCK
    <3> HIDE DEF z
    <3> QED
      BY <2>6, <3>1, <3>2
  <2> HIDE DEF z
  <2>9. FullBlocks(Len(more)) = m + 1
    BY <1>2, <1>3, <1>4, <1>7
  <2>10. \A i \in 1 .. z.c : z.b[i] = more[(m + 1) * BLOCK + i]
    <3>1. (m + 1) * BLOCK + 1 = n + 1
      BY <2>2
    <3>2. \A i \in 1 .. 1 : i = 1
      OBVIOUS
    <3> QED
      BY <1>2, <2>6, <2>8, <3>1, <3>2
  <2>11. z.c = Len(more) - (m + 1) * BLOCK
    BY <1>1, <1>2, <2>2, <2>6
  <2>12. MidHash(z, o, k, more)
    BY <2>1, <2>3, <2>5, <2>6, <2>9, <2>10, <2>11 DEF MidHash
  <2> QED
    BY <2>7, <2>12 DEF more
<1>8. CASE x.c # BLOCK
  <2>1. x.c \in 0 .. BLOCK - 1
    BY <1>1, <1>4, <1>8 DEF BLOCK
  <2> DEFINE z == Stored(x, y)
  <2>2. /\ IsContext(z) /\ z.h = x.h /\ z.t = x.t /\ z.outlen = o /\ z.c = x.c + 1
        /\ z.b = [x.b EXCEPT ![x.c + 1] = y]
    <3>1. Holds(z, x, y)
      BY <1>4, <2>1, StoredIs
    <3> HIDE DEF z
    <3> QED
      BY <1>4, <3>1 DEF Holds
  <2>3. Added(x, y) = z
    BY <1>8 DEF Added
  <2> HIDE DEF z
  <2>4. FullBlocks(Len(more)) = m
    BY <1>2, <1>3, <1>4, <1>8
  <2>5. z.c = Len(more) - m * BLOCK
    BY <1>1, <1>2, <1>4, <2>2
  <2>6. \A i \in 1 .. z.c : z.b[i] = more[m * BLOCK + i]
    <3> SUFFICES ASSUME NEW i \in 1 .. z.c PROVE z.b[i] = more[m * BLOCK + i]
      OBVIOUS
    <3>1. i \in 1 .. BLOCK /\ x.c + 1 \in 1 .. BLOCK /\ i \in 1 .. x.c + 1
      <4>1. x.c \in 0 .. 63 /\ i \in 1 .. x.c + 1
        BY <2>1, <2>2 DEF BLOCK
      <4> QED
        <5> DEFINE c == x.c
        <5>1. c \in 0 .. 63 /\ i \in 1 .. c + 1
          BY <4>1
        <5> HIDE DEF c
        <5>2. i \in 1 .. 64 /\ c + 1 \in 1 .. 64
          BY <5>1
        <5> QED
          BY <5>1, <5>2 DEF c, BLOCK
    <3>2. CASE i = x.c + 1
      <4>1. m * BLOCK + i = n + 1
        BY <1>1, <1>4, <3>2
      <4>2. x.b \in [1 .. BLOCK -> 0 .. 255] /\ z.b = [x.b EXCEPT ![x.c + 1] = y]
        BY <1>4, <2>2 DEF IsContext
      <4>3. z.b[i] = y
        BY <3>1, <3>2, <4>2
      <4> QED
        BY <1>2, <4>1, <4>3
    <3>3. CASE i # x.c + 1
      <4>1. i \in 1 .. x.c /\ m * BLOCK + i \in 1 .. n
        BY <1>1, <1>4, <2>1, <3>1, <3>3
      <4> QED
        BY <1>2, <1>4, <2>2, <3>1, <3>3, <4>1 DEF IsContext
    <3> QED
      BY <3>2, <3>3
  <2>7. MidHash(z, o, k, more)
    BY <1>4, <1>6, <2>2, <2>4, <2>5, <2>6 DEF MidHash
  <2> QED
    BY <2>3, <2>7 DEF more
<1> QED
  BY <1>7, <1>8

\* blake2s_final(): the rest of the buffer is zeros and is not counted.
LEMMA FinalIs ==
  ASSUME NEW o, NEW k, NEW bytes \in Seq(0 .. 255), NEW x, MidHash(x, o, k, bytes)
  PROVE  /\ blake2s_final(x).outlen = o
         /\ Output(blake2s_final(x)) = DigestOf(o, k, bytes)
<1> DEFINE n == Len(bytes)
           m == FullBlocks(n)
           filled == [x EXCEPT !.b = [i \in 1 .. BLOCK |-> IF i <= x.c THEN x.b[i] ELSE 0]]
           z == blake2s_compress(filled, TRUE)
<1>1. n \in Nat /\ m \in Nat /\ m * BLOCK \in Nat /\ m * BLOCK <= n /\ n - m * BLOCK \in 0 .. BLOCK
  BY FullIs
<1>2. /\ IsContext(x) /\ x.outlen = o /\ x.h = Chain(o, k, bytes, m) /\ x.t = Count(m * BLOCK)
      /\ x.c = n - m * BLOCK /\ \A i \in 1 .. x.c : x.b[i] = bytes[m * BLOCK + i]
  BY DEF MidHash
<1>3. blake2s_final(x) = [z EXCEPT !.c = BLOCK]
  BY DEF blake2s_final
<1> HIDE DEF n, m
<1>4. /\ DOMAIN filled = DOMAIN x /\ filled.h = x.h /\ filled.t = x.t /\ filled.c = x.c
      /\ filled.outlen = o /\ filled.b = [i \in 1 .. BLOCK |-> IF i <= x.c THEN x.b[i] ELSE 0]
  BY <1>2 DEF IsContext
<1>5. IsContext(filled)
  <2> HIDE DEF filled
  <2>1. \A i \in 1 .. BLOCK : (IF i <= x.c THEN x.b[i] ELSE 0) \in 0 .. 255
    <3>1. x.b \in [1 .. BLOCK -> 0 .. 255]
      BY <1>2 DEF IsContext
    <3>2. 0 \in 0 .. 255
      OBVIOUS
    <3> QED
      BY <3>1, <3>2
  <2> QED
    BY <1>2, <1>4, <2>1 DEF IsContext
<1> HIDE DEF filled
<1>6. filled.b = Block(bytes, m + 1)
  <2> DEFINE Nth(i) == ((m + 1) - 1) * BLOCK + i
  <2>1. \A i \in 1 .. BLOCK : Nth(i) = m * BLOCK + i /\ (Nth(i) <= Len(bytes) <=> i <= x.c)
    <3> SUFFICES ASSUME NEW i \in 1 .. BLOCK
                 PROVE  Nth(i) = m * BLOCK + i /\ (Nth(i) <= n <=> i <= x.c)
      BY DEF n
    <3> DEFINE mb == m * BLOCK
    <3>1. mb \in Nat /\ n \in Nat /\ x.c = n - mb /\ i \in Nat
      BY <1>1, <1>2
    <3>2. Nth(i) = mb + i
      BY <1>1
    <3> HIDE DEF mb, Nth
    <3> QED
      BY <3>1, <3>2 DEF mb
  <2>2. \A i \in 1 .. BLOCK : i <= x.c => i \in 1 .. x.c
    BY <1>1, <1>2
  <2>3. Block(bytes, m + 1) = [i \in 1 .. BLOCK |-> IF Nth(i) <= Len(bytes) THEN bytes[Nth(i)] ELSE 0]
    BY DEF Block
  <2> HIDE DEF Nth
  <2>4. \A i \in 1 .. BLOCK : (IF Nth(i) <= Len(bytes) THEN bytes[Nth(i)] ELSE 0)
                               = (IF i <= x.c THEN x.b[i] ELSE 0)
    BY <1>2, <2>1, <2>2
  <2> QED
    BY <1>4, <2>3, <2>4
<1>7. /\ IsContext(z) /\ z.outlen = o
      /\ z.h = Compressed(Chain(o, k, bytes, m), Block(bytes, m + 1), Count(n), TRUE)
  <2>1. /\ IsContext(z) /\ z.outlen = o
        /\ z.h = Compressed(x.h, filled.b, Counted(x.t, x.c), TRUE)
    BY <1>4, <1>5, CompressIs
  <2>2. Counted(x.t, x.c) = Count(n)
    <3>1. m * BLOCK + (n - m * BLOCK) = n
      BY <1>1
    <3> QED
      BY <1>1, <1>2, <3>1, CountedIsCount
  <2> QED
    BY <1>2, <1>6, <2>1, <2>2
<1> HIDE DEF z
<1>8. blake2s_final(x).outlen = o /\ blake2s_final(x).h = z.h
  BY <1>3, <1>7 DEF IsContext
<1> QED
  BY <1>7, <1>8 DEF Output, DigestOf, n, m

-----------------------------------------------------------------------------
(* Many bytes *)

\* What blake2s_update() has added after each byte, and its recursive function.
Updates(x, in, m, f) == \A i \in 0 .. m : f[i] = IF i = 0 THEN x ELSE Added(f[i - 1], in[i])
IsUpdate(x, in, m, f) == f = [i \in 0 .. m |-> IF i = 0 THEN x ELSE Added(f[i - 1], in[i])]

LEMMA UpdateExists ==
  ASSUME NEW x, NEW in, NEW m \in Nat
  PROVE  \E f : IsUpdate(x, in, m, f)
<1> DEFINE Without == {n \in Nat : ~\E f : IsUpdate(x, in, n, f)}
<1>1. ASSUME Without # {} PROVE FALSE
  <2>0. Without \in SUBSET Nat
    OBVIOUS
  <2>1. PICK n \in Without : \A j \in Without : n <= j
    <3> HIDE DEF Without
    <3> QED
      BY <1>1, <2>0, Least
  <2>2. n # 0
    <3> DEFINE z == [i \in 0 .. 0 |-> x]
    <3>1. IsUpdate(x, in, 0, z)
      <4>1. \A i \in 0 .. 0 : i = 0
        OBVIOUS
      <4> QED
        BY <4>1 DEF IsUpdate
    <3> QED
      BY <3>1
  <2>3. n \in Nat /\ n - 1 \in Nat /\ n - 1 \notin Without
    <3>1. n \in Nat /\ n - 1 \in Nat /\ ~(n <= n - 1)
      BY <2>2
    <3> QED
      BY <2>1, <3>1
  <2>4. PICK f : IsUpdate(x, in, n - 1, f)
    BY <2>3
  <2> DEFINE g == [i \in 0 .. n |-> IF i = n THEN Added(f[n - 1], in[n]) ELSE f[i]]
  <2>5. \A i \in 0 .. n - 1 : g[i] = f[i]
    BY <2>3
  <2>6. \A i \in 0 .. n : g[i] = IF i = 0 THEN x ELSE Added(g[i - 1], in[i])
    <3> SUFFICES ASSUME NEW i \in 0 .. n
                 PROVE  g[i] = IF i = 0 THEN x ELSE Added(g[i - 1], in[i])
      OBVIOUS
    <3>1. CASE i = n
      <4>1. n - 1 \in 0 .. n - 1 /\ i # 0
        BY <2>2, <2>3, <3>1
      <4> QED
        BY <2>5, <3>1, <4>1
    <3>2. CASE i # n
      <4>1. i \in 0 .. n - 1 /\ (i # 0 => i - 1 \in 0 .. n - 1)
        BY <2>3, <3>2
      <4> HIDE DEF g
      <4>2. f[i] = IF i = 0 THEN x ELSE Added(f[i - 1], in[i])
        BY <2>4, <4>1 DEF IsUpdate
      <4> QED
        BY <2>5, <4>1, <4>2
    <3> QED
      BY <3>1, <3>2
  <2>7. g = [i \in 0 .. n |-> g[i]]
    OBVIOUS
  <2> HIDE DEF g
  <2>8. IsUpdate(x, in, n, g)
    BY <2>6, <2>7 DEF IsUpdate
  <2> QED
    BY <2>3, <2>8
<1> QED
  BY <1>1

\* A call of blake2s_update() is a byte after the other.
LEMMA UpdateIs ==
  ASSUME NEW x, NEW in, Len(in) \in Nat
  PROVE  \E f : Updates(x, in, Len(in), f) /\ blake2s_update(x, in) = f[Len(in)]
<1> DEFINE f == CHOOSE f : IsUpdate(x, in, Len(in), f)
<1>1. IsUpdate(x, in, Len(in), f)
  BY UpdateExists
<1>2. blake2s_update(x, in) = f[Len(in)]
  BY Zenon DEF blake2s_update, IsUpdate
<1> HIDE DEF f
<1>3. Updates(x, in, Len(in), f)
  BY <1>1 DEF Updates, IsUpdate
<1> QED
  BY <1>2, <1>3

AppendsTo(s, t, e) == Append(s \o t, e) = s \o Append(t, e)
LEMMA AppendToConcat ==
  ASSUME NEW S, NEW s \in Seq(S), NEW t \in Seq(S), NEW e \in S
  PROVE  AppendsTo(s, t, e)
BY DEF AppendsTo

LEMMA OneMore ==
  ASSUME NEW bytes \in Seq(0 .. 255), NEW in \in Seq(0 .. 255), NEW i \in 1 .. Len(in)
  PROVE  /\ in[i] \in 0 .. 255
         /\ bytes \o SubSeq(in, 1, i - 1) \in Seq(0 .. 255)
         /\ bytes \o SubSeq(in, 1, i) = Append(bytes \o SubSeq(in, 1, i - 1), in[i])
<1> DEFINE a == SubSeq(in, 1, i - 1)
           S == 0 .. 255
<1>0. bytes \in Seq(S) /\ in \in Seq(S)
  OBVIOUS
<1> HIDE DEF S
<1>1. Len(in) \in Nat /\ \A j \in 1 .. Len(in) : in[j] \in S
  BY <1>0, LenProperties, ElementOfSeq
<1>2. 1 \in 1 .. Len(in) /\ i \in 1 .. Len(in) /\ 1 \in Int /\ i - 1 \in Int
  BY <1>1
<1>3. a \in Seq(S)
  <2>1. \A j \in 1 .. i - 1 : in[j] \in S
    BY <1>1
  <2> QED
    BY <1>2, <2>1, SubSeqProperties
<1>4. SubSeq(in, 1, i) = a \o <<in[i]>>
  <2>1. i \in 1 .. Len(in)
    OBVIOUS
  <2> QED
    BY <1>0, <1>2, <2>1, SubSeqRecursiveSecond
<1>5. in[i] \in S
  BY <1>1
<1> HIDE DEF a
<1>6. bytes \o a \in Seq(S)
  BY <1>0, <1>3, ConcatProperties
<1>7. Append(a, in[i]) = a \o <<in[i]>>
  BY <1>3, <1>5, AppendIsConcat
<1>8. Append(bytes \o a, in[i]) = bytes \o Append(a, in[i])
  <2>1. bytes \in Seq(S) /\ a \in Seq(S) /\ in[i] \in S
    BY <1>0, <1>3, <1>5
  <2>2. AppendsTo(bytes, a, in[i])
    BY <2>1, AppendToConcat
  <2> QED
    BY <2>2 DEF AppendsTo
<1> QED
  BY <1>4, <1>5, <1>6, <1>7, <1>8 DEF a, S

\* In whatever pieces they come.
LEMMA BytesAdded ==
  ASSUME NEW o, NEW k, NEW bytes \in Seq(0 .. 255), NEW in \in Seq(0 .. 255), NEW x,
         MidHash(x, o, k, bytes)
  PROVE  MidHash(blake2s_update(x, in), o, k, bytes \o in)
<1>1. Len(in) \in Nat
  OBVIOUS
<1>2. PICK f : Updates(x, in, Len(in), f) /\ blake2s_update(x, in) = f[Len(in)]
  BY <1>1, UpdateIs
<1> DEFINE Wrong == {i \in 0 .. Len(in) : ~MidHash(f[i], o, k, bytes \o SubSeq(in, 1, i))}
<1>3. ASSUME Wrong # {} PROVE FALSE
  <2>0. Wrong \in SUBSET Nat
    OBVIOUS
  <2>1. PICK i \in Wrong : \A j \in Wrong : i <= j
    <3> HIDE DEF Wrong
    <3> QED
      BY <1>3, <2>0, Least
  <2>2. i \in 0 .. Len(in) /\ ~MidHash(f[i], o, k, bytes \o SubSeq(in, 1, i))
    OBVIOUS
  <2>3. i # 0
    <3>1. SubSeq(in, 1, 0) = <<>>
      BY SubSeqEmpty
    <3>2. bytes \o <<>> = bytes
      BY ConcatEmptySeq
    <3>3. 0 \in 0 .. Len(in) /\ f[0] = x
      BY <1>1, <1>2 DEF Updates
    <3> QED
      BY <2>2, <3>1, <3>2, <3>3
  <2>4. i \in 1 .. Len(in) /\ i - 1 \in 0 .. Len(in) /\ ~(i <= i - 1)
    BY <1>1, <2>2, <2>3
  <2>5. MidHash(f[i - 1], o, k, bytes \o SubSeq(in, 1, i - 1))
    BY <2>1, <2>4
  <2>6. f[i] = Added(f[i - 1], in[i])
    BY <1>2, <2>2, <2>3 DEF Updates
  <2>7. MidHash(f[i], o, k, Append(bytes \o SubSeq(in, 1, i - 1), in[i]))
    <3>1. in[i] \in 0 .. 255 /\ bytes \o SubSeq(in, 1, i - 1) \in Seq(0 .. 255)
      BY <2>4, OneMore
    <3> QED
      BY <2>5, <2>6, <3>1, ByteAdded
  <2>8. bytes \o SubSeq(in, 1, i) = Append(bytes \o SubSeq(in, 1, i - 1), in[i])
    BY <2>4, OneMore
  <2> QED
    BY <2>2, <2>7, <2>8
<1>4. MidHash(f[Len(in)], o, k, bytes \o SubSeq(in, 1, Len(in)))
  BY <1>1, <1>3
<1>5. SubSeq(in, 1, Len(in)) = in
  BY SubSeqFull
<1> QED
  BY <1>2, <1>4, <1>5

-----------------------------------------------------------------------------
(* The key *)

LEMMA FreshIs ==
  ASSUME NEW o, NEW k
  PROVE  LET z == Fresh(o, k)
         IN  /\ IsContext(z) /\ z.c = 0 /\ z.t = Count(0) /\ z.outlen = o
             /\ z.b = [i \in 1 .. BLOCK |-> 0]
<1>1. Count(0) = <<Small(0), Small(0)>>
  <2>1. 0 \div Half = 0 /\ 0 % Half = 0
    BY Division, HalfIs
  <2> QED
    BY <2>1 DEF Count, Small
<1> QED
  BY <1>1 DEF Fresh, IsContext

\* The context with i bytes of the key, which is shorter than a block.
WithKey(x, o, key1, i) ==
  /\ IsContext(x) /\ x.h = Fresh(o, Len(key1)).h /\ x.t = Count(0) /\ x.outlen = o /\ x.c = i
  /\ x.b = [j \in 1 .. BLOCK |-> IF j <= i THEN key1[j] ELSE 0]

LEMMA KeyAdded ==
  ASSUME NEW o, NEW k \in Seq(0 .. 255), Len(k) <= 32
  PROVE  WithKey(blake2s_update(Fresh(o, Len(k)), k), o, k, Len(k))
<1>1. Len(k) \in 0 .. 32 /\ Len(k) \in Nat
  <2>1. Len(k) \in Nat
    BY LenProperties
  <2> DEFINE n == Len(k)
  <2>2. n \in Nat /\ n <= 32
    BY <2>1
  <2> HIDE DEF n
  <2>3. n \in 0 .. 32
    BY <2>2
  <2> QED
    BY <2>2, <2>3 DEF n
<1> DEFINE x == Fresh(o, Len(k))
<1>2. PICK f : Updates(x, k, Len(k), f) /\ blake2s_update(x, k) = f[Len(k)]
  BY <1>1, UpdateIs
<1> DEFINE Wrong == {i \in 0 .. Len(k) : ~WithKey(f[i], o, k, i)}
<1>3. ASSUME Wrong # {} PROVE FALSE
  <2>0. Wrong \in SUBSET Nat
    OBVIOUS
  <2>1. PICK i \in Wrong : \A j \in Wrong : i <= j
    <3> HIDE DEF Wrong
    <3> QED
      BY <1>3, <2>0, Least
  <2>2. i \in 0 .. Len(k) /\ ~WithKey(f[i], o, k, i)
    OBVIOUS
  <2>3. i # 0
    <3>1. f[0] = x
      BY <1>1, <1>2 DEF Updates
    <3>2. [j \in 1 .. BLOCK |-> IF j <= 0 THEN k[j] ELSE 0] = [j \in 1 .. BLOCK |-> 0]
      OBVIOUS
    <3> HIDE DEF x
    <3>3. IsContext(x) /\ x.c = 0 /\ x.t = Count(0) /\ x.outlen = o /\ x.b = [j \in 1 .. BLOCK |-> 0]
      BY FreshIs DEF x
    <3>4. x.h = Fresh(o, Len(k)).h
      BY DEF x
    <3>5. WithKey(x, o, k, 0)
      BY <3>2, <3>3, <3>4 DEF WithKey
    <3> QED
      BY <2>2, <3>1, <3>5
  <2>4. i \in 1 .. Len(k) /\ i - 1 \in 0 .. Len(k) /\ ~(i <= i - 1) /\ i \in 1 .. 32 /\ k[i] \in 0 .. 255
    <3>1. i \in 1 .. Len(k) /\ i - 1 \in 0 .. Len(k) /\ ~(i <= i - 1) /\ i \in 1 .. 32
      BY <1>1, <2>2, <2>3
    <3> QED
      BY <3>1, ElementOfSeq
  <2> DEFINE y == f[i - 1]
             z == Stored(y, k[i])
  <2>5. WithKey(y, o, k, i - 1)
    BY <2>1, <2>4
  <2>6. f[i] = Added(y, k[i])
    BY <1>2, <2>2, <2>3 DEF Updates
  <2> HIDE DEF y
  <2>7. y.c \in 0 .. BLOCK - 1 /\ y.c # BLOCK /\ y.c + 1 = i
    <3>1. i \in 1 .. 32 /\ y.c = i - 1
      BY <2>4, <2>5 DEF WithKey
    <3> QED
      BY <3>1 DEF BLOCK
  <2>8. f[i] = z
    BY <2>6, <2>7 DEF Added
  <2>9. /\ IsContext(z) /\ z.h = y.h /\ z.t = y.t /\ z.outlen = y.outlen /\ z.c = i
        /\ z.b = [y.b EXCEPT ![i] = k[i]]
    <3>1. IsContext(y) /\ y.c \in 0 .. BLOCK - 1 /\ k[i] \in 0 .. 255
      BY <2>4, <2>5, <2>7 DEF WithKey
    <3>2. /\ IsContext(z) /\ z.h = y.h /\ z.t = y.t /\ z.outlen = y.outlen /\ z.c = y.c + 1
          /\ z.b = [y.b EXCEPT ![y.c + 1] = k[i]]
      <4> HIDE DEF y
      <4>1. k[i] \in 0 .. 255
        BY <2>4
      <4>2. Holds(z, y, k[i])
        BY <3>1, <4>1, StoredIs
      <4> HIDE DEF z
      <4> QED
        BY <4>2 DEF Holds
    <3> HIDE DEF z
    <3> QED
      BY <2>7, <3>2
  <2> HIDE DEF z
  <2>10. z.b = [j \in 1 .. BLOCK |-> IF j <= i THEN k[j] ELSE 0]
    <3>1. y.b = [j \in 1 .. BLOCK |-> IF j <= i - 1 THEN k[j] ELSE 0]
      BY <2>5 DEF WithKey
    <3>2. \A j \in 1 .. BLOCK : (IF j = i THEN k[i] ELSE IF j <= i - 1 THEN k[j] ELSE 0)
                                 = (IF j <= i THEN k[j] ELSE 0)
      BY <2>4
    <3>3. z.b = [j \in 1 .. BLOCK |-> IF j = i THEN k[i] ELSE IF j <= i - 1 THEN k[j] ELSE 0]
      BY <2>9, <3>1
    <3> QED
      BY <3>2, <3>3
  <2>11. WithKey(z, o, k, i)
    BY <2>5, <2>9, <2>10 DEF WithKey
  <2> QED
    BY <2>2, <2>8, <2>11
<1>4. WithKey(f[Len(k)], o, k, Len(k))
  <2>1. Len(k) \in 0 .. Len(k)
    BY <1>1
  <2> QED
    BY <1>3, <2>1
<1> QED
  BY <1>2, <1>4

\* blake2s_init(): the key takes up a block.
LEMMA InitIs ==
  ASSUME NEW o, NEW k \in Seq(0 .. 255), Len(k) <= 32
  PROVE  /\ Padded(k) \in Seq(0 .. 255)
         /\ MidHash(blake2s_init(o, k), o, Len(k), Padded(k))
<1>1. CASE k = <<>>
  <2> DEFINE z == Fresh(o, 0)
  <2>1. blake2s_init(o, k) = z /\ Padded(k) = <<>> /\ Len(k) = 0
    BY <1>1 DEF blake2s_init, Padded
  <2>2. <<>> \in Seq(0 .. 255) /\ Len(<<>>) = 0
    OBVIOUS
  <2>3. FullBlocks(0) = 0 /\ 0 * BLOCK = 0 /\ 0 - 0 = 0
    BY DEF FullBlocks, BLOCK
  <2>4. IsContext(z) /\ z.c = 0 /\ z.t = Count(0) /\ z.outlen = o
    BY FreshIs
  <2>5. z.h = Chain(o, 0, <<>>, 0)
    BY ChainZero
  <2> HIDE DEF z
  <2>6. MidHash(z, o, 0, <<>>)
    BY <2>2, <2>3, <2>4, <2>5 DEF MidHash
  <2> QED
    BY <2>1, <2>2, <2>6
<1>2. CASE k # <<>>
  <2> DEFINE x == blake2s_update(Fresh(o, Len(k)), k)
             z == [x EXCEPT !.c = BLOCK]
             p == Padded(k)
  <2>1. p = [i \in 1 .. BLOCK |-> IF i <= Len(k) THEN k[i] ELSE 0] /\ blake2s_init(o, k) = z
    BY <1>2 DEF blake2s_init, Padded
  <2>2. WithKey(x, o, k, Len(k))
    BY KeyAdded
  <2> HIDE DEF x, p
  <2>3. /\ IsContext(z) /\ z.h = Fresh(o, Len(k)).h /\ z.t = Count(0) /\ z.outlen = o /\ z.c = BLOCK
        /\ z.b = p
    BY <2>1, <2>2 DEF WithKey, IsContext
  <2> HIDE DEF z
  <2>4. p \in [1 .. BLOCK -> 0 .. 255]
    BY <2>3 DEF IsContext
  <2>5. p \in Seq(0 .. 255) /\ Len(p) = BLOCK
    <3>1. BLOCK \in Nat
      BY DEF BLOCK
    <3>2. p \in Seq(0 .. 255)
      BY <2>4, <3>1, SeqDef
    <3> QED
      BY <2>4, <3>1, <3>2
  <2>6. FullBlocks(BLOCK) = 0 /\ 0 * BLOCK = 0 /\ BLOCK - 0 = BLOCK /\ \A i \in 1 .. BLOCK : 0 + i = i
    BY DEF FullBlocks, BLOCK
  <2>7. z.h = Chain(o, Len(k), p, 0)
    BY <2>3, ChainZero
  <2>8. MidHash(z, o, Len(k), p)
    BY <2>3, <2>5, <2>6, <2>7 DEF MidHash
  <2> QED
    BY <2>1, <2>5, <2>8 DEF p
<1> QED
  BY <1>1, <1>2

-----------------------------------------------------------------------------
(* blake2s() *)

\* One call of blake2s() gives the digest of the definition, for every key and
\* every message.
THEOREM HashIsDefinition ==
  ASSUME NEW o, NEW k \in Seq(0 .. 255), Len(k) <= 32, NEW in \in Seq(0 .. 255)
  PROVE  blake2s(o, k, in) = Definition(o, k, in)
<1> DEFINE x == blake2s_init(o, k)
           y == blake2s_update(x, in)
<1>1. Padded(k) \in Seq(0 .. 255) /\ MidHash(x, o, Len(k), Padded(k))
  BY InitIs
<1> HIDE DEF x
<1>2. MidHash(y, o, Len(k), Padded(k) \o in)
  BY <1>1, BytesAdded
<1>3. Padded(k) \o in \in Seq(0 .. 255)
  BY <1>1, ConcatProperties
<1> HIDE DEF y
<1>4. Output(blake2s_final(y)) = DigestOf(o, Len(k), Padded(k) \o in)
  BY <1>2, <1>3, FinalIs
<1> QED
  BY <1>4 DEF blake2s, Definition, x, y

LEMMA HashInitInv == HashInit => HashInv
<1> SUFFICES ASSUME HashInit PROVE HashInv
  OBVIOUS
<1> USE DEF HashInit
<1>1. <<>> \in Seq(0 .. 255) /\ Len(<<>>) = 0 /\ Len(Message) \in Nat
  BY HashAssumption
<1>2. HashTypes
  BY <1>1 DEF HashTypes
<1> QED
  BY <1>2 DEF HashInv, DigestIsOfMessage

LEMMA InitHashInv == HashInv /\ InitHash => HashInv'
<1> SUFFICES ASSUME HashInv, InitHash PROVE HashInv'
  OBVIOUS
<1>1. PICK r \in Callers : ctx' = blake2s_init(r.outlen, r.key) /\ key' = r.key
  BY DEF InitHash
<1>2. r.key \in Seq(0 .. 255) /\ Len(r.key) <= 32 /\ Message \in Seq(0 .. 255)
  BY HashAssumption
<1>3. stage = "none" /\ stage' = "open" /\ fed' = fed /\ fed = 0
  BY DEF InitHash, HashInv
<1>4. HashTypes'
  BY <1>1, <1>2, <1>3 DEF HashInv, HashTypes
<1>5. Padded(key') \in Seq(0 .. 255) /\ MidHash(ctx', r.outlen, Len(key'), Padded(key'))
  BY <1>1, <1>2, InitIs
<1>6. ctx'.outlen = r.outlen
  BY <1>5 DEF MidHash
<1>7. Padded(key') \o SubSeq(Message, 1, fed') = Padded(key')
  <2>1. SubSeq(Message, 1, 0) = <<>>
    BY SubSeqEmpty
  <2>2. Padded(key') \o <<>> = Padded(key')
    BY <1>5, ConcatEmptySeq
  <2> QED
    BY <1>3, <2>1, <2>2
<1>8. MidHash(ctx', ctx'.outlen, Len(key'), Padded(key') \o SubSeq(Message, 1, fed'))
  BY <1>5, <1>6, <1>7
<1> QED
  BY <1>3, <1>4, <1>8 DEF HashInv, DigestIsOfMessage

LEMMA UpdateHashInv == HashInv /\ UpdateHash => HashInv'
<1> SUFFICES ASSUME HashInv, UpdateHash PROVE HashInv'
  OBVIOUS
<1> DEFINE i == fed + 1
           bytes == Padded(key) \o SubSeq(Message, 1, fed)
<1>1. /\ stage = "open" /\ stage' = "open" /\ fed' = i /\ key' = key
      /\ ctx' = Added(ctx, Message[i]) /\ fed < Len(Message)
  BY DEF UpdateHash
<1>2. Message \in Seq(0 .. 255) /\ key \in Seq(0 .. 255) /\ Len(key) <= 32
  BY HashAssumption DEF HashInv, HashTypes
<1>3. fed \in Nat /\ i \in 1 .. Len(Message) /\ i - 1 = fed /\ fed' \in 0 .. Len(Message)
  BY <1>1, <1>2 DEF HashInv, HashTypes
<1>4. Padded(key) \in Seq(0 .. 255)
  BY <1>2, InitIs
<1>5. MidHash(ctx, ctx.outlen, Len(key), bytes)
  BY <1>1 DEF HashInv
<1> HIDE DEF i
<1>6. /\ Message[i] \in 0 .. 255 /\ bytes \in Seq(0 .. 255)
      /\ Padded(key) \o SubSeq(Message, 1, i) = Append(bytes, Message[i])
  <2>1. /\ Message[i] \in 0 .. 255
        /\ Padded(key) \o SubSeq(Message, 1, i - 1) \in Seq(0 .. 255)
        /\ Padded(key) \o SubSeq(Message, 1, i)
             = Append(Padded(key) \o SubSeq(Message, 1, i - 1), Message[i])
    <3>1. Padded(key) \in Seq(0 .. 255) /\ Message \in Seq(0 .. 255) /\ i \in 1 .. Len(Message)
      BY <1>2, <1>3, <1>4
    <3> HIDE DEF bytes
    <3> QED
      BY <3>1, OneMore
  <2> QED
    BY <1>3, <2>1
<1> HIDE DEF bytes
<1>7. MidHash(ctx', ctx.outlen, Len(key), Padded(key) \o SubSeq(Message, 1, i))
  BY <1>1, <1>5, <1>6, ByteAdded
<1>8. ctx'.outlen = ctx.outlen
  BY <1>7 DEF MidHash
<1>9. HashTypes'
  BY <1>1, <1>2, <1>3 DEF HashTypes
<1> QED
  BY <1>1, <1>7, <1>8, <1>9 DEF HashInv, DigestIsOfMessage

LEMMA FinalHashInv == HashInv /\ FinalHash => HashInv'
<1> SUFFICES ASSUME HashInv, FinalHash PROVE HashInv'
  OBVIOUS
<1> DEFINE in == SubSeq(Message, 1, fed)
<1>1. /\ stage = "open" /\ stage' = "done" /\ fed' = fed /\ key' = key
      /\ ctx' = blake2s_final(ctx) /\ digest' = Output(ctx')
  BY DEF FinalHash
<1>2. Message \in Seq(0 .. 255) /\ key \in Seq(0 .. 255) /\ Len(key) <= 32 /\ fed \in 0 .. Len(Message)
  BY HashAssumption DEF HashInv, HashTypes
<1>3. in \in Seq(0 .. 255)
  <2>1. fed \in Int /\ \A j \in 1 .. fed : Message[j] \in 0 .. 255
    <3>1. Len(Message) \in Nat /\ \A j \in 1 .. Len(Message) : Message[j] \in 0 .. 255
      BY <1>2, LenProperties, ElementOfSeq
    <3> QED
      BY <1>2, <3>1
  <2> QED
    BY <2>1, SubSeqProperties
<1>4. Padded(key) \in Seq(0 .. 255)
  BY <1>2, InitIs
<1>5. MidHash(ctx, ctx.outlen, Len(key), Padded(key) \o in)
  BY <1>1 DEF HashInv
<1> HIDE DEF in
<1>6. Padded(key) \o in \in Seq(0 .. 255)
  BY <1>3, <1>4, ConcatProperties
<1>7. /\ ctx'.outlen = ctx.outlen
      /\ digest' = DigestOf(ctx.outlen, Len(key), Padded(key) \o in)
  <2>1. /\ blake2s_final(ctx).outlen = ctx.outlen
        /\ Output(blake2s_final(ctx)) = DigestOf(ctx.outlen, Len(key), Padded(key) \o in)
    BY <1>5, <1>6, FinalIs
  <2> QED
    BY <1>1, <2>1
<1>8. HashTypes'
  BY <1>1 DEF HashInv, HashTypes
<1>9. DigestIsOfMessage'
  BY <1>1, <1>7 DEF DigestIsOfMessage, Definition, in
<1> QED
  BY <1>1, <1>8, <1>9 DEF HashInv

\* The digest is the one of the whole message, for every message, every key, and
\* every length the message is asked at.
THEOREM DigestHolds == HashSpec => []DigestIsOfMessage
<1>1. HashInv /\ [HashNext]_hashvars => HashInv'
  <2>1. ASSUME HashInv, UNCHANGED hashvars PROVE HashInv'
    BY <2>1 DEF HashInv, HashTypes, DigestIsOfMessage, hashvars
  <2> QED
    BY <2>1, InitHashInv, UpdateHashInv, FinalHashInv DEF HashNext
<1>2. HashInv => DigestIsOfMessage
  BY DEF HashInv
<1> QED
  BY <1>1, <1>2, HashInitInv, PTL DEF HashSpec
=============================================================================
