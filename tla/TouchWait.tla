------------------------------ MODULE TouchWait ------------------------------
(***************************************************************************)
(* touch_wait() of the device libraries (libcommon/touch.c) with the timer *)
(* core (core/timer) and the touch sensor core (core/touch_sense), clock   *)
(* edge by clock edge.                                                     *)
(*                                                                         *)
(* On an edge the CPU makes at most one access to one of the cores; it may *)
(* let any number of edges pass in between.  The finger touches and lets   *)
(* go of the sensor at any edge.  Each touch has a number, which goes      *)
(* through the sampling registers in the place of the level 1: that tells  *)
(* which touch an event is about.                                          *)
(***************************************************************************)
EXTENDS Naturals

CONSTANTS
  Prescaler,   \* clocks of a tick, CPUFREQ / 10 in the code
  Ticks,       \* timeouts in ticks that may be asked for, timeout_s * 10
  MaxCalls,    \* bound: calls of touch_wait()
  MaxTouches   \* bound: times the sensor is touched

ASSUME TouchAssumption ==
  /\ Prescaler \in Nat /\ Ticks \subseteq Nat
  /\ MaxCalls \in Nat /\ MaxTouches \in Nat

VARIABLES
  \* timer.v
  prescaler_reg, timer_reg, start_reg, stop_reg,
  \* timer_core.v
  core_prescaler_reg, core_timer_reg, running,
  \* touch_sense.v
  touch_event, sample0_reg, sample1_reg, touch_event_reg, touch_sense_ctrl_reg,
  \* touch_wait()
  pc, timeout, time, lasttime, ledon, led, result,
  \* history
  calls,     \* calls made
  touches,   \* touches so far
  known,     \* the touches up to this one had been seen by the sensor core
             \* when the call acknowledged stray events
  confirmed, \* the touch a call has returned TRUE for
  elapsed    \* clocks since the call started the timer, as far as they matter
timervars == <<prescaler_reg, timer_reg, start_reg, stop_reg,
               core_prescaler_reg, core_timer_reg, running>>
sensorvars == <<touch_event, sample0_reg, sample1_reg, touch_event_reg, touch_sense_ctrl_reg,
                touches>>
programvars == <<pc, timeout, time, lasttime, ledon, led, result, calls, known, confirmed>>
touchvars == <<timervars, sensorvars, programvars, elapsed>>

\* An access of the CPU.
NoAccess == [op |-> "none", reg |-> "none", val |-> 0]
ReadReg(reg) == [op |-> "read", reg |-> reg, val |-> 0]
WriteReg(reg, val) == [op |-> "write", reg |-> reg, val |-> val]
Writes(a, reg) == a.op = "write" /\ a.reg = reg

(***************************************************************************)
(* timer.v: start and stop are pulses of one clock; the initial values     *)
(* cannot be changed while the timer runs.                                 *)
(***************************************************************************)
TimerApi(a) ==
  /\ start_reg' = (Writes(a, "ctrl") /\ a.val = "start")
  /\ stop_reg' = (Writes(a, "ctrl") /\ a.val = "stop")
  /\ prescaler_reg' = IF ~running /\ Writes(a, "prescaler") THEN a.val ELSE prescaler_reg
  /\ timer_reg' = IF ~running /\ Writes(a, "timer") THEN a.val ELSE timer_reg

\* What the CPU reads from TIMER.
TimerRead == IF running THEN core_timer_reg ELSE timer_reg

\* timer_core.v
LastTick == core_prescaler_reg <= 1
Expired == LastTick /\ core_timer_reg <= 1

CoreStart ==
  /\ ~running /\ start_reg
  /\ core_prescaler_reg' = prescaler_reg /\ core_timer_reg' = timer_reg
  /\ running' = TRUE

CoreStop ==
  /\ running /\ (stop_reg \/ Expired)
  /\ running' = FALSE
  /\ UNCHANGED <<core_prescaler_reg, core_timer_reg>>

CoreCount ==
  /\ running /\ ~stop_reg /\ ~Expired
  /\ IF LastTick
     THEN core_prescaler_reg' = prescaler_reg /\ core_timer_reg' = core_timer_reg - 1
     ELSE core_prescaler_reg' = core_prescaler_reg - 1 /\ UNCHANGED core_timer_reg
  /\ UNCHANGED running

CoreIdle ==
  /\ ~running /\ ~start_reg
  /\ UNCHANGED <<core_prescaler_reg, core_timer_reg, running>>

(***************************************************************************)
(* touch_sense.v: two samples, then an event that stays until it is        *)
(* cleared, then nothing until the sensor is let go of.                    *)
(***************************************************************************)
Finger ==
  \/ UNCHANGED <<touch_event, touches>>
  \/ /\ touch_event = 0 /\ touches < MaxTouches
     /\ touches' = touches + 1 /\ touch_event' = touches + 1
  \/ touch_event > 0 /\ touch_event' = 0 /\ UNCHANGED touches

SenseHeld(a) ==
  /\ sample0_reg' = touch_event
  /\ sample1_reg' = sample0_reg
  /\ CASE touch_sense_ctrl_reg = "IDLE" /\ sample1_reg > 0 ->
            touch_event_reg' = sample1_reg /\ touch_sense_ctrl_reg' = "EVENT"
       [] touch_sense_ctrl_reg = "EVENT" /\ Writes(a, "touch") ->
            touch_event_reg' = 0 /\ touch_sense_ctrl_reg' = "IDLE"
       [] OTHER -> UNCHANGED <<touch_event_reg, touch_sense_ctrl_reg>>

Sense(a) ==
  /\ sample0_reg' = touch_event
  /\ sample1_reg' = sample0_reg
  /\ CASE touch_sense_ctrl_reg = "IDLE" /\ sample1_reg > 0 ->
            touch_event_reg' = sample1_reg /\ touch_sense_ctrl_reg' = "EVENT"
       [] touch_sense_ctrl_reg = "EVENT" /\ Writes(a, "touch") ->
            touch_event_reg' = 0 /\ touch_sense_ctrl_reg' = "WAIT"
       [] touch_sense_ctrl_reg = "WAIT" /\ sample1_reg = 0 ->
            touch_sense_ctrl_reg' = "IDLE" /\ UNCHANGED touch_event_reg
       [] OTHER -> UNCHANGED <<touch_event_reg, touch_sense_ctrl_reg>>

\* One rising edge of the clock with access `a' of the CPU.
TouchEdge(a) ==
  /\ TimerApi(a)
  /\ CoreStart \/ CoreStop \/ CoreCount \/ CoreIdle
  /\ Finger
  /\ Sense(a)
  /\ elapsed' = IF Writes(a, "ctrl") /\ a.val = "start" THEN 0
                ELSE IF elapsed <= Prescaler * timeout THEN elapsed + 1 ELSE elapsed

TouchInit ==
  /\ prescaler_reg = 0 /\ timer_reg = 0 /\ start_reg = FALSE /\ stop_reg = FALSE
  /\ core_prescaler_reg = 0 /\ core_timer_reg = 0 /\ running = FALSE
  /\ touch_event = 0 /\ sample0_reg = 0 /\ sample1_reg = 0 /\ touch_event_reg = 0
  /\ touch_sense_ctrl_reg = "IDLE"
  /\ pc = "call" /\ timeout = 0 /\ time = 0 /\ lasttime = 0
  /\ ledon = FALSE /\ led = "original" /\ result = "none"
  /\ calls = 0 /\ touches = 0 /\ known = 0 /\ confirmed = 0
  /\ elapsed = 0

(***************************************************************************)
(* touch_wait(), one access after the other.                               *)
(***************************************************************************)
Tick == TouchEdge(NoAccess) /\ UNCHANGED programvars

CallTouchWait ==
  /\ pc = "call" /\ calls < MaxCalls
  /\ timeout' \in Ticks
  /\ calls' = calls + 1
  /\ time' = 0 /\ lasttime' = 0 /\ ledon' = FALSE /\ result' = "none"
  /\ pc' = "prescaler"
  /\ TouchEdge(NoAccess)
  /\ UNCHANGED <<led, known, confirmed>>

At(place, a, next) == pc = place /\ TouchEdge(a) /\ pc' = next

Setting == UNCHANGED <<timeout, time, lasttime, ledon, led, result, calls, confirmed>>

SetPrescaler == At("prescaler", WriteReg("prescaler", Prescaler), "timer") /\ Setting /\ UNCHANGED known
SetTimer == At("timer", WriteReg("timer", timeout), "start") /\ Setting /\ UNCHANGED known
StartTimer == At("start", WriteReg("ctrl", "start"), "stray") /\ Setting /\ UNCHANGED known

Later(i, j) == IF i > j THEN i ELSE j

\* The touches the core had seen: one in the sampling registers is new, the one
\* the last call returned for is not.
AcknowledgeStray ==
  /\ At("stray", WriteReg("touch", 0), "touched")
  /\ known' = IF touch_sense_ctrl_reg = "EVENT" THEN touch_event_reg
              ELSE Later(known, confirmed)
  /\ Setting

Touched ==
  /\ At("touched", ReadReg("touch"), IF touch_event_reg > 0 THEN "final" ELSE "status")
  /\ Setting /\ UNCHANGED known

StatusIgnored ==
  /\ At("status", ReadReg("status"), "time")
  /\ Setting /\ UNCHANGED known

Status ==
  /\ At("status", ReadReg("status"), IF running THEN "time" ELSE "final")
  /\ Setting /\ UNCHANGED known

Blink ==
  /\ At("time", ReadReg("timer"), "touched")
  /\ time' = TimerRead
  /\ IF TimerRead % 2 = 0 /\ TimerRead # lasttime
     THEN /\ lasttime' = TimerRead
          /\ ledon' = ~ledon
          /\ led' = IF ledon THEN "black" ELSE "color"
     ELSE UNCHANGED <<lasttime, ledon, led>>
  /\ UNCHANGED <<timeout, result, calls, known, confirmed>>

(* The LED is restored; was it a timeout? *)
Timeout ==
  /\ pc = "final" /\ ~running
  /\ At("final", ReadReg("status"), "call")
  /\ led' = "original" /\ result' = "false"
  /\ UNCHANGED <<timeout, time, lasttime, ledon, calls, known, confirmed>>

InTime ==
  /\ pc = "final" /\ running
  /\ At("final", ReadReg("status"), "stop")
  /\ led' = "original"
  /\ UNCHANGED <<timeout, time, lasttime, ledon, result, calls, known, confirmed>>

StopTimer == At("stop", WriteReg("ctrl", "stop"), "confirm") /\ Setting /\ UNCHANGED known

Confirm ==
  /\ At("confirm", WriteReg("touch", 0), "call")
  /\ result' = "true"
  /\ confirmed' = touch_event_reg
  /\ UNCHANGED <<timeout, time, lasttime, ledon, led, calls, known>>

Cpu ==
  \/ SetPrescaler \/ SetTimer \/ StartTimer \/ AcknowledgeStray
  \/ Touched \/ Status \/ Blink \/ Timeout \/ InTime \/ StopTimer \/ Confirm

TouchNext == Tick \/ CallTouchWait \/ Cpu

TouchSpec == TouchInit /\ [][TouchNext]_touchvars

\* The CPU runs.
TouchFairness == WF_touchvars(Cpu)

(***************************************************************************)
(* Properties                                                              *)
(***************************************************************************)
(* touch_wait() returns TRUE only for a touch that the sensor core had not
   seen when stray events were acknowledged: never for one from before the
   call, and never twice for the same. *)
TouchIsNew == result = "true" => confirmed > known

(* It returns FALSE only after the timeout that was asked for, whatever an
   earlier call left in the timer. *)
TimeoutIsFull == result = "false" => elapsed >= Prescaler * timeout

TouchWaitIsRight == TouchIsNew /\ TimeoutIsFull
=============================================================================
