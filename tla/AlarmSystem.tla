---------------------------- MODULE AlarmSystem ----------------------------
(***************************************************************************)
(* The alarm module of the trigger device (AlarmSystem.h): when may a pin  *)
(* trigger become a radio request?  The decision compares millis(), stored *)
(* in an int, with two earlier readings of it.                             *)
(*                                                                         *)
(* Time advances one millisecond per Tick.  The counter has 2 * Half       *)
(* values and wraps; the difference of two readings is the two's           *)
(* complement one, which the compiler of the target produces.  The true    *)
(* ages of the two readings are kept as history, to compare the decision   *)
(* with what really elapsed.                                               *)
(***************************************************************************)
EXTENDS Integers

CONSTANTS
  Half,       \* 2^31 on the device: half the range of millis()
  MinDelay,   \* TRIGGERS_MIN_DELAY
  AckDelay,   \* ACK_DELAY
  AgeCap      \* bound: the history counts no age past this many milliseconds

ASSUME DelaysAssumption ==
  /\ Half \in Nat /\ MinDelay \in Nat /\ AckDelay \in Nat /\ AgeCap \in Nat
  /\ MinDelay < Half /\ AckDelay < Half
  /\ AgeCap >= 2 * Half

VARIABLES
  clock,         \* millis(), modulo its range
  lastTrigger, lastRequest, receivedAck,   \* the fields of AlarmSystem
  sinceTrigger,  \* history: true time since the last trigger, or since boot
  sinceRequest,  \* history: true time since the last request, or since boot
  outcome        \* history: what the last step did with a trigger, if it was one

vars == <<clock, lastTrigger, lastRequest, receivedAck,
          sinceTrigger, sinceRequest, outcome>>

Range == 2 * Half
Times == 0..(Range - 1)

TypeOK ==
  /\ clock \in Times
  /\ lastTrigger \in Times
  /\ lastRequest \in Times
  /\ receivedAck \in BOOLEAN
  /\ sinceTrigger \in 0..AgeCap
  /\ sinceRequest \in 0..AgeCap
  /\ outcome \in {"none", "sent", "pending", "debounced"}

Init ==
  /\ clock = 0 /\ lastTrigger = 0 /\ lastRequest = 0
  /\ receivedAck = FALSE
  /\ sinceTrigger = 0 /\ sinceRequest = 0
  /\ outcome = "none"

(* a - b for two readings of the counter, as the int subtraction gives it. *)
Residue(a, b) == IF a >= b THEN a - b ELSE a - b + Range
Elapsed(a, b) == IF Residue(a, b) < Half THEN Residue(a, b) ELSE Residue(a, b) - Range

Older(age) == IF age < AgeCap THEN age + 1 ELSE age

-----------------------------------------------------------------------------
(* The counter's next value; seeded fault: it is kept past its range. *)
AdvanceNoWrap(t) == t + 1
Advance(t) == IF t + 1 = Range THEN 0 ELSE t + 1

(* A millisecond passes. *)
Tick ==
  /\ clock' = Advance(clock)
  /\ sinceTrigger' = Older(sinceTrigger)
  /\ sinceRequest' = Older(sinceRequest)
  /\ outcome' = "none"
  /\ UNCHANGED <<lastTrigger, lastRequest, receivedAck>>

(* The two tests of onMotionDetected. *)
Settled == Elapsed(clock, lastTrigger) > MinDelay
Rearmed == Elapsed(clock, lastRequest) > AckDelay

(* Seeded fault: the time of the trigger is not kept. *)
NoteTriggerForgetful == sinceTrigger' = 0 /\ UNCHANGED <<clock, lastTrigger>>

(* Every trigger, forwarded or not, restarts the first delay. *)
NoteTrigger == lastTrigger' = clock /\ sinceTrigger' = 0 /\ UNCHANGED clock

(* Seeded fault: the time of the request is not kept. *)
SendForgetful ==
  /\ Settled /\ Rearmed
  /\ NoteTrigger
  /\ receivedAck' = FALSE
  /\ sinceRequest' = 0
  /\ outcome' = "sent"
  /\ UNCHANGED lastRequest

(* onMotionDetected sends the request "Alarm:onAlert" over the radio ... *)
Send ==
  /\ Settled /\ Rearmed
  /\ NoteTrigger
  /\ lastRequest' = clock
  /\ receivedAck' = FALSE
  /\ sinceRequest' = 0
  /\ outcome' = "sent"

(* Seeded fault: a suppressed trigger restarts the second delay as well. *)
SuppressRestarts ==
  /\ Settled /\ ~Rearmed
  /\ NoteTrigger
  /\ lastRequest' = clock
  /\ outcome' = "pending"
  /\ UNCHANGED <<receivedAck, sinceRequest>>

(* ... or reports a "pending request awaiting ACK" ... *)
Suppress ==
  /\ Settled /\ ~Rearmed
  /\ NoteTrigger
  /\ outcome' = "pending"
  /\ UNCHANGED <<lastRequest, receivedAck, sinceRequest>>

(* ... or ignores a trigger too close to the one before. *)
Debounce ==
  /\ ~Settled
  /\ NoteTrigger
  /\ outcome' = "debounced"
  /\ UNCHANGED <<lastRequest, receivedAck, sinceRequest>>

(* onEvent does not look at which pin the PIN_TRIGGER event is about. *)
OnEvent == Send \/ Suppress \/ Debounce

(* onApiCall("msgACK"); onApiCall("onAlert") only writes a log. *)
OnMsgAck ==
  /\ receivedAck' = TRUE
  /\ outcome' = "none"
  /\ UNCHANGED <<clock, lastTrigger, lastRequest, sinceTrigger, sinceRequest>>

Next == Tick \/ OnEvent \/ OnMsgAck

Spec == Init /\ [][Next]_vars

-----------------------------------------------------------------------------
(* AlarmSystem.h:66: two requests are more than ACK_DELAY apart in real      *)
(* time, and so is the first one from boot, even when millis() wraps         *)
(* between them.                                                             *)
RequestsSpaced == [][outcome' = "sent" => sinceRequest > AckDelay]_vars

(* A trigger is forwarded when the delays have elapsed, less than half the   *)
(* range of millis() ago: nothing else can hold an alarm back.               *)
RearmsWithinHalf ==
  [][(/\ outcome' # "none"
      /\ sinceTrigger \in (MinDelay + 1)..(Half - 1)
      /\ sinceRequest \in (AckDelay + 1)..(Half - 1))
     => outcome' = "sent"]_vars

(* AlarmSystem.h:59, 80: triggers that follow each other within              *)
(* TRIGGERS_MIN_DELAY of real time are one motion.  However long it lasts    *)
(* and wherever millis() wraps, none but its first leads to anything.        *)
MotionCountsOnce ==
  [][outcome' # "none" /\ sinceTrigger <= MinDelay => outcome' = "debounced"]_vars
=============================================================================
