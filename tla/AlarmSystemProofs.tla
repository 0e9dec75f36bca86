------------------------- MODULE AlarmSystemProofs -------------------------
(***************************************************************************)
(* Proofs about the alarm delays, for every width of the counter and every *)
(* pair of delays below half its range.                                    *)
(***************************************************************************)
EXTENDS AlarmSystem, TLAPS

-----------------------------------------------------------------------------
(* TypeOK is inductive: the counter and its stored readings stay in range.   *)
THEOREM TypeCorrect == Spec => []TypeOK
<1>1. Init => TypeOK
  <2>1. 0 \in Times /\ 0 \in 0..AgeCap
    BY DelaysAssumption DEF Times, Range
  <2> QED
    BY <2>1 DEF Init, TypeOK
<1>2. TypeOK /\ [Next]_vars => TypeOK'
  <2> SUFFICES ASSUME TypeOK, [Next]_vars PROVE TypeOK'
    OBVIOUS
  <2>0. 0 \in 0..AgeCap
    BY DelaysAssumption
  <2>1. CASE Tick
    <3>1. clock' \in Times
      BY <2>1, DelaysAssumption DEF Tick, Advance, TypeOK, Times, Range
    <3>2. sinceTrigger' \in 0..AgeCap /\ sinceRequest' \in 0..AgeCap
      BY <2>1, DelaysAssumption DEF Tick, TypeOK, Older
    <3> QED
      BY <2>1, <3>1, <3>2 DEF Tick, TypeOK
  <2>2. CASE Send
    BY <2>0, <2>2 DEF Send, NoteTrigger, TypeOK
  <2>3. CASE Suppress
    BY <2>0, <2>3 DEF Suppress, NoteTrigger, TypeOK
  <2>4. CASE Debounce
    BY <2>0, <2>4 DEF Debounce, NoteTrigger, TypeOK
  <2>5. CASE OnMsgAck
    BY <2>5 DEF OnMsgAck, TypeOK
  <2>6. CASE UNCHANGED vars
    BY <2>6 DEF vars, TypeOK
  <2> QED
    BY <2>1, <2>2, <2>3, <2>4, <2>5, <2>6 DEF Next, OnEvent
<1> QED
  BY <1>1, <1>2, PTL DEF Spec

-----------------------------------------------------------------------------
(***************************************************************************)
(* What the wrapped difference knows about the true age of a reading: it   *)
(* never exceeds it, and equals it until the counter has gone once round.  *)
(***************************************************************************)
Tracks(reading, age) ==
  /\ Residue(clock, reading) <= age
  /\ age < Range => Residue(clock, reading) = age

AgeInv == Tracks(lastTrigger, sinceTrigger) /\ Tracks(lastRequest, sinceRequest)

LEMMA TickTracks ==
  ASSUME TypeOK, Tick, NEW reading \in Times, NEW age \in 0..AgeCap, Tracks(reading, age)
  PROVE  /\ Residue(clock', reading) <= Older(age)
         /\ Older(age) < Range => Residue(clock', reading) = Older(age)
  BY DelaysAssumption DEF TypeOK, Tick, Advance, Tracks, Residue, Older, Times, Range

LEMMA NowTracks ==
  ASSUME NEW t \in Times
  PROVE  Residue(t, t) = 0
  BY DEF Residue, Times, Range

LEMMA AgesTracked == Spec => []AgeInv
<1>1. Init => AgeInv
  BY DelaysAssumption DEF Init, AgeInv, Tracks, Residue, Range
<1>2. TypeOK /\ AgeInv /\ [Next]_vars => AgeInv'
  <2> SUFFICES ASSUME TypeOK, AgeInv, [Next]_vars PROVE AgeInv'
    OBVIOUS
  <2>0. Range \in Nat /\ 0 < Range
    BY DelaysAssumption DEF Range
  <2>1. CASE Tick
    BY <2>1, TickTracks DEF AgeInv, Tracks, Tick, TypeOK
  <2>2. CASE Send
    BY <2>0, <2>2, NowTracks DEF Send, NoteTrigger, AgeInv, Tracks, TypeOK
  <2>3. CASE Suppress
    BY <2>0, <2>3, NowTracks DEF Suppress, NoteTrigger, AgeInv, Tracks, TypeOK
  <2>4. CASE Debounce
    BY <2>0, <2>4, NowTracks DEF Debounce, NoteTrigger, AgeInv, Tracks, TypeOK
  <2>5. CASE OnMsgAck
    BY <2>5 DEF OnMsgAck, AgeInv, Tracks
  <2>6. CASE UNCHANGED vars
    BY <2>6 DEF vars, AgeInv, Tracks
  <2> QED
    BY <2>1, <2>2, <2>3, <2>4, <2>5, <2>6 DEF Next, OnEvent
<1> QED
  BY <1>1, <1>2, TypeCorrect, PTL DEF Spec

(* A difference above a delay is a true age above it, and the converse holds *)
(* while the age is below half the range.                                    *)
LEMMA ElapsedIsSound ==
  ASSUME TypeOK, NEW reading \in Times, NEW age \in 0..AgeCap, Tracks(reading, age),
         NEW delay \in Nat, delay < Half
  PROVE  /\ Elapsed(clock, reading) > delay => age > delay
         /\ age > delay /\ age < Half => Elapsed(clock, reading) > delay
  BY DelaysAssumption DEF TypeOK, Tracks, Elapsed, Residue, Times, Range

-----------------------------------------------------------------------------
(* Two alarm requests are never closer than ACK_DELAY in real time, at any   *)
(* position of the wrapping millisecond counter.                             *)
THEOREM RequestsAreSpaced == Spec => RequestsSpaced
<1>1. TypeOK /\ AgeInv /\ [Next]_vars => [outcome' = "sent" => sinceRequest > AckDelay]_vars
  <2> SUFFICES ASSUME TypeOK, AgeInv, Next, outcome' = "sent"
               PROVE  sinceRequest > AckDelay
    BY DEF Next
  <2>1. Rearmed
    BY DEF Next, Tick, OnEvent, Send, Suppress, Debounce, OnMsgAck
  <2> QED
    BY <2>1, DelaysAssumption, ElapsedIsSound DEF AgeInv, TypeOK, Rearmed
<1> QED
  BY <1>1, TypeCorrect, AgesTracked, PTL DEF Spec, RequestsSpaced

(* Nothing but a recent trigger or a recent request holds an alarm back      *)
(* during the first half of the counter's range: 24.8 days on the device.    *)
THEOREM RearmsWithinHalfRange == Spec => RearmsWithinHalf
<1> DEFINE A == (/\ outcome' # "none"
                 /\ sinceTrigger \in (MinDelay + 1)..(Half - 1)
                 /\ sinceRequest \in (AckDelay + 1)..(Half - 1)) => outcome' = "sent"
<1>1. TypeOK /\ AgeInv /\ [Next]_vars => [A]_vars
  <2> SUFFICES ASSUME TypeOK, AgeInv, Next, outcome' # "none",
                      sinceTrigger \in (MinDelay + 1)..(Half - 1),
                      sinceRequest \in (AckDelay + 1)..(Half - 1)
               PROVE  outcome' = "sent"
    OBVIOUS
  <2>1. Settled
    BY DelaysAssumption, ElapsedIsSound DEF AgeInv, TypeOK, Settled
  <2>2. Rearmed
    BY DelaysAssumption, ElapsedIsSound DEF AgeInv, TypeOK, Rearmed
  <2> QED
    BY <2>1, <2>2 DEF Next, Tick, OnEvent, Send, Suppress, Debounce, OnMsgAck
<1> QED
  BY <1>1, TypeCorrect, AgesTracked, PTL DEF Spec, RearmsWithinHalf

(* No trigger within TRIGGERS_MIN_DELAY of the one before leads to a request *)
(* or reports one: the wrapped difference never makes it look older.         *)
THEOREM MotionsCountOnce == Spec => MotionCountsOnce
<1>1. TypeOK /\ AgeInv /\ [Next]_vars =>
        [outcome' # "none" /\ sinceTrigger <= MinDelay => outcome' = "debounced"]_vars
  <2> SUFFICES ASSUME TypeOK, AgeInv, Next, outcome' # "none", sinceTrigger <= MinDelay
               PROVE  outcome' = "debounced"
    OBVIOUS
  <2>1. MinDelay \in Nat /\ sinceTrigger \in Nat /\ MinDelay < Half
    BY DelaysAssumption DEF TypeOK
  <2>2. ~Settled
    <3>1. Settled => sinceTrigger > MinDelay
      BY <2>1, ElapsedIsSound DEF AgeInv, TypeOK, Settled
    <3> QED
      BY <2>1, <3>1
  <2> QED
    BY <2>2 DEF Next, Tick, OnEvent, Send, Suppress, Debounce, OnMsgAck
<1> QED
  BY <1>1, TypeCorrect, AgesTracked, PTL DEF Spec, MotionCountsOnce
=============================================================================
