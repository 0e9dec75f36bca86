-------------------------- MODULE RemoteGpioProofs --------------------------
(***************************************************************************)
(* Proofs about the watchdog of the pins, for any pins, channels, messages *)
(* and width of its counter.                                               *)
(***************************************************************************)
EXTENDS RemoteGpio, SequenceTheorems, TLAPS

(* Every channel is at the default of the pin that resets it last. *)
AtDefaults == \A c \in Chans : \A p \in Pins : LastOn(c, p) => duty[c] = pins[p].default

(* The counter is never ahead of the loops since the last ping, and behind   *)
(* them only after it has overflowed or stopped.  Since the last message it  *)
(* has counted every loop, or it has stopped and the pins were reset.        *)
WatchdogInv ==
  /\ cyclesCount \in Int /\ cyclesCount <= unfed
  /\ resetCycles \in Nat
  /\ unfed \in Nat /\ silent \in Nat /\ silent <= unfed
  /\ DOMAIN duty = Chans
  /\ todo # << >> => silent = 0
  /\ unfed < IntHalf => cyclesCount >= 0
  /\ up /\ resetCycles # 0 /\ unfed < IntHalf =>
       \/ silent = 0
       \/ silent <= cyclesCount /\ cyclesCount <= resetCycles + 1
       \/ AtDefaults

(* At most one pin resets a channel last. *)
LEMMA LastIsUnique ==
  ASSUME NEW c, NEW p \in Pins, NEW q \in Pins, LastOn(c, p), LastOn(c, q)
  PROVE  p = q
BY RemoteGpioAssumption DEF LastOn

(* A reset of the pins is one. *)
LEMMA ResetIsDefault ==
  ASSUME ResetPinsDefaults, UNCHANGED pins
  PROVE  AtDefaults' /\ DOMAIN duty' = Chans
<1>1. ASSUME NEW c \in Chans, NEW p \in Pins, LastOn(c, p)
      PROVE  duty'[c] = pins[p].default
  <2>1. p = CHOOSE q \in Pins : LastOn(c, q)
    BY <1>1, LastIsUnique
  <2> QED
    BY <1>1, <2>1 DEF ResetPinsDefaults
<1>2. \A c, p : LastOn(c, p)' <=> LastOn(c, p)
  BY DEF LastOn, Resettable
<1>3. DOMAIN duty' = Chans
  BY DEF ResetPinsDefaults
<1> QED
  BY <1>1, <1>2, <1>3 DEF AtDefaults

LEMMA WatchdogInit == Init => WatchdogInv
BY RemoteGpioAssumption DEF Init, WatchdogInv

LEMMA WatchdogStep == WatchdogInv /\ [Next]_vars => WatchdogInv'
<1> SUFFICES ASSUME WatchdogInv, [Next]_vars PROVE WatchdogInv'
  OBVIOUS
<1>1. CASE Loop /\ KeepState
  <2>1. UNCHANGED <<pins, duty, resetCycles, todo, up>> /\ cyclesCount' = Increment(cyclesCount)
        /\ unfed' = unfed + 1 /\ silent' = silent + 1 /\ todo = << >> /\ up
    BY <1>1 DEF Loop, Idle
  <2>2. AtDefaults => AtDefaults'
    BY <2>1 DEF AtDefaults, LastOn, Resettable
  <2> QED
    BY <1>1, <2>1, <2>2, RemoteGpioAssumption DEF WatchdogInv, Increment, KeepState
<1>2. CASE Loop /\ ~KeepState
  <2>1. AtDefaults' /\ DOMAIN duty' = Chans
    BY <1>2, ResetIsDefault DEF Loop
  <2> QED
    BY <1>2, <2>1, RemoteGpioAssumption DEF Loop, Idle, WatchdogInv
<1>3. CASE ExtractMsg
  <2> PICK m \in Messages : Command(m)
    BY <1>3 DEF ExtractMsg
  <2>1. m.resetCycles \in Nat
    BY RemoteGpioAssumption
  <2> QED
    BY <1>3, <2>1 DEF ExtractMsg, Command, WatchdogInv
<1>4. CASE PinFault
  BY <1>4 DEF PinFault, WatchdogInv
<1>5. CASE PinRead \/ PinFree
  BY <1>5 DEF PinRead, PinFree, Turn, Proceed, WatchdogInv
<1>6. CASE PinWrite
  BY <1>6 DEF PinWrite, Turn, Proceed, Written, WatchdogInv
<1>7. CASE PinAuto
  BY <1>7 DEF PinAuto, Turn, Proceed, WatchdogInv
<1>8. CASE Restart
  BY <1>8 DEF Restart, WatchdogInv
<1>9. CASE UNCHANGED vars
  BY <1>9 DEF vars, WatchdogInv, AtDefaults, LastOn, Resettable
<1> QED
  BY <1>1, <1>2, <1>3, <1>4, <1>5, <1>6, <1>7, <1>8, <1>9 DEF Next

(* No output changes by itself before the client has been silent for more    *)
(* than resetCycles loops, whatever it sent before.                          *)
THEOREM NoResetIsEarly == Spec => NoEarlyReset
<1>1. WatchdogInv /\ [Next]_vars
        => [duty' # duty /\ todo = << >> /\ up => resetCycles # 0 /\ unfed > resetCycles]_vars
  <2> SUFFICES ASSUME WatchdogInv, Next, duty' # duty, todo = << >>, up
               PROVE  resetCycles # 0 /\ unfed > resetCycles
    OBVIOUS
  <2>1. Loop /\ ~KeepState
    BY DEF Next, Loop, ExtractMsg, PinFault, PinRead, PinFree, PinWrite, PinAuto, Turn,
       Restart
  <2> QED
    BY <2>1 DEF KeepState, WatchdogInv
<1> QED
  BY <1>1, WatchdogInit, WatchdogStep, PTL DEF Spec, NoEarlyReset

(* A client that falls silent leaves no output away from its default.        *)
THEOREM SilenceResets == Spec => []SilentMeansDefault
<1>1. WatchdogInv => SilentMeansDefault
  BY DEF WatchdogInv, SilentMeansDefault, AtDefaults, Idle
<1> QED
  BY <1>1, WatchdogInit, WatchdogStep, PTL DEF Spec

-----------------------------------------------------------------------------
(* A table that has one more pin is a table. *)
LEMMA TableGrows ==
  ASSUME NEW t \in Tables, NEW p \in Pins, NEW conf \in Confs
  PROVE  [q \in DOMAIN t \cup {p} |-> IF q \in DOMAIN t THEN t[q] ELSE conf] \in Tables
<1>1. PICK P \in SUBSET Pins : t \in [P -> Confs]
  BY DEF Tables
<1>2. [q \in P \cup {p} |-> IF q \in P THEN t[q] ELSE conf] \in [P \cup {p} -> Confs]
  BY <1>1
<1> QED
  BY <1>1, <1>2 DEF Tables

LEMMA NoTable == << >> \in Tables
<1>1. << >> \in [{} -> Confs]
  OBVIOUS
<1> QED
  BY <1>1 DEF Tables

LEMMA TableEntry ==
  ASSUME NEW t \in Tables, NEW p \in DOMAIN t
  PROVE  t[p] \in Confs
  BY DEF Tables

(* A reset leaves duty cycles on the channels: no default, which is no duty  *)
(* cycle, is ever written.                                                   *)
LEMMA ResetKeepsType ==
  ASSUME TypeOK, ResetPinsDefaults
  PROVE  duty' \in [Chans -> Values]
<1>1. ASSUME NEW c \in Chans, \E p \in Pins : LastOn(c, p)
      PROVE  pins[CHOOSE p \in Pins : LastOn(c, p)].default \in Values
  <2>1. PICK p \in Pins : p = (CHOOSE q \in Pins : LastOn(c, q)) /\ LastOn(c, p)
    BY <1>1
  <2>2. pins[p].default \in Values
    BY <2>1, TableEntry DEF LastOn, Resettable, TypeOK, Confs
  <2> QED
    BY <2>1, <2>2
<1> QED
  BY <1>1 DEF ResetPinsDefaults, TypeOK

(* The operation whose turn it is, and the rest of the batch. *)
LEMMA TurnTypes ==
  ASSUME TypeOK, Turn
  PROVE  op \in PinOps /\ Tail(todo) \in Seq(PinOps)
  BY HeadTailProperties DEF TypeOK, Turn, op

LEMMA TypeStep == TypeOK /\ [Next]_vars => TypeOK'
<1> SUFFICES ASSUME TypeOK, [Next]_vars PROVE TypeOK'
  OBVIOUS
<1> USE RemoteGpioAssumption
<1>1. CASE Loop
  <2>1. duty' \in [Chans -> Values]
    BY <1>1, ResetKeepsType DEF Loop, TypeOK
  <2>2. cyclesCount' \in -IntHalf..(IntHalf - 1)
    BY <1>1 DEF Loop, TypeOK, Increment
  <2> QED
    BY <1>1, <2>1, <2>2 DEF Loop, TypeOK
<1>2. CASE ExtractMsg
  <2>1. PICK m \in Messages : Command(m) /\ todo' = m.batch
    BY <1>2 DEF ExtractMsg
  <2>2. m.resetCycles \in Cycles /\ m.batch \in Seq(PinOps)
    OBVIOUS
  <2>3. sound' \in BOOLEAN
    BY <1>2 DEF ExtractMsg, Sound
  <2> QED
    BY <1>2, <2>1, <2>2, <2>3 DEF ExtractMsg, Command, TypeOK
<1>3. CASE PinFault
  BY <1>3, EmptySeq DEF PinFault, TypeOK
<1>4. CASE PinRead \/ PinFree
  BY <1>4, TurnTypes DEF PinRead, PinFree, Proceed, TypeOK
<1>5. CASE PinWrite
  <2>1. op \in PinOps /\ Tail(todo) \in Seq(PinOps) /\ pins[op.pin] \in Confs
    BY <1>5, TurnTypes, TableEntry DEF PinWrite, Faults, Missing, TypeOK
  <2>2. Written(duty, pins[op.pin], op.val) \in [Chans -> Values]
    BY <2>1 DEF Written, TypeOK, Confs, PinOps
  <2> QED
    BY <1>5, <2>1, <2>2 DEF PinWrite, Proceed, TypeOK
<1>6. CASE PinAuto
  <2>1. op \in PinOps /\ Tail(todo) \in Seq(PinOps) /\ op.pin # NotANumber
    BY <1>6, TurnTypes DEF PinAuto, Faults
  <2>2. op.pin \in Pins /\ op.conf \in Confs
    BY <2>1 DEF PinOps
  <2>3. pins' \in Tables
    BY <1>6, <2>2, TableGrows DEF PinAuto, PinAssign, TypeOK
  <2> QED
    BY <1>6, <2>1, <2>2, <2>3 DEF PinAuto, Proceed, TypeOK
<1>7. CASE Restart
  BY <1>7, NoTable, EmptySeq DEF Restart, TypeOK
<1>8. CASE UNCHANGED vars
  BY <1>8 DEF vars, TypeOK
<1> QED
  BY <1>1, <1>2, <1>3, <1>4, <1>5, <1>6, <1>7, <1>8 DEF Next

(* Every variable keeps its type: the counter in the range of an int,        *)
(* although it wraps, and only duty cycles on the channels, although a pin   *)
(* without a default has a default of another kind.                          *)
THEOREM TypeCorrect == Spec => []TypeOK
<1>1. Init => TypeOK
  BY NoTable, RemoteGpioAssumption DEF Init, TypeOK
<1> QED
  BY <1>1, TypeStep, PTL DEF Spec

-----------------------------------------------------------------------------
(* Every pin that was assigned is in the table, and the rest of a sound      *)
(* batch is sound.                                                           *)
SoundInv ==
  /\ up => assigned \subseteq DOMAIN pins
  /\ up /\ sound => Sound(todo, assigned)
  /\ SoundIsSafe

(* What is left of a sound batch is sound for whoever knows the pins that    *)
(* the first operation assigned.                                             *)
LEMMA SoundTail ==
  ASSUME NEW b \in Seq(PinOps), b # << >>, NEW known, NEW more,
         Sound(b, known), known \subseteq more,
         Head(b).op = "other" => Head(b).pin \in more
  PROVE  Sound(Tail(b), more)
<1>1. /\ Len(b) \in Nat \ {0} /\ Len(Tail(b)) = Len(b) - 1 /\ Head(b) = b[1]
      /\ \A i \in 1..Len(Tail(b)) : Tail(b)[i] = b[i + 1]
  BY LenProperties, HeadTailProperties, EmptySeq
<1>2. ASSUME NEW i \in 1..Len(Tail(b)), Tail(b)[i].op \in {"read", "write"}
      PROVE  \/ Tail(b)[i].pin \in more
             \/ \E j \in 1..(i - 1) : Tail(b)[j].op = "other" /\ Tail(b)[j].pin = Tail(b)[i].pin
  <2>1. i + 1 \in 1..Len(b) /\ Tail(b)[i] = b[i + 1]
    BY <1>1
  <2>2. CASE b[i + 1].pin \in known
    BY <2>1, <2>2
  <2>3. CASE \E j \in 1..i : b[j].op = "other" /\ b[j].pin = b[i + 1].pin
    <3>1. PICK j \in 1..i : b[j].op = "other" /\ b[j].pin = b[i + 1].pin
      BY <2>3
    <3>2. CASE j = 1
      BY <1>1, <2>1, <3>1, <3>2
    <3>3. CASE j # 1
      <4>1. j - 1 \in 1..(i - 1) /\ j - 1 \in 1..Len(Tail(b)) /\ (j - 1) + 1 = j
        BY <1>1, <3>3
      <4>2. Tail(b)[j - 1] = b[j]
        BY <1>1, <4>1
      <4> QED
        BY <2>1, <3>1, <4>1, <4>2
    <3> QED
      BY <3>2, <3>3
  <2> QED
    BY <1>1, <1>2, <2>1, <2>2, <2>3 DEF Sound
<1>3. ASSUME NEW i \in 1..Len(Tail(b))
      PROVE  Tail(b)[i].pin # NotANumber /\ Tail(b)[i].op \notin {"dump", "missing"}
  <2>1. i + 1 \in 1..Len(b) /\ Tail(b)[i] = b[i + 1]
    BY <1>1
  <2> QED
    BY <2>1 DEF Sound
<1> QED
  BY <1>2, <1>3 DEF Sound

(* A sound batch asks for nothing first that is not there. *)
LEMMA SoundHead ==
  ASSUME TypeOK, SoundInv, Turn, sound
  PROVE  ~Faults
<1>1. 1 \in 1..Len(todo) /\ op = todo[1]
  BY LenProperties, HeadTailProperties, EmptySeq DEF TypeOK, Turn, op
<1>2. /\ op.pin # NotANumber /\ op.op \notin {"dump", "missing"}
      /\ op.op \in {"read", "write"} => op.pin \in assigned
  BY <1>1 DEF SoundInv, Sound, Turn
<1> QED
  BY <1>2 DEF Faults, Missing, SoundInv, Turn

LEMMA SoundStep == TypeOK /\ SoundInv /\ [Next]_vars => SoundInv'
<1> SUFFICES ASSUME TypeOK, SoundInv, [Next]_vars PROVE SoundInv'
  OBVIOUS
<1>1. CASE Loop
  BY <1>1 DEF Loop, SoundInv, SoundIsSafe
<1>2. CASE ExtractMsg
  <2>1. UNCHANGED <<pins, up, assigned>> /\ up
    BY <1>2 DEF ExtractMsg, Idle
  <2>2. sound' => Sound(todo', assigned')
    BY <1>2 DEF ExtractMsg
  <2> QED
    BY <2>1, <2>2 DEF SoundInv, SoundIsSafe
<1>3. CASE PinFault
  <2>1. ~sound
    BY <1>3, SoundHead DEF PinFault
  <2> QED
    BY <1>3, <2>1 DEF PinFault, SoundInv, SoundIsSafe
<1>4. CASE PinRead \/ PinFree \/ PinWrite
  <2>1. /\ Turn /\ UNCHANGED <<pins, up, assigned, sound>> /\ todo' = Tail(todo)
        /\ Head(todo).op # "other"
    BY <1>4 DEF PinRead, PinFree, PinWrite, Proceed, op
  <2>2. sound => Sound(Tail(todo), assigned)
    BY <2>1, SoundTail DEF SoundInv, Turn, TypeOK
  <2> QED
    BY <2>1, <2>2 DEF SoundInv, SoundIsSafe
<1>5. CASE PinAuto
  <2>1. /\ Turn /\ UNCHANGED <<up, sound>> /\ todo' = Tail(todo)
        /\ assigned' = assigned \cup {Head(todo).pin}
        /\ DOMAIN pins' = DOMAIN pins \cup {Head(todo).pin}
    BY <1>5 DEF PinAuto, PinAssign, Proceed, op
  <2>2. sound => Sound(Tail(todo), assigned')
    BY <2>1, SoundTail DEF SoundInv, Turn, TypeOK
  <2> QED
    BY <2>1, <2>2 DEF SoundInv, SoundIsSafe
<1>6. CASE Restart
  BY <1>6 DEF Restart, SoundInv, SoundIsSafe, Sound
<1>7. CASE UNCHANGED vars
  BY <1>7 DEF vars, SoundInv, SoundIsSafe
<1> QED
  BY <1>1, <1>2, <1>3, <1>4, <1>5, <1>6, <1>7 DEF Next

(* No sequence of messages takes the device down as long as each of them     *)
(* names pins and operations, and reads and writes only pins that were       *)
(* assigned before it.                                                       *)
THEOREM SoundMessagesAreSafe == Spec => []SoundIsSafe
<1>1. Init => SoundInv
  BY DEF Init, SoundInv, SoundIsSafe, Sound
<1>2. SoundInv => SoundIsSafe
  BY DEF SoundInv
<1> QED
  BY <1>1, <1>2, SoundStep, TypeCorrect, PTL DEF Spec
=============================================================================
