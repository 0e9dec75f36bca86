------------------------------ MODULE EventBus ------------------------------
(***************************************************************************)
(* What the event system promises to the code that uses it: every event    *)
(* that is pushed reaches every subscriber that listens for its type, once *)
(* and in the order of the pushes.  There is no queue here: subscriber h   *)
(* has a cursor into the history of the pushes, and consumes one event at  *)
(* a time, each subscriber at its own pace.                                *)
(***************************************************************************)
EXTENDS Naturals, Sequences

CONSTANTS
  Handlers,   \* the subscribers
  Listens     \* Listens[h]: the type handler h was constructed with, or "*"

VARIABLES
  pushed,     \* the events pushed so far, in the order of the pushes
  cursor,     \* cursor[h]: how many of them handler h has been offered
  got         \* got[h]: the events handler h was called with

busVars == <<pushed, cursor, got>>

(* An event is for a handler that listens for everything or for its type. *)
IsFor(e, h) == Listens[h] = "*" \/ Listens[h] = e.type

Init ==
  /\ pushed = << >>
  /\ cursor = [h \in Handlers |-> 0]
  /\ got = [h \in Handlers |-> << >>]

(* Some event joins the history; which one is the caller's choice. *)
Publish ==
  /\ Len(pushed') = Len(pushed) + 1
  /\ \A i \in 1..Len(pushed) : pushed'[i] = pushed[i]
  /\ UNCHANGED <<cursor, got>>

(* The next event is offered to h, which is called when the event is for it. *)
Consume(h) ==
  /\ cursor[h] < Len(pushed)
  /\ cursor' = [cursor EXCEPT ![h] = @ + 1]
  /\ LET e == pushed[cursor[h] + 1]
     IN  got' = IF IsFor(e, h) THEN [got EXCEPT ![h] = Append(@, e)] ELSE got
  /\ UNCHANGED pushed

Next == Publish \/ \E h \in Handlers : Consume(h)

Spec == Init /\ [][Next]_busVars
=============================================================================
