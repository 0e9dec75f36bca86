----------------------------- MODULE AlertBoard -----------------------------
(***************************************************************************)
(* What the radio network promises about alarms, whatever it loses: only   *)
(* alarms that a device raised are heard, never by the device that raised  *)
(* them, and by every other device once at most.                           *)
(***************************************************************************)
EXTENDS Naturals, Sequences, Functions

CONSTANTS
  Devices,   \* the devices in reach of each other
  Ids        \* the names of alarms

VARIABLES
  alerts,    \* the alarms raised so far, mapped to the devices that raised them
  heard      \* heard[d]: the alarms device d was told of, in that order

boardVars == <<alerts, heard>>

Init ==
  /\ alerts = << >>
  /\ heard = [d \in Devices |-> << >>]

Raise(d) ==
  \E id \in Ids \ DOMAIN alerts :
    /\ alerts' = [i \in DOMAIN alerts \cup {id} |-> IF i = id THEN d ELSE alerts[i]]
    /\ UNCHANGED heard

Hear(d) ==
  \E id \in DOMAIN alerts \ Range(heard[d]) :
    /\ alerts[id] # d
    /\ heard' = [heard EXCEPT ![d] = Append(@, id)]
    /\ UNCHANGED alerts

Next == \E d \in Devices : Raise(d) \/ Hear(d)

Spec == Init /\ [][Next]_boardVars
=============================================================================
