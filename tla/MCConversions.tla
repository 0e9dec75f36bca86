---------------------------- MODULE MCConversions ----------------------------
(***************************************************************************)
(* What comes from outside, enumerated by TLC.  A behaviour follows one of *)
(*   - a packet, of a few names (plain, empty, and with colons in them),   *)
(*     that hops from device to device,                                    *)
(*   - an event that does,                                                 *)
(*   - a configuration that is read, updated and read again.               *)
(***************************************************************************)
EXTENDS Transit, ConfigFile, TLC

MCRelays == {"d1", "d2"}
Texts == {EmptyText, <<"Alarm">>, <<"onAlert">>, <<"Alarm", "x">>, <<"", "x">>, <<"Alarm", "">>}
MCPackets ==
  [timestamp : {"", "t1"}, api : Texts, cmd : Texts, data : {"", "some"},
   sender : {""}, target : {""} \cup MCRelays, ack : BOOLEAN]
MCReports == [type : {"PIN", "LOG"}, content : {"c1"}, source : {"local"} \cup MCRelays, time : {"t1"}]

(* The document with the members ms, each of which is a document. *)
Tree(ms) ==
  LET Below(k) == {<<k>> \o p : p \in DOMAIN ms[k]}
      below == UNION {Below(k) : k \in DOMAIN ms}
  IN  [p \in {<< >>} \cup below |-> IF p = << >> THEN Object ELSE ms[Head(p)][Tail(p)]]

Leaves == {Leaf(v) : v \in {Null, "0", "x", "y"}}
Flats == Leaves \cup UNION {{Tree(f) : f \in [K -> Leaves]} : K \in SUBSET {"a", "b"}}
Nested == Flats \cup {Tree("a" :> t) : t \in Flats}
MCUpdates == Nested \cup
  {Tree("a" :> t @@ "b" :> u) : t \in Flats, u \in {Leaf("y"), Tree("b" :> Leaf("x"))}}
MCFiles == {Leaf(Null), Leaf("x"), Tree("a" :> Tree("a" :> Leaf("x")) @@ "b" :> Leaf("0"))}

VARIABLE follows   \* "packet", "event" or "config"

vars == <<follows, hopVars, configVars>>

TheOne(S) == CHOOSE x \in S : TRUE

MCInit ==
  /\ follows \in {"packet", "event", "config"}
  /\ HopInit /\ ConfigInit
  /\ follows # "packet" => carried = TheOne(Packets)
  /\ follows # "event" => told = TheOne(Reports)
  /\ follows # "config" => file = TheOne(Files)

Hop ==
  /\ \E d \in Relays : \/ follows = "packet" /\ HopPacket(d)
                       \/ follows = "event" /\ HopEvent(d)
  /\ UNCHANGED <<follows, configVars>>

Configure == follows = "config" /\ ConfigNext /\ UNCHANGED <<follows, hopVars>>

Spec == MCInit /\ [][Configure \/ Hop]_vars
=============================================================================
