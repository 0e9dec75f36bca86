------------------------------ MODULE JsonMerge ------------------------------
(***************************************************************************)
(* JSON documents, what mergeJson (FileHandlers.cpp) asks of them and does *)
(* to them, and what merging means path by path.                           *)
(*                                                                         *)
(* A document is a function on its paths, the sequences of member names.   *)
(* Of the values only this matters: Object has members, any other value    *)
(* has none; it counts as false (null, 0, false) or as true (a text, a     *)
(* number, an array).  An array is a value like any other, since mergeJson *)
(* never looks into it.                                                    *)
(***************************************************************************)
EXTENDS Naturals, Sequences

Object == "{}"
Null == "null"
Falsy == {Null, "0"}

(* A path and the ones above it, down from the root << >>. *)
Upto(p) == {SubSeq(p, 1, n) : n \in 0..Len(p)}
Parent(p) == SubSeq(p, 1, Len(p) - 1)

IsDocument(d) ==
  /\ d = [p \in DOMAIN d |-> d[p]]
  /\ DOMAIN d \subseteq Seq(STRING) /\ << >> \in DOMAIN d
  /\ \A p \in DOMAIN d : \A q \in Upto(p) \ {p} : q \in DOMAIN d /\ d[q] = Object

Leaf(v) == [p \in {<< >>} |-> v]
Members(d, p) == {q \in DOMAIN d : q # << >> /\ Parent(q) = p}

(* Seeded fault: an object that is there already is replaced as a whole.     *)
HoldsValue(d, p) == p \in DOMAIN d /\ d[p] \notin Falsy \cup {Object}

(* if (dst[key]) *)
Holds(d, p) == p \in DOMAIN d /\ d[p] \notin Falsy

(* Document d with all at p and below replaced by what s has there. *)
Graft(d, p, s) ==
  LET new == {q \in DOMAIN s : p \in Upto(q)}
  IN  [q \in new \cup {q \in DOMAIN d : p \notin Upto(q)} |->
         IF q \in new THEN s[q] ELSE d[q]]

(* dst[key] = value, of ArduinoJson: a member of null makes an object of it, *)
(* a member of any other value that is no object is dropped.                 *)
Assign(d, p, s) ==
  IF d[Parent(p)] \in {Object, Null}
  THEN Graft([d EXCEPT ![Parent(p)] = Object], p, s) ELSE d

-----------------------------------------------------------------------------
(* The reference: a document overlaid with an update.                        *)

(* A value of d stands where s has an object, at p or above: of s nothing    *)
(* arrives there.  At the root even a value that counts as false does.       *)
InTheWay(d, s, p) ==
  \E q \in Upto(p) \cap DOMAIN d \cap DOMAIN s :
    /\ s[q] = Object
    /\ d[q] # Object /\ d[q] \notin (IF q = << >> THEN {Null} ELSE Falsy)

(* What s has at p or above takes the place of all that d had there. *)
Covers(d, s, p) ==
  \E q \in Upto(p) \cap DOMAIN s :
    q \in DOMAIN d /\ (s[q] # Object \/ d[q] \in Falsy)

Overlay(d, s) ==
  IF DOMAIN s = {<< >>} /\ s[<< >>] = Object /\ d[<< >>] = Null THEN d
  ELSE LET fromS == {p \in DOMAIN s : ~InTheWay(d, s, p)}
           fromD == {p \in DOMAIN d \ fromS : ~Covers(d, s, p) \/ InTheWay(d, s, p)}
       IN  [p \in fromS \cup fromD |-> IF p \in fromS THEN s[p] ELSE d[p]]
=============================================================================
