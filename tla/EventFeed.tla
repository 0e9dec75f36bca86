------------------------------ MODULE EventFeed ------------------------------
(***************************************************************************)
(* What a device promises to the people who watch it: there is one feed of *)
(* events, and whoever watches sees the feed go by, from the moment of     *)
(* joining to the moment of leaving, with nothing left out, repeated or    *)
(* out of order.  All who watch see an event at the same time.             *)
(***************************************************************************)
EXTENDS Naturals, Sequences

CONSTANT Conns   \* those who may watch, once each

VARIABLES
  feed,      \* the events so far
  shown,     \* how many of them were shown
  watching,  \* who watches now
  screen     \* screen[c]: the events c has seen

feedVars == <<feed, shown, watching, screen>>

Init == feed = << >> /\ shown = 0 /\ watching = {} /\ screen = [c \in Conns |-> << >>]

Publish ==
  /\ Len(feed') = Len(feed) + 1
  /\ SubSeq(feed', 1, Len(feed)) = feed
  /\ UNCHANGED <<shown, watching, screen>>

Join(c) ==
  /\ c \notin watching /\ screen[c] = << >>
  /\ watching' = watching \cup {c}
  /\ UNCHANGED <<feed, shown, screen>>

Leave(c) ==
  /\ c \in watching
  /\ watching' = watching \ {c}
  /\ UNCHANGED <<feed, shown, screen>>

Show ==
  /\ shown < Len(feed)
  /\ shown' = shown + 1
  /\ screen' = [c \in Conns |-> IF c \in watching
                                 THEN Append(screen[c], feed[shown']) ELSE screen[c]]
  /\ UNCHANGED <<feed, watching>>

Next == Publish \/ Show \/ \E c \in Conns : Join(c) \/ Leave(c)

Spec == Init /\ [][Next]_feedVars

(* Weak fairness of Show, which is enabled while an event is left to show.   *)
ShowsGoOn == []<>(shown = Len(feed)) \/ []<><<Show>>_feedVars
=============================================================================
