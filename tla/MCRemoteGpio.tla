---------------------------- MODULE MCRemoteGpio ----------------------------
(***************************************************************************)
(* Messages for TLC: every command, and batches in which pins are assigned *)
(* to their own or to a shared channel, written, read, dumped and freed.   *)
(***************************************************************************)
EXTENDS RemoteGpio

Op(p, o, v, w, c, d) ==
  [pin |-> p, op |-> o, val |-> v, conf |-> [pwm |-> w, chan |-> c, default |-> d]]
Msg(c, r, b) == [cmd |-> c, resetCycles |-> r, batch |-> b]

MCMessages ==
  {Msg("ping", 0, << >>),
   Msg("config", 1, << >>),
   Msg("config", 3, << >>),
   Msg("null", 0, <<Op(1, "other", 0, TRUE, "a", 1), Op(2, "free", 0, FALSE, "a", 0)>>),
   Msg("null", 0, <<Op(2, "other", 0, TRUE, "a", 0), Op(1, "write", 2, FALSE, "a", 0)>>),
   Msg("null", 0, <<Op(1, "other", 0, FALSE, "a", 0), Op(2, "other", 0, TRUE, "b", NoDefault)>>),
   Msg("ping", 0, <<Op(2, "write", 2, FALSE, "a", 0), Op(1, "read", 0, FALSE, "a", 0)>>),
   Msg("null", 0, <<Op(1, "dump", 0, FALSE, "a", 0)>>),
   Msg("null", 0, <<Op(1, "missing", 0, FALSE, "a", 0)>>),
   Msg("null", 0, <<Op(NotANumber, "other", 0, FALSE, "a", 0)>>)}
=============================================================================
