----------------------------- MODULE MCLoraNet -----------------------------
(***************************************************************************)
(* The radio network for TLC, with the packets other transmitters send.    *)
(***************************************************************************)
EXTENDS LoraNet

Call2(api, cmd) == [endpoint |-> <<api, cmd>>, data |-> "some", ack |-> TRUE]

ForeignEventPacket == Call2("notifier", "onForeignEvent")
SandboxPacket == Call2("test", "sandbox")

(* Calls of every module, one of no module, one without a command and noise. *)
AnyForeign ==
  {Garbled, ForeignEventPacket, SandboxPacket,
   Call2("Alarm", "msgACK"), Call2("Lora", "setup"), Call2("Relay", "forward"),
   [endpoint |-> <<"Alarm">>, data |-> "some", ack |-> TRUE]}

(* The same without the call that starts the ping-pong of TestModule. *)
CalmForeign == AnyForeign \ {SandboxPacket}
NoForeign == {}
=============================================================================
