---------------------------- MODULE MCEventQueue ----------------------------
(***************************************************************************)
(* The subscribers of examples/firmware-main.cpp, in the order setup()     *)
(* constructs them, for TLC.                                               *)
(***************************************************************************)
EXTENDS EventQueue

MCHandlers == {"SndNotif", "Notifier", "TestModule", "AlarmSystem"}

MCSubscribers == <<"SndNotif", "Notifier", "TestModule", "AlarmSystem">>

MCListens == [h \in MCHandlers |->
  CASE h = "SndNotif" -> "SND_NOT"
    [] h = "Notifier" -> "*"
    [] h = "TestModule" -> "PIN"
    [] h = "AlarmSystem" -> "PIN_TRIGGER"]

(* AlarmSystem::onMotionDetected writes nothing, one info record, or the     *)
(* info record of the alarm and the info and dbg ones of sendText.           *)
MCHandlerLogs == [h \in MCHandlers |->
  CASE h = "AlarmSystem" -> {<< >>, <<Info>>, <<Info, Info, Dbg>>}
    [] h = "TestModule" -> {<<Info>>}
    [] OTHER -> {<< >>}]

MCServiceLogs == {<< >>, <<Info>>, <<Info, Dbg>>}
=============================================================================
