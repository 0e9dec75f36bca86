------------------------------ MODULE RemoteFs ------------------------------
(***************************************************************************)
(* Reading files back: FsRemoteService, which answers a batch of file      *)
(* operations of a websocket client, and FsLogConsumer::readPastLog.  Both *)
(* run in the loop task, between the functions of Storage.                 *)
(*                                                                         *)
(* Only operation "r" does something.  A file that is not there is read as *)
(* a null pointer, which becomes a std::string and aborts the program; so  *)
(* do a key that is no number and a null operation or name ("fatal").  Any *)
(* other letter is ignored, the c, w and d of the comments too.  A message *)
(* that does not parse leaves an empty batch.  The map of clients is       *)
(* handled as that of WsInterface.                                         *)
(***************************************************************************)
EXTENDS Storage

CONSTANT Batches   \* the batches clients send

FileOps == [op : {"read", "ignored", "fatal"}, file : Paths]

ASSUME RemoteFsAssumption == Batches \subseteq Seq(FileOps)

VARIABLES
  asked,    \* history: the files that the batch which runs or ran last read
  replies,  \* what it was answered
  inits     \* history: how many boots have completed FsLogConsumer::init

fsVars == <<vars, asked, replies, inits>>

FsInit == Init /\ asked = << >> /\ replies = << >> /\ inits = 0

(* dumpJsonFile: the first document of the file, or null. *)
DumpJsonFile(p) == IF files[p] = << >> THEN << >> ELSE <<Head(files[p])>>

Fatal(c) == c.name = "fatal" \/ (c.name = "read" /\ ~IsFile(c.path))

(* Seeded fault: the answers of a batch are sent last one first. *)
SendFirst(p) == replies' = <<DumpJsonFile(p)>> \o replies

Send(p) == replies' = Append(replies, DumpJsonFile(p))

(* A call of Storage, or a read; after a fatal one only a restart follows.   *)
Step ==
  /\ todo # << >> /\ ~Fatal(Head(todo))
  /\ IF Head(todo).name \in {"read", "ignored"}
     THEN todo' = Tail(todo) /\ UNCHANGED <<files, doing, boots, lastLog, torn>>
     ELSE MakeCall \/ PrintFails
  /\ IF Head(todo).name = "read"
     THEN Send(Head(todo).path) /\ asked' = Append(asked, Head(todo).path)
     ELSE UNCHANGED <<asked, replies>>
  /\ inits' = IF doing.name = "init" /\ todo' = << >> THEN inits + 1 ELSE inits

(* Whatever runs next has answered nothing yet. *)
NoAnswers == asked' = << >> /\ replies' = << >> /\ UNCHANGED inits

(* FsRemoteService::extractMsg *)
ExtractMsg(b) ==
  /\ Run("extractMsg", LOG_FILE, [i \in 1..Len(b) |-> Call(b[i].op, b[i].file, LOG_FILE)])
  /\ NoAnswers

ReadPastLog ==
  /\ Run("readPastLog", LOG_ARCHIVE_FILE, <<Call("read", LOG_ARCHIVE_FILE, LOG_FILE)>>)
  /\ NoAnswers

Other == (InitLog \/ FsUtils) /\ NoAnswers

FsRestart == Restart /\ NoAnswers

FsNext ==
  \/ Step \/ Other \/ ReadPastLog \/ FsRestart
  \/ \E b \in Batches : ExtractMsg(b)

FsSpec == FsInit /\ [][FsNext]_fsVars

-----------------------------------------------------------------------------
(* LogConsumers.cpp:74-86: once two boots have completed init, the past log  *)
(* can be read at any time, whatever power cuts and failed prints came       *)
(* between and since.                                                        *)
PastLogReadable == inits >= 2 => IsFile(LOG_ARCHIVE_FILE)

(* RemoteFsService.h:159-205: a client that reads both logs with one message *)
(* never gets an archive that begins after the log does, through any boots,  *)
(* power cuts, failed prints and appends, also in boots without init.        *)
PastIsPast ==
  \A i, j \in 1..Len(replies) :
    /\ asked[i] = LOG_ARCHIVE_FILE /\ replies[i] # << >>
    /\ asked[j] = LOG_FILE /\ replies[j] # << >>
    => replies[i][1] <= replies[j][1]
=============================================================================
