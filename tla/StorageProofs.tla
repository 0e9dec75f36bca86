---------------------------- MODULE StorageProofs ----------------------------
(***************************************************************************)
(* Proofs about the files and the log, for any paths, batches, numbers of  *)
(* boots and lengths of files, with a power cut between any two calls and  *)
(* any prints failing.                                                     *)
(***************************************************************************)
EXTENDS RemoteFs, SequenceTheorems, TLAPS

(* The call that is still to be made before the last k - 1 ones.  Making a   *)
(* call changes none that is left.                                           *)
Due(k) == todo[Len(todo) + 1 - k]

CallNames == {"rename", "truncate", "extend", "close", "mkdir", "rmdir", "remove",
              "read", "ignored", "fatal"}
Calls == [name : CallNames, path : Paths, arg : Paths]

(* The calls of a function, counted from its end. *)
Writers == {"init", "writeFile", "writeFile2"}
IsDue(d, k, c) ==
  \/ k = 1 /\ d.name \in Writers \cup {"appendFile"} /\ c = Call("close", d.path, d.path)
  \/ k = 2 /\ d.name \in Writers /\ c = Call("truncate", d.path, d.path)
  \/ k = 2 /\ d.name = "appendFile" /\ c = Call("extend", d.path, d.path)
  \/ k = 3 /\ d.name = "init" /\ c = Call("rename", LOG_FILE, LOG_ARCHIVE_FILE)
  \/ k \in 3..(Len(d.path) + 1) /\ d.name = "writeFile2"
       /\ c = Call("mkdir", SubSeq(d.path, 1, Len(d.path) + 2 - k), d.path)
  \/ k \in 1..(Len(d.path) - 1) /\ d.name = "deleteFile2"
       /\ c = Call("rmdir", SubSeq(d.path, 1, k), d.path)
  \/ k = Len(d.path) /\ d.name = "deleteFile2" /\ c = Call("remove", d.path, d.path)
  \/ k = 1 /\ d.name = "createDir" /\ c = Call("mkdir", d.path, d.path)
  \/ k = 1 /\ d.name = "removeDir" /\ c = Call("rmdir", d.path, d.path)
  \/ k = 1 /\ d.name = "deleteFile" /\ c = Call("remove", d.path, d.path)
  \/ d.name \in {"readPastLog", "extractMsg"} /\ c.name \in {"read", "ignored", "fatal"}

DoingOK(d) ==
  /\ d.name \in {"writeFile", "writeFile2", "createDir", "removeDir", "deleteFile",
                 "deleteFile2"} => d.path \in DataPaths
  /\ d.name = "appendFile" => d.path \in DataPaths \cup {LOG_FILE}
  /\ d.name = "init" => d.path = LOG_FILE

TodoInv ==
  /\ todo \in Seq(Calls)
  /\ doing.name = "none" => todo = << >>
  /\ DoingOK(doing)
  /\ \A k \in 1..Len(todo) : IsDue(doing, k, Due(k))

(* A file that is written is there, and has room; a writer has emptied it.   *)
OpenInv ==
  /\ todo # << >> /\ Head(todo).name = "close" =>
       /\ IsFile(doing.path) /\ Len(files[doing.path]) < MaxLength
       /\ doing.name \in Writers => files[doing.path] = << >>
  /\ todo # << >> /\ Head(todo).name = "extend" =>
       (IsFile(doing.path) => Len(files[doing.path]) < MaxLength)

FilesOK ==
  /\ DOMAIN files \subseteq Paths
  /\ \A p \in DOMAIN files : (files[p] = Folder \/ files[p] \in Contents) /\ IsFolder(Parent(p))
  /\ \A l \in Logs : l \in DOMAIN files => IsFile(l)

FilesInv == TypeOK /\ FilesOK /\ TodoInv /\ OpenInv

(* The log is empty only while it is written, or after a power cut or a      *)
(* failed print at that moment; otherwise it is the last one that was        *)
(* written to its end.  When init empties the log, none is left.             *)
LogInv ==
  /\ IsFile(LOG_FILE) /\ files[LOG_FILE] = << >> =>
       \/ LOG_FILE \in torn
       \/ todo # << >> /\ Head(todo).name = "close" /\ doing.path = LOG_FILE
  /\ IsFile(LOG_FILE) /\ files[LOG_FILE] # << >> => files[LOG_FILE] = lastLog
  /\ doing.name = "init" /\ Len(todo) = 2 => ~IsFile(LOG_FILE)
  /\ LastLogKept

(* What a call does to the logs. *)
Same(l) == (IsFile(l)' <=> IsFile(l)) /\ (IsFile(l) => files'[l] = files[l])
SameLogs == \A l \in Logs : Same(l)

MovesLog ==
  /\ doing.name = "init" /\ Len(todo) = 3 /\ Len(todo') = 2
  /\ torn' = torn /\ lastLog' = lastLog
  /\ \/ /\ IsFile(LOG_FILE) /\ ~IsFile(LOG_FILE)'
        /\ IsFile(LOG_ARCHIVE_FILE)' /\ files'[LOG_ARCHIVE_FILE] = files[LOG_FILE]
     \/ ~IsFile(LOG_FILE) /\ SameLogs

OpensLog ==
  /\ doing.path = LOG_FILE /\ Len(todo) = 2 /\ Len(todo') = 1 /\ Head(todo').name = "close"
  /\ torn' = torn /\ lastLog' = lastLog /\ Same(LOG_ARCHIVE_FILE)
  /\ \/ IsFile(LOG_FILE) /\ Same(LOG_FILE)
     \/ ~IsFile(LOG_FILE) /\ IsFile(LOG_FILE)' /\ files'[LOG_FILE] = << >>

ClosesLog ==
  /\ Head(todo).name = "close" /\ doing.path = LOG_FILE /\ Len(todo) = 1 /\ todo' = << >>
  /\ Same(LOG_ARCHIVE_FILE) /\ IsFile(LOG_FILE) /\ IsFile(LOG_FILE)'
  /\ files'[LOG_FILE] = files[LOG_FILE] \o Text /\ lastLog' = files'[LOG_FILE]

LeavesLogs ==
  /\ doing.name # "init" /\ ~(Head(todo).name = "close" /\ doing.path = LOG_FILE)
  /\ SameLogs /\ lastLog' = lastLog /\ (LOG_FILE \in torn' <=> LOG_FILE \in torn)

(* The past log does not begin after the log, and nothing is from the future.*)
OrderInv ==
  /\ IsFile(LOG_FILE) /\ files[LOG_FILE] # << >> => files[LOG_FILE][1] <= boots
  /\ IsFile(LOG_ARCHIVE_FILE) /\ files[LOG_ARCHIVE_FILE] # << >> =>
       /\ files[LOG_ARCHIVE_FILE][1] <= boots
       /\ IsFile(LOG_FILE) /\ files[LOG_FILE] # << >> =>
            files[LOG_ARCHIVE_FILE][1] <= files[LOG_FILE][1]

(* Once init is through there is always a log or a past one, and the next    *)
(* init makes it the past one.                                               *)
PastInv ==
  /\ inits \in Nat
  /\ inits >= 1 => IsFile(LOG_FILE) \/ IsFile(LOG_ARCHIVE_FILE)
  /\ inits >= 1 /\ doing.name = "init" /\ Len(todo) \in {1, 2} => IsFile(LOG_ARCHIVE_FILE)
  /\ PastLogReadable

(* While deleteFile2 goes up, no folder it has left is empty.                *)
DropInv ==
  doing.name = "deleteFile2" /\ Len(todo) < Len(doing.path) =>
    /\ ~IsFile(doing.path)
    /\ \A n \in (Len(todo) + 1)..(Len(doing.path) - 1) :
         IsFolder(SubSeq(doing.path, 1, n)) => Children(SubSeq(doing.path, 1, n)) # {}

(* While writeFile2 goes down, the folders it has passed are there, unless   *)
(* there is a file among them or something at the path already.              *)
Obstructed(p) == \E q \in Above(p) : IsFile(q)
MakeInv ==
  /\ doing.name = "writeFile2" /\ Len(todo) >= 2 =>
       \/ doing.path \in DOMAIN files
       \/ Obstructed(doing.path)
       \/ \A n \in 1..(Len(doing.path) + 1 - Len(todo)) : IsFolder(SubSeq(doing.path, 1, n))
  /\ WrittenWhole

(* Nothing is written between the reads of a batch: every answer is what is  *)
(* in the file that was asked for.                                           *)
AnswersInv ==
  /\ asked \in Seq(Paths) /\ replies \in Seq(Seq(1..MaxBoots)) /\ Len(replies) = Len(asked)
  /\ asked # << >> => doing.name \in {"readPastLog", "extractMsg"}
  /\ \A i \in 1..Len(asked) : IsFile(asked[i]) /\ replies[i] = DumpJsonFile(asked[i])

-----------------------------------------------------------------------------
(* Paths. *)
LEMMA Singleton ==
  ASSUME NEW S, NEW s \in S
  PROVE  <<s>> \in Seq(S) /\ Len(<<s>>) = 1 /\ <<s>> # << >>
  BY EmptySeq

(* The prover knows no literal to be in STRING. *)
Names == STRING \cup {"logs.json", "logs.archive.json"}

LEMMA DataPathsAreSeqs ==
  ASSUME NEW p \in DataPaths
  PROVE  p \in Seq(Names) /\ Len(p) \in Nat \ {0} /\ p # << >>
<1>1. p \in Seq(STRING) /\ STRING \subseteq Names
  BY StorageAssumption DEF Names
<1>2. p \in Seq(Names)
  BY <1>1, SeqMonotonic
<1> QED
  BY <1>2, StorageAssumption, EmptySeq

LEMMA PathsAreSeqs ==
  ASSUME NEW p \in Paths
  PROVE  p \in Seq(Names) /\ Len(p) \in Nat \ {0} /\ p # << >>
<1>1. CASE p \in Logs
  <2>1. "logs.json" \in Names /\ "logs.archive.json" \in Names
    BY DEF Names
  <2>2. p = LOG_FILE \/ p = LOG_ARCHIVE_FILE
    BY <1>1 DEF Logs
  <2>3. LOG_FILE \in Seq(Names) /\ Len(LOG_FILE) = 1 /\ LOG_FILE # << >>
    BY <2>1, Singleton DEF LOG_FILE
  <2>4. LOG_ARCHIVE_FILE \in Seq(Names) /\ Len(LOG_ARCHIVE_FILE) = 1 /\ LOG_ARCHIVE_FILE # << >>
    BY <2>1, Singleton DEF LOG_ARCHIVE_FILE
  <2> QED
    BY <2>2, <2>3, <2>4
<1>2. ASSUME NEW q \in DataPaths, NEW n \in 1..(Len(q) - 1)
      PROVE  /\ SubSeq(q, 1, n) \in Seq(Names)
             /\ Len(SubSeq(q, 1, n)) = n
  <2>1. q \in Seq(Names) /\ \A i \in 1..n : q[i] \in Names
    BY DataPathsAreSeqs, ElementOfSeq
  <2> QED
    BY <2>1, SubSeqProperties
<1>3. CASE p \in DataPaths
  BY <1>3, DataPathsAreSeqs
<1>4. CASE \E q \in DataPaths : p \in Above(q)
  <2>1. PICK q \in DataPaths : \E n \in 1..(Len(q) - 1) : p = SubSeq(q, 1, n)
    BY <1>4 DEF Above
  <2>2. p \in Seq(Names) /\ Len(p) \in Nat \ {0}
    BY <1>2, <2>1
  <2> QED
    BY <2>2, EmptySeq
<1> QED
  BY <1>1, <1>3, <1>4 DEF Paths

LEMMA LogPaths ==
  /\ LOG_FILE # LOG_ARCHIVE_FILE /\ Logs \subseteq Paths
  /\ \A l \in Logs : Len(l) = 1 /\ Parent(l) = << >>
  /\ \A p \in DataPaths : p \notin Logs
<1>1. LOG_FILE # LOG_ARCHIVE_FILE
  BY DEF LOG_FILE, LOG_ARCHIVE_FILE
<1>2. \A l \in Logs : Len(l) = 1
  BY DEF Logs, LOG_FILE, LOG_ARCHIVE_FILE
<1>3. \A l \in Logs : Parent(l) = << >>
  <2> SUFFICES ASSUME NEW l \in Logs PROVE SubSeq(l, 1, Len(l) - 1) = << >>
    BY DEF Parent
  <2>1. Len(l) - 1 = 0 /\ 1 \in Int /\ 0 \in Int
    BY <1>2
  <2>2. SubSeq(l, 1, 0) = << >>
    BY SubSeqEmpty
  <2> QED
    BY <2>1, <2>2
<1> QED
  BY <1>1, <1>2, <1>3, StorageAssumption DEF Paths, Logs

(* A folder above a path, and what is above that folder. *)
LEMMA AbovePaths ==
  ASSUME NEW p \in DataPaths, NEW n \in 1..(Len(p) - 1)
  PROVE  /\ SubSeq(p, 1, n) \in Paths /\ SubSeq(p, 1, n) \in Above(p)
         /\ SubSeq(p, 1, n) \notin Logs
         /\ Len(SubSeq(p, 1, n)) = n
         /\ Parent(SubSeq(p, 1, n)) = SubSeq(p, 1, n - 1)
<1>1. p \in Seq(Names) /\ Len(p) \in Nat
  BY DataPathsAreSeqs
<1>2. /\ SubSeq(p, 1, n) \in Seq(Names) /\ Len(SubSeq(p, 1, n)) = n
      /\ \A i \in 1..n : SubSeq(p, 1, n)[i] = p[i]
  <2>1. \A i \in 1..n : p[i] \in Names
    BY <1>1, ElementOfSeq
  <2> QED
    BY <2>1, SubSeqProperties
<1>3. SubSeq(SubSeq(p, 1, n), 1, n - 1) = SubSeq(p, 1, n - 1)
  <2>1. CASE n = 1
    BY <2>1, SubSeqEmpty
  <2>2. CASE n # 1
    BY <1>1, <1>2, <2>2, SubSeqOfSubSeq
  <2> QED
    BY <2>1, <2>2
<1>4. SubSeq(p, 1, n) \in Above(p)
  BY DEF Above
<1> QED
  BY <1>2, <1>3, <1>4, StorageAssumption DEF Parent, Paths

LEMMA AboveIsSubSeq ==
  ASSUME NEW p \in DataPaths, NEW q \in Above(p)
  PROVE  \E n \in 1..(Len(p) - 1) : q = SubSeq(p, 1, n)
  BY DEF Above

(* Contents are sequences, and a text more is one as long as there is room. *)
LEMMA ContentsAreSeqs ==
  /\ << >> \in Contents /\ Folder \notin Contents
  /\ \A c \in Contents : c \in Seq(1..MaxBoots) /\ Len(c) \in Nat
<1>1. << >> \in [1..0 -> 1..MaxBoots]
  OBVIOUS
<1> QED
  BY <1>1, StorageAssumption, SeqDef, LenProperties DEF Contents

LEMMA ContentsGrow ==
  ASSUME NEW c \in Contents, Len(c) < MaxLength, boots \in 1..MaxBoots
  PROVE  /\ c \o Text \in Contents
         /\ c \o Text # << >>
         /\ c = << >> => c \o Text = Text /\ (c \o Text)[1] = boots
         /\ c # << >> => (c \o Text)[1] = c[1]
<1>1. c \in Seq(1..MaxBoots) /\ Len(c) \in Nat
  BY ContentsAreSeqs
<1>2. Text \in Seq(1..MaxBoots) /\ Len(Text) = 1 /\ Text[1] = boots
  BY DEF Text
<1>3. /\ c \o Text \in Seq(1..MaxBoots) /\ Len(c \o Text) = Len(c) + 1
      /\ \A i \in 1..(Len(c) + 1) : (c \o Text)[i] = IF i <= Len(c) THEN c[i] ELSE Text[i - Len(c)]
  BY <1>1, <1>2, ConcatProperties
<1>4. c \o Text \in [1..(Len(c) + 1) -> 1..MaxBoots]
  BY <1>3, LenProperties
<1>5. c \o Text \in Contents
  BY <1>1, <1>4, StorageAssumption DEF Contents
<1>6. c \o Text # << >> /\ (c # << >> => Len(c) > 0)
  BY <1>1, <1>3, EmptySeq
<1>7. c = << >> => c \o Text = Text
  BY <1>2, ConcatEmptySeq
<1> QED
  BY <1>1, <1>2, <1>3, <1>5, <1>6, <1>7

-----------------------------------------------------------------------------
(* What is left to do. *)
LEMMA NextIsDue ==
  ASSUME todo \in Seq(Calls), todo # << >>
  PROVE  /\ Len(todo) \in Nat \ {0} /\ Head(todo) \in Calls /\ Head(todo) = Due(Len(todo))
         /\ Tail(todo) \in Seq(Calls) /\ Len(Tail(todo)) = Len(todo) - 1
         /\ \A k \in 1..Len(Tail(todo)) : Tail(todo)[Len(Tail(todo)) + 1 - k] = Due(k)
<1>1. Len(todo) \in Nat \ {0}
  BY EmptySeq
<1>2. /\ Head(todo) \in Calls /\ Tail(todo) \in Seq(Calls) /\ Len(Tail(todo)) = Len(todo) - 1
      /\ \A i \in 1..Len(Tail(todo)) : Tail(todo)[i] = todo[i + 1]
  BY HeadTailProperties
<1>3. Head(todo) = todo[1]
  OBVIOUS
<1>4. ASSUME NEW k \in 1..Len(Tail(todo))
      PROVE  Tail(todo)[Len(Tail(todo)) + 1 - k] = Due(k)
  <2>1. Len(Tail(todo)) + 1 - k \in 1..Len(Tail(todo))
    BY <1>1, <1>2
  <2>2. Len(Tail(todo)) + 1 - k + 1 = Len(todo) + 1 - k
    BY <1>1, <1>2
  <2> QED
    BY <1>2, <2>1, <2>2 DEF Due
<1> QED
  BY <1>1, <1>2, <1>3, <1>4 DEF Due

LEMMA TodoShrinks ==
  ASSUME TodoInv, todo # << >>, doing' = doing, todo' = Tail(todo) \/ todo' = << >>
  PROVE  TodoInv'
<1>1. CASE todo' = << >>
  BY <1>1, EmptySeq DEF TodoInv
<1>2. CASE todo' = Tail(todo)
  <2>1. /\ todo' \in Seq(Calls) /\ Len(todo') = Len(todo) - 1 /\ Len(todo) \in Nat
        /\ \A k \in 1..Len(todo') : todo'[Len(todo') + 1 - k] = Due(k)
    BY <1>2, NextIsDue DEF TodoInv
  <2>2. \A k \in 1..Len(todo') : IsDue(doing', k, todo'[Len(todo') + 1 - k])
    BY <2>1 DEF TodoInv
  <2>3. doing.name # "none"
    BY DEF TodoInv
  <2> QED
    BY <2>1, <2>2, <2>3 DEF TodoInv, Due
<1> QED
  BY <1>1, <1>2

(* A function that starts has its calls to make. *)
LEMMA TodoStarts ==
  ASSUME NEW name, NEW p \in Paths, NEW calls \in Seq(Calls), Run(name, p, calls),
         name # "none", DoingOK([name |-> name, path |-> p]),
         \A k \in 1..Len(calls) : IsDue([name |-> name, path |-> p], k, calls[Len(calls) + 1 - k])
  PROVE  TodoInv'
<1>1. doing' = [name |-> name, path |-> p] /\ todo' = calls
  BY DEF Run
<1> QED
  BY <1>1 DEF TodoInv, Due

LEMMA CallsAre ==
  ASSUME NEW name \in CallNames, NEW p \in Paths, NEW arg \in Paths
  PROVE  Call(name, p, arg) \in Calls
  BY DEF Call, Calls

LEMMA Pair ==
  ASSUME NEW S, NEW a \in S, NEW b \in S
  PROVE  <<a, b>> \in Seq(S) /\ Len(<<a, b>>) = 2 /\ <<a, b>>[1] = a /\ <<a, b>>[2] = b
  OBVIOUS

LEMMA WriteCalls ==
  ASSUME NEW p \in Paths
  PROVE  /\ CallsWriteFile(p) \in Seq(Calls) /\ Len(CallsWriteFile(p)) = 2
         /\ CallsWriteFile(p)[1] = Call("truncate", p, p)
         /\ CallsWriteFile(p)[2] = Call("close", p, p)
<1>1. Call("truncate", p, p) \in Calls /\ Call("close", p, p) \in Calls
  BY CallsAre DEF CallNames
<1> QED
  BY <1>1, Pair DEF CallsWriteFile

LEMMA ConcatCalls ==
  ASSUME NEW a \in Seq(Calls), NEW b \in Seq(Calls)
  PROVE  /\ a \o b \in Seq(Calls) /\ Len(a \o b) = Len(a) + Len(b)
         /\ \A i \in 1..(Len(a) + Len(b)) : (a \o b)[i] = IF i <= Len(a) THEN a[i] ELSE b[i - Len(a)]
  BY ConcatProperties

LEMMA InitLogTodo ==
  ASSUME InitLog
  PROVE  TodoInv'
<1> DEFINE r == Call("rename", LOG_FILE, LOG_ARCHIVE_FILE)
           w == CallsWriteFile(LOG_FILE)
           calls == <<r>> \o w
<1>1. LOG_FILE \in Paths /\ r \in Calls
  BY LogPaths, CallsAre DEF Logs, CallNames
<1>2. <<r>> \in Seq(Calls) /\ Len(<<r>>) = 1 /\ <<r>>[1] = r
  BY <1>1, Singleton
<1>3. /\ w \in Seq(Calls) /\ Len(w) = 2
      /\ w[1] = Call("truncate", LOG_FILE, LOG_FILE) /\ w[2] = Call("close", LOG_FILE, LOG_FILE)
  BY <1>1, WriteCalls
<1> HIDE DEF w
<1>4. /\ calls \in Seq(Calls) /\ Len(calls) = 3
      /\ \A i \in 1..3 : calls[i] = IF i <= 1 THEN <<r>>[i] ELSE w[i - 1]
  <2> DEFINE f == <<r>>
  <2>1. f \in Seq(Calls) /\ w \in Seq(Calls) /\ Len(f) = 1 /\ calls = f \o w
    BY <1>2, <1>3
  <2> HIDE DEF f, calls
  <2>2. /\ f \o w \in Seq(Calls) /\ Len(f \o w) = Len(f) + Len(w)
        /\ \A i \in 1..(Len(f) + Len(w)) : (f \o w)[i] = IF i <= Len(f) THEN f[i] ELSE w[i - Len(f)]
    BY <2>1, ConcatCalls
  <2>3. /\ calls \in Seq(Calls) /\ Len(calls) = 3
        /\ \A i \in 1..3 : calls[i] = IF i <= 1 THEN f[i] ELSE w[i - 1]
    BY <1>3, <2>1, <2>2
  <2> QED
    BY <2>3 DEF f
<1>5. calls[1] = r /\ calls[2] = w[1] /\ calls[3] = w[2]
  BY <1>2, <1>4
<1> HIDE DEF calls
<1>6. \A k \in 1..Len(calls) : IsDue([name |-> "init", path |-> LOG_FILE], k, calls[Len(calls) + 1 - k])
  <2>1. \A k \in 1..Len(calls) : k = 1 \/ k = 2 \/ k = 3
    BY <1>4
  <2> QED
    BY <1>3, <1>4, <1>5, <2>1 DEF IsDue, Writers
<1>7. Run("init", LOG_FILE, calls)
  BY DEF InitLog, calls, w
<1> QED
  BY <1>1, <1>4, <1>6, <1>7, TodoStarts DEF DoingOK

LEMMA SingleCallTodo ==
  ASSUME NEW p \in DataPaths, CreateDir(p) \/ RemoveDir(p) \/ DeleteFile(p)
  PROVE  TodoInv'
<1>1. p \in Paths
  BY DEF Paths
<1>2. ASSUME NEW name \in {"createDir", "removeDir", "deleteFile"}, NEW n \in CallNames,
             Run(name, p, <<Call(n, p, p)>>),
             \/ name = "createDir" /\ n = "mkdir"
             \/ name = "removeDir" /\ n = "rmdir"
             \/ name = "deleteFile" /\ n = "remove"
      PROVE  TodoInv'
  <2>1. Call(n, p, p) \in Calls
    BY <1>1, CallsAre
  <2>2. <<Call(n, p, p)>> \in Seq(Calls) /\ Len(<<Call(n, p, p)>>) = 1
        /\ <<Call(n, p, p)>>[1] = Call(n, p, p)
    BY <2>1, Singleton
  <2>3. IsDue([name |-> name, path |-> p], 1, Call(n, p, p))
    BY <1>2 DEF IsDue
  <2>4. DoingOK([name |-> name, path |-> p])
    BY DEF DoingOK
  <2>5. \A k \in 1..Len(<<Call(n, p, p)>>) :
          IsDue([name |-> name, path |-> p], k, <<Call(n, p, p)>>[Len(<<Call(n, p, p)>>) + 1 - k])
    BY <2>2, <2>3
  <2> QED
    BY <1>1, <1>2, <2>2, <2>4, <2>5, TodoStarts
<1> QED
  BY <1>2 DEF CreateDir, RemoveDir, DeleteFile, CallNames

LEMMA WriteFileTodo ==
  ASSUME NEW p \in DataPaths, WriteFile(p)
  PROVE  TodoInv'
<1>1. p \in Paths
  BY DEF Paths
<1>2. \A k \in 1..2 : IsDue([name |-> "writeFile", path |-> p], k, CallsWriteFile(p)[3 - k])
  <2>1. \A k \in 1..2 : k = 1 \/ k = 2
    OBVIOUS
  <2> QED
    BY <1>1, <2>1, WriteCalls DEF IsDue, Writers
<1>3. Run("writeFile", p, CallsWriteFile(p)) /\ DoingOK([name |-> "writeFile", path |-> p])
  BY DEF WriteFile, DoingOK
<1>4. CallsWriteFile(p) \in Seq(Calls) /\ Len(CallsWriteFile(p)) = 2
  BY <1>1, WriteCalls
<1>5. \A k \in 1..Len(CallsWriteFile(p)) :
        IsDue([name |-> "writeFile", path |-> p], k, CallsWriteFile(p)[Len(CallsWriteFile(p)) + 1 - k])
  BY <1>2, <1>4
<1> QED
  BY <1>1, <1>3, <1>4, <1>5, TodoStarts

LEMMA AppendFileTodo ==
  ASSUME NEW p \in DataPaths \cup {LOG_FILE}, AppendFile(p)
  PROVE  TodoInv'
<1>1. p \in Paths
  BY DEF Paths, Logs
<1>2. /\ CallsAppendFile(p) \in Seq(Calls) /\ Len(CallsAppendFile(p)) = 2
      /\ CallsAppendFile(p)[1] = Call("extend", p, p) /\ CallsAppendFile(p)[2] = Call("close", p, p)
  <2>1. Call("extend", p, p) \in Calls /\ Call("close", p, p) \in Calls
    BY <1>1, CallsAre DEF CallNames
  <2> QED
    BY <2>1, Pair DEF CallsAppendFile
<1>3. \A k \in 1..2 : IsDue([name |-> "appendFile", path |-> p], k, CallsAppendFile(p)[3 - k])
  <2>1. \A k \in 1..2 : k = 1 \/ k = 2
    OBVIOUS
  <2> QED
    BY <1>2, <2>1 DEF IsDue
<1>4. Run("appendFile", p, CallsAppendFile(p)) /\ DoingOK([name |-> "appendFile", path |-> p])
  BY DEF AppendFile, DoingOK
<1>5. \A k \in 1..Len(CallsAppendFile(p)) :
        IsDue([name |-> "appendFile", path |-> p], k, CallsAppendFile(p)[Len(CallsAppendFile(p)) + 1 - k])
  BY <1>2, <1>3
<1> QED
  BY <1>1, <1>2, <1>4, <1>5, TodoStarts

LEMMA WriteFile2Todo ==
  ASSUME NEW p \in DataPaths, WriteFile2(p)
  PROVE  TodoInv' /\ Len(todo') = IF p \in DOMAIN files THEN 2 ELSE Len(p) + 1
<1> DEFINE m == IF p \in DOMAIN files THEN << >> ELSE CallsMakeFolders(p)
           w == CallsWriteFile(p)
           calls == m \o w
           d == [name |-> "writeFile2", path |-> p]
<1>1. p \in Paths /\ Len(p) \in Nat \ {0}
  BY DataPathsAreSeqs DEF Paths
<1>2. /\ m \in Seq(Calls) /\ Len(m) = IF p \in DOMAIN files THEN 0 ELSE Len(p) - 1
      /\ \A i \in 1..Len(m) : m[i] = Call("mkdir", SubSeq(p, 1, i), p)
  <2>1. CASE p \in DOMAIN files
    BY <2>1, EmptySeq
  <2>2. CASE p \notin DOMAIN files
    <3>1. \A i \in 1..(Len(p) - 1) : Call("mkdir", SubSeq(p, 1, i), p) \in Calls
      BY <1>1, AbovePaths, CallsAre DEF CallNames
    <3>2. CallsMakeFolders(p) \in [1..(Len(p) - 1) -> Calls]
      BY <3>1 DEF CallsMakeFolders
    <3>3. CallsMakeFolders(p) \in Seq(Calls)
      BY <1>1, <3>2, SeqDef
    <3>4. Len(CallsMakeFolders(p)) = Len(p) - 1
      BY <1>1, <3>2, <3>3, LenProperties
    <3> QED
      BY <2>2, <3>3, <3>4 DEF CallsMakeFolders
  <2> QED
    BY <2>1, <2>2
<1>3. /\ w \in Seq(Calls) /\ Len(w) = 2
      /\ w[1] = Call("truncate", p, p) /\ w[2] = Call("close", p, p)
  BY <1>1, WriteCalls
<1> HIDE DEF m, w
<1>4. /\ calls \in Seq(Calls) /\ Len(calls) = Len(m) + 2
      /\ \A i \in 1..(Len(m) + 2) : calls[i] = IF i <= Len(m) THEN m[i] ELSE w[i - Len(m)]
  <2>1. m \in Seq(Calls) /\ w \in Seq(Calls)
    BY <1>2, <1>3
  <2>2. /\ m \o w \in Seq(Calls) /\ Len(m \o w) = Len(m) + Len(w)
        /\ \A i \in 1..(Len(m) + Len(w)) : (m \o w)[i] = IF i <= Len(m) THEN m[i] ELSE w[i - Len(m)]
    BY ONLY <2>1, ConcatCalls
  <2> QED
    BY <1>3, <2>2
<1> HIDE DEF calls
<1>5. ASSUME NEW k \in 1..Len(calls) PROVE IsDue(d, k, calls[Len(calls) + 1 - k])
  <2>1. Len(m) \in Nat
    BY <1>1, <1>2
  <2>2. CASE k = 1
    <3>1. Len(calls) + 1 - k = Len(m) + 2 /\ calls[Len(m) + 2] = w[2]
      BY <1>4, <2>1, <2>2
    <3> QED
      BY <1>3, <2>2, <3>1 DEF IsDue, Writers
  <2>3. CASE k = 2
    <3>1. Len(calls) + 1 - k = Len(m) + 1 /\ calls[Len(m) + 1] = w[1]
      BY <1>4, <2>1, <2>3
    <3> QED
      BY <1>3, <2>3, <3>1 DEF IsDue, Writers
  <2>4. CASE k > 2
    <3>1. Len(calls) + 1 - k = Len(m) + 3 - k /\ Len(m) + 3 - k \in 1..Len(m)
      BY <1>4, <2>1, <2>4
    <3>2. Len(m) = Len(p) - 1
      BY <1>1, <1>2, <3>1
    <3>3. calls[Len(m) + 3 - k] = Call("mkdir", SubSeq(p, 1, Len(p) + 2 - k), p)
      <4>1. calls[Len(m) + 3 - k] = m[Len(m) + 3 - k]
        BY <1>4, <2>1, <3>1
      <4>2. Len(m) + 3 - k = Len(p) + 2 - k
        BY <1>1, <3>2
      <4> QED
        BY <1>2, <3>1, <4>1, <4>2
    <3>4. k \in 3..(Len(p) + 1)
      BY <1>1, <1>4, <2>1, <2>4, <3>2
    <3> QED
      BY <3>1, <3>3, <3>4 DEF IsDue
  <2> QED
    BY <1>4, <2>1, <2>2, <2>3, <2>4
<1>6. Run("writeFile2", p, calls)
  BY DEF WriteFile2, calls, m, w
<1>7. TodoInv'
  BY <1>1, <1>4, <1>5, <1>6, TodoStarts DEF DoingOK
<1> QED
  BY <1>1, <1>2, <1>4, <1>6, <1>7 DEF Run

LEMMA DeleteFile2Todo ==
  ASSUME NEW p \in DataPaths, DeleteFile2(p)
  PROVE  TodoInv' /\ Len(todo') = Len(p)
<1> DEFINE r == Call("remove", p, p)
           u == CallsDropFolders(p)
           calls == <<r>> \o u
           d == [name |-> "deleteFile2", path |-> p]
<1>1. p \in Paths /\ Len(p) \in Nat \ {0}
  BY DataPathsAreSeqs DEF Paths
<1>2. r \in Calls /\ <<r>> \in Seq(Calls) /\ Len(<<r>>) = 1 /\ <<r>>[1] = r
  <2>1. r \in Calls
    BY <1>1, CallsAre DEF CallNames
  <2> QED
    BY <2>1, Singleton
<1>3. /\ u \in Seq(Calls) /\ Len(u) = Len(p) - 1
      /\ \A i \in 1..(Len(p) - 1) : u[i] = Call("rmdir", SubSeq(p, 1, Len(p) - i), p)
  <2>1. \A i \in 1..(Len(p) - 1) : Call("rmdir", SubSeq(p, 1, Len(p) - i), p) \in Calls
    <3> SUFFICES ASSUME NEW i \in 1..(Len(p) - 1)
                 PROVE  Call("rmdir", SubSeq(p, 1, Len(p) - i), p) \in Calls
      OBVIOUS
    <3>1. Len(p) - i \in 1..(Len(p) - 1)
      BY <1>1
    <3> QED
      BY <1>1, <3>1, AbovePaths, CallsAre DEF CallNames
  <2>2. u \in [1..(Len(p) - 1) -> Calls]
    BY <2>1 DEF CallsDropFolders
  <2>3. u \in Seq(Calls)
    BY <1>1, <2>2, SeqDef
  <2>4. Len(u) = Len(p) - 1
    BY <1>1, <2>2, <2>3, LenProperties
  <2> QED
    BY <2>3, <2>4 DEF CallsDropFolders
<1> HIDE DEF u
<1>4. /\ calls \in Seq(Calls) /\ Len(calls) = Len(p)
      /\ \A i \in 1..Len(p) : calls[i] = IF i <= 1 THEN <<r>>[i] ELSE u[i - 1]
  <2>1. /\ calls \in Seq(Calls) /\ Len(calls) = 1 + (Len(p) - 1)
        /\ \A i \in 1..(1 + (Len(p) - 1)) : calls[i] = IF i <= 1 THEN <<r>>[i] ELSE u[i - 1]
    BY <1>2, <1>3, ConcatCalls
  <2>2. 1 + (Len(p) - 1) = Len(p)
    BY <1>1
  <2> QED
    BY <2>1, <2>2
<1> HIDE DEF calls
<1>5. ASSUME NEW k \in 1..Len(calls) PROVE IsDue(d, k, calls[Len(calls) + 1 - k])
  <2>1. CASE k = Len(p)
    <3>1. Len(calls) + 1 - k = 1
      BY <1>1, <1>4, <2>1
    <3>2. calls[1] = r
      BY <1>1, <1>2, <1>4
    <3> QED
      BY <2>1, <3>1, <3>2 DEF IsDue
  <2>2. CASE k # Len(p)
    <3>1. k \in 1..(Len(p) - 1) /\ Len(calls) + 1 - k \in 2..Len(p)
          /\ Len(calls) + 1 - k - 1 \in 1..(Len(p) - 1) /\ Len(p) - (Len(calls) + 1 - k - 1) = k
      BY <1>1, <1>4, <2>2
    <3>2. calls[Len(calls) + 1 - k] = u[Len(calls) + 1 - k - 1]
      BY <1>1, <1>4, <3>1
    <3>3. u[Len(calls) + 1 - k - 1] = Call("rmdir", SubSeq(p, 1, k), p)
      BY <1>3, <3>1
    <3> QED
      BY <3>1, <3>2, <3>3 DEF IsDue
  <2> QED
    BY <2>1, <2>2
<1>6. Run("deleteFile2", p, calls)
  BY DEF DeleteFile2, calls, u
<1>7. TodoInv'
  BY <1>1, <1>4, <1>5, <1>6, TodoStarts DEF DoingOK
<1> QED
  BY <1>4, <1>6, <1>7 DEF Run

LEMMA ReadersTodo ==
  ASSUME ReadPastLog \/ \E b \in Batches : ExtractMsg(b)
  PROVE  TodoInv'
<1>1. ASSUME NEW name \in {"readPastLog", "extractMsg"}, NEW p \in Paths, NEW calls \in Seq(Calls),
             Run(name, p, calls),
             \A i \in 1..Len(calls) : calls[i].name \in {"read", "ignored", "fatal"}
      PROVE  TodoInv'
  <2>1. ASSUME NEW k \in 1..Len(calls)
        PROVE  IsDue([name |-> name, path |-> p], k, calls[Len(calls) + 1 - k])
    <3>1. Len(calls) + 1 - k \in 1..Len(calls)
      BY LenProperties
    <3> QED
      BY <1>1, <3>1 DEF IsDue
  <2> QED
    BY <1>1, <2>1, TodoStarts DEF DoingOK
<1>2. LOG_FILE \in Paths /\ LOG_ARCHIVE_FILE \in Paths
  BY LogPaths DEF Logs
<1>3. CASE ReadPastLog
  <2> DEFINE c == Call("read", LOG_ARCHIVE_FILE, LOG_FILE)
  <2>1. c \in Calls /\ c.name = "read"
    BY <1>2, CallsAre DEF CallNames, Call
  <2>2. <<c>> \in Seq(Calls) /\ Len(<<c>>) = 1 /\ <<c>>[1] = c
    BY <2>1, Singleton
  <2>3. Run("readPastLog", LOG_ARCHIVE_FILE, <<c>>)
    BY <1>3 DEF ReadPastLog
  <2>4. \A i \in 1..Len(<<c>>) : <<c>>[i].name \in {"read", "ignored", "fatal"}
    BY <2>1, <2>2
  <2> QED
    BY <1>1, <1>2, <2>2, <2>3, <2>4
<1>4. ASSUME NEW b \in Batches, ExtractMsg(b) PROVE TodoInv'
  <2> DEFINE calls == [i \in 1..Len(b) |-> Call(b[i].op, b[i].file, LOG_FILE)]
  <2>1. b \in Seq(FileOps) /\ Len(b) \in Nat
    BY RemoteFsAssumption, LenProperties
  <2>2. \A i \in 1..Len(b) : b[i] \in FileOps
    BY <2>1, ElementOfSeq
  <2>3. \A i \in 1..Len(b) : Call(b[i].op, b[i].file, LOG_FILE) \in Calls
    BY <1>2, <2>2, CallsAre DEF FileOps, CallNames
  <2>4. calls \in [1..Len(b) -> Calls]
    BY <2>3
  <2>5. calls \in Seq(Calls)
    BY <2>1, <2>4, SeqDef
  <2>6. Len(calls) = Len(b)
    BY <2>1, <2>4, <2>5, LenProperties
  <2>7. \A i \in 1..Len(calls) : calls[i].name \in {"read", "ignored", "fatal"}
    BY <2>2, <2>6 DEF Call, FileOps
  <2>8. Run("extractMsg", LOG_FILE, calls)
    BY <1>4 DEF ExtractMsg
  <2> HIDE DEF calls
  <2> QED
    BY <1>1, <1>2, <2>5, <2>7, <2>8
<1> QED
  BY <1>3, <1>4

-----------------------------------------------------------------------------
(* The calls keep the files in order. *)
LEMMA ParentIsShorter ==
  ASSUME NEW p \in Paths
  PROVE  Len(Parent(p)) = Len(p) - 1 /\ Parent(p) # p
<1>1. p \in Seq(Names) /\ Len(p) \in Nat \ {0}
  BY PathsAreSeqs
<1>2. \A i \in 1..(Len(p) - 1) : p[i] \in Names
  BY <1>1, ElementOfSeq
<1>3. Len(SubSeq(p, 1, Len(p) - 1)) = Len(p) - 1
  <2>1. PICK m \in Nat : m = Len(p) - 1
    BY <1>1
  <2>2. m + 1 \in 1..(Len(p) + 1) /\ (\A i \in 1..m : p[i] \in Names)
    BY <1>1, <1>2, <2>1
  <2>3. Len(SubSeq(p, 1, m)) = m
    <3>1. CASE m = 0
      BY <3>1, SubSeqEmpty, EmptySeq
    <3>2. CASE m # 0
      BY <2>1, <2>2, <3>2, SubSeqProperties
    <3> QED
      BY <3>1, <3>2
  <2> QED
    BY <2>1, <2>3
<1> QED
  BY <1>1, <1>3 DEF Parent

(* Something new, or a file that is written. *)
LEMMA WithKeepsFiles ==
  ASSUME FilesOK, NEW p \in Paths, NEW c, ~IsFolder(p), IsFolder(Parent(p)),
         c \in Contents \/ (c = Folder /\ p \notin Logs), files' = With(p, c)
  PROVE  FilesOK'
<1>1. DOMAIN files' = DOMAIN files \cup {p} /\ files'[p] = c
      /\ \A q \in DOMAIN files : q # p => files'[q] = files[q]
  BY DEF With
<1>2. \A q : IsFolder(q) => IsFolder(q)'
  BY <1>1 DEF IsFolder
<1>3. DOMAIN files' \subseteq Paths
  BY <1>1 DEF FilesOK
<1>4. ASSUME NEW q \in DOMAIN files'
      PROVE  (files'[q] = Folder \/ files'[q] \in Contents) /\ IsFolder(Parent(q))'
  BY <1>1, <1>2 DEF FilesOK
<1>5. ASSUME NEW l \in Logs, l \in DOMAIN files' PROVE IsFile(l)'
  BY <1>1, <1>5, ContentsAreSeqs DEF FilesOK, IsFile
<1> QED
  BY <1>3, <1>4, <1>5 DEF FilesOK

(* A file, or an empty folder, that goes. *)
LEMMA WithoutKeepsFiles ==
  ASSUME FilesOK, NEW p \in Paths, IsFile(p) \/ Children(p) = {}, files' = Without(p)
  PROVE  FilesOK'
<1>1. DOMAIN files' = DOMAIN files \ {p} /\ \A q \in DOMAIN files' : files'[q] = files[q]
  BY DEF Without
<1>2. ASSUME NEW q \in DOMAIN files' PROVE IsFolder(Parent(q))'
  <2>1. q \in DOMAIN files /\ q \in Paths /\ IsFolder(Parent(q))
    BY <1>1 DEF FilesOK
  <2>2. p # << >> /\ Len(Parent(q)) = Len(q) - 1 /\ Len(q) \in Nat
    BY <2>1, PathsAreSeqs, ParentIsShorter
  <2>3. Parent(q) # p
    <3>1. CASE IsFile(p)
      BY <2>1, <2>2, <3>1 DEF IsFile, IsFolder
    <3>2. CASE Children(p) = {}
      BY <2>1, <2>2, <3>2 DEF Children
    <3> QED
      BY <3>1, <3>2
  <2> QED
    BY <1>1, <2>1, <2>3 DEF IsFolder
<1> QED
  BY <1>1, <1>2 DEF FilesOK, IsFile

LEMMA RenameKeepsFiles ==
  ASSUME FilesOK, IsFile(LOG_FILE), files' = Rename(LOG_FILE, LOG_ARCHIVE_FILE)
  PROVE  /\ FilesOK'
         /\ LOG_FILE \notin DOMAIN files'
         /\ IsFile(LOG_ARCHIVE_FILE)' /\ files'[LOG_ARCHIVE_FILE] = files[LOG_FILE]
<1>1. /\ DOMAIN files' = (DOMAIN files \ {LOG_FILE}) \cup {LOG_ARCHIVE_FILE}
      /\ files'[LOG_ARCHIVE_FILE] = files[LOG_FILE]
      /\ \A q \in DOMAIN files' : q # LOG_ARCHIVE_FILE => files'[q] = files[q]
  BY DEF Rename
<1>2. LOG_FILE # LOG_ARCHIVE_FILE /\ LOG_ARCHIVE_FILE \in Paths
      /\ Parent(LOG_ARCHIVE_FILE) = << >> /\ LOG_FILE # << >> /\ LOG_ARCHIVE_FILE # << >>
  BY LogPaths, PathsAreSeqs DEF Logs
<1>3. /\ files[LOG_FILE] \in Contents /\ files[LOG_FILE] # Folder
  BY DEF FilesOK, IsFile
<1>4. ~IsFolder(LOG_FILE) /\ ~IsFolder(LOG_ARCHIVE_FILE)
  BY <1>2 DEF FilesOK, IsFile, IsFolder, Logs
<1>5. \A q : IsFolder(q) => IsFolder(q)'
  BY <1>1, <1>4 DEF IsFolder
<1>6. IsFolder(Parent(LOG_ARCHIVE_FILE))'
  BY <1>2 DEF IsFolder
<1>7. ASSUME NEW q \in DOMAIN files'
      PROVE  q \in Paths /\ (files'[q] = Folder \/ files'[q] \in Contents) /\ IsFolder(Parent(q))'
  BY <1>1, <1>2, <1>3, <1>5, <1>6 DEF FilesOK
<1>8. ASSUME NEW l \in Logs, l \in DOMAIN files' PROVE IsFile(l)'
  BY <1>1, <1>3, <1>8 DEF FilesOK, IsFile
<1> QED
  BY <1>1, <1>2, <1>3, <1>7, <1>8 DEF FilesOK, IsFile

-----------------------------------------------------------------------------
(* Which call is made for which function, and what it does to the files. *)
LEMMA NextCall ==
  ASSUME TodoInv, todo # << >>
  PROVE  /\ Head(todo) \in Calls /\ IsDue(doing, Len(todo), Head(todo))
         /\ Len(todo) \in Nat \ {0} /\ Tail(todo) \in Seq(Calls) /\ Len(Tail(todo)) = Len(todo) - 1
<1>1. Len(todo) \in 1..Len(todo)
  BY NextIsDue DEF TodoInv
<1> QED
  BY <1>1, NextIsDue DEF TodoInv

LEMMA FileCalls ==
  ASSUME TodoInv, todo # << >>
  PROVE  LET c == Head(todo) IN
         /\ c.name = "rename" => /\ doing.name = "init" /\ Len(todo) = 3
                                 /\ c.path = LOG_FILE /\ c.arg = LOG_ARCHIVE_FILE
         /\ c.name = "truncate" => Len(todo) = 2 /\ doing.name \in Writers /\ c.path = doing.path
         /\ c.name = "extend" => Len(todo) = 2 /\ doing.name = "appendFile" /\ c.path = doing.path
         /\ c.name = "close" => /\ Len(todo) = 1 /\ doing.name \in Writers \cup {"appendFile"}
                                /\ c.path = doing.path
  BY NextCall DEF IsDue, Call, Writers

LEMMA FolderCalls ==
  ASSUME TodoInv, todo # << >>
  PROVE  LET c == Head(todo) IN
         /\ c.name = "mkdir" =>
              \/ /\ doing.name = "writeFile2" /\ Len(todo) \in 3..(Len(doing.path) + 1)
                 /\ c.path = SubSeq(doing.path, 1, Len(doing.path) + 2 - Len(todo))
              \/ doing.name = "createDir" /\ Len(todo) = 1 /\ c.path = doing.path
         /\ c.name = "rmdir" =>
              \/ /\ doing.name = "deleteFile2" /\ Len(todo) \in 1..(Len(doing.path) - 1)
                 /\ c.path = SubSeq(doing.path, 1, Len(todo))
              \/ doing.name = "removeDir" /\ Len(todo) = 1 /\ c.path = doing.path
         /\ c.name = "remove" => /\ c.path = doing.path
                                 /\ \/ doing.name = "deleteFile2" /\ Len(todo) = Len(doing.path)
                                    \/ doing.name = "deleteFile" /\ Len(todo) = 1
         /\ c.name \in {"read", "ignored", "fatal"} => doing.name \in {"readPastLog", "extractMsg"}
         /\ c.name \in {"mkdir", "rmdir", "remove"} => doing.path \in DataPaths
<1>1. /\ Head(todo).name = "mkdir" =>
           \/ /\ doing.name = "writeFile2" /\ Len(todo) \in 3..(Len(doing.path) + 1)
              /\ Head(todo).path = SubSeq(doing.path, 1, Len(doing.path) + 2 - Len(todo))
           \/ doing.name = "createDir" /\ Len(todo) = 1 /\ Head(todo).path = doing.path
  BY NextCall DEF IsDue, Call, Writers
<1>2. /\ Head(todo).name = "rmdir" =>
           \/ /\ doing.name = "deleteFile2" /\ Len(todo) \in 1..(Len(doing.path) - 1)
              /\ Head(todo).path = SubSeq(doing.path, 1, Len(todo))
           \/ doing.name = "removeDir" /\ Len(todo) = 1 /\ Head(todo).path = doing.path
  BY NextCall DEF IsDue, Call, Writers
<1>3. Head(todo).name = "remove" =>
        /\ Head(todo).path = doing.path
        /\ \/ doing.name = "deleteFile2" /\ Len(todo) = Len(doing.path)
           \/ doing.name = "deleteFile" /\ Len(todo) = 1
  BY NextCall DEF IsDue, Call, Writers
<1>4. Head(todo).name \in {"read", "ignored", "fatal"} => doing.name \in {"readPastLog", "extractMsg"}
  BY NextCall DEF IsDue, Call, Writers
<1>5. Head(todo).name \in {"mkdir", "rmdir", "remove"} => doing.path \in DataPaths
  BY <1>1, <1>2, <1>3 DEF TodoInv, DoingOK
<1> QED
  BY <1>1, <1>2, <1>3, <1>4, <1>5

(* Folders are made and dropped, and files removed, away from the logs. *)
LEMMA FolderCallPaths ==
  ASSUME TodoInv, todo # << >>, Head(todo).name \in {"mkdir", "rmdir", "remove"}
  PROVE  /\ Head(todo).path \in Paths /\ Head(todo).path \notin Logs
         /\ doing.path \in DataPaths /\ Len(doing.path) \in Nat \ {0}
<1>1. doing.path \in DataPaths /\ Len(doing.path) \in Nat \ {0} /\ doing.path \notin Logs
  BY FolderCalls, DataPathsAreSeqs, LogPaths
<1>2. Head(todo).path \in Paths
  BY NextCall DEF Calls
<1>3. CASE Head(todo).path = doing.path
  BY <1>1, <1>2, <1>3
<1>4. CASE Head(todo).path # doing.path
  <2>1. \E n \in 1..(Len(doing.path) - 1) : Head(todo).path = SubSeq(doing.path, 1, n)
    <3>1. CASE Head(todo).name = "mkdir"
      <4>1. Len(todo) \in 3..(Len(doing.path) + 1)
            /\ Head(todo).path = SubSeq(doing.path, 1, Len(doing.path) + 2 - Len(todo))
        BY <1>4, <3>1, FolderCalls
      <4>2. Len(doing.path) + 2 - Len(todo) \in 1..(Len(doing.path) - 1)
        BY <1>1, <4>1
      <4> QED
        BY <4>1, <4>2
    <3>2. CASE Head(todo).name # "mkdir"
      BY <1>4, <3>2, FolderCalls
    <3> QED
      BY <3>1, <3>2
  <2> QED
    BY <1>1, <1>2, <2>1, AbovePaths
<1> QED
  BY <1>3, <1>4

LEMMA CallMade ==
  ASSUME MakeCall
  PROVE  LET c == Head(todo) IN
         /\ c.name = "mkdir"    => files' = Mkdir(c.path)
         /\ c.name = "rmdir"    => files' = Rmdir(c.path)
         /\ c.name = "remove"   => files' = Remove(c.path)
         /\ c.name = "rename"   => files' = Rename(c.path, c.arg)
         /\ c.name = "truncate" => files' = IF CanOpen(c.path) THEN With(c.path, << >>) ELSE files
         /\ c.name = "extend"   => files' = IF CanOpen(c.path) /\ ~IsFile(c.path)
                                            THEN With(c.path, << >>) ELSE files
         /\ c.name = "close"    => files' = With(c.path, files[c.path] \o Text)
         /\ todo # << >> /\ doing' = doing /\ boots' = boots
         /\ todo' = Tail(todo) \/ todo' = << >>
         /\ c.name \in {"truncate", "extend"} /\ ~CanOpen(c.path) => todo' = << >>
         /\ c.name \notin {"truncate", "extend"} => todo' = Tail(todo)
         /\ c.name # "close" => torn' = torn /\ lastLog' = lastLog
  BY DEF MakeCall, After, Opens

LEMMA CanOpenPath ==
  ASSUME FilesOK, NEW p \in Paths, CanOpen(p)
  PROVE  IsFolder(Parent(p)) /\ ~IsFolder(p)
  BY PathsAreSeqs DEF CanOpen, FilesOK, IsFile, IsFolder

LEMMA CallKeepsFiles ==
  ASSUME FilesInv, MakeCall, Head(todo).name \notin {"read", "ignored", "fatal"}
  PROVE  FilesOK'
<1> DEFINE c == Head(todo)
<1>1. FilesOK /\ TodoInv /\ OpenInv /\ boots \in 1..MaxBoots /\ todo # << >>
  BY CallMade DEF FilesInv, TypeOK
<1>2. c.path \in Paths /\ c.name \in CallNames \ {"read", "ignored", "fatal"}
  BY <1>1, NextCall DEF Calls
<1>3. CASE files' = files
  BY <1>1, <1>3 DEF FilesOK, IsFile, IsFolder
<1>4. CASE c.name = "mkdir" /\ files' # files
  <2>1. c.path \notin DOMAIN files /\ IsFolder(Parent(c.path)) /\ files' = With(c.path, Folder)
    BY <1>4, CallMade DEF Mkdir
  <2>2. c.path \notin Logs /\ c.path # << >>
    BY <1>1, <1>2, <1>4, FolderCallPaths, PathsAreSeqs
  <2>3. ~IsFolder(c.path)
    BY <2>1, <2>2 DEF IsFolder
  <2> QED
    BY <1>1, <1>2, <2>1, <2>2, <2>3, WithKeepsFiles
<1>5. CASE c.name = "rmdir" /\ files' # files
  <2>1. Children(c.path) = {} /\ files' = Without(c.path)
    BY <1>5, CallMade DEF Rmdir
  <2> QED
    BY <1>1, <1>2, <2>1, WithoutKeepsFiles
<1>6. CASE c.name = "remove" /\ files' # files
  <2>1. IsFile(c.path) /\ files' = Without(c.path)
    BY <1>6, CallMade DEF Remove
  <2> QED
    BY <1>1, <1>2, <2>1, WithoutKeepsFiles
<1>7. CASE c.name = "rename" /\ files' # files
  <2>1. files' = Rename(LOG_FILE, LOG_ARCHIVE_FILE)
    BY <1>1, <1>7, CallMade, FileCalls
  <2>2. IsFile(LOG_FILE)
    BY <1>7, <2>1 DEF Rename
  <2> QED
    BY <1>1, <2>1, <2>2, RenameKeepsFiles
<1>8. CASE c.name \in {"truncate", "extend"} /\ files' # files
  <2>1. CanOpen(c.path) /\ files' = With(c.path, << >>)
    BY <1>8, CallMade
  <2> QED
    BY <1>1, <1>2, <2>1, CanOpenPath, WithKeepsFiles, ContentsAreSeqs
<1>9. CASE c.name = "close"
  <2>1. IsFile(c.path) /\ Len(files[c.path]) < MaxLength /\ files' = With(c.path, files[c.path] \o Text)
    BY <1>1, <1>9, CallMade, FileCalls DEF OpenInv
  <2>2. files[c.path] \in Contents
    BY <1>1, <2>1 DEF FilesOK, IsFile
  <2>3. files[c.path] \o Text \in Contents
    BY <1>1, <2>1, <2>2, ContentsGrow
  <2>4. CanOpen(c.path)
    BY <2>1 DEF CanOpen
  <2> QED
    BY <1>1, <1>2, <2>1, <2>3, <2>4, CanOpenPath, WithKeepsFiles
<1> QED
  BY <1>2, <1>3, <1>4, <1>5, <1>6, <1>7, <1>8, <1>9 DEF CallNames

(* The first of some calls. *)
LEMMA FirstIsDue ==
  ASSUME TodoInv', todo' # << >>
  PROVE  IsDue(doing', Len(todo'), Head(todo')) /\ Len(todo') \in Nat \ {0}
<1>1. todo' \in Seq(Calls) /\ \A k \in 1..Len(todo') : IsDue(doing', k, todo'[Len(todo') + 1 - k])
  BY DEF TodoInv, Due
<1>2. Len(todo') \in Nat \ {0} /\ Head(todo') = todo'[1]
  BY <1>1, EmptySeq
<1>3. Len(todo') \in 1..Len(todo') /\ Len(todo') + 1 - Len(todo') = 1
  BY <1>2
<1> QED
  BY <1>1, <1>2, <1>3

(* A file that is opened is there, with room for a text. *)
LEMMA CallKeepsOpen ==
  ASSUME FilesInv, MakeCall, TodoInv'
  PROVE  OpenInv'
<1> DEFINE c == Head(todo)
<1>1. FilesOK /\ TodoInv /\ OpenInv /\ todo # << >> /\ doing' = doing
  BY CallMade DEF FilesInv
<1>2. ASSUME todo' # << >>, Head(todo').name \in {"close", "extend"}
      PROVE  Len(todo') \in 1..2 /\ todo' = Tail(todo) /\ Len(todo) = Len(todo') + 1
             /\ IsDue(doing, Len(todo'), Head(todo'))
  <2>1. IsDue(doing, Len(todo'), Head(todo')) /\ Len(todo') \in Nat \ {0}
    BY <1>1, <1>2, FirstIsDue
  <2>2. Len(todo') \in 1..2
    BY <1>2, <2>1 DEF IsDue, Call
  <2>3. todo' = Tail(todo)
    BY <1>2, CallMade
  <2> QED
    BY <1>1, <2>1, <2>2, <2>3, NextCall
<1>3. ASSUME todo' # << >>, Head(todo').name = "close"
      PROVE  /\ IsFile(doing.path)' /\ Len(files'[doing.path]) < MaxLength
             /\ doing.name \in Writers => files'[doing.path] = << >>
  <2>1. /\ Len(todo) = 2 /\ IsDue(doing, 1, Head(todo')) /\ todo' = Tail(todo)
        /\ doing.name \in Writers \cup {"appendFile"}
    <3>1. IsDue(doing, Len(todo'), Head(todo')) /\ Len(todo') \in 1..2 /\ Len(todo) = Len(todo') + 1
      BY <1>2, <1>3
    <3>2. Len(todo') = 1 /\ doing.name \in Writers \cup {"appendFile"}
      BY <1>3, <3>1 DEF IsDue, Call, Writers
    <3> QED
      BY <1>2, <1>3, <3>1, <3>2
  <2>2. IsDue(doing, 2, c)
    BY <1>1, <2>1, NextCall
  <2>3. c.path = doing.path /\ c.name \in {"truncate", "extend"}
        /\ (doing.name \in Writers => c.name = "truncate")
    <3>1. CASE doing.name \in Writers
      BY <2>1, <2>2, <3>1 DEF IsDue, Call, Writers
    <3>2. CASE doing.name = "appendFile"
      BY <2>1, <2>2, <3>2 DEF IsDue, Call, Writers
    <3> QED
      BY <2>1, <3>1, <3>2
  <2>4. CanOpen(c.path)
    BY <1>3, <2>3, CallMade
  <2>5. /\ files' = With(c.path, << >>) \/ (c.name = "extend" /\ IsFile(c.path) /\ files' = files)
    BY <2>3, <2>4, CallMade
  <2>6. CASE files' = With(c.path, << >>)
    <3>1. c.path \in DOMAIN files' /\ files'[c.path] = << >>
      BY <2>6 DEF With
    <3>2. << >> # Folder /\ Len(<< >>) < MaxLength
      BY ContentsAreSeqs, StorageAssumption, EmptySeq
    <3>3. IsFile(doing.path)' /\ files'[doing.path] = << >>
      BY <1>1, <2>3, <3>1, <3>2 DEF IsFile
    <3> QED
      BY <3>2, <3>3
  <2>7. CASE c.name = "extend" /\ IsFile(c.path) /\ files' = files
    BY <1>1, <2>3, <2>7 DEF OpenInv, IsFile
  <2> QED
    BY <2>5, <2>6, <2>7
<1>4. ASSUME todo' # << >>, Head(todo').name = "extend" PROVE FALSE
  <2>1. Len(todo') = 2 /\ doing.name = "appendFile" /\ Len(todo) = 3
    <3>1. IsDue(doing, Len(todo'), Head(todo')) /\ Len(todo') \in 1..2 /\ Len(todo) = Len(todo') + 1
      BY <1>2, <1>4
    <3>2. Len(todo') = 2 /\ doing.name = "appendFile"
      BY <1>4, <3>1 DEF IsDue, Call, Writers
    <3> QED
      BY <3>1, <3>2
  <2>2. IsDue(doing, 3, c)
    BY <1>1, <2>1, NextCall
  <2> QED
    BY <2>1, <2>2 DEF IsDue, Writers
<1> QED
  BY <1>1, <1>3, <1>4 DEF OpenInv

LEMMA CallKeepsTypes ==
  ASSUME FilesInv, MakeCall, FilesOK'
  PROVE  TypeOK'
<1> DEFINE c == Head(todo)
<1>1. TypeOK /\ FilesOK /\ TodoInv /\ OpenInv /\ todo # << >> /\ doing' = doing /\ boots' = boots
  BY CallMade DEF FilesInv
<1>2. c.path \in Paths
  BY <1>1, NextCall DEF Calls
<1>3. torn' \subseteq Paths
  BY <1>1 DEF MakeCall, TypeOK
<1>4. lastLog' \in Contents
  <2>1. CASE c.name = "close" /\ c.path = LOG_FILE
    <3>1. lastLog' = files'[LOG_FILE]
      BY <2>1 DEF MakeCall
    <3>2. LOG_FILE \in DOMAIN files'
      BY <2>1, CallMade DEF With
    <3> QED
      BY <3>1, <3>2 DEF FilesOK, IsFile, Logs
  <2>2. CASE ~(c.name = "close" /\ c.path = LOG_FILE)
    BY <1>1, <2>2 DEF MakeCall, TypeOK
  <2> QED
    BY <2>1, <2>2
<1> QED
  BY <1>1, <1>3, <1>4 DEF TypeOK, FilesOK

LEMMA CallKeepsInv ==
  ASSUME FilesInv, MakeCall, ~Fatal(Head(todo)), Head(todo).name \notin {"read", "ignored"}
  PROVE  FilesInv'
<1>1. FilesOK'
  BY CallKeepsFiles DEF Fatal
<1>2. TodoInv'
  BY CallMade, TodoShrinks DEF FilesInv
<1> QED
  BY <1>1, <1>2, CallKeepsOpen, CallKeepsTypes DEF FilesInv

(* A print that fails is the end of its function, and changes no file. *)
LEMMA PrintFailed ==
  ASSUME FilesInv, PrintFails
  PROVE  /\ todo # << >> /\ Head(todo).name = "close" /\ Len(todo) = 1
         /\ Head(todo).path = doing.path /\ IsFile(doing.path)
         /\ doing.name \in Writers \cup {"appendFile"}
         /\ doing.name \in Writers => files[doing.path] = << >>
         /\ todo' = << >> /\ Len(todo') = 0
         /\ files' = files /\ doing' = doing /\ boots' = boots /\ lastLog' = lastLog
         /\ torn' = IF files[doing.path] = << >> THEN torn \cup {doing.path} ELSE torn
<1>1. todo # << >> /\ Head(todo).name = "close" /\ TodoInv /\ OpenInv
  BY DEF FilesInv, PrintFails
<1>2. Len(todo) = 1 /\ Head(todo).path = doing.path /\ doing.name \in Writers \cup {"appendFile"}
  BY <1>1, FileCalls
<1>3. todo' = Tail(todo) /\ Tail(todo) \in Seq(Calls) /\ Len(Tail(todo)) = 0
  BY <1>1, <1>2, NextCall DEF PrintFails
<1>4. todo' = << >> /\ Len(todo') = 0
  BY <1>3, EmptySeq
<1> QED
  BY <1>1, <1>2, <1>4 DEF PrintFails, OpenInv

LEMMA FailureKeepsInv ==
  ASSUME FilesInv, PrintFails
  PROVE  FilesInv'
<1>1. TypeOK /\ FilesOK /\ TodoInv /\ todo # << >>
  BY PrintFailed DEF FilesInv
<1>2. TodoInv'
  BY <1>1, PrintFailed, TodoShrinks
<1>3. OpenInv'
  BY PrintFailed DEF OpenInv
<1>4. FilesOK' /\ TypeOK'
  BY <1>1, PrintFailed DEF TypeOK, FilesOK, IsFile, IsFolder
<1> QED
  BY <1>2, <1>3, <1>4 DEF FilesInv

(* A function that starts does nothing yet. *)
LEMMA RunKeepsInv ==
  ASSUME FilesInv, NEW name \in Functions, NEW p \in Paths, NEW calls, Run(name, p, calls), TodoInv',
         name \in Writers \cup {"appendFile"} => Len(todo') >= 2,
         name = "appendFile" => (IsFile(p) => Len(files[p]) < MaxLength)
  PROVE  FilesInv'
<1>1. files' = files /\ boots' = boots /\ lastLog' = lastLog /\ torn' = torn
      /\ doing' = [name |-> name, path |-> p] /\ todo' = calls
  BY DEF Run
<1>2. FilesOK' /\ TypeOK'
  BY <1>1 DEF FilesInv, FilesOK, TypeOK, IsFile, IsFolder
<1>3. todo' # << >> => IsDue(doing', Len(todo'), Head(todo')) /\ Len(todo') \in Nat \ {0}
  BY FirstIsDue
<1>4. todo' # << >> => Head(todo').name # "close"
  <2> SUFFICES ASSUME todo' # << >>, Head(todo').name = "close" PROVE FALSE
    OBVIOUS
  <2>1. IsDue(doing', Len(todo'), Head(todo'))
    BY <1>3
  <2>2. Len(todo') = 1 /\ doing'.name \in Writers \cup {"appendFile"}
    BY <2>1 DEF IsDue, Call, Writers
  <2> QED
    BY <1>1, <2>2
<1>5. todo' # << >> /\ Head(todo').name = "extend" => name = "appendFile"
  BY <1>1, <1>3 DEF IsDue, Call
<1>6. OpenInv'
  BY <1>1, <1>4, <1>5 DEF OpenInv, IsFile
<1> QED
  BY <1>2, <1>6 DEF FilesInv

LEMMA LengthOfWrites ==
  /\ InitLog => Len(todo') = 3
  /\ \A p \in Paths : WriteFile(p) \/ AppendFile(p) => Len(todo') >= 2
<1>1. \A p \in Paths : WriteFile(p) => Len(todo') >= 2
  BY WriteCalls DEF WriteFile, Run
<1>2. \A p \in Paths : AppendFile(p) => Len(todo') >= 2
  BY DEF AppendFile, Run, CallsAppendFile
<1>3. ASSUME InitLog PROVE Len(todo') = 3
  <2> DEFINE r == Call("rename", LOG_FILE, LOG_ARCHIVE_FILE)
             f == <<r>>
             w == CallsWriteFile(LOG_FILE)
  <2>1. LOG_FILE \in Paths /\ r \in Calls
    BY LogPaths, CallsAre DEF Logs, CallNames
  <2>2. f \in Seq(Calls) /\ Len(f) = 1 /\ w \in Seq(Calls) /\ Len(w) = 2
    BY <2>1, Singleton, WriteCalls
  <2>3. todo' = f \o w
    BY <1>3 DEF InitLog, Run
  <2> HIDE DEF f, w
  <2>4. Len(f \o w) = Len(f) + Len(w)
    BY <2>2, ConcatCalls
  <2> QED
    BY <2>2, <2>3, <2>4
<1> QED
  BY <1>1, <1>2, <1>3

LEMMA InitLogKeepsInv ==
  ASSUME FilesInv, InitLog
  PROVE  FilesInv'
<1>1. LOG_FILE \in Paths /\ TodoInv' /\ Len(todo') >= 2
  BY LogPaths, InitLogTodo, LengthOfWrites DEF Logs
<1>2. PICK calls : Run("init", LOG_FILE, calls)
  BY DEF InitLog
<1>3. "init" \in Functions /\ "init" # "appendFile"
  BY DEF Functions
<1> QED
  BY <1>1, <1>2, <1>3, RunKeepsInv

LEMMA FsUtilsKeepsInv ==
  ASSUME FilesInv, FsUtils
  PROVE  FilesInv'
<1>1. \A p \in DataPaths : p \in Paths /\ Len(p) \in Nat \ {0}
  BY DataPathsAreSeqs DEF Paths
<1>2. ASSUME NEW p \in DataPaths, CreateDir(p) \/ RemoveDir(p) \/ DeleteFile(p) PROVE FilesInv'
  <2>1. TodoInv'
    BY <1>2, SingleCallTodo
  <2>2. PICK name \in {"createDir", "removeDir", "deleteFile"} : \E calls : Run(name, p, calls)
    BY <1>2 DEF CreateDir, RemoveDir, DeleteFile
  <2>3. name \in Functions /\ name \notin Writers \cup {"appendFile"}
    BY DEF Functions, Writers
  <2> QED
    BY <1>1, <2>1, <2>2, <2>3, RunKeepsInv
<1>3. ASSUME NEW p \in DataPaths, WriteFile(p) PROVE FilesInv'
  <2>1. TodoInv' /\ Len(todo') >= 2
    BY <1>1, <1>3, WriteFileTodo, LengthOfWrites
  <2>2. Run("writeFile", p, CallsWriteFile(p)) /\ "writeFile" \in Functions
    BY <1>3 DEF WriteFile, Functions
  <2> QED
    BY <1>1, <2>1, <2>2, RunKeepsInv
<1>4. ASSUME NEW p \in DataPaths, WriteFile2(p) PROVE FilesInv'
  <2>1. TodoInv' /\ Len(todo') >= 2
    BY <1>1, <1>4, WriteFile2Todo
  <2>2. PICK calls : Run("writeFile2", p, calls)
    BY <1>4 DEF WriteFile2
  <2>3. "writeFile2" \in Functions
    BY DEF Functions
  <2> QED
    BY <1>1, <2>1, <2>2, <2>3, RunKeepsInv
<1>5. ASSUME NEW p \in DataPaths, DeleteFile2(p) PROVE FilesInv'
  <2>1. TodoInv'
    BY <1>5, DeleteFile2Todo
  <2>2. PICK calls : Run("deleteFile2", p, calls)
    BY <1>5 DEF DeleteFile2
  <2>3. "deleteFile2" \in Functions /\ "deleteFile2" \notin Writers \cup {"appendFile"}
    BY DEF Functions, Writers
  <2> QED
    BY <1>1, <2>1, <2>2, <2>3, RunKeepsInv
<1>6. ASSUME NEW p \in DataPaths \cup {LOG_FILE}, AppendFile(p) PROVE FilesInv'
  <2>1. p \in Paths
    BY <1>1, LogPaths DEF Logs
  <2>2. TodoInv' /\ Len(todo') >= 2
    BY <1>6, <2>1, AppendFileTodo, LengthOfWrites
  <2>3. Run("appendFile", p, CallsAppendFile(p)) /\ "appendFile" \in Functions
        /\ (IsFile(p) => Len(files[p]) < MaxLength)
    BY <1>6 DEF AppendFile, Functions
  <2> QED
    BY <2>1, <2>2, <2>3, RunKeepsInv
<1> QED
  BY <1>2, <1>3, <1>4, <1>5, <1>6 DEF FsUtils

LEMMA ReadersKeepInv ==
  ASSUME FilesInv, ReadPastLog \/ \E b \in Batches : ExtractMsg(b)
  PROVE  FilesInv'
<1>1. TodoInv'
  BY ReadersTodo
<1>2. PICK name \in {"readPastLog", "extractMsg"}, p \in Logs : \E calls : Run(name, p, calls)
  BY DEF ReadPastLog, ExtractMsg, Logs
<1>3. name \in Functions /\ name \notin Writers \cup {"appendFile"} /\ p \in Paths
  BY LogPaths DEF Functions, Writers
<1> QED
  BY <1>1, <1>2, <1>3, RunKeepsInv

LEMMA RestartKeepsInv ==
  ASSUME FilesInv, Restart
  PROVE  FilesInv'
<1>1. FilesOK' /\ todo' = << >> /\ doing' = [name |-> "none", path |-> LOG_FILE]
  BY DEF FilesInv, Restart, FilesOK, IsFile, IsFolder
<1>2. TodoInv'
  BY <1>1, EmptySeq DEF TodoInv, DoingOK
<1>3. OpenInv'
  BY <1>1 DEF OpenInv
<1>4. torn' \subseteq Paths
  <2>1. todo # << >> => Head(todo).path \in Paths
    BY NextCall DEF FilesInv, Calls
  <2> QED
    BY <2>1 DEF FilesInv, TypeOK, Restart
<1>5. boots' \in 1..MaxBoots
  BY StorageAssumption DEF FilesInv, TypeOK, Restart
<1>6. TypeOK'
  <2>1. LOG_FILE \in Paths /\ "none" \in Functions
    BY LogPaths DEF Logs, Functions
  <2> QED
    BY <1>1, <1>4, <1>5, <2>1 DEF FilesInv, FilesOK, TypeOK, Restart
<1> QED
  BY <1>1, <1>2, <1>3, <1>6 DEF FilesInv

LEMMA FilesInvInit == FsInit => FilesInv
<1> SUFFICES ASSUME FsInit PROVE FilesInv
  OBVIOUS
<1>1. LOG_FILE \in Paths /\ << >> \in Contents /\ 1 \in 1..MaxBoots
  BY LogPaths, ContentsAreSeqs, StorageAssumption DEF Logs
<1>2. DOMAIN files = {} /\ todo = << >>
  BY DEF FsInit, Init
<1>3. TypeOK /\ FilesOK
  BY <1>1, <1>2 DEF FsInit, Init, TypeOK, FilesOK, Functions
<1>4. TodoInv /\ OpenInv
  BY <1>2, EmptySeq DEF FsInit, Init, TodoInv, OpenInv, DoingOK
<1> QED
  BY <1>3, <1>4 DEF FilesInv

LEMMA FilesInvStep == FilesInv /\ [FsNext]_fsVars => FilesInv'
<1> SUFFICES ASSUME FilesInv, [FsNext]_fsVars PROVE FilesInv'
  OBVIOUS
<1>1. CASE Step /\ Head(todo).name \in {"read", "ignored"}
  <2>1. todo # << >> /\ todo' = Tail(todo) /\ UNCHANGED <<files, doing, boots, lastLog, torn>>
    BY <1>1 DEF Step
  <2>2. TodoInv' /\ TodoInv
    BY <2>1, TodoShrinks DEF FilesInv
  <2>3. TypeOK' /\ FilesOK'
    BY <2>1 DEF FilesInv, TypeOK, FilesOK, IsFile, IsFolder
  <2>4. doing.name \in {"readPastLog", "extractMsg"}
    BY <1>1, <2>1, <2>2, FolderCalls
  <2>5. todo' # << >> => Head(todo').name \notin {"close", "extend"}
    BY <2>1, <2>2, <2>4, FirstIsDue DEF IsDue, Writers
  <2> QED
    BY <2>2, <2>3, <2>5 DEF FilesInv, OpenInv
<1>2. CASE Step /\ Head(todo).name \notin {"read", "ignored"}
  <2>1. (MakeCall \/ PrintFails) /\ ~Fatal(Head(todo))
    BY <1>2 DEF Step
  <2> QED
    BY <1>2, <2>1, CallKeepsInv, FailureKeepsInv
<1>3. CASE Other
  BY <1>3, InitLogKeepsInv, FsUtilsKeepsInv DEF Other
<1>4. CASE ReadPastLog \/ \E b \in Batches : ExtractMsg(b)
  BY <1>4, ReadersKeepInv
<1>5. CASE FsRestart
  BY <1>5, RestartKeepsInv DEF FsRestart
<1>6. CASE UNCHANGED fsVars
  BY <1>6 DEF fsVars, vars, FilesInv, TypeOK, FilesOK, TodoInv, OpenInv, IsFile, IsFolder, Due
<1> QED
  BY <1>1, <1>2, <1>3, <1>4, <1>5, <1>6 DEF FsNext

-----------------------------------------------------------------------------
(* The logs. *)
LEMMA LogsAre ==
  ASSUME FilesOK
  PROVE  /\ LOG_FILE \in Logs /\ LOG_ARCHIVE_FILE \in Logs /\ LOG_FILE # LOG_ARCHIVE_FILE
         /\ \A l \in Logs : l \in DOMAIN files <=> IsFile(l)
         /\ \A l \in Logs : IsFile(l) => files[l] \in Contents /\ files[l] # Folder
         /\ \A l \in Logs : l \notin DOMAIN files => CanOpen(l)
         /\ \A l \in Logs : CanOpen(l)
  BY LogPaths DEF Logs, FilesOK, IsFile, CanOpen, IsFolder

LEMMA SameElsewhere ==
  ASSUME NEW p, NEW c, files' = With(p, c) \/ files' = Without(p)
  PROVE  \A l \in Logs : l # p => Same(l)
  BY DEF With, Without, Same, IsFile

LEMMA SameFiles ==
  ASSUME files' = files
  PROVE  SameLogs
  BY DEF SameLogs, Same, IsFile

LEMMA RenameOnLogs ==
  ASSUME FilesInv, MakeCall, Head(todo).name = "rename"
  PROVE  MovesLog
<1>1. FilesOK /\ TodoInv /\ todo # << >>
  BY CallMade DEF FilesInv
<1>2. /\ doing.name = "init" /\ Len(todo) = 3 /\ todo' = Tail(todo) /\ Len(todo') = 2
      /\ torn' = torn /\ lastLog' = lastLog /\ files' = Rename(LOG_FILE, LOG_ARCHIVE_FILE)
  <2>1. /\ doing.name = "init" /\ Len(todo) = 3
        /\ Head(todo).path = LOG_FILE /\ Head(todo).arg = LOG_ARCHIVE_FILE
    BY <1>1, FileCalls
  <2>2. todo' = Tail(todo) /\ torn' = torn /\ lastLog' = lastLog
        /\ files' = Rename(Head(todo).path, Head(todo).arg)
    BY CallMade
  <2>3. Len(todo') = 2
    BY <1>1, <2>1, <2>2, NextCall
  <2> QED
    BY <2>1, <2>2, <2>3
<1>3. CASE IsFile(LOG_FILE)
  <2>1. /\ LOG_FILE \notin DOMAIN files'
        /\ IsFile(LOG_ARCHIVE_FILE)' /\ files'[LOG_ARCHIVE_FILE] = files[LOG_FILE]
    BY <1>1, <1>2, <1>3, RenameKeepsFiles
  <2>2. ~IsFile(LOG_FILE)'
    BY <2>1 DEF IsFile
  <2> QED
    BY <1>2, <1>3, <2>1, <2>2 DEF MovesLog
<1>4. CASE ~IsFile(LOG_FILE)
  <2>1. files' = files
    BY <1>2, <1>4 DEF Rename
  <2> QED
    BY <1>2, <1>4, <2>1, SameFiles DEF MovesLog
<1> QED
  BY <1>3, <1>4

LEMMA OpenOnLogs ==
  ASSUME FilesInv, FilesInv', LogInv, MakeCall, Head(todo).name \in {"truncate", "extend"},
         doing.path = LOG_FILE
  PROVE  OpensLog /\ doing.name \in {"init", "appendFile"}
         /\ (doing.name = "init" => ~IsFile(LOG_FILE))
<1> DEFINE c == Head(todo)
<1>1. FilesOK /\ TodoInv /\ todo # << >>
  BY CallMade DEF FilesInv
<1>2. /\ Len(todo) = 2 /\ c.path = LOG_FILE
      /\ doing.name \in {"init", "appendFile"}
      /\ c.name = "truncate" => doing.name = "init"
      /\ c.name = "extend" => doing.name = "appendFile"
  <2>1. doing.path \notin DataPaths
    BY LogPaths DEF Logs
  <2> QED
    BY <1>1, <2>1, FileCalls DEF Writers, TodoInv, DoingOK
<1>3. CanOpen(LOG_FILE) /\ LOG_FILE \in Logs /\ LOG_ARCHIVE_FILE \in Logs /\ LOG_FILE # LOG_ARCHIVE_FILE
      /\ torn' = torn /\ lastLog' = lastLog
  BY <1>1, LogsAre, CallMade
<1>4. todo' = Tail(todo) /\ Len(todo') = 1
  <2>1. todo' = Tail(todo)
    BY <1>2, <1>3 DEF MakeCall, Opens
  <2> QED
    BY <1>1, <1>2, <2>1, NextCall
<1>5. Head(todo').name = "close"
  <2>1. TodoInv' /\ todo' # << >> /\ doing' = doing
    <3>1. TodoInv' /\ doing' = doing
      BY CallMade DEF FilesInv
    <3>2. Len(todo') # Len(<< >>)
      BY <1>4
    <3>3. todo' # << >>
      BY <3>2
    <3> QED
      BY <3>1, <3>3
  <2>2. IsDue(doing, 1, Head(todo'))
    BY <1>4, <2>1, FirstIsDue
  <2> QED
    BY <1>2, <2>2 DEF IsDue, Call
<1>6. doing.name = "init" => ~IsFile(LOG_FILE)
  BY <1>2 DEF LogInv
<1>7. CASE IsFile(LOG_FILE)
  <2>1. files' = files
    BY <1>2, <1>6, <1>7, CallMade
  <2>2. SameLogs
    BY <2>1, SameFiles
  <2>3. Same(LOG_FILE) /\ Same(LOG_ARCHIVE_FILE)
    BY <1>3, <2>2 DEF SameLogs
  <2> QED
    BY <1>2, <1>3, <1>4, <1>5, <1>6, <1>7, <2>3 DEF OpensLog
<1>8. CASE ~IsFile(LOG_FILE)
  <2>1. files' = With(LOG_FILE, << >>)
    BY <1>2, <1>3, <1>8, CallMade
  <2>2. Same(LOG_ARCHIVE_FILE)
    BY <1>3, <2>1, SameElsewhere
  <2>3. IsFile(LOG_FILE)' /\ files'[LOG_FILE] = << >>
    BY <2>1, ContentsAreSeqs DEF With, IsFile
  <2> QED
    BY <1>2, <1>3, <1>4, <1>5, <1>6, <1>8, <2>2, <2>3 DEF OpensLog
<1> QED
  BY <1>7, <1>8

LEMMA CloseOnLogs ==
  ASSUME FilesInv, FilesInv', MakeCall, Head(todo).name = "close", doing.path = LOG_FILE
  PROVE  ClosesLog
<1>1. FilesOK /\ FilesOK' /\ TodoInv /\ OpenInv /\ todo # << >>
  BY CallMade DEF FilesInv
<1>2. Len(todo) = 1 /\ Head(todo).path = LOG_FILE
  BY <1>1, FileCalls
<1>3. todo' = Tail(todo) /\ Len(todo') = 0 /\ todo' \in Seq(Calls)
  BY <1>1, <1>2, CallMade, NextCall
<1>4. files' = With(LOG_FILE, files[LOG_FILE] \o Text) /\ IsFile(LOG_FILE)
  BY <1>1, <1>2, CallMade DEF OpenInv
<1>5. LOG_FILE \in Logs /\ LOG_ARCHIVE_FILE \in Logs /\ LOG_FILE # LOG_ARCHIVE_FILE
  BY <1>1, LogsAre
<1>6. LOG_FILE \in DOMAIN files' /\ files'[LOG_FILE] = files[LOG_FILE] \o Text
  BY <1>4 DEF With
<1>7. IsFile(LOG_FILE)' /\ Same(LOG_ARCHIVE_FILE)
  BY <1>1, <1>4, <1>5, <1>6, SameElsewhere DEF FilesOK
<1>8. lastLog' = files'[LOG_FILE]
  BY <1>2 DEF MakeCall
<1> QED
  BY <1>2, <1>3, <1>4, <1>6, <1>7, <1>8, EmptySeq DEF ClosesLog

(* Every other call is about another path. *)
LEMMA OtherOnLogs ==
  ASSUME FilesInv, MakeCall, Head(todo).name \notin {"rename", "read", "ignored", "fatal"},
         ~(Head(todo).name \in {"truncate", "extend", "close"} /\ doing.path = LOG_FILE)
  PROVE  LeavesLogs
<1> DEFINE c == Head(todo)
<1>1. FilesOK /\ TodoInv /\ todo # << >>
  BY CallMade DEF FilesInv
<1>2. c.path \notin Logs
  <2>1. CASE c.name \in {"mkdir", "rmdir", "remove"}
    BY <1>1, <2>1, FolderCallPaths
  <2>2. CASE c.name \in {"truncate", "extend", "close"}
    <3>1. c.path = doing.path /\ doing.name \in Writers \cup {"appendFile"} /\ doing.path # LOG_FILE
      BY <1>1, <2>2, FileCalls
    <3>2. doing.path \in DataPaths
      BY <1>1, <3>1 DEF TodoInv, DoingOK, Writers
    <3> QED
      BY <3>1, <3>2, LogPaths
  <2> QED
    BY <1>1, <2>1, <2>2, NextCall DEF Calls, CallNames
<1>3. SameLogs
  <2>1. \/ files' = files \/ (\E t : files' = With(c.path, t)) \/ files' = Without(c.path)
    <3>1. c.name \in CallNames
      BY <1>1, NextCall DEF Calls
    <3> QED
      BY <3>1, CallMade DEF CallNames, Mkdir, Rmdir, Remove
  <2> QED
    BY <1>2, <2>1, SameFiles, SameElsewhere DEF SameLogs
<1>4. doing.name # "init"
  <2>1. doing.name = "init" => doing.path = LOG_FILE /\ doing.path \notin DataPaths
    BY <1>1, LogPaths DEF TodoInv, DoingOK, Logs
  <2>2. c.name \in {"mkdir", "rmdir", "remove"} => doing.path \in DataPaths
    BY <1>1, FolderCalls
  <2> QED
    BY <1>1, <2>1, <2>2, NextCall DEF Calls, CallNames
<1>5. lastLog' = lastLog /\ (LOG_FILE \in torn' <=> LOG_FILE \in torn)
  <2>1. c.path # LOG_FILE
    BY <1>2, <1>1, LogsAre
  <2> QED
    BY <2>1 DEF MakeCall
<1> QED
  BY <1>3, <1>4, <1>5 DEF LeavesLogs

LEMMA CallsOnLogs ==
  ASSUME FilesInv, FilesInv', LogInv, MakeCall, ~Fatal(Head(todo)), Head(todo).name \notin {"read", "ignored"}
  PROVE  \/ MovesLog
         \/ /\ OpensLog /\ doing.name \in {"init", "appendFile"}
            /\ doing.name = "init" => ~IsFile(LOG_FILE)
         \/ ClosesLog
         \/ LeavesLogs
  BY RenameOnLogs, OpenOnLogs, CloseOnLogs, OtherOnLogs DEF Fatal

-----------------------------------------------------------------------------
(* Where the last log is. *)
LEMMA LogInvOfCall ==
  ASSUME FilesInv, FilesInv', LogInv, Step, MakeCall, Head(todo).name \notin {"read", "ignored"}
  PROVE  LogInv'
<1>1. /\ FilesOK /\ TodoInv /\ OpenInv /\ todo # << >> /\ doing' = doing /\ boots \in 1..MaxBoots
      /\ Len(todo) \in Nat /\ ~Fatal(Head(todo))
  BY CallMade, NextCall DEF FilesInv, TypeOK, Step
<1>2. /\ LOG_FILE \in Logs /\ LOG_ARCHIVE_FILE \in Logs /\ LOG_FILE # LOG_ARCHIVE_FILE
      /\ Logs = {LOG_FILE, LOG_ARCHIVE_FILE}
  BY <1>1, LogsAre DEF Logs
<1>3. CASE MovesLog
  <2>1. ~IsFile(LOG_FILE)'
    BY <1>2, <1>3 DEF MovesLog, SameLogs, Same
  <2>2. LastLogKept'
    <3>1. CASE IsFile(LOG_FILE)
      <4>1. /\ IsFile(LOG_ARCHIVE_FILE)' /\ files'[LOG_ARCHIVE_FILE] = files[LOG_FILE]
            /\ torn' = torn /\ lastLog' = lastLog
        BY <1>3, <3>1 DEF MovesLog
      <4>2. CASE files[LOG_FILE] # << >>
        BY <1>2, <3>1, <4>1, <4>2 DEF LogInv, LastLogKept, IsFile
      <4>3. CASE files[LOG_FILE] = << >>
        <5>1. Head(todo).name # "close"
          BY <1>1, <1>3, FileCalls DEF MovesLog
        <5>2. LOG_FILE \in torn
          BY <3>1, <4>3, <5>1 DEF LogInv
        <5> QED
          BY <4>1, <4>3, <5>2 DEF LastLogKept, IsFile
      <4> QED
        BY <4>2, <4>3
    <3>2. CASE ~IsFile(LOG_FILE)
      <4>1. SameLogs /\ torn' = torn /\ lastLog' = lastLog
        BY <1>3, <3>2 DEF MovesLog
      <4> QED
        BY <1>1, <1>2, <4>1, LogsAre DEF LogInv, LastLogKept, SameLogs, Same, IsFile
    <3> QED
      BY <3>1, <3>2
  <2> QED
    BY <2>1, <2>2 DEF LogInv
<1>4. CASE OpensLog
  <2>1. /\ doing'.path = LOG_FILE /\ Len(todo') = 1 /\ todo' # << >> /\ Head(todo').name = "close"
        /\ torn' = torn /\ lastLog' = lastLog
    BY <1>1, <1>4, EmptySeq DEF OpensLog
  <2>2. IsFile(LOG_FILE)' /\ files'[LOG_FILE] # << >> => files'[LOG_FILE] = lastLog'
    BY <1>4 DEF OpensLog, LogInv, Same
  <2>3. LastLogKept'
    <3>1. \A l \in Logs : IsFile(l) => IsFile(l)' /\ files'[l] = files[l]
      BY <1>2, <1>4 DEF OpensLog, Same
    <3> QED
      BY <1>1, <1>2, <2>1, <3>1, LogsAre DEF LogInv, LastLogKept, IsFile
  <2> QED
    BY <2>1, <2>2, <2>3 DEF LogInv
<1>5. CASE ClosesLog
  <2>1. IsFile(LOG_FILE)' /\ files'[LOG_FILE] = lastLog' /\ todo' = << >> /\ doing'.path = LOG_FILE
    BY <1>1, <1>5 DEF ClosesLog
  <2>2. files[LOG_FILE] \in Contents /\ Len(files[LOG_FILE]) < MaxLength
    <3>1. Head(todo).name = "close"
      BY <1>5 DEF ClosesLog
    <3> QED
      BY <1>1, <1>2, <1>5, <3>1, LogsAre DEF ClosesLog, OpenInv
  <2>3. files'[LOG_FILE] # << >>
    BY <1>1, <1>5, <2>2, ContentsGrow DEF ClosesLog
  <2>4. Len(todo') = 0
    BY <2>1, EmptySeq
  <2>5. LastLogKept'
    BY <1>2, <2>1 DEF LastLogKept, IsFile
  <2> QED
    BY <2>1, <2>3, <2>4, <2>5 DEF LogInv
<1>6. CASE LeavesLogs
  <2>1. /\ IsFile(LOG_FILE)' /\ files'[LOG_FILE] = << >> => LOG_FILE \in torn'
    <3>1. ~(todo # << >> /\ Head(todo).name = "close" /\ doing.path = LOG_FILE)
      BY <1>6 DEF LeavesLogs
    <3> QED
      BY <1>2, <1>6, <3>1 DEF LeavesLogs, LogInv, SameLogs, Same
  <2>2. IsFile(LOG_FILE)' /\ files'[LOG_FILE] # << >> => files'[LOG_FILE] = lastLog'
    BY <1>2, <1>6 DEF LeavesLogs, LogInv, SameLogs, Same
  <2>3. LastLogKept'
    BY <1>1, <1>2, <1>6, LogsAre DEF LeavesLogs, LogInv, LastLogKept, SameLogs, Same, IsFile
  <2> QED
    BY <1>1, <1>6, <2>1, <2>2, <2>3 DEF LogInv, LeavesLogs
<1> QED
  BY <1>1, <1>3, <1>4, <1>5, <1>6, CallsOnLogs

(* A step that touches no file. *)
LEMMA LogInvOfOther ==
  ASSUME LogInv, files' = files, lastLog' = lastLog, torn' = torn,
         ~(todo # << >> /\ Head(todo).name = "close"),
         ~(doing'.name = "init" /\ Len(todo') = 2)
  PROVE  LogInv'
  BY DEF LogInv, LastLogKept, IsFile

LEMMA LogInvOfRestart ==
  ASSUME FilesInv, LogInv, Restart
  PROVE  LogInv'
<1>1. files' = files /\ lastLog' = lastLog /\ doing'.name = "none" /\ torn \subseteq torn'
  BY DEF Restart
<1>2. IsFile(LOG_FILE)' /\ files'[LOG_FILE] = << >> => LOG_FILE \in torn'
  <2> SUFFICES ASSUME IsFile(LOG_FILE), files[LOG_FILE] = << >>, LOG_FILE \notin torn
               PROVE  LOG_FILE \in torn'
    BY <1>1 DEF IsFile
  <2>1. todo # << >> /\ Head(todo).name = "close" /\ doing.path = LOG_FILE
    BY DEF LogInv
  <2>2. Head(todo).path = LOG_FILE
    BY <2>1, FileCalls DEF FilesInv
  <2> QED
    BY <2>1, <2>2 DEF Restart
<1>3. LastLogKept'
  BY <1>1 DEF LogInv, LastLogKept
<1> QED
  BY <1>1, <1>2, <1>3 DEF LogInv, IsFile

LEMMA LogInvOfFailure ==
  ASSUME FilesInv, LogInv, PrintFails
  PROVE  LogInv'
<1>1. /\ files' = files /\ lastLog' = lastLog /\ Len(todo') = 0 /\ torn \subseteq torn'
      /\ torn' = IF files[doing.path] = << >> THEN torn \cup {doing.path} ELSE torn
  BY PrintFailed
<1>2. IsFile(LOG_FILE)' /\ files'[LOG_FILE] = << >> => LOG_FILE \in torn'
  BY <1>1 DEF LogInv, IsFile
<1>3. LastLogKept'
  BY <1>1 DEF LogInv, LastLogKept
<1> QED
  BY <1>1, <1>2, <1>3 DEF LogInv, IsFile

(* What the steps other than the calls of Storage and the restart have in    *)
(* common: a function starts, or a file is read.                             *)
LEMMA QuietSteps ==
  ASSUME FilesInv, FilesInv',
         \/ Step /\ Head(todo).name \in {"read", "ignored"}
         \/ Other \/ ReadPastLog \/ (\E b \in Batches : ExtractMsg(b)) \/ UNCHANGED fsVars
  PROVE  \/ UNCHANGED fsVars
         \/ /\ files' = files /\ lastLog' = lastLog /\ torn' = torn /\ boots' = boots /\ inits' = inits
            /\ ~(todo # << >> /\ Head(todo).name = "close")
            /\ doing'.name = "init" => Len(todo') = 3
<1>1. CASE Step /\ Head(todo).name \in {"read", "ignored"}
  <2>1. /\ files' = files /\ lastLog' = lastLog /\ torn' = torn /\ boots' = boots /\ doing' = doing
        /\ todo # << >>
    BY <1>1 DEF Step
  <2>2. doing.name \in {"readPastLog", "extractMsg"}
    BY <1>1, <2>1, FolderCalls DEF FilesInv
  <2>3. inits' = inits
    BY <1>1, <2>2 DEF Step
  <2> QED
    BY <1>1, <2>1, <2>2, <2>3
<1>2. ASSUME NEW name, NEW p, NEW calls, Run(name, p, calls), NoAnswers,
             name = "init" => Len(todo') = 3
      PROVE  /\ files' = files /\ lastLog' = lastLog /\ torn' = torn /\ boots' = boots /\ inits' = inits
             /\ ~(todo # << >> /\ Head(todo).name = "close")
             /\ doing'.name = "init" => Len(todo') = 3
  BY <1>2 DEF Run, NoAnswers
<1>3. CASE InitLog /\ NoAnswers
  BY <1>2, <1>3, LengthOfWrites DEF InitLog
<1>4. CASE FsUtils /\ NoAnswers
  <2>1. PICK name \in Functions \ {"init"} : \E p, calls : Run(name, p, calls)
    BY <1>4 DEF FsUtils, CreateDir, RemoveDir, WriteFile, DeleteFile, WriteFile2, DeleteFile2,
                AppendFile, Functions
  <2> QED
    BY <1>2, <1>4, <2>1
<1>5. CASE ReadPastLog \/ \E b \in Batches : ExtractMsg(b)
  <2>1. NoAnswers /\ \E name \in {"readPastLog", "extractMsg"} : \E p, calls : Run(name, p, calls)
    BY <1>5 DEF ReadPastLog, ExtractMsg
  <2> QED
    BY <1>2, <2>1
<1> QED
  BY <1>1, <1>3, <1>4, <1>5 DEF Other

LEMMA LogInvInit == FsInit => LogInv
  BY DEF FsInit, Init, LogInv, LastLogKept, IsFile

LEMMA FsSteps ==
  ASSUME [FsNext]_fsVars
  PROVE  \/ Step /\ MakeCall /\ Head(todo).name \notin {"read", "ignored"}
         \/ Step /\ PrintFails
         \/ FsRestart
         \/ Step /\ Head(todo).name \in {"read", "ignored"}
         \/ Other \/ ReadPastLog \/ (\E b \in Batches : ExtractMsg(b)) \/ UNCHANGED fsVars
  BY DEF FsNext, Step

LEMMA LogInvStep == FilesInv /\ FilesInv' /\ LogInv /\ [FsNext]_fsVars => LogInv'
<1> SUFFICES ASSUME FilesInv, FilesInv', LogInv, [FsNext]_fsVars PROVE LogInv'
  OBVIOUS
<1>1. CASE UNCHANGED fsVars
  BY <1>1 DEF LogInv, LastLogKept, IsFile, fsVars, vars
<1>2. CASE /\ files' = files /\ lastLog' = lastLog /\ torn' = torn
           /\ ~(todo # << >> /\ Head(todo).name = "close")
           /\ doing'.name = "init" => Len(todo') = 3
  BY <1>2, LogInvOfOther
<1> QED
  BY <1>1, <1>2, FsSteps, QuietSteps, LogInvOfCall, LogInvOfFailure, LogInvOfRestart DEF FsRestart

-----------------------------------------------------------------------------
(* The past log and the log, in order. *)
LEMMA FirstOf ==
  ASSUME NEW S, NEW s \in Seq(S), s # << >>
  PROVE  s[1] \in S
<1>1. Len(s) \in Nat \ {0}
  BY EmptySeq
<1>2. 1 \in 1..Len(s)
  BY <1>1
<1> QED
  BY <1>2, ElementOfSeq

LEMMA FirstText ==
  ASSUME FilesInv, NEW l \in Logs, IsFile(l), files[l] # << >>
  PROVE  files[l][1] \in Nat
<1>1. files[l] \in Seq(1..MaxBoots)
  BY LogsAre, ContentsAreSeqs DEF FilesInv
<1>2. files[l][1] \in 1..MaxBoots
  BY <1>1, FirstOf
<1> QED
  BY <1>2

(* The same logs, in the same boot or a later one. *)
LEMMA OrderInvStays ==
  ASSUME FilesInv, OrderInv, SameLogs, boots' \in Nat, boots' >= boots
  PROVE  OrderInv'
<1>1. LOG_FILE \in Logs /\ LOG_ARCHIVE_FILE \in Logs /\ boots \in Nat
  BY LogsAre DEF FilesInv, TypeOK
<1>2. \A l \in Logs : (IsFile(l)' <=> IsFile(l)) /\ (IsFile(l) => files'[l] = files[l])
  BY DEF SameLogs, Same
<1>3. \A l \in Logs : IsFile(l) /\ files[l] # << >> => files[l][1] \in Nat
  BY FirstText
<1>4. IsFile(LOG_FILE)' /\ files'[LOG_FILE] # << >> => files'[LOG_FILE][1] <= boots'
  BY <1>1, <1>2, <1>3 DEF OrderInv
<1>5. IsFile(LOG_ARCHIVE_FILE)' /\ files'[LOG_ARCHIVE_FILE] # << >> => files'[LOG_ARCHIVE_FILE][1] <= boots'
  BY <1>1, <1>2, <1>3 DEF OrderInv
<1> QED
  BY <1>1, <1>2, <1>4, <1>5 DEF OrderInv

LEMMA OrderInvOfCall ==
  ASSUME FilesInv, FilesInv', LogInv, OrderInv, Step, MakeCall, Head(todo).name \notin {"read", "ignored"}
  PROVE  OrderInv'
<1>1. /\ FilesOK /\ OpenInv /\ todo # << >> /\ doing' = doing /\ boots \in 1..MaxBoots /\ boots' = boots
      /\ ~Fatal(Head(todo))
  BY CallMade DEF FilesInv, TypeOK, Step
<1>2. LOG_FILE \in Logs /\ LOG_ARCHIVE_FILE \in Logs
  BY <1>1, LogsAre
<1>3. CASE SameLogs
  BY <1>1, <1>3, OrderInvStays
<1>4. CASE MovesLog /\ IsFile(LOG_FILE)
  <2>1. ~IsFile(LOG_FILE)' /\ files'[LOG_ARCHIVE_FILE] = files[LOG_FILE]
    BY <1>4 DEF MovesLog
  <2> QED
    BY <1>1, <1>4, <2>1 DEF OrderInv
<1>5. CASE OpensLog /\ ~IsFile(LOG_FILE)
  <2>1. files'[LOG_FILE] = << >> /\ Same(LOG_ARCHIVE_FILE)
    BY <1>5 DEF OpensLog
  <2> QED
    BY <1>1, <2>1 DEF OrderInv, Same
<1>6. CASE OpensLog /\ IsFile(LOG_FILE)
  <2>1. SameLogs
    BY <1>6 DEF OpensLog, SameLogs, Logs
  <2> QED
    BY <1>3, <2>1
<1>7. CASE ClosesLog
  <2>1. /\ IsFile(LOG_FILE) /\ files'[LOG_FILE] = files[LOG_FILE] \o Text /\ Same(LOG_ARCHIVE_FILE)
        /\ files[LOG_FILE] \in Contents /\ Len(files[LOG_FILE]) < MaxLength
    BY <1>1, <1>2, <1>7, LogsAre DEF ClosesLog, OpenInv
  <2>2. /\ files[LOG_FILE] = << >> => files'[LOG_FILE][1] = boots
        /\ files[LOG_FILE] # << >> => files'[LOG_FILE][1] = files[LOG_FILE][1]
    BY <1>1, <2>1, ContentsGrow
  <2>3. files'[LOG_FILE][1] <= boots
    <3>1. IsFile(LOG_FILE) /\ boots \in Nat
      BY <1>1, <2>1
    <3>2. files[LOG_FILE] # << >> => files[LOG_FILE][1] <= boots
      BY <3>1 DEF OrderInv
    <3>3. CASE files[LOG_FILE] = << >>
      BY <2>2, <3>1, <3>3
    <3>4. CASE files[LOG_FILE] # << >>
      BY <2>2, <3>2, <3>4
    <3> QED
      BY <3>3, <3>4
  <2>4. IsFile(LOG_ARCHIVE_FILE) /\ files[LOG_ARCHIVE_FILE] # << >> =>
          files[LOG_ARCHIVE_FILE][1] <= files'[LOG_FILE][1]
    BY <2>1, <2>2 DEF OrderInv
  <2> QED
    BY <1>1, <2>1, <2>3, <2>4 DEF OrderInv, Same
<1> QED
  BY <1>1, <1>3, <1>4, <1>5, <1>6, <1>7, CallsOnLogs DEF MovesLog, LeavesLogs

LEMMA OrderInvStep == FilesInv /\ FilesInv' /\ LogInv /\ OrderInv /\ [FsNext]_fsVars => OrderInv'
<1> SUFFICES ASSUME FilesInv, FilesInv', LogInv, OrderInv, [FsNext]_fsVars PROVE OrderInv'
  OBVIOUS
<1>1. boots \in Nat /\ boots' \in Nat
  BY DEF FilesInv, TypeOK
<1>2. CASE files' = files /\ boots' >= boots
  BY <1>1, <1>2, SameFiles, OrderInvStays
<1>3. FsRestart => files' = files /\ boots' >= boots
  BY <1>1 DEF FsRestart, Restart
<1>4. UNCHANGED fsVars => files' = files /\ boots' >= boots
  BY <1>1 DEF fsVars, vars
<1>5. PrintFails => files' = files /\ boots' >= boots
  BY <1>1, PrintFailed
<1> QED
  BY <1>1, <1>2, <1>3, <1>4, <1>5, FsSteps, QuietSteps, OrderInvOfCall

-----------------------------------------------------------------------------
(* There is a past log. *)
LEMMA PastInvStays ==
  ASSUME PastInv, \A l \in Logs : IsFile(l) => IsFile(l)', inits' = inits,
         ~(doing'.name = "init" /\ Len(todo') \in {1, 2})
  PROVE  PastInv'
<1>1. LOG_FILE \in Logs /\ LOG_ARCHIVE_FILE \in Logs
  BY DEF Logs
<1> QED
  BY <1>1 DEF PastInv, PastLogReadable

LEMMA PastInvOfCall ==
  ASSUME FilesInv, FilesInv', LogInv, PastInv, Step, MakeCall, Head(todo).name \notin {"read", "ignored"}
  PROVE  PastInv'
<1>1. /\ FilesOK /\ todo # << >> /\ doing' = doing /\ ~Fatal(Head(todo)) /\ Len(todo) \in Nat
      /\ inits' = IF doing.name = "init" /\ todo' = << >> THEN inits + 1 ELSE inits
  BY CallMade, NextCall DEF FilesInv, Step
<1>2. LOG_FILE \in Logs /\ LOG_ARCHIVE_FILE \in Logs
  BY <1>1, LogsAre
<1>3. CASE LeavesLogs
  <2>1. doing'.name # "init" /\ inits' = inits /\ \A l \in Logs : IsFile(l) => IsFile(l)'
    BY <1>1, <1>3 DEF LeavesLogs, SameLogs, Same
  <2> QED
    BY <2>1, PastInvStays
<1>4. CASE MovesLog
  <2>1. inits' = inits
    <3>1. Len(todo') # Len(<< >>)
      BY <1>4 DEF MovesLog
    <3>2. todo' # << >>
      BY <3>1
    <3> QED
      BY <1>1, <3>2
  <2>2. IsFile(LOG_FILE) \/ IsFile(LOG_ARCHIVE_FILE) => IsFile(LOG_ARCHIVE_FILE)'
    BY <1>2, <1>4 DEF MovesLog, SameLogs, Same
  <2> QED
    BY <2>1, <2>2 DEF PastInv, PastLogReadable
<1>5. CASE OpensLog
  <2>1. inits' = inits
    <3>1. Len(todo') # Len(<< >>)
      BY <1>5 DEF OpensLog
    <3>2. todo' # << >>
      BY <3>1
    <3> QED
      BY <1>1, <3>2
  <2>2. IsFile(LOG_FILE)' /\ (IsFile(LOG_ARCHIVE_FILE) => IsFile(LOG_ARCHIVE_FILE)') /\ Len(todo) = 2
    BY <1>5 DEF OpensLog, Same
  <2> QED
    BY <1>1, <2>1, <2>2 DEF PastInv, PastLogReadable
<1>6. CASE ClosesLog
  <2>1. /\ IsFile(LOG_FILE)' /\ (IsFile(LOG_ARCHIVE_FILE) => IsFile(LOG_ARCHIVE_FILE)')
        /\ Len(todo) = 1 /\ todo' = << >>
    BY <1>6 DEF ClosesLog, Same
  <2>2. Len(todo') = 0
    BY <2>1
  <2>3. inits \in Nat /\ inits' \in Nat /\ (inits' = inits \/ (doing.name = "init" /\ inits' = inits + 1))
    BY <1>1 DEF PastInv
  <2>4. inits' >= 2 => IsFile(LOG_ARCHIVE_FILE)'
    <3>1. CASE inits' = inits
      BY <2>1, <3>1 DEF PastInv, PastLogReadable
    <3>2. CASE doing.name = "init" /\ inits' = inits + 1
      BY <2>1, <2>3, <3>2 DEF PastInv
    <3> QED
      BY <2>3, <3>1, <3>2
  <2> QED
    BY <2>1, <2>2, <2>3, <2>4 DEF PastInv, PastLogReadable
<1> QED
  BY <1>1, <1>3, <1>4, <1>5, <1>6, CallsOnLogs

(* An init whose print fails is completed all the same: the log is there.    *)
LEMMA PastInvOfFailure ==
  ASSUME FilesInv, PastInv, Step, PrintFails
  PROVE  PastInv'
<1>1. /\ files' = files /\ doing' = doing /\ todo' = << >> /\ Len(todo') = 0
      /\ Len(todo) = 1 /\ IsFile(doing.path)
      /\ inits' = IF doing.name = "init" /\ todo' = << >> THEN inits + 1 ELSE inits
  BY PrintFailed DEF Step
<1>2. CASE doing.name # "init"
  BY <1>1, <1>2, PastInvStays DEF IsFile
<1>3. CASE doing.name = "init"
  <2>1. IsFile(LOG_FILE) /\ inits' = inits + 1 /\ inits \in Nat
    BY <1>1, <1>3 DEF FilesInv, TodoInv, DoingOK, PastInv
  <2>2. inits >= 1 => IsFile(LOG_ARCHIVE_FILE)
    BY <1>1, <1>3 DEF PastInv
  <2> QED
    BY <1>1, <2>1, <2>2 DEF PastInv, PastLogReadable, IsFile
<1> QED
  BY <1>2, <1>3

LEMMA PastInvStep == FilesInv /\ FilesInv' /\ LogInv /\ PastInv /\ [FsNext]_fsVars => PastInv'
<1> SUFFICES ASSUME FilesInv, FilesInv', LogInv, PastInv, [FsNext]_fsVars PROVE PastInv'
  OBVIOUS
<1>1. CASE UNCHANGED fsVars
  BY <1>1 DEF fsVars, vars, PastInv, PastLogReadable, IsFile
<1>2. CASE files' = files /\ inits' = inits /\ (doing'.name = "init" => Len(todo') = 3)
  BY <1>2, PastInvStays DEF IsFile
<1>3. FsRestart => files' = files /\ inits' = inits /\ doing'.name = "none"
  BY DEF FsRestart, Restart, NoAnswers
<1> QED
  BY <1>1, <1>2, <1>3, FsSteps, QuietSteps, PastInvOfCall, PastInvOfFailure

-----------------------------------------------------------------------------
(* The answers. *)
LEMMA AnswersInvStep == FilesInv /\ FilesInv' /\ AnswersInv /\ [FsNext]_fsVars => AnswersInv'
<1> SUFFICES ASSUME FilesInv, FilesInv', AnswersInv, [FsNext]_fsVars PROVE AnswersInv'
  OBVIOUS
<1>1. CASE NoAnswers
  BY <1>1, EmptySeq DEF NoAnswers, AnswersInv
<1>2. CASE UNCHANGED fsVars
  BY <1>2 DEF fsVars, vars, AnswersInv, IsFile, DumpJsonFile
<1>3. CASE Step /\ MakeCall /\ Head(todo).name \notin {"read", "ignored"}
  <2>1. doing.name \notin {"readPastLog", "extractMsg"} /\ doing' = doing
    <3>1. Head(todo).name \in CallNames \ {"read", "ignored", "fatal"} /\ TodoInv /\ todo # << >>
      BY <1>3, NextCall DEF FilesInv, Step, Fatal, Calls
    <3> QED
      BY <1>3, <3>1, FileCalls, FolderCalls, CallMade DEF CallNames, Writers
  <2>2. asked' = asked /\ replies' = replies /\ asked = << >>
    BY <1>3, <2>1 DEF Step, AnswersInv
  <2>3. Len(asked) = 0
    BY <2>2
  <2> QED
    BY <2>1, <2>2, <2>3 DEF AnswersInv
<1>4. CASE Step /\ Head(todo).name = "ignored"
  BY <1>4 DEF Step, AnswersInv, IsFile, DumpJsonFile
<1>5. CASE Step /\ Head(todo).name = "read"
  <2> DEFINE p == Head(todo).path
  <2>1. /\ todo # << >> /\ ~Fatal(Head(todo)) /\ files' = files /\ doing' = doing
        /\ replies' = Append(replies, DumpJsonFile(p)) /\ asked' = Append(asked, p)
    BY <1>5 DEF Step, Send
  <2>2. p \in Paths /\ IsFile(p) /\ doing.name \in {"readPastLog", "extractMsg"}
    BY <1>5, <2>1, NextCall, FolderCalls DEF FilesInv, Calls, Fatal
  <2>3. DumpJsonFile(p) \in Seq(1..MaxBoots)
    <3>1. p \in DOMAIN files /\ files[p] \in Seq(1..MaxBoots)
      BY <2>2, ContentsAreSeqs DEF FilesInv, FilesOK, IsFile
    <3>2. CASE files[p] = << >>
      BY <3>2, EmptySeq DEF DumpJsonFile
    <3>3. CASE files[p] # << >>
      <4>1. Head(files[p]) \in 1..MaxBoots
        BY <3>1, <3>3, HeadTailProperties
      <4> QED
        BY <3>3, <4>1, Singleton DEF DumpJsonFile
    <3> QED
      BY <3>2, <3>3
  <2>4. /\ asked' \in Seq(Paths) /\ Len(asked') = Len(asked) + 1
        /\ asked'[Len(asked) + 1] = p /\ \A i \in 1..Len(asked) : asked'[i] = asked[i]
    BY <2>1, <2>2, AppendProperties DEF AnswersInv
  <2>5. /\ replies' \in Seq(Seq(1..MaxBoots)) /\ Len(replies') = Len(replies) + 1
        /\ replies'[Len(replies) + 1] = DumpJsonFile(p)
        /\ \A i \in 1..Len(replies) : replies'[i] = replies[i]
    BY <2>1, <2>3, AppendProperties DEF AnswersInv
  <2>6. Len(asked) \in Nat /\ Len(replies) = Len(asked)
    BY LenProperties DEF AnswersInv
  <2>7. ASSUME NEW i \in 1..Len(asked')
        PROVE  IsFile(asked'[i]) /\ replies'[i] = DumpJsonFile(asked'[i])
    <3>1. CASE i \in 1..Len(asked)
      <4>1. asked'[i] = asked[i] /\ replies'[i] = replies[i]
            /\ IsFile(asked[i]) /\ replies[i] = DumpJsonFile(asked[i])
        BY <2>4, <2>5, <2>6, <3>1 DEF AnswersInv
      <4> QED
        BY <4>1
    <3>2. CASE i = Len(asked) + 1
      <4>1. asked'[i] = p /\ replies'[i] = DumpJsonFile(p)
        BY <2>4, <2>5, <2>6, <3>2
      <4> QED
        BY <2>2, <4>1
    <3> QED
      BY <2>4, <2>6, <3>1, <3>2
  <2>8. doing'.name \in {"readPastLog", "extractMsg"}
    BY <2>1, <2>2
  <2>9. \A i \in 1..Len(asked') :
          /\ asked'[i] \in DOMAIN files' /\ files'[asked'[i]] # Folder
          /\ replies'[i] = IF files'[asked'[i]] = << >> THEN << >> ELSE <<Head(files'[asked'[i]])>>
    BY <2>1, <2>7 DEF IsFile, DumpJsonFile
  <2>10. Len(replies') = Len(asked')
    BY <2>4, <2>5, <2>6
  <2> QED
    BY <2>4, <2>5, <2>8, <2>9, <2>10 DEF AnswersInv, IsFile, DumpJsonFile
<1>6. CASE Step /\ PrintFails
  <2>1. /\ Head(todo).name = "close" /\ doing' = doing /\ files' = files
        /\ doing.name \notin {"readPastLog", "extractMsg"}
    BY <1>6, PrintFailed DEF Writers
  <2>2. asked' = asked /\ replies' = replies /\ asked = << >>
    BY <1>6, <2>1 DEF Step, AnswersInv
  <2> QED
    BY <2>1, <2>2 DEF AnswersInv
<1> QED
  BY <1>1, <1>2, <1>3, <1>4, <1>5, <1>6, FsSteps DEF FsRestart, Other, ReadPastLog, ExtractMsg

-----------------------------------------------------------------------------
(* Writing and deleting with the folders. *)
LEMMA FunctionStarts ==
  ASSUME FilesInv,
         \/ Step /\ Head(todo).name \in {"read", "ignored"}
         \/ Other \/ ReadPastLog \/ \E b \in Batches : ExtractMsg(b)
  PROVE  /\ files' = files /\ boots' = boots
         /\ doing'.name = "deleteFile2" => Len(todo') = Len(doing'.path)
         /\ doing'.name = "writeFile2" =>
              /\ doing'.path \in DataPaths
              /\ Len(todo') = IF doing'.path \in DOMAIN files THEN 2 ELSE Len(doing'.path) + 1
<1>1. CASE Step /\ Head(todo).name \in {"read", "ignored"}
  <2>1. files' = files /\ boots' = boots /\ doing' = doing /\ todo # << >>
    BY <1>1 DEF Step
  <2>2. doing.name \in {"readPastLog", "extractMsg"}
    BY <1>1, <2>1, FolderCalls DEF FilesInv
  <2> QED
    BY <2>1, <2>2
<1>2. ASSUME NEW name \in Functions \ {"deleteFile2", "writeFile2"}, NEW p, NEW calls, Run(name, p, calls)
      PROVE  files' = files /\ boots' = boots /\ doing'.name \notin {"deleteFile2", "writeFile2"}
  BY <1>2 DEF Run
<1>3. ASSUME NEW p \in DataPaths, DeleteFile2(p)
      PROVE  /\ files' = files /\ boots' = boots /\ doing'.name = "deleteFile2"
             /\ Len(todo') = Len(doing'.path)
  <2>1. Len(todo') = Len(p)
    BY <1>3, DeleteFile2Todo
  <2> QED
    BY <1>3, <2>1 DEF DeleteFile2, Run
<1>4. ASSUME NEW p \in DataPaths, WriteFile2(p)
      PROVE  /\ files' = files /\ boots' = boots /\ doing'.name = "writeFile2" /\ doing'.path = p
             /\ Len(todo') = IF p \in DOMAIN files THEN 2 ELSE Len(p) + 1
  <2>1. Len(todo') = IF p \in DOMAIN files THEN 2 ELSE Len(p) + 1
    BY <1>4, WriteFile2Todo
  <2> QED
    BY <1>4, <2>1 DEF WriteFile2, Run
<1>5. CASE Other
  <2>1. \/ \E name \in Functions \ {"deleteFile2", "writeFile2"} : \E p, calls : Run(name, p, calls)
        \/ \E p \in DataPaths : DeleteFile2(p) \/ WriteFile2(p)
    BY <1>5 DEF Other, InitLog, FsUtils, CreateDir, RemoveDir, WriteFile, DeleteFile, AppendFile, Functions
  <2> QED
    BY <1>2, <1>3, <1>4, <2>1
<1>6. CASE ReadPastLog \/ \E b \in Batches : ExtractMsg(b)
  <2>1. \E name \in Functions \ {"deleteFile2", "writeFile2"} : \E p, calls : Run(name, p, calls)
    BY <1>6 DEF ReadPastLog, ExtractMsg, Functions
  <2> QED
    BY <1>2, <2>1
<1> QED
  BY <1>1, <1>5, <1>6

LEMMA RemoveDrops ==
  ASSUME FilesInv, NEW p \in DataPaths, doing.path = p, doing.name = "deleteFile2",
         MakeCall, Head(todo).name = "remove"
  PROVE  DropInv'
<1>1. /\ TodoInv /\ todo # << >> /\ doing' = doing /\ files' = Remove(p) /\ todo' = Tail(todo)
      /\ Len(todo) = Len(p) /\ Len(p) \in Nat \ {0}
  BY CallMade, FolderCalls, DataPathsAreSeqs DEF FilesInv
<1>2. Len(todo') + 1 = Len(p) /\ Len(todo') \in Nat
  BY <1>1, NextCall
<1>3. ~IsFile(p)'
  BY <1>1 DEF Remove, Without, IsFile
<1>4. \A n \in (Len(todo') + 1)..(Len(p) - 1) : FALSE
  BY <1>1, <1>2
<1>5. doing'.path = p
  BY <1>1
<1> QED
  BY <1>3, <1>4, <1>5 DEF DropInv, IsFile

LEMMA RmdirDrops ==
  ASSUME FilesInv, DropInv, NEW p \in DataPaths, doing.path = p, doing.name = "deleteFile2",
         MakeCall, Head(todo).name = "rmdir"
  PROVE  DropInv'
<1>1. PICK k \in Nat : k = Len(todo)
  BY CallMade, NextCall DEF FilesInv
<1> DEFINE q == SubSeq(p, 1, k)
<1>2. /\ k \in 1..(Len(p) - 1) /\ todo # << >> /\ doing' = doing /\ files' = Rmdir(q)
      /\ todo' = Tail(todo) /\ Len(p) \in Nat \ {0}
  <2>1. Len(p) \in Nat \ {0} /\ todo # << >> /\ doing' = doing /\ todo' = Tail(todo)
        /\ files' = Rmdir(Head(todo).path)
    BY CallMade, DataPathsAreSeqs
  <2>2. Len(todo) \in 1..(Len(p) - 1) /\ Head(todo).path = SubSeq(p, 1, Len(todo))
    BY <2>1, FolderCalls DEF FilesInv
  <2> QED
    BY <1>1, <2>1, <2>2
<1>3. Len(todo') + 1 = k
  BY <1>1, <1>2, NextCall DEF FilesInv
<1>4. /\ ~IsFile(p)
      /\ \A n \in (k + 1)..(Len(p) - 1) : IsFolder(SubSeq(p, 1, n)) => Children(SubSeq(p, 1, n)) # {}
  BY <1>1, <1>2 DEF DropInv
<1>5. q # << >> /\ Len(q) = k
  BY <1>2, AbovePaths, PathsAreSeqs
<1> HIDE DEF q
<1>6. ~IsFile(p)'
  BY <1>2, <1>4 DEF Rmdir, Without, IsFile
<1>7. ASSUME NEW n \in k..(Len(p) - 1), IsFolder(SubSeq(p, 1, n))'
      PROVE  Children(SubSeq(p, 1, n))' # {}
  <2>1. SubSeq(p, 1, n) # << >> /\ n \in 1..(Len(p) - 1)
    <3>1. n \in 1..(Len(p) - 1)
      BY <1>2
    <3>2. SubSeq(p, 1, n) \in Paths
      BY <3>1, AbovePaths
    <3> QED
      BY <3>1, <3>2, PathsAreSeqs
  <2>2. CASE files' = files
    <3>1. IsFolder(SubSeq(p, 1, n))
      BY <1>7, <2>2 DEF IsFolder
    <3>2. Children(SubSeq(p, 1, n)) # {}
      <4>1. CASE n = k
        <5>1. SubSeq(p, 1, n) = q
          BY <4>1 DEF q
        <5>2. Children(q) = {} => q \notin DOMAIN files'
          BY <1>2, <3>1, <5>1 DEF Rmdir, Without
        <5> QED
          BY <2>1, <2>2, <3>1, <5>1, <5>2 DEF IsFolder
      <4>2. CASE n # k
        BY <1>2, <1>4, <3>1, <4>2
      <4> QED
        BY <4>1, <4>2
    <3> QED
      BY <2>2, <3>2 DEF Children
  <2>3. CASE files' # files
    <3>1. files' = Without(q)
      BY <1>2, <2>3 DEF Rmdir
    <3>2. DOMAIN files' = DOMAIN files \ {q} /\ \A r \in DOMAIN files' : files'[r] = files[r]
      BY <3>1 DEF Without
    <3>3. SubSeq(p, 1, n) \in DOMAIN files' /\ IsFolder(SubSeq(p, 1, n))
      BY <1>7, <2>1, <3>2 DEF IsFolder
    <3>4. n # k
      BY <3>2, <3>3 DEF q
    <3>5. Children(SubSeq(p, 1, n)) # {}
      BY <1>2, <1>4, <3>3, <3>4
    <3>6. PICK r \in DOMAIN files : Len(r) = Len(SubSeq(p, 1, n)) + 1 /\ Parent(r) = SubSeq(p, 1, n)
      BY <3>5 DEF Children
    <3>7. Len(SubSeq(p, 1, n)) = n
      BY <2>1, AbovePaths
    <3>8. r # q
      BY <1>2, <1>5, <3>6, <3>7
    <3> QED
      BY <3>2, <3>6, <3>8 DEF Children
  <2> QED
    BY <2>2, <2>3
<1>8. doing'.path = p
  BY <1>2
<1>9. \A n \in (Len(todo') + 1)..(Len(p) - 1) : IsFolder(SubSeq(p, 1, n))' => Children(SubSeq(p, 1, n))' # {}
  BY <1>3, <1>7
<1> QED
  BY <1>6, <1>8, <1>9 DEF DropInv, IsFolder, IsFile, Children

LEMMA DropInvStep == FilesInv /\ FilesInv' /\ DropInv /\ [FsNext]_fsVars => DropInv'
<1> SUFFICES ASSUME FilesInv, FilesInv', DropInv, [FsNext]_fsVars PROVE DropInv'
  OBVIOUS
<1>1. CASE doing'.name # "deleteFile2"
  BY <1>1 DEF DropInv
<1>2. CASE doing'.name = "deleteFile2" /\ Step /\ MakeCall /\ Head(todo).name \notin {"read", "ignored"}
  <2>1. TodoInv /\ todo # << >> /\ doing' = doing /\ doing.path \in DataPaths
    BY <1>2, CallMade DEF FilesInv, TodoInv, DoingOK
  <2>2. Head(todo).name \in {"remove", "rmdir"}
    <3>1. Head(todo).name \in CallNames \ {"read", "ignored"}
      BY <1>2, <2>1, NextCall DEF Calls
    <3> QED
      BY <1>2, <2>1, <3>1, FileCalls, FolderCalls DEF CallNames, Writers
  <2> QED
    BY <1>2, <2>1, <2>2, RemoveDrops, RmdirDrops
<1>3. CASE doing'.name = "deleteFile2" /\ Len(todo') = Len(doing'.path)
  <2>1. Len(todo') \in Nat
    BY LenProperties DEF FilesInv, TodoInv
  <2> QED
    BY <1>3, <2>1 DEF DropInv
<1>4. CASE UNCHANGED fsVars
  BY <1>4 DEF fsVars, vars, DropInv, IsFolder, IsFile, Children
<1>5. CASE FsRestart
  BY <1>1, <1>5 DEF FsRestart, Restart
<1>6. CASE PrintFails
  BY <1>1, <1>6, PrintFailed DEF Writers
<1> QED
  BY <1>1, <1>2, <1>3, <1>4, <1>5, <1>6, FsSteps, FunctionStarts

(* writeFile2: a folder is made below the ones before it. *)
LEMMA MkdirGoesDown ==
  ASSUME FilesInv, MakeInv, NEW p \in DataPaths, doing.path = p, doing.name = "writeFile2",
         MakeCall, Head(todo).name = "mkdir"
  PROVE  MakeInv'
<1>1. PICK m \in Nat : m = Len(p) + 2 - Len(todo) /\ m \in 1..(Len(p) - 1)
  <2>1. Len(todo) \in 3..(Len(p) + 1) /\ Len(p) \in Nat
    BY CallMade, FolderCalls, DataPathsAreSeqs DEF FilesInv
  <2>2. Len(p) + 2 - Len(todo) \in Nat /\ Len(p) + 2 - Len(todo) \in 1..(Len(p) - 1)
    BY <2>1
  <2> QED
    BY <2>2
<1> DEFINE q == SubSeq(p, 1, m)
<1>2. /\ todo # << >> /\ doing' = doing /\ files' = Mkdir(q) /\ todo' = Tail(todo) /\ FilesOK /\ TodoInv
  <2>1. todo # << >> /\ doing' = doing /\ todo' = Tail(todo) /\ FilesOK /\ TodoInv
        /\ files' = Mkdir(Head(todo).path)
    BY CallMade DEF FilesInv
  <2>2. Head(todo).path = q
    BY <1>1, <2>1, FolderCalls
  <2> QED
    BY <2>1, <2>2
<1>3. /\ Len(todo) \in Nat /\ Len(p) \in Nat /\ Len(todo') = Len(todo) - 1
      /\ Len(p) + 1 - Len(todo) = m - 1 /\ Len(p) + 1 - Len(todo') = m /\ Len(todo) >= 3
  BY <1>1, <1>2, NextCall, DataPathsAreSeqs
<1>4. todo' # << >>
  <2>1. Len(todo') # Len(<< >>)
    BY <1>3
  <2> QED
    BY <2>1
<1>5. q \in Above(p) /\ q \in Paths /\ q # << >> /\ Parent(q) = SubSeq(p, 1, m - 1)
  BY <1>1, AbovePaths, PathsAreSeqs
<1>6. m - 1 = 0 \/ m - 1 \in 1..(m - 1)
  BY <1>1
<1>7. SubSeq(p, 1, 0) = << >>
  BY SubSeqEmpty
<1> HIDE DEF q
<1>8. /\ \A r \in DOMAIN files : r \in DOMAIN files' /\ files'[r] = files[r]
      /\ q \notin DOMAIN files /\ IsFolder(Parent(q)) => q \in DOMAIN files' /\ files'[q] = Folder
  <2>1. CASE q \notin DOMAIN files /\ IsFolder(Parent(q))
    BY <1>2, <2>1 DEF Mkdir, With
  <2>2. CASE ~(q \notin DOMAIN files /\ IsFolder(Parent(q)))
    BY <1>2, <2>2 DEF Mkdir
  <2> QED
    BY <2>1, <2>2
<1>9. CASE p \in DOMAIN files
  <2>1. p \in DOMAIN files' /\ doing'.path = p
    BY <1>2, <1>8, <1>9
  <2> QED
    BY <1>4, <2>1 DEF MakeInv, WrittenWhole
<1>10. CASE Obstructed(p)
  <2>1. PICK r \in Above(p) : IsFile(r)
    BY <1>10 DEF Obstructed
  <2>2. doing'.path = p /\ r \in DOMAIN files' /\ files'[r] # Folder
    BY <1>2, <1>8, <2>1 DEF IsFile
  <2> QED
    BY <1>4, <2>1, <2>2 DEF MakeInv, WrittenWhole, Obstructed, IsFile
<1>11. CASE \A n \in 1..(m - 1) : IsFolder(SubSeq(p, 1, n))
  <2>1. IsFolder(Parent(q))
    BY <1>5, <1>6, <1>7, <1>11 DEF IsFolder
  <2>2. CASE IsFile(q)
    BY <1>5, <1>10, <2>2 DEF Obstructed
  <2>3. CASE ~IsFile(q)
    <3>1. q \in DOMAIN files' /\ files'[q] = Folder
      BY <1>8, <2>1, <2>3 DEF IsFile
    <3>2. ASSUME NEW n \in 1..m
          PROVE  SubSeq(p, 1, n) = << >> \/ (SubSeq(p, 1, n) \in DOMAIN files' /\ files'[SubSeq(p, 1, n)] = Folder)
      <4>1. CASE n = m
        BY <3>1, <4>1 DEF q
      <4>2. CASE n # m
        <5>1. n \in 1..(m - 1)
          BY <4>2
        <5> QED
          BY <1>8, <1>11, <5>1 DEF IsFolder
      <4> QED
        BY <4>1, <4>2
    <3>3. doing'.path = p /\ Len(p) + 1 - Len(todo') = m
      BY <1>2, <1>3
    <3> QED
      BY <1>4, <3>2, <3>3 DEF MakeInv, WrittenWhole, IsFolder
  <2> QED
    BY <2>2, <2>3
<1>12. \/ p \in DOMAIN files \/ Obstructed(p)
       \/ \A n \in 1..(m - 1) : IsFolder(SubSeq(p, 1, n))
  BY <1>3 DEF MakeInv
<1> QED
  BY <1>9, <1>10, <1>11, <1>12

LEMMA TruncateMakes ==
  ASSUME FilesInv, MakeInv, NEW p \in DataPaths, doing.path = p, doing.name = "writeFile2",
         MakeCall, Head(todo).name = "truncate"
  PROVE  MakeInv'
<1>1. /\ todo # << >> /\ doing' = doing /\ TodoInv /\ Len(todo) = 2 /\ Head(todo).path = p
      /\ Len(p) \in Nat \ {0} /\ p # << >>
  BY CallMade, FileCalls, DataPathsAreSeqs DEF FilesInv
<1>2. CASE CanOpen(p)
  <2>1. todo' = Tail(todo) /\ Len(todo') = 1
    <3>1. todo' = Tail(todo)
      BY <1>1, <1>2 DEF MakeCall, Opens
    <3> QED
      BY <1>1, <3>1, NextCall
  <2>2. Len(todo') = 1
    BY <2>1
  <2>3. Len(todo') # Len(<< >>)
    BY <2>2
  <2>4. todo' # << >>
    BY <2>3
  <2>5. ~(Len(todo') >= 2)
    BY <2>2
  <2> QED
    BY <2>4, <2>5 DEF MakeInv, WrittenWhole
<1>3. CASE ~CanOpen(p)
  <2>1. files' = files /\ todo' = << >>
    BY <1>1, <1>3, CallMade
  <2>2. IsFolder(p) \/ Obstructed(p)
    <3> SUFFICES ASSUME ~Obstructed(p), p \notin DOMAIN files PROVE FALSE
      BY <1>3 DEF CanOpen, IsFile, IsFolder
    <3>1. \A n \in 1..(Len(p) - 1) : IsFolder(SubSeq(p, 1, n))
      <4>1. Len(p) + 1 - Len(todo) = Len(p) - 1 /\ Len(todo) >= 2
        BY <1>1
      <4> QED
        BY <4>1 DEF MakeInv
    <3>2. IsFolder(Parent(p))
      <4>1. CASE Len(p) = 1
        <5>1. SubSeq(p, 1, 0) = << >>
          BY SubSeqEmpty
        <5> QED
          BY <4>1, <5>1 DEF Parent, IsFolder
      <4>2. CASE Len(p) # 1
        <5>1. PICK m \in Nat \ {0} : m = Len(p)
          BY <1>1
        <5>2. m - 1 \in 1..(m - 1)
          BY <4>2, <5>1
        <5>3. Len(p) - 1 \in 1..(Len(p) - 1)
          BY <5>1, <5>2
        <5> QED
          BY <3>1, <5>3 DEF Parent
      <4> QED
        BY <4>1, <4>2
    <3> QED
      BY <1>3, <3>2 DEF CanOpen
  <2>3. Len(todo') = 0 /\ doing'.path = p
    BY <1>1, <2>1
  <2>4. WrittenWhole'
    BY <2>1, <2>2, <2>3 DEF WrittenWhole, Obstructed, IsFolder, IsFile
  <2> QED
    BY <2>3, <2>4 DEF MakeInv
<1> QED
  BY <1>2, <1>3

LEMMA CloseMakes ==
  ASSUME FilesInv, FilesInv', NEW p \in DataPaths, doing.path = p, doing.name = "writeFile2",
         MakeCall, Head(todo).name = "close"
  PROVE  MakeInv'
<1>1. /\ todo # << >> /\ doing' = doing /\ boots' = boots /\ TodoInv /\ OpenInv
      /\ Len(todo) = 1 /\ Head(todo).path = p /\ files' = With(p, files[p] \o Text)
  BY CallMade, FileCalls DEF FilesInv
<1>2. Len(todo') = 0
  BY <1>1, CallMade, NextCall
<1>3. IsFile(p) /\ files[p] = << >> /\ Len(files[p]) < MaxLength
  BY <1>1 DEF OpenInv, Writers
<1>4. files[p] \o Text = Text /\ Text \in Contents
  <2>1. << >> \in Contents /\ boots \in 1..MaxBoots /\ Len(<< >>) < MaxLength
    BY <1>3, ContentsAreSeqs DEF FilesInv, TypeOK
  <2>2. << >> \o Text = Text /\ << >> \o Text \in Contents
    BY <2>1, ContentsGrow
  <2> QED
    BY <1>3, <2>2
<1>5. p \in DOMAIN files' /\ files'[p] = Text /\ Text # Folder
  <2>1. files' = With(p, Text)
    BY <1>1, <1>4
  <2> QED
    BY <1>4, <2>1, ContentsAreSeqs DEF With
<1>6. Text' = Text /\ doing'.path = p /\ p \notin torn'
  BY <1>1 DEF Text, MakeCall
<1>7. WrittenWhole'
  BY <1>5, <1>6 DEF WrittenWhole, IsFile
<1> QED
  BY <1>2, <1>7 DEF MakeInv

(* writeFile2: a file whose print fails is empty, as it was opened.          *)
LEMMA FailureMakes ==
  ASSUME FilesInv, PrintFails, doing.name = "writeFile2"
  PROVE  MakeInv'
<1>1. /\ files' = files /\ doing' = doing /\ Len(todo') = 0
      /\ IsFile(doing.path) /\ files[doing.path] = << >> /\ doing.path \in torn'
  BY PrintFailed DEF Writers
<1>2. WrittenWhole'
  BY <1>1 DEF WrittenWhole, IsFile
<1> QED
  BY <1>1, <1>2 DEF MakeInv

LEMMA MakeInvStep == FilesInv /\ FilesInv' /\ MakeInv /\ [FsNext]_fsVars => MakeInv'
<1> SUFFICES ASSUME FilesInv, FilesInv', MakeInv, [FsNext]_fsVars PROVE MakeInv'
  OBVIOUS
<1>1. CASE doing'.name # "writeFile2"
  BY <1>1 DEF MakeInv, WrittenWhole
<1>2. CASE doing'.name = "writeFile2" /\ Step /\ MakeCall /\ Head(todo).name \notin {"read", "ignored"}
  <2>1. TodoInv /\ todo # << >> /\ doing' = doing /\ doing.path \in DataPaths
    BY <1>2, CallMade DEF FilesInv, TodoInv, DoingOK
  <2>2. Head(todo).name \in {"mkdir", "truncate", "close"}
    <3>1. Head(todo).name \in CallNames \ {"read", "ignored"}
      BY <1>2, <2>1, NextCall DEF Calls
    <3> QED
      BY <1>2, <2>1, <3>1, FileCalls, FolderCalls DEF CallNames
  <2> QED
    BY <1>2, <2>1, <2>2, MkdirGoesDown, TruncateMakes, CloseMakes
<1>3. CASE /\ doing'.name = "writeFile2" /\ files' = files /\ doing'.path \in DataPaths
           /\ Len(todo') = IF doing'.path \in DOMAIN files THEN 2 ELSE Len(doing'.path) + 1
  <2>1. PICK p \in DataPaths : p = doing'.path
    BY <1>3
  <2>2. Len(p) \in Nat \ {0}
    BY DataPathsAreSeqs
  <2>3. Len(todo') # Len(<< >>)
    BY <1>3, <2>1, <2>2
  <2>4. todo' # << >>
    BY <2>3
  <2>5. CASE p \in DOMAIN files
    BY <1>3, <2>1, <2>4, <2>5 DEF MakeInv, WrittenWhole
  <2>6. CASE p \notin DOMAIN files
    <3>1. Len(p) + 1 - Len(todo') = 0
      BY <1>3, <2>1, <2>2, <2>6
    <3>2. \A n \in 1..(Len(p) + 1 - Len(todo')) : FALSE
      BY <3>1
    <3> QED
      BY <2>1, <2>4, <3>2 DEF MakeInv, WrittenWhole
  <2> QED
    BY <2>5, <2>6
<1>4. CASE UNCHANGED fsVars
  BY <1>4 DEF fsVars, vars, MakeInv, WrittenWhole, Obstructed, IsFolder, IsFile, Text
<1>5. CASE FsRestart
  BY <1>1, <1>5 DEF FsRestart, Restart
<1>6. CASE PrintFails
  BY <1>1, <1>6, PrintFailed, FailureMakes
<1> QED
  BY <1>1, <1>2, <1>3, <1>4, <1>5, <1>6, FsSteps, FunctionStarts

-----------------------------------------------------------------------------
(* The theorems. *)
AllInv == FilesInv /\ LogInv /\ OrderInv /\ PastInv /\ DropInv /\ MakeInv /\ AnswersInv

LEMMA AllInvHolds == FsSpec => []AllInv
<1>1. FsInit => AllInv
  <2> SUFFICES ASSUME FsInit PROVE AllInv
    OBVIOUS
  <2>1. FilesInv /\ LogInv
    BY FilesInvInit, LogInvInit
  <2>2. DOMAIN files = {} /\ todo = << >> /\ doing.name = "none" /\ inits = 0
        /\ asked = << >> /\ replies = << >>
    BY DEF FsInit, Init
  <2>3. OrderInv /\ PastInv
    BY <2>2 DEF OrderInv, PastInv, PastLogReadable, IsFile
  <2>4. DropInv /\ MakeInv
    BY <2>2 DEF DropInv, MakeInv, WrittenWhole
  <2>5. AnswersInv
    BY <2>2, EmptySeq DEF AnswersInv
  <2> QED
    BY <2>1, <2>3, <2>4, <2>5 DEF AllInv
<1>2. AllInv /\ [FsNext]_fsVars => AllInv'
  BY FilesInvStep, LogInvStep, OrderInvStep, PastInvStep, DropInvStep, MakeInvStep, AnswersInvStep
     DEF AllInv
<1> QED
  BY <1>1, <1>2, PTL DEF FsSpec

(* The files are a tree under the root at any moment, whatever function was  *)
(* cut off: what exists lies in a folder, and a file holds whole texts.      *)
THEOREM TypeCorrect == FsSpec => []TypeOK
<1>1. AllInv => TypeOK
  BY DEF AllInv, FilesInv
<1> QED
  BY <1>1, AllInvHolds, PTL

(* LogConsumers.cpp:74-80: no sequence of boots, power cuts, failed prints   *)
(* and appends loses the last log that was written to its end, but for the   *)
(* one exception that LastLogKept names: the log was left empty, by a power  *)
(* cut or a failed print, and moved over the archive.                        *)
THEOREM LastLogIsKept == FsSpec => []LastLogKept
<1>1. AllInv => LastLogKept
  BY DEF AllInv, LogInv
<1> QED
  BY <1>1, AllInvHolds, PTL

(* LogConsumers.cpp:74-86: from the second completed init on, reading the    *)
(* past log never aborts the program.                                        *)
THEOREM PastLogIsReadable == FsSpec => []PastLogReadable
<1>1. AllInv => PastLogReadable
  BY DEF AllInv, PastInv
<1> QED
  BY <1>1, AllInvHolds, PTL

(* RemoteFsService.h:159-205: the past log that a batch reads never begins   *)
(* after the log that the same batch reads.                                  *)
THEOREM PastLogIsPast == FsSpec => []PastIsPast
<1>1. AllInv => PastIsPast
  <2> SUFFICES ASSUME AllInv, NEW i \in 1..Len(replies), NEW j \in 1..Len(replies),
                      asked[i] = LOG_ARCHIVE_FILE, replies[i] # << >>,
                      asked[j] = LOG_FILE, replies[j] # << >>
               PROVE  replies[i][1] <= replies[j][1]
    BY DEF PastIsPast
  <2>1. AnswersInv /\ OrderInv /\ FilesOK
    BY DEF AllInv, FilesInv
  <2>2. /\ IsFile(LOG_ARCHIVE_FILE) /\ replies[i] = DumpJsonFile(LOG_ARCHIVE_FILE)
        /\ IsFile(LOG_FILE) /\ replies[j] = DumpJsonFile(LOG_FILE)
    BY <2>1 DEF AnswersInv
  <2>3. ASSUME NEW l \in Logs, IsFile(l), DumpJsonFile(l) # << >>
        PROVE  files[l] # << >> /\ DumpJsonFile(l)[1] = files[l][1]
    <3>1. files[l] # << >> /\ DumpJsonFile(l) = <<Head(files[l])>>
      BY <2>3 DEF DumpJsonFile
    <3>2. files[l] \in Seq(1..MaxBoots)
      BY <2>1, <2>3, LogsAre, ContentsAreSeqs
    <3>3. Head(files[l]) = files[l][1]
      BY <3>2
    <3> QED
      BY <3>1, <3>3
  <2>4. LOG_FILE \in Logs /\ LOG_ARCHIVE_FILE \in Logs
    BY DEF Logs
  <2> QED
    BY <2>1, <2>2, <2>3, <2>4 DEF OrderInv
<1> QED
  BY <1>1, AllInvHolds, PTL

(* FsUtils.cpp:167-189: deleteFile2 leaves no empty folder above its file,   *)
(* whatever a power cut in an earlier writeFile2 or deleteFile2 had left.    *)
THEOREM NoFolderIsEmpty == FsSpec => []NoEmptyFolders
<1>1. AllInv => NoEmptyFolders
  <2> SUFFICES ASSUME AllInv, doing.name = "deleteFile2", todo = << >>
               PROVE  /\ ~IsFile(doing.path)
                      /\ \A q \in Above(doing.path) : IsFolder(q) => Children(q) # {}
    BY DEF NoEmptyFolders
  <2>1. doing.path \in DataPaths /\ DropInv
    BY DEF AllInv, FilesInv, TodoInv, DoingOK
  <2>2. Len(todo) = 0 /\ Len(doing.path) \in Nat \ {0}
    BY <2>1, DataPathsAreSeqs
  <2>3. /\ ~IsFile(doing.path)
        /\ \A n \in 1..(Len(doing.path) - 1) :
             IsFolder(SubSeq(doing.path, 1, n)) => Children(SubSeq(doing.path, 1, n)) # {}
    BY <2>1, <2>2 DEF DropInv
  <2> QED
    BY <2>1, <2>3, AboveIsSubSeq
<1> QED
  BY <1>1, AllInvHolds, PTL

(* FsUtils.cpp:135-165: whichever folders were missing, and unless something *)
(* stands in the way, writeFile2 leaves its file with the new text alone, or *)
(* empty if the print failed; a mixture or the old text it never leaves.     *)
THEOREM FileIsWrittenWhole == FsSpec => []WrittenWhole
<1>1. AllInv => WrittenWhole
  BY DEF AllInv, MakeInv
<1> QED
  BY <1>1, AllInvHolds, PTL
=============================================================================
