------------------------------- MODULE Storage -------------------------------
(***************************************************************************)
(* FsUtils and the log file of FsLogConsumer, call by call, with a power   *)
(* cut between any two calls of the file system, and with prints that      *)
(* fail.                                                                   *)
(*                                                                         *)
(* The file system is LittleFS: a call is done or not done, whatever       *)
(* happens; opening a file for writing empties it, and what is printed is  *)
(* there once it is closed.  A print that fails, as on a full flash,       *)
(* prints nothing; entries (mkdir, open, rename) always find room.  A path *)
(* is the sequence of its names.                                           *)
(***************************************************************************)
EXTENDS Naturals, Sequences

CONSTANTS
  DataPaths,   \* paths that callers of FsUtils use, besides the two logs
  Folder,      \* what is at a path that is a folder
  MaxBoots,    \* bound: how often the device starts
  MaxLength    \* bound: how many texts are in a file

LOG_FILE == <<"logs.json">>
LOG_ARCHIVE_FILE == <<"logs.archive.json">>

Logs == {LOG_FILE, LOG_ARCHIVE_FILE}

(* The folders above a path, the root left out; it is always there. *)
Above(p) == {SubSeq(p, 1, n) : n \in 1..(Len(p) - 1)}
Paths == Logs \cup DataPaths \cup UNION {Above(p) : p \in DataPaths}

(* A text is the number of the boot that wrote it; a file is what was        *)
(* printed to it.                                                            *)
Contents == UNION {[1..n -> 1..MaxBoots] : n \in 0..MaxLength}

ASSUME StorageAssumption ==
  /\ \A p \in DataPaths : p \in Seq(STRING) /\ p # << >>
  /\ \A p \in DataPaths : ({p} \cup Above(p)) \cap Logs = {}
  /\ Folder \notin Contents
  /\ MaxBoots \in Nat \ {0} /\ MaxLength \in Nat \ {0}

(* A call of the file system that is still to be made.  The calls of one     *)
(* function are a sequence; a call that is "vital" ends it by failing.       *)
Call(name, path, arg) == [name |-> name, path |-> path, arg |-> arg]

VARIABLES
  files,    \* flash: a function on the paths that exist
  todo,     \* the calls that the running function has still to make
  doing,    \* the function that runs or ran last, and its path
  boots,    \* history: how often the device started
  lastLog,  \* history: the last log file that was written to its end
  torn      \* history: the paths whose last writing was cut short, by a power
            \* cut or a print that failed, and left them empty

vars == <<files, todo, doing, boots, lastLog, torn>>

Functions == {"none", "init", "createDir", "removeDir", "writeFile", "appendFile",
              "deleteFile", "writeFile2", "deleteFile2", "readPastLog", "extractMsg"}

IsFolder(p) == p = << >> \/ (p \in DOMAIN files /\ files[p] = Folder)
Parent(p) == SubSeq(p, 1, Len(p) - 1)
Children(p) == {q \in DOMAIN files : Len(q) = Len(p) + 1 /\ Parent(q) = p}

TypeOK ==
  /\ DOMAIN files \subseteq Paths
  /\ \A p \in DOMAIN files : /\ files[p] = Folder \/ files[p] \in Contents
                             /\ IsFolder(Parent(p))
  /\ doing.name \in Functions /\ doing.path \in Paths
  /\ boots \in 1..MaxBoots
  /\ lastLog \in Contents
  /\ torn \subseteq Paths

Init ==
  /\ files = << >>
  /\ todo = << >>
  /\ doing = [name |-> "none", path |-> LOG_FILE]
  /\ boots = 1
  /\ lastLog = << >>
  /\ torn = {}

-----------------------------------------------------------------------------
(* The calls of LittleFS. *)
With(p, c) == [q \in DOMAIN files \cup {p} |-> IF q = p THEN c ELSE files[q]]
Without(p) == [q \in DOMAIN files \ {p} |-> files[q]]
IsFile(p) == p \in DOMAIN files /\ files[p] # Folder

Mkdir(p) == IF p \notin DOMAIN files /\ IsFolder(Parent(p)) THEN With(p, Folder) ELSE files
Rmdir(p) == IF IsFolder(p) /\ Children(p) = {} THEN Without(p) ELSE files
Remove(p) == IF IsFile(p) THEN Without(p) ELSE files
Rename(p, q) ==
  IF IsFile(p)
  THEN [r \in (DOMAIN files \ {p}) \cup {q} |-> IF r = q THEN files[p] ELSE files[r]]
  ELSE files

CanOpen(p) == IsFile(p) \/ (p \notin DOMAIN files /\ IsFolder(Parent(p)))

(* What the running function prints to the file it has opened. *)
Text == <<boots>>

(* What a call makes of the files. *)
After(c) ==
  CASE c.name = "mkdir"    -> Mkdir(c.path)
    [] c.name = "rmdir"    -> Rmdir(c.path)
    [] c.name = "remove"   -> Remove(c.path)
    [] c.name = "rename"   -> Rename(c.path, c.arg)
    [] c.name = "truncate" -> IF CanOpen(c.path) THEN With(c.path, << >>) ELSE files
    [] c.name = "extend"   -> IF CanOpen(c.path) /\ ~IsFile(c.path)
                              THEN With(c.path, << >>) ELSE files
    [] c.name = "close"    -> With(c.path, files[c.path] \o Text)

Opens(c) == c.name \in {"truncate", "extend"}

(* The next call of the function that runs; a file that cannot be opened     *)
(* ends it.                                                                  *)
MakeCall ==
  /\ todo # << >>
  /\ LET c == Head(todo) IN
       /\ files' = After(c)
       /\ todo' = IF Opens(c) /\ ~CanOpen(c.path) THEN << >> ELSE Tail(todo)
       /\ torn' = IF c.name = "close" THEN torn \ {c.path} ELSE torn
       /\ lastLog' = IF c.name = "close" /\ c.path = LOG_FILE
                     THEN files'[LOG_FILE] ELSE lastLog
  /\ UNCHANGED <<doing, boots>>

(* The print into the opened file fails: "write failed" or "append failed"   *)
(* is logged, and the file is closed as it is.                               *)
PrintFails ==
  /\ todo # << >> /\ Head(todo).name = "close"
  /\ todo' = Tail(todo)
  /\ torn' = IF files[Head(todo).path] = << >> THEN torn \cup {Head(todo).path} ELSE torn
  /\ UNCHANGED <<files, doing, boots, lastLog>>

-----------------------------------------------------------------------------
(* The functions: each is the sequence of its calls. *)
CallsWriteFile(p) == <<Call("truncate", p, p), Call("close", p, p)>>

(* Seeded fault: the text is printed twice. *)
CallsAppendFileTwice(p) ==
  <<Call("extend", p, p), Call("close", p, p), Call("close", p, p)>>

CallsAppendFile(p) == <<Call("extend", p, p), Call("close", p, p)>>

(* Seeded fault: the folders are made from the innermost outwards. *)
CallsMakeFoldersInsideOut(p) ==
  [n \in 1..(Len(p) - 1) |-> Call("mkdir", SubSeq(p, 1, Len(p) - n), p)]

(* The folders above a path, outermost first, and innermost first. *)
CallsMakeFolders(p) == [n \in 1..(Len(p) - 1) |-> Call("mkdir", SubSeq(p, 1, n), p)]
CallsDropFolders(p) == [n \in 1..(Len(p) - 1) |-> Call("rmdir", SubSeq(p, 1, Len(p) - n), p)]

Run(name, path, calls) ==
  /\ todo = << >>
  /\ doing' = [name |-> name, path |-> path]
  /\ todo' = calls
  /\ UNCHANGED <<files, boots, lastLog, torn>>

(* Seeded fault: the new log is written before the old one is moved. *)
InitLogWriteFirst ==
  Run("init", LOG_FILE,
      CallsWriteFile(LOG_FILE) \o <<Call("rename", LOG_FILE, LOG_ARCHIVE_FILE)>>)

(* Seeded fault: the old archive is removed first, as if rename did not.     *)
InitLogRemovesArchive ==
  /\ doing.name = "none"
  /\ Run("init", LOG_FILE,
         <<Call("remove", LOG_ARCHIVE_FILE, LOG_FILE), Call("rename", LOG_FILE, LOG_ARCHIVE_FILE)>>
         \o CallsWriteFile(LOG_FILE))

(* FsLogConsumer::init.  Nothing in the class says when it is called; the    *)
(* place meant for it is setup, before anything uses the file system         *)
(* (firmware-main.cpp:56-58), so it is the first function of a boot here.    *)
InitLog ==
  /\ doing.name = "none"
  /\ Run("init", LOG_FILE,
         <<Call("rename", LOG_FILE, LOG_ARCHIVE_FILE)>> \o CallsWriteFile(LOG_FILE))

CreateDir(p) == Run("createDir", p, <<Call("mkdir", p, p)>>)
RemoveDir(p) == Run("removeDir", p, <<Call("rmdir", p, p)>>)
WriteFile(p) == Run("writeFile", p, CallsWriteFile(p))

(* appendFile, which FsLogConsumer::writeLog calls for the log. *)
AppendFile(p) ==
  /\ IsFile(p) => Len(files[p]) < MaxLength
  /\ Run("appendFile", p, CallsAppendFile(p))

DeleteFile(p) == Run("deleteFile", p, <<Call("remove", p, p)>>)

WriteFile2(p) ==
  Run("writeFile2", p,
      (IF p \in DOMAIN files THEN << >> ELSE CallsMakeFolders(p)) \o CallsWriteFile(p))

(* Seeded fault: only the innermost folder is removed. *)
DeleteFile2Innermost(p) ==
  Run("deleteFile2", p, <<Call("remove", p, p), Call("rmdir", Parent(p), p)>>)

DeleteFile2(p) == Run("deleteFile2", p, <<Call("remove", p, p)>> \o CallsDropFolders(p))

FsUtils ==
  \/ \E p \in DataPaths :
       \/ CreateDir(p) \/ RemoveDir(p)
       \/ WriteFile(p) \/ DeleteFile(p) \/ WriteFile2(p) \/ DeleteFile2(p)
  \/ \E p \in DataPaths \cup {LOG_FILE} : AppendFile(p)

-----------------------------------------------------------------------------
(* A device that stops between two calls starts again: the power is cut, or  *)
(* the program was aborted.                                                  *)
Restart ==
  /\ boots < MaxBoots
  /\ boots' = boots + 1
  /\ todo' = << >>
  /\ doing' = [name |-> "none", path |-> LOG_FILE]
  /\ torn' = IF todo # << >> /\ Head(todo).name = "close" /\ files[Head(todo).path] = << >>
             THEN torn \cup {Head(todo).path} ELSE torn
  /\ UNCHANGED <<files, lastLog>>

Next == MakeCall \/ PrintFails \/ InitLog \/ FsUtils \/ Restart

Spec == Init /\ [][Next]_vars

-----------------------------------------------------------------------------
(* LogConsumers.cpp:74-80: through any sequence of boots, power cuts and     *)
(* failed prints, the last log that was written to its end is the log or the *)
(* archive.  The one exception: the log was left empty, by a power cut or by *)
(* a print that failed, and the next init has put it over the archive.       *)
LastLogKept ==
  \/ lastLog = << >>
  \/ /\ LOG_FILE \in torn
     /\ LOG_ARCHIVE_FILE \in DOMAIN files /\ files[LOG_ARCHIVE_FILE] = << >>
  \/ \E p \in Logs : p \in DOMAIN files /\ files[p] = lastLog

(* FsUtils.cpp:167-189: when deleteFile2 is through, its file is gone and no *)
(* empty folder is left above it, also those that a power cut within         *)
(* writeFile2 had left; folders that still hold something stay.              *)
NoEmptyFolders ==
  doing.name = "deleteFile2" /\ todo = << >> =>
    /\ ~IsFile(doing.path)
    /\ \A q \in Above(doing.path) : IsFolder(q) => Children(q) # {}

(* FsUtils.cpp:135-165: when writeFile2 is through, its file is there,       *)
(* whichever folders were missing; unless a file stands where a folder       *)
(* should, or a folder where the file should.  It holds the new text and     *)
(* nothing else, or, if the print failed, nothing at all: the old text is    *)
(* lost with the new one.                                                    *)
WrittenWhole ==
  doing.name = "writeFile2" /\ todo = << >> =>
    \/ IsFolder(doing.path)
    \/ \E q \in Above(doing.path) : IsFile(q)
    \/ /\ IsFile(doing.path)
       /\ files[doing.path] = IF doing.path \in torn THEN << >> ELSE Text
=============================================================================
