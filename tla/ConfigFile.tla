----------------------------- MODULE ConfigFile -----------------------------
(***************************************************************************)
(* A JSON file handler (FileHandlers.cpp) behind SystemConf: the file is   *)
(* read when its content is first asked for, and never again before the    *)
(* next start; updates are merged into the content that was read.  Nobody  *)
(* writes the content back: flush() makes a text of it and drops the text. *)
(*                                                                         *)
(* A text is what the parser makes of it, since load and merge go on with  *)
(* whatever that is: of a text that cannot be parsed, the part before the  *)
(* error, and null if there is none.                                       *)
(*                                                                         *)
(* mergeJson calls itself on a member that is there in both documents, so  *)
(* it always has the same path in both.  Its calls that have not returned  *)
(* are what is left: the members each of them has still to look at.        *)
(***************************************************************************)
EXTENDS JsonMerge

CONSTANTS
  Files,    \* the texts that are written to the file
  Updates   \* the texts that are merged

ASSUME ConfigAssumption == \A d \in Files \cup Updates : IsDocument(d)

VARIABLES
  file,           \* flash: the text of the file
  jsFileContent,  \* the handler's document, or NotLoaded before the first use
  src,            \* the update that is being merged, or NotLoaded
  left,           \* the paths in src of the members that are still to be merged
  merged          \* history: the file as it was read, overlaid with every
                  \* update that was merged since

configVars == <<file, jsFileContent, src, left, merged>>

NotLoaded == Leaf("not loaded")

ConfigInit ==
  /\ file \in Files
  /\ jsFileContent = NotLoaded /\ src = NotLoaded /\ left = {} /\ merged = NotLoaded

ConfigContent ==
  /\ jsFileContent = NotLoaded
  /\ jsFileContent' = file
  /\ merged' = file
  /\ UNCHANGED <<file, src, left>>

(* What is left of merging update; with nothing left, merge returns. *)
GoOn(update, rest) ==
  /\ left' = rest
  /\ IF rest = {} THEN src' = NotLoaded /\ merged' = Overlay(merged, update)
                  ELSE src' = update /\ UNCHANGED merged

(* JsonFileHandler::merge, into the first call of mergeJson. *)
Merge(update) ==
  /\ jsFileContent # NotLoaded /\ left = {}
  /\ IF update[<< >>] = Object
     THEN UNCHANGED jsFileContent /\ GoOn(update, Members(update, << >>))
     ELSE jsFileContent' = update /\ GoOn(update, {})
  /\ UNCHANGED file

(* The loop of mergeJson at member p; the innermost call comes first.  The   *)
(* else-branch of its own call, dst.set(src), replaces a value by a value.   *)
MergeMember(p) ==
  /\ \A q \in left : Len(q) <= Len(p)
  /\ IF Holds(jsFileContent, p) /\ src[p] = Object
     THEN UNCHANGED jsFileContent /\ GoOn(src, (left \ {p}) \cup Members(src, p))
     ELSE jsFileContent' = Assign(jsFileContent, p, src) /\ GoOn(src, left \ {p})
  /\ UNCHANGED file

Rewrite == file' \in Files \ {file} /\ UNCHANGED <<jsFileContent, src, left, merged>>

Restart ==
  /\ jsFileContent # NotLoaded
  /\ jsFileContent' = NotLoaded /\ src' = NotLoaded /\ left' = {} /\ merged' = NotLoaded
  /\ UNCHANGED file

ConfigNext ==
  \/ ConfigContent \/ Rewrite \/ Restart
  \/ \E update \in Updates : Merge(update)
  \/ \E p \in left : MergeMember(p)

ConfigSpec == ConfigInit /\ [][ConfigNext]_configVars

-----------------------------------------------------------------------------
(* FileHandlers.cpp:9-20: after any updates, complete or broken, the        *)
(* content is the file overlaid with them in their order: what an update     *)
(* does not name is as it was, what it names is replaced or added, and an    *)
(* object is dropped only where a text, a number or an array stands.         *)
MergesOverlay == left = {} => jsFileContent = merged
=============================================================================
