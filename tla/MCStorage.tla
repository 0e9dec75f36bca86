----------------------------- MODULE MCStorage -----------------------------
(***************************************************************************)
(* Paths for TLC: a file two folders deep, one beside its folder, and the  *)
(* outer folder, which may also become a file; and batches that read the   *)
(* two logs, a file that comes and goes, and one that has operations       *)
(* without effect and a fatal one.                                         *)
(***************************************************************************)
EXTENDS RemoteFs

MCDataPaths == {<<"a">>, <<"a", "b", "c">>, <<"a", "d">>}

Op(o, p) == [op |-> o, file |-> p]

MCBatches ==
  {<<Op("read", LOG_ARCHIVE_FILE), Op("read", LOG_FILE)>>,
   <<Op("ignored", <<"a">>), Op("read", <<"a", "d">>), Op("fatal", <<"a">>)>>}
=============================================================================
