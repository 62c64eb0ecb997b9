----------------------------- MODULE MCFileFlush -----------------------------
(* Instances of FileFlush for TLC; the .cfg files give the constants. *)
EXTENDS FileFlush
=============================================================================
