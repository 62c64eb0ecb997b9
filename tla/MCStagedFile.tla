---------------------------- MODULE MCStagedFile ----------------------------
(* StagedFile on small instances; the bounds are in the .cfg files. *)
EXTENDS StagedFile
=============================================================================
