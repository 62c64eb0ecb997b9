----------------------------- MODULE MCDirListing -----------------------------
(* Instances of DirListing for TLC. *)
EXTENDS DirListing

\* How many of the MaxWrites writes and MaxRemote changes of the other client happen together.
CONSTANT MaxChanges

\* Past a race the properties of the listing claim nothing, and TLC does not go on.
Explored == races = {} /\ writes + remotes <= MaxChanges
===============================================================================
