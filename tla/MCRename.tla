------------------------------- MODULE MCRename -------------------------------
(* Rename on small instances: directories a, b, c and the names f1, f2 in them, of which
   the .cfg files use some. *)
EXTENDS Rename
CONSTANTS a, b, c, f1, f2
AX == <<a, f1>>
AY == <<a, f2>>
BX == <<b, f1>>
CX == <<c, f1>>
None  == {}
All   == Paths
Here  == {AX}
Chain == {<<AX, BX>>, <<BX, CX>>}
Round == {<<AX, BX>>, <<BX, AY>>}
===============================================================================
