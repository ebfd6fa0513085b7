--------------------------- MODULE MCCostmap2DROS ---------------------------
(***************************************************************************)
(* A row of cells with the robot in the middle.  The map server's updates  *)
(* are about a wall on one side of it, and the sensor sees what is on the  *)
(* other side.  Beyond the wall, and beyond what the sensor sees, there is *)
(* one cell more, that only bounds widened by the radius reach.            *)
(***************************************************************************)
EXTENDS Costmap2DROS

OneWall == {[c \in Cells |-> IF c = 1 THEN Lethal ELSE Free]}
TheWall == {[x |-> 1, width |-> 1]}
=============================================================================
