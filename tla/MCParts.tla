------------------------------- MODULE MCParts -------------------------------
(***************************************************************************)
(* The state of the runs that check components side by side: the first state *)
(* picks the part, an instance of a component, and only that one moves.  y1 is *)
(* the first variable of its module, y2 the second, and so on; what its module *)
(* has no use for rests at 0.                                                *)
(***************************************************************************)
EXTENDS Naturals

VARIABLES part, y1, y2, y3, y4, y5, y6, y7, y8, y9, y10, y11, y12, y13, y14, y15

vars == <<part, y1, y2, y3, y4, y5, y6, y7, y8, y9, y10, y11, y12, y13, y14, y15>>

\* The variables after the k-th, and that they are at rest.
After4 == <<y5, y6, y7, y8, y9, y10, y11, y12, y13, y14, y15>>
After5 == <<y6, y7, y8, y9, y10, y11, y12, y13, y14, y15>>
After7 == <<y8, y9, y10, y11, y12, y13, y14, y15>>
After8 == <<y9, y10, y11, y12, y13, y14, y15>>
After9 == <<y10, y11, y12, y13, y14, y15>>
After10 == <<y11, y12, y13, y14, y15>>
After11 == <<y12, y13, y14, y15>>
After13 == <<y14, y15>>
After14 == <<y15>>

Rest14 == y15 = 0
Rest13 == y14 = 0 /\ Rest14
Rest11 == y12 = 0 /\ y13 = 0 /\ Rest13
Rest10 == y11 = 0 /\ Rest11
Rest9 == y10 = 0 /\ Rest10
Rest8 == y9 = 0 /\ Rest9
Rest7 == y8 = 0 /\ Rest8
Rest5 == y6 = 0 /\ y7 = 0 /\ Rest7
Rest4 == y5 = 0 /\ Rest5
=============================================================================
