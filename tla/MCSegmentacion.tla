--------------------------- MODULE MCSegmentacion ---------------------------
(* Three patotas of one tripulante each, of 10, 12 and 14 cells, in a memory *)
(* of 27: any two fit, the three never.                                     *)
EXTENDS Segmentacion

Patota3 == [t \in {0, 1, 2} |-> t + 1]
TareasCortas == (1 :> << <<1, 1>> >>) @@ (2 :> << <<2>>, <<3, 3>> >>) @@ (3 :> << <<4>>, <<5, 5, 6, 6>> >>)
Origen == [t \in Trips |-> [x |-> 0, y |-> 0]]
Pos2 == {[x |-> 1, y |-> 0]}
=============================================================================
