--------------------------- MODULE MCPlanificador ---------------------------
(* Small instances of Planificador: one patota or two, tasks of one or two  *)
(* cycles within a cell or two of each tripulante.                          *)
EXTENDS Planificador

P(x, y) == [x |-> x, y |-> y]
CPU(x, y, t) == [io |-> FALSE, x |-> x, y |-> y, t |-> t]
IO(x, y, t) == [io |-> TRUE, x |-> x, y |-> y, t |-> t]

Patota3 == [t \in {0, 1, 2} |-> IF t < 2 THEN 1 ELSE 2]
Patota2 == [t \in {0, 1} |-> 1]
TareasMixtas == (1 :> <<IO(1, 0, 1), CPU(0, 0, 2)>>) @@ (2 :> <<CPU(0, 0, 1), IO(0, 1, 2), CPU(0, 1, 1)>>)
TareasCortas == 1 :> <<IO(1, 0, 1), CPU(0, 0, 1)>>
TareasIO == 1 :> <<CPU(0, 0, 1), IO(1, 0, 1)>>
Posiciones == [t \in Trips |-> P(t \div 2, IF t = 0 THEN 0 ELSE 1)]
Sabotaje1 == {P(1, 0)}
=============================================================================
