---------------------------- MODULE MCPaginacion ----------------------------
(* Three patotas of one, two and one tripulantes and one, two and two pages, *)
(* for two frames and two slots: a task of the second crosses a page.        *)
EXTENDS Paginacion

Patota4 == [t \in {0, 1, 2, 3} |-> CASE t = 0 -> 1 [] t \in {1, 2} -> 2 [] t = 3 -> 3]
TareasPorPagina == (1 :> << <<1>> >>)
                @@ (2 :> << <<2, 2>>, <<3, 3, 3, 3, 3, 3, 3, 3, 3, 3>> >>)
                @@ (3 :> << <<4, 4, 4, 4, 4>>, <<5, 5, 5, 5, 5>> >>)
Origen == [t \in Trips |-> [x |-> 0, y |-> 0]]
Pos2 == {[x |-> 1, y |-> 0]}
Hash == [p \in Patotas |-> p + 8]      \* of "1", "2" and "3", modulo 20
=============================================================================
