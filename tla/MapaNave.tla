------------------------------ MODULE MapaNave ------------------------------
(***************************************************************************)
(* The map of the ship that MiRAMHQ draws: the characters of nivel-gui and *)
(* where they are.  A map is a function from the characters on it to their *)
(* positions; the level has Columnas by Filas cells.                       *)
(***************************************************************************)
EXTENDS Integers, Functions

CONSTANTS Columnas, Filas
ASSUME AreaOK == Columnas \in Nat /\ Filas \in Nat

MapaVacio == <<>>

_validar_posicion(pos) == pos.x \in 0..(Columnas - 1) /\ pos.y \in 0..(Filas - 1)

personaje_crear(mapa, id, pos) ==
  IF _validar_posicion(pos) /\ id \notin DOMAIN mapa
    THEN [i \in DOMAIN mapa \cup {id} |-> IF i = id THEN pos ELSE mapa[i]]
    ELSE mapa

_cambiar_posicion(mapa, id, pos) ==
  IF _validar_posicion(pos) THEN [mapa EXCEPT ![id] = pos] ELSE mapa

item_desplazar(mapa, id, pos) ==      \* pos is an offset from where the item is
  IF id \in DOMAIN mapa
    THEN _cambiar_posicion(mapa, id, [x |-> mapa[id].x + pos.x, y |-> mapa[id].y + pos.y])
    ELSE mapa

item_borrar(mapa, id) == Restrict(mapa, DOMAIN mapa \ {id})
=============================================================================
