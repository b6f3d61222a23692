------------------------------- MODULE Celdas -------------------------------
(***************************************************************************)
(* What MiRAMHQ keeps in its memory, one value per cell: the fields of the *)
(* PCB and of the TCBs, and the text of the tasks of a patota, joined by   *)
(* "|".  The schemes differ in where each part goes, not in these.         *)
(***************************************************************************)
EXTENDS Integers, Sequences, FiniteSets, SequencesExt

CONSTANTS
  Patotas, Trips, PatotaDe,
  Tareas         \* the tasks of each patota, each a sequence of letters (numbers)
ASSUME PatotasOK ==
  /\ Patotas \subseteq Nat /\ Trips \subseteq Nat /\ IsFiniteSet(Trips)
  /\ PatotaDe \in [Trips -> Patotas]
  /\ Tareas \in [Patotas -> Seq(Seq(Nat))]

Celda(campo, valor) == [campo |-> campo, valor |-> valor]
Basura == Celda("basura", 0)      \* what nobody wrote, or was freed
Barra  == Celda("barra", 0)

Letras(tarea) == [i \in DOMAIN tarea |-> Celda("letra", tarea[i])]
Texto == [p \in Patotas |->
  LET partes == [k \in DOMAIN Tareas[p] |-> Letras(Tareas[p][k])]
  IN  FoldLeft(LAMBDA a, b : IF a = <<>> THEN b ELSE a \o <<Barra>> \o b, <<>>, partes)]

(* Where each task starts in the text, and where one past the last would.   *)
Inicio == [p \in Patotas |-> [k \in 1..(Len(Tareas[p]) + 1) |->
  FoldLeft(LAMBDA n, tarea : n + Len(tarea) + 1, 0, SubSeq(Tareas[p], 1, k - 1))]]

Miembros(p) == {t \in Trips : PatotaDe[t] = p}
Inscriptos == [p \in Patotas |->      \* in the order of their tids
  [i \in 1..Cardinality(Miembros(p)) |->
     CHOOSE t \in Miembros(p) : Cardinality({u \in Miembros(p) : u < t}) = i - 1]]
=============================================================================
