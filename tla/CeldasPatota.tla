---------------------------- MODULE CeldasPatota ----------------------------
(***************************************************************************)
(* What both schemes of MiRAMHQ keep of a patota: its members in order and *)
(* its text.                                                               *)
(***************************************************************************)
EXTENDS Celdas, Plegados

(* Its members are as many as the sequence has, in the order of their tids. *)
LEMMA InscriptosOrden ==
  ASSUME NEW p \in Patotas
  PROVE  /\ Miembros(p) \subseteq Nat /\ Miembros(p) \subseteq Trips /\ IsFiniteSet(Miembros(p))
         /\ Cardinality(Miembros(p)) \in Nat
         /\ Len(Inscriptos[p]) = Cardinality(Miembros(p)) /\ Inscriptos[p] \in Seq(Miembros(p))
         /\ \A i \in 1..Cardinality(Miembros(p)) :
              /\ Inscriptos[p][i] \in Miembros(p)
              /\ Cardinality({u \in Miembros(p) : u < Inscriptos[p][i]}) = i - 1
<1> DEFINE n == Cardinality(Miembros(p))
           tcbs == Inscriptos[p]
<1>1. Miembros(p) \subseteq Nat /\ Miembros(p) \subseteq Trips /\ IsFiniteSet(Miembros(p)) /\ n \in Nat
  <2>1. Miembros(p) \in SUBSET Trips
    BY DEF Miembros
  <2> QED BY <2>1, PatotasOK, FS_Subset, FS_CardinalityType
<1>2. tcbs = [i \in 1..n |-> CHOOSE t \in Miembros(p) : Cardinality({u \in Miembros(p) : u < t}) = i - 1]
  BY DEF Inscriptos
<1>3. \A i \in 1..n : tcbs[i] \in Miembros(p) /\ Cardinality({u \in Miembros(p) : u < tcbs[i]}) = i - 1
  <2> SUFFICES ASSUME NEW i \in 1..n
               PROVE  tcbs[i] \in Miembros(p) /\ Cardinality({u \in Miembros(p) : u < tcbs[i]}) = i - 1
    OBVIOUS
  <2>1. \E t \in Miembros(p) : Cardinality({u \in Miembros(p) : u < t}) = i - 1
    BY <1>1, EnOrden
  <2>2. tcbs[i] = CHOOSE t \in Miembros(p) : Cardinality({u \in Miembros(p) : u < t}) = i - 1
    BY <1>2
  <2> QED BY <2>1, <2>2
<1>4. tcbs \in [1..n -> Miembros(p)]
  BY <1>2, <1>3
<1> HIDE DEF tcbs, n
<1>5. Len(tcbs) = n /\ tcbs \in Seq(Miembros(p))
  BY <1>1, <1>4
<1> QED BY <1>1, <1>3, <1>5 DEF n, tcbs

Letrero == {Celda("letra", n) : n \in Nat} \cup {Barra}
(* The text of a patota joins its tasks, letter by letter. *)
EnLetras(p) == [k \in DOMAIN Tareas[p] |-> Letras(Tareas[p][k])]
LEMMA TextoDeTareas ==
  ASSUME NEW p \in Patotas
  PROVE  /\ EnLetras(p) \in Seq(Seq(Letrero)) /\ Len(EnLetras(p)) = Len(Tareas[p]) /\ Len(Tareas[p]) \in Nat
         /\ Texto[p] = Unidas(EnLetras(p), Barra) /\ Barra \in Letrero
         /\ \A k \in 1..Len(Tareas[p]) :
              /\ EnLetras(p)[k] = Letras(Tareas[p][k]) /\ EnLetras(p)[k] \in Seq(Letrero)
              /\ Len(EnLetras(p)[k]) = Len(Tareas[p][k]) /\ Len(Tareas[p][k]) \in Nat
              /\ \A i \in 1..Len(Tareas[p][k]) : EnLetras(p)[k][i] = Celda("letra", Tareas[p][k][i])
<1> DEFINE ts == Tareas[p]
           partes == EnLetras(p)
<1>1. ts \in Seq(Seq(Nat)) /\ DOMAIN ts = 1..Len(ts) /\ Len(ts) \in Nat
  BY PatotasOK
<1>2. ASSUME NEW k \in DOMAIN ts
      PROVE  /\ Letras(ts[k]) \in Seq(Letrero) /\ Len(Letras(ts[k])) = Len(ts[k]) /\ Len(ts[k]) \in Nat
             /\ \A i \in 1..Len(ts[k]) : Letras(ts[k])[i] = Celda("letra", ts[k][i])
  <2>1. ts[k] \in Seq(Nat)
    BY <1>1
  <2>2. /\ DOMAIN ts[k] = 1..Len(ts[k]) /\ Len(ts[k]) \in Nat
        /\ \A i \in 1..Len(ts[k]) : ts[k][i] \in Nat
    BY <2>1
  <2>3. Letras(ts[k]) \in [1..Len(ts[k]) -> Letrero]
    BY <2>2 DEF Letras, Letrero
  <2>4. Letras(ts[k]) \in Seq(Letrero) /\ Len(Letras(ts[k])) = Len(ts[k])
    <3> HIDE DEF Letrero
    <3> QED BY <2>2, <2>3, FuncionEsSucesion
  <2>5. \A i \in 1..Len(ts[k]) : Letras(ts[k])[i] = Celda("letra", ts[k][i])
    BY <2>2 DEF Letras
  <2> QED BY <2>2, <2>4, <2>5
<1>3. partes = [k \in 1..Len(ts) |-> Letras(ts[k])]
  BY <1>1 DEF EnLetras
<1>4. partes \in Seq(Seq(Letrero)) /\ Len(partes) = Len(ts)
  <2>1. partes \in [1..Len(ts) -> Seq(Letrero)]
    BY <1>1, <1>2, <1>3
  <2> HIDE DEF partes, ts, Letrero
  <2> QED BY <1>1, <2>1, FuncionEsSucesion
<1>5. Barra \in Letrero
  BY DEF Letrero
<1>6. Texto[p] = Unidas(partes, Barra)
  BY DEF Texto, Unidas, EnLetras
<1>7. \A k \in 1..Len(ts) : k \in DOMAIN ts /\ partes[k] = Letras(ts[k])
  BY <1>1, <1>3
<1> HIDE DEF partes
<1> QED BY <1>1, <1>2, <1>4, <1>5, <1>6, <1>7 DEF partes

(* The text of the tasks has a length. *)
LEMMA TextoTipo ==
  ASSUME NEW p \in Patotas
  PROVE  Texto[p] \in Seq(Letrero)
BY TextoDeTareas, UnidasTipo
=============================================================================
