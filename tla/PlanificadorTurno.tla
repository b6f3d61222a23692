-------------------------- MODULE PlanificadorTurno --------------------------
(* The types, the places and the turn of Planificador, for any number of   *)
(* tripulantes and patotas, any tasks and either algorithm: TypeOK, with   *)
(* the lemmas on the queues; TareaCargada, which needs nothing but the     *)
(* types; UnSoloLugar; and UnSoloTurno and TurnoUnico.                     *)
(*                                                                         *)
(* A place is a queue or the hand of a stage, and a TCB has one, with one  *)
(* turn or several, and whatever the console takes out of a queue; that a  *)
(* tripulante not yet born is in none is what lets INICIAR_PATOTA push it  *)
(* to New.                                                                 *)
(*                                                                         *)
(* The turn: the semaphores of the stages and the barrier of _signal hand  *)
(* on one, and never lose it unless the console expels.  Both need that    *)
(* INICIAR_PLANIFICACION is not typed while the planning runs              *)
(* (MaxReinicios = 0): it posts a second turn.                             *)
(*                                                                         *)
(* The invariant has the turn in one place (Ficha) and, for the part of the *)
(* cycle in which the tripulantes have it, that those who have not          *)
(* signalled yet and those already counted are cantidadTCBEnExec (Cuenta).  *)
EXTENDS Planificador, SequenceTheorems, FiniteSetTheorems, WellFoundedInduction, TLAPS

-----------------------------------------------------------------------------
(* Lemmas on the operators of the queues *)

(* The least tid of a set of tids is one of them. *)
LEMMA MinTidPertenece ==
  ASSUME NEW S, S \subseteq Nat, S # {}
  PROVE  MinTid(S) \in S /\ \A u \in S : MinTid(S) <= u
<1> DEFINE menor == {ss \in Nat \X Nat : ss[1] < ss[2]}
<1>1. IsWellFoundedOn(menor, Nat)
  BY NatLessThanWellFounded DEF OpToRel
<1>2. PICK m \in S : \A u \in S : <<u, m>> \notin menor
  <2> HIDE DEF menor
  <2> QED BY <1>1, WFMin
<1>3. ASSUME NEW u \in S PROVE m <= u
  <2>1. <<u, m>> \in Nat \X Nat /\ <<u, m>>[1] = u /\ <<u, m>>[2] = m
    BY Zenon
  <2>2. ~(u < m)
    BY <1>2, <2>1
  <2> QED BY <2>2
<1> QED BY <1>3 DEF MinTid

(* The position of a member of a sequence is one where it is. *)
LEMMA IndiceEnRango ==
  ASSUME NEW S, NEW s \in Seq(S), NEW t, Contains(s, t)
  PROVE  Indice(s, t) \in 1..Len(s) /\ s[Indice(s, t)] = t
BY DEF Indice, Contains

(* What is contained in a queue is its set of elements. *)
LEMMA ContieneToSet ==
  ASSUME NEW S, NEW s \in Seq(S), NEW t
  PROVE  t \in ToSet(s) <=> Contains(s, t)
BY DEF ToSet, Contains

(* The head of a queue that is not empty is a tripulante it contains. *)
LEMMA ToSetTipo ==
  ASSUME NEW S, NEW s \in Seq(S)
  PROVE  ToSet(s) \subseteq S /\ (s # <<>> => ToSet(s) # {} /\ Head(s) \in S /\ Contains(s, Head(s)))
BY DEF ToSet, Contains

(* list_remove: the elements after the one taken out move one place up. *)
LEMMA RemoveAtTipo ==
  ASSUME NEW S, NEW s \in Seq(S), NEW i \in 1..Len(s)
  PROVE  /\ RemoveAt(s, i) \in Seq(S)
         /\ Len(RemoveAt(s, i)) = Len(s) - 1
         /\ \A j \in 1..(Len(s) - 1) : RemoveAt(s, i)[j] = s[IF j < i THEN j ELSE j + 1]
<1> DEFINE a == SubSeq(s, 1, i - 1)
           b == SubSeq(s, i + 1, Len(s))
<1>1. a \in Seq(S) /\ Len(a) = i - 1 /\ \A j \in 1..(i - 1) : a[j] = s[j]
  BY SubSeqProperties
<1>2. b \in Seq(S) /\ Len(b) = Len(s) - i /\ \A j \in 1..(Len(s) - i) : b[j] = s[i + j]
  BY SubSeqProperties
<1>3. RemoveAt(s, i) = a \o b
  BY DEF RemoveAt
<1> HIDE DEF a, b
<1>4. a \o b \in Seq(S) /\ Len(a \o b) = Len(s) - 1
  <2>1. a \o b \in Seq(S) /\ Len(a \o b) = Len(a) + Len(b)
    BY <1>1, <1>2, ConcatProperties
  <2>2. (i - 1) + (Len(s) - i) = Len(s) - 1
    OBVIOUS
  <2> QED BY <1>1, <1>2, <2>1, <2>2
<1>5. ASSUME NEW j \in 1..(Len(s) - 1)
      PROVE  (a \o b)[j] = s[IF j < i THEN j ELSE j + 1]
  <2>1. (a \o b)[j] = IF j <= Len(a) THEN a[j] ELSE b[j - Len(a)]
    BY <1>1, <1>2, ConcatProperties
  <2>2. CASE j < i
    BY <1>1, <2>1, <2>2
  <2>3. CASE ~(j < i)
    <3>1. j - (i - 1) \in 1..(Len(s) - i) /\ i + (j - (i - 1)) = j + 1
      BY <2>3
    <3> QED BY <1>1, <1>2, <2>1, <2>3, <3>1
  <2> QED BY <2>2, <2>3
<1> QED BY <1>3, <1>4, <1>5

(* list_remove leaves a queue of the same elements. *)
LEMMA QuitarTipo ==
  ASSUME NEW S, NEW s \in Seq(S), NEW t, Contains(s, t)
  PROVE  Quitar(s, t) \in Seq(S)
BY IndiceEnRango, RemoveAtTipo DEF Quitar

(* The node a list_iterate goes to next is of the list, or none is. *)
LEMMA SiguienteTipo ==
  ASSUME NEW S, NEW s \in Seq(S), NEW t, Contains(s, t)
  PROVE  Siguiente(s, t) \in S \cup {Nadie}
BY IndiceEnRango DEF Siguiente

(* list_sort keeps the list of the candidates one of those it had and the *)
(* new one.                                                               *)
LEMMA InsertarOrdenadoTipo ==
  ASSUME NEW S, NEW s \in Seq(S), NEW t \in S
  PROVE  InsertarOrdenado(s, t) \in Seq(S)
<1> DEFINE lugar == {i \in 1..Len(s) : ~ordenarMasCercano(s[i], t)}
<1>1. CASE lugar = {}
  BY <1>1 DEF InsertarOrdenado
<1>2. CASE lugar # {}
  <2>1. MinTid(lugar) \in 1..Len(s)
    BY <1>2, MinTidPertenece, lugar \subseteq Nat
  <2>2. ASSUME NEW i \in 1..Len(s) PROVE InsertAt(s, i, t) \in Seq(S)
    <3>1. SubSeq(s, 1, i - 1) \in Seq(S) /\ SubSeq(s, i, Len(s)) \in Seq(S)
      BY SubSeqProperties
    <3>2. SubSeq(s, 1, i - 1) \o <<t>> \in Seq(S)
      BY <3>1
    <3> QED BY <3>1, <3>2, ConcatProperties DEF InsertAt
  <2> QED BY <1>2, <2>1, <2>2 DEF InsertarOrdenado
<1> QED BY <1>1, <1>2

(* The first tid of a patota, and the one after another, are tripulantes. *)
LEMMA PrimerTid ==
  ASSUME NEW p \in Patotas
  PROVE  MinTid(Miembros(p)) \in Miembros(p) /\ Miembros(p) \subseteq Trips
<1>1. Miembros(p) \subseteq Nat /\ Miembros(p) # {} /\ Miembros(p) \subseteq Trips
  BY ConstantesOK, PatotasConTripulantes DEF Miembros
<1> QED BY <1>1, MinTidPertenece

(* The tripulante after another one of its patota, if any. *)
LEMMA SiguienteTidTipo ==
  ASSUME NEW t
  PROVE  SiguienteTid(t) \in TripsONada
<1> DEFINE resto == {u \in Miembros(PatotaDe[t]) : u > t}
<1>1. resto \subseteq Trips /\ resto \subseteq Nat
  BY ConstantesOK DEF Miembros
<1>2. CASE resto = {}
  BY <1>2 DEF SiguienteTid, TripsONada
<1>3. CASE resto # {}
  BY <1>1, <1>3, MinTidPertenece DEF SiguienteTid, TripsONada
<1> QED BY <1>2, <1>3

-----------------------------------------------------------------------------
(* The inductive invariant: the types, and that whoever is about to push a  *)
(* TCB has one.                                                             *)
ConTCB == {"poner", "restaurar", "pedir"}
AnilloOK == TipoAnillo /\ \A e \in Etapas : lbl[e] \in ConTCB => actual[e] \in Trips

ConTripulante == {"pcb", "new", "hilo", "estado", "buscar", "extraer", "patota"}
ConsolaOK == /\ TipoConsola
             /\ cons.pc \in ConTripulante => cons.t \in Trips
             /\ cons.pc = "extraer" => cons.i # 0

Tipos == /\ AnilloOK /\ TipoBarrera /\ TipoColas /\ TipoTCB /\ TipoPatotas
         /\ TipoSabotaje /\ ConsolaOK /\ TipoExterno /\ caida \in Caidas

(* A step keeps the type of what it leaves alone. *)
LEMMA SinCambio ==
  ASSUME Tipos
  PROVE  /\ UNCHANGED anillo => AnilloOK'
         /\ UNCHANGED barrera => TipoBarrera'
         /\ UNCHANGED cola => TipoColas'
         /\ UNCHANGED tcb => TipoTCB'
         /\ UNCHANGED patotas => TipoPatotas'
         /\ UNCHANGED sabotaje => TipoSabotaje'
         /\ UNCHANGED consola => ConsolaOK'
         /\ UNCHANGED externo => TipoExterno'
         /\ UNCHANGED caida => caida' \in Caidas
<1>1. UNCHANGED anillo => AnilloOK'
  BY DEF Tipos, anillo, AnilloOK, TipoAnillo
<1>2. UNCHANGED barrera => TipoBarrera'
  BY DEF Tipos, barrera, TipoBarrera
<1>3. UNCHANGED cola => TipoColas'
  BY DEF Tipos, TipoColas
<1>4. UNCHANGED tcb => TipoTCB'
  BY DEF Tipos, TipoTCB
<1>5. UNCHANGED patotas => TipoPatotas'
  BY DEF Tipos, patotas, TipoPatotas
<1>6. UNCHANGED sabotaje => TipoSabotaje'
  BY DEF Tipos, sabotaje, TipoSabotaje
<1>7. UNCHANGED consola => ConsolaOK'
  BY DEF Tipos, consola, ConsolaOK, TipoConsola
<1>8. UNCHANGED externo => TipoExterno'
  BY DEF Tipos, externo, TipoExterno
<1>9. UNCHANGED caida => caida' \in Caidas
  BY DEF Tipos
<1> QED BY <1>1, <1>2, <1>3, <1>4, <1>5, <1>6, <1>7, <1>8, <1>9

(* A stage goes on to its next point. *)
LEMMA IrTipo ==
  ASSUME AnilloOK, NEW e \in Etapas, NEW l \in Rotulos, NEW t \in TripsONada,
         l \in ConTCB => t \in Trips, Ir(e, l, t)
  PROVE  AnilloOK'
BY DEF AnilloOK, TipoAnillo, Ir

(* A stage ends its turn and posts the next semaphore. *)
LEMMA TerminarTipo ==
  ASSUME AnilloOK, NEW e \in Etapas, NEW s \in Etapas \cup {"pausar"}, Terminar(e, s)
  PROVE  AnilloOK'
BY DEF AnilloOK, TipoAnillo, Terminar, Etapas, Rotulos, ConTCB, TripsONada

(* Popping a tripulante of a queue. *)
LEMMA SacarTipo ==
  ASSUME TipoColas, NEW q \in Colas, NEW t, Contains(cola[q], t), Sacar(q, t)
  PROVE  TipoColas'
BY QuitarTipo DEF TipoColas, Sacar

(* Pushing a tripulante. *)
LEMMA PonerTipo ==
  ASSUME TipoColas, NEW q \in Colas, NEW t \in Trips, Poner(q, t)
  PROVE  TipoColas'
BY DEF TipoColas, Poner

(* Moving it from a queue to another. *)
LEMMA MoverTipo ==
  ASSUME TipoColas, NEW q \in Colas, NEW r \in Colas, NEW t \in Trips, q # r, Contains(cola[q], t),
         Mover(q, r, t)
  PROVE  TipoColas'
<1>1. Quitar(cola[q], t) \in Seq(Trips) /\ Append(cola[r], t) \in Seq(Trips)
  BY QuitarTipo DEF TipoColas
<1> QED BY <1>1 DEF TipoColas, Mover

(* The console goes on with a command. *)
LEMMA ConsolaPaso ==
  ASSUME ConsolaOK, NEW a, NEW b \in Consolas, b # "extraer", NEW t \in TripsONada,
         b \in ConTripulante => t \in Trips, Consola(a, b, t)
  PROVE  /\ cons' \in Comandos
         /\ cons'.pc \in ConTripulante => cons'.t \in Trips
         /\ cons'.pc = "extraer" => cons'.i # 0
BY DEF ConsolaOK, TipoConsola, Consola, EnConsola, Comandos

(* iterar_en_lista: the console goes to another node of the list. *)
LEMMA NodoTipo ==
  ASSUME NEW c \in Comandos, NEW l \in Consolas, NEW n \in TripsONada, NEW i \in Nat
  PROVE  [c EXCEPT !.pc = l, !.nodo = n, !.i = i] \in Comandos
BY DEF Comandos

(* A request to MiRAMHQ, or a crash, leaves one of the known causes. *)
LEMMA CaidaTipo ==
  ASSUME caida \in Caidas, NEW c \in Caidas, NEW t
  PROVE  (PedirRAM(t) => caida' \in Caidas) /\ (Cae(c) => caida' \in Caidas)
BY DEF PedirRAM, Cae, Caidas

(* Every task of a tripulante is a task. *)
LEMMA TareasTipo ==
  ASSUME NEW t \in Trips
  PROVE  /\ TareasDe(t) \in Seq(Tarea)
         /\ \A i \in 1..Len(TareasDe(t)) : TareasDe(t)[i] \in Tarea
         /\ TareasDe(t) # <<>> => 1 \in 1..Len(TareasDe(t))
<1>1. TareasDe(t) \in Seq(Tarea)
  BY ConstantesOK DEF TareasDe
<1> QED BY <1>1

(* A TCB is given a new value of its type. *)
LEMMA CambioTCB ==
  ASSUME TipoTCB, NEW t, NEW r, t \in Trips => r \in TCB
  PROVE  [tcb EXCEPT ![t] = r] \in [Trips -> TCB]
BY DEF TipoTCB

(* pedirProximaTarea gives back a TCB, with a task of the patota. *)
LEMMA ProximaTipo ==
  ASSUME NEW r \in TCB, NEW t \in Trips
  PROVE  Proxima(r, t) \in TCB
<1>1. CASE r.tarea < Len(TareasDe(t))
  <2>1. r.tarea + 1 \in 1..Len(TareasDe(t)) /\ r.tarea + 1 \in Nat
    BY <1>1, TareasTipo DEF TCB
  <2>2. TareasDe(t)[r.tarea + 1] \in Tarea
    BY <2>1, TareasTipo
  <2> QED BY <1>1, <2>1, <2>2 DEF Proxima, TCB
<1>2. CASE ~(r.tarea < Len(TareasDe(t)))
  BY <1>2 DEF Proxima, TCB
<1> QED BY <1>1, <1>2

(* One cell of the way. *)
LEMMA PasoTipo ==
  ASSUME NEW r \in TCB, NEW p, p.x \in Nat, p.y \in Nat
  PROVE  Paso(r, p) \in TCB
BY DEF Paso, Acercar, TCB

(* The count of cycles, and its reset. *)
LEMMA PreemptarTipo ==
  ASSUME NEW r \in TCB, NEW n \in Nat
  PROVE  Preemptar(r, n) \in TCB
BY DEF Preemptar, TCB

(* What a cycle of a thread reads and marks. *)
LEMMA CumplioTipo ==
  ASSUME TipoTCB, NEW t \in Trips
  PROVE  tcb[t] \in TCB /\ Cumplio(t) \in TCB /\ tcb[t].ciclos + 1 \in Nat /\ tcb[t].instr \in Tarea
<1>1. tcb[t] \in TCB
  BY DEF TipoTCB
<1>2. ASSUME NEW r \in TCB PROVE [r EXCEPT !.cumplido = TRUE] \in TCB
  BY DEF TCB
<1>3. tcb[t].ciclos + 1 \in Nat /\ tcb[t].instr \in Tarea
  BY <1>1 DEF TCB
<1> QED BY <1>1, <1>2, <1>3 DEF Cumplio

(* A cycle of a normal task, completed or not. *)
LEMMA CicloTipo ==
  ASSUME NEW r \in TCB
  PROVE  /\ [r EXCEPT !.tExec = 0, !.ini = FALSE] \in TCB
         /\ [r EXCEPT !.tExec = @ + 1, !.ini = TRUE] \in TCB
<1>1. r.tExec + 1 \in Nat
  BY DEF TCB
<1>2. [r EXCEPT !.tExec = 0, !.ini = FALSE] \in TCB
  BY DEF TCB
<1>3. ASSUME NEW n \in Nat PROVE [r EXCEPT !.tExec = n, !.ini = TRUE] \in TCB
  BY DEF TCB
<1> QED BY <1>1, <1>2, <1>3

(* The bounded uses of the console are counted. *)
LEMMA UsosTipo ==
  ASSUME NEW u \in Usos
  PROVE  /\ [u EXCEPT !.reinicios = @ + 1] \in Usos /\ [u EXCEPT !.pausas = @ + 1] \in Usos
         /\ [u EXCEPT !.expulsiones = @ + 1] \in Usos /\ [u EXCEPT !.sabotajes = @ + 1] \in Usos
BY DEF Usos

(* What a queue contains is of its type. *)
LEMMA ElementoTipo ==
  ASSUME NEW S, NEW s \in Seq(S), NEW t, Contains(s, t)
  PROVE  t \in S
BY DEF Contains

(* list_iterate over exec: the stage goes to the next node, or is done. *)
LEMMA AvanzarTipo ==
  ASSUME Tipos, NEW e \in Recorridos, NEW t, Contains(cola["exec"], t), Avanzar(e, t)
  PROVE  AnilloOK'
<1>1. Siguiente(cola["exec"], t) \in TripsONada
  BY SiguienteTipo DEF Tipos, TipoColas, Colas, TripsONada
<1>2. e \in Etapas /\ Proximo[e] \in Etapas
  BY DEF Recorridos, Proximo, Etapas
<1> QED BY <1>1, <1>2, IrTipo, TerminarTipo DEF Tipos, Avanzar, Rotulos, ConTCB

(* TodosTerminaron and Estados play no part in the types. *)
LEMMA DespedirTipo ==
  ASSUME Tipos, NEW t \in Trips, DespedirEnRAM(t)
  PROVE  enRAM' \subseteq Trips /\ fin' \subseteq Patotas
<1>1. PatotaDe[t] \in Patotas
  BY ConstantesOK
<1> QED BY <1>1 DEF Tipos, TipoExterno, TipoPatotas, DespedirEnRAM

-----------------------------------------------------------------------------
(* Each component keeps every type *)

(* New->Ready: patotas announced to RAM, first tasks asked for, New emptied. *)
LEMMA TiposNewReady ==
  ASSUME Tipos, NewReady PROVE Tipos'
<1> USE DEF Tipos
<1>1. CASE NR_Entra
  <2>1. AnilloOK'
    BY <1>1, IrTipo, TerminarTipo DEF NR_Entra, En, Etapas, Rotulos, ConTCB,
       TripsONada
  <2> QED BY <1>1, <2>1, SinCambio DEF NR_Entra
<1>2. CASE NR_IniciarPatota
  <2>1. buffers # <<>> /\ Head(buffers) \in Patotas
    BY <1>2 DEF NR_IniciarPatota, TipoPatotas
  <2>2. AnilloOK'
    BY <1>2, <2>1, IrTipo, SinCambio, PrimerTid DEF NR_IniciarPatota, anillo,
       En, Etapas, Rotulos, ConTCB, TripsONada
  <2>3. TipoPatotas'
    BY <1>2 DEF NR_IniciarPatota, TipoPatotas
  <2>4. TipoExterno'
    BY <1>2, <2>1, PrimerTid DEF NR_IniciarPatota, TipoExterno
  <2>5. caida' \in Caidas
    BY <1>2, CaidaTipo DEF NR_IniciarPatota, Caidas
  <2> QED BY <1>2, <2>1, <2>2, <2>3, <2>4, <2>5, SinCambio DEF
    NR_IniciarPatota
<1>3. CASE NR_PrimeraTarea
  <2>1. AnilloOK'
    BY <1>3, IrTipo, SiguienteTidTipo DEF NR_PrimeraTarea, En, Etapas,
       Rotulos, ConTCB, TripsONada
  <2>2. TipoTCB'
    <3> DEFINE t == actual["NR"]
               r == IF TareasDe(t) # <<>>
                      THEN [tcb[t] EXCEPT !.tarea = 1, !.instr = TareasDe(t)[1], !.est = "R"]
                      ELSE [tcb[t] EXCEPT !.est = "X"]
    <3>1. ASSUME t \in Trips PROVE r \in TCB
      <4>1. TareasDe(t) # <<>> => TareasDe(t)[1] \in Tarea
        BY <3>1, TareasTipo
      <4> QED BY <3>1, <4>1 DEF TipoTCB, TCB
    <3>2. tcb' = [tcb EXCEPT ![t] = r]
      BY <1>3 DEF NR_PrimeraTarea
    <3> QED BY <3>1, <3>2, CambioTCB DEF TipoTCB
  <2>3. caida' \in Caidas
    BY <1>3, CaidaTipo DEF NR_PrimeraTarea, Caidas
  <2> QED BY <1>3, <2>1, <2>2, <2>3, SinCambio DEF NR_PrimeraTarea
<1>4. CASE NR_SinPatotas
  <2>1. AnilloOK'
    BY <1>4, IrTipo DEF NR_SinPatotas, En, Etapas, Rotulos, ConTCB, TripsONada
  <2> QED BY <1>4, <2>1, SinCambio DEF NR_SinPatotas
<1>5. CASE NR_Sacar
  <2>1. AnilloOK'
    BY <1>5, IrTipo, ToSetTipo DEF NR_Sacar, En, Etapas, Rotulos, ConTCB,
       TripsONada, TipoColas, Colas
  <2>2. TipoColas'
    BY <1>5, SacarTipo, ToSetTipo DEF NR_Sacar, Colas, TipoColas
  <2> QED BY <1>5, <2>1, <2>2, SinCambio DEF NR_Sacar
<1>6. CASE NR_Poner
  <2>1. AnilloOK'
    BY <1>6, IrTipo DEF NR_Poner, En, Etapas, Rotulos, ConTCB, TripsONada
  <2>2. TipoColas'
    BY <1>6, PonerTipo DEF NR_Poner, Colas, DestinoNew, En, AnilloOK, Etapas,
       ConTCB
  <2> QED BY <1>6, <2>1, <2>2, SinCambio DEF NR_Poner
<1>7. CASE NR_Fin
  <2>1. AnilloOK'
    BY <1>7, IrTipo, TerminarTipo DEF NR_Fin, En, Etapas, Rotulos, ConTCB,
       TripsONada
  <2> QED BY <1>7, <2>1, SinCambio DEF NR_Fin
<1> QED BY <1>1, <1>2, <1>3, <1>4, <1>5, <1>6, <1>7 DEF NewReady

(* The three passes over exec: to BloqIO, to Ready, to Exit. *)
LEMMA TiposRecorreExec ==
  ASSUME Tipos, NEW e \in Recorridos, RecorreExec(e) PROVE Tipos'
<1> USE DEF Tipos
<1>1. CASE Recorrer(e)
  <2>1. AnilloOK'
    BY <1>1, IrTipo, TerminarTipo, ToSetTipo DEF Recorrer, En, Etapas,
       Rotulos, ConTCB, TripsONada, TipoColas, Colas, Recorridos, Proximo
  <2> QED BY <1>1, <2>1, SinCambio DEF Recorrer
<1>2. CASE Visitar(e)
  <2>1. actual[e] \in Trips /\ Contains(cola["exec"], actual[e])
    BY <1>2, ElementoTipo DEF Visitar, Esta, TipoColas, Colas
  <2>2. AnilloOK'
    BY <1>2, <2>1, AvanzarTipo DEF Visitar
  <2>3. TipoColas'
    BY <1>2, <2>1, MoverTipo, SinCambio DEF Visitar, Recorridos, Destino,
       Colas
  <2>4. enRAM' \subseteq Trips /\ fin' \subseteq Patotas
    BY <1>2, <2>1, DespedirTipo DEF Visitar, TipoExterno, TipoPatotas
  <2>5. TipoPatotas'
    BY <1>2, <2>4 DEF Visitar, TipoPatotas
  <2>6. TipoExterno'
    BY <1>2, <2>4 DEF Visitar, TipoExterno
  <2> QED BY <1>2, <2>1, <2>2, <2>3, <2>4, <2>5, <2>6, SinCambio DEF Visitar
<1>3. CASE VisitarLiberado(e)
  <2>1. caida' \in Caidas
    BY <1>3, CaidaTipo DEF VisitarLiberado, Caidas
  <2> QED BY <1>3, <2>1, SinCambio DEF VisitarLiberado
<1> QED BY <1>1, <1>2, <1>3 DEF RecorreExec

(* Ready->Exec: exec is filled, counted and woken. *)
LEMMA TiposReadyExec ==
  ASSUME Tipos, ReadyExec PROVE Tipos'
<1> USE DEF Tipos
<1>1. CASE RE_Entra
  <2>1. AnilloOK'
    BY <1>1, IrTipo DEF RE_Entra, En, Etapas, Rotulos, ConTCB, TripsONada
  <2> QED BY <1>1, <2>1, SinCambio DEF RE_Entra
<1>2. CASE RE_Sacar
  <2>1. AnilloOK'
    BY <1>2, IrTipo, ToSetTipo DEF RE_Sacar, En, Etapas, Rotulos, ConTCB,
       TripsONada, HayLugar, TipoColas, Colas
  <2>2. TipoColas'
    BY <1>2, SacarTipo, ToSetTipo DEF RE_Sacar, Colas, HayLugar, TipoColas
  <2> QED BY <1>2, <2>1, <2>2, SinCambio DEF RE_Sacar
<1>3. CASE RE_Poner
  <2>1. AnilloOK'
    BY <1>3, IrTipo DEF RE_Poner, En, Etapas, Rotulos, ConTCB, TripsONada
  <2>2. TipoColas'
    BY <1>3, PonerTipo DEF RE_Poner, Colas, En, AnilloOK, Etapas, ConTCB
  <2>3. TipoTCB'
    BY <1>3 DEF RE_Poner, TipoTCB, TCB
  <2>4. caida' \in Caidas
    BY <1>3, CaidaTipo DEF RE_Poner, Caidas
  <2> QED BY <1>3, <2>1, <2>2, <2>3, <2>4, SinCambio DEF RE_Poner
<1>4. CASE RE_Lleno
  <2>1. AnilloOK'
    BY <1>4, IrTipo DEF RE_Lleno, En, Etapas, Rotulos, ConTCB, TripsONada
  <2> QED BY <1>4, <2>1, SinCambio DEF RE_Lleno
<1>5. CASE RE_Contar
  <2>1. AnilloOK'
    BY <1>5, IrTipo, TerminarTipo DEF RE_Contar, En, Etapas, Rotulos, ConTCB,
       TripsONada
  <2>2. cantidad' \in Nat
    BY <1>5 DEF RE_Contar, TipoColas, Colas
  <2>3. TipoBarrera'
    BY <1>5, <2>2 DEF RE_Contar, TipoBarrera
  <2> QED BY <1>5, <2>1, <2>2, <2>3, SinCambio DEF RE_Contar
<1>6. CASE RE_Empezar
  <2>1. AnilloOK'
    BY <1>6, IrTipo, ToSetTipo DEF RE_Empezar, En, Etapas, Rotulos, ConTCB,
       TripsONada, TipoColas, Colas
  <2> QED BY <1>6, <2>1, SinCambio DEF RE_Empezar
<1>7. CASE RE_Avisar
  <2>1. Siguiente(cola["exec"], actual["RE"]) \in TripsONada
    BY <1>7, SiguienteTipo DEF RE_Avisar, Esta, TipoColas, Colas, TripsONada
  <2>2. AnilloOK'
    BY <1>7, IrTipo, <2>1 DEF RE_Avisar, En, Etapas, Rotulos, ConTCB,
       TripsONada
  <2>3. semT' \in [Trips -> Nat]
    <3>1. semT[actual["RE"]] + 1 \in Nat
      BY <1>7, ElementoTipo DEF RE_Avisar, Esta, TipoColas, Colas, TipoBarrera
    <3> QED BY <1>7, <3>1 DEF RE_Avisar, TipoBarrera
  <2>4. TipoBarrera'
    BY <1>7, <2>3 DEF RE_Avisar, TipoBarrera
  <2>5. caida' \in Caidas
    BY <1>7, CaidaTipo DEF RE_Avisar, Caidas
  <2> QED BY <1>7, <2>1, <2>2, <2>3, <2>4, <2>5, SinCambio DEF RE_Avisar
<1>8. CASE VisitarLiberado("RE")
  <2>1. caida' \in Caidas
    BY <1>8, CaidaTipo DEF VisitarLiberado, Caidas
  <2> QED BY <1>8, <2>1, SinCambio DEF VisitarLiberado
<1> QED BY <1>1, <1>2, <1>3, <1>4, <1>5, <1>6, <1>7, <1>8 DEF ReadyExec

(* Bloqueado por IO: the head counts, and asks for its next task. *)
LEMMA TiposBloqIO ==
  ASSUME Tipos, BloqIO PROVE Tipos'
<1> USE DEF Tipos
<1>1. CASE BIO_Entra
  <2>1. AnilloOK'
    BY <1>1, IrTipo, ToSetTipo DEF BIO_Entra, En, Etapas, Rotulos, ConTCB,
       TripsONada, TipoColas, Colas
  <2> QED BY <1>1, <2>1, SinCambio DEF BIO_Entra
<1>2. CASE BIO_Contar
  <2>1. cola["bio"] # <<>> => Head(cola["bio"]) \in Trips /\ Contains(cola["bio"], Head(cola["bio"]))
    BY ToSetTipo DEF TipoColas, Colas
  <2>2. AnilloOK'
    BY <1>2, <2>1, IrTipo, SinCambio DEF BIO_Contar, anillo, En, Etapas,
       Rotulos, ConTCB, TripsONada
  <2>3. TipoColas'
    BY <1>2, <2>1, SacarTipo, SinCambio DEF BIO_Contar, Colas
  <2>4. TipoTCB'
    <3> DEFINE t == actual["BLOCKIO"]
               dura == tcb[t].instr.t
               n == IF tcb[t].tIO # dura THEN tcb[t].tIO + 1 ELSE tcb[t].tIO
               r == [tcb[t] EXCEPT !.tIO = n]
               medio == [tcb EXCEPT ![t] = r]
    <3>1. medio \in [Trips -> TCB]
      <4>1. ASSUME t \in Trips PROVE r \in TCB
        <5>1. n \in Nat
          BY <4>1 DEF TipoTCB, TCB
        <5> QED BY <4>1, <5>1 DEF TipoTCB, TCB
      <4> QED BY <4>1, CambioTCB
    <3>2. CASE tcb' = medio
      BY <3>1, <3>2 DEF TipoTCB
    <3>3. CASE cola["bio"] # <<>> /\ tcb' = [medio EXCEPT ![Head(cola["bio"])].tIO = 0]
      <4> HIDE DEF medio
      <4>1. [medio[Head(cola["bio"])] EXCEPT !.tIO = 0] \in TCB
        BY <2>1, <3>1, <3>3 DEF TCB
      <4> QED BY <2>1, <3>1, <3>3, <4>1 DEF TipoTCB
    <3>4. CASE tcb' = tcb
      BY <3>4 DEF TipoTCB
    <3> QED BY <1>2, <3>2, <3>3, <3>4 DEF BIO_Contar
  <2>5. caida' \in Caidas
    BY <1>2, CaidaTipo DEF BIO_Contar, Caidas
  <2> QED BY <1>2, <2>1, <2>2, <2>3, <2>4, <2>5, SinCambio DEF BIO_Contar
<1>3. CASE BIO_Pedir
  <2>1. actual["BLOCKIO"] \in Trips
    BY <1>3 DEF BIO_Pedir, En, AnilloOK, Etapas, ConTCB
  <2>2. AnilloOK'
    BY <1>3, IrTipo DEF BIO_Pedir, En, Etapas, Rotulos, ConTCB, TripsONada
  <2>3. TipoColas'
    BY <1>3, <2>1, PonerTipo, SinCambio DEF BIO_Pedir, Colas
  <2>4. TipoTCB'
    <3> DEFINE r == Proxima(tcb[actual["BLOCKIO"]], actual["BLOCKIO"])
    <3>1. r \in TCB
      BY <2>1, ProximaTipo DEF TipoTCB
    <3>2. [r EXCEPT !.est = "R"] \in TCB
      BY <3>1 DEF TCB
    <3> QED BY <1>3, <3>1, <3>2, CambioTCB DEF BIO_Pedir, TipoTCB
  <2>5. caida' \in Caidas
    BY <1>3, CaidaTipo DEF BIO_Pedir, Caidas
  <2>6. TipoExterno'
    BY <1>3 DEF BIO_Pedir, TipoExterno
  <2> QED BY <1>3, <2>1, <2>2, <2>3, <2>4, <2>5, <2>6, SinCambio DEF BIO_Pedir
<1>4. CASE BIO_Salir
  <2>1. AnilloOK'
    BY <1>4, IrTipo, TerminarTipo DEF BIO_Salir, En, Etapas, Rotulos, ConTCB,
       TripsONada
  <2> QED BY <1>4, <2>1, SinCambio DEF BIO_Salir
<1> QED BY <1>1, <1>2, <1>3, <1>4 DEF BloqIO

(* To bloqueado por emergencia: exec and ready emptied, fixer chosen or restored. *)
LEMMA TiposAEmergencia ==
  ASSUME Tipos, AEmergencia PROVE Tipos'
<1> USE DEF Tipos
<1>1. CASE ERM_Entra
  <2>1. AnilloOK'
    BY <1>1, IrTipo, TerminarTipo DEF ERM_Entra, En, Etapas, Rotulos, ConTCB,
       TripsONada, TipoSabotaje
  <2>2. TipoSabotaje'
    BY <1>1 DEF ERM_Entra, TipoSabotaje, Sabotajes
  <2> QED BY <1>1, <2>1, <2>2, SinCambio DEF ERM_Entra
<1>2. CASE ERM_SacarFixer
  <2>1. \A q \in Colas : cola[q] # <<>> =>
         Head(cola[q]) \in Trips /\ Contains(cola[q], Head(cola[q]))
    BY ToSetTipo DEF TipoColas
  <2>2. AnilloOK'
    BY <1>2, <2>1, IrTipo, SinCambio DEF ERM_SacarFixer, anillo, Colas, En,
       Etapas, Rotulos, ConTCB, TripsONada
  <2>3. TipoColas'
    BY <1>2, <2>1, SacarTipo, SinCambio DEF ERM_SacarFixer, Colas
  <2>4. TipoSabotaje'
    BY <1>2 DEF ERM_SacarFixer, TipoSabotaje, Sabotajes
  <2>5. caida' \in Caidas
    BY <1>2, CaidaTipo, SinCambio DEF ERM_SacarFixer, Caidas
  <2> QED BY <1>2, <2>1, <2>2, <2>3, <2>4, <2>5, SinCambio DEF ERM_SacarFixer
<1>3. CASE ERM_Restaurar
  <2>1. actual["ERM"] \in Trips
    BY <1>3 DEF ERM_Restaurar, En, AnilloOK, Etapas, ConTCB
  <2>2. AnilloOK'
    BY <1>3, IrTipo, TerminarTipo, SinCambio DEF ERM_Restaurar, anillo, En,
       Etapas, Rotulos, ConTCB, TripsONada
  <2>3. TipoColas'
    BY <1>3, <2>1, PonerTipo, SinCambio DEF ERM_Restaurar, Colas
  <2>4. TipoTCB'
    <3> DEFINE t == actual["ERM"]
               c == Head(ctx)
               r == [tcb[t] EXCEPT !.est = "M", !.vivo = c.vivo, !.tExec = c.tExec, !.tIO = c.tIO,
                                   !.ciclos = c.ciclos, !.instr = c.instr]
    <3>1. CASE ctx # <<>>
      <4>1. c \in Contextos
        BY <3>1 DEF TipoSabotaje
      <4>2. /\ c.vivo \in BOOLEAN /\ c.tExec \in Nat /\ c.tIO \in Nat /\ c.ciclos \in Nat
            /\ c.instr \in Tarea
        BY <4>1 DEF Contextos
      <4>3. tcb[t] \in TCB
        BY <2>1 DEF TipoTCB
      <4> HIDE DEF c, t
      <4>4. r \in TCB
        BY <4>2, <4>3 DEF TCB
      <4>5. tcb' = [tcb EXCEPT ![t] = r]
        BY <1>3, <3>1 DEF ERM_Restaurar, c, t
      <4> QED BY <4>4, <4>5, CambioTCB DEF TipoTCB
    <3>2. CASE ctx = <<>>
      BY <1>3, <3>2, SinCambio DEF ERM_Restaurar
    <3> QED BY <3>1, <3>2
  <2>5. ctx' \in Seq(Contextos)
    <3>1. (ctx # <<>> /\ ctx' = Tail(ctx)) \/ ctx' = ctx
      BY <1>3 DEF ERM_Restaurar
    <3>2. ctx \in Seq(Contextos)
      BY DEF TipoSabotaje
    <3> QED BY <3>1, <3>2, HeadTailProperties
  <2>6. TipoSabotaje'
    BY <1>3, <2>5 DEF ERM_Restaurar, TipoSabotaje, Sabotajes
  <2>7. caida' \in Caidas
    BY <1>3, CaidaTipo DEF ERM_Restaurar, Caidas
  <2> QED BY <1>3, <2>1, <2>2, <2>3, <2>4, <2>5, <2>6, <2>7, SinCambio DEF
    ERM_Restaurar
<1>4. CASE ERM_Sacar
  <2>1. /\ PorVaciar \in Colas /\ MinTid(ToSet(cola[PorVaciar])) \in Trips
       /\ Contains(cola[PorVaciar], MinTid(ToSet(cola[PorVaciar])))
    <3>1. PorVaciar \in Colas /\ cola[PorVaciar] \in Seq(Trips) /\ cola[PorVaciar] # <<>>
      BY <1>4 DEF ERM_Sacar, PorVaciar, Colas, TipoColas
    <3>2. ToSet(cola[PorVaciar]) \subseteq Nat /\ ToSet(cola[PorVaciar]) # {}
      BY <3>1, ToSetTipo, ConstantesOK
    <3> QED BY <3>1, <3>2, MinTidPertenece, ToSetTipo, ContieneToSet
  <2>2. AnilloOK'
    BY <1>4, IrTipo, <2>1 DEF ERM_Sacar, En, Etapas, Rotulos, ConTCB,
       TripsONada
  <2>3. TipoColas'
    BY <1>4, SacarTipo, <2>1 DEF ERM_Sacar, Colas
  <2> QED BY <1>4, <2>1, <2>2, <2>3, SinCambio DEF ERM_Sacar
<1>5. CASE ERM_Poner
  <2>1. actual["ERM"] \in Trips
    BY <1>5 DEF ERM_Poner, En, AnilloOK, Etapas, ConTCB
  <2>2. AnilloOK'
    BY <1>5, IrTipo DEF ERM_Poner, En, Etapas, Rotulos, ConTCB, TripsONada
  <2>3. TipoColas'
    BY <1>5, PonerTipo, <2>1 DEF ERM_Poner, Colas
  <2>4. TipoTCB'
    BY <1>5 DEF ERM_Poner, TipoTCB, TCB
  <2>5. caida' \in Caidas
    BY <1>5, CaidaTipo DEF ERM_Poner, Caidas
  <2>6. InsertarOrdenado(ordenados, actual["ERM"]) \in Seq(Trips)
    BY <2>1, InsertarOrdenadoTipo DEF TipoSabotaje
  <2>7. TipoSabotaje'
    BY <1>5, <2>6 DEF ERM_Poner, TipoSabotaje, Sabotajes
  <2> QED BY <1>5, <2>1, <2>2, <2>3, <2>4, <2>5, <2>6, <2>7, SinCambio DEF
    ERM_Poner
<1>6. CASE ERM_Elegir
  <2>1. ordenados # <<>> => Head(ordenados) \in Trips
    BY DEF TipoSabotaje
  <2>2. AnilloOK'
    BY <1>6, TerminarTipo, SinCambio DEF ERM_Elegir, anillo, En, Etapas,
       Rotulos, ConTCB, TripsONada
  <2>3. TipoColas'
    BY <1>6, <2>1, MoverTipo, SinCambio DEF ERM_Elegir, Colas, Esta
  <2>4. TipoTCB' /\ TipoSabotaje'
    <3> DEFINE f == Head(ordenados)
               r == [tcb[f] EXCEPT !.est = "R", !.ciclos = 0, !.tExec = 0, !.tIO = 0]
    <3>1. CASE UNCHANGED <<ordenados, ctx, tcb, cola, sab, anillo>>
      BY <1>6, <3>1, SinCambio DEF ERM_Elegir, sabotaje
    <3>2. CASE /\ ordenados # <<>> /\ ordenados' = <<>> /\ ctx' = Append(ctx, Contexto(f))
               /\ tcb' = [tcb EXCEPT ![f] = r] /\ sab' = [sab EXCEPT !.primer = TRUE]
      <4>1. r \in TCB /\ Contexto(f) \in Contextos
        BY <2>1, <3>2 DEF TipoTCB, TCB, Contexto, Contextos
      <4>2. TipoTCB'
        BY <3>2, <4>1, CambioTCB DEF TipoTCB
      <4>3. ctx' \in Seq(Contextos) /\ ordenados' \in Seq(Trips)
        BY <3>2, <4>1 DEF TipoSabotaje
      <4>4. llega' = llega
        BY <1>6 DEF ERM_Elegir
      <4>5. TipoSabotaje'
        <5>1. sab' \in Sabotajes
          BY <3>2 DEF TipoSabotaje, Sabotajes
        <5> QED BY <4>3, <4>4, <5>1 DEF TipoSabotaje
      <4> QED BY <4>2, <4>5
    <3> QED BY <1>6, <3>1, <3>2 DEF ERM_Elegir
  <2>5. caida' \in Caidas
    BY <1>6, CaidaTipo DEF ERM_Elegir, Caidas
  <2> QED BY <1>6, <2>1, <2>2, <2>3, <2>4, <2>5, SinCambio DEF ERM_Elegir
<1> QED BY <1>1, <1>2, <1>3, <1>4, <1>5, <1>6 DEF AEmergencia

(* From bloqueado por emergencia back to Ready. *)
LEMMA TiposAReady ==
  ASSUME Tipos, AReady PROVE Tipos'
<1> USE DEF Tipos
<1>1. CASE MR_Entra
  <2>1. AnilloOK'
    BY <1>1, IrTipo, TerminarTipo DEF MR_Entra, En, Etapas, Rotulos, ConTCB,
       TripsONada
  <2> QED BY <1>1, <2>1, SinCambio DEF MR_Entra
<1>2. CASE MR_Sacar
  <2>1. AnilloOK'
    BY <1>2, IrTipo, ToSetTipo DEF MR_Sacar, En, Etapas, Rotulos, ConTCB,
       TripsONada, TipoColas, Colas
  <2>2. TipoColas'
    BY <1>2, SacarTipo, ToSetTipo DEF MR_Sacar, Colas, TipoColas
  <2> QED BY <1>2, <2>1, <2>2, SinCambio DEF MR_Sacar
<1>3. CASE MR_Poner
  <2>1. AnilloOK'
    BY <1>3, IrTipo DEF MR_Poner, En, Etapas, Rotulos, ConTCB, TripsONada
  <2>2. TipoColas'
    BY <1>3, PonerTipo DEF MR_Poner, Colas, En, AnilloOK, Etapas, ConTCB
  <2>3. TipoTCB'
    BY <1>3 DEF MR_Poner, TipoTCB, TCB
  <2>4. caida' \in Caidas
    BY <1>3, CaidaTipo DEF MR_Poner, Caidas
  <2> QED BY <1>3, <2>1, <2>2, <2>3, <2>4, SinCambio DEF MR_Poner
<1>4. CASE MR_Resolver
  <2>1. AnilloOK'
    BY <1>4, IrTipo, TerminarTipo DEF MR_Resolver, En, Etapas, Rotulos,
       ConTCB, TripsONada
  <2>2. TipoSabotaje'
    BY <1>4 DEF MR_Resolver, TipoSabotaje, Sabotajes
  <2> QED BY <1>4, <2>1, <2>2, SinCambio DEF MR_Resolver
<1> QED BY <1>1, <1>2, <1>3, <1>4 DEF AReady

(* Exit: threads marked dead, cycles forgotten, the turn given away. *)
LEMMA TiposExit ==
  ASSUME Tipos, EXIT_Cerrar PROVE Tipos'
<1> USE DEF Tipos
<1>1. CASE EXIT_Cerrar
  <2>1. sem' \in [Etapas \cup {"pausar"} -> Nat] /\ lbl' \in [Etapas -> Rotulos]
    <3>1. sem["pausar"] + 1 \in Nat /\ sem["NR"] + 1 \in Nat
      BY DEF AnilloOK, TipoAnillo, Etapas
    <3>2. sem' = [sem EXCEPT !["pausar"] = sem["pausar"] + 1, !["NR"] = sem["NR"] + 1]
      BY <1>1 DEF EXIT_Cerrar
    <3>3. lbl' = [lbl EXCEPT !["EXIT"] = "espera"]
      BY <1>1 DEF EXIT_Cerrar
    <3> QED BY <3>1, <3>2, <3>3 DEF AnilloOK, TipoAnillo, Rotulos
  <2>2. AnilloOK'
    BY <1>1, <2>1 DEF EXIT_Cerrar, AnilloOK, TipoAnillo, Etapas, ConTCB
  <2>3. TipoTCB'
    <3> DEFINE v(t) == tcb[t].vivo /\ ~(viva /\ cola["exit"] # <<>> /\ Esta("exit", t))
               u(t) == tcb[t].cumplido /\ ~(viva /\ t \in EnColas(Activas \ {"new"}))
    <3>1. tcb' = [t \in Trips |-> [tcb[t] EXCEPT !.vivo = v(t), !.cumplido = u(t)]]
      BY <1>1 DEF EXIT_Cerrar
    <3>2. \A t \in Trips : v(t) \in BOOLEAN /\ u(t) \in BOOLEAN
      OBVIOUS
    <3> HIDE DEF v, u
    <3>3. ASSUME NEW t \in Trips PROVE [tcb[t] EXCEPT !.vivo = v(t), !.cumplido = u(t)] \in TCB
      BY <3>2 DEF TipoTCB, TCB
    <3> QED BY <3>1, <3>3 DEF TipoTCB
  <2>4. TipoPatotas'
    BY <1>1 DEF EXIT_Cerrar, TipoPatotas
  <2>5. TipoExterno'
    BY <1>1 DEF EXIT_Cerrar, TipoExterno
  <2> QED BY <1>1, <2>1, <2>2, <2>3, <2>4, <2>5, SinCambio DEF EXIT_Cerrar
<1> QED BY <1>1

(* A stage takes its semaphore. *)
LEMMA TiposDespertar ==
  ASSUME Tipos, NEW e \in Etapas, TomarPausar \/ Despertar(e) PROVE Tipos'
<1> USE DEF Tipos
<1>1. CASE TomarPausar
  <2>1. AnilloOK'
    BY <1>1 DEF TomarPausar, En, AnilloOK, TipoAnillo, Etapas, Rotulos, ConTCB
  <2> QED BY <1>1, <2>1, SinCambio DEF TomarPausar
<1>2. CASE Despertar(e)
  <2>1. AnilloOK'
    BY <1>2 DEF Despertar, En, AnilloOK, TipoAnillo, Etapas, Rotulos, ConTCB
  <2> QED BY <1>2, <2>1, SinCambio DEF Despertar
<1> QED BY <1>1, <1>2

(* A tripulante's thread: its cycle and the barrier at its end. *)
LEMMA TiposHilo ==
  ASSUME Tipos, NEW t \in Trips, Hilo(t) PROVE Tipos'
<1> USE DEF Tipos
<1>1. CASE Tomar(t)
  <2>1. hilo' \in [Trips -> Hilos]
    BY <1>1 DEF Tomar, TipoBarrera, Hilos, Sigue
  <2>2. TipoBarrera'
    BY <1>1, <2>1 DEF Tomar, TipoBarrera
  <2>3. TipoTCB'
    <3> DEFINE c == tcb[t].cumplido \/ (Esta("exec", t) /\ tcb[t].vivo /\ viva /\ ~tcb[t].cumplido /\ tcb[t].est # "E")
    <3>1. tcb' = [tcb EXCEPT ![t].cumplido = c]
      BY <1>1 DEF Tomar
    <3>2. c \in BOOLEAN
      OBVIOUS
    <3> HIDE DEF c
    <3> QED BY <3>1, <3>2 DEF TipoTCB, TCB
  <2>4. caida' \in Caidas
    BY <1>1, CaidaTipo DEF Tomar, Caidas
  <2> QED BY <1>1, <2>1, <2>2, <2>3, <2>4, SinCambio DEF Tomar
<1>2. CASE Actuar(t)
  <2>1. hilo' \in [Trips -> Hilos]
    BY <1>2 DEF Actuar, TipoBarrera, Hilos, Sigue
  <2>2. TipoBarrera'
    BY <1>2, <2>1 DEF Actuar, TipoBarrera
  <2>3. tcb[t] \in TCB /\ Cumplio(t) \in TCB /\ tcb[t].ciclos + 1 \in Nat /\ tcb[t].instr \in Tarea
    BY CumplioTipo
  <2>4. CASE IrAlSabotaje(t)
    <3>1. sab.pos \in Punto
      BY DEF TipoSabotaje, Sabotajes
    <3>2. Preemptar(Paso(Cumplio(t), sab.pos), tcb[t].ciclos + 1) \in TCB
      BY <2>3, <3>1, PasoTipo, PreemptarTipo DEF Punto
    <3>3. TipoTCB'
      BY <2>4, <3>2, CambioTCB DEF IrAlSabotaje, TipoTCB
    <3>4. TipoExterno' /\ caida' \in Caidas
      BY <1>2, <2>4, CaidaTipo DEF Actuar, IrAlSabotaje, TipoExterno
    <3> QED BY <1>2, <2>2, <3>3, <3>4, SinCambio DEF Actuar
  <2>5. CASE TareaNormal(t)
    <3> DEFINE i == tcb[t].instr
               llego == EnPunto(tcb[t], i)
               n == tcb[t].ciclos + 1
               completa == tcb[t].tExec + 1 = i.t
               a == [Cumplio(t) EXCEPT !.tExec = 0, !.ini = FALSE]
               b == [Cumplio(t) EXCEPT !.tExec = @ + 1, !.ini = TRUE]
               r == IF completa THEN Proxima(a, t) ELSE b
               s == IF ~llego THEN Preemptar(Paso(Cumplio(t), i), n)
                    ELSE IF r.est = "X" THEN [r EXCEPT !.ciclos = n] ELSE Preemptar(r, n)
    <3>1. a \in TCB /\ b \in TCB
      BY <2>3, CicloTipo
    <3>2. r \in TCB /\ i.x \in Nat /\ i.y \in Nat
      BY <2>3, <3>1, ProximaTipo DEF Tarea
    <3>3. Paso(Cumplio(t), i) \in TCB
      BY <2>3, <3>2, PasoTipo
    <3>4. s \in TCB
      <4> HIDE DEF r, i, llego
      <4>1. [r EXCEPT !.ciclos = n] \in TCB
        BY <2>3, <3>2 DEF TCB
      <4> QED BY <2>3, <3>2, <3>3, <4>1, PreemptarTipo
    <3>5. tcb' = [tcb EXCEPT ![t] = s]
      BY <2>5 DEF TareaNormal
    <3>6. TipoTCB'
      <4> HIDE DEF s
      <4> QED BY <3>4, <3>5, CambioTCB DEF TipoTCB
    <3>7. inicios' \in [Trips -> Nat]
      BY <2>5 DEF TareaNormal, TipoExterno
    <3>8. TipoExterno' /\ caida' \in Caidas
      BY <1>2, <2>5, <3>7, CaidaTipo DEF Actuar, TareaNormal, TipoExterno
    <3> QED BY <1>2, <2>2, <3>6, <3>8, SinCambio DEF Actuar
  <2>6. CASE TareaIO(t)
    <3> DEFINE i == tcb[t].instr
               quieto == EnPunto(tcb[t], i)
               a == [Paso(Cumplio(t), i) EXCEPT !.ciclos = @ + 1]
               r == IF quieto THEN Cumplio(t) ELSE a
               b == [r EXCEPT !.est = "I", !.ciclos = 0]
               s == IF EnPunto(r, i) THEN b ELSE Preemptar(r, r.ciclos)
    <3>1. Paso(Cumplio(t), i) \in TCB
      BY <2>3, PasoTipo DEF Tarea
    <3>2. a \in TCB
      BY <3>1 DEF TCB
    <3>3. r \in TCB
      BY <2>3, <3>2
    <3>4. s \in TCB
      <4> HIDE DEF r, i
      <4>1. b \in TCB /\ r.ciclos \in Nat
        BY <3>3 DEF TCB
      <4> QED BY <3>3, <4>1, PreemptarTipo
    <3>5. tcb' = [tcb EXCEPT ![t] = s]
      BY <2>6 DEF TareaIO
    <3>6. TipoTCB'
      <4> HIDE DEF s
      <4> QED BY <3>4, <3>5, CambioTCB DEF TipoTCB
    <3>7. inicios' \in [Trips -> Nat]
      BY <2>6 DEF TareaIO, TipoExterno
    <3>8. TipoExterno' /\ caida' \in Caidas
      BY <1>2, <2>6, <3>7, CaidaTipo DEF Actuar, TareaIO, TipoExterno
    <3> QED BY <1>2, <2>2, <3>6, <3>8, SinCambio DEF Actuar
  <2> QED BY <1>2, <2>1, <2>2, <2>3, <2>4, <2>5, <2>6, SinCambio DEF Actuar
<1>3. CASE LlegarAlSabotaje(t)
  <2>1. TipoBarrera'
    BY <1>3 DEF LlegarAlSabotaje, TipoBarrera, Hilos
  <2>2. TipoExterno'
    BY <1>3 DEF LlegarAlSabotaje, TipoExterno, TipoSabotaje
  <2> QED BY <1>3, <2>1, <2>2, SinCambio DEF LlegarAlSabotaje
<1>4. CASE Reparar(t)
  <2>1. hilo' \in [Trips -> Hilos]
    BY <1>4 DEF Reparar, TipoBarrera, Hilos, Sigue
  <2>2. TipoBarrera'
    BY <1>4, <2>1 DEF Reparar, TipoBarrera
  <2>3. TipoSabotaje'
    <3>1. sab' = [sab EXCEPT !.ciclos = @ + 1] /\ ctx' = ctx /\ ordenados' = ordenados /\ llega' = llega
      BY <1>4 DEF Reparar
    <3>2. sab' \in Sabotajes
      BY <3>1 DEF TipoSabotaje, Sabotajes
    <3> QED BY <3>1, <3>2 DEF TipoSabotaje
  <2>4. TipoTCB'
    <3>1. Cumplio(t) \in TCB /\ tcb[t].ciclos + 1 \in Nat
      BY CumplioTipo
    <3>2. Preemptar(Cumplio(t), tcb[t].ciclos + 1) \in TCB
      BY <3>1, PreemptarTipo
    <3> QED BY <1>4, <3>2, CambioTCB DEF Reparar, TipoTCB
  <2>5. caida' \in Caidas
    BY <1>4, CaidaTipo DEF Reparar, Caidas
  <2> QED BY <1>4, <2>1, <2>2, <2>3, <2>4, <2>5, SinCambio DEF Reparar
<1>5. CASE Signal(t)
  <2>1. AnilloOK'
    BY <1>5 DEF Signal, AnilloOK, TipoAnillo, Etapas
  <2>2. TipoBarrera'
    BY <1>5 DEF Signal, TipoBarrera, TipoColas, Colas, Hilos
  <2> QED BY <1>5, <2>1, <2>2, SinCambio DEF Signal
<1> QED BY <1>1, <1>2, <1>3, <1>4, <1>5 DEF Hilo

(* The announcement of a sabotage. *)
LEMMA TiposSabotaje ==
  ASSUME Tipos, SAB_Activar \/ SAB_Datos PROVE Tipos'
<1> USE DEF Tipos
<1>1. CASE SAB_Activar
  <2>1. TipoSabotaje'
    BY <1>1 DEF SAB_Activar, TipoSabotaje, Sabotajes
  <2>2. ConsolaOK'
    BY <1>1, UsosTipo DEF SAB_Activar, ConsolaOK, TipoConsola
  <2>3. TipoExterno'
    BY <1>1 DEF SAB_Activar, TipoExterno
  <2> QED BY <1>1, <2>1, <2>2, <2>3, SinCambio DEF SAB_Activar
<1>2. CASE SAB_Datos
  <2>1. PICK p \in PosSabotaje : sab' = [sab EXCEPT !.terminado = FALSE, !.ciclos = 0, !.pos = p]
    BY <1>2 DEF SAB_Datos
  <2>2. p \in Punto
    BY ConstantesOK
  <2>3. sab' \in Sabotajes
    BY <2>1, <2>2 DEF TipoSabotaje, Sabotajes
  <2>4. TipoSabotaje'
    BY <1>2, <2>3 DEF SAB_Datos, TipoSabotaje, Sabotajes
  <2> QED BY <1>2, <2>1, <2>2, <2>3, <2>4, SinCambio DEF SAB_Datos
<1> QED BY <1>1, <1>2

(* INICIAR_PLANIFICACION and PAUSAR_PLANIFICACION. *)
LEMMA TiposPlanificacion ==
  ASSUME Tipos, IniciarPlanificacion \/ PausarPlanificacion PROVE Tipos'
<1> USE DEF Tipos
<1>1. CASE INI_Pausar
  <2>1. AnilloOK'
    BY <1>1 DEF INI_Pausar, AnilloOK, TipoAnillo, Etapas
  <2>2. ConsolaOK'
    BY <1>1, ConsolaPaso, UsosTipo DEF INI_Pausar, EnConsola, ConsolaOK,
       TipoConsola, Consolas, ConTripulante, TripsONada
  <2> QED BY <1>1, <2>1, <2>2, SinCambio DEF INI_Pausar
<1>2. CASE INI_Turno
  <2>1. AnilloOK'
    BY <1>2 DEF INI_Turno, AnilloOK, TipoAnillo, Etapas
  <2>2. ConsolaOK'
    BY <1>2, ConsolaPaso, UsosTipo DEF INI_Turno, EnConsola, ConsolaOK,
       TipoConsola, Consolas, ConTripulante, TripsONada
  <2> QED BY <1>2, <2>1, <2>2, SinCambio DEF INI_Turno
<1>3. CASE PAU_Pedir
  <2>1. ConsolaOK'
    BY <1>3, ConsolaPaso, UsosTipo DEF PAU_Pedir, EnConsola, ConsolaOK,
       TipoConsola, Consolas, ConTripulante, TripsONada
  <2> QED BY <1>3, <2>1, SinCambio DEF PAU_Pedir
<1>4. CASE PAU_Tomar
  <2>1. AnilloOK'
    BY <1>4 DEF PAU_Tomar, AnilloOK, TipoAnillo, Etapas
  <2>2. ConsolaOK'
    BY <1>4, ConsolaPaso, UsosTipo DEF PAU_Tomar, EnConsola, ConsolaOK,
       TipoConsola, Consolas, ConTripulante, TripsONada
  <2> QED BY <1>4, <2>1, <2>2, SinCambio DEF PAU_Tomar
<1> QED BY <1>1, <1>2, <1>3, <1>4 DEF IniciarPlanificacion,
  PausarPlanificacion

(* INICIAR_PATOTA: PCB, TCBs, threads. *)
LEMMA TiposIniciarPatota ==
  ASSUME Tipos, IniciarPatota PROVE Tipos'
<1> USE DEF Tipos
<1>1. CASE PAT_Crear
  <2>1. /\ MinTid(PorCrear) \in Patotas
       /\ MinTid(Miembros(MinTid(PorCrear))) \in Trips
    <3>1. PorCrear # {} /\ PorCrear \subseteq Patotas /\ PorCrear \subseteq Nat
      BY <1>1, ConstantesOK DEF PAT_Crear, PorCrear
    <3> QED BY <3>1, MinTidPertenece, PrimerTid
  <2>2. ConsolaOK'
    BY <1>1, ConsolaPaso, UsosTipo, <2>1 DEF PAT_Crear, EnConsola, ConsolaOK,
       TipoConsola, Consolas, ConTripulante, TripsONada
  <2>3. TipoPatotas'
    BY <1>1, <2>1 DEF PAT_Crear, TipoPatotas
  <2> QED BY <1>1, <2>1, <2>2, <2>3, SinCambio DEF PAT_Crear
<1>2. CASE PAT_Listar
  <2>1. PatotaDe[cons.t] \in Patotas
    BY <1>2, ConstantesOK DEF PAT_Listar, Consola, EnConsola, ConsolaOK, ConTripulante
  <2>2. cons.t \in Trips
    BY <1>2 DEF PAT_Listar, Consola, EnConsola, ConsolaOK, ConTripulante
  <2>3. ConsolaOK'
    BY <1>2, ConsolaPaso, UsosTipo, <2>2 DEF PAT_Listar, EnConsola, ConsolaOK,
       TipoConsola, Consolas, ConTripulante, TripsONada
  <2>4. TipoPatotas'
    BY <1>2, <2>1 DEF PAT_Listar, TipoPatotas
  <2> QED BY <1>2, <2>1, <2>2, <2>3, <2>4, SinCambio DEF PAT_Listar
<1>3. CASE PAT_New
  <2>1. cons.t \in Trips
    BY <1>3 DEF PAT_New, Consola, EnConsola, ConsolaOK, ConTripulante
  <2>2. ConsolaOK'
    BY <1>3, ConsolaPaso, UsosTipo, <2>1 DEF PAT_New, EnConsola, ConsolaOK,
       TipoConsola, Consolas, ConTripulante, TripsONada
  <2>3. TipoColas'
    BY <1>3, PonerTipo, <2>1 DEF PAT_New, Colas
  <2>4. TipoTCB'
    BY <1>3 DEF PAT_New, TipoTCB, TCB
  <2> QED BY <1>3, <2>1, <2>2, <2>3, <2>4, SinCambio DEF PAT_New
<1>4. CASE PAT_Hilo
  <2>1. ConsolaOK'
    BY <1>4, ConsolaPaso, UsosTipo, SiguienteTidTipo DEF PAT_Hilo, EnConsola,
       ConsolaOK, TipoConsola, Consolas, ConTripulante, TripsONada
  <2>2. TipoBarrera'
    BY <1>4 DEF PAT_Hilo, TipoBarrera, Hilos
  <2> QED BY <1>4, <2>1, <2>2, SinCambio DEF PAT_Hilo
<1> QED BY <1>1, <1>2, <1>3, <1>4 DEF IniciarPatota

(* EXPULSAR_TRIPULANTE: RAM, queue, exit, patota. *)
LEMMA TiposExpulsar ==
  ASSUME Tipos, ExpulsarTripulante PROVE Tipos'
<1> USE DEF Tipos
<1>1. CASE \E t \in Trips : EXP_RAM(t)
  <2>1. PICK t \in Trips : EXP_RAM(t)
    BY <1>1
  <2>2. ConsolaOK'
    BY <1>1, <2>1, ConsolaPaso, UsosTipo DEF EXP_RAM, EnConsola, ConsolaOK,
       TipoConsola, Consolas, ConTripulante, TripsONada
  <2>3. TipoExterno'
    BY <1>1, <2>1 DEF EXP_RAM, TipoExterno
  <2>4. caida' \in Caidas
    BY <1>1, <2>1, CaidaTipo DEF EXP_RAM, Caidas
  <2>5. TipoBarrera' /\ TipoColas' /\ TipoTCB' /\ TipoPatotas' /\ TipoSabotaje' /\ AnilloOK'
    BY <1>1, <2>1, SinCambio DEF EXP_RAM
  <2> QED BY <1>1, <2>1, <2>2, <2>3, <2>4, <2>5
<1>2. CASE EXP_Estado
  <2>1. ColaDe[tcb[cons.t].est] \in Colas
    <3>1. cons.t \in Trips
      BY <1>2 DEF EXP_Estado, EnConsola, ConsolaOK, ConTripulante
    <3> QED BY <3>1 DEF TipoTCB, TCB, ColaDe, Colas
  <2>2. ConsolaOK'
    BY <1>2, <2>1 DEF EXP_Estado, EnConsola, Comandos, ConsolaOK, TipoConsola,
       Consolas, ConTripulante, TripsONada
  <2> QED BY <1>2, <2>1, <2>2, SinCambio DEF EXP_Estado
<1>3. CASE EXP_Buscar
  <2>1. cons.cola \in Colas /\ cola[cons.cola] \in Seq(Trips)
    BY DEF ConsolaOK, TipoConsola, Comandos, TipoColas
  <2>2. Esta(cons.cola, cons.t) => Head(cola[cons.cola]) \in Trips
    BY <2>1, ToSetTipo DEF Esta, Contains
  <2>3. ConsolaOK'
    <3>1. CASE Esta(cons.cola, cons.t)
      <4>1. /\ cons \in Comandos /\ "extraer" \in Consolas /\ Head(cola[cons.cola]) \in TripsONada
            /\ cons' = [cons EXCEPT !.pc = "extraer", !.nodo = Head(cola[cons.cola]), !.i = 1]
        BY <1>3, <2>2, <3>1 DEF EXP_Buscar, EnConsola, ConsolaOK, TipoConsola, Consolas, TripsONada
      <4>2. cons' \in Comandos /\ cons'.pc = "extraer" /\ cons'.t = cons.t /\ cons'.i = 1
        <5>1. cons' \in Comandos
          BY <4>1, NodoTipo
        <5> QED BY <4>1, <5>1 DEF Comandos
      <4> QED BY <1>3, <4>2 DEF EXP_Buscar, EnConsola, ConsolaOK, TipoConsola, ConTripulante
    <3>2. CASE ~Esta(cons.cola, cons.t)
      BY <1>3, <3>2 DEF EXP_Buscar, EnConsola, Comandos, ConsolaOK, TipoConsola, Consolas, ConTripulante
    <3> QED BY <3>1, <3>2
  <2>4. TipoTCB'
    BY <1>3 DEF EXP_Buscar, TipoTCB, TCB
  <2> QED BY <1>3, <2>1, <2>2, <2>3, <2>4, SinCambio DEF EXP_Buscar
<1>4. CASE EXP_Extraer
  <2>1. /\ cons \in Comandos /\ cola[cons.cola] \in Seq(Trips) /\ cons.cola \in Colas
       /\ cons.i \in Nat \ {0}
    BY <1>4 DEF EXP_Extraer, EnConsola, ConsolaOK, TipoConsola, Comandos, TipoColas
  <2>2. TipoColas'
    <3> DEFINE q == cola[cons.cola]
    <3>1. CASE cola' = cola
      BY <3>1 DEF TipoColas
    <3>2. CASE /\ cons.i <= Len(q)
               /\ cola' = [[cola EXCEPT ![cons.cola] = RemoveAt(@, cons.i)]
                            EXCEPT !["exit"] = Append(@, q[cons.i])]
      <4>1. RemoveAt(q, cons.i) \in Seq(Trips) /\ q[cons.i] \in Trips
        BY <2>1, <3>2, RemoveAtTipo
      <4>2. ASSUME NEW s \in Seq(Trips) PROVE Append(s, q[cons.i]) \in Seq(Trips)
        BY <4>1
      <4>3. /\ Append(cola["exit"], q[cons.i]) \in Seq(Trips)
            /\ Append(RemoveAt(q, cons.i), q[cons.i]) \in Seq(Trips)
        BY <4>1, <4>2 DEF TipoColas, Colas
      <4> HIDE DEF q
      <4>4. CASE cons.cola = "exit"
        BY <3>2, <4>1, <4>3, <4>4 DEF TipoColas, q
      <4>5. CASE cons.cola # "exit"
        BY <3>2, <4>1, <4>3, <4>5 DEF TipoColas, q
      <4> QED BY <4>4, <4>5
    <3> QED BY <1>4, <3>1, <3>2 DEF EXP_Extraer
  <2>3. ConsolaOK'
    <3>1. cons' = cons \/ (/\ cons' = [cons EXCEPT !.nodo = Siguiente(cola[cons.cola], cons.nodo),
                                               !.i = @ + 1]
                           /\ Contains(cola[cons.cola], cons.nodo))
      BY <1>4 DEF EXP_Extraer
    <3>2. Contains(cola[cons.cola], cons.nodo) => Siguiente(cola[cons.cola], cons.nodo) \in TripsONada
      BY <2>1, SiguienteTipo DEF TripsONada
    <3>3. cons.i + 1 \in Nat /\ cons.i + 1 # 0 /\ cons.pc \in Consolas
      BY <2>1 DEF Comandos
    <3>4. CASE cons' = cons
      BY <1>4, <3>4, SinCambio DEF ConsolaOK, TipoConsola, EXP_Extraer
    <3>5. CASE /\ cons' = [cons EXCEPT !.nodo = Siguiente(cola[cons.cola], cons.nodo), !.i = @ + 1]
               /\ Contains(cola[cons.cola], cons.nodo)
      <4>1. cons' = [cons EXCEPT !.pc = cons.pc, !.nodo = Siguiente(cola[cons.cola], cons.nodo),
                                !.i = cons.i + 1]
        BY <2>1, <3>5 DEF Comandos
      <4>2. cons' \in Comandos /\ cons'.pc = cons.pc /\ cons'.t = cons.t /\ cons'.i # 0
        <5>1. cons' \in Comandos
          <6> DEFINE n == Siguiente(cola[cons.cola], cons.nodo)
          <6>1. n \in TripsONada /\ cons \in Comandos
            BY <2>1, <3>2, <3>5
          <6>2. cons' = [cons EXCEPT !.pc = cons.pc, !.nodo = n, !.i = cons.i + 1]
            BY <4>1
          <6> HIDE DEF n
          <6>3. [cons EXCEPT !.pc = cons.pc, !.nodo = n, !.i = cons.i + 1] \in Comandos
            BY <3>3, <6>1, NodoTipo
          <6> QED BY <6>2, <6>3
        <5> QED BY <2>1, <3>3, <4>1, <5>1 DEF Comandos
      <4> QED BY <1>4, <4>2 DEF EXP_Extraer, EnConsola, ConsolaOK, TipoConsola
    <3> QED BY <3>1, <3>4, <3>5
  <2>4. caida' \in Caidas
    BY <1>4, CaidaTipo DEF EXP_Extraer, Caidas
  <2> QED BY <1>4, <2>1, <2>2, <2>3, <2>4, SinCambio DEF EXP_Extraer
<1>5. CASE EXP_Extraido
  <2>1. ConsolaOK'
    BY <1>5 DEF EXP_Extraido, EnConsola, Comandos, ConsolaOK, TipoConsola,
       Consolas, ConTripulante, TripsONada
  <2> QED BY <1>5, <2>1, SinCambio DEF EXP_Extraido
<1>6. CASE EXP_Patota
  <2>1. PatotaDe[cons.t] \in Patotas
    BY <1>6, ConstantesOK DEF EXP_Patota, EnConsola, ConsolaOK, ConTripulante
  <2>2. ConsolaOK'
    BY <1>6 DEF EXP_Patota, EnConsola, Comandos, ConsolaOK, TipoConsola,
       Consolas, ConTripulante, TripsONada, ConsolaLibre, Colas
  <2>3. TipoPatotas'
    BY <1>6, <2>1 DEF EXP_Patota, TipoPatotas
  <2>4. TipoExterno'
    BY <1>6 DEF EXP_Patota, TipoExterno
  <2> QED BY <1>6, <2>1, <2>2, <2>3, <2>4, SinCambio DEF EXP_Patota
<1> QED BY <1>1, <1>2, <1>3, <1>4, <1>5, <1>6 DEF ExpulsarTripulante,
  SeguirExpulsion
-----------------------------------------------------------------------------
(* Every action of the program, stuttering included, keeps Tipos. *)
LEMMA TiposNext ==
  ASSUME Tipos, [Next]_vars PROVE Tipos'
<1>1. CASE UNCHANGED vars
  BY <1>1, SinCambio DEF Tipos, vars
<1>2. CASE Next
  <2>1. CASE TomarPausar
    <3>1. "NR" \in Etapas
      BY DEF Etapas
    <3> QED BY <2>1, <3>1, TiposDespertar
  <2>2. ASSUME NEW e \in Etapas, Despertar(e) PROVE Tipos'
    BY <2>2, TiposDespertar
  <2>3. CASE NewReady
    BY <2>3, TiposNewReady
  <2>4. ASSUME NEW e \in Recorridos, RecorreExec(e) PROVE Tipos'
    BY <2>4, TiposRecorreExec
  <2>5. CASE ReadyExec
    BY <2>5, TiposReadyExec
  <2>6. CASE BloqIO
    BY <2>6, TiposBloqIO
  <2>7. CASE AEmergencia
    BY <2>7, TiposAEmergencia
  <2>8. CASE AReady
    BY <2>8, TiposAReady
  <2>9. CASE EXIT_Cerrar
    BY <2>9, TiposExit
  <2>10. ASSUME NEW t \in Trips, Hilo(t) PROVE Tipos'
    BY <2>10, TiposHilo
  <2>11. CASE SAB_Activar \/ SAB_Datos
    BY <2>11, TiposSabotaje
  <2>12. CASE FuncionConsola
    BY <2>12, TiposPlanificacion, TiposIniciarPatota, TiposExpulsar DEF FuncionConsola
  <2> QED BY <1>2, <2>1, <2>2, <2>3, <2>4, <2>5, <2>6, <2>7, <2>8, <2>9, <2>10, <2>11, <2>12
         DEF Next
<1> QED BY <1>1, <1>2

(* setearConfiguraciones leaves every variable with a value of its type. *)
LEMMA TiposInit == Init => Tipos
<1> SUFFICES ASSUME Init PROVE Tipos
  OBVIOUS
<1>1. AnilloOK
  BY DEF Init, AnilloOK, TipoAnillo, Rotulos, ConTCB, TripsONada
<1>2. TipoBarrera /\ TipoColas /\ TipoPatotas
  BY DEF Init, TipoBarrera, Hilos, TipoColas, TipoPatotas
<1>3. TipoTCB
  <2>1. SinTarea \in Tarea
    BY DEF SinTarea, Tarea
  <2>2. ASSUME NEW t \in Trips PROVE PosInicial[t].x \in Nat /\ PosInicial[t].y \in Nat
    BY ConstantesOK DEF Punto
  <2>3. ASSUME NEW a \in Nat, NEW b \in Nat, NEW i \in Tarea
        PROVE  [est |-> "N", tarea |-> 0, instr |-> i, tExec |-> 0, tIO |-> 0, ciclos |-> 0,
                cumplido |-> FALSE, ini |-> FALSE, vivo |-> FALSE, x |-> a, y |-> b] \in TCB
    BY DEF TCB
  <2> QED BY <2>1, <2>2, <2>3 DEF Init, TipoTCB
<1>4. TipoSabotaje
  <2>1. [x |-> 0, y |-> 0] \in Punto
    BY DEF Punto
  <2>2. ASSUME NEW p \in Punto
        PROVE  [activado |-> FALSE, terminado |-> FALSE, primer |-> FALSE, ciclos |-> 0, pos |-> p]
                 \in Sabotajes
    BY DEF Sabotajes
  <2>3. sab \in Sabotajes
    BY <2>1, <2>2 DEF Init
  <2>4. ctx = <<>> /\ ordenados = <<>> /\ llega = FALSE
    BY DEF Init
  <2>5. <<>> \in Seq(Contextos) /\ <<>> \in Seq(Trips)
    OBVIOUS
  <2> QED BY <2>3, <2>4, <2>5 DEF TipoSabotaje
<1>5. ConsolaOK
  BY DEF Init, ConsolaOK, TipoConsola, ConsolaLibre, Comandos, Consolas, TripsONada, Colas, Usos,
         ConTripulante
<1>6. TipoExterno /\ caida \in Caidas
  BY DEF Init, TipoExterno, Caidas
<1> QED BY <1>1, <1>2, <1>3, <1>4, <1>5, <1>6 DEF Tipos

(* The inductive invariant holds in every state of every behaviour. *)
THEOREM TiposInvariante == Spec => []Tipos
<1>1. Tipos /\ [Next]_vars => Tipos'
  BY TiposNext
<1> QED BY TiposInit, <1>1, PTL DEF Spec

(* For every value of the constants, and crash or no crash: the queues, the *)
(* turn and the saved contexts hold tripulantes only (whatever a stage pops *)
(* and pushes back, whatever iterar_en_lista takes out), the counters of    *)
(* the barrier and of a TCB never go below zero, and a TCB's instruction is *)
(* always a whole task.                                                     *)
THEOREM TipoCorrecto == Spec => []TypeOK
<1>1. Tipos => TypeOK
  BY DEF Tipos, TypeOK, AnilloOK, ConsolaOK
<1> QED BY <1>1, TiposInvariante, PTL

-----------------------------------------------------------------------------
(* TareaCargada: whoever may be run has a task.  It is not inductive alone: *)
(* New->Ready pushes by the status it finds, and a thread acts, or repairs, *)
(* on a TCB it looked up before; CargadaOK adds what those two rely on.     *)
Trabajo == {"ready", "exec", "bio", "bem"}
Ejecuta == {"actua", "repara"}

CargadaOK ==
  /\ \A t \in Trips : tcb[t].est = "R" \/ hilo[t] \in Ejecuta => Cargada(t)
  /\ \A q \in Trabajo : \A t \in Trips : Esta(q, t) => Cargada(t)
  /\ \A e \in Etapas \ {"NR"} : EnMano(e) => Cargada(actual[e])

(* What a step may do to each part: a task once received stays, 'R' is      *)
(* written on a TCB that has one, a thread acts on a TCB of exec, and only  *)
(* TCBs with a task reach a queue of Trabajo or the hand of its stages.     *)
PasoTCB == \A t \in Trips :
  /\ Cargada(t) => Cargada(t)'
  /\ tcb'[t].est = "R" => tcb[t].est = "R" \/ Cargada(t)'
PasoHilo == \A t \in Trips :
  hilo'[t] \in Ejecuta => hilo[t] \in Ejecuta \/ Esta("exec", t)
PasoColas == \A q \in Trabajo : \A t \in Trips :
  Esta(q, t)' => (\E r \in Trabajo : Esta(r, t)) \/ Cargada(t)
PasoManos == \A e \in Etapas \ {"NR"} : EnMano(e)' =>
  \/ EnMano(e) /\ actual'[e] = actual[e]
  \/ \E t \in Trips : actual'[e] = t /\ Cargada(t)

-----------------------------------------------------------------------------
(* Lemmas on the parts of a step *)

(* A step whose four parts are as above keeps CargadaOK. *)
LEMMA ConservaCargada ==
  ASSUME Tipos, CargadaOK, PasoTCB, PasoHilo, PasoColas, PasoManos
  PROVE  CargadaOK'
<1>1. ASSUME NEW t \in Trips, tcb'[t].est = "R" \/ hilo'[t] \in Ejecuta PROVE Cargada(t)'
  <2>1. tcb'[t].est = "R" => Cargada(t)'
    BY DEF PasoTCB, CargadaOK
  <2>2. hilo'[t] \in Ejecuta => Cargada(t)
    BY DEF PasoHilo, CargadaOK, Trabajo
  <2> QED BY <1>1, <2>1, <2>2 DEF PasoTCB
<1>2. ASSUME NEW q \in Trabajo, NEW t \in Trips, Esta(q, t)' PROVE Cargada(t)'
  BY <1>2 DEF PasoColas, PasoTCB, CargadaOK
<1>3. ASSUME NEW e \in Etapas \ {"NR"}, EnMano(e)' PROVE Cargada(actual[e])'
  <2>1. PICK t \in Trips : actual'[e] = t /\ Cargada(t)
    <3>1. CASE EnMano(e) /\ actual'[e] = actual[e]
      <4>1. actual[e] \in Trips
        BY <3>1 DEF EnMano, Tipos, AnilloOK, ConTCB
      <4> QED BY <3>1, <4>1 DEF CargadaOK
    <3> QED BY <1>3, <3>1 DEF PasoManos
  <2>2. Cargada(t)'
    BY <2>1 DEF PasoTCB
  <2> QED BY <2>1, <2>2 DEF Cargada
<1> QED BY <1>1, <1>2, <1>3 DEF CargadaOK

(* What a step leaves alone stays as it is. *)
LEMMA CargadaQuieta ==
  /\ UNCHANGED tcb => PasoTCB
  /\ UNCHANGED hilo => PasoHilo
  /\ UNCHANGED cola => PasoColas
  /\ UNCHANGED anillo => PasoManos
<1>1. UNCHANGED tcb => PasoTCB
  BY DEF PasoTCB, Cargada
<1>2. UNCHANGED hilo => PasoHilo
  BY DEF PasoHilo
<1>3. UNCHANGED cola => PasoColas
  BY DEF PasoColas, Esta
<1>4. UNCHANGED anillo => PasoManos
  BY DEF PasoManos, anillo, EnMano
<1> QED BY <1>1, <1>2, <1>3, <1>4

(* A stage goes to a point where it holds nothing, or a TCB with its task.  *)
LEMMA ManosIr ==
  ASSUME Tipos, NEW e \in Etapas, NEW l, NEW t,
         e # "NR" /\ l \in ConTCB => t \in Trips /\ Cargada(t), Ir(e, l, t)
  PROVE  PasoManos
<1>1. lbl \in [Etapas -> Rotulos] /\ actual \in [Etapas -> TripsONada]
  BY DEF Tipos, AnilloOK, TipoAnillo
<1>2. /\ lbl' = [lbl EXCEPT ![e] = l] /\ actual' = [actual EXCEPT ![e] = t]
  BY DEF Ir
<1>3. ASSUME NEW f \in Etapas \ {"NR"}, EnMano(f)'
      PROVE  \/ EnMano(f) /\ actual'[f] = actual[f]
             \/ \E u \in Trips : actual'[f] = u /\ Cargada(u)
  <2>1. CASE f = e
    BY <1>1, <1>2, <1>3, <2>1 DEF EnMano, ConTCB
  <2>2. CASE f # e
    BY <1>1, <1>2, <1>3, <2>2 DEF EnMano
  <2> QED BY <2>1, <2>2
<1> QED BY <1>3 DEF PasoManos

(* A stage that ends its turn holds nothing. *)
LEMMA ManosTerminar ==
  ASSUME Tipos, NEW e \in Etapas, NEW s, Terminar(e, s)
  PROVE  PasoManos
<1>1. lbl \in [Etapas -> Rotulos] /\ actual \in [Etapas -> TripsONada]
  BY DEF Tipos, AnilloOK, TipoAnillo
<1> QED BY <1>1 DEF Terminar, PasoManos, EnMano

(* list_remove adds nothing to a queue. *)
LEMMA SinUnoContiene ==
  ASSUME NEW S, NEW s \in Seq(S), NEW i \in 1..Len(s), NEW u, Contains(RemoveAt(s, i), u)
  PROVE  Contains(s, u)
<1>1. PICK j \in 1..(Len(s) - 1) : u = RemoveAt(s, i)[j]
  BY RemoveAtTipo DEF Contains
<1>2. u = s[IF j < i THEN j ELSE j + 1]
  BY <1>1, RemoveAtTipo
<1> QED BY <1>2 DEF Contains

(* Nor does taking out a tripulante it contains. *)
LEMMA QuitarContiene ==
  ASSUME NEW S, NEW s \in Seq(S), NEW t, Contains(s, t), NEW u, Contains(Quitar(s, t), u)
  PROVE  Contains(s, u)
BY IndiceEnRango, SinUnoContiene DEF Quitar

(* queue_push adds the one pushed. *)
LEMMA PonerContiene ==
  ASSUME NEW S, NEW s \in Seq(S), NEW t, NEW u, Contains(Append(s, t), u)
  PROVE  Contains(s, u) \/ u = t
BY DEF Contains

(* Popping adds nobody to a queue. *)
LEMMA ColasSacar ==
  ASSUME Tipos, NEW q \in Colas, NEW t, Contains(cola[q], t), Sacar(q, t)
  PROVE  PasoColas
<1>1. cola \in [Colas -> Seq(Trips)]
  BY DEF Tipos, TipoColas
<1>2. \A u : Contains(Quitar(cola[q], t), u) => Contains(cola[q], u)
  BY <1>1, QuitarContiene
<1> QED BY <1>1, <1>2 DEF Sacar, PasoColas, Esta, Trabajo, Colas

(* Pushing one with its task, or to a queue that is not of Trabajo. *)
LEMMA ColasPoner ==
  ASSUME Tipos, NEW q \in Colas, NEW t, q \in Trabajo => Cargada(t), Poner(q, t)
  PROVE  PasoColas
<1>1. cola \in [Colas -> Seq(Trips)]
  BY DEF Tipos, TipoColas
<1>2. \A u : Contains(Append(cola[q], t), u) => Contains(cola[q], u) \/ u = t
  BY <1>1, PonerContiene
<1> QED BY <1>1, <1>2 DEF Poner, PasoColas, Esta, Trabajo, Colas

(* Moving one of Trabajo to another queue. *)
LEMMA ColasMover ==
  ASSUME Tipos, NEW q \in Trabajo, NEW r \in Colas, NEW t, q # r, Contains(cola[q], t), Mover(q, r, t)
  PROVE  PasoColas
<1>1. cola \in [Colas -> Seq(Trips)] /\ q \in Colas
  BY DEF Tipos, TipoColas, Trabajo, Colas
<1>2. \A u : Contains(Quitar(cola[q], t), u) => Contains(cola[q], u)
  BY <1>1, QuitarContiene
<1>3. \A u : Contains(Append(cola[r], t), u) => Contains(cola[r], u) \/ u = t
  BY <1>1, PonerContiene
<1>4. /\ cola'[q] = Quitar(cola[q], t) /\ cola'[r] = Append(cola[r], t)
      /\ \A s \in Colas \ {q, r} : cola'[s] = cola[s]
  BY <1>1 DEF Mover
<1>5. ASSUME NEW s \in Trabajo, NEW u \in Trips, Contains(cola'[s], u)
      PROVE  \E w \in Trabajo : Contains(cola[w], u)
  <2>1. s \in Colas
    BY DEF Trabajo, Colas
  <2> QED BY <1>2, <1>3, <1>4, <1>5, <2>1
<1> QED BY <1>5 DEF PasoColas, Esta

(* pedirProximaTarea: a TCB with a task has one after it, new or the same.  *)
LEMMA ProximaCargada ==
  ASSUME NEW r \in TCB, NEW t \in Trips, r.tarea \in DOMAIN TareasDe(t)
  PROVE  Proxima(r, t).tarea \in DOMAIN TareasDe(t)
<1>1. TareasDe(t) \in Seq(Tarea) /\ r.tarea \in Nat
  BY TareasTipo DEF TCB
<1> QED BY <1>1 DEF Proxima, TCB

(* A cell walked, a cycle counted or marked: the task is the same. *)
LEMMA MismaTarea ==
  ASSUME NEW r \in TCB, NEW p, NEW n
  PROVE  Paso(r, p).tarea = r.tarea /\ Preemptar(r, n).tarea = r.tarea
BY DEF TCB, Paso, Preemptar

(* One TCB changes, and it has a task; so it does after the change. *)
LEMMA TCBCargado ==
  ASSUME Tipos, NEW t \in Trips, NEW r, Cargada(t) => r.tarea \in DOMAIN TareasDe(t),
         r.est = "R" => tcb[t].est = "R" \/ r.tarea \in DOMAIN TareasDe(t),
         tcb' = [tcb EXCEPT ![t] = r]
  PROVE  PasoTCB
BY DEF Tipos, TipoTCB, PasoTCB, Cargada

-----------------------------------------------------------------------------
(* Each component keeps CargadaOK *)

(* New->Ready: the first task, and the push by status. *)
LEMMA CargadaNewReady ==
  ASSUME Tipos, CargadaOK, NewReady PROVE CargadaOK'
<1>1. CASE NR_Entra
  <2>1. PasoManos
    BY <1>1, ManosIr, ManosTerminar DEF NR_Entra, Etapas, ConTCB
  <2> QED BY <1>1, <2>1, CargadaQuieta, ConservaCargada DEF NR_Entra, barrera
<1>2. CASE NR_IniciarPatota
  <2>1. PasoManos
    BY <1>2, ManosIr, CargadaQuieta DEF NR_IniciarPatota, Etapas, ConTCB
  <2> QED BY <1>2, <2>1, CargadaQuieta, ConservaCargada DEF NR_IniciarPatota, barrera
<1>3. CASE NR_PrimeraTarea
  <2>1. PasoManos
    BY <1>3, ManosIr DEF NR_PrimeraTarea, Etapas, ConTCB
  <2>2. PasoTCB
    <3> DEFINE t == actual["NR"]
               r == IF TareasDe(t) # <<>>
                      THEN [tcb[t] EXCEPT !.tarea = 1, !.instr = TareasDe(t)[1], !.est = "R"]
                      ELSE [tcb[t] EXCEPT !.est = "X"]
    <3>1. tcb' = [tcb EXCEPT ![t] = r]
      BY <1>3 DEF NR_PrimeraTarea
    <3>2. CASE t \in Trips
      <4>1. tcb[t] \in TCB /\ (TareasDe(t) # <<>> => 1 \in DOMAIN TareasDe(t))
        BY <3>2, TareasTipo DEF Tipos, TipoTCB
      <4>2. (TareasDe(t) # <<>> => r.tarea = 1) /\ (TareasDe(t) = <<>> => r.tarea = tcb[t].tarea /\ r.est = "X")
        BY <4>1 DEF TCB
      <4> HIDE DEF r
      <4> QED BY <3>1, <3>2, <4>1, <4>2, TCBCargado DEF Cargada
    <3>3. CASE t \notin Trips
      <4> HIDE DEF r, t
      <4>1. tcb' = tcb
        BY <3>1, <3>3 DEF Tipos, TipoTCB
      <4> QED BY <4>1, CargadaQuieta
    <3> QED BY <3>2, <3>3
  <2> QED BY <1>3, <2>1, <2>2, CargadaQuieta, ConservaCargada DEF NR_PrimeraTarea, barrera
<1>4. CASE NR_SinPatotas
  <2>1. PasoManos
    BY <1>4, ManosIr DEF NR_SinPatotas, Etapas, ConTCB
  <2> QED BY <1>4, <2>1, CargadaQuieta, ConservaCargada DEF NR_SinPatotas, barrera
<1>5. CASE NR_Sacar
  <2>1. cola["new"] # <<>> => Contains(cola["new"], Head(cola["new"])) /\ Head(cola["new"]) \in Trips
    BY ToSetTipo DEF Tipos, TipoColas, Colas
  <2>2. PasoManos
    BY <1>5, ManosIr DEF NR_Sacar, Etapas, ConTCB
  <2>3. PasoColas
    BY <1>5, <2>1, ColasSacar DEF NR_Sacar, Colas
  <2> QED BY <1>5, <2>1, <2>2, <2>3, CargadaQuieta, ConservaCargada DEF NR_Sacar, barrera
<1>6. CASE NR_Poner
  <2>1. PasoManos
    BY <1>6, ManosIr DEF NR_Poner, Etapas, ConTCB
  <2>2. actual["NR"] \in Trips
    BY <1>6 DEF NR_Poner, En, Tipos, AnilloOK, ConTCB, Etapas
  <2>3. PasoColas
    BY <1>6, <2>2, ColasPoner DEF NR_Poner, DestinoNew, CargadaOK, Colas,
       Trabajo
  <2> QED BY <1>6, <2>1, <2>2, <2>3, CargadaQuieta, ConservaCargada DEF NR_Poner, barrera
<1>7. CASE NR_Fin
  <2>1. PasoManos
    BY <1>7, ManosIr, ManosTerminar DEF NR_Fin, Etapas, ConTCB
  <2> QED BY <1>7, <2>1, CargadaQuieta, ConservaCargada DEF NR_Fin, barrera
<1> QED BY <1>1, <1>2, <1>3, <1>4, <1>5, <1>6, <1>7 DEF NewReady

(* The passes over exec move TCBs that were in it. *)
LEMMA CargadaRecorreExec ==
  ASSUME Tipos, CargadaOK, NEW e \in Recorridos, RecorreExec(e) PROVE CargadaOK'
<1>1. CASE Recorrer(e)
  <2>1. PasoManos
    BY <1>1, ManosIr, ManosTerminar DEF Recorrer, Etapas, ConTCB, Recorridos
  <2> QED BY <1>1, <2>1, CargadaQuieta, ConservaCargada DEF Recorrer, barrera
<1>2. CASE Visitar(e)
  <2>1. e \in Etapas /\ Proximo[e] \in Etapas
    BY DEF Recorridos, Etapas, Proximo
  <2>2. PasoManos
    BY <1>2, <2>1, ManosIr, ManosTerminar DEF Visitar, Avanzar, ConTCB
  <2>3. PasoColas
    <3>1. CASE UNCHANGED cola
      BY <3>1, CargadaQuieta
    <3>2. CASE Mover("exec", Destino[e], actual[e])
      BY <1>2, <3>2, ColasMover DEF Visitar, Esta, Recorridos, Destino, Trabajo, Colas
    <3> QED BY <1>2, <3>1, <3>2 DEF Visitar
  <2> QED BY <1>2, <2>1, <2>2, <2>3, CargadaQuieta, ConservaCargada DEF Visitar, barrera
<1>3. CASE VisitarLiberado(e)
  <2> QED BY <1>3, CargadaQuieta, ConservaCargada DEF VisitarLiberado, barrera
<1> QED BY <1>1, <1>2, <1>3 DEF RecorreExec

(* Ready->Exec: from ready, through the hand, to exec. *)
LEMMA CargadaReadyExec ==
  ASSUME Tipos, CargadaOK, ReadyExec PROVE CargadaOK'
<1>1. CASE RE_Entra
  <2>1. PasoManos
    BY <1>1, ManosIr DEF RE_Entra, Etapas, ConTCB
  <2> QED BY <1>1, <2>1, CargadaQuieta, ConservaCargada DEF RE_Entra, barrera
<1>2. CASE RE_Sacar
  <2>1. cola["ready"] # <<>> => Contains(cola["ready"], Head(cola["ready"])) /\ Head(cola["ready"]) \in Trips
    BY ToSetTipo DEF Tipos, TipoColas, Colas
  <2>2. Head(cola["ready"]) \in Trips /\ Cargada(Head(cola["ready"]))
    BY <1>2, <2>1 DEF RE_Sacar, HayLugar, CargadaOK, Trabajo, Esta
  <2>3. PasoManos
    BY <1>2, ManosIr, <2>2 DEF RE_Sacar, Etapas, ConTCB
  <2>4. PasoColas
    BY <1>2, <2>1, ColasSacar DEF RE_Sacar, HayLugar, Colas
  <2> QED BY <1>2, <2>1, <2>2, <2>3, <2>4, CargadaQuieta, ConservaCargada DEF RE_Sacar,
         barrera
<1>3. CASE RE_Poner
  <2>1. actual["RE"] \in Trips /\ Cargada(actual["RE"])
    BY <1>3 DEF RE_Poner, En, Tipos, AnilloOK, ConTCB, CargadaOK, EnMano,
       Etapas
  <2>2. PasoManos
    BY <1>3, ManosIr DEF RE_Poner, Etapas, ConTCB
  <2>3. PasoColas
    BY <1>3, <2>1, ColasPoner DEF RE_Poner, Colas
  <2>4. PasoTCB
    <3>1. tcb[actual["RE"]] \in TCB
      BY <2>1 DEF Tipos, TipoTCB
    <3>2. [tcb[actual["RE"]] EXCEPT !.est = "E"].tarea = tcb[actual["RE"]].tarea
      BY <3>1 DEF TCB
    <3> QED BY <1>3, <2>1, <3>2, TCBCargado DEF RE_Poner, Cargada
  <2> QED BY <1>3, <2>1, <2>2, <2>3, <2>4, CargadaQuieta, ConservaCargada DEF RE_Poner,
         barrera
<1>4. CASE RE_Lleno
  <2>1. PasoManos
    BY <1>4, ManosIr DEF RE_Lleno, Etapas, ConTCB
  <2> QED BY <1>4, <2>1, CargadaQuieta, ConservaCargada DEF RE_Lleno, barrera
<1>5. CASE RE_Contar
  <2>1. PasoManos
    BY <1>5, ManosIr, ManosTerminar DEF RE_Contar, Etapas, ConTCB
  <2> QED BY <1>5, <2>1, CargadaQuieta, ConservaCargada DEF RE_Contar, barrera
<1>6. CASE RE_Empezar
  <2>1. PasoManos
    BY <1>6, ManosIr DEF RE_Empezar, Etapas, ConTCB
  <2> QED BY <1>6, <2>1, CargadaQuieta, ConservaCargada DEF RE_Empezar, barrera
<1>7. CASE RE_Avisar
  <2>1. PasoManos
    BY <1>7, ManosIr DEF RE_Avisar, Etapas, ConTCB
  <2> QED BY <1>7, <2>1, CargadaQuieta, ConservaCargada DEF RE_Avisar, barrera
<1>8. CASE VisitarLiberado("RE")
  <2> QED BY <1>8, CargadaQuieta, ConservaCargada DEF VisitarLiberado, barrera
<1> QED BY <1>1, <1>2, <1>3, <1>4, <1>5, <1>6, <1>7, <1>8 DEF ReadyExec

(* Bloqueado por IO: the next task of the one popped. *)
LEMMA CargadaBloqIO ==
  ASSUME Tipos, CargadaOK, BloqIO PROVE CargadaOK'
<1>1. CASE BIO_Entra
  <2>1. PasoManos
    BY <1>1, ManosIr DEF BIO_Entra, Etapas, ConTCB
  <2> QED BY <1>1, <2>1, CargadaQuieta, ConservaCargada DEF BIO_Entra, barrera
<1>2. CASE BIO_Contar
  <2>1. cola["bio"] # <<>> => Contains(cola["bio"], Head(cola["bio"])) /\ Head(cola["bio"]) \in Trips /\ Cargada(Head(cola["bio"]))
    BY ToSetTipo DEF Tipos, TipoColas, Colas, CargadaOK, Trabajo, Esta
  <2>2. PasoManos
    BY <1>2, <2>1, ManosIr, CargadaQuieta DEF BIO_Contar, Etapas, anillo, ConTCB
  <2>3. PasoColas
    BY <1>2, <2>1, ColasSacar, CargadaQuieta DEF BIO_Contar, Colas
  <2>4. PasoTCB
    <3> DEFINE t == actual["BLOCKIO"]
               dura == tcb[t].instr.t
               n == IF tcb[t].tIO # dura THEN tcb[t].tIO + 1 ELSE tcb[t].tIO
               medio == [tcb EXCEPT ![t].tIO = n]
    <3>1. \A u \in Trips : tcb'[u].tarea = tcb[u].tarea /\ tcb'[u].est = tcb[u].est
      <4>1. \/ tcb' = tcb \/ tcb' = medio
            \/ cola["bio"] # <<>> /\ tcb' = [medio EXCEPT ![Head(cola["bio"])].tIO = 0]
        BY <1>2 DEF BIO_Contar
      <4>2. medio \in [Trips -> TCB]
        <5>1. n \in Nat \/ t \notin Trips
          BY DEF Tipos, TipoTCB, TCB
        <5> HIDE DEF n
        <5> QED BY <5>1 DEF Tipos, TipoTCB, TCB
      <4>3. \A u \in Trips : medio[u].tarea = tcb[u].tarea /\ medio[u].est = tcb[u].est
        <5> HIDE DEF n
        <5> QED BY DEF Tipos, TipoTCB, TCB
      <4> HIDE DEF medio
      <4>4. CASE cola["bio"] # <<>> /\ tcb' = [medio EXCEPT ![Head(cola["bio"])].tIO = 0]
        BY <2>1, <4>2, <4>3, <4>4 DEF TCB
      <4> QED BY <4>1, <4>3, <4>4
    <3> QED BY <3>1 DEF PasoTCB, Cargada
  <2> QED BY <1>2, <2>1, <2>2, <2>3, <2>4, CargadaQuieta, ConservaCargada DEF BIO_Contar,
         barrera
<1>3. CASE BIO_Pedir
  <2>1. actual["BLOCKIO"] \in Trips /\ Cargada(actual["BLOCKIO"])
    BY <1>3 DEF BIO_Pedir, En, Tipos, AnilloOK, ConTCB, CargadaOK, EnMano,
       Etapas
  <2>2. PasoManos
    BY <1>3, ManosIr DEF BIO_Pedir, Etapas, ConTCB
  <2>3. PasoTCB
    <3> DEFINE t == actual["BLOCKIO"]
               r == Proxima(tcb[t], t)
               s == [r EXCEPT !.est = "R"]
    <3>1. r \in TCB /\ r.tarea \in DOMAIN TareasDe(t)
      BY <2>1, ProximaTipo, ProximaCargada DEF Tipos, TipoTCB, Cargada
    <3>2. s.tarea = r.tarea
      BY <3>1 DEF TCB
    <3>3. tcb' = [tcb EXCEPT ![t] = s] \/ tcb' = [tcb EXCEPT ![t] = r]
      BY <1>3 DEF BIO_Pedir
    <3> HIDE DEF r, s
    <3> QED BY <2>1, <3>1, <3>2, <3>3, TCBCargado
  <2>4. PasoColas
    BY <1>3, <2>1, ColasPoner, CargadaQuieta DEF BIO_Pedir, Colas
  <2> QED BY <1>3, <2>1, <2>2, <2>3, <2>4, CargadaQuieta, ConservaCargada DEF BIO_Pedir,
         barrera
<1>4. CASE BIO_Salir
  <2>1. PasoManos
    BY <1>4, ManosIr, ManosTerminar DEF BIO_Salir, Etapas, ConTCB
  <2> QED BY <1>4, <2>1, CargadaQuieta, ConservaCargada DEF BIO_Salir, barrera
<1> QED BY <1>1, <1>2, <1>3, <1>4 DEF BloqIO

(* To bloqueado por emergencia, and the fixer back to Ready or out of it. *)
LEMMA CargadaAEmergencia ==
  ASSUME Tipos, CargadaOK, AEmergencia PROVE CargadaOK'
<1>1. CASE ERM_Entra
  <2>1. PasoManos
    BY <1>1, ManosIr, ManosTerminar DEF ERM_Entra, Etapas, ConTCB
  <2> QED BY <1>1, <2>1, CargadaQuieta, ConservaCargada DEF ERM_Entra, barrera
<1>2. CASE ERM_SacarFixer
  <2>1. \A q \in {"exec", "ready"} : cola[q] # <<>> =>
       Contains(cola[q], Head(cola[q])) /\ Head(cola[q]) \in Trips /\ Cargada(Head(cola[q]))
    BY ToSetTipo DEF Tipos, TipoColas, Colas, CargadaOK, Trabajo, Esta
  <2>2. PasoManos
    BY <1>2, <2>1, ManosIr, CargadaQuieta DEF ERM_SacarFixer, Etapas, anillo
  <2>3. PasoColas
    BY <1>2, <2>1, ColasSacar, CargadaQuieta DEF ERM_SacarFixer, Colas
  <2> QED BY <1>2, <2>1, <2>2, <2>3, CargadaQuieta, ConservaCargada DEF ERM_SacarFixer,
         barrera
<1>3. CASE ERM_Restaurar
  <2>1. actual["ERM"] \in Trips /\ Cargada(actual["ERM"])
    BY <1>3 DEF ERM_Restaurar, En, Tipos, AnilloOK, ConTCB, CargadaOK, EnMano,
       Etapas
  <2>2. PasoManos
    BY <1>3, ManosTerminar, CargadaQuieta DEF ERM_Restaurar, Etapas, anillo
  <2>3. PasoColas
    BY <1>3, <2>1, ColasPoner, CargadaQuieta DEF ERM_Restaurar, Colas
  <2>4. PasoTCB
    <3> DEFINE t == actual["ERM"]
               c == Head(ctx)
               r == [tcb[t] EXCEPT !.est = "M", !.vivo = c.vivo, !.tExec = c.tExec, !.tIO = c.tIO,
                                   !.ciclos = c.ciclos, !.instr = c.instr]
    <3>1. tcb[t] \in TCB
      BY <2>1 DEF Tipos, TipoTCB
    <3>2. r.tarea = tcb[t].tarea
      BY <3>1 DEF TCB
    <3>3. tcb' = [tcb EXCEPT ![t] = r] \/ tcb' = tcb
      BY <1>3 DEF ERM_Restaurar
    <3> HIDE DEF r
    <3> QED BY <2>1, <3>2, <3>3, TCBCargado, CargadaQuieta DEF Cargada
  <2> QED BY <1>3, <2>1, <2>2, <2>3, <2>4, CargadaQuieta, ConservaCargada DEF ERM_Restaurar,
         barrera
<1>4. CASE ERM_Sacar
  <2>1. PorVaciar \in {"exec", "ready"} /\ MinTid(ToSet(cola[PorVaciar])) \in Trips
     /\ Contains(cola[PorVaciar], MinTid(ToSet(cola[PorVaciar])))
    <3>1. PorVaciar \in {"exec", "ready"} /\ cola[PorVaciar] \in Seq(Trips) /\ cola[PorVaciar] # <<>>
      BY <1>4 DEF ERM_Sacar, PorVaciar, Tipos, TipoColas, Colas
    <3>2. ToSet(cola[PorVaciar]) \subseteq Nat /\ ToSet(cola[PorVaciar]) # {}
      BY <3>1, ToSetTipo, ConstantesOK
    <3> QED BY <3>1, <3>2, MinTidPertenece, ToSetTipo, ContieneToSet
  <2>2. Cargada(MinTid(ToSet(cola[PorVaciar])))
    BY <2>1 DEF CargadaOK, Trabajo, Esta
  <2>3. PasoManos
    BY <1>4, ManosIr, <2>1, <2>2 DEF ERM_Sacar, Etapas, ConTCB
  <2>4. PasoColas
    BY <1>4, <2>1, ColasSacar DEF ERM_Sacar, Colas
  <2> QED BY <1>4, <2>1, <2>2, <2>3, <2>4, CargadaQuieta, ConservaCargada DEF ERM_Sacar,
         barrera
<1>5. CASE ERM_Poner
  <2>1. actual["ERM"] \in Trips /\ Cargada(actual["ERM"])
    BY <1>5 DEF ERM_Poner, En, Tipos, AnilloOK, ConTCB, CargadaOK, EnMano,
       Etapas
  <2>2. PasoManos
    BY <1>5, ManosIr DEF ERM_Poner, Etapas, ConTCB
  <2>3. PasoColas
    BY <1>5, <2>1, ColasPoner DEF ERM_Poner, Colas
  <2>4. PasoTCB
    <3>1. tcb[actual["ERM"]] \in TCB
      BY <2>1 DEF Tipos, TipoTCB
    <3>2. [tcb[actual["ERM"]] EXCEPT !.est = "M"].tarea = tcb[actual["ERM"]].tarea
      BY <3>1 DEF TCB
    <3> QED BY <1>5, <2>1, <3>2, TCBCargado DEF ERM_Poner, Cargada
  <2> QED BY <1>5, <2>1, <2>2, <2>3, <2>4, CargadaQuieta, ConservaCargada DEF ERM_Poner,
         barrera
<1>6. CASE ERM_Elegir
  <2>1. PasoManos
    BY <1>6, ManosTerminar, CargadaQuieta DEF ERM_Elegir, Etapas, anillo
  <2>2. PasoColas
    BY <1>6, ColasMover, CargadaQuieta DEF ERM_Elegir, Trabajo, Colas, Esta
  <2>3. PasoTCB
    <3> DEFINE f == Head(ordenados)
               r == [tcb[f] EXCEPT !.est = "R", !.ciclos = 0, !.tExec = 0, !.tIO = 0]
    <3>1. CASE UNCHANGED tcb
      BY <3>1, CargadaQuieta
    <3>2. CASE ordenados # <<>> /\ Esta("bem", f) /\ tcb' = [tcb EXCEPT ![f] = r]
      <4>1. f \in Trips /\ Cargada(f) /\ tcb[f] \in TCB
        BY <3>2, ElementoTipo DEF Tipos, TipoColas, TipoTCB, Colas, Esta, CargadaOK, Trabajo
      <4>2. r.tarea = tcb[f].tarea
        BY <4>1 DEF TCB
      <4> HIDE DEF f, r
      <4> QED BY <3>2, <4>1, <4>2, TCBCargado DEF Cargada
    <3> QED BY <1>6, <3>1, <3>2 DEF ERM_Elegir
  <2> QED BY <1>6, <2>1, <2>2, <2>3, CargadaQuieta, ConservaCargada DEF ERM_Elegir, barrera
<1> QED BY <1>1, <1>2, <1>3, <1>4, <1>5, <1>6 DEF AEmergencia

(* From bloqueado por emergencia back to Ready. *)
LEMMA CargadaAReady ==
  ASSUME Tipos, CargadaOK, AReady PROVE CargadaOK'
<1>1. CASE MR_Entra
  <2>1. PasoManos
    BY <1>1, ManosIr, ManosTerminar DEF MR_Entra, Etapas, ConTCB
  <2> QED BY <1>1, <2>1, CargadaQuieta, ConservaCargada DEF MR_Entra, barrera
<1>2. CASE MR_Sacar
  <2>1. cola["bem"] # <<>> => Contains(cola["bem"], Head(cola["bem"])) /\ Head(cola["bem"]) \in Trips
    BY ToSetTipo DEF Tipos, TipoColas, Colas
  <2>2. Head(cola["bem"]) \in Trips /\ Cargada(Head(cola["bem"]))
    BY <1>2, <2>1 DEF MR_Sacar, CargadaOK, Trabajo, Esta
  <2>3. PasoManos
    BY <1>2, ManosIr, <2>2 DEF MR_Sacar, Etapas, ConTCB
  <2>4. PasoColas
    BY <1>2, <2>1, ColasSacar DEF MR_Sacar, Colas
  <2> QED BY <1>2, <2>1, <2>2, <2>3, <2>4, CargadaQuieta, ConservaCargada DEF MR_Sacar,
         barrera
<1>3. CASE MR_Poner
  <2>1. actual["MR"] \in Trips /\ Cargada(actual["MR"])
    BY <1>3 DEF MR_Poner, En, Tipos, AnilloOK, ConTCB, CargadaOK, EnMano,
       Etapas
  <2>2. PasoManos
    BY <1>3, ManosIr DEF MR_Poner, Etapas, ConTCB
  <2>3. PasoColas
    BY <1>3, <2>1, ColasPoner DEF MR_Poner, Colas
  <2>4. PasoTCB
    <3>1. tcb[actual["MR"]] \in TCB
      BY <2>1 DEF Tipos, TipoTCB
    <3>2. [tcb[actual["MR"]] EXCEPT !.est = "R"].tarea = tcb[actual["MR"]].tarea
      BY <3>1 DEF TCB
    <3> QED BY <1>3, <2>1, <3>2, TCBCargado DEF MR_Poner, Cargada
  <2> QED BY <1>3, <2>1, <2>2, <2>3, <2>4, CargadaQuieta, ConservaCargada DEF MR_Poner,
         barrera
<1>4. CASE MR_Resolver
  <2>1. PasoManos
    BY <1>4, ManosIr, ManosTerminar DEF MR_Resolver, Etapas, ConTCB
  <2> QED BY <1>4, <2>1, CargadaQuieta, ConservaCargada DEF MR_Resolver, barrera
<1> QED BY <1>1, <1>2, <1>3, <1>4 DEF AReady

(* A thread acts on a TCB it found in exec, and asks for the task after. *)
LEMMA CargadaHilo ==
  ASSUME Tipos, CargadaOK, NEW t \in Trips, Hilo(t) PROVE CargadaOK'
<1>1. CASE Tomar(t)
  <2>1. PasoHilo
    BY <1>1 DEF Tomar, PasoHilo, Ejecuta, Sigue, Tipos, TipoBarrera
  <2>2. PasoManos
    BY <1>1, CargadaQuieta DEF Tomar
  <2>3. PasoTCB
    <3>1. \A u \in Trips : tcb'[u].tarea = tcb[u].tarea /\ tcb'[u].est = tcb[u].est
      BY <1>1 DEF Tomar, Tipos, TipoTCB, TCB
    <3> QED BY <3>1 DEF PasoTCB, Cargada
  <2> QED BY <1>1, <2>1, <2>2, <2>3, CargadaQuieta, ConservaCargada DEF Tomar, barrera
<1>2. CASE Actuar(t)
  <2>1. PasoHilo
    BY <1>2 DEF Actuar, PasoHilo, Ejecuta, Sigue, Tipos, TipoBarrera
  <2>2. /\ Cargada(t) /\ tcb[t] \in TCB /\ Cumplio(t) \in TCB /\ Cumplio(t).tarea = tcb[t].tarea
     /\ TipoTCB
    BY <1>2, CumplioTipo DEF Actuar, EnHilo, CargadaOK, Ejecuta, Tipos,
       TipoTCB, TCB, Cumplio
  <2>3. PasoTCB
    <3>1. CASE IrAlSabotaje(t)
      <4> DEFINE r == Preemptar(Paso(Cumplio(t), sab.pos), tcb[t].ciclos + 1)
      <4>1. Paso(Cumplio(t), sab.pos) \in TCB
        BY <2>2, PasoTipo DEF Tipos, TipoSabotaje, Sabotajes, Punto
      <4>2. r.tarea = tcb[t].tarea
        BY <2>2, <4>1, MismaTarea
      <4>3. tcb' = [tcb EXCEPT ![t] = r]
        BY <3>1 DEF IrAlSabotaje
      <4> HIDE DEF r
      <4> QED BY <2>2, <4>2, <4>3, TCBCargado DEF Cargada
    <3>2. CASE TareaNormal(t)
      <4> DEFINE i == tcb[t].instr
                 n == tcb[t].ciclos + 1
                 llego == EnPunto(tcb[t], i)
                 a == [Cumplio(t) EXCEPT !.tExec = 0, !.ini = FALSE]
                 b == [Cumplio(t) EXCEPT !.tExec = @ + 1, !.ini = TRUE]
                 r == IF tcb[t].tExec + 1 = i.t THEN Proxima(a, t) ELSE b
                 s == IF ~llego THEN Preemptar(Paso(Cumplio(t), i), n)
                      ELSE IF r.est = "X" THEN [r EXCEPT !.ciclos = n] ELSE Preemptar(r, n)
      <4>1. a \in TCB /\ b \in TCB /\ a.tarea = tcb[t].tarea /\ b.tarea = tcb[t].tarea
        <5>1. a \in TCB /\ b \in TCB
          BY <2>2, CicloTipo
        <5> QED BY <2>2, <5>1 DEF TCB
      <4>2. r \in TCB /\ r.tarea \in DOMAIN TareasDe(t)
        <5> HIDE DEF a, b
        <5> QED BY <2>2, <4>1, ProximaTipo, ProximaCargada DEF Cargada
      <4>3. Paso(Cumplio(t), i) \in TCB /\ Paso(Cumplio(t), i).tarea = tcb[t].tarea
        BY <2>2, PasoTipo, MismaTarea, CumplioTipo DEF Tarea
      <4>4. s.tarea \in DOMAIN TareasDe(t)
        <5> HIDE DEF r, i, n, llego
        <5>1. [r EXCEPT !.ciclos = n].tarea = r.tarea
          BY <4>2 DEF TCB
        <5>2. \A q \in TCB : Preemptar(q, n).tarea = q.tarea
          BY MismaTarea
        <5>3. tcb[t].tarea \in DOMAIN TareasDe(t)
          BY <2>2 DEF Cargada
        <5> QED BY <4>2, <4>3, <5>1, <5>2, <5>3
      <4>5. tcb' = [tcb EXCEPT ![t] = s]
        BY <3>2 DEF TareaNormal
      <4> HIDE DEF s
      <4> QED BY <4>4, <4>5, TCBCargado
    <3>3. CASE TareaIO(t)
      <4> DEFINE i == tcb[t].instr
                 a == [Paso(Cumplio(t), i) EXCEPT !.ciclos = @ + 1]
                 r == IF EnPunto(tcb[t], i) THEN Cumplio(t) ELSE a
                 b == [r EXCEPT !.est = "I", !.ciclos = 0]
                 s == IF EnPunto(r, i) THEN b ELSE Preemptar(r, r.ciclos)
      <4>1. Paso(Cumplio(t), i) \in TCB /\ Paso(Cumplio(t), i).tarea = tcb[t].tarea
        BY <2>2, PasoTipo, MismaTarea, CumplioTipo DEF Tarea
      <4>2. a \in TCB /\ a.tarea = tcb[t].tarea
        BY <4>1 DEF TCB
      <4>3. r \in TCB /\ r.tarea = tcb[t].tarea
        BY <2>2, <4>2
      <4>4. s.tarea = tcb[t].tarea
        <5> HIDE DEF r, i
        <5>1. b.tarea = r.tarea
          BY <4>3 DEF TCB
        <5> QED BY <4>3, <5>1, MismaTarea
      <4>5. tcb' = [tcb EXCEPT ![t] = s]
        BY <3>3 DEF TareaIO
      <4> HIDE DEF s
      <4> QED BY <2>2, <4>4, <4>5, TCBCargado DEF Cargada
    <3> QED BY <1>2, <3>1, <3>2, <3>3 DEF Actuar
  <2> QED BY <1>2, <2>1, <2>2, <2>3, CargadaQuieta, ConservaCargada DEF Actuar, barrera
<1>3. CASE LlegarAlSabotaje(t)
  <2>1. PasoHilo
    BY <1>3 DEF LlegarAlSabotaje, EnHilo, PasoHilo, Ejecuta, Tipos,
       TipoBarrera
  <2> QED BY <1>3, <2>1, CargadaQuieta, ConservaCargada DEF LlegarAlSabotaje, barrera
<1>4. CASE Reparar(t)
  <2>1. PasoHilo
    BY <1>4 DEF Reparar, PasoHilo, Ejecuta, Sigue, Tipos, TipoBarrera
  <2>2. /\ Cargada(t) /\ tcb[t] \in TCB /\ Cumplio(t) \in TCB /\ Cumplio(t).tarea = tcb[t].tarea
    BY <1>4, CumplioTipo DEF Reparar, EnHilo, CargadaOK, Ejecuta, Tipos,
       TipoTCB, TCB, Cumplio
  <2>3. PasoTCB
    <3> DEFINE r == Preemptar(Cumplio(t), tcb[t].ciclos + 1)
    <3>1. r.tarea = tcb[t].tarea
      BY <2>2, MismaTarea
    <3>2. tcb' = [tcb EXCEPT ![t] = r]
      BY <1>4 DEF Reparar
    <3> HIDE DEF r
    <3> QED BY <2>2, <3>1, <3>2, TCBCargado DEF Cargada
  <2> QED BY <1>4, <2>1, <2>2, <2>3, CargadaQuieta, ConservaCargada DEF Reparar, barrera
<1>5. CASE Signal(t)
  <2>1. PasoHilo
    BY <1>5 DEF Signal, PasoHilo, Ejecuta, Tipos, TipoBarrera
  <2>2. PasoManos
    BY <1>5 DEF Signal, PasoManos, EnMano
  <2> QED BY <1>5, <2>1, <2>2, CargadaQuieta, ConservaCargada DEF Signal, barrera
<1> QED BY <1>1, <1>2, <1>3, <1>4, <1>5 DEF Hilo

(* A stage takes its semaphore; Exit closes the cycle. *)
LEMMA CargadaEtapas ==
  ASSUME Tipos, CargadaOK, NEW e \in Etapas, TomarPausar \/ Despertar(e) \/ EXIT_Cerrar PROVE CargadaOK'
<1>1. CASE TomarPausar
  <2>1. PasoManos
    BY <1>1 DEF TomarPausar, PasoManos, EnMano, Etapas, Tipos, AnilloOK,
       TipoAnillo
  <2> QED BY <1>1, <2>1, CargadaQuieta, ConservaCargada DEF TomarPausar, barrera
<1>2. CASE Despertar(e)
  <2>1. PasoManos
    BY <1>2 DEF Despertar, PasoManos, EnMano, Etapas, Tipos, AnilloOK,
       TipoAnillo
  <2> QED BY <1>2, <2>1, CargadaQuieta, ConservaCargada DEF Despertar, barrera
<1>3. CASE EXIT_Cerrar
  <2>1. PasoManos
    BY <1>3 DEF EXIT_Cerrar, PasoManos, EnMano, Etapas, Tipos, AnilloOK,
       TipoAnillo
  <2>2. PasoTCB
    <3> DEFINE v(t) == tcb[t].vivo /\ ~(viva /\ cola["exit"] # <<>> /\ Esta("exit", t))
               u(t) == tcb[t].cumplido /\ ~(viva /\ t \in EnColas(Activas \ {"new"}))
    <3>1. tcb' = [t \in Trips |-> [tcb[t] EXCEPT !.vivo = v(t), !.cumplido = u(t)]]
      BY <1>3 DEF EXIT_Cerrar
    <3> HIDE DEF v, u
    <3>2. \A t \in Trips : tcb'[t].tarea = tcb[t].tarea /\ tcb'[t].est = tcb[t].est
      BY <3>1 DEF Tipos, TipoTCB, TCB
    <3> QED BY <3>2 DEF PasoTCB, Cargada
  <2> QED BY <1>3, <2>1, <2>2, CargadaQuieta, ConservaCargada DEF EXIT_Cerrar, barrera
<1> QED BY <1>1, <1>2, <1>3

(* The console and the sabotage server: only PAT_New and the expulsions touch a *)
(* TCB or a queue. *)
LEMMA CargadaConsola ==
  ASSUME Tipos, CargadaOK, SAB_Activar \/ SAB_Datos \/ FuncionConsola PROVE CargadaOK'
<1>1. CASE SAB_Activar \/ SAB_Datos
  <2>1. UNCHANGED <<anillo, hilo, cola, tcb>>
    BY <1>1 DEF SAB_Activar, SAB_Datos, barrera
  <2> QED BY <1>1, <2>1, CargadaQuieta, ConservaCargada
<1>2. CASE IniciarPlanificacion \/ PausarPlanificacion
  <2>1. UNCHANGED <<lbl, actual, hilo, cola, tcb>>
    BY <1>2 DEF IniciarPlanificacion, PausarPlanificacion, INI_Pausar,
       INI_Turno, PAU_Pedir, PAU_Tomar, barrera, anillo
  <2>2. PasoManos
    BY <1>2, <2>1 DEF PasoManos, EnMano
  <2> QED BY <1>2, <2>1, <2>2, CargadaQuieta, ConservaCargada
<1>3. CASE PAT_Crear \/ PAT_Listar
  <2>1. UNCHANGED <<anillo, hilo, cola, tcb>>
    BY <1>3 DEF PAT_Crear, PAT_Listar, barrera
  <2> QED BY <1>3, <2>1, CargadaQuieta, ConservaCargada
<1>4. CASE PAT_New
  <2>1. cons.t \in Trips
    BY <1>4 DEF PAT_New, Consola, EnConsola, Tipos, ConsolaOK, ConTripulante
  <2>2. PasoColas
    BY <1>4, ColasPoner DEF PAT_New, Colas, Trabajo
  <2>3. PasoTCB
    <3>1. \A u \in Trips : tcb'[u].tarea = tcb[u].tarea /\ tcb'[u].est = tcb[u].est
      BY <1>4 DEF PAT_New, Tipos, TipoTCB, TCB
    <3> QED BY <3>1 DEF PasoTCB, Cargada
  <2> QED BY <1>4, <2>1, <2>2, <2>3, CargadaQuieta, ConservaCargada DEF PAT_New, barrera
<1>5. CASE PAT_Hilo
  <2>1. PasoHilo
    BY <1>5 DEF PAT_Hilo, PasoHilo, Ejecuta, Tipos, TipoBarrera
  <2> QED BY <1>5, <2>1, CargadaQuieta, ConservaCargada DEF PAT_Hilo, barrera
<1>6. CASE (\E t \in Trips : EXP_RAM(t)) \/ EXP_Estado \/ EXP_Extraido \/ EXP_Patota
  <2>1. UNCHANGED <<anillo, hilo, cola, tcb>>
    BY <1>6 DEF EXP_RAM, EXP_Estado, EXP_Extraido, EXP_Patota, barrera
  <2> QED BY <1>6, <2>1, CargadaQuieta, ConservaCargada
<1>7. CASE EXP_Buscar
  <2>1. PasoTCB
    <3>1. \A u \in Trips : tcb'[u].tarea = tcb[u].tarea /\ (tcb'[u].est = tcb[u].est \/ tcb'[u].est = "X")
      BY <1>7 DEF EXP_Buscar, Tipos, TipoTCB, TCB
    <3> QED BY <3>1 DEF PasoTCB, Cargada
  <2> QED BY <1>7, <2>1, CargadaQuieta, ConservaCargada DEF EXP_Buscar, barrera
<1>8. CASE EXP_Extraer
  <2>1. PasoColas
    <3> DEFINE q == cola[cons.cola]
    <3>1. CASE cola' = cola
      BY <3>1, CargadaQuieta
    <3>2. CASE /\ cons.i <= Len(q)
               /\ cola' = [[cola EXCEPT ![cons.cola] = RemoveAt(@, cons.i)]
                            EXCEPT !["exit"] = Append(@, q[cons.i])]
      <4>1. /\ cola \in [Colas -> Seq(Trips)] /\ cons.cola \in Colas
            /\ cons.i \in 1..Len(q) /\ q \in Seq(Trips)
        BY <1>8, <3>2 DEF EXP_Extraer, EnConsola, Tipos, TipoColas, ConsolaOK, TipoConsola, Comandos
      <4>2. \A u : Contains(RemoveAt(q, cons.i), u) => Contains(q, u)
        BY <4>1, SinUnoContiene
      <4>3. \A s \in Trabajo : cola'[s] = cola[s] \/ (s = cons.cola /\ cola'[s] = RemoveAt(q, cons.i))
        <5>1. "exit" \in Colas /\ "exit" \notin Trabajo /\ Trabajo \subseteq Colas
          BY DEF Trabajo, Colas
        <5> HIDE DEF q
        <5>2. CASE cons.cola = "exit"
          BY <3>2, <4>1, <5>1, <5>2
        <5>3. CASE cons.cola # "exit"
          BY <3>2, <4>1, <5>1, <5>3 DEF q
        <5> QED BY <5>2, <5>3
      <4> HIDE DEF q
      <4> QED BY <4>1, <4>2, <4>3 DEF PasoColas, Esta, q
    <3> QED BY <1>8, <3>1, <3>2 DEF EXP_Extraer
  <2> QED BY <1>8, <2>1, CargadaQuieta, ConservaCargada DEF EXP_Extraer, barrera
<1> QED BY <1>1, <1>2, <1>3, <1>4, <1>5, <1>6, <1>7, <1>8 DEF FuncionConsola,
       IniciarPatota, ExpulsarTripulante, SeguirExpulsion
-----------------------------------------------------------------------------
(* Every action of the program, stuttering included, keeps CargadaOK. *)
LEMMA CargadaNext ==
  ASSUME Tipos, CargadaOK, [Next]_vars PROVE CargadaOK'
<1>1. CASE UNCHANGED vars
  BY <1>1, CargadaQuieta, ConservaCargada DEF vars, barrera
<1>2. CASE Next
  <2>1. CASE TomarPausar \/ EXIT_Cerrar
    <3>1. "NR" \in Etapas
      BY DEF Etapas
    <3> QED BY <2>1, <3>1, CargadaEtapas
  <2>2. ASSUME NEW e \in Etapas, Despertar(e) PROVE CargadaOK'
    BY <2>2, CargadaEtapas
  <2>3. CASE NewReady
    BY <2>3, CargadaNewReady
  <2>4. ASSUME NEW e \in Recorridos, RecorreExec(e) PROVE CargadaOK'
    BY <2>4, CargadaRecorreExec
  <2>5. CASE ReadyExec
    BY <2>5, CargadaReadyExec
  <2>6. CASE BloqIO
    BY <2>6, CargadaBloqIO
  <2>7. CASE AEmergencia
    BY <2>7, CargadaAEmergencia
  <2>8. CASE AReady
    BY <2>8, CargadaAReady
  <2>9. ASSUME NEW t \in Trips, Hilo(t) PROVE CargadaOK'
    BY <2>9, CargadaHilo
  <2>10. CASE SAB_Activar \/ SAB_Datos \/ FuncionConsola
    BY <2>10, CargadaConsola
  <2> QED BY <1>2, <2>1, <2>2, <2>3, <2>4, <2>5, <2>6, <2>7, <2>8, <2>9, <2>10 DEF Next
<1> QED BY <1>1, <1>2

(* At the start every queue is empty, and nobody is in 'R'. *)
LEMMA CargadaInit == Init => CargadaOK
<1> SUFFICES ASSUME Init PROVE CargadaOK
  OBVIOUS
<1>1. \A t \in Trips : tcb[t].est = "N" /\ hilo[t] = "nada"
  BY DEF Init
<1>2. \A q \in Trabajo : \A t \in Trips : ~Esta(q, t)
  BY DEF Init, Trabajo, Colas, Esta, Contains
<1>3. \A e \in Etapas : ~EnMano(e)
  BY DEF Init, EnMano
<1> QED BY <1>1, <1>2, <1>3 DEF CargadaOK, Ejecuta

(* For every value of the constants: whoever is in Ready, Exec, BloqIO or   *)
(* BloqEmer, in the hand of a stage, or acting, has received a task.        *)
THEOREM TareaSiempreCargada == Spec => []TareaCargada
<1>1. Tipos /\ CargadaOK /\ [Next]_vars => CargadaOK'
  BY CargadaNext
<1>2. Tipos /\ CargadaOK => TareaCargada
  <2> SUFFICES ASSUME Tipos, CargadaOK PROVE TareaCargada
    OBVIOUS
  <2>1. ASSUME NEW t \in EnColas(Trabajo) PROVE Cargada(t)
    <3>1. PICK q \in Trabajo : t \in ToSet(cola[q])
      BY DEF EnColas
    <3>2. cola[q] \in Seq(Trips)
      BY DEF Tipos, TipoColas, Trabajo, Colas
    <3>3. t \in Trips /\ Contains(cola[q], t)
      BY <3>1, <3>2, ContieneToSet, ElementoTipo
    <3> QED BY <3>3 DEF CargadaOK, Esta
  <2> QED BY <2>1 DEF TareaCargada, CargadaOK, Trabajo, Ejecuta
<1> QED BY CargadaInit, TiposInvariante, <1>1, <1>2, PTL DEF Spec

-----------------------------------------------------------------------------
(* The places and the turn *)

Lugares == Colas \cup Etapas
Ocupa(l, t) == IF l \in Colas THEN Esta(l, t) ELSE EnMano(l) /\ actual[l] = t

NoRepite(s) == \A i, j \in 1..Len(s) : s[i] = s[j] => i = j
SinRepetir == \A q \in Colas : NoRepite(cola[q])
Unico == \A t \in Trips : \A k, l \in Lugares : Ocupa(k, t) /\ Ocupa(l, t) => k = l

(* A tripulante that INICIAR_PATOTA has not pushed to New yet. *)
PorNacer(t) ==
  \/ PatotaDe[t] \notin listaPCB
  \/ /\ (cons.pc = "new" /\ t >= cons.t) \/ (cons.pc = "hilo" /\ t > cons.t)
     /\ PatotaDe[t] = PatotaDe[cons.t]
Nacidos ==
  /\ \A t \in Trips, l \in Lugares : Ocupa(l, t) => ~PorNacer(t)
  /\ cons.pc = "pcb" => PatotaDe[cons.t] \notin listaPCB
  /\ cons.pc \in {"new", "hilo"} => PatotaDe[cons.t] \in listaPCB

LugarOK == SinRepetir /\ Unico /\ Nacidos

(* What a step may do: nothing, but for one tripulante that goes from the   *)
(* place it has to another; and the console, to whom it gives birth.        *)
Muda(t, de, a) == \A l \in Lugares, u \in Trips :
  Ocupa(l, u)' => \/ u = t /\ l = a
                  \/ Ocupa(l, u) /\ ~(u = t /\ l = de)
NadieMuda == \A l \in Lugares, u \in Trips : Ocupa(l, u)' => Ocupa(l, u)
PasoLugar == NadieMuda \/ \E t \in Trips, de, a \in Lugares : Ocupa(de, t) /\ Muda(t, de, a)
PasoConsola ==
  /\ listaPCB' = listaPCB
  /\ cons' = cons \/ cons'.pc \notin {"pcb", "new", "hilo"}

-----------------------------------------------------------------------------
(* Lemmas on the queues and the hands *)

(* list_remove of a list without repetitions: the one taken out is gone. *)
LEMMA SinUno ==
  ASSUME NEW S, NEW s \in Seq(S), NoRepite(s),
         NEW k \in 1..Len(s)
  PROVE  /\ NoRepite(RemoveAt(s, k))
         /\ \A u : Contains(RemoveAt(s, k), u) => Contains(s, u) /\ u # s[k]
<1> DEFINE r == RemoveAt(s, k)
<1>1. /\ r \in Seq(S) /\ Len(r) = Len(s) - 1
      /\ \A j \in 1..(Len(s) - 1) : r[j] = s[IF j < k THEN j ELSE j + 1]
  BY RemoveAtTipo
<1> HIDE DEF r
<1>2. \A j \in 1..(Len(s) - 1) : (IF j < k THEN j ELSE j + 1) \in 1..Len(s)
  OBVIOUS
<1>3. ASSUME NEW i \in 1..Len(r), NEW j \in 1..Len(r), r[i] = r[j] PROVE i = j
  <2>1. (IF i < k THEN i ELSE i + 1) = (IF j < k THEN j ELSE j + 1)
    BY <1>1, <1>2, <1>3 DEF NoRepite
  <2> QED BY <1>1, <2>1
<1>4. ASSUME NEW u, Contains(r, u) PROVE Contains(s, u) /\ u # s[k]
  <2>1. PICK j \in 1..(Len(s) - 1) : u = r[j]
    BY <1>1, <1>4 DEF Contains
  <2>2. u = s[IF j < k THEN j ELSE j + 1]
    BY <1>1, <2>1
  <2> QED BY <1>2, <2>1, <2>2 DEF Contains, NoRepite
<1> QED BY <1>3, <1>4 DEF r, NoRepite

(* The same of a tripulante the list contains. *)
LEMMA SinEl ==
  ASSUME NEW S, NEW s \in Seq(S), NoRepite(s),
         NEW t, Contains(s, t)
  PROVE  /\ NoRepite(Quitar(s, t))
         /\ \A u : Contains(Quitar(s, t), u) => Contains(s, u) /\ u # t
BY IndiceEnRango, SinUno DEF Quitar

(* queue_push of one that is not in the queue. *)
LEMMA ConUno ==
  ASSUME NEW S, NEW s \in Seq(S), NEW t, t \in S
  PROVE  /\ \A u : Contains(Append(s, t), u) => Contains(s, u) \/ u = t
         /\ NoRepite(s) /\ ~Contains(s, t) =>
              NoRepite(Append(s, t))
BY DEF Contains, NoRepite

(* A stage never is a queue. *)
LEMMA LugaresDistintos == Colas \cap Etapas = {}
BY DEF Colas, Etapas

(* No hand takes anything. *)
NoToma == \A e \in Etapas : EnMano(e)' => EnMano(e) /\ actual'[e] = actual[e]

(* A stage that goes to a point where it has nothing at hand. *)
LEMMA NoTomaIr ==
  ASSUME Tipos, NEW e \in Etapas, NEW l, l \notin ConTCB, NEW t, Ir(e, l, t)
  PROVE  NoToma /\ ~EnMano(e)'
BY DEF Tipos, AnilloOK, TipoAnillo, Ir, NoToma, EnMano, ConTCB

(* A stage that ends its turn. *)
LEMMA NoTomaTerminar ==
  ASSUME Tipos, NEW e \in Etapas, NEW s, Terminar(e, s)
  PROVE  NoToma /\ ~EnMano(e)'
BY DEF Tipos, AnilloOK, TipoAnillo, Terminar, NoToma, EnMano

(* A step that leaves the ring alone. *)
LEMMA NoTomaQuieto == UNCHANGED <<lbl, actual>> => NoToma
BY DEF NoToma, EnMano

-----------------------------------------------------------------------------
(* Lemmas on the parts of a step *)

(* A step as above keeps every TCB in one place, and the unborn in none. *)
LEMMA Conserva ==
  ASSUME Tipos, LugarOK, SinRepetir', PasoLugar, PasoConsola
  PROVE  LugarOK'
<1>1. Unico'
  <2>1. CASE NadieMuda
    BY <2>1 DEF NadieMuda, Unico, LugarOK
  <2>2. ASSUME NEW t \in Trips, NEW de \in Lugares, NEW a \in Lugares, Ocupa(de, t), Muda(t, de, a)
        PROVE  Unico'
    BY <2>2 DEF Muda, Unico, LugarOK
  <2> QED BY <2>1, <2>2 DEF PasoLugar
<1>2. ASSUME NEW t \in Trips, NEW l \in Lugares, Ocupa(l, t)' PROVE \E k \in Lugares : Ocupa(k, t)
  BY <1>2 DEF PasoLugar, NadieMuda, Muda
<1>3. Nacidos'
  <2>1. ASSUME NEW t \in Trips, NEW l \in Lugares, Ocupa(l, t)' PROVE ~PorNacer(t)'
    <3>1. ~PorNacer(t)
      BY <1>2, <2>1 DEF Nacidos, LugarOK
    <3> QED BY <3>1 DEF PasoConsola, PorNacer
  <2>2. /\ cons'.pc = "pcb" => PatotaDe[cons'.t] \notin listaPCB'
        /\ cons'.pc \in {"new", "hilo"} => PatotaDe[cons'.t] \in listaPCB'
    BY DEF PasoConsola, Nacidos, LugarOK
  <2> QED BY <2>1, <2>2 DEF Nacidos
<1> QED BY <1>1, <1>3 DEF LugarOK

(* The queues are left alone and no hand takes anything. *)
LEMMA Quieto ==
  ASSUME LugarOK, UNCHANGED cola, NoToma
  PROVE  SinRepetir' /\ PasoLugar
<1>1. SinRepetir'
  BY DEF LugarOK, SinRepetir
<1>2. NadieMuda
  BY DEF NadieMuda, NoToma, Ocupa, Esta, Lugares
<1> QED BY <1>1, <1>2 DEF PasoLugar

(* A stage pops a TCB: from a queue to its hand. *)
LEMMA Toma ==
  ASSUME Tipos, LugarOK, NEW e \in Etapas, NEW q \in Colas, NEW t, NEW l, Esta(q, t),
         ~EnMano(e), Sacar(q, t), Ir(e, l, t)
  PROVE  SinRepetir' /\ PasoLugar
<1>1. cola \in [Colas -> Seq(Trips)] /\ t \in Trips
  BY ElementoTipo DEF Tipos, TipoColas, Esta
<1>2. cola' = [cola EXCEPT ![q] = Quitar(cola[q], t)]
  BY <1>1 DEF Sacar
<1>3. NoRepite(cola[q])
  BY DEF LugarOK, SinRepetir
<1>4. /\ NoRepite(Quitar(cola[q], t))
      /\ \A u : Contains(Quitar(cola[q], t), u) => Contains(cola[q], u) /\ u # t
  BY <1>1, <1>3, SinEl DEF Esta
<1>5. SinRepetir'
  BY <1>1, <1>2, <1>4 DEF LugarOK, SinRepetir
<1>6. \A f \in Etapas : EnMano(f)' => (actual'[f] = t /\ f = e) \/ (EnMano(f) /\ actual'[f] = actual[f])
  <2>1. lbl \in [Etapas -> Rotulos] /\ actual \in [Etapas -> TripsONada]
    BY DEF Tipos, AnilloOK, TipoAnillo
  <2>2. lbl' = [lbl EXCEPT ![e] = l] /\ actual' = [actual EXCEPT ![e] = t]
    BY DEF Ir
  <2>3. ASSUME NEW f \in Etapas, EnMano(f)'
        PROVE  (actual'[f] = t /\ f = e) \/ (EnMano(f) /\ actual'[f] = actual[f])
    <3>1. CASE f = e
      BY <2>1, <2>2, <3>1
    <3>2. CASE f # e
      BY <2>1, <2>2, <2>3, <3>2 DEF EnMano
    <3> QED BY <3>1, <3>2
  <2> QED BY <2>3
<1>7. ASSUME NEW k \in Lugares, NEW u \in Trips, Ocupa(k, u)'
      PROVE  (u = t /\ k = e) \/ (Ocupa(k, u) /\ ~(u = t /\ k = q))
  <2>1. CASE k \in Colas
    BY <1>1, <1>2, <1>4, <1>7, <2>1 DEF Ocupa, Esta
  <2>2. CASE k \in Etapas
    BY <1>6, <1>7, <2>2, LugaresDistintos DEF Ocupa
  <2> QED BY <2>1, <2>2 DEF Lugares
<1>8. q \in Lugares /\ e \in Lugares /\ Ocupa(q, t)
  BY DEF Lugares, Ocupa
<1> QED BY <1>1, <1>5, <1>7, <1>8 DEF PasoLugar, Muda

(* A stage pushes the TCB it has: from its hand to a queue. *)
LEMMA Deja ==
  ASSUME Tipos, LugarOK, NEW e \in Etapas, NEW q \in Colas, EnMano(e), Poner(q, actual[e]),
         NoToma, ~EnMano(e)'
  PROVE  SinRepetir' /\ PasoLugar
<1> DEFINE t == actual[e]
<1>1. cola \in [Colas -> Seq(Trips)] /\ t \in Trips
  BY DEF Tipos, TipoColas, AnilloOK, EnMano, ConTCB
<1>2. cola' = [cola EXCEPT ![q] = Append(cola[q], t)]
  BY <1>1 DEF Poner
<1>3. q \in Lugares /\ e \in Lugares /\ Ocupa(e, t) /\ q # e
  BY LugaresDistintos DEF Lugares, Ocupa
<1>4. ~Contains(cola[q], t)
  BY <1>1, <1>3 DEF LugarOK, Unico, Ocupa, Esta
<1>5. /\ \A u : Contains(Append(cola[q], t), u) => Contains(cola[q], u) \/ u = t
      /\ NoRepite(Append(cola[q], t))
  <2>1. NoRepite(cola[q])
    BY DEF LugarOK, SinRepetir
  <2> HIDE DEF t
  <2> QED BY <1>1, <1>4, <2>1, ConUno
<1>6. SinRepetir'
  BY <1>1, <1>2, <1>5 DEF LugarOK, SinRepetir
<1>7. ASSUME NEW k \in Lugares, NEW u \in Trips, Ocupa(k, u)'
      PROVE  (u = t /\ k = q) \/ (Ocupa(k, u) /\ ~(u = t /\ k = e))
  <2>1. CASE k \in Colas
    BY <1>1, <1>2, <1>5, <1>7, <2>1, LugaresDistintos DEF Ocupa, Esta
  <2>2. CASE k \in Etapas
    BY <1>7, <2>2, LugaresDistintos DEF Ocupa, NoToma
  <2> QED BY <2>1, <2>2 DEF Lugares
<1> QED BY <1>1, <1>3, <1>6, <1>7 DEF PasoLugar, Muda

(* From a queue to another one, no hand between them; what is appended is    *)
(* what was taken out of the position k.                                    *)
LEMMA Mueve ==
  ASSUME Tipos, LugarOK, NEW q \in Colas, NEW r \in Colas, NEW k \in 1..Len(cola[q]), NoToma,
         \A p \in Colas : cola'[p] =
           IF p = r THEN Append(IF q = r THEN RemoveAt(cola[q], k) ELSE cola[r], cola[q][k])
           ELSE IF p = q THEN RemoveAt(cola[q], k) ELSE cola[p]
  PROVE  SinRepetir' /\ PasoLugar
<1> DEFINE t == cola[q][k]
           s == RemoveAt(cola[q], k)
<1>1. cola \in [Colas -> Seq(Trips)] /\ t \in Trips /\ Contains(cola[q], t) /\ s \in Seq(Trips)
  <2>1. cola \in [Colas -> Seq(Trips)] /\ cola[q] \in Seq(Trips)
    BY DEF Tipos, TipoColas
  <2>2. s \in Seq(Trips)
    BY <2>1, RemoveAtTipo
  <2> QED BY <2>1, <2>2 DEF Contains
<1>2. \A p \in Colas : NoRepite(cola[p])
  BY DEF LugarOK, SinRepetir
<1>3. /\ NoRepite(s)
      /\ \A u : Contains(s, u) => Contains(cola[q], u) /\ u # t
  BY <1>1, <1>2, SinUno
<1>4. \A p \in Colas \ {q} : ~Contains(cola[p], t)
  BY <1>1 DEF LugarOK, Unico, Ocupa, Esta, Lugares
<1> HIDE DEF t, s
<1>5. \A p \in Colas : cola'[p] = IF p = r THEN Append(IF q = r THEN s ELSE cola[r], t)
                                  ELSE IF p = q THEN s ELSE cola[p]
  BY <1>1 DEF s, t
<1> DEFINE base == IF q = r THEN s ELSE cola[r]
<1>6. base \in Seq(Trips) /\ ~Contains(base, t)
      /\ NoRepite(base)
  BY <1>1, <1>2, <1>3, <1>4
<1>7. /\ \A u : Contains(Append(base, t), u) => Contains(base, u) \/ u = t
      /\ NoRepite(Append(base, t))
  <2> HIDE DEF base
  <2> QED BY <1>1, <1>6, ConUno
<1>8. SinRepetir'
  <2>1. ASSUME NEW p \in Colas PROVE NoRepite(cola'[p])
    <3>1. CASE p = r
      <4>1. cola'[p] = Append(base, t)
        BY <1>5, <3>1
      <4> HIDE DEF base
      <4> QED BY <1>7, <4>1
    <3>2. CASE p # r /\ p = q
      <4>1. cola'[p] = s
        BY <1>5, <3>2
      <4> QED BY <1>3, <4>1
    <3>3. CASE p # r /\ p # q
      <4>1. cola'[p] = cola[p]
        BY <1>5, <3>3
      <4> QED BY <1>2, <4>1
    <3> QED BY <3>1, <3>2, <3>3
  <2> QED BY <2>1 DEF SinRepetir
<1>9. ASSUME NEW l \in Lugares, NEW u \in Trips, Ocupa(l, u)'
      PROVE  (u = t /\ l = r) \/ (Ocupa(l, u) /\ ~(u = t /\ l = q))
  <2>1. CASE l \in Colas
    <3>1. Contains(cola'[l], u)
      BY <1>9, <2>1 DEF Ocupa, Esta
    <3>2. (u = t /\ l = r) \/ (Contains(cola[l], u) /\ ~(u = t /\ l = q))
      <4>1. CASE l = r
        <5>1. Contains(base, u) \/ u = t
          <6>1. cola'[l] = Append(base, t)
            BY <1>5, <4>1
          <6> HIDE DEF base
          <6> QED BY <1>7, <3>1, <6>1
        <5> QED BY <1>3, <1>4, <4>1, <5>1
      <4>2. CASE l # r /\ l = q
        <5>1. cola'[l] = s
          BY <1>5, <4>2
        <5> QED BY <1>3, <3>1, <4>2, <5>1
      <4>3. CASE l # r /\ l # q
        <5>1. cola'[l] = cola[l]
          BY <1>5, <2>1, <4>3
        <5> QED BY <3>1, <4>3, <5>1
      <4> QED BY <4>1, <4>2, <4>3
    <3> QED BY <2>1, <3>2 DEF Ocupa, Esta
  <2>2. CASE l \in Etapas
    BY <1>9, <2>2, LugaresDistintos DEF Ocupa, NoToma
  <2> QED BY <2>1, <2>2 DEF Lugares
<1>10. q \in Lugares /\ r \in Lugares /\ Ocupa(q, t)
  BY <1>1 DEF Lugares, Ocupa, Esta
<1> QED BY <1>1, <1>8, <1>9, <1>10 DEF PasoLugar, Muda

(* The Mover of the stages is one of those. *)
LEMMA MueveEl ==
  ASSUME Tipos, LugarOK, NEW q \in Colas, NEW r \in Colas, q # r, NEW t, Esta(q, t), NoToma,
         Mover(q, r, t)
  PROVE  SinRepetir' /\ PasoLugar
<1>1. Indice(cola[q], t) \in 1..Len(cola[q]) /\ cola[q][Indice(cola[q], t)] = t
      /\ cola \in [Colas -> Seq(Trips)]
  BY IndiceEnRango DEF Tipos, TipoColas, Esta
<1>2. \A p \in Colas : cola'[p] =
        IF p = r THEN Append(IF q = r THEN RemoveAt(cola[q], Indice(cola[q], t)) ELSE cola[r],
                             cola[q][Indice(cola[q], t)])
        ELSE IF p = q THEN RemoveAt(cola[q], Indice(cola[q], t)) ELSE cola[p]
  BY <1>1 DEF Mover, Quitar
<1> QED BY <1>1, <1>2, Mueve

-----------------------------------------------------------------------------
(* Each component keeps LugarOK *)

(* New->Ready. *)
LEMMA LugarNewReady ==
  ASSUME Tipos, LugarOK, NewReady PROVE LugarOK'
<1>1. CASE NR_Entra
  <2>1. NoToma
    BY <1>1, NoTomaIr, NoTomaTerminar, NoTomaQuieto DEF NR_Entra, ConTCB,
       Etapas, anillo
  <2>2. SinRepetir' /\ PasoLugar
    BY <1>1, <2>1, Quieto DEF NR_Entra
  <2> QED BY <1>1, <2>2, Conserva DEF NR_Entra, PasoConsola, consola, patotas
<1>2. CASE NR_IniciarPatota
  <2>1. NoToma
    BY <1>2, NoTomaIr, NoTomaTerminar, NoTomaQuieto DEF NR_IniciarPatota,
       ConTCB, Etapas, anillo
  <2>2. SinRepetir' /\ PasoLugar
    BY <1>2, <2>1, Quieto DEF NR_IniciarPatota
  <2> QED BY <1>2, <2>2, Conserva DEF NR_IniciarPatota, PasoConsola, consola,
         patotas
<1>3. CASE NR_PrimeraTarea
  <2>1. NoToma
    BY <1>3, NoTomaIr, NoTomaTerminar, NoTomaQuieto DEF NR_PrimeraTarea,
       ConTCB, Etapas, anillo
  <2>2. SinRepetir' /\ PasoLugar
    BY <1>3, <2>1, Quieto DEF NR_PrimeraTarea
  <2> QED BY <1>3, <2>2, Conserva DEF NR_PrimeraTarea, PasoConsola, consola,
         patotas
<1>4. CASE NR_SinPatotas
  <2>1. NoToma
    BY <1>4, NoTomaIr, NoTomaTerminar, NoTomaQuieto DEF NR_SinPatotas, ConTCB,
       Etapas, anillo
  <2>2. SinRepetir' /\ PasoLugar
    BY <1>4, <2>1, Quieto DEF NR_SinPatotas
  <2> QED BY <1>4, <2>2, Conserva DEF NR_SinPatotas, PasoConsola, consola,
         patotas
<1>5. CASE NR_Sacar
  <2>1. cola["new"] # <<>> => Esta("new", Head(cola["new"]))
    BY ToSetTipo DEF Tipos, TipoColas, Colas, Esta
  <2>2. "NR" \in Etapas /\ ~EnMano("NR")
    BY <1>5 DEF NR_Sacar, En, EnMano, Etapas
  <2>3. SinRepetir' /\ PasoLugar
    BY <1>5, <2>1, <2>2, Toma DEF NR_Sacar, Colas, HayLugar
  <2> QED BY <1>5, <2>3, Conserva DEF NR_Sacar, PasoConsola, consola, patotas
<1>6. CASE NR_Poner
  <2>1. "NR" \in Etapas /\ EnMano("NR")
    BY <1>6 DEF NR_Poner, En, EnMano, Etapas
  <2>2. NoToma /\ ~EnMano("NR")'
    BY <1>6, <2>1, NoTomaIr DEF NR_Poner, ConTCB
  <2>3. SinRepetir' /\ PasoLugar
    BY <1>6, <2>1, <2>2, Deja DEF NR_Poner, Colas, DestinoNew
  <2> QED BY <1>6, <2>3, Conserva DEF NR_Poner, PasoConsola, consola, patotas
<1>7. CASE NR_Fin
  <2>1. NoToma
    BY <1>7, NoTomaIr, NoTomaTerminar, NoTomaQuieto DEF NR_Fin, ConTCB,
       Etapas, anillo
  <2>2. SinRepetir' /\ PasoLugar
    BY <1>7, <2>1, Quieto DEF NR_Fin
  <2> QED BY <1>7, <2>2, Conserva DEF NR_Fin, PasoConsola, consola, patotas
 <1> QED BY <1>1, <1>2, <1>3, <1>4, <1>5, <1>6, <1>7 DEF NewReady

(* The passes over exec move from it. *)
LEMMA LugarRecorreExec ==
  ASSUME Tipos, LugarOK, NEW e \in Recorridos, RecorreExec(e) PROVE LugarOK'
<1>1. CASE Recorrer(e)
  <2>1. e \in Etapas
    BY DEF Recorridos, Etapas
  <2>2. NoToma
    BY <1>1, <2>1, NoTomaIr, NoTomaTerminar DEF Recorrer, ConTCB
  <2>3. SinRepetir' /\ PasoLugar
    BY <1>1, <2>2, Quieto DEF Recorrer
  <2> QED BY <1>1, <2>3, Conserva DEF Recorrer, PasoConsola, consola, patotas
<1>2. CASE Visitar(e)
  <2>1. e \in Etapas
    BY DEF Recorridos, Etapas
  <2>2. NoToma
    BY <1>2, <2>1, NoTomaIr, NoTomaTerminar DEF Visitar, Avanzar, ConTCB
  <2>3. SinRepetir' /\ PasoLugar
    BY <1>2, <2>2, Quieto, MueveEl DEF Visitar, Recorridos, Destino, Colas
  <2> QED BY <1>2, <2>3, Conserva DEF Visitar, PasoConsola, consola, patotas
<1>3. CASE VisitarLiberado(e)
  <2>1. NoToma
    BY <1>3, NoTomaQuieto DEF VisitarLiberado, anillo
  <2>2. SinRepetir' /\ PasoLugar
    BY <1>3, <2>1, Quieto DEF VisitarLiberado
  <2> QED BY <1>3, <2>2, Conserva DEF VisitarLiberado, PasoConsola, consola,
         patotas
 <1> QED BY <1>1, <1>2, <1>3 DEF RecorreExec

(* Ready->Exec. *)
LEMMA LugarReadyExec ==
  ASSUME Tipos, LugarOK, ReadyExec PROVE LugarOK'
<1>1. CASE RE_Entra
  <2>1. NoToma
    BY <1>1, NoTomaIr, NoTomaTerminar, NoTomaQuieto DEF RE_Entra, ConTCB,
       Etapas, anillo
  <2>2. SinRepetir' /\ PasoLugar
    BY <1>1, <2>1, Quieto DEF RE_Entra
  <2> QED BY <1>1, <2>2, Conserva DEF RE_Entra, PasoConsola, consola, patotas
<1>2. CASE RE_Sacar
  <2>1. cola["ready"] # <<>> => Esta("ready", Head(cola["ready"]))
    BY ToSetTipo DEF Tipos, TipoColas, Colas, Esta
  <2>2. "RE" \in Etapas /\ ~EnMano("RE")
    BY <1>2 DEF RE_Sacar, En, EnMano, Etapas
  <2>3. SinRepetir' /\ PasoLugar
    BY <1>2, <2>1, <2>2, Toma DEF RE_Sacar, Colas, HayLugar
  <2> QED BY <1>2, <2>3, Conserva DEF RE_Sacar, PasoConsola, consola, patotas
<1>3. CASE RE_Poner
  <2>1. "RE" \in Etapas /\ EnMano("RE")
    BY <1>3 DEF RE_Poner, En, EnMano, Etapas
  <2>2. NoToma /\ ~EnMano("RE")'
    BY <1>3, <2>1, NoTomaIr DEF RE_Poner, ConTCB
  <2>3. SinRepetir' /\ PasoLugar
    BY <1>3, <2>1, <2>2, Deja DEF RE_Poner, Colas
  <2> QED BY <1>3, <2>3, Conserva DEF RE_Poner, PasoConsola, consola, patotas
<1>4. CASE RE_Lleno
  <2>1. NoToma
    BY <1>4, NoTomaIr, NoTomaTerminar, NoTomaQuieto DEF RE_Lleno, ConTCB,
       Etapas, anillo
  <2>2. SinRepetir' /\ PasoLugar
    BY <1>4, <2>1, Quieto DEF RE_Lleno
  <2> QED BY <1>4, <2>2, Conserva DEF RE_Lleno, PasoConsola, consola, patotas
<1>5. CASE RE_Contar
  <2>1. NoToma
    BY <1>5, NoTomaIr, NoTomaTerminar, NoTomaQuieto DEF RE_Contar, ConTCB,
       Etapas, anillo
  <2>2. SinRepetir' /\ PasoLugar
    BY <1>5, <2>1, Quieto DEF RE_Contar
  <2> QED BY <1>5, <2>2, Conserva DEF RE_Contar, PasoConsola, consola, patotas
<1>6. CASE RE_Empezar
  <2>1. NoToma
    BY <1>6, NoTomaIr, NoTomaTerminar, NoTomaQuieto DEF RE_Empezar, ConTCB,
       Etapas, anillo
  <2>2. SinRepetir' /\ PasoLugar
    BY <1>6, <2>1, Quieto DEF RE_Empezar
  <2> QED BY <1>6, <2>2, Conserva DEF RE_Empezar, PasoConsola, consola,
         patotas
<1>7. CASE RE_Avisar
  <2>1. NoToma
    BY <1>7, NoTomaIr, NoTomaTerminar, NoTomaQuieto DEF RE_Avisar, ConTCB,
       Etapas, anillo
  <2>2. SinRepetir' /\ PasoLugar
    BY <1>7, <2>1, Quieto DEF RE_Avisar
  <2> QED BY <1>7, <2>2, Conserva DEF RE_Avisar, PasoConsola, consola, patotas
<1>8. CASE VisitarLiberado("RE")
  <2>1. NoToma
    BY <1>8, NoTomaQuieto DEF VisitarLiberado, anillo
  <2>2. SinRepetir' /\ PasoLugar
    BY <1>8, <2>1, Quieto DEF VisitarLiberado
  <2> QED BY <1>8, <2>2, Conserva DEF VisitarLiberado, PasoConsola, consola,
         patotas
 <1> QED BY <1>1, <1>2, <1>3, <1>4, <1>5, <1>6, <1>7, <1>8 DEF ReadyExec

(* Bloqueado por IO: what is left out of every queue is in none. *)
LEMMA LugarBloqIO ==
  ASSUME Tipos, LugarOK, BloqIO PROVE LugarOK'
<1>1. CASE BIO_Entra
  <2>1. NoToma
    BY <1>1, NoTomaIr, NoTomaTerminar, NoTomaQuieto DEF BIO_Entra, ConTCB,
       Etapas, anillo
  <2>2. SinRepetir' /\ PasoLugar
    BY <1>1, <2>1, Quieto DEF BIO_Entra
  <2> QED BY <1>1, <2>2, Conserva DEF BIO_Entra, PasoConsola, consola, patotas
<1>2. CASE BIO_Contar
  <2>1. cola["bio"] # <<>> => Esta("bio", Head(cola["bio"]))
    BY ToSetTipo DEF Tipos, TipoColas, Colas, Esta
  <2>2. "BLOCKIO" \in Etapas /\ ~EnMano("BLOCKIO")
    BY <1>2 DEF BIO_Contar, En, EnMano, Etapas
  <2>3. SinRepetir' /\ PasoLugar
    <3>1. CASE cola["bio"] # <<>> /\ Ir("BLOCKIO", "pedir", Head(cola["bio"])) /\ Sacar("bio", Head(cola["bio"]))
      BY <2>1, <2>2, <3>1, Toma DEF Colas
    <3>2. CASE Ir("BLOCKIO", "salir", Nadie) /\ UNCHANGED cola
      BY <2>2, <3>2, NoTomaIr, Quieto DEF ConTCB
    <3>3. CASE UNCHANGED <<anillo, cola>>
      BY <3>3, NoTomaQuieto, Quieto DEF anillo
    <3> QED BY <1>2, <3>1, <3>2, <3>3 DEF BIO_Contar
  <2> QED BY <1>2, <2>3, Conserva DEF BIO_Contar, PasoConsola, consola,
         patotas
<1>3. CASE BIO_Pedir
  <2>1. "BLOCKIO" \in Etapas /\ EnMano("BLOCKIO")
    BY <1>3 DEF BIO_Pedir, En, EnMano, Etapas
  <2>2. NoToma /\ ~EnMano("BLOCKIO")'
    BY <1>3, <2>1, NoTomaIr DEF BIO_Pedir, ConTCB
  <2>3. SinRepetir' /\ PasoLugar
    BY <1>3, <2>1, <2>2, Deja, Quieto DEF BIO_Pedir, Colas
  <2> QED BY <1>3, <2>3, Conserva DEF BIO_Pedir, PasoConsola, consola, patotas
<1>4. CASE BIO_Salir
  <2>1. NoToma
    BY <1>4, NoTomaIr, NoTomaTerminar, NoTomaQuieto DEF BIO_Salir, ConTCB,
       Etapas, anillo
  <2>2. SinRepetir' /\ PasoLugar
    BY <1>4, <2>1, Quieto DEF BIO_Salir
  <2> QED BY <1>4, <2>2, Conserva DEF BIO_Salir, PasoConsola, consola, patotas
 <1> QED BY <1>1, <1>2, <1>3, <1>4 DEF BloqIO

(* To bloqueado por emergencia. *)
LEMMA LugarAEmergencia ==
  ASSUME Tipos, LugarOK, AEmergencia PROVE LugarOK'
<1>1. CASE ERM_Entra
  <2>1. NoToma
    BY <1>1, NoTomaIr, NoTomaTerminar, NoTomaQuieto DEF ERM_Entra, ConTCB,
       Etapas, anillo
  <2>2. SinRepetir' /\ PasoLugar
    BY <1>1, <2>1, Quieto DEF ERM_Entra
  <2> QED BY <1>1, <2>2, Conserva DEF ERM_Entra, PasoConsola, consola, patotas
<1>2. CASE ERM_SacarFixer
  <2>1. \A q \in {"exec", "ready"} : cola[q] # <<>> => Esta(q, Head(cola[q]))
    BY ToSetTipo DEF Tipos, TipoColas, Colas, Esta
  <2>2. "ERM" \in Etapas /\ ~EnMano("ERM")
    BY <1>2 DEF ERM_SacarFixer, En, EnMano, Etapas
  <2>3. SinRepetir' /\ PasoLugar
    BY <1>2, <2>1, <2>2, Toma, NoTomaQuieto, Quieto DEF ERM_SacarFixer, Colas,
       anillo
  <2> QED BY <1>2, <2>3, Conserva DEF ERM_SacarFixer, PasoConsola, consola,
         patotas
<1>3. CASE ERM_Restaurar
  <2>1. "ERM" \in Etapas /\ EnMano("ERM")
    BY <1>3 DEF ERM_Restaurar, En, EnMano, Etapas
  <2>2. SinRepetir' /\ PasoLugar
    <3>1. CASE Poner("bem", actual["ERM"]) /\ Terminar("ERM", "MR")
      BY <2>1, <3>1, NoTomaTerminar, Deja DEF Colas
    <3>2. CASE UNCHANGED <<anillo, cola>>
      BY <3>2, NoTomaQuieto, Quieto DEF anillo
    <3> QED BY <1>3, <3>1, <3>2 DEF ERM_Restaurar
  <2> QED BY <1>3, <2>2, Conserva DEF ERM_Restaurar, PasoConsola, consola,
         patotas
<1>4. CASE ERM_Sacar
  <2>1. PorVaciar \in Colas /\ Esta(PorVaciar, MinTid(ToSet(cola[PorVaciar])))
    <3>1. PorVaciar \in Colas /\ cola[PorVaciar] \in Seq(Trips) /\ cola[PorVaciar] # <<>>
      BY <1>4 DEF ERM_Sacar, PorVaciar, Tipos, TipoColas, Colas
    <3>2. ToSet(cola[PorVaciar]) \subseteq Nat /\ ToSet(cola[PorVaciar]) # {}
      BY <3>1, ToSetTipo, ConstantesOK
    <3> QED BY <3>1, <3>2, MinTidPertenece, ToSetTipo, ContieneToSet DEF Esta
  <2>2. "ERM" \in Etapas /\ ~EnMano("ERM")
    BY <1>4 DEF ERM_Sacar, En, EnMano, Etapas
  <2>3. SinRepetir' /\ PasoLugar
    BY <1>4, <2>1, <2>2, Toma DEF ERM_Sacar, Colas, HayLugar
  <2> QED BY <1>4, <2>3, Conserva DEF ERM_Sacar, PasoConsola, consola, patotas
<1>5. CASE ERM_Poner
  <2>1. "ERM" \in Etapas /\ EnMano("ERM")
    BY <1>5 DEF ERM_Poner, En, EnMano, Etapas
  <2>2. NoToma /\ ~EnMano("ERM")'
    BY <1>5, <2>1, NoTomaIr DEF ERM_Poner, ConTCB
  <2>3. SinRepetir' /\ PasoLugar
    BY <1>5, <2>1, <2>2, Deja DEF ERM_Poner, Colas
  <2> QED BY <1>5, <2>3, Conserva DEF ERM_Poner, PasoConsola, consola, patotas
<1>6. CASE ERM_Elegir
  <2>1. NoToma
    BY <1>6, NoTomaTerminar, NoTomaQuieto DEF ERM_Elegir, Etapas, anillo
  <2>2. SinRepetir' /\ PasoLugar
    BY <1>6, <2>1, Quieto, MueveEl DEF ERM_Elegir, Colas
  <2> QED BY <1>6, <2>2, Conserva DEF ERM_Elegir, PasoConsola, consola,
         patotas
 <1> QED BY <1>1, <1>2, <1>3, <1>4, <1>5, <1>6 DEF AEmergencia

(* From bloqueado por emergencia back to Ready. *)
LEMMA LugarAReady ==
  ASSUME Tipos, LugarOK, AReady PROVE LugarOK'
<1>1. CASE MR_Entra
  <2>1. NoToma
    BY <1>1, NoTomaIr, NoTomaTerminar, NoTomaQuieto DEF MR_Entra, ConTCB,
       Etapas, anillo
  <2>2. SinRepetir' /\ PasoLugar
    BY <1>1, <2>1, Quieto DEF MR_Entra
  <2> QED BY <1>1, <2>2, Conserva DEF MR_Entra, PasoConsola, consola, patotas
<1>2. CASE MR_Sacar
  <2>1. cola["bem"] # <<>> => Esta("bem", Head(cola["bem"]))
    BY ToSetTipo DEF Tipos, TipoColas, Colas, Esta
  <2>2. "MR" \in Etapas /\ ~EnMano("MR")
    BY <1>2 DEF MR_Sacar, En, EnMano, Etapas
  <2>3. SinRepetir' /\ PasoLugar
    BY <1>2, <2>1, <2>2, Toma DEF MR_Sacar, Colas, HayLugar
  <2> QED BY <1>2, <2>3, Conserva DEF MR_Sacar, PasoConsola, consola, patotas
<1>3. CASE MR_Poner
  <2>1. "MR" \in Etapas /\ EnMano("MR")
    BY <1>3 DEF MR_Poner, En, EnMano, Etapas
  <2>2. NoToma /\ ~EnMano("MR")'
    BY <1>3, <2>1, NoTomaIr DEF MR_Poner, ConTCB
  <2>3. SinRepetir' /\ PasoLugar
    BY <1>3, <2>1, <2>2, Deja DEF MR_Poner, Colas
  <2> QED BY <1>3, <2>3, Conserva DEF MR_Poner, PasoConsola, consola, patotas
<1>4. CASE MR_Resolver
  <2>1. NoToma
    BY <1>4, NoTomaIr, NoTomaTerminar, NoTomaQuieto DEF MR_Resolver, ConTCB,
       Etapas, anillo
  <2>2. SinRepetir' /\ PasoLugar
    BY <1>4, <2>1, Quieto DEF MR_Resolver
  <2> QED BY <1>4, <2>2, Conserva DEF MR_Resolver, PasoConsola, consola,
         patotas
 <1> QED BY <1>1, <1>2, <1>3, <1>4 DEF AReady

(* Who takes its semaphore, or closes the cycle, takes no TCB. *)
LEMMA LugarAnillo ==
  ASSUME Tipos, LugarOK, NEW e \in Etapas, TomarPausar \/ Despertar(e) \/ EXIT_Cerrar PROVE LugarOK'
<1>1. CASE TomarPausar
  <2>1. NoToma
    BY <1>1 DEF TomarPausar, NoToma, EnMano, Etapas, Tipos, AnilloOK,
       TipoAnillo
  <2>2. SinRepetir' /\ PasoLugar
    BY <1>1, <2>1, Quieto DEF TomarPausar, NoToma, EnMano, Etapas, Tipos,
       AnilloOK, TipoAnillo
  <2> QED BY <1>1, <2>2, Conserva DEF TomarPausar, PasoConsola, consola,
         patotas
<1>2. CASE Despertar(e)
  <2>1. NoToma
    BY <1>2 DEF Despertar, NoToma, EnMano, Etapas, Tipos, AnilloOK, TipoAnillo
  <2>2. SinRepetir' /\ PasoLugar
    BY <1>2, <2>1, Quieto DEF Despertar, NoToma, EnMano, Etapas, Tipos,
       AnilloOK, TipoAnillo
  <2> QED BY <1>2, <2>2, Conserva DEF Despertar, PasoConsola, consola, patotas
<1>3. CASE EXIT_Cerrar
  <2>1. NoToma
    BY <1>3 DEF EXIT_Cerrar, NoToma, EnMano, Etapas, Tipos, AnilloOK,
       TipoAnillo
  <2>2. SinRepetir' /\ PasoLugar
    BY <1>3, <2>1, Quieto DEF EXIT_Cerrar, NoToma, EnMano, Etapas, Tipos,
       AnilloOK, TipoAnillo
  <2> QED BY <1>3, <2>2, Conserva DEF EXIT_Cerrar, PasoConsola, consola,
         patotas
 <1> QED BY <1>1, <1>2, <1>3

(* A thread moves no TCB. *)
LEMMA LugarHilo ==
  ASSUME Tipos, LugarOK, NEW t \in Trips, Hilo(t) PROVE LugarOK'
<1>1. CASE Tomar(t)
  <2>1. UNCHANGED <<lbl, actual, cola, cons, listaPCB>>
    BY <1>1 DEF Tomar, anillo, consola, patotas
  <2>2. SinRepetir' /\ PasoLugar
    BY <1>1, <2>1, NoTomaQuieto, Quieto
  <2> QED BY <2>1, <2>2, Conserva DEF PasoConsola
<1>2. CASE Actuar(t)
  <2>1. UNCHANGED <<lbl, actual, cola, cons, listaPCB>>
    BY <1>2 DEF Actuar, anillo, consola, patotas
  <2>2. SinRepetir' /\ PasoLugar
    BY <1>2, <2>1, NoTomaQuieto, Quieto
  <2> QED BY <2>1, <2>2, Conserva DEF PasoConsola
<1>3. CASE LlegarAlSabotaje(t)
  <2>1. UNCHANGED <<lbl, actual, cola, cons, listaPCB>>
    BY <1>3 DEF LlegarAlSabotaje, anillo, consola, patotas
  <2>2. SinRepetir' /\ PasoLugar
    BY <1>3, <2>1, NoTomaQuieto, Quieto
  <2> QED BY <2>1, <2>2, Conserva DEF PasoConsola
<1>4. CASE Reparar(t)
  <2>1. UNCHANGED <<lbl, actual, cola, cons, listaPCB>>
    BY <1>4 DEF Reparar, anillo, consola, patotas
  <2>2. SinRepetir' /\ PasoLugar
    BY <1>4, <2>1, NoTomaQuieto, Quieto
  <2> QED BY <2>1, <2>2, Conserva DEF PasoConsola
<1>5. CASE Signal(t)
  <2>1. UNCHANGED <<lbl, actual, cola, cons, listaPCB>>
    BY <1>5 DEF Signal, anillo, consola, patotas
  <2>2. SinRepetir' /\ PasoLugar
    BY <1>5, <2>1, NoTomaQuieto, Quieto
  <2> QED BY <2>1, <2>2, Conserva DEF PasoConsola
 <1> QED BY <1>1, <1>2, <1>3, <1>4, <1>5 DEF Hilo

(* Nor does the server. *)
LEMMA LugarSabotaje ==
  ASSUME Tipos, LugarOK, SAB_Activar \/ SAB_Datos PROVE LugarOK'
<1>1. CASE SAB_Activar
  <2>1. UNCHANGED <<lbl, actual, cola, cons, listaPCB>>
    BY <1>1 DEF SAB_Activar, anillo, consola, patotas
  <2>2. SinRepetir' /\ PasoLugar
    BY <1>1, <2>1, NoTomaQuieto, Quieto
  <2> QED BY <2>1, <2>2, Conserva DEF PasoConsola
<1>2. CASE SAB_Datos
  <2>1. UNCHANGED <<lbl, actual, cola, cons, listaPCB>>
    BY <1>2 DEF SAB_Datos, anillo, consola, patotas
  <2>2. SinRepetir' /\ PasoLugar
    BY <1>2, <2>1, NoTomaQuieto, Quieto
  <2> QED BY <2>1, <2>2, Conserva DEF PasoConsola
 <1> QED BY <1>1, <1>2

(* The console, but for INICIAR_PATOTA: an expulsion moves nodes to exit. *)
LEMMA LugarConsola ==
  ASSUME Tipos, LugarOK, IniciarPlanificacion \/ PausarPlanificacion \/ ExpulsarTripulante PROVE LugarOK'
<1>1. CASE IniciarPlanificacion \/ PausarPlanificacion
  <2>1. UNCHANGED <<lbl, actual, cola, listaPCB>>
    BY <1>1 DEF IniciarPlanificacion, PausarPlanificacion, INI_Pausar,
       INI_Turno, PAU_Pedir, PAU_Tomar, anillo, patotas
  <2>2. PasoConsola
    BY <1>1, <2>1 DEF IniciarPlanificacion, PausarPlanificacion, INI_Pausar,
       INI_Turno, PAU_Pedir, PAU_Tomar, Consola, PasoConsola, Tipos,
       ConsolaOK, TipoConsola, Comandos
  <2>3. SinRepetir' /\ PasoLugar
    BY <1>1, <2>1, NoTomaQuieto, Quieto
  <2> QED BY <2>2, <2>3, Conserva
<1>2. CASE \E t \in Trips : EXP_RAM(t)
  <2>1. UNCHANGED <<lbl, actual, cola, listaPCB>>
    BY <1>2 DEF EXP_RAM, anillo, patotas
  <2>2. PasoConsola
    BY <1>2, <2>1 DEF EXP_RAM, Consola, PasoConsola, Tipos, ConsolaOK,
       TipoConsola, Comandos
  <2>3. SinRepetir' /\ PasoLugar
    BY <1>2, <2>1, NoTomaQuieto, Quieto
  <2> QED BY <2>2, <2>3, Conserva
<1>3. CASE EXP_Estado
  <2>1. UNCHANGED <<lbl, actual, cola, listaPCB>>
    BY <1>3 DEF EXP_Estado, anillo, patotas
  <2>2. PasoConsola
    BY <1>3, <2>1 DEF EXP_Estado, Consola, PasoConsola, Tipos, ConsolaOK,
       TipoConsola, Comandos
  <2>3. SinRepetir' /\ PasoLugar
    BY <1>3, <2>1, NoTomaQuieto, Quieto
  <2> QED BY <2>2, <2>3, Conserva
<1>4. CASE EXP_Buscar
  <2>1. UNCHANGED <<lbl, actual, cola, listaPCB>>
    BY <1>4 DEF EXP_Buscar, anillo, patotas
  <2>2. PasoConsola
    BY <1>4, <2>1 DEF EXP_Buscar, Consola, PasoConsola, Tipos, ConsolaOK,
       TipoConsola, Comandos
  <2>3. SinRepetir' /\ PasoLugar
    BY <1>4, <2>1, NoTomaQuieto, Quieto
  <2> QED BY <2>2, <2>3, Conserva
<1>5. CASE EXP_Extraido
  <2>1. UNCHANGED <<lbl, actual, cola, listaPCB>>
    BY <1>5 DEF EXP_Extraido, anillo, patotas
  <2>2. PasoConsola
    BY <1>5, <2>1 DEF EXP_Extraido, Consola, PasoConsola, Tipos, ConsolaOK,
       TipoConsola, Comandos
  <2>3. SinRepetir' /\ PasoLugar
    BY <1>5, <2>1, NoTomaQuieto, Quieto
  <2> QED BY <2>2, <2>3, Conserva
<1>6. CASE EXP_Patota
  <2>1. UNCHANGED <<lbl, actual, cola, listaPCB>>
    BY <1>6 DEF EXP_Patota, anillo, patotas
  <2>2. PasoConsola
    BY <1>6, <2>1 DEF EXP_Patota, Consola, PasoConsola, Tipos, ConsolaOK,
       TipoConsola, Comandos, ConsolaLibre
  <2>3. SinRepetir' /\ PasoLugar
    BY <1>6, <2>1, NoTomaQuieto, Quieto
  <2> QED BY <2>2, <2>3, Conserva
<1>7. CASE EXP_Extraer
  <2>1. UNCHANGED <<lbl, actual, listaPCB>>
    BY <1>7 DEF EXP_Extraer, anillo, patotas
  <2>2. PasoConsola
    BY <1>7, <2>1 DEF EXP_Extraer, EnConsola, PasoConsola, Tipos, ConsolaOK,
       TipoConsola, Comandos
  <2>3. SinRepetir' /\ PasoLugar
    <3> DEFINE c == cons.cola
               k == cons.i
    <3>1. CASE cola' = cola
      BY <2>1, <3>1, NoTomaQuieto, Quieto
    <3>2. CASE /\ k <= Len(cola[c])
               /\ cola' = [[cola EXCEPT ![c] = RemoveAt(@, k)] EXCEPT !["exit"] = Append(@, cola[c][k])]
      <4>1. cola \in [Colas -> Seq(Trips)] /\ c \in Colas /\ k \in 1..Len(cola[c]) /\ "exit" \in Colas
        BY <1>7, <3>2 DEF EXP_Extraer, EnConsola, Tipos, TipoColas, ConsolaOK, TipoConsola, Comandos, Colas
      <4> HIDE DEF c, k
      <4>2. \A p \in Colas : cola'[p] =
              IF p = "exit" THEN Append(IF c = "exit" THEN RemoveAt(cola[c], k) ELSE cola["exit"], cola[c][k])
              ELSE IF p = c THEN RemoveAt(cola[c], k) ELSE cola[p]
        BY <3>2, <4>1
      <4> QED BY <2>1, <4>1, <4>2, NoTomaQuieto, Mueve
    <3> QED BY <1>7, <3>1, <3>2 DEF EXP_Extraer
  <2> QED BY <2>2, <2>3, Conserva
 <1> QED BY <1>1, <1>2, <1>3, <1>4, <1>5, <1>6, <1>7 DEF ExpulsarTripulante,
       SeguirExpulsion
(* SiguienteTid: the one after it, of the same patota. *)
LEMMA SiguienteDespues ==
  ASSUME NEW t \in Trips, SiguienteTid(t) # Nadie
  PROVE  /\ SiguienteTid(t) \in Trips /\ PatotaDe[SiguienteTid(t)] = PatotaDe[t]
         /\ SiguienteTid(t) > t
<1> DEFINE resto == {u \in Miembros(PatotaDe[t]) : u > t}
<1>1. resto \subseteq Nat /\ resto # {}
  BY ConstantesOK DEF SiguienteTid, Miembros
<1>2. MinTid(resto) \in resto /\ SiguienteTid(t) = MinTid(resto)
  BY <1>1, MinTidPertenece DEF SiguienteTid
<1> QED BY <1>2 DEF Miembros

(* INICIAR_PATOTA: who is pushed to New is in no place, and from then on it *)
(* is one of those born.                                                    *)
LEMMA LugarIniciarPatota ==
  ASSUME Tipos, LugarOK, IniciarPatota PROVE LugarOK'
<1>1. cons \in Comandos
  BY DEF Tipos, ConsolaOK, TipoConsola
<1>2. CASE PAT_Crear
  <2>1. UNCHANGED <<lbl, actual, cola, listaPCB>> /\ cons'.pc = "pcb" /\ PatotaDe[cons'.t] \notin listaPCB
    <3>1. MinTid(PorCrear) \in PorCrear
      <4>1. PorCrear \subseteq Nat /\ PorCrear # {}
        BY <1>2, ConstantesOK DEF PAT_Crear, PorCrear
      <4> QED BY <4>1, MinTidPertenece
    <3>2. MinTid(PorCrear) \in Patotas /\ MinTid(PorCrear) \notin listaPCB
      BY <3>1 DEF PorCrear
    <3>3. PatotaDe[MinTid(Miembros(MinTid(PorCrear)))] = MinTid(PorCrear)
      BY <3>2, PrimerTid DEF Miembros
    <3> QED BY <1>1, <1>2, <3>2, <3>3 DEF PAT_Crear, Consola, anillo, Comandos
  <2>2. SinRepetir' /\ NadieMuda
    BY <2>1 DEF LugarOK, SinRepetir, NadieMuda, Ocupa, Esta, EnMano
  <2>3. Unico'
    BY <2>2 DEF Unico, LugarOK, NadieMuda
  <2>4. Nacidos'
    BY <2>1, <2>2 DEF Nacidos, NadieMuda, PorNacer, LugarOK
  <2> QED BY <2>2, <2>3, <2>4 DEF LugarOK
<1>3. CASE PAT_Listar
  <2>1. /\ UNCHANGED <<lbl, actual, cola>> /\ cons.pc = "pcb" /\ cons'.pc = "new" /\ cons'.t = cons.t
        /\ listaPCB' = listaPCB \cup {PatotaDe[cons.t]}
    BY <1>1, <1>3 DEF PAT_Listar, Consola, EnConsola, anillo, Comandos
  <2>2. SinRepetir' /\ NadieMuda
    BY <2>1 DEF LugarOK, SinRepetir, NadieMuda, Ocupa, Esta, EnMano
  <2>3. Unico'
    BY <2>2 DEF Unico, LugarOK, NadieMuda
  <2>4. Nacidos'
    BY <2>1, <2>2 DEF Nacidos, NadieMuda, PorNacer, LugarOK
  <2> QED BY <2>2, <2>3, <2>4 DEF LugarOK
<1>4. CASE PAT_New
  <2> DEFINE t == cons.t
  <2>1. /\ UNCHANGED <<lbl, actual, listaPCB>> /\ cons.pc = "new" /\ cons'.pc = "hilo" /\ cons'.t = t
        /\ cola' = [cola EXCEPT !["new"] = Append(cola["new"], t)] /\ t \in Trips
    BY <1>1, <1>4 DEF PAT_New, Consola, EnConsola, Poner, anillo, patotas, Comandos, Tipos,
       ConsolaOK, ConTripulante
  <2>2. cola \in [Colas -> Seq(Trips)] /\ "new" \in Colas
    BY DEF Tipos, TipoColas, Colas
  <2>3. \A l \in Lugares : ~Ocupa(l, t)
    <3>1. PorNacer(t)
      <4>1. t \in Nat /\ cons.t = t
        BY <2>1, ConstantesOK
      <4>2. t >= t
        BY <4>1
      <4> HIDE DEF t
      <4> QED BY <2>1, <4>1, <4>2 DEF PorNacer
    <3> QED BY <2>1, <3>1 DEF LugarOK, Nacidos
  <2>4. /\ \A u : Contains(Append(cola["new"], t), u) => Contains(cola["new"], u) \/ u = t
        /\ NoRepite(Append(cola["new"], t))
    <3>1. ~Contains(cola["new"], t) /\ NoRepite(cola["new"])
      BY <2>2, <2>3 DEF Lugares, Ocupa, Esta, LugarOK, SinRepetir
    <3> HIDE DEF t
    <3> QED BY <2>1, <2>2, <3>1, ConUno
  <2>5. SinRepetir'
    BY <2>1, <2>2, <2>4 DEF LugarOK, SinRepetir
  <2>6. ASSUME NEW l \in Lugares, NEW u \in Trips, Ocupa(l, u)'
        PROVE  (u = t /\ l = "new") \/ (Ocupa(l, u) /\ u # t)
    <3>1. CASE l \in Colas
      BY <2>1, <2>2, <2>3, <2>4, <2>6, <3>1 DEF Ocupa, Esta
    <3>2. CASE l \in Etapas
      BY <2>1, <2>3, <2>6, <3>2, LugaresDistintos DEF Ocupa, EnMano
    <3> QED BY <3>1, <3>2 DEF Lugares
  <2>7. Unico'
    BY <2>6 DEF Unico, LugarOK
  <2>8. Nacidos'
    <3>1. ASSUME NEW l \in Lugares, NEW u \in Trips, Ocupa(l, u)' PROVE ~PorNacer(u)'
      <4>1. CASE u = t
        BY <2>1, <4>1, ConstantesOK DEF PorNacer, Nacidos, LugarOK
      <4>2. CASE Ocupa(l, u)
        <5>1. ~PorNacer(u)
          BY <4>2 DEF Nacidos, LugarOK
        <5>2. t \in Nat /\ u \in Nat /\ cons.t = t
          BY <2>1, ConstantesOK
        <5> HIDE DEF t
        <5>3. u > t => u >= t
          BY <5>2
        <5>4. CASE PatotaDe[u] \notin listaPCB'
          BY <2>1, <5>1, <5>4 DEF PorNacer
        <5>5. CASE u > t /\ PatotaDe[u] = PatotaDe[t]
          BY <2>1, <5>1, <5>2, <5>3, <5>5 DEF PorNacer
        <5> QED BY <2>1, <5>4, <5>5 DEF PorNacer
      <4> QED BY <2>6, <3>1, <4>1, <4>2
    <3> QED BY <2>1, <3>1 DEF Nacidos, LugarOK
  <2> QED BY <2>5, <2>7, <2>8 DEF LugarOK
<1>5. CASE PAT_Hilo
  <2> DEFINE t == cons.t
             u == SiguienteTid(t)
  <2>1. /\ UNCHANGED <<lbl, actual, cola, listaPCB>> /\ cons.pc = "hilo" /\ t \in Trips
        /\ cons'.pc = (IF u = Nadie THEN "libre" ELSE "new") /\ cons'.t = u
    BY <1>1, <1>5 DEF PAT_Hilo, Consola, EnConsola, anillo, patotas, Comandos, Tipos,
       ConsolaOK, ConTripulante
  <2>2. SinRepetir' /\ NadieMuda
    BY <2>1 DEF LugarOK, SinRepetir, NadieMuda, Ocupa, Esta, EnMano
  <2>3. Unico'
    BY <2>2 DEF Unico, LugarOK, NadieMuda
  <2>4. u # Nadie => u \in Trips /\ PatotaDe[u] = PatotaDe[t] /\ u > t
    BY <2>1, SiguienteDespues
  <2>5. Nacidos'
    <3>1. ASSUME NEW l \in Lugares, NEW w \in Trips, Ocupa(l, w)' PROVE ~PorNacer(w)'
      <4>1. ~PorNacer(w)
        BY <2>2, <3>1 DEF NadieMuda, Nacidos, LugarOK
      <4>2. t \in Nat /\ w \in Nat /\ (u # Nadie => u \in Nat /\ u > t)
        BY <2>1, <2>4, ConstantesOK
      <4> HIDE DEF u, t
      <4>5. u # Nadie => (w >= u => w > t)
        BY <4>2
      <4> USE DEF t
      <4>3. cons'.pc = "new" => u # Nadie /\ cons'.t = u /\ PatotaDe[u] = PatotaDe[t]
        BY <2>1, <2>4
      <4>4. cons'.pc # "hilo" /\ cons.pc = "hilo" /\ cons.t = t
        BY <2>1
      <4> HIDE DEF t
      <4> QED BY <2>1, <4>1, <4>3, <4>4, <4>5 DEF PorNacer
    <3> HIDE DEF u
    <3> QED BY <2>1, <2>4, <3>1 DEF Nacidos, LugarOK
  <2> QED BY <2>2, <2>3, <2>5 DEF LugarOK
<1> QED BY <1>2, <1>3, <1>4, <1>5 DEF IniciarPatota

(* Every action of the program, stuttering included, keeps LugarOK. *)
LEMMA LugarNext ==
  ASSUME Tipos, LugarOK, [Next]_vars PROVE LugarOK'
<1>1. CASE UNCHANGED vars
  <2>1. UNCHANGED <<lbl, actual, cola, cons, listaPCB>>
    BY <1>1 DEF vars, anillo, consola, patotas
  <2> QED BY <2>1, NoTomaQuieto, Quieto, Conserva DEF PasoConsola
<1>2. CASE Next
  <2>1. CASE NewReady
    BY <2>1, LugarNewReady
  <2>2. ASSUME NEW e \in Recorridos, RecorreExec(e) PROVE LugarOK'
    BY <2>2, LugarRecorreExec
  <2>3. CASE ReadyExec
    BY <2>3, LugarReadyExec
  <2>4. CASE BloqIO
    BY <2>4, LugarBloqIO
  <2>5. CASE AEmergencia
    BY <2>5, LugarAEmergencia
  <2>6. CASE AReady
    BY <2>6, LugarAReady
  <2>7. CASE TomarPausar
    <3>1. "NR" \in Etapas
      BY DEF Etapas
    <3> QED BY <2>7, <3>1, LugarAnillo
  <2>8. ASSUME NEW e \in Etapas, Despertar(e) PROVE LugarOK'
    BY <2>8, LugarAnillo
  <2>9. CASE EXIT_Cerrar
    <3>1. "EXIT" \in Etapas
      BY DEF Etapas
    <3> QED BY <2>9, <3>1, LugarAnillo
  <2>10. ASSUME NEW t \in Trips, Hilo(t) PROVE LugarOK'
    BY <2>10, LugarHilo
  <2>11. CASE SAB_Activar \/ SAB_Datos
    BY <2>11, LugarSabotaje
  <2>12. CASE FuncionConsola
    BY <2>12, LugarConsola, LugarIniciarPatota DEF FuncionConsola
  <2> QED BY <1>2, <2>1, <2>2, <2>3, <2>4, <2>5, <2>6, <2>7, <2>8, <2>9, <2>10, <2>11, <2>12
         DEF Next
<1> QED BY <1>1, <1>2

(* At the start every queue and every hand is empty. *)
LEMMA LugarInit == Init => LugarOK
<1> SUFFICES ASSUME Init PROVE LugarOK
  OBVIOUS
<1>1. \A l \in Lugares : \A t \in Trips : ~Ocupa(l, t)
  <2>1. \A q \in Colas : \A t \in Trips : ~Esta(q, t)
    BY DEF Init, Colas, Esta, Contains
  <2>2. \A e \in Etapas : ~EnMano(e)
    BY DEF Init, EnMano
  <2> QED BY <2>1, <2>2 DEF Lugares, Ocupa
<1>2. SinRepetir
  BY DEF Init, SinRepetir, NoRepite
<1>3. cons.pc = "libre"
  BY DEF Init, ConsolaLibre
<1> QED BY <1>1, <1>2, <1>3 DEF LugarOK, Unico, Nacidos

(* For every value of the constants: a TCB is in one queue, once, or in the *)
(* hand of one stage, whatever the turn and the expulsions do.              *)
THEOREM UnSoloLugarSiempre == Spec => []UnSoloLugar
<1>1. Tipos /\ LugarOK /\ [Next]_vars => LugarOK'
  BY LugarNext
<1>2. Tipos /\ LugarOK => UnSoloLugar
  <2> SUFFICES ASSUME Tipos, LugarOK PROVE UnSoloLugar
    OBVIOUS
  <2>1. cola \in [Colas -> Seq(Trips)]
    BY DEF Tipos, TipoColas
  <2>2. ASSUME NEW q \in Colas, NEW r \in Colas, NEW i \in DOMAIN cola[q], NEW j \in DOMAIN cola[r],
               cola[q][i] = cola[r][j]
        PROVE  q = r /\ i = j
    <3>1. /\ i \in 1..Len(cola[q]) /\ j \in 1..Len(cola[r]) /\ cola[q][i] \in Trips
          /\ cola[q] \in Seq(Trips) /\ cola[r] \in Seq(Trips)
      BY <2>1
    <3>2. Esta(q, cola[q][i]) /\ Esta(r, cola[q][i])
      BY <2>2, <3>1 DEF Esta, Contains
    <3>3. q = r
      BY <3>1, <3>2 DEF LugarOK, Unico, Lugares, Ocupa
    <3> QED BY <2>2, <3>1, <3>3 DEF LugarOK, SinRepetir, NoRepite
  <2>3. ASSUME NEW e \in Etapas, EnMano(e)
        PROVE  /\ actual[e] \in Trips
               /\ \A l \in Lugares : Ocupa(l, actual[e]) => l = e
    <3>1. actual[e] \in Trips
      BY <2>3 DEF Tipos, AnilloOK, EnMano, ConTCB
    <3>2. e \in Lugares /\ Ocupa(e, actual[e])
      BY <2>3, LugaresDistintos DEF Lugares, Ocupa
    <3> QED BY <3>1, <3>2 DEF LugarOK, Unico
  <2>4. \A e, f \in Etapas : EnMano(e) /\ EnMano(f) /\ actual[e] = actual[f] => e = f
    BY <2>3, LugaresDistintos DEF Lugares, Ocupa
  <2>5. \A e \in Etapas, q \in Colas : EnMano(e) => ~Esta(q, actual[e])
    BY <2>3, LugaresDistintos DEF Lugares, Ocupa
  <2> QED BY <2>2, <2>4, <2>5 DEF UnSoloLugar
<1> QED BY LugarInit, TiposInvariante, <1>1, <1>2, PTL DEF Spec
-----------------------------------------------------------------------------
(* The turn *)

EnObra == {"actua", "repara", "senal", "adios"}
EnCiclo(t) == semT[t] > 0 \/ hilo[t] \in EnObra

Trabaja(e) == lbl[e] # "espera"
Avisando == lbl["RE"] = "avisar"
NadaPuesto == \A s \in SemTurno : sem[s] = 0
SoloAvisa == \A e \in Etapas : Trabaja(e) => e = "RE" /\ Avisando

(* Those signalHilosTripulantes has still to wake, and those _signal has    *)
(* still to hear of.                                                        *)
Detras(s, t, u) == \E i, j \in 1..Len(s) : i < j /\ s[i] = t /\ s[j] = u
EnEspera == {u \in Trips : /\ Avisando
                           /\ u = actual["RE"] \/ Detras(cola["exec"], actual["RE"], u)}
Pendientes == HilosEnCiclo \cup EnEspera

(* Nobody has the turn. *)
SinTurno == (\A e \in Etapas : ~Trabaja(e)) /\ NadaPuesto /\ HilosEnCiclo = {}

Ficha ==
  /\ \A s \in SemTurno : sem[s] <= 1
  /\ \A r, s \in SemTurno : sem[r] > 0 /\ sem[s] > 0 => r = s
  /\ \A e, f \in Etapas : Trabaja(e) /\ Trabaja(f) => e = f
  /\ \A e \in Etapas : Trabaja(e) => NadaPuesto
  /\ HilosEnCiclo # {} \/ contador # 0 => NadaPuesto /\ SoloAvisa
  /\ ~viva \/ pausada => SinTurno /\ contador = 0

SinExpulsion == MaxExpulsiones = 0
Expulsando == {"estado", "buscar", "extraer", "patota"}

DespiertosUnaVez == \A t \in Trips : semT[t] <= 1 /\ (semT[t] > 0 => hilo[t] \notin EnObra)
PorEmpezar == lbl["RE"] = "empezar" =>
  /\ Len(cola["exec"]) <= cantidad
  /\ SinExpulsion => Len(cola["exec"]) = cantidad /\ cantidad > 0
Suma == Pendientes # {} =>
  /\ Cardinality(Pendientes) + contador <= cantidad
  /\ SinExpulsion => Cardinality(Pendientes) + contador = cantidad
NoSePierde == SinExpulsion =>
  /\ viva /\ ~pausada => ~SinTurno
  /\ Avisando => Esta("exec", actual["RE"])
  /\ cons.pc \notin Expulsando

AvisaAUno == Avisando => actual["RE"] \in Trips

Cuenta == /\ DespiertosUnaVez /\ PorEmpezar /\ HilosEnCiclo \cap EnEspera = {} /\ AvisaAUno
          /\ Suma /\ NoSePierde

(* A tripulante whose thread INICIAR_PATOTA has not created has none. *)
HilosPorNacer ==
  \A t \in Trips : PorNacer(t) \/ (cons.pc = "hilo" /\ t = cons.t) => hilo[t] = "nada"

TurnoOK == Ficha /\ Cuenta /\ HilosPorNacer

-----------------------------------------------------------------------------
(* Lemmas on the list of those to be woken *)

(* The node after another, in a list that repeats none. *)
LEMMA SiguienteDetras ==
  ASSUME NEW s \in Seq(Trips), NoRepite(s), NEW t, Contains(s, t)
  PROVE  /\ ~Detras(s, t, t)
         /\ Siguiente(s, t) = Nadie => \A w : ~Detras(s, t, w)
         /\ Siguiente(s, t) # Nadie =>
              /\ Siguiente(s, t) \in Trips /\ Contains(s, Siguiente(s, t))
              /\ \A w : Detras(s, t, w) <=> w = Siguiente(s, t) \/ Detras(s, Siguiente(s, t), w)
<1> DEFINE k == Indice(s, t)
<1>1. k \in 1..Len(s) /\ s[k] = t /\ \A i \in 1..Len(s) : s[i] = t => i = k
  BY IndiceEnRango DEF NoRepite
<1>2. \A i \in 1..Len(s) : s[i] \in Trips /\ s[i] # Nadie
  BY ConstantesOK
<1>3. Siguiente(s, t) = IF k < Len(s) THEN s[k + 1] ELSE Nadie
  BY DEF Siguiente
<1> HIDE DEF k
<1>4. ~Detras(s, t, t)
  BY <1>1 DEF Detras
<1>5. CASE k < Len(s)
  <2>1. k + 1 \in 1..Len(s) /\ Siguiente(s, t) = s[k + 1] /\ s[k + 1] # Nadie /\ s[k + 1] \in Trips
    BY <1>1, <1>2, <1>3, <1>5
  <2>2. ASSUME NEW w PROVE Detras(s, t, w) <=> w = s[k + 1] \/ Detras(s, s[k + 1], w)
    <3>1. ASSUME Detras(s, t, w) PROVE w = s[k + 1] \/ Detras(s, s[k + 1], w)
      <4>1. PICK j \in 1..Len(s) : k < j /\ s[j] = w
        BY <1>1, <3>1 DEF Detras
      <4>2. j = k + 1 \/ k + 1 < j
        BY <1>1, <4>1
      <4> QED BY <2>1, <4>1, <4>2 DEF Detras
    <3>2. ASSUME w = s[k + 1] PROVE Detras(s, t, w)
      <4>1. k < k + 1
        BY <1>1
      <4> QED BY <1>1, <2>1, <3>2, <4>1 DEF Detras
    <3>3. ASSUME Detras(s, s[k + 1], w) PROVE Detras(s, t, w)
      <4>1. PICK i, j \in 1..Len(s) : i < j /\ s[i] = s[k + 1] /\ s[j] = w
        BY <3>3 DEF Detras
      <4>2. i = k + 1
        BY <2>1, <4>1 DEF NoRepite
      <4>3. k < j
        BY <1>1, <4>1, <4>2
      <4> QED BY <1>1, <4>1, <4>3 DEF Detras
    <3> QED BY <3>1, <3>2, <3>3
  <2>3. Contains(s, s[k + 1])
    BY <2>1 DEF Contains
  <2> QED BY <1>4, <2>1, <2>2, <2>3
<1>6. CASE ~(k < Len(s))
  <2>1. \A w : ~Detras(s, t, w)
    BY <1>1, <1>6 DEF Detras
  <2> QED BY <1>3, <1>4, <1>6, <2>1
<1> QED BY <1>5, <1>6

(* The first node and those behind it are the list. *)
LEMMA CabezaDetras ==
  ASSUME NEW s \in Seq(Trips), s # <<>>
  PROVE  /\ Head(s) \in Trips /\ Contains(s, Head(s))
         /\ \A w : Contains(s, w) <=> w = Head(s) \/ Detras(s, Head(s), w)
<1>1. Head(s) = s[1] /\ 1 \in 1..Len(s) /\ Head(s) \in Trips
  OBVIOUS
<1>2. Contains(s, Head(s))
  BY <1>1 DEF Contains
<1>3. ASSUME NEW w, Contains(s, w) PROVE w = s[1] \/ Detras(s, s[1], w)
  <2>1. PICK j \in 1..Len(s) : s[j] = w
    BY <1>3 DEF Contains
  <2>2. j = 1 \/ 1 < j
    BY <2>1
  <2> QED BY <1>1, <2>1, <2>2 DEF Detras
<1>4. ASSUME NEW w, w = s[1] \/ Detras(s, s[1], w) PROVE Contains(s, w)
  BY <1>1, <1>4 DEF Detras, Contains
<1> QED BY <1>1, <1>2, <1>3, <1>4

(* Taking a node out leaves the others in their order. *)
LEMMA SinUnoDetras ==
  ASSUME NEW s \in Seq(Trips), NEW k \in 1..Len(s), NEW t, NEW u, Detras(RemoveAt(s, k), t, u)
  PROVE  Detras(s, t, u)
<1> DEFINE r == RemoveAt(s, k)
<1>1. /\ r \in Seq(Trips) /\ Len(r) = Len(s) - 1
      /\ \A j \in 1..(Len(s) - 1) : r[j] = s[IF j < k THEN j ELSE j + 1]
  BY RemoveAtTipo
<1> HIDE DEF r
<1>2. PICK i, j \in 1..Len(r) : i < j /\ r[i] = t /\ r[j] = u
  BY DEF Detras, r
<1> DEFINE a == IF i < k THEN i ELSE i + 1
           b == IF j < k THEN j ELSE j + 1
<1>3. a \in 1..Len(s) /\ b \in 1..Len(s) /\ a < b
  BY <1>1, <1>2
<1>4. s[a] = t /\ s[b] = u
  BY <1>1, <1>2
<1> QED BY <1>3, <1>4 DEF Detras

(* A list that repeats none has as many elements as places. *)
LEMMA TantosComoLugares ==
  ASSUME NEW s \in Seq(Trips), NoRepite(s)
  PROVE  Cardinality({w \in Trips : Contains(s, w)}) = Len(s)
<1> DEFINE S == {w \in Trips : Contains(s, w)}
           n == Len(s)
           f == [i \in 1..n |-> s[i]]
<1>1. n \in Nat /\ \A i \in 1..n : s[i] \in Trips
  OBVIOUS
<1>2. f \in [1..n -> S]
  BY <1>1 DEF Contains
<1>3. \A i, j \in 1..n : f[i] = f[j] => i = j
  BY DEF NoRepite
<1>4. \A w \in S : \E i \in 1..n : f[i] = w
  BY DEF Contains
<1>5. ExistsBijection(1..n, S)
  <2> HIDE DEF f, S, n
  <2>1. f \in Bijection(1..n, S)
    BY <1>2, <1>3, <1>4, Zenon DEF Bijection, Injection, Surjection, IsInjective
  <2> QED BY <2>1 DEF ExistsBijection
<1> HIDE DEF S, n, f
<1>6. Cardinality(S) = n
  BY <1>1, <1>5, FS_CountingElements
<1> QED BY <1>6 DEF S, n

-----------------------------------------------------------------------------
(* Lemmas on the parts of a step *)

(* Those to be heard of are finitely many. *)
LEMMA PendientesFinitos ==
  IsFiniteSet(Pendientes) /\ Pendientes \subseteq Trips
<1>1. Pendientes \subseteq Trips
  BY DEF Pendientes, HilosEnCiclo, EnEspera
<1> QED BY <1>1, ConstantesOK, FS_Subset

(* Nothing changes for the turn; the console may have taken out of exec.    *)
ExecMengua ==
  \/ cola'["exec"] = cola["exec"]
  \/ /\ ~SinExpulsion /\ Len(cola'["exec"]) <= Len(cola["exec"])
     /\ \A t, u \in Trips : Detras(cola'["exec"], t, u) => Detras(cola["exec"], t, u)

CicloQuieto ==
  /\ cantidad' = cantidad /\ contador' = contador
  /\ HilosEnCiclo' = HilosEnCiclo /\ DespiertosUnaVez'

(* A step that leaves the stages and the cycle alone keeps the turn where it is. *)
LEMMA TurnoQuieto ==
  ASSUME Tipos, Tipos', Ficha, Cuenta, CicloQuieto, ExecMengua,
         UNCHANGED <<lbl, actual, viva, pausada>>,
         \A s \in SemTurno : sem'[s] = sem[s], SinExpulsion => cons'.pc \notin Expulsando
  PROVE  Ficha' /\ Cuenta'
<1>1. Ficha'
  BY DEF Ficha, CicloQuieto, NadaPuesto, SoloAvisa, SinTurno, Trabaja, Avisando
<1>2. EnEspera' \subseteq EnEspera /\ (SinExpulsion => EnEspera' = EnEspera)
  <2>1. SinExpulsion => cola'["exec"] = cola["exec"]
    BY DEF ExecMengua
  <2>2. SinExpulsion => EnEspera' = EnEspera
    BY <2>1 DEF EnEspera, Avisando
  <2>3. ASSUME NEW u \in Trips, u \in EnEspera' PROVE u \in EnEspera
    <3>1. actual["RE"] \in TripsONada
      BY DEF Tipos, AnilloOK, TipoAnillo, Etapas
    <3>2. CASE u = actual["RE"]
      BY <2>3, <3>2 DEF EnEspera, Avisando
    <3>3. CASE Detras(cola'["exec"], actual["RE"], u)
      <4>1. actual["RE"] \in Trips
        <5>1. cola'["exec"] \in Seq(Trips)
          BY DEF Tipos, TipoColas, Colas
        <5> QED BY <3>3, <5>1 DEF Detras
      <4>2. Detras(cola["exec"], actual["RE"], u)
        BY <3>3, <4>1 DEF ExecMengua
      <4> QED BY <2>3, <4>2 DEF EnEspera, Avisando
    <3> QED BY <2>3, <3>2, <3>3 DEF EnEspera
  <2> QED BY <2>2, <2>3 DEF EnEspera
<1>3. Pendientes' \subseteq Pendientes /\ (SinExpulsion => Pendientes' = Pendientes)
  BY <1>2 DEF Pendientes, CicloQuieto
<1>4. HilosEnCiclo' \cap EnEspera' = {}
  BY <1>2 DEF CicloQuieto, Cuenta
<1>5. Suma'
  <2>1. /\ Cardinality(Pendientes') <= Cardinality(Pendientes)
        /\ Cardinality(Pendientes) \in Nat /\ Cardinality(Pendientes') \in Nat
    <3>1. IsFiniteSet(Pendientes) /\ IsFiniteSet(Pendientes')
      BY <1>3, PendientesFinitos, FS_Subset
    <3> QED BY <1>3, <3>1, PendientesFinitos, FS_Subset, FS_CardinalityType
  <2>2. Pendientes' # {} => Pendientes # {}
    BY <1>3
  <2>3. contador \in Nat /\ cantidad \in Nat /\ contador' = contador /\ cantidad' = cantidad
    BY DEF Tipos, TipoBarrera, CicloQuieto
  <2>4. Pendientes # {} => /\ Cardinality(Pendientes) + contador <= cantidad
                           /\ SinExpulsion => Cardinality(Pendientes) + contador = cantidad
    BY DEF Cuenta, Suma
  <2>5. SinExpulsion => Cardinality(Pendientes') = Cardinality(Pendientes)
    BY <1>3
  <2> QED BY <2>1, <2>2, <2>3, <2>4, <2>5 DEF Suma
<1>6. PorEmpezar'
  <2>1. cola["exec"] \in Seq(Trips) /\ cola'["exec"] \in Seq(Trips)
    BY DEF Tipos, TipoColas, Colas
  <2>2. cantidad \in Nat /\ cantidad' = cantidad
    BY DEF Tipos, TipoBarrera, CicloQuieto
  <2>3. Len(cola'["exec"]) <= Len(cola["exec"]) /\ (SinExpulsion => cola'["exec"] = cola["exec"])
    BY <2>1 DEF ExecMengua
  <2> QED BY <2>1, <2>2, <2>3 DEF Cuenta, PorEmpezar
<1>7. NoSePierde'
  <2>1. SinExpulsion => cola'["exec"] = cola["exec"]
    BY DEF ExecMengua
  <2> QED BY <2>1 DEF Cuenta, NoSePierde, SinTurno, Trabaja, NadaPuesto, Avisando, Esta, CicloQuieto
<1>8. AvisaAUno'
  BY DEF Cuenta, AvisaAUno, Avisando
<1> QED BY <1>1, <1>4, <1>5, <1>6, <1>7, <1>8 DEF Cuenta, CicloQuieto

(* Whoever has the turn goes on, or posts the semaphore of the next one.    *)
SigueEtapa(e) ==
  \/ e # "RE" /\ UNCHANGED anillo
  \/ \E l \in Rotulos \ {"espera"} : \E t : Ir(e, l, t) /\ (e = "RE" => l \notin {"empezar", "avisar"})
  \/ \E s \in SemTurno : Terminar(e, s)

(* Out of the cycle of the tripulantes there is nobody to be heard of. *)
LEMMA TurnoDeEtapa ==
  ASSUME Ficha, NEW e \in Etapas, Trabaja(e), e = "RE" => ~Avisando
  PROVE  /\ HilosEnCiclo = {} /\ contador = 0 /\ NadaPuesto /\ viva /\ ~pausada
         /\ \A f \in Etapas : Trabaja(f) => f = e
         /\ EnEspera = {} /\ Pendientes = {} /\ ~Avisando
<1>1. \A f \in Etapas : Trabaja(f) => f = e
  BY DEF Ficha
<1>2. "RE" \in Etapas
  BY DEF Etapas
<1>3. ~Avisando
  BY <1>1, <1>2 DEF Avisando, Trabaja
<1>4. HilosEnCiclo = {} /\ contador = 0
  BY <1>3 DEF Ficha, SoloAvisa
<1>5. EnEspera = {}
  BY <1>3 DEF EnEspera
<1>6. viva /\ ~pausada /\ NadaPuesto
  BY DEF Ficha, SinTurno
<1> QED BY <1>1, <1>3, <1>4, <1>5, <1>6 DEF Pendientes

(* A stage at work that goes on, or hands the turn over, keeps it in one place. *)
LEMMA TurnoEtapa ==
  ASSUME Tipos, Ficha, Cuenta, NEW e \in Etapas, Trabaja(e), e = "RE" => ~Avisando,
         UNCHANGED <<barrera, consola>>, SigueEtapa(e)
  PROVE  Ficha' /\ Cuenta'
<1>1. /\ HilosEnCiclo = {} /\ contador = 0 /\ NadaPuesto /\ viva /\ ~pausada
      /\ \A f \in Etapas : Trabaja(f) => f = e
      /\ EnEspera = {} /\ Pendientes = {} /\ ~Avisando
  BY TurnoDeEtapa
<1>2. /\ HilosEnCiclo' = {} /\ contador' = 0 /\ DespiertosUnaVez' /\ viva' /\ ~pausada'
      /\ cons' = cons
  BY <1>1 DEF barrera, consola, HilosEnCiclo, Cuenta, DespiertosUnaVez
<1>3. /\ sem \in [Etapas \cup {"pausar"} -> Nat] /\ lbl \in [Etapas -> Rotulos]
      /\ actual \in [Etapas -> TripsONada] /\ "RE" \in Etapas
      /\ SemTurno \subseteq Etapas \cup {"pausar"}
  BY DEF Tipos, AnilloOK, TipoAnillo, Etapas, SemTurno
<1>4. ASSUME ~Avisando', Ficha', ~SinTurno', lbl'["RE"] # "empezar" PROVE Cuenta'
  <2>1. EnEspera' = {} /\ Pendientes' = {}
    BY <1>2, <1>4 DEF EnEspera, Pendientes
  <2>2. Suma' /\ HilosEnCiclo' \cap EnEspera' = {} /\ PorEmpezar'
    BY <1>4, <2>1 DEF Suma, PorEmpezar
  <2>3. NoSePierde'
    BY <1>2, <1>4 DEF NoSePierde, Cuenta
  <2> QED BY <1>2, <1>4, <2>2, <2>3 DEF Cuenta, AvisaAUno
<1>5. CASE e # "RE" /\ UNCHANGED anillo
  <2>1. lbl["RE"] = "espera"
    BY <1>1, <1>3, <1>5 DEF Trabaja
  <2>2. Ficha' /\ ~SinTurno'
    BY <1>1, <1>2, <1>5 DEF anillo, Ficha, NadaPuesto, SoloAvisa, SinTurno, Trabaja
  <2> QED BY <1>4, <1>5, <2>1, <2>2 DEF anillo, Avisando
<1>6. ASSUME NEW l \in Rotulos \ {"espera"}, NEW t, Ir(e, l, t),
             e = "RE" => l \notin {"empezar", "avisar"}
      PROVE  Ficha' /\ Cuenta'
  <2>1. /\ sem' = sem /\ lbl'[e] = l /\ \A f \in Etapas \ {e} : lbl'[f] = lbl[f]
    BY <1>3, <1>6 DEF Ir
  <2>2. \A f \in Etapas : Trabaja(f)' <=> f = e
    BY <1>1, <2>1 DEF Trabaja
  <2>3. NadaPuesto'
    BY <1>1, <2>1 DEF NadaPuesto
  <2>4. Ficha' /\ ~SinTurno'
    BY <1>2, <2>2, <2>3 DEF Ficha, SinTurno, NadaPuesto
  <2>5. lbl'["RE"] \notin {"empezar", "avisar"}
    <3>1. CASE e = "RE"
      BY <1>6, <2>1, <3>1
    <3>2. CASE e # "RE"
      BY <1>3, <2>2, <3>2 DEF Trabaja
    <3> QED BY <3>1, <3>2
  <2> QED BY <1>4, <2>4, <2>5 DEF Avisando
<1>7. ASSUME NEW s \in SemTurno, Terminar(e, s) PROVE Ficha' /\ Cuenta'
  <2>1. /\ lbl'[e] = "espera" /\ \A f \in Etapas \ {e} : lbl'[f] = lbl[f]
        /\ sem'[s] = 1 /\ \A r \in SemTurno \ {s} : sem'[r] = 0
    BY <1>1, <1>3, <1>7 DEF Terminar, NadaPuesto
  <2>2. \A f \in Etapas : ~Trabaja(f)'
    BY <1>1, <2>1 DEF Trabaja
  <2>3. Ficha' /\ ~SinTurno'
    BY <1>2, <2>1, <2>2 DEF Ficha, SinTurno, NadaPuesto
  <2> QED BY <1>3, <1>4, <2>2, <2>3 DEF Avisando, Trabaja
<1> QED BY <1>5, <1>6, <1>7 DEF SigueEtapa

(* A stage takes the turn its semaphore has: sem_wait(semEBIO) and so on.   *)
LEMMA TurnoDespierta ==
  ASSUME Tipos, Ficha, Cuenta, NEW e \in Etapas, NEW s \in SemTurno, ~Trabaja(e),
         NEW l \in {"turno", "entra"}, sem[s] > 0,
         sem' = [sem EXCEPT ![s] = @ - 1], lbl' = [lbl EXCEPT ![e] = l],
         UNCHANGED <<actual, barrera, consola>>
  PROVE  Ficha' /\ Cuenta'
<1>1. /\ sem \in [Etapas \cup {"pausar"} -> Nat] /\ lbl \in [Etapas -> Rotulos]
      /\ "RE" \in Etapas /\ SemTurno \subseteq Etapas \cup {"pausar"}
  BY DEF Tipos, AnilloOK, TipoAnillo, Etapas, SemTurno
<1>2. /\ \A f \in Etapas : ~Trabaja(f)
      /\ HilosEnCiclo = {} /\ contador = 0 /\ sem[s] = 1
      /\ \A r \in SemTurno \ {s} : sem[r] = 0
      /\ viva /\ ~pausada
  BY <1>1 DEF Ficha, NadaPuesto, SinTurno
<1>3. NadaPuesto' /\ \A f \in Etapas : Trabaja(f)' <=> f = e
  BY <1>1, <1>2 DEF NadaPuesto, Trabaja
<1>4. /\ HilosEnCiclo' = {} /\ contador' = 0 /\ DespiertosUnaVez' /\ viva' /\ ~pausada'
      /\ cons' = cons
  BY <1>2 DEF barrera, consola, HilosEnCiclo, Cuenta, DespiertosUnaVez
<1>5. Ficha' /\ ~SinTurno'
  BY <1>3, <1>4 DEF Ficha, SinTurno, NadaPuesto
<1>6. lbl'["RE"] \notin {"empezar", "avisar"}
  BY <1>1, <1>2 DEF Trabaja
<1>7. EnEspera' = {} /\ Pendientes' = {}
  BY <1>4, <1>6 DEF EnEspera, Pendientes, Avisando
<1>8. Suma' /\ HilosEnCiclo' \cap EnEspera' = {} /\ PorEmpezar' /\ NoSePierde'
  BY <1>4, <1>5, <1>6, <1>7 DEF Suma, PorEmpezar, NoSePierde, Cuenta, Avisando
<1> QED BY <1>4, <1>5, <1>6, <1>8 DEF Cuenta, AvisaAUno, Avisando

(* Nobody has the turn, or a stage has it, before; a semaphore, after. *)
LEMMA TurnoPuesto ==
  ASSUME Tipos, Ficha, Cuenta, HilosEnCiclo = {}, contador = 0, NEW s \in SemTurno,
         HilosEnCiclo' = {}, contador' = 0, DespiertosUnaVez', viva', ~pausada',
         SinExpulsion => cons'.pc \notin Expulsando,
         sem'[s] = 1, \A r \in SemTurno \ {s} : sem'[r] = 0,
         \A f \in Etapas : ~Trabaja(f)'
  PROVE  Ficha' /\ Cuenta'
<1>1. Ficha' /\ ~SinTurno'
  BY DEF Ficha, SinTurno, NadaPuesto
<1>2. lbl'["RE"] \notin {"empezar", "avisar"}
  BY DEF Trabaja, Etapas
<1>3. EnEspera' = {} /\ Pendientes' = {}
  BY <1>2 DEF EnEspera, Pendientes, Avisando
<1>4. Suma' /\ HilosEnCiclo' \cap EnEspera' = {} /\ PorEmpezar' /\ NoSePierde'
  BY <1>1, <1>2, <1>3 DEF Suma, PorEmpezar, NoSePierde, Avisando
<1> QED BY <1>1, <1>2, <1>4 DEF Cuenta, AvisaAUno, Avisando

-----------------------------------------------------------------------------
(* The cycle of the tripulantes: it is opened by Ready->Exec *)

(* cantidadTCBEnExec is how many there are in exec. *)
LEMMA TurnoContar ==
  ASSUME Tipos, Ficha, Cuenta, RE_Contar PROVE Ficha' /\ Cuenta'
<1>1. "RE" \in Etapas /\ Trabaja("RE") /\ ~Avisando /\ lbl["RE"] = "contar" /\ "BLOCKIO" \in SemTurno
  BY DEF RE_Contar, En, Etapas, Trabaja, Avisando, SemTurno
<1>2. /\ HilosEnCiclo = {} /\ contador = 0 /\ NadaPuesto /\ viva /\ ~pausada
      /\ \A f \in Etapas : Trabaja(f) => f = "RE"
  BY <1>1, TurnoDeEtapa
<1>3. /\ sem \in [Etapas \cup {"pausar"} -> Nat] /\ lbl \in [Etapas -> Rotulos]
      /\ SemTurno \subseteq Etapas \cup {"pausar"}
  BY DEF Tipos, AnilloOK, TipoAnillo, Etapas, SemTurno
<1>4. /\ HilosEnCiclo' = {} /\ contador' = 0 /\ DespiertosUnaVez' /\ viva' /\ ~pausada'
      /\ cons' = cons /\ cola' = cola /\ cantidad' = Len(cola["exec"])
  BY <1>2 DEF RE_Contar, consola, HilosEnCiclo, Cuenta, DespiertosUnaVez
<1>5. CASE cantidad' = 0
  <2>1. Terminar("RE", "BLOCKIO")
    BY <1>5 DEF RE_Contar
  <2>2. /\ \A f \in Etapas : ~Trabaja(f)'
        /\ sem'["BLOCKIO"] = 1 /\ \A r \in SemTurno \ {"BLOCKIO"} : sem'[r] = 0
    BY <1>1, <1>2, <1>3, <2>1 DEF Terminar, NadaPuesto, Trabaja
  <2>3. SinExpulsion => cons'.pc \notin Expulsando
    BY <1>4 DEF Cuenta, NoSePierde
  <2> QED BY <1>1, <1>2, <1>4, <2>2, <2>3, TurnoPuesto
<1>6. CASE cantidad' # 0
  <2>1. sem' = sem /\ lbl' = [lbl EXCEPT !["RE"] = "empezar"]
    BY <1>6 DEF RE_Contar, Ir
  <2>2. \A f \in Etapas : Trabaja(f)' <=> f = "RE"
    BY <1>1, <1>2, <1>3, <2>1 DEF Trabaja
  <2>3. Ficha' /\ ~SinTurno'
    BY <1>1, <1>2, <1>4, <2>1, <2>2 DEF Ficha, SinTurno, NadaPuesto
  <2>4. lbl'["RE"] = "empezar" /\ ~Avisando' /\ EnEspera' = {} /\ Pendientes' = {}
    BY <1>1, <1>3, <1>4, <2>1 DEF Avisando, EnEspera, Pendientes
  <2>5. PorEmpezar'
    <3>1. cola["exec"] \in Seq(Trips) /\ Len(cola["exec"]) \in Nat
      BY DEF Tipos, TipoColas, Colas
    <3> QED BY <1>4, <1>6, <3>1 DEF PorEmpezar
  <2>6. Suma' /\ HilosEnCiclo' \cap EnEspera' = {} /\ NoSePierde'
    BY <1>4, <2>3, <2>4 DEF Suma, NoSePierde, Cuenta
  <2> QED BY <1>4, <2>3, <2>4, <2>5, <2>6 DEF Cuenta, AvisaAUno
<1> QED BY <1>5, <1>6

(* The pass over exec that wakes them starts at its first node. *)
LEMMA TurnoEmpezar ==
  ASSUME Tipos, LugarOK, Ficha, Cuenta, RE_Empezar PROVE Ficha' /\ Cuenta'
<1>1. "RE" \in Etapas /\ Trabaja("RE") /\ ~Avisando /\ lbl["RE"] = "empezar"
  BY DEF RE_Empezar, En, Etapas, Trabaja, Avisando
<1>2. /\ HilosEnCiclo = {} /\ contador = 0 /\ NadaPuesto /\ viva /\ ~pausada
      /\ \A f \in Etapas : Trabaja(f) => f = "RE"
  BY <1>1, TurnoDeEtapa
<1>3. lbl \in [Etapas -> Rotulos] /\ actual \in [Etapas -> TripsONada]
  BY DEF Tipos, AnilloOK, TipoAnillo
<1>4. /\ HilosEnCiclo' = {} /\ contador' = 0 /\ DespiertosUnaVez' /\ viva' /\ ~pausada'
      /\ cons' = cons /\ cola' = cola /\ cantidad' = cantidad
  BY <1>2 DEF RE_Empezar, barrera, consola, HilosEnCiclo, Cuenta, DespiertosUnaVez
<1> DEFINE s == cola["exec"]
<1>5. /\ s \in Seq(Trips) /\ NoRepite(s) /\ Len(s) <= cantidad /\ Len(s) \in Nat
      /\ cantidad \in Nat
      /\ (SinExpulsion => Len(s) = cantidad /\ cantidad > 0)
  BY <1>1 DEF Tipos, TipoColas, Colas, LugarOK, SinRepetir, Cuenta, PorEmpezar, TipoBarrera
<1>6. CASE s = <<>>
  <2>1. Ir("RE", "espera", Nadie) /\ ~SinExpulsion
    BY <1>5, <1>6 DEF RE_Empezar
  <2>2. /\ sem' = sem /\ \A f \in Etapas : ~Trabaja(f)'
    BY <1>1, <1>2, <1>3, <2>1 DEF Ir, Trabaja
  <2>3. NadaPuesto'
    BY <1>2, <2>2 DEF NadaPuesto
  <2>4. Ficha'
    BY <1>4, <2>2, <2>3 DEF Ficha, NadaPuesto, SinTurno
  <2>5. lbl'["RE"] = "espera" /\ EnEspera' = {} /\ Pendientes' = {}
    BY <1>1, <1>3, <1>4, <2>1 DEF Ir, EnEspera, Pendientes, Avisando
  <2> QED BY <1>4, <2>1, <2>4, <2>5 DEF Cuenta, Suma, PorEmpezar, NoSePierde, AvisaAUno, Avisando
<1>7. CASE s # <<>>
  <2>1. Ir("RE", "avisar", Head(s))
    BY <1>7 DEF RE_Empezar
  <2>2. /\ sem' = sem /\ \A f \in Etapas : Trabaja(f)' <=> f = "RE"
        /\ lbl'["RE"] = "avisar" /\ actual'["RE"] = Head(s)
    BY <1>1, <1>2, <1>3, <2>1 DEF Ir, Trabaja
  <2>3. NadaPuesto' /\ Avisando'
    BY <1>2, <2>2 DEF NadaPuesto, Avisando
  <2>4. Ficha' /\ ~SinTurno'
    BY <1>1, <1>4, <2>2, <2>3 DEF Ficha, SinTurno, NadaPuesto
  <2>5. Head(s) \in Trips /\ Contains(s, Head(s))
        /\ \A w : Contains(s, w) <=> w = Head(s) \/ Detras(s, Head(s), w)
    <3> HIDE DEF s
    <3> QED BY <1>5, <1>7, CabezaDetras
  <2>6. EnEspera' = {w \in Trips : Contains(s, w)}
    BY <1>4, <2>2, <2>3, <2>5 DEF EnEspera
  <2>7. Pendientes' = {w \in Trips : Contains(s, w)}
    BY <1>4, <2>6 DEF Pendientes
  <2>8. Cardinality(Pendientes') = Len(s)
    <3> HIDE DEF s
    <3> QED BY <1>5, <2>7, TantosComoLugares
  <2>9. Suma'
    BY <1>4, <1>5, <2>8 DEF Suma
  <2>10. NoSePierde' /\ PorEmpezar'
    BY <1>4, <2>2, <2>4, <2>5 DEF NoSePierde, PorEmpezar, Cuenta, Esta
  <2> QED BY <1>4, <2>2, <2>4, <2>5, <2>9, <2>10 DEF Cuenta, AvisaAUno
<1> QED BY <1>6, <1>7

(* Each is woken once, and the last one leaves the turn to them. *)
LEMMA TurnoAvisar ==
  ASSUME Tipos, LugarOK, Ficha, Cuenta, RE_Avisar PROVE Ficha' /\ Cuenta'
<1> DEFINE s == cola["exec"]
           t == actual["RE"]
           u == Siguiente(s, t)
<1>1. /\ "RE" \in Etapas /\ lbl["RE"] = "avisar" /\ Avisando /\ Trabaja("RE")
      /\ Contains(s, t) /\ s \in Seq(Trips) /\ NoRepite(s) /\ t \in Trips
  <2>1. /\ "RE" \in Etapas /\ lbl["RE"] = "avisar" /\ Avisando /\ Trabaja("RE")
        /\ Contains(s, t) /\ s \in Seq(Trips) /\ NoRepite(s)
    BY DEF RE_Avisar, En, Etapas, Avisando, Trabaja, Esta, Tipos, TipoColas, Colas, LugarOK, SinRepetir
  <2>2. t \in Trips
    <3> HIDE DEF s, t
    <3> QED BY <2>1 DEF Contains
  <2> QED BY <2>1, <2>2
<1>2. /\ NadaPuesto /\ viva /\ ~pausada /\ \A f \in Etapas : Trabaja(f) => f = "RE"
  BY <1>1 DEF Ficha, SinTurno
<1>3. /\ lbl \in [Etapas -> Rotulos] /\ actual \in [Etapas -> TripsONada]
      /\ semT \in [Trips -> Nat] /\ hilo \in [Trips -> Hilos]
  BY DEF Tipos, AnilloOK, TipoAnillo, TipoBarrera
<1>4. /\ ~Detras(s, t, t)
      /\ u = Nadie => \A w : ~Detras(s, t, w)
      /\ u # Nadie => /\ u \in Trips /\ Contains(s, u)
                      /\ \A w : Detras(s, t, w) <=> w = u \/ Detras(s, u, w)
  <2> HIDE DEF s, t
  <2> QED BY <1>1, SiguienteDetras
<1>5. /\ semT' = [semT EXCEPT ![t] = @ + 1] /\ sem' = sem
      /\ lbl'["RE"] = (IF u = Nadie THEN "espera" ELSE "avisar") /\ actual'["RE"] = u
      /\ \A f \in Etapas \ {"RE"} : lbl'[f] = lbl[f]
      /\ hilo' = hilo /\ cantidad' = cantidad /\ contador' = contador /\ cola' = cola
      /\ cons' = cons /\ viva' = viva /\ pausada' = pausada
  BY <1>1, <1>3 DEF RE_Avisar, Ir, consola
<1> HIDE DEF s, t, u
<1>6. EnEspera = {w \in Trips : w = t \/ Detras(s, t, w)}
  BY <1>1 DEF EnEspera, s, t
<1>7. t \notin HilosEnCiclo
  BY <1>1, <1>6 DEF Cuenta
<1>8. semT[t] = 0 /\ hilo[t] \notin EnObra
  BY <1>1, <1>3, <1>7 DEF HilosEnCiclo, EnObra
<1>9. HilosEnCiclo' = HilosEnCiclo \cup {t}
  <2>1. \A w \in Trips : semT'[w] > 0 <=> w = t \/ semT[w] > 0
    BY <1>1, <1>3, <1>5, <1>8
  <2> QED BY <1>1, <1>5, <2>1 DEF HilosEnCiclo
<1>10. EnEspera' = EnEspera \ {t}
  <2>1. CASE u = Nadie
    <3>1. ~Avisando'
      BY <1>5, <2>1 DEF Avisando
    <3> QED BY <1>4, <1>6, <2>1, <3>1 DEF EnEspera
  <2>2. CASE u # Nadie
    <3>1. EnEspera' = {w \in Trips : w = u \/ Detras(s, u, w)}
      BY <1>5, <2>2 DEF EnEspera, Avisando, s
    <3> QED BY <1>4, <1>6, <2>2, <3>1
  <2> QED BY <2>1, <2>2
<1>11. Pendientes' = Pendientes
  BY <1>1, <1>6, <1>9, <1>10 DEF Pendientes
<1>12. HilosEnCiclo' \cap EnEspera' = {}
  BY <1>9, <1>10 DEF Cuenta
<1>13. DespiertosUnaVez'
  BY <1>1, <1>3, <1>5, <1>8 DEF Cuenta, DespiertosUnaVez
<1>14. Suma'
  BY <1>5, <1>11 DEF Cuenta, Suma
<1>15. Ficha' /\ ~SinTurno'
  <2>1. \A f \in Etapas : Trabaja(f)' => f = "RE" /\ Avisando'
    BY <1>2, <1>5 DEF Trabaja, Avisando
  <2>2. NadaPuesto'
    BY <1>2, <1>5 DEF NadaPuesto
  <2> QED BY <1>2, <1>5, <1>9, <2>1, <2>2 DEF Ficha, NadaPuesto, SoloAvisa, SinTurno
<1>16. PorEmpezar' /\ NoSePierde'
  BY <1>4, <1>5, <1>15 DEF PorEmpezar, NoSePierde, Avisando, Cuenta, Esta, s
<1>17. AvisaAUno'
  BY <1>4, <1>5 DEF AvisaAUno, Avisando
<1> QED BY <1>12, <1>13, <1>14, <1>15, <1>16, <1>17 DEF Cuenta

-----------------------------------------------------------------------------
(* The cycle of the tripulantes: they close it *)

(* A thread that is woken is in the cycle until it signals. *)
LEMMA CicloHilo ==
  ASSUME Tipos, Cuenta, NEW t \in Trips, Tomar(t) \/ Actuar(t) \/ LlegarAlSabotaje(t) \/ Reparar(t)
  PROVE  CicloQuieto
<1>1. semT \in [Trips -> Nat] /\ hilo \in [Trips -> Hilos]
  BY DEF Tipos, TipoBarrera
<1>2. \A w \in Trips : semT[w] <= 1 /\ (semT[w] > 0 => hilo[w] \notin EnObra)
  BY DEF Cuenta, DespiertosUnaVez
<1>3. Sigue(t) \in EnObra /\ "actua" \in EnObra /\ "repara" \in EnObra
  BY DEF Sigue, EnObra
<1>4. CASE Tomar(t)
  <2>1. /\ semT' = [semT EXCEPT ![t] = @ - 1] /\ semT[t] > 0
        /\ UNCHANGED <<cantidad, contador>>
    BY <1>4 DEF Tomar
  <2>2. hilo'[t] \in EnObra /\ \A w \in Trips \ {t} : hilo'[w] = hilo[w]
    BY <1>1, <1>3, <1>4 DEF Tomar
  <2>3. semT'[t] = 0 /\ \A w \in Trips \ {t} : semT'[w] = semT[w]
    BY <1>1, <1>2, <2>1
  <2>4. HilosEnCiclo' = HilosEnCiclo
    BY <2>1, <2>2, <2>3 DEF HilosEnCiclo, EnObra
  <2>5. DespiertosUnaVez'
    BY <1>2, <2>2, <2>3 DEF DespiertosUnaVez
  <2> QED BY <2>1, <2>4, <2>5 DEF CicloQuieto
<1>5. CASE Actuar(t) \/ LlegarAlSabotaje(t) \/ Reparar(t)
  <2>1. /\ UNCHANGED <<semT, cantidad, contador>> /\ hilo[t] \in EnObra
        /\ hilo'[t] \in EnObra /\ \A w \in Trips \ {t} : hilo'[w] = hilo[w]
    BY <1>1, <1>3, <1>5 DEF Actuar, LlegarAlSabotaje, Reparar, EnHilo, EnObra
  <2>2. HilosEnCiclo' = HilosEnCiclo
    BY <2>1 DEF HilosEnCiclo, EnObra
  <2>3. DespiertosUnaVez'
    BY <1>2, <2>1 DEF DespiertosUnaVez
  <2> QED BY <2>1, <2>2, <2>3 DEF CicloQuieto
<1> QED BY <1>4, <1>5

(* _signal: the one that makes the count is the last, and posts semER. *)
LEMMA TurnoSignal ==
  ASSUME Tipos, Ficha, Cuenta, NEW t \in Trips, Signal(t)
  PROVE  Ficha' /\ Cuenta'
<1>1. /\ semT \in [Trips -> Nat] /\ hilo \in [Trips -> Hilos] /\ cantidad \in Nat /\ contador \in Nat
      /\ sem \in [Etapas \cup {"pausar"} -> Nat] /\ lbl \in [Etapas -> Rotulos]
      /\ SemTurno \subseteq Etapas \cup {"pausar"} /\ "ER" \in SemTurno /\ "RE" \in Etapas
  BY DEF Tipos, AnilloOK, TipoAnillo, TipoBarrera, SemTurno, Etapas
<1>2. hilo[t] \in EnObra /\ t \in HilosEnCiclo /\ semT[t] = 0
  <2>1. hilo[t] \in EnObra
    BY DEF Signal, EnHilo, EnObra
  <2>2. semT[t] <= 1 /\ ~(semT[t] > 0)
    BY <2>1 DEF Cuenta, DespiertosUnaVez
  <2> QED BY <1>1, <2>1, <2>2 DEF HilosEnCiclo, EnObra
<1>3. NadaPuesto /\ SoloAvisa /\ viva /\ ~pausada
  BY <1>2 DEF Ficha, SinTurno
<1>4. /\ semT' = semT /\ hilo'[t] \notin EnObra /\ \A w \in Trips \ {t} : hilo'[w] = hilo[w]
      /\ UNCHANGED <<lbl, actual, cola, cons, viva, pausada>>
  BY <1>1 DEF Signal, EnObra, consola
<1>5. HilosEnCiclo' = HilosEnCiclo \ {t}
  BY <1>2, <1>4 DEF HilosEnCiclo, EnObra
<1>6. DespiertosUnaVez'
  BY <1>4 DEF Cuenta, DespiertosUnaVez
<1>7. EnEspera' = EnEspera /\ t \notin EnEspera
  BY <1>2, <1>4 DEF EnEspera, Avisando, Cuenta
<1>8. Pendientes' = Pendientes \ {t} /\ t \in Pendientes
  BY <1>2, <1>5, <1>7 DEF Pendientes
<1>9. /\ Cardinality(Pendientes') = Cardinality(Pendientes) - 1
      /\ Cardinality(Pendientes) \in Nat /\ Cardinality(Pendientes') \in Nat
      /\ (Cardinality(Pendientes') = 0 <=> Pendientes' = {})
  <2>1. IsFiniteSet(Pendientes) /\ IsFiniteSet(Pendientes \ {t})
    BY PendientesFinitos, FS_RemoveElement
  <2> QED BY <1>8, <2>1, FS_RemoveElement, FS_CardinalityType, FS_EmptySet
<1>10. /\ Cardinality(Pendientes) + contador <= cantidad
       /\ SinExpulsion => Cardinality(Pendientes) + contador = cantidad
  BY <1>8 DEF Cuenta, Suma
<1>11. HilosEnCiclo' \cap EnEspera' = {}
  BY <1>5, <1>7 DEF Cuenta
<1>12. SinExpulsion => cons'.pc \notin Expulsando /\ (Avisando' => Esta("exec", actual["RE"])')
  BY <1>4 DEF Cuenta, NoSePierde, Avisando, Esta
<1>13. CASE Ultimo
  <2>1. contador + 1 = cantidad /\ contador' = 0 /\ sem' = [sem EXCEPT !["ER"] = @ + 1]
    BY <1>13 DEF Signal, Ultimo
  <2>2. Pendientes' = {}
    BY <1>1, <1>9, <1>10, <2>1
  <2>3. HilosEnCiclo' = {} /\ ~Avisando'
    <3>1. EnEspera' = {} /\ HilosEnCiclo' = {}
      BY <2>2 DEF Pendientes
    <3>2. Avisando => actual["RE"] \in EnEspera
      <4>1. Avisando => actual["RE"] \in Trips
        BY DEF Cuenta, AvisaAUno
      <4> QED BY <4>1 DEF EnEspera
    <3> QED BY <1>4, <1>7, <3>1, <3>2 DEF Avisando
  <2>4. \A f \in Etapas : ~Trabaja(f)'
    BY <1>3, <1>4, <2>3 DEF SoloAvisa, Trabaja, Avisando
  <2>5. sem'["ER"] = 1 /\ \A r \in SemTurno \ {"ER"} : sem'[r] = 0
    BY <1>1, <1>3, <2>1 DEF NadaPuesto
  <2>6. Ficha' /\ ~SinTurno'
    BY <1>1, <1>3, <1>4, <2>1, <2>3, <2>4, <2>5 DEF Ficha, SinTurno, NadaPuesto
  <2>7. Suma' /\ PorEmpezar'
    BY <1>1, <2>2, <2>4 DEF Suma, PorEmpezar, Trabaja
  <2> QED BY <1>6, <1>11, <1>12, <2>3, <2>6, <2>7 DEF Cuenta, NoSePierde, AvisaAUno
<1>14. CASE ~Ultimo
  <2>1. contador' = contador + 1 /\ cantidad' = cantidad /\ sem' = sem
    BY <1>1, <1>14 DEF Signal, Ultimo
  <2>2. Suma'
    BY <1>1, <1>9, <1>10, <2>1 DEF Suma
  <2>3. SinExpulsion => Pendientes' # {}
    BY <1>1, <1>9, <1>10, <1>14, <2>1 DEF Ultimo
  <2>4. Pendientes' # {} => ~SinTurno'
    BY <1>1 DEF Pendientes, EnEspera, SinTurno, Trabaja, Avisando
  <2>5. Ficha'
    BY <1>3, <1>4, <2>1 DEF Ficha, NadaPuesto, SoloAvisa, Trabaja, Avisando
  <2>6. PorEmpezar'
    <3>1. lbl["RE"] # "empezar"
      BY <1>1, <1>3 DEF SoloAvisa, Trabaja, Avisando
    <3> QED BY <1>4, <3>1 DEF PorEmpezar
  <2>7. AvisaAUno'
    BY <1>4 DEF Cuenta, AvisaAUno, Avisando
  <2> QED BY <1>6, <1>11, <1>12, <2>2, <2>3, <2>4, <2>5, <2>6, <2>7 DEF Cuenta, NoSePierde
<1> QED BY <1>13, <1>14

-----------------------------------------------------------------------------
(* Each component keeps the turn in one place *)

(* A step of New->Ready. *)
LEMMA SigueNewReady ==
  ASSUME NewReady
  PROVE  Trabaja("NR") /\ SigueEtapa("NR") /\ UNCHANGED <<barrera, consola>>
<1>1. CASE NR_Entra
  BY <1>1 DEF NR_Entra, En, Trabaja, SigueEtapa, Rotulos, SemTurno, Etapas
<1>2. CASE NR_IniciarPatota
  BY <1>2 DEF NR_IniciarPatota, En, Trabaja, SigueEtapa, Rotulos
<1>3. CASE NR_PrimeraTarea
  BY <1>3 DEF NR_PrimeraTarea, En, Trabaja, SigueEtapa, Rotulos
<1>4. CASE NR_SinPatotas \/ NR_Sacar \/ NR_Poner
  BY <1>4 DEF NR_SinPatotas, NR_Sacar, NR_Poner, En, Trabaja, SigueEtapa, Rotulos
<1>5. CASE NR_Fin
  BY <1>5 DEF NR_Fin, En, Trabaja, SigueEtapa, SemTurno, Etapas
<1> QED BY <1>1, <1>2, <1>3, <1>4, <1>5 DEF NewReady

(* A step of a pass over exec. *)
LEMMA SigueRecorreExec ==
  ASSUME NEW e \in Recorridos, RecorreExec(e)
  PROVE  Trabaja(e) /\ SigueEtapa(e) /\ UNCHANGED <<barrera, consola>>
<1>1. Proximo[e] \in SemTurno /\ e # "RE"
  BY DEF Recorridos, Proximo, SemTurno, Etapas
<1>2. CASE Recorrer(e)
  BY <1>1, <1>2 DEF Recorrer, En, Trabaja, SigueEtapa, Rotulos
<1>3. CASE Visitar(e)
  BY <1>1, <1>3 DEF Visitar, Avanzar, En, Trabaja, SigueEtapa, Rotulos
<1>4. CASE VisitarLiberado(e)
  BY <1>1, <1>4 DEF VisitarLiberado, En, Trabaja, SigueEtapa
<1> QED BY <1>2, <1>3, <1>4 DEF RecorreExec

(* A step of Ready->Exec before it counts. *)
LEMMA SigueReadyExec ==
  ASSUME RE_Entra \/ RE_Sacar \/ RE_Poner \/ RE_Lleno
  PROVE  Trabaja("RE") /\ ~Avisando /\ SigueEtapa("RE") /\ UNCHANGED <<barrera, consola>>
BY DEF RE_Entra, RE_Sacar, RE_Poner, RE_Lleno, En, Trabaja, Avisando, SigueEtapa, Rotulos

(* A step of the stage of BloqIO. *)
LEMMA SigueBloqIO ==
  ASSUME BloqIO
  PROVE  Trabaja("BLOCKIO") /\ SigueEtapa("BLOCKIO") /\ UNCHANGED <<barrera, consola>>
<1>1. CASE BIO_Entra \/ BIO_Pedir
  BY <1>1 DEF BIO_Entra, BIO_Pedir, En, Trabaja, SigueEtapa, Rotulos
<1>2. CASE BIO_Contar
  BY <1>2 DEF BIO_Contar, En, Trabaja, SigueEtapa, Rotulos
<1>3. CASE BIO_Salir
  BY <1>3 DEF BIO_Salir, En, Trabaja, SigueEtapa, SemTurno, Etapas
<1> QED BY <1>1, <1>2, <1>3 DEF BloqIO

(* A step of the stage that empties exec and ready. *)
LEMMA SigueAEmergencia ==
  ASSUME AEmergencia
  PROVE  Trabaja("ERM") /\ SigueEtapa("ERM") /\ UNCHANGED <<barrera, consola>>
<1>1. CASE ERM_Entra
  BY <1>1 DEF ERM_Entra, En, Trabaja, SigueEtapa, Rotulos, SemTurno, Etapas
<1>2. CASE ERM_SacarFixer
  BY <1>2 DEF ERM_SacarFixer, En, Trabaja, SigueEtapa, Rotulos
<1>3. CASE ERM_Restaurar
  BY <1>3 DEF ERM_Restaurar, En, Trabaja, SigueEtapa, SemTurno, Etapas
<1>4. CASE ERM_Sacar \/ ERM_Poner
  BY <1>4 DEF ERM_Sacar, ERM_Poner, En, Trabaja, SigueEtapa, Rotulos
<1>5. CASE ERM_Elegir
  BY <1>5 DEF ERM_Elegir, En, Trabaja, SigueEtapa, SemTurno, Etapas
<1> QED BY <1>1, <1>2, <1>3, <1>4, <1>5 DEF AEmergencia

(* A step of the stage that gives them back to ready. *)
LEMMA SigueAReady ==
  ASSUME AReady
  PROVE  Trabaja("MR") /\ SigueEtapa("MR") /\ UNCHANGED <<barrera, consola>>
BY DEF AReady, MR_Entra, MR_Sacar, MR_Poner, MR_Resolver, En, Trabaja, SigueEtapa, Rotulos,
   SemTurno, Etapas

(* The stages. *)
LEMMA TurnoTrabajar ==
  ASSUME Tipos, Tipos', LugarOK, Ficha, Cuenta, NEW e \in Etapas, Trabajar(e)
  PROVE  Ficha' /\ Cuenta'
<1>1. CASE e = "NR"
  <2>1. NewReady
    BY <1>1 DEF Trabajar, Recorridos
  <2> QED BY <1>1, <2>1, SigueNewReady, TurnoEtapa
<1>2. CASE e \in Recorridos
  <2>1. RecorreExec(e) /\ e # "RE"
    BY <1>2 DEF Trabajar, Recorridos
  <2> QED BY <1>2, <2>1, SigueRecorreExec, TurnoEtapa
<1>3. CASE e = "RE"
  <2>1. ReadyExec
    BY <1>3 DEF Trabajar, Recorridos
  <2>2. CASE RE_Entra \/ RE_Sacar \/ RE_Poner \/ RE_Lleno
    BY <1>3, <2>2, SigueReadyExec, TurnoEtapa
  <2>3. CASE VisitarLiberado("RE")
    <3>1. /\ UNCHANGED <<lbl, actual, viva, pausada, cola, sem, cantidad, contador, semT, hilo, cons>>
      BY <2>3 DEF VisitarLiberado, anillo, barrera, consola
    <3>2. CicloQuieto
      BY <3>1 DEF CicloQuieto, HilosEnCiclo, Cuenta, DespiertosUnaVez
    <3> QED BY <3>1, <3>2, TurnoQuieto DEF ExecMengua, Cuenta, NoSePierde
  <2> QED BY <2>1, <2>2, <2>3, TurnoContar, TurnoEmpezar, TurnoAvisar DEF ReadyExec
<1>4. CASE e = "BLOCKIO"
  <2>1. BloqIO
    BY <1>4 DEF Trabajar, Recorridos
  <2> QED BY <1>4, <2>1, SigueBloqIO, TurnoEtapa
<1>5. CASE e = "ERM"
  <2>1. AEmergencia
    BY <1>5 DEF Trabajar, Recorridos
  <2> QED BY <1>5, <2>1, SigueAEmergencia, TurnoEtapa
<1>6. CASE e = "MR"
  <2>1. AReady
    BY <1>6 DEF Trabajar, Recorridos
  <2> QED BY <1>6, <2>1, SigueAReady, TurnoEtapa
<1>7. CASE e = "EXIT"
  <2>1. EXIT_Cerrar
    BY <1>7 DEF Trabajar, Recorridos
  <2>2. /\ lbl["EXIT"] = "entra" /\ lbl' = [lbl EXCEPT !["EXIT"] = "espera"]
        /\ sem' = [sem EXCEPT !["pausar"] = @ + 1, !["NR"] = @ + 1]
        /\ UNCHANGED <<actual, barrera, cola, consola>>
    BY <2>1 DEF EXIT_Cerrar, En
  <2>3. /\ HilosEnCiclo = {} /\ contador = 0 /\ NadaPuesto /\ viva /\ ~pausada
        /\ \A f \in Etapas : Trabaja(f) => f = "EXIT"
    BY <1>7, <2>2, TurnoDeEtapa DEF Trabaja
  <2>4. /\ sem \in [Etapas \cup {"pausar"} -> Nat] /\ lbl \in [Etapas -> Rotulos]
        /\ SemTurno \subseteq Etapas \cup {"pausar"} /\ "pausar" \in SemTurno /\ "NR" \notin SemTurno
    BY DEF Tipos, AnilloOK, TipoAnillo, Etapas, SemTurno
  <2>5. /\ HilosEnCiclo' = {} /\ contador' = 0 /\ DespiertosUnaVez' /\ viva' /\ ~pausada'
        /\ (SinExpulsion => cons'.pc \notin Expulsando)
    BY <2>2, <2>3 DEF barrera, consola, HilosEnCiclo, Cuenta, DespiertosUnaVez, NoSePierde
  <2>6. sem'["pausar"] = 1 /\ \A r \in SemTurno \ {"pausar"} : sem'[r] = 0
    BY <2>2, <2>3, <2>4 DEF NadaPuesto
  <2>7. \A f \in Etapas : ~Trabaja(f)'
    BY <2>2, <2>3, <2>4 DEF Trabaja
  <2> QED BY <2>3, <2>4, <2>5, <2>6, <2>7, TurnoPuesto
<1> QED BY <1>1, <1>2, <1>3, <1>4, <1>5, <1>6, <1>7 DEF Etapas, Recorridos

(* sem_wait of a stage. *)
LEMMA TurnoEsperar ==
  ASSUME Tipos, Tipos', Ficha, Cuenta, TomarPausar \/ \E e \in Etapas : Despertar(e)
  PROVE  Ficha' /\ Cuenta'
<1>1. /\ sem \in [Etapas \cup {"pausar"} -> Nat] /\ lbl \in [Etapas -> Rotulos]
      /\ "pausar" \in SemTurno /\ "NR" \in Etapas /\ "RE" \in Etapas /\ "NR" \notin SemTurno
      /\ \A e \in Etapas : e # "NR" => e \in SemTurno
      /\ SemTurno \subseteq Etapas \cup {"pausar"}
  BY DEF Tipos, AnilloOK, TipoAnillo, Etapas, SemTurno
<1>2. CASE TomarPausar
  <2>1. ~Trabaja("NR") /\ sem["pausar"] > 0 /\ sem' = [sem EXCEPT !["pausar"] = @ - 1]
        /\ lbl' = [lbl EXCEPT !["NR"] = "turno"] /\ UNCHANGED <<actual, barrera, consola>>
    BY <1>2 DEF TomarPausar, En, Trabaja
  <2> QED BY <1>1, <2>1, TurnoDespierta
<1>3. ASSUME NEW e \in Etapas, Despertar(e), e # "NR" PROVE Ficha' /\ Cuenta'
  <2>1. ~Trabaja(e) /\ sem[e] > 0 /\ sem' = [sem EXCEPT ![e] = @ - 1]
        /\ lbl' = [lbl EXCEPT ![e] = "entra"] /\ UNCHANGED <<actual, barrera, consola>>
    BY <1>3 DEF Despertar, En, Trabaja
  <2> QED BY <1>1, <1>3, <2>1, TurnoDespierta
<1>4. CASE Despertar("NR")
  <2>1. /\ lbl["NR"] = "turno" /\ sem' = [sem EXCEPT !["NR"] = @ - 1]
        /\ lbl' = [lbl EXCEPT !["NR"] = "entra"] /\ UNCHANGED <<actual, barrera, cola, consola>>
    BY <1>4 DEF Despertar, En
  <2>2. /\ HilosEnCiclo = {} /\ contador = 0 /\ NadaPuesto /\ viva /\ ~pausada
        /\ \A f \in Etapas : Trabaja(f) => f = "NR"
    BY <1>1, <2>1, TurnoDeEtapa DEF Trabaja
  <2>3. /\ HilosEnCiclo' = {} /\ contador' = 0 /\ DespiertosUnaVez' /\ viva' /\ ~pausada'
        /\ (SinExpulsion => cons'.pc \notin Expulsando)
    BY <2>1, <2>2 DEF barrera, consola, HilosEnCiclo, Cuenta, DespiertosUnaVez, NoSePierde
  <2>4. \A f \in Etapas : Trabaja(f)' <=> f = "NR"
    BY <1>1, <2>1, <2>2 DEF Trabaja
  <2>5. NadaPuesto'
    BY <1>1, <2>1, <2>2 DEF NadaPuesto
  <2>6. Ficha' /\ ~SinTurno'
    BY <1>1, <2>3, <2>4, <2>5 DEF Ficha, SinTurno, NadaPuesto
  <2>7. lbl'["RE"] = "espera"
    BY <1>1, <2>4 DEF Trabaja
  <2>8. EnEspera' = {} /\ Pendientes' = {} /\ ~Avisando'
    BY <2>3, <2>7 DEF EnEspera, Pendientes, Avisando
  <2> QED BY <2>3, <2>6, <2>7, <2>8 DEF Cuenta, Suma, PorEmpezar, NoSePierde, AvisaAUno
<1> QED BY <1>2, <1>3, <1>4

(* The threads of the tripulantes. *)
LEMMA TurnoHilo ==
  ASSUME Tipos, Tipos', Ficha, Cuenta, NEW t \in Trips, Hilo(t)
  PROVE  Ficha' /\ Cuenta'
<1>1. CASE Signal(t)
  BY <1>1, TurnoSignal
<1>2. CASE Tomar(t) \/ Actuar(t) \/ LlegarAlSabotaje(t) \/ Reparar(t)
  <2>1. CicloQuieto
    BY <1>2, CicloHilo
  <2>2. UNCHANGED <<anillo, cola, consola>>
    BY <1>2 DEF Tomar, Actuar, LlegarAlSabotaje, Reparar
  <2> QED BY <2>1, <2>2, TurnoQuieto DEF anillo, consola, ExecMengua, Cuenta, NoSePierde
<1> QED BY <1>1, <1>2 DEF Hilo

(* The barrier is left alone. *)
LEMMA CicloDeNadie ==
  ASSUME Cuenta, UNCHANGED <<semT, hilo, cantidad, contador>>
  PROVE  CicloQuieto
BY DEF CicloQuieto, HilosEnCiclo, Cuenta, DespiertosUnaVez

(* The console, but for the planning commands: at most it takes from exec.  *)
LEMMA TurnoExpulsar ==
  ASSUME Tipos, Tipos', Ficha, Cuenta, ExpulsarTripulante
  PROVE  Ficha' /\ Cuenta'
<1>1. /\ UNCHANGED <<lbl, actual, viva, pausada, sem, semT, hilo, cantidad, contador>>
  BY DEF ExpulsarTripulante, SeguirExpulsion, EXP_RAM, EXP_Estado, EXP_Buscar, EXP_Extraer,
     EXP_Extraido, EXP_Patota, anillo, barrera
<1>2. CicloQuieto
  BY <1>1, CicloDeNadie
<1>3. ~SinExpulsion
  <2>1. CASE \E t \in Trips : EXP_RAM(t)
    <3>1. usos.expulsiones < MaxExpulsiones /\ usos.expulsiones \in Nat
      BY <2>1 DEF EXP_RAM, Tipos, ConsolaOK, TipoConsola, Usos
    <3> QED BY <3>1 DEF SinExpulsion
  <2>2. CASE SeguirExpulsion
    <3>1. cons.pc \in Expulsando
      BY <2>2 DEF SeguirExpulsion, EXP_Estado, EXP_Buscar, EXP_Extraer, EXP_Extraido, EXP_Patota,
         EnConsola, Expulsando
    <3> QED BY <3>1 DEF Cuenta, NoSePierde
  <2> QED BY <2>1, <2>2 DEF ExpulsarTripulante
<1>4. ExecMengua
  <2>1. CASE EXP_Extraer
    <3> DEFINE q == cola[cons.cola]
    <3>1. CASE cola' = cola
      BY <3>1 DEF ExecMengua
    <3>2. CASE cola' # cola
      <4>1. /\ cons.i <= Len(q)
            /\ cola' = [[cola EXCEPT ![cons.cola] = RemoveAt(@, cons.i)]
                                EXCEPT !["exit"] = Append(@, q[cons.i])]
        BY <2>1, <3>2 DEF EXP_Extraer
      <4>2. /\ cola \in [Colas -> Seq(Trips)] /\ cons.cola \in Colas /\ "exec" \in Colas
            /\ cons.i \in Nat \ {0} /\ "exit" # "exec"
        BY <2>1 DEF Tipos, TipoColas, ConsolaOK, TipoConsola, Comandos, Colas, EXP_Extraer, EnConsola
      <4>3. CASE cons.cola # "exec"
        BY <4>1, <4>2, <4>3 DEF ExecMengua
      <4>4. CASE cons.cola = "exec"
        <5>1. cola'["exec"] = RemoveAt(cola["exec"], cons.i)
          BY <4>1, <4>2, <4>4
        <5>2. cola["exec"] \in Seq(Trips) /\ cons.i \in 1..Len(cola["exec"])
          BY <4>1, <4>2, <4>4
        <5>3. Len(RemoveAt(cola["exec"], cons.i)) = Len(cola["exec"]) - 1 /\ Len(cola["exec"]) \in Nat
          BY <5>2, RemoveAtTipo
        <5>4. \A t, u \in Trips : Detras(RemoveAt(cola["exec"], cons.i), t, u) => Detras(cola["exec"], t, u)
          BY <5>2, SinUnoDetras
        <5> QED BY <1>3, <5>1, <5>3, <5>4 DEF ExecMengua
      <4> QED BY <4>3, <4>4
    <3> QED BY <3>1, <3>2
  <2>2. CASE ~EXP_Extraer
    <3>1. cola' = cola
      BY <2>2 DEF ExpulsarTripulante, SeguirExpulsion, EXP_RAM, EXP_Estado, EXP_Buscar,
         EXP_Extraido, EXP_Patota
    <3> QED BY <3>1 DEF ExecMengua
  <2> QED BY <2>1, <2>2
<1> QED BY <1>1, <1>2, <1>3, <1>4, TurnoQuieto

(* PAUSAR_PLANIFICACION takes the turn from semPausar, and what             *)
(* INICIAR_PLANIFICACION posts there is the only one, if it is not typed    *)
(* while the planning runs.                                                 *)
LEMMA TurnoPlanificacion ==
  ASSUME MaxReinicios = 0, Tipos, Tipos', Ficha, Cuenta,
         IniciarPlanificacion \/ PausarPlanificacion
  PROVE  Ficha' /\ Cuenta'
<1>1. /\ sem \in [Etapas \cup {"pausar"} -> Nat] /\ lbl \in [Etapas -> Rotulos]
      /\ SemTurno \subseteq Etapas \cup {"pausar"} /\ "pausar" \in SemTurno /\ "NR" \notin SemTurno
      /\ "RE" \in Etapas
  BY DEF Tipos, AnilloOK, TipoAnillo, Etapas, SemTurno
<1>2. cons'.pc \notin Expulsando
  BY DEF IniciarPlanificacion, PausarPlanificacion, INI_Pausar, INI_Turno, PAU_Pedir, PAU_Tomar,
     Consola, Tipos, ConsolaOK, TipoConsola, Comandos, Expulsando
<1>3. CASE INI_Pausar
  <2>1. ~viva \/ pausada
    BY <1>3 DEF INI_Pausar, Tipos, ConsolaOK, TipoConsola, Usos
  <2>2. /\ viva' /\ ~pausada' /\ sem' = [sem EXCEPT !["pausar"] = @ + 1]
        /\ UNCHANGED <<lbl, actual, barrera, cola>>
    BY <1>3 DEF INI_Pausar
  <2>3. SinTurno /\ contador = 0
    BY <2>1 DEF Ficha
  <2>4. HilosEnCiclo' = {} /\ contador' = 0 /\ DespiertosUnaVez'
    BY <2>2, <2>3 DEF barrera, HilosEnCiclo, Cuenta, DespiertosUnaVez, SinTurno
  <2>5. sem'["pausar"] = 1 /\ \A r \in SemTurno \ {"pausar"} : sem'[r] = 0
    BY <1>1, <2>2, <2>3 DEF SinTurno, NadaPuesto
  <2>6. \A f \in Etapas : ~Trabaja(f)'
    BY <2>2, <2>3 DEF SinTurno, Trabaja
  <2> QED BY <1>1, <1>2, <2>2, <2>3, <2>4, <2>5, <2>6, TurnoPuesto DEF SinTurno
<1>4. CASE PAU_Tomar
  <2>1. /\ sem["pausar"] > 0 /\ sem' = [sem EXCEPT !["pausar"] = @ - 1] /\ pausada'
        /\ UNCHANGED <<lbl, actual, barrera, cola>>
    BY <1>4 DEF PAU_Tomar
  <2>2. /\ \A f \in Etapas : ~Trabaja(f)
        /\ HilosEnCiclo = {} /\ contador = 0 /\ sem["pausar"] = 1
        /\ \A r \in SemTurno \ {"pausar"} : sem[r] = 0
    BY <1>1, <2>1 DEF Ficha, NadaPuesto, SinTurno
  <2>3. HilosEnCiclo' = {} /\ contador' = 0 /\ DespiertosUnaVez'
    BY <2>1, <2>2 DEF barrera, HilosEnCiclo, Cuenta, DespiertosUnaVez
  <2>4. NadaPuesto' /\ \A f \in Etapas : ~Trabaja(f)'
    BY <1>1, <2>1, <2>2 DEF NadaPuesto, Trabaja
  <2>5. Ficha'
    BY <2>3, <2>4 DEF Ficha, SinTurno, NadaPuesto
  <2>6. EnEspera' = {} /\ Pendientes' = {} /\ lbl'["RE"] \notin {"empezar", "avisar"}
    BY <1>1, <2>3, <2>4 DEF EnEspera, Pendientes, Avisando, Trabaja
  <2> QED BY <1>2, <2>1, <2>3, <2>5, <2>6 DEF Cuenta, Suma, PorEmpezar, NoSePierde, AvisaAUno, Avisando
<1>5. CASE INI_Turno
  <2>1. /\ \A r \in SemTurno : sem'[r] = sem[r]
        /\ UNCHANGED <<lbl, actual, cola, viva, pausada, semT, hilo, cantidad, contador>>
    BY <1>1, <1>5 DEF INI_Turno, barrera
  <2> QED BY <1>2, <2>1, CicloDeNadie, TurnoQuieto DEF ExecMengua
<1>6. CASE PAU_Pedir
  <2>1. UNCHANGED <<sem, lbl, actual, cola, viva, pausada, semT, hilo, cantidad, contador>>
    BY <1>6 DEF PAU_Pedir, barrera, anillo
  <2> QED BY <1>2, <2>1, CicloDeNadie, TurnoQuieto DEF ExecMengua
<1> QED BY <1>3, <1>4, <1>5, <1>6 DEF IniciarPlanificacion, PausarPlanificacion

-----------------------------------------------------------------------------
(* The threads are created after the TCBs *)

(* No thread is created, no tripulante is to be. *)
LEMMA NacerQuieto ==
  ASSUME HilosPorNacer, listaPCB' = listaPCB, cons' = cons \/ cons'.pc \notin {"new", "hilo"},
         \A t \in Trips : hilo[t] = "nada" => hilo'[t] = "nada"
  PROVE  HilosPorNacer'
BY DEF HilosPorNacer, PorNacer

(* The stages create none. *)
LEMMA NacerTrabajar ==
  ASSUME HilosPorNacer, NEW e \in Etapas, Trabajar(e)
  PROVE  HilosPorNacer'
<1>1. CASE NewReady
  <2>1. UNCHANGED <<listaPCB, cons, hilo>>
    BY <1>1 DEF NewReady, NR_Entra, NR_IniciarPatota, NR_PrimeraTarea, NR_SinPatotas, NR_Sacar,
       NR_Poner, NR_Fin, patotas, consola, barrera
  <2> QED BY <2>1, NacerQuieto
<1>2. CASE RecorreExec(e)
  <2>1. UNCHANGED <<listaPCB, cons, hilo>>
    BY <1>2 DEF RecorreExec, Recorrer, Visitar, VisitarLiberado, patotas, consola, barrera
  <2> QED BY <2>1, NacerQuieto
<1>3. CASE ReadyExec
  <2>1. UNCHANGED <<listaPCB, cons, hilo>>
    BY <1>3 DEF ReadyExec, RE_Entra, RE_Sacar, RE_Poner, RE_Lleno, RE_Contar, RE_Empezar, RE_Avisar,
       VisitarLiberado, patotas, consola, barrera
  <2> QED BY <2>1, NacerQuieto
<1>4. CASE BloqIO
  <2>1. UNCHANGED <<listaPCB, cons, hilo>>
    BY <1>4 DEF BloqIO, BIO_Entra, BIO_Contar, BIO_Pedir, BIO_Salir, patotas, consola, barrera
  <2> QED BY <2>1, NacerQuieto
<1>5. CASE AEmergencia
  <2>1. UNCHANGED <<listaPCB, cons, hilo>>
    BY <1>5 DEF AEmergencia, ERM_Entra, ERM_SacarFixer, ERM_Restaurar, ERM_Sacar, ERM_Poner,
       ERM_Elegir, patotas, consola, barrera
  <2> QED BY <2>1, NacerQuieto
<1>6. CASE AReady \/ EXIT_Cerrar
  <2>1. UNCHANGED <<listaPCB, cons, hilo>>
    BY <1>6 DEF AReady, MR_Entra, MR_Sacar, MR_Poner, MR_Resolver, EXIT_Cerrar, patotas, consola, barrera
  <2> QED BY <2>1, NacerQuieto
<1> QED BY <1>1, <1>2, <1>3, <1>4, <1>5, <1>6 DEF Trabajar

(* Nor do the tripulantes, the sabotage and the console but with            *)
(* INICIAR_PATOTA.                                                          *)
LEMMA NacerHilo ==
  ASSUME Tipos, HilosPorNacer, NEW t \in Trips, Hilo(t)
  PROVE  HilosPorNacer'
<1>1. hilo \in [Trips -> Hilos] /\ hilo[t] # "nada"
      /\ \A w \in Trips \ {t} : hilo'[w] = hilo[w]
  BY DEF Tipos, TipoBarrera, Hilo, Tomar, Actuar, LlegarAlSabotaje, Reparar, Signal, EnHilo
<1>2. UNCHANGED <<listaPCB, cons>>
  BY DEF Hilo, Tomar, Actuar, LlegarAlSabotaje, Reparar, Signal, patotas, consola
<1> QED BY <1>1, <1>2, NacerQuieto

(* Nor does the console create a thread but in INICIAR_PATOTA. *)
LEMMA NacerConsola ==
  ASSUME Tipos, HilosPorNacer,
         IniciarPlanificacion \/ PausarPlanificacion \/ ExpulsarTripulante
  PROVE  HilosPorNacer'
<1>1. UNCHANGED <<listaPCB, hilo>>
  BY DEF IniciarPlanificacion, PausarPlanificacion, ExpulsarTripulante, SeguirExpulsion, INI_Pausar,
     INI_Turno, PAU_Pedir, PAU_Tomar, EXP_RAM, EXP_Estado, EXP_Buscar, EXP_Extraer, EXP_Extraido,
     EXP_Patota, patotas, barrera
<1>2. cons' = cons \/ cons'.pc \notin {"new", "hilo"}
  <2>1. cons \in Comandos
    BY DEF Tipos, ConsolaOK, TipoConsola
  <2>2. CASE IniciarPlanificacion \/ PausarPlanificacion
    BY <2>1, <2>2 DEF IniciarPlanificacion, PausarPlanificacion, INI_Pausar, INI_Turno, PAU_Pedir,
       PAU_Tomar, Consola, EnConsola, Comandos
  <2>3. CASE \E t \in Trips : EXP_RAM(t)
    BY <2>1, <2>3 DEF EXP_RAM, Consola, EnConsola, Comandos
  <2>4. CASE SeguirExpulsion
    <3>1. CASE EXP_Estado
      BY <2>1, <3>1 DEF EXP_Estado, Comandos
    <3>2. CASE EXP_Buscar \/ EXP_Extraido
      BY <2>1, <3>2 DEF EXP_Buscar, EXP_Extraido, Comandos
    <3>3. CASE EXP_Extraer
      BY <2>1, <3>3 DEF EXP_Extraer, EnConsola, Comandos
    <3>4. CASE EXP_Patota
      BY <3>4 DEF EXP_Patota, ConsolaLibre
    <3> QED BY <2>4, <3>1, <3>2, <3>3, <3>4 DEF SeguirExpulsion
  <2> QED BY <2>2, <2>3, <2>4 DEF ExpulsarTripulante
<1> QED BY <1>1, <1>2, NacerQuieto

(* INICIAR_PATOTA: what it creates is the thread of the TCB at hand. *)
LEMMA NacerIniciarPatota ==
  ASSUME Tipos, LugarOK, HilosPorNacer, IniciarPatota
  PROVE  HilosPorNacer'
<1>1. cons \in Comandos /\ hilo \in [Trips -> Hilos]
  BY DEF Tipos, ConsolaOK, TipoConsola, TipoBarrera
<1>2. CASE PAT_Crear
  <2>1. UNCHANGED <<listaPCB, hilo>> /\ cons'.pc = "pcb"
    BY <1>1, <1>2 DEF PAT_Crear, Consola, Comandos, barrera
  <2> QED BY <2>1, NacerQuieto
<1>3. CASE PAT_Listar
  <2>1. /\ hilo' = hilo /\ cons.pc = "pcb" /\ cons'.pc = "new" /\ cons'.t = cons.t
        /\ listaPCB' = listaPCB \cup {PatotaDe[cons.t]}
    BY <1>1, <1>3 DEF PAT_Listar, Consola, EnConsola, barrera, Comandos
  <2>2. PatotaDe[cons.t] \notin listaPCB
    BY <2>1 DEF LugarOK, Nacidos
  <2>3. ASSUME NEW w \in Trips, PorNacer(w)' PROVE PorNacer(w)
    BY <2>1, <2>2, <2>3 DEF PorNacer
  <2> QED BY <2>1, <2>3 DEF HilosPorNacer
<1>4. CASE PAT_New
  <2> DEFINE t == cons.t
  <2>1. /\ hilo' = hilo /\ listaPCB' = listaPCB /\ cons.pc = "new" /\ cons'.pc = "hilo"
        /\ cons'.t = t /\ t \in Trips /\ t \in Nat /\ cons.t = t
    BY <1>1, <1>4, ConstantesOK DEF PAT_New, Consola, EnConsola, barrera, patotas, Comandos, Tipos,
       ConsolaOK, ConTripulante
  <2> HIDE DEF t
  <2>2. ASSUME NEW w \in Trips, PorNacer(w)' \/ w = t PROVE PorNacer(w)
    <3>1. w \in Nat
      BY ConstantesOK
    <3>2. (w > t => w >= t) /\ t >= t
      BY <2>1, <3>1
    <3>3. CASE PatotaDe[w] \notin listaPCB'
      BY <2>1, <3>3 DEF PorNacer
    <3>4. CASE w > t /\ PatotaDe[w] = PatotaDe[t]
      BY <2>1, <3>2, <3>4 DEF PorNacer
    <3>5. CASE w = t
      BY <2>1, <3>2, <3>5 DEF PorNacer
    <3> QED BY <2>1, <2>2, <3>3, <3>4, <3>5 DEF PorNacer
  <2> QED BY <2>1, <2>2 DEF HilosPorNacer
<1>5. CASE PAT_Hilo
  <2> DEFINE t == cons.t
             u == SiguienteTid(t)
  <2>1. /\ listaPCB' = listaPCB /\ cons.pc = "hilo" /\ t \in Trips /\ t \in Nat /\ cons.t = t
        /\ cons'.pc = (IF u = Nadie THEN "libre" ELSE "new") /\ cons'.t = u
        /\ \A w \in Trips \ {t} : hilo'[w] = hilo[w]
    BY <1>1, <1>5, ConstantesOK DEF PAT_Hilo, Consola, EnConsola, patotas, Comandos, Tipos,
       ConsolaOK, ConTripulante
  <2>2. u # Nadie => u \in Nat /\ PatotaDe[u] = PatotaDe[t] /\ u > t
    BY <2>1, SiguienteDespues, ConstantesOK
  <2> HIDE DEF t, u
  <2>3. ASSUME NEW w \in Trips, PorNacer(w)' PROVE hilo'[w] = "nada"
    <3>1. w \in Nat
      BY ConstantesOK
    <3>2. u # Nadie => (w >= u => w > t)
      BY <2>1, <2>2, <3>1
    <3>3. ~(t > t)
      BY <2>1
    <3>4. PatotaDe[t] \in listaPCB
      BY <2>1 DEF LugarOK, Nacidos
    <3>5. CASE PatotaDe[w] \notin listaPCB'
      <4>1. PorNacer(w) /\ w # t
        BY <2>1, <3>4, <3>5 DEF PorNacer
      <4> QED BY <2>1, <4>1 DEF HilosPorNacer
    <3>6. CASE u # Nadie /\ w >= u /\ PatotaDe[w] = PatotaDe[u]
      <4>1. PorNacer(w) /\ w # t
        BY <2>1, <2>2, <3>2, <3>3, <3>6 DEF PorNacer
      <4> QED BY <2>1, <4>1 DEF HilosPorNacer
    <3> QED BY <2>1, <2>3, <3>5, <3>6 DEF PorNacer
  <2> QED BY <2>1, <2>3 DEF HilosPorNacer
<1> QED BY <1>2, <1>3, <1>4, <1>5 DEF IniciarPatota

(* Nor does the turn depend on the thread it creates. *)
LEMMA TurnoIniciarPatota ==
  ASSUME Tipos, Tipos', TurnoOK, IniciarPatota
  PROVE  Ficha' /\ Cuenta'
<1>1. /\ UNCHANGED <<lbl, actual, viva, pausada, sem, semT, cantidad, contador>>
      /\ cola'["exec"] = cola["exec"] /\ cons'.pc \notin Expulsando
  BY DEF IniciarPatota, PAT_Crear, PAT_Listar, PAT_New, PAT_Hilo, anillo, barrera, Poner, Colas,
     Tipos, TipoColas, Consola, ConsolaOK, TipoConsola, Comandos, Expulsando
<1>2. CicloQuieto
  <2>1. CASE hilo' = hilo
    BY <1>1, <2>1, CicloDeNadie DEF TurnoOK
  <2>2. CASE PAT_Hilo
    <3>1. /\ hilo' = [hilo EXCEPT ![cons.t] = "espera"] /\ cons.pc = "hilo" /\ cons.t \in Trips
          /\ hilo \in [Trips -> Hilos]
      BY <2>2 DEF PAT_Hilo, Consola, EnConsola, Tipos, ConsolaOK, ConTripulante, TipoBarrera
    <3>2. hilo[cons.t] = "nada"
      BY <3>1 DEF TurnoOK, HilosPorNacer
    <3>3. \A t \in Trips : hilo'[t] \in EnObra <=> hilo[t] \in EnObra
      BY <3>1, <3>2 DEF EnObra
    <3>4. HilosEnCiclo' = HilosEnCiclo
      BY <1>1, <3>3 DEF HilosEnCiclo, EnObra
    <3>5. DespiertosUnaVez'
      BY <1>1, <3>3 DEF TurnoOK, Cuenta, DespiertosUnaVez
    <3> QED BY <1>1, <3>4, <3>5 DEF CicloQuieto
  <2> QED BY <2>1, <2>2 DEF IniciarPatota, PAT_Crear, PAT_Listar, PAT_New, barrera
<1> QED BY <1>1, <1>2, TurnoQuieto DEF ExecMengua, TurnoOK

-----------------------------------------------------------------------------
(* Every action of the program, stuttering included, keeps TurnoOK. *)
LEMMA TurnoNext ==
  ASSUME MaxReinicios = 0, Tipos, Tipos', LugarOK, TurnoOK, [Next]_vars
  PROVE  TurnoOK'
<1>1. Ficha /\ Cuenta /\ HilosPorNacer
  BY DEF TurnoOK
<1>2. CASE UNCHANGED vars
  <2>1. UNCHANGED <<sem, lbl, actual, semT, hilo, cantidad, contador, cola, cons, viva, pausada, listaPCB>>
    BY <1>2 DEF vars, anillo, barrera, consola, patotas
  <2> QED BY <1>1, <2>1, CicloDeNadie, TurnoQuieto, NacerQuieto DEF ExecMengua, Cuenta, NoSePierde, TurnoOK
<1>3. ASSUME NEW e \in Etapas, Trabajar(e) PROVE TurnoOK'
  BY <1>1, <1>3, TurnoTrabajar, NacerTrabajar DEF TurnoOK
<1>4. CASE TomarPausar \/ \E e \in Etapas : Despertar(e)
  <2>1. UNCHANGED <<listaPCB, cons, hilo>>
    BY <1>4 DEF TomarPausar, Despertar, patotas, consola, barrera
  <2> QED BY <1>1, <1>4, <2>1, TurnoEsperar, NacerQuieto DEF TurnoOK
<1>5. ASSUME NEW t \in Trips, Hilo(t) PROVE TurnoOK'
  BY <1>1, <1>5, TurnoHilo, NacerHilo DEF TurnoOK
<1>6. CASE SAB_Activar \/ SAB_Datos
  <2>1. UNCHANGED <<sem, lbl, actual, semT, hilo, cantidad, contador, cola, cons, viva, pausada, listaPCB>>
    BY <1>6 DEF SAB_Activar, SAB_Datos, anillo, barrera, consola, patotas
  <2> QED BY <1>1, <2>1, CicloDeNadie, TurnoQuieto, NacerQuieto DEF ExecMengua, Cuenta, NoSePierde, TurnoOK
<1>7. CASE FuncionConsola
  <2>1. CASE IniciarPlanificacion \/ PausarPlanificacion
    BY <1>1, <2>1, TurnoPlanificacion, NacerConsola DEF TurnoOK
  <2>2. CASE ExpulsarTripulante
    BY <1>1, <2>2, TurnoExpulsar, NacerConsola DEF TurnoOK
  <2>3. CASE IniciarPatota
    BY <1>1, <2>3, TurnoIniciarPatota, NacerIniciarPatota DEF TurnoOK
  <2> QED BY <1>7, <2>1, <2>2, <2>3 DEF FuncionConsola
<1>8. CASE Next
  <2>1. CASE NewReady
    BY <1>3, <2>1 DEF Trabajar, Etapas
  <2>2. CASE \E e \in Recorridos : RecorreExec(e)
    BY <1>3, <2>2 DEF Trabajar, Etapas, Recorridos
  <2>3. CASE ReadyExec
    BY <1>3, <2>3 DEF Trabajar, Etapas
  <2>4. CASE BloqIO
    BY <1>3, <2>4 DEF Trabajar, Etapas
  <2>5. CASE AEmergencia
    BY <1>3, <2>5 DEF Trabajar, Etapas
  <2>6. CASE AReady
    BY <1>3, <2>6 DEF Trabajar, Etapas
  <2>7. CASE EXIT_Cerrar
    BY <1>3, <2>7 DEF Trabajar, Etapas
  <2> QED BY <1>4, <1>5, <1>6, <1>7, <1>8, <2>1, <2>2, <2>3, <2>4, <2>5, <2>6, <2>7 DEF Next
<1> QED BY <1>2, <1>8

(* At the start nobody has the turn and no thread exists. *)
LEMMA TurnoInit == Init => TurnoOK
<1> SUFFICES ASSUME Init PROVE TurnoOK
  OBVIOUS
<1>1. /\ \A s \in SemTurno : sem[s] = 0
      /\ \A e \in Etapas : lbl[e] = "espera"
      /\ \A t \in Trips : semT[t] = 0 /\ hilo[t] = "nada"
      /\ contador = 0 /\ ~viva /\ cons.pc = "libre"
  BY DEF Init, SemTurno, ConsolaLibre
<1>2. HilosEnCiclo = {} /\ "RE" \in Etapas
  BY <1>1 DEF HilosEnCiclo, Etapas
<1>3. SinTurno
  BY <1>1, <1>2 DEF SinTurno, NadaPuesto, Trabaja
<1>4. Ficha
  BY <1>1, <1>3 DEF Ficha, SinTurno, NadaPuesto
<1>5. EnEspera = {} /\ Pendientes = {}
  BY <1>1, <1>2 DEF EnEspera, Pendientes, Avisando
<1>6. Cuenta
  BY <1>1, <1>2, <1>5 DEF Cuenta, DespiertosUnaVez, PorEmpezar, AvisaAUno, Suma, NoSePierde,
     Avisando, Expulsando, EnObra
<1>7. HilosPorNacer
  BY <1>1 DEF HilosPorNacer
<1> QED BY <1>4, <1>6, <1>7 DEF TurnoOK

(* The invariant of the turn, of every behaviour in which                   *)
(* INICIAR_PLANIFICACION is typed only when the planning does not run.      *)
THEOREM TurnoSiempre ==
  ASSUME MaxReinicios = 0 PROVE Spec => [](Tipos /\ LugarOK /\ TurnoOK)
<1>1. Tipos /\ LugarOK /\ [Next]_vars => LugarOK'
  BY LugarNext
<1>2. Tipos /\ Tipos' /\ LugarOK /\ TurnoOK /\ [Next]_vars => TurnoOK'
  BY TurnoNext
<1> QED BY LugarInit, TurnoInit, TiposInvariante, <1>1, <1>2, PTL DEF Spec

(* For every value of the other constants, expulsions and sabotages          *)
(* included: two stages never work at a time, nor a stage while the         *)
(* tripulantes do, nor is there a second semaphore posted meanwhile.        *)
THEOREM UnSoloTurnoSiempre ==
  ASSUME MaxReinicios = 0 PROVE Spec => []UnSoloTurno
<1>1. TurnoOK => UnSoloTurno
  <2> SUFFICES ASSUME TurnoOK PROVE UnSoloTurno
    OBVIOUS
  <2>1. ASSUME NEW a \in EnTurno, NEW b \in EnTurno PROVE a = b
    <3>1. ASSUME NEW c \in EnTurno
          PROVE  \/ \E e \in Etapas : c = <<"etapa", e>> /\ Trabaja(e)
                 \/ \E s \in SemTurno : c = <<"sem", s>> /\ sem[s] > 0
                 \/ c = <<"hilos", "todos">> /\ HilosEnCiclo # {} /\ lbl["RE"] = "espera"
      BY DEF EnTurno, Trabaja
    <3>2. /\ \A r, s \in SemTurno : sem[r] > 0 /\ sem[s] > 0 => r = s
          /\ \A e, f \in Etapas : Trabaja(e) /\ Trabaja(f) => e = f
          /\ \A e \in Etapas, s \in SemTurno : ~(Trabaja(e) /\ sem[s] > 0)
          /\ HilosEnCiclo # {} /\ lbl["RE"] = "espera" =>
               (\A e \in Etapas : ~Trabaja(e)) /\ (\A s \in SemTurno : ~(sem[s] > 0))
      BY DEF TurnoOK, Ficha, NadaPuesto, SoloAvisa, Avisando
    <3> QED BY <3>1, <3>2
  <2> QED BY <2>1 DEF UnSoloTurno, TurnoOK, Ficha
<1> QED BY TurnoSiempre, <1>1, PTL

(* And, when the console expels nobody, the turn is never lost while the    *)
(* planning runs, and PAUSAR_PLANIFICACION finds everybody at rest.         *)
THEOREM TurnoUnicoSiempre ==
  ASSUME MaxReinicios = 0, MaxExpulsiones = 0 PROVE Spec => []TurnoUnico
<1>1. Tipos /\ TurnoOK => HayTurno /\ QuietoEnPausa
  <2> SUFFICES ASSUME Tipos, TurnoOK PROVE HayTurno /\ QuietoEnPausa
    OBVIOUS
  <2>1. sem \in [Etapas \cup {"pausar"} -> Nat] /\ SemTurno \subseteq Etapas \cup {"pausar"}
    BY DEF Tipos, AnilloOK, TipoAnillo, Etapas, SemTurno
  <2>2. SinTurno => EnTurno = {}
    BY <2>1 DEF SinTurno, NadaPuesto, Trabaja, EnTurno
  <2>3. EnTurno = {} => SinTurno
    <3> SUFFICES ASSUME EnTurno = {} PROVE SinTurno
      OBVIOUS
    <3>1. ASSUME NEW e \in Etapas, Trabaja(e) PROVE FALSE
      <4>1. <<"etapa", e>> \in {"etapa"} \X {f \in Etapas : lbl[f] # "espera"}
        BY <3>1 DEF Trabaja
      <4> QED BY <4>1, Zenon DEF EnTurno
    <3>2. \A s \in SemTurno : sem[s] = 0
      <4>1. ASSUME NEW s \in SemTurno, sem[s] > 0 PROVE FALSE
        <5>1. <<"sem", s>> \in {"sem"} \X {r \in SemTurno : sem[r] > 0}
          BY <4>1
        <5> QED BY <5>1, Zenon DEF EnTurno
      <4> QED BY <2>1, <4>1
    <3>3. lbl["RE"] = "espera"
      BY <3>1 DEF Etapas, Trabaja
    <3>4. HilosEnCiclo = {}
      BY <3>3 DEF EnTurno
    <3> QED BY <3>1, <3>2, <3>4 DEF SinTurno, NadaPuesto
  <2> QED BY <2>2, <2>3 DEF HayTurno, QuietoEnPausa, TurnoOK, Ficha, Cuenta, NoSePierde, SinExpulsion
<1> QED BY TurnoSiempre, UnSoloTurnoSiempre, <1>1, PTL DEF TurnoUnico
=============================================================================
