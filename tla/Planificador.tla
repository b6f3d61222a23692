---------------------------- MODULE Planificador ----------------------------
(***************************************************************************)
(* The scheduler of Discordiador: the nine detached stage threads that     *)
(* hand a turn to each other through semaphores, one thread per            *)
(* tripulante with the barrier that closes its CPU cycle, the console that *)
(* starts, pauses, feeds and expels, and the server handler that announces *)
(* a sabotage.                                                             *)
(*                                                                         *)
(* A stage is named after the semaphore it waits on.  One step is what a   *)
(* thread does between two points where another thread can see the         *)
(* difference: a TCB popped and not yet pushed, a node of a list_iterate,  *)
(* a request answered by MiRAMHQ.  A new status, its notice to MiRAMHQ and *)
(* the push that follows are one step: in between, as before it, whoever   *)
(* looks for the TCB in a queue finds it in none.                          *)
(***************************************************************************)
EXTENDS Integers, Sequences, FiniteSets, SequencesExt

CONSTANTS
  Trips,          \* tids: cantidadTCBTotales hands them out in sequence
  Patotas,        \* pids: contadorPCBs hands them out in sequence
  PatotaDe,       \* the patota of each tripulante
  Tareas,         \* the tasks of each patota: [io, x, y, t]
  PosInicial,     \* where each tripulante starts
  PosSabotaje,    \* where a sabotage may be announced
  Grado,          \* GRADO_MULTITAREA
  Algoritmo,      \* "FIFO" or "RR"
  Quantum,
  Duracion,       \* DURACION_SABOTAJE
  RespuestasRAM,  \* possible outcomes of INICIAR_PATOTA in MiRAMHQ (TRUE: SUCCESS)
  PopNulo,        \* queue_pop of an empty queue returns NULL instead of crashing
  EnMarcha,       \* INICIAR_PATOTA may be typed while the ring turns
  MaxReinicios,   \* INICIAR_PLANIFICACION typed while it is already running
  MaxPausas, MaxExpulsiones, MaxSabotajes,
  Nadie           \* no tripulante (a NULL pointer)

Colas  == {"new", "ready", "exec", "bio", "bem", "exit"}
Etapas == {"NR", "EBIO", "RE", "ER", "EaX", "BLOCKIO", "ERM", "MR", "EXIT"}
Punto  == [x : Nat, y : Nat]
Tarea  == [io : BOOLEAN, x : Nat, y : Nat, t : Nat]

ASSUME ConstantesOK ==
  /\ Trips \subseteq Nat /\ IsFiniteSet(Trips) /\ Nadie \notin Trips
  /\ Patotas \subseteq Nat /\ PatotaDe \in [Trips -> Patotas]
  /\ Tareas \in [Patotas -> Seq(Tarea)]
  /\ PosInicial \in [Trips -> Punto] /\ PosSabotaje \subseteq Punto
  /\ Grado \in Nat /\ Algoritmo \in {"FIFO", "RR"} /\ Quantum \in Nat /\ Duracion \in Nat
  /\ RespuestasRAM \subseteq BOOLEAN /\ PopNulo \in BOOLEAN /\ EnMarcha \in BOOLEAN
  /\ MaxReinicios \in Nat /\ MaxPausas \in Nat
  /\ MaxExpulsiones \in Nat /\ MaxSabotajes \in Nat

VARIABLES
  sem, lbl, actual,                     \* ring: semaphores, stage pcs, TCB at hand
  semT, hilo, cantidad, contador,       \* tripulante threads and _signal's barrier
  cola, tcb,                            \* the queues and every TCB
  buffers, listaPCB, fin,               \* patotas: to send, in the list, terminated
  sab, ctx, ordenados, llega,           \* sabotage: flags, colaContSab, bloq_emer_sorted
  cons, viva, pausada, usos,            \* the console and how often it was used
  enRAM, tablas, inicios, fsck,         \* what MiRAMHQ and IMongoStore were told
  caida                                 \* "no", or why the process died

anillo   == <<sem, lbl, actual>>
barrera  == <<semT, hilo, cantidad, contador>>
patotas  == <<buffers, listaPCB, fin>>
sabotaje == <<sab, ctx, ordenados, llega>>
consola  == <<cons, viva, pausada, usos>>
externo  == <<enRAM, tablas, inicios, fsck>>
vars == <<anillo, barrera, cola, tcb, patotas, sabotaje, consola, externo, caida>>

-----------------------------------------------------------------------------
(* Helpers on TCBs and queues *)

Miembros(p) == {t \in Trips : PatotaDe[t] = p}
ASSUME PatotasConTripulantes == \A p \in Patotas : Miembros(p) # {}
MinTid(S) == CHOOSE t \in S : \A u \in S : t <= u
SiguienteTid(t) ==
  LET resto == {u \in Miembros(PatotaDe[t]) : u > t}
  IN  IF resto = {} THEN Nadie ELSE MinTid(resto)

TareasDe(t) == Tareas[PatotaDe[t]]
SinTarea == [io |-> FALSE, x |-> 0, y |-> 0, t |-> 0]      \* instruccion_actual is NULL

Indice(s, t) == CHOOSE i \in 1..Len(s) : s[i] = t
QuitarPrimero(s, t) == Tail(s)      \* mutation: queue_pop for list_remove
Quitar(s, t) == RemoveAt(s, Indice(s, t))
Siguiente(s, t) == IF Indice(s, t) < Len(s) THEN s[Indice(s, t) + 1] ELSE Nadie
Mover(de, a, t) == cola' = [cola EXCEPT ![de] = Quitar(@, t), ![a] = Append(@, t)]
SacarMirando(de, t) == UNCHANGED cola      \* mutation: queue_peek for queue_pop
Sacar(de, t) == cola' = [cola EXCEPT ![de] = Quitar(@, t)]
Poner(a, t) == cola' = [cola EXCEPT ![a] = Append(@, t)]
Esta(q, t) == Contains(cola[q], t)
EnColas(S) == UNION {ToSet(cola[q]) : q \in S}

(* A stage holds a TCB it popped and has not pushed yet. *)
EnMano(e) == \/ e \in {"NR", "RE", "ERM", "MR"} /\ lbl[e] = "poner"
             \/ e = "ERM" /\ lbl[e] = "restaurar"
             \/ e = "BLOCKIO" /\ lbl[e] = "pedir"

(* comparadores of sabotaje.c; the distance is compared squared *)
Distancia(t) == LET dx == sab.pos.x - tcb[t].x
                    dy == sab.pos.y - tcb[t].y
                IN  dx * dx + dy * dy
ordenarMasCercano(t, u) ==
  IF Distancia(t) = Distancia(u) THEN t < u ELSE Distancia(t) < Distancia(u)
InsertarOrdenado(s, t) ==
  LET lugar == {i \in 1..Len(s) : ~ordenarMasCercano(s[i], t)}
  IN  IF lugar = {} THEN Append(s, t) ELSE InsertAt(s, MinTid(lugar), t)

(* moverTripulanteUno: one cell, X first *)
AcercarAlReves(a, b) == IF a < b THEN a - 1 ELSE a + 1      \* mutation
Acercar(a, b) == IF a < b THEN a + 1 ELSE IF a > b THEN a - 1 ELSE a
Paso(r, p) == IF r.x # p.x THEN [r EXCEPT !.x = Acercar(@, p.x)]
                           ELSE [r EXCEPT !.y = Acercar(@, p.y)]
EnPunto(r, p) == r.x = p.x /\ r.y = p.y

(* Every request about a tripulante makes MiRAMHQ look up its segment and   *)
(* use it unchecked: a request about one it dropped takes MiRAMHQ down.     *)
PedirRAM(t) == caida' = IF t \in enRAM THEN caida ELSE "ram"
Cae(causa) == caida' = causa

AlgunoTermino(p, est) == \E t \in Miembros(p) : est[t] = "X"      \* mutation
TodosTerminaron(p, est) == \A t \in Miembros(p) : est[t] = "X"
Estados == [t \in Trips |-> tcb[t].est]

(* pedirProximaTarea: the next task, or 'X' when RAM has no more.  The TCB  *)
(* keeps a copy of the task (instr); tarea, its index, is RAM's.            *)
Proxima(r, t) == IF r.tarea < Len(TareasDe(t))
                   THEN [r EXCEPT !.tarea = @ + 1, !.instr = TareasDe(t)[r.tarea + 1]]
                   ELSE [r EXCEPT !.est = "X"]
-----------------------------------------------------------------------------
(* setearConfiguraciones: every semaphore at 0, the nine threads waiting *)

SinContexto == [trip |-> Nadie]
ConsolaLibre == [pc |-> "libre", t |-> Nadie, cola |-> "exit", nodo |-> Nadie, i |-> 0]

Init ==
  /\ sem = [s \in Etapas \cup {"pausar"} |-> 0]
  /\ lbl = [e \in Etapas |-> "espera"]
  /\ actual = [e \in Etapas |-> Nadie]
  /\ semT = [t \in Trips |-> 0] /\ hilo = [t \in Trips |-> "nada"]
  /\ cantidad = 0 /\ contador = 0
  /\ cola = [q \in Colas |-> <<>>]
  /\ tcb = [t \in Trips |->
       [est |-> "N", tarea |-> 0, instr |-> SinTarea, tExec |-> 0, tIO |-> 0, ciclos |-> 0,
        cumplido |-> FALSE, ini |-> FALSE, vivo |-> FALSE,
        x |-> PosInicial[t].x, y |-> PosInicial[t].y]]
  /\ buffers = <<>> /\ listaPCB = {} /\ fin = {}
  /\ sab = [activado |-> FALSE, terminado |-> FALSE, primer |-> FALSE,
            ciclos |-> 0, pos |-> [x |-> 0, y |-> 0]]
  /\ ctx = <<>> /\ ordenados = <<>> /\ llega = FALSE
  /\ cons = ConsolaLibre /\ viva = FALSE /\ pausada = FALSE
  /\ usos = [reinicios |-> 0, pausas |-> 0, expulsiones |-> 0, sabotajes |-> 0]
  /\ enRAM = {} /\ tablas = {} /\ inicios = [t \in Trips |-> 0] /\ fsck = 0
  /\ caida = "no"

-----------------------------------------------------------------------------
(* What every stage does: wait for its semaphore, work, post the next one *)

(* Where a thread is, in a process that has not died. *)
En(e, l) == caida = "no" /\ lbl[e] = l
EnHilo(t, h) == caida = "no" /\ hilo[t] = h

TomarPausar ==
  /\ En("NR", "espera") /\ sem["pausar"] > 0
  /\ sem' = [sem EXCEPT !["pausar"] = @ - 1]
  /\ lbl' = [lbl EXCEPT !["NR"] = "turno"]
  /\ UNCHANGED <<actual, barrera, cola, tcb, patotas, sabotaje, consola, externo, caida>>

Despertar(e) ==
  /\ En(e, IF e = "NR" THEN "turno" ELSE "espera") /\ sem[e] > 0
  /\ sem' = [sem EXCEPT ![e] = @ - 1]
  /\ lbl' = [lbl EXCEPT ![e] = "entra"]
  /\ UNCHANGED <<actual, barrera, cola, tcb, patotas, sabotaje, consola, externo, caida>>

Ir(e, l, t) ==
  /\ lbl' = [lbl EXCEPT ![e] = l]
  /\ actual' = [actual EXCEPT ![e] = t]
  /\ UNCHANGED sem

Terminar(e, s) ==
  /\ lbl' = [lbl EXCEPT ![e] = "espera"]
  /\ actual' = [actual EXCEPT ![e] = Nadie]
  /\ sem' = [sem EXCEPT ![s] = @ + 1]

-----------------------------------------------------------------------------
(* New -> Ready *)

NR_Entra ==
  /\ En("NR", "entra")
  /\ IF viva /\ ~sab.activado THEN Ir("NR", "iniciar", Nadie) ELSE Terminar("NR", "EBIO")
  /\ UNCHANGED <<barrera, cola, tcb, patotas, sabotaje, consola, externo, caida>>

NR_IniciarPatota ==
  /\ En("NR", "iniciar") /\ buffers # <<>>
  /\ LET p == Head(buffers) IN
       \/ /\ TRUE \in RespuestasRAM
          /\ enRAM' = enRAM \cup Miembros(p) /\ tablas' = tablas \cup {p}
          /\ Ir("NR", "tareas", MinTid(Miembros(p)))
          /\ IF p \in listaPCB THEN UNCHANGED caida ELSE Cae("pcb")
       \/ /\ FALSE \in RespuestasRAM
          /\ UNCHANGED <<enRAM, tablas, anillo, caida>>
  /\ buffers' = Tail(buffers)
  /\ UNCHANGED <<barrera, cola, tcb, listaPCB, fin, sabotaje, consola, inicios, fsck>>

(* iterate_next_task, one TCB *)
NR_PrimeraTarea ==
  LET t == actual["NR"] IN
  /\ En("NR", "tareas")
  /\ tcb' = [tcb EXCEPT ![t] =
       IF TareasDe(t) # <<>> THEN [@ EXCEPT !.tarea = 1, !.instr = TareasDe(t)[1], !.est = "R"]
                             ELSE [@ EXCEPT !.est = "X"]]
  /\ Ir("NR", IF SiguienteTid(t) = Nadie THEN "iniciar" ELSE "tareas", SiguienteTid(t))
  /\ PedirRAM(t)
  /\ UNCHANGED <<barrera, cola, patotas, sabotaje, consola, externo>>

NR_SinPatotas ==
  /\ En("NR", "iniciar") /\ buffers = <<>>
  /\ Ir("NR", "mover", Nadie)
  /\ UNCHANGED <<barrera, cola, tcb, patotas, sabotaje, consola, externo, caida>>

NR_Sacar ==
  /\ En("NR", "mover") /\ cola["new"] # <<>>
  /\ Sacar("new", Head(cola["new"]))
  /\ Ir("NR", "poner", Head(cola["new"]))
  /\ UNCHANGED <<barrera, tcb, patotas, sabotaje, consola, externo, caida>>

SiempreReady(t) == "ready"      \* mutation: the status is not looked at
DestinoNew(t) == IF tcb[t].est = "R" THEN "ready" ELSE "exit"

NR_Poner ==
  /\ En("NR", "poner")
  /\ Poner(DestinoNew(actual["NR"]), actual["NR"])
  /\ Ir("NR", "mover", Nadie)
  /\ UNCHANGED <<barrera, tcb, patotas, sabotaje, consola, externo, caida>>

NR_Fin ==
  /\ En("NR", "mover") /\ cola["new"] = <<>>
  /\ Terminar("NR", "EBIO")
  /\ UNCHANGED <<barrera, cola, tcb, patotas, sabotaje, consola, externo, caida>>

NewReady == NR_Entra \/ NR_IniciarPatota \/ NR_PrimeraTarea \/ NR_SinPatotas
              \/ NR_Sacar \/ NR_Poner \/ NR_Fin

-----------------------------------------------------------------------------
(* Exec -> BloqIO, Exec -> Ready, Exec -> Exit: a list_iterate over exec    *)
(* that takes out the TCBs in one status.  The iterator holds the address   *)
(* of the next node: if the console freed it meanwhile, it is used freed.   *)

Recorridos == {"EBIO", "ER", "EaX"}
Proximo == [EBIO |-> "RE", ER |-> "EaX", EaX |-> "BLOCKIO"]
Estado  == [EBIO |-> "I", ER |-> "R", EaX |-> "X"]
DestinoIO == [EBIO |-> "ready", ER |-> "ready", EaX |-> "exit"]      \* mutation
Destino == [EBIO |-> "bio", ER |-> "ready", EaX |-> "exit"]

Recorrer(e) ==
  /\ En(e, "entra")
  /\ IF viva /\ cola["exec"] # <<>> THEN Ir(e, "recorre", Head(cola["exec"]))
                                    ELSE Terminar(e, Proximo[e])
  /\ UNCHANGED <<barrera, cola, tcb, patotas, sabotaje, consola, externo, caida>>

Avanzar(e, t) == IF Siguiente(cola["exec"], t) = Nadie
                   THEN Terminar(e, Proximo[e])
                   ELSE Ir(e, "recorre", Siguiente(cola["exec"], t))

(* what funcionCambioExecExit asks of RAM once the TCB is in cola_exit *)
DespedirEnRAM(t) ==
  LET p == PatotaDe[t]
      todos == TodosTerminaron(p, Estados)
  IN  /\ enRAM' = enRAM \ (IF todos THEN Miembros(p) ELSE {t})
      /\ fin' = IF todos THEN fin \cup {p} ELSE fin

Visitar(e) ==
  LET t == actual[e] IN
  /\ En(e, "recorre") /\ Esta("exec", t)
  /\ Avanzar(e, t)
  /\ IF tcb[t].est = Estado[e]
       THEN /\ Mover("exec", Destino[e], t)
            /\ IF e = "EaX" THEN DespedirEnRAM(t) ELSE UNCHANGED <<enRAM, fin>>
       ELSE UNCHANGED <<cola, enRAM, fin>>
  /\ UNCHANGED <<barrera, tcb, buffers, listaPCB, sabotaje, consola, tablas, inicios, fsck, caida>>

VisitarLiberado(e) ==
  /\ En(e, "recorre") \/ En(e, "avisar")
  /\ ~Esta("exec", actual[e])
  /\ Cae("lista")
  /\ UNCHANGED <<anillo, barrera, cola, tcb, patotas, sabotaje, consola, externo>>

RecorreExec(e) == Recorrer(e) \/ Visitar(e) \/ VisitarLiberado(e)

-----------------------------------------------------------------------------
(* Ready -> Exec, and the start of a CPU cycle *)

RE_Entra ==
  /\ En("RE", "entra")
  /\ Ir("RE", IF viva THEN "llenar" ELSE "contar", Nadie)
  /\ UNCHANGED <<barrera, cola, tcb, patotas, sabotaje, consola, externo, caida>>

HayLugarDeMas == cola["ready"] # <<>> /\ Len(cola["exec"]) <= Grado      \* mutation
HayLugar == cola["ready"] # <<>> /\ Len(cola["exec"]) < Grado

RE_Sacar ==
  /\ En("RE", "llenar") /\ HayLugar
  /\ Sacar("ready", Head(cola["ready"]))
  /\ Ir("RE", "poner", Head(cola["ready"]))
  /\ UNCHANGED <<barrera, tcb, patotas, sabotaje, consola, externo, caida>>

RE_Poner ==
  LET t == actual["RE"] IN
  /\ En("RE", "poner")
  /\ tcb' = [tcb EXCEPT ![t].est = "E"]
  /\ PedirRAM(t)
  /\ Poner("exec", t)
  /\ Ir("RE", "llenar", Nadie)
  /\ UNCHANGED <<barrera, patotas, sabotaje, consola, externo>>

RE_Lleno ==
  /\ En("RE", "llenar") /\ ~HayLugar
  /\ Ir("RE", "contar", Nadie)
  /\ UNCHANGED <<barrera, cola, tcb, patotas, sabotaje, consola, externo, caida>>

RE_Contar ==
  /\ En("RE", "contar")
  /\ cantidad' = Len(cola["exec"])
  /\ IF cantidad' = 0 THEN Terminar("RE", "BLOCKIO") ELSE Ir("RE", "empezar", Nadie)
  /\ UNCHANGED <<semT, hilo, contador, cola, tcb, patotas, sabotaje, consola, externo, caida>>

(* No post here: the barrier of the threads it wakes will post semER *)
RE_Empezar ==
  /\ En("RE", "empezar")
  /\ IF cola["exec"] = <<>> THEN Ir("RE", "espera", Nadie)
                            ELSE Ir("RE", "avisar", Head(cola["exec"]))
  /\ UNCHANGED <<barrera, cola, tcb, patotas, sabotaje, consola, externo, caida>>

(* signalHilosTripulantes *)
RE_Avisar ==
  LET t == actual["RE"]
      u == Siguiente(cola["exec"], t) IN
  /\ En("RE", "avisar") /\ Esta("exec", t)
  /\ semT' = [semT EXCEPT ![t] = @ + 1]
  /\ Ir("RE", IF u = Nadie THEN "espera" ELSE "avisar", u)
  /\ IF hilo[t] = "nada" THEN Cae("semaforo") ELSE UNCHANGED caida
  /\ UNCHANGED <<hilo, cantidad, contador, cola, tcb, patotas, sabotaje, consola, externo>>

ReadyExec == RE_Entra \/ RE_Sacar \/ RE_Poner \/ RE_Lleno \/ RE_Contar \/ RE_Empezar
               \/ RE_Avisar \/ VisitarLiberado("RE")
-----------------------------------------------------------------------------
(* Bloqueado por IO: only the head of the queue is served *)

BIO_Entra ==
  /\ En("BLOCKIO", "entra")
  /\ IF viva /\ ~sab.activado /\ cola["bio"] # <<>>
       THEN Ir("BLOCKIO", "contar", Head(cola["bio"]))
       ELSE Ir("BLOCKIO", "salir", Nadie)
  /\ UNCHANGED <<barrera, cola, tcb, patotas, sabotaje, consola, externo, caida>>

(* funcionContadorEnBloqIO counts on the TCB it peeked and then pops: the   *)
(* one it pops is the head of that moment                                   *)
BIO_Contar ==
  LET t == actual["BLOCKIO"]
      dura == tcb[t].instr.t
      n == IF tcb[t].tIO # dura THEN tcb[t].tIO + 1 ELSE tcb[t].tIO
  IN
  /\ En("BLOCKIO", "contar")
  /\ \/ /\ n # dura
        /\ tcb' = [tcb EXCEPT ![t].tIO = n]
        /\ Ir("BLOCKIO", "salir", Nadie)
        /\ UNCHANGED <<cola, caida>>
     \/ /\ n = dura /\ cola["bio"] # <<>>
        /\ tcb' = [[tcb EXCEPT ![t].tIO = n] EXCEPT ![Head(cola["bio"])].tIO = 0]
        /\ Ir("BLOCKIO", "pedir", Head(cola["bio"]))
        /\ Sacar("bio", Head(cola["bio"]))
        /\ UNCHANGED caida
     \/ /\ n = dura /\ cola["bio"] = <<>>
        /\ Cae("pop")
        /\ UNCHANGED <<tcb, anillo, cola>>
  /\ UNCHANGED <<barrera, patotas, sabotaje, consola, externo>>

BIO_Pedir ==
  LET t == actual["BLOCKIO"]
      r == Proxima(tcb[t], t)
  IN
  /\ En("BLOCKIO", "pedir")
  /\ PedirRAM(t)
  /\ inicios' = [inicios EXCEPT ![t] = 0]
  /\ \/ /\ r.est # "X"
        /\ tcb' = [tcb EXCEPT ![t] = [r EXCEPT !.est = "R"]]
        /\ Poner("ready", t)
     \/ /\ r.est = "X"      \* the TCB is put in no queue
        /\ tcb' = [tcb EXCEPT ![t] = r]
        /\ UNCHANGED cola
  /\ Ir("BLOCKIO", "salir", Nadie)
  /\ UNCHANGED <<barrera, patotas, sabotaje, consola, enRAM, tablas, fsck>>

(* sabotaje_activado is read again, unprotected *)
BIO_Salir ==
  /\ En("BLOCKIO", "salir")
  /\ Terminar("BLOCKIO", IF sab.activado THEN "ERM" ELSE "EXIT")
  /\ UNCHANGED <<barrera, cola, tcb, patotas, sabotaje, consola, externo, caida>>

BloqIO == BIO_Entra \/ BIO_Contar \/ BIO_Pedir \/ BIO_Salir

-----------------------------------------------------------------------------
(* Exec and Ready -> bloqueado por emergencia *)

YaHayFixer == sab.primer      \* mutation: finished as soon as somebody attends it
SabotajeReparado == sab.ciclos = Duracion

ERM_Entra ==
  /\ En("ERM", "entra")
  /\ \/ /\ sab.activado /\ viva /\ SabotajeReparado
        /\ sab' = [sab EXCEPT !.terminado = TRUE]
        /\ Ir("ERM", "sacarFixer", Nadie)
     \/ /\ sab.activado /\ viva /\ ~SabotajeReparado /\ ~sab.primer
        /\ Ir("ERM", "vaciar", Nadie)
        /\ UNCHANGED sab
     \/ /\ ~(sab.activado /\ viva) \/ (~SabotajeReparado /\ sab.primer)
        /\ Terminar("ERM", "MR")
        /\ UNCHANGED sab
  /\ UNCHANGED <<barrera, cola, tcb, patotas, ctx, ordenados, llega, consola, externo, caida>>

(* The fixer is the first of exec or, if queue_pop returned NULL, of ready *)
ERM_SacarFixer ==
  /\ En("ERM", "sacarFixer")
  /\ LET q == IF cola["exec"] = <<>> /\ PopNulo THEN "ready" ELSE "exec" IN
       \/ /\ cola[q] # <<>>
          /\ Sacar(q, Head(cola[q]))
          /\ Ir("ERM", "restaurar", Head(cola[q]))
          /\ UNCHANGED caida
       \/ /\ cola[q] = <<>>
          /\ Cae("pop")
          /\ UNCHANGED <<cola, anillo>>
  /\ sab' = [sab EXCEPT !.primer = FALSE]
  /\ UNCHANGED <<barrera, tcb, patotas, ctx, ordenados, llega, consola, externo>>

Contexto(t) == [trip |-> t, vivo |-> tcb[t].vivo, tExec |-> tcb[t].tExec, tIO |-> tcb[t].tIO,
                ciclos |-> tcb[t].ciclos, instr |-> tcb[t].instr]

(* tid and pid are restored too: IdentidadDelFixer says they do not change  *)
ERM_Restaurar ==
  LET t == actual["ERM"]
      c == Head(ctx)
  IN
  /\ En("ERM", "restaurar")
  /\ \/ /\ ctx # <<>>
        /\ tcb' = [tcb EXCEPT ![t] = [@ EXCEPT !.est = "M", !.vivo = c.vivo,
                     !.tExec = c.tExec, !.tIO = c.tIO, !.ciclos = c.ciclos, !.instr = c.instr]]
        /\ ctx' = Tail(ctx)
        /\ Poner("bem", t)
        /\ Terminar("ERM", "MR")
        /\ PedirRAM(t)
     \/ /\ ctx = <<>>
        /\ Cae("pop")
        /\ UNCHANGED <<tcb, ctx, cola, anillo>>
  /\ UNCHANGED <<barrera, patotas, sab, ordenados, llega, consola, externo>>

(* list_sort by tid and pop: the least tid leaves first; exec, then ready *)
SoloExec == "exec"      \* mutation: Ready is left alone
PorVaciar == IF cola["exec"] # <<>> THEN "exec" ELSE "ready"

ERM_Sacar ==
  LET t == MinTid(ToSet(cola[PorVaciar])) IN
  /\ En("ERM", "vaciar") /\ cola[PorVaciar] # <<>>
  /\ Sacar(PorVaciar, t)
  /\ Ir("ERM", "poner", t)
  /\ UNCHANGED <<barrera, tcb, patotas, sabotaje, consola, externo, caida>>

ERM_Poner ==
  LET t == actual["ERM"] IN
  /\ En("ERM", "poner")
  /\ tcb' = [tcb EXCEPT ![t].est = "M"]
  /\ PedirRAM(t)
  /\ Poner("bem", t)
  /\ ordenados' = InsertarOrdenado(ordenados, t)
  /\ Ir("ERM", "vaciar", Nadie)
  /\ UNCHANGED <<barrera, patotas, sab, ctx, llega, consola, externo>>

ERM_Elegir ==
  LET f == Head(ordenados) IN
  /\ En("ERM", "vaciar") /\ cola[PorVaciar] = <<>>
  /\ \/ /\ ordenados # <<>> /\ Esta("bem", f)
        /\ ordenados' = <<>>
        /\ ctx' = Append(ctx, Contexto(f))
        /\ tcb' = [tcb EXCEPT ![f] =
             [@ EXCEPT !.est = "R", !.ciclos = 0, !.tExec = 0, !.tIO = 0]]
        /\ Mover("bem", "ready", f)
        /\ PedirRAM(f)
        /\ sab' = [sab EXCEPT !.primer = TRUE]
        /\ Terminar("ERM", "MR")
     \/ /\ ordenados = <<>>
        /\ Cae("sinFixer")
        /\ UNCHANGED <<ordenados, ctx, tcb, cola, sab, anillo>>
     \/ /\ ordenados # <<>> /\ ~Esta("bem", f)
        /\ Cae("lista")
        /\ UNCHANGED <<ordenados, ctx, tcb, cola, sab, anillo>>
  /\ UNCHANGED <<barrera, patotas, llega, consola, externo>>

AEmergencia == ERM_Entra \/ ERM_SacarFixer \/ ERM_Restaurar \/ ERM_Sacar \/ ERM_Poner \/ ERM_Elegir

-----------------------------------------------------------------------------
(* Bloqueado por emergencia -> Ready *)

MR_Entra ==
  /\ En("MR", "entra")
  /\ IF viva /\ sab.activado /\ sab.terminado THEN Ir("MR", "vaciar", Nadie)
                                              ELSE Terminar("MR", "EXIT")
  /\ UNCHANGED <<barrera, cola, tcb, patotas, sabotaje, consola, externo, caida>>

MR_Sacar ==
  /\ En("MR", "vaciar") /\ cola["bem"] # <<>>
  /\ Sacar("bem", Head(cola["bem"]))
  /\ Ir("MR", "poner", Head(cola["bem"]))
  /\ UNCHANGED <<barrera, tcb, patotas, sabotaje, consola, externo, caida>>

MR_Poner ==
  LET t == actual["MR"] IN
  /\ En("MR", "poner")
  /\ tcb' = [tcb EXCEPT ![t].est = "R"]
  /\ PedirRAM(t)
  /\ Poner("ready", t)
  /\ Ir("MR", "vaciar", Nadie)
  /\ UNCHANGED <<barrera, patotas, sabotaje, consola, externo>>

MR_Resolver ==
  /\ En("MR", "vaciar") /\ cola["bem"] = <<>>
  /\ sab' = [sab EXCEPT !.activado = FALSE]
  /\ Terminar("MR", "EXIT")
  /\ UNCHANGED <<barrera, cola, tcb, patotas, ctx, ordenados, llega, consola, externo, caida>>

AReady == MR_Entra \/ MR_Sacar \/ MR_Poner \/ MR_Resolver

-----------------------------------------------------------------------------
(* Exit, and the end of the CPU cycle *)

Activas == {"new", "ready", "exec", "bio", "bem"}

EXIT_Cerrar ==
  LET mirar == viva /\ cola["exit"] # <<>>
      acabadas == {p \in listaPCB \ fin : TodosTerminaron(p, Estados)}
      elimina == mirar /\ EnColas(Activas) = {}
  IN
  /\ En("EXIT", "entra")
  /\ tcb' = [t \in Trips |-> [tcb[t] EXCEPT
       !.vivo = @ /\ ~(mirar /\ Esta("exit", t)),
       !.cumplido = @ /\ ~(viva /\ t \in EnColas(Activas \ {"new"}))]]
  /\ fin' = IF elimina THEN fin \cup acabadas ELSE fin
  /\ enRAM' = IF elimina THEN {t \in enRAM : PatotaDe[t] \notin acabadas} ELSE enRAM
  /\ lbl' = [lbl EXCEPT !["EXIT"] = "espera"]
  /\ sem' = [sem EXCEPT !["pausar"] = @ + 1, !["NR"] = @ + 1]
  /\ UNCHANGED <<actual, barrera, cola, buffers, listaPCB, sabotaje, consola, tablas, inicios, fsck, caida>>

Trabajar(e) ==
  \/ e = "NR" /\ NewReady
  \/ e \in Recorridos /\ RecorreExec(e)
  \/ e = "RE" /\ ReadyExec
  \/ e = "BLOCKIO" /\ BloqIO
  \/ e = "ERM" /\ AEmergencia
  \/ e = "MR" /\ AReady
  \/ e = "EXIT" /\ EXIT_Cerrar

Etapa(e) == Despertar(e) \/ Trabajar(e)
-----------------------------------------------------------------------------
(* The thread of a tripulante: funcionTripulante *)

Corta(n) == Algoritmo = "RR" /\ n = Quantum

(* A thread that finds its TCB dead when it is done signals and ends; that  *)
(* it first frees an element of hiloTripulante is left out.                 *)
Sigue(t) == IF tcb[t].vivo THEN "senal" ELSE "adios"

(* wait for its semaphore and look its TCB up in exec *)
Tomar(t) ==
  LET entra == Esta("exec", t) /\ tcb[t].vivo /\ viva /\ ~tcb[t].cumplido IN
  /\ EnHilo(t, "espera") /\ semT[t] > 0
  /\ semT' = [semT EXCEPT ![t] = @ - 1]
  /\ hilo' = [hilo EXCEPT ![t] = IF entra /\ tcb[t].est = "E" THEN "actua" ELSE Sigue(t)]
  /\ tcb' = [tcb EXCEPT ![t].cumplido = @ \/ (entra /\ tcb[t].est # "E")]
  /\ IF Esta("exec", t) THEN UNCHANGED caida ELSE Cae("hilo")   \* NULL->estaVivoElHilo
  /\ UNCHANGED <<anillo, cantidad, contador, cola, patotas, sabotaje, consola, externo>>

PreemptarSinCero(r, n) ==      \* mutation: ciclosCumplidos is not reset
  IF Corta(n) THEN [r EXCEPT !.ciclos = n, !.est = "R"] ELSE [r EXCEPT !.ciclos = n]
Preemptar(r, n) == IF Corta(n) THEN [r EXCEPT !.ciclos = 0, !.est = "R"]
                               ELSE [r EXCEPT !.ciclos = n]
Cumplio(t) == [tcb[t] EXCEPT !.cumplido = TRUE]

IrAlSabotaje(t) ==
  /\ sab.activado /\ ~EnPunto(tcb[t], sab.pos)
  /\ tcb' = [tcb EXCEPT ![t] = Preemptar(Paso(Cumplio(t), sab.pos), tcb[t].ciclos + 1)]
  /\ PedirRAM(t)
  /\ UNCHANGED inicios

(* ciclos_transcurridos_sabotaje is read, INVOCAR_FSCK is sent on a copy of *)
(* it, and only then is it incremented: three steps, two lock sections      *)
LlegarAlSabotaje(t) ==
  /\ EnHilo(t, "actua") /\ sab.activado /\ EnPunto(tcb[t], sab.pos)
  /\ hilo' = [hilo EXCEPT ![t] = "repara"]
  /\ fsck' = IF sab.ciclos = 0 THEN fsck + 1 ELSE fsck
  /\ UNCHANGED <<anillo, semT, cantidad, contador, cola, tcb, patotas, sabotaje, consola,
                 enRAM, tablas, inicios, caida>>

Reparar(t) ==
  LET n == tcb[t].ciclos + 1 IN
  /\ EnHilo(t, "repara")
  /\ hilo' = [hilo EXCEPT ![t] = Sigue(t)]
  /\ sab' = [sab EXCEPT !.ciclos = @ + 1]
  /\ tcb' = [tcb EXCEPT ![t] = Preemptar(Cumplio(t), n)]
  /\ IF Corta(n) THEN PedirRAM(t) ELSE UNCHANGED caida
  /\ UNCHANGED <<anillo, semT, cantidad, contador, cola, patotas, ctx, ordenados, llega,
                 consola, externo>>

TareaNormal(t) ==
  LET i == tcb[t].instr
      llego == EnPunto(tcb[t], i)
      n == tcb[t].ciclos + 1
      completa == tcb[t].tExec + 1 = i.t
      r == IF completa THEN Proxima([Cumplio(t) EXCEPT !.tExec = 0, !.ini = FALSE], t)
                       ELSE [Cumplio(t) EXCEPT !.tExec = @ + 1, !.ini = TRUE]
  IN
  /\ ~sab.activado /\ ~i.io
  /\ tcb' = [tcb EXCEPT ![t] =
       IF ~llego THEN Preemptar(Paso(Cumplio(t), i), n)
       ELSE IF r.est = "X" THEN [r EXCEPT !.ciclos = n] ELSE Preemptar(r, n)]
  /\ inicios' = [inicios EXCEPT ![t] =
       IF ~llego THEN @ ELSE IF completa THEN 0 ELSE IF tcb[t].ini THEN @ ELSE @ + 1]
  /\ IF llego /\ ~completa /\ ~Corta(n) THEN UNCHANGED caida ELSE PedirRAM(t)

TareaIO(t) ==
  LET i == tcb[t].instr
      quieto == EnPunto(tcb[t], i)
      r == IF quieto THEN Cumplio(t) ELSE [Paso(Cumplio(t), i) EXCEPT !.ciclos = @ + 1]
      llego == EnPunto(r, i)
  IN
  /\ ~sab.activado /\ i.io
  /\ tcb' = [tcb EXCEPT ![t] = IF llego THEN [r EXCEPT !.est = "I", !.ciclos = 0]
                                        ELSE Preemptar(r, r.ciclos)]
  /\ inicios' = [inicios EXCEPT ![t] = IF llego THEN @ + 1 ELSE @]
  /\ PedirRAM(t)

Actuar(t) ==
  /\ EnHilo(t, "actua")
  /\ hilo' = [hilo EXCEPT ![t] = Sigue(t)]
  /\ IrAlSabotaje(t) \/ TareaNormal(t) \/ TareaIO(t)
  /\ UNCHANGED <<anillo, semT, cantidad, contador, cola, patotas, sabotaje, consola,
                 enRAM, tablas, fsck>>

(* _signal: the last of cantidadTCBEnExec threads posts semER *)
UltimoTarde == contador = cantidad      \* mutation: compared before counting
UltimoAntes == contador + 2 >= cantidad      \* mutation: one signal too few
Ultimo == contador + 1 = cantidad

Signal(t) ==
  /\ EnHilo(t, "senal") \/ EnHilo(t, "adios")
  /\ hilo' = [hilo EXCEPT ![t] = IF @ = "senal" THEN "espera" ELSE "fin"]
  /\ contador' = IF Ultimo THEN 0 ELSE contador + 1
  /\ cantidad' = IF Ultimo THEN Len(cola["exec"]) ELSE cantidad
  /\ sem' = [sem EXCEPT !["ER"] = IF Ultimo THEN @ + 1 ELSE @]
  /\ UNCHANGED <<lbl, actual, semT, cola, tcb, patotas, sabotaje, consola, externo, caida>>

Hilo(t) == Tomar(t) \/ Actuar(t) \/ LlegarAlSabotaje(t) \/ Reparar(t) \/ Signal(t)

-----------------------------------------------------------------------------
(* handler of sabotaje.c, in a thread of the server: COMIENZA_SABOTAJE *)

SAB_Activar ==
  /\ caida = "no" /\ ~llega /\ usos.sabotajes < MaxSabotajes
  /\ usos' = [usos EXCEPT !.sabotajes = @ + 1]
  /\ sab' = [sab EXCEPT !.activado = TRUE]
  /\ llega' = TRUE
  /\ fsck' = 0
  /\ UNCHANGED <<anillo, barrera, cola, tcb, patotas, ctx, ordenados,
                 cons, viva, pausada, enRAM, tablas, inicios, caida>>

SAB_Datos ==
  /\ caida = "no" /\ llega
  /\ \E p \in PosSabotaje :
       sab' = [sab EXCEPT !.terminado = FALSE, !.ciclos = 0, !.pos = p]
  /\ llega' = FALSE
  /\ UNCHANGED <<anillo, barrera, cola, tcb, patotas, ctx, ordenados, consola, externo, caida>>

-----------------------------------------------------------------------------
(* The console *)

EnConsola(pc) == caida = "no" /\ cons.pc = pc
Consola(pc, pc2, t) == EnConsola(pc) /\ cons' = [cons EXCEPT !.pc = pc2, !.t = t]

(* INICIAR_PLANIFICACION: sets the flag and posts pausar ... *)
INI_Pausar ==
  /\ Consola("libre", "iniciar", Nadie)
  /\ \/ /\ ~viva \/ pausada
        /\ UNCHANGED usos
     \/ /\ viva /\ ~pausada /\ usos.reinicios < MaxReinicios
        /\ usos' = [usos EXCEPT !.reinicios = @ + 1]
  /\ viva' = TRUE /\ pausada' = FALSE
  /\ sem' = [sem EXCEPT !["pausar"] = @ + 1]
  /\ UNCHANGED <<lbl, actual, barrera, cola, tcb, patotas, sabotaje, externo, caida>>

(* ... then gives New->Ready its turn if no queue but New holds a TCB *)
INI_Turno ==
  /\ Consola("iniciar", "libre", Nadie)
  /\ sem' = [sem EXCEPT !["NR"] =
       IF EnColas({"ready", "exec", "bio", "bem", "exit"}) = {} THEN @ + 1 ELSE @]
  /\ UNCHANGED <<lbl, actual, barrera, cola, tcb, patotas, sabotaje,
                 viva, pausada, usos, externo, caida>>

(* PAUSAR_PLANIFICACION takes the pausar token.  Bound: it is typed only    *)
(* when the planning runs; typed before, the console would wait forever.    *)
PAU_Pedir ==
  /\ Consola("libre", "pausar", Nadie)
  /\ viva /\ ~pausada /\ usos.pausas < MaxPausas
  /\ usos' = [usos EXCEPT !.pausas = @ + 1]
  /\ UNCHANGED <<anillo, barrera, cola, tcb, patotas, sabotaje, viva, pausada, externo, caida>>

PAU_Tomar ==
  /\ Consola("pausar", "libre", Nadie)
  /\ sem["pausar"] > 0
  /\ sem' = [sem EXCEPT !["pausar"] = @ - 1]
  /\ pausada' = TRUE
  /\ UNCHANGED <<lbl, actual, barrera, cola, tcb, patotas, sabotaje, viva, usos, externo, caida>>

(* INICIAR_PATOTA: crear_PCB queues the message before the PCB is listed *)
PorCrear == {p \in Patotas : p \notin listaPCB /\ p \notin ToSet(buffers)}

PAT_Crear ==
  LET p == MinTid(PorCrear) IN
  /\ PorCrear # {} /\ (EnMarcha \/ ~viva \/ pausada)
  /\ Consola("libre", "pcb", MinTid(Miembros(p)))
  /\ buffers' = Append(buffers, p)
  /\ UNCHANGED <<anillo, barrera, cola, tcb, listaPCB, fin, sabotaje,
                 viva, pausada, usos, externo, caida>>

PAT_Listar ==
  /\ Consola("pcb", "new", cons.t)
  /\ listaPCB' = listaPCB \cup {PatotaDe[cons.t]}
  /\ UNCHANGED <<anillo, barrera, cola, tcb, buffers, fin, sabotaje,
                 viva, pausada, usos, externo, caida>>

(* iniciar_tcb: the TCB goes to New, then its semaphore and thread exist *)
PAT_New ==
  /\ Consola("new", "hilo", cons.t)
  /\ Poner("new", cons.t)
  /\ tcb' = [tcb EXCEPT ![cons.t].vivo = TRUE]
  /\ UNCHANGED <<anillo, barrera, patotas, sabotaje, viva, pausada, usos, externo, caida>>

PAT_Hilo ==
  LET u == SiguienteTid(cons.t) IN
  /\ Consola("hilo", IF u = Nadie THEN "libre" ELSE "new", u)
  /\ hilo' = [hilo EXCEPT ![cons.t] = "espera"]
  /\ UNCHANGED <<anillo, semT, cantidad, contador, cola, tcb, patotas, sabotaje,
                 viva, pausada, usos, externo, caida>>

(* EXPULSAR_TRIPULANTE: RAM drops it first, whatever its status; it answers *)
(* SUCCESS even when it has no such TCB, and fails when it has no such table *)
EXP_RAM(t) ==
  /\ viva /\ PatotaDe[t] \in listaPCB /\ usos.expulsiones < MaxExpulsiones
  /\ Consola("libre", "estado", t)
  /\ usos' = [usos EXCEPT !.expulsiones = @ + 1]
  /\ enRAM' = enRAM \ {t}
  /\ IF PatotaDe[t] \in tablas THEN UNCHANGED caida ELSE Cae("ram")
  /\ UNCHANGED <<anillo, barrera, cola, tcb, patotas, sabotaje,
                 viva, pausada, tablas, inicios, fsck>>

ColaDe == [N |-> "new", R |-> "ready", E |-> "exec", I |-> "bio", M |-> "bem", X |-> "exit"]

EXP_Estado ==
  LET e == tcb[cons.t].est IN
  /\ EnConsola("estado")
  /\ cons' = [cons EXCEPT !.pc = IF e = "X" THEN "patota" ELSE "buscar", !.cola = ColaDe[e]]
  /\ UNCHANGED <<anillo, barrera, cola, tcb, patotas, sabotaje,
                 viva, pausada, usos, externo, caida>>

(* expulsarNodo: list_find, then iterar_en_lista from the head *)
EXP_Buscar ==
  /\ EnConsola("buscar")
  /\ IF Esta(cons.cola, cons.t)
       THEN /\ tcb' = [tcb EXCEPT ![cons.t].est = "X"]
            /\ cons' = [cons EXCEPT !.pc = "extraer", !.nodo = Head(cola[cons.cola]), !.i = 1]
       ELSE /\ cons' = [cons EXCEPT !.pc = "patota"]
            /\ UNCHANGED tcb
  /\ UNCHANGED <<anillo, barrera, cola, patotas, sabotaje,
                 viva, pausada, usos, externo, caida>>

(* extraerTripulante: the node is tested, the position is removed; the      *)
(* position still counts the nodes already taken out                        *)
EXP_Extraer ==
  LET q == cola[cons.cola]
      nodo == cons.nodo
      saca == tcb[nodo].est = "X"
  IN
  /\ EnConsola("extraer") /\ nodo # Nadie
  /\ \/ /\ Contains(q, nodo) /\ (saca => cons.i <= Len(q))
        /\ cola' = IF saca THEN [[cola EXCEPT ![cons.cola] = RemoveAt(@, cons.i)]
                                   EXCEPT !["exit"] = Append(@, q[cons.i])]
                           ELSE cola
        /\ cons' = [cons EXCEPT !.nodo = Siguiente(q, nodo), !.i = @ + 1]
        /\ UNCHANGED caida
     \/ /\ ~Contains(q, nodo) \/ (saca /\ cons.i > Len(q))
        /\ Cae("lista")
        /\ UNCHANGED <<cola, cons>>
  /\ UNCHANGED <<anillo, barrera, tcb, patotas, sabotaje, viva, pausada, usos, externo>>

EXP_Extraido ==
  /\ EnConsola("extraer") /\ cons.nodo = Nadie
  /\ cons' = [cons EXCEPT !.pc = "patota"]
  /\ UNCHANGED <<anillo, barrera, cola, tcb, patotas, sabotaje,
                 viva, pausada, usos, externo, caida>>

EXP_Patota ==
  LET p == PatotaDe[cons.t]
      todos == TodosTerminaron(p, Estados) IN
  /\ EnConsola("patota")
  /\ cons' = ConsolaLibre
  /\ fin' = IF todos THEN fin \cup {p} ELSE fin
  /\ enRAM' = IF todos THEN enRAM \ Miembros(p) ELSE enRAM
  /\ UNCHANGED <<anillo, barrera, cola, tcb, buffers, listaPCB, sabotaje,
                 viva, pausada, usos, tablas, inicios, fsck, caida>>

IniciarPlanificacion == INI_Pausar \/ INI_Turno
PausarPlanificacion == PAU_Pedir \/ PAU_Tomar
IniciarPatota == PAT_Crear \/ PAT_Listar \/ PAT_New \/ PAT_Hilo
SeguirExpulsion == EXP_Estado \/ EXP_Buscar \/ EXP_Extraer \/ EXP_Extraido \/ EXP_Patota
ExpulsarTripulante == (\E t \in Trips : EXP_RAM(t)) \/ SeguirExpulsion
FuncionConsola == IniciarPlanificacion \/ PausarPlanificacion \/ IniciarPatota
                    \/ ExpulsarTripulante

-----------------------------------------------------------------------------

Next ==
  \/ TomarPausar \/ (\E e \in Etapas : Despertar(e))
  \/ NewReady \/ (\E e \in Recorridos : RecorreExec(e)) \/ ReadyExec \/ BloqIO
  \/ AEmergencia \/ AReady \/ EXIT_Cerrar
  \/ (\E t \in Trips : Hilo(t))
  \/ SAB_Activar \/ SAB_Datos \/ FuncionConsola

Spec == Init /\ [][Next]_vars

(* Every thread of the process runs (the C threads block on nothing but the *)
(* semaphores), and so does the console once a command was typed.           *)
SeguirConsola == INI_Turno \/ PAT_Listar \/ PAT_New \/ PAT_Hilo \/ SeguirExpulsion
Justicia ==
  /\ WF_vars(TomarPausar) /\ WF_vars(SAB_Datos) /\ WF_vars(SeguirConsola)
  /\ \A e \in Etapas : WF_vars(Etapa(e))
  /\ \A t \in Trips : WF_vars(Hilo(t))
SpecJusta == Spec /\ Justicia

-----------------------------------------------------------------------------
(* Properties *)

Rotulos == {"espera", "turno", "entra", "iniciar", "tareas", "mover", "poner", "recorre",
            "llenar", "contar", "empezar", "avisar", "pedir", "salir", "sacarFixer",
            "restaurar", "vaciar"}
Hilos == {"nada", "espera", "actua", "repara", "senal", "adios", "fin"}
Consolas == {"libre", "iniciar", "pausar", "pcb", "new", "hilo", "estado", "buscar",
             "extraer", "patota"}
TCB == [est : {"N", "R", "E", "I", "M", "X"}, tarea : Nat, instr : Tarea, tExec : Nat, tIO : Nat,
        ciclos : Nat, cumplido : BOOLEAN, ini : BOOLEAN, vivo : BOOLEAN, x : Nat, y : Nat]
Contextos == [trip : Trips, vivo : BOOLEAN, tExec : Nat, tIO : Nat, ciclos : Nat, instr : Tarea]
TripsONada == Trips \cup {Nadie}
Sabotajes == [activado : BOOLEAN, terminado : BOOLEAN, primer : BOOLEAN, ciclos : Nat, pos : Punto]
Comandos == [pc : Consolas, t : TripsONada, cola : Colas, nodo : TripsONada, i : Nat]
Usos == [reinicios : Nat, pausas : Nat, expulsiones : Nat, sabotajes : Nat]

Caidas == {"no", "pcb", "ram", "lista", "pop", "semaforo", "hilo", "sinFixer"}

(* The types of the state. *)
TipoAnillo ==
  /\ sem \in [Etapas \cup {"pausar"} -> Nat]
  /\ lbl \in [Etapas -> Rotulos] /\ actual \in [Etapas -> TripsONada]
TipoBarrera ==
  /\ semT \in [Trips -> Nat] /\ hilo \in [Trips -> Hilos]
  /\ cantidad \in Nat /\ contador \in Nat
TipoColas == cola \in [Colas -> Seq(Trips)]
TipoTCB == tcb \in [Trips -> TCB]
TipoPatotas == buffers \in Seq(Patotas) /\ listaPCB \subseteq Patotas /\ fin \subseteq Patotas
TipoSabotaje ==
  /\ sab \in Sabotajes
  /\ ctx \in Seq(Contextos) /\ ordenados \in Seq(Trips) /\ llega \in BOOLEAN
TipoConsola ==
  /\ cons \in Comandos
  /\ viva \in BOOLEAN /\ pausada \in BOOLEAN
  /\ usos \in Usos
TipoExterno ==
  /\ enRAM \subseteq Trips /\ tablas \subseteq Patotas
  /\ inicios \in [Trips -> Nat] /\ fsck \in Nat

TypeOK == /\ TipoAnillo /\ TipoBarrera /\ TipoColas /\ TipoTCB /\ TipoPatotas
          /\ TipoSabotaje /\ TipoConsola /\ TipoExterno /\ caida \in Caidas

(* Who holds the turn: a stage at work, a posted semaphore, or the          *)
(* tripulantes of the cycle once the RE stage has woken them all.           *)
HilosEnCiclo == {t \in Trips : semT[t] > 0 \/ hilo[t] \in {"actua", "repara", "senal", "adios"}}
SemTurno == (Etapas \ {"NR"}) \cup {"pausar"}
EnTurno ==
  ({"etapa"} \X {e \in Etapas : lbl[e] # "espera"})
    \cup ({"sem"} \X {s \in SemTurno : sem[s] > 0})
    \cup (IF HilosEnCiclo # {} /\ lbl["RE"] = "espera" THEN {<<"hilos", "todos">>} ELSE {})

(* The turn is never duplicated: at most one stage works, or one semaphore  *)
(* is posted once, or the tripulantes are in their cycle.  This is what     *)
(* makes the unprotected queue tests of planificador.c safe.                *)
UnSoloTurno ==
  /\ \A s \in SemTurno : sem[s] <= 1
  /\ \A a, b \in EnTurno : a = b

(* The turn is never lost while the planning runs: the barrier of _signal   *)
(* closes once per cycle and every stage passes the turn on.                *)
HayTurno == viva /\ ~pausada => EnTurno # {}

(* PAUSAR_PLANIFICACION returns only when nobody works any more. *)
QuietoEnPausa == pausada => EnTurno = {}

TurnoUnico == UnSoloTurno /\ HayTurno /\ QuietoEnPausa

(* A TCB is never in two queues, nor twice in one, nor in a queue and in a  *)
(* stage's hand, nor in two hands: there is one owner that may change it.   *)
UnSoloLugar ==
  /\ \A q, r \in Colas : \A i \in DOMAIN cola[q], j \in DOMAIN cola[r] :
       cola[q][i] = cola[r][j] => q = r /\ i = j
  /\ \A e, f \in Etapas : EnMano(e) /\ EnMano(f) /\ actual[e] = actual[f] => e = f
  /\ \A e \in Etapas, q \in Colas : EnMano(e) => ~Esta(q, actual[e])

(* A started tripulante that has not ended is in a queue or a hand: no pop  *)
(* without its push.                                                        *)
NingunoPerdido ==
  \A t \in Trips : hilo[t] # "nada" /\ tcb[t].est # "X" =>
    t \in EnColas(Colas) \/ \E e \in Etapas : EnMano(e) /\ actual[e] = t

(* Whoever is in Ready, Exec, BloqIO or BloqEmer, or at work, has received  *)
(* a task of its patota: instruccion_actual, NULL until the first answer of *)
(* MiRAMHQ, is never split while it is NULL.                                *)
Cargada(t) == tcb[t].tarea \in DOMAIN TareasDe(t)
TareaCargada ==
  /\ \A t \in EnColas({"ready", "exec", "bio", "bem"}) : Cargada(t)
  /\ \A e \in Etapas \ {"NR"} : EnMano(e) => Cargada(actual[e])
  /\ \A t \in Trips : hilo[t] = "actua" => Cargada(t)

(* The TCB a thread works on, and every TCB of exec, is alive: EXIT kills   *)
(* those of cola_exit, and a thread that found its own dead would end and   *)
(* free what it shares with the others.                                     *)
HiloVivo == \A t \in Trips : Esta("exec", t) \/ hilo[t] \in {"actua", "repara"} => tcb[t].vivo

(* GRADO_MULTITAREA bounds exec at every moment, sabotage included. *)
GradoRespetado == Len(cola["exec"]) <= Grado

(* RR compares ciclosCumplidos with the quantum by equality: no tripulante  *)
(* stays in execution at or past it, or it would never be preempted again.  *)
QuantumRespetado ==
  Algoritmo = "RR" => \A t \in Trips : tcb[t].est = "E" => tcb[t].ciclos < Quantum

(* A patota is reported terminated only when all its tripulantes are in     *)
(* 'X', and none of them is left in a queue from which it would be run      *)
(* again (those still in exec wait for their own visit of Exec->Exit).      *)
PatotaTerminada ==
  caida = "no" => \A p \in fin : \A t \in Miembros(p) :
    tcb[t].est = "X" /\ t \notin EnColas({"ready", "bio", "bem"})

(* IMongoStore hears COMENZAR_EJECUCION_TAREA once per task, however often  *)
(* the tripulante is preempted meanwhile.  A sabotage may break it: who is  *)
(* taken from exec in 'I', before Exec->BloqIO saw it, starts its IO again. *)
InicioUnico == \A t \in Trips : inicios[t] <= 1

(* While it is being attended no other tripulante moves, works or advances  *)
(* its task: they all go on later from where the sabotage found them.       *)
Avanzado(t) == <<tcb[t].tarea, tcb[t].tExec, tcb[t].x, tcb[t].y>>
SoloElFixerAvanza ==
  [][sab.primer /\ sab'.primer =>
       \A t \in Trips : Avanzado(t)' # Avanzado(t) => t = ctx[1].trip]_vars

(* The context restored at the end of a sabotage is that of the TCB it is   *)
(* written to: tid and pid are restored over the TCB that was popped, and   *)
(* with another's two TCBs would have one tid and one semaphore from then   *)
(* on.                                                                      *)
IdentidadDelFixer == lbl["ERM"] = "restaurar" /\ ctx # <<>> => ctx[1].trip = actual["ERM"]

(* With a single sabotage there is always a context to restore. *)
ContextoDelFixer == IdentidadDelFixer /\ (lbl["ERM"] = "restaurar" => ctx # <<>>)

(* A sabotage is declared finished only after INVOCAR_FSCK was sent for it. *)
FsckAntesDeResolver == sab.terminado => fsck > 0

(* No thread dereferences NULL, no list is used out of range, and MiRAMHQ   *)
(* is not asked about a tripulante it dropped.                              *)
NoCae == caida = "no"

(* With a single sabotage the only way down is the one it has when no       *)
(* tripulante was left in Ready or Exec to attend it.                       *)
SoloSinFixer == caida \in {"no", "sinFixer"}

(* Every tripulante started under a running planning ends its tasks. *)
Termina == \A t \in Trips :
  (viva /\ hilo[t] # "nada") ~> (tcb[t].est = "X" \/ caida # "no")

(* A sabotage announced to Discordiador is eventually over. *)
SabotajeSeResuelve == (viva /\ sab.activado) ~> (~sab.activado \/ caida # "no")
=============================================================================
