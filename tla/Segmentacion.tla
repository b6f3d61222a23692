---------------------------- MODULE Segmentacion ----------------------------
(***************************************************************************)
(* MiRAMHQ under ESQUEMA_MEMORIA=SEGMENTACION: the holes of the memory,    *)
(* the segments of each patota (its PCB, one TCB per tripulante, the text  *)
(* of its tasks), their contents, and the compaction.                      *)
(*                                                                         *)
(* INICIAR_PATOTA comes from one thread of Discordiador, which waits for   *)
(* the answer; every other request comes from some thread of its own and   *)
(* is served by a thread of its own, with no lock in common.  A segment    *)
(* reserved and not yet in the table, and the segments that a patota being *)
(* eliminated has left, are points where other requests get in.            *)
(***************************************************************************)
EXTENDS Integers, Sequences, FiniteSets, FiniteSetsExt, SequencesExt, MapaNave, Celdas

CONSTANTS
  Inicial,       \* where each tripulante starts
  Posiciones,    \* positions a tripulante may report
  Estados,       \* statuses it may report
  TamMemoria,    \* TAMANIO_MEMORIA
  Criterios,     \* CRITERIO_SELECCION: {"BF"}, {"FF"} or both
  SenialConReserva, \* SIGUSR1 may arrive between a reservation and its segment
  MaxEventos,    \* bound on the reports, expulsions and SIGUSR1 together
  Nadie

TamPCB == 2      \* cells: pid, tasks
TamTCB == 6      \* cells: tid, next, status, x, y and one never used
ASSUME MemoriaOK ==
  /\ Nadie \notin Patotas
  /\ TamMemoria \in Nat /\ Criterios \subseteq {"BF", "FF"} /\ Criterios # {}
  /\ SenialConReserva \in BOOLEAN /\ MaxEventos \in Nat

VARIABLES
  isBestFit,         \* read from the configuration
  segmentosLibres,   \* the holes
  segmentos,         \* table_collection: the segments of every patota's table
  claves,            \* its keys: the patotas that have a table
  memory,            \* one value per cell
  mapa,              \* nivel
  iniciando,         \* the INICIAR_PATOTA being served
  eliminando,        \* the patota being eliminated, or Nadie
  pedidas, iniciadas, \* patotas ever asked for, and answered SUCCESS
  bajas,             \* tripulantes expelled, or of a patota eliminated (history)
  dicho,             \* what each tripulante last reported (history)
  eventos,           \* how many of them there were (bound)
  respuesta, caida

tablas  == <<segmentosLibres, segmentos, claves, memory>>
pedidos == <<iniciando, eliminando, pedidas, iniciadas, bajas>>
vars    == <<isBestFit, tablas, mapa, pedidos, dicho, eventos, respuesta, caida>>

-----------------------------------------------------------------------------
(* The parts of a patota, their segments, and what is written in them.      *)

Partes == [p \in Patotas |->      \* the segments of a patota, in the order they are saved
  LET tcbs == Inscriptos[p]
  IN  <<[type |-> "PCB", id |-> p, tam |-> TamPCB]>>
      \o [i \in 1..Len(tcbs) |-> [type |-> "TCB", id |-> tcbs[i], tam |-> TamTCB]]
      \o <<[type |-> "TASK", id |-> p, tam |-> Len(Texto[p])]>>]
TamPatota == [p \in Patotas |-> FoldLeft(LAMBDA n, x : n + x.tam, 0, Partes[p])]

Contiene(s, a) == s.baseAddr <= a /\ a < s.limit
Tam(s) == s.limit - s.baseAddr
Hueco(base, limite) == [baseAddr |-> base, limit |-> limite]
Suma(S) == MapThenSumSet(Tam, S)

(* Only a segment that ends strictly before the end of the memory is        *)
(* written, or read back.                                                   *)
Accesible(s) == s.limit < TamMemoria
Escribir(m, s, celdas) ==
  IF Accesible(s)
    THEN [a \in DOMAIN m |-> IF a - s.baseAddr \in DOMAIN celdas THEN celdas[a - s.baseAddr] ELSE m[a]]
    ELSE m
(* What a freed cell holds is not looked at again: garbage.                 *)
Liberar(m, S) == [a \in DOMAIN m |-> IF \E s \in S : Contiene(s, a) THEN Basura ELSE m[a]]
save_pcb_in_memory(m, s, pid, tasks) ==
  Escribir(m, s, [d \in 0..1 |-> IF d = 0 THEN Celda("pid", pid) ELSE Celda("tasks", tasks)])
(* pid, status, x and y are written over and under next: only tid's first   *)
(* byte and next survive, and the cells of the status and the position are  *)
(* not touched.                                                             *)
save_tcb_in_memory(m, s, tid, next) ==
  Escribir(m, s, [d \in 0..1 |-> IF d = 0 THEN Celda("tid", tid) ELSE Celda("next", next)])
save_task_in_memory(m, s, texto) ==
  Escribir(m, s, [d \in 0..(Tam(s) - 1) |-> texto[d + 1]])

(* The letters from next to the bar or to the end of the segment.           *)
get_next_taskDeMenos(m, next, limit, task_start) ==      \* mutation: the last cell is not reached
  LET a   == task_start + next
      fin == Min({i \in a..limit : i >= limit - 1 \/ m[i] = Barra})
  IN  [i \in 1..(fin - a) |-> m[a + i - 1]]
get_next_task(m, next, limit, task_start) ==
  LET a   == task_start + next
      fin == Min({i \in a..limit : i = limit \/ m[i] = Barra})
  IN  [i \in 1..(fin - a) |-> m[a + i - 1]]

-----------------------------------------------------------------------------
(* Holes: Elegibles are the holes an allocation may take (list_sort leaves  *)
(* the order of equal sizes to the order the list had).                     *)

mem_spaceSinSumar(tam) == tam <= TamMemoria      \* mutation: the holes are not added up
mem_space(tam) == tam <= TamMemoria /\ Suma(segmentosLibres) >= tam
ElegiblesPrimeros(L, tam) == {h \in L : Tam(h) >= tam - 1}      \* mutation
Elegibles(L, tam) ==
  LET caben == {h \in L : Tam(h) >= tam}
  IN  IF isBestFit THEN {h \in caben : \A g \in caben : Tam(h) <= Tam(g)}
                   ELSE {h \in caben : \A g \in caben : h.baseAddr <= g.baseAddr}
OcuparTodo(L, h, tam) == L \ {h}      \* mutation: the rest of the hole is lost
Ocupar(L, h, tam) ==
  IF Tam(h) = tam THEN L \ {h}
                  ELSE (L \ {h}) \cup {Hueco(h.baseAddr + tam, h.limit)}
Devolver(L, s) == L \cup {Hueco(s.baseAddr, s.limit)}

(* memory_compaction: every segment of every table goes to the beginning,   *)
(* in the order of their addresses, and one hole is left, of size 0 perhaps.*)
Anteriores(S, s) ==
  {r \in S : \/ r.baseAddr < s.baseAddr
             \/ r.baseAddr = s.baseAddr /\ r.p < s.p
             \/ r.baseAddr = s.baseAddr /\ r.p = s.p /\ r.nroSegmento < s.nroSegmento}
Reubicado(S, s) == LET b == Suma(Anteriores(S, s))
                   IN  [s EXCEPT !.baseAddr = b, !.limit = b + Tam(s)]
CompactadaSinMover(S, m) == m      \* mutation: the bases move, the contents do not
Compactada(S, m) ==
  LET pares == {[de |-> s.baseAddr, a |-> Reubicado(S, s)] : s \in S}
  IN  IF claves = {} THEN m ELSE
      [a \in DOMAIN m |->
         LET en == {x \in pares : Contiene(x.a, a)}
         IN  IF en = {} THEN Basura
             ELSE LET x == CHOOSE x \in en : TRUE IN m[x.de + a - x.a.baseAddr]]
memory_compaction ==
  LET S == segmentos
  IN  [segmentos |-> {Reubicado(S, s) : s \in S},
       libres    |-> {Hueco(Suma(S), TamMemoria)},
       memory    |-> Compactada(S, memory)]

-----------------------------------------------------------------------------
(* The tables *)

TablaDe(p) == {s \in segmentos : s.p = p}
UltimoNro(p) == IF TablaDe(p) = {} THEN -1 ELSE Max({s.nroSegmento : s \in TablaDe(p)})
find_tcb_segment(t) == {s \in TablaDe(PatotaDe[t]) : s.type = "TCB" /\ s.id = t}
find_task_segment(p) == {s \in TablaDe(p) : s.type = "TASK"}
get_next_segment(p) ==
  {s \in TablaDe(p) : \A r \in TablaDe(p) : s.nroSegmento <= r.nroSegmento}

SinDatos == [a \in 0..(TamMemoria - 1) |-> Basura]
NoInicia == [p |-> Nadie, i |-> 0, base |-> -1]
SinRespuesta == [a |-> Nadie, tarea |-> <<>>]
SinDicho == [status |-> "nada", pos |-> [x |-> -1, y |-> -1]]

Init ==
  /\ isBestFit \in {c = "BF" : c \in Criterios}
  /\ segmentosLibres = {Hueco(0, TamMemoria)} /\ segmentos = {} /\ claves = {}
  /\ memory = SinDatos
  /\ mapa = MapaVacio
  /\ iniciando = NoInicia /\ eliminando = Nadie
  /\ pedidas = {} /\ iniciadas = {} /\ bajas = {}
  /\ dicho = [t \in Trips |-> SinDicho]
  /\ eventos = 0
  /\ respuesta = SinRespuesta /\ caida = "no"

-----------------------------------------------------------------------------
(* INICIAR_PATOTA, one segment at a time: reserve a hole, write, and only   *)
(* then put the segment in the table.                                       *)

Vive == caida = "no"
Muere(causa) ==      \* the process dies, and its memory with it
  /\ caida' = causa
  /\ segmentosLibres' = {Hueco(0, TamMemoria)} /\ segmentos' = {} /\ claves' = {}
  /\ memory' = SinDatos /\ mapa' = MapaVacio /\ dicho' = [t \in Trips |-> SinDicho]
  /\ iniciando' = NoInicia /\ eliminando' = Nadie /\ respuesta' = SinRespuesta
  /\ UNCHANGED <<isBestFit, pedidas, iniciadas, bajas, eventos>>
Responde(t, tarea) == respuesta' = [a |-> t, tarea |-> tarea]
Calla == respuesta' = SinRespuesta      \* the last answer was taken by whoever asked

IniciarPatota(p) ==
  /\ Vive /\ iniciando = NoInicia /\ p \notin pedidas
  /\ \A q \in Patotas : q < p => q \in pedidas
  /\ pedidas' = pedidas \cup {p}
  /\ IF mem_space(TamPatota[p])
       THEN iniciando' = [p |-> p, i |-> 1, base |-> -1]
       ELSE UNCHANGED iniciando
  /\ UNCHANGED <<isBestFit, tablas, mapa, eliminando, iniciadas, bajas, dicho, eventos, caida>> /\ Calla

(* As it is, or compacted when no hole is large enough.                     *)
ParaReservar(tam) ==
  IF Elegibles(segmentosLibres, tam) # {}
    THEN [segmentos |-> segmentos, libres |-> segmentosLibres, memory |-> memory]
    ELSE memory_compaction

ReservarSegmento ==
  /\ Vive /\ iniciando # NoInicia /\ iniciando.base = -1
  /\ LET tam == Partes[iniciando.p][iniciando.i].tam
         c   == ParaReservar(tam)
     IN  IF Elegibles(c.libres, tam) = {}
           THEN Muere("sinLugar")      \* the segment would be at -1
           ELSE /\ \E h \in Elegibles(c.libres, tam) :
                     /\ segmentosLibres' = Ocupar(c.libres, h, tam)
                     /\ iniciando' = [iniciando EXCEPT !.base = h.baseAddr]
                /\ segmentos' = c.segmentos /\ memory' = c.memory
                /\ UNCHANGED <<isBestFit, claves, mapa, eliminando, pedidas, iniciadas, bajas, dicho, eventos, caida>>
                /\ Calla

GuardarSegmento ==
  /\ Vive /\ iniciando # NoInicia /\ iniciando.base # -1
  /\ LET p     == iniciando.p
         parte == Partes[p][iniciando.i]
         s     == [p |-> p, nroSegmento |-> UltimoNro(p) + 1, type |-> parte.type, id |-> parte.id,
                   baseAddr |-> iniciando.base, limit |-> iniciando.base + parte.tam]
     IN  /\ segmentos' = segmentos \cup {s}
         /\ claves' = claves \cup {p}
         /\ memory' = CASE parte.type = "PCB"  -> save_pcb_in_memory(memory, s, p,
                                iniciando.base + TamPCB + Cardinality(Miembros(p)) * TamTCB)
                        [] parte.type = "TCB"  -> save_tcb_in_memory(memory, s, parte.id, 0)
                        [] parte.type = "TASK" -> save_task_in_memory(memory, s, Texto[p])
         /\ mapa' = IF parte.type = "TCB" THEN personaje_crear(mapa, parte.id, Inicial[parte.id]) ELSE mapa
         /\ IF iniciando.i = Len(Partes[p])
              THEN iniciando' = NoInicia /\ iniciadas' = iniciadas \cup {p}
              ELSE iniciando' = [p |-> p, i |-> iniciando.i + 1, base |-> -1] /\ UNCHANGED iniciadas
  /\ UNCHANGED <<isBestFit, segmentosLibres, eliminando, pedidas, bajas, dicho, eventos, caida>> /\ Calla

-----------------------------------------------------------------------------
(* Requests about one tripulante.  Its segment is looked up and used        *)
(* unchecked: a report or a request for a task of a tripulante without one  *)
(* takes MiRAMHQ down, and so does a TCB that cannot be read back.          *)

PedidoSinSegmento(t) ==
  /\ Vive /\ PatotaDe[t] \in iniciadas
  /\ \/ find_tcb_segment(t) = {} \/ find_task_segment(PatotaDe[t]) = {}
     \/ \E s \in find_tcb_segment(t) : ~Accesible(s)
  /\ Muere("sinSegmento")

Evento == eventos < MaxEventos /\ eventos' = eventos + 1
Reporte(t, d) ==
  /\ Evento
  /\ dicho' = [dicho EXCEPT ![t] = d]

RecibirEstado(t) ==
  /\ Vive /\ PatotaDe[t] \in iniciadas
  /\ \E e \in Estados, s \in find_tcb_segment(t) :
       /\ Reporte(t, [dicho[t] EXCEPT !.status = e])
       /\ memory' = [memory EXCEPT ![s.baseAddr + 2] = Celda("status", e)]
  /\ UNCHANGED <<isBestFit, segmentosLibres, segmentos, claves, mapa, pedidos, caida>> /\ Calla

RecibirUbicacion(t) ==
  /\ Vive /\ PatotaDe[t] \in iniciadas
  /\ \E pos \in Posiciones, s \in find_tcb_segment(t) :
       /\ Reporte(t, [dicho[t] EXCEPT !.pos = pos])
       /\ memory' = [memory EXCEPT ![s.baseAddr + 3] = Celda("x", pos.x),
                                   ![s.baseAddr + 4] = Celda("y", pos.y)]
       /\ mapa' = item_desplazar(mapa, t, pos)
  /\ UNCHANGED <<isBestFit, segmentosLibres, segmentos, claves, pedidos, caida>> /\ Calla

EnviarTareaSinTabla(t) ==
  /\ Vive /\ PatotaDe[t] \in pedidas \ claves /\ PatotaDe[t] # iniciando.p
  /\ Responde(t, <<>>)
  /\ UNCHANGED <<isBestFit, tablas, mapa, pedidos, dicho, eventos, caida>>

EnviarTarea(t) ==
  /\ Vive /\ PatotaDe[t] \in iniciadas
  /\ \E s \in find_tcb_segment(t), r \in find_task_segment(PatotaDe[t]) :
       /\ Accesible(s)
       /\ LET next == memory[s.baseAddr + 1].valor
          IN  IF r.baseAddr + next >= r.limit
                THEN Responde(t, <<>>) /\ UNCHANGED memory
                ELSE LET tarea == get_next_task(memory, next, r.limit, r.baseAddr)
                     IN  /\ Responde(t, tarea)
                         /\ memory' = save_tcb_in_memory(memory, s, t, next + Len(tarea) + 1)
  /\ UNCHANGED <<isBestFit, segmentosLibres, segmentos, claves, mapa, pedidos, dicho, eventos, caida>>

ExpulsarTripulante(t) ==
  /\ Vive /\ Evento /\ PatotaDe[t] \in claves
  /\ LET S == find_tcb_segment(t)
     IN  /\ segmentosLibres' = segmentosLibres \cup {Hueco(s.baseAddr, s.limit) : s \in S}
         /\ segmentos' = segmentos \ S
         /\ memory' = Liberar(memory, S)
  /\ mapa' = item_borrar(mapa, t)
  /\ dicho' = [dicho EXCEPT ![t] = SinDicho]
  /\ bajas' = bajas \cup {t}
  /\ UNCHANGED <<isBestFit, claves, iniciando, eliminando, pedidas, iniciadas, caida>> /\ Calla

-----------------------------------------------------------------------------
(* ELIMINAR_PATOTA gives back the segments of the table one by one; the     *)
(* table stays, empty.                                                      *)

EliminarPatota(p) ==
  /\ Vive /\ eliminando = Nadie /\ p \in iniciadas /\ TablaDe(p) # {}
  /\ eliminando' = p /\ bajas' = bajas \cup Miembros(p)
  /\ UNCHANGED <<isBestFit, tablas, mapa, iniciando, pedidas, iniciadas, dicho, eventos, caida>> /\ Calla

EliminarSegmento ==
  /\ Vive /\ eliminando # Nadie
  /\ IF TablaDe(eliminando) = {}
       THEN eliminando' = Nadie /\ UNCHANGED <<segmentosLibres, segmentos, memory, dicho>>
       ELSE /\ \E s \in get_next_segment(eliminando) :
                 /\ segmentosLibres' = Devolver(segmentosLibres, s)
                 /\ segmentos' = segmentos \ {s}
                 /\ memory' = Liberar(memory, {s})
                 /\ dicho' = [t \in Trips |-> IF s.type = "TCB" /\ s.id = t THEN SinDicho ELSE dicho[t]]
            /\ UNCHANGED eliminando
  /\ UNCHANGED <<isBestFit, claves, mapa, iniciando, pedidas, iniciadas, bajas, eventos, caida>> /\ Calla

Compactar ==      \* SIGUSR1
  /\ Vive /\ Evento /\ (SenialConReserva \/ iniciando.base = -1)
  /\ LET c == memory_compaction
     IN  segmentos' = c.segmentos /\ segmentosLibres' = c.libres /\ memory' = c.memory
  /\ UNCHANGED <<isBestFit, claves, mapa, pedidos, dicho, caida>> /\ Calla

Next ==
  \/ \E p \in Patotas : IniciarPatota(p) \/ EliminarPatota(p)
  \/ ReservarSegmento \/ GuardarSegmento \/ EliminarSegmento \/ Compactar
  \/ \E t \in Trips : \/ RecibirEstado(t) \/ RecibirUbicacion(t) \/ EnviarTarea(t)
                      \/ EnviarTareaSinTabla(t) \/ PedidoSinSegmento(t) \/ ExpulsarTripulante(t)
Spec == Init /\ [][Next]_vars

-----------------------------------------------------------------------------
(* Properties *)

Region == [baseAddr : 0..TamMemoria, limit : 0..TamMemoria]
(* The state keeps its shape: the segments lie within the memory.           *)
TypeOK ==
  /\ isBestFit \in BOOLEAN
  /\ \A h \in segmentosLibres : h \in Region /\ h.baseAddr <= h.limit
  /\ \A s \in segmentos : /\ s.p \in claves /\ s.baseAddr \in 0..s.limit /\ s.limit \in 0..TamMemoria
                          /\ s.type \in {"PCB", "TCB", "TASK"} /\ s.nroSegmento \in Nat
  /\ claves \subseteq pedidas /\ (Vive => iniciadas \subseteq claves) /\ pedidas \subseteq Patotas
  /\ DOMAIN memory = 0..(TamMemoria - 1)
  /\ DOMAIN mapa \subseteq Trips
  /\ eliminando \in Patotas \cup {Nadie}

Reservado ==
  IF iniciando.base = -1 THEN {} ELSE
  {Hueco(iniciando.base, iniciando.base + Partes[iniciando.p][iniciando.i].tam)}

(* Whatever is reserved, freed, compacted or expelled, and in whatever      *)
(* order, every cell of the memory is in exactly one segment, reservation   *)
(* or hole: no two patotas share a cell and none is lost.                   *)
Disjuntas(R) == \A s, r \in R : s = r \/ s.limit <= r.baseAddr \/ r.limit <= s.baseAddr
MemoriaRepartida ==
  /\ Disjuntas(segmentos) /\ Disjuntas(segmentosLibres \cup Reservado)
  /\ \A s \in segmentos, r \in segmentosLibres \cup Reservado :
       s.limit <= r.baseAddr \/ r.limit <= s.baseAddr
  /\ Suma(segmentos) + Suma(segmentosLibres) + Suma(Reservado) = TamMemoria

(* Every segment keeps, through the moves of the compaction and the writes  *)
(* of the others, what was saved in it: the text of the tasks, a next that  *)
(* starts a task or is past the last, and the last status and position the  *)
(* tripulante reported.                                                     *)
TextoEn(s) == \A d \in 0..(Tam(s) - 1) : memory[s.baseAddr + d] = Texto[s.p][d + 1]
TcbEn(s) ==
  LET c(d) == memory[s.baseAddr + d]
  IN  /\ c(0) = Celda("tid", s.id)
      /\ \E k \in 1..(Len(Tareas[s.p]) + 1) : c(1) = Celda("next", Inicio[s.p][k])
      /\ dicho[s.id].status # "nada" => c(2) = Celda("status", dicho[s.id].status)
      /\ dicho[s.id].pos # SinDicho.pos => /\ c(3) = Celda("x", dicho[s.id].pos.x)
                                           /\ c(4) = Celda("y", dicho[s.id].pos.y)
ContenidoIntacto ==
  \A s \in segmentos : /\ s.type = "TASK" => TextoEn(s)
                       /\ s.type = "TCB" => TcbEn(s)

(* A patota that passed the check of the free space finds a hole for each   *)
(* of its segments, after compacting perhaps.                               *)
SiempreHayLugar == caida # "sinLugar"

(* The scheme keeps the promise of ServicioRAM: the tasks of each tripulante *)
(* in order, counted by the next of its TCB in the memory; what a tripulante *)
(* already dropped is answered is not looked at.                             *)
Adentro == {t \in Trips : Vive /\ PatotaDe[t] \in iniciadas /\ t \notin bajas}
Entregadas(t) ==
  LET ks == {k \in 0..Len(Tareas[PatotaDe[t]]) : \E s \in find_tcb_segment(t) :
               memory[s.baseAddr + 1] = Celda("next", Inicio[s.p][k + 1])}
  IN  IF ks = {} THEN -1 ELSE Min(ks)
Servicio == INSTANCE ServicioRAM WITH
  Tareas <- [p \in Patotas |-> [k \in DOMAIN Tareas[p] |-> Letras(Tareas[p][k])]],
  sirve <- Vive, alta <- iniciadas,
  entregadas <- [t \in Trips |-> IF t \in Adentro THEN Entregadas(t) ELSE 0],
  respuesta <- IF respuesta.a \in bajas THEN SinRespuesta ELSE respuesta
Cumple == Servicio!Spec
=============================================================================
