----------------------------- MODULE Paginacion -----------------------------
(***************************************************************************)
(* MiRAMHQ under ESQUEMA_MEMORIA=PAGINACION: frames, swap, the pages of    *)
(* each patota (the text of its tasks, its PCB and its TCBs, in this       *)
(* order), and their replacement by LRU or CLOCK.                          *)
(*                                                                         *)
(* A request is served by a thread of its own, with no lock around it.  An *)
(* INICIAR_PATOTA takes a frame for one page after the other; a report and *)
(* a request for a task read the pages of the TCBs into a buffer of their  *)
(* own, change one field there, and write the buffer back.  Intercalado    *)
(* says whether others are served between those two moments, and between   *)
(* get_frame and the page that takes the frame.                            *)
(***************************************************************************)
EXTENDS Integers, Sequences, FiniteSets, FiniteSetsExt, SequencesExt, MapaNave, Celdas

CONSTANTS
  Inicial,       \* where each tripulante starts
  Posiciones,    \* positions a tripulante may report
  Estados,       \* statuses it may report
  TamPagina,     \* TAMANIO_PAGINA
  Marcos,        \* frames_memory
  MarcosVirtual, \* frames_virtual
  Algoritmos,    \* ALGORITMO_REEMPLAZO: {"LRU"}, {"CLOCK"} or both
  Balde,         \* where the hash of each patota's key puts it in the dictionary
  Intercalado,   \* a request may be served in the middle of another
  ExpulsaDosVeces, \* EXPULSAR_TRIPULANTE may come again for who was expelled
  Movedizos,     \* bound: the tripulantes that report or are expelled
  MaxEventos,    \* bound on the reports and expulsions together
  Nadie

TamPCB == 1      \* cells: pid and tasks
TamTCB == 4      \* cells: tid, status, position, next
ASSUME PaginasOK ==
  /\ Nadie \notin Patotas /\ TamPagina \in Nat \ {0} /\ Marcos \in Nat \ {0}
  /\ MarcosVirtual \in Nat /\ Balde \in [Patotas -> Nat]
  /\ Algoritmos \subseteq {"LRU", "CLOCK"} /\ Algoritmos # {}
  /\ Intercalado \in BOOLEAN /\ ExpulsaDosVeces \in BOOLEAN /\ MaxEventos \in Nat
  /\ Movedizos \subseteq Trips

VARIABLES
  hasLRU,        \* read from the configuration
  ram,           \* memory, swap, their bitmaps, the tables and what replacement looks at
  admin,         \* admin_collection: how many TCBs each patota has
  mapa,          \* nivel
  iniciando,     \* the INICIAR_PATOTA being served
  enCurso,       \* the buffer that each tripulante's request will write back
  pedidas, iniciadas, \* patotas ever asked for, and answered SUCCESS
  bajas,         \* tripulantes expelled, or of a patota eliminated (history)
  dicho,         \* what each tripulante last reported (history)
  eventos,       \* how many reports and expulsions there were (bound)
  respuesta, caida

pedidos == <<iniciando, pedidas, iniciadas, bajas>>
vars == <<hasLRU, ram, admin, mapa, pedidos, enCurso, dicho, eventos, respuesta, caida>>

-----------------------------------------------------------------------------
(* The image of a patota, cut in pages.  Offsets count cells from 0; page   *)
(* number n is element n + 1 of its table.                                  *)

TCB(t, estado, pos, next) ==
  <<Celda("tid", t), Celda("status", estado), Celda("pos", pos), Celda("next", next)>>
Imagen == [p \in Patotas |->
  Texto[p] \o <<Celda("pid", p)>>
    \o FlattenSeq([i \in DOMAIN Inscriptos[p] |->
         LET t == Inscriptos[p][i] IN TCB(t, "N", Inicial[t], 0)])]
start == [p \in Patotas |-> Len(Texto[p]) + TamPCB]
page_number == [p \in Patotas |-> start[p] \div TamPagina]
memory_size == [p \in Patotas |-> start[p] + Cardinality(Miembros(p)) * TamTCB]

PaginaVacia == [i \in 1..TamPagina |-> Basura]
CantidadPaginas(n) == (n + TamPagina - 1) \div TamPagina
Trozo(img, j) == [i \in 1..TamPagina |->
  IF (j - 1) * TamPagina + i \in DOMAIN img THEN img[(j - 1) * TamPagina + i] ELSE Basura]

-----------------------------------------------------------------------------
(* Frames.  uso holds the pages present, from the least to the most         *)
(* recently used; only LRU looks at it, and only CLOCK at modified.         *)

Pagina(n, presente) == [number |-> n, presence |-> presente, modified |-> 1]
EnTabla(r) == UNION {{<<p, j>> : j \in DOMAIN r.tablas[p]} : p \in Patotas}
Pag(r, x) == r.tablas[x[1]][x[2]]
Presentes(r) == {x \in EnTabla(r) : Pag(r, x).presence}
Usar(r, x) ==
  [r EXCEPT !.uso = IF hasLRU THEN Append(RemoveFirst(@, x), x) ELSE @,
            !.tablas[x[1]][x[2]].modified = 1]
Olvidar(r, x) == [r EXCEPT !.uso = RemoveFirst(@, x)]

(* The clock goes through the dictionary from the bucket where the last     *)
(* victim was, then from the first, and takes the first page it finds       *)
(* unmarked or finds twice; those before it lose their mark.                *)
Antes(x, y) == \/ Balde[x[1]] < Balde[y[1]]
               \/ Balde[x[1]] = Balde[y[1]] /\ x[1] < y[1]
               \/ x[1] = y[1] /\ x[2] < y[2]
Ordenadas(S) == [i \in 1..Cardinality(S) |->
  CHOOSE x \in S : Cardinality({y \in S : Antes(y, x)}) = i - 1]
Vueltas(r, S) ==
  Ordenadas({x \in S : Balde[x[1]] >= r.clock_key}) \o Ordenadas(S) \o Ordenadas(S)
Desmarcada(r, vs) == Min({i \in DOMAIN vs : \/ Pag(r, vs[i]).modified = 0
                                            \/ \E j \in 1..(i - 1) : vs[j] = vs[i]})
Marcar(r, x, m) == [r EXCEPT !.tablas[x[1]][x[2]].modified = m]
PararEn(r, vs, k) ==
  LET vistas == FoldLeft(LAMBDA q, x : Marcar(q, x, 0), r, SubSeq(vs, 1, k - 1))
  IN  [victima |-> vs[k], ram |-> Marcar([vistas EXCEPT !.clock_key = Balde[vs[k][1]]], vs[k], 1)]
get_next_clock_frame(r) ==
  LET vs == Vueltas(r, Presentes(r)) IN PararEn(r, vs, Desmarcada(r, vs))
get_next_lru_frame(r) == [victima |-> Head(r.uso), ram |-> r]

(* The victim goes to the first free slot of swap, and its frame is given.  *)
DesalojarSinCopiar(r, x) ==      \* mutation: the frame is given away before it is copied
  LET n == Pag(r, x).number
      s == Min((0..(MarcosVirtual - 1)) \ r.virtual_bitmap)
  IN  [r EXCEPT !.virtual_bitmap = @ \cup {s}, !.mem[n] = PaginaVacia, !.bitmap = @ \ {n},
                !.tablas[x[1]][x[2]] = Pagina(s, FALSE)]
Desalojar(r, x) ==
  LET n == Pag(r, x).number
      s == Min((0..(MarcosVirtual - 1)) \ r.virtual_bitmap)
  IN  [r EXCEPT !.virtual[s] = r.mem[n], !.virtual_bitmap = @ \cup {s},
                !.mem[n] = PaginaVacia, !.bitmap = @ \ {n},
                !.tablas[x[1]][x[2]] = Pagina(s, FALSE)]
Entregar(v) == [ram |-> Olvidar(Desalojar(v.ram, v.victima), v.victima),
                marco |-> Pag(v.ram, v.victima).number]
get_frameDeMas(r) ==      \* mutation: the loop over the bitmap goes one too far
  [ram |-> r, marco |-> Min((0..Marcos) \ r.bitmap)]
get_frame(r) ==
  LET libres == (0..(Marcos - 1)) \ r.bitmap
  IN  IF libres # {} THEN [ram |-> r, marco |-> Min(libres)] ELSE
      IF Presentes(r) = {} \/ r.virtual_bitmap = 0..(MarcosVirtual - 1)
        THEN [ram |-> r, marco |-> -1] ELSE
      Entregar(IF hasLRU THEN get_next_lru_frame(r) ELSE get_next_clock_frame(r))

(* Only the free bits are counted, those of swap as well.                   *)
check_free_framesDeMenos(n) ==      \* mutation: off by one
  (Marcos - Cardinality(ram.bitmap)) + (MarcosVirtual - Cardinality(ram.virtual_bitmap)) >= n - 1
check_free_frames(n) ==
  (Marcos - Cardinality(ram.bitmap)) + (MarcosVirtual - Cardinality(ram.virtual_bitmap)) >= n

Colocar(r, x, celdas, n) ==
  IF n = -1 THEN [r EXCEPT !.sinMarco = TRUE] ELSE
  Usar([r EXCEPT !.mem[n] = celdas, !.bitmap = @ \cup {n},
                 !.tablas[x[1]] = IF x[2] > Len(@) THEN Append(@, Pagina(n, TRUE))
                                                   ELSE [@ EXCEPT ![x[2]] = Pagina(n, TRUE)]], x)
Alojar(r, x, celdas) == LET g == get_frame(r) IN Colocar(g.ram, x, celdas, g.marco)
Contenido(r, x) == IF Pag(r, x).presence THEN r.mem[Pag(r, x).number] ELSE r.virtual[Pag(r, x).number]
LiberarSlot(r, x) == LET s == Pag(r, x).number IN
  [r EXCEPT !.virtual_bitmap = @ \ {s}, !.virtual[s] = PaginaVacia]
LiberarMarco(r, n) == [r EXCEPT !.bitmap = @ \ {n}, !.mem[n] = PaginaVacia]
TraerSinLiberar(r, x) ==      \* mutation: the slot stays taken
  IF Pag(r, x).presence THEN Usar(r, x) ELSE Alojar(r, x, Contenido(r, x))

Traer(r, x) ==      \* the slot is freed before the frame is looked for
  IF Pag(r, x).presence THEN Usar(r, x) ELSE Alojar(LiberarSlot(r, x), x, Contenido(r, x))
-----------------------------------------------------------------------------
(* The pages of the TCBs: from the one where the first of them starts.      *)

PaginasTCB(r, p) == [k \in 1..(Len(r.tablas[p]) - page_number[p]) |-> <<p, page_number[p] + k>>]
TraerTCBs(r, p) == FoldLeft(Traer, r, PaginasTCB(r, p))
Temp(r, p) == FlattenSeq([k \in DOMAIN PaginasTCB(r, p) |-> Contenido(r, PaginasTCB(r, p)[k])])
CampoEn(k, campo, p) == (start[p] % TamPagina) + k * TamTCB + campo
Tid == 1      \* the fields of a TCB
Status == 2
Posicion == 3
Siguiente == 4
BuscarPrimero(temp, p, t) == 0..Min({0, admin[p] - 1})      \* mutation: the tid is not compared
Buscar(temp, p, t) ==      \* which TCB of the patota is t's
  {k \in 0..(admin[p] - 1) : temp[CampoEn(k, Tid, p)] = Celda("tid", t)}

(* The buffer goes back to whatever frame or slot number the pages have now.*)
Volcar(r, p, temp) ==
  FoldLeft(LAMBDA a, x : IF Pag(a, x).number \in DOMAIN a.mem
                           THEN [a EXCEPT !.mem[Pag(a, x).number] = Trozo(temp, x[2] - page_number[p])]
                           ELSE a,
           r, PaginasTCB(r, p))

(* Get the pages, change one field of t's TCB in the buffer.                *)
Actualizado(temp, p, t, campo, celda) ==
  [temp EXCEPT ![CampoEn(Min(Buscar(temp, p, t)), campo, p)] = celda]

-----------------------------------------------------------------------------
(* get_task_from_page: the page where the next task starts, and the one     *)
(* after it when the end of the page comes before the bar or the PCB.       *)

Fines(p, prevTask, h, b) ==      \* the ends of the task in the cells h, read from offset b
  {n \in prevTask..(b + Len(h) - 1) : n >= start[p] - TamPCB \/ (n >= b /\ h[n - b + 1] = Barra)}
TareaLeida(r, p, prevTask, h, b) ==
  LET fin == Min(Fines(p, prevTask, h, b))
  IN  [ram |-> r, next |-> fin + 1,
       tarea |-> IF prevTask < start[p] - TamPCB THEN SubSeq(h, prevTask - b + 1, fin - b) ELSE <<>>]
LeerTarea(r, p, prevTask) ==
  LET i    == (prevTask \div TamPagina) + 1
      hoja == Contenido(r, <<p, i>>)
      r1   == Traer(r, <<p, i>>)
  IN  IF Fines(p, prevTask, hoja, (i - 1) * TamPagina) # {}
        THEN TareaLeida(r1, p, prevTask, hoja, (i - 1) * TamPagina)
        ELSE TareaLeida(Traer(r1, <<p, i + 1>>), p, prevTask,
                        hoja \o Contenido(r1, <<p, i + 1>>), (i - 1) * TamPagina)

-----------------------------------------------------------------------------
SinPaginas ==
  [mem |-> [n \in 0..(Marcos - 1) |-> PaginaVacia], bitmap |-> {},
   virtual |-> [n \in 0..(MarcosVirtual - 1) |-> PaginaVacia], virtual_bitmap |-> {},
   tablas |-> [p \in Patotas |-> <<>>], claves |-> {}, uso |-> <<>>, clock_key |-> 0, sinMarco |-> FALSE,
   perdidos |-> {}]      \* slots whose page was eliminated (history)
SinAdmin == -1
NoInicia == [p |-> Nadie, j |-> 0, marco |-> -1]
NoCurso  == [temp |-> <<>>, dicho |-> <<>>, pide |-> FALSE, tarea |-> <<>>]
SinRespuesta == [a |-> Nadie, tarea |-> <<>>]
SinDicho == [status |-> "nada", pos |-> [x |-> -1, y |-> -1]]

Init ==
  /\ hasLRU \in {a = "LRU" : a \in Algoritmos}
  /\ ram = SinPaginas /\ admin = [p \in Patotas |-> SinAdmin]
  /\ mapa = MapaVacio
  /\ iniciando = NoInicia /\ enCurso = [t \in Trips |-> NoCurso]
  /\ pedidas = {} /\ iniciadas = {} /\ bajas = {}
  /\ dicho = [t \in Trips |-> SinDicho]
  /\ eventos = 0
  /\ respuesta = SinRespuesta /\ caida = "no"

Vive  == caida = "no"
Sirve == Vive /\ (Intercalado \/ (iniciando.marco = -1 /\ \A t \in Trips : enCurso[t] = NoCurso))
Muere(causa) ==      \* the process dies, and its memory with it
  /\ caida' = causa
  /\ ram' = SinPaginas /\ admin' = [p \in Patotas |-> SinAdmin] /\ mapa' = MapaVacio
  /\ iniciando' = NoInicia /\ enCurso' = [t \in Trips |-> NoCurso]
  /\ dicho' = [t \in Trips |-> SinDicho] /\ respuesta' = SinRespuesta
  /\ UNCHANGED <<hasLRU, pedidas, iniciadas, bajas, eventos>>
Calla == respuesta' = SinRespuesta      \* the last answer was taken by whoever asked
Evento(t) == t \in Movedizos /\ eventos < MaxEventos /\ eventos' = eventos + 1

-----------------------------------------------------------------------------
(* INICIAR_PATOTA.  The frames are counted again before the first is taken: *)
(* no request takes more than it gives back, so that count says the same.   *)

EnMapa(m, p) == FoldLeft(LAMBDA a, t : personaje_crear(a, t, Inicial[t]), m, Inscriptos[p])
IniciarPatota(p) ==
  /\ Sirve /\ iniciando = NoInicia /\ p \notin pedidas
  /\ \A q \in Patotas : q < p => q \in pedidas
  /\ pedidas' = pedidas \cup {p}
  /\ IF check_free_frames(CantidadPaginas(memory_size[p]))
       THEN /\ iniciando' = [p |-> p, j |-> 1, marco |-> -1]
            /\ admin' = [admin EXCEPT ![p] = Cardinality(Miembros(p))]
            /\ mapa' = EnMapa(mapa, p)
       ELSE UNCHANGED <<iniciando, admin, mapa>>
  /\ UNCHANGED <<hasLRU, ram, enCurso, iniciadas, bajas, dicho, eventos, caida>> /\ Calla

TomarMarco ==
  /\ Sirve /\ iniciando # NoInicia /\ iniciando.marco = -1
  /\ LET g == get_frame(ram)
     IN  IF g.marco = -1
           THEN Muere("sinMarco")      \* the page would be at frame -1
           ELSE /\ ram' = g.ram
                /\ iniciando' = [iniciando EXCEPT !.marco = g.marco]
                /\ UNCHANGED <<hasLRU, admin, mapa, enCurso, pedidas, iniciadas, bajas, dicho, eventos, caida>>
                /\ Calla

GuardarPagina ==
  /\ Vive /\ iniciando.marco # -1
  /\ LET p == iniciando.p
         j == iniciando.j
         r == Colocar(ram, <<p, j>>, Trozo(Imagen[p], j), iniciando.marco)
     IN  /\ ram' = [r EXCEPT !.claves = @ \cup {p}]
         /\ IF j = CantidadPaginas(memory_size[p])
              THEN /\ iniciando' = NoInicia /\ iniciadas' = iniciadas \cup {p}
                   /\ dicho' = [t \in Trips |-> IF t \in Miembros(p)
                                  THEN [status |-> "N", pos |-> Inicial[t]] ELSE dicho[t]]
              ELSE /\ iniciando' = [p |-> p, j |-> j + 1, marco |-> -1]
                   /\ UNCHANGED <<iniciadas, dicho>>
  /\ UNCHANGED <<hasLRU, admin, mapa, enCurso, pedidas, bajas, eventos, caida>> /\ Calla

-----------------------------------------------------------------------------
(* Requests about one tripulante.                                           *)

ConPaginas(p) == p \in iniciadas /\ admin[p] # SinAdmin /\ ram.tablas[p] # <<>>
(* The tables of a patota eliminated, or emptied by a second expulsion, are *)
(* used unchecked; a task is read for whoever asks for it.                  *)
PedidoTardio(t) ==
  /\ Sirve /\ PatotaDe[t] \in iniciadas
  /\ ConPaginas(PatotaDe[t]) => Buscar(Temp(ram, PatotaDe[t]), PatotaDe[t], t) = {}
  /\ Muere("sinTCB")

Queda(r) ==      \* the pages as r has them, or no frame was found for one
  IF r.sinMarco THEN Muere("sinMarco")
                ELSE ram' = r /\ UNCHANGED <<hasLRU, admin, iniciando, pedidas, iniciadas, bajas, caida>>

Reporte(t, campo, celda, d) ==
  LET p    == PatotaDe[t]
      temp == Temp(ram, p)
  IN  /\ Sirve /\ ConPaginas(p) /\ enCurso[t] = NoCurso
      /\ Evento(t)
      /\ enCurso' = IF Buscar(temp, p, t) = {} THEN enCurso
                    ELSE [enCurso EXCEPT ![t] = [NoCurso EXCEPT
                            !.temp = Actualizado(temp, p, t, campo, celda), !.dicho = d]]
      /\ Queda(TraerTCBs(ram, p))
      /\ UNCHANGED dicho /\ Calla
RecibirEstado(t) ==
  \E e \in Estados :
    /\ Reporte(t, Status, Celda("status", e), [dicho[t] EXCEPT !.status = e])
    /\ UNCHANGED mapa
RecibirUbicacion(t) ==
  \E pos \in Posiciones :
    /\ Reporte(t, Posicion, Celda("pos", pos), [dicho[t] EXCEPT !.pos = pos])
    /\ mapa' = item_desplazar(mapa, t, pos)

EnviarTareaSinTabla(t) ==
  /\ Sirve /\ PatotaDe[t] \in pedidas \ ram.claves /\ PatotaDe[t] # iniciando.p
  /\ respuesta' = [a |-> t, tarea |-> <<>>]
  /\ UNCHANGED <<hasLRU, ram, admin, mapa, pedidos, enCurso, dicho, eventos, caida>>

(* next moves on even when there are no more tasks, so nobody asks again.   *)
EnviarTarea(t) ==
  LET p    == PatotaDe[t]
      temp == Temp(ram, p)
      prev == temp[CampoEn(Min(Buscar(temp, p, t)), Siguiente, p)].valor
  IN  /\ Sirve /\ ConPaginas(p) /\ enCurso[t] = NoCurso
      /\ Buscar(temp, p, t) # {} /\ prev \in 0..(Len(Texto[p]) + 1)
      /\ \E leida \in {LeerTarea(TraerTCBs(ram, p), p, prev)} :
           /\ enCurso' = [enCurso EXCEPT ![t] =
                [temp |-> Actualizado(Temp(leida.ram, p), p, t, Siguiente, Celda("next", leida.next)),
                 dicho |-> dicho[t], pide |-> TRUE, tarea |-> leida.tarea]]
           /\ Queda(TraerTCBs(leida.ram, p))
      /\ UNCHANGED <<mapa, dicho, eventos>> /\ Calla

EscribirTCBs(t) ==      \* the pages are written back, and the request answered
  /\ Vive /\ enCurso[t] # NoCurso
  /\ ram' = Volcar(ram, PatotaDe[t], enCurso[t].temp)
  /\ dicho' = [dicho EXCEPT ![t] = enCurso[t].dicho]
  /\ respuesta' = IF enCurso[t].pide THEN [a |-> t, tarea |-> enCurso[t].tarea] ELSE SinRespuesta
  /\ enCurso' = [enCurso EXCEPT ![t] = NoCurso]
  /\ UNCHANGED <<hasLRU, admin, mapa, pedidos, eventos, caida>>

-----------------------------------------------------------------------------
(* EXPULSAR_TRIPULANTE: every page is given back, the TCBs after t's move   *)
(* one place, and what is left takes pages again.  When t is not there the  *)
(* pages are not taken again.                                               *)

Soltar(r, x) == LET n == Pag(r, x).number IN
  Olvidar(IF Pag(r, x).presence THEN LiberarMarco(r, n) ELSE LiberarSlot(r, x), x)
remove_tcb_from_page(r, p, t) ==
  LET xs   == [j \in DOMAIN r.tablas[p] |-> <<p, j>>]
      temp == FlattenSeq([j \in DOMAIN xs |-> Contenido(r, xs[j])])
      solto == [FoldLeft(Soltar, r, xs) EXCEPT !.tablas[p] = <<>>]
      ks   == {k \in 0..(admin[p] - 1) : temp[start[p] + k * TamTCB + Tid] = Celda("tid", t)}
      a    == start[p] + Min(ks) * TamTCB
      fin  == start[p] + admin[p] * TamTCB
      img  == SubSeq(temp, 1, a) \o SubSeq(temp, a + TamTCB + 1, fin)
  IN  IF ks = {} THEN [ram |-> solto, cantidad |-> admin[p]] ELSE
      [ram |-> FoldLeft(LAMBDA b, j : Alojar(b, <<p, j>>, Trozo(img, j)), solto,
                        [j \in 1..CantidadPaginas(Len(img)) |-> j]),
       cantidad |-> admin[p] - 1]

ExpulsarTripulante(t) ==
  LET p == PatotaDe[t]
      e == remove_tcb_from_page(ram, p, t)
  IN  /\ Sirve /\ ConPaginas(p) /\ (ExpulsaDosVeces \/ t \notin bajas) /\ enCurso[t] = NoCurso
      /\ Evento(t)
      /\ IF e.ram.sinMarco THEN Muere("sinMarco") ELSE
         /\ ram' = e.ram /\ admin' = [admin EXCEPT ![p] = e.cantidad]
         /\ mapa' = item_borrar(mapa, t)
         /\ dicho' = [dicho EXCEPT ![t] = SinDicho]
         /\ bajas' = bajas \cup {t}
         /\ UNCHANGED <<hasLRU, iniciando, enCurso, pedidas, iniciadas, caida>> /\ Calla

(* ELIMINAR_PATOTA: a page in swap is given a frame to be freed there, and  *)
(* its slot stays taken.  With no frame for it nothing else happens.        *)
Descartar(r, x) ==
  IF Pag(r, x).presence THEN Soltar(r, x) ELSE
  LET s == Pag(r, x).number
      g == get_frame([r EXCEPT !.perdidos = @ \cup {s}, !.virtual[s] = PaginaVacia])
  IN  IF g.marco = -1 THEN g.ram ELSE LiberarMarco(g.ram, g.marco)
remove_pcb_from_page(r, p) ==
  LET d == FoldLeft(Descartar, r, [j \in DOMAIN r.tablas[p] |-> <<p, j>>])
  IN  [d EXCEPT !.tablas[p] = <<>>]

EliminarPatota(p) ==
  /\ Sirve /\ ConPaginas(p) /\ \A t \in Miembros(p) : enCurso[t] = NoCurso
  /\ ram' = remove_pcb_from_page(ram, p)
  /\ admin' = [admin EXCEPT ![p] = SinAdmin]
  /\ bajas' = bajas \cup Miembros(p)
  /\ dicho' = [t \in Trips |-> IF t \in Miembros(p) THEN SinDicho ELSE dicho[t]]
  /\ UNCHANGED <<hasLRU, mapa, iniciando, enCurso, pedidas, iniciadas, eventos, caida>> /\ Calla

Next ==
  \/ \E p \in Patotas : IniciarPatota(p) \/ EliminarPatota(p)
  \/ TomarMarco \/ GuardarPagina
  \/ \E t \in Trips : \/ RecibirEstado(t) \/ RecibirUbicacion(t)
                      \/ EnviarTarea(t) \/ EnviarTareaSinTabla(t) \/ EscribirTCBs(t)
                      \/ PedidoTardio(t) \/ ExpulsarTripulante(t)
Spec == Init /\ [][Next]_vars

-----------------------------------------------------------------------------
(* Properties *)

Ausentes == EnTabla(ram) \ Presentes(ram)
Numeros(X) == {Pag(ram, x).number : x \in X}
(* The state keeps its shape: frames and slots in range, recency without    *)
(* repetitions.                                                             *)
TypeOK ==
  /\ ram.bitmap \subseteq 0..(Marcos - 1) /\ ram.virtual_bitmap \subseteq 0..(MarcosVirtual - 1)
  /\ DOMAIN ram.mem = 0..(Marcos - 1) /\ DOMAIN ram.virtual = 0..(MarcosVirtual - 1)
  /\ ToSet(ram.uso) = (IF hasLRU THEN Presentes(ram) ELSE {}) /\ IsInjective(ram.uso)
  /\ \A p \in Patotas : admin[p] \in -1..Cardinality(Miembros(p))
  /\ iniciadas \subseteq pedidas /\ ram.claves \subseteq pedidas
  /\ iniciando.marco \in -1..(Marcos - 1)
  /\ DOMAIN mapa \subseteq Trips

(* Whatever was brought, evicted, freed or taken again, the bit of a frame  *)
(* is set exactly when a page is in it, that of a slot exactly when a page  *)
(* is there or one was when its patota was eliminated, and no two pages     *)
(* share a place.                                                           *)
CadaPaginaSuLugar ==
  /\ ram.bitmap = Numeros(Presentes(ram))
  /\ ram.virtual_bitmap = Numeros(Ausentes) \cup ram.perdidos
  /\ Numeros(Ausentes) \cap ram.perdidos = {}
  /\ Cardinality(Numeros(Presentes(ram))) = Cardinality(Presentes(ram))
  /\ Cardinality(Numeros(Ausentes)) = Cardinality(Ausentes)

(* Through evictions, returns, expulsions of others and the writes of the   *)
(* whole buffer, the image of a patota keeps the text of its tasks and, for *)
(* each tripulante, the last status and position reported and a next that   *)
(* starts a task, or is past the last.                                      *)
CeldaDe(p, n) == Contenido(ram, <<p, (n \div TamPagina) + 1>>)[(n % TamPagina) + 1]
TcbDe(p, t) ==
  LET ks == {k \in 0..(admin[p] - 1) : CeldaDe(p, start[p] + k * TamTCB) = Celda("tid", t)}
      a  == start[p] + Min(ks) * TamTCB
  IN  IF ks = {} \/ ram.tablas[p] = <<>> THEN <<>>
      ELSE [i \in 1..TamTCB |-> CeldaDe(p, a + i - 1)]
ImagenIntacta ==
  \A p \in {q \in iniciadas : Vive /\ admin[q] # SinAdmin} :
    /\ ram.tablas[p] # <<>>
    /\ \A n \in 1..Len(Texto[p]) : CeldaDe(p, n - 1) = Texto[p][n]
    /\ \A t \in Miembros(p) \ bajas : \E k \in 1..(Len(Tareas[p]) + 1), mas \in {0, 1} :
         TcbDe(p, t) = TCB(t, dicho[t].status, dicho[t].pos, Inicio[p][k] + mas)

(* A frame is found whenever a page needs one, once the patota was admitted.*)
SiempreHayMarco == caida # "sinMarco"

(* The scheme keeps the promise of ServicioRAM.                             *)
Adentro == {t \in Trips : Vive /\ PatotaDe[t] \in iniciadas /\ t \notin bajas}
Entregadas(t) ==      \* the tasks that start before its next
  LET p == PatotaDe[t]
  IN  Cardinality({k \in DOMAIN Tareas[p] : \E c \in 0..(admin[p] - 1) :
        /\ CeldaDe(p, start[p] + c * TamTCB) = Celda("tid", t)
        /\ CeldaDe(p, start[p] + c * TamTCB + Siguiente - 1).valor > Inicio[p][k]})
Servicio == INSTANCE ServicioRAM WITH
  Tareas <- [p \in Patotas |-> [k \in DOMAIN Tareas[p] |-> Letras(Tareas[p][k])]],
  sirve <- Vive, alta <- iniciadas,
  entregadas <- [t \in Trips |-> IF t \in Adentro THEN Entregadas(t) ELSE 0],
  respuesta <- IF respuesta.a \in bajas THEN SinRespuesta ELSE respuesta
Cumple == Servicio!Spec
=============================================================================
