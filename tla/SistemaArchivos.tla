--------------------------- MODULE SistemaArchivos ---------------------------
(***************************************************************************)
(* i-Mongo-Store: the resource files and the bitácoras, kept in blocks of  *)
(* one device, the thread that copies the blocks to the disk, the orderly  *)
(* end, and fsck.                                                          *)
(*                                                                         *)
(* Every request, every copy to the disk and fsck run under the mutex      *)
(* blocks_bitmap, so they exclude one another; what is left between them   *)
(* is death.  Metadata and bitmap are saved as they change; blocks change  *)
(* in memory (copiaBlocks) and reach Blocks.ims with the next copy.  An    *)
(* operation is therefore the sequence of the file systems it goes         *)
(* through, each a point where the process may die.                        *)
(***************************************************************************)
EXTENDS Integers, Sequences, FiniteSets, FiniteSetsExt, SequencesExt, TLC

CONSTANTS
  Recursos,         \* of "Oxigeno", "Comida", "Basura"
  Trips,
  Obreros,          \* bound: those whose tasks use resources
  tamanioBloque,
  cantidadBloques,
  Cantidades,       \* parameters of the tasks
  LargoNota,        \* length of what an event writes in a bitácora
  SIZEs,            \* what somebody may write over a SIZE
  Sabotajes,        \* what somebody may do to the files
  Posiciones,       \* how many POSICIONES_SABOTAJE there are
  Ajeno,            \* the character past the end of copiaBlocks
  BitAjeno,         \* the bit past the end of the bitmap
  Residuos,         \* what malloc may leave in the bitmap that fsck builds
  MaxEventos, MaxCaidas, MaxSabotajes    \* bounds: requests, deaths and damages together

Bloques == 0..(cantidadBloques - 1)
ASSUME SistemaOK ==
  /\ Recursos \subseteq {"Oxigeno", "Comida", "Basura"} /\ Trips \subseteq Nat
  /\ Obreros \subseteq Trips /\ tamanioBloque \in Nat \ {0} /\ cantidadBloques \in Nat /\ cantidadBloques % 8 = 0
  /\ Cantidades \subseteq Nat \ {0} /\ LargoNota \in Nat \ {0, 1} /\ SIZEs \subseteq Nat
  /\ Posiciones \in Nat /\ Residuos \subseteq SUBSET Bloques /\ BitAjeno \in BOOLEAN

VARIABLES
  fs,          \* the file system, on the disk and in memory
  contadorSabotajeLeido,
  flagEnd,     \* FALSE once SIGINT came
  sync_blocks, \* the thread that copies: "sleep", "mira" (before it reads flagEnd), "fin"
  danio,       \* what was done to the files, and whether SIGUSR1 told of it
  hist,        \* what was asked for (history)
  pedidos, caidas, sabotajes     \* how many there were (bounds)

proceso == <<contadorSabotajeLeido, flagEnd, sync_blocks>>
cuentas == <<pedidos, caidas, sabotajes>>
Cabe == pedidos + caidas + sabotajes < MaxEventos
vars == <<fs, proceso, danio, hist, cuentas>>

-----------------------------------------------------------------------------
NUL == "nul"
Letra == [Oxigeno |-> "O", Comida |-> "C", Basura |-> "B"]
File(r) == <<"Files", r>>
Bitacora(t) == <<"Bitacoras", t>>
Archivos == {File(r) : r \in Recursos} \cup {Bitacora(t) : t \in Trips}
EsRecurso(a) == a[1] = "Files"

Repetida(c, n) == [i \in 1..n |-> c]
ConBarra(s) == Append(s, "|")
Nota(t) == ConBarra(Repetida(ToString(t), LargoNota - 1))
Hasta(s, c) == IF \E i \in DOMAIN s : s[i] = c    \* s up to its first c
                 THEN SubSeq(s, 1, Min({i \in DOMAIN s : s[i] = c}) - 1) ELSE s

Dir(b) == b * tamanioBloque
Leer(m, dir, n) == [i \in 1..n |-> IF dir + i - 1 \in DOMAIN m THEN m[dir + i - 1] ELSE Ajeno]
Pegar(m, dir, s) == [d \in DOMAIN m |-> IF d - dir + 1 \in DOMAIN s THEN s[d - dir + 1] ELSE m[d]]
Levantar(m, blocks) ==      \* the blocks one after the other
  [k \in 1..(Len(blocks) * tamanioBloque) |->
     Leer(m, Dir(blocks[(k - 1) \div tamanioBloque + 1]), tamanioBloque)[((k - 1) % tamanioBloque) + 1]]
Visible(m, blocks) == Hasta(Hasta(Levantar(m, blocks), NUL), "|")

-----------------------------------------------------------------------------
(* Metadata.  A file is made with SIZE 0, no blocks and, a resource, MD5 0; *)
(* MD5 is represented by the string that is hashed.                         *)

NoExiste == [existe |-> FALSE, size |-> 0, count |-> 0, blocks |-> <<>>, md5 |-> <<>>]
crearMetadata(f, a) ==
  [f EXCEPT !.archivo[a] = [NoExiste EXCEPT !.existe = TRUE, !.md5 = <<"0">>]]
actualizarSize(f, a, n) == [f EXCEPT !.archivo[a].size = @ + n]
actualizarBlockCount(f, a, n) == [f EXCEPT !.archivo[a].count = @ + n]
AgregarBloque(f, a, b) == [f EXCEPT !.archivo[a].blocks = Append(@, b)]
QuitarBloquePrimero(f, a) ==      \* mutation: the first of the list, not the last
  [f EXCEPT !.archivo[a].blocks = Tail(@)]
QuitarBloque(f, a) ==
  [f EXCEPT !.archivo[a].blocks = IF f.archivo[a].count = 0 THEN <<>> ELSE Front(@)]
(* Of the last block SIZE + 1 characters are taken, or those before a NUL,  *)
(* whatever block they are in.                                              *)
setearMD5(f, a) ==
  LET m  == f.archivo[a]
      bs == m.blocks
      s  == FlattenSeq([i \in DOMAIN bs |->
              Hasta(Leer(f.copia, Dir(bs[i]), IF i = Len(bs) THEN m.size + 1 ELSE tamanioBloque), NUL)])
  IN  [f EXCEPT !.archivo[a].md5 = s]

Morir(f) == [f EXCEPT !.vivo = FALSE, !.copia = f.disco]
Luego(traza, Op(_)) ==      \* the next operation, if the process is still there
  IF Last(traza).vivo THEN traza \o Op(Last(traza)) ELSE traza

-----------------------------------------------------------------------------
(* Storing and erasing.                                                     *)

cantidad_bloquesDeMas(s) == Len(s) \div tamanioBloque + 1      \* mutation: one more when it is exact
cantidad_bloques(s) == (Len(s) + tamanioBloque - 1) \div tamanioBloque
validarBitsLibre(f, n) == n \in 1..Cardinality(Bloques \ f.bitmap)

(* The first free blocks, one after the other: the bit, the block and SIZE, *)
(* BLOCKS, a resource's BLOCK_COUNT.  SIZE does not count the last          *)
(* character.                                                               *)
ContadoSiempre(f, a) ==      \* mutation: a bitácora's too
  <<actualizarBlockCount(f, a, 1)>>
Contado(f, a) == IF EsRecurso(a) THEN <<actualizarBlockCount(f, a, 1)>> ELSE <<>>
OtroBloque(traza, a, s, i) ==
  LET f == Last(traza)
      b == Min(Bloques \ f.bitmap)
      t == SubSeq(s, (i - 1) * tamanioBloque + 1, Min({i * tamanioBloque, Len(s)}))
      marcado == [f EXCEPT !.bitmap = @ \cup {b}]
      escrito == actualizarSize([marcado EXCEPT !.copia = Pegar(@, Dir(b), t)], a,
                                IF i = cantidad_bloques(s) THEN Len(t) - 1 ELSE Len(t))
      listado == AgregarBloque(escrito, a, b)
  IN  traza \o <<marcado, escrito, listado>> \o Contado(listado, a)
guardarPorBloque(f, a, s) ==
  FoldLeft(LAMBDA traza, i : OtroBloque(traza, a, s, i), <<f>>, [i \in 1..cantidad_bloques(s) |-> i])

(* A resource's bar is not counted in SIZE and is written over; a           *)
(* bitácora's SIZE is its length less one.  A device with no room ends the  *)
(* process; a file whose SIZE is not in its blocks takes it down.           *)
guardarEnBlocks(f, a, s) ==
  LET m == f.archivo[a]
      c == Len(m.blocks)
      faltante == c * tamanioBloque - (IF EsRecurso(a) THEN m.size ELSE m.size + 1)
      posicion == tamanioBloque - (IF EsRecurso(a) THEN faltante % tamanioBloque ELSE faltante)
      EnElUltimo(t, n) ==
        actualizarSize([f EXCEPT !.copia = Pegar(@, Dir(Last(m.blocks)) + posicion, t),
                                 !.desborde = @ \/ posicion + Len(t) > tamanioBloque], a, n)
      EnOtros(g, t) == IF validarBitsLibre(f, cantidad_bloques(t))
                         THEN guardarPorBloque(g, a, t) ELSE <<Morir(f)>>
      ConMD5(traza) == IF EsRecurso(a) THEN Luego(traza, LAMBDA g : <<setearMD5(g, a)>>) ELSE traza
  IN  IF m.size = 0 THEN ConMD5(EnOtros(f, s)) ELSE
      IF c = 0 \/ faltante < 0 THEN <<Morir(f)>> ELSE
      IF faltante >= Len(s)
        THEN ConMD5(<<EnElUltimo(s, IF EsRecurso(a) THEN Len(s) - 1 ELSE Len(s))>>)
        ELSE LET cabe == SubSeq(s, 1, faltante)
                 n    == IF EsRecurso(a) THEN faltante ELSE faltante + 1
             IN  ConMD5(EnOtros(EnElUltimo(cabe, n), SubSeq(s, faltante + 1, Len(s))))

(* Erasing goes from the last block back; at the second block the list is   *)
(* freed twice, one of the points where the process may die.                *)
BorrarTodo(f, a) ==
  LET sinBits == [f EXCEPT !.bitmap = @ \ ToSet(f.archivo[a].blocks)]
      sinSize == [sinBits EXCEPT !.archivo[a].size = 0]
      vacio   == [sinSize EXCEPT !.archivo[a].count = 0, !.archivo[a].blocks = <<>>]
  IN  <<sinBits, sinSize, vacio, setearMD5(vacio, a)>>
Vuelta(acc, a) ==
  LET f   == Last(acc.traza)
      m   == f.archivo[a]
      bl  == Last(m.blocks)
      posicion == m.size - (Len(m.blocks) - 1) * tamanioBloque
      sinBit   == [f EXCEPT !.bitmap = @ \ {bl}]
      sinSize  == actualizarSize(sinBit, a, -posicion)
      sinCount == actualizarBlockCount(sinSize, a, -1)
      barra    == actualizarSize([f EXCEPT !.copia = Pegar(@, Dir(bl) + posicion - acc.resta, <<"|">>)],
                                 a, -acc.resta)
  IN  IF acc.resta = 0 \/ ~f.vivo THEN acc ELSE
      IF m.blocks = <<>> THEN [acc EXCEPT !.traza = Append(@, Morir(f))] ELSE
      IF acc.resta > posicion
        THEN [traza |-> acc.traza \o <<sinBit, sinSize, sinCount, QuitarBloque(sinCount, a)>>,
              resta |-> acc.resta - posicion]
        ELSE [traza |-> Append(acc.traza, barra), resta |-> 0]
borrarEnBlocks(f, a, n) ==
  IF f.archivo[a].size <= n THEN BorrarTodo(f, a)
  ELSE Luego(FoldLeft(LAMBDA acc, i : Vuelta(acc, a), [traza |-> <<f>>, resta |-> n],
                      [i \in 1..(n + 1) |-> i]).traza,
             LAMBDA g : <<setearMD5(g, a)>>)

-----------------------------------------------------------------------------
(* The tasks.                                                               *)

ConArchivo(f, a) == IF f.archivo[a].existe THEN <<f>> ELSE <<crearMetadata(f, a)>>
escribirEnBitacora(f, t) ==
  Luego(ConArchivo(f, Bitacora(t)), LAMBDA g : guardarEnBlocks(g, Bitacora(t), Nota(t)))
generar(f, r, n) ==
  Luego(ConArchivo(f, File(r)),
        LAMBDA g : guardarEnBlocks(g, File(r), ConBarra(Repetida(Letra[r], n))))
consumir(f, r, n) ==
  IF f.archivo[File(r)].existe THEN borrarEnBlocks(f, File(r), n) ELSE <<f>>
descartarBasura(f) ==
  LET a == File("Basura")
  IN  IF ~f.archivo[a].existe THEN <<f>> ELSE
      Luego(borrarEnBlocks(f, a, f.archivo[a].size),
            LAMBDA g : <<[g EXCEPT !.archivo[a] = NoExiste]>>)

obtenerBitacora(f, t) ==
  LET m  == f.archivo[Bitacora(t)]
      bs == m.blocks
      antes == FlattenSeq([i \in 1..(Len(bs) - 1) |->
                 Hasta(Leer(f.copia, Dir(bs[i]), tamanioBloque), NUL)])
  IN  IF bs = <<>> THEN <<>>
      ELSE antes \o Hasta(Leer(f.copia, Dir(Last(bs)), m.size + 1 - Len(antes)), NUL)

-----------------------------------------------------------------------------
(* fsck.  It reads the blocks from the disk.                                *)

BitEncendido(f, b) == IF b \in Bloques THEN b \in f.bitmap ELSE BitAjeno
validacionSinBit(f, r) ==      \* mutation: the bit is not looked at
  [f EXCEPT !.archivo[File(r)].blocks = SelectSeq(@, LAMBDA b : b <= cantidadBloques)]
Validos(f, blocks) ==
  FoldLeft(LAMBDA s, b : IF b > cantidadBloques \/ ~BitEncendido(f, b) THEN s ELSE Append(s, b), <<>>, blocks)
validacionEsValidaLista(f, r) == [f EXCEPT !.archivo[File(r)].blocks = Validos(f, @)]
validarCantidadBloques(f) == [f EXCEPT !.cantidad = cantidadBloques]

(* The bitácoras are looked for from Tripulante0 on, up to the first that   *)
(* does not exist.                                                          *)
Revisadas(f) == {t \in Trips : \A u \in 0..t : u \in Trips /\ f.archivo[Bitacora(u)].existe}
Listados(f, A) == UNION {ToSet(f.archivo[a].blocks) : a \in A}
validarBitmapSabotaje(f, residuo) ==
  [f EXCEPT !.bitmap = Bloques \cap
     (residuo \cup Listados(f, {Bitacora(t) : t \in Revisadas(f)} \cup {File(r) : r \in Recursos}))]

(* If the MD5 is not that of what is read, SIZE characters and a bar are    *)
(* written over the blocks of the list, and the whole disk is taken as the  *)
(* copy in memory.                                                          *)
BlocksBien(f, r) ==
  LET m == f.archivo[File(r)] IN m.md5 = ConBarra(Visible(f.disco, m.blocks))
RellenoCorrido(f, r) ==      \* mutation: in the block after each of the list
  LET m == f.archivo[File(r)]
  IN  FoldLeft(LAMBDA d, b : Pegar(d, Dir(b + 1), Repetida(Letra[r], tamanioBloque)), f.disco, m.blocks)
Relleno(f, r) ==
  LET m == f.archivo[File(r)]
      Trozo(i) == LET falta == m.size - (i - 1) * tamanioBloque
                  IN  IF falta >= tamanioBloque THEN Repetida(Letra[r], tamanioBloque) ELSE
                      IF falta >= 0 THEN ConBarra(Repetida(Letra[r], falta)) ELSE <<Ajeno>>
  IN  FoldLeft(LAMBDA d, i : Pegar(d, Dir(m.blocks[i]), Trozo(i)),
               f.disco, [i \in DOMAIN m.blocks |-> i])
validarBlocksRecursos(f, r) ==
  IF ~f.archivo[File(r)].existe \/ BlocksBien(f, r) THEN f
  ELSE [f EXCEPT !.disco = Relleno(f, r), !.copia = Relleno(f, r)]
validarSizeRecurso(f, r) ==
  [f EXCEPT !.archivo[File(r)].size = Len(Visible(f.disco, f.archivo[File(r)].blocks))]
validarBlockCountRecurso(f, r) ==
  [f EXCEPT !.archivo[File(r)].count = Len(f.archivo[File(r)].blocks)]

Cada(traza, Op(_, _)) ==
  LET Uno(tr, r) == IF r \in Recursos THEN Append(tr, Op(Last(tr), r)) ELSE tr
  IN  Uno(Uno(Uno(traza, "Oxigeno"), "Comida"), "Basura")
ListasYBits(f, residuo) ==
  LET listas   == Cada(<<f>>, validacionEsValidaLista)
      cantidad == Append(listas, validarCantidadBloques(Last(listas)))
  IN  Append(cantidad, validarBitmapSabotaje(Last(cantidad), residuo))
protocoloCuentaAntes(f, residuo) ==      \* mutation: BLOCK_COUNT before the list of blocks
  LET conCuenta == Cada(<<f>>, validarBlockCountRecurso)
  IN  Cada(Cada(ListasYBits(Last(conCuenta), residuo), validarBlocksRecursos), validarSizeRecurso)
protocolo_fsck(f, residuo) ==
  Cada(Cada(Cada(ListasYBits(f, residuo), validarBlocksRecursos), validarSizeRecurso), validarBlockCountRecurso)

-----------------------------------------------------------------------------
(* What was asked for: the quantity of each resource and the text of each   *)
(* bitácora; the bitácoras written since the last copy (sinCopiar) and      *)
(* those that may have lost something (perdidas); and what went wrong: the  *)
(* process died in the middle of a change ("corte") or with blocks not      *)
(* copied ("viejo"), and no fsck since; a fsck left out a bitácora          *)
(* ("salteo"); a request was served with the bit of a listed block clear    *)
(* ("doble"), after which that block may be given again and no fsck tells;  *)
(* or a SIZE is lost ("size"), one fsck could not bring back or one changed *)
(* over blocks that were not those saved.                                   *)

Anotada(t) == [hist EXCEPT !.notas[t] = @ \o Nota(t), !.sinCopiar = @ \cup {t}]
AlMorir(h, f, corte) ==
  [h EXCEPT !.perdidas = @ \cup h.sinCopiar, !.sinCopiar = {},
            !.fallas = @ \cup (IF corte THEN {"corte"} ELSE {})
                         \cup (IF f.copia # f.disco THEN {"viejo"} ELSE {})]
SinBit(f) == (Bloques \cap Listados(f, Archivos)) \ f.bitmap
Falla(F) == hist.fallas \cap F # {}
SIZEPerdido(fin) == \E r \in Recursos :
  LET n == fs.archivo[File(r)].size
  IN  \/ Falla({"corte"}) /\ fin.archivo[File(r)].size # n
      \/ danio.tipo = "SIZE" /\ n # danio.antes.archivo[File(r)].size /\ ~BlocksBien(fs, r)
SinDanio == [tipo |-> "no", avisado |-> FALSE, antes |-> <<>>]

(* A request is served to its end, which may be that of the process, or the *)
(* process dies at one of its points.                                       *)
Servir(traza, h, d) ==
  /\ fs.vivo
  /\ \/ /\ fs' = Last(traza)
        /\ \/ fs'.vivo /\ hist' = h
           \/ ~fs'.vivo /\ hist' = AlMorir([h EXCEPT !.cantidad = hist.cantidad],
                                          IF Len(traza) > 1 THEN Last(Front(traza)) ELSE fs, FALSE)
        /\ danio' = d /\ UNCHANGED caidas
     \/ /\ Cabe /\ caidas < MaxCaidas /\ caidas' = caidas + 1
        /\ \E k \in 2..(Len(traza) - 1) :
             /\ traza[k].vivo
             /\ fs' = Morir(traza[k])
             /\ hist' = IF d = danio THEN AlMorir(h, traza[k], TRUE)
                        ELSE AlMorir([hist EXCEPT !.fallas = @ \cup (h.fallas \ {"size"})
                                        \cup (IF SIZEPerdido(traza[k]) THEN {"size"} ELSE {})], traza[k], FALSE)
        /\ danio' = IF d = danio THEN d ELSE [danio EXCEPT !.avisado = FALSE]
  /\ UNCHANGED proceso

Atender(t, r, n, Op(_)) ==      \* the request of a tripulante
  /\ Cabe /\ pedidos' = pedidos + 1 /\ UNCHANGED sabotajes
  /\ Servir(Luego(escribirEnBitacora(fs, t), Op),
            [Anotada(t) EXCEPT
               !.cantidad = IF r = "" THEN @ ELSE [@ EXCEPT ![r] = n],
               !.fallas = @ \cup (IF r # "" /\ Falla({"viejo"}) THEN {"size"} ELSE {})
                            \cup (IF SinBit(fs) # {} THEN {"doble"} ELSE {})], danio)

-----------------------------------------------------------------------------
Init ==
  /\ fs = [bitmap |-> {}, cantidad |-> cantidadBloques, archivo |-> [a \in Archivos |-> NoExiste],
           disco |-> [d \in 0..(Dir(cantidadBloques) - 1) |-> NUL],
           copia |-> [d \in 0..(Dir(cantidadBloques) - 1) |-> NUL],
           vivo |-> TRUE, desborde |-> FALSE]
  /\ contadorSabotajeLeido = 0 /\ flagEnd = TRUE /\ sync_blocks = "sleep"
  /\ danio = SinDanio
  /\ hist = [cantidad |-> [r \in Recursos |-> 0], notas |-> [t \in Trips |-> <<>>],
             sinCopiar |-> {}, perdidas |-> {}, fallas |-> {}]
  /\ pedidos = 0 /\ caidas = 0 /\ sabotajes = 0

(* COMIENZA_EJECUCION_TAREA.  Discordiador starts none during a sabotage.   *)
GenerarRecurso(t, r, n) ==
  /\ danio.tipo = "no"
  /\ Atender(t, r, hist.cantidad[r] + n, LAMBDA f : generar(f, r, n))
ConsumirRecurso(t, r, n) ==
  /\ danio.tipo = "no"
  /\ Atender(t, r, IF n < hist.cantidad[r] THEN hist.cantidad[r] - n ELSE 0,
             LAMBDA f : consumir(f, r, n))
DescartarBasura(t) ==
  /\ "Basura" \in Recursos /\ danio.tipo = "no"
  /\ Atender(t, "Basura", 0, descartarBasura)

(* A task without resources begins, a task ends, a tripulante moves or goes *)
(* to a sabotage.                                                           *)
EscribirEvento(t) == Atender(t, "", 0, LAMBDA f : <<>>)

(* Somebody damages the files, or nothing, and sends SIGUSR1; past the last *)
(* position the handler follows a null pointer.                             *)
Daniado(tipo, r, n) ==
  LET a == File(r)
      m == fs.archivo[a]
  IN  CASE tipo = "cantidad"    -> [fs EXCEPT !.cantidad = cantidadBloques + 8]
        [] tipo = "bit"         -> [fs EXCEPT !.bitmap = @ \cup {n}]
        [] tipo = "bitListado"  -> [fs EXCEPT !.bitmap = @ \ ToSet(m.blocks)]
        [] tipo = "SIZE"        -> [fs EXCEPT !.archivo[a].size = n]
        [] tipo = "BLOCK_COUNT" -> [fs EXCEPT !.archivo[a].count = @ + 1]
        [] tipo = "orden"       -> [fs EXCEPT !.archivo[a].blocks = Reverse(@)]
        [] tipo = "bloque"      -> [fs EXCEPT !.archivo[a].blocks = Append(@, n)]
        [] tipo = "contenido"   -> [fs EXCEPT !.disco = Pegar(@, Dir(n), <<"X">>)]
        [] OTHER -> fs
UltimoLibre == {b \in Bloques \ fs.bitmap : \A x \in Bloques \ fs.bitmap : x <= b}
Valores(tipo, r) ==
  CASE tipo = "bit" -> UltimoLibre
    [] tipo = "SIZE" -> SIZEs
    [] tipo = "bloque" -> {cantidadBloques, cantidadBloques + 1} \cup UltimoLibre
    [] tipo = "contenido" -> ToSet(fs.archivo[File(r)].blocks)
    [] OTHER -> {0}
Sabotear(tipo, r, n) ==
  /\ fs.vivo /\ danio.tipo = "no" /\ Cabe /\ sabotajes < MaxSabotajes
  /\ tipo = "nada" \/ (fs.archivo[File(r)].blocks # <<>> /\ Daniado(tipo, r, n) # fs)
  /\ fs' = Daniado(tipo, r, n)
  /\ danio' = [tipo |-> tipo, avisado |-> FALSE, antes |-> [archivo |-> fs.archivo, bitmap |-> fs.bitmap]]
  /\ sabotajes' = sabotajes + 1
  /\ UNCHANGED <<proceso, hist, pedidos, caidas>>

Senial ==
  /\ fs.vivo /\ danio.tipo # "no" /\ ~danio.avisado
  /\ danio' = [danio EXCEPT !.avisado = TRUE]
  /\ IF contadorSabotajeLeido < Posiciones
       THEN contadorSabotajeLeido' = contadorSabotajeLeido + 1 /\ UNCHANGED <<fs, hist>>
       ELSE fs' = Morir(fs) /\ hist' = AlMorir(hist, fs, FALSE) /\ UNCHANGED contadorSabotajeLeido
  /\ UNCHANGED <<flagEnd, sync_blocks, cuentas>>

Salteadas(f) == {t \in Trips \ Revisadas(f) : f.archivo[Bitacora(t)].blocks # <<>>}
InvocarFsck(residuo) ==      \* INVOCAR_FSCK
  /\ danio.avisado
  /\ LET traza == protocolo_fsck(fs, residuo)
         fin   == Last(traza)
     IN  Servir(traza,
           [hist EXCEPT
              !.cantidad = IF Falla({"corte"}) \/ SIZEPerdido(fin)
                             THEN [r \in Recursos |-> fin.archivo[File(r)].size] ELSE @,
              !.perdidas = IF fin.copia # fs.copia THEN @ \cup hist.sinCopiar ELSE @,
              !.fallas = (@ \ {"corte", "viejo"})
                           \cup (IF Salteadas(fs) # {} THEN {"salteo"} ELSE {})
                           \cup (IF SIZEPerdido(fin) THEN {"size"} ELSE {})],
           SinDanio)
  /\ UNCHANGED <<pedidos, sabotajes>>

-----------------------------------------------------------------------------
(* The copy to the disk, the end, death and the start over what is there.   *)

Copiar ==
  /\ fs.vivo /\ sync_blocks = "sleep"
  /\ fs' = [fs EXCEPT !.disco = fs.copia] /\ sync_blocks' = "mira"
  /\ hist' = [hist EXCEPT !.sinCopiar = {}]
  /\ UNCHANGED <<contadorSabotajeLeido, flagEnd, danio, cuentas>>
MirarSinVer ==      \* mutation: flagEnd is not read again
  /\ fs.vivo /\ sync_blocks = "mira"
  /\ sync_blocks' = "sleep"
  /\ UNCHANGED <<fs, contadorSabotajeLeido, flagEnd, danio, hist, cuentas>>
Mirar ==
  /\ fs.vivo /\ sync_blocks = "mira"
  /\ sync_blocks' = IF flagEnd THEN "sleep" ELSE "fin"
  /\ UNCHANGED <<fs, contadorSabotajeLeido, flagEnd, danio, hist, cuentas>>

SIGINT ==
  /\ fs.vivo /\ flagEnd /\ Cabe /\ caidas < MaxCaidas
  /\ flagEnd' = FALSE /\ caidas' = caidas + 1
  /\ UNCHANGED <<fs, contadorSabotajeLeido, sync_blocks, danio, hist, pedidos, sabotajes>>
finalizarProceso ==
  /\ fs.vivo /\ ~flagEnd /\ sync_blocks = "fin"
  /\ fs' = Morir(fs) /\ hist' = AlMorir(hist, fs, FALSE)
  /\ UNCHANGED <<proceso, danio, cuentas>>
Caer ==
  /\ fs.vivo /\ Cabe /\ caidas < MaxCaidas /\ caidas' = caidas + 1
  /\ fs' = Morir(fs) /\ hist' = AlMorir(hist, fs, FALSE)
  /\ UNCHANGED <<proceso, danio, pedidos, sabotajes>>
Reiniciar ==      \* only with the superblock's count as it was
  /\ ~fs.vivo /\ fs.cantidad = cantidadBloques
  /\ fs' = [fs EXCEPT !.vivo = TRUE]
  /\ contadorSabotajeLeido' = 0 /\ flagEnd' = TRUE /\ sync_blocks' = "sleep"
  /\ UNCHANGED <<danio, hist, cuentas>>

Next ==
  \/ \E t \in Obreros :
       \/ \E r \in Recursos, n \in Cantidades :
            GenerarRecurso(t, r, n) \/ (r # "Basura" /\ ConsumirRecurso(t, r, n))
       \/ DescartarBasura(t)
  \/ \E t \in Trips : EscribirEvento(t)
  \/ \E tipo \in Sabotajes, r \in Recursos : \E n \in Valores(tipo, r) : Sabotear(tipo, r, n)
  \/ Senial \/ \E residuo \in Residuos : InvocarFsck(residuo)
  \/ Copiar \/ Mirar \/ SIGINT \/ finalizarProceso \/ Caer \/ Reiniciar

Spec == Init /\ [][Next]_vars /\ WF_vars(Copiar) /\ WF_vars(Mirar) /\ WF_vars(finalizarProceso)
-----------------------------------------------------------------------------
(* Each variable keeps to its range: blocks and bits are of the device,     *)
(* sizes and counts are integers (a second death may take a count below     *)
(* zero), and a bitácora's BLOCK_COUNT stays 0 (guardarBlocks.c,            *)
(* sabotajes.c).                                                            *)
TypeOK ==
  /\ fs.bitmap \subseteq Bloques /\ fs.cantidad \in {cantidadBloques, cantidadBloques + 8}
  /\ DOMAIN fs.archivo = Archivos
  /\ \A a \in Archivos : LET m == fs.archivo[a] IN
       /\ m.existe \in BOOLEAN /\ m.size \in Int /\ m.count \in Int
       /\ ToSet(m.blocks) \subseteq 0..(cantidadBloques + 1)
       /\ ~EsRecurso(a) => m.count = 0
  /\ DOMAIN fs.disco = 0..(Dir(cantidadBloques) - 1) /\ DOMAIN fs.copia = DOMAIN fs.disco
  /\ fs.vivo \in BOOLEAN /\ fs.desborde \in BOOLEAN
  /\ sync_blocks \in {"sleep", "mira", "fin"} /\ flagEnd \in BOOLEAN
  /\ contadorSabotajeLeido \in 0..Posiciones
  /\ DOMAIN hist.cantidad = Recursos /\ hist.perdidas \subseteq Trips

(* A block is in one place of one list, and its bit is set; a bit is set    *)
(* only for a listed block, unless fsck marked some at random; a resource's *)
(* BLOCK_COUNT counts its list.  Taking and giving back blocks one by one,  *)
(* saving bit, size, list and count apart, and dying anywhere between       *)
(* requests, keep it so; dying inside one may not, until fsck, nor may a    *)
(* fsck that left out a bitácora or a request served before fsck with the   *)
(* bit of a listed block clear.                                             *)
Lugares == {x \in Archivos \X (1..cantidadBloques) : x[2] \in DOMAIN fs.archivo[x[1]].blocks}
EnLugar(x) == fs.archivo[x[1]].blocks[x[2]]
UnDuenio == \A x, y \in Lugares : EnLugar(x) = EnLugar(y) => x = y
BloquesRepartidos ==
  ~Falla({"corte", "salteo", "doble"}) /\ danio.tipo = "no" =>
    /\ UnDuenio
    /\ Listados(fs, Archivos) \subseteq fs.bitmap
    /\ \A r \in Recursos : fs.archivo[File(r)].count = Len(fs.archivo[File(r)].blocks)
    /\ Residuos = {{}} => fs.bitmap = Listados(fs, Archivos)

(* What was generated and not consumed is there: SIZE says how much, and    *)
(* that many characters are read from the blocks of the file, in no more    *)
(* blocks than hold them and a bar.  So through appends inside a block and  *)
(* across blocks, consumption across blocks, death with everything copied,  *)
(* and any damage that fsck was called for.  Left out: from an append to a  *)
(* file whose bar opens its last block on, and from a death until fsck.     *)
RecursosEnteros ==
  ~Falla({"corte", "salteo", "doble", "size"}) /\ ~fs.desborde /\ danio.tipo = "no" =>
    \A r \in Recursos :
      LET m == fs.archivo[File(r)]
          c == Len(m.blocks)
      IN  /\ m.size = hist.cantidad[r] /\ m.count = c
          /\ c = 0 => m.size = 0
          /\ c > 0 => (c - 1) * tamanioBloque <= m.size /\ m.size <= c * tamanioBloque
          /\ fs.vivo /\ ~Falla({"viejo"}) => Visible(fs.copia, m.blocks) = Repetida(Letra[r], m.size)

(* A bitácora reads back as everything that was written in it, in order,    *)
(* whatever else happens to the device, if it was copied to the disk before *)
(* every death and before every fsck that rewrote a block.                  *)
BitacorasEnteras ==
  fs.vivo /\ ~Falla({"salteo", "doble"}) /\ ~fs.desborde =>
    \A t \in Trips \ hist.perdidas : obtenerBitacora(fs, t) = hist.notas[t]

FinDeFsck == danio.avisado /\ danio'.tipo = "no" /\ fs'.vivo

(* After fsck the metadata of each resource agree with what is on the disk  *)
(* and one more fsck would change nothing there: no repair undoes another,  *)
(* after whatever damage or death, but a block given twice ("doble").       *)
FsckEstable == [][FinDeFsck /\ ~fs'.desborde /\ ~Falla({"doble"}) =>
  /\ \A r \in Recursos : LET m == fs'.archivo[File(r)] IN
       /\ Visible(fs'.disco, m.blocks) = Repetida(Letra[r], m.size)
       /\ m.count = Len(m.blocks) /\ ToSet(m.blocks) \subseteq fs'.bitmap
  /\ LET otra == Last(protocolo_fsck(fs', {}))
     IN  otra.archivo = fs'.archivo /\ otra.disco = fs'.disco /\ otra.bitmap \subseteq fs'.bitmap]_vars

(* One damage and no death: fsck brings back each file's size, count and    *)
(* set of blocks, the bits and the superblock; a wrong SIZE only if the MD5 *)
(* saved is that of the text (setearMD5 takes characters past it) and the   *)
(* blocks had been copied.                                                  *)
FsckRestaura == [][FinDeFsck /\ hist.fallas \cup hist'.fallas \subseteq {"size"} /\ ~fs.desborde =>
  /\ fs'.cantidad = cantidadBloques /\ Listados(fs', Archivos) \subseteq fs'.bitmap
  /\ \A r \in Recursos :
       LET m == danio.antes.archivo[File(r)]
           n == fs'.archivo[File(r)]
       IN  ~SIZEPerdido(fs') =>
             n.size = m.size /\ n.count = m.count /\ ToSet(n.blocks) = ToSet(m.blocks)]_vars

(* SIGINT leads to the end: the thread that copies sees the flag after its  *)
(* next copy, and finalizarProceso was waiting for it.                      *)
Termina == ~flagEnd ~> ~fs.vivo
=============================================================================
