--------------------------- MODULE ArchivosBloques ---------------------------
(***************************************************************************)
(* BloquesRepartidos and TypeOK of SistemaArchivos, for every device, any  *)
(* tasks, any damages, deaths and starts.                                  *)
(*                                                                         *)
(* Every file system an operation goes through is a point where the process *)
(* may die, so the invariant has a weak part, which all of them keep: no   *)
(* two places of the lists have the same block with its bit set, and the   *)
(* blocks of the bitácoras have theirs.  With the damages, deaths and      *)
(* repairs that there were it is strengthened to the part that the         *)
(* operations need and, when they end, keep.  The types come last: they    *)
(* hold at all those points whatever went wrong.                           *)
(***************************************************************************)
EXTENDS SistemaArchivos, Plegados, SequenceTheorems

Lista(f, a) == f.archivo[a].blocks

(* What the file system is made of. *)
EsMetadata(m) ==
  /\ m = [existe |-> m.existe, size |-> m.size, count |-> m.count, blocks |-> m.blocks, md5 |-> m.md5]
  /\ m.blocks \in Seq(Nat) /\ m.size \in Int /\ m.count \in Int
Formado(f) ==
  /\ f = [bitmap |-> f.bitmap, cantidad |-> f.cantidad, archivo |-> f.archivo, disco |-> f.disco,
          copia |-> f.copia, vivo |-> f.vivo, desborde |-> f.desborde]
  /\ f.archivo = [a \in Archivos |-> f.archivo[a]]
  /\ \A a \in Archivos : EsMetadata(f.archivo[a])

(* No block of S is in two places. *)
Unico(f, S) == \A a, b \in Archivos : \A i \in 1..Len(Lista(f, a)), j \in 1..Len(Lista(f, b)) :
  Lista(f, a)[i] = Lista(f, b)[j] /\ Lista(f, a)[i] \in S => a = b /\ i = j
EnBits(f, a) == \A i \in 1..Len(Lista(f, a)) : Lista(f, a)[i] \in f.bitmap

(* At every point: with u, when the lists have no block put by somebody     *)
(* else, none is twice even without its bit.                                *)
Punto(f, u) ==
  /\ Formado(f) /\ f.bitmap \subseteq Bloques
  /\ \A a \in Archivos : ~f.archivo[a].existe => Lista(f, a) = <<>>
  /\ Unico(f, f.bitmap)
  /\ \A t \in Trips : EnBits(f, Bitacora(t))
  /\ u => Unico(f, Nat) /\ \A a \in Archivos : \A i \in 1..Len(Lista(f, a)) : Lista(f, a)[i] \in Bloques

(* Between requests: the listed blocks of the device have their bit.  With  *)
(* c, when no death is to be repaired, the counts and the bits are exact.   *)
Marcados(f) == \A a \in Archivos : \A i \in 1..Len(Lista(f, a)) :
  Lista(f, a)[i] \in Bloques => Lista(f, a)[i] \in f.bitmap
Exacta(f) ==
  /\ \A r \in Recursos : f.archivo[File(r)].count = Len(Lista(f, File(r)))
  /\ Residuos = {{}} => \A b \in f.bitmap : \E a \in Archivos : \E i \in 1..Len(Lista(f, a)) : Lista(f, a)[i] = b
Fin(f, u, c) == Punto(f, u) /\ Marcados(f) /\ (c => Exacta(f))

(* The invariant *)
EsHistoria(h) == h = [cantidad |-> h.cantidad, notas |-> h.notas, sinCopiar |-> h.sinCopiar,
                      perdidas |-> h.perdidas, fallas |-> h.fallas]
EsDanio(d) == /\ d = [tipo |-> d.tipo, avisado |-> d.avisado, antes |-> d.antes]
              /\ d.tipo \in Sabotajes \cup {"no"} /\ (d.avisado => d.tipo # "no")
Vale(f, F, d) ==
  F \cap {"salteo", "doble"} = {} =>
    /\ Punto(f, d.tipo # "bloque")
    /\ "corte" \notin F /\ d.tipo = "no" => Fin(f, TRUE, TRUE)
InvBloques == EsHistoria(hist) /\ EsDanio(danio) /\ Vale(fs, hist.fallas, danio)

-----------------------------------------------------------------------------
(* What each change of the file system touches *)

(* Only the metadata of a changes. *)
Toca(f, g, a) == /\ Formado(g) /\ g.bitmap = f.bitmap
                 /\ \A x \in Archivos \ {a} : g.archivo[x] = f.archivo[x]
(* The lists, their counts and the bits stay. *)
Queda(f, g) == /\ Formado(g) /\ g.bitmap = f.bitmap
               /\ \A x \in Archivos : /\ Lista(g, x) = Lista(f, x) /\ g.archivo[x].count = f.archivo[x].count
                                      /\ g.archivo[x].existe = f.archivo[x].existe

Cambia(f, g, a, m) == g = [f EXCEPT !.archivo[a] = m]
LEMMA TocaArchivo ==
  ASSUME NEW f, Formado(f), NEW a \in Archivos, NEW m, EsMetadata(m), NEW g, Cambia(f, g, a, m)
  PROVE  Toca(f, g, a) /\ g.archivo[a] = m
<1>1. /\ f = [bitmap |-> f.bitmap, cantidad |-> f.cantidad, archivo |-> f.archivo, disco |-> f.disco,
              copia |-> f.copia, vivo |-> f.vivo, desborde |-> f.desborde]
      /\ f.archivo = [x \in Archivos |-> f.archivo[x]]
      /\ \A x \in Archivos : EsMetadata(f.archivo[x])
  BY DEF Formado
<1>2. g = [bitmap |-> f.bitmap, cantidad |-> f.cantidad, archivo |-> [f.archivo EXCEPT ![a] = m],
           disco |-> f.disco, copia |-> f.copia, vivo |-> f.vivo, desborde |-> f.desborde]
  BY <1>1 DEF Cambia
<1>3. PICK h : h = [f.archivo EXCEPT ![a] = m]
  OBVIOUS
<1>4. h[a] = m /\ (\A x \in Archivos \ {a} : h[x] = f.archivo[x]) /\ h = [x \in Archivos |-> h[x]]
  BY <1>1, <1>3
<1>5. g.archivo = h /\ g.bitmap = f.bitmap
  BY <1>2, <1>3
<1>6. g = [bitmap |-> g.bitmap, cantidad |-> g.cantidad, archivo |-> g.archivo, disco |-> g.disco,
           copia |-> g.copia, vivo |-> g.vivo, desborde |-> g.desborde]
  BY <1>2
<1>7. \A x \in Archivos : EsMetadata(h[x])
  BY <1>1, <1>4
<1> QED BY <1>4, <1>5, <1>6, <1>7 DEF Toca, Formado

LEMMA QuedaIgual ==
  ASSUME NEW f, Formado(f), NEW g, Formado(g), g.bitmap = f.bitmap, g.archivo = f.archivo
  PROVE  Queda(f, g)
BY DEF Queda, Lista

LEMMA TocaMarca ==
  ASSUME NEW f, Formado(f), NEW B, NEW g, g = [f EXCEPT !.bitmap = B]
  PROVE  Formado(g) /\ g.bitmap = B /\ g.archivo = f.archivo
<1>1. f = [bitmap |-> f.bitmap, cantidad |-> f.cantidad, archivo |-> f.archivo, disco |-> f.disco,
           copia |-> f.copia, vivo |-> f.vivo, desborde |-> f.desborde]
  BY DEF Formado
<1>2. g = [bitmap |-> B, cantidad |-> f.cantidad, archivo |-> f.archivo, disco |-> f.disco,
           copia |-> f.copia, vivo |-> f.vivo, desborde |-> f.desborde]
  BY <1>1
<1>3. g.bitmap = B /\ g.archivo = f.archivo
  BY <1>2
<1>4. g = [bitmap |-> g.bitmap, cantidad |-> g.cantidad, archivo |-> g.archivo, disco |-> g.disco,
           copia |-> g.copia, vivo |-> g.vivo, desborde |-> g.desborde]
  BY <1>2
<1>5. g.archivo = [x \in Archivos |-> g.archivo[x]] /\ \A x \in Archivos : EsMetadata(g.archivo[x])
  BY <1>3 DEF Formado
<1> QED BY <1>3, <1>4, <1>5 DEF Formado

(* The contents, the life and the superblock's count are not of the lists. *)
Contenido(f, g) ==
  g = [bitmap |-> f.bitmap, cantidad |-> g.cantidad, archivo |-> f.archivo, disco |-> g.disco,
       copia |-> g.copia, vivo |-> g.vivo, desborde |-> g.desborde]
LEMMA ContenidoQueda ==
  ASSUME NEW f, Formado(f), NEW g, Contenido(f, g)
  PROVE  Queda(f, g) /\ g.archivo = f.archivo
<1>1. f = [bitmap |-> f.bitmap, cantidad |-> f.cantidad, archivo |-> f.archivo, disco |-> f.disco,
           copia |-> f.copia, vivo |-> f.vivo, desborde |-> f.desborde]
  BY DEF Formado
<1>2. g = [bitmap |-> f.bitmap, cantidad |-> g.cantidad, archivo |-> f.archivo, disco |-> g.disco,
           copia |-> g.copia, vivo |-> g.vivo, desborde |-> g.desborde]
  BY DEF Contenido
<1>3. g.bitmap = f.bitmap /\ g.archivo = f.archivo
  BY <1>2
<1>4. g = [bitmap |-> g.bitmap, cantidad |-> g.cantidad, archivo |-> g.archivo, disco |-> g.disco,
           copia |-> g.copia, vivo |-> g.vivo, desborde |-> g.desborde]
  BY <1>2, <1>3
<1>5. g.archivo = [x \in Archivos |-> g.archivo[x]] /\ \A x \in Archivos : EsMetadata(g.archivo[x])
  BY <1>3 DEF Formado
<1> QED BY <1>3, <1>4, <1>5, QuedaIgual DEF Formado

LEMMA MorirQueda ==
  ASSUME NEW f, Formado(f)
  PROVE  Queda(f, Morir(f)) /\ Morir(f).archivo = f.archivo
<1>1. f = [bitmap |-> f.bitmap, cantidad |-> f.cantidad, archivo |-> f.archivo, disco |-> f.disco,
           copia |-> f.copia, vivo |-> f.vivo, desborde |-> f.desborde]
  BY DEF Formado
<1>2. PICK g : g = Morir(f)
  OBVIOUS
<1>3. g = [bitmap |-> f.bitmap, cantidad |-> f.cantidad, archivo |-> f.archivo, disco |-> f.disco,
           copia |-> f.disco, vivo |-> FALSE, desborde |-> f.desborde]
  BY <1>1, <1>2 DEF Morir
<1>4. Contenido(f, g)
  BY <1>3 DEF Contenido
<1> QED BY <1>2, <1>4, ContenidoQueda

(* A change of the metadata of one file. *)
LEMMA CambiaQueda ==
  ASSUME NEW f, Formado(f), NEW a \in Archivos, NEW m, EsMetadata(m), NEW g, Cambia(f, g, a, m),
         m.blocks = f.archivo[a].blocks, m.count = f.archivo[a].count, m.existe = f.archivo[a].existe
  PROVE  Queda(f, g)
BY TocaArchivo DEF Toca, Queda, Lista

LEMMA SizeQueda ==
  ASSUME NEW f, Formado(f), NEW a \in Archivos, NEW n \in Int
  PROVE  Queda(f, actualizarSize(f, a, n))
<1>1. PICK g : g = actualizarSize(f, a, n)
  OBVIOUS
<1>2. PICK m : m = [f.archivo[a] EXCEPT !.size = f.archivo[a].size + n]
  OBVIOUS
<1>3. Cambia(f, g, a, m)
  BY <1>1, <1>2 DEF Cambia, actualizarSize
<1>4. EsMetadata(f.archivo[a])
  BY DEF Formado
<1>5. /\ EsMetadata(m) /\ m.blocks = f.archivo[a].blocks /\ m.count = f.archivo[a].count
      /\ m.existe = f.archivo[a].existe
  BY <1>2, <1>4 DEF EsMetadata
<1> QED BY <1>1, <1>3, <1>5, CambiaQueda

LEMMA MD5Queda ==
  ASSUME NEW f, Formado(f), NEW a \in Archivos
  PROVE  Queda(f, setearMD5(f, a))
<1>1. PICK g : g = setearMD5(f, a)
  OBVIOUS
<1>2. PICK s : g = [f EXCEPT !.archivo[a].md5 = s]
  BY <1>1 DEF setearMD5
<1>3. PICK m : m = [f.archivo[a] EXCEPT !.md5 = s]
  OBVIOUS
<1>4. Cambia(f, g, a, m)
  BY <1>2, <1>3 DEF Cambia
<1> HIDE <1>2
<1>5. EsMetadata(f.archivo[a])
  BY DEF Formado
<1>6. /\ EsMetadata(m) /\ m.blocks = f.archivo[a].blocks /\ m.count = f.archivo[a].count
      /\ m.existe = f.archivo[a].existe
  BY <1>3, <1>5 DEF EsMetadata
<1> QED BY <1>1, <1>4, <1>6, CambiaQueda

(* A block more, a block less, another count. *)
LEMMA AgregarToca ==
  ASSUME NEW f, Formado(f), NEW a \in Archivos, NEW b \in Nat, NEW g, g = AgregarBloque(f, a, b)
  PROVE  /\ Toca(f, g, a) /\ Lista(g, a) = Append(Lista(f, a), b)
         /\ g.archivo[a].count = f.archivo[a].count /\ g.archivo[a].existe = f.archivo[a].existe
<1>1. PICK s : s = Append(f.archivo[a].blocks, b)
  OBVIOUS
<1>2. PICK m : m = [f.archivo[a] EXCEPT !.blocks = s]
  OBVIOUS
<1>3. Cambia(f, g, a, m)
  BY <1>1, <1>2 DEF Cambia, AgregarBloque
<1>4. EsMetadata(f.archivo[a])
  BY DEF Formado
<1>5. s \in Seq(Nat)
  BY <1>1, <1>4, AppendProperties DEF EsMetadata
<1>6. /\ EsMetadata(m) /\ m.blocks = s /\ m.count = f.archivo[a].count
      /\ m.existe = f.archivo[a].existe
  BY <1>2, <1>4, <1>5 DEF EsMetadata
<1> QED BY <1>1, <1>3, <1>6, TocaArchivo DEF Lista

LEMMA CuentaToca ==
  ASSUME NEW f, Formado(f), NEW a \in Archivos, NEW n \in Int, NEW g, g = actualizarBlockCount(f, a, n)
  PROVE  /\ Toca(f, g, a) /\ Lista(g, a) = Lista(f, a)
         /\ g.archivo[a].count = f.archivo[a].count + n /\ g.archivo[a].existe = f.archivo[a].existe
<1>1. PICK m : m = [f.archivo[a] EXCEPT !.count = f.archivo[a].count + n]
  OBVIOUS
<1>2. Cambia(f, g, a, m)
  BY <1>1 DEF Cambia, actualizarBlockCount
<1>3. EsMetadata(f.archivo[a])
  BY DEF Formado
<1>4. /\ EsMetadata(m) /\ m.blocks = f.archivo[a].blocks /\ m.count = f.archivo[a].count + n
      /\ m.existe = f.archivo[a].existe
  BY <1>1, <1>3 DEF EsMetadata
<1> QED BY <1>2, <1>4, TocaArchivo DEF Lista

LEMMA QuitarToca ==
  ASSUME NEW f, Formado(f), NEW a \in Archivos, Lista(f, a) # <<>>, NEW g, g = QuitarBloque(f, a)
  PROVE  /\ Toca(f, g, a) /\ g.archivo[a].count = f.archivo[a].count
         /\ g.archivo[a].existe = f.archivo[a].existe
         /\ Lista(g, a) = IF f.archivo[a].count = 0 THEN <<>> ELSE Front(Lista(f, a))
<1>1. PICK s : s = IF f.archivo[a].count = 0 THEN <<>> ELSE Front(f.archivo[a].blocks)
  OBVIOUS
<1>2. PICK m : m = [f.archivo[a] EXCEPT !.blocks = s]
  OBVIOUS
<1>3. Cambia(f, g, a, m)
  BY <1>1, <1>2 DEF Cambia, QuitarBloque
<1>4. EsMetadata(f.archivo[a])
  BY DEF Formado
<1>4a. f.archivo[a].blocks \in Seq(Nat)
  BY <1>4 DEF EsMetadata
<1>5. s \in Seq(Nat)
  BY <1>1, <1>4a DEF Front, Lista
<1>6. /\ EsMetadata(m) /\ m.blocks = s /\ m.count = f.archivo[a].count
      /\ m.existe = f.archivo[a].existe
  BY <1>2, <1>4, <1>5 DEF EsMetadata
<1> QED BY <1>1, <1>3, <1>6, TocaArchivo DEF Lista

(* A file that is made, or that is not any more, has no blocks. *)
LEMMA CrearToca ==
  ASSUME NEW f, Formado(f), NEW a \in Archivos, NEW g, g = crearMetadata(f, a)
  PROVE  Toca(f, g, a) /\ Lista(g, a) = <<>> /\ g.archivo[a].count = 0 /\ g.archivo[a].existe
<1>1. PICK m : m = [NoExiste EXCEPT !.existe = TRUE, !.md5 = <<"0">>]
  OBVIOUS
<1>2. Cambia(f, g, a, m)
  BY <1>1 DEF Cambia, crearMetadata
<1>3. m = [existe |-> TRUE, size |-> 0, count |-> 0, blocks |-> <<>>, md5 |-> <<"0">>]
  BY <1>1 DEF NoExiste
<1>4. EsMetadata(m) /\ m.blocks = <<>> /\ m.count = 0 /\ m.existe
  BY <1>3 DEF EsMetadata
<1> QED BY <1>2, <1>4, TocaArchivo DEF Lista

-----------------------------------------------------------------------------
(* What they keep of the invariant *)

LEMMA Nombres ==
  /\ \A r \in Recursos : File(r) \in Archivos /\ EsRecurso(File(r))
  /\ \A t \in Trips : Bitacora(t) \in Archivos /\ ~EsRecurso(Bitacora(t))
  /\ \A r, q \in Recursos : File(r) = File(q) => r = q
  /\ \A t, x \in Trips : Bitacora(t) = Bitacora(x) => t = x
  /\ \A a \in Archivos : IF EsRecurso(a) THEN \E r \in Recursos : a = File(r)
                         ELSE \E t \in Trips : a = Bitacora(t)
BY DEF Archivos, File, Bitacora, EsRecurso

LEMMA ListaTipo ==
  ASSUME NEW f, Formado(f), NEW a \in Archivos
  PROVE  /\ Lista(f, a) \in Seq(Nat) /\ Len(Lista(f, a)) \in Nat
         /\ \A i \in 1..Len(Lista(f, a)) : Lista(f, a)[i] \in Nat
<1>1. Lista(f, a) \in Seq(Nat)
  BY DEF Formado, EsMetadata, Lista
<1> QED BY <1>1, ElementOfSeq, LenProperties

LEMMA BloquesNat == Bloques \subseteq Nat /\ IsFiniteSet(Bloques)
<1>1. cantidadBloques \in Nat
  BY SistemaOK
<1>2. IsFiniteSet(0..(cantidadBloques - 1))
  BY <1>1, FS_Interval
<1> QED BY <1>1, <1>2 DEF Bloques

LEMMA QuedaPunto ==
  ASSUME NEW f, NEW u, Punto(f, u), NEW g, Queda(f, g)
  PROVE  Punto(g, u) /\ (Marcados(f) => Marcados(g)) /\ (Exacta(f) => Exacta(g))
<1>1. /\ Formado(g) /\ g.bitmap = f.bitmap
      /\ \A x \in Archivos : /\ Lista(g, x) = Lista(f, x) /\ g.archivo[x].count = f.archivo[x].count
                             /\ g.archivo[x].existe = f.archivo[x].existe
  BY DEF Queda
<1>2. \A t \in Trips : EnBits(g, Bitacora(t))
  BY <1>1, Nombres DEF Punto, EnBits
<1>3. Punto(g, u)
  BY <1>1, <1>2 DEF Punto, Unico
<1>4. Marcados(f) => Marcados(g)
  BY <1>1 DEF Marcados
<1>5. Exacta(f) => Exacta(g)
  BY <1>1, Nombres DEF Exacta
<1> QED BY <1>3, <1>4, <1>5

LEMMA QuedaFin ==
  ASSUME NEW f, NEW u, NEW c, Fin(f, u, c), NEW g, Queda(f, g)
  PROVE  Fin(g, u, c)
BY QuedaPunto DEF Fin

(* A block that is in no list may be marked, and then listed. *)
Suelto(f, b) == \A a \in Archivos : \A i \in 1..Len(Lista(f, a)) : Lista(f, a)[i] # b
LEMMA MarcarPunto ==
  ASSUME NEW f, NEW u, Punto(f, u), NEW b \in Bloques, Suelto(f, b),
         NEW g, Formado(g), g.bitmap = f.bitmap \cup {b}, g.archivo = f.archivo
  PROVE  Punto(g, u) /\ Suelto(g, b) /\ \A a \in Archivos : Lista(g, a) = Lista(f, a)
<1>1. \A a \in Archivos : Lista(g, a) = Lista(f, a)
  BY DEF Lista
<1>2. Suelto(g, b)
  BY <1>1 DEF Suelto
<1>3. Unico(g, g.bitmap)
  <2> SUFFICES ASSUME NEW x \in Archivos, NEW y \in Archivos, NEW i \in 1..Len(Lista(g, x)),
                      NEW j \in 1..Len(Lista(g, y)), Lista(g, x)[i] = Lista(g, y)[j], Lista(g, x)[i] \in g.bitmap
               PROVE  x = y /\ i = j
    BY DEF Unico
  <2>1. Lista(g, x)[i] # b
    BY <1>2 DEF Suelto
  <2>2. Lista(f, x)[i] \in f.bitmap /\ Lista(f, x)[i] = Lista(f, y)[j]
    BY <1>1, <2>1
  <2> QED BY <1>1, <2>2 DEF Punto, Unico
<1>4. \A t \in Trips : EnBits(g, Bitacora(t))
  BY <1>1, Nombres DEF Punto, EnBits
<1>5. u => Unico(g, Nat)
  BY <1>1 DEF Punto, Unico
<1>6. g.bitmap \subseteq Bloques /\ \A a \in Archivos : ~g.archivo[a].existe => Lista(g, a) = <<>>
  BY <1>1 DEF Punto
<1>7. u => \A a \in Archivos : \A i \in 1..Len(Lista(g, a)) : Lista(g, a)[i] \in Bloques
  BY <1>1 DEF Punto
<1> QED BY <1>1, <1>2, <1>3, <1>4, <1>5, <1>6, <1>7 DEF Punto

LEMMA ListarPunto ==
  ASSUME NEW f, NEW u, Punto(f, u), NEW a \in Archivos, f.archivo[a].existe,
         NEW b \in Bloques, Suelto(f, b), b \in f.bitmap, NEW g, Toca(f, g, a), g.archivo[a].existe,
         Lista(g, a) = Append(Lista(f, a), b)
  PROVE  Punto(g, u)
<1>1. /\ Formado(f) /\ Formado(g) /\ g.bitmap = f.bitmap
      /\ \A x \in Archivos \ {a} : g.archivo[x] = f.archivo[x] /\ Lista(g, x) = Lista(f, x)
  BY DEF Punto, Toca, Lista
<1>2. PICK n : n = Len(Lista(f, a))
  OBVIOUS
<1>3. /\ n \in Nat /\ Len(Lista(g, a)) = n + 1 /\ Lista(g, a)[n + 1] = b
      /\ \A i \in 1..n : Lista(g, a)[i] = Lista(f, a)[i]
  BY <1>1, <1>2, ListaTipo, BloquesNat, AppendProperties
<1>4. ASSUME NEW x \in Archivos, NEW i \in 1..Len(Lista(g, x))
      PROVE  \/ x = a /\ i = n + 1 /\ Lista(g, x)[i] = b
             \/ i \in 1..Len(Lista(f, x)) /\ Lista(g, x)[i] = Lista(f, x)[i] /\ Lista(g, x)[i] # b
  <2>1. CASE x # a
    BY <1>1, <2>1 DEF Suelto
  <2>2. CASE x = a /\ i = n + 1
    BY <1>3, <2>2
  <2>3. CASE x = a /\ i # n + 1
    <3>1. i \in 1..n
      BY <1>3, <2>3
    <3> QED BY <1>2, <1>3, <2>3, <3>1 DEF Suelto
  <2> QED BY <2>1, <2>2, <2>3
<1>5. ASSUME NEW S, Unico(f, S) PROVE Unico(g, S)
  <2> SUFFICES ASSUME NEW x \in Archivos, NEW y \in Archivos, NEW i \in 1..Len(Lista(g, x)),
                      NEW j \in 1..Len(Lista(g, y)), Lista(g, x)[i] = Lista(g, y)[j], Lista(g, x)[i] \in S
               PROVE  x = y /\ i = j
    BY DEF Unico
  <2>1. CASE Lista(g, x)[i] = b
    <3>1. ASSUME NEW z \in Archivos, NEW k \in 1..Len(Lista(g, z)), Lista(g, z)[k] = b PROVE z = a /\ k = n + 1
      BY <1>4, <3>1
    <3>2. x = a /\ i = n + 1
      BY <2>1, <3>1
    <3>3. y = a /\ j = n + 1
      BY <2>1, <3>1
    <3> QED BY <3>2, <3>3
  <2>2. CASE Lista(g, x)[i] # b
    <3>1. /\ i \in 1..Len(Lista(f, x)) /\ Lista(f, x)[i] \in S
          /\ j \in 1..Len(Lista(f, y)) /\ Lista(f, x)[i] = Lista(f, y)[j]
      BY <1>4, <2>2
    <3> QED BY <1>5, <3>1 DEF Unico
  <2> QED BY <2>1, <2>2
<1>6. Unico(g, g.bitmap) /\ (u => Unico(g, Nat))
  BY <1>1, <1>5 DEF Punto
<1>7. \A t \in Trips : EnBits(g, Bitacora(t))
  <2> SUFFICES ASSUME NEW t \in Trips, NEW i \in 1..Len(Lista(g, Bitacora(t)))
               PROVE  Lista(g, Bitacora(t))[i] \in f.bitmap
    BY <1>1 DEF EnBits
  <2>1. Bitacora(t) \in Archivos /\ EnBits(f, Bitacora(t))
    BY Nombres DEF Punto
  <2> QED BY <1>4, <2>1 DEF EnBits
<1>8. g.bitmap \subseteq Bloques /\ \A x \in Archivos : ~g.archivo[x].existe => Lista(g, x) = <<>>
  BY <1>1 DEF Punto
<1>9. u => \A x \in Archivos : \A i \in 1..Len(Lista(g, x)) : Lista(g, x)[i] \in Bloques
  <2> SUFFICES ASSUME u, NEW x \in Archivos, NEW i \in 1..Len(Lista(g, x)) PROVE Lista(g, x)[i] \in Bloques
    OBVIOUS
  <2> QED BY <1>4 DEF Punto
<1> QED BY <1>1, <1>6, <1>7, <1>8, <1>9 DEF Punto

-----------------------------------------------------------------------------
(* Sequences of file systems *)

Traza(z, u) == \E S : z \in Seq(S) /\ z # <<>> /\ \A f \in S : Punto(f, u)

LEMMA TrazaPuntos ==
  ASSUME NEW z, NEW u, Traza(z, u)
  PROVE  /\ Len(z) \in Nat /\ Len(z) >= 1 /\ Punto(Last(z), u)
         /\ \A k \in 1..Len(z) : Punto(z[k], u)
<1>1. PICK S : z \in Seq(S) /\ z # <<>> /\ \A f \in S : Punto(f, u)
  BY DEF Traza
<1>2. Len(z) \in Nat /\ Len(z) # 0
  BY <1>1, EmptySeq
<1>3. \A k \in 1..Len(z) : z[k] \in S
  BY <1>1, ElementOfSeq
<1>4. Len(z) >= 1 /\ Len(z) \in 1..Len(z)
  BY <1>2
<1> QED BY <1>1, <1>2, <1>3, <1>4 DEF Last

LEMMA TrazaUna ==
  ASSUME NEW f, NEW u, Punto(f, u)
  PROVE  Traza(<<f>>, u) /\ Last(<<f>>) = f
<1>1. PICK S : S = {f}
  OBVIOUS
<1>2. \A x \in S : Punto(x, u)
  BY <1>1
<1>3. <<f>> \in Seq(S) /\ <<f>> # <<>> /\ Len(<<f>>) = 1 /\ <<f>>[1] = f
  BY <1>1
<1> QED BY <1>2, <1>3 DEF Traza, Last

LEMMA TrazaSigue ==
  ASSUME NEW z, NEW u, Traza(z, u), NEW x, Traza(x, u)
  PROVE  Traza(z \o x, u) /\ Last(z \o x) = Last(x)
<1>1. PICK S : z \in Seq(S) /\ z # <<>> /\ \A f \in S : Punto(f, u)
  BY DEF Traza
<1>2. PICK T : x \in Seq(T) /\ x # <<>> /\ \A f \in T : Punto(f, u)
  BY DEF Traza
<1> DEFINE C == S \cup T
<1>3. z \in Seq(C) /\ x \in Seq(C) /\ \A f \in C : Punto(f, u)
  BY <1>1, <1>2, SeqMonotonic
<1> HIDE DEF C
<1>4. /\ z \o x \in Seq(C) /\ Len(z \o x) = Len(z) + Len(x)
      /\ \A i \in 1..(Len(z) + Len(x)) : (z \o x)[i] = IF i <= Len(z) THEN z[i] ELSE x[i - Len(z)]
  BY <1>3, ConcatProperties
<1>5. Len(z) \in Nat /\ Len(x) \in Nat /\ Len(x) >= 1 /\ Len(z) >= 1
  BY TrazaPuntos
<1>6. PICK m, n : m = Len(z) /\ n = Len(x)
  OBVIOUS
<1>7. m + n \in 1..(m + n) /\ ~(m + n <= m) /\ m + n - m = n
  BY <1>5, <1>6
<1>8. (z \o x)[m + n] = x[n]
  BY <1>4, <1>6, <1>7
<1>9. z \o x # <<>>
  <2>1. Len(z \o x) # 0
    BY <1>4, <1>5, <1>6
  <2> QED BY <1>4, <2>1, EmptySeq
<1> QED BY <1>3, <1>4, <1>6, <1>8, <1>9 DEF Traza, Last

LEMMA TrazaMas ==
  ASSUME NEW z, NEW u, Traza(z, u), NEW f, Punto(f, u)
  PROVE  Traza(Append(z, f), u) /\ Last(Append(z, f)) = f
<1>1. Append(z, f) = z \o <<f>>
  <2>1. PICK S : z \in Seq(S)
    BY DEF Traza
  <2>2. z \in Seq(S \cup {f}) /\ f \in S \cup {f}
    BY <2>1, SeqMonotonic
  <2> QED BY <2>2, AppendIsConcat
<1>2. Traza(<<f>>, u) /\ Last(<<f>>) = f
  BY TrazaUna
<1>3. Traza(z \o <<f>>, u) /\ Last(z \o <<f>>) = Last(<<f>>)
  BY <1>2, TrazaSigue
<1> QED BY <1>1, <1>2, <1>3, Zenon

LEMMA TrazaTres ==
  ASSUME NEW u, NEW f, NEW g, NEW h, Punto(f, u), Punto(g, u), Punto(h, u)
  PROVE  Traza(<<f, g, h>>, u) /\ Last(<<f, g, h>>) = h
<1>1. PICK S : S = {f, g, h}
  OBVIOUS
<1>2. \A x \in S : Punto(x, u)
  BY <1>1
<1>3. <<f, g, h>> \in Seq(S) /\ <<f, g, h>> # <<>> /\ Len(<<f, g, h>>) = 3 /\ <<f, g, h>>[3] = h
  BY <1>1
<1> QED BY <1>2, <1>3 DEF Traza, Last

LEMMA TrazaCuatro ==
  ASSUME NEW u, NEW f, NEW g, NEW h, NEW k, Punto(f, u), Punto(g, u), Punto(h, u), Punto(k, u)
  PROVE  Traza(<<f, g, h, k>>, u) /\ Last(<<f, g, h, k>>) = k
<1>1. PICK S : S = {f, g, h, k}
  OBVIOUS
<1>2. \A x \in S : Punto(x, u)
  BY <1>1
<1>3. <<f, g, h, k>> \in Seq(S) /\ <<f, g, h, k>> # <<>> /\ Len(<<f, g, h, k>>) = 4 /\ <<f, g, h, k>>[4] = k
  BY <1>1
<1> QED BY <1>2, <1>3 DEF Traza, Last

(* A request that ends, and the next. *)
TrazaFin(z, u, c) == Traza(z, u) /\ Fin(Last(z), u, c)
LEMMA FinUna ==
  ASSUME NEW f, NEW u, NEW c, Fin(f, u, c)
  PROVE  TrazaFin(<<f>>, u, c)
BY TrazaUna DEF TrazaFin, Fin

LEMMA FinSigue ==
  ASSUME NEW z, NEW u, NEW c, TrazaFin(z, u, c), NEW x, TrazaFin(x, u, c)
  PROVE  TrazaFin(z \o x, u, c)
<1>1. Traza(z, u) /\ Traza(x, u) /\ Fin(Last(x), u, c)
  BY DEF TrazaFin
<1>2. Traza(z \o x, u) /\ Last(z \o x) = Last(x)
  BY <1>1, TrazaSigue
<1> QED BY <1>1, <1>2 DEF TrazaFin

(* In the case of a death in the middle: with the MD5 at the end. *)
LEMMA FinConMD5 ==
  ASSUME NEW z, NEW u, NEW c, TrazaFin(z, u, c), NEW a \in Archivos
  PROVE  TrazaFin(Luego(z, LAMBDA g : <<setearMD5(g, a)>>), u, c)
<1>1. PICK f : f = Last(z)
  OBVIOUS
<1>2. Fin(f, u, c) /\ Formado(f)
  BY <1>1 DEF TrazaFin, Fin, Punto
<1>3. Fin(setearMD5(f, a), u, c)
  BY <1>2, MD5Queda, QuedaFin
<1>4. TrazaFin(<<setearMD5(f, a)>>, u, c)
  BY <1>3, FinUna
<1>5. TrazaFin(z \o <<setearMD5(f, a)>>, u, c)
  BY <1>4, FinSigue
<1> QED BY <1>1, <1>5 DEF Luego

-----------------------------------------------------------------------------
(* Folds: what each does with one element *)

TrozoRelleno(e, i) ==
  LET falta == e.size - (i - 1) * tamanioBloque
  IN  IF falta >= tamanioBloque THEN Repetida(e.letra, tamanioBloque) ELSE
      IF falta >= 0 THEN ConBarra(Repetida(e.letra, falta)) ELSE <<Ajeno>>
Paso(q, e, y, x) ==
  IF q = "otro" THEN OtroBloque(y, e[1], e[2], x) ELSE
  IF q = "vuelta" THEN Vuelta(y, e) ELSE
  IF q = "relleno" THEN Pegar(y, Dir(e.blocks[x]), TrozoRelleno(e, x)) ELSE
  IF x > cantidadBloques \/ ~BitEncendido(e, x) THEN y ELSE Append(y, x)

(* There is a function on the subsets of 1..n that does it with the last    *)
(* element of each after the others.                                        *)
Sigue(q, e, b, s, g, T) == IF T = {} THEN b ELSE Paso(q, e, g[T \ {Max(T)}], s[Max(T)])
EsPliegue(g, q, e, b, s, n) == g = [T \in SUBSET (1..n) |-> Sigue(q, e, b, s, g, T)]

(* There is one: by the least number of elements for which there is none. *)
LEMMA ExistePaso ==
  ASSUME NEW q, NEW e, NEW b, NEW s, NEW n \in Nat
  PROVE  \E g : EsPliegue(g, q, e, b, s, n)
<1> DEFINE D(k) == {T \in SUBSET (1..n) : Cardinality(T) <= k}
           Bien(g, k) == g = [T \in D(k) |-> Sigue(q, e, b, s, g, T)]
           malos == {k \in Nat : ~\E g : Bien(g, k)}
<1>1. ASSUME NEW T \in SUBSET (1..n)
      PROVE  Cardinality(T) \in Nat /\ Cardinality(T) <= n /\ (Cardinality(T) <= 0 <=> T = {})
  BY SubconjuntoPrefijo
<1>2. ASSUME NEW T \in SUBSET (1..n), T # {}
      PROVE  /\ T \ {Max(T)} \in SUBSET (1..n)
             /\ Cardinality(T \ {Max(T)}) = Cardinality(T) - 1
  BY <1>2, SubconjuntoPrefijo
<1>3. malos = {}
  <2> SUFFICES ASSUME malos # {} PROVE FALSE
    OBVIOUS
  <2>1. PICK k \in malos : \A j \in malos : k <= j
    BY MinimoNat
  <2>2. k \in Nat
    OBVIOUS
  <2>3. CASE k = 0
    <3> DEFINE g == [T \in D(0) |-> b]
    <3>1. \A T \in D(0) : T = {}
      BY <1>1
    <3>2. ASSUME NEW T \in D(0) PROVE g[T] = Sigue(q, e, b, s, g, T)
      BY <3>1 DEF Sigue
    <3>3. Bien(g, 0)
      BY <3>2
    <3> QED BY <2>1, <2>3, <3>3
  <2>4. CASE k # 0
    <3>1. k - 1 \in Nat /\ ~(k <= k - 1)
      BY <2>2, <2>4
    <3>2. k - 1 \notin malos
      BY <2>1, <3>1
    <3>3. PICK g : Bien(g, k - 1)
      BY <3>1, <3>2
    <3> DEFINE h == [T \in D(k) |-> Sigue(q, e, b, s, g, T)]
    <3>4. ASSUME NEW T \in D(k), T # {}
          PROVE  T \ {Max(T)} \in D(k - 1) /\ T \ {Max(T)} \in D(k)
      BY <1>1, <1>2, <3>1, <3>4
    <3>5. ASSUME NEW T \in D(k - 1) PROVE T \in D(k) /\ h[T] = g[T]
      <4>1. T \in D(k)
        BY <1>1, <3>1
      <4>2. g[T] = Sigue(q, e, b, s, g, T)
        BY <3>3
      <4> QED BY <4>1, <4>2
    <3>6. ASSUME NEW T \in D(k) PROVE h[T] = Sigue(q, e, b, s, h, T)
      <4>1. CASE T = {}
        BY <4>1 DEF Sigue
      <4>2. CASE T # {}
        <5>1. h[T \ {Max(T)}] = g[T \ {Max(T)}]
          BY <3>4, <3>5, <4>2
        <5> QED BY <4>2, <5>1 DEF Sigue
      <4> QED BY <4>1, <4>2
    <3>7. Bien(h, k)
      BY <3>6
    <3> QED BY <2>1, <3>7
  <2> QED BY <2>3, <2>4
<1>4. PICK g : Bien(g, n)
  BY <1>3
<1>5. D(n) = SUBSET (1..n)
  BY <1>1
<1> QED BY <1>4, <1>5 DEF EsPliegue

(* Folding is to do it with one element after the other. *)
Cadena(a, q, e, b, s) ==
  /\ a[0] = b
  /\ \A k \in 1..Len(s) : a[k] = Paso(q, e, a[k - 1], s[k])

(* The function on the subsets gives the chain on the prefixes. *)
LEMMA CadenaDePasos ==
  ASSUME NEW q, NEW e, NEW b, NEW s, NEW n \in Nat, Len(s) = n, NEW g, EsPliegue(g, q, e, b, s, n)
  PROVE  \E a : Cadena(a, q, e, b, s) /\ g[1..n] = a[n]
<1> DEFINE a == [k \in 0..n |-> g[1..k]]
<1>1. \A T \in SUBSET (1..n) : g[T] = Sigue(q, e, b, s, g, T)
  BY DEF EsPliegue
<1>2. a[0] = b
  <2>1. 1..0 = {}
    OBVIOUS
  <2>2. g[{}] = b
    BY <1>1 DEF Sigue
  <2>3. a[0] = g[1..0]
    OBVIOUS
  <2> QED BY <2>1, <2>2, <2>3
<1>3. ASSUME NEW k \in 1..n PROVE a[k] = Paso(q, e, a[k - 1], s[k])
  <2>1. k - 1 \in Nat /\ k - 1 + 1 = k /\ k \in 0..n /\ k - 1 \in 0..n /\ 1..k # {} /\ 1..k \in SUBSET (1..n)
    BY PrefijoDePrefijo
  <2>2. Max(1..(k - 1 + 1)) = k - 1 + 1 /\ (1..(k - 1 + 1)) \ {k - 1 + 1} = 1..(k - 1)
    BY <2>1, MaximoPrefijo
  <2>3. Max(1..k) = k /\ (1..k) \ {k} = 1..(k - 1)
    BY <2>1, <2>2, Zenon
  <2>4. g[1..k] = Paso(q, e, g[(1..k) \ {Max(1..k)}], s[Max(1..k)])
    BY <1>1, <2>1 DEF Sigue
  <2>5. g[1..k] = Paso(q, e, g[1..(k - 1)], s[k])
    BY <2>3, <2>4, Zenon
  <2> QED BY <2>1, <2>5
<1>4. a[n] = g[1..n]
  OBVIOUS
<1> HIDE DEF a
<1> QED BY <1>2, <1>3, <1>4 DEF Cadena

(* What holds first and after each one, holds up to the last. *)
LEMMA PorPasos ==
  ASSUME NEW n \in Nat, NEW G, 0 \in G, \A k \in 0..(n - 1) : k \in G => k + 1 \in G
  PROVE  \A k \in 0..n : k \in G
<1> DEFINE malos == {k \in 0..n : k \notin G}
<1> SUFFICES ASSUME malos # {} PROVE FALSE
  OBVIOUS
<1>1. PICK m \in malos : \A j \in malos : m <= j
  <2>1. malos \subseteq Nat
    OBVIOUS
  <2> HIDE DEF malos
  <2> QED BY <2>1, MinimoNat
<1>2. m - 1 \in 0..(n - 1) /\ m - 1 + 1 = m /\ m - 1 \in 0..n /\ ~(m <= m - 1)
  OBVIOUS
<1> QED BY <1>1, <1>2

(* Blocks taken one after the other. *)
DeAUno(a, w, b, s) == FoldLeft(LAMBDA traza, i : OtroBloque(traza, a, w, i), b, s)
LEMMA PliegaOtro ==
  ASSUME NEW b, NEW s, Len(s) \in Nat, DOMAIN s = 1..Len(s), NEW a, NEW w
  PROVE  \E z : Cadena(z, "otro", <<a, w>>, b, s) /\ DeAUno(a, w, b, s) = z[Len(s)]
<1> DEFINE n == Len(s)
           sigue(g, T) == IF T = {} THEN b ELSE OtroBloque(g[T \ {Max(T)}], a, w, s[Max(T)])
           iter == CHOOSE g : g = [T \in SUBSET (1..n) |-> sigue(g, T)]
<1>1. DeAUno(a, w, b, s) = iter[1..n]
  BY DEF DeAUno, FoldLeft, MapThenFoldSet
<1>2. PICK g : EsPliegue(g, "otro", <<a, w>>, b, s, n)
  BY ExistePaso
<1>3. \A f, T : sigue(f, T) = Sigue("otro", <<a, w>>, b, s, f, T)
  BY DEF Sigue, Paso
<1> HIDE DEF sigue, n
<1>4. g = [T \in SUBSET (1..n) |-> sigue(g, T)]
  BY <1>2, <1>3 DEF n, EsPliegue
<1>5. iter = [T \in SUBSET (1..n) |-> sigue(iter, T)]
  BY <1>4
<1> HIDE DEF iter
<1>6. EsPliegue(iter, "otro", <<a, w>>, b, s, n)
  BY <1>3, <1>5 DEF EsPliegue
<1>7. PICK z : Cadena(z, "otro", <<a, w>>, b, s) /\ iter[1..n] = z[n]
  BY <1>6, CadenaDePasos DEF n
<1> QED BY <1>1, <1>7 DEF n

(* Rounds of an erasing. *)
Vueltas(a, b, s) == FoldLeft(LAMBDA acc, i : Vuelta(acc, a), b, s)
LEMMA PliegaVuelta ==
  ASSUME NEW b, NEW s, Len(s) \in Nat, DOMAIN s = 1..Len(s), NEW a
  PROVE  \E z : Cadena(z, "vuelta", a, b, s) /\ Vueltas(a, b, s) = z[Len(s)]
<1> DEFINE n == Len(s)
           sigue(g, T) == IF T = {} THEN b ELSE Vuelta(g[T \ {Max(T)}], a)
           iter == CHOOSE g : g = [T \in SUBSET (1..n) |-> sigue(g, T)]
<1>1. Vueltas(a, b, s) = iter[1..n]
  BY DEF Vueltas, FoldLeft, MapThenFoldSet
<1>2. PICK g : EsPliegue(g, "vuelta", a, b, s, n)
  BY ExistePaso
<1>3. \A f, T : sigue(f, T) = Sigue("vuelta", a, b, s, f, T)
  BY DEF Sigue, Paso
<1> HIDE DEF sigue, n
<1>4. g = [T \in SUBSET (1..n) |-> sigue(g, T)]
  BY <1>2, <1>3 DEF n, EsPliegue
<1>5. iter = [T \in SUBSET (1..n) |-> sigue(iter, T)]
  BY <1>4
<1> HIDE DEF iter
<1>6. EsPliegue(iter, "vuelta", a, b, s, n)
  BY <1>3, <1>5 DEF EsPliegue
<1>7. PICK z : Cadena(z, "vuelta", a, b, s) /\ iter[1..n] = z[n]
  BY <1>6, CadenaDePasos DEF n
<1> QED BY <1>1, <1>7 DEF n

(* Blocks of a list that fsck leaves in it. *)
LEMMA PliegaValidos ==
  ASSUME NEW s, Len(s) \in Nat, DOMAIN s = 1..Len(s), NEW f
  PROVE  \E z : Cadena(z, "valido", f, <<>>, s) /\ Validos(f, s) = z[Len(s)]
<1> DEFINE n == Len(s)
           sigue(g, T) == IF T = {} THEN <<>> ELSE
             IF s[Max(T)] > cantidadBloques \/ ~BitEncendido(f, s[Max(T)]) THEN g[T \ {Max(T)}]
             ELSE Append(g[T \ {Max(T)}], s[Max(T)])
           iter == CHOOSE g : g = [T \in SUBSET (1..n) |-> sigue(g, T)]
<1>1. Validos(f, s) = iter[1..n]
  BY DEF Validos, FoldLeft, MapThenFoldSet
<1>2. PICK g : EsPliegue(g, "valido", f, <<>>, s, n)
  BY ExistePaso
<1>3. \A h, T : sigue(h, T) = Sigue("valido", f, <<>>, s, h, T)
  BY DEF Sigue, Paso
<1> HIDE DEF sigue, n
<1>4. g = [T \in SUBSET (1..n) |-> sigue(g, T)]
  BY <1>2, <1>3 DEF n, EsPliegue
<1>5. iter = [T \in SUBSET (1..n) |-> sigue(iter, T)]
  BY <1>4
<1> HIDE DEF iter
<1>6. EsPliegue(iter, "valido", f, <<>>, s, n)
  BY <1>3, <1>5 DEF EsPliegue
<1>7. PICK z : Cadena(z, "valido", f, <<>>, s) /\ iter[1..n] = z[n]
  BY <1>6, CadenaDePasos DEF n
<1> QED BY <1>1, <1>7 DEF n

-----------------------------------------------------------------------------
(* Storing *)

LEMMA PrimeroLibre ==
  ASSUME NEW S, S \subseteq Bloques, S # {}
  PROVE  Min(S) \in S
<1>1. \E m \in S : \A x \in S : m <= x
  BY BloquesNat, MinimoNat
<1> QED BY <1>1 DEF Min

(* With one block more in the list of a, and counted, all is exact again.   *)
LEMMA ListarExacta ==
  ASSUME NEW f, Formado(f), Exacta(f), NEW a \in Archivos, NEW b \in Nat, NEW g, Formado(g),
         g.bitmap = f.bitmap \cup {b},
         \A x \in Archivos \ {a} : Lista(g, x) = Lista(f, x) /\ g.archivo[x].count = f.archivo[x].count,
         Lista(g, a) = Append(Lista(f, a), b),
         EsRecurso(a) => g.archivo[a].count = f.archivo[a].count + 1
  PROVE  Exacta(g)
<1>1. \A x \in Archivos \ {a} : Lista(g, x) = Lista(f, x)
  OBVIOUS
<1>2. PICK n : n = Len(Lista(f, a))
  OBVIOUS
<1>3. /\ n \in Nat /\ Len(Lista(g, a)) = n + 1 /\ Lista(g, a)[n + 1] = b
      /\ \A i \in 1..n : Lista(g, a)[i] = Lista(f, a)[i]
  BY <1>2, ListaTipo, AppendProperties
<1>4. ASSUME NEW r \in Recursos PROVE g.archivo[File(r)].count = Len(Lista(g, File(r)))
  <2>1. File(r) \in Archivos /\ EsRecurso(File(r)) /\ f.archivo[File(r)].count = Len(Lista(f, File(r)))
    BY Nombres DEF Exacta
  <2>2. CASE File(r) # a
    BY <1>1, <2>1, <2>2
  <2>3. CASE File(r) = a
    BY <1>2, <1>3, <2>1, <2>3
  <2> QED BY <2>2, <2>3
<1>5. ASSUME Residuos = {{}}, NEW y \in g.bitmap
      PROVE  \E x \in Archivos : \E i \in 1..Len(Lista(g, x)) : Lista(g, x)[i] = y
  <2>1. CASE y = b
    <3>1. n + 1 \in 1..Len(Lista(g, a))
      BY <1>3
    <3> QED BY <1>3, <2>1, <3>1
  <2>2. CASE y # b
    <3>0. PICK x \in Archivos : \E i \in 1..Len(Lista(f, x)) : Lista(f, x)[i] = y
      BY <1>5, <2>2 DEF Exacta
    <3>1. PICK i \in 1..Len(Lista(f, x)) : Lista(f, x)[i] = y
      BY <3>0
    <3>2. CASE x = a
      <4>1. i \in 1..Len(Lista(g, a)) /\ Lista(g, a)[i] = y
        BY <1>2, <1>3, <3>1, <3>2
      <4> QED BY <4>1
    <3>3. CASE x # a
      BY <1>1, <3>1, <3>3
    <3> QED BY <3>2, <3>3
  <2> QED BY <2>1, <2>2
<1> QED BY <1>4, <1>5 DEF Exacta

(* To count the blocks of a disturbs nothing. *)
LEMMA ContadoPunto ==
  ASSUME NEW f, NEW u, Punto(f, u), NEW a \in Archivos, NEW g, Toca(f, g, a),
         Lista(g, a) = Lista(f, a), g.archivo[a].existe = f.archivo[a].existe
  PROVE  Punto(g, u) /\ (Marcados(f) => Marcados(g))
<1>1. /\ Formado(g) /\ g.bitmap = f.bitmap
      /\ \A x \in Archivos : Lista(g, x) = Lista(f, x) /\ g.archivo[x].existe = f.archivo[x].existe
  BY DEF Toca, Lista
<1>2. \A t \in Trips : EnBits(g, Bitacora(t))
  BY <1>1, Nombres DEF Punto, EnBits
<1> QED BY <1>1, <1>2 DEF Punto, Unico, Marcados

LEMMA ListarMarcados ==
  ASSUME NEW f, Formado(f), Marcados(f), NEW a \in Archivos, NEW b \in Nat, NEW g, Formado(g),
         g.bitmap = f.bitmap \cup {b}, \A x \in Archivos \ {a} : Lista(g, x) = Lista(f, x),
         Lista(g, a) = Append(Lista(f, a), b)
  PROVE  Marcados(g)
<1>1. PICK n : n = Len(Lista(f, a))
  OBVIOUS
<1>2. /\ n \in Nat /\ Len(Lista(g, a)) = n + 1 /\ Lista(g, a)[n + 1] = b
      /\ \A i \in 1..n : Lista(g, a)[i] = Lista(f, a)[i]
  BY <1>1, ListaTipo, AppendProperties
<1>3. ASSUME NEW x \in Archivos, NEW i \in 1..Len(Lista(g, x)), Lista(g, x)[i] \in Bloques
      PROVE  Lista(g, x)[i] \in g.bitmap
  <2>1. CASE x # a
    BY <1>3, <2>1 DEF Marcados
  <2>2. CASE x = a /\ i = n + 1
    BY <1>2, <2>2
  <2>3. CASE x = a /\ i # n + 1
    <3>1. i \in 1..n
      BY <1>2, <2>3
    <3> QED BY <1>1, <1>2, <1>3, <2>3, <3>1 DEF Marcados
  <2> QED BY <2>1, <2>2, <2>3
<1> QED BY <1>3 DEF Marcados

(* What is written is a text, and so is a piece of it.                      *)
LEMMA LargoTrozo ==
  ASSUME NEW w, NEW C, w \in Seq(C), NEW i \in Nat
  PROVE  Len(SubSeq(w, (i - 1) * tamanioBloque + 1, Min({i * tamanioBloque, Len(w)}))) \in Nat
<1>1. Len(w) \in Nat
  BY LenProperties
<1>2. PICK x : x = i * tamanioBloque
  OBVIOUS
<1>3. tamanioBloque \in Nat
  BY SistemaOK
<1>4. x \in Nat
  BY <1>2, <1>3
<1>5. PICK y : y = (i - 1) * tamanioBloque + 1
  OBVIOUS
<1>6. y \in Int
  BY <1>3, <1>5
<1>7. PICK m : m = Min({x, Len(w)})
  OBVIOUS
<1>8. m \in Nat
  <2>1. \E k \in {x, Len(w)} : \A j \in {x, Len(w)} : k <= j
    BY <1>1, <1>4
  <2> QED BY <1>1, <1>4, <1>7, <2>1 DEF Min
<1>9. PICK n : n = IF y <= m THEN m - y + 1 ELSE 0
  OBVIOUS
<1>10. n \in Nat
  BY <1>6, <1>8, <1>9
<1>11. PICK S : \A k \in y..m : w[k] \in S
  <2>1. \A k \in y..m : w[k] \in {w[j] : j \in y..m}
    OBVIOUS
  <2> QED BY <2>1
<1>12. Len(SubSeq(w, y, m)) = n
  BY <1>6, <1>8, <1>9, <1>11, SubSeqProperties
<1> QED BY <1>2, <1>5, <1>7, <1>10, <1>12

LEMMA OtroBloqueBien ==
  ASSUME NEW z, NEW u, NEW c, TrazaFin(z, u, c), NEW a \in Archivos, NEW w, NEW C, w \in Seq(C), NEW i \in Nat,
         NEW f, f = Last(z), f.archivo[a].existe, Bloques \ f.bitmap # {}
  PROVE  /\ TrazaFin(OtroBloque(z, a, w, i), u, c)
         /\ Last(OtroBloque(z, a, w, i)).archivo[a].existe
         /\ \E b \in Bloques \ f.bitmap : Last(OtroBloque(z, a, w, i)).bitmap = f.bitmap \cup {b}
<1>1. Traza(z, u) /\ Fin(f, u, c) /\ Punto(f, u) /\ Formado(f) /\ Marcados(f) /\ (c => Exacta(f))
  BY DEF TrazaFin, Fin, Punto
<1>2. PICK b : b = Min(Bloques \ f.bitmap)
  OBVIOUS
<1>3. b \in Bloques \ f.bitmap /\ b \in Nat
  <2>1. Min(Bloques \ f.bitmap) \in Bloques \ f.bitmap
    BY PrimeroLibre
  <2> QED BY <1>2, <2>1, BloquesNat
<1>4. Suelto(f, b)
  BY <1>1, <1>3 DEF Suelto, Marcados
<1>5. PICK t : t = SubSeq(w, (i - 1) * tamanioBloque + 1, Min({i * tamanioBloque, Len(w)}))
  OBVIOUS
<1>6. PICK B : B = f.bitmap \cup {b}
  OBVIOUS
<1>7. PICK g1 : g1 = [f EXCEPT !.bitmap = B]
  OBVIOUS
<1>8. Formado(g1) /\ g1.bitmap = B /\ g1.archivo = f.archivo
  BY ONLY <1>1, <1>7, TocaMarca
<1>9. PICK h1 : h1 = [g1 EXCEPT !.copia = Pegar(g1.copia, Dir(b), t)]
  OBVIOUS
<1>10. Queda(g1, h1) /\ h1.archivo = g1.archivo
  <2>1. g1 = [bitmap |-> g1.bitmap, cantidad |-> g1.cantidad, archivo |-> g1.archivo, disco |-> g1.disco,
              copia |-> g1.copia, vivo |-> g1.vivo, desborde |-> g1.desborde]
    BY <1>8 DEF Formado
  <2>2. Contenido(g1, h1)
    BY <1>9, <2>1 DEF Contenido
  <2> QED BY <1>8, <2>2, ContenidoQueda
<1>11. PICK m : m = IF i = cantidad_bloques(w) THEN Len(t) - 1 ELSE Len(t)
  OBVIOUS
<1>11a. m \in Int
  <2>1. Len(t) \in Nat
    BY <1>5, LargoTrozo
  <2> QED BY <1>11, <2>1
<1>12. PICK g2 : g2 = actualizarSize(h1, a, m)
  OBVIOUS
<1>13. PICK g3 : g3 = AgregarBloque(g2, a, b)
  OBVIOUS
<1>14. OtroBloque(z, a, w, i) = z \o <<g1, g2, g3>> \o Contado(g3, a)
  BY <1>2, <1>5, <1>6, <1>7, <1>9, <1>11, <1>12, <1>13 DEF OtroBloque
<1> HIDE <1>2, <1>5, <1>7, <1>9, <1>11, <1>12, <1>13
<1>15. Punto(g1, u) /\ Suelto(g1, b) /\ \A x \in Archivos : Lista(g1, x) = Lista(f, x)
  BY <1>1, <1>3, <1>4, <1>6, <1>8, MarcarPunto
<1>16. Punto(h1, u) /\ Formado(h1)
  BY <1>10, <1>15, QuedaPunto DEF Queda
<1>17. Queda(h1, g2) /\ Punto(g2, u) /\ Formado(g2)
  <2>1. Queda(h1, g2)
    BY <1>11a, <1>12, <1>16, SizeQueda
  <2> QED BY <1>16, <2>1, QuedaPunto DEF Queda
<1>18. /\ g2.bitmap = B
       /\ \A x \in Archivos : /\ Lista(g2, x) = Lista(f, x) /\ g2.archivo[x].existe = f.archivo[x].existe
                              /\ g2.archivo[x].count = f.archivo[x].count
  BY <1>8, <1>10, <1>15, <1>17 DEF Queda
<1>19. /\ Toca(g2, g3, a) /\ Lista(g3, a) = Append(Lista(f, a), b)
       /\ g3.archivo[a].count = f.archivo[a].count /\ g3.archivo[a].existe
  BY <1>3, <1>13, <1>17, <1>18, AgregarToca
<1>20. Suelto(g2, b) /\ b \in g2.bitmap /\ g2.archivo[a].existe
  BY <1>4, <1>6, <1>18 DEF Suelto
<1>21. Punto(g3, u)
  BY <1>3, <1>17, <1>18, <1>19, <1>20, ListarPunto
<1>22. /\ g3.bitmap = f.bitmap \cup {b} /\ Formado(g3)
       /\ \A x \in Archivos \ {a} : Lista(g3, x) = Lista(f, x) /\ g3.archivo[x].count = f.archivo[x].count
  <2>1. g3.bitmap = B /\ Formado(g3)
    BY <1>18, <1>19 DEF Toca
  <2>2. ASSUME NEW x \in Archivos \ {a}
        PROVE  Lista(g3, x) = Lista(f, x) /\ g3.archivo[x].count = f.archivo[x].count
    <3>1. g3.archivo[x] = g2.archivo[x]
      BY <1>19 DEF Toca
    <3>2. Lista(g2, x) = Lista(f, x) /\ g2.archivo[x].count = f.archivo[x].count
      BY <1>18
    <3> QED BY <3>1, <3>2 DEF Lista
  <2> QED BY <1>6, <2>1, <2>2
<1>23. Marcados(g3)
  BY <1>1, <1>3, <1>19, <1>22, ListarMarcados
<1>24. Traza(z \o <<g1, g2, g3>>, u) /\ Last(z \o <<g1, g2, g3>>) = g3
  <2>1. Traza(<<g1, g2, g3>>, u) /\ Last(<<g1, g2, g3>>) = g3
    BY <1>15, <1>17, <1>21, TrazaTres
  <2> QED BY <1>1, <2>1, TrazaSigue
<1>25. CASE EsRecurso(a)
  <2>1. PICK g4 : g4 = actualizarBlockCount(g3, a, 1)
    OBVIOUS
  <2>2. /\ Toca(g3, g4, a) /\ Lista(g4, a) = Lista(g3, a)
        /\ g4.archivo[a].count = f.archivo[a].count + 1 /\ g4.archivo[a].existe
    BY <1>19, <1>22, <2>1, CuentaToca
  <2>3. /\ g4.bitmap = f.bitmap \cup {b} /\ Formado(g4)
        /\ \A x \in Archivos \ {a} : Lista(g4, x) = Lista(f, x) /\ g4.archivo[x].count = f.archivo[x].count
    <3>1. ASSUME NEW x \in Archivos \ {a}
          PROVE  Lista(g4, x) = Lista(f, x) /\ g4.archivo[x].count = f.archivo[x].count
      <4>1. g4.archivo[x] = g3.archivo[x]
        BY <2>2 DEF Toca
      <4> QED BY <1>22, <4>1 DEF Lista
    <3> QED BY <1>22, <2>2, <3>1 DEF Toca
  <2>4. c => Exacta(g4)
    BY <1>1, <1>3, <1>19, <2>2, <2>3, ListarExacta
  <2>5. Marcados(g4)
    BY <1>1, <1>3, <1>19, <2>2, <2>3, ListarMarcados
  <2>6. Punto(g4, u)
    BY <1>19, <1>21, <2>2, ContadoPunto
  <2>7. TrazaFin(<<g4>>, u, c) /\ Last(<<g4>>) = g4
    BY <2>4, <2>5, <2>6, FinUna, TrazaUna DEF Fin
  <2>8. OtroBloque(z, a, w, i) = z \o <<g1, g2, g3>> \o <<g4>>
    BY <1>14, <1>25, <2>1 DEF Contado
  <2>9. Traza(OtroBloque(z, a, w, i), u) /\ Last(OtroBloque(z, a, w, i)) = g4
    BY <1>24, <2>7, <2>8, TrazaSigue DEF TrazaFin
  <2> QED BY <1>3, <2>2, <2>3, <2>7, <2>9 DEF TrazaFin
<1>26. CASE ~EsRecurso(a)
  <2>1. z \o <<g1, g2, g3>> \o <<>> = z \o <<g1, g2, g3>>
    <3>1. PICK S : z \o <<g1, g2, g3>> \in Seq(S)
      BY <1>24 DEF Traza
    <3> QED BY <3>1, ConcatEmptySeq
  <2>2. OtroBloque(z, a, w, i) = z \o <<g1, g2, g3>>
    BY <1>14, <1>26, <2>1 DEF Contado
  <2>3. c => Exacta(g3)
    BY <1>1, <1>3, <1>19, <1>22, <1>26, ListarExacta
  <2> QED BY <1>3, <1>19, <1>21, <1>22, <1>23, <1>24, <2>2, <2>3 DEF TrazaFin, Fin
<1> QED BY <1>25, <1>26

LEMMA GuardarPorBloqueBien ==
  ASSUME NEW f, NEW u, NEW c, Fin(f, u, c), NEW a \in Archivos, f.archivo[a].existe,
         NEW w, NEW C, w \in Seq(C), cantidad_bloques(w) \in 1..Cardinality(Bloques \ f.bitmap)
  PROVE  TrazaFin(guardarPorBloque(f, a, w), u, c)
<1>1. PICK n : n = cantidad_bloques(w)
  OBVIOUS
<1>2. PICK s : s = [i \in 1..n |-> i]
  OBVIOUS
<1>3. PICK libres : libres = Cardinality(Bloques \ f.bitmap)
  OBVIOUS
<1>4. IsFiniteSet(Bloques \ f.bitmap) /\ libres \in Nat /\ n \in 1..libres /\ n \in Nat
  <2>1. IsFiniteSet(Bloques \ f.bitmap)
    BY BloquesNat, FS_Subset
  <2>2. libres \in Nat
    BY <1>3, <2>1, FS_CardinalityType
  <2> QED BY <1>1, <1>3, <2>1, <2>2
<1>5. Len(s) = n /\ DOMAIN s = 1..Len(s) /\ \A i \in 1..n : s[i] = i
  BY <1>2, <1>4
<1>a. PICK b0 : b0 = <<f>>
  OBVIOUS
<1>b. Len(s) \in Nat /\ DOMAIN s = 1..Len(s)
  BY <1>4, <1>5
<1>6. \E z : Cadena(z, "otro", <<a, w>>, b0, s) /\ DeAUno(a, w, b0, s) = z[Len(s)]
  BY <1>b, PliegaOtro
<1>7. guardarPorBloque(f, a, w) = DeAUno(a, w, b0, s)
  BY <1>1, <1>2, <1>a DEF guardarPorBloque, DeAUno
<1>c. PICK z : Cadena(z, "otro", <<a, w>>, b0, s) /\ guardarPorBloque(f, a, w) = z[n]
  BY <1>5, <1>6, <1>7
<1>8. z[0] = <<f>> /\ \A k \in 1..n : z[k] = OtroBloque(z[k - 1], a, w, s[k])
  <2>1. \A y, x : Paso("otro", <<a, w>>, y, x) = OtroBloque(y, a, w, x)
    BY DEF Paso
  <2> QED BY <1>5, <1>a, <1>c, <2>1 DEF Cadena
<1> DEFINE Bien(k) == /\ TrazaFin(z[k], u, c) /\ Last(z[k]).archivo[a].existe
                      /\ IsFiniteSet(Bloques \ Last(z[k]).bitmap)
                      /\ Cardinality(Bloques \ Last(z[k]).bitmap) = libres - k
           G == {k \in 0..n : Bien(k)}
<1>9. 0 \in G
  <2>1. TrazaFin(z[0], u, c) /\ Last(z[0]) = f
    BY <1>8, FinUna, TrazaUna DEF Fin
  <2>2. libres - 0 = libres /\ 0 \in 0..n
    BY <1>4
  <2>3. Bien(0)
    BY <1>3, <1>4, <2>1, <2>2
  <2> QED BY <2>2, <2>3
<1>10. ASSUME NEW k \in 0..(n - 1), k \in G PROVE k + 1 \in G
  <2>1. Bien(k) /\ k + 1 \in 1..n /\ k + 1 \in 0..n /\ k + 1 - 1 = k /\ libres - k > 0
    BY <1>4, <1>10
  <2>2. PICK y : y = z[k]
    OBVIOUS
  <2>3. PICK h : h = Last(y)
    OBVIOUS
  <2>4. z[k + 1] = OtroBloque(y, a, w, s[k + 1])
    BY <1>8, <2>1, <2>2
  <2>5. /\ TrazaFin(y, u, c) /\ h.archivo[a].existe /\ IsFiniteSet(Bloques \ h.bitmap)
        /\ Cardinality(Bloques \ h.bitmap) = libres - k
    BY <2>1, <2>2, <2>3
  <2> HIDE DEF Bien, G
  <2>6. Bloques \ h.bitmap # {}
    BY <2>1, <2>5, FS_EmptySet
  <2>7. PICK x : x = OtroBloque(y, a, w, s[k + 1])
    OBVIOUS
  <2>8. /\ TrazaFin(x, u, c) /\ Last(x).archivo[a].existe
        /\ \E b \in Bloques \ h.bitmap : Last(x).bitmap = h.bitmap \cup {b}
    <3>1. s[k + 1] \in Nat
      BY <1>5, <2>1
    <3> QED BY <2>3, <2>5, <2>6, <2>7, <3>1, OtroBloqueBien
  <2>9. PICK b \in Bloques \ h.bitmap : Last(x).bitmap = h.bitmap \cup {b}
    BY <2>8
  <2>10. Bloques \ Last(x).bitmap = (Bloques \ h.bitmap) \ {b}
    BY <2>9
  <2>11. /\ IsFiniteSet(Bloques \ Last(x).bitmap)
         /\ Cardinality(Bloques \ Last(x).bitmap) = libres - k - 1
    <3>1. PICK S : S = Bloques \ h.bitmap
      OBVIOUS
    <3>2. IsFiniteSet(S \ {b}) /\ Cardinality(S \ {b}) = Cardinality(S) - 1
      BY <2>5, <2>9, <3>1, FS_RemoveElement
    <3> QED BY <2>5, <2>10, <3>1, <3>2
  <2>12. libres - k - 1 = libres - (k + 1)
    BY <1>4
  <2>13. Bien(k + 1)
    BY <2>4, <2>7, <2>8, <2>11, <2>12 DEF Bien
  <2> QED BY <2>1, <2>13 DEF G
<1> HIDE DEF Bien, G
<1>11. n \in G
  <2>1. \A k \in 0..n : k \in G
    BY ONLY <1>4, <1>9, <1>10, PorPasos
  <2> QED BY <1>4, <2>1
<1> QED BY <1>c, <1>11 DEF G, Bien

(* The ways in which what is stored is written. *)
EnElUltimoBloque(f, a, p, t, n) ==
  actualizarSize([f EXCEPT !.copia = Pegar(@, Dir(Last(f.archivo[a].blocks)) + p, t),
                           !.desborde = @ \/ p + Len(t) > tamanioBloque], a, n)
EnOtrosBloques(f, g, a, t) ==
  IF validarBitsLibre(f, cantidad_bloques(t)) THEN guardarPorBloque(g, a, t) ELSE <<Morir(f)>>
ConElMD5(a, z) == IF EsRecurso(a) THEN Luego(z, LAMBDA g : <<setearMD5(g, a)>>) ELSE z
LEMMA FormasDeGuardar ==
  ASSUME NEW f, Formado(f), NEW a \in Archivos, NEW C, NEW s \in Seq(C)
  PROVE  LET z == guardarEnBlocks(f, a, s)
         IN  \/ z = <<Morir(f)>> \/ z = ConElMD5(a, EnOtrosBloques(f, f, a, s))
             \/ \E n \in Int : \E p, t : z = ConElMD5(a, <<EnElUltimoBloque(f, a, p, t, n)>>)
             \/ \E n \in Int, x \in Seq(C) : \E p, t :
                  z = ConElMD5(a, EnOtrosBloques(f, EnElUltimoBloque(f, a, p, t, n), a, x))
<1> DEFINE m == f.archivo[a]
           c == Len(m.blocks)
           faltante == c * tamanioBloque - (IF EsRecurso(a) THEN m.size ELSE m.size + 1)
           posicion == tamanioBloque - (IF EsRecurso(a) THEN faltante % tamanioBloque ELSE faltante)
           todo == IF EsRecurso(a) THEN Len(s) - 1 ELSE Len(s)
           parte == IF EsRecurso(a) THEN faltante ELSE faltante + 1
           z1 == ConElMD5(a, EnOtrosBloques(f, f, a, s))
           z2 == ConElMD5(a, <<EnElUltimoBloque(f, a, posicion, s, todo)>>)
           z3 == ConElMD5(a, EnOtrosBloques(f, EnElUltimoBloque(f, a, posicion, SubSeq(s, 1, faltante), parte), a,
                                            SubSeq(s, faltante + 1, Len(s))))
<1>1. guardarEnBlocks(f, a, s) =
        IF m.size = 0 THEN z1 ELSE
        IF c = 0 \/ faltante < 0 THEN <<Morir(f)>> ELSE IF faltante >= Len(s) THEN z2 ELSE z3
  BY Zenon DEF guardarEnBlocks, ConElMD5, EnOtrosBloques, EnElUltimoBloque
<1>a. Len(s) \in Nat /\ faltante \in Int /\ todo \in Int /\ parte \in Int
  <2>1. c \in Nat
    BY ListaTipo DEF Lista
  <2>2. tamanioBloque \in Nat
    BY SistemaOK
  <2> DEFINE ct == c * tamanioBloque
  <2>3. ct \in Nat
    BY <2>1, <2>2
  <2>4. m.size \in Int
    BY DEF Formado, EsMetadata
  <2>5. Len(s) \in Nat
    BY LenProperties
  <2>6. faltante = ct - (IF EsRecurso(a) THEN m.size ELSE m.size + 1)
    OBVIOUS
  <2> HIDE DEF ct, m, faltante
  <2> QED BY <2>3, <2>4, <2>5, <2>6
<1>b. PICK p0, t0, t1 : p0 = posicion /\ t0 = s /\ t1 = SubSeq(s, 1, faltante)
  OBVIOUS
<1>c. PICK x1 : x1 = SubSeq(s, faltante + 1, Len(s))
  OBVIOUS
<1>d. PICK n0, n1 : n0 = todo /\ n1 = parte
  OBVIOUS
<1>2. z2 = ConElMD5(a, <<EnElUltimoBloque(f, a, p0, t0, n0)>>)
  BY <1>b, <1>d
<1>3. z3 = ConElMD5(a, EnOtrosBloques(f, EnElUltimoBloque(f, a, p0, t1, n1), a, x1))
  BY <1>b, <1>c, <1>d
<1>e. ~(faltante < 0) => x1 \in Seq(C)
  <2> SUFFICES ASSUME ~(faltante < 0) PROVE x1 \in Seq(C)
    OBVIOUS
  <2> HIDE DEF faltante
  <2>1. \A i \in (faltante + 1)..Len(s) : s[i] \in C
    <3> SUFFICES ASSUME NEW i \in (faltante + 1)..Len(s) PROVE s[i] \in C
      OBVIOUS
    <3>1. i \in 1..Len(s)
      BY <1>a
    <3> QED BY <3>1, ElementOfSeq
  <2>2. faltante + 1 \in Int /\ Len(s) \in Int
    BY <1>a
  <2> QED BY <1>c, <2>1, <2>2, SubSeqProperties
<1>f. n0 \in Int /\ n1 \in Int
  BY <1>a, <1>d
<1>5. z1 = ConElMD5(a, EnOtrosBloques(f, f, a, s))
  OBVIOUS
<1> HIDE DEF m, c, faltante, posicion, todo, parte, z1, z2, z3
<1>4. \/ guardarEnBlocks(f, a, s) = z1 \/ guardarEnBlocks(f, a, s) = <<Morir(f)>>
      \/ guardarEnBlocks(f, a, s) = z2
      \/ (x1 \in Seq(C) /\ guardarEnBlocks(f, a, s) = z3)
  <2>1. CASE m.size = 0
    BY <1>1, <2>1, Zenon
  <2>2. CASE m.size # 0 /\ (c = 0 \/ faltante < 0)
    BY <1>1, <2>2, Zenon
  <2>3. CASE m.size # 0 /\ ~(c = 0 \/ faltante < 0)
    <3>1. x1 \in Seq(C)
      BY <1>e, <2>3, Zenon
    <3>2. guardarEnBlocks(f, a, s) = IF faltante >= Len(s) THEN z2 ELSE z3
      BY <1>1, <2>3, Zenon
    <3> QED BY <3>1, <3>2, Zenon
  <2> QED BY <2>1, <2>2, <2>3, Zenon
<1> QED BY <1>2, <1>3, <1>4, <1>5, <1>f

LEMMA UltimoQueda ==
  ASSUME NEW f, Formado(f), NEW a \in Archivos, NEW p, NEW t, NEW n \in Int
  PROVE  /\ Queda(f, EnElUltimoBloque(f, a, p, t, n))
         /\ Formado(EnElUltimoBloque(f, a, p, t, n))
<1>1. PICK copia : copia = Pegar(f.copia, Dir(Last(f.archivo[a].blocks)) + p, t)
  OBVIOUS
<1>2. PICK d : d = (f.desborde \/ p + Len(t) > tamanioBloque)
  OBVIOUS
<1>3. PICK g : g = [f EXCEPT !.copia = copia, !.desborde = d]
  OBVIOUS
<1>4. EnElUltimoBloque(f, a, p, t, n) = actualizarSize(g, a, n)
  BY <1>1, <1>2, <1>3 DEF EnElUltimoBloque
<1> HIDE <1>1, <1>2
<1>5. f = [bitmap |-> f.bitmap, cantidad |-> f.cantidad, archivo |-> f.archivo, disco |-> f.disco,
           copia |-> f.copia, vivo |-> f.vivo, desborde |-> f.desborde]
  BY DEF Formado
<1>6. Contenido(f, g)
  BY <1>3, <1>5 DEF Contenido
<1> HIDE <1>3
<1>7. Queda(f, g) /\ Formado(g)
  BY <1>6, ContenidoQueda DEF Queda
<1>8. PICK h : h = actualizarSize(g, a, n)
  OBVIOUS
<1>9. Queda(g, h)
  BY <1>7, <1>8, SizeQueda
<1>10. Queda(f, h)
  BY <1>7, <1>9 DEF Queda
<1> QED BY <1>4, <1>8, <1>10 DEF Queda

LEMMA MorirFin ==
  ASSUME NEW f, NEW u, NEW c, Fin(f, u, c)
  PROVE  TrazaFin(<<Morir(f)>>, u, c)
<1>1. Formado(f)
  BY DEF Fin, Punto
<1>2. Fin(Morir(f), u, c)
  BY <1>1, MorirQueda, QuedaFin
<1> QED BY <1>2, FinUna

LEMMA EnOtrosBien ==
  ASSUME NEW f, NEW u, NEW c, Fin(f, u, c), NEW g, Fin(g, u, c), g.bitmap = f.bitmap,
         NEW a \in Archivos, g.archivo[a].existe, NEW t, NEW C, t \in Seq(C)
  PROVE  TrazaFin(EnOtrosBloques(f, g, a, t), u, c)
<1>1. CASE validarBitsLibre(f, cantidad_bloques(t))
  <2>1. cantidad_bloques(t) \in 1..Cardinality(Bloques \ g.bitmap)
    BY <1>1 DEF validarBitsLibre
  <2>2. TrazaFin(guardarPorBloque(g, a, t), u, c)
    BY <2>1, GuardarPorBloqueBien
  <2> QED BY <1>1, <2>2 DEF EnOtrosBloques
<1>2. CASE ~validarBitsLibre(f, cantidad_bloques(t))
  BY <1>2, MorirFin DEF EnOtrosBloques
<1> QED BY <1>1, <1>2

LEMMA ConElMD5Bien ==
  ASSUME NEW z, NEW u, NEW c, TrazaFin(z, u, c), NEW a \in Archivos
  PROVE  TrazaFin(ConElMD5(a, z), u, c)
BY FinConMD5 DEF ConElMD5

LEMMA GuardarEnBlocksBien ==
  ASSUME NEW f, NEW u, NEW c, Fin(f, u, c), NEW a \in Archivos, f.archivo[a].existe, NEW C, NEW s \in Seq(C)
  PROVE  TrazaFin(guardarEnBlocks(f, a, s), u, c)
<1>1. Formado(f)
  BY DEF Fin, Punto
<1>2. PICK z : z = guardarEnBlocks(f, a, s)
  OBVIOUS
<1>3. \/ z = <<Morir(f)>> \/ z = ConElMD5(a, EnOtrosBloques(f, f, a, s))
      \/ \E n \in Int : \E p, t : z = ConElMD5(a, <<EnElUltimoBloque(f, a, p, t, n)>>)
      \/ \E n \in Int, x \in Seq(C) : \E p, t :
           z = ConElMD5(a, EnOtrosBloques(f, EnElUltimoBloque(f, a, p, t, n), a, x))
  BY <1>1, <1>2, FormasDeGuardar
<1>4. CASE z = <<Morir(f)>>
  BY <1>2, <1>4, MorirFin
<1>5. CASE z = ConElMD5(a, EnOtrosBloques(f, f, a, s))
  <2>1. TrazaFin(EnOtrosBloques(f, f, a, s), u, c)
    BY EnOtrosBien
  <2> QED BY <1>2, <1>5, <2>1, ConElMD5Bien
<1>6. ASSUME NEW n \in Int, NEW p, NEW t
      PROVE  LET g == EnElUltimoBloque(f, a, p, t, n)
             IN  Fin(g, u, c) /\ g.bitmap = f.bitmap /\ g.archivo[a].existe
  <2>1. PICK g : g = EnElUltimoBloque(f, a, p, t, n)
    OBVIOUS
  <2>2. Queda(f, g)
    BY <1>1, <2>1, UltimoQueda
  <2>3. Fin(g, u, c)
    BY <2>2, QuedaFin
  <2>4. g.bitmap = f.bitmap /\ g.archivo[a].existe
    BY <2>2 DEF Queda
  <2> QED BY <2>1, <2>3, <2>4
<1>7. CASE \E n \in Int : \E p, t : z = ConElMD5(a, <<EnElUltimoBloque(f, a, p, t, n)>>)
  <2>1. PICK n \in Int : \E p, t : z = ConElMD5(a, <<EnElUltimoBloque(f, a, p, t, n)>>)
    BY <1>7
  <2>2. PICK p, t : z = ConElMD5(a, <<EnElUltimoBloque(f, a, p, t, n)>>)
    BY <2>1
  <2>3. PICK g : g = EnElUltimoBloque(f, a, p, t, n)
    OBVIOUS
  <2>4. TrazaFin(<<g>>, u, c)
    BY <1>6, <2>3, FinUna
  <2>5. TrazaFin(ConElMD5(a, <<g>>), u, c)
    BY <2>4, ConElMD5Bien
  <2> QED BY <1>2, <2>2, <2>3, <2>5
<1>8. CASE \E n \in Int, x \in Seq(C) : \E p, t :
             z = ConElMD5(a, EnOtrosBloques(f, EnElUltimoBloque(f, a, p, t, n), a, x))
  <2>1. PICK n \in Int, x \in Seq(C) : \E p, t :
             z = ConElMD5(a, EnOtrosBloques(f, EnElUltimoBloque(f, a, p, t, n), a, x))
    BY <1>8
  <2>2. PICK p, t : z = ConElMD5(a, EnOtrosBloques(f, EnElUltimoBloque(f, a, p, t, n), a, x))
    BY <2>1
  <2>3. PICK g : g = EnElUltimoBloque(f, a, p, t, n)
    OBVIOUS
  <2>4. Fin(g, u, c) /\ g.bitmap = f.bitmap /\ g.archivo[a].existe
    BY <1>6, <2>3
  <2>5. TrazaFin(EnOtrosBloques(f, g, a, x), u, c)
    BY <2>4, EnOtrosBien
  <2>6. TrazaFin(ConElMD5(a, EnOtrosBloques(f, g, a, x)), u, c)
    BY <2>5, ConElMD5Bien
  <2> QED BY <1>2, <2>2, <2>3, <2>6
<1> QED BY <1>3, <1>4, <1>5, <1>7, <1>8

-----------------------------------------------------------------------------
(* Erasing *)

(* The bits of blocks of a resource are cleared. *)
Borra(f, g, a, B) == /\ Formado(g) /\ g.bitmap = f.bitmap \ B /\ g.archivo = f.archivo
                     /\ \A y \in B : \E i \in 1..Len(Lista(f, a)) : Lista(f, a)[i] = y
LEMMA BorrarBitsPunto ==
  ASSUME NEW f, NEW u, Punto(f, u), NEW r \in Recursos, NEW a, a = File(r), NEW B, NEW g, Borra(f, g, a, B)
  PROVE  Punto(g, u) /\ \A x \in Archivos : Lista(g, x) = Lista(f, x)
<1> USE DEF Borra
<1>1. \A x \in Archivos : Lista(g, x) = Lista(f, x)
  BY DEF Lista
<1>2. a \in Archivos /\ EsRecurso(a)
  BY Nombres
<1>3. ASSUME NEW t \in Trips, NEW i \in 1..Len(Lista(g, Bitacora(t)))
      PROVE  Lista(g, Bitacora(t))[i] \in g.bitmap
  <2>1. Bitacora(t) \in Archivos /\ ~EsRecurso(Bitacora(t))
    BY Nombres
  <2>2. i \in 1..Len(Lista(f, Bitacora(t))) /\ Lista(g, Bitacora(t))[i] = Lista(f, Bitacora(t))[i]
    BY <1>1, <2>1
  <2>3. Lista(f, Bitacora(t))[i] \in f.bitmap
    BY <2>2 DEF Punto, EnBits
  <2>4. ASSUME Lista(f, Bitacora(t))[i] \in B PROVE FALSE
    <3>1. PICK j \in 1..Len(Lista(f, a)) : Lista(f, a)[j] = Lista(f, Bitacora(t))[i]
      BY <2>4
    <3>2. a = Bitacora(t)
      BY <1>2, <2>1, <2>2, <2>3, <3>1 DEF Punto, Unico
    <3> QED BY <1>2, <2>1, <3>2
  <2> QED BY <2>2, <2>3, <2>4
<1>4. Unico(g, g.bitmap) /\ (u => Unico(g, Nat))
  BY <1>1 DEF Punto, Unico
<1>5. \A t \in Trips : EnBits(g, Bitacora(t))
  BY <1>3 DEF EnBits
<1> QED BY <1>1, <1>4, <1>5 DEF Punto

(* What remains of the list, when the bits of the rest were cleared. *)
Achica(f, g, a, n, B, c) ==
  /\ n <= Len(Lista(f, a)) /\ Formado(g) /\ g.bitmap = f.bitmap \ B
  /\ \A y \in B : \E i \in 1..Len(Lista(f, a)) : i > n /\ Lista(f, a)[i] = y
  /\ \A x \in Archivos \ {a} : Lista(g, x) = Lista(f, x) /\ g.archivo[x].count = f.archivo[x].count
  /\ \A x \in Archivos : g.archivo[x].existe = f.archivo[x].existe
  /\ Len(Lista(g, a)) <= n /\ \A i \in 1..Len(Lista(g, a)) : Lista(g, a)[i] = Lista(f, a)[i]
  /\ c => /\ g.archivo[a].count = n /\ Len(Lista(g, a)) = n
          /\ \A i \in 1..Len(Lista(f, a)) : i > n => Lista(f, a)[i] \in B
LEMMA AchicarFin ==
  ASSUME NEW f, NEW u, NEW c, Fin(f, u, c), NEW r \in Recursos, NEW a, a = File(r), NEW n \in Nat, NEW B,
         NEW g, Achica(f, g, a, n, B, c)
  PROVE  Fin(g, u, c)
<1> USE DEF Achica
<1>1. a \in Archivos /\ EsRecurso(a) /\ Formado(f) /\ Punto(f, u) /\ Marcados(f) /\ (c => Exacta(f))
  BY Nombres DEF Fin, Punto
<1>2. PICK m : m = Len(Lista(f, a))
  OBVIOUS
<1>3. PICK k : k = Len(Lista(g, a))
  OBVIOUS
<1>4. m \in Nat /\ k \in Nat /\ n <= m /\ k <= n
  BY <1>1, <1>2, <1>3, ListaTipo
<1>5. ASSUME NEW x \in Archivos, NEW i \in 1..Len(Lista(g, x))
      PROVE  /\ i \in 1..Len(Lista(f, x)) /\ Lista(g, x)[i] = Lista(f, x)[i]
             /\ x = a => i <= n
  <2>1. CASE x # a
    BY <2>1
  <2>2. CASE x = a
    BY <1>2, <1>3, <1>4, <2>2
  <2> QED BY <2>1, <2>2
<1>6. ASSUME NEW x \in Archivos, NEW i \in 1..Len(Lista(g, x)), Lista(g, x)[i] \in f.bitmap
      PROVE  Lista(g, x)[i] \in g.bitmap
  <2> SUFFICES ASSUME Lista(g, x)[i] \in B PROVE FALSE
    BY <1>6
  <2>1. PICK j \in 1..Len(Lista(f, a)) : j > n /\ Lista(f, a)[j] = Lista(g, x)[i]
    OBVIOUS
  <2>2. i \in 1..Len(Lista(f, x)) /\ Lista(g, x)[i] = Lista(f, x)[i] /\ (x = a => i <= n)
    BY <1>5
  <2>3. a = x /\ j = i
    BY <1>1, <1>6, <2>1, <2>2 DEF Punto, Unico
  <2> QED BY <1>2, <1>4, <2>1, <2>2, <2>3
<1>7. ASSUME NEW S, Unico(f, S) PROVE Unico(g, S)
  BY <1>5, <1>7 DEF Unico
<1>8. Unico(g, g.bitmap) /\ (u => Unico(g, Nat))
  <2>1. Unico(g, f.bitmap) /\ (u => Unico(g, Nat))
    BY <1>1, <1>7 DEF Punto
  <2> QED BY <2>1 DEF Unico
<1>9. \A t \in Trips : EnBits(g, Bitacora(t))
  <2> SUFFICES ASSUME NEW t \in Trips, NEW i \in 1..Len(Lista(g, Bitacora(t)))
               PROVE  Lista(g, Bitacora(t))[i] \in g.bitmap
    BY DEF EnBits
  <2>1. Bitacora(t) \in Archivos /\ EnBits(f, Bitacora(t))
    BY <1>1, Nombres DEF Punto
  <2>2. Lista(g, Bitacora(t))[i] \in f.bitmap
    BY <1>5, <2>1 DEF EnBits
  <2> QED BY <1>6, <2>1, <2>2
<1>10. Marcados(g)
  <2> SUFFICES ASSUME NEW x \in Archivos, NEW i \in 1..Len(Lista(g, x)), Lista(g, x)[i] \in Bloques
               PROVE  Lista(g, x)[i] \in g.bitmap
    BY DEF Marcados
  <2>1. Lista(g, x)[i] \in f.bitmap
    BY <1>1, <1>5 DEF Marcados
  <2> QED BY <1>6, <2>1
<1>11. \A x \in Archivos : ~g.archivo[x].existe => Lista(g, x) = <<>>
  <2> SUFFICES ASSUME NEW x \in Archivos, ~g.archivo[x].existe PROVE Lista(g, x) = <<>>
    OBVIOUS
  <2>1. Lista(f, x) = <<>>
    BY <1>1 DEF Punto
  <2>2. CASE x # a
    BY <2>1, <2>2
  <2>3. CASE x = a
    <3>1. m = 0
      BY <1>2, <2>1, <2>3
    <3>2. Len(Lista(g, x)) = 0
      BY <1>3, <1>4, <2>3, <3>1
    <3> QED BY <3>2, ListaTipo, EmptySeq
  <2> QED BY <2>2, <2>3
<1>12. g.bitmap \subseteq Bloques
  BY <1>1 DEF Punto
<1>13. u => \A x \in Archivos : \A i \in 1..Len(Lista(g, x)) : Lista(g, x)[i] \in Bloques
  <2> SUFFICES ASSUME u, NEW x \in Archivos, NEW i \in 1..Len(Lista(g, x)) PROVE Lista(g, x)[i] \in Bloques
    OBVIOUS
  <2> QED BY <1>1, <1>5 DEF Punto
<1>14. ASSUME c PROVE Exacta(g)
  <2>1. Exacta(f)
    BY <1>1, <1>14
  <2>2. ASSUME NEW q \in Recursos PROVE g.archivo[File(q)].count = Len(Lista(g, File(q)))
    <3>1. File(q) \in Archivos
      BY Nombres
    <3> QED BY <1>14, <2>1, <3>1 DEF Exacta
  <2>3. ASSUME Residuos = {{}}, NEW y \in g.bitmap
        PROVE  \E x \in Archivos : \E i \in 1..Len(Lista(g, x)) : Lista(g, x)[i] = y
    <3>1. PICK x \in Archivos : \E i \in 1..Len(Lista(f, x)) : Lista(f, x)[i] = y
      BY <2>1, <2>3 DEF Exacta
    <3>2. PICK i \in 1..Len(Lista(f, x)) : Lista(f, x)[i] = y
      BY <3>1
    <3>3. CASE x # a
      BY <3>2, <3>3
    <3>4. CASE x = a
      <4>1. ~(i > n)
        BY <1>14, <2>3, <3>2, <3>4
      <4>2. i \in 1..Len(Lista(g, a))
        BY <1>2, <1>3, <1>4, <1>14, <3>2, <3>4, <4>1
      <4> QED BY <3>2, <3>4, <4>2
    <3> QED BY <3>3, <3>4
  <2> QED BY <2>2, <2>3 DEF Exacta
<1> QED BY <1>8, <1>9, <1>10, <1>11, <1>12, <1>13, <1>14 DEF Fin, Punto

LEMMA VaciarToca ==
  ASSUME NEW f, Formado(f), NEW a \in Archivos, NEW g,
         g = [f EXCEPT !.archivo[a].count = 0, !.archivo[a].blocks = <<>>]
  PROVE  Toca(f, g, a) /\ Lista(g, a) = <<>> /\ g.archivo[a].count = 0
         /\ g.archivo[a].existe = f.archivo[a].existe
<1>1. PICK m : m = [f.archivo[a] EXCEPT !.count = 0, !.blocks = <<>>]
  OBVIOUS
<1>2. f.archivo = [x \in Archivos |-> f.archivo[x]] /\ EsMetadata(f.archivo[a])
  BY DEF Formado
<1>3. Cambia(f, g, a, m)
  <2>1. g = [f EXCEPT !.archivo = [f.archivo EXCEPT ![a] = m]]
    BY <1>1, <1>2
  <2> QED BY <2>1 DEF Cambia
<1>4. m = [existe |-> f.archivo[a].existe, size |-> f.archivo[a].size, count |-> 0, blocks |-> <<>>,
           md5 |-> f.archivo[a].md5]
  BY <1>1, <1>2 DEF EsMetadata
<1>5. EsMetadata(m) /\ m.blocks = <<>> /\ m.count = 0 /\ m.existe = f.archivo[a].existe
  BY <1>2, <1>4 DEF EsMetadata
<1>6. Formado(f) /\ a \in Archivos
  OBVIOUS
<1>7. Toca(f, g, a) /\ g.archivo[a] = m
  BY ONLY <1>3, <1>5, <1>6, TocaArchivo
<1> QED BY ONLY <1>5, <1>7 DEF Lista

LEMMA SinSizeQueda ==
  ASSUME NEW f, Formado(f), NEW a \in Archivos, NEW g, g = [f EXCEPT !.archivo[a].size = 0]
  PROVE  Queda(f, g)
<1>1. PICK m : m = [f.archivo[a] EXCEPT !.size = 0]
  OBVIOUS
<1>2. Cambia(f, g, a, m)
  BY <1>1 DEF Cambia
<1>3. EsMetadata(f.archivo[a])
  BY DEF Formado
<1>4. /\ EsMetadata(m) /\ m.blocks = f.archivo[a].blocks /\ m.count = f.archivo[a].count
      /\ m.existe = f.archivo[a].existe
  BY <1>1, <1>3 DEF EsMetadata
<1> QED BY <1>2, <1>4, CambiaQueda

LEMMA BorrarTodoBien ==
  ASSUME NEW f, NEW u, NEW c, Fin(f, u, c), NEW r \in Recursos, NEW a, a = File(r)
  PROVE  TrazaFin(BorrarTodo(f, a), u, c) /\ Lista(Last(BorrarTodo(f, a)), a) = <<>>
<1>1. a \in Archivos /\ EsRecurso(a) /\ Formado(f) /\ Punto(f, u)
  BY Nombres DEF Fin, Punto
<1>2. PICK B : B = ToSet(f.archivo[a].blocks)
  OBVIOUS
<1>3. \A y : y \in B <=> \E i \in 1..Len(Lista(f, a)) : Lista(f, a)[i] = y
  <2>1. DOMAIN Lista(f, a) = 1..Len(Lista(f, a))
    BY <1>1, ListaTipo, LenProperties
  <2> QED BY <1>2, <2>1 DEF ToSet, Lista
<1>4. PICK C : C = f.bitmap \ B
  OBVIOUS
<1>5. PICK g1 : g1 = [f EXCEPT !.bitmap = C]
  OBVIOUS
<1>6. PICK g2 : g2 = [g1 EXCEPT !.archivo[a].size = 0]
  OBVIOUS
<1>7. PICK g3 : g3 = [g2 EXCEPT !.archivo[a].count = 0, !.archivo[a].blocks = <<>>]
  OBVIOUS
<1>8. PICK g4 : g4 = setearMD5(g3, a)
  OBVIOUS
<1>9. BorrarTodo(f, a) = <<g1, g2, g3, g4>>
  BY <1>2, <1>4, <1>5, <1>6, <1>7, <1>8 DEF BorrarTodo
<1>10. Formado(g1) /\ g1.bitmap = C /\ g1.archivo = f.archivo
  BY ONLY <1>1, <1>5, TocaMarca
<1>11. Formado(g2) /\ Queda(g1, g2)
  BY ONLY <1>1, <1>6, <1>10, SinSizeQueda DEF Queda
<1>12. Formado(g3) /\ Toca(g2, g3, a) /\ Lista(g3, a) = <<>> /\ g3.archivo[a].count = 0
       /\ g3.archivo[a].existe = g2.archivo[a].existe
  <2>1. Toca(g2, g3, a) /\ Lista(g3, a) = <<>> /\ g3.archivo[a].count = 0
        /\ g3.archivo[a].existe = g2.archivo[a].existe
    BY ONLY <1>1, <1>7, <1>11, VaciarToca, Zenon
  <2> QED BY ONLY <2>1 DEF Toca
<1> HIDE <1>2, <1>5, <1>6, <1>7
<1>13. Punto(g1, u) /\ \A x \in Archivos : Lista(g1, x) = Lista(f, x)
  <2>1. \A y \in B : \E i \in 1..Len(Lista(f, a)) : Lista(f, a)[i] = y
    BY <1>3
  <2>2. Borra(f, g1, a, B)
    BY <1>4, <1>10, <2>1 DEF Borra
  <2> QED BY <1>1, <2>2, BorrarBitsPunto
<1>14. Punto(g2, u)
  BY <1>11, <1>13, QuedaPunto
<1>15. g3.bitmap = f.bitmap \ B
  BY <1>4, <1>10, <1>11, <1>12 DEF Queda, Toca
<1>16. \A x \in Archivos \ {a} : Lista(g3, x) = Lista(f, x) /\ g3.archivo[x].count = f.archivo[x].count
  <2> SUFFICES ASSUME NEW x \in Archivos \ {a}
               PROVE  Lista(g3, x) = Lista(f, x) /\ g3.archivo[x].count = f.archivo[x].count
    OBVIOUS
  <2>1. g3.archivo[x] = g2.archivo[x]
    BY <1>12 DEF Toca
  <2>2. Lista(g2, x) = Lista(g1, x) /\ g2.archivo[x].count = g1.archivo[x].count
    BY <1>11 DEF Queda
  <2> QED BY <1>10, <1>13, <2>1, <2>2 DEF Lista
<1>17. \A x \in Archivos : g3.archivo[x].existe = f.archivo[x].existe
  <2> SUFFICES ASSUME NEW x \in Archivos PROVE g3.archivo[x].existe = f.archivo[x].existe
    OBVIOUS
  <2>1. g2.archivo[x].existe = f.archivo[x].existe
    BY <1>10, <1>11 DEF Queda
  <2>2. g3.archivo[x].existe = g2.archivo[x].existe
    BY <1>12 DEF Toca
  <2> QED BY <2>1, <2>2
<1>18. Len(Lista(g3, a)) = 0
  BY <1>12
<1>19. 0 \in Nat /\ 0 <= Len(Lista(f, a)) /\ \A i \in 1..Len(Lista(f, a)) : i > 0
  BY <1>1, ListaTipo
<1>20. Fin(g3, u, c)
  <2>0. PICK n \in Nat : n = 0
    BY <1>19
  <2>1. \A y \in B : \E i \in 1..Len(Lista(f, a)) : i > n /\ Lista(f, a)[i] = y
    BY <1>3, <1>19, <2>0
  <2>2. n <= Len(Lista(f, a))
    BY <1>19, <2>0
  <2>3. /\ Len(Lista(g3, a)) <= n
        /\ \A i \in 1..Len(Lista(g3, a)) : Lista(g3, a)[i] = Lista(f, a)[i]
    BY <1>18, <2>0
  <2>4. c => /\ g3.archivo[a].count = n /\ Len(Lista(g3, a)) = n
             /\ \A i \in 1..Len(Lista(f, a)) : i > n => Lista(f, a)[i] \in B
    BY <1>3, <1>12, <1>18, <2>0
  <2>5. Formado(g3)
    BY <1>12
  <2>6. Achica(f, g3, a, n, B, c)
    BY ONLY <1>15, <1>16, <1>17, <2>1, <2>2, <2>3, <2>4, <2>5 DEF Achica
  <2> QED BY <2>6, AchicarFin
<1>21. Fin(g4, u, c)
  BY <1>1, <1>8, <1>12, <1>20, MD5Queda, QuedaFin
<1>22. Traza(<<g1, g2, g3, g4>>, u) /\ Last(<<g1, g2, g3, g4>>) = g4
  BY <1>13, <1>14, <1>20, <1>21, TrazaCuatro DEF Fin
<1>23. Lista(g4, a) = <<>>
  <2>1. Queda(g3, g4)
    BY <1>1, <1>8, <1>12, MD5Queda
  <2> QED BY <1>1, <1>12, <2>1 DEF Queda
<1> QED BY <1>9, <1>21, <1>22, <1>23 DEF TrazaFin

Cuenta(acc, u, c) == /\ acc = [traza |-> acc.traza, resta |-> acc.resta]
                     /\ acc.resta \in Int /\ TrazaFin(acc.traza, u, c)

(* The last block of the list is taken off: its bit, SIZE, the count and    *)
(* the list, in that order.                                                 *)
LEMMA SacarUltimo ==
  ASSUME NEW f, NEW u, NEW c, Fin(f, u, c), NEW r \in Recursos, NEW a, a = File(r), Lista(f, a) # <<>>,
         NEW bl, bl = Last(f.archivo[a].blocks), NEW p \in Int,
         NEW g1, g1 = [f EXCEPT !.bitmap = f.bitmap \ {bl}],
         NEW g2, g2 = actualizarSize(g1, a, -p), NEW g3, g3 = actualizarBlockCount(g2, a, -1),
         NEW g4, g4 = QuitarBloque(g3, a)
  PROVE  TrazaFin(<<g1, g2, g3, g4>>, u, c)
<1>1. a \in Archivos /\ EsRecurso(a) /\ Formado(f) /\ Punto(f, u)
  BY Nombres DEF Fin, Punto
<1>2. PICK C : C = f.bitmap \ {bl}
  OBVIOUS
<1>3. g1 = [f EXCEPT !.bitmap = C]
  BY <1>2
<1>4. Formado(g1) /\ g1.bitmap = C /\ g1.archivo = f.archivo
  BY ONLY <1>1, <1>3, TocaMarca
<1>5. -p \in Int /\ -1 \in Int /\ g2 = actualizarSize(g1, a, -p) /\ g3 = actualizarBlockCount(g2, a, -1)
      /\ g4 = QuitarBloque(g3, a)
  OBVIOUS
<1>6. Queda(g1, g2) /\ Formado(g2)
  <2>1. PICK q : q = -p
    OBVIOUS
  <2>2. q \in Int /\ g2 = actualizarSize(g1, a, q)
    BY ONLY <1>5, <2>1
  <2>3. Queda(g1, g2)
    BY ONLY <1>1, <1>4, <2>2, SizeQueda
  <2> QED BY ONLY <2>3 DEF Queda
<1>7. /\ Toca(g2, g3, a) /\ Lista(g3, a) = Lista(g2, a) /\ Formado(g3)
      /\ g3.archivo[a].count = g2.archivo[a].count - 1 /\ g3.archivo[a].existe = g2.archivo[a].existe
  <2>1. PICK q : q = -1
    OBVIOUS
  <2>2. q \in Int /\ g3 = actualizarBlockCount(g2, a, q)
    BY ONLY <1>5, <2>1
  <2>3. /\ Toca(g2, g3, a) /\ Lista(g3, a) = Lista(g2, a)
        /\ g3.archivo[a].count = g2.archivo[a].count + q /\ g3.archivo[a].existe = g2.archivo[a].existe
    BY ONLY <1>1, <1>6, <2>2, CuentaToca
  <2>4. g2.archivo[a].count \in Int
    BY ONLY <1>1, <1>6 DEF Formado, EsMetadata
  <2>5. Formado(g3)
    BY ONLY <2>3 DEF Toca
  <2>6. g2.archivo[a].count + q = g2.archivo[a].count - 1
    BY ONLY <2>1, <2>4
  <2> QED BY ONLY <2>3, <2>5, <2>6
<1>8. /\ Lista(g2, a) = Lista(f, a) /\ g2.archivo[a].count = f.archivo[a].count
      /\ \A x \in Archivos : /\ Lista(g2, x) = Lista(f, x) /\ g2.archivo[x].count = f.archivo[x].count
                             /\ g2.archivo[x].existe = f.archivo[x].existe
  BY ONLY <1>1, <1>4, <1>6 DEF Queda, Lista
<1>9. Lista(g3, a) # <<>> /\ Lista(g3, a) = Lista(f, a) /\ g3.archivo[a].count = f.archivo[a].count - 1
  BY <1>7, <1>8
<1>10. /\ Toca(g3, g4, a) /\ Formado(g4) /\ g4.archivo[a].count = f.archivo[a].count - 1
       /\ g4.archivo[a].existe = g3.archivo[a].existe
       /\ Lista(g4, a) = IF f.archivo[a].count - 1 = 0 THEN <<>> ELSE Front(Lista(f, a))
  <2>1. /\ Toca(g3, g4, a) /\ g4.archivo[a].count = g3.archivo[a].count
        /\ g4.archivo[a].existe = g3.archivo[a].existe
        /\ Lista(g4, a) = IF g3.archivo[a].count = 0 THEN <<>> ELSE Front(Lista(g3, a))
    BY ONLY <1>1, <1>5, <1>7, <1>9, QuitarToca
  <2>2. Formado(g4)
    BY ONLY <2>1 DEF Toca
  <2> QED BY ONLY <1>9, <2>1, <2>2
<1>11. PICK m : m = Len(Lista(f, a))
  OBVIOUS
<1>12. m \in Nat /\ m >= 1 /\ bl = Lista(f, a)[m]
  <2>1. m \in Nat /\ Lista(f, a) \in Seq(Nat)
    BY <1>1, <1>11, ListaTipo
  <2>2. m # 0
    BY <1>11, <2>1, EmptySeq
  <2>3. bl = Lista(f, a)[m]
    BY <1>11 DEF Last, Lista
  <2> QED BY <2>1, <2>2, <2>3
<1>13. Punto(g1, u)
  <2>1. \A y \in {bl} : \E i \in 1..Len(Lista(f, a)) : Lista(f, a)[i] = y
    BY <1>11, <1>12
  <2>2. PICK B : B = {bl}
    OBVIOUS
  <2>3. g1.bitmap = f.bitmap \ B /\ \A y \in B : \E i \in 1..Len(Lista(f, a)) : Lista(f, a)[i] = y
    BY ONLY <1>2, <1>4, <2>1, <2>2
  <2>4. Formado(g1) /\ g1.archivo = f.archivo /\ Punto(f, u) /\ a = File(r) /\ r \in Recursos
    BY <1>1, <1>4
  <2>5. Borra(f, g1, a, B)
    BY ONLY <2>3, <2>4 DEF Borra
  <2> QED BY ONLY <2>4, <2>5, BorrarBitsPunto
<1>14. Punto(g2, u)
  BY ONLY <1>6, <1>13, QuedaPunto
<1>15. Punto(g3, u)
  BY ONLY <1>1, <1>7, <1>14, ContadoPunto
<1>16. \A x \in Archivos \ {a} : Lista(g4, x) = Lista(f, x) /\ g4.archivo[x].count = f.archivo[x].count
  <2> SUFFICES ASSUME NEW x \in Archivos \ {a}
               PROVE  Lista(g4, x) = Lista(f, x) /\ g4.archivo[x].count = f.archivo[x].count
    OBVIOUS
  <2>1. g4.archivo[x] = g2.archivo[x]
    BY ONLY x \in Archivos \ {a}, <1>7, <1>10 DEF Toca
  <2> QED BY ONLY x \in Archivos \ {a}, <1>8, <2>1 DEF Lista
<1>17. \A x \in Archivos : g4.archivo[x].existe = f.archivo[x].existe
  <2> SUFFICES ASSUME NEW x \in Archivos PROVE g4.archivo[x].existe = f.archivo[x].existe
    OBVIOUS
  <2>1. g4.archivo[x].existe = g2.archivo[x].existe
    BY ONLY x \in Archivos, <1>7, <1>10 DEF Toca
  <2> QED BY <1>8, <2>1
<1>18. g4.bitmap = f.bitmap \ {bl}
  BY <1>2, <1>4, <1>6, <1>7, <1>10 DEF Queda, Toca
<1>19. PICK n : n = m - 1
  OBVIOUS
<1>20. n \in Nat /\ n + 1 = m /\ n <= m
  BY <1>12, <1>19
<1>21. Front(Lista(f, a)) = [i \in 1..n |-> Lista(f, a)[i]]
  <2>1. Lista(f, a) \in Seq(Nat)
    BY <1>1, ListaTipo
  <2>2. Front(Lista(f, a)) = SubSeq(Lista(f, a), 1, n)
    BY <1>11, <1>19 DEF Front
  <2> QED BY <1>11, <1>20, <2>1, <2>2
<1>22. /\ Len(Lista(g4, a)) <= n
       /\ \A i \in 1..Len(Lista(g4, a)) : Lista(g4, a)[i] = Lista(f, a)[i]
       /\ f.archivo[a].count = m => Len(Lista(g4, a)) = n
  <2>1. CASE f.archivo[a].count - 1 = 0
    <3>1. Lista(g4, a) = <<>>
      BY <1>10, <2>1
    <3>2. Len(Lista(g4, a)) = 0
      BY <3>1
    <3>3. f.archivo[a].count = m => n = 0
      BY <1>19, <2>1
    <3>4. 1..Len(Lista(g4, a)) = {}
      BY ONLY <3>2
    <3> QED BY ONLY <1>20, <3>2, <3>3, <3>4
  <2>2. CASE f.archivo[a].count - 1 # 0
    <3>1. Lista(g4, a) = [i \in 1..n |-> Lista(f, a)[i]]
      BY <1>10, <1>21, <2>2
    <3>2. Len(Lista(g4, a)) = n
      BY <1>20, <3>1
    <3> QED BY ONLY <1>20, <3>1, <3>2
  <2> QED BY <2>1, <2>2
<1>23. Achica(f, g4, a, n, {bl}, c)
  <2>1. \A y \in {bl} : \E i \in 1..Len(Lista(f, a)) : i > n /\ Lista(f, a)[i] = y
    <3>1. m \in 1..Len(Lista(f, a)) /\ m > n
      BY <1>11, <1>12, <1>20
    <3> QED BY <1>12, <3>1
  <2>2. \A i \in 1..Len(Lista(f, a)) : i > n => Lista(f, a)[i] \in {bl}
    <3> SUFFICES ASSUME NEW i \in 1..Len(Lista(f, a)), i > n PROVE Lista(f, a)[i] \in {bl}
      OBVIOUS
    <3>1. i = m
      BY <1>11, <1>12, <1>20
    <3> QED BY <1>12, <3>1
  <2>3. c => g4.archivo[a].count = n /\ Len(Lista(g4, a)) = n
    <3> SUFFICES ASSUME c PROVE g4.archivo[a].count = n /\ Len(Lista(g4, a)) = n
      OBVIOUS
    <3>1. f.archivo[a].count = m
      BY <1>11 DEF Fin, Exacta
    <3> QED BY <1>10, <1>19, <1>22, <3>1
  <2>4. n <= Len(Lista(f, a))
    BY <1>11, <1>20
  <2> QED BY ONLY <1>10, <1>16, <1>17, <1>18, <1>22, <2>1, <2>2, <2>3, <2>4 DEF Achica
<1>24. Fin(g4, u, c)
  BY ONLY Fin(f, u, c), r \in Recursos, a = File(r), <1>20, <1>23, AchicarFin
<1>25. Traza(<<g1, g2, g3, g4>>, u) /\ Last(<<g1, g2, g3, g4>>) = g4
  BY ONLY <1>13, <1>14, <1>15, <1>24, TrazaCuatro DEF Fin
<1> QED BY ONLY <1>24, <1>25 DEF TrazaFin

LEMMA VueltaBien ==
  ASSUME NEW acc, NEW u, NEW c, Cuenta(acc, u, c), NEW r \in Recursos, NEW a, a = File(r)
  PROVE  Cuenta(Vuelta(acc, a), u, c)
<1>1. PICK f : f = Last(acc.traza)
  OBVIOUS
<1>2. PICK z, resta : z = acc.traza /\ resta = acc.resta
  OBVIOUS
<1>3. acc = [traza |-> z, resta |-> resta] /\ resta \in Int /\ TrazaFin(z, u, c) /\ Traza(z, u) /\ f = Last(z)
  BY <1>1, <1>2 DEF Cuenta, TrazaFin
<1>4. Fin(f, u, c) /\ Formado(f) /\ Punto(f, u) /\ a \in Archivos
  BY <1>3, Nombres DEF TrazaFin, Fin, Punto
<1>5. PICK bl : bl = Last(f.archivo[a].blocks)
  OBVIOUS
<1>6. PICK p : p = f.archivo[a].size - (Len(f.archivo[a].blocks) - 1) * tamanioBloque
  OBVIOUS
<1>7. p \in Int
  <2>1. PICK n : n = Len(f.archivo[a].blocks)
    OBVIOUS
  <2>2. n \in Nat
    BY <1>4, <2>1, ListaTipo DEF Lista
  <2>3. f.archivo[a].size \in Int
    BY <1>4 DEF Formado, EsMetadata
  <2>4. tamanioBloque \in Nat
    BY SistemaOK
  <2>5. PICK q : q = (n - 1) * tamanioBloque
    OBVIOUS
  <2>6. q \in Int
    BY ONLY <2>2, <2>4, <2>5
  <2> QED BY ONLY <1>6, <2>1, <2>3, <2>5, <2>6
<1>8. PICK g1 : g1 = [f EXCEPT !.bitmap = f.bitmap \ {bl}]
  OBVIOUS
<1>9. PICK g2 : g2 = actualizarSize(g1, a, -p)
  OBVIOUS
<1>10. PICK g3 : g3 = actualizarBlockCount(g2, a, -1)
  OBVIOUS
<1>11. PICK g4 : g4 = QuitarBloque(g3, a)
  OBVIOUS
<1>12. PICK h : h = [f EXCEPT !.copia = Pegar(f.copia, Dir(bl) + p - resta, <<"|">>)]
  OBVIOUS
<1>13. PICK k : k = actualizarSize(h, a, -resta)
  OBVIOUS
<1>14. Vuelta(acc, a) =
         IF resta = 0 \/ ~f.vivo THEN acc ELSE
         IF f.archivo[a].blocks = <<>> THEN [acc EXCEPT !.traza = Append(z, Morir(f))] ELSE
         IF resta > p THEN [traza |-> z \o <<g1, g2, g3, g4>>, resta |-> resta - p]
                      ELSE [traza |-> Append(z, k), resta |-> 0]
  BY <1>1, <1>2, <1>5, <1>6, <1>8, <1>9, <1>10, <1>11, <1>12, <1>13 DEF Vuelta
<1>15. Formado(k) /\ Fin(k, u, c)
  <2>1. f = [bitmap |-> f.bitmap, cantidad |-> f.cantidad, archivo |-> f.archivo, disco |-> f.disco,
             copia |-> f.copia, vivo |-> f.vivo, desborde |-> f.desborde]
    BY <1>4 DEF Formado
  <2>2. PICK copia : copia = Pegar(f.copia, Dir(bl) + p - resta, <<"|">>)
    OBVIOUS
  <2>3. Contenido(f, h)
    BY ONLY <1>12, <2>1, <2>2 DEF Contenido
  <2>4. Queda(f, h) /\ Formado(h)
    BY ONLY <1>4, <2>3, ContenidoQueda DEF Queda
  <2>5. PICK q : q = -resta
    OBVIOUS
  <2>6. q \in Int /\ k = actualizarSize(h, a, q)
    BY ONLY <1>3, <1>13, <2>5
  <2>7. Queda(h, k)
    BY ONLY <1>4, <2>4, <2>6, SizeQueda
  <2>8. Fin(h, u, c)
    BY ONLY <1>4, <2>4, QuedaFin
  <2> QED BY ONLY <2>7, <2>8, QuedaFin DEF Queda
<1>16. CASE resta = 0 \/ ~f.vivo
  BY <1>14, <1>16
<1>17. CASE ~(resta = 0 \/ ~f.vivo) /\ f.archivo[a].blocks = <<>>
  <2>1. PICK x : x = Append(z, Morir(f))
    OBVIOUS
  <2>2. Vuelta(acc, a) = [traza |-> x, resta |-> resta]
    BY ONLY <1>3, <1>14, <1>17, <2>1
  <2>3. Fin(Morir(f), u, c) /\ Punto(Morir(f), u)
    BY ONLY <1>4, MorirQueda, QuedaFin DEF Fin
  <2>4. Traza(x, u) /\ Last(x) = Morir(f)
    BY ONLY <1>3, <2>1, <2>3, TrazaMas
  <2>5. TrazaFin(x, u, c)
    BY ONLY <2>3, <2>4 DEF TrazaFin
  <2> QED BY ONLY <1>3, <2>2, <2>5 DEF Cuenta
<1>18. CASE ~(resta = 0 \/ ~f.vivo) /\ f.archivo[a].blocks # <<>> /\ resta > p
  <2>1. PICK x : x = z \o <<g1, g2, g3, g4>>
    OBVIOUS
  <2>2. Vuelta(acc, a) = [traza |-> x, resta |-> resta - p]
    BY ONLY <1>14, <1>18, <2>1
  <2>3. Lista(f, a) # <<>>
    BY <1>18 DEF Lista
  <2>4. TrazaFin(<<g1, g2, g3, g4>>, u, c)
    BY ONLY <1>4, <1>5, <1>7, <1>8, <1>9, <1>10, <1>11, <2>3, r \in Recursos, a = File(r), SacarUltimo
  <2>5. TrazaFin(x, u, c)
    BY ONLY <1>3, <2>1, <2>4, FinSigue
  <2>6. resta - p \in Int
    BY ONLY <1>3, <1>7
  <2> QED BY ONLY <2>2, <2>5, <2>6 DEF Cuenta
<1>19. CASE ~(resta = 0 \/ ~f.vivo) /\ f.archivo[a].blocks # <<>> /\ ~(resta > p)
  <2>1. PICK x : x = Append(z, k)
    OBVIOUS
  <2>2. Vuelta(acc, a) = [traza |-> x, resta |-> 0]
    BY ONLY <1>14, <1>19, <2>1
  <2>3. Traza(x, u) /\ Last(x) = k
    BY ONLY <1>3, <1>15, <2>1, TrazaMas DEF Fin
  <2>4. TrazaFin(x, u, c)
    BY ONLY <1>15, <2>3 DEF TrazaFin
  <2> QED BY ONLY <2>2, <2>4 DEF Cuenta
<1> QED BY <1>16, <1>17, <1>18, <1>19

LEMMA BorrarEnBlocksBien ==
  ASSUME NEW f, NEW u, NEW c, Fin(f, u, c), NEW r \in Recursos, NEW a, a = File(r),
         NEW n, n \in Nat \/ f.archivo[a].size <= n
  PROVE  TrazaFin(borrarEnBlocks(f, a, n), u, c)
<1>1. CASE f.archivo[a].size <= n
  BY <1>1, BorrarTodoBien DEF borrarEnBlocks
<1>2. CASE ~(f.archivo[a].size <= n)
  <2>1. n \in Nat /\ a \in Archivos
    BY <1>2, Nombres
  <2>2. PICK b : b = [traza |-> <<f>>, resta |-> n]
    OBVIOUS
  <2>3. PICK s : s = [i \in 1..(n + 1) |-> i]
    OBVIOUS
  <2>4. PICK v : v = Vueltas(a, b, s)
    OBVIOUS
  <2>5. borrarEnBlocks(f, a, n) = Luego(v.traza, LAMBDA g : <<setearMD5(g, a)>>)
    BY <1>2, <2>2, <2>3, <2>4 DEF borrarEnBlocks, Vueltas
  <2>6. Len(s) = n + 1 /\ Len(s) \in Nat /\ DOMAIN s = 1..Len(s)
    BY ONLY <2>1, <2>3
  <2>7. PICK z : Cadena(z, "vuelta", a, b, s) /\ Vueltas(a, b, s) = z[Len(s)]
    BY ONLY <2>6, PliegaVuelta
  <2>8. z[0] = b /\ \A k \in 1..(n + 1) : z[k] = Vuelta(z[k - 1], a)
    <3>1. \A y, x : Paso("vuelta", a, y, x) = Vuelta(y, a)
      BY DEF Paso
    <3> QED BY ONLY <2>6, <2>7, <3>1 DEF Cadena
  <2> DEFINE G == {k \in 0..(n + 1) : Cuenta(z[k], u, c)}
  <2>9. 0 \in G
    <3>1. TrazaFin(<<f>>, u, c)
      BY FinUna
    <3>2. Cuenta(b, u, c)
      BY ONLY <2>1, <2>2, <3>1 DEF Cuenta
    <3>3. 0 \in 0..(n + 1)
      BY <2>1
    <3> QED BY ONLY <2>8, <3>2, <3>3
  <2>10. ASSUME NEW k \in 0..n, k \in G PROVE k + 1 \in G
    <3>1. k + 1 \in 1..(n + 1) /\ k + 1 \in 0..(n + 1) /\ k + 1 - 1 = k
      BY <2>1
    <3>2. PICK y : y = z[k]
      OBVIOUS
    <3>3. Cuenta(y, u, c)
      BY <2>10, <3>2
    <3>4. Cuenta(Vuelta(y, a), u, c)
      BY ONLY <3>3, r \in Recursos, a = File(r), VueltaBien
    <3>5. z[k + 1] = Vuelta(y, a)
      BY ONLY <2>8, <3>1, <3>2
    <3> QED BY ONLY <3>1, <3>4, <3>5
  <2>11. n + 1 \in G
    <3> HIDE DEF G
    <3>1. n + 1 \in Nat /\ n + 1 - 1 = n /\ n + 1 \in 0..(n + 1)
      BY <2>1
    <3>2. PICK m : m = n + 1
      OBVIOUS
    <3>3. m \in Nat /\ \A k \in 0..(m - 1) : k \in G => k + 1 \in G
      <4>1. m \in Nat /\ m - 1 = n
        BY ONLY <2>1, <3>1, <3>2
      <4> QED BY ONLY <2>10, <4>1
    <3>4. \A k \in 0..m : k \in G
      BY ONLY <2>9, <3>3, PorPasos
    <3> QED BY ONLY <3>1, <3>2, <3>4
  <2>12. TrazaFin(v.traza, u, c)
    BY ONLY <2>4, <2>6, <2>7, <2>11 DEF Cuenta
  <2> QED BY ONLY <2>1, <2>5, <2>12, FinConMD5
<1> QED BY <1>1, <1>2

-----------------------------------------------------------------------------
(* The tasks *)

(* A file without blocks is made, or is not any more. *)
LEMMA VacioFin ==
  ASSUME NEW f, NEW u, NEW c, Fin(f, u, c), NEW a \in Archivos, Lista(f, a) = <<>>,
         NEW g, Toca(f, g, a), Lista(g, a) = <<>>, g.archivo[a].count = 0
  PROVE  Fin(g, u, c)
<1>1. /\ Formado(g) /\ g.bitmap = f.bitmap /\ Punto(f, u) /\ Marcados(f) /\ (c => Exacta(f))
      /\ \A x \in Archivos : Lista(g, x) = Lista(f, x)
      /\ \A x \in Archivos \ {a} : g.archivo[x] = f.archivo[x]
  BY DEF Toca, Lista, Fin
<1>2. \A t \in Trips : EnBits(g, Bitacora(t))
  BY <1>1, Nombres DEF Punto, EnBits
<1>3. \A x \in Archivos : ~g.archivo[x].existe => Lista(g, x) = <<>>
  BY <1>1 DEF Punto
<1>4. Punto(g, u)
  BY <1>1, <1>2, <1>3 DEF Punto, Unico
<1>5. Marcados(g)
  BY <1>1 DEF Marcados
<1>6. ASSUME c PROVE Exacta(g)
  <2>1. Exacta(f)
    BY <1>1, <1>6
  <2>2. ASSUME NEW q \in Recursos PROVE g.archivo[File(q)].count = Len(Lista(g, File(q)))
    <3>1. File(q) \in Archivos
      BY Nombres
    <3>2. CASE File(q) = a
      BY <3>2
    <3>3. CASE File(q) # a
      BY <1>1, <2>1, <3>1, <3>3 DEF Exacta
    <3> QED BY <3>2, <3>3
  <2> QED BY <1>1, <2>1, <2>2 DEF Exacta
<1> QED BY <1>4, <1>5, <1>6 DEF Fin

LEMMA ConArchivoBien ==
  ASSUME NEW f, NEW u, NEW c, Fin(f, u, c), NEW a \in Archivos
  PROVE  TrazaFin(ConArchivo(f, a), u, c) /\ Last(ConArchivo(f, a)).archivo[a].existe
<1>1. Formado(f) /\ Punto(f, u)
  BY DEF Fin, Punto
<1>2. CASE f.archivo[a].existe
  BY <1>1, <1>2, FinUna, TrazaUna DEF ConArchivo
<1>3. CASE ~f.archivo[a].existe
  <2>1. PICK g : g = crearMetadata(f, a)
    OBVIOUS
  <2>2. Toca(f, g, a) /\ Lista(g, a) = <<>> /\ g.archivo[a].count = 0 /\ g.archivo[a].existe
    BY <1>1, <2>1, CrearToca
  <2>3. Lista(f, a) = <<>>
    BY <1>1, <1>3 DEF Punto
  <2>4. Fin(g, u, c)
    BY <2>2, <2>3, VacioFin
  <2>5. TrazaFin(<<g>>, u, c) /\ Last(<<g>>) = g
    BY <2>4, FinUna, TrazaUna DEF Fin
  <2> QED BY <1>3, <2>1, <2>2, <2>5 DEF ConArchivo
<1> QED BY <1>2, <1>3

LEMMA TextoConBarra ==
  ASSUME NEW x, NEW n \in Nat
  PROVE  ConBarra(Repetida(x, n)) \in Seq({x, "|"})
<1>1. PICK C : C = {x, "|"}
  OBVIOUS
<1>2. PICK s : s = [i \in 1..n |-> x]
  OBVIOUS
<1>3. s \in Seq(C)
  BY <1>1, <1>2
<1>4. Append(s, "|") \in Seq(C)
  BY <1>1, <1>3, AppendProperties
<1> QED BY <1>1, <1>2, <1>4 DEF ConBarra, Repetida

LEMMA EscribirBien ==
  ASSUME NEW f, NEW u, NEW c, Fin(f, u, c), NEW t \in Trips
  PROVE  TrazaFin(escribirEnBitacora(f, t), u, c)
<1>1. PICK a : a = Bitacora(t)
  OBVIOUS
<1>2. a \in Archivos
  BY <1>1, Nombres
<1>3. PICK z : z = ConArchivo(f, a)
  OBVIOUS
<1>4. PICK g : g = Last(z)
  OBVIOUS
<1>5. TrazaFin(z, u, c) /\ g.archivo[a].existe /\ Fin(g, u, c)
  <2>1. TrazaFin(z, u, c) /\ g.archivo[a].existe
    BY <1>2, <1>3, <1>4, ConArchivoBien
  <2> QED BY <1>4, <2>1 DEF TrazaFin
<1>6. PICK C : Nota(t) \in Seq(C)
  <2>1. LargoNota - 1 \in Nat
    BY SistemaOK
  <2> QED BY <2>1, TextoConBarra DEF Nota
<1>7. TrazaFin(guardarEnBlocks(g, a, Nota(t)), u, c)
  BY <1>2, <1>5, <1>6, GuardarEnBlocksBien
<1>8. TrazaFin(z \o guardarEnBlocks(g, a, Nota(t)), u, c)
  BY <1>5, <1>7, FinSigue
<1> QED BY <1>1, <1>3, <1>4, <1>5, <1>8 DEF escribirEnBitacora, Luego

LEMMA GenerarBien ==
  ASSUME NEW f, NEW u, NEW c, Fin(f, u, c), NEW r \in Recursos, NEW n \in Nat
  PROVE  TrazaFin(generar(f, r, n), u, c)
<1>1. PICK a : a = File(r)
  OBVIOUS
<1>2. a \in Archivos
  BY <1>1, Nombres
<1>3. PICK z : z = ConArchivo(f, a)
  OBVIOUS
<1>4. PICK g : g = Last(z)
  OBVIOUS
<1>5. TrazaFin(z, u, c) /\ g.archivo[a].existe /\ Fin(g, u, c)
  <2>1. TrazaFin(z, u, c) /\ g.archivo[a].existe
    BY <1>2, <1>3, <1>4, ConArchivoBien
  <2> QED BY <1>4, <2>1 DEF TrazaFin
<1>6. PICK s : s = ConBarra(Repetida(Letra[r], n))
  OBVIOUS
<1>7. PICK C : s \in Seq(C)
  BY <1>6, TextoConBarra
<1>8. TrazaFin(guardarEnBlocks(g, a, s), u, c)
  BY <1>2, <1>5, <1>7, GuardarEnBlocksBien
<1>9. TrazaFin(z \o guardarEnBlocks(g, a, s), u, c)
  BY <1>5, <1>8, FinSigue
<1> QED BY <1>1, <1>3, <1>4, <1>5, <1>6, <1>9 DEF generar, Luego

LEMMA ConsumirBien ==
  ASSUME NEW f, NEW u, NEW c, Fin(f, u, c), NEW r \in Recursos, NEW n \in Nat
  PROVE  TrazaFin(consumir(f, r, n), u, c)
<1>1. CASE f.archivo[File(r)].existe
  BY <1>1, BorrarEnBlocksBien DEF consumir
<1>2. CASE ~f.archivo[File(r)].existe
  BY <1>2, FinUna DEF consumir
<1> QED BY <1>1, <1>2

LEMMA DescartarBien ==
  ASSUME NEW f, NEW u, NEW c, Fin(f, u, c), "Basura" \in Recursos
  PROVE  TrazaFin(descartarBasura(f), u, c)
<1>1. PICK a : a = File("Basura")
  OBVIOUS
<1>2. a \in Archivos /\ Formado(f)
  BY <1>1, Nombres DEF Fin, Punto
<1>3. CASE ~f.archivo[a].existe
  BY <1>1, <1>3, FinUna DEF descartarBasura
<1>4. CASE f.archivo[a].existe
  <2>1. f.archivo[a].size <= f.archivo[a].size
    <3>1. EsMetadata(f.archivo[a])
      BY ONLY <1>2 DEF Formado
    <3>2. f.archivo[a].size \in Int
      BY ONLY <3>1 DEF EsMetadata
    <3> QED BY ONLY <3>2
  <2>2. PICK z : z = BorrarTodo(f, a)
    OBVIOUS
  <2>3. borrarEnBlocks(f, a, f.archivo[a].size) = z
    BY <2>1, <2>2 DEF borrarEnBlocks
  <2>4. PICK g : g = Last(z)
    OBVIOUS
  <2>5. TrazaFin(z, u, c) /\ Lista(g, a) = <<>>
    BY <1>1, <2>2, <2>4, BorrarTodoBien
  <2>6. Fin(g, u, c) /\ Formado(g)
    BY <2>4, <2>5 DEF TrazaFin, Fin, Punto
  <2>7. PICK h : h = [g EXCEPT !.archivo[a] = NoExiste]
    OBVIOUS
  <2>8. Toca(g, h, a) /\ Lista(h, a) = <<>> /\ h.archivo[a].count = 0
    <3>1. PICK m : m = NoExiste
      OBVIOUS
    <3>2. EsMetadata(m) /\ m.blocks = <<>> /\ m.count = 0
      BY <3>1 DEF EsMetadata, NoExiste
    <3>3. Cambia(g, h, a, m)
      BY <2>7, <3>1 DEF Cambia
    <3>4. Toca(g, h, a) /\ h.archivo[a] = m
      BY ONLY <1>2, <2>6, <3>2, <3>3, TocaArchivo
    <3> QED BY ONLY <3>2, <3>4 DEF Lista
  <2>9. TrazaFin(<<h>>, u, c)
    BY ONLY <1>2, <2>5, <2>6, <2>8, VacioFin, FinUna
  <2>10. TrazaFin(z \o <<h>>, u, c)
    BY ONLY <2>5, <2>9, FinSigue
  <2>12. descartarBasura(f) = IF g.vivo THEN z \o <<h>> ELSE z
    <3>1. f.archivo[File("Basura")].existe /\ borrarEnBlocks(f, File("Basura"), f.archivo[File("Basura")].size) = z
      BY ONLY <1>1, <1>4, <2>3
    <3>2. h = [g EXCEPT !.archivo[File("Basura")] = NoExiste]
      BY ONLY <1>1, <2>7
    <3>3. descartarBasura(f) = Luego(z, LAMBDA x : <<[x EXCEPT !.archivo[File("Basura")] = NoExiste]>>)
      BY ONLY <3>1, Zenon DEF descartarBasura
    <3> QED BY ONLY <2>4, <3>2, <3>3 DEF Luego
  <2> QED BY ONLY <2>5, <2>10, <2>12
<1> QED BY <1>3, <1>4

-----------------------------------------------------------------------------
(* fsck: the lists *)

(* A bit past the end of the bitmap is not taken for that of a block.       *)
BitSano == BitAjeno = FALSE \/ "bloque" \notin Sabotajes

Filtrada(v, f, s, k) ==
  /\ v \in Seq(Nat)
  /\ \A i \in 1..Len(v) : v[i] \in f.bitmap /\ \E j \in 1..k : v[i] = s[j]
  /\ \A i, j \in 1..Len(v) : v[i] = v[j] => i = j

LEMMA ValidosBien ==
  ASSUME NEW f, NEW u, Punto(f, u), u \/ BitAjeno = FALSE, NEW a \in Archivos, NEW s, s = Lista(f, a)
  PROVE  Filtrada(Validos(f, s), f, s, Len(s))
<1>1. s \in Seq(Nat) /\ Len(s) \in Nat /\ DOMAIN s = 1..Len(s) /\ \A i \in 1..Len(s) : s[i] \in Nat
  <2>1. s \in Seq(Nat) /\ Len(s) \in Nat /\ \A i \in 1..Len(s) : s[i] \in Nat
    BY ListaTipo DEF Punto
  <2> QED BY <2>1, LenProperties
<1>2. PICK n : n = Len(s)
  OBVIOUS
<1>3. PICK z : Cadena(z, "valido", f, <<>>, s) /\ Validos(f, s) = z[Len(s)]
  BY <1>1, PliegaValidos
<1>4. z[0] = <<>> /\ \A k \in 1..n : z[k] = IF s[k] > cantidadBloques \/ ~BitEncendido(f, s[k]) THEN z[k - 1]
                                           ELSE Append(z[k - 1], s[k])
  <2>1. \A y, x : Paso("valido", f, y, x) = IF x > cantidadBloques \/ ~BitEncendido(f, x) THEN y ELSE Append(y, x)
    BY DEF Paso
  <2> QED BY ONLY <1>2, <1>3, <2>1 DEF Cadena
<1>5. ASSUME NEW i \in 1..n, BitEncendido(f, s[i]) PROVE s[i] \in f.bitmap
  <2>1. s[i] \in Nat /\ (u => s[i] \in Bloques)
    BY <1>1, <1>2 DEF Punto
  <2> QED BY <1>5, <2>1 DEF BitEncendido
<1> DEFINE G == {k \in 0..n : Filtrada(z[k], f, s, k)}
<1>6. n \in Nat
  BY <1>1, <1>2
<1>7. 0 \in G
  <2>1. <<>> \in Seq(Nat) /\ Len(<<>>) = 0 /\ 1..0 = {}
    OBVIOUS
  <2>2. Filtrada(<<>>, f, s, 0)
    BY ONLY <2>1 DEF Filtrada
  <2> QED BY ONLY <1>4, <1>6, <2>2
<1>8. ASSUME NEW k \in 0..(n - 1), k \in G PROVE k + 1 \in G
  <2>1. k \in Nat /\ k + 1 \in 1..n /\ k + 1 \in 0..n /\ k + 1 - 1 = k
    BY <1>6
  <2>2. PICK v : v = z[k]
    OBVIOUS
  <2>3. PICK x : x = s[k + 1]
    OBVIOUS
  <2>4. /\ v \in Seq(Nat) /\ \A i \in 1..Len(v) : v[i] \in f.bitmap /\ \E j \in 1..k : v[i] = s[j]
        /\ \A i, j \in 1..Len(v) : v[i] = v[j] => i = j
    BY <1>8, <2>2 DEF Filtrada
  <2>5. x \in Nat
    BY <1>1, <1>2, <2>1, <2>3
  <2>6. CASE z[k + 1] = v
    <3>1. \A i \in 1..Len(v) : \E j \in 1..(k + 1) : v[i] = s[j]
      <4>1. \A j \in 1..k : j \in 1..(k + 1)
        BY ONLY <2>1
      <4> QED BY ONLY <2>4, <4>1
    <3>2. Filtrada(v, f, s, k + 1)
      BY ONLY <2>4, <3>1 DEF Filtrada
    <3> QED BY <2>1, <2>6, <3>2
  <2>7. CASE z[k + 1] = Append(v, x) /\ BitEncendido(f, x)
    <3>1. x \in f.bitmap
      BY <1>5, <2>1, <2>3, <2>7
    <3>2. PICK w : w = Append(v, x)
      OBVIOUS
    <3>3. PICK m : m = Len(v)
      OBVIOUS
    <3>4. /\ w \in Seq(Nat) /\ Len(w) = m + 1 /\ m \in Nat /\ w[m + 1] = x
          /\ \A i \in 1..m : w[i] = v[i]
      BY ONLY <2>4, <2>5, <3>2, <3>3, AppendProperties, LenProperties
    <3>5. ASSUME NEW i \in 1..m PROVE v[i] # x
      <4>1. PICK j \in 1..k : v[i] = s[j]
        BY <2>4, <3>3
      <4>2. j \in 1..Len(s) /\ k + 1 \in 1..Len(s) /\ j # k + 1
        BY ONLY <1>2, <1>6, <2>1, j \in 1..k
      <4>3. s[j] # s[k + 1]
        BY <2>3, <3>1, <4>2 DEF Punto, Unico
      <4> QED BY ONLY <2>3, <4>1, <4>3
    <3>6. \A i \in 1..(m + 1) : i \in 1..m \/ i = m + 1
      BY ONLY <3>4
    <3>7. \A i \in 1..Len(w) : w[i] \in f.bitmap
      BY ONLY <2>4, <3>1, <3>3, <3>4, <3>6
    <3>8. \A i \in 1..Len(w) : \E j \in 1..(k + 1) : w[i] = s[j]
      <4> SUFFICES ASSUME NEW i \in 1..Len(w) PROVE \E j \in 1..(k + 1) : w[i] = s[j]
        OBVIOUS
      <4>1. k + 1 \in 1..(k + 1) /\ \A j \in 1..k : j \in 1..(k + 1)
        BY ONLY <2>1
      <4>2. CASE i = m + 1
        BY ONLY <2>3, <3>4, <4>1, <4>2
      <4>3. CASE i \in 1..m
        <5>1. \E j \in 1..k : v[i] = s[j]
          BY ONLY <2>4, <3>3, <4>3
        <5> QED BY ONLY <3>4, <4>1, <4>3, <5>1
      <4> QED BY <3>4, <3>6, <4>2, <4>3
    <3>9. \A i, j \in 1..Len(w) : w[i] = w[j] => i = j
      <4> SUFFICES ASSUME NEW i \in 1..Len(w), NEW j \in 1..Len(w), w[i] = w[j] PROVE i = j
        OBVIOUS
      <4>1. CASE i \in 1..m /\ j \in 1..m
        <5>1. v[i] = v[j]
          BY <3>4, <4>1
        <5> QED BY <2>4, <3>3, <4>1, <5>1
      <4>2. CASE i = m + 1 /\ j \in 1..m
        BY <3>4, <3>5, <4>2
      <4>3. CASE i \in 1..m /\ j = m + 1
        BY <3>4, <3>5, <4>3
      <4> QED BY <3>4, <3>6, <4>1, <4>2, <4>3
    <3>10. Filtrada(w, f, s, k + 1)
      BY ONLY <3>4, <3>7, <3>8, <3>9 DEF Filtrada
    <3> QED BY <2>1, <2>7, <3>2, <3>10
  <2>8. \/ z[k + 1] = v
        \/ z[k + 1] = Append(v, x) /\ BitEncendido(f, x)
    <3>1. z[k + 1] = IF x > cantidadBloques \/ ~BitEncendido(f, x) THEN v ELSE Append(v, x)
      BY <1>4, <2>1, <2>2, <2>3
    <3> QED BY <3>1
  <2> QED BY <2>6, <2>7, <2>8
<1>9. Filtrada(z[n], f, s, n)
  <2> HIDE DEF G
  <2>1. \A k \in 0..n : k \in G
    BY ONLY <1>6, <1>7, <1>8, PorPasos
  <2>2. n \in G
    BY ONLY <1>6, <2>1
  <2> QED BY <2>2 DEF G
<1> QED BY ONLY <1>2, <1>3, <1>9

(* A resource's list is left with the blocks that have their bit. *)
LEMMA ListaBien ==
  ASSUME NEW f, NEW u, Punto(f, u), u \/ BitAjeno = FALSE, NEW r \in Recursos, NEW a, a = File(r),
         NEW g, g = validacionEsValidaLista(f, r)
  PROVE  /\ Punto(g, u) /\ EnBits(g, a) /\ Toca(f, g, a)
         /\ \A x \in Archivos : g.archivo[x].existe = f.archivo[x].existe
<1>1. a \in Archivos /\ EsRecurso(a) /\ Formado(f) /\ f.bitmap \subseteq Bloques
  BY Nombres DEF Punto
<1>2. PICK s : s = Lista(f, a)
  OBVIOUS
<1>3. PICK v : v = Validos(f, s)
  OBVIOUS
<1>4. PICK m : m = [f.archivo[a] EXCEPT !.blocks = v]
  OBVIOUS
<1>5. Cambia(f, g, a, m)
  BY <1>2, <1>3, <1>4 DEF Cambia, validacionEsValidaLista, Lista
<1>6. Filtrada(v, f, s, Len(s))
  BY <1>1, <1>2, <1>3, ValidosBien
<1>7. /\ v \in Seq(Nat)
      /\ \A i \in 1..Len(v) : v[i] \in f.bitmap /\ \E j \in 1..Len(s) : v[i] = s[j]
      /\ \A i, j \in 1..Len(v) : v[i] = v[j] => i = j
  BY ONLY <1>6 DEF Filtrada
<1>8. EsMetadata(f.archivo[a])
  BY ONLY <1>1 DEF Formado
<1>9. EsMetadata(m) /\ m.blocks = v /\ m.existe = f.archivo[a].existe
  BY ONLY <1>4, <1>7, <1>8 DEF EsMetadata
<1>10. Toca(f, g, a) /\ g.archivo[a] = m
  BY ONLY <1>1, <1>5, <1>9, TocaArchivo
<1>11. /\ Formado(g) /\ g.bitmap = f.bitmap /\ Lista(g, a) = v
       /\ \A x \in Archivos \ {a} : g.archivo[x] = f.archivo[x] /\ Lista(g, x) = Lista(f, x)
       /\ \A x \in Archivos : g.archivo[x].existe = f.archivo[x].existe
  BY ONLY <1>9, <1>10 DEF Toca, Lista
<1>12. Unico(f, f.bitmap) /\ \A t \in Trips : EnBits(f, Bitacora(t))
  BY DEF Punto
<1>13. ASSUME NEW y \in Archivos, y # a, NEW i \in 1..Len(v), NEW j \in 1..Len(Lista(g, y)), v[i] = Lista(g, y)[j]
       PROVE  FALSE
  <2>1. PICK k \in 1..Len(s) : v[i] = s[k]
    BY <1>7
  <2>2. Lista(f, a)[k] = Lista(f, y)[j] /\ Lista(f, a)[k] \in f.bitmap /\ j \in 1..Len(Lista(f, y))
        /\ k \in 1..Len(Lista(f, a))
    BY ONLY <1>2, <1>7, <1>11, <1>13, <2>1, i \in 1..Len(v), j \in 1..Len(Lista(g, y)), k \in 1..Len(s), y \in Archivos
  <2>3. a = y
    BY <1>1, <1>12, <2>2 DEF Unico
  <2> QED BY <1>13, <2>3
<1>14. ASSUME NEW S, Unico(f, S) PROVE Unico(g, S)
  <2> SUFFICES ASSUME NEW x \in Archivos, NEW y \in Archivos, NEW i \in 1..Len(Lista(g, x)),
                      NEW j \in 1..Len(Lista(g, y)), Lista(g, x)[i] = Lista(g, y)[j], Lista(g, x)[i] \in S
               PROVE  x = y /\ i = j
    BY DEF Unico
  <2>1. CASE x = a /\ y = a
    <3>1. v[i] = v[j] /\ i \in 1..Len(v) /\ j \in 1..Len(v)
      BY <1>11, <2>1
    <3> QED BY <1>7, <2>1, <3>1
  <2>2. CASE x = a /\ y # a
    <3>1. i \in 1..Len(v) /\ v[i] = Lista(g, y)[j]
      BY <1>11, <2>2
    <3> QED BY <1>13, <2>2, <3>1
  <2>3. CASE x # a /\ y = a
    <3>1. j \in 1..Len(v) /\ v[j] = Lista(g, x)[i]
      BY <1>11, <2>3
    <3> QED BY <1>13, <2>3, <3>1
  <2>4. CASE x # a /\ y # a
    <3>1. Lista(g, x) = Lista(f, x) /\ Lista(g, y) = Lista(f, y)
      BY <1>11, <2>4
    <3> QED BY <1>14, <3>1 DEF Unico
  <2> QED BY <2>1, <2>2, <2>3, <2>4
<1>15. Unico(g, g.bitmap) /\ (u => Unico(g, Nat))
  BY <1>11, <1>12, <1>14 DEF Punto
<1>16. \A t \in Trips : EnBits(g, Bitacora(t))
  <2> SUFFICES ASSUME NEW t \in Trips PROVE EnBits(g, Bitacora(t))
    OBVIOUS
  <2>1. Bitacora(t) \in Archivos \ {a}
    BY <1>1, Nombres
  <2>2. Lista(g, Bitacora(t)) = Lista(f, Bitacora(t))
    BY <1>11, <2>1
  <2> QED BY <1>11, <1>12, <2>2 DEF EnBits
<1>17. EnBits(g, a)
  BY <1>7, <1>11 DEF EnBits
<1>18. ASSUME NEW x \in Archivos, ~g.archivo[x].existe PROVE Lista(g, x) = <<>>
  <2>1. Lista(f, x) = <<>>
    BY <1>11, <1>18 DEF Punto
  <2>2. CASE x # a
    BY <1>11, <2>1, <2>2
  <2>3. CASE x = a
    <3>1. Len(s) = 0 /\ 1..0 = {}
      BY <1>2, <2>1, <2>3
    <3>2. ~(1 \in 1..Len(v))
      BY <1>7, <3>1
    <3>3. Len(v) \in Nat
      BY <1>7, LenProperties
    <3>4. Len(v) = 0
      BY <3>2, <3>3
    <3> QED BY <1>7, <1>11, <2>3, <3>4, EmptySeq
  <2> QED BY <2>2, <2>3
<1>19. u => \A x \in Archivos : \A i \in 1..Len(Lista(g, x)) : Lista(g, x)[i] \in Bloques
  <2> SUFFICES ASSUME u, NEW x \in Archivos, NEW i \in 1..Len(Lista(g, x)) PROVE Lista(g, x)[i] \in Bloques
    OBVIOUS
  <2>1. CASE x = a
    BY <1>1, <1>7, <1>11, <2>1
  <2>2. CASE x # a
    BY <1>11, <2>2 DEF Punto
  <2> QED BY <2>1, <2>2
<1>20. Punto(g, u)
  BY <1>1, <1>11, <1>15, <1>16, <1>18, <1>19 DEF Punto
<1> QED BY <1>10, <1>11, <1>17, <1>20

LEMMA ListadosEs ==
  ASSUME NEW f, Formado(f), NEW A, A \subseteq Archivos
  PROVE  \A b : b \in Listados(f, A) <=> \E x \in A : \E i \in 1..Len(Lista(f, x)) : Lista(f, x)[i] = b
<1>1. \A x \in A : DOMAIN Lista(f, x) = 1..Len(Lista(f, x))
  <2> SUFFICES ASSUME NEW x \in A PROVE DOMAIN Lista(f, x) = 1..Len(Lista(f, x))
    OBVIOUS
  <2>1. Lista(f, x) \in Seq(Nat)
    BY ListaTipo
  <2> QED BY <2>1, LenProperties
<1>2. \A x \in A : \A b : b \in ToSet(f.archivo[x].blocks) <=> \E i \in 1..Len(Lista(f, x)) : Lista(f, x)[i] = b
  BY <1>1 DEF ToSet, Lista
<1> QED BY <1>2 DEF Listados

LEMMA SinBitMarcados ==
  ASSUME NEW f, Formado(f), SinBit(f) = {}
  PROVE  Marcados(f)
<1> SUFFICES ASSUME NEW x \in Archivos, NEW i \in 1..Len(Lista(f, x)), Lista(f, x)[i] \in Bloques
             PROVE  Lista(f, x)[i] \in f.bitmap
  BY DEF Marcados
<1>1. PICK b : b = Lista(f, x)[i]
  OBVIOUS
<1>2. b \in Listados(f, Archivos)
  BY <1>1, ListadosEs
<1> QED BY <1>1, <1>2 DEF SinBit

-----------------------------------------------------------------------------
(* fsck: the bits *)

(* A bit is set only for a listed block. *)
Cubre(f) ==
  Residuos = {{}} => \A b \in f.bitmap : \E a \in Archivos : \E i \in 1..Len(Lista(f, a)) : Lista(f, a)[i] = b

LEMMA SalteadasVacias ==
  ASSUME NEW f, Formado(f), Salteadas(f) = {}, NEW t \in Trips, t \notin Revisadas(f)
  PROVE  Lista(f, Bitacora(t)) = <<>>
BY DEF Salteadas, Lista

LEMMA MapaBien ==
  ASSUME NEW f, NEW u, Punto(f, u), \A r \in Recursos : EnBits(f, File(r)), Salteadas(f) = {},
         NEW residuo \in Residuos, NEW g, g = validarBitmapSabotaje(f, residuo)
  PROVE  Fin(g, TRUE, FALSE) /\ Cubre(g)
<1>1. /\ Formado(f) /\ f.bitmap \subseteq Bloques /\ Unico(f, f.bitmap)
      /\ \A x \in Archivos : ~f.archivo[x].existe => Lista(f, x) = <<>>
      /\ \A t \in Trips : EnBits(f, Bitacora(t))
  BY DEF Punto
<1>2. PICK A : A = {Bitacora(t) : t \in Revisadas(f)} \cup {File(r) : r \in Recursos}
  OBVIOUS
<1>3. PICK B : B = Bloques \cap (residuo \cup Listados(f, A))
  OBVIOUS
<1>4. g = [f EXCEPT !.bitmap = B]
  BY <1>2, <1>3 DEF validarBitmapSabotaje
<1>5. Formado(g) /\ g.bitmap = B /\ g.archivo = f.archivo
  BY ONLY <1>1, <1>4, TocaMarca
<1>6. A \subseteq Archivos
  BY ONLY <1>2, Nombres DEF Revisadas
<1>7. \A x \in Archivos : Lista(g, x) = Lista(f, x)
  BY ONLY <1>5 DEF Lista
<1>8. ASSUME NEW x \in Archivos, NEW i \in 1..Len(Lista(f, x))
      PROVE  Lista(f, x)[i] \in f.bitmap /\ Lista(f, x)[i] \in B
  <2>1. \/ \E r \in Recursos : x = File(r)
        \/ \E t \in Trips : x = Bitacora(t)
    BY Nombres
  <2>2. Lista(f, x)[i] \in f.bitmap
    BY <1>1, <2>1 DEF EnBits
  <2>3. x \in A
    <3>1. CASE \E r \in Recursos : x = File(r)
      BY ONLY <1>2, <3>1
    <3>2. CASE \E t \in Trips : x = Bitacora(t)
      <4>1. PICK t \in Trips : x = Bitacora(t)
        BY <3>2
      <4>2. CASE t \in Revisadas(f)
        BY ONLY <1>2, <4>1, <4>2
      <4>3. CASE t \notin Revisadas(f)
        <5>1. Len(Lista(f, x)) = 0 /\ 1..0 = {}
          BY <1>1, <4>1, <4>3, SalteadasVacias
        <5> QED BY <5>1
      <4> QED BY <4>2, <4>3
    <3> QED BY <2>1, <3>1, <3>2
  <2>4. PICK b : b = Lista(f, x)[i]
    OBVIOUS
  <2>5. b \in Listados(f, A)
    BY <1>1, <1>6, <2>3, <2>4, ListadosEs
  <2> QED BY <1>1, <1>3, <2>2, <2>4, <2>5
<1>9. \A S : Unico(g, S)
  BY <1>1, <1>7, <1>8 DEF Unico
<1>10. \A x \in Archivos : \A i \in 1..Len(Lista(g, x)) : Lista(g, x)[i] \in g.bitmap
  BY <1>5, <1>7, <1>8
<1>11. g.bitmap \subseteq Bloques
  BY <1>3, <1>5
<1>12. \A t \in Trips : EnBits(g, Bitacora(t))
  BY <1>10, Nombres DEF EnBits
<1>13. \A x \in Archivos : ~g.archivo[x].existe => Lista(g, x) = <<>>
  BY <1>1, <1>5, <1>7
<1>14. Punto(g, TRUE)
  BY <1>5, <1>9, <1>10, <1>11, <1>12, <1>13 DEF Punto
<1>15. Marcados(g)
  BY <1>10 DEF Marcados
<1>16. ASSUME Residuos = {{}}, NEW b \in g.bitmap
       PROVE  \E a \in Archivos : \E i \in 1..Len(Lista(g, a)) : Lista(g, a)[i] = b
  <2>1. residuo = {}
    BY <1>16
  <2>2. b \in Listados(f, A)
    BY <1>3, <1>5, <2>1
  <2>3. \E x \in A : \E i \in 1..Len(Lista(f, x)) : Lista(f, x)[i] = b
    BY <1>1, <1>6, <2>2, ListadosEs
  <2> QED BY <1>6, <1>7, <2>3
<1> QED BY <1>14, <1>15, <1>16 DEF Fin, Cubre

(* What holds of the lists however they are, holds when they are in order.  *)
LEMMA PuntoDebil ==
  ASSUME NEW f, Punto(f, TRUE), NEW u
  PROVE  Punto(f, u)
BY DEF Punto

-----------------------------------------------------------------------------
(* fsck: the contents, the sizes and the counts *)

LEMMA HastaTexto ==
  ASSUME NEW C, NEW s \in Seq(C), NEW x
  PROVE  Hasta(s, x) \in Seq(C)
<1>1. Len(s) \in Nat /\ DOMAIN s = 1..Len(s) /\ \A i \in 1..Len(s) : s[i] \in C
  BY LenProperties, ElementOfSeq
<1>2. PICK K : K = {i \in DOMAIN s : s[i] = x}
  OBVIOUS
<1>3. CASE \E i \in DOMAIN s : s[i] = x
  <2>1. K \subseteq Nat /\ K # {}
    BY <1>1, <1>2, <1>3
  <2>2. \E m \in K : \A j \in K : m <= j
    BY ONLY <2>1, MinimoNat
  <2>3. PICK m : m = Min(K)
    OBVIOUS
  <2>4. m \in K
    BY ONLY <2>2, <2>3 DEF Min
  <2>5. m \in 1..Len(s)
    BY ONLY <1>1, <1>2, <2>4
  <2>6. m - 1 \in Int /\ 1 \in Int /\ \A i \in 1..(m - 1) : s[i] \in C
    BY ONLY <1>1, <2>5
  <2>7. SubSeq(s, 1, m - 1) \in Seq(C)
    BY ONLY <2>6, SubSeqProperties
  <2> QED BY <1>2, <1>3, <2>3, <2>7 DEF Hasta
<1>4. CASE ~\E i \in DOMAIN s : s[i] = x
  BY <1>4 DEF Hasta
<1> QED BY <1>3, <1>4

LEMMA VisibleLargo ==
  ASSUME NEW m, NEW blocks \in Seq(Nat)
  PROVE  Len(Visible(m, blocks)) \in Nat
<1>1. PICK n : n = Len(blocks) * tamanioBloque
  OBVIOUS
<1>2. n \in Nat
  <2>1. Len(blocks) \in Nat /\ tamanioBloque \in Nat
    BY SistemaOK, LenProperties
  <2> QED BY ONLY <1>1, <2>1
<1>3. PICK w : w = Levantar(m, blocks)
  OBVIOUS
<1>4. w = [k \in 1..n |-> w[k]]
  BY <1>1, <1>3 DEF Levantar
<1>5. PICK C : C = {w[k] : k \in 1..n}
  OBVIOUS
<1>6. w \in Seq(C)
  BY ONLY <1>2, <1>4, <1>5
<1>7. Hasta(w, NUL) \in Seq(C)
  BY ONLY <1>6, HastaTexto
<1>8. PICK v : v = Hasta(w, NUL)
  OBVIOUS
<1>9. Hasta(v, "|") \in Seq(C)
  BY ONLY <1>7, <1>8, HastaTexto
<1>10. Visible(m, blocks) = Hasta(v, "|")
  BY <1>3, <1>8 DEF Visible
<1> QED BY ONLY <1>9, <1>10, LenProperties

LEMMA BlocksQueda ==
  ASSUME NEW f, Formado(f), NEW r \in Recursos
  PROVE  Queda(f, validarBlocksRecursos(f, r))
<1>1. f = [bitmap |-> f.bitmap, cantidad |-> f.cantidad, archivo |-> f.archivo, disco |-> f.disco,
           copia |-> f.copia, vivo |-> f.vivo, desborde |-> f.desborde]
  BY DEF Formado
<1>2. PICK d : d = Relleno(f, r)
  OBVIOUS
<1>3. PICK g : g = [f EXCEPT !.disco = d, !.copia = d]
  OBVIOUS
<1>4. validarBlocksRecursos(f, r) = f \/ validarBlocksRecursos(f, r) = g
  BY <1>2, <1>3 DEF validarBlocksRecursos
<1>5. Contenido(f, g)
  BY ONLY <1>1, <1>3 DEF Contenido
<1>6. Queda(f, g)
  BY ONLY Formado(f), <1>5, ContenidoQueda
<1>7. Queda(f, f)
  BY QuedaIgual
<1> QED BY <1>4, <1>6, <1>7

LEMMA SizeFsckQueda ==
  ASSUME NEW f, Formado(f), NEW r \in Recursos
  PROVE  Queda(f, validarSizeRecurso(f, r))
<1>1. PICK a : a = File(r)
  OBVIOUS
<1>2. a \in Archivos
  BY <1>1, Nombres
<1>3. EsMetadata(f.archivo[a])
  BY <1>2 DEF Formado
<1>4. PICK n : n = Len(Visible(f.disco, f.archivo[a].blocks))
  OBVIOUS
<1>5. n \in Int
  <2>1. f.archivo[a].blocks \in Seq(Nat)
    BY ONLY <1>3 DEF EsMetadata
  <2> QED BY ONLY <1>4, <2>1, VisibleLargo
<1>6. PICK m : m = [f.archivo[a] EXCEPT !.size = n]
  OBVIOUS
<1>7. PICK g : g = validarSizeRecurso(f, r)
  OBVIOUS
<1>8. Cambia(f, g, a, m)
  BY <1>1, <1>4, <1>6, <1>7 DEF Cambia, validarSizeRecurso
<1>9. /\ EsMetadata(m) /\ m.blocks = f.archivo[a].blocks /\ m.count = f.archivo[a].count
      /\ m.existe = f.archivo[a].existe
  BY ONLY <1>3, <1>5, <1>6 DEF EsMetadata
<1>10. Queda(f, g)
  BY ONLY Formado(f), <1>2, <1>8, <1>9, CambiaQueda
<1> QED BY <1>7, <1>10

LEMMA CuentaFsckToca ==
  ASSUME NEW f, Formado(f), NEW r \in Recursos, NEW a, a = File(r), NEW g, g = validarBlockCountRecurso(f, r)
  PROVE  /\ Toca(f, g, a) /\ Lista(g, a) = Lista(f, a) /\ g.archivo[a].count = Len(Lista(g, a))
         /\ g.archivo[a].existe = f.archivo[a].existe
<1>1. a \in Archivos
  BY Nombres
<1>2. EsMetadata(f.archivo[a])
  BY <1>1 DEF Formado
<1>3. PICK n : n = Len(f.archivo[a].blocks)
  OBVIOUS
<1>4. n \in Int
  BY <1>1, <1>3, ListaTipo DEF Lista
<1>5. PICK m : m = [f.archivo[a] EXCEPT !.count = n]
  OBVIOUS
<1>6. Cambia(f, g, a, m)
  BY <1>3, <1>5 DEF Cambia, validarBlockCountRecurso
<1>7. EsMetadata(m) /\ m.blocks = f.archivo[a].blocks /\ m.count = n /\ m.existe = f.archivo[a].existe
  BY ONLY <1>2, <1>4, <1>5 DEF EsMetadata
<1>8. Toca(f, g, a) /\ g.archivo[a] = m
  BY ONLY Formado(f), <1>1, <1>6, <1>7, TocaArchivo
<1> QED BY ONLY <1>3, <1>7, <1>8 DEF Lista

-----------------------------------------------------------------------------
(* fsck: each repair for each resource *)

Arregla(q, f, r) ==
  IF q = "listas" THEN validacionEsValidaLista(f, r) ELSE IF q = "blocks" THEN validarBlocksRecursos(f, r) ELSE
  IF q = "size" THEN validarSizeRecurso(f, r) ELSE validarBlockCountRecurso(f, r)
UnoDe(q, z, r) == IF r \in Recursos THEN Append(z, Arregla(q, Last(z), r)) ELSE z
DeCada(q, z) == UnoDe(q, UnoDe(q, UnoDe(q, z, "Oxigeno"), "Comida"), "Basura")

LEMMA CadaEs ==
  ASSUME NEW z
  PROVE  /\ Cada(z, validacionEsValidaLista) = DeCada("listas", z)
         /\ Cada(z, validarBlocksRecursos) = DeCada("blocks", z)
         /\ Cada(z, validarSizeRecurso) = DeCada("size", z)
         /\ Cada(z, validarBlockCountRecurso) = DeCada("count", z)
<1>1. /\ \A f, r : Arregla("listas", f, r) = validacionEsValidaLista(f, r)
      /\ \A f, r : Arregla("blocks", f, r) = validarBlocksRecursos(f, r)
      /\ \A f, r : Arregla("size", f, r) = validarSizeRecurso(f, r)
      /\ \A f, r : Arregla("count", f, r) = validarBlockCountRecurso(f, r)
  BY DEF Arregla
<1> QED BY <1>1 DEF Cada, DeCada, UnoDe

(* What holds when the resources R have been repaired. *)
Etapa(q, f, R, u) ==
  IF q = "listas" THEN Punto(f, u) /\ Salteadas(f) = {} /\ \A r \in R : EnBits(f, File(r))
  ELSE /\ Fin(f, TRUE, FALSE) /\ Cubre(f)
       /\ q = "count" => \A r \in R : f.archivo[File(r)].count = Len(Lista(f, File(r)))

LEMMA SalteadasIguales ==
  ASSUME NEW f, NEW g, \A t \in Trips : g.archivo[Bitacora(t)].existe = f.archivo[Bitacora(t)].existe
                                        /\ Lista(g, Bitacora(t)) = Lista(f, Bitacora(t))
  PROVE  Salteadas(g) = Salteadas(f)
<1>1. Revisadas(g) = Revisadas(f)
  BY DEF Revisadas
<1> QED BY <1>1 DEF Salteadas, Lista

LEMMA ArreglaListas ==
  ASSUME NEW f, NEW R, NEW u, Etapa("listas", f, R, u), u \/ BitAjeno = FALSE, R \subseteq Recursos, NEW r \in Recursos
  PROVE  Etapa("listas", Arregla("listas", f, r), R \cup {r}, u)
<1>1. PICK g : g = validacionEsValidaLista(f, r)
  OBVIOUS
<1>2. Arregla("listas", f, r) = g
  BY <1>1 DEF Arregla
<1>3. PICK a : a = File(r)
  OBVIOUS
<1>4. Punto(f, u) /\ Salteadas(f) = {} /\ \A q \in R : EnBits(f, File(q))
  BY DEF Etapa
<1>5. /\ Punto(g, u) /\ EnBits(g, a) /\ Toca(f, g, a)
      /\ \A x \in Archivos : g.archivo[x].existe = f.archivo[x].existe
  <2>1. Punto(f, u) /\ (u \/ BitAjeno = FALSE) /\ r \in Recursos /\ a = File(r) /\ g = validacionEsValidaLista(f, r)
    BY <1>1, <1>3, <1>4
  <2> QED BY ONLY <2>1, ListaBien, ZenonT(60)
<1>6. g.bitmap = f.bitmap /\ \A x \in Archivos \ {a} : Lista(g, x) = Lista(f, x)
  BY <1>5 DEF Toca, Lista
<1>7. ASSUME NEW q \in R \cup {r} PROVE EnBits(g, File(q))
  <2>1. File(q) \in Archivos
    BY Nombres
  <2>2. CASE File(q) = a
    BY <1>5, <2>2
  <2>3. CASE File(q) # a
    <3>1. q \in R
      BY <1>3, <2>3
    <3> QED BY <1>4, <1>6, <2>1, <2>3, <3>1 DEF EnBits
  <2> QED BY <2>2, <2>3
<1>8. Salteadas(g) = {}
  <2>1. ASSUME NEW t \in Trips
        PROVE  /\ g.archivo[Bitacora(t)].existe = f.archivo[Bitacora(t)].existe
               /\ Lista(g, Bitacora(t)) = Lista(f, Bitacora(t))
    <3>1. Bitacora(t) \in Archivos \ {a}
      BY <1>3, Nombres
    <3> QED BY <1>5, <1>6, <3>1
  <2> QED BY <1>4, <2>1, SalteadasIguales
<1> QED BY <1>2, <1>5, <1>7, <1>8 DEF Etapa

LEMMA ArreglaResto ==
  ASSUME NEW q \in {"blocks", "size", "count"}, NEW f, NEW R, NEW u, Etapa(q, f, R, u), R \subseteq Recursos,
         NEW r \in Recursos
  PROVE  Etapa(q, Arregla(q, f, r), R \cup {r}, u)
<1>1. PICK g : g = Arregla(q, f, r)
  OBVIOUS
<1>2. Fin(f, TRUE, FALSE) /\ Cubre(f) /\ Formado(f) /\ Punto(f, TRUE) /\ Marcados(f)
  BY DEF Etapa, Fin, Punto
<1>3. CASE q # "count"
  <2>1. Queda(f, g)
    BY <1>1, <1>2, <1>3, BlocksQueda, SizeFsckQueda DEF Arregla
  <2>2. Fin(g, TRUE, FALSE)
    BY <1>2, <2>1, QuedaFin
  <2>3. Cubre(g)
    BY <1>2, <2>1 DEF Cubre, Queda
  <2> QED BY <1>1, <1>3, <2>2, <2>3 DEF Etapa
<1>4. CASE q = "count"
  <2>1. PICK a : a = File(r)
    OBVIOUS
  <2>2. a \in Archivos
    BY <2>1, Nombres
  <2>3. /\ Toca(f, g, a) /\ Lista(g, a) = Lista(f, a) /\ g.archivo[a].count = Len(Lista(g, a))
        /\ g.archivo[a].existe = f.archivo[a].existe
    BY <1>1, <1>2, <1>4, <2>1, CuentaFsckToca DEF Arregla
  <2>4. Punto(g, TRUE) /\ Marcados(g)
    BY <1>2, <2>2, <2>3, ContadoPunto
  <2>5. g.bitmap = f.bitmap /\ \A x \in Archivos : Lista(g, x) = Lista(f, x)
    BY <2>3 DEF Toca, Lista
  <2>6. Cubre(g)
    BY <1>2, <2>5 DEF Cubre
  <2>7. ASSUME NEW p \in R \cup {r} PROVE g.archivo[File(p)].count = Len(Lista(g, File(p)))
    <3>1. File(p) \in Archivos
      BY Nombres
    <3>2. CASE File(p) = a
      BY <2>3, <3>2
    <3>3. CASE File(p) # a
      <4>1. p \in R
        BY <2>1, <3>3
      <4>2. g.archivo[File(p)] = f.archivo[File(p)]
        BY <2>3, <3>1, <3>3 DEF Toca
      <4>3. f.archivo[File(p)].count = Len(Lista(f, File(p)))
        BY <1>4, <4>1 DEF Etapa
      <4> QED BY <4>2, <4>3 DEF Lista
    <3> QED BY <3>2, <3>3
  <2> QED BY <1>1, <1>4, <2>4, <2>6, <2>7 DEF Etapa, Fin
<1> QED BY <1>3, <1>4

LEMMA EtapaPunto ==
  ASSUME NEW q, NEW f, NEW R, NEW u, Etapa(q, f, R, u)
  PROVE  Punto(f, u)
BY PuntoDebil DEF Etapa, Fin

LEMMA UnoDeBien ==
  ASSUME NEW q \in {"listas", "blocks", "size", "count"}, NEW z, NEW u, Traza(z, u), NEW R,
         Etapa(q, Last(z), R, u), u \/ BitAjeno = FALSE, R \subseteq Recursos, NEW r
  PROVE  /\ Traza(UnoDe(q, z, r), u) /\ Etapa(q, Last(UnoDe(q, z, r)), R \cup ({r} \cap Recursos), u)
         /\ R \cup ({r} \cap Recursos) \subseteq Recursos
<1>1. CASE r \notin Recursos
  <2>1. R \cup ({r} \cap Recursos) = R
    BY <1>1
  <2> QED BY <1>1, <2>1 DEF UnoDe
<1>2. CASE r \in Recursos
  <2>1. PICK f : f = Last(z)
    OBVIOUS
  <2>2. PICK g : g = Arregla(q, f, r)
    OBVIOUS
  <2>3. R \cup ({r} \cap Recursos) = R \cup {r}
    BY <1>2
  <2>4. Etapa(q, g, R \cup {r}, u)
    <3>1. CASE q = "listas"
      BY <1>2, <2>1, <2>2, <3>1, ArreglaListas
    <3>2. CASE q # "listas"
      BY <1>2, <2>1, <2>2, <3>2, ArreglaResto
    <3> QED BY <3>1, <3>2
  <2>5. Punto(g, u)
    BY <2>4, EtapaPunto
  <2>6. Traza(Append(z, g), u) /\ Last(Append(z, g)) = g
    BY <2>5, TrazaMas
  <2>7. UnoDe(q, z, r) = Append(z, g)
    BY <1>2, <2>1, <2>2 DEF UnoDe
  <2> QED BY <1>2, <2>3, <2>4, <2>6, <2>7
<1> QED BY <1>1, <1>2

LEMMA DeCadaBien ==
  ASSUME NEW q \in {"listas", "blocks", "size", "count"}, NEW z, NEW u, Traza(z, u),
         Etapa(q, Last(z), {}, u), u \/ BitAjeno = FALSE
  PROVE  Traza(DeCada(q, z), u) /\ Etapa(q, Last(DeCada(q, z)), Recursos, u)
<1>1. PICK y : y = UnoDe(q, z, "Oxigeno")
  OBVIOUS
<1>2. PICK x : x = UnoDe(q, y, "Comida")
  OBVIOUS
<1>3. PICK w : w = UnoDe(q, x, "Basura")
  OBVIOUS
<1>4. DeCada(q, z) = w
  BY <1>1, <1>2, <1>3 DEF DeCada
<1>0. PICK R0 : R0 = {}
  OBVIOUS
<1>5. PICK R1 : R1 = R0 \cup ({"Oxigeno"} \cap Recursos)
  OBVIOUS
<1>6. Traza(y, u) /\ Etapa(q, Last(y), R1, u) /\ R1 \subseteq Recursos
  <2>1. R0 \subseteq Recursos /\ Etapa(q, Last(z), R0, u)
    BY <1>0
  <2> QED BY <1>1, <1>5, <2>1, UnoDeBien
<1>7. PICK R2 : R2 = R1 \cup ({"Comida"} \cap Recursos)
  OBVIOUS
<1>8. Traza(x, u) /\ Etapa(q, Last(x), R2, u) /\ R2 \subseteq Recursos
  BY <1>2, <1>6, <1>7, UnoDeBien
<1>9. PICK R3 : R3 = R2 \cup ({"Basura"} \cap Recursos)
  OBVIOUS
<1>10. Traza(w, u) /\ Etapa(q, Last(w), R3, u)
  BY <1>3, <1>8, <1>9, UnoDeBien
<1>11. R3 = Recursos
  BY <1>0, <1>5, <1>7, <1>9, SistemaOK
<1> QED BY <1>4, <1>10, <1>11

LEMMA ListasYBitsBien ==
  ASSUME NEW f, NEW u, Punto(f, u), u \/ BitAjeno = FALSE, Salteadas(f) = {}, NEW residuo \in Residuos
  PROVE  LET z == ListasYBits(f, residuo)
         IN  Traza(z, u) /\ Fin(Last(z), TRUE, FALSE) /\ Cubre(Last(z))
<1>1. PICK y : y = DeCada("listas", <<f>>)
  OBVIOUS
<1>2. PICK g : g = Last(y)
  OBVIOUS
<1>3. PICK h : h = validarCantidadBloques(g)
  OBVIOUS
<1>4. PICK w : w = Append(y, h)
  OBVIOUS
<1>5. Traza(y, u) /\ Punto(g, u) /\ Salteadas(g) = {} /\ \A r \in Recursos : EnBits(g, File(r))
  <2>1. PICK x : x = <<f>>
    OBVIOUS
  <2>2. Traza(x, u) /\ Last(x) = f
    BY <2>1, TrazaUna
  <2>3. PICK R : R = {}
    OBVIOUS
  <2>4. Etapa("listas", Last(x), R, u)
    BY <2>2, <2>3 DEF Etapa
  <2>5. Traza(DeCada("listas", x), u) /\ Etapa("listas", Last(DeCada("listas", x)), Recursos, u)
    BY <2>2, <2>3, <2>4, DeCadaBien
  <2> QED BY <1>1, <1>2, <2>1, <2>5 DEF Etapa
<1>6. Queda(g, h) /\ h.archivo = g.archivo
  <2>1. Formado(g)
    BY <1>5 DEF Punto
  <2>2. g = [bitmap |-> g.bitmap, cantidad |-> g.cantidad, archivo |-> g.archivo, disco |-> g.disco,
             copia |-> g.copia, vivo |-> g.vivo, desborde |-> g.desborde]
    BY <2>1 DEF Formado
  <2>3. Contenido(g, h)
    BY ONLY <1>3, <2>2 DEF Contenido, validarCantidadBloques
  <2> QED BY ONLY <2>1, <2>3, ContenidoQueda
<1>7. Punto(h, u)
  BY ONLY <1>5, <1>6, QuedaPunto
<1>8. Traza(w, u) /\ Last(w) = h
  BY ONLY <1>4, <1>5, <1>7, TrazaMas
<1>9. Salteadas(h) = {} /\ \A r \in Recursos : EnBits(h, File(r))
  <2>1. Salteadas(h) = Salteadas(g)
    BY ONLY <1>6, SalteadasIguales DEF Lista
  <2>2. h.bitmap = g.bitmap
    BY ONLY <1>6 DEF Queda
  <2> QED BY ONLY <1>5, <1>6, <2>1, <2>2 DEF EnBits, Lista
<1>10. PICK k : k = validarBitmapSabotaje(h, residuo)
  OBVIOUS
<1>11. Fin(k, TRUE, FALSE) /\ Cubre(k)
  BY <1>7, <1>9, <1>10, MapaBien
<1>12. Punto(k, u)
  BY <1>11, PuntoDebil DEF Fin
<1>13. Traza(Append(w, k), u) /\ Last(Append(w, k)) = k
  BY <1>8, <1>12, TrazaMas
<1>14. ListasYBits(f, residuo) = Append(w, k)
  BY <1>1, <1>2, <1>3, <1>4, <1>8, <1>10, CadaEs DEF ListasYBits
<1> QED BY <1>11, <1>13, <1>14

LEMMA FsckBien ==
  ASSUME NEW f, NEW u, Punto(f, u), u \/ BitAjeno = FALSE, Salteadas(f) = {}, NEW residuo \in Residuos,
         NEW z, z = protocolo_fsck(f, residuo)
  PROVE  Traza(z, u) /\ Fin(Last(z), TRUE, TRUE)
<1>1. PICK y : y = ListasYBits(f, residuo)
  OBVIOUS
<1>2. PICK R0 : R0 = {}
  OBVIOUS
<1>3. Traza(y, u) /\ Etapa("blocks", Last(y), R0, u)
  <2>1. Traza(y, u) /\ Fin(Last(y), TRUE, FALSE) /\ Cubre(Last(y))
    BY <1>1, ListasYBitsBien
  <2> QED BY <2>1 DEF Etapa
<1>4. PICK x : x = DeCada("blocks", y)
  OBVIOUS
<1>5. Traza(x, u) /\ Etapa("size", Last(x), R0, u)
  <2>1. Traza(x, u) /\ Etapa("blocks", Last(x), Recursos, u)
    BY <1>2, <1>3, <1>4, DeCadaBien
  <2> QED BY <2>1 DEF Etapa
<1>6. PICK w : w = DeCada("size", x)
  OBVIOUS
<1>7. Traza(w, u) /\ Etapa("count", Last(w), R0, u)
  <2>1. Traza(w, u) /\ Etapa("size", Last(w), Recursos, u)
    BY <1>2, <1>5, <1>6, DeCadaBien
  <2> QED BY <1>2, <2>1 DEF Etapa
<1>8. PICK v : v = DeCada("count", w)
  OBVIOUS
<1>9. Traza(v, u) /\ Etapa("count", Last(v), Recursos, u)
  BY <1>2, <1>7, <1>8, DeCadaBien
<1>10. z = v
  BY <1>1, <1>4, <1>6, <1>8, CadaEs DEF protocolo_fsck
<1>11. Fin(Last(v), TRUE, TRUE)
  BY <1>9 DEF Etapa, Fin, Exacta, Cubre
<1> QED BY <1>9, <1>10, <1>11

-----------------------------------------------------------------------------
(* Requests *)

LEMMA MorirHistoria ==
  ASSUME NEW h, EsHistoria(h), NEW f, NEW corte
  PROVE  LET m == AlMorir(h, f, corte)
         IN  /\ EsHistoria(m) /\ h.fallas \subseteq m.fallas /\ m.fallas \subseteq h.fallas \cup {"corte", "viejo"}
             /\ (corte => "corte" \in m.fallas) /\ (~corte => m.fallas \subseteq h.fallas \cup {"viejo"})
<1>1. h = [cantidad |-> h.cantidad, notas |-> h.notas, sinCopiar |-> h.sinCopiar,
           perdidas |-> h.perdidas, fallas |-> h.fallas]
  BY DEF EsHistoria
<1>2. PICK P : P = h.perdidas \cup h.sinCopiar
  OBVIOUS
<1>3. PICK F : F = h.fallas \cup (IF corte THEN {"corte"} ELSE {})
                     \cup (IF f.copia # f.disco THEN {"viejo"} ELSE {})
  OBVIOUS
<1>4. PICK m : m = [h EXCEPT !.perdidas = P, !.sinCopiar = {}, !.fallas = F]
  OBVIOUS
<1>5. AlMorir(h, f, corte) = m
  BY <1>2, <1>3, <1>4 DEF AlMorir
<1>6. m = [cantidad |-> h.cantidad, notas |-> h.notas, sinCopiar |-> {}, perdidas |-> P, fallas |-> F]
  BY ONLY <1>1, <1>4
<1>7. EsHistoria(m) /\ m.fallas = F
  BY ONLY <1>6 DEF EsHistoria
<1>8. /\ h.fallas \subseteq F /\ F \subseteq h.fallas \cup {"corte", "viejo"}
      /\ (corte => "corte" \in F) /\ (~corte => F \subseteq h.fallas \cup {"viejo"})
  BY ONLY <1>3
<1> QED BY ONLY <1>5, <1>7, <1>8

LEMMA ValeMuere ==
  ASSUME NEW f, NEW F, NEW d, Vale(f, F, d), NEW G, F \subseteq G
  PROVE  Vale(Morir(f), G, d)
<1> SUFFICES ASSUME G \cap {"salteo", "doble"} = {}
             PROVE  /\ Punto(Morir(f), d.tipo # "bloque")
                    /\ "corte" \notin G /\ d.tipo = "no" => Fin(Morir(f), TRUE, TRUE)
  BY DEF Vale
<1>1. /\ Punto(f, d.tipo # "bloque")
      /\ "corte" \notin G /\ d.tipo = "no" => Fin(f, TRUE, TRUE)
  BY DEF Vale
<1>2. Formado(f)
  BY <1>1 DEF Punto
<1>3. Queda(f, Morir(f))
  BY <1>2, MorirQueda
<1> QED BY <1>1, <1>3, QuedaPunto, QuedaFin

LEMMA ServirCasos ==
  ASSUME NEW traza, NEW h, NEW d, Servir(traza, h, d)
  PROVE  \/ /\ fs' = Last(traza) /\ danio' = d
            /\ \/ hist' = h
               \/ \E e : hist' = AlMorir([h EXCEPT !.cantidad = hist.cantidad], e, FALSE)
         \/ \E k \in 2..(Len(traza) - 1) :
              /\ fs' = Morir(traza[k])
              /\ \/ d = danio /\ danio' = danio /\ hist' = AlMorir(h, traza[k], TRUE)
                 \/ /\ d # danio /\ danio' = [danio EXCEPT !.avisado = FALSE]
                    /\ \E X : hist' = AlMorir([hist EXCEPT !.fallas = hist.fallas \cup (h.fallas \ {"size"}) \cup X],
                                              traza[k], FALSE)
<1>1. CASE /\ fs' = Last(traza)
           /\ \/ fs'.vivo /\ hist' = h
              \/ ~fs'.vivo /\ hist' = AlMorir([h EXCEPT !.cantidad = hist.cantidad],
                                             IF Len(traza) > 1 THEN Last(Front(traza)) ELSE fs, FALSE)
           /\ danio' = d
  <2>1. PICK e : e = IF Len(traza) > 1 THEN Last(Front(traza)) ELSE fs
    OBVIOUS
  <2>2. hist' = h \/ hist' = AlMorir([h EXCEPT !.cantidad = hist.cantidad], e, FALSE)
    BY <1>1, <2>1, Zenon
  <2> QED BY <1>1, <2>2, Zenon
<1>2. CASE /\ \E k \in 2..(Len(traza) - 1) :
                /\ fs' = Morir(traza[k])
                /\ hist' = IF d = danio THEN AlMorir(h, traza[k], TRUE)
                           ELSE AlMorir([hist EXCEPT !.fallas = @ \cup (h.fallas \ {"size"})
                                           \cup (IF SIZEPerdido(traza[k]) THEN {"size"} ELSE {})], traza[k], FALSE)
           /\ danio' = IF d = danio THEN d ELSE [danio EXCEPT !.avisado = FALSE]
  <2>1. PICK k \in 2..(Len(traza) - 1) :
                /\ fs' = Morir(traza[k])
                /\ hist' = IF d = danio THEN AlMorir(h, traza[k], TRUE)
                           ELSE AlMorir([hist EXCEPT !.fallas = @ \cup (h.fallas \ {"size"})
                                           \cup (IF SIZEPerdido(traza[k]) THEN {"size"} ELSE {})], traza[k], FALSE)
    BY <1>2, Zenon
  <2>2. PICK X : X = IF SIZEPerdido(traza[k]) THEN {"size"} ELSE {}
    OBVIOUS
  <2>3. CASE d = danio
    <3>1. danio' = danio /\ hist' = AlMorir(h, traza[k], TRUE)
      BY <1>2, <2>1, <2>3, Zenon
    <3> QED BY <2>1, <2>3, <3>1, Zenon
  <2>4. CASE d # danio
    <3>1. /\ danio' = [danio EXCEPT !.avisado = FALSE]
          /\ hist' = AlMorir([hist EXCEPT !.fallas = hist.fallas \cup (h.fallas \ {"size"}) \cup X], traza[k], FALSE)
      BY <1>2, <2>1, <2>2, <2>4, Zenon
    <3> QED BY <2>1, <2>4, <3>1, Zenon
  <2> QED BY <2>3, <2>4
<1> QED BY <1>1, <1>2, Zenon DEF Servir

(* The history with other quantities, or with more faults. *)
LEMMA OtraHistoria ==
  ASSUME NEW h, EsHistoria(h), NEW x
  PROVE  /\ EsHistoria([h EXCEPT !.cantidad = x]) /\ [h EXCEPT !.cantidad = x].fallas = h.fallas
         /\ EsHistoria([h EXCEPT !.fallas = x]) /\ [h EXCEPT !.fallas = x].fallas = x
<1>1. h = [cantidad |-> h.cantidad, notas |-> h.notas, sinCopiar |-> h.sinCopiar,
           perdidas |-> h.perdidas, fallas |-> h.fallas]
  BY DEF EsHistoria
<1>2. [h EXCEPT !.cantidad = x] = [cantidad |-> x, notas |-> h.notas, sinCopiar |-> h.sinCopiar,
                                   perdidas |-> h.perdidas, fallas |-> h.fallas]
  BY ONLY <1>1
<1>3. [h EXCEPT !.fallas = x] = [cantidad |-> h.cantidad, notas |-> h.notas, sinCopiar |-> h.sinCopiar,
                                 perdidas |-> h.perdidas, fallas |-> x]
  BY ONLY <1>1
<1> QED BY ONLY <1>2, <1>3 DEF EsHistoria

LEMMA PedidoBien ==
  ASSUME InvBloques, NEW traza, \A u, c : Fin(fs, u, c) => TrazaFin(traza, u, c),
         NEW h, EsHistoria(h), hist.fallas \subseteq h.fallas, SinBit(fs) # {} => "doble" \in h.fallas,
         Servir(traza, h, danio)
  PROVE  InvBloques'
<1> DEFINE limpia(F) == F \cap {"salteo", "doble"} = {}
           u == danio.tipo # "bloque"
<1>1. EsHistoria(hist) /\ EsDanio(danio) /\ Vale(fs, hist.fallas, danio)
  BY DEF InvBloques
<1>2. ASSUME limpia(h.fallas)
      PROVE  /\ TrazaFin(traza, u, FALSE)
             /\ "corte" \notin hist.fallas /\ danio.tipo = "no" => TrazaFin(traza, TRUE, TRUE)
  <2>1. limpia(hist.fallas) /\ SinBit(fs) = {}
    BY <1>2
  <2>2. /\ Punto(fs, u)
        /\ "corte" \notin hist.fallas /\ danio.tipo = "no" => Fin(fs, TRUE, TRUE)
    BY <1>1, <2>1 DEF Vale
  <2>3. Marcados(fs)
    BY <2>1, <2>2, SinBitMarcados DEF Punto
  <2>4. Fin(fs, u, FALSE)
    BY <2>2, <2>3 DEF Fin
  <2> QED BY <2>2, <2>4
<1>3. CASE /\ fs' = Last(traza) /\ danio' = danio
           /\ \/ hist' = h
              \/ \E e : hist' = AlMorir([h EXCEPT !.cantidad = hist.cantidad], e, FALSE)
  <2>1. EsHistoria(hist') /\ h.fallas \subseteq hist'.fallas
    <3>1. CASE hist' = h
      BY <3>1
    <3>2. CASE \E e : hist' = AlMorir([h EXCEPT !.cantidad = hist.cantidad], e, FALSE)
      <4>1. PICK e : hist' = AlMorir([h EXCEPT !.cantidad = hist.cantidad], e, FALSE)
        BY <3>2
      <4>2. PICK k : k = [h EXCEPT !.cantidad = hist.cantidad]
        OBVIOUS
      <4>3. PICK x : x = hist.cantidad
        OBVIOUS
      <4>4. EsHistoria(k) /\ k.fallas = h.fallas
        BY ONLY EsHistoria(h), <4>2, <4>3, OtraHistoria
      <4>5. hist' = AlMorir(k, e, FALSE)
        BY <4>1, <4>2
      <4> QED BY ONLY <4>4, <4>5, MorirHistoria
    <3> QED BY <1>3, <3>1, <3>2
  <2>2. Vale(fs', hist'.fallas, danio')
    <3> SUFFICES ASSUME limpia(hist'.fallas)
                 PROVE  /\ Punto(fs', u)
                        /\ "corte" \notin hist'.fallas /\ danio.tipo = "no" => Fin(fs', TRUE, TRUE)
      BY <1>3 DEF Vale
    <3>1. limpia(h.fallas)
      BY <2>1
    <3>2. Punto(fs', u)
      BY <1>2, <1>3, <3>1 DEF TrazaFin, Fin
    <3>3. "corte" \notin hist'.fallas /\ danio.tipo = "no" => Fin(fs', TRUE, TRUE)
      BY <1>2, <1>3, <2>1, <3>1 DEF TrazaFin
    <3> QED BY <3>2, <3>3
  <2>3. EsDanio(danio')
    BY <1>1, <1>3
  <2> QED BY <2>1, <2>2, <2>3 DEF InvBloques
<1>4. CASE \E k \in 2..(Len(traza) - 1) : fs' = Morir(traza[k]) /\ danio' = danio /\ hist' = AlMorir(h, traza[k], TRUE)
  <2>1. PICK k \in 2..(Len(traza) - 1) : fs' = Morir(traza[k]) /\ danio' = danio /\ hist' = AlMorir(h, traza[k], TRUE)
    BY <1>4
  <2>2. EsHistoria(hist') /\ h.fallas \subseteq hist'.fallas /\ "corte" \in hist'.fallas
    BY <2>1, MorirHistoria
  <2>3. Vale(fs', hist'.fallas, danio')
    <3> SUFFICES ASSUME limpia(hist'.fallas) PROVE Punto(fs', u)
      BY <2>1, <2>2 DEF Vale
    <3>1. limpia(h.fallas)
      BY <2>2
    <3>2. Traza(traza, u)
      BY <1>2, <3>1 DEF TrazaFin
    <3>3. Len(traza) \in Nat /\ \A j \in 1..Len(traza) : Punto(traza[j], u)
      BY <3>2, TrazaPuntos
    <3>4. k \in 1..Len(traza)
      BY <3>3
    <3>5. Punto(traza[k], u)
      BY <3>3, <3>4
    <3>6. Queda(traza[k], Morir(traza[k]))
      BY <3>5, MorirQueda DEF Punto
    <3> QED BY <2>1, <3>5, <3>6, QuedaPunto
  <2>4. EsDanio(danio')
    BY <1>1, <2>1
  <2> QED BY <2>2, <2>3, <2>4 DEF InvBloques
<1> QED BY <1>3, <1>4, ServirCasos

Pedida(t, r, n) ==
  [Anotada(t) EXCEPT
     !.cantidad = IF r = "" THEN @ ELSE [@ EXCEPT ![r] = n],
     !.fallas = @ \cup (IF r # "" /\ Falla({"viejo"}) THEN {"size"} ELSE {})
                  \cup (IF SinBit(fs) # {} THEN {"doble"} ELSE {})]
LEMMA HistoriaPedida ==
  ASSUME EsHistoria(hist), NEW t, NEW r, NEW n, NEW h, h = Pedida(t, r, n)
  PROVE  EsHistoria(h) /\ hist.fallas \subseteq h.fallas /\ (SinBit(fs) # {} => "doble" \in h.fallas)
<1>1. hist = [cantidad |-> hist.cantidad, notas |-> hist.notas, sinCopiar |-> hist.sinCopiar,
              perdidas |-> hist.perdidas, fallas |-> hist.fallas]
  BY DEF EsHistoria
<1>2. PICK N : N = [hist.notas EXCEPT ![t] = hist.notas[t] \o Nota(t)]
  OBVIOUS
<1>3. PICK S : S = hist.sinCopiar \cup {t}
  OBVIOUS
<1>4. PICK k : k = [hist EXCEPT !.notas = N, !.sinCopiar = S]
  OBVIOUS
<1>5. k = [cantidad |-> hist.cantidad, notas |-> N, sinCopiar |-> S,
           perdidas |-> hist.perdidas, fallas |-> hist.fallas]
  BY ONLY <1>1, <1>4
<1>6. Anotada(t) = k
  BY <1>2, <1>3, <1>4 DEF Anotada
<1>7. PICK C : C = IF r = "" THEN k.cantidad ELSE [k.cantidad EXCEPT ![r] = n]
  OBVIOUS
<1>8. PICK F : F = k.fallas \cup (IF r # "" /\ Falla({"viejo"}) THEN {"size"} ELSE {})
                     \cup (IF SinBit(fs) # {} THEN {"doble"} ELSE {})
  OBVIOUS
<1>9. h = [k EXCEPT !.cantidad = C, !.fallas = F]
  BY <1>6, <1>7, <1>8 DEF Pedida
<1>10. h = [cantidad |-> C, notas |-> N, sinCopiar |-> S, perdidas |-> hist.perdidas, fallas |-> F]
  BY ONLY <1>5, <1>9
<1>11. EsHistoria(h) /\ h.fallas = F
  BY ONLY <1>10 DEF EsHistoria
<1>12. k.fallas = hist.fallas
  BY ONLY <1>5
<1>13. hist.fallas \subseteq F /\ (SinBit(fs) # {} => "doble" \in F)
  BY ONLY <1>8, <1>12
<1> QED BY ONLY <1>11, <1>13

(* The event is written, and then the task goes on: what it does, if it was *)
(* written.                                                                 *)
LEMMA EscritoBien ==
  ASSUME NEW f, NEW t \in Trips, NEW z, z = escribirEnBitacora(f, t), NEW x,
         \A u, c : Fin(Last(z), u, c) => TrazaFin(x, u, c), NEW y, y = z \o x \/ y = z
  PROVE  \A u, c : Fin(f, u, c) => TrazaFin(y, u, c)
<1> SUFFICES ASSUME NEW u, NEW c, Fin(f, u, c) PROVE TrazaFin(y, u, c)
  OBVIOUS
<1>1. TrazaFin(z, u, c)
  BY EscribirBien
<1>2. TrazaFin(x, u, c)
  BY <1>1 DEF TrazaFin
<1> QED BY <1>1, <1>2, FinSigue

LEMMA GenerarRecursoBien ==
  ASSUME InvBloques, NEW t \in Obreros, NEW r \in Recursos, NEW n \in Cantidades, GenerarRecurso(t, r, n)
  PROVE  InvBloques'
<1>1. PICK z : z = escribirEnBitacora(fs, t)
  OBVIOUS
<1>2. PICK x : x = generar(Last(z), r, n)
  OBVIOUS
<1>3. PICK y : y = IF Last(z).vivo THEN z \o x ELSE z
  OBVIOUS
<1>4. PICK h : h = Pedida(t, r, hist.cantidad[r] + n)
  OBVIOUS
<1>5. Servir(y, h, danio)
  BY <1>1, <1>2, <1>3, <1>4 DEF GenerarRecurso, Atender, Luego, Pedida
<1>6. t \in Trips /\ n \in Nat
  BY SistemaOK
<1>7. \A u, c : Fin(fs, u, c) => TrazaFin(y, u, c)
  <2>1. \A u, c : Fin(Last(z), u, c) => TrazaFin(x, u, c)
    BY <1>2, <1>6, GenerarBien
  <2> QED BY <1>1, <1>3, <1>6, <2>1, EscritoBien
<1>8. EsHistoria(h) /\ hist.fallas \subseteq h.fallas /\ (SinBit(fs) # {} => "doble" \in h.fallas)
  BY <1>4, HistoriaPedida DEF InvBloques
<1> QED BY <1>5, <1>7, <1>8, PedidoBien

LEMMA ConsumirRecursoBien ==
  ASSUME InvBloques, NEW t \in Obreros, NEW r \in Recursos, NEW n \in Cantidades, ConsumirRecurso(t, r, n)
  PROVE  InvBloques'
<1>1. PICK z : z = escribirEnBitacora(fs, t)
  OBVIOUS
<1>2. PICK x : x = consumir(Last(z), r, n)
  OBVIOUS
<1>3. PICK y : y = IF Last(z).vivo THEN z \o x ELSE z
  OBVIOUS
<1>4. PICK h : h = Pedida(t, r, IF n < hist.cantidad[r] THEN hist.cantidad[r] - n ELSE 0)
  OBVIOUS
<1>5. Servir(y, h, danio)
  BY <1>1, <1>2, <1>3, <1>4 DEF ConsumirRecurso, Atender, Luego, Pedida
<1>6. t \in Trips /\ n \in Nat
  BY SistemaOK
<1>7. \A u, c : Fin(fs, u, c) => TrazaFin(y, u, c)
  <2>1. \A u, c : Fin(Last(z), u, c) => TrazaFin(x, u, c)
    BY <1>2, <1>6, ConsumirBien
  <2> QED BY <1>1, <1>3, <1>6, <2>1, EscritoBien
<1>8. EsHistoria(h) /\ hist.fallas \subseteq h.fallas /\ (SinBit(fs) # {} => "doble" \in h.fallas)
  BY <1>4, HistoriaPedida DEF InvBloques
<1> QED BY <1>5, <1>7, <1>8, PedidoBien

LEMMA DescartarBasuraBien ==
  ASSUME InvBloques, NEW t \in Obreros, DescartarBasura(t)
  PROVE  InvBloques'
<1>1. PICK z : z = escribirEnBitacora(fs, t)
  OBVIOUS
<1>2. PICK x : x = descartarBasura(Last(z))
  OBVIOUS
<1>3. PICK y : y = IF Last(z).vivo THEN z \o x ELSE z
  OBVIOUS
<1>4. PICK h : h = Pedida(t, "Basura", 0)
  OBVIOUS
<1>5. Servir(y, h, danio) /\ "Basura" \in Recursos
  BY <1>1, <1>2, <1>3, <1>4 DEF DescartarBasura, Atender, Luego, Pedida
<1>6. t \in Trips
  BY SistemaOK
<1>7. \A u, c : Fin(fs, u, c) => TrazaFin(y, u, c)
  <2>1. \A u, c : Fin(Last(z), u, c) => TrazaFin(x, u, c)
    BY <1>2, <1>5, DescartarBien
  <2> QED BY <1>1, <1>3, <1>6, <2>1, EscritoBien
<1>8. EsHistoria(h) /\ hist.fallas \subseteq h.fallas /\ (SinBit(fs) # {} => "doble" \in h.fallas)
  BY <1>4, HistoriaPedida DEF InvBloques
<1> QED BY <1>5, <1>7, <1>8, PedidoBien

LEMMA EscribirEventoBien ==
  ASSUME InvBloques, NEW t \in Trips, EscribirEvento(t)
  PROVE  InvBloques'
<1>1. PICK z : z = escribirEnBitacora(fs, t)
  OBVIOUS
<1>2. PICK y : y = IF Last(z).vivo THEN z \o <<>> ELSE z
  OBVIOUS
<1>3. PICK h : h = Pedida(t, "", 0)
  OBVIOUS
<1>4. Servir(y, h, danio)
  BY <1>1, <1>2, <1>3 DEF EscribirEvento, Atender, Luego, Pedida
<1>5. \A u, c : Fin(fs, u, c) => TrazaFin(y, u, c)
  <2> SUFFICES ASSUME NEW u, NEW c, Fin(fs, u, c) PROVE TrazaFin(y, u, c)
    OBVIOUS
  <2>1. TrazaFin(z, u, c)
    BY <1>1, EscribirBien
  <2>2. z \o <<>> = z
    <3>1. PICK S : z \in Seq(S)
      BY <2>1 DEF TrazaFin, Traza
    <3> QED BY <3>1, ConcatEmptySeq
  <2> QED BY <1>2, <2>1, <2>2
<1>6. EsHistoria(h) /\ hist.fallas \subseteq h.fallas /\ (SinBit(fs) # {} => "doble" \in h.fallas)
  BY <1>3, HistoriaPedida DEF InvBloques
<1> QED BY <1>4, <1>5, <1>6, PedidoBien

-----------------------------------------------------------------------------
(* fsck, the damages and the rest *)

AlArreglar(fin) ==
  [hist EXCEPT
     !.cantidad = IF Falla({"corte"}) \/ SIZEPerdido(fin)
                    THEN [r \in Recursos |-> fin.archivo[File(r)].size] ELSE @,
     !.perdidas = IF fin.copia # fs.copia THEN @ \cup hist.sinCopiar ELSE @,
     !.fallas = (@ \ {"corte", "viejo"})
                  \cup (IF Salteadas(fs) # {} THEN {"salteo"} ELSE {})
                  \cup (IF SIZEPerdido(fin) THEN {"size"} ELSE {})]
LEMMA HistoriaArreglada ==
  ASSUME EsHistoria(hist), NEW fin, NEW h, h = AlArreglar(fin)
  PROVE  /\ EsHistoria(h) /\ hist.fallas \ {"corte", "viejo"} \subseteq h.fallas
         /\ (Salteadas(fs) # {} => "salteo" \in h.fallas)
<1>1. hist = [cantidad |-> hist.cantidad, notas |-> hist.notas, sinCopiar |-> hist.sinCopiar,
              perdidas |-> hist.perdidas, fallas |-> hist.fallas]
  BY DEF EsHistoria
<1>2. PICK C : C = IF Falla({"corte"}) \/ SIZEPerdido(fin)
                     THEN [r \in Recursos |-> fin.archivo[File(r)].size] ELSE hist.cantidad
  OBVIOUS
<1>3. PICK P : P = IF fin.copia # fs.copia THEN hist.perdidas \cup hist.sinCopiar ELSE hist.perdidas
  OBVIOUS
<1>4. PICK F : F = (hist.fallas \ {"corte", "viejo"})
                     \cup (IF Salteadas(fs) # {} THEN {"salteo"} ELSE {})
                     \cup (IF SIZEPerdido(fin) THEN {"size"} ELSE {})
  OBVIOUS
<1>5. h = [hist EXCEPT !.cantidad = C, !.perdidas = P, !.fallas = F]
  BY <1>2, <1>3, <1>4 DEF AlArreglar
<1>6. h = [cantidad |-> C, notas |-> hist.notas, sinCopiar |-> hist.sinCopiar, perdidas |-> P, fallas |-> F]
  BY ONLY <1>1, <1>5
<1>7. EsHistoria(h) /\ h.fallas = F
  BY ONLY <1>6 DEF EsHistoria
<1>8. hist.fallas \ {"corte", "viejo"} \subseteq F /\ (Salteadas(fs) # {} => "salteo" \in F)
  BY ONLY <1>4
<1> QED BY ONLY <1>7, <1>8

LEMMA InvocarFsckBien ==
  ASSUME BitSano, InvBloques, NEW residuo \in Residuos, InvocarFsck(residuo)
  PROVE  InvBloques'
<1> DEFINE limpia(F) == F \cap {"salteo", "doble"} = {}
           u == danio.tipo # "bloque"
<1>1. PICK traza : traza = protocolo_fsck(fs, residuo)
  OBVIOUS
<1>2. PICK h : h = AlArreglar(Last(traza))
  OBVIOUS
<1>3. Servir(traza, h, SinDanio) /\ danio.avisado
  BY <1>1, <1>2 DEF InvocarFsck, AlArreglar
<1>4. EsHistoria(hist) /\ EsDanio(danio) /\ Vale(fs, hist.fallas, danio)
  BY DEF InvBloques
<1>5. /\ EsHistoria(h) /\ hist.fallas \ {"corte", "viejo"} \subseteq h.fallas
      /\ (Salteadas(fs) # {} => "salteo" \in h.fallas)
  BY ONLY <1>2, <1>4, HistoriaArreglada
<1>6. danio.tipo \in Sabotajes /\ danio.tipo # "no" /\ (u \/ BitAjeno = FALSE)
  BY <1>3, <1>4 DEF EsDanio, BitSano
<1>7. EsDanio(SinDanio) /\ SinDanio.tipo = "no" /\ SinDanio.avisado = FALSE
  BY DEF SinDanio, EsDanio
<1>8. SinDanio # danio
  BY <1>3, <1>7
<1>9. ASSUME limpia(h.fallas)
      PROVE  Traza(traza, u) /\ Fin(Last(traza), TRUE, TRUE)
  <2>1. limpia(hist.fallas) /\ Salteadas(fs) = {}
    BY <1>5, <1>9
  <2>2. Punto(fs, u)
    BY <1>4, <2>1 DEF Vale
  <2> QED BY <1>1, <1>6, <2>1, <2>2, FsckBien
<1>10. CASE /\ fs' = Last(traza) /\ danio' = SinDanio
            /\ \/ hist' = h
               \/ \E e : hist' = AlMorir([h EXCEPT !.cantidad = hist.cantidad], e, FALSE)
  <2>1. EsHistoria(hist') /\ h.fallas \subseteq hist'.fallas
    <3>1. CASE hist' = h
      BY <1>5, <3>1
    <3>2. CASE \E e : hist' = AlMorir([h EXCEPT !.cantidad = hist.cantidad], e, FALSE)
      <4>1. PICK e : hist' = AlMorir([h EXCEPT !.cantidad = hist.cantidad], e, FALSE)
        BY <3>2
      <4>2. PICK k : k = [h EXCEPT !.cantidad = hist.cantidad]
        OBVIOUS
      <4>3. PICK x : x = hist.cantidad
        OBVIOUS
      <4>4. EsHistoria(k) /\ k.fallas = h.fallas
        BY ONLY <1>5, <4>2, <4>3, OtraHistoria
      <4>5. hist' = AlMorir(k, e, FALSE)
        BY <4>1, <4>2
      <4> QED BY ONLY <4>4, <4>5, MorirHistoria
    <3> QED BY <1>10, <3>1, <3>2
  <2>2. Vale(fs', hist'.fallas, danio')
    <3> SUFFICES ASSUME limpia(hist'.fallas)
                 PROVE  Punto(fs', danio'.tipo # "bloque") /\ Fin(fs', TRUE, TRUE)
      BY DEF Vale
    <3>1. limpia(h.fallas)
      BY <2>1
    <3>2. Fin(fs', TRUE, TRUE)
      BY <1>9, <1>10, <3>1
    <3> QED BY <3>2, PuntoDebil DEF Fin
  <2> QED BY <1>7, <1>10, <2>1, <2>2 DEF InvBloques
<1>11. CASE \E k \in 2..(Len(traza) - 1) :
              /\ fs' = Morir(traza[k]) /\ danio' = [danio EXCEPT !.avisado = FALSE]
              /\ \E X : hist' = AlMorir([hist EXCEPT !.fallas = hist.fallas \cup (h.fallas \ {"size"}) \cup X],
                                        traza[k], FALSE)
  <2>1. PICK k \in 2..(Len(traza) - 1) :
              /\ fs' = Morir(traza[k]) /\ danio' = [danio EXCEPT !.avisado = FALSE]
              /\ \E X : hist' = AlMorir([hist EXCEPT !.fallas = hist.fallas \cup (h.fallas \ {"size"}) \cup X],
                                        traza[k], FALSE)
    BY <1>11, Zenon
  <2>2. PICK X : hist' = AlMorir([hist EXCEPT !.fallas = hist.fallas \cup (h.fallas \ {"size"}) \cup X],
                                 traza[k], FALSE)
    BY <2>1, Zenon
  <2>3. PICK F : F = hist.fallas \cup (h.fallas \ {"size"}) \cup X
    OBVIOUS
  <2>4. PICK m : m = [hist EXCEPT !.fallas = F]
    OBVIOUS
  <2>5. EsHistoria(m) /\ m.fallas = F
    BY ONLY <1>4, <2>4, OtraHistoria
  <2>6. hist' = AlMorir(m, traza[k], FALSE)
    BY ONLY <2>2, <2>3, <2>4
  <2>7. EsHistoria(hist') /\ F \subseteq hist'.fallas
    BY ONLY <2>5, <2>6, MorirHistoria
  <2>8. EsDanio(danio') /\ danio'.tipo = danio.tipo
    BY ONLY <1>4, <1>6, <2>1 DEF EsDanio
  <2>9. Vale(fs', hist'.fallas, danio')
    <3> SUFFICES ASSUME limpia(hist'.fallas) PROVE Punto(fs', u)
      BY <1>6, <2>8 DEF Vale
    <3>1. limpia(h.fallas)
      BY ONLY <2>3, <2>7, limpia(hist'.fallas)
    <3>2. Traza(traza, u)
      BY <1>9, <3>1
    <3>3. Len(traza) \in Nat /\ \A j \in 1..Len(traza) : Punto(traza[j], u)
      BY ONLY <3>2, TrazaPuntos
    <3>4. k \in 1..Len(traza)
      BY ONLY <3>3, k \in 2..(Len(traza) - 1)
    <3>5. Punto(traza[k], u)
      BY ONLY <3>3, <3>4
    <3>6. Queda(traza[k], Morir(traza[k]))
      BY ONLY <3>5, MorirQueda DEF Punto
    <3>7. fs' = Morir(traza[k])
      BY <2>1
    <3> QED BY ONLY <3>5, <3>6, <3>7, QuedaPunto
  <2> QED BY <2>7, <2>8, <2>9 DEF InvBloques
<1> QED
  <2>1. PICK d : d = SinDanio
    OBVIOUS
  <2>2. Servir(traza, h, d) /\ d # danio
    BY <1>3, <1>8, <2>1
  <2>3. CASE /\ fs' = Last(traza) /\ danio' = d
             /\ \/ hist' = h
                \/ \E e : hist' = AlMorir([h EXCEPT !.cantidad = hist.cantidad], e, FALSE)
    BY <1>10, <2>1, <2>3, Zenon
  <2>4. CASE \E k \in 2..(Len(traza) - 1) :
              /\ fs' = Morir(traza[k])
              /\ \/ d = danio /\ danio' = danio /\ hist' = AlMorir(h, traza[k], TRUE)
                 \/ /\ d # danio /\ danio' = [danio EXCEPT !.avisado = FALSE]
                    /\ \E X : hist' = AlMorir([hist EXCEPT !.fallas = hist.fallas \cup (h.fallas \ {"size"}) \cup X],
                                              traza[k], FALSE)
    BY <1>11, <2>2, <2>4, Zenon
  <2>5. \/ /\ fs' = Last(traza) /\ danio' = d
           /\ \/ hist' = h
              \/ \E e : hist' = AlMorir([h EXCEPT !.cantidad = hist.cantidad], e, FALSE)
        \/ \E k \in 2..(Len(traza) - 1) :
              /\ fs' = Morir(traza[k])
              /\ \/ d = danio /\ danio' = danio /\ hist' = AlMorir(h, traza[k], TRUE)
                 \/ /\ d # danio /\ danio' = [danio EXCEPT !.avisado = FALSE]
                    /\ \E X : hist' = AlMorir([hist EXCEPT !.fallas = hist.fallas \cup (h.fallas \ {"size"}) \cup X],
                                              traza[k], FALSE)
    BY ONLY <2>2, ServirCasos
  <2> QED BY <2>3, <2>4, <2>5, Zenon

(* The list of blocks in the other order. *)
LEMMA InvertirTipo ==
  ASSUME NEW s \in Seq(Nat)
  PROVE  Reverse(s) \in Seq(Nat)
<1>1. PICK n : n = Len(s)
  OBVIOUS
<1>2. n \in Nat /\ \A i \in 1..n : s[i] \in Nat
  BY <1>1, ElementOfSeq, LenProperties
<1>3. PICK x : x = Reverse(s)
  OBVIOUS
<1>4. x = [i \in 1..n |-> s[(n - i) + 1]]
  BY <1>1, <1>3 DEF Reverse
<1>5. \A i \in 1..n : s[(n - i) + 1] \in Nat
  <2> SUFFICES ASSUME NEW i \in 1..n PROVE s[(n - i) + 1] \in Nat
    OBVIOUS
  <2>1. (n - i) + 1 \in 1..n
    BY <1>2
  <2> QED BY <1>2, <2>1
<1>6. x \in [1..n -> Nat]
  BY ONLY <1>4, <1>5
<1>7. x \in Seq(Nat)
  BY ONLY <1>2, <1>6
<1> QED BY <1>3, <1>7

LEMMA InvertirPunto ==
  ASSUME NEW f, NEW u, Punto(f, u), NEW a \in Archivos, NEW g, Toca(f, g, a), g.archivo[a].existe = f.archivo[a].existe,
         Lista(g, a) = Reverse(Lista(f, a))
  PROVE  Punto(g, u)
<1>1. PICK n : n = Len(Lista(f, a))
  OBVIOUS
<1>2. n \in Nat /\ Formado(f)
  BY <1>1, ListaTipo DEF Punto
<1>3. Len(Lista(g, a)) = n /\ \A i \in 1..n : Lista(g, a)[i] = Lista(f, a)[n - i + 1]
  BY <1>1, <1>2 DEF Reverse
<1>4. /\ Formado(g) /\ g.bitmap = f.bitmap
      /\ \A x \in Archivos \ {a} : g.archivo[x] = f.archivo[x] /\ Lista(g, x) = Lista(f, x)
  BY DEF Toca, Lista
<1> DEFINE K(x, i) == IF x = a THEN n - i + 1 ELSE i
<1>5. ASSUME NEW x \in Archivos, NEW i \in 1..Len(Lista(g, x))
      PROVE  K(x, i) \in 1..Len(Lista(f, x)) /\ Lista(g, x)[i] = Lista(f, x)[K(x, i)]
  <2>1. CASE x = a
    <3>1. i \in 1..n /\ n - i + 1 \in 1..n
      BY <1>2, <1>3, <2>1
    <3> QED BY <1>1, <1>3, <2>1, <3>1
  <2>2. CASE x # a
    BY <1>4, <2>2
  <2> QED BY <2>1, <2>2
<1>6. ASSUME NEW S, Unico(f, S) PROVE Unico(g, S)
  <2> SUFFICES ASSUME NEW x \in Archivos, NEW y \in Archivos, NEW i \in 1..Len(Lista(g, x)),
                      NEW j \in 1..Len(Lista(g, y)), Lista(g, x)[i] = Lista(g, y)[j], Lista(g, x)[i] \in S
               PROVE  x = y /\ i = j
    BY DEF Unico
  <2>1. x = y /\ K(x, i) = K(y, j)
    <3>1. PICK k : k = K(x, i)
      OBVIOUS
    <3>2. PICK l : l = K(y, j)
      OBVIOUS
    <3>3. /\ k \in 1..Len(Lista(f, x)) /\ Lista(g, x)[i] = Lista(f, x)[k]
          /\ l \in 1..Len(Lista(f, y)) /\ Lista(g, y)[j] = Lista(f, y)[l]
      BY ONLY <1>5, <3>1, <3>2, x \in Archivos, y \in Archivos, i \in 1..Len(Lista(g, x)), j \in 1..Len(Lista(g, y))
    <3>4. x = y /\ k = l
      <4>1. Lista(f, x)[k] = Lista(f, y)[l] /\ Lista(f, x)[k] \in S
        BY ONLY <3>3, Lista(g, x)[i] = Lista(g, y)[j], Lista(g, x)[i] \in S
      <4> QED BY ONLY Unico(f, S), <3>3, <4>1, x \in Archivos, y \in Archivos DEF Unico
    <3> QED BY <3>1, <3>2, <3>4
  <2>2. CASE x # a
    BY <2>1, <2>2
  <2>3. CASE x = a
    <3>1. i \in 1..n /\ j \in 1..n /\ n - i + 1 = n - j + 1
      BY <1>3, <2>1, <2>3
    <3> QED BY <1>2, <2>1, <3>1
  <2> QED BY <2>2, <2>3
<1>7. Unico(g, g.bitmap) /\ (u => Unico(g, Nat))
  BY <1>4, <1>6 DEF Punto
<1> HIDE DEF K
<1>8. \A t \in Trips : EnBits(g, Bitacora(t))
  <2> SUFFICES ASSUME NEW t \in Trips, NEW i \in 1..Len(Lista(g, Bitacora(t)))
               PROVE  Lista(g, Bitacora(t))[i] \in f.bitmap
    BY <1>4 DEF EnBits
  <2>1. Bitacora(t) \in Archivos /\ EnBits(f, Bitacora(t))
    BY Nombres DEF Punto
  <2> QED BY <1>5, <2>1 DEF EnBits
<1>9. ASSUME NEW x \in Archivos, ~g.archivo[x].existe PROVE Lista(g, x) = <<>>
  <2>1. ~f.archivo[x].existe
    BY <1>4, <1>9
  <2>2. Lista(f, x) = <<>>
    BY <2>1 DEF Punto
  <2>3. CASE x = a
    <3>1. Len(Lista(g, a)) = 0 /\ Lista(g, a) \in Seq(Nat)
      BY <1>1, <1>3, <1>4, <2>2, <2>3, ListaTipo
    <3> QED BY <2>3, <3>1, EmptySeq
  <2> QED BY <1>4, <2>2, <2>3
<1>10. u => \A x \in Archivos : \A i \in 1..Len(Lista(g, x)) : Lista(g, x)[i] \in Bloques
  <2> SUFFICES ASSUME u, NEW x \in Archivos, NEW i \in 1..Len(Lista(g, x)) PROVE Lista(g, x)[i] \in Bloques
    OBVIOUS
  <2> QED BY <1>5 DEF Punto
<1> QED BY <1>4, <1>7, <1>8, <1>9, <1>10 DEF Punto

(* A block that has no bit at the end of a list, whatever lists it is in. *)
LEMMA IntrusoPunto ==
  ASSUME NEW f, NEW u, Punto(f, u), NEW r \in Recursos, NEW a, a = File(r), f.archivo[a].existe,
         NEW b \in Nat, b \notin f.bitmap, NEW g, Toca(f, g, a), g.archivo[a].existe,
         Lista(g, a) = Append(Lista(f, a), b)
  PROVE  Punto(g, FALSE)
<1>1. /\ Formado(f) /\ Formado(g) /\ g.bitmap = f.bitmap
      /\ \A x \in Archivos \ {a} : g.archivo[x] = f.archivo[x] /\ Lista(g, x) = Lista(f, x)
  BY DEF Punto, Toca, Lista
<1>2. PICK n : n = Len(Lista(f, a))
  OBVIOUS
<1>3. a \in Archivos /\ EsRecurso(a)
  BY Nombres
<1>4. /\ n \in Nat /\ Len(Lista(g, a)) = n + 1 /\ Lista(g, a)[n + 1] = b
      /\ \A i \in 1..n : Lista(g, a)[i] = Lista(f, a)[i]
  BY <1>1, <1>2, <1>3, ListaTipo, AppendProperties
<1>5. ASSUME NEW x \in Archivos, NEW i \in 1..Len(Lista(g, x)), Lista(g, x)[i] \in f.bitmap
      PROVE  i \in 1..Len(Lista(f, x)) /\ Lista(g, x)[i] = Lista(f, x)[i]
  <2>1. CASE x # a
    BY <1>1, <2>1
  <2>2. CASE x = a
    <3>1. i \in 1..n
      BY <1>4, <1>5, <2>2
    <3> QED BY <1>2, <1>4, <2>2, <3>1
  <2> QED BY <2>1, <2>2
<1>6. Unico(g, g.bitmap)
  <2> SUFFICES ASSUME NEW x \in Archivos, NEW y \in Archivos, NEW i \in 1..Len(Lista(g, x)),
                      NEW j \in 1..Len(Lista(g, y)), Lista(g, x)[i] = Lista(g, y)[j], Lista(g, x)[i] \in f.bitmap
               PROVE  x = y /\ i = j
    BY <1>1 DEF Unico
  <2>1. /\ i \in 1..Len(Lista(f, x)) /\ Lista(g, x)[i] = Lista(f, x)[i]
        /\ j \in 1..Len(Lista(f, y)) /\ Lista(g, y)[j] = Lista(f, y)[j]
    BY <1>5
  <2>2. Unico(f, f.bitmap)
    BY DEF Punto
  <2>3. Lista(f, x)[i] = Lista(f, y)[j] /\ Lista(f, x)[i] \in f.bitmap
    BY <2>1
  <2> QED BY ONLY <2>1, <2>2, <2>3, x \in Archivos, y \in Archivos DEF Unico
<1>7. \A t \in Trips : EnBits(g, Bitacora(t))
  <2> SUFFICES ASSUME NEW t \in Trips PROVE EnBits(g, Bitacora(t))
    OBVIOUS
  <2>1. Bitacora(t) \in Archivos \ {a} /\ EnBits(f, Bitacora(t))
    BY <1>3, Nombres DEF Punto
  <2> QED BY <1>1, <2>1 DEF EnBits
<1>8. g.bitmap \subseteq Bloques /\ \A x \in Archivos : ~g.archivo[x].existe => Lista(g, x) = <<>>
  BY <1>1 DEF Punto
<1> QED BY <1>1, <1>6, <1>7, <1>8 DEF Punto

(* A damage is one of these changes. *)
LEMMA DanioBien ==
  ASSUME Punto(fs, TRUE), NEW r \in Recursos, NEW tipo, NEW n \in Valores(tipo, r),
         tipo = "nada" \/ Lista(fs, File(r)) # <<>>
  PROVE  Punto(Daniado(tipo, r, n), FALSE) /\ (tipo # "bloque" => Punto(Daniado(tipo, r, n), TRUE))
<1>a. PICK f : f = fs
  OBVIOUS
<1>b. PICK a : a = File(r)
  OBVIOUS
<1>c. PICK g : g = Daniado(tipo, r, n)
  OBVIOUS
<1> SUFFICES Punto(g, FALSE) /\ (tipo # "bloque" => Punto(g, TRUE))
  BY <1>c
<1>d. Punto(f, TRUE) /\ (tipo = "nada" \/ Lista(f, a) # <<>>)
  BY <1>a, <1>b
<1> USE <1>a, <1>b, <1>c, <1>d
<1>1. Formado(f) /\ a \in Archivos /\ EsMetadata(f.archivo[a])
  BY Nombres DEF Punto, Formado
<1>2. f = [bitmap |-> f.bitmap, cantidad |-> f.cantidad, archivo |-> f.archivo, disco |-> f.disco,
           copia |-> f.copia, vivo |-> f.vivo, desborde |-> f.desborde]
  BY <1>1 DEF Formado
<1>3. CASE tipo = "cantidad"
  <2>1. PICK c : c = cantidadBloques + 8
    OBVIOUS
  <2>2. g = [f EXCEPT !.cantidad = c]
    BY <1>3, <2>1 DEF Daniado
  <2>3. Contenido(f, g)
    BY ONLY <1>2, <2>2 DEF Contenido
  <2>4. Queda(f, g)
    BY ONLY <1>1, <2>3, ContenidoQueda
  <2> QED BY <2>4, QuedaPunto, PuntoDebil
<1>4. CASE tipo = "contenido"
  <2>1. PICK d : d = Pegar(f.disco, Dir(n), <<"X">>)
    OBVIOUS
  <2>2. g = [f EXCEPT !.disco = d]
    BY <1>4, <2>1 DEF Daniado
  <2>3. Contenido(f, g)
    BY ONLY <1>2, <2>2 DEF Contenido
  <2>4. Queda(f, g)
    BY ONLY <1>1, <2>3, ContenidoQueda
  <2> QED BY <2>4, QuedaPunto, PuntoDebil
<1>5. CASE tipo = "bit"
  <2>1. n \in Bloques
    BY <1>5 DEF Valores, UltimoLibre
  <2>2. PICK B : B = f.bitmap \cup {n}
    OBVIOUS
  <2>3. g = [f EXCEPT !.bitmap = B]
    BY <1>5, <2>2 DEF Daniado
  <2>4. Formado(g) /\ g.bitmap = B /\ g.archivo = f.archivo
    BY ONLY <1>1, <2>3, TocaMarca
  <2>5. \A x \in Archivos : Lista(g, x) = Lista(f, x)
    BY ONLY <2>4 DEF Lista
  <2>6. Unico(g, Nat)
    BY <2>5 DEF Punto, Unico
  <2>7. Unico(g, g.bitmap)
    BY <2>4, <2>6, ListaTipo DEF Unico
  <2>8. \A t \in Trips : EnBits(g, Bitacora(t))
    BY <2>2, <2>4, <2>5, Nombres DEF Punto, EnBits
  <2>9. \A x \in Archivos : \A i \in 1..Len(Lista(g, x)) : Lista(g, x)[i] \in Bloques
    BY <2>5 DEF Punto
  <2>10. g.bitmap \subseteq Bloques /\ \A x \in Archivos : ~g.archivo[x].existe => Lista(g, x) = <<>>
    BY <2>1, <2>2, <2>4, <2>5 DEF Punto
  <2> QED BY <2>4, <2>6, <2>7, <2>8, <2>9, <2>10 DEF Punto
<1>6. CASE tipo = "bitListado"
  <2>1. PICK B : B = ToSet(f.archivo[a].blocks)
    OBVIOUS
  <2>2. PICK C : C = f.bitmap \ B
    OBVIOUS
  <2>3. g = [f EXCEPT !.bitmap = C]
    BY <1>6, <2>1, <2>2 DEF Daniado
  <2>4. Formado(g) /\ g.bitmap = C /\ g.archivo = f.archivo
    BY ONLY <1>1, <2>3, TocaMarca
  <2>5. \A y \in B : \E i \in 1..Len(Lista(f, a)) : Lista(f, a)[i] = y
    <3>1. Lista(f, a) \in Seq(Nat)
      BY <1>1, ListaTipo
    <3>2. DOMAIN Lista(f, a) = 1..Len(Lista(f, a))
      BY <3>1, LenProperties
    <3> QED BY <2>1, <3>2 DEF ToSet, Lista
  <2>6. Borra(f, g, a, B)
    BY <2>2, <2>4, <2>5 DEF Borra
  <2>7. Punto(g, TRUE)
    BY <2>6, BorrarBitsPunto
  <2> QED BY <2>7, PuntoDebil
<1>7. CASE tipo = "SIZE"
  <2>1. n \in Int
    BY <1>7, SistemaOK DEF Valores
  <2>2. PICK m : m = [f.archivo[a] EXCEPT !.size = n]
    OBVIOUS
  <2>3. Cambia(f, g, a, m)
    BY <1>7, <2>2 DEF Daniado, Cambia
  <2>4. /\ EsMetadata(m) /\ m.blocks = f.archivo[a].blocks /\ m.count = f.archivo[a].count
        /\ m.existe = f.archivo[a].existe
    BY ONLY <1>1, <2>1, <2>2 DEF EsMetadata
  <2>5. Queda(f, g)
    BY ONLY <1>1, <2>3, <2>4, CambiaQueda
  <2> QED BY <2>5, QuedaPunto, PuntoDebil
<1>8. CASE tipo = "BLOCK_COUNT"
  <2>1. g = actualizarBlockCount(f, a, 1)
    BY <1>8 DEF Daniado, actualizarBlockCount
  <2>2. Toca(f, g, a) /\ Lista(g, a) = Lista(f, a) /\ g.archivo[a].existe = f.archivo[a].existe
    BY <1>1, <2>1, CuentaToca
  <2>3. Punto(g, TRUE)
    BY <1>1, <2>2, ContadoPunto
  <2> QED BY <2>3, PuntoDebil
<1>9. CASE tipo = "orden"
  <2>1. PICK s : s = Reverse(f.archivo[a].blocks)
    OBVIOUS
  <2>2. PICK m : m = [f.archivo[a] EXCEPT !.blocks = s]
    OBVIOUS
  <2>3. Cambia(f, g, a, m)
    BY <1>9, <2>1, <2>2 DEF Daniado, Cambia
  <2>4. s \in Seq(Nat)
    <3>1. f.archivo[a].blocks \in Seq(Nat)
      BY <1>1 DEF EsMetadata
    <3> QED BY ONLY <2>1, <3>1, InvertirTipo
  <2>5. /\ EsMetadata(m) /\ m.blocks = s /\ m.count = f.archivo[a].count
        /\ m.existe = f.archivo[a].existe
    BY ONLY <1>1, <2>2, <2>4 DEF EsMetadata
  <2>6. Toca(f, g, a) /\ g.archivo[a] = m
    BY ONLY <1>1, <2>3, <2>5, TocaArchivo
  <2>7. Lista(g, a) = Reverse(Lista(f, a)) /\ g.archivo[a].existe = f.archivo[a].existe
    BY ONLY <2>1, <2>5, <2>6 DEF Lista
  <2>8. Punto(g, TRUE)
    BY <1>1, <2>6, <2>7, InvertirPunto
  <2> QED BY <2>8, PuntoDebil
<1>10. CASE tipo = "bloque"
  <2>1. n \in Nat /\ n \notin f.bitmap
    <3>1. CASE n \in UltimoLibre
      BY <3>1, BloquesNat DEF UltimoLibre
    <3>2. CASE n \in {cantidadBloques, cantidadBloques + 1}
      BY <3>2, SistemaOK DEF Punto, Bloques
    <3> QED BY <1>10, <3>1, <3>2 DEF Valores
  <2>2. g = AgregarBloque(f, a, n)
    BY <1>10 DEF Daniado, AgregarBloque
  <2>3. Toca(f, g, a) /\ Lista(g, a) = Append(Lista(f, a), n) /\ g.archivo[a].existe = f.archivo[a].existe
    BY <1>1, <2>1, <2>2, AgregarToca
  <2>4. f.archivo[a].existe
    BY <1>1, <1>10 DEF Punto
  <2>5. Punto(g, FALSE)
    BY <2>1, <2>3, <2>4, IntrusoPunto
  <2> QED BY <1>10, <2>5
<1>11. CASE tipo \notin {"cantidad", "bit", "bitListado", "SIZE", "BLOCK_COUNT", "orden", "bloque", "contenido"}
  <2>1. g = f
    BY <1>11 DEF Daniado
  <2> QED BY <2>1, PuntoDebil
<1> QED BY <1>3, <1>4, <1>5, <1>6, <1>7, <1>8, <1>9, <1>10, <1>11

LEMMA SabotearBien ==
  ASSUME InvBloques, NEW tipo \in Sabotajes, NEW r \in Recursos, NEW n \in Valores(tipo, r), Sabotear(tipo, r, n)
  PROVE  InvBloques'
<1>1. EsHistoria(hist) /\ EsDanio(danio) /\ Vale(fs, hist.fallas, danio) /\ danio.tipo = "no"
  BY DEF InvBloques, Sabotear
<1>2. PICK A : A = [archivo |-> fs.archivo, bitmap |-> fs.bitmap]
  OBVIOUS
<1>3. danio' = [tipo |-> tipo, avisado |-> FALSE, antes |-> A] /\ hist' = hist /\ fs' = Daniado(tipo, r, n)
  BY <1>2 DEF Sabotear
<1>4. EsDanio(danio') /\ danio'.tipo = tipo
  BY ONLY <1>3, tipo \in Sabotajes DEF EsDanio
<1>5. tipo = "nada" \/ (Lista(fs, File(r)) # <<>> /\ Daniado(tipo, r, n) # fs)
  BY DEF Sabotear, Lista
<1>6. tipo # "no"
  <2> SUFFICES ASSUME tipo = "no" PROVE Daniado(tipo, r, n) = fs
    BY <1>5
  <2> QED BY DEF Daniado
<1>7. ASSUME hist.fallas \cap {"salteo", "doble"} = {} PROVE Punto(fs', FALSE) /\ (tipo # "bloque" => Punto(fs', TRUE))
  <2>1. Punto(fs, TRUE)
    BY <1>1, <1>7 DEF Vale
  <2>2. tipo = "nada" \/ Lista(fs, File(r)) # <<>>
    BY <1>5
  <2>3. fs' = Daniado(tipo, r, n)
    BY <1>3
  <2>4. Punto(Daniado(tipo, r, n), FALSE) /\ (tipo # "bloque" => Punto(Daniado(tipo, r, n), TRUE))
    BY <2>1, <2>2, DanioBien, Zenon
  <2> QED BY <2>3, <2>4, Zenon
<1>8. Vale(fs', hist'.fallas, danio')
  <2> SUFFICES ASSUME hist'.fallas \cap {"salteo", "doble"} = {} PROVE Punto(fs', tipo # "bloque")
    BY <1>4, <1>6 DEF Vale
  <2>1. Punto(fs', FALSE) /\ (tipo # "bloque" => Punto(fs', TRUE))
    BY <1>3, <1>7
  <2> QED BY <2>1
<1>9. EsHistoria(hist')
  BY <1>1, <1>3
<1> QED BY <1>4, <1>8, <1>9 DEF InvBloques

(* A death between two requests. *)
LEMMA MuereBien ==
  ASSUME EsHistoria(hist), EsDanio(danio), Vale(fs, hist.fallas, danio),
         fs' = Morir(fs), hist' = AlMorir(hist, fs, FALSE), EsDanio(danio'), danio'.tipo = danio.tipo
  PROVE  InvBloques'
<1>1. EsHistoria(hist') /\ hist.fallas \subseteq hist'.fallas
  BY ONLY EsHistoria(hist), hist' = AlMorir(hist, fs, FALSE), MorirHistoria
<1>2. Vale(fs', hist'.fallas, danio)
  BY ONLY Vale(fs, hist.fallas, danio), <1>1, fs' = Morir(fs), ValeMuere
<1>3. Vale(fs', hist'.fallas, danio')
  BY <1>2 DEF Vale
<1> QED BY <1>1, <1>3 DEF InvBloques

LEMMA SenialBien ==
  ASSUME InvBloques, Senial
  PROVE  InvBloques'
<1>1. EsHistoria(hist) /\ EsDanio(danio) /\ Vale(fs, hist.fallas, danio)
  BY DEF InvBloques
<1>2. danio.tipo # "no" /\ danio' = [danio EXCEPT !.avisado = TRUE]
  BY DEF Senial
<1>3. EsDanio(danio') /\ danio'.tipo = danio.tipo
  BY ONLY <1>1, <1>2 DEF EsDanio
<1>4. CASE UNCHANGED <<fs, hist>>
  <2>1. Vale(fs', hist'.fallas, danio')
    BY <1>1, <1>3, <1>4 DEF Vale
  <2> QED BY <1>1, <1>3, <1>4, <2>1 DEF InvBloques
<1>5. CASE fs' = Morir(fs) /\ hist' = AlMorir(hist, fs, FALSE)
  BY <1>1, <1>3, <1>5, MuereBien
<1> QED BY <1>4, <1>5 DEF Senial

LEMMA CaerBien ==
  ASSUME InvBloques, finalizarProceso \/ Caer
  PROVE  InvBloques'
<1>1. EsHistoria(hist) /\ EsDanio(danio) /\ Vale(fs, hist.fallas, danio)
  BY DEF InvBloques
<1>2. fs' = Morir(fs) /\ hist' = AlMorir(hist, fs, FALSE) /\ danio' = danio
  BY DEF finalizarProceso, Caer
<1> QED BY <1>1, <1>2, MuereBien

(* The copy to the disk and the start change the contents only. *)
LEMMA CopiarBien ==
  ASSUME InvBloques, Copiar \/ Reiniciar
  PROVE  InvBloques'
<1>1. EsHistoria(hist) /\ EsDanio(danio) /\ Vale(fs, hist.fallas, danio)
  BY DEF InvBloques
<1>2. PICK S : S = {}
  OBVIOUS
<1>3. danio' = danio /\ (hist' = hist \/ hist' = [hist EXCEPT !.sinCopiar = S])
  BY <1>2 DEF Copiar, Reiniciar
<1>4. EsHistoria(hist') /\ hist'.fallas = hist.fallas
  BY ONLY <1>1, <1>3 DEF EsHistoria
<1>5. PICK d : d = fs.copia
  OBVIOUS
<1>6. fs' = [fs EXCEPT !.disco = d] \/ fs' = [fs EXCEPT !.vivo = TRUE]
  BY <1>5 DEF Copiar, Reiniciar
<1>7. ASSUME Formado(fs) PROVE Queda(fs, fs')
  <2>1. PICK f : f = fs
    OBVIOUS
  <2>2. PICK g : g = fs'
    OBVIOUS
  <2>3. g = [f EXCEPT !.disco = d] \/ g = [f EXCEPT !.vivo = TRUE]
    BY ONLY <1>6, <2>1, <2>2
  <2>4. f = [bitmap |-> f.bitmap, cantidad |-> f.cantidad, archivo |-> f.archivo, disco |-> f.disco,
             copia |-> f.copia, vivo |-> f.vivo, desborde |-> f.desborde]
    BY ONLY <1>7, <2>1 DEF Formado
  <2>5. Contenido(f, g)
    BY ONLY <2>3, <2>4 DEF Contenido
  <2>6. Queda(f, g)
    BY ONLY <1>7, <2>1, <2>5, ContenidoQueda
  <2> QED BY <2>1, <2>2, <2>6
<1>8. Vale(fs', hist'.fallas, danio')
  <2> SUFFICES ASSUME hist.fallas \cap {"salteo", "doble"} = {}
               PROVE  /\ Punto(fs', danio.tipo # "bloque")
                      /\ "corte" \notin hist.fallas /\ danio.tipo = "no" => Fin(fs', TRUE, TRUE)
    <3>1. danio' = danio /\ hist'.fallas = hist.fallas
      BY <1>3, <1>4
    <3> QED BY <3>1 DEF Vale
  <2>1. /\ Punto(fs, danio.tipo # "bloque")
        /\ "corte" \notin hist.fallas /\ danio.tipo = "no" => Fin(fs, TRUE, TRUE)
    BY <1>1 DEF Vale
  <2>2. Queda(fs, fs')
    BY <1>7, <2>1 DEF Punto
  <2> QED BY ONLY <2>1, <2>2, QuedaPunto, QuedaFin
<1> QED BY <1>1, <1>3, <1>4, <1>8 DEF InvBloques

LEMMA IgualBien ==
  ASSUME InvBloques, UNCHANGED <<fs, danio, hist>>
  PROVE  InvBloques'
BY DEF InvBloques, Vale

(* At the beginning no file exists. *)
LEMMA InicioBien ==
  ASSUME Init
  PROVE  InvBloques
<1>1. PICK f : f = fs
  OBVIOUS
<1>2. PICK A : A = [a \in Archivos |-> NoExiste]
  OBVIOUS
<1>3. \E d, c : f = [bitmap |-> {}, cantidad |-> cantidadBloques, archivo |-> A, disco |-> d, copia |-> c,
                     vivo |-> TRUE, desborde |-> FALSE]
  BY <1>1, <1>2 DEF Init
<1>4. f.bitmap = {} /\ f.archivo = A
  BY ONLY <1>3
<1>5. f = [bitmap |-> f.bitmap, cantidad |-> f.cantidad, archivo |-> f.archivo, disco |-> f.disco,
           copia |-> f.copia, vivo |-> f.vivo, desborde |-> f.desborde]
  BY ONLY <1>3
<1>6. EsMetadata(NoExiste) /\ NoExiste.blocks = <<>> /\ NoExiste.count = 0
  BY DEF NoExiste, EsMetadata
<1>7. \A a \in Archivos : f.archivo[a] = NoExiste /\ Lista(f, a) = <<>> /\ Len(Lista(f, a)) = 0
  BY ONLY <1>2, <1>4, <1>6 DEF Lista
<1>8. Formado(f)
  BY ONLY <1>2, <1>4, <1>5, <1>6, <1>7 DEF Formado
<1>9. Punto(f, TRUE)
  BY ONLY <1>4, <1>7, <1>8, Nombres DEF Punto, Unico, EnBits
<1>10. Marcados(f) /\ Exacta(f)
  BY ONLY <1>4, <1>6, <1>7, Nombres DEF Marcados, Exacta
<1>11. Fin(f, TRUE, TRUE)
  BY ONLY <1>9, <1>10 DEF Fin
<1>12. EsDanio(danio) /\ danio.tipo = "no"
  BY DEF Init, SinDanio, EsDanio
<1>13. EsHistoria(hist)
  BY DEF Init, EsHistoria
<1>14. Vale(fs, hist.fallas, danio)
  BY ONLY <1>1, <1>9, <1>11, <1>12 DEF Vale
<1> QED BY <1>12, <1>13, <1>14 DEF InvBloques

(* The blocks of the device are, at every moment and whatever was damaged,  *)
(* killed and repaired, as the invariant says (i-Mongo-Store's requests,    *)
(* fsck, copy and start).                                                   *)
THEOREM InvBloquesSiempre ==
  ASSUME BitSano
  PROVE  Spec => []InvBloques
<1>1. Init => InvBloques
  BY InicioBien
<1>2. InvBloques /\ [Next]_vars => InvBloques'
  <2> SUFFICES ASSUME InvBloques, [Next]_vars PROVE InvBloques'
    OBVIOUS
  <2>1. ASSUME NEW t \in Obreros, NEW r \in Recursos, NEW n \in Cantidades, GenerarRecurso(t, r, n)
        PROVE  InvBloques'
    BY <2>1, GenerarRecursoBien
  <2>2. ASSUME NEW t \in Obreros, NEW r \in Recursos, NEW n \in Cantidades, ConsumirRecurso(t, r, n)
        PROVE  InvBloques'
    BY <2>2, ConsumirRecursoBien
  <2>3. ASSUME NEW t \in Obreros, DescartarBasura(t) PROVE InvBloques'
    BY <2>3, DescartarBasuraBien
  <2>4. ASSUME NEW t \in Trips, EscribirEvento(t) PROVE InvBloques'
    BY <2>4, EscribirEventoBien
  <2>5. ASSUME NEW tipo \in Sabotajes, NEW r \in Recursos, NEW n \in Valores(tipo, r), Sabotear(tipo, r, n)
        PROVE  InvBloques'
    BY <2>5, SabotearBien
  <2>6. CASE Senial
    BY <2>6, SenialBien
  <2>7. ASSUME NEW residuo \in Residuos, InvocarFsck(residuo) PROVE InvBloques'
    BY <2>7, InvocarFsckBien
  <2>8. CASE Copiar \/ Reiniciar
    BY <2>8, CopiarBien
  <2>9. CASE Mirar \/ SIGINT
    BY <2>9, IgualBien DEF Mirar, SIGINT
  <2>10. CASE finalizarProceso \/ Caer
    BY <2>10, CaerBien
  <2>11. CASE UNCHANGED vars
    BY <2>11, IgualBien DEF vars
  <2> QED BY <2>1, <2>2, <2>3, <2>4, <2>5, <2>6, <2>7, <2>8, <2>9, <2>10, <2>11 DEF Next
<1> QED BY <1>1, <1>2, PTL DEF Spec

(* What the invariant says between requests, when nothing went wrong that   *)
(* fsck has not repaired.                                                   *)
LEMMA Repartidos ==
  ASSUME InvBloques
  PROVE  BloquesRepartidos
<1> SUFFICES ASSUME ~Falla({"corte", "salteo", "doble"}), danio.tipo = "no"
             PROVE  /\ UnDuenio
                    /\ Listados(fs, Archivos) \subseteq fs.bitmap
                    /\ \A r \in Recursos : fs.archivo[File(r)].count = Len(fs.archivo[File(r)].blocks)
                    /\ Residuos = {{}} => fs.bitmap = Listados(fs, Archivos)
  BY DEF BloquesRepartidos
<1>1. Fin(fs, TRUE, TRUE)
  <2>1. hist.fallas \cap {"salteo", "doble"} = {} /\ "corte" \notin hist.fallas
    BY DEF Falla
  <2> QED BY <2>1 DEF InvBloques, Vale
<1>2. /\ Formado(fs) /\ Unico(fs, Nat) /\ Marcados(fs) /\ Exacta(fs)
      /\ \A a \in Archivos : \A i \in 1..Len(Lista(fs, a)) : Lista(fs, a)[i] \in Bloques
  BY <1>1 DEF Fin, Punto
<1>3. \A b : b \in Listados(fs, Archivos) <=> \E a \in Archivos : \E i \in 1..Len(Lista(fs, a)) : Lista(fs, a)[i] = b
  BY <1>2, ListadosEs
<1>4. UnDuenio
  <2>1. ASSUME NEW x \in Lugares
        PROVE  x \in Archivos \X (1..cantidadBloques) /\ x[2] \in 1..Len(Lista(fs, x[1]))
    <3>1. x \in Archivos \X (1..cantidadBloques) /\ x[2] \in DOMAIN Lista(fs, x[1])
      BY DEF Lugares, Lista
    <3>2. Lista(fs, x[1]) \in Seq(Nat)
      BY <1>2, <3>1, ListaTipo
    <3> QED BY <3>1, <3>2, LenProperties
  <2> SUFFICES ASSUME NEW x \in Lugares, NEW y \in Lugares, EnLugar(x) = EnLugar(y) PROVE x = y
    BY DEF UnDuenio
  <2>2. PICK a, i, b, j : a = x[1] /\ i = x[2] /\ b = y[1] /\ j = y[2]
    OBVIOUS
  <2>3. /\ a \in Archivos /\ i \in 1..Len(Lista(fs, a)) /\ x = <<a, i>>
        /\ b \in Archivos /\ j \in 1..Len(Lista(fs, b)) /\ y = <<b, j>>
    BY <2>1, <2>2
  <2>4. Lista(fs, a)[i] = Lista(fs, b)[j] /\ Lista(fs, a)[i] \in Nat
    BY <1>2, <2>2, <2>3, ListaTipo DEF EnLugar, Lista
  <2>5. a = b /\ i = j
    BY ONLY <1>2, <2>3, <2>4 DEF Unico
  <2> QED BY <2>3, <2>5
<1>5. Listados(fs, Archivos) \subseteq fs.bitmap
  BY <1>2, <1>3 DEF Marcados
<1>6. \A r \in Recursos : fs.archivo[File(r)].count = Len(fs.archivo[File(r)].blocks)
  BY <1>2 DEF Exacta, Lista
<1>7. Residuos = {{}} => fs.bitmap = Listados(fs, Archivos)
  BY <1>2, <1>3, <1>5 DEF Exacta
<1> QED BY <1>4, <1>5, <1>6, <1>7

(* No block is in two places of the lists, no listed block has its bit      *)
(* clear, a resource's BLOCK_COUNT counts its list and no bit is set for    *)
(* nothing, on any device, with any number of requests, deaths, damages and *)
(* repairs (guardarBlocks.c, sabotajes.c).                                  *)
THEOREM BloquesRepartidosSiempre ==
  ASSUME BitSano
  PROVE  Spec => []BloquesRepartidos
<1>1. InvBloques => BloquesRepartidos
  BY Repartidos
<1> QED BY <1>1, InvBloquesSiempre, PTL

-----------------------------------------------------------------------------
(* The type invariant: each operation, at each of its points, leaves a file *)
(* system of these ranges.  Unlike the one above it holds whatever went     *)
(* wrong.                                                                   *)

Superbloque == {cantidadBloques, cantidadBloques + 8}
Dispositivo == 0..(Dir(cantidadBloques) - 1)
Resto(f) == /\ f.cantidad \in Superbloque /\ DOMAIN f.disco = Dispositivo /\ DOMAIN f.copia = Dispositivo
            /\ f.vivo \in BOOLEAN /\ f.desborde \in BOOLEAN
Listables == 0..(cantidadBloques + 1)
MetaTipada(m, a) == /\ EsMetadata(m) /\ m.existe \in BOOLEAN /\ m.blocks \in Seq(Listables)
                    /\ ~EsRecurso(a) => m.count = 0
Tipado(f) == /\ Formado(f) /\ f.bitmap \subseteq Bloques /\ Resto(f)
             /\ \A a \in Archivos : MetaTipada(f.archivo[a], a)

LEMMA TipoDeCambio ==
  ASSUME NEW f, Tipado(f), NEW a \in Archivos, NEW m, MetaTipada(m, a), NEW g, Cambia(f, g, a, m)
  PROVE  Tipado(g) /\ g.bitmap = f.bitmap /\ g.archivo[a] = m
<1>1. Formado(f) /\ EsMetadata(m)
  BY DEF Tipado, MetaTipada
<1>2. Toca(f, g, a) /\ g.archivo[a] = m
  BY ONLY a \in Archivos, Cambia(f, g, a, m), <1>1, TocaArchivo
<1>3. /\ Formado(g) /\ g.bitmap = f.bitmap /\ \A x \in Archivos \ {a} : g.archivo[x] = f.archivo[x]
  BY ONLY <1>2 DEF Toca
<1>4. f = [bitmap |-> f.bitmap, cantidad |-> f.cantidad, archivo |-> f.archivo, disco |-> f.disco,
           copia |-> f.copia, vivo |-> f.vivo, desborde |-> f.desborde]
  BY ONLY <1>1 DEF Formado
<1>5. PICK A : A = [f.archivo EXCEPT ![a] = m]
  OBVIOUS
<1>6. g = [bitmap |-> f.bitmap, cantidad |-> f.cantidad, archivo |-> A, disco |-> f.disco,
           copia |-> f.copia, vivo |-> f.vivo, desborde |-> f.desborde]
  BY ONLY <1>4, <1>5, Cambia(f, g, a, m) DEF Cambia
<1>7. /\ g.cantidad = f.cantidad /\ g.disco = f.disco /\ g.copia = f.copia /\ g.vivo = f.vivo
      /\ g.desborde = f.desborde
  BY ONLY <1>6
<1>8. Resto(g)
  BY ONLY Tipado(f), <1>7 DEF Tipado, Resto
<1>9. \A x \in Archivos : MetaTipada(g.archivo[x], x)
  <2> SUFFICES ASSUME NEW x \in Archivos PROVE MetaTipada(g.archivo[x], x)
    OBVIOUS
  <2>1. CASE x = a
    BY <1>2, <2>1
  <2>2. CASE x # a
    BY <1>3, <2>2 DEF Tipado
  <2> QED BY <2>1, <2>2
<1>10. g.bitmap \subseteq Bloques
  BY <1>3 DEF Tipado
<1> QED BY ONLY <1>2, <1>3, <1>8, <1>9, <1>10 DEF Tipado

LEMMA TipoDeMarca ==
  ASSUME NEW f, Tipado(f), NEW B, B \subseteq Bloques, NEW g, g = [f EXCEPT !.bitmap = B]
  PROVE  Tipado(g) /\ g.bitmap = B /\ g.archivo = f.archivo
<1>1. Formado(f)
  BY DEF Tipado
<1>2. Formado(g) /\ g.bitmap = B /\ g.archivo = f.archivo
  BY ONLY <1>1, g = [f EXCEPT !.bitmap = B], TocaMarca
<1>3. f = [bitmap |-> f.bitmap, cantidad |-> f.cantidad, archivo |-> f.archivo, disco |-> f.disco,
           copia |-> f.copia, vivo |-> f.vivo, desborde |-> f.desborde]
  BY ONLY <1>1 DEF Formado
<1>4. /\ g.cantidad = f.cantidad /\ g.disco = f.disco /\ g.copia = f.copia /\ g.vivo = f.vivo
      /\ g.desborde = f.desborde
  BY ONLY <1>3, g = [f EXCEPT !.bitmap = B]
<1>5. Resto(g)
  BY ONLY Tipado(f), <1>4 DEF Tipado, Resto
<1>6. \A x \in Archivos : MetaTipada(g.archivo[x], x)
  BY ONLY Tipado(f), <1>2 DEF Tipado
<1> QED BY ONLY B \subseteq Bloques, <1>2, <1>5, <1>6 DEF Tipado

LEMMA TipoDeContenido ==
  ASSUME NEW f, Tipado(f), NEW g, Contenido(f, g), Resto(g)
  PROVE  Tipado(g) /\ g.bitmap = f.bitmap /\ g.archivo = f.archivo
<1>1. Formado(f)
  BY DEF Tipado
<1>2. Queda(f, g) /\ g.archivo = f.archivo
  BY <1>1, ContenidoQueda
<1>3. Formado(g) /\ g.bitmap = f.bitmap
  BY <1>2 DEF Queda
<1>4. \A x \in Archivos : MetaTipada(g.archivo[x], x)
  BY ONLY Tipado(f), <1>2 DEF Tipado
<1>5. f.bitmap \subseteq Bloques
  BY DEF Tipado
<1> QED BY ONLY Resto(g), <1>2, <1>3, <1>4, <1>5 DEF Tipado

LEMMA PegarDominio ==
  ASSUME NEW m, NEW dir, NEW s
  PROVE  DOMAIN Pegar(m, dir, s) = DOMAIN m
BY DEF Pegar

LEMMA MorirTipo ==
  ASSUME NEW f, Tipado(f)
  PROVE  Tipado(Morir(f))
<1>1. Formado(f) /\ Resto(f)
  BY DEF Tipado
<1>2. f = [bitmap |-> f.bitmap, cantidad |-> f.cantidad, archivo |-> f.archivo, disco |-> f.disco,
           copia |-> f.copia, vivo |-> f.vivo, desborde |-> f.desborde]
  BY ONLY <1>1 DEF Formado
<1>3. PICK g : g = Morir(f)
  OBVIOUS
<1>4. g = [bitmap |-> f.bitmap, cantidad |-> f.cantidad, archivo |-> f.archivo, disco |-> f.disco,
           copia |-> f.disco, vivo |-> FALSE, desborde |-> f.desborde]
  BY ONLY <1>2, <1>3 DEF Morir
<1>5. Contenido(f, g)
  BY ONLY <1>4 DEF Contenido
<1>6. /\ g.cantidad = f.cantidad /\ g.disco = f.disco /\ g.copia = f.disco /\ g.vivo = FALSE
      /\ g.desborde = f.desborde
  BY ONLY <1>4
<1>7. Resto(g)
  BY ONLY <1>1, <1>6 DEF Resto
<1> QED BY ONLY Tipado(f), <1>3, <1>5, <1>7, TipoDeContenido

(* The changes of the metadata of one file. *)
LEMMA SizeTipo ==
  ASSUME NEW f, Tipado(f), NEW a \in Archivos, NEW n \in Int, NEW g, g = actualizarSize(f, a, n)
  PROVE  Tipado(g) /\ g.bitmap = f.bitmap
<1>1. PICK m : m = [f.archivo[a] EXCEPT !.size = f.archivo[a].size + n]
  OBVIOUS
<1>2. Cambia(f, g, a, m)
  BY <1>1 DEF Cambia, actualizarSize
<1>3. MetaTipada(f.archivo[a], a)
  BY DEF Tipado
<1>4. MetaTipada(m, a)
  BY ONLY n \in Int, <1>1, <1>3 DEF MetaTipada, EsMetadata
<1> QED BY ONLY Tipado(f), a \in Archivos, <1>2, <1>4, TipoDeCambio

LEMMA MD5Tipo ==
  ASSUME NEW f, Tipado(f), NEW a \in Archivos
  PROVE  Tipado(setearMD5(f, a))
<1>1. PICK g : g = setearMD5(f, a)
  OBVIOUS
<1>2. PICK s : g = [f EXCEPT !.archivo[a].md5 = s]
  BY <1>1 DEF setearMD5
<1>3. PICK m : m = [f.archivo[a] EXCEPT !.md5 = s]
  OBVIOUS
<1>4. Cambia(f, g, a, m)
  BY <1>2, <1>3 DEF Cambia
<1>5. MetaTipada(f.archivo[a], a)
  BY DEF Tipado
<1>6. MetaTipada(m, a)
  BY ONLY <1>3, <1>5 DEF MetaTipada, EsMetadata
<1> QED BY ONLY Tipado(f), a \in Archivos, <1>1, <1>4, <1>6, TipoDeCambio

LEMMA AgregarTipo ==
  ASSUME NEW f, Tipado(f), NEW a \in Archivos, NEW b \in Listables, NEW g, g = AgregarBloque(f, a, b)
  PROVE  Tipado(g) /\ g.bitmap = f.bitmap
<1>1. PICK s : s = Append(f.archivo[a].blocks, b)
  OBVIOUS
<1>2. PICK m : m = [f.archivo[a] EXCEPT !.blocks = s]
  OBVIOUS
<1>3. Cambia(f, g, a, m)
  BY <1>1, <1>2 DEF Cambia, AgregarBloque
<1>4. MetaTipada(f.archivo[a], a)
  BY DEF Tipado
<1>5. s \in Seq(Listables) /\ s \in Seq(Nat)
  <2>1. f.archivo[a].blocks \in Seq(Listables) /\ f.archivo[a].blocks \in Seq(Nat) /\ b \in Nat
    BY ONLY <1>4, b \in Listables, SistemaOK DEF MetaTipada, EsMetadata, Listables
  <2> QED BY ONLY <1>1, <2>1, b \in Listables, AppendProperties
<1>6. MetaTipada(m, a)
  BY ONLY <1>2, <1>4, <1>5 DEF MetaTipada, EsMetadata
<1> QED BY ONLY Tipado(f), a \in Archivos, <1>3, <1>6, TipoDeCambio

LEMMA ContarTipo ==
  ASSUME NEW f, Tipado(f), NEW a \in Archivos, EsRecurso(a), NEW n \in Int, NEW g, g = actualizarBlockCount(f, a, n)
  PROVE  Tipado(g) /\ g.bitmap = f.bitmap
<1>1. PICK m : m = [f.archivo[a] EXCEPT !.count = f.archivo[a].count + n]
  OBVIOUS
<1>2. Cambia(f, g, a, m)
  BY <1>1 DEF Cambia, actualizarBlockCount
<1>3. MetaTipada(f.archivo[a], a)
  BY DEF Tipado
<1>4. MetaTipada(m, a)
  BY ONLY n \in Int, EsRecurso(a), <1>1, <1>3 DEF MetaTipada, EsMetadata
<1> QED BY ONLY Tipado(f), a \in Archivos, <1>2, <1>4, TipoDeCambio

LEMMA QuitarTipo ==
  ASSUME NEW f, Tipado(f), NEW a \in Archivos, NEW g, g = QuitarBloque(f, a)
  PROVE  Tipado(g) /\ g.bitmap = f.bitmap
<1>1. PICK s : s = IF f.archivo[a].count = 0 THEN <<>> ELSE Front(f.archivo[a].blocks)
  OBVIOUS
<1>2. PICK m : m = [f.archivo[a] EXCEPT !.blocks = s]
  OBVIOUS
<1>3. Cambia(f, g, a, m)
  BY <1>1, <1>2 DEF Cambia, QuitarBloque
<1>4. MetaTipada(f.archivo[a], a)
  BY DEF Tipado
<1>5. s \in Seq(Listables) /\ s \in Seq(Nat)
  <2>1. PICK t : t = f.archivo[a].blocks
    OBVIOUS
  <2>2. t \in Seq(Listables) /\ t \in Seq(Nat)
    BY ONLY <1>4, <2>1 DEF MetaTipada, EsMetadata
  <2>a. PICK n : n = Len(t) - 1
    OBVIOUS
  <2>b. n \in Int /\ \A i \in 1..n : t[i] \in Listables /\ t[i] \in Nat
    <3>1. Len(t) \in Nat /\ \A i \in 1..Len(t) : t[i] \in Listables /\ t[i] \in Nat
      BY ONLY <2>2, ElementOfSeq, LenProperties
    <3> QED BY ONLY <2>a, <3>1
  <2>c. Front(t) = SubSeq(t, 1, n)
    BY ONLY <2>a DEF Front
  <2>d. 1 \in Int
    OBVIOUS
  <2>3. Front(t) \in Seq(Listables)
    BY ONLY <2>b, <2>c, <2>d, SubSeqProperties
  <2>4. Front(t) \in Seq(Nat)
    BY ONLY <2>b, <2>c, <2>d, SubSeqProperties
  <2>5. s = <<>> \/ s = Front(t)
    BY ONLY <1>1, <2>1
  <2>6. <<>> \in Seq(Listables) /\ <<>> \in Seq(Nat)
    OBVIOUS
  <2> QED BY ONLY <2>3, <2>4, <2>5, <2>6, Zenon
<1>6. MetaTipada(m, a)
  BY ONLY <1>2, <1>4, <1>5 DEF MetaTipada, EsMetadata
<1> QED BY ONLY Tipado(f), a \in Archivos, <1>3, <1>6, TipoDeCambio

LEMMA NuevaTipada ==
  ASSUME NEW a
  PROVE  MetaTipada(NoExiste, a) /\ MetaTipada([NoExiste EXCEPT !.existe = TRUE, !.md5 = <<"0">>], a)
<1>1. PICK m : m = [NoExiste EXCEPT !.existe = TRUE, !.md5 = <<"0">>]
  OBVIOUS
<1>2. m = [existe |-> TRUE, size |-> 0, count |-> 0, blocks |-> <<>>, md5 |-> <<"0">>]
  BY <1>1 DEF NoExiste
<1>3. MetaTipada(m, a)
  BY ONLY <1>2 DEF MetaTipada, EsMetadata
<1>4. MetaTipada(NoExiste, a)
  BY DEF MetaTipada, EsMetadata, NoExiste
<1> QED BY ONLY <1>1, <1>3, <1>4

LEMMA CrearTipo ==
  ASSUME NEW f, Tipado(f), NEW a \in Archivos
  PROVE  Tipado(crearMetadata(f, a))
<1>1. PICK m : m = [NoExiste EXCEPT !.existe = TRUE, !.md5 = <<"0">>]
  OBVIOUS
<1>2. PICK g : g = crearMetadata(f, a)
  OBVIOUS
<1>3. Cambia(f, g, a, m)
  BY <1>1, <1>2 DEF Cambia, crearMetadata
<1>4. MetaTipada(m, a)
  BY ONLY <1>1, NuevaTipada
<1> QED BY ONLY Tipado(f), a \in Archivos, <1>2, <1>3, <1>4, TipoDeCambio

-----------------------------------------------------------------------------
(* Sequences of them *)

Tipada(z) == \E S : z \in Seq(S) /\ z # <<>> /\ \A f \in S : Tipado(f)

LEMMA TipadaPuntos ==
  ASSUME NEW z, Tipada(z)
  PROVE  /\ Len(z) \in Nat /\ Len(z) >= 1 /\ Tipado(Last(z))
         /\ \A k \in 1..Len(z) : Tipado(z[k])
<1>1. PICK S : z \in Seq(S) /\ z # <<>> /\ \A f \in S : Tipado(f)
  BY DEF Tipada
<1>2. Len(z) \in Nat /\ Len(z) # 0
  BY <1>1, EmptySeq
<1>3. \A k \in 1..Len(z) : z[k] \in S
  BY <1>1, ElementOfSeq
<1>4. Len(z) >= 1 /\ Len(z) \in 1..Len(z)
  BY <1>2
<1> QED BY <1>1, <1>2, <1>3, <1>4 DEF Last

LEMMA TipadaUna ==
  ASSUME NEW f, Tipado(f)
  PROVE  Tipada(<<f>>) /\ Last(<<f>>) = f
<1>1. PICK S : S = {f}
  OBVIOUS
<1>2. \A x \in S : Tipado(x)
  BY <1>1
<1>3. <<f>> \in Seq(S) /\ <<f>> # <<>> /\ Len(<<f>>) = 1 /\ <<f>>[1] = f
  BY <1>1
<1> QED BY <1>2, <1>3 DEF Tipada, Last

LEMMA TipadaSigue ==
  ASSUME NEW z, Tipada(z), NEW x, Tipada(x)
  PROVE  Tipada(z \o x) /\ Last(z \o x) = Last(x)
<1>1. PICK S : z \in Seq(S) /\ z # <<>> /\ \A f \in S : Tipado(f)
  BY DEF Tipada
<1>2. PICK T : x \in Seq(T) /\ x # <<>> /\ \A f \in T : Tipado(f)
  BY DEF Tipada
<1> DEFINE C == S \cup T
<1>3. z \in Seq(C) /\ x \in Seq(C) /\ \A f \in C : Tipado(f)
  BY <1>1, <1>2, SeqMonotonic
<1> HIDE DEF C
<1>4. /\ z \o x \in Seq(C) /\ Len(z \o x) = Len(z) + Len(x)
      /\ \A i \in 1..(Len(z) + Len(x)) : (z \o x)[i] = IF i <= Len(z) THEN z[i] ELSE x[i - Len(z)]
  BY <1>3, ConcatProperties
<1>5. Len(z) \in Nat /\ Len(x) \in Nat /\ Len(x) >= 1 /\ Len(z) >= 1
  BY TipadaPuntos
<1>6. PICK m, n : m = Len(z) /\ n = Len(x)
  OBVIOUS
<1>7. m + n \in 1..(m + n) /\ ~(m + n <= m) /\ m + n - m = n
  BY <1>5, <1>6
<1>8. (z \o x)[m + n] = x[n]
  BY <1>4, <1>6, <1>7
<1>9. z \o x # <<>>
  <2>1. Len(z \o x) # 0
    BY <1>4, <1>5, <1>6
  <2> QED BY <1>4, <2>1, EmptySeq
<1> QED BY <1>3, <1>4, <1>6, <1>8, <1>9 DEF Tipada, Last

LEMMA TipadaMas ==
  ASSUME NEW z, Tipada(z), NEW f, Tipado(f)
  PROVE  Tipada(Append(z, f)) /\ Last(Append(z, f)) = f
<1>1. Append(z, f) = z \o <<f>>
  <2>1. PICK S : z \in Seq(S)
    BY DEF Tipada
  <2>2. z \in Seq(S \cup {f}) /\ f \in S \cup {f}
    BY <2>1, SeqMonotonic
  <2> QED BY <2>2, AppendIsConcat
<1>2. Tipada(<<f>>) /\ Last(<<f>>) = f
  BY TipadaUna
<1>3. Tipada(z \o <<f>>) /\ Last(z \o <<f>>) = Last(<<f>>)
  BY <1>2, TipadaSigue
<1> QED BY <1>1, <1>2, <1>3, Zenon

LEMMA TipadaTres ==
  ASSUME NEW f, NEW g, NEW h, Tipado(f), Tipado(g), Tipado(h)
  PROVE  Tipada(<<f, g, h>>) /\ Last(<<f, g, h>>) = h
<1>1. PICK S : S = {f, g, h}
  OBVIOUS
<1>2. \A x \in S : Tipado(x)
  BY <1>1
<1>3. <<f, g, h>> \in Seq(S) /\ <<f, g, h>> # <<>> /\ Len(<<f, g, h>>) = 3 /\ <<f, g, h>>[3] = h
  BY <1>1
<1> QED BY <1>2, <1>3 DEF Tipada, Last

LEMMA TipadaCuatro ==
  ASSUME NEW f, NEW g, NEW h, NEW k, Tipado(f), Tipado(g), Tipado(h), Tipado(k)
  PROVE  Tipada(<<f, g, h, k>>) /\ Last(<<f, g, h, k>>) = k
<1>1. PICK S : S = {f, g, h, k}
  OBVIOUS
<1>2. \A x \in S : Tipado(x)
  BY <1>1
<1>3. <<f, g, h, k>> \in Seq(S) /\ <<f, g, h, k>> # <<>> /\ Len(<<f, g, h, k>>) = 4 /\ <<f, g, h, k>>[4] = k
  BY <1>1
<1> QED BY <1>2, <1>3 DEF Tipada, Last

(* A request that ends, and the next. *)
LEMMA TipadaConMD5 ==
  ASSUME NEW z, Tipada(z), NEW a \in Archivos
  PROVE  Tipada(Luego(z, LAMBDA g : <<setearMD5(g, a)>>))
<1>1. PICK f : f = Last(z)
  OBVIOUS
<1>2. Tipado(f)
  BY <1>1, TipadaPuntos
<1>3. Tipada(<<setearMD5(f, a)>>)
  BY <1>2, MD5Tipo, TipadaUna
<1>4. Tipada(z \o <<setearMD5(f, a)>>)
  BY <1>3, TipadaSigue
<1> QED BY <1>1, <1>4 DEF Luego

-----------------------------------------------------------------------------
(* Storing *)

Reescrito(f, g, d, c, b) == g = [f EXCEPT !.disco = d, !.copia = c, !.desborde = b]
LEMMA ContenidoDe ==
  ASSUME NEW f, Formado(f), NEW d, NEW c, NEW b, NEW g, Reescrito(f, g, d, c, b)
  PROVE  /\ Contenido(f, g) /\ g.cantidad = f.cantidad /\ g.disco = d /\ g.copia = c
         /\ g.vivo = f.vivo /\ g.desborde = b
<1>1. f = [bitmap |-> f.bitmap, cantidad |-> f.cantidad, archivo |-> f.archivo, disco |-> f.disco,
           copia |-> f.copia, vivo |-> f.vivo, desborde |-> f.desborde]
  BY DEF Formado
<1>2. g = [bitmap |-> f.bitmap, cantidad |-> f.cantidad, archivo |-> f.archivo, disco |-> d,
           copia |-> c, vivo |-> f.vivo, desborde |-> b]
  BY ONLY <1>1, Reescrito(f, g, d, c, b) DEF Reescrito
<1>3. /\ g.cantidad = f.cantidad /\ g.disco = d /\ g.copia = c
      /\ g.vivo = f.vivo /\ g.desborde = b
  BY ONLY <1>2
<1>4. Contenido(f, g)
  BY ONLY <1>2 DEF Contenido
<1> QED BY ONLY <1>3, <1>4

(* What is pasted on the copy in memory, or on the disk. *)
Pegado(f, g, dir, t) ==
  \/ g = [f EXCEPT !.copia = Pegar(f.copia, dir, t)]
  \/ g = [f EXCEPT !.disco = Pegar(f.disco, dir, t)]
  \/ \E b \in BOOLEAN : g = [f EXCEPT !.copia = Pegar(f.copia, dir, t), !.desborde = b]
LEMMA PegadoTipo ==
  ASSUME NEW f, Tipado(f), NEW dir, NEW t, NEW g, Pegado(f, g, dir, t)
  PROVE  Tipado(g) /\ g.bitmap = f.bitmap /\ g.archivo = f.archivo
<1>1. Formado(f) /\ Resto(f)
  BY DEF Tipado
<1>2. PICK c, d : c = Pegar(f.copia, dir, t) /\ d = Pegar(f.disco, dir, t)
  OBVIOUS
<1>3. DOMAIN c = DOMAIN f.copia /\ DOMAIN d = DOMAIN f.disco
  BY ONLY <1>2, PegarDominio
<1>4. \E x \in {f.disco, d}, y \in {f.copia, c}, b \in BOOLEAN :
        Reescrito(f, g, x, y, b)
  <2>1. f = [bitmap |-> f.bitmap, cantidad |-> f.cantidad, archivo |-> f.archivo, disco |-> f.disco,
             copia |-> f.copia, vivo |-> f.vivo, desborde |-> f.desborde]
    BY ONLY <1>1 DEF Formado
  <2>2. f.desborde \in BOOLEAN
    BY ONLY <1>1 DEF Resto
  <2>3. CASE g = [f EXCEPT !.copia = c]
    <3>1. Reescrito(f, g, f.disco, c, f.desborde)
      BY ONLY <2>1, <2>3 DEF Reescrito
    <3> QED BY <2>2, <3>1
  <2>4. CASE g = [f EXCEPT !.disco = d]
    <3>1. Reescrito(f, g, d, f.copia, f.desborde)
      BY ONLY <2>1, <2>4 DEF Reescrito
    <3> QED BY <2>2, <3>1
  <2>5. ASSUME NEW b \in BOOLEAN, g = [f EXCEPT !.copia = c, !.desborde = b]
        PROVE  \E x \in {f.disco, d}, y \in {f.copia, c}, e \in BOOLEAN :
                 Reescrito(f, g, x, y, e)
    <3>1. Reescrito(f, g, f.disco, c, b)
      BY ONLY <2>1, <2>5 DEF Reescrito
    <3> QED BY <3>1
  <2> QED BY <1>2, <2>3, <2>4, <2>5 DEF Pegado
<1>5. PICK x \in {f.disco, d}, y \in {f.copia, c}, b \in BOOLEAN :
        Reescrito(f, g, x, y, b)
  BY <1>4
<1>6. /\ Contenido(f, g) /\ g.cantidad = f.cantidad /\ g.disco = x /\ g.copia = y
      /\ g.vivo = f.vivo /\ g.desborde = b
  BY ONLY <1>1, <1>5, ContenidoDe
<1>7. Resto(g)
  BY ONLY <1>1, <1>3, <1>6, x \in {f.disco, d}, y \in {f.copia, c}, b \in BOOLEAN DEF Resto
<1> QED BY ONLY Tipado(f), <1>6, <1>7, TipoDeContenido

LEMMA OtroTipo ==
  ASSUME NEW z, Tipada(z), NEW a \in Archivos, NEW w, NEW C, w \in Seq(C), NEW i \in Nat,
         NEW f, f = Last(z), Bloques \ f.bitmap # {}, NEW y, y = OtroBloque(z, a, w, i)
  PROVE  Tipada(y) /\ \E b \in Bloques \ f.bitmap : Last(y).bitmap = f.bitmap \cup {b}
<1>1. Tipado(f)
  BY TipadaPuntos
<1>2. PICK b : b = Min(Bloques \ f.bitmap)
  OBVIOUS
<1>3. b \in Bloques \ f.bitmap /\ b \in Listables
  <2>1. Min(Bloques \ f.bitmap) \in Bloques \ f.bitmap
    BY PrimeroLibre
  <2>2. Bloques \subseteq Listables
    BY SistemaOK DEF Bloques, Listables
  <2> QED BY <1>2, <2>1, <2>2
<1>4. PICK t : t = SubSeq(w, (i - 1) * tamanioBloque + 1, Min({i * tamanioBloque, Len(w)}))
  OBVIOUS
<1>5. PICK B : B = f.bitmap \cup {b}
  OBVIOUS
<1>6. PICK g1 : g1 = [f EXCEPT !.bitmap = B]
  OBVIOUS
<1>7. PICK h1 : h1 = [g1 EXCEPT !.copia = Pegar(g1.copia, Dir(b), t)]
  OBVIOUS
<1>8. PICK m : m = IF i = cantidad_bloques(w) THEN Len(t) - 1 ELSE Len(t)
  OBVIOUS
<1>9. m \in Int
  <2>1. Len(t) \in Nat
    BY <1>4, LargoTrozo
  <2> QED BY <1>8, <2>1
<1>10. PICK g2 : g2 = actualizarSize(h1, a, m)
  OBVIOUS
<1>11. PICK g3 : g3 = AgregarBloque(g2, a, b)
  OBVIOUS
<1>12. y = z \o <<g1, g2, g3>> \o Contado(g3, a)
  BY <1>2, <1>4, <1>5, <1>6, <1>7, <1>8, <1>10, <1>11 DEF OtroBloque
<1>13. Tipado(g1) /\ g1.bitmap = B
  <2>1. B \subseteq Bloques
    BY <1>1, <1>3, <1>5 DEF Tipado
  <2> QED BY ONLY <1>1, <1>6, <2>1, TipoDeMarca
<1>14. Tipado(h1) /\ h1.bitmap = B
  <2>1. PICK dir : dir = Dir(b)
    OBVIOUS
  <2>2. h1 = [g1 EXCEPT !.copia = Pegar(g1.copia, dir, t)]
    BY <1>7, <2>1
  <2>3. Pegado(g1, h1, dir, t)
    BY ONLY <2>2 DEF Pegado
  <2> QED BY ONLY <1>13, <2>3, PegadoTipo
<1>15. Tipado(g2) /\ g2.bitmap = B
  BY ONLY a \in Archivos, <1>9, <1>10, <1>14, SizeTipo
<1>16. Tipado(g3) /\ g3.bitmap = B
  BY ONLY a \in Archivos, <1>3, <1>11, <1>15, AgregarTipo
<1>17. Tipada(<<g1, g2, g3>>) /\ Last(<<g1, g2, g3>>) = g3
  BY ONLY <1>13, <1>15, <1>16, TipadaTres
<1>18. PICK x : x = z \o <<g1, g2, g3>>
  OBVIOUS
<1>19. Tipada(x) /\ Last(x) = g3
  BY ONLY Tipada(z), <1>17, <1>18, TipadaSigue
<1>20. CASE EsRecurso(a)
  <2>1. PICK g4 : g4 = actualizarBlockCount(g3, a, 1)
    OBVIOUS
  <2>2. Tipado(g4) /\ g4.bitmap = B
    BY ONLY a \in Archivos, <1>16, <1>20, <2>1, ContarTipo
  <2>3. Tipada(<<g4>>) /\ Last(<<g4>>) = g4
    BY ONLY <2>2, TipadaUna
  <2>4. y = x \o <<g4>>
    BY ONLY <1>12, <1>18, <1>20, <2>1 DEF Contado
  <2>5. Tipada(y) /\ Last(y) = g4
    BY ONLY <1>19, <2>3, <2>4, TipadaSigue
  <2> QED BY <1>3, <1>5, <2>2, <2>5
<1>21. CASE ~EsRecurso(a)
  <2>1. x \o <<>> = x
    <3>1. PICK S : x \in Seq(S)
      BY <1>19 DEF Tipada
    <3> QED BY <3>1, ConcatEmptySeq
  <2>2. y = x
    BY ONLY <1>12, <1>18, <1>21, <2>1 DEF Contado
  <2> QED BY <1>3, <1>5, <1>16, <1>19, <2>2
<1> QED BY <1>20, <1>21

LEMMA GuardarPorBloqueTipo ==
  ASSUME NEW f, Tipado(f), NEW a \in Archivos,
         NEW w, NEW C, w \in Seq(C), cantidad_bloques(w) \in 1..Cardinality(Bloques \ f.bitmap)
  PROVE  Tipada(guardarPorBloque(f, a, w))
<1>1. PICK n : n = cantidad_bloques(w)
  OBVIOUS
<1>2. PICK s : s = [i \in 1..n |-> i]
  OBVIOUS
<1>3. PICK libres : libres = Cardinality(Bloques \ f.bitmap)
  OBVIOUS
<1>4. IsFiniteSet(Bloques \ f.bitmap) /\ libres \in Nat /\ n \in 1..libres /\ n \in Nat
  <2>1. IsFiniteSet(Bloques \ f.bitmap)
    BY BloquesNat, FS_Subset
  <2>2. libres \in Nat
    BY <1>3, <2>1, FS_CardinalityType
  <2> QED BY <1>1, <1>3, <2>1, <2>2
<1>5. Len(s) = n /\ DOMAIN s = 1..Len(s) /\ \A i \in 1..n : s[i] = i
  BY <1>2, <1>4
<1>a. PICK b0 : b0 = <<f>>
  OBVIOUS
<1>b. Len(s) \in Nat /\ DOMAIN s = 1..Len(s)
  BY <1>4, <1>5
<1>6. \E z : Cadena(z, "otro", <<a, w>>, b0, s) /\ DeAUno(a, w, b0, s) = z[Len(s)]
  BY <1>b, PliegaOtro
<1>7. guardarPorBloque(f, a, w) = DeAUno(a, w, b0, s)
  BY <1>1, <1>2, <1>a DEF guardarPorBloque, DeAUno
<1>c. PICK z : Cadena(z, "otro", <<a, w>>, b0, s) /\ guardarPorBloque(f, a, w) = z[n]
  BY <1>5, <1>6, <1>7
<1>8. z[0] = <<f>> /\ \A k \in 1..n : z[k] = OtroBloque(z[k - 1], a, w, s[k])
  <2>1. \A y, x : Paso("otro", <<a, w>>, y, x) = OtroBloque(y, a, w, x)
    BY DEF Paso
  <2> QED BY <1>5, <1>a, <1>c, <2>1 DEF Cadena
<1> DEFINE Bien(k) == /\ Tipada(z[k]) /\ IsFiniteSet(Bloques \ Last(z[k]).bitmap)
                      /\ Cardinality(Bloques \ Last(z[k]).bitmap) = libres - k
           G == {k \in 0..n : Bien(k)}
<1>9. 0 \in G
  <2>1. Tipada(z[0]) /\ Last(z[0]) = f
    BY <1>8, TipadaUna
  <2>2. libres - 0 = libres /\ 0 \in 0..n
    BY <1>4
  <2>3. Bien(0)
    BY <1>3, <1>4, <2>1, <2>2
  <2> QED BY <2>2, <2>3
<1>10. ASSUME NEW k \in 0..(n - 1), k \in G PROVE k + 1 \in G
  <2>1. Bien(k) /\ k + 1 \in 1..n /\ k + 1 \in 0..n /\ k + 1 - 1 = k /\ libres - k > 0
    BY <1>4, <1>10
  <2>2. PICK y : y = z[k]
    OBVIOUS
  <2>3. PICK h : h = Last(y)
    OBVIOUS
  <2>4. z[k + 1] = OtroBloque(y, a, w, s[k + 1])
    BY <1>8, <2>1, <2>2
  <2>5. Tipada(y) /\ IsFiniteSet(Bloques \ h.bitmap) /\ Cardinality(Bloques \ h.bitmap) = libres - k
    BY <2>1, <2>2, <2>3
  <2> HIDE DEF Bien, G
  <2>6. Bloques \ h.bitmap # {}
    BY <2>1, <2>5, FS_EmptySet
  <2>7. PICK x : x = OtroBloque(y, a, w, s[k + 1])
    OBVIOUS
  <2>8. Tipada(x) /\ \E b \in Bloques \ h.bitmap : Last(x).bitmap = h.bitmap \cup {b}
    <3>1. s[k + 1] \in Nat
      BY <1>5, <2>1
    <3> QED BY <2>3, <2>5, <2>6, <2>7, <3>1, OtroTipo
  <2>9. PICK b \in Bloques \ h.bitmap : Last(x).bitmap = h.bitmap \cup {b}
    BY <2>8
  <2>10. Bloques \ Last(x).bitmap = (Bloques \ h.bitmap) \ {b}
    BY <2>9
  <2>11. /\ IsFiniteSet(Bloques \ Last(x).bitmap)
         /\ Cardinality(Bloques \ Last(x).bitmap) = libres - k - 1
    <3>1. PICK S : S = Bloques \ h.bitmap
      OBVIOUS
    <3>2. IsFiniteSet(S \ {b}) /\ Cardinality(S \ {b}) = Cardinality(S) - 1
      BY <2>5, <2>9, <3>1, FS_RemoveElement
    <3> QED BY <2>5, <2>10, <3>1, <3>2
  <2>12. libres - k - 1 = libres - (k + 1)
    BY <1>4
  <2>13. Bien(k + 1)
    BY <2>4, <2>7, <2>8, <2>11, <2>12 DEF Bien
  <2> QED BY <2>1, <2>13 DEF G
<1> HIDE DEF Bien, G
<1>11. n \in G
  <2>1. \A k \in 0..n : k \in G
    BY ONLY <1>4, <1>9, <1>10, PorPasos
  <2> QED BY <1>4, <2>1
<1> QED BY <1>c, <1>11 DEF G, Bien

LEMMA UltimoTipo ==
  ASSUME NEW f, Tipado(f), NEW a \in Archivos, NEW p, NEW t, NEW n \in Int, NEW h, h = EnElUltimoBloque(f, a, p, t, n)
  PROVE  Tipado(h) /\ h.bitmap = f.bitmap
<1>1. PICK dir : dir = Dir(Last(f.archivo[a].blocks)) + p
  OBVIOUS
<1>2. PICK d : d = (f.desborde \/ p + Len(t) > tamanioBloque)
  OBVIOUS
<1>3. PICK g : g = [f EXCEPT !.copia = Pegar(f.copia, dir, t), !.desborde = d]
  OBVIOUS
<1>4. h = actualizarSize(g, a, n)
  BY <1>1, <1>2, <1>3 DEF EnElUltimoBloque
<1>5. d \in BOOLEAN
  BY ONLY <1>2
<1>6. Tipado(g) /\ g.bitmap = f.bitmap
  <2>1. Pegado(f, g, dir, t)
    BY ONLY <1>3, <1>5 DEF Pegado
  <2> QED BY ONLY Tipado(f), <2>1, PegadoTipo
<1> QED BY ONLY a \in Archivos, n \in Int, <1>4, <1>6, SizeTipo

LEMMA EnOtrosTipo ==
  ASSUME NEW f, Tipado(f), NEW g, Tipado(g), g.bitmap = f.bitmap, NEW a \in Archivos, NEW t, NEW C, t \in Seq(C)
  PROVE  Tipada(EnOtrosBloques(f, g, a, t))
<1>1. CASE validarBitsLibre(f, cantidad_bloques(t))
  <2>1. cantidad_bloques(t) \in 1..Cardinality(Bloques \ g.bitmap)
    BY <1>1 DEF validarBitsLibre
  <2>2. Tipada(guardarPorBloque(g, a, t))
    BY <2>1, GuardarPorBloqueTipo
  <2> QED BY <1>1, <2>2 DEF EnOtrosBloques
<1>2. CASE ~validarBitsLibre(f, cantidad_bloques(t))
  BY <1>2, MorirTipo, TipadaUna DEF EnOtrosBloques
<1> QED BY <1>1, <1>2

LEMMA GuardarEnBlocksTipo ==
  ASSUME NEW f, Tipado(f), NEW a \in Archivos, NEW C, NEW s \in Seq(C)
  PROVE  Tipada(guardarEnBlocks(f, a, s))
<1>1. Formado(f)
  BY DEF Tipado
<1>2. PICK z : z = guardarEnBlocks(f, a, s)
  OBVIOUS
<1>3. \/ z = <<Morir(f)>> \/ z = ConElMD5(a, EnOtrosBloques(f, f, a, s))
      \/ \E n \in Int : \E p, t : z = ConElMD5(a, <<EnElUltimoBloque(f, a, p, t, n)>>)
      \/ \E n \in Int, x \in Seq(C) : \E p, t :
           z = ConElMD5(a, EnOtrosBloques(f, EnElUltimoBloque(f, a, p, t, n), a, x))
  BY <1>1, <1>2, FormasDeGuardar
<1>a. \A y : Tipada(y) => Tipada(ConElMD5(a, y))
  BY TipadaConMD5 DEF ConElMD5
<1>4. CASE z = <<Morir(f)>>
  BY <1>2, <1>4, MorirTipo, TipadaUna
<1>5. CASE z = ConElMD5(a, EnOtrosBloques(f, f, a, s))
  <2>1. Tipada(EnOtrosBloques(f, f, a, s))
    BY EnOtrosTipo
  <2> QED BY <1>2, <1>5, <1>a, <2>1
<1>7. CASE \E n \in Int : \E p, t : z = ConElMD5(a, <<EnElUltimoBloque(f, a, p, t, n)>>)
  <2>1. PICK n \in Int : \E p, t : z = ConElMD5(a, <<EnElUltimoBloque(f, a, p, t, n)>>)
    BY <1>7
  <2>2. PICK p, t : z = ConElMD5(a, <<EnElUltimoBloque(f, a, p, t, n)>>)
    BY <2>1
  <2>3. PICK g : g = EnElUltimoBloque(f, a, p, t, n)
    OBVIOUS
  <2>4. Tipada(<<g>>)
    BY <2>3, UltimoTipo, TipadaUna
  <2> QED BY <1>2, <1>a, <2>2, <2>3, <2>4
<1>8. CASE \E n \in Int, x \in Seq(C) : \E p, t :
             z = ConElMD5(a, EnOtrosBloques(f, EnElUltimoBloque(f, a, p, t, n), a, x))
  <2>1. PICK n \in Int, x \in Seq(C) : \E p, t :
             z = ConElMD5(a, EnOtrosBloques(f, EnElUltimoBloque(f, a, p, t, n), a, x))
    BY <1>8
  <2>2. PICK p, t : z = ConElMD5(a, EnOtrosBloques(f, EnElUltimoBloque(f, a, p, t, n), a, x))
    BY <2>1
  <2>3. PICK g : g = EnElUltimoBloque(f, a, p, t, n)
    OBVIOUS
  <2>4. Tipado(g) /\ g.bitmap = f.bitmap
    BY <2>3, UltimoTipo
  <2>5. Tipada(EnOtrosBloques(f, g, a, x))
    BY <2>4, EnOtrosTipo
  <2> QED BY <1>2, <1>a, <2>2, <2>3, <2>5
<1> QED BY <1>3, <1>4, <1>5, <1>7, <1>8

-----------------------------------------------------------------------------
(* Erasing *)

LEMMA SinSizeTipo ==
  ASSUME NEW f, Tipado(f), NEW a \in Archivos, NEW g, g = [f EXCEPT !.archivo[a].size = 0]
  PROVE  Tipado(g)
<1>1. PICK m : m = [f.archivo[a] EXCEPT !.size = 0]
  OBVIOUS
<1>2. Cambia(f, g, a, m)
  BY <1>1 DEF Cambia
<1>3. MetaTipada(f.archivo[a], a)
  BY DEF Tipado
<1>4. MetaTipada(m, a)
  BY ONLY <1>1, <1>3 DEF MetaTipada, EsMetadata
<1> QED BY ONLY Tipado(f), a \in Archivos, <1>2, <1>4, TipoDeCambio

LEMMA VaciarTipo ==
  ASSUME NEW f, Tipado(f), NEW a \in Archivos, NEW g,
         g = [f EXCEPT !.archivo[a].count = 0, !.archivo[a].blocks = <<>>]
  PROVE  Tipado(g)
<1>1. PICK m : m = [f.archivo[a] EXCEPT !.count = 0, !.blocks = <<>>]
  OBVIOUS
<1>2. MetaTipada(f.archivo[a], a) /\ f.archivo = [x \in Archivos |-> f.archivo[x]]
  BY DEF Tipado, Formado
<1>3. Cambia(f, g, a, m)
  <2>1. g = [f EXCEPT !.archivo = [f.archivo EXCEPT ![a] = m]]
    BY <1>1, <1>2
  <2> QED BY <2>1 DEF Cambia
<1>4. m = [existe |-> f.archivo[a].existe, size |-> f.archivo[a].size, count |-> 0, blocks |-> <<>>,
           md5 |-> f.archivo[a].md5]
  BY <1>1, <1>2 DEF MetaTipada, EsMetadata
<1>5. MetaTipada(m, a)
  BY ONLY <1>2, <1>4 DEF MetaTipada, EsMetadata
<1> QED BY ONLY Tipado(f), a \in Archivos, <1>3, <1>5, TipoDeCambio

LEMMA BorrarTodoTipo ==
  ASSUME NEW f, Tipado(f), NEW a \in Archivos
  PROVE  Tipada(BorrarTodo(f, a))
<1>1. PICK C : C = f.bitmap \ ToSet(f.archivo[a].blocks)
  OBVIOUS
<1>2. PICK g1 : g1 = [f EXCEPT !.bitmap = C]
  OBVIOUS
<1>3. PICK g2 : g2 = [g1 EXCEPT !.archivo[a].size = 0]
  OBVIOUS
<1>4. PICK g3 : g3 = [g2 EXCEPT !.archivo[a].count = 0, !.archivo[a].blocks = <<>>]
  OBVIOUS
<1>5. PICK g4 : g4 = setearMD5(g3, a)
  OBVIOUS
<1>6. BorrarTodo(f, a) = <<g1, g2, g3, g4>>
  BY <1>1, <1>2, <1>3, <1>4, <1>5 DEF BorrarTodo
<1>7. Tipado(g1)
  <2>1. C \subseteq Bloques
    BY <1>1 DEF Tipado
  <2> QED BY ONLY Tipado(f), <1>2, <2>1, TipoDeMarca
<1>8. Tipado(g2)
  BY ONLY a \in Archivos, <1>3, <1>7, SinSizeTipo
<1>9. Tipado(g3)
  BY ONLY a \in Archivos, <1>4, <1>8, VaciarTipo
<1>10. Tipado(g4)
  BY ONLY a \in Archivos, <1>5, <1>9, MD5Tipo
<1> QED BY ONLY <1>6, <1>7, <1>8, <1>9, <1>10, TipadaCuatro

CuentaTipada(acc) == acc = [traza |-> acc.traza, resta |-> acc.resta] /\ acc.resta \in Int /\ Tipada(acc.traza)

LEMMA VueltaTipo ==
  ASSUME NEW acc, CuentaTipada(acc), NEW a \in Archivos, EsRecurso(a)
  PROVE  CuentaTipada(Vuelta(acc, a))
<1>1. PICK f : f = Last(acc.traza)
  OBVIOUS
<1>2. PICK z, resta : z = acc.traza /\ resta = acc.resta
  OBVIOUS
<1>3. acc = [traza |-> z, resta |-> resta] /\ resta \in Int /\ Tipada(z) /\ f = Last(z)
  BY <1>1, <1>2 DEF CuentaTipada
<1>4. Tipado(f) /\ Formado(f)
  BY <1>3, TipadaPuntos DEF Tipado
<1>5. PICK bl : bl = Last(f.archivo[a].blocks)
  OBVIOUS
<1>6. PICK p : p = f.archivo[a].size - (Len(f.archivo[a].blocks) - 1) * tamanioBloque
  OBVIOUS
<1>7. p \in Int
  <2>1. PICK n : n = Len(f.archivo[a].blocks)
    OBVIOUS
  <2>2. n \in Nat
    BY <1>4, <2>1, ListaTipo DEF Lista
  <2>3. f.archivo[a].size \in Int
    BY <1>4 DEF Formado, EsMetadata
  <2>4. tamanioBloque \in Nat
    BY SistemaOK
  <2>5. PICK q : q = (n - 1) * tamanioBloque
    OBVIOUS
  <2>6. q \in Int
    BY ONLY <2>2, <2>4, <2>5
  <2> QED BY ONLY <1>6, <2>1, <2>3, <2>5, <2>6
<1>8. PICK C : C = f.bitmap \ {bl}
  OBVIOUS
<1>9. PICK g1 : g1 = [f EXCEPT !.bitmap = C]
  OBVIOUS
<1>10. PICK g2 : g2 = actualizarSize(g1, a, -p)
  OBVIOUS
<1>11. PICK g3 : g3 = actualizarBlockCount(g2, a, -1)
  OBVIOUS
<1>12. PICK g4 : g4 = QuitarBloque(g3, a)
  OBVIOUS
<1>13. PICK dir : dir = Dir(bl) + p - resta
  OBVIOUS
<1>14. PICK h : h = [f EXCEPT !.copia = Pegar(f.copia, dir, <<"|">>)]
  OBVIOUS
<1>15. PICK k : k = actualizarSize(h, a, -resta)
  OBVIOUS
<1>16. Vuelta(acc, a) =
         IF resta = 0 \/ ~f.vivo THEN acc ELSE
         IF f.archivo[a].blocks = <<>> THEN [acc EXCEPT !.traza = Append(z, Morir(f))] ELSE
         IF resta > p THEN [traza |-> z \o <<g1, g2, g3, g4>>, resta |-> resta - p]
                      ELSE [traza |-> Append(z, k), resta |-> 0]
  BY <1>1, <1>2, <1>5, <1>6, <1>8, <1>9, <1>10, <1>11, <1>12, <1>13, <1>14, <1>15 DEF Vuelta
<1>17. Tipado(g1)
  <2>1. C \subseteq Bloques
    BY <1>4, <1>8 DEF Tipado
  <2> QED BY ONLY <1>4, <1>9, <2>1, TipoDeMarca
<1>18. PICK q0, q1, q2 : q0 = -p /\ q1 = -1 /\ q2 = -resta
  OBVIOUS
<1>19. q0 \in Int /\ q1 \in Int /\ q2 \in Int
  BY ONLY <1>3, <1>7, <1>18
<1>20. g2 = actualizarSize(g1, a, q0) /\ g3 = actualizarBlockCount(g2, a, q1) /\ k = actualizarSize(h, a, q2)
  BY ONLY <1>10, <1>11, <1>15, <1>18
<1>21. Tipado(g2)
  BY ONLY a \in Archivos, <1>17, <1>19, <1>20, SizeTipo
<1>22. Tipado(g3)
  BY ONLY a \in Archivos, EsRecurso(a), <1>19, <1>20, <1>21, ContarTipo
<1>23. Tipado(g4)
  BY ONLY a \in Archivos, <1>12, <1>22, QuitarTipo
<1>24. Tipado(h)
  <2>1. PICK t : t = <<"|">>
    OBVIOUS
  <2>2. Pegado(f, h, dir, t)
    BY ONLY <1>14, <2>1 DEF Pegado
  <2> QED BY ONLY <1>4, <2>2, PegadoTipo
<1>25. Tipado(k)
  BY ONLY a \in Archivos, <1>19, <1>20, <1>24, SizeTipo
<1>26. CASE resta = 0 \/ ~f.vivo
  BY <1>16, <1>26
<1>27. CASE ~(resta = 0 \/ ~f.vivo) /\ f.archivo[a].blocks = <<>>
  <2>1. PICK x : x = Append(z, Morir(f))
    OBVIOUS
  <2>2. Vuelta(acc, a) = [traza |-> x, resta |-> resta]
    BY ONLY <1>3, <1>16, <1>27, <2>1
  <2>3. Tipada(x)
    BY ONLY <1>3, <1>4, <2>1, MorirTipo, TipadaMas
  <2> QED BY ONLY <1>3, <2>2, <2>3 DEF CuentaTipada
<1>28. CASE ~(resta = 0 \/ ~f.vivo) /\ f.archivo[a].blocks # <<>> /\ resta > p
  <2>1. PICK x : x = z \o <<g1, g2, g3, g4>>
    OBVIOUS
  <2>2. Vuelta(acc, a) = [traza |-> x, resta |-> resta - p]
    BY ONLY <1>16, <1>28, <2>1
  <2>3. Tipada(<<g1, g2, g3, g4>>)
    BY ONLY <1>17, <1>21, <1>22, <1>23, TipadaCuatro
  <2>4. Tipada(x)
    BY ONLY <1>3, <2>1, <2>3, TipadaSigue
  <2>5. resta - p \in Int
    BY ONLY <1>3, <1>7
  <2> QED BY ONLY <2>2, <2>4, <2>5 DEF CuentaTipada
<1>29. CASE ~(resta = 0 \/ ~f.vivo) /\ f.archivo[a].blocks # <<>> /\ ~(resta > p)
  <2>1. PICK x : x = Append(z, k)
    OBVIOUS
  <2>2. Vuelta(acc, a) = [traza |-> x, resta |-> 0]
    BY ONLY <1>16, <1>29, <2>1
  <2>3. Tipada(x)
    BY ONLY <1>3, <1>25, <2>1, TipadaMas
  <2> QED BY ONLY <2>2, <2>3 DEF CuentaTipada
<1> QED BY <1>26, <1>27, <1>28, <1>29

LEMMA BorrarEnBlocksTipo ==
  ASSUME NEW f, Tipado(f), NEW a \in Archivos, EsRecurso(a), NEW n, n \in Nat \/ f.archivo[a].size <= n
  PROVE  Tipada(borrarEnBlocks(f, a, n))
<1>1. CASE f.archivo[a].size <= n
  BY <1>1, BorrarTodoTipo DEF borrarEnBlocks
<1>2. CASE ~(f.archivo[a].size <= n)
  <2>1. n \in Nat
    BY <1>2
  <2>2. PICK b : b = [traza |-> <<f>>, resta |-> n]
    OBVIOUS
  <2>3. PICK s : s = [i \in 1..(n + 1) |-> i]
    OBVIOUS
  <2>4. PICK v : v = Vueltas(a, b, s)
    OBVIOUS
  <2>5. borrarEnBlocks(f, a, n) = Luego(v.traza, LAMBDA g : <<setearMD5(g, a)>>)
    BY <1>2, <2>2, <2>3, <2>4 DEF borrarEnBlocks, Vueltas
  <2>6. Len(s) = n + 1 /\ Len(s) \in Nat /\ DOMAIN s = 1..Len(s)
    BY ONLY <2>1, <2>3
  <2>7. PICK z : Cadena(z, "vuelta", a, b, s) /\ Vueltas(a, b, s) = z[Len(s)]
    BY ONLY <2>6, PliegaVuelta
  <2>8. z[0] = b /\ \A k \in 1..(n + 1) : z[k] = Vuelta(z[k - 1], a)
    <3>1. \A y, x : Paso("vuelta", a, y, x) = Vuelta(y, a)
      BY DEF Paso
    <3> QED BY ONLY <2>6, <2>7, <3>1 DEF Cadena
  <2> DEFINE G == {k \in 0..(n + 1) : CuentaTipada(z[k])}
  <2>9. 0 \in G
    <3>1. Tipada(<<f>>)
      BY TipadaUna
    <3>2. CuentaTipada(b)
      BY ONLY <2>1, <2>2, <3>1 DEF CuentaTipada
    <3>3. 0 \in 0..(n + 1)
      BY <2>1
    <3> QED BY ONLY <2>8, <3>2, <3>3
  <2>10. ASSUME NEW k \in 0..n, k \in G PROVE k + 1 \in G
    <3>1. k + 1 \in 1..(n + 1) /\ k + 1 \in 0..(n + 1) /\ k + 1 - 1 = k
      BY <2>1
    <3>2. PICK y : y = z[k]
      OBVIOUS
    <3>3. CuentaTipada(y)
      BY <2>10, <3>2
    <3>4. CuentaTipada(Vuelta(y, a))
      BY ONLY a \in Archivos, EsRecurso(a), <3>3, VueltaTipo
    <3>5. z[k + 1] = Vuelta(y, a)
      BY ONLY <2>8, <3>1, <3>2
    <3> QED BY ONLY <3>1, <3>4, <3>5
  <2>11. n + 1 \in G
    <3> HIDE DEF G
    <3>1. n + 1 \in Nat /\ n + 1 - 1 = n /\ n + 1 \in 0..(n + 1)
      BY <2>1
    <3>2. PICK m : m = n + 1
      OBVIOUS
    <3>3. m \in Nat /\ \A k \in 0..(m - 1) : k \in G => k + 1 \in G
      <4>1. m \in Nat /\ m - 1 = n
        BY ONLY <2>1, <3>1, <3>2
      <4> QED BY ONLY <2>10, <4>1
    <3>4. \A k \in 0..m : k \in G
      BY ONLY <2>9, <3>3, PorPasos
    <3> QED BY ONLY <3>1, <3>2, <3>4
  <2>12. Tipada(v.traza)
    BY ONLY <2>4, <2>6, <2>7, <2>11 DEF CuentaTipada
  <2> QED BY ONLY a \in Archivos, <2>5, <2>12, TipadaConMD5
<1> QED BY <1>1, <1>2

-----------------------------------------------------------------------------
(* The tasks *)

LEMMA ConArchivoTipo ==
  ASSUME NEW f, Tipado(f), NEW a \in Archivos
  PROVE  Tipada(ConArchivo(f, a))
BY CrearTipo, TipadaUna DEF ConArchivo

LEMMA EscribirTipo ==
  ASSUME NEW f, Tipado(f), NEW t \in Trips
  PROVE  Tipada(escribirEnBitacora(f, t))
<1>1. PICK a : a = Bitacora(t)
  OBVIOUS
<1>2. a \in Archivos
  BY <1>1, Nombres
<1>3. PICK z : z = ConArchivo(f, a)
  OBVIOUS
<1>4. PICK g : g = Last(z)
  OBVIOUS
<1>5. Tipada(z) /\ Tipado(g)
  BY <1>2, <1>3, <1>4, ConArchivoTipo, TipadaPuntos
<1>6. PICK C : Nota(t) \in Seq(C)
  <2>1. LargoNota - 1 \in Nat
    BY SistemaOK
  <2> QED BY <2>1, TextoConBarra DEF Nota
<1>7. Tipada(guardarEnBlocks(g, a, Nota(t)))
  BY <1>2, <1>5, <1>6, GuardarEnBlocksTipo
<1>8. Tipada(z \o guardarEnBlocks(g, a, Nota(t)))
  BY <1>5, <1>7, TipadaSigue
<1> QED BY <1>1, <1>3, <1>4, <1>5, <1>8 DEF escribirEnBitacora, Luego

LEMMA GenerarTipo ==
  ASSUME NEW f, Tipado(f), NEW r \in Recursos, NEW n \in Nat
  PROVE  Tipada(generar(f, r, n))
<1>1. PICK a : a = File(r)
  OBVIOUS
<1>2. a \in Archivos
  BY <1>1, Nombres
<1>3. PICK z : z = ConArchivo(f, a)
  OBVIOUS
<1>4. PICK g : g = Last(z)
  OBVIOUS
<1>5. Tipada(z) /\ Tipado(g)
  BY <1>2, <1>3, <1>4, ConArchivoTipo, TipadaPuntos
<1>6. PICK s : s = ConBarra(Repetida(Letra[r], n))
  OBVIOUS
<1>7. PICK C : s \in Seq(C)
  BY <1>6, TextoConBarra
<1>8. Tipada(guardarEnBlocks(g, a, s))
  BY <1>2, <1>5, <1>7, GuardarEnBlocksTipo
<1>9. Tipada(z \o guardarEnBlocks(g, a, s))
  BY <1>5, <1>8, TipadaSigue
<1> QED BY <1>1, <1>3, <1>4, <1>5, <1>6, <1>9 DEF generar, Luego

LEMMA ConsumirTipo ==
  ASSUME NEW f, Tipado(f), NEW r \in Recursos, NEW n \in Nat
  PROVE  Tipada(consumir(f, r, n))
<1>1. CASE f.archivo[File(r)].existe
  BY <1>1, Nombres, BorrarEnBlocksTipo DEF consumir
<1>2. CASE ~f.archivo[File(r)].existe
  BY <1>2, TipadaUna DEF consumir
<1> QED BY <1>1, <1>2

LEMMA DescartarTipo ==
  ASSUME NEW f, Tipado(f), "Basura" \in Recursos
  PROVE  Tipada(descartarBasura(f))
<1>1. PICK a : a = File("Basura")
  OBVIOUS
<1>2. a \in Archivos /\ EsRecurso(a)
  BY <1>1, Nombres
<1>3. CASE ~f.archivo[a].existe
  BY <1>1, <1>3, TipadaUna DEF descartarBasura
<1>4. CASE f.archivo[a].existe
  <2>1. f.archivo[a].size <= f.archivo[a].size
    <3>1. MetaTipada(f.archivo[a], a)
      BY <1>2 DEF Tipado
    <3>2. f.archivo[a].size \in Int
      BY ONLY <3>1 DEF MetaTipada, EsMetadata
    <3> QED BY ONLY <3>2
  <2>2. PICK z : z = borrarEnBlocks(f, a, f.archivo[a].size)
    OBVIOUS
  <2>3. PICK g : g = Last(z)
    OBVIOUS
  <2>4. Tipada(z) /\ Tipado(g)
    <3>1. PICK n : n = f.archivo[a].size
      OBVIOUS
    <3>2. f.archivo[a].size <= n /\ z = borrarEnBlocks(f, a, n)
      BY <2>1, <2>2, <3>1
    <3>3. Tipada(z)
      BY ONLY Tipado(f), <1>2, <3>2, BorrarEnBlocksTipo
    <3> QED BY ONLY <2>3, <3>3, TipadaPuntos
  <2>5. PICK h : h = [g EXCEPT !.archivo[a] = NoExiste]
    OBVIOUS
  <2>6. Tipado(h)
    <3>1. PICK m : m = NoExiste
      OBVIOUS
    <3>2. MetaTipada(m, a)
      BY ONLY <3>1, NuevaTipada
    <3>3. Cambia(g, h, a, m)
      BY ONLY <2>5, <3>1 DEF Cambia
    <3> QED BY ONLY <1>2, <2>4, <3>2, <3>3, TipoDeCambio
  <2>7. Tipada(z \o <<h>>)
    <3>1. Tipada(<<h>>)
      BY ONLY <2>6, TipadaUna
    <3> QED BY ONLY <2>4, <3>1, TipadaSigue
  <2>8. descartarBasura(f) = IF g.vivo THEN z \o <<h>> ELSE z
    <3>1. f.archivo[File("Basura")].existe /\ borrarEnBlocks(f, File("Basura"), f.archivo[File("Basura")].size) = z
      BY ONLY <1>1, <1>4, <2>2
    <3>2. h = [g EXCEPT !.archivo[File("Basura")] = NoExiste]
      BY ONLY <1>1, <2>5
    <3>3. descartarBasura(f) = Luego(z, LAMBDA x : <<[x EXCEPT !.archivo[File("Basura")] = NoExiste]>>)
      BY ONLY <3>1, Zenon DEF descartarBasura
    <3> QED BY ONLY <2>3, <3>2, <3>3 DEF Luego
  <2> QED BY ONLY <2>4, <2>7, <2>8
<1> QED BY <1>3, <1>4

-----------------------------------------------------------------------------
(* fsck *)

LEMMA ValidosTipo ==
  ASSUME NEW f, NEW s, s \in Seq(Listables), s \in Seq(Nat)
  PROVE  Validos(f, s) \in Seq(Listables) /\ Validos(f, s) \in Seq(Nat)
<1>1. PICK n : n = Len(s)
  OBVIOUS
<1>2. /\ n \in Nat /\ Len(s) \in Nat /\ DOMAIN s = 1..Len(s)
      /\ \A i \in 1..n : s[i] \in Listables /\ s[i] \in Nat
  BY ONLY s \in Seq(Listables), s \in Seq(Nat), <1>1, LenProperties, ElementOfSeq
<1>3. PICK z : Cadena(z, "valido", f, <<>>, s) /\ Validos(f, s) = z[Len(s)]
  BY ONLY <1>2, PliegaValidos
<1>4. z[0] = <<>> /\ \A k \in 1..n : z[k] = z[k - 1] \/ z[k] = Append(z[k - 1], s[k])
  <2>1. \A y, x : Paso("valido", f, y, x) = y \/ Paso("valido", f, y, x) = Append(y, x)
    BY DEF Paso
  <2> QED BY ONLY <1>1, <1>3, <2>1 DEF Cadena
<1> DEFINE Bien(y) == y \in Seq(Listables) /\ y \in Seq(Nat)
           G == {k \in 0..n : Bien(z[k])}
<1>5. 0 \in G
  <2>1. Bien(<<>>) /\ 0 \in 0..n
    BY <1>2
  <2> QED BY ONLY <1>4, <2>1
<1>6. ASSUME NEW k \in 0..(n - 1), k \in G PROVE k + 1 \in G
  <2>1. k + 1 \in 1..n /\ k + 1 \in 0..n /\ k + 1 - 1 = k
    BY <1>2
  <2>2. PICK y, x : y = z[k] /\ x = s[k + 1]
    OBVIOUS
  <2>3. Bien(y) /\ x \in Listables /\ x \in Nat
    BY <1>2, <1>6, <2>1, <2>2
  <2>4. Bien(Append(y, x))
    BY ONLY <2>3, AppendProperties
  <2>5. z[k + 1] = y \/ z[k + 1] = Append(y, x)
    BY ONLY <1>4, <2>1, <2>2
  <2>6. Bien(z[k + 1])
    BY ONLY <2>3, <2>4, <2>5
  <2> QED BY ONLY <2>1, <2>6
<1>7. n \in G
  <2> HIDE DEF G
  <2>1. \A k \in 0..n : k \in G
    BY ONLY <1>2, <1>5, <1>6, PorPasos
  <2> QED BY ONLY <1>2, <2>1
<1> QED BY ONLY <1>1, <1>3, <1>7

LEMMA ListaTipada ==
  ASSUME NEW f, Tipado(f), NEW r \in Recursos
  PROVE  Tipado(validacionEsValidaLista(f, r))
<1>1. PICK a : a = File(r)
  OBVIOUS
<1>2. a \in Archivos
  BY <1>1, Nombres
<1>3. PICK g : g = validacionEsValidaLista(f, r)
  OBVIOUS
<1>4. PICK v : v = Validos(f, f.archivo[a].blocks)
  OBVIOUS
<1>5. PICK m : m = [f.archivo[a] EXCEPT !.blocks = v]
  OBVIOUS
<1>6. Cambia(f, g, a, m)
  BY <1>1, <1>3, <1>4, <1>5 DEF Cambia, validacionEsValidaLista
<1>7. MetaTipada(f.archivo[a], a)
  BY <1>2 DEF Tipado
<1>8. v \in Seq(Listables) /\ v \in Seq(Nat)
  <2>1. f.archivo[a].blocks \in Seq(Listables) /\ f.archivo[a].blocks \in Seq(Nat)
    BY ONLY <1>7 DEF MetaTipada, EsMetadata
  <2> QED BY ONLY <1>4, <2>1, ValidosTipo
<1>9. MetaTipada(m, a)
  BY ONLY <1>5, <1>7, <1>8 DEF MetaTipada, EsMetadata
<1> QED BY ONLY Tipado(f), <1>2, <1>3, <1>6, <1>9, TipoDeCambio

(* Writing over the blocks of the list keeps the device as long as it is.   *)
DeRelleno(f, r) == [blocks |-> f.archivo[File(r)].blocks, size |-> f.archivo[File(r)].size, letra |-> Letra[r]]
LEMMA PliegaRelleno ==
  ASSUME NEW f, NEW r, NEW s, s = [i \in DOMAIN f.archivo[File(r)].blocks |-> i],
         Len(s) \in Nat, DOMAIN s = 1..Len(s)
  PROVE  \E z : Cadena(z, "relleno", DeRelleno(f, r), f.disco, s) /\ Relleno(f, r) = z[Len(s)]
<1> DEFINE l == [i \in DOMAIN f.archivo[File(r)].blocks |-> i]
           trozo(i) == IF f.archivo[File(r)].size - (i - 1) * tamanioBloque >= tamanioBloque
                         THEN Repetida(Letra[r], tamanioBloque)
                         ELSE IF f.archivo[File(r)].size - (i - 1) * tamanioBloque >= 0
                                THEN ConBarra(Repetida(Letra[r], f.archivo[File(r)].size - (i - 1) * tamanioBloque))
                                ELSE <<Ajeno>>
           sigue(g, T) == IF T = {} THEN f.disco
                          ELSE Pegar(g[T \ {Max(T)}], Dir(f.archivo[File(r)].blocks[l[Max(T)]]), trozo(l[Max(T)]))
           iter == CHOOSE g : g = [T \in SUBSET (DOMAIN l) |-> sigue(g, T)]
           e == DeRelleno(f, r)
           b == f.disco
<1>1. Relleno(f, r) = iter[DOMAIN l]
  BY ONLY Zenon DEF Relleno, FoldLeft, MapThenFoldSet
<1>2. s = l /\ DOMAIN l = 1..Len(s)
  OBVIOUS
<1>3. \A h, T : sigue(h, T) = Sigue("relleno", e, b, l, h, T)
  <2>1. \A i : trozo(i) = TrozoRelleno(e, i)
    <3>1. e.size = f.archivo[File(r)].size /\ e.letra = Letra[r]
      BY DEF DeRelleno
    <3> QED BY ONLY <3>1, Zenon DEF TrozoRelleno
  <2>2. e.blocks = f.archivo[File(r)].blocks
    BY DEF DeRelleno
  <2>3. \A y, x : Paso("relleno", e, y, x) = Pegar(y, Dir(e.blocks[x]), TrozoRelleno(e, x))
    BY DEF Paso
  <2> HIDE DEF e, l, trozo, b
  <2>4. TAKE h, T
  <2>5. CASE T = {}
    BY ONLY <2>5 DEF Sigue, sigue, b
  <2>6. CASE T # {}
    BY ONLY <2>6, <2>1, <2>2, <2>3 DEF Sigue, sigue, b
  <2> QED BY <2>5, <2>6
<1>4. PICK g : EsPliegue(g, "relleno", e, b, l, Len(s))
  BY <1>2, ExistePaso
<1> HIDE DEF sigue, l, e, b
<1>5. g = [T \in SUBSET (DOMAIN l) |-> sigue(g, T)]
  BY <1>2, <1>3, <1>4 DEF EsPliegue
<1>6. iter = [T \in SUBSET (DOMAIN l) |-> sigue(iter, T)]
  BY <1>5
<1> HIDE DEF iter
<1>7. EsPliegue(iter, "relleno", e, b, l, Len(s))
  BY <1>2, <1>3, <1>6 DEF EsPliegue
<1>8. PICK z : Cadena(z, "relleno", e, b, l) /\ iter[1..Len(l)] = z[Len(l)]
  BY <1>2, <1>7, CadenaDePasos
<1> QED BY <1>1, <1>2, <1>8 DEF e, b

LEMMA RellenoDominio ==
  ASSUME NEW f, Tipado(f), NEW r \in Recursos
  PROVE  DOMAIN Relleno(f, r) = Dispositivo
<1>1. PICK n : n = Len(f.archivo[File(r)].blocks)
  OBVIOUS
<1>2. n \in Nat /\ DOMAIN f.archivo[File(r)].blocks = 1..n /\ DOMAIN f.disco = Dispositivo
  <2>1. MetaTipada(f.archivo[File(r)], File(r))
    BY Nombres DEF Tipado
  <2>2. f.archivo[File(r)].blocks \in Seq(Nat)
    BY ONLY <2>1 DEF MetaTipada, EsMetadata
  <2>3. DOMAIN f.disco = Dispositivo
    BY DEF Tipado, Resto
  <2> QED BY ONLY <1>1, <2>2, <2>3, LenProperties
<1>3. PICK s : s = [i \in DOMAIN f.archivo[File(r)].blocks |-> i]
  OBVIOUS
<1>4. Len(s) = n /\ Len(s) \in Nat /\ DOMAIN s = 1..Len(s)
  BY ONLY <1>2, <1>3
<1>5. PICK z : Cadena(z, "relleno", DeRelleno(f, r), f.disco, s) /\ Relleno(f, r) = z[Len(s)]
  BY ONLY <1>3, <1>4, PliegaRelleno
<1>6. z[0] = f.disco /\ \A k \in 1..n : DOMAIN z[k] = DOMAIN z[k - 1]
  <2>1. \A y, x : DOMAIN Paso("relleno", DeRelleno(f, r), y, x) = DOMAIN y
    <3>1. PICK e : e = DeRelleno(f, r)
      OBVIOUS
    <3>2. \A y, x : Paso("relleno", e, y, x) = Pegar(y, Dir(e.blocks[x]), TrozoRelleno(e, x))
      BY DEF Paso
    <3> QED BY ONLY <3>1, <3>2, PegarDominio
  <2> QED BY ONLY <1>4, <1>5, <2>1 DEF Cadena
<1> DEFINE G == {k \in 0..n : DOMAIN z[k] = Dispositivo}
<1>7. 0 \in G
  BY <1>2, <1>6
<1>8. ASSUME NEW k \in 0..(n - 1), k \in G PROVE k + 1 \in G
  <2>1. k + 1 \in 1..n /\ k + 1 \in 0..n /\ k + 1 - 1 = k
    BY <1>2
  <2> QED BY ONLY <1>6, <1>8, <2>1
<1>9. n \in G
  <2> HIDE DEF G
  <2>1. \A k \in 0..n : k \in G
    BY ONLY <1>2, <1>7, <1>8, PorPasos
  <2> QED BY ONLY <1>2, <2>1
<1> QED BY ONLY <1>4, <1>5, <1>9

LEMMA BlocksTipo ==
  ASSUME NEW f, Tipado(f), NEW r \in Recursos
  PROVE  Tipado(validarBlocksRecursos(f, r))
<1>1. Formado(f) /\ Resto(f)
  BY DEF Tipado
<1>2. PICK d : d = Relleno(f, r)
  OBVIOUS
<1>3. DOMAIN d = Dispositivo
  BY ONLY Tipado(f), r \in Recursos, <1>2, RellenoDominio
<1>4. PICK g : g = [f EXCEPT !.disco = d, !.copia = d]
  OBVIOUS
<1>5. validarBlocksRecursos(f, r) = f \/ validarBlocksRecursos(f, r) = g
  BY <1>2, <1>4 DEF validarBlocksRecursos
<1>6. Reescrito(f, g, d, d, f.desborde)
  <2>1. f = [bitmap |-> f.bitmap, cantidad |-> f.cantidad, archivo |-> f.archivo, disco |-> f.disco,
             copia |-> f.copia, vivo |-> f.vivo, desborde |-> f.desborde]
    BY ONLY <1>1 DEF Formado
  <2> QED BY ONLY <1>4, <2>1 DEF Reescrito
<1>7. /\ Contenido(f, g) /\ g.cantidad = f.cantidad /\ g.disco = d /\ g.copia = d
      /\ g.vivo = f.vivo /\ g.desborde = f.desborde
  BY ONLY <1>1, <1>6, ContenidoDe
<1>8. Resto(g)
  BY ONLY <1>1, <1>3, <1>7 DEF Resto
<1>9. Tipado(g)
  BY ONLY Tipado(f), <1>7, <1>8, TipoDeContenido
<1> QED BY <1>5, <1>9

LEMMA SizeFsckTipo ==
  ASSUME NEW f, Tipado(f), NEW r \in Recursos
  PROVE  Tipado(validarSizeRecurso(f, r))
<1>1. PICK a : a = File(r)
  OBVIOUS
<1>2. a \in Archivos
  BY <1>1, Nombres
<1>3. MetaTipada(f.archivo[a], a)
  BY <1>2 DEF Tipado
<1>4. PICK n : n = Len(Visible(f.disco, f.archivo[a].blocks))
  OBVIOUS
<1>5. n \in Int
  <2>1. f.archivo[a].blocks \in Seq(Nat)
    BY ONLY <1>3 DEF MetaTipada, EsMetadata
  <2>2. Len(Visible(f.disco, f.archivo[a].blocks)) \in Nat
    BY ONLY <2>1, VisibleLargo
  <2> QED BY ONLY <1>4, <2>2
<1>6. PICK m : m = [f.archivo[a] EXCEPT !.size = n]
  OBVIOUS
<1>7. PICK g : g = validarSizeRecurso(f, r)
  OBVIOUS
<1>8. Cambia(f, g, a, m)
  BY <1>1, <1>4, <1>6, <1>7 DEF Cambia, validarSizeRecurso
<1>9. MetaTipada(m, a)
  BY ONLY <1>3, <1>5, <1>6 DEF MetaTipada, EsMetadata
<1> QED BY ONLY Tipado(f), <1>2, <1>7, <1>8, <1>9, TipoDeCambio

LEMMA CuentaFsckTipo ==
  ASSUME NEW f, Tipado(f), NEW r \in Recursos
  PROVE  Tipado(validarBlockCountRecurso(f, r))
<1>1. PICK a : a = File(r)
  OBVIOUS
<1>2. a \in Archivos /\ EsRecurso(a)
  BY <1>1, Nombres
<1>3. MetaTipada(f.archivo[a], a)
  BY <1>2 DEF Tipado
<1>4. PICK n : n = Len(f.archivo[a].blocks)
  OBVIOUS
<1>5. n \in Int
  <2>1. f.archivo[a].blocks \in Seq(Nat)
    BY ONLY <1>3 DEF MetaTipada, EsMetadata
  <2>2. Len(f.archivo[a].blocks) \in Nat
    BY ONLY <2>1, LenProperties
  <2> QED BY ONLY <1>4, <2>2
<1>6. PICK m : m = [f.archivo[a] EXCEPT !.count = n]
  OBVIOUS
<1>7. PICK g : g = validarBlockCountRecurso(f, r)
  OBVIOUS
<1>8. Cambia(f, g, a, m)
  BY <1>1, <1>4, <1>6, <1>7 DEF Cambia, validarBlockCountRecurso
<1>9. MetaTipada(m, a)
  BY ONLY <1>2, <1>3, <1>5, <1>6 DEF MetaTipada, EsMetadata
<1> QED BY ONLY Tipado(f), <1>2, <1>7, <1>8, <1>9, TipoDeCambio

LEMMA UnoDeTipo ==
  ASSUME NEW q, NEW z, Tipada(z), NEW r
  PROVE  Tipada(UnoDe(q, z, r))
<1>1. Tipado(Last(z))
  BY TipadaPuntos
<1>2. CASE r \notin Recursos
  BY <1>2 DEF UnoDe
<1>3. CASE r \in Recursos
  <2>1. PICK f : f = Last(z)
    OBVIOUS
  <2>2. PICK g : g = Arregla(q, f, r)
    OBVIOUS
  <2>3. Tipado(g)
    BY <1>1, <1>3, <2>1, <2>2, ListaTipada, BlocksTipo, SizeFsckTipo, CuentaFsckTipo DEF Arregla
  <2>4. Tipada(Append(z, g))
    BY ONLY Tipada(z), <2>3, TipadaMas
  <2> QED BY ONLY <1>3, <2>1, <2>2, <2>4 DEF UnoDe
<1> QED BY <1>2, <1>3

LEMMA DeCadaTipo ==
  ASSUME NEW q, NEW z, Tipada(z)
  PROVE  Tipada(DeCada(q, z))
<1>1. PICK y : y = UnoDe(q, z, "Oxigeno")
  OBVIOUS
<1>2. PICK x : x = UnoDe(q, y, "Comida")
  OBVIOUS
<1>3. Tipada(y)
  BY <1>1, UnoDeTipo
<1>4. Tipada(x)
  BY <1>2, <1>3, UnoDeTipo
<1>5. Tipada(UnoDe(q, x, "Basura"))
  BY <1>4, UnoDeTipo
<1> QED BY <1>1, <1>2, <1>5 DEF DeCada

LEMMA FsckTipo ==
  ASSUME NEW f, Tipado(f), NEW residuo \in Residuos, NEW z, z = protocolo_fsck(f, residuo)
  PROVE  Tipada(z)
<1>1. PICK y : y = DeCada("listas", <<f>>)
  OBVIOUS
<1>2. PICK g : g = Last(y)
  OBVIOUS
<1>3. Tipada(y) /\ Tipado(g)
  BY <1>1, <1>2, TipadaUna, DeCadaTipo, TipadaPuntos
<1>4. PICK h : h = validarCantidadBloques(g)
  OBVIOUS
<1>5. Tipado(h)
  <2>1. Formado(g) /\ Resto(g)
    BY <1>3 DEF Tipado
  <2>2. g = [bitmap |-> g.bitmap, cantidad |-> g.cantidad, archivo |-> g.archivo, disco |-> g.disco,
             copia |-> g.copia, vivo |-> g.vivo, desborde |-> g.desborde]
    BY ONLY <2>1 DEF Formado
  <2>3. h = [bitmap |-> g.bitmap, cantidad |-> cantidadBloques, archivo |-> g.archivo, disco |-> g.disco,
             copia |-> g.copia, vivo |-> g.vivo, desborde |-> g.desborde]
    BY ONLY <1>4, <2>2 DEF validarCantidadBloques
  <2>4. Contenido(g, h)
    BY ONLY <2>3 DEF Contenido
  <2>5. /\ h.cantidad = cantidadBloques /\ h.disco = g.disco /\ h.copia = g.copia
        /\ h.vivo = g.vivo /\ h.desborde = g.desborde
    BY ONLY <2>3
  <2>6. Resto(h)
    BY ONLY <2>1, <2>5 DEF Resto, Superbloque
  <2> QED BY ONLY <1>3, <2>4, <2>6, TipoDeContenido
<1>6. PICK w : w = Append(y, h)
  OBVIOUS
<1>7. Tipada(w) /\ Last(w) = h
  BY ONLY <1>3, <1>5, <1>6, TipadaMas
<1>8. PICK k : k = validarBitmapSabotaje(h, residuo)
  OBVIOUS
<1>9. Tipado(k)
  <2>1. PICK B : B = Bloques \cap (residuo \cup Listados(h, {Bitacora(t) : t \in Revisadas(h)} \cup {File(r) : r \in Recursos}))
    OBVIOUS
  <2>2. k = [h EXCEPT !.bitmap = B]
    BY <1>8, <2>1 DEF validarBitmapSabotaje
  <2>3. B \subseteq Bloques
    BY <2>1
  <2> QED BY ONLY <1>5, <2>2, <2>3, TipoDeMarca
<1>10. PICK v : v = Append(w, k)
  OBVIOUS
<1>11. Tipada(v)
  BY ONLY <1>7, <1>9, <1>10, TipadaMas
<1>12. ListasYBits(f, residuo) = v
  BY <1>1, <1>2, <1>4, <1>6, <1>7, <1>8, <1>10, CadaEs DEF ListasYBits
<1>13. z = DeCada("count", DeCada("size", DeCada("blocks", v)))
  BY <1>12, CadaEs DEF protocolo_fsck
<1> QED BY <1>11, <1>13, DeCadaTipo

-----------------------------------------------------------------------------
(* Requests, and the invariant                                              *)

HistTipada(h) == /\ EsHistoria(h) /\ DOMAIN h.cantidad = Recursos
                 /\ h.perdidas \subseteq Trips /\ h.sinCopiar \subseteq Trips
InvTipo == /\ Tipado(fs) /\ HistTipada(hist)
           /\ sync_blocks \in {"sleep", "mira", "fin"} /\ flagEnd \in BOOLEAN
           /\ contadorSabotajeLeido \in 0..Posiciones

LEMMA MorirTipada ==
  ASSUME NEW h, HistTipada(h), NEW f, NEW corte
  PROVE  HistTipada(AlMorir(h, f, corte))
<1>1. EsHistoria(h) /\ DOMAIN h.cantidad = Recursos /\ h.perdidas \subseteq Trips /\ h.sinCopiar \subseteq Trips
  BY DEF HistTipada
<1>2. h = [cantidad |-> h.cantidad, notas |-> h.notas, sinCopiar |-> h.sinCopiar,
           perdidas |-> h.perdidas, fallas |-> h.fallas]
  BY ONLY <1>1 DEF EsHistoria
<1>3. PICK P : P = h.perdidas \cup h.sinCopiar
  OBVIOUS
<1>4. PICK F : F = h.fallas \cup (IF corte THEN {"corte"} ELSE {})
                     \cup (IF f.copia # f.disco THEN {"viejo"} ELSE {})
  OBVIOUS
<1>5. PICK m : m = [h EXCEPT !.perdidas = P, !.sinCopiar = {}, !.fallas = F]
  OBVIOUS
<1>6. AlMorir(h, f, corte) = m
  BY <1>3, <1>4, <1>5 DEF AlMorir
<1>7. m = [cantidad |-> h.cantidad, notas |-> h.notas, sinCopiar |-> {}, perdidas |-> P, fallas |-> F]
  BY ONLY <1>2, <1>5
<1>8. P \subseteq Trips
  BY ONLY <1>1, <1>3
<1>9. EsHistoria(m) /\ m.cantidad = h.cantidad /\ m.perdidas = P /\ m.sinCopiar = {}
  BY ONLY <1>7 DEF EsHistoria
<1> QED BY ONLY <1>1, <1>6, <1>8, <1>9 DEF HistTipada

(* With other quantities, other faults, or nothing left to copy. *)
LEMMA OtraTipada ==
  ASSUME NEW h, HistTipada(h)
  PROVE  /\ \A x : DOMAIN x = Recursos => HistTipada([h EXCEPT !.cantidad = x])
         /\ \A x : HistTipada([h EXCEPT !.fallas = x])
         /\ HistTipada([h EXCEPT !.sinCopiar = {}])
<1>1. EsHistoria(h) /\ DOMAIN h.cantidad = Recursos /\ h.perdidas \subseteq Trips /\ h.sinCopiar \subseteq Trips
  BY DEF HistTipada
<1>2. h = [cantidad |-> h.cantidad, notas |-> h.notas, sinCopiar |-> h.sinCopiar,
           perdidas |-> h.perdidas, fallas |-> h.fallas]
  BY ONLY <1>1 DEF EsHistoria
<1>3. ASSUME NEW x, DOMAIN x = Recursos PROVE HistTipada([h EXCEPT !.cantidad = x])
  <2>1. PICK k : k = [h EXCEPT !.cantidad = x]
    OBVIOUS
  <2>2. k = [cantidad |-> x, notas |-> h.notas, sinCopiar |-> h.sinCopiar, perdidas |-> h.perdidas, fallas |-> h.fallas]
    BY ONLY <1>2, <2>1
  <2>3. EsHistoria(k) /\ k.cantidad = x /\ k.perdidas = h.perdidas /\ k.sinCopiar = h.sinCopiar
    BY ONLY <2>2 DEF EsHistoria
  <2> QED BY ONLY <1>1, <1>3, <2>1, <2>3 DEF HistTipada
<1>4. ASSUME NEW x PROVE HistTipada([h EXCEPT !.fallas = x])
  <2>1. PICK k : k = [h EXCEPT !.fallas = x]
    OBVIOUS
  <2>2. k = [cantidad |-> h.cantidad, notas |-> h.notas, sinCopiar |-> h.sinCopiar, perdidas |-> h.perdidas, fallas |-> x]
    BY ONLY <1>2, <2>1
  <2>3. EsHistoria(k) /\ k.cantidad = h.cantidad /\ k.perdidas = h.perdidas /\ k.sinCopiar = h.sinCopiar
    BY ONLY <2>2 DEF EsHistoria
  <2> QED BY ONLY <1>1, <2>1, <2>3 DEF HistTipada
<1>5. HistTipada([h EXCEPT !.sinCopiar = {}])
  <2>1. PICK k : k = [h EXCEPT !.sinCopiar = {}]
    OBVIOUS
  <2>2. k = [cantidad |-> h.cantidad, notas |-> h.notas, sinCopiar |-> {}, perdidas |-> h.perdidas, fallas |-> h.fallas]
    BY ONLY <1>2, <2>1
  <2>3. EsHistoria(k) /\ k.cantidad = h.cantidad /\ k.perdidas = h.perdidas /\ k.sinCopiar = {}
    BY ONLY <2>2 DEF EsHistoria
  <2> QED BY ONLY <1>1, <2>1, <2>3 DEF HistTipada
<1> QED BY <1>3, <1>4, <1>5

LEMMA PedidaTipada ==
  ASSUME HistTipada(hist), NEW t \in Trips, NEW r, NEW n, NEW h, h = Pedida(t, r, n)
  PROVE  HistTipada(h)
<1>a. /\ EsHistoria(hist) /\ DOMAIN hist.cantidad = Recursos /\ hist.perdidas \subseteq Trips
      /\ hist.sinCopiar \subseteq Trips
  BY DEF HistTipada
<1>1. hist = [cantidad |-> hist.cantidad, notas |-> hist.notas, sinCopiar |-> hist.sinCopiar,
              perdidas |-> hist.perdidas, fallas |-> hist.fallas]
  BY ONLY <1>a DEF EsHistoria
<1>2. PICK N : N = [hist.notas EXCEPT ![t] = hist.notas[t] \o Nota(t)]
  OBVIOUS
<1>3. PICK S : S = hist.sinCopiar \cup {t}
  OBVIOUS
<1>4. PICK k : k = [hist EXCEPT !.notas = N, !.sinCopiar = S]
  OBVIOUS
<1>5. k = [cantidad |-> hist.cantidad, notas |-> N, sinCopiar |-> S,
           perdidas |-> hist.perdidas, fallas |-> hist.fallas]
  BY ONLY <1>1, <1>4
<1>6. Anotada(t) = k
  BY <1>2, <1>3, <1>4 DEF Anotada
<1>7. PICK C : C = IF r = "" THEN k.cantidad ELSE [k.cantidad EXCEPT ![r] = n]
  OBVIOUS
<1>8. PICK F : F = k.fallas \cup (IF r # "" /\ Falla({"viejo"}) THEN {"size"} ELSE {})
                     \cup (IF SinBit(fs) # {} THEN {"doble"} ELSE {})
  OBVIOUS
<1>9. h = [k EXCEPT !.cantidad = C, !.fallas = F]
  BY <1>6, <1>7, <1>8 DEF Pedida
<1>10. h = [cantidad |-> C, notas |-> N, sinCopiar |-> S, perdidas |-> hist.perdidas, fallas |-> F]
  BY ONLY <1>5, <1>9
<1>11. EsHistoria(h) /\ h.cantidad = C /\ h.perdidas = hist.perdidas /\ h.sinCopiar = S
  BY ONLY <1>10 DEF EsHistoria
<1>12. k.cantidad = hist.cantidad
  BY ONLY <1>5
<1>13. DOMAIN C = Recursos
  BY ONLY <1>a, <1>7, <1>12
<1>14. S \subseteq Trips
  BY ONLY <1>a, <1>3, t \in Trips
<1> QED BY ONLY <1>a, <1>11, <1>13, <1>14 DEF HistTipada

LEMMA ArregladaTipada ==
  ASSUME HistTipada(hist), NEW fin, NEW h, h = AlArreglar(fin)
  PROVE  HistTipada(h)
<1>a. /\ EsHistoria(hist) /\ DOMAIN hist.cantidad = Recursos /\ hist.perdidas \subseteq Trips
      /\ hist.sinCopiar \subseteq Trips
  BY DEF HistTipada
<1>1. hist = [cantidad |-> hist.cantidad, notas |-> hist.notas, sinCopiar |-> hist.sinCopiar,
              perdidas |-> hist.perdidas, fallas |-> hist.fallas]
  BY ONLY <1>a DEF EsHistoria
<1>2. PICK C : C = IF Falla({"corte"}) \/ SIZEPerdido(fin)
                     THEN [r \in Recursos |-> fin.archivo[File(r)].size] ELSE hist.cantidad
  OBVIOUS
<1>3. PICK P : P = IF fin.copia # fs.copia THEN hist.perdidas \cup hist.sinCopiar ELSE hist.perdidas
  OBVIOUS
<1>4. PICK F : F = (hist.fallas \ {"corte", "viejo"})
                     \cup (IF Salteadas(fs) # {} THEN {"salteo"} ELSE {})
                     \cup (IF SIZEPerdido(fin) THEN {"size"} ELSE {})
  OBVIOUS
<1>5. h = [hist EXCEPT !.cantidad = C, !.perdidas = P, !.fallas = F]
  BY <1>2, <1>3, <1>4 DEF AlArreglar
<1>6. h = [cantidad |-> C, notas |-> hist.notas, sinCopiar |-> hist.sinCopiar, perdidas |-> P, fallas |-> F]
  BY ONLY <1>1, <1>5
<1>7. EsHistoria(h) /\ h.cantidad = C /\ h.perdidas = P /\ h.sinCopiar = hist.sinCopiar
  BY ONLY <1>6 DEF EsHistoria
<1>8. DOMAIN C = Recursos
  BY ONLY <1>a, <1>2
<1>9. P \subseteq Trips
  BY ONLY <1>a, <1>3
<1> QED BY ONLY <1>a, <1>7, <1>8, <1>9 DEF HistTipada

(* A request is served to its end or cut at one of its points. *)
LEMMA ServirTipo ==
  ASSUME Tipado(fs), HistTipada(hist), NEW traza, Tipada(traza), NEW h, HistTipada(h), NEW d, Servir(traza, h, d)
  PROVE  Tipado(fs') /\ HistTipada(hist') /\ UNCHANGED proceso
<1>8. UNCHANGED proceso
  BY DEF Servir
<1>1. /\ Len(traza) \in Nat /\ Tipado(Last(traza)) /\ \A k \in 1..Len(traza) : Tipado(traza[k])
  BY ONLY Tipada(traza), TipadaPuntos
<1>2. PICK x : x = hist.cantidad
  OBVIOUS
<1>3. DOMAIN x = Recursos
  BY <1>2 DEF HistTipada
<1>4. PICK w : w = [h EXCEPT !.cantidad = x]
  OBVIOUS
<1>5. HistTipada(w)
  BY ONLY HistTipada(h), <1>3, <1>4, OtraTipada
<1>6. CASE /\ fs' = Last(traza)
           /\ \/ hist' = h
              \/ \E e : hist' = AlMorir([h EXCEPT !.cantidad = hist.cantidad], e, FALSE)
  <2>1. CASE hist' = h
    BY ONLY <1>1, <1>6, <1>8, <2>1, HistTipada(h), Zenon
  <2>2. CASE \E e : hist' = AlMorir([h EXCEPT !.cantidad = hist.cantidad], e, FALSE)
    <3>1. PICK e : hist' = AlMorir([h EXCEPT !.cantidad = hist.cantidad], e, FALSE)
      BY <2>2
    <3>2. hist' = AlMorir(w, e, FALSE)
      BY ONLY <1>2, <1>4, <3>1
    <3>3. HistTipada(hist')
      BY ONLY <1>5, <3>2, MorirTipada
    <3> QED BY ONLY <1>1, <1>6, <1>8, <3>3, Zenon
  <2> QED BY <1>6, <2>1, <2>2
<1>7. CASE \E k \in 2..(Len(traza) - 1) :
             /\ fs' = Morir(traza[k])
             /\ \/ hist' = AlMorir(h, traza[k], TRUE)
                \/ \E F : hist' = AlMorir([hist EXCEPT !.fallas = F], traza[k], FALSE)
  <2>1. PICK k \in 2..(Len(traza) - 1) :
             /\ fs' = Morir(traza[k])
             /\ \/ hist' = AlMorir(h, traza[k], TRUE)
                \/ \E F : hist' = AlMorir([hist EXCEPT !.fallas = F], traza[k], FALSE)
    BY <1>7, Zenon
  <2>2. k \in 1..Len(traza)
    BY ONLY <1>1, k \in 2..(Len(traza) - 1)
  <2>3. PICK g : g = traza[k]
    OBVIOUS
  <2>4. Tipado(g)
    BY ONLY <1>1, <2>2, <2>3
  <2>5. Tipado(fs')
    <3>1. fs' = Morir(g)
      BY <2>1, <2>3
    <3> QED BY ONLY <2>4, <3>1, MorirTipo
  <2>6. CASE hist' = AlMorir(h, traza[k], TRUE)
    <3>1. HistTipada(hist')
      BY ONLY HistTipada(h), <2>6, MorirTipada
    <3> QED BY <2>5, <3>1, <1>8, Zenon
  <2>7. CASE \E F : hist' = AlMorir([hist EXCEPT !.fallas = F], traza[k], FALSE)
    <3>1. PICK F : hist' = AlMorir([hist EXCEPT !.fallas = F], traza[k], FALSE)
      BY <2>7
    <3>2. PICK m : m = [hist EXCEPT !.fallas = F]
      OBVIOUS
    <3>3. HistTipada(m)
      BY ONLY HistTipada(hist), <3>2, OtraTipada
    <3>4. hist' = AlMorir(m, traza[k], FALSE)
      BY ONLY <3>1, <3>2
    <3>5. HistTipada(hist')
      BY ONLY <3>3, <3>4, MorirTipada
    <3> QED BY <2>5, <3>5, <1>8, Zenon
  <2> QED BY <2>1, <2>6, <2>7, Zenon
<1> QED
  <2>1. \/ /\ fs' = Last(traza) /\ danio' = d
           /\ \/ hist' = h
              \/ \E e : hist' = AlMorir([h EXCEPT !.cantidad = hist.cantidad], e, FALSE)
        \/ \E k \in 2..(Len(traza) - 1) :
              /\ fs' = Morir(traza[k])
              /\ \/ d = danio /\ danio' = danio /\ hist' = AlMorir(h, traza[k], TRUE)
                 \/ /\ d # danio /\ danio' = [danio EXCEPT !.avisado = FALSE]
                    /\ \E X : hist' = AlMorir([hist EXCEPT !.fallas = hist.fallas \cup (h.fallas \ {"size"}) \cup X],
                                              traza[k], FALSE)
    BY ONLY Servir(traza, h, d), ServirCasos
  <2> QED BY ONLY <1>6, <1>7, <1>8, <2>1, Zenon

LEMMA IgualProceso ==
  ASSUME InvTipo, Tipado(fs'), HistTipada(hist'), UNCHANGED proceso
  PROVE  InvTipo'
BY DEF InvTipo, proceso

(* The request of a tripulante is the event and what comes after it. *)
LEMMA EscritoTipo ==
  ASSUME InvTipo, NEW z, Tipada(z), NEW x, Tipada(x), NEW y, y = IF Last(z).vivo THEN z \o x ELSE z,
         NEW t \in Trips, NEW r, NEW n, NEW h, h = Pedida(t, r, n), Servir(y, h, danio)
  PROVE  InvTipo'
<1>1. Tipado(fs) /\ HistTipada(hist)
  BY DEF InvTipo
<1>2. Tipada(z \o x)
  BY ONLY Tipada(z), Tipada(x), TipadaSigue
<1>3. Tipada(y)
  BY ONLY <1>2, Tipada(z), y = IF Last(z).vivo THEN z \o x ELSE z
<1>4. HistTipada(h)
  BY ONLY <1>1, t \in Trips, h = Pedida(t, r, n), PedidaTipada
<1>5. PICK d : d = danio
  OBVIOUS
<1>6. Servir(y, h, d)
  BY <1>5
<1>7. Tipado(fs') /\ HistTipada(hist') /\ UNCHANGED proceso
  BY ONLY <1>1, <1>3, <1>4, <1>6, ServirTipo
<1> QED BY <1>7, IgualProceso

LEMMA GenerarRecursoTipo ==
  ASSUME InvTipo, NEW t \in Obreros, NEW r \in Recursos, NEW n \in Cantidades, GenerarRecurso(t, r, n)
  PROVE  InvTipo'
<1>1. PICK z : z = escribirEnBitacora(fs, t)
  OBVIOUS
<1>2. PICK g : g = Last(z)
  OBVIOUS
<1>3. PICK x : x = generar(g, r, n)
  OBVIOUS
<1>4. PICK y : y = IF Last(z).vivo THEN z \o x ELSE z
  OBVIOUS
<1>5. PICK q : q = hist.cantidad[r] + n
  OBVIOUS
<1>6. PICK h : h = Pedida(t, r, q)
  OBVIOUS
<1>7. Servir(y, h, danio)
  BY <1>1, <1>2, <1>3, <1>4, <1>5, <1>6 DEF GenerarRecurso, Atender, Luego, Pedida
<1>8. t \in Trips /\ n \in Nat /\ Tipado(fs)
  BY SistemaOK DEF InvTipo
<1>9. Tipada(z) /\ Tipado(g)
  BY ONLY <1>1, <1>2, <1>8, EscribirTipo, TipadaPuntos
<1>10. Tipada(x)
  BY ONLY <1>3, <1>8, <1>9, r \in Recursos, GenerarTipo
<1> QED BY ONLY InvTipo, <1>4, <1>6, <1>7, <1>8, <1>9, <1>10, EscritoTipo

LEMMA ConsumirRecursoTipo ==
  ASSUME InvTipo, NEW t \in Obreros, NEW r \in Recursos, NEW n \in Cantidades, ConsumirRecurso(t, r, n)
  PROVE  InvTipo'
<1>1. PICK z : z = escribirEnBitacora(fs, t)
  OBVIOUS
<1>2. PICK g : g = Last(z)
  OBVIOUS
<1>3. PICK x : x = consumir(g, r, n)
  OBVIOUS
<1>4. PICK y : y = IF Last(z).vivo THEN z \o x ELSE z
  OBVIOUS
<1>5. PICK q : q = IF n < hist.cantidad[r] THEN hist.cantidad[r] - n ELSE 0
  OBVIOUS
<1>6. PICK h : h = Pedida(t, r, q)
  OBVIOUS
<1>7. Servir(y, h, danio)
  BY <1>1, <1>2, <1>3, <1>4, <1>5, <1>6 DEF ConsumirRecurso, Atender, Luego, Pedida
<1>8. t \in Trips /\ n \in Nat /\ Tipado(fs)
  BY SistemaOK DEF InvTipo
<1>9. Tipada(z) /\ Tipado(g)
  BY ONLY <1>1, <1>2, <1>8, EscribirTipo, TipadaPuntos
<1>10. Tipada(x)
  BY ONLY <1>3, <1>8, <1>9, r \in Recursos, ConsumirTipo
<1> QED BY ONLY InvTipo, <1>4, <1>6, <1>7, <1>8, <1>9, <1>10, EscritoTipo

LEMMA DescartarBasuraTipo ==
  ASSUME InvTipo, NEW t \in Obreros, DescartarBasura(t)
  PROVE  InvTipo'
<1>1. PICK z : z = escribirEnBitacora(fs, t)
  OBVIOUS
<1>2. PICK g : g = Last(z)
  OBVIOUS
<1>3. PICK x : x = descartarBasura(g)
  OBVIOUS
<1>4. PICK y : y = IF Last(z).vivo THEN z \o x ELSE z
  OBVIOUS
<1>5. PICK r, q : r = "Basura" /\ q = 0
  OBVIOUS
<1>6. PICK h : h = Pedida(t, r, q)
  OBVIOUS
<1>7. Servir(y, h, danio) /\ "Basura" \in Recursos
  BY <1>1, <1>2, <1>3, <1>4, <1>5, <1>6 DEF DescartarBasura, Atender, Luego, Pedida
<1>8. t \in Trips /\ Tipado(fs)
  BY SistemaOK DEF InvTipo
<1>9. Tipada(z) /\ Tipado(g)
  BY ONLY <1>1, <1>2, <1>8, EscribirTipo, TipadaPuntos
<1>10. Tipada(x)
  BY ONLY <1>3, <1>7, <1>9, DescartarTipo
<1> QED BY ONLY InvTipo, <1>4, <1>6, <1>7, <1>8, <1>9, <1>10, EscritoTipo

LEMMA EscribirEventoTipo ==
  ASSUME InvTipo, NEW t \in Trips, EscribirEvento(t)
  PROVE  InvTipo'
<1>1. PICK z : z = escribirEnBitacora(fs, t)
  OBVIOUS
<1>2. PICK r, q : r = "" /\ q = 0
  OBVIOUS
<1>3. PICK h : h = Pedida(t, r, q)
  OBVIOUS
<1>4. PICK y : y = IF Last(z).vivo THEN z \o <<>> ELSE z
  OBVIOUS
<1>5. Servir(y, h, danio)
  BY <1>1, <1>2, <1>3, <1>4 DEF EscribirEvento, Atender, Luego, Pedida
<1>6. Tipado(fs) /\ HistTipada(hist)
  BY DEF InvTipo
<1>7. Tipada(z)
  BY ONLY <1>1, <1>6, t \in Trips, EscribirTipo
<1>8. y = z
  <2>1. PICK S : z \in Seq(S)
    BY <1>7 DEF Tipada
  <2> QED BY <1>4, <2>1, ConcatEmptySeq
<1>9. HistTipada(h)
  BY ONLY <1>3, <1>6, t \in Trips, PedidaTipada
<1>10. PICK d : d = danio
  OBVIOUS
<1>11. Servir(z, h, d)
  BY <1>5, <1>8, <1>10
<1>12. Tipado(fs') /\ HistTipada(hist') /\ UNCHANGED proceso
  BY ONLY <1>6, <1>7, <1>9, <1>11, ServirTipo
<1> QED BY <1>12, IgualProceso

LEMMA InvocarFsckTipo ==
  ASSUME InvTipo, NEW residuo \in Residuos, InvocarFsck(residuo)
  PROVE  InvTipo'
<1>1. PICK z : z = protocolo_fsck(fs, residuo)
  OBVIOUS
<1>2. PICK g : g = Last(z)
  OBVIOUS
<1>3. PICK h : h = AlArreglar(g)
  OBVIOUS
<1>4. PICK d : d = SinDanio
  OBVIOUS
<1>5. Servir(z, h, d)
  BY <1>1, <1>2, <1>3, <1>4 DEF InvocarFsck, AlArreglar
<1>6. Tipado(fs) /\ HistTipada(hist)
  BY DEF InvTipo
<1>7. Tipada(z)
  BY <1>1, <1>6, FsckTipo
<1>8. HistTipada(h)
  BY ONLY <1>3, <1>6, ArregladaTipada
<1>9. Tipado(fs') /\ HistTipada(hist') /\ UNCHANGED proceso
  BY ONLY <1>5, <1>6, <1>7, <1>8, ServirTipo
<1> QED BY <1>9, IgualProceso

-----------------------------------------------------------------------------
(* The damages and the rest *)

LEMMA InvertirListables ==
  ASSUME NEW s \in Seq(Listables)
  PROVE  Reverse(s) \in Seq(Listables)
<1>1. PICK n : n = Len(s)
  OBVIOUS
<1>2. n \in Nat /\ \A i \in 1..n : s[i] \in Listables
  BY <1>1, ElementOfSeq, LenProperties
<1>3. PICK x : x = Reverse(s)
  OBVIOUS
<1>4. x = [i \in 1..n |-> s[(n - i) + 1]]
  BY <1>1, <1>3 DEF Reverse
<1>5. \A i \in 1..n : s[(n - i) + 1] \in Listables
  <2> SUFFICES ASSUME NEW i \in 1..n PROVE s[(n - i) + 1] \in Listables
    OBVIOUS
  <2>1. (n - i) + 1 \in 1..n
    BY <1>2
  <2> QED BY <1>2, <2>1
<1>6. x \in [1..n -> Listables]
  BY ONLY <1>4, <1>5
<1>7. x \in Seq(Listables)
  BY ONLY <1>2, <1>6
<1> QED BY <1>3, <1>7

LEMMA DanioTipo ==
  ASSUME NEW f, f = fs, Tipado(f), NEW r \in Recursos, NEW tipo, NEW n \in Valores(tipo, r),
         NEW g, g = Daniado(tipo, r, n)
  PROVE  Tipado(g)
<1>1. PICK a : a = File(r)
  OBVIOUS
<1>2. a \in Archivos /\ EsRecurso(a)
  BY <1>1, Nombres
<1>3. Formado(f) /\ Resto(f) /\ MetaTipada(f.archivo[a], a) /\ f.bitmap \subseteq Bloques
  BY <1>2 DEF Tipado
<1>4. CASE tipo = "cantidad"
  <2>1. PICK c : c = cantidadBloques + 8
    OBVIOUS
  <2>2. g = [f EXCEPT !.cantidad = c]
    BY <1>4, <2>1 DEF Daniado
  <2>3. f = [bitmap |-> f.bitmap, cantidad |-> f.cantidad, archivo |-> f.archivo, disco |-> f.disco,
             copia |-> f.copia, vivo |-> f.vivo, desborde |-> f.desborde]
    BY ONLY <1>3 DEF Formado
  <2>4. g = [bitmap |-> f.bitmap, cantidad |-> c, archivo |-> f.archivo, disco |-> f.disco,
             copia |-> f.copia, vivo |-> f.vivo, desborde |-> f.desborde]
    BY ONLY <2>2, <2>3
  <2>5. Contenido(f, g)
    BY ONLY <2>4 DEF Contenido
  <2>6. /\ g.cantidad = c /\ g.disco = f.disco /\ g.copia = f.copia /\ g.vivo = f.vivo
        /\ g.desborde = f.desborde
    BY ONLY <2>4
  <2>7. Resto(g)
    BY ONLY <1>3, <2>1, <2>6 DEF Resto, Superbloque
  <2> QED BY ONLY Tipado(f), <2>5, <2>7, TipoDeContenido
<1>5. CASE tipo = "contenido"
  <2>1. PICK dir, t : dir = Dir(n) /\ t = <<"X">>
    OBVIOUS
  <2>2. g = [f EXCEPT !.disco = Pegar(f.disco, dir, t)]
    BY <1>5, <2>1 DEF Daniado
  <2>3. Pegado(f, g, dir, t)
    BY ONLY <2>2 DEF Pegado
  <2> QED BY ONLY Tipado(f), <2>3, PegadoTipo
<1>6. CASE tipo = "bit"
  <2>1. n \in Bloques
    BY <1>6 DEF Valores, UltimoLibre
  <2>2. PICK B : B = f.bitmap \cup {n}
    OBVIOUS
  <2>3. g = [f EXCEPT !.bitmap = B] /\ B \subseteq Bloques
    BY <1>3, <1>6, <2>1, <2>2 DEF Daniado
  <2> QED BY ONLY Tipado(f), <2>3, TipoDeMarca
<1>7. CASE tipo = "bitListado"
  <2>1. PICK S : S = ToSet(f.archivo[a].blocks)
    OBVIOUS
  <2>2. PICK B : B = f.bitmap \ S
    OBVIOUS
  <2>3. g = [f EXCEPT !.bitmap = B]
    BY <1>1, <1>7, <2>1, <2>2 DEF Daniado
  <2>4. B \subseteq Bloques
    BY ONLY <1>3, <2>2
  <2> QED BY ONLY Tipado(f), <2>3, <2>4, TipoDeMarca
<1>8. CASE tipo = "SIZE"
  <2>1. n \in Int
    BY <1>8, SistemaOK DEF Valores
  <2>2. PICK m : m = [f.archivo[a] EXCEPT !.size = n]
    OBVIOUS
  <2>3. Cambia(f, g, a, m)
    BY <1>1, <1>8, <2>2 DEF Daniado, Cambia
  <2>4. MetaTipada(m, a)
    BY ONLY <1>3, <2>1, <2>2 DEF MetaTipada, EsMetadata
  <2> QED BY ONLY Tipado(f), <1>2, <2>3, <2>4, TipoDeCambio
<1>9. CASE tipo = "BLOCK_COUNT"
  <2>1. PICK k : k = 1 /\ k \in Int
    OBVIOUS
  <2>2. g = actualizarBlockCount(f, a, k)
    BY <1>1, <1>9, <2>1 DEF Daniado, actualizarBlockCount
  <2> QED BY ONLY Tipado(f), <1>2, <2>1, <2>2, ContarTipo
<1>10. CASE tipo = "orden"
  <2>1. PICK s : s = Reverse(f.archivo[a].blocks)
    OBVIOUS
  <2>2. PICK m : m = [f.archivo[a] EXCEPT !.blocks = s]
    OBVIOUS
  <2>3. Cambia(f, g, a, m)
    BY <1>1, <1>10, <2>1, <2>2 DEF Daniado, Cambia
  <2>4. s \in Seq(Listables) /\ s \in Seq(Nat)
    <3>1. f.archivo[a].blocks \in Seq(Listables) /\ f.archivo[a].blocks \in Seq(Nat)
      BY ONLY <1>3 DEF MetaTipada, EsMetadata
    <3> QED BY ONLY <2>1, <3>1, InvertirTipo, InvertirListables
  <2>5. MetaTipada(m, a)
    BY ONLY <1>3, <2>2, <2>4 DEF MetaTipada, EsMetadata
  <2> QED BY ONLY Tipado(f), <1>2, <2>3, <2>5, TipoDeCambio
<1>11. CASE tipo = "bloque"
  <2>1. n \in Listables
    <3>1. CASE n \in UltimoLibre
      <4>1. n \in Bloques
        BY <3>1 DEF UltimoLibre
      <4> QED BY ONLY <4>1, SistemaOK DEF Bloques, Listables
    <3>2. CASE n \in {cantidadBloques, cantidadBloques + 1}
      BY ONLY <3>2, SistemaOK DEF Listables
    <3> QED BY <1>11, <3>1, <3>2 DEF Valores
  <2>2. g = AgregarBloque(f, a, n)
    BY <1>1, <1>11 DEF Daniado, AgregarBloque
  <2> QED BY ONLY Tipado(f), <1>2, <2>1, <2>2, AgregarTipo
<1>12. CASE tipo \notin {"cantidad", "bit", "bitListado", "SIZE", "BLOCK_COUNT", "orden", "bloque", "contenido"}
  <2>1. g = f
    BY <1>12 DEF Daniado
  <2> QED BY <2>1
<1> QED BY <1>4, <1>5, <1>6, <1>7, <1>8, <1>9, <1>10, <1>11, <1>12

LEMMA SabotearTipo ==
  ASSUME InvTipo, NEW tipo \in Sabotajes, NEW r \in Recursos, NEW n \in Valores(tipo, r), Sabotear(tipo, r, n)
  PROVE  InvTipo'
<1>1. PICK f : f = fs
  OBVIOUS
<1>2. PICK g : g = Daniado(tipo, r, n)
  OBVIOUS
<1>3. Tipado(f) /\ HistTipada(hist)
  BY <1>1 DEF InvTipo
<1>4. Tipado(g)
  BY <1>1, <1>2, <1>3, DanioTipo
<1>5. fs' = g /\ hist' = hist /\ UNCHANGED proceso
  BY <1>2 DEF Sabotear
<1>6. Tipado(fs') /\ HistTipada(hist')
  BY ONLY <1>3, <1>4, <1>5
<1> QED BY <1>5, <1>6, IgualProceso

LEMMA SenialTipo ==
  ASSUME InvTipo, Senial
  PROVE  InvTipo'
<1>1. Tipado(fs) /\ HistTipada(hist) /\ contadorSabotajeLeido \in 0..Posiciones
  BY DEF InvTipo
<1>2. CASE contadorSabotajeLeido < Posiciones /\ contadorSabotajeLeido' = contadorSabotajeLeido + 1 /\ UNCHANGED <<fs, hist>>
  <2>1. contadorSabotajeLeido' \in 0..Posiciones
    BY <1>1, <1>2, SistemaOK
  <2> QED BY <1>2, <2>1 DEF InvTipo, Senial
<1>3. CASE fs' = Morir(fs) /\ hist' = AlMorir(hist, fs, FALSE) /\ UNCHANGED contadorSabotajeLeido
  <2>1. Tipado(fs') /\ HistTipada(hist')
    BY ONLY <1>1, <1>3, MorirTipo, MorirTipada
  <2> QED BY <1>3, <2>1 DEF InvTipo, Senial
<1> QED BY <1>2, <1>3, Zenon DEF Senial

LEMMA CaerTipo ==
  ASSUME InvTipo, finalizarProceso \/ Caer
  PROVE  InvTipo'
<1>1. fs' = Morir(fs) /\ hist' = AlMorir(hist, fs, FALSE) /\ UNCHANGED proceso
  BY DEF finalizarProceso, Caer
<1>2. Tipado(fs) /\ HistTipada(hist)
  BY DEF InvTipo
<1>3. Tipado(fs') /\ HistTipada(hist')
  BY ONLY <1>1, <1>2, MorirTipo, MorirTipada
<1> QED BY <1>1, <1>3, IgualProceso

LEMMA CopiarTipo ==
  ASSUME InvTipo, Copiar \/ Reiniciar
  PROVE  InvTipo'
<1>1. Tipado(fs) /\ HistTipada(hist)
  BY DEF InvTipo
<1>2. PICK f : f = fs
  OBVIOUS
<1>3. PICK g : g = fs'
  OBVIOUS
<1>4. PICK d : d = f.copia
  OBVIOUS
<1>5. g = [f EXCEPT !.disco = d] \/ g = [f EXCEPT !.vivo = TRUE]
  BY <1>2, <1>3, <1>4 DEF Copiar, Reiniciar
<1>6. Formado(f) /\ Resto(f) /\ Tipado(f)
  BY <1>1, <1>2 DEF Tipado
<1>7. f = [bitmap |-> f.bitmap, cantidad |-> f.cantidad, archivo |-> f.archivo, disco |-> f.disco,
           copia |-> f.copia, vivo |-> f.vivo, desborde |-> f.desborde]
  BY ONLY <1>6 DEF Formado
<1>8. Contenido(f, g) /\ Resto(g)
  <2>1. CASE g = [f EXCEPT !.disco = d]
    <3>1. g = [bitmap |-> f.bitmap, cantidad |-> f.cantidad, archivo |-> f.archivo, disco |-> d,
               copia |-> f.copia, vivo |-> f.vivo, desborde |-> f.desborde]
      BY ONLY <1>7, <2>1
    <3>2. Contenido(f, g)
      BY ONLY <3>1 DEF Contenido
    <3>3. g.cantidad = f.cantidad /\ g.disco = f.copia /\ g.copia = f.copia /\ g.vivo = f.vivo /\ g.desborde = f.desborde
      BY ONLY <1>4, <3>1
    <3>4. Resto(g)
      BY ONLY <1>6, <3>3 DEF Resto
    <3> QED BY <3>2, <3>4
  <2>2. CASE g = [f EXCEPT !.vivo = TRUE]
    <3>1. g = [bitmap |-> f.bitmap, cantidad |-> f.cantidad, archivo |-> f.archivo, disco |-> f.disco,
               copia |-> f.copia, vivo |-> TRUE, desborde |-> f.desborde]
      BY ONLY <1>7, <2>2
    <3>2. Contenido(f, g)
      BY ONLY <3>1 DEF Contenido
    <3>3. g.cantidad = f.cantidad /\ g.disco = f.disco /\ g.copia = f.copia /\ g.vivo = TRUE /\ g.desborde = f.desborde
      BY ONLY <3>1
    <3>4. Resto(g)
      BY ONLY <1>6, <3>3 DEF Resto
    <3> QED BY <3>2, <3>4
  <2> QED BY <1>5, <2>1, <2>2
<1>9. Tipado(fs')
  <2>1. Tipado(g)
    BY ONLY <1>6, <1>8, TipoDeContenido
  <2> QED BY <1>3, <2>1
<1>10. HistTipada(hist')
  <2>1. hist' = hist \/ hist' = [hist EXCEPT !.sinCopiar = {}]
    BY DEF Copiar, Reiniciar
  <2> QED BY ONLY <1>1, <2>1, OtraTipada
<1>11. /\ sync_blocks' \in {"sleep", "mira", "fin"} /\ flagEnd' \in BOOLEAN
       /\ contadorSabotajeLeido' \in 0..Posiciones
  <2>1. 0 \in 0..Posiciones
    BY SistemaOK
  <2> QED BY <2>1 DEF InvTipo, Copiar, Reiniciar
<1> QED BY <1>9, <1>10, <1>11 DEF InvTipo

LEMMA InicioTipo ==
  ASSUME Init
  PROVE  InvTipo
<1>1. PICK f : f = fs
  OBVIOUS
<1>2. PICK A : A = [a \in Archivos |-> NoExiste]
  OBVIOUS
<1>3. PICK d : d = [x \in Dispositivo |-> NUL]
  OBVIOUS
<1>4. f = [bitmap |-> {}, cantidad |-> cantidadBloques, archivo |-> A, disco |-> d, copia |-> d,
           vivo |-> TRUE, desborde |-> FALSE]
  BY <1>1, <1>2, <1>3 DEF Init, Dispositivo
<1>5. /\ f.bitmap = {} /\ f.archivo = A /\ f.cantidad = cantidadBloques /\ f.disco = d /\ f.copia = d
      /\ f.vivo = TRUE /\ f.desborde = FALSE
  BY ONLY <1>4
<1>6. f = [bitmap |-> f.bitmap, cantidad |-> f.cantidad, archivo |-> f.archivo, disco |-> f.disco,
           copia |-> f.copia, vivo |-> f.vivo, desborde |-> f.desborde]
  BY ONLY <1>4, <1>5
<1>7. \A a \in Archivos : f.archivo[a] = NoExiste
  BY ONLY <1>2, <1>5
<1>8. \A a \in Archivos : MetaTipada(f.archivo[a], a)
  BY ONLY <1>7, NuevaTipada
<1>9. f.archivo = [a \in Archivos |-> f.archivo[a]]
  BY ONLY <1>2, <1>5
<1>10. Formado(f)
  BY ONLY <1>6, <1>8, <1>9 DEF Formado, MetaTipada
<1>11. DOMAIN d = Dispositivo
  BY ONLY <1>3
<1>12. Resto(f)
  BY ONLY <1>5, <1>11 DEF Resto, Superbloque
<1>13. f.bitmap \subseteq Bloques
  BY ONLY <1>5
<1>14. Tipado(f)
  BY ONLY <1>8, <1>10, <1>12, <1>13 DEF Tipado
<1>15. HistTipada(hist)
  BY DEF Init, EsHistoria, HistTipada
<1>16. /\ sync_blocks \in {"sleep", "mira", "fin"} /\ flagEnd \in BOOLEAN
       /\ contadorSabotajeLeido \in 0..Posiciones
  BY SistemaOK DEF Init
<1> QED BY <1>1, <1>14, <1>15, <1>16 DEF InvTipo

(* What the types say of each variable. *)
LEMMA TipoDeInv ==
  ASSUME InvTipo
  PROVE  TypeOK
<1>1. PICK f : f = fs
  OBVIOUS
<1>2. Tipado(f)
  BY <1>1 DEF InvTipo
<1>3. Resto(f) /\ f.bitmap \subseteq Bloques /\ DOMAIN f.archivo = Archivos
  BY ONLY <1>2 DEF Tipado, Formado
<1>4. ASSUME NEW a \in Archivos, NEW m, m = f.archivo[a]
      PROVE  /\ m.existe \in BOOLEAN /\ m.size \in Int /\ m.count \in Int
             /\ ToSet(m.blocks) \subseteq 0..(cantidadBloques + 1)
             /\ ~EsRecurso(a) => m.count = 0
  <2>1. MetaTipada(m, a)
    BY ONLY <1>2, <1>4 DEF Tipado
  <2>2. m.existe \in BOOLEAN /\ m.size \in Int /\ m.count \in Int /\ m.blocks \in Seq(Listables) /\ (~EsRecurso(a) => m.count = 0)
    BY ONLY <2>1 DEF MetaTipada, EsMetadata
  <2>3. ToSet(m.blocks) \subseteq Listables
    <3>1. PICK s : s = m.blocks
      OBVIOUS
    <3>2. DOMAIN s = 1..Len(s) /\ \A i \in 1..Len(s) : s[i] \in Listables
      BY ONLY <2>2, <3>1, ElementOfSeq, LenProperties
    <3> QED BY ONLY <3>1, <3>2 DEF ToSet
  <2> QED BY ONLY <2>2, <2>3 DEF Listables
<1>5. /\ f.cantidad \in {cantidadBloques, cantidadBloques + 8}
      /\ DOMAIN f.disco = 0..(Dir(cantidadBloques) - 1) /\ DOMAIN f.copia = DOMAIN f.disco
      /\ f.vivo \in BOOLEAN /\ f.desborde \in BOOLEAN
  BY ONLY <1>3 DEF Resto, Superbloque, Dispositivo
<1>6. /\ sync_blocks \in {"sleep", "mira", "fin"} /\ flagEnd \in BOOLEAN
      /\ contadorSabotajeLeido \in 0..Posiciones
      /\ DOMAIN hist.cantidad = Recursos /\ hist.perdidas \subseteq Trips
  BY DEF InvTipo, HistTipada
<1> QED BY <1>1, <1>3, <1>4, <1>5, <1>6, Zenon DEF TypeOK

(* The file system keeps to its ranges whatever is asked for, damaged,      *)
(* killed and repaired: listed blocks and bits are of the device or one of  *)
(* the two past its end, every count is an integer and a bitácora's stays   *)
(* 0, and the handler of SIGUSR1 never counts past the positions            *)
(* (guardarBlocks.c, sabotajes.c).                                          *)
THEOREM TipoArchivos == Spec => []TypeOK
<1>1. Init => InvTipo
  BY InicioTipo
<1>2. InvTipo /\ [Next]_vars => InvTipo'
  <2> SUFFICES ASSUME InvTipo, [Next]_vars PROVE InvTipo'
    OBVIOUS
  <2>1. ASSUME NEW t \in Obreros, NEW r \in Recursos, NEW n \in Cantidades, GenerarRecurso(t, r, n)
        PROVE  InvTipo'
    BY <2>1, GenerarRecursoTipo
  <2>2. ASSUME NEW t \in Obreros, NEW r \in Recursos, NEW n \in Cantidades, ConsumirRecurso(t, r, n)
        PROVE  InvTipo'
    BY <2>2, ConsumirRecursoTipo
  <2>3. ASSUME NEW t \in Obreros, DescartarBasura(t) PROVE InvTipo'
    BY <2>3, DescartarBasuraTipo
  <2>4. ASSUME NEW t \in Trips, EscribirEvento(t) PROVE InvTipo'
    BY <2>4, EscribirEventoTipo
  <2>5. ASSUME NEW tipo \in Sabotajes, NEW r \in Recursos, NEW n \in Valores(tipo, r), Sabotear(tipo, r, n)
        PROVE  InvTipo'
    BY <2>5, SabotearTipo
  <2>6. CASE Senial
    BY <2>6, SenialTipo
  <2>7. ASSUME NEW residuo \in Residuos, InvocarFsck(residuo) PROVE InvTipo'
    BY <2>7, InvocarFsckTipo
  <2>8. CASE Copiar \/ Reiniciar
    BY <2>8, CopiarTipo
  <2>9. CASE Mirar
    BY <2>9 DEF Mirar, InvTipo
  <2>10. CASE SIGINT
    BY <2>10 DEF SIGINT, InvTipo
  <2>11. CASE finalizarProceso \/ Caer
    BY <2>11, CaerTipo
  <2>12. CASE UNCHANGED vars
    BY <2>12 DEF vars, proceso, InvTipo
  <2> QED BY <2>1, <2>2, <2>3, <2>4, <2>5, <2>6, <2>7, <2>8, <2>9, <2>10, <2>11, <2>12 DEF Next
<1>3. InvTipo => TypeOK
  BY TipoDeInv
<1> QED BY <1>1, <1>2, <1>3, PTL DEF Spec

=============================================================================
