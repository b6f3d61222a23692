--------------------------- MODULE PaginacionLugar ---------------------------
(***************************************************************************)
(* TypeOK, CadaPaginaSuLugar and SiempreHayMarco of Paginacion, when a     *)
(* request is served whole before the next.                                *)
(***************************************************************************)
EXTENDS Paginacion, CeldasPatota, SequenceTheorems

(* What each fold of Paginacion does with one element. *)
Paso(q, e, r, x) ==
  IF q = "traer" THEN Traer(r, x) ELSE
  IF q = "soltar" THEN Soltar(r, x) ELSE
  IF q = "descartar" THEN Descartar(r, x) ELSE
  IF q = "desmarcar" THEN Marcar(r, x, 0) ELSE
  IF q = "alojar" THEN Alojar(r, <<e[1], x>>, Trozo(e[2], x)) ELSE
  IF q = "volcar" THEN (IF Pag(r, x).number \in DOMAIN r.mem
                          THEN [r EXCEPT !.mem[Pag(r, x).number] = Trozo(e[2], x[2] - page_number[e[1]])]
                          ELSE r) ELSE
  personaje_crear(r, x, Inicial[x])

(* There is a function on the subsets of 1..n that does it with the last    *)
(* element of each after the others.                                        *)
Sigue(q, e, b, s, g, T) == IF T = {} THEN b ELSE Paso(q, e, g[T \ {Max(T)}], s[Max(T)])
EsPliegue(g, q, e, b, s, n) == g = [T \in SUBSET (1..n) |-> Sigue(q, e, b, s, g, T)]

(* There is one: by the least number of elements for which there is none. *)
LEMMA ExistePaso ==
  ASSUME NEW q, NEW e, NEW b, NEW s, NEW n \in Nat
  PROVE  \E g : EsPliegue(g, q, e, b, s, n)
<1> DEFINE D(k) == {T \in SUBSET (1..n) : Cardinality(T) <= k}
           Bien(g, k) == g = [T \in D(k) |-> Sigue(q, e, b, s, g, T)]
           malos == {k \in Nat : ~\E g : Bien(g, k)}
<1>1. ASSUME NEW T \in SUBSET (1..n)
      PROVE  Cardinality(T) \in Nat /\ Cardinality(T) <= n /\ (Cardinality(T) <= 0 <=> T = {})
  BY SubconjuntoPrefijo
<1>2. ASSUME NEW T \in SUBSET (1..n), T # {}
      PROVE  /\ T \ {Max(T)} \in SUBSET (1..n)
             /\ Cardinality(T \ {Max(T)}) = Cardinality(T) - 1
  BY <1>2, SubconjuntoPrefijo
<1>3. malos = {}
  <2> SUFFICES ASSUME malos # {} PROVE FALSE
    OBVIOUS
  <2>1. PICK k \in malos : \A j \in malos : k <= j
    BY MinimoNat
  <2>2. k \in Nat
    OBVIOUS
  <2>3. CASE k = 0
    <3> DEFINE g == [T \in D(0) |-> b]
    <3>1. \A T \in D(0) : T = {}
      BY <1>1
    <3>2. ASSUME NEW T \in D(0) PROVE g[T] = Sigue(q, e, b, s, g, T)
      BY <3>1 DEF Sigue
    <3>3. Bien(g, 0)
      BY <3>2
    <3> QED BY <2>1, <2>3, <3>3
  <2>4. CASE k # 0
    <3>1. k - 1 \in Nat /\ ~(k <= k - 1)
      BY <2>2, <2>4
    <3>2. k - 1 \notin malos
      BY <2>1, <3>1
    <3>3. PICK g : Bien(g, k - 1)
      BY <3>1, <3>2
    <3> DEFINE h == [T \in D(k) |-> Sigue(q, e, b, s, g, T)]
    <3>4. ASSUME NEW T \in D(k), T # {}
          PROVE  T \ {Max(T)} \in D(k - 1) /\ T \ {Max(T)} \in D(k)
      BY <1>1, <1>2, <3>1, <3>4
    <3>5. ASSUME NEW T \in D(k - 1) PROVE T \in D(k) /\ h[T] = g[T]
      <4>1. T \in D(k)
        BY <1>1, <3>1
      <4>2. g[T] = Sigue(q, e, b, s, g, T)
        BY <3>3
      <4> QED BY <4>1, <4>2
    <3>6. ASSUME NEW T \in D(k) PROVE h[T] = Sigue(q, e, b, s, h, T)
      <4>1. CASE T = {}
        BY <4>1 DEF Sigue
      <4>2. CASE T # {}
        <5>1. h[T \ {Max(T)}] = g[T \ {Max(T)}]
          BY <3>4, <3>5, <4>2
        <5> QED BY <4>2, <5>1 DEF Sigue
      <4> QED BY <4>1, <4>2
    <3>7. Bien(h, k)
      BY <3>6
    <3> QED BY <2>1, <3>7
  <2> QED BY <2>3, <2>4
<1>4. PICK g : Bien(g, n)
  BY <1>3
<1>5. D(n) = SUBSET (1..n)
  BY <1>1
<1> QED BY <1>4, <1>5 DEF EsPliegue

(* Folding is to do it with one element after the other. *)
Cadena(a, q, e, b, s) ==
  /\ a[0] = b
  /\ \A k \in 1..Len(s) : a[k] = Paso(q, e, a[k - 1], s[k])

(* The function on the subsets gives the chain on the prefixes. *)
LEMMA CadenaDePasos ==
  ASSUME NEW q, NEW e, NEW b, NEW s, NEW n \in Nat, Len(s) = n, NEW g, EsPliegue(g, q, e, b, s, n)
  PROVE  \E a : Cadena(a, q, e, b, s) /\ g[1..n] = a[n]
<1> DEFINE a == [k \in 0..n |-> g[1..k]]
<1>1. \A T \in SUBSET (1..n) : g[T] = Sigue(q, e, b, s, g, T)
  BY DEF EsPliegue
<1>2. a[0] = b
  <2>1. 1..0 = {}
    OBVIOUS
  <2>2. g[{}] = b
    BY <1>1 DEF Sigue
  <2>3. a[0] = g[1..0]
    OBVIOUS
  <2> QED BY <2>1, <2>2, <2>3
<1>3. ASSUME NEW k \in 1..n PROVE a[k] = Paso(q, e, a[k - 1], s[k])
  <2>1. k - 1 \in Nat /\ k - 1 + 1 = k /\ k \in 0..n /\ k - 1 \in 0..n /\ 1..k # {} /\ 1..k \in SUBSET (1..n)
    BY PrefijoDePrefijo
  <2>2. Max(1..(k - 1 + 1)) = k - 1 + 1 /\ (1..(k - 1 + 1)) \ {k - 1 + 1} = 1..(k - 1)
    BY <2>1, MaximoPrefijo
  <2>3. Max(1..k) = k /\ (1..k) \ {k} = 1..(k - 1)
    BY <2>1, <2>2, Zenon
  <2>4. g[1..k] = Paso(q, e, g[(1..k) \ {Max(1..k)}], s[Max(1..k)])
    BY <1>1, <2>1 DEF Sigue
  <2>5. g[1..k] = Paso(q, e, g[1..(k - 1)], s[k])
    BY <2>3, <2>4, Zenon
  <2> QED BY <2>1, <2>5
<1>4. a[n] = g[1..n]
  OBVIOUS
<1> HIDE DEF a
<1> QED BY <1>2, <1>3, <1>4 DEF Cadena

(* Pages brought one after the other. *)
LEMMA PliegaTraer ==
  ASSUME NEW b, NEW s, Len(s) \in Nat, DOMAIN s = 1..Len(s)
  PROVE  \E a : Cadena(a, "traer", 0, b, s) /\ FoldLeft(Traer, b, s) = a[Len(s)]
<1> DEFINE n == Len(s)
           sigue(g, T) == IF T = {} THEN b ELSE Traer(g[T \ {Max(T)}], s[Max(T)])
           iter == CHOOSE g : g = [T \in SUBSET (1..n) |-> sigue(g, T)]
<1>1. FoldLeft(Traer, b, s) = iter[1..n]
  BY DEF FoldLeft, MapThenFoldSet
<1>2. PICK g : EsPliegue(g, "traer", 0, b, s, n)
  BY ExistePaso
<1>3. \A f, T : sigue(f, T) = Sigue("traer", 0, b, s, f, T)
  BY DEF Sigue, Paso
<1> HIDE DEF sigue, n
<1>4. g = [T \in SUBSET (1..n) |-> sigue(g, T)]
  BY <1>2, <1>3 DEF n, EsPliegue
<1>5. iter = [T \in SUBSET (1..n) |-> sigue(iter, T)]
  BY <1>4
<1> HIDE DEF iter
<1>6. EsPliegue(iter, "traer", 0, b, s, n)
  BY <1>3, <1>5 DEF EsPliegue
<1>7. PICK a : Cadena(a, "traer", 0, b, s) /\ iter[1..n] = a[n]
  BY <1>6, CadenaDePasos DEF n
<1> QED BY <1>1, <1>7 DEF n

(* Pages given back one after the other. *)
LEMMA PliegaSoltar ==
  ASSUME NEW b, NEW s, Len(s) \in Nat, DOMAIN s = 1..Len(s)
  PROVE  \E a : Cadena(a, "soltar", 0, b, s) /\ FoldLeft(Soltar, b, s) = a[Len(s)]
<1> DEFINE n == Len(s)
           sigue(g, T) == IF T = {} THEN b ELSE Soltar(g[T \ {Max(T)}], s[Max(T)])
           iter == CHOOSE g : g = [T \in SUBSET (1..n) |-> sigue(g, T)]
<1>1. FoldLeft(Soltar, b, s) = iter[1..n]
  BY DEF FoldLeft, MapThenFoldSet
<1>2. PICK g : EsPliegue(g, "soltar", 0, b, s, n)
  BY ExistePaso
<1>3. \A f, T : sigue(f, T) = Sigue("soltar", 0, b, s, f, T)
  BY DEF Sigue, Paso
<1> HIDE DEF sigue, n
<1>4. g = [T \in SUBSET (1..n) |-> sigue(g, T)]
  BY <1>2, <1>3 DEF n, EsPliegue
<1>5. iter = [T \in SUBSET (1..n) |-> sigue(iter, T)]
  BY <1>4
<1> HIDE DEF iter
<1>6. EsPliegue(iter, "soltar", 0, b, s, n)
  BY <1>3, <1>5 DEF EsPliegue
<1>7. PICK a : Cadena(a, "soltar", 0, b, s) /\ iter[1..n] = a[n]
  BY <1>6, CadenaDePasos DEF n
<1> QED BY <1>1, <1>7 DEF n

(* Pages eliminated one after the other. *)
LEMMA PliegaDescartar ==
  ASSUME NEW b, NEW s, Len(s) \in Nat, DOMAIN s = 1..Len(s)
  PROVE  \E a : Cadena(a, "descartar", 0, b, s) /\ FoldLeft(Descartar, b, s) = a[Len(s)]
<1> DEFINE n == Len(s)
           sigue(g, T) == IF T = {} THEN b ELSE Descartar(g[T \ {Max(T)}], s[Max(T)])
           iter == CHOOSE g : g = [T \in SUBSET (1..n) |-> sigue(g, T)]
<1>1. FoldLeft(Descartar, b, s) = iter[1..n]
  BY DEF FoldLeft, MapThenFoldSet
<1>2. PICK g : EsPliegue(g, "descartar", 0, b, s, n)
  BY ExistePaso
<1>3. \A f, T : sigue(f, T) = Sigue("descartar", 0, b, s, f, T)
  BY DEF Sigue, Paso
<1> HIDE DEF sigue, n
<1>4. g = [T \in SUBSET (1..n) |-> sigue(g, T)]
  BY <1>2, <1>3 DEF n, EsPliegue
<1>5. iter = [T \in SUBSET (1..n) |-> sigue(iter, T)]
  BY <1>4
<1> HIDE DEF iter
<1>6. EsPliegue(iter, "descartar", 0, b, s, n)
  BY <1>3, <1>5 DEF EsPliegue
<1>7. PICK a : Cadena(a, "descartar", 0, b, s) /\ iter[1..n] = a[n]
  BY <1>6, CadenaDePasos DEF n
<1> QED BY <1>1, <1>7 DEF n

(* Marks cleared one after the other. *)
LEMMA PliegaDesmarcar ==
  ASSUME NEW b, NEW s, Len(s) \in Nat, DOMAIN s = 1..Len(s)
  PROVE  \E a : Cadena(a, "desmarcar", 0, b, s) /\ FoldLeft(LAMBDA q, x : Marcar(q, x, 0), b, s) = a[Len(s)]
<1> DEFINE n == Len(s)
           sigue(g, T) == IF T = {} THEN b ELSE Marcar(g[T \ {Max(T)}], s[Max(T)], 0)
           iter == CHOOSE g : g = [T \in SUBSET (1..n) |-> sigue(g, T)]
<1>1. FoldLeft(LAMBDA q, x : Marcar(q, x, 0), b, s) = iter[1..n]
  BY DEF FoldLeft, MapThenFoldSet
<1>2. PICK g : EsPliegue(g, "desmarcar", 0, b, s, n)
  BY ExistePaso
<1>3. \A f, T : sigue(f, T) = Sigue("desmarcar", 0, b, s, f, T)
  BY DEF Sigue, Paso
<1> HIDE DEF sigue, n
<1>4. g = [T \in SUBSET (1..n) |-> sigue(g, T)]
  BY <1>2, <1>3 DEF n, EsPliegue
<1>5. iter = [T \in SUBSET (1..n) |-> sigue(iter, T)]
  BY <1>4
<1> HIDE DEF iter
<1>6. EsPliegue(iter, "desmarcar", 0, b, s, n)
  BY <1>3, <1>5 DEF EsPliegue
<1>7. PICK a : Cadena(a, "desmarcar", 0, b, s) /\ iter[1..n] = a[n]
  BY <1>6, CadenaDePasos DEF n
<1> QED BY <1>1, <1>7 DEF n

(* Pages taken again one after the other. *)
Alojando(r, p, img, xs) == FoldLeft(LAMBDA q, j : Alojar(q, <<p, j>>, Trozo(img, j)), r, xs)
LEMMA PliegaAlojar ==
  ASSUME NEW b, NEW s, Len(s) \in Nat, DOMAIN s = 1..Len(s), NEW p, NEW img
  PROVE  \E a : Cadena(a, "alojar", <<p, img>>, b, s) /\ Alojando(b, p, img, s) = a[Len(s)]
<1> DEFINE n == Len(s)
           sigue(g, T) == IF T = {} THEN b ELSE Alojar(g[T \ {Max(T)}], <<p, s[Max(T)]>>, Trozo(img, s[Max(T)]))
           iter == CHOOSE g : g = [T \in SUBSET (1..n) |-> sigue(g, T)]
<1>1. Alojando(b, p, img, s) = iter[1..n]
  BY DEF Alojando, FoldLeft, MapThenFoldSet
<1>2. PICK g : EsPliegue(g, "alojar", <<p, img>>, b, s, n)
  BY ExistePaso
<1>3. \A f, T : sigue(f, T) = Sigue("alojar", <<p, img>>, b, s, f, T)
  BY DEF Sigue, Paso
<1> HIDE DEF sigue, n
<1>4. g = [T \in SUBSET (1..n) |-> sigue(g, T)]
  BY <1>2, <1>3 DEF n, EsPliegue
<1>5. iter = [T \in SUBSET (1..n) |-> sigue(iter, T)]
  BY <1>4
<1> HIDE DEF iter
<1>6. EsPliegue(iter, "alojar", <<p, img>>, b, s, n)
  BY <1>3, <1>5 DEF EsPliegue
<1>7. PICK a : Cadena(a, "alojar", <<p, img>>, b, s) /\ iter[1..n] = a[n]
  BY <1>6, CadenaDePasos DEF n
<1> QED BY <1>1, <1>7 DEF n

(* Pages written back one after the other. *)
Volcando(r, p, temp, xs) ==
  FoldLeft(LAMBDA q, x : IF Pag(q, x).number \in DOMAIN q.mem
                           THEN [q EXCEPT !.mem[Pag(q, x).number] = Trozo(temp, x[2] - page_number[p])]
                           ELSE q,
           r, xs)
LEMMA PliegaVolcar ==
  ASSUME NEW b, NEW s, Len(s) \in Nat, DOMAIN s = 1..Len(s), NEW p, NEW temp
  PROVE  \E a : Cadena(a, "volcar", <<p, temp>>, b, s) /\ Volcando(b, p, temp, s) = a[Len(s)]
<1> DEFINE n == Len(s)
           sigue(g, T) == IF T = {} THEN b ELSE 
             LET q == g[T \ {Max(T)}]
                 x == s[Max(T)]
             IN  IF Pag(q, x).number \in DOMAIN q.mem
                   THEN [q EXCEPT !.mem[Pag(q, x).number] = Trozo(temp, x[2] - page_number[p])]
                   ELSE q
           iter == CHOOSE g : g = [T \in SUBSET (1..n) |-> sigue(g, T)]
<1>1. Volcando(b, p, temp, s) = iter[1..n]
  BY DEF Volcando, FoldLeft, MapThenFoldSet
<1>2. PICK g : EsPliegue(g, "volcar", <<p, temp>>, b, s, n)
  BY ExistePaso
<1>3. \A f, T : sigue(f, T) = Sigue("volcar", <<p, temp>>, b, s, f, T)
  BY DEF Sigue, Paso
<1> HIDE DEF sigue, n
<1>4. g = [T \in SUBSET (1..n) |-> sigue(g, T)]
  BY <1>2, <1>3 DEF n, EsPliegue
<1>5. iter = [T \in SUBSET (1..n) |-> sigue(iter, T)]
  BY <1>4
<1> HIDE DEF iter
<1>6. EsPliegue(iter, "volcar", <<p, temp>>, b, s, n)
  BY <1>3, <1>5 DEF EsPliegue
<1>7. PICK a : Cadena(a, "volcar", <<p, temp>>, b, s) /\ iter[1..n] = a[n]
  BY <1>6, CadenaDePasos DEF n
<1> QED BY <1>1, <1>7 DEF n

(* Characters drawn one after the other. *)
Dibujando(m, xs) == FoldLeft(LAMBDA q, t : personaje_crear(q, t, Inicial[t]), m, xs)
LEMMA PliegaCrear ==
  ASSUME NEW b, NEW s, Len(s) \in Nat, DOMAIN s = 1..Len(s)
  PROVE  \E a : Cadena(a, "crear", 0, b, s) /\ Dibujando(b, s) = a[Len(s)]
<1> DEFINE n == Len(s)
           sigue(g, T) == IF T = {} THEN b ELSE personaje_crear(g[T \ {Max(T)}], s[Max(T)], Inicial[s[Max(T)]])
           iter == CHOOSE g : g = [T \in SUBSET (1..n) |-> sigue(g, T)]
<1>1. Dibujando(b, s) = iter[1..n]
  BY DEF Dibujando, FoldLeft, MapThenFoldSet
<1>2. PICK g : EsPliegue(g, "crear", 0, b, s, n)
  BY ExistePaso
<1>3. \A f, T : sigue(f, T) = Sigue("crear", 0, b, s, f, T)
  BY DEF Sigue, Paso
<1> HIDE DEF sigue, n
<1>4. g = [T \in SUBSET (1..n) |-> sigue(g, T)]
  BY <1>2, <1>3 DEF n, EsPliegue
<1>5. iter = [T \in SUBSET (1..n) |-> sigue(iter, T)]
  BY <1>4
<1> HIDE DEF iter
<1>6. EsPliegue(iter, "crear", 0, b, s, n)
  BY <1>3, <1>5 DEF EsPliegue
<1>7. PICK a : Cadena(a, "crear", 0, b, s) /\ iter[1..n] = a[n]
  BY <1>6, CadenaDePasos DEF n
<1> QED BY <1>1, <1>7 DEF n

-----------------------------------------------------------------------------
(* The tables, and what one step changes in them *)

Lugares == Patotas \X (Nat \ {0})
UnaPagina == [number : Nat, presence : BOOLEAN, modified : {0, 1}]
Tablas == [Patotas -> Seq(UnaPagina)]
Hoja(h) == h = [i \in 1..TamPagina |-> h[i]]

(* The fields of q, those that no step moving pages changes as r has them.  *)
Campos(q, mem, bitmap, virtual, virtual_bitmap, tablas, uso, clock_key, r) ==
  q = [mem |-> mem, bitmap |-> bitmap, virtual |-> virtual, virtual_bitmap |-> virtual_bitmap,
       tablas |-> tablas, claves |-> r.claves, uso |-> uso, clock_key |-> clock_key,
       sinMarco |-> r.sinMarco, perdidos |-> r.perdidos]

(* The record has its fields, each with what goes there. *)
Entera(r) ==
  /\ Campos(r, r.mem, r.bitmap, r.virtual, r.virtual_bitmap, r.tablas, r.uso, r.clock_key, r)
  /\ r.mem = [n \in 0..(Marcos - 1) |-> r.mem[n]] /\ \A n \in 0..(Marcos - 1) : Hoja(r.mem[n])
  /\ r.virtual = [n \in 0..(MarcosVirtual - 1) |-> r.virtual[n]]
  /\ \A n \in 0..(MarcosVirtual - 1) : Hoja(r.virtual[n])
  /\ r.bitmap \subseteq 0..(Marcos - 1) /\ r.virtual_bitmap \subseteq 0..(MarcosVirtual - 1)
  /\ r.tablas \in Tablas /\ r.uso \in Seq(Lugares) /\ r.clock_key \in Nat

(* A place is in the tables when its patota has that many pages. *)
LEMMA EnTablaEs ==
  ASSUME NEW r, r.tablas \in Tablas, NEW x
  PROVE  /\ x \in EnTabla(r) <=> x \in Lugares /\ x[2] <= Len(r.tablas[x[1]])
         /\ x \in EnTabla(r) => /\ x \in Lugares /\ x = <<x[1], x[2]>> /\ x[1] \in Patotas
                                /\ x[2] \in 1..Len(r.tablas[x[1]]) /\ Pag(r, x) \in UnaPagina
         /\ x \in EnTabla(r) <=> \E p \in Patotas : \E j \in 1..Len(r.tablas[p]) : x = <<p, j>>
<1>1. \A p \in Patotas : r.tablas[p] \in Seq(UnaPagina) /\ DOMAIN r.tablas[p] = 1..Len(r.tablas[p]) /\ Len(r.tablas[p]) \in Nat
  BY DEF Tablas
<1>2. x \in EnTabla(r) <=> \E p \in Patotas : \E j \in 1..Len(r.tablas[p]) : x = <<p, j>>
  BY <1>1 DEF EnTabla
<1>3. ASSUME x \in EnTabla(r)
      PROVE  /\ x \in Lugares /\ x = <<x[1], x[2]>> /\ x[1] \in Patotas
             /\ x[2] \in 1..Len(r.tablas[x[1]]) /\ x[2] <= Len(r.tablas[x[1]])
  <2>1. PICK p \in Patotas : \E j \in 1..Len(r.tablas[p]) : x = <<p, j>>
    BY <1>2, <1>3
  <2>2. PICK j \in 1..Len(r.tablas[p]) : x = <<p, j>>
    BY <2>1
  <2>3. x[1] = p /\ x[2] = j /\ j \in Nat \ {0} /\ j <= Len(r.tablas[p])
    BY <1>1, <2>2
  <2> QED BY <2>2, <2>3 DEF Lugares
<1>4. ASSUME x \in Lugares, x[2] <= Len(r.tablas[x[1]]) PROVE x \in EnTabla(r)
  <2>1. x = <<x[1], x[2]>> /\ x[1] \in Patotas /\ x[2] \in Nat \ {0}
    BY <1>4 DEF Lugares
  <2>2. x[2] \in 1..Len(r.tablas[x[1]])
    BY <1>1, <1>4, <2>1
  <2> QED BY <1>2, <2>1, <2>2
<1>5. x \in EnTabla(r) => Pag(r, x) \in UnaPagina
  BY <1>1, <1>3 DEF Pag
<1> QED BY <1>2, <1>3, <1>4, <1>5

(* One page of the tables is another; the rest are as they were. *)
UnaCambia(q, r, x, pg) == q.tablas = [r.tablas EXCEPT ![x[1]] = [@ EXCEPT ![x[2]] = pg]]
LEMMA UnaPaginaCambia ==
  ASSUME NEW r, r.tablas \in Tablas, NEW x \in EnTabla(r), NEW pg \in UnaPagina,
         NEW q, UnaCambia(q, r, x, pg)
  PROVE  /\ q.tablas \in Tablas /\ EnTabla(q) = EnTabla(r)
         /\ \A p \in Patotas : Len(q.tablas[p]) = Len(r.tablas[p])
         /\ Pag(q, x) = pg
         /\ \A y \in EnTabla(r) : y # x => Pag(q, y) = Pag(r, y)
<1>1. x = <<x[1], x[2]>> /\ x[1] \in Patotas /\ x[2] \in 1..Len(r.tablas[x[1]])
  BY EnTablaEs
<1>2. \A p \in Patotas : r.tablas[p] \in Seq(UnaPagina)
  BY DEF Tablas
<1>3. q.tablas \in Tablas /\ \A p \in Patotas : Len(q.tablas[p]) = Len(r.tablas[p])
  BY <1>1, <1>2 DEF Tablas, UnaCambia
<1>4. EnTabla(q) = EnTabla(r)
  <2>1. \A y : y \in EnTabla(q) <=> y \in EnTabla(r)
    <3> SUFFICES ASSUME NEW y PROVE y \in EnTabla(q) <=> y \in EnTabla(r)
      OBVIOUS
    <3>1. y \in EnTabla(r) <=> \E p \in Patotas : \E j \in 1..Len(r.tablas[p]) : y = <<p, j>>
      BY EnTablaEs
    <3>2. y \in EnTabla(q) <=> \E p \in Patotas : \E j \in 1..Len(q.tablas[p]) : y = <<p, j>>
      BY <1>3, EnTablaEs
    <3> QED BY <1>3, <3>1, <3>2
  <2> QED BY <2>1
<1>5. Pag(q, x) = pg
  BY <1>1, <1>2 DEF Pag, Tablas, UnaCambia
<1>6. ASSUME NEW y \in EnTabla(r), y # x PROVE Pag(q, y) = Pag(r, y)
  <2>1. y = <<y[1], y[2]>> /\ y[1] \in Patotas /\ y[2] \in 1..Len(r.tablas[y[1]])
    BY EnTablaEs
  <2>2. y[1] # x[1] \/ y[2] # x[2]
    BY <1>1, <1>6, <2>1
  <2> QED BY <1>1, <1>2, <2>1, <2>2 DEF Pag, Tablas, UnaCambia
<1> QED BY <1>3, <1>4, <1>5, <1>6

(* A page more at the end of a table. *)
UnaMas(q, r, p, pg) == q.tablas = [r.tablas EXCEPT ![p] = Append(@, pg)]
LEMMA UnaPaginaMas ==
  ASSUME NEW r, r.tablas \in Tablas, NEW p \in Patotas, NEW pg \in UnaPagina,
         NEW q, UnaMas(q, r, p, pg),
         NEW x, x = <<p, Len(r.tablas[p]) + 1>>
  PROVE  /\ q.tablas \in Tablas /\ EnTabla(q) = EnTabla(r) \cup {x} /\ x \notin EnTabla(r)
         /\ \A o \in Patotas : Len(q.tablas[o]) = IF o = p THEN Len(r.tablas[p]) + 1 ELSE Len(r.tablas[o])
         /\ Pag(q, x) = pg
         /\ \A y \in EnTabla(r) : Pag(q, y) = Pag(r, y)
<1>1. x[1] = p /\ x[2] = Len(r.tablas[p]) + 1 /\ Len(r.tablas[p]) \in Nat /\ x \in Lugares
  BY DEF Tablas, Lugares
<1>2. \A o \in Patotas : r.tablas[o] \in Seq(UnaPagina) /\ Len(r.tablas[o]) \in Nat
  BY DEF Tablas
<1>3. /\ q.tablas \in Tablas
      /\ \A o \in Patotas : Len(q.tablas[o]) = IF o = p THEN Len(r.tablas[p]) + 1 ELSE Len(r.tablas[o])
  BY <1>2 DEF Tablas, UnaMas
<1>4. x \notin EnTabla(r)
  BY <1>1, EnTablaEs
<1>5. ASSUME NEW y PROVE y \in EnTabla(q) <=> y \in EnTabla(r) \/ y = x
  <2>1. y \in EnTabla(r) <=> \E o \in Patotas : \E j \in 1..Len(r.tablas[o]) : y = <<o, j>>
    BY EnTablaEs
  <2>2. y \in EnTabla(q) <=> \E o \in Patotas : \E j \in 1..Len(q.tablas[o]) : y = <<o, j>>
    <3>1. q.tablas \in Tablas
      BY <1>3
    <3> QED BY <3>1, EnTablaEs
  <2>3. \A o \in Patotas : \A j : j \in 1..Len(q.tablas[o]) <=> j \in 1..Len(r.tablas[o]) \/ (o = p /\ j = Len(r.tablas[p]) + 1)
    BY <1>2, <1>3
  <2> QED BY <2>1, <2>2, <2>3
<1>6. Pag(q, x) = pg
  BY <1>1, <1>2 DEF Pag, Tablas, UnaMas
<1>7. ASSUME NEW y \in EnTabla(r) PROVE Pag(q, y) = Pag(r, y)
  <2>1. y = <<y[1], y[2]>> /\ y[1] \in Patotas /\ y[2] \in 1..Len(r.tablas[y[1]])
    BY EnTablaEs
  <2> QED BY <1>2, <2>1 DEF Pag, Tablas, UnaMas
<1> QED BY <1>3, <1>4, <1>5, <1>6, <1>7

(* The table of a patota emptied. *)
SinTabla(q, r, p) == q.tablas = [r.tablas EXCEPT ![p] = <<>>]
LEMMA TablaVacia ==
  ASSUME NEW r, r.tablas \in Tablas, NEW p \in Patotas, NEW q, SinTabla(q, r, p)
  PROVE  /\ q.tablas \in Tablas
         /\ \A o \in Patotas : Len(q.tablas[o]) = IF o = p THEN 0 ELSE Len(r.tablas[o])
         /\ \A y : y \in EnTabla(q) <=> y \in EnTabla(r) /\ y[1] # p
         /\ \A y \in EnTabla(q) : Pag(q, y) = Pag(r, y)
<1>1. \A o \in Patotas : r.tablas[o] \in Seq(UnaPagina) /\ Len(r.tablas[o]) \in Nat
  BY DEF Tablas
<1>2. /\ q.tablas \in Tablas
      /\ \A o \in Patotas : Len(q.tablas[o]) = IF o = p THEN 0 ELSE Len(r.tablas[o])
  BY <1>1 DEF Tablas, SinTabla
<1>3. ASSUME NEW y PROVE y \in EnTabla(q) <=> y \in EnTabla(r) /\ y[1] # p
  <2>1. y \in EnTabla(r) <=> y \in Lugares /\ y[2] <= Len(r.tablas[y[1]])
    BY EnTablaEs
  <2>2. q.tablas \in Tablas
    BY <1>2
  <2>3. y \in EnTabla(q) <=> y \in Lugares /\ y[2] <= Len(q.tablas[y[1]])
    BY <2>2, EnTablaEs
  <2>4. y \in Lugares => y[1] \in Patotas /\ y[2] \in Nat \ {0}
    BY DEF Lugares
  <2> QED BY <1>2, <2>1, <2>3, <2>4
<1>4. ASSUME NEW y \in EnTabla(q) PROVE Pag(q, y) = Pag(r, y)
  BY <1>1, <1>3, EnTablaEs DEF Pag, Tablas, SinTabla
<1> QED BY <1>2, <1>3, <1>4

-----------------------------------------------------------------------------
(* The recency of use *)

(* Taking an element out of a sequence without repetitions leaves the rest, *)
(* once each.                                                               *)
LEMMA QuitarUno ==
  ASSUME NEW C, NEW s \in Seq(C), IsInjective(s), NEW x, NEW z, z = RemoveFirst(s, x)
  PROVE  z \in Seq(C) /\ IsInjective(z) /\ ToSet(z) = ToSet(s) \ {x}
<1> DEFINE n == Len(s)
<1>1. n \in Nat /\ DOMAIN s = 1..n /\ ToSet(s) = {s[i] : i \in 1..n}
  BY DEF ToSet
<1>2. CASE x \notin ToSet(s)
  <2>1. ~\E i \in 1..Len(s) : s[i] = x
    BY <1>1, <1>2
  <2>2. z = s
    BY <2>1 DEF RemoveFirst
  <2> QED BY <1>2, <2>2
<1>3. CASE x \in ToSet(s)
  <2> DEFINE I == {i \in 1..n : s[i] = x}
  <2>1. PICK k \in 1..n : s[k] = x
    BY <1>1, <1>3
  <2>2. I = {k}
    BY <1>1, <2>1 DEF IsInjective
  <2>3. Min(I) = k
    <3>1. \A u \in {k} : k <= u
      BY <1>1
    <3>2. Min({k}) \in {k}
      BY <3>1 DEF Min
    <3> QED BY <2>2, <3>2
  <2>4. z = SubSeq(s, 1, k - 1) \o SubSeq(s, k + 1, n)
    <3>1. SelectInSeq(s, LAMBDA v : v = x) = k
      BY <2>2, <2>3 DEF SelectInSeq
    <3>2. RemoveFirst(s, x) = RemoveAt(s, SelectInSeq(s, LAMBDA v : v = x))
      BY <2>1 DEF RemoveFirst
    <3>3. RemoveFirst(s, x) = RemoveAt(s, k)
      BY <3>1, <3>2
    <3> QED BY <3>3 DEF RemoveAt
  <2>5. /\ SubSeq(s, 1, k - 1) \in Seq(C) /\ Len(SubSeq(s, 1, k - 1)) = k - 1
        /\ \A i \in 1..(k - 1) : SubSeq(s, 1, k - 1)[i] = s[i]
        /\ SubSeq(s, k + 1, n) \in Seq(C) /\ Len(SubSeq(s, k + 1, n)) = n - k
        /\ \A i \in 1..(n - k) : SubSeq(s, k + 1, n)[i] = s[k + i]
    <3> HIDE DEF n
    <3>1. k \in Nat /\ k - 1 \in Int /\ k + 1 \in Int /\ n \in Int /\ 1 \in Int /\ (\A i \in 1..n : s[i] \in C)
          /\ (\A i \in 1..(k - 1) : i \in 1..n) /\ (\A i \in (k + 1)..n : i \in 1..n)
      BY <1>1, ElementOfSeq DEF n
    <3>2. /\ SubSeq(s, 1, k - 1) \in Seq(C)
          /\ Len(SubSeq(s, 1, k - 1)) = IF 1 <= k - 1 THEN k - 1 - 1 + 1 ELSE 0
          /\ \A i \in 1..(k - 1 - 1 + 1) : SubSeq(s, 1, k - 1)[i] = s[1 + i - 1]
      BY <3>1, SubSeqProperties
    <3>3. /\ SubSeq(s, k + 1, n) \in Seq(C)
          /\ Len(SubSeq(s, k + 1, n)) = IF k + 1 <= n THEN n - (k + 1) + 1 ELSE 0
          /\ \A i \in 1..(n - (k + 1) + 1) : SubSeq(s, k + 1, n)[i] = s[k + 1 + i - 1]
      BY <3>1, SubSeqProperties
    <3>4. Len(SubSeq(s, 1, k - 1)) = k - 1 /\ Len(SubSeq(s, k + 1, n)) = n - k
      BY <1>1, <3>1, <3>2, <3>3
    <3>5. ASSUME NEW i \in 1..(k - 1) PROVE SubSeq(s, 1, k - 1)[i] = s[i]
      BY <3>1, <3>2
    <3>6. ASSUME NEW i \in 1..(n - k) PROVE SubSeq(s, k + 1, n)[i] = s[k + i]
      BY <3>1, <3>3
    <3> QED BY <3>2, <3>3, <3>4, <3>5, <3>6
  <2> DEFINE u == SubSeq(s, 1, k - 1)
             v == SubSeq(s, k + 1, n)
  <2>6. /\ u \in Seq(C) /\ Len(u) = k - 1 /\ (\A i \in 1..(k - 1) : u[i] = s[i])
        /\ v \in Seq(C) /\ Len(v) = n - k /\ (\A i \in 1..(n - k) : v[i] = s[k + i])
        /\ z = u \o v /\ k \in 1..n
    BY <2>4, <2>5
  <2> HIDE DEF u, v, n
  <2>7. /\ z \in Seq(C) /\ Len(z) = n - 1
        /\ \A i \in 1..(n - 1) : z[i] = IF i < k THEN s[i] ELSE s[i + 1]
    <3>1. z \in Seq(C) /\ Len(z) = n - 1
      <4>1. z \in Seq(C) /\ Len(z) = Len(u) + Len(v)
        BY <2>6, ConcatProperties
      <4> QED BY <1>1, <2>6, <4>1
    <3>2. ASSUME NEW i \in 1..(n - 1) PROVE z[i] = IF i < k THEN s[i] ELSE s[i + 1]
      <4>1. CASE i < k
        <5>1. i \in 1..Len(u) /\ i \in 1..(k - 1)
          BY <1>1, <2>6, <4>1
        <5>2. z[i] = u[i]
          BY <2>6, <5>1
        <5> QED BY <2>6, <4>1, <5>1, <5>2
      <4>2. CASE ~(i < k)
        <5>1. i - (k - 1) \in 1..Len(v) /\ k + (i - (k - 1)) = i + 1 /\ i = Len(u) + (i - (k - 1)) /\ i - (k - 1) \in 1..(n - k)
          BY <1>1, <2>6, <4>2
        <5>2. z[i] = v[i - (k - 1)]
          BY <1>1, <2>6, <5>1
        <5>3. v[i - (k - 1)] = s[k + (i - (k - 1))]
          BY <2>6, <5>1
        <5> QED BY <4>2, <5>1, <5>2, <5>3
      <4> QED BY <4>1, <4>2
    <3> QED BY <3>1, <3>2
  <2>8. DOMAIN z = 1..(n - 1)
    BY <2>7
  <2>9. \A i, j \in 1..n : s[i] = s[j] => i = j
    BY <1>1 DEF IsInjective
  <2>10. IsInjective(z)
    <3> SUFFICES ASSUME NEW i \in 1..(n - 1), NEW j \in 1..(n - 1), z[i] = z[j] PROVE i = j
      BY <2>8 DEF IsInjective
    <3> DEFINE a == IF i < k THEN i ELSE i + 1
               b == IF j < k THEN j ELSE j + 1
    <3>1. a \in 1..n /\ b \in 1..n /\ z[i] = s[a] /\ z[j] = s[b]
      BY <1>1, <2>6, <2>7
    <3>2. a = b
      BY <2>9, <3>1
    <3> QED BY <1>1, <2>6, <3>2
  <2>11. \A y : y \in ToSet(z) <=> y \in ToSet(s) /\ y # x
    <3> SUFFICES ASSUME NEW y PROVE y \in ToSet(z) <=> y \in ToSet(s) /\ y # x
      OBVIOUS
    <3>1. ToSet(z) = {z[i] : i \in 1..(n - 1)}
      BY <2>8 DEF ToSet
    <3>2. ASSUME y \in ToSet(z) PROVE y \in ToSet(s) /\ y # x
      <4>1. PICK i \in 1..(n - 1) : y = z[i]
        BY <3>1, <3>2
      <4> DEFINE a == IF i < k THEN i ELSE i + 1
      <4>2. a \in 1..n /\ y = s[a] /\ a # k
        BY <1>1, <2>6, <2>7, <4>1
      <4> QED BY <1>1, <2>1, <2>6, <2>9, <4>2
    <3>3. ASSUME y \in ToSet(s), y # x PROVE y \in ToSet(z)
      <4>1. PICK a \in 1..n : y = s[a]
        BY <1>1, <3>3
      <4>2. a # k
        BY <2>1, <3>3, <4>1
      <4> DEFINE i == IF a < k THEN a ELSE a - 1
      <4>3. i \in 1..(n - 1) /\ z[i] = s[a]
        <5>1. i \in 1..(n - 1) /\ (i < k <=> a < k)
          BY <1>1, <2>6, <4>2
        <5>2. a = IF i < k THEN i ELSE i + 1
          BY <1>1, <5>1
        <5> HIDE DEF i
        <5> QED BY <2>7, <5>1, <5>2
      <4> QED BY <3>1, <4>1, <4>3
    <3> QED BY <3>2, <3>3
  <2> QED BY <2>7, <2>10, <2>11
<1> QED BY <1>2, <1>3

(* Put at the end, it is there once. *)
AlFinal(z, s, x) == z = Append(RemoveFirst(s, x), x)
LEMMA PonerUltimo ==
  ASSUME NEW C, NEW s \in Seq(C), IsInjective(s), NEW x \in C, NEW z, AlFinal(z, s, x)
  PROVE  z \in Seq(C) /\ IsInjective(z) /\ ToSet(z) = ToSet(s) \cup {x}
<1>1. PICK w : w = RemoveFirst(s, x)
  OBVIOUS
<1>2. w \in Seq(C) /\ IsInjective(w) /\ ToSet(w) = ToSet(s) \ {x}
  BY <1>1, QuitarUno
<1>3. z = Append(w, x)
  BY <1>1 DEF AlFinal
<1> DEFINE n == Len(w)
<1>4. n \in Nat /\ DOMAIN w = 1..n /\ ToSet(w) = {w[i] : i \in 1..n}
  BY <1>2 DEF ToSet
<1>5. /\ z \in Seq(C) /\ DOMAIN z = 1..(n + 1) /\ z[n + 1] = x
      /\ \A i \in 1..n : z[i] = w[i]
  BY <1>2, <1>3
<1> HIDE DEF n
<1>6. \A i \in 1..(n + 1) : i = n + 1 \/ i \in 1..n
  BY <1>4
<1>7. \A i \in 1..n : w[i] # x
  BY <1>2, <1>4
<1>8. IsInjective(z)
  <2> SUFFICES ASSUME NEW i \in 1..(n + 1), NEW j \in 1..(n + 1), z[i] = z[j] PROVE i = j
    BY <1>5 DEF IsInjective
  <2>1. \A a, b \in 1..n : w[a] = w[b] => a = b
    BY <1>2, <1>4 DEF IsInjective
  <2> QED BY <1>5, <1>6, <1>7, <2>1
<1>9. ToSet(z) = ToSet(s) \cup {x}
  <2>1. ToSet(z) = {z[i] : i \in 1..(n + 1)}
    BY <1>5 DEF ToSet
  <2>2. \A y : y \in ToSet(z) <=> y \in ToSet(w) \/ y = x
    <3>1. n + 1 \in 1..(n + 1) /\ \A i \in 1..n : i \in 1..(n + 1)
      BY <1>4
    <3> QED BY <1>4, <1>5, <1>6, <2>1, <3>1
  <2> QED BY <1>2, <2>2
<1> QED BY <1>5, <1>8, <1>9

-----------------------------------------------------------------------------
(* Every page in its place.  X are the pages that a step under way took out *)
(* of theirs and has not put anywhere yet.  A place is a number: the frame  *)
(* n is n, the slot s is -1 - s.                                            *)

Sitio(pg) == IF pg.presence THEN pg.number ELSE -1 - pg.number
Sitios(r) == [y \in EnTabla(r) |-> Sitio(Pag(r, y))]
Tomados(r) == {l \in Int : l \in r.bitmap \/ (l < 0 /\ -1 - l \in r.virtual_bitmap \ r.perdidos)}
(* The pages of Y have one of the places T each, and no place is left over. *)
UnoACadaUno(Y, f, T) ==
  /\ \A y \in Y : f[y] \in T
  /\ \A l \in T : \E y \in Y : f[y] = l
  /\ \A y \in Y : \A z \in Y : f[y] = f[z] => y = z
Puestas(r, X) ==
  UnoACadaUno(EnTabla(r) \ X, Sitios(r), Tomados(r)) /\ r.perdidos \subseteq r.virtual_bitmap
EnMarcos(r, X) == {y \in EnTabla(r) \ X : Pag(r, y).presence}
Usadas(r, P) == IsInjective(r.uso) /\ \A y : y \in ToSet(r.uso) <=> hasLRU /\ y \in P
BienPuestas(r, X) == Entera(r) /\ Puestas(r, X) /\ Usadas(r, EnMarcos(r, X))

(* What a step that moves pages keeps. *)
MismasTablas(r, q) == EnTabla(q) = EnTabla(r) /\ \A p \in Patotas : Len(q.tablas[p]) = Len(r.tablas[p])
Ajenos(r, q) == q.claves = r.claves /\ q.perdidos = r.perdidos /\ q.sinMarco = r.sinMarco
MismosMapas(r, q) == q.bitmap = r.bitmap /\ q.virtual_bitmap = r.virtual_bitmap
Ocupan(r) == Cardinality(r.bitmap) + Cardinality(r.virtual_bitmap)

(* A page is taken out of its place. *)
LEMMA SacarUno ==
  ASSUME NEW Y, NEW f, NEW T, UnoACadaUno(Y, f, T), NEW x \in Y
  PROVE  UnoACadaUno(Y \ {x}, f, T \ {f[x]})
BY DEF UnoACadaUno

(* A page is put where none is. *)
LEMMA PonerUno ==
  ASSUME NEW Y, NEW f, NEW T, UnoACadaUno(Y, f, T), NEW x, x \notin Y, NEW l, l \notin T,
         NEW g, g[x] = l, \A y \in Y : g[y] = f[y]
  PROVE  UnoACadaUno(Y \cup {x}, g, T \cup {l})
BY DEF UnoACadaUno

(* A place is a frame exactly when the page is present. *)
LEMMA SitioDe ==
  ASSUME NEW r, r.tablas \in Tablas, NEW y \in EnTabla(r)
  PROVE  /\ Sitios(r)[y] = Sitio(Pag(r, y)) /\ Pag(r, y).number \in Nat /\ Pag(r, y).presence \in BOOLEAN
         /\ Pag(r, y).presence => Sitios(r)[y] = Pag(r, y).number /\ Sitios(r)[y] >= 0
         /\ ~Pag(r, y).presence => Sitios(r)[y] = -1 - Pag(r, y).number /\ Sitios(r)[y] < 0
<1>1. Pag(r, y) \in UnaPagina
  BY EnTablaEs
<1>2. Pag(r, y).number \in Nat /\ Pag(r, y).presence \in BOOLEAN
  BY <1>1 DEF UnaPagina
<1>3. Sitios(r)[y] = Sitio(Pag(r, y))
  BY DEF Sitios
<1> QED BY <1>2, <1>3 DEF Sitio

(* Where nothing moved, everything is still in its place. *)
LEMMA NadaSeMueve ==
  ASSUME NEW r, r.tablas \in Tablas, NEW q, q.tablas \in Tablas, EnTabla(q) = EnTabla(r),
         MismosMapas(r, q), q.perdidos = r.perdidos, NEW X,
         \A y \in EnTabla(r) : Pag(q, y).presence = Pag(r, y).presence /\ Pag(q, y).number = Pag(r, y).number
  PROVE  /\ Sitios(q) = Sitios(r) /\ Tomados(q) = Tomados(r) /\ EnMarcos(q, X) = EnMarcos(r, X)
         /\ Presentes(q) = Presentes(r) /\ Ocupan(q) = Ocupan(r)
         /\ Puestas(r, X) <=> Puestas(q, X)
<1>1. Sitios(q) = Sitios(r)
  <2>1. \A y \in EnTabla(r) : Sitio(Pag(q, y)) = Sitio(Pag(r, y))
    BY DEF Sitio
  <2> QED BY <2>1 DEF Sitios
<1>2. Tomados(q) = Tomados(r)
  BY DEF Tomados, MismosMapas
<1>3. EnMarcos(q, X) = EnMarcos(r, X)
  BY DEF EnMarcos
<1>4. Presentes(q) = Presentes(r)
  BY DEF Presentes
<1>5. Ocupan(q) = Ocupan(r)
  BY DEF Ocupan, MismosMapas
<1> QED BY <1>1, <1>2, <1>3, <1>4, <1>5 DEF Puestas, MismosMapas

(* A step that changes fields one by one leaves the record whole. *)
LEMMA CamposEnteros ==
  ASSUME NEW r, NEW mem, NEW bitmap, NEW virtual, NEW virtual_bitmap, NEW tablas, NEW uso, NEW clock_key,
         NEW q, Campos(q, mem, bitmap, virtual, virtual_bitmap, tablas, uso, clock_key, r)
  PROVE  /\ q.mem = mem /\ q.bitmap = bitmap /\ q.virtual = virtual /\ q.virtual_bitmap = virtual_bitmap
         /\ q.tablas = tablas /\ q.uso = uso /\ q.clock_key = clock_key /\ Ajenos(r, q)
         /\ Campos(q, q.mem, q.bitmap, q.virtual, q.virtual_bitmap, q.tablas, q.uso, q.clock_key, q)
<1>1. /\ q.mem = mem /\ q.bitmap = bitmap /\ q.virtual = virtual /\ q.virtual_bitmap = virtual_bitmap
      /\ q.tablas = tablas /\ q.uso = uso /\ q.clock_key = clock_key /\ Ajenos(r, q)
  BY DEF Campos, Ajenos
<1> QED BY <1>1 DEF Campos, Ajenos

(* Using a page marks it, and makes it the last one used. *)
LEMMA UsarBien ==
  ASSUME NEW r, Entera(r), NEW X, Puestas(r, X), NEW x \in EnTabla(r), Pag(r, x).presence, x \notin X,
         NEW P, Usadas(r, P), P \cup {x} = EnMarcos(r, X),
         NEW q, q = Usar(r, x)
  PROVE  /\ BienPuestas(q, X) /\ MismasTablas(r, q) /\ Ajenos(r, q) /\ MismosMapas(r, q)
<1>1. /\ r.tablas \in Tablas /\ r.uso \in Seq(Lugares) /\ IsInjective(r.uso) /\ x \in Lugares
      /\ Pag(r, x) \in UnaPagina /\ x = <<x[1], x[2]>> /\ x[1] \in Patotas /\ x[2] \in 1..Len(r.tablas[x[1]])
  BY EnTablaEs DEF Entera, Usadas
<1> DEFINE pg == [Pag(r, x) EXCEPT !.modified = 1]
           u == IF hasLRU THEN Append(RemoveFirst(r.uso, x), x) ELSE r.uso
           t == [r.tablas EXCEPT ![x[1]] = [r.tablas[x[1]] EXCEPT ![x[2]] = pg]]
<1>2. pg \in UnaPagina /\ pg.presence = Pag(r, x).presence /\ pg.number = Pag(r, x).number
  BY <1>1 DEF UnaPagina
<1>3. Campos(q, r.mem, r.bitmap, r.virtual, r.virtual_bitmap, t, u, r.clock_key, r)
  <2>1. q = [r EXCEPT !.uso = u, !.tablas = [r.tablas EXCEPT ![x[1]][x[2]].modified = 1]]
    BY DEF Usar, Entera, Campos
  <2>2. [r.tablas EXCEPT ![x[1]][x[2]].modified = 1] = t
    BY DEF Pag
  <2>3. q = [r EXCEPT !.uso = u, !.tablas = t]
    BY <2>1, <2>2
  <2> HIDE DEF u, t
  <2> QED BY <2>3 DEF Entera, Campos
<1>4. t = [r.tablas EXCEPT ![x[1]] = [@ EXCEPT ![x[2]] = pg]]
  OBVIOUS
<1> HIDE DEF u, t, pg
<1>5. /\ q.mem = r.mem /\ q.bitmap = r.bitmap /\ q.virtual = r.virtual /\ q.virtual_bitmap = r.virtual_bitmap
      /\ q.tablas = t /\ q.uso = u /\ q.clock_key = r.clock_key /\ Ajenos(r, q)
      /\ Campos(q, q.mem, q.bitmap, q.virtual, q.virtual_bitmap, q.tablas, q.uso, q.clock_key, q)
  BY <1>3, CamposEnteros
<1>6. /\ q.tablas \in Tablas /\ EnTabla(q) = EnTabla(r) /\ Pag(q, x) = pg
      /\ \A p \in Patotas : Len(q.tablas[p]) = Len(r.tablas[p])
      /\ \A y \in EnTabla(r) : y # x => Pag(q, y) = Pag(r, y)
  <2>1. UnaCambia(q, r, x, pg)
    BY <1>4, <1>5 DEF UnaCambia
  <2> QED BY <1>1, <1>2, <2>1, UnaPaginaCambia
<1>7. u \in Seq(Lugares) /\ Usadas(q, P \cup {x})
  <2>1. CASE hasLRU
    <3>1. AlFinal(u, r.uso, x)
      BY <2>1 DEF u, AlFinal
    <3>2. u \in Seq(Lugares) /\ IsInjective(u) /\ ToSet(u) = ToSet(r.uso) \cup {x}
      BY <1>1, <3>1, PonerUltimo
    <3> QED BY <1>5, <2>1, <3>2 DEF Usadas
  <2>2. CASE ~hasLRU
    <3>1. u = r.uso
      BY <2>2 DEF u
    <3> QED BY <1>1, <1>5, <2>2, <3>1 DEF Usadas
  <2> QED BY <2>1, <2>2
<1>8. Entera(q)
  BY <1>5, <1>6, <1>7 DEF Entera
<1>9. MismosMapas(r, q) /\ MismasTablas(r, q)
  BY <1>5, <1>6 DEF MismosMapas, MismasTablas
<1>10. Puestas(q, X) /\ EnMarcos(q, X) = EnMarcos(r, X)
  <2>1. \A y \in EnTabla(r) : Pag(q, y).presence = Pag(r, y).presence /\ Pag(q, y).number = Pag(r, y).number
    BY <1>2, <1>6
  <2> QED BY <1>1, <1>5, <1>6, <1>9, <2>1, NadaSeMueve DEF Ajenos
<1> QED BY <1>5, <1>7, <1>8, <1>9, <1>10 DEF BienPuestas

(* The pages of X are as they were. *)
Quietas(r, q, X) ==
  \A y \in EnTabla(r) : y \in X => Pag(q, y).presence = Pag(r, y).presence /\ Pag(q, y).number = Pag(r, y).number
(* Only the marks of the pages may have changed. *)
Marcadas(r, q, X) ==
  /\ BienPuestas(q, X) /\ MismasTablas(r, q) /\ Ajenos(r, q) /\ MismosMapas(r, q)
  /\ EnMarcos(q, X) = EnMarcos(r, X) /\ Quietas(r, q, X)

(* Marking a page, or clearing its mark, moves nothing. *)
LEMMA MarcarBien ==
  ASSUME NEW r, NEW X, BienPuestas(r, X), NEW x \in EnTabla(r), NEW m \in {0, 1}, NEW c \in Nat,
         NEW q, q = Marcar([r EXCEPT !.clock_key = c], x, m)
  PROVE  Marcadas(r, q, X)
<1>1. /\ r.tablas \in Tablas /\ r.uso \in Seq(Lugares)
      /\ Pag(r, x) \in UnaPagina /\ x = <<x[1], x[2]>> /\ x[1] \in Patotas /\ x[2] \in 1..Len(r.tablas[x[1]])
  BY EnTablaEs DEF Entera, BienPuestas
<1> DEFINE pg == [Pag(r, x) EXCEPT !.modified = m]
           t == [r.tablas EXCEPT ![x[1]] = [r.tablas[x[1]] EXCEPT ![x[2]] = pg]]
<1>2. pg \in UnaPagina /\ pg.presence = Pag(r, x).presence /\ pg.number = Pag(r, x).number
  BY <1>1 DEF UnaPagina
<1>3. Campos(q, r.mem, r.bitmap, r.virtual, r.virtual_bitmap, t, r.uso, c, r)
  <2>1. q = [r EXCEPT !.clock_key = c, !.tablas = [r.tablas EXCEPT ![x[1]][x[2]].modified = m]]
    BY DEF Marcar, Entera, Campos, BienPuestas
  <2>2. [r.tablas EXCEPT ![x[1]][x[2]].modified = m] = t
    BY DEF Pag
  <2>3. q = [r EXCEPT !.clock_key = c, !.tablas = t]
    BY <2>1, <2>2
  <2> HIDE DEF t
  <2> QED BY <2>3 DEF Entera, Campos, BienPuestas
<1>4. t = [r.tablas EXCEPT ![x[1]] = [@ EXCEPT ![x[2]] = pg]]
  OBVIOUS
<1> HIDE DEF t, pg
<1>5. /\ q.mem = r.mem /\ q.bitmap = r.bitmap /\ q.virtual = r.virtual /\ q.virtual_bitmap = r.virtual_bitmap
      /\ q.tablas = t /\ q.uso = r.uso /\ q.clock_key = c /\ Ajenos(r, q)
      /\ Campos(q, q.mem, q.bitmap, q.virtual, q.virtual_bitmap, q.tablas, q.uso, q.clock_key, q)
  BY <1>3, CamposEnteros
<1>6. /\ q.tablas \in Tablas /\ EnTabla(q) = EnTabla(r) /\ Pag(q, x) = pg
      /\ \A p \in Patotas : Len(q.tablas[p]) = Len(r.tablas[p])
      /\ \A y \in EnTabla(r) : y # x => Pag(q, y) = Pag(r, y)
  <2>1. UnaCambia(q, r, x, pg)
    BY <1>4, <1>5 DEF UnaCambia
  <2> QED BY <1>1, <1>2, <2>1, UnaPaginaCambia
<1>8. Entera(q)
  BY <1>5, <1>6 DEF Entera, BienPuestas
<1>9. MismosMapas(r, q) /\ MismasTablas(r, q)
  BY <1>5, <1>6 DEF MismosMapas, MismasTablas
<1>10. Puestas(q, X) /\ EnMarcos(q, X) = EnMarcos(r, X) /\ Quietas(r, q, X)
  <2>1. \A y \in EnTabla(r) : Pag(q, y).presence = Pag(r, y).presence /\ Pag(q, y).number = Pag(r, y).number
    BY <1>2, <1>6
  <2> QED BY <1>1, <1>5, <1>6, <1>9, <2>1, NadaSeMueve DEF Ajenos, BienPuestas, Quietas
<1> QED BY <1>5, <1>8, <1>9, <1>10 DEF BienPuestas, Usadas, Marcadas

-----------------------------------------------------------------------------
(* Out of a place, and into another *)

(* There is a least number in a set of them. *)
LEMMA MinimoEn ==
  ASSUME NEW S, S \subseteq Nat, S # {}
  PROVE  Min(S) \in S /\ \A u \in S : Min(S) <= u
<1>1. \E m \in S : \A u \in S : m <= u
  BY MinimoNat
<1> QED BY <1>1 DEF Min

(* A page that loses its place. *)
LEMMA Sacada ==
  ASSUME NEW r, NEW X, Puestas(r, X), NEW x \in EnTabla(r), x \notin X,
         NEW q, q.tablas = r.tablas, Tomados(q) = Tomados(r) \ {Sitios(r)[x]}, q.perdidos \subseteq q.virtual_bitmap
  PROVE  /\ Puestas(q, X \cup {x}) /\ EnMarcos(q, X \cup {x}) = EnMarcos(r, X) \ {x}
         /\ EnTabla(q) = EnTabla(r) /\ MismasTablas(r, q) /\ \A y : Pag(q, y) = Pag(r, y)
<1>1. EnTabla(q) = EnTabla(r) /\ MismasTablas(r, q) /\ \A y : Pag(q, y) = Pag(r, y)
  BY DEF EnTabla, MismasTablas, Pag
<1>2. Sitios(q) = Sitios(r)
  BY <1>1 DEF Sitios
<1>3. EnTabla(q) \ (X \cup {x}) = (EnTabla(r) \ X) \ {x}
  BY <1>1
<1>4. UnoACadaUno((EnTabla(r) \ X) \ {x}, Sitios(r), Tomados(r) \ {Sitios(r)[x]})
  BY SacarUno DEF Puestas
<1>5. EnMarcos(q, X \cup {x}) = EnMarcos(r, X) \ {x}
  BY <1>1 DEF EnMarcos
<1> QED BY <1>1, <1>2, <1>3, <1>4, <1>5 DEF Puestas

(* The page pg of x has a place, and the others theirs. *)
EnLugar(r, q, X, x, pg) ==
  /\ Puestas(q, X \ {x}) /\ q.tablas \in Tablas /\ Pag(q, x) = pg
  /\ EnMarcos(q, X \ {x}) = IF pg.presence THEN EnMarcos(r, X) \cup {x} ELSE EnMarcos(r, X)
  /\ \A y \in EnTabla(r) : y # x => Pag(q, y) = Pag(r, y)

(* A page that takes a place again. *)
LEMMA Devuelta ==
  ASSUME NEW r, r.tablas \in Tablas, NEW X, Puestas(r, X), NEW x \in EnTabla(r), x \in X,
         NEW pg \in UnaPagina, NEW q, UnaCambia(q, r, x, pg),
         Sitio(pg) \notin Tomados(r), Tomados(q) = Tomados(r) \cup {Sitio(pg)}, q.perdidos \subseteq q.virtual_bitmap
  PROVE  EnLugar(r, q, X, x, pg) /\ EnTabla(q) = EnTabla(r) /\ MismasTablas(r, q)
<1>1. /\ q.tablas \in Tablas /\ EnTabla(q) = EnTabla(r) /\ Pag(q, x) = pg
      /\ \A p \in Patotas : Len(q.tablas[p]) = Len(r.tablas[p])
      /\ \A y \in EnTabla(r) : y # x => Pag(q, y) = Pag(r, y)
  BY UnaPaginaCambia
<1>2. Sitios(q)[x] = Sitio(pg) /\ \A y \in EnTabla(r) \ X : Sitios(q)[y] = Sitios(r)[y]
  BY <1>1 DEF Sitios
<1>3. EnTabla(q) \ (X \ {x}) = (EnTabla(r) \ X) \cup {x}
  BY <1>1
<1>4. UnoACadaUno((EnTabla(r) \ X) \cup {x}, Sitios(q), Tomados(r) \cup {Sitio(pg)})
  <2>1. x \notin EnTabla(r) \ X /\ UnoACadaUno(EnTabla(r) \ X, Sitios(r), Tomados(r))
    BY DEF Puestas
  <2> QED BY <1>2, <2>1, PonerUno, Zenon
<1>5. EnMarcos(q, X \ {x}) = IF pg.presence THEN EnMarcos(r, X) \cup {x} ELSE EnMarcos(r, X)
  BY <1>1 DEF EnMarcos
<1> QED BY <1>1, <1>3, <1>4, <1>5 DEF Puestas, MismasTablas, EnLugar

(* A page more, in a place of its own. *)
LEMMA Agregada ==
  ASSUME NEW r, r.tablas \in Tablas, NEW X, Puestas(r, X), NEW p \in Patotas,
         NEW x, x = <<p, Len(r.tablas[p]) + 1>>, x \notin X,
         NEW pg \in UnaPagina, NEW q, UnaMas(q, r, p, pg),
         Sitio(pg) \notin Tomados(r), Tomados(q) = Tomados(r) \cup {Sitio(pg)}, q.perdidos \subseteq q.virtual_bitmap
  PROVE  /\ EnLugar(r, q, X, x, pg) /\ EnTabla(q) = EnTabla(r) \cup {x} /\ x \notin EnTabla(r)
         /\ \A o \in Patotas : Len(q.tablas[o]) = IF o = p THEN Len(r.tablas[p]) + 1 ELSE Len(r.tablas[o])
<1>1. /\ q.tablas \in Tablas /\ EnTabla(q) = EnTabla(r) \cup {x} /\ x \notin EnTabla(r)
      /\ Pag(q, x) = pg /\ \A y \in EnTabla(r) : Pag(q, y) = Pag(r, y)
      /\ \A o \in Patotas : Len(q.tablas[o]) = IF o = p THEN Len(r.tablas[p]) + 1 ELSE Len(r.tablas[o])
  BY UnaPaginaMas
<1>2. Sitios(q)[x] = Sitio(pg) /\ \A y \in EnTabla(r) \ X : Sitios(q)[y] = Sitios(r)[y]
  BY <1>1 DEF Sitios
<1>3. EnTabla(q) \ X = (EnTabla(r) \ X) \cup {x}
  BY <1>1
<1>4. UnoACadaUno((EnTabla(r) \ X) \cup {x}, Sitios(q), Tomados(r) \cup {Sitio(pg)})
  <2> DEFINE Y == EnTabla(r) \ X
             f == Sitios(r)
             g == Sitios(q)
             T == Tomados(r)
             l == Sitio(pg)
  <2>1. /\ x \notin Y /\ UnoACadaUno(Y, f, T)
        /\ l \notin T /\ g[x] = l /\ \A y \in Y : g[y] = f[y]
    BY <1>1, <1>2 DEF Puestas
  <2> HIDE DEF Y, f, g, T, l
  <2>2. UnoACadaUno(Y \cup {x}, g, T \cup {l})
    BY <2>1, PonerUno
  <2> QED BY <2>2 DEF Y, f, g, T, l
<1>5. EnMarcos(q, X) = IF pg.presence THEN EnMarcos(r, X) \cup {x} ELSE EnMarcos(r, X)
  BY <1>1, <1>3 DEF EnMarcos
<1>6. X \ {x} = X
  OBVIOUS
<1> QED BY <1>1, <1>3, <1>4, <1>5, <1>6 DEF Puestas, EnLugar

(* How many places are taken, when one is given back or taken. *)
LEMMA CuentaDeLugares ==
  ASSUME NEW r, Entera(r)
  PROVE  /\ IsFiniteSet(r.bitmap) /\ IsFiniteSet(r.virtual_bitmap)
         /\ Cardinality(r.bitmap) \in Nat /\ Cardinality(r.virtual_bitmap) \in Nat /\ Ocupan(r) \in Nat
         /\ \A n : /\ Cardinality(r.bitmap \cup {n}) = Cardinality(r.bitmap) + (IF n \in r.bitmap THEN 0 ELSE 1)
                   /\ Cardinality(r.bitmap \ {n}) = Cardinality(r.bitmap) - (IF n \in r.bitmap THEN 1 ELSE 0)
                   /\ Cardinality(r.virtual_bitmap \cup {n})
                        = Cardinality(r.virtual_bitmap) + (IF n \in r.virtual_bitmap THEN 0 ELSE 1)
                   /\ Cardinality(r.virtual_bitmap \ {n})
                        = Cardinality(r.virtual_bitmap) - (IF n \in r.virtual_bitmap THEN 1 ELSE 0)
         /\ Cardinality(r.bitmap) <= Marcos /\ (Cardinality(r.bitmap) = Marcos => r.bitmap = 0..(Marcos - 1))
         /\ Cardinality(r.virtual_bitmap) <= MarcosVirtual
         /\ Cardinality(r.virtual_bitmap) = MarcosVirtual => r.virtual_bitmap = 0..(MarcosVirtual - 1)
         /\ r.bitmap = 0..(Marcos - 1) => Cardinality(r.bitmap) = Marcos
         /\ r.virtual_bitmap = 0..(MarcosVirtual - 1) => Cardinality(r.virtual_bitmap) = MarcosVirtual
<1>1. Marcos \in Nat /\ MarcosVirtual \in Nat
  BY PaginasOK
<1>2. /\ IsFiniteSet(0..(Marcos - 1)) /\ Cardinality(0..(Marcos - 1)) = Marcos
      /\ IsFiniteSet(0..(MarcosVirtual - 1)) /\ Cardinality(0..(MarcosVirtual - 1)) = MarcosVirtual
  <2>1. /\ IsFiniteSet(0..(Marcos - 1)) /\ Cardinality(0..(Marcos - 1)) = IF 0 > Marcos - 1 THEN 0 ELSE Marcos - 1 - 0 + 1
    BY <1>1, FS_Interval
  <2>2. /\ IsFiniteSet(0..(MarcosVirtual - 1))
        /\ Cardinality(0..(MarcosVirtual - 1)) = IF 0 > MarcosVirtual - 1 THEN 0 ELSE MarcosVirtual - 1 - 0 + 1
    BY <1>1, FS_Interval
  <2> QED BY <1>1, <2>1, <2>2
<1>3. r.bitmap \in SUBSET (0..(Marcos - 1)) /\ r.virtual_bitmap \in SUBSET (0..(MarcosVirtual - 1))
  BY DEF Entera
<1>4. /\ IsFiniteSet(r.bitmap) /\ Cardinality(r.bitmap) <= Marcos
      /\ Marcos = Cardinality(r.bitmap) => r.bitmap = 0..(Marcos - 1)
  <2>1. /\ IsFiniteSet(r.bitmap) /\ Cardinality(r.bitmap) <= Cardinality(0..(Marcos - 1))
        /\ Cardinality(0..(Marcos - 1)) = Cardinality(r.bitmap) => 0..(Marcos - 1) = r.bitmap
    BY <1>2, <1>3, FS_Subset
  <2> QED BY <1>2, <2>1
<1>5. /\ IsFiniteSet(r.virtual_bitmap) /\ Cardinality(r.virtual_bitmap) <= MarcosVirtual
      /\ MarcosVirtual = Cardinality(r.virtual_bitmap) => r.virtual_bitmap = 0..(MarcosVirtual - 1)
  <2>1. /\ IsFiniteSet(r.virtual_bitmap) /\ Cardinality(r.virtual_bitmap) <= Cardinality(0..(MarcosVirtual - 1))
        /\ Cardinality(0..(MarcosVirtual - 1)) = Cardinality(r.virtual_bitmap) => 0..(MarcosVirtual - 1) = r.virtual_bitmap
    BY <1>2, <1>3, FS_Subset
  <2> QED BY <1>2, <2>1
<1>6. Cardinality(r.bitmap) \in Nat /\ Cardinality(r.virtual_bitmap) \in Nat
  BY <1>4, <1>5, FS_CardinalityType
<1>7. ASSUME NEW n
      PROVE  /\ Cardinality(r.bitmap \cup {n}) = Cardinality(r.bitmap) + (IF n \in r.bitmap THEN 0 ELSE 1)
             /\ Cardinality(r.bitmap \ {n}) = Cardinality(r.bitmap) - (IF n \in r.bitmap THEN 1 ELSE 0)
             /\ Cardinality(r.virtual_bitmap \cup {n})
                  = Cardinality(r.virtual_bitmap) + (IF n \in r.virtual_bitmap THEN 0 ELSE 1)
             /\ Cardinality(r.virtual_bitmap \ {n})
                  = Cardinality(r.virtual_bitmap) - (IF n \in r.virtual_bitmap THEN 1 ELSE 0)
  <2>1. /\ Cardinality(r.bitmap \cup {n}) = IF n \in r.bitmap THEN Cardinality(r.bitmap) ELSE Cardinality(r.bitmap) + 1
        /\ Cardinality(r.bitmap \ {n}) = IF n \in r.bitmap THEN Cardinality(r.bitmap) - 1 ELSE Cardinality(r.bitmap)
    BY <1>4, FS_AddElement, FS_RemoveElement
  <2>2. /\ Cardinality(r.virtual_bitmap \cup {n})
             = IF n \in r.virtual_bitmap THEN Cardinality(r.virtual_bitmap) ELSE Cardinality(r.virtual_bitmap) + 1
        /\ Cardinality(r.virtual_bitmap \ {n})
             = IF n \in r.virtual_bitmap THEN Cardinality(r.virtual_bitmap) - 1 ELSE Cardinality(r.virtual_bitmap)
    BY <1>5, FS_AddElement, FS_RemoveElement
  <2> QED BY <1>6, <2>1, <2>2
<1>8. Ocupan(r) \in Nat
  BY <1>6 DEF Ocupan
<1> QED BY <1>2, <1>4, <1>5, <1>6, <1>7, <1>8

(* The taken places, from the bits. *)
LEMMA TomadosMarco ==
  ASSUME NEW r, Entera(r), NEW q, q.virtual_bitmap = r.virtual_bitmap, q.perdidos = r.perdidos, NEW n \in Nat
  PROVE  /\ q.bitmap = r.bitmap \ {n} => Tomados(q) = Tomados(r) \ {n}
         /\ q.bitmap = r.bitmap \cup {n} => Tomados(q) = Tomados(r) \cup {n}
         /\ n \in Tomados(r) <=> n \in r.bitmap
BY DEF Tomados, Entera

(* The same of the bits of the slots. *)
LEMMA TomadosSlot ==
  ASSUME NEW r, Entera(r), NEW q, q.bitmap = r.bitmap, q.perdidos = r.perdidos, NEW s \in Nat
  PROVE  /\ q.virtual_bitmap = r.virtual_bitmap \ {s} => Tomados(q) = Tomados(r) \ {-1 - s}
         /\ q.virtual_bitmap = r.virtual_bitmap \cup {s} /\ s \notin r.perdidos => Tomados(q) = Tomados(r) \cup {-1 - s}
         /\ -1 - s \in Tomados(r) <=> s \in r.virtual_bitmap \ r.perdidos
<1>1. /\ -1 - s \in Int /\ -1 - s < 0 /\ -1 - (-1 - s) = s /\ \A l \in Int : -1 - l = s <=> l = -1 - s
  OBVIOUS
<1>2. \A l \in r.bitmap : l \in Int /\ ~(l < 0)
  BY PaginasOK DEF Entera
<1> QED BY <1>1, <1>2 DEF Tomados

(* And when a slot taken is lost. *)
LEMMA TomadosPerdido ==
  ASSUME NEW r, Entera(r), NEW q, q.bitmap = r.bitmap, q.virtual_bitmap = r.virtual_bitmap, NEW s \in Nat,
         q.perdidos = r.perdidos \cup {s}
  PROVE  Tomados(q) = Tomados(r) \ {-1 - s}
<1>1. /\ -1 - s \in Int /\ -1 - s < 0 /\ -1 - (-1 - s) = s /\ \A l \in Int : -1 - l = s <=> l = -1 - s
  OBVIOUS
<1>2. \A l \in r.bitmap : l \in Int /\ ~(l < 0)
  BY PaginasOK DEF Entera
<1> QED BY <1>1, <1>2 DEF Tomados

(* The place of x is free, and x is among those that have none. *)
SinLugar(r, q, X, x) ==
  /\ Entera(q) /\ Puestas(q, X \cup {x}) /\ EnMarcos(q, X \cup {x}) = EnMarcos(r, X) \ {x}
  /\ q.tablas = r.tablas /\ q.uso = r.uso /\ Ajenos(r, q) /\ Ocupan(q) = Ocupan(r) - 1

(* The frame of a page is freed. *)
LEMMA LiberarMarcoBien ==
  ASSUME NEW r, NEW X, Entera(r), Puestas(r, X), NEW x \in EnTabla(r), x \notin X, Pag(r, x).presence,
         NEW q, q = LiberarMarco(r, Pag(r, x).number)
  PROVE  /\ SinLugar(r, q, X, x)
         /\ q.bitmap = r.bitmap \ {Pag(r, x).number} /\ q.virtual_bitmap = r.virtual_bitmap
         /\ Pag(r, x).number \in r.bitmap
<1> DEFINE n == Pag(r, x).number
           mem == [r.mem EXCEPT ![n] = PaginaVacia]
<1>1. n \in Nat /\ Sitios(r)[x] = n /\ r.tablas \in Tablas
  BY SitioDe DEF Entera
<1>2. n \in r.bitmap /\ n \in 0..(Marcos - 1)
  BY <1>1, TomadosMarco DEF Puestas, UnoACadaUno, Entera
<1> HIDE DEF n
<1>3. Campos(q, mem, r.bitmap \ {n}, r.virtual, r.virtual_bitmap, r.tablas, r.uso, r.clock_key, r)
  BY DEF LiberarMarco, Entera, Campos, n
<1>4. mem = [i \in 0..(Marcos - 1) |-> mem[i]] /\ \A i \in 0..(Marcos - 1) : Hoja(mem[i])
  <2>1. Hoja(PaginaVacia)
    BY DEF Hoja, PaginaVacia
  <2>2. r.mem = [i \in 0..(Marcos - 1) |-> r.mem[i]] /\ \A i \in 0..(Marcos - 1) : Hoja(r.mem[i])
    BY DEF Entera
  <2> QED BY <2>1, <2>2
<1> HIDE DEF mem
<1>5. /\ q.mem = mem /\ q.bitmap = r.bitmap \ {n} /\ q.virtual = r.virtual /\ q.virtual_bitmap = r.virtual_bitmap
      /\ q.tablas = r.tablas /\ q.uso = r.uso /\ q.clock_key = r.clock_key /\ Ajenos(r, q)
      /\ Campos(q, q.mem, q.bitmap, q.virtual, q.virtual_bitmap, q.tablas, q.uso, q.clock_key, q)
  BY <1>3, CamposEnteros
<1>6. Entera(q)
  BY <1>4, <1>5 DEF Entera
<1>7. Puestas(q, X \cup {x}) /\ EnMarcos(q, X \cup {x}) = EnMarcos(r, X) \ {x}
  <2>1. Tomados(q) = Tomados(r) \ {Sitios(r)[x]}
    BY <1>1, <1>5, TomadosMarco DEF Ajenos
  <2>2. q.perdidos \subseteq q.virtual_bitmap
    BY <1>5 DEF Ajenos, Puestas
  <2>3. q.tablas = r.tablas
    BY <1>5
  <2> QED BY <2>1, <2>2, <2>3, Sacada
<1>8. Ocupan(q) = Ocupan(r) - 1
  <2>1. IsFiniteSet(r.bitmap) /\ Cardinality(r.bitmap) \in Nat /\ Cardinality(r.virtual_bitmap) \in Nat
    BY CuentaDeLugares
  <2>2. Cardinality(r.bitmap \ {n}) = Cardinality(r.bitmap) - 1
    BY <1>2, <2>1, FS_RemoveElement
  <2> QED BY <1>5, <2>1, <2>2 DEF Ocupan
<1> QED BY <1>2, <1>5, <1>6, <1>7, <1>8 DEF n, SinLugar

(* The slot of a page is freed. *)
LEMMA LiberarSlotBien ==
  ASSUME NEW r, NEW X, Entera(r), Puestas(r, X), NEW x \in EnTabla(r), x \notin X, ~Pag(r, x).presence,
         NEW q, q = LiberarSlot(r, x)
  PROVE  /\ SinLugar(r, q, X, x)
         /\ q.virtual_bitmap = r.virtual_bitmap \ {Pag(r, x).number} /\ q.bitmap = r.bitmap
         /\ Pag(r, x).number \in r.virtual_bitmap \ r.perdidos
         /\ Hoja(r.virtual[Pag(r, x).number])
<1> DEFINE n == Pag(r, x).number
           virtual == [r.virtual EXCEPT ![n] = PaginaVacia]
<1>1. n \in Nat /\ Sitios(r)[x] = -1 - n /\ r.tablas \in Tablas
  BY SitioDe DEF Entera
<1>2. n \in r.virtual_bitmap \ r.perdidos /\ n \in 0..(MarcosVirtual - 1)
  BY <1>1, TomadosSlot DEF Puestas, UnoACadaUno, Entera
<1> HIDE DEF n
<1>3. Campos(q, r.mem, r.bitmap, virtual, r.virtual_bitmap \ {n}, r.tablas, r.uso, r.clock_key, r)
  BY DEF LiberarSlot, Entera, Campos, n
<1>4. /\ virtual = [i \in 0..(MarcosVirtual - 1) |-> virtual[i]]
      /\ \A i \in 0..(MarcosVirtual - 1) : Hoja(virtual[i])
  <2>1. Hoja(PaginaVacia)
    BY DEF Hoja, PaginaVacia
  <2>2. r.virtual = [i \in 0..(MarcosVirtual - 1) |-> r.virtual[i]] /\ \A i \in 0..(MarcosVirtual - 1) : Hoja(r.virtual[i])
    BY DEF Entera
  <2> QED BY <2>1, <2>2
<1> HIDE DEF virtual
<1>5. /\ q.mem = r.mem /\ q.bitmap = r.bitmap /\ q.virtual = virtual /\ q.virtual_bitmap = r.virtual_bitmap \ {n}
      /\ q.tablas = r.tablas /\ q.uso = r.uso /\ q.clock_key = r.clock_key /\ Ajenos(r, q)
      /\ Campos(q, q.mem, q.bitmap, q.virtual, q.virtual_bitmap, q.tablas, q.uso, q.clock_key, q)
  BY <1>3, CamposEnteros
<1>6. Entera(q) /\ Hoja(r.virtual[n])
  BY <1>2, <1>4, <1>5 DEF Entera
<1>7. Puestas(q, X \cup {x}) /\ EnMarcos(q, X \cup {x}) = EnMarcos(r, X) \ {x}
  <2>1. Tomados(q) = Tomados(r) \ {Sitios(r)[x]}
    BY <1>1, <1>5, TomadosSlot DEF Ajenos
  <2>2. q.perdidos \subseteq q.virtual_bitmap
    BY <1>2, <1>5 DEF Ajenos, Puestas
  <2> QED BY <1>5, <2>1, <2>2, Sacada
<1>8. Ocupan(q) = Ocupan(r) - 1
  <2>1. IsFiniteSet(r.virtual_bitmap) /\ Cardinality(r.bitmap) \in Nat /\ Cardinality(r.virtual_bitmap) \in Nat
    BY CuentaDeLugares
  <2>2. Cardinality(r.virtual_bitmap \ {n}) = Cardinality(r.virtual_bitmap) - 1
    BY <1>2, <2>1, FS_RemoveElement
  <2> QED BY <1>5, <2>1, <2>2 DEF Ocupan
<1> QED BY <1>2, <1>5, <1>6, <1>7, <1>8 DEF n, SinLugar

(* A page is forgotten by the replacement. *)
LEMMA OlvidarBien ==
  ASSUME NEW r, Entera(r), NEW P, Usadas(r, P), NEW x, NEW q, q = Olvidar(r, x)
  PROVE  /\ Entera(q) /\ Usadas(q, P \ {x}) /\ q.tablas = r.tablas /\ Ajenos(r, q) /\ MismosMapas(r, q)
         /\ q.mem = r.mem /\ q.virtual = r.virtual /\ q.clock_key = r.clock_key
<1>1. PICK u : u = RemoveFirst(r.uso, x)
  OBVIOUS
<1>2. u \in Seq(Lugares) /\ IsInjective(u) /\ ToSet(u) = ToSet(r.uso) \ {x}
  BY <1>1, QuitarUno DEF Entera, Usadas
<1>3. Campos(q, r.mem, r.bitmap, r.virtual, r.virtual_bitmap, r.tablas, u, r.clock_key, r)
  <2>1. q = [r EXCEPT !.uso = u]
    BY <1>1 DEF Olvidar, Entera, Campos
  <2> QED BY <2>1 DEF Entera, Campos
<1>4. /\ q.mem = r.mem /\ q.bitmap = r.bitmap /\ q.virtual = r.virtual /\ q.virtual_bitmap = r.virtual_bitmap
      /\ q.tablas = r.tablas /\ q.uso = u /\ q.clock_key = r.clock_key /\ Ajenos(r, q)
      /\ Campos(q, q.mem, q.bitmap, q.virtual, q.virtual_bitmap, q.tablas, q.uso, q.clock_key, q)
  BY <1>3, CamposEnteros
<1>5. Entera(q)
  BY <1>2, <1>4 DEF Entera
<1>6. Usadas(q, P \ {x})
  BY <1>2, <1>4 DEF Usadas
<1> QED BY <1>4, <1>5, <1>6 DEF MismosMapas

(* Where only what is not the tables nor the bits changes, places stay. *)
LEMMA MismoReparto ==
  ASSUME NEW r, NEW q, q.tablas = r.tablas, Ajenos(r, q), MismosMapas(r, q), NEW X
  PROVE  /\ EnTabla(q) = EnTabla(r) /\ MismasTablas(r, q) /\ \A y : Pag(q, y) = Pag(r, y)
         /\ Puestas(r, X) <=> Puestas(q, X)
         /\ EnMarcos(q, X) = EnMarcos(r, X) /\ Ocupan(q) = Ocupan(r)
<1>1. EnTabla(q) = EnTabla(r) /\ MismasTablas(r, q) /\ \A y : Pag(q, y) = Pag(r, y)
  BY DEF EnTabla, MismasTablas, Pag
<1>2. Sitios(q) = Sitios(r)
  BY <1>1 DEF Sitios
<1>3. Tomados(q) = Tomados(r)
  BY DEF Tomados, MismosMapas, Ajenos
<1> QED BY <1>1, <1>2, <1>3 DEF Puestas, EnMarcos, Ocupan, MismosMapas, Ajenos

(* A page given back has no place, and nothing else moved. *)
LEMMA SoltarBien ==
  ASSUME NEW r, NEW X, BienPuestas(r, X), NEW x \in EnTabla(r), x \notin X, NEW q, q = Soltar(r, x)
  PROVE  /\ BienPuestas(q, X \cup {x}) /\ q.tablas = r.tablas /\ Ajenos(r, q)
         /\ Ocupan(q) = Ocupan(r) - 1
         /\ Pag(r, x).presence => q.bitmap = r.bitmap \ {Pag(r, x).number} /\ Pag(r, x).number \in 0..(Marcos - 1)
         /\ ~Pag(r, x).presence => q.bitmap = r.bitmap
<1> DEFINE w == IF Pag(r, x).presence THEN LiberarMarco(r, Pag(r, x).number) ELSE LiberarSlot(r, x)
<1>1. PICK v : v = w
  OBVIOUS
<1>2. q = Olvidar(v, x)
  BY <1>1 DEF Soltar
<1>3. /\ SinLugar(r, v, X, x)
      /\ Pag(r, x).presence => v.bitmap = r.bitmap \ {Pag(r, x).number} /\ Pag(r, x).number \in r.bitmap
      /\ ~Pag(r, x).presence => v.bitmap = r.bitmap
  <2>1. CASE Pag(r, x).presence
    <3>1. v = LiberarMarco(r, Pag(r, x).number) /\ Entera(r) /\ Puestas(r, X)
      BY <1>1, <2>1 DEF BienPuestas
    <3> QED BY <2>1, <3>1, LiberarMarcoBien
  <2>2. CASE ~Pag(r, x).presence
    <3>1. v = LiberarSlot(r, x) /\ Entera(r) /\ Puestas(r, X)
      BY <1>1, <2>2 DEF BienPuestas
    <3> QED BY <2>2, <3>1, LiberarSlotBien
  <2> QED BY <2>1, <2>2
<1>4. Usadas(v, EnMarcos(r, X))
  BY <1>3 DEF BienPuestas, Usadas, SinLugar
<1>5. /\ Entera(q) /\ Usadas(q, EnMarcos(r, X) \ {x}) /\ q.tablas = v.tablas /\ Ajenos(v, q) /\ MismosMapas(v, q)
  BY <1>2, <1>3, <1>4, OlvidarBien DEF SinLugar
<1>6. /\ Puestas(q, X \cup {x}) /\ EnMarcos(q, X \cup {x}) = EnMarcos(v, X \cup {x}) /\ Ocupan(q) = Ocupan(v)
  BY <1>3, <1>5, MismoReparto DEF SinLugar
<1>7. Ajenos(r, q) /\ q.bitmap = v.bitmap
  BY <1>3, <1>5 DEF Ajenos, MismosMapas, SinLugar
<1> QED BY <1>3, <1>5, <1>6, <1>7 DEF BienPuestas, Entera, SinLugar

(* A frame is free, and as many places are taken as before. *)
DaMarco(r, q, X, n) ==
  /\ BienPuestas(q, X) /\ MismasTablas(r, q) /\ Ajenos(r, q) /\ Ocupan(q) = Ocupan(r)
  /\ Quietas(r, q, X) /\ n \in 0..(Marcos - 1) /\ n \notin q.bitmap

(* The victim goes to swap, and its frame is free. *)
LEMMA DesalojarBien ==
  ASSUME NEW r, NEW X, BienPuestas(r, X), NEW x \in EnMarcos(r, X), r.virtual_bitmap # 0..(MarcosVirtual - 1),
         NEW q, q = Olvidar(Desalojar(r, x), x)
  PROVE  DaMarco(r, q, X, Pag(r, x).number)
<1> DEFINE n == Pag(r, x).number
           s == Min((0..(MarcosVirtual - 1)) \ r.virtual_bitmap)
           pg == Pagina(s, FALSE)
           virtual == [r.virtual EXCEPT ![s] = r.mem[n]]
           mem == [r.mem EXCEPT ![n] = PaginaVacia]
           t == [r.tablas EXCEPT ![x[1]] = [r.tablas[x[1]] EXCEPT ![x[2]] = pg]]
<1>1. /\ x \in EnTabla(r) /\ x \notin X /\ Pag(r, x).presence /\ Entera(r) /\ Puestas(r, X) /\ r.tablas \in Tablas
  BY DEF EnMarcos, BienPuestas, Entera
<1>2. /\ x = <<x[1], x[2]>> /\ x[1] \in Patotas /\ x[2] \in 1..Len(r.tablas[x[1]])
  BY <1>1, EnTablaEs
<1>3. s \in 0..(MarcosVirtual - 1) /\ s \notin r.virtual_bitmap /\ s \in Nat
  <2>1. (0..(MarcosVirtual - 1)) \ r.virtual_bitmap # {} /\ (0..(MarcosVirtual - 1)) \ r.virtual_bitmap \subseteq Nat
    <3>1. r.virtual_bitmap \subseteq 0..(MarcosVirtual - 1) /\ MarcosVirtual \in Nat
      BY <1>1, PaginasOK DEF Entera
    <3>2. (0..(MarcosVirtual - 1)) \ r.virtual_bitmap # {}
      BY <3>1, Zenon
    <3>3. \A i \in 0..(MarcosVirtual - 1) : i \in Nat
      BY <3>1
    <3> QED BY <3>2, <3>3
  <2>2. s \in (0..(MarcosVirtual - 1)) \ r.virtual_bitmap
    BY <2>1, MinimoEn
  <2> QED BY <2>2
<1>4. pg \in UnaPagina /\ pg.presence = FALSE /\ pg.number = s /\ Sitio(pg) = -1 - s
  <2> HIDE DEF s
  <2> QED BY <1>3 DEF Pagina, UnaPagina, Sitio
<1> HIDE DEF s
<1>5. PICK w : w = LiberarMarco(r, n)
  OBVIOUS
<1>6. /\ SinLugar(r, w, X, x) /\ w.bitmap = r.bitmap \ {n} /\ w.virtual_bitmap = r.virtual_bitmap /\ n \in r.bitmap
  BY <1>1, <1>5, LiberarMarcoBien
<1>7. n \in 0..(Marcos - 1)
  BY <1>1, <1>6 DEF Entera
<1>8. PICK z : z = Desalojar(r, x)
  OBVIOUS
<1>9. Campos(z, mem, r.bitmap \ {n}, virtual, r.virtual_bitmap \cup {s}, t, r.uso, r.clock_key, r)
  <2>1. z = [r EXCEPT !.virtual[s] = r.mem[n], !.virtual_bitmap = @ \cup {s}, !.mem[n] = PaginaVacia,
                      !.bitmap = @ \ {n}, !.tablas[x[1]][x[2]] = pg]
    BY <1>8 DEF Desalojar, s
  <2>2. z = [r EXCEPT !.virtual = virtual, !.virtual_bitmap = @ \cup {s}, !.mem = mem,
                      !.bitmap = @ \ {n}, !.tablas = t]
    <3> HIDE DEF n, pg
    <3> QED BY <1>1, <2>1 DEF Entera, Campos
  <2> HIDE DEF virtual, mem, t, n
  <2> QED BY <1>1, <2>2 DEF Entera, Campos
<1>10. /\ mem = [i \in 0..(Marcos - 1) |-> mem[i]] /\ \A i \in 0..(Marcos - 1) : Hoja(mem[i])
       /\ virtual = [i \in 0..(MarcosVirtual - 1) |-> virtual[i]]
       /\ \A i \in 0..(MarcosVirtual - 1) : Hoja(virtual[i])
  <2>1. Hoja(PaginaVacia)
    BY DEF Hoja, PaginaVacia
  <2>2. /\ r.mem = [i \in 0..(Marcos - 1) |-> r.mem[i]] /\ \A i \in 0..(Marcos - 1) : Hoja(r.mem[i])
        /\ r.virtual = [i \in 0..(MarcosVirtual - 1) |-> r.virtual[i]]
        /\ \A i \in 0..(MarcosVirtual - 1) : Hoja(r.virtual[i])
    BY <1>1 DEF Entera
  <2> HIDE DEF n
  <2> QED BY <1>7, <2>1, <2>2
<1>11. t = [r.tablas EXCEPT ![x[1]] = [@ EXCEPT ![x[2]] = pg]]
  OBVIOUS
<1> HIDE DEF virtual, mem, t, n, pg
<1>12. /\ z.mem = mem /\ z.bitmap = r.bitmap \ {n} /\ z.virtual = virtual /\ z.virtual_bitmap = r.virtual_bitmap \cup {s}
       /\ z.tablas = t /\ z.uso = r.uso /\ z.clock_key = r.clock_key /\ Ajenos(r, z)
       /\ Campos(z, z.mem, z.bitmap, z.virtual, z.virtual_bitmap, z.tablas, z.uso, z.clock_key, z)
  BY <1>9, CamposEnteros
<1>13. /\ Entera(w) /\ w.tablas = r.tablas /\ w.perdidos = r.perdidos /\ EnTabla(w) = EnTabla(r)
       /\ (\A y : Pag(w, y) = Pag(r, y)) /\ w.tablas \in Tablas /\ Puestas(w, X \cup {x})
       /\ EnMarcos(w, X \cup {x}) = EnMarcos(r, X) \ {x}
  <2>1. /\ Entera(w) /\ w.tablas = r.tablas /\ w.perdidos = r.perdidos
        /\ Puestas(w, X \cup {x}) /\ EnMarcos(w, X \cup {x}) = EnMarcos(r, X) \ {x}
    BY <1>6 DEF SinLugar, Ajenos
  <2>2. EnTabla(w) = EnTabla(r) /\ \A y : Pag(w, y) = Pag(r, y)
    BY <2>1 DEF EnTabla, Pag
  <2> QED BY <1>1, <2>1, <2>2
<1>14. /\ UnaCambia(z, w, x, pg) /\ Tomados(z) = Tomados(w) \cup {Sitio(pg)} /\ Sitio(pg) \notin Tomados(w)
       /\ z.perdidos \subseteq z.virtual_bitmap
  <2>1. UnaCambia(z, w, x, pg)
    BY <1>11, <1>12, <1>13 DEF UnaCambia
  <2>2. s \notin w.perdidos /\ s \notin w.virtual_bitmap /\ z.perdidos \subseteq z.virtual_bitmap
    BY <1>1, <1>3, <1>6, <1>12, <1>13 DEF Puestas, Ajenos
  <2>3. z.bitmap = w.bitmap /\ z.perdidos = w.perdidos /\ z.virtual_bitmap = w.virtual_bitmap \cup {s}
    BY <1>6, <1>12, <1>13 DEF Ajenos
  <2>4. Tomados(z) = Tomados(w) \cup {-1 - s}
    BY <1>3, <1>13, <2>2, <2>3, TomadosSlot
  <2>5. -1 - s \notin Tomados(w)
    BY <1>3, <1>13, <2>2, <2>3, TomadosSlot
  <2> QED BY <1>4, <2>1, <2>2, <2>4, <2>5
<1>15. EnLugar(w, z, X \cup {x}, x, pg) /\ EnTabla(z) = EnTabla(w) /\ MismasTablas(w, z)
  <2>1. PICK Y : Y = X \cup {x}
    OBVIOUS
  <2>2. x \in EnTabla(w) /\ x \in Y /\ Puestas(w, Y) /\ w.tablas \in Tablas /\ pg \in UnaPagina
    BY <1>1, <1>4, <1>13, <2>1
  <2>3. EnLugar(w, z, Y, x, pg) /\ EnTabla(z) = EnTabla(w) /\ MismasTablas(w, z)
    BY <1>14, <2>2, Devuelta
  <2> QED BY <2>1, <2>3
<1>16. (X \cup {x}) \ {x} = X
  BY <1>1
<1>17. /\ Puestas(z, X) /\ EnMarcos(z, X) = EnMarcos(r, X) \ {x}
       /\ MismasTablas(r, z) /\ \A y \in EnTabla(r) : y \in X => Pag(z, y) = Pag(r, y)
  <2>1. Puestas(z, X) /\ EnMarcos(z, X) = EnMarcos(r, X) \ {x}
    BY <1>4, <1>13, <1>15, <1>16 DEF EnLugar
  <2>2. MismasTablas(r, z)
    BY <1>13, <1>15 DEF MismasTablas
  <2>3. \A y \in EnTabla(r) : y \in X => Pag(z, y) = Pag(r, y)
    BY <1>1, <1>13, <1>15 DEF EnLugar
  <2> QED BY <2>1, <2>2, <2>3
<1>18. Entera(z)
  BY <1>1, <1>3, <1>10, <1>12, <1>15 DEF Entera, EnLugar
<1>19. Ocupan(z) = Ocupan(r)
  <2>1. IsFiniteSet(r.bitmap) /\ IsFiniteSet(r.virtual_bitmap) /\ Cardinality(r.bitmap) \in Nat /\ Cardinality(r.virtual_bitmap) \in Nat
    BY <1>1, CuentaDeLugares
  <2>2. Cardinality(r.bitmap \ {n}) = Cardinality(r.bitmap) - 1
    BY <1>6, <2>1, FS_RemoveElement
  <2>3. Cardinality(r.virtual_bitmap \cup {s}) = Cardinality(r.virtual_bitmap) + 1
    BY <1>3, <2>1, FS_AddElement
  <2> QED BY <1>12, <2>1, <2>2, <2>3 DEF Ocupan
<1>20. q = Olvidar(z, x)
  BY <1>8
<1>21. Usadas(z, EnMarcos(r, X))
  BY <1>12 DEF BienPuestas, Usadas
<1>22. /\ Entera(q) /\ Usadas(q, EnMarcos(r, X) \ {x}) /\ q.tablas = z.tablas /\ Ajenos(z, q) /\ MismosMapas(z, q)
  BY <1>18, <1>20, <1>21, OlvidarBien
<1>23. /\ Puestas(q, X) /\ EnMarcos(q, X) = EnMarcos(z, X) /\ Ocupan(q) = Ocupan(z) /\ MismasTablas(z, q)
       /\ \A y : Pag(q, y) = Pag(z, y)
  BY <1>17, <1>22, MismoReparto
<1>24. BienPuestas(q, X)
  BY <1>17, <1>22, <1>23 DEF BienPuestas
<1>25. MismasTablas(r, q) /\ Ajenos(r, q) /\ n \notin q.bitmap /\ Quietas(r, q, X)
  BY <1>12, <1>17, <1>22, <1>23 DEF MismasTablas, Ajenos, MismosMapas, Quietas
<1> QED BY <1>7, <1>19, <1>23, <1>24, <1>25 DEF DaMarco, n

-----------------------------------------------------------------------------
(* The clock *)

(* What holds first and after each one, holds up to the last. *)
LEMMA PorPasos ==
  ASSUME NEW n \in Nat, NEW G, 0 \in G, \A k \in 0..(n - 1) : k \in G => k + 1 \in G
  PROVE  \A k \in 0..n : k \in G
<1> DEFINE malos == {k \in 0..n : k \notin G}
<1> SUFFICES ASSUME malos # {} PROVE FALSE
  OBVIOUS
<1>1. PICK m \in malos : \A j \in malos : m <= j
  <2>1. malos \subseteq Nat
    OBVIOUS
  <2> HIDE DEF malos
  <2> QED BY <2>1, MinimoNat
<1>2. m - 1 \in 0..(n - 1) /\ m - 1 + 1 = m /\ m - 1 \in 0..n /\ ~(m <= m - 1)
  OBVIOUS
<1> QED BY <1>1, <1>2

(* The dictionary puts the pages in a line. *)
LEMMA AntesOrdena ==
  ASSUME NEW x \in Lugares, NEW y \in Lugares, NEW z \in Lugares
  PROVE  /\ ~Antes(x, x) /\ (Antes(x, y) /\ Antes(y, z) => Antes(x, z))
         /\ x = y \/ Antes(x, y) \/ Antes(y, x)
<1>1. /\ x = <<x[1], x[2]>> /\ y = <<y[1], y[2]>> /\ z = <<z[1], z[2]>>
      /\ x[1] \in Patotas /\ y[1] \in Patotas /\ z[1] \in Patotas
      /\ x[2] \in Nat /\ y[2] \in Nat /\ z[2] \in Nat
  BY DEF Lugares
<1>2. x[1] \in Nat /\ y[1] \in Nat /\ z[1] \in Nat
  BY <1>1, PatotasOK
<1>3. Balde[x[1]] \in Nat /\ Balde[y[1]] \in Nat /\ Balde[z[1]] \in Nat
  BY <1>1, PaginasOK
<1>4. ~Antes(x, x)
  BY <1>1, <1>2, <1>3 DEF Antes
<1>5. Antes(x, y) /\ Antes(y, z) => Antes(x, z)
  BY <1>1, <1>2, <1>3 DEF Antes
<1>6. x = y \/ Antes(x, y) \/ Antes(y, x)
  BY <1>1, <1>2, <1>3 DEF Antes
<1> QED BY <1>4, <1>5, <1>6

(* In that line, each page has more before it than those before it have. *)
LEMMA AnterioresReloj ==
  ASSUME NEW S, S \subseteq Lugares, IsFiniteSet(S), NEW x \in S
  PROVE  /\ Cardinality({y \in S : Antes(y, x)}) \in Nat /\ Cardinality({y \in S : Antes(y, x)}) < Cardinality(S)
         /\ \A z \in S : z # x => Cardinality({y \in S : Antes(y, x)}) # Cardinality({y \in S : Antes(y, z)})
<1> DEFINE Anteriores(z) == {y \in S : Antes(y, z)}
<1>1. ASSUME NEW z \in S
      PROVE  /\ IsFiniteSet(Anteriores(z)) /\ Cardinality(Anteriores(z)) \in Nat
             /\ Cardinality(Anteriores(z)) < Cardinality(S)
  <2>1. Anteriores(z) \in SUBSET S /\ z \notin Anteriores(z)
    BY AntesOrdena
  <2>2. IsFiniteSet(Anteriores(z)) /\ Cardinality(Anteriores(z)) <= Cardinality(S)
        /\ (Cardinality(S) = Cardinality(Anteriores(z)) => S = Anteriores(z))
    BY <2>1, FS_Subset
  <2>3. Cardinality(Anteriores(z)) \in Nat /\ Cardinality(S) \in Nat /\ S # Anteriores(z)
    BY <2>1, <2>2, FS_CardinalityType
  <2> HIDE DEF Anteriores
  <2> QED BY <2>2, <2>3
<1>2. ASSUME NEW z \in S, NEW w \in S, Antes(w, z)
      PROVE  Cardinality(Anteriores(w)) # Cardinality(Anteriores(z))
  <2>1. Anteriores(w) \in SUBSET Anteriores(z)
    <3> SUFFICES ASSUME NEW y \in S, Antes(y, w) PROVE Antes(y, z)
      OBVIOUS
    <3> QED BY <1>2, AntesOrdena
  <2>2. w \in Anteriores(z) /\ w \notin Anteriores(w)
    BY <1>2, AntesOrdena
  <2>3. Cardinality(Anteriores(z)) = Cardinality(Anteriores(w)) => Anteriores(z) = Anteriores(w)
    BY <1>1, <2>1, FS_Subset
  <2> HIDE DEF Anteriores
  <2> QED BY <2>2, <2>3
<1>3. ASSUME NEW z \in S, z # x PROVE Cardinality(Anteriores(x)) # Cardinality(Anteriores(z))
  <2>1. Antes(x, z) \/ Antes(z, x)
    BY <1>3, AntesOrdena
  <2> HIDE DEF Anteriores
  <2> QED BY <1>2, <1>3, <2>1
<1> QED BY <1>1, <1>3

(* So each of them has its number in the line. *)
LEMMA OrdenadasEstan ==
  ASSUME NEW S, S \subseteq Lugares, IsFiniteSet(S)
  PROVE  Ordenadas(S) \in Seq(S) /\ Len(Ordenadas(S)) = Cardinality(S)
<1> DEFINE n == Cardinality(S)
           cuantas(x) == Cardinality({y \in S : Antes(y, x)})
           f == [x \in S |-> cuantas(x)]
<1>1. n \in Nat
  BY FS_CardinalityType
<1>2. \A x \in S : cuantas(x) \in Nat /\ cuantas(x) < n /\ \A z \in S : z # x => cuantas(x) # cuantas(z)
  BY AnterioresReloj
<1> HIDE DEF cuantas, n
<1>3. f \in Injection(S, 0..(n - 1))
  BY <1>1, <1>2 DEF Injection, IsInjective
<1>4. IsFiniteSet(0..(n - 1)) /\ Cardinality(0..(n - 1)) = n
  <2>1. IsFiniteSet(0..(n - 1)) /\ Cardinality(0..(n - 1)) = IF 0 > n - 1 THEN 0 ELSE n - 1 - 0 + 1
    BY <1>1, FS_Interval
  <2> QED BY <1>1, <2>1
<1>5. f \in Surjection(S, 0..(n - 1))
  <2>1. Cardinality(S) = n
    BY DEF n
  <2> QED BY <1>3, <1>4, <2>1, FS_Injection
<1>6. \A i \in 1..n : \E x \in S : cuantas(x) = i - 1
  <2> SUFFICES ASSUME NEW i \in 1..n PROVE \E x \in S : cuantas(x) = i - 1
    OBVIOUS
  <2>1. i - 1 \in 0..(n - 1)
    BY <1>1
  <2>2. \E x \in S : f[x] = i - 1
    BY <1>5, <2>1 DEF Surjection
  <2> QED BY <2>2
<1>7. Ordenadas(S) = [i \in 1..n |-> CHOOSE x \in S : cuantas(x) = i - 1]
  BY DEF Ordenadas, n, cuantas
<1>8. Ordenadas(S) \in [1..n -> S]
  BY <1>6, <1>7
<1> QED BY <1>1, <1>8, FuncionEsSucesion DEF n

(* The pages present are as many as the frames taken, each in its own. *)
LEMMA PresentesContadas ==
  ASSUME NEW r, NEW X, Entera(r), Puestas(r, X)
  PROVE  /\ IsFiniteSet(EnMarcos(r, X)) /\ Cardinality(EnMarcos(r, X)) = Cardinality(r.bitmap)
         /\ EnMarcos(r, X) \subseteq Lugares /\ r.bitmap = {Pag(r, y).number : y \in EnMarcos(r, X)}
<1> DEFINE Y == EnMarcos(r, X)
           f == [y \in Y |-> Pag(r, y).number]
<1>1. r.tablas \in Tablas /\ r.bitmap \subseteq Nat
  BY DEF Entera
<1>2. ASSUME NEW y \in Y
      PROVE  y \in EnTabla(r) \ X /\ y \in Lugares /\ Sitios(r)[y] = Pag(r, y).number /\ Pag(r, y).number \in r.bitmap
  <2>1. y \in EnTabla(r) /\ y \notin X /\ Pag(r, y).presence
    BY DEF EnMarcos
  <2>2. Sitios(r)[y] = Pag(r, y).number /\ Pag(r, y).number \in Nat /\ y \in Lugares
    BY <1>1, <2>1, SitioDe, EnTablaEs
  <2>3. Sitios(r)[y] \in Tomados(r)
    BY <2>1 DEF Puestas, UnoACadaUno
  <2> QED BY <2>1, <2>2, <2>3 DEF Tomados
<1>3. ASSUME NEW n \in r.bitmap PROVE \E y \in Y : Pag(r, y).number = n
  <2>1. n \in Nat /\ n \in Tomados(r)
    BY <1>1 DEF Tomados
  <2>2. PICK y \in EnTabla(r) \ X : Sitios(r)[y] = n
    BY <2>1 DEF Puestas, UnoACadaUno
  <2>3. Pag(r, y).presence /\ Pag(r, y).number = n
    BY <1>1, <2>1, <2>2, SitioDe
  <2> QED BY <2>2, <2>3 DEF EnMarcos
<1>4. \A y, z \in Y : Pag(r, y).number = Pag(r, z).number => y = z
  BY <1>2 DEF Puestas, UnoACadaUno
<1> HIDE DEF Y
<1>5. f \in Injection(Y, r.bitmap) /\ f \in Surjection(Y, r.bitmap)
  <2>1. f \in [Y -> r.bitmap]
    BY <1>2
  <2>2. \A y, z \in Y : f[y] = f[z] => y = z
    BY <1>4
  <2>3. \A n \in r.bitmap : \E y \in Y : f[y] = n
    BY <1>3
  <2> HIDE DEF f
  <2> QED BY <2>1, <2>2, <2>3 DEF Injection, Surjection, IsInjective
<1>6. IsFiniteSet(r.bitmap)
  BY CuentaDeLugares
<1>7. IsFiniteSet(Y) /\ Cardinality(Y) = Cardinality(r.bitmap)
  BY <1>5, <1>6, FS_Injection
<1>8. r.bitmap = {Pag(r, y).number : y \in Y}
  BY <1>2, <1>3
<1>9. Y \subseteq Lugares
  BY <1>2
<1> QED BY <1>7, <1>8, <1>9 DEF Y

(* And those in swap as the slots taken, but for the lost ones. *)
EnSwap(r, X) == {y \in EnTabla(r) \ X : ~Pag(r, y).presence}
LEMMA AusentesContadas ==
  ASSUME NEW r, NEW X, Entera(r), Puestas(r, X)
  PROVE  /\ IsFiniteSet(EnSwap(r, X)) /\ Cardinality(EnSwap(r, X)) = Cardinality(r.virtual_bitmap \ r.perdidos)
         /\ r.virtual_bitmap \ r.perdidos = {Pag(r, y).number : y \in EnSwap(r, X)}
<1> DEFINE Y == EnSwap(r, X)
           T == r.virtual_bitmap \ r.perdidos
           f == [y \in Y |-> Pag(r, y).number]
<1>1. r.tablas \in Tablas /\ r.bitmap \subseteq Nat /\ T \subseteq Nat
  BY DEF Entera
<1>2. ASSUME NEW y \in Y
      PROVE  y \in EnTabla(r) \ X /\ Sitios(r)[y] = -1 - Pag(r, y).number /\ Pag(r, y).number \in T /\ Pag(r, y).number \in Nat
  <2>1. y \in EnTabla(r) /\ y \notin X /\ ~Pag(r, y).presence
    BY DEF EnSwap
  <2>2. Sitios(r)[y] = -1 - Pag(r, y).number /\ Pag(r, y).number \in Nat
    BY <1>1, <2>1, SitioDe
  <2>3. Sitios(r)[y] \in Tomados(r)
    BY <2>1 DEF Puestas, UnoACadaUno
  <2>4. -1 - Pag(r, y).number \in Tomados(r)
    BY <2>2, <2>3
  <2> QED BY <2>1, <2>2, <2>4, TomadosSlot
<1>3. ASSUME NEW n \in T PROVE \E y \in Y : Pag(r, y).number = n
  <2>1. n \in Nat /\ -1 - n \in Tomados(r)
    BY <1>1, TomadosSlot
  <2>2. PICK y \in EnTabla(r) \ X : Sitios(r)[y] = -1 - n
    BY <2>1 DEF Puestas, UnoACadaUno
  <2>3. ~Pag(r, y).presence /\ Pag(r, y).number = n
    BY <1>1, <2>1, <2>2, SitioDe
  <2> QED BY <2>2, <2>3 DEF EnSwap
<1>4. \A y, z \in Y : Pag(r, y).number = Pag(r, z).number => y = z
  BY <1>2 DEF Puestas, UnoACadaUno
<1> HIDE DEF Y, T
<1>5. f \in Injection(Y, T) /\ f \in Surjection(Y, T)
  <2>1. f \in [Y -> T]
    BY <1>2
  <2>2. \A y, z \in Y : f[y] = f[z] => y = z
    BY <1>4
  <2>3. \A n \in T : \E y \in Y : f[y] = n
    BY <1>3
  <2> HIDE DEF f
  <2> QED BY <2>1, <2>2, <2>3 DEF Injection, Surjection, IsInjective
<1>6. IsFiniteSet(T)
  BY CuentaDeLugares, FS_Difference DEF T
<1>7. IsFiniteSet(Y) /\ Cardinality(Y) = Cardinality(T)
  BY <1>5, <1>6, FS_Injection
<1>8. T = {Pag(r, y).number : y \in Y}
  BY <1>2, <1>3
<1> QED BY <1>7, <1>8 DEF Y, T

(* The clock stops at one of the pages present. *)
LEMMA DesmarcadaEsta ==
  ASSUME NEW r, NEW S, S \subseteq Lugares, IsFiniteSet(S), S # {}
  PROVE  /\ Vueltas(r, S) \in Seq(S) /\ Desmarcada(r, Vueltas(r, S)) \in 1..Len(Vueltas(r, S))
<1> DEFINE A == Ordenadas({x \in S : Balde[x[1]] >= r.clock_key})
           B == Ordenadas(S)
           vs == Vueltas(r, S)
<1>1. A \in Seq(S) /\ Len(A) \in Nat
  <2>1. PICK T : T = {x \in S : Balde[x[1]] >= r.clock_key}
    OBVIOUS
  <2>2. T \in SUBSET S /\ T \subseteq Lugares
    BY <2>1
  <2>3. Ordenadas(T) \in Seq(T)
    BY <2>2, FS_Subset, OrdenadasEstan
  <2>4. Ordenadas(T) \in Seq(S)
    BY <2>2, <2>3
  <2> QED BY <2>1, <2>4
<1>2. B \in Seq(S) /\ Len(B) \in Nat /\ Len(B) >= 1
  <2>1. B \in Seq(S) /\ Len(B) = Cardinality(S)
    BY OrdenadasEstan
  <2>2. Cardinality(S) \in Nat /\ Cardinality(S) # 0
    BY FS_CardinalityType, FS_EmptySet
  <2> QED BY <2>1, <2>2
<1>3. vs = A \o B \o B
  BY DEF Vueltas
<1> HIDE DEF A, B, vs
<1> DEFINE a == Len(A)
           n == Len(B)
<1>4. PICK C : C = A \o B
  OBVIOUS
<1>5. C \in Seq(S) /\ Len(C) = a + n /\ \A i \in 1..n : C[a + i] = B[i]
  <2>1. /\ C \in Seq(S) /\ Len(C) = Len(A) + Len(B)
        /\ \A i \in 1..Len(B) : C[Len(A) + i] = B[i]
    BY <1>1, <1>2, <1>4, ConcatProperties
  <2> QED BY <2>1
<1>6. vs \in Seq(S) /\ Len(vs) = a + n + n /\ (\A i \in 1..(a + n) : vs[i] = C[i]) /\ \A i \in 1..n : vs[a + n + i] = B[i]
  <2>1. vs = C \o B
    BY <1>3, <1>4
  <2>2. /\ vs \in Seq(S) /\ Len(vs) = Len(C) + Len(B)
        /\ (\A i \in 1..Len(C) : vs[i] = C[i]) /\ \A i \in 1..Len(B) : vs[Len(C) + i] = B[i]
    <3>1. C \in Seq(S) /\ B \in Seq(S)
      BY <1>2, <1>5
    <3>2. Len(C \o B) = Len(C) + Len(B) /\ C \o B \in Seq(S)
      BY <3>1, ConcatProperties
    <3>3. \A i \in 1..Len(C) : (C \o B)[i] = C[i]
      BY <3>1, ConcatProperties
    <3>4. \A i \in 1..Len(B) : (C \o B)[Len(C) + i] = B[i]
      BY <3>1, ConcatProperties
    <3> QED BY <2>1, <3>2, <3>3, <3>4
  <2> QED BY <1>5, <2>2
<1> DEFINE K == {i \in DOMAIN vs : \/ Pag(r, vs[i]).modified = 0
                                   \/ \E j \in 1..(i - 1) : vs[j] = vs[i]}
<1>7. a + n + 1 \in K
  <2>1. DOMAIN vs = 1..(a + n + n)
    BY <1>6
  <2>2. a + n + 1 \in 1..(a + n + n) /\ a + 1 \in 1..(a + n + 1 - 1) /\ a + 1 \in 1..(a + n) /\ 1 \in 1..n
    BY <1>1, <1>2
  <2>3. vs[a + 1] = B[1] /\ vs[a + n + 1] = B[1]
    BY <1>5, <1>6, <2>2
  <2> QED BY <2>1, <2>2, <2>3
<1>8. K \subseteq Nat /\ K \subseteq 1..Len(vs)
  BY <1>6
<1>9. Min(K) \in K
  <2> HIDE DEF K
  <2> QED BY <1>7, <1>8, MinimoEn
<1>10. Desmarcada(r, vs) = Min(K)
  BY DEF Desmarcada
<1> HIDE DEF K
<1>11. Desmarcada(r, vs) \in 1..Len(vs)
  BY <1>8, <1>9, <1>10
<1> QED BY <1>6, <1>11 DEF vs

(* Marking after marking is marking. *)
LEMMA MarcadasSiguen ==
  ASSUME NEW r, NEW X, BienPuestas(r, X)
  PROVE  /\ Marcadas(r, r, X)
         /\ \A q, w : Marcadas(r, q, X) /\ Marcadas(q, w, X) => Marcadas(r, w, X)
<1>1. Marcadas(r, r, X)
  BY DEF Marcadas, MismasTablas, Ajenos, MismosMapas, Quietas
<1>2. ASSUME NEW q, NEW w, Marcadas(r, q, X), Marcadas(q, w, X) PROVE Marcadas(r, w, X)
  <2>1. MismasTablas(r, w) /\ Ajenos(r, w) /\ MismosMapas(r, w)
    BY <1>2 DEF Marcadas, MismasTablas, Ajenos, MismosMapas
  <2>2. Quietas(r, w, X)
    BY <1>2 DEF Marcadas, MismasTablas, Quietas
  <2> QED BY <1>2, <2>1, <2>2 DEF Marcadas
<1> QED BY <1>1, <1>2

(* The mark of one page cleared. *)
LEMMA DesmarcarBien ==
  ASSUME NEW r, NEW X, BienPuestas(r, X), NEW x \in EnTabla(r)
  PROVE  Marcadas(r, Marcar(r, x, 0), X)
<1>1. r.clock_key \in Nat /\ [r EXCEPT !.clock_key = r.clock_key] = r
  BY DEF BienPuestas, Entera, Campos
<1>2. PICK c : c = r.clock_key
  OBVIOUS
<1>3. PICK q : q = Marcar([r EXCEPT !.clock_key = c], x, 0)
  OBVIOUS
<1>4. Marcadas(r, q, X)
  BY <1>1, <1>2, <1>3, MarcarBien
<1>5. q = Marcar(r, x, 0)
  BY <1>1, <1>2, <1>3
<1> QED BY <1>4, <1>5

(* The clock gives the page where it stops, and only clears marks before. *)
LEMMA PararBien ==
  ASSUME NEW r, NEW X, BienPuestas(r, X), NEW S, S \subseteq EnTabla(r), NEW vs \in Seq(S), NEW k \in 1..Len(vs),
         NEW v, v = PararEn(r, vs, k)
  PROVE  v.victima = vs[k] /\ Marcadas(r, v.ram, X)
<1> DEFINE s == SubSeq(vs, 1, k - 1)
           vistas == FoldLeft(LAMBDA q, x : Marcar(q, x, 0), r, s)
           n == Len(vs)
<1>1. n \in Nat /\ \A i \in 1..n : vs[i] \in EnTabla(r)
  OBVIOUS
<1>2. /\ Len(s) = k - 1 /\ DOMAIN s = 1..Len(s) /\ \A i \in 1..(k - 1) : s[i] = vs[i]
  <2> HIDE DEF n
  <2>1. k \in Nat /\ k - 1 \in Int /\ 1 \in Int /\ (\A i \in 1..(k - 1) : i \in 1..n) /\ (\A i \in 1..n : vs[i] \in S)
    BY <1>1 DEF n
  <2>2. /\ s \in Seq(S)
        /\ Len(s) = IF 1 <= k - 1 THEN k - 1 - 1 + 1 ELSE 0
        /\ \A i \in 1..(k - 1 - 1 + 1) : s[i] = vs[1 + i - 1]
    BY <2>1, SubSeqProperties DEF n
  <2>3. k \in 1..n
    BY DEF n
  <2>4. Len(s) = k - 1
    BY <2>1, <2>2, <2>3
  <2>5. ASSUME NEW i \in 1..(k - 1) PROVE s[i] = vs[i]
    BY <2>1, <2>2
  <2> QED BY <2>2, <2>4, <2>5
<1> HIDE DEF s
<1>3. PICK a : Cadena(a, "desmarcar", 0, r, s) /\ vistas = a[Len(s)]
  <2>1. Len(s) \in Nat
    BY <1>1, <1>2
  <2> QED BY <1>2, <2>1, PliegaDesmarcar
<1> HIDE DEF vistas
<1> DEFINE G == {i \in 0..(k - 1) : Marcadas(r, a[i], X)}
<1>4. \A i \in 0..(k - 1) : i \in G
  <2>1. k - 1 \in Nat
    BY <1>1
  <2>2. 0 \in G
    BY <1>3, <2>1, MarcadasSiguen DEF Cadena
  <2>3. ASSUME NEW i \in 0..(k - 1 - 1), i \in G PROVE i + 1 \in G
    <3>1. i + 1 \in 1..(k - 1) /\ i + 1 \in 0..(k - 1) /\ i + 1 - 1 = i /\ i + 1 \in 1..n
      BY <1>1, <2>1
    <3>2. Marcadas(r, a[i], X)
      BY <2>3
    <3>3. vs[i + 1] \in EnTabla(a[i]) /\ BienPuestas(a[i], X)
      BY <1>1, <3>1, <3>2 DEF Marcadas, MismasTablas
    <3>4. Marcadas(a[i], Marcar(a[i], vs[i + 1], 0), X)
      BY <3>3, DesmarcarBien
    <3>5. a[i + 1] = Marcar(a[i], vs[i + 1], 0)
      BY <1>2, <1>3, <3>1 DEF Cadena, Paso
    <3>6. Marcadas(r, a[i + 1], X)
      BY <3>2, <3>4, <3>5, MarcadasSiguen
    <3> QED BY <3>1, <3>6
  <2> HIDE DEF G
  <2> QED BY <2>1, <2>2, <2>3, PorPasos
<1>5. Marcadas(r, vistas, X)
  <2>1. k - 1 \in 0..(k - 1)
    BY <1>1
  <2> QED BY <1>2, <1>3, <1>4, <2>1
<1> DEFINE x == vs[k]
           c == Balde[x[1]]
           q == Marcar([vistas EXCEPT !.clock_key = c], x, 1)
<1>6. v = [victima |-> x, ram |-> q]
  BY DEF PararEn, vistas, s
<1>7. x \in EnTabla(vistas) /\ BienPuestas(vistas, X)
  BY <1>1, <1>5 DEF Marcadas, MismasTablas
<1>8. c \in Nat
  <2>1. x \in EnTabla(r) /\ r.tablas \in Tablas
    BY <1>1 DEF BienPuestas, Entera
  <2>2. x[1] \in Patotas
    BY <2>1, EnTablaEs
  <2> QED BY <2>2, PaginasOK
<1> HIDE DEF c, x
<1>9. PICK w : w = q
  OBVIOUS
<1>10. Marcadas(vistas, w, X)
  BY <1>7, <1>8, <1>9, MarcarBien
<1>11. Marcadas(r, w, X)
  BY <1>5, <1>10, MarcadasSiguen
<1> QED BY <1>6, <1>9, <1>11 DEF x

(* A frame is found unless every frame and every slot is taken. *)
LEMMA get_frameBien ==
  ASSUME NEW r, NEW X, BienPuestas(r, X),
         (\A y \in X : y \in EnTabla(r) => ~Pag(r, y).presence) \/ r.bitmap # 0..(Marcos - 1),
         NEW g, g = get_frame(r)
  PROVE  \/ DaMarco(r, g.ram, X, g.marco)
         \/ g.ram = r /\ g.marco = -1 /\ Ocupan(r) = Marcos + MarcosVirtual
<1> DEFINE libres == (0..(Marcos - 1)) \ r.bitmap
<1>1. Entera(r) /\ Puestas(r, X) /\ r.bitmap \subseteq 0..(Marcos - 1) /\ Marcos \in Nat \ {0} /\ MarcosVirtual \in Nat
  BY PaginasOK DEF BienPuestas, Entera
<1>2. CASE libres # {}
  <2>1. libres \subseteq Nat
    OBVIOUS
  <2>2. PICK n : n = Min(libres)
    OBVIOUS
  <2>3. n \in libres
    BY <1>2, <2>1, <2>2, MinimoEn
  <2>4. g = [ram |-> r, marco |-> n]
    BY <1>2, <2>2 DEF get_frame
  <2>5. DaMarco(r, r, X, n)
    BY <2>3 DEF DaMarco, MismasTablas, Ajenos, Quietas
  <2> QED BY <2>4, <2>5
<1>3. CASE libres = {}
  <2>1. r.bitmap = 0..(Marcos - 1)
    BY <1>1, <1>3, Zenon
  <2>2. Cardinality(r.bitmap) = Marcos
    BY <1>1, <2>1, CuentaDeLugares
  <2>3. IsFiniteSet(EnMarcos(r, X)) /\ EnMarcos(r, X) # {} /\ EnMarcos(r, X) \subseteq Lugares
    <3>1. /\ IsFiniteSet(EnMarcos(r, X)) /\ Cardinality(EnMarcos(r, X)) = Cardinality(r.bitmap)
          /\ EnMarcos(r, X) \subseteq Lugares
      BY <1>1, PresentesContadas
    <3> QED BY <1>1, <2>2, <3>1, FS_EmptySet
  <2>4. Presentes(r) = EnMarcos(r, X)
    BY <2>1 DEF Presentes, EnMarcos
  <2>5. CASE r.virtual_bitmap = 0..(MarcosVirtual - 1)
    <3>1. g = [ram |-> r, marco |-> -1]
      BY <1>3, <2>5 DEF get_frame
    <3>2. Cardinality(r.virtual_bitmap) = MarcosVirtual
      BY <1>1, <2>5, CuentaDeLugares
    <3> QED BY <2>2, <3>1, <3>2 DEF Ocupan
  <2>6. CASE r.virtual_bitmap # 0..(MarcosVirtual - 1)
    <3>1. PICK v : v = IF hasLRU THEN get_next_lru_frame(r) ELSE get_next_clock_frame(r)
      OBVIOUS
    <3>2. g = Entregar(v)
      BY <1>3, <2>3, <2>4, <2>6, <3>1 DEF get_frame
    <3>3. v.victima \in EnMarcos(r, X) /\ Marcadas(r, v.ram, X)
      <4>1. CASE hasLRU
        <5>1. v.victima = Head(r.uso) /\ v.ram = r
          BY <3>1, <4>1 DEF get_next_lru_frame
        <5>2. r.uso \in Seq(Lugares) /\ \A y : y \in ToSet(r.uso) <=> y \in EnMarcos(r, X)
          BY <4>1 DEF BienPuestas, Entera, Usadas
        <5>3. r.uso # <<>>
          BY <2>3, <5>2 DEF ToSet
        <5>4. Head(r.uso) = r.uso[1] /\ 1 \in DOMAIN r.uso
          BY <5>2, <5>3
        <5>5. Head(r.uso) \in ToSet(r.uso)
          BY <5>4 DEF ToSet
        <5> QED BY <5>1, <5>2, <5>5, MarcadasSiguen
      <4>2. CASE ~hasLRU
        <5> DEFINE S == EnMarcos(r, X)
                   vs == Vueltas(r, S)
                   k == Desmarcada(r, vs)
        <5>1. v = PararEn(r, vs, k)
          BY <2>4, <3>1, <4>2 DEF get_next_clock_frame
        <5>2. vs \in Seq(S) /\ k \in 1..Len(vs)
          BY <2>3, DesmarcadaEsta
        <5>3. S \subseteq EnTabla(r)
          BY DEF EnMarcos
        <5> HIDE DEF S, vs, k
        <5>4. v.victima = vs[k] /\ Marcadas(r, v.ram, X)
          BY <5>1, <5>2, <5>3, PararBien
        <5>5. vs[k] \in S
          BY <5>2
        <5> QED BY <5>4, <5>5 DEF S
      <4> QED BY <4>1, <4>2
    <3>4. PICK w : w = v.ram
      OBVIOUS
    <3>5. PICK x : x = v.victima
      OBVIOUS
    <3>6. PICK q : q = Olvidar(Desalojar(w, x), x)
      OBVIOUS
    <3>7. g = [ram |-> q, marco |-> Pag(w, x).number]
      BY <3>2, <3>4, <3>5, <3>6 DEF Entregar
    <3>8. /\ BienPuestas(w, X) /\ x \in EnMarcos(w, X) /\ w.virtual_bitmap # 0..(MarcosVirtual - 1)
      BY <2>6, <3>3, <3>4, <3>5 DEF Marcadas, MismosMapas
    <3>9. DaMarco(w, q, X, Pag(w, x).number)
      BY <3>6, <3>8, DesalojarBien
    <3>10. Marcadas(r, w, X)
      BY <3>3, <3>4
    <3>11. MismasTablas(r, q) /\ Ajenos(r, q)
      BY <3>9, <3>10 DEF DaMarco, Marcadas, MismasTablas, Ajenos
    <3>12. Ocupan(q) = Ocupan(r)
      BY <3>9, <3>10 DEF DaMarco, Marcadas, Ocupan, MismosMapas
    <3>13. Quietas(r, q, X)
      BY <3>9, <3>10 DEF DaMarco, Marcadas, Quietas, MismasTablas
    <3>14. DaMarco(r, q, X, Pag(w, x).number)
      BY <3>9, <3>11, <3>12, <3>13 DEF DaMarco
    <3> QED BY <3>7, <3>14
  <2> QED BY <2>5, <2>6
<1> QED BY <1>2, <1>3

-----------------------------------------------------------------------------
(* Pages brought, given back, taken again and eliminated *)

(* A page where it was, or one more at the end of its table. *)
Cabe(r, X, x) ==
  \/ x \in X /\ x \in EnTabla(r)
  \/ x \notin X /\ x[1] \in Patotas /\ x = <<x[1], Len(r.tablas[x[1]]) + 1>>
Crece(r, q, x) == \A o \in Patotas : Len(q.tablas[o]) =
  IF o = x[1] /\ x \notin EnTabla(r) THEN Len(r.tablas[o]) + 1 ELSE Len(r.tablas[o])
Colocada(r, q, X, x) ==
  BienPuestas(q, X \ {x}) /\ Ajenos(r, q) /\ Ocupan(q) = Ocupan(r) + 1 /\ Crece(r, q, x)

(* A page put in a free frame has that place. *)
LEMMA ColocarBien ==
  ASSUME NEW r, NEW X, BienPuestas(r, X), NEW x, Cabe(r, X, x), NEW celdas, Hoja(celdas),
         NEW n \in 0..(Marcos - 1), n \notin r.bitmap, NEW q, q = Colocar(r, x, celdas, n)
  PROVE  Colocada(r, q, X, x)
<1> DEFINE pg == Pagina(n, TRUE)
           mem == [r.mem EXCEPT ![n] = celdas]
           h == r.tablas[x[1]]
           t == [r.tablas EXCEPT ![x[1]] = IF x[2] > Len(h) THEN Append(h, pg) ELSE [h EXCEPT ![x[2]] = pg]]
<1>1. Entera(r) /\ Puestas(r, X) /\ r.tablas \in Tablas /\ n \in Nat /\ n # -1 /\ Marcos \in Nat
  BY PaginasOK DEF BienPuestas, Entera
<1>2. pg \in UnaPagina /\ pg.presence /\ pg.number = n /\ Sitio(pg) = n
  BY <1>1 DEF Pagina, UnaPagina, Sitio
<1>3. PICK z : z = [r EXCEPT !.mem[n] = celdas, !.bitmap = @ \cup {n},
                    !.tablas[x[1]] = IF x[2] > Len(@) THEN Append(@, Pagina(n, TRUE)) ELSE [@ EXCEPT ![x[2]] = Pagina(n, TRUE)]]
  OBVIOUS
<1>4. q = Usar(z, x)
  BY <1>1, <1>3 DEF Colocar
<1>5. Campos(z, mem, r.bitmap \cup {n}, r.virtual, r.virtual_bitmap, t, r.uso, r.clock_key, r)
  <2>1. z = [r EXCEPT !.mem = mem, !.bitmap = @ \cup {n}, !.tablas = t]
    <3> HIDE DEF pg
    <3> QED BY <1>1, <1>3 DEF Entera, Campos, pg
  <2> HIDE DEF mem, t
  <2> QED BY <1>1, <2>1 DEF Entera, Campos
<1>6. mem = [i \in 0..(Marcos - 1) |-> mem[i]] /\ \A i \in 0..(Marcos - 1) : Hoja(mem[i])
  <2>1. r.mem = [i \in 0..(Marcos - 1) |-> r.mem[i]] /\ \A i \in 0..(Marcos - 1) : Hoja(r.mem[i])
    BY <1>1 DEF Entera
  <2> QED BY <2>1
<1> HIDE DEF mem, pg, t
<1>7. /\ z.mem = mem /\ z.bitmap = r.bitmap \cup {n} /\ z.virtual = r.virtual /\ z.virtual_bitmap = r.virtual_bitmap
      /\ z.tablas = t /\ z.uso = r.uso /\ z.clock_key = r.clock_key /\ Ajenos(r, z)
      /\ Campos(z, z.mem, z.bitmap, z.virtual, z.virtual_bitmap, z.tablas, z.uso, z.clock_key, z)
  BY <1>5, CamposEnteros
<1>8. /\ Sitio(pg) \notin Tomados(r) /\ Tomados(z) = Tomados(r) \cup {Sitio(pg)} /\ z.perdidos \subseteq z.virtual_bitmap
  BY <1>1, <1>2, <1>7, TomadosMarco DEF Ajenos, Puestas
<1>9. EnLugar(r, z, X, x, pg) /\ x \in EnTabla(z) /\ Crece(r, z, x)
  <2>1. CASE x \in X /\ x \in EnTabla(r)
    <3>1. ~(x[2] > Len(h))
      BY <1>1, <2>1, EnTablaEs DEF Tablas
    <3>2. UnaCambia(z, r, x, pg)
      BY <1>7, <3>1 DEF UnaCambia, t
    <3>3. EnLugar(r, z, X, x, pg) /\ EnTabla(z) = EnTabla(r) /\ MismasTablas(r, z)
      BY <1>1, <1>2, <1>8, <2>1, <3>2, Devuelta
    <3> QED BY <2>1, <3>3 DEF Crece, MismasTablas
  <2>2. CASE x \notin X /\ x[1] \in Patotas /\ x = <<x[1], Len(r.tablas[x[1]]) + 1>>
    <3>1. PICK p \in Patotas : p = x[1]
      BY <2>2
    <3>2. Len(r.tablas[p]) \in Nat /\ x[2] = Len(r.tablas[p]) + 1 /\ x = <<p, Len(r.tablas[p]) + 1>>
      BY <1>1, <2>2, <3>1 DEF Tablas
    <3>3. x[2] > Len(h)
      BY <3>1, <3>2
    <3>4. UnaMas(z, r, p, pg)
      BY <1>7, <3>1, <3>3 DEF UnaMas, t
    <3>5. /\ EnLugar(r, z, X, x, pg) /\ EnTabla(z) = EnTabla(r) \cup {x} /\ x \notin EnTabla(r)
          /\ \A o \in Patotas : Len(z.tablas[o]) = IF o = p THEN Len(r.tablas[p]) + 1 ELSE Len(r.tablas[o])
      BY <1>1, <1>2, <1>8, <2>2, <3>2, <3>4, Agregada
    <3> QED BY <3>1, <3>5 DEF Crece
  <2> QED BY <2>1, <2>2 DEF Cabe
<1>10. Entera(z)
  <2>1. z.bitmap \subseteq 0..(Marcos - 1) /\ z.virtual_bitmap \subseteq 0..(MarcosVirtual - 1)
    BY <1>1, <1>7 DEF Entera
  <2>2. z.tablas \in Tablas
    BY <1>9 DEF EnLugar
  <2> QED BY <1>1, <1>6, <1>7, <2>1, <2>2 DEF Entera
<1>11. /\ Puestas(z, X \ {x}) /\ EnMarcos(z, X \ {x}) = EnMarcos(r, X) \cup {x} /\ Pag(z, x).presence
  BY <1>2, <1>9 DEF EnLugar
<1>12. Usadas(z, EnMarcos(r, X))
  BY <1>7 DEF BienPuestas, Usadas
<1>13. Ocupan(z) = Ocupan(r) + 1
  <2>1. IsFiniteSet(r.bitmap) /\ Cardinality(r.bitmap) \in Nat /\ Cardinality(r.virtual_bitmap) \in Nat
    BY <1>1, CuentaDeLugares
  <2>2. Cardinality(r.bitmap \cup {n}) = Cardinality(r.bitmap) + 1
    BY <2>1, FS_AddElement
  <2> QED BY <1>7, <2>1, <2>2 DEF Ocupan
<1>14. BienPuestas(q, X \ {x}) /\ MismasTablas(z, q) /\ Ajenos(z, q) /\ MismosMapas(z, q)
  <2>1. PICK Z : Z = X \ {x}
    OBVIOUS
  <2>2. PICK P : P = EnMarcos(r, X)
    OBVIOUS
  <2>3. x \notin Z /\ Puestas(z, Z) /\ P \cup {x} = EnMarcos(z, Z) /\ Usadas(z, P)
    BY <1>11, <1>12, <2>1, <2>2
  <2>4. BienPuestas(q, Z) /\ MismasTablas(z, q) /\ Ajenos(z, q) /\ MismosMapas(z, q)
    BY <1>4, <1>9, <1>10, <1>11, <2>3, UsarBien
  <2> QED BY <2>1, <2>4
<1>15. Ajenos(r, q) /\ Ocupan(q) = Ocupan(r) + 1
  BY <1>7, <1>13, <1>14 DEF Ajenos, Ocupan, MismosMapas
<1>16. Crece(r, q, x)
  BY <1>9, <1>14 DEF Crece, MismasTablas
<1> QED BY <1>14, <1>15, <1>16 DEF Colocada

(* Tables of the same lengths have the same pages. *)
LEMMA MismosLargos ==
  ASSUME NEW r, NEW q, r.tablas \in Tablas, q.tablas \in Tablas,
         \A p \in Patotas : Len(q.tablas[p]) = Len(r.tablas[p])
  PROVE  MismasTablas(r, q)
<1>1. ASSUME NEW y PROVE y \in EnTabla(q) <=> y \in EnTabla(r)
  <2>1. y \in EnTabla(r) <=> \E p \in Patotas : \E j \in 1..Len(r.tablas[p]) : y = <<p, j>>
    BY EnTablaEs
  <2>2. y \in EnTabla(q) <=> \E p \in Patotas : \E j \in 1..Len(q.tablas[p]) : y = <<p, j>>
    BY EnTablaEs
  <2> QED BY <2>1, <2>2
<1> QED BY <1>1 DEF MismasTablas

(* With a place left, a page is lodged. *)
LEMMA AlojarBien ==
  ASSUME NEW r, NEW X, BienPuestas(r, X), NEW x, Cabe(r, X, x), NEW celdas, Hoja(celdas),
         \A y \in X : y \in EnTabla(r) => ~Pag(r, y).presence, Ocupan(r) < Marcos + MarcosVirtual,
         NEW q, q = Alojar(r, x, celdas)
  PROVE  Colocada(r, q, X, x)
<1>1. PICK g : g = get_frame(r)
  OBVIOUS
<1>2. PICK w : w = g.ram
  OBVIOUS
<1>3. PICK n : n = g.marco
  OBVIOUS
<1>4. Marcos + MarcosVirtual \in Nat /\ Ocupan(r) \in Nat
  BY PaginasOK, CuentaDeLugares DEF BienPuestas
<1>5. DaMarco(r, w, X, n)
  BY <1>1, <1>2, <1>3, <1>4, get_frameBien
<1>6. q = Colocar(w, x, celdas, n)
  BY <1>1, <1>2, <1>3 DEF Alojar
<1>7. Cabe(w, X, x) /\ EnTabla(w) = EnTabla(r) /\ \A p \in Patotas : Len(w.tablas[p]) = Len(r.tablas[p])
  BY <1>5 DEF DaMarco, MismasTablas, Cabe
<1>8. Colocada(w, q, X, x)
  BY <1>5, <1>6, <1>7, ColocarBien DEF DaMarco
<1>9. Crece(r, q, x)
  BY <1>7, <1>8 DEF Colocada, Crece
<1> QED BY <1>5, <1>8, <1>9 DEF DaMarco, Colocada, Ajenos

(* The same tables and places taken, and every page in its place. *)
MismoLugar(r, q) ==
  /\ BienPuestas(q, {}) /\ Ajenos(r, q) /\ Ocupan(q) = Ocupan(r)
  /\ MismasTablas(r, q)

(* Bringing a page, from swap or not, takes no more places. *)
LEMMA TraerBien ==
  ASSUME NEW r, BienPuestas(r, {}), NEW x \in EnTabla(r), NEW q, q = Traer(r, x)
  PROVE  MismoLugar(r, q)
<1>1. Entera(r) /\ Puestas(r, {}) /\ Usadas(r, EnMarcos(r, {})) /\ r.tablas \in Tablas
  BY DEF BienPuestas, Entera
<1>2. CASE Pag(r, x).presence
  <2>1. q = Usar(r, x)
    BY <1>2 DEF Traer
  <2>2. EnMarcos(r, {}) \cup {x} = EnMarcos(r, {})
    BY <1>2 DEF EnMarcos
  <2>3. BienPuestas(q, {}) /\ MismasTablas(r, q) /\ Ajenos(r, q) /\ MismosMapas(r, q)
    BY <1>1, <1>2, <2>1, <2>2, UsarBien
  <2> QED BY <2>3 DEF MismoLugar, Ocupan, MismosMapas
<1>3. CASE ~Pag(r, x).presence
  <2>1. PICK w : w = LiberarSlot(r, x)
    OBVIOUS
  <2>2. PICK c : c = Contenido(r, x)
    OBVIOUS
  <2>3. q = Alojar(w, x, c)
    BY <1>3, <2>1, <2>2 DEF Traer
  <2>4. SinLugar(r, w, {}, x) /\ Hoja(r.virtual[Pag(r, x).number])
    BY <1>1, <1>3, <2>1, LiberarSlotBien
  <2>5. Hoja(c)
    BY <1>3, <2>2, <2>4 DEF Contenido
  <2>6. {} \cup {x} = {x} /\ {x} \ {x} = {}
    OBVIOUS
  <2>7. EnTabla(w) = EnTabla(r) /\ Pag(w, x) = Pag(r, x) /\ \A p \in Patotas : Len(w.tablas[p]) = Len(r.tablas[p])
    BY <2>4 DEF SinLugar, EnTabla, Pag
  <2>8. BienPuestas(w, {x})
    <3>1. EnMarcos(r, {}) \ {x} = EnMarcos(r, {})
      BY <1>3 DEF EnMarcos
    <3>2. Usadas(w, EnMarcos(r, {}))
      BY <1>1, <2>4 DEF Usadas, SinLugar
    <3> QED BY <2>4, <2>6, <3>1, <3>2 DEF BienPuestas, SinLugar
  <2>9. Ocupan(w) = Ocupan(r) - 1 /\ Ocupan(r) \in Nat /\ Ocupan(r) <= Marcos + MarcosVirtual /\ Marcos + MarcosVirtual \in Nat
    <3>1. Ocupan(w) = Ocupan(r) - 1
      BY <2>4 DEF SinLugar
    <3>2. /\ Cardinality(r.bitmap) \in Nat /\ Cardinality(r.virtual_bitmap) \in Nat
          /\ Cardinality(r.bitmap) <= Marcos /\ Cardinality(r.virtual_bitmap) <= MarcosVirtual
      BY <1>1, CuentaDeLugares
    <3> QED BY <3>1, <3>2, PaginasOK DEF Ocupan
  <2>10. PICK X : X = {x}
    OBVIOUS
  <2>11. /\ BienPuestas(w, X) /\ Cabe(w, X, x) /\ (\A y \in X : y \in EnTabla(w) => ~Pag(w, y).presence)
         /\ Ocupan(w) < Marcos + MarcosVirtual
    BY <1>3, <2>7, <2>8, <2>9, <2>10 DEF Cabe
  <2>12. Colocada(w, q, X, x)
    BY <2>3, <2>5, <2>11, AlojarBien
  <2>13. BienPuestas(q, {}) /\ Ajenos(w, q) /\ Ocupan(q) = Ocupan(w) + 1 /\ \A p \in Patotas : Len(q.tablas[p]) = Len(w.tablas[p])
    BY <2>6, <2>7, <2>10, <2>12 DEF Colocada, Crece
  <2>14. MismasTablas(r, q)
    <3>1. q.tablas \in Tablas
      BY <2>13 DEF BienPuestas, Entera
    <3> QED BY <1>1, <2>7, <2>13, <3>1, MismosLargos
  <2>15. Ajenos(r, q) /\ Ocupan(q) = Ocupan(r)
    BY <2>4, <2>9, <2>13 DEF SinLugar, Ajenos
  <2> QED BY <2>13, <2>14, <2>15 DEF MismoLugar
<1> QED BY <1>2, <1>3

(* No page of X is taken for present, or a frame is free. *)
Inofensivas(r, X) == (\A y \in X : y \in EnTabla(r) => ~Pag(r, y).presence) \/ r.bitmap # 0..(Marcos - 1)
Descartada(r, q, X, x) ==
  /\ BienPuestas(q, X \cup {x}) /\ MismasTablas(r, q) /\ Ocupan(q) <= Ocupan(r)
  /\ q.claves = r.claves /\ q.sinMarco = r.sinMarco /\ Inofensivas(q, X \cup {x})

(* A free frame cleared stays free. *)
LEMMA VaciarMarcoBien ==
  ASSUME NEW r, NEW X, BienPuestas(r, X), NEW n \in 0..(Marcos - 1), n \notin r.bitmap, NEW q, q = LiberarMarco(r, n)
  PROVE  BienPuestas(q, X) /\ q.tablas = r.tablas /\ Ajenos(r, q) /\ MismosMapas(r, q)
<1> DEFINE mem == [r.mem EXCEPT ![n] = PaginaVacia]
<1>1. Campos(q, mem, r.bitmap, r.virtual, r.virtual_bitmap, r.tablas, r.uso, r.clock_key, r)
  <2>1. Campos(q, mem, r.bitmap \ {n}, r.virtual, r.virtual_bitmap, r.tablas, r.uso, r.clock_key, r)
    BY DEF LiberarMarco, Entera, Campos, BienPuestas
  <2>2. r.bitmap \ {n} = r.bitmap
    OBVIOUS
  <2> QED BY <2>1, <2>2, Zenon
<1>2. mem = [i \in 0..(Marcos - 1) |-> mem[i]] /\ \A i \in 0..(Marcos - 1) : Hoja(mem[i])
  <2>1. Hoja(PaginaVacia)
    BY DEF Hoja, PaginaVacia
  <2>2. r.mem = [i \in 0..(Marcos - 1) |-> r.mem[i]] /\ \A i \in 0..(Marcos - 1) : Hoja(r.mem[i])
    BY DEF Entera, BienPuestas
  <2> QED BY <2>1, <2>2
<1> HIDE DEF mem
<1>4. /\ q.mem = mem /\ q.bitmap = r.bitmap /\ q.virtual = r.virtual /\ q.virtual_bitmap = r.virtual_bitmap
      /\ q.tablas = r.tablas /\ q.uso = r.uso /\ q.clock_key = r.clock_key /\ Ajenos(r, q)
      /\ Campos(q, q.mem, q.bitmap, q.virtual, q.virtual_bitmap, q.tablas, q.uso, q.clock_key, q)
  BY <1>1, CamposEnteros
<1>5. Entera(q)
  BY <1>2, <1>4 DEF Entera, BienPuestas
<1>6. MismosMapas(r, q)
  BY <1>4 DEF MismosMapas
<1>7. Puestas(q, X) /\ EnMarcos(q, X) = EnMarcos(r, X)
  BY <1>4, <1>6, MismoReparto DEF BienPuestas
<1> QED BY <1>4, <1>5, <1>6, <1>7 DEF BienPuestas, Usadas

(* The slot of a page eliminated is lost. *)
Perder(r, s) == [r EXCEPT !.perdidos = @ \cup {s}, !.virtual[s] = PaginaVacia]
LEMMA PerderBien ==
  ASSUME NEW r, NEW X, BienPuestas(r, X), NEW x \in EnTabla(r), x \notin X, ~Pag(r, x).presence,
         NEW s, s = Pag(r, x).number,
         NEW q, q = Perder(r, s)
  PROVE  /\ BienPuestas(q, X \cup {x}) /\ q.tablas = r.tablas /\ MismosMapas(r, q)
         /\ q.claves = r.claves /\ q.sinMarco = r.sinMarco
<1> DEFINE virtual == [r.virtual EXCEPT ![s] = PaginaVacia]
           o == [claves |-> r.claves, sinMarco |-> r.sinMarco, perdidos |-> r.perdidos \cup {s}]
<1>1. Entera(r) /\ Puestas(r, X) /\ r.tablas \in Tablas
  BY DEF BienPuestas, Entera
<1>2. s \in Nat /\ Sitios(r)[x] = -1 - s
  BY <1>1, SitioDe
<1>3. s \in r.virtual_bitmap \ r.perdidos /\ s \in 0..(MarcosVirtual - 1)
  BY <1>1, <1>2, TomadosSlot DEF Puestas, UnoACadaUno, Entera
<1>4. Campos(q, r.mem, r.bitmap, virtual, r.virtual_bitmap, r.tablas, r.uso, r.clock_key, o)
  BY <1>1 DEF Entera, Campos, Perder
<1>5. /\ virtual = [i \in 0..(MarcosVirtual - 1) |-> virtual[i]]
      /\ \A i \in 0..(MarcosVirtual - 1) : Hoja(virtual[i])
  <2>1. Hoja(PaginaVacia)
    BY DEF Hoja, PaginaVacia
  <2>2. r.virtual = [i \in 0..(MarcosVirtual - 1) |-> r.virtual[i]] /\ \A i \in 0..(MarcosVirtual - 1) : Hoja(r.virtual[i])
    BY <1>1 DEF Entera
  <2> QED BY <2>1, <2>2
<1>6. o.claves = r.claves /\ o.sinMarco = r.sinMarco /\ o.perdidos = r.perdidos \cup {s}
  OBVIOUS
<1> HIDE DEF virtual, o
<1>7. /\ q.mem = r.mem /\ q.bitmap = r.bitmap /\ q.virtual = virtual /\ q.virtual_bitmap = r.virtual_bitmap
      /\ q.tablas = r.tablas /\ q.uso = r.uso /\ q.clock_key = r.clock_key /\ Ajenos(o, q)
      /\ Campos(q, q.mem, q.bitmap, q.virtual, q.virtual_bitmap, q.tablas, q.uso, q.clock_key, q)
  BY <1>4, CamposEnteros
<1>8. q.claves = r.claves /\ q.sinMarco = r.sinMarco /\ q.perdidos = r.perdidos \cup {s}
  BY <1>6, <1>7 DEF Ajenos
<1>9. Entera(q)
  BY <1>1, <1>5, <1>7 DEF Entera
<1>10. Puestas(q, X \cup {x}) /\ EnMarcos(q, X \cup {x}) = EnMarcos(r, X) \ {x}
  <2>1. Tomados(q) = Tomados(r) \ {Sitios(r)[x]}
    BY <1>1, <1>2, <1>7, <1>8, TomadosPerdido
  <2>2. q.perdidos \subseteq q.virtual_bitmap
    BY <1>1, <1>3, <1>7, <1>8 DEF Puestas
  <2>3. q.tablas = r.tablas
    BY <1>7
  <2> QED BY <1>1, <2>1, <2>2, <2>3, Sacada
<1>11. EnMarcos(r, X) \ {x} = EnMarcos(r, X)
  BY DEF EnMarcos
<1>12. Usadas(q, EnMarcos(r, X))
  BY <1>7 DEF BienPuestas, Usadas
<1> QED BY <1>7, <1>8, <1>9, <1>10, <1>11, <1>12 DEF BienPuestas, MismosMapas

(* A page eliminated has no place; no more places are taken. *)
LEMMA DescartarBien ==
  ASSUME NEW r, NEW X, BienPuestas(r, X), NEW x \in EnTabla(r), x \notin X, Inofensivas(r, X),
         NEW q, q = Descartar(r, x)
  PROVE  Descartada(r, q, X, x)
<1>1. Ocupan(r) \in Nat
  BY CuentaDeLugares DEF BienPuestas
<1>2. CASE Pag(r, x).presence
  <2>1. q = Soltar(r, x)
    BY <1>2 DEF Descartar
  <2>2. /\ BienPuestas(q, X \cup {x}) /\ q.tablas = r.tablas /\ Ajenos(r, q) /\ Ocupan(q) = Ocupan(r) - 1
        /\ q.bitmap = r.bitmap \ {Pag(r, x).number} /\ Pag(r, x).number \in 0..(Marcos - 1)
    BY <1>2, <2>1, SoltarBien
  <2>3. q.bitmap # 0..(Marcos - 1)
    BY <2>2
  <2>4. MismasTablas(r, q)
    BY <2>2 DEF MismasTablas, EnTabla
  <2>5. Ocupan(q) <= Ocupan(r)
    BY <1>1, <2>2
  <2> QED BY <2>2, <2>3, <2>4, <2>5 DEF Descartada, Inofensivas, Ajenos
<1>3. CASE ~Pag(r, x).presence
  <2>1. PICK s : s = Pag(r, x).number
    OBVIOUS
  <2>2. PICK w : w = Perder(r, s)
    OBVIOUS
  <2>3. PICK g : g = get_frame(w)
    OBVIOUS
  <2>4. q = IF g.marco = -1 THEN g.ram ELSE LiberarMarco(g.ram, g.marco)
    BY <1>3, <2>1, <2>2, <2>3 DEF Descartar, Perder
  <2>5. PICK Y : Y = X \cup {x}
    OBVIOUS
  <2>6. /\ BienPuestas(w, Y) /\ w.tablas = r.tablas /\ MismosMapas(r, w) /\ w.claves = r.claves /\ w.sinMarco = r.sinMarco
    BY <1>3, <2>1, <2>2, <2>5, PerderBien
  <2>7. MismasTablas(r, w) /\ Ocupan(w) = Ocupan(r) /\ \A y : Pag(w, y) = Pag(r, y)
    BY <2>6 DEF MismasTablas, EnTabla, MismosMapas, Ocupan, Pag
  <2>8. Inofensivas(w, Y)
    BY <1>3, <2>5, <2>6, <2>7 DEF Inofensivas, MismasTablas, MismosMapas
  <2>9. PICK v : v = g.ram
    OBVIOUS
  <2>10. PICK n : n = g.marco
    OBVIOUS
  <2>11. DaMarco(w, v, Y, n) \/ (v = w /\ n = -1)
    BY <2>3, <2>6, <2>8, <2>9, <2>10, get_frameBien DEF Inofensivas
  <2>12. CASE v = w /\ n = -1
    <3>1. q = w
      BY <2>4, <2>9, <2>10, <2>12
    <3> QED BY <1>1, <2>5, <2>6, <2>7, <2>8, <3>1 DEF Descartada
  <2>13. CASE DaMarco(w, v, Y, n)
    <3>1. n \in 0..(Marcos - 1) /\ n # -1 /\ n \notin v.bitmap /\ BienPuestas(v, Y)
      BY <2>13 DEF DaMarco
    <3>2. q = LiberarMarco(v, n)
      BY <2>4, <2>9, <2>10, <3>1
    <3>3. BienPuestas(q, Y) /\ q.tablas = v.tablas /\ Ajenos(v, q) /\ MismosMapas(v, q)
      BY <3>1, <3>2, VaciarMarcoBien
    <3>4. MismasTablas(r, q)
      BY <2>7, <2>13, <3>3 DEF MismasTablas, DaMarco, EnTabla
    <3>5. q.claves = r.claves /\ q.sinMarco = r.sinMarco
      BY <2>6, <2>13, <3>3 DEF DaMarco, Ajenos
    <3>6. Ocupan(q) = Ocupan(r)
      BY <2>7, <2>13, <3>3 DEF DaMarco, Ocupan, MismosMapas
    <3>7. q.bitmap # 0..(Marcos - 1)
      BY <3>1, <3>3 DEF MismosMapas
    <3> QED BY <1>1, <2>5, <3>3, <3>4, <3>5, <3>6, <3>7 DEF Descartada, Inofensivas
  <2> QED BY <2>11, <2>12, <2>13
<1> QED BY <1>2, <1>3

-----------------------------------------------------------------------------
(* The same for the pages of a patota, one after the other *)

(* The pages of a patota, or of its first k. *)
Primeras(p, k) == {<<p, j>> : j \in 1..k}
LEMMA PrimerasMas ==
  ASSUME NEW p, NEW k \in Nat
  PROVE  /\ Primeras(p, 0) = {} /\ Primeras(p, k + 1) = Primeras(p, k) \cup {<<p, k + 1>>}
         /\ <<p, k + 1>> \notin Primeras(p, k)
<1>1. Primeras(p, 0) = {}
  BY DEF Primeras
<1>2. \A y : y \in Primeras(p, k + 1) <=> y \in Primeras(p, k) \/ y = <<p, k + 1>>
  <2>1. \A j : j \in 1..(k + 1) <=> j \in 1..k \/ j = k + 1
    OBVIOUS
  <2> QED BY <2>1 DEF Primeras
<1>3. <<p, k + 1>> \notin Primeras(p, k)
  <2>1. \A j \in 1..k : j # k + 1
    OBVIOUS
  <2> QED BY <2>1 DEF Primeras
<1> QED BY <1>1, <1>2, <1>3

(* The places of a table. *)
LasDe(xs, r, p) == xs = [j \in DOMAIN r.tablas[p] |-> <<p, j>>]
LEMMA LugaresDe ==
  ASSUME NEW r, r.tablas \in Tablas, NEW p \in Patotas, NEW xs, LasDe(xs, r, p)
  PROVE  /\ Len(r.tablas[p]) \in Nat /\ Len(xs) = Len(r.tablas[p]) /\ DOMAIN xs = 1..Len(xs)
         /\ \A j \in 1..Len(xs) : xs[j] = <<p, j>> /\ xs[j] \in EnTabla(r)
         /\ Primeras(p, Len(xs)) = {y \in EnTabla(r) : y[1] = p}
<1> DEFINE n == Len(r.tablas[p])
<1>1. n \in Nat /\ DOMAIN r.tablas[p] = 1..n
  BY DEF Tablas
<1>2. \A j \in 1..n : <<p, j>> \in EnTabla(r)
  BY EnTablaEs
<1>3. xs = [j \in 1..n |-> <<p, j>>]
  BY <1>1 DEF LasDe
<1> HIDE DEF n
<1>4. xs \in [1..n -> EnTabla(r)] /\ \A j \in 1..n : xs[j] = <<p, j>>
  BY <1>2, <1>3
<1>5. Len(xs) = n /\ DOMAIN xs = 1..n
  BY <1>1, <1>4, FuncionEsSucesion
<1>6. ASSUME NEW y PROVE y \in Primeras(p, n) <=> y \in EnTabla(r) /\ y[1] = p
  <2>1. y \in Primeras(p, n) => y \in EnTabla(r) /\ y[1] = p
    BY <1>2 DEF Primeras
  <2>2. ASSUME y \in EnTabla(r), y[1] = p PROVE y \in Primeras(p, n)
    <3>1. y = <<y[1], y[2]>> /\ y[2] \in 1..Len(r.tablas[y[1]])
      BY <2>2, EnTablaEs
    <3> QED BY <2>2, <3>1 DEF Primeras, n
  <2> QED BY <2>1, <2>2
<1> QED BY <1>1, <1>2, <1>4, <1>5, <1>6 DEF n

(* The same place, and the same after it. *)
LEMMA MismoLugarSigue ==
  ASSUME NEW r, BienPuestas(r, {})
  PROVE  /\ MismoLugar(r, r)
         /\ \A q, w : MismoLugar(r, q) /\ MismoLugar(q, w) => MismoLugar(r, w)
         /\ \A q : MismoLugar(r, q) => BienPuestas(q, {}) /\ EnTabla(q) = EnTabla(r)
BY DEF MismoLugar, Ajenos, MismasTablas

(* Pages brought one after the other. *)
LEMMA TraerTodas ==
  ASSUME NEW r, BienPuestas(r, {}), NEW xs, Len(xs) \in Nat, DOMAIN xs = 1..Len(xs),
         \A k \in 1..Len(xs) : xs[k] \in EnTabla(r),
         NEW q, q = FoldLeft(Traer, r, xs)
  PROVE  MismoLugar(r, q)
<1>1. PICK a : Cadena(a, "traer", 0, r, xs) /\ FoldLeft(Traer, r, xs) = a[Len(xs)]
  BY PliegaTraer
<1>2. PICK n \in Nat : n = Len(xs)
  OBVIOUS
<1> DEFINE G == {k \in 0..n : MismoLugar(r, a[k])}
<1>3. 0 \in G
  BY <1>1, <1>2, MismoLugarSigue DEF Cadena
<1>4. ASSUME NEW k \in 0..(n - 1), k \in G PROVE k + 1 \in G
  <2>1. k + 1 \in 1..n /\ k + 1 - 1 = k /\ k + 1 \in 0..n
    BY <1>2
  <2>2. a[k + 1] = Traer(a[k], xs[k + 1])
    BY <1>1, <1>2, <2>1 DEF Cadena, Paso
  <2>3. MismoLugar(r, a[k])
    BY <1>4
  <2>4. BienPuestas(a[k], {}) /\ xs[k + 1] \in EnTabla(a[k])
    BY <1>2, <2>1, <2>3, MismoLugarSigue
  <2>5. MismoLugar(a[k], a[k + 1])
    BY <2>2, <2>4, TraerBien
  <2>6. MismoLugar(r, a[k + 1])
    BY <2>3, <2>5, MismoLugarSigue
  <2> QED BY <2>1, <2>6
<1> HIDE DEF G
<1>5. \A k \in 0..n : k \in G
  BY <1>3, <1>4, PorPasos
<1>6. n \in 0..n
  OBVIOUS
<1> QED BY <1>1, <1>2, <1>5, <1>6 DEF G

(* Where the TCBs of a patota start. *)
LEMMA Comienzo ==
  ASSUME NEW p \in Patotas
  PROVE  /\ Len(Texto[p]) \in Nat /\ start[p] = Len(Texto[p]) + 1 /\ start[p] \in Nat
         /\ page_number[p] = start[p] \div TamPagina /\ page_number[p] \in Nat
         /\ memory_size[p] = start[p] + Cardinality(Miembros(p)) * TamTCB
         /\ Cardinality(Miembros(p)) \in Nat
<1>1. Len(Texto[p]) \in Nat
  BY TextoTipo
<1>2. start[p] = Len(Texto[p]) + 1
  BY DEF start, TamPCB
<1>3. start[p] \div TamPagina \in Nat
  <2>1. PICK t \in Nat \ {0} : t = TamPagina
    BY PaginasOK
  <2>2. PICK s \in Nat : s = start[p]
    BY <1>1, <1>2
  <2>3. s \div t \in Nat
    OBVIOUS
  <2> QED BY <2>1, <2>2, <2>3
<1> QED BY <1>1, <1>2, <1>3, InscriptosOrden DEF page_number, memory_size

(* The pages of the TCBs are in the table. *)
LEMMA PaginasTCBEstan ==
  ASSUME NEW r, r.tablas \in Tablas, NEW p \in Patotas, NEW xs, xs = PaginasTCB(r, p)
  PROVE  Len(xs) \in Nat /\ DOMAIN xs = 1..Len(xs) /\ \A k \in 1..Len(xs) : xs[k] \in EnTabla(r)
<1>1. PICK l \in Nat : l = Len(r.tablas[p])
  BY DEF Tablas
<1>2. PICK m \in Nat : m = page_number[p]
  BY Comienzo
<1>3. xs = [k \in 1..(l - m) |-> <<p, m + k>>]
  BY <1>1, <1>2 DEF PaginasTCB
<1>4. ASSUME NEW k \in 1..(l - m) PROVE <<p, m + k>> \in EnTabla(r)
  <2>1. m + k \in 1..Len(r.tablas[p])
    BY <1>1, <1>2
  <2> QED BY <2>1, EnTablaEs
<1>5. PICK n \in Nat : 1..n = 1..(l - m)
  <2>1. CASE l >= m
    BY <2>1
  <2>2. CASE l < m
    <3>1. 1..0 = 1..(l - m)
      BY <2>2
    <3> QED BY <3>1
  <2> QED BY <2>1, <2>2
<1>6. xs \in [1..n -> EnTabla(r)]
  BY <1>3, <1>4, <1>5
<1>7. Len(xs) = n /\ DOMAIN xs = 1..n
  BY <1>6, FuncionEsSucesion
<1> QED BY <1>6, <1>7

(* Bringing the pages of the TCBs. *)
LEMMA TraerTCBsBien ==
  ASSUME NEW r, BienPuestas(r, {}), NEW p \in Patotas, NEW q, q = TraerTCBs(r, p)
  PROVE  MismoLugar(r, q)
<1>1. PICK xs : xs = PaginasTCB(r, p)
  OBVIOUS
<1>2. Len(xs) \in Nat /\ DOMAIN xs = 1..Len(xs) /\ \A k \in 1..Len(xs) : xs[k] \in EnTabla(r)
  BY <1>1, PaginasTCBEstan DEF BienPuestas, Entera
<1>3. q = FoldLeft(Traer, r, xs)
  BY <1>1 DEF TraerTCBs
<1> QED BY <1>2, <1>3, TraerTodas

(* How many pages so many cells take. *)
LEMMA CantidadBasta ==
  ASSUME NEW a \in Nat, NEW b \in Nat, a <= b
  PROVE  /\ CantidadPaginas(a) \in Nat /\ CantidadPaginas(b) \in Nat /\ CantidadPaginas(a) <= CantidadPaginas(b)
         /\ a < b => a \div TamPagina + 1 <= CantidadPaginas(b)
         /\ b > 0 => CantidadPaginas(b) >= 1
         /\ a \div TamPagina \in Nat /\ (a \div TamPagina) * TamPagina <= a
         /\ a < (a \div TamPagina) * TamPagina + TamPagina
<1>1. PICK t \in Nat \ {0} : t = TamPagina
  BY PaginasOK
<1>2. /\ a \div t \in Nat /\ t * (a \div t) <= a /\ a < t * (a \div t) + t
  BY <1>1
<1> QED BY <1>1, <1>2 DEF CantidadPaginas

(* A page holds as many cells as a page has. *)
LEMMA ContenidoHoja ==
  ASSUME NEW r, Entera(r), Puestas(r, {}), NEW x \in EnTabla(r), NEW h, h = Contenido(r, x)
  PROVE  Hoja(h) /\ Len(h) = TamPagina
<1>1. Sitios(r)[x] \in Tomados(r)
  BY DEF Puestas, UnoACadaUno
<1>2. /\ Pag(r, x).number \in Nat /\ Pag(r, x).presence \in BOOLEAN
      /\ Pag(r, x).presence => Sitios(r)[x] = Pag(r, x).number /\ Sitios(r)[x] >= 0
      /\ ~Pag(r, x).presence => Sitios(r)[x] = -1 - Pag(r, x).number /\ Sitios(r)[x] < 0
  BY SitioDe DEF Entera
<1>3. Pag(r, x).presence => Pag(r, x).number \in 0..(Marcos - 1)
  <2>1. Pag(r, x).presence => Pag(r, x).number \in r.bitmap
    BY <1>1, <1>2, TomadosMarco
  <2> QED BY <2>1 DEF Entera
<1>4. ~Pag(r, x).presence => Pag(r, x).number \in 0..(MarcosVirtual - 1)
  <2>1. ~Pag(r, x).presence => Pag(r, x).number \in r.virtual_bitmap
    BY <1>1, <1>2, TomadosSlot
  <2> QED BY <2>1 DEF Entera
<1>5. Hoja(h)
  BY <1>2, <1>3, <1>4 DEF Contenido, Entera
<1>6. Len(h) = TamPagina
  <2>1. PICK t \in Nat : t = TamPagina
    BY PaginasOK
  <2>2. h = [i \in 1..t |-> h[i]]
    BY <1>5, <2>1 DEF Hoja
  <2> QED BY <2>1, <2>2
<1> QED BY <1>5, <1>6

(* A task is read from a page of the text, or that and the next. *)
LEMMA LeerTareaBien ==
  ASSUME NEW r, BienPuestas(r, {}), NEW p \in Patotas, NEW prev \in 0..start[p],
         start[p] \div TamPagina + 1 <= Len(r.tablas[p]), NEW q, q = LeerTarea(r, p, prev).ram
  PROVE  MismoLugar(r, q)
<1>1. PICK t \in Nat \ {0} : t = TamPagina
  BY PaginasOK
<1>2. PICK s \in Nat : s = start[p]
  BY Comienzo
<1>3. PICK b \in Nat : b = prev \div t
  BY <1>1, <1>2
<1>4. b * t <= prev /\ prev < b * t + t /\ b * t \in Nat
  BY <1>1, <1>2, <1>3
<1>5. PICK d \in Nat : d = s \div t /\ d * t <= s /\ s < d * t + t
  <2>1. s \div t \in Nat /\ t * (s \div t) <= s /\ s < t * (s \div t) + t
    OBVIOUS
  <2>2. PICK d \in Nat : d = s \div t
    BY <2>1
  <2>3. d * t <= s /\ s < d * t + t
    BY <2>1, <2>2
  <2> QED BY <2>2, <2>3
<1>6. ASSUME NEW c \in Nat, c * t <= s PROVE c <= d
  <2> SUFFICES ASSUME d + 1 <= c PROVE FALSE
    OBVIOUS
  <2>1. PICK e \in Nat : c = d + 1 + e
    <3>1. c - (d + 1) \in Nat /\ c = d + 1 + (c - (d + 1))
      OBVIOUS
    <3> QED BY <3>1
  <2>2. c * t = d * t + t + e * t /\ e * t \in Nat /\ d * t \in Nat
    BY <2>1
  <2> QED BY <1>5, <1>6, <2>2
<1>7. b <= d
  BY <1>2, <1>4, <1>6
<1>8. ASSUME NEW j \in 1..(d + 1) PROVE <<p, j>> \in EnTabla(r)
  <2>1. r.tablas \in Tablas /\ j \in 1..Len(r.tablas[p])
    <3>1. r.tablas \in Tablas /\ Len(r.tablas[p]) \in Nat
      BY DEF BienPuestas, Entera, Tablas
    <3> QED BY <1>1, <1>2, <1>5, <3>1
  <2> QED BY <2>1, EnTablaEs
<1>9. PICK x : x = <<p, b + 1>>
  OBVIOUS
<1>10. PICK y : y = <<p, b + 2>>
  OBVIOUS
<1>11. x \in EnTabla(r)
  BY <1>7, <1>8, <1>9
<1>12. PICK w : w = Traer(r, x)
  OBVIOUS
<1>13. PICK h : h = Contenido(r, x)
  OBVIOUS
<1>14. Len(h) = t
  BY <1>1, <1>11, <1>13, ContenidoHoja DEF BienPuestas
<1>15. MismoLugar(r, w)
  BY <1>11, <1>12, TraerBien
<1>16. /\ prev \div TamPagina + 1 = b + 1 /\ b + 1 - 1 = b /\ b + 1 + 1 = b + 2
  BY <1>1, <1>3
<1>17. q = IF Fines(p, prev, h, b * t) # {} THEN w ELSE Traer(w, y)
  BY <1>1, <1>9, <1>10, <1>12, <1>13, <1>16 DEF LeerTarea, TareaLeida
<1>18. CASE Fines(p, prev, h, b * t) # {}
  BY <1>15, <1>17, <1>18
<1>19. CASE Fines(p, prev, h, b * t) = {}
  <2>1. b * t + t - 1 \in prev..(b * t + Len(h) - 1)
    BY <1>2, <1>4, <1>14
  <2>2. ~(b * t + t - 1 >= s - 1)
    BY <1>2, <1>19, <2>1 DEF Fines, TamPCB
  <2>3. (b + 1) * t <= s
    <3>1. (b + 1) * t = b * t + t
      OBVIOUS
    <3> QED BY <1>4, <2>2, <3>1
  <2>4. b + 2 \in 1..(d + 1)
    BY <1>6, <2>3
  <2>5. y \in EnTabla(w) /\ BienPuestas(w, {})
    BY <1>8, <1>10, <1>15, <2>4, MismoLugarSigue
  <2>6. MismoLugar(w, q)
    BY <1>17, <1>19, <2>5, TraerBien
  <2> QED BY <1>15, <2>6, MismoLugarSigue
<1> QED BY <1>18, <1>19

(* The pages of a patota have no place, and then it has no pages. *)
Vaciada(r, p) == [r EXCEPT !.tablas[p] = <<>>]
LEMMA VaciadaBien ==
  ASSUME NEW r, NEW p \in Patotas, NEW X, X = {y \in EnTabla(r) : y[1] = p}, BienPuestas(r, X),
         NEW q, q = Vaciada(r, p)
  PROVE  /\ BienPuestas(q, {}) /\ Ajenos(r, q) /\ MismosMapas(r, q)
         /\ \A o \in Patotas : Len(q.tablas[o]) = IF o = p THEN 0 ELSE Len(r.tablas[o])
<1>1. Entera(r) /\ Puestas(r, X) /\ r.tablas \in Tablas /\ Usadas(r, EnMarcos(r, X))
  BY DEF BienPuestas, Entera
<1>2. PICK tablas : tablas = [r.tablas EXCEPT ![p] = <<>>]
  OBVIOUS
<1>3. Campos(q, r.mem, r.bitmap, r.virtual, r.virtual_bitmap, tablas, r.uso, r.clock_key, r)
  BY <1>1, <1>2 DEF Vaciada, Entera, Campos
<1>4. /\ q.mem = r.mem /\ q.bitmap = r.bitmap /\ q.virtual = r.virtual /\ q.virtual_bitmap = r.virtual_bitmap
      /\ q.tablas = tablas /\ q.uso = r.uso /\ q.clock_key = r.clock_key /\ Ajenos(r, q)
      /\ Campos(q, q.mem, q.bitmap, q.virtual, q.virtual_bitmap, q.tablas, q.uso, q.clock_key, q)
  BY <1>3, CamposEnteros
<1>5. SinTabla(q, r, p)
  BY <1>2, <1>4 DEF SinTabla
<1>6. /\ q.tablas \in Tablas
      /\ \A o \in Patotas : Len(q.tablas[o]) = IF o = p THEN 0 ELSE Len(r.tablas[o])
      /\ \A y : y \in EnTabla(q) <=> y \in EnTabla(r) /\ y[1] # p
      /\ \A y \in EnTabla(q) : Pag(q, y) = Pag(r, y)
  BY <1>1, <1>5, TablaVacia
<1>7. Entera(q)
  BY <1>1, <1>4, <1>6 DEF Entera
<1>8. MismosMapas(r, q)
  BY <1>4 DEF MismosMapas
<1>9. EnTabla(q) \ {} = EnTabla(r) \ X
  BY <1>6
<1>10. Tomados(q) = Tomados(r)
  BY <1>4 DEF Tomados, Ajenos
<1>11. \A y \in EnTabla(q) : y \in EnTabla(r) /\ Sitios(q)[y] = Sitios(r)[y]
  BY <1>6 DEF Sitios
<1>12. Puestas(q, {})
  <2>1. UnoACadaUno(EnTabla(r) \ X, Sitios(r), Tomados(r)) /\ r.perdidos \subseteq r.virtual_bitmap
    BY <1>1 DEF Puestas
  <2>2. UnoACadaUno(EnTabla(q) \ {}, Sitios(q), Tomados(q))
    BY <2>1, <1>9, <1>10, <1>11 DEF UnoACadaUno
  <2>3. q.perdidos \subseteq q.virtual_bitmap
    BY <2>1, <1>4 DEF Ajenos
  <2> QED BY <2>2, <2>3 DEF Puestas
<1>13. EnMarcos(q, {}) = EnMarcos(r, X)
  <2>1. \A y : y \in EnMarcos(q, {}) <=> y \in EnMarcos(r, X)
    BY <1>6, <1>9 DEF EnMarcos
  <2> QED BY <2>1
<1> QED BY <1>1, <1>4, <1>6, <1>7, <1>8, <1>12, <1>13 DEF BienPuestas, Usadas

(* The first pages of a patota given back, one after the other. *)
Soltadas(r, p, k, q) ==
  /\ BienPuestas(q, Primeras(p, k)) /\ q.tablas = r.tablas /\ Ajenos(r, q)
  /\ Ocupan(q) = Ocupan(r) - k
LEMMA SoltarTodas ==
  ASSUME NEW r, BienPuestas(r, {}), NEW p \in Patotas, NEW xs, LasDe(xs, r, p),
         NEW v, v = FoldLeft(Soltar, r, xs), NEW q, q = Vaciada(v, p)
  PROVE  /\ BienPuestas(q, {}) /\ Ajenos(r, q) /\ Ocupan(q) = Ocupan(r) - Len(r.tablas[p])
         /\ \A o \in Patotas : Len(q.tablas[o]) = IF o = p THEN 0 ELSE Len(r.tablas[o])
<1>1. r.tablas \in Tablas /\ Ocupan(r) \in Nat
  BY CuentaDeLugares DEF BienPuestas, Entera
<1>2. PICK n \in Nat : n = Len(r.tablas[p])
  BY <1>1 DEF Tablas
<1>3. /\ Len(xs) = n /\ DOMAIN xs = 1..n /\ \A j \in 1..n : xs[j] = <<p, j>> /\ xs[j] \in EnTabla(r)
      /\ Primeras(p, n) = {y \in EnTabla(r) : y[1] = p}
  BY <1>1, <1>2, LugaresDe
<1>4. PICK a : Cadena(a, "soltar", 0, r, xs) /\ FoldLeft(Soltar, r, xs) = a[Len(xs)]
  BY <1>3, PliegaSoltar
<1> DEFINE G == {k \in 0..n : Soltadas(r, p, k, a[k])}
<1>5. 0 \in G
  <2>1. a[0] = r /\ Primeras(p, 0) = {}
    BY <1>4, PrimerasMas DEF Cadena
  <2>2. Ocupan(r) = Ocupan(r) - 0
    BY <1>1
  <2>3. Soltadas(r, p, 0, a[0])
    BY <2>1, <2>2 DEF Soltadas, Ajenos
  <2> QED BY <2>3
<1>6. ASSUME NEW k \in 0..(n - 1), k \in G PROVE k + 1 \in G
  <2>1. k + 1 \in 1..n /\ k + 1 - 1 = k /\ k + 1 \in 0..n /\ k \in Nat
    BY <1>2
  <2>2. PICK u : u = a[k]
    OBVIOUS
  <2>3. PICK w : w = a[k + 1]
    OBVIOUS
  <2>4. PICK x : x = <<p, k + 1>>
    OBVIOUS
  <2>5. w = Soltar(u, x)
    <3>1. a[k + 1] = Soltar(a[k], xs[k + 1])
      BY <1>3, <1>4, <2>1 DEF Cadena, Paso
    <3>2. xs[k + 1] = x
      BY <1>3, <2>1, <2>4
    <3> QED BY <2>2, <2>3, <3>1, <3>2
  <2>6. Soltadas(r, p, k, u)
    BY <1>6, <2>2
  <2>7. x \in EnTabla(u)
    BY <1>3, <2>1, <2>4, <2>6 DEF Soltadas, EnTabla
  <2>8. PICK X : X = Primeras(p, k)
    OBVIOUS
  <2>9. x \notin X /\ Primeras(p, k + 1) = X \cup {x}
    BY <2>1, <2>4, <2>8, PrimerasMas
  <2>10. BienPuestas(u, X)
    BY <2>6, <2>8 DEF Soltadas
  <2>11. BienPuestas(w, X \cup {x}) /\ w.tablas = u.tablas /\ Ajenos(u, w) /\ Ocupan(w) = Ocupan(u) - 1
    BY <2>5, <2>7, <2>9, <2>10, SoltarBien
  <2>12. Ocupan(w) = Ocupan(r) - (k + 1)
    BY <1>1, <2>1, <2>6, <2>11 DEF Soltadas
  <2>13. Soltadas(r, p, k + 1, w)
    BY <2>6, <2>9, <2>11, <2>12 DEF Soltadas, Ajenos
  <2> QED BY <2>1, <2>3, <2>13
<1> HIDE DEF G
<1>7. \A k \in 0..n : k \in G
  BY <1>5, <1>6, PorPasos
<1>8. n \in 0..n
  OBVIOUS
<1>9. Soltadas(r, p, n, v)
  BY <1>3, <1>4, <1>7, <1>8 DEF G
<1>10. PICK X : X = Primeras(p, n)
  OBVIOUS
<1>11. X = {y \in EnTabla(v) : y[1] = p} /\ BienPuestas(v, X)
  <2>1. EnTabla(v) = EnTabla(r)
    BY <1>9 DEF Soltadas, EnTabla
  <2> QED BY <1>3, <1>9, <1>10, <2>1 DEF Soltadas
<1>12. /\ BienPuestas(q, {}) /\ Ajenos(v, q) /\ MismosMapas(v, q)
       /\ \A o \in Patotas : Len(q.tablas[o]) = IF o = p THEN 0 ELSE Len(v.tablas[o])
  BY <1>11, VaciadaBien
<1>13. Ajenos(r, q) /\ Ocupan(q) = Ocupan(r) - n
  BY <1>9, <1>12 DEF Soltadas, Ajenos, MismosMapas, Ocupan
<1> QED BY <1>2, <1>9, <1>12, <1>13 DEF Soltadas

(* The first pages of a patota eliminated, one after the other. *)
Descartadas(r, p, k, q) ==
  /\ BienPuestas(q, Primeras(p, k)) /\ MismasTablas(r, q) /\ Ocupan(q) <= Ocupan(r) /\ Ocupan(q) \in Nat
  /\ q.claves = r.claves /\ q.sinMarco = r.sinMarco /\ Inofensivas(q, Primeras(p, k))
LEMMA EliminarBien ==
  ASSUME NEW r, BienPuestas(r, {}), NEW p \in Patotas, NEW q, q = remove_pcb_from_page(r, p)
  PROVE  /\ BienPuestas(q, {}) /\ Ocupan(q) <= Ocupan(r) /\ q.claves = r.claves /\ q.sinMarco = r.sinMarco
         /\ \A o \in Patotas : Len(q.tablas[o]) = IF o = p THEN 0 ELSE Len(r.tablas[o])
<1>1. r.tablas \in Tablas /\ Ocupan(r) \in Nat
  BY CuentaDeLugares DEF BienPuestas, Entera
<1>2. PICK n \in Nat : n = Len(r.tablas[p])
  BY <1>1 DEF Tablas
<1>0. PICK xs : LasDe(xs, r, p)
  BY DEF LasDe
<1>3. /\ Len(xs) = n /\ DOMAIN xs = 1..n /\ \A j \in 1..n : xs[j] = <<p, j>> /\ xs[j] \in EnTabla(r)
      /\ Primeras(p, n) = {y \in EnTabla(r) : y[1] = p}
  BY <1>0, <1>1, <1>2, LugaresDe
<1>4. PICK a : Cadena(a, "descartar", 0, r, xs) /\ FoldLeft(Descartar, r, xs) = a[Len(xs)]
  BY <1>3, PliegaDescartar
<1> DEFINE G == {k \in 0..n : Descartadas(r, p, k, a[k])}
<1>5. 0 \in G
  <2>1. a[0] = r /\ Primeras(p, 0) = {}
    BY <1>4, PrimerasMas DEF Cadena
  <2>2. Ocupan(r) <= Ocupan(r) /\ Inofensivas(r, {})
    BY <1>1 DEF Inofensivas
  <2>3. Descartadas(r, p, 0, a[0])
    BY <1>1, <2>1, <2>2 DEF Descartadas, MismasTablas
  <2> QED BY <2>3
<1>6. ASSUME NEW k \in 0..(n - 1), k \in G PROVE k + 1 \in G
  <2>1. k + 1 \in 1..n /\ k + 1 - 1 = k /\ k + 1 \in 0..n /\ k \in Nat
    BY <1>2
  <2>2. PICK u : u = a[k]
    OBVIOUS
  <2>3. PICK w : w = a[k + 1]
    OBVIOUS
  <2>4. PICK x : x = <<p, k + 1>>
    OBVIOUS
  <2>5. w = Descartar(u, x)
    <3>1. a[k + 1] = Descartar(a[k], xs[k + 1])
      BY <1>3, <1>4, <2>1 DEF Cadena, Paso
    <3>2. xs[k + 1] = x
      BY <1>3, <2>1, <2>4
    <3> QED BY <2>2, <2>3, <3>1, <3>2
  <2>6. Descartadas(r, p, k, u)
    BY <1>6, <2>2
  <2>7. x \in EnTabla(u)
    BY <1>3, <2>1, <2>4, <2>6 DEF Descartadas, MismasTablas
  <2>8. PICK X : X = Primeras(p, k)
    OBVIOUS
  <2>9. x \notin X /\ Primeras(p, k + 1) = X \cup {x}
    BY <2>1, <2>4, <2>8, PrimerasMas
  <2>10. BienPuestas(u, X) /\ Inofensivas(u, X)
    BY <2>6, <2>8 DEF Descartadas
  <2>11. Descartada(u, w, X, x)
    BY <2>5, <2>7, <2>9, <2>10, DescartarBien
  <2>12. Ocupan(w) \in Nat
    BY <2>11, CuentaDeLugares DEF Descartada, BienPuestas
  <2>13. Ocupan(w) <= Ocupan(r)
    BY <1>1, <2>6, <2>11, <2>12 DEF Descartadas, Descartada
  <2>14. MismasTablas(r, w) /\ w.claves = r.claves /\ w.sinMarco = r.sinMarco
    BY <2>6, <2>11 DEF Descartadas, Descartada, MismasTablas
  <2>15. BienPuestas(w, Primeras(p, k + 1)) /\ Inofensivas(w, Primeras(p, k + 1))
    BY <2>9, <2>11 DEF Descartada
  <2>16. Descartadas(r, p, k + 1, w)
    BY <2>12, <2>13, <2>14, <2>15 DEF Descartadas
  <2> QED BY <2>1, <2>3, <2>16
<1> HIDE DEF G
<1>7. \A k \in 0..n : k \in G
  BY <1>5, <1>6, PorPasos
<1>8. n \in 0..n
  OBVIOUS
<1>14. PICK v : v = FoldLeft(Descartar, r, xs)
  OBVIOUS
<1>9. Descartadas(r, p, n, v)
  BY <1>3, <1>4, <1>7, <1>8, <1>14 DEF G
<1>10. PICK X : X = Primeras(p, n)
  OBVIOUS
<1>11. X = {y \in EnTabla(v) : y[1] = p} /\ BienPuestas(v, X)
  BY <1>3, <1>9, <1>10 DEF Descartadas, MismasTablas
<1>15. q = Vaciada(v, p)
  BY <1>0, <1>14 DEF remove_pcb_from_page, Vaciada, LasDe
<1>12. /\ BienPuestas(q, {}) /\ Ajenos(v, q) /\ MismosMapas(v, q)
       /\ \A o \in Patotas : Len(q.tablas[o]) = IF o = p THEN 0 ELSE Len(v.tablas[o])
  BY <1>11, <1>15, VaciadaBien
<1>13. q.claves = r.claves /\ q.sinMarco = r.sinMarco /\ Ocupan(q) <= Ocupan(r)
  BY <1>9, <1>12 DEF Descartadas, Ajenos, MismosMapas, Ocupan
<1> QED BY <1>9, <1>12, <1>13 DEF Descartadas, MismasTablas

(* A patota without pages takes so many, when as many places are left. *)
Alojadas(r, p, k, q) ==
  /\ BienPuestas(q, {}) /\ Ajenos(r, q) /\ Ocupan(q) = Ocupan(r) + k
  /\ \A o \in Patotas : Len(q.tablas[o]) = IF o = p THEN k ELSE Len(r.tablas[o])
Numerados(xs, m) == xs = [j \in 1..m |-> j]
LEMMA AlojarTodas ==
  ASSUME NEW r, BienPuestas(r, {}), NEW p \in Patotas, Len(r.tablas[p]) = 0, NEW m \in Nat,
         Ocupan(r) + m <= Marcos + MarcosVirtual, NEW xs, Numerados(xs, m), NEW img,
         NEW q, q = Alojando(r, p, img, xs)
  PROVE  Alojadas(r, p, m, q)
<1>1. r.tablas \in Tablas /\ Ocupan(r) \in Nat /\ Marcos + MarcosVirtual \in Nat
  <2>1. Entera(r)
    BY DEF BienPuestas
  <2>2. Ocupan(r) \in Nat
    BY <2>1, CuentaDeLugares
  <2>3. Marcos + MarcosVirtual \in Nat
    BY PaginasOK
  <2> QED BY <2>1, <2>2, <2>3 DEF Entera
<1>2. Len(xs) = m /\ DOMAIN xs = 1..m /\ \A j \in 1..m : xs[j] = j
  <2>1. xs = [j \in 1..m |-> j]
    BY DEF Numerados
  <2>2. xs \in [1..m -> Nat]
    BY <2>1
  <2>3. Len(xs) = m
    BY <2>2, FuncionEsSucesion
  <2> QED BY <2>1, <2>3
<1>3. PICK a : Cadena(a, "alojar", <<p, img>>, r, xs) /\ Alojando(r, p, img, xs) = a[Len(xs)]
  BY <1>2, PliegaAlojar
<1> DEFINE G == {k \in 0..m : Alojadas(r, p, k, a[k])}
<1>4. 0 \in G
  <2>1. a[0] = r
    BY <1>3 DEF Cadena
  <2>2. Ocupan(r) = Ocupan(r) + 0
    BY <1>1
  <2>3. Alojadas(r, p, 0, a[0])
    BY <2>1, <2>2 DEF Alojadas, Ajenos
  <2> QED BY <2>3
<1>5. ASSUME NEW k \in 0..(m - 1), k \in G PROVE k + 1 \in G
  <2>1. k + 1 \in 1..m /\ k + 1 - 1 = k /\ k + 1 \in 0..m /\ k \in Nat
    OBVIOUS
  <2>2. PICK u : u = a[k]
    OBVIOUS
  <2>3. PICK w : w = a[k + 1]
    OBVIOUS
  <2>4. PICK x : x = <<p, k + 1>>
    OBVIOUS
  <2>5. PICK h : h = Trozo(img, k + 1)
    OBVIOUS
  <2>6. w = Alojar(u, x, h)
    <3>1. a[k + 1] = Alojar(a[k], <<p, xs[k + 1]>>, Trozo(img, xs[k + 1]))
      BY <1>2, <1>3, <2>1 DEF Cadena, Paso
    <3>2. xs[k + 1] = k + 1
      BY <1>2, <2>1
    <3> QED BY <2>2, <2>3, <2>4, <2>5, <3>1, <3>2
  <2>7. Alojadas(r, p, k, u)
    BY <1>5, <2>2
  <2>8. BienPuestas(u, {}) /\ Len(u.tablas[p]) = k /\ u.tablas \in Tablas
    BY <2>7 DEF Alojadas, BienPuestas, Entera
  <2>9. Cabe(u, {}, x) /\ x \notin EnTabla(u) /\ x[1] = p
    <3>1. x[1] = p /\ x[2] = k + 1 /\ ~(k + 1 <= k)
      BY <2>1, <2>4
    <3>2. x \notin EnTabla(u)
      BY <2>8, <3>1, EnTablaEs
    <3> QED BY <2>4, <2>8, <3>1, <3>2 DEF Cabe
  <2>10. Hoja(h)
    BY <2>5 DEF Hoja, Trozo
  <2>11. Ocupan(u) < Marcos + MarcosVirtual
    BY <1>1, <2>7 DEF Alojadas
  <2>12. Colocada(u, w, {}, x)
    BY <2>6, <2>8, <2>9, <2>10, <2>11, AlojarBien
  <2>13. {} \ {x} = {}
    OBVIOUS
  <2>14. Ocupan(w) = Ocupan(r) + (k + 1)
    BY <1>1, <2>7, <2>12 DEF Alojadas, Colocada
  <2>15. \A o \in Patotas : Len(w.tablas[o]) = IF o = p THEN k + 1 ELSE Len(r.tablas[o])
    BY <2>7, <2>9, <2>12 DEF Alojadas, Colocada, Crece
  <2>16. Alojadas(r, p, k + 1, w)
    BY <2>7, <2>12, <2>13, <2>14, <2>15 DEF Alojadas, Colocada, Ajenos
  <2> QED BY <2>1, <2>3, <2>16
<1> HIDE DEF G
<1>6. \A k \in 0..m : k \in G
  BY <1>4, <1>5, PorPasos
<1>7. m \in 0..m
  OBVIOUS
<1> QED BY <1>2, <1>3, <1>6, <1>7 DEF G

(* What is left of the image of a patota without the TCB after a cells. *)
LEMMA SinUnTCB ==
  ASSUME NEW temp, NEW a \in Nat, NEW n \in Nat, NEW b \in Nat
  PROVE  Len(SubSeq(temp, 1, a) \o SubSeq(temp, b + 1, b + n)) = a + n
<1>1. SubSeq(temp, 1, a) = [i \in 1..a |-> temp[i]]
  OBVIOUS
<1>2. SubSeq(temp, b + 1, b + n) = [i \in 1..n |-> temp[i + b]]
  OBVIOUS
<1>3. SubSeq(temp, 1, a) \in Seq({temp[i] : i \in Int}) /\ Len(SubSeq(temp, 1, a)) = a
  BY <1>1
<1>4. SubSeq(temp, b + 1, b + n) \in Seq({temp[i] : i \in Int}) /\ Len(SubSeq(temp, b + 1, b + n)) = n
  BY <1>2
<1> QED BY <1>3, <1>4, ConcatProperties

(* An expulsion gives every page back, and what is left takes no more.      *)
Expulsada(r, p, e) ==
  /\ BienPuestas(e.ram, {}) /\ Ajenos(r, e.ram) /\ Ocupan(e.ram) <= Ocupan(r) /\ e.cantidad \in 0..admin[p]
  /\ \A o \in Patotas : o # p => Len(e.ram.tablas[o]) = Len(r.tablas[o])
  /\ Len(e.ram.tablas[p]) = 0 \/ Len(e.ram.tablas[p]) = CantidadPaginas(start[p] + e.cantidad * TamTCB)
QuitarTCB(r, p, t) ==      \* as the model, its last fold named
  LET xs   == [j \in DOMAIN r.tablas[p] |-> <<p, j>>]
      temp == FlattenSeq([j \in DOMAIN xs |-> Contenido(r, xs[j])])
      v    == [FoldLeft(Soltar, r, xs) EXCEPT !.tablas[p] = <<>>]
      ks   == {k \in 0..(admin[p] - 1) : temp[start[p] + k * TamTCB + Tid] = Celda("tid", t)}
      img  == SubSeq(temp, 1, start[p] + Min(ks) * TamTCB)
                \o SubSeq(temp, start[p] + Min(ks) * TamTCB + TamTCB + 1, start[p] + admin[p] * TamTCB)
  IN  IF ks = {} THEN [ram |-> v, cantidad |-> admin[p]] ELSE
      [ram |-> Alojando(v, p, img, [j \in 1..CantidadPaginas(Len(img)) |-> j]), cantidad |-> admin[p] - 1]
LEMMA ExpulsarBien ==
  ASSUME NEW r, BienPuestas(r, {}), NEW p \in Patotas, admin[p] \in Nat,
         Len(r.tablas[p]) = CantidadPaginas(start[p] + admin[p] * TamTCB),
         NEW t, NEW e, e = remove_tcb_from_page(r, p, t)
  PROVE  Expulsada(r, p, e)
<1> DEFINE hojas(xs) == FlattenSeq([j \in DOMAIN xs |-> Contenido(r, xs[j])])
           tcbs(temp) == {k \in 0..(admin[p] - 1) : temp[start[p] + k * TamTCB + Tid] = Celda("tid", t)}
           queda(temp, k) == SubSeq(temp, 1, start[p] + k * TamTCB)
                               \o SubSeq(temp, start[p] + k * TamTCB + TamTCB + 1, start[p] + admin[p] * TamTCB)
<1>1. PICK xs : LasDe(xs, r, p)
  BY DEF LasDe
<1>2. PICK temp : temp = hojas(xs)
  OBVIOUS
<1>3. PICK ks : ks = tcbs(temp)
  OBVIOUS
<1>4. PICK v : v = Vaciada(FoldLeft(Soltar, r, xs), p)
  OBVIOUS
<1>5. PICK img : img = queda(temp, Min(ks))
  OBVIOUS
<1>6. e = IF ks = {} THEN [ram |-> v, cantidad |-> admin[p]] ELSE
          [ram |-> Alojando(v, p, img, [j \in 1..CantidadPaginas(Len(img)) |-> j]), cantidad |-> admin[p] - 1]
  <2>1. xs = [j \in DOMAIN r.tablas[p] |-> <<p, j>>]
    BY <1>1 DEF LasDe
  <2>2. v = [FoldLeft(Soltar, r, xs) EXCEPT !.tablas[p] = <<>>]
    BY <1>4 DEF Vaciada
  <2>3. temp = FlattenSeq([j \in DOMAIN xs |-> Contenido(r, xs[j])])
    BY <1>2
  <2>4. ks = {k \in 0..(admin[p] - 1) : temp[start[p] + k * TamTCB + Tid] = Celda("tid", t)}
    BY <1>3
  <2>5. img = SubSeq(temp, 1, start[p] + Min(ks) * TamTCB)
                \o SubSeq(temp, start[p] + Min(ks) * TamTCB + TamTCB + 1, start[p] + admin[p] * TamTCB)
    BY <1>5
  <2>6. e = QuitarTCB(r, p, t)
    BY DEF remove_tcb_from_page, QuitarTCB, Alojando
  <2> HIDE DEF hojas, tcbs, queda
  <2> QED BY <2>1, <2>2, <2>3, <2>4, <2>5, <2>6, Zenon DEF QuitarTCB
<1>7. PICK l \in Nat : l = Len(r.tablas[p])
  BY DEF BienPuestas, Entera, Tablas
<1>8. /\ BienPuestas(v, {}) /\ Ajenos(r, v) /\ Ocupan(v) = Ocupan(r) - l
      /\ \A o \in Patotas : Len(v.tablas[o]) = IF o = p THEN 0 ELSE Len(r.tablas[o])
  BY <1>1, <1>4, <1>7, SoltarTodas
<1>9. Ocupan(r) \in Nat /\ Ocupan(r) <= Marcos + MarcosVirtual
  <2>1. Entera(r)
    BY DEF BienPuestas
  <2>2. /\ Cardinality(r.bitmap) \in Nat /\ Cardinality(r.virtual_bitmap) \in Nat
        /\ Cardinality(r.bitmap) <= Marcos /\ Cardinality(r.virtual_bitmap) <= MarcosVirtual
    BY <2>1, CuentaDeLugares
  <2> QED BY <2>2, PaginasOK DEF Ocupan
<1>10. PICK s \in Nat : s = start[p]
  BY Comienzo
<1>11. PICK c \in Nat : c = admin[p]
  OBVIOUS
<1>12. CASE ks = {}
  <2>1. e.ram = v /\ e.cantidad = c
    BY <1>6, <1>11, <1>12
  <2>2. Ocupan(v) <= Ocupan(r)
    BY <1>7, <1>8, <1>9
  <2> QED BY <1>8, <1>11, <2>1, <2>2 DEF Expulsada
<1>13. CASE ks # {}
  <2>1. ks \subseteq 0..(c - 1)
    BY <1>3, <1>11
  <2>2. PICK k \in 0..(c - 1) : k = Min(ks)
    <3>1. ks \subseteq Nat
      BY <2>1
    <3> QED BY <1>13, <2>1, <3>1, MinimoEn
  <2>3. PICK a \in Nat : a = s + k * 4
    BY <2>2
  <2>4. PICK n \in Nat : n = (c - 1 - k) * 4
    BY <2>2
  <2>5. img = SubSeq(temp, 1, a) \o SubSeq(temp, a + 4 + 1, a + 4 + n)
    <3>1. a + 4 + n = s + c * 4
      BY <2>2, <2>3, <2>4
    <3> QED BY <1>5, <1>10, <1>11, <2>2, <2>3, <3>1 DEF TamTCB
  <2>6. Len(img) = a + n
    <3>1. a + 4 \in Nat
      OBVIOUS
    <3> QED BY <2>5, <3>1, SinUnTCB
  <2>7. Len(img) = s + (c - 1) * 4 /\ s + (c - 1) * 4 \in Nat /\ s + (c - 1) * 4 <= s + c * 4 /\ s + c * 4 \in Nat
    BY <2>2, <2>3, <2>4, <2>6
  <2>8. PICK m \in Nat : m = CantidadPaginas(s + (c - 1) * 4) /\ m <= CantidadPaginas(s + c * 4)
    BY <2>7, CantidadBasta
  <2>9. m <= l /\ CantidadPaginas(Len(img)) = m
    BY <1>7, <1>10, <1>11, <2>7, <2>8 DEF TamTCB
  <2>10. PICK ys : Numerados(ys, m)
    BY DEF Numerados
  <2>11. PICK q : q = Alojando(v, p, img, ys)
    OBVIOUS
  <2>12. e.ram = q /\ e.cantidad = c - 1
    BY <1>6, <1>11, <1>13, <2>9, <2>10, <2>11 DEF Numerados
  <2>13. Len(v.tablas[p]) = 0 /\ Ocupan(v) + m <= Marcos + MarcosVirtual /\ Ocupan(v) + m <= Ocupan(r)
    BY <1>8, <1>9, <2>9, PaginasOK
  <2>14. Alojadas(v, p, m, q)
    BY <1>8, <2>10, <2>11, <2>13, AlojarTodas
  <2>15. BienPuestas(q, {}) /\ Ajenos(r, q) /\ Ocupan(q) <= Ocupan(r)
    BY <1>8, <2>13, <2>14 DEF Alojadas, Ajenos
  <2>16. c - 1 \in 0..c
    BY <2>2
  <2>17. \A o \in Patotas : o # p => Len(q.tablas[o]) = Len(r.tablas[o])
    BY <1>8, <2>14 DEF Alojadas
  <2>18. Len(q.tablas[p]) = CantidadPaginas(s + (c - 1) * 4)
    BY <2>8, <2>14 DEF Alojadas
  <2> QED BY <1>10, <1>11, <2>12, <2>15, <2>16, <2>17, <2>18 DEF Expulsada, TamTCB
<1> QED BY <1>12, <1>13

(* A buffer written back changes what the frames hold, and nothing else. *)
Escrita(r, n, h) == [r EXCEPT !.mem[n] = h]
LEMMA EscritaBien ==
  ASSUME NEW r, BienPuestas(r, {}), NEW n \in 0..(Marcos - 1), NEW h, Hoja(h), NEW q, q = Escrita(r, n, h)
  PROVE  MismoLugar(r, q) /\ q.tablas = r.tablas
<1>1. Entera(r) /\ Puestas(r, {}) /\ Usadas(r, EnMarcos(r, {}))
  BY DEF BienPuestas
<1>2. PICK mem : mem = [r.mem EXCEPT ![n] = h]
  OBVIOUS
<1>3. Campos(q, mem, r.bitmap, r.virtual, r.virtual_bitmap, r.tablas, r.uso, r.clock_key, r)
  BY <1>1, <1>2 DEF Escrita, Entera, Campos
<1>4. /\ q.mem = mem /\ q.bitmap = r.bitmap /\ q.virtual = r.virtual /\ q.virtual_bitmap = r.virtual_bitmap
      /\ q.tablas = r.tablas /\ q.uso = r.uso /\ q.clock_key = r.clock_key /\ Ajenos(r, q)
      /\ Campos(q, q.mem, q.bitmap, q.virtual, q.virtual_bitmap, q.tablas, q.uso, q.clock_key, q)
  BY <1>3, CamposEnteros
<1>5. mem = [i \in 0..(Marcos - 1) |-> mem[i]] /\ \A i \in 0..(Marcos - 1) : Hoja(mem[i])
  <2>1. r.mem = [i \in 0..(Marcos - 1) |-> r.mem[i]] /\ \A i \in 0..(Marcos - 1) : Hoja(r.mem[i])
    BY <1>1 DEF Entera
  <2> QED BY <1>2, <2>1
<1>6. Entera(q)
  BY <1>1, <1>4, <1>5 DEF Entera
<1>7. MismosMapas(r, q)
  BY <1>4 DEF MismosMapas
<1>8. MismasTablas(r, q) /\ Puestas(q, {}) /\ EnMarcos(q, {}) = EnMarcos(r, {}) /\ Ocupan(q) = Ocupan(r)
  BY <1>1, <1>4, <1>7, MismoReparto
<1>9. Usadas(q, EnMarcos(q, {}))
  BY <1>1, <1>4, <1>8 DEF Usadas
<1> QED BY <1>4, <1>6, <1>8, <1>9 DEF BienPuestas, MismoLugar

(* The pages of the TCBs written back. *)
LEMMA VolcarBien ==
  ASSUME NEW r, BienPuestas(r, {}), NEW p \in Patotas, NEW temp, NEW q, q = Volcar(r, p, temp)
  PROVE  MismoLugar(r, q)
<1>1. PICK xs : xs = PaginasTCB(r, p)
  OBVIOUS
<1>2. PICK n \in Nat : n = Len(xs) /\ DOMAIN xs = 1..n
  BY <1>1, PaginasTCBEstan DEF BienPuestas, Entera
<1>3. PICK a : Cadena(a, "volcar", <<p, temp>>, r, xs) /\ Volcando(r, p, temp, xs) = a[Len(xs)]
  BY <1>2, PliegaVolcar
<1>4. q = Volcando(r, p, temp, xs)
  BY <1>1, Zenon DEF Volcar, Volcando
<1> DEFINE G == {k \in 0..n : MismoLugar(r, a[k])}
<1>5. 0 \in G
  BY <1>3, MismoLugarSigue DEF Cadena
<1>6. ASSUME NEW k \in 0..(n - 1), k \in G PROVE k + 1 \in G
  <2>1. k + 1 \in 1..n /\ k + 1 - 1 = k /\ k + 1 \in 0..n
    BY <1>2
  <2>2. PICK u : u = a[k]
    OBVIOUS
  <2>3. PICK w : w = a[k + 1]
    OBVIOUS
  <2>4. PICK m : m = Pag(u, xs[k + 1]).number
    OBVIOUS
  <2>5. PICK h : h = Trozo(temp, xs[k + 1][2] - page_number[p])
    OBVIOUS
  <2>6. w = IF m \in DOMAIN u.mem THEN Escrita(u, m, h) ELSE u
    <3>1. a[k + 1] = Paso("volcar", <<p, temp>>, a[k], xs[k + 1])
      BY <1>2, <1>3, <2>1 DEF Cadena
    <3>2. Paso("volcar", <<p, temp>>, u, xs[k + 1])
            = IF m \in DOMAIN u.mem THEN [u EXCEPT !.mem[m] = h] ELSE u
      BY <2>4, <2>5 DEF Paso
    <3> QED BY <2>2, <2>3, <3>1, <3>2 DEF Escrita
  <2>7. MismoLugar(r, u)
    BY <1>6, <2>2
  <2>8. BienPuestas(u, {})
    BY <2>7, MismoLugarSigue
  <2>9. Hoja(h)
    BY <2>5 DEF Hoja, Trozo
  <2>10. MismoLugar(u, w)
    <3>1. CASE m \in DOMAIN u.mem
      <4>1. m \in 0..(Marcos - 1)
        BY <2>8, <3>1 DEF BienPuestas, Entera
      <4> QED BY <2>6, <2>8, <2>9, <3>1, <4>1, EscritaBien
    <3>2. CASE m \notin DOMAIN u.mem
      BY <2>6, <2>8, <3>2, MismoLugarSigue
    <3> QED BY <3>1, <3>2
  <2>11. MismoLugar(r, w)
    BY <2>7, <2>10, MismoLugarSigue
  <2> QED BY <2>1, <2>3, <2>11
<1> HIDE DEF G
<1>7. \A k \in 0..n : k \in G
  BY <1>5, <1>6, PorPasos
<1>8. n \in 0..n
  OBVIOUS
<1> QED BY <1>2, <1>3, <1>4, <1>7, <1>8 DEF G

(* Only tripulantes are drawn on the map. *)
LEMMA EnMapaBien ==
  ASSUME NEW m, DOMAIN m \subseteq Trips, NEW p \in Patotas
  PROVE  DOMAIN EnMapa(m, p) \subseteq Trips
<1>1. PICK xs : xs = Inscriptos[p]
  OBVIOUS
<1>2. PICK n \in Nat : n = Len(xs) /\ DOMAIN xs = 1..n /\ \A k \in 1..n : xs[k] \in Trips
  <2>1. xs \in Seq(Miembros(p)) /\ Miembros(p) \subseteq Trips
    BY <1>1, InscriptosOrden
  <2> QED BY <2>1
<1>3. PICK a : Cadena(a, "crear", 0, m, xs) /\ Dibujando(m, xs) = a[Len(xs)]
  BY <1>2, PliegaCrear
<1>4. EnMapa(m, p) = Dibujando(m, xs)
  BY <1>1, Zenon DEF EnMapa, Dibujando
<1> DEFINE G == {k \in 0..n : DOMAIN a[k] \subseteq Trips}
<1>5. 0 \in G
  BY <1>3 DEF Cadena
<1>6. ASSUME NEW k \in 0..(n - 1), k \in G PROVE k + 1 \in G
  <2>1. k + 1 \in 1..n /\ k + 1 - 1 = k /\ k + 1 \in 0..n
    BY <1>2
  <2>2. a[k + 1] = personaje_crear(a[k], xs[k + 1], Inicial[xs[k + 1]])
    BY <1>2, <1>3, <2>1 DEF Cadena, Paso
  <2>3. DOMAIN a[k + 1] \subseteq DOMAIN a[k] \cup {xs[k + 1]}
    BY <2>2 DEF personaje_crear
  <2> QED BY <1>2, <1>6, <2>1, <2>3
<1> HIDE DEF G
<1>7. \A k \in 0..n : k \in G
  BY <1>5, <1>6, PorPasos
<1>8. n \in 0..n
  OBVIOUS
<1> QED BY <1>2, <1>3, <1>4, <1>7, <1>8 DEF G

-----------------------------------------------------------------------------
(* The invariant *)

(* A patota has no pages, or those of its tasks, its PCB and the TCBs left; *)
(* the one being initiated, those stored so far.                            *)
LargoTablas == \A p \in Patotas :
  /\ p \in iniciadas => \/ Len(ram.tablas[p]) = 0
                        \/ admin[p] \in Nat /\ Len(ram.tablas[p]) = CantidadPaginas(start[p] + admin[p] * TamTCB)
  /\ p \notin iniciadas => Len(ram.tablas[p]) = IF p = iniciando.p THEN iniciando.j - 1 ELSE 0
(* The places a patota being initiated still needs are free, and so is the  *)
(* frame it took for the next page; meanwhile nobody else is served.        *)
Reservado(p, j, n, q) ==
  /\ Ocupan(q) + (CantidadPaginas(memory_size[p]) + 1 - j) <= Marcos + MarcosVirtual
  /\ n # -1 => n \notin q.bitmap
Iniciandose ==
  \/ iniciando = NoInicia
  \/ \E p \in Patotas : \E j \in 1..CantidadPaginas(memory_size[p]), n \in -1..(Marcos - 1) :
       /\ p \in pedidas \ iniciadas /\ iniciando = [p |-> p, j |-> j, marco |-> n] /\ Reservado(p, j, n, ram)
       /\ admin[p] = Cardinality(Miembros(p))
       /\ n # -1 => \A t \in Trips : enCurso[t] = NoCurso
Admins == admin \in [Patotas -> Int] /\ \A p \in Patotas : admin[p] \in -1..Cardinality(Miembros(p))
InvLugar ==
  /\ BienPuestas(ram, {}) /\ ram.sinMarco = FALSE /\ LargoTablas /\ Iniciandose /\ Admins
  /\ iniciadas \subseteq pedidas /\ ram.claves \subseteq pedidas /\ DOMAIN mapa \subseteq Trips
  /\ caida # "sinMarco"

(* The scheme of replacement does not change while it runs. *)
LEMMA RamSiguiente ==
  ASSUME hasLRU' = hasLRU, BienPuestas(ram', {})
  PROVE  BienPuestas(ram, {})'
<1>1. Entera(ram)' /\ Puestas(ram, {})'
  BY DEF BienPuestas
<1>2. Usadas(ram, EnMarcos(ram, {}))'
  BY DEF BienPuestas, Usadas
<1> QED BY <1>1, <1>2 DEF BienPuestas

(* With no pages and no patotas, everything is in its place. *)
LEMMA SinPaginasBien == BienPuestas(SinPaginas, {})
<1> DEFINE r == SinPaginas
<1>1. Hoja(PaginaVacia)
  BY DEF Hoja, PaginaVacia
<1>2. Campos(r, r.mem, r.bitmap, r.virtual, r.virtual_bitmap, r.tablas, r.uso, r.clock_key, r)
  BY DEF Campos, SinPaginas
<1>3. /\ r.mem = [n \in 0..(Marcos - 1) |-> PaginaVacia] /\ r.bitmap = {}
      /\ r.virtual = [n \in 0..(MarcosVirtual - 1) |-> PaginaVacia] /\ r.virtual_bitmap = {}
      /\ r.tablas = [p \in Patotas |-> <<>>] /\ r.uso = <<>> /\ r.clock_key = 0 /\ r.perdidos = {}
  BY DEF SinPaginas
<1> HIDE DEF r
<1>4. r.tablas \in Tablas /\ \A p \in Patotas : Len(r.tablas[p]) = 0
  <2>1. <<>> \in Seq(UnaPagina) /\ Len(<<>>) = 0
    OBVIOUS
  <2> HIDE DEF UnaPagina
  <2> QED BY <1>3, <2>1 DEF Tablas
<1>5. Entera(r)
  <2>1. r.uso \in Seq(Lugares) /\ r.clock_key \in Nat
    BY <1>3
  <2>2. /\ r.mem = [n \in 0..(Marcos - 1) |-> r.mem[n]] /\ \A n \in 0..(Marcos - 1) : Hoja(r.mem[n])
        /\ r.virtual = [n \in 0..(MarcosVirtual - 1) |-> r.virtual[n]]
        /\ \A n \in 0..(MarcosVirtual - 1) : Hoja(r.virtual[n])
    BY <1>1, <1>3
  <2>3. r.bitmap \subseteq 0..(Marcos - 1) /\ r.virtual_bitmap \subseteq 0..(MarcosVirtual - 1)
    BY <1>3
  <2> QED BY <1>2, <1>4, <2>1, <2>2, <2>3 DEF Entera
<1>6. EnTabla(r) = {}
  <2>1. ASSUME NEW x \in EnTabla(r) PROVE FALSE
    BY <1>4, EnTablaEs
  <2> QED BY <2>1
<1>7. Tomados(r) = {}
  BY <1>3 DEF Tomados
<1>8. Puestas(r, {}) /\ EnMarcos(r, {}) = {}
  BY <1>3, <1>6, <1>7 DEF Puestas, UnoACadaUno, EnMarcos
<1>9. Usadas(r, {})
  <2>1. ToSet(r.uso) = {} /\ IsInjective(r.uso)
    BY <1>3 DEF ToSet, IsInjective
  <2> QED BY <2>1 DEF Usadas
<1> QED BY <1>5, <1>8, <1>9 DEF BienPuestas, r

(* The lengths of the tables, and how many places are taken, are numbers. *)
LEMMA LargosNat ==
  ASSUME NEW r, BienPuestas(r, {})
  PROVE  /\ Ocupan(r) \in Nat /\ \A p \in Patotas : Len(r.tablas[p]) \in Nat
         /\ \A p \in Patotas : r.tablas[p] # <<>> => Len(r.tablas[p]) # 0
<1>1. Entera(r)
  BY DEF BienPuestas
<1>2. Ocupan(r) \in Nat
  BY <1>1, CuentaDeLugares
<1>3. \A p \in Patotas : r.tablas[p] \in Seq(UnaPagina)
  BY <1>1 DEF Entera, Tablas
<1>4. \A p \in Patotas : Len(r.tablas[p]) \in Nat /\ (r.tablas[p] # <<>> => Len(r.tablas[p]) # 0)
  <2> HIDE DEF UnaPagina
  <2> QED BY <1>3
<1> QED BY <1>2, <1>4

(* A request served whole finds no frame taken for a page to come. *)
LEMMA Atendiendo ==
  ASSUME Intercalado = FALSE, Sirve
  PROVE  iniciando.marco = -1 /\ Vive /\ \A t \in Trips : enCurso[t] = NoCurso
BY DEF Sirve

(* Where pages only move, the rest is as it was. *)
LEMMA PasoMismoLugar ==
  ASSUME InvLugar, MismoLugar(ram, ram'), iniciando.marco = -1,
         UNCHANGED <<hasLRU, iniciando, admin, pedidas, iniciadas>>, caida' # "sinMarco", DOMAIN mapa' \subseteq Trips
  PROVE  InvLugar'
<1>1. PICK q : q = ram'
  OBVIOUS
<1>2. MismoLugar(ram, q)
  BY <1>1
<1>3. /\ BienPuestas(q, {}) /\ q.claves = ram.claves /\ q.sinMarco = FALSE /\ Ocupan(q) = Ocupan(ram)
      /\ \A p \in Patotas : Len(q.tablas[p]) = Len(ram.tablas[p])
  BY <1>2 DEF MismoLugar, Ajenos, MismasTablas, InvLugar
<1>4. BienPuestas(ram, {})'
  BY <1>1, <1>3, RamSiguiente
<1>5. LargoTablas'
  BY <1>1, <1>3 DEF LargoTablas, InvLugar
<1>6. Iniciandose'
  <2>1. CASE iniciando = NoInicia
    BY <2>1 DEF Iniciandose
  <2>2. CASE iniciando # NoInicia
    <3>1. PICK p \in Patotas : \E j \in 1..CantidadPaginas(memory_size[p]), n \in -1..(Marcos - 1) :
            /\ p \in pedidas \ iniciadas /\ iniciando = [p |-> p, j |-> j, marco |-> n] /\ Reservado(p, j, n, ram)
            /\ admin[p] = Cardinality(Miembros(p))
      BY <2>2 DEF Iniciandose, InvLugar
    <3>4. PICK j \in 1..CantidadPaginas(memory_size[p]), n \in -1..(Marcos - 1) :
            /\ p \in pedidas \ iniciadas /\ iniciando = [p |-> p, j |-> j, marco |-> n] /\ Reservado(p, j, n, ram)
            /\ admin[p] = Cardinality(Miembros(p))
      BY <3>1
    <3>2. n = -1
      BY <3>4
    <3>3. Reservado(p, j, n, q)
      BY <1>3, <3>2, <3>4 DEF Reservado
    <3> QED BY <1>1, <3>2, <3>3, <3>4 DEF Iniciandose
  <2> QED BY <2>1, <2>2
<1>7. Admins'
  BY DEF Admins, InvLugar
<1> QED BY <1>1, <1>3, <1>4, <1>5, <1>6, <1>7 DEF InvLugar

(* The process dies of something else than a frame not found. *)
LEMMA PasoMuere ==
  ASSUME InvLugar, NEW causa, causa # "sinMarco", Muere(causa)
  PROVE  InvLugar'
<1>1. /\ ram' = SinPaginas /\ hasLRU' = hasLRU /\ iniciando' = NoInicia /\ mapa' = MapaVacio /\ caida' = causa
      /\ admin' = [p \in Patotas |-> SinAdmin] /\ pedidas' = pedidas /\ iniciadas' = iniciadas
  BY DEF Muere
<1>2. BienPuestas(ram, {})'
  BY <1>1, SinPaginasBien, RamSiguiente
<1>3. ram'.sinMarco = FALSE /\ ram'.claves = {} /\ \A p \in Patotas : Len(ram'.tablas[p]) = 0
  BY <1>1 DEF SinPaginas
<1>4. LargoTablas'
  <2>1. \A p \in Patotas : p # iniciando'.p
    BY <1>1, PaginasOK DEF NoInicia
  <2> QED BY <1>3, <2>1 DEF LargoTablas
<1>5. Iniciandose'
  BY <1>1 DEF Iniciandose
<1>6. Admins'
  BY <1>1, InscriptosOrden DEF Admins, SinAdmin
<1>7. DOMAIN mapa' \subseteq Trips
  BY <1>1 DEF MapaVacio
<1> QED BY <1>1, <1>2, <1>3, <1>4, <1>5, <1>6, <1>7 DEF InvLugar

-----------------------------------------------------------------------------
(* One lemma per action *)

(* What a report or a request for a task leaves in memory. *)
LEMMA PasoQueda ==
  ASSUME InvLugar, Intercalado = FALSE, Sirve, NEW q, MismoLugar(ram, q), Queda(q), DOMAIN mapa' \subseteq Trips
  PROVE  InvLugar'
<1>1. q.sinMarco = FALSE
  BY DEF MismoLugar, Ajenos, InvLugar
<1>2. ram' = q /\ UNCHANGED <<hasLRU, admin, iniciando, pedidas, iniciadas, bajas, caida>>
  BY <1>1 DEF Queda
<1>3. MismoLugar(ram, ram')
  BY <1>2
<1>4. iniciando.marco = -1
  BY Atendiendo
<1> QED BY <1>2, <1>3, <1>4, PasoMismoLugar DEF InvLugar

(* A status or a position reported. *)
LEMMA PasoReporte ==
  ASSUME InvLugar, Intercalado = FALSE, NEW t \in Trips, NEW campo, NEW celda, NEW d,
         Reporte(t, campo, celda, d), DOMAIN mapa' \subseteq Trips
  PROVE  InvLugar'
<1>1. PICK p \in Patotas : p = PatotaDe[t]
  BY PatotasOK
<1>2. PICK q : q = TraerTCBs(ram, p)
  OBVIOUS
<1>3. Sirve /\ Queda(q)
  BY <1>1, <1>2 DEF Reporte
<1>4. MismoLugar(ram, q)
  BY <1>2, TraerTCBsBien DEF InvLugar
<1> QED BY <1>3, <1>4, PasoQueda

(* The next task asked for. *)
LEMMA PasoEnviarTarea ==
  ASSUME InvLugar, Intercalado = FALSE, NEW t \in Trips, EnviarTarea(t)
  PROVE  InvLugar'
<1>1. PICK p \in Patotas : p = PatotaDe[t]
  BY PatotasOK
<1>2. PICK temp : temp = Temp(ram, p)
  OBVIOUS
<1>3. PICK prev : prev = temp[CampoEn(Min(Buscar(temp, p, t)), Siguiente, p)].valor
  OBVIOUS
<1>4. PICK w : w = TraerTCBs(ram, p)
  OBVIOUS
<1>5. PICK leida : leida = LeerTarea(w, p, prev)
  OBVIOUS
<1>6. PICK q : q = TraerTCBs(leida.ram, p)
  OBVIOUS
<1>7. /\ Sirve /\ ConPaginas(p) /\ Buscar(temp, p, t) # {} /\ prev \in 0..(Len(Texto[p]) + 1)
      /\ Queda(q) /\ mapa' = mapa
  BY <1>1, <1>2, <1>3, <1>4, <1>5, <1>6 DEF EnviarTarea
<1>8. PICK v : v = leida.ram
  OBVIOUS
<1>9. BienPuestas(ram, {}) /\ LargoTablas /\ Admins
  BY DEF InvLugar
<1>10. MismoLugar(ram, w)
  BY <1>4, <1>9, TraerTCBsBien
<1>11. BienPuestas(w, {}) /\ Len(w.tablas[p]) = Len(ram.tablas[p])
  BY <1>10 DEF MismoLugar, MismasTablas
<1>12. admin[p] \in Nat /\ admin[p] >= 1
  <2>1. PICK k \in 0..(admin[p] - 1) : TRUE
    BY <1>7 DEF Buscar
  <2>2. admin[p] \in Int
    BY <1>9 DEF Admins
  <2> QED BY <2>1, <2>2
<1>13. start[p] \div TamPagina + 1 <= Len(w.tablas[p])
  <2>1. Len(ram.tablas[p]) = CantidadPaginas(start[p] + admin[p] * TamTCB)
    BY <1>7, <1>9, LargosNat DEF LargoTablas, ConPaginas
  <2>2. PICK s \in Nat : s = start[p]
    BY Comienzo
  <2>3. PICK b \in Nat : b = start[p] + admin[p] * TamTCB /\ s < b /\ s <= b
    BY <1>12, <2>2 DEF TamTCB
  <2>4. s \div TamPagina + 1 <= CantidadPaginas(b)
    BY <2>3, CantidadBasta
  <2> QED BY <1>11, <2>1, <2>2, <2>3, <2>4
<1>14. prev \in 0..start[p]
  BY <1>7, Comienzo
<1>15. MismoLugar(w, v)
  BY <1>5, <1>8, <1>11, <1>13, <1>14, LeerTareaBien
<1>16. BienPuestas(v, {})
  BY <1>15 DEF MismoLugar
<1>17. MismoLugar(v, q)
  BY <1>6, <1>8, <1>16, TraerTCBsBien
<1>18. MismoLugar(ram, v)
  BY <1>9, <1>10, <1>15, MismoLugarSigue
<1>19. MismoLugar(ram, q)
  BY <1>9, <1>17, <1>18, MismoLugarSigue
<1>20. DOMAIN mapa' \subseteq Trips
  BY <1>7 DEF InvLugar
<1> QED BY <1>7, <1>19, <1>20, PasoQueda

(* The buffer of a request written back. *)
LEMMA PasoEscribirTCBs ==
  ASSUME InvLugar, NEW t \in Trips, EscribirTCBs(t)
  PROVE  InvLugar'
<1>1. PICK p \in Patotas : p = PatotaDe[t]
  BY PatotasOK
<1>2. PICK q : q = Volcar(ram, p, enCurso[t].temp)
  OBVIOUS
<1>3. /\ ram' = q /\ enCurso[t] # NoCurso
      /\ UNCHANGED <<hasLRU, admin, mapa, iniciando, pedidas, iniciadas, bajas, eventos, caida>>
  BY <1>1, <1>2 DEF EscribirTCBs, pedidos
<1>4. MismoLugar(ram, q)
  BY <1>2, VolcarBien DEF InvLugar
<1>5. MismoLugar(ram, ram')
  BY <1>3, <1>4
<1>6. iniciando.marco = -1
  <2>1. CASE iniciando = NoInicia
    BY <2>1 DEF NoInicia
  <2>2. CASE iniciando # NoInicia
    BY <1>3, <2>2 DEF InvLugar, Iniciandose
  <2> QED BY <2>1, <2>2
<1> QED BY <1>3, <1>5, <1>6, PasoMismoLugar DEF InvLugar

(* A tripulante of a patota not found is told that there is no task. *)
LEMMA PasoEnviarTareaSinTabla ==
  ASSUME InvLugar, Intercalado = FALSE, NEW t \in Trips, EnviarTareaSinTabla(t)
  PROVE  InvLugar'
<1>1. /\ Sirve
      /\ UNCHANGED <<hasLRU, ram, admin, mapa, iniciando, pedidas, iniciadas, caida>>
  BY DEF EnviarTareaSinTabla, pedidos
<1>2. MismoLugar(ram, ram')
  BY <1>1, MismoLugarSigue DEF InvLugar
<1>3. iniciando.marco = -1
  BY <1>1, Atendiendo
<1> QED BY <1>1, <1>2, <1>3, PasoMismoLugar DEF InvLugar

(* A patota is admitted when the places its pages take are free. *)
LEMMA PasoIniciarPatota ==
  ASSUME InvLugar, NEW p \in Patotas, IniciarPatota(p)
  PROVE  InvLugar'
<1>1. /\ iniciando = NoInicia /\ p \notin pedidas /\ pedidas' = pedidas \cup {p}
      /\ UNCHANGED <<hasLRU, ram, enCurso, iniciadas, caida>>
  BY DEF IniciarPatota
<1>2. /\ BienPuestas(ram, {}) /\ ram.sinMarco = FALSE /\ LargoTablas /\ Admins
      /\ iniciadas \subseteq pedidas /\ ram.claves \subseteq pedidas /\ DOMAIN mapa \subseteq Trips /\ caida # "sinMarco"
  BY DEF InvLugar
<1>3. BienPuestas(ram, {})'
  <2>1. BienPuestas(ram', {})
    BY <1>1, <1>2
  <2> QED BY <1>1, <2>1, RamSiguiente
<1>4. p \notin iniciadas /\ Len(ram.tablas[p]) = 0
  <2>1. iniciando.p # p
    BY <1>1, PaginasOK DEF NoInicia
  <2>2. p \notin iniciadas
    BY <1>1, <1>2
  <2> QED BY <1>2, <2>1, <2>2 DEF LargoTablas
<1>5. \A o \in Patotas : iniciando.p # o
  BY <1>1, PaginasOK DEF NoInicia
<1>6. CASE check_free_frames(CantidadPaginas(memory_size[p]))
  <2>1. /\ iniciando' = [p |-> p, j |-> 1, marco |-> -1] /\ mapa' = EnMapa(mapa, p)
        /\ admin' = [admin EXCEPT ![p] = Cardinality(Miembros(p))]
    BY <1>6 DEF IniciarPatota
  <2>2. Cardinality(Miembros(p)) \in Nat
    BY InscriptosOrden
  <2>3. Admins'
    BY <1>2, <2>1, <2>2 DEF Admins
  <2>4. \A o \in Patotas : o # p => admin'[o] = admin[o]
    BY <1>2, <2>1 DEF Admins
  <2>5. iniciando'.p = p /\ iniciando'.j = 1
    BY <2>1
  <2>6. LargoTablas'
    <3>1. ASSUME NEW o \in Patotas, o # p
          PROVE  /\ o \in iniciadas => \/ Len(ram.tablas[o]) = 0
                                       \/ /\ admin'[o] \in Nat
                                          /\ Len(ram.tablas[o]) = CantidadPaginas(start[o] + admin'[o] * TamTCB)
                 /\ o \notin iniciadas => Len(ram.tablas[o]) = 0
      BY <1>2, <1>5, <2>4, <3>1 DEF LargoTablas
    <3> QED BY <1>1, <1>4, <2>5, <3>1 DEF LargoTablas
  <2>7. PICK c \in Nat \ {0} : c = CantidadPaginas(memory_size[p])
    <3>1. PICK m \in Nat : m = memory_size[p] /\ m > 0
      BY Comienzo DEF TamTCB
    <3>2. CantidadPaginas(m) \in Nat /\ CantidadPaginas(m) >= 1
      BY <3>1, CantidadBasta
    <3> QED BY <3>1, <3>2
  <2>8. Ocupan(ram) + (c + 1 - 1) <= Marcos + MarcosVirtual
    <3>1. Cardinality(ram.bitmap) \in Nat /\ Cardinality(ram.virtual_bitmap) \in Nat
      BY <1>2, CuentaDeLugares DEF BienPuestas
    <3>2. (Marcos - Cardinality(ram.bitmap)) + (MarcosVirtual - Cardinality(ram.virtual_bitmap)) >= c
      BY <1>6, <2>7 DEF check_free_frames
    <3> QED BY <3>1, <3>2, PaginasOK DEF Ocupan
  <2>9. Reservado(p, 1, -1, ram)
    BY <2>7, <2>8 DEF Reservado
  <2>10. Iniciandose'
    <3>1. 1 \in 1..CantidadPaginas(memory_size[p]) /\ -1 \in -1..(Marcos - 1)
      BY <2>7, PaginasOK
    <3>2. admin'[p] = Cardinality(Miembros(p))
      BY <1>2, <2>1 DEF Admins
    <3>3. p \in pedidas' \ iniciadas'
      BY <1>1, <1>4
    <3>4. Reservado(p, 1, -1, ram')
      BY <1>1, <2>9
    <3> QED BY <2>1, <3>1, <3>2, <3>3, <3>4 DEF Iniciandose
  <2>11. DOMAIN mapa' \subseteq Trips
    BY <1>2, <2>1, EnMapaBien
  <2> QED BY <1>1, <1>2, <1>3, <2>3, <2>6, <2>10, <2>11 DEF InvLugar
<1>7. CASE ~check_free_frames(CantidadPaginas(memory_size[p]))
  <2>1. UNCHANGED <<iniciando, admin, mapa>>
    BY <1>7 DEF IniciarPatota
  <2>2. LargoTablas' /\ Iniciandose' /\ Admins'
    BY <1>1, <1>2, <2>1 DEF LargoTablas, Iniciandose, Admins
  <2> QED BY <1>1, <1>2, <1>3, <2>1, <2>2 DEF InvLugar
<1> QED BY <1>6, <1>7

(* A step of one initiated patota: its pages and its count change together. *)
LEMMA PasoDeIniciada ==
  ASSUME InvLugar, NEW p \in iniciadas, p \in Patotas, NEW q, ram' = q, BienPuestas(q, {}), q.sinMarco = FALSE,
         q.claves = ram.claves, Ocupan(q) <= Ocupan(ram), iniciando.marco = -1,
         UNCHANGED <<hasLRU, iniciando, pedidas, iniciadas, caida>>, DOMAIN mapa' \subseteq Trips,
         \A o \in Patotas : o # p => Len(q.tablas[o]) = Len(ram.tablas[o]) /\ admin'[o] = admin[o],
         admin' \in [Patotas -> Int], admin'[p] \in -1..Cardinality(Miembros(p)),
         \/ Len(q.tablas[p]) = 0
         \/ admin'[p] \in Nat /\ Len(q.tablas[p]) = CantidadPaginas(start[p] + admin'[p] * TamTCB)
  PROVE  InvLugar'
<1>1. BienPuestas(ram, {})'
  BY RamSiguiente
<1>2. Admins'
  BY DEF Admins, InvLugar
<1>3. LargoTablas'
  <2>1. ASSUME NEW o \in Patotas
        PROVE  /\ o \in iniciadas => \/ Len(q.tablas[o]) = 0
                                     \/ admin'[o] \in Nat /\ Len(q.tablas[o]) = CantidadPaginas(start[o] + admin'[o] * TamTCB)
               /\ o \notin iniciadas => Len(q.tablas[o]) = IF o = iniciando.p THEN iniciando.j - 1 ELSE 0
    <3>1. CASE o = p
      BY <3>1
    <3>2. CASE o # p
      BY <3>2 DEF InvLugar, LargoTablas
    <3> QED BY <3>1, <3>2
  <2> QED BY <2>1 DEF LargoTablas
<1>4. Iniciandose'
  <2>1. CASE iniciando = NoInicia
    BY <2>1 DEF Iniciandose
  <2>2. CASE iniciando # NoInicia
    <3>1. PICK o \in Patotas : \E j \in 1..CantidadPaginas(memory_size[o]), n \in -1..(Marcos - 1) :
            /\ o \in pedidas \ iniciadas /\ iniciando = [p |-> o, j |-> j, marco |-> n] /\ Reservado(o, j, n, ram)
            /\ admin[o] = Cardinality(Miembros(o))
      BY <2>2 DEF Iniciandose, InvLugar
    <3>2. PICK j \in 1..CantidadPaginas(memory_size[o]), n \in -1..(Marcos - 1) :
            /\ o \in pedidas \ iniciadas /\ iniciando = [p |-> o, j |-> j, marco |-> n] /\ Reservado(o, j, n, ram)
            /\ admin[o] = Cardinality(Miembros(o))
      BY <3>1
    <3>3. n = -1 /\ o # p
      BY <3>2
    <3>4. PICK c \in Nat : c = CantidadPaginas(memory_size[o])
      <4>1. PICK m \in Nat : m = memory_size[o]
        BY Comienzo DEF TamTCB
      <4>2. m <= m
        OBVIOUS
      <4>3. CantidadPaginas(m) \in Nat
        BY <4>2, CantidadBasta
      <4> QED BY <4>1, <4>3
    <3>5. Ocupan(q) \in Nat /\ Ocupan(ram) \in Nat /\ Marcos + MarcosVirtual \in Nat
      BY LargosNat, PaginasOK DEF InvLugar
    <3>6. Reservado(o, j, n, q)
      BY <3>2, <3>3, <3>4, <3>5 DEF Reservado
    <3>7. admin'[o] = Cardinality(Miembros(o))
      BY <3>2, <3>3
    <3> QED BY <3>2, <3>3, <3>6, <3>7 DEF Iniciandose
  <2> QED BY <2>1, <2>2
<1> QED BY <1>1, <1>2, <1>3, <1>4 DEF InvLugar

(* A tripulante expelled. *)
LEMMA PasoExpulsarTripulante ==
  ASSUME InvLugar, Intercalado = FALSE, NEW t \in Trips, ExpulsarTripulante(t)
  PROVE  InvLugar'
<1>1. PICK p \in Patotas : p = PatotaDe[t]
  BY PatotasOK
<1>2. PICK e : e = remove_tcb_from_page(ram, p, t)
  OBVIOUS
<1>3. /\ Sirve /\ ConPaginas(p)
      /\ IF e.ram.sinMarco THEN Muere("sinMarco") ELSE
         /\ ram' = e.ram /\ admin' = [admin EXCEPT ![p] = e.cantidad] /\ mapa' = item_borrar(mapa, t)
         /\ UNCHANGED <<hasLRU, iniciando, pedidas, iniciadas, caida>>
  BY <1>1, <1>2 DEF ExpulsarTripulante
<1>4. /\ BienPuestas(ram, {}) /\ ram.sinMarco = FALSE /\ LargoTablas /\ Admins /\ DOMAIN mapa \subseteq Trips
  BY DEF InvLugar
<1>5. admin[p] \in Nat /\ admin[p] <= Cardinality(Miembros(p)) /\ Cardinality(Miembros(p)) \in Nat
  <2>1. admin[p] \in -1..Cardinality(Miembros(p)) /\ admin[p] # -1 /\ Cardinality(Miembros(p)) \in Nat
    BY <1>3, <1>4, InscriptosOrden DEF Admins, ConPaginas, SinAdmin
  <2> QED BY <2>1
<1>6. Len(ram.tablas[p]) = CantidadPaginas(start[p] + admin[p] * TamTCB)
  BY <1>3, <1>4, LargosNat DEF LargoTablas, ConPaginas
<1>7. Expulsada(ram, p, e)
  BY <1>2, <1>4, <1>5, <1>6, ExpulsarBien
<1>8. PICK q : q = e.ram
  OBVIOUS
<1>9. PICK c \in 0..admin[p] : c = e.cantidad
  BY <1>7 DEF Expulsada
<1>10. /\ BienPuestas(q, {}) /\ q.claves = ram.claves /\ q.sinMarco = FALSE /\ Ocupan(q) <= Ocupan(ram)
       /\ \A o \in Patotas : o # p => Len(q.tablas[o]) = Len(ram.tablas[o])
       /\ Len(q.tablas[p]) = 0 \/ Len(q.tablas[p]) = CantidadPaginas(start[p] + c * TamTCB)
  BY <1>4, <1>7, <1>8, <1>9 DEF Expulsada, Ajenos
<1>11. /\ ram' = q /\ admin' = [admin EXCEPT ![p] = c] /\ mapa' = item_borrar(mapa, t)
       /\ UNCHANGED <<hasLRU, iniciando, pedidas, iniciadas, caida>>
  BY <1>3, <1>8, <1>9, <1>10
<1>12. /\ admin' \in [Patotas -> Int] /\ admin'[p] = c /\ c \in Nat /\ c \in -1..Cardinality(Miembros(p))
       /\ \A o \in Patotas : o # p => admin'[o] = admin[o]
  BY <1>4, <1>5, <1>9, <1>11 DEF Admins
<1>13. DOMAIN mapa' \subseteq Trips
  BY <1>4, <1>11 DEF item_borrar, Restrict
<1>14. p \in iniciadas /\ iniciando.marco = -1
  BY <1>3, Atendiendo DEF ConPaginas
<1> QED BY <1>10, <1>11, <1>12, <1>13, <1>14, PasoDeIniciada

(* A patota eliminated. *)
LEMMA PasoEliminarPatota ==
  ASSUME InvLugar, Intercalado = FALSE, NEW p \in Patotas, EliminarPatota(p)
  PROVE  InvLugar'
<1>1. PICK q : q = remove_pcb_from_page(ram, p)
  OBVIOUS
<1>2. /\ Sirve /\ ConPaginas(p) /\ ram' = q /\ admin' = [admin EXCEPT ![p] = SinAdmin]
      /\ UNCHANGED <<hasLRU, mapa, iniciando, pedidas, iniciadas, caida>>
  BY <1>1 DEF EliminarPatota
<1>3. /\ BienPuestas(ram, {}) /\ ram.sinMarco = FALSE /\ Admins /\ DOMAIN mapa \subseteq Trips
  BY DEF InvLugar
<1>4. /\ BienPuestas(q, {}) /\ Ocupan(q) <= Ocupan(ram) /\ q.claves = ram.claves /\ q.sinMarco = ram.sinMarco
      /\ \A o \in Patotas : Len(q.tablas[o]) = IF o = p THEN 0 ELSE Len(ram.tablas[o])
  BY <1>1, <1>3, EliminarBien
<1>5. /\ admin' \in [Patotas -> Int] /\ admin'[p] \in -1..Cardinality(Miembros(p))
      /\ \A o \in Patotas : o # p => admin'[o] = admin[o]
  BY <1>2, <1>3, InscriptosOrden DEF Admins, SinAdmin
<1>6. p \in iniciadas /\ iniciando.marco = -1
  BY <1>2, Atendiendo DEF ConPaginas
<1> QED BY <1>2, <1>3, <1>4, <1>5, <1>6, PasoDeIniciada

(* A frame taken for the next page of the patota being initiated. *)
LEMMA PasoTomarMarco ==
  ASSUME InvLugar, Intercalado = FALSE, TomarMarco
  PROVE  InvLugar'
<1>1. PICK g : g = get_frame(ram)
  OBVIOUS
<1>2. PICK q : q = g.ram
  OBVIOUS
<1>3. PICK m : m = g.marco
  OBVIOUS
<1>4. /\ Sirve /\ iniciando # NoInicia
      /\ IF m = -1 THEN Muere("sinMarco") ELSE
         /\ ram' = q /\ iniciando' = [iniciando EXCEPT !.marco = m]
         /\ UNCHANGED <<hasLRU, admin, mapa, enCurso, pedidas, iniciadas, caida>>
  BY <1>1, <1>2, <1>3 DEF TomarMarco
<1>5. /\ BienPuestas(ram, {}) /\ ram.sinMarco = FALSE /\ LargoTablas /\ Admins
  BY DEF InvLugar
<1>6. PICK p \in Patotas : \E j \in 1..CantidadPaginas(memory_size[p]), n \in -1..(Marcos - 1) :
        /\ p \in pedidas \ iniciadas /\ iniciando = [p |-> p, j |-> j, marco |-> n] /\ Reservado(p, j, n, ram)
        /\ admin[p] = Cardinality(Miembros(p))
  BY <1>4 DEF Iniciandose, InvLugar
<1>7. PICK j \in 1..CantidadPaginas(memory_size[p]), n \in -1..(Marcos - 1) :
        /\ p \in pedidas \ iniciadas /\ iniciando = [p |-> p, j |-> j, marco |-> n] /\ Reservado(p, j, n, ram)
        /\ admin[p] = Cardinality(Miembros(p))
  BY <1>6
<1>8. PICK c \in Nat : c = CantidadPaginas(memory_size[p])
  <2>1. PICK s \in Nat : s = memory_size[p]
    BY Comienzo DEF TamTCB
  <2>2. s <= s
    OBVIOUS
  <2>3. CantidadPaginas(s) \in Nat
    BY <2>2, CantidadBasta
  <2> QED BY <2>1, <2>3
<1>9. Ocupan(ram) \in Nat /\ Ocupan(ram) + (c + 1 - j) <= Marcos + MarcosVirtual /\ Marcos + MarcosVirtual \in Nat
  BY <1>5, <1>7, <1>8, LargosNat, PaginasOK DEF Reservado
<1>10. Ocupan(ram) # Marcos + MarcosVirtual
  BY <1>7, <1>8, <1>9
<1>11. DaMarco(ram, q, {}, m)
  BY <1>1, <1>2, <1>3, <1>5, <1>10, get_frameBien
<1>12. /\ BienPuestas(q, {}) /\ q.claves = ram.claves /\ q.sinMarco = FALSE /\ Ocupan(q) = Ocupan(ram)
       /\ m \in 0..(Marcos - 1) /\ m \notin q.bitmap
       /\ \A o \in Patotas : Len(q.tablas[o]) = Len(ram.tablas[o])
  BY <1>5, <1>11 DEF DaMarco, MismasTablas, Ajenos
<1>13. m # -1 /\ m \in -1..(Marcos - 1)
  BY <1>12, PaginasOK
<1>14. /\ ram' = q /\ iniciando' = [p |-> p, j |-> j, marco |-> m]
       /\ UNCHANGED <<hasLRU, admin, mapa, enCurso, pedidas, iniciadas, caida>>
  BY <1>4, <1>7, <1>13
<1>15. BienPuestas(ram, {})'
  BY <1>12, <1>14, RamSiguiente
<1>16. LargoTablas'
  <2>1. iniciando'.p = iniciando.p /\ iniciando'.j = iniciando.j
    BY <1>7, <1>14
  <2> QED BY <1>5, <1>12, <1>14, <2>1 DEF LargoTablas
<1>17. Iniciandose'
  <2>1. Reservado(p, j, m, q)
    BY <1>7, <1>12 DEF Reservado
  <2>2. \A t \in Trips : enCurso'[t] = NoCurso
    BY <1>4, <1>14, Atendiendo
  <2>3. p \in pedidas' \ iniciadas' /\ admin'[p] = Cardinality(Miembros(p)) /\ Reservado(p, j, m, ram')
    BY <1>7, <1>14, <2>1
  <2> QED BY <1>13, <1>14, <2>2, <2>3 DEF Iniciandose
<1>18. Admins'
  BY <1>5, <1>14 DEF Admins
<1> QED BY <1>12, <1>14, <1>15, <1>16, <1>17, <1>18 DEF InvLugar

(* The tables of a patota are found from its first page on. *)
ConClave(r, p) == [r EXCEPT !.claves = @ \cup {p}]
LEMMA ConClaveBien ==
  ASSUME NEW r, BienPuestas(r, {}), NEW p, NEW q, q = ConClave(r, p)
  PROVE  BienPuestas(q, {}) /\ q.tablas = r.tablas /\ MismosMapas(r, q) /\ q.claves = r.claves \cup {p} /\ q.sinMarco = r.sinMarco
<1> DEFINE o == [claves |-> r.claves \cup {p}, sinMarco |-> r.sinMarco, perdidos |-> r.perdidos]
<1>1. Entera(r) /\ Puestas(r, {}) /\ Usadas(r, EnMarcos(r, {}))
  BY DEF BienPuestas
<1>2. Campos(q, r.mem, r.bitmap, r.virtual, r.virtual_bitmap, r.tablas, r.uso, r.clock_key, o)
  BY <1>1 DEF Entera, Campos, ConClave
<1>3. o.claves = r.claves \cup {p} /\ o.sinMarco = r.sinMarco /\ o.perdidos = r.perdidos
  OBVIOUS
<1> HIDE DEF o
<1>4. /\ q.mem = r.mem /\ q.bitmap = r.bitmap /\ q.virtual = r.virtual /\ q.virtual_bitmap = r.virtual_bitmap
      /\ q.tablas = r.tablas /\ q.uso = r.uso /\ q.clock_key = r.clock_key /\ Ajenos(o, q)
      /\ Campos(q, q.mem, q.bitmap, q.virtual, q.virtual_bitmap, q.tablas, q.uso, q.clock_key, q)
  BY <1>2, CamposEnteros
<1>5. q.claves = r.claves \cup {p} /\ q.sinMarco = r.sinMarco /\ q.perdidos = r.perdidos
  BY <1>3, <1>4 DEF Ajenos
<1>6. Entera(q)
  BY <1>1, <1>4 DEF Entera
<1>7. /\ EnTabla(q) = EnTabla(r) /\ (\A y : Pag(q, y) = Pag(r, y)) /\ Tomados(q) = Tomados(r)
  BY <1>4, <1>5 DEF EnTabla, Pag, Tomados
<1>8. Sitios(q) = Sitios(r) /\ EnMarcos(q, {}) = EnMarcos(r, {})
  BY <1>7 DEF Sitios, EnMarcos
<1>9. Puestas(q, {}) /\ Usadas(q, EnMarcos(q, {}))
  BY <1>1, <1>4, <1>5, <1>7, <1>8 DEF Puestas, Usadas
<1> QED BY <1>4, <1>5, <1>6, <1>9 DEF BienPuestas, MismosMapas

(* A page stored in the frame taken for it. *)
LEMMA PasoGuardarPagina ==
  ASSUME InvLugar, GuardarPagina
  PROVE  InvLugar'
<1>1. /\ BienPuestas(ram, {}) /\ ram.sinMarco = FALSE /\ LargoTablas /\ Admins
      /\ iniciadas \subseteq pedidas /\ ram.claves \subseteq pedidas
  BY DEF InvLugar
<1>2. Vive /\ iniciando.marco # -1 /\ UNCHANGED <<hasLRU, admin, mapa, enCurso, pedidas, caida>>
  BY DEF GuardarPagina
<1>3. iniciando # NoInicia
  BY <1>2 DEF NoInicia
<1>4. PICK p \in Patotas : \E j \in 1..CantidadPaginas(memory_size[p]), n \in -1..(Marcos - 1) :
        /\ p \in pedidas \ iniciadas /\ iniciando = [p |-> p, j |-> j, marco |-> n] /\ Reservado(p, j, n, ram)
        /\ admin[p] = Cardinality(Miembros(p))
  BY <1>3 DEF Iniciandose, InvLugar
<1>5. PICK j \in 1..CantidadPaginas(memory_size[p]), n \in -1..(Marcos - 1) :
        /\ p \in pedidas \ iniciadas /\ iniciando = [p |-> p, j |-> j, marco |-> n] /\ Reservado(p, j, n, ram)
        /\ admin[p] = Cardinality(Miembros(p))
  BY <1>4
<1>6. iniciando.p = p /\ iniciando.j = j /\ iniciando.marco = n
  BY <1>5
<1>7. n \in 0..(Marcos - 1) /\ n \notin ram.bitmap
  BY <1>2, <1>5, <1>6, PaginasOK DEF Reservado
<1>8. PICK c \in Nat : c = CantidadPaginas(memory_size[p])
  <2>1. PICK s \in Nat : s = memory_size[p]
    BY Comienzo DEF TamTCB
  <2>2. s <= s
    OBVIOUS
  <2>3. CantidadPaginas(s) \in Nat
    BY <2>2, CantidadBasta
  <2> QED BY <2>1, <2>3
<1>9. j \in 1..c /\ Ocupan(ram) \in Nat /\ Ocupan(ram) + (c + 1 - j) <= Marcos + MarcosVirtual /\ Marcos + MarcosVirtual \in Nat
  BY <1>1, <1>5, <1>8, LargosNat, PaginasOK DEF Reservado
<1>10. PICK x : x = <<p, j>>
  OBVIOUS
<1>11. PICK h : h = Trozo(Imagen[p], j)
  OBVIOUS
<1>12. PICK v : v = Colocar(ram, x, h, n)
  OBVIOUS
<1>13. PICK q : q = ConClave(v, p)
  OBVIOUS
<1>14. /\ ram' = q
       /\ IF j = c
            THEN iniciando' = NoInicia /\ iniciadas' = iniciadas \cup {p}
            ELSE iniciando' = [p |-> p, j |-> j + 1, marco |-> -1] /\ UNCHANGED iniciadas
  BY <1>6, <1>8, <1>10, <1>11, <1>12, <1>13 DEF GuardarPagina, ConClave
<1>15. Len(ram.tablas[p]) = j - 1 /\ p \notin iniciadas
  BY <1>1, <1>5, <1>6 DEF LargoTablas
<1>16. Cabe(ram, {}, x) /\ x \notin EnTabla(ram) /\ x[1] = p
  <2>1. x[1] = p /\ x[2] = j /\ ~(j <= j - 1) /\ j - 1 + 1 = j
    BY <1>9, <1>10
  <2>2. x \notin EnTabla(ram)
    BY <1>1, <1>15, <2>1, EnTablaEs DEF BienPuestas, Entera
  <2> QED BY <1>10, <1>15, <2>1, <2>2 DEF Cabe
<1>17. Hoja(h)
  BY <1>11 DEF Hoja, Trozo
<1>18. Colocada(ram, v, {}, x)
  BY <1>1, <1>7, <1>12, <1>16, <1>17, ColocarBien
<1>19. /\ BienPuestas(v, {}) /\ v.claves = ram.claves /\ v.sinMarco = FALSE /\ Ocupan(v) = Ocupan(ram) + 1
       /\ \A o \in Patotas : Len(v.tablas[o]) = IF o = p THEN j ELSE Len(ram.tablas[o])
  <2>1. {} \ {x} = {}
    OBVIOUS
  <2>2. j - 1 + 1 = j
    BY <1>9
  <2> QED BY <1>1, <1>15, <1>16, <1>18, <2>1, <2>2 DEF Colocada, Ajenos, Crece
<1>20. /\ BienPuestas(q, {}) /\ q.claves = ram.claves \cup {p} /\ q.sinMarco = FALSE /\ Ocupan(q) = Ocupan(ram) + 1
       /\ \A o \in Patotas : Len(q.tablas[o]) = IF o = p THEN j ELSE Len(ram.tablas[o])
  <2>1. /\ BienPuestas(q, {}) /\ q.tablas = v.tablas /\ MismosMapas(v, q) /\ q.claves = v.claves \cup {p}
        /\ q.sinMarco = v.sinMarco
    BY <1>13, <1>19, ConClaveBien
  <2> QED BY <1>19, <2>1 DEF MismosMapas, Ocupan
<1>21. BienPuestas(ram, {})'
  BY <1>2, <1>14, <1>20, RamSiguiente
<1>22. Admins' /\ ram'.sinMarco = FALSE /\ DOMAIN mapa' \subseteq Trips /\ caida' # "sinMarco"
  BY <1>1, <1>2, <1>14, <1>20 DEF Admins, InvLugar
<1>23. iniciadas' \subseteq pedidas' /\ ram'.claves \subseteq pedidas'
  BY <1>1, <1>2, <1>5, <1>14, <1>20
<1>24. CASE j = c
  <2>1. iniciando' = NoInicia /\ iniciadas' = iniciadas \cup {p}
    BY <1>14, <1>24
  <2>2. \A o \in Patotas : iniciando'.p # o
    BY <2>1, PaginasOK DEF NoInicia
  <2>3. admin[p] \in Nat /\ Len(q.tablas[p]) = CantidadPaginas(start[p] + admin[p] * TamTCB)
    BY <1>5, <1>8, <1>20, <1>24, Comienzo
  <2>4. ASSUME NEW o \in Patotas
        PROVE  /\ o \in iniciadas' => \/ Len(q.tablas[o]) = 0
                                      \/ admin[o] \in Nat /\ Len(q.tablas[o]) = CantidadPaginas(start[o] + admin[o] * TamTCB)
               /\ o \notin iniciadas' => Len(q.tablas[o]) = 0
    <3>1. CASE o = p
      BY <2>1, <2>3, <3>1
    <3>2. CASE o # p
      BY <1>1, <1>6, <1>20, <2>1, <3>2 DEF LargoTablas
    <3> QED BY <3>1, <3>2
  <2>5. LargoTablas'
    BY <1>2, <1>14, <2>2, <2>4 DEF LargoTablas
  <2>6. Iniciandose'
    BY <2>1 DEF Iniciandose
  <2> QED BY <1>21, <1>22, <1>23, <2>5, <2>6 DEF InvLugar
<1>25. CASE j # c
  <2>1. iniciando' = [p |-> p, j |-> j + 1, marco |-> -1] /\ iniciadas' = iniciadas
    BY <1>14, <1>25
  <2>2. iniciando'.p = p /\ iniciando'.j = j + 1 /\ j + 1 - 1 = j
    BY <1>9, <2>1
  <2>3. ASSUME NEW o \in Patotas
        PROVE  /\ o \in iniciadas => \/ Len(q.tablas[o]) = 0
                                     \/ admin[o] \in Nat /\ Len(q.tablas[o]) = CantidadPaginas(start[o] + admin[o] * TamTCB)
               /\ o \notin iniciadas => Len(q.tablas[o]) = IF o = p THEN j ELSE 0
    <3>1. CASE o = p
      BY <1>15, <1>20, <3>1
    <3>2. CASE o # p
      BY <1>1, <1>6, <1>20, <3>2 DEF LargoTablas
    <3> QED BY <3>1, <3>2
  <2>4. LargoTablas'
    BY <1>2, <1>14, <2>1, <2>2, <2>3 DEF LargoTablas
  <2>5. j + 1 \in 1..CantidadPaginas(memory_size[p]) /\ -1 \in -1..(Marcos - 1)
    BY <1>8, <1>9, <1>25, PaginasOK
  <2>6. Reservado(p, j + 1, -1, q)
    <3>1. Ocupan(q) + (c + 1 - (j + 1)) <= Marcos + MarcosVirtual
      BY <1>9, <1>20
    <3> QED BY <1>8, <3>1 DEF Reservado
  <2>7. p \in pedidas' \ iniciadas' /\ Reservado(p, j + 1, -1, ram') /\ admin'[p] = Cardinality(Miembros(p))
    BY <1>2, <1>5, <1>14, <2>1, <2>6
  <2>8. Iniciandose'
    BY <2>1, <2>5, <2>7 DEF Iniciandose
  <2> QED BY <1>21, <1>22, <1>23, <2>4, <2>8 DEF InvLugar
<1> QED BY <1>24, <1>25

(* At the start there are no pages and nobody was asked for. *)
LEMMA InicioLugar ==
  ASSUME Init
  PROVE  InvLugar
<1>1. /\ ram = SinPaginas /\ admin = [p \in Patotas |-> SinAdmin] /\ mapa = MapaVacio /\ iniciando = NoInicia
      /\ pedidas = {} /\ iniciadas = {} /\ caida = "no"
  BY DEF Init
<1>2. BienPuestas(ram, {})
  BY <1>1, SinPaginasBien
<1>3. ram.sinMarco = FALSE /\ ram.claves = {} /\ \A p \in Patotas : Len(ram.tablas[p]) = 0
  BY <1>1 DEF SinPaginas
<1>4. LargoTablas
  <2>1. \A p \in Patotas : p # iniciando.p
    BY <1>1, PaginasOK DEF NoInicia
  <2> QED BY <1>1, <1>3, <2>1 DEF LargoTablas
<1>5. Iniciandose
  BY <1>1 DEF Iniciandose
<1>6. Admins
  BY <1>1, InscriptosOrden DEF Admins, SinAdmin
<1>7. DOMAIN mapa \subseteq Trips
  BY <1>1 DEF MapaVacio
<1> QED BY <1>1, <1>2, <1>3, <1>4, <1>5, <1>6, <1>7 DEF InvLugar

(* Served whole, every request leaves the pages in their places. *)
LEMMA PasoLugar ==
  ASSUME InvLugar, Intercalado = FALSE, [Next]_vars
  PROVE  InvLugar'
<1>1. ASSUME NEW p \in Patotas, IniciarPatota(p) PROVE InvLugar'
  BY <1>1, PasoIniciarPatota
<1>2. ASSUME NEW p \in Patotas, EliminarPatota(p) PROVE InvLugar'
  BY <1>2, PasoEliminarPatota
<1>3. CASE TomarMarco
  BY <1>3, PasoTomarMarco
<1>4. CASE GuardarPagina
  BY <1>4, PasoGuardarPagina
<1>5. ASSUME NEW t \in Trips, RecibirEstado(t) PROVE InvLugar'
  <2>1. PICK s \in Estados : Reporte(t, Status, Celda("status", s), [dicho[t] EXCEPT !.status = s]) /\ UNCHANGED mapa
    BY <1>5 DEF RecibirEstado
  <2>2. PICK celda : celda = Celda("status", s)
    OBVIOUS
  <2>3. PICK d : d = [dicho[t] EXCEPT !.status = s]
    OBVIOUS
  <2>4. Reporte(t, Status, celda, d) /\ DOMAIN mapa' \subseteq Trips
    BY <2>1, <2>2, <2>3 DEF InvLugar
  <2> QED BY <2>4, PasoReporte
<1>6. ASSUME NEW t \in Trips, RecibirUbicacion(t) PROVE InvLugar'
  <2>1. PICK pos \in Posiciones : /\ Reporte(t, Posicion, Celda("pos", pos), [dicho[t] EXCEPT !.pos = pos])
                                  /\ mapa' = item_desplazar(mapa, t, pos)
    BY <1>6 DEF RecibirUbicacion
  <2>2. PICK celda : celda = Celda("pos", pos)
    OBVIOUS
  <2>3. PICK d : d = [dicho[t] EXCEPT !.pos = pos]
    OBVIOUS
  <2>4. Reporte(t, Posicion, celda, d)
    BY <2>1, <2>2, <2>3
  <2>5. DOMAIN mapa' \subseteq Trips
    BY <2>1 DEF item_desplazar, _cambiar_posicion, InvLugar
  <2> QED BY <2>4, <2>5, PasoReporte
<1>7. ASSUME NEW t \in Trips, EnviarTarea(t) PROVE InvLugar'
  BY <1>7, PasoEnviarTarea
<1>8. ASSUME NEW t \in Trips, EnviarTareaSinTabla(t) PROVE InvLugar'
  BY <1>8, PasoEnviarTareaSinTabla
<1>9. ASSUME NEW t \in Trips, EscribirTCBs(t) PROVE InvLugar'
  BY <1>9, PasoEscribirTCBs
<1>10. ASSUME NEW t \in Trips, PedidoTardio(t) PROVE InvLugar'
  BY <1>10, PasoMuere DEF PedidoTardio
<1>11. ASSUME NEW t \in Trips, ExpulsarTripulante(t) PROVE InvLugar'
  BY <1>11, PasoExpulsarTripulante
<1>12. CASE UNCHANGED vars
  <2>1. UNCHANGED <<hasLRU, ram, admin, mapa, iniciando, enCurso, pedidas, iniciadas, caida>>
    BY <1>12 DEF vars, pedidos
  <2>2. BienPuestas(ram, {})'
    BY <2>1, RamSiguiente DEF InvLugar
  <2>3. LargoTablas' /\ Iniciandose' /\ Admins'
    BY <2>1 DEF InvLugar, LargoTablas, Iniciandose, Admins
  <2> QED BY <2>1, <2>2, <2>3 DEF InvLugar
<1> QED BY <1>1, <1>2, <1>3, <1>4, <1>5, <1>6, <1>7, <1>8, <1>9, <1>10, <1>11, <1>12 DEF Next

-----------------------------------------------------------------------------
(* The properties the runs check *)

(* Whatever patotas are initiated, reported on, expelled from or eliminated,*)
(* in whatever order, under LRU or CLOCK, with any number of frames and     *)
(* slots: every page has a place of its own, the bits of the frames and     *)
(* slots say which are taken, and LRU's list holds the pages present.  Each *)
(* request is served whole: two of them interleaved break it.               *)
THEOREM PaginasEnSuLugar ==
  ASSUME Intercalado = FALSE
  PROVE  Spec => []InvLugar
<1>1. Init => InvLugar
  BY InicioLugar
<1>2. InvLugar /\ [Next]_vars => InvLugar'
  BY PasoLugar
<1> QED BY <1>1, <1>2, PTL DEF Spec

(* The state of the paging scheme keeps its shape: frames and slots in      *)
(* range, and LRU's list, without repetitions, the pages in memory.         *)
THEOREM TipoPaginacion ==
  ASSUME Intercalado = FALSE
  PROVE  Spec => []TypeOK
<1>1. InvLugar => TypeOK
  <2> SUFFICES ASSUME InvLugar PROVE TypeOK
    OBVIOUS
  <2>1. Entera(ram) /\ Usadas(ram, EnMarcos(ram, {})) /\ Iniciandose /\ Admins
    BY DEF InvLugar, BienPuestas
  <2>2. /\ ram.bitmap \subseteq 0..(Marcos - 1) /\ ram.virtual_bitmap \subseteq 0..(MarcosVirtual - 1)
        /\ DOMAIN ram.mem = 0..(Marcos - 1) /\ DOMAIN ram.virtual = 0..(MarcosVirtual - 1)
    BY <2>1 DEF Entera
  <2>3. EnMarcos(ram, {}) = Presentes(ram)
    BY DEF EnMarcos, Presentes
  <2>4. ToSet(ram.uso) = (IF hasLRU THEN Presentes(ram) ELSE {}) /\ IsInjective(ram.uso)
    <3>1. IsInjective(ram.uso) /\ \A y : y \in ToSet(ram.uso) <=> hasLRU /\ y \in Presentes(ram)
      BY <2>1, <2>3 DEF Usadas
    <3>2. CASE hasLRU
      BY <3>1, <3>2
    <3>3. CASE ~hasLRU
      BY <3>1, <3>3
    <3> QED BY <3>1, <3>2, <3>3
  <2>5. iniciando.marco \in -1..(Marcos - 1)
    <3>1. CASE iniciando = NoInicia
      BY <3>1, PaginasOK DEF NoInicia
    <3>2. CASE iniciando # NoInicia
      BY <2>1, <3>2 DEF Iniciandose
    <3> QED BY <3>1, <3>2
  <2>6. \A p \in Patotas : admin[p] \in -1..Cardinality(Miembros(p))
    BY <2>1 DEF Admins
  <2> QED BY <2>2, <2>4, <2>5, <2>6 DEF InvLugar, TypeOK
<1> QED BY <1>1, PaginasEnSuLugar, PTL

(* The bits of frames and slots tell where the pages are, and no two pages  *)
(* share a frame or a slot, whatever get_frame, the replacement, an         *)
(* expulsion or an elimination did before.                                  *)
THEOREM CadaPaginaSuLugarSiempre ==
  ASSUME Intercalado = FALSE
  PROVE  Spec => []CadaPaginaSuLugar
<1>1. InvLugar => CadaPaginaSuLugar
  <2> SUFFICES ASSUME InvLugar PROVE CadaPaginaSuLugar
    OBVIOUS
  <2>1. Entera(ram) /\ Puestas(ram, {})
    BY DEF InvLugar, BienPuestas
  <2>2. EnMarcos(ram, {}) = Presentes(ram) /\ EnSwap(ram, {}) = Ausentes
    BY DEF EnMarcos, EnSwap, Presentes, Ausentes
  <2>3. ram.perdidos \subseteq ram.virtual_bitmap
    BY <2>1 DEF Puestas
  <2>4. /\ Cardinality(Presentes(ram)) = Cardinality(ram.bitmap)
        /\ ram.bitmap = {Pag(ram, y).number : y \in Presentes(ram)}
    BY <2>1, <2>2, PresentesContadas
  <2>5. /\ Cardinality(Ausentes) = Cardinality(ram.virtual_bitmap \ ram.perdidos)
        /\ ram.virtual_bitmap \ ram.perdidos = {Pag(ram, y).number : y \in Ausentes}
    BY <2>1, <2>2, AusentesContadas
  <2>6. Numeros(Presentes(ram)) = ram.bitmap /\ Numeros(Ausentes) = ram.virtual_bitmap \ ram.perdidos
    BY <2>4, <2>5 DEF Numeros
  <2>7. ram.virtual_bitmap = Numeros(Ausentes) \cup ram.perdidos /\ Numeros(Ausentes) \cap ram.perdidos = {}
    BY <2>3, <2>6
  <2> QED BY <2>4, <2>5, <2>6, <2>7 DEF CadaPaginaSuLugar
<1> QED BY <1>1, PaginasEnSuLugar, PTL

(* The frames and slots counted when a patota is admitted are there for     *)
(* each of its pages, and the pages brought back and taken again later,     *)
(* with their TCBs or after an expulsion, never need one more: get_frame    *)
(* finds a frame whenever it is asked.                                      *)
THEOREM HayMarcoSiempre ==
  ASSUME Intercalado = FALSE
  PROVE  Spec => []SiempreHayMarco
<1>1. InvLugar => SiempreHayMarco
  BY DEF InvLugar, SiempreHayMarco
<1> QED BY <1>1, PaginasEnSuLugar, PTL
=============================================================================
