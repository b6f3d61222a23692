------------------------ MODULE SegmentacionMemoria ------------------------
(***************************************************************************)
(* Segmentacion, for every size of the memory, any patotas and tasks and   *)
(* any criterion.                                                          *)
(*                                                                         *)
(* MemoriaRepartida: no step makes two segments share a cell or loses one. *)
(* The invariant says it with the set of the cells covered; a sum of sizes *)
(* is then the number of cells, which is what the compaction, whose bases  *)
(* are sums, needs.                                                        *)
(*                                                                         *)
(* ContenidoIntacto and Cumple: what is saved in a segment stays through   *)
(* the moves and the writes of the others, so the next of a TCB counts its *)
(* tasks, and MiRAMHQ keeps what ServicioRAM promises.  Both need that no  *)
(* task is empty, and that no segment ends at the end of the memory, where *)
(* it is not written.                                                      *)
(***************************************************************************)
EXTENDS Segmentacion, CeldasPatota

Cub(S) == {a \in 0..(TamMemoria - 1) : \E s \in S : Contiene(s, a)}
EsRegion(s) == /\ s.baseAddr \in 0..TamMemoria /\ s.limit \in 0..TamMemoria
               /\ s.baseAddr <= s.limit
Regiones(S) == IsFiniteSet(S) /\ \A s \in S : EsRegion(s)
Aparte(s, r) == s.limit <= r.baseAddr \/ r.limit <= s.baseAddr
Separadas(S, R) == \A s \in S, r \in R : Aparte(s, r)

Segmento == [p : Patotas, nroSegmento : Nat, type : {"PCB", "TCB", "TASK"},
             id : Patotas \cup Trips, baseAddr : 0..TamMemoria, limit : 0..TamMemoria]
ClavesUnicas(S) == \A s, r \in S : s.p = r.p /\ s.nroSegmento = r.nroSegmento => s = r
Tabla(S)  == S \subseteq Segmento /\ ClavesUnicas(S) /\ Regiones(S) /\ Disjuntas(S)
Huecos(L) == L \subseteq Region /\ Regiones(L) /\ Disjuntas(L)
(* S the segments, L the holes, R the reservation: apart, and nothing else. *)
Reparto(S, L, R) ==
  /\ Tabla(S) /\ Huecos(L) /\ Huecos(R)
  /\ Separadas(S, L) /\ Separadas(S, R) /\ Separadas(L, R)
  /\ \A a \in 0..(TamMemoria - 1) : a \in Cub(S) \/ a \in Cub(L) \/ a \in Cub(R)

-----------------------------------------------------------------------------
(* Regions, the cells they cover and the sum of their sizes *)

(* What a set of regions covers is finite. *)
LEMMA CubiertoFinito ==
  ASSUME NEW S
  PROVE  IsFiniteSet(Cub(S)) /\ Cardinality(Cub(S)) \in Nat /\ Cardinality(Cub(S)) <= TamMemoria
<1>1. IsFiniteSet(0..(TamMemoria - 1)) /\ Cardinality(0..(TamMemoria - 1)) = TamMemoria
  <2>1. TamMemoria \in Nat
    BY MemoriaOK
  <2>2. 0 \in Int /\ TamMemoria - 1 \in Int
    BY <2>1
  <2>3. /\ IsFiniteSet(0..(TamMemoria - 1))
        /\ Cardinality(0..(TamMemoria - 1)) = IF 0 > TamMemoria - 1 THEN 0 ELSE TamMemoria - 1 - 0 + 1
    BY <2>2, FS_Interval
  <2> QED BY <2>1, <2>3
<1>2. Cub(S) \in SUBSET (0..(TamMemoria - 1))
  BY DEF Cub
<1>3. IsFiniteSet(Cub(S)) /\ Cardinality(Cub(S)) <= TamMemoria
  BY <1>1, <1>2, FS_Subset
<1> QED BY <1>3, FS_CardinalityType

(* A region disjoint from the others adds its size to what they cover. *)
LEMMA CubiertoConUna ==
  ASSUME NEW S, NEW x, EsRegion(x), \A s \in S : EsRegion(s) /\ Aparte(s, x)
  PROVE  Cardinality(Cub(S \cup {x})) = Cardinality(Cub(S)) + Tam(x)
<1> DEFINE C == x.baseAddr..(x.limit - 1)
<1>1. TamMemoria \in Nat /\ x.baseAddr \in Nat /\ x.limit \in Nat /\ x.baseAddr <= x.limit
      /\ x.limit <= TamMemoria
  BY MemoriaOK DEF EsRegion
<1>2. Cub(S \cup {x}) = Cub(S) \cup C
  <2>1. \A a \in C : a \in 0..(TamMemoria - 1) /\ Contiene(x, a)
    BY <1>1 DEF Contiene
  <2>2. \A a \in 0..(TamMemoria - 1) : Contiene(x, a) => a \in C
    BY <1>1 DEF Contiene
  <2> QED BY <2>1, <2>2 DEF Cub
<1>3. Cub(S) \cap C = {}
  <2> SUFFICES ASSUME NEW a \in C, NEW s \in S, Contiene(s, a) PROVE FALSE
    BY DEF Cub
  <2>1. s.baseAddr \in Nat /\ s.limit \in Nat /\ Aparte(s, x)
    BY DEF EsRegion
  <2> QED BY <1>1, <2>1 DEF Contiene, Aparte
<1>4. IsFiniteSet(C) /\ Cardinality(C) = Tam(x)
  <2>1. x.baseAddr \in Int /\ x.limit - 1 \in Int
    BY <1>1
  <2>2. /\ IsFiniteSet(C)
        /\ Cardinality(C) = IF x.baseAddr > x.limit - 1 THEN 0 ELSE x.limit - 1 - x.baseAddr + 1
    BY <2>1, FS_Interval
  <2> HIDE DEF C
  <2>3. CASE x.baseAddr > x.limit - 1
    BY <1>1, <2>2, <2>3 DEF Tam
  <2>4. CASE ~(x.baseAddr > x.limit - 1)
    BY <1>1, <2>2, <2>4 DEF Tam
  <2> QED BY <2>3, <2>4
<1>5. IsFiniteSet(Cub(S)) /\ Cardinality(Cub(S)) \in Nat
  BY CubiertoFinito
<1>6. Cardinality(Cub(S) \cup C) = Cardinality(Cub(S)) + Cardinality(C) - Cardinality(Cub(S) \cap C)
  <2> HIDE DEF C
  <2> QED BY <1>4, <1>5, FS_Union
<1>7. Cardinality(Cub(S) \cap C) = 0
  BY <1>3, FS_EmptySet
<1>8. Tam(x) \in Nat
  BY <1>1 DEF Tam
<1>9. Cardinality(Cub(S \cup {x})) = Cardinality(Cub(S)) + Tam(x) - 0
  BY <1>2, <1>4, <1>6, <1>7, Zenon
<1> QED BY <1>5, <1>8, <1>9

(* The sum of the sizes of disjoint regions is the number of their cells. *)
LEMMA SumaEsCubierto ==
  ASSUME NEW S, Regiones(S), Disjuntas(S)
  PROVE  Suma(S) = Cardinality(Cub(S))
<1> DEFINE una(T) == CHOOSE x \in T : TRUE
           Sigue(f, T) == IF T = {} THEN 0 ELSE Tam(una(T)) + f[T \ {una(T)}]
           g == [T \in SUBSET S |-> Cardinality(Cub(T))]
           iter == CHOOSE f : f = [T \in SUBSET S |-> Sigue(f, T)]
<1>1. ASSUME NEW T \in SUBSET S PROVE Cardinality(Cub(T)) = Sigue(g, T)
  <2>1. CASE T = {}
    <3>1. Cub(T) = {}
      BY <2>1 DEF Cub
    <3> QED BY <2>1, <3>1, FS_EmptySet
  <2>2. CASE T # {}
    <3>1. PICK x \in T : x = una(T)
      BY <2>2
    <3>0. PICK U \in SUBSET S : U = T \ {x}
      OBVIOUS
    <3> HIDE DEF una
    <3>2. EsRegion(x) /\ \A s \in U : EsRegion(s) /\ Aparte(s, x)
      BY <3>1, <3>0 DEF Regiones, Disjuntas, Aparte
    <3>3. Cardinality(Cub(U \cup {x})) = Cardinality(Cub(U)) + Tam(x)
      BY <3>2, CubiertoConUna
    <3>4. U \cup {x} = T
      BY <3>1, <3>0
    <3>5. Cardinality(Cub(U)) \in Nat /\ Tam(x) \in Int
      BY <3>2, CubiertoFinito DEF EsRegion, Tam
    <3>6. Cardinality(Cub(T)) = Tam(x) + Cardinality(Cub(U))
      <4>1. Cardinality(Cub(T)) = Cardinality(Cub(U)) + Tam(x)
        BY <3>3, <3>4, Zenon
      <4> QED BY <4>1, <3>5
    <3> QED BY <2>2, <3>1, <3>6, <3>0
  <2> QED BY <2>1, <2>2
<1>2. g = [T \in SUBSET S |-> Sigue(g, T)]
  BY <1>1
<1>3. iter = [T \in SUBSET S |-> Sigue(iter, T)]
  BY <1>2
<1>4. Suma(S) = iter[S]
  BY DEF Suma, MapThenSumSet, MapThenFoldSet
<1> HIDE DEF iter, g, una
<1> DEFINE malos == {n \in Nat : \E T \in SUBSET S : Cardinality(T) = n /\ iter[T] # g[T]}
<1>5. malos = {}
  <2> SUFFICES ASSUME malos # {} PROVE FALSE
    OBVIOUS
  <2>1. PICK n \in malos : \A k \in malos : n <= k
    BY MinimoNat
  <2>2. PICK T \in SUBSET S : Cardinality(T) = n /\ iter[T] # g[T]
    OBVIOUS
  <2> DEFINE U == T \ {una(T)}
  <2>3. iter[T] = Sigue(iter, T) /\ g[T] = Sigue(g, T)
    BY <1>2, <1>3
  <2>4. T # {} /\ iter[U] # g[U]
    BY <2>2, <2>3
  <2>5. IsFiniteSet(T) /\ una(T) \in T
    BY <2>4, FS_Subset DEF Regiones, una
  <2>6. IsFiniteSet(U) /\ Cardinality(U) = n - 1 /\ U \in SUBSET S
    BY <2>2, <2>5, FS_RemoveElement
  <2>7. Cardinality(U) \in Nat
    BY <2>6, FS_CardinalityType
  <2>8. n - 1 \in malos /\ n \in Nat
    BY <2>4, <2>6, <2>7
  <2> QED BY <2>1, <2>8
<1>6. Cardinality(S) \in Nat /\ S \in SUBSET S
  BY FS_CardinalityType DEF Regiones
<1>7. iter[S] = g[S]
  BY <1>5, <1>6
<1> QED BY <1>4, <1>7 DEF g

(* More regions cover more cells. *)
LEMMA CubiertoCrece ==
  ASSUME NEW S, NEW T, T \subseteq S
  PROVE  Cub(T) \subseteq Cub(S) /\ Cardinality(Cub(T)) <= Cardinality(Cub(S))
<1>1. Cub(T) \in SUBSET Cub(S)
  BY DEF Cub
<1> QED BY <1>1, CubiertoFinito, FS_Subset

(* Regions that cover nothing of one another lie apart, and cover in all    *)
(* what each covers.                                                        *)
LEMMA CubiertosAparte ==
  ASSUME NEW S, NEW R, Separadas(S, R), \A s \in S \cup R : EsRegion(s)
  PROVE  Cub(S) \cap Cub(R) = {}
<1> SUFFICES ASSUME NEW a \in 0..(TamMemoria - 1), NEW s \in S, NEW r \in R,
                    Contiene(s, a), Contiene(r, a)
             PROVE  FALSE
  BY DEF Cub
<1>1. Aparte(s, r) /\ EsRegion(s) /\ EsRegion(r) /\ a \in Int
  BY DEF Separadas
<1> QED BY <1>1, MemoriaOK DEF Aparte, EsRegion, Contiene

(* Regions moved to disjoint places of the same sizes cover as many cells. *)
LEMMA CubiertoMudado ==
  ASSUME NEW S, Regiones(S), Disjuntas(S), NEW f,
         \A s \in S : EsRegion(f[s]) /\ Tam(f[s]) = Tam(s),
         \A s, r \in S : s = r \/ Aparte(f[s], f[r])
  PROVE  Cardinality(Cub({f[s] : s \in S})) = Cardinality(Cub(S))
<1> DEFINE Mal(T) == Cardinality(Cub({f[s] : s \in T})) # Cardinality(Cub(T))
           malos == {n \in Nat : \E T \in SUBSET S : Cardinality(T) = n /\ Mal(T)}
<1>1. malos = {}
  <2> SUFFICES ASSUME malos # {} PROVE FALSE
    OBVIOUS
  <2>1. PICK n \in malos : \A k \in malos : n <= k
    BY MinimoNat
  <2>2. PICK T \in SUBSET S : Cardinality(T) = n /\ Mal(T)
    OBVIOUS
  <2>3. T # {}
    <3> SUFFICES ASSUME T = {} PROVE FALSE
      OBVIOUS
    <3>1. {f[s] : s \in T} = T
      OBVIOUS
    <3> QED BY <2>2, <3>1
  <2>4. PICK x \in T : TRUE
    BY <2>3
  <2>5. PICK U \in SUBSET S : U = T \ {x}
    OBVIOUS
  <2>6. IsFiniteSet(T) /\ IsFiniteSet(U) /\ Cardinality(U) = n - 1
    BY <2>2, <2>4, <2>5, FS_Subset, FS_RemoveElement DEF Regiones
  <2>7. Cardinality(U) \in Nat /\ n \in Nat
    BY <2>6, FS_CardinalityType
  <2>8. ~Mal(U)
    <3>1. n - 1 \notin malos /\ n - 1 \in Nat
      <4> HIDE DEF malos
      <4> QED BY <2>1, <2>6, <2>7
    <3> QED BY <2>6, <3>1
  <2>9. Cardinality(Cub(T)) = Cardinality(Cub(U)) + Tam(x)
    <3>1. T = U \cup {x}
      BY <2>4, <2>5
    <3>2. EsRegion(x) /\ \A s \in U : EsRegion(s) /\ Aparte(s, x)
      BY <2>4, <2>5 DEF Regiones, Disjuntas, Aparte
    <3>3. Cardinality(Cub(U \cup {x})) = Cardinality(Cub(U)) + Tam(x)
      BY <3>2, CubiertoConUna
    <3> QED BY <3>1, <3>3, Zenon
  <2>10. Cardinality(Cub({f[s] : s \in T})) = Cardinality(Cub({f[s] : s \in U})) + Tam(f[x])
    <3>1. {f[s] : s \in T} = {f[s] : s \in U} \cup {f[x]}
      BY <2>4, <2>5
    <3>2. EsRegion(f[x]) /\ \A s \in U : EsRegion(f[s]) /\ Aparte(f[s], f[x])
      BY <2>4, <2>5
    <3>3. \A r \in {f[s] : s \in U} : EsRegion(r) /\ Aparte(r, f[x])
      BY <3>2
    <3>4. Cardinality(Cub({f[s] : s \in U} \cup {f[x]}))
          = Cardinality(Cub({f[s] : s \in U})) + Tam(f[x])
      BY <3>2, <3>3, CubiertoConUna
    <3> QED BY <3>1, <3>4, Zenon
  <2>11. Tam(f[x]) = Tam(x)
    BY <2>4
  <2>12. Cardinality(Cub({f[s] : s \in T})) = Cardinality(Cub(T))
    <3>1. Cardinality(Cub({f[s] : s \in U})) = Cardinality(Cub(U))
      BY <2>8
    <3> QED BY <2>9, <2>10, <2>11, <3>1, Zenon
  <2> QED BY <2>2, <2>12
<1>2. Cardinality(S) \in Nat /\ S \in SUBSET S
  BY FS_CardinalityType DEF Regiones
<1> QED BY <1>1, <1>2
-----------------------------------------------------------------------------
(* What each operation does to the division of the memory *)

(* The empty memory is one hole. *)
LEMMA RepartoInicial == Reparto({}, {Hueco(0, TamMemoria)}, {})
<1>1. TamMemoria \in Nat
  BY MemoriaOK
<1>2. Hueco(0, TamMemoria) \in Region /\ EsRegion(Hueco(0, TamMemoria))
  BY <1>1 DEF Hueco, Region, EsRegion
<1>3. Huecos({Hueco(0, TamMemoria)})
  BY <1>2, FS_Singleton DEF Huecos, Regiones, Disjuntas
<1>4. Huecos({}) /\ Tabla({})
  BY FS_EmptySet DEF Huecos, Tabla, Regiones, Disjuntas, ClavesUnicas
<1>5. \A a \in 0..(TamMemoria - 1) : a \in Cub({Hueco(0, TamMemoria)})
  BY <1>1 DEF Cub, Contiene, Hueco
<1> QED BY <1>3, <1>4, <1>5 DEF Reparto, Separadas

(* The first cells of a hole are reserved. *)
LEMMA RepartoOcupar ==
  ASSUME NEW S, NEW L, Reparto(S, L, {}), NEW h \in L, NEW tam \in Nat, Tam(h) >= tam
  PROVE  Reparto(S, Ocupar(L, h, tam), {Hueco(h.baseAddr, h.baseAddr + tam)})
<1> DEFINE b == h.baseAddr
           r == Hueco(b, b + tam)
           q == Hueco(b + tam, h.limit)
           M == Ocupar(L, h, tam)
<1>1. TamMemoria \in Nat /\ h \in Region /\ b \in Nat /\ h.limit \in Nat /\ h.limit <= TamMemoria
      /\ b + tam <= h.limit /\ (Tam(h) = tam <=> b + tam = h.limit)
  BY MemoriaOK DEF Reparto, Huecos, Regiones, EsRegion, Tam
<1>2. r \in Region /\ EsRegion(r) /\ q \in Region /\ EsRegion(q)
  BY <1>1 DEF Hueco, Region, EsRegion
<1>3. /\ r.baseAddr = b /\ r.limit = b + tam /\ q.baseAddr = b + tam /\ q.limit = h.limit
  BY DEF Hueco
<1> HIDE DEF b, r, q
<1>4. b = h.baseAddr
  BY DEF b
<1>5. M \subseteq (L \ {h}) \cup {q} /\ (Tam(h) # tam => q \in M) /\ L \ {h} \subseteq M
      /\ (M = L \ {h} \/ M = (L \ {h}) \cup {q})
  BY DEF Ocupar, q, b
<1> HIDE DEF M
<1>6. \A g \in L : EsRegion(g) /\ (g = h \/ Aparte(g, h))
  BY DEF Reparto, Huecos, Regiones, Disjuntas, Aparte
<1>7. \A g \in L \ {h} : Aparte(g, r) /\ Aparte(g, q) /\ Aparte(r, g) /\ Aparte(q, g)
  BY <1>1, <1>3, <1>4, <1>6 DEF Aparte, EsRegion
<1>8. \A s \in S : EsRegion(s) /\ Aparte(s, r) /\ Aparte(s, q)
  BY <1>1, <1>3, <1>4 DEF Aparte, EsRegion, Reparto, Separadas, Tabla, Regiones
<1>9. Huecos(M)
  <2>1. IsFiniteSet(L) /\ L \subseteq Region
    BY DEF Reparto, Huecos, Regiones
  <2>2. IsFiniteSet(L \ {h}) /\ IsFiniteSet((L \ {h}) \cup {q})
    BY <2>1, FS_RemoveElement, FS_AddElement
  <2>3. IsFiniteSet(M) /\ M \subseteq Region /\ \A g \in M : EsRegion(g)
    BY <1>2, <1>5, <1>6, <2>1, <2>2
  <2>4. \A g, k \in L \ {h} : g = k \/ Aparte(g, k)
    BY DEF Reparto, Huecos, Disjuntas, Aparte
  <2>5. \A g, k \in M : g = k \/ Aparte(g, k)
    BY <1>5, <1>7, <2>4
  <2> QED BY <2>3, <2>5 DEF Huecos, Regiones, Disjuntas, Aparte
<1>10. Huecos({r})
  BY <1>2, FS_Singleton DEF Huecos, Regiones, Disjuntas
<1>11. Aparte(q, r)
  BY <1>1, <1>3 DEF Aparte
<1>12. ASSUME NEW a \in 0..(TamMemoria - 1) PROVE a \in Cub(S) \/ a \in Cub(M) \/ a \in Cub({r})
  <2>1. a \in Cub(S) \/ \E g \in L : Contiene(g, a)
    BY DEF Reparto, Cub
  <2>2. CASE \E g \in L \ {h} : Contiene(g, a)
    BY <1>5, <2>2 DEF Cub
  <2>3. CASE Contiene(h, a)
    <3>1. a \in Nat
      OBVIOUS
    <3>2. Contiene(r, a) \/ Contiene(q, a)
      BY <1>1, <1>3, <1>4, <2>3, <3>1 DEF Contiene
    <3>3. Contiene(q, a) => Tam(h) # tam
      BY <1>1, <1>3, <1>4, <3>1 DEF Contiene
    <3> QED BY <1>5, <3>2, <3>3 DEF Cub
  <2> QED BY <2>1, <2>2, <2>3
<1>13. Tabla(S) /\ Separadas(S, M) /\ Separadas(S, {r}) /\ Separadas(M, {r})
  <2>1. Tabla(S) /\ \A s \in S, g \in L : Aparte(s, g)
    BY DEF Reparto, Separadas
  <2> QED BY <1>5, <1>7, <1>8, <1>11, <2>1 DEF Separadas
<1> QED BY <1>9, <1>10, <1>12, <1>13 DEF Reparto, r, M, b

(* The reservation becomes a segment with a number of its own. *)
LEMMA RepartoGuardar ==
  ASSUME NEW S, NEW L, NEW r, Reparto(S, L, {r}), NEW s \in Segmento,
         s.baseAddr = r.baseAddr, s.limit = r.limit,
         \A x \in S : x.p = s.p => x.nroSegmento # s.nroSegmento
  PROVE  Reparto(S \cup {s}, L, {})
<1>1. EsRegion(r) /\ EsRegion(s)
  BY DEF Reparto, Huecos, Regiones, EsRegion
<1>2. /\ IsFiniteSet(S) /\ IsFiniteSet(S \cup {s}) /\ \A x \in S : EsRegion(x) /\ Aparte(x, s)
      /\ S \subseteq Segmento
  BY <1>1, FS_AddElement DEF Reparto, Tabla, Regiones, Separadas, Aparte
<1>3. \A x, y \in S \cup {s} : x = y \/ Aparte(x, y)
  BY <1>2 DEF Reparto, Tabla, Disjuntas, Aparte
<1>4. ClavesUnicas(S \cup {s})
  BY DEF ClavesUnicas, Reparto, Tabla
<1>5. Tabla(S \cup {s})
  BY <1>1, <1>2, <1>3, <1>4 DEF Tabla, Regiones, Disjuntas, Aparte
<1>6. Separadas(S \cup {s}, L)
  BY DEF Reparto, Separadas, Aparte
<1>7. Huecos({}) /\ Separadas(S \cup {s}, {}) /\ Separadas(L, {})
  BY FS_EmptySet DEF Huecos, Regiones, Disjuntas, Separadas
<1>8. ASSUME NEW a \in 0..(TamMemoria - 1) PROVE a \in Cub(S \cup {s}) \/ a \in Cub(L)
  <2>1. a \in Cub(S) \/ a \in Cub(L) \/ Contiene(r, a)
    BY DEF Reparto, Cub
  <2> QED BY <2>1 DEF Cub, Contiene
<1> QED BY <1>5, <1>6, <1>7, <1>8 DEF Reparto

(* Segments given back become holes. *)
LEMMA RepartoDevolver ==
  ASSUME NEW S, NEW L, NEW R, Reparto(S, L, R), NEW T, T \subseteq S
  PROVE  Reparto(S \ T, L \cup {Hueco(s.baseAddr, s.limit) : s \in T}, R)
<1> DEFINE H == {Hueco(s.baseAddr, s.limit) : s \in T}
           f == [s \in T |-> Hueco(s.baseAddr, s.limit)]
<1>1. IsFiniteSet(T) /\ IsFiniteSet(S \ T)
  BY FS_Subset DEF Reparto, Tabla, Regiones
<1>2. IsFiniteSet(H)
  <2>1. f \in Surjection(T, H)
    BY DEF Surjection
  <2> HIDE DEF f, H
  <2> QED BY <1>1, <2>1, FS_Surjection
<1>3. \A h \in H : \E s \in T : h.baseAddr = s.baseAddr /\ h.limit = s.limit /\ h = Hueco(s.baseAddr, s.limit)
  BY DEF Hueco
<1>4. \A s \in T : \E h \in H : h.baseAddr = s.baseAddr /\ h.limit = s.limit
  <2>1. \A s \in T : Hueco(s.baseAddr, s.limit) \in H
    OBVIOUS
  <2>2. \A s \in T : /\ Hueco(s.baseAddr, s.limit).baseAddr = s.baseAddr
                    /\ Hueco(s.baseAddr, s.limit).limit = s.limit
    BY DEF Hueco
  <2> HIDE DEF H
  <2> QED BY <2>1, <2>2
<1>5. ASSUME NEW h \in H PROVE h \in Region /\ EsRegion(h)
  <2>1. PICK s \in T : h.baseAddr = s.baseAddr /\ h.limit = s.limit /\ h = Hueco(s.baseAddr, s.limit)
    BY <1>3
  <2>2. EsRegion(s)
    BY DEF Reparto, Tabla, Regiones
  <2> QED BY <2>1, <2>2 DEF Region, EsRegion, Hueco
<1> HIDE DEF H
<1>6. Tabla(S \ T)
  BY <1>1 DEF Tabla, Reparto, Regiones, Disjuntas, ClavesUnicas
<1>7. \A s, x \in S : s = x \/ Aparte(s, x)
  BY DEF Reparto, Tabla, Disjuntas, Aparte
<1>8. Huecos(L \cup H)
  <2>1. L \subseteq Region /\ IsFiniteSet(L) /\ \A h \in L : EsRegion(h)
    BY DEF Reparto, Huecos, Regiones
  <2>2. IsFiniteSet(L \cup H)
    BY <1>2, <2>1, FS_Union
  <2>3. ASSUME NEW h \in H, NEW k \in H PROVE h = k \/ Aparte(h, k)
    <3>1. PICK s \in T : h.baseAddr = s.baseAddr /\ h.limit = s.limit /\ h = Hueco(s.baseAddr, s.limit)
      BY <1>3
    <3>2. PICK x \in T : k.baseAddr = x.baseAddr /\ k.limit = x.limit /\ k = Hueco(x.baseAddr, x.limit)
      BY <1>3
    <3> QED BY <1>7, <3>1, <3>2 DEF Aparte
  <2>4. \A h \in H, g \in L : Aparte(h, g) /\ Aparte(g, h)
    BY <1>3 DEF Reparto, Separadas, Aparte
  <2>5. \A g, k \in L : g = k \/ Aparte(g, k)
    BY DEF Reparto, Huecos, Disjuntas, Aparte
  <2>6. \A h, k \in L \cup H : h = k \/ Aparte(h, k)
    BY <2>3, <2>4, <2>5
  <2> QED BY <1>5, <2>1, <2>2, <2>6 DEF Huecos, Regiones, Disjuntas, Aparte
<1>9. Separadas(S \ T, L \cup H)
  <2>1. \A s \in S \ T, h \in H : Aparte(s, h)
    <3> SUFFICES ASSUME NEW s \in S \ T, NEW h \in H PROVE Aparte(s, h)
      OBVIOUS
    <3>1. PICK x \in T : h.baseAddr = x.baseAddr /\ h.limit = x.limit
      BY <1>3
    <3> QED BY <1>7, <3>1 DEF Aparte
  <2> QED BY <2>1 DEF Reparto, Separadas
<1>10. Separadas(S \ T, R) /\ Huecos(R)
  BY DEF Reparto, Separadas
<1>11. Separadas(L \cup H, R)
  BY <1>3 DEF Reparto, Separadas, Aparte
<1>12. ASSUME NEW a \in 0..(TamMemoria - 1)
       PROVE a \in Cub(S \ T) \/ a \in Cub(L \cup H) \/ a \in Cub(R)
  <2>1. (\E s \in S : Contiene(s, a)) \/ a \in Cub(L) \/ a \in Cub(R)
    BY DEF Reparto, Cub
  <2>2. CASE \E s \in T : Contiene(s, a)
    BY <1>4, <2>2 DEF Cub, Contiene
  <2>3. CASE \E s \in S \ T : Contiene(s, a)
    BY <2>3 DEF Cub
  <2> QED BY <2>1, <2>2, <2>3 DEF Cub
<1> QED BY <1>6, <1>8, <1>9, <1>10, <1>11, <1>12 DEF Reparto, H

(* The sizes of the segments, the holes and the reservation add up to the   *)
(* memory.                                                                  *)
LEMMA RepartoSuma ==
  ASSUME NEW S, NEW L, NEW R, Reparto(S, L, R)
  PROVE  /\ Suma(S) \in Nat /\ Suma(L) \in Nat /\ Suma(R) \in Nat
         /\ Suma(S) + Suma(L) + Suma(R) = TamMemoria
<1>1. Suma(S) = Cardinality(Cub(S)) /\ Suma(L) = Cardinality(Cub(L)) /\ Suma(R) = Cardinality(Cub(R))
  BY SumaEsCubierto DEF Reparto, Tabla, Huecos
<1>2. /\ \A s \in S : EsRegion(s)
      /\ \A s \in L : EsRegion(s)
      /\ \A s \in R : EsRegion(s)
  BY DEF Reparto, Tabla, Huecos, Regiones
<1>3. Cub(S) \cap Cub(L) = {} /\ Cub(S) \cap Cub(R) = {} /\ Cub(L) \cap Cub(R) = {}
  BY <1>2, CubiertosAparte DEF Reparto
<1>4. /\ IsFiniteSet(Cub(S)) /\ IsFiniteSet(Cub(L)) /\ IsFiniteSet(Cub(R))
      /\ Cardinality(Cub(S)) \in Nat /\ Cardinality(Cub(L)) \in Nat /\ Cardinality(Cub(R)) \in Nat
  BY CubiertoFinito
<1>5. /\ IsFiniteSet(Cub(S) \cup Cub(L))
      /\ Cardinality(Cub(S) \cup Cub(L)) = Cardinality(Cub(S)) + Cardinality(Cub(L)) - Cardinality({})
  BY <1>3, <1>4, FS_Union
<1>6. (Cub(S) \cup Cub(L)) \cap Cub(R) = {}
  BY <1>3
<1>7. Cardinality((Cub(S) \cup Cub(L)) \cup Cub(R))
      = Cardinality(Cub(S) \cup Cub(L)) + Cardinality(Cub(R)) - Cardinality({})
  BY <1>4, <1>5, <1>6, FS_Union
<1>8. (Cub(S) \cup Cub(L)) \cup Cub(R) = 0..(TamMemoria - 1)
  BY DEF Cub, Reparto
<1>9. Cardinality({}) = 0 /\ Cardinality(0..(TamMemoria - 1)) = TamMemoria
  <2>1. TamMemoria \in Nat /\ 0 \in Int /\ TamMemoria - 1 \in Int
    BY MemoriaOK
  <2>2. Cardinality(0..(TamMemoria - 1)) = IF 0 > TamMemoria - 1 THEN 0 ELSE TamMemoria - 1 - 0 + 1
    BY <2>1, FS_Interval
  <2> QED BY <2>1, <2>2, FS_EmptySet
<1>10. TamMemoria = Cardinality(Cub(S) \cup Cub(L)) + Cardinality(Cub(R)) - 0
  BY <1>7, <1>8, <1>9, Zenon
<1>11. Cardinality(Cub(S) \cup Cub(L)) = Cardinality(Cub(S)) + Cardinality(Cub(L)) - 0
  BY <1>5, <1>9, Zenon
<1>12. Cardinality(Cub(S) \cup Cub(L)) = Cardinality(Cub(S)) + Cardinality(Cub(L))
  BY <1>4, <1>11
<1> QED BY <1>1, <1>4, <1>10, <1>12

(* Before a segment go those of lower addresses, and of those before them.  *)
LEMMA AnterioresOrden ==
  ASSUME NEW S, Tabla(S), NEW s \in S
  PROVE  /\ Anteriores(S, s) \subseteq S /\ s \notin Anteriores(S, s)
         /\ \A r \in Anteriores(S, s) : Anteriores(S, r) \cup {r} \subseteq Anteriores(S, s)
         /\ \A r \in S : r = s \/ r \in Anteriores(S, s) \/ s \in Anteriores(S, r)
<1>1. \A x \in S : x.baseAddr \in Nat /\ x.p \in Nat /\ x.nroSegmento \in Nat
  BY PatotasOK, MemoriaOK DEF Tabla, Segmento
<1>2. s \notin Anteriores(S, s)
  BY <1>1 DEF Anteriores
<1>3. ASSUME NEW r \in Anteriores(S, s), NEW x \in Anteriores(S, r) PROVE x \in Anteriores(S, s)
  <2>1. r \in S /\ x \in S
    BY DEF Anteriores
  <2> QED BY <1>1, <2>1 DEF Anteriores
<1>4. ASSUME NEW r \in S, r # s PROVE r \in Anteriores(S, s) \/ s \in Anteriores(S, r)
  <2>1. r.p # s.p \/ r.nroSegmento # s.nroSegmento
    BY <1>4 DEF Tabla, ClavesUnicas
  <2> QED BY <1>1, <2>1 DEF Anteriores
<1> QED BY <1>2, <1>3, <1>4 DEF Anteriores

(* The part of a table is as good: its sum is the number of its cells.      *)
LEMMA SumaDeParte ==
  ASSUME NEW S, Tabla(S), NEW T, T \subseteq S
  PROVE  Suma(T) = Cardinality(Cub(T)) /\ Suma(T) \in Nat /\ Suma(T) <= Suma(S)
         /\ Suma(S) <= TamMemoria
<1>1. Regiones(T) /\ Disjuntas(T)
  BY FS_Subset DEF Tabla, Regiones, Disjuntas
<1>2. Suma(T) = Cardinality(Cub(T)) /\ Suma(S) = Cardinality(Cub(S))
  BY <1>1, SumaEsCubierto DEF Tabla
<1>3. /\ Cardinality(Cub(T)) \in Nat /\ Cardinality(Cub(T)) <= Cardinality(Cub(S))
      /\ Cardinality(Cub(S)) <= TamMemoria
  BY CubiertoFinito, CubiertoCrece
<1> QED BY <1>2, <1>3

(* Where the compaction puts a segment: after those before it.              *)
LEMMA ReubicadoEnOrden ==
  ASSUME NEW S, Tabla(S), NEW s \in S
  PROVE  /\ Reubicado(S, s) \in Segmento /\ EsRegion(Reubicado(S, s))
         /\ Reubicado(S, s).p = s.p /\ Reubicado(S, s).nroSegmento = s.nroSegmento
         /\ Reubicado(S, s).type = s.type /\ Reubicado(S, s).id = s.id
         /\ Reubicado(S, s).baseAddr = Suma(Anteriores(S, s))
         /\ Reubicado(S, s).limit = Suma(Anteriores(S, s) \cup {s})
         /\ Reubicado(S, s).limit <= Suma(S)
         /\ Tam(Reubicado(S, s)) = Tam(s)
<1> DEFINE A == Anteriores(S, s)
           q == Reubicado(S, s)
<1>1. A \subseteq S /\ s \notin A /\ s \in Segmento /\ EsRegion(s) /\ A \cup {s} \subseteq S
  BY AnterioresOrden DEF Tabla, Regiones
<1>2. /\ Suma(A) = Cardinality(Cub(A)) /\ Suma(A) \in Nat
      /\ Suma(A \cup {s}) = Cardinality(Cub(A \cup {s})) /\ Suma(A \cup {s}) <= Suma(S)
      /\ Suma(S) <= TamMemoria /\ Suma(A \cup {s}) \in Nat
  BY <1>1, SumaDeParte
<1>3. Cardinality(Cub(A \cup {s})) = Cardinality(Cub(A)) + Tam(s)
  <2>1. \A r \in A : EsRegion(r) /\ Aparte(r, s)
    BY <1>1 DEF Tabla, Regiones, Disjuntas, Aparte
  <2> QED BY <1>1, <2>1, CubiertoConUna
<1>4. Suma(A \cup {s}) = Suma(A) + Tam(s) /\ Tam(s) \in Nat
  <2>1. Tam(s) \in Nat
    BY <1>1 DEF EsRegion, Tam
  <2> QED BY <1>2, <1>3, <2>1
<1>5. q = [s EXCEPT !.baseAddr = Suma(A), !.limit = Suma(A) + Tam(s)]
  BY DEF Reubicado
<1>6. Suma(S) \in Nat /\ TamMemoria \in Nat
  BY SumaDeParte, MemoriaOK
<1> HIDE DEF q, A
<1>7. Suma(A) \in 0..TamMemoria /\ Suma(A) + Tam(s) \in 0..TamMemoria
  BY <1>2, <1>4, <1>6
<1>8. /\ q.p = s.p /\ q.nroSegmento = s.nroSegmento /\ q.type = s.type /\ q.id = s.id
      /\ q.baseAddr = Suma(A) /\ q.limit = Suma(A) + Tam(s) /\ q \in Segmento
  BY <1>1, <1>5, <1>7 DEF Segmento
<1>9. EsRegion(q) /\ Tam(q) = Tam(s)
  BY <1>2, <1>4, <1>7, <1>8 DEF EsRegion, Tam
<1> QED BY <1>2, <1>4, <1>8, <1>9 DEF q, A

(* Two segments are put apart: the later one after all that the earlier one *)
(* had before it, and after the earlier one.                                *)
LEMMA ReubicadosAparte ==
  ASSUME NEW S, Tabla(S), NEW s \in S, NEW r \in S, s # r
  PROVE  Aparte(Reubicado(S, s), Reubicado(S, r))
<1>1. ASSUME NEW x \in S, NEW y \in S, x \in Anteriores(S, y)
      PROVE  Reubicado(S, x).limit <= Reubicado(S, y).baseAddr
  <2>1. Anteriores(S, x) \cup {x} \subseteq Anteriores(S, y) /\ Anteriores(S, y) \subseteq S
    BY <1>1, AnterioresOrden
  <2>2. Cardinality(Cub(Anteriores(S, x) \cup {x})) <= Cardinality(Cub(Anteriores(S, y)))
    BY <2>1, CubiertoCrece
  <2>3. /\ Suma(Anteriores(S, x) \cup {x}) = Cardinality(Cub(Anteriores(S, x) \cup {x}))
        /\ Suma(Anteriores(S, y)) = Cardinality(Cub(Anteriores(S, y)))
    BY <2>1, SumaDeParte
  <2>4. /\ Reubicado(S, x).limit = Suma(Anteriores(S, x) \cup {x})
        /\ Reubicado(S, y).baseAddr = Suma(Anteriores(S, y))
    BY ReubicadoEnOrden
  <2> QED BY <2>2, <2>3, <2>4, Zenon
<1>2. s \in Anteriores(S, r) \/ r \in Anteriores(S, s)
  BY AnterioresOrden
<1> QED BY <1>1, <1>2 DEF Aparte

(* Compacted, the segments take the first cells, one after another, and the *)
(* rest is one hole.                                                        *)
LEMMA RepartoCompactar ==
  ASSUME NEW S, NEW L, Reparto(S, L, {})
  PROVE  /\ Reparto({Reubicado(S, s) : s \in S}, {Hueco(Suma(S), TamMemoria)}, {})
         /\ Suma({Reubicado(S, s) : s \in S}) = Suma(S)
<1> DEFINE f == [s \in S |-> Reubicado(S, s)]
           I == {Reubicado(S, s) : s \in S}
           h == Hueco(Suma(S), TamMemoria)
<1>1. Tabla(S) /\ Regiones(S) /\ Disjuntas(S) /\ IsFiniteSet(S)
  BY DEF Reparto, Tabla, Regiones
<1>2. TamMemoria \in Nat /\ Suma(S) \in Nat /\ Suma(S) <= TamMemoria /\ Suma(S) = Cardinality(Cub(S))
  BY <1>1, MemoriaOK, SumaDeParte
<1>3. ASSUME NEW s \in S
      PROVE  /\ f[s] \in Segmento /\ EsRegion(f[s]) /\ Tam(f[s]) = Tam(s)
             /\ f[s].limit <= Suma(S) /\ f[s].p = s.p /\ f[s].nroSegmento = s.nroSegmento
  BY <1>1, ReubicadoEnOrden
<1>4. \A s, r \in S : s = r \/ Aparte(f[s], f[r])
  BY <1>1, ReubicadosAparte
<1>5. I = {f[s] : s \in S}
  OBVIOUS
<1>6. f \in Surjection(S, I)
  BY DEF Surjection
<1> HIDE DEF f
<1>7. Cardinality(Cub(I)) = Cardinality(Cub(S))
  <2>1. Cardinality(Cub({f[s] : s \in S})) = Cardinality(Cub(S))
    BY <1>1, <1>3, <1>4, CubiertoMudado
  <2> HIDE DEF I
  <2> QED BY <1>5, <2>1, Zenon
<1> HIDE DEF I
<1>8. IsFiniteSet(I)
  BY <1>1, <1>6, FS_Surjection
<1>9. Tabla(I)
  <2>1. I \subseteq Segmento /\ \A r \in I : EsRegion(r)
    BY <1>3, <1>5
  <2>2. ClavesUnicas(I)
    <3> SUFFICES ASSUME NEW x \in S, NEW y \in S, f[x].p = f[y].p, f[x].nroSegmento = f[y].nroSegmento
                 PROVE  f[x] = f[y]
      BY <1>5 DEF ClavesUnicas
    <3>1. x = y
      BY <1>1, <1>3 DEF Tabla, ClavesUnicas
    <3> QED BY <3>1
  <2>3. \A x, y \in I : x = y \/ Aparte(x, y)
    BY <1>4, <1>5
  <2> QED BY <1>8, <2>1, <2>2, <2>3 DEF Tabla, Regiones, Disjuntas, Aparte
<1>10. Suma(I) = Suma(S)
  <2>1. Suma(I) = Cardinality(Cub(I))
    BY <1>9, SumaEsCubierto DEF Tabla
  <2> QED BY <1>2, <1>7, <2>1
<1>11. h.baseAddr = Suma(S) /\ h.limit = TamMemoria /\ h \in Region /\ EsRegion(h)
  BY <1>2 DEF Hueco, Region, EsRegion
<1> HIDE DEF h
<1>12. Huecos({h}) /\ Huecos({})
  BY <1>11, FS_Singleton, FS_EmptySet DEF Huecos, Regiones, Disjuntas
<1>13. Separadas(I, {h}) /\ Separadas(I, {}) /\ Separadas({h}, {})
  <2>1. \A r \in I : r.limit <= h.baseAddr
    BY <1>3, <1>5, <1>11
  <2> QED BY <2>1 DEF Separadas, Aparte
<1>14. Cub(I) = 0..(Suma(S) - 1)
  <2>1. ASSUME NEW a \in 0..(TamMemoria - 1), NEW s \in S, Contiene(f[s], a) PROVE a \in 0..(Suma(S) - 1)
    BY <1>2, <1>3, <2>1 DEF Contiene, EsRegion
  <2>2. Cub(I) \in SUBSET (0..(Suma(S) - 1))
    BY <1>5, <2>1 DEF Cub
  <2>3. IsFiniteSet(0..(Suma(S) - 1)) /\ Cardinality(0..(Suma(S) - 1)) = Suma(S)
    <3>1. 0 \in Int /\ Suma(S) - 1 \in Int
      BY <1>2
    <3>2. /\ IsFiniteSet(0..(Suma(S) - 1))
          /\ Cardinality(0..(Suma(S) - 1)) = IF 0 > Suma(S) - 1 THEN 0 ELSE Suma(S) - 1 - 0 + 1
      BY <3>1, FS_Interval
    <3> QED BY <1>2, <3>2
  <2>4. Cardinality(0..(Suma(S) - 1)) = Cardinality(Cub(I))
    BY <1>2, <1>7, <2>3, Zenon
  <2> QED BY <2>2, <2>3, <2>4, FS_Subset, Zenon
<1>15. ASSUME NEW a \in 0..(TamMemoria - 1) PROVE a \in Cub(I) \/ a \in Cub({h})
  <2>1. CASE a < Suma(S)
    BY <1>2, <1>14, <2>1
  <2>2. CASE ~(a < Suma(S))
    BY <1>2, <1>11, <2>2 DEF Cub, Contiene
  <2> QED BY <2>1, <2>2
<1>16. Reparto(I, {h}, {})
  BY <1>9, <1>12, <1>13, <1>15 DEF Reparto
<1> QED BY <1>10, <1>16 DEF I, h
-----------------------------------------------------------------------------
(* The parts of a patota *)

UnaParte == [type : {"PCB", "TCB", "TASK"}, id : Patotas \cup Trips, tam : Nat]

(* A PCB, a TCB for each member, in the order of their tids, and the text. *)
Inscripto(t) == [type |-> "TCB", id |-> t, tam |-> TamTCB]
LEMMA PartesForma ==
  ASSUME NEW p \in Patotas
  PROVE  /\ Cardinality(Miembros(p)) \in Nat /\ Partes[p] \in Seq(UnaParte)
         /\ Len(Partes[p]) = Cardinality(Miembros(p)) + 2
         /\ Partes[p][1] = [type |-> "PCB", id |-> p, tam |-> TamPCB]
         /\ Partes[p][Len(Partes[p])] = [type |-> "TASK", id |-> p, tam |-> Len(Texto[p])]
         /\ \A i \in 2..(Len(Partes[p]) - 1) : \E t \in Miembros(p) :
              /\ Partes[p][i] = Inscripto(t)
              /\ Cardinality({u \in Miembros(p) : u < t}) = i - 2
<1> DEFINE n == Cardinality(Miembros(p))
           tcbs == Inscriptos[p]
           m == [i \in 1..Len(tcbs) |-> [type |-> "TCB", id |-> tcbs[i], tam |-> TamTCB]]
           pcb == [type |-> "PCB", id |-> p, tam |-> TamPCB]
           texto == [type |-> "TASK", id |-> p, tam |-> Len(Texto[p])]
<1>1. Miembros(p) \subseteq Nat /\ Miembros(p) \subseteq Trips /\ IsFiniteSet(Miembros(p)) /\ n \in Nat
  <2>1. Miembros(p) \in SUBSET Trips
    BY DEF Miembros
  <2> QED BY <2>1, PatotasOK, FS_Subset, FS_CardinalityType
<1>2. Len(tcbs) = n /\ tcbs \in Seq(Miembros(p))
  BY InscriptosOrden
<1>3. \A i \in 1..n : tcbs[i] \in Miembros(p) /\ Cardinality({u \in Miembros(p) : u < tcbs[i]}) = i - 1
  BY InscriptosOrden
<1> HIDE DEF tcbs, n
<1>4. tcbs \in [1..n -> Miembros(p)]
  BY <1>1, <1>2
<1>5. Len(tcbs) = n /\ tcbs \in Seq(Miembros(p))
  BY <1>2
<1>6. pcb \in UnaParte
  BY DEF UnaParte, TamPCB
<1>7. texto \in UnaParte
  <2>1. Len(Texto[p]) \in Nat
    BY TextoTipo
  <2> QED BY <2>1 DEF UnaParte
<1>8. m \in [1..n -> UnaParte] /\ \A i \in 1..n : m[i] = Inscripto(tcbs[i])
  BY <1>1, <1>4, <1>5 DEF UnaParte, TamTCB, Inscripto
<1>9. Partes[p] = <<pcb>> \o m \o <<texto>>
  BY DEF Partes, tcbs
<1> HIDE DEF m, pcb, texto
<1>10. m \in Seq(UnaParte) /\ Len(m) = n
  BY <1>1, <1>8
<1>12. <<pcb>> \o m \in Seq(UnaParte) /\ Len(<<pcb>> \o m) = n + 1
       /\ (<<pcb>> \o m)[1] = pcb /\ \A i \in 2..(n + 1) : (<<pcb>> \o m)[i] = m[i - 1]
  BY <1>1, <1>6, <1>10
<1>13. PICK q \in Seq(UnaParte) : q = <<pcb>> \o m
  BY <1>12
<1>14. q \o <<texto>> \in Seq(UnaParte) /\ Len(q \o <<texto>>) = n + 2
       /\ (q \o <<texto>>)[n + 2] = texto /\ \A i \in 1..(n + 1) : (q \o <<texto>>)[i] = q[i]
  BY <1>1, <1>7, <1>12, <1>13
<1>15. Partes[p] = q \o <<texto>>
  BY <1>9, <1>13
<1>16. Len(Partes[p]) = n + 2 /\ Partes[p] \in Seq(UnaParte)
  BY <1>14, <1>15
<1>17. Partes[p][1] = pcb /\ Partes[p][n + 2] = texto
  BY <1>1, <1>12, <1>13, <1>14, <1>15
<1>18. ASSUME NEW i \in 2..(n + 1)
       PROVE  \E t \in Miembros(p) : /\ Partes[p][i] = Inscripto(t)
                                     /\ Cardinality({u \in Miembros(p) : u < t}) = i - 2
  <2>1. i - 1 \in 1..n /\ Partes[p][i] = m[i - 1] /\ i - 1 - 1 = i - 2
    BY <1>1, <1>12, <1>13, <1>14, <1>15
  <2>2. Cardinality({u \in Miembros(p) : u < tcbs[i - 1]}) = i - 1 - 1
    BY <1>3, <2>1
  <2> QED BY <1>3, <1>8, <2>1, <2>2
<1>19. ASSUME NEW i \in 2..(Len(Partes[p]) - 1)
       PROVE  \E t \in Miembros(p) : /\ Partes[p][i] = Inscripto(t)
                                     /\ Cardinality({u \in Miembros(p) : u < t}) = i - 2
  <2>1. i \in 2..(n + 1)
    BY <1>1, <1>16
  <2> QED BY <1>18, <2>1
<1>20. /\ Partes[p][1] = [type |-> "PCB", id |-> p, tam |-> TamPCB]
       /\ Partes[p][Len(Partes[p])] = [type |-> "TASK", id |-> p, tam |-> Len(Texto[p])]
  BY <1>16, <1>17 DEF pcb, texto
<1> QED BY <1>1, <1>16, <1>19, <1>20 DEF n

(* Each with its size; the text is the last. *)
LEMMA PartesTipo ==
  ASSUME NEW p \in Patotas
  PROVE  /\ Partes[p] \in Seq(UnaParte) /\ Len(Partes[p]) \in Nat /\ Len(Partes[p]) >= 1
         /\ \A i \in 1..Len(Partes[p]) :
              /\ Partes[p][i] \in UnaParte
              /\ Partes[p][i].type = "TCB" => Partes[p][i].id \in Miembros(p) /\ Partes[p][i].tam = TamTCB
              /\ Partes[p][i].type = "TASK" => Partes[p][i].id = p /\ Partes[p][i].tam = Len(Texto[p])
              /\ Partes[p][i].type = "TASK" <=> i = Len(Partes[p])
<1> DEFINE n == Len(Partes[p])
<1>1. Partes[p] \in Seq(UnaParte) /\ n \in Nat /\ n >= 2
  <2>1. Cardinality(Miembros(p)) \in Nat /\ Partes[p] \in Seq(UnaParte) /\ n = Cardinality(Miembros(p)) + 2
    BY PartesForma, Zenon
  <2> QED BY <2>1
<1>2. ASSUME NEW i \in 1..n
      PROVE  /\ Partes[p][i] \in UnaParte
             /\ Partes[p][i].type = "TCB" => Partes[p][i].id \in Miembros(p) /\ Partes[p][i].tam = TamTCB
             /\ Partes[p][i].type = "TASK" => Partes[p][i].id = p /\ Partes[p][i].tam = Len(Texto[p])
             /\ Partes[p][i].type = "TASK" <=> i = n
  <2>1. Partes[p][i] \in UnaParte
    BY <1>1
  <2>2. CASE i = 1
    <3>1. Partes[p][i] = [type |-> "PCB", id |-> p, tam |-> TamPCB]
      BY <2>2, PartesForma
    <3>2. Partes[p][i].type # "TCB" /\ Partes[p][i].type # "TASK"
      BY <3>1
    <3>3. i # n
      BY <1>1, <2>2
    <3> QED BY <2>1, <3>2, <3>3
  <2>3. CASE i = n
    <3>1. Partes[p][i] = [type |-> "TASK", id |-> p, tam |-> Len(Texto[p])]
      BY <2>3, PartesForma
    <3> QED BY <2>1, <2>3, <3>1
  <2>4. CASE i \in 2..(n - 1)
    <3>1. PICK t \in Miembros(p) : Partes[p][i] = Inscripto(t)
      BY <2>4, PartesForma
    <3>2. i # n
      BY <1>1, <2>4
    <3>3. Partes[p][i].type = "TCB" /\ Partes[p][i].id = t /\ Partes[p][i].tam = TamTCB
      BY <3>1 DEF Inscripto
    <3>4. Partes[p][i].type # "TASK" /\ Partes[p][i].id \in Miembros(p)
      BY <3>1, <3>3
    <3> HIDE DEF n
    <3> QED BY <2>1, <3>2, <3>3, <3>4
  <2>5. i = 1 \/ i = n \/ i \in 2..(n - 1)
    BY <1>1
  <2> QED BY <2>2, <2>3, <2>4, <2>5
<1> QED BY <1>1, <1>2

(* What the parts of a patota from the i-th on take. *)
Acumulado(p) == CHOOSE a : Parciales(a, Partes[p]) /\ TamPatota[p] = a[Len(Partes[p])]
Falta(p, i) == TamPatota[p] - Acumulado(p)[i - 1]

(* All the parts take TamPatota; each takes its size of what is left.       *)
LEMMA FaltaPorPartes ==
  ASSUME NEW p \in Patotas
  PROVE  /\ Falta(p, 1) = TamPatota[p] /\ TamPatota[p] \in Nat
         /\ \A i \in 1..Len(Partes[p]) :
              /\ Falta(p, i) \in Nat /\ Falta(p, i + 1) \in Nat /\ Partes[p][i].tam \in Nat
              /\ Falta(p, i) = Partes[p][i].tam + Falta(p, i + 1)
<1> DEFINE s == Partes[p]
           n == Len(s)
           a == Acumulado(p)
<1>1. s \in Seq(UnaParte) /\ n \in Nat /\ n >= 1 /\ \A i \in 1..n : s[i] \in UnaParte
  BY PartesTipo
<1>2. \A i \in 1..n : s[i].tam \in Nat
  BY <1>1 DEF UnaParte
<1>3. TamPatota[p] = FoldLeft(LAMBDA m, x : m + x.tam, 0, s)
  BY DEF TamPatota
<1> HIDE DEF s
<1>4. \E b : Parciales(b, s) /\ FoldLeft(LAMBDA m, x : m + x.tam, 0, s) = b[n]
  BY <1>1, <1>2, SumaDeTams
<1>5. Parciales(a, s) /\ TamPatota[p] = a[n]
  BY <1>3, <1>4 DEF Acumulado, s
<1> HIDE DEF a
<1>6. \A k \in 0..n : a[k] \in Nat /\ a[k] <= a[n]
  BY <1>1, <1>2, <1>5, ParcialesCrecen DEF Parciales
<1>7. a[0] = 0 /\ \A i \in 1..n : a[i] = a[i - 1] + s[i].tam
  BY <1>5 DEF Parciales
<1>8. a[n] \in Nat
  BY <1>1, <1>6
<1>9. Falta(p, 1) = a[n]
  BY <1>5, <1>7, <1>8 DEF Falta, a
<1>10. ASSUME NEW i \in 1..n
       PROVE /\ Falta(p, i) \in Nat /\ Falta(p, i + 1) \in Nat
             /\ Falta(p, i) = s[i].tam + Falta(p, i + 1)
  <2>1. i - 1 \in 0..n /\ i \in 0..n /\ i + 1 - 1 = i
    BY <1>1
  <2>2. Falta(p, i) = a[n] - a[i - 1] /\ Falta(p, i + 1) = a[n] - a[i]
    BY <1>5, <2>1 DEF Falta, a
  <2>3. /\ a[i - 1] \in Nat /\ a[i - 1] <= a[n] /\ a[i] \in Nat /\ a[i] <= a[n]
        /\ s[i].tam \in Nat /\ a[i] = a[i - 1] + s[i].tam
    BY <1>2, <1>6, <1>7, <2>1
  <2> HIDE DEF n
  <2> QED BY <1>8, <2>2, <2>3
<1> QED BY <1>2, <1>5, <1>8, <1>9, <1>10 DEF s

-----------------------------------------------------------------------------
(* The invariant *)

Tramite ==      \* INICIAR_PATOTA is at a part of the patota, reserved or not
  \/ iniciando = NoInicia
  \/ /\ iniciando \in [p : pedidas, i : Nat, base : (0..TamMemoria) \cup {-1}]
     /\ iniciando.i \in 1..Len(Partes[iniciando.p])
Alcanza ==      \* what is free, or reserved, is enough for what is left of it
  iniciando # NoInicia =>
    Suma(segmentosLibres) + Suma(Reservado) >= Falta(iniciando.p, iniciando.i)
InvMemoria ==
  /\ TypeOK /\ Tramite
  /\ Reparto(segmentos, segmentosLibres, Reservado)
  /\ Alcanza /\ SiempreHayLugar

-----------------------------------------------------------------------------
(* Each operation keeps it *)

(* One region adds up to its size, none to nothing. *)
LEMMA SumaDeUna ==
  /\ Suma({}) = 0
  /\ \A x : EsRegion(x) => Suma({x}) = Tam(x) /\ Tam(x) \in Nat
<1>1. Cub({}) = {} /\ Cardinality({}) = 0
  BY FS_EmptySet DEF Cub
<1>2. Suma({}) = 0
  <2>1. Suma({}) = Cardinality(Cub({}))
    BY FS_EmptySet, SumaEsCubierto DEF Regiones, Disjuntas
  <2> QED BY <1>1, <2>1
<1>3. ASSUME NEW x, EsRegion(x) PROVE Suma({x}) = Tam(x) /\ Tam(x) \in Nat
  <2>1. Suma({x}) = Cardinality(Cub({x}))
    BY <1>3, FS_Singleton, SumaEsCubierto DEF Regiones, Disjuntas
  <2>2. Cardinality(Cub({} \cup {x})) = Cardinality(Cub({})) + Tam(x)
    BY <1>3, CubiertoConUna
  <2>3. {} \cup {x} = {x} /\ Tam(x) \in Nat
    BY <1>3 DEF EsRegion, Tam
  <2>4. Cardinality(Cub({x})) = 0 + Tam(x)
    BY <1>1, <2>2, <2>3, Zenon
  <2> QED BY <2>1, <2>3, <2>4
<1> QED BY <1>2, <1>3

(* The process that dies leaves an empty memory. *)
LEMMA PasoMuere ==
  ASSUME InvMemoria, Muere("sinSegmento")
  PROVE  InvMemoria'
<1>1. /\ segmentosLibres' = {Hueco(0, TamMemoria)} /\ segmentos' = {} /\ claves' = {}
      /\ memory' = SinDatos /\ mapa' = MapaVacio /\ iniciando' = NoInicia
      /\ eliminando' = Nadie /\ caida' = "sinSegmento" /\ pedidas' = pedidas /\ isBestFit' = isBestFit
  BY DEF Muere
<1>2. Reservado' = {}
  BY <1>1 DEF Reservado, NoInicia
<1>3. Reparto(segmentos', segmentosLibres', Reservado')
  BY <1>1, <1>2, RepartoInicial
<1>4. Tramite' /\ Alcanza' /\ SiempreHayLugar'
  BY <1>1 DEF Tramite, Alcanza, SiempreHayLugar
<1>5. TypeOK'
  <2>1. Hueco(0, TamMemoria) \in Region /\ 0 <= TamMemoria /\ Hueco(0, TamMemoria).baseAddr = 0
        /\ Hueco(0, TamMemoria).limit = TamMemoria
    <3>1. TamMemoria \in Nat
      BY MemoriaOK
    <3>2. Hueco(0, TamMemoria).baseAddr = 0 /\ Hueco(0, TamMemoria).limit = TamMemoria
      BY DEF Hueco
    <3>3. Hueco(0, TamMemoria) \in Region
      BY <3>1 DEF Hueco, Region
    <3> QED BY <3>1, <3>2, <3>3
  <2>2. DOMAIN memory' = 0..(TamMemoria - 1) /\ DOMAIN mapa' \subseteq Trips
    <3>1. <<>> \in Seq(Nat) /\ Len(<<>>) = 0
      OBVIOUS
    <3>2. DOMAIN <<>> = 1..Len(<<>>)
      BY <3>1
    <3>3. DOMAIN MapaVacio = {}
      BY <3>1, <3>2 DEF MapaVacio
    <3> QED BY <1>1, <3>3 DEF SinDatos
  <2> HIDE DEF Hueco
  <2>3. \A h \in segmentosLibres' : h \in Region /\ h.baseAddr <= h.limit
    BY <1>1, <2>1
  <2> QED BY <1>1, <2>2, <2>3 DEF InvMemoria, TypeOK, Vive
<1> QED BY <1>3, <1>4, <1>5 DEF InvMemoria

(* A step that leaves the segments and the holes alone, and INICIAR_PATOTA  *)
(* where it was.                                                            *)
Quieto == /\ segmentos' = segmentos /\ segmentosLibres' = segmentosLibres
          /\ iniciando' = iniciando /\ caida' = caida /\ pedidas \subseteq pedidas'
LEMMA PasoQuieto ==
  ASSUME InvMemoria, Quieto
  PROVE  /\ Reparto(segmentos', segmentosLibres', Reservado')
         /\ Tramite' /\ Alcanza' /\ SiempreHayLugar'
<1>1. Reservado' = Reservado
  BY DEF Quieto, Reservado
<1>2. Reparto(segmentos', segmentosLibres', Reservado')
  BY <1>1 DEF Quieto, InvMemoria
<1>3. Alcanza'
  BY <1>1 DEF Quieto, InvMemoria, Alcanza
<1>4. Tramite'
  BY DEF Quieto, InvMemoria, Tramite
<1> QED BY <1>2, <1>3, <1>4 DEF Quieto, InvMemoria, SiempreHayLugar

(* A patota is admitted when the holes add up to it. *)
LEMMA PasoIniciarPatota ==
  ASSUME InvMemoria, NEW p \in Patotas, IniciarPatota(p)
  PROVE  InvMemoria'
<1>1. /\ segmentos' = segmentos /\ segmentosLibres' = segmentosLibres /\ caida' = caida
      /\ iniciando = NoInicia /\ pedidas' = pedidas \cup {p} /\ claves' = claves
      /\ memory' = memory /\ mapa' = mapa /\ eliminando' = eliminando /\ isBestFit' = isBestFit
      /\ iniciadas' = iniciadas
  BY DEF IniciarPatota, tablas
<1>2. TypeOK'
  BY <1>1 DEF InvMemoria, TypeOK, Vive
<1>3. Reservado = {} /\ Suma({}) = 0
  BY <1>1, SumaDeUna DEF Reservado, NoInicia
<1>4. CASE iniciando' = iniciando
  <2>1. Quieto
    BY <1>1, <1>4 DEF Quieto
  <2> QED BY <1>2, <2>1, PasoQuieto DEF InvMemoria
<1>5. CASE mem_space(TamPatota[p]) /\ iniciando' = [p |-> p, i |-> 1, base |-> -1]
  <2>1. Reservado' = {}
    BY <1>5 DEF Reservado
  <2>2. Reparto(segmentos', segmentosLibres', Reservado')
    BY <1>1, <1>3, <2>1 DEF InvMemoria
  <2>3. Tramite'
    <3>1. Len(Partes[p]) \in Nat /\ Len(Partes[p]) >= 1
      BY PartesTipo
    <3> QED BY <1>1, <1>5, <3>1 DEF Tramite
  <2>4. Suma(segmentosLibres) \in Nat /\ Falta(p, 1) = TamPatota[p] /\ TamPatota[p] \in Nat
        /\ Suma(segmentosLibres) >= TamPatota[p]
    BY <1>5, RepartoSuma, FaltaPorPartes DEF InvMemoria, mem_space
  <2>5. Alcanza'
    <3>1. Suma(segmentosLibres) + 0 >= Falta(p, 1)
      BY <2>4
    <3>2. Suma(segmentosLibres') + Suma(Reservado') >= Falta(iniciando'.p, iniciando'.i)
      BY <1>1, <1>3, <1>5, <2>1, <3>1
    <3> QED BY <3>2 DEF Alcanza
  <2> QED BY <1>1, <1>2, <2>2, <2>3, <2>5 DEF InvMemoria, SiempreHayLugar
<1> QED BY <1>4, <1>5 DEF IniciarPatota

(* The shape of the segments and of the holes is that of their division.    *)
LEMMA TipoPorReparto ==
  ASSUME Reparto(segmentos', segmentosLibres', Reservado'), \A s \in segmentos' : s.p \in claves',
         isBestFit' \in BOOLEAN, claves' \subseteq pedidas', Vive' => iniciadas' \subseteq claves',
         pedidas' \subseteq Patotas, DOMAIN memory' = 0..(TamMemoria - 1), DOMAIN mapa' \subseteq Trips,
         eliminando' \in Patotas \cup {Nadie}
  PROVE  TypeOK'
<1>1. \A h \in segmentosLibres' : h \in Region /\ h.baseAddr <= h.limit
  BY DEF Reparto, Huecos, Regiones, EsRegion
<1>2. \A s \in segmentos' : s \in Segmento /\ EsRegion(s)
  BY DEF Reparto, Tabla, Regiones
<1>3. \A s \in segmentos' :
        /\ s.baseAddr \in 0..s.limit /\ s.limit \in 0..TamMemoria
        /\ s.type \in {"PCB", "TCB", "TASK"} /\ s.nroSegmento \in Nat
  <2> SUFFICES ASSUME NEW s \in segmentos'
               PROVE  /\ s.baseAddr \in 0..s.limit /\ s.limit \in 0..TamMemoria
                      /\ s.type \in {"PCB", "TCB", "TASK"} /\ s.nroSegmento \in Nat
    OBVIOUS
  <2>1. s.baseAddr \in Nat /\ s.limit \in Nat /\ s.baseAddr <= s.limit
    BY <1>2, MemoriaOK DEF EsRegion
  <2> QED BY <1>2, <2>1 DEF Segmento
<1> QED BY <1>1, <1>3 DEF TypeOK

(* Reserved: the hole there was, or the one the compaction leaves, is large *)
(* enough.                                                                  *)
LEMMA PasoReservar ==
  ASSUME InvMemoria, ReservarSegmento
  PROVE  InvMemoria'
<1> DEFINE p == iniciando.p
           i == iniciando.i
           tam == Partes[p][i].tam
           c == ParaReservar(tam)
<1>1. /\ iniciando # NoInicia /\ iniciando.base = -1 /\ p \in pedidas /\ p \in Patotas
      /\ i \in 1..Len(Partes[p]) /\ iniciando \in [p : pedidas, i : Nat, base : (0..TamMemoria) \cup {-1}]
  BY DEF InvMemoria, ReservarSegmento, Tramite, TypeOK
<1>2. /\ tam \in Nat /\ Falta(p, i) \in Nat /\ Falta(p, i) >= tam
  BY <1>1, FaltaPorPartes
<1>3. Reservado = {} /\ Suma({}) = 0
  BY <1>1, SumaDeUna DEF Reservado
<1>4. Reparto(segmentos, segmentosLibres, {})
  BY <1>3 DEF InvMemoria
<1>5. /\ Suma(segmentos) \in Nat /\ Suma(segmentosLibres) \in Nat /\ TamMemoria \in Nat
      /\ Suma(segmentos) + Suma(segmentosLibres) = TamMemoria /\ Suma(segmentosLibres) >= Falta(p, i)
  <2>1. /\ Suma(segmentos) \in Nat /\ Suma(segmentosLibres) \in Nat
        /\ Suma(segmentos) + Suma(segmentosLibres) + 0 = TamMemoria
    BY <1>3, <1>4, RepartoSuma
  <2>2. Suma(segmentosLibres) + 0 >= Falta(p, i)
    BY <1>1, <1>3 DEF InvMemoria, Alcanza
  <2> QED BY <1>2, <2>1, <2>2, MemoriaOK
<1> HIDE DEF p, i, tam
<1>6. /\ Reparto(c.segmentos, c.libres, {}) /\ Elegibles(c.libres, tam) # {}
      /\ Suma(c.segmentos) = Suma(segmentos) /\ DOMAIN c.memory = 0..(TamMemoria - 1)
      /\ \A s \in c.segmentos : s.p \in claves
  <2>1. CASE Elegibles(segmentosLibres, tam) # {}
    <3>1. c.segmentos = segmentos /\ c.libres = segmentosLibres /\ c.memory = memory
      BY <2>1 DEF ParaReservar
    <3> QED BY <1>4, <2>1, <3>1 DEF InvMemoria, TypeOK
  <2>2. CASE Elegibles(segmentosLibres, tam) = {}
    <3> DEFINE I == {Reubicado(segmentos, s) : s \in segmentos}
               h == Hueco(Suma(segmentos), TamMemoria)
    <3>1. c.segmentos = I /\ c.libres = {h} /\ c.memory = Compactada(segmentos, memory)
      BY <2>2 DEF ParaReservar, memory_compaction
    <3>2. Reparto(I, {h}, {}) /\ Suma(I) = Suma(segmentos)
      BY <1>4, RepartoCompactar
    <3>3. Elegibles({h}, tam) # {}
      <4>1. h.baseAddr = Suma(segmentos) /\ h.limit = TamMemoria
        BY DEF Hueco
      <4> HIDE DEF h
      <4>2. Tam(h) \in Nat /\ Tam(h) >= tam /\ h.baseAddr \in Nat
        BY <1>2, <1>5, <4>1 DEF Tam
      <4>3. {g \in {h} : Tam(g) >= tam} = {h}
        BY <4>2
      <4>4. h \in Elegibles({h}, tam)
        BY <4>2, <4>3 DEF Elegibles
      <4> QED BY <4>4
    <3>4. DOMAIN Compactada(segmentos, memory) = DOMAIN memory
      BY DEF Compactada
    <3>5. \A s \in I : s.p \in claves
      <4>1. \A s \in segmentos : Reubicado(segmentos, s).p = s.p
        BY ReubicadoEnOrden DEF InvMemoria, Reparto
      <4> QED BY <4>1 DEF InvMemoria, TypeOK
    <3> QED BY <3>1, <3>2, <3>3, <3>4, <3>5 DEF InvMemoria, TypeOK
  <2> QED BY <2>1, <2>2
<1> HIDE DEF c
<1>7. PICK h \in Elegibles(c.libres, tam) :
        segmentosLibres' = Ocupar(c.libres, h, tam) /\ iniciando' = [iniciando EXCEPT !.base = h.baseAddr]
  BY <1>6 DEF ReservarSegmento, c, tam, p, i
<1>8. /\ segmentos' = c.segmentos /\ memory' = c.memory /\ caida' = caida /\ claves' = claves
      /\ pedidas' = pedidas /\ iniciadas' = iniciadas /\ mapa' = mapa /\ eliminando' = eliminando
      /\ isBestFit' = isBestFit
  BY <1>6 DEF ReservarSegmento, c, tam, p, i
<1>9. h \in c.libres /\ Tam(h) >= tam
  BY DEF Elegibles
<1>10. h.baseAddr \in 0..TamMemoria
  BY <1>6, <1>9 DEF Reparto, Huecos, Region
<1>11. /\ iniciando'.p = p /\ iniciando'.i = i /\ iniciando'.base = h.baseAddr /\ h.baseAddr # -1
       /\ iniciando' \in [p : pedidas, i : Nat, base : (0..TamMemoria) \cup {-1}]
  BY <1>1, <1>5, <1>7, <1>10 DEF p, i
<1>12. Reservado' = {Hueco(h.baseAddr, h.baseAddr + tam)}
  BY <1>11 DEF Reservado, tam
<1>13. Reparto(segmentos', segmentosLibres', Reservado')
  BY <1>2, <1>6, <1>7, <1>8, <1>9, <1>12, RepartoOcupar
<1>14. Tramite'
  BY <1>1, <1>8, <1>11 DEF Tramite, p, i
<1>15. Alcanza'
  <2>1. /\ Suma(segmentos') \in Nat /\ Suma(segmentosLibres') \in Nat /\ Suma(Reservado') \in Nat
        /\ Suma(segmentos') + Suma(segmentosLibres') + Suma(Reservado') = TamMemoria
    BY <1>13, RepartoSuma
  <2>2. Suma(segmentos') = Suma(segmentos)
    BY <1>6, <1>8
  <2>3. Suma(segmentosLibres') + Suma(Reservado') >= Falta(p, i)
    BY <1>2, <1>5, <2>1, <2>2
  <2> QED BY <1>11, <2>3 DEF Alcanza
<1>16. TypeOK'
  BY <1>6, <1>8, <1>13, TipoPorReparto DEF InvMemoria, TypeOK, Vive
<1> QED BY <1>8, <1>13, <1>14, <1>15, <1>16 DEF InvMemoria, SiempreHayLugar

(* The number given to the new segment of a table is not taken. *)
LEMMA NumeroNuevo ==
  ASSUME Tabla(segmentos), NEW p
  PROVE  UltimoNro(p) + 1 \in Nat /\ \A x \in segmentos : x.p = p => x.nroSegmento # UltimoNro(p) + 1
<1> DEFINE T == TablaDe(p)
           N == {s.nroSegmento : s \in T}
           f == [s \in T |-> s.nroSegmento]
<1>1. \A s \in T : s \in segmentos /\ s.nroSegmento \in Nat
  BY DEF TablaDe, Tabla, Segmento
<1>2. \A x \in segmentos : x.p = p => x \in T
  BY DEF TablaDe
<1>3. UltimoNro(p) = IF T = {} THEN -1 ELSE Max(N)
  BY DEF UltimoNro
<1>4. CASE T = {}
  BY <1>2, <1>3, <1>4
<1>5. CASE T # {}
  <2>1. IsFiniteSet(T)
    <3>1. T \in SUBSET segmentos
      BY <1>1
    <3> QED BY <3>1, FS_Subset DEF Tabla, Regiones
  <2>2. f \in Surjection(T, N)
    BY DEF Surjection
  <2>3. IsFiniteSet(N)
    <3> HIDE DEF f, N, T
    <3> QED BY <2>1, <2>2, FS_Surjection
  <2>4. N \subseteq Nat /\ N # {} /\ \A s \in T : s.nroSegmento \in N
    BY <1>1, <1>5
  <2> HIDE DEF N, T
  <2>5. Max(N) \in N /\ \A u \in N : u <= Max(N)
    <3>1. N \subseteq Int
      BY <2>4
    <3> QED BY <2>3, <2>4, <3>1, MaximoFinito
  <2>6. UltimoNro(p) = Max(N) /\ Max(N) \in Nat
    BY <1>3, <1>5, <2>4, <2>5
  <2>7. \A u \in N : u # Max(N) + 1
    <3> SUFFICES ASSUME NEW u \in N PROVE u # Max(N) + 1
      OBVIOUS
    <3>1. u \in Nat /\ u <= Max(N)
      BY <2>4, <2>5
    <3> QED BY <2>6, <3>1
  <2>8. UltimoNro(p) + 1 \in Nat
    BY <2>6
  <2>9. \A x \in segmentos : x.p = p => x.nroSegmento \in N
    BY <1>2, <2>4
  <2> QED BY <2>6, <2>7, <2>8, <2>9
<1> QED BY <1>4, <1>5

(* Written and put in the table, the segment is the region reserved. *)
LEMMA PasoGuardar ==
  ASSUME InvMemoria, GuardarSegmento
  PROVE  InvMemoria'
<1> DEFINE p == iniciando.p
           i == iniciando.i
           b == iniciando.base
           parte == Partes[p][i]
           s == [p |-> p, nroSegmento |-> UltimoNro(p) + 1, type |-> parte.type, id |-> parte.id,
                 baseAddr |-> b, limit |-> b + parte.tam]
           r == Hueco(b, b + parte.tam)
<1>1. /\ iniciando # NoInicia /\ b # -1 /\ p \in pedidas /\ p \in Patotas /\ b \in 0..TamMemoria
      /\ i \in Nat /\ i \in 1..Len(Partes[p]) /\ b \in Nat
  BY MemoriaOK DEF InvMemoria, GuardarSegmento, Tramite, TypeOK
<1>2. /\ parte \in UnaParte /\ (parte.type = "TCB" => parte.id \in Miembros(p))
      /\ Len(Partes[p]) \in Nat
  BY <1>1, PartesTipo
<1>3. /\ parte.tam \in Nat /\ Falta(p, i + 1) \in Nat /\ Falta(p, i) = parte.tam + Falta(p, i + 1)
  BY <1>1, FaltaPorPartes
<1>4. Reservado = {r}
  BY <1>1 DEF Reservado
<1>5. r.baseAddr = b /\ r.limit = b + parte.tam
  BY DEF Hueco
<1>6. /\ segmentos' = segmentos \cup {s} /\ claves' = claves \cup {p} /\ segmentosLibres' = segmentosLibres
      /\ pedidas' = pedidas /\ isBestFit' = isBestFit /\ eliminando' = eliminando /\ caida' = caida
      /\ \/ i = Len(Partes[p]) /\ iniciando' = NoInicia /\ iniciadas' = iniciadas \cup {p}
         \/ i # Len(Partes[p]) /\ iniciando' = [p |-> p, i |-> i + 1, base |-> -1] /\ iniciadas' = iniciadas
  BY DEF GuardarSegmento
<1>7. DOMAIN memory' = DOMAIN memory
  <2> DEFINE pcb == save_pcb_in_memory(memory, s, p, b + TamPCB + Cardinality(Miembros(p)) * TamTCB)
             tcb == save_tcb_in_memory(memory, s, parte.id, 0)
             texto == save_task_in_memory(memory, s, Texto[p])
  <2>1. memory' = CASE parte.type = "PCB" -> pcb [] parte.type = "TCB" -> tcb [] parte.type = "TASK" -> texto
    BY DEF GuardarSegmento
  <2>2. DOMAIN pcb = DOMAIN memory /\ DOMAIN tcb = DOMAIN memory /\ DOMAIN texto = DOMAIN memory
    BY DEF save_pcb_in_memory, save_tcb_in_memory, save_task_in_memory, Escribir
  <2> HIDE DEF pcb, tcb, texto
  <2> QED BY <1>2, <2>1, <2>2 DEF UnaParte
<1>8. DOMAIN mapa' \subseteq Trips
  <2>1. mapa' = mapa \/ (parte.type = "TCB" /\ mapa' = personaje_crear(mapa, parte.id, Inicial[parte.id]))
    BY DEF GuardarSegmento
  <2>2. parte.type = "TCB" => parte.id \in Trips
    BY <1>2 DEF Miembros
  <2>3. DOMAIN personaje_crear(mapa, parte.id, Inicial[parte.id]) \subseteq DOMAIN mapa \cup {parte.id}
    BY DEF personaje_crear
  <2> QED BY <2>1, <2>2, <2>3 DEF InvMemoria, TypeOK
<1> HIDE DEF r, parte
<1>9. Reparto(segmentos, segmentosLibres, {r})
  BY <1>4 DEF InvMemoria
<1>10. EsRegion(r) /\ Tam(r) = parte.tam
  <2>1. EsRegion(r)
    BY <1>9 DEF Reparto, Huecos, Regiones
  <2> QED BY <1>1, <1>3, <1>5, <2>1 DEF Tam
<1>11. /\ UltimoNro(p) + 1 \in Nat
       /\ \A x \in segmentos : x.p = p => x.nroSegmento # UltimoNro(p) + 1
  BY <1>9, NumeroNuevo DEF Reparto
<1>12. /\ s \in Segmento /\ s.p = p /\ s.nroSegmento = UltimoNro(p) + 1
       /\ s.baseAddr = r.baseAddr /\ s.limit = r.limit
  <2>1. b + parte.tam \in 0..TamMemoria
    BY <1>5, <1>10 DEF EsRegion
  <2> QED BY <1>1, <1>2, <1>5, <1>11, <2>1 DEF Segmento, UnaParte
<1> HIDE DEF s, p, i, b
<1>13. Reparto(segmentos', segmentosLibres', {})
  BY <1>6, <1>9, <1>11, <1>12, RepartoGuardar
<1>14. iniciando'.base = -1 /\ Reservado' = {}
  BY <1>6 DEF Reservado, NoInicia
<1>15. Tramite'
  <2>1. CASE iniciando' = NoInicia
    BY <2>1 DEF Tramite
  <2>2. CASE i # Len(Partes[p]) /\ iniciando' = [p |-> p, i |-> i + 1, base |-> -1]
    <3>1. i + 1 \in 1..Len(Partes[p]) /\ i + 1 \in Nat
      BY <1>1, <1>2, <2>2
    <3> QED BY <1>1, <1>6, <2>2, <3>1 DEF Tramite
  <2> QED BY <1>6, <2>1, <2>2
<1>16. Alcanza'
  <2> SUFFICES ASSUME iniciando' = [p |-> p, i |-> i + 1, base |-> -1]
               PROVE  Suma(segmentosLibres') + Suma(Reservado') >= Falta(p, i + 1)
    BY <1>6 DEF Alcanza
  <2>1. Suma({}) = 0 /\ Suma({r}) = parte.tam /\ Suma(segmentosLibres) \in Nat
    BY <1>9, <1>10, SumaDeUna, RepartoSuma
  <2>2. Suma(segmentosLibres) + parte.tam >= Falta(p, i)
    <3>1. Suma(segmentosLibres) + Suma(Reservado) >= Falta(p, i)
      BY <1>1 DEF InvMemoria, Alcanza, p, i
    <3>2. Suma(Reservado) = parte.tam
      BY <1>4, <2>1
    <3> QED BY <3>1, <3>2
  <2>3. Suma(segmentosLibres) + 0 >= Falta(p, i + 1)
    BY <1>3, <2>1, <2>2
  <2> QED BY <1>6, <1>14, <2>1, <2>3
<1>17. TypeOK'
  <2>1. claves' \subseteq pedidas' /\ pedidas' \subseteq Patotas /\ (Vive' => iniciadas' \subseteq claves')
    BY <1>1, <1>6 DEF InvMemoria, TypeOK, Vive
  <2>2. \A x \in segmentos' : x.p \in claves'
    BY <1>6, <1>12 DEF InvMemoria, TypeOK
  <2>3. DOMAIN memory' = 0..(TamMemoria - 1) /\ isBestFit' \in BOOLEAN /\ eliminando' \in Patotas \cup {Nadie}
    BY <1>6, <1>7 DEF InvMemoria, TypeOK
  <2>4. Reparto(segmentos', segmentosLibres', Reservado')
    BY <1>13, <1>14
  <2> QED BY <1>8, <2>1, <2>2, <2>3, <2>4, TipoPorReparto
<1> QED BY <1>6, <1>13, <1>14, <1>15, <1>16, <1>17 DEF InvMemoria, SiempreHayLugar

(* Segments given back, expelled or eliminated, leave more room. *)
Devuelto(T) ==
  /\ T \subseteq segmentos /\ segmentos' = segmentos \ T
  /\ segmentosLibres' = segmentosLibres \cup {Hueco(s.baseAddr, s.limit) : s \in T}
  /\ iniciando' = iniciando /\ caida' = caida /\ pedidas' = pedidas
LEMMA PasoDevolver ==
  ASSUME InvMemoria, NEW T, Devuelto(T)
  PROVE  /\ Reparto(segmentos', segmentosLibres', Reservado')
         /\ Tramite' /\ Alcanza' /\ SiempreHayLugar'
<1>1. Reservado' = Reservado
  BY DEF Devuelto, Reservado
<1>2. Reparto(segmentos', segmentosLibres', Reservado')
  BY <1>1, RepartoDevolver DEF Devuelto, InvMemoria
<1>3. Tramite' /\ SiempreHayLugar'
  BY DEF Devuelto, InvMemoria, Tramite, SiempreHayLugar
<1>4. Alcanza'
  <2> SUFFICES ASSUME iniciando # NoInicia
               PROVE  Suma(segmentosLibres') + Suma(Reservado') >= Falta(iniciando.p, iniciando.i)
    BY DEF Devuelto, Alcanza
  <2>1. /\ Suma(segmentos) \in Nat /\ Suma(segmentosLibres) \in Nat /\ Suma(Reservado) \in Nat
        /\ Suma(segmentos) + Suma(segmentosLibres) + Suma(Reservado) = TamMemoria
    BY RepartoSuma DEF InvMemoria
  <2>2. /\ Suma(segmentos') \in Nat /\ Suma(segmentosLibres') \in Nat /\ Suma(Reservado') \in Nat
        /\ Suma(segmentos') + Suma(segmentosLibres') + Suma(Reservado') = TamMemoria
    BY <1>2, RepartoSuma
  <2>3. Suma(segmentos') <= Suma(segmentos)
    BY SumaDeParte DEF Devuelto, InvMemoria, Reparto
  <2>4. Suma(segmentosLibres) + Suma(Reservado) >= Falta(iniciando.p, iniciando.i)
    BY DEF InvMemoria, Alcanza
  <2>5. Falta(iniciando.p, iniciando.i) \in Nat
    BY FaltaPorPartes DEF InvMemoria, Tramite, TypeOK
  <2> QED BY <2>1, <2>2, <2>3, <2>4, <2>5
<1> QED BY <1>2, <1>3, <1>4

(* Expelled: the TCB goes back to the holes. *)
LEMMA PasoExpulsar ==
  ASSUME InvMemoria, NEW t \in Trips, ExpulsarTripulante(t)
  PROVE  InvMemoria'
<1> DEFINE T == find_tcb_segment(t)
<1>1. /\ segmentosLibres' = segmentosLibres \cup {Hueco(s.baseAddr, s.limit) : s \in T}
      /\ segmentos' = segmentos \ T /\ memory' = Liberar(memory, T) /\ mapa' = item_borrar(mapa, t)
      /\ claves' = claves /\ iniciando' = iniciando /\ eliminando' = eliminando /\ pedidas' = pedidas
      /\ iniciadas' = iniciadas /\ caida' = caida /\ isBestFit' = isBestFit
  BY DEF ExpulsarTripulante
<1>2. T \subseteq segmentos
  BY DEF find_tcb_segment, TablaDe
<1> HIDE DEF T
<1>3. Reparto(segmentos', segmentosLibres', Reservado') /\ Tramite' /\ Alcanza' /\ SiempreHayLugar'
  BY <1>1, <1>2, PasoDevolver DEF Devuelto
<1>4. DOMAIN memory' = DOMAIN memory /\ DOMAIN mapa' \subseteq DOMAIN mapa
  BY <1>1 DEF Liberar, item_borrar, Restrict
<1>5. TypeOK'
  BY <1>1, <1>3, <1>4, TipoPorReparto DEF InvMemoria, TypeOK, Vive
<1> QED BY <1>3, <1>5 DEF InvMemoria

(* Each segment of the patota that is eliminated goes back on its own. *)
LEMMA PasoEliminarSegmento ==
  ASSUME InvMemoria, EliminarSegmento
  PROVE  InvMemoria'
<1>1. /\ claves' = claves /\ iniciando' = iniciando /\ pedidas' = pedidas /\ mapa' = mapa
      /\ iniciadas' = iniciadas /\ caida' = caida /\ isBestFit' = isBestFit
  BY DEF EliminarSegmento
<1>2. CASE TablaDe(eliminando) = {}
  <2>1. /\ segmentos' = segmentos /\ segmentosLibres' = segmentosLibres /\ memory' = memory
        /\ eliminando' = Nadie
    BY <1>2 DEF EliminarSegmento
  <2>2. Reparto(segmentos', segmentosLibres', Reservado') /\ Tramite' /\ Alcanza' /\ SiempreHayLugar'
    BY <1>1, <2>1, PasoQuieto DEF Quieto
  <2>3. TypeOK'
    BY <1>1, <2>1, <2>2, TipoPorReparto DEF InvMemoria, TypeOK, Vive
  <2> QED BY <2>2, <2>3 DEF InvMemoria
<1>3. CASE TablaDe(eliminando) # {}
  <2>1. PICK s \in get_next_segment(eliminando) :
          /\ segmentosLibres' = Devolver(segmentosLibres, s) /\ segmentos' = segmentos \ {s}
          /\ memory' = Liberar(memory, {s})
    BY <1>3 DEF EliminarSegmento
  <2>2. s \in segmentos
    BY DEF get_next_segment, TablaDe
  <2>3. segmentosLibres' = segmentosLibres \cup {Hueco(x.baseAddr, x.limit) : x \in {s}}
    BY <2>1 DEF Devolver
  <2>4. Devuelto({s})
    BY <1>1, <2>1, <2>2, <2>3 DEF Devuelto
  <2>5. Reparto(segmentos', segmentosLibres', Reservado') /\ Tramite' /\ Alcanza' /\ SiempreHayLugar'
    BY <2>4, PasoDevolver
  <2>6. DOMAIN memory' = DOMAIN memory /\ eliminando' = eliminando
    BY <1>3, <2>1 DEF Liberar, EliminarSegmento
  <2>7. TypeOK'
    BY <1>1, <2>1, <2>5, <2>6, TipoPorReparto DEF InvMemoria, TypeOK, Vive
  <2> QED BY <2>5, <2>7 DEF InvMemoria
<1> QED BY <1>2, <1>3

(* SIGUSR1 with nothing reserved. *)
LEMMA PasoCompactar ==
  ASSUME SenialConReserva = FALSE, InvMemoria, Compactar
  PROVE  InvMemoria'
<1> DEFINE I == {Reubicado(segmentos, s) : s \in segmentos}
           h == Hueco(Suma(segmentos), TamMemoria)
<1>1. /\ segmentos' = I /\ segmentosLibres' = {h} /\ memory' = Compactada(segmentos, memory)
      /\ claves' = claves /\ iniciando' = iniciando /\ pedidas' = pedidas /\ mapa' = mapa
      /\ iniciadas' = iniciadas /\ eliminando' = eliminando /\ caida' = caida /\ isBestFit' = isBestFit
      /\ iniciando.base = -1
  BY DEF Compactar, memory_compaction, pedidos
<1>2. Reservado = {} /\ Reservado' = {}
  BY <1>1 DEF Reservado
<1>3. Reparto(segmentos, segmentosLibres, {})
  BY <1>2 DEF InvMemoria
<1>4. Reparto(I, {h}, {}) /\ Suma(I) = Suma(segmentos)
  BY <1>3, RepartoCompactar
<1>5. \A s \in I : s.p \in claves
  <2>1. \A s \in segmentos : Reubicado(segmentos, s).p = s.p
    BY <1>3, ReubicadoEnOrden DEF Reparto
  <2> QED BY <2>1 DEF InvMemoria, TypeOK
<1> HIDE DEF I, h
<1>6. Reparto(segmentos', segmentosLibres', Reservado')
  BY <1>1, <1>2, <1>4
<1>7. Suma(segmentosLibres') = Suma(segmentosLibres) /\ Suma(Reservado') = Suma(Reservado)
  <2>1. /\ Suma(segmentos) \in Nat /\ Suma(segmentosLibres) \in Nat /\ Suma({}) \in Nat
        /\ Suma(segmentos) + Suma(segmentosLibres) + Suma({}) = TamMemoria
    BY <1>3, RepartoSuma
  <2>2. Suma({h}) \in Nat /\ Suma(I) + Suma({h}) + Suma({}) = TamMemoria
    BY <1>4, RepartoSuma
  <2>3. Suma({h}) = Suma(segmentosLibres)
    BY <1>4, <2>1, <2>2
  <2> QED BY <1>1, <1>2, <2>3
<1>8. Alcanza'
  BY <1>1, <1>7 DEF InvMemoria, Alcanza
<1>9. Tramite' /\ SiempreHayLugar'
  BY <1>1 DEF InvMemoria, Tramite, SiempreHayLugar
<1>10. DOMAIN memory' = DOMAIN memory
  BY <1>1 DEF Compactada
<1>11. TypeOK'
  BY <1>1, <1>5, <1>6, <1>10, TipoPorReparto DEF InvMemoria, TypeOK, Vive
<1> QED BY <1>6, <1>8, <1>9, <1>11 DEF InvMemoria

(* The rest writes in the memory, on the map or to whoever asked. *)
DeMiembro(t) == RecibirEstado(t) \/ RecibirUbicacion(t) \/ EnviarTarea(t) \/ EnviarTareaSinTabla(t)
LEMMA PasoDeMiembro ==
  ASSUME InvMemoria, NEW t \in Trips, DeMiembro(t)
  PROVE  InvMemoria'
<1>1. /\ segmentos' = segmentos /\ segmentosLibres' = segmentosLibres /\ claves' = claves
      /\ iniciando' = iniciando /\ pedidas' = pedidas /\ iniciadas' = iniciadas
      /\ eliminando' = eliminando /\ caida' = caida /\ isBestFit' = isBestFit
  BY DEF DeMiembro, RecibirEstado, RecibirUbicacion, EnviarTarea, EnviarTareaSinTabla, tablas, pedidos
<1>2. DOMAIN memory' = DOMAIN memory /\ DOMAIN mapa' = DOMAIN mapa
  <2>1. CASE RecibirEstado(t)
    BY <2>1 DEF RecibirEstado
  <2>2. CASE RecibirUbicacion(t)
    BY <2>2 DEF RecibirUbicacion, item_desplazar, _cambiar_posicion
  <2>3. CASE EnviarTarea(t)
    BY <2>3 DEF EnviarTarea, save_tcb_in_memory, Escribir
  <2>4. CASE EnviarTareaSinTabla(t)
    BY <2>4 DEF EnviarTareaSinTabla, tablas
  <2> QED BY <2>1, <2>2, <2>3, <2>4 DEF DeMiembro
<1>3. Reparto(segmentos', segmentosLibres', Reservado') /\ Tramite' /\ Alcanza' /\ SiempreHayLugar'
  BY <1>1, PasoQuieto DEF Quieto
<1>4. TypeOK'
  BY <1>1, <1>2, <1>3, TipoPorReparto DEF InvMemoria, TypeOK, Vive
<1> QED BY <1>3, <1>4 DEF InvMemoria

(* ELIMINAR_PATOTA starts: nothing moves yet. *)
LEMMA PasoEliminarPatota ==
  ASSUME InvMemoria, NEW p \in Patotas, EliminarPatota(p)
  PROVE  InvMemoria'
<1>1. /\ segmentos' = segmentos /\ segmentosLibres' = segmentosLibres /\ claves' = claves
      /\ memory' = memory /\ iniciando' = iniciando /\ pedidas' = pedidas /\ iniciadas' = iniciadas
      /\ eliminando' = p /\ caida' = caida /\ isBestFit' = isBestFit /\ mapa' = mapa
  BY DEF EliminarPatota, tablas
<1>2. Reparto(segmentos', segmentosLibres', Reservado') /\ Tramite' /\ Alcanza' /\ SiempreHayLugar'
  BY <1>1, PasoQuieto DEF Quieto
<1>3. TypeOK'
  BY <1>1, <1>2, TipoPorReparto DEF InvMemoria, TypeOK, Vive
<1> QED BY <1>2, <1>3 DEF InvMemoria

-----------------------------------------------------------------------------
(* The theorems *)

(* It holds at the start ... *)
LEMMA InvInicial ==
  ASSUME Init
  PROVE  InvMemoria
<1>1. Reservado = {}
  BY DEF Init, NoInicia, Reservado
<1>2. Reparto(segmentos, segmentosLibres, Reservado)
  BY <1>1, RepartoInicial DEF Init
<1>3. Tramite /\ Alcanza /\ SiempreHayLugar
  BY DEF Init, Tramite, Alcanza, SiempreHayLugar
<1>4. DOMAIN mapa = {} /\ DOMAIN memory = 0..(TamMemoria - 1)
  <2>1. <<>> \in Seq(Nat) /\ Len(<<>>) = 0
    OBVIOUS
  <2>2. DOMAIN <<>> = 1..Len(<<>>)
    BY <2>1
  <2> QED BY <2>1, <2>2 DEF Init, MapaVacio, SinDatos
<1>5. \A h \in segmentosLibres : h \in Region /\ h.baseAddr <= h.limit
  BY <1>2 DEF Reparto, Huecos, Regiones, EsRegion
<1>6. TypeOK
  BY <1>4, <1>5 DEF Init, TypeOK
<1> QED BY <1>2, <1>3, <1>6 DEF InvMemoria

(* ... and every step keeps it. *)
LEMMA PasoMemoria ==
  ASSUME SenialConReserva = FALSE, InvMemoria, [Next]_vars
  PROVE  InvMemoria'
<1>1. CASE UNCHANGED vars
  <2>1. InvMemoria' <=> InvMemoria
    BY <1>1 DEF vars, tablas, pedidos, InvMemoria, TypeOK, Tramite, Alcanza, SiempreHayLugar, Reservado, Vive
  <2> QED BY <2>1
<1>2. ASSUME NEW p \in Patotas, IniciarPatota(p) PROVE InvMemoria'
  BY <1>2, PasoIniciarPatota
<1>3. ASSUME NEW p \in Patotas, EliminarPatota(p) PROVE InvMemoria'
  BY <1>3, PasoEliminarPatota
<1>4. ASSUME NEW t \in Trips, DeMiembro(t) PROVE InvMemoria'
  BY <1>4, PasoDeMiembro
<1>5. ASSUME NEW t \in Trips, PedidoSinSegmento(t) PROVE InvMemoria'
  BY <1>5, PasoMuere DEF PedidoSinSegmento
<1>6. ASSUME NEW t \in Trips, ExpulsarTripulante(t) PROVE InvMemoria'
  BY <1>6, PasoExpulsar
<1> QED BY <1>1, <1>2, <1>3, <1>4, <1>5, <1>6, PasoReservar, PasoGuardar, PasoEliminarSegmento,
           PasoCompactar DEF Next, DeMiembro

(* With nothing reserved when SIGUSR1 comes, the invariant always holds. *)
THEOREM MemoriaSiempre ==
  ASSUME SenialConReserva = FALSE
  PROVE  Spec => []InvMemoria
<1>1. Init => InvMemoria
  BY InvInicial
<1>2. InvMemoria /\ [Next]_vars => InvMemoria'
  BY PasoMemoria
<1> QED BY <1>1, <1>2, PTL DEF Spec

(* The state keeps its shape: the segments lie within the memory. *)
THEOREM TipoSegmentacion ==
  ASSUME SenialConReserva = FALSE
  PROVE  Spec => []TypeOK
<1>1. InvMemoria => TypeOK
  BY DEF InvMemoria
<1> QED BY <1>1, MemoriaSiempre, PTL

(* Whatever is reserved, written, given back, expelled or compacted, every  *)
(* cell is in exactly one segment, reservation or hole.                     *)
THEOREM RepartidaSiempre ==
  ASSUME SenialConReserva = FALSE
  PROVE  Spec => []MemoriaRepartida
<1>1. InvMemoria => MemoriaRepartida
  <2> SUFFICES ASSUME Reparto(segmentos, segmentosLibres, Reservado) PROVE MemoriaRepartida
    BY DEF InvMemoria
  <2>1. Suma(segmentos) + Suma(segmentosLibres) + Suma(Reservado) = TamMemoria
    BY RepartoSuma
  <2>2. Disjuntas(segmentos)
    BY DEF Reparto, Tabla
  <2>3. \A s, r \in segmentosLibres \cup Reservado : s = r \/ Aparte(s, r)
    BY DEF Reparto, Huecos, Disjuntas, Separadas, Aparte
  <2>4. \A s \in segmentos, r \in segmentosLibres \cup Reservado : Aparte(s, r)
    BY DEF Reparto, Separadas
  <2> QED BY <2>1, <2>2, <2>3, <2>4 DEF MemoriaRepartida, Disjuntas, Aparte
<1> QED BY <1>1, MemoriaSiempre, PTL

(* A patota that passed the check of the free space finds a hole for each   *)
(* of its segments: what is free never falls below what it still needs.     *)
THEOREM LugarSiempre ==
  ASSUME SenialConReserva = FALSE
  PROVE  Spec => []SiempreHayLugar
<1>1. InvMemoria => SiempreHayLugar
  BY DEF InvMemoria
<1> QED BY <1>1, MemoriaSiempre, PTL

-----------------------------------------------------------------------------
(* The contents and the service *)

TareasEscritas == \A p \in Patotas : \A k \in 1..Len(Tareas[p]) : Tareas[p][k] # <<>>
Holgura == \A s \in segmentos : Accesible(s)

-----------------------------------------------------------------------------
(* The text of the tasks and where each starts *)

(* The first task starts the text, and each the next after its bar. *)
LEMMA InicioPasos ==
  ASSUME NEW p \in Patotas
  PROVE  /\ Len(Tareas[p]) \in Nat /\ Inicio[p][1] = 0
         /\ \A k \in 1..(Len(Tareas[p]) + 1) : Inicio[p][k] \in Nat
         /\ \A k \in 1..Len(Tareas[p]) :
              /\ Tareas[p][k] \in Seq(Nat) /\ Len(Tareas[p][k]) \in Nat
              /\ Inicio[p][k + 1] = Inicio[p][k] + Len(Tareas[p][k]) + 1
<1> DEFINE s == Tareas[p]
           n == Len(s)
<1>1. s \in Seq(Seq(Nat)) /\ n \in Nat
  BY PatotasOK
<1>2. \A k \in 1..n : s[k] \in Seq(Nat) /\ Len(s[k]) \in Nat
  BY <1>1
<1>3. PICK a : Largos(a, s) /\ \A k \in 0..n : SumaLargos(SubSeq(s, 1, k)) = a[k]
  BY <1>1, SumaDePrefijos
<1>4. Inicio[p] = [k \in 1..(n + 1) |-> SumaLargos(SubSeq(s, 1, k - 1))]
  BY DEF Inicio, SumaLargos
<1> HIDE DEF n, s
<1>5. ASSUME NEW k \in 1..(n + 1) PROVE Inicio[p][k] = a[k - 1] /\ k - 1 \in 0..n
  <2>1. k - 1 \in 0..n
    BY <1>1
  <2> QED BY <1>3, <1>4, <2>1
<1>6. a \in [0..n -> Nat] /\ a[0] = 0 /\ \A k \in 1..n : a[k] = a[k - 1] + Len(s[k]) + 1
  BY <1>3 DEF Largos, n
<1>7. Inicio[p][1] = 0
  <2>1. 1 \in 1..(n + 1) /\ 1 - 1 = 0
    BY <1>1
  <2> QED BY <1>5, <1>6, <2>1
<1>8. \A k \in 1..(n + 1) : Inicio[p][k] \in Nat
  BY <1>5, <1>6
<1>9. ASSUME NEW k \in 1..n PROVE Inicio[p][k + 1] = Inicio[p][k] + Len(s[k]) + 1
  <2>1. k \in 1..(n + 1) /\ k + 1 \in 1..(n + 1) /\ k + 1 - 1 = k
    BY <1>1
  <2> QED BY <1>5, <1>6, <2>1
<1> QED BY <1>1, <1>2, <1>7, <1>8, <1>9 DEF n, s

(* No two tasks start at the same place. *)
LEMMA InicioCrece ==
  ASSUME NEW p \in Patotas, NEW j \in 1..(Len(Tareas[p]) + 1), NEW k \in 1..(Len(Tareas[p]) + 1), j < k
  PROVE  Inicio[p][j] < Inicio[p][k]
<1> DEFINE n == Len(Tareas[p])
           I == Inicio[p]
           malos == {d \in Nat : j + d + 1 <= n + 1 /\ ~(I[j] < I[j + d + 1])}
<1>1. /\ n \in Nat /\ (\A i \in 1..(n + 1) : I[i] \in Nat)
      /\ \A i \in 1..n : Len(Tareas[p][i]) \in Nat /\ I[i + 1] = I[i] + Len(Tareas[p][i]) + 1
  BY InicioPasos
<1> HIDE DEF n, I
<1>2. j \in 1..(n + 1) /\ k \in 1..(n + 1) /\ j \in Nat /\ k \in Nat
  BY <1>1 DEF n
<1>3. malos = {}
  <2> SUFFICES ASSUME malos # {} PROVE FALSE
    OBVIOUS
  <2>1. PICK d \in malos : \A e \in malos : d <= e
    BY MinimoNat
  <2>2. d \in Nat /\ j + d + 1 <= n + 1 /\ ~(I[j] < I[j + d + 1])
    OBVIOUS
  <2>3. j + d \in 1..n /\ j + d \in 1..(n + 1) /\ j + d + 1 \in 1..(n + 1)
    BY <1>1, <1>2, <2>2
  <2>4. I[j + d + 1] = I[j + d] + Len(Tareas[p][j + d]) + 1 /\ Len(Tareas[p][j + d]) \in Nat
        /\ I[j] \in Nat /\ I[j + d] \in Nat
    BY <1>1, <1>2, <2>3
  <2>5. CASE d = 0
    <3>1. I[j + d] = I[j]
      BY <1>2, <2>5
    <3> QED BY <2>2, <2>4, <3>1
  <2>6. CASE d # 0
    <3>1. d - 1 \in Nat /\ j + (d - 1) + 1 = j + d /\ j + d <= n + 1 /\ ~(d <= d - 1)
      BY <1>1, <1>2, <2>2, <2>6
    <3>2. d - 1 \notin malos
      <4> HIDE DEF malos
      <4> QED BY <2>1, <3>1
    <3>3. I[j] < I[j + d]
      BY <3>1, <3>2
    <3> QED BY <2>2, <2>4, <3>3
  <2> QED BY <2>5, <2>6
<1>4. k - j - 1 \in Nat /\ j + (k - j - 1) + 1 = k
  BY <1>2
<1>5. k <= n + 1
  BY <1>1, <1>2
<1>6. k - j - 1 \notin malos
  BY <1>3
<1>7. I[j] < I[k]
  BY <1>4, <1>5, <1>6
<1> QED BY <1>7 DEF I

(* Each task is in the text, from where it starts to the bar, or to the end *)
(* of the text the last.                                                    *)
TareaEn(p, k) ==
  LET T == Texto[p]
      t == Tareas[p][k]
      b == Inicio[p][k]
  IN  /\ b + Len(t) <= Len(T)
      /\ \A i \in 1..Len(t) : T[b + i] = Celda("letra", t[i])
      /\ k < Len(Tareas[p]) => b + Len(t) + 1 <= Len(T) /\ T[b + Len(t) + 1] = Barra
      /\ k = Len(Tareas[p]) => b + Len(t) = Len(T)
LEMMA TextoTareas ==
  ASSUME TareasEscritas, NEW p \in Patotas
  PROVE  /\ Len(Texto[p]) \in Nat
         /\ \A k \in 1..Len(Tareas[p]) : TareaEn(p, k)
         /\ Len(Tareas[p]) = 0 => Len(Texto[p]) = 0
<1> DEFINE ts == Tareas[p]
           n == Len(ts)
           partes == EnLetras(p)
           I == Inicio[p]
           T == Texto[p]
<1>1. /\ partes \in Seq(Seq(Letrero)) /\ Len(partes) = n /\ n \in Nat
      /\ T = Unidas(partes, Barra) /\ Barra \in Letrero
      /\ \A k \in 1..n : /\ partes[k] \in Seq(Letrero) /\ Len(partes[k]) = Len(ts[k]) /\ Len(ts[k]) \in Nat
                         /\ \A i \in 1..Len(ts[k]) : partes[k][i] = Celda("letra", ts[k][i])
  BY TextoDeTareas
<1>2. \A k \in 1..n : partes[k] # <<>>
  <2> SUFFICES ASSUME NEW k \in 1..n PROVE partes[k] # <<>>
    OBVIOUS
  <2>1. ts[k] \in Seq(Nat)
    <3>1. ts \in Seq(Seq(Nat))
      BY PatotasOK
    <3> QED BY <3>1
  <2>2. ts[k] # <<>>
    BY DEF TareasEscritas
  <2>3. Len(ts[k]) # 0
    BY <2>1, <2>2
  <2> QED BY <1>1, <2>3
<1>3. Comienzos(I, partes)
  <2>1. /\ I[1] = 0 /\ \A k \in 1..(n + 1) : I[k] \in Nat
        /\ \A k \in 1..n : I[k + 1] = I[k] + Len(ts[k]) + 1
    BY InicioPasos
  <2> HIDE DEF I, ts, n, partes
  <2> QED BY <1>1, <2>1 DEF Comienzos
<1>4. T \in Seq(Letrero) /\ Len(T) \in Nat
  BY TextoTipo
<1> HIDE DEF I, partes, T, n, ts
<1>5. PICK a : Uniones(a, partes, Barra, Letrero) /\ T = a[n]
  BY <1>1, UnidasPartes
<1>6. ASSUME n # 0
      PROVE  EnSuLugar(T, I, partes, Barra, n)
  <2>1. n \in 1..Len(partes)
    BY <1>1, <1>6
  <2> QED BY <1>1, <1>2, <1>3, <1>5, <2>1, UnidasEnSuLugar
<1>7. n = 0 => Len(T) = 0
  BY <1>1, <1>5 DEF Uniones
<1>8. ASSUME NEW k \in 1..n PROVE TareaEn(p, k)
  <2>1. n # 0 /\ ~(n < n) /\ k \in 1..n /\ n \in 1..n
    BY <1>1
  <2>2. EnSuLugar(T, I, partes, Barra, n)
    BY <1>6, <2>1
  <2>3. /\ I[k] + Len(ts[k]) <= Len(T)
        /\ k < n => I[k] + Len(ts[k]) + 1 <= Len(T) /\ T[I[k] + Len(ts[k]) + 1] = Barra
        /\ k = n => I[k] + Len(ts[k]) = Len(T)
    BY <1>1, <2>2 DEF EnSuLugar
  <2>4. \A i \in 1..Len(ts[k]) : T[I[k] + i] = Celda("letra", ts[k][i])
    <3>1. Len(partes[k]) = Len(ts[k]) /\ \A i \in 1..Len(ts[k]) : partes[k][i] = Celda("letra", ts[k][i])
      BY <1>1
    <3>2. \A i \in 1..Len(partes[k]) : T[I[k] + i] = partes[k][i]
      BY <2>2 DEF EnSuLugar
    <3> QED BY <3>1, <3>2
  <2> QED BY <2>3, <2>4 DEF TareaEn, I, T, n, ts
<1> QED BY <1>4, <1>7, <1>8 DEF T, n, ts

(* What is read from where a task starts, in a memory that holds the text   *)
(* at b, is the task.                                                       *)
LEMMA LeeTarea ==
  ASSUME TareasEscritas, NEW p \in Patotas, NEW k \in 1..Len(Tareas[p]), NEW m, NEW b \in Nat,
         \A d \in 0..(Len(Texto[p]) - 1) : m[b + d] = Texto[p][d + 1]
  PROVE  /\ ~(b + Inicio[p][k] >= b + Len(Texto[p]))
         /\ get_next_task(m, Inicio[p][k], b + Len(Texto[p]), b) = Letras(Tareas[p][k])
<1> DEFINE T == Texto[p]
           t == Tareas[p][k]
           l == Len(t)
           c == Inicio[p][k]
           a == b + c
           fin == b + Len(T)
           hasta == {i \in a..fin : i = fin \/ m[i] = Barra}
<1>1. /\ Len(T) \in Nat /\ c \in Nat /\ l \in Nat /\ t \in Seq(Nat) /\ Len(Tareas[p]) \in Nat
  <2>1. k \in 1..(Len(Tareas[p]) + 1) /\ Len(Tareas[p]) \in Nat
    BY InicioPasos
  <2> QED BY <2>1, TextoTareas, InicioPasos
<1>2. l > 0
  <2>1. t # <<>>
    BY DEF TareasEscritas
  <2> QED BY <1>1, <2>1
<1>3. /\ c + l <= Len(T) /\ \A i \in 1..l : T[c + i] = Celda("letra", t[i])
      /\ k < Len(Tareas[p]) => c + l + 1 <= Len(T) /\ T[c + l + 1] = Barra
      /\ k = Len(Tareas[p]) => c + l = Len(T)
  BY TextoTareas DEF TareaEn
<1>4. DOMAIN t = 1..l
  BY <1>1
<1>5. \A d \in 0..(Len(T) - 1) : m[b + d] = T[d + 1]
  OBVIOUS
<1>6. k < Len(Tareas[p]) \/ k = Len(Tareas[p])
  BY <1>1
<1> HIDE DEF T, l, c, t
<1>7. ASSUME NEW i \in 1..l PROVE m[a + i - 1] = Celda("letra", t[i]) /\ a + i - 1 # fin
  <2>1. c + i - 1 \in 0..(Len(T) - 1) /\ b + (c + i - 1) = a + i - 1 /\ c + i - 1 + 1 = c + i /\ a + i - 1 # fin
    <3> DEFINE lt == Len(T)
    <3>1. lt \in Nat /\ c + l <= lt
      BY <1>1, <1>3
    <3> HIDE DEF lt
    <3>2. c + i - 1 \in 0..(lt - 1) /\ b + (c + i - 1) = a + i - 1 /\ c + i - 1 + 1 = c + i
      BY <1>1, <3>1
    <3>3. a + i - 1 # b + lt
      BY <1>1, <3>1
    <3> QED BY <3>2, <3>3 DEF lt
  <2>2. m[b + (c + i - 1)] = T[c + i - 1 + 1]
    BY <1>5, <2>1
  <2> QED BY <1>3, <2>1, <2>2
<1>8. \A x : Celda("letra", x) # Barra
  BY DEF Celda, Barra
<1>9. a + l \in hasta
  <2>1. a + l \in a..fin
    BY <1>1, <1>3
  <2>2. a + l = fin \/ m[a + l] = Barra
    <3>1. CASE k = Len(Tareas[p])
      BY <1>1, <1>3, <3>1
    <3>2. CASE k < Len(Tareas[p])
      <4>1. c + l \in 0..(Len(T) - 1) /\ b + (c + l) = a + l
        BY <1>1, <1>3, <3>2
      <4>2. m[b + (c + l)] = T[c + l + 1]
        BY <1>5, <4>1
      <4> QED BY <1>3, <3>2, <4>1, <4>2
    <3> QED BY <1>6, <3>1, <3>2
  <2> QED BY <2>1, <2>2
<1>10. ASSUME NEW i \in hasta PROVE a + l <= i
  <2>1. i \in Nat /\ a <= i /\ (i = fin \/ m[i] = Barra)
    BY <1>1
  <2> SUFFICES ASSUME i < a + l PROVE FALSE
    BY <1>1, <2>1
  <2>2. i - a + 1 \in 1..l /\ a + (i - a + 1) - 1 = i
    BY <1>1, <2>1
  <2>3. m[i] = Celda("letra", t[i - a + 1]) /\ i # fin
    BY <1>7, <2>2
  <2> QED BY <1>8, <2>1, <2>3
<1>11. Min(hasta) = a + l
  <2>1. Min(hasta) = CHOOSE x \in hasta : \A y \in hasta : x <= y
    BY DEF Min
  <2>2. \A x \in hasta : x \in Nat
    BY <1>1
  <2>3. a + l \in Nat
    BY <1>1
  <2> HIDE DEF hasta, a
  <2>4. \A x \in hasta : (\A y \in hasta : x <= y) => x = a + l
    <3> SUFFICES ASSUME NEW x \in hasta, \A y \in hasta : x <= y PROVE x = a + l
      OBVIOUS
    <3>1. x <= a + l /\ a + l <= x /\ x \in Nat
      BY <1>9, <1>10, <2>2
    <3> QED BY <2>3, <3>1
  <2> QED BY <1>9, <1>10, <2>1, <2>4
<1>12. get_next_task(m, c, fin, b) = [i \in 1..(Min(hasta) - a) |-> m[a + i - 1]]
  BY DEF get_next_task
<1>13. (a + l) - a = l
  BY <1>1
<1>14. [i \in 1..(Min(hasta) - a) |-> m[a + i - 1]] = [i \in 1..l |-> Celda("letra", t[i])]
  <2>1. \A i \in 1..l : m[a + i - 1] = Celda("letra", t[i])
    BY <1>7
  <2>2. Min(hasta) - a = l
    <3> HIDE DEF hasta, a
    <3> QED BY <1>11, <1>13
  <2> HIDE DEF hasta, a, fin
  <2>3. [i \in 1..l |-> m[a + i - 1]] = [i \in 1..l |-> Celda("letra", t[i])]
    BY <2>1
  <2> QED BY <2>2, <2>3
<1>15. Letras(t) = [i \in 1..l |-> Celda("letra", t[i])]
  BY <1>4 DEF Letras
<1>16. ~(a >= fin)
  BY <1>1, <1>2, <1>3
<1> QED BY <1>12, <1>14, <1>15, <1>16 DEF T, c, t

(* No two parts of a patota are of the same type and about the same one. *)
LEMMA PartesDistintas ==
  ASSUME NEW p \in Patotas, NEW i \in 1..Len(Partes[p]), NEW j \in 1..Len(Partes[p]), i # j,
         Partes[p][i].type = Partes[p][j].type
  PROVE  Partes[p][i].id # Partes[p][j].id
<1> DEFINE n == Len(Partes[p])
<1>1. /\ n \in Nat /\ Partes[p][1] = [type |-> "PCB", id |-> p, tam |-> TamPCB]
      /\ Partes[p][n] = [type |-> "TASK", id |-> p, tam |-> Len(Texto[p])]
      /\ \A k \in 2..(n - 1) : \E t \in Miembros(p) :
           Partes[p][k] = Inscripto(t) /\ Cardinality({u \in Miembros(p) : u < t}) = k - 2
  <2>1. Cardinality(Miembros(p)) \in Nat /\ n = Cardinality(Miembros(p)) + 2
    BY PartesForma
  <2>2. n \in Nat
    BY <2>1
  <2> QED BY <2>2, PartesForma, Zenon
<1> HIDE DEF n
<1>2. Partes[p][1].type = "PCB" /\ Partes[p][n].type = "TASK"
  BY <1>1
<1>3. \A k \in 2..(n - 1) : Partes[p][k].type = "TCB"
  <2>1. \A t : Inscripto(t).type = "TCB"
    BY DEF Inscripto
  <2> QED BY <1>1, <2>1, Zenon
<1>4. i \in 1..n /\ j \in 1..n /\ \A k \in 1..n : k = 1 \/ k = n \/ k \in 2..(n - 1)
  BY <1>1 DEF n
<1>5. "PCB" # "TCB" /\ "TCB" # "TASK" /\ "PCB" # "TASK"
  OBVIOUS
<1>6. i \in 2..(n - 1) /\ j \in 2..(n - 1)
  BY <1>2, <1>3, <1>4, <1>5
<1>7. PICK t \in Miembros(p) : Partes[p][i] = Inscripto(t) /\ Cardinality({u \in Miembros(p) : u < t}) = i - 2
  BY <1>1, <1>6
<1>8. PICK v \in Miembros(p) : Partes[p][j] = Inscripto(v) /\ Cardinality({u \in Miembros(p) : u < v}) = j - 2
  BY <1>1, <1>6
<1>9. t # v
  <2>1. i - 2 # j - 2
    BY <1>4
  <2> QED BY <1>7, <1>8, <2>1
<1> QED BY <1>7, <1>8, <1>9 DEF Inscripto

-----------------------------------------------------------------------------
(* What is kept of each segment *)

Escrito(p, i) == iniciando # NoInicia /\ iniciando.p = p /\ i < iniciando.i
DeParte(s, parte) == s.type = parte.type /\ s.id = parte.id
Guardado(s) ==      \* a segment of a part of its patota, which was written
  /\ s.type = "TCB" => s.id \in Miembros(s.p) /\ Tam(s) = TamTCB
  /\ s.type = "TASK" => s.id = s.p /\ Tam(s) = Len(Texto[s.p])
  /\ s.p \in iniciadas \/ \E j \in 1..Len(Partes[s.p]) : Escrito(s.p, j) /\ DeParte(s, Partes[s.p][j])
Guardados ==
  /\ \A s \in segmentos : Guardado(s)
  /\ \A s, r \in segmentos : s.type = r.type /\ s.p = r.p /\ s.id = r.id => s = r
EnTramite ==      \* who reported is of a patota answered SUCCESS, which the one served is not
  /\ iniciando # NoInicia => iniciando.p \notin iniciadas
  /\ DOMAIN dicho = Trips
  /\ \A t \in Trips : /\ dicho[t] = [status |-> dicho[t].status, pos |-> dicho[t].pos]
                      /\ dicho[t] = SinDicho \/ PatotaDe[t] \in iniciadas
Intacto(s) == (s.type = "TASK" => TextoEn(s)) /\ (s.type = "TCB" => TcbEn(s))
InvContenido == InvMemoria /\ Guardados /\ EnTramite /\ ContenidoIntacto

(* q is after the step what s was before it, where it was or elsewhere. *)
Mudado(s, q) ==
  /\ q.p = s.p /\ q.nroSegmento = s.nroSegmento /\ q.type = s.type /\ q.id = s.id /\ Tam(q) = Tam(s)
  /\ \A d \in 0..(Tam(s) - 1) : memory'[q.baseAddr + d] = memory[s.baseAddr + d]
Conserva(q) == \E s \in segmentos : Mudado(s, q)
Avanza ==      \* INICIAR_PATOTA does not go back
  /\ iniciadas \subseteq iniciadas'
  /\ \A p \in Patotas : \A j \in Nat : Escrito(p, j) => Escrito(p, j)' \/ p \in iniciadas'
Olvida ==      \* nobody reports
  DOMAIN dicho' = Trips /\ \A t \in Trips : dicho'[t] = dicho[t] \/ dicho'[t] = SinDicho

(* The shape of a segment. *)
LEMMA FormaSegmento ==
  ASSUME InvMemoria, NEW s \in segmentos
  PROVE  /\ s \in Segmento /\ EsRegion(s) /\ s.p \in Patotas /\ s.p \in claves
         /\ s.baseAddr \in Nat /\ s.limit \in Nat /\ s.limit <= TamMemoria /\ TamMemoria \in Nat
         /\ Tam(s) \in Nat /\ s.limit = s.baseAddr + Tam(s)
         /\ \A r \in segmentos : r = s \/ Aparte(s, r)
         /\ \A d \in 0..(Tam(s) - 1) : s.baseAddr + d \in DOMAIN memory
<1>1. /\ s \in Segmento /\ EsRegion(s) /\ s.p \in Patotas /\ s.p \in claves
      /\ \A r \in segmentos : r = s \/ Aparte(s, r)
      /\ DOMAIN memory = 0..(TamMemoria - 1)
  BY DEF InvMemoria, Reparto, Tabla, Regiones, Disjuntas, Aparte, Segmento, TypeOK
<1>2. TamMemoria \in Nat /\ s.baseAddr \in Nat /\ s.limit \in Nat /\ s.limit <= TamMemoria
      /\ s.baseAddr <= s.limit
  BY <1>1, MemoriaOK DEF EsRegion
<1>3. Tam(s) \in Nat /\ s.limit = s.baseAddr + Tam(s)
  BY <1>2 DEF Tam
<1>4. \A d \in 0..(Tam(s) - 1) : s.baseAddr + d \in 0..(TamMemoria - 1)
  BY <1>2, <1>3
<1> QED BY <1>1, <1>2, <1>3, <1>4

(* Regions apart have no cell in common. *)
LEMMA CeldasAparte ==
  ASSUME NEW s, NEW r, s.baseAddr \in Nat, Tam(s) \in Nat, s.limit = s.baseAddr + Tam(s),
         r.baseAddr \in Nat, Tam(r) \in Nat, r.limit = r.baseAddr + Tam(r), Aparte(s, r),
         NEW d \in 0..(Tam(s) - 1), NEW e \in 0..(Tam(r) - 1)
  PROVE  s.baseAddr + d # r.baseAddr + e
BY DEF Aparte

(* What is kept of a segment moved, or left where it was. *)
LEMMA Conservado ==
  ASSUME Guardados, ContenidoIntacto, Avanza, NEW s \in segmentos, s.p \in Patotas, NEW q, Mudado(s, q),
         s.type = "TCB" => dicho'[s.id] = dicho[s.id] \/ dicho'[s.id] = SinDicho
  PROVE  Guardado(q)' /\ Intacto(q)'
<1>1. /\ q.p = s.p /\ q.type = s.type /\ q.id = s.id /\ Tam(q) = Tam(s)
      /\ \A d \in 0..(Tam(s) - 1) : memory'[q.baseAddr + d] = memory[s.baseAddr + d]
  BY DEF Mudado
<1>2. Guardado(s) /\ (s.type = "TASK" => TextoEn(s)) /\ (s.type = "TCB" => TcbEn(s))
  BY DEF Guardados, ContenidoIntacto
<1>3. Guardado(q)'
  <2>1. /\ q.type = "TCB" => q.id \in Miembros(q.p) /\ Tam(q) = TamTCB
        /\ q.type = "TASK" => q.id = q.p /\ Tam(q) = Len(Texto[q.p])
    BY <1>1, <1>2 DEF Guardado
  <2>2. q.p \in iniciadas' \/ \E j \in 1..Len(Partes[q.p]) : Escrito(q.p, j)' /\ DeParte(q, Partes[q.p][j])
    <3>1. CASE s.p \in iniciadas
      BY <1>1, <3>1 DEF Avanza
    <3>2. CASE \E j \in 1..Len(Partes[s.p]) : Escrito(s.p, j) /\ DeParte(s, Partes[s.p][j])
      <4>1. PICK j \in 1..Len(Partes[s.p]) : Escrito(s.p, j) /\ DeParte(s, Partes[s.p][j])
        BY <3>2
      <4>2. j \in Nat
        <5>1. Len(Partes[s.p]) \in Nat
          BY PartesTipo
        <5> QED BY <5>1
      <4>3. Escrito(s.p, j)' \/ s.p \in iniciadas'
        BY <4>1, <4>2 DEF Avanza
      <4>4. DeParte(q, Partes[q.p][j])
        BY <1>1, <4>1 DEF DeParte
      <4> QED BY <1>1, <4>3, <4>4
    <3> QED BY <1>2, <3>1, <3>2 DEF Guardado
  <2> QED BY <2>1, <2>2 DEF Guardado
<1>4. ASSUME q.type = "TASK" PROVE TextoEn(q)'
  <2>1. \A d \in 0..(Tam(s) - 1) : memory[s.baseAddr + d] = Texto[s.p][d + 1]
    BY <1>1, <1>2, <1>4 DEF TextoEn
  <2> QED BY <1>1, <2>1 DEF TextoEn
<1>5. ASSUME q.type = "TCB" PROVE TcbEn(q)'
  <2>1. Tam(s) = 6
    BY <1>1, <1>2, <1>5 DEF Guardado, TamTCB
  <2>2. \A d \in 0..4 : memory'[q.baseAddr + d] = memory[s.baseAddr + d]
    BY <1>1, <2>1
  <2>3. /\ memory'[q.baseAddr + 0] = memory[s.baseAddr + 0]
        /\ memory'[q.baseAddr + 1] = memory[s.baseAddr + 1]
        /\ memory'[q.baseAddr + 2] = memory[s.baseAddr + 2]
        /\ memory'[q.baseAddr + 3] = memory[s.baseAddr + 3]
        /\ memory'[q.baseAddr + 4] = memory[s.baseAddr + 4]
    BY <2>2
  <2>4. TcbEn(s)
    BY <1>1, <1>2, <1>5
  <2>5. dicho'[s.id] = dicho[s.id] \/ dicho'[s.id] = SinDicho
    BY <1>1, <1>5
  <2>6. SinDicho.status = "nada"
    BY DEF SinDicho
  <2> QED BY <1>1, <2>3, <2>4, <2>5, <2>6 DEF TcbEn
<1> QED BY <1>3, <1>4, <1>5 DEF Intacto

(* A step that only moves segments, or gives some back. *)
Tranquilo ==
  /\ \A q \in segmentos' : Conserva(q)
  /\ Avanza /\ Olvida
  /\ iniciando' # NoInicia => iniciando'.p \notin iniciadas'
LEMMA PasoTranquilo ==
  ASSUME InvContenido, InvMemoria', Tranquilo
  PROVE  InvContenido'
<1>1. ASSUME NEW q \in segmentos'
      PROVE  /\ Guardado(q)' /\ Intacto(q)'
             /\ \E s \in segmentos : Mudado(s, q)
  <2>1. PICK s \in segmentos : Mudado(s, q)
    BY DEF Tranquilo, Conserva
  <2>2. s.p \in Patotas /\ Guardado(s)
    BY FormaSegmento DEF InvContenido, Guardados
  <2>3. s.type = "TCB" => s.id \in Trips
    BY <2>2 DEF Guardado, Miembros
  <2>4. s.type = "TCB" => dicho'[s.id] = dicho[s.id] \/ dicho'[s.id] = SinDicho
    BY <2>3 DEF Tranquilo, Olvida
  <2>5. Guardado(q)' /\ Intacto(q)'
    BY <2>1, <2>2, <2>4, Conservado DEF InvContenido, Tranquilo
  <2> QED BY <2>1, <2>5
<1>2. ASSUME NEW q \in segmentos', NEW r \in segmentos', q.type = r.type, q.p = r.p, q.id = r.id
      PROVE  q = r
  <2>1. PICK s \in segmentos : Mudado(s, q)
    BY <1>1
  <2>2. PICK u \in segmentos : Mudado(u, r)
    BY <1>1
  <2>3. s.type = u.type /\ s.p = u.p /\ s.id = u.id
    BY <1>2, <2>1, <2>2 DEF Mudado
  <2>4. s = u
    BY <2>3 DEF InvContenido, Guardados
  <2>5. q.p = r.p /\ q.nroSegmento = r.nroSegmento
    BY <2>1, <2>2, <2>4 DEF Mudado
  <2>6. ClavesUnicas(segmentos')
    BY DEF InvMemoria, Reparto, Tabla
  <2> QED BY <2>5, <2>6 DEF ClavesUnicas
<1>3. Guardados'
  BY <1>1, <1>2 DEF Guardados
<1>4. ContenidoIntacto'
  BY <1>1 DEF ContenidoIntacto, Intacto
<1>5. EnTramite'
  <2>1. ASSUME NEW t \in Trips
        PROVE  /\ dicho'[t] = [status |-> dicho'[t].status, pos |-> dicho'[t].pos]
               /\ dicho'[t] = SinDicho \/ PatotaDe[t] \in iniciadas'
    <3>1. dicho'[t] = dicho[t] \/ dicho'[t] = SinDicho
      BY DEF Tranquilo, Olvida
    <3>2. /\ dicho[t] = [status |-> dicho[t].status, pos |-> dicho[t].pos]
          /\ dicho[t] = SinDicho \/ PatotaDe[t] \in iniciadas
      BY DEF InvContenido, EnTramite
    <3>3. SinDicho = [status |-> SinDicho.status, pos |-> SinDicho.pos]
      BY DEF SinDicho
    <3> QED BY <3>1, <3>2, <3>3 DEF Tranquilo, Avanza
  <2> QED BY <2>1 DEF Tranquilo, Olvida, EnTramite
<1> QED BY <1>3, <1>4, <1>5 DEF InvContenido

(* A segment whose cells are not written stays as it was. *)
LEMMA Intocado ==
  ASSUME NEW s \in segmentos, \A d \in 0..(Tam(s) - 1) : memory'[s.baseAddr + d] = memory[s.baseAddr + d]
  PROVE  Conserva(s) /\ Mudado(s, s)
BY DEF Conserva, Mudado

(* Compacted, the cells of a segment are where its new base says. *)
LEMMA CompactaBien ==
  ASSUME InvMemoria, iniciando.base = -1, NEW s \in segmentos, NEW d \in 0..(Tam(s) - 1)
  PROVE  Compactada(segmentos, memory)[Reubicado(segmentos, s).baseAddr + d] = memory[s.baseAddr + d]
<1> DEFINE S == segmentos
           q == Reubicado(S, s)
           a == q.baseAddr + d
           pares == {[de |-> r.baseAddr, a |-> Reubicado(S, r)] : r \in S}
           en == {x \in pares : Contiene(x.a, a)}
           x0 == [de |-> s.baseAddr, a |-> q]
<1>1. Tabla(S) /\ DOMAIN memory = 0..(TamMemoria - 1) /\ claves # {}
  BY DEF InvMemoria, Reparto, TypeOK
<1>2. /\ EsRegion(q) /\ Tam(q) = Tam(s) /\ q.baseAddr \in Nat /\ q.limit \in Nat /\ q.limit <= TamMemoria
      /\ s.baseAddr \in Nat /\ Tam(s) \in Nat /\ TamMemoria \in Nat
  <2>1. EsRegion(q) /\ Tam(q) = Tam(s)
    BY <1>1, ReubicadoEnOrden
  <2>2. s.baseAddr \in Nat /\ Tam(s) \in Nat /\ TamMemoria \in Nat
    BY FormaSegmento
  <2> HIDE DEF q
  <2> QED BY <2>1, <2>2 DEF EsRegion
<1> HIDE DEF q
<1>3. q.limit = q.baseAddr + Tam(s)
  BY <1>2 DEF Tam
<1>4. a \in DOMAIN memory /\ Contiene(q, a) /\ a \in Nat /\ s.baseAddr + a - q.baseAddr = s.baseAddr + d
  <2>1. d \in Nat /\ d < Tam(s)
    BY <1>2
  <2>2. a \in 0..(TamMemoria - 1) /\ q.baseAddr <= a /\ a < q.limit
    BY <1>2, <1>3, <2>1
  <2> QED BY <1>1, <1>2, <2>1, <2>2 DEF Contiene
<1>5. x0 \in en
  <2>1. x0 \in pares
    BY DEF q
  <2> QED BY <1>4, <2>1
<1>6. ASSUME NEW x \in en PROVE x = x0
  <2>1. PICK r \in S : x = [de |-> r.baseAddr, a |-> Reubicado(S, r)]
    OBVIOUS
  <2>2. Contiene(Reubicado(S, r), a)
    BY <2>1
  <2>3. r = s
    <3> SUFFICES ASSUME r # s PROVE FALSE
      OBVIOUS
    <3>1. Aparte(Reubicado(S, r), q) /\ EsRegion(Reubicado(S, r))
      BY <1>1, ReubicadosAparte, ReubicadoEnOrden DEF q
    <3> DEFINE y == Reubicado(S, r)
    <3>2. y.baseAddr \in Nat /\ y.limit \in Nat
      <4> HIDE DEF y
      <4>1. EsRegion(y)
        BY <3>1 DEF y
      <4> QED BY <1>2, <4>1 DEF EsRegion
    <3>3. Aparte(y, q) /\ Contiene(y, a) /\ Contiene(q, a)
      BY <1>4, <2>2, <3>1
    <3> HIDE DEF y, a
    <3> QED BY <1>2, <1>4, <3>2, <3>3 DEF Aparte, Contiene
  <2> QED BY <2>1, <2>3 DEF q
<1>7. (CHOOSE x \in en : TRUE) = x0
  <2> HIDE DEF en, x0
  <2> QED BY <1>5, <1>6
<1>8. Compactada(S, memory)[a] = LET x == CHOOSE x \in en : TRUE IN memory[x.de + a - x.a.baseAddr]
  <2>1. Compactada(S, memory) = [b \in DOMAIN memory |->
          LET eb == {x \in pares : Contiene(x.a, b)}
          IN  IF eb = {} THEN Basura
              ELSE LET x == CHOOSE x \in eb : TRUE IN memory[x.de + b - x.a.baseAddr]]
    BY <1>1 DEF Compactada
  <2>2. en # {}
    BY <1>5
  <2> HIDE DEF pares
  <2> QED BY <1>4, <2>1, <2>2
<1>9. x0.de = s.baseAddr /\ x0.a.baseAddr = q.baseAddr
  OBVIOUS
<1>10. Compactada(S, memory)[a] = memory[s.baseAddr + a - q.baseAddr]
  <2> HIDE DEF en, x0, a
  <2> QED BY <1>7, <1>8, <1>9
<1> QED BY <1>4, <1>10 DEF q

(* The segments that the compaction leaves keep what they had. *)
LEMMA CompactarConserva ==
  ASSUME InvMemoria, iniciando.base = -1, NEW q \in memory_compaction.segmentos,
         memory' = memory_compaction.memory
  PROVE  Conserva(q)
<1>1. PICK s \in segmentos : q = Reubicado(segmentos, s)
  BY DEF memory_compaction
<1>2. /\ q.p = s.p /\ q.nroSegmento = s.nroSegmento /\ q.type = s.type /\ q.id = s.id /\ Tam(q) = Tam(s)
  BY <1>1, ReubicadoEnOrden DEF InvMemoria, Reparto
<1>3. memory' = Compactada(segmentos, memory)
  BY DEF memory_compaction
<1>4. \A d \in 0..(Tam(s) - 1) : memory'[q.baseAddr + d] = memory[s.baseAddr + d]
  BY <1>1, <1>3, CompactaBien
<1> QED BY <1>2, <1>4 DEF Conserva, Mudado

-----------------------------------------------------------------------------
(* What is written, and where *)

(* A write reaches the cells given of its own region, and no other. *)
LEMMA EscribirBien ==
  ASSUME NEW m, NEW r, NEW celdas, r.baseAddr \in Nat, r.limit = r.baseAddr + Tam(r), Tam(r) \in Nat,
         DOMAIN celdas \subseteq 0..(Tam(r) - 1), Accesible(r), TamMemoria \in Nat,
         DOMAIN m = 0..(TamMemoria - 1)
  PROVE  /\ \A d \in DOMAIN celdas : Escribir(m, r, celdas)[r.baseAddr + d] = celdas[d]
         /\ \A d \in (0..(Tam(r) - 1)) \ DOMAIN celdas : Escribir(m, r, celdas)[r.baseAddr + d] = m[r.baseAddr + d]
<1>1. Escribir(m, r, celdas) =
        [a \in DOMAIN m |-> IF a - r.baseAddr \in DOMAIN celdas THEN celdas[a - r.baseAddr] ELSE m[a]]
  BY DEF Escribir
<1>2. ASSUME NEW d \in 0..(Tam(r) - 1)
      PROVE  r.baseAddr + d \in DOMAIN m /\ (r.baseAddr + d) - r.baseAddr = d
  BY DEF Accesible
<1> QED BY <1>1, <1>2

(* The cells of a region apart from the one written stay. *)
LEMMA EscribirAparte ==
  ASSUME NEW m, NEW r, NEW celdas, r.baseAddr \in Nat, r.limit = r.baseAddr + Tam(r), Tam(r) \in Nat,
         DOMAIN celdas \subseteq 0..(Tam(r) - 1),
         NEW s, s.baseAddr \in Nat, s.limit = s.baseAddr + Tam(s), Tam(s) \in Nat, Aparte(s, r),
         NEW d \in 0..(Tam(s) - 1), s.baseAddr + d \in DOMAIN m, NEW mm, mm = Escribir(m, r, celdas)
  PROVE  mm[s.baseAddr + d] = m[s.baseAddr + d]
<1> DEFINE a == s.baseAddr + d
<1>1. a - r.baseAddr \notin DOMAIN celdas
  <2> SUFFICES ASSUME a - r.baseAddr \in 0..(Tam(r) - 1) PROVE FALSE
    OBVIOUS
  <2> DEFINE e == a - r.baseAddr
  <2>1. s.baseAddr + d = r.baseAddr + e
    OBVIOUS
  <2>2. e \in 0..(Tam(r) - 1)
    OBVIOUS
  <2> HIDE DEF e
  <2> QED BY <2>1, <2>2, CeldasAparte
<1>2. CASE Accesible(r)
  <2>1. Escribir(m, r, celdas) =
          [b \in DOMAIN m |-> IF b - r.baseAddr \in DOMAIN celdas THEN celdas[b - r.baseAddr] ELSE m[b]]
    BY <1>2 DEF Escribir
  <2>2. a \in DOMAIN m
    OBVIOUS
  <2> HIDE DEF a
  <2>3. Escribir(m, r, celdas)[a] = m[a]
    BY <1>1, <2>1, <2>2
  <2> QED BY <2>3 DEF a
<1>3. CASE ~Accesible(r)
  BY <1>3 DEF Escribir
<1> QED BY <1>2, <1>3

(* Of a TCB, tid and next. *)
LEMMA EscribirTCB ==
  ASSUME NEW m, NEW r, NEW tid, NEW next, r.baseAddr \in Nat, r.limit = r.baseAddr + Tam(r), Tam(r) = TamTCB,
         Accesible(r), TamMemoria \in Nat, DOMAIN m = 0..(TamMemoria - 1),
         NEW mm, mm = save_tcb_in_memory(m, r, tid, next)
  PROVE  /\ mm[r.baseAddr + 0] = Celda("tid", tid)
         /\ mm[r.baseAddr + 1] = Celda("next", next)
         /\ mm[r.baseAddr + 2] = m[r.baseAddr + 2]
         /\ mm[r.baseAddr + 3] = m[r.baseAddr + 3]
         /\ mm[r.baseAddr + 4] = m[r.baseAddr + 4]
<1> DEFINE x == Celda("tid", tid)
           y == Celda("next", next)
           f == [d \in 0..1 |-> IF d = 0 THEN x ELSE y]
<1>1. mm = Escribir(m, r, f)
  BY DEF save_tcb_in_memory
<1> HIDE DEF x, y
<1>2. DOMAIN f = 0..1 /\ f[0] = x /\ f[1] = y
  OBVIOUS
<1> HIDE DEF f
<1>3. Tam(r) \in Nat /\ DOMAIN f \subseteq 0..(Tam(r) - 1) /\ \A d \in 2..4 : d \in (0..(Tam(r) - 1)) \ DOMAIN f
  BY <1>2 DEF TamTCB
<1>4. /\ \A d \in DOMAIN f : mm[r.baseAddr + d] = f[d]
      /\ \A d \in (0..(Tam(r) - 1)) \ DOMAIN f : mm[r.baseAddr + d] = m[r.baseAddr + d]
  <2>1. Tam(r) \in Nat /\ DOMAIN f \subseteq 0..(Tam(r) - 1)
    BY <1>3
  <2> QED BY <1>1, <2>1, EscribirBien
<1>5. 0 \in DOMAIN f /\ 1 \in DOMAIN f
  BY <1>2
<1>6. mm[r.baseAddr + 0] = x /\ mm[r.baseAddr + 1] = y
  BY <1>2, <1>4, <1>5
<1>7. \A d \in 2..4 : mm[r.baseAddr + d] = m[r.baseAddr + d]
  BY <1>3, <1>4
<1>8. 2 \in 2..4 /\ 3 \in 2..4 /\ 4 \in 2..4
  OBVIOUS
<1> QED BY <1>6, <1>7, <1>8 DEF x, y

(* The text, a cell per letter. *)
LEMMA EscribirTexto ==
  ASSUME NEW m, NEW r, NEW texto, r.baseAddr \in Nat, r.limit = r.baseAddr + Tam(r), Tam(r) \in Nat,
         Accesible(r), TamMemoria \in Nat, DOMAIN m = 0..(TamMemoria - 1), NEW d \in 0..(Tam(r) - 1)
  PROVE  save_task_in_memory(m, r, texto)[r.baseAddr + d] = texto[d + 1]
<1> DEFINE f == [e \in 0..(Tam(r) - 1) |-> texto[e + 1]]
<1>1. save_task_in_memory(m, r, texto) = Escribir(m, r, f)
  BY DEF save_task_in_memory
<1>2. DOMAIN f = 0..(Tam(r) - 1) /\ f[d] = texto[d + 1]
  OBVIOUS
<1> HIDE DEF f
<1>3. DOMAIN f \subseteq 0..(Tam(r) - 1) /\ d \in DOMAIN f
  BY <1>2
<1>4. Escribir(m, r, f)[r.baseAddr + d] = f[d]
  BY <1>3, EscribirBien
<1> QED BY <1>1, <1>2, <1>4

(* Freed cells are those of the segments given back. *)
LEMMA LiberarConserva ==
  ASSUME InvMemoria, NEW T \in SUBSET segmentos, memory' = Liberar(memory, T), NEW s \in segmentos \ T
  PROVE  Conserva(s)
<1>1. ASSUME NEW d \in 0..(Tam(s) - 1) PROVE memory'[s.baseAddr + d] = memory[s.baseAddr + d]
  <2> DEFINE a == s.baseAddr + d
  <2>1. /\ s.baseAddr \in Nat /\ Tam(s) \in Nat /\ s.limit = s.baseAddr + Tam(s) /\ a \in DOMAIN memory
        /\ \A r \in segmentos : r = s \/ Aparte(s, r)
    BY FormaSegmento
  <2>2. s.baseAddr <= a /\ a < s.limit /\ a \in Nat
    BY <2>1
  <2> HIDE DEF a
  <2>3. ~\E r \in T : Contiene(r, a)
    <3> SUFFICES ASSUME NEW r \in T, Contiene(r, a) PROVE FALSE
      OBVIOUS
    <3>1. Aparte(s, r) /\ r.baseAddr \in Nat /\ r.limit \in Nat
      BY <2>1, FormaSegmento
    <3> QED BY <2>1, <2>2, <3>1 DEF Aparte, Contiene
  <2>4. memory'[a] = memory[a]
    BY <2>1, <2>3 DEF Liberar
  <2> QED BY <2>4 DEF a
<1> QED BY <1>1, Intocado

-----------------------------------------------------------------------------
(* Each operation keeps the content of the segments *)

(* Steps that touch neither the segments nor the memory. *)
LEMMA PasoSinTocar ==
  ASSUME InvContenido, InvMemoria', segmentos' = segmentos, memory' = memory, dicho' = dicho,
         iniciadas' = iniciadas,
         iniciando' = iniciando \/ (iniciando = NoInicia /\ iniciando'.p \notin iniciadas)
  PROVE  InvContenido'
<1>1. \A q \in segmentos' : Conserva(q)
  BY Intocado
<1>2. Avanza
  BY DEF Avanza, Escrito
<1>3. Olvida
  BY DEF Olvida, InvContenido, EnTramite
<1>4. iniciando' # NoInicia => iniciando'.p \notin iniciadas'
  BY DEF InvContenido, EnTramite
<1> QED BY <1>1, <1>2, <1>3, <1>4, PasoTranquilo DEF Tranquilo

(* The compaction, asked for or to make room. *)
LEMMA PasoCompacta ==
  ASSUME InvContenido, InvMemoria', iniciando.base = -1, segmentos' = memory_compaction.segmentos,
         memory' = memory_compaction.memory, dicho' = dicho, iniciadas' = iniciadas,
         iniciando' # NoInicia => /\ iniciando # NoInicia
                                  /\ iniciando'.p = iniciando.p /\ iniciando'.i = iniciando.i,
         iniciando # NoInicia => iniciando' # NoInicia
  PROVE  InvContenido'
<1>1. \A q \in segmentos' : Conserva(q)
  BY CompactarConserva DEF InvContenido
<1>2. Avanza
  BY DEF Avanza, Escrito
<1>3. Olvida
  BY DEF Olvida, InvContenido, EnTramite
<1>4. iniciando' # NoInicia => iniciando'.p \notin iniciadas'
  BY DEF InvContenido, EnTramite
<1> QED BY <1>1, <1>2, <1>3, <1>4, PasoTranquilo DEF Tranquilo

(* A reservation, with a compaction or without. *)
LEMMA ContenidoReservar ==
  ASSUME InvContenido, InvMemoria', ReservarSegmento
  PROVE  InvContenido'
<1> DEFINE tam == Partes[iniciando.p][iniciando.i].tam
           c == ParaReservar(tam)
<1>1. iniciando # NoInicia /\ iniciando.base = -1
  BY DEF ReservarSegmento
<1>2. Elegibles(c.libres, tam) # {}
  <2> SUFFICES ASSUME Elegibles(c.libres, tam) = {} PROVE FALSE
    OBVIOUS
  <2>1. Muere("sinLugar")
    BY DEF ReservarSegmento
  <2>2. caida' = "sinLugar"
    BY <2>1 DEF Muere
  <2> QED BY <2>2 DEF InvMemoria, SiempreHayLugar
<1>3. PICK h \in Elegibles(c.libres, tam) : iniciando' = [iniciando EXCEPT !.base = h.baseAddr]
  BY <1>2 DEF ReservarSegmento
<1>4. segmentos' = c.segmentos /\ memory' = c.memory /\ iniciadas' = iniciadas /\ dicho' = dicho
  BY <1>2 DEF ReservarSegmento
<1>5. iniciando'.p = iniciando.p /\ iniciando'.i = iniciando.i /\ iniciando' # NoInicia
  <2>1. iniciando \in [p : pedidas, i : Nat, base : (0..TamMemoria) \cup {-1}] /\ iniciando.p \in Patotas
    BY <1>1 DEF InvContenido, InvMemoria, Tramite, TypeOK
  <2>2. iniciando'.p = iniciando.p /\ iniciando'.i = iniciando.i
    BY <1>3, <2>1
  <2> QED BY <2>1, <2>2, MemoriaOK DEF NoInicia
<1>6. CASE Elegibles(segmentosLibres, tam) # {}
  <2>1. segmentos' = segmentos /\ memory' = memory
    BY <1>4, <1>6 DEF ParaReservar
  <2>2. \A q \in segmentos' : Conserva(q)
    BY <2>1, Intocado
  <2>3. Avanza
    BY <1>1, <1>4, <1>5 DEF Avanza, Escrito
  <2>4. Olvida /\ iniciando'.p \notin iniciadas'
    BY <1>1, <1>4, <1>5 DEF Olvida, InvContenido, EnTramite
  <2> QED BY <2>2, <2>3, <2>4, PasoTranquilo DEF Tranquilo
<1>7. CASE Elegibles(segmentosLibres, tam) = {}
  <2>1. segmentos' = memory_compaction.segmentos /\ memory' = memory_compaction.memory
    BY <1>4, <1>7 DEF ParaReservar
  <2> HIDE DEF c
  <2> QED BY <1>1, <1>4, <1>5, <2>1, PasoCompacta
<1> QED BY <1>6, <1>7

(* SIGUSR1. *)
LEMMA ContenidoCompactar ==
  ASSUME SenialConReserva = FALSE, InvContenido, InvMemoria', Compactar
  PROVE  InvContenido'
<1>1. /\ segmentos' = memory_compaction.segmentos /\ memory' = memory_compaction.memory
      /\ iniciando' = iniciando /\ iniciadas' = iniciadas /\ dicho' = dicho /\ iniciando.base = -1
  BY DEF Compactar, pedidos
<1> QED BY <1>1, PasoCompacta

(* Segments given back, expelled or eliminated. *)
LEMMA PasoLibera ==
  ASSUME InvContenido, InvMemoria', NEW T \in SUBSET segmentos, segmentos' = segmentos \ T,
         memory' = Liberar(memory, T), Olvida, iniciadas' = iniciadas, iniciando' = iniciando
  PROVE  InvContenido'
<1>1. \A q \in segmentos' : Conserva(q)
  BY LiberarConserva DEF InvContenido
<1>2. Avanza
  BY DEF Avanza, Escrito
<1>3. iniciando' # NoInicia => iniciando'.p \notin iniciadas'
  BY DEF InvContenido, EnTramite
<1> QED BY <1>1, <1>2, <1>3, PasoTranquilo DEF Tranquilo

(* EXPULSAR_TRIPULANTE. *)
LEMMA ContenidoExpulsar ==
  ASSUME InvContenido, InvMemoria', NEW t \in Trips, ExpulsarTripulante(t)
  PROVE  InvContenido'
<1> DEFINE T == find_tcb_segment(t)
<1>1. /\ segmentos' = segmentos \ T /\ memory' = Liberar(memory, T)
      /\ dicho' = [dicho EXCEPT ![t] = SinDicho] /\ iniciadas' = iniciadas /\ iniciando' = iniciando
  BY DEF ExpulsarTripulante
<1>2. T \in SUBSET segmentos
  BY DEF find_tcb_segment, TablaDe
<1>3. Olvida
  BY <1>1 DEF Olvida, InvContenido, EnTramite
<1> HIDE DEF T
<1> QED BY <1>1, <1>2, <1>3, PasoLibera

(* A segment of ELIMINAR_PATOTA, or its end. *)
LEMMA ContenidoEliminarSegmento ==
  ASSUME InvContenido, InvMemoria', EliminarSegmento
  PROVE  InvContenido'
<1>1. iniciadas' = iniciadas /\ iniciando' = iniciando
  BY DEF EliminarSegmento
<1>2. CASE TablaDe(eliminando) = {}
  <2>1. segmentos' = segmentos /\ memory' = memory /\ dicho' = dicho
    BY <1>2 DEF EliminarSegmento
  <2> QED BY <1>1, <2>1, PasoSinTocar
<1>3. CASE TablaDe(eliminando) # {}
  <2>1. PICK s \in get_next_segment(eliminando) :
          /\ segmentos' = segmentos \ {s} /\ memory' = Liberar(memory, {s})
          /\ dicho' = [t \in Trips |-> IF s.type = "TCB" /\ s.id = t THEN SinDicho ELSE dicho[t]]
    BY <1>3 DEF EliminarSegmento
  <2>2. {s} \in SUBSET segmentos
    BY DEF get_next_segment, TablaDe
  <2>3. Olvida
    BY <2>1 DEF Olvida
  <2> QED BY <1>1, <2>1, <2>2, <2>3, PasoLibera
<1> QED BY <1>2, <1>3

(* Nothing is left of a process that died. *)
LEMMA ContenidoMuere ==
  ASSUME InvContenido, InvMemoria', NEW causa, Muere(causa)
  PROVE  InvContenido'
<1>1. segmentos' = {} /\ iniciando' = NoInicia /\ dicho' = [t \in Trips |-> SinDicho]
  BY DEF Muere
<1>2. Guardados' /\ ContenidoIntacto'
  BY <1>1 DEF Guardados, ContenidoIntacto
<1>3. EnTramite'
  <2>1. SinDicho = [status |-> SinDicho.status, pos |-> SinDicho.pos]
    BY DEF SinDicho
  <2> QED BY <1>1, <2>1 DEF EnTramite
<1> QED BY <1>2, <1>3 DEF InvContenido

(* A step that writes in one TCB. *)
SoloEn(s) ==
  /\ segmentos' = segmentos /\ iniciadas' = iniciadas /\ iniciando' = iniciando
  /\ \A r \in segmentos \ {s} : \A d \in 0..(Tam(r) - 1) : memory'[r.baseAddr + d] = memory[r.baseAddr + d]
  /\ DOMAIN dicho' = Trips
  /\ dicho'[s.id] = [status |-> dicho'[s.id].status, pos |-> dicho'[s.id].pos]
  /\ \A u \in Trips \ {s.id} : dicho'[u] = dicho[u]
  /\ dicho'[s.id] = dicho[s.id] \/ s.p \in iniciadas
LEMMA PasoEscribe ==
  ASSUME InvContenido, InvMemoria', NEW s \in segmentos, s.type = "TCB", SoloEn(s), TcbEn(s)'
  PROVE  InvContenido'
<1>1. segmentos' = segmentos /\ iniciadas' = iniciadas /\ iniciando' = iniciando
  BY DEF SoloEn
<1>2. Guardado(s) /\ s.id \in Miembros(s.p) /\ s.p \in Patotas /\ s.id \in Trips /\ PatotaDe[s.id] = s.p
  BY FormaSegmento DEF InvContenido, Guardados, Guardado, Miembros
<1>3. Avanza
  BY <1>1 DEF Avanza, Escrito
<1>4. ASSUME NEW r \in segmentos, r # s PROVE Guardado(r)' /\ Intacto(r)'
  <2>1. Guardado(r) /\ r.p \in Patotas
    BY FormaSegmento DEF InvContenido, Guardados
  <2>2. Mudado(r, r)
    BY <1>4, Intocado DEF SoloEn
  <2>3. ASSUME r.type = "TCB" PROVE dicho'[r.id] = dicho[r.id]
    <3>1. r.id \in Trips /\ PatotaDe[r.id] = r.p
      BY <2>1, <2>3 DEF Guardado, Miembros
    <3>2. r.id # s.id
      BY <1>2, <1>4, <2>3, <3>1 DEF InvContenido, Guardados
    <3> QED BY <3>1, <3>2 DEF SoloEn
  <2> QED BY <1>3, <2>1, <2>2, <2>3, Conservado DEF InvContenido
<1>5. Guardado(s)' /\ Intacto(s)'
  BY <1>1, <1>2 DEF Guardado, Escrito, Intacto
<1>6. Guardados'
  BY <1>1, <1>4, <1>5 DEF Guardados, InvContenido
<1>7. ContenidoIntacto'
  BY <1>1, <1>4, <1>5 DEF ContenidoIntacto, Intacto
<1>8. EnTramite'
  <2>1. ASSUME NEW t \in Trips
        PROVE  /\ dicho'[t] = [status |-> dicho'[t].status, pos |-> dicho'[t].pos]
               /\ dicho'[t] = SinDicho \/ PatotaDe[t] \in iniciadas'
    <3>1. /\ dicho[t] = [status |-> dicho[t].status, pos |-> dicho[t].pos]
          /\ dicho[t] = SinDicho \/ PatotaDe[t] \in iniciadas
      BY DEF InvContenido, EnTramite
    <3> QED BY <1>1, <1>2, <3>1 DEF SoloEn
  <2> QED BY <1>1, <2>1 DEF SoloEn, EnTramite, InvContenido
<1> QED BY <1>6, <1>7, <1>8 DEF InvContenido

(* The TCB of a tripulante. *)
LEMMA TcbDeUno ==
  ASSUME InvContenido, NEW t \in Trips, NEW s \in find_tcb_segment(t)
  PROVE  /\ s \in segmentos /\ s.type = "TCB" /\ s.id = t /\ s.p = PatotaDe[t] /\ Tam(s) = TamTCB
         /\ s.p \in Patotas /\ s.baseAddr \in Nat /\ s.limit = s.baseAddr + Tam(s) /\ TamMemoria \in Nat
         /\ TcbEn(s) /\ find_tcb_segment(t) = {s}
         /\ \A d \in 0..5 : s.baseAddr + d \in DOMAIN memory
<1>1. s \in segmentos /\ s.type = "TCB" /\ s.id = t /\ s.p = PatotaDe[t]
  BY DEF find_tcb_segment, TablaDe
<1>2. Tam(s) = TamTCB
  BY <1>1 DEF InvContenido, Guardados, Guardado
<1>3. /\ s.p \in Patotas /\ s.baseAddr \in Nat /\ s.limit = s.baseAddr + Tam(s) /\ TamMemoria \in Nat
      /\ \A d \in 0..(Tam(s) - 1) : s.baseAddr + d \in DOMAIN memory
  BY <1>1, FormaSegmento DEF InvContenido
<1>4. \A d \in 0..5 : s.baseAddr + d \in DOMAIN memory
  BY <1>2, <1>3 DEF TamTCB
<1>5. TcbEn(s)
  BY <1>1 DEF InvContenido, ContenidoIntacto
<1>6. \A r \in find_tcb_segment(t) : r = s
  BY <1>1 DEF find_tcb_segment, TablaDe, InvContenido, Guardados
<1> QED BY <1>1, <1>2, <1>3, <1>4, <1>5, <1>6

(* A cell of a TCB is of no other segment. *)
LEMMA CeldaDeTcb ==
  ASSUME InvContenido, NEW t \in Trips, NEW s \in find_tcb_segment(t), NEW e \in 0..5,
         NEW r \in segmentos \ {s}, NEW d \in 0..(Tam(r) - 1)
  PROVE  r.baseAddr + d # s.baseAddr + e
<1>1. /\ s \in segmentos /\ Tam(s) = 6 /\ s.baseAddr \in Nat /\ s.limit = s.baseAddr + Tam(s)
  BY TcbDeUno DEF TamTCB
<1>2. /\ r.baseAddr \in Nat /\ Tam(r) \in Nat /\ r.limit = r.baseAddr + Tam(r) /\ Aparte(r, s)
  BY <1>1, FormaSegmento DEF InvContenido
<1>3. e \in 0..(Tam(s) - 1) /\ Tam(s) \in Nat
  BY <1>1
<1> QED BY <1>1, <1>2, <1>3, CeldasAparte

(* RECIBIR_ESTADO: the status goes in its cell. *)
LEMMA ContenidoEstado ==
  ASSUME InvContenido, InvMemoria', NEW t \in Trips, RecibirEstado(t)
  PROVE  InvContenido'
<1>1. PICK e \in Estados, s \in find_tcb_segment(t) :
        /\ dicho' = [dicho EXCEPT ![t] = [dicho[t] EXCEPT !.status = e]]
        /\ memory' = [memory EXCEPT ![s.baseAddr + 2] = Celda("status", e)]
  BY DEF RecibirEstado, Reporte
<1>2. segmentos' = segmentos /\ iniciadas' = iniciadas /\ iniciando' = iniciando /\ PatotaDe[t] \in iniciadas
  BY DEF RecibirEstado, pedidos
<1>3. /\ s \in segmentos /\ s.type = "TCB" /\ s.id = t /\ s.p = PatotaDe[t] /\ s.baseAddr \in Nat /\ TcbEn(s)
      /\ \A d \in 0..5 : s.baseAddr + d \in DOMAIN memory
  BY TcbDeUno
<1>4. /\ DOMAIN dicho = Trips /\ dicho[t] = [status |-> dicho[t].status, pos |-> dicho[t].pos]
  BY DEF InvContenido, EnTramite
<1>5. /\ DOMAIN dicho' = Trips /\ dicho'[t] = [status |-> e, pos |-> dicho[t].pos]
      /\ \A u \in Trips \ {t} : dicho'[u] = dicho[u]
  BY <1>1, <1>4
<1>6. SoloEn(s)
  <2>1. ASSUME NEW r \in segmentos \ {s}, NEW d \in 0..(Tam(r) - 1)
        PROVE  memory'[r.baseAddr + d] = memory[r.baseAddr + d]
    <3>1. r.baseAddr + d # s.baseAddr + 2
      BY CeldaDeTcb
    <3>2. r.baseAddr + d \in DOMAIN memory
      BY FormaSegmento DEF InvContenido
    <3> QED BY <1>1, <3>1, <3>2
  <2> QED BY <1>2, <1>3, <1>5, <2>1 DEF SoloEn
<1>7. TcbEn(s)'
  <2>1. memory'[s.baseAddr + 2] = Celda("status", e)
    BY <1>1, <1>3
  <2>2. \A d \in {0, 1, 3, 4} : memory'[s.baseAddr + d] = memory[s.baseAddr + d]
    BY <1>1, <1>3
  <2>3. dicho'[s.id].status = e /\ dicho'[s.id].pos = dicho[s.id].pos
    BY <1>3, <1>5
  <2> QED BY <1>3, <2>1, <2>2, <2>3 DEF TcbEn
<1> QED BY <1>3, <1>6, <1>7, PasoEscribe

(* RECIBIR_UBICACION: so does the position. *)
LEMMA ContenidoUbicacion ==
  ASSUME InvContenido, InvMemoria', NEW t \in Trips, RecibirUbicacion(t)
  PROVE  InvContenido'
<1>1. PICK pos \in Posiciones, s \in find_tcb_segment(t) :
        /\ dicho' = [dicho EXCEPT ![t] = [dicho[t] EXCEPT !.pos = pos]]
        /\ memory' = [memory EXCEPT ![s.baseAddr + 3] = Celda("x", pos.x),
                                    ![s.baseAddr + 4] = Celda("y", pos.y)]
  BY DEF RecibirUbicacion, Reporte
<1>2. segmentos' = segmentos /\ iniciadas' = iniciadas /\ iniciando' = iniciando /\ PatotaDe[t] \in iniciadas
  BY DEF RecibirUbicacion, pedidos
<1>3. /\ s \in segmentos /\ s.type = "TCB" /\ s.id = t /\ s.p = PatotaDe[t] /\ s.baseAddr \in Nat /\ TcbEn(s)
      /\ \A d \in 0..5 : s.baseAddr + d \in DOMAIN memory
  BY TcbDeUno
<1>4. /\ DOMAIN dicho = Trips /\ dicho[t] = [status |-> dicho[t].status, pos |-> dicho[t].pos]
  BY DEF InvContenido, EnTramite
<1>5. /\ DOMAIN dicho' = Trips /\ dicho'[t] = [status |-> dicho[t].status, pos |-> pos]
      /\ \A u \in Trips \ {t} : dicho'[u] = dicho[u]
  BY <1>1, <1>4
<1>6. SoloEn(s)
  <2>1. ASSUME NEW r \in segmentos \ {s}, NEW d \in 0..(Tam(r) - 1)
        PROVE  memory'[r.baseAddr + d] = memory[r.baseAddr + d]
    <3>1. r.baseAddr + d # s.baseAddr + 3 /\ r.baseAddr + d # s.baseAddr + 4
      BY CeldaDeTcb
    <3>2. r.baseAddr + d \in DOMAIN memory
      BY FormaSegmento DEF InvContenido
    <3> QED BY <1>1, <3>1, <3>2
  <2> QED BY <1>2, <1>3, <1>5, <2>1 DEF SoloEn
<1>7. TcbEn(s)'
  <2>1. memory'[s.baseAddr + 3] = Celda("x", pos.x) /\ memory'[s.baseAddr + 4] = Celda("y", pos.y)
    <3>1. s.baseAddr + 3 # s.baseAddr + 4 /\ s.baseAddr + 3 \in DOMAIN memory /\ s.baseAddr + 4 \in DOMAIN memory
      BY <1>3
    <3> QED BY <1>1, <3>1
  <2>2. \A d \in {0, 1, 2} : memory'[s.baseAddr + d] = memory[s.baseAddr + d]
    BY <1>1, <1>3
  <2>3. dicho'[s.id].status = dicho[s.id].status /\ dicho'[s.id].pos = pos
    BY <1>3, <1>5
  <2> QED BY <1>3, <2>1, <2>2, <2>3 DEF TcbEn
<1> QED BY <1>3, <1>6, <1>7, PasoEscribe

(* A next starts a task when it is within the text, and is past the last    *)
(* when it is not.                                                          *)
LEMMA NextDentro ==
  ASSUME TareasEscritas, NEW p \in Patotas, NEW k \in 1..(Len(Tareas[p]) + 1)
  PROVE  /\ Inicio[p][k] \in Nat /\ Len(Texto[p]) \in Nat /\ Len(Tareas[p]) \in Nat
         /\ Inicio[p][k] < Len(Texto[p]) <=> k \in 1..Len(Tareas[p])
<1> DEFINE n == Len(Tareas[p])
           c == Inicio[p][k]
           lt == Len(Texto[p])
<1>1. c \in Nat /\ lt \in Nat /\ n \in Nat
  BY InicioPasos, TextoTareas
<1>2. ASSUME k \in 1..n PROVE c < lt
  <2> DEFINE l == Len(Tareas[p][k])
  <2>1. l \in Nat /\ c + l <= lt
    BY <1>2, InicioPasos, TextoTareas DEF TareaEn
  <2>2. l > 0
    <3>1. Tareas[p][k] \in Seq(Nat) /\ Tareas[p][k] # <<>>
      BY <1>2, InicioPasos DEF TareasEscritas
    <3> QED BY <3>1
  <2> HIDE DEF c, l, lt
  <2> QED BY <1>1, <2>1, <2>2
<1>3. ASSUME k \notin 1..n PROVE ~(c < lt)
  <2>1. k = n + 1
    BY <1>1, <1>3
  <2>2. CASE n = 0
    <3>1. lt = 0
      BY <2>2, TextoTareas
    <3> HIDE DEF c, lt
    <3> QED BY <1>1, <3>1
  <2>3. CASE n # 0
    <3>1. n \in 1..n
      BY <1>1, <2>3
    <3>2. Inicio[p][n] + Len(Tareas[p][n]) = lt
      BY <3>1, TextoTareas DEF TareaEn
    <3>3. Inicio[p][n + 1] = Inicio[p][n] + Len(Tareas[p][n]) + 1
      BY <3>1, InicioPasos
    <3>4. c = lt + 1
      BY <2>1, <3>2, <3>3
    <3> HIDE DEF c, lt
    <3> QED BY <1>1, <3>4
  <2> QED BY <2>2, <2>3
<1> QED BY <1>1, <1>2, <1>3

(* ENVIAR_PROXIMA_TAREA answers with the task that the next of the TCB      *)
(* starts and moves it to the following one, or says that there is none.    *)
Enviada(t, s, k) ==
  LET p == PatotaDe[t]
  IN  /\ memory[s.baseAddr + 1] = Celda("next", Inicio[p][k])
      /\ \/ /\ k = Len(Tareas[p]) + 1
            /\ Responde(t, <<>>) /\ memory' = memory
         \/ /\ k \in 1..Len(Tareas[p])
            /\ Responde(t, Letras(Tareas[p][k]))
            /\ memory' = save_tcb_in_memory(memory, s, t, Inicio[p][k + 1])
LEMMA QueEnvia ==
  ASSUME TareasEscritas, InvContenido, NEW t \in Trips, EnviarTarea(t)
  PROVE  \E s \in find_tcb_segment(t) : Accesible(s) /\ \E k \in 1..(Len(Tareas[PatotaDe[t]]) + 1) : Enviada(t, s, k)
<1> DEFINE p == PatotaDe[t]
           n == Len(Tareas[p])
<1>1. PICK s \in find_tcb_segment(t), r \in find_task_segment(p) :
        /\ Accesible(s)
        /\ LET next == memory[s.baseAddr + 1].valor
           IN  IF r.baseAddr + next >= r.limit
                 THEN Responde(t, <<>>) /\ UNCHANGED memory
                 ELSE LET tarea == get_next_task(memory, next, r.limit, r.baseAddr)
                      IN  /\ Responde(t, tarea)
                          /\ memory' = save_tcb_in_memory(memory, s, t, next + Len(tarea) + 1)
  BY DEF EnviarTarea
<1>2. p \in Patotas /\ n \in Nat
  BY PatotasOK, InicioPasos
<1>3. s.p = p /\ TcbEn(s)
  BY TcbDeUno
<1>4. PICK k \in 1..(n + 1) : memory[s.baseAddr + 1] = Celda("next", Inicio[p][k])
  BY <1>3 DEF TcbEn
<1> DEFINE c == Inicio[p][k]
<1>5. memory[s.baseAddr + 1].valor = c
  BY <1>4 DEF Celda
<1>6. /\ r \in segmentos /\ r.type = "TASK" /\ r.p = p
  BY DEF find_task_segment, TablaDe
<1>7. /\ Tam(r) = Len(Texto[p]) /\ r.baseAddr \in Nat /\ r.limit = r.baseAddr + Len(Texto[p])
  BY <1>6, FormaSegmento DEF InvContenido, Guardados, Guardado
<1>8. \A d \in 0..(Len(Texto[p]) - 1) : memory[r.baseAddr + d] = Texto[p][d + 1]
  BY <1>6, <1>7 DEF InvContenido, ContenidoIntacto, TextoEn
<1>9. c \in Nat /\ Len(Texto[p]) \in Nat /\ (c < Len(Texto[p]) <=> k \in 1..n)
  BY <1>2, NextDentro
<1>10. r.baseAddr + c >= r.limit <=> k \notin 1..n
  <2> DEFINE lt == Len(Texto[p])
  <2>1. c \in Nat /\ lt \in Nat /\ r.limit = r.baseAddr + lt /\ (c < lt <=> k \in 1..n) /\ r.baseAddr \in Nat
    BY <1>7, <1>9
  <2> HIDE DEF c, lt, n
  <2> QED BY <2>1
<1>11. CASE k \in 1..n
  <2> DEFINE tarea == get_next_task(memory, c, r.limit, r.baseAddr)
  <2>1. tarea = Letras(Tareas[p][k])
    <3> DEFINE b == r.baseAddr
               m == memory
    <3>1. b \in Nat /\ \A d \in 0..(Len(Texto[p]) - 1) : m[b + d] = Texto[p][d + 1]
      BY <1>7, <1>8
    <3>2. tarea = get_next_task(m, c, b + Len(Texto[p]), b)
      BY <1>7
    <3> HIDE DEF b, m, tarea
    <3> QED BY <1>2, <1>11, <3>1, <3>2, LeeTarea
  <2>2. Len(tarea) = Len(Tareas[p][k])
    BY <1>2, <1>11, <2>1, TextoDeTareas
  <2>3. Inicio[p][k + 1] = c + Len(tarea) + 1
    BY <1>2, <1>11, <2>2, InicioPasos
  <2>4. Responde(t, tarea) /\ memory' = save_tcb_in_memory(memory, s, t, c + Len(tarea) + 1)
    BY <1>1, <1>5, <1>10, <1>11
  <2>5. Enviada(t, s, k)
    BY <1>4, <1>11, <2>1, <2>3, <2>4 DEF Enviada
  <2> QED BY <1>1, <2>5
<1>12. CASE k \notin 1..n
  <2>1. k = n + 1
    BY <1>2, <1>12
  <2>2. Responde(t, <<>>) /\ memory' = memory
    BY <1>1, <1>5, <1>10, <1>12
  <2>3. Enviada(t, s, k)
    BY <1>4, <2>1, <2>2 DEF Enviada
  <2> QED BY <1>1, <2>3
<1> QED BY <1>11, <1>12

(* The cells of the other segments stay. *)
LEMMA TcbAparte ==
  ASSUME InvContenido, NEW t \in Trips, NEW s \in find_tcb_segment(t), NEW x,
         memory' = save_tcb_in_memory(memory, s, t, x), NEW r \in segmentos \ {s}, NEW d \in 0..(Tam(r) - 1)
  PROVE  memory'[r.baseAddr + d] = memory[r.baseAddr + d]
<1> DEFINE f == [e \in 0..1 |-> IF e = 0 THEN Celda("tid", t) ELSE Celda("next", x)]
<1>1. memory' = Escribir(memory, s, f) /\ DOMAIN f = 0..1
  BY DEF save_tcb_in_memory
<1>2. s \in segmentos /\ s.baseAddr \in Nat /\ Tam(s) = TamTCB /\ s.limit = s.baseAddr + Tam(s)
  BY TcbDeUno
<1>3. /\ r.baseAddr \in Nat /\ Tam(r) \in Nat /\ r.limit = r.baseAddr + Tam(r) /\ Aparte(r, s)
      /\ r.baseAddr + d \in DOMAIN memory
  BY <1>2, FormaSegmento DEF InvContenido
<1> HIDE DEF f
<1>4. Tam(s) \in Nat /\ DOMAIN f \subseteq 0..(Tam(s) - 1)
  BY <1>1, <1>2 DEF TamTCB
<1> DEFINE m == memory
           mm == memory'
<1>5. mm = Escribir(m, s, f) /\ r.baseAddr + d \in DOMAIN m
  BY <1>1, <1>3
<1> HIDE DEF m, mm
<1>6. mm[r.baseAddr + d] = m[r.baseAddr + d]
  BY <1>2, <1>3, <1>4, <1>5, EscribirAparte
<1> QED BY <1>6 DEF m, mm

(* So the TCB is a TCB as before, and the rest stays. *)
LEMMA ContenidoEnviar ==
  ASSUME TareasEscritas, InvContenido, InvMemoria', NEW t \in Trips, EnviarTarea(t)
  PROVE  InvContenido'
<1> DEFINE p == PatotaDe[t]
           n == Len(Tareas[p])
<1>1. PICK s \in find_tcb_segment(t) : Accesible(s) /\ \E k \in 1..(n + 1) : Enviada(t, s, k)
  BY QueEnvia
<1>2. PICK k \in 1..(n + 1) : Enviada(t, s, k)
  BY <1>1
<1>3. segmentos' = segmentos /\ iniciadas' = iniciadas /\ iniciando' = iniciando /\ dicho' = dicho
  BY DEF EnviarTarea, pedidos
<1>4. CASE memory' = memory
  BY <1>3, <1>4, PasoSinTocar
<1>5. CASE k \in 1..n /\ memory' = save_tcb_in_memory(memory, s, t, Inicio[p][k + 1])
  <2>1. /\ s \in segmentos /\ s.type = "TCB" /\ s.id = t /\ s.p = p /\ s.baseAddr \in Nat /\ TcbEn(s)
        /\ Tam(s) = TamTCB /\ s.limit = s.baseAddr + Tam(s) /\ TamMemoria \in Nat
    BY TcbDeUno
  <2>2. DOMAIN memory = 0..(TamMemoria - 1) /\ n \in Nat
    <3>1. p \in Patotas
      BY PatotasOK
    <3> QED BY <3>1, InicioPasos DEF InvContenido, InvMemoria, TypeOK
  <2>3. /\ memory'[s.baseAddr + 0] = Celda("tid", t)
        /\ memory'[s.baseAddr + 1] = Celda("next", Inicio[p][k + 1])
        /\ memory'[s.baseAddr + 2] = memory[s.baseAddr + 2]
        /\ memory'[s.baseAddr + 3] = memory[s.baseAddr + 3]
        /\ memory'[s.baseAddr + 4] = memory[s.baseAddr + 4]
    <3> DEFINE m == memory
               mm == memory'
               x == Inicio[p][k + 1]
    <3>1. /\ s.baseAddr \in Nat /\ s.limit = s.baseAddr + Tam(s) /\ Tam(s) = TamTCB /\ TamMemoria \in Nat
      BY <2>1
    <3>2. DOMAIN m = 0..(TamMemoria - 1) /\ mm = save_tcb_in_memory(m, s, t, x) /\ Accesible(s)
      BY <1>1, <1>5, <2>2
    <3> HIDE DEF m, mm, x
    <3>3. /\ mm[s.baseAddr + 0] = Celda("tid", t)
          /\ mm[s.baseAddr + 1] = Celda("next", x)
          /\ mm[s.baseAddr + 2] = m[s.baseAddr + 2]
          /\ mm[s.baseAddr + 3] = m[s.baseAddr + 3]
          /\ mm[s.baseAddr + 4] = m[s.baseAddr + 4]
      BY <3>1, <3>2, EscribirTCB
    <3> QED BY <3>3 DEF m, mm, x
  <2>4. TcbEn(s)'
    <3>1. k + 1 \in 1..(n + 1)
      BY <1>5, <2>2
    <3> QED BY <1>3, <2>1, <2>3, <3>1 DEF TcbEn
  <2>5. ASSUME NEW r \in segmentos \ {s}, NEW d \in 0..(Tam(r) - 1)
        PROVE  memory'[r.baseAddr + d] = memory[r.baseAddr + d]
    BY <1>5, TcbAparte
  <2>6. SoloEn(s)
    BY <1>3, <2>1, <2>5 DEF SoloEn, InvContenido, EnTramite
  <2> QED BY <2>1, <2>4, <2>6, PasoEscribe
<1> QED BY <1>2, <1>4, <1>5 DEF Enviada

(* The segment that INICIAR_PATOTA puts in the table, where it was reserved. *)
Parte == Partes[iniciando.p][iniciando.i]
Nuevo == [p |-> iniciando.p, nroSegmento |-> UltimoNro(iniciando.p) + 1, type |-> Parte.type, id |-> Parte.id,
          baseAddr |-> iniciando.base, limit |-> iniciando.base + Parte.tam]
LEMMA NuevoForma ==
  ASSUME InvContenido, GuardarSegmento
  PROVE  /\ iniciando # NoInicia /\ iniciando.p \in Patotas /\ iniciando.p \notin iniciadas /\ iniciando.p # Nadie
         /\ iniciando.i \in 1..Len(Partes[iniciando.p]) /\ iniciando.i \in Nat /\ Len(Partes[iniciando.p]) \in Nat
         /\ Nuevo.p = iniciando.p /\ DeParte(Nuevo, Parte) /\ Nuevo.type \in {"PCB", "TCB", "TASK"}
         /\ Nuevo.baseAddr \in Nat /\ Tam(Nuevo) = Parte.tam /\ Tam(Nuevo) \in Nat
         /\ Nuevo.limit = Nuevo.baseAddr + Tam(Nuevo)
         /\ \A s \in segmentos : Aparte(s, Nuevo)
         /\ Parte.type = "PCB" => Parte.tam = TamPCB
         /\ Parte.type = "TCB" => Parte.tam = TamTCB /\ Parte.id \in Miembros(iniciando.p)
         /\ Parte.type = "TASK" => Parte.tam = Len(Texto[iniciando.p]) /\ Parte.id = iniciando.p
         /\ Parte.type = "TASK" <=> iniciando.i = Len(Partes[iniciando.p])
<1> DEFINE p == iniciando.p
           i == iniciando.i
           n == Len(Partes[p])
<1>1. /\ iniciando # NoInicia /\ iniciando.base # -1 /\ p \in Patotas /\ p \notin iniciadas /\ p # Nadie
      /\ iniciando.base \in Nat /\ i \in Nat /\ i \in 1..n
  <2>1. iniciando # NoInicia /\ iniciando.base # -1
    BY DEF GuardarSegmento
  <2>2. iniciando \in [p : pedidas, i : Nat, base : (0..TamMemoria) \cup {-1}] /\ i \in 1..n /\ pedidas \subseteq Patotas
    BY <2>1 DEF InvContenido, InvMemoria, Tramite, TypeOK
  <2>3. iniciando.base \in 0..TamMemoria /\ p \in Patotas
    BY <2>1, <2>2
  <2> QED BY <2>1, <2>2, <2>3, MemoriaOK DEF InvContenido, EnTramite
<1>2. /\ n \in Nat /\ Parte \in UnaParte
      /\ Parte.type = "TCB" => Parte.id \in Miembros(p) /\ Parte.tam = TamTCB
      /\ Parte.type = "TASK" => Parte.id = p /\ Parte.tam = Len(Texto[p])
      /\ Parte.type = "TASK" <=> i = n
  BY <1>1, PartesTipo DEF Parte
<1>3. ASSUME Parte.type = "PCB" PROVE Parte.tam = TamPCB
  <2>1. i # n
    BY <1>2, <1>3
  <2>2. i \notin 2..(n - 1)
    <3> SUFFICES ASSUME i \in 2..(n - 1) PROVE FALSE
      OBVIOUS
    <3>1. \E t \in Miembros(p) : Parte = Inscripto(t)
      BY <1>1, PartesForma DEF Parte
    <3> QED BY <1>3, <3>1 DEF Inscripto
  <2>3. i = 1
    BY <1>1, <1>2, <2>1, <2>2
  <2>4. Partes[p][1] = [type |-> "PCB", id |-> p, tam |-> TamPCB]
    BY <1>1, PartesForma
  <2> QED BY <2>3, <2>4 DEF Parte
<1>4. Parte.tam \in Nat /\ Parte.type \in {"PCB", "TCB", "TASK"}
  BY <1>2 DEF UnaParte
<1>5. /\ Nuevo.p = p /\ Nuevo.type = Parte.type /\ Nuevo.id = Parte.id /\ Nuevo.baseAddr = iniciando.base
      /\ Nuevo.limit = iniciando.base + Parte.tam
  BY DEF Nuevo
<1>6. Tam(Nuevo) = Parte.tam
  BY <1>1, <1>4, <1>5 DEF Tam
<1>7. ASSUME NEW s \in segmentos PROVE Aparte(s, Nuevo)
  <2> DEFINE r == Hueco(iniciando.base, iniciando.base + Parte.tam)
  <2>1. Reservado = {r}
    BY <1>1 DEF Reservado, Parte
  <2>2. Aparte(s, r)
    BY <2>1 DEF InvContenido, InvMemoria, Reparto, Separadas
  <2> QED BY <1>5, <2>2 DEF Aparte, Hueco
<1> HIDE DEF p, i, n
<1> QED BY <1>1, <1>2, <1>3, <1>4, <1>5, <1>6, <1>7 DEF DeParte, p, i, n

(* What GUARDAR writes goes in it. *)
LEMMA GuardaEnNuevo ==
  ASSUME InvContenido, GuardarSegmento
  PROVE  /\ \E celdas : DOMAIN celdas \subseteq 0..(Tam(Nuevo) - 1) /\ memory' = Escribir(memory, Nuevo, celdas)
         /\ Parte.type = "TCB" => memory' = save_tcb_in_memory(memory, Nuevo, Parte.id, 0)
         /\ Parte.type = "TASK" => memory' = save_task_in_memory(memory, Nuevo, Texto[iniciando.p])
<1> DEFINE x == Celda("pid", iniciando.p)
           y == Celda("tasks", iniciando.base + TamPCB + Cardinality(Miembros(iniciando.p)) * TamTCB)
           f == [d \in 0..1 |-> IF d = 0 THEN x ELSE y]
           g == [d \in 0..1 |-> IF d = 0 THEN Celda("tid", Parte.id) ELSE Celda("next", 0)]
           h == [d \in 0..(Tam(Nuevo) - 1) |-> Texto[iniciando.p][d + 1]]
<1>1. /\ Nuevo.type = Parte.type /\ Parte.type \in {"PCB", "TCB", "TASK"} /\ Tam(Nuevo) \in Nat /\ Tam(Nuevo) = Parte.tam
      /\ Parte.type = "PCB" => Parte.tam = TamPCB
      /\ Parte.type = "TCB" => Parte.tam = TamTCB
  BY NuevoForma DEF DeParte
<1>2. memory' = CASE Parte.type = "PCB"  -> Escribir(memory, Nuevo, f)
                  [] Parte.type = "TCB"  -> save_tcb_in_memory(memory, Nuevo, Parte.id, 0)
                  [] Parte.type = "TASK" -> save_task_in_memory(memory, Nuevo, Texto[iniciando.p])
  BY DEF GuardarSegmento, Parte, Nuevo, save_pcb_in_memory
<1>3. /\ save_tcb_in_memory(memory, Nuevo, Parte.id, 0) = Escribir(memory, Nuevo, g)
      /\ save_task_in_memory(memory, Nuevo, Texto[iniciando.p]) = Escribir(memory, Nuevo, h)
  BY DEF save_tcb_in_memory, save_task_in_memory
<1>4. DOMAIN f = 0..1 /\ DOMAIN g = 0..1 /\ DOMAIN h = 0..(Tam(Nuevo) - 1)
  OBVIOUS
<1> HIDE DEF f, g, h
<1>5. CASE Parte.type = "PCB"
  <2>1. memory' = Escribir(memory, Nuevo, f)
    BY <1>2, <1>5
  <2>2. DOMAIN f \subseteq 0..(Tam(Nuevo) - 1)
    BY <1>1, <1>4, <1>5 DEF TamPCB
  <2> QED BY <1>5, <2>1, <2>2
<1>6. CASE Parte.type = "TCB"
  <2>1. memory' = save_tcb_in_memory(memory, Nuevo, Parte.id, 0)
    BY <1>2, <1>6
  <2>2. DOMAIN g \subseteq 0..(Tam(Nuevo) - 1)
    BY <1>1, <1>4, <1>6 DEF TamTCB
  <2> QED BY <1>3, <1>6, <2>1, <2>2
<1>7. CASE Parte.type = "TASK"
  <2>1. memory' = save_task_in_memory(memory, Nuevo, Texto[iniciando.p])
    BY <1>2, <1>7
  <2> QED BY <1>3, <1>4, <1>7, <2>1
<1> QED BY <1>1, <1>5, <1>6, <1>7

(* The segments there were stay. *)
LEMMA GuardarConserva ==
  ASSUME InvContenido, GuardarSegmento, NEW s \in segmentos
  PROVE  Mudado(s, s)
<1>1. PICK f : DOMAIN f \subseteq 0..(Tam(Nuevo) - 1) /\ memory' = Escribir(memory, Nuevo, f)
  BY GuardaEnNuevo
<1>2. ASSUME NEW d \in 0..(Tam(s) - 1) PROVE memory'[s.baseAddr + d] = memory[s.baseAddr + d]
  <2> DEFINE m == memory
             mm == memory'
             r == Nuevo
  <2>1. /\ r.baseAddr \in Nat /\ r.limit = r.baseAddr + Tam(r) /\ Tam(r) \in Nat /\ Aparte(s, r)
        /\ DOMAIN f \subseteq 0..(Tam(r) - 1) /\ mm = Escribir(m, r, f)
    BY <1>1, NuevoForma
  <2>2. /\ s.baseAddr \in Nat /\ s.limit = s.baseAddr + Tam(s) /\ Tam(s) \in Nat /\ s.baseAddr + d \in DOMAIN m
    BY FormaSegmento DEF InvContenido
  <2> HIDE DEF m, mm, r
  <2>3. mm[s.baseAddr + d] = m[s.baseAddr + d]
    BY <2>1, <2>2, EscribirAparte
  <2> QED BY <2>3 DEF m, mm
<1> QED BY <1>2, Intocado

(* The new one holds what its part says. *)
LEMMA NuevoIntacto ==
  ASSUME InvContenido, GuardarSegmento, NEW q, q = Nuevo, Accesible(q)
  PROVE  Intacto(q)' /\ (q.type = "TCB" => memory'[q.baseAddr + 1] = Celda("next", 0))
<1> DEFINE p == iniciando.p
           m == memory
           mm == memory'
<1>1. /\ q.baseAddr \in Nat /\ Tam(q) \in Nat /\ q.limit = q.baseAddr + Tam(q) /\ q.p = p /\ p \in Patotas
      /\ q.type = Parte.type /\ q.id = Parte.id /\ p \notin iniciadas /\ TamMemoria \in Nat
      /\ q.type = "TCB" => Tam(q) = TamTCB /\ q.id \in Miembros(p)
      /\ q.type = "TASK" => Tam(q) = Len(Texto[p])
  BY NuevoForma, MemoriaOK DEF DeParte
<1>2. DOMAIN m = 0..(TamMemoria - 1)
  BY DEF InvContenido, InvMemoria, TypeOK
<1>3. dicho' = dicho
  BY DEF GuardarSegmento
<1>4. ASSUME q.type = "TASK" PROVE TextoEn(q)'
  <2> DEFINE T == Texto[p]
  <2>1. mm = save_task_in_memory(m, q, T)
    BY <1>1, <1>4, GuardaEnNuevo
  <2> HIDE DEF m, mm, T
  <2>2. \A d \in 0..(Tam(q) - 1) : mm[q.baseAddr + d] = T[d + 1]
    BY <1>1, <1>2, <2>1, EscribirTexto
  <2> QED BY <1>1, <2>2 DEF TextoEn, mm, T
<1>5. ASSUME q.type = "TCB"
      PROVE  TcbEn(q)' /\ mm[q.baseAddr + 1] = Celda("next", 0)
  <2> DEFINE x == 0
  <2>1. mm = save_tcb_in_memory(m, q, q.id, x)
    BY <1>1, <1>5, GuardaEnNuevo
  <2> HIDE DEF m, mm, x
  <2>2. mm[q.baseAddr + 0] = Celda("tid", q.id) /\ mm[q.baseAddr + 1] = Celda("next", x)
    BY <1>1, <1>2, <1>5, <2>1, EscribirTCB
  <2>3. Inicio[p][1] = 0 /\ 1 \in 1..(Len(Tareas[p]) + 1)
    <3>1. Inicio[p][1] = 0 /\ Len(Tareas[p]) \in Nat
      BY <1>1, InicioPasos
    <3> QED BY <3>1
  <2>4. dicho'[q.id] = SinDicho
    <3>1. q.id \in Trips /\ PatotaDe[q.id] = p
      BY <1>1, <1>5 DEF Miembros
    <3> QED BY <1>1, <1>3, <3>1 DEF InvContenido, EnTramite
  <2>5. SinDicho.status = "nada"
    BY DEF SinDicho
  <2> QED BY <1>1, <2>2, <2>3, <2>4, <2>5 DEF TcbEn, mm, x
<1> QED BY <1>4, <1>5 DEF Intacto

(* GUARDAR keeps the content of the segments when the new one can be        *)
(* written.                                                                 *)
LEMMA ContenidoGuardar ==
  ASSUME InvContenido, InvMemoria', GuardarSegmento, Holgura'
  PROVE  InvContenido'
<1>1. PICK q, p, i : q = Nuevo /\ p = iniciando.p /\ i = iniciando.i
  OBVIOUS
<1> DEFINE n == Len(Partes[p])
<1>2. /\ segmentos' = segmentos \cup {q} /\ dicho' = dicho
      /\ \/ i = n /\ iniciando' = NoInicia /\ iniciadas' = iniciadas \cup {p}
         \/ i # n /\ iniciando' = [p |-> p, i |-> i + 1, base |-> -1] /\ iniciadas' = iniciadas
  BY <1>1 DEF GuardarSegmento, Nuevo, Parte
<1>3. Accesible(q)
  BY <1>2 DEF Holgura, Accesible
<1>4. /\ p \in Patotas /\ p \notin iniciadas /\ p # Nadie /\ i \in 1..n /\ i \in Nat /\ n \in Nat
      /\ q.p = p /\ q.type = Parte.type /\ q.id = Parte.id
      /\ q.type = "TCB" => Tam(q) = TamTCB /\ q.id \in Miembros(p)
      /\ q.type = "TASK" => Tam(q) = Len(Texto[p]) /\ q.id = p
      /\ iniciando # NoInicia
  BY <1>1, NuevoForma DEF DeParte
<1>5. Intacto(q)'
  BY <1>1, <1>3, NuevoIntacto
<1> HIDE DEF n
<1>6. Avanza
  <2>1. iniciando.p = p /\ iniciando.i = i
    BY <1>1
  <2>2. CASE i = n
    BY <1>2, <2>1, <2>2 DEF Avanza, Escrito
  <2>3. CASE i # n
    <3>1. iniciando' = [p |-> p, i |-> i + 1, base |-> -1] /\ iniciadas' = iniciadas
      BY <1>2, <2>3
    <3>2. iniciando' # NoInicia
      BY <1>4, <3>1 DEF NoInicia
    <3>3. \A j \in Nat : j < i => j < i + 1
      BY <1>4
    <3> QED BY <2>1, <3>1, <3>2, <3>3 DEF Avanza, Escrito
  <2> QED BY <2>2, <2>3
<1>7. Guardado(q)'
  <2>1. CASE i = n
    BY <1>2, <1>4, <2>1 DEF Guardado
  <2>2. CASE i # n
    <3>1. iniciando' = [p |-> p, i |-> i + 1, base |-> -1] /\ iniciando' # NoInicia
      BY <1>2, <1>4, <2>2 DEF NoInicia
    <3>2. Escrito(p, i)'
      BY <1>4, <3>1 DEF Escrito
    <3>3. DeParte(q, Partes[p][i])
      BY <1>1, <1>4 DEF DeParte, Parte
    <3> QED BY <1>4, <3>2, <3>3 DEF Guardado, n
  <2> QED BY <2>1, <2>2
<1>8. ASSUME NEW s \in segmentos PROVE Guardado(s)' /\ Intacto(s)'
  <2>1. Mudado(s, s) /\ s.p \in Patotas
    BY GuardarConserva, FormaSegmento DEF InvContenido
  <2> QED BY <1>2, <1>6, <2>1, Conservado DEF InvContenido
<1>9. ASSUME NEW s \in segmentos, s.type = q.type, s.p = q.p, s.id = q.id PROVE FALSE
  <2>1. s.p = p /\ p \notin iniciadas
    BY <1>4, <1>9
  <2>2. PICK j \in 1..n : Escrito(p, j) /\ DeParte(s, Partes[p][j])
    BY <2>1 DEF InvContenido, Guardados, Guardado, n
  <2>3. j < i /\ j # i
    BY <1>1, <1>4, <2>2 DEF Escrito
  <2>4. Partes[p][j].type = Partes[p][i].type /\ Partes[p][j].id = Partes[p][i].id
    BY <1>1, <1>4, <1>9, <2>2 DEF DeParte, Parte
  <2> QED BY <1>4, <2>3, <2>4, PartesDistintas DEF n
<1>10. Guardados'
  <2>1. \A s, r \in segmentos : s.type = r.type /\ s.p = r.p /\ s.id = r.id => s = r
    BY DEF InvContenido, Guardados
  <2> QED BY <1>2, <1>7, <1>8, <1>9, <2>1 DEF Guardados
<1>11. ContenidoIntacto'
  BY <1>2, <1>5, <1>8 DEF ContenidoIntacto, Intacto
<1>12. EnTramite'
  <2>1. iniciando' # NoInicia => iniciando'.p \notin iniciadas'
    BY <1>2, <1>4
  <2> QED BY <1>2, <2>1 DEF InvContenido, EnTramite
<1> QED BY <1>10, <1>11, <1>12 DEF InvContenido

-----------------------------------------------------------------------------
(* The content of the memory *)

(* Every step keeps the invariant ... *)
LEMMA PasoContenido ==
  ASSUME SenialConReserva = FALSE, TareasEscritas, InvContenido, Holgura', [Next]_vars
  PROVE  InvContenido'
<1>1. InvMemoria'
  BY PasoMemoria DEF InvContenido
<1>2. CASE UNCHANGED vars
  BY <1>1, <1>2, PasoSinTocar DEF vars, tablas, pedidos
<1>3. ASSUME NEW p \in Patotas, IniciarPatota(p) PROVE InvContenido'
  <2>1. /\ segmentos' = segmentos /\ memory' = memory /\ dicho' = dicho /\ iniciadas' = iniciadas
        /\ iniciando = NoInicia /\ p \notin pedidas /\ Vive
        /\ iniciando' = iniciando \/ iniciando' = [p |-> p, i |-> 1, base |-> -1]
    BY <1>3 DEF IniciarPatota, tablas
  <2>2. p \notin iniciadas
    BY <2>1 DEF InvContenido, InvMemoria, TypeOK
  <2> QED BY <1>1, <2>1, <2>2, PasoSinTocar
<1>4. ASSUME NEW p \in Patotas, EliminarPatota(p) PROVE InvContenido'
  BY <1>1, <1>4, PasoSinTocar DEF EliminarPatota, tablas
<1>5. ASSUME NEW t \in Trips, EnviarTareaSinTabla(t) PROVE InvContenido'
  BY <1>1, <1>5, PasoSinTocar DEF EnviarTareaSinTabla, tablas, pedidos
<1>6. ASSUME NEW t \in Trips, RecibirEstado(t) \/ RecibirUbicacion(t) \/ EnviarTarea(t) \/ ExpulsarTripulante(t)
      PROVE  InvContenido'
  BY <1>1, <1>6, ContenidoEstado, ContenidoUbicacion, ContenidoEnviar, ContenidoExpulsar
<1>7. ASSUME NEW t \in Trips, PedidoSinSegmento(t) PROVE InvContenido'
  BY <1>1, <1>7, ContenidoMuere DEF PedidoSinSegmento
<1> QED BY <1>1, <1>2, <1>3, <1>4, <1>5, <1>6, <1>7, ContenidoReservar, ContenidoGuardar,
           ContenidoEliminarSegmento, ContenidoCompactar DEF Next

(* ... which holds at the start. *)
LEMMA ContenidoInicial ==
  ASSUME Init
  PROVE  InvContenido
<1>1. segmentos = {} /\ iniciando = NoInicia /\ dicho = [t \in Trips |-> SinDicho]
  BY DEF Init
<1>2. SinDicho = [status |-> SinDicho.status, pos |-> SinDicho.pos]
  BY DEF SinDicho
<1> QED BY <1>1, <1>2, InvInicial DEF InvContenido, Guardados, ContenidoIntacto, EnTramite

(* As long as no segment ends at the end of the memory, every segment keeps *)
(* what was saved in it: the text of the tasks, a next that starts a task   *)
(* or is past the last, and the last status and position reported.          *)
THEOREM ContenidoSiempre ==
  ASSUME SenialConReserva = FALSE, TareasEscritas
  PROVE  Spec /\ []Holgura => []ContenidoIntacto
<1>1. Init => InvContenido
  BY ContenidoInicial
<1>2. InvContenido /\ Holgura' /\ [Next]_vars => InvContenido'
  BY PasoContenido
<1>3. InvContenido => ContenidoIntacto
  BY DEF InvContenido
<1> QED BY <1>1, <1>2, <1>3, PTL DEF Spec

-----------------------------------------------------------------------------
(* Who has a segment, and where it starts *)

(* The TCB of a tripulante of a patota not answered yet is at its first     *)
(* task.                                                                    *)
Comienzo == \A s \in segmentos : s.type = "TCB" /\ s.p \notin iniciadas => memory[s.baseAddr + 1] = Celda("next", 0)
(* Who was not expelled has its TCB, once written, and the text of its      *)
(* tasks; a patota being eliminated has nobody left.                        *)
ConSegmentos(p) == \A t \in Miembros(p) \ bajas : find_tcb_segment(t) # {} /\ find_task_segment(p) # {}
Presentes == Vive =>
  /\ \A p \in iniciadas : ConSegmentos(p)
  /\ \A p \in Patotas : \A j \in 1..Len(Partes[p]) :
       Escrito(p, j) /\ Partes[p][j].type = "TCB" =>
         Partes[p][j].id \in bajas \/ find_tcb_segment(Partes[p][j].id) # {}
  /\ eliminando # Nadie => eliminando \in iniciadas /\ Miembros(eliminando) \subseteq bajas
InvServicio == InvContenido /\ Comienzo /\ Presentes

(* q is a segment there was, and its next the same. *)
SigueIgual(q) ==
  \E s \in segmentos : /\ s.p = q.p /\ s.type = q.type /\ s.id = q.id
                       /\ q.type = "TCB" => memory'[q.baseAddr + 1] = memory[s.baseAddr + 1]
Queda(s) == \E q \in segmentos' : q.p = s.p /\ q.type = s.type /\ q.id = s.id
Igual == \A q \in segmentos' : q.p \in iniciadas => SigueIgual(q)
(* What every operation does but the death and the end of GUARDAR.          *)
Comun ==
  /\ caida' = caida /\ iniciadas' = iniciadas /\ bajas \subseteq bajas'
  /\ \A p \in Patotas : \A j \in Nat \ {0} : Escrito(p, j)' => Escrito(p, j)
  /\ \A q \in segmentos' : SigueIgual(q) \/ q.p \in iniciadas
  /\ \A s \in segmentos : Queda(s) \/ (s.type = "TCB" /\ s.id \in bajas') \/ s.p = eliminando
  /\ Vive => (eliminando' # Nadie => eliminando' \in iniciadas /\ Miembros(eliminando') \subseteq bajas')

(* A segment that keeps its cells keeps its next. *)
LEMMA ConservaSigue ==
  ASSUME InvContenido, NEW q, Conserva(q)
  PROVE  SigueIgual(q)
<1>1. PICK s \in segmentos : Mudado(s, q)
  BY DEF Conserva
<1>2. q.type = "TCB" => memory'[q.baseAddr + 1] = memory[s.baseAddr + 1]
  <2> SUFFICES ASSUME q.type = "TCB" PROVE memory'[q.baseAddr + 1] = memory[s.baseAddr + 1]
    OBVIOUS
  <2>1. Tam(s) = 6
    BY <1>1 DEF Mudado, InvContenido, Guardados, Guardado, TamTCB
  <2>2. 1 \in 0..(Tam(s) - 1)
    BY <2>1
  <2> QED BY <1>1, <2>2 DEF Mudado
<1> QED BY <1>1, <1>2 DEF SigueIgual, Mudado

(* Every member has its part before the text. *)
LEMMA ParteDeMiembro ==
  ASSUME NEW p \in Patotas, NEW t \in Miembros(p)
  PROVE  \E j \in 1..Len(Partes[p]) : j # Len(Partes[p]) /\ Partes[p][j] = Inscripto(t)
<1> DEFINE n == Len(Partes[p])
           M == Miembros(p)
           c == Cardinality({u \in M : u < t})
           j == c + 2
<1>1. Cardinality(M) \in Nat /\ n = Cardinality(M) + 2
  BY PartesForma
<1>2. M \subseteq Nat /\ IsFiniteSet(M)
  <2>1. M \in SUBSET Trips
    BY DEF Miembros
  <2> QED BY <2>1, PatotasOK, FS_Subset
<1>3. t \in M /\ c \in Nat /\ c < Cardinality(M)
  <2>1. t \in M
    OBVIOUS
  <2> HIDE DEF M
  <2> QED BY <1>2, <2>1, MenoresCrecen
<1>4. j \in 2..(n - 1) /\ j \in 1..n /\ j # n /\ j - 2 = c
  <2> DEFINE m == Cardinality(M)
  <2>1. m \in Nat /\ n = m + 2 /\ c \in Nat /\ c < m
    BY <1>1, <1>3
  <2> HIDE DEF m, n, c
  <2> QED BY <2>1
<1>5. PICK v \in M : Partes[p][j] = Inscripto(v) /\ Cardinality({u \in M : u < v}) = c
  <2>1. \A i \in 2..(n - 1) : \E v \in M : Partes[p][i] = Inscripto(v) /\ Cardinality({u \in M : u < v}) = i - 2
    BY PartesForma
  <2> HIDE DEF n, M, c, j
  <2> QED BY <1>4, <2>1
<1>6. v = t
  <2>1. v \in M
    OBVIOUS
  <2> HIDE DEF M
  <2>2. Cardinality({u \in M : u < t}) = Cardinality({u \in M : u < v})
    BY <1>5
  <2> QED BY <1>2, <1>3, <2>1, <2>2, MenoresCrecen
<1> QED BY <1>4, <1>5, <1>6

(* Such a step keeps the invariant. *)
LEMMA PasoComun ==
  ASSUME InvServicio, InvContenido', Comun
  PROVE  InvServicio'
<1>1. Comienzo'
  <2> SUFFICES ASSUME NEW q \in segmentos', q.type = "TCB", q.p \notin iniciadas'
               PROVE  memory'[q.baseAddr + 1] = Celda("next", 0)
    BY DEF Comienzo
  <2>1. q.p \notin iniciadas
    BY DEF Comun
  <2>2. PICK s \in segmentos : /\ s.p = q.p /\ s.type = q.type
                               /\ memory'[q.baseAddr + 1] = memory[s.baseAddr + 1]
    BY <2>1 DEF Comun, SigueIgual
  <2> QED BY <2>1, <2>2 DEF InvServicio, Comienzo
<1>2. Presentes'
  <2> SUFFICES ASSUME Vive'
               PROVE  /\ \A p \in iniciadas' : ConSegmentos(p)'
                      /\ \A p \in Patotas : \A j \in 1..Len(Partes[p]) :
                           Escrito(p, j)' /\ Partes[p][j].type = "TCB" =>
                             Partes[p][j].id \in bajas' \/ find_tcb_segment(Partes[p][j].id)' # {}
                      /\ eliminando' # Nadie => eliminando' \in iniciadas' /\ Miembros(eliminando') \subseteq bajas'
    BY DEF Presentes
  <2>1. /\ Vive /\ iniciadas' = iniciadas /\ bajas \subseteq bajas'
        /\ \A s \in segmentos : Queda(s) \/ (s.type = "TCB" /\ s.id \in bajas') \/ s.p = eliminando
    BY DEF Comun, Vive
  <2>2. /\ \A p \in iniciadas : ConSegmentos(p)
        /\ \A p \in Patotas : \A j \in 1..Len(Partes[p]) :
             Escrito(p, j) /\ Partes[p][j].type = "TCB" =>
               Partes[p][j].id \in bajas \/ find_tcb_segment(Partes[p][j].id) # {}
        /\ eliminando # Nadie => eliminando \in iniciadas /\ Miembros(eliminando) \subseteq bajas
        /\ iniciadas \subseteq Patotas
    BY <2>1 DEF InvServicio, Presentes, InvContenido, InvMemoria, TypeOK
  <2>3. Nadie \notin Patotas
    BY MemoriaOK
  <2>4. ASSUME NEW t \in Trips, t \notin bajas', find_tcb_segment(t) # {}, PatotaDe[t] # eliminando
        PROVE  find_tcb_segment(t)' # {}
    <3>1. PICK s \in segmentos : s.p = PatotaDe[t] /\ s.type = "TCB" /\ s.id = t
      BY <2>4 DEF find_tcb_segment, TablaDe
    <3>2. Queda(s)
      BY <2>1, <2>4, <3>1
    <3> QED BY <3>1, <3>2 DEF Queda, find_tcb_segment, TablaDe
  <2>5. ASSUME NEW p \in iniciadas, NEW t \in Miembros(p), t \notin bajas'
        PROVE  find_tcb_segment(t)' # {} /\ find_task_segment(p)' # {}
    <3>1. p # eliminando /\ t \in Trips /\ PatotaDe[t] = p /\ t \notin bajas
      BY <2>1, <2>2, <2>3, <2>5 DEF Miembros
    <3>2. find_tcb_segment(t) # {} /\ find_task_segment(p) # {}
      BY <2>2, <3>1 DEF ConSegmentos
    <3>3. PICK s \in segmentos : s.p = p /\ s.type = "TASK"
      BY <3>2 DEF find_task_segment, TablaDe
    <3>4. Queda(s)
      BY <2>1, <3>1, <3>3
    <3>5. find_task_segment(p)' # {}
      BY <3>3, <3>4 DEF Queda, find_task_segment, TablaDe
    <3> QED BY <2>4, <2>5, <3>1, <3>2, <3>5
  <2>6. ASSUME NEW p \in Patotas, NEW j \in 1..Len(Partes[p]), Escrito(p, j)', Partes[p][j].type = "TCB",
               Partes[p][j].id \notin bajas'
        PROVE  find_tcb_segment(Partes[p][j].id)' # {}
    <3> DEFINE t == Partes[p][j].id
    <3>1. t \in Miembros(p) /\ Len(Partes[p]) \in Nat
      BY <2>6, PartesTipo
    <3>2. j \in Nat \ {0}
      BY <3>1
    <3>3. Escrito(p, j)
      BY <2>6, <3>2 DEF Comun
    <3>4. p \notin iniciadas
      BY <3>3 DEF Escrito, InvServicio, InvContenido, EnTramite
    <3>5. find_tcb_segment(t) # {}
      BY <2>1, <2>2, <2>6, <3>3
    <3>6. t \in Trips /\ PatotaDe[t] = p /\ p # Nadie
      BY <2>3, <3>1 DEF Miembros
    <3>7. p # eliminando
      BY <2>2, <3>4, <3>6
    <3> HIDE DEF t
    <3>8. find_tcb_segment(t)' # {}
      BY <2>4, <2>6, <3>5, <3>6, <3>7 DEF t
    <3> QED BY <3>8 DEF t
  <2>7. \A p \in iniciadas' : ConSegmentos(p)'
    BY <2>1, <2>5 DEF ConSegmentos
  <2> QED BY <2>1, <2>6, <2>7 DEF Comun
<1> QED BY <1>1, <1>2 DEF InvServicio

(* Steps that touch neither the segments nor the memory. *)
LEMMA SinTocarSigue ==
  ASSUME segmentos' = segmentos, memory' = memory
  PROVE  (\A q \in segmentos' : SigueIgual(q)) /\ (\A s \in segmentos : Queda(s))
BY DEF SigueIgual, Queda

(* The compaction. *)
LEMMA CompactaSigue ==
  ASSUME InvContenido, iniciando.base = -1, segmentos' = memory_compaction.segmentos,
         memory' = memory_compaction.memory
  PROVE  (\A q \in segmentos' : SigueIgual(q)) /\ (\A s \in segmentos : Queda(s))
<1>1. ASSUME NEW q \in segmentos' PROVE SigueIgual(q)
  BY CompactarConserva, ConservaSigue DEF InvContenido
<1>2. ASSUME NEW s \in segmentos PROVE Queda(s)
  <2>1. segmentos' = {Reubicado(segmentos, r) : r \in segmentos}
    BY DEF memory_compaction
  <2>2. PICK q : q = Reubicado(segmentos, s)
    OBVIOUS
  <2>3. q.p = s.p /\ q.type = s.type /\ q.id = s.id
    BY <2>2, ReubicadoEnOrden DEF InvContenido, InvMemoria, Reparto
  <2> QED BY <2>1, <2>2, <2>3 DEF Queda
<1> QED BY <1>1, <1>2

(* A write in the status or the position of a TCB. *)
LEMMA ReporteSigue ==
  ASSUME InvContenido, NEW t \in Trips, NEW s \in find_tcb_segment(t), segmentos' = segmentos,
         \A a \in DOMAIN memory : (\A e \in 2..4 : a # s.baseAddr + e) => memory'[a] = memory[a]
  PROVE  (\A q \in segmentos' : SigueIgual(q)) /\ (\A r \in segmentos : Queda(r))
<1>1. ASSUME NEW q \in segmentos, q.type = "TCB"
      PROVE  memory'[q.baseAddr + 1] = memory[q.baseAddr + 1]
  <2>1. Tam(q) = 6 /\ q.baseAddr \in Nat /\ \A d \in 0..(Tam(q) - 1) : q.baseAddr + d \in DOMAIN memory
    BY <1>1, FormaSegmento DEF InvContenido, Guardados, Guardado, TamTCB
  <2>2. 1 \in 0..(Tam(q) - 1)
    BY <2>1
  <2>3. q.baseAddr + 1 \in DOMAIN memory
    BY <2>1, <2>2
  <2>4. \A e \in 2..4 : q.baseAddr + 1 # s.baseAddr + e
    <3>1. CASE q = s
      BY <2>1, <3>1
    <3>2. CASE q # s
      <4>1. \A e \in 2..4 : e \in 0..5
        OBVIOUS
      <4> QED BY <2>2, <3>2, <4>1, CeldaDeTcb
    <3> QED BY <3>1, <3>2
  <2> QED BY <2>3, <2>4
<1> QED BY <1>1 DEF SigueIgual, Queda

(* Segments given back. *)
LEMMA LiberaSigue ==
  ASSUME InvContenido, NEW T \in SUBSET segmentos, segmentos' = segmentos \ T, memory' = Liberar(memory, T)
  PROVE  (\A q \in segmentos' : SigueIgual(q)) /\ (\A s \in segmentos \ T : Queda(s))
<1>1. ASSUME NEW q \in segmentos' PROVE SigueIgual(q)
  BY LiberarConserva, ConservaSigue DEF InvContenido
<1> QED BY <1>1 DEF Queda

(* Who is written in a task moves its next; the others do not. *)
LEMMA TareaSigue ==
  ASSUME InvContenido, NEW t \in Trips, NEW s \in find_tcb_segment(t), Accesible(s), NEW x,
         segmentos' = segmentos, memory' = save_tcb_in_memory(memory, s, t, x)
  PROVE  /\ memory'[s.baseAddr + 1] = Celda("next", x)
         /\ \A q \in segmentos' : q = s \/ SigueIgual(q)
         /\ \A r \in segmentos : Queda(r)
<1>1. /\ s \in segmentos /\ s.baseAddr \in Nat /\ Tam(s) = TamTCB /\ s.limit = s.baseAddr + Tam(s)
      /\ TamMemoria \in Nat /\ DOMAIN memory = 0..(TamMemoria - 1)
  BY TcbDeUno DEF InvContenido, InvMemoria, TypeOK
<1>2. memory'[s.baseAddr + 1] = Celda("next", x)
  <2> DEFINE m == memory
             mm == memory'
  <2>1. /\ s.baseAddr \in Nat /\ Tam(s) = TamTCB /\ s.limit = s.baseAddr + Tam(s) /\ Accesible(s)
        /\ TamMemoria \in Nat /\ DOMAIN m = 0..(TamMemoria - 1) /\ mm = save_tcb_in_memory(m, s, t, x)
    BY <1>1
  <2> HIDE DEF m, mm
  <2>2. mm[s.baseAddr + 1] = Celda("next", x)
    BY <2>1, EscribirTCB
  <2> QED BY <2>2 DEF mm
<1>3. ASSUME NEW r \in segmentos, r # s PROVE SigueIgual(r)
  <2>1. ASSUME NEW d \in 0..(Tam(r) - 1) PROVE memory'[r.baseAddr + d] = memory[r.baseAddr + d]
    BY <1>3, <2>1, TcbAparte
  <2>2. Conserva(r)
    BY <2>1, Intocado
  <2> QED BY <2>2, ConservaSigue
<1> QED BY <1>2, <1>3 DEF Queda

(* The operations that do not answer a task, nor end INICIAR_PATOTA, keep   *)
(* what there was.                                                          *)
LEMMA PedidosComun ==
  ASSUME InvServicio, segmentos' = segmentos, memory' = memory, caida' = caida, iniciadas' = iniciadas,
         bajas \subseteq bajas', iniciando' = iniciando \/ iniciando'.i = 1,
         eliminando' = eliminando \/ (eliminando' \in iniciadas /\ Miembros(eliminando') \subseteq bajas')
  PROVE  Comun /\ Igual
<1>1. (\A q \in segmentos' : SigueIgual(q)) /\ (\A s \in segmentos : Queda(s))
  BY SinTocarSigue
<1>2. ASSUME NEW p \in Patotas, NEW j \in Nat \ {0}, Escrito(p, j)' PROVE Escrito(p, j)
  <2>1. ~(j < 1)
    OBVIOUS
  <2> QED BY <1>2, <2>1 DEF Escrito
<1>3. Vive => (eliminando' # Nadie => eliminando' \in iniciadas /\ Miembros(eliminando') \subseteq bajas')
  BY DEF InvServicio, Presentes
<1> QED BY <1>1, <1>2, <1>3 DEF Comun, Igual

(* A report. *)
LEMMA ReportesComun ==
  ASSUME InvServicio, NEW t \in Trips, RecibirEstado(t) \/ RecibirUbicacion(t)
  PROVE  Comun /\ Igual
<1>1. /\ segmentos' = segmentos /\ caida' = caida /\ iniciadas' = iniciadas /\ bajas' = bajas
      /\ iniciando' = iniciando /\ eliminando' = eliminando
  BY DEF RecibirEstado, RecibirUbicacion, pedidos
<1>2. \E s \in find_tcb_segment(t) :
        \A a \in DOMAIN memory : (\A e \in 2..4 : a # s.baseAddr + e) => memory'[a] = memory[a]
  <2>1. CASE RecibirEstado(t)
    <3>1. PICK e \in Estados, s \in find_tcb_segment(t) : memory' = [memory EXCEPT ![s.baseAddr + 2] = Celda("status", e)]
      BY <2>1 DEF RecibirEstado
    <3>2. 2 \in 2..4
      OBVIOUS
    <3> QED BY <3>1, <3>2
  <2>2. CASE RecibirUbicacion(t)
    <3>1. PICK pos \in Posiciones, s \in find_tcb_segment(t) :
            memory' = [memory EXCEPT ![s.baseAddr + 3] = Celda("x", pos.x), ![s.baseAddr + 4] = Celda("y", pos.y)]
      BY <2>2 DEF RecibirUbicacion
    <3>2. 3 \in 2..4 /\ 4 \in 2..4
      OBVIOUS
    <3> QED BY <3>1, <3>2
  <2> QED BY <2>1, <2>2
<1>3. (\A q \in segmentos' : SigueIgual(q)) /\ (\A s \in segmentos : Queda(s))
  BY <1>1, <1>2, ReporteSigue DEF InvServicio
<1>4. \A p \in Patotas : \A j \in Nat \ {0} : Escrito(p, j)' => Escrito(p, j)
  BY <1>1 DEF Escrito
<1>5. Vive => (eliminando' # Nadie => eliminando' \in iniciadas /\ Miembros(eliminando') \subseteq bajas')
  BY <1>1 DEF InvServicio, Presentes
<1> QED BY <1>1, <1>3, <1>4, <1>5 DEF Comun, Igual

(* A reservation, with a compaction or without. *)
LEMMA ReservarComun ==
  ASSUME InvServicio, InvMemoria', ReservarSegmento
  PROVE  Comun /\ Igual
<1> DEFINE tam == Partes[iniciando.p][iniciando.i].tam
           c == ParaReservar(tam)
<1>1. iniciando # NoInicia /\ iniciando.base = -1
  BY DEF ReservarSegmento
<1>2. Elegibles(c.libres, tam) # {}
  <2> SUFFICES ASSUME Elegibles(c.libres, tam) = {} PROVE FALSE
    OBVIOUS
  <2>1. Muere("sinLugar")
    BY DEF ReservarSegmento
  <2>2. caida' = "sinLugar"
    BY <2>1 DEF Muere
  <2> QED BY <2>2 DEF InvMemoria, SiempreHayLugar
<1>3. PICK h \in Elegibles(c.libres, tam) : iniciando' = [iniciando EXCEPT !.base = h.baseAddr]
  BY <1>2 DEF ReservarSegmento
<1>4. /\ segmentos' = c.segmentos /\ memory' = c.memory /\ iniciadas' = iniciadas /\ caida' = caida
      /\ bajas' = bajas /\ eliminando' = eliminando
  BY <1>2 DEF ReservarSegmento
<1>5. iniciando'.p = iniciando.p /\ iniciando'.i = iniciando.i
  <2>1. iniciando \in [p : pedidas, i : Nat, base : (0..TamMemoria) \cup {-1}]
    BY <1>1 DEF InvServicio, InvContenido, InvMemoria, Tramite
  <2> QED BY <1>3, <2>1
<1>6. (\A q \in segmentos' : SigueIgual(q)) /\ (\A s \in segmentos : Queda(s))
  <2>1. CASE Elegibles(segmentosLibres, tam) # {}
    <3>1. segmentos' = segmentos /\ memory' = memory
      BY <1>4, <2>1 DEF ParaReservar
    <3> QED BY <3>1, SinTocarSigue
  <2>2. CASE Elegibles(segmentosLibres, tam) = {}
    <3>1. segmentos' = memory_compaction.segmentos /\ memory' = memory_compaction.memory
      BY <1>4, <2>2 DEF ParaReservar
    <3> QED BY <1>1, <3>1, CompactaSigue DEF InvServicio
  <2> QED BY <2>1, <2>2
<1>7. \A p \in Patotas : \A j \in Nat \ {0} : Escrito(p, j)' => Escrito(p, j)
  BY <1>1, <1>5 DEF Escrito
<1>8. Vive => (eliminando' # Nadie => eliminando' \in iniciadas /\ Miembros(eliminando') \subseteq bajas')
  BY <1>4 DEF InvServicio, Presentes
<1> HIDE DEF c, tam
<1> QED BY <1>4, <1>6, <1>7, <1>8 DEF Comun, Igual

(* SIGUSR1. *)
LEMMA CompactarComun ==
  ASSUME SenialConReserva = FALSE, InvServicio, Compactar
  PROVE  Comun /\ Igual
<1>1. /\ segmentos' = memory_compaction.segmentos /\ memory' = memory_compaction.memory
      /\ iniciando' = iniciando /\ iniciadas' = iniciadas /\ iniciando.base = -1 /\ caida' = caida
      /\ bajas' = bajas /\ eliminando' = eliminando
  BY DEF Compactar, pedidos
<1>2. (\A q \in segmentos' : SigueIgual(q)) /\ (\A s \in segmentos : Queda(s))
  BY <1>1, CompactaSigue DEF InvServicio
<1>3. \A p \in Patotas : \A j \in Nat \ {0} : Escrito(p, j)' => Escrito(p, j)
  BY <1>1 DEF Escrito
<1>4. Vive => (eliminando' # Nadie => eliminando' \in iniciadas /\ Miembros(eliminando') \subseteq bajas')
  BY <1>1 DEF InvServicio, Presentes
<1> QED BY <1>1, <1>2, <1>3, <1>4 DEF Comun, Igual

(* EXPULSAR_TRIPULANTE takes the TCB of who is dropped. *)
LEMMA ExpulsarComun ==
  ASSUME InvServicio, NEW t \in Trips, ExpulsarTripulante(t)
  PROVE  Comun /\ Igual
<1> DEFINE T == find_tcb_segment(t)
<1>1. /\ segmentos' = segmentos \ T /\ memory' = Liberar(memory, T)
      /\ iniciando' = iniciando /\ iniciadas' = iniciadas /\ caida' = caida
      /\ bajas' = bajas \cup {t} /\ eliminando' = eliminando
  BY DEF ExpulsarTripulante
<1>2. T \in SUBSET segmentos /\ \A s \in T : s.type = "TCB" /\ s.id \in bajas'
  BY <1>1 DEF find_tcb_segment, TablaDe
<1> HIDE DEF T
<1>3. (\A q \in segmentos' : SigueIgual(q)) /\ (\A s \in segmentos \ T : Queda(s))
  BY <1>1, <1>2, LiberaSigue DEF InvServicio
<1>4. \A p \in Patotas : \A j \in Nat \ {0} : Escrito(p, j)' => Escrito(p, j)
  BY <1>1 DEF Escrito
<1>5. Vive => (eliminando' # Nadie => eliminando' \in iniciadas /\ Miembros(eliminando') \subseteq bajas')
  BY <1>1 DEF InvServicio, Presentes
<1>6. \A s \in segmentos : Queda(s) \/ (s.type = "TCB" /\ s.id \in bajas')
  BY <1>2, <1>3
<1> QED BY <1>1, <1>3, <1>4, <1>5, <1>6 DEF Comun, Igual

(* ELIMINAR_PATOTA takes the segments of its patota only. *)
LEMMA EliminarComun ==
  ASSUME InvServicio, EliminarSegmento
  PROVE  Comun /\ Igual
<1>1. /\ iniciando' = iniciando /\ iniciadas' = iniciadas /\ caida' = caida /\ bajas' = bajas
      /\ eliminando' = eliminando \/ eliminando' = Nadie
  BY DEF EliminarSegmento
<1>2. (\A q \in segmentos' : SigueIgual(q)) /\ (\A s \in segmentos : Queda(s) \/ s.p = eliminando)
  <2>1. CASE TablaDe(eliminando) = {}
    <3>1. segmentos' = segmentos /\ memory' = memory
      BY <2>1 DEF EliminarSegmento
    <3> QED BY <3>1, SinTocarSigue
  <2>2. CASE TablaDe(eliminando) # {}
    <3>1. PICK s \in get_next_segment(eliminando) : segmentos' = segmentos \ {s} /\ memory' = Liberar(memory, {s})
      BY <2>2 DEF EliminarSegmento
    <3>2. {s} \in SUBSET segmentos /\ s.p = eliminando
      BY DEF get_next_segment, TablaDe
    <3>3. (\A q \in segmentos' : SigueIgual(q)) /\ (\A r \in segmentos \ {s} : Queda(r))
      BY <3>1, <3>2, LiberaSigue DEF InvServicio
    <3> QED BY <3>2, <3>3
  <2> QED BY <2>1, <2>2
<1>3. \A p \in Patotas : \A j \in Nat \ {0} : Escrito(p, j)' => Escrito(p, j)
  BY <1>1 DEF Escrito
<1>4. Vive => (eliminando' # Nadie => eliminando' \in iniciadas /\ Miembros(eliminando') \subseteq bajas')
  BY <1>1 DEF InvServicio, Presentes
<1> QED BY <1>1, <1>2, <1>3, <1>4 DEF Comun, Igual

(* An answer moves the next of who asked only. *)
LEMMA EnviarComun ==
  ASSUME TareasEscritas, InvServicio, NEW t \in Trips, EnviarTarea(t)
  PROVE  Comun
<1> DEFINE p == PatotaDe[t]
<1>1. /\ segmentos' = segmentos /\ caida' = caida /\ iniciadas' = iniciadas /\ bajas' = bajas
      /\ iniciando' = iniciando /\ eliminando' = eliminando /\ p \in iniciadas
  BY DEF EnviarTarea, pedidos
<1>2. PICK s \in find_tcb_segment(t) : Accesible(s) /\ \E k \in 1..(Len(Tareas[p]) + 1) : Enviada(t, s, k)
  BY QueEnvia DEF InvServicio
<1>3. PICK k \in 1..(Len(Tareas[p]) + 1) : Enviada(t, s, k)
  BY <1>2
<1>4. (\A q \in segmentos' : SigueIgual(q) \/ q.p \in iniciadas) /\ (\A r \in segmentos : Queda(r))
  <2>1. CASE memory' = memory
    BY <1>1, <2>1, SinTocarSigue
  <2>2. CASE memory' = save_tcb_in_memory(memory, s, t, Inicio[p][k + 1])
    <3>1. (\A q \in segmentos' : q = s \/ SigueIgual(q)) /\ (\A r \in segmentos : Queda(r))
      BY <1>1, <1>2, <2>2, TareaSigue DEF InvServicio
    <3>2. s.p = p
      BY DEF find_tcb_segment, TablaDe
    <3> QED BY <1>1, <3>1, <3>2
  <2> QED BY <1>3, <2>1, <2>2 DEF Enviada
<1>5. \A q \in Patotas : \A j \in Nat \ {0} : Escrito(q, j)' => Escrito(q, j)
  BY <1>1 DEF Escrito
<1>6. Vive => (eliminando' # Nadie => eliminando' \in iniciadas /\ Miembros(eliminando') \subseteq bajas')
  BY <1>1 DEF InvServicio, Presentes
<1> QED BY <1>1, <1>4, <1>5, <1>6 DEF Comun

(* GUARDAR: the segments there were are there, with what they had. *)
LEMMA GuardarSigue ==
  ASSUME InvServicio, GuardarSegmento, NEW s \in segmentos
  PROVE  s \in segmentos' /\ SigueIgual(s) /\ (s.type = "TCB" => memory'[s.baseAddr + 1] = memory[s.baseAddr + 1])
<1>1. Mudado(s, s)
  BY GuardarConserva DEF InvServicio
<1>2. SigueIgual(s)
  BY <1>1, ConservaSigue DEF Conserva, InvServicio
<1>3. s \in segmentos'
  BY DEF GuardarSegmento
<1>4. ASSUME s.type = "TCB" PROVE memory'[s.baseAddr + 1] = memory[s.baseAddr + 1]
  <2>1. Tam(s) = 6
    BY <1>4 DEF InvServicio, InvContenido, Guardados, Guardado, TamTCB
  <2>2. 1 \in 0..(Tam(s) - 1)
    BY <2>1
  <2> QED BY <1>1, <2>2 DEF Mudado
<1> QED BY <1>2, <1>3, <1>4

(* GUARDAR keeps the invariant: with the last part, the text, each member   *)
(* has its TCB.                                                             *)
LEMMA ServicioGuardar ==
  ASSUME InvServicio, InvContenido', GuardarSegmento, Holgura'
  PROVE  InvServicio'
<1>1. PICK q, p, i : q = Nuevo /\ p = iniciando.p /\ i = iniciando.i
  OBVIOUS
<1> DEFINE n == Len(Partes[p])
<1>2. /\ segmentos' = segmentos \cup {q} /\ bajas' = bajas /\ eliminando' = eliminando /\ Vive
      /\ \/ i = n /\ iniciando' = NoInicia /\ iniciadas' = iniciadas \cup {p}
         \/ i # n /\ iniciando' = [p |-> p, i |-> i + 1, base |-> -1] /\ iniciadas' = iniciadas
  BY <1>1 DEF GuardarSegmento, Nuevo, Parte
<1>3. Accesible(q)
  BY <1>2 DEF Holgura, Accesible
<1>4. /\ p \in Patotas /\ p \notin iniciadas /\ p # Nadie /\ i \in 1..n /\ i \in Nat /\ n \in Nat
      /\ q.p = p /\ q.type = Partes[p][i].type /\ q.id = Partes[p][i].id
      /\ q.type = "TCB" => q.id \in Miembros(p)
      /\ q.type = "TASK" <=> i = n
      /\ iniciando # NoInicia
  BY <1>1, NuevoForma DEF InvServicio, DeParte, Parte
<1>5. q.type = "TCB" => memory'[q.baseAddr + 1] = Celda("next", 0)
  BY <1>1, <1>3, NuevoIntacto DEF InvServicio
<1>6. \A s \in segmentos : s.type = "TCB" => memory'[s.baseAddr + 1] = memory[s.baseAddr + 1]
  BY GuardarSigue
<1>7. Comienzo'
  <2> SUFFICES ASSUME NEW r \in segmentos', r.type = "TCB", r.p \notin iniciadas'
               PROVE  memory'[r.baseAddr + 1] = Celda("next", 0)
    BY DEF Comienzo
  <2>1. CASE r = q
    BY <1>5, <2>1
  <2>2. CASE r \in segmentos
    <3>1. r.p \notin iniciadas
      BY <1>2
    <3> QED BY <1>6, <2>2, <3>1 DEF InvServicio, Comienzo
  <2> QED BY <1>2, <2>1, <2>2
<1> HIDE DEF n
<1>8. /\ \A r \in iniciadas : ConSegmentos(r)
      /\ \A r \in Patotas : \A j \in 1..Len(Partes[r]) :
           Escrito(r, j) /\ Partes[r][j].type = "TCB" =>
             Partes[r][j].id \in bajas \/ find_tcb_segment(Partes[r][j].id) # {}
      /\ eliminando # Nadie => eliminando \in iniciadas /\ Miembros(eliminando) \subseteq bajas
  BY <1>2 DEF InvServicio, Presentes
<1>9. \A t : find_tcb_segment(t) # {} => find_tcb_segment(t)' # {}
  BY <1>2 DEF find_tcb_segment, TablaDe
<1>10. ASSUME NEW r \in iniciadas' PROVE ConSegmentos(r)'
  <2>1. CASE r \in iniciadas
    <3>1. find_task_segment(r) # {} => find_task_segment(r)' # {}
      BY <1>2 DEF find_task_segment, TablaDe
    <3> QED BY <1>2, <1>8, <1>9, <2>1, <3>1 DEF ConSegmentos
  <2>2. CASE r \notin iniciadas
    <3>1. r = p /\ i = n
      BY <1>2, <2>2
    <3>2. find_task_segment(p)' # {}
      BY <1>2, <1>4, <3>1 DEF find_task_segment, TablaDe
    <3>3. ASSUME NEW t \in Miembros(p), t \notin bajas PROVE find_tcb_segment(t)' # {}
      <4>1. PICK j \in 1..n : j # n /\ Partes[p][j] = Inscripto(t)
        BY <1>4, ParteDeMiembro DEF n
      <4>2. j < i
        BY <1>4, <3>1, <4>1
      <4>3. Escrito(p, j)
        BY <1>1, <1>4, <4>2 DEF Escrito
      <4>4. Partes[p][j].type = "TCB" /\ Partes[p][j].id = t
        BY <4>1 DEF Inscripto
      <4>5. find_tcb_segment(t) # {}
        BY <1>4, <1>8, <3>3, <4>3, <4>4 DEF n
      <4> QED BY <1>9, <4>5
    <3> QED BY <1>2, <3>1, <3>2, <3>3 DEF ConSegmentos
  <2> QED BY <2>1, <2>2
<1>11. ASSUME NEW r \in Patotas, NEW j \in 1..Len(Partes[r]), Escrito(r, j)', Partes[r][j].type = "TCB"
       PROVE  Partes[r][j].id \in bajas' \/ find_tcb_segment(Partes[r][j].id)' # {}
  <2>1. i # n /\ iniciando' = [p |-> p, i |-> i + 1, base |-> -1] /\ r = p /\ j < i + 1
    BY <1>2, <1>11 DEF Escrito
  <2>2. j \in Nat
    BY <1>4, <2>1 DEF n
  <2>3. CASE j = i
    <3>1. q.type = "TCB" /\ q.p = p /\ q.id = Partes[r][j].id /\ PatotaDe[q.id] = p
      BY <1>4, <1>11, <2>1, <2>3 DEF Miembros
    <3> QED BY <1>2, <3>1 DEF find_tcb_segment, TablaDe
  <2>4. CASE j < i
    <3>1. Escrito(r, j)
      BY <1>1, <1>4, <2>1, <2>4 DEF Escrito
    <3>2. Partes[r][j].id \in bajas \/ find_tcb_segment(Partes[r][j].id) # {}
      BY <1>8, <1>11, <3>1
    <3> QED BY <1>2, <1>9, <3>2
  <2> QED BY <1>4, <2>1, <2>2, <2>3, <2>4
<1>12. Presentes'
  <2>1. eliminando' # Nadie => eliminando' \in iniciadas' /\ Miembros(eliminando') \subseteq bajas'
    BY <1>2, <1>8
  <2> QED BY <1>10, <1>11, <2>1 DEF Presentes
<1> QED BY <1>7, <1>12 DEF InvServicio

(* Nothing is asked of a process that died. *)
LEMMA ServicioMuere ==
  ASSUME InvServicio, InvContenido', NEW causa, Muere(causa), causa # "no"
  PROVE  InvServicio'
<1>1. segmentos' = {} /\ caida' # "no"
  BY DEF Muere
<1> QED BY <1>1 DEF InvServicio, Comienzo, Presentes, Vive

(* Every step keeps the invariant ... *)
LEMMA PasoServicio ==
  ASSUME SenialConReserva = FALSE, TareasEscritas, InvServicio, Holgura', [Next]_vars
  PROVE  InvServicio' /\ InvContenido'
<1>1. InvContenido' /\ InvMemoria'
  BY PasoContenido DEF InvServicio, InvContenido
<1>2. CASE UNCHANGED vars
  <2>1. Comun
    BY <1>2, PedidosComun DEF vars, tablas, pedidos
  <2> QED BY <1>1, <2>1, PasoComun
<1>3. ASSUME NEW p \in Patotas, IniciarPatota(p) PROVE InvServicio'
  <2>1. iniciando' = iniciando \/ iniciando'.i = 1
    BY <1>3 DEF IniciarPatota
  <2>2. Comun
    BY <1>3, <2>1, PedidosComun DEF IniciarPatota, tablas
  <2> QED BY <1>1, <2>2, PasoComun
<1>4. ASSUME NEW p \in Patotas, EliminarPatota(p) PROVE InvServicio'
  <2>1. Comun
    BY <1>4, PedidosComun DEF EliminarPatota, tablas
  <2> QED BY <1>1, <2>1, PasoComun
<1>5. ASSUME NEW t \in Trips, EnviarTareaSinTabla(t) PROVE InvServicio'
  <2>1. Comun
    BY <1>5, PedidosComun DEF EnviarTareaSinTabla, tablas, pedidos
  <2> QED BY <1>1, <2>1, PasoComun
<1>6. ASSUME NEW t \in Trips, RecibirEstado(t) \/ RecibirUbicacion(t) \/ EnviarTarea(t) \/ ExpulsarTripulante(t)
      PROVE  InvServicio'
  <2>1. Comun
    BY <1>6, ReportesComun, EnviarComun, ExpulsarComun
  <2> QED BY <1>1, <2>1, PasoComun
<1>7. ASSUME NEW t \in Trips, PedidoSinSegmento(t) PROVE InvServicio'
  BY <1>1, <1>7, ServicioMuere DEF PedidoSinSegmento
<1>8. ASSUME ReservarSegmento \/ Compactar \/ EliminarSegmento PROVE InvServicio'
  <2>1. Comun
    BY <1>1, <1>8, ReservarComun, CompactarComun, EliminarComun
  <2> QED BY <1>1, <2>1, PasoComun
<1>9. ASSUME GuardarSegmento PROVE InvServicio'
  BY <1>1, <1>9, ServicioGuardar
<1> QED BY <1>1, <1>2, <1>3, <1>4, <1>5, <1>6, <1>7, <1>8, <1>9 DEF Next

(* ... which holds at the start. *)
LEMMA ServicioInicial ==
  ASSUME Init
  PROVE  InvServicio
<1>1. segmentos = {} /\ iniciando = NoInicia /\ iniciadas = {} /\ eliminando = Nadie
  BY DEF Init
<1> QED BY <1>1, ContenidoInicial DEF InvServicio, Comienzo, Presentes, Escrito

-----------------------------------------------------------------------------
(* The promise of ServicioRAM *)

(* What was given is counted by the next of the TCB. *)
Vez(F, m, t) ==
  LET ks == {k \in 0..Len(Tareas[PatotaDe[t]]) : \E s \in F : m[s.baseAddr + 1] = Celda("next", Inicio[s.p][k + 1])}
  IN  IF ks = {} THEN -1 ELSE Min(ks)
LEMMA VezUna ==
  ASSUME NEW t \in Trips, NEW F, NEW m, F # {}, NEW k \in 0..Len(Tareas[PatotaDe[t]]),
         \A s \in F : s.p = PatotaDe[t] /\ m[s.baseAddr + 1] = Celda("next", Inicio[PatotaDe[t]][k + 1])
  PROVE  Vez(F, m, t) = k
<1> DEFINE p == PatotaDe[t]
           n == Len(Tareas[p])
           ks == {j \in 0..n : \E s \in F : m[s.baseAddr + 1] = Celda("next", Inicio[s.p][j + 1])}
<1>1. p \in Patotas /\ n \in Nat
  <2>1. p \in Patotas
    BY PatotasOK
  <2> QED BY <2>1, InicioPasos
<1>2. k \in ks
  BY DEF Celda
<1>3. ASSUME NEW j \in ks PROVE j = k
  <2>1. PICK s \in F : m[s.baseAddr + 1] = Celda("next", Inicio[s.p][j + 1])
    OBVIOUS
  <2>2. Celda("next", Inicio[p][j + 1]) = Celda("next", Inicio[p][k + 1])
    BY <2>1
  <2>3. Inicio[p][j + 1] = Inicio[p][k + 1]
    BY <2>2 DEF Celda
  <2>4. j + 1 \in 1..(n + 1) /\ k + 1 \in 1..(n + 1) /\ j \in Nat /\ k \in Nat
    BY <1>1
  <2>5. Inicio[p][j + 1] \in Nat
    BY <1>1, <2>4, InicioPasos
  <2>6. ~(j + 1 < k + 1) /\ ~(k + 1 < j + 1)
    <3>1. ~(Inicio[p][j + 1] < Inicio[p][k + 1]) /\ ~(Inicio[p][k + 1] < Inicio[p][j + 1])
      BY <2>3, <2>5
    <3> QED BY <1>1, <2>4, <3>1, InicioCrece
  <2> QED BY <2>4, <2>6
<1>4. Vez(F, m, t) = Min(ks)
  BY <1>2 DEF Vez
<1>5. k \in Nat
  BY <1>1
<1> HIDE DEF ks
<1>6. ks = {k}
  BY <1>2, <1>3
<1>7. Min(ks) = k
  BY <1>5, <1>6 DEF Min
<1> QED BY <1>4, <1>7

(* Before a step, it counts the tasks that the TCB says. *)
LEMMA EntregadasSon ==
  ASSUME InvContenido, NEW t \in Trips, NEW s \in find_tcb_segment(t), NEW k \in 0..Len(Tareas[PatotaDe[t]]),
         memory[s.baseAddr + 1] = Celda("next", Inicio[PatotaDe[t]][k + 1])
  PROVE  Entregadas(t) = k
<1>1. s.p = PatotaDe[t] /\ find_tcb_segment(t) = {s}
  BY TcbDeUno
<1> DEFINE F == find_tcb_segment(t)
           m == memory
<1>2. F # {} /\ \A r \in F : r.p = PatotaDe[t] /\ m[r.baseAddr + 1] = Celda("next", Inicio[PatotaDe[t]][k + 1])
  BY <1>1
<1>3. Entregadas(t) = Vez(F, m, t)
  BY DEF Entregadas, Vez
<1> HIDE DEF F, m
<1> QED BY <1>2, <1>3, VezUna

(* After it, those that the TCBs there are say. *)
LEMMA EntregadasSeran ==
  ASSUME NEW t \in Trips, find_tcb_segment(t)' # {}, NEW k \in 0..Len(Tareas[PatotaDe[t]]),
         \A q \in find_tcb_segment(t)' : memory'[q.baseAddr + 1] = Celda("next", Inicio[PatotaDe[t]][k + 1])
  PROVE  Entregadas(t)' = k
<1> DEFINE F == find_tcb_segment(t)'
           m == memory'
<1>1. \A r \in F : r.p = PatotaDe[t]
  BY DEF find_tcb_segment, TablaDe
<1>2. F # {} /\ \A r \in F : r.p = PatotaDe[t] /\ m[r.baseAddr + 1] = Celda("next", Inicio[PatotaDe[t]][k + 1])
  BY <1>1
<1>3. Entregadas(t)' = Vez(F, m, t)
  BY DEF Entregadas, Vez
<1> HIDE DEF F, m
<1> QED BY <1>2, <1>3, VezUna

(* A TCB says how many. *)
LEMMA AlgunaVez ==
  ASSUME InvContenido, NEW t \in Trips, NEW s \in find_tcb_segment(t)
  PROVE  \E k \in 0..Len(Tareas[PatotaDe[t]]) : memory[s.baseAddr + 1] = Celda("next", Inicio[PatotaDe[t]][k + 1])
<1> DEFINE p == PatotaDe[t]
           n == Len(Tareas[p])
<1>1. s.p = p /\ TcbEn(s) /\ p \in Patotas
  BY TcbDeUno
<1>2. n \in Nat
  BY <1>1, InicioPasos
<1>3. PICK k \in 1..(n + 1) : memory[s.baseAddr + 1] = Celda("next", Inicio[p][k])
  BY <1>1 DEF TcbEn
<1>4. k - 1 \in 0..n /\ (k - 1) + 1 = k
  BY <1>2
<1> QED BY <1>3, <1>4

(* Whose next is the same was given the same. *)
LEMMA MismasEntregadas ==
  ASSUME InvContenido, NEW t \in Trips, find_tcb_segment(t)' # {}, \A q \in find_tcb_segment(t)' : SigueIgual(q)
  PROVE  Entregadas(t)' = Entregadas(t)
<1>1. ASSUME NEW q \in find_tcb_segment(t)'
      PROVE  \E s \in find_tcb_segment(t) : memory'[q.baseAddr + 1] = memory[s.baseAddr + 1]
  <2>1. q.p = PatotaDe[t] /\ q.type = "TCB" /\ q.id = t
    BY DEF find_tcb_segment, TablaDe
  <2>2. PICK s \in segmentos : /\ s.p = q.p /\ s.type = q.type /\ s.id = q.id
                               /\ q.type = "TCB" => memory'[q.baseAddr + 1] = memory[s.baseAddr + 1]
    BY DEF SigueIgual
  <2>3. s \in find_tcb_segment(t)
    BY <2>1, <2>2 DEF find_tcb_segment, TablaDe
  <2> QED BY <2>1, <2>2, <2>3
<1>2. PICK s \in find_tcb_segment(t) : TRUE
  BY <1>1
<1>3. find_tcb_segment(t) = {s}
  BY TcbDeUno
<1>4. PICK k \in 0..Len(Tareas[PatotaDe[t]]) : memory[s.baseAddr + 1] = Celda("next", Inicio[PatotaDe[t]][k + 1])
  BY AlgunaVez
<1>5. Entregadas(t) = k
  BY <1>4, EntregadasSon
<1>6. \A q \in find_tcb_segment(t)' : memory'[q.baseAddr + 1] = Celda("next", Inicio[PatotaDe[t]][k + 1])
  BY <1>1, <1>3, <1>4
<1>7. Entregadas(t)' = k
  BY <1>6, EntregadasSeran
<1> QED BY <1>5, <1>7

(* What is seen from ServicioRAM. *)
Dadas == [t \in Trips |-> IF t \in Adentro THEN Entregadas(t) ELSE 0]
Contestada == IF respuesta.a \in bajas THEN SinRespuesta ELSE respuesta

(* Who is in has its TCB. *)
LEMMA AdentroTiene ==
  ASSUME InvServicio', NEW t \in Trips, t \in Adentro'
  PROVE  find_tcb_segment(t)' # {}
<1>1. Vive' /\ PatotaDe[t] \in iniciadas' /\ t \notin bajas'
  BY DEF Adentro
<1>2. t \in Miembros(PatotaDe[t])
  BY DEF Miembros
<1> QED BY <1>1, <1>2 DEF InvServicio, Presentes, ConSegmentos

(* Who was not given a task keeps its count, and who is expelled loses it. *)
LEMMA DadasQuedan ==
  ASSUME InvServicio, InvServicio', Comun, NEW t \in Trips, \A q \in find_tcb_segment(t)' : SigueIgual(q)
  PROVE  Dadas'[t] = IF t \in bajas' THEN 0 ELSE Dadas[t]
<1>1. Vive' = Vive /\ iniciadas' = iniciadas /\ bajas \subseteq bajas'
  BY DEF Comun, Vive
<1>2. Dadas[t] = (IF t \in Adentro THEN Entregadas(t) ELSE 0) /\ Dadas'[t] = (IF t \in Adentro' THEN Entregadas(t)' ELSE 0)
  BY DEF Dadas
<1>3. CASE t \in Adentro'
  <2>1. t \in Adentro /\ t \notin bajas'
    BY <1>1, <1>3 DEF Adentro
  <2>2. Entregadas(t)' = Entregadas(t)
    BY <1>3, AdentroTiene, MismasEntregadas DEF InvServicio
  <2> QED BY <1>2, <1>3, <2>1, <2>2
<1>4. CASE t \notin Adentro'
  <2>1. t \in bajas' \/ t \notin Adentro
    BY <1>1, <1>4 DEF Adentro
  <2> QED BY <1>2, <1>4, <2>1
<1> QED BY <1>3, <1>4

(* The same, of all, when no next was moved. *)
LEMMA DadasIguales ==
  ASSUME InvServicio, InvServicio', Comun, Igual
  PROVE  \A t \in Trips : Dadas'[t] = IF t \in bajas' THEN 0 ELSE Dadas[t]
<1> SUFFICES ASSUME NEW t \in Trips PROVE Dadas'[t] = IF t \in bajas' THEN 0 ELSE Dadas[t]
  OBVIOUS
<1>1. CASE PatotaDe[t] \in iniciadas
  <2>1. \A q \in find_tcb_segment(t)' : q \in segmentos' /\ q.p = PatotaDe[t]
    BY DEF find_tcb_segment, TablaDe
  <2>2. \A q \in find_tcb_segment(t)' : SigueIgual(q)
    BY <1>1, <2>1 DEF Igual
  <2> QED BY <2>2, DadasQuedan
<1>2. CASE PatotaDe[t] \notin iniciadas
  <2>1. t \notin Adentro /\ t \notin Adentro'
    BY <1>2 DEF Adentro, Comun
  <2> QED BY <2>1 DEF Dadas
<1> QED BY <1>1, <1>2

(* An operation about nobody in particular is not seen. *)
LEMMA EsTomar ==
  ASSUME Vive' = Vive, iniciadas' = iniciadas, bajas' = bajas, Contestada' = SinRespuesta,
         \A t \in Trips : Dadas'[t] = IF t \in bajas' THEN 0 ELSE Dadas[t]
  PROVE  [Servicio!Next]_(Servicio!vars)
<1>1. Dadas' = Dadas
  <2>1. ASSUME NEW t \in Trips PROVE Dadas'[t] = Dadas[t]
    <3>1. t \in bajas => Dadas[t] = 0
      BY DEF Dadas, Adentro
    <3> QED BY <3>1
  <2>2. Dadas = [t \in Trips |-> Dadas[t]] /\ Dadas' = [t \in Trips |-> Dadas'[t]]
    BY DEF Dadas
  <2> QED BY <2>1, <2>2
<1>2. Servicio!Tomar
  BY <1>1 DEF Servicio!Tomar, Servicio!Tomada, Servicio!SinRespuesta, Servicio!SinTareas, SinRespuesta, Dadas, Contestada
<1> QED BY <1>2 DEF Servicio!Next

(* A final GUARDAR is SUCCESS. *)
LEMMA EsAceptar ==
  ASSUME NEW p \in Patotas, Vive, Vive', p \notin iniciadas, iniciadas' = iniciadas \cup {p}, bajas' = bajas,
         Contestada' = SinRespuesta, Dadas' = Dadas
  PROVE  [Servicio!Next]_(Servicio!vars)
<1>1. Servicio!Aceptar(p)
  BY DEF Servicio!Aceptar, Servicio!Tomada, Servicio!SinRespuesta, Servicio!SinTareas, SinRespuesta, Dadas, Contestada
<1> QED BY <1>1 DEF Servicio!Next

(* EXPULSAR_TRIPULANTE and ELIMINAR_PATOTA drop whom they are about. *)
LEMMA EsDarDeBaja ==
  ASSUME NEW S, Vive, Vive', iniciadas' = iniciadas, bajas' = bajas \cup S, Contestada' = SinRespuesta,
         \A t \in Trips : Dadas'[t] = IF t \in bajas' THEN 0 ELSE Dadas[t]
  PROVE  Servicio!DarDeBaja(S)
<1>1. Dadas' = [t \in Trips |-> IF t \in S THEN 0 ELSE Dadas[t]]
  <2>1. ASSUME NEW t \in Trips PROVE Dadas'[t] = IF t \in S THEN 0 ELSE Dadas[t]
    <3>1. t \in bajas => Dadas[t] = 0
      BY DEF Dadas, Adentro
    <3> QED BY <3>1
  <2>2. Dadas' = [t \in Trips |-> Dadas'[t]]
    BY DEF Dadas
  <2> QED BY <2>1, <2>2
<1> QED BY <1>1 DEF Servicio!DarDeBaja, Servicio!Tomada, Servicio!SinRespuesta, Servicio!SinTareas, SinRespuesta, Dadas, Contestada

(* The tasks as they are answered. *)
Contadas == [p \in Patotas |-> [k \in DOMAIN Tareas[p] |-> Letras(Tareas[p][k])]]
LEMMA ContadasSon ==
  ASSUME NEW p \in Patotas
  PROVE  /\ Len(Contadas[p]) = Len(Tareas[p]) /\ Len(Tareas[p]) \in Nat
         /\ \A k \in 1..Len(Tareas[p]) : Contadas[p][k] = Letras(Tareas[p][k])
<1> DEFINE n == Len(Tareas[p])
           f == [k \in 1..n |-> Letras(Tareas[p][k])]
<1>1. n \in Nat /\ DOMAIN Tareas[p] = 1..n
  BY PatotasOK
<1>2. Contadas[p] = f
  BY <1>1 DEF Contadas
<1> HIDE DEF n
<1>3. DOMAIN f = 1..n
  OBVIOUS
<1>4. Len(f) = n
  <2> HIDE DEF f
  <2> QED BY <1>1, <1>3
<1> QED BY <1>1, <1>2, <1>4 DEF n

(* An answer to who was not expelled gives its next task, or says that      *)
(* there are no more.                                                       *)
LEMMA EsEntregar ==
  ASSUME TareasEscritas, InvServicio, InvServicio', NEW t \in Trips, EnviarTarea(t), t \notin bajas
  PROVE  Servicio!Entregar(t)
<1> DEFINE p == PatotaDe[t]
           n == Len(Tareas[p])
<1>1. /\ segmentos' = segmentos /\ caida' = caida /\ iniciadas' = iniciadas /\ bajas' = bajas
      /\ p \in iniciadas /\ Vive /\ Vive'
  BY DEF EnviarTarea, pedidos, Vive
<1>2. p \in Patotas /\ n \in Nat
  BY PatotasOK, InicioPasos
<1>3. PICK s \in find_tcb_segment(t) : Accesible(s) /\ \E k \in 1..(n + 1) : Enviada(t, s, k)
  BY QueEnvia DEF InvServicio
<1>4. PICK k \in 1..(n + 1) : Enviada(t, s, k)
  BY <1>3
<1>5. /\ memory[s.baseAddr + 1] = Celda("next", Inicio[p][k])
      /\ \/ k = n + 1 /\ Responde(t, <<>>) /\ memory' = memory
         \/ /\ k \in 1..n /\ Responde(t, Letras(Tareas[p][k]))
            /\ memory' = save_tcb_in_memory(memory, s, t, Inicio[p][k + 1])
  BY <1>4 DEF Enviada
<1>6. t \in Adentro /\ t \in Adentro'
  BY <1>1 DEF Adentro
<1>7. k - 1 \in 0..n /\ (k - 1) + 1 = k /\ k \in Nat
  BY <1>2
<1>8. Dadas[t] = k - 1
  <2>1. Entregadas(t) = k - 1
    BY <1>5, <1>7, EntregadasSon DEF InvServicio
  <2> QED BY <1>6, <2>1 DEF Dadas
<1>9. find_tcb_segment(t) = {s} /\ find_tcb_segment(t)' = {s} /\ s.p = p /\ s.id = t
  <2>1. find_tcb_segment(t) = {s} /\ s.p = p /\ s.id = t
    BY TcbDeUno DEF InvServicio
  <2>2. find_tcb_segment(t)' = find_tcb_segment(t)
    BY <1>1 DEF find_tcb_segment, TablaDe
  <2> QED BY <2>1, <2>2
<1>10. Comun
  BY EnviarComun
<1>11. ASSUME NEW u \in Trips, u # t PROVE Dadas'[u] = Dadas[u]
  <2>1. \A q \in find_tcb_segment(u)' : q \in segmentos' /\ q # s
    BY <1>9, <1>11 DEF find_tcb_segment, TablaDe
  <2>2. \A q \in segmentos' : q = s \/ SigueIgual(q)
    <3>1. CASE memory' = memory
      BY <1>1, <3>1, SinTocarSigue
    <3>2. CASE memory' = save_tcb_in_memory(memory, s, t, Inicio[p][k + 1])
      BY <1>1, <1>3, <3>2, TareaSigue DEF InvServicio
    <3> QED BY <1>5, <3>1, <3>2
  <2>3. \A q \in find_tcb_segment(u)' : SigueIgual(q)
    BY <2>1, <2>2
  <2>4. Dadas'[u] = IF u \in bajas' THEN 0 ELSE Dadas[u]
    BY <1>10, <2>3, DadasQuedan
  <2>5. u \in bajas => Dadas[u] = 0
    BY DEF Dadas, Adentro
  <2> QED BY <1>1, <2>4, <2>5
<1>12. Dadas = [u \in Trips |-> Dadas[u]] /\ Dadas' = [u \in Trips |-> Dadas'[u]]
  BY DEF Dadas
<1>13. Len(Contadas[p]) = n /\ \A j \in 1..n : Contadas[p][j] = Letras(Tareas[p][j])
  BY <1>2, ContadasSon
<1>14. Contestada' = respuesta'
  <2>1. respuesta'.a = t
    BY <1>5 DEF Responde
  <2> QED BY <1>1, <2>1 DEF Contestada
<1>15. CASE k \in 1..n /\ Responde(t, Letras(Tareas[p][k])) /\ memory' = save_tcb_in_memory(memory, s, t, Inicio[p][k + 1])
  <2>1. memory'[s.baseAddr + 1] = Celda("next", Inicio[p][k + 1])
    BY <1>1, <1>3, <1>15, TareaSigue DEF InvServicio
  <2>2. k \in 0..n
    BY <1>2, <1>15
  <2>3. Entregadas(t)' = k
    BY <1>9, <2>1, <2>2, EntregadasSeran
  <2>4. Dadas'[t] = k
    BY <1>6, <2>3 DEF Dadas
  <2>5. Dadas' = [Dadas EXCEPT ![t] = (k - 1) + 1]
    BY <1>7, <1>11, <1>12, <2>4
  <2>6. k - 1 < n
    BY <1>2, <1>15
  <2>7. Contestada' = [a |-> t, tarea |-> Contadas[p][(k - 1) + 1]]
    BY <1>7, <1>13, <1>14, <1>15 DEF Responde
  <2> HIDE DEF n
  <2>8. /\ Dadas[t] < Len(Contadas[p]) /\ Dadas' = [Dadas EXCEPT ![t] = Dadas[t] + 1]
        /\ Contestada' = [a |-> t, tarea |-> Contadas[p][Dadas[t] + 1]]
    BY <1>8, <1>13, <2>5, <2>6, <2>7
  <2> QED BY <1>1, <1>6, <2>8 DEF Servicio!Entregar, Servicio!Adentro, Dadas, Contestada, Contadas, Adentro
<1>16. CASE k = n + 1 /\ Responde(t, <<>>) /\ memory' = memory
  <2>1. memory'[s.baseAddr + 1] = Celda("next", Inicio[p][(k - 1) + 1])
    BY <1>5, <1>7, <1>16
  <2>2. Entregadas(t)' = k - 1
    BY <1>7, <1>9, <2>1, EntregadasSeran
  <2>3. Dadas'[t] = k - 1
    BY <1>6, <2>2 DEF Dadas
  <2>4. Dadas' = Dadas
    BY <1>8, <1>11, <1>12, <2>3
  <2>5. ~(k - 1 < n)
    BY <1>2, <1>16
  <2>6. Contestada' = [a |-> t, tarea |-> <<>>]
    BY <1>14, <1>16 DEF Responde
  <2> HIDE DEF n
  <2>7. ~(Dadas[t] < Len(Contadas[p]))
    BY <1>8, <1>13, <2>5
  <2> QED BY <1>1, <1>6, <2>4, <2>6, <2>7
          DEF Servicio!Entregar, Servicio!Adentro, Servicio!SinTareas, Dadas, Contestada, Contadas, Adentro
<1> QED BY <1>5, <1>15, <1>16

(* The end of INICIAR_PATOTA: whoever comes in was given nothing yet.       *)
LEMMA DadasGuardar ==
  ASSUME InvServicio, InvServicio', GuardarSegmento
  PROVE  Dadas' = Dadas
<1>1. PICK q, p : q = Nuevo /\ p = iniciando.p
  OBVIOUS
<1>2. /\ segmentos' = segmentos \cup {q} /\ bajas' = bajas /\ caida' = caida
      /\ \/ q.type = "TASK" /\ iniciadas' = iniciadas \cup {p}
         \/ iniciadas' = iniciadas
      /\ q.p = p /\ p \notin iniciadas /\ p \in Patotas
  <2>1. /\ segmentos' = segmentos \cup {q} /\ bajas' = bajas /\ caida' = caida
        /\ \/ iniciando.i = Len(Partes[p]) /\ iniciadas' = iniciadas \cup {p}
           \/ iniciadas' = iniciadas
    BY <1>1 DEF GuardarSegmento, Nuevo, Parte
  <2> QED BY <1>1, <2>1, NuevoForma DEF InvServicio, DeParte
<1>3. \A s \in segmentos : SigueIgual(s) /\ (s.type = "TCB" => memory'[s.baseAddr + 1] = memory[s.baseAddr + 1])
  BY GuardarSigue
<1>4. ASSUME NEW t \in Trips PROVE Dadas'[t] = Dadas[t]
  <2>1. Dadas[t] = (IF t \in Adentro THEN Entregadas(t) ELSE 0) /\ Dadas'[t] = (IF t \in Adentro' THEN Entregadas(t)' ELSE 0)
    BY DEF Dadas
  <2>2. CASE t \notin Adentro'
    <3>1. t \notin Adentro
      BY <1>2, <2>2 DEF Adentro, Vive
    <3> QED BY <2>1, <2>2, <3>1
  <2>3. CASE t \in Adentro' /\ PatotaDe[t] \in iniciadas
    <3>1. t \in Adentro
      BY <1>2, <2>3 DEF Adentro, Vive
    <3>2. \A r \in find_tcb_segment(t)' : SigueIgual(r)
      BY <1>2, <1>3, <2>3 DEF find_tcb_segment, TablaDe
    <3>3. Entregadas(t)' = Entregadas(t)
      BY <2>3, <3>2, AdentroTiene, MismasEntregadas DEF InvServicio
    <3> QED BY <2>1, <2>3, <3>1, <3>3
  <2>4. CASE t \in Adentro' /\ PatotaDe[t] \notin iniciadas
    <3>1. PatotaDe[t] = p /\ q.type = "TASK" /\ t \notin Adentro
      BY <1>2, <2>4 DEF Adentro
    <3>2. ASSUME NEW r \in find_tcb_segment(t)' PROVE memory'[r.baseAddr + 1] = Celda("next", 0)
      <4>1. r \in segmentos' /\ r.type = "TCB" /\ r.p = p
        BY <3>1 DEF find_tcb_segment, TablaDe
      <4>2. r \in segmentos
        BY <1>2, <3>1, <4>1
      <4>3. memory[r.baseAddr + 1] = Celda("next", 0)
        BY <1>2, <4>1, <4>2 DEF InvServicio, Comienzo
      <4> QED BY <1>3, <4>1, <4>2, <4>3
    <3>3. Inicio[p][1] = 0 /\ Len(Tareas[p]) \in Nat
      BY <1>2, InicioPasos
    <3>4. 0 \in 0..Len(Tareas[PatotaDe[t]]) /\ Inicio[PatotaDe[t]][0 + 1] = 0
      BY <3>1, <3>3
    <3>5. Entregadas(t)' = 0
      BY <2>4, <3>2, <3>4, AdentroTiene, EntregadasSeran
    <3> QED BY <2>1, <2>4, <3>1, <3>5
  <2> QED BY <2>2, <2>3, <2>4
<1> QED BY <1>4 DEF Dadas

(* A request finds its segments and reads them, unless it is of who was     *)
(* dropped.                                                                 *)
LEMMA EsCaer ==
  ASSUME InvServicio, Holgura, NEW t \in Trips, PedidoSinSegmento(t)
  PROVE  [Servicio!Next]_(Servicio!vars)
<1>1. Vive /\ PatotaDe[t] \in iniciadas /\ Muere("sinSegmento")
  BY DEF PedidoSinSegmento
<1>2. t \in bajas
  <2> SUFFICES ASSUME t \notin bajas PROVE FALSE
    OBVIOUS
  <2>1. t \in Miembros(PatotaDe[t])
    BY DEF Miembros
  <2>2. find_tcb_segment(t) # {} /\ find_task_segment(PatotaDe[t]) # {}
    BY <1>1, <2>1 DEF InvServicio, Presentes, ConSegmentos
  <2>3. \A s \in find_tcb_segment(t) : Accesible(s)
    BY DEF Holgura, find_tcb_segment, TablaDe
  <2> QED BY <2>2, <2>3 DEF PedidoSinSegmento
<1>3. ~Vive' /\ iniciadas' = iniciadas /\ bajas' = bajas /\ respuesta' = SinRespuesta
  BY <1>1 DEF Muere, Vive
<1>4. Dadas' = [u \in Trips |-> 0]
  BY <1>3 DEF Dadas, Adentro
<1>5. Contestada' = SinRespuesta
  BY <1>3 DEF Contestada
<1>6. Servicio!Caer
  BY <1>1, <1>2, <1>3, <1>4, <1>5
     DEF Servicio!Caer, Servicio!Ninguna, Servicio!Tomada, Servicio!SinRespuesta, Servicio!SinTareas, SinRespuesta, Dadas, Contestada
<1> QED BY <1>6 DEF Servicio!Next

(* A tripulante of a patota refused, which has no table, has no tasks. *)
LEMMA EsSinPatota ==
  ASSUME InvServicio, InvServicio', NEW t \in Trips, EnviarTareaSinTabla(t)
  PROVE  [Servicio!Next]_(Servicio!vars)
<1>1. /\ Vive /\ Vive' /\ iniciadas' = iniciadas /\ bajas' = bajas /\ PatotaDe[t] \notin iniciadas
      /\ Responde(t, <<>>)
  BY DEF EnviarTareaSinTabla, pedidos, InvServicio, InvContenido, InvMemoria, TypeOK, Vive
<1>2. Comun /\ Igual
  BY PedidosComun DEF EnviarTareaSinTabla, tablas, pedidos
<1>3. \A u \in Trips : Dadas'[u] = IF u \in bajas' THEN 0 ELSE Dadas[u]
  BY <1>2, DadasIguales
<1>4. CASE t \in bajas
  <2>1. Contestada' = SinRespuesta
    BY <1>1, <1>4 DEF Contestada, Responde
  <2> QED BY <1>1, <1>3, <2>1, EsTomar
<1>5. CASE t \notin bajas
  <2>1. Contestada' = [a |-> t, tarea |-> <<>>]
    BY <1>1, <1>5 DEF Contestada, Responde
  <2>2. Dadas' = Dadas
    <3>1. \A u \in Trips : u \in bajas => Dadas[u] = 0
      BY DEF Dadas, Adentro
    <3>2. \A u \in Trips : Dadas'[u] = Dadas[u]
      BY <1>1, <1>3, <3>1
    <3> QED BY <3>2 DEF Dadas
  <2>3. Servicio!SinPatota(t)
    BY <1>1, <2>1, <2>2 DEF Servicio!SinPatota, Servicio!SinTareas, Dadas, Contestada
  <2> QED BY <2>3 DEF Servicio!Next
<1> QED BY <1>4, <1>5

(* Every step is a step of ServicioRAM, or is not seen from it. *)
LEMMA PasoCumple ==
  ASSUME SenialConReserva = FALSE, TareasEscritas, InvServicio, Holgura, Holgura', [Next]_vars
  PROVE  [Servicio!Next]_(Servicio!vars)
<1>1. InvServicio' /\ InvMemoria'
  BY PasoServicio DEF InvContenido
<1>2. respuesta' = SinRespuesta => Contestada' = SinRespuesta
  BY DEF Contestada
<1>3. ASSUME Comun, Igual, bajas' = bajas, Contestada' = SinRespuesta
      PROVE  [Servicio!Next]_(Servicio!vars)
  <2>1. \A t \in Trips : Dadas'[t] = IF t \in bajas' THEN 0 ELSE Dadas[t]
    BY <1>1, <1>3, DadasIguales
  <2> QED BY <1>3, <2>1, EsTomar DEF Comun, Vive
<1>4. CASE UNCHANGED vars
  <2>1. Dadas' = Dadas /\ Contestada' = Contestada /\ Vive' = Vive /\ iniciadas' = iniciadas /\ bajas' = bajas
    BY <1>4 DEF vars, tablas, pedidos, Dadas, Contestada, Adentro, Vive, Entregadas, find_tcb_segment, TablaDe
  <2> QED BY <2>1 DEF Servicio!vars, Dadas, Contestada
<1>5. ASSUME NEW p \in Patotas, IniciarPatota(p) PROVE [Servicio!Next]_(Servicio!vars)
  <2>1. iniciando' = iniciando \/ iniciando'.i = 1
    BY <1>5 DEF IniciarPatota
  <2>2. Comun /\ Igual
    BY <1>5, <2>1, PedidosComun DEF IniciarPatota, tablas
  <2> QED BY <1>2, <1>3, <1>5, <2>2 DEF IniciarPatota, Calla
<1>6. ASSUME NEW p \in Patotas, EliminarPatota(p) PROVE [Servicio!Next]_(Servicio!vars)
  <2>1. Comun /\ Igual
    BY <1>6, PedidosComun DEF EliminarPatota, tablas
  <2>2. \A t \in Trips : Dadas'[t] = IF t \in bajas' THEN 0 ELSE Dadas[t]
    BY <1>1, <2>1, DadasIguales
  <2>3. /\ Vive /\ Vive' /\ iniciadas' = iniciadas /\ bajas' = bajas \cup {t \in Trips : PatotaDe[t] = p}
        /\ Contestada' = SinRespuesta
    BY <1>2, <1>6 DEF EliminarPatota, Calla, Vive, Miembros
  <2>4. Servicio!DarDeBaja({t \in Trips : PatotaDe[t] = p})
    BY <2>2, <2>3, EsDarDeBaja
  <2> QED BY <2>4 DEF Servicio!Next
<1>7. ASSUME NEW t \in Trips, RecibirEstado(t) \/ RecibirUbicacion(t) PROVE [Servicio!Next]_(Servicio!vars)
  <2>1. Comun /\ Igual
    BY <1>7, ReportesComun
  <2> QED BY <1>2, <1>3, <1>7, <2>1 DEF RecibirEstado, RecibirUbicacion, Calla, pedidos
<1>8. ASSUME NEW t \in Trips, EnviarTarea(t) PROVE [Servicio!Next]_(Servicio!vars)
  <2>1. CASE t \in bajas
    <3>1. Comun
      BY <1>8, EnviarComun
    <3>2. iniciadas' = iniciadas /\ bajas' = bajas /\ segmentos' = segmentos
      BY <1>8 DEF EnviarTarea, pedidos
    <3>3. Contestada' = SinRespuesta
      <4>1. respuesta'.a = t
        BY <1>8 DEF EnviarTarea, Responde
      <4> QED BY <2>1, <3>2, <4>1 DEF Contestada
    <3>4. ASSUME NEW u \in Trips PROVE Dadas'[u] = IF u \in bajas' THEN 0 ELSE Dadas[u]
      <4>1. CASE u \in bajas
        BY <3>2, <4>1 DEF Dadas, Adentro
      <4>2. CASE u \notin bajas
        <5>1. PICK s \in find_tcb_segment(t) : Accesible(s) /\ \E k \in 1..(Len(Tareas[PatotaDe[t]]) + 1) : Enviada(t, s, k)
          BY <1>8, QueEnvia DEF InvServicio
        <5>2. PICK k \in 1..(Len(Tareas[PatotaDe[t]]) + 1) : Enviada(t, s, k)
          BY <5>1
        <5>3. \A q \in segmentos' : q = s \/ SigueIgual(q)
          <6>1. CASE memory' = memory
            BY <3>2, <6>1, SinTocarSigue
          <6>2. CASE memory' = save_tcb_in_memory(memory, s, t, Inicio[PatotaDe[t]][k + 1])
            BY <3>2, <5>1, <6>2, TareaSigue DEF InvServicio
          <6> QED BY <5>2, <6>1, <6>2 DEF Enviada
        <5>4. s.id = t /\ u # t
          BY <2>1, <4>2 DEF find_tcb_segment
        <5>5. \A q \in find_tcb_segment(u)' : q \in segmentos' /\ q # s
          BY <5>4 DEF find_tcb_segment, TablaDe
        <5>6. \A q \in find_tcb_segment(u)' : SigueIgual(q)
          BY <5>3, <5>5
        <5> QED BY <1>1, <3>1, <5>6, DadasQuedan
      <4> QED BY <4>1, <4>2
    <3> QED BY <3>1, <3>2, <3>3, <3>4, EsTomar DEF Comun, Vive
  <2>2. CASE t \notin bajas
    <3>1. Servicio!Entregar(t)
      BY <1>1, <1>8, <2>2, EsEntregar
    <3> QED BY <3>1 DEF Servicio!Next
  <2> QED BY <2>1, <2>2
<1>9. ASSUME NEW t \in Trips, ExpulsarTripulante(t) PROVE [Servicio!Next]_(Servicio!vars)
  <2>1. Comun /\ Igual
    BY <1>9, ExpulsarComun
  <2>2. \A u \in Trips : Dadas'[u] = IF u \in bajas' THEN 0 ELSE Dadas[u]
    BY <1>1, <2>1, DadasIguales
  <2>3. Vive /\ Vive' /\ iniciadas' = iniciadas /\ bajas' = bajas \cup {t} /\ Contestada' = SinRespuesta
    BY <1>2, <1>9 DEF ExpulsarTripulante, Calla, Vive
  <2>4. Servicio!DarDeBaja({t})
    BY <2>2, <2>3, EsDarDeBaja
  <2> QED BY <2>4 DEF Servicio!Next
<1>10. ASSUME ReservarSegmento PROVE [Servicio!Next]_(Servicio!vars)
  <2>1. Comun /\ Igual
    BY <1>1, <1>10, ReservarComun
  <2>2. bajas' = bajas /\ respuesta' = SinRespuesta
    BY <1>10 DEF ReservarSegmento, Muere, Calla
  <2> QED BY <1>2, <1>3, <2>1, <2>2
<1>11. ASSUME EliminarSegmento \/ Compactar PROVE [Servicio!Next]_(Servicio!vars)
  <2>1. Comun /\ Igual
    BY <1>11, EliminarComun, CompactarComun
  <2> QED BY <1>2, <1>3, <1>11, <2>1 DEF EliminarSegmento, Compactar, Calla, pedidos
<1>12. ASSUME GuardarSegmento PROVE [Servicio!Next]_(Servicio!vars)
  <2>1. Dadas' = Dadas
    BY <1>1, <1>12, DadasGuardar
  <2>2. Vive /\ Vive' /\ bajas' = bajas /\ Contestada' = SinRespuesta
    BY <1>2, <1>12 DEF GuardarSegmento, Calla, Vive
  <2>3. PICK p : p = iniciando.p /\ p \in Patotas /\ p \notin iniciadas
    BY <1>12, NuevoForma DEF InvServicio
  <2>4. CASE iniciadas' = iniciadas
    <3>1. \A t \in Trips : Dadas'[t] = IF t \in bajas' THEN 0 ELSE Dadas[t]
      BY <2>1, <2>2 DEF Dadas, Adentro
    <3> QED BY <2>2, <2>4, <3>1, EsTomar
  <2>5. CASE iniciadas' = iniciadas \cup {p}
    BY <2>1, <2>2, <2>3, <2>5, EsAceptar
  <2> QED BY <1>12, <2>3, <2>4, <2>5 DEF GuardarSegmento
<1> QED BY <1>1, <1>4, <1>5, <1>6, <1>7, <1>8, <1>9, <1>10, <1>11, <1>12, EsCaer, EsSinPatota DEF Next

(* The scheme of segments keeps the promise of ServicioRAM, as long as no   *)
(* segment ends at the end of the memory: each tripulante gets the tasks of *)
(* its patota in order, each once, whatever is reserved, moved, written or  *)
(* given back in between, and only a request about who was dropped takes    *)
(* MiRAMHQ down.                                                            *)
THEOREM CumpleSiempre ==
  ASSUME SenialConReserva = FALSE, TareasEscritas
  PROVE  Spec /\ []Holgura => Cumple
<1>1. Init => InvServicio
  BY ServicioInicial
<1>2. Init => Servicio!Init
  <2> SUFFICES ASSUME Init PROVE Servicio!Init
    OBVIOUS
  <2>1. Vive /\ iniciadas = {} /\ bajas = {} /\ respuesta = SinRespuesta
    BY DEF Init, Vive
  <2>2. Dadas = [t \in Trips |-> 0]
    BY <2>1 DEF Dadas, Adentro
  <2> QED BY <2>1, <2>2 DEF Servicio!Init, Servicio!Ninguna, Servicio!SinRespuesta, Servicio!SinTareas, SinRespuesta, Dadas
<1>3. InvServicio /\ Holgura' /\ [Next]_vars => InvServicio'
  BY PasoServicio
<1>4. InvServicio /\ Holgura /\ Holgura' /\ [Next]_vars => [Servicio!Next]_(Servicio!vars)
  BY PasoCumple
<1> QED BY <1>1, <1>2, <1>3, <1>4, PTL DEF Spec, Cumple, Servicio!Spec
=============================================================================
