------------------------------ MODULE Plegados ------------------------------
(***************************************************************************)
(* Lemmas on minima, maxima and folds, used by the proofs about MiRAMHQ and *)
(* i-Mongo-Store.                                                          *)
(* A fold is a recursive function on the subsets of a finite set; these    *)
(* say that there is one, and what its values on 1..k are.  They replace   *)
(* inductions: each argues on the least number for which it would fail.    *)
(***************************************************************************)
EXTENDS Integers, Sequences, FiniteSets, FiniteSetsExt, SequencesExt,
        FiniteSetTheorems, TLAPS

(* A set of naturals with an element has a least one. *)
LEMMA MinimoNat ==
  ASSUME NEW S, S \subseteq Nat, S # {}
  PROVE  \E m \in S : \A u \in S : m <= u
<1> DEFINE menor == {ss \in Nat \X Nat : ss[1] < ss[2]}
<1>1. IsWellFoundedOn(menor, Nat)
  BY NatLessThanWellFounded DEF OpToRel
<1>2. PICK m \in S : \A u \in S : <<u, m>> \notin menor
  <2> HIDE DEF menor
  <2> QED BY <1>1, WFMin
<1>3. ASSUME NEW u \in S PROVE m <= u
  <2>1. <<u, m>> \in Nat \X Nat /\ <<u, m>>[1] = u /\ <<u, m>>[2] = m
    BY Zenon
  <2>2. ~(u < m)
    BY <1>2, <2>1
  <2> QED BY <2>2
<1> QED BY <1>3

(* A finite set of integers with an element has a greatest one, Max. *)
LEMMA MaximoFinito ==
  ASSUME NEW S, S \subseteq Int, IsFiniteSet(S), S # {}
  PROVE  Max(S) \in S /\ \A u \in S : u <= Max(S)
<1> DEFINE Tiene(T) == \E m \in T : \A u \in T : u <= m
           malos == {n \in Nat : \E T \in SUBSET S : T # {} /\ Cardinality(T) = n /\ ~Tiene(T)}
<1>1. malos = {}
  <2> SUFFICES ASSUME malos # {} PROVE FALSE
    OBVIOUS
  <2>1. PICK n \in malos : \A k \in malos : n <= k
    BY MinimoNat
  <2>2. PICK T \in SUBSET S : T # {} /\ Cardinality(T) = n /\ ~Tiene(T)
    OBVIOUS
  <2>3. PICK x \in T : TRUE
    BY <2>2
  <2> DEFINE U == T \ {x}
  <2>4. IsFiniteSet(T) /\ IsFiniteSet(U) /\ Cardinality(U) = n - 1 /\ U \in SUBSET S
    BY <2>2, FS_Subset, FS_RemoveElement
  <2>5. Cardinality(U) \in Nat
    BY <2>4, FS_CardinalityType
  <2>6. U = {} \/ Tiene(U)
    <3>1. n \in Nat /\ ~(n <= n - 1)
      OBVIOUS
    <3>2. n - 1 \notin malos /\ n - 1 \in Nat
      BY <2>1, <2>4, <2>5, <3>1
    <3> QED BY <2>4, <3>2
  <2>7. x \in Int /\ T \subseteq Int
    BY <2>3
  <2>8. CASE U = {}
    <3>1. \A u \in T : u <= x
      BY <2>3, <2>7, <2>8
    <3> QED BY <2>2, <2>3, <3>1
  <2>9. CASE Tiene(U)
    <3>1. PICK m \in U : \A u \in U : u <= m
      BY <2>9
    <3>2. CASE m <= x
      BY <3>1, <3>2, <2>2, <2>3, <2>7
    <3>3. CASE x <= m
      BY <3>1, <3>3, <2>2, <2>3, <2>7
    <3> QED BY <3>1, <3>2, <3>3, <2>7
  <2> QED BY <2>6, <2>8, <2>9
<1>2. Tiene(S)
  <2>1. Cardinality(S) \in Nat
    BY FS_CardinalityType
  <2> QED BY <1>1, <2>1
<1> QED BY <1>2 DEF Max

(* The greatest of the first naturals, and what is left without it. *)
LEMMA MaximoPrefijo ==
  ASSUME NEW k \in Nat
  PROVE  Max(1..(k + 1)) = k + 1 /\ (1..(k + 1)) \ {k + 1} = 1..k
<1>1. \E m \in 1..(k + 1) : \A u \in 1..(k + 1) : m >= u
  BY k + 1 \in 1..(k + 1)
<1>2. Max(1..(k + 1)) \in 1..(k + 1) /\ Max(1..(k + 1)) >= k + 1
  BY <1>1, k + 1 \in 1..(k + 1) DEF Max
<1> QED BY <1>2

(* The subsets of 1..n are finite, and lose one element with their Max. *)
LEMMA SubconjuntoPrefijo ==
  ASSUME NEW n \in Nat, NEW T \in SUBSET (1..n)
  PROVE  /\ IsFiniteSet(T) /\ Cardinality(T) \in Nat /\ Cardinality(T) <= n
         /\ Cardinality(T) <= 0 <=> T = {}
         /\ T # {} => /\ Max(T) \in T /\ T \ {Max(T)} \in SUBSET (1..n)
                      /\ Cardinality(T \ {Max(T)}) = Cardinality(T) - 1
<1>1. IsFiniteSet(1..n) /\ Cardinality(1..n) = n
  <2>1. IsFiniteSet(1..n) /\ Cardinality(1..n) = IF 1 > n THEN 0 ELSE n - 1 + 1
    BY FS_Interval
  <2> QED BY <2>1
<1>2. IsFiniteSet(T) /\ Cardinality(T) <= Cardinality(1..n)
  BY <1>1, FS_Subset
<1>3. Cardinality(T) \in Nat
  BY <1>2, FS_CardinalityType
<1>4. Cardinality(T) = 0 <=> T = {}
  BY <1>2, FS_EmptySet
<1>5. ASSUME T # {} PROVE Max(T) \in T
  <2>1. T \subseteq Int
    OBVIOUS
  <2> QED BY <1>2, <1>5, <2>1, MaximoFinito
<1>6. ASSUME T # {} PROVE Cardinality(T \ {Max(T)}) = Cardinality(T) - 1
  BY <1>2, <1>5, <1>6, FS_RemoveElement
<1>7. Cardinality(T) <= n /\ (Cardinality(T) <= 0 <=> T = {})
  BY <1>1, <1>2, <1>3, <1>4
<1>8. T \ {Max(T)} \in SUBSET (1..n)
  OBVIOUS
<1> QED BY <1>2, <1>3, <1>5, <1>6, <1>7, <1>8

(* A function on the subsets of 1..n that consumes the greatest of each     *)
(* exists, whatever function F it applies.                                  *)
Cerrada(F, R, n) == \A r \in R, i \in 1..n : F[<<r, i>>] \in R
Pliega(g, n, b, F) == \A T \in SUBSET (1..n) :
  g[T] = IF T = {} THEN b ELSE F[<<g[T \ {Max(T)}], Max(T)>>]
LEMMA ExistePliegue ==
  ASSUME NEW n \in Nat, NEW R, NEW b \in R, NEW F, Cerrada(F, R, n)
  PROVE  \E g \in [SUBSET (1..n) -> R] : Pliega(g, n, b, F)
<1> DEFINE D(k) == {T \in SUBSET (1..n) : Cardinality(T) <= k}
           Sigue(g, T) == IF T = {} THEN b ELSE F[<<g[T \ {Max(T)}], Max(T)>>]
           Bien(g, k) == g \in [D(k) -> R] /\ \A T \in D(k) : g[T] = Sigue(g, T)
           malos == {k \in Nat : ~\E g : Bien(g, k)}
<1>1. ASSUME NEW T \in SUBSET (1..n)
      PROVE  IsFiniteSet(T) /\ Cardinality(T) \in Nat /\ Cardinality(T) <= n
  BY SubconjuntoPrefijo
<1>2. ASSUME NEW T \in SUBSET (1..n), T # {}
      PROVE  /\ Max(T) \in 1..n /\ T \ {Max(T)} \in SUBSET (1..n)
             /\ Cardinality(T \ {Max(T)}) = Cardinality(T) - 1
  BY <1>2, SubconjuntoPrefijo
<1>3. ASSUME NEW T \in SUBSET (1..n) PROVE Cardinality(T) <= 0 <=> T = {}
  BY SubconjuntoPrefijo
<1>4. malos = {}
  <2> SUFFICES ASSUME malos # {} PROVE FALSE
    OBVIOUS
  <2>1. PICK k \in malos : \A j \in malos : k <= j
    BY MinimoNat
  <2>2. k \in Nat
    OBVIOUS
  <2>3. CASE k = 0
    <3> DEFINE g == [T \in D(0) |-> b]
    <3>1. \A T \in D(0) : T = {}
      BY <1>3
    <3>2. Bien(g, 0)
      BY <3>1
    <3> QED BY <2>1, <2>3, <3>2
  <2>4. CASE k # 0
    <3>1. k - 1 \in Nat /\ ~(k <= k - 1)
      BY <2>2, <2>4
    <3>2. k - 1 \notin malos
      BY <2>1, <3>1
    <3>3. PICK g : Bien(g, k - 1)
      BY <3>1, <3>2
    <3> DEFINE h == [T \in D(k) |-> Sigue(g, T)]
    <3>4. ASSUME NEW T \in D(k), T # {}
          PROVE  T \ {Max(T)} \in D(k - 1) /\ T \ {Max(T)} \in D(k) /\ Max(T) \in 1..n
      BY <1>1, <1>2, <3>1, <3>4
    <3>5. ASSUME NEW T \in D(k) PROVE h[T] \in R
      <4>1. CASE T = {}
        BY <4>1
      <4>2. CASE T # {}
        <5>1. g[T \ {Max(T)}] \in R
          BY <3>3, <3>4, <4>2
        <5> QED BY <3>4, <4>2, <5>1 DEF Cerrada
      <4> QED BY <4>1, <4>2
    <3>6. ASSUME NEW T \in D(k - 1) PROVE T \in D(k) /\ h[T] = g[T]
      BY <1>1, <3>1, <3>3
    <3>7. ASSUME NEW T \in D(k) PROVE h[T] = Sigue(h, T)
      <4>1. CASE T = {}
        BY <4>1
      <4>2. CASE T # {}
        <5>1. h[T \ {Max(T)}] = g[T \ {Max(T)}]
          BY <3>4, <3>6, <4>2
        <5> QED BY <4>2, <5>1
      <4> QED BY <4>1, <4>2
    <3>8. Bien(h, k)
      BY <3>5, <3>7
    <3> QED BY <2>1, <3>8
  <2> QED BY <2>3, <2>4
<1>5. PICK g : Bien(g, n)
  BY <1>4
<1>6. D(n) = SUBSET (1..n)
  BY <1>1
<1>7. g \in [SUBSET (1..n) -> R] /\ \A T \in SUBSET (1..n) : g[T] = Sigue(g, T)
  BY <1>5, <1>6
<1> QED BY <1>7 DEF Pliega

(* There is only one: two that agree on T when they agree on T without its  *)
(* Max agree everywhere.                                                    *)
Coinciden(g, h, n) == \A T \in SUBSET (1..n) : g[T] = h[T]
Hereda(g, h, n) == \A T \in SUBSET (1..n) :
  T # {} /\ g[T \ {Max(T)}] = h[T \ {Max(T)}] => g[T] = h[T]
LEMMA PliegueUnico ==
  ASSUME NEW n \in Nat, NEW g, NEW h, g[{}] = h[{}], Hereda(g, h, n)
  PROVE  Coinciden(g, h, n)
<1> DEFINE malos == {k \in Nat : \E T \in SUBSET (1..n) : Cardinality(T) = k /\ g[T] # h[T]}
<1>1. malos = {}
  <2> SUFFICES ASSUME malos # {} PROVE FALSE
    OBVIOUS
  <2>1. PICK k \in malos : \A j \in malos : k <= j
    BY MinimoNat
  <2>2. PICK T \in SUBSET (1..n) : Cardinality(T) = k /\ g[T] # h[T]
    OBVIOUS
  <2> DEFINE U == T \ {Max(T)}
  <2>3. T # {} /\ g[U] # h[U]
    BY <2>2 DEF Hereda
  <2>4. U \in SUBSET (1..n) /\ Cardinality(U) = k - 1 /\ Cardinality(U) \in Nat
    <3>1. U \in SUBSET (1..n) /\ Cardinality(U) = Cardinality(T) - 1
      BY <2>3, SubconjuntoPrefijo
    <3> QED BY <2>2, <3>1, SubconjuntoPrefijo
  <2>5. k - 1 \in malos /\ k \in Nat
    BY <2>3, <2>4
  <2> QED BY <2>1, <2>5
<1> QED BY <1>1, SubconjuntoPrefijo DEF Coinciden

(* In a finite set of naturals no two have as many smaller ones. *)
LEMMA MenoresCrecen ==
  ASSUME NEW S, S \subseteq Nat, IsFiniteSet(S), NEW t \in S
  PROVE  /\ Cardinality({u \in S : u < t}) \in Nat /\ Cardinality({u \in S : u < t}) < Cardinality(S)
         /\ \A v \in S : v # t => Cardinality({u \in S : u < t}) # Cardinality({u \in S : u < v})
<1> DEFINE Menores(x) == {u \in S : u < x}
           n == Cardinality(S)
<1>1. ASSUME NEW x \in S
      PROVE  /\ IsFiniteSet(Menores(x)) /\ Cardinality(Menores(x)) \in Nat
             /\ Cardinality(Menores(x)) < n
  <2>1. Menores(x) \in SUBSET (S \ {x})
    OBVIOUS
  <2>2. IsFiniteSet(S \ {x}) /\ Cardinality(S \ {x}) = n - 1
    BY FS_RemoveElement
  <2>3. IsFiniteSet(Menores(x)) /\ Cardinality(Menores(x)) <= n - 1
    BY <2>1, <2>2, FS_Subset
  <2>4. Cardinality(Menores(x)) \in Nat /\ n \in Nat
    BY <2>3, FS_CardinalityType
  <2> QED BY <2>3, <2>4
<1>2. ASSUME NEW x \in S, NEW v \in S, x < v
      PROVE  Cardinality(Menores(x)) < Cardinality(Menores(v))
  <2>1. Menores(x) \in SUBSET (Menores(v) \ {x}) /\ x \in Menores(v)
    <3>1. x \in Nat /\ v \in Nat /\ \A u \in S : u \in Nat
      OBVIOUS
    <3>2. \A u \in S : u < x => u < v /\ u # x
      BY <1>2, <3>1
    <3> QED BY <1>2, <3>2
  <2>2. IsFiniteSet(Menores(v) \ {x}) /\ Cardinality(Menores(v) \ {x}) = Cardinality(Menores(v)) - 1
    BY <1>1, <2>1, FS_RemoveElement
  <2>3. Cardinality(Menores(x)) <= Cardinality(Menores(v)) - 1
    BY <2>1, <2>2, FS_Subset
  <2> QED BY <1>1, <2>3
<1>3. ASSUME NEW v \in S, v # t PROVE Cardinality(Menores(t)) # Cardinality(Menores(v))
  <2>1. t < v \/ v < t
    BY <1>3
  <2> QED BY <1>1, <1>2, <2>1
<1> QED BY <1>1, <1>3

(* A finite set of naturals put in order: its i-th member is the one that   *)
(* has i - 1 smaller ones.                                                  *)
LEMMA EnOrden ==
  ASSUME NEW S, S \subseteq Nat, IsFiniteSet(S), NEW i \in 1..Cardinality(S)
  PROVE  \E t \in S : Cardinality({u \in S : u < t}) = i - 1
<1> DEFINE Menores(t) == {u \in S : u < t}
           n == Cardinality(S)
           f == [t \in S |-> Cardinality(Menores(t))]
<1>1. ASSUME NEW t \in S
      PROVE  Cardinality(Menores(t)) \in Nat /\ Cardinality(Menores(t)) < n
  BY MenoresCrecen
<1>2. ASSUME NEW t \in S, NEW v \in S, t # v PROVE f[t] # f[v]
  BY <1>2, MenoresCrecen
<1>3. n \in Nat /\ IsFiniteSet(0..(n - 1)) /\ Cardinality(0..(n - 1)) = n
  <2>1. n \in Nat
    BY FS_CardinalityType
  <2> HIDE DEF n
  <2>2. 0 \in Int /\ n - 1 \in Int
    BY <2>1
  <2>3. /\ IsFiniteSet(0..(n - 1))
        /\ Cardinality(0..(n - 1)) = IF 0 > n - 1 THEN 0 ELSE n - 1 - 0 + 1
    BY <2>2, FS_Interval
  <2> QED BY <2>1, <2>3
<1>4. f \in Injection(S, 0..(n - 1))
  <2>1. f \in [S -> 0..(n - 1)]
    BY <1>1, <1>3
  <2> HIDE DEF f
  <2>2. IsInjective(f)
    BY <2>1, <1>2 DEF IsInjective
  <2> QED BY <2>1, <2>2 DEF Injection
<1>5. f \in Surjection(S, 0..(n - 1))
  <2> HIDE DEF f, n
  <2> QED BY <1>3, <1>4, FS_Injection DEF n
<1>6. i - 1 \in 0..(n - 1)
  BY <1>3
<1>7. PICK t \in S : f[t] = i - 1
  <2> HIDE DEF f, n
  <2> QED BY <1>5, <1>6 DEF Surjection
<1> QED BY <1>7

(* A function on the first n naturals is a sequence of length n. *)
LEMMA FuncionEsSucesion ==
  ASSUME NEW C, NEW n \in Nat, NEW f \in [1..n -> C]
  PROVE  f \in Seq(C) /\ Len(f) = n
OBVIOUS

(* The numbers up to the k-th, and to the one before. *)
LEMMA PrefijoDePrefijo ==
  ASSUME NEW n \in Nat, NEW k \in 1..n
  PROVE  k - 1 \in Nat /\ k - 1 + 1 = k /\ k \in 0..n /\ k - 1 \in 0..n /\ 1..k # {}
         /\ 1..k \in SUBSET (1..n)
OBVIOUS

(* Sequences joined by a separator: each but the first adds the separator   *)
(* and itself to what is joined before it.                                  *)
Uniones(a, partes, barra, C) ==
  /\ a \in [0..Len(partes) -> Seq(C)] /\ a[0] = <<>>
  /\ \A k \in 1..Len(partes) :
       a[k] = IF a[k - 1] = <<>> THEN partes[k] ELSE a[k - 1] \o <<barra>> \o partes[k]
Unidas(partes, barra) ==
  FoldLeft(LAMBDA a, b : IF a = <<>> THEN b ELSE a \o <<barra>> \o b, <<>>, partes)
LEMMA UnidasPartes ==
  ASSUME NEW C, NEW barra \in C, NEW partes \in Seq(Seq(C))
  PROVE  \E a : Uniones(a, partes, barra, C) /\ Unidas(partes, barra) = a[Len(partes)]
<1> DEFINE n == Len(partes)
           op(a, b) == IF a = <<>> THEN b ELSE a \o <<barra>> \o b
           R == Seq(C)
           F == [x \in R \X (1..n) |-> op(x[1], partes[x[2]])]
           Sigue(g, T) == IF T = {} THEN <<>> ELSE op(g[T \ {Max(T)}], partes[Max(T)])
           iter == CHOOSE g : g = [T \in SUBSET (1..n) |-> Sigue(g, T)]
<1>1. n \in Nat /\ DOMAIN partes = 1..n /\ (\A i \in 1..n : partes[i] \in R) /\ <<>> \in R
  OBVIOUS
<1>2. ASSUME NEW r \in R, NEW i \in 1..n PROVE op(r, partes[i]) \in R
  <2>1. <<barra>> \in R /\ partes[i] \in R
    BY <1>1
  <2> QED BY <2>1
<1>3. \A r \in R, i \in 1..n : F[<<r, i>>] = op(r, partes[i])
  OBVIOUS
<1> HIDE DEF F, R, op, n
<1>4. PICK g \in [SUBSET (1..n) -> R] : Pliega(g, n, <<>>, F)
  <2>1. Cerrada(F, R, n)
    BY <1>2, <1>3 DEF Cerrada
  <2> QED BY <1>1, <2>1, ExistePliegue
<1>5. ASSUME NEW T \in SUBSET (1..n) PROVE g[T] = Sigue(g, T)
  <2>1. CASE T = {}
    BY <1>4, <2>1 DEF Pliega
  <2>2. CASE T # {}
    <3>1. Max(T) \in 1..n /\ T \ {Max(T)} \in SUBSET (1..n)
      BY <1>1, <2>2, SubconjuntoPrefijo
    <3>2. g[T \ {Max(T)}] \in R
      BY <3>1
    <3>3. g[T] = F[<<g[T \ {Max(T)}], Max(T)>>]
      BY <1>4, <2>2 DEF Pliega
    <3> QED BY <1>3, <2>2, <3>1, <3>2, <3>3
  <2> QED BY <2>1, <2>2
<1>6. g = [T \in SUBSET (1..n) |-> Sigue(g, T)]
  BY <1>5
<1>7. iter = [T \in SUBSET (1..n) |-> Sigue(iter, T)]
  BY <1>6
<1>8. iter[1..n] = g[1..n]
  <2> HIDE DEF iter
  <2>1. \A T \in SUBSET (1..n) : iter[T] = Sigue(iter, T)
    BY <1>7
  <2>2. Coinciden(g, iter, n)
    <3>1. g[{}] = iter[{}]
      BY <1>5, <2>1
    <3>2. ASSUME NEW T \in SUBSET (1..n), T # {}, g[T \ {Max(T)}] = iter[T \ {Max(T)}]
          PROVE  g[T] = iter[T]
      BY <1>5, <2>1, <3>2
    <3>3. Hereda(g, iter, n)
      BY <3>2 DEF Hereda
    <3> QED BY <1>1, <3>1, <3>3, PliegueUnico
  <2> QED BY <2>2 DEF Coinciden
<1>9. Unidas(partes, barra) = iter[1..n]
  BY <1>1 DEF Unidas, FoldLeft, MapThenFoldSet, op
<1> DEFINE a == [k \in 0..n |-> g[1..k]]
<1> HIDE DEF iter, Sigue
<1>10. a \in [0..n -> R]
  <2>1. \A k \in 0..n : 1..k \in SUBSET (1..n)
    BY <1>1
  <2> QED BY <2>1
<1>11. a[0] = <<>>
  <2>1. 1..0 = {}
    OBVIOUS
  <2>2. g[1..0] = Sigue(g, 1..0)
    BY <1>1, <1>5, <2>1
  <2>3. a[0] = g[1..0]
    BY <1>1
  <2> QED BY <2>1, <2>2, <2>3 DEF Sigue
<1>12. ASSUME NEW k \in 1..n PROVE a[k] = op(a[k - 1], partes[k])
  <2>1. k - 1 \in Nat /\ k - 1 + 1 = k /\ k \in 0..n /\ k - 1 \in 0..n /\ 1..k # {}
        /\ 1..k \in SUBSET (1..n)
    BY <1>1, PrefijoDePrefijo
  <2>2. Max(1..(k - 1 + 1)) = k - 1 + 1 /\ (1..(k - 1 + 1)) \ {k - 1 + 1} = 1..(k - 1)
    BY <2>1, MaximoPrefijo
  <2>3. Max(1..k) = k /\ (1..k) \ {k} = 1..(k - 1)
    BY <2>1, <2>2, Zenon
  <2>4. g[1..k] = op(g[(1..k) \ {Max(1..k)}], partes[Max(1..k)])
    BY <1>5, <2>1 DEF Sigue
  <2>5. g[1..k] = op(g[1..(k - 1)], partes[k])
    BY <2>3, <2>4, Zenon
  <2> QED BY <2>1, <2>5
<1>13. a[n] = g[1..n]
  BY <1>1
<1> HIDE DEF a
<1>14. Uniones(a, partes, barra, C)
  BY <1>10, <1>11, <1>12 DEF Uniones, n, R, op
<1> QED BY <1>8, <1>9, <1>13, <1>14 DEF n

(* They are a sequence of the same things. *)
LEMMA UnidasTipo ==
  ASSUME NEW C, NEW barra \in C, NEW partes \in Seq(Seq(C))
  PROVE  Unidas(partes, barra) \in Seq(C)
<1>1. PICK a : Uniones(a, partes, barra, C) /\ Unidas(partes, barra) = a[Len(partes)]
  BY UnidasPartes
<1>2. a[Len(partes)] \in Seq(C)
  <2>1. Len(partes) \in 0..Len(partes)
    OBVIOUS
  <2> QED BY <1>1, <2>1 DEF Uniones
<1> QED BY <1>1, <1>2

(* A sum of sizes along a sequence is the last of its partial sums. *)
Parciales(a, s) ==
  /\ a \in [0..Len(s) -> Nat] /\ a[0] = 0
  /\ \A k \in 1..Len(s) : a[k] = a[k - 1] + s[k].tam
LEMMA SumaDeTams ==
  ASSUME NEW C, NEW s \in Seq(C), \A i \in 1..Len(s) : s[i].tam \in Nat
  PROVE  \E a : Parciales(a, s) /\ FoldLeft(LAMBDA n, x : n + x.tam, 0, s) = a[Len(s)]
<1> DEFINE n == Len(s)
           F == [x \in Nat \X (1..n) |-> x[1] + s[x[2]].tam]
           Sigue(g, T) == IF T = {} THEN 0 ELSE g[T \ {Max(T)}] + s[Max(T)].tam
           iter == CHOOSE g : g = [T \in SUBSET (1..n) |-> Sigue(g, T)]
<1>1. n \in Nat /\ DOMAIN s = 1..n /\ (\A i \in 1..n : s[i].tam \in Nat)
  OBVIOUS
<1>2. \A r \in Nat, i \in 1..n : F[<<r, i>>] = r + s[i].tam
  OBVIOUS
<1> HIDE DEF F, n
<1>3. PICK g \in [SUBSET (1..n) -> Nat] : Pliega(g, n, 0, F)
  <2>1. ASSUME NEW r \in Nat, NEW i \in 1..n PROVE F[<<r, i>>] \in Nat
    <3>1. F[<<r, i>>] = r + s[i].tam /\ s[i].tam \in Nat
      BY <1>1, <1>2
    <3> QED BY <3>1
  <2>2. Cerrada(F, Nat, n)
    BY <2>1 DEF Cerrada
  <2> QED BY <1>1, <2>2, ExistePliegue
<1>4. ASSUME NEW T \in SUBSET (1..n) PROVE g[T] = Sigue(g, T)
  <2>1. CASE T = {}
    BY <1>3, <2>1 DEF Pliega
  <2>2. CASE T # {}
    <3>1. Max(T) \in 1..n /\ T \ {Max(T)} \in SUBSET (1..n)
      BY <1>1, <2>2, SubconjuntoPrefijo
    <3>2. g[T \ {Max(T)}] \in Nat
      BY <3>1
    <3>3. g[T] = F[<<g[T \ {Max(T)}], Max(T)>>]
      BY <1>3, <2>2 DEF Pliega
    <3> QED BY <1>2, <2>2, <3>1, <3>2, <3>3
  <2> QED BY <2>1, <2>2
<1>5. g = [T \in SUBSET (1..n) |-> Sigue(g, T)]
  BY <1>4
<1>6. iter = [T \in SUBSET (1..n) |-> Sigue(iter, T)]
  BY <1>5
<1>7. iter[1..n] = g[1..n]
  <2> HIDE DEF iter
  <2>1. \A T \in SUBSET (1..n) : iter[T] = Sigue(iter, T)
    BY <1>6
  <2>2. Coinciden(g, iter, n)
    <3>1. g[{}] = iter[{}]
      BY <1>4, <2>1
    <3>2. ASSUME NEW T \in SUBSET (1..n), T # {}, g[T \ {Max(T)}] = iter[T \ {Max(T)}]
          PROVE  g[T] = iter[T]
      BY <1>4, <2>1, <3>2
    <3>3. Hereda(g, iter, n)
      BY <3>2 DEF Hereda
    <3> QED BY <1>1, <3>1, <3>3, PliegueUnico
  <2> QED BY <2>2 DEF Coinciden
<1>8. FoldLeft(LAMBDA m, x : m + x.tam, 0, s) = iter[1..n]
  BY <1>1 DEF FoldLeft, MapThenFoldSet
<1> DEFINE a == [k \in 0..n |-> g[1..k]]
<1> HIDE DEF iter, Sigue
<1>9. a \in [0..n -> Nat]
  <2>1. \A k \in 0..n : 1..k \in SUBSET (1..n)
    BY <1>1
  <2> QED BY <2>1
<1>10. a[0] = 0
  <2>1. 1..0 = {}
    OBVIOUS
  <2>2. g[1..0] = Sigue(g, 1..0)
    BY <1>1, <1>4, <2>1
  <2>3. a[0] = g[1..0]
    BY <1>1
  <2> QED BY <2>1, <2>2, <2>3 DEF Sigue
<1>11. ASSUME NEW k \in 1..n PROVE a[k] = a[k - 1] + s[k].tam
  <2>1. k - 1 \in Nat /\ k - 1 + 1 = k /\ k \in 0..n /\ k - 1 \in 0..n /\ 1..k # {}
        /\ 1..k \in SUBSET (1..n)
    BY <1>1
  <2>2. Max(1..(k - 1 + 1)) = k - 1 + 1 /\ (1..(k - 1 + 1)) \ {k - 1 + 1} = 1..(k - 1)
    BY <2>1, MaximoPrefijo
  <2>3. Max(1..k) = k /\ (1..k) \ {k} = 1..(k - 1)
    BY <2>1, <2>2, Zenon
  <2>4. g[1..k] = g[(1..k) \ {Max(1..k)}] + s[Max(1..k)].tam
    BY <1>4, <2>1 DEF Sigue
  <2>5. g[1..k] = g[1..(k - 1)] + s[k].tam
    BY <2>3, <2>4, Zenon
  <2> QED BY <2>1, <2>5
<1>12. a[n] = g[1..n]
  BY <1>1
<1> HIDE DEF a
<1>13. Parciales(a, s)
  BY <1>9, <1>10, <1>11 DEF Parciales, n
<1> QED BY <1>7, <1>8, <1>12, <1>13 DEF n

(* Partial sums only grow. *)
LEMMA ParcialesCrecen ==
  ASSUME NEW C, NEW s \in Seq(C), \A i \in 1..Len(s) : s[i].tam \in Nat,
         NEW a, Parciales(a, s), NEW k \in 0..Len(s)
  PROVE  a[k] <= a[Len(s)]
<1> DEFINE n == Len(s)
           malos == {j \in Nat : k + j <= n /\ a[k + j] < a[k]}
<1>1. n \in Nat /\ k \in Nat /\ k <= n
  OBVIOUS
<1> HIDE DEF n
<1>2. \A i \in 0..n : a[i] \in Nat
  BY DEF Parciales, n
<1>3. malos = {}
  <2> SUFFICES ASSUME malos # {} PROVE FALSE
    OBVIOUS
  <2>1. PICK j \in malos : \A i \in malos : j <= i
    BY MinimoNat
  <2>2. j \in Nat /\ k + j <= n /\ a[k + j] < a[k]
    OBVIOUS
  <2>3. j # 0
    BY <1>1, <1>2, <2>2
  <2>4. j - 1 \in Nat /\ ~(j <= j - 1) /\ k + (j - 1) <= n /\ k + (j - 1) = k + j - 1
    BY <1>1, <2>2, <2>3
  <2>5. ~(a[k + (j - 1)] < a[k])
    <3>1. j - 1 \notin malos
      <4> HIDE DEF malos
      <4> QED BY <2>1, <2>4
    <3> QED BY <2>4, <3>1
  <2>6. k + j \in 1..n /\ k + j - 1 \in 0..n /\ k \in 0..n /\ k + j \in 0..n
    BY <1>1, <2>2, <2>3
  <2>7. a[k + j] = a[k + j - 1] + s[k + j].tam /\ s[k + j].tam \in Nat
    BY <2>6 DEF Parciales, n
  <2>8. ~(a[k + j - 1] < a[k])
    BY <2>4, <2>5
  <2> QED BY <1>2, <2>2, <2>6, <2>7, <2>8
<1>4. n - k \in Nat /\ k + (n - k) = n /\ n \in 0..n /\ k \in 0..n
  BY <1>1
<1>5. ~(a[k + (n - k)] < a[k])
  <2>1. k + (n - k) <= n
    BY <1>1
  <2>2. n - k \notin malos
    BY <1>3
  <2> QED BY <1>4, <2>1, <2>2
<1>6. a[n] \in Nat /\ a[k] \in Nat /\ ~(a[n] < a[k])
  BY <1>2, <1>4, <1>5
<1>7. a[k] <= a[n]
  BY <1>6
<1> QED BY <1>7 DEF n

(* The same of the lengths of the sequences of a sequence, with one more    *)
(* for each.                                                                *)
SumaLargos(s) == FoldLeft(LAMBDA n, t : n + Len(t) + 1, 0, s)
Largos(a, s) ==
  /\ a \in [0..Len(s) -> Nat] /\ a[0] = 0
  /\ \A k \in 1..Len(s) : a[k] = a[k - 1] + Len(s[k]) + 1
LEMMA SumaDeLargos ==
  ASSUME NEW C, NEW s \in Seq(Seq(C))
  PROVE  \E a : Largos(a, s) /\ SumaLargos(s) = a[Len(s)]
<1> DEFINE n == Len(s)
           F == [x \in Nat \X (1..n) |-> x[1] + Len(s[x[2]]) + 1]
           Sigue(g, T) == IF T = {} THEN 0 ELSE g[T \ {Max(T)}] + Len(s[Max(T)]) + 1
           iter == CHOOSE g : g = [T \in SUBSET (1..n) |-> Sigue(g, T)]
<1>1. n \in Nat /\ DOMAIN s = 1..n /\ (\A i \in 1..n : Len(s[i]) + 1 \in Nat)
  OBVIOUS
<1>2. \A r \in Nat, i \in 1..n : F[<<r, i>>] = r + Len(s[i]) + 1
  OBVIOUS
<1> HIDE DEF F, n
<1>3. PICK g \in [SUBSET (1..n) -> Nat] : Pliega(g, n, 0, F)
  <2>1. ASSUME NEW r \in Nat, NEW i \in 1..n PROVE F[<<r, i>>] \in Nat
    <3>1. F[<<r, i>>] = r + Len(s[i]) + 1 /\ Len(s[i]) + 1 \in Nat
      BY <1>1, <1>2
    <3> QED BY <3>1
  <2>2. Cerrada(F, Nat, n)
    BY <2>1 DEF Cerrada
  <2> QED BY <1>1, <2>2, ExistePliegue
<1>4. ASSUME NEW T \in SUBSET (1..n) PROVE g[T] = Sigue(g, T)
  <2>1. CASE T = {}
    BY <1>3, <2>1 DEF Pliega
  <2>2. CASE T # {}
    <3>1. Max(T) \in 1..n /\ T \ {Max(T)} \in SUBSET (1..n)
      BY <1>1, <2>2, SubconjuntoPrefijo
    <3>2. g[T \ {Max(T)}] \in Nat
      BY <3>1
    <3>3. g[T] = F[<<g[T \ {Max(T)}], Max(T)>>]
      BY <1>3, <2>2 DEF Pliega
    <3> QED BY <1>2, <2>2, <3>1, <3>2, <3>3
  <2> QED BY <2>1, <2>2
<1>5. g = [T \in SUBSET (1..n) |-> Sigue(g, T)]
  BY <1>4
<1>6. iter = [T \in SUBSET (1..n) |-> Sigue(iter, T)]
  BY <1>5
<1>7. iter[1..n] = g[1..n]
  <2> HIDE DEF iter
  <2>1. \A T \in SUBSET (1..n) : iter[T] = Sigue(iter, T)
    BY <1>6
  <2>2. Coinciden(g, iter, n)
    <3>1. g[{}] = iter[{}]
      BY <1>4, <2>1
    <3>2. ASSUME NEW T \in SUBSET (1..n), T # {}, g[T \ {Max(T)}] = iter[T \ {Max(T)}]
          PROVE  g[T] = iter[T]
      BY <1>4, <2>1, <3>2
    <3>3. Hereda(g, iter, n)
      BY <3>2 DEF Hereda
    <3> QED BY <1>1, <3>1, <3>3, PliegueUnico
  <2> QED BY <2>2 DEF Coinciden
<1>8. SumaLargos(s) = iter[1..n]
  BY <1>1 DEF SumaLargos, FoldLeft, MapThenFoldSet
<1> DEFINE a == [k \in 0..n |-> g[1..k]]
<1> HIDE DEF iter, Sigue
<1>9. a \in [0..n -> Nat]
  <2>1. \A k \in 0..n : 1..k \in SUBSET (1..n)
    BY <1>1
  <2> QED BY <2>1
<1>10. a[0] = 0
  <2>1. 1..0 = {}
    OBVIOUS
  <2>2. g[1..0] = Sigue(g, 1..0)
    BY <1>1, <1>4, <2>1
  <2>3. a[0] = g[1..0]
    BY <1>1
  <2> QED BY <2>1, <2>2, <2>3 DEF Sigue
<1>11. ASSUME NEW k \in 1..n PROVE a[k] = a[k - 1] + Len(s[k]) + 1
  <2>1. k - 1 \in Nat /\ k - 1 + 1 = k /\ k \in 0..n /\ k - 1 \in 0..n /\ 1..k # {}
        /\ 1..k \in SUBSET (1..n)
    BY <1>1, PrefijoDePrefijo
  <2>2. Max(1..(k - 1 + 1)) = k - 1 + 1 /\ (1..(k - 1 + 1)) \ {k - 1 + 1} = 1..(k - 1)
    BY <2>1, MaximoPrefijo
  <2>3. Max(1..k) = k /\ (1..k) \ {k} = 1..(k - 1)
    BY <2>1, <2>2, Zenon
  <2>4. g[1..k] = g[(1..k) \ {Max(1..k)}] + Len(s[Max(1..k)]) + 1
    BY <1>4, <2>1 DEF Sigue
  <2>5. g[1..k] = g[1..(k - 1)] + Len(s[k]) + 1
    BY <2>3, <2>4, Zenon
  <2> QED BY <2>1, <2>5
<1>12. a[n] = g[1..n]
  BY <1>1
<1> HIDE DEF a
<1>13. Largos(a, s)
  BY <1>9, <1>10, <1>11 DEF Largos, n
<1> QED BY <1>7, <1>8, <1>12, <1>13 DEF n

(* And of each of its prefixes. *)
LEMMA SumaDePrefijos ==
  ASSUME NEW C, NEW s \in Seq(Seq(C))
  PROVE  \E a : Largos(a, s) /\ \A k \in 0..Len(s) : SumaLargos(SubSeq(s, 1, k)) = a[k]
<1> DEFINE n == Len(s)
<1>1. n \in Nat /\ \A i \in 1..n : s[i] \in Seq(C)
  OBVIOUS
<1>2. PICK a : Largos(a, s)
  BY SumaDeLargos
<1>3. ASSUME NEW k \in 0..n PROVE SumaLargos(SubSeq(s, 1, k)) = a[k]
  <2>1. SubSeq(s, 1, k) \in Seq(Seq(C)) /\ Len(SubSeq(s, 1, k)) = k
        /\ \A i \in 1..k : SubSeq(s, 1, k)[i] = s[i]
    BY <1>1
  <2>2. PICK q \in Seq(Seq(C)) : q = SubSeq(s, 1, k)
    BY <2>1
  <2>3. Len(q) = k /\ (\A i \in 1..k : q[i] = s[i]) /\ k \in Nat /\ k <= n
    BY <1>1, <2>1, <2>2
  <2>4. PICK b : Largos(b, q) /\ SumaLargos(q) = b[Len(q)]
    BY SumaDeLargos
  <2>5. /\ a[0] = 0 /\ \A i \in 1..n : a[i] = a[i - 1] + Len(s[i]) + 1
        /\ b[0] = 0 /\ \A i \in 1..k : b[i] = b[i - 1] + Len(q[i]) + 1
    BY <1>2, <2>3, <2>4 DEF Largos
  <2> DEFINE malos == {i \in Nat : i <= k /\ a[i] # b[i]}
  <2>6. malos = {}
    <3> SUFFICES ASSUME malos # {} PROVE FALSE
      OBVIOUS
    <3>1. PICK i \in malos : \A j \in malos : i <= j
      BY MinimoNat
    <3>2. i \in Nat /\ i <= k /\ a[i] # b[i]
      OBVIOUS
    <3>3. i # 0
      BY <2>5, <3>2
    <3>4. i - 1 \in Nat /\ i - 1 <= k /\ i \in 1..k /\ i \in 1..n /\ ~(i <= i - 1)
      BY <1>1, <2>3, <3>2, <3>3
    <3>5. a[i - 1] = b[i - 1]
      <4>1. i - 1 \notin malos
        <5> HIDE DEF malos
        <5> QED BY <3>1, <3>4
      <4> QED BY <3>4, <4>1
    <3>6. a[i] = a[i - 1] + Len(s[i]) + 1 /\ b[i] = b[i - 1] + Len(q[i]) + 1 /\ q[i] = s[i]
      BY <2>3, <2>5, <3>4
    <3> QED BY <3>2, <3>5, <3>6
  <2>7. k \notin malos
    BY <2>6
  <2>8. a[k] = b[k]
    BY <2>3, <2>7
  <2> QED BY <2>2, <2>3, <2>4, <2>8
<1> QED BY <1>2, <1>3

(* What is joined, the separator and what is added, each in its place. *)
LEMMA UnidaUna ==
  ASSUME NEW C, NEW barra \in C, NEW x \in Seq(C), NEW y \in Seq(C), NEW z, z = x \o <<barra>> \o y
  PROVE  /\ z \in Seq(C) /\ Len(z) = Len(x) + 1 + Len(y)
         /\ \A i \in 1..Len(x) : z[i] = x[i]
         /\ z[Len(x) + 1] = barra
         /\ \A i \in 1..Len(y) : z[Len(x) + 1 + i] = y[i]
<1> DEFINE w == x \o <<barra>>
<1>1. /\ w \in Seq(C) /\ Len(w) = Len(x) + 1 /\ w[Len(x) + 1] = barra
      /\ \A i \in 1..Len(x) : w[i] = x[i]
  OBVIOUS
<1>2. z = w \o y
  OBVIOUS
<1> HIDE DEF w
<1>3. /\ z \in Seq(C) /\ Len(z) = Len(w) + Len(y)
      /\ \A i \in 1..Len(w) : z[i] = w[i]
      /\ \A i \in 1..Len(y) : z[Len(w) + i] = y[i]
  BY <1>1, <1>2
<1>4. Len(x) \in Nat /\ \A i \in 1..Len(x) : i \in 1..(Len(x) + 1)
  OBVIOUS
<1>5. Len(x) + 1 \in 1..(Len(x) + 1)
  BY <1>4
<1> QED BY <1>1, <1>3, <1>4, <1>5

(* b says where each of the sequences joined starts, when none is empty,    *)
(* and t, that joins the first j, has each there and the separator before   *)
(* the next.                                                                *)
Comienzos(b, partes) ==
  /\ b[1] = 0 /\ \A k \in 1..(Len(partes) + 1) : b[k] \in Nat
  /\ \A k \in 1..Len(partes) : b[k + 1] = b[k] + Len(partes[k]) + 1
EnSuLugar(t, b, partes, barra, j) ==
  /\ Len(t) = b[j] + Len(partes[j])
  /\ \A k \in 1..j :
       /\ b[k] + Len(partes[k]) <= Len(t)
       /\ \A i \in 1..Len(partes[k]) : t[b[k] + i] = partes[k][i]
       /\ k < j => b[k] + Len(partes[k]) + 1 <= Len(t) /\ t[b[k] + Len(partes[k]) + 1] = barra

(* A place after a start, within what was reached, is within it. *)
LEMMA SumaEnRango ==
  ASSUME NEW b \in Nat, NEW l \in Nat, NEW m \in Nat
  PROVE  /\ b + l <= m => \A i \in 1..l : b + i \in 1..m
         /\ b + l + 1 <= m => b + l + 1 \in 1..m
OBVIOUS

(* The next one goes after the separator. *)
LEMMA UnaMasEnSuLugar ==
  ASSUME NEW partes, NEW n \in Nat, Len(partes) = n, \A k \in 1..n : Len(partes[k]) \in Nat,
         NEW barra, NEW b, Comienzos(b, partes), NEW j \in 1..n, j + 1 <= n,
         NEW x, Len(x) \in Nat, EnSuLugar(x, b, partes, barra, j),
         NEW z, Len(z) = Len(x) + 1 + Len(partes[j + 1]),
         \A i \in 1..Len(x) : z[i] = x[i], z[Len(x) + 1] = barra,
         \A i \in 1..Len(partes[j + 1]) : z[Len(x) + 1 + i] = partes[j + 1][i]
  PROVE  EnSuLugar(z, b, partes, barra, j + 1)
<1> DEFINE y == partes[j + 1]
<1>1. j \in Nat /\ 1 <= j
  OBVIOUS
<1>2. j + 1 \in 1..n /\ Len(y) \in Nat
  BY <1>1
<1>3. /\ Len(z) = Len(x) + 1 + Len(y)
      /\ \A i \in 1..Len(x) : z[i] = x[i]
      /\ z[Len(x) + 1] = barra
      /\ \A i \in 1..Len(y) : z[Len(x) + 1 + i] = y[i]
  OBVIOUS
<1> HIDE DEF y
<1>4. b[j + 1] = Len(x) + 1
  <2>1. b[j + 1] = b[j] + Len(partes[j]) + 1
    BY DEF Comienzos
  <2> QED BY <2>1 DEF EnSuLugar
<1>5. ASSUME NEW k \in 1..j
      PROVE  /\ b[k] + Len(partes[k]) + 1 <= Len(z) /\ b[k] + Len(partes[k]) <= Len(z)
             /\ \A i \in 1..Len(partes[k]) : z[b[k] + i] = partes[k][i]
             /\ z[b[k] + Len(partes[k]) + 1] = barra
  <2>1. /\ b[k] + Len(partes[k]) <= Len(x)
        /\ \A i \in 1..Len(partes[k]) : x[b[k] + i] = partes[k][i]
        /\ k < j => b[k] + Len(partes[k]) + 1 <= Len(x) /\ x[b[k] + Len(partes[k]) + 1] = barra
        /\ Len(x) = b[j] + Len(partes[j])
    BY DEF EnSuLugar
  <2>2. k \in 1..n /\ k \in 1..(n + 1) /\ k \in Nat
    BY <1>1, <1>2
  <2>3. b[k] \in Nat /\ Len(partes[k]) \in Nat
    BY <1>1, <2>2 DEF Comienzos
  <2>4. b[k] + Len(partes[k]) + 1 <= Len(z) /\ b[k] + Len(partes[k]) <= Len(z)
    <3> DEFINE lx == Len(x)
               lp == Len(partes[k])
               lz == Len(z)
               bk == b[k]
    <3>1. /\ lx \in Nat /\ lp \in Nat /\ bk \in Nat /\ Len(y) \in Nat /\ lz = lx + 1 + Len(y)
          /\ bk + lp <= lx
      BY <1>2, <1>3, <2>1, <2>3
    <3> HIDE DEF lx, lp, lz, bk
    <3>2. bk + lp + 1 <= lz /\ bk + lp <= lz
      BY <3>1
    <3> QED BY <3>2 DEF lx, lp, lz, bk
  <2>5. ASSUME NEW i \in 1..Len(partes[k]) PROVE z[b[k] + i] = partes[k][i]
    <3>1. b[k] + i \in 1..Len(x)
      BY <2>1, <2>3, SumaEnRango
    <3> QED BY <1>3, <2>1, <3>1
  <2>6. z[b[k] + Len(partes[k]) + 1] = barra
    <3>1. CASE k < j
      <4>1. b[k] + Len(partes[k]) + 1 \in 1..Len(x)
        BY <2>1, <2>3, <3>1, SumaEnRango
      <4> QED BY <1>3, <2>1, <3>1, <4>1
    <3>2. CASE k = j
      <4>1. b[k] + Len(partes[k]) + 1 = Len(x) + 1
        BY <2>1, <3>2
      <4> QED BY <1>3, <4>1
    <3>3. k < j \/ k = j
      BY <1>1, <2>2
    <3> QED BY <3>1, <3>2, <3>3
  <2> QED BY <2>4, <2>5, <2>6
<1>6. /\ Len(z) = b[j + 1] + Len(y) /\ b[j + 1] + Len(y) <= Len(z)
      /\ \A i \in 1..Len(y) : z[b[j + 1] + i] = y[i]
  <2>1. Len(z) = b[j + 1] + Len(y) /\ Len(z) \in Nat
    <3> DEFINE lz == Len(z)
               lx == Len(x)
               ly == Len(y)
    <3>1. lx \in Nat /\ ly \in Nat /\ lz = lx + 1 + ly /\ b[j + 1] = lx + 1
      BY <1>2, <1>3, <1>4
    <3> HIDE DEF lz, lx, ly
    <3>2. lz = b[j + 1] + ly /\ lz \in Nat
      BY <3>1
    <3> QED BY <3>2 DEF lz, ly
  <2>2. \A i \in 1..Len(y) : z[b[j + 1] + i] = y[i]
    BY <1>3, <1>4
  <2>3. b[j + 1] + Len(y) <= Len(z)
    <3>1. Len(z) <= Len(z)
      BY <2>1
    <3> QED BY <2>1, <3>1
  <2> QED BY <2>1, <2>2, <2>3
<1>7. \A k \in 1..(j + 1) : k = j + 1 \/ k \in 1..j
  BY <1>1
<1>8. ~(j + 1 < j + 1)
  BY <1>1
<1> QED BY <1>5, <1>6, <1>7, <1>8 DEF EnSuLugar, y

(* All of them. *)
LEMMA UnidasEnSuLugar ==
  ASSUME NEW C, NEW barra \in C, NEW partes \in Seq(Seq(C)), \A k \in 1..Len(partes) : partes[k] # <<>>,
         NEW b, Comienzos(b, partes), NEW a, Uniones(a, partes, barra, C), NEW j \in 1..Len(partes)
  PROVE  EnSuLugar(a[j], b, partes, barra, j)
<1> DEFINE n == Len(partes)
           malos == {d \in Nat : d + 1 <= n /\ ~EnSuLugar(a[d + 1], b, partes, barra, d + 1)}
<1>1. n \in Nat /\ \A k \in 1..n : partes[k] \in Seq(C) /\ Len(partes[k]) \in Nat
  OBVIOUS
<1>2. /\ \A k \in 0..n : a[k] \in Seq(C)
      /\ a[0] = <<>>
      /\ \A k \in 1..n : a[k] = IF a[k - 1] = <<>> THEN partes[k] ELSE a[k - 1] \o <<barra>> \o partes[k]
  BY DEF Uniones
<1> HIDE DEF n
<1>3. malos = {}
  <2> SUFFICES ASSUME malos # {} PROVE FALSE
    OBVIOUS
  <2>1. PICK d \in malos : \A e \in malos : d <= e
    BY MinimoNat
  <2>2. d \in Nat /\ d + 1 <= n /\ ~EnSuLugar(a[d + 1], b, partes, barra, d + 1)
    OBVIOUS
  <2>3. d + 1 \in 1..n /\ d + 1 - 1 = d
    BY <1>1, <2>2
  <2>4. CASE d = 0
    <3>1. a[1] = partes[1] /\ b[1] = 0 /\ Len(partes[1]) \in Nat
      BY <1>1, <1>2, <2>3, <2>4 DEF Comienzos
    <3>2. EnSuLugar(a[1], b, partes, barra, 1)
      <4>1. \A k \in 1..1 : k = 1 /\ ~(k < 1)
        OBVIOUS
      <4>2. Len(a[1]) = b[1] + Len(partes[1]) /\ \A i \in 1..Len(partes[1]) : a[1][b[1] + i] = partes[1][i]
        BY <3>1
      <4>3. b[1] + Len(partes[1]) <= Len(a[1])
        BY <3>1
      <4> QED BY <4>1, <4>2, <4>3 DEF EnSuLugar
    <3> QED BY <2>2, <2>4, <3>2
  <2>5. CASE d # 0
    <3>1. d \in 1..n /\ d - 1 \in Nat /\ d - 1 + 1 = d /\ ~(d <= d - 1) /\ d \in 0..n /\ d <= n
      BY <1>1, <2>2, <2>5
    <3>2. EnSuLugar(a[d], b, partes, barra, d)
      <4>1. d - 1 \notin malos
        <5> HIDE DEF malos
        <5> QED BY <2>1, <3>1
      <4> QED BY <3>1, <4>1
    <3>3. a[d] # <<>>
      <4>1. Len(partes[d]) \in Nat /\ Len(partes[d]) # 0
        <5>1. partes[d] \in Seq(C) /\ partes[d] # <<>>
          BY <1>1, <3>1 DEF n
        <5> QED BY <5>1
      <4>2. b[d] \in Nat
        <5>1. d \in 1..(n + 1)
          BY <1>1, <3>1
        <5> QED BY <5>1 DEF Comienzos, n
      <4>3. Len(a[d]) = b[d] + Len(partes[d])
        BY <3>2 DEF EnSuLugar
      <4>4. Len(a[d]) # 0
        BY <4>1, <4>2, <4>3
      <4> QED BY <4>4
    <3>4. a[d + 1] = a[d] \o <<barra>> \o partes[d + 1]
      <4>1. a[d + 1] = IF a[d] = <<>> THEN partes[d + 1] ELSE a[d] \o <<barra>> \o partes[d + 1]
        <5> DEFINE m == d + 1
        <5>1. m \in 1..n /\ m - 1 = d
          BY <2>3
        <5> HIDE DEF m
        <5>2. a[m] = IF a[m - 1] = <<>> THEN partes[m] ELSE a[m - 1] \o <<barra>> \o partes[m]
          BY <1>2, <5>1
        <5>3. a[m] = IF a[d] = <<>> THEN partes[m] ELSE a[d] \o <<barra>> \o partes[m]
          BY <5>1, <5>2
        <5> QED BY <5>3 DEF m
      <4> QED BY <3>3, <4>1
    <3>5. a[d] \in Seq(C) /\ d \in 1..Len(partes) /\ d + 1 <= Len(partes)
      BY <1>2, <2>2, <3>1 DEF n
    <3>6. EnSuLugar(a[d + 1], b, partes, barra, d + 1)
      <4> DEFINE x == a[d]
                 y == partes[d + 1]
                 z == a[d + 1]
      <4>1. x \in Seq(C) /\ y \in Seq(C) /\ z = x \o <<barra>> \o y
        BY <1>1, <2>3, <3>4, <3>5
      <4>2. Len(x) \in Nat
        BY <4>1
      <4> HIDE DEF x, y, z
      <4>3. /\ Len(z) = Len(x) + 1 + Len(y)
            /\ \A i \in 1..Len(x) : z[i] = x[i]
            /\ z[Len(x) + 1] = barra
            /\ \A i \in 1..Len(y) : z[Len(x) + 1 + i] = y[i]
        BY <4>1, UnidaUna
      <4>4. n \in Nat /\ Len(partes) = n /\ (\A k \in 1..n : Len(partes[k]) \in Nat) /\ d \in 1..n /\ d + 1 <= n
        BY <1>1, <2>2, <3>1 DEF n
      <4>5. EnSuLugar(x, b, partes, barra, d)
        BY <3>2 DEF x
      <4>6. EnSuLugar(z, b, partes, barra, d + 1)
        <5>1. y = partes[d + 1]
          BY DEF y
        <5> HIDE DEF malos
        <5> QED BY <4>2, <4>3, <4>4, <4>5, <5>1, UnaMasEnSuLugar
      <4> QED BY <4>6 DEF z
    <3> QED BY <2>2, <3>6
  <2> QED BY <2>4, <2>5
<1>4. j - 1 \in Nat /\ j - 1 + 1 = j /\ j <= n
  BY <1>1 DEF n
<1>5. j - 1 \notin malos
  BY <1>3
<1> QED BY <1>4, <1>5
=============================================================================
