-------------------------- MODULE PlanificadorCiclo --------------------------
(* What the turn being one is good for: properties of what a tripulante     *)
(* goes through between two stages, and of what its status says of where it *)
(* is, for every value of the constants.                                    *)
(*                                                                         *)
(* A step of the program moves one tripulante from a place to another, or   *)
(* changes one TCB, or neither.  The steps are sorted so once; then each    *)
(* invariant is shown to be kept by every kind of step.                     *)
EXTENDS PlanificadorTurno

-----------------------------------------------------------------------------
(* GRADO_MULTITAREA *)

GradoOK == Len(cola["exec"]) <= Grado /\ (lbl["RE"] = "poner" => Len(cola["exec"]) < Grado)
ExecNoCrece == /\ Len(cola'["exec"]) <= Len(cola["exec"])
               /\ lbl'["RE"] = "poner" => lbl["RE"] = "poner"

(* Whoever does not add to exec, nor is about to, keeps the bound. *)
LEMMA GradoQuieto ==
  ASSUME Tipos, Tipos', GradoOK, ExecNoCrece PROVE GradoOK'
<1>1. Len(cola["exec"]) \in Nat /\ Len(cola'["exec"]) \in Nat /\ Grado \in Nat
  <2>1. cola["exec"] \in Seq(Trips) /\ cola'["exec"] \in Seq(Trips)
    BY DEF Tipos, TipoColas, Colas
  <2> QED BY <2>1, ConstantesOK
<1> HIDE DEF Tipos
<1> QED BY <1>1 DEF GradoOK, ExecNoCrece

(* Taking a TCB out of a queue makes none longer; pushing one makes longer  *)
(* that queue only.                                                         *)
LEMMA LargoSacar ==
  ASSUME Tipos, NEW q \in Colas, NEW t, Esta(q, t), Sacar(q, t)
  PROVE  Len(cola'["exec"]) <= Len(cola["exec"])
<1>1. cola \in [Colas -> Seq(Trips)] /\ "exec" \in Colas /\ cola["exec"] \in Seq(Trips)
  BY DEF Tipos, TipoColas, Colas
<1>2. Len(Quitar(cola[q], t)) = Len(cola[q]) - 1
  BY <1>1, IndiceEnRango, RemoveAtTipo DEF Quitar, Esta
<1> QED BY <1>1, <1>2 DEF Sacar

(* A stage that takes from exec for another queue does not lengthen it. *)
LEMMA LargoMover ==
  ASSUME Tipos, NEW q \in Colas, NEW r \in Colas \ {"exec"}, NEW t, q # r, Esta(q, t), Mover(q, r, t)
  PROVE  Len(cola'["exec"]) <= Len(cola["exec"])
<1>1. cola \in [Colas -> Seq(Trips)] /\ "exec" \in Colas /\ cola["exec"] \in Seq(Trips)
  BY DEF Tipos, TipoColas, Colas
<1>2. Len(Quitar(cola[q], t)) = Len(cola[q]) - 1
  BY <1>1, IndiceEnRango, RemoveAtTipo DEF Quitar, Esta
<1> QED BY <1>1, <1>2 DEF Mover

(* Only a push to exec lengthens it, by one. *)
LEMMA LargoPoner ==
  ASSUME Tipos, NEW r \in Colas, NEW t, Poner(r, t)
  PROVE  /\ r # "exec" => cola'["exec"] = cola["exec"]
         /\ t \in Trips => Len(cola'["exec"]) <= Len(cola["exec"]) + 1
<1>1. cola \in [Colas -> Seq(Trips)] /\ "exec" \in Colas /\ cola["exec"] \in Seq(Trips)
  BY DEF Tipos, TipoColas, Colas
<1> QED BY <1>1 DEF Poner

(* The stages but Ready->Exec. *)
LEMMA GradoTrabajar ==
  ASSUME Tipos, NEW e \in Etapas, Trabajar(e), ~ReadyExec
  PROVE  ExecNoCrece
<1>1. /\ cola \in [Colas -> Seq(Trips)] /\ lbl \in [Etapas -> Rotulos] /\ actual \in [Etapas -> TripsONada]
      /\ "RE" \in Etapas /\ Colas = {"new", "ready", "exec", "bio", "bem", "exit"}
      /\ Len(cola["exec"]) \in Nat
  BY DEF Tipos, TipoColas, AnilloOK, TipoAnillo, Etapas, Colas
<1>2. \A q \in Colas : cola[q] # <<>> => Esta(q, Head(cola[q]))
  BY <1>1, ToSetTipo DEF Esta
<1>3. lbl'["RE"] = lbl["RE"] => (lbl'["RE"] = "poner" => lbl["RE"] = "poner")
  OBVIOUS
<1>4. \A f \in Etapas \ {"RE"} : \A l, t, s : Ir(f, l, t) \/ Terminar(f, s) => lbl'["RE"] = lbl["RE"]
  BY <1>1 DEF Ir, Terminar
<1>5. UNCHANGED cola => Len(cola'["exec"]) <= Len(cola["exec"])
  BY <1>1
<1>6. CASE NewReady
  <2>1. "NR" \in Etapas \ {"RE"}
    BY DEF Etapas
  <2>2. lbl'["RE"] = lbl["RE"]
    BY <1>4, <1>6, <2>1 DEF NewReady, NR_Entra, NR_IniciarPatota, NR_PrimeraTarea, NR_SinPatotas, NR_Sacar,
       NR_Poner, NR_Fin, anillo
  <2>3. CASE NR_Sacar
    BY <1>1, <1>2, <2>2, <2>3, LargoSacar DEF NR_Sacar, ExecNoCrece
  <2>4. CASE NR_Poner
    <3>1. DestinoNew(actual["NR"]) \in Colas \ {"exec"}
      BY <1>1 DEF DestinoNew
    <3>2. cola'["exec"] = cola["exec"]
      BY <2>4, <3>1, LargoPoner DEF NR_Poner
    <3> QED BY <1>1, <2>2, <3>2 DEF ExecNoCrece
  <2>5. CASE ~NR_Sacar /\ ~NR_Poner
    BY <1>5, <1>6, <2>2, <2>5 DEF NewReady, NR_Entra, NR_IniciarPatota, NR_PrimeraTarea, NR_SinPatotas,
       NR_Fin, ExecNoCrece
  <2> QED BY <2>3, <2>4, <2>5
<1>7. CASE e \in Recorridos /\ RecorreExec(e)
  <2>1. e \in Etapas \ {"RE"} /\ Destino[e] \in Colas \ {"exec"}
    BY <1>1, <1>7 DEF Etapas, Recorridos, Destino
  <2>2. lbl'["RE"] = lbl["RE"]
    BY <1>4, <1>7, <2>1 DEF RecorreExec, Recorrer, Visitar, Avanzar, VisitarLiberado, anillo
  <2>3. Len(cola'["exec"]) <= Len(cola["exec"])
    BY <1>1, <1>5, <1>7, <2>1, LargoMover DEF RecorreExec, Recorrer, Visitar, VisitarLiberado
  <2> QED BY <2>2, <2>3 DEF ExecNoCrece
<1>8. CASE BloqIO
  <2>1. "BLOCKIO" \in Etapas \ {"RE"}
    BY DEF Etapas
  <2>2. lbl'["RE"] = lbl["RE"]
    BY <1>4, <1>8, <2>1 DEF BloqIO, BIO_Entra, BIO_Contar, BIO_Pedir, BIO_Salir, anillo
  <2>3. Len(cola'["exec"]) <= Len(cola["exec"])
    <3>1. CASE BIO_Contar
      BY <1>1, <1>2, <1>5, <3>1, LargoSacar DEF BIO_Contar
    <3>2. CASE BIO_Pedir
      <4>1. Poner("ready", actual["BLOCKIO"]) => cola'["exec"] = cola["exec"]
        BY <1>1, LargoPoner
      <4> QED BY <1>1, <3>2, <4>1 DEF BIO_Pedir
    <3> QED BY <1>5, <1>8, <3>1, <3>2 DEF BloqIO, BIO_Entra, BIO_Salir
  <2> QED BY <2>2, <2>3 DEF ExecNoCrece
<1>9. CASE AEmergencia
  <2>1. "ERM" \in Etapas \ {"RE"}
    BY DEF Etapas
  <2>2. lbl'["RE"] = lbl["RE"]
    BY <1>4, <1>9, <2>1 DEF AEmergencia, ERM_Entra, ERM_SacarFixer, ERM_Restaurar, ERM_Sacar, ERM_Poner,
       ERM_Elegir, anillo
  <2>3. Len(cola'["exec"]) <= Len(cola["exec"])
    <3>1. CASE ERM_SacarFixer
      BY <1>1, <1>2, <1>5, <3>1, LargoSacar DEF ERM_SacarFixer
    <3>2. CASE ERM_Restaurar
      <4>1. Poner("bem", actual["ERM"]) => cola'["exec"] = cola["exec"]
        BY <1>1, LargoPoner
      <4> QED BY <1>1, <3>2, <4>1 DEF ERM_Restaurar
    <3>3. CASE ERM_Sacar
      <4>1. PorVaciar \in Colas /\ cola[PorVaciar] \in Seq(Trips) /\ cola[PorVaciar] # <<>>
        BY <1>1, <3>3 DEF ERM_Sacar, PorVaciar
      <4>2. ToSet(cola[PorVaciar]) \subseteq Nat /\ ToSet(cola[PorVaciar]) # {}
        BY <4>1, ToSetTipo, ConstantesOK
      <4>3. Esta(PorVaciar, MinTid(ToSet(cola[PorVaciar])))
        BY <4>1, <4>2, MinTidPertenece, ContieneToSet DEF Esta
      <4> QED BY <3>3, <4>1, <4>3, LargoSacar DEF ERM_Sacar
    <3>4. CASE ERM_Poner
      <4>1. Poner("bem", actual["ERM"]) => cola'["exec"] = cola["exec"]
        BY <1>1, LargoPoner
      <4> QED BY <1>1, <3>4, <4>1 DEF ERM_Poner
    <3>5. CASE ERM_Elegir
      BY <1>1, <1>5, <3>5, LargoMover DEF ERM_Elegir
    <3> QED BY <1>5, <1>9, <3>1, <3>2, <3>3, <3>4, <3>5 DEF AEmergencia, ERM_Entra
  <2> QED BY <2>2, <2>3 DEF ExecNoCrece
<1>10. CASE AReady
  <2>1. "MR" \in Etapas \ {"RE"}
    BY DEF Etapas
  <2>2. lbl'["RE"] = lbl["RE"]
    BY <1>4, <1>10, <2>1 DEF AReady, MR_Entra, MR_Sacar, MR_Poner, MR_Resolver, anillo
  <2>3. CASE MR_Sacar
    BY <1>1, <1>2, <2>2, <2>3, LargoSacar DEF MR_Sacar, ExecNoCrece
  <2>4. CASE MR_Poner
    <3>1. cola'["exec"] = cola["exec"]
      BY <1>1, <2>4, LargoPoner DEF MR_Poner
    <3> QED BY <1>1, <2>2, <3>1 DEF ExecNoCrece
  <2>5. CASE MR_Entra \/ MR_Resolver
    BY <1>5, <2>2, <2>5 DEF MR_Entra, MR_Resolver, ExecNoCrece
  <2> QED BY <1>10, <2>3, <2>4, <2>5 DEF AReady
<1>11. CASE EXIT_Cerrar
  <2>1. UNCHANGED cola /\ lbl'["RE"] = lbl["RE"]
    BY <1>1, <1>11 DEF EXIT_Cerrar
  <2> QED BY <1>5, <2>1 DEF ExecNoCrece
<1> QED BY <1>6, <1>7, <1>8, <1>9, <1>10, <1>11 DEF Trabajar

(* Ready->Exec: it pops from Ready when there is room, and then pushes. *)
LEMMA GradoReadyExec ==
  ASSUME Tipos, Tipos', GradoOK, ReadyExec
  PROVE  GradoOK'
<1>1. /\ cola \in [Colas -> Seq(Trips)] /\ lbl \in [Etapas -> Rotulos]
      /\ "RE" \in Etapas /\ Colas = {"new", "ready", "exec", "bio", "bem", "exit"}
      /\ Len(cola["exec"]) \in Nat /\ Len(cola'["exec"]) \in Nat /\ Grado \in Nat
  <2>1. cola["exec"] \in Seq(Trips) /\ cola'["exec"] \in Seq(Trips)
    BY DEF Tipos, TipoColas, Colas
  <2>2. cola \in [Colas -> Seq(Trips)] /\ lbl \in [Etapas -> Rotulos] /\ "RE" \in Etapas
    BY DEF Tipos, TipoColas, AnilloOK, TipoAnillo, Etapas
  <2> QED BY <2>1, <2>2, ConstantesOK DEF Colas
<1>2. CASE RE_Sacar
  <2>1. Esta("ready", Head(cola["ready"]))
    BY <1>1, <1>2, ToSetTipo DEF RE_Sacar, HayLugar, Esta
  <2>2. Len(cola'["exec"]) <= Len(cola["exec"]) /\ Len(cola["exec"]) < Grado
    BY <1>1, <1>2, <2>1, LargoSacar DEF RE_Sacar, HayLugar
  <2> QED BY <1>1, <2>2 DEF GradoOK
<1>3. CASE RE_Poner
  <2>1. Len(cola["exec"]) < Grado /\ lbl'["RE"] = "llenar"
    BY <1>1, <1>3 DEF RE_Poner, En, Ir, GradoOK
  <2>2. actual["RE"] \in Trips
    BY <1>1, <1>3 DEF RE_Poner, En, Tipos, AnilloOK, ConTCB
  <2>3. Len(cola'["exec"]) <= Len(cola["exec"]) + 1
    BY <1>1, <1>3, <2>2, LargoPoner DEF RE_Poner
  <2> QED BY <1>1, <2>1, <2>3 DEF GradoOK
<1>4. CASE ~RE_Sacar /\ ~RE_Poner
  <2>1. UNCHANGED cola
    BY <1>4 DEF ReadyExec, RE_Entra, RE_Lleno, RE_Contar, RE_Empezar, RE_Avisar, VisitarLiberado
  <2>2. lbl'["RE"] = "poner" => lbl["RE"] = "poner"
    BY <1>1, <1>4 DEF ReadyExec, RE_Entra, RE_Lleno, RE_Contar, RE_Empezar, RE_Avisar,
       VisitarLiberado, Ir, Terminar, anillo
  <2> QED BY <1>1, <2>1, <2>2, GradoQuieto DEF ExecNoCrece
<1> QED BY <1>2, <1>3, <1>4

(* Who is not a stage never pushes to exec. *)
LEMMA GradoResto ==
  ASSUME Tipos,
         \/ TomarPausar \/ (\E e \in Etapas : Despertar(e)) \/ (\E t \in Trips : Hilo(t))
         \/ SAB_Activar \/ SAB_Datos \/ FuncionConsola \/ UNCHANGED vars
  PROVE  ExecNoCrece
<1>1. /\ cola \in [Colas -> Seq(Trips)] /\ lbl \in [Etapas -> Rotulos]
      /\ "RE" \in Etapas /\ Colas = {"new", "ready", "exec", "bio", "bem", "exit"}
      /\ Len(cola["exec"]) \in Nat
  BY DEF Tipos, TipoColas, AnilloOK, TipoAnillo, Etapas, Colas
<1>2. CASE TomarPausar \/ (\E e \in Etapas : Despertar(e))
  <2>1. UNCHANGED cola /\ (lbl'["RE"] = "poner" => lbl["RE"] = "poner")
    BY <1>1, <1>2 DEF TomarPausar, Despertar
  <2> QED BY <1>1, <2>1 DEF ExecNoCrece
<1>3. CASE (\E t \in Trips : Hilo(t)) \/ SAB_Activar \/ SAB_Datos \/ UNCHANGED vars
  <2>1. UNCHANGED <<cola, lbl>>
    BY <1>3 DEF Hilo, Tomar, Actuar, LlegarAlSabotaje, Reparar, Signal, SAB_Activar, SAB_Datos, vars, anillo
  <2> QED BY <1>1, <2>1 DEF ExecNoCrece
<1>4. CASE FuncionConsola
  <2>1. UNCHANGED lbl
    BY <1>4 DEF FuncionConsola, IniciarPlanificacion, PausarPlanificacion, IniciarPatota,
       ExpulsarTripulante, SeguirExpulsion, INI_Pausar, INI_Turno, PAU_Pedir, PAU_Tomar, PAT_Crear,
       PAT_Listar, PAT_New, PAT_Hilo, EXP_RAM, EXP_Estado, EXP_Buscar, EXP_Extraer, EXP_Extraido,
       EXP_Patota, anillo
  <2>2. CASE PAT_New
    <3>1. cola'["exec"] = cola["exec"]
      BY <1>1, <2>2, LargoPoner DEF PAT_New
    <3> QED BY <1>1, <2>1, <3>1 DEF ExecNoCrece
  <2>3. CASE EXP_Extraer /\ cola' # cola
    <3> DEFINE c == cons.cola
               k == cons.i
               s == RemoveAt(cola[c], k)
    <3>1. /\ c \in Colas /\ cola[c] \in Seq(Trips) /\ k \in 1..Len(cola[c])
          /\ cola' = [[cola EXCEPT ![c] = s] EXCEPT !["exit"] = Append(@, cola[c][k])]
      BY <1>1, <2>3 DEF EXP_Extraer, EnConsola, Tipos, ConsolaOK, TipoConsola, Comandos
    <3> HIDE DEF c, k
    <3>2. Len(s) = Len(cola[c]) - 1
      BY <3>1, RemoveAtTipo
    <3> HIDE DEF s
    <3>3. cola'["exec"] = IF c = "exec" THEN s ELSE cola["exec"]
      BY <1>1, <3>1
    <3> QED BY <1>1, <2>1, <3>2, <3>3 DEF ExecNoCrece
  <2>4. CASE UNCHANGED cola
    BY <1>1, <2>1, <2>4 DEF ExecNoCrece
  <2> QED BY <1>4, <2>2, <2>3, <2>4 DEF FuncionConsola, IniciarPlanificacion, PausarPlanificacion,
         IniciarPatota, ExpulsarTripulante, SeguirExpulsion, INI_Pausar, INI_Turno, PAU_Pedir,
         PAU_Tomar, PAT_Crear, PAT_Listar, PAT_Hilo, EXP_RAM, EXP_Estado, EXP_Buscar, EXP_Extraido,
         EXP_Patota
<1> QED BY <1>2, <1>3, <1>4

(* Every action of the program keeps the bound. *)
LEMMA GradoNext ==
  ASSUME Tipos, Tipos', GradoOK, [Next]_vars PROVE GradoOK'
<1>1. ASSUME NEW e \in Etapas, Trabajar(e) PROVE GradoOK'
  BY <1>1, GradoTrabajar, GradoReadyExec, GradoQuieto
<1>2. CASE NewReady \/ ReadyExec \/ BloqIO \/ AEmergencia \/ AReady \/ EXIT_Cerrar
           \/ \E e \in Recorridos : RecorreExec(e)
  <2>1. \E e \in Etapas : Trabajar(e)
    BY <1>2 DEF Trabajar, Etapas, Recorridos
  <2> QED BY <1>1, <2>1
<1> QED BY <1>2, GradoResto, GradoQuieto DEF Next

(* For every value of the constants, with one turn or several: exec never   *)
(* holds more than GRADO_MULTITAREA tripulantes, in particular when the     *)
(* sabotage hands one back in the middle of a cycle.                        *)
THEOREM GradoSiempre == Spec => []GradoRespetado
<1>1. Init => GradoOK
  BY ConstantesOK DEF Init, GradoOK, Colas, Etapas
<1>2. Tipos /\ Tipos' /\ GradoOK /\ [Next]_vars => GradoOK'
  BY GradoNext
<1>3. GradoOK => GradoRespetado
  BY DEF GradoOK, GradoRespetado
<1> QED BY TiposInvariante, <1>1, <1>2, <1>3, PTL DEF Spec

-----------------------------------------------------------------------------
(* Who moves, exactly *)

(* Only t changes place, to a (to none, when a is no place); nobody does.   *)
Cruza(t, a) == \A l \in Lugares, u \in Trips : Ocupa(l, u)' <=> IF u = t THEN l = a ELSE Ocupa(l, u)
Quedan == \A l \in Lugares, u \in Trips : Ocupa(l, u)' <=> Ocupa(l, u)

(* The hands of the stages but e. *)
OtrasManos(e) == \A f \in Etapas \ {e} : (EnMano(f)' <=> EnMano(f)) /\ actual'[f] = actual[f]

(* A stage changes the hand of no other. *)
LEMMA ManosDeUna ==
  ASSUME Tipos, NEW e \in Etapas, NEW l, NEW t, NEW s, Ir(e, l, t) \/ Terminar(e, s)
  PROVE  OtrasManos(e) /\ (Ir(e, l, t) => lbl'[e] = l /\ actual'[e] = t)
BY DEF Tipos, AnilloOK, TipoAnillo, Ir, Terminar, OtrasManos, EnMano

(* list_remove of a list without repetitions takes out that one only. *)
LEMMA SinUnoExacto ==
  ASSUME NEW S, NEW s \in Seq(S), NoRepite(s), NEW k \in 1..Len(s), NEW u
  PROVE  Contains(RemoveAt(s, k), u) <=> Contains(s, u) /\ u # s[k]
<1> DEFINE r == RemoveAt(s, k)
<1>1. /\ r \in Seq(S) /\ Len(r) = Len(s) - 1
      /\ \A j \in 1..(Len(s) - 1) : r[j] = s[IF j < k THEN j ELSE j + 1]
  BY RemoveAtTipo
<1>2. Contains(r, u) => Contains(s, u) /\ u # s[k]
  BY SinUno
<1>3. ASSUME Contains(s, u), u # s[k] PROVE Contains(r, u)
  <2>1. PICK j \in 1..Len(s) : s[j] = u
    BY <1>3 DEF Contains
  <2> DEFINE i == IF j < k THEN j ELSE j - 1
  <2>2. j # k
    BY <1>3, <2>1
  <2>3. i \in 1..(Len(s) - 1) /\ (IF i < k THEN i ELSE i + 1) = j
    BY <2>2
  <2> HIDE DEF i, r
  <2>4. r[i] = u /\ i \in 1..Len(r)
    BY <1>1, <2>1, <2>3
  <2> QED BY <2>4 DEF Contains
<1> QED BY <1>2, <1>3

(* queue_push. *)
LEMMA ConUnoExacto ==
  ASSUME NEW S, NEW s \in Seq(S), NEW t \in S, NEW u
  PROVE  Contains(Append(s, t), u) <=> Contains(s, u) \/ u = t
BY DEF Contains

(* A stage pops a TCB. *)
LEMMA CruzaToma ==
  ASSUME Tipos, LugarOK, NEW e \in Etapas, NEW q \in Colas, NEW t, Esta(q, t), Sacar(q, t),
         OtrasManos(e), ~EnMano(e), EnMano(e)', actual'[e] = t
  PROVE  t \in Trips /\ Ocupa(q, t) /\ Cruza(t, e)
<1>1. cola \in [Colas -> Seq(Trips)] /\ t \in Trips /\ Ocupa(q, t) /\ q \in Lugares /\ e \in Lugares
  BY ElementoTipo DEF Tipos, TipoColas, Esta, Ocupa, Lugares
<1>2. /\ \A p \in Colas \ {q} : cola'[p] = cola[p]
      /\ cola'[q] = Quitar(cola[q], t)
  BY <1>1 DEF Sacar
<1>3. \A u \in Trips : Contains(cola'[q], u) <=> Contains(cola[q], u) /\ u # t
  BY <1>1, <1>2, IndiceEnRango, SinUnoExacto DEF LugarOK, SinRepetir, Quitar, Esta
<1>4. \A l \in Lugares : Ocupa(l, t) => l = q
  BY <1>1 DEF LugarOK, Unico
<1>5. ASSUME NEW l \in Colas, NEW u \in Trips
      PROVE  Ocupa(l, u)' <=> IF u = t THEN l = e ELSE Ocupa(l, u)
  <2>1. l # e /\ l \in Lugares
    BY LugaresDistintos DEF Lugares
  <2>2. Ocupa(l, u)' <=> Ocupa(l, u) /\ u # t
    BY <1>1, <1>2, <1>3, <1>4, <2>1 DEF Ocupa, Esta
  <2> QED BY <2>1, <2>2
<1>6. ASSUME NEW l \in Etapas, NEW u \in Trips
      PROVE  Ocupa(l, u)' <=> IF u = t THEN l = e ELSE Ocupa(l, u)
  <2>1. l \notin Colas /\ l # q /\ l \in Lugares
    BY LugaresDistintos DEF Lugares
  <2>2. CASE l = e
    BY <2>1, <2>2 DEF Ocupa
  <2>3. CASE l # e
    BY <1>4, <2>1, <2>3 DEF Ocupa, OtrasManos
  <2> QED BY <2>2, <2>3
<1> QED BY <1>1, <1>5, <1>6 DEF Cruza, Lugares

(* A stage pushes the TCB it has. *)
LEMMA CruzaDeja ==
  ASSUME Tipos, LugarOK, NEW e \in Etapas, NEW q \in Colas, EnMano(e), Poner(q, actual[e]),
         OtrasManos(e), ~EnMano(e)'
  PROVE  actual[e] \in Trips /\ Ocupa(e, actual[e]) /\ Cruza(actual[e], q)
<1> DEFINE t == actual[e]
<1>1. cola \in [Colas -> Seq(Trips)] /\ t \in Trips /\ Ocupa(e, t) /\ e \in Lugares
  BY LugaresDistintos DEF Tipos, TipoColas, AnilloOK, EnMano, ConTCB, Ocupa, Lugares
<1>2. /\ \A p \in Colas \ {q} : cola'[p] = cola[p]
      /\ cola'[q] = Append(cola[q], t)
  BY <1>1 DEF Poner
<1> HIDE DEF t
<1>3. \A u \in Trips : Contains(cola'[q], u) <=> Contains(cola[q], u) \/ u = t
  BY <1>1, <1>2, ConUnoExacto
<1>4. \A l \in Lugares : Ocupa(l, t) => l = e
  BY <1>1 DEF LugarOK, Unico
<1>5. ASSUME NEW l \in Colas, NEW u \in Trips
      PROVE  Ocupa(l, u)' <=> IF u = t THEN l = q ELSE Ocupa(l, u)
  <2>1. l # e /\ l \in Lugares /\ ~Ocupa(l, t)
    BY <1>4, LugaresDistintos DEF Lugares
  <2> QED BY <1>1, <1>2, <1>3, <2>1 DEF Ocupa, Esta
<1>6. ASSUME NEW l \in Etapas, NEW u \in Trips
      PROVE  Ocupa(l, u)' <=> IF u = t THEN l = q ELSE Ocupa(l, u)
  <2>1. l \notin Colas /\ l # q /\ l \in Lugares
    BY LugaresDistintos DEF Lugares
  <2>2. CASE l = e
    BY <2>1, <2>2 DEF Ocupa, t
  <2>3. CASE l # e
    BY <1>4, <2>1, <2>3 DEF Ocupa, OtrasManos
  <2> QED BY <2>2, <2>3
<1> QED BY <1>1, <1>5, <1>6 DEF Cruza, Lugares, t

(* What a stage had at hand is put nowhere. *)
LEMMA CruzaPierde ==
  ASSUME Tipos, LugarOK, NEW e \in Etapas, EnMano(e), UNCHANGED cola, OtrasManos(e), ~EnMano(e)',
         NEW a, a \notin Lugares
  PROVE  actual[e] \in Trips /\ Ocupa(e, actual[e]) /\ Cruza(actual[e], a)
<1>1. actual[e] \in Trips /\ Ocupa(e, actual[e]) /\ e \in Lugares
  BY LugaresDistintos DEF Tipos, AnilloOK, EnMano, ConTCB, Ocupa, Lugares
<1>2. \A l \in Lugares : Ocupa(l, actual[e]) => l = e
  BY <1>1 DEF LugarOK, Unico
<1>3. ASSUME NEW l \in Lugares, NEW u \in Trips
      PROVE  Ocupa(l, u)' <=> u # actual[e] /\ Ocupa(l, u)
  <2>1. CASE l \in Colas
    BY <1>2, <2>1, LugaresDistintos DEF Ocupa, Esta
  <2>2. CASE l \in Etapas \ {e}
    BY <1>2, <2>2, LugaresDistintos DEF Ocupa, OtrasManos
  <2>3. CASE l = e
    BY <2>3, LugaresDistintos DEF Ocupa
  <2> QED BY <2>1, <2>2, <2>3 DEF Lugares
<1> QED BY <1>1, <1>3 DEF Cruza

(* From a position of a queue to another queue, or to the end of the same.  *)
LEMMA CruzaDeCola ==
  ASSUME Tipos, LugarOK, NEW q \in Colas, NEW r \in Colas, NEW k \in 1..Len(cola[q]),
         \A f \in Etapas : (EnMano(f)' <=> EnMano(f)) /\ (EnMano(f) => actual'[f] = actual[f]),
         \A p \in Colas : cola'[p] =
           IF p = r THEN Append(IF q = r THEN RemoveAt(cola[q], k) ELSE cola[r], cola[q][k])
           ELSE IF p = q THEN RemoveAt(cola[q], k) ELSE cola[p]
  PROVE  cola[q][k] \in Trips /\ Ocupa(q, cola[q][k]) /\ Cruza(cola[q][k], r)
<1> DEFINE t == cola[q][k]
           s == RemoveAt(cola[q], k)
<1>1. /\ cola \in [Colas -> Seq(Trips)] /\ cola[q] \in Seq(Trips) /\ cola[r] \in Seq(Trips)
      /\ t \in Trips /\ Contains(cola[q], t) /\ s \in Seq(Trips)
  <2>1. cola \in [Colas -> Seq(Trips)] /\ cola[q] \in Seq(Trips) /\ cola[r] \in Seq(Trips)
    BY DEF Tipos, TipoColas
  <2> QED BY <2>1, RemoveAtTipo DEF Contains
<1>2. Ocupa(q, t) /\ q \in Lugares
  BY <1>1 DEF Ocupa, Esta, Lugares
<1>3. \A u : Contains(s, u) <=> Contains(cola[q], u) /\ u # t
  BY <1>1, SinUnoExacto DEF LugarOK, SinRepetir
<1> HIDE DEF t, s
<1>4. \A l \in Lugares : Ocupa(l, t) => l = q
  BY <1>1, <1>2 DEF LugarOK, Unico
<1>5. ASSUME NEW l \in Colas, NEW u \in Trips
      PROVE  Ocupa(l, u)' <=> IF u = t THEN l = r ELSE Ocupa(l, u)
  <2>1. l \in Lugares /\ (Contains(cola[l], t) => l = q)
    BY <1>4 DEF Lugares, Ocupa, Esta
  <2>2. Ocupa(l, u)' <=> Contains(cola'[l], u)
    BY DEF Ocupa, Esta
  <2>3. Ocupa(l, u) <=> Contains(cola[l], u)
    BY DEF Ocupa, Esta
  <2>4. CASE l = r
    <3>1. cola'[l] = Append(IF q = r THEN s ELSE cola[r], t)
      BY <2>4 DEF s, t
    <3>2. CASE q = r
      <4>1. Contains(cola'[l], u) <=> Contains(s, u) \/ u = t
        BY <1>1, <3>1, <3>2, ConUnoExacto
      <4> QED BY <1>3, <2>2, <2>3, <2>4, <3>2, <4>1
    <3>3. CASE q # r
      <4>1. Contains(cola'[l], u) <=> Contains(cola[r], u) \/ u = t
        BY <1>1, <3>1, <3>3, ConUnoExacto
      <4> QED BY <2>2, <2>3, <2>4, <4>1
    <3> QED BY <3>2, <3>3
  <2>5. CASE l # r /\ l = q
    <3>1. cola'[l] = s
      BY <2>5 DEF s
    <3> QED BY <1>3, <2>2, <2>3, <2>5, <3>1
  <2>6. CASE l # r /\ l # q
    <3>1. cola'[l] = cola[l]
      BY <2>6
    <3> QED BY <2>1, <2>2, <2>3, <2>6, <3>1
  <2> QED BY <2>4, <2>5, <2>6
<1>6. ASSUME NEW l \in Etapas, NEW u \in Trips
      PROVE  Ocupa(l, u)' <=> IF u = t THEN l = r ELSE Ocupa(l, u)
  <2>1. l \notin Colas /\ l # q /\ l # r /\ l \in Lugares
    BY LugaresDistintos DEF Lugares
  <2>2. Ocupa(l, u)' <=> Ocupa(l, u)
    BY <2>1 DEF Ocupa
  <2> QED BY <1>4, <2>1, <2>2
<1> QED BY <1>1, <1>2, <1>5, <1>6 DEF Cruza, Lugares, t

(* The Mover of the stages is one of those. *)
LEMMA CruzaMueve ==
  ASSUME Tipos, LugarOK, NEW e \in Etapas, NEW q \in Colas, NEW r \in Colas, q # r, NEW t, Esta(q, t),
         Mover(q, r, t), OtrasManos(e), ~EnMano(e), ~EnMano(e)'
  PROVE  t \in Trips /\ Ocupa(q, t) /\ Cruza(t, r)
<1>1. Indice(cola[q], t) \in 1..Len(cola[q]) /\ cola[q][Indice(cola[q], t)] = t
      /\ cola \in [Colas -> Seq(Trips)]
  BY IndiceEnRango DEF Tipos, TipoColas, Esta
<1>2. \A p \in Colas : cola'[p] =
        IF p = r THEN Append(IF q = r THEN RemoveAt(cola[q], Indice(cola[q], t)) ELSE cola[r],
                             cola[q][Indice(cola[q], t)])
        ELSE IF p = q THEN RemoveAt(cola[q], Indice(cola[q], t)) ELSE cola[p]
  BY <1>1 DEF Mover, Quitar
<1>3. \A f \in Etapas : (EnMano(f)' <=> EnMano(f)) /\ (EnMano(f) => actual'[f] = actual[f])
  BY DEF OtrasManos
<1> QED BY <1>1, <1>2, <1>3, CruzaDeCola

(* Nobody moves. *)
LEMMA QuedanTodos ==
  ASSUME UNCHANGED cola,
         \A f \in Etapas : (EnMano(f)' <=> EnMano(f)) /\ (EnMano(f) => actual'[f] = actual[f])
  PROVE  Quedan
BY LugaresDistintos DEF Quedan, Lugares, Ocupa, Esta

(* Nobody moves by a stage that had nothing at hand and takes nothing. *)
LEMMA QuedanCon ==
  ASSUME UNCHANGED cola, NEW e \in Etapas, OtrasManos(e), ~EnMano(e), ~EnMano(e)'
  PROVE  Quedan
BY QuedanTodos DEF OtrasManos

-----------------------------------------------------------------------------
(* The kinds of step *)

Actua(t) == hilo[t] \in {"actua", "repara"}
NadieActua == HilosEnCiclo = {}

(* What of a TCB, and of what IMongoStore heard of it, the invariants below *)
(* speak of.                                                                *)
Igual(t) == /\ tcb'[t].ciclos = tcb[t].ciclos /\ tcb'[t].ini = tcb[t].ini /\ tcb'[t].vivo = tcb[t].vivo
            /\ tcb'[t].instr = tcb[t].instr /\ inicios'[t] = inicios[t]
Intacto(t) == tcb'[t].est = tcb[t].est /\ Igual(t)
Salvo(t) == \A u \in Trips \ {t} : Intacto(u)

(* No TCB moves nor changes. *)
Calma == Quedan /\ ctx' = ctx /\ \A t \in Trips : Intacto(t)

(* One goes from a place to another, or has a new status, or both: by the   *)
(* console, or by a stage while no tripulante is in its cycle.              *)
DeConsola(t, de, a, est) ==
  /\ de \in Colas /\ cons.pc \in Expulsando
  /\ \/ a = "exit" /\ est = tcb[t].est
     \/ a = de /\ est = "X"
DeEtapa(t, de, a, est) ==
  /\ NadieActua
  /\ \/ /\ est = tcb[t].est
        /\ \/ de = "new" /\ a = "NR"
           \/ de = "NR" /\ a = DestinoNew(t)
           \/ de = "ready" /\ a = "RE"
           \/ de = "exec" /\ \E e \in Recorridos : a = Destino[e] /\ est = Estado[e]
           \/ de = "bio" /\ a = "BLOCKIO"
           \/ /\ de \in {"exec", "ready"} /\ a = "ERM" /\ lbl["ERM"] \in {"sacarFixer", "vaciar"}
              /\ lbl["ERM"] = "sacarFixer" => ~sab'.primer
           \/ de = "bem" /\ a = "MR" /\ lbl["MR"] = "vaciar"
     \/ de = "RE" /\ a = "exec" /\ est = "E"
     \/ de = "ERM" /\ a = "bem" /\ est = "M"
     \/ de = "MR" /\ a = "ready" /\ est = "R"
Cambia(t, de, a, est) ==
  /\ Ocupa(de, t) /\ Cruza(t, a) /\ ctx' = ctx
  /\ Salvo(t) /\ Igual(t) /\ tcb'[t].est = est
  /\ DeConsola(t, de, a, est) \/ DeEtapa(t, de, a, est)
Cambio == \E t \in Trips, de, a \in Lugares : Cambia(t, de, a, tcb'[t].est)

(* The first task of a tripulante in New; the next one of one in BloqIO.    *)
Primera ==
  \E t \in Trips :
    /\ caida = "no" /\ lbl["NR"] = "tareas" /\ t = actual["NR"] /\ NadieActua
    /\ UNCHANGED <<buffers, listaPCB>> /\ (lbl'["NR"] = "tareas" => actual'["NR"] > t)
    /\ Quedan /\ ctx' = ctx /\ Salvo(t)
    /\ tcb'[t].est \in {"R", "X"} /\ tcb'[t].ciclos = tcb[t].ciclos /\ tcb'[t].ini = tcb[t].ini
    /\ tcb'[t].vivo = tcb[t].vivo /\ inicios'[t] = inicios[t]
Devuelve ==
  \E t \in Trips :
    /\ Ocupa("BLOCKIO", t) /\ NadieActua /\ ctx' = ctx /\ Salvo(t)
    /\ tcb'[t].ciclos = tcb[t].ciclos /\ tcb'[t].ini = tcb[t].ini /\ tcb'[t].vivo = tcb[t].vivo
    /\ inicios'[t] = 0
    /\ \/ tcb'[t].est = "R" /\ Cruza(t, "ready")
       \/ tcb'[t].est = "X" /\ Cruza(t, "ninguno")

(* The fixer is chosen, with its context saved, and has it back. *)
Elige ==
  \E t \in Trips :
    /\ lbl["ERM"] = "vaciar" /\ Ocupa("bem", t) /\ NadieActua /\ Cruza(t, "ready") /\ Salvo(t)
    /\ ctx' = Append(ctx, Contexto(t))
    /\ tcb'[t].est = "R" /\ tcb'[t].ciclos = 0 /\ tcb'[t].ini = tcb[t].ini
    /\ tcb'[t].vivo = tcb[t].vivo /\ tcb'[t].instr = tcb[t].instr /\ inicios'[t] = inicios[t]
Restaura ==
  \E t \in Trips :
    /\ lbl["ERM"] = "restaurar" /\ Ocupa("ERM", t) /\ NadieActua /\ Cruza(t, "bem") /\ Salvo(t)
    /\ ctx # <<>> /\ ctx' = Tail(ctx)
    /\ tcb'[t].est = "M" /\ tcb'[t].ciclos = Head(ctx).ciclos /\ tcb'[t].ini = tcb[t].ini
    /\ tcb'[t].vivo = Head(ctx).vivo /\ inicios'[t] = inicios[t]

(* EXIT kills those of its queue. *)
Cierra ==
  /\ NadieActua /\ Quedan /\ ctx' = ctx
  /\ \A t \in Trips :
       /\ tcb'[t].est = tcb[t].est /\ tcb'[t].ciclos = tcb[t].ciclos /\ tcb'[t].ini = tcb[t].ini
       /\ tcb'[t].instr = tcb[t].instr /\ inicios'[t] = inicios[t]
       /\ tcb'[t].vivo = tcb[t].vivo \/ Ocupa("exit", t)

(* A tripulante ends its cycle: what it does to its counter, and to its     *)
(* task: goes on with it as it was, completes it, works on it or sends it   *)
(* to IO.                                                                   *)
Contado(t) == \/ tcb'[t].ciclos = 0
              \/ /\ tcb'[t].ciclos = tcb[t].ciclos + 1
                 /\ Corta(tcb[t].ciclos + 1) => tcb'[t].est = "X"
Hecho(t) ==
  \/ /\ tcb'[t].ini = tcb[t].ini /\ tcb'[t].instr = tcb[t].instr /\ inicios'[t] = inicios[t]
     /\ tcb'[t].est \in {tcb[t].est, "R"}
  \/ /\ ~tcb'[t].ini /\ inicios'[t] = 0
     /\ tcb'[t].est \in {tcb[t].est, "R", "X"}
  \/ /\ tcb'[t].ini /\ tcb'[t].instr = tcb[t].instr /\ ~tcb[t].instr.io
     /\ inicios'[t] = IF tcb[t].ini THEN inicios[t] ELSE inicios[t] + 1
     /\ tcb'[t].est \in {tcb[t].est, "R"}
  \/ /\ tcb'[t].ini = tcb[t].ini /\ tcb'[t].instr = tcb[t].instr /\ tcb[t].instr.io
     /\ inicios'[t] = inicios[t] + 1 /\ tcb'[t].est = "I"
EnSabotaje(t) == sab.activado => tcb'[t].est \in {tcb[t].est, "R"}
Ciclo ==
  \E t \in Trips :
    /\ Actua(t) /\ ~Actua(t)' /\ HilosEnCiclo' # {} /\ Quedan /\ ctx' = ctx /\ Salvo(t)
    /\ tcb'[t].vivo = tcb[t].vivo /\ Contado(t) /\ Hecho(t) /\ EnSabotaje(t)

(* INICIAR_PATOTA pushes a TCB to New. *)
Nace ==
  \E t \in Trips :
    /\ cons.pc = "new" /\ t = cons.t /\ \A l \in Lugares : ~Ocupa(l, t)
    /\ cons'.pc = "hilo" /\ cons'.t = t
    /\ Cruza(t, "new") /\ ctx' = ctx /\ Salvo(t) /\ tcb'[t].vivo
    /\ tcb'[t].est = tcb[t].est /\ tcb'[t].ciclos = tcb[t].ciclos /\ tcb'[t].ini = tcb[t].ini
    /\ tcb'[t].instr = tcb[t].instr /\ inicios'[t] = inicios[t]

Clase == Calma \/ Cambio \/ Primera \/ Devuelve \/ Elige \/ Restaura \/ Cierra \/ Ciclo \/ Nace

(* iterate_next_task is at a tripulante. *)
EnTareas == lbl["NR"] = "tareas" => actual["NR"] \in Trips

(* A stage at work, but for signalHilosTripulantes, finds no tripulante in  *)
(* its cycle; one that acts is in it.                                       *)
LEMMA EtapaSola ==
  ASSUME Ficha, NEW e \in Etapas, Trabaja(e), e # "RE" \/ ~Avisando
  PROVE  NadieActua
BY DEF Ficha, SoloAvisa, NadieActua

(* With no tripulante in its cycle, none works. *)
LEMMA ActuaEnCiclo ==
  ASSUME NEW t \in Trips, NadieActua PROVE ~Actua(t)
BY DEF NadieActua, HilosEnCiclo, Actua

(* Nothing that matters changes. *)
LEMMA TodoIgual ==
  UNCHANGED <<tcb, inicios>> => \A t \in Trips : Intacto(t)
BY DEF Intacto, Igual

(* What neither moves a TCB nor changes one is of the first kind. *)
LEMMA CalmaQuieta ==
  ASSUME UNCHANGED <<tcb, inicios, ctx>>, Quedan PROVE Clase
BY TodoIgual DEF Calma, Clase

(* Only the status of t may change, or nothing of it. *)
LEMMA UnEstado ==
  ASSUME Tipos, NEW t \in Trips, NEW est,
         inicios' = inicios, tcb' = tcb \/ tcb' = [tcb EXCEPT ![t].est = est]
  PROVE  /\ Salvo(t) /\ Igual(t)
         /\ tcb' # tcb => tcb'[t].est = est
         /\ tcb' = tcb => tcb'[t].est = tcb[t].est
         /\ tcb' = [tcb EXCEPT ![t].est = est] => tcb'[t].est = est
<1>1. tcb \in [Trips -> TCB]
  BY DEF Tipos, TipoTCB
<1> QED BY <1>1 DEF Salvo, Igual, Intacto, TCB

(* New->Ready. *)
LEMMA ClaseNewReady ==
  ASSUME Tipos, LugarOK, Ficha, EnTareas, NewReady
  PROVE  Clase
<1>1. "NR" \in Etapas /\ NadieActua
  <2>1. Trabaja("NR")
    BY SigueNewReady
  <2> QED BY <2>1, EtapaSola DEF Etapas
<1>2. \A l, t, s : Ir("NR", l, t) \/ Terminar("NR", s) =>
        OtrasManos("NR") /\ (Ir("NR", l, t) => lbl'["NR"] = l /\ actual'["NR"] = t)
  BY <1>1, ManosDeUna
<1>3. \A l, t, s : (Ir("NR", l, t) /\ l \notin ConTCB) \/ Terminar("NR", s) => ~EnMano("NR")'
  BY <1>1, NoTomaIr, NoTomaTerminar
<1>4. CASE NR_Entra \/ NR_SinPatotas \/ NR_Fin
  <2>1. UNCHANGED <<cola, tcb, inicios, ctx>> /\ ~EnMano("NR")
    BY <1>4 DEF NR_Entra, NR_SinPatotas, NR_Fin, En, EnMano, externo, sabotaje
  <2>2. OtrasManos("NR") /\ ~EnMano("NR")'
    BY <1>2, <1>3, <1>4 DEF NR_Entra, NR_SinPatotas, NR_Fin, ConTCB
  <2> QED BY <1>1, <2>1, <2>2, QuedanCon, CalmaQuieta
<1>5. CASE NR_IniciarPatota
  <2>1. UNCHANGED <<cola, tcb, inicios, ctx>> /\ ~EnMano("NR")
    BY <1>5 DEF NR_IniciarPatota, En, EnMano, sabotaje
  <2>2. OtrasManos("NR") /\ ~EnMano("NR")'
    <3>1. CASE UNCHANGED anillo
      BY <2>1, <3>1 DEF anillo, OtrasManos, EnMano
    <3>2. CASE Ir("NR", "tareas", MinTid(Miembros(Head(buffers))))
      BY <1>2, <1>3, <3>2 DEF ConTCB
    <3> QED BY <1>5, <3>1, <3>2 DEF NR_IniciarPatota
  <2> QED BY <1>1, <2>1, <2>2, QuedanCon, CalmaQuieta
<1>6. CASE NR_PrimeraTarea
  <2> DEFINE t == actual["NR"]
  <2>1. UNCHANGED <<cola, inicios, ctx>> /\ ~EnMano("NR") /\ lbl["NR"] = "tareas" /\ t \in Trips
    BY <1>6 DEF NR_PrimeraTarea, En, EnMano, sabotaje, externo, EnTareas
  <2>2. OtrasManos("NR") /\ ~EnMano("NR")'
    BY <1>2, <1>3, <1>6 DEF NR_PrimeraTarea, ConTCB
  <2>3. Quedan
    BY <1>1, <2>1, <2>2, QuedanCon
  <2>4. tcb \in [Trips -> TCB]
    BY DEF Tipos, TipoTCB
  <2> HIDE DEF t
  <2>5. /\ \A u \in Trips \ {t} : tcb'[u] = tcb[u]
        /\ tcb'[t].est \in {"R", "X"} /\ tcb'[t].ciclos = tcb[t].ciclos /\ tcb'[t].ini = tcb[t].ini
        /\ tcb'[t].vivo = tcb[t].vivo
    BY <1>6, <2>1, <2>4 DEF NR_PrimeraTarea, TCB, t
  <2>6. Salvo(t) /\ inicios'[t] = inicios[t] /\ t = actual["NR"]
    BY <2>1, <2>5 DEF Salvo, Intacto, Igual, t
  <2>7. UNCHANGED <<buffers, listaPCB>> /\ caida = "no"
    BY <1>6 DEF NR_PrimeraTarea, En, patotas
  <2>8. lbl'["NR"] = "tareas" => actual'["NR"] > t
    <3> DEFINE u == SiguienteTid(t)
    <3>1. Ir("NR", IF u = Nadie THEN "iniciar" ELSE "tareas", u)
      BY <1>6 DEF NR_PrimeraTarea, t
    <3>2. u # Nadie => u > t
      BY <2>1, SiguienteDespues
    <3> HIDE DEF u
    <3> QED BY <1>2, <3>1, <3>2
  <2> QED BY <1>1, <2>1, <2>3, <2>5, <2>6, <2>7, <2>8 DEF Primera, Clase
<1>7. CASE NR_Sacar
  <2> DEFINE t == Head(cola["new"])
  <2>1. Esta("new", t) /\ "new" \in Colas
    BY <1>7, ToSetTipo DEF NR_Sacar, Tipos, TipoColas, Colas, Esta
  <2>2. OtrasManos("NR") /\ ~EnMano("NR") /\ EnMano("NR")' /\ actual'["NR"] = t
    BY <1>2, <1>7 DEF NR_Sacar, En, EnMano
  <2>3. t \in Trips /\ Ocupa("new", t) /\ Cruza(t, "NR")
    BY <1>1, <1>7, <2>1, <2>2, CruzaToma DEF NR_Sacar
  <2> HIDE DEF t
  <2>4. UNCHANGED <<tcb, inicios, ctx>>
    BY <1>7 DEF NR_Sacar, sabotaje, externo
  <2>5. Salvo(t) /\ Igual(t) /\ tcb'[t].est = tcb[t].est
    BY <2>3, <2>4, UnEstado
  <2>6. DeEtapa(t, "new", "NR", tcb'[t].est)
    BY <1>1, <2>5 DEF DeEtapa
  <2>7. Cambia(t, "new", "NR", tcb'[t].est)
    BY <2>3, <2>4, <2>5, <2>6 DEF Cambia
  <2> QED BY <1>1, <2>1, <2>3, <2>7 DEF Cambio, Clase, Lugares
<1>8. CASE NR_Poner
  <2> DEFINE t == actual["NR"]
             a == DestinoNew(t)
  <2>1. a \in Colas /\ EnMano("NR")
    BY <1>8 DEF NR_Poner, En, EnMano, DestinoNew, Colas
  <2>2. OtrasManos("NR") /\ ~EnMano("NR")'
    BY <1>2, <1>3, <1>8 DEF NR_Poner, ConTCB
  <2>3. t \in Trips /\ Ocupa("NR", t) /\ Cruza(t, a)
    BY <1>1, <1>8, <2>1, <2>2, CruzaDeja DEF NR_Poner
  <2> HIDE DEF t
  <2>4. UNCHANGED <<tcb, inicios, ctx>>
    BY <1>8 DEF NR_Poner, sabotaje, externo
  <2>5. Salvo(t) /\ Igual(t) /\ tcb'[t].est = tcb[t].est
    BY <2>3, <2>4, UnEstado
  <2>6. DeEtapa(t, "NR", a, tcb'[t].est)
    BY <1>1, <2>5 DEF DeEtapa
  <2>7. Cambia(t, "NR", a, tcb'[t].est)
    BY <2>3, <2>4, <2>5, <2>6 DEF Cambia
  <2> QED BY <1>1, <2>1, <2>3, <2>7 DEF Cambio, Clase, Lugares
<1> QED BY <1>4, <1>5, <1>6, <1>7, <1>8 DEF NewReady

(* The passes over exec. *)
LEMMA ClaseRecorreExec ==
  ASSUME Tipos, LugarOK, Ficha, NEW e \in Recorridos, RecorreExec(e)
  PROVE  Clase
<1>1. e \in Etapas /\ ~EnMano(e) /\ "exec" \in Colas /\ Destino[e] \in Colas \ {"exec"}
  BY DEF Recorridos, Etapas, EnMano, Colas, Destino
<1>2. \A l, t, s : (Ir(e, l, t) /\ l \notin ConTCB) \/ Terminar(e, s) => OtrasManos(e) /\ ~EnMano(e)'
  BY <1>1, ManosDeUna, NoTomaIr, NoTomaTerminar
<1>3. CASE Recorrer(e)
  <2>1. UNCHANGED <<cola, tcb, inicios, ctx>> /\ OtrasManos(e) /\ ~EnMano(e)'
    BY <1>2, <1>3 DEF Recorrer, externo, sabotaje, ConTCB
  <2> QED BY <1>1, <2>1, QuedanCon, CalmaQuieta
<1>4. CASE VisitarLiberado(e)
  <2>1. UNCHANGED <<cola, tcb, inicios, ctx, lbl, actual>>
    BY <1>4 DEF VisitarLiberado, externo, sabotaje, anillo
  <2> QED BY <2>1, QuedanTodos, CalmaQuieta DEF EnMano
<1>5. CASE Visitar(e)
  <2> DEFINE t == actual[e]
  <2>1. UNCHANGED <<tcb, inicios, ctx>> /\ Esta("exec", t)
    BY <1>5 DEF Visitar, sabotaje
  <2>2. OtrasManos(e) /\ ~EnMano(e)'
    BY <1>2, <1>5 DEF Visitar, Avanzar, ConTCB
  <2>3. CASE tcb[t].est = Estado[e]
    <3>1. t \in Trips /\ Ocupa("exec", t) /\ Cruza(t, Destino[e])
      BY <1>1, <1>5, <2>1, <2>2, <2>3, CruzaMueve DEF Visitar
    <3>2. NadieActua
      <4>1. Trabaja(e) /\ e # "RE"
        BY <1>5 DEF Visitar, En, Trabaja, Recorridos
      <4> QED BY <1>1, <4>1, EtapaSola
    <3> HIDE DEF t
    <3>3. UNCHANGED <<tcb, inicios, ctx>>
      BY <1>5 DEF Visitar, sabotaje
    <3>4. Salvo(t) /\ Igual(t) /\ tcb'[t].est = tcb[t].est
      BY <3>1, <3>3, UnEstado
    <3>5. DeEtapa(t, "exec", Destino[e], tcb'[t].est)
      BY <2>3, <3>2, <3>4 DEF DeEtapa
    <3>6. Cambia(t, "exec", Destino[e], tcb'[t].est)
      BY <3>1, <3>3, <3>4, <3>5 DEF Cambia
    <3> QED BY <1>1, <3>1, <3>6 DEF Cambio, Clase, Lugares
  <2>4. CASE tcb[t].est # Estado[e]
    <3>1. UNCHANGED <<cola, tcb, inicios, ctx>>
      BY <1>5, <2>4 DEF Visitar, sabotaje
    <3> QED BY <1>1, <2>2, <3>1, QuedanCon, CalmaQuieta
  <2> QED BY <2>3, <2>4
<1> QED BY <1>3, <1>4, <1>5 DEF RecorreExec

(* Ready->Exec. *)
LEMMA ClaseReadyExec ==
  ASSUME Tipos, LugarOK, Ficha, ReadyExec
  PROVE  Clase
<1>1. "RE" \in Etapas /\ (~Avisando /\ Trabaja("RE") => NadieActua)
  BY EtapaSola DEF Etapas
<1>2. \A l, t, s : Ir("RE", l, t) \/ Terminar("RE", s) =>
        OtrasManos("RE") /\ (Ir("RE", l, t) => lbl'["RE"] = l /\ actual'["RE"] = t)
  BY <1>1, ManosDeUna
<1>3. \A l, t, s : (Ir("RE", l, t) /\ l \notin ConTCB) \/ Terminar("RE", s) => ~EnMano("RE")'
  BY <1>1, NoTomaIr, NoTomaTerminar
<1>4. CASE RE_Entra \/ RE_Lleno \/ RE_Contar \/ RE_Empezar \/ RE_Avisar
  <2>1. UNCHANGED <<cola, tcb, inicios, ctx>> /\ ~EnMano("RE")
    BY <1>4 DEF RE_Entra, RE_Lleno, RE_Contar, RE_Empezar, RE_Avisar, En, EnMano, externo, sabotaje
  <2>2. OtrasManos("RE") /\ ~EnMano("RE")'
    <3>1. CASE RE_Entra \/ RE_Lleno
      BY <1>2, <1>3, <3>1 DEF RE_Entra, RE_Lleno, ConTCB
    <3>2. CASE RE_Contar \/ RE_Empezar
      BY <1>2, <1>3, <3>2 DEF RE_Contar, RE_Empezar, ConTCB
    <3>3. CASE RE_Avisar
      BY <1>2, <1>3, <3>3 DEF RE_Avisar, ConTCB
    <3> QED BY <1>4, <3>1, <3>2, <3>3
  <2> QED BY <1>1, <2>1, <2>2, QuedanCon, CalmaQuieta
<1>5. CASE VisitarLiberado("RE")
  <2>1. UNCHANGED <<cola, tcb, inicios, ctx, lbl, actual>>
    BY <1>5 DEF VisitarLiberado, externo, sabotaje, anillo
  <2> QED BY <2>1, QuedanTodos, CalmaQuieta DEF EnMano
<1>6. CASE RE_Sacar
  <2> DEFINE t == Head(cola["ready"])
  <2>1. Esta("ready", t) /\ "ready" \in Colas
    BY <1>6, ToSetTipo DEF RE_Sacar, HayLugar, Tipos, TipoColas, Colas, Esta
  <2>2. OtrasManos("RE") /\ ~EnMano("RE") /\ EnMano("RE")' /\ actual'["RE"] = t
    BY <1>2, <1>6 DEF RE_Sacar, En, EnMano
  <2>3. t \in Trips /\ Ocupa("ready", t) /\ Cruza(t, "RE")
    BY <1>1, <1>6, <2>1, <2>2, CruzaToma DEF RE_Sacar
  <2>4. NadieActua
    BY <1>1, <1>6 DEF RE_Sacar, En, Trabaja, Avisando
  <2> HIDE DEF t
  <2>5. UNCHANGED <<tcb, inicios, ctx>>
    BY <1>6 DEF RE_Sacar, sabotaje, externo
  <2>6. Salvo(t) /\ Igual(t) /\ tcb'[t].est = tcb[t].est
    BY <2>3, <2>5, UnEstado
  <2>7. DeEtapa(t, "ready", "RE", tcb'[t].est)
    BY <2>4, <2>6 DEF DeEtapa
  <2>8. Cambia(t, "ready", "RE", tcb'[t].est)
    BY <2>3, <2>5, <2>6, <2>7 DEF Cambia
  <2> QED BY <1>1, <2>1, <2>3, <2>8 DEF Cambio, Clase, Lugares
<1>7. CASE RE_Poner
  <2> DEFINE t == actual["RE"]
  <2>1. "exec" \in Colas /\ EnMano("RE") /\ NadieActua
    BY <1>1, <1>7 DEF RE_Poner, En, EnMano, Colas, Trabaja, Avisando
  <2>2. OtrasManos("RE") /\ ~EnMano("RE")'
    BY <1>2, <1>3, <1>7 DEF RE_Poner, ConTCB
  <2>3. t \in Trips /\ Ocupa("RE", t) /\ Cruza(t, "exec")
    BY <1>1, <1>7, <2>1, <2>2, CruzaDeja DEF RE_Poner
  <2>4. tcb' = [tcb EXCEPT ![t].est = "E"] /\ inicios' = inicios /\ ctx' = ctx
    BY <1>7 DEF RE_Poner, sabotaje, externo
  <2> HIDE DEF t
  <2>5. Salvo(t) /\ Igual(t) /\ tcb'[t].est = "E"
    BY <2>3, <2>4, UnEstado
  <2>6. DeEtapa(t, "RE", "exec", tcb'[t].est)
    BY <2>1, <2>5 DEF DeEtapa
  <2>7. Cambia(t, "RE", "exec", tcb'[t].est)
    BY <2>3, <2>4, <2>5, <2>6 DEF Cambia
  <2> QED BY <1>1, <2>1, <2>3, <2>7 DEF Cambio, Clase, Lugares
<1> QED BY <1>4, <1>5, <1>6, <1>7 DEF ReadyExec

(* pedirProximaTarea leaves the TCB as it was but for its task, or ends it. *)
LEMMA ProximaDe ==
  ASSUME NEW t \in Trips, NEW r \in TCB
  PROVE  /\ Proxima(r, t) \in TCB
         /\ Proxima(r, t).ciclos = r.ciclos /\ Proxima(r, t).ini = r.ini /\ Proxima(r, t).vivo = r.vivo
         /\ Proxima(r, t).est \in {r.est, "X"}
<1>1. Proxima(r, t) \in TCB
  BY ProximaTipo
<1>2. CASE r.tarea < Len(TareasDe(t))
  BY <1>1, <1>2 DEF Proxima, TCB
<1>3. CASE ~(r.tarea < Len(TareasDe(t)))
  BY <1>1, <1>3 DEF Proxima, TCB
<1> QED BY <1>2, <1>3

(* Bloqueado por IO. *)
LEMMA ClaseBloqIO ==
  ASSUME Tipos, LugarOK, Ficha, BloqIO
  PROVE  Clase
<1>1. "BLOCKIO" \in Etapas /\ NadieActua /\ tcb \in [Trips -> TCB]
  <2>1. Trabaja("BLOCKIO")
    BY SigueBloqIO
  <2> QED BY <2>1, EtapaSola DEF Etapas, Tipos, TipoTCB
<1>2. \A l, t, s : Ir("BLOCKIO", l, t) \/ Terminar("BLOCKIO", s) =>
        OtrasManos("BLOCKIO") /\ (Ir("BLOCKIO", l, t) => lbl'["BLOCKIO"] = l /\ actual'["BLOCKIO"] = t)
  BY <1>1, ManosDeUna
<1>3. \A l, t, s : (Ir("BLOCKIO", l, t) /\ l \notin ConTCB) \/ Terminar("BLOCKIO", s) => ~EnMano("BLOCKIO")'
  BY <1>1, NoTomaIr, NoTomaTerminar
<1>4. CASE BIO_Entra \/ BIO_Salir
  <2>1. UNCHANGED <<cola, tcb, inicios, ctx>> /\ ~EnMano("BLOCKIO")
    BY <1>4 DEF BIO_Entra, BIO_Salir, En, EnMano, externo, sabotaje
  <2>2. OtrasManos("BLOCKIO") /\ ~EnMano("BLOCKIO")'
    BY <1>2, <1>3, <1>4 DEF BIO_Entra, BIO_Salir, ConTCB
  <2> QED BY <1>1, <2>1, <2>2, QuedanCon, CalmaQuieta
<1>5. CASE BIO_Contar
  <2> DEFINE t == actual["BLOCKIO"]
             u == Head(cola["bio"])
  <2>1. ~EnMano("BLOCKIO") /\ inicios' = inicios /\ ctx' = ctx
    BY <1>5 DEF BIO_Contar, En, EnMano, externo, sabotaje
  <2>2. ASSUME NEW n, NEW w, NEW v \in Trips,
               tcb' \in {tcb, [tcb EXCEPT ![t].tIO = n], [[tcb EXCEPT ![t].tIO = n] EXCEPT ![w].tIO = 0]}
        PROVE  Intacto(v)
    <3>1. /\ tcb'[v].ciclos = tcb[v].ciclos /\ tcb'[v].ini = tcb[v].ini /\ tcb'[v].vivo = tcb[v].vivo
          /\ tcb'[v].instr = tcb[v].instr /\ tcb'[v].est = tcb[v].est
      <4> DEFINE r == [tcb EXCEPT ![t].tIO = n]
      <4>1. /\ r[v].ciclos = tcb[v].ciclos /\ r[v].ini = tcb[v].ini /\ r[v].vivo = tcb[v].vivo
            /\ r[v].instr = tcb[v].instr /\ r[v].est = tcb[v].est
            /\ r[v] = [ i \in DOMAIN tcb[v] |-> r[v][i] ] /\ DOMAIN r = Trips
            /\ DOMAIN tcb[v] = {"est", "tarea", "instr", "tExec", "tIO", "ciclos", "cumplido", "ini", "vivo", "x", "y"}
        BY <1>1 DEF TCB
      <4> HIDE DEF r
      <4>2. tcb' = tcb \/ tcb' = r \/ tcb' = [r EXCEPT ![w].tIO = 0]
        BY <2>2 DEF r
      <4> QED BY <4>1, <4>2
    <3> QED BY <2>1, <3>1 DEF Intacto, Igual
  <2>3. \A v \in Trips : Intacto(v)
    <3> DEFINE n == IF tcb[t].tIO # tcb[t].instr.t THEN tcb[t].tIO + 1 ELSE tcb[t].tIO
    <3>1. tcb' \in {tcb, [tcb EXCEPT ![t].tIO = n], [[tcb EXCEPT ![t].tIO = n] EXCEPT ![u].tIO = 0]}
      BY <1>5 DEF BIO_Contar
    <3> HIDE DEF n, t, u
    <3> QED BY <2>2, <3>1
  <2>4. CASE Ir("BLOCKIO", "salir", Nadie) /\ UNCHANGED cola
    <3>1. OtrasManos("BLOCKIO") /\ ~EnMano("BLOCKIO")'
      BY <1>2, <1>3, <2>4 DEF ConTCB
    <3>2. Quedan
      BY <1>1, <2>1, <2>4, <3>1, QuedanCon
    <3> QED BY <2>1, <2>3, <3>2 DEF Calma, Clase
  <2>5. CASE UNCHANGED <<anillo, cola>>
    <3>1. Quedan
      BY <2>5, QuedanTodos DEF anillo, EnMano
    <3> QED BY <2>1, <2>3, <3>1 DEF Calma, Clase
  <2>6. CASE cola["bio"] # <<>> /\ Ir("BLOCKIO", "pedir", u) /\ Sacar("bio", u)
    <3>1. Esta("bio", u) /\ "bio" \in Colas
      BY <2>6, ToSetTipo DEF Tipos, TipoColas, Colas, Esta
    <3>2. OtrasManos("BLOCKIO") /\ EnMano("BLOCKIO")' /\ actual'["BLOCKIO"] = u
      BY <1>2, <2>6 DEF EnMano
    <3>3. u \in Trips /\ Ocupa("bio", u) /\ Cruza(u, "BLOCKIO")
      BY <1>1, <2>1, <2>6, <3>1, <3>2, CruzaToma
    <3> HIDE DEF u
    <3>4. Salvo(u) /\ Igual(u) /\ tcb'[u].est = tcb[u].est
      BY <2>3, <3>3 DEF Salvo, Intacto
    <3>5. DeEtapa(u, "bio", "BLOCKIO", tcb'[u].est)
      BY <1>1, <3>4 DEF DeEtapa
    <3>6. Cambia(u, "bio", "BLOCKIO", tcb'[u].est)
      BY <2>1, <3>3, <3>4, <3>5 DEF Cambia
    <3> QED BY <1>1, <3>1, <3>3, <3>6 DEF Cambio, Clase, Lugares
  <2> QED BY <1>5, <2>4, <2>5, <2>6 DEF BIO_Contar
<1>6. CASE BIO_Pedir
  <2> DEFINE t == actual["BLOCKIO"]
             r == Proxima(tcb[t], t)
  <2>1. EnMano("BLOCKIO") /\ ctx' = ctx /\ inicios' = [inicios EXCEPT ![t] = 0]
    BY <1>6 DEF BIO_Pedir, En, EnMano, sabotaje
  <2>2. OtrasManos("BLOCKIO") /\ ~EnMano("BLOCKIO")'
    BY <1>2, <1>3, <1>6 DEF BIO_Pedir, ConTCB
  <2>3. t \in Trips /\ Ocupa("BLOCKIO", t)
    BY <1>1, <2>1, LugaresDistintos DEF Tipos, AnilloOK, EnMano, ConTCB, Ocupa
  <2>4. /\ r \in TCB /\ r.ciclos = tcb[t].ciclos /\ r.ini = tcb[t].ini /\ r.vivo = tcb[t].vivo
    BY <1>1, <2>3, ProximaDe
  <2>5. inicios \in [Trips -> Nat]
    BY DEF Tipos, TipoExterno
  <2>6. CASE tcb' = [tcb EXCEPT ![t] = [r EXCEPT !.est = "R"]] /\ Poner("ready", t)
    <3>1. Cruza(t, "ready")
      BY <1>1, <2>1, <2>2, <2>6, CruzaDeja DEF Colas
    <3> HIDE DEF t, r
    <3>2. tcb'[t] = [r EXCEPT !.est = "R"] /\ \A u \in Trips \ {t} : tcb'[u] = tcb[u]
      BY <1>1, <2>3, <2>6
    <3>3. /\ tcb'[t].ciclos = tcb[t].ciclos /\ tcb'[t].ini = tcb[t].ini /\ tcb'[t].vivo = tcb[t].vivo
          /\ tcb'[t].est = "R"
      BY <2>4, <3>2 DEF TCB
    <3>4. Salvo(t) /\ inicios'[t] = 0
      BY <2>1, <2>3, <2>5, <3>2 DEF Salvo, Intacto, Igual
    <3> QED BY <1>1, <2>1, <2>3, <3>1, <3>3, <3>4 DEF Devuelve, Clase
  <2>7. CASE r.est = "X" /\ tcb' = [tcb EXCEPT ![t] = r] /\ UNCHANGED cola
    <3>1. "ninguno" \notin Lugares
      BY DEF Lugares, Colas, Etapas
    <3>2. Cruza(t, "ninguno")
      BY <1>1, <2>1, <2>2, <2>7, <3>1, CruzaPierde
    <3> HIDE DEF t, r
    <3>3. tcb'[t] = r /\ \A u \in Trips \ {t} : tcb'[u] = tcb[u]
      BY <1>1, <2>3, <2>7
    <3>4. Salvo(t) /\ inicios'[t] = 0
      BY <2>1, <2>3, <2>5, <3>3 DEF Salvo, Intacto, Igual
    <3> QED BY <1>1, <2>1, <2>3, <2>4, <2>7, <3>2, <3>3, <3>4 DEF Devuelve, Clase
  <2> QED BY <1>6, <2>6, <2>7 DEF BIO_Pedir
<1> QED BY <1>4, <1>5, <1>6 DEF BloqIO

(* To bloqueado por emergencia. *)
LEMMA ClaseAEmergencia ==
  ASSUME Tipos, LugarOK, Ficha, AEmergencia
  PROVE  Clase
<1>1. "ERM" \in Etapas /\ NadieActua /\ tcb \in [Trips -> TCB]
  <2>1. Trabaja("ERM")
    BY SigueAEmergencia
  <2> QED BY <2>1, EtapaSola DEF Etapas, Tipos, TipoTCB
<1>2. \A l, t, s : Ir("ERM", l, t) \/ Terminar("ERM", s) =>
        OtrasManos("ERM") /\ (Ir("ERM", l, t) => lbl'["ERM"] = l /\ actual'["ERM"] = t)
  BY <1>1, ManosDeUna
<1>3. \A l, t, s : (Ir("ERM", l, t) /\ l \notin ConTCB) \/ Terminar("ERM", s) => ~EnMano("ERM")'
  BY <1>1, NoTomaIr, NoTomaTerminar
<1>4. CASE ERM_Entra
  <2>1. UNCHANGED <<cola, tcb, inicios, ctx>> /\ ~EnMano("ERM")
    BY <1>4 DEF ERM_Entra, En, EnMano, externo
  <2>2. OtrasManos("ERM") /\ ~EnMano("ERM")'
    BY <1>2, <1>3, <1>4 DEF ERM_Entra, ConTCB
  <2> QED BY <1>1, <2>1, <2>2, QuedanCon, CalmaQuieta
<1>5. ASSUME UNCHANGED <<cola, anillo, tcb, inicios, ctx>> PROVE Clase
  <2>1. Quedan
    BY <1>5, QuedanTodos DEF anillo, EnMano
  <2> QED BY <1>5, <2>1, CalmaQuieta
<1>6. CASE ERM_SacarFixer
  <2>1. UNCHANGED <<tcb, inicios, ctx>> /\ ~EnMano("ERM") /\ lbl["ERM"] = "sacarFixer"
    BY <1>6 DEF ERM_SacarFixer, En, EnMano, externo
  <2>3. ~sab'.primer
    BY <1>6 DEF ERM_SacarFixer, Tipos, TipoSabotaje, Sabotajes
  <2>2. ASSUME NEW q \in {"exec", "ready"}, cola[q] # <<>>, Sacar(q, Head(cola[q])),
               Ir("ERM", "restaurar", Head(cola[q]))
        PROVE  Clase
    <3> DEFINE t == Head(cola[q])
    <3>1. q \in Colas /\ Esta(q, t)
      BY <2>2, ToSetTipo DEF Tipos, TipoColas, Colas, Esta
    <3>2. OtrasManos("ERM") /\ EnMano("ERM")' /\ actual'["ERM"] = t
      BY <1>2, <2>2 DEF EnMano
    <3>3. t \in Trips /\ Ocupa(q, t) /\ Cruza(t, "ERM")
      BY <1>1, <2>1, <2>2, <3>1, <3>2, CruzaToma
    <3> HIDE DEF t
    <3>4. Salvo(t) /\ Igual(t) /\ tcb'[t].est = tcb[t].est
      BY <2>1, <3>3, UnEstado
    <3>5. DeEtapa(t, q, "ERM", tcb'[t].est)
      BY <1>1, <2>1, <2>3, <3>4 DEF DeEtapa
    <3>6. Cambia(t, q, "ERM", tcb'[t].est)
      BY <2>1, <3>3, <3>4, <3>5 DEF Cambia
    <3> QED BY <1>1, <3>1, <3>3, <3>6 DEF Cambio, Clase, Lugares
  <2> QED BY <1>5, <1>6, <2>1, <2>2 DEF ERM_SacarFixer
<1>7. CASE ERM_Restaurar
  <2> DEFINE t == actual["ERM"]
             c == Head(ctx)
  <2>1. EnMano("ERM") /\ lbl["ERM"] = "restaurar" /\ inicios' = inicios
    BY <1>7 DEF ERM_Restaurar, En, EnMano, externo
  <2>2. CASE /\ ctx # <<>>
             /\ tcb' = [tcb EXCEPT ![t] = [@ EXCEPT !.est = "M", !.vivo = c.vivo,
                     !.tExec = c.tExec, !.tIO = c.tIO, !.ciclos = c.ciclos, !.instr = c.instr]]
             /\ ctx' = Tail(ctx) /\ Poner("bem", t) /\ Terminar("ERM", "MR")
    <3>1. OtrasManos("ERM") /\ ~EnMano("ERM")'
      BY <1>2, <1>3, <2>2
    <3>2. t \in Trips /\ Ocupa("ERM", t) /\ Cruza(t, "bem")
      BY <1>1, <2>1, <2>2, <3>1, CruzaDeja DEF Colas
    <3> HIDE DEF t, c
    <3>3. /\ \A u \in Trips \ {t} : tcb'[u] = tcb[u]
          /\ tcb'[t].est = "M" /\ tcb'[t].ciclos = c.ciclos /\ tcb'[t].ini = tcb[t].ini
          /\ tcb'[t].vivo = c.vivo
      BY <1>1, <2>2, <3>2 DEF TCB
    <3>4. Salvo(t)
      BY <2>1, <3>3 DEF Salvo, Intacto, Igual
    <3> QED BY <1>1, <2>1, <2>2, <3>2, <3>3, <3>4 DEF Restaura, Clase, c
  <2>3. CASE UNCHANGED <<tcb, ctx, cola, anillo>>
    BY <1>5, <2>1, <2>3
  <2> QED BY <1>7, <2>2, <2>3 DEF ERM_Restaurar
<1>8. CASE ERM_Sacar
  <2> DEFINE q == PorVaciar
             t == MinTid(ToSet(cola[PorVaciar]))
  <2>1. q \in {"exec", "ready"} /\ q \in Colas /\ Esta(q, t)
    <3>1. PorVaciar \in {"exec", "ready"} /\ PorVaciar \in Colas /\ cola[PorVaciar] \in Seq(Trips)
          /\ cola[PorVaciar] # <<>>
      BY <1>8 DEF ERM_Sacar, PorVaciar, Tipos, TipoColas, Colas
    <3>2. ToSet(cola[PorVaciar]) \subseteq Nat /\ ToSet(cola[PorVaciar]) # {}
      BY <3>1, ToSetTipo, ConstantesOK
    <3> QED BY <3>1, <3>2, MinTidPertenece, ToSetTipo, ContieneToSet DEF Esta
  <2>2. OtrasManos("ERM") /\ ~EnMano("ERM") /\ EnMano("ERM")' /\ actual'["ERM"] = t /\ lbl["ERM"] = "vaciar"
    BY <1>2, <1>8 DEF ERM_Sacar, En, EnMano
  <2>3. t \in Trips /\ Ocupa(q, t) /\ Cruza(t, "ERM")
    BY <1>1, <1>8, <2>1, <2>2, CruzaToma DEF ERM_Sacar
  <2>4. UNCHANGED <<tcb, inicios, ctx>>
    BY <1>8 DEF ERM_Sacar, sabotaje, externo
  <2> HIDE DEF q, t
  <2>5. Salvo(t) /\ Igual(t) /\ tcb'[t].est = tcb[t].est
    BY <2>3, <2>4, UnEstado
  <2>6. DeEtapa(t, q, "ERM", tcb'[t].est)
    BY <1>1, <2>1, <2>2, <2>5 DEF DeEtapa
  <2>7. Cambia(t, q, "ERM", tcb'[t].est)
    BY <2>3, <2>4, <2>5, <2>6 DEF Cambia
  <2> QED BY <1>1, <2>1, <2>3, <2>7 DEF Cambio, Clase, Lugares
<1>9. CASE ERM_Poner
  <2> DEFINE t == actual["ERM"]
  <2>1. EnMano("ERM") /\ inicios' = inicios /\ ctx' = ctx
    BY <1>9 DEF ERM_Poner, En, EnMano, externo
  <2>2. OtrasManos("ERM") /\ ~EnMano("ERM")'
    BY <1>2, <1>3, <1>9 DEF ERM_Poner, ConTCB
  <2>3. t \in Trips /\ Ocupa("ERM", t) /\ Cruza(t, "bem") /\ "bem" \in Colas
    BY <1>1, <1>9, <2>1, <2>2, CruzaDeja DEF ERM_Poner, Colas
  <2>4. tcb' = [tcb EXCEPT ![t].est = "M"]
    BY <1>9 DEF ERM_Poner
  <2> HIDE DEF t
  <2>5. Salvo(t) /\ Igual(t) /\ tcb'[t].est = "M"
    BY <2>1, <2>3, <2>4, UnEstado
  <2>6. DeEtapa(t, "ERM", "bem", tcb'[t].est)
    BY <1>1, <2>5 DEF DeEtapa
  <2>7. Cambia(t, "ERM", "bem", tcb'[t].est)
    BY <2>1, <2>3, <2>5, <2>6 DEF Cambia
  <2> QED BY <1>1, <2>3, <2>7 DEF Cambio, Clase, Lugares
<1>10. CASE ERM_Elegir
  <2> DEFINE f == Head(ordenados)
  <2>1. lbl["ERM"] = "vaciar" /\ ~EnMano("ERM") /\ inicios' = inicios
    BY <1>10 DEF ERM_Elegir, En, EnMano, externo
  <2>2. CASE /\ Esta("bem", f) /\ ctx' = Append(ctx, Contexto(f))
             /\ tcb' = [tcb EXCEPT ![f] = [@ EXCEPT !.est = "R", !.ciclos = 0, !.tExec = 0, !.tIO = 0]]
             /\ Mover("bem", "ready", f) /\ Terminar("ERM", "MR")
    <3>1. OtrasManos("ERM") /\ ~EnMano("ERM")'
      BY <1>2, <1>3, <2>2
    <3>2. f \in Trips /\ Ocupa("bem", f) /\ Cruza(f, "ready")
      BY <1>1, <2>1, <2>2, <3>1, CruzaMueve DEF Colas
    <3> HIDE DEF f
    <3>3. /\ \A u \in Trips \ {f} : tcb'[u] = tcb[u]
          /\ tcb'[f].est = "R" /\ tcb'[f].ciclos = 0 /\ tcb'[f].ini = tcb[f].ini
          /\ tcb'[f].vivo = tcb[f].vivo /\ tcb'[f].instr = tcb[f].instr
      BY <1>1, <2>2, <3>2 DEF TCB
    <3>4. Salvo(f)
      BY <2>1, <3>3 DEF Salvo, Intacto, Igual
    <3> QED BY <1>1, <2>1, <2>2, <3>2, <3>3, <3>4 DEF Elige, Clase
  <2>3. CASE UNCHANGED <<ordenados, ctx, tcb, cola, sab, anillo>>
    BY <1>5, <2>1, <2>3
  <2> QED BY <1>10, <2>2, <2>3 DEF ERM_Elegir
<1> QED BY <1>4, <1>6, <1>7, <1>8, <1>9, <1>10 DEF AEmergencia

(* Bloqueado por emergencia -> Ready. *)
LEMMA ClaseAReady ==
  ASSUME Tipos, LugarOK, Ficha, AReady
  PROVE  Clase
<1>1. "MR" \in Etapas /\ NadieActua
  <2>1. Trabaja("MR")
    BY SigueAReady
  <2> QED BY <2>1, EtapaSola DEF Etapas
<1>2. \A l, t, s : Ir("MR", l, t) \/ Terminar("MR", s) =>
        OtrasManos("MR") /\ (Ir("MR", l, t) => lbl'["MR"] = l /\ actual'["MR"] = t)
  BY <1>1, ManosDeUna
<1>3. \A l, t, s : (Ir("MR", l, t) /\ l \notin ConTCB) \/ Terminar("MR", s) => ~EnMano("MR")'
  BY <1>1, NoTomaIr, NoTomaTerminar
<1>4. CASE MR_Entra \/ MR_Resolver
  <2>1. UNCHANGED <<cola, tcb, inicios, ctx>> /\ ~EnMano("MR")
    BY <1>4 DEF MR_Entra, MR_Resolver, En, EnMano, externo, sabotaje
  <2>2. OtrasManos("MR") /\ ~EnMano("MR")'
    BY <1>2, <1>3, <1>4 DEF MR_Entra, MR_Resolver, ConTCB
  <2> QED BY <1>1, <2>1, <2>2, QuedanCon, CalmaQuieta
<1>5. CASE MR_Sacar
  <2> DEFINE t == Head(cola["bem"])
  <2>1. Esta("bem", t) /\ "bem" \in Colas
    BY <1>5, ToSetTipo DEF MR_Sacar, Tipos, TipoColas, Colas, Esta
  <2>2. OtrasManos("MR") /\ ~EnMano("MR") /\ EnMano("MR")' /\ actual'["MR"] = t /\ lbl["MR"] = "vaciar"
    BY <1>2, <1>5 DEF MR_Sacar, En, EnMano
  <2>3. t \in Trips /\ Ocupa("bem", t) /\ Cruza(t, "MR")
    BY <1>1, <1>5, <2>1, <2>2, CruzaToma DEF MR_Sacar
  <2> HIDE DEF t
  <2>4. UNCHANGED <<tcb, inicios, ctx>>
    BY <1>5 DEF MR_Sacar, sabotaje, externo
  <2>5. Salvo(t) /\ Igual(t) /\ tcb'[t].est = tcb[t].est
    BY <2>3, <2>4, UnEstado
  <2>6. DeEtapa(t, "bem", "MR", tcb'[t].est)
    BY <1>1, <2>2, <2>5 DEF DeEtapa
  <2>7. Cambia(t, "bem", "MR", tcb'[t].est)
    BY <2>3, <2>4, <2>5, <2>6 DEF Cambia
  <2> QED BY <1>1, <2>1, <2>3, <2>7 DEF Cambio, Clase, Lugares
<1>6. CASE MR_Poner
  <2> DEFINE t == actual["MR"]
  <2>1. EnMano("MR") /\ inicios' = inicios /\ ctx' = ctx
    BY <1>6 DEF MR_Poner, En, EnMano, externo, sabotaje
  <2>2. OtrasManos("MR") /\ ~EnMano("MR")'
    BY <1>2, <1>3, <1>6 DEF MR_Poner, ConTCB
  <2>3. t \in Trips /\ Ocupa("MR", t) /\ Cruza(t, "ready") /\ "ready" \in Colas
    BY <1>1, <1>6, <2>1, <2>2, CruzaDeja DEF MR_Poner, Colas
  <2>4. tcb' = [tcb EXCEPT ![t].est = "R"]
    BY <1>6 DEF MR_Poner
  <2> HIDE DEF t
  <2>5. Salvo(t) /\ Igual(t) /\ tcb'[t].est = "R"
    BY <2>1, <2>3, <2>4, UnEstado
  <2>6. DeEtapa(t, "MR", "ready", tcb'[t].est)
    BY <1>1, <2>5 DEF DeEtapa
  <2>7. Cambia(t, "MR", "ready", tcb'[t].est)
    BY <2>1, <2>3, <2>5, <2>6 DEF Cambia
  <2> QED BY <1>1, <2>3, <2>7 DEF Cambio, Clase, Lugares
<1> QED BY <1>4, <1>5, <1>6 DEF AReady

(* The end of a cycle of the ring, and its start. *)
LEMMA ClaseAnillo ==
  ASSUME Tipos, LugarOK, Ficha,
         EXIT_Cerrar \/ TomarPausar \/ \E e \in Etapas : Despertar(e)
  PROVE  Clase
<1>1. lbl \in [Etapas -> Rotulos] /\ tcb \in [Trips -> TCB]
  BY DEF Tipos, AnilloOK, TipoAnillo, TipoTCB
<1>2. CASE TomarPausar \/ \E e \in Etapas : Despertar(e)
  <2>1. UNCHANGED <<cola, tcb, inicios, ctx, actual>> /\ \A f \in Etapas : EnMano(f)' <=> EnMano(f)
    BY <1>1, <1>2 DEF TomarPausar, Despertar, En, EnMano, sabotaje, externo, Etapas
  <2> QED BY <2>1, QuedanTodos, CalmaQuieta
<1>3. CASE EXIT_Cerrar
  <2>1. UNCHANGED <<cola, inicios, ctx, actual>> /\ \A f \in Etapas : EnMano(f)' <=> EnMano(f)
    BY <1>1, <1>3 DEF EXIT_Cerrar, En, EnMano, sabotaje, Etapas
  <2>2. Quedan
    BY <2>1, QuedanTodos
  <2>3. NadieActua
    <3>1. Trabaja("EXIT") /\ "EXIT" \in Etapas
      BY <1>3 DEF EXIT_Cerrar, En, Trabaja, Etapas
    <3> QED BY <3>1, EtapaSola
  <2>4. ASSUME NEW t \in Trips
        PROVE  /\ tcb'[t].est = tcb[t].est /\ tcb'[t].ciclos = tcb[t].ciclos /\ tcb'[t].ini = tcb[t].ini
               /\ tcb'[t].instr = tcb[t].instr /\ inicios'[t] = inicios[t]
               /\ tcb'[t].vivo = tcb[t].vivo \/ Ocupa("exit", t)
    <3> DEFINE v == tcb[t].vivo /\ ~(viva /\ cola["exit"] # <<>> /\ Esta("exit", t))
               c == tcb[t].cumplido /\ ~(viva /\ t \in EnColas(Activas \ {"new"}))
    <3>1. tcb'[t] = [tcb[t] EXCEPT !.vivo = v, !.cumplido = c]
      BY <1>3 DEF EXIT_Cerrar
    <3>2. v = tcb[t].vivo \/ Ocupa("exit", t)
      <4>1. tcb[t].vivo \in BOOLEAN
        BY <1>1 DEF TCB
      <4>2. ~Esta("exit", t) => v = tcb[t].vivo
        BY <4>1, Zenon
      <4> QED BY <4>2 DEF Ocupa, Colas
    <3> HIDE DEF v, c
    <3>3. /\ tcb'[t].est = tcb[t].est /\ tcb'[t].ciclos = tcb[t].ciclos /\ tcb'[t].ini = tcb[t].ini
          /\ tcb'[t].instr = tcb[t].instr /\ tcb'[t].vivo = v
      BY <1>1, <3>1 DEF TCB
    <3> QED BY <2>1, <3>2, <3>3
  <2> QED BY <2>1, <2>2, <2>3, <2>4 DEF Cierra, Clase
<1> QED BY <1>2, <1>3

(* What the end of a cycle does to the counter of cycles. *)
LEMMA PreemptarDe ==
  ASSUME NEW r \in TCB, NEW n \in Nat
  PROVE  /\ Preemptar(r, n).ini = r.ini /\ Preemptar(r, n).vivo = r.vivo /\ Preemptar(r, n).instr = r.instr
         /\ Preemptar(r, n).est \in {r.est, "R"}
         /\ Preemptar(r, n).ciclos = IF Corta(n) THEN 0 ELSE n
<1>1. CASE Corta(n)
  BY <1>1 DEF Preemptar, TCB
<1>2. CASE ~Corta(n)
  BY <1>2 DEF Preemptar, TCB
<1> QED BY <1>1, <1>2

(* Nor does a move on the map, nor the mark of the cycle, do more to it.    *)
LEMMA PasoDe ==
  ASSUME NEW r \in TCB, NEW p, p.x \in Nat, p.y \in Nat
  PROVE  /\ Paso(r, p) \in TCB
         /\ Paso(r, p).ini = r.ini /\ Paso(r, p).vivo = r.vivo /\ Paso(r, p).instr = r.instr
         /\ Paso(r, p).est = r.est /\ Paso(r, p).ciclos = r.ciclos
<1>1. Paso(r, p) \in TCB
  BY PasoTipo
<1> QED BY <1>1 DEF Paso, TCB

(* Nor does the mark that its cycle is done. *)
LEMMA CumplioDe ==
  ASSUME TipoTCB, NEW t \in Trips
  PROVE  /\ Cumplio(t) \in TCB
         /\ Cumplio(t).ini = tcb[t].ini /\ Cumplio(t).vivo = tcb[t].vivo /\ Cumplio(t).instr = tcb[t].instr
         /\ Cumplio(t).est = tcb[t].est /\ Cumplio(t).ciclos = tcb[t].ciclos
<1>1. Cumplio(t) \in TCB /\ tcb[t] \in TCB
  BY CumplioTipo
<1> QED BY <1>1 DEF Cumplio, TCB

(* What a tripulante does in its cycle: fixes the sabotage or goes there,   *)
(* or works on its task.                                                    *)
LEMMA CicloDeActuar ==
  ASSUME Tipos, NEW t \in Trips, Actuar(t) \/ Reparar(t)
  PROVE  Salvo(t) /\ tcb'[t].vivo = tcb[t].vivo /\ Contado(t) /\ Hecho(t)
<1> DEFINE c == Cumplio(t)
           n == tcb[t].ciclos + 1
           i == tcb[t].instr
<1>1. /\ tcb \in [Trips -> TCB] /\ inicios \in [Trips -> Nat] /\ n \in Nat /\ i \in Tarea
      /\ i.x \in Nat /\ i.y \in Nat /\ i.io \in BOOLEAN /\ sab.pos.x \in Nat /\ sab.pos.y \in Nat
      /\ tcb[t].ciclos \in Nat
  <2>1. TipoTCB /\ sab \in Sabotajes
    BY DEF Tipos, TipoSabotaje
  <2>2. sab.pos.x \in Nat /\ sab.pos.y \in Nat
    BY <2>1 DEF Sabotajes, Punto
  <2>3. tcb[t] \in TCB /\ n \in Nat /\ i \in Tarea
    BY <2>1, CumplioTipo
  <2>4. tcb[t].ciclos \in Nat
    BY <2>3 DEF TCB
  <2>5. i.x \in Nat /\ i.y \in Nat /\ i.io \in BOOLEAN
    BY <2>3 DEF Tarea
  <2>6. tcb \in [Trips -> TCB] /\ inicios \in [Trips -> Nat]
    BY DEF Tipos, TipoTCB, TipoExterno
  <2> QED BY <2>2, <2>3, <2>4, <2>5, <2>6
<1>2. /\ c \in TCB /\ c.ini = tcb[t].ini /\ c.vivo = tcb[t].vivo /\ c.instr = tcb[t].instr
      /\ c.est = tcb[t].est /\ c.ciclos = tcb[t].ciclos
  BY CumplioDe DEF Tipos
<1> HIDE DEF c, n, i
<1>3. ASSUME NEW r, tcb' = [tcb EXCEPT ![t] = r], NEW m \in Nat, inicios' = [inicios EXCEPT ![t] = m]
      PROVE  Salvo(t) /\ tcb'[t] = r /\ inicios'[t] = m
  BY <1>1, <1>3 DEF Salvo, Intacto, Igual
<1>4. ASSUME NEW r, tcb' = [tcb EXCEPT ![t] = r], inicios' = inicios
      PROVE  Salvo(t) /\ tcb'[t] = r /\ inicios'[t] = inicios[t]
  BY <1>1, <1>4 DEF Salvo, Intacto, Igual
<1>5. ASSUME NEW r \in TCB, r.ini = tcb[t].ini, r.vivo = tcb[t].vivo, r.instr = tcb[t].instr,
             r.est = tcb[t].est, tcb'[t] = Preemptar(r, n), inicios'[t] = inicios[t]
      PROVE  tcb'[t].vivo = tcb[t].vivo /\ Contado(t) /\ Hecho(t)
  <2>1. /\ Preemptar(r, n).ini = r.ini /\ Preemptar(r, n).vivo = r.vivo /\ Preemptar(r, n).instr = r.instr
        /\ Preemptar(r, n).est \in {r.est, "R"}
        /\ Preemptar(r, n).ciclos = IF Corta(n) THEN 0 ELSE n
    BY <1>1, <1>5, PreemptarDe
  <2>2. Contado(t)
    BY <1>5, <2>1 DEF Contado, n
  <2>3. Hecho(t)
    BY <1>5, <2>1 DEF Hecho
  <2> QED BY <1>5, <2>1, <2>2, <2>3
<1>6. CASE Reparar(t)
  <2>1. tcb' = [tcb EXCEPT ![t] = Preemptar(c, n)] /\ inicios' = inicios
    BY <1>6 DEF Reparar, externo, c, n
  <2>2. Salvo(t) /\ tcb'[t] = Preemptar(c, n) /\ inicios'[t] = inicios[t]
    BY <1>4, <2>1
  <2> QED BY <1>2, <1>5, <2>2
<1>7. CASE IrAlSabotaje(t)
  <2> DEFINE r == Paso(c, sab.pos)
  <2>1. tcb' = [tcb EXCEPT ![t] = Preemptar(r, n)] /\ inicios' = inicios
    BY <1>7 DEF IrAlSabotaje, c, n
  <2>2. r \in TCB /\ r.ini = c.ini /\ r.vivo = c.vivo /\ r.instr = c.instr /\ r.est = c.est
    BY <1>1, <1>2, PasoDe
  <2> HIDE DEF r
  <2>3. Salvo(t) /\ tcb'[t] = Preemptar(r, n) /\ inicios'[t] = inicios[t]
    BY <1>4, <2>1
  <2> QED BY <1>2, <1>5, <2>2, <2>3
<1>8. CASE TareaNormal(t)
  <2>1. ~i.io
    BY <1>8 DEF TareaNormal, i
  <2>2. CASE ~EnPunto(tcb[t], i)
    <3> DEFINE r == Paso(c, i)
    <3>1. tcb' = [tcb EXCEPT ![t] = Preemptar(r, n)] /\ inicios' = [inicios EXCEPT ![t] = inicios[t]]
      BY <1>8, <2>2 DEF TareaNormal, c, n, i
    <3>2. r \in TCB /\ r.ini = c.ini /\ r.vivo = c.vivo /\ r.instr = c.instr /\ r.est = c.est
      BY <1>1, <1>2, PasoDe
    <3> HIDE DEF r
    <3>3. Salvo(t) /\ tcb'[t] = Preemptar(r, n) /\ inicios'[t] = inicios[t]
      BY <1>1, <1>3, <3>1
    <3> QED BY <1>2, <1>5, <3>2, <3>3
  <2>3. CASE EnPunto(tcb[t], i) /\ tcb[t].tExec + 1 = i.t
    <3> DEFINE b == [c EXCEPT !.tExec = 0, !.ini = FALSE]
               r == Proxima(b, t)
               s == IF r.est = "X" THEN [r EXCEPT !.ciclos = n] ELSE Preemptar(r, n)
    <3>1. tcb' = [tcb EXCEPT ![t] = s] /\ inicios' = [inicios EXCEPT ![t] = 0]
      BY <1>8, <2>3 DEF TareaNormal, c, n, i
    <3>2. b \in TCB /\ b.ini = FALSE /\ b.vivo = c.vivo /\ b.est = c.est
      <4>1. b \in TCB
        BY <1>2, CicloTipo
      <4> QED BY <1>2, <4>1 DEF TCB
    <3> HIDE DEF b
    <3>3. r \in TCB /\ r.ini = FALSE /\ r.vivo = c.vivo /\ r.est \in {c.est, "X"}
      BY <3>2, ProximaDe
    <3> HIDE DEF r
    <3>4. CASE r.est = "X"
      <4>1. s.ini = FALSE /\ s.vivo = r.vivo /\ s.est = "X" /\ s.ciclos = n
        BY <3>3, <3>4 DEF TCB
      <4> HIDE DEF s
      <4>2. Salvo(t) /\ tcb'[t] = s /\ inicios'[t] = 0
        BY <1>3, <3>1
      <4>3. Contado(t)
        BY <4>1, <4>2 DEF Contado, n
      <4>4. Hecho(t)
        BY <4>1, <4>2 DEF Hecho
      <4> QED BY <1>2, <3>3, <4>1, <4>2, <4>3, <4>4
    <3>5. CASE r.est # "X"
      <4>1. s = Preemptar(r, n) /\ r.est = c.est
        BY <3>3, <3>5
      <4> DEFINE w == Preemptar(r, n)
      <4>0. /\ w.ini = r.ini /\ w.vivo = r.vivo /\ w.est \in {r.est, "R"}
            /\ w.ciclos = IF Corta(n) THEN 0 ELSE n
        BY <1>1, <3>3, PreemptarDe
      <4> HIDE DEF s, w
      <4>2. /\ s.ini = r.ini /\ s.vivo = r.vivo /\ s.est \in {r.est, "R"}
            /\ s.ciclos = IF Corta(n) THEN 0 ELSE n
        BY <4>0, <4>1 DEF w
      <4>3. Salvo(t) /\ tcb'[t] = s /\ inicios'[t] = 0
        BY <1>3, <3>1
      <4>4. Contado(t)
        BY <4>2, <4>3 DEF Contado, n
      <4>5. Hecho(t)
        BY <1>2, <3>3, <4>1, <4>2, <4>3 DEF Hecho
      <4> QED BY <1>2, <3>3, <4>2, <4>3, <4>4, <4>5
    <3> QED BY <3>4, <3>5
  <2>4. CASE EnPunto(tcb[t], i) /\ tcb[t].tExec + 1 # i.t
    <3> DEFINE r == [c EXCEPT !.tExec = @ + 1, !.ini = TRUE]
               s == IF r.est = "X" THEN [r EXCEPT !.ciclos = n] ELSE Preemptar(r, n)
               m == IF tcb[t].ini THEN inicios[t] ELSE inicios[t] + 1
    <3>1. tcb' = [tcb EXCEPT ![t] = s] /\ inicios' = [inicios EXCEPT ![t] = m]
      BY <1>8, <2>4 DEF TareaNormal, c, n, i
    <3>2. r \in TCB /\ r.ini = TRUE /\ r.vivo = c.vivo /\ r.est = c.est /\ r.instr = c.instr
      <4>1. r \in TCB
        BY <1>2, CicloTipo
      <4> QED BY <1>2, <4>1 DEF TCB
    <3>3. m \in Nat
      BY <1>1
    <3> HIDE DEF r
    <3>4. CASE r.est = "X"
      <4>1. s.ini = TRUE /\ s.vivo = r.vivo /\ s.est = "X" /\ s.ciclos = n /\ s.instr = r.instr
        BY <3>2, <3>4 DEF TCB
      <4> HIDE DEF s
      <4>2. Salvo(t) /\ tcb'[t] = s /\ inicios'[t] = m
        BY <1>3, <3>1, <3>3
      <4>3. Contado(t)
        BY <4>1, <4>2 DEF Contado, n
      <4>4. Hecho(t)
        BY <1>2, <2>1, <3>2, <3>4, <4>1, <4>2 DEF Hecho, i
      <4> QED BY <1>2, <3>2, <4>1, <4>2, <4>3, <4>4
    <3>5. CASE r.est # "X"
      <4>1. s = Preemptar(r, n)
        BY <3>5
      <4> DEFINE w == Preemptar(r, n)
      <4>0. /\ w.ini = r.ini /\ w.vivo = r.vivo /\ w.est \in {r.est, "R"} /\ w.instr = r.instr
            /\ w.ciclos = IF Corta(n) THEN 0 ELSE n
        BY <1>1, <3>2, PreemptarDe
      <4> HIDE DEF s, w
      <4>2. /\ s.ini = r.ini /\ s.vivo = r.vivo /\ s.est \in {r.est, "R"} /\ s.instr = r.instr
            /\ s.ciclos = IF Corta(n) THEN 0 ELSE n
        BY <4>0, <4>1 DEF w
      <4>3. Salvo(t) /\ tcb'[t] = s /\ inicios'[t] = m
        BY <1>3, <3>1, <3>3
      <4>4. Contado(t)
        BY <4>2, <4>3 DEF Contado, n
      <4>5. Hecho(t)
        BY <1>2, <2>1, <3>2, <4>2, <4>3 DEF Hecho, i
      <4> QED BY <1>2, <3>2, <4>2, <4>3, <4>4, <4>5
    <3> QED BY <3>4, <3>5
  <2> QED BY <2>2, <2>3, <2>4
<1>9. CASE TareaIO(t)
  <2> DEFINE p == Paso(c, i)
             r == IF EnPunto(tcb[t], i) THEN c ELSE [p EXCEPT !.ciclos = @ + 1]
             m == IF EnPunto(r, i) THEN inicios[t] + 1 ELSE inicios[t]
  <2>1. /\ i.io
        /\ tcb' = [tcb EXCEPT ![t] = IF EnPunto(r, i) THEN [r EXCEPT !.est = "I", !.ciclos = 0]
                                                      ELSE Preemptar(r, r.ciclos)]
        /\ inicios' = [inicios EXCEPT ![t] = m]
    BY <1>9 DEF TareaIO, c, i
  <2>2. /\ p \in TCB /\ p.ini = c.ini /\ p.vivo = c.vivo /\ p.instr = c.instr
        /\ p.est = c.est /\ p.ciclos = c.ciclos
    BY <1>1, <1>2, PasoDe
  <2> HIDE DEF p
  <2>3. /\ r \in TCB /\ r.ini = c.ini /\ r.vivo = c.vivo /\ r.instr = c.instr /\ r.est = c.est
        /\ ~EnPunto(tcb[t], i) => r.ciclos = n
    <3>1. CASE EnPunto(tcb[t], i)
      BY <1>2, <3>1
    <3>2. CASE ~EnPunto(tcb[t], i)
      <4>1. r = [p EXCEPT !.ciclos = n]
        BY <1>1, <1>2, <2>2, <3>2 DEF n, TCB
      <4>2. r \in TCB
        BY <1>1, <2>2, <4>1 DEF TCB
      <4> QED BY <2>2, <4>1, <4>2 DEF TCB
    <3> QED BY <3>1, <3>2
  <2>4. EnPunto(tcb[t], i) => EnPunto(r, i)
    <3>1. tcb[t] \in TCB /\ (EnPunto(tcb[t], i) => r = c)
      BY <1>1
    <3> QED BY <3>1 DEF EnPunto, c, Cumplio, TCB
  <2>5. m \in Nat
    BY <1>1
  <2> HIDE DEF r
  <2>6. CASE EnPunto(r, i)
    <3> DEFINE s == [r EXCEPT !.est = "I", !.ciclos = 0]
    <3>1. s.ini = r.ini /\ s.vivo = r.vivo /\ s.instr = r.instr /\ s.est = "I" /\ s.ciclos = 0
      BY <2>3 DEF TCB
    <3>2. tcb' = [tcb EXCEPT ![t] = s] /\ m = inicios[t] + 1
      BY <2>1, <2>6
    <3> HIDE DEF s, m
    <3>3. Salvo(t) /\ tcb'[t] = s /\ inicios'[t] = m
      BY <1>3, <2>1, <2>5, <3>2
    <3>4. Contado(t)
      BY <3>1, <3>3 DEF Contado
    <3>5. Hecho(t)
      BY <1>2, <2>1, <2>3, <3>1, <3>2, <3>3 DEF Hecho, i
    <3> QED BY <1>2, <2>3, <3>1, <3>3, <3>4, <3>5
  <2>7. CASE ~EnPunto(r, i)
    <3>1. tcb' = [tcb EXCEPT ![t] = Preemptar(r, n)] /\ m = inicios[t]
      BY <2>1, <2>3, <2>4, <2>7
    <3> HIDE DEF m
    <3>2. Salvo(t) /\ tcb'[t] = Preemptar(r, n) /\ inicios'[t] = inicios[t]
      BY <1>3, <2>1, <2>5, <3>1
    <3> QED BY <1>2, <1>5, <2>3, <3>2
  <2> QED BY <2>6, <2>7
<1> QED BY <1>6, <1>7, <1>8, <1>9 DEF Actuar

(* During a sabotage nobody works on its task: it goes on in execution or   *)
(* the quantum sends it back.                                               *)
LEMMA SabotajeDeActuar ==
  ASSUME Tipos, NEW t \in Trips, Actuar(t) \/ Reparar(t)
  PROVE  EnSabotaje(t)
<1> DEFINE c == Cumplio(t)
           n == tcb[t].ciclos + 1
<1>1. /\ c \in TCB /\ c.est = tcb[t].est /\ tcb \in [Trips -> TCB] /\ n \in Nat
      /\ sab.pos.x \in Nat /\ sab.pos.y \in Nat
  <2>1. sab \in Sabotajes /\ tcb \in [Trips -> TCB] /\ TipoTCB
    BY DEF Tipos, TipoSabotaje, TipoTCB
  <2>2. sab.pos.x \in Nat /\ sab.pos.y \in Nat
    BY <2>1 DEF Sabotajes, Punto
  <2> QED BY <2>1, <2>2, CumplioTipo, CumplioDe DEF Tipos
<1> HIDE DEF c, n
<1>2. ASSUME NEW r \in TCB, r.est = c.est, tcb' = [tcb EXCEPT ![t] = Preemptar(r, n)] PROVE EnSabotaje(t)
  <2>1. Preemptar(r, n).est \in {r.est, "R"}
    BY <1>1, <1>2, PreemptarDe
  <2> QED BY <1>1, <1>2, <2>1 DEF EnSabotaje
<1>3. CASE Reparar(t)
  BY <1>1, <1>2, <1>3 DEF Reparar, c, n
<1>4. CASE IrAlSabotaje(t)
  <2> DEFINE r == Paso(c, sab.pos)
  <2>1. tcb' = [tcb EXCEPT ![t] = Preemptar(r, n)]
    BY <1>4 DEF IrAlSabotaje, c, n
  <2>2. r \in TCB /\ r.est = c.est
    BY <1>1, PasoDe
  <2> HIDE DEF r
  <2> QED BY <1>2, <2>1, <2>2
<1>5. CASE TareaNormal(t) \/ TareaIO(t)
  BY <1>5 DEF TareaNormal, TareaIO, EnSabotaje
<1> QED BY <1>3, <1>4, <1>5 DEF Actuar

(* The thread of a tripulante. *)
LEMMA ClaseHilo ==
  ASSUME Tipos, NEW t \in Trips, Hilo(t)
  PROVE  Clase
<1>1. tcb \in [Trips -> TCB] /\ hilo \in [Trips -> Hilos]
  BY DEF Tipos, TipoTCB, TipoBarrera
<1>2. UNCHANGED <<cola, lbl, actual, ctx>>
  BY DEF Hilo, Tomar, Actuar, LlegarAlSabotaje, Reparar, Signal, anillo, sabotaje
<1>3. Quedan
  BY <1>2, QuedanTodos DEF EnMano
<1>4. CASE Tomar(t)
  <2> DEFINE k == tcb[t].cumplido \/ ((Esta("exec", t) /\ tcb[t].vivo /\ viva /\ ~tcb[t].cumplido)
                                        /\ tcb[t].est # "E")
  <2>1. tcb' = [tcb EXCEPT ![t].cumplido = k] /\ inicios' = inicios
    BY <1>4 DEF Tomar, externo
  <2> HIDE DEF k
  <2>2. \A u \in Trips : Intacto(u)
    BY <1>1, <2>1 DEF Intacto, Igual, TCB
  <2> QED BY <1>2, <1>3, <2>2 DEF Calma, Clase
<1>5. CASE Actuar(t) \/ Reparar(t)
  <2>1. Salvo(t) /\ tcb'[t].vivo = tcb[t].vivo /\ Contado(t) /\ Hecho(t) /\ EnSabotaje(t)
    BY <1>5, CicloDeActuar, SabotajeDeActuar
  <2>2. Actua(t) /\ hilo'[t] \in {"senal", "adios"}
    BY <1>1, <1>5 DEF Actuar, Reparar, EnHilo, Actua, Sigue
  <2>3. ~Actua(t)' /\ HilosEnCiclo' # {}
    BY <2>2 DEF Actua, HilosEnCiclo
  <2> QED BY <1>2, <1>3, <2>1, <2>2, <2>3 DEF Ciclo, Clase
<1>6. CASE LlegarAlSabotaje(t) \/ Signal(t)
  <2>1. UNCHANGED <<tcb, inicios>>
    BY <1>6 DEF LlegarAlSabotaje, Signal, externo
  <2> QED BY <1>2, <1>3, <2>1, CalmaQuieta
<1> QED BY <1>4, <1>5, <1>6 DEF Hilo

(* The console, but for INICIAR_PATOTA: an expulsion changes the status of  *)
(* the one it looks for, and moves nodes to exit.                           *)
LEMMA ClaseConsola ==
  ASSUME Tipos, LugarOK, IniciarPlanificacion \/ PausarPlanificacion \/ ExpulsarTripulante
  PROVE  Clase
<1>1. UNCHANGED <<lbl, actual, ctx, inicios>> /\ \A f \in Etapas : EnMano(f)' <=> EnMano(f)
  BY DEF IniciarPlanificacion, PausarPlanificacion, ExpulsarTripulante, SeguirExpulsion, INI_Pausar,
     INI_Turno, PAU_Pedir, PAU_Tomar, EXP_RAM, EXP_Estado, EXP_Buscar, EXP_Extraer, EXP_Extraido,
     EXP_Patota, anillo, sabotaje, externo, EnMano
<1>2. cons.cola \in Colas /\ cola \in [Colas -> Seq(Trips)]
  BY DEF Tipos, TipoColas, ConsolaOK, TipoConsola, Comandos
<1>3. CASE UNCHANGED <<cola, tcb>>
  BY <1>1, <1>3, QuedanTodos, CalmaQuieta
<1>4. CASE EXP_Buscar /\ Esta(cons.cola, cons.t)
  <2> DEFINE t == cons.t
             q == cons.cola
  <2>1. t \in Trips /\ Ocupa(q, t) /\ q \in Lugares
    BY <1>2, <1>4 DEF EXP_Buscar, EnConsola, Tipos, ConsolaOK, ConTripulante, Ocupa, Lugares
  <2>2. Quedan /\ tcb' = [tcb EXCEPT ![t].est = "X"]
    BY <1>1, <1>4, QuedanTodos DEF EXP_Buscar
  <2> HIDE DEF t
  <2>3. Salvo(t) /\ Igual(t) /\ tcb'[t].est = "X"
    BY <1>1, <2>1, <2>2, UnEstado
  <2>4. Cruza(t, q)
    BY <2>1, <2>2 DEF Cruza, Quedan, LugarOK, Unico
  <2>5. Cambia(t, q, q, tcb'[t].est)
    BY <1>1, <1>2, <1>4, <2>1, <2>3, <2>4 DEF Cambia, DeConsola, EXP_Buscar, EnConsola, Expulsando
  <2> QED BY <2>1, <2>5 DEF Cambio, Clase
<1>5. CASE EXP_Extraer /\ cola' # cola
  <2> DEFINE q == cons.cola
             k == cons.i
             t == cola[q][k]
  <2>1. /\ k \in 1..Len(cola[q]) /\ tcb' = tcb /\ "exit" \in Colas
        /\ cola' = [[cola EXCEPT ![q] = RemoveAt(@, k)] EXCEPT !["exit"] = Append(@, cola[q][k])]
    BY <1>2, <1>5 DEF EXP_Extraer, EnConsola, Tipos, ConsolaOK, TipoConsola, Comandos, Colas
  <2> HIDE DEF q, k
  <2>2. \A p \in Colas : cola'[p] =
          IF p = "exit" THEN Append(IF q = "exit" THEN RemoveAt(cola[q], k) ELSE cola["exit"], cola[q][k])
          ELSE IF p = q THEN RemoveAt(cola[q], k) ELSE cola[p]
    BY <1>2, <2>1 DEF q
  <2>3. t \in Trips /\ Ocupa(q, t) /\ Cruza(t, "exit")
    BY <1>1, <1>2, <2>1, <2>2, CruzaDeCola DEF q
  <2> HIDE DEF t
  <2>4. Salvo(t) /\ Igual(t) /\ tcb'[t].est = tcb[t].est
    BY <1>1, <2>1, <2>3, UnEstado
  <2>5. Cambia(t, q, "exit", tcb'[t].est)
    BY <1>1, <1>2, <1>5, <2>3, <2>4 DEF Cambia, DeConsola, EXP_Extraer, EnConsola, Expulsando, q
  <2> QED BY <1>2, <2>1, <2>3, <2>5 DEF Cambio, Clase, Lugares, q
<1>6. CASE EXP_Extraer
  BY <1>3, <1>5, <1>6 DEF EXP_Extraer
<1>7. CASE EXP_Buscar
  BY <1>3, <1>4, <1>7 DEF EXP_Buscar
<1>8. CASE IniciarPlanificacion \/ PausarPlanificacion \/ \E t \in Trips : EXP_RAM(t)
  BY <1>3, <1>8 DEF IniciarPlanificacion, PausarPlanificacion, INI_Pausar,
     INI_Turno, PAU_Pedir, PAU_Tomar, EXP_RAM
<1>9. CASE EXP_Estado \/ EXP_Extraido \/ EXP_Patota
  BY <1>3, <1>9 DEF EXP_Estado, EXP_Extraido, EXP_Patota
<1> QED BY <1>6, <1>7, <1>8, <1>9 DEF ExpulsarTripulante, SeguirExpulsion

(* INICIAR_PATOTA.  Who it pushes to New is in no place yet. *)
LEMMA ClaseIniciarPatota ==
  ASSUME Tipos, LugarOK, IniciarPatota
  PROVE  Clase
<1>1. UNCHANGED <<lbl, actual, ctx, inicios>> /\ \A f \in Etapas : EnMano(f)' <=> EnMano(f)
  BY DEF IniciarPatota, PAT_Crear, PAT_Listar, PAT_New, PAT_Hilo, anillo, sabotaje, externo, EnMano
<1>2. CASE UNCHANGED <<cola, tcb>>
  BY <1>1, <1>2, QuedanTodos, CalmaQuieta
<1>3. CASE PAT_New
  <2> DEFINE t == cons.t
  <2>1. /\ t \in Trips /\ cons.pc = "new" /\ cons'.pc = "hilo" /\ cons'.t = t
        /\ cola' = [cola EXCEPT !["new"] = Append(@, t)] /\ "new" \in Colas
        /\ cola \in [Colas -> Seq(Trips)] /\ tcb \in [Trips -> TCB]
        /\ tcb' = [tcb EXCEPT ![t].vivo = TRUE]
    BY <1>3 DEF PAT_New, Consola, EnConsola, Poner, Tipos, TipoColas, TipoTCB, ConsolaOK, TipoConsola,
       Comandos, ConTripulante, Colas
  <2>2. PorNacer(t)
    <3>1. t \in Nat
      BY <2>1, ConstantesOK
    <3> QED BY <2>1, <3>1 DEF PorNacer
  <2>3. \A l \in Lugares : ~Ocupa(l, t)
    BY <2>1, <2>2 DEF LugarOK, Nacidos
  <2> HIDE DEF t
  <2>4. cola' = [cola EXCEPT !["new"] = Append(cola["new"], t)] /\ cola["new"] \in Seq(Trips)
    BY <2>1
  <2>5. \A u \in Trips : Contains(cola'["new"], u) <=> Contains(cola["new"], u) \/ u = t
    BY <2>1, <2>4, ConUnoExacto
  <2>6. ASSUME NEW l \in Lugares, NEW u \in Trips
        PROVE  Ocupa(l, u)' <=> IF u = t THEN l = "new" ELSE Ocupa(l, u)
    <3>1. ~Ocupa(l, t)
      BY <2>3
    <3>2. CASE l = "new"
      BY <2>1, <2>5, <3>1, <3>2 DEF Ocupa, Esta
    <3>3. CASE l # "new" /\ l \in Colas
      BY <2>1, <3>1, <3>3 DEF Ocupa, Esta
    <3>4. CASE l \notin Colas
      BY <1>1, <2>1, <3>1, <3>4 DEF Ocupa, Lugares
    <3> QED BY <3>2, <3>3, <3>4
  <2>7. Cruza(t, "new")
    BY <2>6 DEF Cruza
  <2>8. /\ Salvo(t) /\ tcb'[t].vivo /\ tcb'[t].est = tcb[t].est /\ tcb'[t].ciclos = tcb[t].ciclos
        /\ tcb'[t].ini = tcb[t].ini /\ tcb'[t].instr = tcb[t].instr /\ inicios'[t] = inicios[t]
    BY <1>1, <2>1 DEF Salvo, Intacto, Igual, TCB
  <2>9. t = cons.t
    BY DEF t
  <2> QED BY <1>1, <2>1, <2>3, <2>7, <2>8, <2>9 DEF Nace, Clase
<1>4. CASE PAT_Crear \/ PAT_Listar \/ PAT_Hilo
  BY <1>2, <1>4 DEF PAT_Crear, PAT_Listar, PAT_Hilo
<1> QED BY <1>3, <1>4 DEF IniciarPatota

(* Every step of the program is of one of those kinds. *)
LEMMA ClaseNext ==
  ASSUME Tipos, LugarOK, TurnoOK, EnTareas, [Next]_vars
  PROVE  Clase
<1>1. Ficha
  BY DEF TurnoOK
<1>2. CASE UNCHANGED vars
  <2>1. UNCHANGED <<lbl, actual, cola, tcb, ctx, inicios>>
    BY <1>2 DEF vars, anillo, sabotaje, externo
  <2> QED BY <2>1, QuedanTodos, CalmaQuieta DEF EnMano
<1>3. CASE NewReady \/ (\E e \in Recorridos : RecorreExec(e)) \/ ReadyExec \/ BloqIO
  BY <1>1, <1>3, ClaseNewReady, ClaseRecorreExec, ClaseReadyExec, ClaseBloqIO
<1>4. CASE AEmergencia \/ AReady
  BY <1>1, <1>4, ClaseAEmergencia, ClaseAReady
<1>5. CASE EXIT_Cerrar \/ TomarPausar \/ \E e \in Etapas : Despertar(e)
  BY <1>1, <1>5, ClaseAnillo
<1>6. CASE \E t \in Trips : Hilo(t)
  BY <1>1, <1>6, ClaseHilo
<1>7. CASE SAB_Activar \/ SAB_Datos
  <2>1. UNCHANGED <<lbl, actual, cola, tcb, ctx, inicios>>
    BY <1>7 DEF SAB_Activar, SAB_Datos, anillo, externo
  <2> QED BY <2>1, QuedanTodos, CalmaQuieta DEF EnMano
<1>8. CASE FuncionConsola
  BY <1>8, ClaseConsola, ClaseIniciarPatota DEF FuncionConsola
<1> QED BY <1>2, <1>3, <1>4, <1>5, <1>6, <1>7, <1>8 DEF Next

-----------------------------------------------------------------------------
(* What the steps do to the marks of a tripulante                           *)

(* A thread found its tripulante in exec, alive and in 'E': it works on it. *)
Hallado(t) == Ocupa("exec", t) /\ tcb[t].vivo /\ tcb[t].est = "E"
Calmo == Calma /\ \A t \in Trips : Actua(t)' => Actua(t) \/ Hallado(t)
ActuanMenos == \A t \in Trips : Actua(t)' => Actua(t)

(* Only Tomar sends a thread to work. *)
LEMMA ActuaNext ==
  ASSUME Tipos, LugarOK, TurnoOK, EnTareas, [Next]_vars
  PROVE  Calmo \/ (ActuanMenos /\ Clase)
<1>1. hilo \in [Trips -> Hilos] /\ tcb \in [Trips -> TCB]
  BY DEF Tipos, TipoBarrera, TipoTCB
<1>2. ASSUME NEW t \in Trips, Tomar(t) PROVE Calmo
  <2>1. UNCHANGED <<cola, lbl, actual, ctx, inicios>>
    BY <1>2 DEF Tomar, anillo, sabotaje, externo
  <2>2. Quedan
    BY <2>1, QuedanTodos DEF EnMano
  <2> DEFINE k == tcb[t].cumplido \/ ((Esta("exec", t) /\ tcb[t].vivo /\ viva /\ ~tcb[t].cumplido)
                                        /\ tcb[t].est # "E")
  <2>3. tcb' = [tcb EXCEPT ![t].cumplido = k]
    BY <1>2 DEF Tomar
  <2> HIDE DEF k
  <2>4. \A u \in Trips : Intacto(u)
    BY <1>1, <2>1, <2>3 DEF Intacto, Igual, TCB
  <2>5. \A u \in Trips : Actua(u)' => Actua(u) \/ Hallado(u)
    <3>1. Sigue(t) \notin {"actua", "repara"}
      BY DEF Sigue
    <3> QED BY <1>1, <1>2, <3>1 DEF Tomar, Actua, Hallado, Ocupa, Colas
  <2> QED BY <2>1, <2>2, <2>4, <2>5 DEF Calmo, Calma
<1>3. Clase
  BY ClaseNext
<1>4. CASE hilo' = hilo
  BY <1>3, <1>4 DEF ActuanMenos, Actua
<1>5. CASE \E t \in Trips : Actuar(t) \/ LlegarAlSabotaje(t) \/ Reparar(t) \/ Signal(t)
  <2> PICK t \in Trips : Actuar(t) \/ LlegarAlSabotaje(t) \/ Reparar(t) \/ Signal(t)
    BY <1>5
  <2>1. \A u \in Trips \ {t} : hilo'[u] = hilo[u]
    BY <1>1 DEF Actuar, LlegarAlSabotaje, Reparar, Signal
  <2>2. Actua(t)' => Actua(t)
    BY <1>1 DEF Actuar, LlegarAlSabotaje, Reparar, Signal, EnHilo, Actua, Sigue
  <2> QED BY <1>3, <2>1, <2>2 DEF ActuanMenos, Actua
<1>6. CASE PAT_Hilo
  BY <1>1, <1>3, <1>6 DEF PAT_Hilo, ActuanMenos, Actua
<1>7. hilo' = hilo \/ PAT_Hilo \/ \E t \in Trips : Hilo(t)
  <2>1. CASE NewReady \/ (\E e \in Recorridos : RecorreExec(e)) \/ BloqIO \/ AEmergencia \/ AReady
    BY <2>1, SigueNewReady, SigueRecorreExec, SigueBloqIO, SigueAEmergencia, SigueAReady DEF barrera
  <2>2. CASE ReadyExec
    BY <2>2, SigueReadyExec DEF ReadyExec, RE_Contar, RE_Empezar, RE_Avisar,
       VisitarLiberado, barrera
  <2>3. CASE EXIT_Cerrar \/ TomarPausar \/ (\E e \in Etapas : Despertar(e)) \/ SAB_Activar \/ SAB_Datos
    BY <2>3 DEF EXIT_Cerrar, TomarPausar, Despertar, SAB_Activar, SAB_Datos, barrera
  <2>4. CASE FuncionConsola
    BY <2>4 DEF FuncionConsola, IniciarPlanificacion, PausarPlanificacion, IniciarPatota, ExpulsarTripulante,
       SeguirExpulsion, INI_Pausar, INI_Turno, PAU_Pedir, PAU_Tomar, PAT_Crear, PAT_Listar, PAT_New,
       EXP_RAM, EXP_Estado, EXP_Buscar, EXP_Extraer, EXP_Extraido, EXP_Patota, barrera
  <2>5. CASE UNCHANGED vars
    BY <2>5 DEF vars, barrera
  <2> QED BY <2>1, <2>2, <2>3, <2>4, <2>5 DEF Next
<1> QED BY <1>2, <1>4, <1>5, <1>6, <1>7 DEF Hilo

(* iterate_next_task advances in the steps of New->Ready alone. *)
LEMMA FueraDeNewReady ==
  ASSUME Tipos, [Next]_vars, ~NewReady
  PROVE  lbl'["NR"] = "tareas" => lbl["NR"] = "tareas" /\ actual'["NR"] = actual["NR"]
<1>1. lbl \in [Etapas -> Rotulos] /\ actual \in [Etapas -> TripsONada] /\ "NR" \in Etapas
  BY DEF Tipos, AnilloOK, TipoAnillo, Etapas
<1>2. ASSUME NEW e \in Etapas \ {"NR"}, SigueEtapa(e)
      PROVE  lbl'["NR"] = lbl["NR"] /\ actual'["NR"] = actual["NR"]
  BY <1>1, <1>2 DEF SigueEtapa, Ir, Terminar, anillo
<1>3. CASE UNCHANGED <<lbl, actual>>
  BY <1>3
<1>4. CASE (\E e \in Recorridos : RecorreExec(e)) \/ BloqIO \/ AEmergencia \/ AReady
  BY <1>2, <1>4, SigueRecorreExec, SigueBloqIO, SigueAEmergencia, SigueAReady DEF Recorridos, Etapas
<1>5. CASE ReadyExec
  <2>1. CASE RE_Entra \/ RE_Sacar \/ RE_Poner \/ RE_Lleno
    BY <1>2, <2>1, SigueReadyExec DEF Etapas
  <2>2. CASE RE_Contar \/ RE_Empezar \/ RE_Avisar \/ VisitarLiberado("RE")
    BY <1>1, <2>2 DEF RE_Contar, RE_Empezar, RE_Avisar, VisitarLiberado, Ir, Terminar, anillo
  <2> QED BY <1>5, <2>1, <2>2 DEF ReadyExec
<1>6. CASE TomarPausar \/ \E e \in Etapas : Despertar(e)
  BY <1>1, <1>6 DEF TomarPausar, Despertar
<1>7. CASE EXIT_Cerrar
  BY <1>1, <1>7 DEF EXIT_Cerrar, Terminar
<1>8. CASE (\E t \in Trips : Hilo(t)) \/ SAB_Activar \/ SAB_Datos \/ UNCHANGED vars
  BY <1>3, <1>8 DEF Hilo, Tomar, Actuar, LlegarAlSabotaje, Reparar, Signal, SAB_Activar, SAB_Datos,
     vars, anillo
<1>9. CASE FuncionConsola
  BY <1>3, <1>9 DEF FuncionConsola, IniciarPlanificacion, PausarPlanificacion, IniciarPatota,
     ExpulsarTripulante, SeguirExpulsion, INI_Pausar, INI_Turno, PAU_Pedir, PAU_Tomar, PAT_Crear,
     PAT_Listar, PAT_New, PAT_Hilo, EXP_RAM, EXP_Estado, EXP_Buscar, EXP_Extraer, EXP_Extraido,
     EXP_Patota, anillo
<1> QED BY <1>4, <1>5, <1>6, <1>7, <1>8, <1>9 DEF Next

(* What it is at is always a tripulante. *)
LEMMA EnTareasNext ==
  ASSUME Tipos, EnTareas, [Next]_vars PROVE EnTareas'
<1>1. "NR" \in Etapas /\ lbl \in [Etapas -> Rotulos] /\ actual \in [Etapas -> TripsONada]
  BY DEF Tipos, AnilloOK, TipoAnillo, Etapas
<1>2. CASE ~NewReady
  BY <1>2, FueraDeNewReady DEF EnTareas
<1>3. CASE NR_IniciarPatota
  <2>1. CASE UNCHANGED anillo
    BY <2>1 DEF anillo, EnTareas
  <2>2. CASE Ir("NR", "tareas", MinTid(Miembros(Head(buffers))))
    <3>1. Head(buffers) \in Patotas
      BY <1>3 DEF NR_IniciarPatota, Tipos, TipoPatotas
    <3>2. MinTid(Miembros(Head(buffers))) \in Trips
      BY <3>1, PrimerTid
    <3> QED BY <1>1, <2>2, <3>2 DEF Ir, EnTareas
  <2> QED BY <1>3, <2>1, <2>2 DEF NR_IniciarPatota
<1>4. CASE NR_PrimeraTarea
  <2> DEFINE u == SiguienteTid(actual["NR"])
  <2>1. u # Nadie => u \in Trips
    BY SiguienteTidTipo DEF TripsONada
  <2>2. Ir("NR", IF u = Nadie THEN "iniciar" ELSE "tareas", u)
    BY <1>4 DEF NR_PrimeraTarea
  <2> HIDE DEF u
  <2> QED BY <1>1, <2>1, <2>2 DEF Ir, EnTareas
<1>5. CASE NR_Entra \/ NR_SinPatotas \/ NR_Sacar \/ NR_Poner \/ NR_Fin
  BY <1>1, <1>5 DEF NR_Entra, NR_SinPatotas, NR_Sacar, NR_Poner, NR_Fin, Ir, Terminar, EnTareas
<1> QED BY <1>2, <1>3, <1>4, <1>5 DEF NewReady

-----------------------------------------------------------------------------
(* Who is alive                                                             *)

(* Only who is in Exit may be dead: any other in a place, whoever a thread  *)
(* works on, and the fixer whose context is kept, is alive.                 *)
Vivos == /\ \A t \in Trips, l \in Lugares \ {"exit"} : Ocupa(l, t) => tcb[t].vivo
         /\ \A t \in Trips : Actua(t) => tcb[t].vivo
         /\ \A i \in 1..Len(ctx) : ctx[i].vivo

(* Every step keeps it. *)
LEMMA VivosNext ==
  ASSUME Tipos, LugarOK, TurnoOK, EnTareas, Vivos, [Next]_vars PROVE Vivos'
<1>1. Calmo \/ (ActuanMenos /\ Clase)
  BY ActuaNext
<1>2. /\ \A l \in Lugares : l \in Colas \/ l \in Etapas
      /\ {"ready", "bem", "BLOCKIO", "ERM", "new", "exit"} \subseteq Lugares
  BY DEF Lugares, Colas, Etapas
<1>3. CASE Calmo
  BY <1>3 DEF Calmo, Calma, Hallado, Quedan, Intacto, Igual, Vivos
<1>4. CASE ActuanMenos /\ Calma
  BY <1>4 DEF ActuanMenos, Calma, Quedan, Intacto, Igual, Vivos
<1>5. CASE ActuanMenos /\ Cambio
  <2> PICK t \in Trips, de \in Lugares, a \in Lugares : Cambia(t, de, a, tcb'[t].est)
    BY <1>5 DEF Cambio
  <2>1. Cruza(t, a) /\ Ocupa(de, t) /\ ctx' = ctx /\ \A u \in Trips : tcb'[u].vivo = tcb[u].vivo
    BY DEF Cambia, Salvo, Intacto, Igual
  <2>2. a # "exit" => tcb[t].vivo
    <3>1. CASE DeConsola(t, de, a, tcb'[t].est)
      BY <2>1, <3>1 DEF DeConsola, Vivos
    <3>2. CASE DeEtapa(t, de, a, tcb'[t].est)
      <4>1. de # "exit"
        BY <3>2 DEF DeEtapa
      <4> QED BY <2>1, <4>1 DEF Vivos
    <3> QED BY <3>1, <3>2 DEF Cambia
  <2> QED BY <1>5, <2>1, <2>2 DEF ActuanMenos, Cruza, Vivos
<1>6. CASE ActuanMenos /\ Primera
  <2>1. Quedan /\ ctx' = ctx /\ \A u \in Trips : tcb'[u].vivo = tcb[u].vivo
    BY <1>6 DEF Primera, Salvo, Intacto, Igual
  <2> QED BY <1>6, <2>1 DEF ActuanMenos, Quedan, Vivos
<1>7. CASE ActuanMenos /\ Devuelve
  <2> PICK t \in Trips : /\ Ocupa("BLOCKIO", t) /\ ctx' = ctx /\ Salvo(t) /\ tcb'[t].vivo = tcb[t].vivo
                         /\ Cruza(t, "ready") \/ Cruza(t, "ninguno")
    BY <1>7 DEF Devuelve
  <2>1. /\ \A u \in Trips : tcb'[u].vivo = tcb[u].vivo
        /\ tcb[t].vivo
    BY <1>2, Zenon DEF Salvo, Intacto, Igual, Vivos
  <2> QED BY <1>7, <2>1 DEF ActuanMenos, Cruza, Vivos
<1>8. CASE ActuanMenos /\ Elige
  <2> PICK t \in Trips : /\ Ocupa("bem", t) /\ ctx' = Append(ctx, Contexto(t)) /\ Salvo(t)
                         /\ tcb'[t].vivo = tcb[t].vivo /\ Cruza(t, "ready")
    BY <1>8 DEF Elige
  <2>1. /\ \A u \in Trips : tcb'[u].vivo = tcb[u].vivo
        /\ tcb[t].vivo
    BY <1>2, Zenon DEF Salvo, Intacto, Igual, Vivos
  <2>2. \A i \in 1..Len(ctx') : ctx'[i].vivo
    <3>1. ctx \in Seq(Contextos) /\ Contexto(t).vivo
      BY <2>1 DEF Tipos, TipoSabotaje, Contexto
    <3> QED BY <3>1 DEF Vivos
  <2> QED BY <1>8, <2>1, <2>2 DEF ActuanMenos, Cruza, Vivos
<1>9. CASE ActuanMenos /\ Restaura
  <2> PICK t \in Trips : /\ ctx # <<>> /\ ctx' = Tail(ctx) /\ Salvo(t) /\ Ocupa("ERM", t)
                         /\ tcb'[t].vivo = Head(ctx).vivo /\ Cruza(t, "bem")
    BY <1>9 DEF Restaura
  <2>1. ctx \in Seq(Contextos) /\ Head(ctx) = ctx[1] /\ 1 \in 1..Len(ctx)
    BY DEF Tipos, TipoSabotaje
  <2>2. tcb'[t].vivo /\ \A u \in Trips \ {t} : tcb'[u].vivo = tcb[u].vivo
    BY <2>1 DEF Salvo, Intacto, Igual, Vivos
  <2>3. \A i \in 1..Len(ctx') : ctx'[i].vivo
    BY <2>1 DEF Vivos
  <2> QED BY <1>9, <2>2, <2>3 DEF ActuanMenos, Cruza, Vivos
<1>10. CASE ActuanMenos /\ Cierra
  <2>1. \A t \in Trips : tcb'[t].vivo = tcb[t].vivo \/ Ocupa("exit", t)
    BY <1>10 DEF Cierra
  <2>2. \A t \in Trips : ~Actua(t)'
    BY <1>10, ActuaEnCiclo DEF Cierra, ActuanMenos
  <2>3. \A t \in Trips, l \in Lugares \ {"exit"} : Ocupa(l, t) => ~Ocupa("exit", t)
    BY <1>2 DEF LugarOK, Unico
  <2> QED BY <1>10, <2>1, <2>2, <2>3 DEF Cierra, Quedan, Vivos
<1>11. CASE ActuanMenos /\ Ciclo
  <2>1. Quedan /\ ctx' = ctx /\ \A u \in Trips : tcb'[u].vivo = tcb[u].vivo
    BY <1>11 DEF Ciclo, Salvo, Intacto, Igual
  <2> QED BY <1>11, <2>1 DEF ActuanMenos, Quedan, Vivos
<1>12. CASE ActuanMenos /\ Nace
  <2> PICK t \in Trips : tcb'[t].vivo /\ Salvo(t) /\ ctx' = ctx /\ Cruza(t, "new")
    BY <1>12 DEF Nace
  <2> QED BY <1>12 DEF ActuanMenos, Salvo, Intacto, Igual, Cruza, Vivos
<1> QED BY <1>1, <1>3, <1>4, <1>5, <1>6, <1>7, <1>8, <1>9, <1>10, <1>11, <1>12 DEF Clase

(* For every value of the constants, sabotages and expulsions included: a   *)
(* thread never works on a dead TCB, nor is there one in exec.              *)
THEOREM HiloVivoSiempre ==
  ASSUME MaxReinicios = 0 PROVE Spec => []HiloVivo
<1>1. Init => EnTareas /\ Vivos
  <2> SUFFICES ASSUME Init PROVE EnTareas /\ Vivos
    OBVIOUS
  <2>1. EnTareas /\ ctx = <<>> /\ \A t \in Trips : ~Actua(t)
    BY DEF Init, EnTareas, Actua, Etapas
  <2>2. \A l \in Lugares : \A t \in Trips : ~Ocupa(l, t)
    BY DEF Init, Lugares, Ocupa, Esta, Contains, EnMano
  <2> QED BY <2>1, <2>2 DEF Vivos
<1>2. Tipos /\ LugarOK /\ TurnoOK /\ EnTareas /\ Vivos /\ [Next]_vars => EnTareas' /\ Vivos'
  BY EnTareasNext, VivosNext
<1>3. Vivos => HiloVivo
  <2>1. "exec" \in Lugares \ {"exit"} /\ "exec" \in Colas
    BY DEF Lugares, Colas
  <2> QED BY <2>1 DEF Vivos, HiloVivo, Actua, Ocupa
<1> QED BY TurnoSiempre, <1>1, <1>2, <1>3, PTL DEF Spec

-----------------------------------------------------------------------------
(* Patotas on their way, and tripulantes that have no task yet              *)

(* A tripulante exists for the others from its push to New on: between it   *)
(* and its thread only the console knows that it is there.                  *)
Nacido(t) == hilo[t] # "nada" \/ (cons.pc = "hilo" /\ t = cons.t)
EnAlguno(t) == \E l \in Lugares : Ocupa(l, t)

(* New->Ready will ask MiRAMHQ for its first task: its patota is not listed *)
(* yet, or its message waits, or iterate_next_task has not reached it.      *)
EnServicio(t) == lbl["NR"] = "tareas" /\ t >= actual["NR"] /\ PatotaDe[t] = PatotaDe[actual["NR"]]
PorServir(t) ==
  caida = "no" /\ (PatotaDe[t] \notin listaPCB \/ PatotaDe[t] \in ToSet(buffers) \/ EnServicio(t))

(* Each patota is sent to MiRAMHQ once. *)
EnvioOK ==
  /\ NoRepite(buffers)
  /\ lbl["NR"] = "tareas" => /\ actual["NR"] \in Trips
                             /\ PatotaDe[actual["NR"]] \notin ToSet(buffers)
                             /\ caida = "no" => PatotaDe[actual["NR"]] \in listaPCB

(* What each step does to the list of patotas and to their messages. *)
LEMMA ListasNext ==
  ASSUME Tipos, [Next]_vars
  PROVE  /\ caida' = "no" => caida = "no"
         /\ listaPCB \subseteq listaPCB'
         /\ \/ buffers' = buffers
            \/ NR_IniciarPatota
            \/ /\ listaPCB' = listaPCB /\ caida = "no"
               /\ \E p \in Patotas : p \notin listaPCB /\ p \notin ToSet(buffers) /\ buffers' = Append(buffers, p)
<1>1. CASE NewReady
  BY <1>1 DEF NewReady, NR_Entra, NR_IniciarPatota, NR_PrimeraTarea, NR_SinPatotas, NR_Sacar, NR_Poner,
     NR_Fin, En, patotas
<1>2. CASE \E e \in Recorridos : RecorreExec(e)
  BY <1>2 DEF RecorreExec, Recorrer, Visitar, VisitarLiberado, En, patotas
<1>3. CASE ReadyExec
  BY <1>3 DEF ReadyExec, RE_Entra, RE_Sacar, RE_Poner, RE_Lleno, RE_Contar, RE_Empezar, RE_Avisar,
     VisitarLiberado, En, patotas
<1>4. CASE BloqIO
  BY <1>4 DEF BloqIO, BIO_Entra, BIO_Contar, BIO_Pedir, BIO_Salir, En, patotas
<1>5. CASE AEmergencia
  BY <1>5 DEF AEmergencia, ERM_Entra, ERM_SacarFixer, ERM_Restaurar, ERM_Sacar, ERM_Poner, ERM_Elegir,
     En, patotas
<1>6. CASE AReady \/ EXIT_Cerrar \/ TomarPausar \/ \E e \in Etapas : Despertar(e)
  BY <1>6 DEF AReady, MR_Entra, MR_Sacar, MR_Poner, MR_Resolver, EXIT_Cerrar, TomarPausar, Despertar,
     En, patotas
<1>7. CASE (\E t \in Trips : Hilo(t)) \/ SAB_Activar \/ SAB_Datos \/ UNCHANGED vars
  BY <1>7 DEF Hilo, Tomar, Actuar, LlegarAlSabotaje, Reparar, Signal, EnHilo, SAB_Activar, SAB_Datos,
     vars, patotas
<1>8. CASE IniciarPlanificacion \/ PausarPlanificacion \/ ExpulsarTripulante
  BY <1>8 DEF IniciarPlanificacion, PausarPlanificacion, ExpulsarTripulante, SeguirExpulsion, INI_Pausar,
     INI_Turno, PAU_Pedir, PAU_Tomar, EXP_RAM, EXP_Estado, EXP_Buscar, EXP_Extraer, EXP_Extraido,
     EXP_Patota, Consola, EnConsola, patotas
<1>9. CASE PAT_Crear
  <2> DEFINE p == MinTid(PorCrear)
  <2>1. PorCrear \subseteq Nat /\ PorCrear # {}
    BY <1>9, ConstantesOK DEF PAT_Crear, PorCrear
  <2>2. p \in PorCrear
    BY <2>1, MinTidPertenece
  <2>3. buffers' = Append(buffers, p) /\ listaPCB' = listaPCB /\ caida = "no"
    BY <1>9 DEF PAT_Crear, Consola, EnConsola
  <2> HIDE DEF p
  <2> QED BY <2>2, <2>3 DEF PorCrear
<1>10. CASE PAT_Listar \/ PAT_New \/ PAT_Hilo
  BY <1>10 DEF PAT_Listar, PAT_New, PAT_Hilo, Consola, EnConsola, patotas
<1> QED BY <1>1, <1>2, <1>3, <1>4, <1>5, <1>6, <1>7, <1>8, <1>9, <1>10
       DEF Next, FuncionConsola, IniciarPatota

(* The message New->Ready takes is no longer among the rest. *)
LEMMA SinElPrimero ==
  ASSUME NEW S, NEW s \in Seq(S), s # <<>>, NoRepite(s)
  PROVE  /\ NoRepite(Tail(s)) /\ Head(s) \notin ToSet(Tail(s))
         /\ \A p : p \in ToSet(Tail(s)) => p \in ToSet(s)
         /\ \A p : p \in ToSet(s) => p = Head(s) \/ p \in ToSet(Tail(s))
<1> DEFINE r == Tail(s)
<1>1. /\ r \in Seq(S) /\ Len(r) = Len(s) - 1 /\ Len(s) \in Nat /\ Len(r) \in Nat /\ Head(s) = s[1] /\ Len(s) >= 1
      /\ \A i \in 1..Len(r) : r[i] = s[i + 1] /\ i + 1 \in 1..Len(s) /\ i + 1 # 1
  OBVIOUS
<1>2. \A i \in 1..Len(s) : i # 1 => i - 1 \in 1..Len(r) /\ r[i - 1] = s[i]
  OBVIOUS
<1> HIDE DEF r
<1>3. NoRepite(r)
  BY <1>1 DEF NoRepite
<1>4. \A p : p \in ToSet(s) <=> \E i \in 1..Len(s) : s[i] = p
  BY DEF ToSet
<1>5. \A p : p \in ToSet(r) <=> \E i \in 1..Len(r) : r[i] = p
  BY <1>1 DEF ToSet
<1>6. Head(s) \notin ToSet(r)
  BY <1>1, <1>5 DEF NoRepite
<1>7. \A p : p \in ToSet(r) => p \in ToSet(s)
  BY <1>1, <1>4, <1>5
<1>8. \A p : p \in ToSet(s) => p = Head(s) \/ p \in ToSet(r)
  BY <1>1, <1>2, <1>4, <1>5
<1> QED BY <1>3, <1>6, <1>7, <1>8 DEF r

(* Nor is a new message one of those that wait. *)
LEMMA ConUnoMas ==
  ASSUME NEW S, NEW s \in Seq(S), NEW p \in S
  PROVE  /\ NoRepite(s) /\ p \notin ToSet(s) => NoRepite(Append(s, p))
         /\ \A q : q \in ToSet(Append(s, p)) <=> q \in ToSet(s) \/ q = p
<1> DEFINE r == Append(s, p)
<1>1. /\ r \in Seq(S) /\ Len(r) = Len(s) + 1 /\ Len(s) \in Nat /\ r[Len(s) + 1] = p
      /\ \A i \in 1..Len(s) : r[i] = s[i] /\ i \in 1..Len(r)
      /\ \A i \in 1..Len(r) : i = Len(s) + 1 \/ i \in 1..Len(s)
      /\ Len(s) + 1 \in 1..Len(r)
  OBVIOUS
<1> HIDE DEF r
<1>2. \A q : q \in ToSet(s) <=> \E i \in 1..Len(s) : s[i] = q
  BY DEF ToSet
<1>3. \A q : q \in ToSet(r) <=> \E i \in 1..Len(r) : r[i] = q
  BY <1>1 DEF ToSet
<1>4. NoRepite(s) /\ p \notin ToSet(s) => NoRepite(r)
  BY <1>1, <1>2 DEF NoRepite
<1>5. \A q : q \in ToSet(r) <=> q \in ToSet(s) \/ q = p
  BY <1>1, <1>2, <1>3
<1> QED BY <1>4, <1>5 DEF r

(* Every step keeps the order in which the patotas are sent. *)
LEMMA EnvioNext ==
  ASSUME Tipos, EnTareas, EnvioOK, [Next]_vars PROVE EnvioOK'
<1>1. /\ buffers \in Seq(Patotas) /\ "NR" \in Etapas /\ PatotaDe \in [Trips -> Patotas]
      /\ lbl \in [Etapas -> Rotulos] /\ actual \in [Etapas -> TripsONada]
  BY ConstantesOK DEF Tipos, AnilloOK, TipoAnillo, TipoPatotas, Etapas
<1>2. CASE NR_IniciarPatota
  <2> DEFINE p == Head(buffers)
  <2>1. /\ p \in Patotas /\ buffers' = Tail(buffers) /\ listaPCB' = listaPCB /\ buffers # <<>>
        /\ lbl["NR"] = "iniciar" /\ (p \notin listaPCB => caida' # "no" \/ lbl' = lbl)
    <3>1. buffers' = Tail(buffers) /\ listaPCB' = listaPCB /\ buffers # <<>> /\ lbl["NR"] = "iniciar"
      BY <1>2 DEF NR_IniciarPatota, En
    <3>2. p \in Patotas
      BY <1>1, <3>1
    <3>3. p \notin listaPCB => caida' = "pcb" \/ lbl' = lbl
      BY <1>2, Zenon DEF NR_IniciarPatota, Cae, anillo
    <3> QED BY <3>1, <3>2, <3>3
  <2>2. NoRepite(buffers') /\ p \notin ToSet(buffers')
    BY <1>1, <2>1, SinElPrimero DEF EnvioOK
  <2>3. MinTid(Miembros(p)) \in Trips /\ PatotaDe[MinTid(Miembros(p))] = p
    BY <2>1, PrimerTid DEF Miembros
  <2> HIDE DEF p
  <2>4. CASE lbl' = lbl
    BY <2>1, <2>2, <2>4 DEF EnvioOK
  <2>5. CASE Ir("NR", "tareas", MinTid(Miembros(p)))
    <3>1. actual'["NR"] = MinTid(Miembros(p))
      BY <1>1, <2>5 DEF Ir
    <3> QED BY <2>1, <2>2, <2>3, <2>4, <3>1 DEF EnvioOK
  <2> QED BY <1>2, <2>4, <2>5 DEF NR_IniciarPatota, anillo, p
<1>3. CASE ~NR_IniciarPatota
  <2>1. /\ lbl'["NR"] = "tareas" => /\ lbl["NR"] = "tareas" /\ actual'["NR"] \in Trips
                                    /\ PatotaDe[actual'["NR"]] = PatotaDe[actual["NR"]]
    <3>1. CASE ~NewReady
      BY <3>1, FueraDeNewReady DEF EnTareas
    <3>2. CASE NR_PrimeraTarea
      <4> DEFINE u == SiguienteTid(actual["NR"])
      <4>1. Ir("NR", IF u = Nadie THEN "iniciar" ELSE "tareas", u) /\ lbl["NR"] = "tareas"
        BY <3>2 DEF NR_PrimeraTarea, En
      <4>2. u # Nadie => u \in Trips /\ PatotaDe[u] = PatotaDe[actual["NR"]]
        BY <4>1, SiguienteDespues DEF EnTareas
      <4> HIDE DEF u
      <4> QED BY <1>1, <4>1, <4>2 DEF Ir
    <3>3. CASE NR_Entra \/ NR_SinPatotas \/ NR_Sacar \/ NR_Poner \/ NR_Fin
      BY <1>1, <3>3 DEF NR_Entra, NR_SinPatotas, NR_Sacar, NR_Poner, NR_Fin, Ir, Terminar
    <3> QED BY <1>3, <3>1, <3>2, <3>3 DEF NewReady
  <2>2. (caida' = "no" => caida = "no") /\ listaPCB \subseteq listaPCB'
    BY ListasNext
  <2>3. CASE buffers' = buffers
    BY <2>1, <2>2, <2>3 DEF EnvioOK
  <2>4. CASE buffers' # buffers
    <3>1. PICK p \in Patotas : p \notin listaPCB /\ p \notin ToSet(buffers) /\ buffers' = Append(buffers, p)
      BY <1>3, <2>4, ListasNext
    <3>3. caida = "no"
      BY <1>3, <2>4, ListasNext
    <3>2. NoRepite(buffers') /\ \A q : q \in ToSet(buffers') <=> q \in ToSet(buffers) \/ q = p
      BY <1>1, <3>1, ConUnoMas DEF EnvioOK
    <3> QED BY <2>1, <2>2, <3>1, <3>2, <3>3 DEF EnvioOK
  <2> QED BY <2>3, <2>4
<1> QED BY <1>2, <1>3

(* Nobody comes back to wait for its first task. *)
LEMMA PorServirNext ==
  ASSUME Tipos, EnTareas, EnvioOK, [Next]_vars, NEW t \in Trips, PorServir(t)' PROVE PorServir(t)
<1>1. /\ buffers \in Seq(Patotas) /\ "NR" \in Etapas /\ PatotaDe[t] \in Patotas /\ t \in Nat
      /\ lbl \in [Etapas -> Rotulos] /\ actual \in [Etapas -> TripsONada]
  BY ConstantesOK DEF Tipos, AnilloOK, TipoAnillo, TipoPatotas, Etapas
<1>2. caida = "no" /\ listaPCB \subseteq listaPCB'
  BY ListasNext DEF PorServir
<1>3. CASE PatotaDe[t] \notin listaPCB'
  BY <1>2, <1>3 DEF PorServir
<1>4. CASE PatotaDe[t] \in ToSet(buffers')
  <2>1. CASE buffers' = buffers
    BY <1>2, <1>4, <2>1 DEF PorServir
  <2>2. CASE NR_IniciarPatota
    <3>1. buffers' = Tail(buffers) /\ buffers # <<>>
      BY <2>2 DEF NR_IniciarPatota
    <3>2. PatotaDe[t] \in ToSet(buffers)
      BY <1>1, <1>4, <3>1, SinElPrimero DEF EnvioOK
    <3> QED BY <1>2, <3>2 DEF PorServir
  <2>3. ASSUME NEW p \in Patotas, p \notin listaPCB, buffers' = Append(buffers, p) PROVE PorServir(t)
    <3>1. PatotaDe[t] \in ToSet(buffers) \/ PatotaDe[t] = p
      BY <1>1, <1>4, <2>3, ConUnoMas
    <3> QED BY <1>2, <2>3, <3>1 DEF PorServir
  <2> QED BY <2>1, <2>2, <2>3, ListasNext
<1>5. CASE EnServicio(t)'
  <2>1. CASE ~NewReady
    <3>1. EnServicio(t)
      BY <1>5, <2>1, FueraDeNewReady DEF EnServicio
    <3> QED BY <1>2, <3>1 DEF PorServir
  <2>2. CASE NR_IniciarPatota
    <3> DEFINE p == Head(buffers)
    <3>1. p \in Patotas /\ buffers # <<>> /\ lbl["NR"] = "iniciar"
      BY <1>1, <2>2 DEF NR_IniciarPatota, En
    <3>2. PatotaDe[MinTid(Miembros(p))] = p
      BY <3>1, PrimerTid DEF Miembros
    <3>3. p \in ToSet(buffers)
      BY <1>1, <3>1 DEF ToSet
    <3> HIDE DEF p
    <3>4. ~UNCHANGED lbl
      BY <1>5, <3>1 DEF EnServicio
    <3>5. Ir("NR", "tareas", MinTid(Miembros(p)))
      BY <2>2, <3>4 DEF NR_IniciarPatota, anillo, p
    <3>6. PatotaDe[t] = p
      BY <1>1, <1>5, <3>2, <3>5 DEF EnServicio, Ir
    <3> QED BY <1>2, <3>3, <3>6 DEF PorServir
  <2>3. CASE NR_PrimeraTarea
    <3> DEFINE v == actual["NR"]
               u == SiguienteTid(v)
    <3>1. Ir("NR", IF u = Nadie THEN "iniciar" ELSE "tareas", u) /\ lbl["NR"] = "tareas" /\ v \in Trips
      BY <2>3 DEF NR_PrimeraTarea, En, EnTareas
    <3>2. u # Nadie => u \in Trips /\ PatotaDe[u] = PatotaDe[v] /\ u > v
      BY <3>1, SiguienteDespues
    <3> HIDE DEF u
    <3>3. u # Nadie /\ actual'["NR"] = u
      BY <1>1, <1>5, <3>1 DEF Ir, EnServicio
    <3>4. u \in Nat /\ v \in Nat
      BY <3>1, <3>2, <3>3, ConstantesOK
    <3>5. EnServicio(t)
      <4>1. t >= u /\ PatotaDe[t] = PatotaDe[u]
        BY <1>5, <3>3 DEF EnServicio
      <4>2. t >= v
        <5> HIDE DEF v
        <5> QED BY <1>1, <3>2, <3>3, <3>4, <4>1
      <4> QED BY <3>1, <3>2, <3>3, <4>1, <4>2 DEF EnServicio
    <3> QED BY <1>2, <3>5 DEF PorServir
  <2>4. ~(NR_Entra \/ NR_SinPatotas \/ NR_Sacar \/ NR_Poner \/ NR_Fin)
    BY <1>1, <1>5 DEF NR_Entra, NR_SinPatotas, NR_Sacar, NR_Poner, NR_Fin, Ir, Terminar, EnServicio
  <2> QED BY <2>1, <2>2, <2>3, <2>4 DEF NewReady
<1> QED BY <1>3, <1>4, <1>5 DEF PorServir

(* Who comes to be known is pushed to New in the same step. *)
LEMMA NacidoNext ==
  ASSUME Tipos, [Next]_vars, NEW t \in Trips, Nacido(t)' PROVE Nacido(t) \/ EnAlguno(t)'
<1>1. hilo \in [Trips -> Hilos] /\ cons \in Comandos /\ cola \in [Colas -> Seq(Trips)]
  BY DEF Tipos, TipoBarrera, TipoColas, ConsolaOK, TipoConsola
<1>2. CASE PAT_New
  <2>1. cons'.t = cons.t /\ cons.t \in Trips /\ hilo' = hilo /\ cola' = [cola EXCEPT !["new"] = Append(@, cons.t)]
    BY <1>1, <1>2 DEF PAT_New, Consola, EnConsola, Poner, Tipos, ConsolaOK, ConTripulante, Comandos, barrera
  <2>2. CASE t = cons.t
    <3>1. "new" \in Colas
      BY DEF Colas
    <3>2. cola'["new"] = Append(cola["new"], t)
      BY <1>1, <2>1, <2>2, <3>1
    <3>3. Contains(cola'["new"], t)
      BY <1>1, <3>1, <3>2, ConUnoExacto
    <3> QED BY <3>1, <3>3 DEF EnAlguno, Lugares, Ocupa, Esta
  <2> QED BY <2>1, <2>2 DEF Nacido
<1>3. CASE PAT_Hilo
  BY <1>1, <1>3 DEF PAT_Hilo, Consola, EnConsola, Nacido, Comandos
<1>4. CASE \E u \in Trips : Hilo(u)
  <2>1. cons' = cons
    BY <1>4 DEF Hilo, Tomar, Actuar, LlegarAlSabotaje, Reparar, Signal, consola
  <2>2. hilo'[t] # "nada" => hilo[t] # "nada"
    BY <1>1, <1>4 DEF Hilo, Tomar, Actuar, LlegarAlSabotaje, Reparar, Signal, EnHilo
  <2> QED BY <2>1, <2>2 DEF Nacido
<1>5. CASE hilo' = hilo /\ (cons' = cons \/ cons'.pc # "hilo")
  BY <1>5 DEF Nacido
<1>6. CASE NewReady \/ (\E e \in Recorridos : RecorreExec(e)) \/ BloqIO \/ AEmergencia \/ AReady
  BY <1>5, <1>6, SigueNewReady, SigueRecorreExec, SigueBloqIO, SigueAEmergencia, SigueAReady DEF barrera, consola
<1>7. CASE ReadyExec
  BY <1>5, <1>7, SigueReadyExec DEF ReadyExec, RE_Contar, RE_Empezar, RE_Avisar, VisitarLiberado, barrera, consola
<1>8. CASE EXIT_Cerrar \/ TomarPausar \/ (\E e \in Etapas : Despertar(e)) \/ SAB_Activar \/ SAB_Datos
             \/ UNCHANGED vars
  BY <1>5, <1>8 DEF EXIT_Cerrar, TomarPausar, Despertar, SAB_Activar, SAB_Datos, vars, barrera, consola
<1>9. CASE IniciarPlanificacion \/ PausarPlanificacion \/ ExpulsarTripulante \/ PAT_Crear \/ PAT_Listar
  <2>1. CASE IniciarPlanificacion \/ PausarPlanificacion \/ PAT_Crear \/ PAT_Listar
    <3>1. hilo' = hilo /\ \E pc \in Consolas \ {"hilo"} : \E u : cons' = [cons EXCEPT !.pc = pc, !.t = u]
      BY <2>1 DEF IniciarPlanificacion, PausarPlanificacion, INI_Pausar, INI_Turno, PAU_Pedir, PAU_Tomar,
         PAT_Crear, PAT_Listar, Consola, Consolas, barrera
    <3> QED BY <1>1, <1>5, <3>1 DEF Comandos
  <2>2. CASE \E u \in Trips : EXP_RAM(u)
    <3>1. hilo' = hilo /\ \E u : cons' = [cons EXCEPT !.pc = "estado", !.t = u]
      BY <2>2 DEF EXP_RAM, Consola, barrera
    <3> QED BY <1>1, <1>5, <3>1 DEF Comandos
  <2>3. CASE SeguirExpulsion
    <3>1. hilo' = hilo
      BY <2>3 DEF SeguirExpulsion, EXP_Estado, EXP_Buscar, EXP_Extraer, EXP_Extraido, EXP_Patota, barrera
    <3>2. cons' = cons \/ cons'.pc # "hilo"
      <4>1. CASE EXP_Extraer
        <5>1. /\ cons.pc = "extraer"
              /\ cons' = cons \/ cons' = [cons EXCEPT !.nodo = Siguiente(cola[cons.cola], cons.nodo),
                                                      !.i = @ + 1]
          BY <4>1 DEF EXP_Extraer, EnConsola
        <5> QED BY <1>1, <5>1 DEF Comandos
      <4>2. CASE EXP_Patota
        BY <4>2 DEF EXP_Patota, ConsolaLibre
      <4>3. CASE EXP_Estado
        <5>1. \E pc \in {"patota", "buscar"} : \E q : cons' = [cons EXCEPT !.pc = pc, !.cola = q]
          BY <4>3 DEF EXP_Estado
        <5> QED BY <1>1, <5>1 DEF Comandos
      <4>4. CASE EXP_Buscar
        BY <1>1, <4>4 DEF EXP_Buscar, Comandos
      <4>5. CASE EXP_Extraido
        BY <1>1, <4>5 DEF EXP_Extraido, Comandos
      <4> QED BY <2>3, <4>1, <4>2, <4>3, <4>4, <4>5 DEF SeguirExpulsion
    <3> QED BY <1>5, <3>1, <3>2
  <2> QED BY <1>9, <2>1, <2>2, <2>3 DEF ExpulsarTripulante
<1> QED BY <1>2, <1>3, <1>4, <1>6, <1>7, <1>8, <1>9 DEF Next, FuncionConsola, IniciarPatota

-----------------------------------------------------------------------------
(* Where each one is                                                        *)

(* Whoever a thread works on is in exec, or was expelled from it. *)
EnExec == \A t \in Trips : Actua(t) => tcb[t].est \in {"E", "X"} /\ (Ocupa("exec", t) \/ Ocupa("exit", t))

(* Who has no task yet has done nothing, and is lost by nobody. *)
SinEmpezar(t) == /\ tcb[t].est \in {"N", "X"} /\ tcb[t].ciclos = 0 /\ ~tcb[t].ini /\ inicios[t] = 0
                 /\ ~Actua(t) /\ \A l \in Lugares : Ocupa(l, t) => l \in {"new", "NR", "exit"}
AunSinTarea == \A t \in Trips : PorServir(t) => SinEmpezar(t) /\ (Nacido(t) => EnAlguno(t))

(* Only who has ended is in no place. *)
Perdidos == \A t \in Trips : Nacido(t) /\ ~EnAlguno(t) => tcb[t].est = "X"

SitioOK == EnExec /\ AunSinTarea /\ Perdidos

(* Who is given its first task does not wait for it any more. *)
LEMMA YaServido ==
  ASSUME Tipos, EnTareas, EnvioOK, [Next]_vars, NEW t \in Trips, t = actual["NR"], caida = "no",
         lbl["NR"] = "tareas", UNCHANGED <<buffers, listaPCB>>, lbl'["NR"] = "tareas" => actual'["NR"] > t
  PROVE  ~PorServir(t)'
<1>1. PatotaDe[t] \in listaPCB /\ PatotaDe[t] \notin ToSet(buffers)
  BY DEF EnvioOK
<1>2. ~EnServicio(t)'
  <2> SUFFICES ASSUME EnServicio(t)' PROVE FALSE
    OBVIOUS
  <2>1. actual'["NR"] \in Trips /\ t >= actual'["NR"] /\ actual'["NR"] > t
    BY EnTareasNext DEF EnTareas, EnServicio
  <2>2. t \in Nat /\ actual'["NR"] \in Nat
    BY <2>1, ConstantesOK
  <2> QED BY <2>1, <2>2
<1> QED BY <1>1, <1>2 DEF PorServir

(* Every step keeps the first ... *)
LEMMA EnExecNext ==
  ASSUME Tipos, LugarOK, TurnoOK, EnTareas, EnExec, [Next]_vars PROVE EnExec'
<1>1. Calmo \/ (ActuanMenos /\ Clase)
  BY ActuaNext
<1>2. "exec" \in Lugares /\ "exit" \in Lugares
  BY DEF Lugares, Colas
<1>3. CASE Calmo
  BY <1>2, <1>3 DEF Calmo, Calma, Hallado, Quedan, Intacto, EnExec
<1>4. CASE ActuanMenos /\ Calma
  BY <1>2, <1>4 DEF ActuanMenos, Calma, Quedan, Intacto, EnExec
<1>5. CASE ActuanMenos /\ NadieActua
  BY <1>5, ActuaEnCiclo DEF ActuanMenos, EnExec
<1>6. CASE ActuanMenos /\ Cambio
  <2> PICK t \in Trips, de \in Lugares, a \in Lugares : Cambia(t, de, a, tcb'[t].est)
    BY <1>6 DEF Cambio
  <2>1. CASE DeConsola(t, de, a, tcb'[t].est)
    <3>1. Cruza(t, a) /\ Ocupa(de, t) /\ \A u \in Trips \ {t} : tcb'[u].est = tcb[u].est
      BY DEF Cambia, Salvo, Intacto
    <3>2. \A u \in Trips \ {t}, l \in Lugares : Ocupa(l, u)' <=> Ocupa(l, u)
      BY <3>1 DEF Cruza
    <3>3. Ocupa(a, t)' /\ (Actua(t) => a \in {"exec", "exit"} /\ tcb'[t].est \in {"E", "X"})
      BY <1>2, <2>1, <3>1 DEF DeConsola, Cruza, EnExec, LugarOK, Unico
    <3> QED BY <1>2, <1>6, <3>1, <3>2, <3>3 DEF ActuanMenos, EnExec
  <2>2. CASE DeEtapa(t, de, a, tcb'[t].est)
    BY <1>5, <1>6, <2>2 DEF DeEtapa
  <2> QED BY <2>1, <2>2 DEF Cambia
<1>7. CASE ActuanMenos /\ (Primera \/ Devuelve \/ Elige \/ Restaura \/ Cierra)
  BY <1>5, <1>7 DEF Primera, Devuelve, Elige, Restaura, Cierra
<1>8. CASE ActuanMenos /\ Ciclo
  <2> PICK t \in Trips : ~Actua(t)' /\ Quedan /\ Salvo(t)
    BY <1>8 DEF Ciclo
  <2> QED BY <1>2, <1>8 DEF ActuanMenos, Quedan, Salvo, Intacto, EnExec
<1>9. CASE ActuanMenos /\ Nace
  <2> PICK t \in Trips : Cruza(t, "new") /\ Salvo(t) /\ \A l \in Lugares : ~Ocupa(l, t)
    BY <1>9 DEF Nace
  <2>1. ~Actua(t)
    BY <1>2 DEF EnExec
  <2> QED BY <1>2, <1>9, <2>1 DEF ActuanMenos, Cruza, Salvo, Intacto, EnExec
<1> QED BY <1>1, <1>3, <1>4, <1>6, <1>7, <1>8, <1>9 DEF Clase

(* ... and takes to no other place who has no task, but the one that gives  *)
(* it the first.                                                            *)
LEMMA SinEmpezarSigue ==
  ASSUME Tipos, LugarOK, TurnoOK, EnTareas, EnvioOK, SitioOK, [Next]_vars,
         NEW u \in Trips, PorServir(u), PorServir(u)'
  PROVE  SinEmpezar(u)' /\ (EnAlguno(u) => EnAlguno(u)')
<1> DEFINE Igual1 == tcb'[u].est = tcb[u].est /\ Igual(u)
           Sitios == \A l \in Lugares : Ocupa(l, u)' <=> Ocupa(l, u)
<1>1. SinEmpezar(u)
  BY DEF SitioOK, AunSinTarea
<1>2. Calmo \/ (ActuanMenos /\ Clase)
  BY ActuaNext
<1>3. ~Actua(u)'
  BY <1>1, <1>2 DEF Calmo, Hallado, ActuanMenos, SinEmpezar
<1>4. CASE Igual1 /\ Sitios
  BY <1>1, <1>3, <1>4 DEF Igual, SinEmpezar, EnAlguno
<1>5. ASSUME NEW t \in Trips \ {u}, Salvo(t), Quedan \/ \E a : Cruza(t, a)
      PROVE  Igual1 /\ Sitios
  BY <1>5 DEF Salvo, Intacto, Quedan, Cruza
<1>6. CASE Calma
  <2>1. Igual1 /\ Sitios
    BY <1>6 DEF Calma, Quedan, Intacto
  <2> QED BY <1>4, <2>1
<1>7. CASE Cambio
  <2> PICK t \in Trips, de \in Lugares, a \in Lugares : Cambia(t, de, a, tcb'[t].est)
    BY <1>7 DEF Cambio
  <2>1. CASE t # u
    BY <1>4, <1>5, <2>1 DEF Cambia
  <2>2. CASE t = u
    <3>1. Cruza(u, a) /\ Ocupa(de, u) /\ Igual(u)
      BY <2>2 DEF Cambia
    <3>2. de \in {"new", "NR", "exit"}
      BY <1>1, <3>1 DEF SinEmpezar
    <3>3. a \in {"new", "NR", "exit"} /\ tcb'[u].est \in {"N", "X"}
      <4>1. CASE DeConsola(u, de, a, tcb'[u].est)
        BY <1>1, <3>2, <4>1 DEF DeConsola, SinEmpezar
      <4>2. CASE DeEtapa(u, de, a, tcb'[u].est)
        BY <1>1, <3>2, <4>2 DEF DeEtapa, SinEmpezar, DestinoNew
      <4> QED BY <2>2, <4>1, <4>2 DEF Cambia
    <3>4. Ocupa(a, u)' /\ \A l \in Lugares : Ocupa(l, u)' => l = a
      BY <3>1 DEF Cruza
    <3> QED BY <1>1, <1>3, <3>1, <3>3, <3>4 DEF Igual, SinEmpezar, EnAlguno
  <2> QED BY <2>1, <2>2
<1>8. CASE Primera
  <2> PICK t \in Trips : /\ t = actual["NR"] /\ Salvo(t) /\ Quedan /\ UNCHANGED <<buffers, listaPCB>>
                         /\ caida = "no" /\ lbl["NR"] = "tareas" /\ (lbl'["NR"] = "tareas" => actual'["NR"] > t)
    BY <1>8 DEF Primera
  <2>1. t # u
    BY YaServido
  <2> QED BY <1>4, <1>5, <2>1
<1>9. CASE Devuelve \/ Elige \/ Restaura
  <2> PICK t \in Trips : /\ Salvo(t) /\ \E a : Cruza(t, a)
                         /\ Ocupa("BLOCKIO", t) \/ Ocupa("bem", t) \/ Ocupa("ERM", t)
    BY <1>9 DEF Devuelve, Elige, Restaura
  <2>1. t # u
    <3>1. {"BLOCKIO", "bem", "ERM"} \subseteq Lugares
      BY DEF Lugares, Colas, Etapas
    <3> QED BY <1>1, <3>1 DEF SinEmpezar
  <2> QED BY <1>4, <1>5, <2>1
<1>10. CASE Cierra
  BY <1>1, <1>3, <1>10 DEF Cierra, Quedan, SinEmpezar, EnAlguno
<1>11. CASE Ciclo
  <2> PICK t \in Trips : Actua(t) /\ Quedan /\ Salvo(t)
    BY <1>11 DEF Ciclo
  <2>1. t # u
    BY <1>1 DEF SinEmpezar
  <2> QED BY <1>4, <1>5, <2>1
<1>12. CASE Nace
  <2> PICK t \in Trips : /\ Cruza(t, "new") /\ Salvo(t) /\ tcb'[t].est = tcb[t].est /\ tcb'[t].ciclos = tcb[t].ciclos
                         /\ tcb'[t].ini = tcb[t].ini /\ inicios'[t] = inicios[t]
    BY <1>12 DEF Nace
  <2>1. CASE t # u
    BY <1>4, <1>5, <2>1
  <2>2. CASE t = u
    <3>1. "new" \in Lugares
      BY DEF Lugares, Colas
    <3> QED BY <1>1, <1>3, <2>2, <3>1 DEF Cruza, SinEmpezar, EnAlguno
  <2> QED BY <2>1, <2>2
<1> QED BY <1>2, <1>6, <1>7, <1>8, <1>9, <1>10, <1>11, <1>12 DEF Calmo, Clase

(* Nobody leaves every place but a tripulante that BloqIO finds without a   *)
(* further task, and it has ended; who is nowhere stays in 'X'.             *)
LEMMA PerdidosNext ==
  ASSUME Tipos, LugarOK, TurnoOK, EnTareas, EnvioOK, SitioOK, [Next]_vars
  PROVE  Perdidos'
<1> SUFFICES ASSUME NEW u \in Trips, Nacido(u)', ~EnAlguno(u)' PROVE tcb'[u].est = "X"
  BY DEF Perdidos
<1>1. Nacido(u)
  BY NacidoNext
<1>2. CASE Quedan \/ \E t \in Trips \ {u} : \E a : Cruza(t, a)
  <2>1. ~EnAlguno(u)
    BY <1>2 DEF EnAlguno, Quedan, Cruza
  <2>2. tcb[u].est = "X"
    BY <1>1, <2>1 DEF SitioOK, Perdidos
  <2>3. ~Actua(u) /\ ~PorServir(u)
    BY <1>1, <2>1 DEF SitioOK, EnExec, AunSinTarea, EnAlguno, Lugares, Colas
  <2>4. ~(lbl["NR"] = "tareas" /\ u = actual["NR"] /\ caida = "no")
    <3>1. u \in Nat
      BY ConstantesOK
    <3> QED BY <2>3, <3>1 DEF PorServir, EnServicio
  <2>5. \A l \in Lugares : ~Ocupa(l, u)
    BY <2>1 DEF EnAlguno
  <2>6. tcb'[u].est = tcb[u].est
    <3>1. CASE Calma \/ Cierra
      BY <3>1 DEF Calma, Cierra, Intacto
    <3>2. CASE Cambio
      BY <2>5, <3>2 DEF Cambio, Cambia, Salvo, Intacto
    <3>3. CASE Primera
      BY <2>4, <3>3 DEF Primera, Salvo, Intacto
    <3>4. CASE Devuelve \/ Elige \/ Restaura
      <4> PICK t \in Trips : Salvo(t) /\ (Ocupa("BLOCKIO", t) \/ Ocupa("bem", t) \/ Ocupa("ERM", t))
        BY <3>4 DEF Devuelve, Elige, Restaura
      <4>1. {"BLOCKIO", "bem", "ERM"} \subseteq Lugares
        BY DEF Lugares, Colas, Etapas
      <4> QED BY <2>5, <4>1 DEF Salvo, Intacto
    <3>5. CASE Ciclo
      BY <2>3, <3>5 DEF Ciclo, Salvo, Intacto
    <3>6. CASE Nace
      <4> PICK t \in Trips : Salvo(t) /\ tcb'[t].est = tcb[t].est
        BY <3>6 DEF Nace
      <4> QED BY DEF Salvo, Intacto
    <3> QED BY <3>1, <3>2, <3>3, <3>4, <3>5, <3>6, ActuaNext DEF Calmo, Clase
  <2> QED BY <2>2, <2>6
<1>3. ASSUME NEW a \in Lugares, Cruza(u, a) PROVE FALSE
  BY <1>3 DEF Cruza, EnAlguno
<1>4. CASE ~(Quedan \/ \E t \in Trips \ {u} : \E a : Cruza(t, a))
  <2>1. {"ready", "bem", "new"} \subseteq Lugares
    BY DEF Lugares, Colas
  <2>2. \A t \in Trips : \A a : Cruza(t, a) => t = u /\ a \notin Lugares
    BY <1>3, <1>4
  <2>3. Devuelve
    <3>1. ~(Calma \/ Primera \/ Cierra \/ Ciclo)
      BY <1>4 DEF Calma, Primera, Cierra, Ciclo
    <3>2. ~Cambio
      BY <2>2 DEF Cambio, Cambia
    <3>3. ~(Elige \/ Restaura \/ Nace)
      BY <2>1, <2>2 DEF Elige, Restaura, Nace
    <3> QED BY <3>1, <3>2, <3>3, ActuaNext DEF Calmo, Clase
  <2> QED BY <2>1, <2>2, <2>3 DEF Devuelve
<1> QED BY <1>2, <1>4

(* So every step keeps the three. *)
LEMMA SitioNext ==
  ASSUME Tipos, LugarOK, TurnoOK, EnTareas, EnvioOK, SitioOK, [Next]_vars
  PROVE  SitioOK'
<1>1. AunSinTarea'
  <2> SUFFICES ASSUME NEW u \in Trips, PorServir(u)'
               PROVE  SinEmpezar(u)' /\ (Nacido(u)' => EnAlguno(u)')
    BY DEF AunSinTarea
  <2>1. PorServir(u)
    BY PorServirNext
  <2>2. SinEmpezar(u)' /\ (EnAlguno(u) => EnAlguno(u)')
    BY <2>1, SinEmpezarSigue
  <2>3. Nacido(u)' => Nacido(u) \/ EnAlguno(u)'
    BY NacidoNext
  <2> QED BY <2>1, <2>2, <2>3 DEF SitioOK, AunSinTarea
<1> QED BY <1>1, EnExecNext, PerdidosNext DEF SitioOK

(* At the start there are no patotas, and nobody has begun. *)
LEMMA SitioInit == Init => EnTareas /\ EnvioOK /\ SitioOK
<1> SUFFICES ASSUME Init PROVE EnTareas /\ EnvioOK /\ SitioOK
  OBVIOUS
<1>1. "NR" \in Etapas /\ lbl["NR"] # "tareas" /\ buffers = <<>> /\ cons.pc # "hilo" /\ \A t \in Trips : hilo[t] = "nada"
  BY DEF Init, Etapas, ConsolaLibre
<1>2. \A l \in Lugares : \A t \in Trips : ~Ocupa(l, t)
  BY DEF Init, Lugares, Ocupa, Esta, Contains, EnMano
<1>3. \A t \in Trips : tcb[t].est = "N" /\ tcb[t].ciclos = 0 /\ ~tcb[t].ini /\ inicios[t] = 0
  BY DEF Init
<1> QED BY <1>1, <1>2, <1>3 DEF EnTareas, EnvioOK, NoRepite, SitioOK, EnExec, AunSinTarea, SinEmpezar, Nacido,
       Perdidos, Actua

(* For every value of the constants, sabotages and expulsions included: a   *)
(* tripulante with a thread that has not ended is in a queue or in the hand *)
(* of a stage.                                                              *)
THEOREM NingunoPerdidoSiempre ==
  ASSUME MaxReinicios = 0 PROVE Spec => []NingunoPerdido
<1>1. Tipos /\ LugarOK /\ TurnoOK /\ EnTareas /\ EnvioOK /\ SitioOK /\ [Next]_vars
        => EnTareas' /\ EnvioOK' /\ SitioOK'
  BY EnTareasNext, EnvioNext, SitioNext
<1>2. Tipos /\ SitioOK => NingunoPerdido
  <2> SUFFICES ASSUME Tipos, SitioOK, NEW t \in Trips, hilo[t] # "nada", tcb[t].est # "X"
               PROVE  t \in EnColas(Colas) \/ \E e \in Etapas : EnMano(e) /\ actual[e] = t
    BY DEF NingunoPerdido
  <2>1. EnAlguno(t)
    BY DEF SitioOK, Perdidos, Nacido
  <2>2. PICK l \in Lugares : Ocupa(l, t)
    BY <2>1 DEF EnAlguno
  <2>3. CASE l \in Colas
    <3>1. cola[l] \in Seq(Trips) /\ Contains(cola[l], t)
      BY <2>2, <2>3 DEF Ocupa, Esta, Tipos, TipoColas
    <3>2. t \in ToSet(cola[l])
      BY <3>1, ContieneToSet
    <3> QED BY <2>3, <3>2, Zenon DEF EnColas
  <2>4. CASE l \notin Colas
    BY <2>2, <2>4 DEF Ocupa, Lugares
  <2> QED BY <2>3, <2>4
<1> QED BY TurnoSiempre, SitioInit, <1>1, <1>2, PTL DEF Spec

-----------------------------------------------------------------------------
(* What IMongoStore heard                                                   *)

(* Without sabotages the stages of BloqEmer do nothing. *)
SinSabotaje == ~sab.activado /\ \A e \in {"ERM", "MR"} : lbl[e] \in {"espera", "entra"}

(* It heard of the start of the task of t once if t has begun to work on    *)
(* it, and never if it has not; or t is waiting for its IO, or has ended.   *)
Limpio(t) == inicios[t] = (IF tcb[t].ini THEN 1 ELSE 0) /\ (tcb[t].ini => ~tcb[t].instr.io)
DeIO(t) == /\ inicios[t] = 1 /\ ~tcb[t].ini /\ ~Actua(t)
           /\ \/ \E l \in {"bio", "BLOCKIO", "exit"} : Ocupa(l, t)
              \/ Ocupa("exec", t) /\ tcb[t].est \in {"I", "X"}
Inicios ==
  /\ \A t \in Trips : Limpio(t) \/ DeIO(t)
  /\ \A t \in Trips : tcb[t].est = "I" \/ Ocupa("bio", t) \/ Ocupa("BLOCKIO", t) => ~tcb[t].ini

(* Nobody starts a sabotage. *)
LEMMA SinSabotajeNext ==
  ASSUME MaxSabotajes = 0, Tipos, SinSabotaje, [Next]_vars PROVE SinSabotaje'
<1>1. /\ lbl \in [Etapas -> Rotulos] /\ {"ERM", "MR"} \subseteq Etapas
      /\ sab \in Sabotajes /\ usos.sabotajes \in Nat
  BY DEF Tipos, AnilloOK, TipoAnillo, TipoSabotaje, ConsolaOK, TipoConsola, Usos, Etapas
<1>2. ASSUME NEW e \in Etapas \ {"ERM", "MR"}, SigueEtapa(e)
      PROVE  lbl'["ERM"] = lbl["ERM"] /\ lbl'["MR"] = lbl["MR"]
  BY <1>1, <1>2 DEF SigueEtapa, Ir, Terminar, anillo
<1>3. CASE UNCHANGED <<lbl, sab>>
  BY <1>3 DEF SinSabotaje
<1>4. CASE NewReady \/ BloqIO \/ \E e \in Recorridos : RecorreExec(e)
  <2>1. sab' = sab
    BY <1>4 DEF NewReady, NR_Entra, NR_IniciarPatota, NR_PrimeraTarea, NR_SinPatotas, NR_Sacar, NR_Poner,
       NR_Fin, BloqIO, BIO_Entra, BIO_Contar, BIO_Pedir, BIO_Salir, RecorreExec, Recorrer, Visitar,
       VisitarLiberado, sabotaje
  <2>2. lbl'["ERM"] = lbl["ERM"] /\ lbl'["MR"] = lbl["MR"]
    BY <1>2, <1>4, SigueNewReady, SigueBloqIO, SigueRecorreExec DEF Recorridos, Etapas
  <2> QED BY <2>1, <2>2 DEF SinSabotaje
<1>5. CASE ReadyExec
  <2>1. sab' = sab
    BY <1>5 DEF ReadyExec, RE_Entra, RE_Sacar, RE_Poner, RE_Lleno, RE_Contar, RE_Empezar, RE_Avisar,
       VisitarLiberado, sabotaje
  <2>2. lbl'["ERM"] = lbl["ERM"] /\ lbl'["MR"] = lbl["MR"]
    <3>1. CASE RE_Entra \/ RE_Sacar \/ RE_Poner \/ RE_Lleno
      BY <1>2, <3>1, SigueReadyExec DEF Etapas
    <3>2. CASE RE_Contar \/ RE_Empezar \/ RE_Avisar \/ VisitarLiberado("RE")
      BY <1>1, <3>2 DEF RE_Contar, RE_Empezar, RE_Avisar, VisitarLiberado, Ir, Terminar, anillo
    <3> QED BY <1>5, <3>1, <3>2 DEF ReadyExec
  <2> QED BY <2>1, <2>2 DEF SinSabotaje
<1>6. CASE AEmergencia
  <2>1. ERM_Entra
    BY <1>6 DEF SinSabotaje, AEmergencia, ERM_SacarFixer, ERM_Restaurar, ERM_Sacar, ERM_Poner,
       ERM_Elegir, En
  <2>2. sab' = sab /\ Terminar("ERM", "MR")
    BY <2>1 DEF ERM_Entra, SinSabotaje
  <2> QED BY <1>1, <2>2 DEF Terminar, SinSabotaje
<1>7. CASE AReady
  <2>1. MR_Entra
    BY <1>7 DEF SinSabotaje, AReady, MR_Sacar, MR_Poner, MR_Resolver, En
  <2>2. sab' = sab /\ Terminar("MR", "EXIT")
    BY <2>1 DEF MR_Entra, SinSabotaje, sabotaje
  <2> QED BY <1>1, <2>2 DEF Terminar, SinSabotaje
<1>8. CASE TomarPausar \/ (\E e \in Etapas : Despertar(e)) \/ EXIT_Cerrar
  <2>1. sab' = sab /\ \E e \in Etapas, l \in {"turno", "entra", "espera"} :
                        lbl' = [lbl EXCEPT ![e] = l] /\ (l = "turno" => e = "NR")
    BY <1>8 DEF TomarPausar, Despertar, EXIT_Cerrar, Terminar, sabotaje, Etapas
  <2> QED BY <1>1, <2>1 DEF SinSabotaje
<1>9. CASE \E t \in Trips : Hilo(t)
  <2>1. lbl' = lbl /\ sab'.activado = sab.activado
    BY <1>1, <1>9 DEF Hilo, Tomar, Actuar, LlegarAlSabotaje, Reparar, Signal, anillo, sabotaje, Sabotajes
  <2> QED BY <2>1 DEF SinSabotaje
<1>10. CASE SAB_Activar \/ SAB_Datos
  <2>1. SAB_Datos
    BY <1>1, <1>10 DEF SAB_Activar
  <2>2. lbl' = lbl /\ sab'.activado = sab.activado
    BY <1>1, <2>1 DEF SAB_Datos, anillo, Sabotajes
  <2> QED BY <2>2 DEF SinSabotaje
<1>11. CASE FuncionConsola \/ UNCHANGED vars
  BY <1>3, <1>11 DEF FuncionConsola, IniciarPlanificacion, PausarPlanificacion, IniciarPatota,
     ExpulsarTripulante, SeguirExpulsion, INI_Pausar, INI_Turno, PAU_Pedir, PAU_Tomar, PAT_Crear,
     PAT_Listar, PAT_New, PAT_Hilo, EXP_RAM, EXP_Estado, EXP_Buscar, EXP_Extraer, EXP_Extraido,
     EXP_Patota, anillo, sabotaje, vars
<1> QED BY <1>4, <1>5, <1>6, <1>7, <1>8, <1>9, <1>10, <1>11 DEF Next

(* Every step keeps what it heard. *)
LEMMA IniciosNext ==
  ASSUME Tipos, LugarOK, TurnoOK, EnTareas, SitioOK, SinSabotaje, Inicios, [Next]_vars
  PROVE  Inicios'
<1> SUFFICES ASSUME NEW u \in Trips
             PROVE  /\ (Limpio(u) \/ DeIO(u))'
                    /\ (tcb[u].est = "I" \/ Ocupa("bio", u) \/ Ocupa("BLOCKIO", u) => ~tcb[u].ini)'
  BY DEF Inicios
<1> DEFINE Sitios == \A l \in Lugares : Ocupa(l, u)' <=> Ocupa(l, u)
           EnIO == tcb[u].est = "I" \/ Ocupa("bio", u) \/ Ocupa("BLOCKIO", u)
<1>1. /\ Limpio(u) \/ DeIO(u)
      /\ EnIO => ~tcb[u].ini
  BY DEF Inicios
<1>2. {"bio", "BLOCKIO", "exit", "exec", "ERM", "new", "ready"} \subseteq Lugares
  BY DEF Lugares, Colas, Etapas
<1>3. Calmo \/ (ActuanMenos /\ Clase)
  BY ActuaNext
<1>4. \A k, l \in Lugares : Ocupa(k, u) /\ Ocupa(l, u) => k = l
  BY DEF LugarOK, Unico
<1>5. DeIO(u) => ~Actua(u)'
  BY <1>2, <1>3, <1>4 DEF Calmo, Hallado, ActuanMenos, DeIO
<1>6. CASE Intacto(u) /\ Sitios
  <2>1. Limpio(u) => Limpio(u)'
    BY <1>6 DEF Intacto, Igual, Limpio
  <2>2. DeIO(u) => DeIO(u)'
    BY <1>2, <1>5, <1>6 DEF Intacto, Igual, DeIO
  <2>3. EnIO' <=> EnIO
    BY <1>2, <1>6 DEF Intacto
  <2> QED BY <1>1, <1>6, <2>1, <2>2, <2>3 DEF Intacto, Igual
<1>7. ASSUME NEW t \in Trips \ {u}, Salvo(t), Quedan \/ \E a : Cruza(t, a)
      PROVE  Intacto(u) /\ Sitios
  BY <1>7 DEF Salvo, Quedan, Cruza
<1>8. CASE Calma
  <2>1. Intacto(u) /\ Sitios
    BY <1>8 DEF Calma, Quedan
  <2> QED BY <1>6, <2>1
<1>9. CASE Cambio
  <2> PICK t \in Trips, de \in Lugares, a \in Lugares : Cambia(t, de, a, tcb'[t].est)
    BY <1>9 DEF Cambio
  <2>1. CASE t # u
    <3>1. Intacto(u) /\ Sitios
      BY <1>7, <2>1 DEF Cambia
    <3> QED BY <1>6, <3>1
  <2>2. CASE t = u
    <3>1. Cruza(u, a) /\ Ocupa(de, u) /\ Igual(u)
      BY <2>2 DEF Cambia
    <3>2. \A l \in Lugares : Ocupa(l, u)' <=> l = a
      BY <3>1 DEF Cruza
    <3>3. Limpio(u) => Limpio(u)'
      BY <3>1 DEF Igual, Limpio
    <3>4. \A l \in Lugares : Ocupa(l, u) => l = de
      BY <1>4, <3>1
    <3>5. CASE DeConsola(u, de, a, tcb'[u].est)
      <4>1. DeIO(u) => DeIO(u)'
        BY <1>2, <1>5, <3>1, <3>2, <3>4, <3>5 DEF DeConsola, Igual, DeIO
      <4>2. EnIO' => EnIO
        BY <1>2, <3>1, <3>2, <3>5 DEF DeConsola
      <4> QED BY <1>1, <3>1, <3>3, <4>1, <4>2 DEF Igual
    <3>6. CASE DeEtapa(u, de, a, tcb'[u].est)
      <4>1. lbl["ERM"] \notin {"sacarFixer", "vaciar"} /\ lbl["MR"] # "vaciar"
        BY DEF SinSabotaje
      <4>2. DeIO(u) => DeIO(u)'
        <5> SUFFICES ASSUME DeIO(u) PROVE DeIO(u)'
          OBVIOUS
        <5>1. de \in {"bio", "BLOCKIO", "exit"} \/ (de = "exec" /\ tcb[u].est \in {"I", "X"})
          BY <1>2, <3>4 DEF DeIO
        <5>2. CASE de = "bio"
          <6>1. a = "BLOCKIO"
            BY <3>6, <4>1, <5>2 DEF DeEtapa
          <6> QED BY <1>2, <1>5, <3>1, <3>2, <6>1 DEF Igual, DeIO
        <5>3. CASE de = "exec" /\ tcb[u].est \in {"I", "X"}
          <6>1. a \in {"bio", "exit"}
            BY <3>6, <4>1, <5>3 DEF DeEtapa, Recorridos, Destino, Estado
          <6> QED BY <1>2, <1>5, <3>1, <3>2, <6>1 DEF Igual, DeIO
        <5>4. de \notin {"BLOCKIO", "exit"}
          BY <3>6 DEF DeEtapa
        <5> QED BY <5>1, <5>2, <5>3, <5>4
      <4>3. EnIO' => EnIO
        <5>1. CASE a = "bio" \/ a = "BLOCKIO"
          BY <3>1, <3>6, <5>1 DEF DeEtapa, Recorridos, Destino, Estado, DestinoNew
        <5>2. CASE a # "bio" /\ a # "BLOCKIO"
          BY <1>2, <3>2, <3>6, <5>2 DEF DeEtapa
        <5> QED BY <5>1, <5>2
      <4> QED BY <1>1, <3>1, <3>3, <4>2, <4>3 DEF Igual
    <3> QED BY <2>2, <3>5, <3>6 DEF Cambia
  <2> QED BY <2>1, <2>2
<1>10. CASE Primera
  <2> PICK t \in Trips : /\ t = actual["NR"] /\ Salvo(t) /\ Quedan /\ caida = "no" /\ lbl["NR"] = "tareas"
                         /\ tcb'[t].ini = tcb[t].ini /\ inicios'[t] = inicios[t]
    BY <1>10 DEF Primera
  <2>1. CASE t # u
    <3>1. Intacto(u) /\ Sitios
      BY <1>7, <2>1
    <3> QED BY <1>6, <3>1
  <2>2. CASE t = u
    <3>1. u \in Nat
      BY ConstantesOK
    <3>2. PorServir(u)
      BY <2>2, <3>1 DEF PorServir, EnServicio
    <3>3. ~tcb[u].ini /\ inicios[u] = 0
      BY <3>2 DEF SitioOK, AunSinTarea, SinEmpezar
    <3> QED BY <2>2, <3>3 DEF Limpio
  <2> QED BY <2>1, <2>2
<1>11. CASE Devuelve
  <2> PICK t \in Trips : /\ Ocupa("BLOCKIO", t) /\ Salvo(t) /\ tcb'[t].ini = tcb[t].ini /\ inicios'[t] = 0
                         /\ \E a : Cruza(t, a)
    BY <1>11 DEF Devuelve
  <2>1. CASE t # u
    <3>1. Intacto(u) /\ Sitios
      BY <1>7, <2>1
    <3> QED BY <1>6, <3>1
  <2>2. CASE t = u
    BY <1>1, <2>2 DEF Limpio
  <2> QED BY <2>1, <2>2
<1>12. ~Elige /\ ~Restaura
  BY DEF Elige, Restaura, SinSabotaje
<1>13. CASE Cierra
  <2>1. Intacto(u) \/ (tcb'[u].est = tcb[u].est /\ tcb'[u].ini = tcb[u].ini /\ tcb'[u].instr = tcb[u].instr
                       /\ inicios'[u] = inicios[u])
    BY <1>13 DEF Cierra
  <2>2. Sitios /\ tcb'[u].est = tcb[u].est /\ tcb'[u].ini = tcb[u].ini /\ tcb'[u].instr = tcb[u].instr
        /\ inicios'[u] = inicios[u]
    BY <1>13, <2>1 DEF Cierra, Quedan, Intacto, Igual
  <2> QED BY <1>1, <1>2, <1>5, <2>2 DEF Limpio, DeIO
<1>14. CASE Ciclo
  <2> PICK t \in Trips : Actua(t) /\ ~Actua(t)' /\ Quedan /\ Salvo(t) /\ Hecho(t)
    BY <1>14 DEF Ciclo
  <2>1. CASE t # u
    <3>1. Intacto(u) /\ Sitios
      BY <1>7, <2>1
    <3> QED BY <1>6, <3>1
  <2>2. CASE t = u
    <3>1. Limpio(u) /\ tcb[u].est \in {"E", "X"} /\ (Ocupa("exec", u) \/ Ocupa("exit", u)) /\ Sitios
      BY <1>1, <2>2 DEF DeIO, SitioOK, EnExec, Quedan
    <3>2. ~Ocupa("bio", u)' /\ ~Ocupa("BLOCKIO", u)' /\ (Ocupa("exec", u)' \/ Ocupa("exit", u)')
      BY <1>2, <1>4, <3>1
    <3>3. CASE /\ tcb'[u].ini = tcb[u].ini /\ tcb'[u].instr = tcb[u].instr /\ inicios'[u] = inicios[u]
               /\ tcb'[u].est \in {tcb[u].est, "R"}
      BY <3>1, <3>2, <3>3 DEF Limpio
    <3>4. CASE ~tcb'[u].ini /\ inicios'[u] = 0
      BY <3>4 DEF Limpio
    <3>5. CASE /\ tcb'[u].ini /\ tcb'[u].instr = tcb[u].instr /\ ~tcb[u].instr.io
               /\ inicios'[u] = IF tcb[u].ini THEN inicios[u] ELSE inicios[u] + 1
               /\ tcb'[u].est \in {tcb[u].est, "R"}
      <4>1. inicios'[u] = 1
        BY <3>1, <3>5 DEF Limpio
      <4> QED BY <3>1, <3>2, <3>5, <4>1 DEF Limpio
    <3>6. CASE /\ tcb'[u].ini = tcb[u].ini /\ tcb'[u].instr = tcb[u].instr /\ tcb[u].instr.io
               /\ inicios'[u] = inicios[u] + 1 /\ tcb'[u].est = "I"
      <4>1. ~tcb[u].ini /\ inicios'[u] = 1
        BY <3>1, <3>6 DEF Limpio
      <4> QED BY <2>2, <3>2, <3>6, <4>1 DEF DeIO
    <3> QED BY <2>2, <3>3, <3>4, <3>5, <3>6 DEF Hecho
  <2> QED BY <2>1, <2>2
<1>15. CASE Nace
  <2> PICK t \in Trips : /\ \A l \in Lugares : ~Ocupa(l, t)
                         /\ Cruza(t, "new") /\ Salvo(t) /\ tcb'[t].est = tcb[t].est /\ tcb'[t].ini = tcb[t].ini
                         /\ tcb'[t].instr = tcb[t].instr /\ inicios'[t] = inicios[t]
    BY <1>15 DEF Nace
  <2>1. CASE t # u
    <3>1. Intacto(u) /\ Sitios
      BY <1>7, <2>1
    <3> QED BY <1>6, <3>1
  <2>2. CASE t = u
    <3>1. ~DeIO(u)
      BY <1>2, <2>2 DEF DeIO
    <3>2. ~Ocupa("bio", u)' /\ ~Ocupa("BLOCKIO", u)'
      BY <1>2, <2>2 DEF Cruza
    <3> QED BY <1>1, <2>2, <3>1, <3>2 DEF Limpio
  <2> QED BY <2>1, <2>2
<1> QED BY <1>3, <1>8, <1>9, <1>10, <1>11, <1>12, <1>13, <1>14, <1>15 DEF Calmo, Clase

(* For every value of the other constants, expulsions included, and while   *)
(* there are no sabotages: IMongoStore hears of the start of a task once.   *)
THEOREM InicioUnicoSiempre ==
  ASSUME MaxReinicios = 0, MaxSabotajes = 0 PROVE Spec => []InicioUnico
<1>1. Init => SinSabotaje /\ Inicios
  <2> SUFFICES ASSUME Init PROVE SinSabotaje /\ Inicios
    OBVIOUS
  <2>1. \A t \in Trips : ~tcb[t].ini /\ inicios[t] = 0 /\ tcb[t].est = "N"
    BY DEF Init
  <2>2. SinSabotaje
    BY DEF Init, SinSabotaje, Etapas
  <2> QED BY <2>1, <2>2 DEF Inicios, Limpio
<1>2. Tipos /\ LugarOK /\ TurnoOK /\ EnTareas /\ EnvioOK /\ SitioOK /\ SinSabotaje /\ Inicios /\ [Next]_vars
        => EnTareas' /\ EnvioOK' /\ SitioOK' /\ SinSabotaje' /\ Inicios'
  BY EnTareasNext, EnvioNext, SitioNext, SinSabotajeNext, IniciosNext
<1>3. Inicios => InicioUnico
  BY DEF Inicios, Limpio, DeIO, InicioUnico
<1> QED BY TurnoSiempre, SitioInit, <1>1, <1>2, <1>3, PTL DEF Spec

-----------------------------------------------------------------------------
(* QuantumRespetado and PatotaTerminada of Planificador: what the status of *)
(* a tripulante says of where it is, with sabotages and without.            *)
(*                                                                         *)
(* A tripulante that ended stays in exec, in 'X', until Exec->Exit visits   *)
(* it: both need that no TCB of exec escapes the visit of its cycle         *)
(* (FaltaExit), whatever the order in which the nodes leave the list.       *)

(* What the modules above prove of every reachable state. *)
Base == Tipos /\ LugarOK /\ TurnoOK /\ EnTareas /\ EnvioOK /\ SitioOK

(* The conjunction of their invariants is one. *)
LEMMA BaseSiempre ==
  ASSUME MaxReinicios = 0 PROVE Spec => []Base
<1>1. Tipos /\ LugarOK /\ TurnoOK /\ EnTareas /\ EnvioOK /\ SitioOK /\ [Next]_vars
        => EnTareas' /\ EnvioOK' /\ SitioOK'
  BY EnTareasNext, EnvioNext, SitioNext
<1> QED BY TurnoSiempre, SitioInit, <1>1, PTL DEF Spec, Base

-----------------------------------------------------------------------------
(* The visit of Exec->Exit that a TCB of exec still has to receive          *)

(* Exec->Exit has not reached t in this cycle: the tripulantes work, or     *)
(* _signal counts them, or Exec->Ready has the turn, or the iterator is at  *)
(* t, before it, or at a node the console freed.                            *)
FaltaExit(t) ==
  \/ HilosEnCiclo # {} \/ contador # 0 \/ sem["ER"] > 0 \/ Trabaja("ER")
  \/ sem["EaX"] > 0 \/ lbl["EaX"] = "entra"
  \/ /\ lbl["EaX"] = "recorre"
     /\ \/ ~Esta("exec", actual["EaX"]) \/ t = actual["EaX"]
        \/ Detras(cola["exec"], actual["EaX"], t)

(* Taking another node out leaves two nodes in their order. *)
LEMMA QuedanDetras ==
  ASSUME NEW s \in Seq(Trips), NEW k \in 1..Len(s), NEW t, NEW u, Detras(s, t, u), t # s[k], u # s[k]
  PROVE  Detras(RemoveAt(s, k), t, u)
<1> DEFINE r == RemoveAt(s, k)
<1>1. /\ r \in Seq(Trips) /\ Len(r) = Len(s) - 1
      /\ \A j \in 1..(Len(s) - 1) : r[j] = s[IF j < k THEN j ELSE j + 1]
  BY RemoveAtTipo
<1> HIDE DEF r
<1>2. PICK i, j \in 1..Len(s) : i < j /\ s[i] = t /\ s[j] = u
  BY DEF Detras
<1>3. i # k /\ j # k
  BY <1>2
<1> DEFINE a == IF i < k THEN i ELSE i - 1
           b == IF j < k THEN j ELSE j - 1
<1>4. /\ a \in 1..Len(r) /\ b \in 1..Len(r) /\ a < b
      /\ (IF a < k THEN a ELSE a + 1) = i /\ (IF b < k THEN b ELSE b + 1) = j
  BY <1>1, <1>2, <1>3
<1> HIDE DEF a, b
<1>5. r[a] = t /\ r[b] = u
  BY <1>1, <1>2, <1>4
<1> QED BY <1>4, <1>5 DEF Detras, r

(* A stage at work but for the two that lead to Exec->Exit has no visit     *)
(* left to come before it.                                                  *)
LEMMA YaVisitados ==
  ASSUME Ficha, NEW e \in Etapas \ {"ER", "EaX"}, Trabaja(e), e = "RE" => ~Avisando, NEW t
  PROVE  ~FaltaExit(t)
<1>1. "ER" \in Etapas /\ "EaX" \in Etapas /\ "ER" \in SemTurno /\ "EaX" \in SemTurno
  BY DEF Etapas, SemTurno
<1>2. /\ HilosEnCiclo = {} /\ contador = 0 /\ NadaPuesto /\ \A f \in Etapas : Trabaja(f) => f = e
  BY TurnoDeEtapa
<1>3. ~Trabaja("ER") /\ ~Trabaja("EaX")
  BY <1>1, <1>2
<1>4. sem["ER"] = 0 /\ sem["EaX"] = 0
  BY <1>1, <1>2 DEF NadaPuesto
<1> QED BY <1>2, <1>3, <1>4 DEF FaltaExit, Trabaja

(* Exec->Exit visits who it finds in exec. *)
LEMMA FaltaExitVisita ==
  ASSUME Tipos, LugarOK, TurnoOK, RecorreExec("EaX"), NEW t \in Trips, Ocupa("exec", t), Ocupa("exec", t)',
         tcb[t].est = "X", FaltaExit(t)
  PROVE  FaltaExit(t)'
<1>1. /\ "EaX" \in Etapas /\ "EaX" \in SemTurno /\ "exec" \in Colas /\ cola["exec"] \in Seq(Trips)
      /\ lbl \in [Etapas -> Rotulos] /\ actual \in [Etapas -> TripsONada] /\ NoRepite(cola["exec"])
  BY DEF Etapas, SemTurno, Colas, Tipos, AnilloOK, TipoAnillo, TipoColas, LugarOK, SinRepetir
<1>2. Contains(cola["exec"], t) /\ Contains(cola'["exec"], t)
  BY <1>1 DEF Ocupa, Esta
<1>3. Trabaja("EaX") /\ "ER" \in Etapas /\ "ER" \in SemTurno /\ "EaX" # "RE"
  BY SigueRecorreExec DEF Recorridos, Etapas, SemTurno
<1>4. /\ HilosEnCiclo = {} /\ contador = 0 /\ NadaPuesto /\ viva /\ ~pausada
      /\ \A f \in Etapas : Trabaja(f) => f = "EaX"
  BY <1>1, <1>3, TurnoDeEtapa DEF TurnoOK
<1>5. CASE Recorrer("EaX")
  <2>1. cola["exec"] # <<>> /\ cola' = cola
    BY <1>2, <1>5 DEF Recorrer, Contains
  <2>2. Ir("EaX", "recorre", Head(cola["exec"]))
    BY <1>4, <1>5, <2>1 DEF Recorrer
  <2>3. lbl'["EaX"] = "recorre" /\ actual'["EaX"] = Head(cola["exec"])
    BY <1>1, <2>2 DEF Ir
  <2>4. t = Head(cola["exec"]) \/ Detras(cola["exec"], Head(cola["exec"]), t)
    BY <1>1, <1>2, <2>1, CabezaDetras
  <2> QED BY <2>1, <2>3, <2>4 DEF FaltaExit
<1>6. CASE Visitar("EaX")
  <2> DEFINE a == actual["EaX"]
             s == cola["exec"]
             u == Siguiente(cola["exec"], a)
  <2>1. lbl["EaX"] = "recorre" /\ Contains(s, a)
    BY <1>6 DEF Visitar, En, Esta
  <2>2. a \in Trips
    BY <1>1, <2>1 DEF Contains
  <2>3. Destino["EaX"] = "exit" /\ Estado["EaX"] = "X"
    BY DEF Destino, Estado
  <2>4. /\ tcb[a].est = "X" => Mover("exec", "exit", a)
        /\ tcb[a].est # "X" => cola' = cola
        /\ Avanzar("EaX", a)
    BY <1>6, <2>3, Zenon DEF Visitar
  <2>5. Indice(s, a) \in 1..Len(s) /\ s[Indice(s, a)] = a
    BY <1>1, <2>1, IndiceEnRango
  <2>6. tcb[a].est = "X" => cola'["exec"] = RemoveAt(s, Indice(s, a))
    BY <1>1, <2>4 DEF Mover, Quitar, Tipos, TipoColas, Colas
  <2>7. t # a
    <3>1. tcb[a].est = "X" => \A v : Contains(RemoveAt(s, Indice(s, a)), v) => v # a
      BY <1>1, <2>5, SinUnoExacto
    <3> QED BY <1>2, <2>6, <3>1
  <2>8. Detras(s, a, t)
    <3>1. Esta("exec", a)
      BY <2>1 DEF Esta
    <3>2. sem["ER"] = 0 /\ sem["EaX"] = 0 /\ ~Trabaja("ER")
      BY <1>1, <1>3, <1>4 DEF NadaPuesto
    <3> QED BY <1>4, <2>1, <2>7, <3>1, <3>2 DEF FaltaExit
  <2>9. /\ u # Nadie /\ u \in Trips /\ Contains(s, u) /\ ~Detras(s, a, a)
        /\ t = u \/ Detras(s, u, t)
        /\ Detras(s, a, u)
    BY <1>1, <2>1, <2>8, SiguienteDetras
  <2>10. u # a
    BY <2>9
  <2>11. lbl'["EaX"] = "recorre" /\ actual'["EaX"] = u
    BY <1>1, <2>4, <2>9 DEF Avanzar, Ir
  <2> HIDE DEF a, s, u
  <2>12. t = u \/ Detras(cola'["exec"], u, t)
    <3>1. CASE tcb[a].est = "X"
      BY <1>1, <2>5, <2>6, <2>7, <2>9, <2>10, <3>1, QuedanDetras DEF s
    <3>2. CASE tcb[a].est # "X"
      BY <2>4, <2>9, <3>2 DEF s
    <3> QED BY <3>1, <3>2
  <2> QED BY <2>11, <2>12 DEF FaltaExit
<1>7. CASE VisitarLiberado("EaX")
  <2>1. UNCHANGED <<sem, lbl, actual, semT, hilo, contador, cola>>
    BY <1>7 DEF VisitarLiberado, anillo, barrera
  <2> QED BY <2>1 DEF FaltaExit, HilosEnCiclo, Trabaja, Esta
<1> QED BY <1>5, <1>6, <1>7 DEF RecorreExec

(* What leaves the ring and the cycle alone, and takes at most one node out *)
(* of exec, leaves the visits to come.                                      *)
LEMMA FaltaExitQuieto ==
  ASSUME Tipos, LugarOK, NEW t \in Trips, Ocupa("exec", t)', FaltaExit(t),
         HilosEnCiclo' = HilosEnCiclo, contador' = contador,
         \A e \in {"ER", "EaX"} : sem'[e] = sem[e] /\ lbl'[e] = lbl[e] /\ actual'[e] = actual[e],
         \/ cola'["exec"] = cola["exec"]
         \/ \E k \in 1..Len(cola["exec"]) : cola'["exec"] = RemoveAt(cola["exec"], k)
  PROVE  FaltaExit(t)'
<1>1. "exec" \in Colas /\ cola["exec"] \in Seq(Trips) /\ "ER" \in Etapas /\ "EaX" \in Etapas
  BY DEF Colas, Tipos, TipoColas, Etapas
<1>2. CASE ~(/\ lbl["EaX"] = "recorre" /\ Esta("exec", actual["EaX"]))
  <2>1. \A w : Contains(cola'["exec"], w) => Contains(cola["exec"], w)
    <3>1. CASE cola'["exec"] = cola["exec"]
      BY <3>1
    <3>2. ASSUME NEW k \in 1..Len(cola["exec"]), cola'["exec"] = RemoveAt(cola["exec"], k)
          PROVE  \A w : Contains(cola'["exec"], w) => Contains(cola["exec"], w)
      BY <1>1, <3>2, SinUnoExacto DEF LugarOK, SinRepetir
    <3> QED BY <3>1, <3>2
  <2>2. Esta("exec", actual["EaX"])' => Esta("exec", actual["EaX"])
    BY <2>1 DEF Esta
  <2> QED BY <1>2, <2>2 DEF FaltaExit, Trabaja
<1>3. CASE cola'["exec"] = cola["exec"]
  BY <1>3 DEF FaltaExit, Trabaja, Esta
<1>4. ASSUME lbl["EaX"] = "recorre", Esta("exec", actual["EaX"]),
             NEW k \in 1..Len(cola["exec"]), cola'["exec"] = RemoveAt(cola["exec"], k)
      PROVE  FaltaExit(t)'
  <2> DEFINE a == actual["EaX"]
             s == cola["exec"]
  <2>1. \A w : Contains(cola'["exec"], w) <=> Contains(s, w) /\ w # s[k]
    BY <1>1, <1>4, SinUnoExacto DEF LugarOK, SinRepetir
  <2>2. CASE a = s[k]
    BY <1>4, <2>1, <2>2 DEF FaltaExit, Esta
  <2>3. CASE a # s[k]
    <3>1. t # s[k]
      BY <1>1, <2>1 DEF Ocupa, Esta
    <3>2. CASE Detras(s, a, t)
      <4>1. a \in Trips
        BY <1>1, <3>2 DEF Detras
      <4> HIDE DEF a, s
      <4>2. Detras(RemoveAt(s, k), a, t)
        BY <1>1, <1>4, <2>3, <3>1, <3>2, <4>1, QuedanDetras DEF s
      <4> QED BY <1>4, <4>2 DEF FaltaExit, a, s
    <3>3. CASE ~Detras(s, a, t)
      BY <1>4, <3>3 DEF FaltaExit, Trabaja
    <3> QED BY <3>2, <3>3
  <2> QED BY <2>2, <2>3
<1> QED BY <1>2, <1>3, <1>4

(* No step but the visit itself makes Exec->Exit miss one of exec. *)
LEMMA FaltaExitSigue ==
  ASSUME Tipos, LugarOK, TurnoOK, [Next]_vars, NEW t \in Trips, Ocupa("exec", t), Ocupa("exec", t)',
         tcb[t].est = "X", FaltaExit(t)
  PROVE  FaltaExit(t)'
<1>1. /\ Etapas \subseteq Etapas \cup {"pausar"} /\ {"ER", "EaX", "RE", "EXIT", "NR", "BLOCKIO", "ERM", "MR", "EBIO"} \subseteq Etapas
      /\ lbl \in [Etapas -> Rotulos] /\ actual \in [Etapas -> TripsONada]
      /\ sem \in [Etapas \cup {"pausar"} -> Nat] /\ contador \in Nat
      /\ semT \in [Trips -> Nat] /\ hilo \in [Trips -> Hilos]
  BY DEF Etapas, Tipos, AnilloOK, TipoAnillo, TipoBarrera
<1>2. ASSUME NEW e \in Etapas \ {"ER", "EaX"}, Trabaja(e), e = "RE" => ~Avisando PROVE FALSE
  BY <1>2, YaVisitados DEF TurnoOK
<1>3. CASE NewReady \/ BloqIO \/ AEmergencia \/ AReady \/ RecorreExec("EBIO")
  BY <1>1, <1>2, <1>3, SigueNewReady, SigueBloqIO, SigueAEmergencia, SigueAReady, SigueRecorreExec
     DEF Recorridos
<1>4. CASE EXIT_Cerrar
  BY <1>1, <1>2, <1>4 DEF EXIT_Cerrar, En, Trabaja
<1>5. CASE ReadyExec
  <2>1. CASE RE_Entra \/ RE_Sacar \/ RE_Poner \/ RE_Lleno
    BY <1>1, <1>2, <2>1, SigueReadyExec
  <2>2. CASE RE_Contar \/ RE_Empezar
    BY <1>1, <1>2, <2>2 DEF RE_Contar, RE_Empezar, En, Trabaja, Avisando
  <2>3. CASE RE_Avisar
    <3> DEFINE v == actual["RE"]
    <3>1. v \in Trips /\ semT' = [semT EXCEPT ![v] = @ + 1]
      BY <2>3 DEF RE_Avisar, En, TurnoOK, Cuenta, AvisaAUno, Avisando
    <3>2. semT'[v] > 0
      BY <1>1, <3>1
    <3> QED BY <3>1, <3>2 DEF FaltaExit, HilosEnCiclo
  <2>4. CASE VisitarLiberado("RE")
    BY <2>4 DEF VisitarLiberado, anillo, barrera, FaltaExit, HilosEnCiclo, Trabaja, Esta
  <2> QED BY <1>5, <2>1, <2>2, <2>3, <2>4 DEF ReadyExec
<1>6. CASE RecorreExec("ER")
  <2>1. Proximo["ER"] = "EaX"
    BY DEF Proximo
  <2>2. UNCHANGED anillo \/ (\E v : Ir("ER", "recorre", v)) \/ Terminar("ER", "EaX")
    BY <1>6, <2>1 DEF RecorreExec, Recorrer, Visitar, Avanzar, VisitarLiberado
  <2>3. Trabaja("ER")
    BY <1>6, SigueRecorreExec DEF Recorridos
  <2>4. CASE UNCHANGED anillo \/ \E v : Ir("ER", "recorre", v)
    BY <1>1, <2>3, <2>4 DEF anillo, Ir, FaltaExit, Trabaja
  <2>5. CASE Terminar("ER", "EaX")
    BY <1>1, <2>5 DEF Terminar, FaltaExit
  <2> QED BY <2>2, <2>4, <2>5
<1>7. CASE RecorreExec("EaX")
  BY <1>7, FaltaExitVisita
<1>8. CASE TomarPausar \/ \E e \in Etapas : Despertar(e)
  <2>1. UNCHANGED <<actual, semT, hilo, contador, cola>>
    BY <1>8 DEF TomarPausar, Despertar, barrera
  <2>2. CASE Despertar("ER")
    BY <1>1, <2>2 DEF Despertar, FaltaExit, Trabaja
  <2>3. CASE Despertar("EaX")
    BY <1>1, <2>3 DEF Despertar, FaltaExit
  <2>4. CASE TomarPausar \/ \E e \in Etapas \ {"ER", "EaX"} : Despertar(e)
    <3>1. \A e \in {"ER", "EaX"} : sem'[e] = sem[e] /\ lbl'[e] = lbl[e]
      BY <1>1, <2>4 DEF TomarPausar, Despertar
    <3> QED BY <2>1, <3>1 DEF FaltaExit, HilosEnCiclo, Trabaja, Esta
  <2> QED BY <1>8, <2>2, <2>3, <2>4
<1>9. CASE \E u \in Trips : Hilo(u)
  <2> PICK u \in Trips : Hilo(u)
    BY <1>9
  <2>1. CASE Tomar(u) \/ Actuar(u) \/ LlegarAlSabotaje(u) \/ Reparar(u)
    <3>1. HilosEnCiclo' = HilosEnCiclo /\ contador' = contador
      BY <2>1, CicloHilo DEF TurnoOK, CicloQuieto
    <3>2. UNCHANGED <<sem, lbl, actual, cola>>
      BY <2>1 DEF Tomar, Actuar, LlegarAlSabotaje, Reparar, anillo
    <3> QED BY <3>1, <3>2 DEF FaltaExit, Trabaja, Esta
  <2>2. CASE Signal(u)
    BY <1>1, <2>2 DEF Signal, FaltaExit
  <2> QED BY <2>1, <2>2 DEF Hilo
<1>10. CASE SAB_Activar \/ SAB_Datos \/ UNCHANGED vars
  BY <1>10 DEF SAB_Activar, SAB_Datos, vars, anillo, barrera, FaltaExit, HilosEnCiclo, Trabaja, Esta
<1>11. CASE FuncionConsola
  <2>1. UNCHANGED <<lbl, actual, semT, contador>>
    BY <1>11 DEF FuncionConsola, IniciarPlanificacion, PausarPlanificacion, IniciarPatota,
       ExpulsarTripulante, SeguirExpulsion, INI_Pausar, INI_Turno, PAU_Pedir, PAU_Tomar, PAT_Crear,
       PAT_Listar, PAT_New, PAT_Hilo, EXP_RAM, EXP_Estado, EXP_Buscar, EXP_Extraer, EXP_Extraido,
       EXP_Patota, anillo, barrera
  <2>2. HilosEnCiclo' = HilosEnCiclo
    <3>1. CASE PAT_Hilo
      <4>1. cons.pc = "hilo" /\ hilo' = [hilo EXCEPT ![cons.t] = "espera"]
        BY <3>1 DEF PAT_Hilo, Consola, EnConsola
      <4>2. \A u \in Trips : u = cons.t => hilo[u] = "nada"
        BY <4>1 DEF TurnoOK, HilosPorNacer
      <4>3. \A u \in Trips : hilo'[u] = hilo[u] \/ (hilo[u] = "nada" /\ hilo'[u] = "espera")
        BY <1>1, <4>1, <4>2
      <4> QED BY <2>1, <4>3 DEF HilosEnCiclo
    <3>2. CASE hilo' = hilo
      BY <2>1, <3>2 DEF HilosEnCiclo
    <3> QED BY <1>11, <3>1, <3>2 DEF FuncionConsola, IniciarPlanificacion, PausarPlanificacion, IniciarPatota,
       ExpulsarTripulante, SeguirExpulsion, INI_Pausar, INI_Turno, PAU_Pedir, PAU_Tomar, PAT_Crear,
       PAT_Listar, PAT_New, EXP_RAM, EXP_Estado, EXP_Buscar, EXP_Extraer, EXP_Extraido, EXP_Patota, barrera
  <2>3. \/ cola'["exec"] = cola["exec"]
        \/ \E k \in 1..Len(cola["exec"]) : cola'["exec"] = RemoveAt(cola["exec"], k)
    <3>1. cola \in [Colas -> Seq(Trips)] /\ "exec" \in Colas /\ "exit" \in Colas /\ "new" \in Colas
      BY DEF Tipos, TipoColas, Colas
    <3>2. CASE EXP_Extraer
      <4> DEFINE q == cons.cola
                 k == cons.i
      <4>1. /\ q \in Colas /\ k \in Nat \ {0}
            /\ \/ cola' = cola
               \/ /\ k <= Len(cola[q])
                  /\ cola' = [[cola EXCEPT ![q] = RemoveAt(@, k)] EXCEPT !["exit"] = Append(@, cola[q][k])]
        BY <3>2 DEF EXP_Extraer, EnConsola, Tipos, ConsolaOK, TipoConsola, Comandos
      <4> HIDE DEF q, k
      <4>2. CASE q = "exec"
        BY <3>1, <4>1, <4>2
      <4>3. CASE q # "exec"
        BY <3>1, <4>1, <4>3
      <4> QED BY <4>2, <4>3
    <3>3. CASE PAT_New
      BY <3>1, <3>3 DEF PAT_New, Poner
    <3>4. CASE cola' = cola
      BY <3>4
    <3> QED BY <1>11, <3>2, <3>3, <3>4 DEF FuncionConsola, IniciarPlanificacion, PausarPlanificacion, IniciarPatota,
       ExpulsarTripulante, SeguirExpulsion, INI_Pausar, INI_Turno, PAU_Pedir, PAU_Tomar, PAT_Crear,
       PAT_Listar, PAT_Hilo, EXP_RAM, EXP_Estado, EXP_Buscar, EXP_Extraido, EXP_Patota
  <2>4. \A e \in {"ER", "EaX"} : sem'[e] = sem[e]
    <3>1. CASE IniciarPlanificacion \/ PausarPlanificacion
      BY <1>1, <3>1 DEF IniciarPlanificacion, PausarPlanificacion, INI_Pausar, INI_Turno, PAU_Pedir,
         PAU_Tomar, anillo
    <3>2. CASE IniciarPatota \/ ExpulsarTripulante
      BY <3>2 DEF IniciarPatota, ExpulsarTripulante, SeguirExpulsion, PAT_Crear, PAT_Listar, PAT_New,
         PAT_Hilo, EXP_RAM, EXP_Estado, EXP_Buscar, EXP_Extraer, EXP_Extraido, EXP_Patota, anillo
    <3> QED BY <1>11, <3>1, <3>2 DEF FuncionConsola
  <2> QED BY <2>1, <2>2, <2>3, <2>4, FaltaExitQuieto
<1> QED BY <1>3, <1>4, <1>5, <1>6, <1>7, <1>8, <1>9, <1>10, <1>11 DEF Next, Recorridos

-----------------------------------------------------------------------------
(* The quantum                                                              *)

(* Only who ended in the cycle that completed its quantum keeps a count     *)
(* that reaches it, and it is on its way out of exec or in Exit.            *)
EnCuenta(t) == tcb[t].ciclos >= Quantum =>
  /\ tcb[t].est = "X" /\ ~Actua(t)
  /\ Ocupa("exit", t) \/ (Ocupa("exec", t) /\ FaltaExit(t))
Quanta == Algoritmo = "RR" => /\ \A t \in Trips : EnCuenta(t)
                              /\ \A i \in 1..Len(ctx) : ctx[i].ciclos < Quantum

(* Who keeps its count, and stays where it was or goes to Exit, keeps it.   *)
LEMMA EnCuentaSigue ==
  ASSUME Base, [Next]_vars, NEW u \in Trips, EnCuenta(u), tcb'[u].ciclos = tcb[u].ciclos,
         tcb[u].est = "X" => tcb'[u].est = "X",
         Actua(u)' => Actua(u) \/ Hallado(u),
         Ocupa("exit", u) => Ocupa("exit", u)',
         Ocupa("exec", u) /\ tcb[u].est = "X" /\ FaltaExit(u) => Ocupa("exec", u)' \/ Ocupa("exit", u)'
  PROVE  EnCuenta(u)'
<1> SUFFICES ASSUME tcb[u].ciclos >= Quantum
             PROVE  /\ tcb'[u].est = "X" /\ ~Actua(u)'
                    /\ Ocupa("exit", u)' \/ (Ocupa("exec", u)' /\ FaltaExit(u)')
  BY DEF EnCuenta
<1>1. tcb[u].est = "X" /\ ~Actua(u) /\ (Ocupa("exit", u) \/ (Ocupa("exec", u) /\ FaltaExit(u)))
  BY DEF EnCuenta
<1>2. tcb'[u].est = "X" /\ ~Actua(u)'
  BY <1>1 DEF Hallado
<1>3. Ocupa("exec", u) /\ FaltaExit(u) /\ Ocupa("exec", u)' => FaltaExit(u)'
  BY <1>1, FaltaExitSigue DEF Base
<1> QED BY <1>1, <1>2, <1>3

(* Every step keeps it. *)
LEMMA QuantaNext ==
  ASSUME Base, Quanta, Quantum > 0, [Next]_vars PROVE Quanta'
<1> SUFFICES ASSUME Algoritmo = "RR"
             PROVE  (\A u \in Trips : EnCuenta(u)') /\ \A i \in 1..Len(ctx') : ctx'[i].ciclos < Quantum
  BY DEF Quanta
<1>1. Calmo \/ (ActuanMenos /\ Clase)
  BY ActuaNext DEF Base
<1>2. /\ \A u \in Trips : EnCuenta(u) /\ tcb[u].ciclos \in Nat
      /\ \A i \in 1..Len(ctx) : ctx[i].ciclos < Quantum
      /\ Quantum \in Nat /\ ctx \in Seq(Contextos)
      /\ {"exec", "exit", "ready", "bem", "BLOCKIO", "ERM"} \subseteq Lugares
  <2>1. tcb \in [Trips -> TCB] /\ ctx \in Seq(Contextos)
    BY DEF Base, Tipos, TipoTCB, TipoSabotaje
  <2> QED BY <2>1, ConstantesOK DEF Quanta, TCB, Lugares, Colas, Etapas
<1>3. \A u \in Trips : Actua(u)' => Actua(u) \/ Hallado(u)
  BY <1>1 DEF Calmo, ActuanMenos
<1>4. ASSUME NEW u \in Trips, tcb'[u].ciclos < Quantum PROVE EnCuenta(u)'
  <2>1. tcb'[u].ciclos \in Nat
    BY TiposNext DEF Base, Tipos, TipoTCB, TCB
  <2> QED BY <1>2, <1>4, <2>1 DEF EnCuenta
<1>5. ASSUME NEW u \in Trips, tcb'[u].est = tcb[u].est, tcb'[u].ciclos = tcb[u].ciclos,
             \A l \in Lugares : Ocupa(l, u)' <=> Ocupa(l, u)
      PROVE  EnCuenta(u)'
  BY <1>2, <1>3, <1>5, EnCuentaSigue
<1>6. ASSUME NEW t, Salvo(t), Quedan \/ \E a : Cruza(t, a), NEW u \in Trips \ {t}
      PROVE  EnCuenta(u)'
  BY <1>5, <1>6 DEF Salvo, Intacto, Igual, Quedan, Cruza
<1>7. ASSUME NEW t \in Trips, NEW l \in Lugares \ {"exec", "exit"}, Ocupa(l, t)
      PROVE  tcb[t].ciclos < Quantum
  BY <1>2, <1>7 DEF EnCuenta, Base, LugarOK, Unico
<1>8. CASE Calma
  BY <1>2, <1>5, <1>8 DEF Calma, Intacto, Igual, Quedan
<1>9. CASE Cambio
  <2> PICK t \in Trips, de \in Lugares, a \in Lugares : Cambia(t, de, a, tcb'[t].est)
    BY <1>9 DEF Cambio
  <2>1. /\ Cruza(t, a) /\ Ocupa(de, t) /\ ctx' = ctx /\ Salvo(t) /\ tcb'[t].ciclos = tcb[t].ciclos
        /\ DeConsola(t, de, a, tcb'[t].est) \/ DeEtapa(t, de, a, tcb'[t].est)
    BY DEF Cambia, Igual
  <2>2. CASE de \notin {"exec", "exit"}
    <3>1. EnCuenta(t)'
      BY <1>4, <1>7, <2>1, <2>2
    <3> QED BY <1>2, <1>6, <2>1, <3>1
  <2>3. CASE de \in {"exec", "exit"}
    <3>1. \A l \in Lugares : Ocupa(l, t) => l = de
      BY <2>1 DEF Base, LugarOK, Unico
    <3>2. CASE DeConsola(t, de, a, tcb'[t].est)
      <4>1. a = "exit" \/ (a = de /\ tcb'[t].est = "X")
        BY <3>2 DEF DeConsola
      <4>2. Ocupa(a, t)' /\ (tcb[t].est = "X" => tcb'[t].est = "X")
        BY <2>1, <3>2 DEF DeConsola, Cruza
      <4>3. EnCuenta(t)'
        BY <1>2, <1>3, <2>1, <2>3, <3>1, <4>1, <4>2, EnCuentaSigue
      <4> QED BY <1>2, <1>6, <2>1, <4>3
    <3>3. CASE DeEtapa(t, de, a, tcb'[t].est)
      <4>1. /\ de = "exec" /\ tcb'[t].est = tcb[t].est
            /\ \/ \E e \in Recorridos : a = Destino[e] /\ tcb'[t].est = Estado[e]
               \/ lbl["ERM"] \in {"sacarFixer", "vaciar"}
        BY <2>3, <3>3 DEF DeEtapa
      <4>2. tcb[t].est = "X" /\ FaltaExit(t) => a = "exit"
        <5>1. CASE lbl["ERM"] \in {"sacarFixer", "vaciar"}
          <6>1. Trabaja("ERM") /\ "ERM" \in Etapas \ {"ER", "EaX"} /\ "ERM" # "RE"
            BY <5>1 DEF Trabaja, Etapas
          <6>2. ~FaltaExit(t)
            BY <6>1, YaVisitados DEF Base, TurnoOK
          <6> QED BY <6>2
        <5>2. ASSUME NEW e \in Recorridos, a = Destino[e], tcb'[t].est = Estado[e]
              PROVE  tcb[t].est = "X" => a = "exit"
          <6>1. Estado["EBIO"] = "I" /\ Estado["ER"] = "R" /\ Destino["EaX"] = "exit"
            BY DEF Destino, Estado
          <6> QED BY <4>1, <5>2, <6>1 DEF Recorridos
        <5> QED BY <4>1, <5>1, <5>2
      <4>3. Ocupa(a, t)'
        BY <2>1 DEF Cruza
      <4>4. EnCuenta(t)'
        BY <1>2, <1>3, <2>1, <3>1, <4>1, <4>2, <4>3, EnCuentaSigue
      <4> QED BY <1>2, <1>6, <2>1, <4>4
    <3> QED BY <2>1, <3>2, <3>3
  <2> QED BY <2>2, <2>3
<1>10. CASE Primera
  <2> PICK t \in Trips : /\ caida = "no" /\ lbl["NR"] = "tareas" /\ t = actual["NR"] /\ Quedan /\ ctx' = ctx
                         /\ Salvo(t) /\ tcb'[t].ciclos = tcb[t].ciclos
    BY <1>10 DEF Primera
  <2>1. tcb[t].ciclos = 0
    <3>1. t \in Nat
      BY ConstantesOK
    <3>2. PorServir(t)
      BY <3>1 DEF PorServir, EnServicio
    <3> QED BY <3>2 DEF Base, SitioOK, AunSinTarea, SinEmpezar
  <2>2. EnCuenta(t)'
    BY <1>2, <1>4, <2>1
  <2> QED BY <1>2, <1>6, <2>2
<1>11. CASE Devuelve
  <2> PICK t \in Trips : /\ Ocupa("BLOCKIO", t) /\ ctx' = ctx /\ Salvo(t) /\ tcb'[t].ciclos = tcb[t].ciclos
                         /\ \E a : Cruza(t, a)
    BY <1>11 DEF Devuelve
  <2>1. EnCuenta(t)'
    BY <1>2, <1>4, <1>7
  <2> QED BY <1>2, <1>6, <2>1
<1>12. CASE Elige
  <2> PICK t \in Trips : /\ Ocupa("bem", t) /\ ctx' = Append(ctx, Contexto(t)) /\ Salvo(t)
                         /\ tcb'[t].ciclos = 0 /\ Cruza(t, "ready")
    BY <1>12 DEF Elige
  <2>1. EnCuenta(t)'
    BY <1>2, <1>4
  <2>2. Contexto(t).ciclos < Quantum
    BY <1>2, <1>7 DEF Contexto
  <2>3. \A i \in 1..Len(ctx') : ctx'[i].ciclos < Quantum
    BY <1>2, <2>2
  <2> QED BY <1>6, <2>1, <2>3
<1>13. CASE Restaura
  <2> PICK t \in Trips : /\ ctx # <<>> /\ ctx' = Tail(ctx) /\ Salvo(t) /\ Cruza(t, "bem")
                         /\ tcb'[t].ciclos = Head(ctx).ciclos
    BY <1>13 DEF Restaura
  <2>1. Head(ctx) = ctx[1] /\ 1 \in 1..Len(ctx)
    BY <1>2
  <2>2. EnCuenta(t)'
    BY <1>2, <1>4, <2>1
  <2>3. \A i \in 1..Len(ctx') : ctx'[i].ciclos < Quantum
    BY <1>2
  <2> QED BY <1>6, <2>2, <2>3
<1>14. CASE Cierra
  BY <1>2, <1>5, <1>14 DEF Cierra, Quedan
<1>15. CASE Ciclo
  <2> PICK t \in Trips : /\ Actua(t) /\ ~Actua(t)' /\ HilosEnCiclo' # {} /\ Quedan /\ ctx' = ctx /\ Salvo(t)
                         /\ Contado(t)
    BY <1>15 DEF Ciclo
  <2>1. tcb[t].ciclos < Quantum
    BY <1>2 DEF EnCuenta
  <2>2. Ocupa("exec", t)' \/ Ocupa("exit", t)'
    BY <1>2 DEF Quedan, Base, SitioOK, EnExec
  <2>3. FaltaExit(t)'
    BY DEF FaltaExit
  <2>4. CASE tcb'[t].ciclos < Quantum
    <3>1. EnCuenta(t)'
      BY <1>4, <2>4
    <3> QED BY <1>2, <1>6, <3>1
  <2>5. CASE ~(tcb'[t].ciclos < Quantum)
    <3>1. tcb'[t].ciclos = tcb[t].ciclos + 1 /\ (Corta(tcb[t].ciclos + 1) => tcb'[t].est = "X")
      BY <1>2, <2>5 DEF Contado
    <3>2. tcb[t].ciclos + 1 = Quantum
      BY <1>2, <2>1, <2>5, <3>1
    <3>3. tcb'[t].est = "X"
      BY <3>1, <3>2 DEF Corta
    <3>4. EnCuenta(t)'
      BY <2>2, <2>3, <3>3 DEF EnCuenta
    <3> QED BY <1>2, <1>6, <3>4
  <2> QED BY <2>4, <2>5
<1>16. CASE Nace
  <2> PICK t \in Trips : /\ \A l \in Lugares : ~Ocupa(l, t)
                         /\ Cruza(t, "new") /\ ctx' = ctx /\ Salvo(t) /\ tcb'[t].ciclos = tcb[t].ciclos
    BY <1>16 DEF Nace
  <2>1. tcb[t].ciclos < Quantum
    BY <1>2 DEF EnCuenta
  <2>2. EnCuenta(t)'
    BY <1>4, <2>1
  <2> QED BY <1>2, <1>6, <2>2
<1> QED BY <1>1, <1>8, <1>9, <1>10, <1>11, <1>12, <1>13, <1>14, <1>15, <1>16 DEF Calmo, Clase

(* For every value of the other constants, sabotages and expulsions         *)
(* included: no tripulante in execution reaches the quantum, so that the    *)
(* comparison by equality of ciclosCumplidos never lets one pass it.        *)
THEOREM QuantumSiempre ==
  ASSUME MaxReinicios = 0, Quantum > 0 PROVE Spec => []QuantumRespetado
<1>1. Init => Quanta
  <2> SUFFICES ASSUME Init PROVE Quanta
    OBVIOUS
  <2>1. ctx = <<>> /\ Quantum \in Nat /\ \A t \in Trips : tcb[t].ciclos = 0
    BY ConstantesOK DEF Init
  <2> QED BY <2>1 DEF Quanta, EnCuenta
<1>2. Base /\ Quanta /\ [Next]_vars => Quanta'
  BY QuantaNext
<1>3. Base /\ Quanta => QuantumRespetado
  <2> SUFFICES ASSUME Base, Quanta, Algoritmo = "RR", NEW t \in Trips, tcb[t].est = "E"
               PROVE  tcb[t].ciclos < Quantum
    BY DEF QuantumRespetado
  <2>1. tcb[t].ciclos \in Nat /\ Quantum \in Nat
    BY ConstantesOK DEF Base, Tipos, TipoTCB, TCB
  <2> QED BY <2>1 DEF Quanta, EnCuenta
<1> QED BY BaseSiempre, <1>1, <1>2, <1>3, PTL DEF Spec

-----------------------------------------------------------------------------
(* The status of a tripulante says where it is                              *)

(* The queue of a status holds it, as the hand that took it from there      *)
(* does; only one that ended and that Exec->Exit has still to visit is in   *)
(* exec in 'X'.  Before Ready there is the status iterate_next_task gave.   *)
SinEntrar == {"N", "R", "X"}
EnCiclos == {"R", "E", "I"}
Situado(t) ==
  /\ Ocupa("new", t) \/ Ocupa("NR", t) \/ Ocupa("exit", t) \/ ~EnAlguno(t) => tcb[t].est \in SinEntrar
  /\ Ocupa("ready", t) \/ Ocupa("RE", t) => tcb[t].est = "R"
  /\ Ocupa("exec", t) => tcb[t].est \in EnCiclos \/ (tcb[t].est = "X" /\ FaltaExit(t))
  /\ Ocupa("bio", t) \/ Ocupa("BLOCKIO", t) => tcb[t].est = "I"
  /\ Ocupa("ERM", t) => tcb[t].est \in EnCiclos
  /\ Ocupa("bem", t) \/ Ocupa("MR", t) => tcb[t].est = "M"
  /\ Actua(t) => Ocupa("exec", t) /\ tcb[t].est = "E"
  /\ PorServir(t) => tcb[t].est = "N"
SuEstado == \A t \in Trips : Situado(t)

(* One that neither moves nor changes is where it should be. *)
LEMMA SituadoSigue ==
  ASSUME Base, [Next]_vars, NEW u \in Trips, Situado(u), tcb'[u].est = tcb[u].est,
         \A l \in Lugares : Ocupa(l, u)' <=> Ocupa(l, u), Actua(u)' => Actua(u) \/ Hallado(u)
  PROVE  Situado(u)'
<1>1. {"new", "NR", "exit", "ready", "RE", "exec", "bio", "BLOCKIO", "ERM", "bem", "MR"} \subseteq Lugares
  BY DEF Lugares, Colas, Etapas
<1>2. EnAlguno(u)' <=> EnAlguno(u)
  BY DEF EnAlguno
<1>3. PorServir(u)' => PorServir(u)
  BY PorServirNext DEF Base
<1>4. Ocupa("exec", u) /\ tcb[u].est = "X" /\ FaltaExit(u) => FaltaExit(u)'
  BY <1>1, FaltaExitSigue DEF Base
<1> QED BY <1>1, <1>2, <1>3, <1>4 DEF Situado, Hallado

(* One that is at one place only, at which it does not work, is where it    *)
(* should be when its status is that of the place.                          *)
LEMMA SituadoEn ==
  ASSUME Base, [Next]_vars, NEW u \in Trips, NEW a \in Lugares, Cruza(u, a), ~Actua(u)',
         PorServir(u)' => tcb'[u].est = "N",
         \/ a \in {"new", "NR", "exit"} /\ tcb'[u].est \in SinEntrar
         \/ a \in {"ready", "RE"} /\ tcb'[u].est = "R"
         \/ a = "exec" /\ tcb'[u].est \in EnCiclos
         \/ a \in {"bio", "BLOCKIO"} /\ tcb'[u].est = "I"
         \/ a = "ERM" /\ tcb'[u].est \in EnCiclos
         \/ a \in {"bem", "MR"} /\ tcb'[u].est = "M"
  PROVE  Situado(u)'
<1>1. \A l \in Lugares : Ocupa(l, u)' <=> l = a
  BY DEF Cruza
<1>2. {"new", "NR", "exit", "ready", "RE", "exec", "bio", "BLOCKIO", "ERM", "bem", "MR"} \subseteq Lugares
  BY DEF Lugares, Colas, Etapas
<1>3. EnAlguno(u)'
  BY <1>1 DEF EnAlguno
<1> QED BY <1>1, <1>2, <1>3 DEF Situado

(* A stage hands a TCB on only to where its status belongs. *)
LEMMA SituadoCambio ==
  ASSUME Base, SuEstado, SinExpulsion, [Next]_vars, NEW t \in Trips, NEW de \in Lugares, NEW a \in Lugares,
         Cambia(t, de, a, tcb'[t].est)
  PROVE  Situado(t)'
<1> DEFINE est == tcb'[t].est
<1>1. Ocupa(de, t) /\ Cruza(t, a) /\ Situado(t)
  BY DEF Cambia, SuEstado
<1>2. DeEtapa(t, de, a, est)
  BY DEF Cambia, DeConsola, Base, TurnoOK, Cuenta, NoSePierde
<1>3. ~Actua(t)'
  <2>1. ~Actua(t)
    BY <1>2, ActuaEnCiclo DEF DeEtapa
  <2>2. Actua(t)' => tcb'[t].est = tcb[t].est /\ a = de
    <3>1. Calmo \/ ActuanMenos
      BY ActuaNext DEF Base
    <3> QED BY <1>1, <2>1, <3>1 DEF Calmo, Calma, ActuanMenos, Cruza, Quedan, Intacto, Base, LugarOK, Unico
  <2>3. Actua(t)' => Hallado(t)
    BY <2>1, ActuaNext DEF Base, Calmo, ActuanMenos
  <2> QED BY <1>2, <2>2, <2>3 DEF DeEtapa, DestinoNew, Recorridos, Destino, Hallado
<1>4. PorServir(t)' => tcb[t].est = "N" /\ de \in {"new", "NR", "exit"}
  BY <1>1, PorServirNext DEF Base, Situado, SitioOK, AunSinTarea, SinEmpezar
<1>5. PorServir(t)' => est = "N"
  BY <1>2, <1>4 DEF DeEtapa
<1> HIDE DEF est
<1>6. CASE de = "exec" /\ \E e \in Recorridos : a = Destino[e] /\ est = Estado[e]
  <2>1. /\ Estado["EBIO"] = "I" /\ Estado["ER"] = "R" /\ Estado["EaX"] = "X"
        /\ Destino["EBIO"] = "bio" /\ Destino["ER"] = "ready" /\ Destino["EaX"] = "exit"
    BY DEF Destino, Estado
  <2>2. \/ a = "bio" /\ est = "I"
        \/ a = "ready" /\ est = "R"
        \/ a = "exit" /\ est = "X"
    BY <1>6, <2>1 DEF Recorridos
  <2> QED BY <1>1, <1>3, <1>5, <2>2, SituadoEn DEF SinEntrar, est
<1>7. CASE /\ de \in {"exec", "ready"} /\ a = "ERM" /\ lbl["ERM"] \in {"sacarFixer", "vaciar"}
           /\ est = tcb[t].est
  <2>1. Trabaja("ERM") /\ "ERM" \in Etapas \ {"ER", "EaX"} /\ "ERM" # "RE"
    BY <1>7 DEF Trabaja, Etapas
  <2>2. ~FaltaExit(t)
    BY <2>1, YaVisitados DEF Base, TurnoOK
  <2>3. est \in EnCiclos
    BY <1>1, <1>7, <2>2 DEF Situado, EnCiclos
  <2> QED BY <1>1, <1>3, <1>5, <1>7, <2>3, SituadoEn DEF est
<1>8. CASE de = "NR" /\ a = DestinoNew(t) /\ est = tcb[t].est
  <2>1. est \in SinEntrar /\ ((a = "ready" /\ est = "R") \/ a = "exit")
    BY <1>1, <1>8 DEF Situado, DestinoNew
  <2> QED BY <1>1, <1>3, <1>5, <2>1, SituadoEn DEF est
<1>9. CASE \/ de = "new" /\ a = "NR" /\ est = tcb[t].est
           \/ de = "ready" /\ a = "RE" /\ est = tcb[t].est
           \/ de = "bio" /\ a = "BLOCKIO" /\ est = tcb[t].est
           \/ de = "bem" /\ a = "MR" /\ est = tcb[t].est
  <2>1. \/ a = "NR" /\ est \in SinEntrar
        \/ a = "RE" /\ est = "R"
        \/ a = "BLOCKIO" /\ est = "I"
        \/ a = "MR" /\ est = "M"
    BY <1>1, <1>9 DEF Situado
  <2> QED BY <1>1, <1>3, <1>5, <2>1, SituadoEn DEF est
<1>10. CASE \/ de = "RE" /\ a = "exec" /\ est = "E"
            \/ de = "ERM" /\ a = "bem" /\ est = "M"
            \/ de = "MR" /\ a = "ready" /\ est = "R"
  BY <1>1, <1>3, <1>5, <1>10, SituadoEn DEF est, EnCiclos
<1> QED BY <1>2, <1>6, <1>7, <1>8, <1>9, <1>10 DEF DeEtapa

(* So does every step. *)
LEMMA SuEstadoNext ==
  ASSUME Base, SuEstado, SinExpulsion, [Next]_vars PROVE SuEstado'
<1>1. Calmo \/ (ActuanMenos /\ Clase)
  BY ActuaNext DEF Base
<1>2. \A u \in Trips : Actua(u)' => Actua(u) \/ Hallado(u)
  BY <1>1 DEF Calmo, ActuanMenos
<1>3. ASSUME NEW u \in Trips, tcb'[u].est = tcb[u].est, \A l \in Lugares : Ocupa(l, u)' <=> Ocupa(l, u)
      PROVE  Situado(u)'
  BY <1>2, <1>3, SituadoSigue DEF SuEstado
<1>4. ASSUME NEW t, Salvo(t), Quedan \/ \E a : Cruza(t, a), NEW u \in Trips \ {t}
      PROVE  Situado(u)'
  BY <1>3, <1>4 DEF Salvo, Intacto, Quedan, Cruza
<1>5. /\ {"new", "NR", "exit", "ready", "exec", "bem", "BLOCKIO", "ERM"} \subseteq Lugares
      /\ \A u \in Trips : Situado(u) /\ (PorServir(u)' => PorServir(u))
      /\ \A u \in Trips, k \in Lugares, l \in Lugares : Ocupa(k, u) /\ Ocupa(l, u) => k = l
  BY PorServirNext DEF Base, LugarOK, Unico, Lugares, Colas, Etapas, SuEstado
<1>6. CASE Calmo \/ Calma
  BY <1>3, <1>6 DEF Calmo, Calma, Intacto, Quedan, SuEstado
<1>7. CASE ActuanMenos /\ Cambio
  <2> PICK t \in Trips, de \in Lugares, a \in Lugares : Cambia(t, de, a, tcb'[t].est)
    BY <1>7 DEF Cambio
  <2>1. Situado(t)'
    BY SituadoCambio
  <2> QED BY <1>4, <2>1 DEF Cambia, SuEstado
<1>8. CASE ActuanMenos /\ Primera
  <2> PICK t \in Trips : /\ caida = "no" /\ lbl["NR"] = "tareas" /\ t = actual["NR"] /\ Quedan /\ Salvo(t)
                         /\ UNCHANGED <<buffers, listaPCB>> /\ (lbl'["NR"] = "tareas" => actual'["NR"] > t)
                         /\ tcb'[t].est \in {"R", "X"}
    BY <1>8 DEF Primera
  <2>1. PorServir(t)
    <3>1. t \in Nat
      BY ConstantesOK
    <3> QED BY <3>1 DEF PorServir, EnServicio
  <2>2. ~PorServir(t)'
    BY YaServido DEF Base
  <2>3. ~Actua(t)' /\ \A l \in Lugares : Ocupa(l, t)' => l \in {"new", "NR", "exit"}
    BY <1>8, <2>1 DEF ActuanMenos, Quedan, Base, SitioOK, AunSinTarea, SinEmpezar
  <2>4. Situado(t)'
    <3>1. {"RE", "bio", "MR"} \subseteq Lugares
      BY DEF Lugares, Colas, Etapas
    <3> QED BY <1>5, <2>2, <2>3, <3>1 DEF Situado, SinEntrar
  <2> QED BY <1>4, <2>4 DEF SuEstado
<1>9. ASSUME NEW u \in Trips, NEW l \in {"bem", "BLOCKIO", "ERM"}, Ocupa(l, u), ActuanMenos
      PROVE  ~PorServir(u)' /\ ~Actua(u)'
  <2>1. ~PorServir(u)
    BY <1>5, <1>9 DEF Base, SitioOK, AunSinTarea, SinEmpezar
  <2>2. ~Actua(u)
    BY <1>5, <1>9 DEF Situado
  <2> QED BY <1>5, <1>9, <2>1, <2>2 DEF ActuanMenos
<1>10. CASE ActuanMenos /\ Devuelve
  <2> PICK t \in Trips : /\ Ocupa("BLOCKIO", t) /\ Salvo(t)
                         /\ \/ tcb'[t].est = "R" /\ Cruza(t, "ready")
                            \/ tcb'[t].est = "X" /\ Cruza(t, "ninguno")
    BY <1>10 DEF Devuelve
  <2>1. ~PorServir(t)' /\ ~Actua(t)'
    BY <1>9, <1>10
  <2>2. CASE tcb'[t].est = "R" /\ Cruza(t, "ready")
    <3>1. Situado(t)'
      BY <1>5, <2>1, <2>2, SituadoEn
    <3> QED BY <1>4, <2>2, <3>1 DEF SuEstado
  <2>3. CASE tcb'[t].est = "X" /\ Cruza(t, "ninguno")
    <3>1. \A l \in Lugares : ~Ocupa(l, t)'
      BY <2>3 DEF Cruza, Lugares, Colas, Etapas
    <3>2. {"RE", "bio", "MR"} \subseteq Lugares
      BY DEF Lugares, Colas, Etapas
    <3>3. Situado(t)'
      BY <1>5, <2>1, <2>3, <3>1, <3>2 DEF Situado, SinEntrar
    <3> QED BY <1>4, <2>3, <3>3 DEF SuEstado
  <2> QED BY <2>2, <2>3
<1>11. CASE ActuanMenos /\ Elige
  <2> PICK t \in Trips : Ocupa("bem", t) /\ Cruza(t, "ready") /\ Salvo(t) /\ tcb'[t].est = "R"
    BY <1>11 DEF Elige
  <2>1. Situado(t)'
    BY <1>5, <1>9, <1>11, SituadoEn
  <2> QED BY <1>4, <2>1 DEF SuEstado
<1>12. CASE ActuanMenos /\ Restaura
  <2> PICK t \in Trips : Ocupa("ERM", t) /\ Cruza(t, "bem") /\ Salvo(t) /\ tcb'[t].est = "M"
    BY <1>12 DEF Restaura
  <2>1. Situado(t)'
    BY <1>5, <1>9, <1>12, SituadoEn
  <2> QED BY <1>4, <2>1 DEF SuEstado
<1>13. CASE ActuanMenos /\ Cierra
  BY <1>3, <1>13 DEF Cierra, Quedan, SuEstado
<1>14. CASE ActuanMenos /\ Ciclo
  <2> PICK t \in Trips : Actua(t) /\ ~Actua(t)' /\ HilosEnCiclo' # {} /\ Quedan /\ Salvo(t) /\ Hecho(t)
    BY <1>14 DEF Ciclo
  <2>1. Ocupa("exec", t) /\ tcb[t].est = "E"
    BY <1>5 DEF Situado
  <2>2. tcb'[t].est \in EnCiclos \/ tcb'[t].est = "X"
    BY <2>1 DEF Hecho, EnCiclos
  <2>3. FaltaExit(t)'
    BY DEF FaltaExit
  <2>4. ~PorServir(t)'
    BY <1>5 DEF Base, SitioOK, AunSinTarea, SinEmpezar
  <2>5. \A l \in Lugares : Ocupa(l, t)' <=> l = "exec"
    BY <1>5, <2>1 DEF Quedan
  <2>6. EnAlguno(t)' /\ {"RE", "bio", "MR"} \subseteq Lugares
    BY <1>5, <2>5 DEF EnAlguno, Lugares, Colas, Etapas
  <2>7. Situado(t)'
    BY <1>5, <2>2, <2>3, <2>4, <2>5, <2>6 DEF Situado
  <2> QED BY <1>4, <2>7 DEF SuEstado
<1>15. CASE ActuanMenos /\ Nace
  <2> PICK t \in Trips : /\ Cruza(t, "new") /\ Salvo(t) /\ tcb'[t].est = tcb[t].est /\ \A l \in Lugares : ~Ocupa(l, t)
    BY <1>15 DEF Nace
  <2>1. tcb[t].est \in SinEntrar /\ ~Actua(t)
    BY <1>5 DEF Situado, EnAlguno
  <2>2. ~Actua(t)' /\ (PorServir(t)' => tcb'[t].est = "N")
    BY <1>5, <1>15, <2>1 DEF ActuanMenos, Situado
  <2>3. Situado(t)'
    BY <1>5, <2>1, <2>2, SituadoEn
  <2> QED BY <1>4, <2>3 DEF SuEstado
<1> QED BY <1>1, <1>6, <1>7, <1>8, <1>10, <1>11, <1>12, <1>13, <1>14, <1>15 DEF Clase

(* It holds at the start: there is nobody anywhere, and all are new. *)
LEMMA SuEstadoInit == Init => SuEstado
<1> SUFFICES ASSUME Init, NEW t \in Trips PROVE Situado(t)
  BY DEF SuEstado
<1>1. \A l \in Lugares : ~Ocupa(l, t)
  BY DEF Init, Lugares, Ocupa, Esta, Contains, EnMano
<1>2. tcb[t].est = "N" /\ ~Actua(t)
  BY DEF Init, Actua
<1>3. {"new", "NR", "exit", "ready", "RE", "exec", "bio", "BLOCKIO", "ERM", "bem", "MR"} \subseteq Lugares
  BY DEF Lugares, Colas, Etapas
<1> QED BY <1>1, <1>2, <1>3 DEF Situado, SinEntrar

-----------------------------------------------------------------------------
(* The patotas reported terminated                                          *)

(* While nobody is expelled 'X' is for ever: iterate_next_task finds nobody *)
(* in it, and a sabotage takes nobody from exec who awaits Exec->Exit.      *)
LEMMA TerminadoSigue ==
  ASSUME Base, SuEstado, SinExpulsion, [Next]_vars, NEW u \in Trips, tcb[u].est = "X"
  PROVE  tcb'[u].est = "X"
<1>1. Calmo \/ (ActuanMenos /\ Clase)
  BY ActuaNext DEF Base
<1>2. /\ Situado(u) /\ {"ready", "RE", "bio", "BLOCKIO", "ERM", "bem", "MR"} \subseteq Lugares
      /\ ~Ocupa("RE", u) /\ ~Ocupa("ERM", u) /\ ~Ocupa("MR", u) /\ ~Ocupa("bem", u) /\ ~Ocupa("BLOCKIO", u)
      /\ ~Actua(u) /\ ~PorServir(u)
  BY DEF SuEstado, Situado, EnCiclos, Lugares, Colas, Etapas
<1>3. ASSUME NEW t, Salvo(t), t # u PROVE tcb'[u].est = "X"
  BY <1>3 DEF Salvo, Intacto
<1>4. CASE Calmo \/ Calma
  BY <1>4 DEF Calmo, Calma, Intacto
<1>5. CASE Cambio
  <2> PICK t \in Trips, de \in Lugares, a \in Lugares : Cambia(t, de, a, tcb'[t].est)
    BY <1>5 DEF Cambio
  <2>1. CASE t = u
    <3>1. DeEtapa(u, de, a, tcb'[u].est) /\ Ocupa(de, u)
      BY <2>1 DEF Cambia, DeConsola, Base, TurnoOK, Cuenta, NoSePierde
    <3> QED BY <1>2, <3>1 DEF DeEtapa
  <2> QED BY <1>3, <2>1 DEF Cambia
<1>6. CASE Primera
  <2> PICK t \in Trips : caida = "no" /\ lbl["NR"] = "tareas" /\ t = actual["NR"] /\ Salvo(t)
    BY <1>6 DEF Primera
  <2>1. t \in Nat
    BY ConstantesOK
  <2>2. PorServir(t)
    BY <2>1 DEF PorServir, EnServicio
  <2> QED BY <1>2, <1>3, <2>2
<1>7. CASE Devuelve \/ Elige \/ Restaura \/ Ciclo
  BY <1>2, <1>3, <1>7 DEF Devuelve, Elige, Restaura, Ciclo
<1>8. CASE Cierra
  BY <1>8 DEF Cierra
<1>9. CASE Nace
  <2> PICK t \in Trips : Salvo(t) /\ tcb'[t].est = tcb[t].est
    BY <1>9 DEF Nace
  <2> QED BY <1>3
<1> QED BY <1>1, <1>4, <1>5, <1>6, <1>7, <1>8, <1>9 DEF Clase

(* The patotas reported terminated have all their tripulantes in 'X'. *)
Acabadas == \A p \in fin : \A t \in Miembros(p) : tcb[t].est = "X"

(* Who reports one looks at the status of all of its tripulantes, which     *)
(* are then as they were: the report is not made on an older reading.       *)
LEMMA AcabadasNext ==
  ASSUME Base, SuEstado, SinExpulsion, Acabadas, [Next]_vars PROVE Acabadas'
<1>1. \A u \in Trips : tcb[u].est = "X" => tcb'[u].est = "X"
  BY TerminadoSigue
<1>2. cons.pc \notin Expulsando
  BY DEF Base, TurnoOK, Cuenta, NoSePierde
<1>3. \A p \in fin' : p \in fin \/ TodosTerminaron(p, Estados)
  <2>1. ASSUME NEW e \in Recorridos, Visitar(e)
        PROVE  \A p \in fin' : p \in fin \/ TodosTerminaron(p, Estados)
    BY <2>1 DEF Visitar, DespedirEnRAM
  <2>2. CASE EXIT_Cerrar
    BY <2>2 DEF EXIT_Cerrar
  <2>3. CASE EXP_Patota
    BY <1>2, <2>3 DEF EXP_Patota, EnConsola, Expulsando
  <2>4. CASE \E e \in Recorridos : Recorrer(e) \/ VisitarLiberado(e)
    BY <2>4 DEF Recorrer, VisitarLiberado, patotas
  <2>5. CASE TomarPausar \/ (\E e \in Etapas : Despertar(e))
    BY <2>5 DEF TomarPausar, Despertar, patotas
  <2>6. CASE NewReady \/ BloqIO
    BY <2>6 DEF NewReady, NR_Entra, NR_IniciarPatota, NR_PrimeraTarea, NR_SinPatotas, NR_Sacar, NR_Poner,
       NR_Fin, BloqIO, BIO_Entra, BIO_Contar, BIO_Pedir, BIO_Salir, patotas
  <2>7. CASE ReadyExec
    BY <2>7 DEF ReadyExec, RE_Entra, RE_Sacar, RE_Poner, RE_Lleno, RE_Contar, RE_Empezar, RE_Avisar,
       VisitarLiberado, patotas
  <2>8. CASE AEmergencia \/ AReady
    BY <2>8 DEF AEmergencia, ERM_Entra, ERM_SacarFixer, ERM_Restaurar, ERM_Sacar, ERM_Poner, ERM_Elegir,
       AReady, MR_Entra, MR_Sacar, MR_Poner, MR_Resolver, patotas
  <2>9. CASE (\E t \in Trips : Hilo(t)) \/ SAB_Activar \/ SAB_Datos \/ UNCHANGED vars
    BY <2>9 DEF Hilo, Tomar, Actuar, LlegarAlSabotaje, Reparar, Signal, SAB_Activar, SAB_Datos, vars, patotas
  <2>10. CASE FuncionConsola /\ ~EXP_Patota
    BY <2>10 DEF FuncionConsola, IniciarPlanificacion, PausarPlanificacion, IniciarPatota,
       ExpulsarTripulante, SeguirExpulsion, INI_Pausar, INI_Turno, PAU_Pedir, PAU_Tomar, PAT_Crear,
       PAT_Listar, PAT_New, PAT_Hilo, EXP_RAM, EXP_Estado, EXP_Buscar, EXP_Extraer, EXP_Extraido, patotas
  <2> QED BY <2>1, <2>2, <2>3, <2>4, <2>5, <2>6, <2>7, <2>8, <2>9, <2>10 DEF Next, RecorreExec
<1>4. \A p : TodosTerminaron(p, Estados) => \A t \in Miembros(p) : tcb[t].est = "X"
  BY DEF TodosTerminaron, Estados, Miembros
<1> QED BY <1>1, <1>3, <1>4 DEF Acabadas, Miembros

(* For every value of the other constants, sabotages and pauses included,   *)
(* and while nobody is expelled: the members of a patota reported           *)
(* terminated have all ended, stay so, and none is left in Ready, BloqIO or *)
(* BloqEmer.                                                                *)
THEOREM PatotaTerminadaSiempre ==
  ASSUME MaxReinicios = 0, MaxExpulsiones = 0 PROVE Spec => []PatotaTerminada
<1>1. SinExpulsion
  BY DEF SinExpulsion
<1>2. Init => Acabadas
  BY DEF Init, Acabadas
<1>3. Base /\ SuEstado /\ Acabadas /\ [Next]_vars => SuEstado' /\ Acabadas'
  BY <1>1, SuEstadoNext, AcabadasNext
<1>4. Base /\ SuEstado /\ Acabadas => PatotaTerminada
  <2> SUFFICES ASSUME Base, SuEstado, Acabadas, NEW p \in fin, NEW t \in Miembros(p)
               PROVE  tcb[t].est = "X" /\ t \notin EnColas({"ready", "bio", "bem"})
    BY DEF PatotaTerminada
  <2>1. t \in Trips /\ tcb[t].est = "X"
    BY DEF Acabadas, Miembros
  <2>2. ASSUME NEW q \in {"ready", "bio", "bem"}, t \in ToSet(cola[q]) PROVE FALSE
    <3>1. q \in Colas /\ q \in Lugares /\ cola[q] \in Seq(Trips)
      BY DEF Base, Tipos, TipoColas, Colas, Lugares
    <3>2. Ocupa(q, t)
      BY <2>2, <3>1, ContieneToSet DEF Ocupa, Esta
    <3> QED BY <2>1, <3>2 DEF SuEstado, Situado
  <2> QED BY <2>1, <2>2, Zenon DEF EnColas
<1> QED BY BaseSiempre, SuEstadoInit, <1>2, <1>3, <1>4, PTL DEF Spec
=============================================================================
