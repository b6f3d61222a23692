------------------------- MODULE PlanificadorSabotaje -------------------------
(* FsckAntesDeResolver, IdentidadDelFixer, SoloElFixerAvanza and            *)
(* ContextoDelFixer of Planificador, for one sabotage: who attends it, what *)
(* is kept of the fixer and what i-Mongo-Store is told; and SoloSinFixer    *)
(* and NoCae: that no thread meets what would bring the process down.       *)
(*                                                                         *)
(* The last two rest on what each thread trusts to find as it left it       *)
(* (Sano): the console listed a PCB and created a thread before a stage     *)
(* looks for them, MiRAMHQ has the segment of whoever it is asked about,    *)
(* and the node of an iterator is still in its list.                        *)
EXTENDS PlanificadorCiclo

-----------------------------------------------------------------------------
(* INVOCAR_FSCK                                                             *)

(* Before the only sabotage nothing of it is set; after, whoever counted a  *)
(* cycle of it, is about to, or saw it finished comes after INVOCAR_FSCK.   *)
Reparando == \E t \in Trips : hilo[t] = "repara"
Atendiendo == sab.ciclos > 0 \/ sab.terminado \/ Reparando
Avisado ==
  /\ usos.sabotajes = 0 => ~sab.activado /\ ~Atendiendo
  /\ Atendiendo => fsck > 0

(* The fixer reads the cycles, has INVOCAR_FSCK sent and counts in three    *)
(* steps; in between the handler of the server may still write the flags.   *)
LEMMA AvisadoNext ==
  ASSUME MaxSabotajes <= 1, Duracion > 0, Tipos, Avisado, [Next]_vars PROVE Avisado'
<1>1. /\ sab \in Sabotajes /\ sab.ciclos \in Nat /\ fsck \in Nat /\ usos \in Usos /\ usos.sabotajes \in Nat
      /\ hilo \in [Trips -> Hilos] /\ Duracion \in Nat /\ MaxSabotajes \in Nat
  BY ConstantesOK DEF Tipos, TipoSabotaje, TipoExterno, ConsolaOK, TipoConsola, TipoBarrera, Usos, Sabotajes
<1>2. ASSUME sab'.activado => sab.activado, sab'.ciclos = sab.ciclos, sab'.terminado => sab.terminado,
             fsck' = fsck, usos'.sabotajes = usos.sabotajes, Reparando' => Reparando
      PROVE  Avisado'
  BY <1>2 DEF Avisado, Atendiendo
<1>3. hilo' = hilo => (Reparando' => Reparando)
  BY DEF Reparando
<1>4. CASE UNCHANGED <<sab, fsck, usos, hilo>>
  BY <1>2, <1>3, <1>4
<1>5. CASE TomarPausar \/ (\E e \in Etapas : Despertar(e)) \/ EXIT_Cerrar \/ NewReady \/ BloqIO
  BY <1>4, <1>5 DEF TomarPausar, Despertar, EXIT_Cerrar, NewReady, NR_Entra, NR_IniciarPatota,
     NR_PrimeraTarea, NR_SinPatotas, NR_Sacar, NR_Poner, NR_Fin, BloqIO, BIO_Entra, BIO_Contar, BIO_Pedir,
     BIO_Salir, barrera, sabotaje, consola, externo
<1>6. CASE ReadyExec \/ \E e \in Recorridos : RecorreExec(e)
  BY <1>4, <1>6 DEF ReadyExec, RE_Entra, RE_Sacar, RE_Poner, RE_Lleno, RE_Contar, RE_Empezar, RE_Avisar,
     VisitarLiberado, RecorreExec, Recorrer, Visitar, barrera, sabotaje, consola, externo
<1>7. CASE AEmergencia
  <2>1. UNCHANGED <<fsck, usos, hilo>>
    BY <1>7 DEF AEmergencia, ERM_Entra, ERM_SacarFixer, ERM_Restaurar, ERM_Sacar, ERM_Poner, ERM_Elegir,
       barrera, consola, externo
  <2>2. CASE sab' = [sab EXCEPT !.terminado = TRUE] /\ sab.activado /\ SabotajeReparado
    <3>1. sab'.ciclos = sab.ciclos /\ sab'.activado = sab.activado /\ sab.ciclos > 0
      BY <1>1, <2>2 DEF Sabotajes, SabotajeReparado
    <3>2. fsck > 0 /\ usos.sabotajes # 0
      BY <2>2, <3>1 DEF Avisado, Atendiendo
    <3> QED BY <2>1, <3>2 DEF Avisado
  <2>3. CASE sab' = sab \/ \E b \in BOOLEAN : sab' = [sab EXCEPT !.primer = b]
    <3>1. sab'.ciclos = sab.ciclos /\ sab'.activado = sab.activado /\ sab'.terminado = sab.terminado
      BY <1>1, <2>3 DEF Sabotajes
    <3> QED BY <1>2, <1>3, <2>1, <3>1
  <2>4. CASE ERM_Entra
    BY <2>2, <2>3, <2>4 DEF ERM_Entra
  <2>5. CASE ERM_SacarFixer \/ ERM_Restaurar \/ ERM_Sacar \/ ERM_Poner \/ ERM_Elegir
    BY <2>3, <2>5 DEF ERM_SacarFixer, ERM_Restaurar, ERM_Sacar, ERM_Poner, ERM_Elegir, sabotaje
  <2> QED BY <1>7, <2>4, <2>5 DEF AEmergencia
<1>8. CASE AReady
  <2>1. UNCHANGED <<fsck, usos, hilo>>
    BY <1>8 DEF AReady, MR_Entra, MR_Sacar, MR_Poner, MR_Resolver, barrera, consola, externo
  <2>2. sab' = sab \/ sab' = [sab EXCEPT !.activado = FALSE]
    BY <1>8 DEF AReady, MR_Entra, MR_Sacar, MR_Poner, MR_Resolver, sabotaje
  <2>3. sab'.ciclos = sab.ciclos /\ sab'.terminado = sab.terminado /\ (sab'.activado => sab.activado)
    BY <1>1, <2>2 DEF Sabotajes
  <2> QED BY <1>2, <1>3, <2>1, <2>3
<1>9. ASSUME NEW t \in Trips, Tomar(t) \/ Actuar(t) \/ Signal(t) PROVE Avisado'
  <2>1. UNCHANGED <<sab, fsck, usos>>
    BY <1>9 DEF Tomar, Actuar, Signal, sabotaje, consola, externo
  <2>2. \A u \in Trips : hilo'[u] = "repara" => hilo[u] = "repara"
    BY <1>1, <1>9 DEF Tomar, Actuar, Signal, Sigue
  <2>3. Reparando' => Reparando
    BY <2>2 DEF Reparando
  <2> QED BY <1>2, <2>1, <2>3
<1>10. ASSUME NEW t \in Trips, LlegarAlSabotaje(t) PROVE Avisado'
  <2>1. UNCHANGED <<sab, usos>> /\ sab.activado /\ fsck' = IF sab.ciclos = 0 THEN fsck + 1 ELSE fsck
    BY <1>10 DEF LlegarAlSabotaje, sabotaje, consola
  <2>2. fsck' > 0
    BY <1>1, <2>1 DEF Avisado, Atendiendo
  <2> QED BY <2>1, <2>2 DEF Avisado
<1>11. ASSUME NEW t \in Trips, Reparar(t) PROVE Avisado'
  <2>1. UNCHANGED <<usos, fsck>> /\ hilo[t] = "repara" /\ sab' = [sab EXCEPT !.ciclos = @ + 1]
    BY <1>11 DEF Reparar, EnHilo, consola, externo
  <2>2. Reparando
    BY <2>1 DEF Reparando
  <2> QED BY <2>1, <2>2 DEF Avisado, Atendiendo
<1>12. CASE SAB_Activar
  <2>1. /\ usos.sabotajes = 0 /\ usos' = [usos EXCEPT !.sabotajes = @ + 1] /\ hilo' = hilo
        /\ sab' = [sab EXCEPT !.activado = TRUE]
    BY <1>1, <1>12 DEF SAB_Activar, barrera
  <2>2. usos'.sabotajes = 1 /\ sab'.ciclos = sab.ciclos /\ sab'.terminado = sab.terminado
    BY <1>1, <2>1 DEF Sabotajes, Usos
  <2>3. ~Atendiendo'
    BY <1>3, <2>1, <2>2 DEF Avisado, Atendiendo
  <2> QED BY <2>2, <2>3 DEF Avisado
<1>13. CASE SAB_Datos
  <2>1. UNCHANGED <<usos, fsck, hilo>>
    BY <1>13 DEF SAB_Datos, barrera, consola, externo
  <2>2. ~sab'.terminado /\ sab'.ciclos = 0 /\ sab'.activado = sab.activado
    BY <1>1, <1>13 DEF SAB_Datos, Sabotajes
  <2>3. Atendiendo' => Reparando
    BY <1>3, <2>1, <2>2 DEF Atendiendo
  <2> QED BY <2>1, <2>2, <2>3 DEF Avisado, Atendiendo
<1>14. CASE FuncionConsola
  <2>1. UNCHANGED <<sab, fsck>>
    BY <1>14 DEF FuncionConsola, IniciarPlanificacion, PausarPlanificacion, IniciarPatota,
       ExpulsarTripulante, SeguirExpulsion, INI_Pausar, INI_Turno, PAU_Pedir, PAU_Tomar, PAT_Crear,
       PAT_Listar, PAT_New, PAT_Hilo, EXP_RAM, EXP_Estado, EXP_Buscar, EXP_Extraer, EXP_Extraido,
       EXP_Patota, sabotaje, externo
  <2>2. usos'.sabotajes = usos.sabotajes
    BY <1>1, <1>14 DEF Usos, FuncionConsola, IniciarPlanificacion, PausarPlanificacion, IniciarPatota,
       ExpulsarTripulante, SeguirExpulsion, INI_Pausar, INI_Turno, PAU_Pedir, PAU_Tomar, PAT_Crear,
       PAT_Listar, PAT_New, PAT_Hilo, EXP_RAM, EXP_Estado, EXP_Buscar, EXP_Extraer, EXP_Extraido,
       EXP_Patota
  <2>3. hilo' = hilo \/ \E t : hilo' = [hilo EXCEPT ![t] = "espera"]
    BY <1>14 DEF FuncionConsola, IniciarPlanificacion, PausarPlanificacion, IniciarPatota,
       ExpulsarTripulante, SeguirExpulsion, INI_Pausar, INI_Turno, PAU_Pedir, PAU_Tomar, PAT_Crear,
       PAT_Listar, PAT_New, PAT_Hilo, EXP_RAM, EXP_Estado, EXP_Buscar, EXP_Extraer, EXP_Extraido,
       EXP_Patota, barrera
  <2>4. Reparando' => Reparando
    BY <1>1, <2>3 DEF Reparando
  <2> QED BY <1>2, <2>1, <2>2, <2>4
<1>15. CASE UNCHANGED vars
  BY <1>4, <1>15 DEF vars, barrera, sabotaje, consola, externo
<1> QED BY <1>5, <1>6, <1>7, <1>8, <1>9, <1>10, <1>11, <1>12, <1>13, <1>14, <1>15 DEF Next, Hilo

(* For every value of the other constants, with one turn or several, and    *)
(* whatever thread the handler of the server interrupts: with one sabotage  *)
(* that takes at least a cycle, none is declared finished before            *)
(* INVOCAR_FSCK was sent for it.                                            *)
THEOREM FsckSiempre ==
  ASSUME MaxSabotajes <= 1, Duracion > 0 PROVE Spec => []FsckAntesDeResolver
<1>1. Init => Avisado
  BY DEF Init, Avisado, Atendiendo, Reparando
<1>2. Tipos /\ Avisado /\ [Next]_vars => Avisado'
  BY AvisadoNext
<1>3. Avisado => FsckAntesDeResolver
  BY DEF Avisado, Atendiendo, FsckAntesDeResolver
<1> QED BY TiposInvariante, <1>1, <1>2, <1>3, PTL DEF Spec

-----------------------------------------------------------------------------
(* Who attends it                                                           *)

(* While somebody attends a sabotage the other stages that fill Ready do    *)
(* nothing, and it is over only for the stages of BloqEmer.                 *)
Fases ==
  /\ usos.sabotajes = 0 => ~sab.activado /\ ~sab.primer /\ ~sab.terminado /\ ctx = <<>>
  /\ sab.primer =>
       /\ sab.activado /\ (sab.terminado => lbl["ERM"] = "sacarFixer")
       /\ lbl["NR"] \notin {"iniciar", "tareas", "mover", "poner"} /\ lbl["BLOCKIO"] \notin {"contar", "pedir"}
       /\ lbl["ERM"] \notin {"vaciar", "poner", "restaurar"} /\ lbl["MR"] \notin {"vaciar", "poner"}
  /\ lbl["ERM"] \in {"sacarFixer", "restaurar", "vaciar", "poner"} => sab.activado
  /\ sab.activado /\ sab.terminado =>
       lbl["ERM"] \in {"sacarFixer", "restaurar"} \/ sem["MR"] > 0 \/ Trabaja("MR")

(* What of the sabotage Fases speaks of does not change. *)
Banderas == /\ sab'.activado = sab.activado /\ sab'.primer = sab.primer /\ sab'.terminado = sab.terminado
            /\ ctx' = ctx /\ usos'.sabotajes = usos.sabotajes

(* Nothing changes for it when the stages of the sabotage keep their places *)
(* and the other two go nowhere they would move a TCB from.                 *)
LEMMA FasesQuietas ==
  ASSUME Fases, Banderas, lbl'["ERM"] = lbl["ERM"], lbl'["MR"] = lbl["MR"], sem'["MR"] = sem["MR"],
         sab.primer => /\ lbl'["NR"] \in {lbl["NR"], "espera", "turno", "entra"}
                       /\ lbl'["BLOCKIO"] \in {lbl["BLOCKIO"], "espera", "entra", "salir"}
  PROVE  Fases'
<1> DEFINE cuatro == {"sacarFixer", "restaurar", "vaciar", "poner"}
<1>1. usos'.sabotajes = 0 => ~sab'.activado /\ ~sab'.primer /\ ~sab'.terminado /\ ctx' = <<>>
  BY DEF Fases, Banderas
<1>2. sab'.primer => /\ sab'.activado /\ (sab'.terminado => lbl'["ERM"] = "sacarFixer")
                     /\ lbl'["NR"] \notin {"iniciar", "tareas", "mover", "poner"}
                     /\ lbl'["BLOCKIO"] \notin {"contar", "pedir"}
                     /\ lbl'["ERM"] \notin {"vaciar", "poner", "restaurar"} /\ lbl'["MR"] \notin {"vaciar", "poner"}
  BY DEF Fases, Banderas
<1>3. lbl'["ERM"] \in cuatro => sab'.activado
  BY DEF Fases, Banderas
<1>4. sab'.activado /\ sab'.terminado =>
        lbl'["ERM"] \in {"sacarFixer", "restaurar"} \/ sem'["MR"] > 0 \/ Trabaja("MR")'
  BY DEF Fases, Banderas, Trabaja
<1> QED BY <1>1, <1>2, <1>3, <1>4 DEF Fases

(* The steps that are not of a stage of the sabotage. *)
LEMMA FasesResto ==
  ASSUME Tipos, TurnoOK, Fases,
         \/ NewReady \/ BloqIO \/ ReadyExec \/ (\E e \in Recorridos : RecorreExec(e)) \/ EXIT_Cerrar
         \/ TomarPausar \/ (\E t \in Trips : Hilo(t)) \/ FuncionConsola \/ UNCHANGED vars
  PROVE  Fases'
<1>1. /\ lbl \in [Etapas -> Rotulos] /\ sem \in [Etapas \cup {"pausar"} -> Nat]
      /\ {"NR", "BLOCKIO", "ERM", "MR", "RE", "EXIT"} \cup Recorridos \subseteq Etapas
      /\ sab \in Sabotajes /\ usos \in Usos
  BY DEF Tipos, AnilloOK, TipoAnillo, Etapas, Recorridos, TipoSabotaje, ConsolaOK, TipoConsola
<1>2. UNCHANGED <<sab, ctx, usos>> => Banderas
  BY DEF Banderas
<1>3. CASE UNCHANGED <<lbl, sem>> /\ Banderas
  BY <1>3, FasesQuietas
<1>4. CASE NewReady
  <2>1. UNCHANGED <<sab, ctx, usos>>
    BY <1>4 DEF NewReady, NR_Entra, NR_IniciarPatota, NR_PrimeraTarea, NR_SinPatotas,
       NR_Sacar, NR_Poner, NR_Fin, sabotaje, consola
  <2>2. /\ lbl'["ERM"] = lbl["ERM"] /\ lbl'["MR"] = lbl["MR"] /\ sem'["MR"] = sem["MR"]
        /\ lbl'["BLOCKIO"] = lbl["BLOCKIO"]
    BY <1>1, <1>4 DEF NewReady, NR_Entra, NR_IniciarPatota, NR_PrimeraTarea, NR_SinPatotas,
       NR_Sacar, NR_Poner, NR_Fin, Ir, Terminar, anillo, Etapas
  <2>3. sab.primer => NR_Entra /\ sab.activado
    BY <1>4 DEF Fases, NewReady, NR_IniciarPatota, NR_PrimeraTarea, NR_SinPatotas,
       NR_Sacar, NR_Poner, NR_Fin, En
  <2>4. sab.primer => lbl'["NR"] = "espera"
    BY <1>1, <2>3 DEF NR_Entra, Terminar
  <2> QED BY <1>2, <2>1, <2>2, <2>4, FasesQuietas
<1>5. CASE BloqIO
  <2>1. UNCHANGED <<sab, ctx, usos>>
    BY <1>5 DEF BloqIO, BIO_Entra, BIO_Contar, BIO_Pedir, BIO_Salir, sabotaje, consola
  <2>2. /\ lbl'["ERM"] = lbl["ERM"] /\ lbl'["MR"] = lbl["MR"] /\ sem'["MR"] = sem["MR"]
        /\ lbl'["NR"] = lbl["NR"]
    BY <1>1, <1>5 DEF BloqIO, BIO_Entra, BIO_Contar, BIO_Pedir, BIO_Salir, Ir, Terminar, anillo, Etapas
  <2>3. sab.primer => sab.activado /\ (BIO_Entra \/ BIO_Salir)
    BY <1>5 DEF Fases, BloqIO, BIO_Contar, BIO_Pedir, En
  <2>4. sab.primer => lbl'["BLOCKIO"] \in {"salir", "espera"}
    BY <1>1, <2>3 DEF BIO_Entra, BIO_Salir, Ir, Terminar
  <2> QED BY <1>2, <2>1, <2>2, <2>4, FasesQuietas
<1>6. CASE ReadyExec
  <2>1. UNCHANGED <<sab, ctx, usos>>
    BY <1>6 DEF ReadyExec, RE_Entra, RE_Sacar, RE_Poner, RE_Lleno, RE_Contar, RE_Empezar, RE_Avisar,
       VisitarLiberado, sabotaje, consola
  <2>2. sem'["MR"] = sem["MR"] /\ \A e \in {"NR", "BLOCKIO", "ERM", "MR"} : lbl'[e] = lbl[e]
    BY <1>1, <1>6 DEF ReadyExec, RE_Entra, RE_Sacar, RE_Poner, RE_Lleno, RE_Contar, RE_Empezar, RE_Avisar,
       VisitarLiberado, Ir, Terminar, anillo, Etapas
  <2> QED BY <1>2, <2>1, <2>2, FasesQuietas
<1>7. ASSUME NEW e \in Recorridos, RecorreExec(e) PROVE Fases'
  <2>1. UNCHANGED <<sab, ctx, usos>>
    BY <1>7 DEF RecorreExec, Recorrer, Visitar, VisitarLiberado, sabotaje, consola
  <2>2. Proximo[e] \in {"RE", "EaX", "BLOCKIO"} /\ e \notin {"NR", "BLOCKIO", "ERM", "MR"}
    BY DEF Recorridos, Proximo
  <2>3. sem'["MR"] = sem["MR"] /\ \A f \in {"NR", "BLOCKIO", "ERM", "MR"} : lbl'[f] = lbl[f]
    BY <1>1, <1>7, <2>2 DEF RecorreExec, Recorrer, Visitar, Avanzar, VisitarLiberado, Ir, Terminar, anillo, Etapas
  <2> QED BY <1>2, <2>1, <2>3, FasesQuietas
<1>8. CASE EXIT_Cerrar \/ TomarPausar
  <2>1. UNCHANGED <<sab, ctx, usos>>
    BY <1>8 DEF EXIT_Cerrar, TomarPausar, sabotaje, consola
  <2>2. /\ sem'["MR"] = sem["MR"] /\ \A e \in {"BLOCKIO", "ERM", "MR"} : lbl'[e] = lbl[e]
        /\ lbl'["NR"] \in {lbl["NR"], "turno"}
    BY <1>1, <1>8 DEF EXIT_Cerrar, TomarPausar, Etapas
  <2> QED BY <1>2, <2>1, <2>2, FasesQuietas
<1>9. ASSUME NEW t \in Trips, Hilo(t) PROVE Fases'
  <2>1. UNCHANGED <<lbl, ctx, usos>>
    BY <1>9 DEF Hilo, Tomar, Actuar, LlegarAlSabotaje, Reparar, Signal, anillo, sabotaje, consola
  <2>2. sab' = sab \/ sab' = [sab EXCEPT !.ciclos = @ + 1]
    BY <1>9 DEF Hilo, Tomar, Actuar, LlegarAlSabotaje, Reparar, Signal, sabotaje
  <2>3. Banderas
    BY <1>1, <2>1, <2>2 DEF Banderas, Sabotajes
  <2>4. sem'["MR"] = sem["MR"]
    BY <1>1, <1>9 DEF Hilo, Tomar, Actuar, LlegarAlSabotaje, Reparar, Signal, anillo, Etapas
  <2> QED BY <2>1, <2>3, <2>4, FasesQuietas
<1>10. CASE FuncionConsola
  <2>1. UNCHANGED <<lbl, sab, ctx>>
    BY <1>10 DEF FuncionConsola, IniciarPlanificacion, PausarPlanificacion, IniciarPatota,
       ExpulsarTripulante, SeguirExpulsion, INI_Pausar, INI_Turno, PAU_Pedir, PAU_Tomar, PAT_Crear,
       PAT_Listar, PAT_New, PAT_Hilo, EXP_RAM, EXP_Estado, EXP_Buscar, EXP_Extraer, EXP_Extraido,
       EXP_Patota, anillo, sabotaje
  <2>2. usos'.sabotajes = usos.sabotajes
    BY <1>1, <1>10 DEF Usos, FuncionConsola, IniciarPlanificacion, PausarPlanificacion, IniciarPatota,
       ExpulsarTripulante, SeguirExpulsion, INI_Pausar, INI_Turno, PAU_Pedir, PAU_Tomar, PAT_Crear,
       PAT_Listar, PAT_New, PAT_Hilo, EXP_RAM, EXP_Estado, EXP_Buscar, EXP_Extraer, EXP_Extraido,
       EXP_Patota
  <2>3. sem'["MR"] = sem["MR"]
    BY <1>1, <1>10 DEF FuncionConsola, IniciarPlanificacion, PausarPlanificacion, IniciarPatota,
       ExpulsarTripulante, SeguirExpulsion, INI_Pausar, INI_Turno, PAU_Pedir, PAU_Tomar, PAT_Crear,
       PAT_Listar, PAT_New, PAT_Hilo, EXP_RAM, EXP_Estado, EXP_Buscar, EXP_Extraer, EXP_Extraido,
       EXP_Patota, anillo
  <2> QED BY <2>1, <2>2, <2>3, FasesQuietas DEF Banderas
<1>11. CASE UNCHANGED vars
  BY <1>2, <1>3, <1>11 DEF vars, anillo, sabotaje, consola
<1> QED BY <1>4, <1>5, <1>6, <1>7, <1>8, <1>9, <1>10, <1>11

(* The stage that chooses the fixer and takes it out again. *)
LEMMA FasesAEmergencia ==
  ASSUME Tipos, TurnoOK, Fases, AEmergencia PROVE Fases'
<1>1. /\ lbl \in [Etapas -> Rotulos] /\ sem \in [Etapas \cup {"pausar"} -> Nat] /\ sab \in Sabotajes
      /\ {"NR", "BLOCKIO", "ERM", "MR"} \subseteq Etapas
  BY DEF Tipos, AnilloOK, TipoAnillo, Etapas, TipoSabotaje
<1>2. usos' = usos /\ Trabaja("ERM")
  BY <1>1, SigueAEmergencia DEF consola
<1>3. /\ NadaPuesto /\ viva /\ \A f \in Etapas : Trabaja(f) => f = "ERM"
  BY <1>1, <1>2, TurnoDeEtapa DEF TurnoOK
<1>4. lbl["NR"] = "espera" /\ lbl["BLOCKIO"] = "espera" /\ lbl["MR"] = "espera" /\ sem["MR"] = 0
  BY <1>1, <1>3 DEF Trabaja, NadaPuesto, SemTurno, Etapas
<1>5. \A e \in {"NR", "BLOCKIO", "MR"} : lbl'[e] = "espera"
  <2>1. \A e \in {"NR", "BLOCKIO", "MR"} : lbl'[e] = lbl[e]
    BY <1>1, SigueAEmergencia DEF SigueEtapa, Ir, Terminar, anillo
  <2> QED BY <1>4, <2>1
<1>6. sab.primer /\ sab.terminado => lbl["ERM"] = "sacarFixer"
  BY DEF Fases
<1>7. usos.sabotajes = 0 => ~sab.activado /\ ctx = <<>> /\ ~sab.primer /\ ~sab.terminado
  BY DEF Fases
<1>8. lbl["ERM"] \in {"sacarFixer", "restaurar", "vaciar", "poner"} => sab.activado
  BY DEF Fases
<1>9. sab.activado /\ sab.terminado => lbl["ERM"] \in {"sacarFixer", "restaurar"}
  BY <1>4 DEF Fases, Trabaja
<1>10. sab.primer => lbl["ERM"] \notin {"vaciar", "poner", "restaurar"} /\ sab.activado
  BY DEF Fases
<1>11. CASE ERM_Entra
  <2>1. lbl["ERM"] = "entra" /\ ctx' = ctx
    BY <1>11 DEF ERM_Entra, En
  <2>2. CASE sab' = [sab EXCEPT !.terminado = TRUE] /\ sab.activado /\ Ir("ERM", "sacarFixer", Nadie)
    <3>1. lbl'["ERM"] = "sacarFixer" /\ sab'.activado
      BY <1>1, <2>2 DEF Ir, Sabotajes
    <3> QED BY <1>2, <1>5, <1>7, <2>2, <3>1 DEF Fases
  <2>3. CASE sab' = sab /\ ~sab.primer /\ sab.activado /\ Ir("ERM", "vaciar", Nadie)
    <3>1. lbl'["ERM"] = "vaciar"
      BY <1>1, <2>3 DEF Ir
    <3> QED BY <1>2, <1>5, <1>7, <1>9, <2>1, <2>3, <3>1 DEF Fases
  <2>4. CASE sab' = sab /\ Terminar("ERM", "MR")
    <3>1. lbl'["ERM"] = "espera" /\ sem'["MR"] > 0
      BY <1>1, <1>4, <2>4 DEF Terminar
    <3> QED BY <1>2, <1>5, <1>6, <1>7, <1>10, <2>1, <2>4, <3>1 DEF Fases
  <2> QED BY <1>11, <2>2, <2>3, <2>4 DEF ERM_Entra
<1>12. CASE ERM_SacarFixer
  <2>1. lbl["ERM"] = "sacarFixer" /\ ctx' = ctx
    BY <1>12 DEF ERM_SacarFixer, En
  <2>2. lbl'["ERM"] \in {"sacarFixer", "restaurar"}
    BY <1>1, <1>12, <2>1 DEF ERM_SacarFixer, Ir, anillo
  <2>3. ~sab'.primer /\ sab'.activado = sab.activado /\ sab'.terminado = sab.terminado
    BY <1>1, <1>12 DEF ERM_SacarFixer, Sabotajes
  <2> QED BY <1>2, <1>7, <1>8, <2>1, <2>2, <2>3 DEF Fases
<1>13. CASE ERM_Restaurar
  <2>1. lbl["ERM"] = "restaurar" /\ sab' = sab
    BY <1>13 DEF ERM_Restaurar, En
  <2>2. \/ lbl'["ERM"] = "espera" /\ sem'["MR"] > 0
        \/ lbl'["ERM"] = "restaurar"
    BY <1>1, <1>4, <1>13, <2>1 DEF ERM_Restaurar, Terminar, anillo
  <2> QED BY <1>2, <1>7, <1>8, <1>10, <2>1, <2>2 DEF Fases
<1>14. CASE ERM_Sacar \/ ERM_Poner
  <2>1. lbl["ERM"] \in {"vaciar", "poner"} /\ sab' = sab /\ ctx' = ctx
    BY <1>14 DEF ERM_Sacar, ERM_Poner, En, sabotaje
  <2>2. lbl'["ERM"] \in {"vaciar", "poner"}
    BY <1>1, <1>14 DEF ERM_Sacar, ERM_Poner, Ir
  <2> QED BY <1>2, <1>7, <1>8, <1>9, <1>10, <2>1, <2>2 DEF Fases
<1>15. CASE ERM_Elegir
  <2>1. lbl["ERM"] = "vaciar"
    BY <1>15 DEF ERM_Elegir, En
  <2>2. CASE sab' = sab /\ UNCHANGED <<anillo, ctx>>
    BY <1>2, <1>5, <1>7, <1>8, <1>9, <1>10, <2>1, <2>2 DEF Fases, anillo
  <2>3. CASE sab' = [sab EXCEPT !.primer = TRUE] /\ Terminar("ERM", "MR")
    <3>1. sab'.activado /\ ~sab'.terminado
      BY <1>1, <1>8, <1>9, <2>1, <2>3 DEF Sabotajes
    <3>2. lbl'["ERM"] = "espera"
      BY <1>1, <2>3 DEF Terminar
    <3> QED BY <1>2, <1>5, <1>7, <1>8, <2>1, <3>1, <3>2 DEF Fases
  <2> QED BY <1>15, <2>2, <2>3 DEF ERM_Elegir
<1> QED BY <1>11, <1>12, <1>13, <1>14, <1>15 DEF AEmergencia

(* The stage that ends the sabotage. *)
LEMMA FasesAReady ==
  ASSUME Tipos, TurnoOK, Fases, AReady PROVE Fases'
<1>1. /\ lbl \in [Etapas -> Rotulos] /\ sem \in [Etapas \cup {"pausar"} -> Nat] /\ sab \in Sabotajes
      /\ {"NR", "BLOCKIO", "ERM", "MR"} \subseteq Etapas
  BY DEF Tipos, AnilloOK, TipoAnillo, Etapas, TipoSabotaje
<1>2. usos' = usos /\ Trabaja("MR") /\ ctx' = ctx
  BY <1>1, SigueAReady DEF consola, AReady, MR_Entra, MR_Sacar, MR_Poner, MR_Resolver, sabotaje
<1>3. /\ viva /\ \A f \in Etapas : Trabaja(f) => f = "MR"
  BY <1>1, <1>2, TurnoDeEtapa DEF TurnoOK
<1>4. \A e \in {"NR", "BLOCKIO", "ERM"} : lbl'[e] = "espera" /\ lbl[e] = "espera"
  <2>1. \A e \in {"NR", "BLOCKIO", "ERM"} : lbl'[e] = lbl[e]
    BY <1>1, SigueAReady DEF SigueEtapa, Ir, Terminar, anillo
  <2> QED BY <1>1, <1>3, <2>1 DEF Trabaja
<1>5. sab.primer => ~sab.terminado /\ lbl["MR"] \notin {"vaciar", "poner"} /\ sab.activado
  BY <1>4 DEF Fases
<1>6. usos.sabotajes = 0 => ~sab.activado /\ ~sab.primer /\ ~sab.terminado /\ ctx = <<>>
  BY DEF Fases
<1>7. CASE MR_Entra
  <2>1. sab' = sab
    BY <1>7 DEF MR_Entra, sabotaje
  <2>2. CASE sab.activado /\ sab.terminado
    <3>1. ~sab.primer /\ lbl'["MR"] = "vaciar"
      BY <1>1, <1>3, <1>5, <1>7, <2>2 DEF MR_Entra, Ir
    <3> QED BY <1>2, <1>4, <1>6, <2>1, <3>1 DEF Fases, Trabaja
  <2>3. CASE ~(sab.activado /\ sab.terminado)
    <3>1. lbl'["MR"] = "espera"
      BY <1>1, <1>7, <2>3 DEF MR_Entra, Terminar
    <3> QED BY <1>2, <1>4, <1>5, <1>6, <2>1, <2>3, <3>1 DEF Fases
  <2> QED BY <2>2, <2>3
<1>8. CASE MR_Sacar \/ MR_Poner
  <2>1. sab' = sab /\ lbl["MR"] \in {"vaciar", "poner"}
    BY <1>8 DEF MR_Sacar, MR_Poner, sabotaje, En
  <2>2. lbl'["MR"] \in {"vaciar", "poner"}
    BY <1>1, <1>8 DEF MR_Sacar, MR_Poner, Ir
  <2> QED BY <1>2, <1>4, <1>5, <1>6, <2>1, <2>2 DEF Fases, Trabaja
<1>9. CASE MR_Resolver
  <2>1. lbl["MR"] = "vaciar" /\ sab' = [sab EXCEPT !.activado = FALSE]
    BY <1>9 DEF MR_Resolver, En
  <2>2. ~sab'.activado /\ ~sab'.primer /\ sab'.terminado = sab.terminado
    BY <1>1, <1>5, <2>1 DEF Sabotajes
  <2> QED BY <1>2, <1>4, <1>6, <2>2 DEF Fases
<1> QED BY <1>7, <1>8, <1>9 DEF AReady

(* No step breaks it: the handler of the server announces one sabotage, and *)
(* when it is announced nothing is left of another.                         *)
LEMMA FasesNext ==
  ASSUME MaxSabotajes <= 1, Tipos, TurnoOK, Fases, [Next]_vars PROVE Fases'
<1>1. /\ lbl \in [Etapas -> Rotulos] /\ sem \in [Etapas \cup {"pausar"} -> Nat] /\ sab \in Sabotajes
      /\ {"NR", "BLOCKIO", "ERM", "MR"} \subseteq Etapas
      /\ usos \in Usos /\ usos.sabotajes \in Nat /\ MaxSabotajes \in Nat
  BY ConstantesOK DEF Tipos, AnilloOK, TipoAnillo, Etapas, TipoSabotaje, ConsolaOK, TipoConsola, Usos
<1>2. ASSUME NEW e \in Etapas, Despertar(e) PROVE Fases'
  <2>1. /\ UNCHANGED <<sab, ctx, usos>> /\ lbl' = [lbl EXCEPT ![e] = "entra"]
        /\ sem' = [sem EXCEPT ![e] = @ - 1] /\ lbl[e] \in {"espera", "turno"}
    BY <1>2 DEF Despertar, En, sabotaje, consola
  <2>2. CASE e \notin {"ERM", "MR"}
    <3>1. /\ lbl'["ERM"] = lbl["ERM"] /\ lbl'["MR"] = lbl["MR"] /\ sem'["MR"] = sem["MR"]
          /\ lbl'["NR"] \in {lbl["NR"], "entra"} /\ lbl'["BLOCKIO"] \in {lbl["BLOCKIO"], "entra"}
      BY <1>1, <2>1, <2>2
    <3> QED BY <2>1, <3>1, FasesQuietas DEF Banderas
  <2>3. CASE e \in {"ERM", "MR"}
    <3>1. \A f \in {"NR", "BLOCKIO", "ERM", "MR"} : lbl'[f] = IF f = e THEN "entra" ELSE lbl[f]
      BY <1>1, <2>1
    <3>2. e # "MR" => sem'["MR"] = sem["MR"]
      BY <1>1, <2>1, <2>3
    <3>3. Trabaja("MR")' \/ (sem'["MR"] = sem["MR"] /\ lbl'["MR"] = lbl["MR"])
      BY <2>3, <3>1, <3>2 DEF Trabaja
    <3> QED BY <2>1, <2>3, <3>1, <3>3 DEF Fases, Trabaja
  <2> QED BY <2>2, <2>3
<1>3. CASE SAB_Activar
  <2>1. /\ usos.sabotajes = 0 /\ UNCHANGED <<lbl, sem, ctx>> /\ sab' = [sab EXCEPT !.activado = TRUE]
        /\ usos' = [usos EXCEPT !.sabotajes = @ + 1]
    BY <1>1, <1>3 DEF SAB_Activar, anillo
  <2>2. sab'.activado /\ ~sab'.primer /\ ~sab'.terminado /\ usos'.sabotajes = 1
    BY <1>1, <2>1 DEF Fases, Sabotajes, Usos
  <2> QED BY <2>2 DEF Fases
<1>4. CASE SAB_Datos
  <2>1. UNCHANGED <<lbl, sem, ctx, usos>>
    BY <1>4 DEF SAB_Datos, anillo, consola
  <2>2. ~sab'.terminado /\ sab'.activado = sab.activado /\ sab'.primer = sab.primer
    BY <1>1, <1>4 DEF SAB_Datos, Sabotajes
  <2> QED BY <2>1, <2>2 DEF Fases
<1> QED BY <1>2, <1>3, <1>4, FasesResto, FasesAEmergencia, FasesAReady DEF Next

(* One context is saved, and given back to the TCB it was taken from. *)
UnContexto ==
  /\ Len(ctx) <= 1 /\ (sab.primer => ctx # <<>>)
  /\ ctx # <<>> /\ caida = "no" => sab.primer \/ lbl["ERM"] = "restaurar"
  /\ IdentidadDelFixer

(* The fixer is in Ready, in exec or between the two, and nobody else is.   *)
Fixer == ctx[1].trip
Andando == {"ready", "exec", "RE"}
SuFixer == sab.primer =>
  /\ \A t \in Trips, l \in Andando \cup {"ERM"} : Ocupa(l, t) => t = Fixer
  /\ \E l \in Andando : Ocupa(l, Fixer)
  /\ tcb[Fixer].est \in {"R", "E"}
Atendido == Fases /\ UnContexto /\ SuFixer


(* Only the stage of Exec->BloqEmer saves a context, gives one back and     *)
(* says whether somebody attends the sabotage.                              *)
LEMMA FueraDeAEmergencia ==
  ASSUME Tipos, [Next]_vars, ~AEmergencia
  PROVE  /\ ctx' = ctx /\ ordenados' = ordenados /\ sab'.primer = sab.primer /\ actual'["ERM"] = actual["ERM"]
         /\ lbl'["ERM"] = lbl["ERM"] \/ (lbl["ERM"] = "espera" /\ lbl'["ERM"] = "entra")
<1>1. /\ lbl \in [Etapas -> Rotulos] /\ actual \in [Etapas -> TripsONada] /\ sab \in Sabotajes
      /\ "ERM" \in Etapas
  BY DEF Tipos, AnilloOK, TipoAnillo, Etapas, TipoSabotaje
<1>2. ASSUME NEW e \in Etapas \ {"ERM"}, SigueEtapa(e), UNCHANGED <<sab, ctx, ordenados>>
      PROVE  /\ ctx' = ctx /\ ordenados' = ordenados /\ sab'.primer = sab.primer
             /\ actual'["ERM"] = actual["ERM"] /\ lbl'["ERM"] = lbl["ERM"]
  BY <1>1, <1>2 DEF SigueEtapa, Ir, Terminar, anillo
<1>3. CASE UNCHANGED <<lbl, actual, sab, ctx, ordenados>>
  BY <1>3
<1>4. CASE NewReady
  <2>1. UNCHANGED <<sab, ctx, ordenados>>
    BY <1>4 DEF NewReady, NR_Entra, NR_IniciarPatota, NR_PrimeraTarea, NR_SinPatotas,
       NR_Sacar, NR_Poner, NR_Fin, sabotaje
  <2> QED BY <1>2, <1>4, <2>1, SigueNewReady DEF Etapas
<1>5. ASSUME NEW e \in Recorridos, RecorreExec(e)
      PROVE  /\ ctx' = ctx /\ ordenados' = ordenados /\ sab'.primer = sab.primer
             /\ actual'["ERM"] = actual["ERM"] /\ lbl'["ERM"] = lbl["ERM"]
  <2>1. UNCHANGED <<sab, ctx, ordenados>>
    BY <1>5 DEF RecorreExec, Recorrer, Visitar, VisitarLiberado, sabotaje
  <2> QED BY <1>2, <1>5, <2>1, SigueRecorreExec DEF Etapas, Recorridos
<1>6. CASE BloqIO
  <2>1. UNCHANGED <<sab, ctx, ordenados>>
    BY <1>6 DEF BloqIO, BIO_Entra, BIO_Contar, BIO_Pedir, BIO_Salir, sabotaje
  <2> QED BY <1>2, <1>6, <2>1, SigueBloqIO DEF Etapas
<1>7. CASE AReady
  <2>1. ctx' = ctx /\ ordenados' = ordenados /\ (sab' = sab \/ sab' = [sab EXCEPT !.activado = FALSE])
    BY <1>7 DEF AReady, MR_Entra, MR_Sacar, MR_Poner, MR_Resolver, sabotaje
  <2>2. sab'.primer = sab.primer
    BY <1>1, <2>1 DEF Sabotajes
  <2>3. actual'["ERM"] = actual["ERM"] /\ lbl'["ERM"] = lbl["ERM"]
    BY <1>1, <1>7, SigueAReady DEF SigueEtapa, Ir, Terminar, anillo, Etapas
  <2> QED BY <2>1, <2>2, <2>3
<1>8. CASE ReadyExec
  <2>1. UNCHANGED <<sab, ctx, ordenados>>
    BY <1>8 DEF ReadyExec, RE_Entra, RE_Sacar, RE_Poner, RE_Lleno, RE_Contar, RE_Empezar, RE_Avisar,
       VisitarLiberado, sabotaje
  <2>2. actual'["ERM"] = actual["ERM"] /\ lbl'["ERM"] = lbl["ERM"]
    BY <1>1, <1>8 DEF ReadyExec, RE_Entra, RE_Sacar, RE_Poner, RE_Lleno, RE_Contar, RE_Empezar, RE_Avisar,
       VisitarLiberado, Ir, Terminar, anillo
  <2> QED BY <2>1, <2>2
<1>9. CASE EXIT_Cerrar \/ TomarPausar \/ \E e \in Etapas : Despertar(e)
  <2>1. UNCHANGED <<sab, ctx, ordenados, actual>>
    BY <1>9 DEF EXIT_Cerrar, TomarPausar, Despertar, sabotaje
  <2>2. lbl'["ERM"] = lbl["ERM"] \/ (lbl["ERM"] = "espera" /\ lbl'["ERM"] = "entra")
    BY <1>1, <1>9 DEF EXIT_Cerrar, TomarPausar, Despertar, En
  <2> QED BY <2>1, <2>2
<1>10. CASE SAB_Activar \/ SAB_Datos \/ \E t \in Trips : Hilo(t)
  <2>1. UNCHANGED <<lbl, actual, ctx, ordenados>>
    BY <1>10 DEF SAB_Activar, SAB_Datos, Hilo, Tomar, Actuar, LlegarAlSabotaje, Reparar, Signal, anillo, sabotaje
  <2>2. sab'.primer = sab.primer
    BY <1>1, <1>10 DEF SAB_Activar, SAB_Datos, Hilo, Tomar, Actuar, LlegarAlSabotaje, Reparar, Signal,
       sabotaje, Sabotajes
  <2> QED BY <2>1, <2>2
<1>11. CASE FuncionConsola \/ UNCHANGED vars
  BY <1>3, <1>11 DEF FuncionConsola, IniciarPlanificacion, PausarPlanificacion, IniciarPatota,
     ExpulsarTripulante, SeguirExpulsion, INI_Pausar, INI_Turno, PAU_Pedir, PAU_Tomar, PAT_Crear,
     PAT_Listar, PAT_New, PAT_Hilo, EXP_RAM, EXP_Estado, EXP_Buscar, EXP_Extraer, EXP_Extraido,
     EXP_Patota, anillo, sabotaje, vars
<1> QED BY <1>4, <1>5, <1>6, <1>7, <1>8, <1>9, <1>10, <1>11 DEF Next

(* A process that died does nothing more. *)
LEMMA NadaTrasCaer ==
  ASSUME [Next]_vars, caida # "no" PROVE UNCHANGED vars
<1>1. ~\E e \in Etapas : Despertar(e)
  BY DEF Despertar, En
<1>2. ~(NewReady \/ BloqIO \/ AReady)
  BY DEF NewReady, NR_Entra, NR_IniciarPatota, NR_PrimeraTarea, NR_SinPatotas, NR_Sacar, NR_Poner, NR_Fin,
     BloqIO, BIO_Entra, BIO_Contar, BIO_Pedir, BIO_Salir, AReady, MR_Entra, MR_Sacar, MR_Poner, MR_Resolver, En
<1>3. ~(AEmergencia \/ ReadyExec \/ \E e \in Recorridos : RecorreExec(e))
  BY DEF AEmergencia, ERM_Entra, ERM_SacarFixer, ERM_Restaurar, ERM_Sacar, ERM_Poner, ERM_Elegir,
     ReadyExec, RE_Entra, RE_Sacar, RE_Poner, RE_Lleno, RE_Contar, RE_Empezar, RE_Avisar, VisitarLiberado,
     RecorreExec, Recorrer, Visitar, En
<1>4. ~(TomarPausar \/ EXIT_Cerrar \/ SAB_Activar \/ SAB_Datos \/ \E t \in Trips : Hilo(t))
  BY DEF TomarPausar, EXIT_Cerrar, SAB_Activar, SAB_Datos, Hilo, Tomar, Actuar, LlegarAlSabotaje, Reparar,
     Signal, En, EnHilo
<1>5. ~FuncionConsola
  BY DEF FuncionConsola, IniciarPlanificacion, PausarPlanificacion, IniciarPatota,
     ExpulsarTripulante, SeguirExpulsion, INI_Pausar, INI_Turno, PAU_Pedir, PAU_Tomar, PAT_Crear,
     PAT_Listar, PAT_New, PAT_Hilo, EXP_RAM, EXP_Estado, EXP_Buscar, EXP_Extraer, EXP_Extraido,
     EXP_Patota, Consola, EnConsola
<1> QED BY <1>1, <1>2, <1>3, <1>4, <1>5 DEF Next

(* The context saved stays the one of the fixer until it is given back. *)
LEMMA UnContextoNext ==
  ASSUME Base, Fases, UnContexto, SuFixer, [Next]_vars PROVE UnContexto'
<1>1. /\ lbl \in [Etapas -> Rotulos] /\ actual \in [Etapas -> TripsONada] /\ sab \in Sabotajes
      /\ ctx \in Seq(Contextos) /\ cola \in [Colas -> Seq(Trips)] /\ "ERM" \in Etapas
      /\ {"exec", "ready"} \subseteq Colas
  BY DEF Base, Tipos, AnilloOK, TipoAnillo, Etapas, TipoSabotaje, TipoColas, Colas
<1>2. CASE ~AEmergencia
  <2>1. /\ ctx' = ctx /\ sab'.primer = sab.primer /\ actual'["ERM"] = actual["ERM"]
        /\ lbl'["ERM"] = lbl["ERM"] \/ (lbl["ERM"] = "espera" /\ lbl'["ERM"] = "entra")
    BY <1>2, FueraDeAEmergencia DEF Base
  <2>2. caida' = "no" => caida = "no"
    BY NadaTrasCaer DEF vars
  <2> QED BY <2>1, <2>2 DEF UnContexto, IdentidadDelFixer
<1>3. CASE ERM_Entra
  <2>1. /\ lbl["ERM"] = "entra" /\ lbl'["ERM"] # "restaurar" /\ ctx' = ctx /\ caida = "no"
        /\ sab'.primer = sab.primer
    BY <1>1, <1>3 DEF ERM_Entra, En, Ir, Terminar, Sabotajes
  <2> QED BY <2>1 DEF UnContexto, IdentidadDelFixer
<1>4. CASE ERM_SacarFixer
  <2>1. lbl["ERM"] = "sacarFixer" /\ ctx' = ctx /\ ~sab'.primer /\ caida = "no"
    BY <1>1, <1>4 DEF ERM_SacarFixer, En, Sabotajes
  <2>2. CASE UNCHANGED anillo /\ caida' = "pop"
    BY <2>1, <2>2 DEF UnContexto, IdentidadDelFixer, anillo
  <2>3. ASSUME NEW q \in {"ready", "exec"}, cola[q] # <<>>, Ir("ERM", "restaurar", Head(cola[q]))
        PROVE  UnContexto'
    <3>1. lbl'["ERM"] = "restaurar" /\ actual'["ERM"] = Head(cola[q])
      BY <1>1, <2>3 DEF Ir
    <3>2. Head(cola[q]) \in Trips /\ Contains(cola[q], Head(cola[q]))
      BY <1>1, <2>3, ToSetTipo
    <3>3. Ocupa(q, Head(cola[q]))
      BY <1>1, <3>2 DEF Ocupa, Esta
    <3>4. ctx # <<>> => ctx[1].trip = Head(cola[q])
      BY <2>1, <3>2, <3>3 DEF UnContexto, SuFixer, Fixer, Andando
    <3> QED BY <2>1, <3>1, <3>4 DEF UnContexto, IdentidadDelFixer
  <2> QED BY <1>4, <2>2, <2>3 DEF ERM_SacarFixer, Cae
<1>5. CASE ERM_Restaurar
  <2>1. lbl["ERM"] = "restaurar" /\ sab' = sab /\ ~sab.primer
    BY <1>5 DEF ERM_Restaurar, En, Fases
  <2>2. CASE ctx # <<>> /\ ctx' = Tail(ctx)
    <3>1. ctx' = <<>>
      BY <1>1, <2>2 DEF UnContexto
    <3> QED BY <2>1, <3>1 DEF UnContexto, IdentidadDelFixer
  <2>3. CASE ctx = <<>> /\ ctx' = ctx
    BY <2>1, <2>3 DEF UnContexto, IdentidadDelFixer
  <2> QED BY <1>5, <2>2, <2>3 DEF ERM_Restaurar
<1>6. CASE ERM_Sacar \/ ERM_Poner
  <2>1. /\ lbl["ERM"] \in {"vaciar", "poner"} /\ lbl'["ERM"] \in {"vaciar", "poner"}
        /\ ctx' = ctx /\ sab' = sab /\ caida = "no"
    BY <1>1, <1>6 DEF ERM_Sacar, ERM_Poner, En, Ir, sabotaje
  <2> QED BY <2>1 DEF UnContexto, IdentidadDelFixer
<1>7. CASE ERM_Elegir
  <2>1. lbl["ERM"] = "vaciar" /\ caida = "no" /\ ~sab.primer
    BY <1>7 DEF ERM_Elegir, En, Fases
  <2>2. ctx = <<>>
    BY <2>1 DEF UnContexto
  <2>3. CASE UNCHANGED <<ctx, sab, anillo>>
    BY <2>1, <2>2, <2>3 DEF UnContexto, IdentidadDelFixer, anillo
  <2>4. ASSUME NEW c, ctx' = Append(ctx, c), sab' = [sab EXCEPT !.primer = TRUE], Terminar("ERM", "MR")
        PROVE  UnContexto'
    <3>1. ctx' = <<c>> /\ sab'.primer /\ lbl'["ERM"] = "espera"
      BY <1>1, <2>2, <2>4 DEF Terminar, Sabotajes
    <3> QED BY <3>1 DEF UnContexto, IdentidadDelFixer
  <2> QED BY <1>7, <2>3, <2>4 DEF ERM_Elegir
<1> QED BY <1>2, <1>3, <1>4, <1>5, <1>6, <1>7 DEF AEmergencia

(* Who is chosen is the only one: exec and Ready were emptied before. *)
LEMMA SuFixerElige ==
  ASSUME Base, Fases, UnContexto, ERM_Elegir, sab'.primer PROVE SuFixer'
<1>1. /\ lbl \in [Etapas -> Rotulos] /\ sab \in Sabotajes /\ cola \in [Colas -> Seq(Trips)]
      /\ tcb \in [Trips -> TCB] /\ {"ERM", "RE"} \subseteq Etapas /\ {"exec", "ready", "bem"} \subseteq Colas
      /\ Tipos /\ LugarOK
  BY DEF Base, Tipos, AnilloOK, TipoAnillo, Etapas, TipoSabotaje, TipoColas, Colas, TipoTCB
<1>2. lbl["ERM"] = "vaciar" /\ ~sab.primer /\ caida = "no" /\ cola[PorVaciar] = <<>>
  BY DEF ERM_Elegir, En, Fases
<1>3. ctx = <<>>
  BY <1>2 DEF UnContexto
<1>0. Esta("bem", Head(ordenados))
  BY <1>2 DEF ERM_Elegir
<1> PICK f \in Trips : f = Head(ordenados)
  BY <1>0, <1>1, ElementoTipo DEF Esta
<1>4. /\ Esta("bem", f) /\ ctx' = Append(ctx, Contexto(f))
      /\ tcb' = [tcb EXCEPT ![f] = [@ EXCEPT !.est = "R", !.ciclos = 0, !.tExec = 0, !.tIO = 0]]
      /\ Mover("bem", "ready", f) /\ Terminar("ERM", "MR")
  BY <1>2 DEF ERM_Elegir
<1>5. OtrasManos("ERM")
  BY <1>1, <1>4, ManosDeUna
<1>6. ~EnMano("ERM") /\ ~EnMano("ERM")'
  BY <1>1, <1>2, <1>4 DEF EnMano, Terminar
<1>7. Cruza(f, "ready")
  BY <1>1, <1>4, <1>5, <1>6, CruzaMueve
<1>8. Fixer' = f
  BY <1>3, <1>4 DEF Fixer, Contexto
<1>9. tcb'[f].est = "R"
  BY <1>1, <1>4 DEF TCB
<1>10. cola["exec"] = <<>> /\ cola["ready"] = <<>>
  BY <1>2 DEF PorVaciar
<1>11. lbl["RE"] = "espera"
  <2>1. Trabaja("ERM") /\ "ERM" # "RE"
    BY <1>2 DEF Trabaja
  <2>2. \A e \in Etapas : Trabaja(e) => e = "ERM"
    BY <1>1, <2>1, TurnoDeEtapa DEF Base, TurnoOK
  <2> QED BY <1>1, <2>2 DEF Trabaja
<1>12. \A t \in Trips : ~Ocupa("exec", t) /\ ~Ocupa("ready", t) /\ ~Ocupa("RE", t) /\ ~Ocupa("ERM", t)
  <2>1. {"exec", "ready"} \subseteq Colas /\ "RE" \notin Colas /\ "ERM" \notin Colas
    BY DEF Colas
  <2> QED BY <1>2, <1>10, <1>11, <2>1 DEF Ocupa, Esta, Contains, EnMano
<1>13. Andando \cup {"ERM"} \subseteq Lugares
  BY DEF Andando, Lugares, Colas, Etapas
<1>14. \A t \in Trips, l \in Andando \cup {"ERM"} : Ocupa(l, t)' => t = f
  BY <1>7, <1>12, <1>13 DEF Cruza, Andando
<1>15. "ready" \in Andando /\ Ocupa("ready", f)'
  BY <1>7, <1>13 DEF Cruza, Andando
<1> QED BY <1>8, <1>9, <1>14, <1>15 DEF SuFixer

(* Nothing else that happens while it is attended puts another where the    *)
(* fixer is, nor the fixer elsewhere.                                       *)
LEMMA SuFixerNext ==
  ASSUME Base, SinExpulsion, Fases, UnContexto, SuFixer, [Next]_vars PROVE SuFixer'
<1> SUFFICES ASSUME sab'.primer PROVE SuFixer'
  BY DEF SuFixer
<1>1. /\ lbl \in [Etapas -> Rotulos] /\ sab \in Sabotajes /\ ctx \in Seq(Contextos)
      /\ tcb \in [Trips -> TCB] /\ Tipos /\ LugarOK /\ TurnoOK /\ EnTareas
  BY DEF Base, Tipos, AnilloOK, TipoAnillo, TipoSabotaje, TipoTCB
<1>2. CASE ~sab.primer
  <2>1. AEmergencia
    BY <1>1, <1>2, FueraDeAEmergencia
  <2>2. ERM_Elegir
    BY <1>1, <1>2, <2>1 DEF AEmergencia, ERM_Entra, ERM_SacarFixer, ERM_Restaurar, ERM_Sacar, ERM_Poner,
       sabotaje, Sabotajes
  <2> QED BY <2>2, SuFixerElige
<1>3. CASE sab.primer
  <2>0. Len(ctx) > 0
    BY <1>1, <1>3 DEF UnContexto
  <2>14. Fixer \in Trips
    <3>1. ctx[1] \in Contextos
      BY <1>1, <2>0
    <3> QED BY <3>1 DEF Fixer, Contextos
  <2> PICK f \in Trips : f = Fixer
    BY <2>14
  <2>1. /\ sab.activado /\ lbl["NR"] \notin {"iniciar", "tareas", "mover", "poner"}
        /\ lbl["BLOCKIO"] \notin {"contar", "pedir"}
        /\ lbl["ERM"] \notin {"vaciar", "poner", "restaurar"} /\ lbl["MR"] \notin {"vaciar", "poner"}
    BY <1>3 DEF Fases
  <2>2. f \in Trips
    OBVIOUS
  <2>3. /\ \A t \in Trips, l \in Andando \cup {"ERM"} : Ocupa(l, t) => t = f
        /\ \E l \in Andando : Ocupa(l, f)
        /\ tcb[f].est \in {"R", "E"}
    BY <1>3 DEF SuFixer
  <2>4. \A k, l \in Lugares : Ocupa(k, f) /\ Ocupa(l, f) => k = l
    BY <1>1, <2>2 DEF LugarOK, Unico
  <2>5. /\ {"ready", "exec", "RE", "ERM", "NR", "new", "bio", "BLOCKIO", "bem", "MR", "exit"} \subseteq Lugares
        /\ Andando \cup {"ERM"} \subseteq Lugares
    BY DEF Andando, Lugares, Colas, Etapas
  <2>6. Calmo \/ (ActuanMenos /\ Clase)
    BY <1>1, ActuaNext
  <2>7. ASSUME ctx' = ctx,
               \A t \in Trips, l \in Andando \cup {"ERM"} : Ocupa(l, t)' => t = f,
               \E l \in Andando : Ocupa(l, f)', tcb'[f].est \in {"R", "E"}
        PROVE  SuFixer'
    <3>1. Fixer' = f
      BY <2>7 DEF Fixer
    <3> QED BY <2>7, <3>1 DEF SuFixer
  <2>8. ASSUME ctx' = ctx, Quedan, tcb'[f].est \in {"R", "E"} PROVE SuFixer'
    BY <2>3, <2>5, <2>7, <2>8 DEF Quedan
  <2>9. CASE Calma \/ Cierra
    BY <2>2, <2>3, <2>8, <2>9 DEF Calma, Cierra, Intacto
  <2>10. CASE Ciclo
    <3>1. EnSabotaje(f) \/ tcb'[f].est = tcb[f].est
      BY <2>2, <2>10 DEF Ciclo, Salvo, Intacto
    <3>2. ctx' = ctx /\ Quedan
      BY <2>10 DEF Ciclo
    <3> QED BY <2>1, <2>3, <2>8, <3>1, <3>2 DEF EnSabotaje
  <2>11. ~Primera /\ ~Devuelve /\ ~Elige /\ ~Restaura
    <3>1. \A t \in Trips : ~Ocupa("BLOCKIO", t)
      BY <2>1 DEF Ocupa, EnMano, Colas
    <3> QED BY <2>1, <3>1 DEF Primera, Devuelve, Elige, Restaura
  <2>12. CASE Nace
    <3> PICK t \in Trips : /\ \A l \in Lugares : ~Ocupa(l, t)
                           /\ Cruza(t, "new") /\ ctx' = ctx /\ Salvo(t)
      BY <2>12 DEF Nace
    <3>1. t # f
      BY <2>3, <2>5
    <3>2. \A l \in Andando \cup {"ERM"}, u \in Trips : Ocupa(l, u)' => Ocupa(l, u)
      BY <2>5 DEF Cruza, Andando
    <3>3. \A l \in Andando : Ocupa(l, f) => Ocupa(l, f)'
      BY <2>2, <2>5, <3>1 DEF Cruza
    <3>4. tcb'[f].est = tcb[f].est
      BY <2>2, <3>1 DEF Salvo, Intacto
    <3> QED BY <2>3, <2>7, <3>2, <3>3, <3>4
  <2>13. ASSUME NEW t \in Trips, NEW de \in Lugares, NEW a \in Lugares, Cambia(t, de, a, tcb'[t].est)
         PROVE  SuFixer'
    <3>1. /\ Ocupa(de, t) /\ Cruza(t, a) /\ ctx' = ctx /\ Salvo(t)
          /\ DeEtapa(t, de, a, tcb'[t].est)
      BY <1>1, <2>13 DEF Cambia, DeConsola, TurnoOK, Cuenta, NoSePierde
    <3>2. CASE t # f
      <4>1. de \notin Andando \cup {"ERM"}
        BY <2>3, <3>1, <3>2
      <4>2. de # "NR" /\ de # "MR"
        BY <2>1, <3>1 DEF Ocupa, EnMano, Colas
      <4>3. a \notin Andando \cup {"ERM"}
        BY <3>1, <4>1, <4>2 DEF DeEtapa, Andando
      <4>4. \A l \in Andando \cup {"ERM"}, u \in Trips : Ocupa(l, u)' => Ocupa(l, u)
        BY <2>5, <3>1, <4>3 DEF Cruza
      <4>5. \A l \in Andando : Ocupa(l, f) => Ocupa(l, f)'
        BY <2>2, <2>5, <3>1, <3>2 DEF Cruza
      <4>6. tcb'[f].est = tcb[f].est
        BY <2>2, <3>1, <3>2 DEF Salvo, Intacto
      <4> QED BY <2>3, <2>7, <3>1, <4>4, <4>5, <4>6
    <3>3. CASE t = f
      <4>1. de \in Andando
        BY <2>3, <2>4, <2>5, <3>1, <3>3
      <4>2. a \in Andando /\ tcb'[f].est \in {"R", "E"}
        <5>1. CASE de = "exec" /\ tcb'[f].est = tcb[f].est /\ \E e \in Recorridos : a = Destino[e] /\ tcb[f].est = Estado[e]
          <6>1. /\ Estado["EBIO"] = "I" /\ Estado["ER"] = "R" /\ Estado["EaX"] = "X" /\ Destino["ER"] = "ready"
            BY DEF Destino, Estado
          <6> QED BY <2>3, <5>1, <6>1 DEF Recorridos, Andando
        <5>2. CASE de = "ready" /\ a = "RE" /\ tcb'[f].est = tcb[f].est
          BY <2>3, <5>2 DEF Andando
        <5>3. CASE de = "RE" /\ a = "exec" /\ tcb'[f].est = "E"
          BY <5>3 DEF Andando
        <5>4. ~(lbl["ERM"] \in {"sacarFixer", "vaciar"} /\ (lbl["ERM"] = "sacarFixer" => ~sab'.primer))
          BY <2>1
        <5>5. "new" \notin Andando /\ "NR" \notin Andando /\ "bio" \notin Andando /\ "bem" \notin Andando
              /\ "ERM" \notin Andando /\ "MR" \notin Andando
          BY DEF Andando
        <5> QED BY <3>1, <3>3, <4>1, <5>1, <5>2, <5>3, <5>4, <5>5 DEF DeEtapa
      <4>3. \A u \in Trips, l \in Andando \cup {"ERM"} : Ocupa(l, u)' => u = f
        BY <2>3, <2>5, <3>1, <3>3 DEF Cruza
      <4>4. Ocupa(a, f)'
        BY <2>2, <3>1, <3>3 DEF Cruza
      <4> QED BY <2>7, <3>1, <4>2, <4>3, <4>4
    <3> QED BY <3>2, <3>3
  <2>15. ~Cambio \/ SuFixer'
    BY <2>13 DEF Cambio
  <2> QED BY <2>6, <2>9, <2>10, <2>11, <2>12, <2>15 DEF Clase, Calmo
<1> QED BY <1>2, <1>3

(* Together, and at the start. *)
LEMMA AtendidoNext ==
  ASSUME MaxSabotajes <= 1, SinExpulsion, Base, Atendido, [Next]_vars PROVE Atendido'
<1>1. Tipos /\ TurnoOK
  BY DEF Base
<1> QED BY <1>1, FasesNext, UnContextoNext, SuFixerNext DEF Atendido

LEMMA AtendidoInit == Init => Atendido
<1> SUFFICES ASSUME Init PROVE Atendido
  OBVIOUS
<1>1. \A e \in Etapas : lbl[e] = "espera"
  BY DEF Init
<1>2. ~sab.activado /\ ~sab.primer /\ ~sab.terminado /\ ctx = <<>>
  BY DEF Init
<1>3. {"ERM", "MR", "NR", "BLOCKIO"} \subseteq Etapas
  BY DEF Etapas
<1> QED BY <1>1, <1>2, <1>3 DEF Atendido, Fases, UnContexto, SuFixer, IdentidadDelFixer

(* With one sabotage, for every value of the other constants and while      *)
(* nobody is expelled: the context restored when it ends is the one saved   *)
(* from that TCB, whatever was preempted, paused or blocked meanwhile.      *)
THEOREM IdentidadDelFixerSiempre ==
  ASSUME MaxReinicios = 0, MaxExpulsiones = 0, MaxSabotajes <= 1 PROVE Spec => []IdentidadDelFixer
<1>1. SinExpulsion
  BY DEF SinExpulsion
<1>2. Base /\ Atendido /\ [Next]_vars => Atendido'
  BY <1>1, AtendidoNext
<1>3. Atendido => IdentidadDelFixer
  BY DEF Atendido, UnContexto
<1> QED BY BaseSiempre, AtendidoInit, <1>2, <1>3, PTL DEF Spec

(* Who advances, moves or gets a new task: the thread of a tripulante at    *)
(* work, or a stage that does none of it while the sabotage is attended.    *)
LEMMA QuienAvanza ==
  ASSUME Base, Fases, [Next]_vars, sab.primer, sab'.primer, NEW t \in Trips, Avanzado(t)' # Avanzado(t)
  PROVE  Actua(t)
<1>1. tcb \in [Trips -> TCB] /\ hilo \in [Trips -> Hilos] /\ sab \in Sabotajes
  BY DEF Base, Tipos, TipoTCB, TipoBarrera, TipoSabotaje
<1>2. tcb' # tcb
  BY DEF Avanzado
<1>3. /\ lbl["NR"] \notin {"iniciar", "tareas", "mover", "poner"} /\ lbl["BLOCKIO"] \notin {"contar", "pedir"}
      /\ lbl["ERM"] \notin {"vaciar", "poner", "restaurar"} /\ lbl["MR"] \notin {"vaciar", "poner"}
  BY DEF Fases
<1>4. ~NewReady /\ ~BloqIO /\ ~AReady
  BY <1>2, <1>3 DEF NewReady, NR_Entra, NR_IniciarPatota, NR_PrimeraTarea, NR_SinPatotas, NR_Sacar,
     NR_Poner, NR_Fin, BloqIO, BIO_Entra, BIO_Contar, BIO_Pedir, BIO_Salir, AReady, MR_Entra, MR_Sacar,
     MR_Poner, MR_Resolver, En
<1>5. ~AEmergencia
  BY <1>2, <1>3 DEF AEmergencia, ERM_Entra, ERM_SacarFixer, ERM_Restaurar, ERM_Sacar, ERM_Poner, ERM_Elegir, En
<1>6. ~\E e \in Recorridos : RecorreExec(e)
  BY <1>2 DEF RecorreExec, Recorrer, Visitar, VisitarLiberado
<1>7. ~ReadyExec
  <2>1. RE_Poner => tcb' = [tcb EXCEPT ![actual["RE"]].est = "E"]
    BY DEF RE_Poner
  <2>2. ~RE_Poner
    BY <1>1, <2>1 DEF Avanzado, TCB
  <2> QED BY <1>2, <2>2 DEF ReadyExec, RE_Entra, RE_Sacar, RE_Lleno, RE_Contar, RE_Empezar, RE_Avisar,
          VisitarLiberado
<1>8. ~EXIT_Cerrar
  <2> SUFFICES ASSUME EXIT_Cerrar PROVE FALSE
    OBVIOUS
  <2> PICK a, b : tcb'[t] = [tcb[t] EXCEPT !.vivo = a, !.cumplido = b]
    BY DEF EXIT_Cerrar
  <2> QED BY <1>1 DEF Avanzado, TCB
<1>9. ~TomarPausar /\ ~(\E e \in Etapas : Despertar(e)) /\ ~SAB_Activar /\ ~SAB_Datos /\ ~UNCHANGED vars
  BY <1>2 DEF TomarPausar, Despertar, SAB_Activar, SAB_Datos, vars
<1>10. ~FuncionConsola
  <2>1. ~PAT_New
    <3>1. PAT_New => tcb' = [tcb EXCEPT ![cons.t].vivo = TRUE]
      BY DEF PAT_New
    <3> QED BY <1>1, <3>1 DEF Avanzado, TCB
  <2>2. ~EXP_Buscar
    <3>1. EXP_Buscar => tcb' = tcb \/ tcb' = [tcb EXCEPT ![cons.t].est = "X"]
      BY DEF EXP_Buscar
    <3> QED BY <1>1, <1>2, <3>1 DEF Avanzado, TCB
  <2> QED BY <1>2, <2>1, <2>2 DEF FuncionConsola, IniciarPlanificacion, PausarPlanificacion, IniciarPatota,
     ExpulsarTripulante, SeguirExpulsion, INI_Pausar, INI_Turno, PAU_Pedir, PAU_Tomar, PAT_Crear,
     PAT_Listar, PAT_Hilo, EXP_RAM, EXP_Estado, EXP_Extraer, EXP_Extraido, EXP_Patota
<1>11. PICK u \in Trips : Hilo(u)
  BY <1>4, <1>5, <1>6, <1>7, <1>8, <1>9, <1>10 DEF Next
<1>12. ~Tomar(u)
  <2> SUFFICES ASSUME Tomar(u) PROVE FALSE
    OBVIOUS
  <2> PICK k : tcb' = [tcb EXCEPT ![u].cumplido = k]
    BY DEF Tomar
  <2> QED BY <1>1 DEF Avanzado, TCB
<1>13. Actuar(u) \/ Reparar(u)
  BY <1>2, <1>11, <1>12 DEF Hilo, LlegarAlSabotaje, Signal
<1>14. t = u
  <2>1. tcb'[t] = tcb[t] \/ t = u
    BY <1>1, <1>13 DEF Actuar, Reparar, IrAlSabotaje, TareaNormal, TareaIO
  <2> QED BY <2>1 DEF Avanzado
<1> QED BY <1>13, <1>14 DEF Actuar, Reparar, EnHilo, Actua

(* With one sabotage, for every value of the other constants and while      *)
(* nobody is expelled: from the moment it is attended until it is repaired  *)
(* no tripulante but the fixer moves, works or receives a task.             *)
THEOREM SoloElFixerAvanzaSiempre ==
  ASSUME MaxReinicios = 0, MaxExpulsiones = 0, MaxSabotajes <= 1 PROVE Spec => SoloElFixerAvanza
<1>1. SinExpulsion
  BY DEF SinExpulsion
<1>2. Base /\ SuEstado /\ Atendido /\ [Next]_vars => SuEstado' /\ Atendido'
  BY <1>1, AtendidoNext, SuEstadoNext
<1>3. Base /\ SuEstado /\ Atendido /\ [Next]_vars =>
        [sab.primer /\ sab'.primer =>
           \A t \in Trips : Avanzado(t)' # Avanzado(t) => t = ctx[1].trip]_vars
  <2> SUFFICES ASSUME Base, SuEstado, Atendido, [Next]_vars, sab.primer, sab'.primer,
                      NEW t \in Trips, Avanzado(t)' # Avanzado(t)
               PROVE  t = ctx[1].trip
    OBVIOUS
  <2>1. Actua(t)
    BY QuienAvanza DEF Atendido
  <2>2. Ocupa("exec", t)
    BY <2>1 DEF SuEstado, Situado
  <2> QED BY <2>2 DEF Atendido, SuFixer, Andando, Fixer
<1> QED BY BaseSiempre, AtendidoInit, SuEstadoInit, <1>2, <1>3, PTL DEF Spec, SoloElFixerAvanza

-----------------------------------------------------------------------------
(* Its context is there when it is over                                     *)

(* Who is in its cycle is in exec. *)
CicloEnExec == \A t \in Trips : EnCiclo(t) => Ocupa("exec", t)

(* The thread of a tripulante works once per cycle, and counts for the      *)
(* sabotage only while there is one.                                        *)
UnaVezPorCiclo == \A t \in Trips : /\ Actua(t) => ~tcb[t].cumplido
                                   /\ hilo[t] = "repara" => sab.activado

(* Those of exec that did their cycle, and the way of the turn from their   *)
(* cycle to the stage that chooses the fixer.                               *)
Hechos == {t \in Trips : Esta("exec", t) /\ tcb[t].cumplido}
EnPleno == HilosEnCiclo # {} \/ contador # 0 \/ Avisando
HaciaERM == \E e \in {"ER", "EaX", "BLOCKIO", "ERM"} : sem[e] > 0 \/ Trabaja(e)

(* A sabotage that nobody attends yet is repaired for a CPU cycle at most,  *)
(* a cycle of each of exec; with GRADO_MULTITAREA below DURACION_SABOTAJE   *)
(* somebody is attending it when it is over, and the fixer taken out then   *)
(* has a context to restore.                                                *)
PorAtender == ~sab.primer /\ ~sab.terminado /\ sab.ciclos > 0
ATiempo == PorAtender =>
  /\ sab.activado /\ sab.ciclos <= Grado /\ (EnPleno \/ HaciaERM)
  /\ EnPleno => sab.ciclos <= Cardinality(Hechos)
Devolucion ==
  /\ lbl["ERM"] \in {"sacarFixer", "restaurar"} => (~sab.terminado => sab.ciclos = 0)
  /\ lbl["ERM"] = "sacarFixer" /\ caida = "no" => sab.primer
  /\ lbl["ERM"] = "restaurar" => ctx # <<>>

(* EXPULSAR_TRIPULANTE is never typed. *)
LEMMA NadieExpulsa ==
  ASSUME Base, SinExpulsion PROVE ~ExpulsarTripulante
<1>1. \A t \in Trips : ~EXP_RAM(t)
  BY DEF EXP_RAM, SinExpulsion, Base, Tipos, ConsolaOK, TipoConsola, Usos
<1>2. ~SeguirExpulsion
  <2>1. cons.pc \notin Expulsando
    BY DEF Base, TurnoOK, Cuenta, NoSePierde
  <2> QED BY <2>1 DEF SeguirExpulsion, EXP_Estado, EXP_Buscar, EXP_Extraer, EXP_Extraido, EXP_Patota,
          EnConsola, Expulsando
<1> QED BY <1>1, <1>2 DEF ExpulsarTripulante

(* signalHilosTripulantes alone puts a tripulante of exec in its cycle. *)
LEMMA EntraEnCiclo ==
  ASSUME Base, [Next]_vars, NEW t \in Trips, EnCiclo(t)'
  PROVE  EnCiclo(t) \/ (RE_Avisar /\ Esta("exec", t))
<1>2. semT \in [Trips -> Nat] /\ hilo \in [Trips -> Hilos]
  BY DEF Base, Tipos, TipoBarrera
<1>3. CASE UNCHANGED <<semT, hilo>>
  BY <1>3 DEF EnCiclo
<1>4. CASE NewReady \/ (\E e \in Recorridos : RecorreExec(e)) \/ BloqIO \/ AEmergencia \/ AReady
  BY <1>3, <1>4, SigueNewReady, SigueRecorreExec, SigueBloqIO, SigueAEmergencia, SigueAReady DEF barrera
<1>5. CASE ReadyExec
  <2>1. CASE RE_Avisar
    BY <1>2, <2>1 DEF RE_Avisar, EnCiclo
  <2> QED BY <1>3, <1>5, <2>1, SigueReadyExec DEF ReadyExec, RE_Contar, RE_Empezar, VisitarLiberado, barrera
<1>6. CASE EXIT_Cerrar \/ TomarPausar \/ (\E e \in Etapas : Despertar(e)) \/ SAB_Activar \/ SAB_Datos
  BY <1>3, <1>6 DEF EXIT_Cerrar, TomarPausar, Despertar, SAB_Activar, SAB_Datos, barrera
<1>7. ASSUME NEW u \in Trips, Tomar(u) \/ Actuar(u) \/ LlegarAlSabotaje(u) \/ Reparar(u) PROVE EnCiclo(t)
  <2>1. HilosEnCiclo' = HilosEnCiclo
    BY <1>7, CicloHilo DEF Base, TurnoOK, CicloQuieto
  <2> QED BY <2>1 DEF HilosEnCiclo, EnCiclo, EnObra
<1>8. ASSUME NEW u \in Trips, Signal(u) PROVE EnCiclo(t)
  BY <1>2, <1>8 DEF Signal, EnCiclo, EnObra
<1>9. CASE FuncionConsola
  <2>1. CASE PAT_Hilo
    BY <1>2, <2>1 DEF PAT_Hilo, EnCiclo, EnObra
  <2> QED BY <1>3, <1>9, <2>1 DEF FuncionConsola, IniciarPlanificacion, PausarPlanificacion, IniciarPatota,
       ExpulsarTripulante, SeguirExpulsion, INI_Pausar, INI_Turno, PAU_Pedir, PAU_Tomar, PAT_Crear, PAT_Listar,
       PAT_New, EXP_RAM, EXP_Estado, EXP_Buscar, EXP_Extraer, EXP_Extraido, EXP_Patota, barrera
<1>10. CASE UNCHANGED vars
  BY <1>3, <1>10 DEF vars, barrera
<1> QED BY <1>4, <1>5, <1>6, <1>7, <1>8, <1>9, <1>10 DEF Next, Hilo

(* And nobody takes it out of exec before it signalled. *)
LEMMA CicloEnExecNext ==
  ASSUME Base, SinExpulsion, CicloEnExec, [Next]_vars PROVE CicloEnExec'
<1> SUFFICES ASSUME NEW t \in Trips, EnCiclo(t)' PROVE Ocupa("exec", t)'
  BY DEF CicloEnExec
<1>1. "exec" \in Colas /\ "exec" \in Lugares
  BY DEF Lugares, Colas
<1>2. CASE RE_Avisar /\ Esta("exec", t)
  BY <1>1, <1>2 DEF RE_Avisar, Ocupa, Esta
<1>3. CASE EnCiclo(t)
  <2>1. ~NadieActua /\ Ocupa("exec", t)
    BY <1>3 DEF NadieActua, HilosEnCiclo, EnCiclo, EnObra, CicloEnExec
  <2>2. Clase
    BY ClaseNext DEF Base
  <2>3. ~Cambio
    BY <2>1 DEF Cambio, Cambia, DeConsola, DeEtapa, Base, TurnoOK, Cuenta, NoSePierde
  <2>4. Quedan \/ Nace
    BY <2>1, <2>2, <2>3 DEF Clase, Calma, Primera, Devuelve, Elige, Restaura, Cierra, Ciclo
  <2>5. CASE Nace
    <3> PICK u \in Trips : (\A l \in Lugares : ~Ocupa(l, u)) /\ Cruza(u, "new")
      BY <2>5 DEF Nace
    <3> QED BY <1>1, <2>1 DEF Cruza
  <2> QED BY <1>1, <2>1, <2>4, <2>5 DEF Quedan
<1> QED BY <1>2, <1>3, EntraEnCiclo

(* A thread takes a tripulante that has not done its cycle, and marks it    *)
(* when it has; EXIT clears the marks when no thread works.                 *)
LEMMA UnaVezPorCicloNext ==
  ASSUME Base, SinExpulsion, UnaVezPorCiclo, [Next]_vars PROVE UnaVezPorCiclo'
<1>1. /\ hilo \in [Trips -> Hilos] /\ tcb \in [Trips -> TCB] /\ sab \in Sabotajes /\ Tipos /\ Ficha
  BY DEF Base, Tipos, TipoBarrera, TipoTCB, TipoSabotaje, TurnoOK
<1>2. CASE hilo' = hilo /\ NadieActua
  BY <1>2, ActuaEnCiclo DEF UnaVezPorCiclo, Actua
<1>3. ASSUME \A t \in Trips : Actua(t)' => hilo'[t] = hilo[t] /\ tcb'[t].cumplido = tcb[t].cumplido,
             sab.activado => sab'.activado
      PROVE  UnaVezPorCiclo'
  BY <1>3 DEF UnaVezPorCiclo, Actua
<1>4. CASE UNCHANGED <<hilo, tcb, sab>>
  BY <1>3, <1>4
<1>5. CASE NewReady \/ (\E e \in Recorridos : RecorreExec(e)) \/ BloqIO \/ AEmergencia \/ AReady
  <2>1. hilo' = hilo
    BY <1>5, SigueNewReady, SigueRecorreExec, SigueBloqIO, SigueAEmergencia, SigueAReady DEF barrera
  <2>2. \E e \in Etapas \ {"RE"} : Trabaja(e)
    BY <1>5, SigueNewReady, SigueRecorreExec, SigueBloqIO, SigueAEmergencia, SigueAReady DEF Etapas, Recorridos
  <2> QED BY <1>1, <1>2, <2>1, <2>2, EtapaSola
<1>6. CASE ReadyExec
  <2>1. CASE RE_Entra \/ RE_Sacar \/ RE_Poner \/ RE_Lleno
    <3>1. hilo' = hilo /\ Trabaja("RE") /\ ~Avisando /\ "RE" \in Etapas
      BY <2>1, SigueReadyExec DEF barrera, Etapas
    <3> QED BY <1>1, <1>2, <3>1, EtapaSola
  <2> QED BY <1>4, <1>6, <2>1 DEF ReadyExec, RE_Contar, RE_Empezar, RE_Avisar, VisitarLiberado, barrera, sabotaje
<1>7. CASE EXIT_Cerrar
  <2>1. hilo' = hilo /\ Trabaja("EXIT") /\ "EXIT" \in Etapas /\ "EXIT" # "RE"
    BY <1>7 DEF EXIT_Cerrar, En, Trabaja, barrera, Etapas
  <2> QED BY <1>1, <1>2, <2>1, EtapaSola
<1>8. CASE TomarPausar \/ (\E e \in Etapas : Despertar(e)) \/ UNCHANGED vars
  BY <1>4, <1>8 DEF TomarPausar, Despertar, vars, barrera, sabotaje
<1>9. CASE SAB_Activar \/ SAB_Datos
  <2>1. UNCHANGED <<hilo, tcb>>
    BY <1>9 DEF SAB_Activar, SAB_Datos, barrera
  <2>2. sab.activado => sab'.activado
    BY <1>1, <1>9 DEF SAB_Activar, SAB_Datos, Sabotajes
  <2> QED BY <1>3, <2>1, <2>2
<1>10. CASE FuncionConsola
  <2>1. IniciarPlanificacion \/ PausarPlanificacion \/ IniciarPatota
    BY <1>10, NadieExpulsa DEF FuncionConsola
  <2>2. sab' = sab
    BY <2>1 DEF IniciarPlanificacion, PausarPlanificacion, IniciarPatota, INI_Pausar, INI_Turno, PAU_Pedir,
       PAU_Tomar, PAT_Crear, PAT_Listar, PAT_New, PAT_Hilo, sabotaje
  <2>3. CASE PAT_New
    <3>1. hilo' = hilo /\ tcb' = [tcb EXCEPT ![cons.t].vivo = TRUE]
      BY <2>3 DEF PAT_New, barrera
    <3> QED BY <1>1, <1>3, <2>2, <3>1 DEF TCB
  <2>4. CASE PAT_Hilo
    <3>1. tcb' = tcb /\ hilo' = [hilo EXCEPT ![cons.t] = "espera"]
      BY <2>4 DEF PAT_Hilo
    <3>2. \A t \in Trips : Actua(t)' => hilo'[t] = hilo[t]
      BY <1>1, <3>1 DEF Actua
    <3> QED BY <1>3, <2>2, <3>1, <3>2
  <2> QED BY <1>4, <2>1, <2>2, <2>3, <2>4 DEF IniciarPlanificacion, PausarPlanificacion, IniciarPatota,
          INI_Pausar, INI_Turno, PAU_Pedir, PAU_Tomar, PAT_Crear, PAT_Listar, barrera
<1>11. ASSUME NEW t \in Trips, Hilo(t) PROVE UnaVezPorCiclo'
  <2>1. \A u \in Trips \ {t} : hilo'[u] = hilo[u] /\ tcb'[u] = tcb[u]
    BY <1>1, <1>11 DEF Hilo, Tomar, Actuar, LlegarAlSabotaje, Reparar, Signal, IrAlSabotaje, TareaNormal, TareaIO
  <2>2. sab'.activado = sab.activado
    BY <1>1, <1>11 DEF Hilo, Tomar, Actuar, LlegarAlSabotaje, Reparar, Signal, sabotaje, Sabotajes
  <2>3. (Actua(t)' => ~tcb'[t].cumplido) /\ (hilo'[t] = "repara" => sab.activado)
    <3>1. Sigue(t) \notin {"actua", "repara"}
      BY DEF Sigue
    <3>2. CASE Tomar(t)
      BY <1>1, <3>1, <3>2 DEF Tomar, Actua, TCB
    <3>3. CASE Actuar(t) \/ Reparar(t)
      BY <1>1, <3>1, <3>3 DEF Actuar, Reparar, Actua
    <3>4. CASE LlegarAlSabotaje(t)
      BY <1>1, <3>4 DEF LlegarAlSabotaje, EnHilo, UnaVezPorCiclo, Actua
    <3>5. CASE Signal(t)
      BY <1>1, <3>5 DEF Signal, EnHilo, Actua
    <3> QED BY <1>11, <3>2, <3>3, <3>4, <3>5 DEF Hilo
  <2> QED BY <2>1, <2>2, <2>3 DEF UnaVezPorCiclo, Actua
<1> QED BY <1>5, <1>6, <1>7, <1>8, <1>9, <1>10, <1>11 DEF Next

(* Some of those of a list that repeats none are no more than it is long.   *)
LEMMA HechosCaben ==
  ASSUME NEW s \in Seq(Trips), NoRepite(s), NEW H \in SUBSET {t \in Trips : Contains(s, t)}
  PROVE  IsFiniteSet(H) /\ Cardinality(H) \in Nat /\ Len(s) \in Nat /\ Cardinality(H) <= Len(s)
<1> DEFINE S == {t \in Trips : Contains(s, t)}
<1>1. Cardinality(S) = Len(s)
  BY TantosComoLugares
<1>2. IsFiniteSet(S)
  BY ConstantesOK, FS_Subset
<1>3. IsFiniteSet(H) /\ Cardinality(H) <= Cardinality(S)
  BY <1>2, FS_Subset
<1>4. Cardinality(H) \in Nat /\ Len(s) \in Nat
  BY <1>3, FS_CardinalityType
<1> QED BY <1>1, <1>3, <1>4

(* Of those that are left, as many as before or more did their cycle. *)
LEMMA HechosCrecen ==
  ASSUME Hechos \subseteq Hechos'
  PROVE  /\ Cardinality(Hechos) \in Nat /\ Cardinality(Hechos') \in Nat
         /\ Cardinality(Hechos) <= Cardinality(Hechos')
<1>1. Hechos' \subseteq Trips
  BY DEF Hechos
<1>2. IsFiniteSet(Hechos')
  BY <1>1, ConstantesOK, FS_Subset
<1> QED BY <1>2, FS_Subset, FS_CardinalityType

(* A step that counts nothing, and keeps the turn before BloqEmer. *)
LEMMA ATiempoSigue ==
  ASSUME Tipos, ATiempo, PorAtender' => PorAtender, sab'.activado = sab.activado, sab'.ciclos = sab.ciclos,
         PorAtender => EnPleno' \/ HaciaERM', PorAtender /\ EnPleno' => EnPleno /\ Hechos \subseteq Hechos'
  PROVE  ATiempo'
<1> SUFFICES ASSUME PorAtender' PROVE ATiempo'
  BY DEF ATiempo
<1>1. sab.activado /\ sab.ciclos <= Grado /\ (EnPleno' \/ HaciaERM') /\ sab.ciclos \in Nat
  BY DEF ATiempo, Tipos, TipoSabotaje, Sabotajes
<1>2. ASSUME EnPleno' PROVE sab'.ciclos <= Cardinality(Hechos')
  <2>1. sab.ciclos <= Cardinality(Hechos)
    BY <1>2 DEF ATiempo
  <2>2. /\ Cardinality(Hechos) \in Nat /\ Cardinality(Hechos') \in Nat
        /\ Cardinality(Hechos) <= Cardinality(Hechos')
    BY <1>2, HechosCrecen
  <2> QED BY <1>1, <2>1, <2>2
<1> QED BY <1>1, <1>2 DEF ATiempo

(* No stage but those on the way works while it is to be attended. *)
LEMMA LejosDeERM ==
  ASSUME Ficha, ATiempo, NEW e \in {"NR", "EBIO", "RE", "MR", "EXIT"}, Trabaja(e), e = "RE" => ~Avisando
  PROVE  ~PorAtender
<1>1. e \in Etapas /\ {"ER", "EaX", "BLOCKIO", "ERM"} \subseteq Etapas \cap SemTurno
  BY DEF Etapas, SemTurno
<1>2. /\ HilosEnCiclo = {} /\ contador = 0 /\ NadaPuesto /\ ~Avisando
      /\ \A f \in Etapas : Trabaja(f) => f = e
  BY <1>1, TurnoDeEtapa
<1>3. ~EnPleno
  BY <1>2 DEF EnPleno
<1>4. ~HaciaERM
  <2>1. \A f \in {"ER", "EaX", "BLOCKIO", "ERM"} : sem[f] = 0 /\ ~Trabaja(f)
    BY <1>1, <1>2 DEF NadaPuesto
  <2> QED BY <2>1 DEF HaciaERM
<1> QED BY <1>3, <1>4 DEF ATiempo

(* Nor does one on the way let it go: it posts the next of them. *)
LEMMA ATiempoEtapa ==
  ASSUME Tipos, Ficha, ATiempo, NEW e \in {"ER", "EaX", "BLOCKIO"}, Trabaja(e), UNCHANGED <<barrera, sab>>,
         \/ UNCHANGED anillo
         \/ \E l \in Rotulos \ {"espera"} : \E t : Ir(e, l, t)
         \/ \E s \in {"EaX", "BLOCKIO", "ERM"} : Terminar(e, s)
         \/ ~sab.activado /\ \E s : Terminar(e, s)
  PROVE  ATiempo'
<1>1. /\ e \in Etapas /\ {"EaX", "BLOCKIO", "ERM", "RE"} \subseteq Etapas /\ lbl \in [Etapas -> Rotulos]
      /\ sem \in [Etapas \cup {"pausar"} -> Nat]
  BY DEF Etapas, Tipos, AnilloOK, TipoAnillo
<1>2. HilosEnCiclo = {} /\ contador = 0 /\ ~Avisando /\ \A f \in Etapas : Trabaja(f) => f = e
  BY <1>1, TurnoDeEtapa
<1>3. lbl'["RE"] = lbl["RE"]
  BY <1>1 DEF Ir, Terminar, anillo
<1>4. ~EnPleno'
  BY <1>2, <1>3 DEF EnPleno, HilosEnCiclo, barrera, Avisando
<1>5. PorAtender => HaciaERM'
  <2>1. CASE UNCHANGED anillo
    BY <2>1 DEF anillo, HaciaERM, Trabaja
  <2>2. ASSUME NEW l \in Rotulos \ {"espera"}, NEW t, Ir(e, l, t) PROVE HaciaERM'
    <3>1. lbl'[e] # "espera"
      BY <1>1, <2>2 DEF Ir
    <3> QED BY <3>1 DEF HaciaERM, Trabaja
  <2>3. ASSUME NEW s \in {"EaX", "BLOCKIO", "ERM"}, Terminar(e, s) PROVE HaciaERM'
    <3>1. sem'[s] > 0
      BY <1>1, <2>3 DEF Terminar
    <3> QED BY <3>1 DEF HaciaERM
  <2> QED BY <2>1, <2>2, <2>3 DEF ATiempo
<1> QED BY <1>4, <1>5, ATiempoSigue DEF PorAtender

(* The steps of the stages but for Exec->BloqEmer. *)
LEMMA ATiempoTrabajar ==
  ASSUME Base, ATiempo,
         \/ NewReady \/ BloqIO \/ ReadyExec \/ (\E e \in Recorridos : RecorreExec(e)) \/ EXIT_Cerrar \/ AReady
  PROVE  ATiempo'
<1>1. Tipos /\ Ficha
  BY DEF Base, TurnoOK
<1>2. ASSUME NEW e \in {"NR", "EBIO", "RE", "MR", "EXIT"}, Trabaja(e), e = "RE" => ~Avisando,
             PorAtender' => PorAtender
      PROVE  ATiempo'
  BY <1>1, <1>2, LejosDeERM DEF ATiempo
<1>3. CASE NewReady \/ EXIT_Cerrar
  <2>1. sab' = sab
    BY <1>3 DEF NewReady, NR_Entra, NR_IniciarPatota, NR_PrimeraTarea, NR_SinPatotas,
       NR_Sacar, NR_Poner, NR_Fin, EXIT_Cerrar, sabotaje
  <2>2. Trabaja("NR") \/ Trabaja("EXIT")
    BY <1>3, SigueNewReady DEF EXIT_Cerrar, En, Trabaja
  <2> QED BY <1>2, <2>1, <2>2 DEF PorAtender
<1>4. CASE AReady
  <2>1. sab' = sab \/ sab' = [sab EXCEPT !.activado = FALSE]
    BY <1>4 DEF AReady, MR_Entra, MR_Sacar, MR_Poner, MR_Resolver, sabotaje
  <2>2. sab'.primer = sab.primer /\ sab'.terminado = sab.terminado /\ sab'.ciclos = sab.ciclos
    BY <1>1, <2>1 DEF Tipos, TipoSabotaje, Sabotajes
  <2> QED BY <1>2, <1>4, <2>2, SigueAReady DEF PorAtender
<1>5. CASE ReadyExec
  <2>1. sab' = sab
    BY <1>5 DEF ReadyExec, RE_Entra, RE_Sacar, RE_Poner, RE_Lleno, RE_Contar, RE_Empezar, RE_Avisar,
       VisitarLiberado, sabotaje
  <2>2. CASE RE_Entra \/ RE_Sacar \/ RE_Poner \/ RE_Lleno \/ RE_Contar \/ RE_Empezar
    <3>1. Trabaja("RE") /\ ~Avisando
      BY <2>2 DEF RE_Entra, RE_Sacar, RE_Poner, RE_Lleno, RE_Contar, RE_Empezar, En, Trabaja, Avisando
    <3> QED BY <1>2, <2>1, <3>1 DEF PorAtender
  <2>3. CASE RE_Avisar
    <3> DEFINE t == actual["RE"]
    <3>1. Avisando /\ UNCHANGED <<cola, tcb, hilo>> /\ semT' = [semT EXCEPT ![t] = @ + 1] /\ Esta("exec", t)
      BY <2>3 DEF RE_Avisar, En, Avisando
    <3>2. t \in Trips /\ semT \in [Trips -> Nat]
      BY <1>1, <3>1 DEF Base, TurnoOK, Cuenta, AvisaAUno, Tipos, TipoBarrera
    <3> HIDE DEF t
    <3>3. semT'[t] > 0
      BY <3>1, <3>2
    <3>4. EnPleno /\ EnPleno'
      BY <3>1, <3>2, <3>3 DEF EnPleno, HilosEnCiclo
    <3>5. Hechos' = Hechos
      BY <3>1 DEF Hechos, Esta
    <3> QED BY <1>1, <2>1, <3>4, <3>5, ATiempoSigue DEF PorAtender
  <2>4. CASE VisitarLiberado("RE")
    <3>1. UNCHANGED <<lbl, sem, semT, hilo, contador, cola, tcb>>
      BY <2>4 DEF VisitarLiberado, anillo, barrera
    <3>2. EnPleno' = EnPleno /\ HaciaERM' = HaciaERM /\ Hechos' = Hechos
      BY <3>1 DEF EnPleno, HilosEnCiclo, Avisando, HaciaERM, Trabaja, Hechos, Esta
    <3> QED BY <1>1, <2>1, <3>2, ATiempoSigue DEF PorAtender, ATiempo
  <2> QED BY <1>5, <2>2, <2>3, <2>4 DEF ReadyExec
<1>6. ASSUME NEW e \in Recorridos, RecorreExec(e) PROVE ATiempo'
  <2>1. sab' = sab /\ UNCHANGED barrera /\ Trabaja(e)
    BY <1>6, SigueRecorreExec DEF RecorreExec, Recorrer, Visitar, VisitarLiberado, sabotaje
  <2>2. CASE e = "EBIO"
    BY <1>2, <2>1, <2>2 DEF PorAtender
  <2>3. CASE e \in {"ER", "EaX"}
    <3>1. Proximo[e] \in {"EaX", "BLOCKIO"}
      BY <2>3 DEF Proximo
    <3>2. UNCHANGED anillo \/ (\E t : Ir(e, "recorre", t)) \/ Terminar(e, Proximo[e])
      BY <1>6 DEF RecorreExec, Recorrer, Visitar, Avanzar, VisitarLiberado
    <3> QED BY <1>1, <2>1, <2>3, <3>1, <3>2, ATiempoEtapa DEF Rotulos
  <2> QED BY <2>2, <2>3 DEF Recorridos
<1>7. CASE BloqIO
  <2>1. sab' = sab /\ UNCHANGED barrera /\ Trabaja("BLOCKIO")
    BY <1>7, SigueBloqIO DEF BloqIO, BIO_Entra, BIO_Contar, BIO_Pedir, BIO_Salir, sabotaje
  <2>2. \/ UNCHANGED anillo
        \/ \E l \in {"contar", "salir", "pedir"} : \E t : Ir("BLOCKIO", l, t)
        \/ Terminar("BLOCKIO", "ERM")
        \/ ~sab.activado /\ Terminar("BLOCKIO", "EXIT")
    BY <1>7 DEF BloqIO, BIO_Entra, BIO_Contar, BIO_Pedir, BIO_Salir
  <2> QED BY <1>1, <2>1, <2>2, ATiempoEtapa DEF Rotulos
<1> QED BY <1>3, <1>4, <1>5, <1>6, <1>7

(* The steps of Exec->BloqEmer: whoever is taken out as the fixer is one.   *)
LEMMA ATiempoAEmergencia ==
  ASSUME Duracion > Grado, Base, Atendido, ATiempo, Devolucion, AEmergencia PROVE ATiempo' /\ Devolucion'
<1>1. /\ lbl \in [Etapas -> Rotulos] /\ sab \in Sabotajes /\ "ERM" \in Etapas /\ "RE" \in Etapas /\ "MR" \in Etapas
      /\ sem \in [Etapas \cup {"pausar"} -> Nat] /\ Ficha /\ Grado \in Nat /\ Duracion \in Nat
  BY ConstantesOK DEF Base, Tipos, AnilloOK, TipoAnillo, TipoSabotaje, Etapas, TurnoOK
<1>2. Trabaja("ERM") /\ UNCHANGED barrera /\ viva
  BY <1>1, SigueAEmergencia, TurnoDeEtapa
<1>3. /\ HilosEnCiclo = {} /\ contador = 0 /\ lbl["RE"] = "espera" /\ lbl["MR"] = "espera" /\ sem["MR"] = 0
  BY <1>1, <1>2, TurnoDeEtapa DEF Trabaja, NadaPuesto, SemTurno
<1>4. lbl'["RE"] = lbl["RE"]
  BY <1>1, SigueAEmergencia DEF SigueEtapa, Ir, Terminar, anillo
<1>5. ~EnPleno'
  BY <1>2, <1>3, <1>4 DEF EnPleno, HilosEnCiclo, barrera, Avisando
<1>6. /\ lbl["ERM"] \in {"sacarFixer", "restaurar"} => (~sab.terminado => sab.ciclos = 0)
      /\ lbl["ERM"] = "sacarFixer" /\ caida = "no" => sab.primer
      /\ lbl["ERM"] = "restaurar" => ctx # <<>>
  BY DEF Devolucion
<1>7. ASSUME ~PorAtender' PROVE ATiempo'
  BY <1>7 DEF ATiempo
<1>8. ASSUME sab' = sab, lbl'["ERM"] # "espera" PROVE ATiempo'
  BY <1>5, <1>8 DEF ATiempo, PorAtender, HaciaERM, Trabaja
<1>9. CASE ERM_Entra
  <2>1. sab.activado => ~sab.terminado
    BY <1>3, <1>9 DEF ERM_Entra, En, Atendido, Fases, Trabaja
  <2>2. PorAtender => sab.ciclos <= Grado /\ sab.activado
    BY DEF ATiempo
  <2>3. CASE sab.activado /\ viva /\ SabotajeReparado /\ sab' = [sab EXCEPT !.terminado = TRUE] /\ Ir("ERM", "sacarFixer", Nadie)
    <3>1. sab.primer
      BY <1>1, <2>1, <2>2, <2>3 DEF PorAtender, SabotajeReparado, Sabotajes
    <3>2. sab'.terminado /\ sab'.primer /\ lbl'["ERM"] = "sacarFixer"
      BY <1>1, <2>3, <3>1 DEF Sabotajes, Ir
    <3> QED BY <1>7, <3>2 DEF PorAtender, Devolucion
  <2>4. CASE sab' = sab /\ Ir("ERM", "vaciar", Nadie)
    BY <1>1, <1>8, <2>4 DEF Ir, Devolucion
  <2>5. CASE (~(sab.activado /\ viva) \/ (~SabotajeReparado /\ sab.primer)) /\ Terminar("ERM", "MR") /\ sab' = sab
    BY <1>1, <1>2, <1>7, <2>2, <2>5 DEF Terminar, PorAtender, Devolucion
  <2> QED BY <1>9, <2>3, <2>4, <2>5 DEF ERM_Entra
<1>10. CASE ERM_SacarFixer
  <2>1. sab.primer /\ lbl["ERM"] = "sacarFixer" /\ (~sab.terminado => sab.ciclos = 0) /\ ctx # <<>>
    BY <1>6, <1>10 DEF ERM_SacarFixer, En, Atendido, UnContexto
  <2>2. sab'.terminado = sab.terminado /\ sab'.ciclos = sab.ciclos /\ ctx' = ctx
    BY <1>1, <1>10 DEF ERM_SacarFixer, Sabotajes
  <2>3. lbl'["ERM"] = "restaurar" \/ caida' # "no"
    BY <1>1, <1>10 DEF ERM_SacarFixer, Ir, Cae
  <2>4. ~PorAtender'
    BY <1>1, <2>1, <2>2 DEF PorAtender, Sabotajes
  <2>5. lbl'["ERM"] \in {"restaurar", "sacarFixer"}
    BY <1>1, <1>10, <2>1 DEF ERM_SacarFixer, Ir, anillo
  <2> QED BY <1>7, <2>1, <2>2, <2>3, <2>4, <2>5 DEF Devolucion
<1>11. CASE ERM_Restaurar
  <2>1. lbl["ERM"] = "restaurar" /\ sab' = sab
    BY <1>11 DEF ERM_Restaurar, En
  <2>2. ctx # <<>> /\ (~sab.terminado => sab.ciclos = 0)
    BY <1>6, <2>1
  <2>3. lbl'["ERM"] = "espera"
    BY <1>1, <1>11, <2>2 DEF ERM_Restaurar, Terminar
  <2>4. ~PorAtender'
    BY <1>1, <2>1, <2>2 DEF PorAtender, Sabotajes
  <2> QED BY <1>7, <2>3, <2>4 DEF Devolucion
<1>12. CASE ERM_Sacar \/ ERM_Poner
  <2>1. sab' = sab /\ lbl'["ERM"] \in {"poner", "vaciar"}
    BY <1>1, <1>12 DEF ERM_Sacar, ERM_Poner, Ir, sabotaje
  <2> QED BY <1>8, <2>1 DEF Devolucion
<1>13. CASE ERM_Elegir
  <2>1. CASE sab' = [sab EXCEPT !.primer = TRUE] /\ Terminar("ERM", "MR")
    <3>1. sab'.primer /\ lbl'["ERM"] = "espera"
      BY <1>1, <2>1 DEF Sabotajes, Terminar
    <3> QED BY <1>7, <3>1 DEF PorAtender, Devolucion
  <2>2. CASE UNCHANGED <<sab, anillo>>
    <3>1. lbl'["ERM"] = "vaciar"
      BY <1>13, <2>2 DEF ERM_Elegir, En, anillo
    <3> QED BY <1>8, <2>2, <3>1 DEF Devolucion
  <2> QED BY <1>13, <2>1, <2>2 DEF ERM_Elegir
<1> QED BY <1>9, <1>10, <1>11, <1>12, <1>13 DEF AEmergencia

(* The cycles of the sabotage are counted by who repairs it and set to 0 by *)
(* the handler of the server; those two, and no other but the stage that    *)
(* chooses the fixer, change what PorAtender speaks of.                     *)
LEMMA QuienCuenta ==
  ASSUME Tipos, [Next]_vars, ~AEmergencia, ~SAB_Datos, \A t \in Trips : ~Reparar(t)
  PROVE  sab'.terminado = sab.terminado /\ sab'.ciclos = sab.ciclos
<1>1. sab \in Sabotajes
  BY DEF Tipos, TipoSabotaje
<1>2. CASE sab' = sab
  BY <1>2
<1>3. CASE \E k \in BOOLEAN : sab' = [sab EXCEPT !.activado = k]
  BY <1>1, <1>3 DEF Sabotajes
<1>4. CASE NewReady \/ (\E e \in Recorridos : RecorreExec(e)) \/ BloqIO
  BY <1>2, <1>4 DEF NewReady, NR_Entra, NR_IniciarPatota, NR_PrimeraTarea, NR_SinPatotas, NR_Sacar,
     NR_Poner, NR_Fin, RecorreExec, Recorrer, Visitar, VisitarLiberado, BloqIO, BIO_Entra, BIO_Contar,
     BIO_Pedir, BIO_Salir, sabotaje
<1>5. CASE ReadyExec \/ EXIT_Cerrar \/ TomarPausar \/ \E e \in Etapas : Despertar(e)
  BY <1>2, <1>5 DEF ReadyExec, RE_Entra, RE_Sacar, RE_Poner, RE_Lleno, RE_Contar, RE_Empezar, RE_Avisar,
     VisitarLiberado, EXIT_Cerrar, TomarPausar, Despertar, sabotaje
<1>6. CASE AReady \/ SAB_Activar
  BY <1>2, <1>3, <1>6 DEF AReady, MR_Entra, MR_Sacar, MR_Poner, MR_Resolver, SAB_Activar, sabotaje
<1>7. CASE \E t \in Trips : Hilo(t)
  BY <1>2, <1>7 DEF Hilo, Tomar, Actuar, LlegarAlSabotaje, Signal, sabotaje
<1>8. CASE FuncionConsola
  BY <1>2, <1>8 DEF FuncionConsola, IniciarPlanificacion, PausarPlanificacion, IniciarPatota,
     ExpulsarTripulante, SeguirExpulsion, INI_Pausar, INI_Turno, PAU_Pedir, PAU_Tomar, PAT_Crear,
     PAT_Listar, PAT_New, PAT_Hilo, EXP_RAM, EXP_Estado, EXP_Buscar, EXP_Extraer, EXP_Extraido,
     EXP_Patota, sabotaje
<1>9. CASE UNCHANGED vars
  BY <1>2, <1>9 DEF vars, sabotaje
<1> QED BY <1>4, <1>5, <1>6, <1>7, <1>8, <1>9 DEF Next

(* While the fixer is taken out nobody works, and so nobody counts.         *)
LEMMA DevolucionResto ==
  ASSUME Base, Devolucion, [Next]_vars, ~AEmergencia PROVE Devolucion'
<1>1. Tipos /\ Ficha /\ "ERM" \in Etapas /\ "ERM" # "RE" /\ sab \in Sabotajes
  BY DEF Base, TurnoOK, Etapas, Tipos, TipoSabotaje
<1>2. CASE lbl'["ERM"] = "entra"
  BY <1>2 DEF Devolucion
<1>3. CASE lbl'["ERM"] = lbl["ERM"] /\ lbl["ERM"] \in {"sacarFixer", "restaurar"}
  <2>1. NadieActua
    BY <1>1, <1>3, EtapaSola DEF Trabaja
  <2>2. \A t \in Trips : ~Reparar(t)
    BY <1>1, <2>1, ActuaEnCiclo DEF Reparar, EnHilo, Actua
  <2>3. (sab'.terminado = sab.terminado /\ sab'.ciclos = sab.ciclos) \/ sab'.ciclos = 0
    <3>1. CASE SAB_Datos
      BY <1>1, <3>1 DEF SAB_Datos, Sabotajes
    <3> QED BY <1>1, <2>2, <3>1, QuienCuenta
  <2>4. ctx' = ctx /\ sab'.primer = sab.primer
    BY <1>1, FueraDeAEmergencia
  <2>5. caida' = "no" => caida = "no"
    BY NadaTrasCaer DEF vars
  <2> QED BY <1>3, <2>3, <2>4, <2>5 DEF Devolucion
<1>4. CASE lbl'["ERM"] = lbl["ERM"] /\ lbl["ERM"] \notin {"sacarFixer", "restaurar"}
  BY <1>4 DEF Devolucion
<1> QED BY <1>1, <1>2, <1>3, <1>4, FueraDeAEmergencia

(* A thread at work keeps the cycle going; one that repairs the sabotage is *)
(* marked with the cycle it counts.                                         *)
LEMMA ATiempoObra ==
  ASSUME Base, Base', GradoOK', ATiempo, CicloEnExec, UnaVezPorCiclo, NEW t \in Trips,
         Tomar(t) \/ Actuar(t) \/ LlegarAlSabotaje(t) \/ Reparar(t)
  PROVE  ATiempo'
<1>1. /\ hilo \in [Trips -> Hilos] /\ tcb \in [Trips -> TCB] /\ sab \in Sabotajes /\ Tipos /\ Tipos' /\ LugarOK'
      /\ Grado \in Nat
  BY ConstantesOK DEF Base, Tipos, TipoBarrera, TipoTCB, TipoSabotaje
<1>2. EnPleno' = EnPleno
  <2>1. CicloQuieto
    BY CicloHilo DEF Base, TurnoOK
  <2>2. lbl' = lbl
    BY DEF Tomar, Actuar, LlegarAlSabotaje, Reparar, anillo
  <2> QED BY <2>1, <2>2 DEF CicloQuieto, EnPleno, Avisando
<1>3. HaciaERM' = HaciaERM
  BY DEF Tomar, Actuar, LlegarAlSabotaje, Reparar, anillo, HaciaERM, Trabaja
<1>4. cola' = cola /\ \A u \in Trips \ {t} : tcb'[u] = tcb[u]
  BY <1>1 DEF Tomar, Actuar, LlegarAlSabotaje, Reparar, IrAlSabotaje, TareaNormal, TareaIO
<1>5. CASE ~Reparar(t)
  <2>1. tcb'[t].cumplido = tcb[t].cumplido \/ tcb'[t].cumplido \/ Actua(t)
    BY <1>1, <1>5 DEF Tomar, LlegarAlSabotaje, Actuar, EnHilo, Actua, TCB
  <2>2. Hechos \subseteq Hechos'
    BY <1>4, <2>1 DEF Hechos, Esta, UnaVezPorCiclo
  <2>3. sab' = sab
    BY <1>5 DEF Tomar, Actuar, LlegarAlSabotaje, sabotaje
  <2> QED BY <1>1, <1>2, <1>3, <2>2, <2>3, ATiempoSigue DEF PorAtender, ATiempo
<1>6. CASE Reparar(t)
  <2> SUFFICES ASSUME PorAtender' PROVE ATiempo'
    BY DEF ATiempo
  <2>1. sab' = [sab EXCEPT !.ciclos = @ + 1] /\ hilo[t] = "repara"
    BY <1>6 DEF Reparar, EnHilo
  <2>2. /\ sab'.ciclos = sab.ciclos + 1 /\ sab'.activado = sab.activado /\ sab'.primer = sab.primer
        /\ sab'.terminado = sab.terminado /\ sab.ciclos \in Nat
    BY <1>1, <2>1 DEF Sabotajes
  <2>3. sab.activado /\ EnCiclo(t) /\ Ocupa("exec", t) /\ ~tcb[t].cumplido
    BY <2>1 DEF UnaVezPorCiclo, Actua, CicloEnExec, EnCiclo, EnObra
  <2>4. EnPleno
    BY <2>3 DEF EnPleno, HilosEnCiclo, EnCiclo, EnObra
  <2>5. t \notin Hechos /\ Esta("exec", t)
    BY <2>3 DEF Hechos, Ocupa, Colas, Etapas
  <2>6. tcb'[t].cumplido
    BY <1>1, <1>6 DEF Reparar, Preemptar, Cumplio, TCB
  <2>7. Hechos' = Hechos \cup {t}
    BY <1>4, <2>5, <2>6 DEF Hechos, Esta
  <2>8. IsFiniteSet(Hechos) /\ Cardinality(Hechos) \in Nat
    BY ConstantesOK, FS_Subset, FS_CardinalityType DEF Hechos
  <2>9. Cardinality(Hechos') = Cardinality(Hechos) + 1
    BY <2>5, <2>7, <2>8, FS_AddElement
  <2>10. sab.ciclos <= Cardinality(Hechos)
    <3>1. CASE sab.ciclos > 0
      BY <2>2, <2>4, <3>1 DEF ATiempo, PorAtender
    <3> QED BY <2>2, <2>8, <3>1
  <2>11. Cardinality(Hechos') <= Len(cola'["exec"]) /\ Cardinality(Hechos') \in Nat /\ Len(cola'["exec"]) \in Nat
    <3>1. cola'["exec"] \in Seq(Trips) /\ NoRepite(cola'["exec"])
      BY <1>1 DEF Tipos, TipoColas, Colas, LugarOK, SinRepetir
    <3>2. Hechos' \in SUBSET {u \in Trips : Contains(cola'["exec"], u)}
      BY DEF Hechos, Esta
    <3> QED BY <3>1, <3>2, HechosCaben
  <2>12. Len(cola'["exec"]) <= Grado
    BY DEF GradoOK
  <2>13. sab'.ciclos <= Cardinality(Hechos')
    BY <2>2, <2>8, <2>9, <2>10
  <2>14. sab'.ciclos <= Grado
    BY <1>1, <2>2, <2>11, <2>12, <2>13
  <2> QED BY <1>2, <2>2, <2>3, <2>4, <2>13, <2>14 DEF ATiempo
<1> QED BY <1>5, <1>6

(* The last one to signal passes the turn to the stages on the way.         *)
LEMMA ATiempoSignal ==
  ASSUME Tipos, ATiempo, NEW t \in Trips, Signal(t) PROVE ATiempo'
<1>1. /\ hilo \in [Trips -> Hilos] /\ sem \in [Etapas \cup {"pausar"} -> Nat] /\ contador \in Nat
      /\ "ER" \in Etapas
  BY DEF Tipos, TipoBarrera, AnilloOK, TipoAnillo, Etapas
<1>2. UNCHANGED <<lbl, semT, cola, tcb, sab>>
  BY DEF Signal, sabotaje
<1>3. hilo[t] \in {"senal", "adios"}
  BY DEF Signal, EnHilo
<1>4. Hechos' = Hechos /\ EnPleno
  BY <1>2, <1>3 DEF Hechos, Esta, EnPleno, HilosEnCiclo
<1>5. EnPleno' \/ HaciaERM'
  <2>1. CASE Ultimo
    <3>1. sem'["ER"] > 0
      BY <1>1, <2>1 DEF Signal
    <3> QED BY <3>1 DEF HaciaERM
  <2>2. CASE ~Ultimo
    <3>1. contador' # 0
      BY <1>1, <2>2 DEF Signal
    <3> QED BY <3>1 DEF EnPleno
  <2> QED BY <2>1, <2>2
<1> QED BY <1>2, <1>4, <1>5, ATiempoSigue DEF PorAtender

(* The console, the handler of the server, and a stage that takes the turn. *)
LEMMA ATiempoFuera ==
  ASSUME Base, SinExpulsion, MaxSabotajes <= 1, Avisado, ATiempo,
         \/ TomarPausar \/ (\E e \in Etapas : Despertar(e)) \/ SAB_Activar \/ SAB_Datos
         \/ FuncionConsola \/ UNCHANGED vars
  PROVE  ATiempo'
<1>1. /\ Tipos /\ Ficha /\ sab \in Sabotajes /\ tcb \in [Trips -> TCB] /\ hilo \in [Trips -> Hilos]
      /\ lbl \in [Etapas -> Rotulos] /\ sem \in [Etapas \cup {"pausar"} -> Nat] /\ usos \in Usos
      /\ {"ER", "EaX", "BLOCKIO", "ERM", "RE", "NR"} \subseteq Etapas
  BY DEF Base, TurnoOK, Tipos, TipoSabotaje, TipoTCB, TipoBarrera, AnilloOK, TipoAnillo, ConsolaOK,
     TipoConsola, Etapas
<1>2. ASSUME sab' = sab, UNCHANGED <<lbl, HilosEnCiclo, contador>>, Hechos' = Hechos,
             \A e \in {"ER", "EaX", "BLOCKIO", "ERM"} : sem'[e] = sem[e]
      PROVE  ATiempo'
  <2>1. EnPleno' = EnPleno /\ HaciaERM' = HaciaERM
    BY <1>2 DEF EnPleno, Avisando, HaciaERM, Trabaja
  <2> QED BY <1>1, <1>2, <2>1, ATiempoSigue DEF PorAtender, ATiempo
<1>3. CASE UNCHANGED vars
  BY <1>2, <1>3 DEF vars, anillo, barrera, sabotaje, HilosEnCiclo, Hechos, Esta
<1>4. CASE TomarPausar
  <2>1. UNCHANGED <<semT, hilo, contador, cola, tcb, sab>>
    BY <1>4 DEF TomarPausar, barrera, sabotaje
  <2>2. /\ \A e \in {"ER", "EaX", "BLOCKIO", "ERM"} : sem'[e] = sem[e]
        /\ \A e \in {"ER", "EaX", "BLOCKIO", "ERM", "RE"} : lbl'[e] = lbl[e]
    BY <1>1, <1>4 DEF TomarPausar
  <2>3. EnPleno' = EnPleno /\ HaciaERM' = HaciaERM /\ Hechos' = Hechos
    BY <2>1, <2>2 DEF EnPleno, HilosEnCiclo, Avisando, HaciaERM, Trabaja, Hechos, Esta
  <2> QED BY <1>1, <2>1, <2>3, ATiempoSigue DEF PorAtender, ATiempo
<1>5. ASSUME NEW e \in Etapas, Despertar(e) PROVE ATiempo'
  <2>1. UNCHANGED <<semT, hilo, contador, cola, tcb, sab>>
    BY <1>5 DEF Despertar, barrera, sabotaje
  <2>2. /\ \A f \in {"ER", "EaX", "BLOCKIO", "ERM"} \ {e} : sem'[f] = sem[f] /\ lbl'[f] = lbl[f]
        /\ lbl'[e] = "entra"
    BY <1>1, <1>5 DEF Despertar
  <2>3. EnPleno' = EnPleno
    <3>1. ~Avisando \/ e # "RE"
      BY <1>5 DEF Despertar, En, Avisando
    <3>2. Avisando' = Avisando
      BY <1>1, <1>5, <3>1 DEF Despertar, Avisando
    <3> QED BY <2>1, <3>2 DEF EnPleno, HilosEnCiclo
  <2>4. HaciaERM => HaciaERM'
    BY <2>2 DEF HaciaERM, Trabaja
  <2>5. Hechos' = Hechos
    BY <2>1 DEF Hechos, Esta
  <2> QED BY <1>1, <2>1, <2>3, <2>4, <2>5, ATiempoSigue DEF PorAtender, ATiempo
<1>6. CASE SAB_Activar
  <2>1. usos.sabotajes = 0
    BY <1>1, <1>6, ConstantesOK DEF SAB_Activar, Usos
  <2>2. ~(sab.ciclos > 0)
    BY <2>1 DEF Avisado, Atendiendo
  <2>3. sab'.ciclos = sab.ciclos
    BY <1>1, <1>6 DEF SAB_Activar, Sabotajes
  <2> QED BY <2>2, <2>3 DEF ATiempo, PorAtender
<1>7. CASE SAB_Datos
  <2>1. sab'.ciclos = 0
    BY <1>1, <1>7 DEF SAB_Datos, Sabotajes
  <2> QED BY <2>1 DEF ATiempo, PorAtender
<1>8. CASE FuncionConsola
  <2>1. IniciarPlanificacion \/ PausarPlanificacion \/ IniciarPatota
    BY <1>8, NadieExpulsa DEF FuncionConsola
  <2>2. sab' = sab /\ lbl' = lbl /\ semT' = semT /\ contador' = contador
    BY <2>1 DEF IniciarPlanificacion, PausarPlanificacion, IniciarPatota, INI_Pausar, INI_Turno, PAU_Pedir,
       PAU_Tomar, PAT_Crear, PAT_Listar, PAT_New, PAT_Hilo, sabotaje, anillo, barrera
  <2>3. \A e \in {"ER", "EaX", "BLOCKIO", "ERM"} : sem'[e] = sem[e]
    <3>1. CASE IniciarPlanificacion \/ PausarPlanificacion
      BY <1>1, <3>1 DEF IniciarPlanificacion, PausarPlanificacion, INI_Pausar, INI_Turno, PAU_Pedir,
         PAU_Tomar, anillo
    <3>2. CASE IniciarPatota
      BY <3>2 DEF IniciarPatota, PAT_Crear, PAT_Listar, PAT_New, PAT_Hilo, anillo
    <3> QED BY <2>1, <3>1, <3>2
  <2>4. HilosEnCiclo' = HilosEnCiclo
    <3>1. CASE PAT_Hilo
      <4>1. cons.pc = "hilo" /\ hilo' = [hilo EXCEPT ![cons.t] = "espera"]
        BY <3>1 DEF PAT_Hilo, Consola, EnConsola
      <4>2. \A t \in Trips : t = cons.t => hilo[t] = "nada"
        BY <4>1 DEF Base, TurnoOK, HilosPorNacer
      <4> QED BY <1>1, <2>2, <4>1, <4>2 DEF HilosEnCiclo
    <3>2. CASE ~PAT_Hilo
      <4>1. hilo' = hilo
        BY <2>1, <3>2 DEF IniciarPlanificacion, PausarPlanificacion, IniciarPatota, INI_Pausar, INI_Turno, PAU_Pedir,
           PAU_Tomar, PAT_Crear, PAT_Listar, PAT_New, barrera
      <4> QED BY <2>2, <4>1 DEF HilosEnCiclo
    <3> QED BY <3>1, <3>2
  <2>5. Hechos' = Hechos
    <3>1. cola'["exec"] = cola["exec"]
      <4>1. CASE PAT_New
        BY <4>1 DEF PAT_New, Poner, Base, Tipos, TipoColas, Colas
      <4> QED BY <2>1, <4>1 DEF IniciarPlanificacion, PausarPlanificacion, IniciarPatota, INI_Pausar, INI_Turno,
              PAU_Pedir, PAU_Tomar, PAT_Crear, PAT_Listar, PAT_Hilo
    <3>2. \A t \in Trips : tcb'[t].cumplido = tcb[t].cumplido
      <4>1. CASE PAT_New
        <5>1. tcb' = [tcb EXCEPT ![cons.t].vivo = TRUE]
          BY <4>1 DEF PAT_New
        <5> QED BY <1>1, <5>1 DEF TCB
      <4> QED BY <2>1, <4>1 DEF IniciarPlanificacion, PausarPlanificacion, IniciarPatota, INI_Pausar, INI_Turno,
              PAU_Pedir, PAU_Tomar, PAT_Crear, PAT_Listar, PAT_Hilo
    <3> QED BY <3>1, <3>2 DEF Hechos, Esta
  <2> QED BY <1>2, <2>2, <2>3, <2>4, <2>5
<1> QED BY <1>3, <1>4, <1>5, <1>6, <1>7, <1>8

(* All of it together. *)
Repuesto == Avisado /\ Atendido /\ CicloEnExec /\ UnaVezPorCiclo /\ ATiempo /\ Devolucion
LEMMA RepuestoNext ==
  ASSUME MaxSabotajes <= 1, Duracion > Grado, SinExpulsion, Base, Base', GradoOK', Repuesto, [Next]_vars
  PROVE  Repuesto'
<1>1. Duracion > 0
  BY ConstantesOK
<1>2. Avisado' /\ Atendido' /\ CicloEnExec' /\ UnaVezPorCiclo'
  BY <1>1, AvisadoNext, AtendidoNext, CicloEnExecNext, UnaVezPorCicloNext DEF Base, Repuesto
<1>3. CASE AEmergencia
  BY <1>2, <1>3, ATiempoAEmergencia DEF Repuesto
<1>4. CASE ~AEmergencia
  <2>1. Devolucion'
    BY <1>4, DevolucionResto DEF Repuesto
  <2>2. ATiempo'
    <3>1. CASE NewReady \/ BloqIO \/ ReadyExec \/ (\E e \in Recorridos : RecorreExec(e)) \/ EXIT_Cerrar \/ AReady
      BY <3>1, ATiempoTrabajar DEF Repuesto
    <3>2. ASSUME NEW t \in Trips, Hilo(t) PROVE ATiempo'
      BY <3>2, ATiempoObra, ATiempoSignal DEF Hilo, Repuesto, Base
    <3>3. CASE \/ TomarPausar \/ (\E e \in Etapas : Despertar(e)) \/ SAB_Activar \/ SAB_Datos
               \/ FuncionConsola \/ UNCHANGED vars
      BY <3>3, ATiempoFuera DEF Repuesto
    <3> QED BY <1>4, <3>1, <3>2, <3>3 DEF Next
  <2> QED BY <1>2, <2>1, <2>2 DEF Repuesto
<1> QED BY <1>3, <1>4

LEMMA RepuestoInit == Init => Repuesto
<1> SUFFICES ASSUME Init PROVE Repuesto
  OBVIOUS
<1>1. \A t \in Trips : hilo[t] = "nada" /\ semT[t] = 0
  BY DEF Init
<1>2. ~sab.activado /\ ~sab.terminado /\ sab.ciclos = 0 /\ lbl["ERM"] = "espera"
  BY DEF Init, Etapas
<1>3. Avisado
  BY <1>1, <1>2 DEF Avisado, Atendiendo, Reparando
<1>4. CicloEnExec /\ UnaVezPorCiclo
  BY <1>1 DEF CicloEnExec, UnaVezPorCiclo, EnCiclo, EnObra, Actua
<1>5. ATiempo /\ Devolucion
  BY <1>2 DEF ATiempo, PorAtender, Devolucion
<1> QED BY <1>3, <1>4, <1>5, AtendidoInit DEF Repuesto

(* With one sabotage, a GRADO_MULTITAREA below DURACION_SABOTAJE, for every *)
(* value of the other constants and while nobody is expelled: when the      *)
(* sabotage is over there is a context to restore, that of the TCB taken.   *)
THEOREM ContextoDelFixerSiempre ==
  ASSUME MaxReinicios = 0, MaxExpulsiones = 0, MaxSabotajes <= 1, Duracion > Grado
  PROVE  Spec => []ContextoDelFixer
<1>1. SinExpulsion
  BY DEF SinExpulsion
<1>2. Base /\ Base' /\ GradoOK' /\ Repuesto /\ [Next]_vars => Repuesto'
  BY <1>1, RepuestoNext
<1>3. Base /\ GradoOK /\ [Next]_vars => GradoOK'
  BY <1>1, TiposNext, GradoNext DEF Base
<1>4. Repuesto => ContextoDelFixer
  BY DEF Repuesto, Atendido, UnContexto, Devolucion, ContextoDelFixer
<1>5. Init => GradoOK
  BY ConstantesOK DEF Init, GradoOK, Colas, Etapas
<1> QED BY BaseSiempre, RepuestoInit, <1>2, <1>3, <1>4, <1>5, PTL DEF Spec

-----------------------------------------------------------------------------
(* The process lives                                                        *)

(* What each thread trusts to find as it left it.  A patota is typed while  *)
(* nobody works: its PCB is listed, and the threads of its tripulantes      *)
(* exist, before any stage looks for them.                                  *)
EnCalma == cons.pc \in {"pcb", "new", "hilo"} => ~viva \/ pausada
Enviadas == \A p \in ToSet(buffers) : p \in listaPCB \/ (cons.pc = "pcb" /\ PatotaDe[cons.t] = p)
Conocidos == \A t \in Trips : EnAlguno(t) => Nacido(t)

(* MiRAMHQ has whoever it will be asked about.                              *)
EnCurso == {"R", "E", "I", "M"}
RAMTiene == \A t \in Trips : tcb[t].est \in EnCurso \/ EnServicio(t) => t \in enRAM

(* An iterator is at a node of its list, and so is what BloqIO looks at.    *)
EnNodo ==
  /\ lbl["RE"] # "recorre" /\ \A e \in Recorridos : lbl[e] # "avisar"
  /\ \A e \in Recorridos : lbl[e] = "recorre" => Esta("exec", actual[e])
  /\ lbl["BLOCKIO"] = "contar" => Esta("bio", actual["BLOCKIO"])
Sano == EnCalma /\ Enviadas /\ Conocidos /\ RAMTiene /\ EnNodo

(* The candidates to attend a sabotage are in BloqEmer. *)
EnBem == {t \in Trips : Esta("bem", t)}
Candidatos == /\ ordenados # <<>> => lbl["ERM"] \in {"vaciar", "poner"}
              /\ ordenados \in Seq(EnBem)

(* Only the console changes what the console keeps, and the lists of the    *)
(* patotas but for the message New->Ready takes.                            *)
LEMMA FueraDeConsola ==
  ASSUME Base, SinExpulsion, [Next]_vars
  PROVE  \/ IniciarPlanificacion \/ PausarPlanificacion \/ IniciarPatota
         \/ UNCHANGED <<cons, viva, pausada, listaPCB>> /\ (buffers' = buffers \/ NR_IniciarPatota)
<1>1. CASE NewReady
  BY <1>1 DEF NewReady, NR_Entra, NR_IniciarPatota, NR_PrimeraTarea, NR_SinPatotas, NR_Sacar, NR_Poner,
     NR_Fin, patotas, consola
<1>2. CASE (\E e \in Recorridos : RecorreExec(e)) \/ EXIT_Cerrar
  BY <1>2 DEF RecorreExec, Recorrer, Visitar, VisitarLiberado, EXIT_Cerrar, patotas, consola
<1>3. CASE ReadyExec \/ BloqIO
  BY <1>3 DEF ReadyExec, RE_Entra, RE_Sacar, RE_Poner, RE_Lleno, RE_Contar, RE_Empezar, RE_Avisar,
     VisitarLiberado, BloqIO, BIO_Entra, BIO_Contar, BIO_Pedir, BIO_Salir, patotas, consola
<1>4. CASE AEmergencia \/ AReady
  BY <1>4 DEF AEmergencia, ERM_Entra, ERM_SacarFixer, ERM_Restaurar, ERM_Sacar, ERM_Poner, ERM_Elegir,
     AReady, MR_Entra, MR_Sacar, MR_Poner, MR_Resolver, patotas, consola
<1>5. CASE TomarPausar \/ (\E e \in Etapas : Despertar(e)) \/ SAB_Activar \/ SAB_Datos \/ UNCHANGED vars
  BY <1>5 DEF TomarPausar, Despertar, SAB_Activar, SAB_Datos, vars, patotas, consola
<1>6. CASE \E t \in Trips : Hilo(t)
  BY <1>6 DEF Hilo, Tomar, Actuar, LlegarAlSabotaje, Reparar, Signal, patotas, consola
<1>7. CASE FuncionConsola
  BY <1>7, NadieExpulsa DEF FuncionConsola
<1> QED BY <1>1, <1>2, <1>3, <1>4, <1>5, <1>6, <1>7 DEF Next

(* A patota is typed from start to end while nobody works. *)
LEMMA EnCalmaNext ==
  ASSUME ~EnMarcha, Base, SinExpulsion, EnCalma, [Next]_vars PROVE EnCalma'
<1>1. cons \in Comandos
  BY DEF Base, Tipos, ConsolaOK, TipoConsola
<1>2. CASE UNCHANGED <<cons, viva, pausada>>
  BY <1>2 DEF EnCalma
<1>3. CASE IniciarPlanificacion \/ PausarPlanificacion
  BY <1>1, <1>3 DEF IniciarPlanificacion, PausarPlanificacion, INI_Pausar, INI_Turno, PAU_Pedir, PAU_Tomar,
     Consola, Comandos, EnCalma
<1>4. CASE IniciarPatota
  <2>1. viva' = viva /\ pausada' = pausada
    BY <1>4 DEF IniciarPatota, PAT_Crear, PAT_Listar, PAT_New, PAT_Hilo
  <2>2. ~viva \/ pausada
    BY <1>4 DEF IniciarPatota, PAT_Crear, PAT_Listar, PAT_New, PAT_Hilo, Consola, EnConsola, EnCalma
  <2> QED BY <2>1, <2>2 DEF EnCalma
<1> QED BY <1>2, <1>3, <1>4, FueraDeConsola

(* Every message that waits is of a patota whose PCB is listed, or is about *)
(* to be.                                                                   *)
LEMMA EnviadasNext ==
  ASSUME Base, SinExpulsion, Enviadas, [Next]_vars PROVE Enviadas'
<1>1. cons \in Comandos /\ buffers \in Seq(Patotas)
  BY DEF Base, Tipos, ConsolaOK, TipoConsola, TipoPatotas
<1>2. CASE UNCHANGED <<cons, listaPCB>> /\ (buffers' = buffers \/ NR_IniciarPatota)
  <2>1. \A p : p \in ToSet(buffers') => p \in ToSet(buffers)
    <3>1. CASE NR_IniciarPatota
      <4>1. buffers' = Tail(buffers) /\ buffers # <<>>
        BY <3>1 DEF NR_IniciarPatota
      <4> QED BY <1>1, <4>1, SinElPrimero DEF Base, EnvioOK
    <3> QED BY <1>2, <3>1
  <2> QED BY <1>2, <2>1 DEF Enviadas
<1>3. CASE IniciarPlanificacion \/ PausarPlanificacion \/ PAT_New \/ PAT_Hilo
  <2>1. cons.pc # "pcb" /\ buffers' = buffers /\ listaPCB' = listaPCB
    BY <1>3 DEF IniciarPlanificacion, PausarPlanificacion, INI_Pausar, INI_Turno, PAU_Pedir, PAU_Tomar,
       PAT_New, PAT_Hilo, Consola, EnConsola, patotas
  <2> QED BY <2>1 DEF Enviadas
<1>4. CASE PAT_Crear
  <2> PICK p \in PorCrear : /\ buffers' = Append(buffers, p) /\ listaPCB' = listaPCB /\ cons.pc = "libre"
                            /\ cons' = [cons EXCEPT !.pc = "pcb", !.t = MinTid(Miembros(p))]
    <3>1. PorCrear \subseteq Nat /\ PorCrear # {}
      BY <1>4, ConstantesOK DEF PAT_Crear, PorCrear
    <3>2. MinTid(PorCrear) \in PorCrear
      BY <3>1, MinTidPertenece
    <3> QED BY <1>4, <3>2 DEF PAT_Crear, Consola, EnConsola
  <2>1. p \in Patotas
    BY DEF PorCrear
  <2>2. cons'.pc = "pcb" /\ PatotaDe[cons'.t] = p
    <3>1. PatotaDe[MinTid(Miembros(p))] = p
      BY <2>1, PrimerTid DEF Miembros
    <3> QED BY <1>1, <3>1 DEF Comandos
  <2>3. \A q : q \in ToSet(buffers') => q \in ToSet(buffers) \/ q = p
    BY <1>1, <2>1, ConUnoMas
  <2> QED BY <2>2, <2>3 DEF Enviadas
<1>5. CASE PAT_Listar
  <2>1. buffers' = buffers /\ listaPCB' = listaPCB \cup {PatotaDe[cons.t]}
    BY <1>5 DEF PAT_Listar
  <2> QED BY <2>1 DEF Enviadas
<1> QED BY <1>2, <1>3, <1>4, <1>5, FueraDeConsola DEF IniciarPatota

(* Whoever exists for a stage goes on existing. *)
LEMMA NacidoSigue ==
  ASSUME Base, SinExpulsion, [Next]_vars, NEW t \in Trips, Nacido(t) PROVE Nacido(t)'
<1>1. hilo \in [Trips -> Hilos] /\ cons \in Comandos
  BY DEF Base, Tipos, TipoBarrera, ConsolaOK, TipoConsola
<1>2. CASE PAT_Hilo
  <2>1. cons.pc = "hilo" /\ hilo' = [hilo EXCEPT ![cons.t] = "espera"]
    BY <1>2 DEF PAT_Hilo, Consola, EnConsola
  <2> QED BY <1>1, <2>1 DEF Nacido
<1>3. CASE IniciarPlanificacion \/ PausarPlanificacion \/ PAT_Crear \/ PAT_Listar \/ PAT_New
  <2>1. cons.pc # "hilo" /\ hilo' = hilo
    BY <1>3 DEF IniciarPlanificacion, PausarPlanificacion, INI_Pausar, INI_Turno, PAU_Pedir, PAU_Tomar,
       PAT_Crear, PAT_Listar, PAT_New, Consola, EnConsola, barrera
  <2> QED BY <2>1 DEF Nacido
<1>4. CASE UNCHANGED <<cons, hilo>>
  BY <1>4 DEF Nacido
<1>5. CASE cons' = cons
  <2>1. CASE \E u \in Trips : Hilo(u)
    <3> PICK u \in Trips : Hilo(u)
      BY <2>1
    <3>1. hilo'[t] = hilo[t] \/ hilo'[t] # "nada"
      BY <1>1 DEF Hilo, Tomar, Actuar, LlegarAlSabotaje, Reparar, Signal, Sigue
    <3> QED BY <1>5, <3>1 DEF Nacido
  <2>2. CASE NewReady \/ (\E e \in Recorridos : RecorreExec(e)) \/ BloqIO \/ AEmergencia \/ AReady
    BY <1>4, <1>5, <2>2, SigueNewReady, SigueRecorreExec, SigueBloqIO, SigueAEmergencia, SigueAReady DEF barrera
  <2>3. CASE ReadyExec \/ EXIT_Cerrar
    BY <1>4, <1>5, <2>3 DEF ReadyExec, RE_Entra, RE_Sacar, RE_Poner, RE_Lleno, RE_Contar, RE_Empezar, RE_Avisar,
       VisitarLiberado, EXIT_Cerrar, barrera
  <2>4. CASE TomarPausar \/ (\E e \in Etapas : Despertar(e)) \/ SAB_Activar \/ SAB_Datos \/ UNCHANGED vars
    BY <1>4, <1>5, <2>4 DEF TomarPausar, Despertar, SAB_Activar, SAB_Datos, vars, barrera
  <2>5. CASE FuncionConsola
    BY <1>2, <1>3, <2>5, NadieExpulsa DEF FuncionConsola, IniciarPatota
  <2> QED BY <2>1, <2>2, <2>3, <2>4, <2>5 DEF Next
<1> QED BY <1>2, <1>3, <1>5, FueraDeConsola DEF IniciarPatota

(* Nobody is anywhere before INICIAR_PATOTA pushed it to New. *)
LEMMA ConocidosNext ==
  ASSUME Base, SinExpulsion, Conocidos, [Next]_vars PROVE Conocidos'
<1> SUFFICES ASSUME NEW t \in Trips, EnAlguno(t)' PROVE Nacido(t)'
  BY DEF Conocidos
<1>1. PICK l \in Lugares : Ocupa(l, t)'
  BY DEF EnAlguno
<1>2. Clase
  BY ClaseNext DEF Base
<1>3. CASE EnAlguno(t)
  BY <1>3, NacidoSigue DEF Conocidos
<1>4. CASE Nace
  <2> PICK u \in Trips : Cruza(u, "new") /\ cons'.pc = "hilo" /\ cons'.t = u
    BY <1>4 DEF Nace
  <2>1. t = u \/ EnAlguno(t)
    BY <1>1 DEF Cruza, EnAlguno
  <2> QED BY <1>3, <2>1 DEF Nacido
<1>5. ASSUME NEW u \in Trips, NEW de \in Lugares, NEW a, Ocupa(de, u), Cruza(u, a) PROVE EnAlguno(t)
  BY <1>1, <1>5 DEF Cruza, EnAlguno
<1>6. CASE ~Nace
  <2>1. {"BLOCKIO", "bem", "ERM"} \subseteq Lugares
    BY DEF Lugares, Colas, Etapas
  <2>2. CASE Quedan
    BY <1>1, <1>3, <2>2 DEF Quedan, EnAlguno
  <2>3. CASE Cambio
    BY <1>3, <1>5, <2>3 DEF Cambio, Cambia
  <2>4. CASE Devuelve \/ Elige \/ Restaura
    BY <1>3, <1>5, <2>1, <2>4 DEF Devuelve, Elige, Restaura
  <2>5. CASE Primera \/ Ciclo \/ Cierra \/ Calma
    BY <2>2, <2>5 DEF Primera, Ciclo, Cierra, Calma
  <2> QED BY <1>2, <1>6, <2>3, <2>4, <2>5 DEF Clase
<1> QED BY <1>4, <1>6

(* A tripulante gets a task by iterate_next_task alone; from then on it is  *)
(* in course until it ends.                                                 *)
LEMMA VieneDe ==
  ASSUME Base, SuEstado, SinExpulsion, [Next]_vars, NEW u \in Trips, tcb'[u].est \in EnCurso
  PROVE  tcb[u].est \in EnCurso \/ EnServicio(u)
<1>1. Calmo \/ (ActuanMenos /\ Clase)
  BY ActuaNext DEF Base
<1>2. /\ Situado(u) /\ {"ready", "RE", "bio", "BLOCKIO", "ERM", "bem", "MR"} \subseteq Lugares
      /\ Ocupa("RE", u) \/ Ocupa("ERM", u) \/ Ocupa("MR", u) \/ Ocupa("bem", u) \/ Ocupa("BLOCKIO", u) \/ Actua(u)
           => tcb[u].est \in EnCurso
  BY DEF SuEstado, Situado, EnCiclos, EnCurso, Lugares, Colas, Etapas
<1>3. ASSUME NEW t, Salvo(t), t # u PROVE tcb[u].est \in EnCurso
  BY <1>3 DEF Salvo, Intacto
<1>4. CASE Calmo \/ Calma
  BY <1>4 DEF Calmo, Calma, Intacto
<1>5. CASE Cambio
  <2> PICK t \in Trips, de \in Lugares, a \in Lugares : Cambia(t, de, a, tcb'[t].est)
    BY <1>5 DEF Cambio
  <2>1. CASE t = u
    <3>1. DeEtapa(u, de, a, tcb'[u].est) /\ Ocupa(de, u)
      BY <2>1 DEF Cambia, DeConsola, Base, TurnoOK, Cuenta, NoSePierde
    <3> QED BY <1>2, <3>1 DEF DeEtapa
  <2> QED BY <1>3, <2>1 DEF Cambia
<1>6. CASE Primera
  <2> PICK t \in Trips : caida = "no" /\ lbl["NR"] = "tareas" /\ t = actual["NR"] /\ Salvo(t)
    BY <1>6 DEF Primera
  <2>1. t \in Nat
    BY ConstantesOK
  <2>2. EnServicio(t)
    BY <2>1 DEF EnServicio
  <2> QED BY <1>3, <2>2
<1>7. CASE Devuelve \/ Elige \/ Restaura \/ Ciclo
  BY <1>2, <1>3, <1>7 DEF Devuelve, Elige, Restaura, Ciclo
<1>8. CASE Cierra
  BY <1>8 DEF Cierra
<1>9. CASE Nace
  <2> PICK t \in Trips : Salvo(t) /\ tcb'[t].est = tcb[t].est
    BY <1>9 DEF Nace
  <2> QED BY <1>3
<1> QED BY <1>1, <1>4, <1>5, <1>6, <1>7, <1>8, <1>9 DEF Clase

(* iterate_next_task goes on within the patota MiRAMHQ just accepted.       *)
LEMMA ServicioNext ==
  ASSUME Base, [Next]_vars, NEW t \in Trips, EnServicio(t)'
  PROVE  EnServicio(t) \/ t \in enRAM'
<1>1. /\ lbl \in [Etapas -> Rotulos] /\ actual \in [Etapas -> TripsONada] /\ "NR" \in Etapas /\ t \in Nat
      /\ buffers \in Seq(Patotas)
  BY ConstantesOK DEF Base, Tipos, AnilloOK, TipoAnillo, TipoPatotas, Etapas
<1>2. CASE ~NewReady
  BY <1>2, FueraDeNewReady DEF EnServicio, Base
<1>3. CASE NR_IniciarPatota
  <2> DEFINE p == Head(buffers)
  <2>1. p \in Patotas /\ lbl["NR"] = "iniciar"
    BY <1>1, <1>3 DEF NR_IniciarPatota, En
  <2>2. PatotaDe[MinTid(Miembros(p))] = p
    BY <2>1, PrimerTid DEF Miembros
  <2> HIDE DEF p
  <2>3. lbl' # lbl
    BY <2>1 DEF EnServicio
  <2>4. Ir("NR", "tareas", MinTid(Miembros(p))) /\ enRAM' = enRAM \cup Miembros(p)
    BY <1>3, <2>3 DEF NR_IniciarPatota, anillo, p
  <2>5. PatotaDe[t] = p
    BY <1>1, <2>2, <2>4 DEF EnServicio, Ir
  <2> QED BY <2>4, <2>5 DEF Miembros
<1>4. CASE NR_PrimeraTarea
  <2> DEFINE v == actual["NR"]
             u == SiguienteTid(v)
  <2>1. Ir("NR", IF u = Nadie THEN "iniciar" ELSE "tareas", u) /\ lbl["NR"] = "tareas" /\ v \in Trips
    BY <1>4 DEF NR_PrimeraTarea, En, EnTareas, Base
  <2>2. u # Nadie => u \in Trips /\ PatotaDe[u] = PatotaDe[v] /\ u > v
    BY <2>1, SiguienteDespues
  <2> HIDE DEF u
  <2>3. u # Nadie /\ actual'["NR"] = u
    BY <1>1, <2>1 DEF Ir, EnServicio
  <2>4. u \in Nat /\ v \in Nat
    BY <2>1, <2>2, <2>3, ConstantesOK
  <2>5. t >= u /\ PatotaDe[t] = PatotaDe[u]
    BY <2>3 DEF EnServicio
  <2>6. t >= v
    <3> HIDE DEF v
    <3> QED BY <1>1, <2>2, <2>3, <2>4, <2>5
  <2> QED BY <2>1, <2>2, <2>3, <2>5, <2>6 DEF EnServicio
<1>5. ~(NR_Entra \/ NR_SinPatotas \/ NR_Sacar \/ NR_Poner \/ NR_Fin)
  BY <1>1 DEF NR_Entra, NR_SinPatotas, NR_Sacar, NR_Poner, NR_Fin, Ir, Terminar, EnServicio
<1> QED BY <1>2, <1>3, <1>4, <1>5 DEF NewReady

(* MiRAMHQ drops who ended, when no patota is being served; the others it   *)
(* keeps.                                                                   *)
LEMMA RAMGuarda ==
  ASSUME Base, SinExpulsion, [Next]_vars, NEW t \in Trips, t \in enRAM
  PROVE  t \in enRAM' \/ (tcb'[t].est = "X" /\ ~EnServicio(t)')
<1>1. /\ lbl \in [Etapas -> Rotulos] /\ tcb \in [Trips -> TCB] /\ PatotaDe[t] \in Patotas
      /\ "NR" \in Etapas /\ Recorridos \subseteq Etapas \ {"NR"} /\ "EXIT" \in Etapas \ {"NR"}
  BY ConstantesOK DEF Base, Tipos, AnilloOK, TipoAnillo, TipoTCB, Etapas, Recorridos
<1>2. \A p : TodosTerminaron(p, Estados) => \A u \in Miembros(p) : tcb[u].est = "X"
  BY DEF TodosTerminaron, Estados, Miembros
<1>3. ASSUME NEW e \in Etapas \ {"NR"}, Trabaja(e), \A f \in Etapas \ {e} : lbl'[f] = lbl[f]
      PROVE  ~EnServicio(t)'
  <2>1. lbl["NR"] = "espera"
    BY <1>1, <1>3 DEF Base, TurnoOK, Ficha, Trabaja
  <2> QED BY <1>1, <1>3, <2>1 DEF EnServicio
<1>4. ASSUME NEW e \in Recorridos, RecorreExec(e) PROVE t \in enRAM' \/ (tcb'[t].est = "X" /\ ~EnServicio(t)')
  <2>1. ~EnServicio(t)'
    <3>1. Trabaja(e) /\ SigueEtapa(e)
      BY <1>4, SigueRecorreExec
    <3>2. \A f \in Etapas \ {e} : lbl'[f] = lbl[f]
      BY <1>1, <3>1 DEF SigueEtapa, Ir, Terminar, anillo
    <3> QED BY <1>1, <1>3, <3>1, <3>2
  <2>2. tcb' = tcb
    BY <1>4 DEF RecorreExec, Recorrer, Visitar, VisitarLiberado
  <2>3. t \in enRAM' \/ tcb[t].est = "X"
    <3>1. CASE Visitar(e) /\ tcb[actual[e]].est = Estado[e] /\ e = "EaX"
      <4>1. tcb[actual[e]].est = "X"
        BY <3>1 DEF Estado
      <4>2. DespedirEnRAM(actual[e])
        BY <3>1 DEF Visitar
      <4> QED BY <1>2, <4>1, <4>2 DEF DespedirEnRAM
    <3>2. CASE Visitar(e) /\ ~(tcb[actual[e]].est = Estado[e] /\ e = "EaX")
      BY <3>2 DEF Visitar
    <3> QED BY <1>4, <3>1, <3>2 DEF RecorreExec, Recorrer, VisitarLiberado, externo
  <2> QED BY <2>1, <2>2, <2>3
<1>5. CASE EXIT_Cerrar
  <2>1. ~EnServicio(t)'
    BY <1>1, <1>3, <1>5 DEF EXIT_Cerrar, En, Trabaja
  <2>2. tcb'[t].est = tcb[t].est
    BY <1>1, <1>5 DEF EXIT_Cerrar, TCB
  <2>3. t \in enRAM' \/ TodosTerminaron(PatotaDe[t], Estados)
    BY <1>5 DEF EXIT_Cerrar
  <2> QED BY <1>2, <2>1, <2>2, <2>3 DEF Miembros
<1>6. CASE NewReady \/ ReadyExec
  BY <1>6 DEF NewReady, NR_Entra, NR_IniciarPatota, NR_PrimeraTarea, NR_SinPatotas, NR_Sacar, NR_Poner, NR_Fin,
     ReadyExec, RE_Entra, RE_Sacar, RE_Poner, RE_Lleno, RE_Contar, RE_Empezar, RE_Avisar, VisitarLiberado, externo
<1>7. CASE BloqIO \/ AEmergencia \/ AReady
  BY <1>7 DEF BloqIO, BIO_Entra, BIO_Contar, BIO_Pedir, BIO_Salir, AEmergencia, ERM_Entra, ERM_SacarFixer,
     ERM_Restaurar, ERM_Sacar, ERM_Poner, ERM_Elegir, AReady, MR_Entra, MR_Sacar, MR_Poner, MR_Resolver, externo
<1>8. CASE TomarPausar \/ (\E e \in Etapas : Despertar(e)) \/ SAB_Activar \/ SAB_Datos \/ UNCHANGED vars
  BY <1>8 DEF TomarPausar, Despertar, SAB_Activar, SAB_Datos, vars, externo
<1>9. CASE \E u \in Trips : Hilo(u)
  BY <1>9 DEF Hilo, Tomar, Actuar, LlegarAlSabotaje, Reparar, Signal, externo
<1>10. CASE FuncionConsola
  BY <1>10, NadieExpulsa DEF FuncionConsola, IniciarPlanificacion, PausarPlanificacion, IniciarPatota,
     INI_Pausar, INI_Turno, PAU_Pedir, PAU_Tomar, PAT_Crear, PAT_Listar, PAT_New, PAT_Hilo, externo
<1> QED BY <1>4, <1>5, <1>6, <1>7, <1>8, <1>9, <1>10 DEF Next

(* So it has whoever it will be asked about. *)
LEMMA RAMTieneNext ==
  ASSUME Base, SuEstado, SinExpulsion, RAMTiene, [Next]_vars PROVE RAMTiene'
<1> SUFFICES ASSUME NEW t \in Trips, tcb'[t].est \in EnCurso \/ EnServicio(t)' PROVE t \in enRAM'
  BY DEF RAMTiene
<1>1. t \in enRAM \/ t \in enRAM'
  BY VieneDe, ServicioNext DEF RAMTiene
<1>2. t \in enRAM => t \in enRAM' \/ (tcb'[t].est = "X" /\ ~EnServicio(t)')
  BY RAMGuarda
<1> QED BY <1>1, <1>2 DEF EnCurso

(* A stage at work leaves where the others are as it was. *)
LEMMA QuienTrabaja ==
  ASSUME Tipos, NEW f \in Etapas, Trabajar(f)
  PROVE  Trabaja(f) /\ \A e \in Etapas \ {f} : lbl'[e] = lbl[e] /\ actual'[e] = actual[e]
<1>1. lbl \in [Etapas -> Rotulos] /\ actual \in [Etapas -> TripsONada]
  BY DEF Tipos, AnilloOK, TipoAnillo
<1>2. ASSUME Trabaja(f), SigueEtapa(f)
      PROVE  Trabaja(f) /\ \A e \in Etapas \ {f} : lbl'[e] = lbl[e] /\ actual'[e] = actual[e]
  BY <1>1, <1>2 DEF SigueEtapa, Ir, Terminar, anillo
<1>3. CASE f = "RE"
  BY <1>1, <1>3 DEF Trabajar, ReadyExec, RE_Entra, RE_Sacar, RE_Poner, RE_Lleno, RE_Contar, RE_Empezar, RE_Avisar,
     VisitarLiberado, Ir, Terminar, anillo, En, Trabaja, Recorridos
<1>4. CASE f = "EXIT"
  BY <1>1, <1>4 DEF Trabajar, EXIT_Cerrar, En, Trabaja, Recorridos
<1> QED BY <1>2, <1>3, <1>4, SigueNewReady, SigueRecorreExec, SigueBloqIO, SigueAEmergencia, SigueAReady DEF Trabajar

(* A step is of a stage at work, or moves nobody but to New and no stage    *)
(* but out of its wait.                                                     *)
LEMMA DeEtapaONo ==
  ASSUME Base, SinExpulsion, [Next]_vars
  PROVE  \/ \E f \in Etapas : Trabajar(f)
         \/ /\ \A q \in Colas \ {"new"} : cola'[q] = cola[q]
            /\ actual' = actual
            /\ \A e \in Etapas : \/ lbl'[e] = lbl[e]
                                 \/ lbl[e] \in {"espera", "turno"} /\ lbl'[e] \in {"turno", "entra"}
<1>1. lbl \in [Etapas -> Rotulos] /\ cola \in [Colas -> Seq(Trips)]
  BY DEF Base, Tipos, AnilloOK, TipoAnillo, TipoColas
<1>2. CASE TomarPausar \/ \E e \in Etapas : Despertar(e)
  BY <1>1, <1>2 DEF TomarPausar, Despertar, En
<1>3. CASE NewReady \/ (\E e \in Recorridos : RecorreExec(e)) \/ ReadyExec \/ BloqIO \/ AEmergencia \/ AReady
           \/ EXIT_Cerrar
  BY <1>3 DEF Trabajar, Etapas, Recorridos
<1>4. CASE (\E t \in Trips : Hilo(t)) \/ SAB_Activar \/ SAB_Datos \/ UNCHANGED vars
  BY <1>4 DEF Hilo, Tomar, Actuar, LlegarAlSabotaje, Reparar, Signal, SAB_Activar, SAB_Datos, vars, anillo
<1>5. CASE FuncionConsola
  BY <1>1, <1>5, NadieExpulsa DEF FuncionConsola, IniciarPlanificacion, PausarPlanificacion, IniciarPatota,
     INI_Pausar, INI_Turno, PAU_Pedir, PAU_Tomar, PAT_Crear, PAT_Listar, PAT_New, PAT_Hilo, Poner, anillo, Colas
<1> QED BY <1>2, <1>3, <1>4, <1>5 DEF Next

(* What a stage at work looks at is as it left it. *)
LEMMA EtapaQuieta ==
  ASSUME Base, SinExpulsion, [Next]_vars, NEW e \in Etapas, ~Trabajar(e)
  PROVE  /\ lbl'[e] = lbl[e] \/ (lbl[e] \in {"espera", "turno"} /\ lbl'[e] \in {"turno", "entra"})
         /\ actual'[e] = actual[e]
         /\ Trabaja(e) => \A q \in Colas \ {"new"} : cola'[q] = cola[q]
<1>1. CASE \E f \in Etapas : Trabajar(f)
  <2> PICK f \in Etapas : Trabajar(f)
    BY <1>1
  <2>1. Trabaja(f) /\ lbl'[e] = lbl[e] /\ actual'[e] = actual[e] /\ e # f
    BY QuienTrabaja DEF Base
  <2>2. ~Trabaja(e)
    BY <2>1 DEF Base, TurnoOK, Ficha
  <2> QED BY <2>1, <2>2
<1> QED BY <1>1, DeEtapaONo

(* An iterator goes from a node to the next one of the list. *)
LEMMA NodoSiguiente ==
  ASSUME Base, NEW e \in Recorridos, RecorreExec(e), lbl'[e] = "recorre", EnNodo
  PROVE  Esta("exec", actual[e])' /\ lbl'[e] # "avisar"
<1> DEFINE t == actual[e]
           s == cola["exec"]
<1>1. /\ lbl \in [Etapas -> Rotulos] /\ actual \in [Etapas -> TripsONada] /\ e \in Etapas
      /\ cola \in [Colas -> Seq(Trips)] /\ s \in Seq(Trips) /\ NoRepite(s) /\ "exec" \in Colas
  BY DEF Base, Tipos, AnilloOK, TipoAnillo, TipoColas, Etapas, Recorridos, Colas, LugarOK, SinRepetir
<1>2. CASE Recorrer(e)
  <2>1. actual'[e] = Head(s) /\ s # <<>> /\ cola' = cola
    BY <1>1, <1>2 DEF Recorrer, Ir, Terminar
  <2> QED BY <1>1, <2>1, ToSetTipo DEF Esta
<1>3. CASE Visitar(e)
  <2> DEFINE u == Siguiente(s, t)
  <2>1. Contains(s, t)
    BY <1>3 DEF Visitar, Esta
  <2>2. actual'[e] = u /\ u # Nadie
    BY <1>1, <1>3 DEF Visitar, Avanzar, Ir, Terminar
  <2>3. Contains(s, u) /\ u # t /\ u \in Trips
    BY <1>1, <2>1, <2>2, SiguienteDetras
  <2>4. cola' = cola \/ Mover("exec", Destino[e], t)
    BY <1>3 DEF Visitar
  <2>5. Destino[e] \in Colas \ {"exec"}
    BY DEF Recorridos, Destino, Colas
  <2> HIDE DEF u
  <2>6. CASE Mover("exec", Destino[e], t)
    <3>1. cola'["exec"] = Quitar(s, t)
      BY <1>1, <2>5, <2>6 DEF Mover
    <3>2. Contains(Quitar(s, t), u)
      BY <1>1, <2>1, <2>3, IndiceEnRango, SinUnoExacto DEF Quitar
    <3> QED BY <2>2, <3>1, <3>2 DEF Esta
  <2> QED BY <2>2, <2>3, <2>4, <2>6 DEF Esta
<1>4. CASE VisitarLiberado(e)
  BY <1>1, <1>4 DEF VisitarLiberado, EnNodo, En, anillo, Esta
<1> QED BY <1>2, <1>3, <1>4 DEF RecorreExec

(* Every iterator is at a node. *)
LEMMA EnNodoNext ==
  ASSUME Base, SinExpulsion, EnNodo, [Next]_vars PROVE EnNodo'
<1>1. /\ lbl \in [Etapas -> Rotulos] /\ actual \in [Etapas -> TripsONada] /\ cola \in [Colas -> Seq(Trips)]
      /\ {"RE", "BLOCKIO"} \subseteq Etapas \ Recorridos /\ Recorridos \subseteq Etapas
      /\ {"exec", "bio"} \subseteq Colas \ {"new"}
  BY DEF Base, Tipos, AnilloOK, TipoAnillo, TipoColas, Etapas, Recorridos, Colas
<1>2. lbl'["RE"] # "recorre"
  <2>1. CASE ReadyExec
    BY <1>1, <2>1 DEF EnNodo, ReadyExec, RE_Entra, RE_Sacar, RE_Poner, RE_Lleno, RE_Contar, RE_Empezar, RE_Avisar,
       VisitarLiberado, Ir, Terminar, anillo
  <2> QED BY <1>1, <2>1, EtapaQuieta DEF EnNodo, Trabajar
<1>3. ASSUME NEW e \in Recorridos
      PROVE  lbl'[e] # "avisar" /\ (lbl'[e] = "recorre" => Esta("exec", actual[e])')
  <2>1. CASE RecorreExec(e)
    <3>1. lbl'[e] # "avisar"
      BY <1>1, <2>1 DEF EnNodo, RecorreExec, Recorrer, Visitar, Avanzar, VisitarLiberado, Ir, Terminar, anillo
    <3> QED BY <2>1, <3>1, NodoSiguiente
  <2>2. CASE ~RecorreExec(e)
    <3>1. e \in Etapas /\ ~Trabajar(e)
      BY <2>2 DEF Trabajar, Recorridos, Etapas
    <3>2. /\ lbl'[e] = lbl[e] \/ lbl'[e] \in {"turno", "entra"}
          /\ actual'[e] = actual[e]
          /\ Trabaja(e) => cola'["exec"] = cola["exec"]
      BY <1>1, <3>1, EtapaQuieta
    <3> QED BY <3>2 DEF EnNodo, Trabaja, Esta
  <2> QED BY <2>1, <2>2
<1>4. lbl'["BLOCKIO"] = "contar" => Esta("bio", actual["BLOCKIO"])'
  <2>1. CASE BIO_Entra
    <3>1. lbl'["BLOCKIO"] = "contar" => actual'["BLOCKIO"] = Head(cola["bio"]) /\ cola["bio"] # <<>>
      BY <1>1, <2>1 DEF BIO_Entra, Ir
    <3>2. cola'["bio"] = cola["bio"] /\ cola["bio"] \in Seq(Trips)
      BY <1>1, <2>1 DEF BIO_Entra
    <3> QED BY <3>1, <3>2, ToSetTipo DEF Esta
  <2>2. CASE BIO_Contar
    <3>1. lbl'["BLOCKIO"] # "contar" \/ UNCHANGED <<anillo, cola>>
      BY <1>1, <2>2 DEF BIO_Contar, Ir, anillo
    <3> QED BY <3>1 DEF EnNodo, Esta, anillo
  <2>3. CASE BIO_Pedir \/ BIO_Salir
    BY <1>1, <2>3 DEF BIO_Pedir, BIO_Salir, Ir, Terminar
  <2>4. CASE ~BloqIO
    <3>1. ~Trabajar("BLOCKIO")
      BY <2>4 DEF Trabajar, Recorridos
    <3>2. /\ lbl'["BLOCKIO"] = lbl["BLOCKIO"] \/ lbl'["BLOCKIO"] \in {"turno", "entra"}
          /\ actual'["BLOCKIO"] = actual["BLOCKIO"]
          /\ Trabaja("BLOCKIO") => cola'["bio"] = cola["bio"]
      BY <1>1, <3>1, EtapaQuieta
    <3> QED BY <3>2 DEF EnNodo, Trabaja, Esta
  <2> QED BY <2>1, <2>2, <2>3, <2>4 DEF BloqIO
<1> QED BY <1>2, <1>3, <1>4 DEF EnNodo

(* The candidates stay in BloqEmer until one is chosen. *)
LEMMA CandidatosNext ==
  ASSUME Base, SinExpulsion, Candidatos, [Next]_vars PROVE Candidatos'
<1>1. /\ lbl \in [Etapas -> Rotulos] /\ actual \in [Etapas -> TripsONada] /\ cola \in [Colas -> Seq(Trips)]
      /\ "ERM" \in Etapas \ Recorridos /\ "bem" \in Colas \ {"new", "ready", "exec"}
      /\ {"ready", "exec"} \subseteq Colas
      /\ lbl["ERM"] = "poner" => actual["ERM"] \in Trips
  BY DEF Base, Tipos, AnilloOK, TipoAnillo, TipoColas, Etapas, Recorridos, Colas, ConTCB
<1>2. CASE ~AEmergencia
  <2>1. ordenados' = ordenados /\ (lbl'["ERM"] = lbl["ERM"] \/ lbl["ERM"] = "espera")
    BY <1>2, FueraDeAEmergencia DEF Base
  <2>2. ordenados # <<>> => cola'["bem"] = cola["bem"]
    <3>1. ~Trabajar("ERM")
      BY <1>2 DEF Trabajar, Recorridos
    <3> QED BY <1>1, <3>1, EtapaQuieta DEF Candidatos, Trabaja
  <2>3. ordenados # <<>> => EnBem' = EnBem
    BY <2>2 DEF EnBem, Esta
  <2>4. ordenados = <<>> => ordenados' \in Seq(EnBem')
    BY <2>1
  <2> QED BY <2>1, <2>3, <2>4 DEF Candidatos
<1>3. CASE ERM_Entra \/ ERM_SacarFixer \/ ERM_Restaurar
  <2>1. lbl["ERM"] \notin {"vaciar", "poner"} /\ ordenados' = ordenados
    BY <1>3 DEF ERM_Entra, ERM_SacarFixer, ERM_Restaurar, En
  <2>2. ordenados = <<>>
    BY <2>1 DEF Candidatos
  <2> QED BY <2>1, <2>2 DEF Candidatos
<1>4. CASE ERM_Sacar
  <2>1. ordenados' = ordenados /\ lbl'["ERM"] = "poner" /\ cola'["bem"] = cola["bem"]
    BY <1>1, <1>4 DEF ERM_Sacar, Ir, Sacar, PorVaciar, sabotaje
  <2>2. EnBem' = EnBem
    BY <2>1 DEF EnBem, Esta
  <2> QED BY <2>1, <2>2 DEF Candidatos
<1>5. CASE ERM_Poner
  <2> DEFINE t == actual["ERM"]
  <2>1. t \in Trips /\ lbl'["ERM"] = "vaciar" /\ ordenados' = InsertarOrdenado(ordenados, t)
    BY <1>1, <1>5 DEF ERM_Poner, Ir, En
  <2>2. cola'["bem"] = Append(cola["bem"], t) /\ cola["bem"] \in Seq(Trips)
    BY <1>1, <1>5 DEF ERM_Poner, Poner
  <2> HIDE DEF t
  <2>3. \A u : Contains(cola'["bem"], u) <=> Contains(cola["bem"], u) \/ u = t
    BY <2>1, <2>2, ConUnoExacto
  <2>4. EnBem \subseteq EnBem' /\ t \in EnBem'
    BY <2>1, <2>3 DEF EnBem, Esta
  <2>5. ordenados \in Seq(EnBem')
    BY <2>4 DEF Candidatos
  <2>6. InsertarOrdenado(ordenados, t) \in Seq(EnBem')
    BY <2>4, <2>5, InsertarOrdenadoTipo
  <2> QED BY <2>1, <2>6 DEF Candidatos
<1>6. CASE ERM_Elegir
  <2>1. ordenados' = <<>> \/ UNCHANGED <<ordenados, cola, anillo>>
    BY <1>6 DEF ERM_Elegir
  <2>2. CASE ordenados' = <<>>
    BY <2>2 DEF Candidatos
  <2>3. CASE UNCHANGED <<ordenados, cola, anillo>>
    BY <2>3 DEF Candidatos, EnBem, Esta, anillo
  <2> QED BY <2>1, <2>2, <2>3
<1> QED BY <1>2, <1>3, <1>4, <1>5, <1>6 DEF AEmergencia

(* Nobody types a patota while somebody works. *)
LEMMA NadieTipea ==
  ASSUME Base, EnCalma, NEW e \in Etapas, Trabaja(e) PROVE cons.pc \notin {"pcb", "new", "hilo"}
BY DEF EnCalma, Base, TurnoOK, Ficha, SinTurno

(* The stages ask MiRAMHQ about whoever it has, and look for a PCB that is  *)
(* listed, a node that is there and a semaphore that exists.                *)
LEMMA EtapaNoCae ==
  ASSUME Base, SuEstado, SinExpulsion, Sano, caida = "no",
         NewReady \/ (\E e \in Recorridos : RecorreExec(e)) \/ ReadyExec \/ BloqIO \/ AReady \/ EXIT_Cerrar
  PROVE  caida' = "no"
<1>1. /\ lbl \in [Etapas -> Rotulos] /\ cola \in [Colas -> Seq(Trips)] /\ buffers \in Seq(Patotas)
      /\ {"NR", "RE", "BLOCKIO", "MR"} \subseteq Etapas \ Colas /\ Recorridos \subseteq Etapas
      /\ {"exec", "bio"} \subseteq Colas
      /\ \A e \in Etapas : lbl[e] \in ConTCB => actual[e] \in Trips
      /\ ConTCB = {"poner", "restaurar", "pedir"}
  BY DEF Base, Tipos, AnilloOK, TipoAnillo, TipoColas, TipoPatotas, Etapas, Recorridos, Colas, ConTCB
<1>2. ASSUME NEW t \in Trips, tcb[t].est \in EnCurso, PedirRAM(t) PROVE caida' = "no"
  BY <1>2 DEF Sano, RAMTiene, PedirRAM
<1>3. CASE NewReady
  <2>1. Trabaja("NR")
    BY <1>3, SigueNewReady
  <2>2. CASE NR_IniciarPatota
    <3> DEFINE p == Head(buffers)
    <3>1. p \in ToSet(buffers)
      <4>1. buffers # <<>>
        BY <2>2 DEF NR_IniciarPatota
      <4> QED BY <1>1, <4>1, ToSetTipo, ContieneToSet
    <3>2. p \in listaPCB
      BY <1>1, <2>1, <3>1, NadieTipea DEF Sano, Enviadas
    <3> QED BY <2>2, <3>2 DEF NR_IniciarPatota
  <2>3. CASE NR_PrimeraTarea
    <3>1. actual["NR"] \in Trips /\ actual["NR"] \in Nat /\ lbl["NR"] = "tareas"
      BY <2>3, ConstantesOK DEF NR_PrimeraTarea, En, EnTareas, Base
    <3>2. EnServicio(actual["NR"])
      BY <3>1 DEF EnServicio
    <3> QED BY <2>3, <3>1, <3>2 DEF NR_PrimeraTarea, PedirRAM, Sano, RAMTiene
  <2> QED BY <1>3, <2>2, <2>3 DEF NewReady, NR_Entra, NR_SinPatotas, NR_Sacar, NR_Poner, NR_Fin
<1>4. CASE \E e \in Recorridos : RecorreExec(e)
  BY <1>4 DEF RecorreExec, Recorrer, Visitar, VisitarLiberado, En, Sano, EnNodo
<1>5. CASE ReadyExec
  <2>1. CASE RE_Poner
    <3>1. actual["RE"] \in Trips /\ Ocupa("RE", actual["RE"])
      BY <1>1, <2>1 DEF RE_Poner, En, Ocupa, EnMano
    <3>2. tcb[actual["RE"]].est \in EnCurso
      BY <3>1 DEF SuEstado, Situado, EnCurso
    <3> QED BY <1>2, <2>1, <3>1, <3>2 DEF RE_Poner
  <2>2. CASE RE_Avisar
    <3>1. Esta("exec", actual["RE"]) /\ lbl["RE"] = "avisar"
      BY <2>2 DEF RE_Avisar, En
    <3>2. actual["RE"] \in Trips
      BY <3>1 DEF Base, TurnoOK, Cuenta, AvisaAUno, Avisando
    <3>3. Nacido(actual["RE"])
      BY <1>1, <3>1, <3>2 DEF Sano, Conocidos, EnAlguno, Ocupa, Lugares
    <3>4. cons.pc # "hilo"
      BY <1>1, <3>1, NadieTipea DEF Trabaja, Sano
    <3> QED BY <2>2, <3>3, <3>4 DEF RE_Avisar, Nacido
  <2>3. CASE VisitarLiberado("RE")
    BY <2>3 DEF VisitarLiberado, En, Sano, EnNodo, Base, TurnoOK, Cuenta, NoSePierde, Avisando
  <2> QED BY <1>5, <2>1, <2>2, <2>3 DEF ReadyExec, RE_Entra, RE_Sacar, RE_Lleno, RE_Contar, RE_Empezar
<1>6. CASE BloqIO
  <2>1. CASE BIO_Contar
    <3>1. cola["bio"] # <<>>
      BY <2>1 DEF BIO_Contar, En, Sano, EnNodo, Esta, Contains
    <3> QED BY <2>1, <3>1 DEF BIO_Contar
  <2>2. CASE BIO_Pedir
    <3>1. actual["BLOCKIO"] \in Trips /\ Ocupa("BLOCKIO", actual["BLOCKIO"])
      BY <1>1, <2>2 DEF BIO_Pedir, En, Ocupa, EnMano
    <3>2. tcb[actual["BLOCKIO"]].est \in EnCurso
      BY <3>1 DEF SuEstado, Situado, EnCurso
    <3> QED BY <1>2, <2>2, <3>1, <3>2 DEF BIO_Pedir
  <2> QED BY <1>6, <2>1, <2>2 DEF BloqIO, BIO_Entra, BIO_Salir
<1>7. CASE AReady
  <2>1. CASE MR_Poner
    <3>1. actual["MR"] \in Trips /\ Ocupa("MR", actual["MR"])
      BY <1>1, <2>1 DEF MR_Poner, En, Ocupa, EnMano
    <3>2. tcb[actual["MR"]].est \in EnCurso
      BY <3>1 DEF SuEstado, Situado, EnCurso
    <3> QED BY <1>2, <2>1, <3>1, <3>2 DEF MR_Poner
  <2> QED BY <1>7, <2>1 DEF AReady, MR_Entra, MR_Sacar, MR_Resolver
<1> QED BY <1>3, <1>4, <1>5, <1>6, <1>7 DEF EXIT_Cerrar

(* So does every other thread but that of a sabotage: who is woken is in    *)
(* exec and who works is known to MiRAMHQ.                                  *)
LEMMA NoCaeNext ==
  ASSUME Base, SuEstado, SinExpulsion, CicloEnExec, Sano, [Next]_vars, caida = "no", ~AEmergencia
  PROVE  caida' = "no"
<1>1. CASE TomarPausar \/ (\E e \in Etapas : Despertar(e)) \/ SAB_Activar \/ SAB_Datos \/ UNCHANGED vars
  BY <1>1 DEF TomarPausar, Despertar, SAB_Activar, SAB_Datos, vars
<1>2. CASE FuncionConsola
  BY <1>2, NadieExpulsa DEF FuncionConsola, IniciarPlanificacion, PausarPlanificacion, IniciarPatota,
     INI_Pausar, INI_Turno, PAU_Pedir, PAU_Tomar, PAT_Crear, PAT_Listar, PAT_New, PAT_Hilo
<1>3. ASSUME NEW t \in Trips, Hilo(t) PROVE caida' = "no"
  <2>1. CASE Tomar(t)
    <3>1. Esta("exec", t)
      BY <2>1 DEF Tomar, CicloEnExec, EnCiclo, Ocupa, Colas
    <3> QED BY <2>1, <3>1 DEF Tomar
  <2>2. CASE Actuar(t) \/ Reparar(t)
    <3>1. Actua(t)
      BY <2>2 DEF Actuar, Reparar, EnHilo, Actua
    <3>2. t \in enRAM
      BY <3>1 DEF SuEstado, Situado, Sano, RAMTiene, EnCurso
    <3> QED BY <2>2, <3>2 DEF Actuar, IrAlSabotaje, TareaNormal, TareaIO, Reparar, PedirRAM
  <2> QED BY <1>3, <2>1, <2>2 DEF Hilo, LlegarAlSabotaje, Signal
<1> QED BY <1>1, <1>2, <1>3, EtapaNoCae DEF Next

(* What each thread trusts to find stays so. *)
LEMMA SanoNext ==
  ASSUME ~EnMarcha, Base, SuEstado, SinExpulsion, Sano, [Next]_vars PROVE Sano'
BY EnCalmaNext, EnviadasNext, ConocidosNext, RAMTieneNext, EnNodoNext DEF Sano

LEMMA SanoInit == Init => Sano /\ Candidatos
<1> SUFFICES ASSUME Init PROVE Sano /\ Candidatos
  OBVIOUS
<1>1. /\ \A e \in Etapas : lbl[e] = "espera"
      /\ \A q \in Colas : cola[q] = <<>>
      /\ {"NR", "RE", "BLOCKIO", "ERM"} \subseteq Etapas /\ Recorridos \subseteq Etapas
  BY DEF Init, Etapas, Recorridos
<1>2. EnCalma
  BY DEF Init, EnCalma
<1>3. Enviadas
  BY DEF Init, Enviadas, ToSet
<1>4. Conocidos
  BY <1>1 DEF Conocidos, EnAlguno, Ocupa, Lugares, EnMano, Esta, Contains
<1>5. RAMTiene
  BY <1>1 DEF Init, RAMTiene, EnCurso, EnServicio
<1>6. EnNodo
  BY <1>1 DEF EnNodo
<1>7. Candidatos
  BY DEF Init, Candidatos
<1> QED BY <1>2, <1>3, <1>4, <1>5, <1>6, <1>7 DEF Sano

(* Nor does the thread of a sabotage bring the process down, but for want   *)
(* of somebody to attend it: the fixer it takes out is in Ready or in exec, *)
(* the context it restores was saved, and who it chooses is in BloqEmer.    *)
LEMMA EmergenciaNoCae ==
  ASSUME PopNulo, Base, SuEstado, Sano, Repuesto, Candidatos, AEmergencia, caida = "no"
  PROVE  caida' \in {"no", "sinFixer"}
<1>1. /\ {"ERM", "RE"} \subseteq Etapas \ Colas /\ {"exec", "ready", "bem"} \subseteq Colas
      /\ lbl["ERM"] \in {"poner", "restaurar"} => actual["ERM"] \in Trips
  BY DEF Base, Tipos, AnilloOK, Etapas, Colas, ConTCB
<1>2. ASSUME NEW t \in Trips, tcb[t].est \in EnCurso, PedirRAM(t) PROVE caida' = "no"
  BY <1>2 DEF Sano, RAMTiene, PedirRAM
<1>3. CASE ERM_SacarFixer
  <2>1. lbl["ERM"] = "sacarFixer"
    BY <1>3 DEF ERM_SacarFixer, En
  <2>2. PICK l \in Andando : Ocupa(l, Fixer)
    BY <2>1 DEF Repuesto, Devolucion, Atendido, SuFixer
  <2>3. ~Trabaja("RE")
    BY <1>1, <2>1 DEF Base, TurnoOK, Ficha, Trabaja
  <2>4. Esta("exec", Fixer) \/ Esta("ready", Fixer)
    BY <1>1, <2>2, <2>3 DEF Andando, Ocupa, EnMano, Trabaja
  <2>5. cola["exec"] # <<>> \/ cola["ready"] # <<>>
    BY <2>4 DEF Esta, Contains
  <2> QED BY <1>3, <2>5 DEF ERM_SacarFixer
<1>4. CASE ERM_Restaurar \/ ERM_Poner
  <2>1. actual["ERM"] \in Trips /\ Ocupa("ERM", actual["ERM"])
    BY <1>1, <1>4 DEF ERM_Restaurar, ERM_Poner, En, Ocupa, EnMano
  <2>2. tcb[actual["ERM"]].est \in EnCurso
    BY <2>1 DEF SuEstado, Situado, EnCiclos, EnCurso
  <2>3. ERM_Restaurar => ctx # <<>>
    BY DEF ERM_Restaurar, En, Repuesto, Devolucion
  <2> QED BY <1>2, <1>4, <2>1, <2>2, <2>3 DEF ERM_Restaurar, ERM_Poner
<1>5. CASE ERM_Elegir
  <2>1. CASE ordenados # <<>>
    <3>1. Head(ordenados) \in EnBem
      BY <2>1 DEF Candidatos
    <3>2. Head(ordenados) \in Trips /\ Esta("bem", Head(ordenados))
      BY <3>1 DEF EnBem
    <3>3. tcb[Head(ordenados)].est \in EnCurso
      BY <1>1, <3>2 DEF SuEstado, Situado, Ocupa, EnCurso
    <3> QED BY <1>2, <1>5, <2>1, <3>2, <3>3 DEF ERM_Elegir
  <2>2. CASE ordenados = <<>>
    BY <1>5, <2>2 DEF ERM_Elegir, Cae
  <2> QED BY <2>1, <2>2
<1> QED BY <1>3, <1>4, <1>5 DEF AEmergencia, ERM_Entra, ERM_Sacar

(* With one sabotage, a GRADO_MULTITAREA below DURACION_SABOTAJE and a      *)
(* queue_pop that tells an empty queue, while nobody is expelled and every  *)
(* patota is typed with the planning stopped, for every value of the other  *)
(* constants: the process goes down for want of a fixer, or not at all.     *)
THEOREM SoloSinFixerSiempre ==
  ASSUME MaxReinicios = 0, MaxExpulsiones = 0, MaxSabotajes <= 1, Duracion > Grado, PopNulo, ~EnMarcha
  PROVE  Spec => []SoloSinFixer
<1> DEFINE Vive == GradoOK /\ Repuesto /\ SuEstado /\ Sano /\ Candidatos /\ SoloSinFixer
<1>1. SinExpulsion
  BY DEF SinExpulsion
<1>2. Base /\ Base' /\ Vive /\ [Next]_vars => Vive'
  <2> SUFFICES ASSUME Base, Base', Vive, [Next]_vars PROVE Vive'
    OBVIOUS
  <2>1. GradoOK'
    BY <1>1, GradoNext DEF Base
  <2>2. Repuesto'
    BY <1>1, <2>1, RepuestoNext
  <2>3. SuEstado' /\ Sano' /\ Candidatos'
    BY <1>1, SuEstadoNext, SanoNext, CandidatosNext
  <2>4. SoloSinFixer'
    <3>1. CASE caida # "no"
      BY <3>1, NadaTrasCaer DEF SoloSinFixer, vars
    <3>2. CASE caida = "no" /\ AEmergencia
      BY <3>2, EmergenciaNoCae DEF SoloSinFixer
    <3>3. CASE caida = "no" /\ ~AEmergencia
      BY <1>1, <3>3, NoCaeNext DEF SoloSinFixer, Repuesto
    <3> QED BY <3>1, <3>2, <3>3
  <2> QED BY <2>1, <2>2, <2>3, <2>4
<1>3. Init => Vive
  <2>1. Init => GradoOK /\ SoloSinFixer
    BY ConstantesOK DEF Init, GradoOK, Colas, Etapas, SoloSinFixer
  <2> QED BY <2>1, RepuestoInit, SuEstadoInit, SanoInit
<1>4. Vive => SoloSinFixer
  OBVIOUS
<1> HIDE DEF Vive
<1> QED BY BaseSiempre, <1>2, <1>3, <1>4, PTL DEF Spec

(* Without sabotages, while nobody is expelled and every patota is typed    *)
(* with the planning stopped, for every value of the other constants: no    *)
(* thread of Discordiador dereferences NULL or a freed node, and MiRAMHQ is *)
(* never asked about somebody it dropped.                                   *)
THEOREM NoCaeSiempre ==
  ASSUME MaxReinicios = 0, MaxExpulsiones = 0, MaxSabotajes = 0, ~EnMarcha
  PROVE  Spec => []NoCae
<1> DEFINE Vive == SuEstado /\ Sano /\ CicloEnExec /\ SinSabotaje /\ NoCae
<1>1. SinExpulsion
  BY DEF SinExpulsion
<1>2. Base /\ Base' /\ Vive /\ [Next]_vars => Vive'
  <2> SUFFICES ASSUME Base, Base', Vive, [Next]_vars PROVE Vive'
    OBVIOUS
  <2>1. SuEstado' /\ Sano'
    BY <1>1, SuEstadoNext, SanoNext
  <2>2. CicloEnExec' /\ SinSabotaje'
    BY <1>1, CicloEnExecNext, SinSabotajeNext DEF Base
  <2>3. NoCae'
    <3>1. CASE AEmergencia
      BY <3>1 DEF AEmergencia, ERM_Entra, ERM_SacarFixer, ERM_Restaurar, ERM_Sacar, ERM_Poner, ERM_Elegir, En,
         SinSabotaje, NoCae
    <3>2. CASE ~AEmergencia
      BY <1>1, <3>2, NoCaeNext DEF NoCae
    <3> QED BY <3>1, <3>2
  <2> QED BY <2>1, <2>2, <2>3
<1>3. Init => Vive
  <2>1. Init => NoCae /\ SinSabotaje
    BY DEF Init, NoCae, SinSabotaje, Etapas
  <2> QED BY <2>1, RepuestoInit, SuEstadoInit, SanoInit DEF Repuesto
<1>4. Vive => NoCae
  OBVIOUS
<1> HIDE DEF Vive
<1> QED BY BaseSiempre, <1>2, <1>3, <1>4, PTL DEF Spec
===============================================================================
