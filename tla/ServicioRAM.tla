----------------------------- MODULE ServicioRAM -----------------------------
(***************************************************************************)
(* What MiRAMHQ promises to Discordiador, whatever its memory scheme: once *)
(* a patota was answered SUCCESS, each of its tripulantes gets the tasks   *)
(* of the patota in order, each once, and then that there are no more,     *)
(* until Discordiador itself drops it.  Only a request about somebody who  *)
(* was dropped may take the process down.  Segments, pages, holes, swap    *)
(* and compaction are not seen from here.                                  *)
(***************************************************************************)
EXTENDS Integers, Sequences

CONSTANTS Trips, Patotas, PatotaDe, Tareas, Nadie

VARIABLES
  sirve,      \* the process is up
  alta,       \* patotas answered SUCCESS
  bajas,      \* tripulantes that Discordiador expelled, or whose patota it eliminated
  entregadas, \* how many tasks each of the others was given
  respuesta   \* the answer not taken yet: to whom, and which task (<<>> is "sin tareas")

vars == <<sirve, alta, bajas, entregadas, respuesta>>
SinTareas == <<>>
SinRespuesta == [a |-> Nadie, tarea |-> SinTareas]
Ninguna == [t \in Trips |-> 0]
Adentro(t) == sirve /\ PatotaDe[t] \in alta /\ t \notin bajas

Init == /\ sirve = TRUE /\ alta = {} /\ bajas = {}
        /\ entregadas = Ninguna /\ respuesta = SinRespuesta

Tomada == respuesta' = SinRespuesta

Tomar == Tomada /\ UNCHANGED <<sirve, alta, bajas, entregadas>>

Aceptar(p) ==
  /\ sirve /\ p \notin alta
  /\ alta' = alta \cup {p}
  /\ Tomada /\ UNCHANGED <<sirve, bajas, entregadas>>

Entregar(t) ==
  /\ Adentro(t)
  /\ LET ts == Tareas[PatotaDe[t]]
         n  == entregadas[t]
     IN  IF n < Len(ts)
           THEN /\ entregadas' = [entregadas EXCEPT ![t] = n + 1]
                /\ respuesta' = [a |-> t, tarea |-> ts[n + 1]]
           ELSE /\ respuesta' = [a |-> t, tarea |-> SinTareas]
                /\ UNCHANGED entregadas
  /\ UNCHANGED <<sirve, alta, bajas>>

SinPatota(t) ==      \* asked about a patota that was refused
  /\ sirve /\ PatotaDe[t] \notin alta
  /\ respuesta' = [a |-> t, tarea |-> SinTareas]
  /\ UNCHANGED <<sirve, alta, bajas, entregadas>>

DarDeBaja(S) ==      \* EXPULSAR_TRIPULANTE, or ELIMINAR_PATOTA
  /\ sirve
  /\ bajas' = bajas \cup S
  /\ entregadas' = [t \in Trips |-> IF t \in S THEN 0 ELSE entregadas[t]]
  /\ Tomada /\ UNCHANGED <<sirve, alta>>

Caer ==
  /\ sirve /\ \E t \in bajas : PatotaDe[t] \in alta
  /\ sirve' = FALSE /\ entregadas' = Ninguna
  /\ Tomada /\ UNCHANGED <<alta, bajas>>

Next == \/ \E p \in Patotas : Aceptar(p) \/ DarDeBaja({t \in Trips : PatotaDe[t] = p})
        \/ \E t \in Trips : Entregar(t) \/ SinPatota(t) \/ DarDeBaja({t})
        \/ Tomar \/ Caer
Spec == Init /\ [][Next]_vars
=============================================================================
