CONSTANTS
  Trips = {0, 1, 2}
  Patotas = {1, 2}
  PatotaDe <- Patota3
  Tareas <- TareasMixtas
  PosInicial <- Posiciones
  PosSabotaje <- Sabotaje1
  Grado = 2
  Algoritmo = "RR"
  Quantum = 1
  Duracion = 3
  RespuestasRAM = {TRUE}
  PopNulo = TRUE
  EnMarcha = FALSE
  MaxReinicios = 0
  MaxPausas = 0
  MaxExpulsiones = 0
  MaxSabotajes = 1
  Nadie = Nadie
SPECIFICATION Spec
INVARIANTS TurnoUnico ContextoDelFixer FsckAntesDeResolver  QuantumRespetado PatotaTerminada
PROPERTY SoloElFixerAvanza
CHECK_DEADLOCK FALSE
