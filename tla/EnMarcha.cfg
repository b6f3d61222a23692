CONSTANTS
  Trips = {0, 1, 2}
  Patotas = {1, 2}
  PatotaDe <- Patota3
  Tareas <- TareasMixtas
  PosInicial <- Posiciones
  PosSabotaje <- Sabotaje1
  Grado = 2
  Algoritmo = "FIFO"
  Quantum = 2
  Duracion = 2
  RespuestasRAM = {TRUE, FALSE}
  PopNulo = FALSE
  EnMarcha = TRUE
  MaxReinicios = 0
  MaxPausas = 1
  MaxExpulsiones = 0
  MaxSabotajes = 0
  Nadie = Nadie
SPECIFICATION Spec
INVARIANTS TurnoUnico TareaCargada
CHECK_DEADLOCK FALSE
