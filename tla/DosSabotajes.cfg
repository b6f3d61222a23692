CONSTANTS
  Trips = {0, 1, 2}
  Patotas = {1, 2}
  PatotaDe <- Patota3
  Tareas <- TareasMixtas
  PosInicial <- Posiciones
  PosSabotaje <- Sabotaje1
  Grado = 2
  Algoritmo = "FIFO"
  Quantum = 2
  Duracion = 3
  RespuestasRAM = {TRUE}
  PopNulo = FALSE
  EnMarcha = FALSE
  MaxReinicios = 0
  MaxPausas = 0
  MaxExpulsiones = 0
  MaxSabotajes = 2
  Nadie = Nadie
SPECIFICATION Spec
INVARIANTS TurnoUnico IdentidadDelFixer NingunoPerdido
CHECK_DEADLOCK FALSE
