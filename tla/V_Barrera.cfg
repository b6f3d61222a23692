CONSTANTS
  Trips = {0, 1}
  Patotas = {1}
  PatotaDe <- Patota2
  Tareas <- TareasCortas
  PosInicial <- Posiciones
  PosSabotaje <- Sabotaje1
  Grado = 2
  Algoritmo = "FIFO"
  Quantum = 2
  Duracion = 2
  RespuestasRAM = {TRUE}
  PopNulo = FALSE
  EnMarcha = FALSE
  MaxReinicios = 0
  MaxPausas = 0
  MaxExpulsiones = 1
  MaxSabotajes = 0
  Nadie = Nadie
SPECIFICATION Spec
INVARIANTS HayTurno
CHECK_DEADLOCK FALSE
