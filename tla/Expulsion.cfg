CONSTANTS
  Trips = {0, 1}
  Patotas = {1}
  PatotaDe <- Patota2
  Tareas <- TareasCortas
  PosInicial <- Posiciones
  PosSabotaje <- Sabotaje1
  Grado = 2
  Algoritmo = "RR"
  Quantum = 1
  Duracion = 3
  RespuestasRAM = {TRUE, FALSE}
  PopNulo = FALSE
  EnMarcha = FALSE
  MaxReinicios = 0
  MaxPausas = 1
  MaxExpulsiones = 1
  MaxSabotajes = 1
  Nadie = Nadie
SPECIFICATION Spec
INVARIANTS TypeOK UnSoloTurno   HiloVivo
CHECK_DEADLOCK FALSE
