CONSTANTS
  Trips = {0, 1, 2}
  Patotas = {1, 2}
  PatotaDe <- Patota3
  Tareas <- TareasMixtas
  PosInicial <- Posiciones
  PosSabotaje <- Sabotaje1
  Grado = 2
  Algoritmo = "RR"
  Quantum = 1
  Duracion = 2
  RespuestasRAM = {TRUE, FALSE}
  PopNulo = FALSE
  EnMarcha = FALSE
  MaxReinicios = 0
  MaxPausas = 2
  MaxExpulsiones = 0
  MaxSabotajes = 0
  Nadie = Nadie
SPECIFICATION Spec
INVARIANTS TurnoUnico NoCae GradoRespetado InicioUnico
