CONSTANTS
  Patotas = {1, 2, 3}
  Trips = {0, 1, 2}
  PatotaDe <- Patota3
  Tareas <- TareasCortas
  Inicial <- Origen
  Posiciones <- Pos2
  Estados = {"E"}
  TamMemoria = 27
  Criterios = {"BF", "FF"}
  SenialConReserva = FALSE
  MaxEventos = 1
  Columnas = 4
  Filas = 1
  Nadie = Nadie
CHECK_DEADLOCK FALSE
SPECIFICATION Spec
INVARIANTS TypeOK  ContenidoIntacto SiempreHayLugar
PROPERTIES Cumple
