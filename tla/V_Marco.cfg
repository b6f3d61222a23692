CONSTANTS
  Patotas = {1, 2, 3}
  Trips = {0, 1, 2, 3}
  PatotaDe <- Patota4
  Tareas <- TareasPorPagina
  Inicial <- Origen
  Posiciones <- Pos2
  Estados = {"E"}
  TamPagina = 12
  Marcos = 2
  MarcosVirtual = 2
  Algoritmos = {"LRU", "CLOCK"}
  Balde <- Hash
  Intercalado = TRUE
  ExpulsaDosVeces = FALSE
  Movedizos = {0, 1}
  MaxEventos = 1
  Columnas = 4
  Filas = 1
  Nadie = Nadie
CHECK_DEADLOCK FALSE
SPECIFICATION Spec
INVARIANTS ImagenIntacta
