CONSTANTS
  Recursos = {"Oxigeno", "Basura"}
  Trips = {0, 1}
  Obreros = {0}
  tamanioBloque = 3
  cantidadBloques = 8
  Cantidades = {2, 5}
  LargoNota = 2
  SIZEs = {1, 4}
  Sabotajes = {"nada"}
  Posiciones = 1
  Ajeno = "?"
  BitAjeno = FALSE
  Residuos <- NingunResiduo
  MaxEventos = 4
  MaxCaidas = 0
  MaxSabotajes = 1
CHECK_DEADLOCK FALSE
SPECIFICATION Spec
INVARIANTS UnDuenio
