CONSTANTS
  Recursos = {"Oxigeno", "Basura"}
  Trips = {0, 1}
  Obreros = {0}
  tamanioBloque = 3
  cantidadBloques = 8
  Cantidades = {2, 5}
  LargoNota = 2
  SIZEs = {1, 4}
  Sabotajes = {"nada", "cantidad", "bit", "SIZE", "BLOCK_COUNT", "orden", "bloque", "contenido"}
  Posiciones = 1
  Ajeno = "?"
  BitAjeno = FALSE
  Residuos <- NingunResiduo
  MaxEventos = 4
  MaxCaidas = 1
  MaxSabotajes = 1
CHECK_DEADLOCK FALSE
SPECIFICATION Spec
INVARIANTS TypeOK BloquesRepartidos  BitacorasEnteras
PROPERTIES FsckEstable FsckRestaura 
