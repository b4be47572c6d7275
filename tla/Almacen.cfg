SPECIFICATION Spec
CONSTANTS
  Nada = Nada
  Subidas = {s1, s2}
  Fotos <- LasFotos
  Nombres <- LosNombres
  NombreLimpio <- Limpiar
  MaxWidth = 8
  MaxHeight = 6
  MaxIntentos = 2
  MaxReloj = 1
  MaxFallas = 3
INVARIANTS
  TypeOK
  SubidaQueda
  DimensionesEnCaja
PROPERTIES
  SubidaTermina
CHECK_DEADLOCK FALSE
