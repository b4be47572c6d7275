SPECIFICATION Spec
CONSTANTS
  Nada = Nada
  Filas = {cuenta, otra}
  Cuentas = {cuenta}
  v1 = v1
  v2 = v2
  f1 = f1
  f2 = f2
  Valores <- DosValores
  Fechas <- DosFechas
  Nuevas <- LasNuevas
  Autores = {autor}
  Tareas = {t1, t2}
  PoolSize = 2
  MaxPeticiones = 3
  MaxFallas = 0
PROPERTIES
  AuditoriaNoInterrumpe
CHECK_DEADLOCK FALSE
