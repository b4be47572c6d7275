SPECIFICATION Spec
CONSTANTS
  u1 = u1
  u2 = u2
  d1 = d1
  d2 = d2
  Nada = Nada
  Usuarios = {u1, u2}
  Tokens = {d1, d2}
  Instalados <- UnInstalado
  Registros <- DosRegistros
  Lectores = {u1}
  Tareas = {t1, t2}
  Envios <- DosEnvios
  LimiteFcm = 2
  PorPagina = 1
  MaxFilas = 3
  MaxAvisos = 3
  MaxPeticiones = 3
  MaxFallas = 1
INVARIANTS
  TypeOK
  PushAbreSuAviso
  UnPushPorDispositivo
PROPERTIES
  LecturaCompleta
  CadaDestinatario
  EnvioTermina
CHECK_DEADLOCK FALSE
