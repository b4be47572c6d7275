SPECIFICATION Spec
CONSTANTS
  Nada = Nada
  pro = pro
  manual = manual
  propio = propio
  precio = precio
  nube = nube
  Replicas = {r1, r2}
  Entornos <- LosEntornos
  Planes = {pro, manual, propio}
  Sembrados = {pro}
  Codigos = {precio, nube}
  BackupNube = nube
  Catalogo <- ElCatalogo
  Banderas <- LasBanderas
  Usuarios = {u1}
  Cargas = {c1, mala}
  Malformadas = {mala}
  Tareas = {t1}
  MaxLista = 1
  MaxPeticiones = 3
  MaxFallas = 1
INVARIANTS
  TypeOK
  CatalogoCompleto
  BackupSeRecupera
PROPERTIES
  FuncionesNoSePierden
  ReplicaEscucha
CHECK_DEADLOCK FALSE
