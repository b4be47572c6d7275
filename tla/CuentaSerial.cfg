SPECIFICATION Spec
CONSTANTS
  Cuentas = {c1, c2}
  Emails = {e1, e2}
  Claves = {k1, k2}
  Tareas = {t1}
  Nada = Nada
  Operaciones = {"registrar", "login", "cambiar", "recuperar", "actualizar", "eliminar"}
  VIGENCIA = 1
  MaxReloj = 0
  MaxCodigos = 1
  MaxFotos = 1
  MaxFallas = 1
CHECK_DEADLOCK FALSE
SYMMETRY Simetria
INVARIANTS TypeOK EmailUnico
PROPERTIES CumpleCredencial
