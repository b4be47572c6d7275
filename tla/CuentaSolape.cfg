SPECIFICATION Spec
CONSTANTS
  Cuentas = {c1, c2}
  Emails = {e1, e2}
  Claves = {k1, k2}
  Tareas = {t1, t2}
  Nada = Nada
  Operaciones = {"registrar", "logout", "cambiar", "verificar", "eliminar"}
  VIGENCIA = 1
  MaxReloj = 1
  MaxCodigos = 1
  MaxFotos = 0
  MaxFallas = 1
CHECK_DEADLOCK FALSE
SYMMETRY Simetria
CONSTRAINT AlgunaSinSolape
INVARIANTS ClaveQueda VenceConSuCodigo PersonaConCuenta EmailUnico
PROPERTIES EliminadaQueda
