SPECIFICATION Spec
CONSTANTS
  Nada = Nada
  Usuarios = {1}
  Clientes = {c1, c2}
  Externos <- DosExternos
  VidaAccess = 1
  VidaRefresh = 3
  MaxHora = 4
  MaxTokens = 6
INVARIANTS
  IdentidadUnica
  AccesoAcotado
SYMMETRY Simetria
CHECK_DEADLOCK FALSE
