SPECIFICATION Spec
CONSTANTS
  Planes <- MCPlanes
  Basico = "BASICO"
  Precio <- MCPrecio
  PeriodoDias <- MCPeriodoDias
  GraciaDias <- MCGraciaDias
  Usuarios = {"ana"}
  Pagos <- PagosDos
  Solicitud <- SolicitudDos
  Cobros <- CobrosDobles
  RefDe <- RefDobles
  ConAlta = {}
  Tareas = {t1}
  Nada = Nada
  c1 = c1
  c2 = c2
  c3 = c3
  Entornos = {"mercadopago", "simulado", "ninguno"}
  ConsultaPuedeFallar = TRUE
  PlanesRetirables = {"BASICO", "PRO"}
  Saltos = {40}
  MaxDia = 40
  MaxFallas = 1
  MaxReenvios = 1
CHECK_DEADLOCK FALSE
SYMMETRY SimetriaCobros
PROPERTIES CumpleAcreditacion AprobadoFinalSinSolape
