SPECIFICATION Spec
CONSTANTS
  Planes <- MCPlanes
  Basico = "BASICO"
  Precio <- MCPrecio
  PeriodoDias <- MCPeriodoDias
  GraciaDias <- MCGraciaDias
  Usuarios = {"ana"}
  Pagos <- PagoSolo
  Solicitud <- SolicitudSolo
  Cobros <- CobroSolo
  RefDe <- RefSolo
  ConAlta = {"ana"}
  Tareas = {t1, t2}
  Nada = Nada
  c1 = c1
  c2 = c2
  c3 = c3
  Entornos = {"mercadopago"}
  ConsultaPuedeFallar = FALSE
  PlanesRetirables = {}
  Saltos = {}
  MaxDia = 0
  MaxFallas = 0
  MaxReenvios = 1
CHECK_DEADLOCK FALSE
INVARIANTS VigenciaDentroDeLoPagado
