SPECIFICATION SpecEntrega
CONSTANTS
  Planes <- MCPlanes
  Basico = "BASICO"
  Precio <- MCPrecio
  PeriodoDias <- MCPeriodoDias
  GraciaDias <- MCGraciaDias
  Usuarios = {"ana"}
  Pagos <- PagoSolo
  Solicitud <- SolicitudSolo
  Cobros <- CobroSolo
  RefDe <- RefSolo
  ConAlta = {}
  Tareas = {t1, t2}
  Nada = Nada
  c1 = c1
  c2 = c2
  c3 = c3
  Entornos = {"mercadopago"}
  ConsultaPuedeFallar = TRUE
  PlanesRetirables = {"PRO"}
  Saltos = {}
  MaxDia = 0
  MaxFallas = 2
  MaxReenvios = 1
CHECK_DEADLOCK FALSE
PROPERTIES CobroSeRegistra CobroSeAcredita
