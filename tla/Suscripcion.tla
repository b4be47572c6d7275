---------------------------- MODULE Suscripcion -----------------------------
(***************************************************************************)
(* Subscriptions and payments (src/schematics/suscripcion): checkouts,     *)
(* Mercado Pago webhooks and subscription summaries run concurrently on    *)
(* the Node event loop, and interleave at every await.  Each request in    *)
(* flight is a task with a program counter named for the next awaited      *)
(* call.  No handler opens a transaction, so what a task read may be       *)
(* stale when it writes.                                                   *)
(*                                                                         *)
(* TypeORM's save() of a row with an id is two awaited statements: it      *)
(* SELECTs the row, and UPDATEs the columns in which the in-memory entity  *)
(* differs from what that SELECT returned (Cargar... and Guardar... here). *)
(***************************************************************************)
EXTENDS Planes, FiniteSets

CONSTANTS
  Usuarios,
  Pagos,      \* payment rows; each is created by one checkout request
  Solicitud,  \* what that request asks for: [usuario, plan, ciclo]
  Cobros,     \* payments at Mercado Pago
  RefDe,      \* the payment row a Mercado Pago payment refers to
  ConAlta,    \* users whose account was created with its default subscription
  Tareas,     \* requests the model lets run at the same time
  Nada,       \* no row, no value
  Entornos,              \* checkout configurations to consider
  ConsultaPuedeFallar,   \* GET /v1/payments/:id may fail
  PlanesRetirables,      \* plans an administrator may deactivate
  Saltos, MaxDia,        \* how far the date may jump, and its bound
  MaxFallas,             \* bound on failed calls and restarts
  MaxReenvios            \* bound on notifications sent twice

EstadosPago == {"PENDIENTE", "APROBADO", "RECHAZADO"}

(* The columns of SuscripcionPago that matter: sub03_estado, and whether   *)
(* sub03_mp_preference_id is set.                                          *)
FilaPago == [estado: EstadosPago, pref: BOOLEAN]

EstadosMp == {"inexistente", "pending", "approved", "rejected", "cancelled", "refunded"}
Avisos == Cobros \X EstadosMp

ASSUME SuscripcionAssumption ==
  /\ Solicitud \in [Pagos -> [usuario: Usuarios, plan: Planes, ciclo: Ciclos]]
  /\ RefDe \in [Cobros -> Pagos]
  /\ ConAlta \subseteq Usuarios
  /\ Entornos \subseteq {"mercadopago", "simulado", "ninguno"}
  /\ ConsultaPuedeFallar \in BOOLEAN
  /\ PlanesRetirables \subseteq Planes
  /\ Saltos \subseteq Nat /\ MaxDia \in Nat
  /\ MaxFallas \in Nat /\ MaxReenvios \in Nat
  /\ Nada \notin FilaSub \cup FilaPago \cup Pagos \cup Usuarios \cup Nat \cup Avisos

VARIABLES
  entorno,     \* "mercadopago": access token set; "simulado": mock allowed
  ahora,       \* today
  planActivo,  \* plans with activo = true
  estadoMp,    \* status of each payment at Mercado Pago
  avisos,      \* notifications not yet answered with 200: <<payment, status>>
  reenvios, fallas,
  enlace,      \* payments whose init_point has been returned to the user
  pago,        \* table sub_03_mov_pago_suscripcion
  sub,         \* table sub_01_cab_suscripcion_usuario, unique by user
  tarea,       \* the requests in flight
  cobradoEn,      \* history: the day a payment was first charged
  acreditaciones, \* history: how often each payment extended a subscription
  solapados       \* history: payments two webhook deliveries handled at once

externas == <<entorno, ahora, planActivo, estadoMp, enlace, reenvios, fallas>>
historia == <<cobradoEn, acreditaciones, solapados>>
vars == <<externas, avisos, pago, sub, tarea, historia>>

Pasos == {"libre", "preferencia", "consultar", "leerPago", "cargarPago", "guardarPago",
          "leerPlan", "leerSub", "leerSubDef", "insertarSub", "releerSub", "cargarSub", "guardarSub"}

ColumnasPago == {"estado", "pref"}
ColumnasSub == {"plan", "ciclo", "validoHasta", "graciaHasta"}

Tarea ==
  [pc: Pasos, tipo: {"ninguno", "checkout", "webhook", "resumen"},
   usuario: Usuarios \cup {Nada}, pago: Pagos \cup {Nada}, aviso: Avisos \cup {Nada},
   status: EstadosMp, filaPago: FilaPago \cup {Nada}, filaSub: FilaSub \cup {Nada},
   cols: SUBSET (ColumnasPago \cup ColumnasSub)]

Libre ==
  [pc |-> "libre", tipo |-> "ninguno", usuario |-> Nada, pago |-> Nada, aviso |-> Nada,
   status |-> "inexistente", filaPago |-> Nada, filaSub |-> Nada, cols |-> {}]

Init ==
  /\ entorno \in Entornos
  /\ ahora = 0
  /\ planActivo = Planes
  /\ estadoMp = [c \in Cobros |-> "inexistente"]
  /\ avisos = {}
  /\ reenvios = 0 /\ fallas = 0
  /\ enlace = {}
  /\ pago = [p \in Pagos |-> Nada]
  /\ sub = [u \in Usuarios |-> IF u \in ConAlta THEN FilaPorDefecto(0) ELSE Nada]
  /\ tarea = [t \in Tareas |-> Libre]
  /\ cobradoEn = [p \in Pagos |-> Nada]
  /\ acreditaciones = [p \in Pagos |-> 0]
  /\ solapados = {}

-----------------------------------------------------------------------------
(* Moving a task along.                                                    *)

En(t, paso) == tarea[t].pc = paso
Ir(t, paso) == tarea' = [tarea EXCEPT ![t].pc = paso]

(* The handler returns: a webhook answers 200 and Mercado Pago forgets the *)
(* notification.                                                           *)
Responder(t) ==
  /\ avisos' = avisos \ {tarea[t].aviso}
  /\ tarea' = [tarea EXCEPT ![t] = Libre]

(* Mutant of Lanzar: the controller swallows errors and answers 200.       *)
LanzarTragando(t) == Responder(t)

(* The handler throws: no 200, so the notification stays due.              *)
Lanzar(t) ==
  /\ tarea' = [tarea EXCEPT ![t] = Libre]
  /\ UNCHANGED avisos

(* The two halves of save(), on each table.                                *)
ColumnasDistintas(nueva, fila, columnas) == {k \in columnas : nueva[k] # fila[k]}

FusionPago(fila, nueva, cols) ==
  [estado |-> IF "estado" \in cols THEN nueva.estado ELSE fila.estado,
   pref |-> IF "pref" \in cols THEN nueva.pref ELSE fila.pref]

FusionSub(fila, nueva, cols) ==
  [plan |-> IF "plan" \in cols THEN nueva.plan ELSE fila.plan,
   ciclo |-> IF "ciclo" \in cols THEN nueva.ciclo ELSE fila.ciclo,
   validoHasta |-> IF "validoHasta" \in cols THEN nueva.validoHasta ELSE fila.validoHasta,
   graciaHasta |-> IF "graciaHasta" \in cols THEN nueva.graciaHasta ELSE fila.graciaHasta]

CargarPago(t) ==
  LET i == tarea[t] IN
  /\ En(t, "cargarPago")
  /\ tarea' = [tarea EXCEPT ![t].pc = "guardarPago",
                            ![t].cols = ColumnasDistintas(i.filaPago, pago[i.pago], ColumnasPago)]
  /\ UNCHANGED <<externas, avisos, pago, sub, historia>>

PersistirPago(t) ==
  LET i == tarea[t] IN
  pago' = [pago EXCEPT ![i.pago] = FusionPago(@, i.filaPago, i.cols)]

-----------------------------------------------------------------------------
(* POST /suscripcion/checkout.  The plan is looked up just before the      *)
(* insert; the model does both at once.                                    *)

PagoNuevo == [estado |-> "PENDIENTE", pref |-> FALSE]

InsertarPago(p) ==
  LET s == Solicitud[p] IN
  /\ pago[p] = Nada
  /\ s.plan \in planActivo
  /\ SeVende(s.plan, s.ciclo)
  /\ pago' = [pago EXCEPT ![p] = PagoNuevo]

TareaCheckout(p, paso, fila) ==
  [Libre EXCEPT !.pc = paso, !.tipo = "checkout", !.usuario = Solicitud[p].usuario,
                !.pago = p, !.filaPago = fila]

CheckoutMercadoPago(t, p) ==
  /\ En(t, "libre")
  /\ entorno = "mercadopago"
  /\ InsertarPago(p)
  /\ tarea' = [tarea EXCEPT ![t] = TareaCheckout(p, "preferencia", PagoNuevo)]
  /\ UNCHANGED <<externas, avisos, sub, historia>>

(* Development only: the payment counts as charged right away.             *)
CheckoutSimulado(t, p) ==
  /\ En(t, "libre")
  /\ entorno = "simulado"
  /\ InsertarPago(p)
  /\ tarea' = [tarea EXCEPT ![t] =
                 TareaCheckout(p, "cargarPago", [PagoNuevo EXCEPT !.estado = "APROBADO"])]
  /\ cobradoEn' = [cobradoEn EXCEPT ![p] = ahora]
  /\ UNCHANGED <<externas, avisos, sub, acreditaciones, solapados>>

(* Neither configured nor simulated: the request fails after the insert.   *)
CheckoutSinMedio(t, p) ==
  /\ En(t, "libre")
  /\ entorno = "ninguno"
  /\ InsertarPago(p)
  /\ UNCHANGED <<externas, avisos, sub, tarea, historia>>

(* Mutant of CrearPreferencia: the link goes out before the last save.     *)
CrearPreferenciaYEnlazar(t) ==
  /\ En(t, "preferencia")
  /\ tarea' = [tarea EXCEPT ![t].pc = "cargarPago", ![t].filaPago.pref = TRUE]
  /\ enlace' = enlace \cup {tarea[t].pago}
  /\ UNCHANGED <<entorno, ahora, planActivo, estadoMp, reenvios, fallas,
                 avisos, pago, sub, historia>>

CrearPreferencia(t) ==
  /\ En(t, "preferencia")
  /\ tarea' = [tarea EXCEPT ![t].pc = "cargarPago", ![t].filaPago.pref = TRUE]
  /\ UNCHANGED <<externas, avisos, pago, sub, historia>>

(* The preference id is saved, and only then is the link returned.         *)
GuardarPreferencia(t) ==
  /\ En(t, "guardarPago")
  /\ tarea[t].filaPago.estado = "PENDIENTE"
  /\ PersistirPago(t)
  /\ enlace' = enlace \cup {tarea[t].pago}
  /\ Responder(t)
  /\ UNCHANGED <<entorno, ahora, planActivo, estadoMp, reenvios, fallas, sub, historia>>

-----------------------------------------------------------------------------
(* POST /suscripcion/webhook.                                              *)

EnCurso(p) == \E t \in Tareas : tarea[t].pago = p

Atender(t, a) ==
  LET p == RefDe[a[1]] IN
  /\ En(t, "libre")
  /\ tarea' = [tarea EXCEPT ![t] =
                 [Libre EXCEPT !.pc = "consultar", !.tipo = "webhook", !.aviso = a,
                               !.pago = p, !.usuario = Solicitud[p].usuario]]
  /\ solapados' = IF EnCurso(p) THEN solapados \cup {p} ELSE solapados

RecibirAviso(t, a) ==
  /\ a \in avisos
  /\ \A otra \in Tareas : tarea[otra].aviso # a
  /\ Atender(t, a)
  /\ UNCHANGED <<externas, avisos, pago, sub, cobradoEn, acreditaciones>>

(* Mercado Pago sends again what it sent before: it did not see the answer *)
(* in time, or it announces the same payment under another topic.          *)
RecibirDuplicado(t, a) ==
  /\ reenvios < MaxReenvios
  /\ a \in avisos \cup {<<c, estadoMp[c]>> : c \in Cobros}
  /\ a[2] # "inexistente"
  /\ Atender(t, a)
  /\ reenvios' = reenvios + 1
  /\ UNCHANGED <<entorno, ahora, planActivo, estadoMp, enlace, fallas,
                 avisos, pago, sub, cobradoEn, acreditaciones>>

Consultar(t) ==
  /\ En(t, "consultar")
  /\ tarea' = [tarea EXCEPT ![t].pc = "leerPago",
                            ![t].status = estadoMp[tarea[t].aviso[1]]]
  /\ UNCHANGED <<externas, avisos, pago, sub, historia>>

(* getPayment() swallows the error and returns null, and the handler       *)
(* answers 200 having done nothing.                                        *)
ConsultaFallida(t) ==
  /\ En(t, "consultar")
  /\ ConsultaPuedeFallar
  /\ Responder(t)
  /\ UNCHANGED <<externas, pago, sub, historia>>

Rechazos == {"rejected", "cancelled", "refunded"}

(* Mutant of SeIgnora: approved rows are processed again.                  *)
SeIgnoraSinEstado(fila, status) == status \notin {"approved"} \cup Rechazos

(* The payment row asks for nothing more, or the status says nothing.      *)
SeIgnora(fila, status) == fila.estado = "APROBADO" \/ status \notin {"approved"} \cup Rechazos

(* Mutants of EstadoSegun: the status is not looked at, or is stored raw.  *)
EstadoSinRevisar(status) == "APROBADO"
EstadoCrudo(status) == status

EstadoSegun(status) == IF status = "approved" THEN "APROBADO" ELSE "RECHAZADO"

IgnorarAviso(t) ==
  /\ En(t, "leerPago")
  /\ SeIgnora(pago[tarea[t].pago], tarea[t].status)
  /\ Responder(t)
  /\ UNCHANGED <<externas, pago, sub, historia>>

LeerPago(t) ==
  LET i == tarea[t] IN
  /\ En(t, "leerPago")
  /\ ~SeIgnora(pago[i.pago], i.status)
  /\ tarea' = [tarea EXCEPT ![t].pc = "cargarPago", ![t].status = "inexistente",
                 ![t].filaPago = [pago[i.pago] EXCEPT !.estado = EstadoSegun(i.status)]]
  /\ UNCHANGED <<externas, avisos, pago, sub, historia>>

(* Mutant of GuardarAprobado: the plan is never applied.                   *)
GuardarAprobadoYResponder(t) ==
  /\ En(t, "guardarPago")
  /\ tarea[t].filaPago.estado = "APROBADO"
  /\ PersistirPago(t)
  /\ Responder(t)
  /\ UNCHANGED <<externas, sub, historia>>

(* Approved, by a webhook or by the simulated checkout: the row is saved   *)
(* first, the plan is applied after.                                       *)
GuardarAprobado(t) ==
  /\ En(t, "guardarPago")
  /\ tarea[t].filaPago.estado = "APROBADO"
  /\ PersistirPago(t)
  /\ tarea' = [tarea EXCEPT ![t].pc = "leerPlan", ![t].filaPago = Nada, ![t].cols = {}]
  /\ UNCHANGED <<externas, avisos, sub, historia>>

GuardarRechazo(t) ==
  /\ En(t, "guardarPago")
  /\ tarea[t].filaPago.estado = "RECHAZADO"
  /\ PersistirPago(t)
  /\ Responder(t)
  /\ UNCHANGED <<externas, sub, historia>>

-----------------------------------------------------------------------------
(* aplicarPlanTrasPago() and crearSuscripcionPorDefecto().                 *)

PlanDe(t) == Solicitud[tarea[t].pago].plan
CicloDe(t) == Solicitud[tarea[t].pago].ciclo
SubDe(t) == sub[tarea[t].usuario]

PlanNoDisponible(t) ==
  /\ En(t, "leerPlan")
  /\ PlanDe(t) \notin planActivo
  /\ Lanzar(t)
  /\ UNCHANGED <<externas, pago, sub, historia>>

LeerPlan(t) ==
  /\ En(t, "leerPlan")
  /\ PlanDe(t) \in planActivo
  /\ Ir(t, "leerSub")
  /\ UNCHANGED <<externas, avisos, pago, sub, historia>>

FaltaSub(t) ==
  /\ En(t, "leerSub")
  /\ SubDe(t) = Nada
  /\ Ir(t, "leerSubDef")
  /\ UNCHANGED <<externas, avisos, pago, sub, historia>>

(* With the row in hand, the new period is computed in memory.             *)
CalcularPeriodo(t) ==
  /\ \/ En(t, "leerSub")
     \/ En(t, "releerSub") /\ tarea[t].tipo # "resumen"
  /\ SubDe(t) # Nada
  /\ tarea' = [tarea EXCEPT ![t].pc = "cargarSub",
                 ![t].filaSub = FilaTrasPago(SubDe(t), PlanDe(t), CicloDe(t), ahora)]
  /\ UNCHANGED <<externas, avisos, pago, sub, historia>>

CargarSub(t) ==
  LET i == tarea[t] IN
  /\ En(t, "cargarSub")
  /\ tarea' = [tarea EXCEPT ![t].pc = "guardarSub",
                            ![t].cols = ColumnasDistintas(i.filaSub, SubDe(t), ColumnasSub)]
  /\ UNCHANGED <<externas, avisos, pago, sub, historia>>

GuardarSub(t) ==
  LET i == tarea[t] IN
  /\ En(t, "guardarSub")
  /\ sub' = [sub EXCEPT ![i.usuario] = FusionSub(@, i.filaSub, i.cols)]
  /\ acreditaciones' = [acreditaciones EXCEPT ![i.pago] = @ + 1]
  /\ Responder(t)
  /\ UNCHANGED <<externas, pago, cobradoEn, solapados>>

(* A summary (toResumenDto) finds no row, so it creates the default one.   *)
IniciarResumen(t, u) ==
  /\ En(t, "libre")
  /\ sub[u] = Nada
  /\ tarea' = [tarea EXCEPT ![t] =
                 [Libre EXCEPT !.pc = "leerSubDef", !.tipo = "resumen", !.usuario = u]]
  /\ UNCHANGED <<externas, avisos, pago, sub, historia>>

(* Looks again; goes on only if there is still no row and BASICO exists.   *)
SinAltaPosible(t) ==
  /\ En(t, "leerSubDef")
  /\ SubDe(t) # Nada \/ Basico \notin planActivo
  /\ Ir(t, "releerSub")
  /\ UNCHANGED <<externas, avisos, pago, sub, historia>>

PrepararAlta(t) ==
  /\ En(t, "leerSubDef")
  /\ SubDe(t) = Nada /\ Basico \in planActivo
  /\ tarea' = [tarea EXCEPT ![t].pc = "insertarSub", ![t].filaSub = FilaPorDefecto(ahora)]
  /\ UNCHANGED <<externas, avisos, pago, sub, historia>>

(* Mutant of PuedeInsertar: no unique key, the last insert wins.           *)
InsertarSiempre(u) == TRUE

(* The UNIQUE key on rela_user01 decides who inserts.                      *)
PuedeInsertar(u) == sub[u] = Nada

InsertarSub(t) ==
  LET u == tarea[t].usuario IN
  /\ En(t, "insertarSub")
  /\ PuedeInsertar(u)
  /\ sub' = [sub EXCEPT ![u] = tarea[t].filaSub]
  /\ tarea' = [tarea EXCEPT ![t].pc = "releerSub", ![t].filaSub = Nada]
  /\ UNCHANGED <<externas, avisos, pago, historia>>

ClaveDuplicada(t) ==
  /\ En(t, "insertarSub")
  /\ ~PuedeInsertar(tarea[t].usuario)
  /\ Lanzar(t)
  /\ UNCHANGED <<externas, pago, sub, historia>>

ResponderResumen(t) ==
  /\ En(t, "releerSub")
  /\ tarea[t].tipo = "resumen"
  /\ Responder(t)
  /\ UNCHANGED <<externas, pago, sub, historia>>

SigueSinSub(t) ==
  /\ En(t, "releerSub")
  /\ tarea[t].tipo # "resumen" /\ SubDe(t) = Nada
  /\ Lanzar(t)
  /\ UNCHANGED <<externas, pago, sub, historia>>

-----------------------------------------------------------------------------
(* The world around the handlers.                                          *)

(* A query, or the call to Mercado Pago, fails and the handler throws.     *)
Fallar(t) ==
  /\ ~En(t, "libre")
  /\ fallas < MaxFallas
  /\ fallas' = fallas + 1
  /\ Lanzar(t)
  /\ UNCHANGED <<entorno, ahora, planActivo, estadoMp, enlace, reenvios, pago, sub, historia>>

(* The process restarts: every request in flight is gone.                  *)
Reiniciar ==
  /\ \E t \in Tareas : ~En(t, "libre")
  /\ fallas < MaxFallas
  /\ fallas' = fallas + 1
  /\ tarea' = [t \in Tareas |-> Libre]
  /\ UNCHANGED <<entorno, ahora, planActivo, estadoMp, enlace, reenvios, avisos, pago, sub, historia>>

(* What may happen to a payment at Mercado Pago.  The first attempt with a *)
(* link creates the payment; a cash payment stays pending for a while.     *)
Transiciones ==
  ({"inexistente"} \X {"pending", "approved", "rejected"})
    \cup ({"pending"} \X {"approved", "cancelled"}) \cup {<<"approved", "refunded">>}

CambiarCobro(c, s) ==
  /\ RefDe[c] \in enlace
  /\ <<estadoMp[c], s>> \in Transiciones
  /\ estadoMp' = [estadoMp EXCEPT ![c] = s]
  /\ avisos' = avisos \cup {<<c, s>>}
  /\ cobradoEn' = IF s = "approved" /\ cobradoEn[RefDe[c]] = Nada
                  THEN [cobradoEn EXCEPT ![RefDe[c]] = ahora] ELSE cobradoEn
  /\ UNCHANGED <<entorno, ahora, planActivo, enlace, reenvios, fallas,
                 pago, sub, tarea, acreditaciones, solapados>>

PasarDias(d) ==
  /\ ahora + d <= MaxDia
  /\ ahora' = ahora + d
  /\ UNCHANGED <<entorno, planActivo, estadoMp, enlace, reenvios, fallas,
                 avisos, pago, sub, tarea, historia>>

RetirarPlan(plan) ==
  /\ plan \in planActivo
  /\ planActivo' = planActivo \ {plan}
  /\ UNCHANGED <<entorno, ahora, estadoMp, enlace, reenvios, fallas,
                 avisos, pago, sub, tarea, historia>>

-----------------------------------------------------------------------------
Iniciar(t) ==
  \/ \E p \in Pagos : \/ CheckoutMercadoPago(t, p)
                      \/ CheckoutSimulado(t, p)
                      \/ CheckoutSinMedio(t, p)
  \/ \E a \in Avisos : RecibirAviso(t, a) \/ RecibirDuplicado(t, a)
  \/ \E u \in Usuarios : IniciarResumen(t, u)

(* The next step of a request in flight.                                   *)
Avanzar(t) ==
  \/ CrearPreferencia(t) \/ CargarPago(t)
  \/ GuardarPreferencia(t) \/ GuardarAprobado(t) \/ GuardarRechazo(t)
  \/ Consultar(t) \/ ConsultaFallida(t) \/ IgnorarAviso(t) \/ LeerPago(t)
  \/ PlanNoDisponible(t) \/ LeerPlan(t) \/ FaltaSub(t) \/ CalcularPeriodo(t)
  \/ CargarSub(t) \/ GuardarSub(t)
  \/ SinAltaPosible(t) \/ PrepararAlta(t) \/ InsertarSub(t) \/ ClaveDuplicada(t)
  \/ ResponderResumen(t) \/ SigueSinSub(t)

Entorno ==
  \/ Reiniciar
  \/ \E c \in Cobros, s \in EstadosMp : CambiarCobro(c, s)
  \/ \E d \in Saltos : PasarDias(d)
  \/ \E plan \in PlanesRetirables : RetirarPlan(plan)

Next == (\E t \in Tareas : Iniciar(t) \/ Avanzar(t) \/ Fallar(t)) \/ Entorno

Spec == Init /\ [][Next]_vars

-----------------------------------------------------------------------------
(* Properties.                                                             *)

(* Every variable keeps to the rows, codes and program points of the code. *)
TypeOK ==
  /\ entorno \in Entornos
  /\ ahora \in Nat
  /\ planActivo \subseteq Planes
  /\ estadoMp \in [Cobros -> EstadosMp]
  /\ avisos \subseteq Avisos
  /\ reenvios \in Nat /\ fallas \in Nat
  /\ enlace \subseteq Pagos
  /\ pago \in [Pagos -> FilaPago \cup {Nada}]
  /\ sub \in [Usuarios -> FilaSub \cup {Nada}]
  /\ tarea \in [Tareas -> Tarea]
  /\ cobradoEn \in [Pagos -> Nat \cup {Nada}]
  /\ acreditaciones \in [Pagos -> Nat]
  /\ solapados \subseteq Pagos

Cobrado(p) == cobradoEn[p] # Nada

(* Nobody holds a paid plan, or a yearly cycle, without a payment of their *)
(* own for it that Mercado Pago charged, however notifications, checkouts, *)
(* failures and torn writes interleave (procesarWebhookMercadoPago).       *)
PlanRespaldado ==
  \A u \in Usuarios : sub[u] # Nada =>
    /\ \/ sub[u].plan = Basico
       \/ \E p \in Pagos : /\ Solicitud[p].usuario = u /\ Cobrado(p)
                           /\ Solicitud[p].plan = sub[u].plan
    /\ \/ sub[u].ciclo = "mensual"
       \/ \E p \in Pagos : /\ Solicitud[p].usuario = u /\ Cobrado(p)
                           /\ Solicitud[p].ciclo = sub[u].ciclo

(* The periods of a billing cycle that user u has bought, the one of       *)
(* payment p as often as veces[p] says, and the days they are.             *)
Compras(u, ciclo, veces) ==
  UNION {{p} \X (1..veces[p]) :
           p \in {q \in Pagos : Solicitud[q].usuario = u /\ Solicitud[q].ciclo = ciclo}}

DiasComprados(u, veces) ==
  365 * Cardinality(Compras(u, "anual", veces)) + 30 * Cardinality(Compras(u, "mensual", veces))

(* Each time a payment is credited the user gains at most the days it      *)
(* bought, however the handlers interleave (aplicarPlanTrasPago).          *)
PeriodoAcotado ==
  \A u \in Usuarios : sub[u] # Nada =>
    sub[u].validoHasta <= ahora + PeriodoDias[Basico] + DiasComprados(u, acreditaciones)

(* A payment that two deliveries never handled at once is credited at most *)
(* once, whatever is resent, refunded, reordered or restarted: the guard   *)
(* on APROBADO in procesarWebhookMercadoPago is enough for that.           *)
UnaVezSinSolape == \A p \in Pagos \ solapados : acreditaciones[p] <= 1

(* For such a payment APROBADO is final: a later rejection or refund of    *)
(* any charge with the same reference does not touch the row.              *)
AprobadoFinalSinSolape ==
  [][\A p \in Pagos \ solapados' :
       pago[p] # Nada /\ pago[p].estado = "APROBADO" => pago'[p].estado = "APROBADO"]_vars

(* No write of a checkout, whose entity still says PENDIENTE, undoes what  *)
(* a webhook recorded: the link is handed out after the last such write.   *)
NuncaVuelveAPendiente ==
  [][\A p \in Pagos :
       pago[p] # Nada /\ pago[p].estado # "PENDIENTE" => pago'[p].estado # "PENDIENTE"]_vars

(* Creating the default row, which summaries and webhooks race to do,      *)
(* never takes a paid plan away (crearSuscripcionPorDefecto).              *)
PlanPagoNoVuelveABasico ==
  [][\A u \in Usuarios :
       sub[u] # Nada /\ sub[u].plan # Basico => sub'[u].plan # Basico]_vars

-----------------------------------------------------------------------------
(* Refinement.  A payment is credited when its last write lands.           *)
Promesa == INSTANCE Acreditacion WITH
  hoy <- ahora,
  acreditado <- {p \in Pagos : acreditaciones[p] > 0},
  vigencia <- sub

(* With one request at a time the component keeps the promise of module    *)
(* Acreditacion, through resends, refunds, failed calls and restarts.      *)
CumpleAcreditacion == Promesa!Spec

=============================================================================
