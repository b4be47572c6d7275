----------------------------- MODULE PagoProofs -----------------------------
(***************************************************************************)
(* What the table of payments goes through, for every instance of          *)
(* Suscripcion.  First part: a payment whose deliveries never overlapped   *)
(* is credited at most once, and stays APROBADO.  The guard of the handler *)
(* looks at the payment row only; the invariant ties that row to the       *)
(* number of credits and to the one request at work on it.  Second part: a *)
(* payment never goes back to PENDIENTE, because the checkout that could   *)
(* write that still has the payment to itself.  Third part: with one       *)
(* request at a time the component implements module Acreditacion.         *)
(***************************************************************************)
EXTENDS SuscripcionProofs

(* A task i at work on a payment with row fila, credited n times.          *)
Orden(i, fila, n) ==
  /\ Acredita(i) => fila.estado = "APROBADO" /\ n = 0
  /\ i.pc \in ConPago => fila.estado # "APROBADO"
  /\ i.pc = "guardarPago" /\ i.filaPago.estado # fila.estado => "estado" \in i.cols

(* A payment with row fila was credited n times.                           *)
Cuenta(fila, n) ==
  /\ n <= 1
  /\ n > 0 => fila # Nada /\ fila.estado = "APROBADO"

UnaVez(p) ==
  /\ \A t, otra \in Tareas : tarea[t].pago = p /\ tarea[otra].pago = p => t = otra
  /\ Cuenta(pago[p], acreditaciones[p])
  /\ \A t \in Tareas : tarea[t].pago = p => Orden(tarea[t], pago[p], acreditaciones[p])

InvUnaVez == \A p \in Pagos \ solapados : UnaVez(p)

-----------------------------------------------------------------------------
LEMMA InitUnaVez == Init => InvUnaVez
<1>1. SUFFICES ASSUME Init, NEW p \in Pagos PROVE UnaVez(p)
  BY DEF InvUnaVez
<1>2. \A t \in Tareas : tarea[t].pago # p
  BY <1>1, NadaNoEsFila DEF Init, Libre
<1>3. acreditaciones[p] = 0
  BY <1>1 DEF Init
<1>4. QED
  BY <1>2, <1>3 DEF UnaVez, Cuenta

(* Task t goes on with its payment, or leaves it.                          *)
LEMMA PasoSeguir ==
  ASSUME InvTipo, NEW p \in Pagos, UnaVez(p), NEW t \in Tareas, NEW i,
         tarea' = [tarea EXCEPT ![t] = i],
         i.pago = p => tarea[t].pago = p,
         tarea[t].pago # p =>
           pago'[p] = pago[p] /\ acreditaciones'[p] = acreditaciones[p],
         tarea[t].pago = p =>
           /\ Cuenta(pago'[p], acreditaciones'[p])
           /\ i.pago = p => Orden(i, pago'[p], acreditaciones'[p])
  PROVE  UnaVez(p)'
<1>1. \A otra \in Tareas : tarea'[otra] = IF otra = t THEN i ELSE tarea[otra]
  BY DEF InvTipo, TypeOK
<1>2. CASE tarea[t].pago = p
  <2>1. \A otra \in Tareas : tarea'[otra].pago = p => otra = t
    BY <1>1, <1>2 DEF UnaVez
  <2>2. QED
    BY <1>1, <1>2, <2>1 DEF UnaVez
<1>3. CASE tarea[t].pago # p
  <2>1. \A otra \in Tareas : tarea'[otra].pago = p => otra # t /\ tarea'[otra] = tarea[otra]
    BY <1>1, <1>3
  <2>2. QED
    BY <1>3, <2>1 DEF UnaVez
<1>4. QED
  BY <1>2, <1>3

(* Task t starts on a payment nobody works on.                             *)
LEMMA PasoEmpezar ==
  ASSUME InvTipo, NEW p \in Pagos, NEW t \in Tareas, NEW i,
         tarea' = [tarea EXCEPT ![t] = i],
         \A otra \in Tareas : tarea[otra].pago # p,
         Cuenta(pago'[p], acreditaciones'[p]),
         Orden(i, pago'[p], acreditaciones'[p])
  PROVE  UnaVez(p)'
<1>1. \A otra \in Tareas : tarea'[otra].pago = p => otra = t /\ tarea'[otra] = i
  BY DEF InvTipo, TypeOK
<1>2. QED
  BY <1>1 DEF UnaVez

(* Task t does something about another payment, or nothing to its own.     *)
LEMMA PasoQuieto ==
  ASSUME InvTipo, NEW p \in Pagos, UnaVez(p), NEW t \in Tareas, NEW i,
         tarea' = [tarea EXCEPT ![t] = i],
         UNCHANGED <<pago, acreditaciones>>,
         i.pago = p => tarea[t].pago = p /\ Orden(i, pago[p], acreditaciones[p])
  PROVE  UnaVez(p)'
<1>1. tarea[t].pago = p => Cuenta(pago[p], acreditaciones[p])
  BY DEF UnaVez
<1>2. QED
  BY <1>1, PasoSeguir

LEMMA TerminarUnaVez ==
  ASSUME InvTipo, NEW p \in Pagos, UnaVez(p), NEW t \in Tareas,
         Responder(t) \/ Lanzar(t), UNCHANGED <<pago, acreditaciones>>
  PROVE  UnaVez(p)'
<1>1. Libre.pago # p
  BY NadaNoEsFila DEF Libre
<1>2. QED
  BY <1>1, PasoQuieto DEF Responder, Lanzar

-----------------------------------------------------------------------------
LEMMA CheckoutUnaVez ==
  ASSUME InvTipo, NEW p \in Pagos, UnaVez(p), NEW t \in Tareas, NEW q \in Pagos,
         InsertarPago(q), NEW i, i.pago = q, i.pc \in ConPago \ {"guardarPago"},
         tarea' = [tarea EXCEPT ![t] = i], acreditaciones' = acreditaciones
  PROVE  UnaVez(p)'
<1>1. pago[q] = Nada /\ pago' = [pago EXCEPT ![q] = PagoNuevo]
      /\ pago \in [Pagos -> FilaPago \cup {Nada}]
      /\ acreditaciones \in [Pagos -> Nat]
  BY DEF InsertarPago, InvTipo, TypeOK
<1>2. \A otra \in Tareas : tarea[otra].pago # q
  BY <1>1 DEF InvTipo, TareaOK, Bien
<1>3. CASE p = q
  <2>1. acreditaciones[p] = 0
    BY <1>1, <1>3 DEF UnaVez, Cuenta
  <2>2. pago'[p].estado = "PENDIENTE"
    BY <1>1, <1>3 DEF PagoNuevo
  <2>3. Orden(i, pago'[p], acreditaciones'[p])
    BY <2>2 DEF Orden, ConPago, Acredita, Aplicando, Alta
  <2>4. Cuenta(pago'[p], acreditaciones'[p])
    BY <2>1 DEF Cuenta
  <2>5. QED
    BY <1>2, <1>3, <2>3, <2>4, PasoEmpezar
<1>4. CASE p # q
  <2>1. pago'[p] = pago[p] /\ Cuenta(pago[p], acreditaciones[p])
    BY <1>1, <1>4 DEF UnaVez
  <2>2. QED
    BY <1>4, <2>1, PasoSeguir
<1>5. QED
  BY <1>3, <1>4

LEMMA AtenderUnaVez ==
  ASSUME InvTipo, NEW p \in Pagos \ solapados', UnaVez(p), NEW t \in Tareas, NEW a \in Avisos,
         Atender(t, a), UNCHANGED <<pago, acreditaciones>>
  PROVE  UnaVez(p)'
<1> DEFINE q == RefDe[a[1]]
           i == [Libre EXCEPT !.pc = "consultar", !.tipo = "webhook", !.aviso = a,
                              !.pago = q, !.usuario = Solicitud[q].usuario]
<1>1. tarea' = [tarea EXCEPT ![t] = i]
  BY DEF Atender
<1>2. i.pago = q /\ i.pc = "consultar"
  BY DEF Libre
<1>3. CASE p = q
  <2>1. \A otra \in Tareas : tarea[otra].pago # p
    BY <1>3 DEF Atender, EnCurso
  <2>2. Orden(i, pago'[p], acreditaciones'[p])
    BY <1>2 DEF Orden, ConPago, Acredita, Aplicando, Alta
  <2>3. Cuenta(pago'[p], acreditaciones'[p])
    BY DEF UnaVez
  <2>4. QED
    BY <1>1, <2>1, <2>2, <2>3, PasoEmpezar
<1>4. CASE p # q
  BY <1>1, <1>2, <1>4, PasoQuieto
<1>5. QED
  BY <1>3, <1>4

LEMMA IniciarUnaVez ==
  ASSUME InvTipo, NEW p \in Pagos \ solapados', UnaVez(p), NEW t \in Tareas, Iniciar(t)
  PROVE  UnaVez(p)'
<1>1. ASSUME NEW q \in Pagos, CheckoutMercadoPago(t, q) PROVE UnaVez(p)'
  <2> DEFINE i == TareaCheckout(q, "preferencia", PagoNuevo)
  <2>1. i.pago = q /\ i.pc = "preferencia"
    BY DEF TareaCheckout, Libre
  <2>2. QED
    BY <1>1, <2>1, CheckoutUnaVez DEF CheckoutMercadoPago, historia, ConPago
<1>2. ASSUME NEW q \in Pagos, CheckoutSimulado(t, q) PROVE UnaVez(p)'
  <2> DEFINE i == TareaCheckout(q, "cargarPago", [PagoNuevo EXCEPT !.estado = "APROBADO"])
  <2>1. i.pago = q /\ i.pc = "cargarPago"
    BY DEF TareaCheckout, Libre
  <2>2. QED
    BY <1>2, <2>1, CheckoutUnaVez DEF CheckoutSimulado, ConPago
<1>3. ASSUME NEW q \in Pagos, CheckoutSinMedio(t, q) PROVE UnaVez(p)'
  <2>1. pago[q] = Nada /\ pago' = [pago EXCEPT ![q] = PagoNuevo] /\ tarea' = tarea
        /\ acreditaciones' = acreditaciones /\ acreditaciones[p] \in Nat
        /\ pago \in [Pagos -> FilaPago \cup {Nada}]
    BY <1>3 DEF CheckoutSinMedio, InsertarPago, historia, InvTipo, TypeOK
  <2>2. CASE p = q
    <3>1. \A otra \in Tareas : tarea[otra].pago # p
      BY <2>1, <2>2 DEF InvTipo, TareaOK, Bien
    <3>2. acreditaciones[p] = 0
      BY <2>1, <2>2 DEF UnaVez, Cuenta
    <3>3. QED
      BY <2>1, <3>1, <3>2 DEF UnaVez, Cuenta
  <2>3. CASE p # q
    BY <2>1, <2>3 DEF UnaVez
  <2>4. QED
    BY <2>2, <2>3
<1>4. ASSUME NEW u \in Usuarios, IniciarResumen(t, u) PROVE UnaVez(p)'
  <2> DEFINE i == [Libre EXCEPT !.pc = "leerSubDef", !.tipo = "resumen", !.usuario = u]
  <2>1. i.pago # p
    BY NadaNoEsFila DEF Libre
  <2>2. QED
    BY <1>4, <2>1, PasoQuieto DEF IniciarResumen, historia
<1>5. QED
  BY <1>1, <1>2, <1>3, <1>4, AtenderUnaVez DEF Iniciar, RecibirAviso, RecibirDuplicado

-----------------------------------------------------------------------------
(* Steps that carry a task on and write nothing.                           *)
LEMMA LocalUnaVez ==
  ASSUME InvTipo, NEW p \in Pagos, UnaVez(p), NEW t \in Tareas,
         \/ Consultar(t) \/ CrearPreferencia(t) \/ LeerPlan(t) \/ FaltaSub(t) \/ CalcularPeriodo(t)
         \/ CargarSub(t) \/ SinAltaPosible(t) \/ PrepararAlta(t) \/ InsertarSub(t)
  PROVE  UnaVez(p)'
<1> DEFINE i == tarea'[t]
<1>1. tarea[t] \in Tarea /\ tarea \in [Tareas -> Tarea]
  BY TareaActual DEF InvTipo, TypeOK
<1>2. /\ tarea' = [tarea EXCEPT ![t] = i]
      /\ UNCHANGED <<pago, acreditaciones>>
  BY <1>1 DEF Consultar, CrearPreferencia, LeerPlan, FaltaSub, CalcularPeriodo, CargarSub,
     SinAltaPosible, PrepararAlta, InsertarSub, Ir, historia
<1>3. /\ i.pago = tarea[t].pago
      /\ i.pc # "guardarPago"
      /\ i.pc \in ConPago => tarea[t].pc \in ConPago
      /\ Acredita(i) => Acredita(tarea[t])
  BY <1>1 DEF Consultar, CrearPreferencia, LeerPlan, FaltaSub, CalcularPeriodo, CargarSub,
     SinAltaPosible, PrepararAlta, InsertarSub, Ir, En, Tarea, ConPago, Acredita, Aplicando, Alta
<1>4. tarea[t].pago = p => Orden(i, pago[p], acreditaciones[p])
  BY <1>3 DEF UnaVez, Orden
<1>5. QED
  BY <1>2, <1>3, <1>4, PasoQuieto

LEMMA CargarPagoUnaVez ==
  ASSUME InvTipo, NEW p \in Pagos, UnaVez(p), NEW t \in Tareas, CargarPago(t)
  PROVE  UnaVez(p)'
<1> DEFINE cols == ColumnasDistintas(tarea[t].filaPago, pago[tarea[t].pago], ColumnasPago)
           i == [tarea[t] EXCEPT !.pc = "guardarPago", !.cols = cols]
<1>1. /\ tarea' = [tarea EXCEPT ![t] = i]
      /\ UNCHANGED <<pago, acreditaciones>>
      /\ tarea[t] \in Tarea /\ tarea[t].pc = "cargarPago"
  BY TareaActual DEF CargarPago, En, historia
<1>2. i.pago = tarea[t].pago /\ i.pc = "guardarPago" /\ i.cols = cols
      /\ i.filaPago = tarea[t].filaPago
  BY <1>1 DEF Tarea
<1>3. ASSUME tarea[t].pago = p PROVE Orden(i, pago[p], acreditaciones[p])
  <2>1. pago[p].estado # "APROBADO"
    BY <1>1, <1>3 DEF UnaVez, Orden, ConPago
  <2>2. i.filaPago.estado # pago[p].estado => "estado" \in i.cols
    <3>1. tarea[t].filaPago \in FilaPago /\ pago[p] \in FilaPago
      BY <1>1, <1>3, TareaActual DEF Bien, ConPago, InvTipo, TypeOK
    <3>2. QED
      BY <1>2, <1>3, <3>1 DEF ColumnasDistintas, ColumnasPago, FilaPago
  <2>3. QED
    BY <1>2, <2>1, <2>2 DEF Orden, ConPago, Acredita, Aplicando, Alta
<1>4. QED
  BY <1>1, <1>2, <1>3, PasoQuieto

LEMMA LeerPagoUnaVez ==
  ASSUME InvTipo, NEW p \in Pagos, UnaVez(p), NEW t \in Tareas, LeerPago(t)
  PROVE  UnaVez(p)'
<1> DEFINE i == [tarea[t] EXCEPT !.pc = "cargarPago", !.status = "inexistente",
                    !.filaPago = [pago[tarea[t].pago] EXCEPT !.estado = EstadoSegun(tarea[t].status)]]
<1>1. /\ tarea' = [tarea EXCEPT ![t] = i]
      /\ UNCHANGED <<pago, acreditaciones>>
      /\ tarea[t] \in Tarea
      /\ pago[tarea[t].pago].estado # "APROBADO"
  BY TareaActual DEF LeerPago, SeIgnora, historia
<1>2. i.pago = tarea[t].pago /\ i.pc = "cargarPago"
  BY <1>1 DEF Tarea
<1>3. tarea[t].pago = p => Orden(i, pago[p], acreditaciones[p])
  BY <1>1, <1>2 DEF Orden, Acredita, Aplicando, Alta
<1>4. QED
  BY <1>1, <1>2, <1>3, PasoQuieto

(* What a save of the payment row does to the row of p.                    *)
LEMMA PersistirUnaVez ==
  ASSUME InvTipo, NEW p \in Pagos, UnaVez(p), NEW t \in Tareas,
         En(t, "guardarPago"), PersistirPago(t)
  PROVE  /\ tarea[t].pago # p => pago'[p] = pago[p]
         /\ tarea[t].pago = p =>
              /\ pago[p].estado # "APROBADO"
              /\ pago'[p] # Nada
              /\ pago'[p].estado = tarea[t].filaPago.estado
              /\ acreditaciones[p] = 0
<1> DEFINE fila == FusionPago(pago[p], tarea[t].filaPago, tarea[t].cols)
<1>1. tarea[t].pago \in Pagos /\ pago \in [Pagos -> FilaPago \cup {Nada}]
      /\ acreditaciones[p] \in Nat
  BY TareaActual DEF En, Bien, ConPago, InvTipo, TypeOK
<1>2. CASE tarea[t].pago # p
  BY <1>1, <1>2 DEF PersistirPago
<1>3. CASE tarea[t].pago = p
  <2>1. Orden(tarea[t], pago[p], acreditaciones[p]) /\ tarea[t].pc = "guardarPago"
    BY <1>3 DEF UnaVez, En
  <2>2. pago[p].estado # "APROBADO" /\ acreditaciones[p] = 0
    BY <1>1, <2>1 DEF Orden, ConPago, UnaVez, Cuenta
  <2>3. fila.estado = tarea[t].filaPago.estado
    BY <2>1 DEF Orden, FusionPago
  <2>4. pago'[p] = fila
    BY <1>1, <1>3 DEF PersistirPago
  <2>5. pago'[p] # Nada
    BY <1>1, <1>3, PersistirPagoTipo, TareaActual
  <2>6. QED
    BY <1>3, <2>2, <2>3, <2>4, <2>5
<1>4. QED
  BY <1>2, <1>3

LEMMA GuardarPagoUnaVez ==
  ASSUME InvTipo, NEW p \in Pagos, UnaVez(p), NEW t \in Tareas,
         GuardarPreferencia(t) \/ GuardarRechazo(t) \/ GuardarAprobado(t)
  PROVE  UnaVez(p)'
<1>1. En(t, "guardarPago") /\ PersistirPago(t) /\ acreditaciones' = acreditaciones
  BY DEF GuardarPreferencia, GuardarRechazo, GuardarAprobado, historia
<1>2. tarea[t].pago # p => pago'[p] = pago[p]
  BY <1>1, PersistirUnaVez
<1>3. tarea[t].pago = p => Cuenta(pago'[p], acreditaciones'[p])
  BY <1>1, PersistirUnaVez DEF Cuenta
<1>4. CASE GuardarPreferencia(t) \/ GuardarRechazo(t)
  <2>1. tarea' = [tarea EXCEPT ![t] = Libre] /\ Libre.pago # p
    BY <1>4, NadaNoEsFila DEF GuardarPreferencia, GuardarRechazo, Responder, Libre
  <2>2. QED
    BY <1>1, <1>2, <1>3, <2>1, PasoSeguir
<1>5. CASE GuardarAprobado(t)
  <2> DEFINE i == [tarea[t] EXCEPT !.pc = "leerPlan", !.filaPago = Nada, !.cols = {}]
  <2>1. tarea' = [tarea EXCEPT ![t] = i] /\ tarea[t].filaPago.estado = "APROBADO"
        /\ tarea[t] \in Tarea
    BY <1>5, TareaActual DEF GuardarAprobado
  <2>2. i.pago = tarea[t].pago /\ i.pc = "leerPlan"
    BY <2>1 DEF Tarea
  <2>3. tarea[t].pago = p => Orden(i, pago'[p], acreditaciones'[p])
    BY <1>1, <2>1, <2>2, PersistirUnaVez DEF Orden, ConPago
  <2>4. QED
    BY <1>1, <1>2, <1>3, <2>1, <2>2, <2>3, PasoSeguir
<1>6. QED
  BY <1>4, <1>5

LEMMA GuardarSubUnaVez ==
  ASSUME InvTipo, NEW p \in Pagos, UnaVez(p), NEW t \in Tareas, GuardarSub(t)
  PROVE  UnaVez(p)'
<1>1. /\ tarea' = [tarea EXCEPT ![t] = Libre] /\ Libre.pago # p
      /\ pago' = pago
      /\ acreditaciones' = [acreditaciones EXCEPT ![tarea[t].pago] = @ + 1]
      /\ acreditaciones \in [Pagos -> Nat]
      /\ tarea[t].pc = "guardarSub"
  BY NadaNoEsFila DEF GuardarSub, En, Responder, Libre, InvTipo, TypeOK
<1>2. tarea[t].pago # p => acreditaciones'[p] = acreditaciones[p]
  BY <1>1
<1>3. ASSUME tarea[t].pago = p PROVE Cuenta(pago'[p], acreditaciones'[p])
  <2>1. pago[p].estado = "APROBADO" /\ acreditaciones[p] = 0
    BY <1>1, <1>3 DEF UnaVez, Orden, Acredita, Aplicando
  <2>2. pago[p] # Nada
    BY <1>3, TareaActual DEF Bien
  <2>3. QED
    BY <1>1, <1>3, <2>1, <2>2 DEF Cuenta
<1>4. QED
  BY <1>1, <1>2, <1>3, PasoSeguir

LEMMA AvanzarUnaVez ==
  ASSUME InvTipo, NEW p \in Pagos, UnaVez(p), NEW t \in Tareas, Avanzar(t)
  PROVE  UnaVez(p)'
<1>1. CASE \/ ConsultaFallida(t) \/ IgnorarAviso(t) \/ PlanNoDisponible(t)
           \/ ClaveDuplicada(t) \/ ResponderResumen(t) \/ SigueSinSub(t)
  BY <1>1, TerminarUnaVez
  DEF ConsultaFallida, IgnorarAviso, PlanNoDisponible, ClaveDuplicada, ResponderResumen,
      SigueSinSub, historia
<1>2. QED
  BY <1>1, LocalUnaVez, CargarPagoUnaVez, LeerPagoUnaVez, GuardarPagoUnaVez, GuardarSubUnaVez
  DEF Avanzar

LEMMA EntornoUnaVez ==
  ASSUME InvTipo, NEW p \in Pagos, UnaVez(p), Entorno
  PROVE  UnaVez(p)'
<1>1. UNCHANGED <<pago, acreditaciones>>
  BY DEF Entorno, Reiniciar, CambiarCobro, PasarDias, RetirarPlan, historia
<1>2. CASE Reiniciar
  <2>1. \A t \in Tareas : tarea'[t].pago # p
    BY <1>2, NadaNoEsFila DEF Reiniciar, Libre
  <2>2. QED
    BY <1>1, <2>1 DEF UnaVez
<1>3. CASE tarea' = tarea
  BY <1>1, <1>3 DEF UnaVez
<1>4. QED
  BY <1>2, <1>3 DEF Entorno, CambiarCobro, PasarDias, RetirarPlan

LEMMA SolapadosCrece ==
  ASSUME [Next]_vars
  PROVE  solapados \subseteq solapados'
<1>1. ASSUME NEW t \in Tareas, Iniciar(t) PROVE solapados \subseteq solapados'
  BY <1>1 DEF Iniciar, CheckoutMercadoPago, CheckoutSimulado, CheckoutSinMedio,
     RecibirAviso, RecibirDuplicado, Atender, IniciarResumen, historia
<1>2. ASSUME NEW t \in Tareas, Avanzar(t) \/ Fallar(t) PROVE solapados' = solapados
  BY <1>2 DEF Avanzar, CrearPreferencia, CargarPago, GuardarPreferencia, GuardarAprobado,
     GuardarRechazo, Consultar, ConsultaFallida, IgnorarAviso, LeerPago, PlanNoDisponible,
     LeerPlan, FaltaSub, CalcularPeriodo, CargarSub, GuardarSub, SinAltaPosible, PrepararAlta,
     InsertarSub, ClaveDuplicada, ResponderResumen, SigueSinSub, Fallar, historia
<1>3. CASE Entorno \/ UNCHANGED vars
  BY <1>3 DEF Entorno, Reiniciar, CambiarCobro, PasarDias, RetirarPlan, historia, vars
<1>4. QED
  BY <1>1, <1>2, <1>3 DEF Next

LEMMA NextUnaVez == InvTipo /\ InvUnaVez /\ [Next]_vars => InvUnaVez'
<1>1. SUFFICES ASSUME InvTipo, InvUnaVez, [Next]_vars, NEW p \in Pagos \ solapados'
               PROVE  UnaVez(p)'
  BY DEF InvUnaVez
<1>2. UnaVez(p)
  BY <1>1, SolapadosCrece DEF InvUnaVez
<1>3. ASSUME NEW t \in Tareas, Fallar(t) PROVE UnaVez(p)'
  BY <1>1, <1>2, <1>3, TerminarUnaVez DEF Fallar, historia
<1>4. CASE UNCHANGED vars
  BY <1>2, <1>4 DEF vars, historia, UnaVez
<1>5. QED
  BY <1>1, <1>2, <1>3, <1>4, IniciarUnaVez, AvanzarUnaVez, EntornoUnaVez DEF Next

-----------------------------------------------------------------------------
(* One credit per payment, as long as no two deliveries for it overlap,    *)
(* whatever fails or is resent (procesarWebhookMercadoPago).               *)
THEOREM UnaSolaAcreditacion == Spec => []UnaVezSinSolape
<1>1. Init => InvTipo /\ InvUnaVez
  BY InitTipo, InitUnaVez
<1>2. InvTipo /\ InvUnaVez /\ [Next]_vars => (InvTipo /\ InvUnaVez)'
  BY NextTipo, NextUnaVez
<1>3. InvUnaVez => UnaVezSinSolape
  BY DEF InvUnaVez, UnaVez, Cuenta, UnaVezSinSolape
<1>4. QED
  BY <1>1, <1>2, <1>3, PTL DEF Spec

(* The row of an approved payment is written only by steps that the        *)
(* invariant rules out.                                                    *)
LEMMA FilaAprobadaQueda ==
  ASSUME InvTipo, [Next]_vars, NEW p \in Pagos, UnaVez(p),
         pago[p] # Nada, pago[p].estado = "APROBADO"
  PROVE  pago'[p] = pago[p]
<1>1. ASSUME NEW t \in Tareas, Iniciar(t) PROVE pago'[p] = pago[p]
  <2>1. \A q \in Pagos : InsertarPago(q) => pago'[p] = pago[p]
    BY DEF InsertarPago, InvTipo, TypeOK
  <2>2. QED
    BY <1>1, <2>1 DEF Iniciar, CheckoutMercadoPago, CheckoutSimulado, CheckoutSinMedio,
       RecibirAviso, RecibirDuplicado, IniciarResumen
<1>2. ASSUME NEW t \in Tareas, Avanzar(t) PROVE pago'[p] = pago[p]
  <2>1. ASSUME En(t, "guardarPago"), PersistirPago(t) PROVE pago'[p] = pago[p]
    BY <2>1, PersistirUnaVez
  <2>2. QED
    BY <1>2, <2>1 DEF Avanzar, CrearPreferencia, CargarPago, GuardarPreferencia,
       GuardarAprobado, GuardarRechazo, Consultar, ConsultaFallida, IgnorarAviso, LeerPago,
       PlanNoDisponible, LeerPlan, FaltaSub, CalcularPeriodo, CargarSub, GuardarSub, SinAltaPosible,
       PrepararAlta, InsertarSub, ClaveDuplicada, ResponderResumen, SigueSinSub
<1>3. ASSUME NEW t \in Tareas, Fallar(t) PROVE pago'[p] = pago[p]
  BY <1>3 DEF Fallar
<1>4. CASE Entorno \/ UNCHANGED vars
  BY <1>4 DEF Entorno, Reiniciar, CambiarCobro, PasarDias, RetirarPlan, vars
<1>5. QED
  BY <1>1, <1>2, <1>3, <1>4 DEF Next

(* APROBADO is final for such a payment: neither a late rejection nor a    *)
(* refund touches the row (procesarWebhookMercadoPago).                    *)
THEOREM AprobadoEsFinal == Spec => AprobadoFinalSinSolape
<1> DEFINE Queda == \A p \in Pagos \ solapados' :
                      pago[p] # Nada /\ pago[p].estado = "APROBADO" => pago'[p].estado = "APROBADO"
<1>1. Init => InvTipo /\ InvUnaVez
  BY InitTipo, InitUnaVez
<1>2. InvTipo /\ InvUnaVez /\ [Next]_vars => (InvTipo /\ InvUnaVez)'
  BY NextTipo, NextUnaVez
<1>3. InvTipo /\ InvUnaVez /\ [Next]_vars => [Queda]_vars
  BY SolapadosCrece, FilaAprobadaQueda DEF InvUnaVez
<1>4. QED
  BY <1>1, <1>2, <1>3, PTL DEF Spec, AprobadoFinalSinSolape

-----------------------------------------------------------------------------
(* Task i holds an entity of the payment that still says PENDIENTE.        *)
Esperando(i) == i.pc \in ConPago /\ i.filaPago.estado = "PENDIENTE"

InvPendiente ==
  \A t \in Tareas : Esperando(tarea[t]) =>
    /\ tarea[t].pago \notin enlace
    /\ pago[tarea[t].pago].estado = "PENDIENTE"
    /\ \A otra \in Tareas : tarea[otra].pago = tarea[t].pago => otra = t

LEMMA InitPendiente == Init => InvPendiente
  BY DEF Init, InvPendiente, Esperando, Libre, ConPago

(* Task t goes on with its payment or leaves it, and the row and the link  *)
(* of other payments stay as they are.                                     *)
LEMMA SeguirPendiente ==
  ASSUME InvTipo, InvPendiente, NEW t \in Tareas, NEW i,
         tarea' = [tarea EXCEPT ![t] = i],
         i.pago \in {tarea[t].pago, Nada},
         \A p \in Pagos \ {tarea[t].pago} :
           pago'[p] = pago[p] /\ (p \in enlace' => p \in enlace),
         Esperando(i) =>
           /\ Esperando(tarea[t]) /\ i.pago = tarea[t].pago
           /\ pago'[i.pago] = pago[i.pago] /\ (i.pago \in enlace' => i.pago \in enlace)
  PROVE  InvPendiente'
<1>1. \A otra \in Tareas : tarea'[otra] = IF otra = t THEN i ELSE tarea[otra]
  BY DEF InvTipo, TypeOK
<1>2. SUFFICES ASSUME NEW u \in Tareas, Esperando(tarea'[u])
               PROVE  /\ tarea'[u].pago \notin enlace'
                      /\ pago'[tarea'[u].pago].estado = "PENDIENTE"
                      /\ \A otra \in Tareas : tarea'[otra].pago = tarea'[u].pago => otra = u
  BY DEF InvPendiente, Esperando
<1>3. /\ Esperando(tarea[u]) /\ tarea'[u].pago = tarea[u].pago
      /\ tarea[u].pago \in Pagos /\ tarea[u].pago # Nada
  <2>1. Esperando(tarea[u]) /\ tarea'[u].pago = tarea[u].pago
    BY <1>1, <1>2
  <2>2. QED
    BY <2>1, TareaActual, NadaNoEsFila DEF Esperando, Bien
<1>4. \A otra \in Tareas : tarea'[otra].pago = tarea'[u].pago => otra = u
  BY <1>1, <1>3 DEF InvPendiente
<1>5. tarea[u].pago \notin enlace /\ pago[tarea[u].pago].estado = "PENDIENTE"
  BY <1>3 DEF InvPendiente
<1>6. CASE u = t
  BY <1>1, <1>2, <1>3, <1>4, <1>5, <1>6
<1>7. CASE u # t
  <2>1. tarea[u].pago # tarea[t].pago
    BY <1>3, <1>7 DEF InvPendiente
  <2>2. QED
    BY <1>3, <1>4, <1>5, <2>1
<1>8. QED
  BY <1>6, <1>7

(* Task t starts on payment q, which no task holds as PENDIENTE.           *)
LEMMA EmpezarPendiente ==
  ASSUME InvTipo, InvPendiente, NEW t \in Tareas, NEW q \in Pagos, NEW i,
         tarea' = [tarea EXCEPT ![t] = i], i.pago = q, enlace' = enlace,
         \A otra \in Tareas : Esperando(tarea[otra]) => tarea[otra].pago # q,
         \A p \in Pagos \ {q} : pago'[p] = pago[p],
         Esperando(i) => /\ q \notin enlace
                         /\ pago'[q].estado = "PENDIENTE"
                         /\ \A otra \in Tareas : tarea[otra].pago # q
  PROVE  InvPendiente'
<1>1. \A otra \in Tareas : tarea'[otra] = IF otra = t THEN i ELSE tarea[otra]
  BY DEF InvTipo, TypeOK
<1>2. SUFFICES ASSUME NEW u \in Tareas, Esperando(tarea'[u])
               PROVE  /\ tarea'[u].pago \notin enlace'
                      /\ pago'[tarea'[u].pago].estado = "PENDIENTE"
                      /\ \A otra \in Tareas : tarea'[otra].pago = tarea'[u].pago => otra = u
  BY DEF InvPendiente, Esperando
<1>3. CASE u = t
  BY <1>1, <1>2, <1>3
<1>4. CASE u # t
  <2>1. Esperando(tarea[u]) /\ tarea'[u] = tarea[u]
    BY <1>1, <1>2, <1>4
  <2>2. tarea[u].pago \in Pagos \ {q}
    BY <2>1, TareaActual DEF Esperando, Bien
  <2>3. QED
    BY <1>1, <2>1, <2>2 DEF InvPendiente
<1>5. QED
  BY <1>3, <1>4

LEMMA TerminarPendiente ==
  ASSUME InvTipo, InvPendiente, NEW t \in Tareas, Responder(t) \/ Lanzar(t),
         \A p \in Pagos \ {tarea[t].pago} :
           pago'[p] = pago[p] /\ (p \in enlace' => p \in enlace)
  PROVE  InvPendiente'
<1>1. Libre.pago = Nada /\ ~Esperando(Libre)
  BY DEF Libre, Esperando, ConPago
<1>2. QED
  BY <1>1, SeguirPendiente DEF Responder, Lanzar

LEMMA CheckoutPendiente ==
  ASSUME InvTipo, InvPendiente, NEW t \in Tareas, NEW q \in Pagos, InsertarPago(q),
         NEW i, i.pago = q, tarea' = [tarea EXCEPT ![t] = i], enlace' = enlace
  PROVE  InvPendiente'
<1>1. pago[q] = Nada /\ pago' = [pago EXCEPT ![q] = PagoNuevo]
      /\ pago \in [Pagos -> FilaPago \cup {Nada}]
  BY DEF InsertarPago, InvTipo, TypeOK
<1>2. \A otra \in Tareas : tarea[otra].pago # q
  BY <1>1 DEF InvTipo, TareaOK, Bien
<1>3. q \notin enlace
  BY <1>1 DEF InvTipo, EnlacesOK
<1>4. pago'[q].estado = "PENDIENTE"
  BY <1>1 DEF PagoNuevo
<1>5. QED
  BY <1>1, <1>2, <1>3, <1>4, EmpezarPendiente

LEMMA AtenderPendiente ==
  ASSUME InvTipo, InvPendiente, NEW t \in Tareas, NEW a \in Avisos, Atender(t, a),
         RefDe[a[1]] \in enlace, UNCHANGED <<pago, enlace>>
  PROVE  InvPendiente'
<1> DEFINE q == RefDe[a[1]]
           i == [Libre EXCEPT !.pc = "consultar", !.tipo = "webhook", !.aviso = a,
                              !.pago = q, !.usuario = Solicitud[q].usuario]
<1>1. q \in Pagos /\ tarea' = [tarea EXCEPT ![t] = i]
  BY SuscripcionAssumption DEF Atender, Avisos
<1>2. i.pago = q /\ ~Esperando(i)
  BY DEF Libre, Esperando, ConPago
<1>3. \A otra \in Tareas : Esperando(tarea[otra]) => tarea[otra].pago # q
  BY DEF InvPendiente
<1>4. QED
  BY <1>1, <1>2, <1>3, EmpezarPendiente

LEMMA IniciarPendiente ==
  ASSUME InvTipo, InvPendiente, NEW t \in Tareas, Iniciar(t)
  PROVE  InvPendiente'
<1>1. ASSUME NEW q \in Pagos, CheckoutMercadoPago(t, q) PROVE InvPendiente'
  <2>1. TareaCheckout(q, "preferencia", PagoNuevo).pago = q
    BY DEF TareaCheckout, Libre
  <2>2. QED
    BY <1>1, <2>1, CheckoutPendiente DEF CheckoutMercadoPago, externas
<1>2. ASSUME NEW q \in Pagos, CheckoutSimulado(t, q) PROVE InvPendiente'
  <2>1. TareaCheckout(q, "cargarPago", [PagoNuevo EXCEPT !.estado = "APROBADO"]).pago = q
    BY DEF TareaCheckout, Libre
  <2>2. QED
    BY <1>2, <2>1, CheckoutPendiente DEF CheckoutSimulado, externas
<1>3. ASSUME NEW q \in Pagos, CheckoutSinMedio(t, q) PROVE InvPendiente'
  <2>1. pago[q] = Nada /\ pago' = [pago EXCEPT ![q] = PagoNuevo] /\ tarea' = tarea
        /\ enlace' = enlace
    BY <1>3 DEF CheckoutSinMedio, InsertarPago, externas
  <2>2. \A u \in Tareas : tarea[u].pago # q
    BY <2>1 DEF InvTipo, TareaOK, Bien
  <2>3. \A u \in Tareas : pago'[tarea[u].pago] = pago[tarea[u].pago]
    BY <2>1, <2>2 DEF InvTipo, TypeOK
  <2>4. QED
    BY <2>1, <2>3 DEF InvPendiente
<1>4. ASSUME NEW u \in Usuarios, IniciarResumen(t, u) PROVE InvPendiente'
  <2> DEFINE i == [Libre EXCEPT !.pc = "leerSubDef", !.tipo = "resumen", !.usuario = u]
  <2>1. i.pago = Nada /\ ~Esperando(i)
    BY DEF Libre, Esperando, ConPago
  <2>2. QED
    BY <1>4, <2>1, SeguirPendiente DEF IniciarResumen, externas
<1>5. ASSUME NEW a \in Avisos, RecibirAviso(t, a) PROVE InvPendiente'
  BY <1>5, AtenderPendiente DEF RecibirAviso, externas, InvTipo, EnlacesOK
<1>6. ASSUME NEW a \in Avisos, RecibirDuplicado(t, a) PROVE InvPendiente'
  <2>1. RefDe[a[1]] \in enlace
    BY <1>6 DEF RecibirDuplicado, InvTipo, EnlacesOK
  <2>2. QED
    BY <1>6, <2>1, AtenderPendiente DEF RecibirDuplicado
<1>7. QED
  BY <1>1, <1>2, <1>3, <1>4, <1>5, <1>6 DEF Iniciar

LEMMA LocalPendiente ==
  ASSUME InvTipo, InvPendiente, NEW t \in Tareas,
         \/ Consultar(t) \/ LeerPlan(t) \/ FaltaSub(t) \/ CalcularPeriodo(t) \/ LeerPago(t)
         \/ CargarSub(t) \/ SinAltaPosible(t) \/ PrepararAlta(t) \/ InsertarSub(t)
         \/ CargarPago(t) \/ CrearPreferencia(t)
  PROVE  InvPendiente'
<1> DEFINE i == tarea'[t]
<1>1. tarea[t] \in Tarea /\ tarea \in [Tareas -> Tarea]
  BY TareaActual DEF InvTipo, TypeOK
<1>2. /\ tarea' = [tarea EXCEPT ![t] = i]
      /\ UNCHANGED <<pago, enlace>>
  BY <1>1 DEF Consultar, CrearPreferencia, LeerPlan, FaltaSub, CalcularPeriodo, CargarSub, LeerPago,
     CargarPago, SinAltaPosible, PrepararAlta, InsertarSub, Ir, externas
<1>3. i.pago = tarea[t].pago
  BY <1>1 DEF Consultar, CrearPreferencia, LeerPlan, FaltaSub, CalcularPeriodo, CargarSub, LeerPago,
     CargarPago, SinAltaPosible, PrepararAlta, InsertarSub, Ir, Tarea
<1>4. Esperando(i) => Esperando(tarea[t])
  <2>1. CASE LeerPago(t)
    <3>1. pago[tarea[t].pago] \in FilaPago
      BY <2>1, TareaActual DEF LeerPago, En, Bien, ConAviso, InvTipo, TypeOK
    <3>2. i.filaPago.estado # "PENDIENTE"
      BY <1>1, <2>1, <3>1 DEF LeerPago, EstadoSegun, Tarea, FilaPago
    <3>3. QED
      BY <3>2 DEF Esperando
  <2>2. CASE CrearPreferencia(t)
    <3>1. tarea[t].filaPago \in FilaPago /\ tarea[t].pc = "preferencia"
      BY <2>2, TareaActual DEF CrearPreferencia, En, Bien, ConPago
    <3>2. i.filaPago.estado = tarea[t].filaPago.estado
      BY <1>1, <2>2, <3>1 DEF CrearPreferencia, Tarea, FilaPago
    <3>3. QED
      BY <3>1, <3>2 DEF Esperando, ConPago
  <2>3. CASE ~LeerPago(t) /\ ~CrearPreferencia(t)
    BY <1>1, <2>3 DEF Consultar, LeerPlan, FaltaSub, CalcularPeriodo, CargarSub,
       CargarPago, SinAltaPosible, PrepararAlta, InsertarSub, Ir, En, Tarea, Esperando, ConPago
  <2>4. QED
    BY <2>1, <2>2, <2>3
<1>5. QED
  BY <1>2, <1>3, <1>4, SeguirPendiente

LEMMA GuardarPendiente ==
  ASSUME InvTipo, InvPendiente, NEW t \in Tareas,
         GuardarPreferencia(t) \/ GuardarRechazo(t) \/ GuardarAprobado(t)
  PROVE  InvPendiente'
<1>1. PersistirPago(t)
  BY DEF GuardarPreferencia, GuardarRechazo, GuardarAprobado
<1>2. \A p \in Pagos \ {tarea[t].pago} :
        pago'[p] = pago[p] /\ (p \in enlace' => p \in enlace)
  BY <1>1 DEF PersistirPago, GuardarPreferencia, GuardarRechazo, GuardarAprobado, externas,
     InvTipo, TypeOK
<1>3. CASE GuardarPreferencia(t) \/ GuardarRechazo(t)
  BY <1>2, <1>3, TerminarPendiente DEF GuardarPreferencia, GuardarRechazo
<1>4. CASE GuardarAprobado(t)
  <2> DEFINE i == [tarea[t] EXCEPT !.pc = "leerPlan", !.filaPago = Nada, !.cols = {}]
  <2>1. i.pago = tarea[t].pago /\ i.pc = "leerPlan"
    BY TareaActual DEF Tarea
  <2>2. ~Esperando(i) /\ i.pago \in {tarea[t].pago, Nada}
    BY <2>1 DEF Esperando, ConPago
  <2>3. tarea' = [tarea EXCEPT ![t] = i]
    BY <1>4 DEF GuardarAprobado
  <2>4. QED
    BY <1>2, <2>2, <2>3, SeguirPendiente
<1>5. QED
  BY <1>3, <1>4

LEMMA NextPendiente == InvTipo /\ InvPendiente /\ [Next]_vars => InvPendiente'
<1>1. SUFFICES ASSUME InvTipo, InvPendiente, [Next]_vars PROVE InvPendiente'
  OBVIOUS
<1>2. ASSUME NEW t \in Tareas,
             \/ ConsultaFallida(t) \/ IgnorarAviso(t) \/ PlanNoDisponible(t)
             \/ ClaveDuplicada(t) \/ ResponderResumen(t) \/ SigueSinSub(t)
             \/ GuardarSub(t) \/ Fallar(t)
      PROVE  InvPendiente'
  BY <1>1, <1>2, TerminarPendiente
  DEF ConsultaFallida, IgnorarAviso, PlanNoDisponible, ClaveDuplicada, ResponderResumen,
      SigueSinSub, GuardarSub, Fallar, externas
<1>3. ASSUME NEW t \in Tareas, Avanzar(t) PROVE InvPendiente'
  BY <1>1, <1>2, <1>3, LocalPendiente, GuardarPendiente DEF Avanzar
<1>4. CASE Entorno
  <2>1. UNCHANGED <<pago, enlace>>
    BY <1>4 DEF Entorno, Reiniciar, CambiarCobro, PasarDias, RetirarPlan
  <2>2. CASE Reiniciar
    BY <2>2 DEF Reiniciar, Libre, InvPendiente, Esperando, ConPago
  <2>3. CASE tarea' = tarea
    BY <1>1, <2>1, <2>3 DEF InvPendiente
  <2>4. QED
    BY <1>4, <2>2, <2>3 DEF Entorno, CambiarCobro, PasarDias, RetirarPlan
<1>5. CASE UNCHANGED vars
  BY <1>1, <1>5 DEF vars, externas, InvPendiente
<1>6. QED
  BY <1>1, <1>2, <1>3, <1>4, <1>5, IniciarPendiente DEF Next

(* The writers of a payment row: none of them puts PENDIENTE back.         *)
LEMMA PagoNoVuelve ==
  ASSUME InvTipo, InvPendiente, [Next]_vars, NEW p \in Pagos,
         pago[p] # Nada, pago[p].estado # "PENDIENTE"
  PROVE  pago'[p].estado # "PENDIENTE"
<1>1. ASSUME NEW t \in Tareas, Iniciar(t) PROVE pago'[p] = pago[p]
  <2>1. \A q \in Pagos : InsertarPago(q) => pago'[p] = pago[p]
    BY DEF InsertarPago, InvTipo, TypeOK
  <2>2. QED
    BY <1>1, <2>1 DEF Iniciar, CheckoutMercadoPago, CheckoutSimulado, CheckoutSinMedio,
       RecibirAviso, RecibirDuplicado, IniciarResumen
<1>2. ASSUME NEW t \in Tareas, Avanzar(t) PROVE pago'[p].estado # "PENDIENTE"
  <2>1. ASSUME En(t, "guardarPago"), PersistirPago(t) PROVE pago'[p].estado # "PENDIENTE"
    <3>1. CASE tarea[t].pago # p
      BY <2>1, <3>1 DEF PersistirPago, InvTipo, TypeOK
    <3>2. CASE tarea[t].pago = p
      <4>1. tarea[t].filaPago.estado # "PENDIENTE"
        BY <2>1, <3>2 DEF En, InvPendiente, Esperando, ConPago
      <4>2. pago'[p] = FusionPago(pago[p], tarea[t].filaPago, tarea[t].cols)
        BY <2>1, <3>2 DEF PersistirPago, InvTipo, TypeOK
      <4>3. QED
        BY <4>1, <4>2 DEF FusionPago
    <3>3. QED
      BY <3>1, <3>2
  <2>2. QED
    BY <1>2, <2>1 DEF Avanzar, CrearPreferencia, CargarPago, GuardarPreferencia,
       GuardarAprobado, GuardarRechazo, Consultar, ConsultaFallida, IgnorarAviso, LeerPago,
       PlanNoDisponible, LeerPlan, FaltaSub, CalcularPeriodo, CargarSub, GuardarSub, SinAltaPosible,
       PrepararAlta, InsertarSub, ClaveDuplicada, ResponderResumen, SigueSinSub
<1>3. ASSUME NEW t \in Tareas, Fallar(t) PROVE pago'[p] = pago[p]
  BY <1>3 DEF Fallar
<1>4. CASE Entorno \/ UNCHANGED vars
  BY <1>4 DEF Entorno, Reiniciar, CambiarCobro, PasarDias, RetirarPlan, vars
<1>5. QED
  BY <1>1, <1>2, <1>3, <1>4 DEF Next

(* Once a webhook has decided a payment, no write of its checkout takes it *)
(* back to PENDIENTE (crearCheckout returns the link after its last save). *)
THEOREM PendienteNoVuelve == Spec => NuncaVuelveAPendiente
<1> DEFINE Sigue == \A p \in Pagos :
                      pago[p] # Nada /\ pago[p].estado # "PENDIENTE" => pago'[p].estado # "PENDIENTE"
<1>1. Init => InvTipo /\ InvPendiente
  BY InitTipo, InitPendiente
<1>2. InvTipo /\ InvPendiente /\ [Next]_vars => (InvTipo /\ InvPendiente)'
  BY NextTipo, NextPendiente
<1>3. InvTipo /\ InvPendiente /\ [Next]_vars => [Sigue]_vars
  BY PagoNoVuelve
<1>4. QED
  BY <1>1, <1>2, <1>3, PTL DEF Spec, NuncaVuelveAPendiente

-----------------------------------------------------------------------------
(***************************************************************************)
(* With one request at a time, Suscripcion implements Acreditacion.  What  *)
(* the request read before an await is then still so when it writes, and   *)
(* the invariant says it: the row it is going to save is the one that the  *)
(* table leads to.                                                         *)
(***************************************************************************)

UnaSola == \A t, otra \in Tareas : t = otra

(* What a request i is going to write is what the subscriptions sb, the    *)
(* charges cob and the date lead to.                                       *)
AlDia(i, sb, cob, hoy) ==
  /\ i.pc = "libre" => i.pago = Nada
  /\ i.pc = "insertarSub" => \E dia \in 0..hoy : i.filaSub = FilaPorDefecto(dia)
  /\ i.pc \in {"cargarSub", "guardarSub"} =>
       \E dia \in cob[i.pago]..hoy :
         i.filaSub = FilaTrasPago(sb[i.usuario], Solicitud[i.pago].plan,
                                  Solicitud[i.pago].ciclo, dia)
  /\ i.pc = "guardarSub" =>
       i.cols = ColumnasDistintas(i.filaSub, sb[i.usuario], ColumnasSub)

(* A payment with row fila was charged on day dia.                         *)
EnFecha(dia, fila, hoy) == dia # Nada => dia \in 0..hoy /\ fila # Nada

InvPromesa ==
  /\ solapados = {}
  /\ \A p \in Pagos : EnFecha(cobradoEn[p], pago[p], ahora)
  /\ \A t \in Tareas : AlDia(tarea[t], sub, cobradoEn, ahora)

Visible == <<ahora, cobradoEn, acreditaciones, sub>>

-----------------------------------------------------------------------------
LEMMA LibreAlDia == \A sb, cob, hoy : AlDia(Libre, sb, cob, hoy)
  BY DEF AlDia, Libre

(* Both specifications use the module Planes.                              *)
LEMMA MismosPlanes ==
  /\ \A dia : Promesa!FilaPorDefecto(dia) = FilaPorDefecto(dia)
  /\ \A fila, plan, ciclo, dia :
       Promesa!FilaTrasPago(fila, plan, ciclo, dia) = FilaTrasPago(fila, plan, ciclo, dia)
  BY DEF Promesa!FilaPorDefecto, FilaPorDefecto, Promesa!FilaHasta, FilaHasta,
     Promesa!FilaTrasPago, FilaTrasPago, Promesa!InicioPeriodo, InicioPeriodo,
     Promesa!DiasPorCiclo, DiasPorCiclo

LEMMA InitPromesa == Init => InvPromesa
  BY LibreAlDia DEF Init, InvPromesa, EnFecha

LEMMA IniciaPromesa == Init => Promesa!Init
<1> SUFFICES ASSUME Init PROVE Promesa!Init
  OBVIOUS
<1>1. {p \in Pagos : acreditaciones[p] > 0} = {}
  <2>1. \A p \in Pagos : acreditaciones[p] = 0
    BY DEF Init
  <2>2. \A p \in Pagos : ~(acreditaciones[p] > 0)
    BY <2>1
  <2> QED
    BY <2>2
<1> QED
  BY <1>1, MismosPlanes DEF Init, Promesa!Init

(* What the abstract specification does not see.                           *)
LEMMA NoSeVe == UNCHANGED Visible => UNCHANGED Promesa!vars
  BY DEF Visible, Promesa!vars

(* The only request goes on to i.                                          *)
LEMMA PasoPromesa ==
  ASSUME UnaSola, InvPromesa, NEW t \in Tareas, NEW i, tarea \in [Tareas -> Tarea],
         tarea' = [tarea EXCEPT ![t] = i], AlDia(i, sub', cobradoEn', ahora'),
         UNCHANGED <<ahora, solapados>>,
         \A p \in Pagos : pago[p] # Nada => pago'[p] # Nada,
         \A p \in Pagos : \/ cobradoEn'[p] = cobradoEn[p]
                          \/ EnFecha(cobradoEn'[p], pago'[p], ahora)
  PROVE  InvPromesa'
<1>1. \A otra \in Tareas : tarea'[otra] = i
  BY DEF UnaSola
<1>2. \A p \in Pagos : EnFecha(cobradoEn'[p], pago'[p], ahora')
  BY DEF InvPromesa, EnFecha
<1> QED
  BY <1>1, <1>2 DEF InvPromesa

(* It goes on, or ends, and nothing is seen of it.                         *)
LEMMA PasoInvisible ==
  ASSUME UnaSola, InvTipo, InvPromesa, NEW t \in Tareas, NEW i,
         tarea' = [tarea EXCEPT ![t] = i], AlDia(i, sub, cobradoEn, ahora),
         UNCHANGED <<Visible, solapados>>,
         \A p \in Pagos : pago[p] # Nada => pago'[p] # Nada
  PROVE  InvPromesa' /\ [Promesa!Next]_(Promesa!vars)
<1>1. UNCHANGED <<ahora, cobradoEn, acreditaciones, sub>>
  BY DEF Visible
<1>2. InvPromesa'
  <2>1. tarea \in [Tareas -> Tarea]
    BY DEF InvTipo, TypeOK
  <2> QED
    BY <1>1, <2>1, PasoPromesa
<1> QED
  BY <1>2, NoSeVe

LEMMA TerminarPromesa ==
  ASSUME UnaSola, InvTipo, InvPromesa, NEW t \in Tareas, Responder(t) \/ Lanzar(t),
         UNCHANGED <<Visible, solapados>>,
         \A p \in Pagos : pago[p] # Nada => pago'[p] # Nada
  PROVE  InvPromesa' /\ [Promesa!Next]_(Promesa!vars)
  BY LibreAlDia, PasoInvisible DEF Responder, Lanzar

-----------------------------------------------------------------------------
(* A charge is made: Cobrar.                                               *)
LEMMA CobrarVisto ==
  ASSUME InvTipo, NEW p \in Pagos, cobradoEn[p] = Nada,
         cobradoEn' = [cobradoEn EXCEPT ![p] = ahora],
         UNCHANGED <<ahora, acreditaciones, sub>>
  PROVE  Promesa!Next
<1>1. Promesa!Cobrar(p)
  BY DEF Promesa!Cobrar
<1> QED
  BY <1>1 DEF Promesa!Next

LEMMA IniciarPromesa ==
  ASSUME UnaSola, InvTipo, InvPromesa, NEW t \in Tareas, Iniciar(t)
  PROVE  InvPromesa' /\ [Promesa!Next]_(Promesa!vars)
<1>0. tarea \in [Tareas -> Tarea] /\ cobradoEn \in [Pagos -> Nat \cup {Nada}] /\ ahora \in Nat
  BY DEF InvTipo, TypeOK
<1>1. ASSUME NEW p \in Pagos, CheckoutMercadoPago(t, p)
      PROVE  InvPromesa' /\ [Promesa!Next]_(Promesa!vars)
  <2> DEFINE i == TareaCheckout(p, "preferencia", PagoNuevo)
  <2>1. i.pc = "preferencia"
    BY DEF TareaCheckout, Libre
  <2>2. /\ InsertarPago(p) /\ tarea' = [tarea EXCEPT ![t] = i]
        /\ UNCHANGED <<Visible, solapados>>
    BY <1>1 DEF CheckoutMercadoPago, externas, historia, Visible
  <2> HIDE DEF i
  <2>3. AlDia(i, sub, cobradoEn, ahora)
    BY <2>1 DEF AlDia
  <2>4. \A q \in Pagos : pago[q] # Nada => pago'[q] # Nada
    BY <2>2, InsertarPagoTipo
  <2> QED
    BY <2>2, <2>3, <2>4, PasoInvisible
<1>2. ASSUME NEW p \in Pagos, CheckoutSimulado(t, p)
      PROVE  InvPromesa' /\ [Promesa!Next]_(Promesa!vars)
  <2> DEFINE i == TareaCheckout(p, "cargarPago", [PagoNuevo EXCEPT !.estado = "APROBADO"])
  <2>1. i.pc = "cargarPago"
    BY DEF TareaCheckout, Libre
  <2>2. /\ InsertarPago(p) /\ tarea' = [tarea EXCEPT ![t] = i]
        /\ cobradoEn' = [cobradoEn EXCEPT ![p] = ahora]
        /\ UNCHANGED <<ahora, acreditaciones, sub, solapados>>
    BY <1>2 DEF CheckoutSimulado, externas
  <2> HIDE DEF i
  <2>3. AlDia(i, sub', cobradoEn', ahora')
    BY <2>1 DEF AlDia
  <2>4. pago'[p] # Nada /\ \A q \in Pagos : pago[q] # Nada => pago'[q] # Nada
    BY <2>2, InsertarPagoTipo
  <2>5. cobradoEn[p] = Nada
    BY <2>2 DEF InsertarPago, InvPromesa, EnFecha
  <2>6. ASSUME NEW q \in Pagos
        PROVE  cobradoEn'[q] = cobradoEn[q] \/ EnFecha(cobradoEn'[q], pago'[q], ahora)
    <3>1. CASE q = p
      <4>1. cobradoEn'[p] = ahora /\ ahora \in 0..ahora
        BY <1>0, <2>2
      <4> QED
        BY <2>4, <3>1, <4>1 DEF EnFecha
    <3>2. CASE q # p
      BY <1>0, <2>2, <3>2
    <3> QED
      BY <3>1, <3>2
  <2>7. InvPromesa'
    BY <1>0, <2>2, <2>3, <2>4, <2>6, PasoPromesa
  <2> QED
    BY <2>2, <2>5, <2>7, CobrarVisto
<1>3. ASSUME NEW p \in Pagos, CheckoutSinMedio(t, p)
      PROVE  InvPromesa' /\ [Promesa!Next]_(Promesa!vars)
  <2>1. InsertarPago(p) /\ tarea' = [tarea EXCEPT ![t] = tarea[t]] /\ UNCHANGED <<Visible, solapados>>
    BY <1>0, <1>3 DEF CheckoutSinMedio, externas, historia, Visible
  <2>2. AlDia(tarea[t], sub, cobradoEn, ahora)
    BY DEF InvPromesa
  <2>3. \A q \in Pagos : pago[q] # Nada => pago'[q] # Nada
    BY <2>1, InsertarPagoTipo
  <2> QED
    BY <2>1, <2>2, <2>3, PasoInvisible
<1>4. ASSUME NEW a \in Avisos, Atender(t, a), UNCHANGED <<Visible, pago>>
      PROVE  InvPromesa' /\ [Promesa!Next]_(Promesa!vars)
  <2> DEFINE q == RefDe[a[1]]
             i == [Libre EXCEPT !.pc = "consultar", !.tipo = "webhook", !.aviso = a,
                                !.pago = q, !.usuario = Solicitud[q].usuario]
  <2>1. tarea' = [tarea EXCEPT ![t] = i] /\ tarea[t].pc = "libre" /\ q \in Pagos
    BY <1>4, SuscripcionAssumption DEF Atender, En, Avisos
  <2>2. \A otra \in Tareas : tarea[otra].pago # q
    BY <2>1, NadaNoEsFila DEF UnaSola, InvPromesa, AlDia
  <2>3. solapados' = solapados
    BY <1>4, <2>2 DEF Atender, EnCurso
  <2>4. i.pc = "consultar"
    BY DEF Libre
  <2> HIDE DEF i
  <2>5. AlDia(i, sub, cobradoEn, ahora)
    BY <2>4 DEF AlDia
  <2> QED
    BY <1>4, <2>1, <2>3, <2>5, PasoInvisible
<1>5. ASSUME NEW u \in Usuarios, IniciarResumen(t, u)
      PROVE  InvPromesa' /\ [Promesa!Next]_(Promesa!vars)
  <2> DEFINE i == [Libre EXCEPT !.pc = "leerSubDef", !.tipo = "resumen", !.usuario = u]
  <2>1. tarea' = [tarea EXCEPT ![t] = i] /\ UNCHANGED <<Visible, solapados, pago>>
    BY <1>5 DEF IniciarResumen, externas, historia, Visible
  <2>2. i.pc = "leerSubDef"
    BY DEF Libre
  <2> HIDE DEF i
  <2>3. AlDia(i, sub, cobradoEn, ahora)
    BY <2>2 DEF AlDia
  <2> QED
    BY <2>1, <2>3, PasoInvisible
<1>6. ASSUME NEW a \in Avisos, RecibirAviso(t, a) \/ RecibirDuplicado(t, a)
      PROVE  Atender(t, a) /\ UNCHANGED <<Visible, pago>>
  BY <1>6 DEF RecibirAviso, RecibirDuplicado, externas, Visible
<1> QED
  BY <1>1, <1>2, <1>3, <1>4, <1>5, <1>6 DEF Iniciar

(* The last write of a payment: Acreditar.                                 *)
LEMMA GuardarSubPromesa ==
  ASSUME UnaSola, InvTipo, Respaldo, InvUnaVez, InvPromesa, NEW t \in Tareas, GuardarSub(t)
  PROVE  InvPromesa' /\ [Promesa!Next]_(Promesa!vars)
<1> DEFINE i == tarea[t]
<1>0. PICK p \in Pagos : p = i.pago
  BY TareaActual DEF GuardarSub, En, Bien, Acredita, Aplicando
<1> DEFINE s == Solicitud[p]
           u == i.usuario
<1>1. /\ i.pc = "guardarSub" /\ tarea' = [tarea EXCEPT ![t] = Libre]
      /\ sub' = [sub EXCEPT ![u] = FusionSub(@, i.filaSub, i.cols)]
      /\ acreditaciones' = [acreditaciones EXCEPT ![p] = @ + 1]
      /\ UNCHANGED <<ahora, pago, cobradoEn, solapados>>
  BY <1>0 DEF GuardarSub, En, Responder, externas
<1>2. /\ sub \in [Usuarios -> FilaSub \cup {Nada}] /\ acreditaciones \in [Pagos -> Nat]
      /\ tarea \in [Tareas -> Tarea]
  BY DEF InvTipo, TypeOK
<1>3. /\ p \in Pagos /\ u = s.usuario /\ u \in Usuarios
      /\ i.filaSub \in FilaSub /\ sub[u] # Nada /\ sub[u] \in FilaSub
  <2>1. Bien(i, pago, sub)
    BY TareaActual
  <2>2. p \in Pagos /\ u = s.usuario /\ i.filaSub \in FilaSub /\ sub[u] # Nada
    BY <1>0, <1>1, <2>1 DEF Bien, Acredita, Aplicando
  <2>3. s.usuario \in Usuarios
    BY <2>2, SuscripcionAssumption
  <2> QED
    BY <1>2, <2>2, <2>3
<1>4. cobradoEn[p] # Nada
  BY <1>0, <1>1 DEF Respaldo, Pagada, Acredita, Aplicando
<1>5. acreditaciones[p] = 0
  <2>1. UnaVez(p)
    BY <1>3 DEF InvUnaVez, InvPromesa
  <2>2. Orden(i, pago[p], acreditaciones[p])
    BY <1>0, <2>1 DEF UnaVez
  <2> QED
    BY <1>1, <2>2 DEF Orden, Acredita, Aplicando
<1>6. PICK dia \in cobradoEn[p]..ahora :
        i.filaSub = FilaTrasPago(sub[u], s.plan, s.ciclo, dia)
  BY <1>0, <1>1 DEF InvPromesa, AlDia
<1>7. FusionSub(sub[u], i.filaSub, i.cols) = i.filaSub
  <2>1. i.cols = ColumnasDistintas(i.filaSub, sub[u], ColumnasSub)
    BY <1>1 DEF InvPromesa, AlDia
  <2>2. \A k \in ColumnasSub : k \notin i.cols => i.filaSub[k] = sub[u][k]
    BY <2>1 DEF ColumnasDistintas
  <2>3. /\ "plan" \notin i.cols => i.filaSub.plan = sub[u].plan
        /\ "ciclo" \notin i.cols => i.filaSub.ciclo = sub[u].ciclo
        /\ "validoHasta" \notin i.cols => i.filaSub.validoHasta = sub[u].validoHasta
        /\ "graciaHasta" \notin i.cols => i.filaSub.graciaHasta = sub[u].graciaHasta
    BY <2>2 DEF ColumnasSub
  <2> QED
    BY <1>3, <2>3 DEF FusionSub, FilaSub
<1>8. sub' = [sub EXCEPT ![s.usuario] = FilaTrasPago(@, s.plan, s.ciclo, dia)]
  BY <1>1, <1>2, <1>3, <1>6, <1>7
<1>9. {q \in Pagos : acreditaciones'[q] > 0} = {q \in Pagos : acreditaciones[q] > 0} \cup {p}
  <2>1. \A q \in Pagos : acreditaciones'[q] > 0 <=> (acreditaciones[q] > 0 \/ q = p)
    BY <1>1, <1>2, <1>3, <1>5
  <2> QED
    BY <1>3, <2>1
<1>10. p \notin {q \in Pagos : acreditaciones[q] > 0}
  BY <1>5
<1>11. Promesa!Acreditar(p)
  BY <1>1, <1>3, <1>4, <1>8, <1>9, <1>10, MismosPlanes DEF Promesa!Acreditar
<1>12. Promesa!Next
  BY <1>3, <1>11 DEF Promesa!Next
<1>13. InvPromesa'
  <2>1. AlDia(Libre, sub', cobradoEn', ahora')
    BY LibreAlDia
  <2> QED
    BY <1>1, <1>2, <2>1, PasoPromesa
<1> QED
  BY <1>12, <1>13

(* The default row is inserted: Alta.                                      *)
LEMMA InsertarSubPromesa ==
  ASSUME UnaSola, InvTipo, InvPromesa, NEW t \in Tareas, InsertarSub(t)
  PROVE  InvPromesa' /\ [Promesa!Next]_(Promesa!vars)
<1> DEFINE u == tarea[t].usuario
           i == [tarea[t] EXCEPT !.pc = "releerSub", !.filaSub = Nada]
<1>1. /\ tarea[t].pc = "insertarSub" /\ sub[u] = Nada /\ tarea' = [tarea EXCEPT ![t] = i]
      /\ sub' = [sub EXCEPT ![u] = tarea[t].filaSub]
      /\ UNCHANGED <<ahora, pago, cobradoEn, acreditaciones, solapados>>
  BY DEF InsertarSub, En, PuedeInsertar, externas, historia
<1>2. tarea[t] \in Tarea /\ tarea \in [Tareas -> Tarea] /\ u \in Usuarios
  BY <1>1, TareaActual DEF Bien, Alta, InvTipo, TypeOK
<1>3. PICK dia \in 0..ahora : tarea[t].filaSub = FilaPorDefecto(dia)
  BY <1>1 DEF InvPromesa, AlDia
<1>4. Promesa!Alta(u)
  BY <1>1, <1>3, MismosPlanes DEF Promesa!Alta
<1>5. Promesa!Next
  BY <1>2, <1>4 DEF Promesa!Next
<1>6. InvPromesa'
  <2>1. i.pc = "releerSub"
    BY <1>2 DEF Tarea
  <2> HIDE DEF i
  <2>2. AlDia(i, sub', cobradoEn', ahora')
    BY <2>1 DEF AlDia
  <2> QED
    BY <1>1, <1>2, <2>2, PasoPromesa
<1> QED
  BY <1>5, <1>6

(* Steps after which nothing is about to be written to a subscription.     *)
LEMMA LocalPromesa ==
  ASSUME UnaSola, InvTipo, InvPromesa, NEW t \in Tareas,
         \/ CrearPreferencia(t) \/ CargarPago(t) \/ GuardarAprobado(t) \/ Consultar(t)
         \/ LeerPago(t) \/ LeerPlan(t) \/ FaltaSub(t) \/ SinAltaPosible(t)
  PROVE  InvPromesa' /\ [Promesa!Next]_(Promesa!vars)
<1> DEFINE i == tarea'[t]
<1>1. tarea[t] \in Tarea /\ tarea \in [Tareas -> Tarea]
  BY TareaActual DEF InvTipo, TypeOK
<1>2. /\ tarea' = [tarea EXCEPT ![t] = i] /\ UNCHANGED <<Visible, solapados>>
      /\ i.pc \in {"cargarPago", "guardarPago", "leerPlan", "leerPago", "leerSub",
                   "leerSubDef", "releerSub"}
  BY <1>1 DEF CrearPreferencia, CargarPago, GuardarAprobado, Consultar, LeerPago, LeerPlan,
     FaltaSub, SinAltaPosible, Ir, Tarea, externas, historia, Visible
<1>3. \A p \in Pagos : pago[p] # Nada => pago'[p] # Nada
  <2>1. GuardarAprobado(t) => En(t, "guardarPago") /\ PersistirPago(t)
    BY DEF GuardarAprobado
  <2>2. GuardarAprobado(t) \/ pago' = pago
    BY DEF CrearPreferencia, CargarPago, Consultar, LeerPago, LeerPlan, FaltaSub, SinAltaPosible
  <2> QED
    BY <2>1, <2>2, PersistirPagoTipo
<1> HIDE DEF i
<1>4. AlDia(i, sub, cobradoEn, ahora)
  BY <1>2 DEF AlDia
<1> QED
  BY <1>2, <1>3, <1>4, PasoInvisible

LEMMA CalcularPeriodoPromesa ==
  ASSUME UnaSola, InvTipo, Respaldo, InvPromesa, NEW t \in Tareas, CalcularPeriodo(t)
  PROVE  InvPromesa' /\ [Promesa!Next]_(Promesa!vars)
<1> DEFINE fila == FilaTrasPago(SubDe(t), PlanDe(t), CicloDe(t), ahora)
           i == [tarea[t] EXCEPT !.pc = "cargarSub", !.filaSub = fila]
<1>1. /\ tarea' = [tarea EXCEPT ![t] = i] /\ UNCHANGED <<Visible, solapados, pago>>
      /\ tarea[t] \in Tarea /\ Acredita(tarea[t]) /\ ahora \in Nat
  BY TareaActual DEF CalcularPeriodo, En, Acredita, Aplicando, Alta, externas, historia, Visible
<1>2. tarea[t].pago \in Pagos /\ cobradoEn[tarea[t].pago] # Nada
  BY <1>1, TareaActual DEF Bien, Respaldo, Pagada
<1>3. ahora \in cobradoEn[tarea[t].pago]..ahora
  BY <1>1, <1>2 DEF InvPromesa, EnFecha
<1>4. /\ i.pc = "cargarSub" /\ i.pago = tarea[t].pago /\ i.usuario = tarea[t].usuario
      /\ i.filaSub = fila
  BY <1>1 DEF Tarea
<1> HIDE DEF i
<1>5. AlDia(i, sub, cobradoEn, ahora)
  BY <1>3, <1>4 DEF AlDia, SubDe, PlanDe, CicloDe
<1> QED
  BY <1>1, <1>5, PasoInvisible

LEMMA CargarSubPromesa ==
  ASSUME UnaSola, InvTipo, InvPromesa, NEW t \in Tareas, CargarSub(t)
  PROVE  InvPromesa' /\ [Promesa!Next]_(Promesa!vars)
<1> DEFINE cols == ColumnasDistintas(tarea[t].filaSub, SubDe(t), ColumnasSub)
           i == [tarea[t] EXCEPT !.pc = "guardarSub", !.cols = cols]
<1>1. /\ tarea' = [tarea EXCEPT ![t] = i] /\ UNCHANGED <<Visible, solapados, pago>>
      /\ tarea[t] \in Tarea /\ tarea[t].pc = "cargarSub"
  BY TareaActual DEF CargarSub, En, externas, historia, Visible
<1>2. /\ i.pc = "guardarSub" /\ i.pago = tarea[t].pago /\ i.usuario = tarea[t].usuario
      /\ i.filaSub = tarea[t].filaSub /\ i.cols = cols
  BY <1>1 DEF Tarea
<1> HIDE DEF i
<1>3. AlDia(tarea[t], sub, cobradoEn, ahora)
  BY DEF InvPromesa
<1>4. AlDia(i, sub, cobradoEn, ahora)
  BY <1>1, <1>2, <1>3 DEF AlDia, SubDe
<1> QED
  BY <1>1, <1>4, PasoInvisible

LEMMA PrepararAltaPromesa ==
  ASSUME UnaSola, InvTipo, InvPromesa, NEW t \in Tareas, PrepararAlta(t)
  PROVE  InvPromesa' /\ [Promesa!Next]_(Promesa!vars)
<1> DEFINE i == [tarea[t] EXCEPT !.pc = "insertarSub", !.filaSub = FilaPorDefecto(ahora)]
<1>1. /\ tarea' = [tarea EXCEPT ![t] = i] /\ UNCHANGED <<Visible, solapados, pago>>
      /\ tarea[t] \in Tarea /\ ahora \in 0..ahora
  <2>1. ahora \in Nat /\ tarea[t] \in Tarea
    BY TareaActual
  <2>2. ahora \in 0..ahora
    BY <2>1
  <2>3. tarea' = [tarea EXCEPT ![t] = i]
    BY DEF PrepararAlta
  <2>4. UNCHANGED <<Visible, solapados, pago>>
    BY DEF PrepararAlta, externas, historia, Visible
  <2> QED
    BY <2>1, <2>2, <2>3, <2>4
<1>2. i.pc = "insertarSub" /\ i.filaSub = FilaPorDefecto(ahora)
  BY <1>1 DEF Tarea
<1> HIDE DEF i
<1>3. AlDia(i, sub, cobradoEn, ahora)
  BY <1>1, <1>2 DEF AlDia
<1> QED
  BY <1>1, <1>3, PasoInvisible

LEMMA AvanzarPromesa ==
  ASSUME UnaSola, InvTipo, Respaldo, InvUnaVez, InvPromesa, NEW t \in Tareas, Avanzar(t)
  PROVE  InvPromesa' /\ [Promesa!Next]_(Promesa!vars)
<1>1. CASE GuardarPreferencia(t) \/ GuardarRechazo(t)
  <2>1. /\ En(t, "guardarPago") /\ PersistirPago(t) /\ Responder(t)
        /\ UNCHANGED <<Visible, solapados>>
    BY <1>1 DEF GuardarPreferencia, GuardarRechazo, externas, historia, Visible
  <2> QED
    BY <2>1, PersistirPagoTipo, TerminarPromesa
<1>2. CASE \/ ConsultaFallida(t) \/ IgnorarAviso(t) \/ PlanNoDisponible(t)
           \/ ClaveDuplicada(t) \/ ResponderResumen(t) \/ SigueSinSub(t)
  <2>1. (Responder(t) \/ Lanzar(t)) /\ UNCHANGED <<Visible, solapados, pago>>
    BY <1>2 DEF ConsultaFallida, IgnorarAviso, PlanNoDisponible, ClaveDuplicada,
       ResponderResumen, SigueSinSub, externas, historia, Visible
  <2> QED
    BY <2>1, TerminarPromesa
<1> QED
  BY <1>1, <1>2, LocalPromesa, CalcularPeriodoPromesa, CargarSubPromesa, PrepararAltaPromesa,
     GuardarSubPromesa, InsertarSubPromesa DEF Avanzar

-----------------------------------------------------------------------------
(* The world around the request.                                           *)

LEMMA CambiarCobroPromesa ==
  ASSUME InvTipo, Respaldo, InvPromesa, NEW c \in Cobros, NEW s \in EstadosMp, CambiarCobro(c, s)
  PROVE  InvPromesa' /\ [Promesa!Next]_(Promesa!vars)
<1>0. PICK p \in Pagos : p = RefDe[c]
  BY SuscripcionAssumption
<1>1. /\ UNCHANGED <<ahora, acreditaciones, sub, tarea, pago, solapados>>
      /\ p \in enlace /\ cobradoEn \in [Pagos -> Nat \cup {Nada}] /\ ahora \in 0..ahora
      /\ pago[p] # Nada
  BY <1>0 DEF CambiarCobro, InvTipo, TypeOK, EnlacesOK
<1>2. CASE s = "approved" /\ cobradoEn[p] = Nada
  <2>1. cobradoEn' = [cobradoEn EXCEPT ![p] = ahora]
    BY <1>0, <1>2 DEF CambiarCobro
  <2>2. \A q \in Pagos : EnFecha(cobradoEn'[q], pago'[q], ahora')
    BY <1>1, <2>1 DEF InvPromesa, EnFecha
  <2>3. ASSUME NEW t \in Tareas PROVE AlDia(tarea[t], sub, cobradoEn', ahora)
    <3>1. AlDia(tarea[t], sub, cobradoEn, ahora)
      BY DEF InvPromesa
    <3>2. CASE tarea[t].pc \in {"cargarSub", "guardarSub"}
      <4>1. tarea[t].pago \in Pagos /\ cobradoEn[tarea[t].pago] # Nada
        BY <3>2, TareaActual DEF Bien, Acredita, Aplicando, Respaldo, Pagada
      <4>2. cobradoEn'[tarea[t].pago] = cobradoEn[tarea[t].pago]
        BY <1>1, <1>2, <2>1, <4>1
      <4> QED
        BY <3>1, <4>2 DEF AlDia
    <3>3. CASE tarea[t].pc \notin {"cargarSub", "guardarSub"}
      BY <3>1, <3>3 DEF AlDia
    <3> QED
      BY <3>2, <3>3
  <2>4. InvPromesa'
    BY <1>1, <2>2, <2>3 DEF InvPromesa
  <2> QED
    BY <1>1, <1>2, <2>1, <2>4, CobrarVisto
<1>3. CASE ~(s = "approved" /\ cobradoEn[p] = Nada)
  <2>1. cobradoEn' = cobradoEn
    BY <1>0, <1>3 DEF CambiarCobro
  <2>2. InvPromesa'
    BY <1>1, <2>1 DEF InvPromesa
  <2>3. UNCHANGED Visible
    BY <1>1, <2>1 DEF Visible
  <2> QED
    BY <2>2, <2>3, NoSeVe
<1> QED
  BY <1>2, <1>3

LEMMA PasarDiasPromesa ==
  ASSUME InvTipo, Respaldo, InvPromesa, NEW d \in Saltos, PasarDias(d)
  PROVE  InvPromesa' /\ [Promesa!Next]_(Promesa!vars)
<1>1. /\ ahora' = ahora + d /\ ahora + d <= MaxDia
      /\ UNCHANGED <<cobradoEn, acreditaciones, sub, tarea, pago, solapados>>
      /\ ahora \in Nat /\ d \in Nat
  BY SuscripcionAssumption DEF PasarDias, historia, InvTipo, TypeOK
<1>2. Promesa!Pasar(d)
  BY <1>1 DEF Promesa!Pasar
<1>3. Promesa!Next
  BY <1>2 DEF Promesa!Next
<1>4. \A q \in Pagos : EnFecha(cobradoEn'[q], pago'[q], ahora')
  BY <1>1 DEF InvPromesa, EnFecha
<1>5. ASSUME NEW t \in Tareas PROVE AlDia(tarea[t], sub, cobradoEn, ahora')
  <2>1. AlDia(tarea[t], sub, cobradoEn, ahora)
    BY DEF InvPromesa
  <2>2. tarea[t].pc \in {"cargarSub", "guardarSub"} =>
          cobradoEn[tarea[t].pago]..ahora \subseteq cobradoEn[tarea[t].pago]..ahora'
    <3>1. SUFFICES ASSUME tarea[t].pc \in {"cargarSub", "guardarSub"}
                   PROVE  cobradoEn[tarea[t].pago]..ahora \subseteq cobradoEn[tarea[t].pago]..ahora'
      OBVIOUS
    <3>2. tarea[t].pago \in Pagos /\ cobradoEn[tarea[t].pago] # Nada
      BY <3>1, TareaActual DEF Bien, Acredita, Aplicando, Respaldo, Pagada
    <3>3. cobradoEn[tarea[t].pago] \in 0..ahora
      BY <3>2 DEF InvPromesa, EnFecha
    <3> QED
      BY <1>1, <3>3
  <2>3. 0..ahora \subseteq 0..ahora'
    BY <1>1
  <2> QED
    BY <2>1, <2>2, <2>3 DEF AlDia
<1>6. InvPromesa'
  BY <1>1, <1>4, <1>5 DEF InvPromesa
<1> QED
  BY <1>3, <1>6

(* Every step keeps the invariant, and is a step of Acreditacion or one    *)
(* that it does not see.                                                   *)
LEMMA NextPromesa ==
  ASSUME UnaSola, InvTipo, Respaldo, InvUnaVez, InvPromesa, [Next]_vars
  PROVE  InvPromesa' /\ [Promesa!Next]_(Promesa!vars)
<1>1. ASSUME NEW t \in Tareas, Fallar(t) PROVE InvPromesa' /\ [Promesa!Next]_(Promesa!vars)
  <2>1. Lanzar(t) /\ UNCHANGED <<Visible, solapados, pago>>
    BY <1>1 DEF Fallar, historia, Visible
  <2> QED
    BY <2>1, TerminarPromesa
<1>2. CASE Reiniciar
  <2>1. (\A t \in Tareas : tarea'[t] = Libre) /\ UNCHANGED <<Visible, solapados, pago>>
    BY <1>2 DEF Reiniciar, historia, Visible
  <2>2. InvPromesa'
    BY <2>1, LibreAlDia DEF InvPromesa, Visible
  <2> QED
    BY <2>1, <2>2, NoSeVe
<1>3. CASE (\E plan \in PlanesRetirables : RetirarPlan(plan)) \/ UNCHANGED vars
  <2>1. UNCHANGED <<Visible, solapados, pago, tarea>>
    BY <1>3 DEF RetirarPlan, vars, externas, historia, Visible
  <2>2. InvPromesa'
    BY <2>1 DEF InvPromesa, Visible
  <2> QED
    BY <2>1, <2>2, NoSeVe
<1> QED
  BY <1>1, <1>2, <1>3, IniciarPromesa, AvanzarPromesa, CambiarCobroPromesa, PasarDiasPromesa
  DEF Next, Entorno

(* With one request at a time the component keeps the promise of module    *)
(* Acreditacion: each charge is credited once and extends the subscription *)
(* by one period from a day between the charge and now, whatever is        *)
(* resent, refunded, lost or restarted (procesarWebhookMercadoPago,        *)
(* aplicarPlanTrasPago, crearSuscripcionPorDefecto).                       *)
THEOREM PromesaCumplida ==
  ASSUME UnaSola
  PROVE  Spec => CumpleAcreditacion
<1> DEFINE I == InvTipo /\ Respaldo /\ InvUnaVez /\ InvPromesa
<1>1. Init => I /\ Promesa!Init
  BY InitTipo, InitRespaldo, InitUnaVez, InitPromesa, IniciaPromesa
<1>2. I /\ [Next]_vars => I' /\ [Promesa!Next]_(Promesa!vars)
  BY NextTipo, NextRespaldo, NextUnaVez, NextPromesa
<1> HIDE DEF I
<1> QED
  BY <1>1, <1>2, PTL DEF Spec, CumpleAcreditacion, Promesa!Spec

=============================================================================
