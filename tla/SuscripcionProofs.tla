------------------------- MODULE SuscripcionProofs --------------------------
(***************************************************************************)
(* Proofs about Suscripcion, for every set of users, payments, charges and *)
(* concurrent requests.  First part: types.  Second part: a paid plan is   *)
(* backed by a charge.  Third part: how far a period reaches.              *)
(***************************************************************************)
EXTENDS Suscripcion, FiniteSetTheorems, TLAPS

(* The program points at which a task carries an entity of each table.     *)
ConPago == {"preferencia", "cargarPago", "guardarPago"}
ConAviso == {"consultar", "leerPago"}
Aplicando == {"leerPlan", "leerSub", "cargarSub", "guardarSub"}
Alta == {"leerSubDef", "insertarSub", "releerSub"}

(* A task at work on a payment, whether or not it is creating the default  *)
(* row on the way.                                                         *)
Acredita(i) == i.pc \in Aplicando \/ (i.pc \in Alta /\ i.tipo # "resumen")

(* What a task i carries at each program point, over tables pg and sb.     *)
Bien(i, pg, sb) ==
  /\ i.pc \in ConPago \cup ConAviso \/ Acredita(i) =>
       i.pago \in Pagos /\ i.usuario = Solicitud[i.pago].usuario
  /\ i.pago \in Pagos => pg[i.pago] # Nada
  /\ i.pc \in Alta => i.usuario \in Usuarios
  /\ i.pc \in ConPago => i.filaPago \in FilaPago
  /\ i.pc \in ConAviso => i.aviso \in Avisos /\ RefDe[i.aviso[1]] = i.pago
  /\ i.pc \in {"cargarSub", "guardarSub"} =>
       /\ i.filaSub \in FilaSub
       /\ sb[i.usuario] # Nada
       /\ i.filaSub.plan = Solicitud[i.pago].plan
       /\ i.filaSub.ciclo = Solicitud[i.pago].ciclo
  /\ i.pc = "insertarSub" =>
       /\ i.filaSub \in FilaSub
       /\ i.filaSub.plan = Basico
       /\ i.filaSub.ciclo = "mensual"

TareaOK == \A t \in Tareas : Bien(tarea[t], pago, sub)

(* Only a payment whose row exists has a link, and only payments with a    *)
(* link are charged and announced.                                         *)
EnlacesOK ==
  /\ \A p \in enlace : pago[p] # Nada
  /\ \A c \in Cobros : estadoMp[c] # "inexistente" => RefDe[c] \in enlace
  /\ \A a \in avisos : RefDe[a[1]] \in enlace

InvTipo == TypeOK /\ TareaOK /\ EnlacesOK

-----------------------------------------------------------------------------
LEMMA FilaHastaTipo ==
  ASSUME NEW plan \in Planes, NEW ciclo \in Ciclos, NEW fin \in Nat
  PROVE  /\ FilaHasta(plan, ciclo, fin) \in FilaSub
         /\ FilaHasta(plan, ciclo, fin).plan = plan
         /\ FilaHasta(plan, ciclo, fin).ciclo = ciclo
  BY PlanesAssumption DEF FilaHasta, FilaSub

LEMMA FilaPorDefectoTipo ==
  ASSUME NEW hoy \in Nat
  PROVE  /\ FilaPorDefecto(hoy) \in FilaSub
         /\ FilaPorDefecto(hoy).plan = Basico
         /\ FilaPorDefecto(hoy).ciclo = "mensual"
<1>1. Basico \in Planes /\ "mensual" \in Ciclos /\ hoy + PeriodoDias[Basico] \in Nat
  BY PlanesAssumption DEF Ciclos
<1>2. QED
  BY <1>1, FilaHastaTipo DEF FilaPorDefecto

LEMMA FilaTrasPagoTipo ==
  ASSUME NEW fila \in FilaSub, NEW plan \in Planes, NEW ciclo \in Ciclos, NEW hoy \in Nat
  PROVE  /\ FilaTrasPago(fila, plan, ciclo, hoy) \in FilaSub
         /\ FilaTrasPago(fila, plan, ciclo, hoy).plan = plan
         /\ FilaTrasPago(fila, plan, ciclo, hoy).ciclo = ciclo
<1>1. InicioPeriodo(fila, hoy) + DiasPorCiclo(ciclo) \in Nat
  BY DEF InicioPeriodo, DiasPorCiclo, FilaSub
<1>2. QED
  BY <1>1, FilaHastaTipo DEF FilaTrasPago

LEMMA LibreTipo == Libre \in Tarea
  BY DEF Libre, Tarea, Pasos, EstadosMp

LEMMA NadaNoEsFila ==
  /\ Nada \notin FilaSub
  /\ Nada \notin FilaPago
  /\ Nada \notin Pagos
  /\ Nada \notin Usuarios
  /\ Nada \notin Nat
  /\ Nada \notin Avisos
  BY SuscripcionAssumption

LEMMA LibreBien == \A pg, sb : Bien(Libre, pg, sb)
  BY NadaNoEsFila DEF Bien, Libre, ConPago, ConAviso, Aplicando, Alta, Acredita

(* A step of task t keeps TareaOK if it leaves t in order: tables only     *)
(* gain rows.                                                              *)
LEMMA PasoDeTarea ==
  ASSUME TareaOK, NEW t \in Tareas,
         \A otra \in Tareas \ {t} : tarea'[otra] = tarea[otra],
         \A p \in Pagos : pago[p] # Nada => pago'[p] # Nada,
         \A u \in Usuarios : sub[u] # Nada => sub'[u] # Nada,
         Bien(tarea'[t], pago', sub')
  PROVE  TareaOK'
<1>1. SUFFICES ASSUME NEW otra \in Tareas \ {t} PROVE Bien(tarea'[otra], pago', sub')
  BY DEF TareaOK
<1>2. Bien(tarea[otra], pago, sub) /\ tarea'[otra] = tarea[otra]
  BY DEF TareaOK
<1>3. Solicitud \in [Pagos -> [usuario : Usuarios, plan : Planes, ciclo : Ciclos]]
  BY SuscripcionAssumption
<1>4. QED
  BY <1>2, <1>3 DEF Bien, ConPago, ConAviso, Aplicando, Alta, Acredita

(* A step of one task t that may add rows, links and history.              *)
LEMMA PasoConEscritura ==
  ASSUME InvTipo, NEW t \in Tareas, NEW i \in Tarea,
         tarea' = [tarea EXCEPT ![t] = i],
         Bien(i, pago', sub'),
         UNCHANGED <<entorno, ahora, planActivo, estadoMp>>,
         reenvios' \in Nat, fallas' \in Nat,
         avisos' \subseteq avisos,
         pago' \in [Pagos -> FilaPago \cup {Nada}],
         \A p \in Pagos : pago[p] # Nada => pago'[p] # Nada,
         sub' \in [Usuarios -> FilaSub \cup {Nada}],
         \A u \in Usuarios : sub[u] # Nada => sub'[u] # Nada,
         enlace \subseteq enlace',
         \A p \in enlace' : p \in Pagos /\ pago'[p] # Nada,
         cobradoEn' \in [Pagos -> Nat \cup {Nada}],
         acreditaciones' \in [Pagos -> Nat],
         solapados' \subseteq Pagos
  PROVE  InvTipo'
<1>1. TypeOK'
  BY DEF InvTipo, TypeOK
<1>2. TareaOK'
  <2>1. tarea'[t] = i /\ \A otra \in Tareas \ {t} : tarea'[otra] = tarea[otra]
    BY DEF InvTipo, TypeOK
  <2>2. QED
    BY <2>1, PasoDeTarea DEF InvTipo
<1>3. EnlacesOK'
  BY DEF InvTipo, EnlacesOK
<1>4. QED
  BY <1>1, <1>2, <1>3 DEF InvTipo

(* A step of task t that writes to no table.                               *)
LEMMA PasoLocal ==
  ASSUME InvTipo, NEW t \in Tareas, NEW i \in Tarea,
         tarea' = [tarea EXCEPT ![t] = i],
         Bien(i, pago, sub),
         UNCHANGED <<entorno, ahora, planActivo, estadoMp, enlace, pago, sub,
                     cobradoEn, acreditaciones>>,
         reenvios' \in Nat, fallas' \in Nat,
         avisos' \subseteq avisos,
         solapados' \subseteq Pagos
  PROVE  InvTipo'
<1>1. /\ pago' \in [Pagos -> FilaPago \cup {Nada}]
      /\ sub' \in [Usuarios -> FilaSub \cup {Nada}]
      /\ cobradoEn' \in [Pagos -> Nat \cup {Nada}]
      /\ acreditaciones' \in [Pagos -> Nat]
      /\ \A p \in enlace' : p \in Pagos /\ pago'[p] # Nada
  BY DEF InvTipo, TypeOK, EnlacesOK
<1>2. QED
  BY <1>1, PasoConEscritura

(* What is known of a task before it moves.                                *)
LEMMA TareaActual ==
  ASSUME InvTipo, NEW t \in Tareas
  PROVE  /\ tarea[t] \in Tarea
         /\ Bien(tarea[t], pago, sub)
         /\ reenvios \in Nat /\ fallas \in Nat
         /\ solapados \subseteq Pagos
         /\ ahora \in Nat
  BY DEF InvTipo, TypeOK, TareaOK

LEMMA InitTipo == Init => InvTipo
<1>1. SUFFICES ASSUME Init PROVE InvTipo
  OBVIOUS
<1>2. FilaPorDefecto(0) \in FilaSub
  BY FilaPorDefectoTipo
<1>3. TypeOK
  BY <1>1, <1>2, LibreTipo, SuscripcionAssumption DEF Init, TypeOK, EstadosMp
<1>4. \A t \in Tareas : tarea[t] = Libre
  BY <1>1 DEF Init
<1>5. TareaOK
  BY <1>4, LibreBien DEF TareaOK
<1>6. EnlacesOK
  BY <1>1 DEF Init, EnlacesOK
<1>7. QED
  BY <1>3, <1>5, <1>6 DEF InvTipo

-----------------------------------------------------------------------------
LEMMA ResponderTipo ==
  ASSUME InvTipo, NEW t \in Tareas, Responder(t) \/ Lanzar(t),
         UNCHANGED <<entorno, ahora, planActivo, estadoMp, enlace, reenvios, pago, sub, historia>>,
         fallas' \in Nat
  PROVE  InvTipo'
  BY PasoLocal, LibreTipo, LibreBien, TareaActual DEF Responder, Lanzar, historia

LEMMA CargarPagoTipo ==
  ASSUME InvTipo, NEW t \in Tareas, CargarPago(t)
  PROVE  InvTipo'
<1> DEFINE i == [tarea[t] EXCEPT !.pc = "guardarPago",
                    !.cols = ColumnasDistintas(tarea[t].filaPago, pago[tarea[t].pago], ColumnasPago)]
<1>1. i \in Tarea
  BY TareaActual DEF CargarPago, Tarea, Pasos, ColumnasDistintas
<1>2. Bien(i, pago, sub)
  BY TareaActual DEF CargarPago, En, Bien, Tarea, ConPago, ConAviso, Aplicando, Alta, Acredita
<1>3. tarea' = [tarea EXCEPT ![t] = i]
  BY DEF CargarPago, InvTipo, TypeOK
<1>4. QED
  BY <1>1, <1>2, <1>3, TareaActual, PasoLocal DEF CargarPago, externas, historia

LEMMA CrearPreferenciaTipo ==
  ASSUME InvTipo, NEW t \in Tareas, CrearPreferencia(t)
  PROVE  InvTipo'
<1> DEFINE i == [tarea[t] EXCEPT !.pc = "cargarPago", !.filaPago.pref = TRUE]
<1>0. i.filaPago \in FilaPago
  <2>1. tarea[t].filaPago \in FilaPago /\ tarea[t] \in Tarea
    BY TareaActual DEF CrearPreferencia, En, Bien, ConPago
  <2>2. QED
    BY <2>1 DEF FilaPago, Tarea
<1>1. i \in Tarea
  BY TareaActual, <1>0 DEF Tarea, Pasos
<1>2. Bien(i, pago, sub)
  BY TareaActual, <1>0
  DEF CrearPreferencia, En, Bien, Tarea, ConPago, ConAviso, Aplicando, Alta, Acredita, FilaPago
<1>3. tarea' = [tarea EXCEPT ![t] = i]
  BY DEF CrearPreferencia, InvTipo, TypeOK
<1>4. QED
  BY <1>1, <1>2, <1>3, TareaActual, PasoLocal DEF CrearPreferencia, externas, historia

LEMMA ConsultarTipo ==
  ASSUME InvTipo, NEW t \in Tareas, Consultar(t)
  PROVE  InvTipo'
<1> DEFINE i == [tarea[t] EXCEPT !.pc = "leerPago", !.status = estadoMp[tarea[t].aviso[1]]]
<1>1. i \in Tarea
  <2>1. tarea[t].aviso[1] \in Cobros
    BY TareaActual DEF Consultar, En, Bien, ConAviso, Avisos
  <2>2. estadoMp[tarea[t].aviso[1]] \in EstadosMp
    BY <2>1 DEF InvTipo, TypeOK
  <2>3. QED
    BY <2>2, TareaActual DEF Tarea, Pasos
<1>2. Bien(i, pago, sub)
  BY TareaActual DEF Consultar, En, Bien, Tarea, ConPago, ConAviso, Aplicando, Alta, Acredita
<1>3. tarea' = [tarea EXCEPT ![t] = i]
  BY DEF Consultar, InvTipo, TypeOK
<1>4. QED
  BY <1>1, <1>2, <1>3, TareaActual, PasoLocal DEF Consultar, externas, historia

LEMMA LeerPagoTipo ==
  ASSUME InvTipo, NEW t \in Tareas, LeerPago(t)
  PROVE  InvTipo'
<1> DEFINE i == [tarea[t] EXCEPT !.pc = "cargarPago", !.status = "inexistente",
                    !.filaPago = [pago[tarea[t].pago] EXCEPT !.estado = EstadoSegun(tarea[t].status)]]
<1>0. i.filaPago \in FilaPago
  <2>1. pago[tarea[t].pago] \in FilaPago
    BY TareaActual DEF LeerPago, En, Bien, ConAviso, InvTipo, TypeOK
  <2>2. QED
    BY <2>1 DEF FilaPago, EstadosPago, EstadoSegun
<1>1. i \in Tarea
  BY TareaActual, <1>0 DEF LeerPago, Tarea, Pasos, EstadosMp
<1>2. Bien(i, pago, sub)
  BY TareaActual, <1>0 DEF LeerPago, En, Bien, Tarea, ConPago, ConAviso, Aplicando, Alta, Acredita
<1>3. tarea' = [tarea EXCEPT ![t] = i]
  BY DEF LeerPago, InvTipo, TypeOK
<1>4. QED
  BY <1>1, <1>2, <1>3, TareaActual, PasoLocal DEF LeerPago, externas, historia

LEMMA LeerPlanTipo ==
  ASSUME InvTipo, NEW t \in Tareas, LeerPlan(t)
  PROVE  InvTipo'
<1> DEFINE i == [tarea[t] EXCEPT !.pc = "leerSub"]
<1>1. i \in Tarea
  BY TareaActual DEF Tarea, Pasos
<1>2. Bien(i, pago, sub)
  BY TareaActual DEF LeerPlan, En, Bien, Tarea, ConPago, ConAviso, Aplicando, Alta, Acredita
<1>3. tarea' = [tarea EXCEPT ![t] = i]
  BY DEF LeerPlan, InvTipo, TypeOK, Ir
<1>4. QED
  BY <1>1, <1>2, <1>3, TareaActual, PasoLocal DEF LeerPlan, externas, historia

LEMMA FaltaSubTipo ==
  ASSUME InvTipo, NEW t \in Tareas, FaltaSub(t)
  PROVE  InvTipo'
<1> DEFINE i == [tarea[t] EXCEPT !.pc = "leerSubDef"]
<1>1. i \in Tarea
  BY TareaActual DEF FaltaSub, Tarea, Pasos
<1>2. Bien(i, pago, sub)
  BY TareaActual, SuscripcionAssumption
  DEF FaltaSub, En, Bien, Tarea, ConPago, ConAviso, Aplicando, Alta, Acredita, Ir
<1>3. tarea' = [tarea EXCEPT ![t] = i]
  BY DEF FaltaSub, InvTipo, TypeOK, Ir
<1>4. QED
  BY <1>1, <1>2, <1>3, TareaActual, PasoLocal DEF FaltaSub, externas, historia

LEMMA CalcularPeriodoTipo ==
  ASSUME InvTipo, NEW t \in Tareas, CalcularPeriodo(t)
  PROVE  InvTipo'
<1> DEFINE i == [tarea[t] EXCEPT !.pc = "cargarSub",
                    !.filaSub = FilaTrasPago(SubDe(t), PlanDe(t), CicloDe(t), ahora)]
<1>0. /\ i.filaSub \in FilaSub
      /\ i.filaSub.plan = PlanDe(t)
      /\ i.filaSub.ciclo = CicloDe(t)
  <2>1. SubDe(t) \in FilaSub /\ PlanDe(t) \in Planes /\ CicloDe(t) \in Ciclos
    BY TareaActual, SuscripcionAssumption
    DEF CalcularPeriodo, En, Bien, Aplicando, Alta, Acredita, InvTipo, TypeOK, SubDe, PlanDe, CicloDe
  <2>2. QED
    BY <2>1, TareaActual, FilaTrasPagoTipo DEF Tarea
<1>1. i \in Tarea
  BY TareaActual, <1>0 DEF CalcularPeriodo, Tarea, Pasos
<1>2. Bien(i, pago, sub)
  BY TareaActual, <1>0
  DEF CalcularPeriodo, En, Bien, Tarea, ConPago, ConAviso, Aplicando, Alta, Acredita, PlanDe, CicloDe, SubDe
<1>3. tarea' = [tarea EXCEPT ![t] = i]
  BY DEF CalcularPeriodo, InvTipo, TypeOK
<1>4. QED
  BY <1>1, <1>2, <1>3, TareaActual, PasoLocal DEF CalcularPeriodo, externas, historia

LEMMA CargarSubTipo ==
  ASSUME InvTipo, NEW t \in Tareas, CargarSub(t)
  PROVE  InvTipo'
<1> DEFINE i == [tarea[t] EXCEPT !.pc = "guardarSub",
                    !.cols = ColumnasDistintas(tarea[t].filaSub, SubDe(t), ColumnasSub)]
<1>1. i \in Tarea
  BY TareaActual DEF CargarSub, Tarea, Pasos, ColumnasDistintas
<1>2. Bien(i, pago, sub)
  BY TareaActual DEF CargarSub, En, Bien, Tarea, ConPago, ConAviso, Aplicando, Alta, Acredita
<1>3. tarea' = [tarea EXCEPT ![t] = i]
  BY DEF CargarSub, InvTipo, TypeOK
<1>4. QED
  BY <1>1, <1>2, <1>3, TareaActual, PasoLocal DEF CargarSub, externas, historia

LEMMA SinAltaPosibleTipo ==
  ASSUME InvTipo, NEW t \in Tareas, SinAltaPosible(t)
  PROVE  InvTipo'
<1> DEFINE i == [tarea[t] EXCEPT !.pc = "releerSub"]
<1>1. i \in Tarea
  BY TareaActual DEF SinAltaPosible, Tarea, Pasos
<1>2. Bien(i, pago, sub)
  BY TareaActual
  DEF SinAltaPosible, En, Bien, Tarea, ConPago, ConAviso, Aplicando, Alta, Acredita, Ir
<1>3. tarea' = [tarea EXCEPT ![t] = i]
  BY DEF SinAltaPosible, InvTipo, TypeOK, Ir
<1>4. QED
  BY <1>1, <1>2, <1>3, TareaActual, PasoLocal DEF SinAltaPosible, externas, historia

LEMMA PrepararAltaTipo ==
  ASSUME InvTipo, NEW t \in Tareas, PrepararAlta(t)
  PROVE  InvTipo'
<1> DEFINE i == [tarea[t] EXCEPT !.pc = "insertarSub", !.filaSub = FilaPorDefecto(ahora)]
<1>0. /\ FilaPorDefecto(ahora) \in FilaSub
      /\ FilaPorDefecto(ahora).plan = Basico
      /\ FilaPorDefecto(ahora).ciclo = "mensual"
  BY TareaActual, FilaPorDefectoTipo
<1>1. i \in Tarea
  <2>1. tarea[t] \in Tarea
    BY TareaActual
  <2>2. QED
    BY <1>0, <2>1 DEF Tarea, Pasos
<1>2. Bien(i, pago, sub)
  BY TareaActual, <1>0
  DEF PrepararAlta, En, Bien, Tarea, ConPago, ConAviso, Aplicando, Alta, Acredita
<1>3. tarea' = [tarea EXCEPT ![t] = i]
  BY DEF PrepararAlta, InvTipo, TypeOK
<1>4. QED
  BY <1>1, <1>2, <1>3, TareaActual, PasoLocal DEF PrepararAlta, externas, historia

LEMMA IniciarResumenTipo ==
  ASSUME InvTipo, NEW t \in Tareas, NEW u \in Usuarios, IniciarResumen(t, u)
  PROVE  InvTipo'
<1> DEFINE i == [Libre EXCEPT !.pc = "leerSubDef", !.tipo = "resumen", !.usuario = u]
<1>1. i \in Tarea
  BY LibreTipo DEF Tarea, Pasos
<1>2. Bien(i, pago, sub)
  BY TareaActual, NadaNoEsFila
  DEF IniciarResumen, En, Bien, Tarea, ConPago, ConAviso, Aplicando, Alta, Acredita, Libre
<1>3. tarea' = [tarea EXCEPT ![t] = i]
  BY DEF IniciarResumen, InvTipo, TypeOK
<1>4. QED
  BY <1>1, <1>2, <1>3, TareaActual, PasoLocal DEF IniciarResumen, externas, historia

-----------------------------------------------------------------------------
(* Steps that write.                                                       *)

LEMMA InsertarPagoTipo ==
  ASSUME InvTipo, NEW p \in Pagos, InsertarPago(p)
  PROVE  /\ pago' \in [Pagos -> FilaPago \cup {Nada}]
         /\ pago'[p] = PagoNuevo /\ PagoNuevo \in FilaPago /\ PagoNuevo # Nada
         /\ \A q \in Pagos : pago[q] # Nada => pago'[q] # Nada
         /\ \A q \in enlace : q \in Pagos /\ pago'[q] # Nada
<1>1. PagoNuevo \in FilaPago
  BY DEF PagoNuevo, FilaPago, EstadosPago
<1>2. PagoNuevo # Nada
  BY <1>1, NadaNoEsFila
<1>3. QED
  BY <1>1, <1>2 DEF InsertarPago, InvTipo, TypeOK, EnlacesOK

LEMMA TareaCheckoutTipo ==
  ASSUME NEW p \in Pagos, NEW paso \in ConPago, NEW fila \in FilaPago, NEW pg, NEW sb, pg[p] # Nada
  PROVE  /\ TareaCheckout(p, paso, fila) \in Tarea
         /\ Bien(TareaCheckout(p, paso, fila), pg, sb)
<1>1. Solicitud[p].usuario \in Usuarios
  BY SuscripcionAssumption
<1>2. TareaCheckout(p, paso, fila) \in Tarea
  BY <1>1, LibreTipo DEF TareaCheckout, Tarea, Pasos, ConPago
<1>3. Bien(TareaCheckout(p, paso, fila), pg, sb)
  BY DEF TareaCheckout, Libre, Bien, ConPago, ConAviso, Aplicando, Alta, Acredita
<1>4. QED
  BY <1>2, <1>3

LEMMA CheckoutMercadoPagoTipo ==
  ASSUME InvTipo, NEW t \in Tareas, NEW p \in Pagos, CheckoutMercadoPago(t, p)
  PROVE  InvTipo'
<1> DEFINE i == TareaCheckout(p, "preferencia", PagoNuevo)
<1>1. InsertarPago(p) /\ tarea' = [tarea EXCEPT ![t] = i]
      /\ UNCHANGED <<externas, avisos, sub, historia>>
  BY DEF CheckoutMercadoPago
<1>2. i \in Tarea /\ Bien(i, pago', sub')
  BY <1>1, InsertarPagoTipo, TareaCheckoutTipo DEF ConPago
<1>3. QED
  BY <1>1, <1>2, InsertarPagoTipo, PasoConEscritura DEF externas, historia, InvTipo, TypeOK

LEMMA CheckoutSimuladoTipo ==
  ASSUME InvTipo, NEW t \in Tareas, NEW p \in Pagos, CheckoutSimulado(t, p)
  PROVE  InvTipo'
<1> DEFINE fila == [PagoNuevo EXCEPT !.estado = "APROBADO"]
           i == TareaCheckout(p, "cargarPago", fila)
<1>1. InsertarPago(p) /\ tarea' = [tarea EXCEPT ![t] = i]
      /\ UNCHANGED <<externas, avisos, sub, acreditaciones, solapados>>
  BY DEF CheckoutSimulado
<1>2. fila \in FilaPago
  BY DEF PagoNuevo, FilaPago, EstadosPago
<1>3. i \in Tarea /\ Bien(i, pago', sub')
  BY <1>1, <1>2, InsertarPagoTipo, TareaCheckoutTipo DEF ConPago
<1>4. cobradoEn' \in [Pagos -> Nat \cup {Nada}]
  BY DEF CheckoutSimulado, InvTipo, TypeOK
<1>5. QED
  BY <1>1, <1>3, <1>4, InsertarPagoTipo, PasoConEscritura DEF externas, InvTipo, TypeOK

LEMMA CheckoutSinMedioTipo ==
  ASSUME InvTipo, NEW t \in Tareas, NEW p \in Pagos, CheckoutSinMedio(t, p)
  PROVE  InvTipo'
<1>1. InsertarPago(p) /\ UNCHANGED <<externas, avisos, sub, tarea, historia>>
  BY DEF CheckoutSinMedio
<1>2. tarea' = [tarea EXCEPT ![t] = tarea[t]]
  BY <1>1 DEF InvTipo, TypeOK
<1>3. tarea[t] \in Tarea /\ Bien(tarea[t], pago', sub')
  BY <1>1, TareaActual, InsertarPagoTipo DEF Bien
<1>4. QED
  BY <1>1, <1>2, <1>3, InsertarPagoTipo, PasoConEscritura DEF externas, historia, InvTipo, TypeOK

LEMMA PersistirPagoTipo ==
  ASSUME InvTipo, NEW t \in Tareas, En(t, "guardarPago"), PersistirPago(t)
  PROVE  /\ pago' \in [Pagos -> FilaPago \cup {Nada}]
         /\ tarea[t].pago \in Pagos
         /\ \A p \in Pagos : pago[p] # Nada => pago'[p] # Nada
         /\ \A p \in enlace \cup {tarea[t].pago} : p \in Pagos /\ pago'[p] # Nada
<1> DEFINE p == tarea[t].pago
<1>1. p \in Pagos /\ tarea[t].filaPago \in FilaPago /\ pago[p] \in FilaPago
  BY TareaActual DEF En, Bien, ConPago, InvTipo, TypeOK
<1>2. FusionPago(pago[p], tarea[t].filaPago, tarea[t].cols) \in FilaPago
  BY <1>1 DEF FusionPago, FilaPago
<1>3. QED
  BY <1>1, <1>2, NadaNoEsFila DEF PersistirPago, InvTipo, TypeOK, EnlacesOK

LEMMA GuardarPreferenciaTipo ==
  ASSUME InvTipo, NEW t \in Tareas, GuardarPreferencia(t)
  PROVE  InvTipo'
<1>1. En(t, "guardarPago") /\ PersistirPago(t)
  BY DEF GuardarPreferencia
<1>2. QED
  BY <1>1, PersistirPagoTipo, PasoConEscritura, LibreTipo, LibreBien
  DEF GuardarPreferencia, Responder, historia, InvTipo, TypeOK

LEMMA GuardarRechazoTipo ==
  ASSUME InvTipo, NEW t \in Tareas, GuardarRechazo(t)
  PROVE  InvTipo'
<1>1. En(t, "guardarPago") /\ PersistirPago(t)
  BY DEF GuardarRechazo
<1>2. QED
  BY <1>1, PersistirPagoTipo, PasoConEscritura, LibreTipo, LibreBien
  DEF GuardarRechazo, Responder, externas, historia, InvTipo, TypeOK

LEMMA GuardarAprobadoTipo ==
  ASSUME InvTipo, NEW t \in Tareas, GuardarAprobado(t)
  PROVE  InvTipo'
<1> DEFINE i == [tarea[t] EXCEPT !.pc = "leerPlan", !.filaPago = Nada, !.cols = {}]
<1>1. En(t, "guardarPago") /\ PersistirPago(t)
  BY DEF GuardarAprobado
<1>2. i \in Tarea
  BY TareaActual DEF Tarea, Pasos
<1>3. Bien(i, pago', sub')
  BY <1>1, TareaActual, PersistirPagoTipo
  DEF En, Bien, Tarea, ConPago, ConAviso, Aplicando, Alta, Acredita
<1>4. tarea' = [tarea EXCEPT ![t] = i]
  BY DEF GuardarAprobado, InvTipo, TypeOK
<1>5. QED
  BY <1>1, <1>2, <1>3, <1>4, PersistirPagoTipo, PasoConEscritura
  DEF GuardarAprobado, externas, historia, InvTipo, TypeOK

LEMMA GuardarSubTipo ==
  ASSUME InvTipo, NEW t \in Tareas, GuardarSub(t)
  PROVE  InvTipo'
<1> DEFINE u == tarea[t].usuario
           fila == FusionSub(sub[u], tarea[t].filaSub, tarea[t].cols)
<1>1. /\ tarea[t].pago \in Pagos /\ u \in Usuarios
      /\ tarea[t].filaSub \in FilaSub /\ sub[u] \in FilaSub
  <2>1. tarea[t].pc = "guardarSub"
    BY DEF GuardarSub, En
  <2>2. /\ tarea[t].pago \in Pagos /\ u = Solicitud[tarea[t].pago].usuario
        /\ tarea[t].filaSub \in FilaSub /\ sub[u] # Nada
    BY <2>1, TareaActual DEF Bien, Aplicando, Acredita
  <2>3. u \in Usuarios
    BY <2>2, SuscripcionAssumption
  <2>4. QED
    BY <2>2, <2>3 DEF InvTipo, TypeOK
<1>2. fila \in FilaSub
  BY <1>1 DEF FusionSub, FilaSub
<1>3. sub' = [sub EXCEPT ![u] = fila]
  BY DEF GuardarSub
<1>4. /\ sub' \in [Usuarios -> FilaSub \cup {Nada}]
      /\ \A v \in Usuarios : sub[v] # Nada => sub'[v] # Nada
  BY <1>1, <1>2, <1>3, NadaNoEsFila DEF InvTipo, TypeOK
<1>5. acreditaciones' \in [Pagos -> Nat]
  BY <1>1 DEF GuardarSub, InvTipo, TypeOK
<1>6. QED
  BY <1>4, <1>5, PasoConEscritura, LibreTipo, LibreBien
  DEF GuardarSub, Responder, externas, InvTipo, TypeOK, EnlacesOK

LEMMA InsertarSubTipo ==
  ASSUME InvTipo, NEW t \in Tareas, InsertarSub(t)
  PROVE  InvTipo'
<1> DEFINE u == tarea[t].usuario
           i == [tarea[t] EXCEPT !.pc = "releerSub", !.filaSub = Nada]
<1>1. u \in Usuarios /\ tarea[t].filaSub \in FilaSub
  BY TareaActual DEF InsertarSub, En, Bien, Alta
<1>2. /\ sub' \in [Usuarios -> FilaSub \cup {Nada}]
      /\ \A v \in Usuarios : sub[v] # Nada => sub'[v] # Nada
  BY <1>1, NadaNoEsFila DEF InsertarSub, InvTipo, TypeOK
<1>3. i \in Tarea
  BY TareaActual DEF Tarea, Pasos
<1>4. Bien(i, pago', sub')
  BY TareaActual DEF InsertarSub, En, Bien, Tarea, ConPago, ConAviso, Aplicando, Alta, Acredita
<1>5. tarea' = [tarea EXCEPT ![t] = i]
  BY DEF InsertarSub, InvTipo, TypeOK
<1>6. QED
  BY <1>2, <1>3, <1>4, <1>5, PasoConEscritura
  DEF InsertarSub, externas, historia, InvTipo, TypeOK, EnlacesOK

LEMMA AtenderTipo ==
  ASSUME InvTipo, NEW t \in Tareas, NEW a \in Avisos,
         pago[RefDe[a[1]]] # Nada, Atender(t, a),
         UNCHANGED <<entorno, ahora, planActivo, estadoMp, enlace, avisos, pago, sub,
                     fallas, cobradoEn, acreditaciones>>,
         reenvios' \in Nat
  PROVE  InvTipo'
<1> DEFINE p == RefDe[a[1]]
           i == [Libre EXCEPT !.pc = "consultar", !.tipo = "webhook", !.aviso = a,
                              !.pago = p, !.usuario = Solicitud[p].usuario]
<1>1. p \in Pagos /\ Solicitud[p].usuario \in Usuarios
  BY SuscripcionAssumption DEF Avisos
<1>2. i \in Tarea
  BY <1>1, LibreTipo DEF Tarea, Pasos
<1>3. Bien(i, pago, sub)
  BY <1>1 DEF Libre, Bien, ConPago, ConAviso, Aplicando, Alta, Acredita
<1>4. tarea' = [tarea EXCEPT ![t] = i] /\ solapados' \subseteq Pagos
  BY <1>1, TareaActual DEF Atender
<1>5. QED
  BY <1>2, <1>3, <1>4, TareaActual, PasoLocal

LEMMA RecibirAvisoTipo ==
  ASSUME InvTipo, NEW t \in Tareas, NEW a \in Avisos, RecibirAviso(t, a)
  PROVE  InvTipo'
<1>1. pago[RefDe[a[1]]] # Nada
  BY DEF RecibirAviso, InvTipo, EnlacesOK
<1>2. QED
  BY <1>1, AtenderTipo, TareaActual DEF RecibirAviso, externas

LEMMA RecibirDuplicadoTipo ==
  ASSUME InvTipo, NEW t \in Tareas, NEW a \in Avisos, RecibirDuplicado(t, a)
  PROVE  InvTipo'
<1>1. pago[RefDe[a[1]]] # Nada
  <2>1. CASE a \in avisos
    BY <2>1 DEF InvTipo, EnlacesOK
  <2>2. CASE a \in {<<c, estadoMp[c]>> : c \in Cobros}
    BY <2>2 DEF RecibirDuplicado, InvTipo, EnlacesOK
  <2>3. QED
    BY <2>1, <2>2 DEF RecibirDuplicado
<1>2. QED
  BY <1>1, AtenderTipo, TareaActual DEF RecibirDuplicado

LEMMA EntornoTipo ==
  ASSUME InvTipo, Entorno
  PROVE  InvTipo'
<1>1. CASE Reiniciar
  <2>1. TypeOK'
    BY <1>1, LibreTipo DEF Reiniciar, historia, InvTipo, TypeOK
  <2>2. TareaOK'
    BY <1>1, LibreBien DEF Reiniciar, TareaOK
  <2>3. QED
    BY <1>1, <2>1, <2>2 DEF Reiniciar, InvTipo, EnlacesOK
<1>2. ASSUME NEW c \in Cobros, NEW s \in EstadosMp, CambiarCobro(c, s) PROVE InvTipo'
  <2>1. TypeOK'
    BY <1>2, SuscripcionAssumption DEF CambiarCobro, InvTipo, TypeOK, Avisos
  <2>2. TareaOK'
    BY <1>2 DEF CambiarCobro, InvTipo, TareaOK
  <2>3. EnlacesOK'
    BY <1>2 DEF CambiarCobro, InvTipo, TypeOK, EnlacesOK
  <2>4. QED
    BY <2>1, <2>2, <2>3 DEF InvTipo
<1>3. ASSUME NEW d \in Saltos, PasarDias(d) PROVE InvTipo'
  BY <1>3, SuscripcionAssumption DEF PasarDias, historia, InvTipo, TypeOK, TareaOK, EnlacesOK
<1>4. ASSUME NEW plan \in PlanesRetirables, RetirarPlan(plan) PROVE InvTipo'
  BY <1>4 DEF RetirarPlan, historia, InvTipo, TypeOK, TareaOK, EnlacesOK
<1>5. QED
  BY <1>1, <1>2, <1>3, <1>4 DEF Entorno

LEMMA AvanzarTipo ==
  ASSUME InvTipo, NEW t \in Tareas, Avanzar(t)
  PROVE  InvTipo'
<1>1. CASE \/ ConsultaFallida(t) \/ IgnorarAviso(t) \/ PlanNoDisponible(t)
           \/ ClaveDuplicada(t) \/ ResponderResumen(t) \/ SigueSinSub(t)
  BY <1>1, ResponderTipo, TareaActual
  DEF ConsultaFallida, IgnorarAviso, PlanNoDisponible, ClaveDuplicada, ResponderResumen,
      SigueSinSub, externas
<1>2. QED
  BY <1>1, CrearPreferenciaTipo, CargarPagoTipo, GuardarPreferenciaTipo, GuardarAprobadoTipo,
     GuardarRechazoTipo, ConsultarTipo, LeerPagoTipo, LeerPlanTipo, FaltaSubTipo, CalcularPeriodoTipo,
     CargarSubTipo, GuardarSubTipo, SinAltaPosibleTipo, PrepararAltaTipo, InsertarSubTipo
  DEF Avanzar

LEMMA NextTipo == InvTipo /\ [Next]_vars => InvTipo'
<1>1. SUFFICES ASSUME InvTipo, [Next]_vars PROVE InvTipo'
  OBVIOUS
<1>2. ASSUME NEW t \in Tareas, Iniciar(t) PROVE InvTipo'
  BY <1>1, <1>2, CheckoutMercadoPagoTipo, CheckoutSimuladoTipo, CheckoutSinMedioTipo,
     RecibirAvisoTipo, RecibirDuplicadoTipo, IniciarResumenTipo DEF Iniciar
<1>3. ASSUME NEW t \in Tareas, Fallar(t) PROVE InvTipo'
  BY <1>1, <1>3, ResponderTipo, TareaActual DEF Fallar
<1>4. CASE UNCHANGED vars
  BY <1>1, <1>4 DEF vars, externas, historia, InvTipo, TypeOK, TareaOK, EnlacesOK
<1>5. QED
  BY <1>1, <1>2, <1>3, <1>4, AvanzarTipo, EntornoTipo DEF Next

(* Every variable keeps its type, and every task carries the entities its  *)
(* program point needs (all handlers of suscripcion.service.ts).           *)
THEOREM Tipo == Spec => []TypeOK
<1>1. Spec => []InvTipo
  BY InitTipo, NextTipo, PTL DEF Spec
<1>2. InvTipo => TypeOK
  BY DEF InvTipo
<1>3. QED
  BY <1>1, <1>2, PTL

-----------------------------------------------------------------------------
(***************************************************************************)
(* A paid plan is always backed by a charge, for every instance of         *)
(* Suscripcion.  PlanRespaldado is not inductive: what the tables show is  *)
(* safe because of what the requests in flight already know.               *)
(***************************************************************************)

(* What a task i knows of the charge it works for, with charges cob.       *)
Pagada(i, cob) ==
  /\ i.pc = "leerPago" /\ i.status = "approved" => cob[i.pago] # Nada
  /\ i.pc \in ConPago /\ i.filaPago.estado = "APROBADO" => cob[i.pago] # Nada
  /\ Acredita(i) => cob[i.pago] # Nada

CobrosOK ==
  \A c \in Cobros : estadoMp[c] \in {"approved", "refunded"} => Cobrado(RefDe[c])

Respaldo ==
  /\ CobrosOK
  /\ \A t \in Tareas : Pagada(tarea[t], cobradoEn)
  /\ PlanRespaldado

-----------------------------------------------------------------------------
LEMMA LibrePagada == \A cob : Pagada(Libre, cob)
  BY DEF Pagada, Libre, ConPago, Acredita, Aplicando, Alta

LEMMA InitRespaldo == Init => Respaldo
<1>1. SUFFICES ASSUME Init PROVE Respaldo
  OBVIOUS
<1>2. CobrosOK
  BY <1>1 DEF Init, CobrosOK
<1>3. \A t \in Tareas : Pagada(tarea[t], cobradoEn)
  BY <1>1, LibrePagada DEF Init
<1>4. PlanRespaldado
  BY <1>1, FilaPorDefectoTipo DEF Init, PlanRespaldado
<1>5. QED
  BY <1>2, <1>3, <1>4 DEF Respaldo

(* Charges are never forgotten.                                            *)
LEMMA CobradoCrece ==
  ASSUME InvTipo, [Next]_vars, NEW p \in Pagos, Cobrado(p)
  PROVE  Cobrado(p)'
<1>1. cobradoEn \in [Pagos -> Nat \cup {Nada}] /\ ahora # Nada
  BY NadaNoEsFila DEF InvTipo, TypeOK
<1>2. ASSUME NEW t \in Tareas, Iniciar(t) PROVE Cobrado(p)'
  BY <1>1, <1>2 DEF Iniciar, CheckoutMercadoPago, CheckoutSimulado, CheckoutSinMedio,
     RecibirAviso, RecibirDuplicado, IniciarResumen, historia, Cobrado
<1>3. ASSUME NEW t \in Tareas, Avanzar(t) PROVE cobradoEn' = cobradoEn
  BY <1>3 DEF Avanzar, CrearPreferencia, CargarPago, GuardarPreferencia, GuardarAprobado,
     GuardarRechazo, Consultar, ConsultaFallida, IgnorarAviso, LeerPago, PlanNoDisponible,
     LeerPlan, FaltaSub, CalcularPeriodo, CargarSub, GuardarSub, SinAltaPosible, PrepararAlta,
     InsertarSub, ClaveDuplicada, ResponderResumen, SigueSinSub, historia
<1>4. ASSUME NEW t \in Tareas, Fallar(t) PROVE cobradoEn' = cobradoEn
  BY <1>4 DEF Fallar, historia
<1>5. CASE Entorno
  BY <1>1, <1>5 DEF Entorno, Reiniciar, CambiarCobro, PasarDias, RetirarPlan, historia, Cobrado
<1>6. CASE UNCHANGED vars
  BY <1>6 DEF vars, historia, Cobrado
<1>7. QED
  BY <1>2, <1>3, <1>4, <1>5, <1>6 DEF Next, Cobrado

(* A plan that was backed stays backed while the row does not change.      *)
LEMMA RespaldoQuieto ==
  ASSUME PlanRespaldado, sub' = sub, \A p \in Pagos : Cobrado(p) => Cobrado(p)'
  PROVE  PlanRespaldado'
  BY DEF PlanRespaldado

(* A step of task t that leaves Mercado Pago alone.                        *)
LEMMA PasoRespaldo ==
  ASSUME InvTipo, Respaldo, NEW t \in Tareas, NEW i,
         tarea' = [tarea EXCEPT ![t] = i],
         estadoMp' = estadoMp,
         \A p \in Pagos : Cobrado(p) => Cobrado(p)',
         Pagada(i, cobradoEn'),
         PlanRespaldado'
  PROVE  Respaldo'
<1>1. CobrosOK'
  BY SuscripcionAssumption DEF Respaldo, CobrosOK
<1>2. ASSUME NEW otra \in Tareas PROVE Pagada(tarea'[otra], cobradoEn')
  <2>1. CASE otra = t
    BY <2>1 DEF InvTipo, TypeOK
  <2>2. CASE otra # t
    <3>1. tarea'[otra] = tarea[otra] /\ Pagada(tarea[otra], cobradoEn)
      BY <2>2 DEF InvTipo, TypeOK, Respaldo
    <3>2. tarea[otra].pc \in ConPago \cup ConAviso \/ Acredita(tarea[otra])
            => tarea[otra].pago \in Pagos
      BY DEF InvTipo, TareaOK, Bien
    <3>3. QED
      BY <3>1, <3>2 DEF Pagada, Cobrado, ConAviso
  <2>3. QED
    BY <2>1, <2>2
<1>3. QED
  BY <1>1, <1>2 DEF Respaldo

(* A step of task t that writes neither a charge nor a subscription.       *)
LEMMA PasoSinEscribirSub ==
  ASSUME InvTipo, Respaldo, NEW t \in Tareas, NEW i,
         tarea' = [tarea EXCEPT ![t] = i],
         UNCHANGED <<estadoMp, cobradoEn, sub>>,
         Pagada(i, cobradoEn)
  PROVE  Respaldo'
<1>1. \A p \in Pagos : Cobrado(p) => Cobrado(p)'
  BY DEF Cobrado
<1>2. PlanRespaldado'
  BY <1>1, RespaldoQuieto DEF Respaldo
<1>3. QED
  BY <1>1, <1>2, PasoRespaldo

-----------------------------------------------------------------------------
LEMMA TerminarRespaldo ==
  ASSUME InvTipo, Respaldo, NEW t \in Tareas, Responder(t) \/ Lanzar(t),
         UNCHANGED <<estadoMp, cobradoEn, sub>>
  PROVE  Respaldo'
  BY PasoSinEscribirSub, LibrePagada DEF Responder, Lanzar

LEMMA IniciarRespaldo ==
  ASSUME InvTipo, Respaldo, NEW t \in Tareas, Iniciar(t)
  PROVE  Respaldo'
<1>1. ASSUME NEW p \in Pagos, CheckoutMercadoPago(t, p) PROVE Respaldo'
  <2> DEFINE i == TareaCheckout(p, "preferencia", PagoNuevo)
  <2>1. Pagada(i, cobradoEn)
    BY DEF TareaCheckout, PagoNuevo, Libre, Pagada, Acredita, Aplicando, Alta
  <2>2. QED
    BY <1>1, <2>1, PasoSinEscribirSub DEF CheckoutMercadoPago, externas, historia
<1>2. ASSUME NEW p \in Pagos, CheckoutSimulado(t, p) PROVE Respaldo'
  <2> DEFINE i == TareaCheckout(p, "cargarPago", [PagoNuevo EXCEPT !.estado = "APROBADO"])
  <2>1. cobradoEn' = [cobradoEn EXCEPT ![p] = ahora] /\ ahora # Nada
        /\ cobradoEn \in [Pagos -> Nat \cup {Nada}]
    BY <1>2, NadaNoEsFila DEF CheckoutSimulado, InvTipo, TypeOK
  <2>2. \A q \in Pagos : Cobrado(q) => Cobrado(q)'
    BY <2>1 DEF Cobrado
  <2>3. i.pago = p
    BY DEF TareaCheckout, Libre
  <2>4. Pagada(i, cobradoEn')
    BY <2>1, <2>3 DEF Pagada
  <2>5. PlanRespaldado'
    BY <1>2, <2>2, RespaldoQuieto DEF CheckoutSimulado, Respaldo
  <2>6. QED
    BY <1>2, <2>2, <2>4, <2>5, PasoRespaldo DEF CheckoutSimulado, externas
<1>3. ASSUME NEW p \in Pagos, CheckoutSinMedio(t, p) PROVE Respaldo'
  <2>1. tarea' = [tarea EXCEPT ![t] = tarea[t]] /\ Pagada(tarea[t], cobradoEn)
    BY <1>3 DEF CheckoutSinMedio, InvTipo, TypeOK, Respaldo
  <2>2. QED
    BY <1>3, <2>1, PasoSinEscribirSub DEF CheckoutSinMedio, externas, historia
<1>4. ASSUME NEW a \in Avisos, Atender(t, a), UNCHANGED <<estadoMp, cobradoEn, sub>>
      PROVE  Respaldo'
  <2> DEFINE i == [Libre EXCEPT !.pc = "consultar", !.tipo = "webhook", !.aviso = a,
                     !.pago = RefDe[a[1]], !.usuario = Solicitud[RefDe[a[1]]].usuario]
  <2>1. Pagada(i, cobradoEn)
    BY DEF Libre, Pagada, ConPago, Acredita, Aplicando, Alta
  <2>2. QED
    BY <1>4, <2>1, PasoSinEscribirSub DEF Atender
<1>5. ASSUME NEW u \in Usuarios, IniciarResumen(t, u) PROVE Respaldo'
  <2> DEFINE i == [Libre EXCEPT !.pc = "leerSubDef", !.tipo = "resumen", !.usuario = u]
  <2>1. Pagada(i, cobradoEn)
    BY DEF Libre, Pagada, ConPago, Acredita, Aplicando, Alta
  <2>2. QED
    BY <1>5, <2>1, PasoSinEscribirSub DEF IniciarResumen, externas, historia
<1>6. QED
  BY <1>1, <1>2, <1>3, <1>4, <1>5 DEF Iniciar, RecibirAviso, RecibirDuplicado, externas

LEMMA ConsultarRespaldo ==
  ASSUME InvTipo, Respaldo, NEW t \in Tareas, Consultar(t)
  PROVE  Respaldo'
<1> DEFINE c == tarea[t].aviso[1]
           i == [tarea[t] EXCEPT !.pc = "leerPago", !.status = estadoMp[c]]
<1>1. tarea[t] \in Tarea /\ c \in Cobros /\ RefDe[c] = tarea[t].pago
  BY TareaActual DEF Consultar, En, Bien, ConAviso, Avisos
<1>2. Pagada(i, cobradoEn)
  BY <1>1 DEF Respaldo, CobrosOK, Cobrado, Pagada, Tarea, ConPago, Acredita, Aplicando, Alta
<1>3. QED
  BY <1>2, PasoSinEscribirSub DEF Consultar, externas, historia, InvTipo, TypeOK

LEMMA LeerPagoRespaldo ==
  ASSUME InvTipo, Respaldo, NEW t \in Tareas, LeerPago(t)
  PROVE  Respaldo'
<1> DEFINE i == [tarea[t] EXCEPT !.pc = "cargarPago", !.status = "inexistente",
                    !.filaPago = [pago[tarea[t].pago] EXCEPT !.estado = EstadoSegun(tarea[t].status)]]
<1>1. tarea[t] \in Tarea /\ tarea[t].pc = "leerPago" /\ pago[tarea[t].pago] \in FilaPago
  BY TareaActual DEF LeerPago, En, Bien, ConAviso, InvTipo, TypeOK
<1>2. i.filaPago.estado = EstadoSegun(tarea[t].status)
      /\ i.pc = "cargarPago" /\ i.pago = tarea[t].pago
  BY <1>1 DEF Tarea, FilaPago
<1>3. i.filaPago.estado = "APROBADO" => tarea[t].status = "approved"
  BY <1>2 DEF EstadoSegun
<1>4. Pagada(i, cobradoEn)
  BY <1>1, <1>2, <1>3 DEF Respaldo, Pagada, Acredita, Aplicando, Alta
<1>5. QED
  BY <1>4, PasoSinEscribirSub DEF LeerPago, externas, historia, InvTipo, TypeOK

(* Steps that carry the same entity on, or start to apply the plan.        *)
LEMMA SeguirRespaldo ==
  ASSUME InvTipo, Respaldo, NEW t \in Tareas,
         CargarPago(t) \/ CrearPreferencia(t) \/ GuardarAprobado(t)
  PROVE  Respaldo'
<1>1. tarea[t] \in Tarea /\ Pagada(tarea[t], cobradoEn)
      /\ tarea \in [Tareas -> Tarea]
  BY TareaActual DEF Respaldo, InvTipo, TypeOK
<1>2. CASE CargarPago(t)
  <2> DEFINE i == [tarea[t] EXCEPT !.pc = "guardarPago",
                     !.cols = ColumnasDistintas(tarea[t].filaPago, pago[tarea[t].pago], ColumnasPago)]
  <2>1. Pagada(i, cobradoEn)
    BY <1>1, <1>2 DEF CargarPago, En, Tarea, Pagada, ConPago, Acredita, Aplicando, Alta
  <2>2. QED
    BY <1>1, <1>2, <2>1, PasoSinEscribirSub DEF CargarPago, externas, historia
<1>3. CASE CrearPreferencia(t)
  <2> DEFINE i == [tarea[t] EXCEPT !.pc = "cargarPago", !.filaPago.pref = TRUE]
  <2>1. tarea[t].filaPago \in FilaPago /\ tarea[t].pc = "preferencia"
    BY <1>3, TareaActual DEF CrearPreferencia, En, Bien, ConPago
  <2>2. i.filaPago.estado = tarea[t].filaPago.estado /\ i.pago = tarea[t].pago
        /\ i.pc = "cargarPago"
    BY <1>1, <2>1 DEF Tarea, FilaPago
  <2>3. Pagada(i, cobradoEn)
    BY <1>1, <2>1, <2>2 DEF Pagada, ConPago, Acredita, Aplicando, Alta
  <2>4. tarea' = [tarea EXCEPT ![t] = i] /\ UNCHANGED <<estadoMp, cobradoEn, sub>>
    BY <1>1, <1>3 DEF CrearPreferencia, externas, historia
  <2>5. QED
    BY <2>3, <2>4, PasoSinEscribirSub
<1>4. CASE GuardarAprobado(t)
  <2> DEFINE i == [tarea[t] EXCEPT !.pc = "leerPlan", !.filaPago = Nada, !.cols = {}]
  <2>1. Pagada(i, cobradoEn)
    BY <1>1, <1>4 DEF GuardarAprobado, En, Tarea, Pagada, ConPago
  <2>2. QED
    BY <1>1, <1>4, <2>1, PasoSinEscribirSub DEF GuardarAprobado, externas, historia
<1>5. QED
  BY <1>2, <1>3, <1>4

(* Steps on the way to the subscription row that do not write it.          *)
LEMMA AplicarRespaldo ==
  ASSUME InvTipo, Respaldo, NEW t \in Tareas,
         \/ LeerPlan(t) \/ FaltaSub(t) \/ CalcularPeriodo(t) \/ CargarSub(t)
         \/ SinAltaPosible(t) \/ PrepararAlta(t)
  PROVE  Respaldo'
<1>1. tarea[t] \in Tarea /\ Pagada(tarea[t], cobradoEn)
      /\ tarea \in [Tareas -> Tarea]
  BY TareaActual DEF Respaldo, InvTipo, TypeOK
<1>2. CASE FaltaSub(t)
  <2>1. Pagada([tarea[t] EXCEPT !.pc = "leerSubDef"], cobradoEn)
    BY <1>1, <1>2 DEF FaltaSub, En, Tarea, Pagada, ConPago, Acredita, Aplicando, Alta
  <2>2. QED
    BY <1>1, <1>2, <2>1, PasoSinEscribirSub DEF FaltaSub, Ir, externas, historia
<1>3. CASE CalcularPeriodo(t)
  <2> DEFINE i == [tarea[t] EXCEPT !.pc = "cargarSub",
                     !.filaSub = FilaTrasPago(SubDe(t), PlanDe(t), CicloDe(t), ahora)]
  <2>1. Pagada(i, cobradoEn)
    BY <1>1, <1>3 DEF CalcularPeriodo, En, Tarea, Pagada, ConPago, Acredita, Aplicando, Alta
  <2>2. QED
    BY <1>1, <1>3, <2>1, PasoSinEscribirSub DEF CalcularPeriodo, externas, historia
<1>4. CASE CargarSub(t)
  <2> DEFINE i == [tarea[t] EXCEPT !.pc = "guardarSub",
                     !.cols = ColumnasDistintas(tarea[t].filaSub, SubDe(t), ColumnasSub)]
  <2>1. Pagada(i, cobradoEn)
    BY <1>1, <1>4 DEF CargarSub, En, Tarea, Pagada, ConPago, Acredita, Aplicando, Alta
  <2>2. QED
    BY <1>1, <1>4, <2>1, PasoSinEscribirSub DEF CargarSub, externas, historia
<1>5. CASE SinAltaPosible(t)
  <2>1. Pagada([tarea[t] EXCEPT !.pc = "releerSub"], cobradoEn)
    BY <1>1, <1>5 DEF SinAltaPosible, En, Tarea, Pagada, ConPago, Acredita, Aplicando, Alta
  <2>2. QED
    BY <1>1, <1>5, <2>1, PasoSinEscribirSub DEF SinAltaPosible, Ir, externas, historia
<1>6. CASE PrepararAlta(t)
  <2> DEFINE i == [tarea[t] EXCEPT !.pc = "insertarSub", !.filaSub = FilaPorDefecto(ahora)]
  <2>1. Pagada(i, cobradoEn)
    BY <1>1, <1>6 DEF PrepararAlta, En, Tarea, Pagada, ConPago, Acredita, Aplicando, Alta
  <2>2. QED
    BY <1>1, <1>6, <2>1, PasoSinEscribirSub DEF PrepararAlta, externas, historia
<1>7. CASE LeerPlan(t)
  <2>1. Pagada([tarea[t] EXCEPT !.pc = "leerSub"], cobradoEn)
    BY <1>1, <1>7 DEF LeerPlan, En, Tarea, Pagada, ConPago, Acredita, Aplicando, Alta
  <2>2. QED
    BY <1>1, <1>7, <2>1, PasoSinEscribirSub DEF LeerPlan, Ir, externas, historia
<1>8. QED
  BY <1>2, <1>3, <1>4, <1>5, <1>6, <1>7

(* The write that credits a payment: each column is the old one, which was *)
(* backed, or the one the payment bought.                                  *)
LEMMA GuardarSubRespaldo ==
  ASSUME InvTipo, Respaldo, NEW t \in Tareas, GuardarSub(t)
  PROVE  Respaldo'
<1> DEFINE u == tarea[t].usuario
           p == tarea[t].pago
           nueva == tarea[t].filaSub
           fila == FusionSub(sub[u], nueva, tarea[t].cols)
<1>1. tarea[t].pc = "guardarSub" /\ cobradoEn' = cobradoEn /\ estadoMp' = estadoMp
      /\ sub' = [sub EXCEPT ![u] = fila] /\ tarea' = [tarea EXCEPT ![t] = Libre]
  BY DEF GuardarSub, En, Responder, externas
<1>2. /\ p \in Pagos /\ u = Solicitud[p].usuario
      /\ sub[u] # Nada
      /\ nueva.plan = Solicitud[p].plan /\ nueva.ciclo = Solicitud[p].ciclo
  BY <1>1, TareaActual DEF Bien, Acredita, Aplicando
<1>3. Cobrado(p)
  BY <1>1 DEF Respaldo, Pagada, Acredita, Aplicando, Cobrado
<1>4. /\ fila.plan \in {nueva.plan, sub[u].plan}
      /\ fila.ciclo \in {nueva.ciclo, sub[u].ciclo}
  BY DEF FusionSub
<1>5. ASSUME NEW v \in Usuarios, sub'[v] # Nada
      PROVE  /\ \/ sub'[v].plan = Basico
                \/ \E q \in Pagos : /\ Solicitud[q].usuario = v /\ Cobrado(q)
                                    /\ Solicitud[q].plan = sub'[v].plan
             /\ \/ sub'[v].ciclo = "mensual"
                \/ \E q \in Pagos : /\ Solicitud[q].usuario = v /\ Cobrado(q)
                                    /\ Solicitud[q].ciclo = sub'[v].ciclo
  <2>1. CASE v = u
    <3>1. sub'[v] = fila
      BY <1>1, <2>1 DEF InvTipo, TypeOK
    <3>2. QED
      BY <1>2, <1>3, <1>4, <2>1, <3>1 DEF Respaldo, PlanRespaldado
  <2>2. CASE v # u
    BY <1>1, <1>5, <2>2 DEF InvTipo, TypeOK, Respaldo, PlanRespaldado
  <2>3. QED
    BY <2>1, <2>2
<1>6. PlanRespaldado'
  BY <1>1, <1>5 DEF PlanRespaldado, Cobrado
<1>7. QED
  BY <1>1, <1>6, PasoRespaldo, LibrePagada DEF Cobrado

LEMMA InsertarSubRespaldo ==
  ASSUME InvTipo, Respaldo, NEW t \in Tareas, InsertarSub(t)
  PROVE  Respaldo'
<1> DEFINE u == tarea[t].usuario
           i == [tarea[t] EXCEPT !.pc = "releerSub", !.filaSub = Nada]
<1>1. tarea[t].pc = "insertarSub" /\ cobradoEn' = cobradoEn /\ estadoMp' = estadoMp
      /\ sub' = [sub EXCEPT ![u] = tarea[t].filaSub]
      /\ tarea' = [tarea EXCEPT ![t] = i]
  BY DEF InsertarSub, En, externas, historia, InvTipo, TypeOK
<1>2. tarea[t].filaSub.plan = Basico /\ tarea[t].filaSub.ciclo = "mensual"
  BY <1>1, TareaActual DEF Bien
<1>3. PlanRespaldado'
  BY <1>1, <1>2 DEF InvTipo, TypeOK, Respaldo, PlanRespaldado, Cobrado
<1>4. Pagada(i, cobradoEn')
  BY <1>1, TareaActual DEF Respaldo, Tarea, Pagada, ConPago, Acredita, Aplicando, Alta
<1>5. QED
  BY <1>1, <1>3, <1>4, PasoRespaldo DEF Cobrado

LEMMA AvanzarRespaldo ==
  ASSUME InvTipo, Respaldo, NEW t \in Tareas, Avanzar(t)
  PROVE  Respaldo'
<1>1. CASE \/ GuardarPreferencia(t) \/ GuardarRechazo(t) \/ ConsultaFallida(t)
           \/ IgnorarAviso(t) \/ PlanNoDisponible(t) \/ ClaveDuplicada(t)
           \/ ResponderResumen(t) \/ SigueSinSub(t)
  BY <1>1, TerminarRespaldo
  DEF GuardarPreferencia, GuardarRechazo, ConsultaFallida, IgnorarAviso, PlanNoDisponible,
      ClaveDuplicada, ResponderResumen, SigueSinSub, externas, historia
<1>2. QED
  BY <1>1, ConsultarRespaldo, LeerPagoRespaldo, SeguirRespaldo, AplicarRespaldo,
     GuardarSubRespaldo, InsertarSubRespaldo DEF Avanzar

LEMMA EntornoRespaldo ==
  ASSUME InvTipo, Respaldo, Entorno, [Next]_vars
  PROVE  Respaldo'
<1>1. sub' = sub /\ \A p \in Pagos : Cobrado(p) => Cobrado(p)'
  BY CobradoCrece DEF Entorno, Reiniciar, CambiarCobro, PasarDias, RetirarPlan
<1>2. PlanRespaldado'
  BY <1>1, RespaldoQuieto DEF Respaldo
<1>3. CASE Reiniciar
  BY <1>2, <1>3, LibrePagada DEF Reiniciar, historia, Respaldo, CobrosOK, Cobrado
<1>4. ASSUME NEW c \in Cobros, NEW s \in EstadosMp, CambiarCobro(c, s) PROVE Respaldo'
  <2>1. estadoMp \in [Cobros -> EstadosMp] /\ RefDe \in [Cobros -> Pagos]
        /\ ahora # Nada /\ cobradoEn \in [Pagos -> Nat \cup {Nada}]
    BY NadaNoEsFila, SuscripcionAssumption DEF InvTipo, TypeOK
  <2>2. ASSUME NEW d \in Cobros, estadoMp'[d] \in {"approved", "refunded"}
        PROVE  Cobrado(RefDe[d])'
    <3>1. CASE d # c
      BY <1>1, <1>4, <2>1, <2>2, <3>1 DEF CambiarCobro, Respaldo, CobrosOK
    <3>2. CASE d = c /\ s = "refunded"
      <4>1. estadoMp[c] = "approved"
        BY <1>4, <3>2 DEF CambiarCobro, Transiciones
      <4>2. QED
        BY <1>1, <2>1, <3>2, <4>1 DEF Respaldo, CobrosOK
    <3>3. CASE d = c /\ s = "approved"
      BY <1>4, <2>1, <3>3 DEF CambiarCobro, Cobrado
    <3>4. QED
      BY <1>4, <2>1, <2>2, <3>1, <3>2, <3>3 DEF CambiarCobro
  <2>3. CobrosOK'
    BY <2>2 DEF CobrosOK, Cobrado
  <2>4. \A t \in Tareas : Pagada(tarea'[t], cobradoEn')
    <3>1. SUFFICES ASSUME NEW t \in Tareas PROVE Pagada(tarea[t], cobradoEn')
      BY <1>4 DEF CambiarCobro
    <3>2. tarea[t].pc \in ConPago \cup ConAviso \/ Acredita(tarea[t]) => tarea[t].pago \in Pagos
      BY DEF InvTipo, TareaOK, Bien
    <3>3. QED
      BY <1>1, <3>2 DEF Respaldo, Pagada, Cobrado, ConAviso
  <2>5. QED
    BY <1>2, <2>3, <2>4 DEF Respaldo
<1>5. ASSUME NEW d \in Saltos, PasarDias(d) PROVE Respaldo'
  BY <1>2, <1>5 DEF PasarDias, historia, Respaldo, CobrosOK, Cobrado
<1>6. ASSUME NEW plan \in PlanesRetirables, RetirarPlan(plan) PROVE Respaldo'
  BY <1>2, <1>6 DEF RetirarPlan, historia, Respaldo, CobrosOK, Cobrado
<1>7. QED
  BY <1>3, <1>4, <1>5, <1>6 DEF Entorno

LEMMA NextRespaldo == InvTipo /\ Respaldo /\ [Next]_vars => Respaldo'
<1>1. SUFFICES ASSUME InvTipo, Respaldo, [Next]_vars PROVE Respaldo'
  OBVIOUS
<1>2. ASSUME NEW t \in Tareas, Fallar(t) PROVE Respaldo'
  BY <1>1, <1>2, TerminarRespaldo DEF Fallar, historia
<1>3. CASE UNCHANGED vars
  BY <1>1, <1>3 DEF vars, externas, historia, Respaldo, CobrosOK, Cobrado, PlanRespaldado
<1>4. QED
  BY <1>1, <1>2, <1>3, IniciarRespaldo, AvanzarRespaldo, EntornoRespaldo DEF Next

(* Nobody ever holds a paid plan or a yearly cycle that no charge of       *)
(* their own backs (procesarWebhookMercadoPago, aplicarPlanTrasPago).      *)
THEOREM PlanesRespaldados == Spec => []PlanRespaldado
<1>1. Init => InvTipo /\ Respaldo
  BY InitTipo, InitRespaldo
<1>2. InvTipo /\ Respaldo /\ [Next]_vars => (InvTipo /\ Respaldo)'
  BY NextTipo, NextRespaldo
<1>3. Respaldo => PlanRespaldado
  BY DEF Respaldo
<1>4. QED
  BY <1>1, <1>2, <1>3, PTL DEF Spec

-----------------------------------------------------------------------------
(* The free plan is not for sale: its price is not positive.               *)
PagosDePlanPago == \A p \in Pagos : pago[p] # Nada => Solicitud[p].plan # Basico

LEMMA BasicoNoSeVende == \A ciclo : ~SeVende(Basico, ciclo)
  BY PlanesAssumption DEF SeVende, MontoPorCiclo, MESES_FACTURACION_ANUAL

LEMMA NextPagosDePlanPago ==
  ASSUME InvTipo, PagosDePlanPago, [Next]_vars
  PROVE  PagosDePlanPago'
<1>1. SUFFICES ASSUME NEW p \in Pagos, pago'[p] # Nada PROVE pago[p] # Nada \/ Solicitud[p].plan # Basico
  BY DEF PagosDePlanPago
<1>2. ASSUME NEW q \in Pagos, InsertarPago(q) PROVE pago[p] # Nada \/ Solicitud[p].plan # Basico
  BY <1>1, <1>2, BasicoNoSeVende DEF InsertarPago, InvTipo, TypeOK
<1>3. ASSUME NEW t \in Tareas, En(t, "guardarPago"), PersistirPago(t) PROVE pago[p] # Nada
  BY <1>1, <1>3, TareaActual DEF PersistirPago, En, Bien, ConPago, InvTipo, TypeOK
<1>4. ASSUME NEW t \in Tareas, Iniciar(t) PROVE pago[p] # Nada \/ Solicitud[p].plan # Basico
  BY <1>1, <1>2, <1>4 DEF Iniciar, CheckoutMercadoPago, CheckoutSimulado, CheckoutSinMedio,
     RecibirAviso, RecibirDuplicado, IniciarResumen
<1>5. ASSUME NEW t \in Tareas, Avanzar(t) \/ Fallar(t) PROVE pago[p] # Nada
  BY <1>1, <1>3, <1>5 DEF Avanzar, CrearPreferencia, CargarPago, GuardarPreferencia,
     GuardarAprobado, GuardarRechazo, Consultar, ConsultaFallida, IgnorarAviso, LeerPago,
     PlanNoDisponible, LeerPlan, FaltaSub, CalcularPeriodo, CargarSub, GuardarSub, SinAltaPosible,
     PrepararAlta, InsertarSub, ClaveDuplicada, ResponderResumen, SigueSinSub, Fallar
<1>6. CASE Entorno \/ UNCHANGED vars
  BY <1>1, <1>6 DEF Entorno, Reiniciar, CambiarCobro, PasarDias, RetirarPlan, vars
<1>7. QED
  BY <1>4, <1>5, <1>6 DEF Next

(* The two writers of a subscription row: one only inserts, the other      *)
(* writes the plan of a payment.                                           *)
LEMMA PlanPagoQueda ==
  ASSUME InvTipo, PagosDePlanPago, [Next]_vars,
         NEW u \in Usuarios, sub[u] # Nada, sub[u].plan # Basico
  PROVE  sub'[u].plan # Basico
<1>1. ASSUME NEW t \in Tareas, GuardarSub(t) PROVE sub'[u].plan # Basico
  <2> DEFINE i == tarea[t]
  <2>1. /\ i.pc = "guardarSub"
        /\ sub' = [sub EXCEPT ![i.usuario] = FusionSub(@, i.filaSub, i.cols)]
    BY <1>1 DEF GuardarSub, En
  <2>2. i.pago \in Pagos /\ pago[i.pago] # Nada /\ i.filaSub.plan = Solicitud[i.pago].plan
    BY <2>1, TareaActual DEF Bien, Acredita, Aplicando
  <2>3. FusionSub(sub[u], i.filaSub, i.cols).plan # Basico
    BY <2>2 DEF FusionSub, PagosDePlanPago
  <2>4. QED
    BY <2>1, <2>3 DEF InvTipo, TypeOK
<1>2. ASSUME NEW t \in Tareas, InsertarSub(t) PROVE sub'[u].plan # Basico
  BY <1>2 DEF InsertarSub, PuedeInsertar, InvTipo, TypeOK
<1>3. ASSUME NEW t \in Tareas, Iniciar(t) \/ Fallar(t) PROVE sub' = sub
  BY <1>3 DEF Iniciar, CheckoutMercadoPago, CheckoutSimulado, CheckoutSinMedio,
     RecibirAviso, RecibirDuplicado, IniciarResumen, Fallar
<1>4. ASSUME NEW t \in Tareas, Avanzar(t), ~GuardarSub(t), ~InsertarSub(t) PROVE sub' = sub
  BY <1>4 DEF Avanzar, CrearPreferencia, CargarPago, GuardarPreferencia, GuardarAprobado,
     GuardarRechazo, Consultar, ConsultaFallida, IgnorarAviso, LeerPago, PlanNoDisponible,
     LeerPlan, FaltaSub, CalcularPeriodo, CargarSub, SinAltaPosible, PrepararAlta, ClaveDuplicada,
     ResponderResumen, SigueSinSub
<1>5. CASE Entorno \/ UNCHANGED vars
  BY <1>5 DEF Entorno, Reiniciar, CambiarCobro, PasarDias, RetirarPlan, vars
<1>6. QED
  BY <1>1, <1>2, <1>3, <1>4, <1>5 DEF Next

(* Nothing takes a paid plan away: the default row that a summary or a     *)
(* webhook creates never lands on an existing one (crearSuscripcion-       *)
(* PorDefecto), and no payment is for the free plan (crearCheckout).       *)
THEOREM PlanPagoQuedaSiempre == Spec => PlanPagoNoVuelveABasico
<1> DEFINE Queda == \A u \in Usuarios :
                      sub[u] # Nada /\ sub[u].plan # Basico => sub'[u].plan # Basico
<1>1. Init => InvTipo /\ PagosDePlanPago
  BY InitTipo DEF Init, PagosDePlanPago
<1>2. InvTipo /\ PagosDePlanPago /\ [Next]_vars => (InvTipo /\ PagosDePlanPago)'
  BY NextTipo, NextPagosDePlanPago
<1>3. InvTipo /\ PagosDePlanPago /\ [Next]_vars => [Queda]_vars
  BY PlanPagoQueda
<1>4. QED
  BY <1>1, <1>2, <1>3, PTL DEF Spec, PlanPagoNoVuelveABasico

-----------------------------------------------------------------------------
(***************************************************************************)
(* How far the period of a user reaches.  Two payments that are applied at *)
(* once may lose an extension but never gain one: the end that a request   *)
(* has in memory was computed from a row that was in bounds when it was    *)
(* read, and the bound only grows.                                         *)
(***************************************************************************)

(* A request i will not write an end past what user i.usuario may have,    *)
(* when payment p has been credited veces[p] times and the date is hoy.    *)
PeriodoBien(i, veces, hoy) ==
  /\ i.pc = "insertarSub" => i.filaSub.validoHasta <= hoy + PeriodoDias[Basico]
  /\ i.pc \in {"cargarSub", "guardarSub"} =>
       i.filaSub.validoHasta <=
         hoy + PeriodoDias[Basico] + DiasComprados(i.usuario, veces)
           + DiasPorCiclo(Solicitud[i.pago].ciclo)

InvPeriodo ==
  /\ PeriodoAcotado
  /\ \A t \in Tareas : PeriodoBien(tarea[t], acreditaciones, ahora)

-----------------------------------------------------------------------------
(* The days bought, as the payments are credited.                          *)

LEMMA ComprasDe ==
  ASSUME NEW u, NEW ciclo, NEW veces, NEW c
  PROVE  c \in Compras(u, ciclo, veces) <=>
           \E p \in Pagos : /\ Solicitud[p].usuario = u /\ Solicitud[p].ciclo = ciclo
                            /\ \E n \in 1..veces[p] : c = <<p, n>>
  BY DEF Compras

LEMMA ComprasFinitas ==
  ASSUME IsFiniteSet(Pagos), NEW u, NEW ciclo, NEW veces \in [Pagos -> Nat]
  PROVE  /\ IsFiniteSet(Compras(u, ciclo, veces))
         /\ Cardinality(Compras(u, ciclo, veces)) \in Nat
<1> DEFINE De == {q \in Pagos : Solicitud[q].usuario = u /\ Solicitud[q].ciclo = ciclo}
           T == {{p} \X (1..veces[p]) : p \in De}
           f == [p \in De |-> {p} \X (1..veces[p])]
<1>1. IsFiniteSet(De)
  BY FS_Subset
<1>2. f \in Surjection(De, T)
  BY DEF Surjection
<1>3. IsFiniteSet(T)
  <2> HIDE DEF De, T, f
  <2> QED
    BY <1>1, <1>2, FS_Surjection
<1>4. ASSUME NEW S \in T PROVE IsFiniteSet(S)
  <2>1. PICK p \in De : S = {p} \X (1..veces[p])
    BY <1>4
  <2>2. IsFiniteSet({p})
    BY FS_Singleton
  <2>3. IsFiniteSet(1..veces[p])
    <3>1. 1 \in Int /\ veces[p] \in Int
      OBVIOUS
    <3> QED
      BY <3>1, FS_Interval
  <2> QED
    BY <2>1, <2>2, <2>3, FS_Product
<1>5. IsFiniteSet(UNION T)
  <2> HIDE DEF T
  <2> QED
    BY <1>3, <1>4, FS_UNION
<1>6. Compras(u, ciclo, veces) = UNION T
  BY DEF Compras
<1> QED
  BY <1>5, <1>6, FS_CardinalityType

LEMMA DiasTipo ==
  ASSUME IsFiniteSet(Pagos), NEW u, NEW veces \in [Pagos -> Nat]
  PROVE  DiasComprados(u, veces) \in Nat
<1>1. /\ Cardinality(Compras(u, "anual", veces)) \in Nat
      /\ Cardinality(Compras(u, "mensual", veces)) \in Nat
  BY ComprasFinitas
<1> QED
  BY <1>1 DEF DiasComprados

(* More credits are not fewer days.                                        *)
LEMMA DiasCrecen ==
  ASSUME IsFiniteSet(Pagos), NEW u, NEW veces \in [Pagos -> Nat], NEW mas \in [Pagos -> Nat],
         \A p \in Pagos : veces[p] <= mas[p]
  PROVE  DiasComprados(u, veces) <= DiasComprados(u, mas)
<1>1. ASSUME NEW ciclo
      PROVE  /\ Cardinality(Compras(u, ciclo, veces)) \in Nat
             /\ Cardinality(Compras(u, ciclo, mas)) \in Nat
             /\ Cardinality(Compras(u, ciclo, veces)) <= Cardinality(Compras(u, ciclo, mas))
  <2>1. \A p \in Pagos : 1..veces[p] \subseteq 1..mas[p]
    OBVIOUS
  <2>2. Compras(u, ciclo, veces) \subseteq Compras(u, ciclo, mas)
    BY <2>1, ComprasDe
  <2>3. /\ IsFiniteSet(Compras(u, ciclo, mas)) /\ Cardinality(Compras(u, ciclo, mas)) \in Nat
        /\ Cardinality(Compras(u, ciclo, veces)) \in Nat
    BY ComprasFinitas
  <2> QED
    BY <2>2, <2>3, FS_Subset
<1> QED
  BY <1>1 DEF DiasComprados

LEMMA ComprasIguales ==
  ASSUME NEW u, NEW ciclo, NEW veces, NEW mas,
         \A q \in Pagos : Solicitud[q].ciclo = ciclo => mas[q] = veces[q]
  PROVE  Compras(u, ciclo, mas) = Compras(u, ciclo, veces)
<1>1. ASSUME NEW c, c \in Compras(u, ciclo, mas) PROVE c \in Compras(u, ciclo, veces)
  <2>1. PICK q \in Pagos : /\ Solicitud[q].usuario = u /\ Solicitud[q].ciclo = ciclo
                           /\ \E n \in 1..mas[q] : c = <<q, n>>
    BY <1>1, ComprasDe
  <2>2. \E n \in 1..veces[q] : c = <<q, n>>
    BY <2>1
  <2> QED
    BY <2>1, <2>2, ComprasDe
<1>2. ASSUME NEW c, c \in Compras(u, ciclo, veces) PROVE c \in Compras(u, ciclo, mas)
  <2>1. PICK q \in Pagos : /\ Solicitud[q].usuario = u /\ Solicitud[q].ciclo = ciclo
                           /\ \E n \in 1..veces[q] : c = <<q, n>>
    BY <1>2, ComprasDe
  <2>2. \E n \in 1..mas[q] : c = <<q, n>>
    BY <2>1
  <2> QED
    BY <2>1, <2>2, ComprasDe
<1> QED
  BY <1>1, <1>2

LEMMA ComprasCrecen ==
  ASSUME NEW veces \in [Pagos -> Nat], NEW p \in Pagos,
         NEW mas \in [Pagos -> Nat],
         mas[p] = veces[p] + 1, \A q \in Pagos \ {p} : mas[q] = veces[q]
  PROVE  Compras(Solicitud[p].usuario, Solicitud[p].ciclo, mas) =
           Compras(Solicitud[p].usuario, Solicitud[p].ciclo, veces) \cup {<<p, mas[p]>>}
<1>0. SUFFICES ASSUME NEW u, NEW ciclo, Solicitud[p].usuario = u, Solicitud[p].ciclo = ciclo
               PROVE  Compras(u, ciclo, mas) = Compras(u, ciclo, veces) \cup {<<p, mas[p]>>}
  OBVIOUS
<1>1. mas[p] = veces[p] + 1 /\ veces[p] \in Nat
  OBVIOUS
<1>2. 1..mas[p] = (1..veces[p]) \cup {mas[p]} /\ \A q \in Pagos \ {p} : mas[q] = veces[q]
  BY <1>1
<1>3. ASSUME NEW c, c \in Compras(u, ciclo, mas)
      PROVE  c \in Compras(u, ciclo, veces) \/ c = <<p, mas[p]>>
  <2>1. PICK q \in Pagos : /\ Solicitud[q].usuario = u /\ Solicitud[q].ciclo = ciclo
                           /\ \E m \in 1..mas[q] : c = <<q, m>>
    BY <1>3, ComprasDe
  <2>2. PICK m \in 1..mas[q] : c = <<q, m>>
    BY <2>1
  <2>3. CASE q = p
    <3>1. m \in 1..veces[p] \/ m = mas[p]
      BY <1>2, <2>2, <2>3
    <3> QED
      BY <2>1, <2>2, <2>3, <3>1, ComprasDe
  <2>4. CASE q # p
    <3>1. m \in 1..veces[q]
      BY <1>2, <2>2, <2>4
    <3> QED
      BY <2>1, <2>2, <3>1, ComprasDe
  <2> QED
    BY <2>3, <2>4
<1>4. ASSUME NEW c, c \in Compras(u, ciclo, veces) PROVE c \in Compras(u, ciclo, mas)
  <2>1. PICK q \in Pagos : /\ Solicitud[q].usuario = u /\ Solicitud[q].ciclo = ciclo
                           /\ \E m \in 1..veces[q] : c = <<q, m>>
    BY <1>4, ComprasDe
  <2>2. \E m \in 1..mas[q] : c = <<q, m>>
    BY <1>2, <2>1
  <2> QED
    BY <2>1, <2>2, ComprasDe
<1>5. <<p, mas[p]>> \in Compras(u, ciclo, mas)
  <2>1. \E m \in 1..mas[p] : <<p, mas[p]>> = <<p, m>>
    BY <1>2
  <2> QED
    BY <1>0, <2>1, ComprasDe
<1> QED
  BY <1>3, <1>4, <1>5

(* One credit more of payment p is the days of its cycle for its user.     *)
LEMMA UnCreditoMas ==
  ASSUME IsFiniteSet(Pagos), NEW veces \in [Pagos -> Nat], NEW p \in Pagos,
         NEW mas \in [Pagos -> Nat],
         mas[p] = veces[p] + 1, \A q \in Pagos \ {p} : mas[q] = veces[q]
  PROVE  DiasComprados(Solicitud[p].usuario, mas) =
           DiasComprados(Solicitud[p].usuario, veces) + DiasPorCiclo(Solicitud[p].ciclo)
<1> DEFINE u == Solicitud[p].usuario
           N(ciclo, v) == Cardinality(Compras(u, ciclo, v))
<1>1. /\ mas \in [Pagos -> Nat] /\ mas[p] = veces[p] + 1 /\ veces[p] \in Nat
      /\ \A q \in Pagos \ {p} : mas[q] = veces[q]
  OBVIOUS
<1>2. 1..mas[p] = (1..veces[p]) \cup {mas[p]} /\ mas[p] \notin 1..veces[p]
  BY <1>1
<1>3. Compras(u, Solicitud[p].ciclo, mas) = Compras(u, Solicitud[p].ciclo, veces) \cup {<<p, mas[p]>>}
  BY <1>1, ComprasCrecen
<1>4. <<p, mas[p]>> \notin Compras(u, Solicitud[p].ciclo, veces)
  <2> SUFFICES ASSUME <<p, mas[p]>> \in Compras(u, Solicitud[p].ciclo, veces) PROVE FALSE
    OBVIOUS
  <2>1. PICK q \in Pagos : \E n \in 1..veces[q] : <<p, mas[p]>> = <<q, n>>
    BY ComprasDe
  <2>2. q = p /\ mas[p] \in 1..veces[q]
    BY <2>1
  <2> QED
    BY <1>2, <2>2
<1>5. N(Solicitud[p].ciclo, mas) = N(Solicitud[p].ciclo, veces) + 1
  BY <1>3, <1>4, ComprasFinitas, FS_AddElement
<1>6. ASSUME NEW ciclo, ciclo # Solicitud[p].ciclo
      PROVE  Compras(u, ciclo, mas) = Compras(u, ciclo, veces)
  <2>1. \A q \in Pagos : Solicitud[q].ciclo = ciclo => mas[q] = veces[q]
    BY <1>1, <1>6
  <2> QED
    BY <2>1, ComprasIguales
<1>7. ASSUME NEW ciclo, ciclo # Solicitud[p].ciclo PROVE N(ciclo, mas) = N(ciclo, veces)
  BY <1>6, <1>7
<1>8. \A ciclo : N(ciclo, veces) \in Nat
  BY ComprasFinitas
<1>9. \A v : DiasComprados(u, v) = 365 * N("anual", v) + 30 * N("mensual", v)
  BY DEF DiasComprados
<1>10. Solicitud[p].ciclo \in {"mensual", "anual"}
  BY SuscripcionAssumption DEF Ciclos
<1> HIDE DEF N, u
<1>11. CASE Solicitud[p].ciclo = "anual"
  <2>1. N("anual", mas) = N("anual", veces) + 1 /\ N("mensual", mas) = N("mensual", veces)
    BY <1>5, <1>7, <1>11
  <2>2. DiasComprados(u, mas) = DiasComprados(u, veces) + 365
    BY <1>8, <1>9, <2>1
  <2> QED
    BY <1>11, <2>2 DEF DiasPorCiclo, u
<1>12. CASE Solicitud[p].ciclo = "mensual"
  <2>1. N("mensual", mas) = N("mensual", veces) + 1 /\ N("anual", mas) = N("anual", veces)
    BY <1>5, <1>7, <1>12
  <2>2. DiasComprados(u, mas) = DiasComprados(u, veces) + 30
    BY <1>8, <1>9, <2>1
  <2> QED
    BY <1>12, <2>2 DEF DiasPorCiclo, u
<1> QED
  BY <1>10, <1>11, <1>12

-----------------------------------------------------------------------------
LEMMA DiasPorCicloTipo == \A ciclo : DiasPorCiclo(ciclo) \in Nat
  BY DEF DiasPorCiclo

LEMMA LibrePeriodo == \A veces, hoy : PeriodoBien(Libre, veces, hoy)
  BY DEF PeriodoBien, Libre

(* A request that waits while credits and days go by.                      *)
LEMMA PeriodoSigue ==
  ASSUME IsFiniteSet(Pagos),
         NEW veces \in [Pagos -> Nat], NEW mas \in [Pagos -> Nat],
         \A p \in Pagos : veces[p] <= mas[p],
         NEW hoy \in Nat, NEW luego \in Nat, hoy <= luego,
         NEW i, i.pc \in {"insertarSub", "cargarSub", "guardarSub"} => i.filaSub.validoHasta \in Nat,
         PeriodoBien(i, veces, hoy)
  PROVE  PeriodoBien(i, mas, luego)
<1> DEFINE antes == DiasComprados(i.usuario, veces)
           ya == DiasComprados(i.usuario, mas)
           dias == DiasPorCiclo(Solicitud[i.pago].ciclo)
           fin == i.filaSub.validoHasta
<1>1. /\ antes \in Nat /\ ya \in Nat /\ antes <= ya /\ dias \in Nat
      /\ PeriodoDias[Basico] \in Nat
  BY DiasTipo, DiasCrecen, DiasPorCicloTipo, PlanesAssumption
<1>2. /\ i.pc = "insertarSub" => fin <= hoy + PeriodoDias[Basico]
      /\ i.pc \in {"cargarSub", "guardarSub"} => fin <= hoy + PeriodoDias[Basico] + antes + dias
  BY DEF PeriodoBien
<1> HIDE DEF antes, ya, dias, fin
<1>3. /\ i.pc = "insertarSub" => fin <= luego + PeriodoDias[Basico]
      /\ i.pc \in {"cargarSub", "guardarSub"} => fin <= luego + PeriodoDias[Basico] + ya + dias
  BY <1>1, <1>2 DEF fin
<1> QED
  BY <1>3 DEF PeriodoBien, ya, dias, fin

(* The types of what the bound is about.                                   *)
LEMMA PeriodoTipo ==
  ASSUME InvTipo
  PROVE  /\ acreditaciones \in [Pagos -> Nat] /\ ahora \in Nat
         /\ tarea \in [Tareas -> Tarea]
         /\ \A u \in Usuarios : sub[u] # Nada => sub[u].validoHasta \in Nat
         /\ \A t \in Tareas : tarea[t].pc \in {"insertarSub", "cargarSub", "guardarSub"} =>
              tarea[t].filaSub \in FilaSub /\ tarea[t].filaSub.validoHasta \in Nat
<1>1. ASSUME NEW t \in Tareas, tarea[t].pc \in {"insertarSub", "cargarSub", "guardarSub"}
      PROVE  tarea[t].filaSub \in FilaSub
  BY <1>1, TareaActual DEF Bien
<1>2. \A fila \in FilaSub : fila.validoHasta \in Nat
  BY DEF FilaSub
<1> QED
  BY <1>1, <1>2 DEF InvTipo, TypeOK

(* Rows that stay, and what is bought meanwhile.                           *)
LEMMA AcotadoSigue ==
  ASSUME IsFiniteSet(Pagos), InvTipo, InvTipo', PeriodoAcotado,
         \A p \in Pagos : acreditaciones[p] <= acreditaciones'[p], ahora <= ahora',
         NEW u \in Usuarios, sub'[u] = sub[u], sub[u] # Nada
  PROVE  sub'[u].validoHasta <= ahora' + PeriodoDias[Basico] + DiasComprados(u, acreditaciones')
<1> DEFINE antes == DiasComprados(u, acreditaciones)
           ya == DiasComprados(u, acreditaciones')
<1>1. /\ acreditaciones \in [Pagos -> Nat] /\ acreditaciones' \in [Pagos -> Nat]
      /\ ahora \in Nat /\ ahora' \in Nat /\ sub[u].validoHasta \in Nat
  BY PeriodoTipo DEF InvTipo, TypeOK
<1>2. antes \in Nat /\ ya \in Nat /\ antes <= ya /\ PeriodoDias[Basico] \in Nat
  BY <1>1, DiasTipo, DiasCrecen, PlanesAssumption
<1>3. sub[u].validoHasta <= ahora + PeriodoDias[Basico] + antes
  BY DEF PeriodoAcotado
<1> HIDE DEF antes, ya
<1>4. sub[u].validoHasta <= ahora' + PeriodoDias[Basico] + ya
  BY <1>1, <1>2, <1>3
<1> QED
  BY <1>4 DEF ya

(* Tasks that do not move, or are dropped.                                 *)
LEMMA TareasSiguen ==
  ASSUME IsFiniteSet(Pagos), InvTipo, InvTipo', InvPeriodo,
         \A p \in Pagos : acreditaciones[p] <= acreditaciones'[p], ahora <= ahora',
         NEW t \in Tareas, tarea'[t] \in {tarea[t], Libre}
  PROVE  PeriodoBien(tarea'[t], acreditaciones', ahora')
<1>1. /\ acreditaciones \in [Pagos -> Nat] /\ acreditaciones' \in [Pagos -> Nat]
      /\ ahora \in Nat /\ ahora' \in Nat
      /\ tarea[t].pc \in {"insertarSub", "cargarSub", "guardarSub"} =>
           tarea[t].filaSub.validoHasta \in Nat
  BY PeriodoTipo DEF InvTipo, TypeOK
<1>2. PeriodoBien(tarea[t], acreditaciones, ahora)
  BY DEF InvPeriodo
<1>3. PeriodoBien(tarea[t], acreditaciones', ahora')
  BY <1>1, <1>2, PeriodoSigue
<1> QED
  BY <1>3, LibrePeriodo

(* A step of task t that writes to no subscription.                        *)
LEMMA PasoPeriodo ==
  ASSUME IsFiniteSet(Pagos), InvTipo, InvTipo', InvPeriodo, NEW t \in Tareas, NEW i,
         tarea' = [tarea EXCEPT ![t] = i],
         UNCHANGED <<sub, acreditaciones, ahora>>,
         PeriodoBien(i, acreditaciones, ahora)
  PROVE  InvPeriodo'
<1>0. /\ \A p \in Pagos : acreditaciones[p] <= acreditaciones'[p]
      /\ ahora <= ahora'
  BY PeriodoTipo
<1>1. PeriodoAcotado'
  BY DEF PeriodoAcotado, InvPeriodo
<1>2. ASSUME NEW otra \in Tareas PROVE PeriodoBien(tarea'[otra], acreditaciones', ahora')
  <2>1. CASE otra = t
    <3>1. tarea'[otra] = i
      BY <2>1, PeriodoTipo
    <3> QED
      BY <3>1
  <2>2. CASE otra # t
    <3>1. tarea'[otra] = tarea[otra]
      BY <2>2, PeriodoTipo
    <3> QED
      BY <1>0, <3>1, TareasSiguen
  <2> QED
    BY <2>1, <2>2
<1> QED
  BY <1>1, <1>2 DEF InvPeriodo

LEMMA PrepararAltaPeriodo ==
  ASSUME IsFiniteSet(Pagos), InvTipo, InvTipo', InvPeriodo, NEW t \in Tareas, PrepararAlta(t)
  PROVE  InvPeriodo'
<1> DEFINE i == [tarea[t] EXCEPT !.pc = "insertarSub", !.filaSub = FilaPorDefecto(ahora)]
<1>1. tarea[t] \in Tarea /\ ahora \in Nat /\ PeriodoDias[Basico] \in Nat
  BY TareaActual, PlanesAssumption
<1>2. tarea' = [tarea EXCEPT ![t] = i] /\ UNCHANGED <<sub, acreditaciones, ahora>>
  BY DEF PrepararAlta, externas, historia
<1>3. i.pc = "insertarSub" /\ i.filaSub = FilaPorDefecto(ahora)
  BY <1>1 DEF Tarea
<1>4. FilaPorDefecto(ahora).validoHasta = ahora + PeriodoDias[Basico]
  BY DEF FilaPorDefecto, FilaHasta
<1> HIDE DEF i
<1>5. PeriodoBien(i, acreditaciones, ahora)
  BY <1>1, <1>3, <1>4 DEF PeriodoBien
<1> QED
  BY <1>2, <1>5, PasoPeriodo

LEMMA CalcularPeriodoAcotado ==
  ASSUME IsFiniteSet(Pagos), InvTipo, InvTipo', InvPeriodo, NEW t \in Tareas, CalcularPeriodo(t)
  PROVE  InvPeriodo'
<1> DEFINE fila == FilaTrasPago(SubDe(t), PlanDe(t), CicloDe(t), ahora)
           i == [tarea[t] EXCEPT !.pc = "cargarSub", !.filaSub = fila]
           u == tarea[t].usuario
           dias == DiasPorCiclo(Solicitud[tarea[t].pago].ciclo)
           ya == DiasComprados(u, acreditaciones)
<1>1. /\ tarea[t] \in Tarea /\ ahora \in Nat /\ PeriodoDias[Basico] \in Nat /\ dias \in Nat
      /\ acreditaciones \in [Pagos -> Nat]
  BY TareaActual, PeriodoTipo, PlanesAssumption, DiasPorCicloTipo
<1>2. tarea' = [tarea EXCEPT ![t] = i] /\ UNCHANGED <<sub, acreditaciones, ahora>>
  BY DEF CalcularPeriodo, externas, historia
<1>3. i.pc = "cargarSub" /\ i.filaSub = fila /\ i.usuario = u /\ i.pago = tarea[t].pago
  BY <1>1 DEF Tarea
<1>4. u \in Usuarios
  BY TareaActual, SuscripcionAssumption DEF CalcularPeriodo, En, Bien, Acredita, Aplicando, Alta
<1>5. sub[u] # Nada /\ sub[u].validoHasta \in Nat
      /\ sub[u].validoHasta <= ahora + PeriodoDias[Basico] + ya
  BY <1>4, PeriodoTipo DEF CalcularPeriodo, SubDe, InvPeriodo, PeriodoAcotado
<1>6. ya \in Nat
  BY <1>1, DiasTipo
<1>7. fila.validoHasta = InicioPeriodo(sub[u], ahora) + dias
  BY DEF FilaTrasPago, FilaHasta, SubDe, CicloDe
<1>8. /\ InicioPeriodo(sub[u], ahora) \in {ahora, sub[u].validoHasta}
  BY DEF InicioPeriodo
<1> HIDE DEF i, fila, u, dias, ya
<1>9. fila.validoHasta <= ahora + PeriodoDias[Basico] + ya + dias
  BY <1>1, <1>5, <1>6, <1>7, <1>8
<1>10. PeriodoBien(i, acreditaciones, ahora)
  <2>1. i.filaSub.validoHasta <= ahora + PeriodoDias[Basico] + DiasComprados(i.usuario, acreditaciones)
                                  + DiasPorCiclo(Solicitud[i.pago].ciclo)
    BY <1>3, <1>9 DEF ya, dias
  <2> QED
    BY <1>3, <2>1 DEF PeriodoBien
<1> QED
  BY <1>2, <1>10, PasoPeriodo

LEMMA CargarSubPeriodo ==
  ASSUME IsFiniteSet(Pagos), InvTipo, InvTipo', InvPeriodo, NEW t \in Tareas, CargarSub(t)
  PROVE  InvPeriodo'
<1> DEFINE i == [tarea[t] EXCEPT !.pc = "guardarSub",
                    !.cols = ColumnasDistintas(tarea[t].filaSub, SubDe(t), ColumnasSub)]
<1>1. tarea' = [tarea EXCEPT ![t] = i] /\ UNCHANGED <<sub, acreditaciones, ahora>>
      /\ tarea[t].pc = "cargarSub" /\ tarea[t] \in Tarea
  BY TareaActual DEF CargarSub, En, externas, historia
<1>2. /\ i.pc = "guardarSub" /\ i.filaSub = tarea[t].filaSub
      /\ i.usuario = tarea[t].usuario /\ i.pago = tarea[t].pago
  BY <1>1 DEF Tarea
<1> HIDE DEF i
<1>3. PeriodoBien(tarea[t], acreditaciones, ahora)
  BY DEF InvPeriodo
<1>4. PeriodoBien(i, acreditaciones, ahora)
  BY <1>1, <1>2, <1>3 DEF PeriodoBien
<1> QED
  BY <1>1, <1>4, PasoPeriodo

(* The default row is written as it was prepared, perhaps days before.     *)
LEMMA InsertarSubPeriodo ==
  ASSUME IsFiniteSet(Pagos), InvTipo, InvTipo', InvPeriodo, NEW t \in Tareas, InsertarSub(t)
  PROVE  InvPeriodo'
<1> DEFINE u == tarea[t].usuario
           i == [tarea[t] EXCEPT !.pc = "releerSub", !.filaSub = Nada]
           ya == DiasComprados(u, acreditaciones)
<1>1. /\ tarea[t].pc = "insertarSub" /\ tarea[t] \in Tarea
      /\ tarea' = [tarea EXCEPT ![t] = i] /\ UNCHANGED <<acreditaciones, ahora>>
      /\ sub' = [sub EXCEPT ![u] = tarea[t].filaSub]
  BY TareaActual DEF InsertarSub, En, externas, historia
<1>2. i.pc = "releerSub"
  BY <1>1 DEF Tarea
<1>3. /\ ahora \in Nat /\ PeriodoDias[Basico] \in Nat /\ ya \in Nat
      /\ sub \in [Usuarios -> FilaSub \cup {Nada}] /\ tarea \in [Tareas -> Tarea]
      /\ tarea[t].filaSub.validoHasta \in Nat
      /\ \A p \in Pagos : acreditaciones[p] <= acreditaciones'[p]
      /\ ahora <= ahora'
  BY <1>1, PeriodoTipo, PlanesAssumption, DiasTipo DEF InvTipo, TypeOK
<1>4. tarea[t].filaSub.validoHasta <= ahora + PeriodoDias[Basico]
  BY <1>1 DEF InvPeriodo, PeriodoBien
<1>5. ASSUME NEW w \in Usuarios, sub'[w] # Nada
      PROVE  sub'[w].validoHasta <= ahora' + PeriodoDias[Basico] + DiasComprados(w, acreditaciones')
  <2>1. CASE w = u
    <3>1. sub'[w] = tarea[t].filaSub
      BY <1>1, <1>3, <2>1
    <3> HIDE DEF ya, u
    <3>2. tarea[t].filaSub.validoHasta <= ahora + PeriodoDias[Basico] + ya
      BY <1>3, <1>4
    <3> QED
      BY <1>1, <2>1, <3>1, <3>2 DEF ya
  <2>2. CASE w # u
    <3>1. sub'[w] = sub[w]
      BY <1>1, <1>3, <2>2
    <3> QED
      BY <1>3, <1>5, <3>1, AcotadoSigue DEF InvPeriodo
  <2> QED
    BY <2>1, <2>2
<1>6. ASSUME NEW otra \in Tareas PROVE PeriodoBien(tarea'[otra], acreditaciones', ahora')
  <2>1. CASE otra = t
    <3>1. tarea'[otra].pc = "releerSub"
      BY <1>1, <1>2, <1>3, <2>1
    <3> QED
      BY <3>1 DEF PeriodoBien
  <2>2. CASE otra # t
    <3>1. tarea'[otra] = tarea[otra]
      BY <1>1, <1>3, <2>2
    <3> QED
      BY <1>3, <3>1, TareasSiguen
  <2> QED
    BY <2>1, <2>2
<1> QED
  BY <1>5, <1>6 DEF InvPeriodo, PeriodoAcotado

(* The end that was computed is written, or the column is left alone; the  *)
(* payment is credited once more either way.                               *)
LEMMA GuardarSubPeriodo ==
  ASSUME IsFiniteSet(Pagos), InvTipo, InvTipo', InvPeriodo, NEW t \in Tareas, GuardarSub(t)
  PROVE  InvPeriodo'
<1> DEFINE i == tarea[t]
           u == i.usuario
           p == i.pago
           antes == DiasComprados(u, acreditaciones)
           ya == DiasComprados(u, acreditaciones')
           dias == DiasPorCiclo(Solicitud[p].ciclo)
<1>1. /\ i.pc = "guardarSub" /\ i \in Tarea
      /\ tarea' = [tarea EXCEPT ![t] = Libre] /\ ahora' = ahora
      /\ sub' = [sub EXCEPT ![u] = FusionSub(sub[u], i.filaSub, i.cols)]
      /\ acreditaciones' = [acreditaciones EXCEPT ![p] = @ + 1]
  BY TareaActual DEF GuardarSub, En, Responder, externas
<1>2. p \in Pagos /\ u = Solicitud[p].usuario /\ u \in Usuarios /\ sub[u] # Nada
  BY <1>1, TareaActual, SuscripcionAssumption DEF Bien, Acredita, Aplicando
<1>3. /\ ahora \in Nat /\ PeriodoDias[Basico] \in Nat /\ antes \in Nat /\ dias \in Nat
      /\ acreditaciones \in [Pagos -> Nat]
      /\ sub \in [Usuarios -> FilaSub \cup {Nada}] /\ tarea \in [Tareas -> Tarea]
      /\ i.filaSub.validoHasta \in Nat /\ sub[u].validoHasta \in Nat
  BY <1>1, <1>2, PeriodoTipo, PlanesAssumption, DiasTipo, DiasPorCicloTipo DEF InvTipo, TypeOK
<1>4. ya = antes + dias
  <2>1. /\ acreditaciones' \in [Pagos -> Nat] /\ acreditaciones'[p] = acreditaciones[p] + 1
        /\ \A q \in Pagos \ {p} : acreditaciones'[q] = acreditaciones[q]
    BY <1>1, <1>2, <1>3
  <2> QED
    BY <1>2, <1>3, <2>1, UnCreditoMas
<1>5. \A q \in Pagos : acreditaciones[q] <= acreditaciones'[q]
  BY <1>1, <1>3
<1>6. /\ i.filaSub.validoHasta <= ahora + PeriodoDias[Basico] + antes + dias
      /\ sub[u].validoHasta <= ahora + PeriodoDias[Basico] + antes
  BY <1>1, <1>2 DEF InvPeriodo, PeriodoBien, PeriodoAcotado
<1>7. sub'[u].validoHasta \in {i.filaSub.validoHasta, sub[u].validoHasta}
  BY <1>1, <1>2, <1>3 DEF FusionSub
<1>8. ASSUME NEW w \in Usuarios, sub'[w] # Nada
      PROVE  sub'[w].validoHasta <= ahora' + PeriodoDias[Basico] + DiasComprados(w, acreditaciones')
  <2>1. CASE w = u
    <3> HIDE DEF i, u, p, antes, ya, dias
    <3>1. sub'[u].validoHasta <= ahora' + PeriodoDias[Basico] + ya
      BY <1>1, <1>3, <1>4, <1>6, <1>7
    <3> QED
      BY <2>1, <3>1 DEF ya
  <2>2. CASE w # u
    <3>1. sub'[w] = sub[w] /\ ahora <= ahora'
      BY <1>1, <1>3, <2>2
    <3> QED
      BY <1>5, <1>8, <3>1, AcotadoSigue DEF InvPeriodo
  <2> QED
    BY <2>1, <2>2
<1>9. ASSUME NEW otra \in Tareas PROVE PeriodoBien(tarea'[otra], acreditaciones', ahora')
  <2>1. tarea'[otra] \in {tarea[otra], Libre} /\ ahora <= ahora'
    BY <1>1, <1>3
  <2> QED
    BY <1>5, <2>1, TareasSiguen
<1> QED
  BY <1>8, <1>9 DEF InvPeriodo, PeriodoAcotado

LEMMA IniciarPeriodo ==
  ASSUME IsFiniteSet(Pagos), InvTipo, InvTipo', InvPeriodo, NEW t \in Tareas, Iniciar(t)
  PROVE  InvPeriodo'
<1> DEFINE i == tarea'[t]
<1>1. tarea \in [Tareas -> Tarea]
  BY PeriodoTipo
<1>2. /\ tarea' = [tarea EXCEPT ![t] = i] /\ UNCHANGED <<sub, acreditaciones, ahora>>
      /\ i = tarea[t] \/ i.pc \in {"preferencia", "cargarPago", "consultar", "leerSubDef"}
  <2>1. ASSUME NEW p \in Pagos, CheckoutMercadoPago(t, p) \/ CheckoutSimulado(t, p) \/ CheckoutSinMedio(t, p)
        PROVE  <1>2!:
    BY <1>1, <2>1 DEF CheckoutMercadoPago, CheckoutSimulado, CheckoutSinMedio, TareaCheckout, Libre,
       externas, historia
  <2>2. ASSUME NEW a \in Avisos, RecibirAviso(t, a) \/ RecibirDuplicado(t, a)
        PROVE  <1>2!:
    BY <1>1, <2>2 DEF RecibirAviso, RecibirDuplicado, Atender, Libre, externas, historia
  <2>3. ASSUME NEW u \in Usuarios, IniciarResumen(t, u)
        PROVE  <1>2!:
    BY <1>1, <2>3 DEF IniciarResumen, Libre, externas, historia
  <2> QED
    BY <2>1, <2>2, <2>3 DEF Iniciar
<1> HIDE DEF i
<1>3. PeriodoBien(i, acreditaciones, ahora)
  BY <1>2 DEF PeriodoBien, InvPeriodo
<1> QED
  BY <1>2, <1>3, PasoPeriodo

LEMMA AvanzarPeriodo ==
  ASSUME IsFiniteSet(Pagos), InvTipo, InvTipo', InvPeriodo, NEW t \in Tareas, Avanzar(t) \/ Fallar(t)
  PROVE  InvPeriodo'
<1>0. tarea \in [Tareas -> Tarea] /\ tarea[t] \in Tarea
  BY PeriodoTipo
<1>1. CASE \/ CrearPreferencia(t) \/ CargarPago(t) \/ GuardarAprobado(t) \/ Consultar(t)
           \/ LeerPago(t) \/ LeerPlan(t) \/ FaltaSub(t) \/ SinAltaPosible(t)
  <2> DEFINE i == tarea'[t]
  <2>1. /\ tarea' = [tarea EXCEPT ![t] = i] /\ UNCHANGED <<sub, acreditaciones, ahora>>
        /\ i.pc \in {"cargarPago", "guardarPago", "leerPlan", "leerPago", "leerSub",
                     "leerSubDef", "releerSub"}
    BY <1>0, <1>1 DEF CrearPreferencia, CargarPago, GuardarAprobado, Consultar, LeerPago, LeerPlan,
       FaltaSub, SinAltaPosible, Ir, Tarea, externas, historia
  <2> HIDE DEF i
  <2>2. PeriodoBien(i, acreditaciones, ahora)
    BY <2>1 DEF PeriodoBien
  <2> QED
    BY <2>1, <2>2, PasoPeriodo
<1>2. CASE \/ GuardarPreferencia(t) \/ GuardarRechazo(t)
           \/ ConsultaFallida(t) \/ IgnorarAviso(t) \/ PlanNoDisponible(t)
           \/ ClaveDuplicada(t) \/ ResponderResumen(t) \/ SigueSinSub(t) \/ Fallar(t)
  <2>1. tarea' = [tarea EXCEPT ![t] = Libre] /\ UNCHANGED <<sub, acreditaciones, ahora>>
    BY <1>2 DEF GuardarPreferencia, GuardarRechazo, ConsultaFallida, IgnorarAviso, PlanNoDisponible,
       ClaveDuplicada, ResponderResumen, SigueSinSub, Fallar, Responder, Lanzar, externas, historia
  <2> QED
    BY <2>1, LibrePeriodo, PasoPeriodo
<1> QED
  BY <1>1, <1>2, PrepararAltaPeriodo, CalcularPeriodoAcotado, CargarSubPeriodo, InsertarSubPeriodo,
     GuardarSubPeriodo DEF Avanzar

LEMMA NextPeriodo ==
  ASSUME IsFiniteSet(Pagos), InvTipo, InvTipo', InvPeriodo, [Next]_vars
  PROVE  InvPeriodo'
<1>1. CASE Entorno \/ UNCHANGED vars
  <2>1. /\ sub' = sub /\ acreditaciones' = acreditaciones /\ ahora <= ahora'
        /\ \A t \in Tareas : tarea'[t] \in {tarea[t], Libre}
    <3>1. ahora \in Nat /\ Saltos \subseteq Nat
      BY PeriodoTipo, SuscripcionAssumption
    <3>2. CASE Reiniciar
      BY <3>1, <3>2 DEF Reiniciar, historia
    <3>3. ASSUME NEW d \in Saltos, PasarDias(d) PROVE <2>1!:
      <4>1. ahora' = ahora + d /\ ahora <= ahora + d
        BY <3>1, <3>3 DEF PasarDias
      <4> QED
        BY <3>3, <4>1 DEF PasarDias, historia
    <3>4. CASE \/ \E c \in Cobros, s \in EstadosMp : CambiarCobro(c, s)
               \/ \E plan \in PlanesRetirables : RetirarPlan(plan)
               \/ UNCHANGED vars
      <4>1. UNCHANGED <<sub, acreditaciones, ahora, tarea>>
        BY <3>4 DEF CambiarCobro, RetirarPlan, vars, externas, historia
      <4> QED
        BY <3>1, <4>1
    <3> QED
      BY <1>1, <3>2, <3>3, <3>4 DEF Entorno
  <2>2. \A p \in Pagos : acreditaciones[p] <= acreditaciones'[p]
    BY <2>1, PeriodoTipo
  <2>3. PeriodoAcotado'
    BY <2>1, <2>2, AcotadoSigue DEF InvPeriodo, PeriodoAcotado
  <2>4. ASSUME NEW t \in Tareas PROVE PeriodoBien(tarea'[t], acreditaciones', ahora')
    BY <2>1, <2>2, TareasSiguen
  <2> QED
    BY <2>3, <2>4 DEF InvPeriodo
<1> QED
  BY <1>1, IniciarPeriodo, AvanzarPeriodo DEF Next

LEMMA InitPeriodo ==
  ASSUME IsFiniteSet(Pagos), Init
  PROVE  InvPeriodo
<1>1. InvTipo
  BY InitTipo
<1>2. ASSUME NEW u \in Usuarios, sub[u] # Nada
      PROVE  sub[u].validoHasta <= ahora + PeriodoDias[Basico] + DiasComprados(u, acreditaciones)
  <2> DEFINE ya == DiasComprados(u, acreditaciones)
  <2>1. sub[u] = FilaPorDefecto(0) /\ ahora = 0
    BY <1>2 DEF Init
  <2>2. sub[u].validoHasta = 0 + PeriodoDias[Basico] /\ PeriodoDias[Basico] \in Nat
    BY <2>1, PlanesAssumption DEF FilaPorDefecto, FilaHasta
  <2>3. ya \in Nat
    BY <1>1, PeriodoTipo, DiasTipo
  <2> HIDE DEF ya
  <2>4. sub[u].validoHasta <= ahora + PeriodoDias[Basico] + ya
    BY <2>1, <2>2, <2>3
  <2> QED
    BY <2>4 DEF ya
<1>3. \A t \in Tareas : PeriodoBien(tarea[t], acreditaciones, ahora)
  BY LibrePeriodo DEF Init
<1> QED
  BY <1>2, <1>3 DEF InvPeriodo, PeriodoAcotado

(* The period of a user reaches no further than a free month from now plus *)
(* the days of every time one of their payments was credited, for any      *)
(* number of requests at once: aplicarPlanTrasPago extends the row it read *)
(* and save() writes it as a whole or in part, later.                      *)
THEOREM PeriodoDentroDeLoAcreditado ==
  ASSUME IsFiniteSet(Pagos)
  PROVE  Spec => []PeriodoAcotado
<1>1. Init => InvTipo /\ InvPeriodo
  BY InitTipo, InitPeriodo
<1>2. InvTipo /\ InvPeriodo /\ [Next]_vars => (InvTipo /\ InvPeriodo)'
  BY NextTipo, NextPeriodo
<1>3. InvPeriodo => PeriodoAcotado
  BY DEF InvPeriodo
<1> QED
  BY <1>1, <1>2, <1>3, PTL DEF Spec

=============================================================================
