------------------------------- MODULE Entrega --------------------------------
(***************************************************************************)
(* What the payments component delivers in the end: Suscripcion with a     *)
(* history variable that says which charges the code gave up on, and with  *)
(* fairness.                                                               *)
(***************************************************************************)
EXTENDS Suscripcion

VARIABLE perdidas  \* history: charges given up on, <<payment, how>>

varsEntrega == <<vars, perdidas>>

(* The notification of the approval is answered 200 although its query     *)
(* failed: it is not sent again.                                           *)
SinRegistrar ==
  {tarea[t].pago : t \in {o \in Tareas : ConsultaFallida(o) /\ tarea[o].aviso[2] = "approved"}}

(* A request has saved its row as APROBADO and the period not yet.         *)
Acreditando(t) ==
  /\ tarea[t].tipo # "resumen"
  /\ tarea[t].pc \in {"leerPlan", "leerSub", "leerSubDef", "insertarSub", "releerSub",
                      "cargarSub", "guardarSub"}

(* Such a request throws, or dies with the process: the retry finds the    *)
(* row APROBADO and does nothing.                                          *)
SinAcreditar ==
  {tarea[t].pago : t \in {o \in Tareas : Acreditando(o) /\ tarea'[o] = Libre /\ ~GuardarSub(o)}}

InitEntrega == Init /\ perdidas = {}

NextEntrega ==
  /\ Next
  /\ perdidas' = perdidas \cup (SinRegistrar \X {"cobro"}) \cup (SinAcreditar \X {"plan"})

(* Requests in flight go on (the event loop runs them, queries return) and *)
(* Mercado Pago keeps notifying until it gets a 200.  Delivery is strongly *)
(* fair because a free task is an artefact of the model: the server always *)
(* accepts one more request.  Users, failures and resends owe nothing.     *)
Justicia ==
  /\ \A t \in Tareas : WF_vars(Avanzar(t))
  /\ \A c \in Cobros : SF_vars(\E t \in Tareas, s \in EstadosMp : RecibirAviso(t, <<c, s>>))

SpecEntrega == InitEntrega /\ [][NextEntrega]_varsEntrega /\ Justicia

-----------------------------------------------------------------------------
(* Properties.                                                             *)

(* A charge is eventually recorded on its payment row, unless getPayment() *)
(* failed on the notification of its approval and turned that into null.   *)
(* Failed saves and restarts do not lose it: a handler that throws leaves  *)
(* the notification due.                                                   *)
CobroSeRegistra ==
  \A p \in Pagos :
    Cobrado(p) ~> \/ pago[p] # Nada /\ pago[p].estado # "PENDIENTE"
                  \/ <<p, "cobro">> \in perdidas

Reembolsado(p) == \E c \in Cobros : RefDe[c] = p /\ estadoMp[c] = "refunded"

(* A charge eventually extends the subscription, unless it is refunded,    *)
(* its query failed, or its handler stopped between saving APROBADO and    *)
(* saving the period.  A failure or a restart before that is made good by  *)
(* the next notification.                                                  *)
CobroSeAcredita ==
  \A p \in Pagos :
    Cobrado(p) ~> \/ acreditaciones[p] > 0 \/ Reembolsado(p)
                  \/ <<p, "cobro">> \in perdidas \/ <<p, "plan">> \in perdidas

=============================================================================
