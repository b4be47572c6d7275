---------------------------- MODULE Acreditacion ----------------------------
(***************************************************************************)
(* What the subscription component promises to a user who pays: a charge   *)
(* is credited at most once, and crediting it extends the subscription by  *)
(* exactly one period, counted from the end of the current period or from  *)
(* some instant between the charge and now.  How and when the server hears *)
(* of the charge, in how many steps it reacts and what fails on the way    *)
(* are not visible here; module Suscripcion implements this one.           *)
(***************************************************************************)
EXTENDS Planes

CONSTANTS
  Usuarios, Pagos,
  Solicitud,  \* what each payment buys: [usuario, plan, ciclo]
  ConAlta,    \* users whose account was created with its default subscription
  Nada,       \* no row, no value
  Saltos, MaxDia

VARIABLES
  hoy,
  cobradoEn,   \* the day each payment was charged, or Nada
  acreditado,  \* payments already credited
  vigencia     \* the subscription of each user, or Nada

vars == <<hoy, cobradoEn, acreditado, vigencia>>

Init ==
  /\ hoy = 0
  /\ cobradoEn = [p \in Pagos |-> Nada]
  /\ acreditado = {}
  /\ vigencia = [u \in Usuarios |-> IF u \in ConAlta THEN FilaPorDefecto(0) ELSE Nada]

Pasar(d) ==
  /\ hoy + d <= MaxDia
  /\ hoy' = hoy + d
  /\ UNCHANGED <<cobradoEn, acreditado, vigencia>>

Cobrar(p) ==
  /\ cobradoEn[p] = Nada
  /\ cobradoEn' = [cobradoEn EXCEPT ![p] = hoy]
  /\ UNCHANGED <<hoy, acreditado, vigencia>>

Alta(u) ==
  /\ vigencia[u] = Nada
  /\ \E dia \in 0..hoy : vigencia' = [vigencia EXCEPT ![u] = FilaPorDefecto(dia)]
  /\ UNCHANGED <<hoy, cobradoEn, acreditado>>

Acreditar(p) ==
  LET s == Solicitud[p] IN
  /\ cobradoEn[p] # Nada
  /\ p \notin acreditado
  /\ vigencia[s.usuario] # Nada
  /\ acreditado' = acreditado \cup {p}
  /\ \E dia \in cobradoEn[p]..hoy :
       vigencia' = [vigencia EXCEPT ![s.usuario] = FilaTrasPago(@, s.plan, s.ciclo, dia)]
  /\ UNCHANGED <<hoy, cobradoEn>>

Next ==
  \/ \E d \in Saltos : Pasar(d)
  \/ \E p \in Pagos : Cobrar(p) \/ Acreditar(p)
  \/ \E u \in Usuarios : Alta(u)

Spec == Init /\ [][Next]_vars

=============================================================================
