--------------------------- MODULE MCSuscripcion ----------------------------
(***************************************************************************)
(* Small instances of Suscripcion for TLC.  Plans, prices, periods and     *)
(* grace days are those of the seed (seedPlanesIfEmpty).                   *)
(***************************************************************************)
EXTENDS Suscripcion, TLC

CONSTANTS c1, c2, c3  \* charges

MCPlanes == {"BASICO", "PRO", "EQUIPO"}
MCPrecio == [plan \in MCPlanes |-> CASE plan = "BASICO" -> 0 [] plan = "PRO" -> 7000
                                     [] plan = "EQUIPO" -> 19000]
MCPeriodoDias == [plan \in MCPlanes |-> 30]
MCGraciaDias == [plan \in MCPlanes |-> IF plan = "EQUIPO" THEN 7 ELSE 5]

Pide(usuario, plan, ciclo) == [usuario |-> usuario, plan |-> plan, ciclo |-> ciclo]

(* One user buys PRO for a month and EQUIPO for a year; a third request,   *)
(* for the free plan, must be refused.                                     *)
PagosDos == {"p1", "p2", "gratis"}
SolicitudDos ==
  [p \in PagosDos |-> CASE p = "p1" -> Pide("ana", "PRO", "mensual")
                        [] p = "p2" -> Pide("ana", "EQUIPO", "anual")
                        [] p = "gratis" -> Pide("ana", "BASICO", "anual")]

PagoSolo == {"p1"}
SolicitudSolo == [p \in PagoSolo |-> Pide("ana", "PRO", "mensual")]

(* One charge for one payment, one for each of two, and two for one: a     *)
(* first try and a second with the same link.                              *)
CobroSolo == {c1}
RefSolo == [c \in CobroSolo |-> "p1"]
CobrosUno == {c1, c3}
RefUno == [c \in CobrosUno |-> IF c = c3 THEN "p2" ELSE "p1"]
CobrosDobles == {c1, c2}
RefDobles == [c \in CobrosDobles |-> "p1"]

-----------------------------------------------------------------------------
(* The end of the period is within what the user has been charged for.     *)
VigenciaDentroDeLoPagado ==
  \A u \in Usuarios : sub[u] # Nada =>
    sub[u].validoHasta <= ahora + PeriodoDias[Basico]
      + DiasComprados(u, [p \in Pagos |-> IF Cobrado(p) THEN 1 ELSE 0])

(* Tasks are interchangeable, and so are two charges of one payment.       *)
Simetria == Permutations(Tareas)
SimetriaCobros == Permutations(CobrosDobles)

=============================================================================
