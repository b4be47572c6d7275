------------------------------- MODULE Planes -------------------------------
(***************************************************************************)
(* The plan catalogue and the date arithmetic of a subscription, shared by *)
(* the detailed specification (Suscripcion) and by the abstract one        *)
(* (Acreditacion).  Dates are counted in days.                             *)
(***************************************************************************)
EXTENDS Integers

CONSTANTS
  Planes,       \* the plan codes of sub_02_cab_plan
  Basico,       \* PLAN_CODIGO.BASICO, the plan of a new account
  Precio,       \* monthly price of a plan
  PeriodoDias,  \* periodoEvaluacionDias of a plan
  GraciaDias    \* diasGraciaOffline of a plan

Ciclos == {"mensual", "anual"}

(* The seed gives BASICO the price 0.00; nothing else is assumed of the    *)
(* catalogue.                                                              *)
ASSUME PlanesAssumption ==
  /\ Basico \in Planes
  /\ Precio \in [Planes -> Nat]
  /\ PeriodoDias \in [Planes -> Nat]
  /\ GraciaDias \in [Planes -> Nat]
  /\ Precio[Basico] = 0

(* The columns of UsuarioSuscripcion that some property tells apart.       *)
FilaSub == [plan: Planes, ciclo: Ciclos, validoHasta: Nat, graciaHasta: Nat]

MESES_FACTURACION_ANUAL == 10

MontoPorCiclo(plan, ciclo) ==
  IF ciclo = "anual" THEN Precio[plan] * MESES_FACTURACION_ANUAL ELSE Precio[plan]

(* Mutant of DiasPorCiclo: every purchase lasts a year.                    *)
DiasSiempreAnuales(ciclo) == 365

DiasPorCiclo(ciclo) == IF ciclo = "anual" THEN 365 ELSE 30

(* A plan whose price is not positive cannot be bought.                    *)
SeVende(plan, ciclo) == MontoPorCiclo(plan, ciclo) > 0

(* A row valid until fin, with the offline grace of its plan after it.     *)
FilaHasta(plan, ciclo, fin) ==
  [plan |-> plan, ciclo |-> ciclo, validoHasta |-> fin,
   graciaHasta |-> fin + GraciaDias[plan]]

FilaPorDefecto(hoy) == FilaHasta(Basico, "mensual", hoy + PeriodoDias[Basico])

(* The paid period starts where the current one ends, or today if that is  *)
(* already past.                                                           *)
InicioPeriodo(fila, hoy) == IF fila.validoHasta > hoy THEN fila.validoHasta ELSE hoy

FilaTrasPago(fila, plan, ciclo, hoy) ==
  FilaHasta(plan, ciclo, InicioPeriodo(fila, hoy) + DiasPorCiclo(ciclo))

=============================================================================
