---------------------------- MODULE MCAuditoria -----------------------------
EXTENDS Auditoria, TLC

CONSTANTS v1, v2, f1, f2

DosValores == {v1, v2}
DosFechas == {f1, f2}

(* Rows start with the same values, with and without a date.               *)
LasNuevas ==
  {[visible |-> v1, oculta |-> v1, fecha |-> f, updatedAt |-> 0, borrada |-> FALSE] :
     f \in {Nada, f1}}

=============================================================================
