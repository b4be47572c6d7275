----------------------------- MODULE MCSesiones -----------------------------
EXTENDS Sesiones, TLC

(* One of an account of this API's number, and one of another system.      *)
DosExternos ==
  {[firma |-> "jwt", id |-> 1, sub |-> Nada, exp |-> 2],
   [firma |-> "jwt", id |-> Nada, sub |-> 1, exp |-> 4]}

Simetria == Permutations(Clientes)

=============================================================================
