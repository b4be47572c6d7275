------------------------------ MODULE MCCuenta ------------------------------
(***************************************************************************)
(* Small instances of Cuenta for TLC.                                      *)
(***************************************************************************)
EXTENDS Cuenta, TLC

(* Accounts, e-mails, passwords and tasks are interchangeable.             *)
Simetria ==
  Permutations(Tareas) \cup Permutations(Cuentas)
    \cup Permutations(Emails) \cup Permutations(Claves)

(* Keeps the search to the states of which the properties that leave out   *)
(* solapadas still say something, with at most one kind of overlap.        *)
AlgunaSinSolape == solapadas # Cuentas /\ (solapadas = {} \/ disputados = {})

=============================================================================
