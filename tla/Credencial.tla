----------------------------- MODULE Credencial -----------------------------
(***************************************************************************)
(* What the accounts component promises about passwords: a password        *)
(* changes when the owner changes it or redeems the last code sent to the  *)
(* account, a code is redeemed once, and a removed account is left alone.  *)
(* Handlers, reads and saves are not visible here; module Cuenta           *)
(* implements this one.                                                    *)
(***************************************************************************)
EXTENDS Naturals

CONSTANTS
  Cuentas, Claves,
  Nada,        \* no password
  MaxCodigos   \* bound on codes

VARIABLES
  estado,  \* "libre", "viva" or "eliminada"
  clave,
  codigo,  \* the recovery code that can be redeemed, or 0
  usados   \* codes redeemed so far

vars == <<estado, clave, codigo, usados>>

Init ==
  /\ estado = [c \in Cuentas |-> "libre"]
  /\ clave = [c \in Cuentas |-> Nada]
  /\ codigo = [c \in Cuentas |-> 0]
  /\ usados = {}

Registrar(c, k) ==
  /\ estado[c] = "libre"
  /\ estado' = [estado EXCEPT ![c] = "viva"]
  /\ clave' = [clave EXCEPT ![c] = k]
  /\ UNCHANGED <<codigo, usados>>

Cambiar(c, k) ==
  /\ estado[c] = "viva"
  /\ clave' = [clave EXCEPT ![c] = k]
  /\ UNCHANGED <<estado, codigo, usados>>

Enviar(c, n) ==
  /\ estado[c] = "viva"
  /\ n \notin usados /\ \A d \in Cuentas : codigo[d] # n
  /\ codigo' = [codigo EXCEPT ![c] = n]
  /\ UNCHANGED <<estado, clave, usados>>

Canjear(c, k) ==
  /\ estado[c] = "viva"
  /\ codigo[c] # 0
  /\ clave' = [clave EXCEPT ![c] = k]
  /\ usados' = usados \cup {codigo[c]}
  /\ codigo' = [codigo EXCEPT ![c] = 0]
  /\ UNCHANGED estado

Eliminar(c) ==
  /\ estado[c] = "viva"
  /\ estado' = [estado EXCEPT ![c] = "eliminada"]
  /\ UNCHANGED <<clave, codigo, usados>>

Next ==
  \E c \in Cuentas :
    \/ \E k \in Claves : Registrar(c, k) \/ Cambiar(c, k) \/ Canjear(c, k)
    \/ \E n \in 1..MaxCodigos : Enviar(c, n)
    \/ Eliminar(c)

Spec == Init /\ [][Next]_vars

=============================================================================
