-------------------------- MODULE MCNotificaciones --------------------------
EXTENDS Notificaciones, TLC

CONSTANTS u1, u2, d1, d2

(* u1 has a device registered.                                             *)
UnInstalado == <<[usuario |-> u1, token |-> d2]>>

(* A second device of u1, and its first one used by u2 afterwards.          *)
DosRegistros == {<<u1, d1>>, <<u2, d2>>}

(* A notice of a new version to one user, and an alert to two users, one   *)
(* after the other.                                                        *)
DosEnvios == {[lista |-> <<u1>>, tipo |-> "nueva_version"], [lista |-> <<u2, u1>>, tipo |-> "OTRO"]}

=============================================================================
