----------------------------- MODULE MCEntrega ------------------------------
(***************************************************************************)
(* A small instance of Entrega for TLC: the constants are MCSuscripcion's. *)
(***************************************************************************)
EXTENDS MCSuscripcion, Entrega
=============================================================================
