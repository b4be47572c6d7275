----------------------------- MODULE MCAlmacen ------------------------------
(* A box of 8 x 6 stands for 1920 x 1080; the photos straddle every limit. *)
EXTENDS Almacen

(* Two names that clean to the same.                                       *)
LosNombres == {"foto 1.png", "foto_1.png"}
Limpiar == [n \in LosNombres |-> IF n = "foto 1.png" THEN "foto_1.png" ELSE n]

F(mime, kb, ancho, alto, legible) ==
  [mime |-> mime, mayusculas |-> FALSE, kb |-> kb,
   ancho |-> ancho, alto |-> alto, legible |-> legible]

LasFotos ==
  { F("image/png", 1025, 16, 11, TRUE),       \* 8 x 6, rounded twice
    F("image/png", 1024, 16, 11, TRUE),       \* not over a megabyte
    F("image/jpg", 51200, 5, 31, TRUE),       \* tall
    F("image/png", 1025, 70, 3, TRUE),        \* no height is left
    F("image/webp", 2000, 7, 5, TRUE),        \* fits already
    F("image/svg+xml", 2000, 0, 0, FALSE),    \* no size, not legible
    F("image/jpeg", 51201, 16, 11, TRUE),     \* too large
    F("image/heic", 500, 5, 5, TRUE),         \* not admitted
    [F("image/png", 2000, 16, 11, TRUE) EXCEPT !.mayusculas = TRUE],
    F("image/png", 0, 0, 0, FALSE) }          \* an empty input

=============================================================================
