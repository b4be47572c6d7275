---------------------------- MODULE MCFunciones -----------------------------
EXTENDS Funciones, TLC

CONSTANTS pro, manual, propio, precio, nube

(* manual is a plan of the catalogue inserted by hand; propio is not in    *)
(* the catalogue, and has one flag.                                        *)
ElCatalogo == (pro :> {precio, nube}) @@ (manual :> {precio, nube}) @@ (propio :> {})
LasBanderas == (pro :> {precio}) @@ (manual :> {}) @@ (propio :> {precio})

Bueno == [produccion |-> TRUE, prueba |-> FALSE, faltan |-> {}, corto |-> FALSE,
          prohibido |-> FALSE]
LosEntornos == {Bueno, [Bueno EXCEPT !.prohibido = TRUE],
                [Bueno EXCEPT !.produccion = FALSE, !.faltan = {"produccion"}],
                [Bueno EXCEPT !.corto = TRUE]}

=============================================================================
