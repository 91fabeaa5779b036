------------------------- MODULE MCLoadcellQuantity -------------------------
(***************************************************************************)
(* Small instances of LoadcellQuantity for TLC.                            *)
(***************************************************************************)
EXTENDS LoadcellQuantity

CONSTANTS h1, h2

\* A lifted platform, one unit missed and one reached (just below and at the
\* threshold of the rounding), two units.
ScaleWeights == {-80, 79, 80, 200}
=============================================================================
