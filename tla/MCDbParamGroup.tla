--------------------------- MODULE MCDbParamGroup ---------------------------
(* Two parameters and two values: enough to add, change and remove a       *)
(* parameter while another one is kept.                                    *)
EXTENDS DbParamGroup

CONSTANTS p1, p2, v1, v2, dflt

MCParamNames == {p1, p2}
MCValues == {v1, v2}
=============================================================================
