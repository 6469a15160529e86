---------------------------- MODULE MCStackPlan ----------------------------
(***************************************************************************)
(* A stack of three components and one `removed` block for TLC.  c2 needs *)
(* c1, c3 needs c1 and c2.  The prior state records c1 and c2; c1's        *)
(* recorded dependents are c2 and the removed block r1, and c2's recorded  *)
(* dependent u1 no longer resolves to anything in the configuration.      *)
(***************************************************************************)
EXTENDS StackPlan, TLC

CONSTANTS c1, c2, c3, r1, u1

MCComp == {c1, c2, c3}
MCRemoved == {r1}
MCUnconfigured == {u1}
MCRequired == (c1 :> {}) @@ (c2 :> {c1}) @@ (c3 :> {c1, c2})
MCPrevDependents == (c1 :> {c2, r1}) @@ (c2 :> {u1}) @@ (c3 :> {}) @@ (r1 :> {})
MCPrevState == {c1, c2}
=============================================================================
