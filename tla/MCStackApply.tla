---------------------------- MODULE MCStackApply ----------------------------
(***************************************************************************)
(* Four components, planned and then applied: c2 needs c1, c3 needs c2 and *)
(* c4 needs c2 and c3; the prior state records c1 and the removed block    *)
(* r1; c1's recorded dependents are c2 and r1, c2's an address that        *)
(* resolves to nothing.  c4's two requirements give the required-scan a    *)
(* passing and a stopping element in either order.  In destroy mode c1     *)
(* waits for c2 and r1, and c2 reads c1's outputs; otherwise c2, c3 and c4 *)
(* are created on top of c1.                                               *)
(***************************************************************************)
EXTENDS StackApply, TLC

CONSTANTS c1, c2, c3, c4, r1, u1

MCComp == {c1, c2, c3, c4}
MCRemoved == {r1}
MCUnconfigured == {u1}
MCRequired == (c1 :> {}) @@ (c2 :> {c1}) @@ (c3 :> {c2}) @@ (c4 :> {c2, c3})
MCPrevDependents == (c1 :> {c2, r1}) @@ (c2 :> {u1}) @@ (c3 :> {}) @@ (c4 :> {}) @@ (r1 :> {})
MCPrevState == {c1}
=============================================================================
