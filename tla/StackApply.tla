----------------------------- MODULE StackApply -----------------------------
(***************************************************************************)
(* Planning followed by the apply phase of a stack.  Once every plan has   *)
(* resolved without error the plan is applied: each component instance    *)
(* (and each `removed` block) is applied concurrently, after the nodes it  *)
(* must wait for.  A node whose predecessors did not all apply             *)
(* successfully is skipped with PlaceholderApplyResultForSkippedApply;     *)
(* otherwise ApplyModuleTreePlan resolves its input variables from the     *)
(* result values of the components it requires and calls the modules      *)
(* runtime, whose provider operations may fail part way.  A refresh-only  *)
(* plan (action Read) only reads, so it neither creates nor deletes.       *)
(*                                                                         *)
(* The external world is abstracted to whether the objects a node manages  *)
(* exist; the state snapshot a result carries to which snapshot it is.     *)
(***************************************************************************)
EXTENDS StackPlan

VARIABLES
  applied,     \* applied[n]: "pending" until the node's ApplyResult is known, then "done"
  applyOk,     \* applyOk[n]: ComponentInstanceApplyResult.Complete
  finalState,  \* finalState[n]: "prior" (plan.PrevRunState) or "new" snapshot of the result
  exists       \* exists[n]: the node's objects exist in the real world

applyVars == <<applied, applyOk, finalState, exists>>
allVars == <<vars, applyVars>>

Snapshots == {"none", "prior", "new"}

(* The plan can be applied only once every plan resolved without error.    *)
PlanApplyable == \A n \in Nodes : status[n] = "planned"

(***************************************************************************)
(* The nodes an apply waits for: the components it requires, or, for a     *)
(* node whose planned action is Delete, the prior dependents planned in    *)
(* this run (they must stop using it, or be destroyed, first).             *)
(***************************************************************************)
WaitFor(n) ==
  IF action[n] = "Delete" THEN PrevDependents[n] \cap Nodes
  ELSE IF n \in Comp THEN Required[n] ELSE {}

(***************************************************************************)
(* ResultValue in the apply phase, for a component d another one requires: *)
(* when d's planned action is Delete its planned outputs are returned at   *)
(* once; otherwise the value is read from d's ApplyResult, waiting for it.  *)
(* ResultReady says the read does not block, ResultKnown that the value is *)
(* wholly known: a result whose state lacks outputs (an apply that did not *)
(* complete) yields unknown placeholders for them.                          *)
(***************************************************************************)
ResultReadyWaiting(d) == applied[d] = "done"   \* Mutant: no Delete shortcut
ResultReady(d) == action[d] = "Delete" \/ applied[d] = "done"
ResultKnown(d) == action[d] = "Delete" \/ (applied[d] = "done" /\ applyOk[d])

(***************************************************************************)
(* CheckInputVariableValues in the apply phase: an input value that is not *)
(* wholly known makes the input object NilVal.                             *)
(***************************************************************************)
InputsKnown(n) == n \in Comp => \A d \in Required[n] : ResultKnown(d)

InitApply ==
  /\ applied = [n \in Nodes |-> "pending"]
  /\ applyOk = [n \in Nodes |-> FALSE]
  /\ finalState = [n \in Nodes |-> "none"]
  /\ exists = [n \in Nodes |-> n \in PrevState \cup Removed]

Init2 == Init /\ InitApply

(* Planning steps leave the apply-phase state alone.                       *)
PlanStep == Next /\ UNCHANGED applyVars

(***************************************************************************)
(* PlaceholderApplyResultForSkippedApply: the result of an apply that was  *)
(* skipped reports that nothing changed.                                   *)
(***************************************************************************)
SkipReportingComplete(n) ==   \* Mutant: the placeholder says Complete
  /\ applyOk' = [applyOk EXCEPT ![n] = TRUE]
  /\ finalState' = [finalState EXCEPT ![n] = "prior"]
  /\ UNCHANGED exists
Skip(n) ==
  /\ applyOk' = [applyOk EXCEPT ![n] = FALSE]
  /\ finalState' = [finalState EXCEPT ![n] = "prior"]
  /\ UNCHANGED exists

(***************************************************************************)
(* ApplyComponentPlan: the modules runtime applies the planned changes.    *)
(* It completes only for a complete plan; when a provider operation fails  *)
(* the objects may or may not have been created, updated or deleted (an   *)
(* update may replace, deleting first); a failed delete creates nothing.   *)
(***************************************************************************)
Applied(n) ==
  CASE action[n] = "Delete" -> FALSE
    [] action[n] = "Read"   -> exists[n]
    [] OTHER                -> TRUE
PartlyApplied(n) ==
  CASE action[n] = "Read"   -> {exists[n]}
    [] action[n] = "Delete" -> {exists[n], FALSE}
    [] OTHER                -> BOOLEAN
RunApply(n) ==
  /\ finalState' = [finalState EXCEPT ![n] = "new"]
  /\ \/ /\ complete[n]
        /\ applyOk' = [applyOk EXCEPT ![n] = TRUE]
        /\ exists' = [exists EXCEPT ![n] = Applied(n)]
     \/ /\ applyOk' = [applyOk EXCEPT ![n] = FALSE]
        /\ \E e \in PartlyApplied(n) : exists' = [exists EXCEPT ![n] = e]

(***************************************************************************)
(* ApplyModuleTreePlan, as called by the apply walk: skipped when a node   *)
(* it waits for did not apply successfully; returns the no-op result early *)
(* when its input values are not wholly known; otherwise applies.          *)
(***************************************************************************)
ApplyModuleTreePlan(n) ==
  /\ PlanApplyable
  /\ applied[n] = "pending"
  /\ \A d \in WaitFor(n) : applied[d] = "done"
  /\ n \in Comp => \A d \in Required[n] : ResultReady(d)
  /\ applied' = [applied EXCEPT ![n] = "done"]
  /\ IF \E d \in WaitFor(n) : ~applyOk[d] \/ ~InputsKnown(n)
       THEN Skip(n)
       ELSE RunApply(n)
  /\ UNCHANGED vars

Next2 ==
  \/ PlanStep
  \/ \E n \in Nodes : ApplyModuleTreePlan(n)

Fairness2 ==
  /\ \A c \in Comp : WF_allVars(CheckModuleTreePlan(c) /\ UNCHANGED applyVars)
  /\ \A r \in Removed : WF_allVars(PlanRemoved(r) /\ UNCHANGED applyVars)
  /\ \A n \in Nodes : WF_allVars(ApplyModuleTreePlan(n))

Spec2 == Init2 /\ [][Next2]_allVars /\ Fairness2

-----------------------------------------------------------------------------
(* Every variable of planning and apply holds a value of its type.         *)
ApplyTypeOK ==
  /\ TypeOK
  /\ applied \in [Nodes -> {"pending", "done"}]
  /\ applyOk \in [Nodes -> BOOLEAN]
  /\ finalState \in [Nodes -> Snapshots]
  /\ exists \in [Nodes -> BOOLEAN]

(***************************************************************************)
(* Creation ordering: the objects of a component come into existence only  *)
(* once every component it requires exists and applied successfully, so   *)
(* it is never built from unknown or stale upstream values.                *)
(***************************************************************************)
CreateAfterRequired ==
  [][\A c \in Comp :
       ~exists[c] /\ exists'[c] =>
         \A d \in Required[c] : exists[d] /\ applied[d] = "done" /\ applyOk[d]
    ]_allVars

(***************************************************************************)
(* The apply walk terminates: once an applyable plan exists every node's   *)
(* apply result eventually becomes known, in destroy mode too, where       *)
(* dependents read the outputs of what they are destroying before it goes. *)
(***************************************************************************)
ApplyTerminates ==
  <>(\/ \E n \in Nodes : status[n] = "failed"
     \/ \A n \in Nodes : applied[n] = "done")

=============================================================================
