----------------------------- MODULE StackPlan -----------------------------
(***************************************************************************)
(* The planning phase of a stack: every component instance computes its   *)
(* module-tree plan once (ComponentInstance.CheckModuleTreePlan, memoised *)
(* by a promising.Once), deciding first whether it must be treated as     *)
(* deferred because something it is ordered after has an incomplete plan. *)
(* The plans of all component instances and removed blocks are computed   *)
(* concurrently; a plan step waits on the promises of the plans it reads.  *)
(*                                                                         *)
(* A component here stands for its instances collapsed into one node: the *)
(* code asks Component.PlanIsComplete, which is the conjunction over the   *)
(* instances.  Data (input values, provider clients, the plan's contents) *)
(* is abstracted to whether the plan exists and whether it is complete.    *)
(***************************************************************************)
EXTENDS FiniteSets

CONSTANTS
  Comp,            \* components declared in the stack configuration
  Removed,         \* `removed` blocks: components in prior state, gone from config
  Unconfigured,    \* addresses recorded in prior state that resolve to nothing
  Required,        \* Required[c]: c.call.RequiredComponents(ctx)
  PrevDependents,  \* PrevDependents[n]: PlanPrevState().DependentsForComponent(n)
  PrevState,       \* components that have an instance in the prior state
  Unexpanded,      \* instances built deferred or with a wildcard key
  PlanModes        \* the planning modes the caller may choose

Nodes == Comp \cup Removed
Addrs == Nodes \cup Unconfigured
Modes == {"normal", "destroy", "refresh"}

ASSUME ConstAssumption ==
  /\ Comp \cap Removed = {}
  /\ Unconfigured \cap Nodes = {}
  /\ Required \in [Comp -> SUBSET Comp]
  /\ PrevDependents \in [Nodes -> SUBSET Addrs]
  /\ PrevState \subseteq Comp
  /\ Unexpanded \subseteq Comp
  /\ PlanModes \subseteq Modes

VARIABLES
  mode,        \* stackPlanOpts.PlanningMode, fixed for the whole plan walk
  status,      \* status[n]: "pending" until the Once resolves, then "planned" or "failed" (nil plan)
  deferred,    \* deferred[n]: the ExternalDependencyDeferred value the plan was computed with
  complete,    \* complete[n]: plan.Complete of the resulting plan
  action       \* action[n]: the component-level action PlanChanges reports

vars == <<mode, status, deferred, complete, action>>

Status == {"pending", "planned", "failed"}
Actions == {"None", "Create", "Update", "Delete", "Read"}

(***************************************************************************)
(* Component.PlanIsComplete: a plan that failed (nil) counts as           *)
(* incomplete, to be conservative.                                         *)
(***************************************************************************)
PlanIsComplete(n) == status[n] = "planned" /\ complete[n]

(***************************************************************************)
(* The outcomes of one of the scanning loops of CheckModuleTreePlan over  *)
(* the set S, whose elements come out of collections.Set.Elems in map     *)
(* order.  An element that resolves in K is read through its plan promise: *)
(* a complete one lets the loop continue, an incomplete one sets deferred *)
(* and breaks.  An element that does not resolve in K breaks the loop,    *)
(* setting deferred only when missingDefers.  Since any element can come   *)
(* first in map order, the loop can stop at any element that stops it,    *)
(* once that element's promise (if it reads one) has resolved; it ends     *)
(* with deferred = FALSE only when every element lets it continue.        *)
(***************************************************************************)
Passes(e, K) == e \in K /\ PlanIsComplete(e)
Stops(e, K) == e \notin K \/ (status[e] # "pending" /\ ~PlanIsComplete(e))
ScanOutcomes(S, K, missingDefers) ==
  (IF \A e \in S : Passes(e, K) THEN {FALSE} ELSE {})
  \cup {IF e \in K THEN TRUE ELSE missingDefers : e \in {x \in S : Stops(x, K)}}

(* Mutant: a misplaced break ends the loop after its first element.      *)
RequiredScanFirstOnly(c) ==
  IF Required[c] = {} THEN {FALSE}
  ELSE {~Passes(e, Comp) : e \in {x \in Required[c] : x \notin Comp \/ status[x] # "pending"}}

(* The loop over RequiredComponents: a missing dependency defers too.      *)
RequiredScan(c) == ScanOutcomes(Required[c], Comp, TRUE)

(* Mutant: the loop resolves every dependent's plan promise before it     *)
(* looks whether the dependent is a `removed` block.                       *)
RemovedDependentsScanBlocking(c) ==
  IF \E d \in PrevDependents[c] \cap Nodes : status[d] = "pending" THEN {}
  ELSE ScanOutcomes(PrevDependents[c], Removed, FALSE)

(* The loop over the prior dependents that are being removed: a dependent *)
(* that is not a `removed` block breaks the loop without deferring.        *)
RemovedDependentsScan(c) == ScanOutcomes(PrevDependents[c], Removed, FALSE)

(* The destroy-mode loop over prior dependents: a dependent that is not a  *)
(* configured component breaks the loop without deferring.                 *)
DestroyDependentsScan(c) == ScanOutcomes(PrevDependents[c], Comp, FALSE)

(* The deferred values the dependency checks of CheckModuleTreePlan can   *)
(* produce, per planning mode.                                             *)
DependencyDeferred(c) ==
  IF mode = "destroy"
    THEN DestroyDependentsScan(c)
    ELSE {a \/ b : a \in RequiredScan(c), b \in RemovedDependentsScan(c)}

(* Mutant: a component that existed before is reported as a no-op.       *)
PlannedActionNoOp(c) ==
  IF mode = "destroy" THEN "Delete"
  ELSE IF mode = "refresh" THEN "Read"
  ELSE IF c \in PrevState THEN "NoOp"
  ELSE "Create"

(* PlanChanges: the action reported for a component whose plan exists.    *)
PlannedAction(c) ==
  IF mode = "destroy" THEN "Delete"
  ELSE IF mode = "refresh" THEN "Read"
  ELSE IF c \in PrevState THEN "Update"
  ELSE "Create"

(***************************************************************************)
(* The modules runtime (PlanComponentInstance) either fails, leaving a nil *)
(* plan, or returns a plan; with ExternalDependencyDeferred set every      *)
(* resource change is deferred and the plan is not complete.               *)
(***************************************************************************)
PlanOutcome(n, dfr, act) ==
  /\ UNCHANGED mode
  /\ deferred' = [deferred EXCEPT ![n] = dfr]
  /\ \/ /\ status' = [status EXCEPT ![n] = "failed"]
        /\ UNCHANGED <<complete, action>>
     \/ /\ status' = [status EXCEPT ![n] = "planned"]
        /\ \E cpl \in IF dfr THEN {FALSE} ELSE BOOLEAN :
             complete' = [complete EXCEPT ![n] = cpl]
        /\ action' = [action EXCEPT ![n] = act]

Init ==
  /\ mode \in PlanModes
  /\ status = [n \in Nodes |-> "pending"]
  /\ deferred = [n \in Nodes |-> FALSE]
  /\ complete = [n \in Nodes |-> FALSE]
  /\ action = [n \in Nodes |-> "None"]

(***************************************************************************)
(* CheckModuleTreePlan for component c, followed by PlanChanges.  The      *)
(* scans are atomic: the promises they wait on resolve once and never      *)
(* change, so the loop's result is the one it has when it ends.            *)
(***************************************************************************)
CheckModuleTreePlan(c) ==
  /\ status[c] = "pending"
  /\ \E dfr \in DependencyDeferred(c) :
       PlanOutcome(c, dfr \/ c \in Unexpanded, PlannedAction(c))

(***************************************************************************)
(* The plan of a `removed` block destroys what it recorded; it waits for   *)
(* every prior dependent that is itself planned in this run, and is        *)
(* deferred when any of them is incomplete.                                *)
(***************************************************************************)
PlanRemoved(r) ==
  LET deps == PrevDependents[r] \cap Nodes IN
  /\ status[r] = "pending"
  /\ \A d \in deps : status[d] # "pending"
  /\ PlanOutcome(r, \E d \in deps : ~PlanIsComplete(d), "Delete")

Next ==
  \/ \E c \in Comp : CheckModuleTreePlan(c)
  \/ \E r \in Removed : PlanRemoved(r)

Fairness ==
  /\ \A c \in Comp : WF_vars(CheckModuleTreePlan(c))
  /\ \A r \in Removed : WF_vars(PlanRemoved(r))

Spec == Init /\ [][Next]_vars /\ Fairness

-----------------------------------------------------------------------------
(* Every variable holds a value of its type.                               *)
TypeOK ==
  /\ mode \in Modes
  /\ status \in [Nodes -> Status]
  /\ deferred \in [Nodes -> BOOLEAN]
  /\ complete \in [Nodes -> BOOLEAN]
  /\ action \in [Nodes -> Actions]

(***************************************************************************)
(* Deferral monotonicity along configured dependencies (outside destroy    *)
(* mode): a component's plan is complete only if the plan of every         *)
(* component it requires is complete, so nothing is applied on top of an   *)
(* upstream that was deferred or failed to plan.                          *)
(***************************************************************************)
RequiredDeferralMonotone ==
  mode # "destroy" =>
    \A c \in Comp : PlanIsComplete(c) =>
      \A d \in Required[c] : PlanIsComplete(d)

(***************************************************************************)
(* What the comments of CheckModuleTreePlan promise about prior            *)
(* dependents: if a dependent that is being destroyed in this plan (every  *)
(* dependent in destroy mode, the `removed` ones otherwise) could not      *)
(* finish its plan, the component defers its own plan, so it is never      *)
(* reported complete while such a dependent's plan has resolved           *)
(* incomplete or failed.                                                   *)
(***************************************************************************)
BeingDestroyed == IF mode = "destroy" THEN Nodes ELSE Removed
RemovalDeferral ==
  \A c \in Comp : PlanIsComplete(c) =>
    \A d \in PrevDependents[c] \cap BeingDestroyed :
      status[d] # "pending" => PlanIsComplete(d)

(***************************************************************************)
(* Planning terminates: every plan promise eventually resolves, so no set  *)
(* of component instances ends up waiting on each other's plans.           *)
(***************************************************************************)
PlanningTerminates == <>(\A n \in Nodes : status[n] # "pending")

=============================================================================
