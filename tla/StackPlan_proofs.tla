-------------------------- MODULE StackPlan_proofs --------------------------
(***************************************************************************)
(* Proofs about the planning phase, for every set of components, every     *)
(* dependency structure and every planning mode.                           *)
(***************************************************************************)
EXTENDS StackPlan, TLAPS

(* A scan of CheckModuleTreePlan only ever yields a Boolean.               *)
LEMMA ScanOutcomesBoolean ==
  ASSUME NEW S, NEW K, NEW m \in BOOLEAN
  PROVE  ScanOutcomes(S, K, m) \subseteq BOOLEAN
BY DEF ScanOutcomes

(* The dependency checks of CheckModuleTreePlan yield a Boolean.           *)
LEMMA DependencyDeferredBoolean ==
  ASSUME NEW c \in Comp
  PROVE  DependencyDeferred(c) \subseteq BOOLEAN
<1>1. RequiredScan(c) \subseteq BOOLEAN
  BY ScanOutcomesBoolean DEF RequiredScan
<1>2. RemovedDependentsScan(c) \subseteq BOOLEAN
  BY ScanOutcomesBoolean DEF RemovedDependentsScan
<1>3. DestroyDependentsScan(c) \subseteq BOOLEAN
  BY ScanOutcomesBoolean DEF DestroyDependentsScan
<1>4. QED
  BY <1>1, <1>2, <1>3 DEF DependencyDeferred

(* The loop over RequiredComponents ends without deferring only when every *)
(* required component's plan is already complete.                          *)
LEMMA RequiredScanNotDeferred ==
  ASSUME NEW c \in Comp, FALSE \in RequiredScan(c)
  PROVE  \A d \in Required[c] : PlanIsComplete(d)
<1>1. FALSE \notin {IF e \in Comp THEN TRUE ELSE TRUE :
                      e \in {x \in Required[c] : Stops(x, Comp)}}
  OBVIOUS
<1>2. \A e \in Required[c] : Passes(e, Comp)
  BY <1>1 DEF RequiredScan, ScanOutcomes
<1>3. QED
  BY <1>2 DEF Passes

(* PlanOutcome keeps every variable in its type.                           *)
LEMMA PlanOutcomeType ==
  ASSUME TypeOK, NEW n \in Nodes, NEW dfr \in BOOLEAN, NEW act \in Actions,
         PlanOutcome(n, dfr, act)
  PROVE  TypeOK'
BY DEF PlanOutcome, TypeOK, Status

(* Every step of the planning phase keeps the variables in their types.   *)
LEMMA TypeStep == TypeOK /\ [Next]_vars => TypeOK'
<1> SUFFICES ASSUME TypeOK, [Next]_vars PROVE TypeOK'
  OBVIOUS
<1>1. ASSUME NEW c \in Comp, CheckModuleTreePlan(c) PROVE TypeOK'
  <2>1. PICK dfr \in DependencyDeferred(c) :
              PlanOutcome(c, dfr \/ c \in Unexpanded, PlannedAction(c))
    BY <1>1 DEF CheckModuleTreePlan
  <2>2. dfr \in BOOLEAN
    BY DependencyDeferredBoolean
  <2>3. PlannedAction(c) \in Actions
    BY DEF PlannedAction, Actions
  <2>4. QED
    BY <2>1, <2>2, <2>3, PlanOutcomeType DEF Nodes
<1>2. ASSUME NEW r \in Removed, PlanRemoved(r) PROVE TypeOK'
  BY <1>2, PlanOutcomeType DEF PlanRemoved, Actions, Nodes
<1>3. CASE UNCHANGED vars
  BY <1>3 DEF vars, TypeOK
<1>4. QED
  BY <1>1, <1>2, <1>3 DEF Next

(* The initial state is well typed.                                       *)
LEMMA InitTypeOK == Init => TypeOK
BY ConstAssumption DEF Init, TypeOK, Modes, Status, Actions

(* Type correctness of the planning phase.                                 *)
THEOREM TypeCorrect == Spec => []TypeOK
BY InitTypeOK, TypeStep, PTL DEF Spec

-----------------------------------------------------------------------------
(* A resolved plan never changes (the promise resolves once): a step only  *)
(* touches the node it plans, which was pending.                           *)
LEMMA PlanOutcomeFrame ==
  ASSUME TypeOK, NEW n \in Nodes, NEW dfr, NEW act, ~complete[n],
         PlanOutcome(n, dfr, act)
  PROVE  /\ mode' = mode
         /\ \A m \in Nodes \ {n} : /\ status'[m] = status[m]
                                   /\ complete'[m] = complete[m]
         /\ complete'[n] => ~dfr
<1>1. CASE /\ status' = [status EXCEPT ![n] = "failed"]
           /\ UNCHANGED <<complete, action>>
  BY <1>1 DEF PlanOutcome, TypeOK
<1>2. CASE /\ status' = [status EXCEPT ![n] = "planned"]
           /\ \E cpl \in IF dfr THEN {FALSE} ELSE BOOLEAN :
                complete' = [complete EXCEPT ![n] = cpl]
  BY <1>2 DEF PlanOutcome, TypeOK
<1>3. QED
  BY <1>1, <1>2 DEF PlanOutcome

(* A plan that is not (yet) resolved as planned is not complete.           *)
NotPlannedIncomplete == \A n \in Nodes : status[n] # "planned" => ~complete[n]

(* Inductive invariant for deferral monotonicity.                          *)
IInv == TypeOK /\ NotPlannedIncomplete /\ RequiredDeferralMonotone

(* Deferral monotonicity holds in every reachable state.                  *)
THEOREM RequiredMonotone == Spec => []RequiredDeferralMonotone
<1>1. Init => IInv
  BY InitTypeOK DEF Init, IInv, NotPlannedIncomplete, RequiredDeferralMonotone, Nodes,
                    PlanIsComplete
<1>2. IInv /\ [Next]_vars => IInv'
  <2> SUFFICES ASSUME IInv, [Next]_vars PROVE IInv'
    OBVIOUS
  <2>1. TypeOK'
    BY TypeStep DEF IInv
  (* The step plans node n, which was pending; when n is a component whose *)
  (* new plan is complete, all it requires was complete before the step.   *)
  <2>2. ASSUME NEW n \in Nodes, NEW dfr, NEW act, status[n] = "pending",
               PlanOutcome(n, dfr, act),
               n \in Comp /\ complete'[n] => \A d \in Required[n] : PlanIsComplete(d)
        PROVE  IInv'
    <3>1. ~complete[n]
      BY <2>2 DEF IInv, NotPlannedIncomplete
    <3>2. /\ mode' = mode
          /\ \A m \in Nodes \ {n} : /\ status'[m] = status[m]
                                    /\ complete'[m] = complete[m]
      BY <2>2, <3>1, PlanOutcomeFrame DEF IInv
    <3>3. status'[n] # "planned" => ~complete'[n]
      BY <2>2, <3>1 DEF PlanOutcome, IInv, TypeOK
    <3>4. NotPlannedIncomplete'
      BY <3>2, <3>3 DEF IInv, NotPlannedIncomplete
    <3>5. RequiredDeferralMonotone'
      <4> SUFFICES ASSUME mode' # "destroy", NEW c \in Comp, PlanIsComplete(c)',
                          NEW d \in Required[c]
                   PROVE  PlanIsComplete(d)'
        BY DEF RequiredDeferralMonotone
      <4>1. d \in Comp
        BY ConstAssumption
      <4>2. PlanIsComplete(d)
        <5>1. CASE c = n
          BY <2>2, <5>1 DEF PlanIsComplete
        <5>2. CASE c # n
          <6>1. PlanIsComplete(c)
            BY <3>2, <5>2 DEF PlanIsComplete, Nodes
          <6>2. QED
            BY <6>1, <3>2 DEF IInv, RequiredDeferralMonotone
        <5>3. QED
          BY <5>1, <5>2
      <4>3. d # n
        BY <4>2, <2>2 DEF PlanIsComplete
      <4>4. QED
        BY <4>2, <4>3, <4>1, <3>2 DEF PlanIsComplete, Nodes
    <3>6. QED
      BY <2>1, <3>4, <3>5 DEF IInv
  <2>3. ASSUME NEW c \in Comp, CheckModuleTreePlan(c) PROVE IInv'
    <3>1. PICK dfr \in DependencyDeferred(c) :
                PlanOutcome(c, dfr \/ c \in Unexpanded, PlannedAction(c))
      BY <2>3 DEF CheckModuleTreePlan
    <3>2. status[c] = "pending"
      BY <2>3 DEF CheckModuleTreePlan
    <3>3. complete'[c] => ~(dfr \/ c \in Unexpanded)
      BY <3>1, <3>2, PlanOutcomeFrame DEF IInv, NotPlannedIncomplete, Nodes
    <3>4. mode' = mode
      BY <3>1 DEF PlanOutcome
    <3>5. complete'[c] /\ mode # "destroy" => \A d \in Required[c] : PlanIsComplete(d)
      <4> SUFFICES ASSUME complete'[c], mode # "destroy"
                   PROVE  \A d \in Required[c] : PlanIsComplete(d)
        OBVIOUS
      <4>1. PICK a \in RequiredScan(c), b \in RemovedDependentsScan(c) : dfr = (a \/ b)
        BY DEF DependencyDeferred
      <4>2. a \in BOOLEAN /\ b \in BOOLEAN
        BY ScanOutcomesBoolean DEF RequiredScan, RemovedDependentsScan
      <4>3. FALSE \in RequiredScan(c)
        BY <3>3, <4>1, <4>2
      <4>4. QED
        BY <4>3, RequiredScanNotDeferred
    <3>6. CASE mode = "destroy"
      (* Deferral monotonicity says nothing in destroy mode; the rest is  *)
      (* the generic step.                                                 *)
      <4>1. ~complete[c]
        BY <3>2 DEF IInv, NotPlannedIncomplete, Nodes
      <4>2. /\ \A m \in Nodes \ {c} : /\ status'[m] = status[m]
                                      /\ complete'[m] = complete[m]
        BY <3>1, <4>1, PlanOutcomeFrame DEF IInv, Nodes
      <4>3. status'[c] # "planned" => ~complete'[c]
        BY <3>1, <4>1 DEF PlanOutcome, IInv, TypeOK, Nodes
      <4>4. QED
        BY <2>1, <3>4, <3>6, <4>2, <4>3 DEF IInv, NotPlannedIncomplete, RequiredDeferralMonotone
    <3>7. CASE mode # "destroy"
      BY <3>1, <3>2, <3>5, <3>7, <2>2 DEF Nodes
    <3>8. QED
      BY <3>6, <3>7
  <2>4. ASSUME NEW r \in Removed, PlanRemoved(r) PROVE IInv'
    <3>1. /\ status[r] = "pending"
          /\ PlanOutcome(r, \E d \in PrevDependents[r] \cap Nodes : ~PlanIsComplete(d), "Delete")
      BY <2>4 DEF PlanRemoved
    <3>2. r \notin Comp
      BY ConstAssumption
    <3>3. QED
      BY <2>2, <3>1, <3>2 DEF Nodes
  <2>5. CASE UNCHANGED vars
    BY <2>5, <2>1 DEF vars, IInv, NotPlannedIncomplete, RequiredDeferralMonotone, PlanIsComplete
  <2>6. QED
    BY <2>3, <2>4, <2>5 DEF Next
<1>3. IInv => RequiredDeferralMonotone
  BY DEF IInv
<1>4. QED
  BY <1>1, <1>2, <1>3, PTL DEF Spec

=============================================================================
