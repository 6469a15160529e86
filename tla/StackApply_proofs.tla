------------------------- MODULE StackApply_proofs -------------------------
(***************************************************************************)
(* Proofs about the apply phase of a stack, for every set of components,   *)
(* every dependency structure and every planning mode.                     *)
(***************************************************************************)
EXTENDS StackApply, StackPlan_proofs, TLAPS

(* The existence of a node's objects after an apply is a Boolean.         *)
LEMMA AppliedBoolean ==
  ASSUME NEW n \in Nodes, exists \in [Nodes -> BOOLEAN]
  PROVE  Applied(n) \in BOOLEAN /\ PartlyApplied(n) \subseteq BOOLEAN
BY DEF Applied, PartlyApplied

(* An apply step changes the apply-phase state of its own node only.      *)
LEMMA ApplyFrame ==
  ASSUME ApplyTypeOK, NEW n \in Nodes, ApplyModuleTreePlan(n)
  PROVE  /\ UNCHANGED vars
         /\ applied' = [applied EXCEPT ![n] = "done"]
         /\ \E ok \in BOOLEAN : applyOk' = [applyOk EXCEPT ![n] = ok]
         /\ \E s \in Snapshots : finalState' = [finalState EXCEPT ![n] = s]
         /\ \E e \in BOOLEAN : exists' = [exists EXCEPT ![n] = e]
<1>1. Applied(n) \in BOOLEAN /\ PartlyApplied(n) \subseteq BOOLEAN
  BY AppliedBoolean DEF ApplyTypeOK
<1>2. CASE \E d \in WaitFor(n) : ~applyOk[d] \/ ~InputsKnown(n)
  <2>1. Skip(n) /\ UNCHANGED vars /\ applied' = [applied EXCEPT ![n] = "done"]
    BY <1>2 DEF ApplyModuleTreePlan
  <2>2. exists' = [exists EXCEPT ![n] = exists[n]]
    BY <2>1 DEF Skip, ApplyTypeOK
  <2>3. QED
    BY <2>1, <2>2 DEF Skip, Snapshots, ApplyTypeOK
<1>3. CASE ~\E d \in WaitFor(n) : ~applyOk[d] \/ ~InputsKnown(n)
  BY <1>1, <1>3 DEF ApplyModuleTreePlan, RunApply, Snapshots
<1>4. QED
  BY <1>2, <1>3

(* Every step of planning and apply keeps the variables in their types.   *)
LEMMA ApplyTypeStep == ApplyTypeOK /\ [Next2]_allVars => ApplyTypeOK'
<1> SUFFICES ASSUME ApplyTypeOK, [Next2]_allVars PROVE ApplyTypeOK'
  OBVIOUS
<1>1. CASE PlanStep
  BY <1>1, TypeStep DEF PlanStep, ApplyTypeOK, applyVars
<1>2. ASSUME NEW n \in Nodes, ApplyModuleTreePlan(n) PROVE ApplyTypeOK'
  BY <1>2, ApplyFrame DEF ApplyTypeOK, vars, TypeOK
<1>3. CASE UNCHANGED allVars
  BY <1>3 DEF allVars, vars, applyVars, ApplyTypeOK, TypeOK
<1>4. QED
  BY <1>1, <1>2, <1>3 DEF Next2

(* The initial states are well typed.                                     *)
LEMMA ApplyInitTypeOK == Init2 => ApplyTypeOK
BY InitTypeOK DEF Init2, InitApply, ApplyTypeOK, Snapshots

(* Type correctness of planning followed by apply.                         *)
THEOREM ApplyTypeCorrect == Spec2 => []ApplyTypeOK
BY ApplyInitTypeOK, ApplyTypeStep, PTL DEF Spec2

-----------------------------------------------------------------------------
(* A resolved plan records the action PlanChanges reports for its mode.    *)
ActionsPlanned ==
  \A n \in Nodes : status[n] = "planned" =>
    action[n] = IF n \in Comp THEN PlannedAction(n) ELSE "Delete"

(* A node is applied only once it is planned.                              *)
DoneIsPlanned == \A n \in Nodes : applied[n] = "done" => status[n] = "planned"

(* A Create or Update that applied successfully leaves its objects.       *)
OkExists ==
  \A n \in Nodes :
    applied[n] = "done" /\ applyOk[n] /\ action[n] \in {"Create", "Update"} => exists[n]

(* The inductive invariant behind creation ordering.                      *)
ApplyIInv == ApplyTypeOK /\ ActionsPlanned /\ DoneIsPlanned /\ OkExists

(* A planning step records the planned action and leaves the apply alone.  *)
LEMMA PlanStepInv == ApplyIInv /\ PlanStep => ApplyIInv'
<1> SUFFICES ASSUME ApplyIInv, PlanStep PROVE ApplyIInv'
  OBVIOUS
<1>1. ApplyTypeOK'
  BY ApplyTypeStep DEF ApplyIInv, Next2
<1>2. UNCHANGED applyVars
  BY DEF PlanStep
<1>3. ASSUME NEW p \in Nodes, status[p] = "pending",
             NEW dfr, NEW act, PlanOutcome(p, dfr, act),
             status'[p] = "planned" => act = IF p \in Comp THEN PlannedAction(p) ELSE "Delete"
      PROVE  ApplyIInv'
  <2>1. /\ mode' = mode
        /\ \A m \in Nodes \ {p} : status'[m] = status[m] /\ action'[m] = action[m]
    BY <1>3 DEF PlanOutcome, ApplyIInv, ApplyTypeOK, TypeOK
  <2>2. status'[p] = "planned" => action'[p] = act
    BY <1>3 DEF PlanOutcome, ApplyIInv, ApplyTypeOK, TypeOK
  <2>3. ActionsPlanned'
    BY <1>3, <2>1, <2>2 DEF ActionsPlanned, ApplyIInv, PlannedAction
  <2>4. applied[p] = "pending"
    BY <1>3 DEF ApplyIInv, DoneIsPlanned, ApplyTypeOK
  <2>5. DoneIsPlanned' /\ OkExists'
    BY <1>2, <2>1, <2>4 DEF applyVars, DoneIsPlanned, OkExists, ApplyIInv
  <2>6. QED
    BY <1>1, <2>3, <2>5 DEF ApplyIInv
<1>4. ASSUME NEW c \in Comp, CheckModuleTreePlan(c) PROVE ApplyIInv'
  <2>1. PICK dfr \in DependencyDeferred(c) :
              PlanOutcome(c, dfr \/ c \in Unexpanded, PlannedAction(c))
    BY <1>4 DEF CheckModuleTreePlan
  <2>2. QED
    BY <1>4, <2>1, <1>3 DEF CheckModuleTreePlan, Nodes
<1>5. ASSUME NEW r \in Removed, PlanRemoved(r) PROVE ApplyIInv'
  <2>1. r \notin Comp
    BY ConstAssumption
  <2>2. QED
    BY <1>5, <2>1, <1>3 DEF PlanRemoved, Nodes
<1>6. QED
  BY <1>4, <1>5 DEF PlanStep, Next
(* Under ApplyIInv, the plan of a node being applied has its planned action *)
(* and, when the node is a component of a Create or Update, so has the plan *)
(* of every component it requires.                                         *)
LEMMA PlannedActions ==
  ASSUME ApplyIInv, PlanApplyable, NEW n \in Nodes
  PROVE  /\ action[n] = IF n \in Comp THEN PlannedAction(n) ELSE "Delete"
         /\ action[n] \in {"Create", "Update"} =>
              /\ mode = "normal"
              /\ \A d \in Required[n] : action[d] \in {"Create", "Update"}
<1>1. action[n] = IF n \in Comp THEN PlannedAction(n) ELSE "Delete"
  BY DEF ApplyIInv, ActionsPlanned, PlanApplyable
<1>2. ASSUME action[n] \in {"Create", "Update"}
      PROVE  /\ mode = "normal"
             /\ \A d \in Required[n] : action[d] \in {"Create", "Update"}
  <2>1. n \in Comp /\ mode \notin {"destroy", "refresh"}
    <3>1. n \in Comp
      BY <1>1, <1>2
    <3>2. action[n] = PlannedAction(n)
      BY <1>1, <3>1
    <3>3. mode # "destroy" /\ mode # "refresh"
      <4>1. mode = "destroy" => PlannedAction(n) = "Delete"
        BY DEF PlannedAction
      <4>2. mode = "refresh" => PlannedAction(n) = "Read"
        BY DEF PlannedAction
      <4>3. QED
        BY <1>2, <3>2, <4>1, <4>2
    <3>4. QED
      BY <3>1, <3>3
  <2>2. mode = "normal"
    BY <2>1 DEF ApplyIInv, ApplyTypeOK, TypeOK, Modes
  <2>3. ASSUME NEW d \in Required[n] PROVE action[d] \in {"Create", "Update"}
    <3>1. d \in Comp
      BY <2>1, ConstAssumption
    <3>2. action[d] = PlannedAction(d)
      BY <3>1 DEF ApplyIInv, ActionsPlanned, PlanApplyable, Nodes
    <3>3. QED
      BY <2>1, <3>2 DEF PlannedAction
  <2>4. QED
    BY <2>2, <2>3
<1>3. QED
  BY <1>1, <1>2

(* An apply step of a Create or Update that completes leaves its objects; *)
(* a Read or a Delete never brings objects into existence.                 *)
LEMMA ApplyExistence ==
  ASSUME ApplyTypeOK, NEW n \in Nodes, RunApply(n)
  PROVE  /\ applyOk'[n] /\ action[n] \in {"Create", "Update"} => exists'[n]
         /\ ~exists[n] /\ exists'[n] => action[n] \notin {"Read", "Delete"}
<1>1. CASE complete[n] /\ applyOk' = [applyOk EXCEPT ![n] = TRUE]
           /\ exists' = [exists EXCEPT ![n] = Applied(n)]
  BY <1>1 DEF Applied, ApplyTypeOK
<1>2. CASE applyOk' = [applyOk EXCEPT ![n] = FALSE]
           /\ \E e \in PartlyApplied(n) : exists' = [exists EXCEPT ![n] = e]
  BY <1>2 DEF PartlyApplied, ApplyTypeOK
<1>3. QED
  BY <1>1, <1>2 DEF RunApply

(* An apply step keeps the invariant.                                      *)
LEMMA ApplyStepInv ==
  ASSUME ApplyIInv, NEW n \in Nodes, ApplyModuleTreePlan(n)
  PROVE  ApplyIInv'
<1>1. ApplyTypeOK'
  BY ApplyTypeStep DEF ApplyIInv, Next2
<1>2. /\ UNCHANGED vars
      /\ applied' = [applied EXCEPT ![n] = "done"]
      /\ \E ok \in BOOLEAN : applyOk' = [applyOk EXCEPT ![n] = ok]
      /\ \E e \in BOOLEAN : exists' = [exists EXCEPT ![n] = e]
  BY ApplyFrame DEF ApplyIInv
<1>3. ActionsPlanned' /\ DoneIsPlanned'
  <2>1. status[n] = "planned"
    BY DEF ApplyModuleTreePlan, PlanApplyable
  <2>2. QED
    BY <1>2, <2>1 DEF vars, ApplyIInv, ActionsPlanned, DoneIsPlanned, PlannedAction,
                      ApplyTypeOK
<1>4. OkExists'
  <2>1. \A m \in Nodes \ {n} :
          applied'[m] = applied[m] /\ applyOk'[m] = applyOk[m] /\ exists'[m] = exists[m]
    BY <1>2 DEF ApplyIInv, ApplyTypeOK
  <2>2. applied'[n] = "done" /\ applyOk'[n] /\ action[n] \in {"Create", "Update"}
          => exists'[n]
    <3>1. CASE \E d \in WaitFor(n) : ~applyOk[d] \/ ~InputsKnown(n)
      BY <3>1 DEF ApplyModuleTreePlan, Skip, ApplyIInv, ApplyTypeOK
    <3>2. CASE ~\E d \in WaitFor(n) : ~applyOk[d] \/ ~InputsKnown(n)
      BY <3>2, ApplyExistence DEF ApplyModuleTreePlan, ApplyIInv
    <3>3. QED
      BY <3>1, <3>2
  <2>3. QED
    BY <1>2, <2>1, <2>2 DEF vars, OkExists, ApplyIInv
<1>5. QED
  BY <1>1, <1>3, <1>4 DEF ApplyIInv

(***************************************************************************)
(* Creation ordering, one step: a component's objects come into existence  *)
(* only in its own apply, of a Create or an Update; that apply ran after   *)
(* every component it requires applied successfully, and those, being     *)
(* Creates or Updates too, left their objects.                             *)
(***************************************************************************)
LEMMA CreateStep ==
  ASSUME ApplyIInv, [Next2]_allVars, NEW c \in Comp, ~exists[c], exists'[c],
         NEW d \in Required[c]
  PROVE  exists[d] /\ applied[d] = "done" /\ applyOk[d]
<1>1. CASE PlanStep \/ UNCHANGED allVars
  BY <1>1 DEF PlanStep, applyVars, allVars
<1>2. ASSUME NEW m \in Nodes, ApplyModuleTreePlan(m), m # c PROVE FALSE
  BY <1>2, ApplyFrame DEF ApplyIInv, ApplyTypeOK, Nodes
<1>3. ASSUME ApplyModuleTreePlan(c) PROVE exists[d] /\ applied[d] = "done" /\ applyOk[d]
  <2>1. ~\E x \in WaitFor(c) : ~applyOk[x] \/ ~InputsKnown(c)
    BY <1>3 DEF ApplyModuleTreePlan, Skip
  <2>2. RunApply(c)
    BY <1>3, <2>1 DEF ApplyModuleTreePlan
  <2>3. action[c] \in {"Create", "Update"}
    <3>1. action[c] = PlannedAction(c)
      BY <1>3, PlannedActions DEF ApplyModuleTreePlan, Nodes
    <3>2. action[c] \notin {"Read", "Delete"}
      BY <2>2, ApplyExistence DEF ApplyIInv, Nodes
    <3>3. QED
      BY <3>1, <3>2 DEF PlannedAction
  <2>4. WaitFor(c) = Required[c]
    BY <2>3 DEF WaitFor
  <2>5. applied[d] = "done" /\ applyOk[d]
    BY <1>3, <2>1, <2>4 DEF ApplyModuleTreePlan
  <2>6. action[d] \in {"Create", "Update"}
    BY <1>3, <2>3, PlannedActions DEF ApplyModuleTreePlan, Nodes
  <2>7. d \in Nodes
    BY ConstAssumption DEF Nodes
  <2>8. QED
    BY <2>5, <2>6, <2>7 DEF ApplyIInv, OkExists
<1>4. QED
  BY <1>1, <1>2, <1>3 DEF Next2, Nodes

(* A component's objects are created only after every component it         *)
(* requires exists and applied successfully, for every stack.              *)
THEOREM CreateOrdering == Spec2 => CreateAfterRequired
<1>1. Init2 => ApplyIInv
  BY ApplyInitTypeOK DEF Init2, Init, InitApply, ApplyIInv, ActionsPlanned, DoneIsPlanned,
                         OkExists
<1>2. ApplyIInv /\ [Next2]_allVars => ApplyIInv'
  <2> SUFFICES ASSUME ApplyIInv, [Next2]_allVars PROVE ApplyIInv'
    OBVIOUS
  <2>1. CASE PlanStep
    BY <2>1, PlanStepInv
  <2>2. CASE \E n \in Nodes : ApplyModuleTreePlan(n)
    BY <2>2, ApplyStepInv
  <2>3. CASE UNCHANGED allVars
    BY <2>3 DEF allVars, vars, applyVars, ApplyIInv, ApplyTypeOK, TypeOK, ActionsPlanned,
                DoneIsPlanned, OkExists, PlannedAction
  <2>4. QED
    BY <2>1, <2>2, <2>3 DEF Next2
<1>3. ApplyIInv /\ [Next2]_allVars =>
        \A c \in Comp : ~exists[c] /\ exists'[c] =>
          \A d \in Required[c] : exists[d] /\ applied[d] = "done" /\ applyOk[d]
  BY CreateStep
<1>4. QED
  BY <1>1, <1>2, <1>3, PTL DEF Spec2, CreateAfterRequired

====
