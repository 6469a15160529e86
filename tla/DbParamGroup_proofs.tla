------------------------ MODULE DbParamGroup_proofs ------------------------
(***************************************************************************)
(* Proofs about the aws_db_cluster_parameter_group resource, for every set *)
(* of parameter names and values.                                          *)
(***************************************************************************)
EXTENDS DbParamGroup, TLAPS

(* The parameter values a group can hold.                                  *)
RemoteType == [ParamNames -> Values \cup {Default}]

(* What Describe reports is a parameter set with one value per name.       *)
LEMMA UserParamsType ==
  ASSUME NEW r \in RemoteType
  PROVE  UserParams(r) \in ParamSets
<1>1. UserParams(r) \subseteq Params
  BY DEF UserParams, Params, RemoteType
<1>2. \A p, q \in UserParams(r) : p.name = q.name => p = q
  BY DEF UserParams
<1>3. QED
  BY <1>1, <1>2 DEF ParamSets

(* ModifyDBClusterParameterGroup with parameters of the schema keeps the   *)
(* group's values in their type.                                           *)
LEMMA ModifyType ==
  ASSUME NEW r \in RemoteType, NEW ps \in SUBSET Params
  PROVE  Modify(r, ps) \in RemoteType
<1>1. ASSUME NEW n \in ParamNames, \E p \in ps : p.name = n
      PROVE  (CHOOSE p \in ps : p.name = n).value \in Values
  BY <1>1 DEF Params
<1>2. QED
  BY <1>1 DEF Modify, RemoteType

(* The body of Update, from a well-typed saved set and group, leaves the   *)
(* group and the saved set well typed and reports ok or error.             *)
LEMMA UpdateBodyType ==
  ASSUME DbTypeOK, NEW os \in ParamSets, NEW r \in RemoteType, NEW ex,
         UpdateBody(os, r, ex)
  PROVE  /\ remote' \in RemoteType
         /\ stateParams' \in ParamSets
         /\ outcome' \in {"ok", "error"}
<1> DEFINE ps == Difference(cfg.params, os)
<1>1. ps \in SUBSET Params
  BY DEF DbTypeOK, Difference, ParamSets
<1>2. (IF ps = {} THEN r ELSE Modify(r, ps)) \in RemoteType
  BY <1>1, ModifyType
<1>3. CASE /\ ps # {}
           /\ remote' = r /\ stateParams' = os /\ outcome' = "error"
  BY <1>3
<1>4. CASE /\ ps = {} \/ ex
           /\ remote' = IF ps = {} THEN r ELSE Modify(r, ps)
           /\ \/ stateParams' = cfg.params /\ outcome' = "error"
              \/ ReadBack(remote', ex)
  <2>1. remote' \in RemoteType
    BY <1>2, <1>4
  <2>2. UserParams(remote') \in ParamSets
    BY <2>1, UserParamsType
  <2>3. QED
    BY <1>4, <2>1, <2>2 DEF ReadBack, DbTypeOK
<1>5. QED
  BY <1>3, <1>4 DEF UpdateBody

(* Every step keeps the variables in their types.                          *)
LEMMA TypeStep == DbTypeOK /\ [Next]_vars => DbTypeOK'
<1> SUFFICES ASSUME DbTypeOK, [Next]_vars PROVE DbTypeOK'
  OBVIOUS
<1>0. /\ FreshGroup \in RemoteType
      /\ {} \in ParamSets
      /\ remote \in RemoteType
      /\ stateParams \in ParamSets
  BY DEF FreshGroup, RemoteType, ParamSets, DbTypeOK
<1>1. CASE Create
  <2>1. CASE /\ outcome' = "error"
             /\ UNCHANGED <<exists, remote, tracked, stateParams, tainted>>
    BY <1>1, <2>1 DEF Create, DbTypeOK
  <2>2. CASE /\ exists' = TRUE /\ tracked' = TRUE
             /\ UpdateBody({}, FreshGroup, TRUE)
             /\ tainted' = (outcome' = "error")
    BY <1>0, <1>1, <2>2, UpdateBodyType DEF Create, DbTypeOK, RemoteType
  <2>3. CASE /\ exists' = TRUE /\ remote' = FreshGroup /\ outcome' = "error"
             /\ UNCHANGED <<tracked, stateParams, tainted>>
    BY <1>0, <1>1, <2>3 DEF Create, DbTypeOK, RemoteType
  <2>4. QED
    BY <1>1, <2>1, <2>2, <2>3 DEF Create
<1>2. CASE Read
  BY <1>0, <1>2, UserParamsType DEF Read, DbTypeOK
<1>3. CASE Update
  BY <1>0, <1>3, UpdateBodyType DEF Update, DbTypeOK, RemoteType
<1>4. CASE Delete
  BY <1>0, <1>4 DEF Delete, DbTypeOK, RemoteType
<1>5. CASE ModifyOutOfBand
  BY <1>0, <1>5 DEF ModifyOutOfBand, DbTypeOK, RemoteType
<1>6. CASE DeleteOutOfBand
  BY <1>0, <1>6 DEF DeleteOutOfBand, DbTypeOK, RemoteType
<1>7. CASE ChangeConfig
  BY <1>7 DEF ChangeConfig, DbTypeOK
<1>8. CASE UNCHANGED vars
  BY <1>8 DEF vars, DbTypeOK
<1>9. QED
  BY <1>1, <1>2, <1>3, <1>4, <1>5, <1>6, <1>7, <1>8 DEF Next

(* The initial states are well typed.                                     *)
LEMMA InitTypeOK == Init => DbTypeOK
BY DEF Init, DbTypeOK, FreshGroup, ParamSets

(* Type correctness of the parameter group resource.                       *)
THEOREM TypeCorrect == Spec => []DbTypeOK
BY InitTypeOK, TypeStep, PTL DEF Spec

-----------------------------------------------------------------------------
(* Update's body reports success only when the group exists and the state  *)
(* has been read back from the group it leaves.                            *)
LEMMA UpdateBodyOk ==
  ASSUME NEW os, NEW r, NEW ex, UpdateBody(os, r, ex), outcome' = "ok"
  PROVE  ex /\ stateParams' = UserParams(remote')
BY DEF UpdateBody, ReadBack

(* The inductive invariant: typing and the invariant itself.               *)
IInv == DbTypeOK /\ StateMatchesRemote

(* Every step keeps a successful apply's state equal to the group.        *)
LEMMA MatchStep == IInv /\ [Next]_vars => StateMatchesRemote'
<1> SUFFICES ASSUME IInv, [Next]_vars,
                    outcome' = "ok", tracked'
             PROVE  exists' /\ stateParams' = UserParams(remote')
  BY DEF StateMatchesRemote
<1>1. CASE Create
  <2>1. CASE outcome' = "error"
    BY <2>1
  <2>2. CASE exists' = TRUE /\ UpdateBody({}, FreshGroup, TRUE)
    BY <2>2, UpdateBodyOk
  <2>3. QED
    BY <1>1, <2>1, <2>2 DEF Create
<1>2. CASE Update
  BY <1>2, UpdateBodyOk DEF Update
<1>3. CASE Delete
  BY <1>3 DEF Delete
<1>4. CASE Read \/ ModifyOutOfBand \/ DeleteOutOfBand \/ ChangeConfig
  BY <1>4 DEF Read, ModifyOutOfBand, DeleteOutOfBand, ChangeConfig
<1>5. CASE UNCHANGED vars
  BY <1>5 DEF vars, IInv, StateMatchesRemote
<1>6. QED
  BY <1>1, <1>2, <1>3, <1>4, <1>5 DEF Next

(* A successful apply always leaves the state equal to the group's user    *)
(* parameters, for every set of parameters and values.                     *)
THEOREM DriftVisible == Spec => []StateMatchesRemote
<1>1. Init => IInv
  BY InitTypeOK DEF Init, IInv, StateMatchesRemote
<1>2. IInv /\ [Next]_vars => IInv'
  BY TypeStep, MatchStep DEF IInv
<1>3. QED
  BY <1>1, <1>2, PTL DEF Spec, IInv

-----------------------------------------------------------------------------
(* ModifyDBClusterParameterGroup with some parameters ps of a parameter    *)
(* set S gives each parameter of S in ps its value and leaves the others.  *)
LEMMA ModifyApplies ==
  ASSUME NEW S \in ParamSets, NEW ps \in SUBSET S, NEW r, NEW p \in S
  PROVE  Modify(r, ps)[p.name] = IF p \in ps THEN p.value ELSE r[p.name]
<1>1. p.name \in ParamNames
  BY DEF ParamSets, Params
<1>2. CASE p \in ps
  <2>1. (CHOOSE q \in ps : q.name = p.name) = p
    BY <1>2 DEF ParamSets
  <2>2. QED
    BY <1>1, <1>2, <2>1 DEF Modify
<1>3. CASE p \notin ps
  <2>1. ~\E q \in ps : q.name = p.name
    BY <1>3 DEF ParamSets
  <2>2. QED
    BY <1>1, <1>3, <2>1 DEF Modify
<1>4. QED
  BY <1>2, <1>3

(* A parameter of the configuration that Difference leaves out is one the  *)
(* saved set already holds (the set hash is the whole element).            *)
LEMMA DifferenceOmits ==
  ASSUME NEW ns, NEW os, NEW p \in ns \ Difference(ns, os)
  PROVE  p \in os
BY DEF Difference, ParamHash

(* A parameter Describe reports has that value in the group.               *)
LEMMA UserParamsValue ==
  ASSUME NEW r, NEW p \in UserParams(r)
  PROVE  r[p.name] = p.value
BY DEF UserParams

(* Update's body, when it reports success, leaves every configured         *)
(* parameter at its value, provided the parameters it does not send       *)
(* already have theirs in the group it starts from.                        *)
LEMMA UpdateBodyApplies ==
  ASSUME DbTypeOK, NEW os, NEW r, NEW ex, UpdateBody(os, r, ex), outcome' = "ok",
         \A p \in cfg.params \ Difference(cfg.params, os) : r[p.name] = p.value
  PROVE  \A p \in cfg.params : remote'[p.name] = p.value
<1> DEFINE ps == Difference(cfg.params, os)
<1>1. /\ cfg.params \in ParamSets
      /\ ps \in SUBSET cfg.params
  BY DEF DbTypeOK, Difference
<1>2. remote' = IF ps = {} THEN r ELSE Modify(r, ps)
  BY DEF UpdateBody, ReadBack
<1>3. SUFFICES ASSUME NEW p \in cfg.params PROVE remote'[p.name] = p.value
  OBVIOUS
<1>4. CASE p \in ps
  BY <1>1, <1>2, <1>4, ModifyApplies
<1>5. CASE p \notin ps
  <2>1. r[p.name] = p.value
    BY <1>5
  <2>2. QED
    BY <1>1, <1>2, <1>5, <2>1, ModifyApplies
<1>6. QED
  BY <1>4, <1>5

(* Every step that reports success from a state matching RDS has given    *)
(* every configured parameter its value in the group.                      *)
LEMMA AppliedParamsStep ==
  DbTypeOK /\ [Next]_vars =>
    [outcome' = "ok" /\ tracked' /\ stateParams = UserParams(remote) =>
       \A p \in cfg.params : remote'[p.name] = p.value]_vars
<1> SUFFICES ASSUME DbTypeOK, Next, outcome' = "ok", tracked',
                    stateParams = UserParams(remote)
             PROVE  \A p \in cfg.params : remote'[p.name] = p.value
  BY DEF vars
<1>1. CASE Create
  <2>1. UpdateBody({}, FreshGroup, TRUE) /\ cfg' = cfg
    BY <1>1 DEF Create
  <2>2. \A p \in cfg.params \ Difference(cfg.params, {}) : FreshGroup[p.name] = p.value
    BY DEF Difference
  <2>3. QED
    BY <2>1, <2>2, UpdateBodyApplies
<1>2. CASE Update
  <2>1. UpdateBody(stateParams, remote, exists) /\ cfg' = cfg
    BY <1>2 DEF Update
  <2>2. \A p \in cfg.params \ Difference(cfg.params, stateParams) :
          remote[p.name] = p.value
    BY DifferenceOmits, UserParamsValue
  <2>3. QED
    BY <2>1, <2>2, UpdateBodyApplies
<1>3. CASE Delete
  BY <1>3 DEF Delete
<1>4. CASE Read \/ ModifyOutOfBand \/ DeleteOutOfBand \/ ChangeConfig
  BY <1>4 DEF Read, ModifyOutOfBand, DeleteOutOfBand, ChangeConfig
<1>5. QED
  BY <1>1, <1>2, <1>3, <1>4 DEF Next

(***************************************************************************)
(* For every set of parameter names and values, an apply that starts from  *)
(* a state matching RDS and reports success has set every configured       *)
(* parameter in the group.                                                 *)
(***************************************************************************)
THEOREM ParamsApplied == Spec => ConfiguredParamsApplied
<1>1. Spec => [][DbTypeOK /\ [Next]_vars]_vars
  BY TypeCorrect, PTL DEF Spec
<1>2. QED
  BY <1>1, AppliedParamsStep, PTL DEF ConfiguredParamsApplied
=============================================================================
