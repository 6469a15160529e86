---------------------------- MODULE DbParamGroup ----------------------------
(***************************************************************************)
(* The aws_db_cluster_parameter_group resource (builtin/providers/aws/     *)
(* resource_aws_db_cluster_parameter_group.go) against RDS.  RDS holds at  *)
(* most one group of the configured name and, in it, a value for each      *)
(* parameter the user has modified (the others keep the family's default); *)
(* Terraform's state records whether it tracks the group, the parameter    *)
(* set it last saved and whether the resource is tainted.  Each CRUD       *)
(* function runs to completion as one step; every API call in it may fail, *)
(* and the step takes the branch the code takes on that failure.  The      *)
(* framework's choice of function is the guard of each action, and what it *)
(* saves when a function returns an error follows d.Partial/SetPartial.    *)
(* The name, family and description are fixed (ForceNew); tags and the    *)
(* ARN are kept only as calls that may fail.                               *)
(***************************************************************************)
EXTENDS FiniteSets

CONSTANTS
  ParamNames,  \* names of the parameters the configuration may set
  Values,      \* values a parameter may be given
  Default      \* the value of a parameter the user never modified

ASSUME DbParamGroupAssumption == Default \notin Values

VARIABLES
  exists,       \* RDS holds the group
  remote,       \* remote[n]: the value of parameter n in the group
  tracked,      \* d.Id() is set in Terraform's state
  stateParams,  \* the "parameter" set saved in the state
  tainted,      \* the state marks the resource for replacement
  cfg,          \* the configuration: whether the resource is declared, its parameters
  outcome,      \* the result of the last step: "ok", "error", "refresh_error" or "none"
  fresh         \* the state was refreshed since the last apply step

vars == <<exists, remote, tracked, stateParams, tainted, cfg, outcome, fresh>>

(* The elements of the "parameter" set: a name and a value.                *)
Params == [name : ParamNames, value : Values]

(* Parameter sets the configuration can hold: at most one value per name.  *)
ParamSets == {S \in SUBSET Params : \A p, q \in S : p.name = q.name => p = q}

(* A group RDS has just created: every parameter at its default.           *)
FreshGroup == [n \in ParamNames |-> Default]

(* Mutant: the parameters are described without Source "user", so the     *)
(* defaults come back too.                                                 *)
UserParamsAllSources(r) == {[name |-> n, value |-> r[n]] : n \in ParamNames}

(***************************************************************************)
(* DescribeDBClusterParameters with Source "user", flattened: the           *)
(* parameters the user has modified, with their values.                    *)
(***************************************************************************)
UserParams(r) ==
  {[name |-> n, value |-> r[n]] : n \in {m \in ParamNames : r[m] # Default}}

(* Mutant: the set hash keys a parameter by its name only.                 *)
ParamHashNameOnly(p) == p.name

(* resourceAwsDbClusterParameterHash: a parameter is keyed by its name and *)
(* (lower-cased) value, so a changed value is a different element.         *)
ParamHash(p) == p

(* ns.Difference(os) on schema sets: the elements of ns whose hash is not  *)
(* the hash of an element of os.                                           *)
Difference(ns, os) ==
  {p \in ns : ParamHash(p) \notin {ParamHash(q) : q \in os}}

(* ModifyDBClusterParameterGroup sets each parameter it is given.          *)
Modify(r, ps) ==
  [n \in ParamNames |-> IF \E p \in ps : p.name = n
                          THEN (CHOOSE p \in ps : p.name = n).value
                          ELSE r[n]]

(* Mutant: Update ends without reading the group back.                     *)
ReadBackPlanned(r, ex) ==
  /\ stateParams' = cfg.params
  /\ outcome' = "ok"

(***************************************************************************)
(* resourceAwsDbClusterParameterGroupRead at the end of Update, with the   *)
(* group's parameters r (ex: the group exists): a failing Describe call    *)
(* returns its error, and the framework saves the planned values;          *)
(* otherwise the state gets what RDS holds.  Building the ARN and listing  *)
(* tags may fail without error.                                            *)
(***************************************************************************)
ReadBack(r, ex) ==
  \/ /\ ex
     /\ stateParams' = UserParams(r)
     /\ outcome' = "ok"
  \/ /\ stateParams' = cfg.params
     /\ outcome' = "error"

(***************************************************************************)
(* resourceAwsDbClusterParameterGroupUpdate from the saved parameters os   *)
(* and the group's parameters r (ex: the group exists; every call on a    *)
(* group that is gone fails).  Only the parameters of the new set that  *)
(* are not in the old one are sent to ModifyDBClusterParameterGroup; when  *)
(* that call fails, d.Partial(true) keeps os in the state.  Once           *)
(* "parameter" is SetPartial, a failure of setTagsRDS saves the new set.   *)
(***************************************************************************)
UpdateBody(os, r, ex) ==
  LET ps == Difference(cfg.params, os) IN
  \/ /\ ps # {}
     /\ remote' = r
     /\ stateParams' = os
     /\ outcome' = "error"
  \/ /\ ps = {} \/ ex
     /\ remote' = IF ps = {} THEN r ELSE Modify(r, ps)
     /\ \/ /\ stateParams' = cfg.params
           /\ outcome' = "error"
        \/ ReadBack(remote', ex)

(***************************************************************************)
(* resourceAwsDbClusterParameterGroupCreate: CreateDBClusterParameterGroup *)
(* (which fails when the name is taken), SetId, then Update with nothing   *)
(* saved for "parameter" yet.  The create call may fail without effect, or *)
(* create the group and still return an error (a reply lost, a timeout):  *)
(* Create then returns before SetId.  When Update fails the framework      *)
(* keeps the id and taints the resource.                                   *)
(***************************************************************************)
Create ==
  /\ cfg.present /\ ~tracked /\ ~tainted
  /\ \/ /\ outcome' = "error"
        /\ UNCHANGED <<exists, remote, tracked, stateParams, tainted>>
     \/ /\ ~exists
        /\ exists' = TRUE
        /\ remote' = FreshGroup
        /\ outcome' = "error"
        /\ UNCHANGED <<tracked, stateParams, tainted>>
     \/ /\ ~exists
        /\ exists' = TRUE
        /\ tracked' = TRUE
        /\ UpdateBody({}, FreshGroup, TRUE)
        /\ tainted' = (outcome' = "error")
  /\ fresh' = FALSE
  /\ UNCHANGED cfg

(***************************************************************************)
(* resourceAwsDbClusterParameterGroupRead during refresh: Describe fails   *)
(* for a group that is gone as for any other error, and the refresh fails; *)
(* otherwise the state gets the group's user parameters.                   *)
(***************************************************************************)
Read ==
  /\ tracked
  /\ \/ /\ exists
        /\ stateParams' = UserParams(remote)
        /\ outcome' = "none"
        /\ fresh' = TRUE
     \/ /\ outcome' = "refresh_error"
        /\ fresh' = FALSE
        /\ UNCHANGED stateParams
  /\ UNCHANGED <<exists, remote, tracked, tainted, cfg>>

(* Update, called when the saved parameters differ from the configured.    *)
Update ==
  /\ cfg.present /\ tracked /\ ~tainted /\ fresh
  /\ stateParams # cfg.params
  /\ UpdateBody(stateParams, remote, exists)
  /\ fresh' = FALSE
  /\ UNCHANGED <<exists, tracked, tainted, cfg>>

(***************************************************************************)
(* resourceAwsDbClusterParameterGroupDelete, for a group no longer         *)
(* declared or tainted: one DeleteDBClusterParameterGroup call, whose      *)
(* not-found fault counts as deleted; any other error (a group still in    *)
(* use, a throttled call) ends WaitForState with that error at once.       *)
(***************************************************************************)
Delete ==
  /\ tracked /\ (~cfg.present \/ tainted) /\ fresh
  /\ \/ /\ exists' = FALSE
        /\ remote' = FreshGroup
        /\ tracked' = FALSE
        /\ tainted' = FALSE
        /\ stateParams' = {}
        /\ outcome' = "ok"
     \/ /\ outcome' = "error"
        /\ UNCHANGED <<exists, remote, tracked, tainted, stateParams>>
  /\ fresh' = FALSE
  /\ UNCHANGED cfg

(* Someone modifies or resets a parameter of the group outside Terraform.  *)
ModifyOutOfBand ==
  /\ exists
  /\ \E n \in ParamNames, v \in Values \cup {Default} :
       remote' = [remote EXCEPT ![n] = v]
  /\ outcome' = "none"
  /\ UNCHANGED <<exists, tracked, stateParams, tainted, cfg, fresh>>

(* Someone deletes the group outside Terraform.                            *)
DeleteOutOfBand ==
  /\ exists
  /\ exists' = FALSE
  /\ remote' = FreshGroup
  /\ outcome' = "none"
  /\ UNCHANGED <<tracked, stateParams, tainted, cfg, fresh>>

(* The user edits the configuration.                                       *)
ChangeConfig ==
  /\ \E p \in BOOLEAN, ps \in ParamSets : cfg' = [present |-> p, params |-> ps]
  /\ outcome' = "none"
  /\ UNCHANGED <<exists, remote, tracked, stateParams, tainted, fresh>>

Init ==
  /\ exists = FALSE
  /\ remote = FreshGroup
  /\ tracked = FALSE
  /\ stateParams = {}
  /\ tainted = FALSE
  /\ cfg \in [present : BOOLEAN, params : ParamSets]
  /\ outcome = "none"
  /\ fresh = FALSE

Next ==
  \/ Create \/ Read \/ Update \/ Delete
  \/ ModifyOutOfBand \/ DeleteOutOfBand \/ ChangeConfig

Spec == Init /\ [][Next]_vars

-----------------------------------------------------------------------------
(* Every variable holds a value of its type.                               *)
DbTypeOK ==
  /\ exists \in BOOLEAN
  /\ remote \in [ParamNames -> Values \cup {Default}]
  /\ tracked \in BOOLEAN /\ tainted \in BOOLEAN
  /\ stateParams \in ParamSets
  /\ cfg \in [present : BOOLEAN, params : ParamSets]
  /\ outcome \in {"none", "ok", "error", "refresh_error"}
  /\ fresh \in BOOLEAN

(***************************************************************************)
(* Drift stays visible: an apply that reports success leaves in the state  *)
(* exactly the user parameters the group has, so the next plan compares    *)
(* the configuration with what RDS really holds, whatever failed before.   *)
(***************************************************************************)
StateMatchesRemote ==
  outcome = "ok" /\ tracked => exists /\ stateParams = UserParams(remote)

(***************************************************************************)
(* An apply that starts from a state matching RDS and reports success has  *)
(* given every configured parameter its configured value in RDS, whether   *)
(* it created the group or changed parameter values.                       *)
(***************************************************************************)
ConfiguredParamsApplied ==
  [][outcome' = "ok" /\ tracked' /\ stateParams = UserParams(remote) =>
       \A p \in cfg.params : remote'[p.name] = p.value]_vars

(***************************************************************************)
(* An apply converges: after an apply that reports success the state's     *)
(* parameters are the configured ones, so the next plan is empty.          *)
(***************************************************************************)
AppliedConverges ==
  outcome = "ok" /\ tracked /\ cfg.present => stateParams = cfg.params

(***************************************************************************)
(* A refresh does not fail because the group is gone: a group deleted      *)
(* outside Terraform is dropped from the state so the next apply can       *)
(* create it again.                                                        *)
(***************************************************************************)
RefreshForgetsMissing == outcome = "refresh_error" => exists

=============================================================================
