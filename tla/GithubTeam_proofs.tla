------------------------- MODULE GithubTeam_proofs -------------------------
(***************************************************************************)
(* Proofs about the github_team resource, for every set of team ids and    *)
(* LDAP DNs.                                                               *)
(***************************************************************************)
EXTENDS GithubTeam, TLAPS

(* resourceGithubTeamRead at the end of Create and Update keeps the state  *)
(* in its type, and leaves it tracking only a team that exists.            *)
LEMMA ReadBackType ==
  ASSUME NEW id \in TeamIds, NEW ts, NEW ldap \in [TeamIds -> Ldaps],
         stateLdap \in Ldaps, ReadBack(id, ts, ldap)
  PROVE  /\ stateId' \in TeamIds \cup {NoId}
         /\ stateLdap' \in Ldaps
         /\ outcome' = "ok"
         /\ stateId' # NoId => stateId' = id /\ id \in ts /\ stateLdap' = ldap[id]
BY DEF ReadBack, GetTeamOk

(* Every step keeps the variables in their types.                          *)
LEMMA TypeStep == TeamTypeOK /\ [Next]_vars => TeamTypeOK'
<1> SUFFICES ASSUME TeamTypeOK, [Next]_vars PROVE TeamTypeOK'
  OBVIOUS
<1>1. CASE Create
  <2>1. CASE outcome' = "error" /\ UNCHANGED <<remote, tfState>>
    BY <1>1, <2>1 DEF Create, TeamTypeOK, remote, tfState
  <2>2. ASSUME NEW id \in TeamIds \ used,
               used' = used \cup {id}, teams' = {id},
               IF CreateMapsLdap(cfg.ldap)
                 THEN \/ /\ teamLdap' = [teamLdap EXCEPT ![id] = ""]
                         /\ outcome' = "error"
                         /\ UNCHANGED tfState
                      \/ /\ teamLdap' = [teamLdap EXCEPT ![id] = cfg.ldap]
                         /\ ReadBack(id, teams', teamLdap')
                 ELSE /\ teamLdap' = [teamLdap EXCEPT ![id] = ""]
                      /\ ReadBack(id, teams', teamLdap')
        PROVE  TeamTypeOK'
    <3>1. teamLdap' \in [TeamIds -> Ldaps]
      BY <2>2, GithubTeamAssumption DEF TeamTypeOK
    <3>2. QED
      BY <1>1, <2>2, <3>1, ReadBackType, GithubTeamAssumption
         DEF Create, TeamTypeOK, tfState
  <2>3. QED
    BY <1>1, <2>1, <2>2 DEF Create
<1>2. CASE Read
  BY <1>2 DEF Read, TeamTypeOK, remote
<1>3. CASE Update
  <2>1. teamLdap' \in [TeamIds -> Ldaps] /\ stateLdap' \in Ldaps
        /\ stateId' \in TeamIds \cup {NoId} /\ outcome' \in {"ok", "error"}
    BY <1>3, ReadBackType DEF Update, TeamTypeOK, remote
  <2>2. QED
    BY <1>3, <2>1 DEF Update, TeamTypeOK, remote
<1>4. CASE Delete
  BY <1>4 DEF Delete, TeamTypeOK
<1>5. CASE DeleteOutOfBand \/ ChangeConfig
  BY <1>5 DEF DeleteOutOfBand, ChangeConfig, TeamTypeOK, remote, tfState
<1>6. CASE UNCHANGED vars
  BY <1>6 DEF vars, TeamTypeOK
<1>7. QED
  BY <1>1, <1>2, <1>3, <1>4, <1>5, <1>6 DEF Next

(* The initial states are well typed.                                     *)
LEMMA InitTypeOK == Init => TeamTypeOK
<1> SUFFICES ASSUME Init PROVE TeamTypeOK
  OBVIOUS
<1>1. teamLdap \in [TeamIds -> Ldaps] /\ stateLdap \in Ldaps
  BY GithubTeamAssumption DEF Init
<1>2. stateId \in TeamIds \cup {NoId}
  BY DEF Init
<1>3. QED
  BY <1>1, <1>2 DEF Init, TeamTypeOK

(* Type correctness of the github_team resource.                           *)
THEOREM TypeCorrect == Spec => []TeamTypeOK
BY InitTypeOK, TypeStep, PTL DEF Spec

-----------------------------------------------------------------------------
(* A refreshed state records the LDAP mapping GitHub holds for its team.  *)
FreshInv == fresh /\ stateId # NoId => stateLdap = teamLdap[stateId]

(* The inductive invariant behind AppliedMatchesConfig: the update that    *)
(* finds ldap_dn unchanged relies on the refresh to have read the mapping. *)
IInv == TeamTypeOK /\ FreshInv /\ AppliedMatchesConfig

(* Only a refresh sets fresh, and it reads the mapping GitHub holds.       *)
LEMMA FreshStep == IInv /\ [Next]_vars => FreshInv'
<1> SUFFICES ASSUME IInv, [Next]_vars, fresh', stateId' # NoId
             PROVE  stateLdap' = teamLdap'[stateId']
  BY DEF FreshInv
<1>1. CASE Read
  BY <1>1 DEF Read, remote
<1>2. CASE DeleteOutOfBand
  BY <1>2 DEF DeleteOutOfBand, IInv, FreshInv, tfState
<1>3. CASE ChangeConfig
  BY <1>3 DEF ChangeConfig, IInv, FreshInv, remote, tfState
<1>4. CASE UNCHANGED vars
  BY <1>4 DEF vars, IInv, FreshInv
<1>5. CASE Create \/ Update \/ Delete
  BY <1>5 DEF Create, Update, Delete
<1>6. QED
  BY <1>1, <1>2, <1>3, <1>4, <1>5 DEF Next

(* A successful apply that keeps the team in the state    *)
(* has set the configured mapping on GitHub and in the state.              *)
LEMMA MatchStep == IInv /\ [Next]_vars => AppliedMatchesConfig'
<1> SUFFICES ASSUME IInv, [Next]_vars,
                    outcome' = "ok", stateId' # NoId, cfg'.present
             PROVE  /\ stateId' \in teams'
                    /\ teamLdap'[stateId'] = cfg'.ldap
                    /\ stateLdap' = cfg'.ldap
  BY DEF AppliedMatchesConfig
<1>1. CASE Create
  <2>1. PICK id \in TeamIds \ used :
          /\ teams' = {id}
          /\ IF CreateMapsLdap(cfg.ldap)
               THEN /\ teamLdap' = [teamLdap EXCEPT ![id] = cfg.ldap]
                    /\ ReadBack(id, teams', teamLdap')
               ELSE /\ teamLdap' = [teamLdap EXCEPT ![id] = ""]
                    /\ ReadBack(id, teams', teamLdap')
    BY <1>1 DEF Create
  <2>2. teamLdap' \in [TeamIds -> Ldaps] /\ teamLdap'[id] = cfg.ldap
    BY <2>1, GithubTeamAssumption DEF IInv, TeamTypeOK, CreateMapsLdap
  <2>3. ReadBack(id, teams', teamLdap')
    BY <2>1
  <2>4. stateId' = id /\ id \in teams' /\ stateLdap' = teamLdap'[id]
    BY <2>2, <2>3, ReadBackType DEF IInv, TeamTypeOK
  <2>5. cfg' = cfg
    BY <1>1 DEF Create
  <2>6. QED
    BY <2>2, <2>4, <2>5
<1>2. CASE Update
  <2> DEFINE id == stateId
  <2>1. id \in TeamIds /\ teams \subseteq TeamIds
    BY <1>2 DEF Update, IInv, TeamTypeOK
  <2>2. CASE /\ cfg.ldap # stateLdap
             /\ teamLdap' = [teamLdap EXCEPT ![id] = cfg.ldap]
             /\ UNCHANGED <<teams, used>>
             /\ ReadBack(id, teams, teamLdap')
    <3>1. teamLdap' \in [TeamIds -> Ldaps] /\ teamLdap'[id] = cfg.ldap
      BY <2>1, <2>2 DEF IInv, TeamTypeOK
    <3>2. stateId' = id /\ id \in teams /\ stateLdap' = teamLdap'[id]
      BY <2>1, <2>2, <3>1, ReadBackType DEF IInv, TeamTypeOK
    <3>3. cfg' = cfg /\ teams' = teams
      BY <1>2, <2>2 DEF Update
    <3>4. QED
      BY <3>1, <3>2, <3>3
  <2>3. CASE /\ cfg.ldap = stateLdap
             /\ ReadBack(id, teams, teamLdap)
             /\ UNCHANGED remote
    <3>1. stateLdap = teamLdap[id]
      BY <1>2 DEF Update, Planned, IInv, FreshInv
    <3>2. QED
      BY <1>2, <2>1, <2>3, <3>1, ReadBackType DEF Update, IInv, TeamTypeOK, remote
  <2>4. QED
    BY <1>2, <2>2, <2>3 DEF Update, remote
<1>3. CASE Delete
  BY <1>3 DEF Delete
<1>4. CASE Read \/ DeleteOutOfBand \/ ChangeConfig
  BY <1>4 DEF Read, DeleteOutOfBand, ChangeConfig
<1>5. CASE UNCHANGED vars
  BY <1>5 DEF vars, IInv, AppliedMatchesConfig
<1>6. QED
  BY <1>1, <1>2, <1>3, <1>4, <1>5 DEF Next

(* With refresh before every apply, for every set of team ids and DNs, a   *)
(* successful apply of github_team that keeps the team in the state has    *)
(* set the configured LDAP mapping, whatever API calls failed before.      *)
THEOREM RefreshedApplyMatches == Spec => []AppliedMatchesConfig
<1>1. Init => IInv
  BY InitTypeOK DEF Init, IInv, FreshInv, AppliedMatchesConfig
<1>2. IInv /\ [Next]_vars => IInv'
  BY TypeStep, FreshStep, MatchStep DEF IInv
<1>3. QED
  BY <1>1, <1>2, PTL DEF Spec, IInv

=============================================================================
