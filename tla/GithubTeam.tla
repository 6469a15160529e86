----------------------------- MODULE GithubTeam -----------------------------
(***************************************************************************)
(* The github_team resource (builtin/providers/github/resource_github_team *)
(* .go) against the GitHub API.  GitHub holds the teams of an organization *)
(* (team names are unique, so at most one team of the configured name      *)
(* exists); Terraform's state records the id of the team it manages and    *)
(* the LDAP DN it last read.  Each CRUD function runs to completion as one *)
(* step; every API call in it may fail, and the step takes the branch the  *)
(* code takes on that failure.  The plugin framework's choice of function  *)
(* (create when the state has no id, update when it has one and the        *)
(* configuration is present, delete when the configuration is gone,        *)
(* refresh before planning) is the guard of each action.  The team's name, *)
(* description and privacy are abstracted away: only the LDAP DN, which    *)
(* Create and Update set through a second API call, is kept.               *)
(***************************************************************************)
EXTENDS FiniteSets

CONSTANTS
  TeamIds,   \* the ids GitHub may hand out to new teams
  Ldaps,     \* values of ldap_dn, including ""
  NoId       \* the empty id of a resource Terraform does not track

ASSUME GithubTeamAssumption ==
  /\ NoId \notin TeamIds
  /\ "" \in Ldaps

VARIABLES
  teams,      \* the ids of the teams that exist on GitHub
  teamLdap,   \* teamLdap[t]: the LDAP mapping GitHub holds for team t
  used,       \* the ids GitHub has handed out (never reused)
  stateId,    \* d.Id() as saved in Terraform's state
  stateLdap,  \* ldap_dn as saved in Terraform's state
  cfg,        \* the configuration: whether the resource is declared, its ldap_dn
  outcome,    \* "ok" or "error": the result of the last apply step; "none" otherwise
  fresh       \* the state was refreshed since the last apply step

vars == <<teams, teamLdap, used, stateId, stateLdap, cfg, outcome, fresh>>
remote == <<teams, teamLdap, used>>
tfState == <<stateId, stateLdap>>

(* An apply of a tracked resource starts from a refreshed state: the      *)
(* framework refreshes before it plans (-refresh=false is not modelled).   *)
Planned == fresh

(* getGithubTeam: GetTeam succeeds only for a team that exists, and may    *)
(* fail for any (a transient error is an error like a 404).                *)
GetTeamOk(id, ts) == IF id \in ts THEN BOOLEAN ELSE {FALSE}

(* Mutant: the DN is read through the pointer, nil when GitHub has none.    *)
ReadBackNilDn(id, teamsNow, ldapNow) ==
  /\ outcome' = "ok"
  /\ \/ /\ TRUE \in GetTeamOk(id, teamsNow)
        /\ stateId' = id
        /\ stateLdap' = IF ldapNow[id] = "" THEN "nil" ELSE ldapNow[id]
     \/ /\ stateId' = NoId
        /\ UNCHANGED stateLdap

(***************************************************************************)
(* resourceGithubTeamRead, called at the end of Create and Update with     *)
(* GitHub's teams teamsNow and mappings ldapNow: on a GetTeam error it sets the id to "" and   *)
(* returns nil; otherwise it stores what GitHub holds.                     *)
(***************************************************************************)
ReadBack(id, teamsNow, ldapNow) ==
  /\ outcome' = "ok"
  /\ \/ /\ TRUE \in GetTeamOk(id, teamsNow)
        /\ stateId' = id
        /\ stateLdap' = ldapNow[id]
     \/ /\ stateId' = NoId
        /\ UNCHANGED stateLdap

(* Mutant: Create never asks for the LDAP mapping.                         *)
CreateMapsLdapNever(l) == FALSE

(* Create asks for the LDAP mapping only for a non-empty ldap_dn.          *)
CreateMapsLdap(l) == l # ""

(***************************************************************************)
(* resourceGithubTeamCreate: CreateTeam (which fails when the name is      *)
(* taken), then UpdateTeamLDAPMapping when ldap_dn is set, and only then   *)
(* SetId and Read.  An error of the mapping call returns before SetId.     *)
(***************************************************************************)
Create ==
  /\ cfg.present /\ stateId = NoId
  /\ \/ /\ outcome' = "error"
        /\ UNCHANGED <<remote, tfState>>
     \/ /\ teams = {}
        /\ \E id \in TeamIds \ used :
             /\ used' = used \cup {id}
             /\ teams' = {id}
             /\ IF CreateMapsLdap(cfg.ldap)
                  THEN \/ /\ teamLdap' = [teamLdap EXCEPT ![id] = ""]
                          /\ outcome' = "error"
                          /\ UNCHANGED tfState
                       \/ /\ teamLdap' = [teamLdap EXCEPT ![id] = cfg.ldap]
                          /\ ReadBack(id, teams', teamLdap')
                  ELSE /\ teamLdap' = [teamLdap EXCEPT ![id] = ""]
                       /\ ReadBack(id, teams', teamLdap')
  /\ fresh' = FALSE
  /\ UNCHANGED cfg

(***************************************************************************)
(* resourceGithubTeamRead during refresh: a GetTeam error, whether the    *)
(* team is gone or the call failed, drops the resource from the state.     *)
(***************************************************************************)
Read ==
  /\ stateId # NoId
  /\ \/ /\ TRUE \in GetTeamOk(stateId, teams)
        /\ stateLdap' = teamLdap[stateId]
        /\ UNCHANGED stateId
     \/ /\ stateId' = NoId
        /\ UNCHANGED stateLdap
  /\ outcome' = "none"
  /\ fresh' = TRUE
  /\ UNCHANGED <<remote, cfg>>

(***************************************************************************)
(* resourceGithubTeamUpdate: GetTeam (an error drops the resource and      *)
(* returns nil), EditTeam, UpdateTeamLDAPMapping when ldap_dn changed,     *)
(* then Read.  When it returns an error the framework saves the planned    *)
(* values, so the state records the configured ldap_dn.                    *)
(***************************************************************************)
Update ==
  LET id == stateId IN
  /\ cfg.present /\ id # NoId /\ Planned
  /\ \/ /\ stateId' = NoId
        /\ outcome' = "ok"
        /\ UNCHANGED <<remote, stateLdap>>
     \/ /\ TRUE \in GetTeamOk(id, teams)
        /\ \/ /\ outcome' = "error"
              /\ stateLdap' = cfg.ldap
              /\ UNCHANGED <<remote, stateId>>
           \/ IF cfg.ldap # stateLdap
                THEN \/ /\ outcome' = "error"
                        /\ stateLdap' = cfg.ldap
                        /\ UNCHANGED <<remote, stateId>>
                     \/ /\ teamLdap' = [teamLdap EXCEPT ![id] = cfg.ldap]
                        /\ UNCHANGED <<teams, used>>
                        /\ ReadBack(id, teams, teamLdap')
                ELSE /\ ReadBack(id, teams, teamLdap)
                     /\ UNCHANGED remote
  /\ fresh' = FALSE
  /\ UNCHANGED cfg

(* resourceGithubTeamDelete: DeleteTeam; the framework clears the id when  *)
(* it returns no error.  Deleting a team that is gone is an error (404).   *)
Delete ==
  /\ ~cfg.present /\ stateId # NoId /\ Planned
  /\ \/ /\ stateId \in teams
        /\ teams' = teams \ {stateId}
        /\ stateId' = NoId
        /\ outcome' = "ok"
     \/ /\ outcome' = "error"
        /\ UNCHANGED <<teams, stateId>>
  /\ fresh' = FALSE
  /\ UNCHANGED <<teamLdap, used, stateLdap, cfg>>

(* Someone deletes the team outside Terraform.                             *)
DeleteOutOfBand ==
  /\ \E t \in teams : teams' = teams \ {t}
  /\ outcome' = "none"
  /\ UNCHANGED <<teamLdap, used, tfState, cfg, fresh>>

(* The user edits the configuration.                                       *)
ChangeConfig ==
  /\ \E p \in BOOLEAN, l \in Ldaps : cfg' = [present |-> p, ldap |-> l]
  /\ outcome' = "none"
  /\ UNCHANGED <<remote, tfState, fresh>>

Init ==
  /\ teams = {} /\ used = {}
  /\ teamLdap = [t \in TeamIds |-> ""]
  /\ stateId = NoId /\ stateLdap = ""
  /\ cfg \in [present : BOOLEAN, ldap : Ldaps]
  /\ outcome = "none"
  /\ fresh = FALSE

Next == Create \/ Read \/ Update \/ Delete \/ DeleteOutOfBand \/ ChangeConfig

Spec == Init /\ [][Next]_vars

-----------------------------------------------------------------------------
(* Every variable holds a value of its type.                               *)
TeamTypeOK ==
  /\ teams \subseteq used /\ used \subseteq TeamIds
  /\ teamLdap \in [TeamIds -> Ldaps]
  /\ stateId \in TeamIds \cup {NoId} /\ stateLdap \in Ldaps
  /\ cfg \in [present : BOOLEAN, ldap : Ldaps]
  /\ outcome \in {"none", "ok", "error"}
  /\ fresh \in BOOLEAN

(***************************************************************************)
(* An apply that reports success and leaves the team in the state has     *)
(* brought GitHub's LDAP mapping, and the state's record of it, to the     *)
(* configured value, whether it created or updated the team.               *)
(***************************************************************************)
AppliedMatchesConfig ==
  outcome = "ok" /\ stateId # NoId /\ cfg.present =>
    /\ stateId \in teams
    /\ teamLdap[stateId] = cfg.ldap
    /\ stateLdap = cfg.ldap

(***************************************************************************)
(* No orphaned team: every team on GitHub (all of them created by this     *)
(* resource) is the one Terraform's state tracks, so Terraform can still   *)
(* update or destroy it, and a later Create does not fail on its name.     *)
(***************************************************************************)
NoOrphanTeams == teams \subseteq {stateId}

=============================================================================
