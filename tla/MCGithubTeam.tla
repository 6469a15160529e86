---------------------------- MODULE MCGithubTeam ----------------------------
(* Three team ids GitHub may hand out and one non-empty LDAP DN.           *)
EXTENDS GithubTeam, TLC

CONSTANTS t1, t2, t3, none

MCTeamIds == {t1, t2, t3}
Perms == Permutations(MCTeamIds)
=============================================================================
