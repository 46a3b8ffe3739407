----------------------------- MODULE MCJiraSync -----------------------------
(* Instances of JiraSync: their values are in the configuration, where a    *)
(* minute is two units of time.  Every issue is of the project, so that no  *)
(* action and no property tells one from another.                          *)
EXTENDS JiraSync, TLC

IssueSymmetry == Permutations(Issues)
=============================================================================
