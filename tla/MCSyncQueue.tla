---------------------------- MODULE MCSyncQueue ----------------------------
(* Instances of SyncQueue: two notification mails and one API record for    *)
(* one Jira issue, a second issue known by one door only, and signals that  *)
(* name no issue.                                                          *)
EXTENDS SyncQueue

MCKeys  == {"KEY-1", "KEY-2"}
MCKeyOf == [s \in Sources |-> CASE s \in {"m1", "m2", "j1"} -> "KEY-1"
                                [] s = "m3"                 -> "KEY-2"
                                [] OTHER                    -> NoKey]
=============================================================================
