---------------------------- MODULE MCSyncSerial ----------------------------
(* One session at a time.  A history variable holds the items whose link to *)
(* their issue was still pending in a session that was cut short            *)
(* (promotion.py: promote_signals, link_issue after create_work_item): that *)
(* link is gone for good, and nothing but such an item may lack its own.    *)
EXTENDS MCSyncQueue

VARIABLE lost

HistoryInit == Init /\ lost = {}
HistoryNext ==
  /\ Next
  /\ lost' = lost \cup {l.item : l \in UNION {pLinks[t] : t \in {u \in Sessions : Abort(u)}}}
HistorySpec == HistoryInit /\ [][HistoryNext]_<<vars, lost>>
-----------------------------------------------------------------------------
(* "One Jira issue, one work item, whichever door it arrives through"       *)
(* (jira_dedupe.py), whatever failed before: the items that lost their link *)
(* apart, an issue has one item, those of every later arrival included.     *)
OneIssueOneItemUnlessLost == \A k \in Keys : Cardinality(AboutIssue(k) \ lost) <= 1

(* Between two sessions every item of an issue can be found by its key      *)
(* (promotion.py: promote_signals): a session cut short takes one item's    *)
(* link with it, and no other's.                                           *)
EveryItemLinkedUnlessLost ==
  (\A t \in Sessions : pc[t] = "idle") =>
    \A k \in Keys : \A i \in AboutIssue(k) \ lost : linkOf[k] = i
=============================================================================
