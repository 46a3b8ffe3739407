---------------------------- MODULE TriageQueue ----------------------------
(***************************************************************************)
(* What the queue promises, whoever writes it: promotion judges sources    *)
(* for good; a judged source that is work joins one entry and never a      *)
(* second one; an entry only gains sources; only the owner changes what    *)
(* became of an entry.  Sessions, locks and issue keys are not visible at  *)
(* this level.                                                             *)
(***************************************************************************)
EXTENDS Integers

CONSTANTS Sources, EntryIds, Status

VARIABLES
  judged,   \* sources promotion has decided about
  member,   \* the sources of each entry, {} while there is no such entry
  status    \* what the owner made of each entry

vars == <<judged, member, status>>

InQueue(e) == member[e] # {}

Init ==
  /\ judged = {}
  /\ member = [e \in EntryIds |-> {}]
  /\ status = [e \in EntryIds |-> "pending"]

(* One commit of a sync or the backfill: verdicts are recorded, entries     *)
(* gain sources, and at most one entry - of one source - is new.            *)
Record ==
  /\ judged \subseteq judged'
  /\ \A e \in EntryIds :
       /\ member[e] \subseteq member'[e]
       /\ (member'[e] \ member[e]) \subseteq judged'
       /\ \A f \in EntryIds \ {e} : member'[e] \cap member'[f] = {}
  /\ \A e, f \in EntryIds :
       ~InQueue(e) /\ ~InQueue(f) /\ member'[e] # {} /\ member'[f] # {} => e = f
  /\ \A e \in EntryIds :
       ~InQueue(e) => \A s, r \in member'[e] : s = r
  /\ UNCHANGED status

Decide(e) ==
  /\ InQueue(e)
  /\ \E new \in Status : status' = [status EXCEPT ![e] = new]
  /\ UNCHANGED <<judged, member>>

Next == Record \/ \E e \in EntryIds : Decide(e)

Spec == Init /\ [][Next]_vars
=============================================================================
