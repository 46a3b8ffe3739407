---------------------------- MODULE MCQueueView ----------------------------
(* Work items and requests are interchangeable.  A load that nothing         *)
(* overlaps gives the view all its state anew, and Init has every queue:     *)
(* so a view that is disturbed need not be followed, unless it is new; one   *)
(* that is loose is followed in one item, through one request at a time.     *)
EXTENDS QueueView

Symmetry == {i @@ s : i \in Permutations(Stored), s \in Permutations(Slots)}

New == items = <<>> /\ selected = NoItem /\ dismissedCount = 0 /\ remoteTotal = 0 /\ ~demo
Followed ==
  IF disturbed
  THEN New /\ others = 0 /\ \A s \in InFlight : req[s].op = "load" /\ req[s].alone
  ELSE loose = {} \/ (Cardinality(loose) = 1 /\ Cardinality(InFlight) <= 1)
=============================================================================
