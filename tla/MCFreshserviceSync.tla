------------------------- MODULE MCFreshserviceSync -------------------------
(* An instance of FreshserviceSync: a day of two units of time, an account  *)
(* half a day behind UTC, and more tickets than a search has pages; one of  *)
(* them changes again later.                                               *)
EXTENDS FreshserviceSync

MCZone == -1
MCBusy == [i \in Issues |-> IF i = 1 THEN {1, 5} ELSE {1}]
=============================================================================
