---------------------------- MODULE RemoteTracker ----------------------------
(***************************************************************************)
(* What a polling sync cannot see from inside: time, the clock it reads it *)
(* from, and a remote tracker whose search index lags behind its issues.   *)
(* The program only shows how it uses them (services/jira_sync.py,         *)
(* integrations/jira.py).                                                  *)
(***************************************************************************)
EXTENDS Integers

CONSTANTS
  Issues,     \* the issues the owner participates in
  MaxTime,    \* bound: the time at which the model stops
  MaxLag,     \* how long an update may stay out of the search index
  MaxSkew     \* how far apart two readings of the local clock may be wrong

ASSUME RemoteAssumption == MaxTime \in Nat \ {0} /\ MaxLag \in Nat /\ MaxSkew \in Nat

VARIABLES
  now,        \* the tracker's clock
  skew,       \* what the local clock is ahead of it
  updated,    \* the time of each issue's last update, 0 for none yet
  searchable  \* the time of the last one its search index knows

remoteVars == <<now, skew, updated, searchable>>

Time  == 0..MaxTime
Local == now + skew

RemoteInit ==
  /\ now = 1 /\ skew \in 0..MaxSkew
  /\ updated = [i \in Issues |-> 0] /\ searchable = [i \in Issues |-> 0]

(* Time passes; an update does not stay out of the index longer than MaxLag. *)
Tick ==
  /\ now < MaxTime
  /\ \A i \in Issues : searchable[i] = updated[i] \/ now - updated[i] < MaxLag
  /\ now' = now + 1
  /\ UNCHANGED <<skew, updated, searchable>>

StepClock == skew' \in 0..MaxSkew /\ UNCHANGED <<now, updated, searchable>>

Update(i) == updated' = [updated EXCEPT ![i] = now] /\ UNCHANGED <<now, skew, searchable>>

Index(i) ==
  /\ searchable[i] # updated[i]
  /\ searchable' = [searchable EXCEPT ![i] = updated[i]]
  /\ UNCHANGED <<now, skew, updated>>

RemoteTypeOK ==
  /\ now \in Time /\ now > 0 /\ skew \in 0..MaxSkew
  /\ updated \in [Issues -> Time] /\ searchable \in [Issues -> Time]
  /\ \A i \in Issues :
       /\ searchable[i] <= updated[i] /\ updated[i] <= now
       /\ searchable[i] = updated[i] \/ now - updated[i] <= MaxLag
=============================================================================
