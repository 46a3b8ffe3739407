----------------------------- MODULE GraphToken -----------------------------
(***************************************************************************)
(* Sign-in, disconnect and the Graph sync around two files: the sign-in's  *)
(* state and the token (services/oauth.py, services/crypto.py,             *)
(* services/sync.py, api/auth.py, integrations/graph.py).  Requests and    *)
(* syncs run in threads of their own; only the sync has a lock, and the    *)
(* files are written in place.                                             *)
(***************************************************************************)
EXTENDS Integers

CONSTANTS
  Threads,
  Accounts,    \* the Microsoft accounts somebody may sign in with
  Target,      \* MICROSOFT_TARGET_USER_ID
  MAX_RETRIES, \* further attempts at a throttled request
  Limit,       \* messages a sync reads at most
  MaxSignIns,  \* bound: sign-ins begun
  Absent, Empty, Garbled, \* no file, an emptied one, one no key opens
  Nothing      \* what a thread holds that holds nothing

ASSUME AccountsAssumption == Target \in Accounts
ASSUME FilesAssumption ==
  /\ Absent # Empty /\ Absent # Garbled /\ Empty # Garbled
  /\ {Absent, Empty, Garbled, Nothing} \cap
       ([signIn : Nat] \cup [signIn : Nat, user : Accounts]) = {}
ASSUME BoundsAssumption   == MAX_RETRIES \in Nat /\ Limit \in Nat /\ MaxSignIns \in Nat

VARIABLES
  content,  \* what each file holds
  handles,  \* the threads that have each file open, as it is now, to write it
  issued,   \* sign-ins begun
  job,      \* what each thread is doing
  pc,       \* and where it stands
  held,     \* the sign-in or the token in its hands
  renewed,  \* refreshes of the running sync
  attempt,  \* attempts at its present request that were throttled
  rows,     \* messages it has read
  word      \* the owner's last word, if nothing was under way when it was spoken

fileVars   == <<content, handles>>
threadVars == <<job, pc, held>>
readVars   == <<renewed, attempt, rows>>
vars       == <<fileVars, issued, threadVars, readVars, word>>

SignIns == 1..MaxSignIns
States  == [signIn : SignIns]
Tokens  == [signIn : SignIns, user : Accounts]

Unreadable   == {Absent, Empty, Garbled}
Disconnected == 0
Unsettled    == -1

AtRest == renewed = 0 /\ attempt = 0 /\ rows = 0
Forget == renewed' = 0 /\ attempt' = 0 /\ rows' = 0

Init ==
  /\ content = [f \in {"state", "token"} |-> Absent] /\ handles = [f \in {"state", "token"} |-> {}]
  /\ issued = 0 /\ job = [t \in Threads |-> "none"] /\ pc = [t \in Threads |-> "idle"]
  /\ held = [t \in Threads |-> Nothing]
  /\ AtRest /\ word = Disconnected

At(t, here)  == pc[t] = here
Go(t, there) == pc' = [pc EXCEPT ![t] = there] /\ UNCHANGED job
Take(t, x)   == held' = [held EXCEPT ![t] = x]
Begin(t, j, there) ==
  /\ job[t] = "none"
  /\ job' = [job EXCEPT ![t] = j] /\ pc' = [pc EXCEPT ![t] = there]

(* A response, or an exception on its way to one: the locals are gone.     *)
End(t) ==
  /\ job' = [job EXCEPT ![t] = "none"] /\ pc' = [pc EXCEPT ![t] = "idle"]
  /\ Take(t, Nothing)
  /\ IF job[t] = "sync" THEN Forget ELSE UNCHANGED readVars

FileOf(t) == IF job[t] = "sign-in" THEN "state" ELSE "token"
Saving(t) == pc[t] \in {"write", "chmod"}

(* Who may still write or remove the token because of what it has seen.    *)
Holds(t) ==
  \/ job[t] = "callback" /\ pc[t] \notin {"verify", "read state"}
  \/ job[t] = "disconnect" /\ pc[t] = "unlink"
  \/ job[t] = "sync" /\ pc[t] \notin {"load", "read"}
Speaks(t, what) == word' = IF \E o \in Threads \ {t} : Holds(o) THEN Unsettled ELSE what
-----------------------------------------------------------------------------
(* EncryptedTokenStore.save: write_bytes opens the file, which empties it, *)
(* and writes it; then chmod, which fails if the file is gone.             *)
Open(t) ==
  /\ At(t, "open") /\ Go(t, "write")
  /\ content' = [content EXCEPT ![FileOf(t)] = Empty]
  /\ handles' = [handles EXCEPT ![FileOf(t)] = @ \cup {t}]
  /\ IF job[t] = "callback" THEN Speaks(t, held[t].signIn) ELSE UNCHANGED word
  /\ UNCHANGED <<issued, held, readVars>>

(* Onto what another thread wrote since, of whatever length, or into a file *)
(* that has been removed.                                                  *)
Write(t) ==
  /\ At(t, "write") /\ Go(t, "chmod")
  /\ IF t \notin handles[FileOf(t)] THEN UNCHANGED content
     ELSE \E mixed \in IF content[FileOf(t)] = Empty THEN {FALSE} ELSE BOOLEAN :
            content' = [content EXCEPT ![FileOf(t)] = IF mixed THEN Garbled ELSE held[t]]
  /\ handles' = [handles EXCEPT ![FileOf(t)] = @ \ {t}]
  /\ UNCHANGED <<issued, held, readVars, word>>

Chmod(t) ==
  /\ At(t, "chmod")
  /\ \/ job[t] = "sync" /\ content["token"] # Absent /\ Go(t, "me") /\ UNCHANGED <<held, readVars>>
     \/ ~(job[t] = "sync" /\ content["token"] # Absent) /\ End(t)
  /\ UNCHANGED <<fileVars, issued, word>>

(* EncryptedTokenStore.clear looks first; a file that is gone by then is an *)
(* error nobody catches.                                                   *)
Remove(f) ==
  /\ content' = [content EXCEPT ![f] = Absent] /\ handles' = [handles EXCEPT ![f] = {}]

(* authorization_url                                                       *)
SignIn(t) ==
  /\ issued < MaxSignIns /\ Begin(t, "sign-in", "open")
  /\ issued' = issued + 1 /\ Take(t, [signIn |-> issued + 1])
  /\ UNCHANGED <<fileVars, readVars, word>>

(* microsoft_callback, for any sign-in the owner was sent to, any number of *)
(* times; verify_state: a signature or an age it refuses is Refuse.        *)
Callback(t) ==
  /\ Begin(t, "callback", "verify")
  /\ \E n \in 1..issued : Take(t, [signIn |-> n])
  /\ UNCHANGED <<fileVars, issued, readVars, word>>

VerifyState(t) ==
  /\ At(t, "verify") /\ content["state"] # Absent /\ Go(t, "read state")
  /\ UNCHANGED <<fileVars, issued, held, readVars, word>>

ReadState(t) ==
  /\ At(t, "read state") /\ content["state"] = held[t] /\ Go(t, "clear")
  /\ UNCHANGED <<fileVars, issued, held, readVars, word>>

ClearState(t) ==
  /\ At(t, "clear") /\ Go(t, IF content["state"] = Absent THEN "exchange" ELSE "unlink state")
  /\ UNCHANGED <<fileVars, issued, held, readVars, word>>

UnlinkState(t) ==
  /\ At(t, "unlink state") /\ content["state"] # Absent
  /\ Remove("state") /\ Go(t, "exchange")
  /\ UNCHANGED <<issued, held, readVars, word>>

MutantExchange(t) ==
  /\ At(t, "exchange") /\ Go(t, "open")
  /\ \E user \in Accounts : Take(t, [signIn |-> held[t].signIn, user |-> user])
  /\ UNCHANGED <<fileVars, issued, readVars, word>>

(* exchange_code, me, and whose token it is.                               *)
Exchange(t) ==
  /\ At(t, "exchange")
  /\ \E user \in Accounts :
       \/ /\ user = Target /\ Take(t, [signIn |-> held[t].signIn, user |-> user]) /\ Go(t, "open")
          /\ UNCHANGED readVars
       \/ user # Target /\ End(t)
  /\ UNCHANGED <<fileVars, issued, word>>

(* disconnect_microsoft                                                    *)
Disconnect(t) ==
  /\ Begin(t, "disconnect", "clear token")
  /\ UNCHANGED <<fileVars, issued, held, readVars, word>>

ClearToken(t) ==
  /\ At(t, "clear token")
  /\ \/ content["token"] = Absent /\ End(t) /\ Speaks(t, Disconnected)
     \/ content["token"] # Absent /\ Go(t, "unlink") /\ UNCHANGED <<held, readVars, word>>
  /\ UNCHANGED <<fileVars, issued>>

MutantUnlinkToken(t) ==
  /\ At(t, "unlink") /\ content["token"] # Absent
  /\ content' = [content EXCEPT !["token"] = Empty] /\ End(t) /\ Speaks(t, Disconnected)
  /\ UNCHANGED <<handles, issued>>

UnlinkToken(t) ==
  /\ At(t, "unlink") /\ content["token"] # Absent
  /\ Remove("token") /\ End(t) /\ Speaks(t, Disconnected)
  /\ UNCHANGED issued
-----------------------------------------------------------------------------
MutantSync(t) ==
  /\ Begin(t, "sync", "load")
  /\ UNCHANGED <<fileVars, issued, held, readVars, word>>

(* sync, with the kind's lock, and _sync_graph.                            *)
Sync(t) ==
  /\ \A o \in Threads : job[o] # "sync"
  /\ Begin(t, "sync", "load")
  /\ UNCHANGED <<fileVars, issued, held, readVars, word>>

LoadToken(t) ==
  /\ At(t, "load") /\ content["token"] # Absent /\ Go(t, "read")
  /\ UNCHANGED <<fileVars, issued, held, readVars, word>>

ReadToken(t) ==
  /\ At(t, "read") /\ content["token"] \notin Unreadable
  /\ Take(t, content["token"])
  /\ \E expiring \in BOOLEAN : Go(t, IF expiring THEN "refresh" ELSE "me")
  /\ UNCHANGED <<fileVars, issued, readVars, word>>

(* _refresh: the new token is the same account's and of the same sign-in.  *)
Refresh(t) ==
  /\ At(t, "refresh") /\ Go(t, "open")
  /\ renewed' = renewed + 1 /\ attempt' = 0 /\ rows' = 0
  /\ UNCHANGED <<fileVars, issued, held, word>>

MutantUnauthorized(t) ==
  /\ At(t, "me") \/ At(t, "inbox")
  /\ Go(t, "refresh")
  /\ UNCHANGED <<fileVars, issued, held, readVars, word>>

(* Graph answers 401: refresh, unless this sync has already.               *)
Unauthorized(t) ==
  /\ At(t, "me") \/ At(t, "inbox")
  /\ \/ renewed = 0 /\ Go(t, "refresh") /\ UNCHANGED <<held, readVars>>
     \/ renewed > 0 /\ End(t)
  /\ UNCHANGED <<fileVars, issued, word>>

(* 429 or 503, the last of which reaches the caller.                       *)
Throttled(t) ==
  /\ At(t, "me") \/ At(t, "inbox")
  /\ \/ /\ attempt < MAX_RETRIES /\ attempt' = attempt + 1
        /\ UNCHANGED <<threadVars, renewed, rows>>
     \/ attempt = MAX_RETRIES /\ End(t)
  /\ UNCHANGED <<fileVars, issued, word>>

Me(t) ==
  /\ At(t, "me")
  /\ \/ /\ held[t].user = Target /\ Go(t, IF Limit > 0 THEN "inbox" ELSE "store")
        /\ attempt' = 0 /\ UNCHANGED <<held, renewed, rows>>
     \/ held[t].user # Target /\ End(t)
  /\ UNCHANGED <<fileVars, issued, word>>

MutantPage(t) ==
  /\ At(t, "inbox") /\ attempt' = 0
  /\ \E messages \in 0..(Limit - rows), more \in BOOLEAN :
       /\ rows' = rows + messages
       /\ Go(t, IF more /\ rows' < Limit THEN "inbox" ELSE "store")
  /\ UNCHANGED <<fileVars, issued, held, renewed, word>>

(* _get_paged: a page with a link to a next one or without.  What is over  *)
(* the limit is cut off; an empty page ends the reading.                   *)
Page(t) ==
  /\ At(t, "inbox") /\ attempt' = 0
  /\ \E messages \in 0..(Limit - rows), more \in BOOLEAN :
       /\ rows' = rows + messages
       /\ Go(t, IF more /\ messages > 0 /\ rows' < Limit THEN "inbox" ELSE "store")
  /\ UNCHANGED <<fileVars, issued, held, renewed, word>>

(* persist_signals and promote_signals                                     *)
Store(t) ==
  /\ At(t, "store") /\ End(t)
  /\ UNCHANGED <<fileVars, issued, word>>

(* Whatever ends in an exception: a state or a token that is missing, not  *)
(* readable or not the one expected, a file gone after it was seen, a      *)
(* request to Microsoft that fails or whose answer is refused, the database. *)
Refuse(t) ==
  /\ \/ At(t, "verify")
     \/ At(t, "read state") /\ content["state"] # held[t]
     \/ At(t, "unlink state") /\ content["state"] = Absent
     \/ At(t, "unlink") /\ content["token"] = Absent
     \/ At(t, "load") /\ content["token"] = Absent
     \/ At(t, "read") /\ content["token"] \in Unreadable
     \/ pc[t] \in {"exchange", "refresh", "me", "inbox", "store"}
  /\ End(t)
  /\ UNCHANGED <<fileVars, issued, word>>

(* The process dies, and with it what is half done.                        *)
Crash ==
  /\ job' = [t \in Threads |-> "none"] /\ pc' = [t \in Threads |-> "idle"]
  /\ held' = [t \in Threads |-> Nothing]
  /\ handles' = [f \in {"state", "token"} |-> {}]
  /\ word' = IF \E t \in Threads : Saving(t) THEN Unsettled ELSE word
  /\ Forget
  /\ UNCHANGED <<content, issued>>

Step(t) ==
  \/ Open(t) \/ Write(t) \/ Chmod(t)
  \/ VerifyState(t) \/ ReadState(t) \/ ClearState(t) \/ UnlinkState(t) \/ Exchange(t)
  \/ ClearToken(t) \/ UnlinkToken(t)
  \/ LoadToken(t) \/ ReadToken(t) \/ Refresh(t)
  \/ Unauthorized(t) \/ Throttled(t) \/ Me(t) \/ Page(t) \/ Store(t)
  \/ Refuse(t)

Next ==
  \/ \E t \in Threads : SignIn(t) \/ Callback(t) \/ Disconnect(t) \/ Sync(t) \/ Step(t)
  \/ Crash

Spec     == Init /\ [][Next]_vars

(* The thread that syncs goes on running.                                  *)
FairSpec == Spec /\ WF_vars(\E t \in Threads : job[t] = "sync" /\ Step(t))
-----------------------------------------------------------------------------
SavePoints     == {"open", "write", "chmod"}
CallbackPoints == {"verify", "read state", "clear", "unlink state", "exchange"}
SyncPoints     == {"load", "read", "refresh", "me", "inbox", "store"}
Points         == {"idle", "clear token", "unlink"} \cup SavePoints \cup CallbackPoints \cup SyncPoints

InPlace(t) ==
  \/ job[t] = "none" /\ pc[t] = "idle" /\ held[t] = Nothing
  \/ job[t] = "sign-in" /\ pc[t] \in SavePoints /\ held[t] \in States
  \/ job[t] = "callback" /\ pc[t] \in CallbackPoints /\ held[t] \in States
  \/ job[t] = "callback" /\ pc[t] \in SavePoints /\ held[t] \in Tokens
  \/ job[t] = "disconnect" /\ pc[t] \in {"clear token", "unlink"} /\ held[t] = Nothing
  \/ job[t] = "sync" /\ pc[t] \in {"load", "read"} /\ held[t] = Nothing
  \/ job[t] = "sync" /\ pc[t] \in (SyncPoints \cup SavePoints) \ {"load", "read"} /\ held[t] \in Tokens

(* A thread holds what its place in its job says, a file what one of them  *)
(* saved, and one sync runs at a time (sync.py: "The kind's lock is held   *)
(* for the whole handler call").                                           *)
TypeOK ==
  /\ content \in [{"state", "token"} -> Unreadable \cup States \cup Tokens]
  /\ content["state"] \notin Tokens /\ content["token"] \notin States
  /\ handles \in [{"state", "token"} -> SUBSET Threads]
  /\ \A f \in {"state", "token"} :
       /\ content[f] = Absent => handles[f] = {}
       /\ \A t \in handles[f] : pc[t] = "write" /\ FileOf(t) = f
  /\ issued \in 0..MaxSignIns
  /\ job \in [Threads -> {"none", "sign-in", "callback", "disconnect", "sync"}]
  /\ pc \in [Threads -> Points] /\ held \in [Threads -> {Nothing} \cup States \cup Tokens]
  /\ \A t \in Threads : InPlace(t)
  /\ renewed \in Nat /\ attempt \in 0..MAX_RETRIES /\ rows \in 0..Limit
  /\ word \in SignIns \cup {Disconnected, Unsettled}
  /\ \A t, o \in Threads : job[t] = "sync" /\ job[o] = "sync" => t = o

(* Whoever signs in, the token in use is the target's (auth.py: "connected *)
(* Microsoft user does not match configured target").                      *)
OnlyTargetConnected ==
  /\ content["token"] \in Tokens => content["token"].user = Target
  /\ \A t \in Threads : held[t] \in Tokens => held[t].user = Target

(* A disconnect or a sign-in during which no other thread was about to     *)
(* write or remove the token is the last word: nothing the program does of *)
(* itself undoes it, a refresh keeps it (docs/architecture.md: "saves the  *)
(* new token encrypted in place of the old one"), and a file that cannot be *)
(* read is on its way to be rewritten.                                     *)
OwnerHasLastWord ==
  /\ word = Disconnected => content["token"] = Absent
  /\ word \in SignIns =>
       \/ content["token"] \in Tokens /\ content["token"].signIn = word
       \/ \E t \in handles["token"] : held[t].signIn = word

(* sync.py: "A token that was refreshed during this sync and is then       *)
(* rejected is not refreshed again".                                       *)
RefreshedOnce == renewed <= 1

(* Whatever Graph answers, and whatever the other threads do to the files, *)
(* a sync ends and its lock is free again (graph.py: "so one sync cannot   *)
(* hang for minutes", "cannot loop the client").                           *)
EverySyncEnds == (\E t \in Threads : job[t] = "sync") ~> (\A t \in Threads : job[t] # "sync")
=============================================================================
