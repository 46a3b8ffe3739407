-------------------------- MODULE GraphTokenProofs --------------------------
(***************************************************************************)
(* For any threads, accounts, retries and page limit: whose token is       *)
(* connected, how often one sync refreshes it, and when a disconnect or a  *)
(* sign-in is final.                                                       *)
(***************************************************************************)
EXTENDS GraphToken, TLAPS

USE BoundsAssumption

(* A state, a token and what a file may hold otherwise are told apart.     *)
LEMMA Kinds ==
  /\ \A x \in States : x \notin Tokens
  /\ \A x \in Tokens : x \notin States /\ x.signIn \in SignIns /\ x.user \in Accounts
  /\ \A x \in States \cup Tokens : x \notin Unreadable \cup {Nothing}
<1>1. \A x \in States : x \notin Tokens
  BY DEF States, Tokens
<1>2. \A x \in Tokens : x \notin States /\ x.signIn \in SignIns /\ x.user \in Accounts
  BY DEF States, Tokens
<1>3. SignIns \subseteq Nat
  BY DEF SignIns
<1>4. States \subseteq [signIn : Nat] /\ Tokens \subseteq [signIn : Nat, user : Accounts]
  BY <1>3 DEF States, Tokens
<1>5. \A x \in States \cup Tokens : x \notin Unreadable \cup {Nothing}
  BY <1>4, FilesAssumption DEF Unreadable
<1> QED  BY <1>1, <1>2, <1>5

(* The parts of TypeOK.                                                    *)
Jobs   == {"none", "sign-in", "callback", "disconnect", "sync"}
Typed  ==
  /\ job \in [Threads -> Jobs] /\ pc \in [Threads -> Points]
  /\ held \in [Threads -> {Nothing} \cup States \cup Tokens]
Placed == \A t \in Threads : InPlace(t)
OneSync == \A t, o \in Threads : job[t] = "sync" /\ job[o] = "sync" => t = o
Contents ==
  /\ content \in [{"state", "token"} -> Unreadable \cup States \cup Tokens]
  /\ content["state"] \notin Tokens /\ content["token"] \notin States
Handles ==
  /\ handles \in [{"state", "token"} -> SUBSET Threads]
  /\ \A f \in {"state", "token"} :
       /\ content[f] = Absent => handles[f] = {}
       /\ \A t \in handles[f] : pc[t] = "write" /\ FileOf(t) = f
Counters ==
  /\ issued \in 0..MaxSignIns
  /\ renewed \in Nat /\ attempt \in 0..MAX_RETRIES /\ rows \in 0..Limit
  /\ word \in SignIns \cup {Disconnected, Unsettled}

(* TypeOK in parts, so that each step proves the ones it disturbs.         *)
LEMMA Parts == TypeOK <=> Typed /\ Placed /\ OneSync /\ Contents /\ Handles /\ Counters
BY DEF TypeOK, Typed, Placed, OneSync, Contents, Handles, Counters, Jobs

(* A step of t leaves the other threads where they are.                    *)
Others(t) ==
  \A o \in Threads \ {t} : job'[o] = job[o] /\ pc'[o] = pc[o] /\ held'[o] = held[o]

(* Where a step leaves the thread that makes it: in place, in its job or in none. *)
Lands(t) == Typed' /\ Others(t) /\ InPlace(t)' /\ job'[t] \in {job[t], "none"}

(* The other threads stay in place.                                        *)
LEMMA Elsewhere ==
  ASSUME NEW t \in Threads, Typed, Placed, Others(t), InPlace(t)'
  PROVE  Placed'
<1> SUFFICES ASSUME NEW o \in Threads, o # t
             PROVE  InPlace(o)'
  BY DEF Placed
<1>1. InPlace(o)
  BY DEF Placed
<1> QED  BY <1>1 DEF Others, InPlace

(* A step that leaves the files alone, of a thread that is not writing.    *)
LEMMA SameFiles ==
  ASSUME NEW t \in Threads, Typed, Others(t), Contents, Handles,
         pc[t] # "write", UNCHANGED fileVars
  PROVE  Contents' /\ Handles'
<1>1. UNCHANGED content /\ UNCHANGED handles
  BY DEF fileVars
<1>2. \A f \in {"state", "token"} : \A o \in handles[f] : o \in Threads /\ o # t
  BY DEF Handles
<1> QED  BY <1>1, <1>2 DEF Contents, Handles, Others, FileOf
-----------------------------------------------------------------------------
(* The places a thread goes to.                                            *)
LEMMA Named ==
  /\ "idle" \in Points /\ "open" \in Points /\ "write" \in Points /\ "chmod" \in Points
  /\ "verify" \in Points /\ "read state" \in Points /\ "clear" \in Points
  /\ "unlink state" \in Points /\ "exchange" \in Points
  /\ "clear token" \in Points /\ "unlink" \in Points
  /\ "load" \in Points /\ "read" \in Points /\ "refresh" \in Points
  /\ "me" \in Points /\ "inbox" \in Points /\ "store" \in Points
BY DEF Points, SavePoints, CallbackPoints, SyncPoints

(* What going on, taking something and ending change.                      *)
LEMMA Goes ==
  ASSUME Typed, NEW t \in Threads, NEW there \in Points, Go(t, there), UNCHANGED held
  PROVE  Typed' /\ Others(t) /\ job'[t] = job[t] /\ pc'[t] = there /\ held'[t] = held[t]
BY DEF Typed, Others, Go

LEMMA GoesTaking ==
  ASSUME Typed, NEW t \in Threads, NEW there \in Points, Go(t, there),
         NEW x \in {Nothing} \cup States \cup Tokens, Take(t, x)
  PROVE  Typed' /\ Others(t) /\ job'[t] = job[t] /\ pc'[t] = there /\ held'[t] = x
BY DEF Typed, Others, Go, Take

LEMMA Ends ==
  ASSUME Typed, NEW t \in Threads, End(t)
  PROVE  /\ Lands(t)
         /\ job'[t] = "none" /\ pc'[t] = "idle" /\ held'[t] = Nothing
<1>1. /\ job' = [job EXCEPT ![t] = "none"] /\ pc' = [pc EXCEPT ![t] = "idle"]
      /\ held' = [held EXCEPT ![t] = Nothing]
  BY DEF End, Take
<1>2. Typed'
  BY <1>1, Named DEF Typed, Jobs
<1>3. Others(t) /\ job'[t] = "none" /\ pc'[t] = "idle" /\ held'[t] = Nothing
  BY <1>1 DEF Typed, Others
<1> QED  BY <1>2, <1>3 DEF InPlace, Lands

(* Where each step takes the thread that makes it.                         *)
LEMMA StepPlaces ==
  ASSUME Typed, Placed, Contents, NEW t \in Threads, Step(t)
  PROVE  Lands(t)
<1> USE DEF Lands
<1> DEFINE To(there) == Typed' /\ Others(t) /\ job'[t] = job[t] /\ pc'[t] = there
<1>0. InPlace(t)
  BY DEF Placed
<1>1. CASE Open(t)
  <2>1. pc[t] = "open" /\ Go(t, "write") /\ UNCHANGED held
    BY <1>1 DEF Open, At
  <2>2. To("write") /\ held'[t] = held[t]
    BY <2>1, Goes, Named
  <2>3. InPlace(t)'
    BY <1>0, <2>1, <2>2 DEF InPlace, SavePoints, CallbackPoints, SyncPoints
  <2> QED  BY <2>2, <2>3
<1>2. CASE Write(t)
  <2>1. pc[t] = "write" /\ Go(t, "chmod") /\ UNCHANGED held
    BY <1>2 DEF Write, At
  <2>2. To("chmod") /\ held'[t] = held[t]
    BY <2>1, Goes, Named
  <2>3. InPlace(t)'
    BY <1>0, <2>1, <2>2 DEF InPlace, SavePoints, CallbackPoints, SyncPoints
  <2> QED  BY <2>2, <2>3
<1>3. CASE Chmod(t)
  <2>1. CASE End(t)
    BY <2>1, Ends
  <2>2. ASSUME NEW there \in {"me"}, Go(t, there), UNCHANGED held, job[t] = "sync"
        PROVE  Lands(t)
    <3>1. pc[t] = "chmod"
      BY <1>3 DEF Chmod, At
    <3>2. job[t] = "sync" /\ held[t] \in Tokens
      BY <1>0, <2>2, <3>1 DEF InPlace, SavePoints, CallbackPoints, SyncPoints
    <3>3. To(there) /\ held'[t] = held[t]
      BY <2>2, Goes, Named
    <3>4. InPlace(t)'
      BY <2>2, <3>2, <3>3 DEF InPlace, CallbackPoints, SyncPoints
    <3> QED  BY <3>3, <3>4
  <2> QED  BY <1>3, <2>1, <2>2 DEF Chmod
<1>4. CASE VerifyState(t)
  <2>1. pc[t] = "verify" /\ Go(t, "read state") /\ UNCHANGED held
    BY <1>4 DEF VerifyState, At
  <2>2. To("read state") /\ held'[t] = held[t]
    BY <2>1, Goes, Named
  <2>3. InPlace(t)'
    BY <1>0, <2>1, <2>2 DEF InPlace, SavePoints, CallbackPoints, SyncPoints
  <2> QED  BY <2>2, <2>3
<1>5. CASE ReadState(t)
  <2>1. pc[t] = "read state" /\ Go(t, "clear") /\ UNCHANGED held
    BY <1>5 DEF ReadState, At
  <2>2. To("clear") /\ held'[t] = held[t]
    BY <2>1, Goes, Named
  <2>3. InPlace(t)'
    BY <1>0, <2>1, <2>2 DEF InPlace, SavePoints, CallbackPoints, SyncPoints
  <2> QED  BY <2>2, <2>3
<1>6. CASE ClearState(t)
  <2>2. ASSUME NEW there \in {"exchange", "unlink state"}, Go(t, there), UNCHANGED held
        PROVE  Lands(t)
    <3>1. pc[t] = "clear"
      BY <1>6 DEF ClearState, At
    <3>2. job[t] = "callback" /\ held[t] \in States
      BY <1>0, <2>2, <3>1 DEF InPlace, SavePoints, CallbackPoints, SyncPoints
    <3>3. To(there) /\ held'[t] = held[t]
      BY <2>2, Goes, Named
    <3>4. InPlace(t)'
      BY <2>2, <3>2, <3>3 DEF InPlace, CallbackPoints, SyncPoints
    <3> QED  BY <3>3, <3>4
  <2> QED  BY <1>6, <2>2 DEF ClearState
<1>7. CASE UnlinkState(t)
  <2>1. pc[t] = "unlink state" /\ Go(t, "exchange") /\ UNCHANGED held
    BY <1>7 DEF UnlinkState, At
  <2>2. To("exchange") /\ held'[t] = held[t]
    BY <2>1, Goes, Named
  <2>3. InPlace(t)'
    BY <1>0, <2>1, <2>2 DEF InPlace, SavePoints, CallbackPoints, SyncPoints
  <2> QED  BY <2>2, <2>3
<1>8. CASE Exchange(t)
  <2>1. CASE End(t)
    BY <2>1, Ends
  <2>2. ASSUME NEW user \in Accounts, Take(t, [signIn |-> held[t].signIn, user |-> user]), Go(t, "open")
        PROVE  Lands(t)
    <3>1. pc[t] = "exchange"
      BY <1>8 DEF Exchange, At
    <3>2. job[t] = "callback" /\ held[t] \in States
      BY <1>0, <3>1 DEF InPlace, SavePoints, SyncPoints
    <3>3. [signIn |-> held[t].signIn, user |-> user] \in Tokens
      BY <3>2 DEF States, Tokens
    <3>4. To("open") /\ held'[t] \in Tokens
      BY <2>2, <3>3, GoesTaking, Named
    <3>5. InPlace(t)'
      BY <3>2, <3>4 DEF InPlace, SavePoints
    <3> QED  BY <3>4, <3>5
  <2> QED  BY <1>8, <2>1, <2>2 DEF Exchange
<1>9. CASE ClearToken(t)
  <2>1. CASE End(t)
    BY <2>1, Ends
  <2>2. ASSUME NEW there \in {"unlink"}, Go(t, there), UNCHANGED held
        PROVE  Lands(t)
    <3>1. pc[t] = "clear token"
      BY <1>9 DEF ClearToken, At
    <3>2. job[t] = "disconnect" /\ held[t] = Nothing
      BY <1>0, <2>2, <3>1 DEF InPlace, SavePoints, CallbackPoints, SyncPoints
    <3>3. To(there) /\ held'[t] = held[t]
      BY <2>2, Goes, Named
    <3>4. InPlace(t)'
      BY <2>2, <3>2, <3>3 DEF InPlace, CallbackPoints, SyncPoints
    <3> QED  BY <3>3, <3>4
  <2> QED  BY <1>9, <2>1, <2>2 DEF ClearToken
<1>10. CASE UnlinkToken(t)
  BY <1>10, Ends DEF UnlinkToken
<1>11. CASE LoadToken(t)
  <2>1. pc[t] = "load" /\ Go(t, "read") /\ UNCHANGED held
    BY <1>11 DEF LoadToken, At
  <2>2. To("read") /\ held'[t] = held[t]
    BY <2>1, Goes, Named
  <2>3. InPlace(t)'
    BY <1>0, <2>1, <2>2 DEF InPlace, SavePoints, CallbackPoints, SyncPoints
  <2> QED  BY <2>2, <2>3
<1>12. CASE ReadToken(t)
  <2>1. PICK there \in {"refresh", "me"} : Go(t, there) /\ Take(t, content["token"])
    BY <1>12 DEF ReadToken
  <2>2. content["token"] \in Tokens
    BY <1>12 DEF ReadToken, Contents
  <2>3. there \in Points /\ pc[t] = "read"
    BY <1>12, <2>1, Named DEF ReadToken, At
  <2>4. To(there) /\ held'[t] \in Tokens
    BY <2>1, <2>2, <2>3, GoesTaking
  <2>5. job[t] = "sync"
    BY <1>0, <2>3 DEF InPlace, SavePoints, CallbackPoints
  <2>6. InPlace(t)'
    BY <2>1, <2>4, <2>5 DEF InPlace, SyncPoints
  <2> QED  BY <2>4, <2>6
<1>13. CASE Refresh(t)
  <2>1. pc[t] = "refresh" /\ Go(t, "open") /\ UNCHANGED held
    BY <1>13 DEF Refresh, At
  <2>2. To("open") /\ held'[t] = held[t]
    BY <2>1, Goes, Named
  <2>3. InPlace(t)'
    BY <1>0, <2>1, <2>2 DEF InPlace, SavePoints, CallbackPoints, SyncPoints
  <2> QED  BY <2>2, <2>3
<1>14. CASE Unauthorized(t)
  <2>1. CASE End(t)
    BY <2>1, Ends
  <2>2. ASSUME NEW there \in {"refresh"}, Go(t, there), UNCHANGED held
        PROVE  Lands(t)
    <3>1. pc[t] \in {"me", "inbox"}
      BY <1>14 DEF Unauthorized, At
    <3>2. job[t] = "sync" /\ held[t] \in Tokens
      BY <1>0, <2>2, <3>1 DEF InPlace, SavePoints, CallbackPoints, SyncPoints
    <3>3. To(there) /\ held'[t] = held[t]
      BY <2>2, Goes, Named
    <3>4. InPlace(t)'
      BY <2>2, <3>2, <3>3 DEF InPlace, CallbackPoints, SyncPoints
    <3> QED  BY <3>3, <3>4
  <2> QED  BY <1>14, <2>1, <2>2 DEF Unauthorized
<1>15. CASE Throttled(t)
  <2>1. CASE UNCHANGED threadVars
    BY <1>0, <2>1 DEF threadVars, InPlace, Typed, Others
  <2>2. CASE End(t)
    BY <2>2, Ends
  <2> QED  BY <1>15, <2>1, <2>2 DEF Throttled
<1>16. CASE Me(t)
  <2>1. CASE End(t)
    BY <2>1, Ends
  <2>2. ASSUME NEW there \in {"inbox", "store"}, Go(t, there), UNCHANGED held
        PROVE  Lands(t)
    <3>1. pc[t] = "me"
      BY <1>16 DEF Me, At
    <3>2. job[t] = "sync" /\ held[t] \in Tokens
      BY <1>0, <2>2, <3>1 DEF InPlace, SavePoints, CallbackPoints, SyncPoints
    <3>3. To(there) /\ held'[t] = held[t]
      BY <2>2, Goes, Named
    <3>4. InPlace(t)'
      BY <2>2, <3>2, <3>3 DEF InPlace, CallbackPoints, SyncPoints
    <3> QED  BY <3>3, <3>4
  <2> QED  BY <1>16, <2>1, <2>2 DEF Me
<1>17. CASE Page(t)
  <2>2. ASSUME NEW there \in {"inbox", "store"}, Go(t, there), UNCHANGED held
        PROVE  Lands(t)
    <3>1. pc[t] = "inbox"
      BY <1>17 DEF Page, At
    <3>2. job[t] = "sync" /\ held[t] \in Tokens
      BY <1>0, <2>2, <3>1 DEF InPlace, SavePoints, CallbackPoints, SyncPoints
    <3>3. To(there) /\ held'[t] = held[t]
      BY <2>2, Goes, Named
    <3>4. InPlace(t)'
      BY <2>2, <3>2, <3>3 DEF InPlace, CallbackPoints, SyncPoints
    <3> QED  BY <3>3, <3>4
  <2> QED  BY <1>17, <2>2 DEF Page
<1>18. CASE Store(t)
  BY <1>18, Ends DEF Store
<1>19. CASE Refuse(t)
  BY <1>19, Ends DEF Refuse
<1> QED  BY <1>1, <1>2, <1>3, <1>4, <1>5, <1>6, <1>7, <1>8, <1>9, <1>10, <1>11, <1>12, <1>13, <1>14, <1>15, <1>16, <1>17, <1>18, <1>19 DEF Step

(* What each step leaves in the files.                                     *)
LEMMA StepFiles ==
  ASSUME Typed, Placed, Contents, Handles, NEW t \in Threads, Step(t), Lands(t)
  PROVE  Contents' /\ Handles'
<1>1. InPlace(t)
  BY DEF Placed
<1>2. CASE pc[t] = "open"
  <2>1. Open(t)
    BY <1>2 DEF Step, At, Write, Chmod, VerifyState, ReadState, ClearState, UnlinkState, Exchange,
       ClearToken, UnlinkToken, LoadToken, ReadToken, Refresh, Unauthorized, Throttled, Me, Page,
       Store, Refuse
  <2>2. FileOf(t) \in {"state", "token"}
    BY DEF FileOf
  <2>3. /\ content' = [content EXCEPT ![FileOf(t)] = Empty]
        /\ handles' = [handles EXCEPT ![FileOf(t)] = @ \cup {t}]
        /\ UNCHANGED job /\ pc' = [pc EXCEPT ![t] = "write"]
    BY <2>1 DEF Open, Go
  <2>4. Contents'
    BY <2>2, <2>3, Kinds DEF Contents, Unreadable
  <2>5. handles' \in [{"state", "token"} -> SUBSET Threads]
    BY <2>2, <2>3 DEF Handles
  <2>6. ASSUME NEW f \in {"state", "token"}
        PROVE  content'[f] = Absent => handles'[f] = {}
    BY <2>2, <2>3, FilesAssumption DEF Contents, Handles
  <2>7. ASSUME NEW f \in {"state", "token"}, NEW o \in handles'[f]
        PROVE  pc'[o] = "write" /\ FileOf(o)' = f
    BY <2>2, <2>3, <2>7 DEF Handles, FileOf, Typed
  <2> QED  BY <2>4, <2>5, <2>6, <2>7 DEF Handles
<1>3. CASE pc[t] = "write"
  <2>1. Write(t)
    BY <1>3 DEF Step, At, Open, Chmod, VerifyState, ReadState, ClearState, UnlinkState, Exchange,
       ClearToken, UnlinkToken, LoadToken, ReadToken, Refresh, Unauthorized, Throttled, Me, Page,
       Store, Refuse
  <2>2. FileOf(t) \in {"state", "token"}
    BY DEF FileOf
  <2>3. /\ handles' = [handles EXCEPT ![FileOf(t)] = @ \ {t}]
        /\ UNCHANGED job /\ pc' = [pc EXCEPT ![t] = "chmod"]
    BY <2>1 DEF Write, Go
  <2>4. PICK x \in {Garbled, held[t]} :
          content' = IF t \in handles[FileOf(t)] THEN [content EXCEPT ![FileOf(t)] = x] ELSE content
    BY <2>1 DEF Write
  <2>5. /\ x # Absent /\ x \in Unreadable \cup States \cup Tokens
        /\ FileOf(t) = "state" => x \notin Tokens
        /\ FileOf(t) = "token" => x \notin States
    BY <1>1, <1>3, Kinds, FilesAssumption
       DEF InPlace, SavePoints, CallbackPoints, SyncPoints, Unreadable, FileOf
  <2>6. Contents'
    BY <2>2, <2>4, <2>5 DEF Contents
  <2>7. handles' \in [{"state", "token"} -> SUBSET Threads]
    BY <2>2, <2>3 DEF Handles
  <2>8. ASSUME NEW f \in {"state", "token"}
        PROVE  content'[f] = Absent => handles'[f] = {}
    BY <2>2, <2>3, <2>4, <2>5 DEF Contents, Handles
  <2>9. ASSUME NEW f \in {"state", "token"}, NEW o \in handles'[f]
        PROVE  pc'[o] = "write" /\ FileOf(o)' = f
    BY <2>2, <2>3, <2>9 DEF Handles, FileOf, Typed
  <2> QED  BY <2>6, <2>7, <2>8, <2>9 DEF Handles
<1>4. CASE pc[t] \notin {"open", "write"} /\ UNCHANGED fileVars
  BY <1>4, SameFiles DEF Lands
<1>5. ASSUME pc[t] \notin {"open", "write"}, NEW f \in {"state", "token"}, Remove(f)
      PROVE  Contents' /\ Handles'
  <2>1. \A g \in {"state", "token"} : \A o \in handles[g] : o \in Threads /\ o # t
    BY <1>5 DEF Handles
  <2>2. Contents'
    BY <1>5, Kinds DEF Remove, Contents, Unreadable
  <2>3. Handles'
    BY <1>5, <2>1 DEF Remove, Contents, Handles, Lands, Others, FileOf
  <2> QED  BY <2>2, <2>3
<1>6. CASE pc[t] \notin {"open", "write"}
  <2>1. UNCHANGED fileVars \/ Remove("state") \/ Remove("token")
    BY <1>6 DEF Step, At, Open, Write, Chmod, VerifyState, ReadState, ClearState, UnlinkState,
       Exchange, ClearToken, UnlinkToken, LoadToken, ReadToken, Refresh, Unauthorized, Throttled,
       Me, Page, Store, Refuse
  <2> QED  BY <1>4, <1>5, <1>6, <2>1
<1> QED  BY <1>2, <1>3, <1>6

(* Work that starts, in a thread that had none.                            *)
Starts(t) == SignIn(t) \/ Callback(t) \/ Disconnect(t) \/ Sync(t)

(* It is in place as it starts, and nothing else changes.                  *)
LEMMA StartPlaces ==
  ASSUME Typed, Placed, Counters, NEW t \in Threads, Starts(t)
  PROVE  /\ Typed' /\ Others(t) /\ InPlace(t)'
         /\ pc[t] = "idle" /\ UNCHANGED <<fileVars, readVars, word>>
<1>1. job[t] = "none" /\ pc[t] = "idle" /\ held[t] = Nothing
  BY DEF Starts, SignIn, Callback, Disconnect, Sync, Begin, Placed, InPlace
<1>2. UNCHANGED <<fileVars, readVars, word>>
  BY DEF Starts, SignIn, Callback, Disconnect, Sync
<1>3. ASSUME NEW j \in Jobs, NEW there \in Points, NEW x \in {Nothing} \cup States \cup Tokens,
             Begin(t, j, there), Take(t, x) \/ (UNCHANGED held /\ x = Nothing)
      PROVE  Typed' /\ Others(t) /\ job'[t] = j /\ pc'[t] = there /\ held'[t] = x
  BY <1>1, <1>3 DEF Begin, Take, Typed, Others
<1>4. CASE SignIn(t)
  <2>1. [signIn |-> issued + 1] \in States
    BY <1>4 DEF SignIn, Counters, States, SignIns
  <2>2. "sign-in" \in Jobs
    BY DEF Jobs
  <2>3. /\ Typed' /\ Others(t) /\ job'[t] = "sign-in" /\ pc'[t] = "open"
        /\ held'[t] = [signIn |-> issued + 1]
    BY <1>3, <1>4, <2>1, <2>2, Named DEF SignIn
  <2> QED  BY <1>1, <1>2, <2>1, <2>3 DEF InPlace, SavePoints
<1>5. CASE Callback(t)
  <2>1. PICK n \in 1..issued : Take(t, [signIn |-> n])
    BY <1>5 DEF Callback
  <2>2. [signIn |-> n] \in States
    BY DEF Counters, States, SignIns
  <2>3. "callback" \in Jobs
    BY DEF Jobs
  <2>4. /\ Typed' /\ Others(t) /\ job'[t] = "callback" /\ pc'[t] = "verify"
        /\ held'[t] = [signIn |-> n]
    BY <1>3, <1>5, <2>1, <2>2, <2>3, Named DEF Callback
  <2> QED  BY <1>1, <1>2, <2>2, <2>4 DEF InPlace, CallbackPoints
<1>6. CASE Disconnect(t)
  <2>1. "disconnect" \in Jobs
    BY DEF Jobs
  <2>2. /\ Typed' /\ Others(t) /\ job'[t] = "disconnect" /\ pc'[t] = "clear token"
        /\ held'[t] = Nothing
    BY <1>3, <1>6, <2>1, Named DEF Disconnect
  <2> QED  BY <1>1, <1>2, <2>2 DEF InPlace
<1>7. CASE Sync(t)
  <2>1. "sync" \in Jobs
    BY DEF Jobs
  <2>2. Typed' /\ Others(t) /\ job'[t] = "sync" /\ pc'[t] = "load" /\ held'[t] = Nothing
    BY <1>3, <1>7, <2>1, Named DEF Sync
  <2> QED  BY <1>1, <1>2, <2>2 DEF InPlace
<1> QED  BY <1>4, <1>5, <1>6, <1>7 DEF Starts

(* No step starts a second sync.                                           *)
LEMMA StartsAlone ==
  ASSUME OneSync, Typed, Placed, Counters, NEW t \in Threads, Starts(t)
  PROVE  OneSync'
<1>1. Others(t)
  BY StartPlaces
<1>2. CASE Sync(t)
  BY <1>1, <1>2 DEF Sync, OneSync, Others
<1>3. CASE ~Sync(t)
  <2>1. job'[t] \in {"sign-in", "callback", "disconnect"}
    BY <1>3 DEF Starts, SignIn, Callback, Disconnect, Begin, Typed
  <2> QED  BY <1>1, <2>1 DEF OneSync, Others
<1> QED  BY <1>2, <1>3

(* The counters stay in their bounds.                                      *)
LEMMA Spoken ==
  ASSUME Counters, NEW t \in Threads, NEW x \in SignIns \cup {Disconnected}, Speaks(t, x)
  PROVE  word' \in SignIns \cup {Disconnected, Unsettled}
BY DEF Speaks

(* Every counter and the last word stay in their range.                    *)
LEMMA StepCounters ==
  ASSUME Typed, Placed, Counters, NEW t \in Threads, Starts(t) \/ Step(t)
  PROVE  Counters'
<1>0. InPlace(t)
  BY DEF Placed
<1>1. issued' \in 0..MaxSignIns
  <2>1. CASE SignIn(t)
    BY <2>1 DEF Counters, SignIn
  <2>2. CASE UNCHANGED issued
    BY <2>2 DEF Counters
  <2> QED
    BY <2>1, <2>2 DEF Starts, Callback, Disconnect, Sync, Step, Open, Write, Chmod, VerifyState,
       ReadState, ClearState, UnlinkState, Exchange, ClearToken, UnlinkToken, LoadToken, ReadToken,
       Refresh, Unauthorized, Throttled, Me, Page, Store, Refuse
<1>2. renewed' \in Nat /\ attempt' \in 0..MAX_RETRIES /\ rows' \in 0..Limit
  <2>1. CASE UNCHANGED readVars \/ End(t)
    BY <2>1 DEF Counters, readVars, End, Forget
  <2>2. CASE Refresh(t)
    BY <2>2 DEF Counters, Refresh
  <2>3. CASE Throttled(t)
    BY <2>1, <2>3 DEF Counters, Throttled
  <2>4. CASE Me(t)
    BY <2>1, <2>4 DEF Counters, Me
  <2>5. CASE Page(t)
    BY <2>5 DEF Counters, Page
  <2> QED
    BY <2>1, <2>2, <2>3, <2>4, <2>5 DEF Starts, SignIn, Callback, Disconnect, Sync, Step, Open,
       Write, Chmod, VerifyState, ReadState, ClearState, UnlinkState, Exchange, ClearToken,
       UnlinkToken, LoadToken, ReadToken, Unauthorized, Store, Refuse
<1>3. word' \in SignIns \cup {Disconnected, Unsettled}
  <2>1. CASE UNCHANGED word
    BY <2>1 DEF Counters
  <2>2. CASE Speaks(t, Disconnected)
    BY <2>2, Spoken
  <2>3. CASE Open(t) /\ job[t] = "callback"
    <3>1. held[t] \in Tokens
      BY <1>0, <2>3 DEF Open, At, InPlace, CallbackPoints
    <3> QED  BY <2>3, <3>1, Kinds, Spoken DEF Open
  <2> QED
    BY <2>1, <2>2, <2>3 DEF Starts, SignIn, Callback, Disconnect, Sync, Step, Open, Write, Chmod,
       VerifyState, ReadState, ClearState, UnlinkState, Exchange, ClearToken, UnlinkToken,
       LoadToken, ReadToken, Refresh, Unauthorized, Throttled, Me, Page, Store, Refuse
<1> QED  BY <1>1, <1>2, <1>3 DEF Counters
-----------------------------------------------------------------------------
(* A sync that has not refreshed yet has no refresh behind it.             *)
Renewals ==
  /\ renewed <= 1
  /\ (\A t \in Threads : job[t] # "sync") => renewed = 0
  /\ \A t \in Threads : job[t] = "sync" /\ pc[t] \in {"load", "read", "refresh"} => renewed = 0

Inv == Typed /\ Placed /\ OneSync /\ Contents /\ Handles /\ Counters /\ Renewals /\ OnlyTargetConnected

(* The invariant behind the first three theorems.                          *)
LEMMA InitInv == Init => Inv
<1> SUFFICES ASSUME Init PROVE Inv
  OBVIOUS
<1>1. Typed
  BY Named DEF Init, Typed, Jobs
<1>2. Placed
  BY DEF Init, Placed, InPlace
<1>3. OneSync
  BY DEF Init, OneSync
<1>4. Contents
  BY Kinds DEF Init, Contents, Unreadable
<1>5. Handles
  BY DEF Init, Handles
<1>6. Counters
  BY DEF Init, AtRest, Counters, Disconnected
<1>7. Renewals
  BY DEF Init, AtRest, Renewals
<1>8. OnlyTargetConnected
  BY Kinds DEF Init, OnlyTargetConnected, Unreadable
<1> QED  BY <1>1, <1>2, <1>3, <1>4, <1>5, <1>6, <1>7, <1>8 DEF Inv

(* The death of the process keeps it.                                      *)
LEMMA CrashInv == Inv /\ Crash => Inv'
<1> SUFFICES ASSUME Inv, Crash PROVE Inv'
  OBVIOUS
<1> USE DEF Inv
<1>1. Typed'
  BY Named DEF Crash, Typed, Jobs
<1>2. Placed'
  BY DEF Crash, Placed, InPlace
<1>3. OneSync'
  BY DEF Crash, OneSync
<1>4. Contents'
  BY DEF Crash, Contents
<1>5. Handles'
  BY DEF Crash, Handles
<1>6. Counters'
  BY DEF Crash, Forget, Counters, Unsettled
<1>7. Renewals'
  BY DEF Crash, Forget, Renewals
<1>8. OnlyTargetConnected'
  BY Kinds DEF Crash, OnlyTargetConnected
<1> QED  BY <1>1, <1>2, <1>3, <1>4, <1>5, <1>6, <1>7, <1>8

(* A token comes from the target's sign-in or from another place that holds one. *)
LEMMA StepTarget ==
  ASSUME Inv, NEW t \in Threads, Step(t), Lands(t)
  PROVE  OnlyTargetConnected'
<1> USE DEF Inv, Lands
<1>1. InPlace(t)
  BY DEF Placed
<1>2. held'[t] \in Tokens => held'[t].user = Target
  <2>1. CASE held'[t] \in {held[t], Nothing}
    BY <2>1, Kinds DEF OnlyTargetConnected
  <2>2. CASE Exchange(t)
    BY <2>2, Kinds DEF Exchange, End, Take, Typed
  <2>3. CASE ReadToken(t)
    BY <2>3 DEF ReadToken, Take, Typed, OnlyTargetConnected
  <2>4. CASE End(t)
    BY <2>1, <2>4, Ends
  <2>5. CASE UNCHANGED held
    BY <2>1, <2>5
  <2> QED
    BY <2>2, <2>3, <2>4, <2>5 DEF Step, Open, Write, Chmod, VerifyState, ReadState, ClearState,
       UnlinkState, ClearToken, UnlinkToken, LoadToken, Refresh, Unauthorized, Throttled, Me, Page,
       Store, Refuse, readVars, threadVars
<1>3. content'["token"] \in Tokens => content'["token"].user = Target
  <2>1. CASE Write(t)
    <3>1. content'["token"] \in {content["token"], Garbled, held[t]}
      BY <2>1 DEF Write, Contents, FileOf
    <3> QED  BY <3>1, Kinds DEF OnlyTargetConnected, Unreadable
  <2>2. CASE Open(t) \/ UnlinkState(t) \/ UnlinkToken(t)
    <3>1. content'["token"] \in {content["token"], Empty, Absent}
      BY <2>2 DEF Open, UnlinkState, UnlinkToken, Remove, Contents
    <3> QED  BY <3>1, Kinds DEF OnlyTargetConnected, Unreadable
  <2>3. CASE UNCHANGED fileVars
    BY <2>3 DEF fileVars, OnlyTargetConnected
  <2> QED
    BY <2>1, <2>2, <2>3 DEF Step, Chmod, VerifyState, ReadState, ClearState, Exchange, ClearToken,
       LoadToken, ReadToken, Refresh, Unauthorized, Throttled, Me, Page, Store, Refuse
<1> QED  BY <1>2, <1>3 DEF OnlyTargetConnected, Others

(* Only a sync that has not refreshed gets to "refresh".                   *)
LEMMA StepRenewals ==
  ASSUME Inv, NEW t \in Threads, Step(t), Lands(t)
  PROVE  Renewals'
<1> USE DEF Inv, Lands
<1>1. InPlace(t)
  BY DEF Placed
<1>2. CASE job[t] # "sync"
  <2>1. job'[t] # "sync" /\ UNCHANGED readVars
    BY <1>1, <1>2 DEF InPlace, SavePoints, CallbackPoints, SyncPoints, End, Step, At, Open, Write,
       Chmod, VerifyState, ReadState, ClearState, UnlinkState, Exchange, ClearToken, UnlinkToken,
       LoadToken, ReadToken, Refresh, Unauthorized, Throttled, Me, Page, Store, Refuse
  <2> QED  BY <1>2, <2>1 DEF readVars, Renewals, Others
<1>3. CASE job[t] = "sync"
  <2>0. \A o \in Threads \ {t} : job[o] # "sync" /\ job'[o] # "sync"
    BY <1>3 DEF OneSync, Others
  <2>1. CASE End(t)
    <3>1. renewed' = 0
      BY <1>3, <2>1 DEF End, Forget
    <3> QED  BY <3>1 DEF Renewals
  <2>2. CASE Refresh(t)
    <3>1. renewed = 0 /\ renewed' = 1 /\ pc'[t] = "open" /\ job'[t] = "sync"
      BY <1>3, <2>2 DEF Refresh, At, Go, Renewals, Counters, Typed
    <3> QED  BY <2>0, <3>1 DEF Renewals
  <2>3. CASE renewed' = renewed /\ job'[t] = "sync"
             /\ (pc'[t] \in {"load", "read", "refresh"} =>
                    renewed = 0 \/ pc[t] \in {"load", "read", "refresh"})
    BY <1>3, <2>0, <2>3 DEF Renewals
  <2>4. CASE ~End(t) /\ ~Refresh(t)
    <3>1. renewed' = renewed
      BY <2>4 DEF Step, Open, Write, Chmod, VerifyState, ReadState, ClearState, UnlinkState,
         Exchange, ClearToken, UnlinkToken, LoadToken, ReadToken, Unauthorized, Throttled, Me, Page,
         Store, Refuse, readVars
    <3>2. job'[t] = "sync"
      BY <1>3, <2>4 DEF Step, Open, Write, Chmod, VerifyState, ReadState, ClearState, UnlinkState,
         Exchange, ClearToken, UnlinkToken, LoadToken, ReadToken, Unauthorized, Throttled, Me, Page,
         Store, Refuse, Go, threadVars
    <3>3. pc'[t] \in {"load", "read", "refresh"} => renewed = 0 \/ pc[t] \in {"load", "read", "refresh"}
      BY <2>4 DEF Step, At, Open, Write, Chmod, VerifyState, ReadState, ClearState, UnlinkState,
         Exchange, ClearToken, UnlinkToken, LoadToken, ReadToken, Unauthorized, Throttled, Me, Page,
         Store, Refuse, Go, Typed, threadVars, Counters, Renewals
    <3> QED  BY <2>3, <3>1, <3>2, <3>3
  <2> QED  BY <2>1, <2>2, <2>4
<1> QED  BY <1>2, <1>3
-----------------------------------------------------------------------------
(* Why a settled last word stays: after a disconnect no sync holds a token; *)
(* after a sign-in every sync that does holds one of that sign-in, and the *)
(* file is that token or opened, empty, by one thread that will write it.  *)
(* While that thread is a callback no sync can have read the file.         *)
Past(t) == job[t] = "sync" /\ pc[t] \notin {"load", "read"}
Whole ==
  /\ content["token"] \in Tokens /\ content["token"].signIn = word
  /\ handles["token"] = {}
Opened ==
  /\ content["token"] = Empty
  /\ \E x \in Threads :
       /\ handles["token"] = {x} /\ held[x].signIn = word
       /\ job[x] = "callback" => \A t \in Threads : ~Past(t)
LastWord ==
  /\ word = Disconnected => content["token"] = Absent /\ \A t \in Threads : ~Past(t)
  /\ word \in SignIns =>
       /\ \A t \in Threads : Past(t) => held[t].signIn = word
       /\ Whole \/ Opened

(* A step that leaves the token, who writes it and the last word alone, and *)
(* gives no sync a token.                                                  *)
Quiet(t) ==
  /\ content'["token"] = content["token"] /\ handles'["token"] = handles["token"]
  /\ word' = word /\ t \notin handles["token"] /\ Others(t)
  /\ Past(t)' => Past(t) /\ held'[t] = held[t]

(* Such a step keeps the last word.                                        *)
LEMMA QuietKeeps ==
  ASSUME Handles, LastWord, NEW t \in Threads, Quiet(t)
  PROVE  LastWord'
<1>1. \A o \in Threads : Past(o)' => Past(o) /\ held'[o] = held[o]
  BY DEF Quiet, Others, Past
<1>2. word' = Disconnected => content'["token"] = Absent /\ \A o \in Threads : ~Past(o)'
  BY <1>1 DEF LastWord, Quiet
<1>3. ASSUME word' \in SignIns
      PROVE  \A o \in Threads : Past(o)' => held'[o].signIn = word'
  BY <1>1, <1>3 DEF LastWord, Quiet
<1>4. ASSUME Whole PROVE Whole'
  BY <1>4 DEF Whole, Quiet
<1>5. ASSUME Opened PROVE Opened'
  <2>1. PICK x \in Threads : /\ handles["token"] = {x} /\ held[x].signIn = word
                             /\ job[x] = "callback" => \A o \in Threads : ~Past(o)
    BY <1>5 DEF Opened
  <2>2. x # t /\ job'[x] = job[x] /\ held'[x] = held[x]
    BY <2>1 DEF Quiet, Others
  <2>3. job'[x] = "callback" => \A o \in Threads : ~Past(o)'
    BY <1>1, <2>1, <2>2
  <2>4. handles'["token"] = {x} /\ held'[x].signIn = word' /\ content'["token"] = Empty
    BY <1>5, <2>1, <2>2 DEF Opened, Quiet
  <2> QED  BY <2>3, <2>4 DEF Opened
<1>6. word' \in SignIns => Whole' \/ Opened'
  <2>1. word' \in SignIns => Whole \/ Opened
    BY DEF LastWord, Quiet
  <2>2. Whole => Whole'
    BY <1>4
  <2>3. Opened => Opened'
    BY <1>5
  <2> QED  BY <2>1, <2>2, <2>3
<1> QED  BY <1>2, <1>3, <1>6 DEF LastWord

(* Who speaks last finds no sync with a token and nobody with the file open. *)
LEMMA Heard ==
  ASSUME Typed, Placed, Handles, NEW t \in Threads, NEW x, Speaks(t, x), word' # Unsettled
  PROVE  /\ word' = x /\ handles["token"] \subseteq {t}
         /\ \A o \in Threads \ {t} : ~Past(o)
<1>1. \A o \in Threads \ {t} : ~Holds(o)
  BY DEF Speaks
<1>2. word' = x
  BY <1>1 DEF Speaks
<1>3. \A o \in Threads \ {t} : ~Past(o)
  BY <1>1 DEF Holds, Past
<1>4. ASSUME NEW o \in handles["token"], o # t
      PROVE  FALSE
  <2>1. o \in Threads /\ pc[o] = "write" /\ FileOf(o) = "token"
    BY DEF Handles
  <2>2. InPlace(o)
    BY <2>1 DEF Placed
  <2>3. job[o] \in {"callback", "sync"}
    BY <2>1, <2>2 DEF InPlace, FileOf, CallbackPoints, SyncPoints
  <2> QED  BY <1>1, <1>4, <2>1, <2>3 DEF Holds
<1> QED  BY <1>2, <1>3, <1>4

(* A disconnect that ends is the last word, or nothing is settled.         *)
LEMMA DisconnectSpeaks ==
  ASSUME Typed, Placed, Contents, Handles, NEW t \in Threads, Speaks(t, Disconnected), End(t),
         content'["token"] = Absent, Counters
  PROVE  LastWord'
<1>1. CASE word' = Unsettled
  BY <1>1 DEF LastWord, Unsettled, Disconnected, SignIns
<1>2. CASE word' # Unsettled
  <2>1. word' = Disconnected /\ \A o \in Threads \ {t} : ~Past(o)
    BY <1>2, Heard
  <2>2. Others(t) /\ job'[t] = "none"
    BY Ends DEF Lands
  <2>3. \A o \in Threads : ~Past(o)'
    BY <2>1, <2>2 DEF Past, Others
  <2>4. word' \notin SignIns
    BY <2>1 DEF Disconnected, SignIns
  <2> QED  BY <2>1, <2>3, <2>4 DEF LastWord
<1> QED  BY <1>1, <1>2

(* A callback or a sync opens the token file to write it.                  *)
LEMMA OpenKeeps ==
  ASSUME Inv, LastWord, NEW t \in Threads, Open(t), Lands(t)
  PROVE  LastWord'
<1> USE DEF Inv
<1>0. InPlace(t) /\ pc[t] = "open"
  BY DEF Placed, Open, At
<1>1. /\ Others(t) /\ job'[t] = job[t] /\ pc'[t] = "write" /\ held' = held
      /\ content' = [content EXCEPT ![FileOf(t)] = Empty]
      /\ handles' = [handles EXCEPT ![FileOf(t)] = @ \cup {t}]
  BY DEF Open, Go, Lands, Typed
<1>2. t \notin handles["token"]
  BY <1>0 DEF Handles
<1>3. CASE FileOf(t) = "state"
  <2>1. job[t] = "sign-in"
    BY <1>3 DEF FileOf
  <2>2. /\ content'["token"] = content["token"] /\ handles'["token"] = handles["token"]
    BY <1>1, <1>3 DEF Contents, Handles
  <2>3. word' = word /\ ~Past(t)'
    BY <1>1, <2>1 DEF Open, Past
  <2>4. Quiet(t)
    BY <1>1, <1>2, <2>2, <2>3 DEF Quiet
  <2> QED  BY <2>4, QuietKeeps
<1>4. CASE FileOf(t) = "token"
  <2>1. content'["token"] = Empty /\ handles'["token"] = handles["token"] \cup {t}
    BY <1>1, <1>4 DEF Contents, Handles
  <2>2. job[t] \in {"callback", "sync"} /\ held[t] \in Tokens
    BY <1>0, <1>4 DEF InPlace, FileOf, CallbackPoints, SyncPoints
  <2>3. CASE job[t] = "callback"
    <3>1. Speaks(t, held[t].signIn)
      BY <2>3 DEF Open
    <3>2. CASE word' = Unsettled
      BY <3>2 DEF LastWord, Unsettled, Disconnected, SignIns
    <3>3. CASE word' # Unsettled
      <4>1. /\ word' = held[t].signIn /\ handles["token"] \subseteq {t}
            /\ \A o \in Threads \ {t} : ~Past(o)
        BY <3>1, <3>3, Heard
      <4>2. \A o \in Threads : ~Past(o)'
        BY <1>1, <2>3, <4>1 DEF Past, Others
      <4>3. word' \in SignIns /\ word' # Disconnected
        BY <2>2, <4>1, Kinds DEF SignIns, Disconnected
      <4>4. handles'["token"] = {t} /\ held'[t].signIn = word'
        BY <1>1, <2>1, <4>1
      <4>5. Opened'
        BY <2>1, <4>2, <4>4 DEF Opened
      <4> QED  BY <4>2, <4>3, <4>5 DEF LastWord
    <3> QED  BY <3>2, <3>3
  <2>4. CASE job[t] = "sync"
    <3>1. Past(t) /\ word' = word
      BY <1>0, <2>4 DEF Past, Open
    <3>2. word # Disconnected
      BY <3>1 DEF LastWord
    <3>3. CASE word \in SignIns
      <4>1. held[t].signIn = word /\ ~Opened
        <5>1. held[t].signIn = word
          BY <3>1, <3>3 DEF LastWord
        <5>2. ASSUME NEW x \in Threads, handles["token"] = {x}, job[x] # "callback"
              PROVE  FALSE
          <6>1. pc[x] = "write" /\ FileOf(x) = "token" /\ InPlace(x)
            BY <5>2 DEF Handles, Placed
          <6>2. job[x] = "sync"
            BY <5>2, <6>1 DEF InPlace, FileOf, CallbackPoints, SyncPoints
          <6> QED  BY <1>0, <2>4, <6>1, <6>2 DEF OneSync
        <5> QED  BY <3>1, <5>1, <5>2 DEF Opened
      <4>2. Whole
        BY <3>3, <4>1 DEF LastWord
      <4>3. handles'["token"] = {t}
        BY <2>1, <4>2 DEF Whole
      <4>4. Opened'
        BY <1>1, <2>1, <2>4, <3>1, <4>1, <4>3 DEF Opened
      <4>5. \A o \in Threads : Past(o)' => held'[o].signIn = word'
        <5>1. \A o \in Threads : Past(o)' => Past(o)
          BY <1>1, <3>1 DEF Past, Others
        <5> QED  BY <1>1, <3>1, <3>3, <5>1 DEF LastWord
      <4> QED  BY <3>1, <3>2, <4>4, <4>5 DEF LastWord
    <3>4. CASE word \notin SignIns
      BY <3>1, <3>2, <3>4 DEF LastWord
    <3> QED  BY <3>3, <3>4
  <2> QED  BY <2>2, <2>3, <2>4
<1> QED  BY <1>3, <1>4 DEF FileOf

(* Every step of a thread keeps the last word.                             *)
LEMMA StepLastWord ==
  ASSUME Inv, LastWord, NEW t \in Threads, Step(t), Lands(t)
  PROVE  LastWord'
<1> USE DEF Inv
<1>0. InPlace(t) /\ Others(t)
  BY DEF Placed, Lands
<1>1. CASE Open(t)
  BY <1>1, OpenKeeps
<1>2. CASE Write(t)
  <2>0. pc[t] = "write" /\ pc'[t] = "chmod" /\ UNCHANGED <<job, held, word>>
    BY <1>2 DEF Write, At, Go, Typed
  <2>1. \A o \in Threads : Past(o)' => Past(o)
    BY <1>0, <2>0 DEF Past, Others
  <2>2. CASE t \in handles["token"]
    <3>1. FileOf(t) = "token" /\ content["token"] # Absent
      BY <2>2 DEF Handles
    <3>2. word # Disconnected /\ ~Whole
      BY <2>2, <3>1 DEF LastWord, Whole
    <3>3. CASE word \in SignIns
      <4>1. content["token"] = Empty /\ handles["token"] = {t} /\ held[t].signIn = word
        BY <2>2, <3>2, <3>3 DEF LastWord, Opened
      <4>2. content'["token"] = held[t] /\ handles'["token"] = {}
        BY <1>2, <2>2, <3>1, <4>1 DEF Write, Contents, Handles
      <4>3. held[t] \in Tokens
        BY <1>0, <2>0, <3>1 DEF InPlace, FileOf, CallbackPoints, SyncPoints
      <4>4. Whole'
        BY <2>0, <4>1, <4>2, <4>3 DEF Whole
      <4>5. \A o \in Threads : Past(o)' => held'[o].signIn = word'
        BY <2>0, <2>1, <3>3 DEF LastWord
      <4> QED  BY <2>0, <3>2, <4>4, <4>5 DEF LastWord
    <3>4. CASE word \notin SignIns
      BY <2>0, <3>2, <3>4 DEF LastWord
    <3> QED  BY <3>3, <3>4
  <2>3. CASE t \notin handles["token"]
    <3>1. content'["token"] = content["token"]
      BY <1>2, <2>3 DEF Write, FileOf, Contents
    <3>2. handles'["token"] = handles["token"]
      BY <1>2, <2>3 DEF Write, FileOf, Handles
    <3>3. Quiet(t)
      BY <1>0, <2>0, <2>1, <2>3, <3>1, <3>2 DEF Quiet
    <3> QED  BY <3>3, QuietKeeps
  <2> QED  BY <2>2, <2>3
<1>3. CASE ReadToken(t)
  <2>1. /\ pc[t] = "read" /\ content["token"] \in Tokens /\ held'[t] = content["token"]
        /\ UNCHANGED <<content, handles, word, job>> /\ pc'[t] \in {"refresh", "me"}
    BY <1>3 DEF ReadToken, At, Contents, Take, Go, Typed, fileVars
  <2>2. word # Disconnected /\ ~Opened
    BY <2>1, Kinds DEF LastWord, Opened, Unreadable
  <2>3. CASE word \in SignIns
    <3>1. Whole
      BY <2>2, <2>3 DEF LastWord
    <3>2. Whole'
      BY <2>1, <3>1 DEF Whole
    <3>3. held'[t].signIn = word'
      BY <2>1, <3>1 DEF Whole
    <3>4. ASSUME NEW o \in Threads, Past(o)'
          PROVE  held'[o].signIn = word'
      BY <1>0, <2>1, <2>3, <3>3, <3>4 DEF LastWord, Past, Others
    <3> QED  BY <2>1, <2>2, <3>2, <3>4 DEF LastWord
  <2>4. CASE word \notin SignIns
    BY <2>1, <2>2, <2>4 DEF LastWord
  <2> QED  BY <2>3, <2>4
<1>4. CASE UnlinkToken(t)
  BY <1>4, DisconnectSpeaks DEF UnlinkToken, Remove, Contents
<1>5. CASE ClearToken(t) /\ content["token"] = Absent
  BY <1>5, DisconnectSpeaks DEF ClearToken, fileVars
<1>6. ASSUME UNCHANGED word, pc[t] \notin {"open", "write"}, UNCHANGED fileVars \/ Remove("state"),
             Past(t)' => Past(t) /\ held'[t] = held[t]
      PROVE  LastWord'
  <2>1. t \notin handles["token"]
    BY <1>6 DEF Handles
  <2>2. content'["token"] = content["token"] /\ handles'["token"] = handles["token"]
    BY <1>6 DEF fileVars, Remove, Contents, Handles
  <2>3. Quiet(t)
    BY <1>0, <1>6, <2>1, <2>2 DEF Quiet
  <2> QED  BY <2>3, QuietKeeps
<1>7. CASE End(t) /\ UNCHANGED <<fileVars, word>> /\ pc[t] \notin {"open", "write"}
  <2>1. ~Past(t)'
    BY <1>7, Ends DEF Past
  <2> QED  BY <1>6, <1>7, <2>1
<1>8. CASE ClearToken(t) /\ content["token"] # Absent
  <2>1. job[t] = "disconnect"
    BY <1>0, <1>8 DEF ClearToken, At, InPlace, SavePoints, CallbackPoints, SyncPoints
  <2>2. ~Past(t)'
    BY <1>8, <2>1 DEF ClearToken, Go, Past
  <2> QED  BY <1>6, <1>8, <2>2 DEF ClearToken, At
<1>9. CASE VerifyState(t) \/ ReadState(t) \/ ClearState(t) \/ UnlinkState(t) \/ (Exchange(t) /\ ~End(t))
  <2>1. job[t] = "callback"
    BY <1>0, <1>9 DEF VerifyState, ReadState, ClearState, UnlinkState, Exchange, At, InPlace,
       SavePoints, SyncPoints
  <2>2. job' = job
    BY <1>9 DEF VerifyState, ReadState, ClearState, UnlinkState, Exchange, Go
  <2>3. ~Past(t)'
    BY <2>1, <2>2 DEF Past
  <2>4. pc[t] \notin {"open", "write"}
    BY <1>9 DEF VerifyState, ReadState, ClearState, UnlinkState, Exchange, At
  <2>5. UNCHANGED word /\ (UNCHANGED fileVars \/ Remove("state"))
    BY <1>9 DEF VerifyState, ReadState, ClearState, UnlinkState, Exchange
  <2> QED  BY <1>6, <2>3, <2>4, <2>5
<1>10. CASE LoadToken(t)
  <2>1. ~Past(t)'
    BY <1>10 DEF LoadToken, Go, Typed, Past
  <2> QED  BY <1>6, <1>10, <2>1 DEF LoadToken, At
<1>11. ASSUME pc[t] \in {"chmod", "refresh", "me", "inbox"}, UNCHANGED <<job, held, word, fileVars>>
       PROVE  LastWord'
  BY <1>6, <1>11 DEF Past
<1>12. CASE (Chmod(t) \/ Refresh(t) \/ Unauthorized(t) \/ Throttled(t) \/ Me(t) \/ Page(t)) /\ ~End(t)
  BY <1>11, <1>12 DEF Chmod, Refresh, Unauthorized, Throttled, Me, Page, At, Go, threadVars
<1>13. CASE End(t) /\ (Chmod(t) \/ Exchange(t) \/ Unauthorized(t) \/ Throttled(t) \/ Me(t) \/ Store(t)
                       \/ Refuse(t))
  BY <1>7, <1>13 DEF Chmod, Exchange, Unauthorized, Throttled, Me, Store, Refuse, At
<1>14. CASE Store(t) \/ Refuse(t)
  BY <1>13, <1>14 DEF Store, Refuse
<1>15. CASE Page(t) /\ End(t)
  BY <1>15 DEF Page, At, Go, End, Typed
<1>16. CASE Chmod(t) \/ Exchange(t) \/ Unauthorized(t) \/ Throttled(t) \/ Me(t)
  BY <1>9, <1>12, <1>13, <1>16
<1>17. CASE Refresh(t) /\ End(t)
  BY <1>17 DEF Refresh, At, Go, End, Typed
<1> QED
  BY <1>1, <1>2, <1>3, <1>4, <1>5, <1>8, <1>9, <1>10, <1>12, <1>14, <1>15, <1>16, <1>17 DEF Step

(* A crash keeps it, since no writer of the token is caught at it.         *)
LEMMA CrashLastWord == Inv /\ LastWord /\ Crash => LastWord'
<1> SUFFICES ASSUME Inv, LastWord, Crash PROVE LastWord'
  OBVIOUS
<1>1. \A t \in Threads : ~Past(t)'
  BY DEF Crash, Past
<1>2. CASE word' = Unsettled
  BY <1>2 DEF LastWord, Unsettled, Disconnected, SignIns
<1>3. CASE word' = word /\ \A t \in Threads : ~Saving(t)
  <2>1. handles["token"] = {}
    BY <1>3 DEF Inv, Handles, Saving
  <2>2. ~Opened
    BY <2>1 DEF Opened
  <2>3. Whole => Whole'
    BY <1>3 DEF Crash, Whole
  <2> QED  BY <1>1, <1>3, <2>2, <2>3 DEF Crash, LastWord
<1> QED  BY <1>2, <1>3 DEF Crash

(* Work that starts keeps it.                                              *)
LEMMA StartLastWord ==
  ASSUME Inv, LastWord, NEW t \in Threads, Starts(t)
  PROVE  LastWord'
<1>1. Others(t) /\ pc[t] = "idle" /\ UNCHANGED <<fileVars, word>>
  BY StartPlaces DEF Inv
<1>2. ~Past(t)'
  BY DEF Past, Starts, SignIn, Callback, Disconnect, Sync, Begin, Inv, Typed
<1>3. t \notin handles["token"]
  BY <1>1 DEF Inv, Handles
<1>4. Quiet(t)
  BY <1>1, <1>2, <1>3 DEF Quiet, fileVars
<1> QED  BY <1>4, QuietKeeps DEF Inv

(* Inv is inductive.                                                       *)
LEMMA NextInv == Inv /\ [Next]_vars => Inv'
<1> SUFFICES ASSUME Inv, [Next]_vars PROVE Inv'
  OBVIOUS
<1> USE DEF Inv
<1>1. ASSUME NEW t \in Threads, Starts(t)
      PROVE  Inv'
  <2>1. Typed' /\ Others(t) /\ InPlace(t)' /\ pc[t] = "idle" /\ UNCHANGED <<fileVars, readVars, word>>
    BY <1>1, StartPlaces
  <2>2. Placed'
    BY <2>1, Elsewhere
  <2>3. Contents' /\ Handles'
    BY <2>1, SameFiles
  <2>4. OneSync' /\ Counters'
    BY <1>1, StartsAlone, StepCounters
  <2>5. Renewals'
    <3>1. renewed' = renewed
      BY <2>1 DEF readVars
    <3>2. CASE Sync(t)
      BY <3>1, <3>2 DEF Sync, Renewals
    <3>3. CASE ~Sync(t)
      <4>1. job[t] = "none" /\ job'[t] \in {"sign-in", "callback", "disconnect"}
        BY <1>1, <3>3 DEF Starts, SignIn, Callback, Disconnect, Begin, Typed
      <4> QED  BY <2>1, <3>1, <4>1 DEF Renewals, Others
    <3> QED  BY <3>2, <3>3
  <2>6. OnlyTargetConnected'
    <3>1. content' = content
      BY <2>1 DEF fileVars
    <3>2. held'[t] \notin Tokens
      BY <2>1, <1>1, Kinds DEF InPlace, Starts, SignIn, Callback, Disconnect, Sync, Begin, Typed,
         SyncPoints, SavePoints
    <3> QED  BY <2>1, <3>1, <3>2 DEF OnlyTargetConnected, Others
  <2> QED  BY <2>1, <2>2, <2>3, <2>4, <2>5, <2>6
<1>2. ASSUME NEW t \in Threads, Step(t)
      PROVE  Inv'
  <2>1. Lands(t)
    BY <1>2, StepPlaces
  <2>2. Typed' /\ Placed'
    BY <2>1, Elsewhere DEF Lands
  <2>3. Contents' /\ Handles'
    BY <1>2, <2>1, StepFiles
  <2>4. OneSync'
    BY <2>1 DEF OneSync, Lands, Others
  <2>5. Counters'
    BY <1>2, StepCounters
  <2>6. Renewals' /\ OnlyTargetConnected'
    BY <1>2, <2>1, StepRenewals, StepTarget
  <2> QED  BY <2>2, <2>3, <2>4, <2>5, <2>6
<1>3. CASE UNCHANGED vars
  BY <1>3 DEF vars, fileVars, threadVars, readVars, Typed, Placed, InPlace, OneSync, Contents,
     Handles, FileOf, Counters, Renewals, OnlyTargetConnected
<1>4. CASE Crash
  BY <1>4, CrashInv
<1> QED  BY <1>1, <1>2, <1>3, <1>4 DEF Next, Starts

(* LastWord is inductive, given Inv.                                       *)
LEMMA NextLastWord == Inv /\ LastWord /\ [Next]_vars => LastWord'
<1> SUFFICES ASSUME Inv, LastWord, [Next]_vars PROVE LastWord'
  OBVIOUS
<1>1. ASSUME NEW t \in Threads, Step(t)
      PROVE  LastWord'
  <2>1. Lands(t)
    BY <1>1, StepPlaces DEF Inv
  <2> QED  BY <1>1, <2>1, StepLastWord
<1>2. CASE UNCHANGED vars
  BY <1>2 DEF vars, fileVars, threadVars, LastWord, Past, Whole, Opened
<1> QED  BY <1>1, <1>2, CrashLastWord, StartLastWord DEF Next, Starts
-----------------------------------------------------------------------------
(* What a thread holds is what its place in its job says, a file is whole, *)
(* empty or garbled as its writers left it, and one sync runs at a time.   *)
THEOREM GraphTypeCorrect == Spec => []TypeOK
<1>1. Inv => TypeOK
  BY Parts DEF Inv
<1> QED  BY <1>1, InitInv, NextInv, PTL DEF Spec

(* However many accounts sign in, in any order and with any crash, the     *)
(* token on disk and in the hands of a sync is the configured target's.    *)
THEOREM TargetOnly == Spec => []OnlyTargetConnected
<1>1. Inv => OnlyTargetConnected
  BY DEF Inv
<1> QED  BY <1>1, InitInv, NextInv, PTL DEF Spec

(* A sync refreshes its token at most once, whatever Graph answers.        *)
THEOREM OneRefresh == Spec => []RefreshedOnce
<1>1. Inv => RefreshedOnce
  BY DEF Inv, Renewals, RefreshedOnce
<1> QED  BY <1>1, InitInv, NextInv, PTL DEF Spec

(* A disconnect or a sign-in spoken while no other thread was about to     *)
(* write or remove the token is not undone by any number of syncs, their   *)
(* refreshes and their crashes.                                            *)
THEOREM LastWordKept == Spec => []OwnerHasLastWord
<1>1. Init => LastWord
  BY DEF Init, LastWord, Disconnected, SignIns, Past
<1>2. LastWord => OwnerHasLastWord
  BY DEF LastWord, Whole, Opened, OwnerHasLastWord
<1> QED  BY <1>1, <1>2, InitInv, NextInv, NextLastWord, PTL DEF Spec
=============================================================================
