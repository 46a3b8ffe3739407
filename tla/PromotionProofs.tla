--------------------------- MODULE PromotionProofs ---------------------------
(***************************************************************************)
(* What promotion decides, and what is left for it to decide.  First the    *)
(* rules, for any senders, headers, addresses, ids and owners: what the     *)
(* stored row is worth as evidence for a later verdict.  Then the Jira      *)
(* sync that brings them issues, for any issues, page cap, project,         *)
(* lookback and minute: no update is lost between two syncs, whatever fails *)
(* and whenever, if the overlap covers the index lag, the delay of the      *)
(* search and the clock's steps.                                           *)
(***************************************************************************)
EXTENDS PromotionRules, JiraSync, TLAPS

(* The fields a signal has, and that a mail carries no API field.          *)
LEMMA InboxSignals ==
  ASSUME NEW sig \in Inbox
  PROVE  /\ sig.kind \in {"mail", "manual", "jira", "freshservice"}
         /\ sig.sender \in Optional(Senders)
         /\ sig.to \subseteq Addresses /\ sig.headers \subseteq HeaderLines
BY InboxAssumption DEF Signals

(* The row keeps every header the rules read.                              *)
LEMMA BulkMailSurvives ==
  ASSUME NEW sig \in Inbox
  PROVE  IsBulkMail(SignalFromSource(StoredRow(sig))) = IsBulkMail(sig)
BY HeadersAssumption DEF IsBulkMail, SignalFromSource, StoredRow, RowWith, SignalContext, HeuristicHeaders

(* A signal without a To list the backfill promotes, every sync promotes.   *)
LEMMA ReplayedVerdict ==
  ASSUME NEW sig \in Inbox, NEW known \in Profiles, sig.to = {},
         ShouldPromote(SignalFromSource(StoredRow(sig)), Unknown)
  PROVE  ShouldPromote(sig, known)
<1> DEFINE replay == SignalFromSource(StoredRow(sig))
<1>1. /\ replay.kind = sig.kind /\ replay.sender = sig.sender
      /\ replay.senderKind = sig.senderKind
  BY DEF SignalFromSource, StoredRow, RowWith, SignalContext
<1>2. IsBulkMail(replay) = IsBulkMail(sig)
  BY BulkMailSurvives
<1>3. ~IsOnlyCopied(sig, known)
  BY DEF IsOnlyCopied
<1>4. sig.kind \notin {"jira", "freshservice"}
  BY <1>1 DEF ShouldPromote, IsAssignedToOwner, IsOwedByOwner, Unknown
<1>5. /\ sig.senderKind # "application" /\ sig.sender \notin Automated
      /\ sig.sender \in TicketSystems \/ ~IsBulkMail(sig)
  <2>1. ShouldPromote(replay, Unknown)
    OBVIOUS
  <2> HIDE DEF replay
  <2>2. Unknown.allowed = {}
    BY DEF Unknown
  <2>3. \/ replay.sender \in Unknown.allowed
        \/ /\ replay.senderKind # "application" /\ replay.sender \notin Automated
           /\ replay.sender \in TicketSystems \/ ~IsBulkMail(replay)
    BY <2>1, <1>1, <1>4 DEF ShouldPromote
  <2> QED BY <1>1, <1>2, <2>2, <2>3
<1> QED BY <1>3, <1>4, <1>5 DEF ShouldPromote

LEMMA StoredIsWithContext ==
  ASSUME NEW sig \in Inbox
  PROVE  /\ StoredRow(sig).hasContext /\ ~LegacyRow(sig).hasContext
         /\ StoredRow(sig) # NoRow /\ LegacyRow(sig) # NoRow
         /\ SignalFromSource(StoredRow(sig)).to = sig.to
         /\ StoredRow(sig).kind = sig.kind /\ LegacyRow(sig).kind = sig.kind
BY InboxSignals DEF StoredRow, LegacyRow, RowWith, NoRow, SignalFromSource, SignalContext

(* Every row is what its own source's signal leaves behind.                 *)
THEOREM RowsAreTheirSignals == Spec => []TypeOK
<1>1. Init => TypeOK
  BY DEF Init, TypeOK, NoReport
<1>2. TypeOK /\ [Next]_vars => TypeOK'
  <2> SUFFICES ASSUME TypeOK, [Next]_vars PROVE TypeOK'
    OBVIOUS
  <2>1. ASSUME NEW s \in Sources, PersistSignal(s) PROVE TypeOK'
    <3>1. StoredRow(arrived[s]) \in Rows /\ StoredRow(arrived[s]) # NoRow
      BY StoredIsWithContext DEF TypeOK, Rows
    <3> QED BY <2>1, <3>1 DEF PersistSignal, TypeOK
  <2>2. ASSUME NEW s \in Sources, StoreWithoutContext(s) PROVE TypeOK'
    <3>1. LegacyRow(arrived[s]) \in Rows /\ LegacyRow(arrived[s]) # NoRow
      BY StoredIsWithContext DEF TypeOK, Rows
    <3> QED BY <2>2, <3>1 DEF StoreWithoutContext, TypeOK
  <2>3. ASSUME NEW s \in Sources, PromoteLive(s) PROVE TypeOK'
    BY <2>3 DEF PromoteLive, TypeOK
  <2>4. CASE Backfill
    <3>1. verdict' \in [Sources -> {"none", "promoted", "declined"}]
      BY <2>4 DEF Backfill, TypeOK
    <3>2. report' \in [considered : SUBSET Sources, promoted : SUBSET Sources,
                       withoutContext : SUBSET Sources, withoutOwnerCheck : SUBSET Sources]
      BY <2>4 DEF Backfill
    <3>3. ASSUME NEW s \in Sources, rows[s] = NoRow
          PROVE  verdict'[s] = "none" /\ s \notin report'.considered
      BY <2>4, <3>3 DEF Backfill, TypeOK
    <3>4. UNCHANGED <<arrived, owner, rows>>
      BY <2>4 DEF Backfill
    <3> QED BY <3>1, <3>2, <3>3, <3>4 DEF TypeOK
  <2>5. CASE UNCHANGED vars
    BY <2>5 DEF vars, TypeOK
  <2> QED BY <2>1, <2>2, <2>3, <2>4, <2>5 DEF Next
<1> QED BY <1>1, <1>2, PTL DEF Spec

(* Whoever the owner is and whatever they allow: what the backfill promotes  *)
(* against the rules is counted.                                           *)
THEOREM BackfillDoubtsAreCounted == Spec => []WrongPromotionsCounted
<1>1. Init => WrongPromotionsCounted
  <2>1. Init => report.promoted = {}
    BY DEF Init, NoReport
  <2> QED BY <2>1 DEF WrongPromotionsCounted
<1>2. TypeOK /\ WrongPromotionsCounted /\ [Next]_vars => WrongPromotionsCounted'
  <2> SUFFICES ASSUME TypeOK, WrongPromotionsCounted, [Next]_vars
               PROVE  WrongPromotionsCounted'
    OBVIOUS
  <2>1. CASE UNCHANGED <<arrived, owner, report>>
    BY <2>1 DEF WrongPromotionsCounted
  <2>2. CASE Backfill
    <3> SUFFICES ASSUME NEW s \in report'.promoted,
                        s \notin report'.withoutContext, s \notin report'.withoutOwnerCheck
                 PROVE  ShouldPromote(arrived[s], owner)
      BY <2>2 DEF Backfill, WrongPromotionsCounted
    <3>1. /\ s \in Sources /\ rows[s] # NoRow /\ rows[s].hasContext
          /\ ShouldPromote(SignalFromSource(rows[s]), Unknown)
          /\ ~PromotedWithoutOwnerCheck(SignalFromSource(rows[s]))
      BY <2>2 DEF Backfill
    <3>2. arrived[s] \in Inbox /\ owner \in Profiles
      BY <3>1, InboxAssumption DEF TypeOK
    <3>3. rows[s] = StoredRow(arrived[s])
      BY <3>1, <3>2, StoredIsWithContext DEF TypeOK
    <3>4. arrived[s].to = {}
      BY <3>1, <3>2, <3>3, StoredIsWithContext DEF PromotedWithoutOwnerCheck
    <3> QED BY <3>1, <3>2, <3>3, <3>4, ReplayedVerdict
  <2> QED BY <2>1, <2>2
          DEF Next, PersistSignal, StoreWithoutContext, PromoteLive, vars
<1> QED BY <1>1, <1>2, RowsAreTheirSignals, PTL DEF Spec

(* A declined API record is declined by every sync that cannot name the      *)
(* owner, so a promoted one is the owner's.                                *)
THEOREM ApiRecordsFailClosed == Spec => []OnlyOwedPromoted
<1>1. Init => OnlyOwedPromoted
  BY DEF Init, OnlyOwedPromoted
<1>2. TypeOK /\ OnlyOwedPromoted /\ [Next]_vars => OnlyOwedPromoted'
  <2> SUFFICES ASSUME TypeOK, OnlyOwedPromoted, [Next]_vars PROVE OnlyOwedPromoted'
    OBVIOUS
  <2>1. CASE UNCHANGED <<arrived, owner, verdict>>
    BY <2>1 DEF OnlyOwedPromoted
  <2>2. ASSUME NEW s \in Sources, PromoteLive(s)
        PROVE  OnlyOwedPromoted'
    <3>1. PICK known \in Recognised : verdict' = [verdict EXCEPT ![s] =
             IF verdict[s] = "promoted" \/ ShouldPromote(arrived[s], known)
             THEN "promoted" ELSE "declined"]
      BY <2>2 DEF PromoteLive
    <3>2. owner \in Profiles
      BY InboxAssumption DEF TypeOK
    <3>3. known.account \in {None, owner.account} /\ known.agent = owner.agent
      <4>1. PICK a \in {{}, owner.addresses}, acc \in {None, owner.account} :
              known = [owner EXCEPT !.addresses = a, !.account = acc]
        BY DEF Recognised
      <4> QED BY <3>2, <4>1 DEF Profiles
    <3>4. ASSUME ShouldPromote(arrived[s], known)
          PROVE  /\ arrived[s].kind = "jira" =>
                      arrived[s].assignee = owner.account /\ owner.account # None
                 /\ arrived[s].kind = "freshservice" =>
                      arrived[s].responder = owner.agent /\ owner.agent # None
      BY <3>3, <3>4 DEF ShouldPromote, IsAssignedToOwner, IsOwedByOwner
    <3>5. UNCHANGED <<arrived, owner>>
      BY <2>2 DEF PromoteLive
    <3> QED BY <3>1, <3>4, <3>5 DEF OnlyOwedPromoted, TypeOK
  <2>3. CASE Backfill
    <3>1. ASSUME NEW s \in Sources, rows[s] # NoRow,
                 ShouldPromote(SignalFromSource(rows[s]), Unknown)
          PROVE  arrived[s].kind \notin {"jira", "freshservice"}
      <4>1. rows[s].kind = arrived[s].kind
        BY <3>1, StoredIsWithContext DEF TypeOK
      <4>2. SignalFromSource(rows[s]).kind = rows[s].kind
        BY DEF SignalFromSource
      <4> QED BY <3>1, <4>1, <4>2
              DEF ShouldPromote, IsAssignedToOwner, IsOwedByOwner, Unknown
    <3>2. \A s \in Sources : verdict'[s] = "promoted" =>
            verdict[s] = "promoted" \/ arrived[s].kind \notin {"jira", "freshservice"}
      BY <2>3, <3>1 DEF Backfill
    <3>3. UNCHANGED <<arrived, owner>>
      BY <2>3 DEF Backfill
    <3> QED BY <3>2, <3>3 DEF OnlyOwedPromoted
  <2> QED BY <2>1, <2>2, <2>3 DEF Next, PersistSignal, StoreWithoutContext, vars
<1> QED BY <1>1, <1>2, RowsAreTheirSignals, PTL DEF Spec

(* Whatever the mail and its sender, the row names the issue the mail named. *)
THEOREM RowsKeepIssueKeys == Spec => []ReplayKeepsIssueKey
<1>1. TypeOK => ReplayKeepsIssueKey
  <2> SUFFICES ASSUME TypeOK, NEW s \in Sources, rows[s] # NoRow, rows[s].hasContext,
                      arrived[s].kind = "mail"
               PROVE  IssueKey(SignalFromSource(rows[s])) = IssueKey(arrived[s])
    BY DEF ReplayKeepsIssueKey
  <2>1. arrived[s] \in Inbox
    BY DEF TypeOK
  <2>2. rows[s] = StoredRow(arrived[s])
    BY <2>1, StoredIsWithContext DEF TypeOK
  <2> QED BY <2>2 DEF IssueKey, SignalFromSource, StoredRow, RowWith, SignalContext
<1> QED BY <1>1, RowsAreTheirSignals, PTL

(* A mail the backfill declines is declined by every sync that does not     *)
(* allow its sender: what declined it is in the row, and the owner's         *)
(* addresses, which are not, can only decline more.                        *)
LEMMA ReplayedDecline ==
  ASSUME NEW sig \in Inbox, NEW known \in Profiles,
         sig.kind \notin {"jira", "freshservice"}, sig.sender \notin known.allowed,
         ShouldPromote(sig, known)
  PROVE  ShouldPromote(SignalFromSource(StoredRow(sig)), Unknown)
<1> DEFINE replay == SignalFromSource(StoredRow(sig))
<1>1. /\ replay.kind = sig.kind /\ replay.sender = sig.sender
      /\ replay.senderKind = sig.senderKind
  BY DEF SignalFromSource, StoredRow, RowWith, SignalContext
<1>2. IsBulkMail(replay) = IsBulkMail(sig)
  BY BulkMailSurvives
<1>3. /\ sig.senderKind # "application" /\ sig.sender \notin Automated
      /\ sig.sender \in TicketSystems \/ ~IsBulkMail(sig)
  BY DEF ShouldPromote
<1>4. ~IsOnlyCopied(replay, Unknown)
  BY DEF IsOnlyCopied, Unknown
<1>5. ShouldPromote(replay, Unknown)
  <2> HIDE DEF replay
  <2> QED BY <1>1, <1>2, <1>3, <1>4 DEF ShouldPromote
<1> QED BY <1>5

(* Whoever the owner is: what the backfill declines against the rules is     *)
(* counted, or an issue or a ticket, or from a sender they allow.          *)
THEOREM DeclinesAreExplained == Spec => []WrongDeclinesExplained
<1>1. Init => WrongDeclinesExplained
  <2>1. Init => report.considered = {}
    BY DEF Init, NoReport
  <2> QED BY <2>1 DEF WrongDeclinesExplained
<1>2. TypeOK /\ WrongDeclinesExplained /\ [Next]_vars => WrongDeclinesExplained'
  <2> SUFFICES ASSUME TypeOK, WrongDeclinesExplained, [Next]_vars
               PROVE  WrongDeclinesExplained'
    OBVIOUS
  <2>1. CASE UNCHANGED <<arrived, owner, report>>
    BY <2>1 DEF WrongDeclinesExplained
  <2>2. CASE Backfill
    <3> SUFFICES ASSUME NEW s \in report'.considered \ report'.promoted,
                        ShouldPromote(arrived[s], owner),
                        arrived[s].kind \notin {"jira", "freshservice"},
                        s \notin report'.withoutContext,
                        arrived[s].sender \notin owner.allowed
                 PROVE  FALSE
      BY <2>2 DEF Backfill, WrongDeclinesExplained
    <3>1. /\ s \in Sources /\ rows[s] # NoRow /\ rows[s].hasContext
          /\ ~ShouldPromote(SignalFromSource(rows[s]), Unknown)
      BY <2>2 DEF Backfill
    <3>2. arrived[s] \in Inbox /\ owner \in Profiles
      BY <3>1, InboxAssumption DEF TypeOK
    <3>3. rows[s] = StoredRow(arrived[s])
      BY <3>1, <3>2, StoredIsWithContext DEF TypeOK
    <3> QED BY <3>1, <3>2, <3>3, ReplayedDecline
  <2> QED BY <2>1, <2>2
          DEF Next, PersistSignal, StoreWithoutContext, PromoteLive, vars
<1> QED BY <1>1, <1>2, RowsAreTheirSignals, PTL DEF Spec
-----------------------------------------------------------------------------
USE RemoteAssumption, WindowAssumption

(* What the rounded-up gap is worth.                                       *)
LEMMA CeilingCovers ==
  ASSUME NEW gap \in Int
  PROVE  /\ Ceiling(gap) \in Int /\ Ceiling(gap) * Minute >= gap
         /\ gap >= 0 => Ceiling(gap) >= 0
<1>1. (-gap) \div Minute \in Int
  OBVIOUS
<1>2. ((-gap) \div Minute) * Minute <= -gap
  OBVIOUS
<1>3. gap >= 0 => (-gap) \div Minute <= 0
  BY <1>1, <1>2
<1> QED BY <1>1, <1>2, <1>3 DEF Ceiling

(* A window is one Jira accepts, and is either the whole lookback or        *)
(* reaches the overlap beyond the cursor.                                  *)
LEMMA WindowReaches ==
  ASSUME NEW last \in Int \cup {NoCursor}, NEW local \in Int
  PROVE  /\ WindowMinutes(last, local) \in 1..Lookback
         /\ \/ WindowMinutes(last, local) = Lookback
            \/ /\ last \in Int
               /\ WindowMinutes(last, local) * Minute >= local - last + Overlap * Minute
<1>1. CASE last = NoCursor \/ (last # NoCursor /\ last > local)
  BY <1>1 DEF WindowMinutes
<1>2. CASE ~(last = NoCursor \/ (last # NoCursor /\ last > local))
  <2> DEFINE minutes == Ceiling(local - last) + Overlap
  <2>1. last \in Int /\ local - last \in Int /\ local - last >= 0
    BY <1>2
  <2>2. /\ Ceiling(local - last) \in Int /\ Ceiling(local - last) >= 0
        /\ Ceiling(local - last) * Minute >= local - last
    BY <2>1, CeilingCovers
  <2>3. minutes \in Int /\ minutes >= 1 /\ minutes * Minute >= local - last + Overlap * Minute
    BY <2>1, <2>2
  <2>4. WindowMinutes(last, local) = IF minutes < Lookback THEN minutes ELSE Lookback
    BY <1>2 DEF WindowMinutes
  <2> QED BY <2>1, <2>3, <2>4
<1> QED BY <1>1, <1>2

LEMMA PagesAreHits == ASSUME NEW hits, NEW top \in Pages(hits) PROVE top \subseteq hits
BY DEF Pages

(* The window a sync asks for is one Jira accepts, the cursor is a start    *)
(* time, and rows live only between the search and the verdicts.           *)
THEOREM JiraTypeCorrect == JiraSpec => []JiraTypeOK
<1>1. JiraInit => JiraTypeOK
  BY DEF JiraInit, RemoteInit, JiraTypeOK, RemoteTypeOK, Nothing, Time
<1>2. JiraTypeOK /\ [JiraNext]_jiraVars => JiraTypeOK'
  <2> SUFFICES ASSUME JiraTypeOK, [JiraNext]_jiraVars PROVE JiraTypeOK'
    OBVIOUS
  <2>1. CASE Start
    <3>1. Local \in Int /\ cursor \in Int \cup {NoCursor}
      BY DEF JiraTypeOK, RemoteTypeOK, Time, Local
    <3>2. window' \in 1..Lookback
      BY <2>1, <3>1, WindowReaches DEF Start
    <3> QED BY <2>1, <3>2 DEF Start, JiraTypeOK, RemoteTypeOK, remoteVars, Time, Local
  <2>2. CASE Search
    <3>1. \A i \in Issues : fetched'[i] \in {0, searchable[i]}
      BY <2>2 DEF Search
    <3>2. fetched' \in [Issues -> Time]
      BY <2>2 DEF Search, JiraTypeOK, RemoteTypeOK, Time
    <3>3. dropped' \subseteq Issues
      BY <2>2 DEF Search, JiraTypeOK, InWindow
    <3> QED BY <2>2, <3>1, <3>2, <3>3 DEF Search, JiraTypeOK, RemoteTypeOK, remoteVars, Time
  <2>3. ASSUME NEW known \in BOOLEAN, Promote(known) PROVE JiraTypeOK'
    <3>1. judged' \in [Issues -> Time] /\ \A i \in Issues : judged'[i] <= updated[i]
      BY <2>3 DEF Promote, Judging, Later, JiraTypeOK, RemoteTypeOK, Time
    <3> QED BY <2>3, <3>1 DEF Promote, Forget, Nothing, JiraTypeOK, RemoteTypeOK, remoteVars, Time
  <2>4. CASE Record
    BY <2>4 DEF Record, Forget, Nothing, JiraTypeOK, RemoteTypeOK, remoteVars, Time
  <2>5. CASE Fail
    <3>1. judged' \in [Issues -> Time] /\ \A i \in Issues : judged'[i] <= updated[i]
      BY <2>5 DEF Fail, Judging, Later, JiraTypeOK, RemoteTypeOK, Time
    <3> QED BY <2>5, <3>1 DEF Fail, Forget, Nothing, JiraTypeOK, RemoteTypeOK, remoteVars, Time
  <2>6. CASE Wait
    BY <2>6 DEF Wait, Tick, JiraTypeOK, RemoteTypeOK, syncVars, Time
  <2>7. CASE StepClock /\ UNCHANGED syncVars
    BY <2>7 DEF StepClock, JiraTypeOK, RemoteTypeOK, syncVars, Time
  <2>8. ASSUME NEW i \in Issues, Change(i) PROVE JiraTypeOK'
    BY <2>8 DEF Change, Update, JiraTypeOK, RemoteTypeOK, Time
  <2>9. ASSUME NEW i \in Issues, Index(i), UNCHANGED syncVars PROVE JiraTypeOK'
    BY <2>9 DEF Index, JiraTypeOK, RemoteTypeOK, syncVars, Time
  <2>10. CASE UNCHANGED jiraVars
    BY <2>10 DEF jiraVars, remoteVars, syncVars, JiraTypeOK, RemoteTypeOK, Time
  <2> QED BY <2>1, <2>2, <2>3, <2>4, <2>5, <2>6, <2>7, <2>8, <2>9, <2>10 DEF JiraNext
<1> QED BY <1>1, <1>2, PTL DEF JiraSpec

(* What is known of an update nobody has judged, for each stage of a sync.  *)
Open(i) ==
  /\ updated[i] > judged[i] /\ i \notin dropped
  /\ updated[i] >= now + MaxDelay - Lookback * Minute

InHand(i) ==
  /\ updated[i] + MaxLag >= since
  /\ pc = "searching" => updated[i] >= begun + MaxDelay - window * Minute
  /\ pc = "fetched" => fetched[i] = updated[i] \/ updated[i] + MaxLag >= begun
  /\ pc = "judged" => updated[i] + MaxLag >= begun

AllInHand == \A i \in Issues : Open(i) => InHand(i)
ReachesBack ==
  pc = "searching" => window = Lookback \/ begun + MaxDelay - window * Minute <= since

(* A sync that starts now reaches every update it has left, and the start   *)
(* of the last successful one.                                             *)
LEMMA WindowSuffices ==
  ASSUME JiraTypeOK, OverlapSuffices
  PROVE  /\ \A i \in Issues : Open(i) /\ InHand(i) =>
              updated[i] >= now + MaxDelay - WindowMinutes(cursor, Local) * Minute
         /\ \/ WindowMinutes(cursor, Local) = Lookback
            \/ now + MaxDelay - WindowMinutes(cursor, Local) * Minute <= since
<1> DEFINE w == WindowMinutes(cursor, Local)
<1>1. /\ cursor \in Int \cup {NoCursor} /\ Local \in Int
      /\ now \in Int /\ since \in Int /\ Local >= now
      /\ cursor # NoCursor => cursor <= since + MaxSkew
      /\ updated \in [Issues -> Int]
  BY DEF JiraTypeOK, RemoteTypeOK, Time, Local
<1>2. /\ w \in Int
      /\ \/ w = Lookback
         \/ /\ cursor \in Int
            /\ w * Minute >= Local - cursor + Overlap * Minute
  BY <1>1, WindowReaches
<1> HIDE DEF w
<1>3. w * Minute \in Int /\ Overlap * Minute \in Int /\ Lookback * Minute \in Int
  BY <1>2
<1>4. CASE w = Lookback
  <2>1. \A i \in Issues : Open(i) => updated[i] >= now + MaxDelay - w * Minute
    BY <1>4 DEF Open
  <2> QED BY <1>4, <2>1 DEF w
<1>5. CASE cursor \in Int /\ w * Minute >= Local - cursor + Overlap * Minute
  <2>1. now + MaxDelay - w * Minute <= since - MaxLag
    BY <1>1, <1>3, <1>5 DEF OverlapSuffices
  <2>2. \A i \in Issues : InHand(i) => updated[i] >= now + MaxDelay - w * Minute
    BY <1>1, <1>3, <2>1 DEF InHand
  <2> QED BY <1>1, <1>3, <2>1, <2>2 DEF w
<1> QED BY <1>2, <1>4, <1>5

(* No step reopens an update that is closed, except by making a new one.    *)
LEMMA StillOpen ==
  ASSUME JiraTypeOK, JiraTypeOK', NEW i \in Issues, updated'[i] = updated[i],
         judged[i] <= judged'[i], dropped \subseteq dropped', now <= now', Open(i)'
  PROVE  Open(i)
<1>1. /\ now \in Int /\ now' \in Int /\ updated[i] \in Int
      /\ judged[i] \in Int /\ judged'[i] \in Int /\ Lookback * Minute \in Int
  BY DEF JiraTypeOK, RemoteTypeOK, Time
<1> QED BY <1>1 DEF Open

(* The inductive step.                                                     *)
LEMMA InHandStep ==
  ASSUME OverlapSuffices, JiraTypeOK, JiraTypeOK', AllInHand, ReachesBack, [JiraNext]_jiraVars
  PROVE  AllInHand' /\ ReachesBack'
<1> USE DEF AllInHand
<1>0. /\ now \in Int /\ since \in Int /\ begun \in Int /\ window \in Int
      /\ since <= now /\ begun <= now
      /\ updated \in [Issues -> Int] /\ judged \in [Issues -> Int] /\ searchable \in [Issues -> Int]
      /\ fetched \in [Issues -> Int]
  BY DEF JiraTypeOK, RemoteTypeOK, Time
<1>1. CASE Start
  <2>1. \A i \in Issues : Open(i)' => Open(i)
    BY <1>1 DEF Start, Open, remoteVars
  <2>2. /\ pc' = "searching" /\ begun' = now /\ since' = since /\ updated' = updated
        /\ window' = WindowMinutes(cursor, Local)
    BY <1>1 DEF Start, remoteVars
  <2>3. \A i \in Issues : Open(i)' => InHand(i)'
    BY <2>1, <2>2, WindowSuffices DEF InHand
  <2>4. ReachesBack'
    BY <2>2, WindowSuffices DEF ReachesBack
  <2> QED BY <2>3, <2>4
<1>2. CASE Search
  <2>1. /\ pc = "searching" /\ pc' = "fetched"
        /\ UNCHANGED <<remoteVars, begun, since, judged>>
    BY <1>2 DEF Search
  <2>2. ASSUME NEW i \in Issues, Open(i)'
        PROVE  InHand(i)'
    <3>1. PICK mine \in Pages(InWindow), all \in Pages({j \in Project : searchable[j] > 0}) :
            /\ fetched' = [j \in Issues |-> IF j \in mine \cup all THEN searchable[j] ELSE 0]
            /\ dropped' = dropped \cup (InWindow \ (mine \cup all))
      BY <1>2 DEF Search
    <3>2. Open(i) /\ i \notin dropped'
      BY <2>1, <2>2, <3>1 DEF Open, remoteVars
    <3>3. InHand(i)
      BY <3>2
    <3>4. CASE searchable[i] = updated[i]
      <4>1. searchable[i] > 0
        <5>1. judged[i] \in Nat
          BY DEF JiraTypeOK, Time
        <5> QED BY <1>0, <3>2, <3>4, <5>1 DEF Open
      <4>2. searchable[i] >= now - window * Minute
        <5>1. updated[i] >= begun + MaxDelay - window * Minute /\ now - begun <= MaxDelay
          BY <2>1, <3>3 DEF InHand, JiraTypeOK
        <5>2. window * Minute \in Int
          BY <1>0
        <5> QED BY <1>0, <3>4, <5>1, <5>2
      <4>3. i \in mine \cup all
        BY <3>1, <3>2, <4>1, <4>2 DEF InWindow
      <4> QED BY <2>1, <3>1, <3>3, <3>4, <4>3 DEF InHand, remoteVars
    <3>5. CASE searchable[i] # updated[i]
      <4>1. now - updated[i] <= MaxLag
        BY <3>5 DEF JiraTypeOK, RemoteTypeOK
      <4>2. updated[i] + MaxLag >= begun
        BY <1>0, <4>1
      <4> QED BY <2>1, <3>3, <4>2 DEF InHand, remoteVars
    <3> QED BY <3>4, <3>5
  <2> QED BY <2>1, <2>2 DEF ReachesBack
<1>3. ASSUME NEW known \in BOOLEAN, Promote(known)
      PROVE  AllInHand' /\ ReachesBack'
  <2>1. \A i \in Issues : judged[i] <= judged'[i]
    BY <1>0, <1>3 DEF Promote, Judging, Later
  <2>2. /\ UNCHANGED <<now, updated, dropped, since>> /\ pc = "fetched"
        /\ pc' = "idle" \/ (pc' = "judged" /\ judged' = Judging(Issues) /\ begun' = begun)
    BY <1>3 DEF Promote, Forget, remoteVars
  <2>3. \A i \in Issues : Open(i)' => Open(i)
    BY <1>0, <2>1, <2>2, StillOpen
  <2>4. \A i \in Issues : judged' = Judging(Issues) /\ fetched[i] = updated[i] => ~Open(i)'
    BY <1>0, <2>2 DEF Judging, Later, Open
  <2> QED BY <2>2, <2>3, <2>4 DEF InHand, ReachesBack
<1>4. CASE Record
  <2>1. /\ pc = "judged" /\ pc' = "idle" /\ since' = begun
        /\ UNCHANGED <<now, updated, dropped, judged>>
    BY <1>4 DEF Record, Forget, remoteVars
  <2>2. \A i \in Issues : Open(i)' => Open(i)
    BY <2>1 DEF Open
  <2> QED BY <2>1, <2>2 DEF InHand, ReachesBack
<1>5. CASE Fail
  <2>1. /\ pc' = "idle" /\ UNCHANGED <<now, updated, dropped, since>>
    BY <1>5 DEF Fail, Forget, remoteVars
  <2>2. \A i \in Issues : judged[i] <= judged'[i]
    BY <1>0, <1>5 DEF Fail, Judging, Later
  <2>3. \A i \in Issues : Open(i)' => Open(i)
    BY <1>0, <2>1, <2>2, StillOpen
  <2> QED BY <2>1, <2>3 DEF InHand, ReachesBack
<1>6. CASE Wait
  <2>1. now' = now + 1 /\ UNCHANGED <<updated, syncVars>>
    BY <1>6 DEF Wait, Tick
  <2>2. \A i \in Issues : Open(i)' => Open(i)
    BY <1>0, <2>1, StillOpen DEF syncVars
  <2> QED BY <2>1, <2>2 DEF InHand, ReachesBack, syncVars
<1>7. ASSUME NEW i \in Issues, Change(i)
      PROVE  AllInHand' /\ ReachesBack'
  <2>1. /\ updated' = [updated EXCEPT ![i] = now] /\ dropped' = dropped \ {i}
        /\ UNCHANGED <<now, pc, window, fetched, judged, begun, since>>
    BY <1>7 DEF Change, Update
  <2>2. \A j \in Issues : j # i => (Open(j)' => Open(j)) /\ updated'[j] = updated[j]
    BY <1>0, <2>1 DEF Open
  <2>3. \A j \in Issues : j # i => (Open(j)' => InHand(j)')
    BY <2>1, <2>2 DEF InHand
  <2>4. Open(i)' => InHand(i)'
    <3>1. updated'[i] = now
      BY <1>0, <2>1
    <3>2. pc = "searching" => now >= begun + MaxDelay - window * Minute
      <4>1. Overlap * Minute <= Lookback * Minute /\ Overlap * Minute >= MaxDelay
        BY DEF OverlapSuffices
      <4>2. window * Minute \in Int /\ Lookback * Minute \in Int
        BY <1>0
      <4> QED BY <1>0, <4>1, <4>2 DEF ReachesBack
    <3> QED BY <1>0, <2>1, <3>1, <3>2 DEF InHand
  <2> QED BY <2>1, <2>3, <2>4 DEF ReachesBack
<1>8. CASE UNCHANGED <<now, updated, syncVars>>
  BY <1>8 DEF InHand, Open, ReachesBack, syncVars
<1> QED BY <1>1, <1>2, <1>3, <1>4, <1>5, <1>6, <1>7, <1>8
        DEF JiraNext, StepClock, Index, jiraVars, remoteVars

LEMMA UpdatesInHand == ASSUME OverlapSuffices PROVE JiraSpec => [](AllInHand /\ ReachesBack)
<1>1. JiraInit => AllInHand /\ ReachesBack
  <2>1. ASSUME JiraInit, NEW i \in Issues PROVE InHand(i)
    BY <2>1 DEF JiraInit, RemoteInit, InHand
  <2> QED BY <2>1 DEF JiraInit, AllInHand, ReachesBack
<1>2. JiraTypeOK /\ JiraTypeOK' /\ AllInHand /\ ReachesBack /\ [JiraNext]_jiraVars
        => AllInHand' /\ ReachesBack'
  BY InHandStep
<1> QED BY <1>1, <1>2, JiraTypeCorrect, PTL DEF JiraSpec

(* If the overlap covers index lag, delay and clock steps, the next sync    *)
(* reaches every update no sync has judged, unless it is older than the     *)
(* lookback or a search said it was cut off.                               *)
THEOREM UpdatesReached == ASSUME OverlapSuffices PROVE JiraSpec => []NoUpdateLost
<1>1. JiraTypeOK /\ AllInHand => NoUpdateLost
  <2> SUFFICES ASSUME JiraTypeOK, AllInHand, NEW i \in Issues, updated[i] > judged[i], i \notin dropped,
                      ~(updated[i] < now + MaxDelay - Lookback * Minute)
               PROVE  updated[i] >= now + MaxDelay - WindowMinutes(cursor, Local) * Minute
    BY DEF NoUpdateLost
  <2>1. updated[i] \in Int /\ now \in Int /\ Lookback * Minute \in Int
    BY DEF JiraTypeOK, RemoteTypeOK, Time
  <2>2. Open(i)
    BY <2>1 DEF Open
  <2> QED BY <2>2, WindowSuffices DEF AllInHand
<1> QED BY <1>1, JiraTypeCorrect, UpdatesInHand, PTL

(* Under the same assumption every search reaches the start of the last      *)
(* successful sync, or back over the whole lookback.                       *)
THEOREM GapsCovered == ASSUME OverlapSuffices PROVE JiraSpec => []GapCovered
<1>1. JiraTypeOK /\ ReachesBack => GapCovered
  <2> SUFFICES ASSUME JiraTypeOK, ReachesBack, pc = "searching", window # Lookback
               PROVE  now - window * Minute <= since
    BY DEF GapCovered
  <2>1. /\ now \in Int /\ begun \in Int /\ since \in Int /\ window * Minute \in Int
        /\ now - begun <= MaxDelay
    BY DEF JiraTypeOK, RemoteTypeOK, Time
  <2> QED BY <2>1 DEF ReachesBack
<1> QED BY <1>1, JiraTypeCorrect, UpdatesInHand, PTL
=============================================================================
