--------------------------- MODULE UpgradeProofs ---------------------------
(***************************************************************************)
(* The upgrades for any builds, keys and number of crashes: what the        *)
(* application finds on disk, and why a command may refuse.                *)
(***************************************************************************)
EXTENDS Upgrade, TLAPS

MadeBy(r)   == ToSet(Made[r])
TokenTable  == "browser_sessions"
ExpiryIndex == "ix_browser_sessions_expires_at"

(* What may be missing of a revision that the version number says is there. *)
Lost(r, o) == <<"down", r>> \in cut \/ (<<"up", 10>> \in cut /\ o = ExpiryIndex)
Whole(r)   == \A o \in MadeBy(r) \ objects : Lost(r, o)

(* The revisions up to the version are whole, but for the one that a         *)
(* downgrade is taking away.                                                *)
Schema == \A r \in 1..version : Whole(r) \/ (pc = "dropping" /\ r = version)

(* Below the baseline there is all of it or nothing of it.                  *)
Ground == version = 0 /\ pc # "creating" => ~HalfABaseline \/ <<"up", 1>> \in cut

(* The index of 0010 is never without its table, and the table without its   *)
(* index only while one of them is still to come or to go.                  *)
Paired ==
  /\ ExpiryIndex \in objects => TokenTable \in objects
  /\ TokenTable \in objects =>
       \/ ExpiryIndex \in objects \/ Lost(10, ExpiryIndex)
       \/ pc = "creating" /\ version = 9 /\ ExpiryIndex \in todo
       \/ pc = "dropping" /\ version = 10 /\ ExpiryIndex \notin todo

(* A revision on its way up still has to make what is not there, and none of *)
(* what is; all it may pass over is the index of a table it found.          *)
Making == pc = "creating" =>
  /\ version < image /\ Following \notin {2, 3, 8}
  /\ todo \subseteq MadeBy(Following) \ objects
  /\ \A o \in MadeBy(Following) \ (objects \cup todo) : o = ExpiryIndex /\ Lost(10, o)

(* One on its way down has dropped what it has not still to drop, and began  *)
(* with all it made or with what was lost before.                           *)
Taking == pc = "dropping" =>
  /\ version \in Revisions \ {2, 3}
  /\ todo \subseteq MadeBy(version) /\ (MadeBy(version) \ todo) \cap objects = {}
  /\ todo \subseteq objects \/ (todo = MadeBy(version) /\ Whole(version)) \/ <<"down", version>> \in cut

(* What the rows hold.                                                     *)
Contents ==
  /\ \A col \in Columns : version >= Sealer(col) => "clear" \notin excerpt[col]
  /\ version >= 8 => ~teams
  /\ ~rotated => secret \in Keys /\ \A col \in Columns : excerpt[col] \subseteq {"clear", secret}

Heading == /\ pc \in {"upgrading", "creating"} => version <= image
           /\ pc = "serving" => version = image
           /\ pc # "down" => refused = "no"

UInv == /\ TypeOK /\ Schema /\ Ground /\ Paired /\ Making /\ Taking /\ Contents /\ Heading
        /\ RefusalsExplained
-----------------------------------------------------------------------------
(* What each revision makes, as sets.                                        *)
LEMMA MadeSets ==
  /\ Revisions = 1..12
  /\ MadeBy(1) = {"sources", "work_items", "agent_dispatches", "work_evidence"}
  /\ MadeBy(1) = ToSet(Baseline)
  /\ MadeBy(2) = {} /\ MadeBy(3) = {} /\ MadeBy(8) = {}
  /\ MadeBy(4) = {"source_signal_context"}
  /\ MadeBy(5) = {"source_promotions"}
  /\ MadeBy(6) = {"ix_work_items_status", "ix_work_items_source_kind", "ix_work_items_updated_at",
                  "ix_sources_kind", "ix_sources_observed_at"}
  /\ MadeBy(7) = {"ix_work_items_assigned_agent"}
  /\ MadeBy(9) = {"work_item_issue_keys"}
  /\ MadeBy(10) = {TokenTable, ExpiryIndex}
  /\ MadeBy(11) = {"sync_cursors"}
  /\ MadeBy(12) = {"work_item_analyses", "grimoire_project_snapshot"}
<1>1. Revisions = 1..12
  BY DEF Revisions, Made
<1>2. \A a, b, c, d, e :
        /\ ToSet(<<>>) = {}
        /\ ToSet(<<a>>) = {a}
        /\ ToSet(<<a, b>>) = {a, b}
        /\ ToSet(<<a, b, c, d>>) = {a, b, c, d}
        /\ ToSet(<<a, b, c, d, e>>) = {a, b, c, d, e}
  BY DEF ToSet
<1>3. /\ Made[1] = Baseline /\ Made[2] = <<>> /\ Made[3] = <<>> /\ Made[4] = SignalContext
      /\ Made[5] = JudgedSources /\ Made[6] = Indexes /\ Made[7] = AgentIndex /\ Made[8] = <<>>
      /\ Made[9] = IssueKeys /\ Made[10] = BrowserSessions /\ Made[11] = SyncCursors
      /\ Made[12] = GrimoireTables
  BY DEF Made
<1> QED BY <1>1, <1>2, <1>3 DEF MadeBy, Baseline, SignalContext, JudgedSources, Indexes, AgentIndex,
  IssueKeys, BrowserSessions, SyncCursors, GrimoireTables, TokenTable, ExpiryIndex

(* No two revisions make the same object, and the ones 0010 makes are its    *)
(* own.                                                                    *)
LEMMA MadeOnce ==
  /\ \A r, s \in Revisions : r # s => MadeBy(r) \cap MadeBy(s) = {}
  /\ \A r \in Revisions : TokenTable \in MadeBy(r) \/ ExpiryIndex \in MadeBy(r) => r = 10
BY MadeSets DEF TokenTable, ExpiryIndex

(* What an object takes with it when it is dropped was not made before it,   *)
(* and beside the table of 0010 nothing its own revision made.              *)
LEMMA TakenAlong ==
  ASSUME NEW v \in Revisions, NEW o \in MadeBy(v)
  PROVE  /\ \A r \in 1..(v - 1) : MadeBy(r) \cap ({o} \cup IndexesOf(o)) = {}
         /\ o # TokenTable => ExpiryIndex \notin IndexesOf(o) /\ IndexesOf(o) \cap MadeBy(v) = {}
         /\ o = TokenTable => ExpiryIndex \in IndexesOf(o)
         /\ TokenTable \notin IndexesOf(o)
BY MadeSets DEF IndexesOf, TokenTable, ExpiryIndex

(* The object whose turn it is is still to do; of two, the second one waits  *)
(* for the first.                                                          *)
LEMMA TurnFacts ==
  /\ \A list : \A o \in Turn(list) : o \in todo
  /\ \A a, b : a # b /\ b \in Turn(<<a, b>>) => a \notin todo
<1>1. \A list : \A o \in Turn(list) : o \in todo
  BY DEF Turn
<1>2. ASSUME NEW a, NEW b, a # b, b \in Turn(<<a, b>>)
      PROVE  a \notin todo
  <2> DEFINE list == <<a, b>>
  <2>1. DOMAIN list = {1, 2} /\ list[1] = a /\ list[2] = b
    OBVIOUS
  <2> HIDE DEF list
  <2>2. PICK n \in DOMAIN list : list[n] = b /\ \A p \in 1..(n - 1) : list[p] \notin todo
    BY <1>2 DEF Turn, list
  <2>3. n = 2
    BY <2>1, <2>2, <1>2
  <2> QED BY <2>1, <2>2, <2>3
<1> QED BY <1>1, <1>2

(* 0010 makes its table before the index and drops it after; whatever is     *)
(* dropped, its revision made.                                             *)
LEMMA TableAndIndex ==
  /\ Made[10] = <<TokenTable, ExpiryIndex>>
  /\ Dropped(10) = <<ExpiryIndex, TokenTable>>
<1>1. Made[10] = BrowserSessions
  BY DEF Made
<1>2. Reverse(<<TokenTable, ExpiryIndex>>) = <<ExpiryIndex, TokenTable>>
  BY DEF Reverse
<1> QED BY <1>1, <1>2 DEF BrowserSessions, TokenTable, ExpiryIndex, Dropped

(* The objects of the revisions up to one.                                  *)
LEMMA ObjectsUpTo ==
  /\ \A n : \A r \in 1..n : MadeBy(r) \subseteq Objects(n)
  /\ \A n : \A o \in Objects(n) : \E r \in 1..n : o \in MadeBy(r)
BY DEF Objects, MadeBy

(* No build has objects the chain does not make.                            *)
LEMMA ObjectsMade == \A n \in 0..12 : Objects(n) \subseteq Objects(12)
<1> SUFFICES ASSUME NEW n \in 0..12, NEW o \in Objects(n) PROVE o \in Objects(12)
  OBVIOUS
<1>1. PICK r \in 1..n : o \in MadeBy(r)
  BY ObjectsUpTo
<1> QED BY <1>1, ObjectsUpTo
-----------------------------------------------------------------------------
(* A database that was never upgraded by Alembic.                           *)
LEMMA InitUInv == Init => UInv
<1> SUFFICES ASSUME Init PROVE UInv
  OBVIOUS
<1> USE ImagesAssumption, SecretsAssumption
<1>1. PICK build \in 0..image : objects = Objects(build) /\ teams \in {FALSE, (build \in 1..7)}
             /\ \A col \in Columns : excerpt[col] \subseteq {"clear", secret}
  BY DEF Init
<1>2. image \in 1..12 /\ build \in 0..12
  BY <1>1, MadeSets DEF Init
<1>3. objects \subseteq Objects(12)
  BY <1>1, <1>2, ObjectsMade
<1>4. TypeOK
  <2>1. excerpt \in [Columns -> SUBSET ({"clear"} \cup Keys)]
    BY DEF Init
  <2>2. teams \in BOOLEAN
    <3>1. CASE teams = FALSE
      BY <3>1, Zenon
    <3>2. CASE teams = (build \in 1..7)
      <4> DEFINE Q == build \in 1..7
      <4>1. teams = TRUE \/ teams = FALSE
        <5>1. (Q = TRUE) \/ (Q = FALSE)
          OBVIOUS
        <5>2. teams = Q
          BY <3>2
        <5> HIDE DEF Q
        <5> QED BY <5>1, <5>2
      <4> QED BY <4>1, Zenon
    <3> QED BY <1>1, <3>1, <3>2
  <2>3. /\ rotated \in BOOLEAN
        /\ pc \in {"down", "upgrading", "creating", "dropping", "serving"}
        /\ (todo # {} => \/ pc = "creating" /\ todo \subseteq ToSet(Made[Following])
                         \/ pc = "dropping" /\ todo \subseteq ToSet(Made[version]))
        /\ cut \subseteq {"up", "down"} \X Revisions
    BY Zenon DEF Init
  <2>5. version \in 0..12
    BY DEF Init
  <2>4. image \in Images /\ secret \in Keys \cup {NoKey}
    BY DEF Init
  <2> QED BY <1>3, <2>1, <2>2, <2>3, <2>4, <2>5, Zenon DEF TypeOK
<1>5. Ground
  <2>1. CASE build = 0
    BY <1>1, <2>1, ObjectsUpTo DEF HalfABaseline, Ground
  <2>2. CASE build # 0
    <3>1. 1 \in 1..build
      BY <1>2, <2>2
    <3>2. MadeBy(1) \subseteq objects
      BY <3>1, <1>1, ObjectsUpTo
    <3>3. ToSet(Baseline) \cap objects = ToSet(Baseline)
      BY <3>2, MadeSets
    <3> QED BY <3>3 DEF HalfABaseline, Ground
  <2> QED BY <2>1, <2>2
<1>6. Paired
  <2>1. MadeBy(10) \subseteq Objects(build) \/ TokenTable \notin Objects(build)
    <3> SUFFICES ASSUME TokenTable \in Objects(build) PROVE MadeBy(10) \subseteq Objects(build)
      OBVIOUS
    <3>1. PICK r \in 1..build : TokenTable \in MadeBy(r)
      BY ObjectsUpTo
    <3> QED BY <3>1, <1>2, ObjectsUpTo, MadeOnce, MadeSets
  <2>2. ExpiryIndex \in Objects(build) => MadeBy(10) \subseteq Objects(build)
    <3> SUFFICES ASSUME ExpiryIndex \in Objects(build) PROVE MadeBy(10) \subseteq Objects(build)
      OBVIOUS
    <3>1. PICK r \in 1..build : ExpiryIndex \in MadeBy(r)
      BY ObjectsUpTo
    <3> QED BY <3>1, <1>2, ObjectsUpTo, MadeOnce, MadeSets
  <2> QED BY <1>1, <2>1, <2>2, MadeSets DEF Paired
<1>7. Schema /\ Making /\ Taking /\ Heading /\ RefusalsExplained
  BY DEF Init, Schema, Making, Taking, Heading, RefusalsExplained
<1>8. Contents
  BY <1>1 DEF Init, Contents, Sealer
<1> QED BY <1>4, <1>5, <1>6, <1>7, <1>8 DEF UInv
-----------------------------------------------------------------------------
(* A step keeps what the version number and the objects say, if it changes   *)
(* neither and leaves no revision half way up or down.                      *)
LEMMA Rests ==
  ASSUME UInv, UNCHANGED <<version, objects>>, cut \subseteq cut',
         pc' \in {"down", "upgrading", "serving"},
         pc = "creating" => <<"up", Following>> \in cut',
         pc = "dropping" => <<"down", version>> \in cut' \/ Whole(version)
  PROVE  Schema' /\ Ground' /\ Paired' /\ Making' /\ Taking'
<1>1. Schema'
  <2> SUFFICES ASSUME NEW r \in 1..version PROVE Whole(r)'
    BY DEF Schema
  <2>1. Whole(r) \/ <<"down", r>> \in cut'
    BY DEF UInv, Schema
  <2> QED BY <2>1 DEF Whole, Lost
<1>2. Ground'
  BY DEF UInv, Ground, HalfABaseline, Following
<1>3. Paired'
  <2> SUFFICES ASSUME TokenTable \in objects, ExpiryIndex \notin objects PROVE Lost(10, ExpiryIndex)'
    BY DEF UInv, Paired
  <2>1. CASE Lost(10, ExpiryIndex)
    BY <2>1 DEF Lost
  <2>2. CASE pc = "creating" /\ version = 9
    BY <2>2 DEF Lost, Following
  <2>3. CASE pc = "dropping" /\ version = 10
    <3>1. CASE Whole(version)
      BY <3>1, <2>3, MadeSets DEF Whole, Lost
    <3>2. CASE <<"down", version>> \in cut'
      BY <3>2, <2>3 DEF Lost
    <3> QED BY <3>1, <3>2, <2>3
  <2> QED BY <2>1, <2>2, <2>3 DEF UInv, Paired
<1>4. Making' /\ Taking'
  BY DEF Making, Taking
<1> QED BY <1>1, <1>2, <1>3, <1>4

(* A command that ends in an error, if the reason is one it may have.       *)
LEMMA RefusePreserves ==
  ASSUME UInv, NEW why, Refuse(why), UNCHANGED cut,
         pc # "creating", pc = "dropping" => Whole(version),
         why # "exists",
         why = "baseline" => <<"up", 1>> \in cut,
         why = "excerpt" => rotated,
         why = "table" => <<"down", 1>> \in cut \/ <<"down", 4>> \in cut \/ <<"down", 5>> \in cut,
         why = "not there" => cut # {},
         why = "revision" => \E build \in Images : version > build
  PROVE  UInv'
<1>1. Schema' /\ Ground' /\ Paired' /\ Making' /\ Taking'
  BY Rests DEF Refuse
<1>2. TypeOK'
  BY DEF UInv, TypeOK, Refuse, rows
<1>3. Contents' /\ Heading'
  BY DEF UInv, Contents, Refuse, rows, Heading
<1>4. RefusalsExplained'
  BY DEF RefusalsExplained, Refuse
<1> QED BY <1>1, <1>2, <1>3, <1>4 DEF UInv

(* Commands begin and end, builds and keys are replaced, and the process     *)
(* ends.                                                                   *)
LEMMA QuietPreserves ==
  ASSUME UInv, Start \/ Serve \/ Stop \/ Deploy \/ Rekey
  PROVE  UInv'
<1>1. Schema' /\ Ground' /\ Paired' /\ Making' /\ Taking'
  BY Rests DEF Start, Serve, Stop, Deploy, Rekey
<1>2. TypeOK'
  <2>1. CASE Start \/ Serve \/ Stop
    BY <2>1 DEF UInv, TypeOK, Start, Serve, Stop, rows
  <2>2. CASE Deploy
    BY <2>2 DEF UInv, TypeOK, Deploy, rows
  <2>3. CASE Rekey
    BY <2>3 DEF UInv, TypeOK, Rekey, rows
  <2> QED BY <2>1, <2>2, <2>3
<1>3. Contents'
  BY DEF UInv, Contents, Start, Serve, Stop, Deploy, Rekey, rows
<1>4. Heading'
  BY DEF UInv, Heading, Start, Serve, Stop, Deploy, Rekey
<1>5. RefusalsExplained'
  BY DEF UInv, RefusalsExplained, Start, Serve, Stop, Deploy, Rekey
<1> QED BY <1>1, <1>2, <1>3, <1>4, <1>5 DEF UInv

(* A cut revision explains what it left half made or half dropped.          *)
LEMMA CrashPreserves ==
  ASSUME UInv, Crash
  PROVE  UInv'
<1> DEFINE late == CASE pc = "creating" -> {<<"up", Following>>}
                     [] pc = "dropping" -> {<<"down", version>>}
                     [] OTHER -> {}
<1>1. /\ cut' = cut \cup late /\ pc' = "down" /\ todo' = {} /\ refused' = "no"
      /\ UNCHANGED <<image, secret, version, objects, excerpt, teams, rotated>>
  BY DEF Crash, rows
<1>2. /\ pc = "creating" => late = {<<"up", Following>>}
      /\ pc = "dropping" => late = {<<"down", version>>}
      /\ pc \notin {"creating", "dropping"} => late = {}
  OBVIOUS
<1> HIDE DEF late
<1>3. late \subseteq {"up", "down"} \X Revisions
  <2>1. pc = "creating" => Following \in Revisions
    BY MadeSets, ImagesAssumption DEF UInv, Making, TypeOK, Following
  <2>2. pc = "dropping" => version \in Revisions
    BY DEF UInv, Taking
  <2> QED BY <1>2, <2>1, <2>2
<1>4. Schema' /\ Ground' /\ Paired' /\ Making' /\ Taking'
  BY <1>1, <1>2, Rests
<1>5. TypeOK'
  BY <1>1, <1>3 DEF UInv, TypeOK
<1>6. Contents' /\ Heading'
  BY <1>1 DEF UInv, Contents, Heading
<1>7. RefusalsExplained'
  BY <1>1 DEF RefusalsExplained
<1> QED BY <1>4, <1>5, <1>6, <1>7 DEF UInv
-----------------------------------------------------------------------------
(* Upwards.                                                                *)

(* A revision misses a table only if one on the way down lost it.           *)
LEMMA TableMissingPreserves ==
  ASSUME UInv, TableMissing
  PROVE  UInv'
<1>1. PICK r \in Revisions : Upgrading(r) /\ ~(Needs(r) \subseteq objects)
  BY DEF TableMissing
<1>2. PICK o \in Needs(r) : o \notin objects
  BY <1>1
<1>3. pc = "upgrading" /\ version \in 0..12 /\ r = version + 1
  BY <1>1 DEF Upgrading, Following, UInv, TypeOK
<1>4. \E s \in {1, 4, 5} : s <= version /\ o \in MadeBy(s)
  <2>1. CASE r = 8
    <3>1. o \in Objects(5)
      BY <2>1 DEF Needs
    <3>2. PICK s \in 1..5 : o \in MadeBy(s)
      BY <3>1, ObjectsUpTo
    <3> QED BY <3>2, <2>1, <1>3, MadeSets
  <2>2. CASE r # 8
    <3>1. r \in {2, 3, 6, 7} /\ o \in {"sources", "work_items", "work_evidence"}
      BY <2>2 DEF Needs
    <3> QED BY <3>1, <1>3, MadeSets
  <2> QED BY <2>1, <2>2
<1>5. PICK s \in {1, 4, 5} : s <= version /\ o \in MadeBy(s)
  BY <1>4
<1>6. o # ExpiryIndex
  BY <1>5, MadeOnce, MadeSets
<1>7. <<"down", s>> \in cut
  <2>1. s \in 1..version
    BY <1>3, <1>5
  <2>2. Whole(s)
    BY <2>1, <1>3 DEF UInv, Schema
  <2> QED BY <2>2, <1>2, <1>5, <1>6 DEF Whole, Lost
<1>8. Refuse("table") /\ UNCHANGED cut
  BY DEF TableMissing
<1> HIDE DEF UInv
<1> QED BY <1>3, <1>5, <1>7, <1>8, RefusePreserves

(* Half a baseline is one that was cut short.                               *)
LEMMA RefuseBaselinePreserves ==
  ASSUME UInv, RefuseBaseline
  PROVE  UInv'
<1>1. version = 0 /\ pc = "upgrading" /\ HalfABaseline
  BY DEF RefuseBaseline, Upgrading, Following, UInv, TypeOK
<1>2. <<"up", 1>> \in cut
  BY <1>1 DEF UInv, Ground
<1> QED BY <1>1, <1>2, RefusePreserves DEF RefuseBaseline

(* An older image refuses a newer database and changes nothing.             *)
LEMMA UnknownRevisionPreserves ==
  ASSUME UInv, UnknownRevision
  PROVE  UInv'
BY RefusePreserves DEF UnknownRevision, UInv, TypeOK

(* What a revision will make is all that is not there, but for an index that *)
(* was lost with a table still there.                                       *)
LEMMA BeginPreserves ==
  ASSUME UInv, NEW r \in Revisions, Begin(r)
  PROVE  UInv'
<1>1. /\ pc = "upgrading" /\ version < image /\ r = Following /\ r \notin {2, 3, 8}
      /\ pc' = "creating" /\ todo' = Missing(r)
      /\ UNCHANGED <<image, secret, version, objects, excerpt, teams, refused, cut, rotated>>
  BY DEF Begin, Upgrading, rows
<1>2. version \in 0..12
  BY DEF UInv, TypeOK
<1>3. r # 10 => Missing(r) = MadeBy(r) \ objects
  BY DEF Missing, MadeBy
<1>4. r = 10 => IF TokenTable \in objects THEN Missing(r) = {} ELSE Missing(r) = MadeBy(r)
  BY DEF Missing, MadeBy, TokenTable
<1>5. r = 10 /\ TokenTable \in objects => ExpiryIndex \in objects \/ Lost(10, ExpiryIndex)
  BY <1>1 DEF UInv, Paired
<1>6. r = 10 /\ TokenTable \notin objects => ExpiryIndex \notin objects
  BY DEF UInv, Paired
<1>7. Missing(r) \subseteq MadeBy(r) \ objects
  <2>1. CASE r = 10
    BY <2>1, <1>4, <1>6, MadeSets
  <2>2. CASE r # 10
    BY <2>2, <1>3
  <2> QED BY <2>1, <2>2
<1>8. Making'
  <2>1. \A o \in MadeBy(r) \ (objects \cup Missing(r)) : o = ExpiryIndex /\ Lost(10, o)
    <3>1. CASE r = 10
      BY <3>1, <1>4, <1>5, MadeSets
    <3>2. CASE r # 10
      BY <3>2, <1>3
    <3> QED BY <3>1, <3>2
  <2> QED BY <2>1, <1>1, <1>7 DEF Making, Following, Lost
<1>9. Schema' /\ Ground' /\ Taking' /\ Contents' /\ Heading' /\ RefusalsExplained'
  <2>1. Schema'
    BY <1>1 DEF UInv, Schema, Whole, Lost
  <2> QED BY <2>1, <1>1 DEF UInv, Ground, Taking, Contents, Heading, RefusalsExplained
<1>10. Paired'
  BY <1>1 DEF UInv, Paired, Lost
<1>11. TypeOK'
  <2>1. todo' \subseteq ToSet(Made[Following])
    BY <1>1, <1>7 DEF MadeBy
  <2> QED BY <2>1, <1>1 DEF UInv, TypeOK, Following
<1> QED BY <1>8, <1>9, <1>10, <1>11 DEF UInv

(* What is created was not there, and the index of 0010 comes to its table.  *)
LEMMA CreatePreserves ==
  ASSUME UInv, Create
  PROVE  UInv'
<1>1. PICK o \in Turn(Made[Following]) :
        \/ o \in objects /\ Refuse("exists")
        \/ /\ o \notin objects
           /\ objects' = objects \cup {o} /\ todo' = todo \ {o}
           /\ UNCHANGED <<image, secret, version, rows, pc, refused, rotated>>
  BY DEF Create
<1>2. pc = "creating" /\ UNCHANGED cut
  BY DEF Create
<1>3. version \in 0..12 /\ Following = version + 1 /\ Following \in Revisions
  BY <1>2, MadeSets, ImagesAssumption DEF UInv, Making, TypeOK, Following
<1>4. o \in todo /\ o \in MadeBy(Following) /\ o \notin objects
  BY <1>1, <1>2, TurnFacts DEF UInv, Making
<1>5. /\ objects' = objects \cup {o} /\ todo' = todo \ {o}
      /\ UNCHANGED <<image, secret, version, excerpt, teams, pc, refused, cut, rotated>>
  BY <1>1, <1>2, <1>4 DEF rows
<1>6. o = ExpiryIndex => TokenTable \in objects
  <2> SUFFICES ASSUME o = ExpiryIndex PROVE TokenTable \in objects
    OBVIOUS
  <2>1. Following = 10
    BY <1>3, <1>4, MadeOnce
  <2>2. TokenTable # ExpiryIndex
    BY DEF TokenTable, ExpiryIndex
  <2>3. TokenTable \notin todo
    BY <2>1, <2>2, TurnFacts, TableAndIndex
  <2> QED BY <2>1, <2>2, <2>3, <1>2, MadeSets DEF UInv, Making
<1>7. Schema'
  BY <1>5 DEF UInv, Schema, Whole, Lost
<1>8. Ground' /\ Taking' /\ Contents' /\ Heading' /\ RefusalsExplained'
  BY <1>2, <1>5 DEF UInv, Ground, Taking, Contents, Heading, RefusalsExplained
<1>9. Making'
  BY <1>2, <1>5 DEF UInv, Making, Following, Lost
<1>10. Paired'
  <2>1. ExpiryIndex \in objects' => TokenTable \in objects'
    BY <1>5, <1>6 DEF UInv, Paired
  <2>2. CASE o = TokenTable
    <3>1. Following = 10 /\ ExpiryIndex \notin objects /\ ExpiryIndex # o
      BY <2>2, <1>3, <1>4, MadeOnce DEF UInv, Paired, TokenTable, ExpiryIndex
    <3>2. ExpiryIndex \in todo \/ Lost(10, ExpiryIndex)
      BY <3>1, <1>2, MadeSets DEF UInv, Making
    <3> QED BY <2>1, <3>1, <3>2, <1>2, <1>3, <1>5 DEF Paired, Lost
  <2>3. CASE o # TokenTable
    BY <2>1, <2>3, <1>2, <1>5 DEF UInv, Paired, Lost
  <2> QED BY <2>2, <2>3
<1>11. TypeOK'
  <2>1. o \in Objects(12)
    BY <1>3, <1>4, ObjectsUpTo, MadeSets
  <2>2. todo' \subseteq ToSet(Made[Following])
    BY <1>2, <1>5 DEF UInv, Making, MadeBy
  <2> QED BY <2>1, <2>2, <1>2, <1>5 DEF UInv, TypeOK, Following
<1> QED BY <1>7, <1>8, <1>9, <1>10, <1>11 DEF UInv

(* A revision that has nothing left to make is whole.                       *)
LEMMA RecordPreserves ==
  ASSUME UInv, Record
  PROVE  UInv'
<1>1. /\ pc = "creating" /\ todo = {} /\ version' = version + 1 /\ pc' = "upgrading"
      /\ UNCHANGED <<image, secret, objects, excerpt, teams, todo, refused, cut, rotated>>
  BY DEF Record, Following, rows
<1>2. version \in 0..12 /\ image \in 1..12 /\ version < image /\ version + 1 \notin {2, 3, 8}
  BY <1>1, MadeSets, ImagesAssumption DEF UInv, Making, TypeOK, Following
<1>3. \A r \in 1..version' : Whole(r)
  <2> SUFFICES ASSUME NEW r \in 1..version' PROVE Whole(r)
    OBVIOUS
  <2>1. CASE r \in 1..version
    BY <2>1, <1>1 DEF UInv, Schema
  <2>2. CASE r = version + 1
    <3> SUFFICES ASSUME NEW o \in MadeBy(r) \ objects PROVE Lost(r, o)
      BY DEF Whole
    <3>1. o = ExpiryIndex /\ Lost(10, o)
      BY <1>1, <2>2 DEF UInv, Making, Following
    <3>2. r = 10
      BY <3>1, <2>2, <1>2, MadeSets, MadeOnce
    <3> QED BY <3>1, <3>2
  <2> QED BY <2>1, <2>2, <1>1, <1>2
<1>4. Schema'
  BY <1>1, <1>3 DEF Schema, Whole, Lost
<1>5. Ground' /\ Making' /\ Taking' /\ Heading' /\ RefusalsExplained'
  <2>1. Ground' /\ Heading'
    BY <1>1, <1>2 DEF UInv, Ground, Heading
  <2>2. Making' /\ Taking'
    BY <1>1, <1>2 DEF UInv, Making, Taking
  <2>3. RefusalsExplained'
    BY <1>1, <1>2 DEF UInv, Heading, RefusalsExplained
  <2> QED BY <2>1, <2>2, <2>3
<1>6. Paired'
  BY <1>1, <1>2 DEF UInv, Paired, Lost
<1>7. TypeOK'
  BY <1>1, <1>2 DEF UInv, TypeOK
<1>8. Contents'
  BY <1>1, <1>2 DEF UInv, Contents, Sealer, Columns
<1> QED BY <1>4, <1>5, <1>6, <1>7, <1>8 DEF UInv

(* The two revisions that seal a column make nothing, and leave nothing in   *)
(* it that is in the clear.                                                *)
LEMMA SealPreserves ==
  ASSUME UInv, NEW col \in Columns, Seal(col)
  PROVE  UInv'
<1>1. pc = "upgrading" /\ version < image /\ Sealer(col) = version + 1 /\ Sealer(col) \in {2, 3}
  BY DEF Seal, Upgrading, Following, Sealer
<1>2. CASE ~Convertible(col) /\ Refuse("excerpt")
  <2>1. rotated
    BY <1>2, SecretsAssumption DEF Convertible, UInv, Contents
  <2>2. UNCHANGED cut
    BY DEF Seal
  <2> HIDE DEF UInv
  <2> QED BY <1>1, <1>2, <2>1, <2>2, RefusePreserves
<1>3. CASE /\ Convertible(col)
           /\ excerpt' = [excerpt EXCEPT ![col] = {secret : v \in excerpt[col]}]
           /\ version' = Following
           /\ UNCHANGED <<image, secret, objects, teams, pc, todo, refused, rotated>>
  <2>1. UNCHANGED cut
    BY DEF Seal
  <2>2. version \in 0..12 /\ version' = version + 1 /\ image \in 1..12 /\ todo = {}
    BY <1>1, <1>3, MadeSets, ImagesAssumption DEF UInv, TypeOK, Following
  <2>3. excerpt \in [Columns -> SUBSET ({"clear"} \cup Keys)]
    BY DEF UInv, TypeOK
  <2>4. /\ excerpt' \in [Columns -> SUBSET ({"clear"} \cup Keys)]
        /\ excerpt'[col] \subseteq {secret} /\ "clear" \notin excerpt'[col]
        /\ \A c \in Columns \ {col} : excerpt'[c] = excerpt[c]
    <3>1. excerpt[col] # {} => secret \in Keys
      BY <1>3 DEF Convertible, UInv, TypeOK
    <3> QED BY <3>1, <2>3, <1>3, SecretsAssumption
  <2>5. MadeBy(version') = {}
    BY <1>1, <2>2, MadeSets
  <2>6. Schema'
    <3> SUFFICES ASSUME NEW r \in 1..version' PROVE Whole(r)'
      BY DEF Schema
    <3>1. CASE r = version'
      BY <3>1, <2>5 DEF Whole
    <3>2. CASE r # version'
      BY <3>2, <1>1, <1>3, <2>1, <2>2 DEF UInv, Schema, Whole, Lost
    <3> QED BY <3>1, <3>2
  <2>7. Ground' /\ Making' /\ Taking' /\ Heading' /\ RefusalsExplained'
    <3>1. Ground' /\ Heading'
      BY <1>1, <1>3, <2>1, <2>2 DEF UInv, Ground, Heading
    <3>2. Making' /\ Taking'
      BY <1>1, <1>3, <2>1, <2>2 DEF UInv, Making, Taking
    <3>3. RefusalsExplained'
      BY <1>1, <1>3, <2>1, <2>2 DEF UInv, Heading, RefusalsExplained
    <3> QED BY <3>1, <3>2, <3>3
  <2>8. Paired'
    BY <1>1, <1>3, <2>1 DEF UInv, Paired, Lost
  <2>9. Contents'
    <3>1. \A c \in Columns : version' >= Sealer(c) => "clear" \notin excerpt'[c]
      BY <1>1, <2>2, <2>4 DEF UInv, Contents, Sealer, Columns
    <3>2. version' < 8
      BY <1>1, <2>2
    <3>3. ~rotated' => secret' \in Keys /\ \A c \in Columns : excerpt'[c] \subseteq {"clear", secret'}
      BY <1>3, <2>4 DEF UInv, Contents
    <3> QED BY <3>1, <3>2, <3>3, <2>2 DEF Contents
  <2>10. TypeOK'
    BY <1>1, <1>3, <2>1, <2>2, <2>4 DEF UInv, TypeOK
  <2> QED BY <2>6, <2>7, <2>8, <2>9, <2>10 DEF UInv
<1> QED BY <1>2, <1>3 DEF Seal

(* From 0008 on there are no Teams rows.                                    *)
LEMMA RemoveTeamsPreserves ==
  ASSUME UInv, RemoveTeams
  PROVE  UInv'
<1>1. /\ pc = "upgrading" /\ version < image /\ version' = 8 /\ teams' = FALSE
      /\ UNCHANGED <<image, secret, objects, excerpt, pc, todo, refused, cut, rotated>>
  BY DEF RemoveTeams, Upgrading
<1>2. version = 7 /\ image \in 1..12 /\ todo = {}
  BY <1>1, MadeSets, ImagesAssumption DEF UInv, TypeOK, RemoveTeams, Upgrading, Following
<1>3. Schema'
  <2> SUFFICES ASSUME NEW r \in 1..version' PROVE Whole(r)'
    BY DEF Schema
  <2>1. CASE r = 8
    BY <2>1, MadeSets DEF Whole
  <2>2. CASE r # 8
    BY <2>2, <1>1, <1>2 DEF UInv, Schema, Whole, Lost
  <2> QED BY <2>1, <2>2
<1>4. Ground' /\ Making' /\ Taking' /\ Heading' /\ RefusalsExplained'
  <2>1. Ground' /\ Heading'
    BY <1>1, <1>2 DEF UInv, Ground, Heading
  <2>2. Making' /\ Taking'
    BY <1>1, <1>2 DEF UInv, Making, Taking
  <2>3. RefusalsExplained'
    BY <1>1, <1>2 DEF UInv, Heading, RefusalsExplained
  <2> QED BY <2>1, <2>2, <2>3
<1>5. Paired'
  BY <1>1, <1>2 DEF UInv, Paired, Lost
<1>6. Contents'
  BY <1>1, <1>2 DEF UInv, Contents, Sealer, Columns
<1>7. TypeOK'
  <2>1. teams' \in BOOLEAN
    BY <1>1, Zenon
  <2> QED BY <1>1, <1>2, <2>1 DEF UInv, TypeOK
<1> QED BY <1>3, <1>4, <1>5, <1>6, <1>7 DEF UInv

(* The application stores what its build seals, under the key of the day.    *)
LEMMA StorePreserves ==
  ASSUME UInv, NEW col \in Columns, Store(col)
  PROVE  UInv'
<1> DEFINE value == IF Sealed(col, image) THEN secret ELSE "clear"
<1>1. /\ pc = "serving" /\ (Sealed(col, image) => secret # NoKey)
      /\ excerpt' = [excerpt EXCEPT ![col] = @ \cup {value}]
      /\ teams' \in {teams, (image < 8)}
      /\ UNCHANGED <<image, secret, version, objects, pc, todo, refused, cut, rotated>>
  BY DEF Store
<1>2. /\ image \in 1..12 /\ version = image /\ secret \in Keys \cup {NoKey} /\ teams \in BOOLEAN
      /\ excerpt \in [Columns -> SUBSET ({"clear"} \cup Keys)]
  BY <1>1, MadeSets, ImagesAssumption DEF UInv, TypeOK, Heading
<1>3. value \in {"clear"} \cup Keys /\ value \in {"clear", secret}
  BY <1>1, <1>2
<1>4. version >= Sealer(col) => value # "clear"
  BY <1>1, <1>2, SecretsAssumption DEF Sealed
<1> HIDE DEF value
<1>5. /\ excerpt' \in [Columns -> SUBSET ({"clear"} \cup Keys)]
      /\ excerpt'[col] = excerpt[col] \cup {value}
      /\ \A c \in Columns \ {col} : excerpt'[c] = excerpt[c]
  BY <1>1, <1>2, <1>3
<1>6. (version >= 8 => ~teams') /\ teams' \in BOOLEAN
  <2>1. CASE teams' = teams
    BY <2>1, <1>2, Zenon DEF UInv, Contents
  <2>2. CASE teams' = (image < 8)
    <3>1. version >= 8 => ~teams'
      <4>1. version >= 8 => (image < 8) = FALSE
        BY <1>2
      <4> QED BY <4>1, <2>2
    <3>2. teams' \in BOOLEAN
      <4> DEFINE Q == image < 8
      <4>1. (Q = TRUE) \/ (Q = FALSE)
        OBVIOUS
      <4>2. teams' = Q
        BY <2>2
      <4> HIDE DEF Q
      <4>3. teams' = TRUE \/ teams' = FALSE
        BY <4>1, <4>2
      <4> QED BY <4>3, Zenon
    <3> QED BY <3>1, <3>2
  <2> QED BY <2>1, <2>2, <1>1
<1>7. Contents'
  <2>1. \A c \in Columns : version >= Sealer(c) => "clear" \notin excerpt'[c]
    BY <1>4, <1>5 DEF UInv, Contents
  <2>2. ~rotated => secret \in Keys /\ \A c \in Columns : excerpt'[c] \subseteq {"clear", secret}
    BY <1>3, <1>5 DEF UInv, Contents
  <2> QED BY <1>1, <1>6, <2>1, <2>2 DEF Contents
<1>8. Schema' /\ Ground' /\ Paired' /\ Making' /\ Taking'
  BY <1>1, Rests
<1>9. Heading' /\ RefusalsExplained'
  BY <1>1 DEF UInv, Heading, RefusalsExplained
<1>10. TypeOK'
  BY <1>1, <1>5, <1>6 DEF UInv, TypeOK
<1> QED BY <1>7, <1>8, <1>9, <1>10 DEF UInv
-----------------------------------------------------------------------------
(* Downwards.                                                              *)

(* It begins with all the revision made, as far as it was not lost.         *)
LEMMA DowngradePreserves ==
  ASSUME UInv, NEW r \in Revisions, Downgrade(r)
  PROVE  UInv'
<1>1. /\ pc = "down" /\ version = r /\ version <= image /\ r \notin {2, 3}
      /\ refused' = "no" /\ pc' = "dropping" /\ todo' = MadeBy(r)
      /\ UNCHANGED <<image, secret, version, objects, excerpt, teams, cut, rotated>>
  BY DEF Downgrade, rows, MadeBy
<1>2. version \in 1..12
  BY <1>1, MadeSets
<1>3. Whole(r)
  BY <1>1, <1>2 DEF UInv, Schema
<1>4. Schema'
  BY <1>1 DEF UInv, Schema, Whole, Lost
<1>5. Taking'
  BY <1>1, <1>3 DEF Taking, Whole, Lost
<1>6. Ground' /\ Making' /\ Contents' /\ Heading' /\ RefusalsExplained'
  BY <1>1 DEF UInv, Ground, HalfABaseline, Making, Contents, Heading, RefusalsExplained
<1>7. Paired'
  BY <1>1 DEF UInv, Paired, Lost
<1>8. TypeOK'
  <2>1. todo' \subseteq ToSet(Made[version'])
    BY <1>1 DEF MadeBy
  <2> QED BY <2>1, <1>1 DEF UInv, TypeOK
<1> QED BY <1>4, <1>5, <1>6, <1>7, <1>8 DEF UInv

(* A downgrade finds what it would drop, unless something was cut short; and *)
(* what goes takes nothing with it that an earlier revision made.           *)
LEMMA DropPreserves ==
  ASSUME UInv, Drop
  PROVE  UInv'
<1>1. PICK o \in Turn(Dropped(version)) :
       \/ o \notin objects /\ Refuse("not there")
       \/ /\ o \in objects
          /\ objects' = objects \ ({o} \cup IndexesOf(o)) /\ todo' = todo \ {o}
          /\ excerpt' = [col \in Columns |-> IF col = o THEN {} ELSE excerpt[col]]
          /\ teams' = (teams /\ o # "sources")
          /\ UNCHANGED <<image, secret, version, pc, refused, rotated>>
  BY DEF Drop
<1>2. pc = "dropping" /\ UNCHANGED cut
  BY DEF Drop
<1>3. version \in Revisions /\ version \in 1..12 /\ o \in todo /\ o \in MadeBy(version)
  BY <1>1, <1>2, TurnFacts, MadeSets DEF UInv, Taking
<1>4. o = TokenTable => ExpiryIndex \notin todo
  <2> SUFFICES ASSUME o = TokenTable PROVE ExpiryIndex \notin todo
    OBVIOUS
  <2>1. version = 10
    BY <1>3, MadeOnce
  <2>2. TokenTable # ExpiryIndex
    BY DEF TokenTable, ExpiryIndex
  <2> QED BY <2>1, <2>2, TurnFacts, TableAndIndex
<1>5. todo = MadeBy(version) => o # TokenTable
  <2> SUFFICES ASSUME todo = MadeBy(version) PROVE o # TokenTable
    OBVIOUS
  <2> QED BY <1>3, <1>4, MadeOnce, MadeSets
(* What was lost of the revision explains that something is not there.      *)
<1>6. ASSUME todo = MadeBy(version), Whole(version)
      PROVE  todo \subseteq objects \/ <<"down", version>> \in cut \/ (<<"up", 10>> \in cut /\ version = 10)
  <2> SUFFICES ASSUME NEW x \in todo, x \notin objects
               PROVE  <<"down", version>> \in cut \/ (<<"up", 10>> \in cut /\ version = 10)
    OBVIOUS
  <2>1. Lost(version, x)
    BY <1>6 DEF Whole
  <2>2. x = ExpiryIndex => version = 10
    BY <1>3, <1>6, MadeOnce
  <2> QED BY <2>1, <2>2 DEF Lost
<1>7. CASE o \notin objects /\ Refuse("not there")
  <2>1. ~(todo \subseteq objects)
    BY <1>3, <1>7
  <2>2. (todo = MadeBy(version) /\ Whole(version)) \/ <<"down", version>> \in cut
    BY <1>2, <2>1 DEF UInv, Taking
  <2>3. cut # {}
    BY <1>6, <2>1, <2>2
  <2>4. Whole(version)
    BY <2>2 DEF Whole, Lost
  <2> HIDE DEF UInv
  <2> QED BY <1>2, <1>7, <2>3, <2>4, RefusePreserves
<1>8. CASE /\ o \in objects
           /\ objects' = objects \ ({o} \cup IndexesOf(o)) /\ todo' = todo \ {o}
           /\ excerpt' = [col \in Columns |-> IF col = o THEN {} ELSE excerpt[col]]
           /\ teams' = (teams /\ o # "sources")
           /\ UNCHANGED <<image, secret, version, pc, refused, rotated>>
  <2>1. \A r \in 1..(version - 1) : MadeBy(r) \cap ({o} \cup IndexesOf(o)) = {}
    BY <1>3, TakenAlong
  <2>2. /\ o # TokenTable => ExpiryIndex \notin IndexesOf(o) /\ IndexesOf(o) \cap MadeBy(version) = {}
        /\ o = TokenTable => ExpiryIndex \in IndexesOf(o)
        /\ TokenTable \notin IndexesOf(o)
    BY <1>3, TakenAlong
  <2>3. Schema'
    <3> SUFFICES ASSUME NEW r \in 1..(version - 1) PROVE Whole(r)'
      BY <1>2, <1>3, <1>8 DEF Schema
    <3>1. Whole(r)
      BY <1>3 DEF UInv, Schema
    <3>2. MadeBy(r) \cap ({o} \cup IndexesOf(o)) = {}
      BY <2>1
    <3> QED BY <1>2, <1>8, <3>1, <3>2 DEF Whole, Lost
  <2>4. Taking'
    <3>1. todo' \subseteq objects' \/ <<"down", version>> \in cut
      <4>1. CASE todo \subseteq objects
        <5>1. CASE o # TokenTable
          BY <5>1, <4>1, <2>2, <1>2, <1>8 DEF UInv, Taking
        <5>2. CASE o = TokenTable
          <6>1. version = 10
            BY <5>2, <1>3, MadeOnce
          <6>2. todo \subseteq {TokenTable, ExpiryIndex}
            BY <6>1, <1>2, MadeSets DEF UInv, Taking
          <6> QED BY <5>2, <6>2, <1>4, <1>8
        <5> QED BY <5>1, <5>2
      <4>2. CASE todo = MadeBy(version) /\ Whole(version)
        <5>1. CASE version = 10
          <6>1. o = ExpiryIndex
            BY <5>1, <4>2, <1>3, <1>5, MadeSets
          <6>2. TokenTable \in objects
            BY <6>1, <1>8 DEF UInv, Paired
          <6>3. TokenTable # ExpiryIndex
            BY DEF TokenTable, ExpiryIndex
          <6> QED BY <6>1, <6>2, <6>3, <5>1, <4>2, <2>2, <1>8, MadeSets
        <5>2. CASE version # 10
          BY <5>2, <4>1, <4>2, <1>6
        <5> QED BY <5>1, <5>2
      <4> QED BY <4>1, <4>2, <1>2 DEF UInv, Taking
    <3>2. todo' \subseteq MadeBy(version) /\ (MadeBy(version) \ todo') \cap objects' = {}
      BY <1>2, <1>8 DEF UInv, Taking
    <3> QED BY <3>1, <3>2, <1>2, <1>8 DEF UInv, Taking
  <2>5. Paired'
    <3>1. CASE o = TokenTable
      BY <3>1, <2>2, <1>8 DEF Paired
    <3>2. CASE o = ExpiryIndex
      <4>1. version = 10
        BY <3>2, <1>3, MadeOnce
      <4> QED BY <4>1, <3>2, <1>2, <1>8 DEF Paired
    <3>3. CASE o \notin {TokenTable, ExpiryIndex}
      BY <3>3, <2>2, <1>2, <1>8 DEF UInv, Paired, Lost
    <3> QED BY <3>1, <3>2, <3>3
  <2>6. \A c \in Columns : excerpt'[c] \subseteq excerpt[c]
    BY <1>8
  <2>7. Contents'
    <3>1. version >= 8 => ~teams'
      BY <1>8 DEF UInv, Contents
    <3>2. \A c \in Columns : version >= Sealer(c) => "clear" \notin excerpt'[c]
      BY <2>6 DEF UInv, Contents
    <3>3. ~rotated => secret \in Keys /\ \A c \in Columns : excerpt'[c] \subseteq {"clear", secret}
      BY <2>6 DEF UInv, Contents
    <3> QED BY <3>1, <3>2, <3>3, <1>8 DEF Contents
  <2>8. Ground' /\ Making' /\ Heading'
    BY <1>2, <1>3, <1>8 DEF UInv, Ground, Making, Heading
  <2>9. RefusalsExplained'
    BY <1>2, <1>8 DEF UInv, RefusalsExplained
  <2>10. TypeOK'
    <3>1. excerpt' \in [Columns -> SUBSET ({"clear"} \cup Keys)]
      BY <1>8 DEF UInv, TypeOK
    <3>2. teams' \in BOOLEAN
      <4> DEFINE Q == teams /\ o # "sources"
      <4>1. (Q = TRUE) \/ (Q = FALSE)
        OBVIOUS
      <4>2. teams' = Q
        BY <1>8
      <4> HIDE DEF Q
      <4>3. teams' = TRUE \/ teams' = FALSE
        BY <4>1, <4>2
      <4> QED BY <4>3, Zenon
    <3>3. todo' \subseteq ToSet(Made[version'])
      BY <1>2, <1>8 DEF UInv, Taking, MadeBy
    <3> QED BY <3>1, <3>2, <3>3, <1>2, <1>8 DEF UInv, TypeOK
  <2> QED BY <2>3, <2>4, <2>5, <2>7, <2>8, <2>9, <2>10 DEF UInv
<1> QED BY <1>1, <1>7, <1>8

(* Then nothing of the revision is left.                                    *)
LEMMA DroppingPreserves ==
  ASSUME UInv, Dropping
  PROVE  UInv'
<1>1. /\ pc = "dropping" /\ todo = {} /\ version' = version - 1 /\ pc' = "down"
      /\ UNCHANGED <<image, secret, objects, excerpt, teams, todo, refused, cut, rotated>>
  BY DEF Dropping, rows
<1>2. version \in 1..12 /\ MadeBy(version) \cap objects = {}
  BY <1>1, MadeSets DEF UInv, Taking
<1>3. Schema'
  BY <1>1, <1>2 DEF UInv, Schema, Whole, Lost
<1>4. Ground'
  <2>1. version = 1 => ~HalfABaseline
    BY <1>2, MadeSets DEF HalfABaseline
  <2> QED BY <2>1, <1>1, <1>2 DEF Ground, HalfABaseline
<1>5. Paired'
  <2>1. CASE version = 10
    BY <2>1, <1>1, <1>2, MadeSets DEF Paired
  <2>2. CASE version # 10
    BY <2>2, <1>1 DEF UInv, Paired, Lost
  <2> QED BY <2>1, <2>2
<1>6. Making' /\ Taking' /\ Heading'
  BY <1>1 DEF Making, Taking, Heading
<1>7. Contents'
  BY <1>1, <1>2 DEF UInv, Contents, Sealer, Columns
<1>8. RefusalsExplained'
  BY <1>1 DEF UInv, Heading, RefusalsExplained
<1>9. TypeOK'
  BY <1>1, <1>2 DEF UInv, TypeOK
<1> QED BY <1>3, <1>4, <1>5, <1>6, <1>7, <1>8, <1>9 DEF UInv

(* Below its revision a column may hold what is in the clear.               *)
LEMMA UnsealPreserves ==
  ASSUME UInv, NEW col \in Columns, Unseal(col)
  PROVE  UInv'
<1>1. pc = "down" /\ version = Sealer(col) /\ version \in {2, 3} /\ version <= image /\ UNCHANGED cut
  BY DEF Unseal, Sealer
<1>2. CASE ~Convertible(col) /\ Refuse("excerpt")
  <2>1. rotated
    BY <1>2, SecretsAssumption DEF Convertible, UInv, Contents
  <2> HIDE DEF UInv
  <2> QED BY <1>1, <1>2, <2>1, RefusePreserves
<1>3. CASE /\ excerpt' = [excerpt EXCEPT ![col] = {"clear" : v \in excerpt[col]}]
           /\ version' = version - 1 /\ refused' = "no"
           /\ UNCHANGED <<image, secret, objects, teams, pc, todo, rotated>>
  <2>1. excerpt \in [Columns -> SUBSET ({"clear"} \cup Keys)] /\ image \in 1..12
    BY MadeSets, ImagesAssumption DEF UInv, TypeOK
  <2>2. /\ excerpt' \in [Columns -> SUBSET ({"clear"} \cup Keys)]
        /\ excerpt'[col] \subseteq {"clear"}
        /\ \A c \in Columns \ {col} : excerpt'[c] = excerpt[c]
    BY <2>1, <1>3
  <2>3. Schema'
    BY <1>1, <1>3 DEF UInv, Schema, Whole, Lost
  <2>4. Ground' /\ Heading'
    BY <1>1, <1>3, <2>1 DEF Ground, Heading
  <2>5. Making' /\ Taking' /\ RefusalsExplained'
    BY <1>1, <1>3 DEF Making, Taking, RefusalsExplained
  <2>6. Paired'
    BY <1>1, <1>3 DEF UInv, Paired, Lost
  <2>7. Contents'
    <3>1. \A c \in Columns : version' >= Sealer(c) => "clear" \notin excerpt'[c]
      BY <1>1, <1>3, <2>2 DEF UInv, Contents, Sealer, Columns
    <3>2. version' < 8
      BY <1>1, <1>3
    <3>3. ~rotated' => secret' \in Keys /\ \A c \in Columns : excerpt'[c] \subseteq {"clear", secret'}
      BY <1>3, <2>2 DEF UInv, Contents
    <3> QED BY <3>1, <3>2, <3>3, <1>1, <1>3 DEF Contents
  <2>8. TypeOK'
    BY <1>1, <1>3, <2>1, <2>2 DEF UInv, TypeOK
  <2> QED BY <2>3, <2>4, <2>5, <2>6, <2>7, <2>8 DEF UInv
<1> QED BY <1>2, <1>3 DEF Unseal
-----------------------------------------------------------------------------
(* Whatever happens to the database, the invariant goes on.                 *)
LEMMA NextUInv == UInv /\ [Next]_vars => UInv'
<1> SUFFICES ASSUME UInv, [Next]_vars PROVE UInv'
  OBVIOUS
<1> HIDE DEF UInv
<1>1. CASE Next
  <2>1. CASE Start \/ Serve \/ Stop \/ Deploy \/ Rekey
    BY <2>1, QuietPreserves
  <2>2. CASE UnknownRevision \/ TableMissing \/ RefuseBaseline
    BY <2>2, UnknownRevisionPreserves, TableMissingPreserves, RefuseBaselinePreserves
  <2>3. CASE \E r \in Revisions : Begin(r) \/ Downgrade(r)
    BY <2>3, BeginPreserves, DowngradePreserves
  <2>4. CASE Create \/ Record \/ RemoveTeams
    BY <2>4, CreatePreserves, RecordPreserves, RemoveTeamsPreserves
  <2>5. CASE Drop \/ Dropping \/ Crash
    BY <2>5, DropPreserves, DroppingPreserves, CrashPreserves
  <2>6. CASE \E col \in Columns : Seal(col) \/ Unseal(col) \/ Store(col)
    BY <2>6, SealPreserves, UnsealPreserves, StorePreserves
  <2> QED BY <1>1, <2>1, <2>2, <2>3, <2>4, <2>5, <2>6 DEF Next
<1>2. CASE UNCHANGED vars
  <2>1. TypeOK'
    BY <1>2 DEF UInv, TypeOK, vars, rows, Following
  <2>2. Schema' /\ Ground' /\ Paired'
    BY <1>2 DEF UInv, Schema, Whole, Lost, Ground, HalfABaseline, Paired, vars
  <2>3. Making' /\ Taking'
    BY <1>2 DEF UInv, Making, Taking, Whole, Lost, Following, vars
  <2>4. Contents' /\ Heading' /\ RefusalsExplained'
    BY <1>2 DEF UInv, Contents, Heading, RefusalsExplained, vars, rows
  <2> QED BY <2>1, <2>2, <2>3, <2>4 DEF UInv
<1> QED BY <1>1, <1>2

(* So it is at every instant.                                               *)
LEMMA Upgraded == Spec => []UInv
BY InitUInv, NextUInv, PTL DEF Spec

(* TypeOK: whatever is being made or dropped is of the revision next to the  *)
(* version on disk, and no excerpt is under a key nobody had.               *)
THEOREM UpgradeTypeCorrect == Spec => []TypeOK
<1>1. UInv => TypeOK
  BY DEF UInv
<1> QED BY <1>1, Upgraded, PTL

(* ServedIsMigrated: the application that serves finds the schema of its own *)
(* build, but for what a downgrade or the upgrade to 0010 cut short lost for *)
(* good, no excerpt in the clear and no Teams rows.                         *)
THEOREM UpgradeServesItsSchema == Spec => []ServedIsMigrated
<1>1. UInv => ServedIsMigrated
  <2> SUFFICES ASSUME UInv, pc = "serving"
               PROVE  /\ version = image
                      /\ \A r \in 1..version : \A o \in ToSet(Made[r]) \ objects :
                           \/ <<"down", r>> \in cut
                           \/ (<<"up", 10>> \in cut /\ o = "ix_browser_sessions_expires_at")
                      /\ \A col \in Columns : Sealed(col, image) => "clear" \notin excerpt[col]
                      /\ image >= 8 => ~teams
    BY DEF ServedIsMigrated
  <2>1. version = image
    BY DEF UInv, Heading
  <2>2. \A r \in 1..version : Whole(r)
    BY DEF UInv, Schema
  <2>3. \A r \in 1..version : \A o \in ToSet(Made[r]) \ objects :
          <<"down", r>> \in cut \/ (<<"up", 10>> \in cut /\ o = "ix_browser_sessions_expires_at")
    BY <2>2 DEF Whole, Lost, MadeBy, ExpiryIndex
  <2>4. /\ \A col \in Columns : Sealed(col, image) => "clear" \notin excerpt[col]
        /\ image >= 8 => ~teams
    BY <2>1 DEF UInv, Contents, Sealed
  <2> QED BY <2>1, <2>3, <2>4
<1> QED BY <1>1, Upgraded, PTL

(* RefusalsExplained: "alembic upgrade" and "alembic downgrade" fail only    *)
(* over what a crash cut short, over a key that changed or was missing, or   *)
(* over a database a newer build has upgraded.                              *)
THEOREM UpgradeRefusalsExplained == Spec => []RefusalsExplained
<1>1. UInv => RefusalsExplained
  BY DEF UInv
<1> QED BY <1>1, Upgraded, PTL
=============================================================================
