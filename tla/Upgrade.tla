------------------------------ MODULE Upgrade ------------------------------
(***************************************************************************)
(* The database from one start of the container to the next: its command   *)
(* is "alembic upgrade head && exec uvicorn" (Dockerfile), over the chain  *)
(* of revisions in alembic/versions, on SQLite.  There a CREATE or a DROP  *)
(* is its own commit; the rewriting of rows and the new version number of  *)
(* a revision are one transaction.  The process may end at any point, an   *)
(* image may be replaced by a newer or an older one, the key may change,   *)
(* and an operator may downgrade.  Before Alembic the application built    *)
(* its tables itself (create_all): such a database has them and no version. *)
(***************************************************************************)
EXTENDS Naturals, Sequences, FiniteSets, SequencesExt

CONSTANTS
  Images,    \* the builds there are, by their last revision
  Keys,      \* what APP_ENCRYPTION_KEY may be
  NoKey,     \* "it is not set"
  MaxCuts    \* bound: how many revisions are cut short

(* What each revision makes, in its order.                                 *)
Baseline        == <<"sources", "work_items", "agent_dispatches", "work_evidence">>
SignalContext   == <<"source_signal_context">>
JudgedSources   == <<"source_promotions">>
Indexes         == <<"ix_work_items_status", "ix_work_items_source_kind", "ix_work_items_updated_at",
                     "ix_sources_kind", "ix_sources_observed_at">>
AgentIndex      == <<"ix_work_items_assigned_agent">>
IssueKeys       == <<"work_item_issue_keys">>
BrowserSessions == <<"browser_sessions", "ix_browser_sessions_expires_at">>
SyncCursors     == <<"sync_cursors">>
GrimoireTables  == <<"work_item_analyses", "grimoire_project_snapshot">>

Made == << Baseline, <<>>, <<>>, SignalContext, JudgedSources, Indexes, AgentIndex, <<>>,
           IssueKeys, BrowserSessions, SyncCursors, GrimoireTables >>

Revisions  == DOMAIN Made
Columns    == {"sources", "work_evidence"}
Objects(n) == UNION {ToSet(Made[r]) : r \in 1..n}

ASSUME ImagesAssumption == Images \subseteq Revisions /\ Images # {}
ASSUME SecretsAssumption == NoKey \notin Keys /\ "clear" \notin Keys /\ NoKey # "clear"

VARIABLES
  image,    \* the last revision the installed build knows
  secret,   \* APP_ENCRYPTION_KEY
  version,  \* alembic_version, 0 if there is none
  objects,  \* the tables and indexes on disk
  excerpt,  \* of each encrypted column, what its values are: clear, or sealed
  teams,    \* rows of the Teams source, or under them
  pc,       \* what the container, or the operator, is running
  todo,     \* what the revision under way has still to make or to drop
  refused,  \* why the last command ended in an error
  \* History.
  cut,      \* the revisions cut short on their way up or down
  rotated   \* the key was changed or missing once

rows == <<excerpt, teams>>
vars == <<image, secret, version, objects, rows, pc, todo, refused, cut, rotated>>

(* The revision from which on a column is encrypted.                       *)
Sealer(col)        == IF col = "sources" THEN 2 ELSE 3
Sealed(col, build) == build >= Sealer(col)

(* A new volume, or one that create_all of some build left behind.         *)
Init ==
  /\ image \in Images /\ secret \in Keys
  /\ version = 0
  /\ \E build \in 0..image :
       /\ objects = Objects(build)
       /\ excerpt \in [Columns -> SUBSET {"clear", secret}]
       /\ \A col \in Columns : excerpt[col] \subseteq
            (IF build = 0 THEN {} ELSE {IF Sealed(col, build) THEN secret ELSE "clear"})
       /\ teams \in {FALSE, (build \in 1..7)}
  /\ pc = "down" /\ todo = {} /\ refused = "no"
  /\ cut = {} /\ rotated = FALSE

Refuse(why) ==
  /\ pc' = "down" /\ todo' = {} /\ refused' = why
  /\ UNCHANGED <<image, secret, version, objects, rows, rotated>>

(* The object of a list whose turn it is: its first that is still to do.     *)
Turn(list) == {list[n] : n \in {n \in DOMAIN list :
                 list[n] \in todo /\ \A p \in 1..(n - 1) : list[p] \notin todo}}
-----------------------------------------------------------------------------
(* Upwards.                                                                *)

Following == version + 1
(* Inspecting a table that is not there, reading or deleting its rows.      *)
Needs(r) == CASE r = 2 -> {"sources"}
              [] r = 3 -> {"work_evidence"}
              [] r = 6 -> {"sources", "work_items"}
              [] r = 7 -> {"work_items"}
              [] r = 8 -> Objects(5)
              [] OTHER -> {}

Start ==
  /\ pc = "down" /\ version <= image
  /\ pc' = "upgrading" /\ refused' = "no"
  /\ UNCHANGED <<image, secret, version, objects, rows, todo, cut, rotated>>

(* The version on disk is of a revision this build does not have.          *)
UnknownRevision ==
  /\ pc = "down" /\ version > image
  /\ Refuse("revision") /\ UNCHANGED cut

Upgrading(r) == pc = "upgrading" /\ version < image /\ r = Following
TableMissing ==
  /\ \E r \in Revisions : Upgrading(r) /\ ~(Needs(r) \subseteq objects)
  /\ Refuse("table") /\ UNCHANGED cut

(* _baseline_already_present.                                              *)
HalfABaseline == ToSet(Baseline) \cap objects \notin {{}, ToSet(Baseline)}
RefuseBaseline ==
  /\ Upgrading(1) /\ HalfABaseline
  /\ Refuse("baseline") /\ UNCHANGED cut

(* What a revision finds it has to make: each of its objects is looked for, *)
(* but 0010 looks for the table alone and then makes both.                  *)
MutantMissing(r) == IF Head(Made[r]) \in objects THEN {} ELSE ToSet(Made[r])
Missing(r) ==
  IF r # 10 THEN ToSet(Made[r]) \ objects
  ELSE IF "browser_sessions" \in objects THEN {} ELSE ToSet(Made[r])

MutantCreateAll(r) ==
  /\ Upgrading(r) /\ r \notin {2, 3, 8} /\ Needs(r) \subseteq objects
  /\ r = 1 => ~HalfABaseline
  /\ pc' = "creating" /\ todo' = ToSet(Made[r])
  /\ UNCHANGED <<image, secret, version, objects, rows, refused, cut, rotated>>
Begin(r) ==
  /\ Upgrading(r) /\ r \notin {2, 3, 8} /\ Needs(r) \subseteq objects
  /\ r = 1 => ~HalfABaseline
  /\ pc' = "creating" /\ todo' = Missing(r)
  /\ UNCHANGED <<image, secret, version, objects, rows, refused, cut, rotated>>

Create ==
  /\ pc = "creating"
  /\ \E o \in Turn(Made[Following]) :
       \/ o \in objects /\ Refuse("exists")
       \/ /\ o \notin objects
          /\ objects' = objects \cup {o} /\ todo' = todo \ {o}
          /\ UNCHANGED <<image, secret, version, rows, pc, refused, rotated>>
  /\ UNCHANGED cut
Record ==
  /\ pc = "creating" /\ todo = {}
  /\ version' = Following /\ pc' = "upgrading"
  /\ UNCHANGED <<image, secret, objects, rows, todo, refused, cut, rotated>>

(* 0002 and 0003: every value is sealed, or tried and left as it is; one    *)
(* that does not open, or a key that is missing, undoes them all.           *)
Convertible(col) == excerpt[col] \subseteq {"clear", secret} /\ (secret = NoKey => excerpt[col] = {})
MutantSealAgain(col) ==
  /\ Upgrading(Sealer(col)) /\ col \in objects
  /\ \/ /\ Convertible(col)
        /\ excerpt' = [excerpt EXCEPT ![col] = {IF v = "clear" THEN secret ELSE "twice" : v \in excerpt[col]}]
        /\ version' = Following
        /\ UNCHANGED <<image, secret, objects, teams, pc, todo, refused, rotated>>
     \/ ~Convertible(col) /\ Refuse("excerpt")
  /\ UNCHANGED cut
Seal(col) ==
  /\ Upgrading(Sealer(col)) /\ col \in objects
  /\ \/ /\ Convertible(col)
        /\ excerpt' = [excerpt EXCEPT ![col] = {secret : v \in excerpt[col]}]
        /\ version' = Following
        /\ UNCHANGED <<image, secret, objects, teams, pc, todo, refused, rotated>>
     \/ ~Convertible(col) /\ Refuse("excerpt")
  /\ UNCHANGED cut

(* 0008, its seven DELETEs in one transaction.                             *)
RemoveTeams ==
  /\ Upgrading(8) /\ Needs(8) \subseteq objects
  /\ teams' = FALSE /\ version' = 8
  /\ UNCHANGED <<image, secret, objects, excerpt, pc, todo, refused, cut, rotated>>
-----------------------------------------------------------------------------
(* The application of the installed build.                                 *)

Serve ==
  /\ pc = "upgrading" /\ version = image
  /\ pc' = "serving"
  /\ UNCHANGED <<image, secret, version, objects, rows, todo, refused, cut, rotated>>

(* Mail, messages, issues and evidence are stored: EncryptedText.          *)
Store(col) ==
  /\ pc = "serving" /\ col \in objects
  /\ Sealed(col, image) => secret # NoKey
  /\ excerpt' = [excerpt EXCEPT ![col] = @ \cup {IF Sealed(col, image) THEN secret ELSE "clear"}]
  /\ teams' \in {teams, (image < 8)}
  /\ UNCHANGED <<image, secret, version, objects, pc, todo, refused, cut, rotated>>

Stop ==
  /\ pc = "serving"
  /\ pc' = "down"
  /\ UNCHANGED <<image, secret, version, objects, rows, todo, refused, cut, rotated>>
-----------------------------------------------------------------------------
(* Downwards, one revision: "alembic downgrade -1".                        *)

(* The order in which a revision's downgrade drops what it made.            *)
Dropped(r) == IF r = 6 THEN Made[r] ELSE Reverse(Made[r])

(* They go with their table.                                               *)
IndexesOf(o) ==
  CASE o = "sources" -> {"ix_sources_kind", "ix_sources_observed_at"}
    [] o = "work_items" -> {"ix_work_items_status", "ix_work_items_source_kind",
                            "ix_work_items_updated_at", "ix_work_items_assigned_agent"}
    [] o = "browser_sessions" -> {"ix_browser_sessions_expires_at"}
    [] OTHER -> {}

Downgrade(r) ==
  /\ pc = "down" /\ version = r /\ version <= image /\ r \notin {2, 3}
  /\ refused' = "no"
  /\ pc' = "dropping" /\ todo' = ToSet(Made[r])
  /\ UNCHANGED <<image, secret, version, objects, rows, cut, rotated>>
Drop ==
  /\ pc = "dropping"
  /\ \E o \in Turn(Dropped(version)) :
       \/ o \notin objects /\ Refuse("not there")
       \/ /\ o \in objects
          /\ objects' = objects \ ({o} \cup IndexesOf(o)) /\ todo' = todo \ {o}
          /\ excerpt' = [col \in Columns |-> IF col = o THEN {} ELSE excerpt[col]]
          /\ teams' = (teams /\ o # "sources")
          /\ UNCHANGED <<image, secret, version, pc, refused, rotated>>
  /\ UNCHANGED cut
Dropping ==
  /\ pc = "dropping" /\ todo = {}
  /\ version' = version - 1 /\ pc' = "down"
  /\ UNCHANGED <<image, secret, objects, rows, todo, refused, cut, rotated>>
Unseal(col) ==
  /\ pc = "down" /\ version = Sealer(col) /\ version <= image
  /\ \/ /\ Convertible(col) /\ col \in objects
        /\ excerpt' = [excerpt EXCEPT ![col] = {"clear" : v \in excerpt[col]}]
        /\ version' = version - 1 /\ refused' = "no"
        /\ UNCHANGED <<image, secret, objects, teams, pc, todo, rotated>>
     \/ ~Convertible(col) /\ Refuse("excerpt")
  /\ UNCHANGED cut
-----------------------------------------------------------------------------
(* The process ends, between two commits.                                  *)
Crash ==
  /\ pc \in {"upgrading", "creating", "dropping"}
  /\ Cardinality(cut) < MaxCuts
  /\ pc' = "down" /\ todo' = {} /\ refused' = "no"
  /\ cut' = cut \cup (CASE pc = "creating" -> {<<"up", Following>>}
                        [] pc = "dropping" -> {<<"down", version>>}
                        [] OTHER -> {})
  /\ UNCHANGED <<image, secret, version, objects, rows, rotated>>

Deploy ==
  /\ pc = "down"
  /\ image' \in Images \ {image}
  /\ UNCHANGED <<secret, version, objects, rows, pc, todo, refused, cut, rotated>>

Rekey ==
  /\ pc = "down"
  /\ secret' \in (Keys \cup {NoKey}) \ {secret}
  /\ rotated' = TRUE
  /\ UNCHANGED <<image, version, objects, rows, pc, todo, refused, cut>>

Next ==
  \/ Start \/ UnknownRevision \/ TableMissing \/ RefuseBaseline
  \/ \E r \in Revisions : Begin(r) \/ Downgrade(r)
  \/ Create \/ Record \/ RemoveTeams \/ Serve \/ Stop \/ Drop \/ Dropping
  \/ \E col \in Columns : Seal(col) \/ Unseal(col) \/ Store(col)
  \/ Crash \/ Deploy \/ Rekey

Spec == Init /\ [][Next]_vars
-----------------------------------------------------------------------------
(* What a command works on is of the revision next to the version on disk,   *)
(* and no value is sealed under a key nobody had.                          *)
TypeOK ==
  /\ image \in Images /\ version \in 0..12 /\ secret \in Keys \cup {NoKey}
  /\ objects \subseteq Objects(12) /\ teams \in BOOLEAN /\ rotated \in BOOLEAN
  /\ excerpt \in [Columns -> SUBSET ({"clear"} \cup Keys)]
  /\ pc \in {"down", "upgrading", "creating", "dropping", "serving"}
  /\ todo # {} => \/ pc = "creating" /\ todo \subseteq ToSet(Made[Following])
                  \/ pc = "dropping" /\ todo \subseteq ToSet(Made[version])
  /\ cut \subseteq {"up", "down"} \X Revisions

(* The application that serves finds the schema of its own build whole, no    *)
(* excerpt in the clear, and none of the Teams rows its models cannot read   *)
(* (Dockerfile: "the schema is brought to head before the first request") -  *)
(* except that an upgrade cut short between the two statements of 0010, or   *)
(* a downgrade cut short, leaves something missing for good.                *)
ServedIsMigrated ==
  pc = "serving" =>
    /\ version = image
    /\ \A r \in 1..version : \A o \in ToSet(Made[r]) \ objects :
         <<"down", r>> \in cut \/ (<<"up", 10>> \in cut /\ o = "ix_browser_sessions_expires_at")
    /\ \A col \in Columns : Sealed(col, image) => "clear" \notin excerpt[col]
    /\ image >= 8 => ~teams

(* A command refuses only what was cut short, a key that is not the one the   *)
(* rows were sealed with, or a database some newer build has upgraded: what- *)
(* ever else has happened to it, the next start goes on where the last one   *)
(* ended (0002: "Running it a second time is safe").                        *)
RefusalsExplained ==
  /\ refused # "exists"
  /\ refused = "baseline" => <<"up", 1>> \in cut
  /\ refused = "excerpt" => rotated
  /\ refused = "table" => <<"down", 1>> \in cut \/ <<"down", 4>> \in cut \/ <<"down", 5>> \in cut
  /\ refused = "not there" => cut # {}
  /\ refused = "revision" => \E build \in Images : version > build
=============================================================================
