----------------------------- MODULE Publication ----------------------------
(***************************************************************************)
(* The publication (ensurePublication and what it calls,                   *)
(* src/internal/cdc/reader.go): on every connection, before the slot, the  *)
(* reader brings the Postgres publication in line with the tables the      *)
(* definitions watch, one autocommitted statement at a time.  Tables come  *)
(* and go between the statements, any of them may fail, the role may not   *)
(* be allowed to run them, in which case the superuser is shown the one to *)
(* run, and the agent is restarted with other definitions.                 *)
(*                                                                         *)
(* Postgres keeps the tables and the publication.  It folds a table named  *)
(* in a statement to lower case unless it is quoted; the agent's are not.  *)
(* Members of other schemas are left out, as currentPublicationTables      *)
(* leaves them out (reader.go:465).                                        *)
(***************************************************************************)
EXTENDS Naturals, FiniteSets

CONSTANTS
  Names,          \* names of tables of the public schema
  Fold,           \* Fold[t]: t in lower case
  Configs,        \* sets of watched tables; {} stands for all tables
  MaxFaults,      \* bound: lost connections and restarts
  MaxMigrations   \* bound: tables created and dropped

ASSUME ConstantsType ==
  /\ Fold \in [Names -> Names]
  /\ Configs # {} /\ Configs \subseteq SUBSET Names
  /\ MaxFaults \in Nat
  /\ MaxMigrations \in Nat

VARIABLES
  tables,       \* the tables that exist
  pub,          \* the publication: none, FOR ALL TABLES, or scoped
  members,      \* the public tables of a scoped publication
  role,         \* what the role is: see Roles
  owned,        \* whether it owns the publication
  watched,      \* cfg.Tables
  step,         \* what the reader does next: see Steps
  desired,      \* desiredTables, as resolved on this connection
  hint,         \* the statements the reported error asks a superuser to run
  gone,         \* tables dropped since desired was resolved
  faults,       \* faults so far
  migrations    \* tables created and dropped so far

pgVars     == <<tables, pub, members, role, owned>>
readerVars == <<watched, step, desired, hint, gone>>
vars == <<pgVars, readerVars, faults, migrations>>

Steps ==
  {"resolve", "fetch", "create", "drop", "read", "alter",
   "streaming",     \* set up, until the stream breaks
   "failed"}        \* an error reported, backing off

Roles ==
  {"superuser",
   "owner",         \* it may create, and owns the tables
   "plain"}         \* a least-privilege replication role

(* A statement on the publication: on is its table list, {} for none.      *)
Statement == [do : {"create", "alter", "drop"}, on : SUBSET Names]

desiredAll == watched = {}

TypeOK ==
  /\ tables \subseteq Names
  /\ pub \in {"none", "all", "scoped"}
  /\ members \subseteq Names /\ (pub # "scoped" => members = {})
  /\ role \in Roles
  /\ owned \in BOOLEAN /\ (owned => pub # "none")
  /\ watched \in Configs
  /\ step \in Steps
  /\ desired \subseteq watched
  /\ hint \subseteq Statement /\ Cardinality(hint) <= 1
  /\ gone \subseteq Names
  /\ faults \in 0 .. MaxFaults
  /\ migrations \in 0 .. MaxMigrations
  /\ step \notin {"resolve", "failed"} => (desired = {} <=> desiredAll)

Init ==
  /\ tables \in SUBSET Names
  /\ \/ pub \in {"none", "all"} /\ members = {}
     \/ pub = "scoped" /\ members \in SUBSET tables
  /\ role \in Roles
  /\ owned \in BOOLEAN /\ (owned => pub # "none")
  /\ watched \in Configs
  /\ step = "resolve"
  /\ desired = {} /\ hint = {} /\ gone = {}
  /\ faults = 0 /\ migrations = 0

-----------------------------------------------------------------------------
(* Postgres.                                                               *)

Named(s) == {Fold[t] : t \in s.on}

(* Whether s can be executed by who may: a drop always (IF EXISTS), the    *)
(* others when the publication fits and every table named exists.          *)
Accepts(s) ==
  \/ s.do = "drop"
  \/ /\ \/ s.do = "create" /\ pub = "none"
        \/ s.do = "alter" /\ pub = "scoped" /\ s.on # {}
     /\ Named(s) \subseteq tables

(* CREATE asks for a privilege on the database and the tables, FOR ALL     *)
(* TABLES for a superuser, ALTER for the publication and the tables, DROP  *)
(* for the publication.                                                    *)
Denies(s) ==
  \/ s.do = "create" /\ (role = "plain" \/ (role = "owner" /\ s.on = {}))
  \/ s.do = "alter" /\ pub # "none" /\ role # "superuser" /\ (role = "plain" \/ ~owned)
  \/ s.do = "drop" /\ pub # "none" /\ role # "superuser" /\ ~owned

(* The publication belongs to who created it.                              *)
Execute(s, byRole) ==
  /\ Accepts(s)
  /\ pub' = IF s.do = "drop" THEN "none"
            ELSE IF s.on = {} THEN "all" ELSE "scoped"
  /\ members' = Named(s)
  /\ owned' = CASE s.do = "create" -> byRole
              [] s.do = "alter"  -> owned
              [] s.do = "drop"   -> FALSE
  /\ UNCHANGED <<tables, role>>

(* Migrations.  A table dropped leaves the publication.                    *)
CreateTable(t) ==
  /\ migrations < MaxMigrations
  /\ t \notin tables
  /\ tables' = tables \cup {t}
  /\ migrations' = migrations + 1
  /\ UNCHANGED <<pub, members, role, owned, readerVars, faults>>

DropTable(t) ==
  /\ migrations < MaxMigrations
  /\ t \in tables
  /\ tables' = tables \ {t}
  /\ members' = members \ {t}
  /\ gone' = gone \cup {t}
  /\ migrations' = migrations + 1
  /\ UNCHANGED <<pub, role, owned, watched, step, desired, hint, faults>>

(* A superuser runs, once, the statement in the error now shown.           *)
RunHint ==
  /\ \E s \in hint : Execute(s, FALSE) \/ (~Accepts(s) /\ UNCHANGED pgVars)
  /\ hint' = {}
  /\ UNCHANGED <<watched, step, desired, gone, faults, migrations>>

-----------------------------------------------------------------------------
(* The reader.                                                             *)

Goto(s) == step' = s /\ UNCHANGED hint

(* The slot is set up and the stream started, nothing of which touches the *)
(* publication; the status report that follows is nil and clears the error *)
(* shown.                                                                  *)
Stream == step' = "streaming" /\ hint' = {}

Fail(h) == step' = "failed" /\ hint' = h

Local == UNCHANGED <<watched, gone, faults, migrations>>

(* mutant: tables that do not exist are skipped, though none is left       *)
ResolveUnchecked ==
  /\ step = "resolve"
  /\ desired' = watched \cap tables
  /\ gone' = {}
  /\ Goto("fetch")
  /\ UNCHANGED <<pgVars, watched, faults, migrations>>

ResolveDesiredTables ==
  /\ step = "resolve"
  /\ desired' = watched \cap tables
  /\ gone' = {}
  /\ IF desired' = {} /\ ~desiredAll THEN Fail({}) ELSE Goto("fetch")
  /\ UNCHANGED <<pgVars, watched, faults, migrations>>

(* mutant: a missing publication is taken for an empty scoped one          *)
FetchAsScoped ==
  /\ step = "fetch"
  /\ \/ desiredAll /\ pub = "all" /\ Stream
     \/ ~(desiredAll <=> pub = "all") /\ Goto("drop")
     \/ ~desiredAll /\ pub # "all" /\ Goto("read")
  /\ Local /\ UNCHANGED <<pgVars, desired>>

(* fetchPublicationState and the table above ensurePublication.            *)
FetchPublicationState ==
  /\ step = "fetch"
  /\ \/ pub = "none" /\ Goto("create")
     \/ desiredAll /\ pub = "all" /\ Stream
     \/ pub # "none" /\ ~(desiredAll <=> pub = "all") /\ Goto("drop")
     \/ ~desiredAll /\ pub = "scoped" /\ Goto("read")
  /\ Local /\ UNCHANGED <<pgVars, desired>>

(* One statement: done, refused with its text as the hint, or in error.    *)
Try(s, Then) ==
  \/ ~Denies(s) /\ Execute(s, TRUE) /\ Then
  \/ Denies(s) /\ Fail({s}) /\ UNCHANGED pgVars
  \/ ~Denies(s) /\ ~Accepts(s) /\ Fail({}) /\ UNCHANGED pgVars

CreatePublication ==
  /\ step = "create"
  /\ Try([do |-> "create", on |-> desired], Stream)
  /\ Local /\ UNCHANGED desired

(* mutant: the refused drop is reported without the statement to run       *)
DropWithoutHint ==
  /\ step = "drop"
  /\ LET s == [do |-> "drop", on |-> {}]
     IN \/ ~Denies(s) /\ Execute(s, TRUE) /\ Goto("create")
        \/ Denies(s) /\ Fail({}) /\ UNCHANGED pgVars
  /\ Local /\ UNCHANGED desired

DropPublication ==
  /\ step = "drop"
  /\ Try([do |-> "drop", on |-> {}], Goto("create"))
  /\ Local /\ UNCHANGED desired

(* mutant: only the lengths of the two lists are compared                  *)
CompareLengths ==
  /\ step = "read"
  /\ IF Cardinality(members) = Cardinality(desired) THEN Stream
     ELSE Goto("alter")
  /\ Local /\ UNCHANGED <<pgVars, desired>>

(* syncPublicationTables: read the list, compare it as a set.              *)
CurrentPublicationTables ==
  /\ step = "read"
  /\ IF members = desired THEN Stream ELSE Goto("alter")
  /\ Local /\ UNCHANGED <<pgVars, desired>>

AlterPublication ==
  /\ step = "alter"
  /\ Try([do |-> "alter", on |-> desired], Stream)
  /\ Local /\ UNCHANGED desired

(* The back-off ends: a new connection starts from the top.                *)
TryAgain ==
  /\ step = "failed"
  /\ Goto("resolve")
  /\ Local /\ UNCHANGED <<pgVars, desired>>

(* A connection is lost: during the setup, or while streaming.             *)
LoseConnection ==
  /\ faults < MaxFaults /\ faults' = faults + 1
  /\ step # "failed"
  /\ Fail({})
  /\ UNCHANGED <<pgVars, watched, desired, gone, migrations>>

(* The process is restarted, maybe with other definitions.                 *)
Restart ==
  /\ faults < MaxFaults /\ faults' = faults + 1
  /\ watched' \in Configs
  /\ step' = "resolve" /\ desired' = {} /\ gone' = {} /\ hint' = {}
  /\ UNCHANGED <<pgVars, migrations>>

-----------------------------------------------------------------------------
Migrate == \E t \in Names : CreateTable(t) \/ DropTable(t)

EnsurePublication ==
  \/ ResolveDesiredTables \/ FetchPublicationState
  \/ CreatePublication \/ DropPublication
  \/ CurrentPublicationTables \/ AlterPublication
  \/ TryAgain

Next == Migrate \/ RunHint \/ EnsurePublication \/ LoseConnection \/ Restart

Spec == Init /\ [][Next]_vars

(***************************************************************************)
(* Fairness: the reader's loop runs and its back-off ends, and the         *)
(* statement shown is run in the end, as the error asks                    *)
(* (reader.go:409-413).  Migrations and faults are bounded.                *)
(***************************************************************************)
FairSpec == Spec /\ WF_vars(EnsurePublication) /\ WF_vars(RunHint)

-----------------------------------------------------------------------------
(* The watched tables have lower-case names.  The others pass              *)
(* isSafeIdentifier and are looked up as they are written, but the         *)
(* statements name their folded form.                                      *)
Plain == \A t \in watched : Fold[t] = t

(***************************************************************************)
(* While the reader streams the publication is in line with the tables it  *)
(* watches: all of them, or those that existed when this connection looked *)
(* and still do, none missing and none besides, however the tables, the    *)
(* operator and earlier processes interfered with the statements that got  *)
(* it there (reader.go:259 "brings the named publication in line with      *)
(* cfg.Tables").                                                           *)
(***************************************************************************)
InLine ==
  Plain /\ step = "streaming" =>
    /\ pub = (IF desiredAll THEN "all" ELSE "scoped")
    /\ members \subseteq desired
    /\ desired \ gone \subseteq members

(***************************************************************************)
(* Whatever publication an operator or an earlier configuration left, and  *)
(* whatever the role may do about it, the reader streams in the end and    *)
(* stays in it, as long as a table it watches exists                       *)
(* (reader.go:285-328, README.md:38-43).                                   *)
(***************************************************************************)
EventuallyStreams ==
  <>[](Plain /\ (desiredAll \/ watched \cap tables # {})) => <>[](step = "streaming")
=============================================================================
