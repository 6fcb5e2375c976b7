----------------------------- MODULE MemoryFile -----------------------------
(***************************************************************************)
(* Several processes that open and use one memory database: the schema     *)
(* upgrade (harness/memory/migrations.py), MemoryStore.__init__            *)
(* (harness/memory/store.py) and the search index over the facts           *)
(* (harness/memory/facts.py).                                              *)
(*                                                                         *)
(* Every action is one SQLite transaction or one read: statements outside  *)
(* an explicit transaction commit one by one, executescript included.      *)
(* Processes may die between any two.                                      *)
(*                                                                         *)
(* Abstracted: what a fact says (a value is the one term it is found by),  *)
(* ranking, waiting for SQLite's write lock, tables other than the two     *)
(* that tell schema versions apart ("runs" stands for all of version 1).   *)
(*                                                                         *)
(* A definition whose comment begins with "Defect:" is the next one with a *)
(* plausible mistake in it; nothing uses it (see AgentRun).                *)
(***************************************************************************)
EXTENDS Naturals, Sequences

CONSTANTS
  Procs,         \* processes that open the file
  Capable,       \* those whose SQLite can create FTS5 tables
  Readers,       \* those that open it read-only
  Keys, Values,  \* facts
  None,          \* no fact
  MaxOpens       \* bound of the model: opens, over all processes

ASSUME ProcsAssumption == Capable \subseteq Procs /\ Readers \subseteq Procs
ASSUME FactsAssumption == None \notin Values
ASSUME OpensAssumption == MaxOpens \in Nat

SchemaVersion == 2
Tables        == {"runs", "runtime_state"}
FtsTriggers   == <<"ai", "ad", "au">>
AllTriggers   == {"ai", "ad", "au"}

VARIABLES
  \* the file
  version,   \* PRAGMA user_version
  tables,    \* the tables of the schema that exist
  fts,       \* the table facts_fts exists
  triggers,  \* those of FtsTriggers that exist
  facts,     \* the value of each fact
  index,     \* the value the index holds for each fact
  \* the processes
  pc,        \* where each process is
  seen,      \* the schema version it has read
  stale,     \* what _ensure_fts found out about the index
  at,        \* how many statements of a script it has run
  uses,      \* FactStore.fts5: it searches the index
  refusal,   \* why its last open was refused
  \* history
  opens,     \* opens so far
  mishaps    \* what has befallen the index: "unmade", a process died in the
             \* script that makes it; "unfilled", one that was to fill it
             \* died with all the triggers in place; "undone", a trigger was
             \* dropped while one that had found all of them was in the script

file  == <<version, tables, fts, triggers, facts, index>>
procs == <<pc, seen, stale, at, uses, refusal>>
vars  == <<file, procs, opens, mishaps>>

Contents == [Keys -> Values \union {None}]

Live(p) == pc[p] # "off"

----------------------------------------------------------------------------
\* A file may be new, of any schema version, or older than versioning; its
\* facts may have been written by a build with an index or by one without.
Init ==
  /\ \/ version = 0 /\ tables \in {{}, {"runs"}}
     \/ version = 1 /\ tables = {"runs"}
     \/ version \in {2, 3} /\ tables = Tables
  /\ facts \in Contents
  /\ tables = {} => facts = [k \in Keys |-> None]
  /\ \/ fts = FALSE /\ triggers = {} /\ index = [k \in Keys |-> None]
     \/ /\ fts = TRUE /\ triggers = AllTriggers /\ index = facts
        /\ version # 0
  /\ pc    = [p \in Procs |-> "off"]
  /\ seen  = [p \in Procs |-> 0]
  /\ stale = [p \in Procs |-> FALSE]
  /\ at    = [p \in Procs |-> 0]
  /\ uses  = [p \in Procs |-> FALSE]
  /\ refusal = [p \in Procs |-> "none"]
  /\ opens = 0 /\ mishaps = {}

Go(p, where) == pc' = [pc EXCEPT ![p] = where]

\* The open raises; the process has no store.
Refuse(p, why) == Go(p, "off") /\ refusal' = [refusal EXCEPT ![p] = why]

\* MemoryStore(path), whoever else has the file open.
Open(p) ==
  /\ pc[p] = "off" /\ opens < MaxOpens
  /\ Go(p, "version")
  /\ opens' = opens + 1
  /\ refusal' = [refusal EXCEPT ![p] = "none"]
  /\ UNCHANGED <<file, seen, stale, at, uses, mishaps>>

----------------------------------------------------------------------------
\* ensure_schema and check_schema.

\* Defect: a reader takes any version it knows of.
ReadVersionLoosely(p) ==
  /\ pc[p] = "version"
  /\ seen' = [seen EXCEPT ![p] = version]
  /\ CASE version = 0             -> Go(p, "exists") /\ UNCHANGED refusal
       [] version = SchemaVersion -> Go(p, "index") /\ UNCHANGED refusal
       [] version > SchemaVersion -> Refuse(p, "newer")
       [] OTHER -> Go(p, IF p \in Readers THEN "index" ELSE "migrate")
                   /\ UNCHANGED refusal
  /\ UNCHANGED <<file, stale, at, uses, opens, mishaps>>

ReadVersion(p) ==
  /\ pc[p] = "version"
  /\ seen' = [seen EXCEPT ![p] = version]
  /\ CASE version = 0             -> Go(p, "exists") /\ UNCHANGED refusal
       [] version = SchemaVersion -> Go(p, "index") /\ UNCHANGED refusal
       [] version > SchemaVersion -> Refuse(p, "newer")
       [] OTHER -> IF p \in Readers THEN Refuse(p, "older")
                                    ELSE Go(p, "migrate") /\ UNCHANGED refusal
  /\ UNCHANGED <<file, stale, at, uses, opens, mishaps>>

\* Version 0: is there anything in the file?
LookForTables(p) ==
  /\ pc[p] = "exists"
  /\ IF "runs" \in tables THEN Refuse(p, "unversioned")
     ELSE IF p \in Readers THEN Refuse(p, "empty")
     ELSE Go(p, "create") /\ UNCHANGED refusal
  /\ UNCHANGED <<file, seen, stale, at, uses, opens, mishaps>>

\* Defect: executescript commits the tables one by one, and the version last.
CreateStatementwise(p) ==
  /\ pc[p] = "create"
  /\ IF tables = Tables
       THEN Go(p, "index") /\ version' = SchemaVersion /\ UNCHANGED tables
       ELSE /\ \E t \in Tables \ tables : tables' = tables \union {t}
            /\ UNCHANGED <<version, pc>>
  /\ UNCHANGED <<fts, triggers, facts, index, seen, stale, at, uses, refusal,
                 opens, mishaps>>

\* The whole schema and its version, IF NOT EXISTS, in one transaction.
CreateSchema(p) ==
  /\ pc[p] = "create"
  /\ tables' = Tables /\ version' = SchemaVersion
  /\ Go(p, "index")
  /\ UNCHANGED <<fts, triggers, facts, index, seen, stale, at, uses, refusal,
                 opens, mishaps>>

\* One step of MIGRATIONS in one transaction; CREATE TABLE fails, and the
\* transaction is rolled back, when another process has got there first.
Migrate(p) ==
  /\ pc[p] = "migrate"
  /\ IF "runtime_state" \in tables
       THEN Refuse(p, "migration") /\ UNCHANGED <<tables, version>>
       ELSE /\ tables' = tables \union {"runtime_state"}
            /\ version' = seen[p] + 1
            /\ Go(p, "index") /\ UNCHANGED refusal
  /\ UNCHANGED <<fts, triggers, facts, index, seen, stale, at, uses, opens,
                 mishaps>>

----------------------------------------------------------------------------
\* FactStore.__init__ and _ensure_fts.

Opened(p, searches) ==
  Go(p, "ready") /\ uses' = [uses EXCEPT ![p] = searches]

\* A reader takes the index as it finds it.
ReaderLooks(p) ==
  /\ pc[p] = "index" /\ p \in Readers
  /\ Opened(p, p \in Capable /\ fts)
  /\ UNCHANGED <<file, seen, stale, at, refusal, opens, mishaps>>

\* Defect: an index that exists is a good one.
TrustExistingIndex(p) ==
  /\ pc[p] = "index" /\ p \in Capable \ Readers
  /\ stale' = [stale EXCEPT ![p] = ~fts]
  /\ at' = [at EXCEPT ![p] = 0]
  /\ Go(p, "script")
  /\ UNCHANGED <<file, seen, uses, refusal, opens, mishaps>>

\* A writer with FTS5: is there an index, and has it been kept up?
WriterLooks(p) ==
  /\ pc[p] = "index" /\ p \in Capable \ Readers
  /\ stale' = [stale EXCEPT ![p] = ~fts \/ triggers # AllTriggers]
  /\ at' = [at EXCEPT ![p] = 0]
  /\ Go(p, "script")
  /\ UNCHANGED <<file, seen, uses, refusal, opens, mishaps>>

\* FTS_SQL: the table and then the triggers, each IF NOT EXISTS.
RunScript(p) ==
  /\ pc[p] = "script"
  /\ IF at[p] = 0 THEN fts' = TRUE /\ UNCHANGED triggers
                  ELSE triggers' = triggers \union {FtsTriggers[at[p]]}
                       /\ UNCHANGED fts
  /\ at' = [at EXCEPT ![p] = @ + 1]
  /\ IF at[p] < Len(FtsTriggers) THEN UNCHANGED <<pc, uses>>
     ELSE IF stale[p] THEN Go(p, "rebuild") /\ UNCHANGED uses
     ELSE Opened(p, TRUE)
  /\ UNCHANGED <<version, tables, facts, index, seen, stale, refusal, opens,
                 mishaps>>

Rebuild(p) ==
  /\ pc[p] = "rebuild"
  /\ index' = facts
  /\ Opened(p, TRUE)
  /\ UNCHANGED <<version, tables, fts, triggers, facts, seen, stale, at,
                 refusal, opens, mishaps>>

\* A writer without FTS5 drops the triggers it could not run.
WriterWithoutFts(p) ==
  /\ pc[p] = "index" /\ p \notin Capable \union Readers
  /\ at' = [at EXCEPT ![p] = 0]
  /\ IF fts THEN Go(p, "drop") /\ UNCHANGED uses ELSE Opened(p, FALSE)
  /\ UNCHANGED <<file, seen, stale, refusal, opens, mishaps>>

\* What dropping a trigger does to a process that has found all of them and
\* goes on to make what is missing: it will not rebuild.
Undoing(trigger) ==
  IF trigger \in triggers /\ \E q \in Procs : pc[q] = "script" /\ ~ stale[q]
    THEN {"undone"} ELSE {}

\* Defect: the loop goes once too often.
DropOneMore(p) ==
  /\ pc[p] = "drop"
  /\ triggers' = triggers \ {FtsTriggers[at[p] + 1]}
  /\ mishaps' = mishaps \union Undoing(FtsTriggers[at[p] + 1])
  /\ at' = [at EXCEPT ![p] = @ + 1]
  /\ IF at'[p] <= Len(FtsTriggers) THEN UNCHANGED <<pc, uses>>
                                   ELSE Opened(p, FALSE)
  /\ UNCHANGED <<version, tables, fts, facts, index, seen, stale, refusal,
                 opens>>

DropTrigger(p) ==
  /\ pc[p] = "drop"
  /\ triggers' = triggers \ {FtsTriggers[at[p] + 1]}
  /\ mishaps' = mishaps \union Undoing(FtsTriggers[at[p] + 1])
  /\ at' = [at EXCEPT ![p] = @ + 1]
  /\ IF at'[p] < Len(FtsTriggers) THEN UNCHANGED <<pc, uses>>
                                  ELSE Opened(p, FALSE)
  /\ UNCHANGED <<version, tables, fts, facts, index, seen, stale, refusal,
                 opens>>

----------------------------------------------------------------------------
\* Facts.

\* SQLite compiles the triggers a statement may fire along with it; without
\* FTS5 that fails, and the call raises and changes nothing.
Compiles(p, fired) == p \in Capable \/ fired \intersect triggers = {}

\* A write takes the index along if the trigger it fires exists.
Write(p, k, v, trigger) ==
  /\ pc[p] = "ready" /\ p \notin Readers
  /\ facts' = [facts EXCEPT ![k] = v]
  /\ index' = IF trigger \in triggers THEN [index EXCEPT ![k] = v] ELSE index
  /\ UNCHANGED <<version, tables, fts, triggers, procs, opens, mishaps>>

\* An insert that becomes an update on conflict: either trigger may fire.
Put(p, k, v) ==
  /\ Compiles(p, {"ai", "au"})
  /\ Write(p, k, v, IF facts[k] = None THEN "ai" ELSE "au")

Delete(p, k) ==
  facts[k] # None /\ Compiles(p, {"ad"}) /\ Write(p, k, None, "ad")

\* The process has found the index wanting and has not rebuilt it yet.
ToFill(p) == pc[p] \in {"script", "rebuild"} /\ stale[p]

\* The process closes the store or dies with it open.
Close(p) ==
  /\ pc[p] = "ready"
  /\ Go(p, "off")
  /\ UNCHANGED <<file, seen, stale, at, uses, refusal, opens, mishaps>>

\* The process dies while it opens the store.
Crash(p) ==
  /\ Live(p) /\ pc[p] # "ready"
  /\ Go(p, "off")
  /\ mishaps' = mishaps
       \union (IF pc[p] = "script" THEN {"unmade"} ELSE {})
       \union (IF ToFill(p) /\ triggers = AllTriggers THEN {"unfilled"} ELSE {})
  /\ UNCHANGED <<file, seen, stale, at, uses, refusal, opens>>

Next ==
  \E p \in Procs :
    \/ Open(p) \/ ReadVersion(p) \/ LookForTables(p) \/ CreateSchema(p)
    \/ Migrate(p) \/ ReaderLooks(p) \/ WriterLooks(p) \/ RunScript(p)
    \/ Rebuild(p) \/ WriterWithoutFts(p) \/ DropTrigger(p)
    \/ \E k \in Keys, v \in Values : Put(p, k, v)
    \/ \E k \in Keys : Delete(p, k)
    \/ Close(p) \/ Crash(p)

Spec == Init /\ [][Next]_vars

----------------------------------------------------------------------------
\* Properties.

FileTypeOK ==
  /\ version \in 0..3 /\ tables \subseteq Tables
  /\ fts \in BOOLEAN /\ triggers \subseteq AllTriggers
  /\ facts \in Contents /\ index \in Contents
  /\ pc \in [Procs -> {"off", "version", "exists", "create", "migrate",
                       "index", "script", "rebuild", "drop", "ready"}]
  /\ seen \in [Procs -> 0..3]
  /\ stale \in [Procs -> BOOLEAN]
  /\ at \in [Procs -> 0..4]
  /\ uses \in [Procs -> BOOLEAN]
  /\ refusal \in [Procs -> {"none", "newer", "older", "unversioned",
                            "empty", "migration"}]
  /\ opens \in Nat /\ mishaps \subseteq {"unmade", "unfilled", "undone"}
  /\ \A p \in Procs : /\ pc[p] = "script" => at[p] <= Len(FtsTriggers)
                      /\ pc[p] = "drop"   => at[p] <  Len(FtsTriggers)

\* "A database is at exactly one version at all times" (migrations.py): the
\* tables that exist are those of the recorded version, or those of a file
\* from before versioning, whoever opens it and dies meanwhile.
SchemaAtVersion ==
  /\ version >= 1 => "runs" \in tables
  /\ version >= 2 <=> "runtime_state" \in tables

\* A store that has opened works on the schema this harness knows (the only
\* code allowed to decide that a database on disk may be used).
OpenedIsCurrent ==
  \A p \in Procs : pc[p] = "ready" => version = SchemaVersion

\* An index whose table and triggers are all there holds what the facts hold
\* (_ensure_fts), across builds with and without FTS5 that use the file at the
\* same time, unless somebody is about to fill it.  It is lost in two ways
\* only: somebody who was to fill it died, or a build without FTS5 dropped a
\* trigger between another's look at them and the end of its script, which
\* makes the trigger again and does not rebuild.
IndexSound ==
  fts /\ triggers = AllTriggers =>
    \/ index = facts
    \/ {"unfilled", "undone"} \intersect mishaps # {}
    \/ \E p \in Procs : ToFill(p)

\* The index and the scan return the same answers (facts.py): whoever searches
\* the index while nobody else has the file open, and nothing has befallen
\* it, finds what there is.
AnswersAgree ==
  \A p \in Procs :
    pc[p] = "ready" /\ uses[p] /\ (\A q \in Procs \ {p} : ~Live(q)) =>
      index = facts \/ mishaps # {}
=============================================================================
