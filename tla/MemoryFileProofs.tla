-------------------------- MODULE MemoryFileProofs --------------------------
(***************************************************************************)
(* Proofs about MemoryFile for any set of processes, any facts and any     *)
(* number of opens.                                                        *)
(***************************************************************************)
EXTENDS MemoryFile, SequenceTheorems, TLAPS

\* The script's triggers, by position.
LEMMA TriggerOrder ==
  /\ Len(FtsTriggers) = 3
  /\ FtsTriggers[1] = "ai" /\ FtsTriggers[2] = "ad" /\ FtsTriggers[3] = "au"
  BY DEF FtsTriggers

----------------------------------------------------------------------------
\* The file there is at the start is typed.
LEMMA FileTypeInit == Init => FileTypeOK
<1> SUFFICES ASSUME Init PROVE FileTypeOK
  OBVIOUS
<1>1. version \in 0..3 /\ tables \subseteq Tables
  BY DEF Init, Tables
<1>2. /\ fts \in BOOLEAN /\ triggers \subseteq AllTriggers
      /\ facts \in Contents /\ index \in Contents
  BY DEF Init, AllTriggers, Contents
<1>3. /\ pc \in [Procs -> {"off"}] /\ seen \in [Procs -> {0}]
      /\ stale \in [Procs -> BOOLEAN] /\ at \in [Procs -> {0}]
      /\ uses \in [Procs -> BOOLEAN] /\ refusal \in [Procs -> {"none"}]
      /\ opens \in Nat /\ mishaps = {}
  BY DEF Init
<1>4. QED  BY <1>1, <1>2, <1>3 DEF FileTypeOK

\* A process that migrates has read version 1: MIGRATIONS has no other step.
Migrating == \A p \in Procs : pc[p] = "migrate" => seen[p] = 1

FileTypeInv == FileTypeOK /\ Migrating

\* Every statement of every connection keeps the types.
LEMMA FileTypeStep == FileTypeInv /\ [Next]_vars => FileTypeInv'
<1> SUFFICES ASSUME FileTypeInv, [Next]_vars PROVE FileTypeInv'
  OBVIOUS
<1> USE TriggerOrder DEF FileTypeInv, FileTypeOK, Migrating, file, procs
<1>1. ASSUME NEW p \in Procs, Open(p) PROVE FileTypeInv'
  BY <1>1 DEF Open, Go
<1>2. ASSUME NEW p \in Procs, ReadVersion(p) PROVE FileTypeInv'
  <2>1. CASE version = 0
    BY <1>2, <2>1 DEF ReadVersion, Go, SchemaVersion
  <2>2. CASE version = 1
    BY <1>2, <2>2 DEF ReadVersion, Refuse, Go, SchemaVersion
  <2>3. CASE version = 2
    BY <1>2, <2>3 DEF ReadVersion, Go, SchemaVersion
  <2>4. CASE version = 3
    BY <1>2, <2>4 DEF ReadVersion, Refuse, Go, SchemaVersion
  <2>5. QED  BY <2>1, <2>2, <2>3, <2>4
<1>3. ASSUME NEW p \in Procs, LookForTables(p) PROVE FileTypeInv'
  BY <1>3 DEF LookForTables, Refuse, Go
<1>4. ASSUME NEW p \in Procs, CreateSchema(p) PROVE FileTypeInv'
  BY <1>4 DEF CreateSchema, Go, SchemaVersion
<1>5. ASSUME NEW p \in Procs, Migrate(p) PROVE FileTypeInv'
  <2>1. CASE "runtime_state" \in tables
    BY <1>5, <2>1 DEF Migrate, Refuse, Go
  <2>2. CASE "runtime_state" \notin tables
    <3>1. version' = 2 /\ tables' \subseteq Tables
      <4>1. seen[p] = 1
        BY <1>5 DEF Migrate
      <4>2. /\ tables' = tables \union {"runtime_state"}
            /\ version' = seen[p] + 1
        BY <1>5, <2>2 DEF Migrate
      <4>3. QED  BY <4>1, <4>2 DEF Tables
    <3>2. QED  BY <1>5, <2>2, <3>1 DEF Migrate, Go
  <2>3. QED  BY <2>1, <2>2
<1>6. ASSUME NEW p \in Procs, ReaderLooks(p) PROVE FileTypeInv'
  BY <1>6 DEF ReaderLooks, Opened, Go
<1>7. ASSUME NEW p \in Procs, WriterLooks(p) PROVE FileTypeInv'
  BY <1>7 DEF WriterLooks, Go
<1>8. ASSUME NEW p \in Procs, RunScript(p) PROVE FileTypeInv'
  <2>1. at[p] \in 0..3
    BY <1>8 DEF RunScript
  <2>2. triggers' \subseteq AllTriggers /\ fts' \in BOOLEAN
    <3>1. CASE at[p] = 0
      BY <1>8, <3>1 DEF RunScript
    <3>2. CASE at[p] \in 1..3
      <4>1. FtsTriggers[at[p]] \in AllTriggers
        BY <3>2 DEF AllTriggers
      <4>2. triggers' = triggers \union {FtsTriggers[at[p]]} /\ fts' = fts
        BY <1>8, <3>2 DEF RunScript
      <4>3. QED  BY <4>1, <4>2
    <3>3. QED  BY <2>1, <3>1, <3>2
  <2>3. /\ at' = [at EXCEPT ![p] = @ + 1]
        /\ UNCHANGED <<version, tables, facts, index, seen, stale, refusal,
                       opens, mishaps>>
    BY <1>8 DEF RunScript
  <2>4. CASE at[p] < 3
    BY <1>8, <2>1, <2>2, <2>3, <2>4 DEF RunScript
  <2>5. CASE at[p] = 3 /\ stale[p]
    BY <1>8, <2>1, <2>2, <2>3, <2>5 DEF RunScript, Go
  <2>6. CASE at[p] = 3 /\ ~ stale[p]
    <3>1. /\ pc' = [pc EXCEPT ![p] = "ready"]
          /\ uses' = [uses EXCEPT ![p] = TRUE]
      BY <1>8, <2>6 DEF RunScript, Opened, Go
    <3>2. QED  BY <2>1, <2>2, <2>3, <2>6, <3>1
  <2>7. QED  BY <2>1, <2>4, <2>5, <2>6
<1>9. ASSUME NEW p \in Procs, Rebuild(p) PROVE FileTypeInv'
  BY <1>9 DEF Rebuild, Opened, Go
<1>10. ASSUME NEW p \in Procs, WriterWithoutFts(p) PROVE FileTypeInv'
  <2>1. /\ at' = [at EXCEPT ![p] = 0]
        /\ UNCHANGED <<file, seen, stale, refusal, opens, mishaps>>
    BY <1>10 DEF WriterWithoutFts
  <2>2. CASE fts
    BY <1>10, <2>1, <2>2 DEF WriterWithoutFts, Go
  <2>3. CASE ~ fts
    <3>1. /\ pc' = [pc EXCEPT ![p] = "ready"]
          /\ uses' = [uses EXCEPT ![p] = FALSE]
      BY <1>10, <2>3 DEF WriterWithoutFts, Opened, Go
    <3>2. QED  BY <2>1, <3>1
  <2>4. QED  BY <2>2, <2>3
<1>11. ASSUME NEW p \in Procs, DropTrigger(p) PROVE FileTypeInv'
  <2>1. /\ triggers' \subseteq AllTriggers /\ at[p] \in 0..2
        /\ at' = [at EXCEPT ![p] = @ + 1] /\ at'[p] = at[p] + 1
        /\ mishaps' \subseteq {"unmade", "unfilled", "undone"}
        /\ UNCHANGED <<version, tables, fts, facts, index, seen, stale,
                       refusal, opens>>
    BY <1>11 DEF DropTrigger, Undoing
  <2>2. CASE at[p] < 2
    <3>1. at'[p] < Len(FtsTriggers)
      BY <2>1, <2>2
    <3>2. UNCHANGED <<pc, uses>>
      BY <1>11, <3>1 DEF DropTrigger
    <3>3. QED  BY <2>1, <2>2, <3>2
  <2>3. CASE at[p] = 2
    <3>1. /\ pc' = [pc EXCEPT ![p] = "ready"]
          /\ uses' = [uses EXCEPT ![p] = FALSE]
      BY <1>11, <2>1, <2>3 DEF DropTrigger, Opened, Go
    <3>2. QED  BY <2>1, <2>3, <3>1
  <2>4. QED  BY <2>1, <2>2, <2>3
<1>12. ASSUME NEW p \in Procs, NEW k \in Keys, NEW v \in Values, Put(p, k, v)
       PROVE  FileTypeInv'
  BY <1>12 DEF Put, Write, Contents
<1>13. ASSUME NEW p \in Procs, NEW k \in Keys, Delete(p, k)
       PROVE  FileTypeInv'
  BY <1>13 DEF Delete, Write, Contents
<1>14. ASSUME NEW p \in Procs, Close(p) PROVE FileTypeInv'
  BY <1>14 DEF Close, Go
<1>15. ASSUME NEW p \in Procs, Crash(p) PROVE FileTypeInv'
  BY <1>15 DEF Crash, Go
<1>16. CASE UNCHANGED vars
  BY <1>16 DEF vars
<1>17. QED
  BY <1>1, <1>2, <1>3, <1>4, <1>5, <1>6, <1>7, <1>8, <1>9, <1>10, <1>11,
     <1>12, <1>13, <1>14, <1>15, <1>16 DEF Next

\* Every variable of the file and of its processes has its type, for any
\* number of processes (store.py, migrations.py, facts.py).
THEOREM FileTypeCorrect == Spec => []FileTypeOK
<1>1. Init => FileTypeInv
  BY FileTypeInit DEF FileTypeInv, Migrating, Init
<1>2. FileTypeInv => FileTypeOK
  BY DEF FileTypeInv
<1>3. QED  BY <1>1, <1>2, FileTypeStep, PTL DEF Spec

----------------------------------------------------------------------------
\* The schema.  What a process has read of the version may be stale, but only
\* in one direction: the version it found is the one the file has, or another
\* process has brought the file to the current one.
ReadingsHold ==
  \A p \in Procs :
    /\ pc[p] \in {"exists", "create"} => version \in {0, 2}
    /\ pc[p] = "migrate" => version \in {1, 2}
    /\ pc[p] \in {"index", "script", "rebuild", "drop", "ready"} => version = 2

SchemaInv == SchemaAtVersion /\ ReadingsHold

\* The file at the start has a schema some version has written.
LEMMA SchemaInit == Init => SchemaInv
  BY DEF Init, SchemaInv, SchemaAtVersion, ReadingsHold, Tables

\* Only CreateSchema and Migrate write the schema; either writes all of it.
LEMMA SchemaStep ==
  FileTypeInv /\ SchemaInv /\ [Next]_vars => SchemaInv'
<1> SUFFICES ASSUME FileTypeInv, SchemaInv, [Next]_vars PROVE SchemaInv'
  OBVIOUS
<1> USE DEF FileTypeInv, FileTypeOK, Migrating, SchemaInv, SchemaAtVersion,
            ReadingsHold, file, procs
<1>1. ASSUME NEW p \in Procs, ReadVersion(p) PROVE SchemaInv'
  <2>1. CASE version = 0
    BY <1>1, <2>1 DEF ReadVersion, Go, SchemaVersion
  <2>2. CASE version = 1
    BY <1>1, <2>2 DEF ReadVersion, Refuse, Go, SchemaVersion
  <2>3. CASE version = 2
    BY <1>1, <2>3 DEF ReadVersion, Go, SchemaVersion
  <2>4. CASE version = 3
    BY <1>1, <2>4 DEF ReadVersion, Refuse, Go, SchemaVersion
  <2>5. QED  BY <2>1, <2>2, <2>3, <2>4
<1>2. ASSUME NEW p \in Procs, LookForTables(p) PROVE SchemaInv'
  BY <1>2 DEF LookForTables, Refuse, Go
<1>3. ASSUME NEW p \in Procs, CreateSchema(p) PROVE SchemaInv'
  <2>1. version \in {0, 2} /\ version' = 2 /\ tables' = Tables
    BY <1>3 DEF CreateSchema, SchemaVersion
  <2>2. QED  BY <1>3, <2>1 DEF CreateSchema, Go, Tables
<1>4. ASSUME NEW p \in Procs, Migrate(p) PROVE SchemaInv'
  <2>1. CASE "runtime_state" \in tables
    BY <1>4, <2>1 DEF Migrate, Refuse, Go
  <2>2. CASE "runtime_state" \notin tables
    <3>1. version = 1 /\ version' = 2
      BY <1>4, <2>2 DEF Migrate
    <3>2. QED  BY <1>4, <2>2, <3>1 DEF Migrate, Go
  <2>3. QED  BY <2>1, <2>2
<1>5. ASSUME NEW p \in Procs,
             \/ Open(p) \/ ReaderLooks(p) \/ WriterLooks(p)
             \/ WriterWithoutFts(p) \/ Close(p) \/ Crash(p)
      PROVE  SchemaInv'
  BY <1>5 DEF Open, ReaderLooks, WriterLooks, WriterWithoutFts, Close, Crash,
              Opened, Go
<1>6. ASSUME NEW p \in Procs, RunScript(p) \/ Rebuild(p) \/ DropTrigger(p)
      PROVE  SchemaInv'
  BY <1>6 DEF RunScript, Rebuild, DropTrigger, Opened, Go
<1>7. ASSUME NEW p \in Procs, NEW k \in Keys, NEW v \in Values, Put(p, k, v)
      PROVE  SchemaInv'
  BY <1>7 DEF Put, Write
<1>8. ASSUME NEW p \in Procs, NEW k \in Keys, Delete(p, k) PROVE SchemaInv'
  BY <1>8 DEF Delete, Write
<1>9. CASE UNCHANGED vars
  BY <1>9 DEF vars
<1>10. QED
  BY <1>1, <1>2, <1>3, <1>4, <1>5, <1>6, <1>7, <1>8, <1>9 DEF Next

\* "A database is at exactly one version at all times" (migrations.py), for
\* any number of processes that open it at once and die in between.
THEOREM SchemaKept == Spec => []SchemaAtVersion
<1>1. Init => FileTypeInv /\ SchemaInv
  BY FileTypeInit, SchemaInit DEF FileTypeInv, Migrating, Init
<1>2. SchemaInv => SchemaAtVersion
  BY DEF SchemaInv
<1>3. QED  BY <1>1, <1>2, FileTypeStep, SchemaStep, PTL DEF Spec

\* A store that has opened works on the schema this harness knows.
THEOREM StoreIsCurrent == Spec => []OpenedIsCurrent
<1>1. Init => FileTypeInv /\ SchemaInv
  BY FileTypeInit, SchemaInit DEF FileTypeInv, Migrating, Init
<1>2. SchemaInv => OpenedIsCurrent
  BY DEF SchemaInv, ReadingsHold, OpenedIsCurrent, SchemaVersion
<1>3. QED  BY <1>1, <1>2, FileTypeStep, SchemaStep, PTL DEF Spec

----------------------------------------------------------------------------
\* The index.  Where all the triggers are, the index agrees with the facts, or
\* it was lost, or a process is going to fill it.
Lost == {"unfilled", "undone"} \intersect mishaps # {}

Filled == index = facts \/ Lost \/ \E p \in Procs : ToFill(p)

\* A process that found nothing to repair still has all the triggers before
\* it, unless they were dropped behind its back; one that rebuilds had cause.
LooksHold ==
  \A p \in Procs :
    /\ pc[p] = "script" /\ ~ stale[p] =>
         triggers = AllTriggers \/ "undone" \in mishaps
    /\ pc[p] = "rebuild" => stale[p]

IndexInv == (triggers = AllTriggers => Filled) /\ LooksHold

\* Its index is whole, or it has none yet.
LEMMA IndexInit == Init => IndexInv
<1> SUFFICES ASSUME Init PROVE IndexInv
  OBVIOUS
<1>1. \A p \in Procs : pc[p] = "off"
  BY DEF Init
<1>2. triggers = {} \/ index = facts
  BY DEF Init
<1>3. AllTriggers # {}
  BY DEF AllTriggers
<1>4. QED  BY <1>1, <1>2, <1>3 DEF IndexInv, Filled, LooksHold

\* A step that leaves the index and what befell it alone, and moves one
\* process, which was not to fill it, to a place where nothing is claimed.
LEMMA Uninvolved ==
  ASSUME FileTypeInv, IndexInv, NEW p \in Procs, NEW where,
         where \notin {"script", "rebuild"}, ~ ToFill(p),
         pc' = [pc EXCEPT ![p] = where],
         UNCHANGED <<triggers, facts, index, stale>>,
         mishaps \subseteq mishaps'
  PROVE  IndexInv'
<1> USE DEF FileTypeInv, FileTypeOK
<1>1. /\ pc'[p] = where
      /\ \A q \in Procs : q # p => pc'[q] = pc[q]
  OBVIOUS
<1>2. \A q \in Procs : ToFill(q) => ToFill(q)'
  BY <1>1 DEF ToFill
<1>3. (triggers = AllTriggers => Filled)'
  BY <1>2 DEF IndexInv, Filled, Lost
<1>4. LooksHold'
  BY <1>1 DEF IndexInv, LooksHold
<1>5. QED  BY <1>3, <1>4 DEF IndexInv

\* Opening the file and the schema part of it, and a reader's or a plain
\* writer's look at the index.
LEMMA IndexSchema ==
  ASSUME FileTypeInv, IndexInv, NEW p \in Procs,
         \/ Open(p) \/ ReadVersion(p) \/ LookForTables(p) \/ CreateSchema(p)
         \/ Migrate(p) \/ ReaderLooks(p) \/ WriterWithoutFts(p)
  PROVE  IndexInv'
<1>1. PICK where : /\ where \notin {"script", "rebuild"}
                   /\ pc' = [pc EXCEPT ![p] = where]
  <2>1. CASE ReadVersion(p)
    <3>1. version \in {0, 1, 2, 3}
      BY DEF FileTypeInv, FileTypeOK
    <3>2. QED
      BY <2>1, <3>1 DEF ReadVersion, Refuse, Go, SchemaVersion
  <2>2. CASE LookForTables(p)
    BY <2>2 DEF LookForTables, Refuse, Go
  <2>3. CASE Open(p) \/ CreateSchema(p)
    BY <2>3 DEF Open, CreateSchema, Go
  <2>4. CASE Migrate(p)
    BY <2>4 DEF Migrate, Refuse, Go
  <2>5. CASE ReaderLooks(p) \/ WriterWithoutFts(p)
    BY <2>5 DEF ReaderLooks, WriterWithoutFts, Opened, Go
  <2>6. QED  BY <2>1, <2>2, <2>3, <2>4, <2>5
<1>2. /\ pc[p] \in {"off", "version", "exists", "create", "migrate", "index"}
      /\ UNCHANGED <<triggers, facts, index, stale, mishaps>>
  BY DEF Open, ReadVersion, LookForTables, CreateSchema, Migrate, ReaderLooks,
         WriterWithoutFts, file
<1>3. ~ ToFill(p)
  BY <1>2 DEF ToFill
<1>4. QED  BY <1>1, <1>2, <1>3, Uninvolved

\* The look of a writer with FTS5 decides whether it will fill the index.
LEMMA IndexLook ==
  ASSUME FileTypeInv, IndexInv, NEW p \in Procs, WriterLooks(p)
  PROVE  IndexInv'
<1> USE DEF FileTypeInv, FileTypeOK, file
<1>1. /\ pc[p] = "index" /\ pc'[p] = "script"
      /\ \A q \in Procs : q # p => pc'[q] = pc[q] /\ stale'[q] = stale[q]
      /\ stale'[p] = (~ fts \/ triggers # AllTriggers)
      /\ UNCHANGED <<triggers, facts, index, mishaps>>
  BY DEF WriterLooks, Go
<1>2. \A q \in Procs : ToFill(q) => ToFill(q)'
  BY <1>1 DEF ToFill
<1> HIDE DEF FileTypeInv, FileTypeOK, file
<1>3. (triggers = AllTriggers => Filled)'
  BY <1>1, <1>2 DEF IndexInv, Filled, Lost
<1>4. LooksHold'
  BY <1>1 DEF IndexInv, LooksHold
<1>5. QED  BY <1>3, <1>4 DEF IndexInv

\* Making the table and the triggers.
LEMMA IndexScript ==
  ASSUME FileTypeInv, IndexInv, NEW p \in Procs, RunScript(p)
  PROVE  IndexInv'
<1> USE DEF FileTypeInv, FileTypeOK
<1>1. /\ pc[p] = "script" /\ UNCHANGED <<facts, index, stale, mishaps>>
      /\ triggers \subseteq triggers'
      /\ \A q \in Procs : q # p => pc'[q] = pc[q]
      /\ pc'[p] \in {"script", IF stale[p] THEN "rebuild" ELSE "ready"}
  BY DEF RunScript, Opened, Go
<1>2. triggers' \subseteq AllTriggers
  <2>1. Next
    BY DEF Next
  <2>2. QED  BY <2>1, FileTypeStep
<1>3. triggers = AllTriggers => triggers' = AllTriggers
  BY <1>1, <1>2
<1>4. \A q \in Procs : ToFill(q) => ToFill(q)'
  BY <1>1 DEF ToFill
<1>5. (triggers = AllTriggers => Filled)'
  <2>1. CASE stale[p]
    <3>1. ToFill(p)
      BY <1>1, <2>1 DEF ToFill
    <3>2. QED  BY <1>4, <3>1 DEF Filled
  <2>2. CASE ~ stale[p]
    <3>1. triggers = AllTriggers \/ "undone" \in mishaps
      BY <1>1, <2>2 DEF IndexInv, LooksHold
    <3>2. QED  BY <1>1, <1>4, <3>1 DEF IndexInv, Filled, Lost
  <2>3. QED  BY <2>1, <2>2
<1>6. LooksHold'
  BY <1>1, <1>3 DEF IndexInv, LooksHold
<1>7. QED  BY <1>5, <1>6 DEF IndexInv

\* The rebuild of the index.
LEMMA IndexRebuild ==
  ASSUME FileTypeInv, IndexInv, NEW p \in Procs, Rebuild(p)
  PROVE  IndexInv'
<1> USE DEF FileTypeInv, FileTypeOK
<1>1. /\ pc'[p] = "ready"
      /\ \A q \in Procs : q # p => pc'[q] = pc[q]
      /\ index' = facts' /\ UNCHANGED <<triggers, stale, mishaps>>
  BY DEF Rebuild, Opened, Go
<1>2. Filled'
  BY <1>1 DEF Filled
<1>3. LooksHold'
  BY <1>1 DEF IndexInv, LooksHold
<1>4. QED  BY <1>2, <1>3 DEF IndexInv

\* Dropping a trigger leaves the index incomplete, and is remembered when it
\* goes behind the back of a process that has found all of them.
LEMMA IndexDrop ==
  ASSUME FileTypeInv, IndexInv, NEW p \in Procs, DropTrigger(p)
  PROVE  IndexInv'
<1> USE TriggerOrder DEF FileTypeInv, FileTypeOK
<1>1. PICK t : t = FtsTriggers[at[p] + 1]
  OBVIOUS
<1>2. /\ pc[p] = "drop" /\ t \in AllTriggers
      /\ triggers' = triggers \ {t} /\ UNCHANGED stale
      /\ mishaps' = mishaps \union Undoing(t)
  BY <1>1 DEF DropTrigger, AllTriggers
<1>3. /\ \A q \in Procs : q # p => pc'[q] = pc[q]
      /\ pc'[p] \notin {"script", "rebuild"}
  BY <1>2 DEF DropTrigger, Opened, Go
<1> HIDE DEF FileTypeInv, FileTypeOK
<1>4. triggers' # AllTriggers
  BY <1>2
<1>5. ASSUME NEW q \in Procs, pc'[q] = "script", ~ stale'[q]
      PROVE  "undone" \in mishaps'
  <2>1. pc[q] = "script" /\ ~ stale[q]
    BY <1>2, <1>3, <1>5
  <2>2. triggers = AllTriggers \/ "undone" \in mishaps
    BY <2>1 DEF IndexInv, LooksHold
  <2>3. CASE triggers = AllTriggers
    BY <1>2, <2>1, <2>3 DEF Undoing
  <2>4. QED  BY <1>2, <2>2, <2>3
<1>6. \A q \in Procs : pc'[q] = "rebuild" => stale'[q]
  BY <1>2, <1>3 DEF IndexInv, LooksHold
<1>7. LooksHold'
  BY <1>5, <1>6 DEF LooksHold
<1>8. QED  BY <1>4, <1>7 DEF IndexInv

\* With all the triggers in place a write takes the index along.
LEMMA IndexWrite ==
  ASSUME FileTypeInv, IndexInv, NEW p \in Procs, NEW k \in Keys,
         NEW v \in Values \union {None}, NEW trigger \in AllTriggers,
         Write(p, k, v, trigger)
  PROVE  IndexInv'
<1>1. /\ facts' = [facts EXCEPT ![k] = v]
      /\ trigger \in triggers => index' = [index EXCEPT ![k] = v]
      /\ UNCHANGED <<triggers, pc, stale, mishaps>>
  BY DEF Write, procs
<1>2. triggers = AllTriggers /\ index = facts => index' = facts'
  BY <1>1
<1>3. \A q \in Procs : ToFill(q) => ToFill(q)'
  BY <1>1 DEF ToFill
<1>4. (triggers = AllTriggers => Filled)'
  BY <1>1, <1>2, <1>3 DEF IndexInv, Filled, Lost
<1>5. LooksHold'
  BY <1>1 DEF IndexInv, LooksHold
<1>6. QED  BY <1>4, <1>5 DEF IndexInv

\* Closing, and dying in the middle of an open.
LEMMA IndexLeave ==
  ASSUME FileTypeInv, IndexInv, NEW p \in Procs, Close(p) \/ Crash(p)
  PROVE  IndexInv'
<1>1. /\ pc' = [pc EXCEPT ![p] = "off"]
      /\ UNCHANGED <<triggers, facts, index, stale>>
      /\ mishaps \subseteq mishaps'
  BY DEF Close, Crash, Go, file
<1>2. CASE ~ ToFill(p)
  BY <1>1, <1>2, Uninvolved
<1>3. CASE ToFill(p)
  <2>1. triggers = AllTriggers => "unfilled" \in mishaps'
    BY <1>3 DEF Close, Crash, ToFill
  <2>2. \A q \in Procs : /\ pc'[q] \in {"script", "rebuild"} => pc'[q] = pc[q]
    BY <1>1 DEF FileTypeInv, FileTypeOK
  <2>3. (triggers = AllTriggers => Filled)'
    BY <1>1, <2>1 DEF Filled, Lost
  <2>4. LooksHold'
    BY <1>1, <2>2 DEF IndexInv, LooksHold
  <2>5. QED  BY <2>3, <2>4 DEF IndexInv
<1>4. QED  BY <1>2, <1>3

\* Every statement keeps what is known of the index.
LEMMA IndexStep == FileTypeInv /\ IndexInv /\ [Next]_vars => IndexInv'
<1> SUFFICES ASSUME FileTypeInv, IndexInv, [Next]_vars PROVE IndexInv'
  OBVIOUS
<1>1. ASSUME NEW p \in Procs, NEW k \in Keys, NEW v \in Values, Put(p, k, v)
      PROVE  IndexInv'
  <2>1. /\ "ai" \in AllTriggers /\ "au" \in AllTriggers
        /\ v \in Values \union {None}
    BY DEF AllTriggers
  <2>2. Write(p, k, v, "ai") \/ Write(p, k, v, "au")
    BY <1>1 DEF Put
  <2>3. QED  BY <2>1, <2>2, IndexWrite
<1>2. ASSUME NEW p \in Procs, NEW k \in Keys, Delete(p, k) PROVE IndexInv'
  <2>1. "ad" \in AllTriggers /\ None \in Values \union {None}
    BY DEF AllTriggers
  <2>2. Write(p, k, None, "ad")
    BY <1>2 DEF Delete
  <2>3. QED  BY <2>1, <2>2, IndexWrite
<1>3. CASE UNCHANGED vars
  BY <1>3 DEF vars, file, procs, IndexInv, Filled, Lost, LooksHold, ToFill
<1>4. QED
  BY <1>1, <1>2, <1>3, IndexSchema, IndexLook, IndexScript, IndexRebuild,
     IndexDrop, IndexLeave DEF Next

\* An index whose table and triggers are all there holds what the facts hold
\* (FactStore._ensure_fts), for any number of processes, of builds with and
\* without FTS5, that use the file at once and die in between, unless one is
\* about to fill it; it is lost only by the death of one that was to, or by
\* triggers dropped between another's look at them and the end of its script.
THEOREM IndexKept == Spec => []IndexSound
<1>1. Init => FileTypeInv /\ IndexInv
  BY FileTypeInit, IndexInit DEF FileTypeInv, Migrating, Init
<1>2. IndexInv => IndexSound
  BY DEF IndexInv, Filled, Lost, IndexSound
<1>3. QED  BY <1>1, <1>2, FileTypeStep, IndexStep, PTL DEF Spec
=============================================================================
