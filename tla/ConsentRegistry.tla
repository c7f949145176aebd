-------------------------- MODULE ConsentRegistry --------------------------
(***************************************************************************)
(* routers/consent_registry.py, _do_sync: the consent workbook is copied   *)
(* into the registry's tables by a background loop and on demand.          *)
(*                                                                         *)
(* A sync is one transaction, but nothing keeps two of them apart: each    *)
(* reads the log, replaces the rows of every sheet that has any, and adds  *)
(* its own log row.  PostgreSQL runs at READ COMMITTED: a DELETE removes   *)
(* the rows that were committed when it began, waits for a transaction     *)
(* that has deleted one of them already, and never sees what that one      *)
(* inserts.  An INSERT into a table with a unique code waits for an        *)
(* uncommitted row with its code and fails if that row is committed.  What *)
(* keeps the registry whole is the unique code of the sheet copied first,  *)
(* as long as every edition of the workbook has one code in common.        *)
(***************************************************************************)
EXTENDS Integers, Sequences, FiniteSets

CONSTANTS
  Syncers,      \* the background loop and the callers of POST /sync
  SyncLoop,     \* the background loop, one of Syncers
  Sheets,       \* the sheets in the order they are copied
  Unique,       \* sheets whose table has a unique code
  Codes,        \* first cells of the rows
  MaxEditions,  \* bound: editions of the workbook
  Content,      \* edition -> sheet -> its codes; none if the sheet is absent
  MaxManualSyncs,  \* bound: syncs started by hand
  MaxSyncFailures  \* bound: transactions that fail

Editions == 1..MaxEditions
Tables == {Sheets[i] : i \in DOMAIN Sheets}

ASSUME SyncerAssumption == SyncLoop \in Syncers /\ IsFiniteSet(Syncers)
ASSUME SheetAssumption ==
  /\ Sheets \in Seq(Tables) /\ Sheets # <<>>
  /\ \A i, j \in DOMAIN Sheets : Sheets[i] = Sheets[j] => i = j
  /\ Unique \subseteq Tables
ASSUME ContentAssumption ==
  /\ MaxEditions \in Nat \ {0}
  /\ Content \in [Editions -> [Tables -> SUBSET Codes]]
\* The precondition on the workbook: some code is in every edition of Sheets[1].
ASSUME SharedCodeAssumption ==
  /\ Sheets[1] \in Unique
  /\ \E c \in Codes : \A e \in Editions : c \in Content[e][Sheets[1]]
ASSUME SyncBounds == MaxManualSyncs \in Nat /\ MaxSyncFailures \in Nat

VARIABLES
  file,      \* edition of the workbook on disk; an edit makes a later one
  tables,    \* sheet -> committed rows
  log,       \* consent_sync_log, by id
  sync,      \* syncer -> its call of _do_sync
  manual_syncs,
  sync_failures

registry_vars == <<file, tables, log, sync, manual_syncs, sync_failures>>

ConsentRow == [code : Codes, version : Nat, by : Syncers]
\* edition and planned are history: what was read from the file, and how many
\* syncs were logged when the version was chosen.
LogRow == [version : Nat \ {0}, hash : Editions, by : Syncers,
           sheets : SUBSET Tables, edition : Editions, planned : Nat]
Sync == [at : {"done", "check", "plan", "delete", "deleting", "insert"},
         force : BOOLEAN, hash : Editions, edition : Editions, version : Nat,
         planned : Nat, sheet : Nat, snapshot : SUBSET ConsentRow,
         doomed : [Tables -> SUBSET ConsentRow], copied : SUBSET Tables]
NoSync == [at |-> "done", force |-> FALSE, hash |-> 1, edition |-> 1,
         version |-> 0, planned |-> 0, sheet |-> 1, snapshot |-> {},
         doomed |-> [t \in Tables |-> {}], copied |-> {}]

RegistryTypeOK ==
  /\ file \in Editions
  /\ tables \in [Tables -> SUBSET ConsentRow]
  /\ log \in Seq(LogRow)
  /\ sync \in [Syncers -> Sync]
  /\ manual_syncs \in 0..MaxManualSyncs
  /\ sync_failures \in 0..MaxSyncFailures

RegistryInit ==
  /\ file = 1
  /\ tables = [t \in Tables |-> {}]
  /\ log = <<>>
  /\ sync = [s \in Syncers |-> NoSync]
  /\ manual_syncs = 0 /\ sync_failures = 0

\* The workbook is replaced: its hash is new.
EditFile ==
  /\ file' \in {e \in Editions : e > file}
  /\ UNCHANGED <<tables, log, sync, manual_syncs, sync_failures>>

-----------------------------------------------------------------------------
(* _do_sync.                                                               *)

\* The hash of the file is taken before the transaction begins.
BeginSync(s, force) ==
  /\ sync[s].at = "done"
  /\ sync' = [sync EXCEPT ![s] =
       [NoSync EXCEPT !.at = "check", !.force = force, !.hash = file]]
  /\ UNCHANGED <<file, tables, log, sync_failures>>

start_background_sync ==
  BeginSync(SyncLoop, FALSE) /\ UNCHANGED manual_syncs

trigger_sync(s) ==
  /\ s # SyncLoop
  /\ manual_syncs < MaxManualSyncs
  /\ manual_syncs' = manual_syncs + 1
  /\ \E force \in BOOLEAN : BeginSync(s, force)

\* Faulty variant: a hash that was ever synced counts as synced.
AlreadySynced_Ever(hash) == \E i \in DOMAIN log : log[i].hash = hash

AlreadySynced(hash) == log # <<>> /\ log[Len(log)].hash = hash

\* The workbook is read after the hash was compared, as it is by then.
CheckAndRead(s) ==
  /\ sync[s].at = "check"
  /\ sync' = [sync EXCEPT ![s] =
       IF ~sync[s].force /\ AlreadySynced(sync[s].hash)
       THEN NoSync
       ELSE [@ EXCEPT !.at = "plan", !.edition = file]]
  /\ UNCHANGED <<file, tables, log, manual_syncs, sync_failures>>

\* Faulty variants: one more than the version of the last row; MAX itself.
NextVersion_Last == IF log = <<>> THEN 1 ELSE log[Len(log)].version + 1
NextVersion_Max ==
  CHOOSE v \in 0..Len(log) :
    /\ \A i \in DOMAIN log : log[i].version =< v
    /\ v = 0 \/ \E i \in DOMAIN log : log[i].version = v

\* COALESCE(MAX(version), 0) + 1; no version exceeds the number of log rows.
NextVersion ==
  CHOOSE v \in 1..Len(log) + 1 :
    /\ \A i \in DOMAIN log : log[i].version < v
    /\ v = 1 \/ \E i \in DOMAIN log : log[i].version = v - 1

Plan(s) ==
  /\ sync[s].at = "plan"
  /\ sync' = [sync EXCEPT ![s].at = "delete", ![s].version = NextVersion,
                          ![s].planned = Len(log)]
  /\ UNCHANGED <<file, tables, log, manual_syncs, sync_failures>>

\* Sheet(s), Rows(s): the sheet s is at and the rows it copies from it.
Sheet(s) == Sheets[sync[s].sheet]
Rows(s) == [code : Content[sync[s].edition][Sheet(s)],
            version : {sync[s].version}, by : {s}]

\* A sheet without rows is passed over: its table keeps the old ones.
PassOver(s) ==
  /\ sync[s].at = "delete" /\ sync[s].sheet \in DOMAIN Sheets
  /\ Rows(s) = {}
  /\ sync' = [sync EXCEPT ![s].sheet = @ + 1]
  /\ UNCHANGED <<file, tables, log, manual_syncs, sync_failures>>

\* The DELETE begins: it will remove what is committed now ...
DeleteBegins(s) ==
  /\ sync[s].at = "delete" /\ sync[s].sheet \in DOMAIN Sheets
  /\ Rows(s) # {}
  /\ sync' = [sync EXCEPT ![s].at = "deleting", ![s].snapshot = tables[Sheet(s)]]
  /\ UNCHANGED <<file, tables, log, manual_syncs, sync_failures>>

\* ... once nobody else holds one of these rows, and as far as they are left.
DeleteEnds(s) ==
  /\ sync[s].at = "deleting"
  /\ \A o \in Syncers \ {s} : sync[s].snapshot \intersect sync[o].doomed[Sheet(s)] = {}
  /\ sync' = [sync EXCEPT
       ![s].at = "insert", ![s].snapshot = {},
       ![s].doomed[Sheet(s)] = sync[s].snapshot \intersect tables[Sheet(s)]]
  /\ UNCHANGED <<file, tables, log, manual_syncs, sync_failures>>

SameCode(rows1, rows2) == \E a \in rows1, b \in rows2 : a.code = b.code

\* What o has inserted into table t and not committed yet.
Inserted(o, t) ==
  IF t \in sync[o].copied
  THEN [code : Content[sync[o].edition][t], version : {sync[o].version}, by : {o}]
  ELSE {}

Waits(s) ==
  /\ Sheet(s) \in Unique
  /\ \E o \in Syncers \ {s} : SameCode(Rows(s), Inserted(o, Sheet(s)))

\* Faulty variant: the code is not unique in the table.
Duplicate_Never(s) == FALSE

\* The INSERT meets a committed row with its code that it did not delete.
Duplicate(s) ==
  /\ Sheet(s) \in Unique
  /\ SameCode(Rows(s), tables[Sheet(s)] \ sync[s].doomed[Sheet(s)])

Insert(s) ==
  /\ sync[s].at = "insert"
  /\ ~Waits(s)
  /\ \/ Duplicate(s) /\ sync' = [sync EXCEPT ![s] = NoSync]
     \/ ~Duplicate(s) /\ sync' = [sync EXCEPT ![s].at = "delete", ![s].sheet = @ + 1,
                                              ![s].copied = @ \union {Sheet(s)}]
  /\ UNCHANGED <<file, tables, log, manual_syncs, sync_failures>>

CommitSync(s) ==
  /\ sync[s].at = "delete" /\ sync[s].sheet \notin DOMAIN Sheets
  /\ tables' = [t \in Tables |->
                  (tables[t] \ sync[s].doomed[t]) \union Inserted(s, t)]
  /\ log' = Append(log, [version |-> sync[s].version, hash |-> sync[s].hash,
                         by |-> s, sheets |-> sync[s].copied,
                         edition |-> sync[s].edition,
                         planned |-> sync[s].planned])
  /\ sync' = [sync EXCEPT ![s] = NoSync]
  /\ UNCHANGED <<file, manual_syncs, sync_failures>>

\* A statement fails or the process dies: the transaction is rolled back.
AbortSync(s) ==
  /\ sync[s].at # "done"
  /\ sync_failures < MaxSyncFailures
  /\ sync_failures' = sync_failures + 1
  /\ sync' = [sync EXCEPT ![s] = NoSync]
  /\ UNCHANGED <<file, tables, log, manual_syncs>>

SyncStep(s) ==
  \/ CheckAndRead(s) \/ Plan(s) \/ PassOver(s) \/ DeleteBegins(s)
  \/ DeleteEnds(s) \/ Insert(s) \/ CommitSync(s)

RegistryNext ==
  \/ EditFile
  \/ start_background_sync
  \/ \E s \in Syncers : trigger_sync(s) \/ SyncStep(s) \/ AbortSync(s)

RegistrySpec == RegistryInit /\ [][RegistryNext]_registry_vars

\* The background loop starts again and again, and every call goes on.
FairRegistrySpec ==
  /\ RegistrySpec
  /\ WF_registry_vars(start_background_sync)
  /\ \A s \in Syncers : WF_registry_vars(SyncStep(s))

-----------------------------------------------------------------------------
(* Properties.                                                             *)

\* The logged syncs that copied sheet t, and the rows the last of them wrote.
Copies(t) == {i \in DOMAIN log : t \in log[i].sheets}
Latest(t) == CHOOSE i \in Copies(t) : \A j \in Copies(t) : j =< i
RowsOf(t, i) == [code : Content[log[i].edition][t],
                  version : {log[i].version}, by : {log[i].by}]

\* TablesMatchLastSync: each table holds exactly the rows of the last sync in
\* the log that copied its sheet, never a mixture of two and never a row twice,
\* however syncs overlap (also in the tables that have no unique code).
TablesMatchLastSync ==
  \A t \in Tables :
    tables[t] = IF Copies(t) = {} THEN {} ELSE RowsOf(t, Latest(t))

\* VersionsGrow: a sync gets a higher version than every sync that was logged
\* when it chose its own; two versions are equal or out of order in the log only
\* if their syncs overlapped.
VersionsGrow ==
  \A i, j \in DOMAIN log :
    i =< log[j].planned => log[i].version < log[j].version

\* RegistrySafe: the log and the tables agree, however syncs overlap and fail.
RegistrySafe == RegistryTypeOK /\ TablesMatchLastSync /\ VersionsGrow

\* Converges: once the workbook is left alone, the tables hold its rows in the
\* end and keep them, whatever older sync commits late.
UpToDate ==
  \A t \in Tables : Content[file][t] # {} =>
    {r.code : r \in tables[t]} = Content[file][t]
Converges == <>[]UpToDate

-----------------------------------------------------------------------------
(* The inductive invariant behind RegistrySafe.                            *)

\* VersionInv: what a sync may rely on at its commit of the version it has chosen.
\* Some m is the highest version, so that there is a next one.
VersionInv ==
  /\ \A s \in Syncers : sync[s].at \in {"delete", "deleting", "insert"} =>
       /\ sync[s].planned =< Len(log)
       /\ sync[s].version \in 1..sync[s].planned + 1
       /\ \A i \in 1..sync[s].planned : log[i].version < sync[s].version
       /\ \A i \in DOMAIN log : log[i].by = s => i =< sync[s].planned
  /\ \A j \in DOMAIN log : log[j].planned =< Len(log)
  /\ \E m \in 0..Len(log) :
       /\ \A i \in DOMAIN log : log[i].version =< m
       /\ m = 0 \/ \E i \in DOMAIN log : log[i].version = m

\* LatestInv: a sheet that was copied was copied last by one of the syncs.
LatestInv ==
  \A t \in Tables : Copies(t) # {} => \E i \in Copies(t) : \A j \in Copies(t) : j =< i

\* SyncPlaces: a sync takes the sheets in order, the first of them is never passed
\* over, and it has deleted from no table but those it has copied or is copying.
SyncPlaces ==
  \A s \in Syncers :
    /\ sync[s].at \in {"done", "check", "plan"} => sync[s].sheet = 1
    /\ sync[s].at \in {"deleting", "insert"} => sync[s].sheet \in DOMAIN Sheets
    /\ sync[s].sheet >= 1
    /\ sync[s].sheet > 1 => Sheets[1] \in sync[s].copied
    /\ \A t \in sync[s].copied : \E i \in DOMAIN Sheets : i < sync[s].sheet /\ t = Sheets[i]
    /\ \A t \in Tables : sync[s].doomed[t] # {} =>
         t \in sync[s].copied \/ (sync[s].at = "insert" /\ t = Sheet(s))

\* TakenWhole: what a DELETE has begun on or has taken away was committed by logged
\* syncs, and if it is in the table by now then it is all there is in the table.
Whole(taken, t) ==
  /\ \A r \in taken : \E i \in DOMAIN log : log[i].by = r.by /\ log[i].version = r.version
  /\ tables[t] \intersect taken # {} => tables[t] \subseteq taken
TakenWhole ==
  \A s \in Syncers :
    /\ sync[s].at = "deleting" => Whole(sync[s].snapshot, Sheet(s))
    /\ \A t \in Tables : Whole(sync[s].doomed[t], t)

\* HolderInv: one sync at a time has copied the first sheet, and until it commits,
\* its DELETEs cover all that is in the tables it has copied.
Holds(s) == Sheets[1] \in sync[s].copied
HolderInv ==
  \A s \in Syncers : Holds(s) =>
    /\ \A o \in Syncers : Holds(o) => o = s
    /\ sync[s].at = "deleting" => tables[Sheet(s)] \subseteq sync[s].snapshot
    /\ sync[s].at = "insert" => tables[Sheet(s)] \subseteq sync[s].doomed[Sheet(s)]
    /\ \A t \in sync[s].copied : tables[t] \subseteq sync[s].doomed[t]

RegistryInv ==
  RegistrySafe /\ VersionInv /\ LatestInv /\ SyncPlaces /\ TakenWhole /\ HolderInv

-----------------------------------------------------------------------------
(* What the repository says of the registry and the code does not do.      *)

\* VersionsUnique: consent_registry.py:258, "Determine next version": no two syncs of
\* the log have one version.
VersionsUnique ==
  \A i, j \in DOMAIN log : log[i].version = log[j].version => i = j

\* SheetGoneRowsGone: a sheet that is empty in the edition synced last has no
\* rows left (consent_registry.py:228, "Sync the consent xlsx into the database").
SheetGoneRowsGone ==
  log # <<>> => \A t \in Tables :
    Content[log[Len(log)].edition][t] = {} => tables[t] = {}
=============================================================================
