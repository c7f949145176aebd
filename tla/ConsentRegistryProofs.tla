---------------------- MODULE ConsentRegistryProofs -----------------------
(***************************************************************************)
(* Proofs about the consent registry router, for every list of sheets and  *)
(* of sources, every content of the file, every number of syncs and checks *)
(* at once, and however often they fail.                                   *)
(*                                                                         *)
(* 1. ConsentRegistry.  RegistryInv says that one sync at a time has rows  *)
(* of its own in the first table (the code that every edition of its sheet *)
(* has makes the others wait or fail), that it has then taken away all the *)
(* tables it copied held, and that what a sync has seen of a table is a    *)
(* whole logged copy or nothing of it.  That the versions have a maximum,  *)
(* which would take an induction over the log, is a part of the invariant. *)
(*                                                                         *)
(* 2. SourceMonitor.  MonitorInv says that a row a check has written is    *)
(* that check's alone until it commits, so what was computed from the      *)
(* committed row when it was written still fits that row when it replaces  *)
(* it.                                                                     *)
(***************************************************************************)
EXTENDS ConsentRegistry, SourceMonitor, TLAPS

Writing == {"delete", "deleting", "insert"}

\* What RegistryInv asks of the call of s, said of any record x in its place.
SyncOK(s, x) ==
  /\ x \in Sync
  /\ x.at \in Writing =>
       /\ x.planned =< Len(log)
       /\ x.version \in 1..x.planned + 1
       /\ \A i \in 1..x.planned : log[i].version < x.version
       /\ \A i \in DOMAIN log : log[i].by = s => i =< x.planned
  /\ x.at \in {"done", "check", "plan"} => x.sheet = 1
  /\ x.at \in {"deleting", "insert"} => x.sheet \in DOMAIN Sheets
  /\ x.sheet >= 1
  /\ x.sheet > 1 => Sheets[1] \in x.copied
  /\ \A t \in x.copied : \E i \in DOMAIN Sheets : i < x.sheet /\ t = Sheets[i]
  /\ \A t \in Tables : x.doomed[t] # {} =>
       t \in x.copied \/ (x.at = "insert" /\ t = Sheets[x.sheet])
  /\ x.at = "deleting" => Whole(x.snapshot, Sheets[x.sheet])
  /\ \A t \in Tables : Whole(x.doomed[t], t)
  /\ Sheets[1] \in x.copied =>
       /\ \A o \in Syncers : Holds(o) => o = s
       /\ x.at = "deleting" => tables[Sheets[x.sheet]] \subseteq x.snapshot
       /\ x.at = "insert" => tables[Sheets[x.sheet]] \subseteq x.doomed[Sheets[x.sheet]]
       /\ \A t \in x.copied : tables[t] \subseteq x.doomed[t]

\* RegistryInv says SyncOK of every call.
LEMMA SyncsAreOK == RegistryInv => \A s \in Syncers : SyncOK(s, sync[s])
BY DEF RegistryInv, RegistrySafe, RegistryTypeOK, VersionInv, SyncPlaces, TakenWhole,
       HolderInv, Holds, Sheet, SyncOK, Writing

\* The sheets are at least one, and the file is read as one of its editions.
LEMMA SheetFacts ==
  /\ Len(Sheets) \in Nat /\ DOMAIN Sheets = 1..Len(Sheets) /\ 1 \in DOMAIN Sheets
  /\ \A i \in DOMAIN Sheets : Sheets[i] \in Tables
  /\ 1 \in Editions
BY SheetAssumption, ContentAssumption DEF Tables, Editions

\* A call not under way has taken nothing and copied nothing.
LEMMA NoSyncTyped ==
  /\ NoSync \in Sync
  /\ NoSync.at = "done" /\ NoSync.sheet = 1 /\ NoSync.copied = {}
  /\ \A t \in Tables : NoSync.doomed[t] = {}
BY SheetFacts DEF NoSync, Sync

\* The types of a row of the sync log.
LEMMA LogRows ==
  ASSUME RegistryInv, NEW i \in DOMAIN log
  PROVE  /\ log[i].version \in Nat /\ log[i].planned \in Nat /\ log[i].by \in Syncers
         /\ log[i].edition \in Editions /\ log[i].sheets \subseteq Tables
<1>1. log[i] \in LogRow
  <2>1. log \in Seq(LogRow)
      BY DEF RegistryInv, RegistrySafe, RegistryTypeOK
  <2> QED
      BY <2>1
<1> QED
    BY <1>1 DEF LogRow

\* A call that has ended keeps what RegistryInv asks of calls.
LEMMA NoSyncOK == ASSUME NEW s PROVE SyncOK(s, NoSync)
BY NoSyncTyped DEF SyncOK, Writing, Whole

\* The registry starts out as its invariant asks.
LEMMA RegistryInitInv == RegistryInit => RegistryInv
<1> SUFFICES ASSUME RegistryInit PROVE RegistryInv
    OBVIOUS
<1>1. log = <<>> /\ Len(log) = 0 /\ DOMAIN log = {}
    BY DEF RegistryInit
<1>2. \A s \in Syncers : sync[s] = NoSync
    BY DEF RegistryInit
<1>3. RegistryTypeOK
    BY NoSyncTyped, SheetFacts, SyncBounds DEF RegistryInit, RegistryTypeOK
<1>4. \A t \in Tables : Copies(t) = {} /\ tables[t] = {}
    BY <1>1 DEF Copies, RegistryInit
<1>5. TablesMatchLastSync /\ VersionsGrow /\ LatestInv
    BY <1>1, <1>4 DEF TablesMatchLastSync, VersionsGrow, LatestInv
<1>6. VersionInv
  <2>1. 0 \in 0..Len(log)
      BY <1>1
  <2> QED
      BY <1>1, <1>2, <2>1, NoSyncTyped DEF VersionInv
<1>7. SyncPlaces /\ TakenWhole /\ HolderInv
    BY <1>2, NoSyncTyped DEF SyncPlaces, TakenWhole, Whole, HolderInv, Holds
<1> QED
    BY <1>3, <1>5, <1>6, <1>7 DEF RegistryInv, RegistrySafe

\* One call moves, to x, and what is committed stays as it is.
LEMMA SyncMoves ==
  ASSUME RegistryInv, NEW s \in Syncers, NEW x, SyncOK(s, x),
         sync' = [sync EXCEPT ![s] = x], UNCHANGED <<file, tables, log>>,
         manual_syncs' \in 0..MaxManualSyncs, sync_failures' \in 0..MaxSyncFailures
  PROVE  RegistryInv'
<1> USE DEF RegistryInv, RegistrySafe, RegistryTypeOK
<1>1. \A r \in Syncers : sync'[r] = IF r = s THEN x ELSE sync[r]
    OBVIOUS
<1>2. RegistryTypeOK'
    BY DEF SyncOK
<1>3. TablesMatchLastSync' /\ VersionsGrow' /\ LatestInv'
  <2>1. \A t : Copies(t)' = Copies(t)
      BY DEF Copies
  <2>2. \A t : Latest(t)' = Latest(t)
      BY <2>1 DEF Latest
  <2>3. \A t, i : RowsOf(t, i)' = RowsOf(t, i)
      BY DEF RowsOf
  <2> QED
      BY <2>1, <2>2, <2>3 DEF TablesMatchLastSync, VersionsGrow, LatestInv
<1>4. VersionInv'
    BY <1>1 DEF VersionInv, SyncOK, Writing
<1>5. SyncPlaces'
    BY <1>1 DEF SyncPlaces, SyncOK, Sheet
<1>6. TakenWhole'
    BY <1>1 DEF TakenWhole, SyncOK, Whole, Sheet
<1>7. HolderInv'
  <2>1. \A r \in Syncers : Holds(r)' <=> IF r = s THEN Sheets[1] \in x.copied ELSE Holds(r)
      BY <1>1 DEF Holds
  <2>2. \A o, r \in Syncers : Holds(o)' /\ Holds(r)' => o = r
      BY <2>1 DEF HolderInv, SyncOK
  <2>3. ASSUME NEW r \in Syncers, Holds(r)'
        PROVE  /\ sync'[r].at = "deleting" => tables'[Sheet(r)'] \subseteq sync'[r].snapshot
               /\ sync'[r].at = "insert" => tables'[Sheet(r)'] \subseteq sync'[r].doomed[Sheet(r)']
               /\ \A t \in sync'[r].copied : tables'[t] \subseteq sync'[r].doomed[t]
    <3>1. CASE r = s
        BY <1>1, <2>1, <2>3, <3>1 DEF SyncOK, Sheet
    <3>2. CASE r # s
        BY <1>1, <2>1, <2>3, <3>2 DEF HolderInv, Sheet
    <3> QED
        BY <3>1, <3>2
  <2> QED
      BY <2>2, <2>3 DEF HolderInv
<1> QED
    BY <1>2, <1>3, <1>4, <1>5, <1>6, <1>7

\* A sync begins with the hash of the file.
LEMMA BeginSyncInv ==
  ASSUME RegistryInv, NEW s \in Syncers, NEW force \in BOOLEAN, BeginSync(s, force),
         manual_syncs' \in 0..MaxManualSyncs
  PROVE  RegistryInv'
<1> DEFINE x == [NoSync EXCEPT !.at = "check", !.force = force, !.hash = file]
<1>1. /\ x \in Sync /\ x.at = "check" /\ x.sheet = 1 /\ x.copied = {}
      /\ \A t \in Tables : x.doomed[t] = {}
    BY NoSyncTyped DEF RegistryInv, RegistrySafe, RegistryTypeOK, Sync
<1>2. SyncOK(s, x)
    BY <1>1 DEF SyncOK, Writing, Whole
<1>3. sync' = [sync EXCEPT ![s] = x] /\ UNCHANGED <<file, tables, log>>
    BY DEF BeginSync
<1>4. sync_failures' \in 0..MaxSyncFailures
    BY DEF BeginSync, RegistryInv, RegistrySafe, RegistryTypeOK
<1> HIDE DEF x
<1> QED
    BY <1>2, <1>3, <1>4, SyncMoves

\* A step of a call that neither starts nor fails.
LEMMA SyncGoesOn ==
  ASSUME RegistryInv, NEW s \in Syncers, NEW x, SyncOK(s, x),
         sync' = [sync EXCEPT ![s] = x],
         UNCHANGED <<file, tables, log, manual_syncs, sync_failures>>
  PROVE  RegistryInv'
<1>1. manual_syncs' \in 0..MaxManualSyncs /\ sync_failures' \in 0..MaxSyncFailures
    BY DEF RegistryInv, RegistrySafe, RegistryTypeOK
<1> QED
    BY <1>1, SyncMoves

\* It compares the hash with the log and reads the file, a second time.
LEMMA CheckInv ==
  ASSUME RegistryInv, NEW s \in Syncers, CheckAndRead(s)
  PROVE  RegistryInv'
<1> DEFINE x == [sync[s] EXCEPT !.at = "plan", !.edition = file]
<1>1. SyncOK(s, sync[s]) /\ sync[s] \in Sync /\ sync[s].at = "check" /\ file \in Editions
    BY SyncsAreOK DEF CheckAndRead, SyncOK, RegistryInv, RegistrySafe, RegistryTypeOK
<1>2. /\ x \in Sync /\ x.at = "plan" /\ x.sheet = sync[s].sheet
      /\ x.copied = sync[s].copied /\ x.doomed = sync[s].doomed
    BY <1>1 DEF Sync
<1>3. SyncOK(s, x)
    BY <1>1, <1>2 DEF SyncOK, Writing
<1>4. sync' = [sync EXCEPT ![s] = x] \/ sync' = [sync EXCEPT ![s] = NoSync]
    BY DEF CheckAndRead
<1>5. UNCHANGED <<file, tables, log, manual_syncs, sync_failures>>
    BY DEF CheckAndRead
<1> HIDE DEF x
<1> QED
    BY <1>3, <1>4, <1>5, NoSyncOK, SyncGoesOn

\* MAX(version) + 1 is above every version in the log.
LEMMA NextVersionIsNext ==
  ASSUME RegistryInv
  PROVE  /\ NextVersion \in 1..Len(log) + 1
         /\ \A i \in DOMAIN log : log[i].version < NextVersion
<1>1. PICK m \in 0..Len(log) :
        /\ \A i \in DOMAIN log : log[i].version =< m
        /\ m = 0 \/ \E i \in DOMAIN log : log[i].version = m
    BY DEF RegistryInv, VersionInv
<1>2. \A i \in DOMAIN log : log[i].version \in Nat
    BY LogRows
<1>3. Len(log) \in Nat
    BY DEF RegistryInv, RegistrySafe, RegistryTypeOK
<1>4. /\ m + 1 \in 1..Len(log) + 1
      /\ \A i \in DOMAIN log : log[i].version < m + 1
      /\ m + 1 = 1 \/ \E i \in DOMAIN log : log[i].version = (m + 1) - 1
    BY <1>1, <1>2, <1>3
<1> QED
    BY <1>4 DEF NextVersion

\* It draws its version from the log as it is then.
LEMMA PlanInv ==
  ASSUME RegistryInv, NEW s \in Syncers, Plan(s)
  PROVE  RegistryInv'
<1> DEFINE x == [sync[s] EXCEPT !.at = "delete", !.version = NextVersion,
                                !.planned = Len(log)]
<1>1. SyncOK(s, sync[s]) /\ sync[s] \in Sync /\ sync[s].at = "plan" /\ Len(log) \in Nat
    BY SyncsAreOK DEF Plan, SyncOK, RegistryInv, RegistrySafe, RegistryTypeOK
<1>2. NextVersion \in Nat
    BY <1>1, NextVersionIsNext
<1>3. /\ x \in Sync /\ x.at = "delete" /\ x.sheet = sync[s].sheet
      /\ x.copied = sync[s].copied /\ x.doomed = sync[s].doomed
      /\ x.version = NextVersion /\ x.planned = Len(log)
    BY <1>1, <1>2 DEF Sync
<1>4. DOMAIN log = 1..Len(log)
    BY DEF RegistryInv, RegistrySafe, RegistryTypeOK
<1>5. SyncOK(s, x)
    BY <1>1, <1>3, <1>4, NextVersionIsNext DEF SyncOK, Writing
<1>6. sync' = [sync EXCEPT ![s] = x]
      /\ UNCHANGED <<file, tables, log, manual_syncs, sync_failures>>
    BY DEF Plan
<1> HIDE DEF x
<1> QED
    BY <1>5, <1>6, SyncGoesOn

\* The sheet copied first has a row with the shared code.
LEMMA FirstSheetHasRows ==
  \E c \in Codes : \A e \in Editions : c \in Content[e][Sheets[1]]
BY SharedCodeAssumption

\* A sheet with no rows is passed over; the first one always has some.
LEMMA PassOverInv ==
  ASSUME RegistryInv, NEW s \in Syncers, PassOver(s)
  PROVE  RegistryInv'
<1> DEFINE x == [sync[s] EXCEPT !.sheet = @ + 1]
<1>1. /\ SyncOK(s, sync[s]) /\ sync[s] \in Sync /\ sync[s].at = "delete"
      /\ sync[s].sheet \in DOMAIN Sheets /\ sync[s].edition \in Editions
      /\ sync[s].sheet \in Nat
    BY SyncsAreOK DEF PassOver, SyncOK, Sync
<1>2. sync[s].sheet # 1
  <2>1. SUFFICES ASSUME sync[s].sheet = 1 PROVE FALSE
      OBVIOUS
  <2>2. PICK c \in Codes : c \in Content[sync[s].edition][Sheets[1]]
      BY <1>1, FirstSheetHasRows
  <2>3. [code |-> c, version |-> sync[s].version, by |-> s] \in Rows(s)
      BY <2>1, <2>2 DEF Rows, Sheet
  <2> QED
      BY <2>3 DEF PassOver
<1>3. /\ x \in Sync /\ x.at = "delete" /\ x.sheet = sync[s].sheet + 1
      /\ x.copied = sync[s].copied /\ x.doomed = sync[s].doomed
      /\ x.version = sync[s].version /\ x.planned = sync[s].planned
    BY <1>1 DEF Sync
<1>4. SyncOK(s, x)
    BY <1>1, <1>2, <1>3, SheetFacts DEF SyncOK, Writing
<1>5. sync' = [sync EXCEPT ![s] = x]
      /\ UNCHANGED <<file, tables, log, manual_syncs, sync_failures>>
    BY DEF PassOver
<1> HIDE DEF x
<1> QED
    BY <1>4, <1>5, SyncGoesOn

\* What a table holds, a logged sync has committed.
LEMMA TableIsWhole ==
  ASSUME RegistryInv, NEW t \in Tables
  PROVE  /\ Whole(tables[t], t)
         /\ tables[t] # {} =>
              \E i \in DOMAIN log : t \in log[i].sheets /\ tables[t] = RowsOf(t, i)
<1>1. tables[t] = IF Copies(t) = {} THEN {} ELSE RowsOf(t, Latest(t))
    BY DEF RegistryInv, RegistrySafe, TablesMatchLastSync
<1>2. CASE Copies(t) = {}
    BY <1>1, <1>2 DEF Whole
<1>3. CASE Copies(t) # {}
  <2>1. Latest(t) \in Copies(t)
      BY <1>3 DEF RegistryInv, LatestInv, Latest
  <2>2. Latest(t) \in DOMAIN log /\ t \in log[Latest(t)].sheets
      BY <2>1 DEF Copies
  <2>3. \A r \in tables[t] : r.by = log[Latest(t)].by /\ r.version = log[Latest(t)].version
      BY <1>1, <1>3 DEF RowsOf
  <2> QED
      BY <1>1, <1>3, <2>2, <2>3 DEF Whole
<1> QED
    BY <1>2, <1>3

\* The DELETE of a table begins: it sees what is committed then.
LEMMA DeleteBeginsInv ==
  ASSUME RegistryInv, NEW s \in Syncers, DeleteBegins(s)
  PROVE  RegistryInv'
<1> DEFINE x == [sync[s] EXCEPT !.at = "deleting", !.snapshot = tables[Sheet(s)]]
<1>1. /\ SyncOK(s, sync[s]) /\ sync[s] \in Sync /\ sync[s].at = "delete"
      /\ sync[s].sheet \in DOMAIN Sheets /\ Sheet(s) \in Tables
    BY SyncsAreOK, SheetFacts DEF DeleteBegins, SyncOK, Sheet
<1>2. tables[Sheet(s)] \subseteq ConsentRow
    BY <1>1 DEF RegistryInv, RegistrySafe, RegistryTypeOK
<1>3. /\ x \in Sync /\ x.at = "deleting" /\ x.sheet = sync[s].sheet
      /\ x.copied = sync[s].copied /\ x.doomed = sync[s].doomed
      /\ x.snapshot = tables[Sheet(s)]
      /\ x.version = sync[s].version /\ x.planned = sync[s].planned
    BY <1>1, <1>2 DEF Sync
<1>4. SyncOK(s, x)
    BY <1>1, <1>3, TableIsWhole DEF SyncOK, Writing, Sheet
<1>5. sync' = [sync EXCEPT ![s] = x]
      /\ UNCHANGED <<file, tables, log, manual_syncs, sync_failures>>
    BY DEF DeleteBegins
<1> HIDE DEF x
<1> QED
    BY <1>4, <1>5, SyncGoesOn

\* It ends: it has taken away what is there of what it saw.
LEMMA DeleteEndsInv ==
  ASSUME RegistryInv, NEW s \in Syncers, DeleteEnds(s)
  PROVE  RegistryInv'
<1> DEFINE taken == sync[s].snapshot \intersect tables[Sheet(s)]
           x == [sync[s] EXCEPT !.at = "insert", !.snapshot = {},
                                !.doomed[Sheet(s)] = taken]
<1>1. /\ SyncOK(s, sync[s]) /\ sync[s] \in Sync /\ sync[s].at = "deleting"
      /\ sync[s].sheet \in DOMAIN Sheets /\ Sheet(s) \in Tables
    BY SyncsAreOK, SheetFacts DEF DeleteEnds, SyncOK, Sheet
<1>2. taken \subseteq ConsentRow
    BY <1>1 DEF RegistryInv, RegistrySafe, RegistryTypeOK
<1>3. Whole(taken, Sheet(s))
  <2>1. Whole(sync[s].snapshot, Sheet(s))
      BY <1>1 DEF SyncOK, Sheet
  <2> QED
      BY <2>1 DEF Whole
<1>4. sync[s].doomed \in [Tables -> SUBSET ConsentRow]
    BY <1>1 DEF Sync
<1> HIDE DEF taken
<1>5. /\ x \in Sync /\ x.at = "insert" /\ x.sheet = sync[s].sheet
      /\ x.copied = sync[s].copied
      /\ x.version = sync[s].version /\ x.planned = sync[s].planned
      /\ \A t \in Tables : x.doomed[t] = IF t = Sheet(s) THEN taken ELSE sync[s].doomed[t]
    BY <1>1, <1>2, <1>4 DEF Sync
<1>6. Sheet(s) \notin sync[s].copied
  <2>1. \A i \in DOMAIN Sheets : i < sync[s].sheet => Sheets[i] # Sheet(s)
      BY <1>1, SheetAssumption, SheetFacts DEF Sheet
  <2> QED
      BY <1>1, <2>1 DEF SyncOK
<1>7. sync[s].copied \subseteq Tables
    BY <1>1 DEF Sync
<1>8. SyncOK(s, x)
  <2>1. \A t \in Tables : Whole(x.doomed[t], t)
      BY <1>1, <1>3, <1>5 DEF SyncOK
  <2>2. \A t \in Tables : x.doomed[t] # {} =>
          t \in x.copied \/ (x.at = "insert" /\ t = Sheets[x.sheet])
      BY <1>1, <1>5 DEF SyncOK, Sheet
  <2>3. ASSUME Sheets[1] \in x.copied
        PROVE  /\ \A o \in Syncers : Holds(o) => o = s
               /\ tables[Sheet(s)] \subseteq x.doomed[Sheet(s)]
               /\ \A t \in x.copied : tables[t] \subseteq x.doomed[t]
    <3>1. /\ \A o \in Syncers : Holds(o) => o = s
          /\ tables[Sheet(s)] \subseteq sync[s].snapshot
          /\ \A t \in sync[s].copied : tables[t] \subseteq sync[s].doomed[t]
        BY <1>1, <1>5, <2>3 DEF SyncOK, Sheet
    <3>2. tables[Sheet(s)] \subseteq taken
        BY <3>1 DEF taken
    <3> QED
        BY <1>1, <1>5, <1>6, <1>7, <3>1, <3>2
  <2> QED
      BY <1>1, <1>5, <2>1, <2>2, <2>3 DEF SyncOK, Writing, Sheet
<1>9. sync' = [sync EXCEPT ![s] = x]
      /\ UNCHANGED <<file, tables, log, manual_syncs, sync_failures>>
    BY DEF DeleteEnds, taken
<1> HIDE DEF x
<1> QED
    BY <1>8, <1>9, SyncGoesOn

\* Who inserts into the first table has taken away all that is committed in it, and
\* nobody else has rows of his own in it.
LEMMA FirstInsert ==
  ASSUME RegistryInv, NEW s \in Syncers, sync[s].at = "insert", sync[s].sheet = 1,
         ~Waits(s), ~Duplicate(s)
  PROVE  /\ \A o \in Syncers : Holds(o) => o = s
         /\ tables[Sheets[1]] \subseteq sync[s].doomed[Sheets[1]]
<1>1. /\ SyncOK(s, sync[s]) /\ sync[s] \in Sync /\ sync[s].edition \in Editions
      /\ Sheet(s) = Sheets[1] /\ Sheets[1] \in Tables
    BY SyncsAreOK, SheetFacts DEF SyncOK, Sync, Sheet
<1>2. PICK c \in Codes : \A e \in Editions : c \in Content[e][Sheets[1]]
    BY FirstSheetHasRows
<1> DEFINE row == [code |-> c, version |-> sync[s].version, by |-> s]
<1>3. row \in Rows(s) /\ row.code = c
    BY <1>1, <1>2 DEF Rows
<1>4. ASSUME NEW o \in Syncers, Holds(o), o # s PROVE FALSE
  <2> DEFINE other == [code |-> c, version |-> sync[o].version, by |-> o]
  <2>1. sync[o].edition \in Editions
      BY DEF RegistryInv, RegistrySafe, RegistryTypeOK, Sync
  <2>2. other \in Inserted(o, Sheets[1]) /\ other.code = c
      BY <1>2, <1>4, <2>1 DEF Inserted, Holds
  <2>3. SameCode(Rows(s), Inserted(o, Sheets[1]))
      BY <1>3, <2>2 DEF SameCode
  <2> QED
      BY <1>1, <1>4, <2>3, SharedCodeAssumption DEF Waits
<1>5. tables[Sheets[1]] \subseteq sync[s].doomed[Sheets[1]]
  <2>1. SUFFICES ASSUME tables[Sheets[1]] # {},
                        tables[Sheets[1]] \intersect sync[s].doomed[Sheets[1]] = {}
                 PROVE  FALSE
      BY <1>1 DEF SyncOK, Whole
  <2>2. PICK i \in DOMAIN log : tables[Sheets[1]] = RowsOf(Sheets[1], i)
      BY <1>1, <2>1, TableIsWhole
  <2> DEFINE old == [code |-> c, version |-> log[i].version, by |-> log[i].by]
  <2>3. old \in tables[Sheets[1]] \ sync[s].doomed[Sheets[1]] /\ old.code = c
      BY <1>2, <2>1, <2>2, LogRows DEF RowsOf
  <2>4. SameCode(Rows(s), tables[Sheets[1]] \ sync[s].doomed[Sheets[1]])
      BY <1>3, <2>3 DEF SameCode
  <2> QED
      BY <1>1, <2>4, SharedCodeAssumption DEF Duplicate
<1> QED
    BY <1>4, <1>5

\* The INSERT of a sheet that meets no committed row with its codes.
LEMMA InsertInv ==
  ASSUME RegistryInv, NEW s \in Syncers, Insert(s)
  PROVE  RegistryInv'
<1> DEFINE x == [sync[s] EXCEPT !.at = "delete", !.sheet = @ + 1,
                                !.copied = @ \union {Sheet(s)}]
<1>1. /\ SyncOK(s, sync[s]) /\ sync[s] \in Sync /\ sync[s].at = "insert"
      /\ sync[s].sheet \in DOMAIN Sheets /\ Sheet(s) \in Tables /\ sync[s].sheet \in Nat
    BY SyncsAreOK, SheetFacts DEF Insert, SyncOK, Sheet, Sync
<1>2. UNCHANGED <<file, tables, log, manual_syncs, sync_failures>>
    BY DEF Insert
<1>3. CASE Duplicate(s)
  <2>1. sync' = [sync EXCEPT ![s] = NoSync]
      BY <1>3 DEF Insert
  <2> QED
      BY <1>2, <2>1, NoSyncOK, SyncGoesOn
<1>4. CASE ~Duplicate(s)
  <2>1. sync' = [sync EXCEPT ![s] = x]
      BY <1>4 DEF Insert
  <2>2. /\ x \in Sync /\ x.at = "delete" /\ x.sheet = sync[s].sheet + 1
        /\ x.copied = sync[s].copied \union {Sheet(s)} /\ x.doomed = sync[s].doomed
        /\ x.version = sync[s].version /\ x.planned = sync[s].planned
    <3>1. sync[s].sheet + 1 \in Nat /\ sync[s].copied \union {Sheet(s)} \subseteq Tables
        BY <1>1 DEF Sync
    <3> QED
        BY <1>1, <3>1 DEF Sync
  <2>3. /\ \A o \in Syncers : Holds(o) => o = s
        /\ \A t \in x.copied : tables[t] \subseteq sync[s].doomed[t]
        /\ Sheets[1] \in x.copied
    <3>1. CASE sync[s].sheet = 1
      <4>1. sync[s].copied = {}
          BY <1>1, <3>1, SheetFacts DEF SyncOK
      <4> QED
          BY <1>4, <2>2, <3>1, <4>1, <1>1, FirstInsert DEF Insert, Sheet
    <3>2. CASE sync[s].sheet > 1
        BY <1>1, <2>2, <3>2 DEF SyncOK, Sheet
    <3> QED
        BY <1>1, <3>1, <3>2, SheetFacts
  <2>4. \A t \in x.copied : \E i \in DOMAIN Sheets : i < x.sheet /\ t = Sheets[i]
      BY <1>1, <2>2, SheetFacts DEF SyncOK, Sheet
  <2>5. \A t \in Tables : x.doomed[t] # {} => t \in x.copied
      BY <1>1, <2>2 DEF SyncOK, Sheet
  <2>6. SyncOK(s, x)
      BY <1>1, <2>2, <2>3, <2>4, <2>5 DEF SyncOK, Writing
  <2> HIDE DEF x
  <2> QED
      BY <1>2, <2>1, <2>6, SyncGoesOn
<1> QED
    BY <1>3, <1>4

\* A sync fails and leaves nothing of what it wrote.
LEMMA AbortSyncInv ==
  ASSUME RegistryInv, NEW s \in Syncers, AbortSync(s)
  PROVE  RegistryInv'
<1>1. /\ sync' = [sync EXCEPT ![s] = NoSync] /\ UNCHANGED <<file, tables, log>>
      /\ manual_syncs' \in 0..MaxManualSyncs
    BY DEF AbortSync, RegistryInv, RegistrySafe, RegistryTypeOK
<1>2. sync_failures' \in 0..MaxSyncFailures
    BY SyncBounds DEF AbortSync, RegistryInv, RegistrySafe, RegistryTypeOK
<1> QED
    BY <1>1, <1>2, NoSyncOK, SyncMoves

\* The last sync that copied t is the one no other comes after.
LEMMA LatestIs ==
  ASSUME NEW t, NEW i \in Copies(t), i \in Int, \A j \in Copies(t) : j \in Int /\ j =< i
  PROVE  Latest(t) = i
<1>1. Latest(t) \in Copies(t) /\ \A j \in Copies(t) : j =< Latest(t)
    BY DEF Latest
<1>2. Latest(t) \in Int /\ Latest(t) =< i /\ i =< Latest(t)
    BY <1>1
<1> QED
    BY <1>2

\* The commit publishes every sheet copied and one row of the log together.
LEMMA CommitSyncInv ==
  ASSUME RegistryInv, NEW s \in Syncers, CommitSync(s)
  PROVE  RegistryInv'
<1>0. PICK n \in Nat : n = Len(log) + 1
    BY DEF RegistryInv, RegistrySafe, RegistryTypeOK
<1> DEFINE new == [version |-> sync[s].version, hash |-> sync[s].hash, by |-> s,
                   sheets |-> sync[s].copied, edition |-> sync[s].edition,
                   planned |-> sync[s].planned]
           copy == [t \in Tables |-> [code : Content[sync[s].edition][t],
                                      version : {sync[s].version}, by : {s}]]
<1>1. /\ SyncOK(s, sync[s]) /\ sync[s] \in Sync /\ sync[s].at = "delete"
      /\ log \in Seq(LogRow) /\ Len(log) \in Nat /\ DOMAIN log = 1..Len(log)
    BY SyncsAreOK DEF CommitSync, RegistryInv, RegistrySafe, RegistryTypeOK
<1>2. /\ sync[s].version \in Nat \ {0} /\ sync[s].planned \in 0..Len(log)
      /\ sync[s].edition \in Editions /\ sync[s].copied \subseteq Tables
      /\ sync[s].version \in 1..sync[s].planned + 1
    BY <1>1 DEF SyncOK, Writing, Sync
<1>3. /\ new \in LogRow
      /\ new.version = sync[s].version /\ new.by = s /\ new.sheets = sync[s].copied
      /\ new.edition = sync[s].edition /\ new.planned = sync[s].planned
    BY <1>1, <1>2 DEF LogRow, Sync
<1> HIDE DEF new
<1>4. log' = Append(log, new)
    BY DEF CommitSync, new
<1>5. /\ log' \in Seq(LogRow) /\ Len(log') = n /\ DOMAIN log' = 1..n
      /\ \A i \in DOMAIN log : i \in DOMAIN log' /\ i # n /\ log'[i] = log[i]
      /\ log'[n] = new
      /\ \A i \in DOMAIN log' : i \in DOMAIN log \/ i = n
    BY <1>0, <1>1, <1>3, <1>4
<1>6. sync' = [sync EXCEPT ![s] = NoSync]
      /\ UNCHANGED <<file, manual_syncs, sync_failures>>
    BY DEF CommitSync
<1>7. /\ \A o \in Syncers : o # s => sync'[o] = sync[o]
      /\ sync'[s] = NoSync
    BY <1>6 DEF RegistryInv, RegistrySafe, RegistryTypeOK
\* The sync is past the sheet copied first: it alone holds, and takes all there is.
<1>8. /\ Sheets[1] \in sync[s].copied
      /\ \A o \in Syncers : Holds(o) => o = s
      /\ \A t \in sync[s].copied : tables[t] \subseteq sync[s].doomed[t]
  <2>1. sync[s].sheet > 1
    <3>1. sync[s].sheet \in Nat /\ sync[s].sheet >= 1 /\ sync[s].sheet \notin DOMAIN Sheets
        BY <1>1 DEF CommitSync, SyncOK, Sync
    <3> QED
        BY <3>1, SheetFacts
  <2> QED
      BY <1>1, <2>1 DEF SyncOK
<1>9. \A t \in Tables : tables'[t] = IF t \in sync[s].copied THEN copy[t] ELSE tables[t]
  <2> SUFFICES ASSUME NEW t \in Tables
               PROVE  tables'[t] = IF t \in sync[s].copied THEN copy[t] ELSE tables[t]
      OBVIOUS
  <2>1. tables'[t] = (tables[t] \ sync[s].doomed[t]) \union Inserted(s, t)
      BY DEF CommitSync
  <2>2. CASE t \in sync[s].copied
      BY <1>8, <2>1, <2>2 DEF Inserted
  <2>3. CASE t \notin sync[s].copied
    <3>1. sync[s].doomed[t] = {}
        BY <1>1, <2>3 DEF SyncOK
    <3> QED
        BY <2>1, <2>3, <3>1 DEF Inserted
  <2> QED
      BY <2>2, <2>3
<1>10. ASSUME NEW t \in Tables
       PROVE  Copies(t)' = IF t \in sync[s].copied THEN Copies(t) \union {n} ELSE Copies(t)
  <2>1. n \notin Copies(t)
      BY <1>5 DEF Copies
  <2>2. \A i \in DOMAIN log : i \in Copies(t)' <=> i \in Copies(t)
      BY <1>5 DEF Copies
  <2>3. n \in Copies(t)' <=> t \in sync[s].copied
      BY <1>0, <1>1, <1>3, <1>5 DEF Copies
  <2>4. Copies(t)' \subseteq DOMAIN log \union {n} /\ Copies(t) \subseteq DOMAIN log
      BY <1>5 DEF Copies
  <2> QED
      BY <2>1, <2>2, <2>3, <2>4
<1>11. \A t \in Tables, i \in DOMAIN log : RowsOf(t, i)' = RowsOf(t, i)
    BY <1>5 DEF RowsOf
<1>12. \A t \in Tables : RowsOf(t, n)' = copy[t]
    BY <1>3, <1>5 DEF RowsOf
<1> HIDE DEF copy
<1>13. \A t \in Tables : t \in sync[s].copied => Latest(t)' = n
  <2> SUFFICES ASSUME NEW t \in Tables, t \in sync[s].copied PROVE Latest(t)' = n
      OBVIOUS
  <2>1. n \in Copies(t)' /\ n \in Int /\ \A j \in Copies(t)' : j \in Int /\ j =< n
    <3>1. Copies(t)' = Copies(t) \union {n} /\ Copies(t) \subseteq 1..Len(log)
        BY <1>1, <1>10 DEF Copies
    <3> QED
        BY <1>0, <1>1, <3>1
  <2>2. Latest(t)' \in Copies(t)' /\ \A j \in Copies(t)' : j =< Latest(t)'
      BY <2>1 DEF Latest
  <2>3. Latest(t)' \in Int /\ Latest(t)' =< n /\ n =< Latest(t)'
      BY <2>1, <2>2
  <2> QED
      BY <2>3
<1>14. \A t \in Tables : t \notin sync[s].copied => Latest(t)' = Latest(t)
    BY <1>10 DEF Latest
<1>15. TablesMatchLastSync'
  <2> SUFFICES ASSUME NEW t \in Tables
               PROVE  tables'[t] = IF Copies(t)' = {} THEN {} ELSE RowsOf(t, Latest(t))'
      BY DEF TablesMatchLastSync
  <2>1. CASE t \in sync[s].copied
      BY <1>9, <1>10, <1>12, <1>13, <2>1 DEF RowsOf
  <2>2. CASE t \notin sync[s].copied
    <3>1. tables'[t] = tables[t] /\ Copies(t)' = Copies(t) /\ Latest(t)' = Latest(t)
        BY <1>9, <1>10, <1>14, <2>2
    <3>2. Copies(t) # {} => Latest(t) \in DOMAIN log
        BY DEF RegistryInv, LatestInv, Latest, Copies
    <3>3. Copies(t) # {} => RowsOf(t, Latest(t))' = RowsOf(t, Latest(t))
        BY <1>5, <3>1, <3>2 DEF RowsOf
    <3> QED
        BY <3>1, <3>3 DEF RegistryInv, RegistrySafe, TablesMatchLastSync
  <2> QED
      BY <2>1, <2>2
<1>16. LatestInv'
  <2> SUFFICES ASSUME NEW t \in Tables, Copies(t)' # {}
               PROVE  \E i \in Copies(t)' : \A j \in Copies(t)' : j =< i
      BY DEF LatestInv
  <2>1. CASE t \in sync[s].copied
    <3>1. Copies(t)' = Copies(t) \union {n} /\ Copies(t) \subseteq 1..Len(log)
        BY <1>1, <1>10, <2>1 DEF Copies
    <3>2. n \in Copies(t)' /\ \A j \in Copies(t)' : j =< n
        BY <1>0, <1>1, <3>1
    <3> QED
        BY <3>2
  <2>2. CASE t \notin sync[s].copied
      BY <1>10, <2>2 DEF RegistryInv, LatestInv
  <2> QED
      BY <2>1, <2>2
<1>17. VersionsGrow'
  <2> SUFFICES ASSUME NEW i \in DOMAIN log', NEW j \in DOMAIN log', i =< log'[j].planned
               PROVE  log'[i].version < log'[j].version
      BY DEF VersionsGrow
  <2>1. CASE j \in DOMAIN log
    <3>1. i \in DOMAIN log
        BY <1>1, <1>5, <2>1, LogRows DEF RegistryInv, VersionInv
    <3> QED
        BY <1>5, <2>1, <3>1 DEF RegistryInv, RegistrySafe, VersionsGrow
  <2>2. CASE j = n
    <3>1. i \in 1..sync[s].planned /\ i \in DOMAIN log
        BY <1>1, <1>2, <1>3, <1>5, <2>2
    <3> QED
        BY <1>1, <1>3, <1>5, <2>2, <3>1 DEF SyncOK, Writing
  <2> QED
      BY <1>5, <2>1, <2>2
<1>18. VersionInv'
  <2>1. ASSUME NEW o \in Syncers, sync'[o].at \in Writing
        PROVE  /\ sync'[o].planned =< Len(log')
               /\ sync'[o].version \in 1..sync'[o].planned + 1
               /\ \A i \in 1..sync'[o].planned : log'[i].version < sync'[o].version
               /\ \A i \in DOMAIN log' : log'[i].by = o => i =< sync'[o].planned
    <3>1. o # s /\ sync'[o] = sync[o] /\ SyncOK(o, sync[o]) /\ sync[o].planned \in Nat
        BY <1>7, <2>1, NoSyncTyped, SyncsAreOK DEF Writing, SyncOK, Sync
    <3>2. \A i \in 1..sync[o].planned : i \in DOMAIN log
        BY <1>1, <2>1, <3>1 DEF SyncOK
    <3>3. /\ sync[o].planned =< Len(log)
          /\ sync[o].version \in 1..sync[o].planned + 1
          /\ \A i \in 1..sync[o].planned : log[i].version < sync[o].version
          /\ \A i \in DOMAIN log : log[i].by = o => i =< sync[o].planned
        BY <2>1, <3>1 DEF SyncOK
    <3>4. \A i \in DOMAIN log' : log'[i].by = o => i =< sync[o].planned
        BY <1>3, <1>5, <3>1, <3>3
    <3> QED
        BY <1>0, <1>1, <1>5, <3>1, <3>2, <3>3, <3>4
  <2>2. \A j \in DOMAIN log' : log'[j].planned =< Len(log')
    <3>1. \A j \in DOMAIN log : log[j].planned \in Nat /\ log[j].planned =< Len(log)
        BY LogRows DEF RegistryInv, VersionInv
    <3> QED
        BY <1>0, <1>1, <1>2, <1>3, <1>5, <3>1
  <2>3. \E m \in 0..Len(log') :
          /\ \A i \in DOMAIN log' : log'[i].version =< m
          /\ m = 0 \/ \E i \in DOMAIN log' : log'[i].version = m
    <3>1. PICK m \in 0..Len(log) :
            /\ \A i \in DOMAIN log : log[i].version =< m
            /\ m = 0 \/ \E i \in DOMAIN log : log[i].version = m
        BY DEF RegistryInv, VersionInv
    <3>2. CASE sync[s].version =< m
      <4>1. m \in 0..Len(log') /\ \A i \in DOMAIN log' : log'[i].version =< m
          BY <1>1, <1>3, <1>5, <3>1, <3>2
      <4>2. m = 0 \/ \E i \in DOMAIN log' : log'[i].version = m
          BY <1>5, <3>1
      <4> QED
          BY <4>1, <4>2
    <3>3. CASE sync[s].version > m
      <4>1. /\ sync[s].version \in 0..Len(log')
            /\ \A i \in DOMAIN log : log[i].version \in Nat
          BY <1>0, <1>1, <1>2, <1>5, LogRows
      <4>2. \A i \in DOMAIN log' : log'[i].version =< sync[s].version
          BY <1>1, <1>2, <1>3, <1>5, <3>1, <3>3, <4>1
      <4>3. n \in DOMAIN log' /\ log'[n].version = sync[s].version
          BY <1>0, <1>1, <1>3, <1>5
      <4> QED
          BY <4>1, <4>2, <4>3
    <3> QED
        BY <1>2, <3>1, <3>2, <3>3
  <2> QED
      BY <2>1, <2>2, <2>3 DEF VersionInv, Writing
<1>19. SyncPlaces'
    BY <1>7, NoSyncTyped DEF RegistryInv, SyncPlaces, Sheet
\* What others have taken was logged before, and the new rows were not.
<1>20. ASSUME NEW t \in Tables, NEW taken, Whole(taken, t)
       PROVE  /\ \A r \in taken :
                   \E i \in DOMAIN log' : log'[i].by = r.by /\ log'[i].version = r.version
              /\ tables'[t] \intersect taken # {} => tables'[t] \subseteq taken
  <2>1. \A r \in taken : \E i \in DOMAIN log' : log'[i].by = r.by /\ log'[i].version = r.version
      BY <1>5, <1>20 DEF Whole
  <2>2. CASE t \notin sync[s].copied
      BY <1>9, <1>20, <2>1, <2>2 DEF Whole
  <2>3. CASE t \in sync[s].copied
    <3>1. ASSUME NEW r \in taken PROVE r \notin copy[t]
      <4>1. PICK i \in DOMAIN log : log[i].by = r.by /\ log[i].version = r.version
          BY <1>20 DEF Whole
      <4>2. SUFFICES ASSUME r.by = s, r.version = sync[s].version PROVE FALSE
          BY DEF copy
      <4>3. i \in 1..sync[s].planned
          BY <1>1, <1>2, <4>1, <4>2 DEF SyncOK, Writing
      <4>4. log[i].version < sync[s].version
          BY <1>1, <4>3 DEF SyncOK, Writing
      <4> QED
          BY <1>2, <4>1, <4>2, <4>4
    <3> QED
        BY <1>9, <2>1, <2>3, <3>1 DEF Whole
  <2> QED
      BY <2>2, <2>3
<1>21. TakenWhole'
  <2> SUFFICES ASSUME NEW o \in Syncers
               PROVE  /\ (sync[o].at = "deleting" => Whole(sync[o].snapshot, Sheet(o)))'
                      /\ (\A t \in Tables : Whole(sync[o].doomed[t], t))'
      BY DEF TakenWhole
  <2>1. CASE o = s
      BY <1>7, <2>1, NoSyncTyped DEF Whole
  <2>2. CASE o # s
    <3>1. sync'[o] = sync[o] /\ Sheet(o)' = Sheet(o)
        BY <1>7, <2>2 DEF Sheet
    <3>2. sync[o].at = "deleting" => Sheet(o) \in Tables
        BY SyncsAreOK, SheetFacts DEF SyncOK, Sheet
    <3>3. /\ sync[o].at = "deleting" => Whole(sync[o].snapshot, Sheet(o))
          /\ \A t \in Tables : Whole(sync[o].doomed[t], t)
        BY DEF RegistryInv, TakenWhole
    <3>4. (sync[o].at = "deleting" => Whole(sync[o].snapshot, Sheet(o)))'
      <4>1. ASSUME sync[o].at = "deleting"
            PROVE  /\ \A r \in sync[o].snapshot :
                        \E i \in DOMAIN log' : log'[i].by = r.by /\ log'[i].version = r.version
                   /\ tables'[Sheet(o)] \intersect sync[o].snapshot # {} =>
                        tables'[Sheet(o)] \subseteq sync[o].snapshot
          BY <1>20, <3>2, <3>3, <4>1
      <4> QED
          BY <3>1, <4>1 DEF Whole
    <3>5. (\A t \in Tables : Whole(sync[o].doomed[t], t))'
      <4>1. ASSUME NEW t \in Tables
            PROVE  Whole(sync[o].doomed[t], t)'
        <5> DEFINE taken == sync[o].doomed[t]
        <5>1. Whole(taken, t) /\ sync'[o].doomed[t] = taken
            BY <3>1, <3>3
        <5> HIDE DEF taken
        <5>2. /\ \A r \in taken :
                   \E i \in DOMAIN log' : log'[i].by = r.by /\ log'[i].version = r.version
              /\ tables'[t] \intersect taken # {} => tables'[t] \subseteq taken
            BY <1>20, <5>1
        <5> QED
            BY <5>1, <5>2 DEF Whole
      <4> QED
          BY <4>1
    <3> QED
        BY <3>4, <3>5
  <2> QED
      BY <2>1, <2>2
<1>22. HolderInv'
  <2>1. ASSUME NEW o \in Syncers PROVE ~Holds(o)'
    <3>1. CASE o = s
        BY <1>7, <3>1, NoSyncTyped DEF Holds
    <3>2. CASE o # s
        BY <1>7, <1>8, <3>2 DEF Holds
    <3> QED
        BY <3>1, <3>2
  <2> QED
      BY <2>1 DEF HolderInv
<1>23. RegistryTypeOK'
  <2>1. \A t \in Tables : copy[t] \subseteq ConsentRow
      BY <1>2, ContentAssumption DEF copy, ConsentRow
  <2>2. tables' \in [Tables -> SUBSET ConsentRow]
    <3>1. tables' = [t \in Tables |-> tables'[t]]
        BY DEF CommitSync
    <3>2. \A t \in Tables : tables'[t] \subseteq ConsentRow
        BY <1>9, <2>1 DEF RegistryInv, RegistrySafe, RegistryTypeOK
    <3> QED
        BY <3>1, <3>2
  <2> QED
      BY <1>5, <1>6, <2>2, NoSyncTyped DEF RegistryInv, RegistrySafe, RegistryTypeOK
<1> QED
    BY <1>15, <1>16, <1>17, <1>18, <1>19, <1>21, <1>22, <1>23 DEF RegistryInv, RegistrySafe

\* The file is edited, or nothing happens.
LEMMA EditFileInv ==
  ASSUME RegistryInv, EditFile \/ UNCHANGED registry_vars
  PROVE  RegistryInv'
<1>1. file' \in Editions /\ UNCHANGED <<tables, log, sync, manual_syncs, sync_failures>>
    BY DEF EditFile, registry_vars, RegistryInv, RegistrySafe, RegistryTypeOK
<1>2. /\ \A t : Copies(t)' = Copies(t)
      /\ \A t, i : RowsOf(t, i)' = RowsOf(t, i)
    BY <1>1 DEF Copies, RowsOf
<1>3. \A t : Latest(t)' = Latest(t)
    BY <1>2 DEF Latest
<1>4. RegistryTypeOK' /\ TablesMatchLastSync' /\ VersionsGrow' /\ LatestInv'
    BY <1>1, <1>2, <1>3 DEF RegistryInv, RegistrySafe, RegistryTypeOK,
       TablesMatchLastSync, VersionsGrow, LatestInv
<1>5. VersionInv' /\ SyncPlaces' /\ TakenWhole' /\ HolderInv'
  <2>1. VersionInv' /\ SyncPlaces'
      BY <1>1 DEF RegistryInv, VersionInv, SyncPlaces, Sheet
  <2>2. TakenWhole' /\ HolderInv'
      BY <1>1 DEF RegistryInv, TakenWhole, Whole, HolderInv, Holds, Sheet
  <2> QED
      BY <2>1, <2>2
<1> QED
    BY <1>4, <1>5 DEF RegistryInv, RegistrySafe

\* Every step keeps the invariant of the registry.
LEMMA RegistryNextInv == RegistryInv /\ [RegistryNext]_registry_vars => RegistryInv'
<1> SUFFICES ASSUME RegistryInv, [RegistryNext]_registry_vars PROVE RegistryInv'
    OBVIOUS
<1>1. CASE start_background_sync
  <2>1. manual_syncs' \in 0..MaxManualSyncs
      BY <1>1 DEF start_background_sync, RegistryInv, RegistrySafe, RegistryTypeOK
  <2> QED
      BY <1>1, <2>1, SyncerAssumption, BeginSyncInv DEF start_background_sync
<1>2. ASSUME NEW s \in Syncers, trigger_sync(s) PROVE RegistryInv'
  <2>1. manual_syncs' \in 0..MaxManualSyncs
      BY <1>2, SyncBounds DEF trigger_sync, RegistryInv, RegistrySafe, RegistryTypeOK
  <2> QED
      BY <1>2, <2>1, BeginSyncInv DEF trigger_sync
<1>3. ASSUME NEW s \in Syncers, SyncStep(s) \/ AbortSync(s) PROVE RegistryInv'
    BY <1>3, CheckInv, PlanInv, PassOverInv, DeleteBeginsInv, DeleteEndsInv, InsertInv,
       CommitSyncInv, AbortSyncInv DEF SyncStep
<1> QED
    BY <1>1, <1>2, <1>3, EditFileInv DEF RegistryNext

\* RegistryInvariance: what RegistryInv says of the calls under way, of who holds the
\* first table and of what each has taken away holds in every reachable state.
THEOREM RegistryInvariance == RegistrySpec => []RegistryInv
<1>1. RegistryInit => RegistryInv
    BY RegistryInitInv
<1>2. RegistryInv /\ [RegistryNext]_registry_vars => RegistryInv'
    BY RegistryNextInv
<1> QED
    BY <1>1, <1>2, PTL DEF RegistrySpec

\* RegistryCorrect: each table holds exactly the rows of the last logged sync that
\* copied it, never a mixture of two, and a sync has a higher version than those it
\* saw in the log, for any number of overlapping and failing syncs.
THEOREM RegistryCorrect == RegistrySpec => []RegistrySafe
<1>1. RegistryInv => RegistrySafe
    BY DEF RegistryInv
<1> QED
    BY <1>1, RegistryInvariance, PTL

-----------------------------------------------------------------------------
(* The source monitor.                                                     *)

LEMMA AbsentTyped == Absent \in Row /\ Absent.status = "absent"
BY DEF Absent, Row

LEMMA DoneTyped ==
  /\ Done \in Check
  /\ Done.at = "done" /\ Done.blind = {} /\ Done.timeouts = {}
  /\ \A u \in Urls : Done.own[u].status = "absent"
<1>1. (CHOOSE l \in Lists : TRUE) \in Lists
    BY ListAssumption
<1>2. [u \in Urls |-> Absent] \in [Urls -> Row]
    BY AbsentTyped
<1> QED
    BY <1>1, <1>2, AbsentTyped DEF Done, Check

LEMMA MonitorInit == Init => MonitorInv
<1> SUFFICES ASSUME Init PROVE MonitorInv
    OBVIOUS
<1>1. TypeOK
    BY AbsentTyped, DoneTyped, BoundsAssumption DEF Init, TypeOK
<1>2. PlaceInv
    BY DoneTyped DEF Init, PlaceInv
<1>3. OwnInv
    BY DoneTyped DEF Init, OwnInv, Locks
<1> QED
    BY <1>1, <1>2, <1>3 DEF MonitorInv

-----------------------------------------------------------------------------
(* Steps of a check.                                                       *)

\* A checker past its fetch is at a URL.
LEMMA UrlTyped ==
  ASSUME MonitorInv, NEW c \in Checkers, More(c)
  PROVE  Url(c) \in Urls
<1>1. check[c].list \in Seq(Urls) /\ check[c].next \in DOMAIN check[c].list
  <2>1. check[c] \in Check
      BY DEF MonitorInv, TypeOK
  <2> QED
      BY <2>1, ListAssumption DEF Check, More
<1> QED
    BY <1>1 DEF Url

\* A step of a check that writes no row: what it has written stays, or is gone.
LEMMA OtherStep ==
  ASSUME MonitorInv, NEW c \in Checkers, NEW r \in Check,
         check' = [check EXCEPT ![c] = r], rows' = rows,
         \/ r.own = check[c].own /\ r.blind = check[c].blind
            /\ check[c].timeouts \subseteq r.timeouts
         \/ r.blind = {} /\ \A u \in Urls : r.own[u].status = "absent",
         r.at \in {"select", "write", "failed"} => r.next \in DOMAIN r.list,
         r.at \in {"select", "write"} /\ r.body = None => r.list[r.next] \in r.timeouts
  PROVE  check' \in [Checkers -> Check] /\ PlaceInv' /\ OwnInv'
<1>1. check \in [Checkers -> Check]
    BY DEF MonitorInv, TypeOK
<1>2. \A d \in Checkers : check'[d] = IF d = c THEN r ELSE check[d]
    BY <1>1
<1>3. check' \in [Checkers -> Check]
    BY <1>1
<1>4. PlaceInv'
  <2> SUFFICES ASSUME NEW d \in Checkers
               PROVE  /\ check'[d].at \in {"select", "write", "failed"} => More(d)'
                      /\ check'[d].at \in {"select", "write"} /\ check'[d].body = None =>
                           Url(d)' \in check'[d].timeouts
                      /\ \A u \in check'[d].blind : Locks(d, u)'
      BY DEF PlaceInv
  <2>1. CASE d = c
      BY <1>2, <2>1 DEF MonitorInv, PlaceInv, More, Url, Locks
  <2>2. CASE d # c
      BY <1>2, <2>2 DEF MonitorInv, PlaceInv, More, Url, Locks
  <2> QED
      BY <2>1, <2>2
<1>5. ASSUME NEW d \in Checkers, NEW u \in Urls, Locks(d, u)'
      PROVE  /\ Locks(d, u)
             /\ check'[d].own = check[d].own /\ check'[d].blind = check[d].blind
             /\ check[d].timeouts \subseteq check'[d].timeouts
    BY <1>2, <1>5 DEF Locks
<1>6. OwnInv'
    BY <1>5 DEF MonitorInv, OwnInv
<1> QED
    BY <1>3, <1>4, <1>6

\* What a check writes is a row.
LEMMA WrittenTyped ==
  ASSUME MonitorInv, NEW c \in Checkers, Url(c) \in Urls
  PROVE  Written(c) \in Row
<1>1. rows[Url(c)] \in Row /\ check[c].body \in Hashes \union {None}
  <2>1. check[c] \in Check /\ rows \in [Urls -> Row]
      BY DEF MonitorInv, TypeOK
  <2> QED
      BY <2>1 DEF Check
<1>2. PICK row \in Row : row = rows[Url(c)]
    BY <1>1
<1>3. PICK body \in Hashes \union {None} : body = check[c].body
    BY <1>1
<1>4. Error(row) \in Row /\ Unchanged(row) \in Row /\ Baseline(row, body) \in Row
    BY <1>2, <1>3 DEF Error, Unchanged, Baseline, Row
<1>5. Changed(row, body) \in Row
    BY <1>2, <1>3 DEF Changed, Row
<1> QED
    BY <1>2, <1>3, <1>4, <1>5 DEF Written

\* What a check writes follows the row it finds, unless it saw none.
LEMMA WrittenFollows ==
  ASSUME MonitorInv, NEW c \in Checkers, Url(c) \in Urls
  PROVE  /\ IF check[c].at # "failed" /\ check[c].seen.status = "absent"
            THEN Written(c).status # "absent"
            ELSE Follows(Written(c), rows[Url(c)])
         /\ \/ Written(c).hash # None \/ rows[Url(c)].hash = None
            \/ check[c].at # "failed" /\ check[c].body = None
<1>1. rows[Url(c)] \in Row /\ check[c].body \in Hashes \union {None}
  <2>1. check[c] \in Check /\ rows \in [Urls -> Row]
      BY DEF MonitorInv, TypeOK
  <2> QED
      BY <2>1 DEF Check
<1>2. PICK row \in Row : row = rows[Url(c)]
    BY <1>1
<1>3. PICK body \in Hashes \union {None} : body = check[c].body
    BY <1>1
<1>4. Error(row).hash = row.hash /\ Error(row).status = "error"
    BY <1>2 DEF Error, Row
<1>5. /\ Unchanged(row).hash = row.hash
      /\ Unchanged(row).status = "ok" => row.status # "changed"
    BY <1>2 DEF Unchanged, Row
<1>6. /\ Changed(row, body).status = "changed"
      /\ Changed(row, body).previous = row.hash
      /\ Changed(row, body).hash = body
    BY DEF Changed
<1>7. Baseline(row, body).hash = body /\ Baseline(row, body).status = "ok"
    BY <1>2 DEF Baseline, Row
<1> QED
    BY <1>2, <1>3, <1>4, <1>5, <1>6, <1>7 DEF Written, Follows

LEMMA WriteStep ==
  ASSUME MonitorInv, NEW c \in Checkers, Write(c)
  PROVE  check' \in [Checkers -> Check] /\ PlaceInv' /\ OwnInv'
<1>1. /\ check \in [Checkers -> Check] /\ check[c] \in Check
      /\ rows \in [Urls -> Row] /\ rows' = rows
    BY DEF MonitorInv, TypeOK, Write
<1>2. Url(c) \in Urls
    BY UrlTyped DEF Write, MonitorInv, PlaceInv
<1>3. PICK u \in Urls : u = Url(c)
    BY <1>2
<1>4. PICK w \in Row : w = Written(c)
    BY <1>2, WrittenTyped
<1>5. PICK b : b = IF check[c].at = "write" /\ check[c].seen.status = "absent"
                   THEN check[c].blind \union {u} ELSE check[c].blind
    OBVIOUS
<1>6. PICK r : r = [at |-> "fetch", list |-> check[c].list,
                    next |-> check[c].next + 1, body |-> None, seen |-> Absent,
                    own |-> [check[c].own EXCEPT ![u] = w], blind |-> b,
                    timeouts |-> check[c].timeouts]
    OBVIOUS
<1>7. r \in Check
  <2>1. /\ check[c].list \in Lists /\ check[c].next \in Nat
        /\ check[c].own \in [Urls -> Row] /\ check[c].blind \in SUBSET Urls
        /\ check[c].timeouts \in SUBSET Urls
      BY <1>1 DEF Check
  <2>2. b \in SUBSET Urls
      BY <1>3, <1>5, <2>1
  <2>3. [check[c].own EXCEPT ![u] = w] \in [Urls -> Row]
      BY <2>1
  <2> QED
      BY <1>6, <2>1, <2>2, <2>3, AbsentTyped DEF Check
<1>8. check'[c] = r
    BY <1>1, <1>3, <1>4, <1>5, <1>6 DEF Write, Check
<1>9. \A d \in Checkers : d # c => check'[d] = check[d]
    BY <1>1 DEF Write
<1>10. check' \in [Checkers -> Check]
    BY <1>1, <1>7, <1>8, <1>9 DEF Write
<1>12. \A d \in Checkers : ~Locks(d, u)
    BY <1>3 DEF Write, Locked
<1>13. /\ r.own[u] = w
       /\ \A v \in Urls : v # u => r.own[v] = check[c].own[v]
       /\ \A v \in Urls : v # u => (v \in r.blind <=> v \in check[c].blind)
  <2>1. check[c].own \in [Urls -> Row]
      BY <1>1 DEF Check
  <2> QED
      BY <1>5, <1>6, <2>1
<1>14. ASSUME NEW d \in Checkers, NEW v \in Urls, v # u
       PROVE  /\ check'[d].own[v] = check[d].own[v]
              /\ v \in check'[d].blind <=> v \in check[d].blind
              /\ check'[d].timeouts = check[d].timeouts
              /\ Locks(d, v)' <=> Locks(d, v)
  <2>1. CASE d = c
    <3>1. check'[d] = r /\ r.timeouts = check[d].timeouts
        BY <1>6, <1>8, <2>1
    <3> QED
        BY <1>13, <1>14, <2>1, <3>1 DEF Locks
  <2>2. CASE d # c
      BY <1>9, <2>2 DEF Locks
  <2> QED
      BY <2>1, <2>2
<1>15. \A d \in Checkers \ {c} : ~Locks(d, u)'
    BY <1>9, <1>12 DEF Locks
<1>16. /\ IF u \in r.blind THEN w.status # "absent" ELSE Follows(w, rows[u])
       /\ w.hash # None \/ u \in r.timeouts \/ rows[u].hash = None
  <2>1. u \notin check[c].blind
      BY <1>12 DEF MonitorInv, PlaceInv
  <2>2. /\ check[c].at \in {"write", "failed"}
        /\ u \in b <=> check[c].at # "failed" /\ check[c].seen.status = "absent"
      BY <1>5, <2>1 DEF Write
  <2>3. check[c].at # "failed" /\ check[c].body = None => u \in check[c].timeouts
      BY <1>3, <2>2 DEF MonitorInv, PlaceInv
  <2> QED
      BY <1>2, <1>3, <1>4, <1>6, <2>2, <2>3, WrittenFollows
<1>11. PlaceInv'
  <2>1. ASSUME NEW d \in Checkers, check'[d].at \in {"select", "write", "failed"}
        PROVE  /\ More(d)'
               /\ check'[d].at \in {"select", "write"} /\ check'[d].body = None =>
                    Url(d)' \in check'[d].timeouts
    <3>1. check'[d] = check[d]
        BY <1>6, <1>8, <1>9, <2>1
    <3> QED
        BY <2>1, <3>1 DEF MonitorInv, PlaceInv, More, Url
  <2>2. ASSUME NEW d \in Checkers, NEW v \in check'[d].blind
        PROVE  Locks(d, v)'
    <3>1. v \in Urls
        BY <1>10, <2>2 DEF Check
    <3>2. CASE v = u
      <4>1. d = c
          BY <1>9, <1>12, <2>2, <3>2 DEF MonitorInv, PlaceInv
      <4> QED
          BY <1>8, <1>13, <1>16, <2>2, <3>2, <4>1 DEF Locks
    <3>3. CASE v # u
        BY <1>14, <2>2, <3>1, <3>3 DEF MonitorInv, PlaceInv
    <3> QED
        BY <3>2, <3>3
  <2> QED
      BY <2>1, <2>2 DEF PlaceInv
<1>17. ASSUME NEW d \in Checkers, NEW v \in Urls, Locks(d, v)'
       PROVE  /\ \A e \in Checkers \ {d} : ~Locks(e, v)'
              /\ v \in check'[d].blind \/ Follows(check'[d].own[v], rows'[v])
              /\ \/ check'[d].own[v].hash # None \/ v \in check'[d].timeouts
                 \/ rows'[v].hash = None
  <2>1. CASE v = u
    <3>1. d = c
        BY <1>15, <1>17, <2>1
    <3> QED
        BY <1>1, <1>8, <1>13, <1>15, <1>16, <2>1, <3>1
  <2>2. CASE v # u
    <3>1. /\ Locks(d, v)
          /\ \A e \in Checkers \ {d} : ~Locks(e, v)
          /\ v \in check[d].blind \/ Follows(check[d].own[v], rows[v])
          /\ \/ check[d].own[v].hash # None \/ v \in check[d].timeouts
             \/ rows[v].hash = None
        BY <1>14, <1>17, <2>2 DEF MonitorInv, OwnInv
    <3> QED
        BY <1>1, <1>14, <2>2, <3>1
  <2> QED
      BY <2>1, <2>2
<1>18. OwnInv'
    BY <1>17 DEF OwnInv
<1> QED
    BY <1>10, <1>11, <1>18

\* A check that commits leaves behind what no other check has written.
LEMMA CommitStep ==
  ASSUME MonitorInv, NEW c \in Checkers, Commit(c)
  PROVE  /\ check' \in [Checkers -> Check] /\ PlaceInv' /\ OwnInv'
         /\ rows' \in [Urls -> Row]
<1>1. /\ check \in [Checkers -> Check] /\ check[c].own \in [Urls -> Row]
      /\ rows \in [Urls -> Row]
  <2>1. check \in [Checkers -> Check] /\ rows \in [Urls -> Row]
      BY DEF MonitorInv, TypeOK
  <2>2. check[c] \in Check
      BY <2>1
  <2> QED
      BY <2>1, <2>2 DEF Check
<1>2. \A d \in Checkers : check'[d] = IF d = c THEN Done ELSE check[d]
    BY <1>1 DEF Commit
<1>3. check' \in [Checkers -> Check]
    BY <1>1, DoneTyped DEF Commit
<1>4. /\ rows' \in [Urls -> Row]
      /\ \A u \in Urls : ~Locks(c, u) => rows'[u] = rows[u]
    BY <1>1 DEF Commit
<1>5. PlaceInv'
  <2> SUFFICES ASSUME NEW d \in Checkers
               PROVE  /\ check'[d].at \in {"select", "write", "failed"} => More(d)'
                      /\ check'[d].at \in {"select", "write"} /\ check'[d].body = None =>
                           Url(d)' \in check'[d].timeouts
                      /\ \A u \in check'[d].blind : Locks(d, u)'
      BY DEF PlaceInv
  <2>1. CASE d = c
      BY <1>2, <2>1, DoneTyped
  <2>2. CASE d # c
      BY <1>2, <2>2 DEF MonitorInv, PlaceInv, More, Url, Locks
  <2> QED
      BY <2>1, <2>2
<1>6. ASSUME NEW d \in Checkers, NEW u \in Urls, Locks(d, u)'
      PROVE  d # c /\ Locks(d, u) /\ check'[d] = check[d] /\ ~Locks(c, u)
  <2>1. d # c /\ Locks(d, u) /\ check'[d] = check[d]
      BY <1>2, <1>6, DoneTyped DEF Locks
  <2> QED
      BY <2>1 DEF MonitorInv, OwnInv
<1>7. OwnInv'
    BY <1>4, <1>6 DEF MonitorInv, OwnInv
<1> QED
    BY <1>3, <1>4, <1>5, <1>7

LEMMA ReviewStep ==
  ASSUME MonitorInv, NEW u \in Urls, review_source_check(u)
  PROVE  rows' \in [Urls -> Row] /\ PlaceInv' /\ OwnInv'
<1>1. rows \in [Urls -> Row] /\ rows[u] \in Row /\ check' = check
    BY DEF MonitorInv, TypeOK, review_source_check
<1>2. [rows[u] EXCEPT !.status = "ok", !.previous = None] \in Row
    BY <1>1 DEF Row
<1>3. rows' = [rows EXCEPT ![u] = [rows[u] EXCEPT !.status = "ok", !.previous = None]]
    BY <1>1 DEF review_source_check, Row
<1>4. rows' \in [Urls -> Row] /\ \A v \in Urls : v # u => rows'[v] = rows[v]
    BY <1>1, <1>2, <1>3
<1>5. PlaceInv'
    BY <1>1 DEF MonitorInv, PlaceInv, More, Url, Locks
<1>6. \A d \in Checkers : ~Locks(d, u)
    BY DEF review_source_check, Locked
<1>7. OwnInv'
    BY <1>1, <1>4, <1>6 DEF MonitorInv, OwnInv, Locks
<1> QED
    BY <1>4, <1>5, <1>7

LEMMA MonitorNext ==
  ASSUME MonitorInv, [Next]_vars
  PROVE  MonitorInv'
<1>0. /\ web \in [Urls -> Hashes] /\ sources \in Lists /\ rows \in [Urls -> Row]
      /\ check \in [Checkers -> Check] /\ manual \in 0..MaxManual
      /\ changes \in 0..MaxChanges /\ failures \in 0..MaxFailures
      /\ PlaceInv /\ OwnInv
    BY DEF MonitorInv, TypeOK
<1>1. /\ web' \in [Urls -> Hashes] /\ sources' \in Lists
      /\ manual' \in 0..MaxManual /\ changes' \in 0..MaxChanges
      /\ failures' \in 0..MaxFailures
  <2>1. CASE UNCHANGED vars
      BY <1>0, <2>1 DEF vars
  <2>2. CASE \E u \in Urls : PageChanges(u) \/ review_source_check(u)
    <3>1. PICK u \in Urls : PageChanges(u) \/ review_source_check(u)
        BY <2>2
    <3>2. CASE PageChanges(u)
        BY <1>0, <3>2, BoundsAssumption DEF PageChanges
    <3>3. CASE review_source_check(u)
        BY <1>0, <3>3 DEF review_source_check
    <3> QED
        BY <3>1, <3>2, <3>3
  <2>3. CASE SourcesReplaced
      BY <1>0, <2>3, BoundsAssumption DEF SourcesReplaced
  <2>4. CASE start_background_source_checks
      BY <1>0, <2>4 DEF start_background_source_checks, Begin
  <2>5. ASSUME NEW c \in Checkers,
               \/ trigger_source_check(c) \/ Step(c)
               \/ FetchFailed(c) \/ FetchTimedOut(c) \/ Abort(c)
        PROVE  /\ UNCHANGED <<web, sources, changes>>
               /\ manual' = manual \/ (manual' = manual + 1 /\ manual < MaxManual)
               /\ \/ failures' = failures
                  \/ failures' = failures + 1 /\ failures < MaxFailures
    <3>1. CASE trigger_source_check(c)
        BY <3>1 DEF trigger_source_check, Begin
    <3>2. CASE FetchAnswered(c) \/ Select(c) \/ Commit(c) \/ DeadlockBroken(c)
        BY <3>2 DEF FetchAnswered, Select, Commit, DeadlockBroken
    <3>3. CASE Write(c)
        BY <3>3 DEF Write
    <3>4. CASE FetchFailed(c) \/ FetchTimedOut(c) \/ Abort(c)
        BY <3>4 DEF FetchFailed, FetchTimedOut, Abort
    <3> QED
        BY <2>5, <3>1, <3>2, <3>3, <3>4 DEF Step
  <2> QED
      BY <1>0, <2>1, <2>2, <2>3, <2>4, <2>5, BoundsAssumption DEF Next
<1>2. SUFFICES check' \in [Checkers -> Check] /\ rows' \in [Urls -> Row]
               /\ PlaceInv' /\ OwnInv'
    BY <1>1 DEF MonitorInv, TypeOK
<1>3. CASE UNCHANGED <<check, rows>>
    BY <1>0, <1>3 DEF PlaceInv, OwnInv, More, Url, Locks
<1>4. CASE UNCHANGED vars \/ SourcesReplaced \/ \E u \in Urls : PageChanges(u)
    BY <1>3, <1>4 DEF vars, SourcesReplaced, PageChanges
<1>5. CASE \E u \in Urls : review_source_check(u)
  <2>1. PICK u \in Urls : review_source_check(u)
      BY <1>5
  <2> QED
      BY <1>0, <2>1, ReviewStep DEF review_source_check
<1>6. ASSUME NEW c \in Checkers, Begin(c)
      PROVE  check' \in [Checkers -> Check] /\ rows' = rows /\ PlaceInv' /\ OwnInv'
  <2> DEFINE r == [Done EXCEPT !.at = "fetch", !.list = sources]
  <2>1. /\ r \in Check /\ r.at = "fetch" /\ r.blind = {}
        /\ \A u \in Urls : r.own[u].status = "absent"
      BY <1>0, DoneTyped DEF Check
  <2>2. check' = [check EXCEPT ![c] = r] /\ rows' = rows
      BY <1>6 DEF Begin
  <2> HIDE DEF r
  <2> QED
      BY <2>1, <2>2, OtherStep
<1>7. ASSUME NEW c \in Checkers,
             FetchAnswered(c) \/ FetchFailed(c) \/ FetchTimedOut(c) \/ Select(c)
      PROVE  check' \in [Checkers -> Check] /\ rows' = rows /\ PlaceInv' /\ OwnInv'
  <2>1. check[c] \in Check
      BY <1>0
  <2>2. More(c)
      BY <1>0, <1>7 DEF FetchAnswered, FetchFailed, FetchTimedOut, Select, PlaceInv
  <2>3. Url(c) \in Urls
      BY <2>2, UrlTyped
  <2>4. PICK b \in Hashes : b = web[Url(c)]
      BY <1>0, <2>3
  <2>5. PICK s \in Row : s = rows[Url(c)]
      BY <1>0, <2>3
  <2>6. PICK o \in SUBSET Urls : o = check[c].timeouts \union {Url(c)}
      BY <2>1, <2>3 DEF Check
  <2>7. PICK r : /\ check' = [check EXCEPT ![c] = r]
                 /\ \/ r = [check[c] EXCEPT !.at = "select", !.body = b]
                    \/ r = [check[c] EXCEPT !.at = "failed", !.body = None]
                    \/ r = [check[c] EXCEPT !.at = "select", !.body = None,
                                            !.timeouts = o]
                    \/ check[c].at = "select"
                       /\ r = [check[c] EXCEPT !.at = "write", !.seen = s]
    <3>1. CASE FetchAnswered(c)
        BY <1>0, <2>4, <3>1 DEF FetchAnswered
    <3>2. CASE FetchFailed(c)
        BY <1>0, <3>2 DEF FetchFailed
    <3>3. CASE FetchTimedOut(c)
        BY <1>0, <2>6, <3>3 DEF FetchTimedOut
    <3>4. CASE Select(c)
        BY <1>0, <2>5, <3>4 DEF Select
    <3> QED
        BY <1>7, <3>1, <3>2, <3>3, <3>4
  <2>8. /\ r \in Check /\ r.own = check[c].own /\ r.blind = check[c].blind
        /\ r.next = check[c].next /\ r.list = check[c].list
        /\ check[c].timeouts \subseteq r.timeouts
        /\ r.at \in {"select", "write"} /\ r.body = None => Url(c) \in r.timeouts
    <3>1. CASE r = [check[c] EXCEPT !.at = "select", !.body = b]
        BY <2>1, <3>1, HashAssumption DEF Check
    <3>2. CASE r = [check[c] EXCEPT !.at = "failed", !.body = None]
        BY <2>1, <3>2 DEF Check
    <3>3. CASE r = [check[c] EXCEPT !.at = "select", !.body = None, !.timeouts = o]
        BY <2>1, <2>6, <3>3 DEF Check
    <3>4. CASE check[c].at = "select" /\ r = [check[c] EXCEPT !.at = "write", !.seen = s]
      <4>1. check[c].body = None => Url(c) \in check[c].timeouts
          BY <1>0, <3>4 DEF PlaceInv
      <4> QED
          BY <2>1, <3>4, <4>1 DEF Check
    <3> QED
        BY <2>7, <3>1, <3>2, <3>3, <3>4
  <2>9. rows' = rows
      BY <1>7 DEF FetchAnswered, FetchFailed, FetchTimedOut, Select
  <2>10. Url(c) = r.list[r.next] /\ r.next \in DOMAIN r.list
      BY <2>2, <2>8 DEF Url, More
  <2> QED
      BY <2>7, <2>8, <2>9, <2>10, OtherStep
<1>8. ASSUME NEW c \in Checkers, Abort(c) \/ DeadlockBroken(c)
      PROVE  check' \in [Checkers -> Check] /\ rows' = rows /\ PlaceInv' /\ OwnInv'
  <2>1. check' = [check EXCEPT ![c] = Done] /\ rows' = rows
      BY <1>8 DEF Abort, DeadlockBroken
  <2> QED
      BY <2>1, DoneTyped, OtherStep
<1>9. CASE start_background_source_checks \/ \E c \in Checkers : trigger_source_check(c)
    BY <1>0, <1>6, <1>9, CheckerAssumption
       DEF start_background_source_checks, trigger_source_check
<1>10. CASE \E c \in Checkers : Write(c) \/ Commit(c)
  <2>1. ASSUME NEW c \in Checkers, Write(c)
        PROVE  check' \in [Checkers -> Check] /\ rows' = rows /\ PlaceInv' /\ OwnInv'
    <3>1. rows' = rows
        BY <2>1 DEF Write
    <3> QED
        BY <2>1, <3>1, WriteStep
  <2> QED
      BY <1>0, <1>10, <2>1, CommitStep
<1>11. CASE \E c \in Checkers : \/ FetchAnswered(c) \/ FetchFailed(c) \/ Select(c)
                                \/ FetchTimedOut(c) \/ Abort(c) \/ DeadlockBroken(c)
    BY <1>0, <1>7, <1>8, <1>11
<1> QED
    BY <1>4, <1>5, <1>9, <1>10, <1>11 DEF Next, Step

\* MonitorInvariance: what a check has written stays its own, and fits the
\* committed row, in every reachable state.
THEOREM MonitorInvariance == Spec => []MonitorInv
<1>1. MonitorInv /\ [Next]_vars => MonitorInv'
    BY MonitorNext
<1> QED
    BY <1>1, MonitorInit, PTL DEF Spec

-----------------------------------------------------------------------------
(* What the steps may do to the rows.                                      *)

\* The steps that change a row: a commit of what was written, or a review.
LEMMA RowChanges ==
  ASSUME MonitorInv, [Next]_vars, NEW u \in Urls
  PROVE  \/ rows'[u] = rows[u]
         \/ \E c \in Checkers :
              /\ Commit(c) /\ rows'[u] = check[c].own[u]
              /\ u \in check[c].blind \/ Follows(rows'[u], rows[u])
              /\ \/ rows'[u].hash # None \/ u \in check[c].timeouts
                 \/ rows[u].hash = None
         \/ review_source_check(u) /\ rows'[u].hash = rows[u].hash
<1>1. rows \in [Urls -> Row] /\ rows[u] \in Row
    BY DEF MonitorInv, TypeOK
<1>2. ASSUME NEW c \in Checkers, Commit(c)
      PROVE  \/ rows'[u] = rows[u]
             \/ /\ rows'[u] = check[c].own[u]
                /\ u \in check[c].blind \/ Follows(rows'[u], rows[u])
                /\ \/ rows'[u].hash # None \/ u \in check[c].timeouts
                   \/ rows[u].hash = None
    BY <1>2 DEF Commit, MonitorInv, OwnInv
<1>3. ASSUME NEW v \in Urls, review_source_check(v)
      PROVE  rows'[u] = rows[u] \/ (u = v /\ rows'[u].hash = rows[u].hash)
    BY <1>1, <1>3 DEF review_source_check, Row
<1>4. CASE UNCHANGED rows
    BY <1>4
<1>5. ASSUME NEW c \in Checkers,
             \/ trigger_source_check(c) \/ FetchFailed(c) \/ FetchTimedOut(c)
             \/ Abort(c) \/ FetchAnswered(c) \/ Select(c) \/ Write(c) \/ DeadlockBroken(c)
      PROVE  UNCHANGED rows
    BY <1>5 DEF trigger_source_check, Begin, FetchFailed, FetchTimedOut, Abort,
                FetchAnswered, Select, Write, DeadlockBroken
<1>6. CASE \/ UNCHANGED vars \/ SourcesReplaced \/ start_background_source_checks
           \/ \E v \in Urls : PageChanges(v)
    BY <1>4, <1>6 DEF vars, SourcesReplaced, start_background_source_checks,
                      Begin, PageChanges
<1>7. CASE \E v \in Urls : review_source_check(v)
    BY <1>3, <1>7
<1>8. CASE \E c \in Checkers : Commit(c)
    BY <1>2, <1>8
<1> QED
    BY <1>4, <1>5, <1>6, <1>7, <1>8 DEF Next, Step

\* MonitorNotices: a hash on record is only ever replaced under the status
\* "changed", with the hash it replaces beside it, unless two first checks of the
\* page overlapped.
THEOREM MonitorNotices == Spec => ChangeNoticed
<1> DEFINE A == \A u \in Urls :
       rows[u].hash # None /\ rows'[u].hash # rows[u].hash /\ ~WrittenBlind(u) =>
         rows'[u].status = "changed" /\ rows'[u].previous = rows[u].hash
<1>1. MonitorInv /\ [Next]_vars => [A]_vars
  <2> SUFFICES ASSUME MonitorInv, [Next]_vars, NEW u \in Urls,
                      rows'[u].hash # rows[u].hash, ~WrittenBlind(u)
               PROVE  rows'[u].status = "changed" /\ rows'[u].previous = rows[u].hash
      OBVIOUS
  <2> QED
      BY RowChanges DEF WrittenBlind, Follows
<1>2. [][A]_vars => ChangeNoticed
    BY DEF ChangeNoticed
<1> HIDE DEF A
<1> QED
    BY <1>1, <1>2, MonitorInvariance, PTL DEF Spec

\* MonitorKeeps: no check takes a change on record back, and a hash on record is lost
\* only to a check whose fetch of the page timed out.
THEOREM MonitorKeeps == Spec => RowsKept
<1> DEFINE N == \A u \in Urls :
       rows[u].status = "changed" /\ rows'[u].status = "ok" =>
         Reviews(u) \/ WrittenBlind(u)
    H == \A u \in Urls :
       rows[u].hash # None /\ rows'[u].hash = None => TimedOut(u)
<1>1. MonitorInv /\ [Next]_vars => [N]_vars
  <2> SUFFICES ASSUME MonitorInv, [Next]_vars, NEW u \in Urls,
                      rows[u].status = "changed", rows'[u].status = "ok"
               PROVE  Reviews(u) \/ WrittenBlind(u)
      OBVIOUS
  <2>1. CASE review_source_check(u)
    <3>1. rows \in [Urls -> Row] /\ rows[u] \in Row
        BY DEF MonitorInv, TypeOK
    <3> QED
        BY <2>1, <3>1 DEF review_source_check, Reviews, Row
  <2>2. CASE ~review_source_check(u)
      BY <2>2, RowChanges DEF WrittenBlind, Follows
  <2> QED
      BY <2>1, <2>2
<1>2. MonitorInv /\ [Next]_vars => [H]_vars
  <2> SUFFICES ASSUME MonitorInv, [Next]_vars, NEW u \in Urls, rows[u].hash # None,
                      rows'[u].hash = None
               PROVE  TimedOut(u)
      OBVIOUS
  <2> QED
      BY RowChanges DEF TimedOut
<1>3. [][N]_vars /\ [][H]_vars => RowsKept
    BY DEF RowsKept, NoticeKept, HashKept
<1> HIDE DEF N, H
<1> QED
    BY <1>1, <1>2, <1>3, MonitorInvariance, PTL DEF Spec
=============================================================================
