--------------------------- MODULE SourceMonitor ---------------------------
(***************************************************************************)
(* routers/consent_registry.py, _check_all_sources: the pages behind the   *)
(* regulatory sources are fetched, hashed and compared with the hash of    *)
(* the last check, by a background loop and on demand; an administrator    *)
(* acknowledges a change.                                                  *)
(*                                                                         *)
(* A check is one transaction that stays open over all its fetches, so the *)
(* rows it has written stay locked until its end.  It SELECTs the row a    *)
(* page is compared with, and writes in a later statement, which at READ   *)
(* COMMITTED waits for the row and then applies to what it finds there.    *)
(***************************************************************************)
EXTENDS Integers, Sequences, FiniteSets

CONSTANTS
  Checkers,     \* the background loop and the callers of /check-sources
  Background,   \* the background loop, one of Checkers
  Urls,
  Lists,        \* contents regulatory_sources can have: URLs by id
  Hashes,       \* of the bodies the pages can have, those of error pages too
  None,         \* NULL
  MaxManual,    \* bound: checks started by hand
  MaxChanges,   \* bound: changes of a page or of regulatory_sources
  MaxFailures   \* bound: fetches or transactions that fail

ASSUME CheckerAssumption == Background \in Checkers /\ IsFiniteSet(Checkers)
ASSUME ListAssumption ==
  /\ Lists # {} /\ Lists \subseteq Seq(Urls)
  /\ \A l \in Lists : \A i, j \in DOMAIN l : l[i] = l[j] => i = j
ASSUME HashAssumption == Hashes # {} /\ None \notin Hashes
ASSUME BoundsAssumption == {MaxManual, MaxChanges, MaxFailures} \subseteq Nat

VARIABLES
  web,       \* URL -> hash of the page as it is
  sources,   \* regulatory_sources, by id
  rows,      \* committed rows of regulatory_source_checks
  check,     \* checker -> its call of _check_all_sources
  manual, changes, failures

vars == <<web, sources, rows, check, manual, changes, failures>>

Row == [status : {"absent", "ok", "changed", "error"},
        hash : Hashes \union {None}, previous : Hashes \union {None}]
Absent == [status |-> "absent", hash |-> None, previous |-> None]
\* body is None when the fetch gave no hash; own holds what is written and not
\* committed; blind and timeouts are history, the URLs written for want of a row
\* and those whose fetch timed out.
Check == [at : {"done", "fetch", "select", "write", "failed"}, list : Lists,
          next : Nat, body : Hashes \union {None}, seen : Row, own : [Urls -> Row],
          blind : SUBSET Urls, timeouts : SUBSET Urls]
Done == [at |-> "done", list |-> CHOOSE l \in Lists : TRUE, next |-> 1,
         body |-> None, seen |-> Absent, own |-> [u \in Urls |-> Absent],
         blind |-> {}, timeouts |-> {}]

TypeOK ==
  /\ web \in [Urls -> Hashes]
  /\ sources \in Lists
  /\ rows \in [Urls -> Row]
  /\ check \in [Checkers -> Check]
  /\ manual \in 0..MaxManual
  /\ changes \in 0..MaxChanges
  /\ failures \in 0..MaxFailures

Init ==
  /\ web \in [Urls -> Hashes]
  /\ sources \in Lists
  /\ rows = [u \in Urls |-> Absent]
  /\ check = [c \in Checkers |-> Done]
  /\ manual = 0 /\ changes = 0 /\ failures = 0

PageChanges(u) ==
  /\ changes < MaxChanges
  /\ changes' = changes + 1
  /\ \E h \in Hashes \ {web[u]} : web' = [web EXCEPT ![u] = h]
  /\ UNCHANGED <<sources, rows, check, manual, failures>>

\* A sync of the consent workbook replaces the list (module ConsentRegistry).
SourcesReplaced ==
  /\ changes < MaxChanges
  /\ changes' = changes + 1
  /\ sources' \in Lists \ {sources}
  /\ UNCHANGED <<web, rows, check, manual, failures>>

-----------------------------------------------------------------------------
(* _check_all_sources.                                                     *)

Begin(c) ==
  /\ check[c].at = "done"
  /\ check' = [check EXCEPT ![c] = [Done EXCEPT !.at = "fetch", !.list = sources]]
  /\ UNCHANGED <<web, sources, rows, changes, failures>>

start_background_source_checks == Begin(Background) /\ UNCHANGED manual

trigger_source_check(c) ==
  /\ c # Background
  /\ manual < MaxManual
  /\ manual' = manual + 1
  /\ Begin(c)

More(c) == check[c].next \in DOMAIN check[c].list
Url(c) == check[c].list[check[c].next]

\* _check_single_source: whatever the response is, its body is hashed.
FetchAnswered(c) ==
  /\ check[c].at = "fetch" /\ More(c)
  /\ check' = [check EXCEPT ![c].at = "select", ![c].body = web[Url(c)]]
  /\ UNCHANGED <<web, sources, rows, manual, changes, failures>>

\* No response, and an exception with a message: the error row is written without
\* a SELECT.
FetchFailed(c) ==
  /\ check[c].at = "fetch" /\ More(c)
  /\ failures < MaxFailures
  /\ failures' = failures + 1
  /\ check' = [check EXCEPT ![c].at = "failed", ![c].body = None]
  /\ UNCHANGED <<web, sources, rows, manual, changes>>

\* A timeout of httpx has no message, so the check goes on with a NULL for the hash.
FetchTimedOut(c) ==
  /\ check[c].at = "fetch" /\ More(c)
  /\ failures < MaxFailures
  /\ failures' = failures + 1
  /\ check' = [check EXCEPT ![c].at = "select", ![c].body = None,
                            ![c].timeouts = @ \union {Url(c)}]
  /\ UNCHANGED <<web, sources, rows, manual, changes>>

Select(c) ==
  /\ check[c].at = "select"
  /\ check' = [check EXCEPT ![c].at = "write", ![c].seen = rows[Url(c)]]
  /\ UNCHANGED <<web, sources, rows, manual, changes, failures>>

Locks(c, u) == check[c].own[u].status # "absent"
Locked(u) == \E c \in Checkers : Locks(c, u)

\* Faulty variants: the row starts anew; the column's default is written; a page
\* found as recorded counts as reviewed; an error is kept like any status.
Error_Resets(row) == [Absent EXCEPT !.status = "error"]
Error_Pending(row) == [row EXCEPT !.status = "pending"]
Unchanged_Confirms(row) == [row EXCEPT !.status = "ok"]
Unchanged_Keeps(row) == row

\* The three statements for a row that is there, applied to what it is by then.
Error(row) == [row EXCEPT !.status = "error"]

Unchanged(row) ==
  [row EXCEPT !.status = IF @ = "error" THEN "ok" ELSE @]

Changed(row, body) == [status |-> "changed", hash |-> body, previous |-> row.hash]

\* First check: INSERT, or over a row that came meanwhile.
Baseline(row, body) == [row EXCEPT !.status = "ok", !.hash = body]

\* Faulty variant: what the write is based on is the row as SELECTed.
Written_Seen(c) ==
  LET body == check[c].body  seen == check[c].seen
  IN  IF check[c].at = "failed" THEN Error(rows[Url(c)])
      ELSE IF seen.status = "absent" THEN Baseline(seen, body)
      ELSE IF body # seen.hash THEN Changed(seen, body) ELSE Unchanged(seen)

Written(c) ==
  LET row == rows[Url(c)]  body == check[c].body  seen == check[c].seen
  IN  IF check[c].at = "failed" THEN Error(row)
      ELSE IF seen.status = "absent" THEN Baseline(row, body)
      ELSE IF body # seen.hash THEN Changed(row, body) ELSE Unchanged(row)

\* NULL is like any hash to the comparison with the row.
Write(c) ==
  /\ check[c].at \in {"write", "failed"}
  /\ ~Locked(Url(c))
  /\ check' = [check EXCEPT
       ![c].at = "fetch", ![c].next = @ + 1, ![c].own[Url(c)] = Written(c),
       ![c].blind = IF check[c].at = "write" /\ check[c].seen.status = "absent"
                    THEN @ \union {Url(c)} ELSE @,
       ![c].body = None, ![c].seen = Absent]
  /\ UNCHANGED <<web, sources, rows, manual, changes, failures>>

Commit(c) ==
  /\ check[c].at = "fetch" /\ ~More(c)
  /\ rows' = [u \in Urls |-> IF Locks(c, u) THEN check[c].own[u] ELSE rows[u]]
  /\ check' = [check EXCEPT ![c] = Done]
  /\ UNCHANGED <<web, sources, manual, changes, failures>>

\* A statement fails or the process dies: everything of the check is lost.
Abort(c) ==
  /\ check[c].at # "done"
  /\ failures < MaxFailures
  /\ failures' = failures + 1
  /\ check' = [check EXCEPT ![c] = Done]
  /\ UNCHANGED <<web, sources, rows, manual, changes>>

WaitsFor(c, d) == check[c].at \in {"write", "failed"} /\ Locks(d, Url(c))

\* Two checks with lists in different orders: PostgreSQL aborts one of them.
DeadlockBroken(c) ==
  /\ \E d \in Checkers \ {c} : WaitsFor(c, d) /\ WaitsFor(d, c)
  /\ check' = [check EXCEPT ![c] = Done]
  /\ UNCHANGED <<web, sources, rows, manual, changes, failures>>

\* review_source_check: whatever the status is by now, it becomes "ok".
review_source_check(u) ==
  /\ rows[u].status # "absent"
  /\ ~Locked(u)
  /\ rows' = [rows EXCEPT ![u].status = "ok", ![u].previous = None]
  /\ UNCHANGED <<web, sources, check, manual, changes, failures>>

Step(c) ==
  \/ FetchAnswered(c) \/ Select(c) \/ Write(c) \/ Commit(c) \/ DeadlockBroken(c)

Next ==
  \/ \E u \in Urls : PageChanges(u) \/ review_source_check(u)
  \/ SourcesReplaced \/ start_background_source_checks
  \/ \E c \in Checkers :
       \/ trigger_source_check(c) \/ Step(c)
       \/ FetchFailed(c) \/ FetchTimedOut(c) \/ Abort(c)

Spec == Init /\ [][Next]_vars

\* The background loop starts again and again, and every check goes on: a fetch
\* has a time limit, so it is answered or fails.  The fairness of Step is strong:
\* PostgreSQL grants a lock to those who wait for it in turn, before a check that
\* begins a day later.
FairSpec ==
  /\ Spec
  /\ WF_vars(start_background_source_checks)
  /\ \A c \in Checkers : SF_vars(Step(c))

-----------------------------------------------------------------------------
(* Properties.                                                             *)

Reviews(u) == rows[u].status # "absent" /\ rows' = [rows EXCEPT ![u] =
                [@ EXCEPT !.status = "ok", !.previous = None]]
\* The check that commits in this step wrote u for want of a row.
WrittenBlind(u) ==
  \E c \in Checkers : Commit(c) /\ u \in check[c].blind

\* ChangeNoticed: when the hash on record for a page is replaced by another, the
\* row says "changed" and names the hash it replaced, however checks overlap.
\* The one exception is two first checks at once: the later one overwrites the
\* earlier one's hash as if it were the first.
ChangeNoticed ==
  [][\A u \in Urls :
       rows[u].hash # None /\ rows'[u].hash # rows[u].hash /\ ~WrittenBlind(u) =>
         rows'[u].status = "changed" /\ rows'[u].previous = rows[u].hash]_vars

\* NoticeKept: a change on record is not taken back to "ok" by a check that finds
\* the page as recorded; that takes a review.  (A failed fetch turns it into
\* "error", and the next check that one into "ok": see UnreviewedStays.)
NoticeKept ==
  [][\A u \in Urls :
       rows[u].status = "changed" /\ rows'[u].status = "ok" =>
         Reviews(u) \/ WrittenBlind(u)]_vars

\* The check that commits in this step timed out over u.
TimedOut(u) == \E c \in Checkers : Commit(c) /\ u \in check[c].timeouts

\* HashKept: a page on record loses its hash only to a check whose own fetch of it
\* timed out (consent_registry.py:442); a fetch that fails otherwise does not lose
\* it, nor does a late check bring back an old row.
HashKept ==
  [][\A u \in Urls :
       rows[u].hash # None /\ rows'[u].hash = None => TimedOut(u)]_vars

\* RowsKept: what is on record for a page is not lost to the checks after it.
RowsKept == NoticeKept /\ HashKept

\* Detects: once the pages and the list are left alone, every listed page's own
\* hash is on record and the last check of it counts as a success, whatever
\* older check commits late, and although checks may deadlock.
Detects ==
  <>[](\A i \in DOMAIN sources :
         /\ rows[sources[i]].hash = web[sources[i]]
         /\ rows[sources[i]].status # "error")

-----------------------------------------------------------------------------
(* The inductive invariant behind ChangeNoticed and RowsKept.              *)

\* PlaceInv: a checker past a fetch is at a URL of its list, and what it wrote for
\* want of a row it still holds.
PlaceInv ==
  \A c \in Checkers :
    /\ check[c].at \in {"select", "write", "failed"} => More(c)
    /\ check[c].at \in {"select", "write"} /\ check[c].body = None =>
         Url(c) \in check[c].timeouts
    /\ \A u \in check[c].blind : Locks(c, u)

\* Follows: own is what a check may write over row: the row with another status,
\* but not a change made "ok", or a change from the hash on record.
Follows(own, row) ==
  \/ own.hash = row.hash /\ (own.status = "ok" => row.status # "changed")
  \/ own.status = "changed" /\ own.previous = row.hash

\* OwnInv: what is written and not committed is one checker's alone and still
\* follows the committed row, or was written for want of one; it has lost the hash
\* only to a timeout.
OwnInv ==
  \A c \in Checkers, u \in Urls : Locks(c, u) =>
    /\ \A d \in Checkers \ {c} : ~Locks(d, u)
    /\ u \in check[c].blind \/ Follows(check[c].own[u], rows[u])
    /\ \/ check[c].own[u].hash # None \/ u \in check[c].timeouts
       \/ rows[u].hash = None

MonitorInv == TypeOK /\ PlaceInv /\ OwnInv

-----------------------------------------------------------------------------
(* What the repository says of the monitor and the code does not do.       *)

\* UnreviewedStays: consent_registry.py:503, "No change — update checked_at, keep
\* status (ok or already-reviewed)": a row leaves "changed" by a review only.
UnreviewedStays ==
  [][\A u \in Urls : rows[u].status = "changed" /\ rows'[u].status # "changed" =>
       Reviews(u)]_vars

\* BaselineKept: consent_registry.py:443, "Fetch failed", where status = 'error' is
\* written beside the hash: a page on record always has a hash to be compared with.
BaselineKept ==
  [][\A u \in Urls : rows[u].hash # None => rows'[u].hash # None]_vars

\* FirstIsBaseline: consent_registry.py:466, "First check — establish baseline":
\* the first hash on record for a page is not a change.
FirstIsBaseline ==
  [][\A u \in Urls : rows[u].hash = None => rows'[u].status # "changed"]_vars

\* ChangedDiffers: consent_registry.py:483, "Content changed!": a row that says so
\* has two different hashes.
ChangedDiffers ==
  \A u \in Urls : rows[u].status = "changed" => rows[u].hash # rows[u].previous
=============================================================================
