--------------------------- MODULE AnalysisEngine ---------------------------
(***************************************************************************)
(* routers/intelligence.py, analyze_and_suggest and get_playbook_analysis: *)
(* requests that ask the active AI connectors (module Connectors) one      *)
(* after the other until one answers.  An analysis is rate limited in      *)
(* Redis by two commands, falls back to a built-in engine, and replaces    *)
(* the market intelligence; what it does with the suggestions is in        *)
(* ProductGovernance.                                                      *)
(***************************************************************************)
EXTENDS Connectors, FiniteSets

CONSTANTS
  Workers,       \* handlers of requests
  Needs,         \* name -> the key its adapter sends; "none" without an adapter
  Rank,          \* name -> its place in the alphabet
  RateMax,       \* RATE_LIMIT_MAX_CALLS
  MaxFailures    \* bound: failures of Redis, crashes and exceptions

ASSUME NeedsAssumption ==
  Needs \in [ConnectorNames -> Keys \union {"none"}] /\ Rank \in [ConnectorNames -> Nat]
ASSUME EngineBounds == RateMax \in Nat \ {0} /\ MaxFailures \in Nat

VARIABLES
  rate,       \* the key guardrail:analyze_rate: its count, whether it expires
  admitted,   \* history: calls the limit let through in its window
  work,       \* worker -> its request
  reply,      \* the last response
  market,     \* runs that have rows in market_intelligence
  stored,     \* history: the runs that have replaced it, in order
  failures

engine_vars == <<rate, admitted, work, reply, market, stored, failures>>
all_vars == <<rows, toggles, suggests, requests, rate, admitted, work, reply,
              market, stored, failures>>

\* A connector as it was loaded; the built-in engine has id 0.
Loaded == [id : Nat, name : ConnectorNames, config : SUBSET Keys]
BuiltIn == 0
\* model is model_used, data whose response ai_response is; snapshot and doomed
\* are the rows of the table its DELETE has begun on, and has removed.
Work == [at : {"idle", "expire", "load", "call", "delete", "deleting", "commit",
               "respond"},
         kind : {"analyze", "playbook"}, run : 0..MaxRequests, list : Seq(Loaded),
         next : Nat, model : Nat, data : Nat, snapshot : SUBSET (1..MaxRequests),
         doomed : SUBSET (1..MaxRequests), before : Nat]
Idle == [at |-> "idle", kind |-> "analyze", run |-> 0, list |-> <<>>, next |-> 1,
         model |-> BuiltIn, data |-> BuiltIn, snapshot |-> {}, doomed |-> {},
         before |-> 0]
\* stamp is ai_model_used of the suggestions.
Reply == [code : {0, 200, 404, 429, 500, 502, 503}, model : Nat, stamp : Nat,
          data : Nat]
Answer(code) == [code |-> code, model |-> BuiltIn, stamp |-> BuiltIn, data |-> BuiltIn]

EngineTypeOK ==
  /\ ConnectorTypeOK
  /\ rate \in [count : Nat, expires : BOOLEAN]
  /\ admitted \in Nat
  /\ work \in [Workers -> Work]
  /\ reply \in Reply
  /\ market \subseteq 1..MaxRequests
  /\ stored \in Seq([run : 1..MaxRequests, intelligence : BOOLEAN, before : Nat])
  /\ failures \in 0..MaxFailures

NoKey == [count |-> 0, expires |-> FALSE]

EngineInit ==
  /\ ConnectorInit
  /\ rate = NoKey /\ admitted = 0
  /\ work = [w \in Workers |-> Idle]
  /\ reply = Answer(0)
  /\ market = {} /\ stored = <<>>
  /\ failures = 0

Fails == failures < MaxFailures /\ failures' = failures + 1

\* The request of w ends with a response.
Respond(w, answer) ==
  /\ work' = [work EXCEPT ![w] = Idle]
  /\ reply' = answer

Starts(w, kind, at) ==
  work' = [work EXCEPT ![w] = [Idle EXCEPT !.at = at, !.kind = kind, !.run = requests']]

-----------------------------------------------------------------------------
(* The rate limit.                                                         *)

\* Faulty variant: the call that reaches the limit is not counted.
OverLimit_Late(count) == count > RateMax + 1

OverLimit(count) == count > RateMax

\* INCR: the first call of a window goes on to EXPIRE.
analyze_begins(w) ==
  /\ work[w].at = "idle"
  /\ Request
  /\ rate' = [rate EXCEPT !.count = @ + 1]
  /\ IF OverLimit(rate'.count)
     THEN Respond(w, Answer(429)) /\ UNCHANGED admitted
     ELSE /\ admitted' = admitted + 1
          /\ Starts(w, "analyze", IF rate'.count = 1 THEN "expire" ELSE "load")
          /\ UNCHANGED reply
  /\ UNCHANGED <<rows, toggles, suggests, market, stored, failures>>

\* Faulty variant: a key that is new does not expire.
set_expiry_Never(w) ==
  /\ work[w].at = "expire"
  /\ work' = [work EXCEPT ![w].at = "load"]
  /\ UNCHANGED <<connector_vars, rate, admitted, reply, market, stored, failures>>

set_expiry(w) ==
  /\ work[w].at = "expire"
  /\ rate' = [rate EXCEPT !.expires = TRUE]
  /\ work' = [work EXCEPT ![w].at = "load"]
  /\ UNCHANGED <<connector_vars, admitted, reply, market, stored, failures>>

\* Redis fails at either command: the request proceeds.
redis_fails(w) ==
  /\ Fails
  /\ \/ /\ work[w].at = "idle"
        /\ Request
        /\ Starts(w, "analyze", "load")
     \/ /\ work[w].at = "expire"
        /\ work' = [work EXCEPT ![w].at = "load"]
        /\ UNCHANGED requests
  /\ UNCHANGED <<rows, toggles, suggests, rate, admitted, reply, market, stored>>

\* Redis removes the key after RATE_LIMIT_WINDOW_SECONDS.
window_ends ==
  /\ rate.expires
  /\ rate' = NoKey /\ admitted' = 0
  /\ UNCHANGED <<connector_vars, work, reply, market, stored, failures>>

-----------------------------------------------------------------------------
(* The calls of the providers.                                             *)

\* The playbook needs an active product, and is not rate limited.
get_playbook_analysis(w) ==
  /\ work[w].at = "idle"
  /\ Request
  /\ \/ Starts(w, "playbook", "load") /\ UNCHANGED reply
     \/ Respond(w, Answer(404))
  /\ UNCHANGED <<rows, toggles, suggests, rate, admitted, market, stored, failures>>

Active == {i \in Ids : rows[i].status = "active"}

\* The active connectors: in any order, or by name.
load_connectors(w) ==
  /\ work[w].at = "load"
  /\ \E order \in [1..Cardinality(Active) -> Active] :
       /\ \A k, l \in DOMAIN order : order[k] = order[l] => k = l
       /\ work[w].kind = "playbook" =>
            \A k, l \in DOMAIN order :
              k < l => Rank[rows[order[k]].name] =< Rank[rows[order[l]].name]
       /\ work' = [work EXCEPT ![w].at = "call", ![w].list =
            [k \in DOMAIN order |-> [id |-> order[k], name |-> rows[order[k]].name,
                                     config |-> rows[order[k]].config]]]
  /\ UNCHANGED <<connector_vars, rate, admitted, reply, market, stored, failures>>

\* has_key looks for "key" and "token" in the names of the fields, max_tokens
\* among them; has_cred asks for one of three fields.
Tried(kind, config) ==
  config \intersect (IF kind = "analyze" THEN {"api_key", "api_token", "max_tokens"}
                                         ELSE {"api_key", "api_token", "base_url"}) # {}

\* The connector w is at, and whether its adapter has what it needs.
More(w) == work[w].next \in DOMAIN work[w].list
Connector(w) == work[w].list[work[w].next]
Usable(c) == Needs[c.name] \in c.config

skip_connector(w) ==
  /\ work[w].at = "call" /\ More(w)
  /\ ~Tried(work[w].kind, Connector(w).config)
  /\ work' = [work EXCEPT ![w].next = @ + 1]
  /\ UNCHANGED <<connector_vars, rate, admitted, reply, market, stored, failures>>

\* No adapter, no credential, an error of the provider, or an empty answer.
call_fails(w) ==
  /\ work[w].at = "call" /\ More(w)
  /\ Tried(work[w].kind, Connector(w).config)
  /\ work' = [work EXCEPT ![w].next = @ + 1, ![w].data = BuiltIn]
  /\ UNCHANGED <<connector_vars, rate, admitted, reply, market, stored, failures>>

\* Faulty variant: the loop goes on after an answer.
call_answers_NoBreak(w) ==
  /\ work[w].at = "call" /\ More(w) /\ work[w].kind = "analyze"
  /\ Tried("analyze", Connector(w).config) /\ Usable(Connector(w))
  /\ work' = [work EXCEPT ![w].next = @ + 1, ![w].model = Connector(w).id,
                          ![w].data = Connector(w).id]
  /\ UNCHANGED <<connector_vars, rate, admitted, reply, market, stored, failures>>

\* An answer ends the loop; the playbook's has to be JSON.
call_answers(w) ==
  /\ work[w].at = "call" /\ More(w)
  /\ Tried(work[w].kind, Connector(w).config) /\ Usable(Connector(w))
  /\ LET id == Connector(w).id IN
     IF work[w].kind = "analyze"
     THEN /\ work' = [work EXCEPT ![w].at = "delete", ![w].model = id, ![w].data = id]
          /\ UNCHANGED reply
     ELSE \/ Respond(w, Answer(502))
          \/ Respond(w, [code |-> 200, model |-> id, stamp |-> id, data |-> id])
  /\ UNCHANGED <<connector_vars, rate, admitted, market, stored, failures>>

no_connector_left(w) ==
  /\ work[w].at = "call" /\ ~More(w)
  /\ IF work[w].kind = "analyze"
     THEN work' = [work EXCEPT ![w].at = "delete"] /\ UNCHANGED reply
     ELSE Respond(w, Answer(503))
  /\ UNCHANGED <<connector_vars, rate, admitted, market, stored, failures>>

-----------------------------------------------------------------------------
(* The market intelligence is replaced in one transaction.                 *)

\* The DELETE begins on the rows that are committed ...
market_delete(w) ==
  /\ work[w].at = "delete"
  /\ work' = [work EXCEPT ![w].at = "deleting", ![w].snapshot = market,
                          ![w].before = Len(stored)]
  /\ UNCHANGED <<connector_vars, rate, admitted, reply, market, stored, failures>>

\* Faulty variant: the DELETE is committed at once.
market_deleted_Commits(w) ==
  /\ work[w].at = "deleting"
  /\ market' = market \ work[w].snapshot
  /\ work' = [work EXCEPT ![w].at = "commit", ![w].snapshot = {}]
  /\ UNCHANGED <<connector_vars, rate, admitted, reply, stored, failures>>

\* ... waits for those that another transaction has deleted, and takes the rest.
market_deleted(w) ==
  /\ work[w].at = "deleting"
  /\ \A v \in Workers \ {w} : work[w].snapshot \intersect work[v].doomed = {}
  /\ work' = [work EXCEPT ![w].at = "commit", ![w].snapshot = {},
                          ![w].doomed = work[w].snapshot \intersect market]
  /\ UNCHANGED <<connector_vars, rate, admitted, reply, market, stored, failures>>

\* Faulty variant: the rows are added to those of the table.
Replaced_KeepsOld(w, intelligence) ==
  market \union (IF intelligence THEN {work[w].run} ELSE {})

\* The rows after the commit; an answer may have none.
Replaced(w, intelligence) ==
  (market \ work[w].doomed) \union (IF intelligence THEN {work[w].run} ELSE {})

market_commit(w) ==
  /\ work[w].at = "commit"
  /\ \E intelligence \in IF work[w].data = BuiltIn THEN {TRUE} ELSE BOOLEAN :
       /\ market' = Replaced(w, intelligence)
       /\ stored' = Append(stored, [run |-> work[w].run, before |-> work[w].before,
                                    intelligence |-> intelligence])
  /\ work' = [work EXCEPT ![w].at = "respond", ![w].doomed = {}]
  /\ UNCHANGED <<connector_vars, rate, admitted, reply, failures>>

\* The built-in engine stamps its suggestions with the first active model.
Stamp(w) ==
  IF work[w].data # BuiltIn THEN work[w].model
  ELSE IF work[w].list # <<>> THEN work[w].list[1].id ELSE BuiltIn

store_suggestions(w) ==
  /\ work[w].at = "respond"
  /\ Respond(w, [code |-> 200, model |-> work[w].model, stamp |-> Stamp(w),
                 data |-> work[w].data])
  /\ UNCHANGED <<connector_vars, rate, admitted, market, stored, failures>>

\* An exception or a crash: the open transaction is rolled back.  A malformed
\* answer does it while the suggestions are validated or their rows written.
abort(w) ==
  /\ work[w].at # "idle"
  /\ Fails
  /\ Respond(w, Answer(500))
  /\ UNCHANGED <<connector_vars, rate, admitted, market, stored>>

EngineStep(w) ==
  \/ set_expiry(w) \/ load_connectors(w) \/ skip_connector(w) \/ call_fails(w)
  \/ call_answers(w) \/ no_connector_left(w) \/ market_delete(w)
  \/ market_deleted(w) \/ market_commit(w) \/ store_suggestions(w)

EngineNext ==
  \/ window_ends
  \/ \E w \in Workers :
       \/ analyze_begins(w) \/ get_playbook_analysis(w) \/ redis_fails(w)
       \/ EngineStep(w) \/ abort(w)

AnalysisNext == (ConnectorNext /\ UNCHANGED engine_vars) \/ EngineNext

EngineSpec == EngineInit /\ [][AnalysisNext]_all_vars

\* A request that has begun goes on, and Redis expires its keys.
FairEngineSpec ==
  EngineSpec /\ WF_all_vars(window_ends) /\ \A w \in Workers : WF_all_vars(EngineStep(w))

-----------------------------------------------------------------------------
(* Properties.                                                             *)

\* RateLimited: between two ends of the window the limit lets through no more than
\* RATE_LIMIT_MAX_CALLS analyses, whoever asks at once and whatever fails.
RateLimited == admitted =< RateMax

\* WindowArmed: a count that does not expire is about to, unless the handler that
\* was to arm it has failed; a refused call never takes the expiry away.
WindowArmed ==
  \/ rate.count = 0 \/ rate.expires \/ failures > 0
  \/ \E w \in Workers : work[w].at = "expire"

\* LimitLifts: a window that is counting comes to its end, so that a caller who
\* was refused may try again; after a failure between INCR and EXPIRE it never does.
LimitLifts == rate.count > 0 ~> (rate.count = 0 \/ failures > 0)

\* PoweredWasAnswered: a response that names a model carries what this model has
\* answered, not the built-in engine's data nor another model's.
PoweredWasAnswered ==
  reply.model # BuiltIn => reply.data = reply.model

\* MarketReplaced: intelligence that was in the table before an analysis began its
\* DELETE is gone when that analysis has committed, whichever overlap.
MarketReplaced ==
  \A j \in DOMAIN stored : \A i \in 1..stored[j].before :
    stored[i].run \notin market

\* NewestKept: the intelligence of the analysis that committed last is in the
\* table; nobody removes it without putting his own, and a failed analysis
\* removes nothing.
NewestKept ==
  stored # <<>> =>
    LET newest == stored[Len(stored)]
    IN  newest.intelligence => newest.run \in market

\* EngineSafe: the limit, the answers and the market table, for any overlap of
\* analyses with each other and with the administration of the connectors.
EngineSafe ==
  /\ EngineTypeOK
  /\ RateLimited /\ WindowArmed
  /\ PoweredWasAnswered
  /\ MarketReplaced /\ NewestKept

-----------------------------------------------------------------------------
(* The inductive invariant behind EngineSafe.                              *)

\* AnswerInv: the loop over the connectors has no model until one has answered,
\* and then the data is the model's.
AnswerInv ==
  \A w \in Workers :
    /\ work[w].at \in {"expire", "load", "call"} => work[w].model = BuiltIn
    /\ work[w].model # BuiltIn => work[w].data = work[w].model

\* RunInv: requests have numbers of their own, and store intelligence once.
RunInv ==
  /\ \A w \in Workers : work[w].at # "idle" => work[w].run \in 1..requests
  /\ \A v, w \in Workers :
       v # w /\ work[v].at # "idle" /\ work[w].at # "idle" => work[v].run # work[w].run
  /\ \A i \in DOMAIN stored : stored[i].run =< requests
  /\ \A w \in Workers, i \in DOMAIN stored :
       work[w].at \notin {"idle", "respond"} => stored[i].run # work[w].run

\* TakesAway: what was stored before the DELETE of w and is still in the table is
\* in the snapshot of the DELETE, and then among what it takes away.
TakesAway(w) ==
  \A i \in 1..work[w].before : stored[i].run \in market =>
    /\ work[w].at = "deleting" => stored[i].run \in work[w].snapshot
    /\ work[w].at = "commit" => stored[i].run \in work[w].doomed

MarketInv ==
  /\ \A w \in Workers : work[w].before =< Len(stored) /\ TakesAway(w)
  /\ \A j \in DOMAIN stored : stored[j].before =< Len(stored)

\* The count bounds what the limit has let through.
EngineInv ==
  /\ ConnectorInv
  /\ EngineSafe
  /\ admitted =< rate.count
  /\ AnswerInv /\ RunInv /\ MarketInv

-----------------------------------------------------------------------------
(* What the repository says of the engine and the code does not do.        *)

\* StampIsAnswerer: schema and CHANGELOG.md:186, "uses active AI connector name as the
\* model attribution": the model on record for a suggestion has made it.
StampIsAnswerer ==
  reply.code = 200 => reply.stamp = reply.data

\* OneMarket: intelligence.py:876, "Store market intelligence": after each analysis the
\* table holds one analysis.
OneMarket == \A r, s \in market : r = s

\* UsableIsTried: intelligence.py:768, "Try each active AI connector until one
\* succeeds": no connector is skipped whose adapter has what it needs.
UsableIsTried ==
  \A w \in Workers :
    work[w].at = "call" /\ More(w) /\ Usable(Connector(w)) =>
      Tried(work[w].kind, Connector(w).config)

\* LimitAlwaysLifts: intelligence.py:743, "Try again in {ttl}s".
LimitAlwaysLifts == rate.count > 0 ~> rate.count = 0
=============================================================================
