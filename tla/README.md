# BankOfferAI: a TLA+ development

BankOfferAI recommends bank products to customers.  Its services share one
PostgreSQL database, a Redis cache and a few Kafka topics; what must hold of them
is mostly regulatory: no profiling without consent, no offers while the model is
suspended, every recommendation in the audit trail, no AI-suggested product on
sale that nobody approved, no customer notified after an opt-out.  This directory
models the parts of the program that have to keep those promises, checks them
with TLC and proves most of them with TLAPS.

Contents

1. The system: components, state, operations, interactions, hazards
2. The modules at a glance, and what could come next
3. The modules and how they correspond to the code
4. The runs: what each checks, its bounds, why they are enough
5. Fairness and deadlock
6. What is proved, and how
7. Where the code and its documents disagree
8. What is only model-checked, and what is not modelled

Source paths are relative to `src/`; `api/` stands for `services/api/`,
`routers/` for `services/api/routers/`.


## 1. The system

### 1.1 Components

**Notification router** (`services/notification/router.py`).  A process of its
own that consumes `notification.events`.  State: the Kafka offsets (position,
committed), the flag `_running`, the message in hand.  `run` polls up to 50
messages, hands each to `_handle_message` and commits once after the batch;
`_request_shutdown` clears the flag.  `_handle_message` validates the payload,
asks the preference service four questions (opted out? quiet hours? which
channel? cap reached?), dispatches to a channel adapter and records the
notification.

**Preference service** (`services/notification/preference_service.py`).  State:
`customer_preferences` (one row per customer: opt-out flag, preferred channel,
caps, quiet-hours window) and `notification_log`.  Each call opens a database
session.  Called by the router, and by the API for updates.

**Channel adapters** (`services/notification/adapters/`).  Push and e-mail look up
a token or an address and send; the lookups are stubs, so they refuse.  In-app
keeps, per customer, a Redis sorted set of notifications and an unread counter,
and a set of WebSocket connections per customer in memory.

**Offer serving** (`routers/offers.py`, `get_offers`).  No state of its own: it
reads customer features, kill-switch, consents and catalog in four sessions,
filters for suitability, scores (`_score_product`) and ranks
(`services/worker/ranker.py`), writes an audit record and answers.

**Suggestion workflow** (`routers/intelligence.py`).  State:
`ai_product_suggestions` (pending, approved, rejected, implemented, expired),
`market_intelligence`, and a rate-limit counter in Redis.  `analyze_and_suggest`
asks the active AI connectors one after the other until one answers, else a
built-in engine, replaces the market intelligence, expires stale suggestions and
inserts the new ones; `approve_suggestion` approves or rejects,
`delete_suggestion` deletes, `implement_suggestion` inserts the product in
staging, and `activate_staged_products` activates it after the cool-down.
`get_playbook_analysis` asks the connectors about one product.

**Product catalog** (`routers/products.py`).  State: `products`, keyed by
`product_name`, with a `product_id` that is not unique, and `product_economics`.
Create, update (renaming included), delete; performance figures.

**Consent flags and history** (`routers/compliance.py`, `api/audit.py`).  State:
the consent columns of `customers` and `consent_history`, which triggers make
append-only.  `update_consent` updates the flags, then writes history; the
onboarding wizard sets flags as well.

**Compliance endpoints** (`routers/compliance.py`).  Feedback on offers,
suitability confirmations, staff overrides, a risk register, and the kill-switch
(an append-only table whose latest row counts).

**Application forms and customer notifications** (`routers/workflow.py`).  State:
`application_forms` (pending, submitted), `notifications`.  `create_form` inserts
a form and, in a second transaction, marks the notification it answers as read;
`submit_form` stores what the customer filled in and, in a second transaction,
notifies the employee.  `submit_feedback` does the same for feedback, but swallows
a failure of its second half.

**Customer accounts** (`routers/customer_auth.py`, `routers/profiles.py`).  State:
`customers`, `customer_features`, `customer_auth`, `customer_profiles`, and a
Redis cache of profiles.  `register_customer` takes `MAX(customer_id) + 1` and
inserts three rows; login and SSO lookup set `onboarding_complete`; the wizard
writes consents, features and a profile; `get_profile` fills the cache, which
nothing invalidates.

**Connectors** (`routers/connectors.py`).  State: `connectors` (available,
pending, approved, active, disabled, rejected).  Configure, approve or reject,
toggle, delete, and suggestions by the AI that wait for an approval.

**Consent registry and regulatory sources** (`routers/consent_registry.py`).
State: five tables copied from a workbook, `consent_sync_log`, and
`regulatory_source_checks`.  A background task copies the workbook when its hash
is new, another fetches the regulatory web pages and compares hashes; both can
also be started on demand.  An administrator reviews reported changes.

**Webhook ingestion** (`routers/webhooks.py`) validates a delivery of the bank
and produces `bank.transactions`; the sender thread of its producer delivers.
The **transaction consumer and normaliser** (`data/kafka/consumers/`) reads that
topic, validates, converts and classifies, and logs the result; it publishes
nothing.

**API tokens** (`routers/api_tokens.py`), **authentication and staff login**
(`api/middleware/auth.py`, `routers/staff_auth.py`): who may call.

**Audit log** (`api/audit.py`).  `audit_log` appended to by a middleware and by
`write_audit_log`; failures are swallowed.

**Offer worker** (`services/worker/`): `profiler` and `ranker` are libraries the
API uses.  `main.py` imports classes none of its modules defines, so the worker
process cannot start.

**Data platform** (`data/`: Feast, dbt, Airflow), **machine-learning code**,
**frontend**, **deployment files**: declarative or numeric, without protocol
state.

### 1.2 Interactions

    AI providers ◀──ask── analysis ──suggest──▶ suggestion workflow ◀──review── staff
         ▲ active            │ rate limit              │ INSERT
     connectors ◀──admin── staff (Redis)               ▼
                                                    products ◀──edit── staff
                                                       │ read
    customer ──consent──▶ customers ───────────┐       │
        │  ▲ register, wizard │ history        ▼       ▼
        │  └── accounts  consent_history     get_offers ──▶ audit_recommendations
        │                                        ▲
        │            staff ──toggle──▶ model_kill_switch
        ├──feedback, forms──▶ workflow ──▶ notifications ──▶ employees
        └──preferences──▶ customer_preferences ◀──read── notification router
                                                            │        ▲
                               notification_log ◀──append───┘        │ poll/commit
                                                          notification.events

    bank ──webhook──▶ producer ──▶ bank.transactions ──▶ consumer, normaliser
    workbook ──sync──▶ registry tables        web pages ──check──▶ source checks

Most arrows are of one kind: a handler reads some rows in one statement or
session, decides, and writes others in another.  PostgreSQL runs at READ COMMITTED
and no handler takes a row lock before it writes, so what was read may have changed
by the time it is used.  That is what the models are about.

### 1.3 What is hard

* *Interleaving.*  Nearly every handler reads, awaits and writes in separate
  statements or sessions: two reads of a suggestion by `implement_suggestion`,
  the four reads of `get_offers`, the SELECT and UPDATE of `update_consent`, of
  `submit_form`, of `toggle_connector`, the preference checks and the send of the
  router, `MAX(customer_id) + 1` and the INSERT, a cache read and a cache write.
* *Overlapping transactions.*  Two syncs of the workbook, two checks of the web
  pages, two analyses: each long transaction deletes or updates rows the other one
  has written and not committed.
* *Crashes.*  Kafka offsets are committed after a batch; consent flags are
  committed before their history, forms before their notifications; INCR comes
  before EXPIRE.
* *Partial failure.*  A failed read of the kill-switch or the consents is logged
  and the request goes on; a failed audit write ends it; a failed history row or
  a failed send is logged and forgotten; a message that makes a consumer raise
  ends its process before the batch is committed; a web page that does not answer
  in time is taken for one whose hash is NULL.
* *Delivery.*  A lost acknowledgement makes the webhook's producer send a batch
  again; a flush may time out while the sender goes on, and the bank may call again.
* *Shutdown.*  The router's loop calls a blocking poll, a signal is a callback of
  the event loop; the transaction consumer's signal handler may run before the
  flag it clears is set.
* *Boundaries.*  Caps (per day, per week, active products), the cool-down, the
  confidence threshold, the age of a suggestion; the tiers of the scoring rules and
  the ends of the amount buckets; an empty catalog; a `product_id` two names share.

PROJECT.json lists these as `hazards`, each at the line where it bites, with the
properties that would notice.

### 1.4 The properties that make each component correct

| component | properties |
|---|---|
| router | no event lost; redelivery only by a crash; at most one send overtakes an opt-out; every event settles unless a message cannot be got past; it refines an at-least-once consumer |
| preference service | per-channel caps hold in the log |
| offer serving | consent, review flag, kill-switch and suitability of an answer held during its request; the audit record comes first |
| scoring and ranking | the best are offered, nobody with an age is left without, a feature moves the scores in its own direction only |
| suggestion workflow, catalog | an AI product was approved; an implemented suggestion was listed; the cool-down is kept |
| analysis, connectors | the rate limit holds and lifts; an answer is its model's own; the market table is replaced as a whole; an AI-suggested connector is in use only after an approval |
| consent ledger | a flag set through the API has evidence; an update touches its own flags only |
| forms, notifications, feedback | a submission answered 200 is announced; submitted data is replaced only by a racing request; notices stay within their bounds |
| accounts | an account is whole or absent; a refusal was due; a created account is stored; a stale cache entry goes; every registration is answered |
| consent registry | each table holds the rows of the last sync that copied its sheet; versions grow; the tables converge |
| regulatory sources | a replaced hash is reported as a change; a reported change is not taken back; a hash is lost to a timed-out fetch only; the page's hash is found in the end |
| transactions | at-least-once; a message that raises holds the topic rather than being skipped; the statistics are right; the webhook's order is kept but for repeated batches; an answered delivery is flushed |


## 2. The modules at a glance

In the order of what the program promises the customer and the regulator.

| | module | code | state |
|---|---|---|---|
| 1 | `NotificationRouter` implementing `AtLeastOnceConsumer` | router, preferences | checked, safety proved |
| 2 | `OfferServing` | `get_offers` and the handlers it races with | checked, proved |
| 3 | `ProductGovernance` | suggestion workflow, catalog | checked, proved |
| 4 | `ConsentLedger` | consents and history | checked, proved |
| 5 | `TransactionConsumer` implementing `AtLeastOnceConsumer`, `WebhookProducer`, composed by `TransactionPipeline` | consumer, normaliser, webhook | checked, safety proved |
| 6 | `Workflow` | forms, notifications, feedback | checked, proved |
| 7 | `CustomerAccounts` | registration, login, wizard, profile cache | checked, safety proved |
| 8 | `SourceMonitor` | checks of the regulatory sources | checked, safety proved |
| 9 | `ConsentRegistry` | sync of the workbook | checked, safety proved |
| 10 | `Connectors`, extended by `AnalysisEngine` | connectors, rate limit, analysis | checked, safety proved |
| 11 | `OfferScoring` | life stage, suitability, scores, ranking | checked, proved |

*Composition.*  `OfferServing` contains the handlers it races with as actions,
since they meet in committed rows only.  `TransactionPipeline` puts the webhook
and the consumer on one topic, and `AnalysisEngine` puts the analyses on the table
of connectors that administrators change meanwhile.  Both consumers of Kafka topics
refine the same `AtLeastOnceConsumer`.

*What could come next.*  The in-app inbox (sorted set, counter and WebSocket
connections), the API tokens, and the product economics.


## 3. The modules

Every definition that models code has an entry in PROJECT.json `map` with its
lines.  Operators named `X_Y` where `X` is an operation (`write_audit_Swallowed`)
are faulty variants of it: plausible bugs that TLC catches with one of the
properties.  No specification uses them.  PROJECT.json `mutants` has one for each
property of the runs; a property that is a conjunction of named parts has more of
them in its module, one for each part.  Definitions that state what the code does
*not* do stand at the end of a module under a heading that says so (section 7).

### AtLeastOnceConsumer

The abstract specification of a consumer of a topic: it knows how many messages
were produced, the set that was processed and the offset that is committed.
`Produce`, `Process(i)` for any offset, and `Commit(n)` only if everything up
to `n` was processed.  A processed message may be processed again.

### NotificationRouter

| code | model |
|---|---|
| `notification.events` | `topic`, a sequence of events; `Publish` |
| position and committed offset of the consumer | `position`, `committed` |
| the for-loop of `run` over the batch | `cursor` |
| the await a coroutine is suspended in | `pc` |
| `_running`; a signal asyncio has yet to dispatch | `running`, `signalled` |
| `customer_preferences`, `notification_log` | `prefs`, `notification_log` |
| `run` | `Restart`, `Poll`, `PollRaises`, `Commit`, `Exit`, `SIGTERM`, `request_shutdown`, `Crash` |
| `_handle_message` | `Invalid`, `is_opted_out`, `is_quiet_hours`, `resolve_channel`, `check_frequency_cap`, `dispatch`, `record_notification`, one per await |
| `opt_out`, `opt_in`, `upsert_preference` | `opt_out`, `opt_in`, `SetChannel`, `SetCaps`, `SetQuietHours` |

Each call of the preference service is an await with its own session, so
customers change preferences, the clock ticks and the process dies between any
two.  An exception of the preference service or of the commit leaves `run` and
ends the process; `Crash` stands for it.

Two kinds of message make the process raise whenever it meets them (`MayRaise`).  A
value that is missing, or no UTF-8 JSON (body "undecodable"), makes the
`value_deserializer` raise out of `poll` (`PollRaises`), which costs no crash: the
process starts again at the same offset, for ever.  An id or a channel the database
takes in no statement (`Refused`), or not into its column (`Oversized`), makes a
statement of the preference service fail each time: `Raises` disables the action of that
statement, and only `Crash` is left to the handler.  A payload that decodes but does not
validate is logged and settled (`Invalid`).

An adapter either returns or raises (`sent`), or there is none of that name.  The topic
has one partition: a poll of several is handled and committed as a whole, in the order of
its batches.  The quiet-hours window is a fixed set of ticks that a customer may turn on
or off; the day and the week of the caps are numbers of ticks.  `outcomes`, `attempts`, `sent`, `late_sends`, `crashes`
and `shutdowns` are history that no action reads.

`request_shutdown` is enabled only while `run` is suspended in an await of the
handler: poll and commit of kafka-python block the thread, and asyncio runs a
signal's callback when the loop regains control.

### OfferServing

`commits` is the sequence of committed states of the tables `get_offers` reads;
every handler that writes them appends one.  A request remembers at which commit
it was `born` and at which it `ended`: `born..ended` are the states it lived
through, and a property such as "profiling consent was in force during the
request" is a statement about that interval.  Without the history of commits the
only statement available would be about the state at the end, which is false
even of a correct handler.

| code | model |
|---|---|
| features and customer row (565-579) | `fetch_features`: 500, 404, or the risk profile with its default |
| kill-switch (582-601) | `check_kill_switch`: suspended answer, or live, or read failed and `blind` to it |
| consents and profile (604-680) | `check_consent`: `Enforce` on what was read, or on the defaults; 500 when the profile cannot be built |
| catalog, suitability, ranking (688-787) | `load_catalog`: the active rows that have an id (`OfferCatalog`), or the hardcoded products when there is no active row or the read fails (`OfferDefaults`) |
| audit insert and answer (795-850) | `write_audit` |
| other handlers | `register_customer`, `submit_onboarding`, `update_consent`, `toggle_kill_switch`; `ensure_table`, `create_product`, `update_product`, `rename_product`, `delete_product`, `activate_staged_products` |

`blind` records the reads that failed; the properties say what holds unless they
failed, and the documented claims (section 7) what happens when they do.
Scoring and ranking are any choice of at most `TopN` suitable products: no
property depends on which.

`products` is keyed by name, and any number of rows may have one product_id, or
none.  `get_offers` builds its map of risks and its set of credit products by
product_id: `Last` is the row of an id that the query returns last, in an order nothing
fixes, and decides the risk of all of them; one credit product makes credit products of
all (`IsCredit`).  `check_suitability` is asked with these, as the code asks it.  So
`ServedSuitable` says that an offered row, or another active one of its id, was of a risk
the customer could bear, which is its own risk when its id is its own; that it should
always be its own is `OwnRiskRespected` in section 7.

### ProductGovernance

`analyze_and_suggest` and `implement_suggestion` are one action per statement,
since under READ COMMITTED each statement sees what others committed by then;
the single-statement handlers are one action each.

| code | model |
|---|---|
| `ai_product_suggestions` | `suggestions`, ids with a status, `approved_by` and an age; "absent" and "deleted" are ids without row |
| `products` | `products`, by name, with `origin`, the name its id was made from, `ai` (the id starts with prod_ai_), `active`, age since `updated_at` |
| normalisation of a name into a product_id (1114) | the constant function `Slug`, not injective |
| `analyze_and_suggest` | `expire_stale`, `check_duplicate`, `insert_suggestion` |
| `approve_suggestion`, `delete_suggestion` | the actions of those names |
| `implement_suggestion` | `fetch_suggestion`, `check_status`, `check_cap`, `check_exists`, `mark_existing`, `publish` |
| `activate_staged_products` | the action of that name, all ready rows at once |
| `products.py` | `create_product`, `update_product`, `rename_product`, `delete_product`; update and delete address rows by product_id and so all rows that share it |

Ages are counted in ticks and saturate one past the limit they are compared
with, which distinguishes all the code distinguishes.  Simplifications: one
suggestion per analysis (more are the same loop again); hand-chosen ids do not
start with `prod_ai_`; names are not among the twelve canonical ones that
`_ensure_table` gives another id; the rate limit of `/analyze` and the calls of
the model providers are outside.  `listed_once` and `approved_once` are history.

### ConsentLedger

One customer's flags and the ledger.  `update_consent` is `fetch_old` (SELECT),
`update_flags` (UPDATE and commit), and `write_consent_history` or
`write_consent_history_fails` for each changed flag, each its own transaction;
`Crash` drops every call in flight.  `submit_onboarding` writes flags and no
history.  `given` and `lost` are history: the values a flag had or got from
anywhere but a body of `update_consent` that names it, and the rows that were not
written.

### TransactionConsumer, WebhookProducer, TransactionPipeline

`TransactionConsumer` is `data/kafka/consumers/`: the consumer's loop and the
normaliser.

| code | model |
|---|---|
| `bank.transactions` | `topic`, a sequence of messages; a message has a body (no value, undecodable, JSON null, a record), the set of fields it carries, an amount in cents, a currency and a category code |
| offsets, batch in hand, `_running`, statistics | `committed`, `position`, `cursor`, `running`, `stats` |
| `run` | `Launch` (signal handlers, constructor), `Connected` (sets `_running`), `Poll`, `Handle`, `Raise`, `Commit`, `Exit`; `stop` is the signal handler, `Crash` the end of the process |
| `_handle` | `Validates`, `Raises`, `Count` |
| `normalize` | `convert_to_usd` (with its rounding), `bucket_amount`, `map_category` |

Here the handler of a signal is a real one (`signal.signal`): `stop` may happen at
any point, in a blocking poll too, and also between the installation of the handler
and the assignment of `_running`.  Two things leave `_handle` as an exception: a
message without a value, whose length is asked for, and an amount that `quantize`
refuses (`Largest`).  `Raise` ends the process with nothing of its batch committed.

`WebhookProducer` is `routers/webhooks.py` with the producer it uses.  One request
at a time is refused, or parsed and sent transaction by transaction into the buffer
of the partition its customer's key belongs to (`pending`), flushed and answered; the
bank may send a request again.  The producer is the one of `webhooks.py:26-32`: not
idempotent, with retries, and with one request in flight.  So the sender thread takes a
batch of any number of messages from the head of a partition's buffer, which the broker
stores as a whole or not at all (`Store`): it is done with it (`Deliver`), sends the same
batch again, whether it was stored or not (`Repeat`, up to `Retries` times), or gives it up
(`Drop`).  A flush may time out; the process may die with its buffers.  One assumption
about the broker: a copy it has not stored when the producer stops waiting for it is never
stored.  `serials` numbers the sends, so that the order in the topic can be compared
with it.  `TransactionPipeline` puts both on one topic, to which others publish as well;
`topic` is one of the partitions (`Here`), the one the consumer reads.

### Workflow

A request is a record with the step it is at; each action is one statement or one
commit of `create_form`, `submit_form`, `mark_notification_read`, `mark_all_read`
or `submit_feedback`.  `Fail` is a failing transaction (answered 500, except in the
second half of `submit_feedback`, which swallows it), `Crash` the end of the
process.  `update_form` does not ask for the status again, as the code does not.
`racers` is history: for each form the requests that were past the status check when
it was first submitted.

### CustomerAccounts

| code | model |
|---|---|
| `customers`, `customer_features`, `customer_auth`, `customer_profiles` | `customers`, `features`, `auth`, `profiles` |
| Redis `profile:<id>` | `cache` |
| `register_customer` | `Check` (the SELECT of the e-mail), `Alter` (the ALTER TABLE), `Number` (MAX + 1), `Create` or `Refuse`; `Lose` when connection or process is lost |
| `login_customer`, `sso_lookup` | `Login` |
| `submit_onboarding` | `WizardInFull`, `WizardInPart` |
| `get_profile` | `Get`, `Select`, `Set`, `GiveUp`; `Expire` is the time to live |

Every handler of `customer_auth.py` begins with `ALTER TABLE customers ADD COLUMN IF
NOT EXISTS ...`.  In PostgreSQL that takes an ACCESS EXCLUSIVE lock, which is held
to the end of the transaction although there is nothing to add.  By this accident
of the code `MAX(customer_id) + 1` is safe; a handler that is inside the lock from
its first statement is one action.  The SELECT of the e-mail comes before the
lock, so two registrations of one address can both pass it, and the UNIQUE
constraint refuses the second with 500.

### ConsentRegistry

`_do_sync`, by the background loop and on demand.  A sync takes the hash of the
file (`BeginSync`), compares it with the log and reads the workbook (`CheckAndRead`),
chooses a version (`Plan`), then for every sheet that has rows deletes the
table (`DeleteBegins`, `DeleteEnds`) and inserts (`Insert`), and commits with its
log row (`CommitSync`).  Two statements per DELETE are needed for READ COMMITTED: it sees the rows
that were committed when it began, waits for a transaction that has deleted one of
them, and never sees what that one inserts.  An INSERT into a table with a unique
code waits for an uncommitted row with its code and fails on a committed one.

What keeps the registry whole under overlapping syncs is the unique code of
`consent_texts`, the sheet copied first, under the precondition
`SharedCodeAssumption`: some code is in every edition of that sheet.  Without it two
syncs could leave the union of their rows.  An edit always makes a new hash: an
edition that comes back is left out.  A row of a sheet is its code; the order of
the rows within one sheet, and with it the deadlocks two INSERTs of the same sheet
could run into, is abstracted.

### SourceMonitor

`_check_all_sources`, by the background loop and on demand, is one transaction over
all its fetches: `FetchAnswered`, `FetchFailed` or `FetchTimedOut`, `Select` of the row
of the page, `Write`, and at the end `Commit`.  The two failures differ: the handler
tests the text of the exception, which is empty for a timeout of httpx, so that a
timed-out fetch passes for an answer with the hash NULL and is compared and written like
one.  `own` holds what a check has written and not
committed; these rows are locked.  A write waits for the lock (`Locked`) and is
then applied to the row as it is *by then*, though it was chosen by the row the
SELECT had seen.  Two checks may read `regulatory_sources` in different orders and
deadlock; PostgreSQL aborts one (`DeadlockBroken`).  `review_source_check` sets
"ok" whatever the status is.  The body of an error page is hashed like any other.
`timeouts` is history: the pages whose fetch timed out in this check.

### Connectors, AnalysisEngine

`Connectors` has one action per handler of `routers/connectors.py`, and more where
there are more statements: `toggle_select` and `toggle_update`, which overwrites
whatever the status has become; and `ai_suggest_connectors`, which looks for a row of
each name in turn (`suggest_select`), and whose INSERTs become visible together
(`suggest_commit`) or not at all (`suggest_fails`).  A deleted row keeps its id with
the status "deleted".  `vetted` and `refused` are history.

`AnalysisEngine` extends it with `analyze_and_suggest` and `get_playbook_analysis`:

| code | model |
|---|---|
| `guardrail:analyze_rate` in Redis | `rate`, a count that expires or not; `analyze_begins` (INCR), `set_expiry` (EXPIRE), `redis_fails` (the request proceeds), `window_ends` |
| the active connectors, loaded once | `load_connectors`, in any order, or by name for the playbook |
| the loop over them | `skip_connector`, `call_fails`, `call_answers`, `no_connector_left`; `Tried` is the test for a credential, which differs between the two handlers |
| `market_intelligence` | `market_delete`, `market_deleted`, `market_commit`: a DELETE under READ COMMITTED as above |
| `ai_model_used` | `Stamp`: the built-in engine's suggestions bear the name of the first active model |

What happens to the suggestions afterwards is in `ProductGovernance`.

### OfferScoring

The rules of `classify_life_stage`, `_check_suitability_dynamic`, `_score_product`
and `rank_offers` as functions of a customer's features.  A rule is a condition, a
boost, a penalty and a reason.  There is an operator for each block of
`_score_product`, from `OwnedRules` to `AiRules`, which gives the rules that apply, in
the order of the code; `AllRules` puts them one after the other, `Boost` and `Penalty`
sum them, `Relevance` clamps the result.  `AnswerTo` scores the suitable products at
their positions in the catalog; `BestFirst` sorts positions, equals in their order as
Python's sort does, and `_apply_type_diversity` goes through the sorted offers as the loop
of the code does.  A customer whose age is NULL, as `register_customer` leaves it, or
negative is `Unprofiled`: `build_profile` raises, and the answer is `Failed`, a 500.
Relevance counts in hundredths, which is exact since the code rounds before it
compares.  The state is a customer whose features change one at a time, so that
"more of this alone never lowers that" is an action property.

### MC modules

Each `MC` module gives the constants that are functions, records or sequences, and
symmetry where it is used; the rest is in the `.cfg` files.


## 4. The runs

Times are for two workers on two cores.  Several properties are conjunctions of
named parts (`ConsumerSafe`, `PipelineSafe`, `WorkflowSafe`, `AccountsSafe`,
`RegistrySafe`, `RowsKept`, `EngineSafe`, `RankingSound`, `FeaturesCountRight`);
each part has its own comment in the module.

### router_delivery: TypeOK, CommittedIsSettled, RedeliveryNeedsCrash, OneLateSend, ImplementsAtLeastOnce, EventsSettleUnlessPoison

Up to 3 events, batches of up to 2, one crash, one shutdown, opt-outs between any
two awaits.  Three events and batches of two give a batch that ends inside the
topic, one message before and one after it; a crash can fall into the first batch,
between handling and commit, or into the second.  A second crash repeats the first
from a larger offset.  The run shows that nothing is committed before it is handled,
that a shutdown never duplicates a send, that an opt-out is overtaken by at most the
one message that was already past the check, and that the router refines
`AtLeastOnceConsumer`.  The payloads are valid, invalid or undecodable, and one
customer's id is longer than its column: either kind of message the router cannot get past
may be before, behind or in one batch with good ones.  Where none is in the topic every
event is handled and committed in the end; where one is, nothing else is promised, and
still nothing is committed unhandled or sent again without the process having died.

### router_preferences: ChannelCap

Caps of a day and a week smaller than the number of events, two channels, quiet
hours, and changes of all three under the handler (650 000 states, a minute).  The
check comes before the dispatch and the count after it; since the router handles
one message at a time nothing can come between, and the log never exceeds the
largest limit the customer can have had.

### offer_window: TypeOK, ServedWithConsent, ReviewUnlessConsented, ServedWhileLive, ServedSuitable, AuditedBeforeServed

One request against up to two commits by other handlers and one failing database
call; two names and two product ids; three kinds of customer.  A row has one id or none,
and is of low risk and a credit product, or of high risk: so two names may share the id
and differ in risk, be it from the start, by the backfill of missing ids, or by an edit,
a deletion or a renaming between the reads.  Two commits are the smallest number with
which a condition can turn true and false again during a request, or two conditions can
be true one after the other but never together.  Requests read what other handlers write and none writes what another reads, so a second
request adds nothing; the audit record names its request.

### governance: TypeOK, AiProductWasApproved, ImplementedWasListed, StagedUntilCooldown

Two suggestion ids, two names, one edit by hand, one call of
`implement_suggestion` and one analysis at a time, cap 1, with reviews, deletions,
expiry and activation at every point.  Two ids with one name are enough for a
duplicate, two names for a rename onto another; one edit for a product created,
renamed or deleted between two statements of the call.  Any number of calls at a
time is covered by the proofs.

### consent_ledger: TypeOK, ConsentEvidenced, OnlyNamedFlagsChange

Three flags, two updates at a time and three in all, the wizard, one failed row or
crash.  Three updates let one be overtaken by two others.

### transactions: ConsumerSafe, PipelineSafe, ImplementsAtLeastOnce, SettlesUnlessPoison, StopsWhenRunning

Up to four messages in the topic, two partitions, one crash and one signal of the
consumer, one retry of the producer (three in the code: one repeats a batch before and
after it was stored, and the proof is for any number).  The run is three corners of the
state space, chosen at the start (`corner` in the MC module), 112 000 states together, 45
seconds:
* *webhook*: two requests of two transactions, no consumer running and no other
  messages.  The second request may be the bank's retry of one that was answered 500 or not
  at all, while batches of the first are still being repeated; a batch of two stored
  twice gives s1 s2 s1 s2, and four messages are what that takes;
* *both*: one request, and all the consumer does;
* *consumer*: no request, up to three messages of others, with one of each fate: one
  without a value and one whose amount is too large raise, one is JSON null, and two
  are on both sides of a bucket's end.  A good one shares a batch with one that
  raises, before or after it.

The webhook touches the consumer by the topic alone, so what the corners leave out is
two requests, or a request and messages of others, while the consumer runs; for safety and
refinement the theorems
cover those.  One payload has both transactions in the consumer's partition, the
other the first elsewhere, whose batch a flush has to wait for as well.

### workflow: WorkflowSafe, OverwriteNeedsRace

Two requests at a time (under symmetry), one form, three notifications, one
feedback; any transaction may fail and the process may die at any time.  Two
requests can race on one form, and slots are used again, so later requests meet
what earlier ones have left.  Three notifications hold those of two racing
submissions and of a feedback.

### accounts: AccountsSafe, CacheCatchesUp, EveryCallAnswered

Two registrations over three e-mail addresses, one of them taken by a seeded
customer whose id is not the number of customers; two readers of the cache and one
wizard that replaces a profile.  Two registrations of one address race past the
check; a wizard between the SELECT and the SET of a reader leaves a stale entry,
and the second reader one more.

### consent_registry: RegistrySafe, Converges

The background loop and one manual sync, three editions that share one code, the
second of which has an empty sheet; one unique table and one that is not; one
failure.  Two overlapping syncs of different editions are the hazard; three
editions let an old one commit after the file has changed twice.

### source_monitor: ChangeNoticed, RowsKept, Detects

The background loop and one manual check, two pages and two possible orders of the
list, two changes of a page or the list, one fetch that fails or times out or one
failed transaction (800 000 states, two minutes).  Two pages in two orders are what a deadlock takes; a page
that changes and changes back can be fetched by two checks in either state.

### analysis: EngineSafe, SuggestedWasVetted, LimitLifts

Two workers and three requests of any kind, over two connectors and a suggested
third one, with a limit of one analysis per window and one failure (632 000 states,
a minute and a half).  A limit of one is reached by the second analysis; three
requests let two analyses overlap while the connectors change, or a refused one be
followed by one in the next window.

### scoring: RankingSound, FeaturesCountRight

36 customers, and one as `register_customer` leaves him, on whom two changes of a
feature are made, against the twelve built-in products and one published suggestion of
each of six types (16 000 states, a minute and a half).  The values of a feature lie on
both sides of every threshold of the rules; an age may also be NULL or negative, and
become so.


## 5. Fairness and deadlock

* **Router** (`FairSpec`): weak fairness of `RouterStep` (restart, poll, handle,
  commit, exit).  That a process which ends is started again is an assumption about
  its deployment: the repository does not deploy the router or the transaction consumer
  (`docker-compose.yml` has the API, its databases and a proxy, with `restart:
  unless-stopped`; the Helm charts have templates for the API and its jobs; the kustomize
  base has a namespace and the names of the topics).  A
  coroutine that can continue is continued, since the process runs no other that could
  starve it.  Strong fairness of `request_shutdown`: its callback is in the
  queue of the event loop, which is reached at every await but not between a
  blocking poll and the next, so it is enabled again and again rather than all the
  time.
* **Transactions** (`PipelineSpec`): weak fairness of the consumer's steps, under the
  same assumption.  Nothing is assumed of the webhook.
* **Registry, monitor**: weak fairness of the start of the background loop, whose
  `while True` sleeps and catches what a run raises, and of every step of a sync: a
  statement that waits for a row is granted it when the other transaction ends, and
  there are finitely many manual ones.  The steps of a check are strongly fair: the
  lock of a row is granted in the order it was asked for, and the other contenders
  are checks that begin a day later.
* **Analysis**: weak fairness of `window_ends` (Redis removes a key whose time is
  over) and of the steps of a request (a provider's call has a time limit).
* **Accounts**: weak fairness of a registration that has begun, of a reader's
  statements and of the expiry of an entry; strong fairness of `Alter`, since
  PostgreSQL grants a table lock in the order it was asked for.

Nothing is assumed of customers, administrators, producers, the clock or the
operator; crashes, failures and signals are finitely many because of their bounds.

`CHECK_DEADLOCK FALSE` stands in the configurations whose system may come to rest:
the topic is at its bound and consumed, all requests are answered, all updates are
made.  `ProductGovernance`, `ConsentRegistry`, `SourceMonitor` and
`CustomerAccounts` never rest, and their runs check for deadlock.


## 6. What is proved

Every theorem holds for all values of the constants under the assumptions named
in its module (caps are naturals, faults are bounded by a natural, sets that must
not be empty are not, and so on).  TLC evaluates those assumptions in every run.

**NotificationRouterProofs.**  `RouterTypeCorrect`, `RouterCommitsSettled`,
`RouterRedelivery`, `RouterOneLateSend`, `RouterChannelCap`,
`RouterImplementsAtLeastOnce`.  None of the properties is inductive: that a committed
offset is settled depends on the batch in hand, that a message was sent at most once
more than the process has crashed on where in the batch the router is.  `IInv` adds
* `OffsetsInv`: committed <= cursor <= position <= length of the topic, equalities
  between batches, and everything up to the cursor is settled;
* `LocalsInv`: past `resolve_channel` there is an effective channel;
* `AttemptsInv`: a message not yet handled in this incarnation was sent in earlier
  ones only, at most once in each; a poll that raises sends nothing and so costs none;
* `LateSendsInv`: while the message in hand is past the opt-out check, its customer
  has no late send yet, which leaves room for exactly one;
* `CapsInv`: no customer has a limit above the largest there is, and while a message
  is past the cap check its channel has room for one more entry under it.  Time
  only takes entries out of a window, and `record_notification` alone adds one, so
  that entry fits.  `LargestCapAssumption` says that the limits have a largest.

The proofs have a step per action and one per conjunct it can disturb.
Refinement: each step of the router is `Produce`, `Process`, `Commit` or a stutter
of the abstract consumer, by `OffsetsInv` in the case of `Commit`.

**IntelligenceProofs.**  Of `ProductGovernance`:  `GovernanceTypeCorrect`, `GovernanceApproved`,
`GovernanceListed`, `GovernanceCooldown`.  That an AI product was approved is not
inductive because of the calls in flight: a call past `check_status` relies on an
approval that may have been withdrawn since.  `GovernanceInv` states that ids are
drawn once, so that a suggestion keeps its name (`IdsDrawnOnce`); that approvals
and insertions are remembered (`ApprovedIsRemembered`, `ListedIsRemembered`); and
what a call at each step relies on (`CallsRelyOn`): its name is that of its
suggestion, the suggestion was approved at some time if the call is past its
status check, and a product_id it found in the catalog was inserted once.  This holds for
any number of concurrent calls, reviews and edits, and for any `Slug`.

Of `AnalysisEngine` and the `Connectors` it extends: `EngineCorrect` (`EngineSafe`) and
`SuggestedVetted` (`SuggestedWasVetted`), by `EngineInvariance`.  That a connector the AI
suggested is in use only after an approval depends on the toggles under way, which
write a status chosen by a SELECT made long before: `TogglesKnow` says that what they
found had been approved, and an approval is never taken back.  `EngineInv` bounds what
the limit has let through by the count in Redis, whatever fails.  Its part about the
market table is that two analyses which overlap cannot leave rows from before either:
`RunInv` says that analyses have numbers of their own and store under them once;
`TakesAway` that rows stored before the DELETE of an analysis began and still in the
table are in its snapshot, and once the DELETE has ended, among the rows it removes.
Another analysis can take them first, never bring them back.  The number of workers,
connectors, requests and failures is arbitrary.

**ConsentLedgerProofs.**  `LedgerTypeCorrect`, `LedgerEvidence`, `LedgerOwnFlags`.
Evidence for a value of a flag (a source outside `update_consent`, a row, a row
under way, a lost row) is monotone: no step takes it away, since a row under way
ends up written or lost.  The invariant is that the present value of every flag
and the value each update has read have evidence: an update that writes what it
has read changes nothing and writes no row, and is covered by the evidence of
what it read.

**OfferProofs.**  Of `OfferServing`: `OfferTypeCorrect`, `OfferConsent`, `OfferReview`,
`OfferLive`, `OfferSuitable`, `OfferAudited`.  The properties speak of answered
requests; `OfferInv` says of a request under way what it has established by each of
its steps over the span of commits it has lived through: after the features, that
the customer could bear the risk it goes by at some commit; after the kill-switch,
that the model was live at one; after the consents, that profiling was granted at
one, and that at a commit not before the one of the risk the customer was as little
fragile as it believes; after the catalog, that each offer was active at a commit
not before those, and that of the rows with its id one was of a risk the customer could
bear (`SuitableAt`).  Nothing is assumed about ids: any number of rows may share one, and
have none.  The span only grows and commits never change, so what is
established stays so; the last commit belongs to the span of every request under
way, which makes each read establish its part.  The order of the commits matters:
`ServedSuitable` would be weaker, and its proof shorter, if the risk could have been
read after the product.  The audit part says that request r has no record until it
is served and exactly one from then on.

Of `OfferScoring`: `RankingCorrect` (`RankingSound`) and `FeaturesCorrect`
(`FeaturesCountRight`), for any catalog of products with ids of their own, any customers,
values of features and bounds of the ranker.  `AgedAreOffered` also needs
`DepositAssumption`, a precondition the catalog of `offers.py` meets: the savings deposit
is in it, bears a low risk and is no credit product, and the threshold is at most 0.20.
The invariant, `ScoringInv`, is short: the answer is the one to the present customer.  The
work is in the functions.

* *Ranking* (`RankedOffers`).  `BestFirstSorts`: sorting permutes the candidates and
  leaves no two in the wrong order.  `DiversityKeeps`, by induction over the prefixes of the
  sorted list: the kept offers are in order, at most `MAX_SAME_TYPE` of a type, and what
  was passed over had so many of its type before it, at least as relevant.
  `TruncatedKeeps` adds the cut, and with it the case that `MAX_OFFERS` are as good.
* *Scores.*  Boosts and penalties of two groups one after the other add up
  (`SumConcat`, `BothWorth`), so a change of features that makes no group worth less makes
  none of the whole worth less (`AllNoWorse`); clamping is monotone (`MoreRelevant`).
  One lemma for each feature goes through the thirteen groups: `OwnsCountsAgainst`,
  `CashCounts`, `RiskCountsForInvestment`, `RiskCountsAgainstSafety`.
  `DependentsUnused` shows that without the family's consent customers who differ in
  their dependents only have one life stage, the same rules and the same answer.
  `DepositScored` shows that the deposit suits everybody and reaches 0.20 whatever the
  rules take off.

`SumOf` and `_apply_type_diversity` are defined over prefixes.  The induction theorems of
the library take an operator and cannot be used here; `NatsInSet` stands in for them: a
set with 0 in it, and with n + 1 for every n in it, has every natural.  It follows from `<`
being well-founded, and is used with the set of the lengths for which the claim holds.

**TransactionPipelineProofs.**  `PipelineCorrect` (`ConsumerSafe`), `WebhookCorrect`
(`PipelineSafe`) and `PipelineImplementsAtLeastOnce`, all of `PipelineSpec`.  On the
consumer's side the invariant speaks of everything before the cursor: the offsets
are in order (`OffsetsInv`), nothing that was handled raises (`PoisonInv`), something
handled beyond it implies a fault (`FaultInv`), the statistics count the messages from
where the process started to the cursor by their class (`StatsInv`, and `BuildInv`:
nothing while the consumer is being built), and what was normalised is in the bucket
of its amount (`NormalizedInv`).  On the webhook's side serials are drawn in
order and bounded by the requests (`RequestInv`); what was counted has been drawn, and
what was answered is not buffered (`AnswerInv`).  `OrderKept` is not inductive: whether
what is stored next comes in order depends on the batch that is to be sent again.  `Line`
relates the topic, the buffer of its partition and the size of that batch: the buffer is in
the order of the sends (`Rising`); what the topic has was sent before everything
buffered, or is a copy of a message of the batch (`Ahead`); and in front of a copy there
are copies of the messages before it in the batch (`Whole`), so that storing the batch once
more puts a copy of each behind the later ones, which is what `OrderKept` asks for
(`StoredLine`).  Sending, giving up, a crash and the messages of others have a lemma each.
Sizes of batches, partitions and retries are arbitrary.  To the consumer each step of the
pipeline is a step of its own, or one that appends a batch to the topic, or nothing
(`Move`), which is how its invariant and its refinement carry over.  `BucketsMonotone` needs that rounding and integer
division are monotone.

**WorkflowProofs.**  `WorkflowCorrect` (`WorkflowSafe`) and `OnlyRacersOverwrite`
(`OverwriteNeedsRace`).  `NoticesBounded` is not inductive: a request that has
stored a submission has its notification still to come.  `TallyInv` therefore counts
for each form the notifications there are and the requests past their check
together, and bounds the sum by the number of racers; a request that notifies moves
from one summand to the other, and none joins once the form is submitted.
`FeedbackInv` does the same for a feedback: it has been reported, or one request is
about to, never both.  `NoticesInv` and `CallsInv` say that notices and requests
refer to rows that exist and what an answer of 200 relied on.

**CustomerAccountsProofs.**  `AccountsCorrect` (`AccountsSafe`) and
`IdsNeverCollide`: the id a call is about to insert is always free.  The invariant
is that at most one call is inside the lock (`OneHolder`) and that the id it has drawn
names no customer (`CallOK`): nothing that is done without the lock stores one, and
the INSERT is made before the lock is given back.

**ConsentRegistryProofs.**  Of `ConsentRegistry`: `RegistryCorrect` (`RegistrySafe`), by
`RegistryInvariance`.  Nothing keeps two syncs apart; the proof makes explicit what the
unique code does under `SharedCodeAssumption`.  The INSERT into the first table waits
for an uncommitted row with the shared code and fails on a committed one, so at most
one open sync has passed it: that sync is the holder (`HolderInv`), and whatever is in
the tables it has copied is covered by its DELETEs, so that its commit leaves its own
rows only.  Everybody else has at most snapshots of tables and rows it has taken away.
`TakenWhole` says that these are all or nothing: they are rows of logged syncs, and if
any of them is still in the table then they are all there is in it; a commit of the
holder puts in rows of a version and caller no earlier snapshot contains.
`SyncPlaces` keeps the order of the sheets (the first is never passed over, since it is
never empty).  `VersionInv` keeps what the version of a sync is compared with, and that
the log has a highest version, so that MAX + 1 exists.  `VersionsGrow` follows.

Of `SourceMonitor`: `MonitorNotices` (`ChangeNoticed`) and `MonitorKeeps`
(`RowsKept`).  Both are about the step in which a check commits, long after it has
read and written.  `MonitorInv` says of each row a check has written and not
committed that it is locked by this check alone, and that it still *follows* the
committed row: it is the row under another status, but no change made "ok", or a
change away from the hash on record, or it was written for want of a row; and that it
has no hash only if the fetch of its page timed out in this check (`PlaceInv`, `OwnInv`),
or there was none on record.  The committed row moves under a lock only by its holder's
commit, so what followed it when it was written does so at the commit.

Outside the reach of the prover, and left to TLC: liveness under fairness and
`ENABLED`.  No module here declares a RECURSIVE operator; recursion over sequences is
written as a recursive function over the lengths of their prefixes.


## 7. Where the code and its documents disagree

These are statements of the repository, or of a comment beside the code, that the
code does not keep.  Each is a definition at the end of its module, under the heading
that says so.  The ones with a configuration of their own are refuted by
`tlc -config <cfg> <MC module>`; the others by putting the name in place of the
properties of the run named, with the change of a constant where one is given.  No
run of PROJECT.json checks them.

Notification router:

| definition | refuted by | statement | what the code does |
|---|---|---|---|
| `ShutdownStops` | MCRouterShutdown.cfg | `router.py:80`, `run` "Blocks until a shutdown signal is received" | an idle router never awaits, so the callback of the signal never runs |
| `QuietHoursDefer` | MCRouterQuietHours.cfg | `router.py:125` logs "deferring" | the message is committed with its batch and gone |
| `CustomerCap` | MCRouterCustomerCap.cfg | `preference_service.py:184`, "the customer's daily and weekly caps" | caps are counted per channel |
| `EveryEventSettles` | router_delivery | `router.py:111-114`, a payload that cannot be used is logged and skipped | a value that is no UTF-8 JSON raises out of `poll`, and one the database refuses out of the handler: the process starts again at its offset for ever |
| `LoggedWasSent` | router_delivery | `preference_service.py:223`, logged "after a notification is successfully sent" | a failed send is logged too |

Offers:

| definition | refuted by | statement | what the code does |
|---|---|---|---|
| `NoConsentNoOffers` | MCOfferConsent.cfg | `scripts/schema.sql:532`, "No consent = zero offers." | when the consents cannot be read, the defaults grant profiling |
| `KillSwitchStops` | MCOfferKillSwitch.cfg | `BankOffer_AI_Presentation.html:706`, "No new offers generated until re-enabled" | a failed read of the switch serves offers |
| `DeactivatedIsGone` | MCOfferDeactivated.cfg | `BankOffer_AI_Presentation.html:707`, "removed from all future recommendations" | with no active product the hardcoded ones are offered |
| `OwnRiskRespected` | MCOfferDuplicateId.cfg | `scripts/schema.sql:529`, "Hard MiFID II suitability filter blocks mismatched risk levels before scoring." | risks are looked up by `product_id`, which two rows may share: a product is judged by the row that comes last |
| `DeclaredRiskRespected` | offer_window | `scripts/schema.sql:529`, mismatched risk levels are blocked | the filter reads `customer_features.risk_profile`; the wizard writes `customers.risk_profile` and `customer_features.risk_tolerance` |
| `Pseudonymised` | offer_window | `offers.py:841`, "return external_id" | the kill-switch answer carries the customer id |
| `AgeHasDefault` | scoring | `offers.py:665`, `features.get("age", 30)`, a customer without an age counts as 30 | the column is there and NULL, so the default is not taken; `int(None)` raises and a newly registered customer is answered 500 |
| `ExplanationBlind` | scoring | `offers.py:202`, family data "excluded unless family_context_consent granted" | the explanation mentions dependents without the consent |

Suggestions, connectors, analysis:

| definition | refuted by | statement | what the code does |
|---|---|---|---|
| `DualApproval` | MCGovernanceDualApproval.cfg | `CHANGELOG.md:135`, "Different admin must implement vs. originally approve" | approver and status are read by two statements; an approval in between lets one administrator do both |
| `DeactivatedStaysOff` | MCGovernanceDeactivated.cfg | `BankOffer_AI_Presentation.html:707` | an AI product deactivated by hand looks like a staged one and is activated after the cool-down |
| `OnlyApprovedPublished` | governance | `intelligence.py:1068`, "Only approved suggestions can be implemented" | a suggestion rejected after its status was read is published |
| `CatalogCap` | governance | `BankOffer_AI_Presentation.html:773`, at most 50 active products | staged products are not counted, and exceed the cap when activated |
| `StagingIsServed` | governance | `BankOffer_AI_Presentation.html:780`, a 24-hour staging period | an edit by hand activates a staged product |
| `ExpiredIsFinal` | governance | `BankOffer_AI_Presentation.html:761`, "removed from queue" | an expired suggestion can be approved |
| `NoDuplicatePending` | governance, `Analyses = {a1, a2}` | `intelligence.py:900`, "skip duplicates" | two analyses at a time store one name twice |
| `FoundIsInCatalog` | governance, `Slug <- MCSharedSlug` | `intelligence.py:1127`, "Product already in catalog" | the product found may be another with the same id |
| `ActiveWasVetted` | analysis | `CHANGELOG.md:199`, "available → pending → approved → active (admin-gated)" | a template with an API key is toggled active without an approval |
| `RejectedStaysOff` | analysis | `connectors.py:186`, "Admin approves or rejects a connector" | a toggle that has read the status before overwrites the rejection |
| `SuggestedOnce` | analysis, `Suggesters = {"s", "t"}`, `MaxRows = 4` | `connectors.py:380`, "Skip if already exists" | two calls at a time suggest one connector twice |
| `StampIsAnswerer` | analysis | `CHANGELOG.md:186`, the active connector as "model attribution" | what the built-in engine made bears the first active model's name |
| `OneMarket` | analysis | `intelligence.py:876`, "Store market intelligence" | two overlapping analyses both leave their rows |
| `UsableIsTried` | analysis, `Configs = {{"api_key"}, {"base_url"}}` | `intelligence.py:768`, "Try each active AI connector until one succeeds" | a self-hosted model that has only a `base_url` is skipped |
| `LimitAlwaysLifts` | analysis | `intelligence.py:743`, "Try again in {ttl}s" | a crash between INCR and EXPIRE leaves a count that never expires |

Consents, registry, sources:

| definition | refuted by | statement | what the code does |
|---|---|---|---|
| `HistoryComplete` | MCConsentConcurrent.cfg | `audit.py:171`, "Append to consent_history when any consent flag changes." | of two concurrent updates the second may find nothing changed against the row it has read |
| `HistoryComplete` | MCConsentOnboarding.cfg | the same | the wizard writes no history |
| `HistoryComplete` | MCConsentConcurrent.cfg, `Handlers = {h1}`, `Bodies <- MCMixedBodies` | the same | the synchronised `sensitive_data_consent` has no row |
| `VersionsUnique` | consent_registry | `consent_registry.py:258`, "Determine next version" | two overlapping syncs draw the same version |
| `SheetGoneRowsGone` | consent_registry | `consent_registry.py:228`, "Sync the consent xlsx into the database" | the rows of a sheet that became empty stay |
| `UnreviewedStays` | source_monitor | `consent_registry.py:503`, "keep status (ok or already-reviewed)" | a failed fetch turns "changed" into "error", the next one that into "ok" |
| `BaselineKept` | source_monitor | `consent_registry.py:443`, "Fetch failed", where the status is set and the hash kept | the error of a timed-out fetch has no text, so the test before it is false: the hash becomes NULL under the status "changed" |
| `FirstIsBaseline` | source_monitor | `consent_registry.py:466`, "First check — establish baseline" | after a failed first fetch the first hash is reported as a change |
| `ChangedDiffers` | source_monitor | `consent_registry.py:483`, "Content changed!" | of two overlapping checks the second finds its own hash on record and reports a change from it |

Forms, accounts, transactions:

| definition | refuted by | statement | what the code does |
|---|---|---|---|
| `EveryActNotified` | workflow | `scripts/schema.sql:271`, "Notifications sent to employees when customers act on offers" | a failed notification of a feedback is swallowed |
| `EverySubmissionNotified` | workflow | `workflow.py:300`, "Create notification for the employee that form was submitted" | the form is committed before; a retry is refused as it is not pending any more |
| `SubmittedOnce` | workflow | `workflow.py:274`, "Verify form exists and is pending" | the UPDATE does not ask again |
| `CompletedHasProfile` | accounts | `customer_auth.py:493`, "Your profile is ready for personalized offers" | a wizard without an age or an income stores no profile |
| `EveryStopStops` | transactions | `transaction_consumer.py:148`, "Shuts down on SIGINT / SIGTERM." | a signal during the constructor is overwritten by `_running = True` |
| `WebhookIsNormalized` | transactions | `README.md:47`, "Consumers normalize the data" | the webhook's transactions lack fields the consumer requires, and are dropped as invalid |
| `PublishedIsInTopic` | transactions, as `Webhook!PublishedIsInTopic` in the MC module, `Partitions = {"here"}`, `Payloads <- MC_PayloadsHere` | `webhooks.py:64`, "publishes them to Kafka" | `flush` returns when a message is dropped, too, and the answer counts it |


## 8. What is only model-checked, and what is not modelled

*Only model-checked.*  Liveness, all of it and nothing else: `EventsSettleUnlessPoison`,
`SettlesUnlessPoison`, `StopsWhenRunning`, `LimitLifts`, `Converges`, `Detects`,
`CacheCatchesUp`, `EveryCallAnswered`.

*Abstracted in the modelled parts.*  Who may call (every caller is authorised),
metrics, logging, formatting; passwords and tokens; the contents of forms,
notifications, pages and providers' answers; the wording of explanations.
`OfferServing` takes any choice of at most `TopN` suitable products and leaves the
choice to `OfferScoring`.  `get_offers` also counts eligible customers and serves
two read-only queries of past offers; neither changes anything.  Decoding of Avro and
JSON is the body of a message.  The preconditions of section 3 (some code in every
edition of the first sheet, no edition that comes back, no deadlock inside one
sheet) belong to `ConsentRegistry`.

*Not modelled.*
* API tokens: generation, validation and revocation are one statement each on a
  table of their own.
* Authentication middleware and staff login: they decide who may call, and keep no
  state but the staff table.
* `write_audit_log` and the audit middleware: one row appended, failures swallowed.
* The in-app inbox and its WebSocket connections: the router sees an adapter's
  send succeed or fail.
* Product economics, performance figures, the backfill of product ids: figures
  nothing in the models reads.  Suitability confirmations, overrides and the risk
  register: one row each, on which no other handler acts.
* The offer worker's main loop, which cannot start, and `scorer.py`, which nothing
  else calls.
* The data platform, the machine-learning code, the frontend and the deployment
  files: declarative, numeric, or presentation only.
