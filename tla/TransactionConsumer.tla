------------------------ MODULE TransactionConsumer ------------------------
(***************************************************************************)
(* data/kafka/consumers: the consumer of bank.transactions and the         *)
(* normalizer it calls for every record that validates.                    *)
(*                                                                         *)
(* run polls a batch, hands every message to _handle and commits once.     *)
(* Everything is synchronous: _handle is one step, and SIGTERM is served   *)
(* between any two of them, in poll included.  What _handle does not catch *)
(* (a message without a value, an amount quantize cannot hold) ends the    *)
(* process before the commit.  The normalized record is only logged, so    *)
(* what the consumer leaves behind is its statistics.  Amounts are in      *)
(* cents, rates in ten-thousandths of a dollar.                            *)
(***************************************************************************)
EXTENDS Integers, Sequences, FiniteSets

CONSTANTS
  Messages,        \* what producers may publish, a subset of Message
  Largest,         \* the largest amount quantize holds at the default precision
  MaxPollRecords,  \* max_records of poll (100 in the code)
  MaxEvents,       \* bound: length of the topic
  MaxCrashes,      \* bound: crashes of the process
  MaxStops         \* bound: SIGTERMs delivered to it

Offsets == 1..MaxEvents

\* The fields RawTransaction requires.
RawTransaction == {"transaction_id", "customer_id", "amount", "currency",
                   "merchant_name", "merchant_category_code",
                   "transaction_type", "timestamp", "channel", "status"}
\* The fields of the Transaction a webhook carries (api/models).
Transaction == {"transaction_id", "customer_id", "amount", "currency",
                "category", "merchant", "timestamp", "description"}

\* A message: its bytes decode to nothing, to JSON null, or to a record.
\* serial numbers the sends of the webhook; 0 is anybody else's.
Message == [body : {"no_value", "undecodable", "null", "record"},
            fields : SUBSET (RawTransaction \union Transaction),
            amount : Int, currency : STRING, mcc : STRING, serial : Nat]

ASSUME MessagesAssumption == Messages \subseteq Message
ASSUME BoundsAssumption ==
  /\ Largest \in Nat
  /\ MaxPollRecords \in Nat \ {0}
  /\ MaxEvents \in Nat
  /\ MaxCrashes \in Nat
  /\ MaxStops \in Nat

VARIABLES
  topic,      \* bank.transactions: the messages published so far
  committed,  \* offset committed for the consumer group
  position,   \* offset of the last message returned by poll
  cursor,     \* offset of the last message of the batch that is handled
  started,    \* offset this incarnation resumed at
  pc,         \* where run is
  running,    \* self._running
  stats,      \* self._stats
  \* history, read by the properties only
  handled,    \* offsets whose handler has returned at least once
  again,      \* whether a handled message has been handled again
  normalized, \* what normalize has returned so far
  stopped,    \* when this incarnation was sent a SIGTERM: none, early, late
  crashes,    \* processes that died, MaxCrashes at most
  raised,     \* whether one ended with an exception
  stops

process == <<committed, position, cursor, started, pc, running, stats>>
history == <<handled, again, normalized, stopped, crashes, raised, stops>>
consumer == <<process, history>>
vars == <<topic, consumer>>

-----------------------------------------------------------------------------
(* The normalizer.                                                         *)

Rates == [USD |-> 10000, EUR |-> 10900, GBP |-> 12700, RON |-> 2200,
          CHF |-> 11200, JPY |-> 67, CAD |-> 7400, AUD |-> 6500]

\* An unknown currency is converted one to one; ROUND_HALF_UP to the cent.
Rate(currency) == IF currency \in DOMAIN Rates THEN Rates[currency] ELSE 10000
convert_to_usd(amount, currency) ==
  (amount * Rate(currency) + 5000) \div 10000

\* Upper ends of the buckets in cents: micro, small, medium, large, high_value.
BucketEnds == {1000, 5000, 20000, 100000}

\* Faulty variant: an amount on the end of two buckets is left out of both.
bucket_amount_Gap(usd) ==
  IF usd \in BucketEnds THEN 0 ELSE Cardinality({e \in BucketEnds : e =< usd})

\* The index of the bucket, 0 for micro.
bucket_amount(usd) == Cardinality({e \in BucketEnds : e =< usd})

Mcc == [groceries |-> {"5411", "5422", "5441", "5451", "5462"},
        dining |-> {"5812", "5813", "5814"},
        travel |-> {"3000", "3001", "4511", "4722", "7011"},
        fuel |-> {"5541", "5542"},
        healthcare |-> {"5912", "8011", "8021", "8099"},
        utilities |-> {"4900"},
        entertainment |-> {"7832", "7841", "7922", "7929"},
        retail |-> {"5311", "5331", "5651", "5691", "5699"},
        education |-> {"8211", "8220", "8241", "8299"},
        financial_services |-> {"6010", "6011", "6012", "6051"}]
map_category(mcc) ==
  IF \E c \in DOMAIN Mcc : mcc \in Mcc[c]
  THEN CHOOSE c \in DOMAIN Mcc : mcc \in Mcc[c]
  ELSE "other"

normalize(m) ==
  LET usd == convert_to_usd(m.amount, m.currency)
  IN [amount |-> m.amount, currency |-> m.currency, usd |-> usd,
      bucket |-> bucket_amount(usd), category |-> map_category(m.mcc)]

-----------------------------------------------------------------------------
(* What _handle makes of a message.                                        *)

\* model_validate: a missing field or a negative amount is refused.
Validates(m) ==
  m.body = "record" /\ RawTransaction \subseteq m.fields /\ m.amount >= 0

\* Not caught: len(None) in _detect_encoding, and quantize in normalize.
Raises(m) ==
  \/ m.body = "no_value"
  \/ Validates(m) /\ convert_to_usd(m.amount, m.currency) > Largest

NoStats == [consumed |-> 0, valid |-> 0, invalid |-> 0,
            deserialization_errors |-> 0]

\* Faulty variant: a record that fails validation is counted as an error too.
Count_Twice(s, m) ==
  [consumed |-> s.consumed + 1,
   valid |-> s.valid + IF Validates(m) THEN 1 ELSE 0,
   invalid |-> s.invalid + IF m.body = "record" /\ ~Validates(m) THEN 1 ELSE 0,
   deserialization_errors |-> s.deserialization_errors
     + IF m.body = "undecodable" \/ ~Validates(m) THEN 1 ELSE 0]

\* JSON null decodes to None, which counts as neither invalid nor an error.
Count(s, m) ==
  [consumed |-> s.consumed + 1,
   valid |-> s.valid + IF Validates(m) THEN 1 ELSE 0,
   invalid |-> s.invalid + IF m.body = "record" /\ ~Validates(m) THEN 1 ELSE 0,
   deserialization_errors |-> s.deserialization_errors
     + IF m.body = "undecodable" THEN 1 ELSE 0]

-----------------------------------------------------------------------------
TypeOK ==
  /\ topic \in Seq(Messages) /\ Len(topic) =< MaxEvents
  /\ {committed, position, cursor, started} \subseteq 0..MaxEvents
  /\ pc \in {"down", "build", "poll", "handle", "commit"}
  /\ running \in BOOLEAN
  /\ stats \in [DOMAIN NoStats -> 0..MaxEvents]
  /\ handled \subseteq Offsets
  /\ {again, raised} \subseteq BOOLEAN
  /\ stopped \in {"none", "early", "late"}
  /\ normalized \subseteq [amount : Nat, currency : STRING, usd : Nat,
                           bucket : 0..4, category : DOMAIN Mcc \union {"other"}]
  /\ crashes \in 0..MaxCrashes
  /\ stops \in 0..MaxStops

ConsumerInit ==
  /\ committed = 0 /\ position = 0 /\ cursor = 0 /\ started = 0
  /\ pc = "down"
  /\ running = FALSE
  /\ stats = NoStats
  /\ handled = {}
  /\ again = FALSE /\ stopped = "none" /\ raised = FALSE
  /\ normalized = {}
  /\ crashes = 0 /\ stops = 0

Init == topic = <<>> /\ ConsumerInit

Publish(m) ==
  /\ Len(topic) < MaxEvents
  /\ topic' = Append(topic, m)
  /\ UNCHANGED consumer

\* run installs the signal handlers and then connects ...
Launch ==
  /\ pc = "down"
  /\ pc' = "build"
  /\ running' = FALSE
  /\ stopped' = "none"
  /\ stats' = NoStats
  /\ UNCHANGED <<topic, committed, position, cursor, started, handled, again,
                 normalized, crashes, raised, stops>>

\* Faulty variant: the new consumer resumes at the end of the topic.
Connected_AtEnd ==
  /\ pc = "build"
  /\ pc' = "poll"
  /\ running' = TRUE
  /\ position' = Len(topic) /\ cursor' = Len(topic) /\ started' = Len(topic)
  /\ UNCHANGED <<topic, committed, stats, history>>

\* ... and only then sets _running, over a signal that came in between.
Connected ==
  /\ pc = "build"
  /\ pc' = "poll"
  /\ running' = TRUE
  /\ position' = committed /\ cursor' = committed /\ started' = committed
  /\ UNCHANGED <<topic, committed, stats, history>>

Poll ==
  /\ pc = "poll"
  /\ running
  /\ \E n \in 1..MaxPollRecords :
       /\ position + n =< Len(topic)
       /\ position' = position + n
  /\ pc' = "handle"
  /\ UNCHANGED <<topic, committed, cursor, started, running, stats, history>>

Current == topic[cursor + 1]

\* Faulty variant: _handle catches whatever is raised.
Handle_CatchesAll ==
  /\ pc = "handle"
  /\ cursor' = cursor + 1
  /\ pc' = IF cursor + 1 = position THEN "commit" ELSE "handle"
  /\ handled' = handled \union {cursor + 1}
  /\ UNCHANGED <<topic, committed, position, started, running, stats, again,
                 normalized, stopped, crashes, raised, stops>>

Handle ==
  /\ pc = "handle"
  /\ ~Raises(Current)
  /\ stats' = Count(stats, Current)
  /\ normalized' = IF Validates(Current)
                   THEN normalized \union {normalize(Current)} ELSE normalized
  /\ cursor' = cursor + 1
  /\ pc' = IF cursor + 1 = position THEN "commit" ELSE "handle"
  /\ again' = (again \/ cursor + 1 \in handled)
  /\ handled' = handled \union {cursor + 1}
  /\ UNCHANGED <<topic, committed, position, started, running, stopped,
                 crashes, raised, stops>>

\* The exception leaves run: nothing of the batch is committed.
Raise ==
  /\ pc = "handle"
  /\ Raises(Current)
  /\ pc' = "down"
  /\ running' = FALSE
  /\ raised' = TRUE
  /\ UNCHANGED <<topic, committed, position, cursor, started, stats, handled,
                 again, normalized, stopped, crashes, stops>>

\* Faulty variant: the position poll has reached is committed in any case.
Commit_OffByOne ==
  /\ pc = "commit"
  /\ committed' = position + 1
  /\ pc' = "poll"
  /\ UNCHANGED <<topic, position, cursor, started, running, stats, history>>

Commit ==
  /\ pc = "commit"
  /\ committed' = position
  /\ pc' = "poll"
  /\ UNCHANGED <<topic, position, cursor, started, running, stats, history>>

\* Faulty variant: the loop over the batch tests the flag as well.
Exit_MidBatch ==
  /\ pc \in {"poll", "handle"}
  /\ ~running
  /\ pc' = "down"
  /\ UNCHANGED <<topic, committed, position, cursor, started, running, stats,
                 history>>

Exit ==
  /\ pc = "poll"
  /\ ~running
  /\ pc' = "down"
  /\ UNCHANGED <<topic, committed, position, cursor, started, running, stats,
                 history>>

\* Faulty variant: a signal that does not reach the flag.
stop_Ignored ==
  /\ pc # "down"
  /\ stops < MaxStops
  /\ stops' = stops + 1
  /\ stopped' = IF pc = "build" THEN "early" ELSE "late"
  /\ UNCHANGED <<topic, process, handled, again, normalized, crashes, raised>>

\* SIGINT or SIGTERM.
stop ==
  /\ pc # "down"
  /\ stops < MaxStops
  /\ stops' = stops + 1
  /\ running' = FALSE
  /\ stopped' = IF pc = "build" THEN "early" ELSE "late"
  /\ UNCHANGED <<topic, committed, position, cursor, started, pc, stats,
                 handled, again, normalized, crashes, raised>>

\* A crash, or a connection that poll, commit or the constructor gives up on.
Crash ==
  /\ pc # "down"
  /\ crashes < MaxCrashes
  /\ crashes' = crashes + 1
  /\ pc' = "down"
  /\ running' = FALSE
  /\ UNCHANGED <<topic, committed, position, cursor, started, stats, handled,
                 again, normalized, stopped, raised, stops>>

ConsumerStep ==
  \/ Launch \/ Connected \/ Poll \/ Handle \/ Raise \/ Commit \/ Exit

Next ==
  \/ \E m \in Messages : Publish(m)
  \/ ConsumerStep
  \/ stop
  \/ Crash

Spec == Init /\ [][Next]_vars
FairSpec == Spec /\ WF_vars(ConsumerStep)

-----------------------------------------------------------------------------
(* Properties.                                                             *)

\* PoisonHoldsTopic: a message whose handler raises is never committed, by any
\* number of restarts, and neither is what follows it (run commits per batch
\* and catches nothing).
PoisonHoldsTopic == \A i \in 1..committed : ~Raises(topic[i])

\* RedeliveryNeedsFault: a message is handled a second time only because a
\* process crashed or raised; a SIGTERM in the middle of a batch lets the batch
\* finish and commit.
RedeliveryNeedsFault == again => crashes > 0 \/ raised

\* StatsMatchTopic: the statistics of a running consumer are those of the
\* messages it has handled since it started, each counted once; only JSON null
\* is in none of the three classes.
StatsMatchTopic ==
  LET served == started + 1..cursor
      Valid == {i \in served : Validates(topic[i])}
      Null == {i \in served : topic[i].body = "null"}
  IN pc \in {"poll", "handle", "commit"} =>
       /\ stats.consumed = Cardinality(served)
       /\ stats.valid = Cardinality(Valid)
       /\ stats.consumed = stats.valid + stats.invalid
                           + stats.deserialization_errors + Cardinality(Null)

\* BucketsMonotone: of two transactions in one currency the larger is never in
\* the lower bucket, over the rounding of the conversion and the bucket ends.
BucketsMonotone ==
  \A r, s \in normalized :
    r.currency = s.currency /\ r.amount =< s.amount => r.bucket =< s.bucket

\* ConsumerSafe: what holds of the consumer at any time, whatever else publishes
\* to its topic.
ConsumerSafe ==
  TypeOK /\ PoisonHoldsTopic /\ RedeliveryNeedsFault /\ StatsMatchTopic

\* SettlesUnlessPoison: every message is handled and committed in the end,
\* across crashes and stops, unless some message makes the handler raise.
SettlesUnlessPoison ==
  \A i \in Offsets :
    (Len(topic) >= i) ~> \/ committed >= i
                         \/ \E j \in 1..Len(topic) : Raises(topic[j])

\* StopsWhenRunning: a SIGTERM that reaches the loop ends the process, an idle
\* one too (signal.signal runs _stop wherever the loop is, in poll as well).
StopsWhenRunning == (stopped = "late") ~> (pc = "down")

\* ImplementsAtLeastOnce: the consumer commits only what it has handled.
AtLeastOnceConsumer == INSTANCE AtLeastOnceConsumer WITH
                         produced <- Len(topic), processed <- handled
ImplementsAtLeastOnce == AtLeastOnceConsumer!ConsumerSpec

-----------------------------------------------------------------------------
(* What the repository says of the consumer and the code does not do.      *)

\* EveryStopStops: transaction_consumer.py:148, "Shuts down on SIGINT / SIGTERM."
EveryStopStops == (stopped # "none") ~> (pc = "down")
=============================================================================
