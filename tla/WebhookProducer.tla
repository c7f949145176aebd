-------------------------- MODULE WebhookProducer --------------------------
(***************************************************************************)
(* routers/webhooks.py: receive_transactions and the Kafka producer it     *)
(* shares with every request of the process.                               *)
(*                                                                         *)
(* The handler awaits nothing once it has the body, so requests do not     *)
(* interleave; the producer's sender thread delivers what send() has       *)
(* buffered meanwhile.  The key, the customer's id, chooses the partition, *)
(* and what is buffered for a partition goes out in batches, one in flight *)
(* at a time.  The producer is not idempotent: a batch whose               *)
(* acknowledgement is lost is sent again, whole.  A batch it gives up on   *)
(* is dropped without a word: flush() raises only when its ten seconds are *)
(* over.  A broker that has not stored a batch by the time the producer    *)
(* gives up waiting is taken never to store that copy.                     *)
(*                                                                         *)
(* topic is the partition Here.  Messages and fields are those of the      *)
(* module that instantiates this one.                                      *)
(***************************************************************************)
EXTENDS Integers, Sequences

CONSTANTS
  Partitions,        \* of bank.transactions
  Here,              \* the one that is the topic of the consumer
  Payloads,          \* sequences of [partition, amount, currency]: a webhook's
                     \* transactions, and where their keys belong
  TransactionFields, \* fields of the Transaction model
  SecretConfigured,  \* WEBHOOK_SECRET is not empty
  Retries,           \* retries of the producer (3 in the code)
  MaxEvents,         \* bound: length of the topic
  MaxRequests        \* bound: webhook calls, the bank's retries included

VARIABLES
  topic,     \* what is stored of bank.transactions, in this partition
  api,       \* where receive_transactions is: idle, publish or flush
  payload,   \* the transactions of the request
  index,     \* number of transactions the loop is done with
  counted,   \* serials of the transactions published_count counts
  built,     \* whether the process has its producer
  pending,   \* partition -> messages send() has buffered, in order
  inflight,  \* partition -> the batch that is to be sent again: how many of the
             \* messages it has, and how often it has been in vain
  serials,   \* number of sends so far
  response,  \* the last answer: its status and what it counts as published
  requests

sender == <<pending, inflight>>
webhook == <<api, payload, index, counted, built, sender, serials, response,
             requests>>

Serials(s) == {s[i].serial : i \in DOMAIN s}

Buffered == UNION {Serials(pending[p]) : p \in Partitions}
NoBatch == [size |-> 0, failed |-> 0]

WebhookInit ==
  /\ api = "idle" /\ payload = <<>> /\ index = 0 /\ counted = {}
  /\ built = FALSE
  /\ pending = [p \in Partitions |-> <<>>]
  /\ inflight = [p \in Partitions |-> NoBatch]
  /\ serials = 0
  /\ response = [status |-> 0, published |-> {}]
  /\ requests = 0

-----------------------------------------------------------------------------
(* receive_transactions.                                                   *)

Answer(status, published) ==
  /\ response' = [status |-> status, published |-> published]
  /\ api' = "idle" /\ payload' = <<>> /\ index' = 0 /\ counted' = {}

Request ==
  /\ api = "idle"
  /\ requests < MaxRequests
  /\ requests' = requests + 1

\* A payload that does not parse is refused, one that is not signed as well.
Refuse ==
  /\ Request
  /\ \E status \in {400} \union (IF SecretConfigured THEN {401} ELSE {}) :
       Answer(status, {})
  /\ UNCHANGED <<topic, built, sender, serials>>

\* The first request of the process builds the producer, which needs a broker.
NoBroker ==
  /\ Request
  /\ ~built
  /\ Answer(500, {})
  /\ UNCHANGED <<topic, built, sender, serials>>

Receive ==
  /\ Request
  /\ built' = TRUE
  /\ payload' \in Payloads
  /\ api' = "publish" /\ index' = 0 /\ counted' = {}
  /\ UNCHANGED <<topic, sender, serials, response>>

Encode(t, n) == [body |-> "record", fields |-> TransactionFields,
                 amount |-> t.amount, currency |-> t.currency, mcc |-> "",
                 serial |-> n]

\* send() buffers the transaction, or raises: then it is logged and skipped.
Send ==
  /\ api = "publish" /\ index < Len(payload)
  /\ index' = index + 1
  /\ \/ LET t == payload[index + 1] IN
        /\ serials' = serials + 1
        /\ pending' = [pending EXCEPT ![t.partition] = Append(@, Encode(t, serials'))]
        /\ counted' = counted \union {serials'}
     \/ UNCHANGED <<serials, pending, counted>>
  /\ UNCHANGED <<topic, api, payload, built, inflight, response, requests>>

EndOfLoop ==
  /\ api = "publish" /\ index = Len(payload)
  /\ api' = "flush"
  /\ UNCHANGED <<topic, payload, index, counted, built, sender, serials, response,
                 requests>>

\* Faulty variant: the answer does not wait for the sender.
Accepted_Unflushed ==
  /\ api = "flush"
  /\ Answer(202, counted)
  /\ UNCHANGED <<topic, built, sender, serials, requests>>

\* flush() returns when nothing is buffered any more, delivered or dropped.
Accepted ==
  /\ api = "flush" /\ Buffered = {}
  /\ Answer(202, counted)
  /\ UNCHANGED <<topic, built, sender, serials, requests>>

\* KafkaTimeoutError: the bank is told 500, and the sender goes on.
FlushTimeout ==
  /\ api = "flush" /\ Buffered # {}
  /\ Answer(500, {})
  /\ UNCHANGED <<topic, built, sender, serials, requests>>

-----------------------------------------------------------------------------
(* The sender thread.                                                      *)

\* The sizes a batch can have; one that is sent again stays as it is.
Sizes(p) == IF inflight[p].size = 0 THEN 1..Len(pending[p]) ELSE {inflight[p].size}

\* The broker stores a batch whole.
Store(p, n) ==
  /\ topic' = IF p = Here THEN topic \o SubSeq(pending[p], 1, n) ELSE topic
  /\ Len(topic') =< MaxEvents

Forget(p, n) ==
  /\ pending' = [pending EXCEPT ![p] = SubSeq(@, n + 1, Len(@))]
  /\ inflight' = [inflight EXCEPT ![p] = NoBatch]

\* Stored, and acknowledged or never to be sent again.
Deliver(p) == \E n \in Sizes(p) : Store(p, n) /\ Forget(p, n)

\* Not acknowledged, stored or not: the batch will be sent again.
Repeat(p) ==
  /\ inflight[p].failed < Retries
  /\ \E n \in Sizes(p) :
       /\ Store(p, n) \/ UNCHANGED topic
       /\ inflight' = [inflight EXCEPT ![p] = [size |-> n, failed |-> @.failed + 1]]
  /\ UNCHANGED pending

\* Not stored: an error that is not retried, or the retries are used up.
Drop(p) == \E n \in Sizes(p) : Forget(p, n) /\ UNCHANGED topic

Sender ==
  /\ \E p \in Partitions : Deliver(p) \/ Repeat(p) \/ Drop(p)
  /\ UNCHANGED <<api, payload, index, counted, built, serials, response, requests>>

\* The API process dies: the buffers are gone and the bank gets no answer.
ApiCrash ==
  /\ built
  /\ built' = FALSE
  /\ pending' = [p \in Partitions |-> <<>>]
  /\ inflight' = [p \in Partitions |-> NoBatch]
  /\ IF api = "idle" THEN UNCHANGED <<api, payload, index, counted, response>>
                     ELSE Answer(0, {})
  /\ UNCHANGED <<topic, serials, requests>>

WebhookNext ==
  \/ Refuse \/ NoBroker \/ Receive \/ Send \/ EndOfLoop
  \/ Accepted \/ FlushTimeout \/ Sender \/ ApiCrash

-----------------------------------------------------------------------------
(* Properties.                                                             *)

\* OrderKept: over lost acknowledgements, timeouts and a bank that retries, the
\* partition holds its transactions in the order the requests sent them
\* (max_in_flight_requests_per_connection=1), but for batches that are repeated: a
\* transaction behind a later one is a copy of one ahead of it, and behind the copy
\* comes a copy of the later one.
OrderKept ==
  \A i, j \in DOMAIN topic :
    i < j /\ 0 < topic[j].serial /\ topic[j].serial < topic[i].serial =>
      \E k, l \in DOMAIN topic :
        /\ k < i /\ topic[k].serial = topic[j].serial
        /\ j < l /\ topic[l].serial = topic[i].serial

\* AnsweredIsFlushed: once a request is answered 202 nothing it counts as
\* published waits in a buffer, of whatever partition, so an API crash cannot lose
\* it any more.
AnsweredIsFlushed ==
  response.status = 202 => response.published \intersect Buffered = {}

\* PublishedIsInTopic: webhooks.py:64, the endpoint "publishes them to Kafka": what a
\* 202 counts as published is in the topic (when it has this partition only).
PublishedIsInTopic == response.published \subseteq Serials(topic)
=============================================================================
