------------------------ MODULE TransactionPipeline ------------------------
(***************************************************************************)
(* The webhook and the transaction consumer on the topic they share.  The  *)
(* webhook is one producer of bank.transactions; the core banking system   *)
(* publishes to it as well (docs/architecture.md).  The consumer has one   *)
(* partition of the topic.                                                 *)
(***************************************************************************)
EXTENDS TransactionConsumer

CONSTANTS
  Partitions, Here, Payloads, SecretConfigured, Retries,
  MaxPayload,        \* bound: length of a payload
  MaxRequests,       \* bound: webhook calls
  MaxOthers          \* bound: messages in the topic that are not the webhook's

ASSUME WebhookAssumption ==
  /\ Here \in Partitions
  /\ SecretConfigured \in BOOLEAN
  /\ Retries \in Nat
  /\ MaxPayload \in Nat
  /\ MaxRequests \in Nat
  /\ MaxOthers \in Nat

VARIABLES api, payload, index, counted, built, pending, inflight, serials,
          response, requests

Webhook == INSTANCE WebhookProducer WITH TransactionFields <- Transaction

\* What the webhook makes of a transaction is one of the messages.
ASSUME PayloadAssumption ==
  /\ Payloads \subseteq Seq([partition : Partitions, amount : Int, currency : STRING])
  /\ \A p \in Payloads : Len(p) =< MaxPayload
  /\ \A p \in Payloads, n \in 1..(MaxRequests * MaxPayload) :
       \A i \in DOMAIN p : Webhook!Encode(p[i], n) \in Messages

webhook == <<api, payload, index, counted, built, pending, inflight, serials,
             response, requests>>
pipeline == <<vars, webhook>>

PipelineInit == Init /\ Webhook!WebhookInit

\* What others publish carries no serial of the webhook.
Others ==
  /\ Cardinality({i \in DOMAIN topic : topic[i].serial = 0}) < MaxOthers
  /\ \E m \in Messages : m.serial = 0 /\ Publish(m)

PipelineNext ==
  \/ (Others \/ ConsumerStep \/ stop \/ Crash) /\ UNCHANGED webhook
  \/ Webhook!WebhookNext /\ UNCHANGED consumer

\* The consumer is restarted by its supervisor and never stops between two steps.
PipelineSpec == PipelineInit /\ [][PipelineNext]_pipeline
                             /\ WF_pipeline(ConsumerStep /\ UNCHANGED webhook)

OrderKept == Webhook!OrderKept
AnsweredIsFlushed == Webhook!AnsweredIsFlushed

\* PipelineSafe: the webhook's transactions enter the topic in their order, whole
\* batches repeated, and before they are answered for (webhooks.py); what comes out of
\* the normalizer is in the bucket of its amount.
PipelineSafe == OrderKept /\ AnsweredIsFlushed /\ BucketsMonotone

\* WebhookIsNormalized: README.md:47, "Consumers normalize the data" of the
\* transaction events: what the webhook sent is normalized when it is handled.
WebhookIsNormalized ==
  \A i \in handled : topic[i].serial > 0 => Validates(topic[i])
=============================================================================
