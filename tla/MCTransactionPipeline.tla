----------------------- MODULE MCTransactionPipeline -----------------------
(* Instances of TransactionPipeline for TLC. *)
EXTENDS TransactionPipeline

VARIABLE corner   \* what this behaviour is about, chosen at the start

Bank(body, fields, amount, currency) ==
  [body |-> body, fields |-> fields, amount |-> amount, currency |-> currency,
   mcc |-> "5411", serial |-> 0]
Good(amount, currency) == Bank("record", RawTransaction, amount, currency)

\* One message of each fate, and amounts on both sides of a bucket's end.
MC_Messages ==
  {Bank("no_value", {}, 0, ""), Bank("null", {}, 0, ""), Good(10001, "USD"),
   Good(4999, "USD"), Good(5000, "USD")}
   \union {Webhook!Encode([amount |-> 4999, currency |-> "JPY"], n) :
           n \in 1..(MaxRequests * MaxPayload)}
Yen(p) == [partition |-> p, amount |-> 4999, currency |-> "JPY"]
MC_PayloadsHere == {<<Yen("here"), Yen("here")>>}
MC_Payloads == MC_PayloadsHere \union {<<Yen("there"), Yen("here")>>}

\* Three corners of the state space, and what is left out of each: two requests
\* while no consumer runs; one request and all the consumer does; or no request, and
\* other messages for the consumer.
FromWebhook == \A i \in DOMAIN topic : topic[i].serial > 0
Within ==
  \/ corner = "webhook" /\ FromWebhook /\ pc = "down"
  \/ corner = "both" /\ FromWebhook /\ requests =< 1
  \/ corner = "consumer" /\ requests = 0

MC_Init == PipelineInit /\ corner \in {"webhook", "both", "consumer"}
MC_Next == PipelineNext /\ UNCHANGED corner /\ Within'
MC_Spec == MC_Init /\ [][MC_Next]_<<pipeline, corner>>
                   /\ WF_<<pipeline, corner>>(ConsumerStep /\ UNCHANGED <<webhook, corner>>)
=============================================================================
