------------------------ MODULE AtLeastOnceConsumer ------------------------
(***************************************************************************)
(* What a Kafka consumer with enable_auto_commit=False owes the producer   *)
(* of one partition: a message whose offset is committed has been handled  *)
(* to its end at least once.  It says nothing of the order of handling or  *)
(* of how often a message is handled again after a restart.                *)
(*                                                                         *)
(* NotificationRouter and TransactionConsumer implement it.                *)
(***************************************************************************)
EXTENDS Naturals

CONSTANT MaxEvents  \* bound on the length of the partition, a natural number

VARIABLES
  produced,   \* number of messages in the partition; their offsets are 1..produced
  processed,  \* offsets whose handler has run to its end at least once
  committed   \* offsets 1..committed are committed for the group

cvars == <<produced, processed, committed>>

\* AtLeastOnce: a committed offset is never one that no handler has finished.
AtLeastOnce == 1..committed \subseteq processed

ConsumerInit ==
  /\ produced = 0
  /\ processed = {}
  /\ committed = 0

\* A producer's batch, of one message or more.
Publish ==
  /\ produced' \in (produced + 1)..MaxEvents
  /\ UNCHANGED <<processed, committed>>

Process(i) ==
  /\ i \in (committed + 1)..produced
  /\ processed' = processed \union {i}
  /\ UNCHANGED <<produced, committed>>

CommitUpTo(n) ==
  /\ n \in committed..produced
  /\ 1..n \subseteq processed
  /\ committed' = n
  /\ UNCHANGED <<produced, processed>>

ConsumerNext ==
  \/ Publish
  \/ \E i \in 1..MaxEvents : Process(i)
  \/ \E n \in 0..MaxEvents : CommitUpTo(n)

ConsumerSpec == ConsumerInit /\ [][ConsumerNext]_cvars
=============================================================================
