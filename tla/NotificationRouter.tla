------------------------- MODULE NotificationRouter -------------------------
(***************************************************************************)
(* services/notification: the router that consumes notification.events     *)
(* and the preference service it consults for every message.               *)
(*                                                                         *)
(* NotificationRouter.run polls a batch, hands every message of it to      *)
(* _handle_message, and commits once at the end of the batch.  Every call  *)
(* of the preference service is an await with a database session of its    *)
(* own, so each is an action of its own: customers change their            *)
(* preferences, time passes and the process dies between any two of them.  *)
(* An exception of poll(), of the preference service or of commit()        *)
(* propagates out of run() and ends the process exactly as a crash does.   *)
(* Crash stands for those that may come at any statement; a message the    *)
(* code can never get past raises whenever it is met (MayRaise).           *)
(***************************************************************************)
EXTENDS Integers, Sequences, FiniteSets

CONSTANTS
  Customers,
  Adapters,           \* channel names _dispatch has an adapter for
  OtherChannels,      \* channel names it has none for
  NoChannel,          \* marks a customer with no customer_preferences row
  DefaultChannel,     \* CustomerPreference.preferred_channel default
  DefaultMaxPerDay,   \* default of max_per_day (5 in the code)
  DefaultMaxPerWeek,  \* default of max_per_week (15 in the code)
  ChannelChoices,     \* preferred_channel values an update may set
  QuietChoices,       \* whether an update may set or clear a quiet-hours window
  CapChoices,         \* pairs <<max_per_day, max_per_week>> an update may set
  DayTicks,           \* the clock ticks of one day ...
  WeekTicks,          \* ... and of one week
  NightTicks,         \* ticks inside a configured quiet-hours window
  Payloads,           \* the events producers publish, a subset of Event
  Refused,            \* ids and channels PostgreSQL takes in no statement (a
                      \* NUL character, a lone surrogate) ...
  Oversized,          \* ... and those longer than their notification_log column
  MaxPollRecords,     \* max_records of poll (50 in the code)
  MaxEvents,          \* bound: length of the topic
  MaxCrashes,         \* bound: crashes of the router
  MaxShutdowns,       \* bound: SIGTERMs delivered to the router
  MaxNow              \* bound: last tick of the clock

Channels == Adapters \union OtherChannels
Offsets == 1..MaxEvents
\* body: whether the value is UTF-8 JSON at all, and validates.
Event == [body : {"undecodable", "invalid", "valid"},
          customer : Customers, channel : Channels]

ASSUME ChannelAssumption ==
  /\ DefaultChannel \in Adapters
  /\ NoChannel \notin Channels
ASSUME ChoiceAssumption ==
  /\ ChannelChoices \subseteq Channels \ (Refused \union Oversized)
  /\ QuietChoices \subseteq BOOLEAN
ASSUME CapAssumption ==
  /\ DefaultMaxPerDay \in Nat
  /\ DefaultMaxPerWeek \in Nat
  /\ CapChoices \subseteq Nat \X Nat

\* The limits a customer can have, and the largest: the columns are INTEGER.
Caps(k, default) == {default} \union {cap[k] : cap \in CapChoices}
LargestCap(k, default) ==
  CHOOSE m \in Caps(k, default) : \A x \in Caps(k, default) : x =< m
ASSUME LargestCapAssumption ==
  /\ \E m \in Caps(1, DefaultMaxPerDay) : \A x \in Caps(1, DefaultMaxPerDay) : x =< m
  /\ \E m \in Caps(2, DefaultMaxPerWeek) : \A x \in Caps(2, DefaultMaxPerWeek) : x =< m
ASSUME TimeAssumption ==
  /\ DayTicks \in Nat
  /\ WeekTicks \in Nat
  /\ DayTicks =< WeekTicks
  /\ MaxNow \in Nat
ASSUME TopicAssumption ==
  /\ Payloads \subseteq Event
  /\ MaxEvents \in Nat
  /\ MaxPollRecords \in Nat \ {0}
ASSUME FaultAssumption == MaxCrashes \in Nat /\ MaxShutdowns \in Nat

VARIABLES
  topic,             \* notification.events: the messages published so far
  committed,         \* offset committed for the consumer group
  position,          \* offset of the last message returned by poll
  cursor,            \* offset of the last message of the batch that is handled
  pc,                \* the next await of run / _handle_message
  channel,           \* _handle_message's local: the effective channel
  running,           \* self._running
  signalled,         \* a SIGTERM the event loop has not dispatched yet
  prefs,             \* customer_preferences, one record per customer
  notification_log,  \* the notification_log table, in insertion order
  now,               \* the clock
  \* history, read by the properties only
  outcomes,          \* offset -> how its handler has ended, over all deliveries
  attempts,          \* offset -> calls of adapter.send for it
  sent,              \* whether adapter.send returned for the message being handled
  late_sends,        \* customer -> sends since the opt-out now in force
  crashes,
  shutdowns

consumer == <<committed, position, cursor, running>>
history == <<outcomes, attempts, sent, late_sends>>
faults == <<signalled, crashes, shutdowns>>
vars == <<topic, consumer, pc, channel, prefs, notification_log, now,
          history, faults>>

Steps == {"down", "poll", "opt_out", "quiet_hours", "resolve_channel",
          "frequency_cap", "dispatch", "record", "commit"}
Outcomes == {"invalid", "opted_out", "quiet", "capped", "sent", "unsent"}
Preference == [opted_out : BOOLEAN, preferred : Channels \union {NoChannel},
               max_day : Nat, max_week : Nat, quiet : BOOLEAN]
LogEntry == [customer : Customers, channel : Channels, sent_at : Nat]

\* A customer without a row: what the readers of PreferenceService assume.
NoRow == [opted_out |-> FALSE, preferred |-> NoChannel,
          max_day |-> DefaultMaxPerDay, max_week |-> DefaultMaxPerWeek,
          quiet |-> FALSE]

TypeOK ==
  /\ topic \in Seq(Payloads) /\ Len(topic) =< MaxEvents
  /\ committed \in 0..MaxEvents
  /\ position \in 0..MaxEvents
  /\ cursor \in 0..MaxEvents
  /\ pc \in Steps
  /\ channel \in Channels \union {NoChannel}
  /\ running \in BOOLEAN
  /\ signalled \in BOOLEAN
  /\ prefs \in [Customers -> Preference]
  /\ notification_log \in Seq(LogEntry)
  /\ now \in 0..MaxNow
  /\ outcomes \in [Offsets -> SUBSET Outcomes]
  /\ attempts \in [Offsets -> Nat]
  /\ sent \in BOOLEAN
  /\ late_sends \in [Customers -> Nat]
  /\ crashes \in 0..MaxCrashes
  /\ shutdowns \in 0..MaxShutdowns

Init ==
  /\ topic = <<>>
  /\ committed = 0 /\ position = 0 /\ cursor = 0
  /\ pc = "down"
  /\ channel = NoChannel
  /\ running = FALSE
  /\ signalled = FALSE
  /\ prefs = [c \in Customers |-> NoRow]
  /\ notification_log = <<>>
  /\ now = 0
  /\ outcomes = [i \in Offsets |-> {}]
  /\ attempts = [i \in Offsets |-> 0]
  /\ sent = FALSE
  /\ late_sends = [c \in Customers |-> 0]
  /\ crashes = 0 /\ shutdowns = 0

-----------------------------------------------------------------------------
(* The environment: producers, the clock, and customers who change their   *)
(* preferences through the API.                                            *)

\* Publish stands for the producers of notification.events, which are not in
\* this repository.
Publish ==
  /\ Len(topic) < MaxEvents
  /\ \E e \in Payloads : topic' = Append(topic, e)
  /\ UNCHANGED <<consumer, pc, channel, prefs, notification_log, now, history,
                 faults>>

Tick ==
  /\ now < MaxNow
  /\ now' = now + 1
  /\ UNCHANGED <<topic, consumer, pc, channel, prefs, notification_log,
                 history, faults>>

\* upsert_preference, for an id its table takes: the first update creates the row with its defaults.
Row(c) == [prefs[c] EXCEPT !.preferred = IF @ = NoChannel THEN DefaultChannel
                                                         ELSE @]

Upsert(c, row) ==
  /\ prefs' = [prefs EXCEPT ![c] = row]
  /\ UNCHANGED <<topic, consumer, pc, channel, notification_log, now,
                 outcomes, attempts, sent, faults>>

opt_out(c) ==
  /\ Upsert(c, [Row(c) EXCEPT !.opted_out = TRUE])
  /\ UNCHANGED late_sends

opt_in(c) ==
  /\ Upsert(c, [Row(c) EXCEPT !.opted_out = FALSE])
  /\ late_sends' = [late_sends EXCEPT ![c] = 0]

SetChannel(c, ch) ==
  /\ Upsert(c, [Row(c) EXCEPT !.preferred = ch])
  /\ UNCHANGED late_sends

SetCaps(c, caps) ==
  /\ Upsert(c, [Row(c) EXCEPT !.max_day = caps[1], !.max_week = caps[2]])
  /\ UNCHANGED late_sends

SetQuietHours(c, q) ==
  /\ Upsert(c, [Row(c) EXCEPT !.quiet = q])
  /\ UNCHANGED late_sends

UpdatePreference(c) ==
  \/ opt_out(c)
  \/ opt_in(c)
  \/ \E ch \in ChannelChoices : SetChannel(c, ch)
  \/ \E caps \in CapChoices : SetCaps(c, caps)
  \/ \E q \in QuietChoices : SetQuietHours(c, q)

-----------------------------------------------------------------------------
(* The loop of run().                                                      *)

\* The message in hand, and its customer's preferences as they are now.
Current == topic[cursor + 1]
Pref == prefs[Current.customer]

Decodable(i) == topic[i].body # "undecodable"

\* What a message must not be for the router to get past it.
MayRaise(e) ==
  \/ e.body = "undecodable"
  \/ e.body = "valid" /\ {e.customer, e.channel} \cap (Refused \union Oversized) # {}

\* The statement of the preference service in hand always fails: any that names
\* a refused value, and the INSERT of one that does not fit its column.
Raises ==
  \/ pc = "opt_out" /\ Current.body = "valid" /\ Current.customer \in Refused
  \/ pc = "frequency_cap" /\ channel \in Refused
  \/ pc = "record" /\ {Current.customer, channel} \cap Oversized # {}

\* Faulty variant: a restart that resumes at the end of the topic.
Restart_FromEnd ==
  /\ pc = "down"
  /\ pc' = "poll"
  /\ running' = TRUE
  /\ position' = Len(topic)
  /\ cursor' = Len(topic)
  /\ UNCHANGED <<topic, committed, channel, prefs, notification_log, now,
                 history, faults>>

\* A restarted consumer resumes at the committed offset.
Restart ==
  /\ pc = "down"
  /\ pc' = "poll"
  /\ running' = TRUE
  /\ position' = committed
  /\ cursor' = committed
  /\ UNCHANGED <<topic, committed, channel, prefs, notification_log, now,
                 history, faults>>

\* Faulty variant: a router that commits as soon as it has polled.
Poll_CommitFirst ==
  /\ pc = "poll"
  /\ running
  /\ \E n \in 1..MaxPollRecords :
       /\ position + n =< Len(topic)
       /\ \A i \in position + 1..position + n : Decodable(i)
       /\ position' = position + n
  /\ committed' = position'
  /\ pc' = "opt_out"
  /\ UNCHANGED <<topic, cursor, running, channel, prefs, notification_log, now,
                 history, faults>>

\* poll returns up to max_records of what the topic holds, all of which the
\* value_deserializer accepts; an empty poll goes round the loop and changes
\* nothing.
Poll ==
  /\ pc = "poll"
  /\ running
  /\ \E n \in 1..MaxPollRecords :
       /\ position + n =< Len(topic)
       /\ \A i \in position + 1..position + n : Decodable(i)
       /\ position' = position + n
  /\ pc' = "opt_out"
  /\ UNCHANGED <<topic, committed, cursor, running, channel, prefs,
                 notification_log, now, history, faults>>

\* The handler of message cursor+1 has returned: the next message of the
\* batch, or the commit after its last.  Its locals are gone.
Return(outcome) ==
  /\ outcomes' = [outcomes EXCEPT ![cursor + 1] = @ \union {outcome}]
  /\ cursor' = cursor + 1
  /\ pc' = IF cursor + 1 = position THEN "commit" ELSE "opt_out"
  /\ channel' = NoChannel
  /\ sent' = FALSE
  /\ UNCHANGED <<committed, position, running>>

\* The handler goes on to its next await.
GoOn(step) == pc' = step /\ UNCHANGED <<consumer, outcomes, channel, sent>>

\* Faulty variant: the offset of the next message taken for the last one's.
Commit_OffByOne ==
  /\ pc = "commit"
  /\ committed' = position + 1
  /\ pc' = "poll"
  /\ UNCHANGED <<topic, position, cursor, running, channel, prefs,
                 notification_log, now, history, faults>>

Commit ==
  /\ pc = "commit"
  /\ committed' = position
  /\ pc' = "poll"
  /\ UNCHANGED <<topic, position, cursor, running, channel, prefs,
                 notification_log, now, history, faults>>

\* SIGINT or SIGTERM: asyncio keeps it for the event loop to dispatch.
SIGTERM ==
  /\ pc # "down"
  /\ shutdowns < MaxShutdowns
  /\ signalled' = TRUE
  /\ shutdowns' = shutdowns + 1
  /\ UNCHANGED <<topic, consumer, pc, channel, prefs, notification_log, now,
                 history, crashes>>

\* run is suspended in an await of _handle_message.  poll and commit block the
\* whole event loop, and a payload that does not validate awaits nothing.
Awaiting ==
  \/ pc = "opt_out" /\ Current.body = "valid"
  \/ pc \in {"quiet_hours", "resolve_channel", "frequency_cap", "dispatch",
             "record"}

\* _request_shutdown only clears the flag the loop tests before each poll.
request_shutdown ==
  /\ signalled
  /\ Awaiting
  /\ running' = FALSE
  /\ signalled' = FALSE
  /\ UNCHANGED <<topic, committed, position, cursor, pc, channel, prefs,
                 notification_log, now, history, crashes, shutdowns>>

Exit ==
  /\ pc = "poll"
  /\ ~running
  /\ pc' = "down"
  /\ signalled' = FALSE
  /\ UNCHANGED <<topic, consumer, channel, prefs, notification_log, now,
                 history, crashes, shutdowns>>

\* The process is gone, and what it held in memory with it.
Die ==
  /\ pc' = "down"
  /\ running' = FALSE
  /\ signalled' = FALSE
  /\ channel' = NoChannel
  /\ sent' = FALSE
  /\ UNCHANGED <<topic, committed, position, cursor, prefs, notification_log,
                 now, outcomes, attempts, late_sends, shutdowns>>

\* The process is killed, or a statement of it raises: the only step left to a
\* handler that Raises.
Crash ==
  /\ pc # "down"
  /\ crashes < MaxCrashes
  /\ crashes' = crashes + 1
  /\ Die

\* The value_deserializer raises out of poll on a value that is no UTF-8 JSON:
\* on any that was fetched, also behind the records poll would return, for a
\* client that deserializes a fetch as a whole.  Nothing was handled since the
\* last commit, so the next process starts at the same offset.
PollRaises ==
  /\ pc = "poll"
  /\ running
  /\ \E i \in position + 1..Len(topic) : ~Decodable(i)
  /\ Die
  /\ UNCHANGED crashes

-----------------------------------------------------------------------------
(* _handle_message, one action per await.                                  *)

\* What the checks before the dispatch leave alone.
CheckOnly == UNCHANGED <<topic, prefs, notification_log, now, attempts,
                         late_sends, faults>>

\* model_validate fails: logged, and the handler returns.
Invalid ==
  /\ pc = "opt_out"
  /\ Current.body # "valid"
  /\ Return("invalid")
  /\ CheckOnly

\* Faulty variant: the router never asks whether the customer opted out.
is_opted_out_Skipped ==
  /\ pc = "opt_out"
  /\ Current.body = "valid"
  /\ ~Raises
  /\ GoOn("quiet_hours")
  /\ CheckOnly

is_opted_out ==
  /\ pc = "opt_out"
  /\ Current.body = "valid"
  /\ ~Raises
  /\ IF Pref.opted_out THEN Return("opted_out") ELSE GoOn("quiet_hours")
  /\ CheckOnly

is_quiet_hours ==
  /\ pc = "quiet_hours"
  /\ IF Pref.quiet /\ now \in NightTicks
     THEN Return("quiet")
     ELSE GoOn("resolve_channel")
  /\ CheckOnly

\* The stored preference wins over the channel the event asks for.
resolve_channel ==
  /\ pc = "resolve_channel"
  /\ channel' = IF Pref.preferred # NoChannel THEN Pref.preferred
                                              ELSE Current.channel
  /\ pc' = "frequency_cap"
  /\ UNCHANGED <<consumer, outcomes, sent>>
  /\ CheckOnly

\* Entries of the log for a customer on the channels chs in the last span ticks.
SentWithin(c, chs, span) ==
  Cardinality({k \in DOMAIN notification_log :
                 /\ notification_log[k].customer = c
                 /\ notification_log[k].channel \in chs
                 /\ notification_log[k].sent_at >= now - span})

\* Faulty variant: one notification more than the cap gets through.
check_frequency_cap_OffByOne ==
  /\ pc = "frequency_cap"
  /\ ~Raises
  /\ LET c == Current.customer IN
     IF /\ SentWithin(c, {channel}, DayTicks) =< Pref.max_day
        /\ SentWithin(c, {channel}, WeekTicks) =< Pref.max_week
     THEN GoOn("dispatch")
     ELSE Return("capped")
  /\ CheckOnly

check_frequency_cap ==
  /\ pc = "frequency_cap"
  /\ ~Raises
  /\ LET c == Current.customer IN
     IF /\ SentWithin(c, {channel}, DayTicks) < Pref.max_day
        /\ SentWithin(c, {channel}, WeekTicks) < Pref.max_week
     THEN GoOn("dispatch")
     ELSE Return("capped")
  /\ CheckOnly

\* _dispatch: adapter.send returns, or raises and is logged, or no adapter has
\* that name.  The handler goes on to record_notification in all three cases.
dispatch ==
  /\ pc = "dispatch"
  /\ pc' = "record"
  /\ IF channel \in Adapters
     THEN /\ attempts' = [attempts EXCEPT ![cursor + 1] = @ + 1]
          /\ late_sends' = [late_sends EXCEPT
               ![Current.customer] = IF Pref.opted_out THEN @ + 1 ELSE @]
          /\ sent' \in BOOLEAN
     ELSE UNCHANGED <<attempts, late_sends, sent>>
  /\ UNCHANGED <<topic, consumer, channel, prefs, notification_log, now,
                 outcomes, faults>>

Logged ==
  notification_log' = Append(notification_log,
    [customer |-> Current.customer, channel |-> channel, sent_at |-> now])

\* Faulty variant: a handler that may try the whole message again.
record_notification_Retries ==
  /\ pc = "record"
  /\ ~Raises
  /\ Logged
  /\ GoOn("opt_out") \/ Return(IF sent THEN "sent" ELSE "unsent")
  /\ UNCHANGED <<topic, prefs, now, attempts, late_sends, faults>>

\* One entry whatever became of the send.
record_notification ==
  /\ pc = "record"
  /\ ~Raises
  /\ Logged
  /\ Return(IF sent THEN "sent" ELSE "unsent")
  /\ UNCHANGED <<topic, prefs, now, attempts, late_sends, faults>>

handle_message ==
  \/ Invalid
  \/ is_opted_out
  \/ is_quiet_hours
  \/ resolve_channel
  \/ check_frequency_cap
  \/ dispatch
  \/ record_notification

RouterStep ==
  Restart \/ Poll \/ PollRaises \/ handle_message \/ Commit \/ Exit

Next ==
  \/ Publish
  \/ Tick
  \/ \E c \in Customers \ (Refused \union Oversized) : UpdatePreference(c)
  \/ RouterStep
  \/ SIGTERM
  \/ request_shutdown
  \/ Crash

Spec == Init /\ [][Next]_vars

\* The process is restarted by its supervisor and never stops between two
\* awaits; a signal that is pending at one await after the other is dispatched;
\* only finitely many crashes and shutdowns occur (their bounds).
FairSpec == Spec /\ WF_vars(RouterStep) /\ SF_vars(request_shutdown)

-----------------------------------------------------------------------------
(* Properties.                                                             *)

\* Settled: the offsets whose handler has run to its end at least once.
Settled == {i \in Offsets : outcomes[i] # {}}

\* CommittedIsSettled: however crashes and shutdowns fall between poll and
\* commit, no offset is committed before its handler has ended, so no message
\* is lost (run commits after the batch, not before it).
CommittedIsSettled == \A i \in 1..committed : i \in Settled

\* RedeliveryNeedsCrash: a notification is handed to an adapter again only
\* because the process died before its batch was committed, by a crash or by a
\* statement that raised; neither a shutdown (the flag is read between batches
\* only) nor a value poll cannot decode ever duplicates one.
RedeliveryNeedsCrash == \A i \in Offsets : attempts[i] =< 1 + crashes

\* OneLateSend: preferences are read once per message and sent upon later, so
\* an opt-out can be overtaken by the message in flight, and by no other, even
\* when that message is delivered again after a crash.
OneLateSend == \A c \in Customers : late_sends[c] =< 1

\* ChannelCap: on one channel the log never holds more entries of a day or a
\* week than the largest limit the customer can have had.
ChannelCap ==
  \A c \in Customers, ch \in Channels :
    /\ SentWithin(c, {ch}, DayTicks) =< LargestCap(1, DefaultMaxPerDay)
    /\ SentWithin(c, {ch}, WeekTicks) =< LargestCap(2, DefaultMaxPerWeek)

\* EventsSettleUnlessPoison: whatever crashes and shutdowns happen, each
\* published event is in the end handled and committed, unless the topic holds
\* a message the router cannot get past: that one is never committed, and what
\* is published behind it, or in a batch with it, waits forever.
EventsSettleUnlessPoison ==
  \A i \in Offsets :
    (Len(topic) >= i) ~>
      (committed >= i \/ \E j \in DOMAIN topic : MayRaise(topic[j]))

\* ImplementsAtLeastOnce: the router is an at-least-once consumer.
Consumer == INSTANCE AtLeastOnceConsumer WITH
              produced <- Len(topic), processed <- Settled
ImplementsAtLeastOnce == Consumer!ConsumerSpec

-----------------------------------------------------------------------------
(* The inductive invariants behind the safety properties.                  *)

Handling == {"opt_out", "quiet_hours", "resolve_channel", "frequency_cap",
             "dispatch", "record"}

\* OffsetsInv: the batch in hand is committed+1..position, its messages up to
\* cursor are settled, and between batches nothing is left to commit.
OffsetsInv ==
  /\ committed =< cursor
  /\ cursor =< position
  /\ position =< Len(topic)
  /\ pc \in Handling => cursor < position
  /\ pc = "commit" => cursor = position
  /\ pc = "poll" => committed = cursor /\ cursor = position
  /\ \A i \in 1..cursor : i \in Settled

\* LocalsInv: past resolve_channel the handler has an effective channel.
LocalsInv ==
  pc \in {"frequency_cap", "dispatch", "record"} => channel \in Channels

\* AttemptsInv: a message that is not handled yet was sent in earlier
\* incarnations only, at most once in each.
AttemptsInv ==
  \A i \in Offsets :
    /\ attempts[i] =< 1 + crashes
    /\ (pc # "down" /\ i > cursor /\ ~(i = cursor + 1 /\ pc = "record"))
         => attempts[i] =< crashes
    /\ (pc = "down" /\ i > committed) => attempts[i] =< crashes

\* PastOptOutCheck: the message in hand is c's and its opt-out check is over.
PastOptOutCheck(c) ==
  /\ pc \in Handling \ {"opt_out", "record"}
  /\ Current.customer = c

\* LateSendsInv: an opt-out leaves room for the message already past the check.
LateSendsInv ==
  \A c \in Customers :
    /\ ~prefs[c].opted_out => late_sends[c] = 0
    /\ late_sends[c] =< 1
    /\ PastOptOutCheck(c) => late_sends[c] = 0

\* CapsInv: no limit exceeds the largest, and the message past the cap check
\* has room left under it on its channel.
CapsInv ==
  /\ \A c \in Customers :
       /\ prefs[c].max_day =< LargestCap(1, DefaultMaxPerDay)
       /\ prefs[c].max_week =< LargestCap(2, DefaultMaxPerWeek)
  /\ ChannelCap
  /\ pc \in {"dispatch", "record"} =>
       /\ SentWithin(Current.customer, {channel}, DayTicks)
            < LargestCap(1, DefaultMaxPerDay)
       /\ SentWithin(Current.customer, {channel}, WeekTicks)
            < LargestCap(2, DefaultMaxPerWeek)

BatchInv == TypeOK /\ OffsetsInv /\ LocalsInv
IInv == BatchInv /\ AttemptsInv /\ LateSendsInv /\ CapsInv

-----------------------------------------------------------------------------
(* What the repository says of the router and the code does not do.        *)

\* EveryEventSettles: router.py:111-114, a payload that cannot be used is logged
\* and skipped; no message would then keep the group from moving on.
EveryEventSettles ==
  \A i \in Offsets : (Len(topic) >= i) ~> (committed >= i)

\* ShutdownStops: router.py:80, run "Blocks until a shutdown signal is received":
\* a router that was sent a signal stops.
ShutdownStops == signalled ~> (pc = "down")

\* QuietHoursDefer: router.py:125 logs that a notification met in quiet hours
\* is deferred; it would then still be deliverable after the batch.
QuietHoursDefer == \A i \in 1..committed : outcomes[i] # {"quiet"}

\* LoggedWasSent: preference_service.py:223, an entry is appended "after a
\* notification is successfully sent".
LoggedWasSent == \A i \in Offsets : "unsent" \notin outcomes[i]

\* CustomerCap: preference_service.py:184, "the customer's daily and weekly
\* caps": the caps bound what a customer is sent, on whatever channel.
CustomerCap ==
  \A c \in Customers :
    /\ SentWithin(c, Channels, DayTicks) =< LargestCap(1, DefaultMaxPerDay)
    /\ SentWithin(c, Channels, WeekTicks) =< LargestCap(2, DefaultMaxPerWeek)
=============================================================================
