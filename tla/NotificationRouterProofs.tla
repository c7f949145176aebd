---------------------- MODULE NotificationRouterProofs ----------------------
(***************************************************************************)
(* The safety properties of the notification router, for every topic,      *)
(* every batch size and any number of crashes, shutdowns and preference    *)
(* updates.                                                                *)
(*                                                                         *)
(* BatchInv (the bookkeeping of offsets) is inductive by itself;           *)
(* AttemptsInv, LateSendsInv and CapsInv are each inductive relative to it.*)
(***************************************************************************)
EXTENDS NotificationRouter, FiniteSetTheorems, TLAPS

LEMMA BatchInit == Init => BatchInv
<1> SUFFICES ASSUME Init PROVE BatchInv
    OBVIOUS
<1>1. NoRow \in Preference
    BY CapAssumption DEF NoRow, Preference
<1>2. TypeOK
  <2>1. running \in BOOLEAN /\ sent \in BOOLEAN /\ signalled \in BOOLEAN
      BY DEF Init
  <2>2. /\ topic \in Seq(Payloads) /\ Len(topic) =< MaxEvents
        /\ notification_log \in Seq(LogEntry)
      BY TopicAssumption DEF Init
  <2>3. /\ prefs \in [Customers -> Preference]
        /\ outcomes \in [Offsets -> SUBSET Outcomes]
        /\ attempts \in [Offsets -> Nat]
        /\ late_sends \in [Customers -> Nat]
      BY <1>1 DEF Init
  <2>4. /\ committed \in 0..MaxEvents /\ position \in 0..MaxEvents
        /\ cursor \in 0..MaxEvents /\ now \in 0..MaxNow
        /\ crashes \in 0..MaxCrashes /\ shutdowns \in 0..MaxShutdowns
        /\ pc \in Steps /\ channel \in Channels \union {NoChannel}
      BY TimeAssumption, TopicAssumption, FaultAssumption DEF Init, Steps
  <2> QED
      BY <2>1, <2>2, <2>3, <2>4 DEF TypeOK
<1>3. OffsetsInv /\ LocalsInv
    BY DEF Init, OffsetsInv, LocalsInv, Handling
<1> QED
    BY <1>2, <1>3 DEF BatchInv

\* Facts of the message in hand.
LEMMA CurrentTyped ==
  ASSUME BatchInv, pc \in Handling
  PROVE  /\ cursor + 1 \in Offsets
         /\ Current \in Event
         /\ Current.customer \in Customers
         /\ Current.channel \in Channels
         /\ Pref \in Preference
BY TopicAssumption
   DEF BatchInv, TypeOK, OffsetsInv, Offsets, Current, Pref, Event

\* The Boolean variables, which no other part of the invariant mentions.
LEMMA FlagsTyped ==
  ASSUME running \in BOOLEAN, sent \in BOOLEAN, signalled \in BOOLEAN,
         [Next]_vars
  PROVE  running' \in BOOLEAN /\ sent' \in BOOLEAN /\ signalled' \in BOOLEAN
<1>1. CASE UNCHANGED vars
    BY <1>1 DEF vars, consumer, history, faults
<1>2. CASE Publish \/ Tick \/ SIGTERM \/ request_shutdown \/ Crash
    BY <1>2 DEF Publish, Tick, SIGTERM, request_shutdown, Crash, Die, consumer,
                history, faults
<1>3. ASSUME NEW c \in Customers, UpdatePreference(c)
      PROVE  running' \in BOOLEAN /\ sent' \in BOOLEAN /\ signalled' \in BOOLEAN
    BY <1>3 DEF UpdatePreference, opt_out, opt_in, SetChannel, SetCaps,
                SetQuietHours, Upsert, consumer, faults
<1>4. CASE Restart \/ Poll \/ PollRaises \/ Commit \/ Exit
    BY <1>4 DEF Restart, Poll, PollRaises, Die, Commit, Exit, consumer, history,
                faults
<1>5. CASE handle_message
    BY <1>5 DEF handle_message, Invalid, is_opted_out, is_quiet_hours,
                resolve_channel, check_frequency_cap, dispatch,
                record_notification, Return, GoOn, CheckOnly, consumer, faults
<1> QED
    BY <1>1, <1>2, <1>3, <1>4, <1>5 DEF Next, RouterStep

\* The other conjuncts of TypeOK.
TypeRest ==
  /\ topic \in Seq(Payloads) /\ Len(topic) =< MaxEvents
  /\ committed \in 0..MaxEvents
  /\ position \in 0..MaxEvents
  /\ cursor \in 0..MaxEvents
  /\ pc \in Steps
  /\ channel \in Channels \union {NoChannel}
  /\ prefs \in [Customers -> Preference]
  /\ notification_log \in Seq(LogEntry)
  /\ now \in 0..MaxNow
  /\ outcomes \in [Offsets -> SUBSET Outcomes]
  /\ attempts \in [Offsets -> Nat]
  /\ late_sends \in [Customers -> Nat]
  /\ crashes \in 0..MaxCrashes
  /\ shutdowns \in 0..MaxShutdowns

LEMMA TypeSplit ==
  /\ TypeOK => /\ TypeRest
               /\ running \in BOOLEAN /\ sent \in BOOLEAN /\ signalled \in BOOLEAN
  /\ /\ TypeRest'
     /\ running' \in BOOLEAN /\ sent' \in BOOLEAN /\ signalled' \in BOOLEAN
     => TypeOK'
BY DEF TypeOK, TypeRest

\* The bookkeeping every end of a handler does.
LEMMA ReturnStep ==
  ASSUME TypeRest, OffsetsInv, pc \in Handling, topic' = topic,
         NEW outcome \in Outcomes, Return(outcome)
  PROVE  /\ cursor' = cursor + 1 /\ cursor' \in 0..MaxEvents
         /\ committed' = committed /\ position' = position
         /\ pc' \in {"opt_out", "commit"}
         /\ channel' = NoChannel
         /\ outcomes' \in [Offsets -> SUBSET Outcomes]
         /\ OffsetsInv' /\ LocalsInv'
<1>1. /\ cursor + 1 \in Offsets /\ cursor' = cursor + 1
      /\ committed' = committed /\ position' = position
      /\ pc' = IF cursor + 1 = position THEN "commit" ELSE "opt_out"
      /\ channel' = NoChannel
    BY TopicAssumption DEF Return, TypeRest, OffsetsInv, Offsets
<1>2. outcomes' = [outcomes EXCEPT ![cursor + 1] = @ \union {outcome}]
    BY DEF Return
<1>3. outcomes' \in [Offsets -> SUBSET Outcomes]
    BY <1>2 DEF TypeRest
<1>4. \A i \in 1..cursor' : outcomes'[i] # {}
  <2> SUFFICES ASSUME NEW i \in 1..cursor' PROVE outcomes'[i] # {}
      OBVIOUS
  <2>1. i \in Offsets
      BY <1>1, TopicAssumption DEF TypeRest, Offsets
  <2>2. CASE i = cursor + 1
      BY <2>1, <2>2, <1>2 DEF TypeRest
  <2>3. CASE i # cursor + 1
    <3>1. i \in 1..cursor
        BY <2>3, <1>1 DEF TypeRest
    <3>2. outcomes'[i] = outcomes[i]
        BY <2>1, <2>3, <1>2 DEF TypeRest
    <3> QED
        BY <3>1, <3>2 DEF OffsetsInv, Settled
  <2> QED
      BY <2>2, <2>3
<1>5. \A i \in 1..cursor' : i \in Offsets
    BY <1>1, TopicAssumption DEF TypeRest, Offsets
<1>6. OffsetsInv'
    BY <1>1, <1>4, <1>5 DEF OffsetsInv, Settled, TypeRest, Handling
<1> QED
    BY <1>1, <1>3, <1>6, TopicAssumption DEF LocalsInv, TypeRest, Offsets

\* A handler that goes on keeps its message.
LEMMA GoOnStep ==
  ASSUME TypeRest, OffsetsInv, LocalsInv, pc \in Handling, topic' = topic,
         NEW step \in Handling, GoOn(step),
         step \in {"frequency_cap", "dispatch", "record"}
           => channel \in Channels
  PROVE  /\ cursor' = cursor /\ committed' = committed
         /\ position' = position /\ pc' = step /\ channel' = channel
         /\ outcomes' = outcomes
         /\ OffsetsInv' /\ LocalsInv'
BY DEF GoOn, consumer, OffsetsInv, LocalsInv, Settled, Handling

\* Steps that leave the offsets, the handler and its message alone.
LEMMA OffsetsKept ==
  ASSUME TypeRest, OffsetsInv, LocalsInv, Len(topic') >= Len(topic),
         Len(topic') \in Nat,
         UNCHANGED <<committed, position, cursor, pc, channel, outcomes>>
  PROVE  OffsetsInv' /\ LocalsInv'
<1>1. Settled' = Settled
    BY DEF Settled, Offsets
<1>2. Len(topic) \in Nat /\ position \in Int
    BY DEF TypeRest
<1>3. position =< Len(topic')
    BY <1>2 DEF OffsetsInv
<1> QED
    BY <1>1, <1>3 DEF OffsetsInv, LocalsInv, Handling

\* A preference update keeps the record of every customer well formed.
LEMMA UpdateTyped ==
  ASSUME TypeRest, NEW c \in Customers, UpdatePreference(c)
  PROVE  /\ prefs' \in [Customers -> Preference]
         /\ late_sends' \in [Customers -> Nat]
         /\ UNCHANGED <<topic, committed, position, cursor, pc, channel,
                        notification_log, now, outcomes, attempts, faults>>
<1>1. Row(c) \in Preference
  <2>1. prefs[c] \in Preference
      BY DEF TypeRest
  <2> QED
      BY <2>1, ChannelAssumption DEF Row, Preference, Channels
<1>2. ASSUME NEW row \in Preference, Upsert(c, row)
      PROVE  /\ prefs' \in [Customers -> Preference]
             /\ UNCHANGED <<topic, committed, position, cursor, pc, channel,
                            notification_log, now, outcomes, attempts, faults>>
    BY <1>2 DEF Upsert, TypeRest, consumer, faults
<1>3. CASE opt_out(c)
  <2>1. [Row(c) EXCEPT !.opted_out = TRUE] \in Preference
      BY <1>1 DEF Preference
  <2> QED
      BY <1>2, <1>3, <2>1 DEF opt_out, TypeRest
<1>4. CASE opt_in(c)
  <2>1. [Row(c) EXCEPT !.opted_out = FALSE] \in Preference
      BY <1>1 DEF Preference
  <2>2. late_sends' \in [Customers -> Nat]
      BY <1>4 DEF opt_in, TypeRest
  <2> QED
      BY <1>2, <1>4, <2>1, <2>2 DEF opt_in
<1>5. ASSUME NEW ch \in ChannelChoices, SetChannel(c, ch)
      PROVE  /\ prefs' \in [Customers -> Preference]
             /\ UNCHANGED late_sends
             /\ UNCHANGED <<topic, committed, position, cursor, pc, channel,
                            notification_log, now, outcomes, attempts, faults>>
  <2>1. [Row(c) EXCEPT !.preferred = ch] \in Preference
      BY <1>1, ChoiceAssumption DEF Preference
  <2> QED
      BY <1>2, <1>5, <2>1 DEF SetChannel
<1>6. ASSUME NEW caps \in CapChoices, SetCaps(c, caps)
      PROVE  /\ prefs' \in [Customers -> Preference]
             /\ UNCHANGED late_sends
             /\ UNCHANGED <<topic, committed, position, cursor, pc, channel,
                            notification_log, now, outcomes, attempts, faults>>
  <2>1. caps[1] \in Nat /\ caps[2] \in Nat
      BY CapAssumption
  <2>2. [Row(c) EXCEPT !.max_day = caps[1], !.max_week = caps[2]] \in Preference
      BY <1>1, <2>1 DEF Preference
  <2> QED
      BY <1>2, <1>6, <2>2 DEF SetCaps
<1>7. ASSUME NEW q \in QuietChoices, SetQuietHours(c, q)
      PROVE  /\ prefs' \in [Customers -> Preference]
             /\ UNCHANGED late_sends
             /\ UNCHANGED <<topic, committed, position, cursor, pc, channel,
                            notification_log, now, outcomes, attempts, faults>>
  <2>1. [Row(c) EXCEPT !.quiet = q] \in Preference
    <3>1. q \in BOOLEAN
        BY ChoiceAssumption
    <3> QED
        BY <1>1, <3>1 DEF Preference
  <2> QED
      BY <1>2, <1>7, <2>1 DEF SetQuietHours
<1> QED
    BY <1>3, <1>4, <1>5, <1>6, <1>7 DEF UpdatePreference, TypeRest

LEMMA BatchNext ==
  ASSUME BatchInv, [Next]_vars
  PROVE  BatchInv'
<1> USE TopicAssumption DEF BatchInv
<1>1. /\ TypeRest /\ OffsetsInv /\ LocalsInv
      /\ running \in BOOLEAN /\ sent \in BOOLEAN /\ signalled \in BOOLEAN
    BY TypeSplit
<1>2. running' \in BOOLEAN /\ sent' \in BOOLEAN /\ signalled' \in BOOLEAN
    BY <1>1, FlagsTyped
<1>3. SUFFICES TypeRest' /\ OffsetsInv' /\ LocalsInv'
    BY <1>2, TypeSplit
<1>4. CASE UNCHANGED vars
  <2>1. UNCHANGED <<topic, committed, position, cursor, pc, channel, prefs,
                    notification_log, now, outcomes, attempts, late_sends,
                    crashes, shutdowns>>
      BY <1>4 DEF vars, consumer, history, faults
  <2>2. TypeRest'
      BY <1>1, <2>1 DEF TypeRest
  <2>3. Len(topic) \in Nat
      BY <1>1 DEF TypeRest
  <2> QED
      BY <1>1, <2>1, <2>2, <2>3, OffsetsKept
<1>5. CASE Publish
  <2>1. PICK e \in Payloads : topic' = Append(topic, e)
      BY <1>5 DEF Publish
  <2>2. /\ topic' \in Seq(Payloads) /\ Len(topic') = Len(topic) + 1
        /\ Len(topic') =< MaxEvents /\ Len(topic) \in Nat
      BY <1>1, <1>5, <2>1 DEF Publish, TypeRest
  <2>3. UNCHANGED <<committed, position, cursor, pc, channel, prefs,
                    notification_log, now, outcomes, attempts, late_sends,
                    crashes, shutdowns>>
      BY <1>5 DEF Publish, consumer, history, faults
  <2>4. TypeRest'
      BY <1>1, <2>2, <2>3 DEF TypeRest
  <2>5. Len(topic') >= Len(topic) /\ Len(topic') \in Nat
      BY <2>2
  <2> QED
      BY <1>1, <2>3, <2>4, <2>5, OffsetsKept
<1>6. CASE Tick
  <2>1. now' \in 0..MaxNow
      BY <1>1, <1>6, TimeAssumption DEF Tick, TypeRest
  <2>2. UNCHANGED <<topic, committed, position, cursor, pc, channel, prefs,
                    notification_log, outcomes, attempts, late_sends,
                    crashes, shutdowns>>
      BY <1>6 DEF Tick, consumer, history, faults
  <2>3. TypeRest'
      BY <1>1, <2>1, <2>2 DEF TypeRest
  <2>4. Len(topic) \in Nat
      BY <1>1 DEF TypeRest
  <2> QED
      BY <1>1, <2>2, <2>3, <2>4, OffsetsKept
<1>7. ASSUME NEW c \in Customers, UpdatePreference(c)
      PROVE  TypeRest' /\ OffsetsInv' /\ LocalsInv'
  <2>1. /\ prefs' \in [Customers -> Preference]
        /\ late_sends' \in [Customers -> Nat]
        /\ UNCHANGED <<topic, committed, position, cursor, pc, channel,
                       notification_log, now, outcomes, attempts, faults>>
      BY <1>1, <1>7, UpdateTyped
  <2>2. TypeRest'
      BY <1>1, <2>1 DEF TypeRest, faults
  <2>3. Len(topic) \in Nat
      BY <1>1 DEF TypeRest
  <2> QED
      BY <1>1, <2>1, <2>2, <2>3, OffsetsKept
<1>8. CASE Restart
  <2>1. /\ pc' = "poll" /\ position' = committed /\ cursor' = committed
        /\ UNCHANGED <<topic, committed, channel, prefs, notification_log,
                       now, outcomes, attempts, late_sends, faults>>
      BY <1>8 DEF Restart, history
  <2>2. TypeRest'
      BY <1>1, <2>1 DEF TypeRest, Steps, faults
  <2>3. Settled' = Settled
      BY <2>1 DEF Settled, Offsets
  <2>4. OffsetsInv' /\ LocalsInv'
    <3>1. \A i \in 1..committed : i \in 1..cursor
        BY <1>1 DEF TypeRest, OffsetsInv
    <3>2. committed =< Len(topic)
        BY <1>1 DEF TypeRest, OffsetsInv
    <3>3. committed =< committed
        BY <1>1 DEF TypeRest
    <3> QED
        BY <1>1, <2>1, <2>3, <3>1, <3>2, <3>3
           DEF OffsetsInv, LocalsInv, Handling
  <2> QED
      BY <2>2, <2>4
<1>9. CASE Poll
  <2>1. PICK n \in 1..MaxPollRecords :
          position + n =< Len(topic) /\ position' = position + n
      BY <1>9 DEF Poll
  <2>2. /\ pc = "poll" /\ pc' = "opt_out"
        /\ UNCHANGED <<topic, committed, cursor, channel, prefs,
                       notification_log, now, outcomes, attempts, late_sends,
                       faults>>
      BY <1>9 DEF Poll, history
  <2>3. /\ n \in Nat /\ n >= 1 /\ Len(topic) \in Nat
        /\ position' \in 0..MaxEvents
      BY <1>1, <2>1 DEF TypeRest
  <2>4. TypeRest'
      BY <1>1, <2>2, <2>3 DEF TypeRest, Steps, faults
  <2>5. Settled' = Settled
      BY <2>2 DEF Settled, Offsets
  <2>6. OffsetsInv' /\ LocalsInv'
    <3>1. cursor < position' /\ cursor =< position'
        BY <1>1, <2>1, <2>2, <2>3 DEF TypeRest, OffsetsInv
    <3> QED
        BY <1>1, <2>1, <2>2, <2>5, <3>1 DEF OffsetsInv, LocalsInv, Handling
  <2> QED
      BY <2>4, <2>6
<1>10. CASE Commit
  <2>1. /\ pc = "commit" /\ pc' = "poll" /\ committed' = position
        /\ UNCHANGED <<topic, position, cursor, channel, prefs,
                       notification_log, now, outcomes, attempts, late_sends,
                       faults>>
      BY <1>10 DEF Commit, history
  <2>2. TypeRest'
      BY <1>1, <2>1 DEF TypeRest, Steps, faults
  <2>3. OffsetsInv' /\ LocalsInv'
      BY <1>1, <2>1
         DEF TypeRest, OffsetsInv, LocalsInv, Settled, Offsets, Handling
  <2> QED
      BY <2>2, <2>3
<1>11. CASE Exit \/ PollRaises \/ Crash
  <2>1. /\ pc' = "down" /\ channel' \in {channel, NoChannel}
        /\ UNCHANGED <<topic, committed, position, cursor, prefs,
                       notification_log, now, outcomes, attempts, late_sends,
                       shutdowns>>
        /\ UNCHANGED crashes \/ (crashes < MaxCrashes /\ crashes' = crashes + 1)
      BY <1>11 DEF Exit, PollRaises, Crash, Die, consumer, history, faults
  <2>2. TypeRest'
      BY <1>1, <2>1, FaultAssumption DEF TypeRest, Steps
  <2>3. OffsetsInv' /\ LocalsInv'
      BY <1>1, <2>1
         DEF TypeRest, OffsetsInv, LocalsInv, Settled, Offsets, Handling
  <2> QED
      BY <2>2, <2>3
<1>12. CASE SIGTERM \/ request_shutdown
  <2>1. /\ \/ UNCHANGED shutdowns
           \/ shutdowns < MaxShutdowns /\ shutdowns' = shutdowns + 1
        /\ UNCHANGED <<topic, committed, position, cursor, pc, channel, prefs,
                       notification_log, now, outcomes, attempts, late_sends,
                       crashes>>
      BY <1>12 DEF SIGTERM, request_shutdown, consumer, history
  <2>2. TypeRest'
      BY <1>1, <2>1, FaultAssumption DEF TypeRest
  <2>3. Len(topic) \in Nat
      BY <1>1 DEF TypeRest
  <2> QED
      BY <1>1, <2>1, <2>2, <2>3, OffsetsKept
<1>13. CASE handle_message
  <2>1. pc \in Handling
      BY <1>13 DEF handle_message, Invalid, is_opted_out, is_quiet_hours,
                   resolve_channel, check_frequency_cap, dispatch,
                   record_notification, Handling
  <2>2. /\ Current.customer \in Customers /\ Current.channel \in Channels
        /\ Pref \in Preference
      BY <2>1, CurrentTyped
  <2>3. CASE Invalid \/ is_opted_out \/ is_quiet_hours \/ check_frequency_cap
    <3>1. CheckOnly
        BY <2>3 DEF Invalid, is_opted_out, is_quiet_hours, check_frequency_cap
    <3>2. \/ \E o \in Outcomes : Return(o)
          \/ pc = "opt_out" /\ GoOn("quiet_hours")
          \/ pc = "quiet_hours" /\ GoOn("resolve_channel")
          \/ pc = "frequency_cap" /\ GoOn("dispatch")
        BY <2>3 DEF Invalid, is_opted_out, is_quiet_hours,
                    check_frequency_cap, Outcomes
    <3>3. CASE \E o \in Outcomes : Return(o)
        BY <1>1, <2>1, <3>1, <3>3, ReturnStep
           DEF CheckOnly, faults, TypeRest, Steps
    <3>4. ASSUME NEW step \in Handling, GoOn(step),
                 step \in {"frequency_cap", "dispatch", "record"}
                   => channel \in Channels
          PROVE  TypeRest' /\ OffsetsInv' /\ LocalsInv'
        BY <1>1, <2>1, <3>1, <3>4, GoOnStep
           DEF CheckOnly, faults, TypeRest, Steps, Handling
    <3>5. CASE \/ pc = "opt_out" /\ GoOn("quiet_hours")
               \/ pc = "quiet_hours" /\ GoOn("resolve_channel")
               \/ pc = "frequency_cap" /\ GoOn("dispatch")
        BY <1>1, <3>4, <3>5 DEF Handling, LocalsInv
    <3> QED
        BY <3>2, <3>3, <3>5
  <2>4. CASE resolve_channel
    <3>1. channel' \in Channels
        BY <2>2, <2>4 DEF resolve_channel, Preference
    <3> QED
        BY <1>1, <2>4, <3>1
           DEF resolve_channel, CheckOnly, consumer, faults, TypeRest,
               OffsetsInv, LocalsInv, Settled, Steps, Handling
  <2>5. CASE dispatch
    <3>1. attempts' \in {attempts, [attempts EXCEPT ![cursor + 1] = @ + 1]}
        BY <2>5 DEF dispatch
    <3>2. attempts' \in [Offsets -> Nat]
      <4>1. attempts \in [Offsets -> Nat]
          BY <1>1 DEF TypeRest
      <4>2. attempts[cursor + 1] + 1 \in Nat
          BY <2>1, <4>1, CurrentTyped
      <4>3. [attempts EXCEPT ![cursor + 1] = @ + 1] \in [Offsets -> Nat]
          BY <4>1, <4>2
      <4> QED
          BY <3>1, <4>1, <4>3
    <3>3. late_sends' \in {late_sends,
                           [late_sends EXCEPT ![Current.customer] = @ + 1]}
      <4>1. late_sends \in [Customers -> Nat]
          BY <1>1 DEF TypeRest
      <4> QED
          BY <2>5, <4>1 DEF dispatch
    <3>4. late_sends' \in [Customers -> Nat]
        BY <1>1, <3>3 DEF TypeRest
    <3> QED
        BY <1>1, <2>5, <3>2, <3>4
           DEF dispatch, consumer, faults, TypeRest, OffsetsInv, LocalsInv,
               Settled, Steps, Handling
  <2>6. CASE record_notification
    <3>1. \E o \in Outcomes : Return(o)
        BY <2>6 DEF record_notification, Outcomes
    <3>2. notification_log' \in Seq(LogEntry)
      <4>1. channel \in Channels /\ now \in Nat
          BY <1>1, <2>6, TimeAssumption DEF record_notification, LocalsInv, TypeRest
      <4> QED
          BY <1>1, <2>2, <2>6, <4>1
             DEF record_notification, Logged, LogEntry, TypeRest
    <3> QED
        BY <1>1, <2>1, <2>6, <3>1, <3>2, ReturnStep
           DEF record_notification, faults, TypeRest, Steps
  <2> QED
      BY <1>13, <2>3, <2>4, <2>5, <2>6 DEF handle_message
<1> QED
    BY <1>4, <1>5, <1>6, <1>7, <1>8, <1>9, <1>10, <1>11, <1>12, <1>13
       DEF Next, RouterStep

\* RouterBatchInv: the bookkeeping of offsets is right in every reachable state.
THEOREM RouterBatchInv == Spec => []BatchInv
<1>1. Init => BatchInv
    BY BatchInit
<1>2. BatchInv /\ [Next]_vars => BatchInv'
    BY BatchNext
<1> QED
    BY <1>1, <1>2, PTL DEF Spec

\* RouterTypeCorrect: run, _handle_message and the preference updates keep every
\* variable in its type.
THEOREM RouterTypeCorrect == Spec => []TypeOK
<1>1. BatchInv => TypeOK
    BY DEF BatchInv
<1> QED
    BY <1>1, RouterBatchInv, PTL

\* RouterCommitsSettled: whatever the batches, crashes and shutdowns, run()
\* commits no offset whose message was not handled to its end.
THEOREM RouterCommitsSettled == Spec => []CommittedIsSettled
<1>1. BatchInv => CommittedIsSettled
  <2> SUFFICES ASSUME BatchInv, NEW i \in 1..committed PROVE i \in Settled
      BY DEF CommittedIsSettled
  <2>1. i \in 1..cursor
      BY DEF BatchInv, TypeOK, OffsetsInv
  <2> QED
      BY <2>1 DEF BatchInv, OffsetsInv
<1> QED
    BY <1>1, RouterBatchInv, PTL

-----------------------------------------------------------------------------
(* Redelivery.                                                             *)

\* What a step of the handler does to the counters AttemptsInv relates.
LEMMA HandlerStep ==
  ASSUME TypeRest, OffsetsInv, handle_message
  PROVE  /\ pc \in Handling /\ UNCHANGED <<crashes, committed>>
         /\ \/ /\ pc # "record" /\ pc' \notin {"down", "record"}
               /\ cursor' \in {cursor, cursor + 1} /\ attempts' = attempts
            \/ /\ pc = "record" /\ pc' \notin {"down", "record"}
               /\ cursor' = cursor + 1 /\ attempts' = attempts
            \/ /\ pc = "dispatch" /\ pc' = "record" /\ cursor' = cursor
               /\ attempts' \in
                    {attempts, [attempts EXCEPT ![cursor + 1] = @ + 1]}
BY DEF handle_message, Invalid, is_opted_out, is_quiet_hours, resolve_channel,
       check_frequency_cap, dispatch, record_notification, CheckOnly, Return,
       GoOn, consumer, faults, Handling

LEMMA AttemptsNext ==
  ASSUME BatchInv, AttemptsInv, [Next]_vars
  PROVE  AttemptsInv'
<1>1. /\ TypeRest /\ OffsetsInv
    BY TypeSplit DEF BatchInv
<1>2. /\ cursor \in Nat /\ committed \in Nat /\ crashes \in Nat
      /\ \A i \in Offsets : i \in Nat /\ attempts[i] \in Nat
    BY <1>1, TopicAssumption, FaultAssumption DEF TypeRest, Offsets
<1>3. \A i \in Offsets : i \in Offsets'
    BY DEF Offsets
<1> SUFFICES ASSUME NEW i \in Offsets
             PROVE  /\ attempts'[i] =< 1 + crashes'
                    /\ (pc' # "down" /\ i > cursor'
                          /\ ~(i = cursor' + 1 /\ pc' = "record"))
                         => attempts'[i] =< crashes'
                    /\ (pc' = "down" /\ i > committed')
                         => attempts'[i] =< crashes'
    BY <1>3 DEF AttemptsInv, Offsets
<1>4. /\ attempts[i] =< 1 + crashes
      /\ (pc # "down" /\ i > cursor /\ ~(i = cursor + 1 /\ pc = "record"))
           => attempts[i] =< crashes
      /\ (pc = "down" /\ i > committed) => attempts[i] =< crashes
    BY DEF AttemptsInv
<1>5. i \in Nat /\ attempts[i] \in Nat
    BY <1>2
<1>6. CASE UNCHANGED <<committed, cursor, pc, attempts, crashes>>
    BY <1>4, <1>6
<1>7. CASE UNCHANGED vars \/ Publish \/ Tick \/ SIGTERM \/ request_shutdown
    BY <1>6, <1>7 DEF vars, consumer, history, faults, Publish, Tick,
                      SIGTERM, request_shutdown
<1>8. ASSUME NEW c \in Customers, UpdatePreference(c)
      PROVE  UNCHANGED <<committed, cursor, pc, attempts, crashes>>
    BY <1>1, <1>8, UpdateTyped DEF faults
<1>9. CASE Poll \/ Commit
  <2>1. /\ pc \notin {"down", "record"} /\ pc' \notin {"down", "record"}
        /\ UNCHANGED <<cursor, attempts, crashes>>
      BY <1>9 DEF Poll, Commit, history, faults
  <2> QED
      BY <1>4, <2>1
<1>10. CASE Restart
  <2>1. /\ pc = "down" /\ pc' = "poll" /\ cursor' = committed
        /\ UNCHANGED <<committed, attempts, crashes>>
      BY <1>10 DEF Restart, history, faults
  <2> QED
      BY <1>4, <2>1
<1>11. CASE Exit \/ PollRaises
  <2>1. /\ pc = "poll" /\ pc' = "down"
        /\ UNCHANGED <<committed, cursor, attempts, crashes>>
      BY <1>11 DEF Exit, PollRaises, Die, consumer, history, faults
  <2>2. committed = cursor
      BY <1>1, <2>1 DEF OffsetsInv
  <2> QED
      BY <1>4, <2>1, <2>2
<1>12. CASE Crash
  <2>1. pc' = "down" /\ crashes' = crashes + 1 /\ attempts' = attempts
      BY <1>12 DEF Crash, Die
  <2> QED
      BY <1>2, <1>4, <1>5, <2>1
<1>13. CASE handle_message
  <2>1. /\ pc \in Handling /\ UNCHANGED <<crashes, committed>>
        /\ \/ /\ pc # "record" /\ pc' \notin {"down", "record"}
              /\ cursor' \in {cursor, cursor + 1} /\ attempts' = attempts
           \/ /\ pc = "record" /\ pc' \notin {"down", "record"}
              /\ cursor' = cursor + 1 /\ attempts' = attempts
           \/ /\ pc = "dispatch" /\ pc' = "record" /\ cursor' = cursor
              /\ attempts' \in
                   {attempts, [attempts EXCEPT ![cursor + 1] = @ + 1]}
      BY <1>1, <1>13, HandlerStep
  <2>2. CASE attempts' = attempts
      BY <1>2, <1>4, <1>5, <2>1, <2>2 DEF Handling
  <2>3. CASE /\ pc = "dispatch" /\ pc' = "record" /\ cursor' = cursor
             /\ attempts' = [attempts EXCEPT ![cursor + 1] = @ + 1]
    <3>1. attempts'[i] = IF i = cursor + 1 THEN attempts[i] + 1
                                           ELSE attempts[i]
        BY <1>1, <2>3 DEF TypeRest
    <3> QED
        BY <1>2, <1>4, <1>5, <2>1, <2>3, <3>1
  <2> QED
      BY <2>1, <2>2, <2>3
<1> QED
    BY <1>6, <1>7, <1>8, <1>9, <1>10, <1>11, <1>12, <1>13 DEF Next, RouterStep

\* RouterRedelivery: a notification is handed to an adapter at most once more
\* than the process has crashed, however often it was shut down and restarted.
THEOREM RouterRedelivery == Spec => []RedeliveryNeedsCrash
<1>1. Init => BatchInv /\ AttemptsInv
  <2>1. Init => AttemptsInv
      BY DEF Init, AttemptsInv
  <2> QED
      BY <2>1, BatchInit
<1>2. BatchInv /\ AttemptsInv /\ [Next]_vars => BatchInv' /\ AttemptsInv'
    BY BatchNext, AttemptsNext
<1>3. AttemptsInv => RedeliveryNeedsCrash
    BY DEF AttemptsInv, RedeliveryNeedsCrash
<1> QED
    BY <1>1, <1>2, <1>3, PTL DEF Spec

-----------------------------------------------------------------------------
(* Opting out.                                                             *)

\* What a step of the handler does to the variables LateSendsInv relates: it
\* ends or has not yet resolved a channel, or it keeps its message.
LEMMA HandlerPreferenceStep ==
  ASSUME handle_message
  PROVE  /\ UNCHANGED <<topic, prefs>>
         /\ \/ /\ pc' \notin Handling \ {"opt_out", "record"}
               /\ late_sends' = late_sends
            \/ /\ pc = "opt_out" /\ ~Pref.opted_out
               /\ UNCHANGED <<cursor, late_sends>>
            \/ /\ pc \in Handling \ {"opt_out", "record"}
               /\ UNCHANGED <<cursor, late_sends>>
            \/ /\ pc = "dispatch" /\ pc' = "record"
               /\ late_sends' = [late_sends EXCEPT
                    ![Current.customer] = IF Pref.opted_out THEN @ + 1 ELSE @]
<1>1. CASE Invalid \/ is_opted_out
    BY <1>1 DEF Invalid, is_opted_out, CheckOnly, Return, GoOn, consumer,
                Handling
<1>2. CASE is_quiet_hours \/ check_frequency_cap
    BY <1>2 DEF is_quiet_hours, check_frequency_cap, CheckOnly, Return, GoOn,
                consumer, Handling
<1>3. CASE resolve_channel
    BY <1>3 DEF resolve_channel, CheckOnly, consumer, Handling
<1>4. CASE dispatch
    BY <1>4 DEF dispatch, consumer, Handling
<1>5. CASE record_notification
    BY <1>5 DEF record_notification, Return, Handling
<1> QED
    BY <1>1, <1>2, <1>3, <1>4, <1>5 DEF handle_message

LEMMA LateSendsNext ==
  ASSUME BatchInv, LateSendsInv, [Next]_vars
  PROVE  LateSendsInv'
<1>1. /\ TypeRest /\ OffsetsInv
    BY TypeSplit DEF BatchInv
<1>2. \A c \in Customers : late_sends[c] \in Nat
    BY <1>1 DEF TypeRest
<1> SUFFICES ASSUME NEW c \in Customers
             PROVE  /\ ~prefs'[c].opted_out => late_sends'[c] = 0
                    /\ late_sends'[c] =< 1
                    /\ PastOptOutCheck(c)' => late_sends'[c] = 0
    BY DEF LateSendsInv
<1>3. /\ ~prefs[c].opted_out => late_sends[c] = 0
      /\ late_sends[c] =< 1
      /\ PastOptOutCheck(c) => late_sends[c] = 0
    BY DEF LateSendsInv
\* Steps that leave the handler and its message alone.
<1>4. CASE /\ UNCHANGED <<prefs, late_sends>>
           /\ PastOptOutCheck(c)' => PastOptOutCheck(c)
    BY <1>3, <1>4
\* Steps after which no message is past the check.
<1>5. CASE /\ UNCHANGED <<prefs, late_sends>>
           /\ pc' \notin Handling \ {"opt_out", "record"}
    BY <1>3, <1>5 DEF PastOptOutCheck, Handling
<1>6. CASE UNCHANGED vars \/ Tick \/ SIGTERM \/ request_shutdown
    BY <1>4, <1>6 DEF vars, consumer, history, faults, Tick, SIGTERM,
                      request_shutdown, PastOptOutCheck, Current, Handling
<1>7. CASE Publish
  <2>1. PICK e \in Payloads : topic' = Append(topic, e)
      BY <1>7 DEF Publish
  <2>2. UNCHANGED <<pc, cursor, prefs, late_sends>>
      BY <1>7 DEF Publish, consumer, history
  <2>3. pc \in Handling => topic'[cursor + 1] = topic[cursor + 1]
      BY <1>1, <2>1 DEF TypeRest, OffsetsInv
  <2> QED
      BY <1>4, <2>2, <2>3 DEF PastOptOutCheck, Current, Handling
<1>8. ASSUME NEW d \in Customers, UpdatePreference(d)
      PROVE  /\ ~prefs'[c].opted_out => late_sends'[c] = 0
             /\ late_sends'[c] =< 1
             /\ PastOptOutCheck(c)' => late_sends'[c] = 0
  <2>1. UNCHANGED <<topic, cursor, pc>>
      BY <1>1, <1>8, UpdateTyped
  <2>2. PastOptOutCheck(c)' <=> PastOptOutCheck(c)
      BY <2>1 DEF PastOptOutCheck, Current, Handling
  <2>3. CASE opt_out(d)
    <3>1. /\ prefs' = [prefs EXCEPT ![d] = [Row(d) EXCEPT !.opted_out = TRUE]]
          /\ late_sends' = late_sends
        BY <2>3 DEF opt_out, Upsert
    <3>2. c # d => prefs'[c] = prefs[c]
        BY <1>1, <3>1 DEF TypeRest
    <3>3. c = d => prefs'[c].opted_out
      <4>1. c = d => prefs'[c] = [Row(c) EXCEPT !.opted_out = TRUE]
          BY <1>1, <3>1 DEF TypeRest
      <4> QED
          BY <1>1, <4>1 DEF Row, TypeRest, Preference
    <3> QED
        BY <1>3, <2>2, <3>1, <3>2, <3>3
  <2>4. CASE opt_in(d)
    <3>1. /\ late_sends' = [late_sends EXCEPT ![d] = 0]
          /\ prefs' = [prefs EXCEPT ![d] = [Row(d) EXCEPT !.opted_out = FALSE]]
        BY <2>4 DEF opt_in, Upsert
    <3>2. late_sends'[c] = IF c = d THEN 0 ELSE late_sends[c]
        BY <1>1, <3>1 DEF TypeRest
    <3>3. c # d => prefs'[c] = prefs[c]
        BY <1>1, <3>1 DEF TypeRest
    <3> QED
        BY <1>3, <2>2, <3>2, <3>3
  <2>5. CASE \/ \E ch \in ChannelChoices : SetChannel(d, ch)
             \/ \E caps \in CapChoices : SetCaps(d, caps)
             \/ \E q \in QuietChoices : SetQuietHours(d, q)
    <3>1. PICK row : /\ prefs' = [prefs EXCEPT ![d] = row]
                     /\ row.opted_out = Row(d).opted_out
                     /\ late_sends' = late_sends
      <4>1. Row(d) \in [opted_out : BOOLEAN,
                        preferred : Channels \union {NoChannel},
                        max_day : Nat, max_week : Nat, quiet : BOOLEAN]
          BY <1>1, ChannelAssumption DEF Row, TypeRest, Preference, Channels
      <4> QED
          BY <2>5, <4>1 DEF SetChannel, SetCaps, SetQuietHours, Upsert
    <3>2. Row(d).opted_out = prefs[d].opted_out
        BY <1>1 DEF Row, TypeRest, Preference
    <3>3. prefs'[c].opted_out = prefs[c].opted_out
        BY <1>1, <3>1, <3>2 DEF TypeRest
    <3> QED
        BY <1>3, <2>2, <3>1, <3>3
  <2> QED
      BY <1>8, <2>3, <2>4, <2>5 DEF UpdatePreference
<1>9. CASE Restart \/ Poll \/ PollRaises \/ Commit \/ Exit \/ Crash
    BY <1>5, <1>9 DEF Restart, Poll, PollRaises, Commit, Exit, Crash, Die,
                      consumer, history, Handling
<1>10. CASE handle_message
  <2>1. /\ UNCHANGED <<topic, prefs>>
        /\ \/ /\ pc' \notin Handling \ {"opt_out", "record"}
              /\ late_sends' = late_sends
           \/ /\ pc = "opt_out" /\ ~Pref.opted_out
              /\ UNCHANGED <<cursor, late_sends>>
           \/ /\ pc \in Handling \ {"opt_out", "record"}
              /\ UNCHANGED <<cursor, late_sends>>
           \/ /\ pc = "dispatch" /\ pc' = "record"
              /\ late_sends' = [late_sends EXCEPT
                   ![Current.customer] = IF Pref.opted_out THEN @ + 1 ELSE @]
      BY <1>10, HandlerPreferenceStep
  <2>2. CASE /\ pc = "opt_out" /\ ~Pref.opted_out
             /\ UNCHANGED <<topic, cursor, prefs, late_sends>>
    <3>1. Current.customer = c => late_sends[c] = 0
        BY <1>3, <2>2 DEF Pref
    <3>2. Current' = Current
        BY <2>2 DEF Current
    <3> QED
        BY <1>3, <2>2, <3>1, <3>2 DEF PastOptOutCheck
  <2>3. CASE /\ pc \in Handling \ {"opt_out", "record"}
             /\ UNCHANGED <<topic, cursor, prefs, late_sends>>
      BY <1>4, <2>3 DEF PastOptOutCheck, Current
  <2>4. CASE /\ pc = "dispatch" /\ pc' = "record" /\ UNCHANGED prefs
             /\ late_sends' = [late_sends EXCEPT
                  ![Current.customer] = IF Pref.opted_out THEN @ + 1 ELSE @]
    <3>1. CASE Current.customer = c
      <4>1. late_sends[c] = 0
          BY <1>3, <2>4, <3>1 DEF PastOptOutCheck, Handling
      <4>2. late_sends'[c] = IF prefs[c].opted_out THEN 1 ELSE 0
          BY <1>1, <2>4, <3>1, <4>1 DEF TypeRest, Pref
      <4> QED
          BY <2>4, <4>2 DEF PastOptOutCheck
    <3>2. CASE Current.customer # c
      <4>1. late_sends'[c] = late_sends[c]
          BY <1>1, <2>4, <3>2 DEF TypeRest
      <4> QED
          BY <1>3, <2>4, <4>1 DEF PastOptOutCheck
    <3> QED
        BY <3>1, <3>2
  <2> QED
      BY <1>5, <2>1, <2>2, <2>3, <2>4
<1> QED
    BY <1>6, <1>7, <1>8, <1>9, <1>10 DEF Next, RouterStep

\* RouterOneLateSend: from any opt-out on, at most one notification already in
\* flight still reaches the customer.
THEOREM RouterOneLateSend == Spec => []OneLateSend
<1>1. Init => BatchInv /\ LateSendsInv
  <2>1. Init => LateSendsInv
      BY DEF Init, LateSendsInv, PastOptOutCheck, Handling
  <2> QED
      BY <2>1, BatchInit
<1>2. BatchInv /\ LateSendsInv /\ [Next]_vars => BatchInv' /\ LateSendsInv'
    BY BatchNext, LateSendsNext
<1>3. LateSendsInv => OneLateSend
    BY DEF LateSendsInv, OneLateSend
<1> QED
    BY <1>1, <1>2, <1>3, PTL DEF Spec

-----------------------------------------------------------------------------
(* Refinement of the at-least-once consumer.                               *)

LEMMA ConsumerStep ==
  ASSUME BatchInv, [Next]_vars
  PROVE  [Consumer!ConsumerNext]_(Consumer!cvars)
<1>1. /\ TypeRest /\ OffsetsInv
    BY TypeSplit DEF BatchInv
<1>2. CASE UNCHANGED <<topic, outcomes, committed>>
  <2>1. Settled' = Settled
      BY <1>2 DEF Settled, Offsets
  <2> QED
      BY <1>2, <2>1 DEF Consumer!cvars
<1>3. CASE \/ UNCHANGED vars \/ Tick \/ Restart \/ Poll \/ PollRaises
           \/ Exit \/ Crash
           \/ SIGTERM \/ request_shutdown
    BY <1>2, <1>3 DEF vars, consumer, history, Tick, Restart, Poll, Exit,
                      PollRaises, Die, Crash, SIGTERM, request_shutdown
<1>4. CASE \E c \in Customers : UpdatePreference(c)
    BY <1>1, <1>2, <1>4, UpdateTyped
<1>5. CASE Publish
  <2>1. PICK e \in Payloads : topic' = Append(topic, e)
      BY <1>5 DEF Publish
  <2>2. /\ Len(topic) < MaxEvents /\ Len(topic') = Len(topic) + 1
        /\ UNCHANGED <<outcomes, committed>>
      BY <1>1, <1>5, <2>1 DEF Publish, TypeRest, consumer, history
  <2>3. Settled' = Settled
      BY <2>2 DEF Settled, Offsets
  <2>4. Len(topic') \in (Len(topic) + 1)..MaxEvents
    <3>1. Len(topic) \in Nat /\ MaxEvents \in Nat
        BY <1>1, TopicAssumption DEF TypeRest
    <3> QED
        BY <2>2, <3>1
  <2> QED
      BY <2>2, <2>3, <2>4 DEF Consumer!ConsumerNext, Consumer!Publish
<1>6. CASE Commit
  <2>1. /\ pc = "commit" /\ committed' = position
        /\ UNCHANGED <<topic, outcomes>>
      BY <1>6 DEF Commit, history
  <2>2. Settled' = Settled
      BY <2>1 DEF Settled, Offsets
  <2>3. /\ position \in committed..Len(topic) /\ position \in 0..MaxEvents
        /\ 1..position \subseteq Settled
      BY <1>1, <2>1 DEF TypeRest, OffsetsInv
  <2> QED
      BY <2>1, <2>2, <2>3 DEF Consumer!ConsumerNext, Consumer!CommitUpTo
<1>7. CASE handle_message
  <2>1. CASE UNCHANGED <<topic, outcomes, committed>>
      BY <1>2, <2>1
  <2>2. ASSUME NEW o \in Outcomes, Return(o), UNCHANGED topic, pc \in Handling
        PROVE  Consumer!ConsumerNext
    <3>1. /\ cursor + 1 \in Offsets /\ cursor + 1 \in (committed + 1)..Len(topic)
          /\ cursor + 1 \in 1..MaxEvents
        BY <1>1, <2>2, TopicAssumption DEF TypeRest, OffsetsInv, Offsets
    <3>2. /\ outcomes' = [outcomes EXCEPT ![cursor + 1] = @ \union {o}]
          /\ committed' = committed
        BY <2>2 DEF Return
    <3>3. Settled' = Settled \union {cursor + 1}
      <4>1. \A i \in Offsets :
              outcomes'[i] = IF i = cursor + 1 THEN outcomes[i] \union {o}
                                               ELSE outcomes[i]
          BY <1>1, <3>1, <3>2 DEF TypeRest
      <4> QED
          BY <3>1, <4>1 DEF Settled, Offsets
    <3> QED
        BY <2>2, <3>1, <3>2, <3>3 DEF Consumer!ConsumerNext, Consumer!Process
  <2>3. \/ UNCHANGED <<topic, outcomes, committed>>
        \/ UNCHANGED topic /\ pc \in Handling /\ \E o \in Outcomes : Return(o)
    <3>1. CASE Invalid \/ is_opted_out \/ is_quiet_hours
        BY <3>1 DEF Invalid, is_opted_out, is_quiet_hours, CheckOnly, GoOn,
                    consumer, Handling, Outcomes
    <3>2. CASE resolve_channel \/ check_frequency_cap \/ dispatch
        BY <3>2 DEF resolve_channel, check_frequency_cap, dispatch, CheckOnly,
                    GoOn, consumer, Handling, Outcomes
    <3>3. CASE record_notification
        BY <3>3 DEF record_notification, Handling, Outcomes
    <3> QED
        BY <1>7, <3>1, <3>2, <3>3 DEF handle_message
  <2> QED
      BY <2>1, <2>2, <2>3
<1> QED
    BY <1>3, <1>4, <1>5, <1>6, <1>7 DEF Next, RouterStep

\* RouterImplementsAtLeastOnce: run(), with its poll, handlers, commit and
\* crashes, implements the at-least-once consumer.
THEOREM RouterImplementsAtLeastOnce == Spec => ImplementsAtLeastOnce
<1>1. Init => Consumer!ConsumerInit
    BY DEF Init, Consumer!ConsumerInit, Settled
<1>2. BatchInv /\ [Next]_vars => [Consumer!ConsumerNext]_(Consumer!cvars)
    BY ConsumerStep
<1> QED
    BY <1>1, <1>2, RouterBatchInv, PTL
       DEF Spec, ImplementsAtLeastOnce, Consumer!ConsumerSpec

-----------------------------------------------------------------------------
(* The caps.                                                               *)

\* The entries SentWithin counts.
Counted(c, chs, span) ==
  {k \in DOMAIN notification_log :
     /\ notification_log[k].customer = c
     /\ notification_log[k].channel \in chs
     /\ notification_log[k].sent_at >= now - span}

LEMMA EntriesFinite ==
  ASSUME NEW log \in Seq(LogEntry), NEW S \in SUBSET DOMAIN log
  PROVE  IsFiniteSet(S) /\ Cardinality(S) \in Nat
<1>1. Len(log) \in Nat /\ DOMAIN log = 1..Len(log)
    OBVIOUS
<1>2. IsFiniteSet(DOMAIN log)
    BY <1>1, FS_Interval
<1>3. IsFiniteSet(S)
    BY <1>2, FS_Subset
<1> QED
    BY <1>3, FS_CardinalityType

LEMMA CountedFinite ==
  ASSUME TypeRest, NEW c, NEW chs, NEW span
  PROVE  /\ IsFiniteSet(Counted(c, chs, span))
         /\ SentWithin(c, chs, span) = Cardinality(Counted(c, chs, span))
         /\ SentWithin(c, chs, span) \in Nat
<1>1. /\ notification_log \in Seq(LogEntry)
      /\ Counted(c, chs, span) \in SUBSET DOMAIN notification_log
    BY DEF TypeRest, Counted
<1>2. SentWithin(c, chs, span) = Cardinality(Counted(c, chs, span))
    BY DEF SentWithin, Counted
<1> QED
    BY <1>1, <1>2, EntriesFinite

LEMMA CountedFiniteNext ==
  ASSUME TypeRest', NEW c, NEW chs, NEW span
  PROVE  /\ IsFiniteSet(Counted(c, chs, span)')
         /\ SentWithin(c, chs, span)' = Cardinality(Counted(c, chs, span)')
         /\ SentWithin(c, chs, span)' \in Nat
<1>1. /\ notification_log' \in Seq(LogEntry)
      /\ Counted(c, chs, span)' \in SUBSET DOMAIN notification_log'
    BY DEF TypeRest, Counted
<1>2. SentWithin(c, chs, span)' = Cardinality(Counted(c, chs, span)')
    BY DEF SentWithin, Counted
<1> QED
    BY <1>1, <1>2, EntriesFinite

\* The largest limits are limits, and none is larger.
LEMMA LargestCapIsLargest ==
  /\ LargestCap(1, DefaultMaxPerDay) \in Nat
  /\ LargestCap(2, DefaultMaxPerWeek) \in Nat
  /\ DefaultMaxPerDay =< LargestCap(1, DefaultMaxPerDay)
  /\ DefaultMaxPerWeek =< LargestCap(2, DefaultMaxPerWeek)
  /\ \A caps \in CapChoices :
       /\ caps[1] =< LargestCap(1, DefaultMaxPerDay)
       /\ caps[2] =< LargestCap(2, DefaultMaxPerWeek)
<1>1. /\ LargestCap(1, DefaultMaxPerDay) \in Caps(1, DefaultMaxPerDay)
      /\ \A x \in Caps(1, DefaultMaxPerDay) : x =< LargestCap(1, DefaultMaxPerDay)
    BY LargestCapAssumption DEF LargestCap
<1>2. /\ LargestCap(2, DefaultMaxPerWeek) \in Caps(2, DefaultMaxPerWeek)
      /\ \A x \in Caps(2, DefaultMaxPerWeek) : x =< LargestCap(2, DefaultMaxPerWeek)
    BY LargestCapAssumption DEF LargestCap
<1>3. /\ Caps(1, DefaultMaxPerDay) \subseteq Nat
      /\ Caps(2, DefaultMaxPerWeek) \subseteq Nat
    BY CapAssumption DEF Caps
<1>4. /\ DefaultMaxPerDay \in Caps(1, DefaultMaxPerDay)
      /\ DefaultMaxPerWeek \in Caps(2, DefaultMaxPerWeek)
      /\ \A caps \in CapChoices : /\ caps[1] \in Caps(1, DefaultMaxPerDay)
                                  /\ caps[2] \in Caps(2, DefaultMaxPerWeek)
    BY DEF Caps
<1> QED
    BY <1>1, <1>2, <1>3, <1>4

\* Time only takes entries out of the windows.
LEMMA SentWithinFalls ==
  ASSUME TypeRest, TypeRest', notification_log' = notification_log, now' >= now,
         NEW c, NEW chs, NEW span \in Nat
  PROVE  SentWithin(c, chs, span)' =< SentWithin(c, chs, span)
<1>1. /\ now \in Nat /\ now' \in Nat
      /\ \A k \in DOMAIN notification_log : notification_log[k].sent_at \in Nat
  <2>1. now \in Nat /\ now' \in Nat
      BY TimeAssumption DEF TypeRest
  <2>2. notification_log \in Seq(LogEntry)
      BY DEF TypeRest
  <2>3. \A k \in DOMAIN notification_log : notification_log[k] \in LogEntry
      BY <2>2
  <2> QED
      BY <2>1, <2>3 DEF LogEntry
<1>2. Counted(c, chs, span)' \subseteq Counted(c, chs, span)
    BY <1>1 DEF Counted
<1>3. /\ IsFiniteSet(Counted(c, chs, span))
      /\ SentWithin(c, chs, span) = Cardinality(Counted(c, chs, span))
    BY CountedFinite
<1>4. SentWithin(c, chs, span)' = Cardinality(Counted(c, chs, span)')
    BY DEF SentWithin, Counted
<1> QED
    BY <1>2, <1>3, <1>4, FS_Subset

\* An entry adds one to the counts of its own customer and channel, and leaves
\* every other count alone.
LEMMA SentWithinLogged ==
  ASSUME TypeRest, TypeRest', Logged, now' = now,
         NEW c, NEW ch, NEW span \in Nat
  PROVE  SentWithin(c, {ch}, span)' =<
           IF c = Current.customer /\ ch = channel
           THEN SentWithin(c, {ch}, span) + 1 ELSE SentWithin(c, {ch}, span)
<1>a. PICK n : n = Len(notification_log) + 1
    OBVIOUS
<1>b. PICK entry : entry = [customer |-> Current.customer, channel |-> channel,
                            sent_at |-> now]
    OBVIOUS
<1>1. /\ DOMAIN notification_log = 1..Len(notification_log)
      /\ DOMAIN notification_log' = 1..n
      /\ Len(notification_log) \in Nat
      /\ \A k \in DOMAIN notification_log :
           notification_log'[k] = notification_log[k]
      /\ notification_log'[n] = entry
  <2>1. /\ notification_log \in Seq(LogEntry)
        /\ notification_log' = Append(notification_log, entry)
      BY <1>b DEF TypeRest, Logged
  <2> QED
      BY <1>a, <2>1
<1>2. /\ IsFiniteSet(Counted(c, {ch}, span))
      /\ SentWithin(c, {ch}, span) = Cardinality(Counted(c, {ch}, span))
      /\ SentWithin(c, {ch}, span) \in Nat
    BY CountedFinite
<1>3. SentWithin(c, {ch}, span)' = Cardinality(Counted(c, {ch}, span)')
    BY DEF SentWithin, Counted
<1>4. CASE c = Current.customer /\ ch = channel
  <2>1. Counted(c, {ch}, span)' \subseteq Counted(c, {ch}, span) \union {n}
    <3>1. \A k \in DOMAIN notification_log' : k # n => k \in DOMAIN notification_log
        BY <1>a, <1>1
    <3> QED
        BY <1>1, <3>1 DEF Counted
  <2>2. /\ IsFiniteSet(Counted(c, {ch}, span) \union {n})
        /\ Cardinality(Counted(c, {ch}, span) \union {n}) =
             IF n \in Counted(c, {ch}, span) THEN SentWithin(c, {ch}, span)
                                            ELSE SentWithin(c, {ch}, span) + 1
      BY <1>2, FS_AddElement
  <2>3. /\ Cardinality(Counted(c, {ch}, span)')
             =< Cardinality(Counted(c, {ch}, span) \union {n})
        /\ IsFiniteSet(Counted(c, {ch}, span)')
      BY <2>1, <2>2, FS_Subset
  <2>4. Cardinality(Counted(c, {ch}, span)') \in Nat
      BY <2>3, FS_CardinalityType
  <2> QED
      BY <1>2, <1>3, <1>4, <2>2, <2>3, <2>4
<1>5. CASE ~(c = Current.customer /\ ch = channel)
  <2>1. Counted(c, {ch}, span)' \subseteq Counted(c, {ch}, span)
      BY <1>a, <1>b, <1>1, <1>5 DEF Counted
  <2> QED
      BY <1>2, <1>3, <1>5, <2>1, FS_Subset
<1> QED
    BY <1>4, <1>5

\* What a step does to what CapsInv is about: nothing is logged and the message
\* in hand is not past the cap check, stays past it, or has just passed it; or it
\* is logged.
LEMMA CapSteps ==
  ASSUME BatchInv, [Next]_vars
  PROVE  \/ /\ notification_log' = notification_log /\ now' >= now
            /\ \/ pc' \notin {"dispatch", "record"}
               \/ /\ pc \in {"dispatch", "record"}
                  /\ channel' = channel /\ Current' = Current
               \/ /\ check_frequency_cap /\ now' = now
                  /\ channel' = channel /\ Current' = Current
                  /\ SentWithin(Current.customer, {channel}, DayTicks)
                       < Pref.max_day
                  /\ SentWithin(Current.customer, {channel}, WeekTicks)
                       < Pref.max_week
         \/ /\ record_notification /\ now' = now
            /\ pc' \notin {"dispatch", "record"}
<1>1. /\ TypeRest /\ OffsetsInv /\ now \in Int
    BY TypeSplit DEF BatchInv, TypeRest
<1>2. CASE UNCHANGED vars
    BY <1>1, <1>2 DEF vars, consumer, Current
<1>3. CASE Publish
  <2>1. PICK e \in Payloads : topic' = Append(topic, e)
      BY <1>3 DEF Publish
  <2>2. /\ UNCHANGED <<cursor, pc, channel, notification_log, now>>
      BY <1>3 DEF Publish, consumer
  <2>3. pc \in {"dispatch", "record"} => topic'[cursor + 1] = topic[cursor + 1]
      BY <1>1, <2>1 DEF TypeRest, OffsetsInv, Handling
  <2> QED
      BY <1>1, <2>2, <2>3 DEF Current
<1>4. CASE Tick \/ SIGTERM \/ request_shutdown
    BY <1>1, <1>4 DEF Tick, SIGTERM, request_shutdown, consumer, Current
<1>5. ASSUME NEW c \in Customers, UpdatePreference(c)
      PROVE  /\ UNCHANGED <<topic, cursor, pc, channel, notification_log>>
             /\ now' >= now
    BY <1>1, <1>5, UpdateTyped
<1>6. CASE Restart \/ Poll \/ PollRaises \/ Commit \/ Exit \/ Crash
    BY <1>1, <1>6 DEF Restart, Poll, PollRaises, Commit, Exit, Crash, Die
<1>7. CASE Invalid \/ is_opted_out \/ is_quiet_hours \/ resolve_channel
    BY <1>1, <1>7 DEF Invalid, is_opted_out, is_quiet_hours, resolve_channel,
                      CheckOnly, Return, GoOn
<1>8. CASE check_frequency_cap
    BY <1>1, <1>8 DEF check_frequency_cap, CheckOnly, Return, GoOn, consumer,
                      Current
<1>9. CASE dispatch
    BY <1>1, <1>9 DEF dispatch, consumer, Current
<1>10. CASE record_notification
    BY <1>10 DEF record_notification, Return
<1>11. (\E c \in Customers : UpdatePreference(c)) =>
         /\ notification_log' = notification_log /\ now' >= now
         /\ pc' = pc /\ channel' = channel /\ Current' = Current
    BY <1>5 DEF Current
<1> QED
    BY <1>2, <1>3, <1>4, <1>6, <1>7, <1>8, <1>9, <1>10, <1>11
       DEF Next, RouterStep, handle_message

\* No update, and no customer's first row, exceeds the largest limits.
LimitsInv ==
  \A c \in Customers :
    /\ prefs[c].max_day =< LargestCap(1, DefaultMaxPerDay)
    /\ prefs[c].max_week =< LargestCap(2, DefaultMaxPerWeek)

LEMMA LimitsNext ==
  ASSUME BatchInv, LimitsInv, [Next]_vars
  PROVE  LimitsInv'
<1>1. TypeRest
    BY TypeSplit DEF BatchInv
<1>2. CASE UNCHANGED prefs
    BY <1>2 DEF LimitsInv
<1>3. ASSUME NEW c \in Customers, UpdatePreference(c)
      PROVE  LimitsInv'
  <2>1. PICK row : /\ prefs' = [prefs EXCEPT ![c] = row]
                   /\ row.max_day =< LargestCap(1, DefaultMaxPerDay)
                   /\ row.max_week =< LargestCap(2, DefaultMaxPerWeek)
    <3>1. /\ Row(c) \in [opted_out : BOOLEAN,
                         preferred : Channels \union {NoChannel},
                         max_day : Nat, max_week : Nat, quiet : BOOLEAN]
          /\ Row(c).max_day = prefs[c].max_day
          /\ Row(c).max_week = prefs[c].max_week
        BY <1>1, ChannelAssumption DEF Row, TypeRest, Preference, Channels
    <3>2. /\ Row(c).max_day =< LargestCap(1, DefaultMaxPerDay)
          /\ Row(c).max_week =< LargestCap(2, DefaultMaxPerWeek)
        BY <3>1 DEF LimitsInv
    <3>3. CASE opt_out(c) \/ opt_in(c)
        BY <3>1, <3>2, <3>3 DEF opt_out, opt_in, Upsert
    <3>4. CASE \/ \E ch \in ChannelChoices : SetChannel(c, ch)
               \/ \E q \in QuietChoices : SetQuietHours(c, q)
        BY <3>1, <3>2, <3>4 DEF SetChannel, SetQuietHours, Upsert
    <3>5. ASSUME NEW caps \in CapChoices, SetCaps(c, caps)
          PROVE  \E row : /\ prefs' = [prefs EXCEPT ![c] = row]
                          /\ row.max_day =< LargestCap(1, DefaultMaxPerDay)
                          /\ row.max_week =< LargestCap(2, DefaultMaxPerWeek)
      <4> DEFINE row == [Row(c) EXCEPT !.max_day = caps[1], !.max_week = caps[2]]
      <4>1. row.max_day = caps[1] /\ row.max_week = caps[2]
          BY <3>1
      <4>2. prefs' = [prefs EXCEPT ![c] = row]
          BY <3>5 DEF SetCaps, Upsert
      <4> HIDE DEF row
      <4> QED
          BY <4>1, <4>2, LargestCapIsLargest
    <3> QED
        BY <1>3, <3>3, <3>4, <3>5 DEF UpdatePreference
  <2> QED
      BY <1>1, <2>1 DEF LimitsInv, TypeRest
<1>4. CASE UNCHANGED vars
    BY <1>2, <1>4 DEF vars
<1>5. CASE \/ Publish \/ Tick \/ SIGTERM \/ request_shutdown \/ Crash
           \/ Restart \/ Poll \/ PollRaises \/ Commit \/ Exit
    BY <1>2, <1>5 DEF Publish, Tick, SIGTERM, request_shutdown, Crash, Restart,
                      Poll, PollRaises, Commit, Exit, Die
<1>6. CASE handle_message
    BY <1>2, <1>6, HandlerPreferenceStep
<1> QED
    BY <1>3, <1>4, <1>5, <1>6 DEF Next, RouterStep

LEMMA CapsNext ==
  ASSUME BatchInv, CapsInv, [Next]_vars
  PROVE  CapsInv'
<1> DEFINE Day == LargestCap(1, DefaultMaxPerDay)
           Week == LargestCap(2, DefaultMaxPerWeek)
<1>1. /\ TypeRest /\ LocalsInv /\ LimitsInv /\ BatchInv'
    BY TypeSplit, BatchNext DEF BatchInv, CapsInv, LimitsInv
<1>2. TypeRest'
    BY <1>1 DEF BatchInv, TypeOK, TypeRest
<1>3. LimitsInv'
    BY <1>1, LimitsNext
<1>4. /\ Day \in Nat /\ Week \in Nat /\ DayTicks \in Nat /\ WeekTicks \in Nat
    BY LargestCapIsLargest, TimeAssumption
<1>5. \A c, ch : /\ SentWithin(c, {ch}, DayTicks) \in Nat
                 /\ SentWithin(c, {ch}, WeekTicks) \in Nat
                 /\ SentWithin(c, {ch}, DayTicks)' \in Nat
                 /\ SentWithin(c, {ch}, WeekTicks)' \in Nat
    BY <1>1, <1>2, CountedFinite, CountedFiniteNext
<1>6. \A c \in Customers, ch \in Channels :
        SentWithin(c, {ch}, DayTicks) =< Day /\ SentWithin(c, {ch}, WeekTicks) =< Week
    BY DEF CapsInv, ChannelCap
<1> HIDE DEF Day, Week
\* Nothing is logged.
<1>7. ASSUME notification_log' = notification_log, now' >= now
      PROVE  \A c, ch :
               /\ SentWithin(c, {ch}, DayTicks)' =< SentWithin(c, {ch}, DayTicks)
               /\ SentWithin(c, {ch}, WeekTicks)' =< SentWithin(c, {ch}, WeekTicks)
    BY <1>1, <1>2, <1>4, <1>7, SentWithinFalls
<1>8. CASE notification_log' = notification_log /\ now' >= now
  <2>1. ChannelCap'
    <3>1. ASSUME NEW c \in Customers, NEW ch \in Channels
          PROVE  /\ SentWithin(c, {ch}, DayTicks)' =< Day
                 /\ SentWithin(c, {ch}, WeekTicks)' =< Week
      <4>1. /\ SentWithin(c, {ch}, DayTicks) =< Day
            /\ SentWithin(c, {ch}, WeekTicks) =< Week
          BY <1>6
      <4>2. /\ SentWithin(c, {ch}, DayTicks)' =< SentWithin(c, {ch}, DayTicks)
            /\ SentWithin(c, {ch}, WeekTicks)' =< SentWithin(c, {ch}, WeekTicks)
          BY <1>7, <1>8
      <4>3. /\ SentWithin(c, {ch}, DayTicks) \in Nat
            /\ SentWithin(c, {ch}, WeekTicks) \in Nat
            /\ SentWithin(c, {ch}, DayTicks)' \in Nat
            /\ SentWithin(c, {ch}, WeekTicks)' \in Nat
          BY <1>5
      <4> QED
          BY <1>4, <4>1, <4>2, <4>3
    <3> QED
        BY <3>1 DEF ChannelCap, Day, Week, Channels
  <2>2. CASE pc' \notin {"dispatch", "record"}
      BY <1>3, <2>1, <2>2 DEF CapsInv, LimitsInv
  <2>3. CASE /\ pc \in {"dispatch", "record"} \/ check_frequency_cap
             /\ channel' = channel /\ Current' = Current
             /\ SentWithin(Current.customer, {channel}, DayTicks) < Day
             /\ SentWithin(Current.customer, {channel}, WeekTicks) < Week
    <3>1. PICK c, ch : c = Current.customer /\ ch = channel
        OBVIOUS
    <3>2. /\ SentWithin(c, {ch}, DayTicks)' < Day
          /\ SentWithin(c, {ch}, WeekTicks)' < Week
      <4>1. /\ SentWithin(c, {ch}, DayTicks) < Day
            /\ SentWithin(c, {ch}, WeekTicks) < Week
          BY <2>3, <3>1
      <4>2. /\ SentWithin(c, {ch}, DayTicks)' =< SentWithin(c, {ch}, DayTicks)
            /\ SentWithin(c, {ch}, WeekTicks)' =< SentWithin(c, {ch}, WeekTicks)
          BY <1>7, <1>8
      <4>3. /\ SentWithin(c, {ch}, DayTicks) \in Nat
            /\ SentWithin(c, {ch}, WeekTicks) \in Nat
            /\ SentWithin(c, {ch}, DayTicks)' \in Nat
            /\ SentWithin(c, {ch}, WeekTicks)' \in Nat
          BY <1>5
      <4> QED
          BY <1>4, <4>1, <4>2, <4>3
    <3>3. /\ SentWithin(Current.customer, {channel}, DayTicks)'
               = SentWithin(c, {ch}, DayTicks)'
          /\ SentWithin(Current.customer, {channel}, WeekTicks)'
               = SentWithin(c, {ch}, WeekTicks)'
        BY <2>3, <3>1 DEF SentWithin
    <3> QED
        BY <1>3, <2>1, <3>2, <3>3 DEF CapsInv, LimitsInv, Day, Week
  <2>4. CASE pc \in {"dispatch", "record"} /\ channel' = channel /\ Current' = Current
      BY <2>3, <2>4 DEF CapsInv, Day, Week
  <2>5. CASE /\ check_frequency_cap /\ channel' = channel /\ Current' = Current
             /\ SentWithin(Current.customer, {channel}, DayTicks) < Pref.max_day
             /\ SentWithin(Current.customer, {channel}, WeekTicks) < Pref.max_week
    <3>1. /\ Current.customer \in Customers /\ Pref \in Preference
        BY <2>5, CurrentTyped DEF check_frequency_cap, Handling
    <3>2. Pref.max_day \in Nat /\ Pref.max_week \in Nat
        BY <3>1 DEF Preference
    <3>3. Pref.max_day =< Day /\ Pref.max_week =< Week
        BY <1>1, <3>1 DEF LimitsInv, Pref, Day, Week
    <3>4. /\ SentWithin(Current.customer, {channel}, DayTicks) < Day
          /\ SentWithin(Current.customer, {channel}, WeekTicks) < Week
      <4>1. /\ SentWithin(Current.customer, {channel}, DayTicks) \in Nat
            /\ SentWithin(Current.customer, {channel}, WeekTicks) \in Nat
          BY <1>5
      <4> QED
          BY <1>4, <2>5, <3>2, <3>3, <4>1
    <3> QED
        BY <2>3, <2>5, <3>4
  <2>6. CASE record_notification /\ pc' \notin {"dispatch", "record"}
      BY <2>2, <2>6
  <2> QED
      BY <2>2, <2>4, <2>5, <2>6, CapSteps
\* The message in hand is logged.
<1>9. CASE record_notification /\ now' = now /\ pc' \notin {"dispatch", "record"}
  <2>1. pc = "record" /\ Logged
      BY <1>9 DEF record_notification
  <2>2. /\ SentWithin(Current.customer, {channel}, DayTicks) < Day
        /\ SentWithin(Current.customer, {channel}, WeekTicks) < Week
      BY <2>1 DEF CapsInv, Day, Week
  <2>3. ASSUME NEW c \in Customers, NEW ch \in Channels
        PROVE  /\ SentWithin(c, {ch}, DayTicks)' =< Day
               /\ SentWithin(c, {ch}, WeekTicks)' =< Week
    <3>1. /\ SentWithin(c, {ch}, DayTicks)' =<
               IF c = Current.customer /\ ch = channel
               THEN SentWithin(c, {ch}, DayTicks) + 1
               ELSE SentWithin(c, {ch}, DayTicks)
          /\ SentWithin(c, {ch}, WeekTicks)' =<
               IF c = Current.customer /\ ch = channel
               THEN SentWithin(c, {ch}, WeekTicks) + 1
               ELSE SentWithin(c, {ch}, WeekTicks)
        BY <1>1, <1>2, <1>4, <1>9, <2>1, SentWithinLogged
    <3>2. /\ SentWithin(c, {ch}, DayTicks) =< Day
          /\ SentWithin(c, {ch}, WeekTicks) =< Week
        BY <1>6
    <3>3. /\ SentWithin(c, {ch}, DayTicks) \in Nat
          /\ SentWithin(c, {ch}, WeekTicks) \in Nat
          /\ SentWithin(c, {ch}, DayTicks)' \in Nat
          /\ SentWithin(c, {ch}, WeekTicks)' \in Nat
        BY <1>5
    <3>4. c = Current.customer /\ ch = channel =>
            /\ SentWithin(c, {ch}, DayTicks) < Day
            /\ SentWithin(c, {ch}, WeekTicks) < Week
        BY <2>2
    <3> QED
        BY <1>4, <3>1, <3>2, <3>3, <3>4
  <2>4. ChannelCap'
      BY <2>3 DEF ChannelCap, Day, Week, Channels
  <2> QED
      BY <1>3, <1>9, <2>4 DEF CapsInv, LimitsInv
<1> QED
    BY <1>8, <1>9, CapSteps

\* RouterChannelCap: on one channel a customer is never logged more notifications
\* in a day or a week than the largest limit the customer can have had, whatever
\* preferences change between the check and the dispatch.
THEOREM RouterChannelCap == Spec => []ChannelCap
<1>1. Init => CapsInv
  <2> SUFFICES ASSUME Init PROVE CapsInv
      OBVIOUS
  <2>1. TypeRest
      BY BatchInit, TypeSplit DEF BatchInv
  <2>2. \A c, ch, span : SentWithin(c, {ch}, span) = 0
    <3> SUFFICES ASSUME NEW c, NEW ch, NEW span
                 PROVE  SentWithin(c, {ch}, span) = 0
        OBVIOUS
    <3>1. Counted(c, {ch}, span) = {}
        BY DEF Init, Counted
    <3>2. SentWithin(c, {ch}, span) = Cardinality(Counted(c, {ch}, span))
        BY <2>1, CountedFinite
    <3> QED
        BY <3>1, <3>2, FS_EmptySet
  <2>3. LimitsInv
      BY LargestCapIsLargest DEF Init, NoRow, LimitsInv
  <2>4. ChannelCap
    <3> SUFFICES ASSUME NEW c \in Customers, NEW ch \in Channels
                 PROVE  /\ SentWithin(c, {ch}, DayTicks)
                             =< LargestCap(1, DefaultMaxPerDay)
                        /\ SentWithin(c, {ch}, WeekTicks)
                             =< LargestCap(2, DefaultMaxPerWeek)
        BY DEF ChannelCap
    <3>1. SentWithin(c, {ch}, DayTicks) = 0 /\ SentWithin(c, {ch}, WeekTicks) = 0
        BY <2>2
    <3> QED
        BY <3>1, LargestCapIsLargest
  <2> QED
      BY <2>3, <2>4 DEF CapsInv, LimitsInv, Init
<1>2. BatchInv /\ CapsInv /\ [Next]_vars => BatchInv' /\ CapsInv'
    BY BatchNext, CapsNext
<1>3. CapsInv => ChannelCap
    BY DEF CapsInv
<1> QED
    BY <1>1, <1>2, <1>3, BatchInit, PTL DEF Spec

=============================================================================
