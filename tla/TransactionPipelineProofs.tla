---------------------- MODULE TransactionPipelineProofs ----------------------
(***************************************************************************)
(* Proofs about TransactionConsumer and the webhook beside it, for any     *)
(* messages, partitions, batches, payloads, retries, crashes and stops.    *)
(*                                                                         *)
(* What is true of the committed offsets holds because it was true of the  *)
(* offsets up to the cursor: OffsetsInv relates the two while a batch is   *)
(* handled, and PoisonInv, FaultInv and StatsInv say what the properties   *)
(* say of the committed offsets of all that lies before the cursor.  The   *)
(* webhook's part is what the topic makes with the buffer of its partition *)
(* (Line).  Every step of the pipeline is one of the consumer, or appends  *)
(* to its topic, or is none of its business (Move), so the two parts are   *)
(* proved side by side.                                                    *)
(***************************************************************************)
EXTENDS TransactionPipeline, FiniteSetTheorems, TLAPS

Up == pc \in {"poll", "handle", "commit"}

OffsetsInv ==
  /\ committed \in 0..Len(topic) /\ position \in 0..Len(topic)
  /\ cursor \in 0..Len(topic) /\ started \in 0..Len(topic)
  /\ committed =< position
  /\ 1..committed \subseteq handled
  /\ handled \subseteq 1..Len(topic)
  /\ Up => /\ started =< cursor /\ committed =< cursor /\ cursor =< position
           /\ 1..cursor \subseteq handled
           /\ pc \in {"poll", "commit"} => cursor = position
           /\ pc = "poll" => committed = position
           /\ pc = "handle" => cursor < position

\* What was handled did not raise.
PoisonInv == \A i \in handled : ~Raises(topic[i])

\* Without a fault nothing is handled beyond the cursor, or once the process is
\* down, beyond what it committed.
FaultInv ==
  crashes = 0 /\ ~raised =>
    ~again /\ handled \subseteq 1..(IF Up THEN cursor ELSE committed)

\* The messages this process has handled, by the class they are counted in.
Served == started + 1..cursor
Valid == {i \in Served : Validates(topic[i])}
Invalid == {i \in Served : topic[i].body = "record" /\ ~Validates(topic[i])}
Undecodable == {i \in Served : topic[i].body = "undecodable"}
Null == {i \in Served : topic[i].body = "null"}
StatsInv ==
  Up => /\ stats.consumed = Cardinality(Served)
        /\ stats.valid = Cardinality(Valid)
        /\ stats.invalid = Cardinality(Invalid)
        /\ stats.deserialization_errors = Cardinality(Undecodable)
        /\ stats.consumed = stats.valid + stats.invalid
                            + stats.deserialization_errors + Cardinality(Null)

\* What normalize returned is what it returns for its amount and currency.
NormalizedInv ==
  \A r \in normalized :
    /\ r.usd = convert_to_usd(r.amount, r.currency)
    /\ r.bucket = bucket_amount(r.usd)

\* A consumer that is being built has counted nothing.
BuildInv == pc = "build" => stats = NoStats

ConsumerInv ==
  /\ TypeOK /\ OffsetsInv /\ PoisonInv /\ FaultInv
  /\ StatsInv /\ BuildInv /\ NormalizedInv

-----------------------------------------------------------------------------
(* Lemmas on the normalizer and on the topic.                              *)

LEMMA EndsFinite == IsFiniteSet(BucketEnds) /\ Cardinality(BucketEnds) = 4
<1>1. IsFiniteSet({}) /\ Cardinality({}) = 0
  BY FS_EmptySet
<1>2. IsFiniteSet({} \union {1000}) /\ Cardinality({} \union {1000}) = 1
  BY <1>1, FS_AddElement
<1>3. IsFiniteSet({1000} \union {5000}) /\ Cardinality({1000} \union {5000}) = 2
  <2>1. {} \union {1000} = {1000} /\ 5000 \notin {1000}
    OBVIOUS
  <2> QED
    BY <1>2, <2>1, FS_AddElement
<1>4. IsFiniteSet({1000, 5000} \union {20000})
      /\ Cardinality({1000, 5000} \union {20000}) = 3
  <2>1. {1000} \union {5000} = {1000, 5000} /\ 20000 \notin {1000, 5000}
    OBVIOUS
  <2> QED
    BY <1>3, <2>1, FS_AddElement
<1>5. IsFiniteSet({1000, 5000, 20000} \union {100000})
      /\ Cardinality({1000, 5000, 20000} \union {100000}) = 4
  <2>1. {1000, 5000} \union {20000} = {1000, 5000, 20000}
        /\ 100000 \notin {1000, 5000, 20000}
    OBVIOUS
  <2> QED
    BY <1>4, <2>1, FS_AddElement
<1>6. BucketEnds = {1000, 5000, 20000} \union {100000}
  BY DEF BucketEnds
<1> QED
  BY <1>5, <1>6

LEMMA BucketTyped ==
  ASSUME NEW usd
  PROVE  bucket_amount(usd) \in 0..4
<1>1. {e \in BucketEnds : e =< usd} \in SUBSET BucketEnds
  OBVIOUS
<1>2. /\ Cardinality({e \in BucketEnds : e =< usd}) \in Nat
      /\ Cardinality({e \in BucketEnds : e =< usd}) =< 4
  BY <1>1, EndsFinite, FS_Subset, FS_CardinalityType
<1> QED
  BY <1>2 DEF bucket_amount

LEMMA CategoryTyped ==
  ASSUME NEW mcc
  PROVE  map_category(mcc) \in DOMAIN Mcc \union {"other"}
<1> DEFINE D == DOMAIN Mcc
<1>1. CASE \E c \in D : mcc \in Mcc[c]
  <2>1. (CHOOSE c \in D : mcc \in Mcc[c]) \in D
    <3> HIDE DEF D
    <3> QED
      BY <1>1
  <2>2. map_category(mcc) = CHOOSE c \in D : mcc \in Mcc[c]
    BY <1>1 DEF map_category
  <2>3. map_category(mcc) \in D
    <3> HIDE DEF D
    <3> QED
      BY <2>1, <2>2
  <2> QED
    BY <2>3
<1>2. CASE ~\E c \in D : mcc \in Mcc[c]
  BY <1>2 DEF map_category
<1> QED
  BY <1>1, <1>2

LEMMA RateTyped ==
  ASSUME NEW currency
  PROVE  Rate(currency) \in Nat
BY DEF Rate, Rates

\* A larger amount is not worth less, whatever the rate.
LEMMA ConvertMonotone ==
  ASSUME NEW currency, NEW a \in Nat, NEW b \in Nat, a =< b
  PROVE  /\ convert_to_usd(a, currency) \in Nat
         /\ convert_to_usd(a, currency) =< convert_to_usd(b, currency)
<1> PICK r \in Nat : r = Rate(currency)
  BY RateTyped
<1>1. a * r \in Nat /\ b * r \in Nat /\ a * r =< b * r
  OBVIOUS
<1>2. ASSUME NEW x \in Nat, NEW y \in Nat, x =< y
      PROVE  (x + 5000) \div 10000 \in Nat
             /\ (x + 5000) \div 10000 =< (y + 5000) \div 10000
  BY <1>2
<1> QED
  BY <1>1, <1>2 DEF convert_to_usd

LEMMA BucketMonotone ==
  ASSUME NEW x \in Nat, NEW y \in Nat, x =< y
  PROVE  bucket_amount(x) =< bucket_amount(y)
<1> DEFINE S(u) == {e \in BucketEnds : e =< u}
<1>1. S(x) \in SUBSET S(y) /\ S(y) \in SUBSET BucketEnds
  BY DEF BucketEnds
<1>2. IsFiniteSet(S(y))
  BY <1>1, EndsFinite, FS_Subset
<1>3. Cardinality(S(x)) =< Cardinality(S(y))
  BY <1>1, <1>2, FS_Subset
<1> QED
  BY <1>3 DEF bucket_amount

Normalized == [amount : Nat, currency : STRING, usd : Nat,
               bucket : 0..4, category : DOMAIN Mcc \union {"other"}]

LEMMA NormalizeTyped ==
  ASSUME NEW m \in Message, Validates(m)
  PROVE  normalize(m) \in Normalized
<1>1. m.amount \in Nat /\ m.currency \in STRING
  BY DEF Message, Validates
<1>2. convert_to_usd(m.amount, m.currency) \in Nat
  BY <1>1, ConvertMonotone
<1>3. /\ bucket_amount(convert_to_usd(m.amount, m.currency)) \in 0..4
      /\ map_category(m.mcc) \in DOMAIN Mcc \union {"other"}
  BY BucketTyped, CategoryTyped
<1> DEFINE C == DOMAIN Mcc \union {"other"}
<1>4. Normalized = [amount : Nat, currency : STRING, usd : Nat,
                    bucket : 0..4, category : C]
  BY DEF Normalized
<1>5. map_category(m.mcc) \in C
  BY <1>3
<1> HIDE DEF C
<1> QED
  BY <1>1, <1>2, <1>3, <1>4, <1>5 DEF normalize

LEMMA TopicTyped ==
  ASSUME TypeOK
  PROVE  /\ topic \in Seq(Messages) /\ Len(topic) \in Nat /\ Len(topic) =< MaxEvents
         /\ DOMAIN topic = 1..Len(topic)
         /\ \A i \in 1..Len(topic) : topic[i] \in Messages /\ topic[i] \in Message
         /\ MaxEvents \in Nat
BY MessagesAssumption, BoundsAssumption DEF TypeOK

\* What may happen to the consumer: producers append to its topic, one message or a
\* batch, or it takes a step of its own.
Grown ==
  /\ topic' \in Seq(Messages) /\ Len(topic') =< MaxEvents
  /\ Len(topic) =< Len(topic')
  /\ \A i \in 1..Len(topic) : topic'[i] = topic[i]
  /\ UNCHANGED consumer
Move == Grown \/ ConsumerStep \/ stop \/ Crash \/ UNCHANGED vars

LEMMA PublishGrows ==
  ASSUME TypeOK, NEW m \in Messages, Publish(m)
  PROVE  Grown
<1>1. topic' = Append(topic, m) /\ Len(topic) < MaxEvents /\ UNCHANGED consumer
  BY DEF Publish
<1> QED
  BY <1>1, TopicTyped DEF Grown

LEMMA BatchGrows ==
  ASSUME TypeOK, NEW s \in Seq(Messages), topic' = topic \o s,
         Len(topic') =< MaxEvents, UNCHANGED consumer
  PROVE  /\ Grown /\ Len(topic') = Len(topic) + Len(s)
         /\ \A j \in 1..Len(s) : topic'[Len(topic) + j] = s[j]
<1>1. topic \in Seq(Messages) /\ Len(topic) \in Nat /\ Len(s) \in Nat
  BY TopicTyped
<1>2. /\ topic' \in Seq(Messages) /\ Len(topic') = Len(topic) + Len(s)
      /\ \A i \in 1..Len(topic) : topic'[i] = topic[i]
      /\ \A j \in 1..Len(s) : topic'[Len(topic) + j] = s[j]
  BY <1>1
<1> QED
  BY <1>1, <1>2 DEF Grown

LEMMA SameHistory ==
  ASSUME UNCHANGED consumer
  PROVE  /\ committed' = committed /\ position' = position /\ cursor' = cursor
         /\ started' = started /\ pc' = pc /\ running' = running /\ stats' = stats
         /\ handled' = handled /\ again' = again /\ normalized' = normalized
         /\ stopped' = stopped /\ crashes' = crashes /\ raised' = raised
         /\ stops' = stops
BY DEF consumer, process, history

-----------------------------------------------------------------------------
(* The invariant, part by part.                                            *)

LEMMA InitInv == Init => ConsumerInv
<1> SUFFICES ASSUME Init PROVE ConsumerInv
  OBVIOUS
<1> USE DEF Init, ConsumerInit
<1>1. TypeOK
  <2>1. NoStats \in [DOMAIN NoStats -> 0..MaxEvents]
    BY BoundsAssumption DEF NoStats
  <2>2. /\ topic \in Seq(Messages) /\ Len(topic) =< MaxEvents
        /\ {committed, position, cursor, started} \subseteq 0..MaxEvents
        /\ crashes \in 0..MaxCrashes /\ stops \in 0..MaxStops
    BY BoundsAssumption
  <2>3. running \in BOOLEAN /\ {again, raised} \subseteq BOOLEAN
    BY Zenon
  <2> QED
    BY <2>1, <2>2, <2>3 DEF TypeOK
<1>2. OffsetsInv /\ PoisonInv /\ FaultInv /\ StatsInv /\ BuildInv /\ NormalizedInv
  BY DEF OffsetsInv, PoisonInv, FaultInv, StatsInv, Up, BuildInv, NormalizedInv
<1> QED
  BY <1>1, <1>2 DEF ConsumerInv

\* The message that is handled, and the state after it.
LEMMA Handling ==
  ASSUME ConsumerInv, Handle
  PROVE  /\ pc = "handle" /\ Up /\ cursor \in Nat /\ position \in Nat
         /\ cursor + 1 \in 1..Len(topic) /\ cursor + 1 =< position
         /\ Current \in Message /\ Current = topic[cursor + 1] /\ ~Raises(Current)
         /\ topic' = topic /\ cursor' = cursor + 1
         /\ handled' = handled \union {cursor + 1}
         /\ pc' = (IF cursor + 1 = position THEN "commit" ELSE "handle")
         /\ started' = started /\ committed' = committed /\ position' = position
<1>1. pc = "handle" /\ ~Raises(Current)
  BY DEF Handle
<1>2. /\ cursor < position /\ cursor \in 0..Len(topic) /\ position \in 0..Len(topic)
  BY <1>1 DEF ConsumerInv, OffsetsInv, Up
<1>3. Len(topic) \in Nat /\ Current \in Message
  BY <1>2, TopicTyped DEF ConsumerInv, Current
<1> QED
  BY <1>1, <1>2, <1>3 DEF Handle, Up, Current

LEMMA OffsetsStep == ConsumerInv /\ Move => OffsetsInv'
<1> SUFFICES ASSUME ConsumerInv, Move PROVE OffsetsInv'
  OBVIOUS
<1>1. OffsetsInv /\ Len(topic) \in Nat /\ TypeOK
  BY TopicTyped DEF ConsumerInv
<1>2. CASE Grown
  <2>1. Len(topic') \in Nat /\ Len(topic) =< Len(topic') /\ UNCHANGED consumer
    BY <1>1, <1>2 DEF Grown
  <2>2. /\ committed' = committed /\ position' = position /\ cursor' = cursor
        /\ started' = started /\ pc' = pc /\ handled' = handled
    BY <2>1, SameHistory
  <2> QED
    BY <1>1, <2>1, <2>2 DEF OffsetsInv, Up
<1>3. CASE Launch
  BY <1>1, <1>3 DEF Launch, OffsetsInv, Up
<1>4. CASE Connected
  BY <1>1, <1>4 DEF Connected, OffsetsInv, Up, history
<1>5. CASE Poll
  <2>1. PICK n \in 1..MaxPollRecords :
          position + n =< Len(topic) /\ position' = position + n
    BY <1>5 DEF Poll
  <2> QED
    BY <1>1, <1>5, <2>1, BoundsAssumption DEF Poll, OffsetsInv, Up, history
<1>6. CASE Handle
  <2>1. /\ pc = "handle" /\ cursor + 1 \in 1..Len(topic) /\ cursor + 1 =< position
        /\ topic' = topic /\ cursor' = cursor + 1
        /\ handled' = handled \union {cursor + 1}
        /\ pc' = (IF cursor + 1 = position THEN "commit" ELSE "handle")
        /\ started' = started /\ committed' = committed /\ position' = position
    BY <1>6, Handling
  <2>2. /\ started =< cursor /\ committed =< cursor /\ 1..cursor \subseteq handled
        /\ cursor \in Nat /\ started \in Nat /\ committed \in Nat
    BY <1>1, <2>1 DEF OffsetsInv, Up
  <2>3. 1..(cursor + 1) \subseteq handled \union {cursor + 1}
    BY <2>2
  <2>4. /\ handled' \subseteq 1..Len(topic') /\ 1..committed' \subseteq handled'
        /\ 1..cursor' \subseteq handled'
    BY <1>1, <2>1, <2>3 DEF OffsetsInv
  <2> QED
    BY <1>1, <2>1, <2>2, <2>4 DEF OffsetsInv, Up
<1>7. CASE Raise
  BY <1>1, <1>7 DEF Raise, OffsetsInv, Up
<1>8. CASE Commit
  BY <1>1, <1>8 DEF Commit, OffsetsInv, Up, history
<1>9. CASE Exit
  BY <1>1, <1>9 DEF Exit, OffsetsInv, Up, history
<1>10. CASE stop
  BY <1>1, <1>10 DEF stop, OffsetsInv, Up
<1>11. CASE Crash
  BY <1>1, <1>11 DEF Crash, OffsetsInv, Up
<1>12. CASE UNCHANGED vars
  BY <1>1, <1>12, SameHistory DEF vars, OffsetsInv, Up
<1> QED
  BY <1>2, <1>3, <1>4, <1>5, <1>6, <1>7, <1>8, <1>9, <1>10, <1>11, <1>12
     DEF Move, ConsumerStep

LEMMA PoisonStep == ConsumerInv /\ Move => PoisonInv'
<1> SUFFICES ASSUME ConsumerInv, Move PROVE PoisonInv'
  OBVIOUS
<1>1. PoisonInv /\ OffsetsInv /\ TypeOK
  BY DEF ConsumerInv
<1>2. CASE Grown
  <2>1. /\ handled' = handled /\ handled \subseteq 1..Len(topic)
        /\ \A i \in 1..Len(topic) : topic'[i] = topic[i]
    BY <1>1, <1>2, SameHistory DEF Grown, OffsetsInv
  <2> QED
    BY <1>1, <2>1 DEF PoisonInv
<1>3. CASE Handle
  BY <1>1, <1>3, Handling DEF PoisonInv
<1>4. CASE topic' = topic /\ handled' = handled
  BY <1>1, <1>4 DEF PoisonInv
<1> QED
  BY <1>2, <1>3, <1>4, SameHistory DEF Move, ConsumerStep, Launch, Connected, Poll, Raise,
     Commit, Exit, stop, Crash, history, vars

LEMMA FaultStep == ConsumerInv /\ Move => FaultInv'
<1> SUFFICES ASSUME ConsumerInv, Move, crashes' = 0, ~raised'
             PROVE  ~again' /\ handled' \subseteq 1..(IF Up' THEN cursor' ELSE committed')
  BY DEF FaultInv
<1>1. /\ FaultInv /\ OffsetsInv /\ TypeOK /\ crashes \in Nat /\ Len(topic) \in Nat
      /\ {committed, position, cursor} \subseteq Nat
  BY TopicTyped DEF ConsumerInv, TypeOK, OffsetsInv
<1>2. ~Raise /\ ~Crash
  BY <1>1 DEF Raise, Crash
<1>3. crashes = 0 /\ ~raised
  BY <1>2, SameHistory DEF Move, ConsumerStep, Grown, Launch, Connected, Poll, Handle, Commit,
     Exit, stop, history, vars
<1>4. ~again /\ handled \subseteq 1..(IF Up THEN cursor ELSE committed)
  BY <1>1, <1>3 DEF FaultInv
<1>5. Grown => UNCHANGED consumer
  BY DEF Grown
<1>6. CASE UNCHANGED consumer
  <2>1. ~again'
    BY <1>4, <1>6, SameHistory, Zenon
  <2> QED
    BY <1>4, <1>6, <2>1, SameHistory DEF Up
<1>7. CASE Launch
  BY <1>4, <1>7 DEF Launch, Up
<1>8. CASE Connected
  BY <1>4, <1>8 DEF Connected, Up, history
<1>9. CASE Poll
  BY <1>4, <1>9 DEF Poll, Up, history
<1>10. CASE Handle
  <2>1. cursor + 1 \notin handled
    BY <1>1, <1>4, <1>10, Handling
  <2>2. ~again'
    BY <1>4, <1>10, <2>1 DEF Handle
  <2>3. Up /\ Up' /\ cursor' = cursor + 1 /\ handled' = handled \union {cursor + 1}
    BY <1>10, Handling DEF Up
  <2>4. handled \subseteq 1..cursor /\ cursor \in Nat
    BY <1>1, <1>4, <2>3
  <2> QED
    BY <2>2, <2>3, <2>4
<1>11. CASE Commit
  BY <1>4, <1>11 DEF Commit, Up, history
<1>12. CASE Exit
  BY <1>1, <1>4, <1>12 DEF Exit, OffsetsInv, Up, history
<1>13. CASE stop
  BY <1>4, <1>13 DEF stop, Up
<1> QED
  BY <1>2, <1>5, <1>6, <1>7, <1>8, <1>9, <1>10, <1>11, <1>12, <1>13
     DEF Move, ConsumerStep, vars

-----------------------------------------------------------------------------
(* The statistics.                                                         *)

\* A set of served offsets gains the one that is handled, or stays.
LEMMA Gains ==
  ASSUME NEW S, IsFiniteSet(S), NEW T, NEW i, i \notin S
  PROVE  /\ T = S \union {i} => IsFiniteSet(T) /\ Cardinality(T) = Cardinality(S) + 1
         /\ T = S => IsFiniteSet(T) /\ Cardinality(T) = Cardinality(S)
<1>1. IsFiniteSet(S \union {i}) /\ Cardinality(S \union {i}) = Cardinality(S) + 1
  BY FS_AddElement
<1> QED
  BY <1>1

LEMMA ServedFinite ==
  ASSUME OffsetsInv
  PROVE  /\ IsFiniteSet(Served) /\ IsFiniteSet(Valid) /\ IsFiniteSet(Invalid)
         /\ IsFiniteSet(Undecodable) /\ IsFiniteSet(Null)
         /\ Cardinality(Served) \in Nat /\ Cardinality(Valid) \in Nat
         /\ Cardinality(Invalid) \in Nat /\ Cardinality(Undecodable) \in Nat
         /\ Cardinality(Null) \in Nat
<1>1. IsFiniteSet(Served)
  BY FS_Interval DEF OffsetsInv, Served
<1>2. /\ Valid \in SUBSET Served /\ Invalid \in SUBSET Served
      /\ Undecodable \in SUBSET Served /\ Null \in SUBSET Served
  BY DEF Valid, Invalid, Undecodable, Null
<1>3. /\ IsFiniteSet(Valid) /\ IsFiniteSet(Invalid)
      /\ IsFiniteSet(Undecodable) /\ IsFiniteSet(Null)
  BY <1>1, <1>2, FS_Subset
<1> QED
  BY <1>1, <1>3, FS_CardinalityType

\* No step but Handle changes what is served.
LEMMA KeepStats ==
  ASSUME ConsumerInv, Up, Up', stats' = stats, cursor' = cursor, started' = started,
         \A i \in 1..Len(topic) : topic'[i] = topic[i]
  PROVE  StatsInv'
<1>1. \A i \in Served : topic'[i] = topic[i]
  BY TopicTyped DEF ConsumerInv, OffsetsInv, Served
<1>2. Served' = Served
  BY DEF Served
<1>3. /\ Valid' = Valid /\ Invalid' = Invalid /\ Undecodable' = Undecodable
      /\ Null' = Null
  BY <1>1, <1>2 DEF Valid, Invalid, Undecodable, Null
<1> QED
  BY <1>2, <1>3 DEF ConsumerInv, StatsInv

LEMMA HandleStats ==
  ASSUME ConsumerInv, Handle
  PROVE  /\ StatsInv'
         /\ stats'.consumed = Cardinality(Served) + 1
         /\ stats'.valid \in 0..stats'.consumed
         /\ stats'.invalid \in 0..stats'.consumed
         /\ stats'.deserialization_errors \in 0..stats'.consumed
<1> DEFINE i == cursor + 1
<1>1. /\ Up /\ OffsetsInv /\ topic' = topic /\ cursor' = i /\ started' = started
      /\ cursor \in Nat /\ started \in Nat /\ started =< cursor
      /\ Current = topic[i] /\ Current \in Message /\ ~Raises(Current)
      /\ stats' = Count(stats, Current)
  BY Handling DEF ConsumerInv, OffsetsInv, Handle
<1>2. Served' = Served \union {i} /\ i \notin Served
  BY <1>1 DEF Served
<1> DEFINE m == topic[i]
           B(P) == IF P THEN 1 ELSE 0
<1>3. /\ Cardinality(Served') = Cardinality(Served) + 1
      /\ Cardinality(Valid') = Cardinality(Valid) + B(Validates(m))
      /\ Cardinality(Invalid') = Cardinality(Invalid)
                                 + B(m.body = "record" /\ ~Validates(m))
      /\ Cardinality(Undecodable') = Cardinality(Undecodable) + B(m.body = "undecodable")
      /\ Cardinality(Null') = Cardinality(Null) + B(m.body = "null")
  <2>1. Cardinality(Served') = Cardinality(Served) + 1
    BY <1>1, <1>2, ServedFinite, Gains
  <2>2. Cardinality(Valid') = Cardinality(Valid) + B(Validates(m))
    <3>1. i \notin Valid /\ IsFiniteSet(Valid) /\ Cardinality(Valid) \in Nat
      BY <1>1, <1>2, ServedFinite DEF Valid
    <3>2. Valid' = IF Validates(m) THEN Valid \union {i} ELSE Valid
      BY <1>1, <1>2 DEF Valid
    <3> QED
      BY <3>1, <3>2, Gains
  <2>3. Cardinality(Invalid') = Cardinality(Invalid)
                                + B(m.body = "record" /\ ~Validates(m))
    <3>1. i \notin Invalid /\ IsFiniteSet(Invalid) /\ Cardinality(Invalid) \in Nat
      BY <1>1, <1>2, ServedFinite DEF Invalid
    <3>2. Invalid' = IF m.body = "record" /\ ~Validates(m)
                     THEN Invalid \union {i} ELSE Invalid
      BY <1>1, <1>2 DEF Invalid
    <3> QED
      BY <3>1, <3>2, Gains
  <2>4. Cardinality(Undecodable') = Cardinality(Undecodable) + B(m.body = "undecodable")
    <3>1. i \notin Undecodable /\ IsFiniteSet(Undecodable)
          /\ Cardinality(Undecodable) \in Nat
      BY <1>1, <1>2, ServedFinite DEF Undecodable
    <3>2. Undecodable' = IF m.body = "undecodable"
                         THEN Undecodable \union {i} ELSE Undecodable
      BY <1>1, <1>2 DEF Undecodable
    <3> QED
      BY <3>1, <3>2, Gains
  <2>5. Cardinality(Null') = Cardinality(Null) + B(m.body = "null")
    <3>1. i \notin Null /\ IsFiniteSet(Null) /\ Cardinality(Null) \in Nat
      BY <1>1, <1>2, ServedFinite DEF Null
    <3>2. Null' = IF m.body = "null" THEN Null \union {i} ELSE Null
      BY <1>1, <1>2 DEF Null
    <3> QED
      BY <3>1, <3>2, Gains
  <2> QED
    BY <2>1, <2>2, <2>3, <2>4, <2>5
<1>4. /\ stats'.consumed = stats.consumed + 1
      /\ stats'.valid = stats.valid + B(Validates(m))
      /\ stats'.invalid = stats.invalid + B(m.body = "record" /\ ~Validates(m))
      /\ stats'.deserialization_errors = stats.deserialization_errors
                                         + B(m.body = "undecodable")
  BY <1>1 DEF Count
\* A message that does not raise is in exactly one class.
<1>5. 1 = B(Validates(m)) + B(m.body = "record" /\ ~Validates(m))
          + B(m.body = "undecodable") + B(m.body = "null")
  <2>1. m.body \in {"undecodable", "null", "record"}
    BY <1>1 DEF Message, Raises
  <2>2. Validates(m) => m.body = "record"
    BY DEF Validates
  <2> QED
    BY <2>1, <2>2
<1>6. /\ stats.consumed = Cardinality(Served) /\ stats.valid = Cardinality(Valid)
      /\ stats.invalid = Cardinality(Invalid)
      /\ stats.deserialization_errors = Cardinality(Undecodable)
      /\ stats.consumed = stats.valid + stats.invalid
                          + stats.deserialization_errors + Cardinality(Null)
  BY <1>1 DEF ConsumerInv, StatsInv
<1>7. /\ B(Validates(m)) \in 0..1 /\ B(m.body = "record" /\ ~Validates(m)) \in 0..1
      /\ B(m.body = "undecodable") \in 0..1 /\ B(m.body = "null") \in 0..1
  OBVIOUS
<1> HIDE DEF B, m, i
<1>8. stats'.consumed = stats'.valid + stats'.invalid
                        + stats'.deserialization_errors + Cardinality(Null')
  BY <1>1, <1>3, <1>4, <1>5, <1>6, <1>7, ServedFinite
<1>9. StatsInv'
  BY <1>3, <1>4, <1>6, <1>8 DEF StatsInv
<1>10. /\ stats'.valid \in Nat /\ stats'.invalid \in Nat
       /\ stats'.deserialization_errors \in Nat /\ Cardinality(Null') \in Nat
  BY <1>1, <1>3, <1>4, <1>6, <1>7, ServedFinite
<1> QED
  BY <1>4, <1>6, <1>8, <1>9, <1>10

LEMMA StatsStep == ConsumerInv /\ Move => StatsInv'
<1> SUFFICES ASSUME ConsumerInv, Move, Up' PROVE StatsInv'
  BY DEF StatsInv
<1>1. CASE Grown
  <2>1. UNCHANGED consumer /\ \A i \in 1..Len(topic) : topic'[i] = topic[i]
    BY <1>1 DEF Grown
  <2>2. Up
    BY <2>1, SameHistory DEF Up
  <2> QED
    BY <2>1, <2>2, SameHistory, KeepStats
<1>2. CASE Handle
  BY <1>2, HandleStats
<1>3. CASE Connected
  <2>1. /\ stats' = stats /\ topic' = topic /\ cursor' = committed
        /\ started' = committed /\ pc = "build"
    BY <1>3 DEF Connected
  <2>2. stats = NoStats
    BY <2>1 DEF ConsumerInv, BuildInv
  <2>3. Served' = {}
    BY <2>1 DEF Served, ConsumerInv, OffsetsInv
  <2>4. Valid' = {} /\ Invalid' = {} /\ Undecodable' = {} /\ Null' = {}
    BY <2>3 DEF Valid, Invalid, Undecodable, Null
  <2> QED
    BY <2>1, <2>2, <2>3, <2>4, FS_EmptySet DEF StatsInv, NoStats
<1>4. CASE Poll \/ Commit \/ stop
  <2>1. stats' = stats /\ cursor' = cursor /\ started' = started /\ topic' = topic
    BY <1>4 DEF Poll, Commit, stop
  <2>2. Up
    BY <1>4 DEF Poll, Commit, stop, Up
  <2> QED
    BY <2>1, <2>2, KeepStats
<1>5. CASE Launch \/ Raise \/ Exit \/ Crash
  BY <1>5 DEF Launch, Raise, Exit, Crash, Up
<1>6. CASE UNCHANGED vars
  <2>1. UNCHANGED consumer /\ topic' = topic
    BY <1>6 DEF vars
  <2>2. Up
    BY <2>1, SameHistory DEF Up
  <2> QED
    BY <2>1, <2>2, SameHistory, KeepStats
<1> QED
  BY <1>1, <1>2, <1>3, <1>4, <1>5, <1>6 DEF Move, ConsumerStep

LEMMA NormalizedStep ==
  ConsumerInv /\ Move =>
    NormalizedInv' /\ normalized' \subseteq Normalized
<1> SUFFICES ASSUME ConsumerInv, Move
             PROVE  NormalizedInv' /\ normalized' \subseteq Normalized
  OBVIOUS
<1>1. NormalizedInv /\ normalized \subseteq Normalized
  BY DEF ConsumerInv, TypeOK, Normalized
<1>2. CASE Handle
  <2>1. Current \in Message
    BY <1>2, Handling
  <2>2. CASE ~Validates(Current)
    BY <1>1, <1>2, <2>2 DEF Handle, NormalizedInv
  <2>3. CASE Validates(Current)
    <3>1. normalized' = normalized \union {normalize(Current)}
      BY <1>2, <2>3 DEF Handle
    <3>2. normalize(Current) \in Normalized
      BY <2>1, <2>3, NormalizeTyped
    <3>3. /\ normalize(Current).amount = Current.amount
          /\ normalize(Current).currency = Current.currency
          /\ normalize(Current).usd = convert_to_usd(Current.amount, Current.currency)
          /\ normalize(Current).bucket =
               bucket_amount(convert_to_usd(Current.amount, Current.currency))
      BY DEF normalize
    <3> QED
      BY <1>1, <3>1, <3>2, <3>3 DEF NormalizedInv
  <2> QED
    BY <2>2, <2>3
<1>3. CASE normalized' = normalized
  BY <1>1, <1>3 DEF NormalizedInv
<1> QED
  BY <1>2, <1>3, SameHistory DEF Move, ConsumerStep, Grown, Launch, Connected, Poll, Raise,
     Commit, Exit, stop, Crash, history, vars

LEMMA BuildStep == ConsumerInv /\ Move => BuildInv'
<1> SUFFICES ASSUME ConsumerInv, Move, pc' = "build" PROVE stats' = NoStats
  BY DEF BuildInv
<1>1. CASE Launch
  BY <1>1 DEF Launch
<1>2. CASE pc' = pc /\ stats' = stats
  BY <1>2 DEF ConsumerInv, BuildInv
<1> QED
  BY <1>1, <1>2, SameHistory DEF Move, ConsumerStep, Grown, Connected, Poll, Handle, Raise,
     Commit, Exit, stop, Crash, vars

LEMMA TypeStep == ConsumerInv /\ Move => TypeOK'
<1> SUFFICES ASSUME ConsumerInv, Move PROVE TypeOK'
  OBVIOUS
<1>1. /\ TypeOK /\ OffsetsInv /\ Len(topic) \in Nat /\ Len(topic) =< MaxEvents
      /\ MaxEvents \in Nat
  BY TopicTyped DEF ConsumerInv
<1>2. normalized' \subseteq [amount : Nat, currency : STRING, usd : Nat,
                             bucket : 0..4, category : DOMAIN Mcc \union {"other"}]
  BY NormalizedStep DEF Normalized
<1>3. topic' \in Seq(Messages) /\ Len(topic') =< MaxEvents /\ Len(topic') \in Nat
  <2>1. CASE Grown
    BY <2>1 DEF Grown
  <2>2. CASE topic' = topic
    BY <1>1, <2>2 DEF TypeOK
  <2>3. topic' \in Seq(Messages) /\ Len(topic') =< MaxEvents
    BY <2>1, <2>2 DEF Move, ConsumerStep, Launch, Connected, Poll, Handle, Raise,
       Commit, Exit, stop, Crash, vars
  <2> QED
    BY <2>3
<1>4. /\ {committed', position', cursor', started'} \subseteq 0..MaxEvents
      /\ handled' \subseteq Offsets
  BY <1>1, <1>3, OffsetsStep DEF OffsetsInv, Offsets
<1>5. stats' \in [DOMAIN NoStats -> 0..MaxEvents]
  <2>1. CASE Handle
    <3>1. /\ stats' = Count(stats, Current) /\ stats'.consumed = Cardinality(Served) + 1
          /\ stats'.valid \in 0..stats'.consumed /\ stats'.invalid \in 0..stats'.consumed
          /\ stats'.deserialization_errors \in 0..stats'.consumed
      BY <2>1, HandleStats DEF Handle
    <3>2. Cardinality(Served) + 1 =< MaxEvents /\ Cardinality(Served) \in Nat
      <4>1. /\ cursor \in Nat /\ started \in Nat /\ cursor + 1 =< Len(topic)
            /\ started =< cursor
        BY <1>1, <2>1, Handling DEF OffsetsInv
      <4>2. Cardinality(Served) = IF started + 1 > cursor THEN 0 ELSE cursor - (started + 1) + 1
        BY <4>1, FS_Interval DEF Served
      <4> QED
        BY <1>1, <4>1, <4>2
    <3>3. /\ stats'.consumed \in 0..MaxEvents /\ stats'.valid \in 0..MaxEvents
          /\ stats'.invalid \in 0..MaxEvents
          /\ stats'.deserialization_errors \in 0..MaxEvents
      BY <1>1, <3>1, <3>2
    <3> QED
      BY <3>1, <3>3 DEF Count, NoStats
  <2>2. CASE Launch
    BY <1>1, <2>2 DEF Launch, NoStats
  <2>3. CASE stats' = stats
    BY <1>1, <2>3 DEF TypeOK
  <2> QED
    BY <2>1, <2>2, <2>3, SameHistory DEF Move, ConsumerStep, Grown, Connected, Poll, Raise,
       Commit, Exit, stop, Crash, vars
<1>6. /\ pc' \in {"down", "build", "poll", "handle", "commit"}
      /\ stopped' \in {"none", "early", "late"}
      /\ crashes' \in 0..MaxCrashes /\ stops' \in 0..MaxStops
  BY <1>1, BoundsAssumption, SameHistory DEF TypeOK, Move, ConsumerStep, Grown, Launch,
     Connected, Poll, Handle, Raise, Commit, Exit, stop, Crash, vars, history
<1>7. running' \in BOOLEAN /\ again' \in BOOLEAN /\ raised' \in BOOLEAN
  <2>1. running \in BOOLEAN /\ again \in BOOLEAN /\ raised \in BOOLEAN
    BY <1>1 DEF TypeOK
  <2> QED
    BY <2>1, SameHistory, Zenon DEF Move, ConsumerStep, Grown, Launch,
       Connected, Poll, Handle, Raise, Commit, Exit, stop, Crash, vars, history
<1> QED
  BY <1>2, <1>3, <1>4, <1>5, <1>6, <1>7 DEF TypeOK

-----------------------------------------------------------------------------
(* What the invariant says of the consumer.                                *)

\* ConsumerInv is inductive.
LEMMA InvStep == ConsumerInv /\ Move => ConsumerInv'
BY TypeStep, OffsetsStep, PoisonStep, FaultStep, StatsStep, BuildStep, NormalizedStep
   DEF ConsumerInv

\* What run and _handle promise of the offsets before the cursor covers what is
\* committed.
LEMMA InvImpliesSafe == ConsumerInv => ConsumerSafe
<1> SUFFICES ASSUME ConsumerInv PROVE ConsumerSafe
  OBVIOUS
<1>1. PoisonHoldsTopic
  BY DEF ConsumerInv, OffsetsInv, PoisonInv, PoisonHoldsTopic
<1>2. RedeliveryNeedsFault
  <2>1. crashes \in Nat
    BY DEF ConsumerInv, TypeOK
  <2> QED
    BY <2>1 DEF ConsumerInv, FaultInv, RedeliveryNeedsFault
<1>3. StatsMatchTopic
  BY DEF ConsumerInv, StatsInv, StatsMatchTopic, Up, Served, Valid, Null
<1> QED
  BY <1>1, <1>2, <1>3 DEF ConsumerInv, ConsumerSafe

\* convert_to_usd and bucket_amount keep the order of the amounts of one currency.
LEMMA InvImpliesMonotone == ConsumerInv => BucketsMonotone
<1> SUFFICES ASSUME ConsumerInv, NEW r \in normalized, NEW s \in normalized,
                    r.currency = s.currency, r.amount =< s.amount
             PROVE  r.bucket =< s.bucket
  BY DEF BucketsMonotone
<1>1. r.amount \in Nat /\ s.amount \in Nat
  BY DEF ConsumerInv, TypeOK
<1>2. /\ convert_to_usd(r.amount, r.currency) \in Nat
      /\ convert_to_usd(s.amount, r.currency) \in Nat
      /\ convert_to_usd(r.amount, r.currency) =< convert_to_usd(s.amount, r.currency)
  BY <1>1, ConvertMonotone
<1> QED
  BY <1>2, BucketMonotone DEF ConsumerInv, NormalizedInv

\* A step of the consumer is a step of the at-least-once consumer or none of it.
LEMMA ImplementationStep ==
  ConsumerInv /\ Move =>
    [AtLeastOnceConsumer!ConsumerNext]_(AtLeastOnceConsumer!cvars)
<1> SUFFICES ASSUME ConsumerInv, Move
             PROVE  \/ AtLeastOnceConsumer!ConsumerNext
                    \/ UNCHANGED AtLeastOnceConsumer!cvars
  OBVIOUS
<1> USE DEF AtLeastOnceConsumer!ConsumerNext, AtLeastOnceConsumer!cvars
<1>1. /\ TypeOK /\ OffsetsInv /\ Len(topic) \in Nat /\ Len(topic) =< MaxEvents
      /\ MaxEvents \in Nat
  BY TopicTyped DEF ConsumerInv
<1>2. CASE Grown
  <2>1. /\ Len(topic') \in Nat /\ Len(topic') =< MaxEvents /\ Len(topic) =< Len(topic')
    BY <1>2 DEF Grown
  <2>2. handled' = handled /\ committed' = committed
    BY <1>2, SameHistory DEF Grown
  <2>3. CASE Len(topic') = Len(topic)
    BY <2>2, <2>3
  <2>4. CASE Len(topic) < Len(topic')
    <3>1. Len(topic') \in (Len(topic) + 1)..MaxEvents
      BY <1>1, <2>1, <2>4
    <3> QED
      BY <2>2, <3>1 DEF AtLeastOnceConsumer!Publish
  <2> QED
    BY <1>1, <2>1, <2>3, <2>4
<1>3. CASE Handle
  <2>1. /\ cursor + 1 \in 1..Len(topic) /\ handled' = handled \union {cursor + 1}
        /\ topic' = topic /\ committed' = committed
    BY <1>3, Handling
  <2>2. cursor + 1 \in (committed + 1)..Len(topic)
    BY <1>1, <1>3, <2>1, Handling DEF OffsetsInv
  <2>3. cursor + 1 \in 1..MaxEvents
    BY <1>1, <2>1
  <2>4. AtLeastOnceConsumer!Process(cursor + 1)
    BY <2>1, <2>2 DEF AtLeastOnceConsumer!Process
  <2> QED
    BY <2>3, <2>4
<1>4. CASE Commit
  <2>1. /\ committed' = position /\ handled' = handled /\ topic' = topic /\ Up
        /\ pc = "commit"
    BY <1>4 DEF Commit, history, Up
  <2>2. /\ position \in committed..Len(topic) /\ 1..position \subseteq handled
        /\ position \in 0..MaxEvents
    BY <1>1, <2>1 DEF OffsetsInv
  <2>3. AtLeastOnceConsumer!CommitUpTo(position)
    BY <2>1, <2>2 DEF AtLeastOnceConsumer!CommitUpTo
  <2> QED
    BY <2>2, <2>3
<1>5. CASE UNCHANGED <<topic, handled, committed>>
  BY <1>5
<1> QED
  BY <1>2, <1>3, <1>4, <1>5, SameHistory DEF Move, ConsumerStep, Launch, Connected, Poll,
     Raise, Exit, stop, Crash, history, vars

-----------------------------------------------------------------------------
(* The webhook on the same topic.                                          *)

\* Serials the first r requests can have used.
Room(r) == r * MaxPayload

\* RequestInv: where the request in hand is in its payload, and how many serials
\* that leaves for the requests to come.
RequestInv ==
  /\ requests \in 0..MaxRequests /\ serials \in Nat /\ index \in Nat
  /\ api \in {"idle", "publish", "flush"}
  /\ api = "publish" => /\ payload \in Payloads /\ index =< Len(payload)
                        /\ requests >= 1
                        /\ serials =< Room(requests - 1) + index
  /\ serials =< Room(requests)

\* Line: what the topic t makes with the buffer q of its partition, n of whose messages
\* are the batch that is to be sent again.  The buffer is in the order of the sends;
\* what the topic has of the webhook was sent before it, or is a copy of the batch,
\* and a copy of the batch starts at its first message.
Ordered(t) ==
  \A i, j \in 1..Len(t) :
    i < j /\ 0 < t[j].serial /\ t[j].serial < t[i].serial =>
      \E k, l \in 1..Len(t) :
        /\ k < i /\ t[k].serial = t[j].serial
        /\ j < l /\ t[l].serial = t[i].serial
Rising(q) ==
  /\ \A i \in 1..Len(q) : q[i].serial > 0
  /\ \A i, j \in 1..Len(q) : i < j => q[i].serial < q[j].serial
Ahead(t, q, n) ==
  \A i \in 1..Len(t) :
    \/ \A j \in 1..Len(q) : t[i].serial < q[j].serial
    \/ \E m \in 1..n : t[i].serial = q[m].serial
Whole(t, q, n) ==
  \A i \in 1..Len(t), m, x \in 1..n :
    m < x /\ t[i].serial = q[x].serial =>
      \E k \in 1..Len(t) : k < i /\ t[k].serial = q[m].serial
Line(t, q, n) == Ordered(t) /\ Rising(q) /\ Ahead(t, q, n) /\ Whole(t, q, n)

\* BufferInv: what is buffered has been sent, and for the topic's partition Line.
BufferInv ==
  /\ pending \in [Partitions -> Seq(Messages)]
  /\ inflight \in [Partitions -> [size : Nat, failed : Nat]]
  /\ \A p \in Partitions : inflight[p].size =< Len(pending[p])
  /\ Webhook!Buffered \subseteq 1..serials
  /\ \A i \in 1..Len(topic) : topic[i].serial =< serials
  /\ Line(topic, pending[Here], inflight[Here].size)

\* AnswerInv: serials that are counted have been used.
AnswerInv ==
  /\ counted \subseteq 1..serials
  /\ response.published \subseteq 1..serials
  /\ AnsweredIsFlushed

WebhookInv == RequestInv /\ BufferInv /\ AnswerInv
PipelineInv == ConsumerInv /\ WebhookInv

LEMMA RoomGrows ==
  ASSUME NEW r \in Nat, r + 1 =< MaxRequests
  PROVE  /\ Room(r) \in Nat /\ Room(r + 1) \in Nat
         /\ Room(r + 1) = Room(r) + MaxPayload
         /\ Room(r + 1) =< MaxRequests * MaxPayload
<1>1. /\ MaxPayload \in Nat /\ MaxRequests \in Nat
    BY WebhookAssumption
<1>2. /\ Room(r) \in Nat /\ Room(r + 1) = Room(r) + MaxPayload
    BY <1>1 DEF Room
<1>3. (r + 1) * MaxPayload =< MaxRequests * MaxPayload
    BY <1>1
<1> QED
    BY <1>1, <1>2, <1>3 DEF Room

\* The bookkeeping of the requests.
LEMMA RequestStep ==
  ASSUME RequestInv, Webhook!WebhookNext
  PROVE  /\ RequestInv'
         /\ Webhook!Send => serials + 1 \in 1..(MaxRequests * MaxPayload)
<1>1. /\ MaxPayload \in Nat /\ MaxRequests \in Nat
      /\ requests \in Nat /\ requests =< MaxRequests /\ Room(requests) \in Nat
    BY WebhookAssumption DEF RequestInv, Room
<1>2. api = "publish" =>
        /\ requests - 1 \in Nat /\ Room(requests - 1) \in Nat
        /\ Room(requests) = Room(requests - 1) + MaxPayload
        /\ Room(requests) =< MaxRequests * MaxPayload
        /\ Len(payload) \in Nat /\ Len(payload) =< MaxPayload
  <2> SUFFICES ASSUME api = "publish"
               PROVE  /\ requests - 1 \in Nat /\ Room(requests - 1) \in Nat
                      /\ Room(requests) = Room(requests - 1) + MaxPayload
                      /\ Room(requests) =< MaxRequests * MaxPayload
                      /\ Len(payload) \in Nat /\ Len(payload) =< MaxPayload
      OBVIOUS
  <2>1. requests - 1 \in Nat /\ (requests - 1) + 1 = requests
      BY <1>1 DEF RequestInv
  <2>2. /\ Room(requests - 1) \in Nat
        /\ Room(requests) = Room(requests - 1) + MaxPayload
        /\ Room(requests) =< MaxRequests * MaxPayload
      BY <1>1, <2>1, RoomGrows
  <2>3. Len(payload) \in Nat /\ Len(payload) =< MaxPayload
      BY PayloadAssumption DEF RequestInv
  <2> QED
      BY <2>1, <2>2, <2>3
<1>3. CASE Webhook!Receive
  <2>1. /\ requests < MaxRequests /\ requests' = requests + 1 /\ api = "idle"
        /\ payload' \in Payloads /\ api' = "publish" /\ index' = 0
        /\ serials' = serials
      BY <1>3 DEF Webhook!Receive, Webhook!Request
  <2>2. /\ Room(requests') = Room(requests) + MaxPayload
        /\ requests' - 1 = requests
      BY <1>1, <2>1, RoomGrows
  <2>3. Len(payload') \in Nat
      BY <2>1, PayloadAssumption
  <2> QED
      BY <1>1, <2>1, <2>2, <2>3 DEF RequestInv, Webhook!Send
<1>4. CASE Webhook!Send
  <2>1. /\ api = "publish" /\ index < Len(payload) /\ index' = index + 1
        /\ serials' = serials + 1 \/ serials' = serials
        /\ UNCHANGED <<api, payload, requests>>
      BY <1>4 DEF Webhook!Send
  <2>2. serials + 1 =< Room(requests - 1) + index + 1
      BY <1>2, <2>1 DEF RequestInv
  <2>3. /\ serials + 1 =< Room(requests)
        /\ serials + 1 \in 1..(MaxRequests * MaxPayload)
      BY <1>1, <1>2, <2>1, <2>2 DEF RequestInv
  <2> QED
      BY <1>1, <1>2, <2>1, <2>2, <2>3 DEF RequestInv
<1>5. CASE Webhook!Refuse \/ Webhook!NoBroker
  <2>1. /\ requests < MaxRequests /\ requests' = requests + 1 /\ api = "idle"
        /\ api' = "idle" /\ index' = 0 /\ serials' = serials
      BY <1>5 DEF Webhook!Refuse, Webhook!NoBroker, Webhook!Request, Webhook!Answer
  <2>2. Room(requests') = Room(requests) + MaxPayload
      BY <1>1, <2>1, RoomGrows
  <2> QED
      BY <1>1, <2>1, <2>2 DEF RequestInv, Webhook!Send
<1>6. CASE Webhook!EndOfLoop
    BY <1>6 DEF RequestInv, Webhook!EndOfLoop, Webhook!Send
<1>7. CASE Webhook!Accepted \/ Webhook!FlushTimeout \/ Webhook!ApiCrash
  <2>1. /\ UNCHANGED <<requests, serials>>
        /\ UNCHANGED <<api, payload, index>> \/ (api' = "idle" /\ index' = 0)
      BY <1>7 DEF Webhook!Accepted, Webhook!FlushTimeout, Webhook!Answer,
                  Webhook!ApiCrash
  <2>2. ~Webhook!Send
      BY <1>7 DEF Webhook!Accepted, Webhook!FlushTimeout, Webhook!ApiCrash,
                  Webhook!Send
  <2> QED
      BY <2>1, <2>2 DEF RequestInv
<1>8. CASE Webhook!Sender
    BY <1>8 DEF RequestInv, Webhook!Sender, Webhook!Send
<1> QED
    BY <1>3, <1>4, <1>5, <1>6, <1>7, <1>8 DEF Webhook!WebhookNext

\* What send() buffers is one of the messages.
LEMMA EncodeTyped ==
  ASSUME RequestInv, Webhook!Send
  PROVE  Webhook!Encode(payload[index + 1], serials + 1) \in Messages
<1>1. serials + 1 \in 1..(MaxRequests * MaxPayload)
    BY RequestStep DEF Webhook!WebhookNext
<1>2. /\ payload \in Payloads /\ index + 1 \in DOMAIN payload
    BY PayloadAssumption DEF RequestInv, Webhook!Send
<1> QED
    BY <1>1, <1>2, PayloadAssumption

-----------------------------------------------------------------------------
(* What the sender makes of a topic and the buffer of its partition.       *)

LEMMA MessageTyped ==
  ASSUME NEW s \in Seq(Messages)
  PROVE  /\ Len(s) \in Nat /\ DOMAIN s = 1..Len(s)
         /\ \A i \in 1..Len(s) : s[i] \in Messages /\ s[i].serial \in Nat
<1>1. /\ Len(s) \in Nat /\ DOMAIN s = 1..Len(s)
      /\ \A i \in 1..Len(s) : s[i] \in Messages
    OBVIOUS
<1>2. \A m \in Messages : m.serial \in Nat
    BY MessagesAssumption DEF Message
<1> QED
    BY <1>1, <1>2

\* The sizes of the batch that is sent.
LEMMA BatchSize ==
  ASSUME BufferInv, NEW p \in Partitions, NEW n \in Webhook!Sizes(p)
  PROVE  /\ n \in 1..Len(pending[p]) /\ Len(pending[p]) \in Nat
         /\ inflight[p].size = 0 \/ inflight[p].size = n
         /\ pending[p] \in Seq(Messages)
<1>1. /\ pending[p] \in Seq(Messages) /\ inflight[p].size \in Nat
      /\ inflight[p].size =< Len(pending[p])
    BY DEF BufferInv
<1>2. Len(pending[p]) \in Nat
    BY <1>1
<1> QED
    BY <1>1, <1>2 DEF Webhook!Sizes

\* A batch that is stored, over whole copies of it that were stored before.
LEMMA StoredLine ==
  ASSUME NEW t \in Seq(Messages), NEW q \in Seq(Messages), NEW o \in Nat,
         NEW n \in 1..Len(q), o = 0 \/ o = n, Line(t, q, o),
         NEW u \in Seq(Messages), Len(u) = Len(t) + n,
         \A i \in 1..Len(t) : u[i] = t[i],
         \A m \in 1..n : u[Len(t) + m] = q[m]
  PROVE  Line(u, q, n)
<1>1. /\ Len(t) \in Nat /\ Len(q) \in Nat /\ n \in Nat
      /\ Len(u) = Len(t) + n /\ n =< Len(q)
      /\ \A i \in 1..Len(t) : t[i].serial \in Nat
      /\ \A i \in 1..Len(q) : q[i].serial \in Nat
      /\ \A i \in 1..Len(u) : u[i].serial \in Nat
  <2>1. Len(t) \in Nat /\ Len(q) \in Nat
      BY MessageTyped
  <2>2. n \in Nat /\ n =< Len(q)
      BY <2>1
  <2> QED
      BY <2>1, <2>2, MessageTyped
<1>2. \A i \in 1..Len(u) :
        \/ i \in 1..Len(t) /\ u[i] = t[i]
        \/ \E m \in 1..n : i = Len(t) + m /\ u[i] = q[m]
  <2> SUFFICES ASSUME NEW i \in 1..Len(u), i \notin 1..Len(t)
               PROVE  \E m \in 1..n : i = Len(t) + m /\ u[i] = q[m]
      OBVIOUS
  <2>1. i - Len(t) \in 1..n /\ i = Len(t) + (i - Len(t))
      BY <1>1
  <2> QED
      BY <2>1
<1>3. \A m \in 1..n : Len(t) + m \in 1..Len(u) /\ m \in 1..Len(q)
    BY <1>1
<1>4. \A i \in 1..Len(t) : i \in 1..Len(u)
    BY <1>1
<1>5. Rising(q) /\ Ordered(t) /\ Ahead(t, q, o) /\ Whole(t, q, o)
    BY DEF Line
<1>6. ASSUME NEW m \in 1..n, NEW x \in 1..n, q[m].serial < q[x].serial
      PROVE  m < x
  <2>1. /\ m \in 1..Len(q) /\ x \in 1..Len(q)
        /\ q[m].serial \in Nat /\ q[x].serial \in Nat
      BY <1>1, <1>3
  <2>2. x < m => q[x].serial < q[m].serial
      BY <1>5, <2>1 DEF Rising
  <2> QED
      BY <1>6, <2>1, <2>2
\* A transaction of the topic that is not ahead of the buffer is in the batch.
<1>7. \A i \in 1..Len(t) : \/ \A j \in 1..Len(q) : t[i].serial < q[j].serial
                           \/ \E m \in 1..n : t[i].serial = q[m].serial
  <2>1. CASE o = n
      BY <1>5, <2>1 DEF Ahead
  <2>2. CASE o = 0
      BY <1>5, <2>2 DEF Ahead
  <2> QED
      BY <2>1, <2>2
\* A copy of a later message of the batch has one of each earlier message before it.
<1>8. \A i \in 1..Len(t), m, x \in 1..n :
        m < x /\ t[i].serial = q[x].serial =>
          \E k \in 1..Len(t) : k < i /\ t[k].serial = q[m].serial
  <2>1. CASE o = n
      BY <1>5, <2>1 DEF Whole
  <2>2. CASE o = 0
    <3>1. ASSUME NEW i \in 1..Len(t), NEW x \in 1..n
          PROVE  t[i].serial # q[x].serial
      <4>1. Ahead(t, q, 0)
          BY <1>5, <2>2
      <4>2. 1..0 = {}
          OBVIOUS
      <4>3. \A j \in 1..Len(q) : t[i].serial < q[j].serial
          BY <4>1, <4>2 DEF Ahead
      <4>4. t[i].serial < q[x].serial /\ t[i].serial \in Nat
          BY <1>1, <1>3, <4>3
      <4> QED
          BY <4>4
    <3> QED
        BY <3>1
  <2> QED
      BY <2>1, <2>2
<1>9. Ahead(u, q, n)
  <2> SUFFICES ASSUME NEW i \in 1..Len(u)
               PROVE  \/ \A j \in 1..Len(q) : u[i].serial < q[j].serial
                      \/ \E m \in 1..n : u[i].serial = q[m].serial
      BY DEF Ahead
  <2> QED
      BY <1>2, <1>7
<1>10. Whole(u, q, n)
  <2> SUFFICES ASSUME NEW i \in 1..Len(u), NEW m \in 1..n, NEW x \in 1..n, m < x,
                      u[i].serial = q[x].serial
               PROVE  \E k \in 1..Len(u) : k < i /\ u[k].serial = q[m].serial
      BY DEF Whole
  <2>1. CASE i \in 1..Len(t) /\ u[i] = t[i]
    <3>1. PICK k \in 1..Len(t) : k < i /\ t[k].serial = q[m].serial
        BY <1>8, <2>1
    <3>2. k \in 1..Len(u) /\ u[k] = t[k]
        BY <1>4
    <3> QED
        BY <3>1, <3>2
  <2>2. ASSUME NEW y \in 1..n, i = Len(t) + y, u[i] = q[y]
        PROVE  \E k \in 1..Len(u) : k < i /\ u[k].serial = q[m].serial
    <3>1. y = x
      <4>1. y \in 1..Len(q) /\ x \in 1..Len(q)
          BY <1>3
      <4>2. q[y].serial = q[x].serial
          BY <2>2
      <4> QED
          BY <1>1, <1>5, <4>1, <4>2 DEF Rising
    <3>2. Len(t) + m \in 1..Len(u) /\ Len(t) + m < i /\ u[Len(t) + m] = q[m]
        BY <1>1, <1>3, <2>2, <3>1
    <3> QED
        BY <3>2
  <2> QED
      BY <1>2, <2>1, <2>2
<1>11. Ordered(u)
  <2> SUFFICES ASSUME NEW i \in 1..Len(u), NEW j \in 1..Len(u),
                      i < j /\ 0 < u[j].serial /\ u[j].serial < u[i].serial
               PROVE  \E k, l \in 1..Len(u) :
                        /\ k < i /\ u[k].serial = u[j].serial
                        /\ j < l /\ u[l].serial = u[i].serial
      BY DEF Ordered
  <2>1. CASE j \in 1..Len(t) /\ u[j] = t[j]
    <3>1. i \in 1..Len(t) /\ u[i] = t[i]
        BY <1>1, <2>1
    <3>2. PICK k, l \in 1..Len(t) : /\ k < i /\ t[k].serial = t[j].serial
                                    /\ j < l /\ t[l].serial = t[i].serial
        BY <1>5, <2>1, <3>1 DEF Ordered
    <3>3. k \in 1..Len(u) /\ l \in 1..Len(u) /\ u[k] = t[k] /\ u[l] = t[l]
        BY <1>4
    <3> QED
        BY <2>1, <3>1, <3>2, <3>3
  <2>2. ASSUME NEW m \in 1..n, j = Len(t) + m, u[j] = q[m]
        PROVE  \E k, l \in 1..Len(u) :
                 /\ k < i /\ u[k].serial = u[j].serial
                 /\ j < l /\ u[l].serial = u[i].serial
    <3>1. CASE i \in 1..Len(t) /\ u[i] = t[i]
      <4>1. ~(t[i].serial < q[m].serial) /\ m \in 1..Len(q)
          BY <1>1, <1>3, <2>2, <3>1
      <4>2. PICK x \in 1..n : t[i].serial = q[x].serial
          BY <1>7, <3>1, <4>1
      <4>3. m < x
          BY <1>6, <2>2, <3>1, <4>2
      <4>4. PICK k \in 1..Len(t) : k < i /\ t[k].serial = q[m].serial
          BY <1>8, <3>1, <4>2, <4>3
      <4>5. k \in 1..Len(u) /\ u[k].serial = u[j].serial
          BY <1>4, <2>2, <4>4
      <4>6. /\ Len(t) + x \in 1..Len(u) /\ j < Len(t) + x
            /\ u[Len(t) + x].serial = u[i].serial
        <5>1. Len(t) + x \in 1..Len(u) /\ u[Len(t) + x] = q[x]
            BY <1>3
        <5>2. Len(t) + m < Len(t) + x
            BY <1>1, <4>3
        <5> QED
            BY <2>2, <3>1, <4>2, <5>1, <5>2
      <4> QED
          BY <4>4, <4>5, <4>6
    <3>2. ASSUME NEW x \in 1..n, i = Len(t) + x, u[i] = q[x]
          PROVE  FALSE
      <4>1. m < x
          BY <1>6, <2>2, <3>2
      <4> QED
          BY <1>1, <2>2, <3>2, <4>1
    <3> QED
        BY <1>2, <3>1, <3>2
  <2> QED
      BY <1>2, <2>1, <2>2
<1> QED
    BY <1>5, <1>9, <1>10, <1>11 DEF Line

\* A batch that will be sent again and is not stored.
LEMMA KeptLine ==
  ASSUME NEW t \in Seq(Messages), NEW q \in Seq(Messages), NEW o \in Nat,
         NEW n \in 1..Len(q), o = 0 \/ o = n, Line(t, q, o)
  PROVE  Line(t, q, n)
<1>1. CASE o = n
    BY <1>1
<1>2. CASE o = 0
  <2>1. /\ Len(t) \in Nat /\ Len(q) \in Nat /\ n \in Nat
        /\ \A i \in 1..Len(t) : t[i].serial \in Nat
        /\ \A i \in 1..Len(q) : q[i].serial \in Nat
      BY MessageTyped
  <2>2. \A i \in 1..Len(t), j \in 1..Len(q) : t[i].serial < q[j].serial
      BY <1>2 DEF Line, Ahead
  <2>3. Ahead(t, q, n)
      BY <2>2 DEF Ahead
  <2>4. \A i \in 1..Len(t), x \in 1..n : t[i].serial # q[x].serial
      BY <2>1, <2>2
  <2>5. Whole(t, q, n)
      BY <2>4 DEF Whole
  <2> QED
      BY <2>3, <2>5 DEF Line
<1> QED
    BY <1>1, <1>2

\* What SubSeq leaves of a buffer.
LEMMA RestOf ==
  ASSUME NEW q \in Seq(Messages), NEW n \in 1..Len(q)
  PROVE  /\ SubSeq(q, n + 1, Len(q)) \in Seq(Messages)
         /\ Len(SubSeq(q, n + 1, Len(q))) = Len(q) - n
         /\ \A i \in 1..(Len(q) - n) :
              i + n \in 1..Len(q) /\ SubSeq(q, n + 1, Len(q))[i] = q[i + n]
         /\ SubSeq(q, 1, n) \in Seq(Messages) /\ Len(SubSeq(q, 1, n)) = n
         /\ \A i \in 1..n : SubSeq(q, 1, n)[i] = q[i]
<1>1. Len(q) \in Nat /\ \A i \in 1..Len(q) : q[i] \in Messages
    OBVIOUS
<1>2. /\ SubSeq(q, n + 1, Len(q)) = [i \in 1..(Len(q) - n) |-> q[i + n]]
      /\ Len(SubSeq(q, n + 1, Len(q))) = Len(q) - n
    BY <1>1
<1>3. /\ SubSeq(q, 1, n) = [i \in 1..n |-> q[i]]
      /\ Len(SubSeq(q, 1, n)) = n
    BY <1>1
<1>4. \A i \in 1..(Len(q) - n) : i + n \in 1..Len(q)
    BY <1>1
<1>5. /\ SubSeq(q, n + 1, Len(q)) \in Seq(Messages)
      /\ SubSeq(q, 1, n) \in Seq(Messages)
    BY <1>1
<1> QED
    BY <1>2, <1>3, <1>4, <1>5

\* The sender is done with a batch, stored or not.
LEMMA ForgottenLine ==
  ASSUME NEW t \in Seq(Messages), NEW q \in Seq(Messages), NEW n \in 1..Len(q),
         Line(t, q, n)
  PROVE  Line(t, SubSeq(q, n + 1, Len(q)), 0)
<1> DEFINE r == SubSeq(q, n + 1, Len(q))
<1>1. /\ Len(q) \in Nat /\ n \in Nat /\ Len(r) = Len(q) - n
      /\ \A i \in 1..Len(r) : i + n \in 1..Len(q) /\ r[i] = q[i + n]
      /\ \A i \in 1..Len(t) : t[i].serial \in Nat
      /\ \A i \in 1..Len(q) : q[i].serial \in Nat
    BY RestOf, MessageTyped
<1> HIDE DEF r
<1>2. Rising(q) /\ Ahead(t, q, n)
    BY DEF Line
<1>3. Rising(r)
  <2>1. \A i \in 1..Len(r) : r[i].serial > 0
      BY <1>1, <1>2 DEF Rising
  <2>2. ASSUME NEW i \in 1..Len(r), NEW j \in 1..Len(r), i < j
        PROVE  r[i].serial < r[j].serial
    <3>1. i + n < j + n /\ i + n \in 1..Len(q) /\ j + n \in 1..Len(q)
        BY <1>1, <2>2
    <3> QED
        BY <1>1, <1>2, <3>1 DEF Rising
  <2> QED
      BY <2>1, <2>2 DEF Rising
<1>4. Ahead(t, r, 0)
  <2> SUFFICES ASSUME NEW i \in 1..Len(t), NEW j \in 1..Len(r)
               PROVE  t[i].serial < r[j].serial
      BY DEF Ahead
  <2>1. j + n \in 1..Len(q) /\ r[j] = q[j + n]
      BY <1>1
  <2>2. CASE t[i].serial < q[j + n].serial
      BY <2>1, <2>2
  <2>3. ASSUME NEW m \in 1..n, t[i].serial = q[m].serial
        PROVE  t[i].serial < r[j].serial
    <3>1. m \in 1..Len(q) /\ m < j + n
        BY <1>1
    <3> QED
        BY <1>2, <2>1, <2>3, <3>1 DEF Rising
  <2> QED
      BY <1>2, <2>1, <2>2, <2>3 DEF Ahead
<1>5. Whole(t, r, 0)
    BY DEF Whole
<1>6. Line(t, r, 0)
    BY <1>3, <1>4, <1>5 DEF Line
<1> QED
    BY <1>6 DEF r

\* send() puts a message behind all the others.
LEMMA SentLine ==
  ASSUME NEW t \in Seq(Messages), NEW q \in Seq(Messages), NEW n \in 0..Len(q),
         Line(t, q, n), NEW m \in Messages, m.serial > 0,
         \A i \in 1..Len(t) : t[i].serial < m.serial,
         \A i \in 1..Len(q) : q[i].serial < m.serial
  PROVE  Line(t, Append(q, m), n)
<1> DEFINE r == Append(q, m)
<1>1. /\ Len(q) \in Nat /\ n \in Nat /\ Len(r) = Len(q) + 1
      /\ \A i \in 1..Len(q) : i \in 1..Len(r) /\ r[i] = q[i]
      /\ r[Len(q) + 1] = m
      /\ \A i \in 1..n : i \in 1..Len(q)
    OBVIOUS
<1> HIDE DEF r
<1>2. \A i \in 1..Len(r) : \/ i \in 1..Len(q) /\ r[i] = q[i]
                           \/ i = Len(q) + 1 /\ r[i] = m
    BY <1>1
<1>3. Rising(q) /\ Ahead(t, q, n) /\ Whole(t, q, n) /\ Ordered(t)
    BY DEF Line
<1>4. Rising(r)
  <2>1. \A i \in 1..Len(r) : r[i].serial > 0
      BY <1>2, <1>3 DEF Rising
  <2>2. ASSUME NEW i \in 1..Len(r), NEW j \in 1..Len(r), i < j
        PROVE  r[i].serial < r[j].serial
    <3>1. i \in 1..Len(q) /\ r[i] = q[i]
        BY <1>1, <2>2
    <3>2. CASE j \in 1..Len(q) /\ r[j] = q[j]
        BY <1>3, <2>2, <3>1, <3>2 DEF Rising
    <3>3. CASE r[j] = m
        BY <3>1, <3>3
    <3> QED
        BY <1>2, <3>2, <3>3
  <2> QED
      BY <2>1, <2>2 DEF Rising
<1>5. Ahead(t, r, n)
  <2> SUFFICES ASSUME NEW i \in 1..Len(t)
               PROVE  \/ \A j \in 1..Len(r) : t[i].serial < r[j].serial
                      \/ \E x \in 1..n : t[i].serial = r[x].serial
      BY DEF Ahead
  <2>1. CASE \A j \in 1..Len(q) : t[i].serial < q[j].serial
      BY <1>2, <2>1
  <2>2. ASSUME NEW x \in 1..n, t[i].serial = q[x].serial
        PROVE  t[i].serial = r[x].serial
      BY <1>1, <2>2
  <2> QED
      BY <1>3, <2>1, <2>2 DEF Ahead
<1>6. Whole(t, r, n)
  <2> SUFFICES ASSUME NEW i \in 1..Len(t), NEW x \in 1..n, NEW y \in 1..n, x < y,
                      t[i].serial = r[y].serial
               PROVE  \E k \in 1..Len(t) : k < i /\ t[k].serial = r[x].serial
      BY DEF Whole
  <2>1. r[x] = q[x] /\ r[y] = q[y]
      BY <1>1
  <2> QED
      BY <1>3, <2>1 DEF Whole
<1>7. Line(t, r, n)
    BY <1>3, <1>4, <1>5, <1>6 DEF Line
<1> QED
    BY <1>7 DEF r

\* A message without a serial of the webhook goes anywhere.
LEMMA ForeignLine ==
  ASSUME NEW t \in Seq(Messages), NEW q \in Seq(Messages), NEW n \in 0..Len(q),
         Line(t, q, n), NEW m \in Messages, m.serial = 0
  PROVE  Line(Append(t, m), q, n)
<1> DEFINE u == Append(t, m)
<1>1. /\ Len(t) \in Nat /\ Len(q) \in Nat /\ n \in Nat /\ Len(u) = Len(t) + 1
      /\ \A i \in 1..Len(t) : i \in 1..Len(u) /\ u[i] = t[i]
      /\ u[Len(t) + 1] = m
      /\ \A i \in 1..n : i \in 1..Len(q)
      /\ \A i \in 1..Len(t) : t[i].serial \in Nat
      /\ \A i \in 1..Len(q) : q[i].serial \in Nat
    BY MessageTyped
<1> HIDE DEF u
<1>2. \A i \in 1..Len(u) : \/ i \in 1..Len(t) /\ u[i] = t[i]
                           \/ i = Len(t) + 1 /\ u[i].serial = 0
    BY <1>1
<1>3. Rising(q) /\ Ahead(t, q, n) /\ Whole(t, q, n) /\ Ordered(t)
    BY DEF Line
<1>4. \A j \in 1..Len(q) : 0 < q[j].serial
    BY <1>1, <1>3 DEF Rising
<1>5. Ahead(u, q, n)
    BY <1>2, <1>3, <1>4 DEF Ahead
<1>6. Whole(u, q, n)
  <2> SUFFICES ASSUME NEW i \in 1..Len(u), NEW x \in 1..n, NEW y \in 1..n, x < y,
                      u[i].serial = q[y].serial
               PROVE  \E k \in 1..Len(u) : k < i /\ u[k].serial = q[x].serial
      BY DEF Whole
  <2>1. u[i].serial # 0
      BY <1>1, <1>4
  <2>2. i \in 1..Len(t) /\ u[i] = t[i]
      BY <1>2, <2>1
  <2>3. PICK k \in 1..Len(t) : k < i /\ t[k].serial = q[x].serial
      BY <1>3, <2>2 DEF Whole
  <2> QED
      BY <1>1, <2>3
<1>7. Ordered(u)
  <2> SUFFICES ASSUME NEW i \in 1..Len(u), NEW j \in 1..Len(u),
                      i < j /\ 0 < u[j].serial /\ u[j].serial < u[i].serial
               PROVE  \E k, l \in 1..Len(u) :
                        /\ k < i /\ u[k].serial = u[j].serial
                        /\ j < l /\ u[l].serial = u[i].serial
      BY DEF Ordered
  <2>1. j \in 1..Len(t) /\ u[j] = t[j]
      BY <1>2
  <2>2. i \in 1..Len(t) /\ u[i] = t[i]
      BY <1>1, <2>1
  <2>3. PICK k, l \in 1..Len(t) : /\ k < i /\ t[k].serial = t[j].serial
                                  /\ j < l /\ t[l].serial = t[i].serial
      BY <1>3, <2>1, <2>2 DEF Ordered
  <2> QED
      BY <1>1, <2>1, <2>2, <2>3
<1>8. Line(u, q, n)
    BY <1>3, <1>5, <1>6, <1>7 DEF Line
<1> QED
    BY <1>8 DEF u

-----------------------------------------------------------------------------
(* The steps of the webhook.                                               *)

LEMMA BufferedIs ==
  ASSUME NEW s
  PROVE  s \in Webhook!Buffered <=>
           \E p \in Partitions : \E i \in DOMAIN pending[p] : s = pending[p][i].serial
BY DEF Webhook!Buffered, Webhook!Serials

LEMMA BufferedThen ==
  ASSUME NEW s
  PROVE  s \in Webhook!Buffered' <=>
           \E p \in Partitions : \E i \in DOMAIN pending'[p] : s = pending'[p][i].serial
BY DEF Webhook!Buffered, Webhook!Serials

\* Nothing is buffered at first and after a crash.
LEMMA EmptyLine ==
  ASSUME NEW t \in Seq(Messages), Ordered(t)
  PROVE  Line(t, <<>>, 0)
BY DEF Line, Rising, Ahead, Whole

LEMMA InitBuffer == Init /\ Webhook!WebhookInit => BufferInv
<1> SUFFICES ASSUME Init, Webhook!WebhookInit PROVE BufferInv
    OBVIOUS
<1>1. /\ topic = <<>> /\ serials = 0
      /\ pending = [p \in Partitions |-> <<>>]
      /\ inflight = [p \in Partitions |-> [size |-> 0, failed |-> 0]]
    BY DEF Init, Webhook!WebhookInit, Webhook!NoBatch
<1>2. Webhook!Buffered = {}
    BY <1>1, BufferedIs
<1>3. Ordered(topic) /\ topic \in Seq(Messages)
    BY <1>1 DEF Ordered
<1>4. Line(topic, pending[Here], inflight[Here].size)
    BY <1>1, <1>3, EmptyLine, WebhookAssumption
<1>5. /\ pending \in [Partitions -> Seq(Messages)]
      /\ inflight \in [Partitions -> [size : Nat, failed : Nat]]
      /\ \A p \in Partitions : inflight[p].size =< Len(pending[p])
    BY <1>1
<1> QED
    BY <1>1, <1>2, <1>4, <1>5 DEF BufferInv

\* What others publish carries serial 0.
LEMMA OthersStep ==
  ASSUME ConsumerInv, WebhookInv, NEW m \in Messages, m.serial = 0, Publish(m),
         UNCHANGED webhook
  PROVE  WebhookInv'
<1>1. /\ topic \in Seq(Messages) /\ topic' = Append(topic, m)
      /\ UNCHANGED <<api, payload, index, counted, pending, inflight, serials,
                     response, requests>>
      /\ Len(topic) \in Nat
    BY TopicTyped DEF ConsumerInv, Publish, webhook
<1>2. Webhook!Buffered' = Webhook!Buffered
    BY <1>1 DEF Webhook!Buffered, Webhook!Serials
<1>3. /\ pending[Here] \in Seq(Messages) /\ inflight[Here].size \in 0..Len(pending[Here])
      /\ Line(topic, pending[Here], inflight[Here].size)
  <2>1. /\ pending[Here] \in Seq(Messages) /\ inflight[Here].size \in Nat
        /\ inflight[Here].size =< Len(pending[Here])
      BY WebhookAssumption DEF WebhookInv, BufferInv
  <2> QED
      BY <2>1 DEF WebhookInv, BufferInv
<1>4. Line(topic', pending'[Here], inflight'[Here].size)
    BY <1>1, <1>3, ForeignLine
<1>5. \A i \in 1..Len(topic') : topic'[i].serial =< serials
  <2>1. \A i \in 1..Len(topic') : \/ i \in 1..Len(topic) /\ topic'[i] = topic[i]
                                  \/ topic'[i] = m
      BY <1>1
  <2> QED
      BY <2>1 DEF WebhookInv, BufferInv, RequestInv
<1>6. BufferInv'
    BY <1>1, <1>2, <1>4, <1>5 DEF WebhookInv, BufferInv
<1>7. RequestInv' /\ AnswerInv'
    BY <1>1, <1>2 DEF WebhookInv, RequestInv, AnswerInv, AnsweredIsFlushed,
                      Webhook!AnsweredIsFlushed
<1> QED
    BY <1>6, <1>7 DEF WebhookInv

\* A send takes the next serial.
LEMMA SendStep ==
  ASSUME ConsumerInv, WebhookInv, Webhook!Send
  PROVE  BufferInv' /\ AnswerInv'
<1>1. /\ topic \in Seq(Messages) /\ topic' = topic /\ inflight' = inflight
      /\ response' = response /\ serials \in Nat
      /\ pending \in [Partitions -> Seq(Messages)]
      /\ inflight \in [Partitions -> [size : Nat, failed : Nat]]
      /\ \A p \in Partitions : inflight[p].size =< Len(pending[p])
      /\ Webhook!Buffered \subseteq 1..serials
      /\ \A i \in 1..Len(topic) : topic[i].serial =< serials
      /\ Line(topic, pending[Here], inflight[Here].size)
    BY DEF ConsumerInv, TypeOK, WebhookInv, BufferInv, RequestInv, Webhook!Send
<1>2. CASE UNCHANGED <<serials, pending, counted>>
  <2>1. Webhook!Buffered' = Webhook!Buffered
      BY <1>2 DEF Webhook!Buffered, Webhook!Serials
  <2> QED
      BY <1>1, <1>2, <2>1 DEF BufferInv, WebhookInv, AnswerInv, AnsweredIsFlushed,
                              Webhook!AnsweredIsFlushed
<1>3. ASSUME serials' = serials + 1, counted' = counted \union {serials'},
             pending' = [pending EXCEPT ![payload[index + 1].partition] =
                           Append(@, Webhook!Encode(payload[index + 1], serials'))]
      PROVE  BufferInv' /\ AnswerInv'
  <2>1. PICK p \in Partitions, m \in Messages :
          /\ pending' = [pending EXCEPT ![p] = Append(@, m)]
          /\ m.serial = serials + 1
    <3>1. Webhook!Encode(payload[index + 1], serials + 1) \in Messages
        BY EncodeTyped DEF WebhookInv
    <3>2. Webhook!Encode(payload[index + 1], serials + 1).serial = serials + 1
        BY DEF Webhook!Encode
    <3>3. payload[index + 1].partition \in Partitions
      <4> DEFINE T == [partition : Partitions, amount : Int, currency : STRING]
      <4>1. payload \in Payloads /\ index < Len(payload) /\ index \in Nat
          BY DEF WebhookInv, RequestInv, Webhook!Send
      <4>2. payload \in Seq(T)
          BY <4>1, PayloadAssumption
      <4>3. \A t \in T : t.partition \in Partitions
          OBVIOUS
      <4> HIDE DEF T
      <4>4. Len(payload) \in Nat /\ index + 1 \in 1..Len(payload)
          BY <4>1, <4>2
      <4>5. payload[index + 1] \in T
          BY <4>2, <4>4
      <4> QED
          BY <4>3, <4>5
    <3> QED
        BY <1>3, <3>1, <3>2, <3>3
  <2>2. /\ pending[p] \in Seq(Messages) /\ Len(pending[p]) \in Nat
        /\ pending'[p] = Append(pending[p], m) /\ pending'[p] \in Seq(Messages)
        /\ \A x \in Partitions : x # p => pending'[x] = pending[x]
        /\ pending' \in [Partitions -> Seq(Messages)]
      BY <1>1, <2>1
  <2>3. /\ \A i \in DOMAIN pending'[p] : \/ i \in DOMAIN pending[p]
                                            /\ pending'[p][i] = pending[p][i]
                                         \/ pending'[p][i] = m
        /\ Len(pending'[p]) = Len(pending[p]) + 1
      BY <2>2
  <2>4. Webhook!Buffered' \subseteq Webhook!Buffered \union {serials + 1}
    <3> SUFFICES ASSUME NEW s \in Webhook!Buffered', s # serials + 1
                 PROVE  s \in Webhook!Buffered
        OBVIOUS
    <3>1. PICK x \in Partitions : \E i \in DOMAIN pending'[x] : s = pending'[x][i].serial
        BY BufferedThen
    <3>2. \E i \in DOMAIN pending[x] : s = pending[x][i].serial
      <4>1. CASE x = p
          BY <2>1, <2>3, <3>1, <4>1
      <4>2. CASE x # p
          BY <2>2, <3>1, <4>2
      <4> QED
          BY <4>1, <4>2
    <3> QED
        BY <3>2, BufferedIs
  <2>5. Line(topic, pending'[Here], inflight[Here].size)
    <3>1. CASE p = Here
      <4>1. \A i \in 1..Len(pending[Here]) : pending[Here][i].serial \in 1..serials
        <5>1. \A i \in 1..Len(pending[Here]) : pending[Here][i].serial \in Webhook!Buffered
            BY <2>2, <3>1, BufferedIs
        <5> QED
            BY <1>1, <5>1
      <4>2. \A i \in 1..Len(pending[Here]) : pending[Here][i].serial < m.serial
          BY <1>1, <2>1, <4>1
      <4>3. \A i \in 1..Len(topic) : topic[i].serial < m.serial
          BY <1>1, <2>1, MessageTyped
      <4>4. inflight[Here].size \in 0..Len(pending[Here])
          BY <1>1, <2>2, <3>1
      <4>5. m.serial > 0
          BY <1>1, <2>1
      <4> QED
          BY <1>1, <2>2, <3>1, <4>2, <4>3, <4>4, <4>5, SentLine
    <3>2. CASE p # Here
        BY <1>1, <2>2, <3>2, WebhookAssumption
    <3> QED
        BY <3>1, <3>2
  <2>6. \A i \in 1..Len(topic) : topic[i].serial =< serials + 1
      BY <1>1, MessageTyped
  <2>7. \A x \in Partitions : inflight[x].size =< Len(pending'[x])
    <3> SUFFICES ASSUME NEW x \in Partitions PROVE inflight[x].size =< Len(pending'[x])
        OBVIOUS
    <3>1. inflight[x].size \in Nat /\ inflight[x].size =< Len(pending[x])
        BY <1>1
    <3> QED
        BY <2>2, <2>3, <3>1
  <2>8. Webhook!Buffered' \subseteq 1..serials'
      BY <1>1, <1>3, <2>4
  <2>9. BufferInv'
      BY <1>1, <1>3, <2>2, <2>5, <2>6, <2>7, <2>8 DEF BufferInv
  <2>10. /\ counted' \subseteq 1..serials' /\ response'.published \subseteq 1..serials'
         /\ serials + 1 \notin response.published
    <3>1. /\ counted \subseteq 1..serials /\ response.published \subseteq 1..serials
          /\ serials \in Nat
        BY <1>1 DEF WebhookInv, AnswerInv
    <3>2. /\ 1..serials \subseteq 1..(serials + 1) /\ serials + 1 \in 1..(serials + 1)
          /\ serials + 1 \notin 1..serials
        BY <3>1
    <3> QED
        BY <1>1, <1>3, <3>1, <3>2
  <2>11. AnsweredIsFlushed'
      BY <1>1, <2>4, <2>10
         DEF WebhookInv, AnswerInv, AnsweredIsFlushed, Webhook!AnsweredIsFlushed
  <2> QED
      BY <2>9, <2>10, <2>11 DEF AnswerInv
<1> QED
    BY <1>2, <1>3 DEF Webhook!Send

\* What a step of the sender does to the topic and to the buffer of its partition.
LEMMA SenderCase ==
  ASSUME Webhook!Sender
  PROVE  /\ UNCHANGED <<api, payload, index, counted, serials, response, requests>>
         /\ \E p \in Partitions : \E n \in Webhook!Sizes(p) :
              /\ Webhook!Store(p, n) \/ UNCHANGED topic
              /\ \/ Webhook!Forget(p, n)
                 \/ /\ UNCHANGED pending
                    /\ inflight' = [inflight EXCEPT
                                      ![p] = [size |-> n, failed |-> @.failed + 1]]
BY DEF Webhook!Sender, Webhook!Deliver, Webhook!Repeat, Webhook!Drop

\* The sender sends a batch, once or again, and is done with it or not.
LEMMA SenderStep ==
  ASSUME ConsumerInv, WebhookInv, Webhook!Sender, UNCHANGED consumer
  PROVE  Move /\ BufferInv' /\ AnswerInv'
<1> PICK p \in Partitions : \E n \in Webhook!Sizes(p) :
      /\ Webhook!Store(p, n) \/ UNCHANGED topic
      /\ \/ Webhook!Forget(p, n)
         \/ /\ UNCHANGED pending
            /\ inflight' = [inflight EXCEPT ![p] = [size |-> n, failed |-> @.failed + 1]]
    BY SenderCase
<1> PICK n \in Webhook!Sizes(p) :
      /\ Webhook!Store(p, n) \/ UNCHANGED topic
      /\ \/ Webhook!Forget(p, n)
         \/ /\ UNCHANGED pending
            /\ inflight' = [inflight EXCEPT ![p] = [size |-> n, failed |-> @.failed + 1]]
    OBVIOUS
<1>1. /\ topic \in Seq(Messages) /\ Len(topic) \in Nat /\ serials \in Nat
      /\ UNCHANGED <<counted, serials, response>>
      /\ pending \in [Partitions -> Seq(Messages)]
      /\ inflight \in [Partitions -> [size : Nat, failed : Nat]]
      /\ \A x \in Partitions : inflight[x].size =< Len(pending[x])
      /\ Webhook!Buffered \subseteq 1..serials
      /\ \A i \in 1..Len(topic) : topic[i].serial =< serials
      /\ Line(topic, pending[Here], inflight[Here].size)
    BY SenderCase, TopicTyped DEF ConsumerInv, WebhookInv, BufferInv, RequestInv
<1>2. /\ n \in 1..Len(pending[p]) /\ Len(pending[p]) \in Nat /\ n \in Nat
      /\ inflight[p].size = 0 \/ inflight[p].size = n
      /\ pending[p] \in Seq(Messages)
  <2>1. BufferInv
      BY DEF WebhookInv
  <2> QED
      BY <2>1, BatchSize
<1> DEFINE batch == SubSeq(pending[p], 1, n)
           rest == SubSeq(pending[p], n + 1, Len(pending[p]))
<1>3. /\ batch \in Seq(Messages) /\ Len(batch) = n
      /\ \A i \in 1..n : batch[i] = pending[p][i] /\ i \in DOMAIN pending[p]
      /\ rest \in Seq(Messages) /\ Len(rest) = Len(pending[p]) - n
      /\ \A i \in 1..Len(rest) : /\ i + n \in DOMAIN pending[p]
                                 /\ rest[i] = pending[p][i + n]
      /\ DOMAIN rest = 1..Len(rest)
  <2>1. /\ batch \in Seq(Messages) /\ Len(batch) = n
        /\ \A i \in 1..n : batch[i] = pending[p][i]
        /\ rest \in Seq(Messages) /\ Len(rest) = Len(pending[p]) - n
        /\ \A i \in 1..(Len(pending[p]) - n) :
             i + n \in 1..Len(pending[p]) /\ rest[i] = pending[p][i + n]
      BY <1>2, RestOf
  <2>2. /\ DOMAIN pending[p] = 1..Len(pending[p]) /\ DOMAIN rest = 1..Len(rest)
        /\ \A i \in 1..n : i \in 1..Len(pending[p])
    <3>1. DOMAIN rest = 1..Len(rest)
        BY <2>1, MessageTyped
    <3> QED
        BY <1>2, <3>1
  <2> QED
      BY <2>1, <2>2
<1> HIDE DEF batch, rest
\* The topic first, with the batch still in the buffer.
<1> DEFINE size == IF p = Here THEN n ELSE inflight[Here].size
<1>4. /\ Move /\ topic' \in Seq(Messages)
      /\ Line(topic', pending[Here], size)
      /\ \A i \in 1..Len(topic') : topic'[i].serial =< serials
  <2>1. CASE topic' = topic
    <3>1. Move
        BY <2>1 DEF Move, vars
    <3>2. Line(topic, pending[Here], size)
      <4>1. CASE p = Here
          BY <1>1, <1>2, <4>1, KeptLine
      <4>2. CASE p # Here
          BY <1>1, <4>2
      <4> QED
          BY <4>1, <4>2
    <3> QED
        BY <1>1, <2>1, <3>1, <3>2
  <2>2. CASE p = Here /\ topic' = topic \o batch /\ Len(topic') =< MaxEvents
    <3>1. /\ Grown /\ Len(topic') = Len(topic) + n /\ topic' \in Seq(Messages)
          /\ \A i \in 1..Len(topic) : topic'[i] = topic[i]
          /\ \A m \in 1..n : topic'[Len(topic) + m] = pending[p][m]
      <4>1. TypeOK
          BY DEF ConsumerInv
      <4>2. /\ Grown /\ Len(topic') = Len(topic) + Len(batch)
            /\ \A m \in 1..Len(batch) : topic'[Len(topic) + m] = batch[m]
          BY <1>3, <2>2, <4>1, BatchGrows
      <4> QED
          BY <1>3, <4>2 DEF Grown
    <3>2. Line(topic', pending[p], n)
      <4>1. Line(topic, pending[p], inflight[p].size) /\ inflight[p].size \in Nat
          BY <1>1, <2>2
      <4> QED
          BY <1>1, <1>2, <3>1, <4>1, StoredLine
    <3>3. \A i \in 1..Len(topic') : topic'[i].serial =< serials
      <4> SUFFICES ASSUME NEW i \in 1..Len(topic') PROVE topic'[i].serial =< serials
          OBVIOUS
      <4>1. CASE i \in 1..Len(topic)
          BY <1>1, <3>1, <4>1
      <4>2. CASE i > Len(topic)
        <5>1. PICK m \in 1..n : i = Len(topic) + m
          <6>1. i - Len(topic) \in 1..n /\ i = Len(topic) + (i - Len(topic))
              BY <1>1, <1>2, <3>1, <4>2
          <6> QED
              BY <6>1
        <5>2. pending[p][m].serial \in Webhook!Buffered
            BY <1>3, BufferedIs
        <5>3. pending[p][m].serial \in 1..serials
            BY <1>1, <5>2
        <5>4. topic'[i] = pending[p][m]
            BY <3>1, <5>1
        <5> QED
            BY <1>1, <5>3, <5>4
      <4> QED
          BY <1>1, <4>1, <4>2
    <3> QED
        BY <2>2, <3>1, <3>2, <3>3 DEF Move
  <2> QED
      BY <2>1, <2>2 DEF Webhook!Store, batch
<1>5. /\ pending' \in [Partitions -> Seq(Messages)]
      /\ inflight' \in [Partitions -> [size : Nat, failed : Nat]]
      /\ \A x \in Partitions : inflight'[x].size =< Len(pending'[x])
      /\ Line(topic', pending'[Here], inflight'[Here].size)
      /\ Webhook!Buffered' \subseteq Webhook!Buffered
  <2>1. CASE Webhook!Forget(p, n)
    <3>1. /\ pending' = [pending EXCEPT ![p] = rest]
          /\ inflight' = [inflight EXCEPT ![p] = [size |-> 0, failed |-> 0]]
        BY <2>1 DEF Webhook!Forget, Webhook!NoBatch, rest
    <3>2. /\ pending'[p] = rest /\ inflight'[p].size = 0
          /\ \A x \in Partitions : x # p => /\ pending'[x] = pending[x]
                                            /\ inflight'[x] = inflight[x]
          /\ pending' \in [Partitions -> Seq(Messages)]
          /\ inflight' \in [Partitions -> [size : Nat, failed : Nat]]
        BY <1>1, <1>3, <3>1
    <3>3. \A x \in Partitions : inflight'[x].size =< Len(pending'[x])
      <4> SUFFICES ASSUME NEW x \in Partitions
                   PROVE  inflight'[x].size =< Len(pending'[x])
          OBVIOUS
      <4>1. Len(rest) \in Nat
          BY <1>3, MessageTyped
      <4>2. CASE x = p
          BY <3>2, <4>1, <4>2
      <4>3. CASE x # p
          BY <1>1, <3>2, <4>3
      <4> QED
          BY <4>2, <4>3
    <3>4. Line(topic', pending'[Here], inflight'[Here].size)
      <4>1. CASE p = Here
        <5>1. Line(topic', rest, 0)
            BY <1>2, <1>4, <4>1, ForgottenLine DEF rest
        <5> QED
            BY <3>2, <4>1, <5>1
      <4>2. CASE p # Here
          BY <1>4, <3>2, <4>2, WebhookAssumption
      <4> QED
          BY <4>1, <4>2
    <3>5. Webhook!Buffered' \subseteq Webhook!Buffered
      <4> SUFFICES ASSUME NEW s \in Webhook!Buffered' PROVE s \in Webhook!Buffered
          OBVIOUS
      <4>1. PICK x \in Partitions : \E i \in DOMAIN pending'[x] : s = pending'[x][i].serial
          BY BufferedThen
      <4>2. \E i \in DOMAIN pending[x] : s = pending[x][i].serial
        <5>1. CASE x = p
            BY <1>3, <3>2, <4>1, <5>1
        <5>2. CASE x # p
            BY <3>2, <4>1, <5>2
        <5> QED
            BY <5>1, <5>2
      <4> QED
          BY <4>2, BufferedIs
    <3> QED
        BY <3>2, <3>3, <3>4, <3>5
  <2>2. CASE /\ UNCHANGED pending
             /\ inflight' = [inflight EXCEPT ![p] = [size |-> n, failed |-> @.failed + 1]]
    <3>1. /\ inflight'[p].size = n
          /\ \A x \in Partitions : x # p => inflight'[x] = inflight[x]
          /\ inflight' \in [Partitions -> [size : Nat, failed : Nat]]
        BY <1>1, <1>2, <2>2
    <3>2. \A x \in Partitions : inflight'[x].size =< Len(pending'[x])
        BY <1>1, <1>2, <2>2, <3>1
    <3>3. Line(topic', pending'[Here], inflight'[Here].size)
        BY <1>4, <2>2, <3>1, WebhookAssumption
    <3>4. Webhook!Buffered' = Webhook!Buffered
        BY <2>2 DEF Webhook!Buffered, Webhook!Serials
    <3> QED
        BY <1>1, <2>2, <3>1, <3>2, <3>3, <3>4
  <2> QED
      BY <2>1, <2>2
<1>6. BufferInv'
    BY <1>1, <1>4, <1>5 DEF BufferInv
<1>7. AnswerInv'
    BY <1>1, <1>5 DEF WebhookInv, AnswerInv, AnsweredIsFlushed,
                      Webhook!AnsweredIsFlushed
<1> QED
    BY <1>4, <1>6, <1>7

\* The handler's other steps leave the topic alone, and the buffers or nothing of them.
LEMMA HandlerStep ==
  ASSUME ConsumerInv, WebhookInv, Webhook!WebhookNext, ~Webhook!Send, ~Webhook!Sender
  PROVE  topic' = topic /\ BufferInv' /\ AnswerInv'
<1>1. /\ topic' = topic /\ serials' = serials
      /\ UNCHANGED <<pending, inflight>> \/ Webhook!ApiCrash
    BY DEF Webhook!WebhookNext, Webhook!Refuse, Webhook!NoBroker, Webhook!Receive,
           Webhook!EndOfLoop, Webhook!Accepted, Webhook!FlushTimeout, Webhook!ApiCrash,
           Webhook!sender
<1>2. CASE UNCHANGED <<pending, inflight>>
  <2>1. Webhook!Buffered' = Webhook!Buffered
      BY <1>2 DEF Webhook!Buffered, Webhook!Serials
  <2>2. BufferInv'
      BY <1>1, <1>2, <2>1 DEF WebhookInv, BufferInv
  <2>3. \/ UNCHANGED <<counted, response>>
        \/ counted' = {} /\ UNCHANGED response
        \/ counted' = {} /\ response'.status # 202 /\ response'.published = {}
        \/ counted' = {} /\ Webhook!Buffered = {} /\ response'.published = counted
      BY DEF Webhook!WebhookNext, Webhook!Refuse, Webhook!NoBroker, Webhook!Receive,
             Webhook!EndOfLoop, Webhook!Accepted, Webhook!FlushTimeout,
             Webhook!ApiCrash, Webhook!Answer
  <2>4. AnswerInv'
      BY <1>1, <2>1, <2>3 DEF WebhookInv, AnswerInv, AnsweredIsFlushed,
                              Webhook!AnsweredIsFlushed
  <2> QED
      BY <1>1, <2>2, <2>4
<1>3. CASE Webhook!ApiCrash
  <2>1. /\ pending' = [p \in Partitions |-> <<>>]
        /\ inflight' = [p \in Partitions |-> [size |-> 0, failed |-> 0]]
        /\ \/ UNCHANGED <<counted, response>>
           \/ counted' = {} /\ response'.status = 0 /\ response'.published = {}
      BY <1>3 DEF Webhook!ApiCrash, Webhook!Answer, Webhook!NoBatch
  <2>2. Webhook!Buffered' = {}
      BY <2>1, BufferedThen
  <2>3. Ordered(topic) /\ topic \in Seq(Messages)
      BY DEF ConsumerInv, TypeOK, WebhookInv, BufferInv, Line
  <2>4. Line(topic', pending'[Here], inflight'[Here].size)
      BY <1>1, <2>1, <2>3, EmptyLine, WebhookAssumption
  <2>5. /\ pending' \in [Partitions -> Seq(Messages)]
        /\ inflight' \in [Partitions -> [size : Nat, failed : Nat]]
        /\ \A p \in Partitions : inflight'[p].size =< Len(pending'[p])
      BY <2>1
  <2>6. BufferInv'
      BY <1>1, <2>2, <2>4, <2>5 DEF WebhookInv, BufferInv
  <2>7. AnswerInv'
      BY <1>1, <2>1, <2>2 DEF WebhookInv, AnswerInv, AnsweredIsFlushed,
                              Webhook!AnsweredIsFlushed
  <2> QED
      BY <1>1, <2>6, <2>7
<1> QED
    BY <1>1, <1>2, <1>3

LEMMA WebhookStep ==
  ASSUME PipelineInv, Webhook!WebhookNext, UNCHANGED consumer
  PROVE  Move /\ WebhookInv'
<1>1. ConsumerInv /\ WebhookInv /\ RequestInv'
    BY RequestStep DEF PipelineInv, WebhookInv
<1>2. CASE Webhook!Sender
    BY <1>1, <1>2, SenderStep DEF WebhookInv
<1>3. CASE Webhook!Send
  <2>1. topic' = topic
      BY <1>3 DEF Webhook!Send
  <2> QED
      BY <1>1, <1>3, <2>1, SendStep DEF Move, vars, WebhookInv
<1>4. CASE ~Webhook!Send /\ ~Webhook!Sender
    BY <1>1, <1>4, HandlerStep DEF Move, vars, WebhookInv
<1> QED
    BY <1>2, <1>3, <1>4

\* Whatever happens in the pipeline, the consumer makes a step of its own, or its
\* topic grows, or nothing happens to it.
LEMMA PipelineStep ==
  ASSUME PipelineInv, [PipelineNext]_pipeline
  PROVE  Move /\ WebhookInv'
<1>1. CASE Webhook!WebhookNext /\ UNCHANGED consumer
    BY <1>1, WebhookStep
<1>2. CASE Others /\ UNCHANGED webhook
  <2>1. PICK m \in Messages : m.serial = 0 /\ Publish(m)
      BY <1>2 DEF Others
  <2>2. Grown
      BY <2>1, PublishGrows DEF PipelineInv, ConsumerInv
  <2> QED
      BY <1>2, <2>1, <2>2, OthersStep DEF PipelineInv, Move
<1>3. ASSUME UNCHANGED topic, UNCHANGED webhook
      PROVE  WebhookInv'
  <2>1. UNCHANGED <<topic, api, payload, index, counted, pending, inflight, serials,
                    response, requests>>
      BY <1>3 DEF webhook
  <2>2. Webhook!Buffered' = Webhook!Buffered
      BY <2>1 DEF Webhook!Buffered, Webhook!Serials
  <2>3. RequestInv' /\ AnswerInv'
      BY <2>1, <2>2 DEF PipelineInv, WebhookInv, RequestInv, AnswerInv,
                        AnsweredIsFlushed, Webhook!AnsweredIsFlushed
  <2>4. BufferInv'
      BY <2>1, <2>2 DEF PipelineInv, WebhookInv, BufferInv
  <2> QED
      BY <2>3, <2>4 DEF WebhookInv
<1>4. CASE (ConsumerStep \/ stop \/ Crash) /\ UNCHANGED webhook
  <2>1. UNCHANGED topic /\ UNCHANGED webhook
      BY <1>4 DEF ConsumerStep, Launch, Connected, Poll, Handle, Raise, Commit, Exit,
                  stop, Crash
  <2> QED
      BY <1>3, <1>4, <2>1 DEF Move
<1>5. CASE UNCHANGED pipeline
    BY <1>3, <1>5 DEF pipeline, vars, Move
<1> QED
    BY <1>1, <1>2, <1>4, <1>5 DEF PipelineNext

\* What the line of the topic says of its order.
LEMMA LineIsOrdered ==
  ASSUME ConsumerInv, WebhookInv
  PROVE  OrderKept
<1>1. DOMAIN topic = 1..Len(topic)
    BY TopicTyped DEF ConsumerInv
<1>2. Ordered(topic)
    BY DEF WebhookInv, BufferInv, Line
<1> QED
    BY <1>1, <1>2 DEF Ordered, OrderKept, Webhook!OrderKept

\* PipelineInvariance: the consumer's invariant and the webhook's, side by side.
THEOREM PipelineInvariance == PipelineSpec => []PipelineInv
<1>1. PipelineInit => PipelineInv
  <2> SUFFICES ASSUME PipelineInit PROVE PipelineInv
      OBVIOUS
  <2>1. ConsumerInv
      BY InitInv DEF PipelineInit
  <2>2. RequestInv
      BY WebhookAssumption DEF PipelineInit, Webhook!WebhookInit, RequestInv, Room
  <2>3. BufferInv
      BY InitBuffer DEF PipelineInit
  <2>4. AnswerInv
      BY DEF PipelineInit, Webhook!WebhookInit, AnswerInv, AnsweredIsFlushed,
             Webhook!AnsweredIsFlushed
  <2> QED
      BY <2>1, <2>2, <2>3, <2>4 DEF PipelineInv, WebhookInv
<1>2. PipelineInv /\ [PipelineNext]_pipeline => PipelineInv'
    BY PipelineStep, InvStep DEF PipelineInv
<1> QED
    BY <1>1, <1>2, PTL DEF PipelineSpec

\* PipelineCorrect: whatever producers do to the topic, the consumer commits
\* nothing that raises, handles a message again only after a fault, and counts
\* what it has handled.
THEOREM PipelineCorrect == PipelineSpec => []ConsumerSafe
<1>1. PipelineInv => ConsumerSafe
    BY InvImpliesSafe DEF PipelineInv
<1> QED
    BY <1>1, PipelineInvariance, PTL

\* WebhookCorrect: the transactions of the webhook enter the partition in the order
\* they were sent in, but for batches that are repeated whole; nothing counted in an
\* answer 202 waits in a buffer; and the normalizer keeps the order of the amounts.
\* It holds for any partitions, payloads, sizes of batches, retries of the producer,
\* timeouts, calls of the bank and crashes.
THEOREM WebhookCorrect == PipelineSpec => []PipelineSafe
<1>1. PipelineInv => PipelineSafe
    BY InvImpliesMonotone, LineIsOrdered DEF PipelineInv, WebhookInv, AnswerInv, PipelineSafe
<1> QED
    BY <1>1, PipelineInvariance, PTL

\* PipelineImplementsAtLeastOnce: beside the webhook the consumer still implements
\* the at-least-once consumer: run commits only what it has handled.
THEOREM PipelineImplementsAtLeastOnce == PipelineSpec => ImplementsAtLeastOnce
<1>1. PipelineInit => AtLeastOnceConsumer!ConsumerInit
    BY DEF PipelineInit, Init, ConsumerInit, AtLeastOnceConsumer!ConsumerInit
<1>2. PipelineInv /\ [PipelineNext]_pipeline =>
        [AtLeastOnceConsumer!ConsumerNext]_(AtLeastOnceConsumer!cvars)
    BY PipelineStep, ImplementationStep DEF PipelineInv
<1> QED
    BY <1>1, <1>2, PipelineInvariance, PTL
       DEF PipelineSpec, ImplementsAtLeastOnce, AtLeastOnceConsumer!ConsumerSpec
=============================================================================
