------------------------- MODULE ConsentLedgerProofs -------------------------
(***************************************************************************)
(* Proofs about ConsentLedger, for any flags, bodies and number of updates *)
(* in flight, any number of them, of failures and of crashes.              *)
(*                                                                         *)
(* ConsentEvidenced is not inductive: an update whose body agrees with the *)
(* value it READ writes no row, although another update may have changed   *)
(* the flag in between.  What saves it is that the value it read had its   *)
(* own evidence at the time, and evidence is never lost (Evidence is       *)
(* monotone): LedgerInv says it of every value that a handler has read.    *)
(***************************************************************************)
EXTENDS ConsentLedger, TLAPS

\* Value v of flag f is accounted for.
Evidence(f, v) ==
  \/ v \in given[f]
  \/ Recorded(f, v)
  \/ Underway(f, v)
  \/ <<f, v>> \in lost

LedgerInv ==
  /\ TypeOK
  /\ \A h \in Handlers : handlers[h].pc # "history" => handlers[h].changed = {}
  /\ \A f \in Fields, v \in BOOLEAN : flags[f] = v => Evidence(f, v)
  /\ \A h \in Handlers, f \in Fields, v \in BOOLEAN :
       handlers[h].pc = "update" /\ handlers[h].old[f] = v => Evidence(f, v)

LEMMA InitInv == Init => LedgerInv
<1> SUFFICES ASSUME Init PROVE LedgerInv
  OBVIOUS
<1>1. (CHOOSE b \in Bodies : TRUE) \in Bodies
  BY FieldsAssumption
<1>2. Idle \in Handler /\ Idle.changed = {} /\ Idle.pc = "idle"
  BY <1>1 DEF Idle, Handler, NoConsent
<1>3. TypeOK
  BY <1>2, BoundAssumption DEF Init, TypeOK, NoConsent
<1>4. \A f \in Fields : flags[f] \in given[f]
  BY DEF Init, NoConsent
<1> QED
  BY <1>2, <1>3, <1>4 DEF Init, LedgerInv, Evidence

\* The fields of a well-typed call.
LEMMA HandlerTyped ==
  ASSUME TypeOK, NEW h \in Handlers
  PROVE  /\ handlers[h] \in Handler
         /\ handlers[h].body \in Bodies
         /\ handlers[h].old \in [Fields -> BOOLEAN]
         /\ handlers[h].changed \subseteq Fields
         /\ handlers[h].changed \subseteq DOMAIN handlers[h].body
BY DEF TypeOK, Handler

LEMMA BodyTyped ==
  ASSUME NEW body \in Bodies
  PROVE  /\ DOMAIN body \subseteq Fields
         /\ \A f \in DOMAIN body : body[f] \in BOOLEAN
<1> PICK S \in (SUBSET Fields) \ {{}} : body \in [S -> BOOLEAN]
  BY FieldsAssumption
<1> QED
  OBVIOUS

LEMMA IdleTyped == Idle \in Handler /\ Idle.changed = {} /\ Idle.pc = "idle"
<1>1. (CHOOSE b \in Bodies : TRUE) \in Bodies
  BY FieldsAssumption
<1> QED
  BY <1>1 DEF Idle, Handler, NoConsent

\* Rows are only appended.
LEMMA RowsStay ==
  ASSUME TypeOK, NEW f \in Fields, NEW u \in BOOLEAN, NEW v \in BOOLEAN,
         consent_history' = Append(consent_history,
           [consent_type |-> f, old_value |-> u, new_value |-> v])
  PROVE  /\ consent_history' \in Seq(Row)
         /\ \A g \in Fields, w \in BOOLEAN : Recorded(g, w) => Recorded(g, w)'
         /\ Recorded(f, v)'
<1> DEFINE row == [consent_type |-> f, old_value |-> u, new_value |-> v]
<1>1. consent_history \in Seq(Row) /\ row \in Row
  BY DEF TypeOK, Row
<1>2. /\ consent_history' \in Seq(Row)
      /\ DOMAIN consent_history' = 1..(Len(consent_history) + 1)
      /\ \A i \in DOMAIN consent_history : consent_history'[i] = consent_history[i]
      /\ consent_history'[Len(consent_history) + 1] = row
      /\ DOMAIN consent_history = 1..Len(consent_history)
      /\ Len(consent_history) \in Nat
  BY <1>1
<1>3. /\ DOMAIN consent_history \subseteq DOMAIN consent_history'
      /\ Len(consent_history) + 1 \in DOMAIN consent_history'
  BY <1>2
<1>4. row.consent_type = f /\ row.new_value = v
  OBVIOUS
<1> QED
  BY <1>2, <1>3, <1>4 DEF Recorded

\* Nothing that was evidence ceases to be.
Monotone == \A f \in Fields, v \in BOOLEAN : Evidence(f, v) => Evidence(f, v)'

\* A step that loses no evidence and leaves flags alone keeps the invariant.
LEMMA KeepInv ==
  ASSUME LedgerInv, TypeOK', Monotone, flags' = flags,
         \A h \in Handlers :
           \/ handlers'[h] = handlers[h]
           \/ /\ handlers'[h].pc = "update" => handlers'[h].old = flags
              /\ handlers'[h].pc # "history" => handlers'[h].changed = {}
  PROVE  LedgerInv'
<1>1. \A f \in Fields, v \in BOOLEAN : flags'[f] = v => Evidence(f, v)'
  BY DEF LedgerInv, Monotone
<1>2. ASSUME NEW h \in Handlers, NEW f \in Fields, NEW v \in BOOLEAN,
             handlers'[h].pc = "update", handlers'[h].old[f] = v
      PROVE  Evidence(f, v)'
  <2>1. CASE handlers'[h] = handlers[h]
    BY <1>2, <2>1 DEF LedgerInv, Monotone
  <2>2. CASE handlers'[h].old = flags
    BY <1>1, <1>2, <2>2
  <2> QED
    BY <1>2, <2>1, <2>2
<1>3. \A h \in Handlers : handlers'[h].pc # "history" => handlers'[h].changed = {}
  BY DEF LedgerInv
<1> QED
  BY <1>1, <1>2, <1>3 DEF LedgerInv

\* Where evidence may be lost: in the pending rows of the handlers that moved.
LEMMA StillEvidence ==
  ASSUME NEW f \in Fields, NEW v \in BOOLEAN, Evidence(f, v),
         given[f] \subseteq given'[f],
         lost \subseteq lost',
         Recorded(f, v) => Recorded(f, v)',
         Underway(f, v) => Evidence(f, v)'
  PROVE  Evidence(f, v)'
BY DEF Evidence

LEMMA FetchInv ==
  ASSUME LedgerInv, NEW h \in Handlers, NEW body \in Bodies, fetch_old(h, body)
  PROVE  LedgerInv'
<1> DEFINE new == [pc |-> "update", body |-> body, old |-> flags, changed |-> {}]
<1>1. TypeOK
  BY DEF LedgerInv
<1>2. /\ new \in Handler
      /\ new.changed = {} /\ new.old = flags
      /\ handlers[h].changed = {}
      /\ handlers' = [handlers EXCEPT ![h] = new]
      /\ UNCHANGED <<flags, consent_history, updates, failures, given, lost>>
  BY <1>1 DEF fetch_old, TypeOK, Handler, LedgerInv
<1> HIDE DEF new
<1>3. TypeOK'
  BY <1>1, <1>2 DEF TypeOK
<1>4. \A l \in Handlers : handlers'[l] = IF l = h THEN new ELSE handlers[l]
  BY <1>1, <1>2 DEF TypeOK
<1>5. Monotone
  <2>1. ASSUME NEW f \in Fields, NEW v \in BOOLEAN, Underway(f, v)
        PROVE  Underway(f, v)'
    BY <1>2, <1>4, <2>1 DEF Underway
  <2> QED
    BY <1>2, <2>1 DEF Monotone, Evidence, Recorded
<1> QED
  BY <1>2, <1>3, <1>4, <1>5, KeepInv

\* A flag that the UPDATE writes has its row under way, or stood at that value
\* when the update read it, which was evidence then and still is.
LEMMA UpdateInv ==
  ASSUME LedgerInv, NEW h \in Handlers, update_flags(h)
  PROVE  LedgerInv'
<1> DEFINE body == handlers[h].body
           old == handlers[h].old
           changed == changed_fields(body, old)
           new == IF changed = {} THEN Idle
                  ELSE [handlers[h] EXCEPT !.pc = "history", !.changed = changed]
<1>1. TypeOK
  BY DEF LedgerInv
<1>2. /\ handlers[h] \in Handler /\ body \in Bodies
      /\ old \in [Fields -> BOOLEAN]
      /\ DOMAIN body \subseteq Fields
      /\ \A f \in DOMAIN body : body[f] \in BOOLEAN
  BY <1>1, HandlerTyped, BodyTyped
<1>3. /\ handlers[h].pc = "update" /\ handlers[h].changed = {}
      /\ updates < MaxUpdates /\ updates' = updates + 1
      /\ flags' = Written(body, old)
      /\ given' = [f \in Fields |-> IF f \in Synced(body)
                                    THEN given[f] \union {body[Family]} ELSE given[f]]
      /\ handlers' = [handlers EXCEPT ![h] = new]
      /\ UNCHANGED <<consent_history, failures, lost>>
  BY DEF update_flags, LedgerInv
<1>4. changed = {f \in DOMAIN body : old[f] # body[f]} /\ changed \subseteq Fields
  BY <1>2 DEF changed_fields
<1>5. \A f \in Synced(body) : f \in Fields /\ Family \in DOMAIN body
  BY FieldsAssumption DEF Synced
<1>7. /\ new \in Handler /\ new.pc # "update"
      /\ new.changed = changed
      /\ new.pc # "history" => changed = {}
      /\ changed # {} => new.body = body
      /\ new.changed \subseteq DOMAIN new.body
  <2>1. CASE changed = {}
    BY <2>1, IdleTyped
  <2>2. CASE changed # {}
    <3> DEFINE next == [handlers[h] EXCEPT !.pc = "history", !.changed = changed]
    <3>1. /\ next \in Handler /\ next.pc = "history" /\ next.changed = changed
          /\ next.body = body
      BY <1>2, <1>4 DEF Handler
    <3>2. new = next
      BY <2>2
    <3> HIDE DEF next, new, changed, body, old
    <3> QED
      BY <1>4, <2>2, <3>1, <3>2
  <2> QED
    BY <2>1, <2>2
<1> HIDE DEF new, changed, old, body
<1>8. TypeOK'
  <2>1. flags' \in [Fields -> BOOLEAN]
    BY <1>1, <1>2, <1>3, <1>5 DEF Written, TypeOK
  <2>2. given' \in [Fields -> SUBSET BOOLEAN]
    <3>1. \A f \in Fields : given[f] \subseteq BOOLEAN
      BY <1>1 DEF TypeOK
    <3>2. \A f \in Synced(body) : body[Family] \in BOOLEAN
      BY <1>2, <1>5
    <3> QED
      BY <1>3, <3>1, <3>2
  <2>3. updates' \in 0..MaxUpdates
    BY <1>1, <1>3, BoundAssumption DEF TypeOK
  <2>4. /\ handlers' \in [Handlers -> Handler]
        /\ \A l \in Handlers : handlers'[l].changed \subseteq DOMAIN handlers'[l].body
    BY <1>1, <1>3, <1>7 DEF TypeOK
  <2> QED
    BY <1>1, <1>3, <2>1, <2>2, <2>3, <2>4 DEF TypeOK
<1>9. \A l \in Handlers : handlers'[l] = IF l = h THEN new ELSE handlers[l]
  BY <1>1, <1>3 DEF TypeOK
<1>10. Monotone
  <2>1. ASSUME NEW f \in Fields, NEW v \in BOOLEAN, Underway(f, v)
        PROVE  Underway(f, v)'
    BY <1>3, <1>9, <2>1 DEF Underway
  <2>2. \A f \in Fields : given[f] \subseteq given'[f]
    BY <1>3
  <2> QED
    BY <1>3, <2>1, <2>2 DEF Monotone, Evidence, Recorded
<1>11. ASSUME NEW f \in Fields, NEW v \in BOOLEAN, flags'[f] = v
       PROVE  Evidence(f, v)'
  <2>1. CASE f \in changed
    <3>1. flags'[f] = body[f]
      BY <1>3, <1>4, <2>1 DEF Written
    <3>2. f \in handlers'[h].changed /\ handlers'[h].body[f] = v
      BY <1>7, <1>9, <1>11, <2>1, <3>1
    <3> QED
      BY <3>2 DEF Evidence, Underway
  <2>2. CASE f \in DOMAIN body /\ f \notin changed
    <3>1. flags'[f] = body[f] /\ old[f] = body[f]
      BY <1>3, <1>4, <2>2 DEF Written
    <3>2. Evidence(f, v)
      BY <1>3, <1>11, <3>1 DEF LedgerInv, old
    <3> QED
      BY <1>10, <3>2 DEF Monotone
  <2>3. CASE f \notin DOMAIN body /\ f \in Synced(body)
    BY <1>3, <1>11, <2>3 DEF Written, Evidence
  <2>4. CASE f \notin DOMAIN body /\ f \notin Synced(body)
    <3>1. flags'[f] = flags[f]
      BY <1>3, <2>4 DEF Written
    <3> QED
      BY <1>10, <1>11, <3>1 DEF LedgerInv, Monotone
  <2> QED
    BY <2>1, <2>2, <2>3, <2>4
<1>12. ASSUME NEW l \in Handlers, NEW f \in Fields, NEW v \in BOOLEAN,
              handlers'[l].pc = "update", handlers'[l].old[f] = v
       PROVE  Evidence(f, v)'
  <2>1. handlers'[l] = handlers[l]
    BY <1>7, <1>9, <1>12
  <2> QED
    BY <1>10, <1>12, <2>1 DEF LedgerInv, Monotone
<1>13. \A l \in Handlers : handlers'[l].pc # "history" => handlers'[l].changed = {}
  BY <1>7, <1>9 DEF LedgerInv
<1> QED
  BY <1>8, <1>11, <1>12, <1>13 DEF LedgerInv

\* A handler that is done with one field: nothing else is under way less.
LEMMA DoneFacts ==
  ASSUME LedgerInv, NEW h \in Handlers, NEW f \in handlers[h].changed, Done(h, f)
  PROVE  /\ handlers' \in [Handlers -> Handler]
         /\ \A l \in Handlers : handlers'[l].changed \subseteq DOMAIN handlers'[l].body
         /\ \A l \in Handlers :
              \/ handlers'[l] = handlers[l]
              \/ /\ handlers'[l].pc # "update"
                 /\ handlers'[l].pc # "history" => handlers'[l].changed = {}
         /\ \A g \in Fields, v \in BOOLEAN :
              Underway(g, v) => \/ Underway(g, v)'
                                \/ g = f /\ v = handlers[h].body[f]
<1> DEFINE rest == handlers[h].changed \ {f}
           next == [handlers[h] EXCEPT !.changed = rest]
           new == IF rest = {} THEN Idle ELSE next
<1>1. TypeOK
  BY DEF LedgerInv
<1>2. /\ handlers[h] \in Handler
      /\ handlers[h].pc = "history"
      /\ handlers[h].changed \subseteq DOMAIN handlers[h].body
  BY <1>1, HandlerTyped DEF LedgerInv
<1>3. /\ next \in Handler
      /\ next.pc = "history" /\ next.changed = handlers[h].changed \ {f}
      /\ next.body = handlers[h].body
  BY <1>2 DEF Handler
<1>4. handlers' = [handlers EXCEPT ![h] = new]
  BY DEF Done
<1>5. \/ new = Idle /\ rest = {}
      \/ new = next
  OBVIOUS
<1> HIDE DEF next, new
<1>6. /\ new \in Handler /\ new.pc # "update"
      /\ new.pc # "history" => new.changed = {}
      /\ new.changed \subseteq DOMAIN new.body
      /\ \A g \in handlers[h].changed :
           g # f => g \in new.changed /\ new.body = handlers[h].body
  BY <1>2, <1>3, <1>5, IdleTyped
<1>7. \A l \in Handlers : handlers'[l] = IF l = h THEN new ELSE handlers[l]
  BY <1>1, <1>4 DEF TypeOK
<1>8. /\ handlers' \in [Handlers -> Handler]
      /\ \A l \in Handlers : handlers'[l].changed \subseteq DOMAIN handlers'[l].body
  BY <1>1, <1>4, <1>6, <1>7 DEF TypeOK
<1>9. ASSUME NEW g \in Fields, NEW v \in BOOLEAN, Underway(g, v),
             ~(g = f /\ v = handlers[h].body[f])
      PROVE  Underway(g, v)'
  <2>1. PICK l \in Handlers : g \in handlers[l].changed /\ handlers[l].body[g] = v
    BY <1>9 DEF Underway
  <2>2. g \in handlers'[l].changed /\ handlers'[l].body[g] = v
    BY <1>6, <1>7, <1>9, <2>1
  <2> QED
    BY <2>2 DEF Underway
<1> QED
  BY <1>6, <1>7, <1>8, <1>9

LEMMA WriteInv ==
  ASSUME LedgerInv, NEW h \in Handlers, NEW f \in Fields, write_consent_history(h, f)
  PROVE  LedgerInv'
<1>1. TypeOK
  BY DEF LedgerInv
<1>2. /\ f \in handlers[h].changed /\ Done(h, f)
      /\ consent_history' = Append(consent_history,
           [consent_type |-> f, old_value |-> handlers[h].old[f],
            new_value |-> handlers[h].body[f]])
      /\ UNCHANGED <<flags, updates, failures, given, lost>>
  BY DEF write_consent_history
<1>3. handlers[h].old[f] \in BOOLEAN /\ handlers[h].body[f] \in BOOLEAN
  BY <1>1, <1>2, HandlerTyped, BodyTyped
<1> PICK u \in BOOLEAN, v \in BOOLEAN : u = handlers[h].old[f] /\ v = handlers[h].body[f]
  BY <1>3
<1>4. /\ consent_history' \in Seq(Row)
      /\ \A g \in Fields, w \in BOOLEAN : Recorded(g, w) => Recorded(g, w)'
      /\ Recorded(f, v)'
  BY <1>1, <1>2, RowsStay
<1>5. TypeOK'
  BY <1>1, <1>2, <1>4, DoneFacts DEF TypeOK
<1>6. ASSUME NEW g \in Fields, NEW w \in BOOLEAN, Evidence(g, w)
      PROVE  Evidence(g, w)'
  <2>1. CASE g = f /\ w = v
    BY <1>4, <2>1 DEF Evidence
  <2>2. CASE ~(g = f /\ w = v)
    BY <1>2, <1>4, <1>6, <2>2, DoneFacts DEF Evidence
  <2> QED
    BY <2>1, <2>2
<1> QED
  BY <1>2, <1>5, <1>6, DoneFacts, KeepInv DEF Monotone

LEMMA WriteFailsInv ==
  ASSUME LedgerInv, NEW h \in Handlers, NEW f \in Fields,
         write_consent_history_fails(h, f)
  PROVE  LedgerInv'
<1>1. TypeOK
  BY DEF LedgerInv
<1>2. /\ f \in handlers[h].changed /\ Done(h, f)
      /\ failures < MaxFailures /\ failures' = failures + 1
      /\ lost' = lost \union {<<f, handlers[h].body[f]>>}
      /\ UNCHANGED <<flags, consent_history, updates, given>>
  BY DEF write_consent_history_fails
<1>3. handlers[h].body[f] \in BOOLEAN
  BY <1>1, <1>2, HandlerTyped, BodyTyped
<1>4. failures' \in 0..MaxFailures
  BY <1>1, <1>2, BoundAssumption DEF TypeOK
<1>5. TypeOK'
  BY <1>1, <1>2, <1>3, <1>4, DoneFacts DEF TypeOK
<1>6. ASSUME NEW g \in Fields, NEW v \in BOOLEAN, Evidence(g, v)
      PROVE  Evidence(g, v)'
  <2>1. Recorded(g, v) => Recorded(g, v)'
    BY <1>2 DEF Recorded
  <2> QED
    BY <1>2, <1>6, <2>1, DoneFacts DEF Evidence
<1> QED
  BY <1>2, <1>5, <1>6, DoneFacts, KeepInv DEF Monotone

\* A crash loses every row under way, and with them nothing but those rows.
LEMMA CrashInv == LedgerInv /\ Crash => LedgerInv'
<1> SUFFICES ASSUME LedgerInv, Crash PROVE LedgerInv'
  OBVIOUS
<1>1. TypeOK
  BY DEF LedgerInv
<1>2. /\ failures < MaxFailures /\ failures' = failures + 1
      /\ lost' = lost \union {r \in Fields \X BOOLEAN : Underway(r[1], r[2])}
      /\ handlers' = [h \in Handlers |-> Idle]
      /\ UNCHANGED <<flags, consent_history, updates, given>>
  BY DEF Crash
<1>3. failures' \in 0..MaxFailures
  BY <1>1, <1>2, BoundAssumption DEF TypeOK
<1>4. \A h \in Handlers : /\ handlers'[h] \in Handler
                           /\ handlers'[h].changed = {} /\ handlers'[h].pc = "idle"
  BY <1>2, IdleTyped
<1>5. TypeOK'
  BY <1>1, <1>2, <1>3, <1>4 DEF TypeOK
<1>6. ASSUME NEW g \in Fields, NEW v \in BOOLEAN, Evidence(g, v)
      PROVE  Evidence(g, v)'
  <2>1. Recorded(g, v) => Recorded(g, v)'
    BY <1>2 DEF Recorded
  <2>2. Underway(g, v) => <<g, v>> \in lost'
    BY <1>2
  <2> QED
    BY <1>2, <1>6, <2>1, <2>2 DEF Evidence
<1> QED
  BY <1>2, <1>4, <1>5, <1>6, KeepInv DEF Monotone

LEMMA OnboardingInv ==
  ASSUME LedgerInv, NEW body \in Bodies, submit_onboarding(body)
  PROVE  LedgerInv'
<1>1. TypeOK
  BY DEF LedgerInv
<1>2. /\ updates < MaxUpdates /\ updates' = updates + 1
      /\ flags' = [f \in Fields |-> IF f \in DOMAIN body THEN body[f] ELSE flags[f]]
      /\ given' = [f \in Fields |-> IF f \in DOMAIN body
                                    THEN given[f] \union {body[f]} ELSE given[f]]
      /\ UNCHANGED <<consent_history, handlers, failures, lost>>
  BY DEF submit_onboarding
<1>3. \A f \in DOMAIN body : body[f] \in BOOLEAN
  BY BodyTyped
<1>4. /\ flags' \in [Fields -> BOOLEAN]
      /\ given' \in [Fields -> SUBSET BOOLEAN]
      /\ updates' \in 0..MaxUpdates
  <2>1. flags' \in [Fields -> BOOLEAN]
    BY <1>1, <1>2, <1>3 DEF TypeOK
  <2>2. \A f \in Fields : given[f] \subseteq BOOLEAN
    BY <1>1 DEF TypeOK
  <2>3. given' \in [Fields -> SUBSET BOOLEAN]
    BY <1>2, <1>3, <2>2
  <2>4. updates' \in 0..MaxUpdates
    BY <1>1, <1>2, BoundAssumption DEF TypeOK
  <2> QED
    BY <2>1, <2>3, <2>4
<1>5. TypeOK'
  BY <1>1, <1>2, <1>4 DEF TypeOK
<1>6. ASSUME NEW f \in Fields, NEW v \in BOOLEAN, Evidence(f, v)
      PROVE  Evidence(f, v)'
  <2>1. given[f] \subseteq given'[f]
    BY <1>2
  <2> QED
    BY <1>2, <1>6, <2>1 DEF Evidence, Recorded, Underway
<1>7. ASSUME NEW f \in Fields, NEW v \in BOOLEAN, flags'[f] = v
      PROVE  Evidence(f, v)'
  <2>1. CASE f \in DOMAIN body
    BY <1>2, <1>7, <2>1 DEF Evidence
  <2>2. CASE f \notin DOMAIN body
    BY <1>2, <1>6, <1>7, <2>2 DEF LedgerInv
  <2> QED
    BY <2>1, <2>2
<1> QED
  BY <1>2, <1>5, <1>6, <1>7 DEF LedgerInv

LEMMA NextInv == LedgerInv /\ [Next]_vars => LedgerInv'
<1> SUFFICES ASSUME LedgerInv, [Next]_vars PROVE LedgerInv'
  OBVIOUS
<1>1. CASE UNCHANGED vars
  <2>1. UNCHANGED <<flags, consent_history, handlers, updates, failures, given, lost>>
    BY <1>1 DEF vars
  <2>2. TypeOK'
    BY <2>1 DEF LedgerInv, TypeOK
  <2>3. Monotone
    BY <2>1 DEF Monotone, Evidence, Recorded, Underway
  <2> QED
    BY <2>1, <2>2, <2>3, KeepInv
<1>2. CASE update_consent
  BY <1>2, FetchInv, UpdateInv, WriteInv, WriteFailsInv DEF update_consent
<1>3. CASE Next /\ ~update_consent
  BY <1>3, OnboardingInv, CrashInv DEF Next
<1> QED
  BY <1>1, <1>2, <1>3

THEOREM Invariance == Spec => []LedgerInv
<1> QED
  BY InitInv, NextInv, PTL DEF Spec

-----------------------------------------------------------------------------

\* The type invariant of the consent flags and their ledger.
THEOREM LedgerTypeCorrect == Spec => []TypeOK
<1> QED
  BY Invariance, PTL DEF LedgerInv

\* However many updates run into each other, every flag a customer set through
\* update_consent is accounted for.
THEOREM LedgerEvidence == Spec => []ConsentEvidenced
<1>1. LedgerInv => ConsentEvidenced
  <2> SUFFICES ASSUME LedgerInv, NEW f \in Fields PROVE Evidence(f, flags[f])
    BY DEF ConsentEvidenced, Evidence
  <2>1. flags[f] \in BOOLEAN
    BY DEF LedgerInv, TypeOK
  <2> QED
    BY <2>1 DEF LedgerInv
<1> QED
  BY <1>1, Invariance, PTL

\* The UPDATE of one call never undoes that of another on the other flags.
THEOREM LedgerOwnFlags == Spec => OnlyNamedFlagsChange
<1>1. ASSUME LedgerInv, [Next]_vars, NEW h \in Handlers,
             handlers[h].pc = "update", handlers'[h].pc # "update", updates' # updates,
             NEW f \in Fields, flags'[f] # flags[f]
      PROVE  \/ f \in DOMAIN handlers[h].body
             \/ f = Sensitive /\ Family \in DOMAIN handlers[h].body
  <2>1. TypeOK
    BY <1>1 DEF LedgerInv
  <2>2. ~UNCHANGED vars /\ ~Crash
    BY <1>1 DEF vars, Crash
  <2>3. ASSUME NEW body \in Bodies, submit_onboarding(body) PROVE FALSE
    BY <1>1, <2>3 DEF submit_onboarding
  <2>4. PICK l \in Handlers : update_flags(l)
    BY <1>1, <2>2, <2>3 DEF Next, update_consent, fetch_old, write_consent_history,
      write_consent_history_fails
  <2>5. l = h
    BY <1>1, <2>1, <2>4 DEF update_flags, TypeOK
  <2> QED
    BY <1>1, <2>4, <2>5 DEF update_flags, Written, Synced
<1>2. ASSUME LedgerInv, [Next]_vars
      PROVE  [\A h \in Handlers :
                handlers[h].pc = "update" /\ handlers'[h].pc # "update"
                    /\ updates' # updates
                  => \A f \in Fields :
                       flags'[f] # flags[f] =>
                         \/ f \in DOMAIN handlers[h].body
                         \/ f = Sensitive /\ Family \in DOMAIN handlers[h].body]_vars
  BY <1>1, <1>2
<1> QED
  BY <1>2, Invariance, PTL DEF Spec, OnlyNamedFlagsChange
=============================================================================
