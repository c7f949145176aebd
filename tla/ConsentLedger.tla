--------------------------- MODULE ConsentLedger ---------------------------
(***************************************************************************)
(* The consent flags of a customer and consent_history, their append-only  *)
(* ledger (services/api/routers/compliance.py, audit.py).                  *)
(*                                                                         *)
(* update_consent reads the flags, updates the ones its body names and     *)
(* commits; then it writes one row of history per flag that its body       *)
(* changes with respect to what it READ, each in a session of its own,     *)
(* whose failure is logged and forgotten.  submit_onboarding sets flags    *)
(* too.  One action per transaction.                                       *)
(***************************************************************************)
EXTENDS Naturals, Sequences

CONSTANTS
  Fields,            \* the flags of CONSENT_FIELDS
  Family, Sensitive, \* family_context_consent, sensitive_data_consent
  OnboardingFields,  \* the flags submit_onboarding may set
  Handlers,          \* update_consent calls in flight at a time
  Bodies,            \* bound: the ConsentUpdate bodies sent
  MaxUpdates,        \* bound: UPDATEs of the flags
  MaxFailures        \* bound: history rows that are not written

\* A body gives a value to some of the flags, to one at least.
ASSUME FieldsAssumption ==
  /\ {Family, Sensitive} \subseteq Fields
  /\ OnboardingFields \subseteq Fields
  /\ Bodies # {}
  /\ Bodies \subseteq UNION {[S -> BOOLEAN] : S \in (SUBSET Fields) \ {{}}}
ASSUME BoundAssumption == MaxUpdates \in Nat /\ MaxFailures \in Nat

VARIABLES
  flags,            \* the consent columns of the customers row
  consent_history,  \* the rows of the ledger
  handlers,         \* the locals of update_consent, per call
  updates, failures,\* so far
  \* history, read by the properties only
  given,            \* per flag, the values it had or got from anywhere but the
                    \* field of that name in a body of update_consent
  lost              \* <<flag, value>> of the rows that were not written

vars == <<flags, consent_history, handlers, updates, failures, given, lost>>

Row == [consent_type : Fields, old_value : BOOLEAN, new_value : BOOLEAN]
Handler == [pc : {"idle", "update", "history"}, body : Bodies,
            old : [Fields -> BOOLEAN], changed : SUBSET Fields]

TypeOK ==
  /\ flags \in [Fields -> BOOLEAN]
  /\ consent_history \in Seq(Row)
  /\ handlers \in [Handlers -> Handler]
  /\ \A h \in Handlers : handlers[h].changed \subseteq DOMAIN handlers[h].body
  /\ updates \in 0..MaxUpdates /\ failures \in 0..MaxFailures
  /\ given \in [Fields -> SUBSET BOOLEAN]
  /\ lost \subseteq Fields \X BOOLEAN

NoConsent == [f \in Fields |-> FALSE]
Idle == [pc |-> "idle", body |-> CHOOSE b \in Bodies : TRUE, old |-> NoConsent,
         changed |-> {}]

Init ==
  /\ flags = NoConsent
  /\ consent_history = <<>>
  /\ handlers = [h \in Handlers |-> Idle]
  /\ updates = 0 /\ failures = 0
  /\ given = [f \in Fields |-> {FALSE}]
  /\ lost = {}

\* A row that says flag f was set to v is still to be written.
Underway(f, v) ==
  \E h \in Handlers : f \in handlers[h].changed /\ handlers[h].body[f] = v

-----------------------------------------------------------------------------
(* update_consent.                                                         *)

\* The SELECT of the current values.
fetch_old(h, body) ==
  /\ handlers[h].pc = "idle"
  /\ handlers' = [handlers EXCEPT ![h] =
       [pc |-> "update", body |-> body, old |-> flags, changed |-> {}]]
  /\ UNCHANGED <<flags, consent_history, updates, failures, given, lost>>

\* Faulty variant: only one of the changed fields is remembered.
changed_fields_LastOnly(body, old) ==
  LET changed == {f \in DOMAIN body : old[f] # body[f]}
  IN  IF changed = {} THEN {} ELSE {CHOOSE f \in changed : TRUE}

\* Faulty variant: a field the body says nothing of differs from any value.
changed_fields_Nones(body, old) ==
  {f \in Fields : f \notin DOMAIN body \/ old[f] # body[f]}

changed_fields(body, old) == {f \in DOMAIN body : old[f] # body[f]}

\* The flags that follow family_context_consent: sensitive_data_consent does
\* when the body has nothing for it.
Synced(body) ==
  IF Family \in DOMAIN body /\ Sensitive \notin DOMAIN body THEN {Sensitive} ELSE {}

\* Faulty variant: the whole row is written back, from the values read before.
Written_WholeRow(body, old) ==
  [f \in Fields |-> IF f \in DOMAIN body THEN body[f]
                    ELSE IF f \in Synced(body) THEN body[Family] ELSE old[f]]

\* The columns after the UPDATE of the row.
Written(body, old) ==
  [f \in Fields |-> IF f \in DOMAIN body THEN body[f]
                    ELSE IF f \in Synced(body) THEN body[Family] ELSE flags[f]]

\* The UPDATE and its commit.
update_flags(h) ==
  LET body == handlers[h].body
      changed == changed_fields(body, handlers[h].old)
  IN
  /\ handlers[h].pc = "update"
  /\ updates < MaxUpdates
  /\ updates' = updates + 1
  /\ flags' = Written(body, handlers[h].old)
  /\ given' = [f \in Fields |-> IF f \in Synced(body)
                                THEN given[f] \union {body[Family]} ELSE given[f]]
  /\ handlers' = [handlers EXCEPT
       ![h] = IF changed = {} THEN Idle
              ELSE [@ EXCEPT !.pc = "history", !.changed = changed]]
  /\ UNCHANGED <<consent_history, failures, lost>>

Done(h, f) ==
  LET rest == handlers[h].changed \ {f}
  IN  handlers' = [handlers EXCEPT
        ![h] = IF rest = {} THEN Idle ELSE [handlers[h] EXCEPT !.changed = rest]]

\* One row per changed flag; the order of the flags makes no difference.
write_consent_history(h, f) ==
  /\ handlers[h].pc = "history" /\ f \in handlers[h].changed
  /\ consent_history' = Append(consent_history,
       [consent_type |-> f, old_value |-> handlers[h].old[f],
        new_value |-> handlers[h].body[f]])
  /\ Done(h, f)
  /\ UNCHANGED <<flags, updates, failures, given, lost>>

\* The INSERT fails: a warning is logged and the loop goes on.
write_consent_history_fails(h, f) ==
  /\ handlers[h].pc = "history" /\ f \in handlers[h].changed
  /\ failures < MaxFailures
  /\ failures' = failures + 1
  /\ lost' = lost \union {<<f, handlers[h].body[f]>>}
  /\ Done(h, f)
  /\ UNCHANGED <<flags, consent_history, updates, given>>

\* The API process dies between the commit and the end of the loop.
Crash ==
  /\ failures < MaxFailures
  /\ failures' = failures + 1
  /\ lost' = lost \union
       {r \in Fields \X BOOLEAN : Underway(r[1], r[2])}
  /\ handlers' = [h \in Handlers |-> Idle]
  /\ UNCHANGED <<flags, consent_history, updates, given>>

update_consent ==
  \E h \in Handlers :
    \/ \E body \in Bodies : fetch_old(h, body)
    \/ update_flags(h)
    \/ \E f \in Fields : write_consent_history(h, f) \/ write_consent_history_fails(h, f)

-----------------------------------------------------------------------------

\* The wizard writes its flags in one transaction, and no history.
submit_onboarding(body) ==
  /\ DOMAIN body \subseteq OnboardingFields
  /\ updates < MaxUpdates
  /\ updates' = updates + 1
  /\ flags' = [f \in Fields |-> IF f \in DOMAIN body THEN body[f] ELSE flags[f]]
  /\ given' = [f \in Fields |-> IF f \in DOMAIN body
                                THEN given[f] \union {body[f]} ELSE given[f]]
  /\ UNCHANGED <<consent_history, handlers, failures, lost>>

Next ==
  \/ update_consent
  \/ \E body \in Bodies : submit_onboarding(body)
  \/ Crash

Spec == Init /\ [][Next]_vars

-----------------------------------------------------------------------------
(* Properties.                                                             *)

\* There is a row that says flag f was set to v.
Recorded(f, v) ==
  \E i \in DOMAIN consent_history : /\ consent_history[i].consent_type = f
                                    /\ consent_history[i].new_value = v

\* ConsentEvidenced: a flag that a customer set through update_consent has a row
\* of history for the value it stands at, unless the write of one was lost,
\* however many updates of it ran into each other.
ConsentEvidenced ==
  \A f \in Fields :
    \/ flags[f] \in given[f]
    \/ Recorded(f, flags[f]) \/ Underway(f, flags[f])
    \/ <<f, flags[f]>> \in lost

\* OnlyNamedFlagsChange: an UPDATE changes no flag but those its body names and
\* the one that is synchronised with them, whatever committed after its SELECT.
OnlyNamedFlagsChange ==
  [][\A h \in Handlers :
       handlers[h].pc = "update" /\ handlers'[h].pc # "update" /\ updates' # updates
         => \A f \in Fields :
              flags'[f] # flags[f] => \/ f \in DOMAIN handlers[h].body
                                      \/ f = Sensitive /\ Family \in DOMAIN handlers[h].body]_vars

Quiet == \A h \in Handlers : handlers[h].pc = "idle"

\* The value of flag f by the ledger: that of its last row.
Replayed(f) ==
  LET rows == SelectSeq(consent_history, LAMBDA r : r.consent_type = f)
  IN  IF rows = <<>> THEN FALSE ELSE rows[Len(rows)].new_value

\* HistoryComplete: audit.py:171, "Append to consent_history when any consent
\* flag changes": with no update under way and no write lost, the ledger says of
\* every flag what it is.
HistoryComplete ==
  Quiet /\ failures = 0 => \A f \in Fields : flags[f] = Replayed(f)
=============================================================================
