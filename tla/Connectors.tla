----------------------------- MODULE Connectors -----------------------------
(***************************************************************************)
(* routers/connectors.py: the connectors to AI providers, from template or *)
(* suggestion to use.  Every handler is one UPDATE or DELETE, except for   *)
(* toggle_connector, which SELECTs the status and then overwrites whatever *)
(* it has become, and ai_suggest_connectors, which looks for a row of each *)
(* name before it INSERTs one, and commits them together.                  *)
(***************************************************************************)
EXTENDS Integers, Sequences

CONSTANTS
  ConnectorNames,  \* of AI connectors; a name stands for name and provider
  Seeded,      \* the table to begin with: templates, and what was made of them
  Suggested,   \* names ai_suggest_connectors proposes, in order
  Configs,     \* what an administrator can configure: the keys with a value
  Togglers,    \* callers of toggle_connector
  Suggesters,  \* callers of ai_suggest_connectors
  MaxRows,     \* bound: connectors ever created
  MaxRequests  \* bound: requests in all

Keys == {"api_key", "api_token", "base_url", "max_tokens"}

ASSUME SuggestedAssumption == Suggested \in Seq(ConnectorNames)
ASSUME ConfigsAssumption == Configs \subseteq SUBSET Keys
ASSUME ConnectorBounds == MaxRows \in Nat /\ MaxRequests \in Nat

VARIABLES
  rows,        \* the table by id; a deleted row stays, with that status
  toggles,     \* toggler -> its call
  suggests,    \* suggester -> its call
  requests

connector_vars == <<rows, toggles, suggests, requests>>

Live == {"available", "pending", "approved", "active", "disabled", "rejected"}
\* vetted and refused are history: an administrator has approved the connector;
\* the last decision on it was to reject it.
Row == [name : ConnectorNames, status : Live \union {"deleted"},
        config : SUBSET Keys, suggested_by : {"ai", "staff"}, vetted : BOOLEAN,
        refused : BOOLEAN]
\* missing: what is inserted and not committed; next: the suggestion it is at.
Toggle == [at : {"idle", "update"}, id : Nat, seen : Live]
Suggest == [at : {"idle", "select"}, next : Nat, missing : Seq(ConnectorNames)]
NoToggle == [at |-> "idle", id |-> 0, seen |-> "available"]
NoSuggest == [at |-> "idle", next |-> 1, missing |-> <<>>]

\* SuggestedWasVetted, of one row.
Vetted(row) ==
  row.suggested_by = "ai" /\ row.status \notin {"pending", "rejected", "deleted"} =>
    row.vetted

ASSUME SeededAssumption ==
  Seeded \in Seq(Row) /\ \A i \in DOMAIN Seeded : Vetted(Seeded[i])

ConnectorTypeOK ==
  /\ rows \in Seq(Row)
  /\ toggles \in [Togglers -> Toggle]
  /\ suggests \in [Suggesters -> Suggest]
  /\ requests \in Nat

New(name, by) ==
  [name |-> name, status |-> IF by = "ai" THEN "pending" ELSE "available",
   config |-> {}, suggested_by |-> by, vetted |-> FALSE, refused |-> FALSE]

ConnectorInit ==
  /\ rows = Seeded
  /\ toggles = [t \in Togglers |-> NoToggle]
  /\ suggests = [s \in Suggesters |-> NoSuggest]
  /\ requests = 0

\* The rows in the table; a row of name n is among them.
Ids == {i \in DOMAIN rows : rows[i].status # "deleted"}
Present(n) == \E i \in Ids : rows[i].name = n

Request == requests < MaxRequests /\ requests' = requests + 1

-----------------------------------------------------------------------------
(* The handlers.                                                           *)

create_connector(name, by) ==
  /\ Request
  /\ Len(rows) < MaxRows
  /\ rows' = Append(rows, New(name, by))
  /\ UNCHANGED <<toggles, suggests>>

\* Faulty variant: a suggestion is promoted like a template.
Promoted_Pending(status, config) ==
  IF status \in {"available", "pending"} /\ "api_key" \in config
  THEN "approved" ELSE status

\* A template that is given an API key counts as approved.
Promoted(status, config) ==
  IF status = "available" /\ "api_key" \in config THEN "approved" ELSE status

configure_connector(i, config) ==
  /\ Request
  /\ i \in Ids
  /\ rows' = [rows EXCEPT ![i].config = config,
                          ![i].status = Promoted(@, config)]
  /\ UNCHANGED <<toggles, suggests>>

\* Faulty variant: the action of the request is stored as the status.
approve_connector_RawAction(i, verdict) ==
  /\ Request
  /\ i \in Ids
  /\ rows' = [rows EXCEPT ![i].status = IF verdict = "approved" THEN "approve" ELSE "reject",
                          ![i].vetted = @ \/ verdict = "approved"]
  /\ UNCHANGED <<toggles, suggests>>

\* From any status to any verdict, the active ones too.
approve_connector(i, verdict) ==
  /\ Request
  /\ i \in Ids
  /\ rows' = [rows EXCEPT ![i].status = verdict,
                          ![i].vetted = @ \/ verdict = "approved",
                          ![i].refused = verdict = "rejected"]
  /\ UNCHANGED <<toggles, suggests>>

delete_connector(i) ==
  /\ Request
  /\ i \in Ids
  /\ rows' = [rows EXCEPT ![i].status = "deleted"]
  /\ UNCHANGED <<toggles, suggests>>

Toggleable(status) == status \in {"active", "approved", "disabled", "available"}

\* toggle_connector: the SELECT; 404 and 400 change nothing ...
toggle_select(t, i) ==
  /\ toggles[t].at = "idle"
  /\ Request
  /\ i \in Ids /\ Toggleable(rows[i].status)
  /\ toggles' = [toggles EXCEPT ![t] =
       [at |-> "update", id |-> i, seen |-> rows[i].status]]
  /\ UNCHANGED <<rows, suggests>>

\* ... and the UPDATE, of what is left of the row.
toggle_update(t) ==
  /\ toggles[t].at = "update"
  /\ rows' = IF toggles[t].id \in Ids
             THEN [rows EXCEPT ![toggles[t].id].status =
                     IF toggles[t].seen = "active" THEN "disabled" ELSE "active"]
             ELSE rows
  /\ toggles' = [toggles EXCEPT ![t] = NoToggle]
  /\ UNCHANGED <<suggests, requests>>

ai_suggest_connectors(s) ==
  /\ suggests[s].at = "idle"
  /\ Request
  /\ suggests' = [suggests EXCEPT ![s].at = "select"]
  /\ UNCHANGED <<rows, toggles>>

\* A suggestion is inserted unless there is a row of the name, committed or its own.
suggest_select(s) ==
  LET name == Suggested[suggests[s].next]  missing == suggests[s].missing IN
  /\ suggests[s].at = "select" /\ suggests[s].next \in DOMAIN Suggested
  /\ suggests' = [suggests EXCEPT
       ![s].next = @ + 1,
       ![s].missing = IF Present(name) \/ \E k \in DOMAIN missing : missing[k] = name
                      THEN @ ELSE Append(@, name)]
  /\ UNCHANGED <<rows, toggles, requests>>

suggest_commit(s) ==
  LET missing == suggests[s].missing IN
  /\ suggests[s].at = "select" /\ suggests[s].next \notin DOMAIN Suggested
  /\ Len(rows) + Len(missing) =< MaxRows
  /\ rows' = rows \o [k \in DOMAIN missing |-> New(missing[k], "ai")]
  /\ suggests' = [suggests EXCEPT ![s] = NoSuggest]
  /\ UNCHANGED <<toggles, requests>>

\* A statement fails: none of them is stored.
suggest_fails(s) ==
  /\ suggests[s].at = "select"
  /\ suggests' = [suggests EXCEPT ![s] = NoSuggest]
  /\ UNCHANGED <<rows, toggles, requests>>

ConnectorNext ==
  \/ \E n \in ConnectorNames, by \in {"ai", "staff"} : create_connector(n, by)
  \/ \E i \in Ids :
       \/ \E config \in Configs : configure_connector(i, config)
       \/ \E verdict \in {"approved", "rejected"} : approve_connector(i, verdict)
       \/ \E t \in Togglers : toggle_select(t, i)
       \/ delete_connector(i)
  \/ \E t \in Togglers : toggle_update(t)
  \/ \E s \in Suggesters :
       \/ ai_suggest_connectors(s) \/ suggest_select(s) \/ suggest_commit(s)
       \/ suggest_fails(s)

-----------------------------------------------------------------------------
(* Properties.                                                             *)

\* SuggestedWasVetted: a connector the AI suggested (connectors.py:309, "for admin
\* approval") is in use only if an administrator has approved it at some time,
\* whatever is configured, toggled and rejected in between.
SuggestedWasVetted == \A i \in DOMAIN rows : Vetted(rows[i])

-----------------------------------------------------------------------------
(* The inductive invariant behind SuggestedWasVetted.                      *)

\* TogglesKnow: a toggle under way has found a row it may switch on, whatever the
\* row has become: if the AI suggested it, it has been approved at some time.
TogglesKnow ==
  \A t \in Togglers : toggles[t].at = "update" =>
    /\ toggles[t].id \in DOMAIN rows
    /\ rows[toggles[t].id].suggested_by = "ai" => rows[toggles[t].id].vetted

ConnectorInv == ConnectorTypeOK /\ SuggestedWasVetted /\ TogglesKnow

-----------------------------------------------------------------------------
(* What the repository says of connectors and the code does not do.        *)

\* ActiveWasVetted: CHANGELOG.md:199, "Approval workflow: available → pending →
\* approved → active (admin-gated)", of every connector.
ActiveWasVetted == \A i \in Ids : rows[i].status = "active" => rows[i].vetted

\* RejectedStaysOff: connectors.py:186, "Admin approves or rejects a connector": one
\* that was rejected last is not active.
RejectedStaysOff == \A i \in Ids : rows[i].refused => rows[i].status # "active"

\* SuggestedOnce: connectors.py:380, "Skip if already exists".
SuggestedOnce ==
  \A i, j \in Ids :
    /\ rows[i].name = rows[j].name
    /\ rows[i].suggested_by = "ai" /\ rows[j].suggested_by = "ai"
    => i = j
=============================================================================
