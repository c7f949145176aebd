------------------------ MODULE IntelligenceProofs ------------------------
(***************************************************************************)
(* Proofs about the intelligence router, for any sets of suggestions,      *)
(* names, staff, calls, analyses, connectors, keys and workers, and any    *)
(* cap, cool-down, expiry and limit.                                       *)
(*                                                                         *)
(* 1. ProductGovernance.  GovernanceInv is the inductive invariant.        *)
(* implement_suggestion reads the suggestion, its status and the catalog   *)
(* in separate statements, and by the time of its INSERT all of them may   *)
(* have changed: what is still true of them is that the id was drawn, that *)
(* the suggestion was approved once and that a product_id it found in the  *)
(* catalog was inserted once.                                              *)
(*                                                                         *)
(* 2. Connectors.  ConnectorInv adds to SuggestedWasVetted what a toggle   *)
(* between its two statements knows: the row it read live was vetted, and  *)
(* no operation takes a decision back.                                     *)
(*                                                                         *)
(* 3. AnalysisEngine.  EngineInv says that every analysis has a number of  *)
(* its own, that what a request has taken away covers whatever committed   *)
(* analyses it saw and the market still holds, and that no more requests   *)
(* are admitted than the window counts.                                    *)
(***************************************************************************)
EXTENDS ProductGovernance, AnalysisEngine, FiniteSetTheorems, TLAPS

\* An id belongs to no row, or to one analysis, until its suggestion is stored.
IdsDrawnOnce ==
  /\ \A a \in Analyses : analyses[a].pc # "idle"
       => suggestions[analyses[a].sid].status = "absent"
  /\ \A a, b \in Analyses : (a # b /\ analyses[a].pc # "idle" /\ analyses[b].pc # "idle")
       => analyses[a].sid # analyses[b].sid

\* The history of the suggestions covers their present status.
ApprovedIsRemembered ==
  /\ \A s \in approved_once : suggestions[s].status # "absent"
  /\ \A s \in Sids : suggestions[s].status = "approved" => s \in approved_once

\* A product with the product_id made from name n was inserted once.
InsertedOnce(n) == \E m \in listed_once : Slug[m] = Slug[n]

\* What a call in flight may still rely on.
CallsRelyOn ==
  \A k \in Calls :
    /\ calls[k].pc # "idle" =>
         /\ suggestions[calls[k].sid].status # "absent"
         /\ suggestions[calls[k].sid].name = calls[k].name
    /\ calls[k].pc \in {"cap", "exists", "publish"} => calls[k].sid \in approved_once
    /\ calls[k].pc = "publish" /\ calls[k].found => InsertedOnce(calls[k].name)

ListedIsRemembered ==
  \A n \in Names : products[n].listed =>
    n \in listed_once /\ (products[n].ai => products[n].origin \in listed_once)

GovernanceInv ==
  /\ TypeOK
  /\ IdsDrawnOnce
  /\ ApprovedIsRemembered
  /\ CallsRelyOn
  /\ ListedIsRemembered
  /\ AiProductWasApproved
  /\ ImplementedWasListed

\* The idle records are well typed: every set they choose from has an element.
LEMMA IdleTypes ==
  /\ NoSuggestion \in Suggestion
  /\ NoProduct \in Product
  /\ NoCall \in Call
  /\ NoAnalysis \in Analysis
<1>1. AnyName \in Names /\ AnySid \in Sids /\ (CHOOSE b \in Staff : TRUE) \in Staff
  BY SomeAssumption DEF AnyName, AnySid
<1>2. 0 \in 0..(Stale + 1) /\ 0 \in 0..(Cooldown + 1)
  BY LimitAssumption
<1> QED
  BY <1>1, <1>2 DEF NoSuggestion, NoProduct, NoCall, NoAnalysis, Suggestion,
    Product, Call, Analysis, Statuses, CallSteps, AnalysisSteps

LEMMA InitInv == Init => GovernanceInv
<1> SUFFICES ASSUME Init PROVE GovernanceInv
  OBVIOUS
<1>1. TypeOK
  BY IdleTypes, LimitAssumption DEF Init, TypeOK
<1>2. /\ \A s \in Sids : suggestions[s].status = "absent"
      /\ \A a \in Analyses : analyses[a].pc = "idle"
      /\ \A k \in Calls : calls[k].pc = "idle"
      /\ \A n \in Names : ~products[n].listed
  BY DEF Init, NoSuggestion, NoAnalysis, NoCall, NoProduct
<1> QED
  BY <1>1, <1>2 DEF Init, GovernanceInv, IdsDrawnOnce, ApprovedIsRemembered,
    CallsRelyOn, InsertedOnce, ListedIsRemembered, AiProductWasApproved,
    ImplementedWasListed, Listed

LEMMA TickInv == GovernanceInv /\ Tick => GovernanceInv'
<1> SUFFICES ASSUME GovernanceInv, Tick PROVE GovernanceInv'
  OBVIOUS
<1> USE DEF GovernanceInv
<1>1. /\ \A s \in Sids : /\ suggestions'[s].status = suggestions[s].status
                         /\ suggestions'[s].name = suggestions[s].name
      /\ \A n \in Names : /\ products'[n].listed = products[n].listed
                          /\ products'[n].ai = products[n].ai
                          /\ products'[n].origin = products[n].origin
  BY DEF Tick, TypeOK, Suggestion, Product
<1>2. suggestions' \in [Sids -> Suggestion]
  <2>1. ASSUME NEW s \in Sids
        PROVE  [suggestions[s] EXCEPT
                  !.age = IF suggestions[s].status = "pending" /\ @ =< Stale
                          THEN @ + 1 ELSE @] \in Suggestion
    <3>1. suggestions[s] \in Suggestion
      BY DEF TypeOK
    <3>2. /\ Stale \in Nat
          /\ suggestions[s].age \in 0..(Stale + 1)
      BY <3>1, LimitAssumption DEF Suggestion
    <3>3. (IF suggestions[s].status = "pending" /\ suggestions[s].age =< Stale
           THEN suggestions[s].age + 1 ELSE suggestions[s].age) \in 0..(Stale + 1)
      BY <3>2
    <3> QED
      BY <3>1, <3>3 DEF Suggestion
  <2> QED
    BY <2>1 DEF Tick
<1>3. products' \in [Names -> Product]
  <2>1. ASSUME NEW n \in Names
        PROVE  [products[n] EXCEPT
                  !.age = IF products[n].listed /\ @ =< Cooldown THEN @ + 1
                                                                 ELSE @] \in Product
    <3>1. products[n] \in Product
      BY DEF TypeOK
    <3>2. /\ Cooldown \in Nat
          /\ products[n].age \in 0..(Cooldown + 1)
      BY <3>1, LimitAssumption DEF Product
    <3>3. CASE products[n].listed /\ products[n].age =< Cooldown
      <4>1. products[n].age + 1 \in 0..(Cooldown + 1)
        BY <3>2, <3>3
      <4> QED
        BY <3>1, <3>3, <4>1 DEF Product
    <3>4. CASE ~(products[n].listed /\ products[n].age =< Cooldown)
      BY <3>1, <3>4 DEF Product
    <3> QED
      BY <3>3, <3>4
  <2> QED
    BY <2>1 DEF Tick
<1>4. TypeOK'
  BY <1>2, <1>3 DEF Tick, TypeOK, history
<1>5. UNCHANGED <<calls, analyses, listed_once, approved_once>>
  BY DEF Tick, history
<1>6. IdsDrawnOnce'
  BY <1>1, <1>5 DEF IdsDrawnOnce, TypeOK, Analysis
<1>7. ApprovedIsRemembered'
  BY <1>1, <1>5 DEF ApprovedIsRemembered, TypeOK
<1>8. CallsRelyOn'
  BY <1>1, <1>5 DEF CallsRelyOn, InsertedOnce, TypeOK, Call
<1>9. ListedIsRemembered'
  BY <1>1, <1>5 DEF ListedIsRemembered
<1>10. AiProductWasApproved'
  BY <1>1, <1>5 DEF AiProductWasApproved, Listed, TypeOK
<1>11. ImplementedWasListed'
  BY <1>1, <1>5 DEF ImplementedWasListed
<1> QED
  BY <1>4, <1>6, <1>7, <1>8, <1>9, <1>10, <1>11

\* The suggestions only get their expired status, which disturbs nothing that
\* is said of stored suggestions.
LEMMA AnalysisInv == GovernanceInv /\ analyze_and_suggest => GovernanceInv'
<1> SUFFICES ASSUME GovernanceInv, analyze_and_suggest PROVE GovernanceInv'
  OBVIOUS
<1> USE DEF GovernanceInv
<1> PICK a \in Analyses :
      \/ \E s \in Sids, n \in Names : expire_stale(a, s, n)
      \/ check_duplicate(a)
      \/ insert_suggestion(a)
  BY DEF analyze_and_suggest
<1>1. ASSUME NEW s \in Sids, NEW n \in Names, expire_stale(a, s, n)
      PROVE  GovernanceInv'
  <2>1. \A t \in Sids :
          /\ suggestions'[t].name = suggestions[t].name
          /\ suggestions'[t].status = "absent" <=> suggestions[t].status = "absent"
          /\ suggestions'[t].status \in {suggestions[t].status, "expired"}
    BY <1>1 DEF expire_stale, TypeOK, Suggestion
  <2>2. UNCHANGED <<products, calls, edits, listed_once, approved_once>>
    BY <1>1 DEF expire_stale, history
  <2>3. suggestions' \in [Sids -> Suggestion]
    BY <1>1 DEF expire_stale, TypeOK, Suggestion, Statuses
  <2>4. analyses' \in [Analyses -> Analysis]
    BY <1>1 DEF expire_stale, TypeOK, Analysis, AnalysisSteps
  <2>5. TypeOK'
    BY <2>2, <2>3, <2>4 DEF TypeOK
  <2>6. IdsDrawnOnce'
    BY <1>1, <2>1 DEF expire_stale, IdsDrawnOnce, TypeOK, Analysis
  <2>7. ApprovedIsRemembered'
    BY <2>1, <2>2 DEF ApprovedIsRemembered, TypeOK
  <2>8. CallsRelyOn'
    BY <2>1, <2>2 DEF CallsRelyOn, InsertedOnce, TypeOK, Call
  <2>9. ListedIsRemembered'
    BY <2>2 DEF ListedIsRemembered
  <2>10. AiProductWasApproved'
    BY <2>1, <2>2 DEF AiProductWasApproved, Listed, TypeOK
  <2>11. ImplementedWasListed'
    BY <2>1, <2>2 DEF ImplementedWasListed
  <2> QED
    BY <2>5, <2>6, <2>7, <2>8, <2>9, <2>10, <2>11
<1>2. CASE check_duplicate(a)
  <2>1. UNCHANGED <<suggestions, products, calls, edits, listed_once, approved_once>>
    BY <1>2 DEF check_duplicate, history
  <2>2. analyses' \in [Analyses -> Analysis]
    BY <1>2, IdleTypes DEF check_duplicate, TypeOK, Analysis, AnalysisSteps
  <2>3. TypeOK'
    BY <2>1, <2>2 DEF TypeOK
  <2>4. \A b \in Analyses : analyses'[b].pc # "idle" =>
          analyses[b].pc # "idle" /\ analyses'[b].sid = analyses[b].sid
    BY <1>2 DEF check_duplicate, TypeOK, Analysis, NoAnalysis
  <2>5. IdsDrawnOnce'
    BY <2>1, <2>4 DEF IdsDrawnOnce
  <2> QED
    BY <2>1, <2>3, <2>5 DEF ApprovedIsRemembered, CallsRelyOn, InsertedOnce,
      ListedIsRemembered, AiProductWasApproved, ImplementedWasListed, Listed
<1>3. CASE insert_suggestion(a)
  <2> DEFINE sid == analyses[a].sid
  <2>1. /\ sid \in Sids
        /\ analyses[a].name \in Names
        /\ suggestions[sid].status = "absent"
    BY <1>3 DEF insert_suggestion, TypeOK, Analysis, IdsDrawnOnce
  <2>2. UNCHANGED <<products, calls, edits, listed_once, approved_once>>
    BY <1>3 DEF insert_suggestion, history
  <2>3. /\ suggestions' \in [Sids -> Suggestion]
        /\ suggestions'[sid].status = "pending"
        /\ \A t \in Sids : t # sid => suggestions'[t] = suggestions[t]
    BY <1>3, <2>1, IdleTypes DEF insert_suggestion, TypeOK, Suggestion, Statuses,
      NoSuggestion
  <2>4. analyses' \in [Analyses -> Analysis]
    BY <1>3, IdleTypes DEF insert_suggestion, TypeOK
  <2>5. TypeOK'
    BY <2>2, <2>3, <2>4 DEF TypeOK
  <2>6. \A b \in Analyses : analyses'[b].pc # "idle" =>
          b # a /\ analyses'[b] = analyses[b]
    BY <1>3 DEF insert_suggestion, TypeOK, NoAnalysis
  <2>7. \A b \in Analyses : analyses[b].sid \in Sids
    BY DEF TypeOK, Analysis
  <2>8. IdsDrawnOnce'
    BY <1>3, <2>3, <2>6, <2>7 DEF IdsDrawnOnce, insert_suggestion
  <2>9. ApprovedIsRemembered'
    BY <2>1, <2>2, <2>3 DEF ApprovedIsRemembered, TypeOK
  <2>10. CallsRelyOn'
    BY <2>1, <2>2, <2>3 DEF CallsRelyOn, InsertedOnce, TypeOK, Call
  <2>11. ListedIsRemembered'
    BY <2>2 DEF ListedIsRemembered
  <2>12. sid \notin approved_once
    BY <2>1 DEF ApprovedIsRemembered
  <2>13. AiProductWasApproved'
    BY <2>2, <2>3, <2>12 DEF AiProductWasApproved, Listed, TypeOK
  <2>14. ImplementedWasListed'
    BY <2>2, <2>3 DEF ImplementedWasListed
  <2> QED
    BY <2>5, <2>8, <2>9, <2>10, <2>11, <2>13, <2>14
<1> QED
  BY <1>1, <1>2, <1>3

LEMMA ReviewInv == GovernanceInv /\ review => GovernanceInv'
<1> SUFFICES ASSUME GovernanceInv, review PROVE GovernanceInv'
  OBVIOUS
<1> USE DEF GovernanceInv
<1> PICK s \in Sids :
      \/ \E by \in Staff, verdict \in {"approved", "rejected"} :
           approve_suggestion(s, by, verdict)
      \/ delete_suggestion(s)
  BY DEF review
<1>1. /\ suggestions' \in [Sids -> Suggestion]
      /\ suggestions[s].status # "absent"
      /\ suggestions'[s].status \in {"approved", "rejected", "deleted"}
      /\ suggestions'[s].name = suggestions[s].name
      /\ \A t \in Sids : t # s => suggestions'[t] = suggestions[t]
  BY DEF approve_suggestion, delete_suggestion, Stored, TypeOK, Suggestion, Statuses
<1>2. /\ approved_once \subseteq approved_once'
      /\ approved_once' \subseteq approved_once \union {s}
      /\ suggestions'[s].status = "approved" => s \in approved_once'
  BY <1>1 DEF approve_suggestion, delete_suggestion, history, TypeOK, Suggestion
<1>3. UNCHANGED <<products, calls, analyses, edits, listed_once>>
  BY DEF approve_suggestion, delete_suggestion, history
<1>4. TypeOK'
  BY <1>1, <1>2, <1>3 DEF TypeOK
<1>5. IdsDrawnOnce'
  BY <1>1, <1>3 DEF IdsDrawnOnce, TypeOK, Analysis
<1>6. ApprovedIsRemembered'
  BY <1>1, <1>2 DEF ApprovedIsRemembered, TypeOK
<1>7. CallsRelyOn'
  BY <1>1, <1>2, <1>3 DEF CallsRelyOn, InsertedOnce, TypeOK, Call
<1>8. ListedIsRemembered'
  BY <1>3 DEF ListedIsRemembered
<1>9. AiProductWasApproved'
  BY <1>1, <1>2, <1>3 DEF AiProductWasApproved, Listed, TypeOK
<1>10. ImplementedWasListed'
  BY <1>1, <1>3 DEF ImplementedWasListed
<1> QED
  BY <1>4, <1>5, <1>6, <1>7, <1>8, <1>9, <1>10

\* The checks of implement_suggestion change the locals of one call only.
LEMMA CheckInv ==
  ASSUME GovernanceInv, NEW k \in Calls, NEW call \in Call,
         UNCHANGED <<suggestions, products, history>>, Step(k, call),
         call.pc # "idle" =>
           /\ suggestions[call.sid].status # "absent"
           /\ suggestions[call.sid].name = call.name,
         call.pc \in {"cap", "exists", "publish"} => call.sid \in approved_once,
         call.pc = "publish" /\ call.found => InsertedOnce(call.name)
  PROVE  GovernanceInv'
<1> USE DEF GovernanceInv
<1>1. UNCHANGED <<suggestions, products, analyses, edits, listed_once, approved_once>>
  BY DEF Step, history
<1>2. /\ calls' \in [Calls -> Call]
      /\ calls'[k] = call
      /\ \A l \in Calls : l # k => calls'[l] = calls[l]
  BY DEF Step, TypeOK
<1>3. TypeOK'
  BY <1>1, <1>2 DEF TypeOK
<1>4. CallsRelyOn'
  BY <1>1, <1>2 DEF CallsRelyOn, InsertedOnce
<1> QED
  BY <1>1, <1>3, <1>4 DEF IdsDrawnOnce, ApprovedIsRemembered, ListedIsRemembered,
    AiProductWasApproved, ImplementedWasListed, Listed

\* The suggestion of a call becomes implemented, when its name has been listed.
LEMMA MarkInv ==
  ASSUME GovernanceInv, NEW s \in Sids, NEW by \in Staff \union {NoOne},
         suggestions[s].status # "absent", MarkImplemented(s, by)
  PROVE  /\ suggestions' \in [Sids -> Suggestion]
         /\ \A t \in Sids :
              /\ suggestions'[t].name = suggestions[t].name
              /\ suggestions'[t].status = "absent" <=> suggestions[t].status = "absent"
              /\ \/ suggestions'[t].status = suggestions[t].status
                 \/ t = s /\ suggestions'[t].status = "implemented"
<1>1. suggestions \in [Sids -> Suggestion]
  BY DEF GovernanceInv, TypeOK
<1>2. CASE ~Stored(s)
  BY <1>1, <1>2 DEF MarkImplemented
<1>3. CASE Stored(s)
  <2> DEFINE new == [suggestions[s] EXCEPT !.status = "implemented", !.approved_by = by]
  <2>1. suggestions[s] \in Suggestion
    BY <1>1
  <2>2. /\ new \in Suggestion
        /\ new.name = suggestions[s].name
        /\ new.status = "implemented"
    BY <2>1 DEF Suggestion, Statuses
  <2>3. suggestions' = [suggestions EXCEPT ![s] = new]
    BY <1>1, <1>3 DEF MarkImplemented
  <2> HIDE DEF new
  <2> QED
    BY <1>1, <2>2, <2>3
<1> QED
  BY <1>2, <1>3

LEMMA ImplementInv == GovernanceInv /\ implement_suggestion => GovernanceInv'
<1> SUFFICES ASSUME GovernanceInv, implement_suggestion PROVE GovernanceInv'
  OBVIOUS
<1> USE DEF GovernanceInv
<1> PICK k \in Calls :
      \/ \E s \in Sids, by \in Staff : fetch_suggestion(k, s, by)
      \/ check_status(k) \/ check_cap(k) \/ check_exists(k)
      \/ mark_existing(k) \/ publish(k)
  BY DEF implement_suggestion
<1> DEFINE call == calls[k]
<1>0. call \in Call /\ NoCall \in Call /\ NoCall.pc = "idle"
  BY IdleTypes DEF TypeOK, NoCall
<1>1. ASSUME NEW s \in Sids, NEW by \in Staff, fetch_suggestion(k, s, by)
      PROVE  GovernanceInv'
  <2> DEFINE new == [NoCall EXCEPT !.pc = "status", !.sid = s, !.by = by,
                            !.approver = suggestions[s].approved_by,
                            !.name = suggestions[s].name]
  <2>1. suggestions[s] \in Suggestion
    BY DEF TypeOK
  <2>2. /\ new \in Call
        /\ new.pc = "status" /\ new.sid = s /\ new.name = suggestions[s].name
    BY <1>0, <2>1 DEF Call, CallSteps, Suggestion
  <2>3. /\ suggestions[s].status # "absent"
        /\ Step(k, new)
        /\ UNCHANGED <<suggestions, products, history>>
    BY <1>1 DEF fetch_suggestion, Stored
  <2> HIDE DEF new
  <2> QED
    BY <2>2, <2>3, CheckInv
<1>2. CASE check_status(k)
  <2> DEFINE next == [call EXCEPT !.pc = "cap"]
             refused == \/ suggestions[call.sid].status # "approved"
                        \/ call.name \in HighRisk /\ call.by = call.approver
             new == IF refused THEN NoCall ELSE next
  <2>1. /\ next \in Call
        /\ next.pc = "cap" /\ next.sid = call.sid /\ next.name = call.name
    BY <1>0 DEF Call, CallSteps
  <2>2. /\ call.pc = "status"
        /\ Step(k, new)
        /\ UNCHANGED <<suggestions, products, history>>
    BY <1>2 DEF check_status
  <2>3. call.sid \in Sids
    BY <1>0 DEF Call
  <2>4. ~refused => call.sid \in approved_once
    BY <2>3 DEF ApprovedIsRemembered
  <2>5. /\ suggestions[call.sid].status # "absent"
        /\ suggestions[call.sid].name = call.name
    BY <2>2 DEF CallsRelyOn
  <2>6. \/ new = NoCall
        \/ new = next /\ call.sid \in approved_once
    BY <2>4
  <2> HIDE DEF next, new, refused, call
  <2> QED
    BY <1>0, <2>1, <2>2, <2>5, <2>6, CheckInv
<1>3. CASE check_cap(k)
  <2> DEFINE next == [call EXCEPT !.pc = "exists"]
             new == IF Cardinality(ActiveProducts) >= Cap THEN NoCall ELSE next
  <2>1. /\ next \in Call
        /\ next.pc = "exists" /\ next.sid = call.sid /\ next.name = call.name
    BY <1>0 DEF Call, CallSteps
  <2>2. /\ call.pc = "cap"
        /\ Step(k, new)
        /\ UNCHANGED <<suggestions, products, history>>
    BY <1>3 DEF check_cap
  <2>3. /\ suggestions[call.sid].status # "absent"
        /\ suggestions[call.sid].name = call.name
        /\ call.sid \in approved_once
    BY <2>2 DEF CallsRelyOn
  <2>4. new = NoCall \/ new = next
    OBVIOUS
  <2> HIDE DEF next, new, call
  <2> QED
    BY <1>0, <2>1, <2>2, <2>3, <2>4, CheckInv
<1>4. CASE check_exists(k)
  <2> DEFINE taken == Listed(call.name) \/ HasId(TRUE, call.name)
             new == [call EXCEPT !.pc = "publish", !.found = taken]
  <2>1. taken \in BOOLEAN
    OBVIOUS
  <2>2. /\ new \in Call
        /\ new.pc = "publish" /\ new.sid = call.sid /\ new.name = call.name
        /\ new.found = taken
    <3> HIDE DEF taken
    <3> QED
      BY <1>0, <2>1 DEF Call, CallSteps
  <2>3. /\ call.pc = "exists"
        /\ Step(k, new)
        /\ UNCHANGED <<suggestions, products, history>>
    BY <1>4 DEF check_exists
  <2>4. /\ suggestions[call.sid].status # "absent"
        /\ suggestions[call.sid].name = call.name
        /\ call.sid \in approved_once
    BY <2>3 DEF CallsRelyOn
  <2>5. taken => InsertedOnce(call.name)
    <3>1. call.name \in Names
      BY <1>0 DEF Call
    <3> HIDE DEF call
    <3>2. CASE Listed(call.name)
      BY <3>1, <3>2 DEF ListedIsRemembered, Listed, InsertedOnce
    <3>3. CASE HasId(TRUE, call.name)
      BY <3>1, <3>3 DEF ListedIsRemembered, Listed, HasId, InsertedOnce
    <3> QED
      BY <3>2, <3>3
  <2> HIDE DEF new, taken, call
  <2> QED
    BY <2>2, <2>3, <2>4, <2>5, CheckInv
<1>5. ASSUME NEW by \in Staff \union {NoOne}, call.pc = "publish",
             MarkImplemented(call.sid, by), Step(k, NoCall),
             UNCHANGED <<approved_once>>,
             listed_once' \in SUBSET Names,
             listed_once \subseteq listed_once',
             \E m \in listed_once' : Slug[m] = Slug[call.name],
             products' \in [Names -> Product],
             \A n \in Names : products'[n].listed =>
               \/ products'[n] = products[n]
               \/ /\ n = call.name /\ n \in listed_once'
                  /\ products'[n].origin = call.name
      PROVE  GovernanceInv'
  <2>1. /\ suggestions[call.sid].status # "absent"
        /\ suggestions[call.sid].name = call.name
        /\ call.sid \in approved_once
        /\ call.sid \in Sids
    BY <1>0, <1>5 DEF CallsRelyOn, Call
  <2>2. /\ suggestions' \in [Sids -> Suggestion]
        /\ \A t \in Sids :
             /\ suggestions'[t].name = suggestions[t].name
             /\ suggestions'[t].status = "absent" <=> suggestions[t].status = "absent"
             /\ \/ suggestions'[t].status = suggestions[t].status
                \/ t = call.sid /\ suggestions'[t].status = "implemented"
    BY <1>5, <2>1, MarkInv
  <2>3. /\ calls' \in [Calls -> Call]
        /\ \A l \in Calls : calls'[l].pc # "idle" => calls'[l] = calls[l]
    BY <1>0, <1>5 DEF Step, TypeOK
  <2>4. UNCHANGED <<analyses, edits>>
    BY <1>5 DEF Step
  <2> HIDE DEF call
  <2>5. TypeOK'
    BY <1>5, <2>2, <2>3, <2>4 DEF TypeOK
  <2>6. IdsDrawnOnce'
    BY <2>2, <2>4 DEF IdsDrawnOnce, TypeOK, Analysis
  <2>7. ApprovedIsRemembered'
    BY <1>5, <2>2 DEF ApprovedIsRemembered, TypeOK
  <2>8. CallsRelyOn'
    BY <1>5, <2>2, <2>3 DEF CallsRelyOn, InsertedOnce, TypeOK, Call
  <2>9. ListedIsRemembered'
    BY <1>5 DEF ListedIsRemembered
  <2>10. AiProductWasApproved'
    BY <1>5, <2>1, <2>2 DEF AiProductWasApproved, Listed, TypeOK
  <2>11. ImplementedWasListed'
    BY <1>5, <2>1, <2>2 DEF ImplementedWasListed
  <2> QED
    BY <2>5, <2>6, <2>7, <2>8, <2>9, <2>10, <2>11
<1>6. CASE mark_existing(k)
  <2>1. suggestions[call.sid] \in Suggestion
    BY <1>0 DEF Call, TypeOK
  <2>2. suggestions[call.sid].approved_by \in Staff \union {NoOne}
    BY <2>1 DEF Suggestion
  <2>3. call.pc = "publish" /\ call.found
    BY <1>6 DEF mark_existing
  <2>4. \E m \in listed_once : Slug[m] = Slug[call.name]
    BY <2>3 DEF CallsRelyOn, InsertedOnce
  <2> QED
    BY <1>5, <1>6, <2>2, <2>3, <2>4 DEF mark_existing, history, TypeOK
<1>7. CASE publish(k)
  <2>1. CASE Listed(call.name)
    BY <1>0, <1>7, <2>1, CheckInv DEF publish
  <2>2. CASE ~Listed(call.name)
    <3> DEFINE row == [NoProduct EXCEPT !.listed = TRUE, !.ai = TRUE,
                                        !.origin = call.name]
    <3>1. call.by \in Staff /\ call.name \in Names
      BY <1>0 DEF Call
    <3>2. row \in Product /\ row.origin = call.name
      BY <3>1, IdleTypes DEF Product
    <3>3. /\ MarkImplemented(call.sid, call.by)
          /\ Step(k, NoCall)
          /\ call.pc = "publish"
          /\ approved_once' = approved_once
          /\ listed_once' = listed_once \union {call.name}
          /\ products' = [products EXCEPT ![call.name] = row]
      BY <1>7, <2>2 DEF publish
    <3> HIDE DEF call, row
    <3>4. products' \in [Names -> Product]
      BY <3>2, <3>3 DEF TypeOK
    <3>5. \A n \in Names : \/ products'[n] = products[n]
                           \/ n = call.name /\ products'[n].origin = call.name
      <4>1. products'[call.name] = row
        BY <3>1, <3>3 DEF TypeOK
      <4>2. \A n \in Names : n # call.name => products'[n] = products[n]
        BY <3>1, <3>3 DEF TypeOK
      <4> QED
        BY <3>2, <4>1, <4>2
    <3>6. listed_once \subseteq Names
      BY DEF TypeOK
    <3> QED
      BY <1>5, <3>1, <3>3, <3>4, <3>5, <3>6
  <2> QED
    BY <2>1, <2>2
<1> QED
  BY <1>1, <1>2, <1>3, <1>4, <1>6, <1>7

\* The products only change active and age, move to another name, or are added
\* and removed by hand.
LEMMA ProductsInv ==
  ASSUME GovernanceInv,
         UNCHANGED <<suggestions, calls, analyses, approved_once>>,
         edits' \in 0..MaxEdits,
         listed_once' \in SUBSET Names,
         listed_once \subseteq listed_once',
         products' \in [Names -> Product],
         \A n \in Names : products'[n].listed =>
           /\ n \in listed_once'
           /\ \/ ~products'[n].ai
              \/ \E m \in Names : /\ products[m].listed /\ products[m].ai
                                  /\ products'[n].origin = products[m].origin
  PROVE  GovernanceInv'
<1> USE DEF GovernanceInv
<1>1. TypeOK'
  BY DEF TypeOK
<1>2. CallsRelyOn'
  BY DEF CallsRelyOn, InsertedOnce
<1>3. ListedIsRemembered'
  BY DEF ListedIsRemembered
<1>4. AiProductWasApproved'
  BY DEF AiProductWasApproved, Listed
<1>5. ImplementedWasListed'
  BY DEF ImplementedWasListed
<1> QED
  BY <1>1, <1>2, <1>3, <1>4, <1>5 DEF IdsDrawnOnce, ApprovedIsRemembered

\* An update of active, updated_at and the history bit leaves the rest alone.
LEMMA TouchedProduct ==
  ASSUME NEW row \in Product, NEW active \in BOOLEAN, NEW off \in BOOLEAN
  PROVE  LET new == [row EXCEPT !.active = active, !.age = 0, !.off = off]
         IN  /\ new \in Product
             /\ new.listed = row.listed /\ new.ai = row.ai /\ new.origin = row.origin
<1> DEFINE new == [row EXCEPT !.active = active, !.age = 0, !.off = off]
<1>1. new.listed = row.listed /\ new.ai = row.ai /\ new.origin = row.origin
  BY DEF Product
<1>2. 0 \in 0..(Cooldown + 1)
  BY LimitAssumption
<1>3. new \in Product
  BY <1>2 DEF Product
<1> QED
  BY <1>1, <1>3

LEMMA TouchedIsProduct ==
  ASSUME GovernanceInv, NEW n \in Names, NEW active \in BOOLEAN
  PROVE  /\ Touched(n, active) \in Product
         /\ Touched(n, active).listed = products[n].listed
         /\ Touched(n, active).ai = products[n].ai
         /\ Touched(n, active).origin = products[n].origin
<1>1. products[n] \in Product
  BY DEF GovernanceInv, TypeOK
<1>2. (~active /\ (products[n].off \/ products[n].active)) \in BOOLEAN
  OBVIOUS
<1> QED
  BY <1>1, <1>2, TouchedProduct DEF Touched

LEMMA ActivateInv == GovernanceInv /\ activate_staged_products => GovernanceInv'
<1> SUFFICES ASSUME GovernanceInv, activate_staged_products PROVE GovernanceInv'
  OBVIOUS
<1> DEFINE new(n) == [products[n] EXCEPT !.active = TRUE, !.age = 0]
<1>1. products \in [Names -> Product]
  BY DEF GovernanceInv, TypeOK
<1>2. ASSUME NEW n \in Names
      PROVE  /\ new(n) \in Product
             /\ new(n).listed = products[n].listed /\ new(n).ai = products[n].ai
             /\ new(n).origin = products[n].origin
  <2>1. products[n] \in Product
    BY <1>1
  <2>2. 0 \in 0..(Cooldown + 1)
    BY LimitAssumption
  <2>3. /\ new(n).listed = products[n].listed /\ new(n).ai = products[n].ai
        /\ new(n).origin = products[n].origin
    BY <2>1 DEF Product
  <2>4. new(n) \in Product
    BY <2>1, <2>2 DEF Product
  <2> QED
    BY <2>3, <2>4
<1>3. products' = [n \in Names |-> IF ReadyToGoLive(n) THEN new(n) ELSE products[n]]
  BY DEF activate_staged_products
<1> HIDE DEF new
<1>4. /\ products' \in [Names -> Product]
      /\ \A n \in Names : /\ products'[n].listed = products[n].listed
                          /\ products'[n].ai = products[n].ai
                          /\ products'[n].origin = products[n].origin
  BY <1>1, <1>2, <1>3
<1>5. /\ UNCHANGED <<suggestions, calls, analyses, edits, approved_once, listed_once>>
      /\ edits \in 0..MaxEdits
      /\ listed_once \subseteq Names
      /\ ListedIsRemembered
  BY DEF activate_staged_products, history, GovernanceInv, TypeOK
<1>6. \A n \in Names : products'[n].listed =>
        /\ n \in listed_once'
        /\ \/ ~products'[n].ai
           \/ \E m \in Names : /\ products[m].listed /\ products[m].ai
                               /\ products'[n].origin = products[m].origin
  BY <1>4, <1>5 DEF ListedIsRemembered
<1> QED
  BY <1>4, <1>5, <1>6, ProductsInv

LEMMA EditInv == GovernanceInv /\ edit_products => GovernanceInv'
<1> SUFFICES ASSUME GovernanceInv, edit_products PROVE GovernanceInv'
  OBVIOUS
<1>1. /\ products \in [Names -> Product]
      /\ listed_once \subseteq Names
      /\ edits \in 0..MaxEdits
      /\ \A m \in Names : products[m].listed => m \in listed_once
  BY DEF GovernanceInv, TypeOK, ListedIsRemembered
<1>2. ASSUME NEW table \in [Names -> Product], Edit(table),
             NEW name \in Names,
             listed_once' \in {listed_once, listed_once \union {name}},
             \A n \in Names : table[n].listed =>
               /\ products[n].listed \/ n \in listed_once'
               /\ \/ ~table[n].ai
                  \/ \E m \in Names : /\ products[m].listed /\ products[m].ai
                                      /\ table[n].origin = products[m].origin
      PROVE  GovernanceInv'
  <2>1. /\ edits' \in 0..MaxEdits
        /\ products' = table
        /\ UNCHANGED <<suggestions, calls, analyses, approved_once>>
    BY <1>1, <1>2, LimitAssumption DEF Edit
  <2>2. /\ listed_once' \in SUBSET Names
        /\ listed_once \subseteq listed_once'
    BY <1>1, <1>2
  <2> QED
    BY <1>1, <1>2, <2>1, <2>2, ProductsInv
<1>3. /\ NoProduct \in Product /\ ~NoProduct.listed
      /\ ~NoProduct.ai
  BY IdleTypes DEF NoProduct
<1> PICK n \in Names :
      \/ \E active \in BOOLEAN :
           \/ create_product(n, active)
           \/ update_product(n, active)
           \/ \E name \in Names : rename_product(n, name, active)
      \/ delete_product(n)
  BY DEF edit_products
<1>4. ASSUME NEW active \in BOOLEAN, create_product(n, active) PROVE GovernanceInv'
  <2> DEFINE row == [NoProduct EXCEPT !.listed = TRUE, !.origin = n, !.active = active]
             table == [products EXCEPT ![n] = row]
  <2>1. row \in Product
    BY <1>3 DEF Product
  <2>2. ~row.ai
    BY <1>3 DEF Product
  <2>3. Edit(table) /\ listed_once' = listed_once \union {n}
    BY <1>4 DEF create_product
  <2> HIDE DEF row
  <2>4. /\ table \in [Names -> Product]
        /\ table[n] = row
        /\ \A m \in Names : m # n => table[m] = products[m]
    BY <1>1, <2>1
  <2> HIDE DEF table
  <2> QED
    BY <1>2, <2>2, <2>3, <2>4
<1>5. ASSUME NEW active \in BOOLEAN, update_product(n, active) PROVE GovernanceInv'
  <2> DEFINE table == [m \in Names |-> IF m \in SameId(n) THEN Touched(m, active)
                                      ELSE products[m]]
  <2>1. Edit(table) /\ listed_once' = listed_once
    BY <1>5 DEF update_product
  <2>2. /\ table \in [Names -> Product]
        /\ \A m \in Names : /\ table[m].listed = products[m].listed
                            /\ table[m].ai = products[m].ai
                            /\ table[m].origin = products[m].origin
    BY <1>1, TouchedIsProduct
  <2> HIDE DEF table
  <2> QED
    BY <1>2, <2>1, <2>2
<1>6. ASSUME NEW active \in BOOLEAN, NEW name \in Names, rename_product(n, name, active)
      PROVE  GovernanceInv'
  <2> DEFINE table == [products EXCEPT ![name] = Touched(n, active), ![n] = NoProduct]
  <2>1. /\ Edit(table) /\ listed_once' = listed_once \union {name}
        /\ products[n].listed
    BY <1>6 DEF rename_product, Listed
  <2>2. /\ table \in [Names -> Product]
        /\ table[n] = NoProduct
        /\ name # n => table[name] = Touched(n, active)
        /\ \A m \in Names : m \notin {n, name} => table[m] = products[m]
    BY <1>1, <1>3, TouchedIsProduct
  <2>3. /\ Touched(n, active).ai = products[n].ai
        /\ Touched(n, active).origin = products[n].origin
    BY TouchedIsProduct
  <2> HIDE DEF table
  <2> QED
    BY <1>2, <1>3, <2>1, <2>2, <2>3
<1>7. CASE delete_product(n)
  <2> DEFINE table == [m \in Names |-> IF m \in SameId(n) THEN NoProduct ELSE products[m]]
  <2>1. Edit(table) /\ listed_once' = listed_once
    BY <1>7 DEF delete_product
  <2>2. /\ table \in [Names -> Product]
        /\ \A m \in Names : table[m].listed => table[m] = products[m]
    BY <1>1, <1>3
  <2> HIDE DEF table
  <2> QED
    BY <1>2, <2>1, <2>2
<1> QED
  BY <1>4, <1>5, <1>6, <1>7

LEMMA NextInv == GovernanceInv /\ [Next]_vars => GovernanceInv'
<1>1. GovernanceInv /\ UNCHANGED vars => GovernanceInv'
  BY DEF vars, history, GovernanceInv, TypeOK, IdsDrawnOnce, ApprovedIsRemembered,
    CallsRelyOn, InsertedOnce, ListedIsRemembered, AiProductWasApproved,
    ImplementedWasListed, Listed
<1> QED
  BY <1>1, TickInv, AnalysisInv, ReviewInv, ImplementInv, ActivateInv, EditInv DEF Next

\* Invariance: GovernanceInv holds in every reachable state.
THEOREM Invariance == Spec => []GovernanceInv
<1> QED
  BY InitInv, NextInv, PTL DEF Spec

-----------------------------------------------------------------------------

\* The type invariant of the approval workflow.
THEOREM GovernanceTypeCorrect == Spec => []TypeOK
<1> QED
  BY Invariance, PTL DEF GovernanceInv

\* No product of the AI reaches the catalog without an approval, although
\* implement_suggestion checks the status several statements before its INSERT.
THEOREM GovernanceApproved == Spec => []AiProductWasApproved
<1> QED
  BY Invariance, PTL DEF GovernanceInv

\* A suggestion that counts as implemented has been in the catalog, whichever
\* of the two endings of implement_suggestion it took.
THEOREM GovernanceListed == Spec => []ImplementedWasListed
<1> QED
  BY Invariance, PTL DEF GovernanceInv

\* One step: only activate_staged_products turns an AI product active without
\* an edit by hand, and it asks for the cool-down.
LEMMA CooldownStep ==
  ASSUME GovernanceInv, [Next]_vars, NEW n \in Names,
         products'[n].ai, products'[n].active, ~products[n].active,
         edits' = edits
  PROVE  products[n].listed /\ products[n].age > Cooldown
<1>0. /\ products \in [Names -> Product]
      /\ products[n] \in Product
      /\ edits \in 0..MaxEdits
  BY DEF GovernanceInv, TypeOK
<1>1. products'[n] # products[n]
  BY Zenon
<1>2. ~Tick
  <2>1. ASSUME Tick PROVE products'[n].active = products[n].active
    BY <1>0, <2>1 DEF Tick, Product
  <2> QED
    BY <2>1, Zenon
<1>3. CASE activate_staged_products
  <2>1. products'[n] = IF ReadyToGoLive(n)
                       THEN [products[n] EXCEPT !.active = TRUE, !.age = 0]
                       ELSE products[n]
    BY <1>3 DEF activate_staged_products
  <2>2. ReadyToGoLive(n)
    BY <1>1, <2>1
  <2> QED
    BY <2>2 DEF ReadyToGoLive
<1>4. ASSUME NEW k \in Calls, publish(k) PROVE FALSE
  <2> DEFINE row == [NoProduct EXCEPT !.listed = TRUE, !.ai = TRUE,
                                      !.origin = calls[k].name]
  <2>1. products'[n] = row
    BY <1>0, <1>1, <1>4 DEF publish
  <2>2. row.active = FALSE
    BY DEF NoProduct
  <2> QED
    BY <2>1, <2>2
<1>5. CASE edit_products
  <2>1. edits' = edits + 1
    BY <1>5 DEF edit_products, create_product, update_product,
      rename_product, delete_product, Edit
  <2>2. edits \in Nat
    BY <1>0, LimitAssumption
  <2> QED
    BY <2>1, <2>2
<1>6. CASE analyze_and_suggest \/ review
  BY <1>1, <1>6 DEF analyze_and_suggest, expire_stale, check_duplicate,
    insert_suggestion, review, approve_suggestion, delete_suggestion
<1>7. CASE implement_suggestion
  BY <1>1, <1>4, <1>7 DEF implement_suggestion, fetch_suggestion, check_status,
    check_cap, check_exists, mark_existing
<1>8. CASE UNCHANGED vars
  BY <1>1, <1>8 DEF vars
<1> QED
  BY <1>2, <1>3, <1>5, <1>6, <1>7, <1>8 DEF Next

\* Unless it is edited by hand, an AI product goes live only when it has stood
\* untouched for the cool-down, for every length of it.
THEOREM GovernanceCooldown == Spec => StagedUntilCooldown
<1>1. ASSUME GovernanceInv, [Next]_vars
      PROVE  [\A n \in Names :
                (/\ products'[n].ai /\ products'[n].active /\ ~products[n].active
                 /\ edits' = edits)
                  => products[n].listed /\ products[n].age > Cooldown]_vars
  BY <1>1, CooldownStep
<1> QED
  BY <1>1, Invariance, PTL DEF Spec, StagedUntilCooldown

-----------------------------------------------------------------------------
(* Connectors.                                                             *)

\* The table of connectors starts out as its invariant asks.
LEMMA ConnectorsInit == ConnectorInit => ConnectorInv
<1> SUFFICES ASSUME ConnectorInit PROVE ConnectorInv
    OBVIOUS
<1>1. NoToggle \in Toggle /\ NoSuggest \in Suggest /\ NoToggle.at # "update"
    BY DEF NoToggle, NoSuggest, Toggle, Suggest, Live
<1> QED
    BY <1>1, SeededAssumption
    DEF ConnectorInit, ConnectorInv, ConnectorTypeOK, SuggestedWasVetted, TogglesKnow

\* A row just inserted is typed, and waits for a decision if the AI suggested it.
LEMMA NewVetted ==
  ASSUME NEW name \in ConnectorNames, NEW by \in {"ai", "staff"}
  PROVE  New(name, by) \in Row /\ Vetted(New(name, by))
BY DEF New, Row, Vetted, Live

\* Rows are added: the others stay, and what toggles know of them.
LEMMA RowsAdded ==
  ASSUME ConnectorInv, NEW new \in Seq(Row), rows' = rows \o new,
         \A i \in DOMAIN new : Vetted(new[i]),
         UNCHANGED toggles, suggests' \in [Suggesters -> Suggest], requests' \in Nat
  PROVE  ConnectorInv'
<1> USE DEF ConnectorInv, ConnectorTypeOK
<1>1. rows' \in Seq(Row) /\ Len(rows') = Len(rows) + Len(new)
    OBVIOUS
<1>2. ASSUME NEW i \in DOMAIN rows'
      PROVE  rows'[i] = IF i =< Len(rows) THEN rows[i] ELSE new[i - Len(rows)]
    BY <1>1
<1>3. \A i \in DOMAIN rows : i \in DOMAIN rows' /\ rows'[i] = rows[i]
    BY <1>1, <1>2
<1>4. SuggestedWasVetted'
  <2> SUFFICES ASSUME NEW i \in DOMAIN rows' PROVE Vetted(rows'[i])
      BY DEF SuggestedWasVetted, Vetted
  <2>1. CASE i =< Len(rows)
      BY <2>1, <1>1, <1>2 DEF SuggestedWasVetted
  <2>2. CASE i > Len(rows)
      BY <2>2, <1>1, <1>2
  <2> QED
      BY <2>1, <2>2, <1>1
<1>5. TogglesKnow'
    BY <1>3 DEF TogglesKnow
<1> QED
    BY <1>1, <1>4, <1>5

\* A row is changed: it is still the same suggestion, no approval is taken back,
\* and it is vetted if it is in use.
LEMMA RowChanged ==
  ASSUME ConnectorInv, NEW i \in DOMAIN rows, NEW row \in Row,
         rows' = [rows EXCEPT ![i] = row],
         Vetted(row), row.suggested_by = rows[i].suggested_by,
         rows[i].vetted => row.vetted,
         \A t \in Togglers : \/ toggles'[t] = toggles[t]
                             \/ toggles'[t].at # "update",
         toggles' \in [Togglers -> Toggle],
         UNCHANGED suggests, requests' \in Nat
  PROVE  ConnectorInv'
<1> USE DEF ConnectorInv, ConnectorTypeOK
<1>1. rows' \in Seq(Row) /\ DOMAIN rows' = DOMAIN rows
    OBVIOUS
<1>2. \A j \in DOMAIN rows : rows'[j] = IF j = i THEN row ELSE rows[j]
    OBVIOUS
<1>3. SuggestedWasVetted'
  <2> SUFFICES ASSUME NEW j \in DOMAIN rows PROVE Vetted(rows'[j])
      BY <1>1 DEF SuggestedWasVetted, Vetted
  <2> QED
      BY <1>2 DEF SuggestedWasVetted
<1>4. TogglesKnow'
    BY <1>1, <1>2 DEF TogglesKnow
<1> QED
    BY <1>1, <1>3, <1>4

\* configure_connector promotes templates only, and the AI suggests none of these.
LEMMA ConfigureInv ==
  ASSUME ConnectorInv, NEW i, NEW config \in Configs, configure_connector(i, config)
  PROVE  ConnectorInv'
<1> DEFINE row == [rows[i] EXCEPT !.config = config, !.status = Promoted(@, config)]
<1>1. i \in DOMAIN rows /\ rows[i] \in Row /\ Vetted(rows[i])
    BY DEF configure_connector, Ids, ConnectorInv, ConnectorTypeOK, SuggestedWasVetted
<1>2. config \in SUBSET Keys
    BY ConfigsAssumption
<1>3. Promoted(rows[i].status, config) \in Live \union {"deleted"}
    BY <1>1 DEF Promoted, Row, Live
<1>4. row \in Row
    BY <1>1, <1>2, <1>3 DEF Row
<1>5. /\ row.status = Promoted(rows[i].status, config)
      /\ row.suggested_by = rows[i].suggested_by
      /\ row.vetted = rows[i].vetted
    BY <1>1 DEF Row
<1>6. Vetted(row)
    BY <1>1, <1>5 DEF Vetted, Promoted
<1>7. rows' = [rows EXCEPT ![i] = row]
    BY <1>1 DEF configure_connector, ConnectorInv, ConnectorTypeOK, Row
<1>8. UNCHANGED <<toggles, suggests>> /\ requests' \in Nat
    BY DEF configure_connector, Request, ConnectorInv, ConnectorTypeOK
<1> HIDE DEF row
<1> QED
    BY <1>1, <1>4, <1>5, <1>6, <1>7, <1>8, RowChanged DEF ConnectorInv, ConnectorTypeOK

\* approve_connector records the decision with the status it sets.
LEMMA ApproveInv ==
  ASSUME ConnectorInv, NEW i, NEW verdict \in {"approved", "rejected"},
         approve_connector(i, verdict)
  PROVE  ConnectorInv'
<1> DEFINE row == [rows[i] EXCEPT !.status = verdict,
                                  !.vetted = @ \/ verdict = "approved",
                                  !.refused = verdict = "rejected"]
<1>1. i \in DOMAIN rows /\ rows[i] \in Row
    BY DEF approve_connector, Ids, ConnectorInv, ConnectorTypeOK
<1>2. (rows[i].vetted \/ verdict = "approved") \in BOOLEAN
    OBVIOUS
<1>3. row \in Row
    BY <1>1, <1>2 DEF Row, Live
<1>4. /\ row.status = verdict
      /\ row.suggested_by = rows[i].suggested_by
      /\ row.vetted = (rows[i].vetted \/ verdict = "approved")
    BY <1>1 DEF Row
<1>5. Vetted(row)
    BY <1>4 DEF Vetted
<1>6. rows' = [rows EXCEPT ![i] = row]
    BY <1>1 DEF approve_connector, ConnectorInv, ConnectorTypeOK, Row
<1>7. UNCHANGED <<toggles, suggests>> /\ requests' \in Nat
    BY DEF approve_connector, Request, ConnectorInv, ConnectorTypeOK
<1> HIDE DEF row
<1> QED
    BY <1>1, <1>3, <1>4, <1>5, <1>6, <1>7, RowChanged DEF ConnectorInv, ConnectorTypeOK

\* delete_connector makes no row live.
LEMMA DeleteInv ==
  ASSUME ConnectorInv, NEW i, delete_connector(i)
  PROVE  ConnectorInv'
<1> DEFINE row == [rows[i] EXCEPT !.status = "deleted"]
<1>1. i \in DOMAIN rows /\ rows[i] \in Row
    BY DEF delete_connector, Ids, ConnectorInv, ConnectorTypeOK
<1>2. row \in Row
    BY <1>1 DEF Row, Live
<1>3. /\ row.status = "deleted"
      /\ row.suggested_by = rows[i].suggested_by
      /\ row.vetted = rows[i].vetted
    BY <1>1 DEF Row
<1>4. Vetted(row)
    BY <1>3 DEF Vetted
<1>5. rows' = [rows EXCEPT ![i] = row]
    BY <1>1 DEF delete_connector, ConnectorInv, ConnectorTypeOK, Row
<1>6. UNCHANGED <<toggles, suggests>> /\ requests' \in Nat
    BY DEF delete_connector, Request, ConnectorInv, ConnectorTypeOK
<1> HIDE DEF row
<1> QED
    BY <1>1, <1>2, <1>3, <1>4, <1>5, <1>6, RowChanged DEF ConnectorInv, ConnectorTypeOK

\* toggle_connector reads a row: what it goes on to write was vetted when it read it.
LEMMA ToggleSelectInv ==
  ASSUME ConnectorInv, NEW t \in Togglers, NEW i, toggle_select(t, i)
  PROVE  ConnectorInv'
<1> USE DEF ConnectorInv, ConnectorTypeOK
<1>1. i \in DOMAIN rows /\ rows[i] \in Row /\ Vetted(rows[i])
    BY DEF toggle_select, Ids, SuggestedWasVetted
<1>2. rows[i].status \in {"active", "approved", "disabled", "available"}
    BY DEF toggle_select, Toggleable
<1>3. rows[i].suggested_by = "ai" => rows[i].vetted
    BY <1>1, <1>2 DEF Vetted
<1>4. [at |-> "update", id |-> i, seen |-> rows[i].status] \in Toggle
    BY <1>1, <1>2 DEF Toggle, Live
<1>5. UNCHANGED <<rows, suggests>> /\ requests' \in Nat
    BY DEF toggle_select, Request
<1>6. toggles' \in [Togglers -> Toggle]
    BY <1>4 DEF toggle_select
<1>7. SuggestedWasVetted'
    BY <1>5 DEF SuggestedWasVetted, Vetted
<1>8. TogglesKnow'
    BY <1>1, <1>3, <1>5 DEF toggle_select, TogglesKnow
<1> QED
    BY <1>5, <1>6, <1>7, <1>8

\* It writes later, from what it read: the decision it relied on still stands.
LEMMA ToggleUpdateInv ==
  ASSUME ConnectorInv, NEW t \in Togglers, toggle_update(t)
  PROVE  ConnectorInv'
<1> DEFINE i == toggles[t].id
           status == IF toggles[t].seen = "active" THEN "disabled" ELSE "active"
           row == [rows[i] EXCEPT !.status = status]
<1>1. i \in DOMAIN rows /\ rows[i] \in Row
    BY DEF toggle_update, TogglesKnow, ConnectorInv, ConnectorTypeOK
<1>2. toggles' \in [Togglers -> Toggle]
    BY DEF toggle_update, NoToggle, Toggle, Live, ConnectorInv, ConnectorTypeOK
<1>3. \A u \in Togglers : toggles'[u] = toggles[u] \/ toggles'[u].at # "update"
    BY DEF toggle_update, NoToggle, ConnectorInv, ConnectorTypeOK
<1>4. UNCHANGED <<suggests, requests>> /\ requests' \in Nat
    BY DEF toggle_update, ConnectorInv, ConnectorTypeOK
<1>5. CASE i \in Ids
  <2>1. row \in Row
      BY <1>1 DEF Row, Live
  <2>2. /\ row.suggested_by = rows[i].suggested_by
        /\ row.vetted = rows[i].vetted
      BY <1>1 DEF Row
  <2>3. Vetted(row)
      BY <2>2 DEF toggle_update, TogglesKnow, ConnectorInv, Vetted
  <2>4. rows' = [rows EXCEPT ![i] = row]
      BY <1>1, <1>5 DEF toggle_update, ConnectorInv, ConnectorTypeOK, Row
  <2> HIDE DEF row
  <2> QED
      BY <1>1, <1>2, <1>3, <1>4, <2>1, <2>2, <2>3, <2>4, RowChanged
<1>6. CASE i \notin Ids
  <2>1. UNCHANGED rows
      BY <1>6 DEF toggle_update
  <2> QED
      BY <1>2, <1>3, <1>4, <2>1
      DEF ConnectorInv, ConnectorTypeOK, SuggestedWasVetted, Vetted, TogglesKnow
<1> QED
    BY <1>5, <1>6

\* ai_suggest_connectors, at each of its statements.
LEMMA SuggestsInv ==
  ASSUME ConnectorInv, NEW s \in Suggesters,
         \/ ai_suggest_connectors(s) \/ suggest_select(s) \/ suggest_commit(s)
         \/ suggest_fails(s)
  PROVE  ConnectorInv'
<1> USE DEF ConnectorInv, ConnectorTypeOK
<1>1. suggests[s] \in Suggest
    OBVIOUS
<1>2. CASE ai_suggest_connectors(s)
  <2>1. suggests' \in [Suggesters -> Suggest]
      BY <1>1, <1>2 DEF ai_suggest_connectors, Suggest
  <2> QED
      BY <1>2, <2>1
      DEF ai_suggest_connectors, Request, SuggestedWasVetted, Vetted, TogglesKnow
<1>3. CASE suggest_select(s)
  <2>1. Suggested[suggests[s].next] \in ConnectorNames
      BY <1>3, SuggestedAssumption DEF suggest_select
  <2>2. /\ suggests[s].next + 1 \in Nat
        /\ Append(suggests[s].missing, Suggested[suggests[s].next]) \in Seq(ConnectorNames)
      BY <1>1, <2>1 DEF Suggest
  <2>3. suggests' \in [Suggesters -> Suggest]
      BY <1>1, <1>3, <2>2 DEF suggest_select, Suggest
  <2> QED
      BY <1>3, <2>3 DEF suggest_select, SuggestedWasVetted, Vetted, TogglesKnow
<1>4. CASE suggest_commit(s)
  <2> DEFINE missing == suggests[s].missing
             new == [k \in DOMAIN missing |-> New(missing[k], "ai")]
  <2>1. missing \in Seq(ConnectorNames)
      BY <1>1 DEF Suggest
  <2>2. \A k \in DOMAIN missing : New(missing[k], "ai") \in Row /\ Vetted(New(missing[k], "ai"))
      BY <2>1, NewVetted
  <2>3. new \in Seq(Row) /\ \A k \in DOMAIN new : Vetted(new[k])
      BY <2>1, <2>2
  <2>4. rows' = rows \o new
      BY <1>4 DEF suggest_commit
  <2>5. suggests' \in [Suggesters -> Suggest]
      BY <1>4 DEF suggest_commit, NoSuggest, Suggest
  <2>6. UNCHANGED <<toggles, requests>>
      BY <1>4 DEF suggest_commit
  <2> HIDE DEF new
  <2> QED
      BY <2>3, <2>4, <2>5, <2>6, RowsAdded
<1>5. CASE suggest_fails(s)
  <2>1. suggests' \in [Suggesters -> Suggest]
      BY <1>5 DEF suggest_fails, NoSuggest, Suggest
  <2> QED
      BY <1>5, <2>1 DEF suggest_fails, SuggestedWasVetted, Vetted, TogglesKnow
<1> QED
    BY <1>2, <1>3, <1>4, <1>5

\* create_connector, called with either origin.
LEMMA CreateInv ==
  ASSUME ConnectorInv, NEW n \in ConnectorNames, NEW by \in {"ai", "staff"},
         create_connector(n, by)
  PROVE  ConnectorInv'
<1> DEFINE new == <<New(n, by)>>
<1>1. new \in Seq(Row) /\ \A i \in DOMAIN new : Vetted(new[i])
    BY NewVetted
<1>2. rows' = rows \o new
    BY NewVetted DEF create_connector, ConnectorInv, ConnectorTypeOK
<1>3. UNCHANGED <<toggles, suggests>> /\ requests' \in Nat
    BY DEF create_connector, Request, ConnectorInv, ConnectorTypeOK
<1> HIDE DEF new
<1> QED
    BY <1>1, <1>2, <1>3, RowsAdded DEF ConnectorInv, ConnectorTypeOK

\* Every operation on the connectors keeps their invariant.
LEMMA ConnectorsNext == ConnectorInv /\ ConnectorNext => ConnectorInv'
<1> SUFFICES ASSUME ConnectorInv, ConnectorNext PROVE ConnectorInv'
    OBVIOUS
<1>1. CASE \E n \in ConnectorNames, by \in {"ai", "staff"} : create_connector(n, by)
    BY <1>1, CreateInv
<1>2. CASE \E i \in Ids : \E config \in Configs : configure_connector(i, config)
    BY <1>2, ConfigureInv
<1>3. CASE \E i \in Ids : \E verdict \in {"approved", "rejected"} : approve_connector(i, verdict)
    BY <1>3, ApproveInv
<1>4. CASE \E i \in Ids : \E t \in Togglers : toggle_select(t, i)
    BY <1>4, ToggleSelectInv
<1>5. CASE \E i \in Ids : delete_connector(i)
    BY <1>5, DeleteInv
<1>6. CASE \E t \in Togglers : toggle_update(t)
    BY <1>6, ToggleUpdateInv
<1>7. CASE \E s \in Suggesters :
             \/ ai_suggest_connectors(s) \/ suggest_select(s) \/ suggest_commit(s)
             \/ suggest_fails(s)
    BY <1>7, SuggestsInv
<1> QED
    BY <1>1, <1>2, <1>3, <1>4, <1>5, <1>6, <1>7 DEF ConnectorNext

\* So does every step that leaves them alone.
LEMMA ConnectorsKept == ConnectorInv /\ UNCHANGED connector_vars => ConnectorInv'
BY DEF ConnectorInv, ConnectorTypeOK, SuggestedWasVetted, TogglesKnow, Vetted,
       connector_vars

-----------------------------------------------------------------------------
(* The analysis engine.                                                    *)

\* A request not under way has answered nothing and holds nothing.
LEMMA IdleTyped ==
  /\ Idle \in Work
  /\ Idle.at = "idle" /\ Idle.model = BuiltIn /\ Idle.data = BuiltIn
  /\ Idle.before = 0 /\ Idle.run = 0
BY ConnectorBounds DEF Idle, Work, BuiltIn

\* A reply of an error names no model.
LEMMA AnswerTyped ==
  ASSUME NEW code \in {0, 200, 404, 429, 500, 502, 503}
  PROVE  Answer(code) \in Reply /\ Answer(code).model = BuiltIn
BY DEF Answer, Reply, BuiltIn

\* The engine starts out as its invariant asks.
LEMMA EngineInitInv == EngineInit => EngineInv
<1> SUFFICES ASSUME EngineInit PROVE EngineInv
    OBVIOUS
<1>1. ConnectorInv
    BY ConnectorsInit DEF EngineInit
<1>2. EngineTypeOK
    BY <1>1, IdleTyped, AnswerTyped, EngineBounds
    DEF EngineInit, EngineTypeOK, ConnectorInv, NoKey
<1>3. EngineSafe /\ admitted =< rate.count
    BY <1>2, AnswerTyped, EngineBounds
    DEF EngineInit, EngineSafe, RateLimited, WindowArmed, PoweredWasAnswered,
        MarketReplaced, NewestKept, NoKey
<1>4. AnswerInv /\ RunInv /\ MarketInv
    BY IdleTyped DEF EngineInit, AnswerInv, RunInv, MarketInv, TakesAway
<1> QED
    BY <1>1, <1>3, <1>4 DEF EngineInv

-----------------------------------------------------------------------------
\* What a reply may be, and what a request of w may be while the table and the
\* log of the analyses are as they are.
ReplyOK(answer) ==
  answer \in Reply /\ (answer.model # BuiltIn => answer.data = answer.model)

WorkOK(x) ==
  /\ x \in Work
  /\ x.at \in {"expire", "load", "call"} => x.model = BuiltIn
  /\ x.model # BuiltIn => x.data = x.model
  /\ x.before =< Len(stored)
  /\ \A i \in 1..x.before : stored[i].run \in market =>
       /\ x.at = "deleting" => stored[i].run \in x.snapshot
       /\ x.at = "commit" => stored[i].run \in x.doomed

\* EngineInv says WorkOK of every request under way.
LEMMA WorkIsOK == EngineInv => \A w \in Workers : WorkOK(work[w])
BY DEF EngineInv, EngineSafe, EngineTypeOK, AnswerInv, MarketInv, TakesAway, WorkOK

\* The numbers in the log of the analyses.
LEMMA StoredRuns ==
  EngineInv => \A i \in DOMAIN stored :
                 stored[i].run \in 1..requests /\ stored[i].before \in 0..Len(stored)
<1> SUFFICES ASSUME EngineInv, NEW i \in DOMAIN stored
             PROVE  stored[i].run \in 1..requests /\ stored[i].before \in 0..Len(stored)
    OBVIOUS
<1> DEFINE Entry == [run : 1..MaxRequests, intelligence : BOOLEAN, before : Nat]
<1>1. stored[i].run \in 1..MaxRequests /\ stored[i].before \in Nat
  <2>1. stored \in Seq(Entry)
      BY DEF EngineInv, EngineSafe, EngineTypeOK
  <2> HIDE DEF Entry
  <2>2. stored[i] \in Entry
      BY <2>1
  <2> QED
      BY <2>2 DEF Entry
<1>2. stored[i].run =< requests /\ stored[i].before =< Len(stored)
    BY DEF EngineInv, RunInv, MarketInv
<1>3. requests \in Nat /\ Len(stored) \in Nat
    BY DEF EngineInv, EngineSafe, EngineTypeOK, ConnectorTypeOK
<1> QED
    BY <1>1, <1>2, <1>3, ConnectorBounds

\* A request that has ended keeps what EngineInv asks of requests.
LEMMA IdleIsOK == EngineInv => WorkOK(Idle)
BY IdleTyped DEF EngineInv, EngineSafe, EngineTypeOK, WorkOK

\* What EngineInv says of the market and the requests when w alone moves, to x.
LEMMA WorkMoves ==
  ASSUME EngineInv, NEW w \in Workers, NEW x, WorkOK(x),
         work' = [work EXCEPT ![w] = x], UNCHANGED <<market, stored>>,
         requests' \in Nat, requests =< requests',
         x.at # "idle" => x.run \in 1..requests',
         x.at # "idle" =>
           \/ /\ work[w].at # "idle" /\ x.run = work[w].run
              /\ x.at # "respond" => work[w].at # "respond"
           \/ x.run > requests
  PROVE  /\ work' \in [Workers -> Work]
         /\ AnswerInv' /\ RunInv' /\ MarketInv' /\ MarketReplaced' /\ NewestKept'
<1> USE DEF EngineInv, EngineSafe, EngineTypeOK, ConnectorTypeOK
<1>1. \A v \in Workers : work'[v] = IF v = w THEN x ELSE work[v]
    OBVIOUS
<1>2. work' \in [Workers -> Work]
    BY DEF WorkOK
<1>3. AnswerInv'
    BY <1>1 DEF AnswerInv, WorkOK
<1>4. \A v \in Workers : work'[v].at # "idle" => work'[v].run \in 1..requests'
    BY <1>1 DEF RunInv
<1>5. ASSUME NEW v \in Workers, v # w, work[v].at # "idle", x.at # "idle"
      PROVE  work[v].run # x.run
    BY <1>5 DEF RunInv
<1>6. \A u, v \in Workers :
        u # v /\ work'[u].at # "idle" /\ work'[v].at # "idle" => work'[u].run # work'[v].run
    BY <1>1, <1>5 DEF RunInv
<1>7. \A i \in DOMAIN stored : stored'[i].run =< requests'
    BY StoredRuns
<1>8. ASSUME NEW i \in DOMAIN stored, x.at \notin {"idle", "respond"}
      PROVE  stored[i].run # x.run
  <2>1. stored[i].run \in 1..requests
      BY StoredRuns
  <2> QED
      BY <1>8, <2>1 DEF RunInv
<1>9. RunInv'
    BY <1>1, <1>4, <1>6, <1>7, <1>8 DEF RunInv
<1>10. MarketInv' /\ MarketReplaced' /\ NewestKept'
    BY <1>1 DEF MarketInv, TakesAway, WorkOK, MarketReplaced, NewestKept
<1> QED
    BY <1>2, <1>3, <1>9, <1>10

\* A request under way takes a step that leaves Redis and the tables alone.
LEMMA RequestMoves ==
  ASSUME EngineInv, NEW w \in Workers, NEW x, WorkOK(x),
         work' = [work EXCEPT ![w] = x],
         UNCHANGED <<connector_vars, rate, admitted, market, stored>>,
         work[w].at # "idle",
         x.at # "idle" =>
           /\ x.run = work[w].run
           /\ x.at # "respond" => work[w].at # "respond",
         failures' \in 0..MaxFailures, failures =< failures',
         work[w].at = "expire" => failures' > 0,
         ReplyOK(reply')
  PROVE  EngineInv'
<1> USE DEF EngineInv
<1>1. ConnectorInv'
    BY ConnectorsKept
<1>2. /\ work' \in [Workers -> Work]
      /\ AnswerInv' /\ RunInv' /\ MarketInv' /\ MarketReplaced' /\ NewestKept'
  <2>1. requests' = requests /\ requests' \in Nat /\ requests =< requests'
      BY DEF connector_vars, ConnectorInv, ConnectorTypeOK
  <2>2. x.at # "idle" => x.run \in 1..requests'
      BY <2>1 DEF RunInv
  <2>3. UNCHANGED <<market, stored>>
      OBVIOUS
  <2> QED
      BY <2>1, <2>2, <2>3, WorkMoves
<1>3. EngineTypeOK'
    BY <1>1, <1>2 DEF EngineSafe, EngineTypeOK, ConnectorInv, ReplyOK
<1>4. WindowArmed'
    BY <1>2 DEF EngineSafe, EngineTypeOK, WindowArmed
<1>5. RateLimited' /\ admitted' =< rate'.count /\ PoweredWasAnswered'
    BY DEF EngineSafe, EngineTypeOK, RateLimited, PoweredWasAnswered, ReplyOK
<1> QED
    BY <1>1, <1>2, <1>3, <1>4, <1>5 DEF EngineSafe

\* The same for a step that does not fail and gives no response.
LEMMA RequestGoesOn ==
  ASSUME EngineInv, NEW w \in Workers, NEW x, WorkOK(x),
         work' = [work EXCEPT ![w] = x],
         UNCHANGED <<connector_vars, rate, admitted, market, stored, failures, reply>>,
         work[w].at \notin {"idle", "expire"},
         x.at # "idle" =>
           /\ x.run = work[w].run
           /\ x.at # "respond" => work[w].at # "respond"
  PROVE  EngineInv'
<1>1. /\ failures' \in 0..MaxFailures /\ failures =< failures'
      /\ ReplyOK(reply')
    BY EngineBounds DEF EngineInv, EngineSafe, EngineTypeOK, PoweredWasAnswered, ReplyOK
<1>2. UNCHANGED <<connector_vars, rate, admitted, market, stored>>
    OBVIOUS
<1> QED
    BY <1>1, <1>2, RequestMoves

-----------------------------------------------------------------------------
(* The steps of a request under way.                                       *)

\* The first request of a window arms its end.
LEMMA ExpiryInv ==
  ASSUME EngineInv, NEW w \in Workers, set_expiry(w)
  PROVE  EngineInv'
<1> USE DEF EngineInv
<1> DEFINE x == [work[w] EXCEPT !.at = "load"]
<1>1. work[w] \in Work /\ WorkOK(work[w]) /\ work[w].at = "expire"
    BY WorkIsOK DEF set_expiry, EngineSafe, EngineTypeOK
<1>2. /\ x \in Work /\ x.at = "load" /\ x.run = work[w].run
      /\ x.model = work[w].model /\ x.data = work[w].data /\ x.before = work[w].before
    BY <1>1 DEF Work
<1>3. WorkOK(x)
    BY <1>1, <1>2 DEF WorkOK
<1>4. work' = [work EXCEPT ![w] = x] /\ UNCHANGED <<connector_vars, market, stored>>
    BY DEF set_expiry
<1>5. requests' \in Nat /\ requests =< requests' /\ x.run \in 1..requests'
    BY <1>1, <1>2, <1>4
    DEF connector_vars, RunInv, EngineSafe, EngineTypeOK, ConnectorTypeOK
<1>6. /\ work' \in [Workers -> Work]
      /\ AnswerInv' /\ RunInv' /\ MarketInv' /\ MarketReplaced' /\ NewestKept'
  <2> HIDE DEF x
  <2> QED
      BY <1>1, <1>2, <1>3, <1>4, <1>5, WorkMoves
<1>7. ConnectorInv'
    BY <1>4, ConnectorsKept
<1>8. EngineTypeOK'
    BY <1>6, <1>7 DEF set_expiry, EngineSafe, EngineTypeOK, ConnectorInv
<1>9. RateLimited' /\ WindowArmed' /\ PoweredWasAnswered' /\ admitted' =< rate'.count
    BY DEF set_expiry, EngineSafe, EngineTypeOK, RateLimited, WindowArmed, PoweredWasAnswered
<1> QED
    BY <1>6, <1>7, <1>8, <1>9 DEF EngineSafe

\* The connectors are read once, in some order.
LEMMA LoadInv ==
  ASSUME EngineInv, NEW w \in Workers, load_connectors(w)
  PROVE  EngineInv'
<1>1. rows \in Seq(Row) /\ work[w] \in Work /\ WorkOK(work[w]) /\ work[w].at = "load"
    BY WorkIsOK
    DEF EngineInv, EngineSafe, EngineTypeOK, ConnectorTypeOK, load_connectors
<1>2. Cardinality(Active) \in Nat
  <2>1. IsFiniteSet(DOMAIN rows)
      BY <1>1, FS_Interval
  <2>2. Active \subseteq DOMAIN rows
      BY DEF Active, Ids
  <2> QED
      BY <2>1, <2>2, FS_Subset, FS_CardinalityType
<1>3. PICK order \in [1..Cardinality(Active) -> Active] :
        work' = [work EXCEPT ![w].at = "call", ![w].list =
          [k \in DOMAIN order |-> [id |-> order[k], name |-> rows[order[k]].name,
                                   config |-> rows[order[k]].config]]]
    BY DEF load_connectors
<1> DEFINE list == [k \in DOMAIN order |-> [id |-> order[k], name |-> rows[order[k]].name,
                                            config |-> rows[order[k]].config]]
           x == [work[w] EXCEPT !.at = "call", !.list = list]
<1>4. list \in Seq(Loaded)
  <2>1. ASSUME NEW k \in 1..Cardinality(Active)
        PROVE  list[k] \in Loaded
    <3>1. order[k] \in DOMAIN rows
        BY DEF Active, Ids
    <3>2. order[k] \in Nat /\ rows[order[k]] \in Row
        BY <1>1, <3>1
    <3> QED
        BY <3>2 DEF Loaded, Row
  <2> QED
      BY <1>2, <2>1
<1> HIDE DEF list
<1>5. /\ x \in Work /\ x.at = "call" /\ x.run = work[w].run
      /\ x.model = work[w].model /\ x.data = work[w].data /\ x.before = work[w].before
    BY <1>1, <1>4 DEF Work
<1>6. WorkOK(x)
    BY <1>1, <1>5 DEF WorkOK
<1>7. work' = [work EXCEPT ![w] = x]
    BY <1>3 DEF list
<1>8. UNCHANGED <<connector_vars, rate, admitted, market, stored, failures, reply>>
    BY DEF load_connectors
<1> HIDE DEF x
<1> QED
    BY <1>1, <1>5, <1>6, <1>7, <1>8, RequestGoesOn

\* A connector without a key is passed over; one that fails leaves no data behind.
LEMMA SkipInv ==
  ASSUME EngineInv, NEW w \in Workers, skip_connector(w) \/ call_fails(w)
  PROVE  EngineInv'
<1> DEFINE x == [work[w] EXCEPT !.next = @ + 1]
           y == [work[w] EXCEPT !.next = @ + 1, !.data = BuiltIn]
<1>1. work[w] \in Work /\ WorkOK(work[w]) /\ work[w].at = "call"
    BY WorkIsOK DEF EngineInv, EngineSafe, EngineTypeOK, skip_connector, call_fails
<1>2. /\ x \in Work /\ x.at = "call" /\ x.run = work[w].run
      /\ x.model = work[w].model /\ x.data = work[w].data /\ x.before = work[w].before
    BY <1>1 DEF Work
<1>3. /\ y \in Work /\ y.at = "call" /\ y.run = work[w].run
      /\ y.model = work[w].model /\ y.data = BuiltIn /\ y.before = work[w].before
  <2>1. work[w].next + 1 \in Nat /\ BuiltIn \in Nat
      BY <1>1 DEF Work, BuiltIn
  <2> QED
      BY <1>1, <2>1 DEF Work
<1>4. WorkOK(x) /\ WorkOK(y)
    BY <1>1, <1>2, <1>3 DEF WorkOK
<1>5. work' = [work EXCEPT ![w] = x] \/ work' = [work EXCEPT ![w] = y]
    BY <1>1 DEF skip_connector, call_fails, Work
<1>6. UNCHANGED <<connector_vars, rate, admitted, market, stored, failures, reply>>
    BY DEF skip_connector, call_fails
<1> HIDE DEF x, y
<1> QED
    BY <1>1, <1>2, <1>3, <1>4, <1>5, <1>6, RequestGoesOn

\* A model that answers is the one the reply will name.
LEMMA AnswersInv ==
  ASSUME EngineInv, NEW w \in Workers, call_answers(w)
  PROVE  EngineInv'
<1> DEFINE id == Connector(w).id
           x == [work[w] EXCEPT !.at = "delete", !.model = id, !.data = id]
<1>1. work[w] \in Work /\ WorkOK(work[w]) /\ work[w].at = "call"
    BY WorkIsOK DEF EngineInv, EngineSafe, EngineTypeOK, call_answers
<1>2. id \in Nat
  <2>1. work[w].list \in Seq(Loaded) /\ work[w].next \in DOMAIN work[w].list
      BY <1>1 DEF call_answers, More, Work
  <2>2. Connector(w) \in Loaded
      BY <2>1 DEF Connector
  <2> QED
      BY <2>2 DEF Loaded
<1> HIDE DEF id
<1>3. /\ x \in Work /\ x.at = "delete" /\ x.run = work[w].run
      /\ x.model = id /\ x.data = id /\ x.before = work[w].before
    BY <1>1, <1>2 DEF Work
<1>4. WorkOK(x)
    BY <1>1, <1>3 DEF WorkOK
<1>5. UNCHANGED <<connector_vars, rate, admitted, market, stored, failures>>
    BY DEF call_answers
<1>6. CASE work' = [work EXCEPT ![w] = x] /\ UNCHANGED reply
  <2>1. UNCHANGED <<connector_vars, rate, admitted, market, stored, failures, reply>>
      BY <1>5, <1>6
  <2> HIDE DEF x
  <2> QED
      BY <1>1, <1>3, <1>4, <1>6, <2>1, RequestGoesOn
<1>7. CASE Respond(w, Answer(502))
           \/ Respond(w, [code |-> 200, model |-> id, stamp |-> id, data |-> id])
  <2>1. ReplyOK(reply')
      BY <1>2, <1>7, AnswerTyped DEF Respond, ReplyOK, Reply
  <2>2. work' = [work EXCEPT ![w] = Idle]
      BY <1>7 DEF Respond
  <2>3. /\ failures' \in 0..MaxFailures /\ failures =< failures'
        /\ UNCHANGED <<connector_vars, rate, admitted, market, stored>>
      BY <1>5, EngineBounds DEF EngineInv, EngineSafe, EngineTypeOK
  <2> QED
      BY <1>1, <2>1, <2>2, <2>3, IdleTyped, IdleIsOK, RequestMoves
<1> QED
    BY <1>6, <1>7 DEF call_answers, id

\* No connector has answered: the built-in analysis goes on, the playbook gives up.
LEMMA NoneLeftInv ==
  ASSUME EngineInv, NEW w \in Workers, no_connector_left(w)
  PROVE  EngineInv'
<1> DEFINE x == [work[w] EXCEPT !.at = "delete"]
<1>1. work[w] \in Work /\ WorkOK(work[w]) /\ work[w].at = "call"
    BY WorkIsOK DEF EngineInv, EngineSafe, EngineTypeOK, no_connector_left
<1>2. /\ x \in Work /\ x.at = "delete" /\ x.run = work[w].run
      /\ x.model = work[w].model /\ x.data = work[w].data /\ x.before = work[w].before
    BY <1>1 DEF Work
<1>3. WorkOK(x)
    BY <1>1, <1>2 DEF WorkOK
<1>4. UNCHANGED <<connector_vars, rate, admitted, market, stored, failures>>
    BY DEF no_connector_left
<1>5. CASE work' = [work EXCEPT ![w] = x] /\ UNCHANGED reply
  <2>1. UNCHANGED <<connector_vars, rate, admitted, market, stored, failures, reply>>
      BY <1>4, <1>5
  <2> HIDE DEF x
  <2> QED
      BY <1>1, <1>2, <1>3, <1>5, <2>1, RequestGoesOn
<1>6. CASE Respond(w, Answer(503))
  <2>1. ReplyOK(reply') /\ work' = [work EXCEPT ![w] = Idle]
      BY <1>6, AnswerTyped DEF Respond, ReplyOK
  <2>2. /\ failures' \in 0..MaxFailures /\ failures =< failures'
        /\ UNCHANGED <<connector_vars, rate, admitted, market, stored>>
      BY <1>4, EngineBounds DEF EngineInv, EngineSafe, EngineTypeOK
  <2> QED
      BY <1>1, <2>1, <2>2, IdleTyped, IdleIsOK, RequestMoves
<1> QED
    BY <1>5, <1>6 DEF no_connector_left

\* The DELETE of the market rows begins: it sees what is committed then.
LEMMA DeleteBegunInv ==
  ASSUME EngineInv, NEW w \in Workers, market_delete(w)
  PROVE  EngineInv'
<1> DEFINE x == [work[w] EXCEPT !.at = "deleting", !.snapshot = market,
                                !.before = Len(stored)]
<1>1. work[w] \in Work /\ WorkOK(work[w]) /\ work[w].at = "delete"
    BY WorkIsOK DEF EngineInv, EngineSafe, EngineTypeOK, market_delete
<1>2. market \subseteq 1..MaxRequests /\ Len(stored) \in Nat
    BY DEF EngineInv, EngineSafe, EngineTypeOK
<1>3. /\ x \in Work /\ x.at = "deleting" /\ x.run = work[w].run
      /\ x.model = work[w].model /\ x.data = work[w].data
      /\ x.before = Len(stored) /\ x.snapshot = market
    BY <1>1, <1>2 DEF Work
<1>4. WorkOK(x)
    BY <1>1, <1>2, <1>3 DEF WorkOK
<1>5. work' = [work EXCEPT ![w] = x]
    BY DEF market_delete
<1>6. UNCHANGED <<connector_vars, rate, admitted, market, stored, failures, reply>>
    BY DEF market_delete
<1> HIDE DEF x
<1> QED
    BY <1>1, <1>3, <1>4, <1>5, <1>6, RequestGoesOn

\* It ends: it has taken away what is there of what it saw.
LEMMA DeleteEndedInv ==
  ASSUME EngineInv, NEW w \in Workers, market_deleted(w)
  PROVE  EngineInv'
<1> DEFINE x == [work[w] EXCEPT !.at = "commit", !.snapshot = {},
                                !.doomed = work[w].snapshot \intersect market]
<1>1. work[w] \in Work /\ WorkOK(work[w]) /\ work[w].at = "deleting"
    BY WorkIsOK DEF EngineInv, EngineSafe, EngineTypeOK, market_deleted
<1>2. /\ x \in Work /\ x.at = "commit" /\ x.run = work[w].run
      /\ x.model = work[w].model /\ x.data = work[w].data
      /\ x.before = work[w].before /\ x.doomed = work[w].snapshot \intersect market
    BY <1>1 DEF Work
<1>3. WorkOK(x)
    BY <1>1, <1>2 DEF WorkOK
<1>4. work' = [work EXCEPT ![w] = x]
    BY DEF market_deleted
<1>5. UNCHANGED <<connector_vars, rate, admitted, market, stored, failures, reply>>
    BY DEF market_deleted
<1> HIDE DEF x
<1> QED
    BY <1>1, <1>2, <1>3, <1>4, <1>5, RequestGoesOn

\* The response names the model that answered and carries its data.
LEMMA StoreInv ==
  ASSUME EngineInv, NEW w \in Workers, store_suggestions(w)
  PROVE  EngineInv'
<1>1. work[w] \in Work /\ WorkOK(work[w]) /\ work[w].at = "respond"
    BY WorkIsOK DEF EngineInv, EngineSafe, EngineTypeOK, store_suggestions
<1>2. Stamp(w) \in Nat
  <2>1. work[w].list \in Seq(Loaded) /\ work[w].model \in Nat
      BY <1>1 DEF Work
  <2>2. work[w].list # <<>> => work[w].list[1] \in Loaded
      BY <2>1
  <2> QED
      BY <2>1, <2>2 DEF Stamp, Loaded, BuiltIn
<1>3. ReplyOK(reply')
    BY <1>1, <1>2 DEF store_suggestions, Respond, ReplyOK, Reply, WorkOK, Work
<1>4. /\ work' = [work EXCEPT ![w] = Idle]
      /\ failures' \in 0..MaxFailures /\ failures =< failures'
      /\ UNCHANGED <<connector_vars, rate, admitted, market, stored>>
    BY EngineBounds DEF store_suggestions, Respond, EngineInv, EngineSafe, EngineTypeOK
<1> QED
    BY <1>1, <1>3, <1>4, IdleTyped, IdleIsOK, RequestMoves

\* A request is lost: what it has not committed is gone.
LEMMA AbortInv ==
  ASSUME EngineInv, NEW w \in Workers, abort(w)
  PROVE  EngineInv'
<1>1. /\ failures' \in 0..MaxFailures /\ failures =< failures' /\ failures' > 0
      /\ UNCHANGED <<connector_vars, rate, admitted, market, stored>>
      /\ work[w].at # "idle"
    BY EngineBounds DEF abort, Fails, EngineInv, EngineSafe, EngineTypeOK
<1>2. ReplyOK(reply') /\ work' = [work EXCEPT ![w] = Idle]
    BY AnswerTyped DEF abort, Respond, ReplyOK
<1> QED
    BY <1>1, <1>2, IdleTyped, IdleIsOK, RequestMoves

\* The commit replaces the market rows and appends to the log of the analyses.
LEMMA CommitInv ==
  ASSUME EngineInv, NEW w \in Workers, market_commit(w)
  PROVE  EngineInv'
<1> USE DEF EngineInv, EngineSafe, EngineTypeOK
<1> DEFINE run == work[w].run
           x == [work[w] EXCEPT !.at = "respond", !.doomed = {}]
           Entry == [run : 1..MaxRequests, intelligence : BOOLEAN, before : Nat]
<1>1. PICK intelligence \in BOOLEAN :
        /\ market' = Replaced(w, intelligence)
        /\ stored' = Append(stored, [run |-> run, before |-> work[w].before,
                                     intelligence |-> intelligence])
    BY DEF market_commit
<1>2. work[w] \in Work /\ WorkOK(work[w]) /\ work[w].at = "commit"
    BY WorkIsOK DEF market_commit
<1>3. /\ x \in Work /\ x.at = "respond" /\ x.run = run
      /\ x.model = work[w].model /\ x.data = work[w].data /\ x.before = work[w].before
    BY <1>2 DEF Work
<1>4. /\ run \in 1..requests /\ run \in 1..MaxRequests
      /\ work[w].before \in 0..Len(stored) /\ requests \in Nat
  <2>1. run \in 0..MaxRequests /\ work[w].before \in Nat
      BY <1>2 DEF Work
  <2> QED
      BY <1>2, <2>1, ConnectorBounds DEF RunInv, ConnectorTypeOK, WorkOK
<1> DEFINE new == [run |-> run, before |-> work[w].before, intelligence |-> intelligence]
<1>5. new \in Entry /\ stored \in Seq(Entry)
    BY <1>4
<1>6. new.run = run /\ new.before = work[w].before /\ new.intelligence = intelligence
    OBVIOUS
<1> HIDE DEF new, Entry
<1>7. stored' = Append(stored, new)
    BY <1>1 DEF new
<1>8. /\ stored' \in Seq(Entry) /\ Len(stored') = Len(stored) + 1
      /\ \A i \in DOMAIN stored : i \in DOMAIN stored' /\ stored'[i] = stored[i]
      /\ stored'[Len(stored) + 1] = new
      /\ \A i \in DOMAIN stored' : i \in DOMAIN stored \/ i = Len(stored) + 1
    BY <1>5, <1>7
<1>9. /\ work' = [work EXCEPT ![w] = x]
      /\ UNCHANGED <<connector_vars, rate, admitted, reply, failures>>
    BY DEF market_commit
<1> HIDE DEF x
<1>10. \A v \in Workers : work'[v] = IF v = w THEN x ELSE work[v]
    BY <1>9
<1>11. requests' = requests
    BY <1>9 DEF connector_vars
<1>12. /\ market' \subseteq market \union {run}
       /\ market' \subseteq (market \ work[w].doomed) \union {run}
       /\ intelligence => run \in market'
    BY <1>1 DEF Replaced
<1>13. \A i \in DOMAIN stored : stored[i].run # run /\ stored[i].before \in 0..Len(stored)
    BY <1>2, StoredRuns DEF RunInv
<1>14. ConnectorInv'
    BY <1>9, ConnectorsKept
<1>15. EngineTypeOK'
    BY <1>3, <1>4, <1>8, <1>9, <1>12, <1>14 DEF ConnectorInv, Entry
<1>16. AnswerInv'
    BY <1>2, <1>3, <1>10 DEF AnswerInv, WorkOK
<1>17. RunInv'
  <2>1. ASSUME NEW v \in Workers
        PROVE  /\ work'[v].run = work[v].run
               /\ work[v].at # "idle" <=> work'[v].at # "idle"
               /\ work'[v].at \notin {"idle", "respond"} =>
                    v # w /\ work[v].at \notin {"idle", "respond"}
    <3>1. CASE v = w
        BY <1>2, <1>3, <1>10, <3>1
    <3>2. CASE v # w
        BY <1>10, <3>2
    <3> QED
        BY <3>1, <3>2
  <2>2. \A v \in Workers \ {w} : work[v].at # "idle" => work[v].run # run
      BY <1>2 DEF RunInv
  <2>3. ASSUME NEW i \in DOMAIN stored'
        PROVE  stored'[i].run =< requests
    <3>1. CASE i \in DOMAIN stored
        BY <1>8, <3>1 DEF RunInv
    <3>2. CASE i = Len(stored) + 1
        BY <1>4, <1>6, <1>8, <3>2
    <3> QED
        BY <1>8, <3>1, <3>2
  <2>4. \A v \in Workers, i \in DOMAIN stored' :
          work'[v].at \notin {"idle", "respond"} => stored'[i].run # work'[v].run
      BY <1>6, <1>8, <2>1, <2>2 DEF RunInv
  <2> QED
      BY <1>11, <2>1, <2>3, <2>4 DEF RunInv
<1>18. MarketInv'
  <2>1. ASSUME NEW v \in Workers
        PROVE  /\ work'[v].before = work[v].before /\ work'[v].before \in 0..Len(stored)
               /\ work'[v].at \in {"deleting", "commit"} => v # w /\ work'[v] = work[v]
    <3>1. work[v].before \in 0..Len(stored)
      <4>1. work[v] \in Work /\ work[v].before =< Len(stored)
          BY DEF MarketInv
      <4>2. work[v].before \in Nat
          BY <4>1 DEF Work
      <4> QED
          BY <4>1, <4>2
    <3>2. CASE v = w
        BY <1>3, <1>10, <3>1, <3>2
    <3>3. CASE v # w
        BY <1>10, <3>1, <3>3
    <3> QED
        BY <3>2, <3>3
  <2>2. ASSUME NEW v \in Workers
        PROVE  TakesAway(v)'
    <3>1. SUFFICES ASSUME NEW i \in 1..work'[v].before, stored'[i].run \in market',
                          work'[v].at \in {"deleting", "commit"}
                   PROVE  /\ work'[v].at = "deleting" => stored'[i].run \in work'[v].snapshot
                          /\ work'[v].at = "commit" => stored'[i].run \in work'[v].doomed
        BY DEF TakesAway
    <3>2. i \in 1..work[v].before /\ i \in DOMAIN stored /\ work'[v] = work[v]
        BY <2>1, <3>1
    <3>3. stored[i].run \in market
        BY <1>8, <1>12, <1>13, <3>1, <3>2
    <3> QED
        BY <1>8, <3>2, <3>3 DEF MarketInv, TakesAway
  <2>3. ASSUME NEW j \in DOMAIN stored'
        PROVE  stored'[j].before =< Len(stored')
    <3>1. CASE j \in DOMAIN stored
        BY <1>8, <1>13, <3>1
    <3>2. CASE j = Len(stored) + 1
        BY <1>4, <1>6, <1>8, <3>2
    <3> QED
        BY <1>8, <3>1, <3>2
  <2> QED
      BY <1>8, <2>1, <2>2, <2>3 DEF MarketInv
<1>19. MarketReplaced'
  <2> SUFFICES ASSUME NEW j \in DOMAIN stored', NEW i \in 1..stored'[j].before
               PROVE  stored'[i].run \notin market'
      BY DEF MarketReplaced
  <2>1. CASE j \in DOMAIN stored
    <3>1. i \in DOMAIN stored /\ i \in 1..stored[j].before
        BY <1>8, <1>13, <2>1
    <3> QED
        BY <1>8, <1>12, <1>13, <2>1, <3>1 DEF MarketReplaced
  <2>2. CASE j = Len(stored) + 1
    <3>1. i \in DOMAIN stored /\ i \in 1..work[w].before
        BY <1>4, <1>6, <1>8, <2>2
    <3>2. stored[i].run \in market => stored[i].run \in work[w].doomed
        BY <1>2, <3>1 DEF MarketInv, TakesAway
    <3> QED
        BY <1>8, <1>12, <1>13, <3>1, <3>2
  <2> QED
      BY <1>8, <2>1, <2>2
<1>20. NewestKept'
    BY <1>6, <1>8, <1>12 DEF NewestKept
<1>21. WindowArmed'
    BY <1>2, <1>9, <1>10 DEF WindowArmed
<1>22. RateLimited' /\ PoweredWasAnswered' /\ admitted' =< rate'.count
    BY <1>9 DEF RateLimited, PoweredWasAnswered
<1> QED
    BY <1>14, <1>15, <1>16, <1>17, <1>18, <1>19, <1>20, <1>21, <1>22

-----------------------------------------------------------------------------
(* The beginning of a request, the end of the window, the administration.  *)

\* A new request has a number nobody had before.
LEMMA RequestBegins ==
  ASSUME EngineInv, NEW w \in Workers, NEW x,
         x = Idle \/ x = work[w] \/
           \E kind \in {"analyze", "playbook"}, at \in {"expire", "load"} :
             x = [Idle EXCEPT !.at = at, !.kind = kind, !.run = requests'],
         work[w].at = "idle", work' = [work EXCEPT ![w] = x],
         Request, UNCHANGED <<rows, toggles, suggests, market, stored>>,
         rate' \in [count : Nat, expires : BOOLEAN],
         admitted' \in Nat, admitted' =< rate'.count, RateLimited', WindowArmed',
         failures' \in 0..MaxFailures, ReplyOK(reply')
  PROVE  EngineInv'
<1> USE DEF EngineInv, EngineSafe, EngineTypeOK
<1>1. requests \in Nat /\ requests' = requests + 1 /\ requests' \in 1..MaxRequests
    BY ConnectorBounds DEF ConnectorTypeOK, Request
<1>2. /\ WorkOK(x)
      /\ x.at # "idle" => x.run = requests'
  <2>1. CASE x = Idle
      BY <2>1, IdleTyped, IdleIsOK
  <2>2. CASE x = work[w]
      BY <2>2, WorkIsOK
  <2>3. ASSUME NEW kind \in {"analyze", "playbook"}, NEW at \in {"expire", "load"},
               x = [Idle EXCEPT !.at = at, !.kind = kind, !.run = requests']
        PROVE  WorkOK(x) /\ x.run = requests'
    <3>1. /\ x.at = at /\ x.run = requests' /\ x.model = BuiltIn /\ x.before = 0
          /\ x \in Work
      <4>1. requests' \in 0..MaxRequests
          BY <1>1
      <4>2. at \in {"idle", "expire", "load", "call", "delete", "deleting", "commit", "respond"}
          OBVIOUS
      <4> HIDE DEF EngineInv
      <4> QED
          BY <4>1, <4>2, <2>3, IdleTyped DEF Work
    <3> QED
        BY <3>1 DEF WorkOK
  <2> QED
      BY <2>1, <2>2, <2>3
<1>3. /\ work' \in [Workers -> Work]
      /\ AnswerInv' /\ RunInv' /\ MarketInv' /\ MarketReplaced' /\ NewestKept'
  <2>1. requests' \in Nat /\ requests =< requests'
      BY <1>1
  <2>2. x.at # "idle" => x.run \in 1..requests' /\ x.run > requests
      BY <1>1, <1>2
  <2> QED
      BY <1>2, <2>1, <2>2, WorkMoves
<1>4. ConnectorInv'
    BY <1>1 DEF ConnectorInv, ConnectorTypeOK, SuggestedWasVetted, Vetted, TogglesKnow
<1>5. EngineTypeOK'
    BY <1>3, <1>4 DEF ConnectorInv, ReplyOK
<1> QED
    BY <1>3, <1>4, <1>5 DEF PoweredWasAnswered, ReplyOK

\* analyze: INCR, the limit, and the window that the first request arms.
LEMMA AnalyzeInv ==
  ASSUME EngineInv, NEW w \in Workers, analyze_begins(w)
  PROVE  EngineInv'
<1> USE DEF EngineInv, EngineSafe, EngineTypeOK
<1>1. /\ rate' \in [count : Nat, expires : BOOLEAN]
      /\ rate'.count = rate.count + 1 /\ rate'.expires = rate.expires
    BY DEF analyze_begins
<1>2. /\ Request /\ UNCHANGED <<rows, toggles, suggests, market, stored>>
      /\ failures' = failures /\ work[w].at = "idle"
    BY DEF analyze_begins
<1>3. ReplyOK(reply)
    BY DEF PoweredWasAnswered, ReplyOK
<1>4. CASE OverLimit(rate'.count)
  <2>1. /\ work' = [work EXCEPT ![w] = Idle]
        /\ reply' = Answer(429) /\ admitted' = admitted
      BY <1>4 DEF analyze_begins, Respond
  <2>2. RateLimited' /\ admitted' \in Nat /\ admitted' =< rate'.count
      BY <1>1, <2>1 DEF RateLimited
  <2>3. \A v \in Workers : work[v].at = "expire" => work'[v].at = "expire"
      BY <1>2, <2>1
  <2>4. rate.count # 0
      BY <1>1, <1>4, EngineBounds DEF OverLimit
  <2>5. WindowArmed'
      BY <1>1, <1>2, <2>3, <2>4 DEF WindowArmed
  <2>6. ReplyOK(reply')
      BY <2>1, AnswerTyped DEF ReplyOK
  <2> QED
      BY <1>1, <1>2, <2>1, <2>2, <2>5, <2>6, RequestBegins
<1>5. CASE ~OverLimit(rate'.count)
  <2> DEFINE at == IF rate'.count = 1 THEN "expire" ELSE "load"
             x == [Idle EXCEPT !.at = at, !.kind = "analyze", !.run = requests']
  <2>1. /\ work' = [work EXCEPT ![w] = x]
        /\ admitted' = admitted + 1 /\ UNCHANGED reply
      BY <1>5 DEF analyze_begins, Starts
  <2>2. RateLimited' /\ admitted' \in Nat /\ admitted' =< rate'.count
      BY <1>1, <1>5, <2>1, EngineBounds DEF RateLimited, OverLimit
  <2>3. x.at = at
      BY DEF Idle
  <2> HIDE DEF x
  <2>4. WindowArmed'
    <3>1. CASE rate.count = 0
      <4>1. work'[w].at = "expire"
          BY <1>1, <2>1, <2>3, <3>1
      <4> QED
          BY <4>1 DEF WindowArmed
    <3>2. CASE rate.count # 0
      <4>1. \A v \in Workers : work[v].at = "expire" => work'[v].at = "expire"
          BY <1>2, <2>1
      <4> QED
          BY <1>1, <1>2, <3>2, <4>1 DEF WindowArmed
    <3> QED
        BY <3>1, <3>2
  <2>5. at \in {"expire", "load"}
      OBVIOUS
  <2> HIDE DEF at
  <2>6. \E kind \in {"analyze", "playbook"}, a \in {"expire", "load"} :
          x = [Idle EXCEPT !.at = a, !.kind = kind, !.run = requests']
      BY <2>5 DEF x
  <2>7. ReplyOK(reply') /\ failures' \in 0..MaxFailures
      BY <1>2, <1>3, <2>1
  <2> QED
      BY <1>1, <1>2, <2>1, <2>2, <2>4, <2>6, <2>7, RequestBegins
<1> QED
    BY <1>4, <1>5

\* get_playbook_analysis is not limited.
LEMMA PlaybookInv ==
  ASSUME EngineInv, NEW w \in Workers, get_playbook_analysis(w)
  PROVE  EngineInv'
<1> USE DEF EngineInv, EngineSafe, EngineTypeOK
<1>1. /\ Request /\ UNCHANGED <<rows, toggles, suggests, market, stored>>
      /\ UNCHANGED <<rate, admitted, failures>> /\ work[w].at = "idle"
    BY DEF get_playbook_analysis
<1>2. PICK x \in {Idle, [Idle EXCEPT !.at = "load", !.kind = "playbook", !.run = requests']} :
        /\ work' = [work EXCEPT ![w] = x]
        /\ reply' = reply \/ reply' = Answer(404)
    BY DEF get_playbook_analysis, Starts, Respond
<1>3. ReplyOK(reply')
    BY <1>2, AnswerTyped DEF PoweredWasAnswered, ReplyOK
<1>4. \A v \in Workers : work[v].at = "expire" => work'[v].at = "expire"
    BY <1>1, <1>2
<1>5. WindowArmed' /\ RateLimited' /\ admitted' =< rate'.count
    BY <1>1, <1>4 DEF WindowArmed, RateLimited
<1>6. x = Idle \/ \E kind \in {"analyze", "playbook"}, at \in {"expire", "load"} :
        x = [Idle EXCEPT !.at = at, !.kind = kind, !.run = requests']
    BY <1>2
<1> QED
    BY <1>1, <1>2, <1>3, <1>5, <1>6, RequestBegins

\* Redis fails: the request is let through, uncounted.
LEMMA RedisFailsInv ==
  ASSUME EngineInv, NEW w \in Workers, redis_fails(w)
  PROVE  EngineInv'
<1> USE DEF EngineInv, EngineSafe, EngineTypeOK
<1>1. /\ failures' \in 0..MaxFailures /\ failures =< failures' /\ failures' > 0
      /\ UNCHANGED <<rows, toggles, suggests, rate, admitted, reply, market, stored>>
    BY EngineBounds DEF redis_fails, Fails
<1>2. ReplyOK(reply')
    BY <1>1 DEF PoweredWasAnswered, ReplyOK
<1>3. CASE /\ work[w].at = "idle" /\ Request
           /\ Starts(w, "analyze", "load")
  <2>1. RateLimited' /\ WindowArmed' /\ admitted' =< rate'.count
      BY <1>1 DEF RateLimited, WindowArmed
  <2>2. PICK x : /\ x = [Idle EXCEPT !.at = "load", !.kind = "analyze", !.run = requests']
                 /\ work' = [work EXCEPT ![w] = x]
      BY <1>3 DEF Starts
  <2> QED
      BY <1>1, <1>2, <1>3, <2>1, <2>2, RequestBegins
<1>4. CASE /\ work[w].at = "expire" /\ UNCHANGED requests
           /\ work' = [work EXCEPT ![w].at = "load"]
  <2> DEFINE x == [work[w] EXCEPT !.at = "load"]
  <2>1. work[w] \in Work /\ WorkOK(work[w])
      BY WorkIsOK
  <2>2. /\ x \in Work /\ x.at = "load" /\ x.run = work[w].run
        /\ x.model = work[w].model /\ x.data = work[w].data /\ x.before = work[w].before
      BY <2>1 DEF Work
  <2>3. WorkOK(x)
      BY <1>4, <2>1, <2>2 DEF WorkOK
  <2>4. work' = [work EXCEPT ![w] = x]
      BY <1>4
  <2>5. UNCHANGED <<connector_vars, rate, admitted, market, stored>>
      BY <1>1, <1>4 DEF connector_vars
  <2> HIDE DEF x
  <2> QED
      BY <1>1, <1>2, <1>4, <2>2, <2>3, <2>4, <2>5, RequestMoves
<1> QED
    BY <1>3, <1>4 DEF redis_fails

\* The window ends, and its count with it.
LEMMA WindowInv == EngineInv /\ window_ends => EngineInv'
<1> SUFFICES ASSUME EngineInv, window_ends PROVE EngineInv'
    OBVIOUS
<1> USE DEF EngineInv, EngineSafe, EngineTypeOK
<1>1. ConnectorInv'
    BY ConnectorsKept DEF window_ends
<1>2. RateLimited' /\ WindowArmed' /\ admitted' =< rate'.count
    BY EngineBounds DEF window_ends, NoKey, RateLimited, WindowArmed
<1>3. EngineTypeOK'
    BY <1>1 DEF window_ends, NoKey, ConnectorInv
<1>4. AnswerInv' /\ RunInv' /\ MarketInv'
    BY DEF window_ends, connector_vars, AnswerInv, RunInv, MarketInv, TakesAway
<1>5. PoweredWasAnswered' /\ MarketReplaced' /\ NewestKept'
    BY DEF window_ends, PoweredWasAnswered, MarketReplaced, NewestKept
<1> QED
    BY <1>1, <1>2, <1>3, <1>4, <1>5

\* The connectors are administered: nothing of the engine changes.
LEMMA AdministrationInv ==
  ASSUME EngineInv, ConnectorInv', UNCHANGED engine_vars, requests =< requests'
  PROVE  EngineInv'
<1> USE DEF EngineInv, EngineSafe, EngineTypeOK, ConnectorTypeOK, engine_vars
<1>1. EngineTypeOK'
    BY DEF ConnectorInv
<1>2. RunInv'
  <2>1. requests \in Nat /\ requests' \in Nat /\ requests =< requests'
      BY DEF ConnectorInv
  <2>2. \A i \in DOMAIN stored : stored[i].run \in 1..requests
      BY StoredRuns
  <2>3. \A v \in Workers : work[v].at # "idle" => work[v].run \in 1..requests'
    <3>1. \A v \in Workers : work[v].at # "idle" => work[v].run \in 1..requests
        BY DEF RunInv
    <3>2. \A n \in 1..requests : n \in 1..requests'
        BY <2>1
    <3> QED
        BY <3>1, <3>2
  <2>4. \A i \in DOMAIN stored : stored[i].run =< requests'
      BY <2>1, <2>2
  <2> QED
      BY <2>3, <2>4 DEF RunInv
<1>3. AnswerInv' /\ MarketInv'
    BY DEF AnswerInv, MarketInv, TakesAway
<1>4. /\ RateLimited' /\ WindowArmed' /\ PoweredWasAnswered'
      /\ MarketReplaced' /\ NewestKept'
    BY DEF RateLimited, WindowArmed, PoweredWasAnswered, MarketReplaced, NewestKept
<1> QED
    BY <1>1, <1>2, <1>3, <1>4

\* Operations on the connectors never reuse the number of a request.
LEMMA RequestsGrow == ConnectorInv /\ ConnectorNext => requests =< requests'
<1> SUFFICES ASSUME ConnectorInv, ConnectorNext PROVE requests =< requests'
    OBVIOUS
<1>1. requests \in Nat
    BY DEF ConnectorInv, ConnectorTypeOK
<1>2. requests' = requests \/ Request
    BY ZenonT(60) DEF ConnectorNext, create_connector, configure_connector, approve_connector,
       delete_connector, toggle_select, toggle_update, ai_suggest_connectors,
       suggest_select, suggest_commit, suggest_fails
<1> QED
    BY <1>1, <1>2 DEF Request

\* Every step keeps the invariant of the engine.
LEMMA EngineNextInv == EngineInv /\ [AnalysisNext]_all_vars => EngineInv'
<1> SUFFICES ASSUME EngineInv, [AnalysisNext]_all_vars PROVE EngineInv'
    OBVIOUS
<1>1. CASE UNCHANGED all_vars
  <2>1. UNCHANGED connector_vars /\ UNCHANGED engine_vars /\ requests' = requests
      BY <1>1 DEF all_vars, connector_vars, engine_vars
  <2>2. requests =< requests'
      BY <2>1 DEF EngineInv, ConnectorInv, ConnectorTypeOK
  <2> QED
      BY <2>1, <2>2, ConnectorsKept, AdministrationInv DEF EngineInv
<1>2. CASE ConnectorNext /\ UNCHANGED engine_vars
    BY <1>2, ConnectorsNext, RequestsGrow, AdministrationInv DEF EngineInv
<1>3. CASE window_ends
    BY <1>3, WindowInv
<1>4. ASSUME NEW w \in Workers, EngineStep(w) PROVE EngineInv'
    BY <1>4, ExpiryInv, LoadInv, SkipInv, AnswersInv, NoneLeftInv, DeleteBegunInv,
       DeleteEndedInv, CommitInv, StoreInv DEF EngineStep
<1>5. ASSUME NEW w \in Workers,
             \/ analyze_begins(w) \/ get_playbook_analysis(w) \/ redis_fails(w)
             \/ EngineStep(w) \/ abort(w)
      PROVE  EngineInv'
    BY <1>4, <1>5, AnalyzeInv, PlaybookInv, RedisFailsInv, AbortInv
<1> QED
    BY <1>1, <1>2, <1>3, <1>5 DEF AnalysisNext, EngineNext

\* EngineInvariance: what EngineInv says of the limit, the requests under way and
\* the rows they have taken away holds in every reachable state.
THEOREM EngineInvariance == EngineSpec => []EngineInv
<1>1. EngineInit => EngineInv
    BY EngineInitInv
<1>2. EngineInv /\ [AnalysisNext]_all_vars => EngineInv'
    BY EngineNextInv
<1> QED
    BY <1>1, <1>2, PTL DEF EngineSpec

\* EngineCorrect: analyze lets no more requests through than the limit between two
\* ends of the window; a response carries the data of the model it names; and an
\* analysis that has committed has replaced what the market table held before its
\* DELETE, for any number of workers, connectors and failures.
THEOREM EngineCorrect == EngineSpec => []EngineSafe
<1>1. EngineInv => EngineSafe
    BY DEF EngineInv
<1> QED
    BY <1>1, EngineInvariance, PTL

\* SuggestedVetted: a connector the AI suggested is in use only if an administrator
\* has approved it at some time, however toggles and decisions interleave.
THEOREM SuggestedVetted == EngineSpec => []SuggestedWasVetted
<1>1. EngineInv => SuggestedWasVetted
    BY DEF EngineInv, ConnectorInv
<1> QED
    BY <1>1, EngineInvariance, PTL
=============================================================================
