------------------------ MODULE CustomerAccountsProofs ------------------------
(***************************************************************************)
(* Proofs about CustomerAccounts, for any emails, seed data and number of  *)
(* registrations, readers and wizards.                                     *)
(*                                                                         *)
(* AccountsSafe is not inductive: that the id a registration inserts is    *)
(* still free is what the lock buys.  AccountsInv says so: one call at     *)
(* most has the lock, and the id it has computed names no customer, for    *)
(* nothing that is done without the lock stores one.                       *)
(***************************************************************************)
EXTENDS CustomerAccounts, TLAPS

\* What a call of register_customer has established when it is where it is.
CallOK(c) ==
  /\ call[c].at # "idle" => call[c].email \in Emails
  /\ call[c].at # "done" => call[c].answer = None
  /\ call[c].at = "insert" => call[c].id \in Ids /\ customers[call[c].id] = "absent"
  /\ call[c].answer = "created" => call[c].id \in Ids

OneHolder == \A c, d \in Holding : c = d

ReadersOK == \A r \in Readers : reader[r].at # "idle" => reader[r].id \in Ids

AccountsInv ==
  /\ TypeOK
  /\ ReadersOK
  /\ \A c \in Calls : CallOK(c)
  /\ OneHolder
  /\ WholeAccounts
  /\ RefusedWasTaken
  /\ CreatedIsStored

-----------------------------------------------------------------------------
(* Lemmas.                                                                 *)

\* The fields of a well-typed call.
LEMMA Typed ==
  ASSUME TypeOK, NEW c \in Calls
  PROVE  /\ call[c] \in Call
         /\ call[c].at \in CallSteps
         /\ call[c].email \in Emails \union {None}
         /\ call[c].id \in Ids \union {None}
         /\ call[c].answer \in CallAnswers
BY DEF TypeOK, Call

LEMMA IdleTyped == Idle \in Call
BY DEF Idle, Call, CallSteps, CallAnswers

LEMMA RestingTyped == Resting \in Reader
BY DEF Resting, Reader

LEMMA InitInv == Init => AccountsInv
<1> SUFFICES ASSUME Init PROVE AccountsInv
  OBVIOUS
<1>1. TypeOK
  <2>1. customers \in [Ids -> {"absent", "open", "complete"}]
    BY DEF Init
  <2>2. features \in SUBSET Ids /\ auth \in [Emails -> Ids \union {None}]
    BY SeedAssumption DEF Init
  <2>3. 0 \in Version /\ wizards \in 0..MaxWizards
    BY BoundsAssumption DEF Version, Init
  <2>4. profiles \in [Ids -> Version \union {None}] /\ cache \in [Ids -> Version \union {None}]
    BY <2>3 DEF Init
  <2>5. call \in [Calls -> Call] /\ reader \in [Readers -> Reader]
    BY IdleTyped, RestingTyped DEF Init
  <2> QED
    BY <2>1, <2>2, <2>3, <2>4, <2>5 DEF TypeOK
<1>2. \A c \in Calls : call[c].at = "idle" /\ call[c].answer = None
  BY DEF Init, Idle
<1>3. (\A c \in Calls : CallOK(c)) /\ OneHolder /\ RefusedWasTaken /\ CreatedIsStored
  BY <1>2, NoneAssumption
     DEF CallOK, OneHolder, Holding, RefusedWasTaken, CreatedIsStored
<1>4. WholeAccounts
  BY SeedAssumption DEF Init, WholeAccounts, Known
<1>5. ReadersOK
  BY DEF Init, Resting, ReadersOK
<1> QED
  BY <1>1, <1>3, <1>4, <1>5 DEF AccountsInv

\* One call moves, and is not answered "created"; the tables stay.
LEMMA MoveStep ==
  ASSUME AccountsInv, UNCHANGED <<rows, profiles, cache, reader, wizards>>,
         NEW c \in Calls, NEW q \in Call, call' = [call EXCEPT ![c] = q],
         q.at # "idle" => q.email \in Emails,
         q.at # "done" => q.answer = None,
         q.at = "insert" => q.id \in Ids /\ customers[q.id] = "absent",
         q.at \in {"number", "insert"} => Holding \subseteq {c},
         q.answer # "created",
         q.answer \in {"taken", "refused"} => auth[q.email] # None
  PROVE  AccountsInv'
<1>1. call \in [Calls -> Call]
  BY DEF AccountsInv, TypeOK
<1>2. /\ call' \in [Calls -> Call] /\ call'[c] = q
      /\ \A d \in Calls : d # c => call'[d] = call[d]
  BY <1>1
<1>3. /\ customers' = customers /\ features' = features /\ auth' = auth
      /\ profiles' = profiles /\ cache' = cache /\ reader' = reader /\ wizards' = wizards
  BY DEF rows
<1>4. TypeOK' /\ ReadersOK'
  BY <1>2, <1>3 DEF AccountsInv, TypeOK, ReadersOK
<1>5. \A d \in Calls : CallOK(d)'
  BY <1>2, <1>3 DEF AccountsInv, CallOK
<1>6. OneHolder'
  BY <1>2 DEF AccountsInv, OneHolder, Holding
<1>7. WholeAccounts'
  BY <1>3 DEF AccountsInv, WholeAccounts, Known
<1>8. RefusedWasTaken'
  BY <1>2, <1>3 DEF AccountsInv, RefusedWasTaken
<1>9. CreatedIsStored'
  BY <1>2, <1>3 DEF AccountsInv, CreatedIsStored
<1> QED
  BY <1>4, <1>5, <1>6, <1>7, <1>8, <1>9 DEF AccountsInv

\* An answer other than "created".
LEMMA AnswerStep ==
  ASSUME AccountsInv, UNCHANGED <<rows, profiles, cache, reader, wizards>>,
         NEW c \in Calls, NEW answer \in CallAnswers \ {"created"}, Answered(c, answer),
         call[c].at # "idle",
         answer \in {"taken", "refused"} => auth[call[c].email] # None
  PROVE  AccountsInv'
<1> DEFINE q == [call[c] EXCEPT !.at = "done", !.answer = answer]
<1>1. call[c] \in Call /\ call[c].email \in Emails /\ call \in [Calls -> Call]
  BY DEF AccountsInv, TypeOK, CallOK
<1>2. "done" \in CallSteps
  BY DEF CallSteps
<1>3. q \in Call
  BY <1>1, <1>2, Zenon DEF Call
<1>4. q.at = "done" /\ q.email = call[c].email /\ q.answer = answer
  BY <1>1 DEF Call
<1>5. call' = [call EXCEPT ![c] = q]
  BY Zenon DEF Answered
<1> HIDE DEF q
<1> QED
  BY <1>1, <1>3, <1>4, <1>5, MoveStep

\* The tables a login or a wizard writes hold the same customers and logins.
LEMMA TablesStep ==
  ASSUME AccountsInv, TypeOK', ReadersOK', auth' = auth, call' = call,
         features \subseteq features',
         \A i \in Ids : customers'[i] = "absent" <=> customers[i] = "absent"
  PROVE  AccountsInv'
<1>1. \A c \in Calls : CallOK(c)'
  BY DEF AccountsInv, CallOK
<1>2. OneHolder' /\ RefusedWasTaken' /\ CreatedIsStored'
  BY DEF AccountsInv, OneHolder, Holding, RefusedWasTaken, CreatedIsStored
<1>3. WholeAccounts'
  <2>1. \A e \in Emails : auth[e] # None => auth[e] \in Ids
    BY DEF AccountsInv, TypeOK
  <2> QED
    BY <2>1 DEF AccountsInv, WholeAccounts, Known
<1> QED
  BY <1>1, <1>2, <1>3 DEF AccountsInv

-----------------------------------------------------------------------------
(* The steps.                                                              *)

LEMMA CheckStep ==
  ASSUME AccountsInv, NEW c \in Calls, NEW e \in Emails, Check(c, e)
  PROVE  AccountsInv'
<1> DEFINE q == [at |-> IF auth[e] # None THEN "done" ELSE "alter",
                 email |-> e, id |-> None,
                 answer |-> IF auth[e] # None THEN "taken" ELSE None]
<1>1. q \in Call
  BY DEF Call, CallSteps, CallAnswers
<1>2. call' = [call EXCEPT ![c] = q] /\ UNCHANGED <<rows, profiles, cache, reader, wizards>>
  BY DEF Check
<1> QED
  BY <1>1, <1>2, MoveStep, NoneAssumption

LEMMA AlterStep ==
  ASSUME AccountsInv, NEW c \in Calls, Alter(c)
  PROVE  AccountsInv'
<1> DEFINE q == [call[c] EXCEPT !.at = "number"]
<1>1. /\ call[c] \in Call /\ call \in [Calls -> Call] /\ call[c].at = "alter"
      /\ CallOK(c)
  BY DEF AccountsInv, TypeOK, Alter
<1>2. "number" \in CallSteps
  BY DEF CallSteps
<1>3. q \in Call
  BY <1>1, <1>2, Zenon DEF Call
<1>4. q.at = "number" /\ q.email = call[c].email /\ q.answer = call[c].answer
  BY <1>1 DEF Call
<1>5. call' = [call EXCEPT ![c] = q] /\ UNCHANGED <<rows, profiles, cache, reader, wizards>>
  BY Zenon DEF Alter
<1>6. Holding = {}
  BY DEF Alter, Unlocked
<1> HIDE DEF q
<1> QED
  BY <1>1, <1>3, <1>4, <1>5, <1>6, MoveStep, NoneAssumption DEF CallOK

LEMMA NumberStep ==
  ASSUME AccountsInv, NEW c \in Calls, NEW n \in Ids, Number(c, n)
  PROVE  AccountsInv'
<1> DEFINE q == [call[c] EXCEPT !.at = "insert", !.id = n]
<1>1. /\ call[c] \in Call /\ call \in [Calls -> Call] /\ call[c].at = "number"
      /\ CallOK(c)
  BY DEF AccountsInv, TypeOK, Number
<1>2. "insert" \in CallSteps
  BY DEF CallSteps
<1>3. q \in Call
  BY <1>1, <1>2, Zenon DEF Call
<1>4. /\ q.at = "insert" /\ q.email = call[c].email /\ q.answer = call[c].answer
      /\ q.id = n
  BY <1>1 DEF Call
<1>5. call' = [call EXCEPT ![c] = q] /\ UNCHANGED <<rows, profiles, cache, reader, wizards>>
  BY Zenon DEF Number
<1>6. customers[n] = "absent"
  <2>1. n \notin Known
    BY BoundsAssumption DEF Number, IsNext, Ids
  <2> QED
    BY <2>1 DEF Known
<1>7. Holding \subseteq {c}
  BY <1>1 DEF AccountsInv, OneHolder, Holding
<1> HIDE DEF q
<1> QED
  BY <1>1, <1>3, <1>4, <1>5, <1>6, <1>7, MoveStep, NoneAssumption DEF CallOK

\* Only the holder of the lock stores a customer, and the id it has is free.
LEMMA CreateStep ==
  ASSUME AccountsInv, NEW c \in Calls, Create(c)
  PROVE  AccountsInv'
<1> PICK i, e : i = call[c].id /\ e = call[c].email
  OBVIOUS
<1>1. /\ TypeOK /\ call[c].at = "insert" /\ c \in Holding
      /\ i \in Ids /\ e \in Emails /\ customers[i] = "absent" /\ auth[e] = None
  BY DEF AccountsInv, CallOK, Create, Accepted, Holding
<1>2. /\ customers' = [customers EXCEPT ![i] = "open"]
      /\ features' = features \union {i}
      /\ auth' = [auth EXCEPT ![e] = i]
      /\ profiles' = profiles /\ cache' = cache /\ reader' = reader /\ wizards' = wizards
  BY DEF Create
<1>3. PICK answer \in {"created", "lost"} : Answered(c, answer)
  BY DEF Create
<1> DEFINE q == [call[c] EXCEPT !.at = "done", !.answer = answer]
<1>4. call[c] \in Call /\ call \in [Calls -> Call]
  BY <1>1 DEF TypeOK
<1>5. "done" \in CallSteps /\ answer \in CallAnswers
  BY DEF CallSteps, CallAnswers
<1>6. q \in Call
  BY <1>4, <1>5, Zenon DEF Call
<1>7. q.at = "done" /\ q.email = e /\ q.id = i /\ q.answer = answer
  BY <1>4 DEF Call
<1>8. call' = [call EXCEPT ![c] = q]
  BY <1>3, Zenon DEF Answered
<1>9. /\ call' \in [Calls -> Call] /\ call'[c] = q
      /\ \A d \in Calls : d # c => call'[d] = call[d]
  <2> HIDE DEF q
  <2> QED
    BY <1>4, <1>6, <1>8
<1> HIDE DEF q
<1>10. TypeOK' /\ ReadersOK'
  <2>1. /\ customers' \in [Ids -> {"absent", "open", "complete"}]
        /\ features' \in SUBSET Ids /\ auth' \in [Emails -> Ids \union {None}]
    BY <1>1, <1>2 DEF TypeOK
  <2> QED
    BY <1>1, <1>2, <1>9, <2>1 DEF TypeOK, AccountsInv, ReadersOK
<1>11. /\ customers'[i] = "open" /\ \A j \in Ids : j # i => customers'[j] = customers[j]
       /\ auth'[e] = i /\ \A f \in Emails : f # e => auth'[f] = auth[f]
  BY <1>1, <1>2 DEF TypeOK
<1>12. i # None /\ i \in Int
  BY <1>1, BoundsAssumption, NoneAssumption DEF Ids
<1>13. \A f \in Emails : auth[f] # i
  BY <1>1, <1>12 DEF AccountsInv, WholeAccounts
<1>14. ASSUME NEW d \in Calls PROVE CallOK(d)'
  <2>1. CASE d = c
    BY <1>1, <1>7, <1>9, <2>1 DEF CallOK
  <2>2. CASE d # c
    <3>1. call'[d] = call[d] /\ call[d].at # "insert" /\ CallOK(d)
      BY <1>1, <1>9, <2>2 DEF AccountsInv, OneHolder, Holding
    <3> QED
      BY <3>1 DEF CallOK
  <2> QED
    BY <2>1, <2>2
<1>15. OneHolder'
  BY <1>7, <1>9 DEF AccountsInv, OneHolder, Holding
<1>16. WholeAccounts'
  <2>1. ASSUME NEW f \in Emails, auth'[f] # None
        PROVE  /\ customers'[auth'[f]] # "absent" /\ auth'[f] \in features'
               /\ \A g \in Emails : auth'[g] = auth'[f] => g = f
    <3>1. CASE f = e
      BY <1>2, <1>11, <1>13, <3>1
    <3>2. CASE f # e
      <4>1. auth'[f] = auth[f] /\ auth[f] # None /\ auth[f] # i /\ auth[f] \in Ids
        BY <1>1, <1>11, <1>13, <2>1, <3>2 DEF TypeOK
      <4> QED
        BY <1>2, <1>11, <4>1 DEF AccountsInv, WholeAccounts
    <3> QED
      BY <3>1, <3>2
  <2>2. ASSUME NEW j \in Ids, customers'[j] # "absent", j \notin Seeded
        PROVE  \E f \in Emails : auth'[f] = j
    <3>1. CASE j = i
      BY <1>1, <1>11, <3>1
    <3>2. CASE j # i
      <4>1. j \in Known \ Seeded
        BY <1>11, <2>2, <3>2 DEF Known
      <4>2. PICK f \in Emails : auth[f] = j
        BY <4>1 DEF AccountsInv, WholeAccounts
      <4>3. f # e
        BY <1>1, <2>2, <4>2, BoundsAssumption, NoneAssumption DEF Ids
      <4> QED
        BY <1>11, <4>2, <4>3
    <3> QED
      BY <3>1, <3>2
  <2> QED
    BY <2>1, <2>2 DEF WholeAccounts, Known
<1>17. RefusedWasTaken'
  <2> SUFFICES ASSUME NEW d \in Calls, call'[d].answer \in {"taken", "refused"}
               PROVE  auth'[call'[d].email] # None
    BY DEF RefusedWasTaken
  <2>1. d # c
    BY <1>3, <1>7, <1>9
  <2>2. call'[d] = call[d] /\ auth[call[d].email] # None
    BY <1>9, <2>1 DEF AccountsInv, RefusedWasTaken
  <2>3. call[d].email \in Emails
    <3>1. call[d].at # "idle"
      BY <2>2, NoneAssumption DEF AccountsInv, CallOK
    <3> QED
      BY <3>1 DEF AccountsInv, CallOK
  <2> QED
    BY <1>1, <1>11, <2>2, <2>3
<1>18. CreatedIsStored'
  <2>1. ASSUME NEW d \in Calls, d # c, call'[d].answer = "created"
        PROVE  /\ auth'[call'[d].email] = call'[d].id /\ call'[d].id # i
               /\ auth[call[d].email] = call[d].id
    <3>1. call'[d] = call[d] /\ auth[call[d].email] = call[d].id
      BY <1>9, <2>1 DEF AccountsInv, CreatedIsStored
    <3>2. call[d].email \in Emails /\ call[d].id \in Ids
      BY <2>1, <3>1, NoneAssumption DEF AccountsInv, CallOK
    <3>3. call[d].email # e
      BY <1>1, <3>1, <3>2, BoundsAssumption, NoneAssumption DEF Ids
    <3> QED
      BY <1>11, <1>13, <3>1, <3>2, <3>3
  <2>2. \A d, g \in Calls : d # c /\ g # c /\ call'[d].answer = "created"
          /\ call'[g].answer = "created" /\ call'[g].id = call'[d].id => g = d
    BY <1>9 DEF AccountsInv, CreatedIsStored
  <2>3. call'[c].id = i /\ call'[c].email = e /\ auth'[e] = i
    BY <1>7, <1>9, <1>11
  <2>4. ASSUME NEW d \in Calls, call'[d].answer = "created"
        PROVE  /\ auth'[call'[d].email] = call'[d].id
               /\ \A g \in Calls :
                    call'[g].answer = "created" /\ call'[g].id = call'[d].id => g = d
    BY <2>1, <2>2, <2>3, <2>4
  <2> QED
    BY <2>4 DEF CreatedIsStored
<1> QED
  BY <1>10, <1>14, <1>15, <1>16, <1>17, <1>18 DEF AccountsInv

\* A constraint refuses only an email that was stored since it was looked for.
LEMMA RefuseStep ==
  ASSUME AccountsInv, NEW c \in Calls, Refuse(c)
  PROVE  AccountsInv'
<1>1. call[c].at = "insert" /\ customers[call[c].id] = "absent"
  BY DEF AccountsInv, CallOK, Refuse
<1>2. auth[call[c].email] # None
  BY <1>1 DEF Refuse, Accepted
<1>3. "refused" \in CallAnswers \ {"created"}
  BY DEF CallAnswers
<1> QED
  BY <1>1, <1>2, <1>3, AnswerStep DEF Refuse

LEMMA LoseStep ==
  ASSUME AccountsInv, NEW c \in Calls, Lose(c)
  PROVE  AccountsInv'
<1>1. "lost" \in CallAnswers \ {"created"}
  BY DEF CallAnswers
<1> QED
  BY <1>1, AnswerStep DEF Lose

LEMMA LoginStep ==
  ASSUME AccountsInv, NEW e \in Emails, Login(e)
  PROVE  AccountsInv'
<1>1. auth[e] \in Ids
  BY DEF AccountsInv, TypeOK, Login
<1>2. /\ customers' = [customers EXCEPT ![auth[e]] = "complete"]
      /\ customers[auth[e]] # "absent"
  BY DEF Login
<1>3. TypeOK' /\ ReadersOK'
  BY <1>1, <1>2 DEF AccountsInv, TypeOK, ReadersOK, Login
<1> QED
  BY <1>1, <1>2, <1>3, TablesStep DEF Login, AccountsInv, TypeOK

LEMMA WizardStep ==
  ASSUME AccountsInv, NEW i \in Ids, WizardInFull(i) \/ WizardInPart(i)
  PROVE  AccountsInv'
<1>1. Answers(i)
  BY DEF WizardInFull, WizardInPart
<1>2. /\ wizards' \in 0..MaxWizards
      /\ profiles' \in [Ids -> Version \union {None}]
  <2>1. /\ wizards \in 0..MaxWizards
        /\ profiles \in [Ids -> Version \union {None}]
    BY DEF AccountsInv, TypeOK
  <2>2. CASE WizardInFull(i)
    <3>1. wizards + 1 \in Version /\ wizards + 1 \in 0..MaxWizards
      BY <2>1, <2>2, BoundsAssumption DEF WizardInFull, Version
    <3> QED
      BY <2>1, <2>2, <3>1 DEF WizardInFull
  <2>3. CASE WizardInPart(i)
    BY <2>1, <2>3 DEF WizardInPart
  <2> QED
    BY <2>2, <2>3
<1>3. TypeOK' /\ ReadersOK'
  BY <1>1, <1>2 DEF AccountsInv, TypeOK, ReadersOK, Answers
<1> QED
  BY <1>1, <1>3, TablesStep DEF Answers, AccountsInv, TypeOK

\* get_profile and the expiry of its entries leave the accounts alone.
LEMMA ProfileStep ==
  ASSUME AccountsInv,
         \/ \E r \in Readers, i \in Ids : Get(r, i)
         \/ \E r \in Readers : Select(r) \/ Set(r) \/ GiveUp(r)
         \/ \E i \in Ids : Expire(i)
  PROVE  AccountsInv'
<1>1. /\ reader \in [Readers -> Reader] /\ ReadersOK
      /\ cache \in [Ids -> Version \union {None}]
      /\ profiles \in [Ids -> Version \union {None}]
  BY DEF AccountsInv, TypeOK
<1>2. UNCHANGED <<rows, profiles, call, wizards>>
  BY DEF Get, Select, Set, GiveUp, Expire
<1> DEFINE Kept == /\ reader' \in [Readers -> Reader] /\ ReadersOK'
                   /\ cache' \in [Ids -> Version \union {None}]
<1>3. ASSUME NEW r \in Readers, NEW q \in Reader, reader' = [reader EXCEPT ![r] = q],
             q.at # "idle" => q.id \in Ids, cache' \in [Ids -> Version \union {None}]
      PROVE  Kept
  BY <1>1, <1>3 DEF ReadersOK
<1>4. ASSUME NEW r \in Readers, NEW i \in Ids, Get(r, i) PROVE Kept
  <2>1. [at |-> "select", id |-> i, row |-> None] \in Reader
    BY DEF Reader
  <2> QED
    BY <1>1, <1>3, <1>4, <2>1 DEF Get
<1>5. ASSUME NEW r \in Readers, Select(r) PROVE Kept
  <2>1. reader[r] \in Reader /\ reader[r].id \in Ids /\ cache' = cache
    BY <1>1, <1>5 DEF Select, ReadersOK
  <2>2. PICK v \in Version \union {None} : v = profiles[reader[r].id]
    BY <1>1, <2>1
  <2>3. CASE v = None
    BY <1>1, <1>3, <1>5, <2>1, <2>2, <2>3, RestingTyped DEF Select, Resting
  <2>4. CASE v # None
    <3> DEFINE q == [reader[r] EXCEPT !.at = "set", !.row = v]
    <3>1. "set" \in {"idle", "select", "set"}
      OBVIOUS
    <3>2. q \in Reader
      BY <2>1, <3>1, Zenon DEF Reader
    <3>3. q.id \in Ids
      BY <2>1 DEF Reader
    <3>4. reader' = [reader EXCEPT ![r] = q]
      BY <1>5, <2>2, <2>4 DEF Select
    <3> HIDE DEF q
    <3> QED
      BY <1>1, <1>3, <2>1, <3>2, <3>3, <3>4
  <2> QED
    BY <2>3, <2>4
<1>6. ASSUME NEW r \in Readers, Set(r) PROVE Kept
  <2>1. reader[r] \in Reader /\ reader[r].id \in Ids
    BY <1>1, <1>6 DEF Set, ReadersOK
  <2>2. cache' \in [Ids -> Version \union {None}]
    BY <1>1, <1>6, <2>1 DEF Set, Reader
  <2> QED
    BY <1>3, <1>6, <2>2, RestingTyped DEF Set, Resting
<1>7. ASSUME NEW r \in Readers, GiveUp(r) PROVE Kept
  BY <1>1, <1>3, <1>7, RestingTyped DEF GiveUp, Resting
<1>8. ASSUME NEW i \in Ids, Expire(i) PROVE Kept
  BY <1>1, <1>8 DEF Expire, ReadersOK
<1>9. Kept
  BY <1>4, <1>5, <1>6, <1>7, <1>8
<1>10. TypeOK'
  BY <1>2, <1>9 DEF rows, AccountsInv, TypeOK
<1> QED
  BY <1>2, <1>9, <1>10, TablesStep DEF rows, AccountsInv, TypeOK

LEMMA NextInv == AccountsInv /\ [Next]_vars => AccountsInv'
<1> SUFFICES ASSUME AccountsInv, [Next]_vars PROVE AccountsInv'
  OBVIOUS
<1>1. ASSUME NEW c \in Calls, Register(c) PROVE AccountsInv'
  BY <1>1, CheckStep, AlterStep, NumberStep, CreateStep, RefuseStep DEF Register
<1>2. ASSUME NEW c \in Calls, Lose(c) PROVE AccountsInv'
  BY <1>2, LoseStep
<1>3. ASSUME NEW e \in Emails, Login(e) PROVE AccountsInv'
  BY <1>3, LoginStep
<1>4. ASSUME NEW i \in Ids, WizardInFull(i) \/ WizardInPart(i) PROVE AccountsInv'
  BY <1>4, WizardStep
<1>5. ASSUME NEW i \in Ids, Expire(i) PROVE AccountsInv'
  BY <1>5, ProfileStep
<1>6. ASSUME NEW r \in Readers, (\E i \in Ids : Get(r, i)) \/ Select(r) \/ Set(r) \/ GiveUp(r)
      PROVE  AccountsInv'
  BY <1>6, ProfileStep
<1>7. CASE UNCHANGED vars
  <2>1. /\ customers' = customers /\ features' = features /\ auth' = auth
        /\ call' = call /\ profiles' = profiles /\ cache' = cache
        /\ reader' = reader /\ wizards' = wizards
    BY <1>7 DEF vars
  <2>2. TypeOK' /\ ReadersOK'
    BY <2>1 DEF AccountsInv, TypeOK, ReadersOK
  <2> QED
    BY <2>1, <2>2, TablesStep
<1> QED
  BY <1>1, <1>2, <1>3, <1>4, <1>5, <1>6, <1>7 DEF Next

-----------------------------------------------------------------------------
(* Theorems.                                                               *)

\* The strengthening holds of every reachable state.
THEOREM AccountsInvariance == Spec => []AccountsInv
<1> QED
  BY InitInv, NextInv, PTL DEF Spec

\* AccountsCorrect: the three tables of an account and the answers of
\* register_customer agree in every state, for any number of registrations.
THEOREM AccountsCorrect == Spec => []AccountsSafe
<1>1. AccountsInv => AccountsSafe
  BY DEF AccountsInv, AccountsSafe
<1> QED
  BY <1>1, AccountsInvariance, PTL

\* IdsNeverCollide: the customer_id that a registration is about to insert is free;
\* two registrations never insert the same one (MAX + 1 in register_customer).
THEOREM IdsNeverCollide ==
  Spec => [](\A c \in Calls : call[c].at = "insert" =>
               /\ customers[call[c].id] = "absent"
               /\ \A d \in Calls : call[d].at = "insert" => d = c)
<1>1. AccountsInv => \A c \in Calls : call[c].at = "insert" =>
                       /\ customers[call[c].id] = "absent"
                       /\ \A d \in Calls : call[d].at = "insert" => d = c
  BY DEF AccountsInv, CallOK, OneHolder, Holding
<1> QED
  BY <1>1, AccountsInvariance, PTL
=============================================================================
