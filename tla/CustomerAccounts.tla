-------------------------- MODULE CustomerAccounts --------------------------
(***************************************************************************)
(* routers/customer_auth.py and routers/profiles.py: customers register,   *)
(* log in and answer the onboarding wizard, in PostgreSQL; the profile the *)
(* wizard computes is served through a cache in Redis.                     *)
(*                                                                         *)
(* Every handler of customer_auth.py begins with an ALTER TABLE customers, *)
(* which takes an ACCESS EXCLUSIVE lock and keeps it to the end of the     *)
(* transaction although the column exists.  Only the SELECT of the email   *)
(* that register_customer makes first is outside of it.  A handler that is *)
(* inside the lock from its first statement is one action.                 *)
(***************************************************************************)
EXTENDS Integers, FiniteSets

CONSTANTS
  Emails,        \* hashes of email addresses
  Seeded,        \* customers the seed data stores
  SeededAuth,    \* their logins: email -> customer_id
  Calls,         \* calls of register_customer
  Readers,       \* calls of get_profile, one after the other
  None,          \* no row, no entry
  MaxCustomer,   \* bound: the largest customer_id
  MaxWizards     \* bound: wizards that store a profile

Ids == 1..MaxCustomer

ASSUME NoneAssumption ==
  None \notin Int \union {"created", "taken", "refused", "lost"}
ASSUME BoundsAssumption == MaxCustomer \in Nat /\ MaxWizards \in Nat
ASSUME SeedAssumption ==
  /\ Seeded \subseteq Ids
  /\ SeededAuth \in [Emails -> Seeded \union {None}]
  /\ \A e, f \in Emails :
       SeededAuth[e] = SeededAuth[f] /\ SeededAuth[e] # None => e = f

VARIABLES
  customers,   \* customer_id -> "absent", "open" or "complete" onboarding
  features,    \* customer_ids with a row in customer_features
  auth,        \* customer_auth: email -> customer_id
  profiles,    \* customer_profiles: customer_id -> the wizard it is from
  cache,       \* Redis, profile:<customer_id> -> the wizard it is from
  call,        \* call -> its run of register_customer
  reader,      \* reader -> its run of get_profile
  wizards      \* wizards that stored a profile so far

rows == <<customers, features, auth>>
vars == <<customers, features, auth, profiles, cache, call, reader, wizards>>

Version == 0..MaxWizards   \* 0 is from the seed data
\* answer is None until there is one: "created" 200, "taken" 409,
\* "refused" 500 after an insert, "lost" when the connection or process is.
CallSteps == {"idle", "alter", "number", "insert", "done"}
CallAnswers == {None, "created", "taken", "refused", "lost"}
Call == [at : CallSteps, email : Emails \union {None}, id : Ids \union {None},
         answer : CallAnswers]
Idle == [at |-> "idle", email |-> None, id |-> None, answer |-> None]
Reader == [at : {"idle", "select", "set"}, id : Ids \union {None},
           row : Version \union {None}]
Resting == [at |-> "idle", id |-> None, row |-> None]

TypeOK ==
  /\ customers \in [Ids -> {"absent", "open", "complete"}]
  /\ features \in SUBSET Ids
  /\ auth \in [Emails -> Ids \union {None}]
  /\ profiles \in [Ids -> Version \union {None}]
  /\ cache \in [Ids -> Version \union {None}]
  /\ call \in [Calls -> Call]
  /\ reader \in [Readers -> Reader]
  /\ wizards \in 0..MaxWizards

Known == {i \in Ids : customers[i] # "absent"}

Init ==
  /\ customers = [i \in Ids |-> IF i \in Seeded THEN "open" ELSE "absent"]
  /\ features = Seeded
  /\ auth = SeededAuth
  /\ profiles = [i \in Ids |-> IF i \in Seeded THEN 0 ELSE None]
  /\ cache = [i \in Ids |-> None]
  /\ call = [c \in Calls |-> Idle]
  /\ reader = [r \in Readers |-> Resting]
  /\ wizards = 0

-----------------------------------------------------------------------------
(* register_customer *)

Holding == {c \in Calls : call[c].at \in {"number", "insert"}}

\* Faulty variant: the column is not added any more, and with it goes the lock.
Unlocked_Always == TRUE

Unlocked == Holding = {}

Answered(c, answer) ==
  call' = [call EXCEPT ![c].at = "done", ![c].answer = answer]

\* The SELECT of the email, before the lock is asked for.
Check(c, e) ==
  /\ call[c].at = "idle"
  /\ call' = [call EXCEPT
                ![c] = [at |-> IF auth[e] # None THEN "done" ELSE "alter",
                        email |-> e, id |-> None,
                        answer |-> IF auth[e] # None THEN "taken" ELSE None]]
  /\ UNCHANGED <<rows, profiles, cache, reader, wizards>>

\* The ALTER TABLE waits until no other transaction has the lock.
Alter(c) ==
  /\ call[c].at = "alter"
  /\ Unlocked
  /\ call' = [call EXCEPT ![c].at = "number"]
  /\ UNCHANGED <<rows, profiles, cache, reader, wizards>>

\* Faulty variant: COUNT instead of MAX.
IsNext_Count(n) == n = Cardinality(Known) + 1

\* n = MAX(customer_id) + 1
IsNext(n) == /\ \A i \in Known : i < n
             /\ n = 1 \/ n - 1 \in Known

Number(c, n) ==
  /\ call[c].at = "number"
  /\ IsNext(n)
  /\ call' = [call EXCEPT ![c].at = "insert", ![c].id = n]
  /\ UNCHANGED <<rows, profiles, cache, reader, wizards>>

\* The primary key of customers and the unique email_hash of customer_auth.
Accepted(c) == /\ customers[call[c].id] = "absent"
               /\ auth[call[c].email] = None

\* Faulty variant: the session is closed without a commit.
Create_Uncommitted(c) ==
  /\ call[c].at = "insert"
  /\ Accepted(c)
  /\ Answered(c, "created")
  /\ UNCHANGED <<rows, profiles, cache, reader, wizards>>

\* The three INSERTs and the commit; the answer may not reach the caller.
Create(c) ==
  /\ call[c].at = "insert"
  /\ Accepted(c)
  /\ customers' = [customers EXCEPT ![call[c].id] = "open"]
  /\ features' = features \union {call[c].id}
  /\ auth' = [auth EXCEPT ![call[c].email] = call[c].id]
  /\ \E answer \in {"created", "lost"} : Answered(c, answer)
  /\ UNCHANGED <<profiles, cache, reader, wizards>>

\* Faulty variant: the customer is committed before the login is stored.
Refuse_KeepsCustomer(c) ==
  /\ call[c].at = "insert"
  /\ ~Accepted(c)
  /\ customers' = [customers EXCEPT ![call[c].id] = "open"]
  /\ features' = features \union {call[c].id}
  /\ Answered(c, "refused")
  /\ UNCHANGED <<auth, profiles, cache, reader, wizards>>

\* Faulty variant: the INSERTs are tried again with the same id.
Refuse_Retries(c) ==
  /\ call[c].at = "insert"
  /\ ~Accepted(c)
  /\ UNCHANGED vars

\* A constraint refuses an INSERT: the transaction is rolled back, 500.
Refuse(c) ==
  /\ call[c].at = "insert"
  /\ ~Accepted(c)
  /\ Answered(c, "refused")
  /\ UNCHANGED <<rows, profiles, cache, reader, wizards>>

\* The connection or the process is lost, and with it the transaction.
Lose(c) ==
  /\ call[c].at \in {"alter", "number", "insert"}
  /\ Answered(c, "lost")
  /\ UNCHANGED <<rows, profiles, cache, reader, wizards>>

Register(c) == \/ \E e \in Emails : Check(c, e)
               \/ Alter(c)
               \/ \E n \in Ids : Number(c, n)
               \/ Create(c)
               \/ Refuse(c)

-----------------------------------------------------------------------------
(* The handlers that are inside the lock from their first statement. *)

\* login_customer and sso_lookup: both end the onboarding.
Login(e) ==
  /\ Unlocked
  /\ auth[e] # None
  /\ customers[auth[e]] # "absent"
  /\ customers' = [customers EXCEPT ![auth[e]] = "complete"]
  /\ UNCHANGED <<features, auth, profiles, cache, call, reader, wizards>>

\* submit_onboarding: an UPDATE of customer_features, else an INSERT.
Answers(i) ==
  /\ Unlocked
  /\ customers[i] # "absent"
  /\ customers' = [customers EXCEPT ![i] = "complete"]
  /\ features' = features \union {i}
  /\ UNCHANGED <<auth, cache, call, reader>>

\* Faulty variant: a wizard's profile is numbered past the last.
WizardInFull_Twice(i) ==
  /\ Answers(i)
  /\ wizards <= MaxWizards
  /\ wizards' = wizards + 1
  /\ profiles' = [profiles EXCEPT ![i] = wizards + 1]

\* With an age and an income it stores a new profile ...
WizardInFull(i) ==
  /\ Answers(i)
  /\ wizards < MaxWizards
  /\ wizards' = wizards + 1
  /\ profiles' = [profiles EXCEPT ![i] = wizards + 1]

\* ... and without one of them, or when build_profile fails, none.
WizardInPart(i) ==
  /\ Answers(i)
  /\ UNCHANGED <<profiles, wizards>>

-----------------------------------------------------------------------------
(* get_profile *)

\* The GET: an entry is the answer, else the table is asked.
Get(r, i) ==
  /\ reader[r].at = "idle"
  /\ cache[i] = None
  /\ reader' = [reader EXCEPT ![r] = [at |-> "select", id |-> i, row |-> None]]
  /\ UNCHANGED <<rows, profiles, cache, call, wizards>>

Select(r) ==
  /\ reader[r].at = "select"
  /\ reader' = [reader EXCEPT
                  ![r] = IF profiles[reader[r].id] = None THEN Resting
                         ELSE [@ EXCEPT !.at = "set",
                                        !.row = profiles[reader[r].id]]]
  /\ UNCHANGED <<rows, profiles, cache, call, wizards>>

\* The SET, with the row as it was when it was read.
Set(r) ==
  /\ reader[r].at = "set"
  /\ cache' = [cache EXCEPT ![reader[r].id] = reader[r].row]
  /\ reader' = [reader EXCEPT ![r] = Resting]
  /\ UNCHANGED <<rows, profiles, call, wizards>>

\* Redis or PostgreSQL does not answer, or the process is lost.
GiveUp(r) ==
  /\ reader[r].at # "idle"
  /\ reader' = [reader EXCEPT ![r] = Resting]
  /\ UNCHANGED <<rows, profiles, cache, call, wizards>>

\* Faulty variant: SET without ex.
Expire_Never(i) == FALSE /\ UNCHANGED vars

\* ex=900 seconds after the SET.
Expire(i) ==
  /\ cache[i] # None
  /\ cache' = [cache EXCEPT ![i] = None]
  /\ UNCHANGED <<rows, profiles, call, reader, wizards>>

-----------------------------------------------------------------------------
Next ==
  \/ \E c \in Calls : Register(c) \/ Lose(c)
  \/ \E e \in Emails : Login(e)
  \/ \E i \in Ids : WizardInFull(i) \/ WizardInPart(i) \/ Expire(i)
  \/ \E r \in Readers :
       \/ \E i \in Ids : Get(r, i)
       \/ Select(r) \/ Set(r) \/ GiveUp(r)

Spec == Init /\ [][Next]_vars

\* PostgreSQL grants a lock in the order it was asked for; entries expire;
\* statements are answered.  Nobody has to register, to log in or to read.
Begun(c) == call[c].at # "idle" /\ Register(c)
Fairness ==
  /\ \A c \in Calls : WF_vars(Begun(c)) /\ SF_vars(Alter(c))
  /\ \A i \in Ids : WF_vars(Expire(i))
  /\ \A r \in Readers : WF_vars(Select(r)) /\ WF_vars(Set(r))

FairSpec == Spec /\ Fairness

-----------------------------------------------------------------------------
(* Properties.                                                             *)

\* WholeAccounts: an account is a row of each of customers, customer_features and
\* customer_auth: all of them or none, and no customer has two logins.  The rows
\* are written by three statements, the last of which the unique email can still
\* refuse.
WholeAccounts ==
  /\ \A e \in Emails : auth[e] # None =>
       /\ customers[auth[e]] # "absent"
       /\ auth[e] \in features
       /\ \A f \in Emails : auth[f] = auth[e] => f = e
  /\ \A i \in Known \ Seeded : \E e \in Emails : auth[e] = i

\* RefusedWasTaken: a registration is only refused for an email that has an
\* account, never because another took the same customer_id: MAX + 1 is read
\* inside the lock that the INSERT is made in.
RefusedWasTaken ==
  \A c \in Calls :
    call[c].answer \in {"taken", "refused"} => auth[call[c].email] # None

\* CreatedIsStored: what register_customer answers, the customer_id of this email,
\* is what the tables hold from then on, and no two answers name one customer.
CreatedIsStored ==
  \A c \in Calls : call[c].answer = "created" =>
    /\ auth[call[c].email] = call[c].id
    /\ \A d \in Calls : call[d].answer = "created" /\ call[d].id = call[c].id
         => d = c

\* AccountsSafe: the tables and the answers of register_customer agree, for any
\* overlap of registrations, logins and wizards.
AccountsSafe == TypeOK /\ WholeAccounts /\ RefusedWasTaken /\ CreatedIsStored

\* CacheCatchesUp: nothing removes the entry of a profile that a wizard replaces,
\* and a reader can store the row it read before.  Yet the entry is in time gone
\* or the stored profile: it expires, and only rows read after the last wizard
\* are left to be cached.
CacheCatchesUp == \A i \in Ids : <>[](cache[i] \in {None, profiles[i]})

\* EveryCallAnswered: a registration that has passed the check is answered: whoever
\* has the lock gives it back, the refused as well.
EveryCallAnswered ==
  \A c \in Calls : call[c].at = "alter" ~> call[c].at = "done"

-----------------------------------------------------------------------------
(* What the repository says of the wizard and the code does not do.        *)

\* CompletedHasProfile: customer_auth.py:493 answers every wizard with "Your profile
\* is ready for personalized offers": one without an age stores no profile.
CompletedHasProfile ==
  [][\A i \in Ids : WizardInFull(i) \/ WizardInPart(i) => profiles'[i] # None]_vars
=============================================================================
