---------------------------- MODULE WorkflowProofs ----------------------------
(***************************************************************************)
(* Proofs about Workflow, for any finite set of requests, any data and any *)
(* bounds on the rows.                                                     *)
(*                                                                         *)
(* Two parts of WorkflowSafe are not inductive.  NoticesBounded counts     *)
(* rows that requests under way are still to write: Tally adds the         *)
(* requests that have passed their check to the rows already there, and    *)
(* the sum never grows once the form is submitted.  OneNoticePerFeedback   *)
(* needs that no two requests are about to report one feedback, and that   *)
(* what is about to be reported has not been (FeedbackInv).                *)
(***************************************************************************)
EXTENDS Workflow, FiniteSetTheorems, TLAPS

\* What a request has established when it is where it is.
CallOK(r) ==
  /\ req[r].at # "done" => req[r].answer = 0
  /\ req[r].at \in {"check_form", "update_form", "notify_employee"} =>
       /\ req[r].form # 0
       /\ req[r].data \in Data
       /\ req[r].notification = 0
  /\ req[r].at \in {"update_form", "notify_employee"} => req[r].form \in DOMAIN forms
  /\ req[r].at = "notify_employee" => forms[req[r].form].status = "submitted"
  /\ req[r].at \in {"insert_form", "mark_read", "insert_feedback", "notify_feedback"} =>
       req[r].form = 0
  /\ req[r].at = "mark_read" => req[r].notification \in DOMAIN notifications
  /\ req[r].at \in {"insert_feedback", "notify_feedback"} => req[r].notification = 0
  /\ req[r].at = "notify_feedback" =>
       req[r].feedback \in DOMAIN feedback /\ Acts(feedback[req[r].feedback])

\* What an answer of 200 promises of the form and of the notification it names.
AnswerOK(r) ==
  req[r].answer = 200 =>
    /\ req[r].form # 0 =>
         \E n \in DOMAIN notifications :
           notifications[n].action = "submitted" /\ notifications[n].of = req[r].form
    /\ req[r].notification # 0 =>
         /\ req[r].notification \in DOMAIN notifications
         /\ notifications[req[r].notification].read

CallsInv == \A r \in Requests : CallOK(r) /\ AnswerOK(r)

\* A notification is about a form that was submitted or an offer that was acted on.
NoticeOK(n) ==
  IF notifications[n].action = "submitted"
  THEN /\ notifications[n].of \in DOMAIN forms
       /\ forms[notifications[n].of].status = "submitted"
  ELSE /\ notifications[n].of \in DOMAIN feedback
       /\ Acts(feedback[notifications[n].of])
NoticesInv == \A n \in DOMAIN notifications : NoticeOK(n)

\* The requests that have yet to report form f, or are about to submit it.
Active(f) == {r \in Requests : req[r].at \in {"update_form", "notify_employee"}
                               /\ req[r].form = f}
Tally(f) == Cardinality(NoticesOf(f)) + Cardinality(Active(f))
TallyInv ==
  \A f \in DOMAIN forms : forms[f].status = "submitted" =>
    /\ Active(f) \subseteq racers[f]
    /\ Tally(f) =< Cardinality(racers[f])

\* A feedback is reported, or about to be, by at most one request.
Reports(n, i) == notifications[n].action # "submitted" /\ notifications[n].of = i
FeedbackInv ==
  /\ \A n, m \in DOMAIN notifications, i \in DOMAIN feedback :
       Reports(n, i) /\ Reports(m, i) => n = m
  /\ \A r \in Requests, n \in DOMAIN notifications :
       req[r].at = "notify_feedback" => ~Reports(n, req[r].feedback)
  /\ \A r, s \in Requests :
       req[r].at = "notify_feedback" /\ req[s].at = "notify_feedback"
       /\ req[r].feedback = req[s].feedback => r = s

WorkflowInv == TypeOK /\ CallsInv /\ NoticesInv /\ TallyInv /\ FeedbackInv

-----------------------------------------------------------------------------
(* Lemmas.                                                                 *)

\* The fields of a well-typed request.
LEMMA Typed ==
  ASSUME TypeOK, NEW r \in Requests
  PROVE  /\ req[r] \in Request
         /\ req[r].at \in Steps
         /\ req[r].form \in 0..MaxForms
         /\ req[r].notification \in 0..MaxNotifications
         /\ req[r].data \in Data \union {NoData}
         /\ req[r].feedback \in 0..MaxFeedback
         /\ req[r].answer \in Answers
BY DEF TypeOK, Request

LEMMA IdleTyped == Idle \in Request
BY BoundsAssumption DEF Idle, Request, Steps, Answers

\* A request after GoOn and after Respond.
LEMMA Moved ==
  ASSUME NEW q \in Request, NEW step \in Steps,
         NEW status \in Answers
  PROVE  /\ [q EXCEPT !.at = step] \in Request
         /\ [q EXCEPT !.at = step, !.answer = status] \in Request
<1>1. [q EXCEPT !.at = step] \in Request
  BY Zenon DEF Request
<1>2. [q EXCEPT !.at = step, !.answer = status] \in Request
  BY Zenon DEF Request
<1> QED
  BY <1>1, <1>2

\* The rows of the tables are counted from 1.
LEMMA Rows ==
  ASSUME TypeOK
  PROVE  /\ DOMAIN forms = 1..Len(forms) /\ Len(forms) \in Nat
         /\ DOMAIN feedback = 1..Len(feedback) /\ Len(feedback) \in Nat
         /\ DOMAIN notifications = 1..Len(notifications) /\ Len(notifications) \in Nat
         /\ \A f \in DOMAIN forms : forms[f] \in Form /\ f \in 1..MaxForms
         /\ \A i \in DOMAIN feedback : feedback[i] \in Feedback
         /\ \A n \in DOMAIN notifications : notifications[n] \in Notification
BY BoundsAssumption DEF TypeOK

LEMMA Finite ==
  ASSUME TypeOK, NEW f
  PROVE  /\ IsFiniteSet(NoticesOf(f)) /\ Cardinality(NoticesOf(f)) \in Nat
         /\ IsFiniteSet(Active(f)) /\ Cardinality(Active(f)) \in Nat
         /\ f \in 1..MaxForms =>
              IsFiniteSet(racers[f]) /\ Cardinality(racers[f]) \in Nat
<1>1. IsFiniteSet(DOMAIN notifications)
  BY Rows, FS_Interval
<1>2. NoticesOf(f) \subseteq DOMAIN notifications
  BY DEF NoticesOf
<1>3. Active(f) \subseteq Requests
  BY DEF Active
<1>4. f \in 1..MaxForms => racers[f] \subseteq Requests
  BY DEF TypeOK
<1> QED
  BY <1>1, <1>2, <1>3, <1>4, RequestsAssumption, FS_Subset, FS_CardinalityType

\* Rows are only added, a submitted form stays submitted, a notification
\* changes in nothing but in being read.
Keeps ==
  /\ DOMAIN forms \subseteq DOMAIN forms'
  /\ \A f \in DOMAIN forms :
       forms[f].status = "submitted" => forms'[f].status = "submitted"
  /\ DOMAIN feedback \subseteq DOMAIN feedback'
  /\ \A i \in DOMAIN feedback : feedback'[i] = feedback[i]
  /\ DOMAIN notifications \subseteq DOMAIN notifications'
  /\ \A n \in DOMAIN notifications :
       /\ notifications'[n].action = notifications[n].action
       /\ notifications'[n].of = notifications[n].of
       /\ notifications[n].read => notifications'[n].read

\* A request that does not move keeps what it had established.
LEMMA KeepCall ==
  ASSUME Keeps, NEW r \in Requests, req'[r] = req[r], CallOK(r), AnswerOK(r)
  PROVE  CallOK(r)' /\ AnswerOK(r)'
<1>1. CallOK(r)'
  BY DEF Keeps, CallOK, Acts
<1>2. AnswerOK(r)'
  <2>1. ASSUME req'[r].answer = 200, req'[r].form # 0
        PROVE  \E n \in DOMAIN notifications' :
                 notifications'[n].action = "submitted"
                 /\ notifications'[n].of = req'[r].form
    <3>1. PICK n \in DOMAIN notifications :
            notifications[n].action = "submitted" /\ notifications[n].of = req[r].form
      BY <2>1 DEF AnswerOK
    <3> QED
      BY <3>1 DEF Keeps
  <2>2. ASSUME req'[r].answer = 200, req'[r].notification # 0
        PROVE  /\ req'[r].notification \in DOMAIN notifications'
               /\ notifications'[req'[r].notification].read
    BY <2>2 DEF AnswerOK, Keeps
  <2> QED
    BY <2>1, <2>2 DEF AnswerOK
<1> QED
  BY <1>1, <1>2

LEMMA KeepNotice ==
  ASSUME Keeps, NEW n \in DOMAIN notifications, NoticeOK(n)
  PROVE  NoticeOK(n)'
BY DEF Keeps, NoticeOK, Acts

\* The tally of a form that no request joins does not grow.
LEMMA KeepTally ==
  ASSUME TypeOK, TypeOK', NEW f \in DOMAIN forms,
         Active(f) \subseteq racers[f], Tally(f) =< Cardinality(racers[f]),
         NoticesOf(f)' = NoticesOf(f), Active(f)' \subseteq Active(f),
         racers'[f] = racers[f]
  PROVE  /\ Active(f)' \subseteq racers'[f]
         /\ Tally(f)' =< Cardinality(racers'[f])
<1>1. Cardinality(Active(f)') =< Cardinality(Active(f))
  BY Finite, FS_Subset
<1>2. Cardinality(Active(f)') \in Nat
  BY Finite, FS_Subset, FS_CardinalityType
<1>3. f \in 1..MaxForms
  BY Rows
<1>4. Tally(f)' = Cardinality(NoticesOf(f)) + Cardinality(Active(f)')
  BY DEF Tally
<1> QED
  BY <1>1, <1>2, <1>3, <1>4, Finite DEF Tally

\* A step that writes no notification.  Quiet(s) is what it may do to request s:
\* none joins the requests of a submitted form, and one that is about to report
\* a feedback has just stored it.
Quiet(s) ==
  \/ req'[s] = req[s]
  \/ /\ CallOK(s)' /\ AnswerOK(s)'
     /\ req'[s].at \in {"update_form", "notify_employee"} =>
          forms[req'[s].form].status # "submitted"
     /\ req'[s].at = "notify_feedback" =>
          /\ req'[s].feedback \notin DOMAIN feedback
          /\ \A t \in Requests : t # s => req'[t] = req[t]

LEMMA QuietStep ==
  ASSUME WorkflowInv, TypeOK', Keeps, racers' = racers,
         DOMAIN notifications' = DOMAIN notifications,
         \A f \in DOMAIN forms' : forms'[f].status = "submitted" =>
           f \in DOMAIN forms /\ forms[f].status = "submitted",
         \A s \in Requests : Quiet(s)
  PROVE  WorkflowInv'
<1> USE DEF WorkflowInv
<1>1. CallsInv'
  <2> SUFFICES ASSUME NEW s \in Requests PROVE CallOK(s)' /\ AnswerOK(s)'
    BY DEF CallsInv
  <2> QED
    BY KeepCall DEF CallsInv, Quiet
<1>2. NoticesInv'
  BY KeepNotice DEF NoticesInv
<1>3. TallyInv'
  <2> SUFFICES ASSUME NEW f \in DOMAIN forms', forms'[f].status = "submitted"
               PROVE  /\ Active(f)' \subseteq racers'[f]
                      /\ Tally(f)' =< Cardinality(racers'[f])
    BY DEF TallyInv
  <2>1. f \in DOMAIN forms /\ forms[f].status = "submitted"
    OBVIOUS
  <2>2. NoticesOf(f)' = NoticesOf(f)
    BY DEF NoticesOf, Keeps
  <2>3. ASSUME NEW s \in Active(f)' PROVE s \in Active(f)
    <3>1. s \in Requests /\ req'[s].at \in {"update_form", "notify_employee"}
          /\ req'[s].form = f
      BY <2>3 DEF Active
    <3>2. req'[s] = req[s]
      BY <3>1, <2>1 DEF Quiet
    <3> QED
      BY <3>1, <3>2 DEF Active
  <2> QED
    BY <2>1, <2>2, <2>3, KeepTally DEF TallyInv
<1>4. FeedbackInv'
  <2>1. ASSUME NEW n \in DOMAIN notifications, NEW i,
               notifications'[n].action # "submitted", notifications'[n].of = i
        PROVE  Reports(n, i) /\ i \in DOMAIN feedback
    <3>1. Reports(n, i)
      BY <2>1 DEF Reports, Keeps
    <3> QED
      BY <3>1 DEF Reports, NoticesInv, NoticeOK
  <2>2. ASSUME NEW n \in DOMAIN notifications', NEW m \in DOMAIN notifications',
               NEW i \in DOMAIN feedback', Reports(n, i)', Reports(m, i)'
        PROVE  n = m
    BY <2>1, <2>2 DEF FeedbackInv, Reports
  <2>3. ASSUME NEW r \in Requests, NEW n \in DOMAIN notifications',
               req'[r].at = "notify_feedback", Reports(n, req[r].feedback)'
        PROVE  FALSE
    <3>1. /\ notifications'[n].action # "submitted"
          /\ notifications'[n].of = req'[r].feedback
      BY <2>3 DEF Reports
    <3>2. Reports(n, notifications'[n].of) /\ notifications'[n].of \in DOMAIN feedback
      BY <2>1, <3>1
    <3>3. req'[r] = req[r]
      BY <3>1, <3>2, <2>3 DEF Quiet
    <3> QED
      BY <3>1, <3>2, <3>3, <2>3 DEF FeedbackInv
  <2>4. ASSUME NEW r \in Requests, NEW s \in Requests,
               req'[r].at = "notify_feedback", req'[s].at = "notify_feedback",
               req'[r].feedback = req'[s].feedback
        PROVE  r = s
    <3>1. CASE req'[r] = req[r] /\ req'[s] = req[s]
      BY <3>1, <2>4 DEF FeedbackInv
    <3>2. ASSUME NEW a \in Requests, NEW b \in Requests, a # b,
                 req'[a].at = "notify_feedback", req'[b].at = "notify_feedback",
                 req'[a].feedback = req'[b].feedback, req'[a] # req[a]
          PROVE  FALSE
      <4>1. req'[a].feedback \notin DOMAIN feedback /\ req'[b] = req[b]
        BY <3>2 DEF Quiet
      <4>2. req[b].feedback \in DOMAIN feedback
        BY <3>2, <4>1 DEF CallsInv, CallOK
      <4> QED
        BY <3>2, <4>1, <4>2
    <3> QED
      BY <3>1, <3>2, <2>4
  <2> QED
    BY <2>2, <2>3, <2>4 DEF FeedbackInv
<1> QED
  BY <1>1, <1>2, <1>3, <1>4

-----------------------------------------------------------------------------
(* Init and the steps.                                                     *)

LEMMA InitInv == Init => WorkflowInv
<1> SUFFICES ASSUME Init PROVE WorkflowInv
  OBVIOUS
<1>1. TypeOK
  BY IdleTyped, BoundsAssumption DEF Init, TypeOK
<1>2. DOMAIN forms = {} /\ DOMAIN notifications = {} /\ DOMAIN feedback = {}
  BY DEF Init
<1>3. \A r \in Requests : req[r].at = "idle" /\ req[r].answer = 0
  BY DEF Init, Idle
<1> QED
  BY <1>1, <1>2, <1>3
     DEF WorkflowInv, CallsInv, CallOK, AnswerOK, NoticesInv, TallyInv, FeedbackInv

\* The tables are as they were.
LEMMA SameTables ==
  ASSUME UNCHANGED tables
  PROVE  /\ forms' = forms /\ notifications' = notifications /\ feedback' = feedback
         /\ Keeps
BY DEF tables, Keeps

\* One request moves and the tables stay.
LEMMA MoveStep ==
  ASSUME WorkflowInv, UNCHANGED tables, UNCHANGED racers,
         NEW r \in Requests, NEW q \in Request, req' = [req EXCEPT ![r] = q],
         CallOK(r)', AnswerOK(r)', q.at # "notify_feedback",
         q.at \in {"update_form", "notify_employee"} => forms[q.form].status # "submitted"
  PROVE  WorkflowInv'
<1> USE SameTables
<1>1. TypeOK /\ req \in [Requests -> Request]
  BY DEF WorkflowInv, TypeOK
<1>2. TypeOK'
  BY <1>1 DEF TypeOK
<1>3. req'[r] = q /\ \A s \in Requests : s # r => req'[s] = req[s]
  BY <1>1
<1>4. \A s \in Requests : Quiet(s)
  BY <1>3 DEF Quiet
<1> QED
  BY <1>2, <1>4, QuietStep

LEMMA RespondStep ==
  ASSUME WorkflowInv, UNCHANGED tables, UNCHANGED racers,
         NEW r \in Requests, NEW status \in Answers \ {0, 200}, Respond(r, status)
  PROVE  WorkflowInv'
<1> DEFINE q == [req[r] EXCEPT !.at = "done", !.answer = status]
<1>1. TypeOK /\ req \in [Requests -> Request]
  BY DEF WorkflowInv, TypeOK
<1>2. q \in Request
  <2>1. "done" \in Steps
    BY DEF Steps
  <2> QED
    BY <1>1, <2>1, Moved
<1>3. q.at = "done" /\ q.answer = status
  BY <1>1 DEF Request
<1>4. req' = [req EXCEPT ![r] = q] /\ req'[r] = q
  BY <1>1, Zenon DEF Respond
<1>5. CallOK(r)' /\ AnswerOK(r)'
  <2> HIDE DEF q
  <2> QED
    BY <1>3, <1>4 DEF CallOK, AnswerOK
<1> QED
  BY <1>2, <1>3, <1>4, <1>5, MoveStep

LEMMA CallStep ==
  ASSUME WorkflowInv, NEW r \in Requests, NEW q \in Request, Call(r, q),
         \/ q.at = "done" /\ q.answer = 400
         \/ /\ q.answer = 0
            /\ \/ q.at \in {"insert_form"} /\ q.form = 0
               \/ q.at = "insert_feedback" /\ q.form = 0 /\ q.notification = 0
               \/ /\ q.at = "check_form" /\ q.form # 0
                  /\ q.data \in Data /\ q.notification = 0
  PROVE  WorkflowInv'
<1>1. req \in [Requests -> Request]
  BY DEF WorkflowInv, TypeOK
<1>2. req' = [req EXCEPT ![r] = q] /\ UNCHANGED tables /\ UNCHANGED racers /\ req'[r] = q
  BY <1>1 DEF Call
<1>3. CallOK(r)' /\ AnswerOK(r)'
  BY <1>2 DEF CallOK, AnswerOK
<1> QED
  BY <1>2, <1>3, MoveStep

LEMMA CreateStep ==
  ASSUME WorkflowInv, NEW r \in Requests, create_form(r)
  PROVE  WorkflowInv'
<1>1. PICK n \in 0..MaxNotifications :
        Call(r, [Idle EXCEPT !.at = "insert_form", !.notification = n])
  BY DEF create_form
<1> DEFINE q == [Idle EXCEPT !.at = "insert_form", !.notification = n]
<1>2. q \in Request
  <2>1. "insert_form" \in Steps
    BY DEF Steps
  <2> QED
    BY <2>1, IdleTyped, Zenon DEF Request
<1>3. q.at = "insert_form" /\ q.answer = 0 /\ q.form = 0
  BY DEF Idle
<1> QED
  BY <1>1, <1>2, <1>3, CallStep

LEMMA SubmitStep ==
  ASSUME WorkflowInv, NEW r \in Requests, submit_form(r)
  PROVE  WorkflowInv'
<1>1. PICK f \in 1..MaxForms, d \in Data :
        Call(r, [Idle EXCEPT !.at = "check_form", !.form = f, !.data = d])
  BY DEF submit_form
<1> DEFINE q == [Idle EXCEPT !.at = "check_form", !.form = f, !.data = d]
<1>2. /\ q.at = "check_form" /\ q.answer = 0 /\ q.form = f /\ q.data = d
      /\ q.notification = 0 /\ f # 0
  BY BoundsAssumption DEF Idle
<1>3. q \in Request
  <2>1. "check_form" \in Steps /\ f \in 0..MaxForms /\ d \in Data \union {NoData}
    BY BoundsAssumption DEF Steps
  <2> QED
    BY <2>1, IdleTyped, Zenon DEF Request
<1> QED
  BY <1>1, <1>2, <1>3, CallStep

LEMMA SubmitFeedbackStep ==
  ASSUME WorkflowInv, NEW r \in Requests, submit_feedback(r)
  PROVE  WorkflowInv'
<1>1. CASE Call(r, [Idle EXCEPT !.at = "insert_feedback"])
  <2> DEFINE q == [Idle EXCEPT !.at = "insert_feedback"]
  <2>1. /\ q \in Request /\ q.at = "insert_feedback" /\ q.answer = 0 /\ q.form = 0
        /\ q.notification = 0
    BY IdleTyped DEF Idle, Request, Steps
  <2> QED
    BY <1>1, <2>1, CallStep
<1>2. CASE Call(r, [Idle EXCEPT !.at = "done", !.answer = 400])
  <2> DEFINE q == [Idle EXCEPT !.at = "done", !.answer = 400]
  <2>1. "done" \in Steps /\ 400 \in Answers
    BY DEF Steps, Answers
  <2>2. q \in Request
    BY <2>1, IdleTyped, Moved
  <2>3. q.at = "done" /\ q.answer = 400
    BY DEF Idle
  <2> QED
    BY <1>2, <2>2, <2>3, CallStep
<1> QED
  BY <1>1, <1>2 DEF submit_feedback

LEMMA CrashStep ==
  ASSUME WorkflowInv, Crash
  PROVE  WorkflowInv'
<1>1. /\ req' = [r \in Requests |-> Idle] /\ UNCHANGED tables /\ UNCHANGED racers
  BY DEF Crash
<1>2. TypeOK'
  BY <1>1, IdleTyped, SameTables DEF WorkflowInv, TypeOK
<1>3. ASSUME NEW s \in Requests PROVE Quiet(s)
  <2>1. req'[s].at = "idle" /\ req'[s].answer = 0
    BY <1>1 DEF Idle
  <2> QED
    BY <2>1 DEF Quiet, CallOK, AnswerOK
<1> QED
  BY <1>1, <1>2, <1>3, SameTables, QuietStep

\* Marking read.
LEMMA MarkStep ==
  ASSUME WorkflowInv, UNCHANGED forms, UNCHANGED feedback, UNCHANGED racers,
         UNCHANGED req, mark_notification_read \/ mark_all_read
  PROVE  WorkflowInv'
<1>1. TypeOK /\ notifications \in Seq(Notification)
  BY DEF WorkflowInv, TypeOK
<1>2. /\ notifications' \in Seq(Notification)
      /\ DOMAIN notifications' = DOMAIN notifications
      /\ Len(notifications') = Len(notifications)
      /\ \A n \in DOMAIN notifications :
           /\ notifications'[n].action = notifications[n].action
           /\ notifications'[n].of = notifications[n].of
           /\ notifications[n].read => notifications'[n].read
  <2>1. CASE mark_notification_read
    <3>1. PICK n \in DOMAIN notifications :
            notifications' = [notifications EXCEPT ![n].read = TRUE]
      BY <2>1 DEF mark_notification_read
    <3>2. notifications[n] \in Notification
      BY <1>1
    <3>3. [notifications[n] EXCEPT !.read = TRUE] \in Notification
      BY <3>2, Zenon DEF Notification
    <3> QED
      BY <1>1, <3>1, <3>2, <3>3 DEF Notification
  <2>2. CASE mark_all_read
    <3>1. notifications' = [n \in DOMAIN notifications |->
                              [notifications[n] EXCEPT !.read = TRUE]]
      BY <2>2 DEF mark_all_read
    <3>2. \A n \in DOMAIN notifications : notifications[n] \in Notification
      BY <1>1
    <3>3. \A n \in DOMAIN notifications :
            [notifications[n] EXCEPT !.read = TRUE] \in Notification
      BY <3>2, Zenon DEF Notification
    <3>4. notifications' \in [1..Len(notifications) -> Notification]
      BY <1>1, <3>1, <3>3
    <3> QED
      BY <1>1, <3>1, <3>2, <3>4 DEF Notification
  <2> QED
    BY <2>1, <2>2
<1>3. TypeOK'
  BY <1>1, <1>2 DEF TypeOK
<1>4. Keeps
  BY <1>2 DEF Keeps
<1> QED
  BY <1>2, <1>3, <1>4, QuietStep DEF Quiet

LEMMA FailStep ==
  ASSUME WorkflowInv, NEW r \in Requests, Fail(r)
  PROVE  WorkflowInv'
<1>1. 500 \in Answers \ {0, 200}
  BY DEF Answers
<1> QED
  BY <1>1, RespondStep DEF Fail

LEMMA CheckStep ==
  ASSUME WorkflowInv, NEW r \in Requests, check_form(r)
  PROVE  WorkflowInv'
<1>1. {400, 404} \subseteq Answers \ {0, 200}
  BY DEF Answers
<1>2. CASE Respond(r, 404) \/ Respond(r, 400)
  BY <1>1, <1>2, RespondStep DEF check_form
<1>3. CASE req[r].form \in DOMAIN forms /\ forms[req[r].form].status = "pending"
           /\ GoOn(r, "update_form")
  <2> DEFINE q == [req[r] EXCEPT !.at = "update_form"]
  <2>1. req \in [Requests -> Request] /\ req[r] \in Request
    BY DEF WorkflowInv, TypeOK
  <2>2. "update_form" \in Steps /\ 0 \in Answers
    BY DEF Steps, Answers
  <2>3. q \in Request
    BY <2>1, <2>2, Moved
  <2>4. /\ q.at = "update_form" /\ q.form = req[r].form /\ q.data = req[r].data
        /\ q.notification = req[r].notification /\ q.answer = req[r].answer
    BY <2>1 DEF Request
  <2>5. req' = [req EXCEPT ![r] = q] /\ req'[r] = q
    BY <2>1, <1>3, Zenon DEF GoOn
  <2>6. UNCHANGED tables /\ UNCHANGED racers /\ req[r].at = "check_form"
    BY DEF check_form
  <2>7. CallOK(r) /\ req[r].answer = 0
    BY <2>6 DEF WorkflowInv, CallsInv, CallOK
  <2>8. CallOK(r)' /\ AnswerOK(r)'
    <3> HIDE DEF q
    <3> QED
      BY <1>3, <2>4, <2>5, <2>6, <2>7, SameTables DEF CallOK, AnswerOK
  <2>9. forms[q.form].status # "submitted" /\ q.at # "notify_feedback"
    BY <1>3, <2>4
  <2> QED
    BY <2>3, <2>5, <2>6, <2>8, <2>9, MoveStep
<1> QED
  BY <1>2, <1>3 DEF check_form

\* A step of request r alone.
LEMMA OthersStay ==
  ASSUME TypeOK, NEW r \in Requests,
         \/ \E step \in Steps : GoOn(r, step)
         \/ \E status \in Answers : Respond(r, status)
  PROVE  /\ req' \in [Requests -> Request]
         /\ \A s \in Requests : s # r => req'[s] = req[s]
         /\ req'[r].form = req[r].form /\ req'[r].data = req[r].data
         /\ req'[r].notification = req[r].notification
         /\ req'[r].feedback = req[r].feedback
         /\ \A step \in Steps :
              GoOn(r, step) => req'[r].at = step /\ req'[r].answer = req[r].answer
         /\ \A status \in Answers :
              Respond(r, status) => req'[r].at = "done" /\ req'[r].answer = status
<1>1. req \in [Requests -> Request] /\ req[r] \in Request
  BY DEF TypeOK
<1>2. ASSUME NEW step \in Steps, GoOn(r, step)
      PROVE  /\ req' \in [Requests -> Request]
             /\ \A s \in Requests : s # r => req'[s] = req[s]
             /\ req'[r].form = req[r].form /\ req'[r].data = req[r].data
             /\ req'[r].notification = req[r].notification
             /\ req'[r].feedback = req[r].feedback
             /\ req'[r].at = step /\ req'[r].answer = req[r].answer
  <2> DEFINE q == [req[r] EXCEPT !.at = step]
  <2>1. q \in Request
    <3>1. 0 \in Answers
      BY DEF Answers
    <3> QED
      BY <1>1, <3>1, Moved
  <2>2. /\ q.at = step /\ q.form = req[r].form /\ q.data = req[r].data
        /\ q.notification = req[r].notification /\ q.answer = req[r].answer
        /\ q.feedback = req[r].feedback
    BY <1>1 DEF Request
  <2>3. req' = [req EXCEPT ![r] = q]
    BY <1>2, Zenon DEF GoOn
  <2> HIDE DEF q
  <2> QED
    BY <1>1, <2>1, <2>2, <2>3
<1>3. ASSUME NEW status \in Answers, Respond(r, status)
      PROVE  /\ req' \in [Requests -> Request]
             /\ \A s \in Requests : s # r => req'[s] = req[s]
             /\ req'[r].form = req[r].form /\ req'[r].data = req[r].data
             /\ req'[r].notification = req[r].notification
             /\ req'[r].feedback = req[r].feedback
             /\ req'[r].at = "done" /\ req'[r].answer = status
  <2> DEFINE q == [req[r] EXCEPT !.at = "done", !.answer = status]
  <2>1. q \in Request
    BY <1>1, Moved, "done" \in Steps DEF Steps
  <2>2. /\ q.at = "done" /\ q.form = req[r].form /\ q.data = req[r].data
        /\ q.notification = req[r].notification /\ q.answer = status
        /\ q.feedback = req[r].feedback
    BY <1>1 DEF Request
  <2>3. req' = [req EXCEPT ![r] = q]
    BY <1>3, Zenon DEF Respond
  <2> HIDE DEF q
  <2> QED
    BY <1>1, <2>1, <2>2, <2>3
<1> QED
  BY <1>2, <1>3

LEMMA InsertFormStep ==
  ASSUME WorkflowInv, NEW r \in Requests, insert_form(r)
  PROVE  WorkflowInv'
<1> DEFINE n == req[r].notification
           row == [status |-> "pending", data |-> NoData, notification |-> n]
<1>1. /\ TypeOK /\ CallOK(r) /\ req[r].at = "insert_form" /\ req[r].form = 0
      /\ n \in 0..MaxNotifications /\ req[r].answer = 0
  BY Typed DEF WorkflowInv, CallsInv, CallOK, insert_form
<1>2. /\ forms' = Append(forms, row) /\ Len(forms) < MaxForms
      /\ notifications' = notifications /\ feedback' = feedback /\ racers' = racers
      /\ n \in {0} \union DOMAIN notifications
  BY DEF insert_form
<1>3. row \in Form
  BY <1>1 DEF Form
<1>4. /\ forms' \in Seq(Form) /\ Len(forms') = Len(forms) + 1
      /\ DOMAIN forms' = 1..(Len(forms) + 1)
      /\ \A f \in DOMAIN forms : forms'[f] = forms[f]
      /\ forms'[Len(forms) + 1] = row
  <2>1. forms \in Seq(Form)
    BY <1>1 DEF TypeOK
  <2> HIDE DEF row
  <2> QED
    BY <2>1, <1>2, <1>3
<1>5. \/ Respond(r, 200) /\ n = 0
      \/ GoOn(r, "mark_read") /\ n # 0
  BY DEF insert_form
<1>6. 200 \in Answers /\ "mark_read" \in Steps
  BY DEF Answers, Steps
<1>7. /\ req' \in [Requests -> Request]
      /\ \A s \in Requests : s # r => req'[s] = req[s]
      /\ req'[r].form = 0 /\ req'[r].notification = n
      /\ \/ n = 0 /\ req'[r].at = "done" /\ req'[r].answer = 200
         \/ n # 0 /\ req'[r].at = "mark_read" /\ req'[r].answer = 0
  BY <1>1, <1>5, <1>6, OthersStay
<1>8. TypeOK'
  BY <1>1, <1>2, <1>4, <1>7, BoundsAssumption DEF TypeOK
<1>9. Keeps
  BY <1>1, <1>2, <1>4, Rows DEF Keeps
<1>10. \A f \in DOMAIN forms' : forms'[f].status = "submitted" =>
         f \in DOMAIN forms /\ forms[f].status = "submitted"
  BY <1>1, <1>4, Rows
<1>11. ASSUME NEW s \in Requests PROVE Quiet(s)
  <2>1. CallOK(r)' /\ AnswerOK(r)'
    BY <1>2, <1>7 DEF CallOK, AnswerOK
  <2> QED
    BY <1>7, <2>1 DEF Quiet
<1> QED
  BY <1>2, <1>8, <1>9, <1>10, <1>11, QuietStep

LEMMA MarkLinkedStep ==
  ASSUME WorkflowInv, NEW r \in Requests, mark_linked_read(r)
  PROVE  WorkflowInv'
<1> DEFINE n == req[r].notification
<1>1. /\ TypeOK /\ req[r].at = "mark_read" /\ req[r].form = 0
      /\ n \in DOMAIN notifications
  BY DEF WorkflowInv, CallsInv, CallOK, mark_linked_read
<1>2. /\ notifications' = [notifications EXCEPT ![n].read = TRUE]
      /\ forms' = forms /\ feedback' = feedback /\ racers' = racers
  BY DEF mark_linked_read
<1>3. /\ notifications' \in Seq(Notification)
      /\ DOMAIN notifications' = DOMAIN notifications
      /\ Len(notifications') = Len(notifications)
      /\ \A m \in DOMAIN notifications :
           /\ notifications'[m].action = notifications[m].action
           /\ notifications'[m].of = notifications[m].of
           /\ notifications[m].read => notifications'[m].read
      /\ notifications'[n].read
  <2>1. notifications \in Seq(Notification)
    BY <1>1 DEF TypeOK
  <2>2. notifications[n] \in Notification
    BY <1>1, <2>1
  <2>3. [notifications[n] EXCEPT !.read = TRUE] \in Notification
    BY <2>2, Zenon DEF Notification
  <2> QED
    BY <1>1, <1>2, <2>1, <2>2, <2>3 DEF Notification
<1>4. 200 \in Answers
  BY DEF Answers
<1>5. /\ req' \in [Requests -> Request]
      /\ \A s \in Requests : s # r => req'[s] = req[s]
      /\ req'[r].form = 0 /\ req'[r].notification = n
      /\ req'[r].at = "done" /\ req'[r].answer = 200
  BY <1>1, <1>4, OthersStay DEF mark_linked_read
<1>6. TypeOK'
  BY <1>1, <1>2, <1>3, <1>5 DEF TypeOK
<1>7. Keeps
  BY <1>2, <1>3 DEF Keeps
<1>8. ASSUME NEW s \in Requests PROVE Quiet(s)
  <2>1. CallOK(r)' /\ AnswerOK(r)'
    BY <1>1, <1>3, <1>5 DEF CallOK, AnswerOK
  <2> QED
    BY <1>5, <2>1 DEF Quiet
<1> QED
  BY <1>2, <1>3, <1>6, <1>7, <1>8, QuietStep

\* The first UPDATE of a form lets in no more than the requests then past their check.
LEMMA UpdateStep ==
  ASSUME WorkflowInv, NEW r \in Requests, update_form(r)
  PROVE  WorkflowInv'
<1> DEFINE f == req[r].form
           row == [forms[f] EXCEPT !.status = "submitted", !.data = req[r].data]
<1>1. /\ TypeOK /\ req[r].at = "update_form" /\ f \in DOMAIN forms /\ f # 0
      /\ req[r].data \in Data /\ req[r].notification = 0 /\ req[r].answer = 0
  BY DEF WorkflowInv, CallsInv, CallOK, update_form
<1>2. /\ forms' = [forms EXCEPT ![f] = row]
      /\ notifications' = notifications /\ feedback' = feedback
  <2>1. forms' = [forms EXCEPT ![f].status = "submitted", ![f].data = req[r].data]
    BY DEF update_form
  <2> QED
    BY <2>1 DEF update_form
<1>3. row \in Form /\ row.status = "submitted"
  <2>1. forms[f] \in Form
    BY <1>1, Rows
  <2>2. row \in Form
    BY <1>1, <2>1, Zenon DEF Form
  <2>3. row.status = "submitted"
    BY <2>1 DEF Form
  <2> QED
    BY <2>2, <2>3
<1>4. /\ forms' \in Seq(Form) /\ Len(forms') = Len(forms)
      /\ DOMAIN forms' = DOMAIN forms
      /\ \A g \in DOMAIN forms : g # f => forms'[g] = forms[g]
      /\ forms'[f].status = "submitted"
  <2>1. forms \in Seq(Form)
    BY <1>1 DEF TypeOK
  <2> HIDE DEF row
  <2> QED
    BY <1>1, <1>2, <1>3, <2>1
<1>5. "notify_employee" \in Steps
  BY DEF Steps
<1>6. /\ req' \in [Requests -> Request]
      /\ \A s \in Requests : s # r => req'[s] = req[s]
      /\ req'[r].form = f /\ req'[r].notification = 0 /\ req'[r].data = req[r].data
      /\ req'[r].at = "notify_employee" /\ req'[r].answer = 0
  BY <1>1, <1>5, OthersStay DEF update_form
<1>7. racers' = IF forms[f].status = "pending"
                THEN [racers EXCEPT ![f] = Checked(f)] ELSE racers
  BY DEF update_form
<1>8. f \in 1..MaxForms /\ Checked(f) \subseteq Requests
      /\ racers \in [1..MaxForms -> SUBSET Requests]
  BY <1>1, Rows DEF Checked, TypeOK
<1>9. TypeOK'
  <2>1. racers' \in [1..MaxForms -> SUBSET Requests]
    BY <1>7, <1>8
  <2> QED
    BY <1>1, <1>2, <1>4, <1>6, <2>1 DEF TypeOK
<1>10. Keeps
  BY <1>2, <1>4 DEF Keeps
<1>11. CallsInv'
  <2>1. CallOK(r)' /\ AnswerOK(r)'
    BY <1>1, <1>4, <1>6 DEF CallOK, AnswerOK
  <2>2. \A s \in Requests : s # r => CallOK(s)' /\ AnswerOK(s)'
    BY <1>6, <1>10, KeepCall DEF WorkflowInv, CallsInv
  <2> QED
    BY <2>1, <2>2 DEF CallsInv
<1>12. NoticesInv'
  BY <1>2, <1>10, KeepNotice DEF WorkflowInv, NoticesInv
<1>13. \A g : Active(g)' = Active(g)
  BY <1>1, <1>6 DEF Active
<1>14. \A g : NoticesOf(g)' = NoticesOf(g)
  BY <1>2 DEF NoticesOf
<1>15. TallyInv'
  <2> SUFFICES ASSUME NEW g \in DOMAIN forms', forms'[g].status = "submitted"
               PROVE  /\ Active(g)' \subseteq racers'[g]
                      /\ Tally(g)' =< Cardinality(racers'[g])
    BY DEF TallyInv
  <2>1. g \in DOMAIN forms
    BY <1>4
  <2>2. CASE forms[g].status = "submitted"
    <3>1. racers'[g] = racers[g]
      BY <1>7, <1>8, <2>2
    <3> QED
      BY <1>1, <1>9, <1>13, <1>14, <2>1, <2>2, <3>1, KeepTally DEF WorkflowInv, TallyInv
  <2>3. CASE forms[g].status # "submitted"
    <3>1. g = f /\ forms[f].status = "pending"
      <4>1. g = f
        BY <1>4, <2>1, <2>3
      <4>2. forms[f] \in Form
        BY <1>1, Rows
      <4> QED
        BY <4>1, <4>2, <2>3 DEF Form
    <3>2. racers'[g] = Checked(g)
      BY <1>7, <1>8, <3>1
    <3>3. Active(g) = Checked(g)
      BY <3>1 DEF Active, Checked, WorkflowInv, CallsInv, CallOK
    <3>4. NoticesOf(g) = {}
      BY <3>1 DEF NoticesOf, WorkflowInv, NoticesInv, NoticeOK
    <3>5. /\ Tally(g)' = Cardinality(NoticesOf(g)') + Cardinality(Active(g)')
          /\ NoticesOf(g)' = {} /\ Active(g)' = Checked(g)
      BY <1>13, <1>14, <3>3, <3>4 DEF Tally
    <3>6. Cardinality({}) = 0 /\ Cardinality(Checked(g)) \in Nat
      BY <1>1, <3>3, Finite, FS_EmptySet
    <3> QED
      BY <3>2, <3>5, <3>6
  <2> QED
    BY <2>2, <2>3
<1>16. FeedbackInv'
  BY <1>1, <1>2, <1>6 DEF WorkflowInv, FeedbackInv, Reports
<1> QED
  BY <1>9, <1>11, <1>12, <1>15, <1>16 DEF WorkflowInv

\* A new row of notifications.
LEMMA Appended ==
  ASSUME TypeOK, NEW action \in {"accepted", "rejected", "submitted"}, NEW of \in Nat,
         Notify(action, of), forms' = forms, feedback' = feedback
  PROVE  LET new == Len(notifications) + 1
         IN /\ notifications' \in Seq(Notification)
            /\ Len(notifications') =< MaxNotifications
            /\ DOMAIN notifications' = DOMAIN notifications \union {new}
            /\ new \notin DOMAIN notifications
            /\ \A n \in DOMAIN notifications : notifications'[n] = notifications[n]
            /\ notifications'[new].action = action /\ notifications'[new].of = of
            /\ Keeps
<1> DEFINE row == [action |-> action, read |-> FALSE, of |-> of]
<1>1. notifications \in Seq(Notification) /\ row \in Notification
  BY DEF TypeOK, Notification
<1>2. /\ notifications' = Append(notifications, row)
      /\ Len(notifications) < MaxNotifications
  BY DEF Notify
<1>3. row.action = action /\ row.of = of
  OBVIOUS
<1> HIDE DEF row
<1>4. /\ notifications' \in Seq(Notification)
      /\ Len(notifications') = Len(notifications) + 1
      /\ DOMAIN notifications' = 1..(Len(notifications) + 1)
      /\ DOMAIN notifications = 1..Len(notifications) /\ Len(notifications) \in Nat
      /\ \A n \in DOMAIN notifications : notifications'[n] = notifications[n]
      /\ notifications'[Len(notifications) + 1] = row
  BY <1>1, <1>2
<1>5. MaxNotifications \in Nat
  BY BoundsAssumption
<1>6. Keeps
  BY <1>4 DEF Keeps
<1> QED
  BY <1>2, <1>3, <1>4, <1>5, <1>6

LEMMA NotifyStep ==
  ASSUME WorkflowInv, NEW r \in Requests, notify_employee(r)
  PROVE  WorkflowInv'
<1> DEFINE new == Len(notifications) + 1
<1> PICK f \in Nat : f = req[r].form
  BY Typed DEF WorkflowInv
<1>1. /\ TypeOK /\ req[r].at = "notify_employee" /\ f \in DOMAIN forms /\ f # 0
      /\ forms[f].status = "submitted" /\ req[r].notification = 0
  BY DEF WorkflowInv, CallsInv, CallOK, notify_employee
<1>2. /\ forms' = forms /\ feedback' = feedback /\ racers' = racers
      /\ Notify("submitted", f)
  BY DEF notify_employee
<1>3. /\ notifications' \in Seq(Notification)
      /\ Len(notifications') =< MaxNotifications
      /\ DOMAIN notifications' = DOMAIN notifications \union {new}
      /\ new \notin DOMAIN notifications
      /\ \A n \in DOMAIN notifications : notifications'[n] = notifications[n]
      /\ notifications'[new].action = "submitted" /\ notifications'[new].of = f
      /\ Keeps
  BY <1>1, <1>2, Appended
<1>4. /\ req' \in [Requests -> Request]
      /\ \A s \in Requests : s # r => req'[s] = req[s]
      /\ req'[r].form = f /\ req'[r].notification = 0
      /\ req'[r].at = "done" /\ req'[r].answer = 200
  <2>1. 200 \in Answers
    BY DEF Answers
  <2> QED
    BY <1>1, <2>1, OthersStay DEF notify_employee
<1>5. TypeOK'
  BY <1>1, <1>2, <1>3, <1>4 DEF TypeOK
<1>6. CallsInv'
  <2>1. CallOK(r)'
    BY <1>4 DEF CallOK
  <2>2. AnswerOK(r)'
    BY <1>3, <1>4 DEF AnswerOK
  <2>3. \A s \in Requests : s # r => CallOK(s)' /\ AnswerOK(s)'
    BY <1>3, <1>4, KeepCall DEF WorkflowInv, CallsInv
  <2> QED
    BY <2>1, <2>2, <2>3 DEF CallsInv
<1>7. NoticesInv'
  <2> SUFFICES ASSUME NEW n \in DOMAIN notifications' PROVE NoticeOK(n)'
    BY DEF NoticesInv
  <2>1. CASE n \in DOMAIN notifications
    BY <1>3, <2>1, KeepNotice DEF WorkflowInv, NoticesInv
  <2>2. CASE n = Len(notifications) + 1
    BY <1>1, <1>2, <1>3, <2>2 DEF NoticeOK
  <2> QED
    BY <1>3, <2>1, <2>2
<1>8. TallyInv'
  <2> SUFFICES ASSUME NEW g \in DOMAIN forms', forms'[g].status = "submitted"
               PROVE  /\ Active(g)' \subseteq racers'[g]
                      /\ Tally(g)' =< Cardinality(racers'[g])
    BY DEF TallyInv
  <2>1. /\ g \in DOMAIN forms /\ racers'[g] = racers[g]
        /\ Active(g) \subseteq racers[g] /\ Tally(g) =< Cardinality(racers[g])
    BY <1>2 DEF WorkflowInv, TallyInv
  <2>2. CASE g # f
    <3>1. NoticesOf(g)' = NoticesOf(g)
      BY <1>3, <2>2 DEF NoticesOf
    <3>2. Active(g)' \subseteq Active(g)
      BY <1>4 DEF Active
    <3> QED
      BY <1>1, <1>5, <2>1, <3>1, <3>2, KeepTally
  <2>3. CASE g = f
    <3>1. NoticesOf(f)' = NoticesOf(f) \union {new} /\ new \notin NoticesOf(f)
      BY <1>3 DEF NoticesOf
    <3>2. Active(f)' = Active(f) \ {r} /\ r \in Active(f)
      BY <1>1, <1>4 DEF Active
    <3>3. Cardinality(NoticesOf(f)') = Cardinality(NoticesOf(f)) + 1
      <4>1. IsFiniteSet(NoticesOf(f))
        BY <1>1, Finite
      <4> HIDE DEF new
      <4>2. Cardinality(NoticesOf(f) \union {new}) = Cardinality(NoticesOf(f)) + 1
        BY <3>1, <4>1, FS_AddElement
      <4> QED
        BY <3>1, <4>2
    <3>4. Cardinality(Active(f)') = Cardinality(Active(f)) - 1
      BY <1>1, <3>2, Finite, FS_RemoveElement
    <3>5. Tally(f)' = Cardinality(NoticesOf(f)') + Cardinality(Active(f)')
      BY DEF Tally
    <3>6. Tally(f)' = Tally(f)
      BY <1>1, <3>3, <3>4, <3>5, Finite DEF Tally
    <3> QED
      BY <2>1, <2>3, <3>2, <3>6
  <2> QED
    BY <2>2, <2>3
<1>9. FeedbackInv'
  BY <1>2, <1>3, <1>4 DEF WorkflowInv, FeedbackInv, Reports
<1> QED
  BY <1>5, <1>6, <1>7, <1>8, <1>9 DEF WorkflowInv

LEMMA InsertFeedbackStep ==
  ASSUME WorkflowInv, NEW r \in Requests, insert_feedback(r)
  PROVE  WorkflowInv'
<1> DEFINE new == Len(feedback) + 1
<1>1. /\ TypeOK /\ req[r].at = "insert_feedback" /\ req[r].form = 0
      /\ req[r].notification = 0 /\ Len(feedback) < MaxFeedback
      /\ forms' = forms /\ notifications' = notifications /\ racers' = racers
  BY DEF WorkflowInv, CallsInv, CallOK, insert_feedback
<1>2. PICK fb \in Feedback :
        /\ feedback' = Append(feedback, fb)
        /\ req' = [req EXCEPT
             ![r].feedback = new,
             ![r].at = IF Acts(fb) THEN "notify_feedback" ELSE "done",
             ![r].answer = IF Acts(fb) THEN 0 ELSE 200]
  BY DEF insert_feedback
<1> DEFINE step == IF Acts(fb) THEN "notify_feedback" ELSE "done"
           status == IF Acts(fb) THEN 0 ELSE 200
           q == [req[r] EXCEPT !.feedback = new, !.at = step, !.answer = status]
<1>3. req \in [Requests -> Request] /\ req[r] \in Request
  BY <1>1 DEF TypeOK
<1>4. step \in Steps /\ status \in Answers
  BY DEF Steps, Answers
<1>5. new \in 0..MaxFeedback /\ Len(feedback) \in Nat
  BY <1>1, BoundsAssumption, Rows
<1>6. q \in Request
  <2> HIDE DEF step, status, new
  <2> QED
    BY <1>3, <1>4, <1>5, Zenon DEF Request
<1>7. /\ q.at = step /\ q.form = req[r].form /\ q.answer = status
      /\ q.notification = req[r].notification /\ q.feedback = new
  <2> HIDE DEF step, status, new
  <2> QED
    BY <1>3 DEF Request
<1>8. req' = [req EXCEPT ![r] = q]
  <2>1. req' = [req EXCEPT ![r].feedback = new, ![r].at = step, ![r].answer = status]
    BY <1>2
  <2> HIDE DEF step, status, new
  <2> QED
    BY <2>1
<1>9. /\ req' \in [Requests -> Request] /\ req'[r] = q
      /\ \A s \in Requests : s # r => req'[s] = req[s]
  <2> HIDE DEF q
  <2> QED
    BY <1>3, <1>6, <1>8
<1>10. /\ feedback' \in Seq(Feedback) /\ Len(feedback') = Len(feedback) + 1
       /\ DOMAIN feedback' = 1..new /\ DOMAIN feedback = 1..Len(feedback)
       /\ \A i \in DOMAIN feedback : feedback'[i] = feedback[i]
       /\ feedback'[new] = fb
  <2>1. feedback \in Seq(Feedback)
    BY <1>1 DEF TypeOK
  <2> QED
    BY <1>2, <2>1
<1>11. TypeOK'
  BY <1>1, <1>5, <1>9, <1>10 DEF TypeOK
<1>12. Keeps
  BY <1>1, <1>5, <1>10 DEF Keeps
<1>13. CallOK(r)' /\ AnswerOK(r)'
  <2> HIDE DEF q
  <2>1. CASE Acts(fb)
    <3>1. /\ req'[r].at = "notify_feedback" /\ req'[r].answer = 0 /\ req'[r].form = 0
          /\ req'[r].notification = 0 /\ req'[r].feedback = new
      BY <1>1, <1>7, <1>9, <2>1
    <3>2. new \in DOMAIN feedback' /\ Acts(feedback'[new])
      BY <1>5, <1>10, <2>1
    <3> QED
      BY <3>1, <3>2 DEF CallOK, AnswerOK, Acts
  <2>2. CASE ~Acts(fb)
    <3>1. /\ req'[r].at = "done" /\ req'[r].form = 0 /\ req'[r].notification = 0
      BY <1>1, <1>7, <1>9, <2>2
    <3> QED
      BY <3>1 DEF CallOK, AnswerOK
  <2> QED
    BY <2>1, <2>2
<1>14. ASSUME NEW s \in Requests PROVE Quiet(s)
  <2>1. CASE s # r
    BY <1>9, <2>1 DEF Quiet
  <2>2. CASE s = r
    <3>1. req'[r].feedback \notin DOMAIN feedback
      BY <1>5, <1>7, <1>9, <1>10
    <3>2. req'[r].at \notin {"update_form", "notify_employee"}
      BY <1>7, <1>9
    <3> QED
      BY <1>9, <1>13, <2>2, <3>1, <3>2 DEF Quiet
  <2> QED
    BY <2>1, <2>2
<1> QED
  BY <1>1, <1>11, <1>12, <1>14, QuietStep

LEMMA NotifyFeedbackStep ==
  ASSUME WorkflowInv, NEW r \in Requests, notify_feedback(r)
  PROVE  WorkflowInv'
<1> DEFINE new == Len(notifications) + 1
<1> PICK i \in Nat : i = req[r].feedback
  BY Typed DEF WorkflowInv
<1>1. /\ TypeOK /\ req[r].at = "notify_feedback" /\ i \in DOMAIN feedback
      /\ Acts(feedback[i]) /\ req[r].form = 0 /\ req[r].notification = 0
  BY DEF WorkflowInv, CallsInv, CallOK, notify_feedback
<1>2. /\ forms' = forms /\ feedback' = feedback /\ racers' = racers
      /\ Notify(feedback[i].action, i) \/ notifications' = notifications
  BY DEF notify_feedback
<1>3. /\ req' \in [Requests -> Request]
      /\ \A s \in Requests : s # r => req'[s] = req[s]
      /\ req'[r].form = 0 /\ req'[r].notification = 0
      /\ req'[r].at = "done" /\ req'[r].answer = 200
  <2>1. 200 \in Answers
    BY DEF Answers
  <2> QED
    BY <1>1, <2>1, OthersStay DEF notify_feedback
<1>4. CallOK(r)' /\ AnswerOK(r)'
  BY <1>3 DEF CallOK, AnswerOK
<1>5. CASE notifications' = notifications
  <2>1. UNCHANGED tables
    BY <1>2, <1>5 DEF tables
  <2>2. TypeOK'
    BY <1>1, <1>2, <1>3, <1>5 DEF TypeOK
  <2>3. \A s \in Requests : Quiet(s)
    BY <1>3, <1>4 DEF Quiet
  <2> QED
    BY <1>2, <1>5, <2>1, <2>2, <2>3, SameTables, QuietStep
<1>6. CASE Notify(feedback[i].action, i)
  <2>1. feedback[i].action \in {"accepted", "rejected"}
    BY <1>1 DEF Acts
  <2>2. /\ notifications' \in Seq(Notification)
        /\ Len(notifications') =< MaxNotifications
        /\ DOMAIN notifications' = DOMAIN notifications \union {new}
        /\ new \notin DOMAIN notifications
        /\ \A n \in DOMAIN notifications : notifications'[n] = notifications[n]
        /\ notifications'[new].action = feedback[i].action /\ notifications'[new].of = i
        /\ Keeps
    BY <1>1, <1>2, <1>6, <2>1, Appended
  <2>3. TypeOK'
    BY <1>1, <1>2, <1>3, <2>2 DEF TypeOK
  <2>4. CallsInv'
    <3>1. \A s \in Requests : s # r => CallOK(s)' /\ AnswerOK(s)'
      BY <1>3, <2>2, KeepCall DEF WorkflowInv, CallsInv
    <3> QED
      BY <1>4, <3>1 DEF CallsInv
  <2>5. NoticesInv'
    <3> SUFFICES ASSUME NEW n \in DOMAIN notifications' PROVE NoticeOK(n)'
      BY DEF NoticesInv
    <3>1. CASE n \in DOMAIN notifications
      BY <2>2, <3>1, KeepNotice DEF WorkflowInv, NoticesInv
    <3>2. CASE n = Len(notifications) + 1
      BY <1>1, <1>2, <2>1, <2>2, <3>2 DEF NoticeOK, Acts
    <3> QED
      BY <2>2, <3>1, <3>2
  <2>6. TallyInv'
    <3> SUFFICES ASSUME NEW g \in DOMAIN forms', forms'[g].status = "submitted"
                 PROVE  /\ Active(g)' \subseteq racers'[g]
                        /\ Tally(g)' =< Cardinality(racers'[g])
      BY DEF TallyInv
    <3>1. /\ g \in DOMAIN forms /\ racers'[g] = racers[g]
          /\ Active(g) \subseteq racers[g] /\ Tally(g) =< Cardinality(racers[g])
      BY <1>2 DEF WorkflowInv, TallyInv
    <3>2. NoticesOf(g)' = NoticesOf(g)
      BY <2>1, <2>2 DEF NoticesOf
    <3>3. Active(g)' \subseteq Active(g)
      BY <1>3 DEF Active
    <3> QED
      BY <1>1, <2>3, <3>1, <3>2, <3>3, KeepTally
  <2>7. FeedbackInv'
    <3>1. \A n \in DOMAIN notifications : ~Reports(n, i)
      BY <1>1 DEF WorkflowInv, FeedbackInv
    <3>2. \A s \in Requests : s # r /\ req[s].at = "notify_feedback" =>
            req[s].feedback # i
      BY <1>1 DEF WorkflowInv, FeedbackInv
    <3>3. \A n, m \in DOMAIN notifications', j \in DOMAIN feedback' :
            Reports(n, j)' /\ Reports(m, j)' => n = m
      BY <1>2, <2>2, <3>1 DEF WorkflowInv, FeedbackInv, Reports
    <3>4. ASSUME NEW s \in Requests, NEW n \in DOMAIN notifications',
                 req'[s].at = "notify_feedback"
          PROVE  ~Reports(n, req[s].feedback)'
      <4>1. s # r /\ req'[s] = req[s]
        BY <1>3, <3>4
      <4> QED
        BY <2>2, <3>2, <3>4, <4>1 DEF WorkflowInv, FeedbackInv, Reports
    <3>5. \A s, t \in Requests :
            req'[s].at = "notify_feedback" /\ req'[t].at = "notify_feedback"
            /\ req'[s].feedback = req'[t].feedback => s = t
      BY <1>3 DEF WorkflowInv, FeedbackInv
    <3> QED
      BY <3>3, <3>4, <3>5 DEF FeedbackInv
  <2> QED
    BY <2>3, <2>4, <2>5, <2>6, <2>7 DEF WorkflowInv
<1> QED
  BY <1>2, <1>5, <1>6

LEMMA NextInv == WorkflowInv /\ [Next]_vars => WorkflowInv'
<1> SUFFICES ASSUME WorkflowInv, [Next]_vars PROVE WorkflowInv'
  OBVIOUS
<1>1. ASSUME NEW r \in Requests, FormStep(r) PROVE WorkflowInv'
  BY <1>1, CreateStep, InsertFormStep, MarkLinkedStep, SubmitStep, CheckStep,
     UpdateStep, NotifyStep DEF FormStep
<1>2. ASSUME NEW r \in Requests, FeedbackStep(r) PROVE WorkflowInv'
  BY <1>2, SubmitFeedbackStep, InsertFeedbackStep, NotifyFeedbackStep DEF FeedbackStep
<1>3. ASSUME NEW r \in Requests, Fail(r) PROVE WorkflowInv'
  BY <1>3, FailStep
<1>4. CASE mark_notification_read
  BY <1>4, MarkStep DEF mark_notification_read
<1>5. CASE mark_all_read
  BY <1>5, MarkStep DEF mark_all_read
<1>6. CASE Crash
  BY <1>6, CrashStep
<1>7. CASE UNCHANGED vars
  <2>1. UNCHANGED tables /\ UNCHANGED racers /\ req' = req
    BY <1>7 DEF vars
  <2>2. TypeOK'
    BY <2>1, SameTables DEF WorkflowInv, TypeOK
  <2> QED
    BY <2>1, <2>2, SameTables, QuietStep DEF Quiet
<1> QED
  BY <1>1, <1>2, <1>3, <1>4, <1>5, <1>6, <1>7 DEF Next

-----------------------------------------------------------------------------
(* Theorems.                                                               *)

\* The strengthening holds of every reachable state.
THEOREM WorkflowInvariance == Spec => []WorkflowInv
<1> QED
  BY InitInv, NextInv, PTL DEF Spec

LEMMA InvImpliesSafe == WorkflowInv => WorkflowSafe
<1> SUFFICES ASSUME WorkflowInv PROVE WorkflowSafe
  OBVIOUS
<1> USE DEF WorkflowInv
<1>1. SubmissionNotified
  <2> SUFFICES ASSUME NEW r \in Requests, req[r].form # 0, req[r].answer = 200
               PROVE  NoticesOf(req[r].form) # {}
    BY DEF SubmissionNotified
  <2> QED
    BY DEF CallsInv, AnswerOK, NoticesOf
<1>2. NoticesBounded
  <2> SUFFICES ASSUME NEW f \in DOMAIN forms
               PROVE  Cardinality(NoticesOf(f)) =< Cardinality(racers[f])
    BY DEF NoticesBounded
  <2>1. f \in 1..MaxForms
    BY Rows
  <2>2. CASE forms[f].status = "submitted"
    BY <2>1, <2>2, Finite DEF TallyInv, Tally
  <2>3. CASE forms[f].status # "submitted"
    <3>1. NoticesOf(f) = {}
      BY <2>3 DEF NoticesOf, NoticesInv, NoticeOK
    <3> QED
      BY <2>1, <3>1, Finite, FS_EmptySet
  <2> QED
    BY <2>2, <2>3
<1>3. AnsweredFormRead
  BY DEF AnsweredFormRead, CallsInv, AnswerOK
<1>4. OneNoticePerFeedback
  <2> SUFFICES ASSUME NEW i \in DOMAIN feedback
               PROVE  LET told == {n \in DOMAIN notifications : Reports(n, i)}
                      IN Cardinality(told) =< 1 /\ (~Acts(feedback[i]) => told = {})
    BY DEF OneNoticePerFeedback, Reports
  <2> DEFINE told == {n \in DOMAIN notifications : Reports(n, i)}
  <2>1. told = {} \/ \E n : told = {n}
    BY DEF FeedbackInv
  <2>2. Cardinality(told) =< 1
    <3>1. CASE told = {}
      BY <3>1, FS_EmptySet
    <3>2. ASSUME NEW n, told = {n} PROVE Cardinality(told) = 1
      BY <3>2, FS_Singleton
    <3> HIDE DEF told
    <3> QED
      BY <2>1, <3>1, <3>2, FS_EmptySet
  <2>3. ~Acts(feedback[i]) => told = {}
    BY DEF NoticesInv, NoticeOK, Reports
  <2> QED
    BY <2>2, <2>3
<1> QED
  BY <1>1, <1>2, <1>3, <1>4 DEF WorkflowSafe

\* WorkflowCorrect: the notifications fit the forms and the feedback in every state
\* (routers/workflow.py and submit_feedback), for any number of requests.
THEOREM WorkflowCorrect == Spec => []WorkflowSafe
<1> QED
  BY WorkflowInvariance, InvImpliesSafe, PTL

\* OnlyRacersOverwrite: submit_form replaces what a customer submitted only for a
\* request that had read the form as pending before.
THEOREM OnlyRacersOverwrite == Spec => OverwriteNeedsRace
<1>1. ASSUME WorkflowInv, [Next]_vars
      PROVE  [\A f \in DOMAIN forms :
                forms[f].status = "submitted" /\ forms'[f] # forms[f] =>
                  \E r \in racers[f] : req[r].at = "update_form" /\ req[r].form = f]_vars
  <2> SUFFICES ASSUME Next, NEW f \in DOMAIN forms, forms[f].status = "submitted",
                      forms'[f] # forms[f]
               PROVE  \E r \in racers[f] : req[r].at = "update_form" /\ req[r].form = f
    BY <1>1
  <2>1. forms \in Seq(Form)
    BY <1>1 DEF WorkflowInv, TypeOK
  <2>2. ASSUME NEW r \in Requests, FormStep(r) PROVE update_form(r)
    <3>1. CASE insert_form(r)
      <4>1. \E row : forms' = Append(forms, row)
        BY <3>1 DEF insert_form
      <4>2. forms'[f] = forms[f]
        BY <2>1, <4>1
      <4> QED
        BY <4>2
    <3> QED
      BY <2>2, <3>1 DEF FormStep, create_form, submit_form, Call, mark_linked_read,
                        check_form, notify_employee, tables
  <2>3. ASSUME NEW r \in Requests, update_form(r)
        PROVE  r \in racers[f] /\ req[r].at = "update_form" /\ req[r].form = f
    <3>1. req[r].form = f
      BY <2>1, <2>3 DEF update_form
    <3>2. r \in Active(f)
      BY <2>3, <3>1 DEF update_form, Active
    <3> QED
      BY <1>1, <2>3, <3>1, <3>2 DEF WorkflowInv, TallyInv, update_form
  <2> QED
    BY <2>2, <2>3 DEF Next, FeedbackStep, submit_feedback, Call, insert_feedback,
                      notify_feedback, Fail, mark_notification_read, mark_all_read,
                      Crash, tables
<1> QED
  BY <1>1, WorkflowInvariance, PTL DEF Spec, OverwriteNeedsRace
=============================================================================
