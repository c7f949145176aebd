----------------------------- MODULE Workflow -----------------------------
(***************************************************************************)
(* The employee-customer workflow: application forms and the notifications *)
(* employees see (routers/workflow.py), and the feedback endpoint of       *)
(* routers/compliance.py that creates the others.                          *)
(*                                                                         *)
(* A handler opens one session and commits it up to twice, so what it has  *)
(* stored stays when its second transaction fails.  Requests interleave at *)
(* every statement that awaits the database; an UPDATE or INSERT and the   *)
(* commit right after it are one step.                                     *)
(***************************************************************************)
EXTENDS Naturals, Sequences, FiniteSets

CONSTANTS
  Requests,           \* requests the API serves at the same time
  Data,               \* what a customer may fill into a form
  NoData,             \* submitted_data is NULL
  MaxForms,           \* bound: rows of application_forms
  MaxNotifications,   \* bound: rows of notifications
  MaxFeedback         \* bound: rows of recommendation_feedback

ASSUME RequestsAssumption == IsFiniteSet(Requests)
ASSUME DataAssumption == NoData \notin Data
ASSUME BoundsAssumption ==
  {MaxForms, MaxNotifications, MaxFeedback} \subseteq Nat

VARIABLES
  forms,          \* application_forms; a form's id is its index
  notifications,  \* notifications, by id
  feedback,       \* recommendation_feedback, by id
  req,            \* the requests: what was called, where it is, its answer
  racers          \* history: form -> requests past their check when it was submitted

tables == <<forms, notifications, feedback>>
vars == <<tables, req, racers>>

Steps == {"idle", "insert_form", "mark_read", "check_form", "update_form",
          "notify_employee", "insert_feedback", "notify_feedback", "done"}
Form == [status : {"pending", "submitted"}, data : Data \union {NoData},
         notification : 0..MaxNotifications]
\* of is the form or the feedback the notification is about.
Notification == [action : {"accepted", "rejected", "submitted"},
                 read : BOOLEAN, of : Nat]
Feedback == [actor : {"customer", "employee"},
             action : {"accepted", "rejected", "flagged", "overridden"}]
Answers == {0, 200, 400, 404, 500}  \* 0: not answered yet
Request == [at : Steps, form : 0..MaxForms, notification : 0..MaxNotifications,
            data : Data \union {NoData}, feedback : 0..MaxFeedback,
            answer : Answers]
Idle == [at |-> "idle", form |-> 0, notification |-> 0, data |-> NoData,
         feedback |-> 0, answer |-> 0]

TypeOK ==
  /\ forms \in Seq(Form) /\ Len(forms) =< MaxForms
  /\ notifications \in Seq(Notification) /\ Len(notifications) =< MaxNotifications
  /\ feedback \in Seq(Feedback) /\ Len(feedback) =< MaxFeedback
  /\ req \in [Requests -> Request]
  /\ racers \in [1..MaxForms -> SUBSET Requests]

Init ==
  /\ forms = <<>> /\ notifications = <<>> /\ feedback = <<>>
  /\ req = [r \in Requests |-> Idle]
  /\ racers = [f \in 1..MaxForms |-> {}]

-----------------------------------------------------------------------------
(* Requests.                                                               *)

Free(r) == req[r].at \in {"idle", "done"}

\* A call begins with the arguments of its body.
Call(r, call) ==
  /\ Free(r)
  /\ req' = [req EXCEPT ![r] = call]
  /\ UNCHANGED <<tables, racers>>

GoOn(r, step) == req' = [req EXCEPT ![r].at = step]
Respond(r, status) ==
  req' = [req EXCEPT ![r].at = "done", ![r].answer = status]

\* A statement or a commit fails: the transaction is rolled back, and every
\* handler but the second half of submit_feedback answers 500.
Fail(r) ==
  /\ ~Free(r)
  /\ req[r].at # "notify_feedback"
  /\ Respond(r, 500)
  /\ UNCHANGED <<tables, racers>>

\* The API process dies with every request it serves.
Crash ==
  /\ \E r \in Requests : ~Free(r)
  /\ req' = [r \in Requests |-> Idle]
  /\ UNCHANGED <<tables, racers>>

-----------------------------------------------------------------------------
(* Application forms.                                                      *)

create_form(r) ==
  \E n \in 0..MaxNotifications : Call(r, [Idle EXCEPT !.at = "insert_form", !.notification = n])

\* The foreign key refuses a notification that does not exist.
insert_form(r) ==
  /\ req[r].at = "insert_form"
  /\ Len(forms) < MaxForms
  /\ req[r].notification \in {0} \union DOMAIN notifications
  /\ forms' = Append(forms, [status |-> "pending", data |-> NoData,
                             notification |-> req[r].notification])
  /\ IF req[r].notification = 0
     THEN Respond(r, 200)
     ELSE GoOn(r, "mark_read")
  /\ UNCHANGED <<notifications, feedback, racers>>

\* Faulty variant: a failure to mark the notification is swallowed.
mark_linked_read_Swallowed(r) ==
  /\ req[r].at = "mark_read"
  /\ \/ notifications' = [notifications EXCEPT ![req[r].notification].read = TRUE]
     \/ UNCHANGED notifications
  /\ Respond(r, 200)
  /\ UNCHANGED <<forms, feedback, racers>>

\* A transaction of its own: when it fails the form stays.
mark_linked_read(r) ==
  /\ req[r].at = "mark_read"
  /\ notifications' = [notifications EXCEPT ![req[r].notification].read = TRUE]
  /\ Respond(r, 200)
  /\ UNCHANGED <<forms, feedback, racers>>

submit_form(r) ==
  \E f \in 1..MaxForms, d \in Data :
    Call(r, [Idle EXCEPT !.at = "check_form", !.form = f, !.data = d])

\* Faulty variant: the status of the form is not looked at.
check_form_ExistsOnly(r) ==
  /\ req[r].at = "check_form"
  /\ IF req[r].form \notin DOMAIN forms
     THEN Respond(r, 404)
     ELSE GoOn(r, "update_form")
  /\ UNCHANGED <<tables, racers>>

check_form(r) ==
  /\ req[r].at = "check_form"
  /\ IF req[r].form \notin DOMAIN forms
     THEN Respond(r, 404)
     ELSE IF forms[req[r].form].status # "pending"
     THEN Respond(r, 400)
     ELSE GoOn(r, "update_form")
  /\ UNCHANGED <<tables, racers>>

\* The requests for form f whose check is over.
Checked(f) ==
  {r \in Requests : req[r].at = "update_form" /\ req[r].form = f}

\* Faulty variant: the form is approved with its submission.
update_form_Approves(r) ==
  /\ req[r].at = "update_form"
  /\ forms' = [forms EXCEPT ![req[r].form].status = "approved",
                            ![req[r].form].data = req[r].data]
  /\ racers' = [racers EXCEPT ![req[r].form] = Checked(req[r].form)]
  /\ GoOn(r, "notify_employee")
  /\ UNCHANGED <<notifications, feedback>>

\* The UPDATE does not ask for the status again.
update_form(r) ==
  /\ req[r].at = "update_form"
  /\ forms' = [forms EXCEPT ![req[r].form].status = "submitted",
                            ![req[r].form].data = req[r].data]
  /\ racers' = IF forms[req[r].form].status = "pending"
               THEN [racers EXCEPT ![req[r].form] = Checked(req[r].form)]
               ELSE racers
  /\ GoOn(r, "notify_employee")
  /\ UNCHANGED <<notifications, feedback>>

Notify(action, of) ==
  /\ Len(notifications) < MaxNotifications
  /\ notifications' = Append(notifications,
                        [action |-> action, read |-> FALSE, of |-> of])

\* Faulty variant: a failure to notify is swallowed, as in submit_feedback.
notify_employee_Swallowed(r) ==
  /\ req[r].at = "notify_employee"
  /\ Notify("submitted", req[r].form) \/ UNCHANGED notifications
  /\ Respond(r, 200)
  /\ UNCHANGED <<forms, feedback, racers>>

\* The second transaction of submit_form.
notify_employee(r) ==
  /\ req[r].at = "notify_employee"
  /\ Notify("submitted", req[r].form)
  /\ Respond(r, 200)
  /\ UNCHANGED <<forms, feedback, racers>>

-----------------------------------------------------------------------------
(* Notifications.  Listing and counting them changes nothing.              *)

mark_notification_read ==
  /\ \E n \in DOMAIN notifications :
       notifications' = [notifications EXCEPT ![n].read = TRUE]
  /\ UNCHANGED <<forms, feedback, req, racers>>

mark_all_read ==
  /\ notifications' = [n \in DOMAIN notifications |->
                         [notifications[n] EXCEPT !.read = TRUE]]
  /\ UNCHANGED <<forms, feedback, req, racers>>

-----------------------------------------------------------------------------
(* Feedback on recommendations.                                            *)

\* An action or an actor outside the enumerations is answered 400 at once.
submit_feedback(r) ==
  \/ Call(r, [Idle EXCEPT !.at = "insert_feedback"])
  \/ Call(r, [Idle EXCEPT !.at = "done", !.answer = 400])

Acts(fb) == fb.actor = "customer" /\ fb.action \in {"accepted", "rejected"}

insert_feedback(r) ==
  /\ req[r].at = "insert_feedback"
  /\ Len(feedback) < MaxFeedback
  /\ \E fb \in Feedback :
       /\ feedback' = Append(feedback, fb)
       /\ req' = [req EXCEPT
            ![r].feedback = Len(feedback) + 1,
            ![r].at = IF Acts(fb) THEN "notify_feedback" ELSE "done",
            ![r].answer = IF Acts(fb) THEN 0 ELSE 200]
  /\ UNCHANGED <<forms, notifications, racers>>

\* Faulty variant: employees are told of what employees do as well.
notify_feedback_Twice(r) ==
  /\ req[r].at = "notify_feedback"
  /\ Notify(feedback[req[r].feedback].action, req[r].feedback)
  /\ GoOn(r, "notify_feedback") \/ Respond(r, 200)
  /\ UNCHANGED <<forms, feedback, racers>>

\* The lookup of the product's name or the INSERT may fail: the answer is the same.
notify_feedback(r) ==
  /\ req[r].at = "notify_feedback"
  /\ \/ Notify(feedback[req[r].feedback].action, req[r].feedback)
     \/ UNCHANGED notifications
  /\ Respond(r, 200)
  /\ UNCHANGED <<forms, feedback, racers>>

FormStep(r) ==
  \/ create_form(r) \/ insert_form(r) \/ mark_linked_read(r)
  \/ submit_form(r) \/ check_form(r) \/ update_form(r) \/ notify_employee(r)
FeedbackStep(r) ==
  submit_feedback(r) \/ insert_feedback(r) \/ notify_feedback(r)

Next ==
  \/ \E r \in Requests : FormStep(r) \/ FeedbackStep(r) \/ Fail(r)
  \/ mark_notification_read
  \/ mark_all_read
  \/ Crash

Spec == Init /\ [][Next]_vars

-----------------------------------------------------------------------------
(* Properties.                                                             *)

NoticesOf(f) == {n \in DOMAIN notifications :
                   notifications[n].action = "submitted"
                   /\ notifications[n].of = f}

\* SubmissionNotified: a submission answered 200 has put a notification of the
\* form before the employees, although form and notification are committed
\* apart and requests for one form may overlap.
SubmissionNotified ==
  \A r \in Requests :
    req[r].form # 0 /\ req[r].answer = 200 => NoticesOf(req[r].form) # {}

\* NoticesBounded: a form is reported submitted at most once per request that
\* had passed its check when the form was first submitted; a call that comes
\* later, a retry after a failure included, is refused and reports nothing.
NoticesBounded ==
  \A f \in DOMAIN forms : Cardinality(NoticesOf(f)) =< Cardinality(racers[f])

\* OverwriteNeedsRace: what a customer submitted is replaced only by a request
\* that read the form as pending before it was submitted.
OverwriteNeedsRace ==
  [][\A f \in DOMAIN forms :
       forms[f].status = "submitted" /\ forms'[f] # forms[f] =>
         \E r \in racers[f] : req[r].at = "update_form" /\ req[r].form = f]_vars

\* AnsweredFormRead: once create_form answers 200 the notification the form
\* answers is read, and no request turns it unread again.
AnsweredFormRead ==
  \A r \in Requests :
    req[r].answer = 200 /\ req[r].notification # 0 =>
      notifications[req[r].notification].read

\* OneNoticePerFeedback: an accepted or rejected offer is reported at most
\* once, and nothing else a customer or an employee says of it ever is.
OneNoticePerFeedback ==
  \A i \in DOMAIN feedback :
    LET told == {n \in DOMAIN notifications :
                   notifications[n].action # "submitted"
                   /\ notifications[n].of = i}
    IN /\ Cardinality(told) =< 1
       /\ ~Acts(feedback[i]) => told = {}

\* WorkflowSafe: the notifications fit the forms and the feedback, for any overlap of
\* requests, failures between two commits and crashes.
WorkflowSafe ==
  /\ TypeOK
  /\ SubmissionNotified
  /\ NoticesBounded
  /\ AnsweredFormRead
  /\ OneNoticePerFeedback

-----------------------------------------------------------------------------
(* What the repository says of the workflow and the code does not do.      *)

AllDone == \A r \in Requests : Free(r)

\* EveryActNotified: schema.sql:271, "Notifications sent to employees when customers
\* act on offers": once nothing is in progress each act has its notification.
EveryActNotified ==
  AllDone =>
    \A i \in DOMAIN feedback : Acts(feedback[i]) =>
      \E n \in DOMAIN notifications :
        notifications[n].action = feedback[i].action /\ notifications[n].of = i

\* EverySubmissionNotified: workflow.py:300, "Create notification for the employee
\* that form was submitted".
EverySubmissionNotified ==
  AllDone =>
    \A f \in DOMAIN forms : forms[f].status = "submitted" => NoticesOf(f) # {}

\* SubmittedOnce: workflow.py:274, "Verify form exists and is pending": a form that is
\* not pending any more is not submitted again.
SubmittedOnce ==
  [][\A f \in DOMAIN forms :
       forms[f].status = "submitted" => forms'[f] = forms[f]]_vars
=============================================================================
