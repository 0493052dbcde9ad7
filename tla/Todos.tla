--------------------------------- MODULE Todos ------------------------------
(***************************************************************************)
(* GET /v2/agents/:address/todos: what an agent still has to do or waits   *)
(* for, computed twice.  Without a database from a snapshot of the engine  *)
(* (apps/server/src/api/todos.ts, todos/read-model.ts), with one by three  *)
(* SQL statements (infra/state-repository-todo-helpers.ts).                *)
(*                                                                         *)
(* The engine is extended with what only the todos read: the agents a task *)
(* mentions, who opened a dispute and whether the other party has answered.*)
(* Deadlines are read as passed or not: at the very instant of its deadline*)
(* a task is in neither the cleanup nor the waiting group.                 *)
(***************************************************************************)
EXTENDS Engine

CONSTANTS
  Targets         \* agents a task may mention

VARIABLES
  mention,        \* per task and agent: the status of its target mention
  opener,         \* openerAddress of a dispute
  answered        \* disputes with a counterpartyReasonMd

todoVars == <<mention, opener, answered>>
vars == <<engineVars, todoVars>>

-----------------------------------------------------------------------------
(* The groups.                                                             *)

ActionRequired == {"targeted_task_mention", "latest_rejected_submission_no_followup",
  "open_dispute_counterparty_response_required", "published_task_submission_pending_review",
  "expired_published_task_cleanup_required", "intended_task_never_submitted"}

Waiting == {"submitted_submission_waiting_review", "published_task_waiting_new_submission",
  "open_dispute_waiting_resolution"}

\* resolveDisputeCounterparty
Counterparty(x) ==
  IF opener[x] = DispPublisher(db, x) THEN DispWorker(db, x) ELSE DispPublisher(db, x)

SelectLatestSubmissionByTaskAndAgent(subs) ==
  {s \in subs : \A o \in subs :
     db.sub[o].task = db.sub[s].task /\ db.sub[o].agent = db.sub[s].agent => o <= s}

\* What the route picks from the engine's snapshot for an agent.
RecordsOf(a) ==
  [tasks |-> {t \in Existing(db.task) : db.task[t].publisher = a \/ a \in db.task[t].intents},
   submissions |-> {s \in Existing(db.sub) : a \in {db.sub[s].agent, TaskOf(db, s).publisher}},
   disputes |-> {x \in Disps : /\ db.disp[x].status = "OPEN"
                               /\ a \in {opener[x], DispPublisher(db, x), DispWorker(db, x)}}]

BuildTodosResponse(a) ==
  LET records == RecordsOf(a)
      tasks == records.tasks
      submissions == records.submissions
      openDisputes == records.disputes
      active == {t \in tasks : db.task[t].status \in ActiveTask}
      actorSubmissions == {s \in submissions : db.sub[s].agent = a}
      pendingReview == {s \in submissions : /\ TaskOf(db, s).publisher = a
                                            /\ db.sub[s].status = "SUBMITTED"}
      pendingReviewTasks == {db.sub[s].task : s \in pendingReview}
      openDisputeTasks == {DispTask(db, x) : x \in {y \in openDisputes : DispPublisher(db, y) = a}}
      unattended == {t \in active : /\ db.task[t].publisher = a
                                    /\ t \notin pendingReviewTasks \cup openDisputeTasks}
  IN [targeted_task_mention |->
        {t \in Existing(db.task) \ expired :
           /\ mention[t][a] = "OPEN"
           /\ db.task[t].status \in ActiveTask
           /\ a \notin db.task[t].intents},
      latest_rejected_submission_no_followup |->
        {s \in SelectLatestSubmissionByTaskAndAgent(actorSubmissions) :
           /\ db.sub[s].status = "REJECTED"
           /\ \A x \in openDisputes : db.disp[x].sub # s},
      open_dispute_counterparty_response_required |->
        {x \in openDisputes : Counterparty(x) = a /\ x \notin answered},
      published_task_submission_pending_review |-> pendingReview,
      expired_published_task_cleanup_required |-> unattended \cap expired,
      intended_task_never_submitted |->
        {t \in active \ expired : /\ a \in db.task[t].intents
                                  /\ \A s \in actorSubmissions : db.sub[s].task # t},
      submitted_submission_waiting_review |->
        {s \in actorSubmissions : db.sub[s].status = "SUBMITTED"},
      published_task_waiting_new_submission |-> unattended \ expired,
      open_dispute_waiting_resolution |->
        {x \in openDisputes : opener[x] = a \/ (Counterparty(x) = a /\ x \in answered)}]

-----------------------------------------------------------------------------
(* The same by SQL, one statement per family.                              *)

BuildSubmissionTodoBranches(g, a) ==
  {s \in Existing(db.sub) :
     CASE g = "latest_rejected_submission_no_followup" ->
            /\ db.sub[s].agent = a
            /\ \A o \in Existing(db.sub) :
                 db.sub[o].agent = a /\ db.sub[o].task = db.sub[s].task => o <= s
            /\ db.sub[s].status = "REJECTED"
            /\ ~OpenDisputeOnSub(db, s)
       [] g = "published_task_submission_pending_review" ->
            db.sub[s].status = "SUBMITTED" /\ TaskOf(db, s).publisher = a
       [] g = "submitted_submission_waiting_review" ->
            db.sub[s].status = "SUBMITTED" /\ db.sub[s].agent = a}

BuildTaskTodoBranches(g, a) ==
  {t \in Existing(db.task) :
     /\ db.task[t].status \in ActiveTask
     /\ CASE g = "targeted_task_mention" ->
               mention[t][a] = "OPEN" /\ t \notin expired /\ a \notin db.task[t].intents
          [] g = "intended_task_never_submitted" ->
               /\ a \in db.task[t].intents /\ t \notin expired
               /\ \A s \in Existing(db.sub) : ~(db.sub[s].task = t /\ db.sub[s].agent = a)
          [] OTHER ->
               /\ db.task[t].publisher = a
               /\ ~SubmittedOnTask(db, t)
               /\ ~OpenDisputeOnTask(db, t)
               /\ g = "expired_published_task_cleanup_required" <=> t \in expired}

\* Fault: who has answered does not see the dispute any more.
DisputeTodosOfOpener(g, a) ==
  {x \in Disps :
     /\ db.disp[x].status = "OPEN"
     /\ CASE g = "open_dispute_counterparty_response_required" ->
               x \notin answered /\ Counterparty(x) = a
          [] OTHER -> opener[x] = a}

\* counterpartyResponderAddress is the counterparty, once there is an answer.
BuildDisputeTodoBranches(g, a) ==
  {x \in Disps :
     /\ db.disp[x].status = "OPEN"
     /\ CASE g = "open_dispute_counterparty_response_required" ->
               /\ x \notin answered
               /\ \/ opener[x] = DispPublisher(db, x) /\ DispWorker(db, x) = a
                  \/ /\ opener[x] # DispPublisher(db, x)
                     /\ opener[x] = DispWorker(db, x)
                     /\ DispPublisher(db, x) = a
          [] OTHER ->
               opener[x] = a \/ (x \in answered /\ Counterparty(x) = a /\ opener[x] # a)}

QueryTodosDirect(a) ==
  [g \in ActionRequired \cup Waiting |->
     CASE g \in {"latest_rejected_submission_no_followup",
                 "published_task_submission_pending_review",
                 "submitted_submission_waiting_review"} -> BuildSubmissionTodoBranches(g, a)
       [] g \in {"open_dispute_counterparty_response_required",
                 "open_dispute_waiting_resolution"} -> BuildDisputeTodoBranches(g, a)
       [] OTHER -> BuildTaskTodoBranches(g, a)]

-----------------------------------------------------------------------------
TodoInit ==
  /\ Init
  /\ mention = [t \in Tasks |-> [a \in Agents |-> "NONE"]]
  /\ opener = [x \in Disps |-> NoOne]
  /\ answered = {}

\* The agents a publication names; they have to be active.
Mention(t, publisher, targets) ==
  /\ publisher \notin targets
  /\ mention' = [mention EXCEPT ![t] = [a \in Agents |-> IF a \in targets THEN "OPEN" ELSE "NONE"]]

Publish ==
  /\ Publication
  /\ \E targets \in SUBSET {a \in Targets : ~Banned(db, a)} :
       \E t \in Existing(db'.task) \ Existing(db.task) : Mention(t, db'.task[t].publisher, targets)
  /\ UNCHANGED <<opener, answered>>

Dispute ==
  /\ \E x \in Disps, s \in Subs, a \in Agents :
       OpenDispute(x, s, a) /\ opener' = [opener EXCEPT ![x] = a]
  /\ UNCHANGED <<mention, answered>>

Handle == Handling /\ UNCHANGED todoVars

CanRespond(x, a) ==
  /\ RequireActiveAgentForWrite(a)
  /\ db.disp[x].status = "OPEN"
  /\ a = Counterparty(x)
  /\ x \notin answered

RespondDispute(x) ==
  /\ \E a \in Agents : CanRespond(x, a)
  /\ answered' = answered \cup {x}
  /\ UNCHANGED <<engineVars, mention, opener>>

DismissTaskTargetMention(t, a) ==
  /\ RequireActiveAgentForWrite(a)
  /\ mention[t][a] = "OPEN"
  /\ mention' = [mention EXCEPT ![t][a] = "DISMISSED"]
  /\ UNCHANGED <<engineVars, opener, answered>>

TodoNext ==
  \/ Publish \/ Dispute \/ Handle
  \/ Passing /\ UNCHANGED todoVars
  \/ \E x \in Disps : RespondDispute(x)
  \/ \E t \in Tasks, a \in Targets : DismissTaskTargetMention(t, a)

-----------------------------------------------------------------------------
\* Every variable has its type; a task mentions others than its publisher, and a
\* dispute has been opened by one of its parties when it is answered.
TodosTyped ==
  /\ mention \in [Tasks -> [Agents -> {"NONE", "OPEN", "DISMISSED"}]]
  /\ opener \in [Disps -> Agents \cup {NoOne}]
  /\ \A t \in Tasks, a \in Agents :
       mention[t][a] # "NONE" => t \in Existing(db.task) /\ a # db.task[t].publisher
  /\ \A x \in answered :
       x \in Existing(db.disp) /\ opener[x] \in {DispPublisher(db, x), DispWorker(db, x)}

\* The engine and the database, asked in the same state, list the same todos for
\* everybody, although one filters a snapshot and the other joins tables.
TodosAgree == \A a \in Agents : BuildTodosResponse(a) = QueryTodosDirect(a)

\* What the todos tell an active agent to do, the engine lets it do.  Exceptions:
\* the publisher of the task is banned, or the task of a rejected submission was
\* terminated, in which case its todo stays for ever.
ActionPossible ==
  \A a \in {a \in Agents : ~Banned(db, a)} :
    LET todo == QueryTodosDirect(a)
        frozen(t) == Banned(db, db.task[t].publisher)
        free(rows) == Existing(rows) # DOMAIN rows
    IN /\ \A t \in todo.targeted_task_mention : frozen(t) \/ ENABLED AddTaskIntention(t, a)
       /\ \A s \in todo.latest_rejected_submission_no_followup :
            \/ ~free(db.disp)
            \/ TaskOf(db, s).status = "TERMINATED"
            \/ \E x \in Disps : ENABLED OpenDispute(x, s, a)
       /\ \A x \in todo.open_dispute_counterparty_response_required : CanRespond(x, a)
       /\ \A s \in todo.published_task_submission_pending_review : ENABLED RejectSubmission(s)
       /\ \A t \in todo.expired_published_task_cleanup_required : ENABLED TerminateTask(t)
       /\ \A t \in todo.intended_task_never_submitted :
            ~free(db.sub) \/ frozen(t) \/ \E s \in Subs : ENABLED SubmitTask(s, t, a)

\* Nothing that is open is missing: an active task shows its publisher itself, a
\* submission to review or a dispute, and the last submission of a worker on a
\* task, while it is not completed, shows the worker itself or its dispute.
NothingForgotten ==
  \A a \in Agents :
    LET todo == QueryTodosDirect(a)
        disputes == todo.open_dispute_counterparty_response_required
                    \cup todo.open_dispute_waiting_resolution
        own == {s \in Existing(db.sub) : db.sub[s].agent = a}
    IN /\ \A t \in Existing(db.task) :
            db.task[t].publisher = a /\ db.task[t].status \in ActiveTask =>
              \/ t \in todo.expired_published_task_cleanup_required
                       \cup todo.published_task_waiting_new_submission
              \/ \E s \in todo.published_task_submission_pending_review : db.sub[s].task = t
              \/ \E x \in disputes : DispTask(db, x) = t
       /\ \A s \in SelectLatestSubmissionByTaskAndAgent(own) :
            db.sub[s].status \notin CompletedSub =>
              \/ s \in todo.submitted_submission_waiting_review
                       \cup todo.latest_rejected_submission_no_followup
              \/ \E x \in disputes : db.disp[x].sub = s
=============================================================================
