----------------------------- MODULE RunInspection -----------------------------
(***************************************************************************)
(* Browser tabs that start and watch runs: the console that extracts and    *)
(* confirms an investigation's fields, the dashboard and the trace that     *)
(* poll a run's snapshot, the event stream a trace listens to, and the      *)
(* broker that feeds it (apps/web/src/features/inspection,                  *)
(* api/v1/connector_router.py, live_events_router.py,                       *)
(* observability/live_event_broker.py, structured_logging.py).              *)
(*                                                                         *)
(* A run's row grows by the workflow's saves; a tab learns of them through  *)
(* its own requests, each of which the server reads at one moment and the   *)
(* tab receives at a later one, or never.                                  *)
(***************************************************************************)
EXTENDS Sequences, FiniteSets, SequencesExt, RunContracts

CONSTANTS
  Runs, Tabs, Questions,
  QueueMaxSize,          \* QUEUE_MAX_SIZE
  MaxShown,              \* MAX_BUFFERED_EVENTS
  MaxFollowUps,          \* MAX_FOLLOW_UPS_PER_CASE
  States, Steps,         \* what a save may record of an investigation and of a merge step
  Scenes,                \* the tabs and runs at first, and what of the bounds is used up
  MaxGenerations,        \* pages a tab opens, its resumed controllers among them
  MaxSaves, MaxEvents,   \* rows' versions; events of one run
  MaxStreams,            \* connections to the event stream
  MaxFailures,           \* requests the network or the database loses
  MaxExtractions         \* versions of the console's extraction

ASSUME InspectionAssumption ==
  /\ {QueueMaxSize, MaxShown} \subseteq Nat \ {0}
  /\ {MaxFollowUps, MaxGenerations, MaxSaves, MaxEvents, MaxStreams, MaxFailures, MaxExtractions} \subseteq Nat

(* A saved state and a saved step are ones their models could be built      *)
(* from: the workflows save nothing else.                                  *)
ASSUME SavesAssumption ==
  /\ \A state \in States : state # None /\ state.round \in Nat /\ StateAdmitted(state)
  /\ \A step \in Steps : step.status \in Statuses /\ StepAdmitted(step)

VARIABLES
  row,       \* each run's row, or None
  due,       \* runs whose merge workflow has saved its end and not yet said so
  tab,       \* each tab's page
  requests,  \* snapshots asked for, with the server's answer once it has read
  subs,      \* the broker's lists: per run its subscribers' queues in order
  queue,     \* what each subscription's queue holds
  emitted,   \* how many events each run has logged
  pub,       \* a worker thread's publication in progress, or None
  session,   \* whether the tabs' session is still signed in
  failures, streams

vars == <<row, due, tab, requests, subs, queue, emitted, pub, session, failures, streams>>
runVars == <<row, due>>
eventVars == <<subs, queue, emitted, pub, streams>>

-----------------------------------------------------------------------------
(* The server: rows, what a request reads of them, and the workflows.      *)

\* An anonymous reader sees the runs nobody owns; a user also those of their own.
Visible(r) == row[r] # None /\ (row[r].owned => session)

Snapshot(r) == [run |-> r, version |-> row[r].version, status |-> row[r].status]

\* The row as the API answers it; a completed merge run is explained as it is read.
Views(r) ==
  IF row[r].kind = "merge" /\ row[r].status = "completed"
    THEN {[row[r] EXCEPT !.explanation = "agrees"], [row[r] EXCEPT !.unexplained = TRUE]}
    ELSE {row[r]}

NewRow(kind, owned, request) ==
  [kind |-> kind, owned |-> owned, request |-> request, version |-> 1, status |-> "pending",
   started |-> FALSE, ended |-> FALSE, error |-> FALSE, results |-> 0, followUps |-> 0,
   state |-> None, step |-> None, provider |-> request.provider,
   explanation |-> None, unexplained |-> FALSE]

Rows ==
  [kind : {"investigation", "merge"}, owned : BOOLEAN,
   request : [question : Questions, fields : Questions, provider : OrNone(Providers)],
   version : Nat, status : Statuses, started : BOOLEAN, ended : BOOLEAN, error : BOOLEAN,
   results : Nat, followUps : Nat, state : OrNone(States), step : OrNone(Steps),
   provider : OrNone(Providers), explanation : {None}, unexplained : {FALSE}]

ASSUME NoneAssumption == None \notin Rows /\ None \notin {"agrees", "differs"}

Save(r, new) ==
  /\ row[r].version < MaxSaves
  /\ row' = [row EXCEPT ![r] = [new EXCEPT !.version = @ + 1]]

OffTheRow == <<tab, requests, session, failures>>

StartRun(r) ==
  /\ row[r] # None /\ row[r].status = "pending"
  /\ Save(r, [row[r] EXCEPT !.status = "running", !.started = TRUE])
  /\ UNCHANGED <<due, OffTheRow, eventVars>>

SaveProgress(r) ==
  /\ row[r] # None /\ row[r].status = "running" /\ row[r].version < MaxSaves - 1
  /\ IF row[r].kind = "merge"
       THEN \E step \in Steps : Save(r, [row[r] EXCEPT !.step = step])
       ELSE \E state \in States : Save(r, [row[r] EXCEPT !.state = state])
  /\ UNCHANGED <<due, OffTheRow, eventVars>>

Ended(r, status) == [row[r] EXCEPT !.status = status, !.ended = TRUE]

\* Publishing appends to every queue that has room.
Publish(r, event) ==
  queue' = [id \in DOMAIN queue |->
              IF id \in Range(subs[r]) /\ Len(queue[id]) < QueueMaxSize
                THEN Append(queue[id], event) ELSE queue[id]]

Event(r, terminal, threaded) ==
  [run |-> r, n |-> emitted[r] + 1, terminal |-> terminal, threaded |-> threaded]

Emit(r, terminal) ==
  /\ terminal \/ emitted[r] < MaxEvents
  /\ emitted' = [emitted EXCEPT ![r] = @ + 1]
  /\ Publish(r, Event(r, terminal, FALSE))
  /\ UNCHANGED <<subs, pub, streams>>

\* An investigation saves its end and logs it without giving way.  A cancelled
\* one is saved as it last stood and logs nothing.
InvestigationEnds(r) ==
  /\ row[r] # None /\ row[r].kind = "investigation" /\ row[r].status = "running"
  /\ \/ /\ \E state \in States :
             Save(r, [Ended(r, "completed") EXCEPT !.state = state, !.results = @ + 1])
        /\ Emit(r, TRUE)
     \/ /\ Save(r, [Ended(r, "failed") EXCEPT !.error = TRUE, !.state = None])
        /\ Emit(r, TRUE)
     \/ Save(r, Ended(r, "cancelled")) /\ UNCHANGED eventVars
  /\ UNCHANGED <<due, OffTheRow>>

\* A merge run's last save is awaited on a worker thread; the event comes after it.
MergeEnds(r) ==
  /\ row[r] # None /\ row[r].kind = "merge" /\ row[r].status = "running"
  /\ \/ Save(r, [Ended(r, "completed") EXCEPT !.results = 1])
     \/ Save(r, [Ended(r, "failed") EXCEPT !.error = TRUE])
  /\ due' = due \cup {r}
  /\ UNCHANGED <<OffTheRow, eventVars>>

RecordTerminal(r) ==
  /\ r \in due /\ due' = due \ {r}
  /\ Emit(r, TRUE)
  /\ UNCHANGED <<row, OffTheRow>>

\* A round, a tool call, a model's tokens, a rejected plan: each is logged on the loop.
RecordStep(r) ==
  /\ row[r] # None /\ row[r].status = "running"
  /\ Emit(r, FALSE)
  /\ UNCHANGED <<runVars, OffTheRow>>

\* A merge save that fails is logged by its worker thread, which walks the
\* broker's list while the loop may change it; the run stays as it was.
RecordPersistenceFailure(r) ==
  /\ pub = None /\ row[r] # None /\ row[r].kind = "merge" /\ row[r].status = "running"
  /\ emitted[r] < MaxEvents /\ emitted' = [emitted EXCEPT ![r] = @ + 1]
  /\ pub' = [event |-> Event(r, FALSE, TRUE), next |-> 1]
  /\ UNCHANGED <<runVars, OffTheRow, subs, queue, streams>>

PublishNext ==
  /\ pub # None
  /\ LET list == subs[pub.event.run] IN
       IF pub.next > Len(list) THEN pub' = None /\ UNCHANGED queue
       ELSE LET id == list[pub.next] IN
              /\ pub' = [pub EXCEPT !.next = @ + 1]
              /\ queue' = [queue EXCEPT ![id] =
                             IF Len(@) < QueueMaxSize THEN Append(@, pub.event) ELSE @]
  /\ UNCHANGED <<runVars, OffTheRow, subs, emitted, streams>>

-----------------------------------------------------------------------------
(* A tab's page, and the controller that polls for it.                     *)

NoStream == [status |-> "none", id |-> 0, got |-> <<>>]
NoForm == [question |-> None, fields |-> None, review |-> None, version |-> 0, asked |-> {}]

Page(name, r, gen) ==
  [page |-> name, run |-> r, gen |-> gen, armed |-> name \notin {"console", "closed"},
   shown |-> None, aware |-> 0, posting |-> "none", told |-> 0, form |-> NoForm,
   stream |-> IF name = "trace" THEN [NoStream EXCEPT !.status = "connecting"] ELSE NoStream]

(* At first a run is not there, or was created and perhaps started, and a   *)
(* tab has just opened its page.                                           *)
Early(r) ==
  /\ r \in Rows /\ r.status \in {"pending", "running"}
  /\ r = [NewRow(r.kind, r.owned, r.request) EXCEPT
            !.version = r.version, !.status = r.status, !.started = r.status = "running"]
  /\ r.kind = "investigation" => r.request.fields = r.request.question

ASSUME ScenesAssumption ==
  \A scene \in Scenes :
    /\ DOMAIN scene.row = Runs /\ DOMAIN scene.tab = Tabs
    /\ \A r \in Runs : scene.row[r] = None \/ Early(scene.row[r])
    /\ \A t \in Tabs : \E name \in {"console", "dashboard", "trace", "closed"}, r \in Runs,
                          gen \in 0..MaxGenerations : scene.tab[t] = Page(name, r, gen)
    /\ scene.emitted \in [Runs -> Nat] /\ scene.session \in BOOLEAN
    /\ {scene.failures, scene.streams} \subseteq Nat

Polls(t) == {q \in requests : q.tab = t}
Current(q) == q.gen = tab[q.tab].gen

Navigate(t, name, r) ==
  /\ tab[t].page \notin {"console", "closed"} /\ tab[t].gen < MaxGenerations
  /\ tab' = [tab EXCEPT ![t] = Page(name, r, tab[t].gen + 1)]
  /\ UNCHANGED <<runVars, requests, session, failures, eventVars>>

Poll(t) ==
  /\ tab[t].armed
  /\ tab' = [tab EXCEPT ![t].armed = FALSE]
  /\ requests' = requests \cup {[tab |-> t, gen |-> tab[t].gen, run |-> tab[t].run, answer |-> None]}
  /\ UNCHANGED <<runVars, session, failures, eventVars>>

Answered(q, answer) == requests' = (requests \ {q}) \cup {[q EXCEPT !.answer = answer]}

NotFound == [status |-> "404"]
Lost == [status |-> "lost"]

ReadRun(q) ==
  /\ q.answer = None
  /\ Answered(q, IF Visible(q.run) THEN Snapshot(q.run) ELSE NotFound)
  /\ UNCHANGED <<runVars, tab, session, failures, eventVars>>

\* The network, the database or the explanation's input fails the request.
LoseRequest(q) ==
  /\ q.answer = None /\ failures < MaxFailures
  /\ failures' = failures + 1
  /\ Answered(q, Lost)
  /\ UNCHANGED <<runVars, tab, session, eventVars>>

Shows(p, answer) ==
  IF answer \in {NotFound, Lost} THEN [p EXCEPT !.armed = answer # NotFound]
  ELSE IF row[answer.run].kind = "merge" /\ ~SourcesAccepted(row[answer.run].provider)
    THEN [p EXCEPT !.armed = TRUE]          \* "malformed", and asked for again
  ELSE [p EXCEPT !.shown = answer, !.armed = answer.status \notin Terminal]

\* Mutant: what a stopped controller's request brings is still shown.
ReceiveThoughStopped(q) ==
  /\ q.answer # None
  /\ requests' = requests \ {q}
  /\ tab' = [tab EXCEPT ![q.tab] = Shows(@, q.answer)]
  /\ UNCHANGED <<runVars, session, failures, eventVars>>

Receive(q) ==
  /\ q.answer # None
  /\ requests' = requests \ {q}
  /\ tab' = IF Current(q) THEN [tab EXCEPT ![q.tab] = Shows(@, q.answer)] ELSE tab
  /\ UNCHANGED <<runVars, session, failures, eventVars>>

-----------------------------------------------------------------------------
(* A follow-up asked on the dashboard reopens the case.                    *)

SubmitFollowUp(t) ==
  /\ tab[t].page = "dashboard" /\ tab[t].shown # None /\ tab[t].shown.status = "completed"
  /\ row[tab[t].run].kind = "investigation" /\ tab[t].posting = "none"
  /\ tab' = [tab EXCEPT ![t].posting = "sent"]
  /\ UNCHANGED <<runVars, requests, session, failures, eventVars>>

AcceptFollowUp(t) ==
  LET r == tab[t].run IN
  /\ tab[t].posting = "sent" /\ row[r].version < MaxSaves - 1
  /\ IF Visible(r) /\ row[r].status = "completed" /\ row[r].followUps < MaxFollowUps
       THEN /\ Save(r, [row[r] EXCEPT !.status = "running", !.ended = FALSE, !.followUps = @ + 1])
            /\ tab' = [tab EXCEPT ![t] = [@ EXCEPT !.posting = "accepted", !.told = row[r].version + 1]]
       ELSE UNCHANGED row /\ tab' = [tab EXCEPT ![t].posting = "refused"]
  /\ UNCHANGED <<due, requests, session, failures, eventVars>>

\* Mutant: the dashboard is not told to poll again.
FollowUpAnsweredQuietly(t) ==
  /\ tab[t].posting \in {"accepted", "refused"} /\ tab[t].gen < MaxGenerations
  /\ tab' = [tab EXCEPT ![t] = [@ EXCEPT !.posting = "none", !.aware = tab[t].told]]
  /\ UNCHANGED <<runVars, requests, session, failures, eventVars>>

FollowUpAnswered(t) ==
  /\ \/ /\ tab[t].posting = "accepted" /\ tab[t].gen < MaxGenerations
        /\ tab' = [tab EXCEPT ![t] =
             [@ EXCEPT !.posting = "none", !.gen = tab[t].gen + 1, !.armed = TRUE, !.aware = tab[t].told]]
     \/ /\ tab[t].posting = "refused"
        /\ tab' = [tab EXCEPT ![t].posting = "none"]
  /\ UNCHANGED <<runVars, requests, session, failures, eventVars>>

\* The answer is lost on its way: the form says so, the case runs on.
FollowUpLost(t) ==
  /\ tab[t].posting # "none" /\ failures < MaxFailures
  /\ failures' = failures + 1
  /\ tab' = [tab EXCEPT ![t].posting = "none"]
  /\ UNCHANGED <<runVars, requests, session, eventVars>>

-----------------------------------------------------------------------------
(* The event stream of a trace.                                            *)

Live == {tab[t].stream.id : t \in Tabs}

\* Mutant: a subscription starts with what its run has logged so far.
SubscribeWithHistory(r, id) ==
  /\ subs' = [subs EXCEPT ![r] = Append(@, id)]
  /\ queue' = queue @@ (id :> [n \in 1..emitted[r] |->
                                 [run |-> r, n |-> n, terminal |-> FALSE, threaded |-> FALSE]])

Subscribe(r, id) ==
  /\ subs' = [subs EXCEPT ![r] = Append(@, id)]
  /\ queue' = [other \in DOMAIN queue \cup {id} |-> IF other = id THEN <<>> ELSE queue[other]]

\* A refused stream is not retried by the browser; the page goes on "connecting".
Connect(t) ==
  /\ tab[t].stream.status = "connecting" /\ streams < MaxStreams
  /\ streams' = streams + 1
  /\ IF Visible(tab[t].run)
       THEN /\ Subscribe(tab[t].run, streams + 1)
            /\ tab' = [tab EXCEPT ![t].stream = [@ EXCEPT !.status = "open", !.id = streams + 1]]
       ELSE /\ tab' = [tab EXCEPT ![t].stream.status = "refused"]
            /\ UNCHANGED <<subs, queue>>
  /\ UNCHANGED <<runVars, requests, session, failures, emitted, pub>>

Newest(events) ==
  IF Len(events) > MaxShown THEN SubSeq(events, Len(events) - MaxShown + 1, Len(events)) ELSE events

\* The terminal event closes the stream for good.
Deliver(t) ==
  LET s == tab[t].stream IN
  /\ s.status = "open" /\ queue[s.id] # <<>>
  /\ LET event == Head(queue[s.id]) IN
       tab' = [tab EXCEPT ![t].stream =
                 [status |-> IF event.terminal THEN "closed" ELSE "open",
                  id |-> IF event.terminal THEN 0 ELSE s.id,
                  got |-> Newest(Append(s.got, event))]]
  /\ queue' = [queue EXCEPT ![s.id] = Tail(@)]
  /\ UNCHANGED <<runVars, requests, session, failures, subs, emitted, pub, streams>>

\* EventSource reconnects by itself.
LoseStream(t) ==
  /\ tab[t].stream.status = "open"
  /\ tab' = [tab EXCEPT ![t].stream = [@ EXCEPT !.status = "connecting", !.id = 0]]
  /\ UNCHANGED <<runVars, requests, session, failures, eventVars>>

\* The server notices that nobody listens.  The broker drops a run's list with
\* its last subscriber; a thread on the old list finds nothing more in it.
Unsubscribe(r) ==
  \E id \in Range(subs[r]) \ Live :
    /\ subs' = [subs EXCEPT ![r] = RemoveFirst(@, id)]
    /\ queue' = [other \in DOMAIN queue \ {id} |-> queue[other]]
    /\ pub' = IF pub # None /\ pub.event.run = r /\ subs[r] = <<id>> THEN None ELSE pub
    /\ UNCHANGED <<runVars, tab, requests, session, failures, emitted, streams>>

-----------------------------------------------------------------------------
(* The console: fields are extracted from a description, reviewed, sent.   *)

\* Any change of the description forgets what was extracted from the last one.
EditQuestion(t) ==
  LET form == tab[t].form IN
  \E q \in Questions :
    /\ tab[t].page = "console" /\ form.version < MaxExtractions
    /\ tab' = [tab EXCEPT ![t].form =
                 [form EXCEPT !.question = q, !.fields = None, !.review = None, !.version = @ + 1]]
    /\ UNCHANGED <<runVars, requests, session, failures, eventVars>>

\* The preset brings its own question and fields, and no review.
SelectPreset(t) ==
  LET form == tab[t].form IN
  \E q \in Questions :
    /\ tab[t].page = "console" /\ form.version < MaxExtractions
    /\ tab' = [tab EXCEPT ![t].form =
                 [form EXCEPT !.question = q, !.fields = q, !.review = None, !.version = @ + 1]]
    /\ UNCHANGED <<runVars, requests, session, failures, eventVars>>

Extracting(form) == \E x \in form.asked : x.version = form.version

ExtractDetails(t) ==
  LET form == tab[t].form IN
  /\ tab[t].page = "console" /\ form.question # None /\ ~Extracting(form)
  /\ form.version < MaxExtractions
  /\ tab' = [tab EXCEPT ![t].form =
       [form EXCEPT !.review = None, !.version = @ + 1,
                 !.asked = @ \cup {[version |-> form.version + 1, question |-> form.question]}]]
  /\ UNCHANGED <<runVars, requests, session, failures, eventVars>>

\* Mutant: an answer is taken whatever was typed since it was asked for.
ExtractionAnsweredLate(t, x, found) ==
  LET form == tab[t].form IN
  /\ x \in form.asked
  /\ tab' = [tab EXCEPT ![t].form =
       [form EXCEPT !.asked = @ \ {x},
                 !.fields = IF found THEN x.question ELSE @,
                 !.review = IF found THEN x.question ELSE @]]
  /\ UNCHANGED <<runVars, requests, session, failures, eventVars>>

ExtractionAnswered(t, x, found) ==
  LET form == tab[t].form IN
  /\ x \in form.asked
  /\ tab' = [tab EXCEPT ![t].form =
       [form EXCEPT !.asked = @ \ {x},
                 !.fields = IF found /\ x.version = form.version THEN x.question ELSE @,
                 !.review = IF found /\ x.version = form.version THEN x.question ELSE @]]
  /\ UNCHANGED <<runVars, requests, session, failures, eventVars>>

\* Only a reviewed extraction is sent.  Its start may be accepted and the
\* answer lost: the console stays where it is.
Submit(t, r) ==
  LET form == tab[t].form IN
  /\ tab[t].page = "console" /\ form.review # None /\ form.fields # None /\ row[r] = None
  /\ row' = [row EXCEPT ![r] =
       NewRow("investigation", session, [question |-> form.question, fields |-> form.fields, provider |-> None])]
  /\ \/ /\ tab' = [tab EXCEPT ![t] = Page("trace", r, @.gen + 1)] /\ UNCHANGED failures
     \/ failures < MaxFailures /\ failures' = failures + 1 /\ UNCHANGED tab
  /\ UNCHANGED <<due, requests, session, eventVars>>

SessionExpires ==
  /\ session /\ session' = FALSE
  /\ UNCHANGED <<runVars, tab, requests, failures, eventVars>>

-----------------------------------------------------------------------------
Init ==
  \E scene \in Scenes :
    /\ row = scene.row /\ tab = scene.tab
    /\ due = {} /\ requests = {}
    /\ subs = [r \in Runs |-> <<>>] /\ queue = <<>> /\ emitted = scene.emitted
    /\ pub = None /\ session = scene.session /\ failures = scene.failures /\ streams = scene.streams

RunEnds(r) == InvestigationEnds(r) \/ MergeEnds(r)

Next ==
  \/ \E r \in Runs :
       \/ StartRun(r) \/ SaveProgress(r) \/ InvestigationEnds(r) \/ MergeEnds(r) \/ RecordTerminal(r)
       \/ RecordStep(r) \/ RecordPersistenceFailure(r) \/ Unsubscribe(r)
  \/ PublishNext \/ SessionExpires
  \/ \E t \in Tabs :
       \/ Poll(t) \/ SubmitFollowUp(t) \/ AcceptFollowUp(t) \/ FollowUpAnswered(t) \/ FollowUpLost(t)
       \/ Connect(t) \/ Deliver(t) \/ LoseStream(t)
       \/ EditQuestion(t) \/ SelectPreset(t) \/ ExtractDetails(t)
       \/ \E x \in tab[t].form.asked, found \in BOOLEAN : ExtractionAnswered(t, x, found)
       \/ \E r \in Runs : Submit(t, r) \/ \E name \in {"dashboard", "trace"} : Navigate(t, name, r)
  \/ \E q \in requests : ReadRun(q) \/ LoseRequest(q) \/ Receive(q)

\* Timers fire, the server answers, the network (but for MaxFailures requests)
\* delivers, and a run that has begun comes to its end.
Fairness ==
  /\ \A r \in Runs : WF_vars(StartRun(r)) /\ WF_vars(RunEnds(r))
  /\ \A t \in Tabs :
       /\ WF_vars(Poll(t)) /\ WF_vars(AcceptFollowUp(t)) /\ WF_vars(FollowUpAnswered(t))
       /\ WF_vars(\E q \in Polls(t) : ReadRun(q))
       /\ WF_vars(\E q \in Polls(t) : Receive(q))

Spec == Init /\ [][Next]_vars
FairSpec == Spec /\ Fairness

-----------------------------------------------------------------------------
(* Whatever a page shows is a state of its own run, and never an older one  *)
(* than it showed before: a request of a page that was left, or of a        *)
(* controller that was replaced, changes nothing when it is answered.       *)
PagesFollowTheirRun ==
  [][\A t \in Tabs : tab'[t].shown # None =>
       /\ tab'[t].shown.run = tab'[t].run
       /\ tab[t].shown # None /\ tab[t].page = tab'[t].page /\ tab[t].run = tab'[t].run
            /\ tab[t].gen = tab'[t].gen
            => tab[t].shown.version <= tab'[t].shown.version]_vars

(* Polling stops at a run's end and starts again when a follow-up is        *)
(* accepted: in the long run every page shows its run ended, and no earlier *)
(* end than that of the last follow-up the page knows to be accepted.  Not  *)
(* so for a run the session may no longer read, nor for one whose sources   *)
(* the browser does not know.                                              *)
Settled(t) ==
  LET r == tab[t].run IN
  \/ tab[t].page \in {"console", "closed"} \/ ~Visible(r)
  \/ row[r].status \notin Terminal \/ ~SourcesAccepted(row[r].provider)
  \/ /\ tab[t].shown # None /\ tab[t].shown.status \in Terminal
     /\ tab[t].shown.version >= tab[t].aware
PagesSettle == <>[](\A t \in Tabs : Settled(t))

(* A trace lists events of its own run only, and those the loop logged in    *)
(* the order it logged them and none of them twice, whatever reconnecting,  *)
(* full queues and worker threads did in between.  (An event a worker       *)
(* thread logs may be listed twice: a tab that reconnects while the thread  *)
(* walks the broker's list is found again further down.)                   *)
TracesAreInOrder ==
  \A t \in Tabs :
    LET got == tab[t].stream.got IN
    \A i, j \in 1..Len(got) :
      /\ got[i].run = tab[t].run
      /\ i < j /\ ~got[i].threaded /\ ~got[j].threaded => got[i].n < got[j].n

(* Whatever the workflows save, the API can answer and the browser can      *)
(* read: the two sides' checks, written apart, leave no run that is sound   *)
(* to one and malformed to the other.  The exception is a merge run         *)
(* explained by OpenRouter, whose name the browser does not have.           *)
ResponsesAreAccepted ==
  \A r \in Runs : row[r] # None =>
    \A view \in Views(r) : Admitted(view) /\ (Accepted(view) \/ view.provider = "openrouter")

(* The fields an investigation starts with are those extracted for its own  *)
(* question, however slowly the extractions asked for before it came back.  *)
ConfirmedFieldsAreTheQuestions ==
  \A r \in Runs : row[r] # None /\ row[r].kind = "investigation" =>
    row[r].request.fields = row[r].request.question
=============================================================================
