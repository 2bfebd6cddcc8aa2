------------------------- MODULE RunInspection_proofs -------------------------
(***************************************************************************)
(* Proofs about the tabs that start and watch runs, for any number of runs, *)
(* tabs, requests and subscriptions: pages never go back and follow their   *)
(* own run, the fields a run starts with are its question's, what the API   *)
(* answers is accepted, and a trace lists its run's events in order.        *)
(***************************************************************************)
EXTENDS RunInspection, FiniteSums, SequenceTheorems, TLAPS

-----------------------------------------------------------------------------
(* A tab's page, and what a step does to it.                               *)

PageFields ==
  {"page", "run", "gen", "armed", "shown", "aware", "posting", "told", "form", "stream"}
FormFields == {"question", "fields", "review", "version", "asked"}
StreamFields == {"status", "id", "got"}

Shaped(p) ==
  /\ DOMAIN p = PageFields /\ DOMAIN p.form = FormFields /\ DOMAIN p.stream = StreamFields
  /\ p.run \in Runs /\ p.gen \in Nat

TabsShaped == DOMAIN tab = Tabs /\ \A t \in Tabs : Shaped(tab[t])

\* The fields are those of the question as it stands, and so is what the
\* extraction asked for last will bring.
FormSound(form) ==
  /\ form.version \in Nat /\ form.question \in OrNone(Questions)
  /\ form.fields # None => form.fields = form.question /\ form.question \in Questions
  /\ \A x \in form.asked :
       /\ x.version \in Nat /\ x.version <= form.version /\ x.question \in Questions
       /\ x.version = form.version => x.question = form.question

Puts(t, p) == tab' = [tab EXCEPT ![t] = p]

\* Page p becomes n: only these fields may change.
Only(p, n, fields) == Shaped(n) /\ \A f \in PageFields \ fields : n[f] = p[f]

Opened(p, n) == \E name \in {"dashboard", "trace"}, r \in Runs : n = Page(name, r, p.gen + 1)
Polled(p, n) == Only(p, n, {"armed"}) /\ n.armed = FALSE
Received(p, n) ==
  \/ Only(p, n, {"armed"})
  \/ Only(p, n, {"armed", "shown"}) /\ \E q \in requests :
       /\ tab[q.tab] = p /\ Current(q)
       /\ q.answer \notin {None, NotFound, Lost} /\ n.shown = q.answer
Posted(p, n) ==
  /\ Only(p, n, {"posting", "told", "aware"})
  /\ n.posting # "none" /\ p.posting = "none" =>
       p.shown # None /\ row[p.run].kind = "investigation"
Resumed(p, n) ==
  Only(p, n, {"posting", "gen", "armed", "aware"}) /\ n.gen = p.gen + 1 /\ n.posting = "none"
FormChanged(p, n) == Only(p, n, {"form"}) /\ (FormSound(p.form) => FormSound(n.form))
StreamChanged(p, n) == Only(p, n, {"stream"})

(* A step of one tab leaves the others.                                    *)
LEMMA PutPage ==
  ASSUME TabsShaped, NEW t \in Tabs, NEW p, Puts(t, p), Shaped(p)
  PROVE  TabsShaped' /\ tab'[t] = p /\ \A u \in Tabs : u # t => tab'[u] = tab[u]
BY DEF TabsShaped, Puts

(* A page that was just opened.                                            *)
LEMMA PageShaped ==
  ASSUME NEW name, NEW r \in Runs, NEW gen \in Nat
  PROVE  Shaped(Page(name, r, gen))
BY DEF Page, Shaped, PageFields, FormFields, StreamFields, NoForm, NoStream

(* Navigating and submitting open a page of a later generation, or leave   *)
(* the tab.                                                                *)
LEMMA OpenMoves ==
  ASSUME TabsShaped, NEW t \in Tabs, NEW r \in Runs
  PROVE  /\ \A name \in {"dashboard", "trace"} :
              Navigate(t, name, r) => \E n : Puts(t, n) /\ Shaped(n) /\ Opened(tab[t], n)
         /\ Submit(t, r) => UNCHANGED tab \/ \E n : Puts(t, n) /\ Shaped(n) /\ Opened(tab[t], n)
<1>1. tab[t].gen + 1 \in Nat
  BY DEF TabsShaped, Shaped
<1>2. ASSUME NEW name \in {"dashboard", "trace"}, Puts(t, Page(name, r, tab[t].gen + 1))
      PROVE  \E n : Puts(t, n) /\ Shaped(n) /\ Opened(tab[t], n)
  BY <1>1, <1>2, PageShaped DEF Opened
<1>3. ASSUME NEW name \in {"dashboard", "trace"}, Navigate(t, name, r)
      PROVE  Puts(t, Page(name, r, tab[t].gen + 1))
  BY <1>3 DEF Navigate, Puts
<1>4. Submit(t, r) => UNCHANGED tab \/ Puts(t, Page("trace", r, tab[t].gen + 1))
  BY DEF Submit, Puts
<1> QED BY <1>2, <1>3, <1>4

(* Polling waits for its answer.                                           *)
LEMMA PollMoves ==
  ASSUME TabsShaped, NEW t \in Tabs, Poll(t)
  PROVE  \E n : Puts(t, n) /\ Polled(tab[t], n)
<1> DEFINE n == [tab[t] EXCEPT !.armed = FALSE]
<1>1. Puts(t, n)
  BY DEF Poll, Puts
<1>2. Polled(tab[t], n)
  BY DEF TabsShaped, Shaped, Polled, Only, PageFields
<1> QED BY <1>1, <1>2

(* An answer changes what is shown or whether the page polls on, and only  *)
(* on the page that asked.                                                 *)
LEMMA ReceiveMoves ==
  ASSUME TabsShaped, NEW q \in requests, q.tab \in Tabs, Receive(q)
  PROVE  \/ UNCHANGED tab
         \/ \E n : Puts(q.tab, n) /\ Received(tab[q.tab], n)
<1> DEFINE p == tab[q.tab]
<1>1. CASE ~Current(q)
  BY <1>1 DEF Receive
<1>2. CASE Current(q)
  <2>1. Puts(q.tab, Shows(p, q.answer)) /\ q.answer # None
    BY <1>2 DEF Receive, Puts
  <2>2. ASSUME NEW armed PROVE Only(p, [p EXCEPT !.armed = armed], {"armed"})
    BY DEF TabsShaped, Shaped, Only, PageFields
  <2>3. ASSUME NEW armed, NEW shown
        PROVE  /\ Only(p, [p EXCEPT !.shown = shown, !.armed = armed], {"armed", "shown"})
               /\ [p EXCEPT !.shown = shown, !.armed = armed].shown = shown
    BY DEF TabsShaped, Shaped, Only, PageFields
  <2>4. Received(p, Shows(p, q.answer))
    <3> tab[q.tab] = p /\ Current(q)
      BY <1>2
    <3> HIDE DEF p
    <3>1. CASE q.answer \in {NotFound, Lost}
      BY <2>2, <3>1 DEF Shows, Received
    <3>2. CASE q.answer \notin {NotFound, Lost}
      BY <2>1, <2>2, <2>3, <3>2 DEF Shows, Received
    <3> QED BY <3>1, <3>2
  <2> QED BY <2>1, <2>4
<1> QED BY <1>1, <1>2

(* A follow-up is submitted, accepted, answered or lost.                   *)
LEMMA PostMoves ==
  ASSUME TabsShaped, NEW t \in Tabs,
         SubmitFollowUp(t) \/ AcceptFollowUp(t) \/ FollowUpAnswered(t) \/ FollowUpLost(t)
  PROVE  \E n : Puts(t, n) /\ (Posted(tab[t], n) \/ Resumed(tab[t], n))
<1> DEFINE p == tab[t]
<1>1. Shaped(p)
  BY DEF TabsShaped
<1> HIDE DEF p
<1>2. ASSUME NEW posting,
             posting # "none" =>
               p.posting # "none" \/ (p.shown # None /\ row[p.run].kind = "investigation")
      PROVE  Posted(p, [p EXCEPT !.posting = posting])
  BY <1>1, <1>2 DEF Posted, Only, Shaped, PageFields
<1>3. ASSUME NEW told, p.posting # "none"
      PROVE  Posted(p, [p EXCEPT !.posting = "accepted", !.told = told])
  BY <1>1, <1>3 DEF Posted, Only, Shaped, PageFields
<1>4. Resumed(p, [p EXCEPT !.posting = "none", !.gen = p.gen + 1, !.armed = TRUE, !.aware = p.told])
  <2>1. p.gen + 1 \in Nat
    BY <1>1 DEF Shaped
  <2> QED BY <1>1, <2>1 DEF Resumed, Only, Shaped, PageFields
<1>5. CASE SubmitFollowUp(t)
  BY <1>2, <1>5 DEF SubmitFollowUp, Puts, p
<1>6. CASE AcceptFollowUp(t)
  <2>1. p.posting # "none"
    BY <1>6 DEF AcceptFollowUp, p
  <2>2. \/ Puts(t, [p EXCEPT !.posting = "refused"])
        \/ Puts(t, [p EXCEPT !.posting = "accepted", !.told = row[p.run].version + 1])
    BY <1>6 DEF AcceptFollowUp, Puts, p
  <2>3. Posted(p, [p EXCEPT !.posting = "refused"])
    BY <1>1, <2>1 DEF Posted, Only, Shaped, PageFields
  <2>4. Posted(p, [p EXCEPT !.posting = "accepted", !.told = row[p.run].version + 1])
    BY <1>3, <2>1
  <2> QED BY <2>2, <2>3, <2>4 DEF p
<1>7. CASE FollowUpAnswered(t)
  BY <1>2, <1>4, <1>7 DEF FollowUpAnswered, Puts, p
<1>8. CASE FollowUpLost(t)
  BY <1>2, <1>8 DEF FollowUpLost, Puts, p
<1> QED BY <1>5, <1>6, <1>7, <1>8 DEF p

(* An edited question, a preset, a new request and an answer: an answer to *)
(* an older request than the last is dropped.                              *)
LEMMA FormKept ==
  ASSUME NEW form, DOMAIN form = FormFields, FormSound(form)
  PROVE  /\ \A q \in Questions :
              FormSound([form EXCEPT !.question = q, !.fields = None, !.review = None, !.version = @ + 1])
         /\ \A q \in Questions :
              FormSound([form EXCEPT !.question = q, !.fields = q, !.review = None, !.version = @ + 1])
         /\ form.question # None =>
              FormSound([form EXCEPT !.review = None, !.version = @ + 1,
                !.asked = @ \cup {[version |-> form.version + 1, question |-> form.question]}])
         /\ \A x \in form.asked, found \in BOOLEAN :
              FormSound([form EXCEPT !.asked = @ \ {x},
                !.fields = IF found /\ x.version = form.version THEN x.question ELSE @,
                !.review = IF found /\ x.version = form.version THEN x.question ELSE @])
<1>1. form.version \in Nat /\ form.version + 1 \in Nat
  BY DEF FormSound
<1>2. \A x \in form.asked : x.version \in Nat /\ x.version <= form.version
  BY DEF FormSound
<1>3. \A x \in form.asked : x.version <= form.version + 1 /\ x.version # form.version + 1
  BY <1>1, <1>2
<1>4. ASSUME NEW q \in Questions
      PROVE  FormSound([form EXCEPT !.question = q, !.fields = None, !.review = None, !.version = @ + 1])
  BY <1>1, <1>3 DEF FormSound, FormFields, OrNone
<1>5. ASSUME NEW q \in Questions
      PROVE  FormSound([form EXCEPT !.question = q, !.fields = q, !.review = None, !.version = @ + 1])
  BY <1>1, <1>3 DEF FormSound, FormFields, OrNone
<1>6. ASSUME form.question # None
      PROVE  FormSound([form EXCEPT !.review = None, !.version = @ + 1,
                !.asked = @ \cup {[version |-> form.version + 1, question |-> form.question]}])
  <2> DEFINE y == [version |-> form.version + 1, question |-> form.question]
             n == [form EXCEPT !.review = None, !.version = @ + 1, !.asked = @ \cup {y}]
  <2>1. /\ n.version = form.version + 1 /\ n.question = form.question /\ n.fields = form.fields
        /\ n.asked = form.asked \cup {y} /\ y.version = form.version + 1 /\ y.question = form.question
    BY DEF FormFields
  <2> HIDE DEF n, y
  <2>2. FormSound(n)
    BY <1>1, <1>3, <1>6, <2>1 DEF FormSound, OrNone
  <2> QED BY <2>2 DEF n, y
<1>7. ASSUME NEW x \in form.asked, NEW found \in BOOLEAN
      PROVE  FormSound([form EXCEPT !.asked = @ \ {x},
                !.fields = IF found /\ x.version = form.version THEN x.question ELSE @,
                !.review = IF found /\ x.version = form.version THEN x.question ELSE @])
  BY <1>1, <1>2 DEF FormSound, FormFields
<1> QED BY <1>4, <1>5, <1>6, <1>7

(* The console's form changes.                                             *)
LEMMA FormMoves ==
  ASSUME TabsShaped, NEW t \in Tabs,
         \/ EditQuestion(t) \/ SelectPreset(t) \/ ExtractDetails(t)
         \/ \E x \in tab[t].form.asked, found \in BOOLEAN : ExtractionAnswered(t, x, found)
  PROVE  \E n : Puts(t, n) /\ FormChanged(tab[t], n)
<1> DEFINE p == tab[t]
<1>1. Shaped(p)
  BY DEF TabsShaped
<1> HIDE DEF p
<1>2. DOMAIN p.form = FormFields
  BY <1>1 DEF Shaped
<1>3. ASSUME NEW form, DOMAIN form = FormFields, FormSound(p.form) => FormSound(form)
      PROVE  FormChanged(p, [p EXCEPT !.form = form])
  BY <1>1, <1>3 DEF FormChanged, Only, Shaped, PageFields
<1>4. CASE EditQuestion(t)
  <2>1. PICK q \in Questions : Puts(t, [p EXCEPT !.form = [p.form EXCEPT
            !.question = q, !.fields = None, !.review = None, !.version = @ + 1]])
    BY <1>4 DEF EditQuestion, Puts, p
  <2> QED BY <1>2, <1>3, <2>1, FormKept DEF p
<1>5. CASE SelectPreset(t)
  <2>1. PICK q \in Questions : Puts(t, [p EXCEPT !.form = [p.form EXCEPT
            !.question = q, !.fields = q, !.review = None, !.version = @ + 1]])
    BY <1>5 DEF SelectPreset, Puts, p
  <2> QED BY <1>2, <1>3, <2>1, FormKept DEF p
<1>6. CASE ExtractDetails(t)
  <2>1. /\ p.form.question # None
        /\ Puts(t, [p EXCEPT !.form = [p.form EXCEPT !.review = None, !.version = @ + 1,
            !.asked = @ \cup {[version |-> p.form.version + 1, question |-> p.form.question]}]])
    BY <1>6 DEF ExtractDetails, Puts, p
  <2> QED BY <1>2, <1>3, <2>1, FormKept DEF p
<1>7. ASSUME NEW x \in p.form.asked, NEW found \in BOOLEAN, ExtractionAnswered(t, x, found)
      PROVE  \E n : Puts(t, n) /\ FormChanged(p, n)
  <2>1. Puts(t, [p EXCEPT !.form = [p.form EXCEPT !.asked = @ \ {x},
            !.fields = IF found /\ x.version = p.form.version THEN x.question ELSE @,
            !.review = IF found /\ x.version = p.form.version THEN x.question ELSE @]])
    BY <1>7 DEF ExtractionAnswered, Puts, p
  <2> QED BY <1>2, <1>3, <2>1, FormKept
<1> QED BY <1>4, <1>5, <1>6, <1>7 DEF p

(* The stream connects, brings an event or is lost.                        *)
LEMMA StreamMoves ==
  ASSUME TabsShaped, NEW t \in Tabs, Connect(t) \/ Deliver(t) \/ LoseStream(t)
  PROVE  \E n : Puts(t, n) /\ StreamChanged(tab[t], n)
<1> DEFINE p == tab[t]
<1>1. Shaped(p)
  BY DEF TabsShaped
<1> HIDE DEF p
<1>2. ASSUME NEW stream, DOMAIN stream = StreamFields
      PROVE  StreamChanged(p, [p EXCEPT !.stream = stream])
  BY <1>1, <1>2 DEF StreamChanged, Only, Shaped, PageFields
<1>3. ASSUME NEW status, NEW id, NEW got
      PROVE  DOMAIN [status |-> status, id |-> id, got |-> got] = StreamFields
  BY DEF StreamFields
<1>4. DOMAIN p.stream = StreamFields
  BY <1>1 DEF Shaped
<1>5. CASE Connect(t)
  <2>1. \/ Puts(t, [p EXCEPT !.stream = [p.stream EXCEPT !.status = "open", !.id = streams + 1]])
        \/ Puts(t, [p EXCEPT !.stream = [p.stream EXCEPT !.status = "refused"]])
    BY <1>5 DEF Connect, Puts, p
  <2> QED BY <1>2, <1>4, <2>1 DEF p
<1>6. CASE Deliver(t)
  <2>1. PICK status, id, got :
          Puts(t, [p EXCEPT !.stream = [status |-> status, id |-> id, got |-> got]])
    BY <1>6 DEF Deliver, Puts, p
  <2> QED BY <1>2, <1>3, <2>1 DEF p
<1>7. CASE LoseStream(t)
  <2>1. Puts(t, [p EXCEPT !.stream = [p.stream EXCEPT !.status = "connecting", !.id = 0]])
    BY <1>7 DEF LoseStream, Puts, p
  <2> QED BY <1>2, <1>4, <2>1 DEF p
<1> QED BY <1>5, <1>6, <1>7 DEF p

QuietMove(p, n) ==
  n = p \/ Opened(p, n) \/ Posted(p, n) \/ Resumed(p, n) \/ FormChanged(p, n) \/ StreamChanged(p, n)

(* Every step but those of the polling leaves the requests alone.          *)
LEMMA StepsOfPages ==
  ASSUME TabsShaped, [Next]_vars
  PROVE  \/ \E t \in Tabs : Poll(t)
         \/ \E q \in requests : ReadRun(q) \/ LoseRequest(q) \/ Receive(q)
         \/ TabsShaped' /\ UNCHANGED requests /\ \A t \in Tabs : QuietMove(tab[t], tab'[t])
<1> DEFINE Moves == TabsShaped' /\ UNCHANGED requests /\ \A t \in Tabs : QuietMove(tab[t], tab'[t])
<1>1. UNCHANGED <<tab, requests>> => Moves
  BY DEF TabsShaped, QuietMove
<1>2. ASSUME NEW t \in Tabs, NEW n, Puts(t, n), Shaped(n), QuietMove(tab[t], n), UNCHANGED requests
      PROVE  Moves
  <2>1. TabsShaped' /\ tab'[t] = n /\ \A u \in Tabs : u # t => tab'[u] = tab[u]
    BY <1>2, PutPage
  <2> QED BY <1>2, <2>1 DEF QuietMove
<1>3. ASSUME NEW t \in Tabs, NEW n, Puts(t, n), UNCHANGED requests,
             Posted(tab[t], n) \/ Resumed(tab[t], n) \/ FormChanged(tab[t], n) \/ StreamChanged(tab[t], n)
      PROVE  Moves
  <2>1. Shaped(n)
    BY <1>3 DEF Posted, Resumed, FormChanged, StreamChanged, Only
  <2> QED BY <1>2, <1>3, <2>1 DEF QuietMove
<1> HIDE DEF Moves
<1>4. ASSUME NEW t \in Tabs, NEW r \in Runs,
             Submit(t, r) \/ \E name \in {"dashboard", "trace"} : Navigate(t, name, r)
      PROVE  Moves
  <2>1. UNCHANGED requests
    BY <1>4 DEF Submit, Navigate
  <2> QED BY <1>1, <1>2, <1>4, <2>1, OpenMoves DEF QuietMove
<1>5. ASSUME NEW t \in Tabs,
             \/ SubmitFollowUp(t) \/ AcceptFollowUp(t) \/ FollowUpAnswered(t) \/ FollowUpLost(t)
             \/ Connect(t) \/ Deliver(t) \/ LoseStream(t)
             \/ EditQuestion(t) \/ SelectPreset(t) \/ ExtractDetails(t)
             \/ \E x \in tab[t].form.asked, found \in BOOLEAN : ExtractionAnswered(t, x, found)
      PROVE  Moves
  <2>1. UNCHANGED requests
    BY <1>5 DEF SubmitFollowUp, AcceptFollowUp, FollowUpAnswered, FollowUpLost, Connect, Deliver,
                LoseStream, EditQuestion, SelectPreset, ExtractDetails, ExtractionAnswered
  <2> QED BY <1>3, <1>5, <2>1, PostMoves, FormMoves, StreamMoves
<1>6. ASSUME NEW r \in Runs,
             \/ StartRun(r) \/ SaveProgress(r) \/ InvestigationEnds(r) \/ MergeEnds(r)
             \/ RecordTerminal(r) \/ RecordStep(r) \/ RecordPersistenceFailure(r) \/ Unsubscribe(r)
      PROVE  Moves
  BY <1>1, <1>6 DEF StartRun, SaveProgress, InvestigationEnds, MergeEnds, RecordTerminal,
                    RecordStep, RecordPersistenceFailure, Unsubscribe, OffTheRow
<1>7. PublishNext \/ SessionExpires \/ UNCHANGED vars => Moves
  BY <1>1 DEF PublishNext, SessionExpires, OffTheRow, vars
<1> QED BY <1>4, <1>5, <1>6, <1>7 DEF Next, Moves

-----------------------------------------------------------------------------
(* The rows.                                                               *)

InvestigationSound(v) ==
  /\ v.request.fields = v.request.question
  /\ v.status = "pending" => v.state = None /\ v.results = 0
  /\ v.status \in {"pending", "running", "completed"} => ~v.error
  /\ v.status = "completed" => v.state # None /\ v.results > 0
  /\ v.status = "failed" => v.error

MergeSound(v) ==
  /\ v.status # "cancelled" /\ (v.error <=> v.status = "failed")
  /\ v.results = IF v.status = "completed" THEN 1 ELSE 0

RowSound(v) ==
  /\ v \in Rows
  /\ (v.started <=> v.status # "pending") /\ (v.ended <=> v.status \in Terminal)
  /\ v.kind = "investigation" => InvestigationSound(v)
  /\ v.kind = "merge" => MergeSound(v)

RowsSound == DOMAIN row = Runs /\ \A r \in Runs : row[r] = None \/ RowSound(row[r])

(* A row that is saved again is the same run's, and newer.                 *)
Grows(v, w) == w \in Rows /\ v.version <= w.version /\ w.kind = v.kind
RowsGrow == \A r \in Runs : row[r] \in Rows => Grows(row[r], row'[r])

(* A row that stays is no older.                                           *)
LEMMA RowStands == \A v \in Rows : Grows(v, v)
<1>1. SUFFICES ASSUME NEW v \in Rows PROVE Grows(v, v)
  OBVIOUS
<1>2. v.version \in Nat
  BY DEF Rows
<1>3. v.version <= v.version
  BY <1>2
<1> QED BY <1>3 DEF Grows

(* A save of a sound row makes it a newer one.                             *)
LEMMA SaveKeepsRows ==
  ASSUME RowsSound, NEW r \in Runs, row[r] # None, NEW new, Save(r, new), RowSound(new),
         new.version = row[r].version, new.kind = row[r].kind
  PROVE  RowsSound' /\ RowsGrow
<1> DEFINE saved == [new EXCEPT !.version = @ + 1]
<1>1. row' = [row EXCEPT ![r] = saved] /\ new \in Rows /\ new.version \in Nat
  BY DEF Save, RowSound, Rows
<1>2. new.version + 1 \in Nat /\ new.version <= new.version + 1
  BY <1>1
<1>3. saved \in Rows
  BY <1>1, <1>2 DEF Rows
<1>4. /\ saved.version = new.version + 1
      /\ \A f \in {"kind", "request", "status", "started", "ended", "error", "results", "state"} :
           saved[f] = new[f]
  BY <1>1 DEF Rows
<1> HIDE DEF saved
<1>5. RowSound(saved)
  BY <1>3, <1>4 DEF RowSound, InvestigationSound, MergeSound
<1>6. Grows(row[r], saved)
  BY <1>2, <1>3, <1>4 DEF Grows
<1>7. \A u \in Runs : row[u] \in Rows => Grows(row[u], row[u])
  BY RowStands
<1> QED BY <1>1, <1>5, <1>6, <1>7 DEF RowsSound, RowsGrow

(* Rows that stay are sound.                                               *)
LEMMA SameRows ==
  ASSUME RowsSound, UNCHANGED row
  PROVE  RowsSound' /\ RowsGrow
BY RowStands DEF RowsSound, RowsGrow

(* A run that was just created is sound.                                   *)
LEMMA NewRowSound ==
  ASSUME NEW request \in [question : Questions, fields : Questions, provider : OrNone(Providers)],
         request.fields = request.question, NEW owned \in BOOLEAN
  PROVE  RowSound(NewRow("investigation", owned, request))
<1> DEFINE v == NewRow("investigation", owned, request)
<1>1. v \in Rows
  <2>1. request.provider \in OrNone(Providers) /\ None \in OrNone(States) /\ None \in OrNone(Steps)
    BY DEF OrNone
  <2>2. "pending" \in Statuses
    BY DEF Statuses
  <2> QED BY <2>1, <2>2 DEF NewRow, Rows
<1>2. /\ v.status = "pending" /\ v.started = FALSE /\ v.ended = FALSE /\ v.error = FALSE
      /\ v.kind = "investigation" /\ v.request = request /\ v.state = None /\ v.results = 0
  BY DEF NewRow
<1> HIDE DEF v
<1>3. RowSound(v)
  BY <1>1, <1>2 DEF RowSound, InvestigationSound, Terminal
<1> QED BY <1>3 DEF v

Changes(v, w, fields) ==
  w \in Rows /\ \A f \in {"kind", "version", "request", "status", "started", "ended", "error",
                          "results", "state"} \ fields : w[f] = v[f]

(* The workflows' saves.                                                   *)
LEMMA WorkflowsKeepRows ==
  ASSUME RowsSound, NEW r \in Runs,
         StartRun(r) \/ SaveProgress(r) \/ InvestigationEnds(r) \/ MergeEnds(r)
  PROVE  RowsSound' /\ RowsGrow
<1> DEFINE v == row[r]
<1>1. row[r] # None /\ RowSound(v) /\ v \in Rows
  BY DEF RowsSound, RowSound, StartRun, SaveProgress, InvestigationEnds, MergeEnds
<1>2. ASSUME NEW new, Save(r, new), RowSound(new), new.version = v.version, new.kind = v.kind
      PROVE  RowsSound' /\ RowsGrow
  BY <1>1, <1>2, SaveKeepsRows
<1> HIDE DEF v
<1>3. CASE StartRun(r)
  <2> DEFINE new == [v EXCEPT !.status = "running", !.started = TRUE]
  <2>1. v.status = "pending" /\ Save(r, new)
    BY <1>3 DEF StartRun, v
  <2>2. Changes(v, new, {"status", "started"}) /\ new.status = "running" /\ new.started = TRUE
    BY <1>1 DEF Changes, Rows, Statuses
  <2> HIDE DEF new
  <2>3. RowSound(new)
    <3>1. v.kind = "investigation" => InvestigationSound(new)
      BY <1>1, <2>1, <2>2 DEF Changes, RowSound, InvestigationSound
    <3>2. v.kind = "merge" => MergeSound(new)
      BY <1>1, <2>1, <2>2 DEF Changes, RowSound, MergeSound
    <3> QED BY <1>1, <2>1, <2>2, <3>1, <3>2 DEF Changes, RowSound, Terminal
  <2> QED BY <1>2, <2>1, <2>2, <2>3 DEF Changes
<1>4. CASE SaveProgress(r)
  <2>1. v.status = "running"
    BY <1>4 DEF SaveProgress, v
  <2>2. CASE v.kind = "merge"
    <3>1. PICK step \in Steps : Save(r, [v EXCEPT !.step = step])
      BY <1>4, <2>2 DEF SaveProgress, v
    <3> DEFINE new == [v EXCEPT !.step = step]
    <3>2. Changes(v, new, {})
      BY <1>1 DEF Changes, Rows, OrNone
    <3> HIDE DEF new
    <3>3. RowSound(new)
      BY <1>1, <3>2 DEF Changes, RowSound, InvestigationSound, MergeSound
    <3>4. Save(r, new)
      BY <3>1 DEF new
    <3> QED BY <1>2, <3>2, <3>3, <3>4 DEF Changes
  <2>3. CASE v.kind # "merge"
    <3>1. PICK state \in States : Save(r, [v EXCEPT !.state = state])
      BY <1>4, <2>3 DEF SaveProgress, v
    <3> DEFINE new == [v EXCEPT !.state = state]
    <3>2. Changes(v, new, {"state"})
      BY <1>1 DEF Changes, Rows, OrNone
    <3> HIDE DEF new
    <3>3. RowSound(new)
      BY <1>1, <2>1, <2>3, <3>2 DEF Changes, RowSound, InvestigationSound
    <3> QED BY <1>2, <3>1, <3>2, <3>3 DEF Changes, new
  <2> QED BY <2>2, <2>3
<1>5. CASE InvestigationEnds(r)
  <2>1. v.status = "running" /\ v.kind = "investigation"
    BY <1>5 DEF InvestigationEnds, v
  <2>2. CASE \E state \in States : Save(r, [Ended(r, "completed") EXCEPT !.state = state, !.results = @ + 1])
    <3>1. PICK state \in States :
            Save(r, [Ended(r, "completed") EXCEPT !.state = state, !.results = @ + 1])
      BY <2>2
    <3> DEFINE new == [Ended(r, "completed") EXCEPT !.state = state, !.results = @ + 1]
    <3>2. v.results \in Nat /\ v.results + 1 \in Nat /\ v.results + 1 > 0
      BY <1>1 DEF Rows
    <3>3. /\ Changes(v, new, {"status", "ended", "state", "results"}) /\ new.status = "completed"
          /\ new.ended = TRUE /\ new.state = state /\ new.results = v.results + 1
      BY <1>1, <3>2 DEF Changes, Rows, OrNone, Ended, Statuses, Terminal, v
    <3> HIDE DEF new
    <3>4. RowSound(new)
      BY <1>1, <2>1, <3>2, <3>3, SavesAssumption DEF Changes, RowSound, InvestigationSound, Terminal
    <3> QED BY <1>2, <3>1, <3>3, <3>4 DEF Changes, new
  <2>3. CASE Save(r, [Ended(r, "failed") EXCEPT !.error = TRUE, !.state = None])
    <3> DEFINE new == [Ended(r, "failed") EXCEPT !.error = TRUE, !.state = None]
    <3>1. /\ Changes(v, new, {"status", "ended", "error", "state"}) /\ new.status = "failed"
          /\ new.ended = TRUE /\ new.error = TRUE /\ new.state = None
      BY <1>1 DEF Changes, Rows, OrNone, Ended, Statuses, Terminal, v
    <3> HIDE DEF new
    <3>2. RowSound(new)
      BY <1>1, <2>1, <3>1 DEF Changes, RowSound, InvestigationSound, Terminal
    <3> QED BY <1>2, <2>3, <3>1, <3>2 DEF Changes, new
  <2>4. CASE Save(r, Ended(r, "cancelled"))
    <3> DEFINE new == Ended(r, "cancelled")
    <3>1. /\ Changes(v, new, {"status", "ended"}) /\ new.status = "cancelled" /\ new.ended = TRUE
      BY <1>1 DEF Changes, Rows, Ended, Statuses, Terminal, v
    <3> HIDE DEF new
    <3>2. RowSound(new)
      BY <1>1, <2>1, <3>1 DEF Changes, RowSound, InvestigationSound, Terminal
    <3> QED BY <1>2, <2>4, <3>1, <3>2 DEF Changes, new
  <2> QED BY <1>5, <2>2, <2>3, <2>4 DEF InvestigationEnds
<1>6. CASE MergeEnds(r)
  <2>1. v.status = "running" /\ v.kind = "merge"
    BY <1>6 DEF MergeEnds, v
  <2>2. CASE Save(r, [Ended(r, "completed") EXCEPT !.results = 1])
    <3> DEFINE new == [Ended(r, "completed") EXCEPT !.results = 1]
    <3>1. /\ Changes(v, new, {"status", "ended", "results"}) /\ new.status = "completed"
          /\ new.ended = TRUE /\ new.results = 1
      BY <1>1 DEF Changes, Rows, Ended, Statuses, Terminal, v
    <3> HIDE DEF new
    <3>2. RowSound(new)
      BY <1>1, <2>1, <3>1 DEF Changes, RowSound, MergeSound, Terminal
    <3> QED BY <1>2, <2>2, <3>1, <3>2 DEF Changes, new
  <2>3. CASE Save(r, [Ended(r, "failed") EXCEPT !.error = TRUE])
    <3> DEFINE new == [Ended(r, "failed") EXCEPT !.error = TRUE]
    <3>1. /\ Changes(v, new, {"status", "ended", "error"}) /\ new.status = "failed"
          /\ new.ended = TRUE /\ new.error = TRUE
      BY <1>1 DEF Changes, Rows, Ended, Statuses, Terminal, v
    <3> HIDE DEF new
    <3>2. RowSound(new)
      BY <1>1, <2>1, <3>1 DEF Changes, RowSound, MergeSound, Terminal
    <3> QED BY <1>2, <2>3, <3>1, <3>2 DEF Changes, new
  <2> QED BY <1>6, <2>2, <2>3 DEF MergeEnds
<1> QED BY <1>3, <1>4, <1>5, <1>6

-----------------------------------------------------------------------------
(* What the pages show and what is on its way to them.                     *)

(* A page shows its own run, no newer than the row; a follow-up is posted  *)
(* to the investigation that is shown.                                     *)
PageHolds(p) ==
  /\ p.shown # None =>
       /\ p.shown.run = p.run /\ p.shown.version \in Nat
       /\ row[p.run] \in Rows /\ p.shown.version <= row[p.run].version
  /\ p.posting # "none" => row[p.run] \in Rows /\ row[p.run].kind = "investigation"
  /\ FormSound(p.form)

PagesHold == \A t \in Tabs : PageHolds(tab[t])

(* An answer is of the run that was asked for, as its row was.             *)
AnswerHolds(q) ==
  q.answer \notin {None, NotFound, Lost} =>
    /\ q.answer.run = q.run /\ q.answer.version \in Nat
    /\ row[q.run] \in Rows /\ q.answer.version <= row[q.run].version

(* A controller asks again only when it has its answer, so that the answer *)
(* is no older than what the page shows.                                   *)
CurrentHolds(q) ==
  LET p == tab[q.tab] IN
  /\ q.gen <= p.gen
  /\ q.gen = p.gen =>
       /\ q.run = p.run /\ ~p.armed
       /\ p.shown # None /\ q.answer \notin {None, NotFound, Lost} =>
            p.shown.version <= q.answer.version

RequestFields == {"tab", "gen", "run", "answer"}
RequestsHold ==
  /\ \A q \in requests :
       /\ DOMAIN q = RequestFields /\ q.tab \in Tabs /\ q.gen \in Nat /\ q.run \in Runs
       /\ AnswerHolds(q) /\ CurrentHolds(q)
  /\ \A q1, q2 \in requests : q1.tab = q2.tab /\ Current(q1) /\ Current(q2) => q1 = q2

WatchInv == session \in BOOLEAN /\ TabsShaped /\ RowsSound /\ PagesHold /\ RequestsHold

(* Pages begin empty, and runs as they were created.                       *)
LEMMA WatchStarts == Init => WatchInv
<1>1. SUFFICES ASSUME Init PROVE WatchInv
  OBVIOUS
<1>2. PICK scene \in Scenes :
        row = scene.row /\ tab = scene.tab /\ session = scene.session /\ requests = {}
  BY <1>1 DEF Init
<1>3. RowsSound
  <2>1. ASSUME NEW v, Early(v) PROVE RowSound(v)
    <3> DEFINE w == NewRow(v.kind, v.owned, v.request)
               n == [w EXCEPT !.version = v.version, !.status = v.status,
                              !.started = v.status = "running"]
    <3>1. /\ n.ended = FALSE /\ n.error = FALSE /\ n.results = 0 /\ n.state = None
          /\ n.started <=> v.status = "running"
      BY DEF NewRow
    <3> HIDE DEF n
    <3>2. v = n /\ v \in Rows /\ v.status \in {"pending", "running"}
      BY <2>1 DEF Early, n
    <3>3. /\ v.started <=> v.status # "pending"
          /\ v.ended <=> v.status \in Terminal
          /\ v.error <=> v.status = "failed"
      BY <3>1, <3>2 DEF Terminal
    <3> QED BY <2>1, <3>1, <3>2, <3>3 DEF RowSound, InvestigationSound, MergeSound, Early
  <2> QED BY <1>2, <2>1, ScenesAssumption DEF RowsSound
<1>4. ASSUME NEW t \in Tabs PROVE Shaped(tab[t]) /\ PageHolds(tab[t])
  <2>1. PICK name \in {"console", "dashboard", "trace", "closed"}, r \in Runs,
             gen \in 0..MaxGenerations : tab[t] = Page(name, r, gen)
    BY <1>2, <1>4, ScenesAssumption
  <2>2. gen \in Nat
    BY InspectionAssumption
  <2>3. PageHolds(Page(name, r, gen))
    BY DEF PageHolds, Page, NoForm, FormSound, OrNone
  <2> QED BY <2>1, <2>2, <2>3, PageShaped
<1>5. TabsShaped /\ PagesHold
  BY <1>2, <1>4, ScenesAssumption DEF TabsShaped, PagesHold
<1> QED BY <1>2, <1>3, <1>5, ScenesAssumption DEF WatchInv, RequestsHold

(* The steps of the rows: a follow-up reopens an investigation, a start    *)
(* makes one for its question's fields.                                    *)
LEMMA RowsKept ==
  ASSUME WatchInv, [Next]_vars
  PROVE  RowsSound' /\ RowsGrow
<1>1. RowsSound
  BY DEF WatchInv
<1>2. UNCHANGED row => RowsSound' /\ RowsGrow
  BY <1>1, SameRows
<1>3. ASSUME NEW t \in Tabs, AcceptFollowUp(t) PROVE RowsSound' /\ RowsGrow
  <2> DEFINE r == tab[t].run
             v == row[r]
  <2>1. /\ r \in Runs /\ v \in Rows /\ v # None /\ RowSound(v) /\ v.kind = "investigation"
    <3>1. r \in Runs /\ v \in Rows /\ v.kind = "investigation"
      BY <1>3 DEF WatchInv, TabsShaped, Shaped, PagesHold, PageHolds, AcceptFollowUp
    <3> QED BY <1>1, <3>1, NoneAssumption DEF RowsSound
  <2> DEFINE new == [v EXCEPT !.status = "running", !.ended = FALSE, !.followUps = @ + 1]
  <2>2. UNCHANGED row \/ (v.status = "completed" /\ Save(r, new))
    BY <1>3 DEF AcceptFollowUp
  <2> HIDE DEF v
  <2>3. Changes(v, new, {"status", "ended"}) /\ new.status = "running" /\ new.ended = FALSE
    <3>1. v.followUps + 1 \in Nat
      BY <2>1 DEF Rows
    <3> QED BY <2>1, <3>1 DEF Changes, Rows, Statuses
  <2> HIDE DEF new
  <2>4. v.status = "completed" => RowSound(new)
    BY <2>1, <2>3 DEF Changes, RowSound, InvestigationSound, Terminal
  <2>5. new.version = v.version /\ new.kind = v.kind
    BY <2>3 DEF Changes
  <2> QED BY <1>1, <1>2, <2>1, <2>2, <2>4, <2>5, SaveKeepsRows DEF v
<1>4. ASSUME NEW t \in Tabs, NEW r \in Runs, Submit(t, r) PROVE RowsSound' /\ RowsGrow
  <2> DEFINE form == tab[t].form
             request == [question |-> form.question, fields |-> form.fields, provider |-> None]
             new == NewRow("investigation", session, request)
  <2>1. FormSound(form) /\ form.fields # None /\ row[r] = None /\ row' = [row EXCEPT ![r] = new]
    BY <1>4 DEF Submit, WatchInv, PagesHold, PageHolds
  <2>2. /\ request \in [question : Questions, fields : Questions, provider : OrNone(Providers)]
        /\ request.fields = request.question
    BY <2>1 DEF FormSound, OrNone
  <2> HIDE DEF request
  <2>3. RowSound(new)
    BY <2>2, NewRowSound DEF WatchInv
  <2> HIDE DEF new
  <2>4. \A u \in Runs : row[u] \in Rows => Grows(row[u], row'[u])
    BY <1>1, <2>1, RowStands, NoneAssumption DEF RowsSound
  <2> QED BY <1>1, <2>1, <2>3, <2>4 DEF RowsSound, RowsGrow
<1>5. ASSUME NEW r \in Runs,
             StartRun(r) \/ SaveProgress(r) \/ InvestigationEnds(r) \/ MergeEnds(r)
      PROVE  RowsSound' /\ RowsGrow
  BY <1>1, <1>5, WorkflowsKeepRows
<1>6. ASSUME NEW r \in Runs,
             RecordTerminal(r) \/ RecordStep(r) \/ RecordPersistenceFailure(r) \/ Unsubscribe(r)
      PROVE  UNCHANGED row
  BY <1>6 DEF RecordTerminal, RecordStep, RecordPersistenceFailure, Unsubscribe, runVars
<1>7. PublishNext \/ SessionExpires \/ UNCHANGED vars => UNCHANGED row
  BY DEF PublishNext, SessionExpires, runVars, vars
<1>8. ASSUME NEW t \in Tabs,
             \/ Poll(t) \/ SubmitFollowUp(t) \/ FollowUpAnswered(t)
             \/ FollowUpLost(t) \/ Connect(t) \/ Deliver(t) \/ LoseStream(t)
             \/ EditQuestion(t) \/ SelectPreset(t) \/ ExtractDetails(t)
             \/ \E x \in tab[t].form.asked, found \in BOOLEAN : ExtractionAnswered(t, x, found)
             \/ \E name \in {"dashboard", "trace"}, r \in Runs : Navigate(t, name, r)
      PROVE  UNCHANGED row
  BY <1>8 DEF Poll, SubmitFollowUp, FollowUpAnswered, FollowUpLost, Connect, Deliver, LoseStream,
              EditQuestion, SelectPreset, ExtractDetails, ExtractionAnswered, Navigate, runVars
<1>9. ASSUME NEW q \in requests, ReadRun(q) \/ LoseRequest(q) \/ Receive(q) PROVE UNCHANGED row
  BY <1>9 DEF ReadRun, LoseRequest, Receive, runVars
<1>10. Next => RowsSound' /\ RowsGrow
  BY <1>2, <1>3, <1>4, <1>5, <1>6, <1>7, <1>8, <1>9 DEF Next
<1> QED BY <1>2, <1>7, <1>10

-----------------------------------------------------------------------------
(* The steps of the pages and of their requests.                           *)

(* What held of a page holds of it with newer rows.                        *)
LEMMA PageStands ==
  ASSUME WatchInv, RowsGrow, NEW p, NEW n, Shaped(p), PageHolds(p), QuietMove(p, n)
  PROVE  PageHolds(n)'
<1>1. p.run \in Runs
  BY DEF Shaped
<1>2. row[p.run] \in Rows =>
        /\ row'[p.run] \in Rows /\ row[p.run].version \in Nat /\ row'[p.run].version \in Nat
        /\ row[p.run].version <= row'[p.run].version /\ row'[p.run].kind = row[p.run].kind
  BY <1>1 DEF RowsGrow, Grows, Rows
<1>3. ASSUME n.shown = p.shown, n.run = p.run, FormSound(n.form),
             n.posting # "none" => row[p.run] \in Rows /\ row[p.run].kind = "investigation"
      PROVE  PageHolds(n)'
  BY <1>2, <1>3 DEF PageHolds
<1>4. CASE Opened(p, n)
  BY <1>4 DEF Opened, PageHolds, Page, NoForm, FormSound, OrNone
<1>5. CASE Posted(p, n)
  <2>1. /\ n.shown = p.shown /\ n.run = p.run /\ n.form = p.form
    BY <1>5 DEF Posted, Only, PageFields
  <2> QED BY <1>3, <1>5, <2>1 DEF Posted, PageHolds
<1>6. CASE Resumed(p, n)
  <2>1. /\ n.shown = p.shown /\ n.run = p.run /\ n.form = p.form /\ n.posting = "none"
    BY <1>6 DEF Resumed, Only, PageFields
  <2> QED BY <1>3, <2>1 DEF PageHolds
<1>7. CASE FormChanged(p, n)
  <2>1. /\ n.shown = p.shown /\ n.run = p.run /\ n.posting = p.posting /\ FormSound(n.form)
    BY <1>7 DEF FormChanged, Only, PageFields, PageHolds
  <2> QED BY <1>3, <2>1 DEF PageHolds
<1>8. CASE n = p \/ StreamChanged(p, n)
  <2>1. /\ n.shown = p.shown /\ n.run = p.run /\ n.posting = p.posting /\ n.form = p.form
    BY <1>8 DEF StreamChanged, Only, PageFields
  <2> QED BY <1>3, <2>1 DEF PageHolds
<1> QED BY <1>4, <1>5, <1>6, <1>7, <1>8 DEF QuietMove

(* An answer that is on its way stays as old as its row was.               *)
LEMMA AnswerStands ==
  ASSUME RowsGrow, NEW q, q.run \in Runs, AnswerHolds(q)
  PROVE  AnswerHolds(q)'
<1>1. row[q.run] \in Rows =>
        /\ row'[q.run] \in Rows /\ row[q.run].version \in Nat /\ row'[q.run].version \in Nat
        /\ row[q.run].version <= row'[q.run].version
  BY DEF RowsGrow, Grows, Rows
<1> QED BY <1>1 DEF AnswerHolds, NotFound, Lost

(* A page that moves on leaves its requests behind; else nothing changes   *)
(* for them.                                                               *)
LEMMA QuietMoveKeeps ==
  ASSUME NEW p, NEW n, Shaped(p), QuietMove(p, n)
  PROVE  /\ p.gen \in Nat /\ n.gen \in Nat
         /\ \/ n.gen = p.gen + 1
            \/ n.gen = p.gen /\ n.run = p.run /\ n.armed = p.armed /\ n.shown = p.shown
<1>1. p.gen \in Nat
  BY DEF Shaped
<1>2. Opened(p, n) => n.gen = p.gen + 1
  BY DEF Opened, Page
<1>3. Resumed(p, n) => n.gen = p.gen + 1
  BY DEF Resumed
<1>4. Posted(p, n) \/ FormChanged(p, n) \/ StreamChanged(p, n) =>
        n.gen = p.gen /\ n.run = p.run /\ n.armed = p.armed /\ n.shown = p.shown
  BY DEF Posted, FormChanged, StreamChanged, Only, PageFields
<1> QED BY <1>1, <1>2, <1>3, <1>4 DEF QuietMove

(* A step that asks for nothing and shows nothing keeps what pages and     *)
(* requests hold.                                                          *)
LEMMA QuietKeepsWatch ==
  ASSUME WatchInv, RowsGrow, TabsShaped', UNCHANGED requests,
         \A t \in Tabs : QuietMove(tab[t], tab'[t])
  PROVE  PagesHold' /\ RequestsHold'
<1>1. PagesHold'
  <2>1. SUFFICES ASSUME NEW t \in Tabs PROVE PageHolds(tab[t])'
    BY DEF PagesHold
  <2>2. PICK n : n = tab'[t]
    OBVIOUS
  <2>3. PageHolds(n)'
    BY <2>2, PageStands DEF WatchInv, TabsShaped, PagesHold
  <2> QED BY <2>2, <2>3 DEF PageHolds
<1>2. ASSUME NEW q \in requests
      PROVE  /\ q.tab \in Tabs /\ q.gen \in Nat /\ AnswerHolds(q) /\ CurrentHolds(q)
             /\ DOMAIN q = RequestFields /\ q.run \in Runs
             /\ Shaped(tab[q.tab]) /\ QuietMove(tab[q.tab], tab'[q.tab])
  BY <1>2 DEF WatchInv, RequestsHold, TabsShaped
<1>3. ASSUME NEW q \in requests PROVE AnswerHolds(q)' /\ CurrentHolds(q)' /\ (Current(q)' => Current(q))
  <2> DEFINE p == tab[q.tab]
  <2>1. PICK n : n = tab'[q.tab]
    OBVIOUS
  <2>2. /\ p.gen \in Nat /\ n.gen \in Nat
        /\ \/ n.gen = p.gen + 1
           \/ n.gen = p.gen /\ n.run = p.run /\ n.armed = p.armed /\ n.shown = p.shown
    BY <1>2, <2>1, QuietMoveKeeps
  <2>3. q.gen \in Nat /\ q.gen <= p.gen /\ CurrentHolds(q)
    BY <1>2 DEF CurrentHolds
  <2>4. AnswerHolds(q)'
    BY <1>2, AnswerStands
  <2>5. CASE n.gen = p.gen + 1
    <3>1. q.gen <= n.gen /\ q.gen # n.gen
      BY <2>2, <2>3, <2>5
    <3> QED BY <2>1, <2>4, <3>1 DEF CurrentHolds, Current
  <2>6. CASE n.gen = p.gen /\ n.run = p.run /\ n.armed = p.armed /\ n.shown = p.shown
    BY <2>1, <2>3, <2>4, <2>6 DEF CurrentHolds, Current, NotFound, Lost
  <2> QED BY <2>2, <2>5, <2>6
<1>4. RequestsHold'
  <2>1. \A q1, q2 \in requests : q1.tab = q2.tab /\ Current(q1) /\ Current(q2) => q1 = q2
    BY DEF WatchInv, RequestsHold
  <2> QED BY <1>2, <1>3, <2>1 DEF RequestsHold
<1> QED BY <1>1, <1>4

(* A controller asks when it has no request of its own.                    *)
LEMMA PollKeepsWatch ==
  ASSUME WatchInv, RowsGrow, NEW t \in Tabs, Poll(t)
  PROVE  TabsShaped' /\ PagesHold' /\ RequestsHold'
<1> DEFINE p == tab[t]
<1>0. PICK asked : asked = [tab |-> t, gen |-> p.gen, run |-> p.run, answer |-> None]
  OBVIOUS
<1>1. TabsShaped /\ PagesHold /\ RequestsHold /\ Shaped(p) /\ p.armed
  BY DEF WatchInv, TabsShaped, Poll
<1>2. requests' = requests \cup {asked} /\ UNCHANGED row
  BY <1>0 DEF Poll, runVars
<1>3. PICK n : Puts(t, n) /\ Polled(p, n)
  BY <1>1, PollMoves
<1>4. /\ TabsShaped' /\ tab'[t] = n /\ \A u \in Tabs : u # t => tab'[u] = tab[u]
  BY <1>1, <1>3, PutPage DEF Polled, Only
<1>5. /\ n.gen = p.gen /\ n.run = p.run /\ n.shown = p.shown /\ n.posting = p.posting
      /\ n.form = p.form /\ n.armed = FALSE
  BY <1>3 DEF Polled, Only, PageFields
<1>6. PagesHold'
  <2>1. SUFFICES ASSUME NEW u \in Tabs PROVE PageHolds(tab[u])'
    BY DEF PagesHold
  <2>2. /\ tab'[u].shown = tab[u].shown /\ tab'[u].run = tab[u].run
        /\ tab'[u].posting = tab[u].posting /\ tab'[u].form = tab[u].form
    BY <1>4, <1>5
  <2> QED BY <1>1, <1>2, <2>2 DEF PagesHold, PageHolds
<1>7. ASSUME NEW q \in requests
      PROVE  /\ DOMAIN q = RequestFields /\ q.tab \in Tabs /\ q.gen \in Nat /\ q.run \in Runs
             /\ AnswerHolds(q)' /\ CurrentHolds(q)'
             /\ q.tab = t => ~Current(q)'
             /\ Current(q)' => Current(q)
  <2>1. /\ DOMAIN q = RequestFields /\ q.tab \in Tabs /\ q.gen \in Nat /\ q.run \in Runs
        /\ AnswerHolds(q) /\ CurrentHolds(q)
    BY <1>1, <1>7 DEF RequestsHold
  <2>2. AnswerHolds(q)'
    BY <2>1, AnswerStands
  <2>3. CASE q.tab = t
    BY <1>1, <1>4, <1>5, <2>1, <2>2, <2>3 DEF CurrentHolds, Current
  <2>4. CASE q.tab # t
    <3>1. tab'[q.tab] = tab[q.tab]
      BY <1>4, <2>1, <2>4
    <3> QED BY <2>1, <2>2, <2>4, <3>1 DEF CurrentHolds, Current, NotFound, Lost
  <2> QED BY <2>1, <2>2, <2>3, <2>4
<1>8. /\ DOMAIN asked = RequestFields /\ asked.tab = t /\ asked.gen = p.gen /\ asked.run = p.run
      /\ asked.answer = None
  BY <1>0 DEF RequestFields
<1> HIDE DEF p
<1>9. asked.gen \in Nat /\ asked.gen <= asked.gen /\ asked.run \in Runs
  BY <1>1, <1>8 DEF Shaped
<1>10. AnswerHolds(asked)' /\ CurrentHolds(asked)'
  BY <1>4, <1>5, <1>8, <1>9 DEF AnswerHolds, CurrentHolds
<1>11. RequestsHold'
  <2>1. \A q1, q2 \in requests : q1.tab = q2.tab /\ Current(q1) /\ Current(q2) => q1 = q2
    BY <1>1 DEF RequestsHold
  <2> QED BY <1>2, <1>7, <1>8, <1>9, <1>10, <2>1 DEF RequestsHold
<1> QED BY <1>4, <1>6, <1>11

(* The server reads the row as it is, or the request is lost.              *)
LEMMA ReadKeepsWatch ==
  ASSUME WatchInv, NEW q \in requests, ReadRun(q) \/ LoseRequest(q)
  PROVE  TabsShaped' /\ PagesHold' /\ RequestsHold'
<1>1. TabsShaped /\ RowsSound /\ PagesHold /\ RequestsHold /\ UNCHANGED <<row, tab>>
  BY DEF WatchInv, ReadRun, LoseRequest, runVars
<1>2. /\ DOMAIN q = RequestFields /\ q.tab \in Tabs /\ q.gen \in Nat /\ q.run \in Runs
      /\ AnswerHolds(q) /\ CurrentHolds(q)
  BY <1>1 DEF RequestsHold
<1>3. PICK answer : /\ requests' = (requests \ {q}) \cup {[q EXCEPT !.answer = answer]}
                    /\ answer \in {NotFound, Lost} \/ (Visible(q.run) /\ answer = Snapshot(q.run))
  BY DEF ReadRun, LoseRequest, Answered
<1> DEFINE n == [q EXCEPT !.answer = answer]
<1>4. /\ DOMAIN n = RequestFields /\ n.tab = q.tab /\ n.gen = q.gen /\ n.run = q.run
      /\ n.answer = answer
  BY <1>2 DEF RequestFields
<1> HIDE DEF n
<1>5. ASSUME answer \notin {NotFound, Lost}
      PROVE  /\ answer.run = q.run /\ answer.version = row[q.run].version
             /\ row[q.run] \in Rows /\ answer.version \in Nat /\ answer.version <= answer.version
  <2>1. Visible(q.run) /\ answer = Snapshot(q.run)
    BY <1>3, <1>5
  <2>2. row[q.run] \in Rows
    BY <1>1, <1>2, <2>1 DEF Visible, RowsSound, RowSound
  <2>3. row[q.run].version \in Nat
    BY <2>2 DEF Rows
  <2> QED BY <2>1, <2>2, <2>3 DEF Snapshot
<1>6. AnswerHolds(n)
  BY <1>4, <1>5 DEF AnswerHolds
<1>7. CurrentHolds(n)
  <2>1. PageHolds(tab[q.tab])
    BY <1>1, <1>2 DEF PagesHold
  <2> QED BY <1>2, <1>4, <1>5, <2>1 DEF CurrentHolds, PageHolds
<1>8. RequestsHold'
  <2>1. requests' = (requests \ {q}) \cup {n}
    BY <1>3 DEF n
  <2>2. \A x \in requests : AnswerHolds(x)' <=> AnswerHolds(x)
    BY <1>1 DEF AnswerHolds, NotFound, Lost
  <2>3. AnswerHolds(n)' /\ CurrentHolds(n)' /\ (Current(n)' <=> Current(q))
    BY <1>1, <1>4, <1>6, <1>7 DEF AnswerHolds, CurrentHolds, Current, NotFound, Lost
  <2>4. \A x \in requests : (CurrentHolds(x)' <=> CurrentHolds(x)) /\ (Current(x)' <=> Current(x))
    BY <1>1 DEF CurrentHolds, Current, NotFound, Lost
  <2> QED BY <1>1, <1>2, <1>4, <2>1, <2>2, <2>3, <2>4 DEF RequestsHold
<1>9. PagesHold' /\ TabsShaped'
  BY <1>1 DEF PagesHold, PageHolds, TabsShaped
<1> QED BY <1>8, <1>9

(* An answer is shown if the controller that asked is still there.         *)
LEMMA ReceiveKeepsWatch ==
  ASSUME WatchInv, NEW q \in requests, Receive(q)
  PROVE  TabsShaped' /\ PagesHold' /\ RequestsHold'
<1>1. TabsShaped /\ PagesHold /\ RequestsHold /\ UNCHANGED row /\ requests' = requests \ {q}
  BY DEF WatchInv, Receive, runVars
<1>2. q.tab \in Tabs /\ AnswerHolds(q) /\ CurrentHolds(q)
  BY <1>1 DEF RequestsHold
<1>3. ASSUME NEW x \in requests, x # q
      PROVE  /\ DOMAIN x = RequestFields /\ x.tab \in Tabs /\ x.gen \in Nat /\ x.run \in Runs
             /\ AnswerHolds(x) /\ AnswerHolds(x)' /\ CurrentHolds(x)
             /\ x.tab = q.tab /\ Current(q) => ~Current(x)
  <2>1. AnswerHolds(x)' <=> AnswerHolds(x)
    BY <1>1 DEF AnswerHolds, NotFound, Lost
  <2> QED BY <1>1, <1>3, <2>1 DEF RequestsHold
<1>4. CASE UNCHANGED tab
  <2>1. TabsShaped' /\ PagesHold'
    BY <1>1, <1>4 DEF TabsShaped, PagesHold, PageHolds
  <2>2. \A x \in requests : (CurrentHolds(x)' <=> CurrentHolds(x)) /\ (Current(x)' <=> Current(x))
    BY <1>4 DEF CurrentHolds, Current, NotFound, Lost
  <2>3. RequestsHold'
    BY <1>1, <1>3, <2>2 DEF RequestsHold
  <2> QED BY <2>1, <2>3
<1>5. ASSUME tab' # tab PROVE TabsShaped' /\ PagesHold' /\ RequestsHold'
  <2> DEFINE p == tab[q.tab]
  <2>1. PICK n : Puts(q.tab, n) /\ Received(p, n)
    BY <1>1, <1>2, <1>5, ReceiveMoves
  <2>2. Current(q)
    BY <1>5 DEF Receive
  <2>3. TabsShaped' /\ tab'[q.tab] = n /\ \A u \in Tabs : u # q.tab => tab'[u] = tab[u]
    BY <1>1, <1>2, <2>1, PutPage DEF Received, Only
  <2>4. /\ n.gen = p.gen /\ n.run = p.run /\ n.posting = p.posting /\ n.form = p.form
    BY <2>1 DEF Received, Only, PageFields
  <2>5. PageHolds(n)
    <3>1. PageHolds(p)
      BY <1>1, <1>2 DEF PagesHold
    <3>2. CASE n.shown = p.shown
      BY <2>4, <3>1, <3>2 DEF PageHolds
    <3>3. CASE n.shown # p.shown
      <4>1. PICK x \in requests : /\ tab[x.tab] = p /\ Current(x)
                                  /\ x.answer \notin {None, NotFound, Lost} /\ n.shown = x.answer
        BY <2>1, <3>3 DEF Received, Only, PageFields
      <4>2. AnswerHolds(x) /\ CurrentHolds(x)
        BY <1>1 DEF RequestsHold
      <4> QED BY <2>4, <3>1, <4>1, <4>2 DEF PageHolds, AnswerHolds, CurrentHolds, Current
    <3> QED BY <3>2, <3>3
  <2>6. PagesHold'
    <3>1. SUFFICES ASSUME NEW u \in Tabs PROVE PageHolds(tab[u])'
      BY DEF PagesHold
    <3>2. PageHolds(tab'[u])
      BY <1>1, <2>3, <2>5 DEF PagesHold
    <3> QED BY <1>1, <3>2 DEF PageHolds
  <2>7. ASSUME NEW x \in requests, x # q PROVE CurrentHolds(x)' /\ (Current(x)' => Current(x))
    <3>1. CASE x.tab = q.tab
      BY <1>3, <2>2, <2>3, <2>4, <2>7, <3>1 DEF CurrentHolds, Current
    <3>2. CASE x.tab # q.tab
      <4>1. tab'[x.tab] = tab[x.tab]
        BY <1>3, <2>3, <2>7, <3>2
      <4> QED BY <1>3, <2>7, <4>1 DEF CurrentHolds, Current, NotFound, Lost
    <3> QED BY <3>1, <3>2
  <2>8. RequestsHold'
    <3>1. \A q1, q2 \in requests : q1.tab = q2.tab /\ Current(q1) /\ Current(q2) => q1 = q2
      BY <1>1 DEF RequestsHold
    <3> QED BY <1>1, <1>3, <2>7, <3>1 DEF RequestsHold
  <2> QED BY <2>3, <2>6, <2>8
<1> QED BY <1>4, <1>5

(* Every step keeps the invariant.                                         *)
LEMMA WatchKept == WatchInv /\ [Next]_vars => WatchInv'
<1>1. SUFFICES ASSUME WatchInv, [Next]_vars PROVE WatchInv'
  OBVIOUS
<1>2. RowsSound' /\ RowsGrow
  BY <1>1, RowsKept
<1>3. TabsShaped' /\ PagesHold' /\ RequestsHold'
  BY <1>1, <1>2, StepsOfPages, PollKeepsWatch, ReadKeepsWatch, ReceiveKeepsWatch, QuietKeepsWatch
     DEF WatchInv
<1>4. session' \in BOOLEAN
  <2>1. session' = session \/ session' = FALSE
    <3>1. ASSUME NEW t \in Tabs,
                 \/ Poll(t) \/ SubmitFollowUp(t) \/ AcceptFollowUp(t) \/ FollowUpAnswered(t)
                 \/ FollowUpLost(t) \/ Connect(t) \/ Deliver(t) \/ LoseStream(t)
                 \/ EditQuestion(t) \/ SelectPreset(t) \/ ExtractDetails(t)
                 \/ \E x \in tab[t].form.asked, found \in BOOLEAN : ExtractionAnswered(t, x, found)
                 \/ \E r \in Runs : Submit(t, r)
                 \/ \E name \in {"dashboard", "trace"}, r \in Runs : Navigate(t, name, r)
          PROVE  session' = session
      BY <3>1 DEF Poll, SubmitFollowUp, AcceptFollowUp, FollowUpAnswered, FollowUpLost, Connect,
                  Deliver, LoseStream, EditQuestion, SelectPreset, ExtractDetails,
                  ExtractionAnswered, Submit, Navigate
    <3>2. ASSUME NEW r \in Runs,
                 \/ StartRun(r) \/ SaveProgress(r) \/ InvestigationEnds(r) \/ MergeEnds(r)
                 \/ RecordTerminal(r) \/ RecordStep(r) \/ RecordPersistenceFailure(r) \/ Unsubscribe(r)
          PROVE  session' = session
      BY <3>2 DEF StartRun, SaveProgress, InvestigationEnds, MergeEnds, RecordTerminal, RecordStep,
                  RecordPersistenceFailure, Unsubscribe, OffTheRow
    <3>3. ASSUME NEW q \in requests, ReadRun(q) \/ LoseRequest(q) \/ Receive(q)
          PROVE  session' = session
      BY <3>3 DEF ReadRun, LoseRequest, Receive
    <3>4. PublishNext \/ SessionExpires \/ UNCHANGED vars => session' = session \/ session' = FALSE
      BY DEF PublishNext, SessionExpires, OffTheRow, vars
    <3> QED BY <1>1, <3>1, <3>2, <3>3, <3>4 DEF Next
  <2> QED BY <1>1, <2>1 DEF WatchInv
<1> QED BY <1>2, <1>3, <1>4 DEF WatchInv

(* Pages, their requests and their forms are of the run and the question   *)
(* they stand at, and every row is one that the workflows save             *)
(* (runPolling.ts, InvestigationConsolePage.tsx,                           *)
(* PostgresRunRepository.save).                                            *)
THEOREM WatchHolds == Spec => []WatchInv
BY WatchStarts, WatchKept, PTL DEF Spec

(* Whatever a page shows is of its own run, and never older than what it   *)
(* showed before: a request of a page that was left, or of a controller    *)
(* that was replaced, changes nothing when it is answered (runPolling.ts,  *)
(* useRunSnapshot.ts).                                                     *)
THEOREM PagesFollow == Spec => PagesFollowTheirRun
<1> DEFINE Follows(p, n) ==
      n.shown # None =>
        /\ n.shown.run = n.run
        /\ p.shown # None /\ p.page = n.page /\ p.run = n.run /\ p.gen = n.gen
             => p.shown.version <= n.shown.version
<1>1. WatchInv /\ WatchInv' /\ [Next]_vars => [\A t \in Tabs : Follows(tab[t], tab'[t])]_vars
  <2>1. SUFFICES ASSUME WatchInv, WatchInv', [Next]_vars, NEW t \in Tabs
                 PROVE  Follows(tab[t], tab'[t])
    OBVIOUS
  <2>2. PICK p, n : p = tab[t] /\ n = tab'[t]
    OBVIOUS
  <2>3. n.shown # None => n.shown.run = n.run
    BY <2>1, <2>2 DEF WatchInv, PagesHold, PageHolds
  <2>4. PageHolds(p) /\ Shaped(p)
    BY <2>1, <2>2 DEF WatchInv, TabsShaped, PagesHold
  <2>5. n.shown = p.shown => Follows(p, n)
    <3>1. p.shown # None => p.shown.version <= p.shown.version
      BY <2>4 DEF PageHolds
    <3> QED BY <2>3, <3>1
  <2>6. CASE UNCHANGED tab
    BY <2>2, <2>5, <2>6
  <2>7. CASE QuietMove(tab[t], tab'[t])
    <3>1. (n.gen = p.gen + 1 /\ p.gen \in Nat) \/ n.shown = p.shown
      BY <2>2, <2>4, <2>7, QuietMoveKeeps
    <3>2. n.gen = p.gen + 1 /\ p.gen \in Nat => Follows(p, n)
      BY <2>3
    <3> QED BY <2>2, <2>5, <3>1, <3>2
  <2>8. ASSUME NEW u \in Tabs, Poll(u) PROVE n.shown = p.shown
    <3>1. PICK m : Puts(u, m) /\ Polled(tab[u], m)
      BY <2>1, <2>8, PollMoves DEF WatchInv
    <3>2. m.shown = tab[u].shown /\ tab'[u] = m /\ (u # t => tab'[t] = tab[t])
      BY <2>1, <3>1, PutPage DEF Polled, Only, PageFields, WatchInv
    <3> QED BY <2>2, <3>2
  <2>9. ASSUME NEW q \in requests, Receive(q), tab' # tab PROVE Follows(p, n)
    <3>1. q.tab \in Tabs /\ TabsShaped
      BY <2>1 DEF WatchInv, RequestsHold
    <3>2. PICK m : Puts(q.tab, m) /\ Received(tab[q.tab], m)
      BY <2>9, <3>1, ReceiveMoves
    <3>3. tab'[q.tab] = m /\ (q.tab # t => tab'[t] = tab[t])
      BY <2>1, <3>1, <3>2, PutPage DEF Received, Only
    <3>4. CASE n.shown = p.shown
      BY <2>5, <3>4
    <3>5. CASE n.shown # p.shown
      <4>1. q.tab = t /\ Received(p, n)
        BY <2>2, <3>2, <3>3, <3>5
      <4>2. PICK x \in requests : /\ tab[x.tab] = p /\ Current(x)
                                  /\ x.answer \notin {None, NotFound, Lost} /\ n.shown = x.answer
        BY <3>5, <4>1 DEF Received, Only, PageFields
      <4>3. CurrentHolds(x)
        BY <2>1 DEF WatchInv, RequestsHold
      <4> QED BY <2>3, <4>2, <4>3 DEF CurrentHolds, Current
    <3> QED BY <3>4, <3>5
  <2>10. ASSUME NEW q \in requests, ReadRun(q) \/ LoseRequest(q) PROVE UNCHANGED tab
    BY <2>10 DEF ReadRun, LoseRequest
  <2> HIDE DEF Follows
  <2>11. Follows(p, n)
    BY <2>1, <2>2, <2>5, <2>6, <2>7, <2>8, <2>9, <2>10, StepsOfPages DEF WatchInv
  <2> QED BY <2>2, <2>11
<1> QED BY <1>1, WatchHolds, PTL DEF Spec, PagesFollowTheirRun

(* The fields an investigation starts with are those extracted for its own *)
(* question, however late the extractions asked for before it come back    *)
(* (InvestigationConsolePage.tsx).                                         *)
THEOREM FieldsAreTheQuestions == Spec => []ConfirmedFieldsAreTheQuestions
<1>1. WatchInv => ConfirmedFieldsAreTheQuestions
  BY DEF WatchInv, RowsSound, RowSound, InvestigationSound, ConfirmedFieldsAreTheQuestions
<1> QED BY <1>1, WatchHolds, PTL

(* Whatever the workflows save, the API can answer and the browser can     *)
(* read, for every state and step the API's own models admit.              *)
THEOREM AnswersAreAccepted == Spec => []ResponsesAreAccepted
<1>1. WatchInv => ResponsesAreAccepted
  <2>1. SUFFICES ASSUME WatchInv, NEW r \in Runs, row[r] # None, NEW view \in Views(r)
                 PROVE  Admitted(view) /\ (Accepted(view) \/ view.provider = "openrouter")
    BY DEF ResponsesAreAccepted
  <2> DEFINE v == row[r]
  <2>2. RowSound(v) /\ v \in Rows
    BY <2>1 DEF WatchInv, RowsSound, RowSound
  <2>3. /\ v.kind \in {"investigation", "merge"} /\ v.status \in Statuses
        /\ v.state = None \/ v.state \in States
        /\ v.step = None \/ v.step \in Steps
        /\ v.provider \in OrNone(Providers) /\ v.explanation = None /\ v.unexplained = FALSE
        /\ {v.started, v.ended, v.error} \subseteq BOOLEAN /\ v.results \in Nat
    BY <2>2 DEF Rows, OrNone
  <2>4. CASE v.kind = "investigation"
    <3>1. view = v
      BY <2>1, <2>4 DEF Views
    <3> HIDE DEF v
    <3>2. v.state # None => StateAdmitted(v.state) /\ StateAccepted(v.state)
      BY <2>3, SavesAssumption
         DEF StateAdmitted, StateAccepted, RoundAccepted, FindingAccepted, MetadataAccepted
    <3>3. InvestigationAdmitted(v)
      BY <2>2, <2>3, <2>4, <3>2 DEF RowSound, InvestigationSound, InvestigationAdmitted
    <3>4. InvestigationAccepted(v)
      BY <2>2, <2>3, <2>4, <3>2 DEF RowSound, InvestigationSound, InvestigationAccepted
    <3> QED BY <2>4, <3>1, <3>3, <3>4 DEF Admitted, Accepted
  <2>5. CASE v.kind = "merge"
    <3>1. /\ \A f \in {"kind", "status", "started", "ended", "error", "results", "step", "provider"} :
               view[f] = v[f]
          /\ \/ v.status = "completed" /\ view.explanation = "agrees" /\ view.unexplained = FALSE
             \/ v.status = "completed" /\ view.explanation = None /\ view.unexplained = TRUE
             \/ v.status # "completed" /\ view.explanation = None /\ view.unexplained = FALSE
      <4>1. /\ v.status # "completed" => view = v
            /\ v.status = "completed" => \/ view = [v EXCEPT !.explanation = "agrees"]
                                         \/ view = [v EXCEPT !.unexplained = TRUE]
        BY <2>1, <2>5 DEF Views
      <4> HIDE DEF v
      <4> QED BY <2>2, <2>3, <4>1 DEF Rows
    <3> HIDE DEF v
    <3>2. view.step # None => StepAdmitted(view.step) /\ StepAccepted(view.step)
      BY <2>3, <3>1, SavesAssumption DEF StepAdmitted, StepAccepted
    <3>3. MergeSound(v) /\ (v.started <=> v.status # "pending") /\ (v.ended <=> v.status \in Terminal)
      BY <2>2, <2>5 DEF RowSound
    <3>4. MergeResponseAdmitted(view)
      BY <2>3, <3>1, <3>2, <3>3, NoneAssumption
         DEF MergeSound, MergeResponseAdmitted, MergeRunAdmitted, Statuses, Terminal
    <3>5. view.provider # "openrouter" => MergeAccepted(view)
      <4>1. view.provider # "openrouter" => SourcesAccepted(view.provider)
        BY <2>3, <3>1 DEF SourcesAccepted, OrNone
      <4>2. CompletedState(view) \/ FailedState(view) \/ ActiveState(view)
        BY <2>3, <3>1, <3>3 DEF MergeSound, CompletedState, FailedState, ActiveState, Bare,
                                Statuses, Terminal
      <4> QED BY <3>1, <3>2, <4>1, <4>2, NoneAssumption DEF MergeAccepted
    <3> QED BY <2>5, <3>1, <3>4, <3>5 DEF Admitted, Accepted
  <2> QED BY <2>3, <2>4, <2>5
<1> QED BY <1>1, WatchHolds, PTL

-----------------------------------------------------------------------------
(* Lists of events.                                                        *)

Events == [run : Runs, n : Nat, terminal : BOOLEAN, threaded : BOOLEAN]

\* Events of one run, none beyond those logged.
Lists(events, r, logged) ==
  /\ events \in Seq(Events)
  /\ \A i \in 1..Len(events) : events[i].run = r /\ events[i].n <= logged

InOrder(events) ==
  \A i, j \in 1..Len(events) :
    i < j /\ ~events[i].threaded /\ ~events[j].threaded => events[i].n < events[j].n

\* The loop's events in the one list were logged before those in the other.
Before(earlier, later) ==
  \A i \in 1..Len(earlier), j \in 1..Len(later) :
    ~earlier[i].threaded /\ ~later[j].threaded => earlier[i].n < later[j].n

(* What was logged before more was logged.                                 *)
LEMMA MoreLogged ==
  ASSUME NEW events, NEW r, NEW logged \in Nat, Lists(events, r, logged),
         NEW more \in Nat, logged <= more
  PROVE  Lists(events, r, more)
<1>1. \A i \in 1..Len(events) : events[i] \in Events
  BY DEF Lists
<1>2. \A i \in 1..Len(events) : events[i].n \in Nat
  BY <1>1 DEF Events
<1> QED BY <1>2 DEF Lists

(* An event that is put at the end of a list.                              *)
LEMMA EventAppended ==
  ASSUME NEW events, NEW r, NEW logged \in Nat, Lists(events, r, logged), InOrder(events),
         NEW event \in Events, event.run = r, NEW more \in Nat, logged <= more, event.n <= more,
         event.threaded \/ \A i \in 1..Len(events) :
                             ~events[i].threaded => events[i].n < event.n
  PROVE  Lists(Append(events, event), r, more) /\ InOrder(Append(events, event))
<1> DEFINE new == Append(events, event)
<1>1. /\ new \in Seq(Events) /\ Len(new) = Len(events) + 1 /\ Len(events) \in Nat
      /\ \A i \in 1..Len(events) : new[i] = events[i]
      /\ new[Len(events) + 1] = event
  BY DEF Lists
<1> HIDE DEF new
<1>2. \A i \in 1..Len(new) : i \in 1..Len(events) \/ i = Len(events) + 1
  BY <1>1
<1>3. Lists(events, r, more)
  BY MoreLogged
<1>4. Lists(new, r, more)
  BY <1>1, <1>2, <1>3 DEF Lists
<1>5. InOrder(new)
  <2>1. SUFFICES ASSUME NEW i \in 1..Len(new), NEW j \in 1..Len(new), i < j,
                        ~new[i].threaded, ~new[j].threaded
                 PROVE  new[i].n < new[j].n
    BY DEF InOrder
  <2>2. i \in 1..Len(events)
    BY <1>1, <2>1
  <2> QED BY <1>1, <1>2, <2>1, <2>2 DEF InOrder
<1> QED BY <1>4, <1>5 DEF new

(* An event later than all others is appended.                             *)
LEMMA BeforeAppended ==
  ASSUME NEW earlier, NEW later \in Seq(Events), Before(earlier, later), NEW event \in Events,
         event.threaded \/ \A i \in 1..Len(earlier) :
                             ~earlier[i].threaded => earlier[i].n < event.n
  PROVE  Before(earlier, Append(later, event))
<1> DEFINE new == Append(later, event)
<1>1. /\ Len(new) = Len(later) + 1 /\ Len(later) \in Nat
      /\ \A i \in 1..Len(later) : new[i] = later[i]
      /\ new[Len(later) + 1] = event
  OBVIOUS
<1> HIDE DEF new
<1>2. \A i \in 1..Len(new) : i \in 1..Len(later) \/ i = Len(later) + 1
  BY <1>1
<1>3. Before(earlier, new)
  BY <1>1, <1>2 DEF Before
<1> QED BY <1>3 DEF new

(* The first of a list goes to the end of the list before it.              *)
LEMMA EventDelivered ==
  ASSUME NEW r, NEW logged \in Nat, NEW got, Lists(got, r, logged), InOrder(got),
         NEW waiting, Lists(waiting, r, logged), InOrder(waiting), Before(got, waiting),
         waiting # <<>>
  PROVE  LET new == Append(got, Head(waiting)) IN
         /\ Lists(new, r, logged) /\ InOrder(new)
         /\ Lists(Tail(waiting), r, logged) /\ InOrder(Tail(waiting))
         /\ Before(new, Tail(waiting)) /\ Before(got, Tail(waiting))
<1> DEFINE event == Head(waiting)
           rest == Tail(waiting)
           new == Append(got, event)
<1>1. /\ waiting \in Seq(Events) /\ Len(waiting) \in Nat \ {0} /\ event = waiting[1]
      /\ rest \in Seq(Events) /\ Len(rest) = Len(waiting) - 1
      /\ \A i \in 1..Len(rest) : rest[i] = waiting[i + 1]
  BY DEF Lists
<1>2. event \in Events /\ event.run = r /\ event.n <= logged
  BY <1>1 DEF Lists
<1>3. /\ new \in Seq(Events) /\ Len(new) = Len(got) + 1 /\ Len(got) \in Nat
      /\ \A i \in 1..Len(got) : new[i] = got[i]
      /\ new[Len(got) + 1] = event
  BY <1>2 DEF Lists
<1> HIDE DEF event, rest, new
<1>4. \A i \in 1..Len(rest) : i + 1 \in 1..Len(waiting) /\ 1 < i + 1
  BY <1>1
<1>5. event.threaded \/ \A i \in 1..Len(got) : ~got[i].threaded => got[i].n < event.n
  BY <1>1 DEF Before
<1>6. Lists(new, r, logged) /\ InOrder(new)
  <2>1. logged <= logged
    OBVIOUS
  <2> QED BY <1>2, <1>5, <2>1, EventAppended DEF new
<1>7. Lists(rest, r, logged) /\ InOrder(rest)
  <2>1. Lists(rest, r, logged)
    BY <1>1, <1>4 DEF Lists
  <2>2. \A i, j \in 1..Len(rest) : i < j => i + 1 < j + 1
    OBVIOUS
  <2>3. InOrder(rest)
    BY <1>1, <1>4, <2>2 DEF InOrder
  <2> QED BY <2>1, <2>3
<1>8. Before(new, rest)
  <2>1. SUFFICES ASSUME NEW i \in 1..Len(new), NEW j \in 1..Len(rest),
                        ~new[i].threaded, ~rest[j].threaded
                 PROVE  new[i].n < rest[j].n
    BY DEF Before
  <2>2. rest[j] = waiting[j + 1] /\ j + 1 \in 1..Len(waiting) /\ 1 \in 1..Len(waiting) /\ 1 < j + 1
    BY <1>1, <1>4
  <2>3. CASE i \in 1..Len(got)
    BY <1>3, <2>1, <2>2, <2>3 DEF Before
  <2>4. CASE i = Len(got) + 1
    BY <1>1, <1>3, <2>1, <2>2, <2>4 DEF InOrder
  <2> QED BY <1>3, <2>3, <2>4
<1>9. Before(got, rest)
  BY <1>1, <1>4 DEF Before
<1> QED BY <1>6, <1>7, <1>8, <1>9 DEF event, rest, new

(* The newest of a list are still in order.                                *)
LEMMA NewestKept ==
  ASSUME NEW r, NEW logged, NEW got, Lists(got, r, logged), InOrder(got),
         NEW later, Before(got, later)
  PROVE  Lists(Newest(got), r, logged) /\ InOrder(Newest(got)) /\ Before(Newest(got), later)
<1>1. CASE ~(Len(got) > MaxShown)
  BY <1>1 DEF Newest
<1>2. CASE Len(got) > MaxShown
  <2> DEFINE k == Len(got) - MaxShown
             new == SubSeq(got, k + 1, Len(got))
  <2>1. got \in Seq(Events) /\ Len(got) \in Nat /\ MaxShown \in Nat /\ k \in Nat
    BY <1>2, InspectionAssumption DEF Lists
  <2>2. /\ new \in Seq(Events) /\ Len(new) = Len(got) - k
        /\ \A i \in 1..Len(new) : new[i] = got[k + i] /\ k + i \in 1..Len(got)
    <3>1. k + 1 \in Int /\ Len(got) \in Int /\ \A i \in (k + 1)..Len(got) : got[i] \in Events
      BY <2>1
    <3> HIDE DEF k
    <3>2. /\ new \in Seq(Events)
          /\ Len(new) = IF k + 1 <= Len(got) THEN Len(got) - (k + 1) + 1 ELSE 0
          /\ \A i \in 1..(Len(got) - (k + 1) + 1) : new[i] = got[k + 1 + i - 1]
      BY <3>1, SubSeqProperties
    <3>3. k + 1 <= Len(got)
      BY <1>2, <2>1, InspectionAssumption DEF k
    <3> HIDE DEF new
    <3> QED BY <2>1, <3>2, <3>3
  <2>3. Newest(got) = new
    BY <1>2 DEF Newest
  <2> HIDE DEF k, new
  <2>4. \A i, j \in 1..Len(new) : i < j => k + i < k + j
    BY <2>1
  <2> QED BY <2>2, <2>3, <2>4 DEF Lists, InOrder, Before
<1> QED BY <1>1, <1>2

-----------------------------------------------------------------------------
(* The broker's queues and the traces.                                     *)

Subscribed(id, r) == id \in Range(subs[r])
Distinct(list) == \A i, j \in 1..Len(list) : list[i] = list[j] => i = j

\* What a trace lists, and what its queue will bring, is of its run, in order.
StreamHolds(p) ==
  LET got == p.stream.got
      id == p.stream.id
  IN  /\ Lists(got, p.run, emitted[p.run]) /\ InOrder(got)
      /\ p.stream.status = "open" =>
           /\ id \in DOMAIN queue /\ Subscribed(id, p.run)
           /\ Lists(queue[id], p.run, emitted[p.run]) /\ InOrder(queue[id])
           /\ Before(got, queue[id])

PublicationHolds ==
  pub # None =>
    /\ DOMAIN pub = {"event", "next"} /\ pub.next \in Nat \ {0}
    /\ pub.event \in Events /\ pub.event.threaded /\ pub.event.n <= emitted[pub.event.run]

BrokerHolds ==
  /\ emitted \in [Runs -> Nat] /\ streams \in Nat /\ DOMAIN queue \subseteq 1..streams
  /\ DOMAIN subs = Runs /\ \A r \in Runs : subs[r] \in Seq(DOMAIN queue) /\ Distinct(subs[r])
  /\ \A q, r \in Runs, id \in DOMAIN queue : Subscribed(id, q) /\ Subscribed(id, r) => q = r
  /\ PublicationHolds

StreamsHold == \A t \in Tabs : StreamHolds(tab[t])
TraceInv == BrokerHolds /\ StreamsHold

(* Nothing is subscribed to and nothing was logged.                        *)
LEMMA TraceStarts == Init => TraceInv
<1>1. SUFFICES ASSUME Init PROVE TraceInv
  OBVIOUS
<1>2. PICK scene \in Scenes :
        /\ tab = scene.tab /\ emitted = scene.emitted /\ streams = scene.streams
        /\ subs = [r \in Runs |-> <<>>] /\ queue = <<>> /\ pub = None
  BY <1>1 DEF Init
<1>3. BrokerHolds
  <2>1. scene.emitted \in [Runs -> Nat] /\ scene.streams \in Nat
    BY ScenesAssumption
  <2>2. DOMAIN queue = {} /\ \A r \in Runs : subs[r] = <<>>
    BY <1>2
  <2>3. \A r \in Runs : subs[r] \in Seq(DOMAIN queue) /\ Distinct(subs[r])
    <3>1. ASSUME NEW S PROVE <<>> \in Seq(S) /\ Distinct(<<>>)
      BY DEF Distinct
    <3> QED BY <2>2, <3>1
  <2> QED BY <1>2, <2>1, <2>2, <2>3 DEF BrokerHolds, PublicationHolds
<1>4. ASSUME NEW t \in Tabs PROVE StreamHolds(tab[t])
  <2>1. PICK name \in {"console", "dashboard", "trace", "closed"}, r \in Runs,
             gen \in 0..MaxGenerations : tab[t] = Page(name, r, gen)
    BY <1>2, <1>4, ScenesAssumption
  <2>2. tab[t].stream.got = <<>> /\ tab[t].stream.status # "open"
    BY <2>1 DEF Page, NoStream
  <2> QED BY <2>2 DEF StreamHolds, Lists, InOrder
<1> QED BY <1>3, <1>4 DEF TraceInv, StreamsHold

(* A page that keeps its stream and its run.                               *)
KeepsStream(p, n) == n.stream = p.stream /\ n.run = p.run
Fresh(n) == n.stream.got = <<>> /\ n.stream.status # "open"

EventsStep ==
  \/ \E r \in Runs, terminal \in BOOLEAN : Emit(r, terminal) /\ UNCHANGED tab
  \/ \E r \in Runs : RecordPersistenceFailure(r) \/ Unsubscribe(r)
  \/ PublishNext
  \/ \E t \in Tabs : Connect(t) \/ Deliver(t) \/ LoseStream(t)

(* Every other step leaves the broker alone, and a page its stream unless  *)
(* another page is opened.                                                 *)
LEMMA StepsOfStreams ==
  ASSUME TabsShaped, \A q \in requests : q.tab \in Tabs, [Next]_vars
  PROVE  \/ EventsStep
         \/ /\ UNCHANGED eventVars
            /\ \A t \in Tabs : KeepsStream(tab[t], tab'[t]) \/ Fresh(tab'[t])
<1> DEFINE Keeps == /\ UNCHANGED eventVars
                    /\ \A t \in Tabs : KeepsStream(tab[t], tab'[t]) \/ Fresh(tab'[t])
<1>1. UNCHANGED eventVars /\ UNCHANGED tab => Keeps
  BY DEF KeepsStream
<1>2. ASSUME NEW t \in Tabs, NEW n, Puts(t, n), Shaped(n),
             KeepsStream(tab[t], n) \/ Fresh(n), UNCHANGED eventVars
      PROVE  Keeps
  <2>1. tab'[t] = n /\ \A u \in Tabs : u # t => tab'[u] = tab[u]
    BY <1>2, PutPage
  <2> QED BY <1>2, <2>1 DEF KeepsStream
<1>3. ASSUME NEW t \in Tabs, NEW n, Puts(t, n), UNCHANGED eventVars,
             \/ Polled(tab[t], n) \/ Received(tab[t], n) \/ Posted(tab[t], n)
             \/ Resumed(tab[t], n) \/ FormChanged(tab[t], n)
      PROVE  Keeps
  <2>1. Shaped(n) /\ KeepsStream(tab[t], n)
    BY <1>3 DEF Polled, Received, Posted, Resumed, FormChanged, Only, KeepsStream, PageFields
  <2> QED BY <1>2, <1>3, <2>1
<1> HIDE DEF Keeps
<1>4. ASSUME NEW t \in Tabs, NEW r \in Runs,
             Submit(t, r) \/ \E name \in {"dashboard", "trace"} : Navigate(t, name, r)
      PROVE  Keeps
  <2>1. UNCHANGED eventVars
    BY <1>4 DEF Submit, Navigate
  <2>2. ASSUME NEW p, NEW n, Opened(p, n) PROVE Fresh(n)
    BY <2>2 DEF Opened, Page, NoStream, Fresh
  <2> QED BY <1>1, <1>2, <1>4, <2>1, <2>2, OpenMoves
<1>5. ASSUME NEW t \in Tabs,
             \/ Poll(t) \/ SubmitFollowUp(t) \/ AcceptFollowUp(t) \/ FollowUpAnswered(t)
             \/ FollowUpLost(t) \/ EditQuestion(t) \/ SelectPreset(t) \/ ExtractDetails(t)
             \/ \E x \in tab[t].form.asked, found \in BOOLEAN : ExtractionAnswered(t, x, found)
      PROVE  Keeps
  <2>1. UNCHANGED eventVars
    BY <1>5 DEF Poll, SubmitFollowUp, AcceptFollowUp, FollowUpAnswered, FollowUpLost,
                EditQuestion, SelectPreset, ExtractDetails, ExtractionAnswered
  <2> QED BY <1>3, <1>5, <2>1, PollMoves, PostMoves, FormMoves
<1>6. ASSUME NEW q \in requests, ReadRun(q) \/ LoseRequest(q) \/ Receive(q) PROVE Keeps
  <2>1. UNCHANGED eventVars /\ (Receive(q) \/ UNCHANGED tab)
    BY <1>6 DEF ReadRun, LoseRequest, Receive
  <2> QED BY <1>1, <1>3, <2>1, ReceiveMoves
<1>7. ASSUME NEW r \in Runs,
             \/ StartRun(r) \/ SaveProgress(r) \/ InvestigationEnds(r) \/ MergeEnds(r)
             \/ RecordTerminal(r) \/ RecordStep(r)
      PROVE  Keeps \/ EventsStep
  <2>1. UNCHANGED tab
    BY <1>7 DEF StartRun, SaveProgress, InvestigationEnds, MergeEnds, RecordTerminal, RecordStep,
                OffTheRow
  <2>2. UNCHANGED eventVars \/ Emit(r, TRUE) \/ Emit(r, FALSE)
    BY <1>7 DEF StartRun, SaveProgress, InvestigationEnds, MergeEnds, RecordTerminal, RecordStep
  <2> QED BY <1>1, <2>1, <2>2 DEF EventsStep
<1>8. SessionExpires \/ UNCHANGED vars => Keeps
  BY <1>1 DEF SessionExpires, vars, eventVars
<1> QED BY <1>4, <1>5, <1>6, <1>7, <1>8 DEF Next, EventsStep, Keeps

(* A subscriber is taken off its run's list.                               *)
LEMMA ListWithout ==
  ASSUME NEW S, NEW list \in Seq(S), Distinct(list), NEW e \in Range(list)
  PROVE  LET rest == RemoveFirst(list, e) IN
         rest \in Seq(S \ {e}) /\ Distinct(rest) /\ Range(rest) = Range(list) \ {e}
<1> DEFINE places == {i \in 1..Len(list) : list[i] = e}
           rest == RemoveFirst(list, e)
<1>1. PICK k : k = Min(places)
  OBVIOUS
<1>2. k \in 1..Len(list) /\ list[k] = e /\ Len(list) \in Nat
  <2>1. places \subseteq Nat /\ places # {}
    BY DEF Range
  <2>2. \A x : x \in places => x \in 1..Len(list) /\ list[x] = e
    OBVIOUS
  <2>3. PICK x \in places : \A y \in places : x <= y
    <3> HIDE DEF places
    <3> QED BY <2>1, LeastNumber
  <2>4. k \in places
    <3> HIDE DEF places
    <3> QED BY <1>1, <2>3 DEF Min
  <2> QED BY <2>2, <2>4
<1>3. rest = SubSeq(list, 1, k - 1) \o SubSeq(list, k + 1, Len(list))
  <2>1. SelectInSeq(list, LAMBDA v : v = e) = k
    BY <1>1, <1>2 DEF SelectInSeq
  <2> QED BY <1>2, <2>1 DEF RemoveFirst, RemoveAt
<1> HIDE DEF rest, places
<1>4. /\ rest \in Seq(S) /\ Len(rest) = Len(list) - 1
      /\ \A i \in 1..Len(rest) : rest[i] = IF i < k THEN list[i] ELSE list[i + 1]
  <2> DEFINE a == SubSeq(list, 1, k - 1)
             b == SubSeq(list, k + 1, Len(list))
  <2>1. a \in Seq(S) /\ Len(a) = k - 1 /\ \A i \in 1..(k - 1) : a[i] = list[i]
    BY <1>2
  <2>2. /\ b \in Seq(S) /\ Len(b) = Len(list) - k
        /\ \A i \in 1..(Len(list) - k) : b[i] = list[k + i]
    BY <1>2
  <2> HIDE DEF a, b
  <2>3. /\ a \o b \in Seq(S) /\ Len(a \o b) = Len(a) + Len(b)
        /\ \A i \in 1..(Len(a) + Len(b)) :
             (a \o b)[i] = IF i <= Len(a) THEN a[i] ELSE b[i - Len(a)]
    BY <2>1, <2>2
  <2>4. ASSUME NEW i \in 1..(Len(list) - 1)
        PROVE  (a \o b)[i] = IF i < k THEN list[i] ELSE list[i + 1]
    <3>1. CASE i < k
      BY <1>2, <2>1, <2>2, <2>3, <3>1
    <3>2. CASE ~(i < k)
      <4>1. i - (k - 1) \in 1..(Len(list) - k) /\ k + (i - (k - 1)) = i + 1
        BY <1>2, <3>2
      <4> QED BY <1>2, <2>1, <2>2, <2>3, <3>2, <4>1
    <3> QED BY <3>1, <3>2
  <2>5. rest = a \o b
    BY <1>3 DEF a, b
  <2>6. Len(a \o b) = Len(list) - 1
    BY <1>2, <2>1, <2>2, <2>3
  <2> QED BY <2>3, <2>4, <2>5, <2>6
<1>5. \A i \in 1..Len(rest) : i \in 1..Len(list) /\ i + 1 \in 1..Len(list)
  BY <1>2, <1>4
<1>6. \A i \in 1..Len(rest) : rest[i] # e
  BY <1>2, <1>4, <1>5 DEF Distinct
<1>7. Distinct(rest)
  <2>1. SUFFICES ASSUME NEW i \in 1..Len(rest), NEW j \in 1..Len(rest), rest[i] = rest[j]
                 PROVE  i = j
    BY DEF Distinct
  <2> QED BY <1>2, <1>4, <1>5, <2>1 DEF Distinct
<1>8. \A x : x \in Range(rest) <=> x \in Range(list) /\ x # e
  <2>1. DOMAIN rest = 1..Len(rest) /\ DOMAIN list = 1..Len(list)
    BY <1>4
  <2>2. \A x \in Range(rest) : x \in Range(list) /\ x # e
    BY <1>4, <1>5, <1>6, <2>1 DEF Range
  <2>3. ASSUME NEW i \in 1..Len(list), i # k PROVE \E j \in 1..Len(rest) : rest[j] = list[i]
    <3>1. CASE i < k
      BY <1>2, <1>4, <3>1
    <3>2. CASE i > k
      <4>1. i - 1 \in 1..Len(rest) /\ ~(i - 1 < k) /\ (i - 1) + 1 = i
        BY <1>2, <1>4, <3>2
      <4> QED BY <1>4, <4>1
    <3> QED BY <1>2, <2>3, <3>1, <3>2
  <2> QED BY <1>2, <2>1, <2>2, <2>3 DEF Range
<1>9. rest \in Seq(S \ {e})
  BY <1>4, <1>6
<1> QED BY <1>7, <1>8, <1>9 DEF rest

(* An event is put into some of its run's queues.                          *)
LEMMA QueuesGrow ==
  ASSUME TabsShaped, TraceInv, UNCHANGED <<tab, subs>>, DOMAIN queue' = DOMAIN queue,
         emitted' \in [Runs -> Nat], \A r \in Runs : emitted[r] <= emitted'[r],
         NEW event \in Events, event.n <= emitted'[event.run],
         event.threaded \/ emitted[event.run] < event.n,
         \A id \in DOMAIN queue :
           \/ queue'[id] = queue[id]
           \/ Subscribed(id, event.run) /\ queue'[id] = Append(queue[id], event)
  PROVE  StreamsHold'
<1>1. SUFFICES ASSUME NEW t \in Tabs PROVE StreamHolds(tab[t])'
  BY DEF StreamsHold
<1>2. PICK p : p = tab[t] /\ p = tab'[t]
  OBVIOUS
<1>3. SUFFICES StreamHolds(p)'
  BY <1>2 DEF StreamHolds
<1> DEFINE got == p.stream.got
           id == p.stream.id
           before == emitted[p.run]
           after == emitted'[p.run]
<1>4. StreamHolds(p) /\ p.run \in Runs
  BY <1>2 DEF TraceInv, StreamsHold, TabsShaped, Shaped
<1>5. before \in Nat /\ after \in Nat /\ before <= after /\ event.run \in Runs
  BY <1>4 DEF TraceInv, BrokerHolds, Events
<1>6. Lists(got, p.run, after) /\ InOrder(got)
  BY <1>4, <1>5, MoreLogged DEF StreamHolds
<1>7. ASSUME p.stream.status = "open"
      PROVE  /\ id \in DOMAIN queue' /\ Subscribed(id, p.run)'
             /\ Lists(queue'[id], p.run, after) /\ InOrder(queue'[id])
             /\ Before(got, queue'[id])
  <2>1. /\ id \in DOMAIN queue /\ Subscribed(id, p.run)
        /\ Lists(got, p.run, before) /\ Lists(queue[id], p.run, before) /\ InOrder(queue[id])
        /\ Before(got, queue[id])
    BY <1>4, <1>7 DEF StreamHolds
  <2>2. id \in DOMAIN queue' /\ Subscribed(id, p.run)'
    BY <2>1 DEF Subscribed
  <2>3. CASE queue'[id] = queue[id]
    BY <1>5, <2>1, <2>2, <2>3, MoreLogged
  <2>4. CASE Subscribed(id, event.run) /\ queue'[id] = Append(queue[id], event)
    <3>1. event.run = p.run
      BY <1>4, <1>5, <2>1, <2>4 DEF TraceInv, BrokerHolds
    <3> DEFINE waiting == queue[id]
    <3>2. Lists(waiting, p.run, before)
      BY <2>1
    <3> HIDE DEF got, id, before, after, waiting
    <3>3. ASSUME NEW events, Lists(events, p.run, before), NEW i \in 1..Len(events)
          PROVE  event.threaded \/ (~events[i].threaded => events[i].n < event.n)
      <4>1. events[i].n \in Nat /\ events[i].n <= before /\ event.n \in Nat
        <5>1. events \in Seq(Events) /\ events[i].n <= before
          BY <3>3 DEF Lists
        <5>2. events[i] \in Events
          BY <5>1
        <5> QED BY <5>1, <5>2 DEF Events
      <4> QED BY <1>5, <3>1, <4>1 DEF before
    <3>4. event.threaded \/ \A i \in 1..Len(waiting) : ~waiting[i].threaded => waiting[i].n < event.n
      BY <3>2, <3>3
    <3>5. event.threaded \/ \A i \in 1..Len(got) : ~got[i].threaded => got[i].n < event.n
      BY <2>1, <3>3
    <3>6. Lists(Append(waiting, event), p.run, after) /\ InOrder(Append(waiting, event))
      BY <1>5, <2>1, <3>1, <3>4, EventAppended DEF waiting, after
    <3>7. Before(got, Append(waiting, event))
      BY <2>1, <3>2, <3>5, BeforeAppended DEF waiting, Lists
    <3> QED BY <2>2, <2>4, <3>6, <3>7 DEF waiting
  <2> QED BY <2>1, <2>3, <2>4
<1> QED BY <1>6, <1>7 DEF StreamHolds

(* The loop logs an event and puts it in every subscriber's queue.         *)
LEMMA EmitKeepsTrace ==
  ASSUME TabsShaped, TraceInv, NEW r \in Runs, NEW terminal \in BOOLEAN, Emit(r, terminal),
         UNCHANGED tab
  PROVE  TraceInv'
<1>1. PICK event : event = Event(r, terminal, FALSE)
  OBVIOUS
<1>2. /\ emitted' = [emitted EXCEPT ![r] = emitted[r] + 1] /\ UNCHANGED <<subs, pub, streams>>
      /\ queue' = [id \in DOMAIN queue |->
                     IF id \in Range(subs[r]) /\ Len(queue[id]) < QueueMaxSize
                       THEN Append(queue[id], event) ELSE queue[id]]
  BY <1>1 DEF Emit, Publish
<1>3. emitted \in [Runs -> Nat]
  BY DEF TraceInv, BrokerHolds
<1>4. /\ emitted' \in [Runs -> Nat] /\ \A q \in Runs : emitted[q] <= emitted'[q]
      /\ emitted'[r] = emitted[r] + 1
  BY <1>2, <1>3
<1>5. /\ event \in Events /\ event.run = r /\ event.n = emitted[r] + 1 /\ ~event.threaded
  BY <1>1, <1>3 DEF Event, Events
<1>6. StreamsHold'
  <2>1. event.n <= emitted'[event.run] /\ emitted[event.run] < event.n
    BY <1>3, <1>4, <1>5
  <2>2. DOMAIN queue' = DOMAIN queue
    BY <1>2
  <2>3. \A id \in DOMAIN queue :
          \/ queue'[id] = queue[id]
          \/ Subscribed(id, event.run) /\ queue'[id] = Append(queue[id], event)
    BY <1>2, <1>5 DEF Subscribed
  <2> QED BY <1>2, <1>4, <1>5, <2>1, <2>2, <2>3, QueuesGrow
<1>7. PublicationHolds'
  <2>1. ASSUME pub # None PROVE pub.event.n <= emitted'[pub.event.run]
    <3>1. pub.event.n \in Nat /\ pub.event.run \in Runs /\ pub.event.n <= emitted[pub.event.run]
      BY <2>1 DEF TraceInv, BrokerHolds, PublicationHolds, Events
    <3> QED BY <1>3, <1>4, <3>1
  <2> QED BY <1>2, <2>1 DEF TraceInv, BrokerHolds, PublicationHolds
<1>8. BrokerHolds'
  <2>1. DOMAIN queue' = DOMAIN queue
    BY <1>2
  <2> QED BY <1>2, <1>4, <1>7, <2>1 DEF TraceInv, BrokerHolds, Subscribed
<1> QED BY <1>6, <1>8 DEF TraceInv

(* A worker thread begins to publish an event.                             *)
LEMMA RecordKeepsTrace ==
  ASSUME TabsShaped, TraceInv, NEW r \in Runs, RecordPersistenceFailure(r)
  PROVE  TraceInv'
<1>1. PICK event : event = Event(r, FALSE, TRUE)
  OBVIOUS
<1>2. /\ emitted' = [emitted EXCEPT ![r] = emitted[r] + 1] /\ UNCHANGED <<tab, subs, queue, streams>>
      /\ pub' = [event |-> event, next |-> 1]
  BY <1>1 DEF RecordPersistenceFailure, OffTheRow
<1>3. emitted \in [Runs -> Nat]
  BY DEF TraceInv, BrokerHolds
<1>4. /\ emitted' \in [Runs -> Nat] /\ \A q \in Runs : emitted[q] <= emitted'[q]
      /\ emitted'[r] = emitted[r] + 1
  BY <1>2, <1>3
<1>5. /\ event \in Events /\ event.run = r /\ event.n = emitted[r] + 1 /\ event.threaded
  BY <1>1, <1>3 DEF Event, Events
<1>6. event.n <= emitted'[event.run]
  BY <1>3, <1>4, <1>5
<1>7. StreamsHold'
  BY <1>2, <1>4, <1>5, <1>6, QueuesGrow
<1>8. PublicationHolds'
  BY <1>2, <1>5, <1>6 DEF PublicationHolds
<1>9. BrokerHolds'
  BY <1>2, <1>4, <1>8 DEF TraceInv, BrokerHolds, Subscribed
<1> QED BY <1>7, <1>9 DEF TraceInv

(* It puts it in the next queue of the list.                               *)
LEMMA PublishKeepsTrace ==
  ASSUME TabsShaped, TraceInv, PublishNext
  PROVE  TraceInv'
<1>1. /\ pub # None /\ UNCHANGED <<tab, subs, emitted, streams>>
      /\ DOMAIN pub = {"event", "next"} /\ pub.next \in Nat \ {0} /\ pub.event \in Events
      /\ pub.event.threaded /\ pub.event.n <= emitted[pub.event.run]
  BY DEF PublishNext, OffTheRow, TraceInv, BrokerHolds, PublicationHolds
<1>2. PICK event : event = pub.event
  OBVIOUS
<1>3. event \in Events /\ event.run \in Runs /\ event.threaded /\ event.n <= emitted[event.run]
  BY <1>1, <1>2 DEF Events
<1>4. emitted' \in [Runs -> Nat] /\ \A r \in Runs : emitted[r] <= emitted'[r]
  <2>1. emitted \in [Runs -> Nat]
    BY DEF TraceInv, BrokerHolds
  <2> QED BY <1>1, <2>1
<1>5. CASE pub' = None /\ UNCHANGED queue
  <2>1. StreamsHold'
    BY <1>1, <1>5 DEF TraceInv, StreamsHold, StreamHolds, Subscribed
  <2>2. BrokerHolds'
    BY <1>1, <1>5 DEF TraceInv, BrokerHolds, PublicationHolds, Subscribed
  <2> QED BY <2>1, <2>2 DEF TraceInv
<1>6. CASE ~(pub.next > Len(subs[event.run]))
  <2>1. PICK id : id = subs[event.run][pub.next]
    OBVIOUS
  <2>2. /\ pub' = [pub EXCEPT !.next = pub.next + 1]
        /\ queue' = [queue EXCEPT ![id] =
                       IF Len(queue[id]) < QueueMaxSize THEN Append(queue[id], event) ELSE queue[id]]
    BY <1>2, <1>6, <2>1 DEF PublishNext
  <2>3. Subscribed(id, event.run)
    <3>1. subs[event.run] \in Seq(DOMAIN queue)
      BY <1>3 DEF TraceInv, BrokerHolds
    <3>2. pub.next \in DOMAIN subs[event.run]
      BY <1>1, <1>6, <3>1
    <3> QED BY <2>1, <3>2 DEF Subscribed, Range
  <2>4. StreamsHold'
    <3>1. DOMAIN queue' = DOMAIN queue
      BY <2>2
    <3>2. \A other \in DOMAIN queue :
            \/ queue'[other] = queue[other]
            \/ Subscribed(other, event.run) /\ queue'[other] = Append(queue[other], event)
      BY <2>2, <2>3
    <3> QED BY <1>1, <1>3, <1>4, <3>1, <3>2, QueuesGrow
  <2>5. PublicationHolds'
    <3>1. pub.next + 1 \in Nat \ {0}
      BY <1>1
    <3>2. DOMAIN pub' = {"event", "next"} /\ pub'.next = pub.next + 1 /\ pub'.event = event
      BY <1>1, <1>2, <2>2
    <3> QED BY <1>1, <1>3, <3>1, <3>2 DEF PublicationHolds
  <2>6. BrokerHolds'
    <3>1. DOMAIN queue' = DOMAIN queue
      BY <2>2
    <3> QED BY <1>1, <2>5, <3>1 DEF TraceInv, BrokerHolds, Subscribed
  <2> QED BY <2>4, <2>6 DEF TraceInv
<1> QED BY <1>2, <1>5, <1>6 DEF PublishNext

(* A stream that ended is removed.                                         *)
LEMMA UnsubscribeKeepsTrace ==
  ASSUME TabsShaped, TraceInv, NEW r \in Runs, Unsubscribe(r)
  PROVE  TraceInv'
<1>1. PICK id \in Range(subs[r]) \ Live :
        /\ subs' = [subs EXCEPT ![r] = RemoveFirst(subs[r], id)]
        /\ queue' = [other \in DOMAIN queue \ {id} |-> queue[other]]
        /\ pub' = IF pub # None /\ pub.event.run = r /\ subs[r] = <<id>> THEN None ELSE pub
        /\ UNCHANGED <<tab, emitted, streams>>
  BY DEF Unsubscribe
<1>2. /\ DOMAIN subs = Runs /\ \A q \in Runs : subs[q] \in Seq(DOMAIN queue) /\ Distinct(subs[q])
      /\ \A q, s \in Runs, other \in DOMAIN queue :
           Subscribed(other, q) /\ Subscribed(other, s) => q = s
      /\ emitted \in [Runs -> Nat] /\ streams \in Nat /\ DOMAIN queue \subseteq 1..streams
  BY DEF TraceInv, BrokerHolds
<1>3. /\ subs'[r] \in Seq(DOMAIN queue \ {id}) /\ Distinct(subs'[r])
      /\ Range(subs'[r]) = Range(subs[r]) \ {id}
  <2> DEFINE rest == RemoveFirst(subs[r], id)
  <2>1. rest \in Seq(DOMAIN queue \ {id}) /\ Distinct(rest) /\ Range(rest) = Range(subs[r]) \ {id}
    BY <1>1, <1>2, ListWithout
  <2>2. subs'[r] = rest
    BY <1>1, <1>2
  <2> HIDE DEF rest
  <2> QED BY <2>1, <2>2
<1>4. \A q \in Runs \ {r} : subs'[q] = subs[q] /\ id \notin Range(subs[q])
  <2>1. id \in DOMAIN queue
    <3>1. \A i \in DOMAIN subs[r] : subs[r][i] \in DOMAIN queue
      BY <1>2
    <3> QED BY <1>1, <3>1 DEF Range
  <2> QED BY <1>1, <1>2, <2>1 DEF Subscribed
<1>5. DOMAIN queue' = DOMAIN queue \ {id} /\ \A other \in DOMAIN queue' : queue'[other] = queue[other]
  BY <1>1
<1>6. BrokerHolds'
  <2>1. ASSUME NEW q \in Runs PROVE subs'[q] \in Seq(DOMAIN queue') /\ Distinct(subs'[q])
    <3>1. CASE q = r
      BY <1>3, <1>5, <3>1
    <3>2. CASE q # r
      <4>1. subs[q] \in Seq(DOMAIN queue) /\ Distinct(subs[q]) /\ subs'[q] = subs[q]
        BY <1>2, <1>4, <3>2
      <4>2. \A i \in 1..Len(subs[q]) : subs[q][i] \in DOMAIN queue \ {id}
        BY <1>4, <3>2, <4>1 DEF Range
      <4>3. subs[q] \in Seq(DOMAIN queue \ {id})
        BY <4>1, <4>2
      <4> QED BY <1>5, <4>1, <4>3
    <3> QED BY <3>1, <3>2
  <2>2. \A q \in Runs, other \in DOMAIN queue' : Subscribed(other, q)' => Subscribed(other, q)
    BY <1>3, <1>4 DEF Subscribed
  <2>3. \A q, s \in Runs, other \in DOMAIN queue' :
          Subscribed(other, q)' /\ Subscribed(other, s)' => q = s
    BY <1>2, <1>5, <2>2
  <2>4. PublicationHolds'
    BY <1>1 DEF TraceInv, BrokerHolds, PublicationHolds
  <2>5. DOMAIN subs' = Runs
    BY <1>1, <1>2
  <2> QED BY <1>1, <1>2, <1>5, <2>1, <2>3, <2>4, <2>5 DEF BrokerHolds
<1>7. ASSUME NEW t \in Tabs PROVE StreamHolds(tab[t])'
  <2>1. PICK p : p = tab[t] /\ p = tab'[t]
    BY <1>1
  <2>2. StreamHolds(p) /\ p.run \in Runs /\ p.stream.id # id
    BY <1>1, <2>1 DEF TraceInv, StreamsHold, TabsShaped, Shaped, Live
  <2>3. StreamHolds(p)'
    <3>1. p.stream.id \in DOMAIN queue /\ Subscribed(p.stream.id, p.run) =>
            /\ p.stream.id \in DOMAIN queue' /\ queue'[p.stream.id] = queue[p.stream.id]
            /\ Subscribed(p.stream.id, p.run)'
      BY <1>3, <1>4, <1>5, <2>2 DEF Subscribed
    <3> QED BY <1>1, <2>2, <3>1 DEF StreamHolds
  <2> QED BY <2>1, <2>3 DEF StreamHolds
<1> QED BY <1>6, <1>7 DEF TraceInv, StreamsHold

(* A connection is lost.                                                   *)
LEMMA LoseKeepsTrace ==
  ASSUME TabsShaped, TraceInv, NEW t \in Tabs, LoseStream(t)
  PROVE  TraceInv'
<1>1. UNCHANGED eventVars
  BY DEF LoseStream
<1>2. /\ tab'[t].run = tab[t].run /\ tab'[t].stream.got = tab[t].stream.got
      /\ tab'[t].stream.status # "open" /\ \A u \in Tabs : u # t => tab'[u] = tab[u]
  <2> DEFINE p == tab[t]
  <2>1. Shaped(p) /\ DOMAIN tab = Tabs
    BY DEF TabsShaped
  <2>2. tab' = [tab EXCEPT ![t] = [p EXCEPT !.stream =
                  [p.stream EXCEPT !.status = "connecting", !.id = 0]]]
    BY DEF LoseStream
  <2>3. /\ tab'[t] = [p EXCEPT !.stream = [p.stream EXCEPT !.status = "connecting", !.id = 0]]
        /\ \A u \in Tabs : u # t => tab'[u] = tab[u]
    BY <2>1, <2>2
  <2> HIDE DEF p
  <2>4. /\ tab'[t].run = p.run /\ tab'[t].stream.got = p.stream.got
        /\ tab'[t].stream.status = "connecting"
    BY <2>1, <2>3 DEF Shaped, PageFields, StreamFields
  <2> QED BY <2>3, <2>4 DEF p
<1>3. BrokerHolds'
  BY <1>1 DEF TraceInv, BrokerHolds, PublicationHolds, Subscribed, eventVars
<1>4. StreamsHold'
  BY <1>1, <1>2 DEF TraceInv, StreamsHold, StreamHolds, Subscribed, eventVars
<1> QED BY <1>3, <1>4 DEF TraceInv

(* The first event of a queue reaches its page.                            *)
LEMMA DeliverKeepsTrace ==
  ASSUME TabsShaped, TraceInv, NEW t \in Tabs, Deliver(t)
  PROVE  TraceInv'
<1>1. PICK p : p = tab[t]
  OBVIOUS
<1>2. PICK id : id = p.stream.id
  OBVIOUS
<1>3. PICK waiting : waiting = queue[id]
  OBVIOUS
<1>4. PICK new : new = Newest(Append(p.stream.got, Head(waiting)))
  OBVIOUS
<1>5. /\ p.stream.status = "open" /\ waiting # <<>>
      /\ queue' = [queue EXCEPT ![id] = Tail(waiting)] /\ UNCHANGED <<subs, emitted, pub, streams>>
      /\ \E status, now :
           /\ status = "open" => now = id
           /\ tab' = [tab EXCEPT ![t].stream = [status |-> status, id |-> now, got |-> new]]
  BY <1>1, <1>2, <1>3, <1>4 DEF Deliver
<1>6. PICK n : n = tab'[t]
  OBVIOUS
<1>7. /\ n.run = p.run /\ n.stream.got = new /\ (n.stream.status = "open" => n.stream.id = id)
      /\ \A u \in Tabs : u # t => tab'[u] = tab[u]
  <2>1. Shaped(p) /\ DOMAIN tab = Tabs
    BY <1>1 DEF TabsShaped
  <2>2. PICK status, now :
          /\ status = "open" => now = id
          /\ tab' = [tab EXCEPT ![t] =
                       [p EXCEPT !.stream = [status |-> status, id |-> now, got |-> new]]]
    BY <1>1, <1>5
  <2>3. /\ n = [p EXCEPT !.stream = [status |-> status, id |-> now, got |-> new]]
        /\ \A u \in Tabs : u # t => tab'[u] = tab[u]
    BY <1>6, <2>1, <2>2
  <2> QED BY <2>1, <2>2, <2>3 DEF Shaped, PageFields
<1>8. /\ p.run \in Runs /\ id \in DOMAIN queue /\ Subscribed(id, p.run) /\ emitted[p.run] \in Nat
      /\ Lists(p.stream.got, p.run, emitted[p.run]) /\ InOrder(p.stream.got)
      /\ Lists(waiting, p.run, emitted[p.run]) /\ InOrder(waiting) /\ Before(p.stream.got, waiting)
  <2>1. StreamHolds(p) /\ p.run \in Runs
    BY <1>1 DEF TraceInv, StreamsHold, TabsShaped, Shaped
  <2>2. emitted[p.run] \in Nat
    BY <2>1 DEF TraceInv, BrokerHolds
  <2> QED BY <1>2, <1>3, <1>5, <2>1, <2>2 DEF StreamHolds
<1>9. /\ DOMAIN queue' = DOMAIN queue /\ queue'[id] = Tail(waiting)
      /\ \A other \in DOMAIN queue : other # id => queue'[other] = queue[other]
  BY <1>5, <1>8
<1>10. BrokerHolds'
  BY <1>5, <1>9 DEF TraceInv, BrokerHolds, PublicationHolds, Subscribed
<1>11. StreamHolds(n)'
  <2>1. /\ Lists(new, p.run, emitted[p.run]) /\ InOrder(new) /\ Before(new, Tail(waiting))
        /\ Lists(Tail(waiting), p.run, emitted[p.run]) /\ InOrder(Tail(waiting))
    <3> DEFINE longer == Append(p.stream.got, Head(waiting))
    <3>1. /\ Lists(longer, p.run, emitted[p.run]) /\ InOrder(longer)
          /\ Lists(Tail(waiting), p.run, emitted[p.run]) /\ InOrder(Tail(waiting))
          /\ Before(longer, Tail(waiting))
      BY <1>5, <1>8, EventDelivered
    <3>2. new = Newest(longer)
      BY <1>4
    <3> HIDE DEF longer
    <3> QED BY <3>1, <3>2, NewestKept
  <2>2. Subscribed(id, p.run)'
    BY <1>5, <1>8 DEF Subscribed
  <2> QED BY <1>5, <1>7, <1>8, <1>9, <2>1, <2>2 DEF StreamHolds
<1>12. ASSUME NEW u \in Tabs, u # t PROVE StreamHolds(tab[u])'
  <2>1. PICK m : m = tab[u] /\ m = tab'[u]
    BY <1>7, <1>12
  <2>2. StreamHolds(m) /\ m.run \in Runs
    BY <2>1 DEF TraceInv, StreamsHold, TabsShaped, Shaped
  <2>3. CASE m.stream.status = "open" /\ m.stream.id = id
    <3>1. /\ Lists(m.stream.got, m.run, emitted[m.run]) /\ InOrder(m.stream.got)
          /\ Lists(waiting, m.run, emitted[m.run]) /\ Before(m.stream.got, waiting)
          /\ Subscribed(id, m.run) /\ emitted[m.run] \in Nat
      BY <1>3, <2>2, <2>3 DEF StreamHolds, TraceInv, BrokerHolds
    <3>2. /\ Lists(Tail(waiting), m.run, emitted[m.run]) /\ InOrder(Tail(waiting))
          /\ Before(m.stream.got, Tail(waiting))
      BY <1>5, <1>8, <3>1, EventDelivered
    <3>3. Subscribed(id, m.run)'
      BY <1>5, <3>1 DEF Subscribed
    <3>4. StreamHolds(m)'
      BY <1>5, <1>8, <1>9, <2>3, <3>1, <3>2, <3>3 DEF StreamHolds
    <3> QED BY <2>1, <3>4 DEF StreamHolds
  <2>4. CASE ~(m.stream.status = "open" /\ m.stream.id = id)
    <3>1. StreamHolds(m)'
      BY <1>5, <1>9, <2>2, <2>4 DEF StreamHolds, Subscribed
    <3> QED BY <2>1, <3>1 DEF StreamHolds
  <2> QED BY <2>3, <2>4
<1>13. StreamsHold'
  BY <1>6, <1>11, <1>12 DEF StreamsHold, StreamHolds
<1> QED BY <1>10, <1>13 DEF TraceInv

(* Streams are numbered as they connect, so that a new one has no number   *)
(* that is in use.                                                         *)
LEMMA ConnectKeepsTrace ==
  ASSUME TabsShaped, TraceInv, NEW t \in Tabs, Connect(t)
  PROVE  TraceInv'
<1>1. PICK p : p = tab[t]
  OBVIOUS
<1>2. PICK id : id = streams + 1
  OBVIOUS
<1>3. UNCHANGED <<emitted, pub>> /\ streams' = id
  BY <1>2 DEF Connect
<1>4. /\ DOMAIN subs = Runs /\ \A q \in Runs : subs[q] \in Seq(DOMAIN queue) /\ Distinct(subs[q])
      /\ \A q, s \in Runs, other \in DOMAIN queue :
           Subscribed(other, q) /\ Subscribed(other, s) => q = s
      /\ emitted \in [Runs -> Nat] /\ streams \in Nat /\ DOMAIN queue \subseteq 1..streams
  BY DEF TraceInv, BrokerHolds
<1>5. id \in Nat /\ DOMAIN queue \subseteq 1..id /\ id \notin DOMAIN queue
  BY <1>2, <1>4
<1>6. p.run \in Runs /\ Shaped(p) /\ DOMAIN tab = Tabs
  BY <1>1 DEF TabsShaped, Shaped
<1>7. CASE Visible(p.run)
  <2>1. /\ subs' = [subs EXCEPT ![p.run] = Append(subs[p.run], id)]
        /\ queue' = [other \in DOMAIN queue \cup {id} |-> IF other = id THEN <<>> ELSE queue[other]]
        /\ tab' = [tab EXCEPT ![t] = [p EXCEPT !.stream =
                     [p.stream EXCEPT !.status = "open", !.id = id]]]
    BY <1>1, <1>2, <1>7 DEF Connect, Subscribe
  <2>2. PICK n : n = tab'[t]
    OBVIOUS
  <2>3. /\ n.run = p.run /\ n.stream.got = p.stream.got /\ n.stream.status = "open"
        /\ n.stream.id = id /\ \A u \in Tabs : u # t => tab'[u] = tab[u]
    <3>1. /\ n = [p EXCEPT !.stream = [p.stream EXCEPT !.status = "open", !.id = id]]
          /\ \A u \in Tabs : u # t => tab'[u] = tab[u]
      BY <1>6, <2>1, <2>2
    <3> QED BY <1>6, <3>1 DEF Shaped, PageFields, StreamFields
  <2>4. /\ DOMAIN queue' = DOMAIN queue \cup {id} /\ queue'[id] = <<>>
        /\ \A other \in DOMAIN queue : queue'[other] = queue[other]
    BY <1>5, <2>1
  <2>5. /\ DOMAIN subs' = Runs /\ subs'[p.run] = Append(subs[p.run], id)
        /\ \A q \in Runs : q # p.run => subs'[q] = subs[q]
    BY <1>4, <1>6, <2>1
  <2>6. \A q \in Runs : id \notin Range(subs[q])
    <3>1. \A q \in Runs : \A i \in DOMAIN subs[q] : subs[q][i] \in DOMAIN queue
      BY <1>4
    <3> QED BY <1>5, <3>1 DEF Range
  <2>7. /\ subs'[p.run] \in Seq(DOMAIN queue') /\ Distinct(subs'[p.run])
        /\ Range(subs'[p.run]) = Range(subs[p.run]) \cup {id}
    <3> DEFINE list == subs[p.run]
               longer == Append(list, id)
    <3>1. list \in Seq(DOMAIN queue') /\ Distinct(list) /\ id \in DOMAIN queue' /\ id \notin Range(list)
      <4>1. list \in Seq(DOMAIN queue) /\ Distinct(list)
        BY <1>4, <1>6
      <4> HIDE DEF list
      <4>2. list \in Seq(DOMAIN queue')
        BY <2>4, <4>1
      <4> QED BY <1>6, <2>4, <2>6, <4>1, <4>2 DEF list
    <3> HIDE DEF list
    <3>2. /\ longer \in Seq(DOMAIN queue') /\ Len(longer) = Len(list) + 1 /\ Len(list) \in Nat
          /\ DOMAIN longer = 1..Len(longer) /\ DOMAIN list = 1..Len(list)
          /\ longer[Len(list) + 1] = id /\ \A i \in 1..Len(list) : longer[i] = list[i]
      BY <3>1
    <3> HIDE DEF longer
    <3>3. \A i \in 1..Len(longer) : i \in 1..Len(list) \/ i = Len(list) + 1
      BY <3>2
    <3>4. \A i \in 1..Len(list) : i \in 1..Len(longer) /\ list[i] # id
      BY <3>1, <3>2 DEF Range
    <3>5. Distinct(longer)
      BY <3>1, <3>2, <3>3, <3>4 DEF Distinct
    <3>6. Range(longer) = Range(list) \cup {id}
      <4>1. Len(list) + 1 \in 1..Len(longer)
        BY <3>2
      <4> QED BY <3>2, <3>3, <3>4, <4>1 DEF Range
    <3> QED BY <2>5, <3>2, <3>5, <3>6 DEF list, longer
  <2>8. BrokerHolds'
    <3>1. ASSUME NEW q \in Runs PROVE subs'[q] \in Seq(DOMAIN queue') /\ Distinct(subs'[q])
      <4>1. CASE q = p.run
        BY <2>7, <4>1
      <4>2. CASE q # p.run
        <5>1. subs'[q] = subs[q] /\ subs[q] \in Seq(DOMAIN queue) /\ Distinct(subs[q])
          BY <1>4, <2>5, <4>2
        <5> QED BY <2>4, <5>1
      <4> QED BY <4>1, <4>2
    <3>2. \A other : \A q \in Runs : Subscribed(other, q)' =>
            Subscribed(other, q) \/ (other = id /\ q = p.run)
      BY <2>5, <2>7 DEF Subscribed
    <3>3. \A q, s \in Runs, other \in DOMAIN queue' :
            Subscribed(other, q)' /\ Subscribed(other, s)' => q = s
      <4>1. SUFFICES ASSUME NEW q \in Runs, NEW s \in Runs, NEW other \in DOMAIN queue',
                            Subscribed(other, q)', Subscribed(other, s)'
                     PROVE  q = s
        OBVIOUS
      <4>2. /\ Subscribed(other, q) \/ (other = id /\ q = p.run)
            /\ Subscribed(other, s) \/ (other = id /\ s = p.run)
        BY <3>2, <4>1
      <4>3. ~Subscribed(id, q) /\ ~Subscribed(id, s)
        BY <2>6 DEF Subscribed
      <4> QED BY <1>4, <2>4, <4>1, <4>2, <4>3
    <3>4. PublicationHolds'
      BY <1>3 DEF TraceInv, BrokerHolds, PublicationHolds
    <3>5. DOMAIN queue' \subseteq 1..streams' /\ streams' \in Nat
      BY <1>3, <1>5, <2>4
    <3> QED BY <1>3, <1>4, <2>5, <3>1, <3>3, <3>4, <3>5 DEF BrokerHolds
  <2>9. ASSUME NEW q \in Runs, NEW other, Subscribed(other, q) PROVE Subscribed(other, q)'
    BY <2>5, <2>7, <2>9 DEF Subscribed
  <2>10. StreamHolds(n)'
    <3>1. Lists(p.stream.got, p.run, emitted[p.run]) /\ InOrder(p.stream.got)
      BY <1>1 DEF TraceInv, StreamsHold, StreamHolds
    <3>2. Subscribed(id, p.run)'
      BY <2>7 DEF Subscribed
    <3>3. ASSUME NEW r, NEW logged, NEW got
          PROVE  Lists(<<>>, r, logged) /\ InOrder(<<>>) /\ Before(got, <<>>)
      BY DEF Lists, InOrder, Before
    <3>4. id \in DOMAIN queue'
      BY <2>4
    <3> QED BY <1>3, <2>3, <2>4, <3>1, <3>2, <3>3, <3>4 DEF StreamHolds
  <2>11. ASSUME NEW u \in Tabs, u # t PROVE StreamHolds(tab[u])'
    <3>1. PICK m : m = tab[u] /\ m = tab'[u]
      BY <2>3, <2>11
    <3>2. StreamHolds(m) /\ m.run \in Runs
      BY <3>1 DEF TraceInv, StreamsHold, TabsShaped, Shaped
    <3>3. m.stream.status = "open" =>
            /\ m.stream.id \in DOMAIN queue' /\ queue'[m.stream.id] = queue[m.stream.id]
            /\ Subscribed(m.stream.id, m.run)'
      BY <2>4, <2>9, <3>2 DEF StreamHolds
    <3>4. StreamHolds(m)'
      BY <1>3, <3>2, <3>3 DEF StreamHolds
    <3> QED BY <3>1, <3>4 DEF StreamHolds
  <2>12. StreamsHold'
    BY <2>2, <2>10, <2>11 DEF StreamsHold, StreamHolds
  <2> QED BY <2>8, <2>12 DEF TraceInv
<1>8. CASE ~Visible(p.run)
  <2>1. UNCHANGED <<subs, queue>>
    BY <1>1, <1>8 DEF Connect
  <2>2. /\ tab'[t].run = tab[t].run /\ tab'[t].stream.got = tab[t].stream.got
        /\ tab'[t].stream.status # "open" /\ \A u \in Tabs : u # t => tab'[u] = tab[u]
    <3>1. tab' = [tab EXCEPT ![t] = [p EXCEPT !.stream = [p.stream EXCEPT !.status = "refused"]]]
      BY <1>1, <1>8 DEF Connect
    <3>2. /\ tab'[t] = [p EXCEPT !.stream = [p.stream EXCEPT !.status = "refused"]]
          /\ \A u \in Tabs : u # t => tab'[u] = tab[u]
      BY <1>6, <3>1
    <3>3. /\ tab'[t].run = p.run /\ tab'[t].stream.got = p.stream.got
          /\ tab'[t].stream.status = "refused"
      BY <1>6, <3>2 DEF Shaped, PageFields, StreamFields
    <3> QED BY <1>1, <3>2, <3>3
  <2>3. BrokerHolds'
    <3>1. DOMAIN queue \subseteq 1..streams' /\ streams' \in Nat
      BY <1>3, <1>5
    <3> QED BY <1>3, <2>1, <3>1 DEF TraceInv, BrokerHolds, PublicationHolds, Subscribed
  <2>4. StreamsHold'
    BY <1>3, <2>1, <2>2 DEF TraceInv, StreamsHold, StreamHolds, Subscribed
  <2> QED BY <2>3, <2>4 DEF TraceInv
<1> QED BY <1>7, <1>8

(* Every step keeps the order of events in queues and traces.              *)
LEMMA TraceKept == WatchInv /\ TraceInv /\ [Next]_vars => TraceInv'
<1>1. SUFFICES ASSUME WatchInv, TraceInv, [Next]_vars PROVE TraceInv'
  OBVIOUS
<1>2. TabsShaped /\ \A q \in requests : q.tab \in Tabs
  BY <1>1 DEF WatchInv, RequestsHold
<1>3. ASSUME UNCHANGED eventVars, \A t \in Tabs : KeepsStream(tab[t], tab'[t]) \/ Fresh(tab'[t])
      PROVE  TraceInv'
  <2>1. BrokerHolds'
    BY <1>1, <1>3 DEF TraceInv, BrokerHolds, PublicationHolds, Subscribed, eventVars
  <2>2. ASSUME NEW t \in Tabs PROVE StreamHolds(tab[t])'
    <3>1. CASE KeepsStream(tab[t], tab'[t])
      BY <1>1, <1>3, <3>1 DEF TraceInv, StreamsHold, StreamHolds, KeepsStream, Subscribed, eventVars
    <3>2. CASE Fresh(tab'[t])
      BY <3>2 DEF Fresh, StreamHolds, Lists, InOrder
    <3> QED BY <1>3, <3>1, <3>2
  <2> QED BY <2>1, <2>2 DEF TraceInv, StreamsHold
<1>4. EventsStep => TraceInv'
  BY <1>1, <1>2, EmitKeepsTrace, RecordKeepsTrace, PublishKeepsTrace, UnsubscribeKeepsTrace,
     ConnectKeepsTrace, DeliverKeepsTrace, LoseKeepsTrace DEF EventsStep
<1> QED BY <1>1, <1>2, <1>3, <1>4, StepsOfStreams

(* A trace lists events of its own run, and those the loop logged in the   *)
(* order it logged them and none twice, through reconnecting, full queues  *)
(* and worker threads (useRunEventStream.ts, live_event_broker.py).        *)
THEOREM TracesStayInOrder == Spec => []TracesAreInOrder
<1>1. WatchInv /\ TraceInv => TracesAreInOrder
  BY DEF TraceInv, StreamsHold, StreamHolds, Lists, InOrder, TracesAreInOrder
<1>2. Spec => []TraceInv
  <2>1. Spec => Init /\ [][Next]_vars
    BY DEF Spec
  <2> QED BY <2>1, WatchHolds, TraceStarts, TraceKept, PTL
<1> QED BY <1>1, <1>2, WatchHolds, PTL
=============================================================================
