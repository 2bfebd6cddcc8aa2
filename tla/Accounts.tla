------------------------------ MODULE Accounts ------------------------------
(***************************************************************************)
(* The API in front of the workflows: the fixed-window limiter of each     *)
(* host, accounts and their signed sessions, the encrypted credential of   *)
(* each account and provider, the provider clients a request opens through *)
(* its dependencies and closes when it leaves, the background task some    *)
(* requests start, and the workspace page that lists what the connected    *)
(* providers offer.                                                        *)
(*                                                                         *)
(* A password is the browser that chose it; a token is the account that    *)
(* stored it and how often that account had stored one for the provider.   *)
(* `scene' fixes the callers, addresses, routes and providers an execution *)
(* uses: an instance adds their state spaces instead of multiplying them.  *)
(***************************************************************************)
EXTENDS Integers, Sequences, FiniteSets, FiniteSetsExt, SequencesExt

CONSTANTS
  Browsers, Hosts, HostOf, Tab,    \* who calls, from which address; one has the page
  Emails, AccountOf,               \* addresses as typed, and normalised
  DemoAccount,                     \* the seeded account every visitor may use
  Requests,                        \* identities of the requests of a run
  DefaultMaxRequests, WindowSeconds,
  Scenes,                          \* sets of the names an execution may use
  MaxClock, MaxCount, MaxTokens, MaxRefreshes, MaxCalls   \* bounds of the exploration

Accounts == {AccountOf[e] : e \in Emails} \cup {DemoAccount}
None == [by |-> "nobody", number |-> 0]
Anonymous == "anonymous"
Public == "public"

ASSUME AccountsAssumption ==
  /\ HostOf \in [Browsers -> Hosts] /\ Tab \in Browsers
  /\ DefaultMaxRequests \in Nat \ {0} /\ WindowSeconds \in Nat \ {0}
  /\ {MaxClock, MaxCount, MaxTokens, MaxRefreshes, MaxCalls} \subseteq Nat
  /\ Accounts \cap {"anonymous", "nobody"} = {} /\ Browsers \cap {"nobody", "public"} = {}

CredentialProvider == {"github", "jira", "sentry"}

\* The order in which a route resolves the connectors it depends on.
Dependencies ==
  [investigation |-> <<"github", "sentry", "jira">>,
   follow_up     |-> <<"github", "sentry", "jira">>,
   live_merge    |-> <<"github", "jira">>,
   merge         |-> <<"github", "jira">>,
   scan          |-> <<"sentry", "github">>,
   context       |-> <<"github">>,
   projects      |-> <<"sentry">>,
   extraction    |-> <<>>]
Kinds == DOMAIN Dependencies

RateLimitedPaths == {"investigation", "extraction"}
Background == {"investigation", "follow_up", "live_merge"}
NeedsCredential == {"scan", "context", "projects"}

VARIABLES
  scene,
  clock, windows, allowed,     \* the limiter, and what it let through when
  password, session,           \* accounts, and the account of each cookie
  credentials, stored,         \* the credential rows, and how many were ever stored
  requests,
  page

limiter  == <<clock, windows, allowed>>
accounts == <<password, session>>
rows     == <<credentials, stored>>
vars     == <<scene, limiter, accounts, rows, requests, page>>

-----------------------------------------------------------------------------
(* The limiter.                                                            *)

\* Mutant: an expired window's count is cleared and its start kept.
FixedWindowKeepingItsStart(h) ==
  IF windows[h].count = 0 THEN [start |-> clock, count |-> 1]
  ELSE IF clock - windows[h].start >= WindowSeconds
  THEN [windows[h] EXCEPT !.count = 1]
  ELSE [windows[h] EXCEPT !.count = @ + 1]

FixedWindow(h) ==
  IF windows[h].count = 0 \/ clock - windows[h].start >= WindowSeconds
  THEN [start |-> clock, count |-> 1]
  ELSE [windows[h] EXCEPT !.count = @ + 1]

\* allow counts the request whether or not it lets it through.
Allow(h) == FixedWindow(h).count <= DefaultMaxRequests

Tick ==
  /\ "time" \in scene /\ clock < MaxClock
  /\ clock' = clock + 1
  /\ UNCHANGED <<scene, windows, allowed, accounts, rows, requests, page>>

-----------------------------------------------------------------------------
(* Accounts, sessions and credentials.                                     *)

Listed == {"github", "sentry"}
NoLists == [p \in Listed |-> None]
Closed == [at |-> "closed", connections |-> None, refreshes |-> 0, answers |-> {},
           calls |-> {}, lists |-> NoLists, since |-> NoLists]

Account(b) == session[b]
SignedIn(b) == session[b] # Anonymous

Register(b, e) ==
  /\ {b, e} \subseteq scene
  /\ password[AccountOf[e]] = "nobody"
  /\ password' = [password EXCEPT ![AccountOf[e]] = b]
  /\ session' = [session EXCEPT ![b] = AccountOf[e]]
  /\ UNCHANGED <<scene, limiter, rows, requests, page>>

Login(b, e) ==
  /\ {b, e} \subseteq scene
  /\ password[AccountOf[e]] \in {b, Public}
  /\ session' = [session EXCEPT ![b] = AccountOf[e]]
  /\ UNCHANGED <<scene, limiter, password, rows, requests, page>>

\* A cookie that is deleted, and one whose signature is too old, name nobody.
Logout(b) ==
  /\ b \in scene /\ SignedIn(b)
  /\ session' = [session EXCEPT ![b] = Anonymous]
  /\ page' = IF b = Tab THEN Closed ELSE page
  /\ UNCHANGED <<scene, limiter, password, rows, requests>>

SessionExpires(b) ==
  /\ b \in scene /\ SignedIn(b)
  /\ session' = [session EXCEPT ![b] = Anonymous]
  /\ UNCHANGED <<scene, limiter, password, rows, requests, page>>

\* Mutant: the rows conflict on their provider only.
UpsertOnProvider(a, p) ==
  LET token == [by |-> a, number |-> stored[a][p] + 1]
      conflicting == {b \in Accounts : credentials[b][p] # None}
  IN  IF conflicting = {} THEN [credentials EXCEPT ![a][p] = token]
      ELSE [b \in Accounts |-> IF b \in conflicting
              THEN [credentials[b] EXCEPT ![p] = token] ELSE credentials[b]]

\* INSERT ... ON CONFLICT (user_id, provider) DO UPDATE.
Upsert(a, p) ==
  [credentials EXCEPT ![a][p] = [by |-> a, number |-> stored[a][p] + 1]]

StoreRow(b, p) ==
  /\ SignedIn(b) /\ Account(b) # DemoAccount
  /\ stored[Account(b)][p] < MaxTokens
  /\ credentials' = Upsert(Account(b), p)
  /\ stored' = [stored EXCEPT ![Account(b)][p] = @ + 1]

DeleteRow(b, p) ==
  /\ SignedIn(b) /\ Account(b) # DemoAccount
  /\ credentials' = [credentials EXCEPT ![Account(b)][p] = None]
  /\ UNCHANGED stored

StoreCredential(b, p) ==
  /\ {b, p} \subseteq scene /\ StoreRow(b, p)
  /\ UNCHANGED <<scene, limiter, accounts, requests, page>>

DeleteCredential(b, p) ==
  /\ {b, p} \subseteq scene /\ DeleteRow(b, p)
  /\ credentials[Account(b)][p] # None
  /\ UNCHANGED <<scene, limiter, accounts, requests, page>>

-----------------------------------------------------------------------------
(* A request: the limiter, its dependencies in order, the route, the exit. *)

NoClient == [token |-> None, state |-> "absent", read |-> "unread"]
Idle == [kind |-> "none", caller |-> Anonymous, at |-> "idle", reply |-> 0,
         task |-> "none", todo |-> <<>>, clients |-> [p \in CredentialProvider |-> NoClient]]

Shared == [by |-> Public, number |-> 0]    \* the application's own connector

\* Only a client opened for the request is ever closed with it.
Opened(q, state) == {p \in CredentialProvider :
                       q.clients[p].state = state /\ q.clients[p].token # Shared}

\* Nothing of the request is left, and another may have its identity.
Over(q) == /\ q.at \in {"idle", "ended"} /\ q.task # "running"
           /\ Opened(q, "open") \cup Opened(q, "abandoned") = {}

OnlyRequest(r, q) ==
  /\ requests' = [requests EXCEPT ![r] = q]
  /\ UNCHANGED <<scene, accounts, rows, page>>

Arrive(b, r, k) ==
  /\ {b, k} \subseteq scene /\ Over(requests[r])
  /\ LET h == HostOf[b]
         arrived == [Idle EXCEPT !.kind = k, !.caller = Account(b),
                                 !.at = "resolving", !.todo = Dependencies[k]]
     IN  IF k \in RateLimitedPaths
         THEN /\ FixedWindow(h).count <= MaxCount
              /\ windows' = [windows EXCEPT ![h] = FixedWindow(h)]
              /\ allowed' = IF Allow(h) THEN [allowed EXCEPT ![h][clock] = @ + 1]
                            ELSE allowed
              /\ OnlyRequest(r, IF Allow(h) THEN arrived
                                ELSE [arrived EXCEPT !.at = "ended", !.reply = 429])
         ELSE UNCHANGED <<windows, allowed>> /\ OnlyRequest(r, arrived)
  /\ UNCHANGED clock

\* Mutant: a client is closed only where its request ends well.
RaisedLeavingClients(q, reply) == [q EXCEPT !.at = "ended", !.reply = reply]

\* An exception, and a return out of the loop over the client's generator,
\* leave the generators of the open clients to the event loop's finaliser.
Raised(q, reply) ==
  [q EXCEPT !.at = "ended", !.reply = reply,
            !.clients = [p \in CredentialProvider |->
               IF p \in Opened(q, "open")
               THEN [@[p] EXCEPT !.state = "abandoned"] ELSE @[p]]]

Resolve(r) ==
  LET q == requests[r]  p == Head(q.todo)
      Connected(token) == [q EXCEPT !.todo = Tail(@),
         !.clients[p] = [token |-> token, state |-> "open", read |-> "unread"]]
  IN  /\ q.at = "resolving" /\ q.todo # <<>>
      /\ IF q.caller \in {Anonymous, DemoAccount}
         THEN OnlyRequest(r, IF q.kind \in NeedsCredential
                             THEN Raised(q, 409) ELSE Connected(Shared))
         ELSE OnlyRequest(r, IF credentials[q.caller][p] = None
                             THEN Raised(q, 409)
                             ELSE Connected(credentials[q.caller][p]))
      /\ UNCHANGED limiter

Ready(q) == q.at = "resolving" /\ q.todo = <<>>

\* The replies a route returns with, but for the task it starts, and those
\* to what it raises or returns from within the loop over its client.
Returned ==
  [investigation |-> {}, follow_up |-> {404, 409}, live_merge |-> {},
   merge |-> {200, 500}, scan |-> {200, 502, 503},
   context |-> {200}, projects |-> {200}, extraction |-> {200, 502}]
Thrown ==
  [investigation |-> {503}, follow_up |-> {500, 503}, live_merge |-> {503},
   merge |-> {404, 409, 500, 503}, scan |-> {500},
   context |-> {401, 503}, projects |-> {401, 503}, extraction |-> {}]

Left(q, reply) == [q EXCEPT !.at = "leaving", !.reply = reply]

\* The run is persisted and handed to a task, which outlives the request. A
\* follow-up finds no such case, or one that is not completed.
StartTask(r) ==
  LET q == requests[r]
  IN  /\ Ready(q) /\ q.kind \in Background
      /\ \/ OnlyRequest(r, [Left(q, 202) EXCEPT !.task = "running"])
         \/ \E reply \in Returned[q.kind] : OnlyRequest(r, Left(q, reply))
         \/ \E reply \in Thrown[q.kind] : OnlyRequest(r, Raised(q, reply))
      /\ UNCHANGED limiter

\* The other routes await their providers before they answer. Only the
\* application's own connectors look for a fixture and do not find it.
Answer(r) ==
  LET q == requests[r]
      heard == [q EXCEPT !.clients = [p \in CredentialProvider |->
                  IF q.clients[p] = NoClient THEN NoClient
                  ELSE [q.clients[p] EXCEPT !.read = "read"]]]
  IN  /\ Ready(q) /\ q.kind \in Kinds \ Background
      /\ \/ \E reply \in Returned[q.kind] : OnlyRequest(r, Left(heard, reply))
         \/ \E reply \in Thrown[q.kind] :
              /\ reply = 404 => q.caller \in {Anonymous, DemoAccount}
              /\ OnlyRequest(r, Raised(heard, reply))
      /\ UNCHANGED limiter

\* The dependencies that opened a client close it, the last one first.
Leave(r) ==
  LET q == requests[r]
      order == Dependencies[q.kind]
      open == {i \in DOMAIN order : order[i] \in Opened(q, "open")}
  IN  /\ q.at = "leaving"
      /\ OnlyRequest(r, IF open = {} THEN [q EXCEPT !.at = "ended"]
                        ELSE [q EXCEPT !.clients[order[Max(open)]].state = "closed"])
      /\ UNCHANGED limiter

Finalise(r, p) ==
  /\ requests[r].clients[p].state = "abandoned"
  /\ OnlyRequest(r, [requests[r] EXCEPT !.clients[p].state = "closed"])
  /\ UNCHANGED limiter

\* A task reads its providers when its plan says so. httpx refuses a closed
\* client with an error no connector catches, and the run fails.
TaskReads(r, p) ==
  LET q == requests[r]
      closed == q.clients[p].state # "open"
  IN  /\ q.task = "running" /\ q.clients[p].token # None
      /\ q.clients[p].read = "unread"
      /\ OnlyRequest(r, [q EXCEPT !.clients[p].read = IF closed THEN "closed" ELSE "read",
                                  !.task = IF closed THEN "failed" ELSE @])
      /\ UNCHANGED limiter

TaskEnds(r) ==
  /\ requests[r].task = "running"
  /\ OnlyRequest(r, [requests[r] EXCEPT !.task = "ended"])
  /\ UNCHANGED limiter

-----------------------------------------------------------------------------
(* The workspace page of the browser Tab. `since' is, for each provider,   *)
(* the row the server held when the page last asked for the lists.         *)

OnlyPage(w) ==
  /\ page' = w
  /\ UNCHANGED <<scene, limiter, accounts, requests>>

Row(p) == IF SignedIn(Tab) THEN credentials[Account(Tab)][p] ELSE None

\* Every provider of the demonstration account counts as connected.
Connections ==
  [p \in Listed |-> Account(Tab) = DemoAccount \/ Row(p) # None]

\* The scan page drops what it has and asks again; earlier answers are stale.
Ask(w) ==
  [w EXCEPT !.at = "scan", !.lists = NoLists, !.since = [p \in Listed |-> Row(p)],
            !.calls = {[c EXCEPT !.active = FALSE] : c \in @}
              \cup {[provider |-> p, active |-> TRUE, answer |-> "waiting",
                       token |-> None] :
                      p \in {x \in Listed : w.connections # None /\ w.connections[x]}}]

Refreshing(w) == [w EXCEPT !.refreshes = @ + 1]

OpenWorkspace ==
  /\ "workspace" \in scene /\ page.at = "closed" /\ SignedIn(Tab)
  /\ OnlyPage(Refreshing([Closed EXCEPT !.at = "sources"]))
  /\ UNCHANGED rows

Navigate ==
  /\ page.at # "closed" /\ Cardinality(page.calls) <= MaxCalls
  /\ OnlyPage(IF page.at = "sources" THEN Ask(page)
              ELSE [page EXCEPT !.at = "sources", !.lists = NoLists,
                                !.calls = {[c EXCEPT !.active = FALSE] : c \in @}])
  /\ UNCHANGED rows

\* Connecting and disconnecting read the connections again afterwards; the
\* refreshes are not numbered, and the last one to land wins.
Connect(p) ==
  /\ p \in scene /\ page.refreshes < MaxRefreshes
  /\ page.at = "sources" /\ page.connections # None /\ ~page.connections[p]
  /\ StoreRow(Tab, p)
  /\ OnlyPage(Refreshing(page))

Disconnect(p) ==
  /\ p \in scene /\ page.refreshes < MaxRefreshes
  /\ page.at = "sources" /\ page.connections # None /\ page.connections[p]
  /\ DeleteRow(Tab, p)
  /\ OnlyPage(Refreshing(page))

RefreshAnswered ==
  /\ page.refreshes > 0
  /\ OnlyPage([page EXCEPT !.refreshes = @ - 1,
                 !.answers = IF SignedIn(Tab) THEN @ \cup {Connections} ELSE @])
  /\ UNCHANGED rows

RefreshShown ==
  \E shown \in page.answers :
    LET w == [page EXCEPT !.answers = @ \ {shown}, !.connections = shown]
    IN  /\ OnlyPage(IF page.at = "scan" /\ shown # page.connections THEN Ask(w) ELSE w)
        /\ UNCHANGED rows

DiscoveryAnswered ==
  \E c \in page.calls :
    /\ c.answer = "waiting"
    /\ OnlyPage([page EXCEPT !.calls = (@ \ {c}) \cup {[c EXCEPT !.answer = "served", !.token = Row(c.provider)]}])
    /\ UNCHANGED rows

\* Mutant: an answer is shown whichever visit of the page asked for it.
DiscoveryShownWhenever ==
  \E c \in page.calls :
    /\ c.answer = "served"
    /\ OnlyPage([page EXCEPT !.calls = @ \ {c}, !.lists[c.provider] = c.token])
    /\ UNCHANGED rows

DiscoveryShown ==
  \E c \in page.calls :
    /\ c.answer = "served"
    /\ OnlyPage([page EXCEPT !.calls = @ \ {c},
                   !.lists[c.provider] = IF c.active THEN c.token ELSE @])
    /\ UNCHANGED rows

-----------------------------------------------------------------------------
Init ==
  /\ scene \in Scenes
  /\ clock = 0
  /\ windows = [h \in Hosts |-> [start |-> 0, count |-> 0]]
  /\ allowed = [h \in Hosts |-> [t \in 0..MaxClock |-> 0]]
  /\ password = [a \in Accounts |-> IF a = DemoAccount THEN Public ELSE "nobody"]
  /\ session = [b \in Browsers |-> Anonymous]
  /\ credentials = [a \in Accounts |-> [p \in CredentialProvider |-> None]]
  /\ stored = [a \in Accounts |-> [p \in CredentialProvider |-> 0]]
  /\ requests = [r \in Requests |-> Idle]
  /\ page = Closed

Step(r) ==
  \/ Resolve(r) \/ StartTask(r) \/ Answer(r) \/ Leave(r)
  \/ \E p \in CredentialProvider : Finalise(r, p)

Next ==
  \/ Tick
  \/ \E b \in Browsers :
       \/ \E e \in Emails : Register(b, e) \/ Login(b, e)
       \/ Logout(b) \/ SessionExpires(b)
       \/ \E p \in CredentialProvider : StoreCredential(b, p) \/ DeleteCredential(b, p)
       \/ \E r \in Requests, k \in Kinds : Arrive(b, r, k)
  \/ \E r \in Requests :
       Step(r) \/ TaskEnds(r) \/ \E p \in CredentialProvider : TaskReads(r, p)
  \/ OpenWorkspace \/ Navigate \/ RefreshAnswered \/ RefreshShown
  \/ DiscoveryAnswered \/ DiscoveryShown
  \/ \E p \in Listed : Connect(p) \/ Disconnect(p)

Spec == Init /\ [][Next]_vars

\* The event loop runs every request it has accepted to its end, and its
\* finaliser every generator it has left: provider calls time out.
FairSpec == Spec /\ \A r \in Requests : WF_vars(Step(r))

-----------------------------------------------------------------------------
(* Around a window's boundary a host may get two windows' allowance, and   *)
(* never more in any stretch of a window's length: FixedWindowRateLimiter  *)
(* starts a new window only a whole window after the last one's start.     *)
RateIsBounded ==
  \A h \in Hosts, t \in 0..MaxClock :
    MapThenSumSet(LAMBDA s : allowed[h][s], t..(Min({t + WindowSeconds - 1, MaxClock})))
      <= 2 * DefaultMaxRequests

(* A client opened with a signed-in caller's token is that account's own,  *)
(* and everyone else, the demonstration account included, is served by the *)
(* application's connectors: no order of storing, replacing and deleting   *)
(* credentials between two dependencies gives a request another's access.  *)
ConnectorsAreTheCallers ==
  \A r \in Requests, p \in CredentialProvider :
    LET q == requests[r]  token == q.clients[p].token
    IN  token # None =>
          token.by = IF q.caller \in {Anonymous, DemoAccount} THEN Public ELSE q.caller

(* Every client a request opened is closed in the end, also when a later   *)
(* dependency refuses the request, the run cannot be persisted or the      *)
(* provider fails, where no statement of the code closes it.               *)
ClientsAreClosed ==
  \A r \in Requests, p \in CredentialProvider :
    p \in Opened(requests[r], "open") \cup Opened(requests[r], "abandoned")
      ~> p \in Opened(requests[r], "closed")

(* What the scan page offers was read under the connection it asked for    *)
(* last: an answer that comes after a disconnection, a reconnection or a   *)
(* visit to the Sources page is not shown (the effect's `active' flag).    *)
(* The numbers of one account's tokens are compared: where another account *)
(* signs in at the same browser, the open page notices nothing.            *)
ListsAreCurrent ==
  \A p \in Listed :
    page.at = "scan" /\ page.lists[p] # None
      => /\ page.lists[p].by = page.since[p].by
               => page.lists[p].number >= page.since[p].number
         /\ page.connections[p]

(* What docs/ARCHITECTURE.md says of per-user connectors: a signed-in      *)
(* caller's investigation reads its sources with the caller's own token.   *)
(* The task reads through clients that were closed with the request.       *)
TasksReadTheirSources ==
  \A r \in Requests, p \in CredentialProvider :
    requests[r].clients[p].read # "closed"
=============================================================================
