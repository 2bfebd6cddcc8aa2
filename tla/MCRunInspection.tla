---------------------------- MODULE MCRunInspection ----------------------------
(***************************************************************************)
(* Two tabs for TLC: one that starts an investigation, and two that watch    *)
(* an investigation and a merge run side by side.                          *)
(***************************************************************************)
EXTENDS RunInspection, TLC

CONSTANTS inv, merge, a, b, q1, q2

Record(round, attempts, line, tokens) ==
  [round |-> round, attempts |-> attempts, calls |-> 0, rejected |-> 0, line |-> line, tokens |-> tokens]
MCStates == {Record(1, 0, None, None), Record(1, 1, 1, 0)}
MCSteps ==
  {[status |-> "running", started |-> TRUE, ended |-> FALSE, duration |-> None, attempt |-> 1, error |-> FALSE],
   [status |-> "failed", started |-> TRUE, ended |-> TRUE, duration |-> 0, attempt |-> 1, error |-> TRUE]}

Known(q) == [question |-> q, fields |-> q, provider |-> None]
Explained(by) == [question |-> q1, fields |-> q1, provider |-> by]
Closed == Page("closed", inv, 0)
Scene(rows, x, y) ==
  [row |-> (inv :> rows[1] @@ merge :> rows[2]), tab |-> (a :> x @@ b :> y), session |-> TRUE,
   emitted |-> [r \in {inv, merge} |-> MaxEvents], failures |-> MaxFailures, streams |-> MaxStreams]
Investigation == NewRow("investigation", TRUE, Known(q1))
Merge(provider) == NewRow("merge", FALSE, Explained(provider))

Nearly(run) == [run EXCEPT !.version = MaxSaves - 2, !.status = "running", !.started = TRUE]

\* One tab starts an investigation; one continues its case; one goes from run
\* to run; one shows a run explained by a provider it does not know; and one
\* listens to an investigation, or to a merge run.
Starting == [Scene(<<None, None>>, Page("console", inv, 1), Closed) EXCEPT !.failures = 0, !.session = FALSE]
Continuing == [Scene(<<Investigation, None>>, Page("dashboard", inv, 1), Closed) EXCEPT !.failures = 0]
Leaving ==
  [Scene(<<Nearly(Investigation), Nearly(Merge("gemini"))>>, Page("dashboard", merge, 1), Closed)
     EXCEPT !.session = FALSE]
Unknown == Scene(<<None, Merge("openrouter")>>, Page("dashboard", merge, MaxGenerations), Closed)
Listening(r, rows) ==
  [Scene(rows, Page("trace", r, MaxGenerations), Closed)
     EXCEPT !.emitted = [x \in {inv, merge} |-> 0], !.streams = 1, !.session = FALSE]

MCScenes ==
  {Starting, Continuing, Leaving, Unknown,
   Listening(inv, <<[Nearly(Investigation) EXCEPT !.owned = FALSE], None>>),
   Listening(merge, <<None, Nearly(Merge("gemini"))>>)}
=============================================================================
