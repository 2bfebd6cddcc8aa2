----------------------------- MODULE PatchParsing -----------------------------
(***************************************************************************)
(* parse_github_patch (connectors/github_diff.py).  A patch is the sequence *)
(* of its lines: a hunk header with the counts it declares, a context,      *)
(* added or removed line, one too long to keep, the marker of a missing     *)
(* final newline, or something else.  The texts and the start numbers are   *)
(* carried along unread and left out.                                      *)
(***************************************************************************)
EXTENDS Integers, Sequences, SequencesExt

CONSTANTS
  None,
  MaxPatch,   \* MAX_PATCH_CHARACTERS, counted in lines
  MaxHunks,   \* MAX_HUNKS_PER_FILE
  MaxLines    \* MAX_LINES_PER_HUNK

ParseErrors == {"incomplete_result", "invalid_response"}

(* None stands for the absence of an error.                                *)
ASSUME NoneAssumption == None \notin ParseErrors

Header(old, new) == [is |-> "header", old |-> old, new |-> new]
Line(kind) == [is |-> kind]   \* context, addition, deletion, long, no_newline, other
Content == {"context", "addition", "deletion"}
IsPatch(patch) ==
  /\ patch \in Seq(Range(patch))
  /\ \A i \in DOMAIN patch : patch[i].is \in Content \cup {"header", "long", "no_newline", "other"}

CountOf(kinds, lines) == Len(SelectSeq(lines, LAMBDA l : l.is \in kinds))

(* Counts as the header declares them, for the hunk it opens.              *)
CountsAgree(header, lines) ==
  /\ CountOf({"context", "deletion"}, lines) = header.old
  /\ CountOf({"context", "addition"}, lines) = header.new

(* header is the empty sequence before the first hunk.                     *)
Start == [error |-> None, hunks |-> <<>>, header |-> <<>>, lines |-> <<>>]
Stop(state, error) == [state EXCEPT !.error = error]

FinishHunk(state) ==
  IF state.header = <<>> THEN state
  ELSE IF ~CountsAgree(state.header[1], state.lines) THEN Stop(state, "incomplete_result")
  ELSE IF state.lines = <<>> THEN Stop(state, "invalid_response")
  ELSE [state EXCEPT !.hunks = Append(@, [header |-> state.header[1], lines |-> state.lines]),
                     !.header = <<>>, !.lines = <<>>]

OpenHunk(state, header) ==
  LET finished == FinishHunk(state) IN
  IF finished.error # None THEN finished
  ELSE IF Len(finished.hunks) >= MaxHunks THEN Stop(finished, "incomplete_result")
  ELSE [finished EXCEPT !.header = <<header>>]

TakeLine(state, line) ==
  IF line.is = "header" THEN OpenHunk(state, line)
  ELSE IF state.header = <<>> \/ line.is = "other" THEN Stop(state, "invalid_response")
  ELSE IF line.is = "no_newline" THEN state
  ELSE IF Len(state.lines) >= MaxLines \/ line.is = "long" THEN Stop(state, "incomplete_result")
  ELSE [state EXCEPT !.lines = Append(@, line)]

(* The first line that is refused ends the parsing.                        *)
ReadLine(state, line) == IF state.error # None THEN state ELSE TakeLine(state, line)

ParsePatch(patch) ==
  LET read == FoldLeft(ReadLine, Start, patch)
      ended == IF read.error # None THEN read ELSE FinishHunk(read)
  IN IF Len(patch) > MaxPatch THEN Stop(Start, "incomplete_result")
     ELSE IF patch = <<>> THEN Stop(Start, "invalid_response")
     ELSE IF ended.error # None THEN ended
     ELSE IF ended.hunks = <<>> THEN Stop(ended, "invalid_response")
     ELSE ended
=============================================================================
