----------------------------- MODULE CodeEvidence -----------------------------
(***************************************************************************)
(* What is derived from code and failure evidence, and what is accepted of  *)
(* the models' proposals about it: the facts                               *)
(* (investigations/fact_derivation/code_change.py), the hypothesis         *)
(* validator (hypotheses/validator.py), the code-finding validator         *)
(* (code_diagnosis/validator.py) and the fix proposal                      *)
(* (code_diagnosis/fix_proposal.py).  Pure functions; CorrelationScan calls *)
(* them.                                                                   *)
(*                                                                         *)
(* A path is the sequence of its segments, separators and a leading "./"   *)
(* already normalised.  Evidence and facts are their own identifiers, so a  *)
(* fact's references are a set of evidence.                                *)
(***************************************************************************)
EXTENDS Integers, Sequences, FiniteSets

CONSTANTS
  None,          \* Python's None
  MaxFacts,      \* facts a proposal may cite, and a fix input may carry
  MaxFixLines,   \* MAX_PROPOSED_FIX_LINES
  MaxExpansion   \* MAX_PROPOSED_FIX_EXPANSION_LINES

ASSUME BoundsAssumption == {MaxFacts, MaxFixLines, MaxExpansion} \subseteq Nat

(* Equal, or the shorter of the two, of at least two segments, ends the    *)
(* longer.  Not transitive.                                                *)
EndsWith(long, short) ==
  /\ 2 <= Len(short) /\ Len(short) <= Len(long)
  /\ \A i \in 1..Len(short) : long[Len(long) - Len(short) + i] = short[i]

PathsMatch(a, b) == a = b \/ EndsWith(a, b) \/ EndsWith(b, a)

-----------------------------------------------------------------------------
(* Evidence.  A changed file or hunk belongs to a change, a pull request or *)
(* a commit; text holds the lines of a hunk after the change.              *)
Frame(path, line) == [kind |-> "frame", path |-> path, line |-> line]
ChangedFile(change, path, patched) ==
  [kind |-> "file", change |-> change, path |-> path, patched |-> patched]
Hunk(change, path, start, text) ==
  [kind |-> "hunk", change |-> change, path |-> path, start |-> start, text |-> text]
Commit(change) == [kind |-> "commit", change |-> change]

OfKind(kind, evidence) == {e \in evidence : e.kind = kind}

(* A frame may name no file, and a file no line.                           *)
AtPath(e, path) == e.path # None /\ PathsMatch(e.path, path)

HunkEnd(hunk) == hunk.start + Len(hunk.text) - 1
Covers(hunk, line) == line # None /\ hunk.start <= line /\ line <= HunkEnd(hunk)

-----------------------------------------------------------------------------
(* Facts.  A file changed; it is the file that failed; one of the change's *)
(* hunks covers the line that failed.                                      *)
ChangedFileFacts(evidence) ==
  {[type |-> "changed_file", path |-> file.path, line |-> None, refs |-> {file}] :
     file \in OfKind("file", evidence)}

FailedFiles(evidence) ==
  {m \in OfKind("file", evidence) \X OfKind("frame", evidence) : AtPath(m[2], m[1].path)}

MatchFacts(evidence) ==
  {[type |-> "matches_failure_file", path |-> m[2].path, line |-> None,
    refs |-> {m[1], m[2]}] : m \in FailedFiles(evidence)}

(* The hunk is compared with the frame's path, not with the file's.        *)
OverlapsFailure(file, frame, hunk) ==
  /\ file.patched /\ hunk.change = file.change
  /\ AtPath(frame, hunk.path) /\ Covers(hunk, frame.line)

OverlapFacts(evidence) ==
  {[type |-> "hunk_overlaps_failure_line", path |-> o[1][2].path, line |-> o[1][2].line,
    refs |-> {o[1][1], o[1][2], o[2]}] :
     o \in {p \in FailedFiles(evidence) \X OfKind("hunk", evidence) :
              OverlapsFailure(p[1][1], p[1][2], p[2])}}

(* derive_code_failure_facts.  derive_deployment_code_facts adds facts of  *)
(* deployments and pull requests only, which no scan collects.             *)
DerivedFacts(evidence) ==
  ChangedFileFacts(evidence) \cup MatchFacts(evidence) \cup OverlapFacts(evidence)

FailureFact(f) == f.type \in {"matches_failure_file", "hunk_overlaps_failure_line"}

(* _grounding_strength                                                     *)
GroundingStrength(facts) ==
  LET matched == {f.path : f \in {g \in facts : g.type = "matches_failure_file"}}
  IN  IF \E f \in facts : /\ f.type = "hunk_overlaps_failure_line"
                          /\ \E p \in matched : PathsMatch(f.path, p)
      THEN "strong"
      ELSE IF matched # {} THEN "moderate" ELSE "insufficient"

-----------------------------------------------------------------------------
(* DeterministicHypothesisValidator.  A proposal lists its references;     *)
(* repeats says that one of them occurs twice.                             *)
HypothesisAccepted(h, facts) ==
  /\ ~h.repeats
  /\ h.facts \subseteq facts
  /\ \E f \in h.facts : f.type = "changed_file" /\ PathsMatch(f.path, h.subject)
  /\ \E f \in h.facts : FailureFact(f) /\ PathsMatch(f.path, h.subject)

(* The accepted candidates, each at its place in the model's answer.       *)
AcceptedHypotheses(candidates, facts) ==
  LET accepted == {i \in DOMAIN candidates : HypothesisAccepted(candidates[i], facts)}
  IN  [i \in accepted |-> candidates[i]]

Elements(s) == {s[i] : i \in DOMAIN s}
Ids(s) == {x.id : x \in Elements(s)}

(* A dict keyed by identifier: of two hypotheses with the same one the last *)
(* is found.                                                               *)
HypothesisOf(id, hypotheses) ==
  hypotheses[CHOOSE i \in DOMAIN hypotheses :
               /\ hypotheses[i].id = id
               /\ \A j \in DOMAIN hypotheses : hypotheses[j].id = id => j <= i]

References(facts) == UNION {f.refs : f \in facts}

(* Mutant of FindingAccepted: the finding's facts need not be those of its  *)
(* hypothesis, nor its evidence theirs.                                    *)
FindingAcceptedOnPaths(c, hypotheses, facts, evidence) ==
  /\ ~c.repeats
  /\ c.hypothesis \in Ids(hypotheses)
  /\ PathsMatch(c.path, HypothesisOf(c.hypothesis, hypotheses).subject)
  /\ c.facts \subseteq facts /\ c.evidence \subseteq evidence
  /\ \E file \in OfKind("file", c.evidence) : PathsMatch(file.path, c.path)
  /\ \E frame \in OfKind("frame", c.evidence) : AtPath(frame, c.path)
  /\ c.location \in c.evidence
  /\ c.location.kind \in {"file", "hunk", "frame"} /\ AtPath(c.location, c.path)

(* DeterministicCodeFindingValidator._rejection_reason is None             *)
FindingAccepted(c, hypotheses, facts, evidence) ==
  /\ ~c.repeats
  /\ c.hypothesis \in Ids(hypotheses)
  /\ LET h == HypothesisOf(c.hypothesis, hypotheses)
     IN  PathsMatch(c.path, h.subject) /\ c.facts = h.facts
  /\ c.facts \subseteq facts
  /\ c.evidence \subseteq evidence
  /\ c.evidence = References(c.facts)
  /\ \E file \in OfKind("file", c.evidence) : PathsMatch(file.path, c.path)
  /\ \E frame \in OfKind("frame", c.evidence) : AtPath(frame, c.path)
  /\ c.location \in c.evidence
  /\ c.location.kind \in {"file", "hunk", "frame"} /\ AtPath(c.location, c.path)

(* _validated_finding: the line comes from a frame, never from the model.  *)
ValidatedFinding(c) ==
  [id |-> c.id, hypothesis |-> c.hypothesis, path |-> c.path,
   line |-> IF c.location.kind = "frame" THEN c.location.line ELSE None,
   hunk |-> IF c.location.kind = "hunk" THEN c.location ELSE None,
   facts |-> c.facts, evidence |-> c.evidence]

(* An identifier used before, by a rejected candidate too, is a duplicate. *)
AcceptedFindings(candidates, hypotheses, facts, evidence) ==
  LET Duplicate(i) == \E j \in 1..(i - 1) : candidates[j].id = candidates[i].id
      accepted == {i \in DOMAIN candidates :
                     /\ ~Duplicate(i)
                     /\ FindingAccepted(candidates[i], hypotheses, facts, evidence)}
  IN  {ValidatedFinding(candidates[i]) : i \in accepted}

-----------------------------------------------------------------------------
(* A line of source is "blank", "indented" or "flush" with the margin; of  *)
(* a replacement it may also be an "import" or start with a diff "marker". *)

(* A field of type NonEmptyString is stripped: blank lines at either end   *)
(* and the first line's indentation are gone, and if nothing is left the   *)
(* value is refused.                                                       *)
Stripped(text) ==
  LET kept == {i \in DOMAIN text : text[i] # "blank"}
      first == CHOOSE i \in kept : \A j \in kept : i <= j
      last == CHOOSE i \in kept : \A j \in kept : j <= i
  IN  IF kept = {} THEN <<>>
      ELSE [i \in 1..(last - first + 1) |->
              IF i = 1 /\ text[first] = "indented" THEN "flush" ELSE text[first + i - 1]]

(* Mutant of FixHunks: any hunk of the file.                               *)
HunksOfFile(finding, evidence) ==
  {hunk \in OfKind("hunk", evidence) :
     hunk.text # <<>> /\ PathsMatch(hunk.path, finding.path)}

(* FixProposalContextBuilder._select_hunk: one of these, the one with the  *)
(* smallest identifier.                                                    *)
FixHunks(finding, evidence) ==
  {hunk \in OfKind("hunk", evidence) :
     /\ hunk.text # <<>> /\ PathsMatch(hunk.path, finding.path)
     /\ finding.line # None => Covers(hunk, finding.line)}

(* FixProposalContextBuilder.build, once a hunk is selected                *)
FixInput(finding, hunk, facts) ==
  [finding |-> finding, hunk |-> hunk, original |-> Stripped(hunk.text),
   facts |-> finding.facts \cup
             {f \in facts : /\ f.type = "hunk_overlaps_failure_line"
                            /\ f.line = finding.line
                            /\ PathsMatch(f.path, finding.path)
                            /\ hunk \in f.refs},
   evidence |-> finding.evidence \cup {hunk}]

TooLong(hunk) == Len(hunk.text) > MaxFixLines

(* FixProposalInput refuses a blank hunk and too many facts: an exception  *)
(* that no caller expects.                                                 *)
InputIsRefused(input) == input.original = <<>> \/ Cardinality(input.facts) > MaxFacts

(* DeterministicCodeFixValidator; copies says that the candidate repeats   *)
(* the input's references one by one.                                      *)
FixAccepted(c, input) ==
  LET lines == Stripped(c.lines)
  IN  /\ c.finding = input.finding.id /\ c.path = input.finding.path /\ c.copies
      /\ lines # <<>> /\ Len(lines) <= MaxFixLines
      /\ Len(lines) <= Len(input.original) + MaxExpansion
      /\ {"import", "marker"} \cap Elements(lines) = {}

ProposedFix(c, input) ==
  [finding |-> c.finding, path |-> c.path, hunk |-> input.hunk,
   start |-> input.hunk.start, end |-> HunkEnd(input.hunk),
   original |-> input.original, corrected |-> Stripped(c.lines),
   facts |-> input.facts, evidence |-> input.evidence]
=============================================================================
