-------------------------- MODULE SourceReads_proofs --------------------------
(***************************************************************************)
(* Proofs about the tools' reads: evidence that is stored stays as it is,  *)
(* what a tool observed is stored or told of, a listing of several pages   *)
(* that ends well is the listing as it stood, and what is made of it holds *)
(* every file with every line of its patch.                                *)
(***************************************************************************)
EXTENDS SourceReads, SequenceTheorems, FiniteSums, TLAPS

-----------------------------------------------------------------------------
(* The store.                                                              *)

\* A step that neither ends a call nor touches the store.
NothingEnds == UNCHANGED <<store, conflicts>> /\ (last' = last \/ last'.outcome = "failed")
EndsWith(outcome) == \E items, code : Finish(End(outcome, code, items))

(* Every step ends a call by Finish or leaves the store alone.             *)
LEMMA StepsEnd ==
  [Next]_vars => \/ NothingEnds
                 \/ EndsWith("observed") \/ EndsWith("failed") \/ EndsWith("raised")
                 \/ EndsWith("returned")
<1> DEFINE Ends == \/ NothingEnds
                   \/ EndsWith("observed") \/ EndsWith("failed") \/ EndsWith("raised")
                   \/ EndsWith("returned")
<1>1. ASSUME NEW error, Fail(error) PROVE EndsWith("failed")
  BY <1>1 DEF Fail, EndsWith
<1>2. ASSUME NEW items, Observe(items) PROVE EndsWith("observed") \/ EndsWith("raised")
  BY <1>2 DEF Observe, EndsWith
<1>3. ASSUME NEW items, Return(items) PROVE EndsWith("returned")
  BY <1>3 DEF Return, EndsWith
<1>4. ASSUME NEW next, Go(next) PROVE NothingEnds
  BY <1>4 DEF Go, NothingEnds
<1>5. ASSUME NEW of, NEW files, ObserveFiles(of, files) PROVE Ends
  BY <1>1, <1>2, <1>5 DEF ObserveFiles
<1>6. ASSUME NEW request, Begin(request) PROVE NothingEnds
  BY <1>6 DEF Begin, NothingEnds
<1>7. ASSUME NEW r, RequestFails(r) PROVE Ends
  BY <1>1, <1>4, <1>7 DEF RequestFails
<1>8. ToolTimesOut => Ends
  BY <1>1 DEF ToolTimesOut
<1>9. CommitAnswered => Ends
  BY <1>1, <1>2, <1>5 DEF CommitAnswered
<1>10. PullAnswered => Ends
  BY <1>1, <1>2 DEF PullAnswered
<1>11. FilesAnswered => Ends
  BY <1>1, <1>5 DEF FilesAnswered, NothingEnds
<1>12. IssueFound => Ends
  BY <1>1, <1>2, <1>3, <1>4 DEF IssueFound
<1>13. IssueAnswered \/ ShortIdAnswered => Ends
  BY <1>12 DEF IssueAnswered, ShortIdAnswered
<1>14. EventAnswered => Ends
  BY <1>1, <1>2 DEF EventAnswered
<1>15. ReleaseAnswered \/ DeploysAnswered => Ends
  BY <1>1, <1>2, <1>4 DEF ReleaseAnswered, DeploysAnswered
<1>16. StatsAnswered => Ends
  BY <1>2 DEF StatsAnswered
<1>17. IssuesAnswered => Ends
  <2>1. Finish(End("raised", None, <<>>)) => EndsWith("raised")
    BY DEF EndsWith
  <2> QED BY <1>1, <1>3, <2>1 DEF IssuesAnswered, NothingEnds
<1>18. IntegrationsAnswered => Ends
  BY <1>1, <1>3 DEF IntegrationsAnswered
<1>19. JiraAnswered => Ends
  BY <1>1, <1>2 DEF JiraAnswered
<1>20. Push \/ IssueOpens \/ IssueResolves \/ EventArrives => NothingEnds
  BY DEF Push, IssueOpens, IssueResolves, EventArrives, Change, NothingEnds
<1>21. UNCHANGED vars => NothingEnds
  BY DEF vars, NothingEnds
<1> HIDE DEF Ends
<1>22. Next => Ends
  BY <1>6, <1>7, <1>8, <1>9, <1>10, <1>11, <1>13, <1>14, <1>15, <1>16, <1>17, <1>18, <1>19, <1>20
     DEF Next, Ends
<1> QED BY <1>21, <1>22 DEF Ends

(* Who puts first stays.                                                   *)
LEMMA PutKeeps ==
  ASSUME NEW stored, NEW items
  PROVE  \A id \in DOMAIN stored :
           id \in DOMAIN Put(stored, items) /\ Put(stored, items)[id] = stored[id]
BY DEF Put

(* Who puts later and differs is told.                                     *)
LEMMA PutStoresOrTells ==
  ASSUME NEW stored, NEW items, NEW i \in DOMAIN items
  PROVE  /\ items[i].id \in DOMAIN Put(stored, items)
         /\ \/ Put(stored, items)[items[i].id] = items[i].content
            \/ items[i].id \in ConflictingPuts(stored, items)
BY DEF Put, Ids, ConflictingPuts

(* What an identifier of evidence stands for never changes: put keeps the  *)
(* first content (EvidenceStore.put), and no other step writes the store.  *)
THEOREM EvidenceIsKept == Spec => EvidenceNeverChanges
<1>1. [Next]_vars => [\A id \in DOMAIN store : id \in DOMAIN store' /\ store'[id] = store[id]]_vars
  <2>1. SUFFICES ASSUME [Next]_vars, NEW id \in DOMAIN store
                 PROVE  id \in DOMAIN store' /\ store'[id] = store[id]
    OBVIOUS
  <2>2. ASSUME NEW outcome, EndsWith(outcome)
        PROVE  store' = store \/ \E items : store' = Put(store, items)
    BY <2>2 DEF EndsWith, Finish
  <2>3. store' = store \/ \E items : store' = Put(store, items)
    BY <2>1, <2>2, StepsEnd DEF NothingEnds
  <2> QED BY <2>3, PutKeeps
<1> QED BY <1>1, PTL DEF Spec, EvidenceNeverChanges

(* What a tool reported as observed is in the store as it was read, or the *)
(* log names its identifier (evidence.conflicting_write_dropped).          *)
THEOREM LossIsTold == Spec => []NoSilentLoss
<1> DEFINE Kept(item) == /\ item.id \in DOMAIN store
                         /\ store[item.id] = item.content \/ item.id \in conflicts
<1>1. Init => NoSilentLoss
  BY DEF Init, NoSilentLoss
<1>2. NoSilentLoss /\ [Next]_vars => NoSilentLoss'
  <2>1. SUFFICES ASSUME NoSilentLoss, [Next]_vars PROVE NoSilentLoss'
    OBVIOUS
  <2>2. CASE NothingEnds
    BY <2>1, <2>2 DEF NothingEnds, NoSilentLoss
  <2>3. ASSUME NEW outcome, outcome # "observed", EndsWith(outcome) PROVE NoSilentLoss'
    <3>1. last'.outcome = outcome
      BY <2>3 DEF EndsWith, Finish, End
    <3> QED BY <2>3, <3>1 DEF NoSilentLoss
  <2>4. CASE EndsWith("observed")
    <3>1. PICK items, code : Finish(End("observed", code, items))
      BY <2>4 DEF EndsWith
    <3>2. /\ last'.items = items /\ store' = Put(store, items)
          /\ conflicts' = conflicts \cup ConflictingPuts(store, items)
      BY <3>1 DEF Finish, End
    <3>3. SUFFICES ASSUME NEW i \in DOMAIN items PROVE Kept(items[i])'
      BY <3>2 DEF NoSilentLoss
    <3> QED BY <3>2, PutStoresOrTells
  <2> QED BY <2>1, <2>2, <2>3, <2>4, StepsEnd
<1> QED BY <1>1, <1>2, PTL DEF Spec

-----------------------------------------------------------------------------
(* Listings of several pages.                                              *)

IsSequence(s) == \E S : s \in Seq(S)
ReadUpTo(number) == (number - 1) * PageSize

(* A page begins where the last one ended, and ends with the list or full. *)
LEMMA PageBounds ==
  ASSUME NEW S, NEW list \in Seq(S), NEW number \in Nat \ {0}
  PROVE  LET a == ReadUpTo(number)
             b == IF a + PageSize <= Len(list) THEN a + PageSize ELSE Len(list)
         IN  /\ a \in Nat /\ ReadUpTo(number + 1) = a + PageSize /\ number * PageSize = a + PageSize
             /\ Page(list, PageSize, number) = SubSeq(list, a + 1, b)
             /\ a <= Len(list) => Len(Page(list, PageSize, number)) = b - a
<1> DEFINE a == ReadUpTo(number)
           b == IF a + PageSize <= Len(list) THEN a + PageSize ELSE Len(list)
<1>1. PageSize \in Nat \ {0} /\ Len(list) \in Nat
  BY ReadsAssumption
<1>2. a \in Nat /\ number * PageSize = a + PageSize /\ ReadUpTo(number + 1) = a + PageSize
  BY <1>1 DEF ReadUpTo
<1>3. Min({number * PageSize, Len(list)}) = b
  <2>1. \A m, n \in Int : Min({m, n}) = IF m <= n THEN m ELSE n
    BY DEF Min
  <2> QED BY <1>1, <1>2, <2>1
<1>4. Page(list, PageSize, number) = SubSeq(list, a + 1, b)
  BY <1>3 DEF Page, ReadUpTo
<1> HIDE DEF a
<1>5. ASSUME a <= Len(list) PROVE Len(SubSeq(list, a + 1, b)) = b - a
  <2>1. a + 1 \in Int /\ b \in Int /\ \A i \in (a + 1)..b : list[i] \in S
    BY <1>1, <1>2
  <2>2. Len(SubSeq(list, a + 1, b)) = IF a + 1 <= b THEN b - (a + 1) + 1 ELSE 0
    BY <2>1, SubSeqProperties
  <2> QED BY <1>1, <1>2, <1>5, <2>2
<1> QED BY <1>2, <1>4, <1>5 DEF a

(* What was read and the next page are the whole list, or as much of it as *)
(* the pages hold.                                                         *)
LEMMA PagesAddUp ==
  ASSUME NEW S, NEW list \in Seq(S), NEW number \in Nat \ {0}, ReadUpTo(number) <= Len(list)
  PROVE  LET page == Page(list, PageSize, number)
             files == SubSeq(list, 1, ReadUpTo(number)) \o page
         IN  IF Len(page) < PageSize THEN files = list
             ELSE /\ ReadUpTo(number + 1) <= Len(list)
                  /\ files = SubSeq(list, 1, ReadUpTo(number + 1))
<1> DEFINE a == ReadUpTo(number)
           b == IF a + PageSize <= Len(list) THEN a + PageSize ELSE Len(list)
           page == Page(list, PageSize, number)
<1>1. PageSize \in Nat \ {0} /\ Len(list) \in Nat
  BY ReadsAssumption
<1>2. /\ a \in Nat /\ ReadUpTo(number + 1) = a + PageSize
      /\ page = SubSeq(list, a + 1, b) /\ Len(page) = b - a
  BY PageBounds
<1> HIDE DEF a, page
<1>3. SubSeq(list, 1, a) \o page = SubSeq(list, 1, b)
  <2>1. a <= Len(list)
    BY DEF a
  <2>2. 1 \in 1..(Len(list) + 1) /\ a \in (1 - 1)..Len(list) /\ b \in a..Len(list)
    BY <1>1, <1>2, <2>1
  <2> HIDE DEF b
  <2>3. SubSeq(list, 1, a) \o SubSeq(list, a + 1, b) = SubSeq(list, 1, b)
    BY <2>2, ConcatAdjacentSubSeq
  <2> QED BY <1>2, <2>3
<1>4. CASE Len(page) < PageSize
  <2>1. b = Len(list)
    BY <1>1, <1>2, <1>4
  <2> QED BY <1>3, <1>4, <2>1, SubSeqFull DEF a, page
<1>5. CASE ~(Len(page) < PageSize)
  <2>1. b = a + PageSize /\ a + PageSize <= Len(list)
    BY <1>1, <1>2, <1>5
  <2> QED BY <1>2, <1>3, <1>5, <2>1 DEF a, page
<1> QED BY <1>4, <1>5

ReadFields == {"tool", "arg", "call", "page", "got", "listed", "disturbed"}

WorldInv ==
  /\ {"commit", "pull", "issues", "event", "events"} \subseteq DOMAIN world
  /\ {"head", "files"} \subseteq DOMAIN world.pull
  /\ IsSequence(world.pull.files) /\ IsSequence(world.issues)

\* The pages read so far are the listing's beginning.
FilesRead ==
  /\ world.pull.files = read.listed /\ read.page \in Nat \ {0}
  /\ ReadUpTo(read.page) <= Len(read.listed)
  /\ read.got = SubSeq(read.listed, 1, ReadUpTo(read.page))

\* An issue of the listing was read, or is on a page yet to be asked for.
IssuesRead ==
  /\ read.page \in Nat \ {0} /\ IsSequence(read.got)
  /\ \A x \in Range(read.listed) :
       \/ x \in Range(read.got)
       \/ \E j \in DOMAIN world.issues : j > ReadUpTo(read.page) /\ world.issues[j] = x

CallInv ==
  /\ read.tool = "diff" => read.call = "files"
  /\ read.tool = "commit_diff" => read.call = "commit"
  /\ read.tool = "open_issues" => read.call = "issues"

ReadInv ==
  read # None =>
    /\ DOMAIN read = ReadFields /\ CallInv
    /\ read.tool = "commit_diff" => read.listed = world.commit.files
    /\ read.tool = "diff" /\ ~read.disturbed => FilesRead
    /\ read.tool = "open_issues" /\ ~read.disturbed => IssuesRead

Normalized(of, files, items) ==
  NormalizeFiles(of, files).error = None /\ NormalizeFiles(of, files).items = items

FirstPage(files) == SubSeq(files, 1, Min({CommitPage, Len(files)}))

(* What a call that ends well normalised is the listing as it stood when   *)
(* the call began, whatever pages it was read in, and the issues it        *)
(* returned hold every issue that was open then.                           *)
AnswersAreWhole ==
  last # None /\ ~last.disturbed =>
    /\ last.outcome = "observed" /\ last.tool = "diff" =>
         Normalized(<<"pull">>, last.listed, last.items)
    /\ last.outcome = "observed" /\ last.tool = "commit_diff" =>
         Normalized(<<"commit">>, FirstPage(last.listed), last.items)
    /\ last.outcome = "returned" /\ last.tool = "open_issues" =>
         Range(last.listed) \subseteq Range(last.items)

WholeInv == WorldInv /\ ReadInv /\ AnswersAreWhole

(* Nothing has been read.                                                  *)
LEMMA WholeStarts == Init => WholeInv
<1>1. SUFFICES ASSUME Init PROVE WorldInv
  BY DEF Init, WholeInv, ReadInv, AnswersAreWhole
<1>2. world \in Worlds
  BY <1>1 DEF Init
<1> QED BY <1>2, WorldsAssumption DEF WorldInv, IsSequence, IsListing, IsList

(* A call that ends leaves nothing to be read.                             *)
LEMMA EndKeepsWhole ==
  ASSUME WholeInv, NEW outcome, NEW code, NEW items, Finish(End(outcome, code, items)),
         ~read.disturbed =>
           /\ outcome = "observed" /\ read.tool = "diff" => Normalized(<<"pull">>, read.listed, items)
           /\ outcome = "observed" /\ read.tool = "commit_diff" =>
                Normalized(<<"commit">>, FirstPage(read.listed), items)
           /\ outcome = "returned" /\ read.tool = "open_issues" =>
                Range(read.listed) \subseteq Range(items)
  PROVE  WholeInv'
<1>1. WorldInv' /\ ReadInv'
  BY DEF Finish, WholeInv, WorldInv, ReadInv, IsSequence
<1>2. /\ last'.outcome = outcome /\ last'.items = items /\ last'.tool = read.tool
      /\ last'.listed = read.listed /\ last'.disturbed = read.disturbed
  BY DEF Finish, End
<1>3. AnswersAreWhole'
  BY <1>2 DEF AnswersAreWhole
<1> QED BY <1>1, <1>3 DEF WholeInv

(* A read that fails.                                                      *)
LEMMA FailKeepsWhole ==
  ASSUME WholeInv, NEW error, Fail(error)
  PROVE  WholeInv'
BY EndKeepsWhole DEF Fail

(* A read that observed what it had to.                                    *)
LEMMA ObserveKeepsWhole ==
  ASSUME WholeInv, NEW items, Observe(items),
         ~read.disturbed =>
           /\ read.tool = "diff" => Normalized(<<"pull">>, read.listed, items)
           /\ read.tool = "commit_diff" => Normalized(<<"commit">>, FirstPage(read.listed), items)
  PROVE  WholeInv'
<1>1. Finish(End("raised", None, <<>>)) => WholeInv'
  BY EndKeepsWhole
<1>2. Finish(End("observed", None, items)) => WholeInv'
  BY EndKeepsWhole
<1> QED BY <1>1, <1>2 DEF Observe

(* A listing that is returned with all it had to hold.                     *)
LEMMA ReturnKeepsWhole ==
  ASSUME WholeInv, NEW items, Return(items),
         ~read.disturbed /\ read.tool = "open_issues" => Range(read.listed) \subseteq Range(items)
  PROVE  WholeInv'
<1>1. Finish(End("returned", None, items)) => WholeInv'
  BY EndKeepsWhole
<1> QED BY <1>1 DEF Return

(* Files that were listed whole are normalised or refused.                 *)
LEMMA ObserveFilesKeepsWhole ==
  ASSUME WholeInv, NEW of, NEW files, ObserveFiles(of, files),
         ~read.disturbed =>
           /\ read.tool = "diff" => of = <<"pull">> /\ files = read.listed
           /\ read.tool = "commit_diff" => of = <<"commit">> /\ files = FirstPage(read.listed)
  PROVE  WholeInv'
<1> DEFINE n == NormalizeFiles(of, files)
<1>1. CASE n.error # None
  BY <1>1, FailKeepsWhole DEF ObserveFiles
<1>2. CASE n.error = None
  <2>1. Observe(n.items) /\ Normalized(of, files, n.items)
    BY <1>2 DEF ObserveFiles, Normalized
  <2> HIDE DEF n
  <2> QED BY <2>1, ObserveKeepsWhole
<1> QED BY <1>1, <1>2

(* Another request of the same call.                                       *)
LEMMA GoKeepsWhole ==
  ASSUME WholeInv, NEW next, Go(next), read # None,
         read.tool \notin {"diff", "commit_diff", "open_issues"}
  PROVE  WholeInv'
<1>1. WorldInv' /\ AnswersAreWhole'
  BY DEF Go, WholeInv, WorldInv, AnswersAreWhole, IsSequence
<1>2. DOMAIN read = ReadFields /\ DOMAIN read' = ReadFields /\ read'.tool = read.tool
  BY DEF Go, WholeInv, ReadInv, ReadFields
<1>3. ReadInv'
  BY <1>2 DEF ReadInv, CallInv
<1> QED BY <1>1, <1>3 DEF WholeInv

(* A call begins with all of its listing still to be read.                 *)
LEMMA BeginKeepsWhole ==
  ASSUME WholeInv, NEW request, Begin(request)
  PROVE  WholeInv'
<1> DEFINE started == [tool |-> request.tool, arg |-> request.arg,
                       call |-> FirstCall[request.tool], page |-> 1, got |-> <<>>,
                       listed |-> Listed(request.tool), disturbed |-> FALSE]
<1>1. WorldInv /\ WorldInv' /\ UNCHANGED world
  BY DEF Begin, WholeInv, WorldInv, IsSequence
<1>2. CASE request.tool \in DOMAIN Rejected /\ request.arg = None
  <2>1. UNCHANGED read /\ last'.outcome = "failed"
    BY <1>2 DEF Begin
  <2> QED BY <1>1, <2>1
          DEF WholeInv, ReadInv, AnswersAreWhole, CallInv, FilesRead, IssuesRead
<1>3. CASE ~(request.tool \in DOMAIN Rejected /\ request.arg = None)
  <2>1. read' = started /\ UNCHANGED last
    BY <1>3 DEF Begin
  <2>2. AnswersAreWhole'
    BY <2>1 DEF WholeInv, AnswersAreWhole
  <2>3. DOMAIN started = ReadFields
    BY DEF ReadFields
  <2>4. CallInv'
    BY <2>1 DEF CallInv, FirstCall
  <2>5. read'.tool = "commit_diff" => read'.listed = world'.commit.files
    BY <1>1, <2>1 DEF Listed
  <2>6. ReadUpTo(1) = 0
    BY ReadsAssumption DEF ReadUpTo
  <2>7. read'.tool = "diff" => FilesRead'
    <3>1. SUFFICES ASSUME request.tool = "diff" PROVE FilesRead'
      BY <2>1
    <3>2. read'.listed = world.pull.files /\ read'.page = 1 /\ read'.got = <<>>
      BY <2>1, <3>1 DEF Listed
    <3>3. PICK S : world.pull.files \in Seq(S)
      BY <1>1 DEF WorldInv, IsSequence
    <3>4. SubSeq(world.pull.files, 1, 0) = <<>>
      BY SubSeqEmpty
    <3> QED BY <1>1, <2>6, <3>2, <3>3, <3>4 DEF FilesRead
  <2>8. read'.tool = "open_issues" => IssuesRead'
    <3>1. SUFFICES ASSUME request.tool = "open_issues" PROVE IssuesRead'
      BY <2>1
    <3>2. read'.listed = world.issues /\ read'.page = 1 /\ read'.got = <<>>
      BY <2>1, <3>1 DEF Listed
    <3>3. PICK S : world.issues \in Seq(S)
      BY <1>1 DEF WorldInv, IsSequence
    <3>4. ASSUME NEW x \in Range(world.issues)
          PROVE  \E j \in DOMAIN world.issues : j > 0 /\ world.issues[j] = x
      BY <3>3, <3>4 DEF Range
    <3>5. IsSequence(<<>>)
      BY DEF IsSequence
    <3> QED BY <1>1, <2>6, <3>2, <3>4, <3>5 DEF IssuesRead
  <2> HIDE DEF started
  <2>9. ReadInv'
    BY <2>1, <2>3, <2>4, <2>5, <2>7, <2>8 DEF ReadInv
  <2> QED BY <1>1, <2>2, <2>9 DEF WholeInv
<1> QED BY <1>2, <1>3

(* The next page of the files of a pull request.                           *)
LEMMA FilesKeepWhole ==
  ASSUME WholeInv, FilesAnswered
  PROVE  WholeInv'
<1> DEFINE page == Page(world.pull.files, PageSize, read.page)
           files == read.got \o page
<1>1. /\ read # None /\ read.call = "files" /\ ReadInv /\ WorldInv
      /\ read.tool \notin {"commit_diff", "open_issues"} /\ DOMAIN read = ReadFields
      /\ read.tool = "diff" /\ ~read.disturbed => FilesRead
  BY DEF FilesAnswered, Calling, WholeInv, ReadInv, CallInv
<1>2. FilesRead =>
        IF Len(page) < PageSize THEN files = read.listed
        ELSE /\ ReadUpTo(read.page + 1) <= Len(read.listed)
             /\ files = SubSeq(read.listed, 1, ReadUpTo(read.page + 1))
  <2>1. PICK S : world.pull.files \in Seq(S)
    BY <1>1 DEF WorldInv, IsSequence
  <2> QED BY <2>1, PagesAddUp DEF FilesRead
<1>3. CASE Len(page) < PageSize
  <2>1. ObserveFiles(<<"pull">>, files)
    BY <1>3 DEF FilesAnswered
  <2> HIDE DEF files
  <2> QED BY <1>1, <1>2, <1>3, <2>1, ObserveFilesKeepsWhole
<1>4. CASE ~(Len(page) < PageSize) /\ read.page = MaxPages
  BY <1>4, FailKeepsWhole DEF FilesAnswered
<1>5. CASE ~(Len(page) < PageSize) /\ read.page # MaxPages
  <2>1. /\ read' = [read EXCEPT !.page = read.page + 1, !.got = files]
        /\ UNCHANGED <<world, store, conflicts, last, reads, changes>>
    BY <1>5 DEF FilesAnswered
  <2> HIDE DEF files
  <2>2. /\ DOMAIN read' = ReadFields /\ read'.page = read.page + 1 /\ read'.got = files
        /\ read'.tool = read.tool /\ read'.call = read.call /\ read'.listed = read.listed
        /\ read'.disturbed = read.disturbed
    BY <1>1, <2>1 DEF ReadFields
  <2>3. FilesRead => FilesRead'
    BY <1>2, <1>5, <2>1, <2>2 DEF FilesRead
  <2>4. ReadInv'
    BY <1>1, <2>1, <2>2, <2>3 DEF ReadInv, CallInv
  <2>5. WorldInv' /\ AnswersAreWhole'
    BY <2>1 DEF WholeInv, WorldInv, AnswersAreWhole, IsSequence
  <2> QED BY <2>4, <2>5 DEF WholeInv
<1> QED BY <1>3, <1>4, <1>5

(* The next page of the project's issues.                                  *)
LEMMA IssuesKeepWhole ==
  ASSUME WholeInv, IssuesAnswered
  PROVE  WholeInv'
<1> DEFINE page == Page(world.issues, PageSize, read.page)
           issues == read.got \o page
           more == Len(world.issues) > read.page * PageSize
<1>1. /\ read # None /\ read.call = "issues" /\ ReadInv /\ WorldInv
      /\ read.tool \notin {"commit_diff", "diff"} /\ DOMAIN read = ReadFields
      /\ read.tool = "open_issues" /\ ~read.disturbed => IssuesRead
  BY DEF IssuesAnswered, Calling, WholeInv, ReadInv, CallInv
<1>2. IssuesRead =>
        /\ IsSequence(issues)
        /\ \A x \in Range(read.listed) :
             \/ x \in Range(issues)
             \/ more /\ \E j \in DOMAIN world.issues :
                          j > ReadUpTo(read.page + 1) /\ world.issues[j] = x
  <2>1. SUFFICES ASSUME IssuesRead
                 PROVE  /\ IsSequence(issues)
                        /\ \A x \in Range(read.listed) :
                             \/ x \in Range(issues)
                             \/ more /\ \E j \in DOMAIN world.issues :
                                          j > ReadUpTo(read.page + 1) /\ world.issues[j] = x
    OBVIOUS
  <2>2. PICK S : world.issues \in Seq(S)
    BY <1>1 DEF WorldInv, IsSequence
  <2>3. PICK T : read.got \in Seq(T)
    BY <2>1 DEF IssuesRead, IsSequence
  <2> DEFINE a == ReadUpTo(read.page)
             b == IF a + PageSize <= Len(world.issues) THEN a + PageSize ELSE Len(world.issues)
  <2>4. /\ a \in Nat /\ ReadUpTo(read.page + 1) = a + PageSize
        /\ read.page * PageSize = a + PageSize /\ page = SubSeq(world.issues, a + 1, b)
    BY <2>1, <2>2, PageBounds DEF IssuesRead
  <2> HIDE DEF a
  <2>5. PageSize \in Nat \ {0} /\ Len(world.issues) \in Nat
    BY <2>2, ReadsAssumption
  <2>6. a + 1 \in Int /\ b \in Int /\ \A i \in (a + 1)..b : world.issues[i] \in S
    BY <2>2, <2>4, <2>5
  <2>7. /\ page \in Seq(S) /\ Len(page) = IF a + 1 <= b THEN b - (a + 1) + 1 ELSE 0
        /\ \A i \in 1..(b - (a + 1) + 1) : page[i] = world.issues[a + 1 + i - 1]
    <3> HIDE DEF b, page
    <3> QED BY <2>4, <2>6, SubSeqProperties
  <2> HIDE DEF page
  <2>8. issues \in Seq(S \cup T)
    <3>1. read.got \in Seq(S \cup T) /\ page \in Seq(S \cup T)
      BY <2>3, <2>7
    <3> QED BY <3>1
  <2>9. /\ Len(issues) = Len(read.got) + Len(page)
        /\ \A i \in 1..Len(read.got) : issues[i] = read.got[i]
        /\ \A i \in 1..Len(page) : issues[Len(read.got) + i] = page[i]
    BY <2>3, <2>7
  <2>10. \A x \in Range(read.got) : x \in Range(issues)
    <3>1. SUFFICES ASSUME NEW i \in DOMAIN read.got PROVE read.got[i] \in Range(issues)
      BY DEF Range
    <3>2. i \in 1..Len(read.got) /\ i \in 1..Len(issues) /\ issues[i] = read.got[i]
      BY <2>3, <2>7, <2>9
    <3> HIDE DEF issues
    <3> QED BY <2>8, <3>2 DEF Range
  <2>11. ASSUME NEW j \in DOMAIN world.issues, j > a, j <= a + PageSize
         PROVE  world.issues[j] \in Range(issues)
    <3>1. j \in Nat /\ j <= b /\ j - a \in 1..Len(page)
      BY <2>2, <2>4, <2>5, <2>7, <2>11
    <3>2. page[j - a] = world.issues[j]
      <4>1. a \in Nat /\ b \in Int
        BY <2>4, <2>6
      <4>2. \A i \in 1..(b - (a + 1) + 1) : page[i] = world.issues[a + 1 + i - 1]
        BY <2>7
      <4> HIDE DEF b
      <4>3. j - a \in 1..(b - (a + 1) + 1) /\ a + 1 + (j - a) - 1 = j
        BY <2>11, <3>1, <4>1
      <4>4. page[j - a] = world.issues[a + 1 + (j - a) - 1]
        BY <4>2, <4>3
      <4> QED BY <4>3, <4>4
    <3>3. Len(read.got) + (j - a) \in 1..Len(issues)
      BY <2>3, <2>7, <2>9, <3>1
    <3>4. issues[Len(read.got) + (j - a)] = world.issues[j]
      BY <2>9, <3>1, <3>2
    <3> HIDE DEF issues
    <3> QED BY <2>8, <3>3, <3>4 DEF Range
  <2> HIDE DEF issues
  <2>12. ASSUME NEW x \in Range(read.listed)
         PROVE  \/ x \in Range(issues)
                \/ more /\ \E j \in DOMAIN world.issues :
                             j > ReadUpTo(read.page + 1) /\ world.issues[j] = x
    <3>1. CASE x \in Range(read.got)
      BY <2>10, <3>1
    <3>2. CASE \E j \in DOMAIN world.issues : j > a /\ world.issues[j] = x
      <4>1. PICK j \in DOMAIN world.issues : j > a /\ world.issues[j] = x
        BY <3>2
      <4>2. j \in Nat /\ j <= Len(world.issues)
        BY <2>2
      <4>3. CASE j <= a + PageSize
        BY <2>11, <4>1, <4>3
      <4>4. CASE j > a + PageSize
        BY <2>4, <2>5, <4>1, <4>2, <4>4
      <4> QED BY <2>4, <2>5, <4>2, <4>3, <4>4
    <3> QED BY <2>1, <3>1, <3>2 DEF IssuesRead, a
  <2> QED BY <2>8, <2>12 DEF IsSequence
<1> HIDE DEF issues, more
<1>3. ASSUME NEW error, Fail(error) PROVE WholeInv'
  BY <1>3, FailKeepsWhole
<1>4. Finish(End("raised", None, <<>>)) => WholeInv'
  BY EndKeepsWhole
<1>5. ASSUME ~more, Return(issues) PROVE WholeInv'
  <2>1. ~read.disturbed /\ read.tool = "open_issues" => Range(read.listed) \subseteq Range(issues)
    BY <1>1, <1>2, <1>5
  <2> QED BY <1>5, <2>1, ReturnKeepsWhole
<1>6. ASSUME more, read' = [read EXCEPT !.page = @ + 1, !.got = issues],
             UNCHANGED <<world, store, conflicts, last, reads, changes>>
      PROVE  WholeInv'
  <2>1. /\ DOMAIN read' = ReadFields /\ read'.page = read.page + 1 /\ read'.got = issues
        /\ read'.tool = read.tool /\ read'.call = read.call /\ read'.listed = read.listed
        /\ read'.disturbed = read.disturbed
    BY <1>1, <1>6 DEF ReadFields
  <2>2. IssuesRead => IssuesRead'
    BY <1>2, <1>6, <2>1 DEF IssuesRead, IsSequence
  <2>3. ReadInv'
    BY <1>1, <1>6, <2>1, <2>2 DEF ReadInv, CallInv
  <2>4. WorldInv' /\ AnswersAreWhole'
    BY <1>6 DEF WholeInv, WorldInv, AnswersAreWhole, IsSequence
  <2> QED BY <2>3, <2>4 DEF WholeInv
<1> QED BY <1>3, <1>4, <1>5, <1>6 DEF IssuesAnswered, issues, more
-----------------------------------------------------------------------------
(* The providers change between two pages.                                 *)

(* The least of a set of places is one of them.                            *)
LEMMA LeastPlace ==
  ASSUME NEW T, T \subseteq Nat, T # {}
  PROVE  Min(T) \in T
<1>1. PICK x \in T : \A y \in T : x <= y
  BY LeastNumber
<1> QED BY <1>1 DEF Min

(* The list without one of its members is a list.                          *)
LEMMA WithoutIsSequence ==
  ASSUME NEW files, IsSequence(files), NEW path
  PROVE  IsSequence(Without(files, path))
<1> DEFINE places == {i \in DOMAIN files : files[i].path = path}
<1>1. PICK S : files \in Seq(S)
  BY DEF IsSequence
<1>2. CASE places = {}
  BY <1>2 DEF Without
<1>3. CASE places # {}
  <2>1. PICK k : k = Min(places)
    OBVIOUS
  <2>2. k \in places
    <3>1. places \subseteq Nat
      BY <1>1
    <3> HIDE DEF places
    <3> QED BY <1>3, <2>1, <3>1, LeastPlace
  <2>3. k \in 1..Len(files)
    BY <1>1, <2>2
  <2>4. Without(files, path) = SubSeq(files, 1, k - 1) \o SubSeq(files, k + 1, Len(files))
    BY <1>3, <2>1 DEF Without, RemoveAt
  <2>5. SubSeq(files, 1, k - 1) \in Seq(S) /\ SubSeq(files, k + 1, Len(files)) \in Seq(S)
    BY <1>1, <2>3
  <2>6. Without(files, path) \in Seq(S)
    BY <2>4, <2>5
  <2> HIDE DEF places
  <2> QED BY <2>6 DEF IsSequence
<1> QED BY <1>2, <1>3
(* A change that disturbs no call leaves the rest of its listing to be     *)
(* read: the files as they are, the issues where they are or further on.   *)
LEMMA ChangeKeepsWhole ==
  ASSUME WholeInv, NEW changed, NEW readers, NEW disturbs, Change(changed, readers, disturbs),
         WorldInv', changed.commit = world.commit,
         "diff" \in disturbs \/ changed.pull.files = world.pull.files,
         \/ "open_issues" \in disturbs
         \/ \A i \in DOMAIN world.issues : \E j \in DOMAIN changed.issues :
              j >= i /\ changed.issues[j] = world.issues[i]
  PROVE  WholeInv'
<1>1. /\ UNCHANGED last /\ world' = changed
      /\ read' = IF read # None /\ read.tool \in disturbs
                 THEN [read EXCEPT !.disturbed = TRUE] ELSE read
  BY DEF Change
<1>2. AnswersAreWhole'
  BY <1>1 DEF WholeInv, AnswersAreWhole
<1>3. SUFFICES ASSUME read # None, read' # None PROVE ReadInv'
  BY <1>1, <1>2 DEF WholeInv, ReadInv
<1>4. DOMAIN read = ReadFields /\ CallInv /\ ReadInv
  BY <1>3 DEF WholeInv, ReadInv
<1>5. /\ DOMAIN read' = ReadFields /\ read'.page = read.page /\ read'.got = read.got
      /\ read'.tool = read.tool /\ read'.call = read.call /\ read'.listed = read.listed
      /\ ~read'.disturbed => ~read.disturbed /\ read.tool \notin disturbs
  <2>1. CASE read.tool \in disturbs
    <3>1. read' = [read EXCEPT !.disturbed = TRUE]
      BY <1>1, <1>3, <2>1
    <3> QED BY <1>4, <3>1 DEF ReadFields
  <2>2. CASE read.tool \notin disturbs
    BY <1>1, <1>4, <2>2
  <2> QED BY <2>1, <2>2
<1>6. CallInv' /\ (read'.tool = "commit_diff" => read'.listed = world'.commit.files)
  BY <1>1, <1>3, <1>4, <1>5 DEF CallInv, ReadInv
<1>7. read'.tool = "diff" /\ ~read'.disturbed => FilesRead'
  BY <1>1, <1>3, <1>4, <1>5 DEF ReadInv, FilesRead
<1>8. ASSUME read'.tool = "open_issues", ~read'.disturbed PROVE IssuesRead'
  <2>1. IssuesRead
    BY <1>3, <1>4, <1>5, <1>8 DEF ReadInv
  <2>2. ASSUME NEW x \in Range(read.listed)
        PROVE  \/ x \in Range(read.got)
               \/ \E j \in DOMAIN world'.issues : j > ReadUpTo(read.page) /\ world'.issues[j] = x
    <3>1. SUFFICES ASSUME NEW i \in DOMAIN world.issues, i > ReadUpTo(read.page),
                          world.issues[i] = x
                   PROVE  \E j \in DOMAIN changed.issues :
                            j > ReadUpTo(read.page) /\ changed.issues[j] = x
      BY <1>1, <2>1, <2>2 DEF IssuesRead
    <3>2. PICK j \in DOMAIN changed.issues : j >= i /\ changed.issues[j] = world.issues[i]
      BY <1>5, <1>8
    <3>3. ReadUpTo(read.page) \in Int
      BY <2>1, ReadsAssumption DEF IssuesRead, ReadUpTo
    <3>4. i \in Int /\ j \in Int
      <4>1. IsSequence(world.issues) /\ IsSequence(changed.issues)
        BY <1>1 DEF WholeInv, WorldInv, IsSequence
      <4>2. PICK S : world.issues \in Seq(S)
        BY <4>1 DEF IsSequence
      <4>3. PICK T : changed.issues \in Seq(T)
        BY <4>1 DEF IsSequence
      <4> QED BY <4>2, <4>3
    <3> QED BY <3>1, <3>2, <3>3, <3>4
  <2>3. /\ read'.page \in Nat \ {0} /\ IsSequence(read'.got)
        /\ ReadUpTo(read'.page) = ReadUpTo(read.page)
        /\ Range(read'.listed) = Range(read.listed) /\ Range(read'.got) = Range(read.got)
    BY <1>5, <2>1 DEF IssuesRead
  <2> QED BY <2>2, <2>3 DEF IssuesRead, IsSequence
<1> QED BY <1>5, <1>6, <1>7, <1>8 DEF ReadInv

(* A push changes the files, and disturbs who reads them.                  *)
LEMMA PushKeepsWhole ==
  ASSUME WholeInv, Push
  PROVE  WholeInv'
<1>1. PICK path, patch :
        LET file == [path |-> path, status |-> "modified", sound |-> TRUE, patch |-> patch] IN
        Change([world EXCEPT !.pull.head = @ + 1, !.pull.files = <<file>> \o Without(@, path)],
               {"pull", "diff"}, {"diff"})
  BY DEF Push
<1> DEFINE file == [path |-> path, status |-> "modified", sound |-> TRUE, patch |-> patch]
           files == <<file>> \o Without(world.pull.files, path)
           changed == [world EXCEPT !.pull.head = @ + 1, !.pull.files = <<file>> \o Without(@, path)]
<1>2. WorldInv
  BY DEF WholeInv
<1>3. /\ DOMAIN changed = DOMAIN world /\ DOMAIN changed.pull = DOMAIN world.pull
      /\ changed.pull.files = files /\ changed.issues = world.issues
      /\ changed.commit = world.commit
  BY <1>2 DEF WorldInv
<1>4. IsSequence(files)
  <2>1. PICK S : Without(world.pull.files, path) \in Seq(S)
    BY <1>2, WithoutIsSequence DEF WorldInv, IsSequence
  <2> HIDE DEF file
  <2>2. <<file>> \in Seq(S \cup {file}) /\ Without(world.pull.files, path) \in Seq(S \cup {file})
    BY <2>1
  <2>3. files \in Seq(S \cup {file})
    BY <2>2
  <2> QED BY <2>3 DEF IsSequence
<1>5. Change(changed, {"pull", "diff"}, {"diff"})
  BY <1>1
<1> HIDE DEF changed, files
<1>6. WorldInv'
  BY <1>2, <1>3, <1>4, <1>5 DEF Change, WorldInv, IsSequence
<1>7. \A i \in DOMAIN world.issues : i \in Int
  BY <1>2 DEF WorldInv, IsSequence
<1>8. \A i \in DOMAIN world.issues : \E j \in DOMAIN changed.issues :
        j >= i /\ changed.issues[j] = world.issues[i]
  BY <1>3, <1>7
<1> QED BY <1>3, <1>5, <1>6, <1>8, ChangeKeepsWhole
(* A new issue pushes the others one place on.                             *)
LEMMA OpeningKeepsWhole ==
  ASSUME WholeInv, IssueOpens
  PROVE  WholeInv'
<1> DEFINE issue == [id |-> changes + 100, dated |-> TRUE]
           changed == [world EXCEPT !.issues = <<issue>> \o @]
<1>1. WorldInv /\ Change(changed, {"open_issues"}, {})
  BY DEF WholeInv, IssueOpens
<1>2. PICK S : world.issues \in Seq(S)
  BY <1>1 DEF WorldInv, IsSequence
<1>3. /\ DOMAIN changed = DOMAIN world /\ changed.pull = world.pull
      /\ changed.issues = <<issue>> \o world.issues /\ changed.commit = world.commit
  BY <1>1 DEF WorldInv
<1> HIDE DEF changed, issue
<1>4. /\ changed.issues \in Seq(S \cup {issue})
      /\ DOMAIN changed.issues = 1..(Len(world.issues) + 1)
      /\ \A i \in 1..Len(world.issues) : changed.issues[i + 1] = world.issues[i]
  <2>1. <<issue>> \in Seq(S \cup {issue}) /\ world.issues \in Seq(S \cup {issue})
    BY <1>2
  <2> QED BY <1>2, <1>3, <2>1
<1>5. WorldInv'
  BY <1>1, <1>3, <1>4 DEF Change, WorldInv, IsSequence
<1>6. ASSUME NEW i \in DOMAIN world.issues
      PROVE  \E j \in DOMAIN changed.issues : j >= i /\ changed.issues[j] = world.issues[i]
  <2>1. i \in 1..Len(world.issues) /\ i + 1 \in DOMAIN changed.issues /\ i + 1 >= i
    BY <1>2, <1>4
  <2> QED BY <1>4, <2>1
<1> QED BY <1>1, <1>3, <1>5, <1>6, ChangeKeepsWhole

(* A resolved issue draws the others one place nearer, and disturbs who    *)
(* reads them.                                                             *)
LEMMA ResolvingKeepsWhole ==
  ASSUME WholeInv, IssueResolves
  PROVE  WholeInv'
<1> DEFINE changed == [world EXCEPT !.issues = Tail(@)]
<1>1. WorldInv /\ world.issues # <<>> /\ Change(changed, {"open_issues"}, {"open_issues"})
  BY DEF WholeInv, IssueResolves
<1>2. PICK S : world.issues \in Seq(S)
  BY <1>1 DEF WorldInv, IsSequence
<1>3. /\ DOMAIN changed = DOMAIN world /\ changed.pull = world.pull
      /\ changed.issues = Tail(world.issues) /\ changed.commit = world.commit
  BY <1>1 DEF WorldInv
<1> HIDE DEF changed
<1>4. changed.issues \in Seq(S)
  BY <1>1, <1>2, <1>3
<1>5. WorldInv'
  BY <1>1, <1>3, <1>4 DEF Change, WorldInv, IsSequence
<1> QED BY <1>1, <1>3, <1>5, ChangeKeepsWhole

(* A new event changes no listing.                                         *)
LEMMA ArrivalKeepsWhole ==
  ASSUME WholeInv, EventArrives
  PROVE  WholeInv'
<1> DEFINE changed == [world EXCEPT !.event.id = @ + 1, !.event.frames = <<{"file", "line"}>>,
                                    !.events = @ + 1]
<1>1. WorldInv /\ Change(changed, {"failure_location", "telemetry"}, {})
  BY DEF WholeInv, EventArrives
<1>2. /\ DOMAIN changed = DOMAIN world /\ changed.pull = world.pull
      /\ changed.issues = world.issues /\ changed.commit = world.commit
  BY <1>1 DEF WorldInv
<1> HIDE DEF changed
<1>3. WorldInv'
  BY <1>1, <1>2 DEF Change, WorldInv, IsSequence
<1>4. \A i \in DOMAIN world.issues : i \in Int
  BY <1>1 DEF WorldInv, IsSequence
<1> QED BY <1>1, <1>2, <1>3, <1>4, ChangeKeepsWhole

-----------------------------------------------------------------------------
(* Requests that fail, and the tools that read no listing.                 *)

(* A listing is not asked for with a request about one issue.              *)
LEMMA AloneKeepsWhole ==
  ASSUME WholeInv, read # None, read.call \notin {"files", "commit", "issues"}
  PROVE  /\ \A items : Observe(items) \/ Return(items) => WholeInv'
         /\ \A next : Go(next) => WholeInv'
         /\ \A error : Fail(error) => WholeInv'
<1>1. read.tool \notin {"diff", "commit_diff", "open_issues"}
  BY DEF WholeInv, ReadInv, CallInv
<1> QED BY <1>1, ObserveKeepsWhole, ReturnKeepsWhole, GoKeepsWhole, FailKeepsWhole

(* A request fails.                                                        *)
LEMMA FailureKeepsWhole ==
  ASSUME WholeInv, NEW r, RequestFails(r)
  PROVE  WholeInv'
<1>1. CASE read.call = "issue"
  BY <1>1, AloneKeepsWhole DEF RequestFails
<1>2. CASE read.call # "issue"
  BY <1>2, FailKeepsWhole DEF RequestFails
<1> QED BY <1>1, <1>2

(* The files of a commit come in one answer.                               *)
LEMMA CommitKeepsWhole ==
  ASSUME WholeInv, CommitAnswered
  PROVE  WholeInv'
<1>1. /\ read # None /\ read.call = "commit" /\ read.tool \notin {"diff", "open_issues"}
      /\ read.tool = "commit_diff" => read.listed = world.commit.files
  BY DEF CommitAnswered, Calling, WholeInv, ReadInv, CallInv
<1>2. ASSUME NEW error, Fail(error) PROVE WholeInv'
  BY <1>2, FailKeepsWhole
<1>3. ASSUME read.tool # "commit_diff", NEW items, Observe(items) PROVE WholeInv'
  BY <1>1, <1>3, ObserveKeepsWhole
<1>4. ASSUME read.tool = "commit_diff",
             ObserveFiles(<<"commit">>, AnsweredFiles(world.commit))
      PROVE  WholeInv'
  <2>1. AnsweredFiles(world.commit) = FirstPage(read.listed)
    BY <1>1, <1>4 DEF AnsweredFiles, FirstPage
  <2> QED BY <1>4, <2>1, ObserveFilesKeepsWhole
<1> QED BY <1>2, <1>3, <1>4 DEF CommitAnswered

(* Every other answer is to a request that is made by no listing.          *)
LEMMA AnswersKeepWhole ==
  ASSUME WholeInv,
         \/ ToolTimesOut \/ PullAnswered \/ IssueAnswered \/ ShortIdAnswered \/ EventAnswered
         \/ ReleaseAnswered \/ DeploysAnswered \/ StatsAnswered \/ IntegrationsAnswered
         \/ JiraAnswered
  PROVE  WholeInv'
<1>1. read # None /\ read.call \notin {"files", "commit", "issues"}
  BY DEF ToolTimesOut, PullAnswered, IssueAnswered, ShortIdAnswered, EventAnswered,
         ReleaseAnswered, DeploysAnswered, StatsAnswered, IntegrationsAnswered, JiraAnswered,
         Calling
<1>2. ASSUME NEW items, Observe(items) \/ Return(items) PROVE WholeInv'
  BY <1>1, <1>2, AloneKeepsWhole
<1>3. ASSUME NEW next, Go(next) PROVE WholeInv'
  BY <1>1, <1>3, AloneKeepsWhole
<1>4. ASSUME NEW error, Fail(error) PROVE WholeInv'
  BY <1>1, <1>4, AloneKeepsWhole
<1>5. ToolTimesOut \/ PullAnswered => WholeInv'
  BY <1>2, <1>4 DEF ToolTimesOut, PullAnswered
<1>6. IssueFound => WholeInv'
  BY <1>2, <1>3, <1>4 DEF IssueFound
<1>7. IssueAnswered \/ ShortIdAnswered => WholeInv'
  BY <1>6 DEF IssueAnswered, ShortIdAnswered
<1>8. EventAnswered => WholeInv'
  BY <1>2, <1>4 DEF EventAnswered
<1>9. ReleaseAnswered \/ DeploysAnswered => WholeInv'
  BY <1>2, <1>3, <1>4 DEF ReleaseAnswered, DeploysAnswered
<1>10. StatsAnswered \/ JiraAnswered => WholeInv'
  BY <1>2, <1>4 DEF StatsAnswered, JiraAnswered
<1>11. IntegrationsAnswered => WholeInv'
  BY <1>2, <1>4 DEF IntegrationsAnswered
<1> QED BY <1>5, <1>7, <1>8, <1>9, <1>10, <1>11

(* Every step keeps answers whole.                                         *)
LEMMA WholeKept == WholeInv /\ [Next]_vars => WholeInv'
<1>1. SUFFICES ASSUME WholeInv, [Next]_vars PROVE WholeInv'
  OBVIOUS
<1>2. CASE UNCHANGED vars
  BY <1>1, <1>2
     DEF vars, WholeInv, WorldInv, ReadInv, AnswersAreWhole, CallInv, FilesRead, IssuesRead, IsSequence
<1>3. CASE Next
  BY <1>1, <1>3, BeginKeepsWhole, FailureKeepsWhole, CommitKeepsWhole, FilesKeepWhole,
     IssuesKeepWhole, AnswersKeepWhole, PushKeepsWhole, OpeningKeepsWhole,
     ResolvingKeepsWhole, ArrivalKeepsWhole
     DEF Next
<1> QED BY <1>1, <1>2, <1>3

(* A listing read page by page while the provider goes on changing is the  *)
(* listing as it stood, or the call says that it failed: no page is left   *)
(* out, read twice or cut short by a bound (_get_paginated_list,           *)
(* list_unresolved_issues).  This is the paging of ReadsAreWhole.          *)
THEOREM PagesAreWhole == Spec => []AnswersAreWhole
<1>1. Spec => []WholeInv
  BY WholeStarts, WholeKept, PTL DEF Spec
<1>2. WholeInv => AnswersAreWhole
  BY DEF WholeInv
<1> QED BY <1>1, <1>2, PTL

-----------------------------------------------------------------------------
(* Patches.  What the parser, and the picking that the properties read a   *)
(* patch with, do line by line.                                            *)

(* The entries that were picked, entry by entry.                           *)
IsPickTable(list, wanted, t) ==
  /\ t \in [0..Len(list) -> Seq(Range(list))] /\ t[0] = <<>> /\ Picked(list, wanted) = t[Len(list)]
  /\ \A i \in 1..Len(list) :
       t[i] = IF list[i] \in wanted THEN Append(t[i - 1], list[i]) ELSE t[i - 1]

(* Picking is such a table.                                                *)
LEMMA PickTable ==
  ASSUME NEW list, IsList(list), NEW wanted
  PROVE  \E t : IsPickTable(list, wanted, t)
<1> DEFINE T == Seq(Range(list))
           Step(kept, x) == IF x \in wanted THEN Append(kept, x) ELSE kept
<1> DEFINE n == Len(list)
           g == [i \in 1..n |-> [t \in T |-> Step(t, list[i])]]
           fold == CHOOSE h : h = [s \in SUBSET (1..n) |->
                     IF s = {} THEN <<>> ELSE Step(h[s \ {Top(s)}], list[Top(s)])]
<1>1. n \in Nat /\ DOMAIN list = 1..n /\ \A i \in 1..n : list[i] \in Range(list)
  BY DEF Range, IsList
<1>2. Picked(list, wanted) = fold[1..n]
  BY <1>1 DEF Picked, FoldLeft, MapThenFoldSet, Top, Max
<1>3. /\ <<>> \in T
      /\ \A i \in 1..n : \A t \in T : g[i][t] = Step(t, list[i]) /\ g[i][t] \in T
  BY <1>1
<1> SUFFICES \E t : /\ t \in [0..n -> T] /\ t[0] = <<>> /\ Picked(list, wanted) = t[n]
                    /\ \A i \in 1..n : t[i] = Step(t[i - 1], list[i])
  BY DEF IsPickTable
<1> HIDE DEF n, T, Step, g
<1>4. \A i \in 1..n : \A t \in T : g[i][t] \in T
  BY <1>3
<1>5. \A s \in SUBSET (1..n) : s # {} => Top(s) \in 1..n /\ s \ {Top(s)} \in SUBSET (1..n)
  BY <1>1, TopMember
<1>6. PICK h : IsFold(n, T, <<>>, g, h)
  BY <1>1, <1>3, <1>4, FoldExists
<1>7. h = [s \in SUBSET (1..n) |-> IF s = {} THEN <<>> ELSE Step(h[s \ {Top(s)}], list[Top(s)])]
  BY <1>3, <1>5, <1>6 DEF IsFold, Folded
<1>8. fold = [s \in SUBSET (1..n) |-> IF s = {} THEN <<>> ELSE Step(fold[s \ {Top(s)}], list[Top(s)])]
  BY <1>7
<1> HIDE DEF fold
<1>9. Solved(n, T, <<>>, g, fold)
  BY <1>3, <1>5, <1>8 DEF Solved
<1>10. PICK t : IsTable(n, T, <<>>, g, fold, t)
  BY <1>1, <1>3, <1>4, <1>9, FoldTable
<1>11. \A i \in 1..n : t[i] = Step(t[i - 1], list[i])
  <2>1. \A i \in 1..n : t[i - 1] \in T
    BY <1>1, <1>10 DEF IsTable
  <2> QED BY <1>3, <1>10, <2>1 DEF IsTable
<1> QED BY <1>2, <1>10, <1>11 DEF IsTable

(* The lines of some hunks, hunk by hunk.                                  *)
IsLinesTable(R, hunks, t) ==
  /\ t \in [0..Len(hunks) -> Seq(R)] /\ t[0] = <<>> /\ LinesOf(hunks) = t[Len(hunks)]
  /\ \A i \in 1..Len(hunks) : t[i] = t[i - 1] \o hunks[i].lines

(* Hunks of lines of R.                                                    *)
Hunk(R) == [header : R, lines : Seq(R)]

(* Their lines are such a table.                                           *)
LEMMA LinesTable ==
  ASSUME NEW R, NEW hunks \in Seq(Hunk(R))
  PROVE  \E t : IsLinesTable(R, hunks, t)
<1> DEFINE T == Seq(R)
           Step(lines, hunk) == lines \o hunk.lines
<1>r. \A i \in 1..Len(hunks) : hunks[i].lines \in Seq(R)
  <2> SUFFICES ASSUME NEW i \in 1..Len(hunks) PROVE hunks[i].lines \in Seq(R)
    OBVIOUS
  <2>1. hunks[i] \in Hunk(R)
    OBVIOUS
  <2> QED BY <2>1 DEF Hunk
<1> DEFINE n == Len(hunks)
           g == [i \in 1..n |-> [t \in T |-> Step(t, hunks[i])]]
           fold == CHOOSE h : h = [s \in SUBSET (1..n) |->
                     IF s = {} THEN <<>> ELSE Step(h[s \ {Top(s)}], hunks[Top(s)])]
<1>1. n \in Nat /\ DOMAIN hunks = 1..n /\ \A i \in 1..n : hunks[i] \in Range(hunks)
  BY DEF Range
<1>2. LinesOf(hunks) = fold[1..n]
  BY <1>1 DEF LinesOf, FoldLeft, MapThenFoldSet, Top, Max
<1>3. /\ <<>> \in T
      /\ \A i \in 1..n : \A t \in T : g[i][t] = Step(t, hunks[i]) /\ g[i][t] \in T
  BY <1>1, <1>r
<1> SUFFICES \E t : /\ t \in [0..n -> T] /\ t[0] = <<>> /\ LinesOf(hunks) = t[n]
                    /\ \A i \in 1..n : t[i] = Step(t[i - 1], hunks[i])
  BY DEF IsLinesTable
<1> HIDE DEF n, T, Step, g
<1>4. \A i \in 1..n : \A t \in T : g[i][t] \in T
  BY <1>3
<1>5. \A s \in SUBSET (1..n) : s # {} => Top(s) \in 1..n /\ s \ {Top(s)} \in SUBSET (1..n)
  BY <1>1, TopMember
<1>6. PICK h : IsFold(n, T, <<>>, g, h)
  BY <1>1, <1>3, <1>4, FoldExists
<1>7. h = [s \in SUBSET (1..n) |-> IF s = {} THEN <<>> ELSE Step(h[s \ {Top(s)}], hunks[Top(s)])]
  BY <1>3, <1>5, <1>6 DEF IsFold, Folded
<1>8. fold = [s \in SUBSET (1..n) |-> IF s = {} THEN <<>> ELSE Step(fold[s \ {Top(s)}], hunks[Top(s)])]
  BY <1>7
<1> HIDE DEF fold
<1>9. Solved(n, T, <<>>, g, fold)
  BY <1>3, <1>5, <1>8 DEF Solved
<1>10. PICK t : IsTable(n, T, <<>>, g, fold, t)
  BY <1>1, <1>3, <1>4, <1>9, FoldTable
<1>11. \A i \in 1..n : t[i] = Step(t[i - 1], hunks[i])
  <2>1. \A i \in 1..n : t[i - 1] \in T
    BY <1>1, <1>10 DEF IsTable
  <2> QED BY <1>3, <1>10, <2>1 DEF IsTable
<1> QED BY <1>2, <1>10, <1>11 DEF IsTable

(* The states of a parser that reads lines of a patch.                     *)
ParseState(R) == [error : ParseErrors \cup {None}, hunks : Seq(Hunk(R)), header : Seq(R), lines : Seq(R)]

(* Closing a hunk leads to such a state.                                   *)
LEMMA FinishTyped ==
  ASSUME NEW R, NEW state \in ParseState(R)
  PROVE  FinishHunk(state) \in ParseState(R)
<1>1. CASE state.header = <<>>
  BY <1>1 DEF FinishHunk
<1>2. CASE state.header # <<>>
  <2>1. state.header[1] \in R
    BY <1>2 DEF ParseState
  <2>2. [header |-> state.header[1], lines |-> state.lines] \in Hunk(R)
    BY <2>1 DEF ParseState, Hunk
  <2> DEFINE hunk == [header |-> state.header[1], lines |-> state.lines]
  <2> HIDE DEF hunk
  <2>3. Append(state.hunks, hunk) \in Seq(Hunk(R)) /\ <<>> \in Seq(R)
    BY <2>2 DEF ParseState, hunk
  <2>4. \A error \in ParseErrors : Stop(state, error) \in ParseState(R)
    BY DEF ParseState, Stop
  <2>5. [state EXCEPT !.hunks = Append(@, hunk), !.header = <<>>, !.lines = <<>>] \in ParseState(R)
    <3> DEFINE longer == Append(state.hunks, hunk)
               none == <<>>
    <3>1. longer \in Seq(Hunk(R)) /\ none \in Seq(R)
      BY <2>3
    <3> HIDE DEF longer, none
    <3>2. [state EXCEPT !.hunks = longer, !.header = none, !.lines = none] \in ParseState(R)
      BY <3>1 DEF ParseState
    <3> QED BY <3>2 DEF longer, none
  <2> QED BY <1>2, <2>4, <2>5 DEF FinishHunk, ParseErrors, hunk
<1> QED BY <1>1, <1>2

(* Reading a line leads to such a state.                                   *)
LEMMA ReadTyped ==
  ASSUME NEW R, NEW state \in ParseState(R), NEW line \in R
  PROVE  ReadLine(state, line) \in ParseState(R)
<1>1. \A s \in ParseState(R) : \A error \in ParseErrors : Stop(s, error) \in ParseState(R)
  BY DEF ParseState, Stop
<1>2. OpenHunk(state, line) \in ParseState(R)
  <2> DEFINE finished == FinishHunk(state)
  <2>1. finished \in ParseState(R)
    BY FinishTyped
  <2> HIDE DEF finished
  <2>2. [finished EXCEPT !.header = <<line>>] \in ParseState(R)
    <3>1. <<line>> \in Seq(R)
      OBVIOUS
    <3>2. [finished EXCEPT !.header = <<line>>] =
            [error |-> finished.error, hunks |-> finished.hunks, header |-> <<line>>, lines |-> finished.lines]
      BY <2>1 DEF ParseState
    <3> QED BY <2>1, <3>1, <3>2 DEF ParseState
  <2>3. Stop(finished, "incomplete_result") \in ParseState(R)
    BY <1>1, <2>1 DEF ParseErrors
  <2> QED BY <2>1, <2>2, <2>3 DEF OpenHunk, finished
<1>3. [state EXCEPT !.lines = Append(@, line)] \in ParseState(R)
  <2> DEFINE longer == Append(state.lines, line)
  <2>1. longer \in Seq(R)
    BY DEF ParseState
  <2> HIDE DEF longer
  <2>2. [state EXCEPT !.lines = longer] \in ParseState(R)
    BY <2>1 DEF ParseState
  <2> QED BY <2>2 DEF longer
<1>4. Stop(state, "incomplete_result") \in ParseState(R) /\ Stop(state, "invalid_response") \in ParseState(R)
  BY <1>1 DEF ParseErrors
<1>5. TakeLine(state, line) \in ParseState(R)
  BY <1>2, <1>3, <1>4 DEF TakeLine
<1> QED BY <1>5 DEF ReadLine

(* The parser, line by line.                                               *)
IsParse(patch, t) ==
  /\ t \in [0..Len(patch) -> ParseState(Range(patch))] /\ t[0] = Start
  /\ FoldLeft(ReadLine, Start, patch) = t[Len(patch)]
  /\ \A i \in 1..Len(patch) : t[i] = ReadLine(t[i - 1], patch[i])

(* It exists for every patch.                                              *)
LEMMA ParseTable ==
  ASSUME NEW patch, IsList(patch)
  PROVE  \E t : IsParse(patch, t)
<1> DEFINE T == ParseState(Range(patch))
           Step(state, line) == ReadLine(state, line)
<1>r. Start \in T
  BY DEF Start, ParseState, ParseErrors
<1> DEFINE n == Len(patch)
           g == [i \in 1..n |-> [t \in T |-> Step(t, patch[i])]]
           fold == CHOOSE h : h = [s \in SUBSET (1..n) |->
                     IF s = {} THEN Start ELSE Step(h[s \ {Top(s)}], patch[Top(s)])]
<1>1. n \in Nat /\ DOMAIN patch = 1..n /\ \A i \in 1..n : patch[i] \in Range(patch)
  BY DEF Range, IsList
<1>2. FoldLeft(ReadLine, Start, patch) = fold[1..n]
  BY <1>1 DEF FoldLeft, MapThenFoldSet, Top, Max
<1>3. /\ Start \in T
      /\ \A i \in 1..n : \A t \in T : g[i][t] = Step(t, patch[i]) /\ g[i][t] \in T
  BY <1>1, <1>r, ReadTyped
<1> SUFFICES \E t : /\ t \in [0..n -> T] /\ t[0] = Start /\ FoldLeft(ReadLine, Start, patch) = t[n]
                    /\ \A i \in 1..n : t[i] = Step(t[i - 1], patch[i])
  BY DEF IsParse
<1> HIDE DEF n, T, Step, g
<1>4. \A i \in 1..n : \A t \in T : g[i][t] \in T
  BY <1>3
<1>5. \A s \in SUBSET (1..n) : s # {} => Top(s) \in 1..n /\ s \ {Top(s)} \in SUBSET (1..n)
  BY <1>1, TopMember
<1>6. PICK h : IsFold(n, T, Start, g, h)
  BY <1>1, <1>3, <1>4, FoldExists
<1>7. h = [s \in SUBSET (1..n) |-> IF s = {} THEN Start ELSE Step(h[s \ {Top(s)}], patch[Top(s)])]
  BY <1>3, <1>5, <1>6 DEF IsFold, Folded
<1>8. fold = [s \in SUBSET (1..n) |-> IF s = {} THEN Start ELSE Step(fold[s \ {Top(s)}], patch[Top(s)])]
  BY <1>7
<1> HIDE DEF fold
<1>9. Solved(n, T, Start, g, fold)
  BY <1>3, <1>5, <1>8 DEF Solved
<1>10. PICK t : IsTable(n, T, Start, g, fold, t)
  BY <1>1, <1>3, <1>4, <1>9, FoldTable
<1>11. \A i \in 1..n : t[i] = Step(t[i - 1], patch[i])
  <2>1. \A i \in 1..n : t[i - 1] \in T
    BY <1>1, <1>10 DEF IsTable
  <2> QED BY <1>3, <1>10, <2>1 DEF IsTable
<1> QED BY <1>2, <1>10, <1>11 DEF IsTable

(* A sequence of at most one entry.                                        *)
LEMMA OneEntry ==
  ASSUME NEW R, NEW s \in Seq(R), s # <<>>, Len(s) <= 1
  PROVE  Len(s) = 1 /\ s = <<s[1]>> /\ s[1] \in R
<1>1. Len(s) \in Nat /\ Len(s) # 0
  BY EmptySeq, LenProperties
<1>2. Len(s) = 1
  <2> DEFINE n == Len(s)
  <2>1. n \in Nat /\ n # 0 /\ n <= 1
    BY <1>1
  <2> HIDE DEF n
  <2>2. n = 1
    BY <2>1
  <2> QED BY <2>2 DEF n
<1>3. s[1] \in R
  BY <1>2, ElementOfSeq
<1> QED BY <1>2, <1>3

(* A concatenation grows at its end.                                       *)
GrowsAtEnd(a, b, x) == Append(a \o b, x) = a \o Append(b, x)

(* It does, if it is one of sequences.                                     *)
LEMMA ConcatAppend ==
  ASSUME NEW R, NEW a \in Seq(R), NEW b \in Seq(R), NEW x \in R
  PROVE  GrowsAtEnd(a, b, x)
<1> DEFINE l == Append(a \o b, x)
           r == a \o Append(b, x)
<1>1. a \o b \in Seq(R) /\ Append(b, x) \in Seq(R) /\ Len(a) \in Nat /\ Len(b) \in Nat
  OBVIOUS
<1>2. l \in Seq(R) /\ r \in Seq(R) /\ Len(l) = Len(a) + Len(b) + 1 /\ Len(r) = Len(a) + Len(b) + 1
  BY <1>1
<1>3. ASSUME NEW i \in 1..(Len(a) + Len(b) + 1) PROVE l[i] = r[i]
  BY <1>1, <1>3
<1> HIDE DEF l, r
<1>4. l = r
  BY <1>1, <1>2, <1>3, SeqEqual
<1> QED BY <1>4 DEF l, r, GrowsAtEnd

(* No hunks have no lines.                                                 *)
LEMMA LinesOfEmpty == LinesOf(<<>>) = <<>>
<1>1. <<>> \in Seq(Hunk({}))
  OBVIOUS
<1>2. PICK t : IsLinesTable({}, <<>>, t)
  BY <1>1, LinesTable
<1>3. Len(<<>>) = 0
  OBVIOUS
<1> QED BY <1>2, <1>3 DEF IsLinesTable

(* One more hunk brings its lines.                                         *)
LEMMA LinesOfAppend ==
  ASSUME NEW R, NEW hunks \in Seq(Hunk(R)), NEW hunk \in Hunk(R)
  PROVE  /\ LinesOf(hunks) \in Seq(R)
         /\ LinesOf(Append(hunks, hunk)) = LinesOf(hunks) \o hunk.lines
<1> DEFINE n == Len(hunks)
           longer == Append(hunks, hunk)
<1>1. /\ longer \in Seq(Hunk(R)) /\ Len(longer) = n + 1 /\ n \in Nat /\ longer[n + 1] = hunk
      /\ \A i \in 1..n : longer[i] = hunks[i]
  OBVIOUS
<1>2. PICK t : IsLinesTable(R, hunks, t)
  BY LinesTable
<1>3. PICK u : IsLinesTable(R, longer, u)
  BY <1>1, LinesTable
<1> HIDE DEF longer, n
<1> DEFINE Same == {i \in 0..n : u[i] = t[i]}
<1>4. 0 \in Same
  BY <1>1, <1>2, <1>3 DEF IsLinesTable
<1>5. ASSUME NEW i \in 1..n, i - 1 \in Same PROVE i \in Same
  <2>1. u[i] = u[i - 1] \o longer[i].lines
    <3>1. i \in 1..Len(longer)
      BY <1>1
    <3> QED BY <1>3, <3>1 DEF IsLinesTable
  <2>2. t[i] = t[i - 1] \o hunks[i].lines
    BY <1>2 DEF IsLinesTable, n
  <2>3. longer[i] = hunks[i] /\ i \in 0..n
    BY <1>1
  <2>4. u[i - 1] = t[i - 1]
    BY <1>5
  <2> QED BY <2>1, <2>2, <2>3, <2>4
<1>6. \A i \in 0..n : i \in Same
  <2> HIDE DEF Same
  <2> QED BY <1>1, <1>4, <1>5, UpTo
<1>7. u[n] = t[n]
  BY <1>1, <1>6
<1>8. u[n + 1] = u[n] \o longer[n + 1].lines
  <2>1. n + 1 \in 1..Len(longer) /\ (n + 1) - 1 = n
    BY <1>1
  <2>2. u[n + 1] = u[(n + 1) - 1] \o longer[n + 1].lines
    BY <1>3, <2>1 DEF IsLinesTable
  <2> QED BY <2>1, <2>2
<1>9. LinesOf(hunks) = t[n] /\ t[n] \in Seq(R) /\ LinesOf(longer) = u[n + 1]
  BY <1>1, <1>2, <1>3 DEF IsLinesTable, n
<1> QED BY <1>1, <1>7, <1>8, <1>9 DEF longer

(* The headers of some hunks.                                              *)
HeadersOf(hunks) == [i \in DOMAIN hunks |-> hunks[i].header]

(* One more hunk brings its header.                                        *)
LEMMA HeadersOfAppend ==
  ASSUME NEW R, NEW hunks \in Seq(Hunk(R)), NEW hunk \in Hunk(R)
  PROVE  /\ HeadersOf(hunks) \in Seq(R)
         /\ HeadersOf(Append(hunks, hunk)) = Append(HeadersOf(hunks), hunk.header)
<1>1. \A i \in DOMAIN hunks : hunks[i].header \in R
  <2> SUFFICES ASSUME NEW i \in DOMAIN hunks PROVE hunks[i].header \in R
    OBVIOUS
  <2>1. hunks[i] \in Hunk(R)
    OBVIOUS
  <2> QED BY <2>1 DEF Hunk
<1>2. hunk.header \in R
  BY DEF Hunk
<1>3. HeadersOf(hunks) \in Seq(R) /\ Len(HeadersOf(hunks)) = Len(hunks)
  BY <1>1 DEF HeadersOf
<1> DEFINE a == HeadersOf(Append(hunks, hunk))
           b == Append(HeadersOf(hunks), hunk.header)
<1>4. Append(hunks, hunk) \in Seq(Hunk(R)) /\ Len(Append(hunks, hunk)) = Len(hunks) + 1
  OBVIOUS
<1>5. DOMAIN a = 1..(Len(hunks) + 1) /\ a = [i \in 1..(Len(hunks) + 1) |-> a[i]]
  BY <1>4 DEF HeadersOf
<1>6. b \in Seq(R) /\ Len(b) = Len(hunks) + 1 /\ b = [i \in 1..(Len(hunks) + 1) |-> b[i]]
  BY <1>2, <1>3
<1>7. ASSUME NEW i \in 1..(Len(hunks) + 1) PROVE a[i] = b[i]
  <2>1. a[i] = Append(hunks, hunk)[i].header
    BY <1>4 DEF HeadersOf
  <2>2. CASE i = Len(hunks) + 1
    <3>1. Append(hunks, hunk)[i] = hunk
      BY <2>2
    <3>2. b[i] = hunk.header
      BY <1>2, <1>3, <2>2
    <3> QED BY <2>1, <3>1, <3>2
  <2>3. CASE i # Len(hunks) + 1
    <3>1. i \in 1..Len(hunks)
      BY <2>3
    <3>2. Append(hunks, hunk)[i] = hunks[i]
      BY <3>1
    <3>3. b[i] = HeadersOf(hunks)[i]
      BY <1>2, <1>3, <3>1
    <3> QED BY <2>1, <3>1, <3>2, <3>3 DEF HeadersOf
  <2> QED BY <2>2, <2>3
<1> HIDE DEF a, b
<1>8. a = b
  BY <1>5, <1>6, <1>7
<1> QED BY <1>3, <1>8 DEF a, b

(* What holds of a parser that has read some lines without an error: they  *)
(* are the lines of its hunks and those of the hunk it is in.              *)
ParsedSoFar(state, contents, headers) ==
  /\ contents = LinesOf(state.hunks) \o state.lines
  /\ headers = HeadersOf(state.hunks) \o state.header
  /\ Len(state.header) <= 1
  /\ state.header = <<>> => state.hunks = <<>> /\ state.lines = <<>>
  /\ \A i \in DOMAIN state.hunks : CountsAgree(state.hunks[i].header, state.hunks[i].lines)

ParsedWhole(state, contents, headers) ==
  /\ contents = LinesOf(state.hunks) /\ headers = HeadersOf(state.hunks)
  /\ state.header = <<>> /\ state.lines = <<>>
  /\ \A i \in DOMAIN state.hunks : CountsAgree(state.hunks[i].header, state.hunks[i].lines)

(* Closing a hunk leaves nothing over.                                     *)
LEMMA FinishIsWhole ==
  ASSUME NEW R, NEW state \in ParseState(R), NEW contents, NEW headers,
         ParsedSoFar(state, contents, headers), state.error = None, FinishHunk(state).error = None
  PROVE  ParsedWhole(FinishHunk(state), contents, headers)
<1>1. /\ state.hunks \in Seq(Hunk(R)) /\ state.header \in Seq(R) /\ state.lines \in Seq(R)
      /\ DOMAIN state = {"error", "hunks", "header", "lines"}
  BY DEF ParseState
<1>2. CASE state.header = <<>>
  <2>1. FinishHunk(state) = state /\ state.hunks = <<>> /\ state.lines = <<>>
    BY <1>2 DEF FinishHunk, ParsedSoFar
  <2>2. HeadersOf(<<>>) = <<>>
    BY DEF HeadersOf
  <2>3. contents = <<>> \o <<>> /\ headers = <<>> \o <<>>
    BY <1>2, <2>1, <2>2, LinesOfEmpty DEF ParsedSoFar
  <2>4. <<>> \o <<>> = <<>>
    BY <1>1, <2>1
  <2> QED BY <1>2, <2>1, <2>2, <2>3, <2>4, LinesOfEmpty DEF ParsedWhole
<1>3. CASE state.header # <<>>
  <2> DEFINE hunk == [header |-> state.header[1], lines |-> state.lines]
             finished == FinishHunk(state)
  <2>1. Len(state.header) = 1 /\ state.header = <<state.header[1]>> /\ state.header[1] \in R
    <3> DEFINE header == state.header
    <3>1. header \in Seq(R) /\ Len(header) <= 1 /\ header # <<>>
      BY <1>1, <1>3 DEF ParsedSoFar
    <3> HIDE DEF header
    <3> QED BY <3>1, OneEntry DEF header
  <2>2. hunk \in Hunk(R) /\ hunk.header = state.header[1] /\ hunk.lines = state.lines
    BY <1>1, <2>1 DEF Hunk
  <2>3. "incomplete_result" # None /\ "invalid_response" # None
    BY NoneAssumption DEF ParseErrors
  <2>4. /\ CountsAgree(hunk.header, hunk.lines)
        /\ finished = [state EXCEPT !.hunks = Append(@, hunk), !.header = <<>>, !.lines = <<>>]
    BY <1>1, <1>3, <2>2, <2>3 DEF FinishHunk, Stop
  <2>5. finished.hunks = Append(state.hunks, hunk) /\ finished.header = <<>> /\ finished.lines = <<>>
    BY <1>1, <2>4
  <2> HIDE DEF hunk, finished
  <2>6. /\ LinesOf(finished.hunks) = LinesOf(state.hunks) \o state.lines
        /\ HeadersOf(finished.hunks) = Append(HeadersOf(state.hunks), state.header[1])
        /\ HeadersOf(state.hunks) \in Seq(R)
    <3>1. LinesOf(Append(state.hunks, hunk)) = LinesOf(state.hunks) \o hunk.lines
      BY <1>1, <2>2, LinesOfAppend
    <3>2. /\ HeadersOf(Append(state.hunks, hunk)) = Append(HeadersOf(state.hunks), hunk.header)
          /\ HeadersOf(state.hunks) \in Seq(R)
      BY <1>1, <2>2, HeadersOfAppend
    <3> QED BY <2>2, <2>5, <3>1, <3>2
  <2>7. HeadersOf(state.hunks) \o <<state.header[1]>> = Append(HeadersOf(state.hunks), state.header[1])
    BY <2>1, <2>6
  <2>8. ASSUME NEW i \in DOMAIN finished.hunks
        PROVE  CountsAgree(finished.hunks[i].header, finished.hunks[i].lines)
    <3>1. (i \in DOMAIN state.hunks /\ finished.hunks[i] = state.hunks[i]) \/ finished.hunks[i] = hunk
      BY <1>1, <2>2, <2>5
    <3> QED BY <2>4, <3>1 DEF ParsedSoFar
  <2>9. contents = LinesOf(finished.hunks) /\ headers = HeadersOf(finished.hunks)
    BY <2>1, <2>6, <2>7 DEF ParsedSoFar
  <2> QED BY <2>5, <2>8, <2>9 DEF ParsedWhole, finished
<1> QED BY <1>2, <1>3

(* A line that is read is one of the hunk it is in.                        *)
LEMMA ReadIsSoFar ==
  ASSUME NEW R, NEW state \in ParseState(R), NEW line \in R,
         line.is \in Content \cup {"header", "long", "no_newline", "other"},
         NEW contents \in Seq(R), NEW headers \in Seq(R),
         ParsedSoFar(state, contents, headers), ReadLine(state, line).error = None
  PROVE  ParsedSoFar(ReadLine(state, line),
                     IF line.is \in Content THEN Append(contents, line) ELSE contents,
                     IF line.is = "header" THEN Append(headers, line) ELSE headers)
<1> DEFINE next == ReadLine(state, line)
<1>0. "incomplete_result" # None /\ "invalid_response" # None
  BY NoneAssumption DEF ParseErrors
<1>1. /\ state.hunks \in Seq(Hunk(R)) /\ state.header \in Seq(R) /\ state.lines \in Seq(R)
      /\ DOMAIN state = {"error", "hunks", "header", "lines"}
  BY DEF ParseState
<1>2. state.error = None /\ next = TakeLine(state, line)
  BY DEF ReadLine
<1>3. CASE line.is = "header"
  <2> DEFINE finished == FinishHunk(state)
  <2>1. next = OpenHunk(state, line)
    BY <1>2, <1>3 DEF TakeLine
  <2>2. finished \in ParseState(R)
    BY FinishTyped
  <2> HIDE DEF finished
  <2>f. DOMAIN finished = {"error", "hunks", "header", "lines"} /\ finished.hunks \in Seq(Hunk(R))
    BY <2>2 DEF ParseState
  <2>3. finished.error = None /\ next = [finished EXCEPT !.header = <<line>>]
    BY <1>0, <2>1, <2>f DEF OpenHunk, Stop, finished
  <2>4. ParsedWhole(finished, contents, headers)
    BY <1>2, <2>3, FinishIsWhole DEF finished
  <2>5. next.header = <<line>> /\ next.hunks = finished.hunks /\ next.lines = <<>>
    BY <2>3, <2>f, <2>4 DEF ParsedWhole
  <2> HIDE DEF next
  <2>6. contents = LinesOf(next.hunks) \o next.lines
    <3>1. contents \o <<>> = contents
      OBVIOUS
    <3> QED BY <2>4, <2>5, <3>1 DEF ParsedWhole
  <2>7. Append(headers, line) = HeadersOf(next.hunks) \o next.header
    <3>1. headers \o <<line>> = Append(headers, line)
      OBVIOUS
    <3> QED BY <2>4, <2>5, <3>1 DEF ParsedWhole
  <2>8. Len(next.header) <= 1 /\ next.header # <<>>
    BY <2>5
  <2>9. line.is \notin Content
    BY <1>3 DEF Content
  <2> QED BY <1>3, <2>4, <2>5, <2>6, <2>7, <2>8, <2>9 DEF ParsedSoFar, ParsedWhole, next
<1>4. CASE line.is # "header"
  <2>1. line.is # "other" /\ state.header # <<>>
    BY <1>0, <1>1, <1>2, <1>4 DEF TakeLine, Stop
  <2>2. CASE line.is = "no_newline"
    <3>1. next = state /\ line.is \notin Content
      BY <1>2, <1>4, <2>1, <2>2 DEF TakeLine, Content
    <3> QED BY <1>4, <3>1
  <2>3. CASE line.is # "no_newline"
    <3>1. line.is # "long" /\ next = [state EXCEPT !.lines = Append(@, line)]
      BY <1>0, <1>1, <1>2, <1>4, <2>1, <2>3 DEF TakeLine, Stop
    <3>2. line.is \in Content
      BY <1>4, <2>1, <2>3, <3>1
    <3>3. next.lines = Append(state.lines, line) /\ next.hunks = state.hunks /\ next.header = state.header
      BY <1>1, <3>1
    <3>4. LinesOf(state.hunks) \in Seq(R)
      <4>1. PICK t : IsLinesTable(R, state.hunks, t)
        BY <1>1, LinesTable
      <4>2. Len(state.hunks) \in 0..Len(state.hunks)
        BY <1>1
      <4> QED BY <4>1, <4>2 DEF IsLinesTable
    <3>5. Append(LinesOf(state.hunks) \o state.lines, line) = LinesOf(state.hunks) \o Append(state.lines, line)
      <4>1. state.lines \in Seq(R)
        BY <1>1
      <4>2. GrowsAtEnd(LinesOf(state.hunks), state.lines, line)
        BY <3>4, <4>1, ConcatAppend
      <4> QED BY <4>2 DEF GrowsAtEnd
    <3> HIDE DEF next
    <3>6. Append(contents, line) = LinesOf(next.hunks) \o next.lines
      BY <3>3, <3>5 DEF ParsedSoFar
    <3> QED BY <1>4, <2>1, <3>2, <3>3, <3>6 DEF ParsedSoFar, next
  <2> QED BY <2>2, <2>3
<1> QED BY <1>3, <1>4

(* A parsed patch has typed hunks, or one of the two errors.               *)
LEMMA ParseTyped ==
  ASSUME NEW patch, IsPatch(patch)
  PROVE  ParsePatch(patch) \in ParseState(Range(patch))
<1> DEFINE R == Range(patch)
           through == FoldLeft(ReadLine, Start, patch)
           ended == IF through.error # None THEN through ELSE FinishHunk(through)
<1>1. PICK t : IsParse(patch, t)
  BY ParseTable DEF IsPatch, IsList
<1>2. Len(patch) \in 0..Len(patch)
  BY DEF IsPatch
<1>3. through \in ParseState(R)
  BY <1>1, <1>2 DEF IsParse
<1> HIDE DEF through
<1>4. ended \in ParseState(R)
  BY <1>3, FinishTyped
<1>5. Start \in ParseState(R)
  BY DEF Start, ParseState, ParseErrors
<1>6. \A s \in ParseState(R) : \A error \in ParseErrors : Stop(s, error) \in ParseState(R)
  BY DEF ParseState, Stop
<1> HIDE DEF ended
<1>7. ParsePatch(patch) = IF Len(patch) > MaxPatch THEN Stop(Start, "incomplete_result")
                          ELSE IF patch = <<>> THEN Stop(Start, "invalid_response")
                          ELSE IF ended.error # None THEN ended
                          ELSE IF ended.hunks = <<>> THEN Stop(ended, "invalid_response")
                          ELSE ended
  BY DEF ParsePatch, ended, through
<1> HIDE DEF R
<1> QED BY <1>4, <1>5, <1>6, <1>7 DEF ParseErrors, R

(* A patch that was parsed without an error is in its hunks: every line of *)
(* content in order, under the headers in order, and each hunk has the     *)
(* counts its header declares.                                             *)
PatchIsWhole(patch) ==
  LET hunks == ParsePatch(patch).hunks IN
  /\ LinesOf(hunks) = Contents(patch) /\ HeadersOf(hunks) = Headers(patch)
  /\ \A i \in DOMAIN hunks : CountsAgree(hunks[i].header, hunks[i].lines)

LEMMA ParsedPatchIsWhole ==
  ASSUME NEW patch, IsPatch(patch), ParsePatch(patch).error = None
  PROVE  PatchIsWhole(patch)
<1> DEFINE R == Range(patch)
           n == Len(patch)
           content == {l \in R : l.is \in Content}
           header == {l \in R : l.is = "header"}
           through == FoldLeft(ReadLine, Start, patch)
           ended == IF through.error # None THEN through ELSE FinishHunk(through)
<1>1. PICK t : IsParse(patch, t)
  BY ParseTable DEF IsPatch, IsList
<1>2. PICK c : IsPickTable(patch, content, c)
  BY PickTable DEF IsPatch, IsList
<1>3. PICK h : IsPickTable(patch, header, h)
  BY PickTable DEF IsPatch, IsList
<1>4. n \in Nat /\ DOMAIN patch = 1..n /\ \A i \in 1..n : patch[i] \in R
  BY DEF IsPatch
<1>5. /\ \A i \in 0..n : t[i] \in ParseState(R) /\ c[i] \in Seq(R) /\ h[i] \in Seq(R)
      /\ t[0] = Start /\ c[0] = <<>> /\ h[0] = <<>>
      /\ through = t[n] /\ Contents(patch) = c[n] /\ Headers(patch) = h[n]
  BY <1>1, <1>2, <1>3 DEF IsParse, IsPickTable, Contents, Headers
<1>6. \A i \in 1..n : /\ t[i] = ReadLine(t[i - 1], patch[i])
                      /\ c[i] = IF patch[i] \in content THEN Append(c[i - 1], patch[i]) ELSE c[i - 1]
                      /\ h[i] = IF patch[i] \in header THEN Append(h[i - 1], patch[i]) ELSE h[i - 1]
  BY <1>1, <1>2, <1>3 DEF IsParse, IsPickTable
<1>7. \A i \in 1..n : patch[i].is \in Content \cup {"header", "long", "no_newline", "other"}
  BY <1>4 DEF IsPatch
<1>8. \A i \in 1..n : /\ patch[i] \in content <=> patch[i].is \in Content
                      /\ patch[i] \in header <=> patch[i].is = "header"
  BY <1>4
<1> HIDE DEF R, n, content, header, through
<1> DEFINE Good == {i \in 0..n : t[i].error = None => ParsedSoFar(t[i], c[i], h[i])}
<1>9. 0 \in Good
  <2>1. HeadersOf(<<>>) = <<>>
    BY DEF HeadersOf
  <2>2. <<>> \o <<>> = <<>>
    BY ConcatEmptySeq, EmptySeq
  <2>3. Len(<<>>) <= 1 /\ DOMAIN <<>> = {}
    BY EmptySeq
  <2>4. ParsedSoFar(Start, <<>>, <<>>)
    BY <2>1, <2>2, <2>3, LinesOfEmpty DEF Start, ParsedSoFar
  <2> QED BY <1>4, <1>5, <2>4
<1>10. ASSUME NEW i \in 1..n, i - 1 \in Good PROVE i \in Good
  <2>1. SUFFICES ASSUME t[i].error = None PROVE ParsedSoFar(t[i], c[i], h[i])
    BY <1>4
  <2>2. i - 1 \in 0..n
    BY <1>4
  <2>3. t[i - 1].error = None
    BY <1>6, <2>1 DEF ReadLine
  <2>4. ParsedSoFar(t[i - 1], c[i - 1], h[i - 1])
    BY <1>10, <2>3
  <2>5. ParsedSoFar(ReadLine(t[i - 1], patch[i]),
                    IF patch[i].is \in Content THEN Append(c[i - 1], patch[i]) ELSE c[i - 1],
                    IF patch[i].is = "header" THEN Append(h[i - 1], patch[i]) ELSE h[i - 1])
    <3>1. /\ t[i - 1] \in ParseState(R) /\ c[i - 1] \in Seq(R) /\ h[i - 1] \in Seq(R) /\ patch[i] \in R
          /\ ReadLine(t[i - 1], patch[i]).error = None
      BY <1>4, <1>5, <1>6, <2>1, <2>2
    <3> QED BY <1>7, <2>4, <3>1, ReadIsSoFar
  <2> QED BY <1>6, <1>8, <2>5
<1>11. \A i \in 0..n : i \in Good
  <2> HIDE DEF Good
  <2> QED BY <1>4, <1>9, <1>10, UpTo
<1>12. n \in Good
  BY <1>4, <1>11
<1> HIDE DEF ended
<1>13. /\ ended.error = None /\ ParsePatch(patch) = ended
  <2>1. "incomplete_result" # None /\ "invalid_response" # None
    BY NoneAssumption DEF ParseErrors
  <2>2. ended \in ParseState(R)
    <3>1. through \in ParseState(R)
      BY <1>4, <1>5
    <3> QED BY <3>1, FinishTyped DEF ended
  <2>3. \A s \in {Start, ended} : \A error : Stop(s, error).error = error
    BY <2>2 DEF Stop, Start, ParseState
  <2>4. ParsePatch(patch) = IF Len(patch) > MaxPatch THEN Stop(Start, "incomplete_result")
                            ELSE IF patch = <<>> THEN Stop(Start, "invalid_response")
                            ELSE IF ended.error # None THEN ended
                            ELSE IF ended.hunks = <<>> THEN Stop(ended, "invalid_response")
                            ELSE ended
    BY DEF ParsePatch, ended, through
  <2> QED BY <2>1, <2>3, <2>4
<1>14. through.error = None /\ ended = FinishHunk(through)
  BY <1>13 DEF ended
<1>15. ParsedSoFar(t[n], c[n], h[n]) /\ t[n] \in ParseState(R)
  BY <1>4, <1>5, <1>12, <1>14
<1>16. ParsedWhole(FinishHunk(t[n]), c[n], h[n])
  BY <1>5, <1>13, <1>14, <1>15, FinishIsWhole
<1> QED BY <1>5, <1>13, <1>14, <1>16 DEF PatchIsWhole, ParsedWhole

(* What is picked is a run of the list, if that is where all of it stands. *)
IsRun(list, wanted, a, b) ==
  /\ a \in Nat /\ b \in Nat /\ a <= b /\ b <= Len(list)
  /\ \A i \in DOMAIN list : list[i] \in wanted <=> (a < i /\ i <= b)
RunIsPicked(list, wanted, a, b) ==
  /\ Picked(list, wanted) \in Seq(Range(list)) /\ Len(Picked(list, wanted)) = b - a
  /\ \A k \in 1..(b - a) : Picked(list, wanted)[k] = list[a + k]

LEMMA PickedRun ==
  ASSUME NEW list, IsList(list), NEW wanted, NEW a, NEW b, IsRun(list, wanted, a, b)
  PROVE  RunIsPicked(list, wanted, a, b)
<1> DEFINE R == Range(list)
           n == Len(list)
           Taken(i) == IF i <= a THEN 0 ELSE IF i <= b THEN i - a ELSE b - a
<1>1. PICK t : IsPickTable(list, wanted, t)
  BY PickTable
<1>2. /\ n \in Nat /\ DOMAIN list = 1..n /\ \A i \in 1..n : list[i] \in R
  BY DEF IsList
<1>3. \A i \in 0..n : t[i] \in Seq(R)
  BY <1>1 DEF IsPickTable
<1>4. \A i \in 1..n : t[i] = IF a < i /\ i <= b THEN Append(t[i - 1], list[i]) ELSE t[i - 1]
  BY <1>1, <1>2 DEF IsPickTable, IsRun
<1>5. t[0] = <<>> /\ Picked(list, wanted) = t[n]
  BY <1>1 DEF IsPickTable
<1>b. a \in Nat /\ b \in Nat /\ a <= b /\ b <= n
  BY DEF IsRun
<1> USE <1>b
<1> HIDE DEF R, n
<1> DEFINE Good == {i \in 0..n : Len(t[i]) = Taken(i) /\ \A k \in 1..Taken(i) : t[i][k] = list[a + k]}
<1>6. 0 \in Good
  BY <1>2, <1>5
<1>7. ASSUME NEW i \in 1..n, i - 1 \in Good PROVE i \in Good
  <2> DEFINE old == t[i - 1]
             new == t[i]
  <2>1. i - 1 \in 0..n /\ i \in 0..n
    BY <1>2
  <2>2. old \in Seq(R) /\ Len(old) = Taken(i - 1) /\ \A k \in 1..Taken(i - 1) : old[k] = list[a + k]
    BY <1>3, <1>7, <2>1
  <2>3. CASE a < i /\ i <= b
    <3>1. new = Append(old, list[i])
      BY <1>4, <2>3
    <3>2. list[i] \in R
      BY <1>2
    <3>3. Taken(i - 1) = i - 1 - a /\ Taken(i) = i - a
      BY <1>2, <2>3
    <3> HIDE DEF old, new, Taken
    <3>4. Len(old) = i - 1 - a /\ i - 1 - a \in Nat
      BY <1>2, <2>2, <2>3, <3>3
    <3>5. Len(new) = i - a
      BY <1>2, <2>2, <3>1, <3>2, <3>4
    <3>6. ASSUME NEW k \in 1..(i - a) PROVE new[k] = list[a + k]
      <4>1. CASE k = i - a
        <5>1. new[k] = list[i] /\ a + k = i
          BY <1>2, <2>2, <3>1, <3>2, <3>4, <4>1
        <5> QED BY <5>1
      <4>2. CASE k # i - a
        <5>1. k \in 1..(i - 1 - a)
          BY <1>2, <4>2
        <5>2. new[k] = old[k]
          BY <2>2, <3>1, <3>2, <3>4, <5>1
        <5> QED BY <2>2, <3>3, <5>1, <5>2
      <4> QED BY <4>1, <4>2
    <3> QED BY <2>1, <3>3, <3>5, <3>6 DEF new
  <2>4. CASE ~(a < i /\ i <= b)
    <3>1. new = old /\ Taken(i) = Taken(i - 1)
      BY <1>2, <1>4, <2>4
    <3> HIDE DEF old, Taken
    <3> QED BY <2>1, <2>2, <3>1
  <2> QED BY <2>3, <2>4
<1>8. \A i \in 0..n : i \in Good
  <2> HIDE DEF Good
  <2> QED BY <1>2, <1>6, <1>7, UpTo
<1>9. Taken(n) = b - a
  <2>1. n <= a => n = a /\ n = b
    BY <1>2, <1>b
  <2>2. a - a = 0 /\ (~(n <= b) => b - a = b - a)
    BY <1>b
  <2>3. n <= b => n = b
    BY <1>2, <1>b
  <2> QED BY <2>1, <2>2, <2>3
<1>10. n \in 0..n
  BY <1>2
<1> HIDE DEF Taken
<1>11. Len(t[n]) = b - a /\ \A k \in 1..(b - a) : t[n][k] = list[a + k]
  BY <1>8, <1>9, <1>10
<1> QED BY <1>3, <1>5, <1>10, <1>11 DEF R, RunIsPicked

-----------------------------------------------------------------------------
(* items are the parts part[1] to part[n], one after the other: part q ends *)
(* at off[q].                                                              *)
Laid(n, part, off, items) ==
  /\ off \in [0..n -> Nat] /\ off[0] = 0 /\ Len(items) = off[n]
  /\ \A q \in 1..n :
       /\ off[q] = off[q - 1] + Len(part[q]) /\ off[q] <= off[n]
       /\ \A k \in 1..Len(part[q]) : items[off[q - 1] + k] = part[q][k]

(* A place counted from another one.                                       *)
LEMMA PlacesBeyond ==
  \A x, y \in Nat : \A k \in 1..y :
    /\ x + k \in 1..(x + y) /\ ~(x + k <= x) /\ (x + k) - x = k
    /\ \A z \in Nat : x + y <= z => x + k \in 1..z
OBVIOUS

(* They are, if every part was put at the end.                             *)
LEMMA PartsAreLaid ==
  ASSUME NEW I, NEW n \in Nat, NEW part \in [1..n -> Seq(I)], NEW t \in [0..n -> Seq(I)],
         t[0] = <<>>, \A q \in 1..n : t[q] = t[q - 1] \o part[q]
  PROVE  Laid(n, part, [q \in 0..n |-> Len(t[q])], t[n])
<1> DEFINE off == [q \in 0..n |-> Len(t[q])]
           At(items, q) == /\ off[q] <= Len(items)
                           /\ \A k \in 1..Len(part[q]) : items[off[q - 1] + k] = part[q][k]
           Good == {m \in 0..n : \A q \in 1..m : At(t[m], q)}
<1>1. /\ off \in [0..n -> Nat] /\ off[0] = 0 /\ Len(t[n]) = off[n]
      /\ \A q \in 0..n : off[q] = Len(t[q])
  <2>1. \A q \in 0..n : t[q] \in Seq(I)
    OBVIOUS
  <2>2. \A q \in 0..n : Len(t[q]) \in Nat
    BY <2>1
  <2>3. 0 \in 0..n /\ n \in 0..n
    OBVIOUS
  <2> QED BY <2>2, <2>3, EmptySeq
<1>2. ASSUME NEW q \in 1..n
      PROVE  /\ q - 1 \in 0..n /\ q \in 0..n /\ t[q - 1] \in Seq(I) /\ part[q] \in Seq(I)
             /\ off[q] = off[q - 1] + Len(part[q]) /\ Len(part[q]) \in Nat
             /\ \A i \in 1..off[q - 1] : t[q][i] = t[q - 1][i]
             /\ \A k \in 1..Len(part[q]) : t[q][off[q - 1] + k] = part[q][k]
  <2>1. q - 1 \in 0..n /\ q \in 0..n
    OBVIOUS
  <2>2. t[q - 1] \in Seq(I) /\ part[q] \in Seq(I) /\ t[q] = t[q - 1] \o part[q]
    BY <2>1
  <2> DEFINE a == t[q - 1]
             b == part[q]
  <2>3. a \in Seq(I) /\ b \in Seq(I) /\ t[q] = a \o b /\ off[q - 1] = Len(a) /\ off[q] = Len(t[q])
    BY <1>1, <2>1, <2>2
  <2> HIDE DEF a, b, off
  <2>4. /\ Len(a \o b) = Len(a) + Len(b) /\ Len(a) \in Nat /\ Len(b) \in Nat
        /\ \A i \in 1..Len(a) : (a \o b)[i] = a[i]
        /\ \A k \in 1..Len(b) : (a \o b)[Len(a) + k] = b[k]
    <3>1. Len(a) \in Nat /\ Len(b) \in Nat
      BY <2>3, LenProperties
    <3>2. /\ Len(a \o b) = Len(a) + Len(b)
          /\ \A i \in 1..Len(a) + Len(b) : (a \o b)[i] = IF i <= Len(a) THEN a[i] ELSE b[i - Len(a)]
      BY <2>3, ConcatProperties
    <3>3. \A k \in 1..Len(b) : /\ Len(a) + k \in 1..Len(a) + Len(b) /\ ~(Len(a) + k <= Len(a))
                               /\ (Len(a) + k) - Len(a) = k
      BY <3>1, PlacesBeyond
    <3>4. \A i \in 1..Len(a) : i \in 1..Len(a) + Len(b) /\ i <= Len(a)
      BY <3>1
    <3> QED BY <3>1, <3>2, <3>3, <3>4
  <2> QED BY <2>1, <2>2, <2>3, <2>4 DEF a, b
<1> HIDE DEF off
<1>3. 0 \in Good
  OBVIOUS
<1>4. ASSUME NEW m \in 1..n, m - 1 \in Good PROVE m \in Good
  <2>1. m \in 0..n /\ off[m] = Len(t[m]) /\ off[m - 1] = Len(t[m - 1]) /\ off[m - 1] \in Nat
    BY <1>1, <1>2
  <2>2. SUFFICES ASSUME NEW q \in 1..m PROVE At(t[m], q)
    BY <2>1
  <2>3. CASE q = m
    <3>1. off[m] <= Len(t[m])
      BY <1>1, <2>1
    <3> QED BY <1>2, <2>3, <3>1
  <2>4. CASE q # m
    <3>1. q \in 1..(m - 1) /\ q \in 1..n
      BY <2>4
    <3>2. At(t[m - 1], q)
      BY <1>4, <3>1
    <3>3. /\ off[q] = off[q - 1] + Len(part[q]) /\ Len(part[q]) \in Nat /\ off[q - 1] \in Nat
          /\ off[q] \in Nat
      BY <1>1, <1>2, <3>1
    <3>4. ASSUME NEW k \in 1..Len(part[q]) PROVE t[m][off[q - 1] + k] = part[q][k]
      <4>1. off[q - 1] + k \in 1..off[m - 1]
        <5>1. off[q] <= off[m - 1]
          BY <2>1, <3>2
        <5>2. off[q - 1] + Len(part[q]) <= off[m - 1]
          BY <3>3, <5>1
        <5> QED BY <2>1, <3>3, <5>2, PlacesBeyond
      <4> QED BY <1>2, <3>2, <4>1
    <3>5. off[q] <= Len(t[m])
      <4>1. off[m] = off[m - 1] + Len(part[m]) /\ Len(part[m]) \in Nat
        BY <1>2
      <4> QED BY <2>1, <3>2, <3>3, <4>1
    <3> QED BY <3>4, <3>5
  <2> QED BY <2>3, <2>4
<1>5. \A m \in 0..n : m \in Good
  <2> HIDE DEF Good
  <2> QED BY <1>3, <1>4, UpTo
<1>6. n \in Good
  <2>1. n \in 0..n
    OBVIOUS
  <2> QED BY <1>5, <2>1
<1> QED BY <1>1, <1>2, <1>6 DEF Laid, off

(* Every place is in one of the parts.                                     *)
LEMMA EveryPlaceIsLaid ==
  ASSUME NEW n \in Nat, NEW part, NEW off, NEW items, Laid(n, part, off, items)
  PROVE  \A i \in 1..off[n] : \E q \in 1..n : \E k \in 1..(off[q] - off[q - 1]) : i = off[q - 1] + k
<1> DEFINE Good == {m \in 0..n : \A i \in 1..off[m] : \E q \in 1..n :
                      \E k \in 1..(off[q] - off[q - 1]) : i = off[q - 1] + k}
<1>1. off \in [0..n -> Nat] /\ off[0] = 0
  BY DEF Laid
<1>2. 0 \in Good
  BY <1>1
<1>3. ASSUME NEW m \in 1..n, m - 1 \in Good PROVE m \in Good
  <2>1. m \in 0..n /\ m - 1 \in 0..n
    OBVIOUS
  <2>2. off[m] \in Nat /\ off[m - 1] \in Nat
    BY <1>1, <2>1
  <2>3. SUFFICES ASSUME NEW i \in 1..off[m]
                 PROVE  \E q \in 1..n : \E k \in 1..(off[q] - off[q - 1]) : i = off[q - 1] + k
    BY <2>1
  <2>4. CASE i <= off[m - 1]
    <3>1. i \in 1..off[m - 1]
      BY <2>2, <2>4
    <3> QED BY <1>3, <3>1
  <2>5. CASE i > off[m - 1]
    <3>1. i - off[m - 1] \in 1..(off[m] - off[m - 1]) /\ i = off[m - 1] + (i - off[m - 1])
      BY <2>2, <2>5
    <3> QED BY <3>1
  <2> QED BY <2>2, <2>4, <2>5
<1>4. \A m \in 0..n : m \in Good
  <2> HIDE DEF Good
  <2> QED BY <1>2, <1>3, UpTo
<1>5. n \in Good
  BY <1>4
<1> QED BY <1>5

-----------------------------------------------------------------------------
(* Files.  What was normalised is laid out file by file.                   *)

(* What the normalisation makes of one file: an item for it, and one for   *)
(* every hunk of its patch.                                                *)
HunksFrom(file) == IF file.patch = None THEN <<>> ELSE ParsePatch(file.patch).hunks
Part(of, file) == <<FileItem(of, file)>> \o HunkItems(of, file, HunksFrom(file))
PartItems(of, file) == {FileItem(of, file)} \cup Range(HunkItems(of, file, HunksFrom(file)))
Readable(file) == file.patch = None \/ IsPatch(file.patch)

Normalizing(I) == [error : ParseErrors \cup {None}, items : Seq(I)]

(* Its entries.                                                            *)
LEMMA PartEntries ==
  ASSUME NEW of, NEW file, Readable(file)
  PROVE  /\ Part(of, file) \in Seq(PartItems(of, file))
         /\ HunkItems(of, file, HunksFrom(file)) \in Seq(PartItems(of, file))
         /\ Len(Part(of, file)) = 1 + Len(HunksFrom(file)) /\ Len(HunksFrom(file)) \in Nat
         /\ DOMAIN HunksFrom(file) = 1..Len(HunksFrom(file))
         /\ Part(of, file)[1] = FileItem(of, file)
         /\ \A k \in 1..Len(HunksFrom(file)) :
              Part(of, file)[1 + k] = Item(of \o <<"hunk", file.path, k>>, HunksFrom(file)[k])
<1> DEFINE hunks == HunksFrom(file)
           items == HunkItems(of, file, hunks)
           I == PartItems(of, file)
           x == FileItem(of, file)
<1>1. \E S : hunks \in Seq(S)
  <2>1. CASE file.patch = None
    BY <2>1 DEF HunksFrom
  <2>2. CASE file.patch # None
    <3>1. ParsePatch(file.patch) \in ParseState(Range(file.patch))
      BY <2>2, ParseTyped DEF Readable
    <3>2. ParsePatch(file.patch).hunks \in Seq(Hunk(Range(file.patch)))
      BY <3>1 DEF ParseState
    <3> QED BY <2>2, <3>2 DEF HunksFrom
  <2> QED BY <2>1, <2>2
<1>2. Len(hunks) \in Nat /\ DOMAIN hunks = 1..Len(hunks)
  BY <1>1
<1> HIDE DEF hunks
<1>3. /\ DOMAIN items = 1..Len(hunks)
      /\ \A k \in 1..Len(hunks) : items[k] = Item(of \o <<"hunk", file.path, k>>, hunks[k])
      /\ items = [k \in 1..Len(hunks) |-> items[k]]
  BY <1>2 DEF HunkItems
<1>4. x \in I /\ \A k \in 1..Len(hunks) : items[k] \in I
  BY <1>3 DEF PartItems, Range, hunks
<1> HIDE DEF items, I, x
<1>5. items \in Seq(I) /\ Len(items) = Len(hunks)
  BY <1>2, <1>3, <1>4
<1> DEFINE p == <<x>> \o items
<1>6. <<x>> \in Seq(I) /\ Len(<<x>>) = 1 /\ <<x>>[1] = x
  BY <1>4
<1>7. /\ p \in Seq(I) /\ Len(p) = 1 + Len(items) /\ p[1] = x
      /\ \A k \in 1..Len(items) : p[1 + k] = items[k]
  BY <1>2, <1>5, <1>6
<1>8. p = Part(of, file)
  BY DEF Part, x, items, hunks
<1> HIDE DEF p
<1> QED BY <1>2, <1>3, <1>5, <1>7, <1>8 DEF x, items, hunks, I

(* One more file, or the error that ends the call.                         *)
Takes(of, state, file) ==
  LET next == NormalizeFile(of, state, file) IN
  next.error = None => /\ state.error = None /\ next.items = state.items \o Part(of, file)
                       /\ file.patch # None => ParsePatch(file.patch).error = None

LEMMA NormalizeTakes ==
  ASSUME NEW I, NEW of, NEW state \in Normalizing(I), NEW file, Readable(file),
         PartItems(of, file) \subseteq I
  PROVE  NormalizeFile(of, state, file) \in Normalizing(I) /\ Takes(of, state, file)
<1> DEFINE parsed == ParsePatch(file.patch)
           x == FileItem(of, file)
           hs == HunkItems(of, file, HunksFrom(file))
           next == NormalizeFile(of, state, file)
<1>1. /\ state.items \in Seq(I) /\ state.error \in ParseErrors \cup {None}
      /\ DOMAIN state = {"error", "items"}
  BY DEF Normalizing
<1>2. x \in I /\ hs \in Seq(I) /\ <<x>> \in Seq(I)
  <2>1. x \in PartItems(of, file)
    BY DEF PartItems
  <2>2. hs \in Seq(PartItems(of, file))
    BY PartEntries
  <2> HIDE DEF x, hs
  <2> QED BY <2>1, <2>2
<1>3. Part(of, file) = <<x>> \o hs
  BY DEF Part
<1>4. file.patch # None => parsed.error \in ParseErrors \cup {None} /\ hs = HunkItems(of, file, parsed.hunks)
  BY ParseTyped DEF Readable, ParseState, HunksFrom
<1>5. file.patch = None => hs = <<>>
  BY DEF HunksFrom, HunkItems
<1>6. \A error \in ParseErrors : [state EXCEPT !.error = error] \in Normalizing(I)
                                 /\ [state EXCEPT !.error = error].error = error
  BY <1>1 DEF Normalizing
<1>7. \A items \in Seq(I) : /\ [state EXCEPT !.items = items] \in Normalizing(I)
                            /\ [state EXCEPT !.items = items].items = items
                            /\ [state EXCEPT !.items = items].error = state.error
  BY <1>1 DEF Normalizing
<1>8. "invalid_response" \in ParseErrors /\ None \notin ParseErrors
  BY NoneAssumption DEF ParseErrors
<1> DEFINE one == Append(state.items, x)
           all == (state.items \o <<x>>) \o hs
<1>9. one \in Seq(I) /\ all \in Seq(I)
  <2> HIDE DEF x, hs
  <2> QED BY <1>1, <1>2
<1>10. all = state.items \o Part(of, file)
  <2> DEFINE items == state.items
             l == <<x>>
  <2>1. items \in Seq(I) /\ l \in Seq(I) /\ hs \in Seq(I)
    BY <1>1, <1>2
  <2>2. Part(of, file) = l \o hs
    BY <1>3
  <2> HIDE DEF items, l, hs, x
  <2>3. (items \o l) \o hs = items \o (l \o hs)
    BY <2>1, ConcatAssociative
  <2> QED BY <2>2, <2>3 DEF items, l
<1>11. file.patch = None => one = state.items \o Part(of, file)
  <2> DEFINE items == state.items
             l == <<x>>
  <2>1. items \in Seq(I) /\ l \in Seq(I) /\ x \in I
    BY <1>1, <1>2
  <2>2. Part(of, file) = l \o hs
    BY <1>3
  <2> HIDE DEF hs, x
  <2>3. one = items \o l
    BY <2>1, AppendIsConcat
  <2> HIDE DEF l, one
  <2>4. l \o <<>> = l
    BY <2>1, ConcatEmptySeq
  <2> QED BY <1>5, <2>2, <2>3, <2>4
<1>12. next = IF state.error # None THEN state
              ELSE IF file.status \notin ChangeTypes \/ ~file.sound
                   THEN [state EXCEPT !.error = "invalid_response"]
              ELSE IF file.patch = None THEN [state EXCEPT !.items = one]
              ELSE IF parsed.error # None THEN [state EXCEPT !.error = parsed.error]
              ELSE [state EXCEPT !.items = all]
  <2>1. ASSUME file.patch # None PROVE HunkItems(of, file, parsed.hunks) = hs
    BY <1>4, <2>1
  <2> HIDE DEF hs, x
  <2> QED BY <2>1 DEF NormalizeFile, x
<1> HIDE DEF next, parsed, x, hs, one, all
<1>13. next \in Normalizing(I)
  BY <1>4, <1>6, <1>7, <1>8, <1>9, <1>12
<1>14. next.error = None => /\ state.error = None /\ next.items = state.items \o Part(of, file)
                            /\ file.patch # None => parsed.error = None
  BY <1>4, <1>6, <1>7, <1>8, <1>9, <1>10, <1>11, <1>12
<1> QED BY <1>13, <1>14 DEF Takes, next, parsed

AllItems(of, files) == UNION {PartItems(of, files[i]) : i \in DOMAIN files}

(* The normalisation, file by file.                                        *)
IsNormalizing(of, files, t) ==
  /\ t \in [0..Len(files) -> Normalizing(AllItems(of, files))] /\ t[0] = [error |-> None, items |-> <<>>]
  /\ NormalizeFiles(of, files) = t[Len(files)]
  /\ \A i \in 1..Len(files) : t[i] = NormalizeFile(of, t[i - 1], files[i])

(* It exists for every listing.                                            *)
LEMMA NormalizingTable ==
  ASSUME NEW of, NEW files, IsListing(files)
  PROVE  \E t : IsNormalizing(of, files, t)
<1> DEFINE I == AllItems(of, files)
           T == Normalizing(I)
           First == [error |-> None, items |-> <<>>]
           Step(state, file) == NormalizeFile(of, state, file)
<1>r. \A i \in DOMAIN files : /\ Readable(files[i]) /\ PartItems(of, files[i]) \subseteq I
                              /\ \A t \in T : Step(t, files[i]) \in T
  <2>1. SUFFICES ASSUME NEW i \in DOMAIN files
                 PROVE  /\ Readable(files[i]) /\ PartItems(of, files[i]) \subseteq I
                        /\ \A t \in T : Step(t, files[i]) \in T
    OBVIOUS
  <2>2. Readable(files[i]) /\ PartItems(of, files[i]) \subseteq I
    BY DEF IsListing, Readable, AllItems
  <2> QED BY <2>2, NormalizeTakes
<1>s. First \in T
  <2>1. <<>> \in Seq(I)
    OBVIOUS
  <2> QED BY <2>1 DEF Normalizing
<1> DEFINE n == Len(files)
           g == [i \in 1..n |-> [t \in T |-> Step(t, files[i])]]
           fold == CHOOSE h : h = [s \in SUBSET (1..n) |->
                     IF s = {} THEN First ELSE Step(h[s \ {Top(s)}], files[Top(s)])]
<1>1. n \in Nat /\ DOMAIN files = 1..n
  BY DEF IsListing, IsList
<1>2. NormalizeFiles(of, files) = fold[1..n]
  BY <1>1 DEF NormalizeFiles, FoldLeft, MapThenFoldSet, Top, Max
<1>3. /\ First \in T
      /\ \A i \in 1..n : \A t \in T : g[i][t] = Step(t, files[i]) /\ g[i][t] \in T
  BY <1>1, <1>r, <1>s
<1> SUFFICES \E t : /\ t \in [0..n -> T] /\ t[0] = First /\ NormalizeFiles(of, files) = t[n]
                    /\ \A i \in 1..n : t[i] = Step(t[i - 1], files[i])
  BY DEF IsNormalizing
<1> HIDE DEF n, T, Step, g, First
<1>4. \A i \in 1..n : \A t \in T : g[i][t] \in T
  BY <1>3
<1>5. \A s \in SUBSET (1..n) : s # {} => Top(s) \in 1..n /\ s \ {Top(s)} \in SUBSET (1..n)
  BY <1>1, TopMember
<1>6. PICK h : IsFold(n, T, First, g, h)
  BY <1>1, <1>3, <1>4, FoldExists
<1>7. h = [s \in SUBSET (1..n) |-> IF s = {} THEN First ELSE Step(h[s \ {Top(s)}], files[Top(s)])]
  BY <1>3, <1>5, <1>6 DEF IsFold, Folded
<1>8. fold = [s \in SUBSET (1..n) |-> IF s = {} THEN First ELSE Step(fold[s \ {Top(s)}], files[Top(s)])]
  BY <1>7
<1> HIDE DEF fold
<1>9. Solved(n, T, First, g, fold)
  BY <1>3, <1>5, <1>8 DEF Solved
<1>10. PICK t : IsTable(n, T, First, g, fold, t)
  BY <1>1, <1>3, <1>4, <1>9, FoldTable
<1>11. \A i \in 1..n : t[i] = Step(t[i - 1], files[i])
  <2>1. \A i \in 1..n : t[i - 1] \in T
    BY <1>1, <1>10 DEF IsTable
  <2> QED BY <1>3, <1>10, <2>1 DEF IsTable
<1> QED BY <1>2, <1>10, <1>11 DEF IsTable

(* Files that were normalised without an error are laid one after the      *)
(* other, and every patch was read to its end.                             *)
IsLaid(of, files, items) ==
  \E off : Laid(Len(files), [q \in 1..Len(files) |-> Part(of, files[q])], off, items)
AreParsed(files) == \A q \in DOMAIN files : files[q].patch # None => ParsePatch(files[q].patch).error = None

LEMMA NormalizedIsLaid ==
  ASSUME NEW of, NEW files, IsListing(files), NEW items, Normalized(of, files, items)
  PROVE  IsLaid(of, files, items) /\ AreParsed(files) /\ items \in Seq(AllItems(of, files))
<1> DEFINE n == Len(files)
           I == AllItems(of, files)
           part == [q \in 1..n |-> Part(of, files[q])]
<1>1. n \in Nat /\ DOMAIN files = 1..n
  BY DEF IsListing, IsList
<1>2. PICK t : IsNormalizing(of, files, t)
  BY NormalizingTable
<1>3. /\ \A i \in 0..n : t[i] \in Normalizing(I)
      /\ t[0] = [error |-> None, items |-> <<>>] /\ NormalizeFiles(of, files) = t[n]
      /\ \A i \in 1..n : t[i] = NormalizeFile(of, t[i - 1], files[i])
  BY <1>2 DEF IsNormalizing
<1>4. t[n].error = None /\ items = t[n].items
  BY <1>3 DEF Normalized
<1>5. \A q \in 1..n : Takes(of, t[q - 1], files[q])
  <2>1. SUFFICES ASSUME NEW q \in 1..n PROVE Takes(of, t[q - 1], files[q])
    OBVIOUS
  <2>2. t[q - 1] \in Normalizing(I)
    BY <1>1, <1>3
  <2>3. Readable(files[q]) /\ PartItems(of, files[q]) \subseteq I
    BY <1>1 DEF IsListing, Readable, AllItems
  <2> QED BY <2>2, <2>3, NormalizeTakes
<1>6. \A q \in 1..n : Part(of, files[q]) \in Seq(I)
  <2>1. SUFFICES ASSUME NEW q \in 1..n PROVE Part(of, files[q]) \in Seq(I)
    OBVIOUS
  <2>2. Readable(files[q]) /\ PartItems(of, files[q]) \subseteq I
    BY <1>1 DEF IsListing, Readable, AllItems
  <2>3. Part(of, files[q]) \in Seq(PartItems(of, files[q]))
    BY <2>2, PartEntries
  <2> QED BY <2>2, <2>3
<1> HIDE DEF n, I
<1> DEFINE Clean == {i \in 0..n : t[n - i].error = None}
<1>7. 0 \in Clean
  BY <1>1, <1>4
<1>8. ASSUME NEW i \in 1..n, i - 1 \in Clean PROVE i \in Clean
  <2>1. n - (i - 1) \in 1..n /\ (n - (i - 1)) - 1 = n - i /\ i \in 0..n
    BY <1>1
  <2>2. t[n - (i - 1)].error = None
    BY <1>8
  <2> DEFINE q == n - (i - 1)
  <2>3. q \in 1..n /\ t[q].error = None /\ t[q - 1] = t[n - i]
    BY <2>1, <2>2
  <2> HIDE DEF q
  <2>4. t[q - 1].error = None
    BY <1>3, <1>5, <2>3 DEF Takes
  <2> QED BY <2>1, <2>3, <2>4
<1>9. \A i \in 0..n : i \in Clean
  <2> HIDE DEF Clean
  <2> QED BY <1>1, <1>7, <1>8, UpTo
<1>10. \A q \in 0..n : t[q].error = None
  <2>1. SUFFICES ASSUME NEW q \in 0..n PROVE t[q].error = None
    OBVIOUS
  <2>2. n - q \in 0..n /\ n - (n - q) = q
    BY <1>1
  <2> QED BY <1>9, <2>2
<1>11. \A q \in 1..n : /\ t[q].items = t[q - 1].items \o part[q]
                       /\ files[q].patch # None => ParsePatch(files[q].patch).error = None
  <2>1. SUFFICES ASSUME NEW q \in 1..n
                 PROVE  /\ t[q].items = t[q - 1].items \o Part(of, files[q])
                        /\ files[q].patch # None => ParsePatch(files[q].patch).error = None
    OBVIOUS
  <2>2. t[q].error = None
    BY <1>1, <1>10
  <2> QED BY <1>3, <1>5, <2>2 DEF Takes
<1> DEFINE u == [q \in 0..n |-> t[q].items]
<1>12. part \in [1..n -> Seq(I)] /\ u \in [0..n -> Seq(I)]
  <2>1. \A q \in 0..n : t[q].items \in Seq(I)
    BY <1>3 DEF Normalizing
  <2> QED BY <1>6, <2>1
<1>13. u[0] = <<>> /\ u[n] = items /\ \A q \in 1..n : u[q] = u[q - 1] \o part[q]
  <2>1. 0 \in 0..n /\ n \in 0..n /\ \A q \in 1..n : q \in 0..n /\ q - 1 \in 0..n
    BY <1>1
  <2> HIDE DEF part
  <2>2. \A q \in 0..n : u[q] = t[q].items
    OBVIOUS
  <2>3. t[0].items = <<>>
    BY <1>3
  <2> HIDE DEF u
  <2>4. u[0] = <<>> /\ u[n] = items
    BY <1>4, <2>1, <2>2, <2>3
  <2>5. \A q \in 1..n : u[q] = u[q - 1] \o part[q]
    BY <1>11, <2>1, <2>2
  <2> QED BY <2>4, <2>5
<1>14. items \in Seq(I)
  <2>1. n \in 0..n
    BY <1>1
  <2> HIDE DEF u
  <2> QED BY <1>12, <1>13, <2>1
<1>15. \E off : Laid(n, part, off, items)
  <2> HIDE DEF u, part
  <2>1. Laid(n, part, [q \in 0..n |-> Len(u[q])], u[n])
    BY <1>1, <1>12, <1>13, PartsAreLaid
  <2> QED BY <1>13, <2>1
<1> QED BY <1>1, <1>11, <1>14, <1>15 DEF IsLaid, AreParsed, n, I

(* Identifiers begin with what was read; their third part is the path.     *)
IsReading(of) == of = <<"pull">> \/ of = <<"commit">>

NamesPath(id, size, path) == Len(id) = size /\ id[3] = path

(* The identifier of a file.                                               *)
LEMMA FileId ==
  ASSUME NEW of, IsReading(of), NEW path
  PROVE  NamesPath(of \o <<"file", path>>, 3, path)
<1> DEFINE S == {"pull", "commit", "file", path}
           l == <<"file", path>>
<1>1. of \in Seq(S) /\ Len(of) = 1
  <2>1. CASE of = <<"pull">>
    BY <2>1
  <2>2. CASE of = <<"commit">>
    BY <2>2
  <2> QED BY <2>1, <2>2 DEF IsReading
<1>2. l \in Seq(S) /\ Len(l) = 2 /\ l[2] = path
  OBVIOUS
<1> HIDE DEF S, l
<1>3. /\ Len(of \o l) = Len(of) + Len(l)
      /\ \A i \in 1..(Len(of) + Len(l)) : (of \o l)[i] = IF i <= Len(of) THEN of[i] ELSE l[i - Len(of)]
  BY <1>1, <1>2, ConcatProperties
<1>4. 3 \in 1..(1 + 2) /\ ~(3 <= 1) /\ 3 - 1 = 2 /\ 1 + 2 = 3
  OBVIOUS
<1>5. (of \o l)[3] = l[3 - 1]
  BY <1>1, <1>2, <1>3, <1>4
<1>6. NamesPath(of \o l, 3, path)
  BY <1>1, <1>2, <1>3, <1>4, <1>5 DEF NamesPath
<1> QED BY <1>6 DEF l

(* The identifier of a hunk.                                               *)
LEMMA HunkId ==
  ASSUME NEW of, IsReading(of), NEW path, NEW k
  PROVE  NamesPath(of \o <<"hunk", path, k>>, 4, path)
<1> DEFINE S == {"pull", "commit", "hunk", path, k}
           l == <<"hunk", path, k>>
<1>1. of \in Seq(S) /\ Len(of) = 1
  <2>1. CASE of = <<"pull">>
    BY <2>1
  <2>2. CASE of = <<"commit">>
    BY <2>2
  <2> QED BY <2>1, <2>2 DEF IsReading
<1>2. l \in Seq(S) /\ Len(l) = 3 /\ l[2] = path
  OBVIOUS
<1> HIDE DEF S, l
<1>3. /\ Len(of \o l) = Len(of) + Len(l)
      /\ \A i \in 1..(Len(of) + Len(l)) : (of \o l)[i] = IF i <= Len(of) THEN of[i] ELSE l[i - Len(of)]
  BY <1>1, <1>2, ConcatProperties
<1>4. 3 \in 1..(1 + 3) /\ ~(3 <= 1) /\ 3 - 1 = 2 /\ 1 + 3 = 4
  OBVIOUS
<1>5. (of \o l)[3] = l[3 - 1]
  BY <1>1, <1>2, <1>3, <1>4
<1>6. NamesPath(of \o l, 4, path)
  BY <1>1, <1>2, <1>3, <1>4, <1>5 DEF NamesPath
<1> QED BY <1>6 DEF l

(* Where the items stand: off[q - 1] items are of the files before file q. *)
Size(file) == Len(HunksFrom(file))
Entries(of, files, items, off) ==
  /\ off \in [0..Len(files) -> Nat] /\ Len(items) = off[Len(files)]
  /\ \A q \in 1..Len(files) :
       /\ off[q] = off[q - 1] + (1 + Size(files[q])) /\ off[q] <= Len(items)
       /\ items[off[q - 1] + 1] = FileItem(of, files[q])
       /\ \A k \in 1..Size(files[q]) :
            items[off[q - 1] + (1 + k)] =
              Item(of \o <<"hunk", files[q].path, k>>, HunksFrom(files[q])[k])
  /\ \A i \in 1..Len(items) : \E q \in 1..Len(files) :
       \E k \in 1..(1 + Size(files[q])) : i = off[q - 1] + k

(* Every file has its place.                                               *)
LEMMA LaidEntries ==
  ASSUME NEW of, NEW files, IsListing(files), NEW items, IsLaid(of, files, items)
  PROVE  \E off : Entries(of, files, items, off)
<1> DEFINE n == Len(files)
           part == [q \in 1..n |-> Part(of, files[q])]
<1>1. n \in Nat /\ DOMAIN files = 1..n
  BY DEF IsListing, IsList
<1>2. PICK off : Laid(n, part, off, items)
  BY DEF IsLaid
<1>3. \A q \in 1..n : Readable(files[q])
  BY <1>1 DEF IsListing, Readable
<1>4. ASSUME NEW q \in 1..n
      PROVE  /\ Len(part[q]) = 1 + Size(files[q]) /\ Size(files[q]) \in Nat
             /\ part[q][1] = FileItem(of, files[q])
             /\ \A k \in 1..Size(files[q]) :
                  part[q][1 + k] = Item(of \o <<"hunk", files[q].path, k>>, HunksFrom(files[q])[k])
  <2> DEFINE file == files[q]
  <2>1. part[q] = Part(of, file) /\ Readable(file)
    BY <1>3
  <2> HIDE DEF part, file
  <2> QED BY <2>1, PartEntries DEF Size, file
<1> HIDE DEF n, part
<1>5. /\ off \in [0..n -> Nat] /\ Len(items) = off[n]
      /\ \A q \in 1..n : off[q] = off[q - 1] + Len(part[q]) /\ off[q] <= off[n]
                         /\ \A k \in 1..Len(part[q]) : items[off[q - 1] + k] = part[q][k]
  BY <1>2 DEF Laid
<1>6. ASSUME NEW q \in 1..n
      PROVE  /\ off[q] = off[q - 1] + (1 + Size(files[q])) /\ off[q] <= Len(items)
             /\ items[off[q - 1] + 1] = FileItem(of, files[q])
             /\ \A k \in 1..Size(files[q]) :
                  items[off[q - 1] + (1 + k)] =
                    Item(of \o <<"hunk", files[q].path, k>>, HunksFrom(files[q])[k])
  <2>1. 1 \in 1..Len(part[q]) /\ \A k \in 1..Size(files[q]) : 1 + k \in 1..Len(part[q])
    BY <1>4
  <2> QED BY <1>4, <1>5, <2>1
<1>7. \A i \in 1..Len(items) : \E q \in 1..n : \E k \in 1..(1 + Size(files[q])) : i = off[q - 1] + k
  <2>1. ASSUME NEW i \in 1..off[n]
        PROVE  \E q \in 1..n : \E k \in 1..(1 + Size(files[q])) : i = off[q - 1] + k
    <3>1. PICK q \in 1..n : \E k \in 1..(off[q] - off[q - 1]) : i = off[q - 1] + k
      BY <1>1, <1>2, EveryPlaceIsLaid
    <3>2. off[q - 1] \in Nat /\ off[q] = off[q - 1] + (1 + Size(files[q])) /\ Size(files[q]) \in Nat
      BY <1>1, <1>4, <1>5, <1>6
    <3>3. off[q] - off[q - 1] = 1 + Size(files[q])
      BY <3>2
    <3> QED BY <3>1, <3>3
  <2> QED BY <1>5, <2>1
<1>8. Entries(of, files, items, off)
  BY <1>5, <1>6, <1>7 DEF Entries, n
<1> QED BY <1>8

(* The hunks found for a file are those of its patch.                      *)
LEMMA HunksAreFound ==
  ASSUME NEW of, IsReading(of), NEW files, IsListing(files), NEW items, IsList(items),
         NEW off, Entries(of, files, items, off), NEW q \in DOMAIN files
  PROVE  HunksOf(items, files[q].path) = HunksFrom(files[q])
<1> DEFINE n == Len(files)
           path == files[q].path
           hunks == HunksFrom(files[q])
           wanted == {i \in Range(items) : Len(i.id) = 4 /\ i.id[3] = path}
           a == off[q - 1] + 1
           found == Picked(items, wanted)
<1>1. n \in Nat /\ DOMAIN files = 1..n /\ q \in 1..n
  BY DEF IsListing, IsList
<1>2. Len(items) \in Nat /\ DOMAIN items = 1..Len(items) /\ \A i \in DOMAIN items : items[i] \in Range(items)
  BY DEF IsList
<1>3. \A r \in 1..n : /\ Size(files[r]) \in Nat /\ DOMAIN HunksFrom(files[r]) = 1..Size(files[r])
                      /\ off[r - 1] \in Nat /\ off[r] \in Nat
  <2>1. SUFFICES ASSUME NEW r \in 1..n
                 PROVE  /\ Size(files[r]) \in Nat /\ DOMAIN HunksFrom(files[r]) = 1..Size(files[r])
                        /\ off[r - 1] \in Nat /\ off[r] \in Nat
    OBVIOUS
  <2>2. Readable(files[r])
    BY <1>1 DEF IsListing, Readable
  <2>3. r - 1 \in 0..n /\ r \in 0..n
    BY <1>1
  <2> QED BY <2>2, <2>3, PartEntries DEF Size, Entries
<1>4. \A r \in 1..n :
        /\ off[r] = off[r - 1] + (1 + Size(files[r])) /\ off[r] <= Len(items)
        /\ items[off[r - 1] + 1] = FileItem(of, files[r])
        /\ \A k \in 1..Size(files[r]) :
             items[off[r - 1] + (1 + k)] =
               Item(of \o <<"hunk", files[r].path, k>>, HunksFrom(files[r])[k])
  BY DEF Entries
<1>5. \A r \in 1..n : Len(FileItem(of, files[r]).id) = 3
  <2>1. SUFFICES ASSUME NEW r \in 1..n PROVE Len(FileItem(of, files[r]).id) = 3
    OBVIOUS
  <2> DEFINE id == of \o <<"file", files[r].path>>
  <2>2. NamesPath(id, 3, files[r].path)
    BY FileId
  <2>3. FileItem(of, files[r]).id = id
    BY DEF FileItem, Item
  <2> HIDE DEF id
  <2> QED BY <2>2, <2>3 DEF NamesPath
<1>6. \A r \in 1..n : \A k \in 1..Size(files[r]) :
        /\ Len(items[off[r - 1] + (1 + k)].id) = 4
        /\ items[off[r - 1] + (1 + k)].id[3] = files[r].path
        /\ items[off[r - 1] + (1 + k)].content = HunksFrom(files[r])[k]
  <2>1. SUFFICES ASSUME NEW r \in 1..n, NEW k \in 1..Size(files[r])
                 PROVE  /\ Len(items[off[r - 1] + (1 + k)].id) = 4
                        /\ items[off[r - 1] + (1 + k)].id[3] = files[r].path
                        /\ items[off[r - 1] + (1 + k)].content = HunksFrom(files[r])[k]
    OBVIOUS
  <2> DEFINE id == of \o <<"hunk", files[r].path, k>>
  <2>2. NamesPath(id, 4, files[r].path)
    BY HunkId
  <2>3. items[off[r - 1] + (1 + k)] = Item(id, HunksFrom(files[r])[k])
    BY <1>4
  <2> HIDE DEF id
  <2> QED BY <2>2, <2>3 DEF Item, NamesPath
<1>7. ASSUME NEW i \in DOMAIN items
      PROVE  items[i] \in wanted <=> a < i /\ i <= off[q]
  <2>1. ASSUME items[i] \in wanted PROVE a < i /\ i <= off[q]
    <3>0. PICK r \in 1..n : \E k \in 1..(1 + Size(files[r])) : i = off[r - 1] + k
      BY <1>2 DEF Entries
    <3>1. PICK k \in 1..(1 + Size(files[r])) : i = off[r - 1] + k
      BY <3>0
    <3>2. k # 1
      <4>1. CASE k = 1
        <5>1. items[i] = FileItem(of, files[r])
          BY <1>4, <3>1, <4>1
        <5>2. Len(items[i].id) = 4
          BY <2>1
        <5> DEFINE item == FileItem(of, files[r])
        <5>3. Len(item.id) = 3 /\ items[i] = item
          BY <1>5, <5>1
        <5> HIDE DEF wanted, item
        <5>4. Len(items[i].id) = 3
          BY <5>3
        <5>5. 3 = 4
          BY <5>2, <5>4
        <5> QED BY <5>5
      <4> QED BY <4>1
    <3>3. k - 1 \in 1..Size(files[r]) /\ 1 + (k - 1) = k
      BY <1>3, <3>2
    <3>4. items[i].id[3] = files[r].path
      <4> HIDE DEF wanted
      <4> QED BY <1>6, <3>1, <3>3
    <3>5. r = q
      BY <1>1, <2>1, <3>4 DEF IsListing
    <3> QED BY <1>1, <1>3, <1>4, <3>1, <3>3, <3>5
  <2>2. ASSUME a < i, i <= off[q] PROVE items[i] \in wanted
    <3> DEFINE k == i - a
    <3>1. k \in 1..Size(files[q]) /\ i = off[q - 1] + (1 + k)
      BY <1>1, <1>2, <1>3, <1>4, <2>2
    <3>2. Len(items[i].id) = 4 /\ items[i].id[3] = path
      BY <1>1, <1>6, <3>1
    <3> QED BY <1>2, <3>2
  <2> QED BY <2>1, <2>2
<1>8. /\ a \in Nat /\ off[q] \in Nat /\ a <= off[q] /\ off[q] <= Len(items)
      /\ off[q] - a = Size(files[q])
  BY <1>1, <1>3, <1>4
<1>9. /\ found \in Seq(Range(items)) /\ Len(found) = Size(files[q])
      /\ \A k \in 1..Size(files[q]) : found[k] = items[a + k]
  <2> DEFINE b == off[q]
  <2>1. \A i \in DOMAIN items : items[i] \in wanted <=> (a < i /\ i <= b)
    BY <1>7
  <2>2. b \in Nat /\ a <= b /\ b <= Len(items) /\ b - a = Size(files[q])
    BY <1>8
  <2>3. a \in Nat
    BY <1>8
  <2> HIDE DEF a, b, wanted
  <2>4. /\ found \in Seq(Range(items)) /\ Len(found) = b - a
        /\ \A k \in 1..(b - a) : found[k] = items[a + k]
    <3>1. IsRun(items, wanted, a, b)
      BY <2>1, <2>2, <2>3 DEF IsRun
    <3> QED BY <3>1, PickedRun DEF RunIsPicked
  <2> QED BY <2>2, <2>4
<1>10. \A k \in 1..Size(files[q]) : found[k].content = hunks[k]
  <2>1. SUFFICES ASSUME NEW k \in 1..Size(files[q]) PROVE found[k].content = hunks[k]
    OBVIOUS
  <2>2. a + k = off[q - 1] + (1 + k)
    <3>1. off[q - 1] \in Nat /\ k \in Int
      BY <1>1, <1>3
    <3> QED BY <3>1
  <2>3. found[k] = items[off[q - 1] + (1 + k)]
    BY <1>9, <2>2
  <2> HIDE DEF found, wanted
  <2> QED BY <1>1, <1>6, <2>3
<1>11. hunks = [k \in 1..Size(files[q]) |-> hunks[k]] /\ DOMAIN found = 1..Size(files[q])
  <2>1. DOMAIN hunks = 1..Size(files[q])
    BY <1>1, <1>3
  <2>2. hunks = [k \in DOMAIN hunks |-> hunks[k]]
    <3>1. CASE files[q].patch = None
      BY <3>1 DEF HunksFrom
    <3>2. CASE files[q].patch # None
      <4>1. ParsePatch(files[q].patch) \in ParseState(Range(files[q].patch))
        BY <1>1, <3>2, ParseTyped DEF IsListing
      <4>2. hunks \in Seq(Hunk(Range(files[q].patch)))
        BY <3>2, <4>1 DEF HunksFrom, ParseState
      <4> HIDE DEF hunks
      <4> QED BY <4>2
    <3> QED BY <3>1, <3>2
  <2>3. DOMAIN found = 1..Len(found)
    BY <1>9
  <2> QED BY <1>9, <2>1, <2>2, <2>3
<1> HIDE DEF hunks, wanted
<1>12. HunksOf(items, path) = [k \in DOMAIN found |-> found[k].content]
  BY DEF HunksOf, wanted
<1> HIDE DEF found, path
<1> QED BY <1>10, <1>11, <1>12 DEF hunks, path

(* A file that was normalised is whole.                                    *)
LEMMA FileOfListingIsWhole ==
  ASSUME NEW of, IsReading(of), NEW files, IsListing(files), NEW items, IsList(items),
         AreParsed(files), NEW off, Entries(of, files, items, off), NEW q \in DOMAIN files
  PROVE  FileIsWhole(items, files[q])
<1> DEFINE n == Len(files)
           file == files[q]
           hunks == HunksOf(items, file.path)
           i == off[q - 1] + 1
<1>1. q \in 1..n /\ n \in Nat /\ q - 1 \in 0..n /\ Readable(file)
  BY DEF IsListing, IsList, Readable
<1>2. hunks = HunksFrom(file)
  BY HunksAreFound
<1>3. /\ i \in DOMAIN items
      /\ Len(items[i].id) = 3 /\ items[i].id[3] = file.path
      /\ items[i].content.patched = (file.patch # None)
  <2>1. /\ off[q - 1] \in Nat /\ off[q] = off[q - 1] + (1 + Size(file)) /\ off[q] <= Len(items)
        /\ items[i] = FileItem(of, file)
    BY <1>1 DEF Entries
  <2>2. Size(file) \in Nat /\ Len(items) \in Nat /\ DOMAIN items = 1..Len(items)
    BY <1>1, PartEntries DEF Size, IsList
  <2> DEFINE id == of \o <<"file", file.path>>
  <2>3. NamesPath(id, 3, file.path)
    BY FileId
  <2>4. items[i].id = id /\ items[i].content.patched = (file.patch # None)
    BY <2>1 DEF FileItem, Item
  <2>5. i \in DOMAIN items
    BY <2>1, <2>2
  <2> HIDE DEF id, i
  <2> QED BY <2>3, <2>4, <2>5 DEF NamesPath
<1>4. file.patch = None => hunks = <<>>
  BY <1>2 DEF HunksFrom
<1>5. file.patch # None =>
        /\ LinesOf(hunks) = Contents(file.patch)
        /\ [k \in DOMAIN hunks |-> hunks[k].header] = Headers(file.patch)
        /\ \A k \in DOMAIN hunks : CountsAgree(hunks[k].header, hunks[k].lines)
  <2> SUFFICES ASSUME file.patch # None
               PROVE  /\ LinesOf(hunks) = Contents(file.patch)
                      /\ [k \in DOMAIN hunks |-> hunks[k].header] = Headers(file.patch)
                      /\ \A k \in DOMAIN hunks : CountsAgree(hunks[k].header, hunks[k].lines)
    OBVIOUS
  <2>1. IsPatch(file.patch) /\ ParsePatch(file.patch).error = None
    BY <1>1 DEF Readable, AreParsed
  <2>2. PatchIsWhole(file.patch)
    BY <2>1, ParsedPatchIsWhole
  <2>3. hunks = ParsePatch(file.patch).hunks
    BY <1>2 DEF HunksFrom
  <2> HIDE DEF hunks, file
  <2> QED BY <2>2, <2>3 DEF PatchIsWhole, HeadersOf
<1>6. FileIsWhole(items, file)
  <2> HIDE DEF i, file
  <2>1. \E j \in DOMAIN items :
          /\ Len(items[j].id) = 3 /\ items[j].id[3] = file.path
          /\ items[j].content.patched = (file.patch # None)
    BY <1>3
  <2> QED BY <1>4, <1>5, <2>1 DEF FileIsWhole
<1> QED BY <1>6

(* There is one item for every file.                                       *)
FileItems(items) == {i \in DOMAIN items : Len(items[i].id) = 3}

LEMMA FileItemsCount ==
  ASSUME NEW of, IsReading(of), NEW files, IsListing(files), NEW items, IsList(items),
         NEW off, Entries(of, files, items, off)
  PROVE  Cardinality(FileItems(items)) = Len(files)
<1> DEFINE n == Len(files)
           f == [q \in 1..n |-> off[q - 1] + 1]
           places == FileItems(items)
<1>1. n \in Nat /\ DOMAIN files = 1..n /\ DOMAIN items = 1..Len(items) /\ Len(items) \in Nat
  BY DEF IsListing, IsList
<1>2. ASSUME NEW q \in 1..n
      PROVE  /\ off[q - 1] \in Nat /\ Size(files[q]) \in Nat
             /\ off[q] = off[q - 1] + (1 + Size(files[q])) /\ off[q] <= Len(items)
             /\ items[off[q - 1] + 1] = FileItem(of, files[q])
             /\ \A k \in 1..Size(files[q]) :
                  items[off[q - 1] + (1 + k)] =
                    Item(of \o <<"hunk", files[q].path, k>>, HunksFrom(files[q])[k])
  <2>1. q - 1 \in 0..n /\ Readable(files[q])
    BY <1>1 DEF IsListing, Readable
  <2>2. Size(files[q]) \in Nat
    BY <2>1, PartEntries DEF Size
  <2>3. off[q - 1] \in Nat
    BY <2>1 DEF Entries
  <2> QED BY <2>2, <2>3 DEF Entries
<1>3. ASSUME NEW q \in 1..n
      PROVE  Len(items[off[q - 1] + 1].id) = 3 /\ items[off[q - 1] + 1].id[3] = files[q].path
  <2> DEFINE id == of \o <<"file", files[q].path>>
             i == off[q - 1] + 1
  <2>1. NamesPath(id, 3, files[q].path)
    BY FileId
  <2>2. items[i].id = id
    <3>1. FileItem(of, files[q]).id = id
      BY DEF FileItem, Item
    <3>2. items[i] = FileItem(of, files[q])
      BY <1>2
    <3> HIDE DEF id, i
    <3> QED BY <3>1, <3>2
  <2> HIDE DEF id, i
  <2>3. Len(items[i].id) = 3 /\ items[i].id[3] = files[q].path
    BY <2>1, <2>2 DEF NamesPath
  <2> QED BY <2>3 DEF i
<1>4. ASSUME NEW q \in 1..n PROVE f[q] \in places
  <2>1. f[q] = off[q - 1] + 1 /\ off[q - 1] + 1 \in DOMAIN items
    BY <1>1, <1>2
  <2> QED BY <1>3, <2>1 DEF FileItems
<1>5. ASSUME NEW q \in 1..n, NEW r \in 1..n, f[q] = f[r] PROVE q = r
  <2>1. off[q - 1] + 1 = off[r - 1] + 1
    BY <1>5
  <2>2. files[q].path = files[r].path
    BY <1>3, <2>1
  <2> QED BY <1>1, <2>2 DEF IsListing
<1>6. ASSUME NEW i \in places PROVE \E q \in 1..n : f[q] = i
  <2>1. i \in 1..Len(items) /\ Len(items[i].id) = 3
    BY <1>1 DEF FileItems
  <2>2. PICK q \in 1..n : \E k \in 1..(1 + Size(files[q])) : i = off[q - 1] + k
    BY <2>1 DEF Entries
  <2>3. PICK k \in 1..(1 + Size(files[q])) : i = off[q - 1] + k
    BY <2>2
  <2>4. k = 1
    <3>1. CASE k # 1
      <4> DEFINE j == k - 1
                 id == of \o <<"hunk", files[q].path, j>>
      <4>1. j \in 1..Size(files[q]) /\ 1 + j = k
        BY <1>2, <2>3, <3>1
      <4>2. items[i] = Item(id, HunksFrom(files[q])[j])
        BY <1>2, <2>3, <4>1
      <4>3. NamesPath(id, 4, files[q].path)
        BY HunkId
      <4> HIDE DEF id, j
      <4>4. Len(items[i].id) = 4
        BY <4>2, <4>3 DEF NamesPath, Item
      <4>5. 3 = 4
        BY <2>1, <4>4
      <4> QED BY <4>5
    <3> QED BY <3>1
  <2> QED BY <2>3, <2>4
<1> HIDE DEF f, places
<1>7. f \in [1..n -> places]
  <2>1. f = [q \in 1..n |-> f[q]]
    BY DEF f
  <2> QED BY <1>4, <2>1
<1>8. ExistsBijection(1..n, places)
  <2>1. f \in Injection(1..n, places)
    BY <1>5, <1>7 DEF Injection, IsInjective
  <2>2. f \in Surjection(1..n, places)
    BY <1>6, <1>7 DEF Surjection
  <2> QED BY <2>1, <2>2 DEF ExistsBijection, Bijection
<1>9. IsFiniteSet(1..n) /\ Cardinality(1..n) = n
  <2>1. IsFiniteSet(1..n) /\ Cardinality(1..n) = IF 1 > n THEN 0 ELSE n - 1 + 1
    <3>1. 1 \in Int /\ n \in Int
      BY <1>1
    <3> HIDE DEF n
    <3> QED BY <3>1, FS_Interval
  <2> QED BY <1>1, <2>1
<1> QED BY <1>8, <1>9, FS_Bijection DEF places

(* A listing that was normalised without an error is whole in its items.   *)
ListingIsWhole(files, items) ==
  /\ \A q \in DOMAIN files : FileIsWhole(items, files[q])
  /\ Cardinality({i \in DOMAIN items : Len(items[i].id) = 3}) = Len(files)

LEMMA NormalizedIsWhole ==
  ASSUME NEW of, IsReading(of), NEW files, IsListing(files), NEW items, Normalized(of, files, items)
  PROVE  ListingIsWhole(files, items)
<1>1. IsLaid(of, files, items) /\ AreParsed(files) /\ items \in Seq(AllItems(of, files))
  BY NormalizedIsLaid
<1>2. IsList(items)
  BY <1>1 DEF IsList, Range
<1>3. PICK off : Entries(of, files, items, off)
  BY <1>1, LaidEntries
<1>4. \A q \in DOMAIN files : FileIsWhole(items, files[q])
  BY <1>1, <1>2, <1>3, FileOfListingIsWhole
<1>5. Cardinality(FileItems(items)) = Len(files)
  BY <1>2, <1>3, FileItemsCount
<1> QED BY <1>4, <1>5 DEF ListingIsWhole, FileItems

-----------------------------------------------------------------------------
(* What was listed is a listing.                                           *)

LEMMA SequenceIsList ==
  ASSUME NEW S, NEW s \in Seq(S)
  PROVE  IsList(s)
BY DEF IsList, Range

(* The files without one path do not have it.                              *)
LEMMA WithoutIsListing ==
  ASSUME NEW files, IsListing(files), NEW path
  PROVE  /\ IsListing(Without(files, path))
         /\ \A i \in DOMAIN Without(files, path) : Without(files, path)[i].path # path
<1> DEFINE places == {i \in DOMAIN files : files[i].path = path}
           rest == Without(files, path)
           S == Range(files)
<1>1. files \in Seq(S) /\ DOMAIN files = 1..Len(files) /\ Len(files) \in Nat
  BY DEF IsListing, IsList
<1>2. CASE places = {}
  <2>1. rest = files
    BY <1>2 DEF Without
  <2> QED BY <1>2, <2>1
<1>3. CASE places # {}
  <2> DEFINE k == Min(places)
  <2>1. k \in places
    <3>1. places \subseteq Nat
      BY <1>1
    <3> HIDE DEF places
    <3> QED BY <1>3, <3>1, LeastPlace
  <2>2. k \in 1..Len(files) /\ files[k].path = path
    BY <1>1, <2>1
  <2>3. rest = SubSeq(files, 1, k - 1) \o SubSeq(files, k + 1, Len(files))
    BY <1>3 DEF Without, RemoveAt
  <2> HIDE DEF k, places, rest, S
  <2> DEFINE n == Len(files)
             a == SubSeq(files, 1, k - 1)
             b == SubSeq(files, k + 1, n)
             Source(i) == IF i < k THEN i ELSE i + 1
  <2>4. a \in Seq(S) /\ Len(a) = k - 1 /\ \A i \in 1..(k - 1) : a[i] = files[i]
    <3>1. 1 \in Int /\ k - 1 \in Int /\ \A i \in 1..(k - 1) : files[i] \in S
      BY <1>1, <2>2
    <3>2. /\ a \in Seq(S) /\ Len(a) = IF 1 <= k - 1 THEN k - 1 - 1 + 1 ELSE 0
          /\ \A i \in 1..(k - 1 - 1 + 1) : a[i] = files[1 + i - 1]
      BY <3>1, SubSeqProperties
    <3>3. k - 1 - 1 + 1 = k - 1 /\ (IF 1 <= k - 1 THEN k - 1 - 1 + 1 ELSE 0) = k - 1
      BY <2>2
    <3>4. \A i \in 1..(k - 1) : 1 + i - 1 = i
      BY <2>2
    <3> HIDE DEF a
    <3> QED BY <3>2, <3>3, <3>4
  <2>5. b \in Seq(S) /\ Len(b) = n - k /\ \A i \in 1..(n - k) : b[i] = files[k + i]
    <3>1. k + 1 \in Int /\ n \in Int /\ \A i \in (k + 1)..n : files[i] \in S
      BY <1>1, <2>2
    <3>2. /\ b \in Seq(S) /\ Len(b) = IF k + 1 <= n THEN n - (k + 1) + 1 ELSE 0
          /\ \A i \in 1..(n - (k + 1) + 1) : b[i] = files[(k + 1) + i - 1]
      BY <3>1, SubSeqProperties
    <3>3. n - (k + 1) + 1 = n - k /\ (IF k + 1 <= n THEN n - (k + 1) + 1 ELSE 0) = n - k
      <4>1. \A x \in Nat : \A y \in 1..x :
              x - (y + 1) + 1 = x - y /\ (IF y + 1 <= x THEN x - (y + 1) + 1 ELSE 0) = x - y
        OBVIOUS
      <4>2. n \in Nat /\ k \in 1..n
        BY <1>1, <2>2
      <4> HIDE DEF n
      <4> QED BY <4>1, <4>2
    <3>4. \A i \in 1..(n - k) : (k + 1) + i - 1 = k + i
      BY <1>1, <2>2
    <3> HIDE DEF b
    <3> QED BY <3>2, <3>3, <3>4
  <2>6. rest = a \o b
    BY <2>3
  <2> HIDE DEF a, b, n
  <2>n. n \in Nat /\ k \in 1..n /\ DOMAIN files = 1..n
    BY <1>1, <2>2 DEF n
  <2>7. rest \in Seq(S) /\ Len(rest) = (k - 1) + (n - k)
        /\ \A i \in 1..((k - 1) + (n - k)) : rest[i] = IF i <= k - 1 THEN a[i] ELSE b[i - (k - 1)]
    BY <2>4, <2>5, <2>6, ConcatProperties
  <2>8. Len(rest) = n - 1 /\ (k - 1) + (n - k) = n - 1
    BY <2>7, <2>n
  <2>9. ASSUME NEW i \in 1..(n - 1)
        PROVE  Source(i) \in 1..n /\ Source(i) # k /\ rest[i] = files[Source(i)]
    <3>1. Source(i) \in 1..n /\ Source(i) # k
      BY <2>n
    <3>2. rest[i] = IF i <= k - 1 THEN a[i] ELSE b[i - (k - 1)]
      BY <2>7, <2>8
    <3>3. CASE i < k
      <4>1. i <= k - 1 /\ i \in 1..(k - 1)
        BY <2>n, <3>3
      <4> QED BY <2>4, <3>1, <3>2, <3>3, <4>1
    <3>4. CASE ~(i < k)
      <4>1. ~(i <= k - 1) /\ i - (k - 1) \in 1..(n - k) /\ k + (i - (k - 1)) = i + 1
        BY <2>n, <3>4
      <4>2. b[i - (k - 1)] = files[k + (i - (k - 1))]
        BY <2>5, <4>1
      <4> QED BY <3>1, <3>2, <3>4, <4>1, <4>2
    <3> QED BY <3>3, <3>4
  <2>10. DOMAIN rest = 1..(n - 1)
    BY <2>7, <2>8
  <2>11. \A i, j \in 1..(n - 1) : Source(i) = Source(j) => i = j
    BY <2>n
  <2> HIDE DEF Source
  <2>12. IsList(rest)
    BY <2>7, SequenceIsList
  <2>13. \A i, j \in DOMAIN rest : rest[i].path = rest[j].path => i = j
    BY <2>n, <2>9, <2>10, <2>11 DEF IsListing
  <2>14. \A i \in DOMAIN rest : rest[i].patch = None \/ IsPatch(rest[i].patch)
    BY <2>n, <2>9, <2>10 DEF IsListing
  <2>15. \A i \in DOMAIN rest : rest[i].path # path
    BY <2>2, <2>n, <2>9, <2>10 DEF IsListing
  <2> QED BY <2>12, <2>13, <2>14, <2>15 DEF IsListing, rest
<1> QED BY <1>2, <1>3

(* A file with a path of its own makes one more listing.                   *)
LEMMA OneMoreIsListing ==
  ASSUME NEW file, Readable(file), NEW files, IsListing(files),
         \A i \in DOMAIN files : files[i].path # file.path
  PROVE  IsListing(<<file>> \o files)
<1> DEFINE S == {file} \cup Range(files)
           n == Len(files)
           all == <<file>> \o files
<1>1. files \in Seq(S) /\ n \in Nat /\ DOMAIN files = 1..n
  <2>1. files \in Seq(Range(files))
    BY DEF IsListing, IsList
  <2>2. \A i \in 1..n : files[i] \in S
    BY <2>1
  <2> HIDE DEF S
  <2> QED BY <2>1, <2>2
<1>2. <<file>> \in Seq(S) /\ Len(<<file>>) = 1 /\ <<file>>[1] = file
  OBVIOUS
<1> HIDE DEF n, S
<1>3. /\ all \in Seq(S) /\ Len(all) = 1 + n
      /\ \A i \in 1..(1 + n) : all[i] = IF i <= 1 THEN <<file>>[i] ELSE files[i - 1]
  <2>1. n = Len(files)
    BY DEF n
  <2> QED BY <1>1, <1>2, <2>1, ConcatProperties
<1> HIDE DEF all
<1>4. DOMAIN all = 1..(1 + n) /\ all[1] = file /\ \A i \in 2..(1 + n) : i - 1 \in 1..n /\ all[i] = files[i - 1]
  <2>1. \A i \in 2..(1 + n) : i \in 1..(1 + n) /\ ~(i <= 1) /\ i - 1 \in 1..n
    BY <1>1
  <2>2. 1 \in 1..(1 + n) /\ 1 <= 1
    BY <1>1
  <2>3. DOMAIN all = 1..(1 + n)
    BY <1>3
  <2> QED BY <1>2, <1>3, <2>1, <2>2, <2>3
<1>5. IsList(all)
  BY <1>3, SequenceIsList
<1>6. ASSUME NEW i \in DOMAIN all, NEW j \in DOMAIN all, all[i].path = all[j].path PROVE i = j
  <2>1. \A m \in DOMAIN all : m = 1 \/ m \in 2..(1 + n)
    BY <1>1, <1>4
  <2>2. CASE i = 1 /\ j = 1
    BY <2>2
  <2>3. CASE i = 1 /\ j \in 2..(1 + n)
    BY <1>1, <1>4, <1>6, <2>3
  <2>4. CASE j = 1 /\ i \in 2..(1 + n)
    BY <1>1, <1>4, <1>6, <2>4
  <2>5. CASE i \in 2..(1 + n) /\ j \in 2..(1 + n)
    <3>1. i - 1 = j - 1
      <4> DEFINE x == i - 1
                 y == j - 1
      <4>1. x \in DOMAIN files /\ y \in DOMAIN files /\ all[i] = files[x] /\ all[j] = files[y]
        BY <1>1, <1>4, <2>5
      <4> HIDE DEF x, y
      <4>2. x = y
        BY <1>6, <4>1 DEF IsListing
      <4> QED BY <4>2 DEF x, y
    <3> QED BY <2>5, <3>1
  <2> QED BY <2>1, <2>2, <2>3, <2>4, <2>5
<1>7. ASSUME NEW i \in DOMAIN all PROVE Readable(all[i])
  <2>1. i = 1 \/ i \in 2..(1 + n)
    BY <1>1, <1>4
  <2>2. \A m \in 1..n : Readable(files[m])
    BY <1>1 DEF IsListing, Readable
  <2> QED BY <1>4, <2>1, <2>2
<1> QED BY <1>5, <1>6, <1>7 DEF IsListing, Readable, all

(* A listing is kept from the call's begin to its end, whatever is pushed  *)
(* in between.                                                             *)
WorldListed == IsListing(world.pull.files) /\ IsListing(world.commit.files)
ListedInv ==
  /\ WorldListed
  /\ read # None /\ read.tool \in {"diff", "commit_diff"} => IsListing(read.listed)
  /\ last # None /\ last.outcome = "observed" /\ last.tool \in {"diff", "commit_diff"} =>
       IsListing(last.listed)

(* A step of a call keeps what it is of.                                   *)
ReadStays ==
  /\ read' = None \/ (read # None /\ read'.tool = read.tool /\ read'.listed = read.listed)
  /\ last' = last \/ (read # None /\ last'.tool = read.tool /\ last'.listed = read.listed)
CallGoesOn == world' = world /\ ReadStays

LEMMA CallSteps ==
  ASSUME ReadInv, [Next]_vars
  PROVE  \/ CallGoesOn
         \/ \E request : Begin(request)
         \/ Push \/ IssueOpens \/ IssueResolves \/ EventArrives
<1>1. ASSUME read # None, NEW outcome, NEW code, NEW items, Finish(End(outcome, code, items))
      PROVE  CallGoesOn
  BY <1>1 DEF Finish, End, CallGoesOn, ReadStays
<1>2. ASSUME read # None, NEW error, Fail(error) PROVE CallGoesOn
  BY <1>1, <1>2 DEF Fail
<1>3. ASSUME read # None, NEW items, Observe(items) PROVE CallGoesOn
  <2>1. Finish(End("raised", None, <<>>)) => CallGoesOn
    BY <1>1, <1>3
  <2>2. Finish(End("observed", None, items)) => CallGoesOn
    BY <1>1, <1>3
  <2> QED BY <1>3, <2>1, <2>2 DEF Observe
<1>4. ASSUME read # None, NEW items, Return(items) PROVE CallGoesOn
  BY <1>1, <1>4 DEF Return
<1>5. ASSUME read # None, NEW next, Go(next) PROVE CallGoesOn
  BY <1>5 DEF Go, CallGoesOn, ReadStays, ReadInv, ReadFields
<1>6. ASSUME read # None, NEW of, NEW files, ObserveFiles(of, files) PROVE CallGoesOn
  BY <1>2, <1>3, <1>6 DEF ObserveFiles
<1>7. ASSUME read # None, NEW got, read' = [read EXCEPT !.page = @ + 1, !.got = got],
             UNCHANGED <<world, last>>
      PROVE  CallGoesOn
  BY <1>7 DEF CallGoesOn, ReadStays, ReadInv, ReadFields
<1>8. ASSUME NEW r, RequestFails(r) PROVE CallGoesOn
  BY <1>2, <1>5, <1>8 DEF RequestFails
<1>9. ToolTimesOut => CallGoesOn
  BY <1>2 DEF ToolTimesOut, Calling
<1>10. CommitAnswered => CallGoesOn
  BY <1>2, <1>3, <1>6 DEF CommitAnswered, Calling
<1>11. PullAnswered => CallGoesOn
  BY <1>2, <1>3 DEF PullAnswered, Calling
<1>12. FilesAnswered => CallGoesOn
  BY <1>2, <1>6, <1>7 DEF FilesAnswered, Calling
<1>13. read # None /\ IssueFound => CallGoesOn
  BY <1>2, <1>3, <1>4, <1>5 DEF IssueFound
<1>14. IssueAnswered \/ ShortIdAnswered => CallGoesOn
  BY <1>13 DEF IssueAnswered, ShortIdAnswered, Calling
<1>15. EventAnswered => CallGoesOn
  BY <1>2, <1>3 DEF EventAnswered, Calling
<1>16. ReleaseAnswered \/ DeploysAnswered => CallGoesOn
  BY <1>2, <1>3, <1>5 DEF ReleaseAnswered, DeploysAnswered, Calling
<1>17. StatsAnswered => CallGoesOn
  BY <1>3 DEF StatsAnswered, Calling
<1>18. IssuesAnswered => CallGoesOn
  <2>1. read # None /\ Finish(End("raised", None, <<>>)) => CallGoesOn
    BY <1>1
  <2> QED BY <1>2, <1>4, <1>7, <2>1 DEF IssuesAnswered, Calling
<1>19. IntegrationsAnswered => CallGoesOn
  BY <1>2, <1>4 DEF IntegrationsAnswered, Calling
<1>20. JiraAnswered => CallGoesOn
  BY <1>2, <1>3 DEF JiraAnswered, Calling
<1>21. UNCHANGED vars => CallGoesOn
  BY DEF vars, CallGoesOn, ReadStays
<1> HIDE DEF CallGoesOn
<1> QED
  BY <1>8, <1>9, <1>10, <1>11, <1>12, <1>14, <1>15, <1>16, <1>17, <1>18, <1>19, <1>20, <1>21 DEF Next

(* A call that goes on keeps its listing.                                  *)
LEMMA StayingKeepsListed ==
  ASSUME ListedInv, ReadStays, WorldListed'
  PROVE  ListedInv'
BY DEF ListedInv, ReadStays

(* A call begins with a listing as it stands.                              *)
LEMMA BeginKeepsListed ==
  ASSUME ListedInv, NEW request, Begin(request)
  PROVE  ListedInv'
<1> DEFINE started == [tool |-> request.tool, arg |-> request.arg,
                       call |-> FirstCall[request.tool], page |-> 1, got |-> <<>>,
                       listed |-> Listed(request.tool), disturbed |-> FALSE]
           rejected == [tool |-> request.tool, outcome |-> "failed",
                        code |-> FailureCode(Rejected[request.tool]), items |-> <<>>,
                        disturbed |-> FALSE, listed |-> <<>>]
<1>1. /\ world' = world
      /\ \/ last' = rejected /\ read' = read
         \/ last' = last /\ read' = started
  BY DEF Begin
<1>2. WorldListed'
  BY <1>1 DEF ListedInv, WorldListed
<1>3. CASE last' = rejected /\ read' = read
  <2>1. last'.outcome = "failed"
    BY <1>3
  <2> QED BY <1>2, <1>3, <2>1 DEF ListedInv
<1>4. CASE last' = last /\ read' = started
  <2>1. read'.tool = request.tool /\ read'.listed = Listed(request.tool)
    BY <1>4
  <2>2. request.tool \in {"diff", "commit_diff"} => IsListing(Listed(request.tool))
    BY DEF Listed, ListedInv, WorldListed
  <2> QED BY <1>2, <1>4, <2>1, <2>2 DEF ListedInv
<1> QED BY <1>1, <1>3, <1>4

(* A change of the world leaves the call what it is.                       *)
LEMMA ChangeKeepsListed ==
  ASSUME ReadInv, ListedInv, NEW changed, NEW readers, NEW disturbs,
         Change(changed, readers, disturbs),
         IsListing(changed.pull.files), changed.commit = world.commit
  PROVE  ListedInv'
<1>1. ReadStays
  BY DEF Change, ReadStays, ReadInv, ReadFields
<1>2. WorldListed'
  BY DEF Change, WorldListed, ListedInv
<1> QED BY <1>1, <1>2, StayingKeepsListed

(* A pushed file has a path of its own again.                              *)
LEMMA PushKeepsListed ==
  ASSUME WorldInv, ReadInv, ListedInv, Push
  PROVE  ListedInv'
<1>1. PICK path \in Paths, patch \in {None, <<Header(0, 1), Line("addition")>>} :
        Change([world EXCEPT !.pull.head = @ + 1,
                  !.pull.files = <<[path |-> path, status |-> "modified", sound |-> TRUE,
                                    patch |-> patch]>> \o Without(@, path)],
               {"pull", "diff"}, {"diff"})
  BY DEF Push
<1> DEFINE file == [path |-> path, status |-> "modified", sound |-> TRUE, patch |-> patch]
           files == <<file>> \o Without(world.pull.files, path)
           changed == [world EXCEPT !.pull.head = @ + 1, !.pull.files = <<file>> \o Without(@, path)]
<1>2. changed.pull.files = files /\ changed.commit = world.commit
  BY DEF WorldInv
<1>3. Readable(file) /\ file.path = path
  <2>1. IsPatch(<<Header(0, 1), Line("addition")>>)
    BY DEF IsPatch, Header, Line, Content, Range
  <2> QED BY <1>1, <2>1 DEF Readable
<1>4. IsListing(files)
  <2> DEFINE rest == Without(world.pull.files, path)
  <2>1. IsListing(rest) /\ \A i \in DOMAIN rest : rest[i].path # path
    BY WithoutIsListing DEF ListedInv, WorldListed
  <2> HIDE DEF rest, file
  <2> QED BY <1>3, <2>1, OneMoreIsListing DEF rest
<1>5. Change(changed, {"pull", "diff"}, {"diff"})
  BY <1>1
<1> HIDE DEF changed, files
<1> QED BY <1>2, <1>4, <1>5, ChangeKeepsListed

(* The other changes are of no files.                                      *)
LEMMA OthersKeepListed ==
  ASSUME WorldInv, ReadInv, ListedInv, IssueOpens \/ IssueResolves \/ EventArrives
  PROVE  ListedInv'
<1>1. ASSUME NEW changed, changed.pull = world.pull, changed.commit = world.commit,
             NEW readers, NEW disturbs, Change(changed, readers, disturbs)
      PROVE  ListedInv'
  <2>1. IsListing(changed.pull.files)
    BY <1>1 DEF ListedInv, WorldListed
  <2> QED BY <1>1, <2>1, ChangeKeepsListed
<1>2. CASE IssueOpens
  <2> DEFINE changed == [world EXCEPT !.issues = <<[id |-> changes + 100, dated |-> TRUE]>> \o @]
  <2>1. changed.pull = world.pull /\ changed.commit = world.commit
    BY DEF WorldInv
  <2>2. Change(changed, {"open_issues"}, {})
    BY <1>2 DEF IssueOpens
  <2> HIDE DEF changed
  <2> QED BY <1>1, <2>1, <2>2
<1>3. CASE IssueResolves
  <2> DEFINE changed == [world EXCEPT !.issues = Tail(@)]
  <2>1. changed.pull = world.pull /\ changed.commit = world.commit
    BY DEF WorldInv
  <2>2. Change(changed, {"open_issues"}, {"open_issues"})
    BY <1>3 DEF IssueResolves
  <2> HIDE DEF changed
  <2> QED BY <1>1, <2>1, <2>2
<1>4. CASE EventArrives
  <2> DEFINE changed == [world EXCEPT !.event.id = @ + 1, !.event.frames = <<{"file", "line"}>>,
                                      !.events = @ + 1]
  <2>1. changed.pull = world.pull /\ changed.commit = world.commit
    BY DEF WorldInv
  <2>2. Change(changed, {"failure_location", "telemetry"}, {})
    BY <1>4 DEF EventArrives
  <2> HIDE DEF changed
  <2> QED BY <1>1, <2>1, <2>2
<1> QED BY <1>2, <1>3, <1>4

(* Every step keeps the listings.                                          *)
LEMMA ListedKept == WholeInv /\ ListedInv /\ [Next]_vars => ListedInv'
<1>1. SUFFICES ASSUME WholeInv, ListedInv, [Next]_vars PROVE ListedInv'
  OBVIOUS
<1>2. WorldInv /\ ReadInv
  BY <1>1 DEF WholeInv
<1>3. CASE CallGoesOn
  BY <1>1, <1>3, StayingKeepsListed DEF CallGoesOn, ListedInv, WorldListed
<1> QED BY <1>1, <1>2, <1>3, CallSteps, BeginKeepsListed, PushKeepsListed, OthersKeepListed

(* What was normalised is the listing, read whole.                         *)
LEMMA WholeReads == AnswersAreWhole /\ ListedInv => ReadsAreWhole
<1> SUFFICES ASSUME AnswersAreWhole, ListedInv, last # None, ~last.disturbed
             PROVE  /\ last.outcome = "observed" /\ last.tool \in {"diff", "commit_diff"} =>
                         \/ last.tool = "commit_diff" /\ Len(last.listed) > CommitPage
                         \/ ListingIsWhole(last.listed, last.items)
                    /\ last.outcome = "returned" /\ last.tool = "open_issues" =>
                         Range(last.listed) \subseteq Range(last.items)
  BY DEF ReadsAreWhole, ListingIsWhole
<1>1. ASSUME last.outcome = "observed", last.tool = "diff"
      PROVE  ListingIsWhole(last.listed, last.items)
  <2>1. Normalized(<<"pull">>, last.listed, last.items) /\ IsListing(last.listed)
    BY <1>1 DEF AnswersAreWhole, ListedInv
  <2> QED BY <2>1, NormalizedIsWhole DEF IsReading
<1>2. ASSUME last.outcome = "observed", last.tool = "commit_diff", ~(Len(last.listed) > CommitPage)
      PROVE  ListingIsWhole(last.listed, last.items)
  <2> DEFINE files == last.listed
  <2>1. Normalized(<<"commit">>, FirstPage(files), last.items) /\ IsListing(files)
    BY <1>2 DEF AnswersAreWhole, ListedInv
  <2>2. files \in Seq(Range(files)) /\ Len(files) \in Nat /\ CommitPage \in Nat
    BY <2>1, ReadsAssumption DEF IsListing, IsList
  <2>3. Min({CommitPage, Len(files)}) = Len(files)
    <3>1. \A m, n \in Int : Min({m, n}) = IF m <= n THEN m ELSE n
      BY DEF Min
    <3>2. Len(files) <= CommitPage
      BY <1>2, <2>2
    <3> DEFINE n == Len(files)
    <3>3. n \in Int /\ CommitPage \in Int /\ n <= CommitPage
      BY <2>2, <3>2
    <3> HIDE DEF n
    <3>4. Min({CommitPage, n}) = n
      BY <3>1, <3>3
    <3> QED BY <3>4 DEF n
  <2>4. FirstPage(files) = files
    BY <2>2, <2>3, SubSeqFull DEF FirstPage
  <2> QED BY <2>1, <2>4, NormalizedIsWhole DEF IsReading
<1> QED BY <1>1, <1>2 DEF AnswersAreWhole

(* A read that ends well has read everything, as long as nobody pushed or  *)
(* resolved in between: each file of the change is evidence, and its hunks *)
(* hold every line of its patch under the headers it had, with the counts  *)
(* those declare (parse_github_patch, _normalize_pull_request_files); each *)
(* issue that was open is in the listing.                                  *)
THEOREM ReadsHoldWhole == Spec => []ReadsAreWhole
<1>1. Init => WholeInv /\ ListedInv
  <2>1. Init => ListedInv
    BY WorldsAssumption DEF Init, ListedInv, WorldListed
  <2> QED BY <2>1, WholeStarts
<1>2. WholeInv /\ ListedInv /\ [Next]_vars => WholeInv' /\ ListedInv'
  BY WholeKept, ListedKept
<1>3. WholeInv /\ ListedInv => ReadsAreWhole
  BY WholeReads DEF WholeInv
<1> QED BY <1>1, <1>2, <1>3, PTL DEF Spec
=============================================================================
