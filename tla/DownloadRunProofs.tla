-------------------------- MODULE DownloadRunProofs --------------------------
(***************************************************************************)
(* Proofs about download_all with its walk, for every tree, every number   *)
(* of workers of both kinds and every size of the two channels: the        *)
(* composition implements both of its parts, so what is proved of either   *)
(* holds of the whole, and what only the whole promises follows from that. *)
(***************************************************************************)
EXTENDS DownloadRun, ParallelWalkerProofs

CallP == INSTANCE DownloadAllProofs WITH
  Workers <- Downloaders, Others <- Dirs \ {Root}, Files <- Files \ BadFiles,
  given <- seen, stream <- State, gap <- Gap, pc <- loader

\* Where the caller is tells where the reader of the walk is.
Link ==
  /\ caller \in {"start", "pull", "submit", "skip"} => consumer = "reading"
  /\ caller = "join" => consumer \in {"stopped", "ended"}
  /\ caller = "ok" => consumer \in {"dropped", "ended"}
  /\ consumer = "dropped" => caller \in {"ok", "error"}

WalkInv == IInv /\ Tracking /\ ClosesOnce /\ Over

RunInv == WalkInv /\ CallP!IInv /\ Link

-----------------------------------------------------------------------------
(* The call that is composed and the one that was proved about *)

\* Finite sets are what they are in an instance, too.
LEMMA SameFinite ==
  ASSUME NEW S
  PROVE  /\ CallP!IsFiniteSet(S) <=> IsFiniteSet(S)
         /\ CallP!Cardinality(S) = Cardinality(S)
  BY DEF CallP!IsFiniteSet, IsFiniteSet, CallP!Cardinality, Cardinality

\* The assumptions of DownloadAll hold of the part.
LEMMA CallAssumed == CallP!PoolAssumption
<1> USE RunAssumption, TreeAssumption, WalkAssumption
<1>1. IsFiniteSet((Dirs \ {Root}) \cup (Files \ BadFiles) \cup BadFiles)
  BY FS_Subset, FS_Union
<1>2. IsFiniteSet(Downloaders) /\ Downloaders # {} /\ Capacity \in Nat \ {0} /\ Observed \in BOOLEAN
  OBVIOUS
<1>3. (Dirs \ {Root}) \cap ((Files \ BadFiles) \cup BadFiles) = {} /\ "no file" \notin Files \ BadFiles
  OBVIOUS
<1> QED
  BY <1>1, <1>2, <1>3, SameFinite DEF CallP!PoolAssumption, CallP!NoFile

\* Its items are the entries of the walk.
LEMMA ItemsAreEntries == CallP!Items = Entries
  BY RunAssumption, TreeAssumption DEF CallP!Items, Entries

\* DownloadRun is composed of the steps DownloadAllProofs is about.
LEMMA SameSteps ==
  /\ Call!Begin <=> CallP!Begin
  /\ \A i : Call!Handle(i) <=> CallP!Handle(i)
  /\ Call!LoopEnds <=> CallP!LoopEnds
  /\ Call!LoopFails <=> CallP!LoopFails
  /\ Call!Submit <=> CallP!Submit
  /\ Call!Join <=> CallP!Join
  /\ \A w : Call!Work(w) <=> CallP!Work(w)
  /\ Call!ListSkipped <=> CallP!ListSkipped
  /\ Call!PageSkipped <=> CallP!PageSkipped
  /\ Call!Cancel <=> CallP!Cancel
<1> USE DEF Call!walk, CallP!walk, Call!account, CallP!account, Call!queue, CallP!queue,
            Call!pool, CallP!pool, Call!NoFile, CallP!NoFile
<1>1. Call!Begin <=> CallP!Begin
  BY Zenon DEF Call!Begin, CallP!Begin
<1>2. ASSUME NEW i PROVE Call!Handle(i) <=> CallP!Handle(i)
  BY Zenon DEF Call!Handle, CallP!Handle, Call!RecordFailure, CallP!RecordFailure
<1>3. (Call!LoopEnds <=> CallP!LoopEnds) /\ (Call!LoopFails <=> CallP!LoopFails)
  BY Zenon DEF Call!LoopEnds, CallP!LoopEnds, Call!LoopFails, CallP!LoopFails
<1>4. Call!Submit <=> CallP!Submit
  BY Zenon DEF Call!Submit, CallP!Submit
<1>5. Call!Join <=> CallP!Join
  BY Zenon DEF Call!Join, CallP!Join, Call!Stream!Drop, CallP!Stream!Drop
<1>6. ASSUME NEW w PROVE Call!Receive(w) <=> CallP!Receive(w)
  BY Zenon DEF Call!Receive, CallP!Receive
<1>7. ASSUME NEW w PROVE Call!FinishJob(w) <=> CallP!FinishJob(w)
  BY Zenon DEF Call!FinishJob, CallP!FinishJob, Call!RecordFailure, CallP!RecordFailure,
               Call!RecordOutcome, CallP!RecordOutcome, Call!Outcomes, CallP!Outcomes
<1>8. ASSUME NEW w PROVE Call!ListFailure(w) <=> CallP!ListFailure(w)
  BY Zenon DEF Call!ListFailure, CallP!ListFailure
<1>9. ASSUME NEW w PROVE Call!Work(w) <=> CallP!Work(w)
  BY <1>6, <1>7, <1>8, Zenon DEF Call!Work, CallP!Work
<1>10. Call!ListSkipped <=> CallP!ListSkipped
  BY Zenon DEF Call!ListSkipped, CallP!ListSkipped
<1>11. (Call!PageSkipped <=> CallP!PageSkipped) /\ (Call!Cancel <=> CallP!Cancel)
  BY Zenon DEF Call!PageSkipped, CallP!PageSkipped, Call!Cancel, CallP!Cancel,
               Call!Stream!Skip, CallP!Stream!Skip
<1> QED
  BY <1>1, <1>2, <1>3, <1>4, <1>5, <1>11, <1>9, <1>10

LEMMA SameInit == Call!Init <=> CallP!Init
  BY Zenon DEF Call!Init, CallP!Init, Call!Stream!Init, CallP!Stream!Init, Call!Items, CallP!Items,
         Call!NoFile, CallP!NoFile, Call!Counters, CallP!Counters, Call!Outcomes, CallP!Outcomes

\* Its stream is the one the walk implements.
LEMMA SameStream ==
  /\ Stream!Init => CallP!Stream!Init
  /\ \A i : (Stream!Give(i) <=> CallP!Stream!Give(i)) /\ (Stream!Give(i) <=> Call!Stream!Give(i))
  /\ (Stream!Drop <=> CallP!Stream!Drop) /\ (Stream!Drop <=> Call!Stream!Drop)
  /\ (Stream!End <=> CallP!Stream!End) /\ (Stream!End <=> Call!Stream!End)
<1>1. Call!Items = Entries /\ CallP!Items = Entries
  BY ItemsAreEntries DEF Call!Items, CallP!Items
<1>2. /\ \A i : (Stream!Give(i) <=> CallP!Stream!Give(i)) /\ (Stream!Give(i) <=> Call!Stream!Give(i))
      /\ (Stream!Drop <=> CallP!Stream!Drop) /\ (Stream!Drop <=> Call!Stream!Drop)
  BY Zenon DEF Stream!Give, Call!Stream!Give, CallP!Stream!Give, Stream!Drop, Call!Stream!Drop, CallP!Stream!Drop
<1>3. Stream!Init => CallP!Stream!Init
  BY <1>1 DEF Stream!Init, CallP!Stream!Init
<1>4. (Stream!End <=> CallP!Stream!End) /\ (Stream!End <=> Call!Stream!End)
  BY <1>1 DEF Stream!End, CallP!Stream!End, Call!Stream!End
<1> QED
  BY <1>2, <1>3, <1>4

LEMMA SameNext == (Call!Next <=> CallP!Next) /\ (UNCHANGED Call!vars <=> UNCHANGED CallP!vars)
<1>1. Call!Items = Entries /\ CallP!Items = Entries
  BY ItemsAreEntries DEF Call!Items, CallP!Items
<1>2. Call!Pull <=> CallP!Pull
  BY <1>1, SameSteps, SameStream DEF Call!Pull, CallP!Pull
<1>3. (Call!WalkEnded <=> CallP!WalkEnded) /\ (Call!WalkFailed <=> CallP!WalkFailed)
  BY SameSteps, SameStream DEF Call!WalkEnded, CallP!WalkEnded, Call!WalkFailed, CallP!WalkFailed
<1>4. UNCHANGED Call!vars <=> UNCHANGED CallP!vars
  BY DEF Call!vars, CallP!vars, Call!walk, CallP!walk, Call!account, CallP!account,
         Call!queue, CallP!queue, Call!pool, CallP!pool
<1> QED
  BY <1>2, <1>3, <1>4, SameSteps DEF Call!Next, CallP!Next, Call!CallerStep, CallP!CallerStep

-----------------------------------------------------------------------------
(* The invariant *)

LEMMA InitRunInv == ASSUME RunInit PROVE RunInv
<1>1. WalkInv
  BY InitIInv, InitTracking DEF RunInit, WalkInv, Init, ClosesOnce, Over
<1>2. CallP!IInv
  BY CallAssumed, SameInit, CallP!InitIInv DEF RunInit
<1>3. Link
  BY DEF RunInit, Init, Call!Init, Link
<1> QED
  BY <1>1, <1>2, <1>3 DEF RunInv

\* What leaves the state of the call alone, but for what it sees of the walk.
LEMMA CallUnchanged ==
  ASSUME UNCHANGED callVars, seen' = seen, State' = State, Gap' = Gap, cancelled' = cancelled
  PROVE  UNCHANGED CallP!vars
  BY DEF callVars, CallP!vars, CallP!walk, CallP!queue, CallP!pool, CallP!account

LEMMA WalkUnchanged ==
  ASSUME UNCHANGED vars
  PROVE  seen' = seen /\ State' = State /\ Gap' = Gap /\ consumer' = consumer /\ cancelled' = cancelled
  BY DEF vars, reader, State, Gap

\* A listing worker takes a step the call may see only as a page given up, and only
\* while somebody may still miss the page.
LEMMA ListParts ==
  ASSUME RunInv, NEW w \in Workers, List(w)
  PROVE  [Next]_vars /\ [CallP!Next]_(CallP!vars) /\ Link'
<1>1. Walking /\ Step(w) /\ UNCHANGED callVars
  BY DEF List
<1>2. consumer' = consumer /\ seen' = seen /\ State' = State /\ (Gap' = TRUE \/ Gap' = Gap)
  BY <1>1, WorkerMaps
<1>3. caller' = caller /\ cancelled' = cancelled
  BY <1>1 DEF callVars, Step, TakeTask, NoMoreTasks, ListPage, CountTask, SendTask, Scan, Report,
              CountFile, SendItem, SendError, Finish, Close, Announce
<1>4. CASE Gap' = Gap
  BY <1>1, <1>2, <1>3, <1>4, CallUnchanged DEF RunInv, Link, Next
<1>5. CASE Gap' # Gap
  <2>1. Gap' = TRUE /\ ~Gap
    BY <1>2, <1>5 DEF Gap
  <2>2. consumer # "ended"
    BY <1>1, <1>5, IdleKeeps DEF RunInv, WalkInv, Over, Gap
  <2>3. (caller \in {"pull", "submit", "skip", "join"} /\ State = "open") \/ State = "dropped"
    BY <1>1, <2>2 DEF Walking, RunInv, Link, State
  <2>4. CallP!PageSkipped
    BY <1>1, <1>2, <1>3, <2>1, <2>3
    DEF callVars, CallP!PageSkipped, CallP!Stream!Skip, CallP!queue, CallP!pool, CallP!account
  <2> QED
    BY <1>1, <1>2, <1>3, <2>4 DEF RunInv, Link, Next, CallP!Next
<1> QED
  BY <1>4, <1>5

\* The loop reads the stream.
LEMMA TryNextParts ==
  ASSUME RunInv, TryNext
  PROVE  Next /\ CallP!Next /\ Link'
<1>1. Receive /\ IInv /\ Tracking /\ caller = "pull" /\ consumer = "reading"
  BY DEF TryNext, RunInv, WalkInv, Link
<1>2. CASE items # <<>> /\ Head(items) # Failure /\ Call!Handle(Head(items))
  <2>1. PICK h \in Entries : h = Head(items) /\ Stream!Give(h) /\ CallP!Handle(h)
    BY <1>1, <1>2, ReceiveMaps, SameSteps
  <2>2. CallP!Pull
    BY <2>1, ItemsAreEntries, SameStream DEF CallP!Pull
  <2>3. consumer' = IF cancelled THEN "stopped" ELSE "reading"
    BY <1>1, <1>2 DEF Receive
  <2>4. (cancelled /\ caller' = "join") \/ (~cancelled /\ caller' \in {"pull", "submit", "skip"})
    BY <1>1, <2>1 DEF CallP!Handle
  <2> QED
    BY <1>1, <2>2, <2>3, <2>4 DEF Next, CallP!Next, CallP!CallerStep, Link
<1>3. CASE items # <<>> /\ Head(items) = Failure /\ Call!LoopFails
  <2>1. CallP!WalkFailed
    BY <1>1, <1>3, ReceiveMaps, SameSteps, SameStream DEF CallP!WalkFailed
  <2>2. consumer' = "dropped" /\ caller' = "error"
    BY <1>1, <1>3 DEF Receive, Call!LoopFails
  <2> QED
    BY <1>1, <2>1, <2>2 DEF Next, CallP!Next, CallP!CallerStep, Link
<1>4. CASE items = <<>> /\ Call!LoopEnds
  <2>1. CallP!WalkEnded
    BY <1>1, <1>4, ReceiveMaps, SameSteps, SameStream DEF CallP!WalkEnded
  <2>2. consumer' = "ended" /\ caller' = "join"
    BY <1>1, <1>4 DEF Receive, Call!LoopEnds
  <2> QED
    BY <1>1, <2>1, <2>2 DEF Next, CallP!Next, CallP!CallerStep, Link
<1> QED
  BY <1>2, <1>3, <1>4 DEF TryNext

\* submit only fails when the token has sent all the workers away.
LEMMA SubmitParts ==
  ASSUME RunInv, Submit
  PROVE  [Next]_vars /\ CallP!Next /\ Link'
<1>1. CallP!Submit /\ caller = "submit" /\ consumer = "reading"
  BY SameSteps DEF Submit, Call!Submit, RunInv, Link
<1>2. CASE UNCHANGED vars /\ caller' = "pull"
  BY <1>1, <1>2, WalkUnchanged DEF Link, CallP!Next, CallP!CallerStep
<1>3. CASE LeaveLoop /\ caller' = "join"
  <2>1. \A w \in Downloaders : loader[w] = "exit"
    BY <1>1, <1>3 DEF CallP!Submit
  <2>2. cancelled
    BY <1>1, <2>1, RunAssumption DEF RunInv, CallP!IInv, CallP!Open
  <2>3. Stop
    BY <1>1, <1>3, <2>2 DEF LeaveLoop, Stop
  <2> QED
    BY <1>1, <1>3, <2>3 DEF LeaveLoop, Next, Link, CallP!Next, CallP!CallerStep
<1> QED
  BY <1>2, <1>3 DEF Submit

LEMMA JoinParts ==
  ASSUME RunInv, Join
  PROVE  [Next]_vars /\ CallP!Next /\ Link'
<1>1. CallP!Join /\ caller = "join" /\ consumer \in {"stopped", "ended"}
  BY SameSteps DEF Join, Call!Join, RunInv, Link
<1>2. CASE sender /\ UNCHANGED vars
  <2>1. caller' = "join"
    BY <1>1, <1>2 DEF CallP!Join
  <2> QED
    BY <1>1, <1>2, <2>1, WalkUnchanged DEF Link, CallP!Next, CallP!CallerStep
<1>3. CASE ~sender
  <2>1. caller' = "ok"
    BY <1>1, <1>3 DEF CallP!Join
  <2>2. (Leave /\ consumer' = "dropped") \/ (UNCHANGED vars /\ consumer = "ended")
    BY <1>1, <1>3 DEF Join, Leave
  <2> QED
    BY <1>1, <2>1, <2>2, WalkUnchanged DEF Next, Link, CallP!Next, CallP!CallerStep
<1> QED
  BY <1>2, <1>3 DEF Join

\* Every step is one of either part, or none of it.
LEMMA StepParts ==
  ASSUME RunInv, [RunNext]_runVars
  PROVE  [Next]_vars /\ [CallP!Next]_(CallP!vars) /\ Link'
<1>1. CASE Begin
  <2>1. CallP!Begin /\ UNCHANGED vars
    BY <1>1, SameSteps DEF Begin
  <2>2. caller = "start" /\ caller' \in {"pull", "error"} /\ consumer' = "reading"
    BY <2>1, WalkUnchanged DEF CallP!Begin, RunInv, Link
  <2> QED
    BY <2>1, <2>2 DEF Link, CallP!Next, CallP!CallerStep
<1>2. CASE TryNext \/ Submit \/ Join
  BY <1>2, TryNextParts, SubmitParts, JoinParts
<1>3. CASE ListSkipped
  <2>1. UNCHANGED vars /\ CallP!ListSkipped
    BY <1>3, SameSteps DEF ListSkipped
  <2>2. caller = "skip" /\ caller' = "pull" /\ consumer' = "reading"
    BY <2>1, WalkUnchanged DEF CallP!ListSkipped, RunInv, Link
  <2> QED
    BY <2>1, <2>2 DEF Link, CallP!Next, CallP!CallerStep
<1>4. CASE \E w \in Workers : List(w)
  BY <1>4, ListParts
<1>5. ASSUME NEW w \in Downloaders, Download(w)
      PROVE  [Next]_vars /\ [CallP!Next]_(CallP!vars) /\ Link'
  <2>1. UNCHANGED vars /\ CallP!Work(w)
    BY <1>5, SameSteps DEF Download
  <2>2. caller' = caller /\ consumer' = consumer
    BY <2>1, WalkUnchanged DEF CallP!Work, CallP!Receive, CallP!FinishJob, CallP!ListFailure
  <2> QED
    BY <2>1, <2>2 DEF RunInv, Link, CallP!Next
<1>6. CASE UserCancels
  <2>1. Cancel /\ UNCHANGED callVars
    BY <1>6 DEF UserCancels
  <2>2. seen' = seen /\ State' = State /\ Gap' = Gap /\ consumer' = consumer
    BY <2>1 DEF Cancel, reader, State, Gap
  <2>3. CallP!Cancel
    BY <2>1, <2>2 DEF Cancel, callVars, CallP!Cancel, CallP!walk, CallP!queue, CallP!pool, CallP!account
  <2> QED
    BY <2>1, <2>2, <2>3 DEF Next, callVars, RunInv, Link, CallP!Next
<1>7. CASE UNCHANGED runVars
  <2>1. UNCHANGED vars /\ UNCHANGED callVars
    BY <1>7 DEF runVars
  <2>2. caller' = caller /\ consumer' = consumer
    BY <2>1, WalkUnchanged DEF callVars
  <2> QED
    BY <2>1, <2>2, WalkUnchanged, CallUnchanged DEF RunInv, Link
<1> QED
  BY <1>1, <1>2, <1>4, <1>5, <1>6, <1>7, <1>3 DEF RunNext, CallerStep

LEMMA StepRunInv == ASSUME RunInv, [RunNext]_runVars PROVE RunInv'
<1>1. [Next]_vars /\ [CallP!Next]_(CallP!vars) /\ Link'
  BY StepParts
<1>2. CallP!IInv'
  BY <1>1, CallAssumed, CallP!StepIInv DEF RunInv
<1>3. IInv'
  BY <1>1, StepTypeOK, StepHolding, StepPending, StepClosing DEF RunInv, WalkInv, IInv
<1>4. Tracking' /\ ClosesOnce' /\ Over'
  BY <1>1, TrackingKept, ClosesOnceKept, OverKept DEF RunInv, WalkInv
<1> QED
  BY <1>1, <1>2, <1>3, <1>4 DEF RunInv, WalkInv

LEMMA RunInvHolds == RunSpec => []RunInv
  BY InitRunInv, StepRunInv, PTL DEF RunSpec

-----------------------------------------------------------------------------
(* The theorems *)

\* The composition implements both of its parts, for every tree, any number of
\* workers and every size of the channels: the walk is read by a consumer as
\* ParallelWalker assumes one, and DownloadAll reads a stream that keeps the
\* promises of WalkStream.
THEOREM RunImplementsParts == RunSpec => ImplementsParts
<1>1. RunInit => Init /\ Call!Init
  BY DEF RunInit
<1>2. ASSUME RunInv, [RunNext]_runVars PROVE [Next]_vars /\ [Call!Next]_(Call!vars)
  <2>1. [Next]_vars /\ (CallP!Next \/ UNCHANGED CallP!vars)
    BY <1>2, StepParts
  <2> QED
    BY <2>1, SameNext
<1> QED
  BY <1>1, <1>2, RunInvHolds, PTL DEF RunSpec, ImplementsParts, Spec, Call!Spec

\* A walk whose files were all asked for has ended.
LEMMA CompleteHasEnded ==
  ASSUME RunInv, Complete
  PROVE  /\ IInv /\ Tracking /\ ClosesOnce /\ Over /\ consumer = "ended"
         /\ \A w \in Workers : pc[w] \notin BusyPC
<1>1. State = "ended"
  BY DEF RunInv, Complete, CallP!IInv, CallP!Ending
<1>2. consumer = "ended"
  BY <1>1 DEF State
<1>3. IInv /\ Tracking /\ ClosesOnce /\ Over
  BY DEF RunInv, WalkInv
<1> QED
  BY <1>2, <1>3, NoSenderIsIdle DEF Over

\* No error of a listing worker is passed over: it comes before the end of the
\* stream, and the loop that meets it does not return Ok.
THEOREM ErrorsAlwaysSurface == RunSpec => []ErrorsSurface
<1>1. RunInv => ErrorsSurface
  BY CompleteHasEnded, NoErrorAtTheEnd DEF ErrorsSurface
<1> QED
  BY <1>1, RunInvHolds, PTL

\* The two counts of files, one kept by the listing workers and one added up by the
\* download workers and the caller, agree when download_all returns Ok.
THEOREM ResultAlwaysMatchesWalk == RunSpec => []ResultMatchesWalk
<1>1. ASSUME RunInv, Complete
      PROVE  /\ Call!Succeeded + stats.failed = files
             /\ \A i \in DOMAIN finished : finished[i] = files
  <2>1. files = Cardinality({f \in Files : seen[f] = 1})
    BY <1>1, CompleteHasEnded, GivenAreCounted
  <2>2. CallP!Given = {f \in Files : seen[f] = 1}
    BY RunAssumption DEF CallP!Given
  <2>3. CallP!Succeeded + stats.failed = CallP!Cardinality(CallP!Given)
    BY <1>1, CallAssumed, CallP!OkIsComplete DEF RunInv, Complete
  <2>4. Call!Succeeded = CallP!Succeeded
    BY DEF Call!Succeeded, CallP!Succeeded
  <2>5. finished \in {<<>>, <<files>>}
    BY <1>1, CompleteHasEnded DEF ClosesOnce
  <2>6. CallP!Cardinality(CallP!Given) = Cardinality(CallP!Given)
    BY SameFinite
  <2>7. Call!Succeeded + stats.failed = files
    BY <2>1, <2>2, <2>3, <2>4, <2>6
  <2>8. \A i \in DOMAIN finished : finished[i] = files
    <3>1. CASE finished = <<>>
      BY <3>1
    <3>2. CASE finished = <<files>>
      BY <3>2
    <3> QED
      BY <2>5, <3>1, <3>2
  <2> QED
    BY <2>7, <2>8
<1> QED
  BY <1>1, RunInvHolds, PTL DEF ResultMatchesWalk

\* Ok means over: no page is left to list, no listing under way, no entry unread.
THEOREM OkLeavesNothing == RunSpec => []NothingLeft
<1>1. ASSUME RunInv, Complete
      PROVE  tasks = <<>> /\ items = <<>> /\ \A w \in Workers : ~Busy(w)
  <2>1. /\ IInv /\ consumer = "ended" /\ Over
        /\ \A w \in Workers : pc[w] \notin BusyPC
    BY <1>1, CompleteHasEnded
  <2>2. closed
    BY <1>1, <2>1, WalkAssumption DEF Complete, Over, NoSender
  <2>3. LabelsOK
    BY <2>1, TypeParts DEF IInv
  <2> QED
    BY <2>1, <2>2, <2>3, ClosedIsIdle DEF Over, Busy, BusyPC, LabelsOK
<1> QED
  BY <1>1, RunInvHolds, PTL DEF NothingLeft
=============================================================================
