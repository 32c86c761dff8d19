------------------------ MODULE ParallelWalkerProofs ------------------------
(***************************************************************************)
(* Proofs about the parallel walk, for every tree, every number of workers *)
(* and every size of page and buffer: the counter that ends the walk is    *)
(* exact, so the channels are closed with nothing left to do; the walk     *)
(* implements WalkStream, which needs an account of where every entry of   *)
(* the tree is; and the end it announces carries the final counts.         *)
(***************************************************************************)
EXTENDS ParallelWalker, FiniteSetTheorems, SequenceTheorems, TLAPS

BusyPC == WorkerPC \ {"recv", "close", "announce", "exit"}
SendPC == {"sendPage", "sendDir"}

\* How many workers are at one of the labels L.
At(p, L) == Cardinality({w \in Workers : p[w] \in L})

\* 1 for a label of L, 0 for any other.
One(x, L) == IF x \in L THEN 1 ELSE 0

\* What a worker that is about to send something still holds of it.
Holding ==
  \A w \in Workers :
    /\ pc[w] = "sendPage" => more[w] # <<>>
    /\ pc[w] = "sendDir" => rest[w] # <<>> /\ Head(rest[w]) \in Dirs
    /\ pc[w] = "sendItem" => rest[w] # <<>>

\* The walk is closed, or being closed, only with no task left.
Closing == closed \/ (\E w \in Workers : pc[w] \in {"close", "announce"}) => pending = 0

IInv == TypeOK /\ Holding /\ PendingExact /\ Closing

-----------------------------------------------------------------------------
(* Lists of pages and entries *)

LEMMA ListOf == ASSUME NEW S, NEW k \in Nat, NEW f \in [1..k -> S] PROVE f \in Seq(S)
  BY SeqDef

\* What a worker enqueues for a page are pages.
LEMMA FurtherPagesType == ASSUME NEW p \in Page PROVE FurtherPages(p) \in Seq(Page)
<1> USE TreeAssumption DEF Page
<1>1. Len(Content[p.dir]) \in Nat
  OBVIOUS
<1>2. CASE p.dir \in KnownTotal /\ p.offset = 0
  <2> DEFINE n == (Len(Content[p.dir]) + PageSize - 1) \div PageSize - 1
             f == [i \in 1..n |-> [dir |-> p.dir, offset |-> i * PageSize]]
  <2>1. n \in Int
    BY <1>1
  <2>2. \A i \in 1..n : i * PageSize \in Nat
    BY <2>1
  <2> HIDE DEF n
  <2>3. f \in [1..n -> Page]
    BY <2>2
  <2>4. \E k \in Nat : 1..n = 1..k
    <3>1. CASE n \in Nat
      BY <3>1
    <3>2. CASE n \notin Nat
      BY <2>1, <3>2, 1..n = 1..0
    <3> QED
      BY <3>1, <3>2
  <2>5. f = FurtherPages(p)
    BY <1>2 DEF FurtherPages, n
  <2> HIDE DEF f
  <2>6. PICK k \in Nat : f \in [1..k -> Page]
    BY <2>3, <2>4
  <2>7. f \in Seq(Page)
    BY <2>6, ListOf
  <2> QED
    BY <2>5, <2>7
<1>3. CASE p.dir \in KnownTotal /\ p.offset # 0
  BY <1>3 DEF FurtherPages
<1>4. CASE p.dir \notin KnownTotal
  <2> DEFINE q == [dir |-> p.dir, offset |-> p.offset + PageSize]
  <2>1. q \in Page
    OBVIOUS
  <2>2. FurtherPages(p) \in {<<q>>, <<>>}
    BY <1>4 DEF FurtherPages
  <2> HIDE DEF q
  <2>3. <<q>> \in Seq(Page) /\ <<>> \in Seq(Page)
    BY <2>1, EmptySeq
  <2> QED
    BY <2>2, <2>3, Zenon
<1> QED
  BY <1>2, <1>3, <1>4

\* A page lists entries.
LEMMA PageAtType ==
  ASSUME NEW d \in Dirs, NEW o \in Nat PROVE PageAt(d, o) \in Seq(Entries)
<1>1. Content[d] \in Seq(Entries) /\ PageSize \in Nat
  BY TreeAssumption
<1> DEFINE n == IF o + PageSize < Len(Content[d]) THEN o + PageSize ELSE Len(Content[d])
<1>2. n \in Nat /\ n <= Len(Content[d])
  BY <1>1
<1> HIDE DEF n
<1>3. SubSeq(Content[d], o + 1, n) \in Seq(Entries)
  BY <1>1, <1>2
<1> QED
  BY <1>3 DEF PageAt, n

-----------------------------------------------------------------------------
(* Counting workers *)

\* One worker goes from one label to another.
LEMMA Move ==
  ASSUME NEW p \in [Workers -> WorkerPC], NEW w \in Workers, NEW l, NEW L
  PROVE  At([p EXCEPT ![w] = l], L) = At(p, L) + One(l, L) - One(p[w], L)
<1> DEFINE q == [p EXCEPT ![w] = l]
           A == {v \in Workers : p[v] \in L}
           B == {v \in Workers : q[v] \in L}
<1>1. IsFiniteSet(A) /\ Cardinality(A) \in Nat
  BY WalkAssumption, FS_Subset, FS_CardinalityType
<1>2. q[w] = l /\ \A v \in Workers \ {w} : q[v] = p[v]
  OBVIOUS
<1>3. CASE l \in L /\ p[w] \in L
  <2>1. A = B
    BY <1>2, <1>3
  <2> QED
    BY <1>1, <1>3, <2>1 DEF At, One
<1>4. CASE l \notin L /\ p[w] \notin L
  <2>1. A = B
    BY <1>2, <1>4
  <2> QED
    BY <1>1, <1>4, <2>1 DEF At, One
<1>5. CASE l \in L /\ p[w] \notin L
  <2>1. B = A \cup {w} /\ w \notin A
    BY <1>2, <1>5
  <2>2. Cardinality(B) = Cardinality(A) + 1
    BY <1>1, <2>1, FS_AddElement
  <2> QED
    BY <1>1, <1>5, <2>2 DEF At, One
<1>6. CASE l \notin L /\ p[w] \in L
  <2>1. B = A \ {w} /\ w \in A
    BY <1>2, <1>6
  <2>2. Cardinality(B) = Cardinality(A) - 1
    BY <1>1, <2>1, FS_RemoveElement
  <2> QED
    BY <1>1, <1>6, <2>2 DEF At, One
<1> QED
  BY <1>3, <1>4, <1>5, <1>6

LEMMA AtType == ASSUME NEW p, NEW L PROVE At(p, L) \in Nat
  BY WalkAssumption, FS_Subset, FS_CardinalityType DEF At

\* No worker is counted only if none is there.
LEMMA NoneThere ==
  ASSUME NEW p, NEW L, At(p, L) = 0 PROVE \A w \in Workers : p[w] \notin L
<1>1. IsFiniteSet({w \in Workers : p[w] \in L})
  BY WalkAssumption, FS_Subset
<1>2. {w \in Workers : p[w] \in L} = {}
  BY <1>1, FS_EmptySet DEF At
<1> QED
  BY <1>2

\* PendingExact in terms of the labels.
LEMMA PendingForm ==
  ASSUME pc \in [Workers -> WorkerPC]
  PROVE  PendingExact <=> pending = Len(tasks) + At(pc, BusyPC) + At(pc, SendPC)
<1>1. {w \in Workers : Busy(w)} = {w \in Workers : pc[w] \in BusyPC}
  BY DEF Busy, BusyPC
<1>2. {w \in Workers : Sending(w)} = {w \in Workers : pc[w] \in SendPC}
  BY DEF Sending, SendPC
<1> QED
  BY <1>1, <1>2 DEF PendingExact, At

LEMMA PendingFormNext ==
  ASSUME (pc \in [Workers -> WorkerPC])'
  PROVE  PendingExact' <=> pending' = Len(tasks') + At(pc', BusyPC) + At(pc', SendPC)
<1>1. {w \in Workers : Busy(w)}' = {w \in Workers : pc'[w] \in BusyPC}
  BY DEF Busy, BusyPC
<1>2. {w \in Workers : Sending(w)}' = {w \in Workers : pc'[w] \in SendPC}
  BY DEF Sending, SendPC
<1> QED
  BY <1>1, <1>2 DEF PendingExact, At

\* While a worker is busy a task is pending.
LEMMA BusyIsCounted ==
  ASSUME TypeOK, PendingExact, NEW w \in Workers, pc[w] \in BusyPC PROVE pending > 0
<1>1. pc \in [Workers -> WorkerPC] /\ Len(tasks) \in Nat
  BY DEF TypeOK
<1>2. At(pc, BusyPC) \in Nat /\ At(pc, SendPC) \in Nat
  BY AtType
<1>3. At(pc, BusyPC) # 0
  BY NoneThere
<1> QED
  BY <1>1, <1>2, <1>3, PendingForm

-----------------------------------------------------------------------------
(* The invariant *)

\* TypeOK in four parts: the workers' labels, their pages, the two channels, and
\* what else is shared.
LabelsOK == pc \in [Workers -> WorkerPC]

PagesOK ==
  /\ task \in [Workers -> Page]
  /\ more \in [Workers -> Seq(Page)]
  /\ rest \in [Workers -> Seq(Entries)]
  /\ batch \in [Workers -> Nat]

QueuesOK ==
  /\ tasks \in Seq(Page)
  /\ items \in Seq(Entries \cup {Failure}) /\ Len(items) <= ItemBuffer

SharedOK ==
  /\ pending \in Nat
  /\ closed \in BOOLEAN /\ cancelled \in BOOLEAN
  /\ partial \subseteq {"failed", "skipped"}
  /\ scanned \in Nat /\ files \in Nat
  /\ consumer \in {"reading", "stopped", "dropped", "ended"}
  /\ seen \in [Entries -> Nat]
  /\ shown \in Seq(Nat) /\ finished \in Seq(Nat)

LEMMA TypeParts ==
  /\ TypeOK <=> LabelsOK /\ PagesOK /\ QueuesOK /\ SharedOK
  /\ TypeOK' <=> LabelsOK' /\ PagesOK' /\ QueuesOK' /\ SharedOK'
  BY Zenon DEF TypeOK, LabelsOK, PagesOK, QueuesOK, SharedOK

LEMMA InitIInv == ASSUME Init PROVE IInv
<1> USE TreeAssumption, WalkAssumption
<1>1. TypeOK
  <2>1. NoPage \in Page
    BY DEF NoPage, Page
  <2>2. LabelsOK
    BY DEF Init, LabelsOK, WorkerPC
  <2>3. PagesOK
    BY <2>1 DEF Init, PagesOK
  <2>4. QueuesOK
    BY <2>1 DEF Init, QueuesOK
  <2>5. SharedOK
    <3>1. seen \in [Entries -> Nat]
      BY DEF Init
    <3> QED
      BY <3>1, EmptySeq DEF Init, SharedOK
  <2> QED
    BY <2>2, <2>3, <2>4, <2>5, TypeParts
<1>2. At(pc, BusyPC) = 0 /\ At(pc, SendPC) = 0
  <2>1. {w \in Workers : pc[w] \in BusyPC} = {} /\ {w \in Workers : pc[w] \in SendPC} = {}
    BY DEF Init, BusyPC, SendPC
  <2> QED
    BY <2>1, FS_EmptySet DEF At
<1>3. PendingExact
  <2>1. Len(tasks) = 1 /\ pending = 1 /\ pc \in [Workers -> WorkerPC]
    BY <1>1 DEF Init, TypeOK
  <2> QED
    BY <1>2, <2>1, PendingForm
<1> QED
  BY <1>1, <1>3 DEF Init, IInv, Holding, Closing

\* A step moves no worker to a place that does not exist.
LEMMA StepLabels ==
  ASSUME LabelsOK, NEW w \in Workers, Step(w)
  PROVE  LabelsOK' /\ \E l \in WorkerPC : pc' = [pc EXCEPT ![w] = l]
<1>1. \E l \in WorkerPC : pc' = [pc EXCEPT ![w] = l]
  BY DEF Step, TakeTask, NoMoreTasks, ListPage, CountTask, SendTask, Scan, Report, CountFile,
         SendItem, SendError, Finish, Close, Announce, Goto, WorkerPC
<1> QED
  BY <1>1 DEF LabelsOK

\* A worker's step keeps the types of the channels: what it sends is a page, an
\* entry or an error.
LEMMA WorkerQueues ==
  ASSUME IInv, NEW w \in Workers, Step(w) PROVE QueuesOK'
<1> USE TreeAssumption, WalkAssumption DEF QueuesOK
<1>1. PagesOK /\ QueuesOK /\ Holding
  BY TypeParts DEF IInv
<1>2. CASE TakeTask(w)
  BY <1>1, <1>2 DEF TakeTask
<1>3. CASE SendTask(w)
  <2>1. tasks' \in Seq(Page)
    <3>1. CASE pc[w] = "sendPage"
      <4>1. Head(more[w]) \in Page
        BY <1>1, <3>1 DEF Holding, PagesOK
      <4>2. tasks' = Append(tasks, Head(more[w]))
        BY <1>3, <3>1 DEF SendTask
      <4>3. tasks \in Seq(Page)
        BY <1>1
      <4> QED
        BY <4>1, <4>2, <4>3, AppendProperties, Zenon
    <3>2. CASE pc[w] = "sendDir"
      <4> DEFINE q == [dir |-> Head(rest[w]), offset |-> 0]
      <4>1. q \in Page
        BY <1>1, <3>2 DEF Holding, Page
      <4>2. tasks' = Append(tasks, q)
        BY <1>3, <3>2 DEF SendTask
      <4> HIDE DEF q
      <4>3. tasks \in Seq(Page)
        BY <1>1
      <4>4. Append(tasks, q) \in Seq(Page)
        BY <4>1, <4>3, AppendProperties, Zenon
      <4> QED
        BY <4>2, <4>4
    <3> QED
      BY <1>3, <3>1, <3>2 DEF SendTask
  <2> QED
    BY <1>1, <1>3, <2>1 DEF SendTask
<1>4. CASE SendItem(w)
  <2>1. Head(rest[w]) \in Entries \cup {Failure}
    BY <1>1, <1>4 DEF SendItem, Holding, PagesOK
  <2>2. /\ Append(items, Head(rest[w])) \in Seq(Entries \cup {Failure})
        /\ Len(Append(items, Head(rest[w]))) = Len(items) + 1
    BY <1>1, <2>1, AppendProperties
  <2>3. Len(items) < ItemBuffer => Len(items) + 1 <= ItemBuffer
    BY <1>1
  <2> QED
    BY <1>1, <1>4, <2>2, <2>3 DEF SendItem
<1>5. CASE SendError(w)
  <2>1. /\ Append(items, Failure) \in Seq(Entries \cup {Failure})
        /\ Len(Append(items, Failure)) = Len(items) + 1
    BY <1>1, AppendProperties
  <2>2. UNCHANGED tasks /\ tasks \in Seq(Page)
    BY <1>1, <1>5 DEF SendError
  <2>3. CASE Len(items) < ItemBuffer /\ items' = Append(items, Failure)
    <3>1. Len(items) \in Nat /\ Len(items) + 1 <= ItemBuffer
      BY <1>1, <2>3
    <3> QED
      BY <2>1, <2>2, <2>3, <3>1
  <2>4. CASE UNCHANGED items
    BY <1>1, <2>2, <2>4
  <2>5. (Len(items) < ItemBuffer /\ items' = Append(items, Failure)) \/ UNCHANGED items
    BY <1>5, Zenon DEF SendError
  <2> QED
    BY <2>3, <2>4, <2>5
<1>6. CASE NoMoreTasks(w) \/ ListPage(w) \/ CountTask(w) \/ Scan(w) \/ Report(w)
           \/ CountFile(w) \/ Finish(w) \/ Close(w) \/ Announce(w)
  BY <1>1, <1>6 DEF NoMoreTasks, ListPage, CountTask, Scan, Report, CountFile, Finish, Close,
                    Announce, channels
<1> QED
  BY <1>2, <1>3, <1>4, <1>5, <1>6 DEF Step

\* What a worker notes of its page keeps its type.
LEMMA WorkerPages ==
  ASSUME IInv, NEW w \in Workers, Step(w) PROVE PagesOK'
<1> USE DEF PagesOK
<1>1. PagesOK /\ QueuesOK /\ SharedOK /\ Holding
  BY TypeParts DEF IInv
<1>2. CASE TakeTask(w)
  <2>1. Head(tasks) \in Page
    BY <1>1, <1>2 DEF TakeTask, QueuesOK
  <2> QED
    BY <1>1, <1>2, <2>1 DEF TakeTask
<1>3. CASE ListPage(w)
  <2>1. FurtherPages(task[w]) \in Seq(Page) /\ PageAt(task[w].dir, task[w].offset) \in Seq(Entries)
    <3>1. task[w] \in Page /\ task[w].dir \in Dirs /\ task[w].offset \in Nat
      BY <1>1 DEF Page
    <3> QED
      BY <3>1, FurtherPagesType, PageAtType
  <2> QED
    BY <1>1, <1>3, <2>1 DEF ListPage
<1>4. CASE SendTask(w)
  <2>1. pc[w] = "sendPage" => Tail(more[w]) \in Seq(Page)
    BY <1>1 DEF Holding
  <2> QED
    BY <1>1, <1>4, <2>1 DEF SendTask
<1>5. CASE Scan(w)
  <2>1. scanned' \in Nat
    BY <1>1, <1>5 DEF Scan, SharedOK
  <2> QED
    BY <1>1, <1>5, <2>1 DEF Scan
<1>6. CASE SendItem(w)
  <2>1. Tail(rest[w]) \in Seq(Entries)
    BY <1>1, <1>6 DEF SendItem, Holding
  <2> QED
    BY <1>1, <1>6, <2>1 DEF SendItem
<1>7. CASE NoMoreTasks(w) \/ CountTask(w) \/ Report(w) \/ CountFile(w) \/ SendError(w)
           \/ Finish(w) \/ Close(w) \/ Announce(w)
  BY <1>1, <1>7 DEF NoMoreTasks, CountTask, Report, CountFile, SendError, Finish, Close, Announce
<1> QED
  BY <1>2, <1>3, <1>4, <1>5, <1>6, <1>7 DEF Step

\* So does what the workers share; the counter never falls below zero.
LEMMA WorkerShared ==
  ASSUME IInv, NEW w \in Workers, Step(w) PROVE SharedOK'
<1> USE DEF SharedOK
<1>1. PagesOK /\ SharedOK
  BY TypeParts DEF IInv
<1>2. CASE Scan(w)
  <2>1. scanned' \in Nat
    BY <1>1, <1>2 DEF Scan, PagesOK
  <2> QED
    BY <1>1, <1>2, <2>1 DEF Scan, channels, observer, reader
<1>3. CASE Report(w)
  <2>1. batch[w] \in Nat
    BY <1>1 DEF PagesOK
  <2> QED
    BY <1>1, <1>3, <2>1 DEF Report, channels, counters, reader
<1>4. CASE Finish(w)
  <2>1. pc[w] \in BusyPC
    BY <1>4 DEF Finish, BusyPC, WorkerPC
  <2>2. pending > 0
    BY <2>1, BusyIsCounted DEF IInv
  <2> QED
    BY <1>1, <1>4, <2>2 DEF Finish, channels, counters, observer, reader
<1>5. CASE Announce(w)
  BY <1>1, <1>5 DEF Announce, channels, counters, reader
<1>6. CASE TakeTask(w) \/ ListPage(w) \/ SendItem(w)
  <2>1. partial' \in {partial, partial \cup {"failed"}, partial \cup {"skipped"}}
    BY <1>6 DEF TakeTask, ListPage, SendItem
  <2>2. partial' \subseteq {"failed", "skipped"}
    BY <1>1, <2>1
  <2>3. UNCHANGED <<closed, pending, counters, observer, reader, cancelled>>
    BY <1>6 DEF TakeTask, ListPage, SendItem, channels
  <2> QED
    BY <1>1, <2>2, <2>3 DEF counters, observer, reader
<1>7. CASE CountTask(w)
  BY <1>1, <1>7 DEF CountTask, channels, counters, observer, reader
<1>8. CASE CountFile(w)
  BY <1>1, <1>8 DEF CountFile, channels, observer, reader
<1>9. CASE NoMoreTasks(w) \/ SendTask(w) \/ SendError(w)
  <2>1. UNCHANGED <<closed, pending, counters, observer, reader, cancelled, partial>>
    BY <1>9 DEF NoMoreTasks, SendTask, SendError, channels
  <2> QED
    BY <1>1, <2>1 DEF counters, observer, reader
<1>10. CASE Close(w)
  BY <1>1, <1>10 DEF Close, counters, observer, reader
<1> QED
  BY <1>2, <1>3, <1>4, <1>5, <1>6, <1>7, <1>8, <1>9, <1>10 DEF Step

\* So does everything else that happens.
LEMMA OtherTypeOK ==
  ASSUME IInv, Receive \/ Stop \/ Leave \/ Cancel \/ UNCHANGED vars PROVE TypeOK'
<1>1. LabelsOK /\ PagesOK /\ QueuesOK /\ SharedOK
  BY TypeParts DEF IInv
<1>2. LabelsOK' /\ PagesOK'
  BY <1>1 DEF LabelsOK, PagesOK, Receive, Stop, Leave, Cancel, vars, locals
<1>3. QueuesOK'
  <2>1. tasks' = tasks /\ (items' = items \/ items' = <<>> \/ (items # <<>> /\ items' = Tail(items)))
    BY DEF Receive, Stop, Leave, Cancel, vars, channels
  <2>2. <<>> \in Seq(Entries \cup {Failure}) /\ Len(<<>>) <= ItemBuffer
    BY WalkAssumption
  <2>3. items # <<>> => /\ Tail(items) \in Seq(Entries \cup {Failure})
                        /\ Len(Tail(items)) <= ItemBuffer
    BY <1>1, WalkAssumption DEF QueuesOK
  <2> QED
    BY <1>1, <2>1, <2>2, <2>3 DEF QueuesOK
<1>4. SharedOK'
  <2>1. seen' \in [Entries -> Nat]
    <3>1. CASE Receive /\ items # <<>> /\ Head(items) # Failure
      <4>1. Head(items) \in Entries
        BY <1>1, <3>1 DEF QueuesOK
      <4> QED
        BY <1>1, <3>1, <4>1 DEF Receive, SharedOK
    <3>2. CASE ~(Receive /\ items # <<>> /\ Head(items) # Failure)
      BY <1>1, <3>2 DEF Receive, Stop, Leave, Cancel, vars, reader, SharedOK
    <3> QED
      BY <3>1, <3>2
  <2> QED
    BY <1>1, <2>1 DEF Receive, Stop, Leave, Cancel, vars, SharedOK, channels, counters, observer, reader
<1> QED
  BY <1>2, <1>3, <1>4, TypeParts

LEMMA StepTypeOK == ASSUME IInv, [Next]_vars PROVE TypeOK'
<1>1. ASSUME NEW w \in Workers, Step(w) PROVE TypeOK'
  <2>1. LabelsOK
    BY TypeParts DEF IInv
  <2> QED
    BY <1>1, <2>1, StepLabels, WorkerQueues, WorkerPages, WorkerShared, TypeParts
<1> QED
  BY <1>1, OtherTypeOK DEF Next

\* Between counting a task and sending it a worker keeps what it will send.
LEMMA StepHolding ==
  ASSUME IInv, [Next]_vars PROVE Holding'
<1> USE DEF Holding
<1>1. LabelsOK /\ PagesOK /\ Holding
  BY TypeParts DEF IInv
<1>2. ASSUME NEW w \in Workers, Step(w), NEW v \in Workers, v # w
      PROVE  UNCHANGED <<pc[v], more[v], rest[v]>>
  BY <1>1, <1>2 DEF Step, TakeTask, NoMoreTasks, ListPage, CountTask, SendTask, Scan, Report,
     CountFile, SendItem, SendError, Finish, Close, Announce, Goto, LabelsOK, PagesOK
<1>3. ASSUME NEW w \in Workers, Step(w)
      PROVE  /\ pc'[w] = "sendPage" => more'[w] # <<>>
             /\ pc'[w] = "sendDir" => rest'[w] # <<>> /\ Head(rest'[w]) \in Dirs
             /\ pc'[w] = "sendItem" => rest'[w] # <<>>
  <2>1. CASE CountTask(w)
    BY <1>1, <2>1 DEF CountTask, Goto, LabelsOK
  <2>2. CASE SendTask(w)
    BY <1>1, <2>2 DEF SendTask, Goto, LabelsOK
  <2>3. CASE CountFile(w)
    BY <1>1, <2>3 DEF CountFile, Goto, LabelsOK
  <2>4. CASE ~(CountTask(w) \/ SendTask(w) \/ CountFile(w))
    <3>1. pc'[w] \notin {"sendPage", "sendDir", "sendItem"}
      BY <1>1, <1>3, <2>4 DEF Step, TakeTask, NoMoreTasks, ListPage, Scan, Report,
         SendItem, SendError, Finish, Close, Announce, Goto, LabelsOK
    <3> QED
      BY <3>1
  <2> QED
    BY <2>1, <2>2, <2>3, <2>4
<1>4. CASE Receive \/ Stop \/ Leave \/ Cancel \/ UNCHANGED vars
  BY <1>1, <1>4 DEF Receive, Stop, Leave, Cancel, vars, locals
<1>5. ASSUME NEW w \in Workers, Step(w) PROVE Holding'
  <2>1. ASSUME NEW v \in Workers, v # w
        PROVE  /\ pc'[v] = "sendPage" => more'[v] # <<>>
               /\ pc'[v] = "sendDir" => rest'[v] # <<>> /\ Head(rest'[v]) \in Dirs
               /\ pc'[v] = "sendItem" => rest'[v] # <<>>
    BY <1>1, <1>2, <1>5, <2>1
  <2> QED
    BY <1>3, <1>5, <2>1
<1> QED
  BY <1>4, <1>5 DEF Next

\* Every step keeps the counter exact: what a worker adds to it, it sends; what
\* it takes off, it has taken from the channel and is through with.
LEMMA StepPending ==
  ASSUME IInv, [Next]_vars PROVE PendingExact'
<1>1. LabelsOK /\ PagesOK /\ QueuesOK /\ SharedOK
  BY TypeParts DEF IInv
<1>2. pending = Len(tasks) + At(pc, BusyPC) + At(pc, SendPC)
  BY <1>1, PendingForm DEF IInv, LabelsOK
<1>3. LabelsOK' /\ QueuesOK'
  BY StepTypeOK, TypeParts
<1>4. ASSUME NEW w \in Workers, Step(w)
      PROVE  pending' = Len(tasks') + At(pc', BusyPC) + At(pc', SendPC)
  <2>1. PICK l \in WorkerPC : pc' = [pc EXCEPT ![w] = l]
    BY <1>1, <1>4, StepLabels
  <2>2. pc[w] \in WorkerPC /\ pc'[w] = l
    BY <1>1, <2>1 DEF LabelsOK
  <2>3. /\ At(pc, BusyPC) \in Nat /\ At(pc, SendPC) \in Nat
        /\ At(pc', BusyPC) = At(pc, BusyPC) + One(l, BusyPC) - One(pc[w], BusyPC)
        /\ At(pc', SendPC) = At(pc, SendPC) + One(l, SendPC) - One(pc[w], SendPC)
    <3>1. pc \in [Workers -> WorkerPC]
      BY <1>1 DEF LabelsOK
    <3>2. At([pc EXCEPT ![w] = l], BusyPC) = At(pc, BusyPC) + One(l, BusyPC) - One(pc[w], BusyPC)
      BY <3>1, Move
    <3>3. At([pc EXCEPT ![w] = l], SendPC) = At(pc, SendPC) + One(l, SendPC) - One(pc[w], SendPC)
      BY <3>1, Move
    <3> QED
      BY <2>1, <3>2, <3>3, AtType
  <2>4. Len(tasks) \in Nat /\ Len(tasks') \in Nat /\ pending \in Nat
    BY <1>1, <1>3 DEF QueuesOK, SharedOK
  <2>5. (pending' - pending) - (Len(tasks') - Len(tasks)) =
          (One(l, BusyPC) - One(pc[w], BusyPC)) + (One(l, SendPC) - One(pc[w], SendPC))
    <3> USE DEF BusyPC, SendPC, WorkerPC, One
    <3>1. CASE TakeTask(w)
      <4>1. Len(tasks') = Len(tasks) - 1
        BY <1>1, <3>1 DEF TakeTask, QueuesOK
      <4>2. pc[w] = "recv" /\ l \in {"list", "quit"} /\ pending' = pending
        BY <1>1, <2>2, <3>1 DEF TakeTask, Goto, LabelsOK
      <4> QED
        BY <2>4, <4>1, <4>2
    <3>2. CASE CountTask(w)
      <4>1. tasks' = tasks /\ pending' = pending + 1
        BY <3>2 DEF CountTask, channels
      <4>2. pc[w] \in {"pages", "items"} /\ l \in SendPC
        BY <1>1, <2>2, <3>2 DEF CountTask, Goto, LabelsOK
      <4> QED
        BY <2>4, <4>1, <4>2
    <3>3. CASE SendTask(w)
      <4>1. \E x : tasks' = Append(tasks, x)
        BY <3>3 DEF SendTask
      <4>2. Len(tasks') = Len(tasks) + 1
        BY <1>1, <4>1 DEF QueuesOK
      <4>3. pc[w] \in SendPC /\ l \in {"pages", "sendItem"} /\ pending' = pending
        BY <1>1, <2>2, <3>3 DEF SendTask, Goto, LabelsOK
      <4> QED
        BY <2>4, <4>2, <4>3
    <3>4. CASE Finish(w)
      <4>1. tasks' = tasks /\ pending' = pending - 1
        BY <3>4 DEF Finish, channels
      <4>2. pc[w] \in {"finish", "quit"} /\ l \in {"close", "exit", "recv"}
        BY <1>1, <2>2, <3>4 DEF Finish, Goto, LabelsOK
      <4> QED
        BY <2>4, <4>1, <4>2
    <3>5. CASE NoMoreTasks(w) \/ ListPage(w) \/ Scan(w) \/ Report(w) \/ CountFile(w)
               \/ SendItem(w) \/ SendError(w) \/ Close(w) \/ Announce(w)
      <4>1. tasks' = tasks /\ pending' = pending
        BY <3>5 DEF NoMoreTasks, ListPage, Scan, Report, CountFile, SendItem, SendError,
                    Close, Announce, channels
      <4>2. /\ One(l, BusyPC) = One(pc[w], BusyPC)
            /\ pc[w] \notin SendPC /\ l \notin SendPC
        BY <1>1, <2>2, <3>5 DEF NoMoreTasks, ListPage, Scan, Report, CountFile, SendItem,
                                SendError, Close, Announce, Goto, LabelsOK
      <4> QED
        BY <2>4, <4>1, <4>2
    <3> QED
      BY <1>4, <3>1, <3>2, <3>3, <3>4, <3>5 DEF Step
  <2>6. pending' \in Int
    BY StepTypeOK DEF TypeOK
  <2>7. One(l, BusyPC) \in Int /\ One(pc[w], BusyPC) \in Int /\ One(l, SendPC) \in Int /\ One(pc[w], SendPC) \in Int
    BY DEF One
  <2>8. At(pc', BusyPC) \in Int /\ At(pc', SendPC) \in Int
    BY AtType
  <2>9. PICK p0 \in Int, p1 \in Int, t0 \in Int, t1 \in Int :
          p0 = pending /\ p1 = pending' /\ t0 = Len(tasks) /\ t1 = Len(tasks')
    BY <2>4, <2>6
  <2>10. PICK x \in Int, y \in Int :
           /\ x = One(l, BusyPC) - One(pc[w], BusyPC)
           /\ y = One(l, SendPC) - One(pc[w], SendPC)
    BY <2>7
  <2>11. (p1 - p0) - (t1 - t0) = x + y
    BY <2>5, <2>9, <2>10
  <2>12. PICK b0 \in Int, b1 \in Int, s0 \in Int, s1 \in Int :
           /\ b0 = At(pc, BusyPC) /\ b1 = At(pc', BusyPC)
           /\ s0 = At(pc, SendPC) /\ s1 = At(pc', SendPC)
    BY <2>3, <2>8
  <2>13. b1 = b0 + x /\ s1 = s0 + y
    BY <2>3, <2>7, <2>10, <2>12
  <2>14. p0 = t0 + b0 + s0
    BY <1>2, <2>9, <2>12
  <2>15. p1 = t1 + b1 + s1
    BY <2>11, <2>13, <2>14
  <2> QED
    BY <2>9, <2>12, <2>15
<1>5. CASE Receive \/ Stop \/ Leave \/ Cancel \/ UNCHANGED vars
  <2>1. pending' = pending /\ tasks' = tasks /\ pc' = pc
    BY <1>5 DEF Receive, Stop, Leave, Cancel, vars, channels, locals
  <2> QED
    BY <1>2, <1>3, <2>1, PendingFormNext DEF LabelsOK
<1>6. CASE \E w \in Workers : Step(w)
  BY <1>3, <1>4, <1>6, PendingFormNext DEF LabelsOK
<1> QED
  BY <1>5, <1>6 DEF Next

\* Only the worker whose task was the last begins to close, and then no task can
\* come any more: a worker that counts one is itself counted.
LEMMA StepClosing ==
  ASSUME IInv, [Next]_vars PROVE Closing'
<1>1. LabelsOK /\ SharedOK
  BY TypeParts DEF IInv
<1>2. ASSUME NEW w \in Workers, Step(w) PROVE Closing'
  <2>1. PICK l \in WorkerPC : pc' = [pc EXCEPT ![w] = l]
    BY <1>1, <1>2, StepLabels
  <2>2. pc'[w] = l /\ \A v \in Workers \ {w} : pc'[v] = pc[v]
    BY <1>1, <2>1 DEF LabelsOK
  <2>3. CASE CountTask(w)
    <3>1. pending > 0
      BY <1>1, <2>3, BusyIsCounted DEF CountTask, BusyPC, WorkerPC, IInv
    <3>2. ~closed /\ \A v \in Workers : pc[v] \notin {"close", "announce"}
      BY <3>1 DEF IInv, Closing
    <3>3. ~closed' /\ l \notin {"close", "announce"}
      BY <1>1, <2>2, <2>3, <3>2 DEF CountTask, channels, Goto, LabelsOK
    <3> QED
      BY <2>2, <3>2, <3>3 DEF Closing
  <2>4. CASE Finish(w)
    <3>1. pending > 0
      BY <1>1, <2>4, BusyIsCounted DEF Finish, BusyPC, WorkerPC, IInv
    <3>2. ~closed /\ \A v \in Workers : pc[v] \notin {"close", "announce"}
      BY <3>1 DEF IInv, Closing
    <3>3. ~closed' /\ pending' = pending - 1
      BY <2>4, <3>2 DEF Finish, channels
    <3>4. l \in {"close", "announce"} => pending = 1
      BY <1>1, <2>2, <2>4 DEF Finish, Goto, LabelsOK
    <3>5. pending = 1 => pending' = 0
      BY <3>3
    <3> QED
      BY <2>2, <3>2, <3>3, <3>4, <3>5 DEF Closing
  <2>5. CASE Close(w) \/ Announce(w)
    <3>1. pc[w] \in {"close", "announce"} /\ pending' = pending
      BY <2>5 DEF Close, Announce
    <3>2. pending' = 0
      BY <3>1 DEF IInv, Closing
    <3> QED
      BY <3>2 DEF Closing
  <2>6. CASE ~(CountTask(w) \/ Finish(w) \/ Close(w) \/ Announce(w))
    <3>1. closed' = closed /\ pending' = pending
      BY <1>2, <2>6 DEF Step, TakeTask, NoMoreTasks, ListPage, SendTask, Scan, Report, CountFile,
                        SendItem, SendError, channels
    <3>2. l \notin {"close", "announce"}
      BY <1>1, <1>2, <2>2, <2>6 DEF Step, TakeTask, NoMoreTasks, ListPage, SendTask, Scan, Report,
                        CountFile, SendItem, SendError, Goto, LabelsOK
    <3> QED
      BY <2>2, <3>1, <3>2 DEF IInv, Closing
  <2> QED
    BY <2>3, <2>4, <2>5, <2>6
<1>3. CASE Receive \/ Stop \/ Leave \/ Cancel \/ UNCHANGED vars
  BY <1>3 DEF Receive, Stop, Leave, Cancel, vars, channels, locals, IInv, Closing
<1> QED
  BY <1>2, <1>3 DEF Next

LEMMA InvariantHolds == Spec => []IInv
<1>1. IInv /\ [Next]_vars => IInv'
  BY StepTypeOK, StepHolding, StepPending, StepClosing DEF IInv
<1> QED
  BY <1>1, InitIInv, PTL DEF Spec

-----------------------------------------------------------------------------
(* The theorems *)

\* Every variable of the walk keeps its type; the counter of the tasks, from
\* which the code subtracts without a look, never falls below zero.
THEOREM WalkTypeOK == Spec => []TypeOK
  BY InvariantHolds, PTL DEF IInv

\* The counter is exact for any number of workers, any tree, any failures and
\* whenever the user cancels or the consumer leaves.
THEOREM PendingIsExact == Spec => []PendingExact
  BY InvariantHolds, PTL DEF IInv

\* Once the channels are closed no worker has anything to do.
LEMMA ClosedIsIdle ==
  ASSUME IInv, closed PROVE tasks = <<>> /\ \A w \in Workers : pc[w] \notin BusyPC
<1>1. LabelsOK /\ QueuesOK
  BY TypeParts DEF IInv
<1>2. pending = 0 /\ pending = Len(tasks) + At(pc, BusyPC) + At(pc, SendPC)
  BY <1>1, PendingForm DEF IInv, Closing, LabelsOK
<1>3. At(pc, BusyPC) \in Nat /\ At(pc, SendPC) \in Nat /\ Len(tasks) \in Nat
  BY <1>1, AtType DEF QueuesOK
<1>4. Len(tasks) = 0 /\ At(pc, BusyPC) = 0
  BY <1>2, <1>3
<1>5. tasks = <<>>
  BY <1>1, <1>4, EmptySeq DEF QueuesOK
<1> QED
  BY <1>4, <1>5, NoneThere

\* finish closes the channels when no task is left and no worker is at one: no
\* send of theirs can fail for a closed channel.
THEOREM NothingIsSentAfterClose == Spec => []NothingAfterClose
<1>1. ASSUME IInv PROVE NothingAfterClose
  <2>1. LabelsOK
    BY <1>1, TypeParts DEF IInv
  <2> QED
    BY <1>1, <2>1, ClosedIsIdle DEF NothingAfterClose, Busy, BusyPC, LabelsOK
<1> QED
  BY <1>1, InvariantHolds, PTL

-----------------------------------------------------------------------------
(* Where every entry is *)

Kids(d) == {Content[d][i] : i \in DOMAIN Content[d]}

\* e will be listed by page p, or by one of those enqueued for it.
Ahead(e, p) ==
  \E i \in DOMAIN Content[p.dir] :
    /\ Content[p.dir][i] = e
    /\ i > p.offset
    /\ p.dir \in KnownTotal /\ p.offset > 0 => i <= p.offset + PageSize

\* Where a worker has a page it has listed.
HandlePC == {"pages", "sendPage", "report", "items", "sendDir", "sendItem"}

InRest(e, w) == \E i \in DOMAIN rest[w] : rest[w][i] = e
InMore(e, w) == \E i \in DOMAIN more[w] : Ahead(e, more[w][i])

\* Worker w has e before it.
InHand(e, w) ==
  \/ pc[w] = "list" /\ Ahead(e, task[w])
  \/ pc[w] \in HandlePC /\ (InRest(e, w) \/ InMore(e, w))

Queued(e) == \E k \in DOMAIN tasks : Ahead(e, tasks[k])

\* What a worker holds of a page it holds once.
HandOnce ==
  \A w \in Workers : pc[w] \in HandlePC =>
    /\ \A i, j \in DOMAIN rest[w] : rest[w][i] = rest[w][j] => i = j
    /\ \A i \in DOMAIN rest[w] : ~InMore(rest[w][i], w)
    /\ \A e \in Entries : \A i, j \in DOMAIN more[w] :
         Ahead(e, more[w][i]) /\ Ahead(e, more[w][j]) => i = j

MoreWhere == \A w \in Workers : more[w] # <<>> => pc[w] \in {"pages", "sendPage"}

\* S stands for the entries that were sent to the consumer, or might have been.
\* No entry is at two places.
Exclusive(S) ==
  \A e \in Entries :
    /\ \A k, l \in DOMAIN tasks : Ahead(e, tasks[k]) /\ Ahead(e, tasks[l]) => k = l
    /\ \A v, w \in Workers : InHand(e, v) /\ InHand(e, w) => v = w
    /\ Queued(e) => \A w \in Workers : ~InHand(e, w)
    /\ e \in S => ~Queued(e) /\ \A w \in Workers : ~InHand(e, w)

Somewhere(e, S) == e \in S \/ Queued(e) \/ \E w \in Workers : InHand(e, w)

\* All that is left to do for e is to give it: the file was counted, or the task of
\* the directory sent.
Handled(e, S) ==
  e = Root \/ e \in S \/ \E w \in Workers : pc[w] = "sendItem" /\ Head(rest[w]) = e

\* What a directory lists is met after its task was sent, and then, if no page is
\* given up, all of it.
InTurn(S) == \A d \in Dirs : \A e \in Kids(d) : Somewhere(e, S) => Handled(d, S)

NoneLost(S) ==
  partial = {} => \A d \in Dirs : Handled(d, S) => \A e \in Kids(d) : Somewhere(e, S)

\* What was sent was given, or waits in the channel, as long as there is a consumer.
Delivered(S) ==
  /\ \A e \in Entries : seen[e] \in {0, 1} /\ (seen[e] = 1 => e \in S)
  /\ consumer # "dropped" =>
       /\ \A i, j \in DOMAIN items : items[i] = items[j] /\ items[i] # Failure => i = j
       /\ \A i \in DOMAIN items : items[i] # Failure => items[i] \in S /\ seen[items[i]] = 0
       /\ \A e \in S : seen[e] = 1 \/ \E i \in DOMAIN items : items[i] = e

\* The files counted are those sent and those about to be.
CountedFiles(S) == {f \in Files : Handled(f, S)}

Counted(S) == IsFiniteSet(CountedFiles(S)) /\ files = Cardinality(CountedFiles(S))

\* An error is on its way to the consumer, or has reached it.
ErrorKnown ==
  "failed" \in partial /\ consumer # "dropped" =>
    (\E w \in Workers : pc[w] = "sendError") \/ (\E i \in DOMAIN items : items[i] = Failure)

\* Before the channels are closed a worker only leaves with a page given up.
Leaving ==
  /\ \A w \in Workers : pc[w] = "quit" => "skipped" \in partial
  /\ \A w \in Workers : pc[w] = "announce" => closed
  /\ \A w \in Workers : pc[w] = "exit" => closed \/ "skipped" \in partial

Places(S) == Exclusive(S) /\ InTurn(S) /\ NoneLost(S) /\ Delivered(S) /\ Counted(S)

Tracking ==
  /\ HandOnce /\ MoreWhere /\ ErrorKnown /\ Leaving
  /\ \E S \in SUBSET Entries : Places(S)

\* One worker closes the channels and announces it, once.
ClosesOnce ==
  /\ \A v, w \in Workers :
       pc[v] \in {"close", "announce"} /\ pc[w] \in {"close", "announce"} => v = w
  /\ finished # <<>> => closed /\ \A w \in Workers : pc[w] \notin {"close", "announce"}
  /\ closed => \A w \in Workers : pc[w] # "close"
  /\ finished \in {<<>>, <<files>>}

\* The count of all entries seen was shown, or is about to be.
ShownLast ==
  Observed => \/ scanned = 0
              \/ \E i \in DOMAIN shown : shown[i] = scanned
              \/ \E w \in Workers : pc[w] = "report" /\ batch[w] = scanned
ObservedOnly == ~Observed => finished = <<>> /\ \A w \in Workers : pc[w] # "announce"

-----------------------------------------------------------------------------
(* Pages and positions *)

LEMMA OnePlace ==
  ASSUME NEW d1 \in Dirs, NEW d2 \in Dirs, NEW i \in DOMAIN Content[d1], NEW j \in DOMAIN Content[d2],
         Content[d1][i] = Content[d2][j]
  PROVE  d1 = d2 /\ i = j
  BY ListedOnce

LEMMA ContentType ==
  ASSUME NEW d \in Dirs
  PROVE  /\ Content[d] \in Seq(Entries) /\ Len(Content[d]) \in Nat
         /\ DOMAIN Content[d] = 1..Len(Content[d])
  BY TreeAssumption

\* The positions page p stands for.
Positions(p) ==
  {i \in DOMAIN Content[p.dir] :
     i > p.offset /\ (p.dir \in KnownTotal /\ p.offset > 0 => i <= p.offset + PageSize)}

LEMMA AheadAt ==
  ASSUME NEW p \in Page, NEW i \in DOMAIN Content[p.dir]
  PROVE  Ahead(Content[p.dir][i], p) <=> i \in Positions(p)
  BY OnePlace DEF Ahead, Positions, Page

LEMMA AheadKid ==
  ASSUME NEW p \in Page, NEW e, Ahead(e, p)
  PROVE  e \in Kids(p.dir) /\ e \in Entries
  BY ContentType DEF Ahead, Kids, Page

\* A page lists what follows its offset, in order.
LEMMA PageEntries ==
  ASSUME NEW d \in Dirs, NEW o \in Nat
  PROVE  /\ Len(PageAt(d, o)) \in Nat /\ DOMAIN PageAt(d, o) = 1..Len(PageAt(d, o))
         /\ \A i \in 1..Len(PageAt(d, o)) : o + i \in DOMAIN Content[d] /\ PageAt(d, o)[i] = Content[d][o + i]
         /\ Len(PageAt(d, o)) <= PageSize
         /\ Len(PageAt(d, o)) # PageSize => o + Len(PageAt(d, o)) >= Len(Content[d])
<1>1. Content[d] \in Seq(Entries) /\ PageSize \in Nat \ {0} /\ Len(Content[d]) \in Nat
      /\ DOMAIN Content[d] = 1..Len(Content[d])
  BY TreeAssumption
<1> DEFINE n == IF o + PageSize < Len(Content[d]) THEN o + PageSize ELSE Len(Content[d])
           page == SubSeq(Content[d], o + 1, n)
<1>2. n \in Nat /\ n <= Len(Content[d]) /\ n <= o + PageSize /\ (n # o + PageSize => n = Len(Content[d]))
  BY <1>1
<1>3. page = PageAt(d, o)
  BY DEF PageAt
<1> HIDE DEF n
<1>4. page \in Seq(Entries) /\ Len(page) = (IF o + 1 <= n THEN n - o ELSE 0)
      /\ \A i \in 1..Len(page) : page[i] = Content[d][o + i]
  BY <1>1, <1>2
<1> HIDE DEF page
<1>5. Len(page) \in Nat /\ DOMAIN page = 1..Len(page)
  BY <1>4
<1>6. Len(page) <= PageSize /\ (Len(page) # PageSize => o + Len(page) >= Len(Content[d]))
  BY <1>1, <1>2, <1>4
<1>7. \A i \in 1..Len(page) : o + i \in DOMAIN Content[d]
  BY <1>1, <1>2, <1>4
<1> QED
  BY <1>3, <1>4, <1>5, <1>6, <1>7

\* The page of a position is found by division.
LEMMA PageOf ==
  ASSUME NEW P \in Nat \ {0}, NEW L \in Nat, NEW i \in 1..L, i > P
  PROVE  LET k == (i - 1) \div P IN
         k \in 1..((L + P - 1) \div P - 1) /\ k * P < i /\ i <= k * P + P
<1> DEFINE k == (i - 1) \div P
           m == (L + P - 1) \div P
<1>1. k \in Int /\ k * P <= i - 1 /\ i - 1 < (k + 1) * P
  OBVIOUS
<1>2. m \in Int /\ m * P <= L + P - 1 /\ L + P - 1 < (m + 1) * P
  OBVIOUS
<1> HIDE DEF k, m
<1>3. (k + 1) * P = k * P + P /\ (m + 1) * P = m * P + P /\ (m - 1) * P = m * P - P
  BY <1>1, <1>2
<1>4. k >= 1
  <2>1. SUFFICES ASSUME k <= 0 PROVE FALSE
    BY <1>1
  <2>2. k * P <= 0
    BY <2>1, <1>1
  <2> QED
    BY <1>1, <1>3, <2>2
<1>5. k <= m - 1
  <2>1. SUFFICES ASSUME k >= m PROVE FALSE
    BY <1>1, <1>2
  <2>2. k * P >= m * P
    BY <2>1, <1>1, <1>2
  <2> QED
    BY <1>1, <1>2, <1>3, <2>2
<1>6. k \in 1..(m - 1) /\ k * P < i /\ i <= k * P + P
  BY <1>1, <1>2, <1>3, <1>4, <1>5
<1> QED
  BY <1>6 DEF k, m

\* Pages numbered apart hold different positions.
LEMMA PagesApart ==
  ASSUME NEW P \in Nat \ {0}, NEW k \in Nat, NEW l \in Nat, NEW i \in Nat,
         k * P < i, i <= k * P + P, l * P < i, i <= l * P + P
  PROVE  k = l
<1>1. \A a, b \in Nat : a < b => a * P + P <= b * P
  <2>1. ASSUME NEW a \in Nat, NEW b \in Nat, a < b PROVE a * P + P <= b * P
    <3>1. a + 1 <= b
      BY <2>1
    <3>2. (a + 1) * P <= b * P
      BY <3>1
    <3>3. (a + 1) * P = a * P + P
      OBVIOUS
    <3> QED
      BY <3>2, <3>3
  <2> QED
    BY <2>1
<1>2. k * P \in Nat /\ l * P \in Nat
  OBVIOUS
<1>3. ~(k < l) /\ ~(l < k)
  BY <1>1, <1>2
<1> QED
  BY <1>3

\* The further pages of a page share out the positions behind it.
LEMMA FurtherPositions ==
  ASSUME NEW p \in Page
  PROVE  LET f == FurtherPages(p) IN
         /\ f \in Seq(Page)
         /\ \A k \in DOMAIN f : f[k].dir = p.dir
         /\ \A k \in DOMAIN f : \A i \in Positions(f[k]) :
              i \in Positions(p) /\ i > p.offset + PageSize
         /\ \A i \in Positions(p) :
              i > p.offset + PageSize => \E k \in DOMAIN f : i \in Positions(f[k])
         /\ \A k, l \in DOMAIN f : \A i \in Positions(f[k]) : i \in Positions(f[l]) => k = l
<1> DEFINE d == p.dir
           o == p.offset
           L == Len(Content[d])
           f == FurtherPages(p)
<1>1. /\ d \in Dirs /\ o \in Nat /\ L \in Nat /\ DOMAIN Content[d] = 1..L
      /\ PageSize \in Nat \ {0} /\ f \in Seq(Page)
  BY ContentType, FurtherPagesType, TreeAssumption DEF Page
<1>2. CASE d \in KnownTotal /\ o = 0
  <2> DEFINE n == (L + PageSize - 1) \div PageSize - 1
  <2>1. f = [k \in 1..n |-> [dir |-> d, offset |-> k * PageSize]]
    BY <1>2 DEF FurtherPages
  <2>2. n \in Int
    BY <1>1
  <2>3. \A k \in 1..n : k \in Nat /\ k * PageSize \in Nat /\ k * PageSize >= PageSize
    <3>1. SUFFICES ASSUME NEW k \in 1..n PROVE k \in Nat /\ k * PageSize \in Nat /\ k * PageSize >= PageSize
      OBVIOUS
    <3>2. k \in Nat /\ k >= 1
      BY <2>2
    <3> HIDE DEF n
    <3> QED
      BY <1>1, <3>2
  <2>4. \A i \in Positions(p) :
          i > PageSize => \E k \in 1..n : k * PageSize < i /\ i <= k * PageSize + PageSize
    <3>1. SUFFICES ASSUME NEW i \in 1..L, i > PageSize
                   PROVE  \E k \in 1..n : k * PageSize < i /\ i <= k * PageSize + PageSize
      BY <1>1 DEF Positions
    <3> QED
      BY <1>1, <3>1, PageOf
  <2> HIDE DEF n, f
  <2>5. DOMAIN f = 1..n /\ \A k \in 1..n : f[k].dir = d /\ f[k].offset = k * PageSize
    BY <2>1
  <2>6. \A k \in 1..n : Positions(f[k]) =
          {i \in 1..L : k * PageSize < i /\ i <= k * PageSize + PageSize}
    <3>1. SUFFICES ASSUME NEW k \in 1..n
                   PROVE Positions(f[k]) = {i \in 1..L : k * PageSize < i /\ i <= k * PageSize + PageSize}
      OBVIOUS
    <3>2. PICK z \in Nat : z = k * PageSize /\ z > 0
      BY <1>1, <2>3
    <3>3. f[k].dir = d /\ f[k].offset = z
      BY <2>5, <3>2
    <3> QED
      BY <1>1, <1>2, <3>2, <3>3 DEF Positions
  <2>7. Positions(p) = 1..L
    BY <1>1, <1>2 DEF Positions
  <2>8. \A k \in 1..n : \A i \in Positions(f[k]) : i \in Positions(p) /\ i > o + PageSize
    <3>1. SUFFICES ASSUME NEW k \in 1..n, NEW i \in Positions(f[k])
                   PROVE  i \in Positions(p) /\ i > o + PageSize
      OBVIOUS
    <3>2. PICK z \in Int : z = k * PageSize /\ z >= PageSize
      BY <2>3
    <3>3. i \in 1..L /\ z < i
      BY <2>6, <3>2
    <3>4. i > o + PageSize
      BY <1>1, <1>2, <3>2, <3>3
    <3> QED
      BY <2>7, <3>3, <3>4
  <2>9. \A i \in Positions(p) : i > o + PageSize => \E k \in 1..n : i \in Positions(f[k])
    <3>1. SUFFICES ASSUME NEW i \in 1..L, i > PageSize PROVE \E k \in 1..n : i \in Positions(f[k])
      BY <1>1, <1>2, <2>7
    <3>2. PICK k \in 1..n : k * PageSize < i /\ i <= k * PageSize + PageSize
      BY <2>4, <2>7, <3>1
    <3> QED
      BY <2>6, <3>1, <3>2
  <2>10. \A k, l \in 1..n : \A i \in Positions(f[k]) : i \in Positions(f[l]) => k = l
    <3>1. SUFFICES ASSUME NEW k \in 1..n, NEW l \in 1..n, NEW i \in Positions(f[k]), i \in Positions(f[l])
                   PROVE  k = l
      OBVIOUS
    <3>2. i \in 1..L /\ k * PageSize < i /\ i <= k * PageSize + PageSize
      BY <2>6
    <3>3. l * PageSize < i /\ i <= l * PageSize + PageSize
      BY <2>6, <3>1
    <3>4. k \in Nat /\ l \in Nat /\ i \in Nat
      BY <1>1, <2>3, <3>2
    <3> QED
      BY <1>1, <3>2, <3>3, <3>4, PagesApart
  <2> QED
    BY <1>1, <2>5, <2>8, <2>9, <2>10 DEF f
<1>3. CASE d \in KnownTotal /\ o # 0
  <2>1. f = <<>>
    BY <1>3 DEF FurtherPages
  <2>2. \A i \in Positions(p) : ~(i > o + PageSize)
    BY <1>1, <1>3 DEF Positions
  <2> QED
    BY <2>1, <2>2, EmptySeq
<1>4. CASE d \notin KnownTotal
  <2> DEFINE q == [dir |-> d, offset |-> o + PageSize]
  <2>1. Positions(p) = {i \in 1..L : i > o} /\ Positions(q) = {i \in 1..L : i > o + PageSize}
    BY <1>1, <1>4 DEF Positions
  <2>2. CASE Len(PageAt(d, o)) = PageSize
    <3>1. f = <<q>>
      BY <1>4, <2>2 DEF FurtherPages
    <3>2. DOMAIN f = {1} /\ f[1] = q
      BY <3>1
    <3>3. q.dir = d
      OBVIOUS
    <3>4. \A i \in Positions(q) : i \in Positions(p) /\ i > o + PageSize
      BY <1>1, <2>1
    <3>5. \A i \in Positions(p) : i > o + PageSize => i \in Positions(q)
      BY <1>1, <2>1
    <3> HIDE DEF q, f
    <3> QED
      BY <1>1, <3>2, <3>3, <3>4, <3>5 DEF f
  <2>3. CASE Len(PageAt(d, o)) # PageSize
    <3>1. f = <<>>
      BY <1>4, <2>3 DEF FurtherPages
    <3>2. L < o + PageSize \/ L = o + PageSize
      BY <1>1, <2>3, PageEntries
    <3>3. \A i \in Positions(p) : ~(i > o + PageSize)
      BY <1>1, <2>1, <3>2
    <3> QED
      BY <3>1, <3>3, EmptySeq
  <2> QED
    BY <2>2, <2>3
<1> QED
  BY <1>2, <1>3, <1>4

\* What a page stands for is what it lists and what its further pages stand for,
\* each entry in one place.
LEMMA Split ==
  ASSUME NEW p \in Page
  PROVE  LET r == PageAt(p.dir, p.offset)
             f == FurtherPages(p)
         IN  /\ \A i \in DOMAIN r : Ahead(r[i], p)
             /\ \A i, j \in DOMAIN r : r[i] = r[j] => i = j
             /\ \A k \in DOMAIN f : \A e : Ahead(e, f[k]) => Ahead(e, p)
             /\ \A i \in DOMAIN r, k \in DOMAIN f : ~Ahead(r[i], f[k])
             /\ \A k, l \in DOMAIN f : \A e : Ahead(e, f[k]) /\ Ahead(e, f[l]) => k = l
             /\ \A e : Ahead(e, p) =>
                  (\E i \in DOMAIN r : r[i] = e) \/ (\E k \in DOMAIN f : Ahead(e, f[k]))
<1> DEFINE d == p.dir
           o == p.offset
           r == PageAt(d, o)
           f == FurtherPages(p)
<1>1. d \in Dirs /\ o \in Nat /\ PageSize \in Nat \ {0} /\ DOMAIN Content[d] = 1..Len(Content[d])
      /\ Len(Content[d]) \in Nat
  BY ContentType, TreeAssumption DEF Page
<1>2. /\ Len(r) \in Nat /\ DOMAIN r = 1..Len(r) /\ Len(r) <= PageSize
      /\ \A i \in 1..Len(r) : o + i \in DOMAIN Content[d] /\ r[i] = Content[d][o + i]
      /\ Len(r) # PageSize => o + Len(r) >= Len(Content[d])
  BY <1>1, PageEntries
<1>15. /\ Len(r) \in Int /\ Len(r) <= PageSize
       /\ Len(r) # PageSize => o + Len(r) >= Len(Content[d])
  BY <1>2
<1>3. /\ \A k \in DOMAIN f : f[k] \in Page /\ f[k].dir = d
      /\ \A k \in DOMAIN f : \A i \in Positions(f[k]) : i \in Positions(p) /\ i > o + PageSize
      /\ \A i \in Positions(p) : i > o + PageSize => \E k \in DOMAIN f : i \in Positions(f[k])
      /\ \A k, l \in DOMAIN f : \A i \in Positions(f[k]) : i \in Positions(f[l]) => k = l
  BY FurtherPositions
<1> HIDE DEF r, f
<1>4. \A k \in DOMAIN f : \A e : Ahead(e, f[k]) => \E i \in Positions(f[k]) : e = Content[d][i]
  BY <1>3 DEF Ahead, Positions
<1>5. \A e : Ahead(e, p) => \E i \in Positions(p) : e = Content[d][i]
  BY DEF Ahead, Positions
<1>6. \A i \in DOMAIN Content[d] : Ahead(Content[d][i], p) <=> i \in Positions(p)
  BY AheadAt
<1>7. \A k \in DOMAIN f : \A i \in DOMAIN Content[d] : Ahead(Content[d][i], f[k]) <=> i \in Positions(f[k])
  BY <1>3, AheadAt
<1>8. \A i \in 1..Len(r) : o + i \in Positions(p) /\ ~(o + i > o + PageSize)
  <2>1. SUFFICES ASSUME NEW i \in 1..Len(r) PROVE o + i \in Positions(p) /\ ~(o + i > o + PageSize)
    OBVIOUS
  <2>2. o + i \in DOMAIN Content[d]
    BY <1>2
  <2>3. PICK n \in Int : n = Len(r) /\ n <= PageSize
    BY <1>15
  <2>4. i >= 1 /\ i <= n /\ i \in Int
    BY <2>3
  <2>5. o + i > o /\ o + i <= o + PageSize
    BY <1>1, <2>3, <2>4
  <2>6. d \in KnownTotal /\ o > 0 => o + i <= o + PageSize
    BY <2>5
  <2>7. o + i \in Positions(p)
    BY <2>2, <2>5, <2>6 DEF Positions
  <2> QED
    BY <1>1, <2>4, <2>5, <2>7
<1>9. \A i \in DOMAIN r : Ahead(r[i], p)
  BY <1>2, <1>6, <1>8
<1>10. \A i, j \in DOMAIN r : r[i] = r[j] => i = j
  <2>1. SUFFICES ASSUME NEW i \in 1..Len(r), NEW j \in 1..Len(r), r[i] = r[j] PROVE i = j
    BY <1>2
  <2>2. o + i \in DOMAIN Content[d] /\ o + j \in DOMAIN Content[d] /\ Content[d][o + i] = Content[d][o + j]
    BY <1>2, <2>1
  <2>3. o + i = o + j
    BY <1>1, <2>2, OnePlace
  <2>4. i \in Int /\ j \in Int
    OBVIOUS
  <2> QED
    BY <1>1, <2>3, <2>4
<1>11. \A k \in DOMAIN f : \A e : Ahead(e, f[k]) => Ahead(e, p)
  <2>1. SUFFICES ASSUME NEW k \in DOMAIN f, NEW e, Ahead(e, f[k]) PROVE Ahead(e, p)
    OBVIOUS
  <2>2. PICK i \in Positions(f[k]) : e = Content[d][i]
    BY <1>4, <2>1
  <2>3. i \in Positions(p)
    BY <1>3
  <2> QED
    BY <1>6, <2>2, <2>3 DEF Positions
<1>12. \A i \in DOMAIN r, k \in DOMAIN f : ~Ahead(r[i], f[k])
  <2>1. SUFFICES ASSUME NEW i \in 1..Len(r), NEW k \in DOMAIN f, Ahead(r[i], f[k]) PROVE FALSE
    BY <1>2
  <2>2. o + i \in Positions(f[k])
    BY <1>2, <1>7, <2>1
  <2> QED
    BY <1>3, <1>8, <2>2
<1>13. \A k, l \in DOMAIN f : \A e : Ahead(e, f[k]) /\ Ahead(e, f[l]) => k = l
  <2>1. SUFFICES ASSUME NEW k \in DOMAIN f, NEW l \in DOMAIN f, NEW e, Ahead(e, f[k]), Ahead(e, f[l])
                 PROVE  k = l
    OBVIOUS
  <2>2. PICK i \in Positions(f[k]) : e = Content[d][i]
    BY <1>4, <2>1
  <2>3. i \in DOMAIN Content[d]
    BY <1>3, <2>2 DEF Positions
  <2>4. i \in Positions(f[l])
    BY <1>7, <2>1, <2>2, <2>3
  <2> QED
    BY <1>3, <2>2, <2>4
<1>14. ASSUME NEW e, Ahead(e, p)
       PROVE  (\E i \in DOMAIN r : r[i] = e) \/ (\E k \in DOMAIN f : Ahead(e, f[k]))
  <2>1. PICK i \in Positions(p) : e = Content[d][i]
    BY <1>5, <1>14
  <2>2. i \in DOMAIN Content[d] /\ i \in Int /\ i > o /\ i <= Len(Content[d])
    BY <1>1 DEF Positions
  <2>3. CASE i > o + PageSize
    <3>1. PICK k \in DOMAIN f : i \in Positions(f[k])
      BY <1>3, <2>3
    <3> QED
      BY <1>7, <2>1, <2>2, <3>1
  <2>4. CASE ~(i > o + PageSize)
    <3>0. PICK n \in Int, l \in Int :
            /\ n = Len(r) /\ l = Len(Content[d])
            /\ n # PageSize => o + n >= l
      BY <1>1, <1>15
    <3>1. i - o \in 1..n
      BY <1>1, <2>2, <2>4, <3>0
    <3>2. o + (i - o) = i
      BY <1>1, <2>2
    <3> QED
      BY <1>2, <2>1, <3>0, <3>1, <3>2
  <2> QED
    BY <2>3, <2>4
<1> QED
  BY <1>9, <1>10, <1>11, <1>12, <1>13, <1>14 DEF r, f

-----------------------------------------------------------------------------
(* A worker's step moves entries from one place to another *)

\* A worker leaves what the others have alone.
LEMMA OthersWait ==
  ASSUME LabelsOK, PagesOK, NEW w \in Workers, Step(w), NEW v \in Workers, v # w
  PROVE  pc'[v] = pc[v] /\ task'[v] = task[v] /\ more'[v] = more[v] /\ rest'[v] = rest[v]
<1>1. pc'[v] = pc[v]
  BY StepLabels DEF LabelsOK
<1>2. task'[v] = task[v]
  BY DEF PagesOK, Step, TakeTask, NoMoreTasks, ListPage, CountTask, SendTask, Scan, Report, CountFile,
         SendItem, SendError, Finish, Close, Announce
<1>3. more'[v] = more[v]
  BY DEF PagesOK, Step, TakeTask, NoMoreTasks, ListPage, CountTask, SendTask, Scan, Report, CountFile,
         SendItem, SendError, Finish, Close, Announce
<1>4. rest'[v] = rest[v]
  BY DEF PagesOK, Step, TakeTask, NoMoreTasks, ListPage, CountTask, SendTask, Scan, Report, CountFile,
         SendItem, SendError, Finish, Close, Announce
<1> QED
  BY <1>1, <1>2, <1>3, <1>4

LEMMA HandsOfOthers ==
  ASSUME LabelsOK, PagesOK, NEW w \in Workers, Step(w), NEW v \in Workers, v # w, NEW e
  PROVE  InHand(e, v)' <=> InHand(e, v)
  BY OthersWait DEF InHand, InRest, InMore

QueuedOnce(e) == \A k, l \in DOMAIN tasks : Ahead(e, tasks[k]) /\ Ahead(e, tasks[l]) => k = l

\* e is in the channel, with worker w, or through.
Near(e, w, S) == Queued(e) \/ InHand(e, w) \/ e \in S

\* What a worker's step moves was near to that worker.
LEMMA Moved ==
  ASSUME LabelsOK, PagesOK, NEW w \in Workers, Step(w),
         NEW S \in SUBSET Entries, NEW T \in SUBSET Entries, Exclusive(S),
         \A e \in Entries : /\ QueuedOnce(e)'
                            /\ Queued(e)' => ~InHand(e, w)'
                            /\ e \in T => ~Queued(e)' /\ ~InHand(e, w)'
                            /\ Near(e, w, T)' => Near(e, w, S)
  PROVE  Exclusive(T)' /\ \A e \in Entries : Somewhere(e, T)' => Somewhere(e, S)
<1>1. ASSUME NEW e \in Entries, NEW v \in Workers, v # w, InHand(e, v)'
      PROVE  InHand(e, v) /\ ~Near(e, w, T)'
  <2>1. InHand(e, v)
    BY <1>1, HandsOfOthers
  <2>2. ~Near(e, w, S)
    BY <1>1, <2>1 DEF Exclusive, Near
  <2> QED
    BY <2>1, <2>2
<1>2. ASSUME NEW e \in Entries, NEW v \in Workers, v # w, NEW u \in Workers, u # w,
             InHand(e, v)', InHand(e, u)'
      PROVE  u = v
  BY <1>1, <1>2 DEF Exclusive
<1>3. \A e \in Entries : \A v, u \in Workers : InHand(e, v)' /\ InHand(e, u)' => v = u
  BY <1>1, <1>2 DEF Near
<1>4. \A e \in Entries : Queued(e)' => \A v \in Workers : ~InHand(e, v)'
  BY <1>1 DEF Near
<1>5. \A e \in Entries : e \in T => ~Queued(e)' /\ \A v \in Workers : ~InHand(e, v)'
  BY <1>1 DEF Near
<1>6. Exclusive(T)'
  BY <1>3, <1>4, <1>5 DEF Exclusive, QueuedOnce
<1>7. ASSUME NEW e \in Entries, Somewhere(e, T)' PROVE Somewhere(e, S)
  <2>1. CASE Near(e, w, T)'
    BY <2>1 DEF Near, Somewhere
  <2>2. CASE ~Near(e, w, T)'
    <3>1. PICK v \in Workers : InHand(e, v)'
      BY <1>7, <2>2 DEF Near, Somewhere
    <3> QED
      BY <1>1, <2>2, <3>1 DEF Near, Somewhere
  <2> QED
    BY <2>1, <2>2
<1> QED
  BY <1>6, <1>7

\* What is still near was not lost.
LEMMA NotLost ==
  ASSUME LabelsOK, PagesOK, NEW w \in Workers, Step(w), NEW S, NEW T,
         NEW e, Near(e, w, S) => Near(e, w, T)', Somewhere(e, S)
  PROVE  Somewhere(e, T)'
<1>1. CASE Near(e, w, S)
  BY <1>1 DEF Near, Somewhere
<1>2. CASE ~Near(e, w, S)
  <2>1. PICK v \in Workers : v # w /\ InHand(e, v)
    BY <1>2 DEF Near, Somewhere
  <2>2. InHand(e, v)'
    BY <2>1, HandsOfOthers
  <2> QED
    BY <2>2 DEF Somewhere
<1> QED
  BY <1>1, <1>2

\* A step that sends no directory keeps the order of the walk.
LEMMA OrderKept ==
  ASSUME LabelsOK, PagesOK, NEW w \in Workers, Step(w), NEW S, NEW T,
         InTurn(S), NoneLost(S),
         \A e \in Entries : Somewhere(e, T)' => Somewhere(e, S),
         \A d \in Dirs : Handled(d, T)' <=> Handled(d, S),
         partial' = {} => partial = {} /\ \A e \in Entries : Near(e, w, S) => Near(e, w, T)'
  PROVE  InTurn(T)' /\ NoneLost(T)'
<1>1. \A d \in Dirs : \A e \in Kids(d) : e \in Entries
  BY ContentType DEF Kids
<1>2. ASSUME NEW d \in Dirs, NEW e \in Kids(d), Somewhere(e, T)' PROVE Handled(d, T)'
  BY <1>1, <1>2 DEF InTurn
<1>3. ASSUME partial' = {}, NEW d \in Dirs, Handled(d, T)', NEW e \in Kids(d) PROVE Somewhere(e, T)'
  <2>1. Somewhere(e, S) /\ e \in Entries
    BY <1>1, <1>3 DEF NoneLost
  <2>2. Near(e, w, S) => Near(e, w, T)'
    BY <1>3, <2>1
  <2> QED
    BY <2>1, <2>2, NotLost
<1>4. InTurn(T)'
  BY <1>2 DEF InTurn, Kids
<1>5. NoneLost(T)'
  BY <1>3 DEF NoneLost, Kids
<1> QED
  BY <1>4, <1>5

\* A directory is handled by this worker or by another.
LEMMA HandledThere ==
  ASSUME LabelsOK, PagesOK, NEW w \in Workers, Step(w), NEW S, NEW T, NEW e,
         e \in T \/ (pc'[w] = "sendItem" /\ Head(rest'[w]) = e)
           <=> e \in S \/ (pc[w] = "sendItem" /\ Head(rest[w]) = e)
  PROVE  Handled(e, T)' <=> Handled(e, S)
<1>1. \A v \in Workers : v # w => pc'[v] = pc[v] /\ rest'[v] = rest[v]
  BY OthersWait
<1>2. Handled(e, T)' <=> \/ e = Root
                         \/ e \in T \/ (pc'[w] = "sendItem" /\ Head(rest'[w]) = e)
                         \/ \E v \in Workers : v # w /\ pc'[v] = "sendItem" /\ Head(rest'[v]) = e
  BY DEF Handled
<1>3. Handled(e, S) <=> \/ e = Root
                        \/ e \in S \/ (pc[w] = "sendItem" /\ Head(rest[w]) = e)
                        \/ \E v \in Workers : v # w /\ pc[v] = "sendItem" /\ Head(rest[v]) = e
  BY DEF Handled
<1> QED
  BY <1>1, <1>2, <1>3

\* A step that moves no entry: at most it gives some up, and notes it.
LEMMA QuietStep ==
  ASSUME LabelsOK, PagesOK, NEW w \in Workers, Step(w),
         NEW S \in SUBSET Entries, Exclusive(S), InTurn(S), NoneLost(S),
         tasks' = tasks, \A e \in Entries : InHand(e, w)' => InHand(e, w),
         partial' = {} => partial = {} /\ \A e \in Entries : InHand(e, w) => InHand(e, w)',
         pc[w] # "sendItem", pc'[w] = "sendItem" => Head(rest'[w]) \notin Dirs
  PROVE  Exclusive(S)' /\ InTurn(S)' /\ NoneLost(S)'
<1>1. \A e \in Entries : Queued(e)' <=> Queued(e)
  BY DEF Queued
<1>2. \A e \in Entries : QueuedOnce(e)'
  BY DEF QueuedOnce, Exclusive
<1>3. \A e \in Entries : /\ Queued(e)' => ~InHand(e, w)'
                         /\ e \in S => ~Queued(e)' /\ ~InHand(e, w)'
                         /\ Near(e, w, S)' => Near(e, w, S)
  BY <1>1 DEF Exclusive, Near
<1>4. Exclusive(S)' /\ \A e \in Entries : Somewhere(e, S)' => Somewhere(e, S)
  BY <1>2, <1>3, Moved
<1>5. \A d \in Dirs : Handled(d, S)' <=> Handled(d, S)
  BY HandledThere
<1>6. partial' = {} => partial = {} /\ \A e \in Entries : Near(e, w, S) => Near(e, w, S)'
  BY <1>1 DEF Near
<1> QED
  BY <1>4, <1>5, <1>6, OrderKept

\* The steps that move no entry.
LEMMA QuietActions ==
  ASSUME IInv, HandOnce, MoreWhere, NEW w \in Workers, Step(w),
         \/ NoMoreTasks(w) \/ ListPage(w) \/ CountTask(w) \/ Scan(w) \/ Report(w) \/ CountFile(w)
         \/ SendError(w) \/ Finish(w) \/ Close(w) \/ Announce(w)
  PROVE  /\ tasks' = tasks /\ \A e \in Entries : InHand(e, w)' => InHand(e, w)
         /\ partial' = {} => partial = {} /\ \A e \in Entries : InHand(e, w) => InHand(e, w)'
         /\ pc[w] # "sendItem" /\ (pc'[w] = "sendItem" => Head(rest'[w]) \notin Dirs)
<1>1. LabelsOK /\ PagesOK /\ QueuesOK
  BY TypeParts DEF IInv
<1>2. CASE ListPage(w)
  <2>1. tasks' = tasks /\ pc[w] = "list" /\ pc'[w] # "sendItem"
    BY <1>1, <1>2 DEF ListPage, channels, Goto, LabelsOK
  <2>2. CASE pc'[w] = "pages"
    <3>1. /\ more'[w] = FurtherPages(task[w]) /\ rest'[w] = PageAt(task[w].dir, task[w].offset)
          /\ partial' = partial
      BY <1>1, <1>2, <2>2 DEF ListPage, Goto, LabelsOK, PagesOK
    <3>2. task[w] \in Page
      BY <1>1 DEF PagesOK
    <3>3. \A e : InHand(e, w) <=> Ahead(e, task[w])
      BY <2>1 DEF InHand, HandlePC
    <3>4. \A e : InHand(e, w)' <=>
            \/ \E i \in DOMAIN PageAt(task[w].dir, task[w].offset) : PageAt(task[w].dir, task[w].offset)[i] = e
            \/ \E i \in DOMAIN FurtherPages(task[w]) : Ahead(e, FurtherPages(task[w])[i])
      BY <2>2, <3>1 DEF InHand, HandlePC, InRest, InMore
    <3>5. \A e : InHand(e, w)' <=> InHand(e, w)
      BY <3>2, <3>3, <3>4, Split
    <3> QED
      BY <2>1, <3>1, <3>5
  <2>3. CASE pc'[w] # "pages"
    <3>1. pc'[w] \in {"sendError", "finish"} /\ partial' # {}
      BY <1>1, <1>2, <2>3 DEF ListPage, Goto, LabelsOK
    <3>2. \A e : ~InHand(e, w)'
      BY <3>1 DEF InHand, HandlePC
    <3> QED
      BY <2>1, <3>1, <3>2
  <2> QED
    BY <2>2, <2>3
<1>3. CASE CountTask(w) \/ Scan(w) \/ Report(w) \/ (CountFile(w) /\ rest[w] # <<>>)
  <2>1. /\ tasks' = tasks /\ partial' = partial /\ rest' = rest /\ more' = more
        /\ pc[w] \in HandlePC \ {"sendItem"} /\ pc'[w] \in HandlePC
        /\ pc'[w] = "sendItem" => Head(rest[w]) \in Files
    BY <1>1, <1>3 DEF CountTask, Scan, Report, CountFile, channels, Goto, LabelsOK, HandlePC
  <2>2. \A e : InHand(e, w)' <=> InHand(e, w)
    BY <2>1 DEF InHand, InRest, InMore, HandlePC
  <2>3. Dirs \cap Files = {}
    BY TreeAssumption
  <2> QED
    BY <2>1, <2>2, <2>3
<1>4. CASE CountFile(w) /\ rest[w] = <<>>
  <2>1. /\ tasks' = tasks /\ partial' = partial
        /\ pc[w] = "items" /\ pc'[w] = "finish" /\ more[w] = <<>>
    BY <1>1, <1>4 DEF CountFile, channels, Goto, LabelsOK, MoreWhere
  <2>2. \A e : ~InHand(e, w)' /\ ~InHand(e, w)
    BY <1>4, <2>1, EmptySeq DEF InHand, InRest, InMore, HandlePC
  <2> QED
    BY <2>1, <2>2
<1>5. CASE NoMoreTasks(w) \/ SendError(w) \/ Finish(w) \/ Close(w) \/ Announce(w)
  <2>1. /\ tasks' = tasks /\ partial' = partial
        /\ pc[w] \notin HandlePC \cup {"list"} /\ pc'[w] \notin HandlePC \cup {"list"}
    BY <1>1, <1>5 DEF NoMoreTasks, SendError, Finish, Close, Announce, channels, Goto, LabelsOK, HandlePC
  <2>2. \A e : ~InHand(e, w)' /\ ~InHand(e, w)
    BY <2>1 DEF InHand
  <2> QED
    BY <2>1, <2>2 DEF HandlePC
<1> QED
  BY <1>2, <1>3, <1>4, <1>5

\* Some page of the list s has e ahead; at most one has.
Has(e, s)  == \E k \in DOMAIN s : Ahead(e, s[k])
Once(e, s) == \A k, l \in DOMAIN s : Ahead(e, s[k]) /\ Ahead(e, s[l]) => k = l

LEMMA TailOf ==
  ASSUME NEW X, NEW s \in Seq(X), s # <<>>
  PROVE  /\ Len(s) \in Nat /\ Len(s) >= 1 /\ DOMAIN s = 1..Len(s) /\ Head(s) = s[1] /\ Head(s) \in X
         /\ Tail(s) \in Seq(X) /\ Len(Tail(s)) = Len(s) - 1 /\ DOMAIN Tail(s) = 1..(Len(s) - 1)
         /\ \A k \in 1..(Len(s) - 1) : Tail(s)[k] = s[k + 1] /\ k + 1 \in 1..Len(s)
<1>1. Len(s) \in Nat /\ DOMAIN s = 1..Len(s) /\ Len(s) >= 1
  BY EmptySeq
<1>2. Head(s) = s[1] /\ s[1] \in X
  BY <1>1
<1>3. /\ Tail(s) \in Seq(X) /\ Len(Tail(s)) = Len(s) - 1
      /\ \A k \in 1..(Len(s) - 1) : Tail(s)[k] = s[k + 1]
  BY <1>1
<1>4. DOMAIN Tail(s) = 1..(Len(s) - 1)
  BY <1>1, <1>3
<1>5. \A k \in 1..(Len(s) - 1) : k + 1 \in 1..Len(s)
  BY <1>1
<1> QED
  BY <1>1, <1>2, <1>3, <1>4, <1>5

LEMMA Shorter ==
  ASSUME NEW s \in Seq(Page), s # <<>>, NEW e
  PROVE  /\ Has(e, s) <=> Ahead(e, Head(s)) \/ Has(e, Tail(s))
         /\ Once(e, s) => Once(e, Tail(s)) /\ ~(Ahead(e, Head(s)) /\ Has(e, Tail(s)))
<1> DEFINE n == Len(s)
<1>1. /\ n \in Nat /\ n >= 1 /\ DOMAIN s = 1..n /\ Head(s) = s[1]
      /\ DOMAIN Tail(s) = 1..(n - 1)
      /\ \A k \in 1..(n - 1) : Tail(s)[k] = s[k + 1] /\ k + 1 \in 1..n
  BY TailOf
<1> HIDE DEF n
<1>2. \A k \in 1..n : k # 1 => k - 1 \in 1..(n - 1) /\ (k - 1) + 1 = k
  BY <1>1
<1>3. ASSUME Has(e, s) PROVE Ahead(e, Head(s)) \/ Has(e, Tail(s))
  <2>1. PICK k \in 1..n : Ahead(e, s[k])
    BY <1>1, <1>3 DEF Has
  <2>2. CASE k # 1
    <3>1. k - 1 \in DOMAIN Tail(s) /\ Tail(s)[k - 1] = s[k]
      BY <1>1, <1>2, <2>2
    <3> QED
      BY <2>1, <3>1 DEF Has
  <2> QED
    BY <1>1, <2>1, <2>2
<1>4. ASSUME Has(e, Tail(s)) PROVE \E k \in 1..n : k # 1 /\ Ahead(e, s[k])
  <2>1. PICK k \in 1..(n - 1) : Ahead(e, s[k + 1])
    BY <1>1, <1>4 DEF Has
  <2>2. k + 1 # 1 /\ k + 1 \in 1..n
    BY <1>1
  <2> QED
    BY <2>1, <2>2
<1>5. 1 \in 1..n
  BY <1>1
<1>6. Has(e, s) <=> Ahead(e, Head(s)) \/ Has(e, Tail(s))
  BY <1>1, <1>3, <1>4, <1>5 DEF Has
<1>7. ASSUME Once(e, s) PROVE Once(e, Tail(s)) /\ ~(Ahead(e, Head(s)) /\ Has(e, Tail(s)))
  <2>1. ~(Ahead(e, Head(s)) /\ Has(e, Tail(s)))
    BY <1>1, <1>4, <1>5, <1>7 DEF Once
  <2>2. ASSUME NEW k \in 1..(n - 1), NEW l \in 1..(n - 1), Ahead(e, s[k + 1]), Ahead(e, s[l + 1])
        PROVE  k = l
    <3>1. k + 1 = l + 1
      BY <1>1, <1>7, <2>2 DEF Once
    <3>2. k \in Int /\ l \in Int
      OBVIOUS
    <3> QED
      BY <3>1, <3>2
  <2>3. Once(e, Tail(s))
    BY <1>1, <2>2 DEF Once
  <2> QED
    BY <2>1, <2>3
<1> QED
  BY <1>6, <1>7

LEMMA Longer ==
  ASSUME NEW s \in Seq(Page), NEW p \in Page, NEW e
  PROVE  /\ Has(e, Append(s, p)) <=> Has(e, s) \/ Ahead(e, p)
         /\ Once(e, s) /\ ~(Has(e, s) /\ Ahead(e, p)) => Once(e, Append(s, p))
<1> DEFINE n == Len(s)
           t == Append(s, p)
<1>1. n \in Nat /\ DOMAIN s = 1..n
  OBVIOUS
<1>2. DOMAIN t = 1..(n + 1) /\ t[n + 1] = p /\ \A k \in 1..n : t[k] = s[k]
  BY AppendProperties
<1> HIDE DEF n, t
<1>3. 1..(n + 1) = (1..n) \cup {n + 1}
  BY <1>1
<1>4. Has(e, t) <=> Has(e, s) \/ Ahead(e, p)
  BY <1>1, <1>2, <1>3 DEF Has
<1>5. Once(e, s) /\ ~(Has(e, s) /\ Ahead(e, p)) => Once(e, t)
  BY <1>1, <1>2, <1>3 DEF Has, Once
<1> QED
  BY <1>4, <1>5 DEF t

LEMMA QueuedForm ==
  /\ \A e : Queued(e) <=> Has(e, tasks)
  /\ \A e : Queued(e)' <=> Has(e, tasks')
  /\ \A e : QueuedOnce(e) <=> Once(e, tasks)
  /\ \A e : QueuedOnce(e)' <=> Once(e, tasks')
  BY DEF Queued, QueuedOnce, Has, Once

\* A taken page is with its worker.
LEMMA TakeMoves ==
  ASSUME IInv, NEW w \in Workers, TakeTask(w), NEW S \in SUBSET Entries,
         Exclusive(S), InTurn(S), NoneLost(S)
  PROVE  Exclusive(S)' /\ InTurn(S)' /\ NoneLost(S)'
<1>1. LabelsOK /\ PagesOK /\ QueuesOK
  BY TypeParts DEF IInv
<1>2. Step(w)
  BY DEF Step
<1>3. /\ tasks \in Seq(Page) /\ tasks # <<>> /\ tasks' = Tail(tasks)
      /\ pc[w] = "recv" /\ pc'[w] \in {"list", "quit"} /\ task'[w] = Head(tasks)
      /\ pc'[w] = "list" => partial' = partial
      /\ pc'[w] = "quit" => partial' # {}
  BY <1>1 DEF TakeTask, Goto, LabelsOK, PagesOK, QueuesOK
<1>4. \A e : ~InHand(e, w)
  BY <1>3 DEF InHand, HandlePC
<1>5. \A e : InHand(e, w)' <=> pc'[w] = "list" /\ Ahead(e, Head(tasks))
  BY <1>3 DEF InHand, HandlePC
<1>6. \A e : Queued(e) <=> Ahead(e, Head(tasks)) \/ Queued(e)'
  BY <1>3, Shorter, QueuedForm
<1>7. \A e \in Entries : QueuedOnce(e)
  BY DEF Exclusive, QueuedOnce
<1>8. \A e \in Entries : QueuedOnce(e)' /\ ~(Ahead(e, Head(tasks)) /\ Queued(e)')
  BY <1>3, <1>7, Shorter, QueuedForm
<1>9. \A e \in Entries : /\ Queued(e)' => ~InHand(e, w)'
                         /\ e \in S => ~Queued(e)' /\ ~InHand(e, w)'
                         /\ Near(e, w, S)' => Near(e, w, S)
  BY <1>5, <1>6, <1>8 DEF Exclusive, Near
<1>10. Exclusive(S)' /\ \A e \in Entries : Somewhere(e, S)' => Somewhere(e, S)
  BY <1>1, <1>2, <1>8, <1>9, Moved
<1>11. \A d \in Dirs : Handled(d, S)' <=> Handled(d, S)
  BY <1>1, <1>2, <1>3, HandledThere
<1>12. partial' = {} => partial = {} /\ \A e \in Entries : Near(e, w, S) => Near(e, w, S)'
  BY <1>3, <1>4, <1>5, <1>6 DEF Near
<1> QED
  BY <1>1, <1>2, <1>10, <1>11, <1>12, OrderKept

\* A further page goes from its worker to the channel.
LEMMA PageMoves ==
  ASSUME IInv, HandOnce, NEW w \in Workers, SendTask(w), pc[w] = "sendPage",
         NEW S \in SUBSET Entries, Exclusive(S), InTurn(S), NoneLost(S)
  PROVE  Exclusive(S)' /\ InTurn(S)' /\ NoneLost(S)'
<1>1. LabelsOK /\ PagesOK /\ QueuesOK /\ Holding
  BY TypeParts DEF IInv
<1>2. Step(w)
  BY DEF Step
<1> DEFINE p == Head(more[w])
<1>3. /\ tasks \in Seq(Page) /\ more[w] \in Seq(Page) /\ more[w] # <<>>
      /\ tasks' = Append(tasks, p) /\ more'[w] = Tail(more[w]) /\ rest'[w] = rest[w]
      /\ pc'[w] = "pages" /\ partial' = partial
  BY <1>1 DEF SendTask, Goto, LabelsOK, PagesOK, QueuesOK, Holding
<1>4. p \in Page
  BY <1>3, TailOf
<1> HIDE DEF p
<1>5. \A e : InHand(e, w) <=> InRest(e, w) \/ Ahead(e, p) \/ Has(e, Tail(more[w]))
  <2>1. \A e : InHand(e, w) <=> InRest(e, w) \/ Has(e, more[w])
    BY DEF InHand, HandlePC, InMore, Has
  <2> QED
    BY <1>3, <2>1, Shorter DEF p
<1>6. \A e : InHand(e, w)' <=> InRest(e, w) \/ Has(e, Tail(more[w]))
  BY <1>3 DEF InHand, HandlePC, InRest, InMore, Has
<1>7. \A e \in Entries : Ahead(e, p) => ~InRest(e, w) /\ ~Has(e, Tail(more[w]))
  <2>1. SUFFICES ASSUME NEW e \in Entries, Ahead(e, p) PROVE ~InRest(e, w) /\ ~Has(e, Tail(more[w]))
    OBVIOUS
  <2>2. Once(e, more[w])
    BY DEF HandOnce, HandlePC, Once
  <2>3. ~Has(e, Tail(more[w]))
    BY <1>3, <2>1, <2>2, Shorter DEF p
  <2>4. InMore(e, w)
    BY <1>3, <2>1, Shorter DEF p, InMore, Has
  <2>5. ~InRest(e, w)
    BY <2>4 DEF HandOnce, HandlePC, InRest
  <2> QED
    BY <2>3, <2>5
<1>8. \A e : Queued(e)' <=> Queued(e) \/ Ahead(e, p)
  BY <1>3, <1>4, Longer, QueuedForm
<1>9. \A e \in Entries : QueuedOnce(e)'
  <2>1. SUFFICES ASSUME NEW e \in Entries PROVE Once(e, tasks')
    BY QueuedForm
  <2>2. Once(e, tasks) /\ ~(Has(e, tasks) /\ Ahead(e, p))
    BY <1>5, QueuedForm DEF Exclusive, QueuedOnce
  <2> QED
    BY <1>3, <1>4, <2>2, Longer
<1>10. \A e \in Entries : /\ Queued(e)' => ~InHand(e, w)'
                          /\ e \in S => ~Queued(e)' /\ ~InHand(e, w)'
                          /\ Near(e, w, S)' => Near(e, w, S)
  BY <1>5, <1>6, <1>7, <1>8 DEF Exclusive, Near
<1>11. Exclusive(S)' /\ \A e \in Entries : Somewhere(e, S)' => Somewhere(e, S)
  BY <1>1, <1>2, <1>9, <1>10, Moved
<1>12. \A d \in Dirs : Handled(d, S)' <=> Handled(d, S)
  BY <1>1, <1>2, <1>3, HandledThere
<1>13. partial' = {} => partial = {} /\ \A e \in Entries : Near(e, w, S) => Near(e, w, S)'
  BY <1>3, <1>5, <1>6, <1>8 DEF Near
<1> QED
  BY <1>1, <1>2, <1>11, <1>12, <1>13, OrderKept

LEMMA InRestForm ==
  ASSUME NEW w, rest[w] \in Seq(Entries), rest[w] # <<>>, NEW e
  PROVE  InRest(e, w) <=> Head(rest[w]) = e \/ \E i \in DOMAIN Tail(rest[w]) : Tail(rest[w])[i] = e
<1> DEFINE s == rest[w]
           n == Len(s)
<1>1. /\ n \in Nat /\ n >= 1 /\ DOMAIN s = 1..n /\ Head(s) = s[1]
      /\ DOMAIN Tail(s) = 1..(n - 1)
      /\ \A k \in 1..(n - 1) : Tail(s)[k] = s[k + 1] /\ k + 1 \in 1..n
  BY TailOf
<1> HIDE DEF s, n
<1>2. \A k \in 1..n : k # 1 => k - 1 \in 1..(n - 1) /\ (k - 1) + 1 = k
  BY <1>1
<1>3. ASSUME NEW k \in 1..n, s[k] = e PROVE Head(s) = e \/ \E i \in 1..(n - 1) : Tail(s)[i] = e
  <2>1. CASE k # 1
    <3>1. k - 1 \in 1..(n - 1) /\ Tail(s)[k - 1] = s[k]
      BY <1>1, <1>2, <2>1
    <3> QED
      BY <1>3, <3>1
  <2> QED
    BY <1>1, <1>3, <2>1
<1>4. 1 \in 1..n
  BY <1>1
<1>5. (\E k \in 1..n : s[k] = e) <=> Head(s) = e \/ \E i \in 1..(n - 1) : Tail(s)[i] = e
  BY <1>1, <1>3, <1>4
<1> QED
  BY <1>1, <1>5 DEF InRest, s

\* An entry that is sent is through, and so is one the consumer no longer takes.
LEMMA ItemMoves ==
  ASSUME IInv, HandOnce, MoreWhere, NEW w \in Workers, SendItem(w), NEW S \in SUBSET Entries,
         Exclusive(S), InTurn(S), NoneLost(S), NEW h, h = Head(rest[w])
  PROVE  LET T == S \cup {h} IN Exclusive(T)' /\ InTurn(T)' /\ NoneLost(T)'
<1> DEFINE T == S \cup {h}
<1>1. LabelsOK /\ PagesOK /\ QueuesOK /\ Holding
  BY TypeParts DEF IInv
<1>2. Step(w)
  BY DEF Step
<1>3. /\ rest[w] \in Seq(Entries) /\ rest[w] # <<>> /\ more[w] = <<>>
      /\ tasks' = tasks /\ more'[w] = <<>> /\ pc[w] = "sendItem"
      /\ \/ pc'[w] = "items" /\ rest'[w] = Tail(rest[w]) /\ partial' = partial
         \/ pc'[w] = "finish" /\ rest'[w] = rest[w] /\ partial' # {}
  BY <1>1 DEF SendItem, Goto, LabelsOK, PagesOK, Holding, MoreWhere
<1>4. h \in Entries
  BY <1>3, TailOf
<1> DEFINE Behind(e) == \E i \in DOMAIN Tail(rest[w]) : Tail(rest[w])[i] = e
<1>5. \A e : InHand(e, w) <=> e = h \/ Behind(e)
  <2>1. \A e : InHand(e, w) <=> InRest(e, w)
    BY <1>3, EmptySeq DEF InHand, HandlePC, InMore
  <2> QED
    BY <1>3, <2>1, InRestForm
<1>6. \A e : InHand(e, w)' <=> pc'[w] = "items" /\ Behind(e)
  <2>1. \A e : InHand(e, w)' <=> pc'[w] = "items" /\ (\E i \in DOMAIN rest'[w] : rest'[w][i] = e)
    BY <1>3, EmptySeq DEF InHand, HandlePC, InRest, InMore
  <2> QED
    BY <1>3, <2>1
<1>7. ~Behind(h)
  <2>1. \A i, j \in DOMAIN rest[w] : rest[w][i] = rest[w][j] => i = j
    BY <1>3 DEF HandOnce, HandlePC
  <2>2. PICK n \in Nat : /\ n >= 1 /\ DOMAIN rest[w] = 1..n /\ h = rest[w][1]
                         /\ DOMAIN Tail(rest[w]) = 1..(n - 1)
                         /\ \A k \in 1..(n - 1) : Tail(rest[w])[k] = rest[w][k + 1] /\ k + 1 \in 1..n
    BY <1>3, TailOf
  <2>3. SUFFICES ASSUME NEW k \in 1..(n - 1), rest[w][k + 1] = rest[w][1] PROVE FALSE
    BY <2>2
  <2>4. k + 1 = 1
    BY <2>1, <2>2, <2>3
  <2> QED
    BY <2>4
<1>8. \A e : Queued(e)' <=> Queued(e)
  BY <1>3 DEF Queued
<1>9. \A e \in Entries : QueuedOnce(e)'
  BY <1>3 DEF Exclusive, QueuedOnce
<1> HIDE DEF Behind
<1>10. \A e \in Entries : /\ Queued(e)' => ~InHand(e, w)'
                          /\ e \in T => ~Queued(e)' /\ ~InHand(e, w)'
                          /\ Near(e, w, T)' => Near(e, w, S)
  BY <1>4, <1>5, <1>6, <1>7, <1>8 DEF Exclusive, Near
<1>11. T \in SUBSET Entries
  BY <1>4
<1>12. Exclusive(T)' /\ \A e \in Entries : Somewhere(e, T)' => Somewhere(e, S)
  BY <1>1, <1>2, <1>9, <1>10, <1>11, Moved
<1>13. \A d \in Dirs : Handled(d, T)' <=> Handled(d, S)
  BY <1>1, <1>2, <1>3, HandledThere
<1>14. partial' = {} => partial = {} /\ \A e \in Entries : Near(e, w, S) => Near(e, w, T)'
  BY <1>3, <1>5, <1>6, <1>8 DEF Near
<1>15. InTurn(T)' /\ NoneLost(T)'
  BY <1>1, <1>2, <1>12, <1>13, <1>14, OrderKept
<1> QED
  BY <1>12, <1>15

\* The first page of a directory has all it lists ahead.
LEMMA FirstPage ==
  ASSUME NEW d \in Dirs
  PROVE  LET p == [dir |-> d, offset |-> 0]
         IN  p \in Page /\ \A e : Ahead(e, p) <=> e \in Kids(d)
<1> DEFINE p == [dir |-> d, offset |-> 0]
<1>1. p \in Page /\ p.dir = d /\ p.offset = 0
  BY DEF Page
<1>2. \A i \in DOMAIN Content[d] : i > 0
  BY ContentType
<1> HIDE DEF p
<1> QED
  BY <1>1, <1>2 DEF Ahead, Kids, p

\* What a directory lists is where nobody met it before, until its worker sends
\* the task of the directory; then all of it is in the channel.
LEMMA DirectoryMoves ==
  ASSUME IInv, HandOnce, NEW w \in Workers, SendTask(w), pc[w] = "sendDir",
         NEW S \in SUBSET Entries, Exclusive(S), InTurn(S), NoneLost(S)
  PROVE  Exclusive(S)' /\ InTurn(S)' /\ NoneLost(S)'
<1>1. LabelsOK /\ PagesOK /\ QueuesOK /\ Holding
  BY TypeParts DEF IInv
<1>2. Step(w)
  BY DEF Step
<1> DEFINE d == Head(rest[w])
           p == [dir |-> d, offset |-> 0]
<1>3. /\ tasks \in Seq(Page) /\ rest[w] \in Seq(Entries) /\ rest[w] # <<>> /\ d \in Dirs
      /\ tasks' = Append(tasks, p) /\ more'[w] = more[w] /\ rest'[w] = rest[w]
      /\ pc'[w] = "sendItem" /\ partial' = partial
  BY <1>1 DEF SendTask, Goto, LabelsOK, PagesOK, QueuesOK, Holding
<1>4. p \in Page /\ \A e : Ahead(e, p) <=> e \in Kids(d)
  BY <1>3, FirstPage
<1> HIDE DEF p, d
<1>5. d \in Entries /\ d # Root /\ InHand(d, w)
  <2>1. d \in Entries
    BY <1>3, TailOf DEF d
  <2>2. InRest(d, w)
    BY <1>3, InRestForm DEF d
  <2> QED
    BY <2>1, <2>2 DEF InHand, HandlePC, Entries
<1>6. ~Handled(d, S)
  <2>1. d \notin S
    BY <1>5 DEF Exclusive
  <2>2. ASSUME NEW v \in Workers, pc[v] = "sendItem", Head(rest[v]) = d PROVE FALSE
    <3>1. v # w
      BY <2>2
    <3>2. rest[v] \in Seq(Entries) /\ rest[v] # <<>>
      BY <1>1, <2>2 DEF PagesOK, Holding
    <3>3. InHand(d, v)
      BY <2>2, <3>2, InRestForm DEF InHand, HandlePC
    <3> QED
      BY <1>5, <3>1, <3>3 DEF Exclusive
  <2> QED
    BY <1>5, <2>1, <2>2 DEF Handled
<1>7. \A e \in Kids(d) : e \in Entries /\ ~Somewhere(e, S)
  <2>1. Kids(d) \subseteq Entries
    BY <1>3, ContentType DEF Kids
  <2> QED
    BY <1>3, <1>6, <2>1 DEF InTurn
<1>8. \A e : InHand(e, w)' <=> InHand(e, w)
  BY <1>3 DEF InHand, HandlePC, InRest, InMore
<1>9. \A e : Queued(e)' <=> Queued(e) \/ e \in Kids(d)
  BY <1>3, <1>4, Longer, QueuedForm
<1>10. \A v \in Workers : \A e : InHand(e, v)' <=> InHand(e, v)
  BY <1>1, <1>2, <1>8, HandsOfOthers
<1>11. \A e \in Entries : QueuedOnce(e)'
  <2>1. SUFFICES ASSUME NEW e \in Entries PROVE Once(e, tasks')
    BY QueuedForm
  <2>2. Once(e, tasks)
    BY QueuedForm DEF Exclusive, QueuedOnce
  <2>3. ~(Has(e, tasks) /\ Ahead(e, p))
    BY <1>4, <1>7, QueuedForm DEF Somewhere
  <2> QED
    BY <1>3, <1>4, <2>2, <2>3, Longer
<1>12. Exclusive(S)'
  <2>1. ASSUME NEW e \in Entries
        PROVE  /\ \A v, u \in Workers : InHand(e, v)' /\ InHand(e, u)' => v = u
               /\ Queued(e)' => \A v \in Workers : ~InHand(e, v)'
               /\ e \in S => ~Queued(e)' /\ \A v \in Workers : ~InHand(e, v)'
    <3>1. CASE e \in Kids(d)
      BY <1>7, <1>10, <3>1 DEF Somewhere
    <3>2. CASE e \notin Kids(d)
      BY <1>9, <1>10, <3>2 DEF Exclusive
    <3> QED
      BY <3>1, <3>2
  <2> QED
    BY <1>11, <2>1 DEF Exclusive, QueuedOnce
<1>13. \A e : Somewhere(e, S)' <=> Somewhere(e, S) \/ e \in Kids(d)
  BY <1>9, <1>10 DEF Somewhere
<1>14. \A c : Handled(c, S)' <=> Handled(c, S) \/ c = d
  <2>1. \A v \in Workers : v # w => pc'[v] = pc[v] /\ rest'[v] = rest[v]
    BY <1>1, <1>2, OthersWait
  <2>2. Head(rest'[w]) = d
    BY <1>3 DEF d
  <2> QED
    BY <1>3, <2>1, <2>2 DEF Handled
<1>15. \A c \in Dirs : \A e \in Kids(c) : e \in Kids(d) => c = d
  BY <1>3, OnePlace DEF Kids
<1>16. InTurn(S)'
  <2>1. \A c \in Dirs : \A e \in Kids(c) : Somewhere(e, S)' => Handled(c, S)'
    BY <1>13, <1>14, <1>15 DEF InTurn
  <2> QED
    BY <2>1 DEF InTurn, Kids
<1>17. NoneLost(S)'
  <2>1. partial' = {} => \A c \in Dirs : Handled(c, S)' => \A e \in Kids(c) : Somewhere(e, S)'
    BY <1>3, <1>13, <1>14 DEF NoneLost
  <2> QED
    BY <2>1 DEF NoneLost, Kids
<1> QED
  BY <1>12, <1>16, <1>17

\* A page listed is held once, and what is left of it too.
LEMMA HandOnceKept ==
  ASSUME IInv, HandOnce, MoreWhere, NEW w \in Workers, Step(w)
  PROVE  HandOnce' /\ MoreWhere'
<1>1. LabelsOK /\ PagesOK /\ QueuesOK /\ Holding
  BY TypeParts DEF IInv
<1> DEFINE Distinct(r) == \A i, j \in DOMAIN r : r[i] = r[j] => i = j
           Apart(r, m) == \A i \in DOMAIN r : ~Has(r[i], m)
           Good(r, m)  == Distinct(r) /\ Apart(r, m) /\ \A e \in Entries : Once(e, m)
<1>2. HandOnce <=> \A v \in Workers : pc[v] \in HandlePC => Good(rest[v], more[v])
  BY DEF HandOnce, Has, Once, InMore
<1>3. HandOnce' <=> \A v \in Workers : pc'[v] \in HandlePC => Good(rest'[v], more'[v])
  BY DEF HandOnce, Has, Once, InMore
<1>4. SUFFICES /\ pc'[w] \in HandlePC => Good(rest'[w], more'[w])
               /\ more'[w] # <<>> => pc'[w] \in {"pages", "sendPage"}
  <2>1. \A v \in Workers : v # w => pc'[v] = pc[v] /\ more'[v] = more[v] /\ rest'[v] = rest[v]
    BY <1>1, OthersWait
  <2>2. HandOnce'
    BY <1>2, <1>3, <1>4, <2>1
  <2>3. MoreWhere'
    BY <1>4, <2>1 DEF MoreWhere
  <2> QED
    BY <2>2, <2>3
<1>5. CASE ListPage(w)
  <2>1. pc[w] = "list"
    BY <1>5 DEF ListPage
  <2>2. CASE pc'[w] = "pages"
    <3>1. more'[w] = FurtherPages(task[w]) /\ rest'[w] = PageAt(task[w].dir, task[w].offset)
      BY <1>1, <1>5, <2>2 DEF ListPage, Goto, LabelsOK, PagesOK
    <3>2. task[w] \in Page
      BY <1>1 DEF PagesOK
    <3>3. Good(PageAt(task[w].dir, task[w].offset), FurtherPages(task[w]))
      <4>1. Distinct(PageAt(task[w].dir, task[w].offset))
        BY <3>2, Split
      <4>2. Apart(PageAt(task[w].dir, task[w].offset), FurtherPages(task[w]))
        BY <3>2, Split DEF Has
      <4>3. \A e \in Entries : Once(e, FurtherPages(task[w]))
        BY <3>2, Split DEF Once
      <4> QED
        BY <4>1, <4>2, <4>3
    <3> QED
      BY <2>2, <3>1, <3>3
  <2>3. CASE pc'[w] # "pages"
    <3>1. pc'[w] \in {"sendError", "finish"} /\ more' = more
      BY <1>1, <1>5, <2>3 DEF ListPage, Goto, LabelsOK
    <3> QED
      BY <2>1, <3>1 DEF HandlePC, MoreWhere
  <2> QED
    BY <2>2, <2>3
<1>6. CASE SendTask(w) /\ pc[w] = "sendPage"
  <2>1. /\ more[w] \in Seq(Page) /\ more[w] # <<>> /\ more'[w] = Tail(more[w])
        /\ rest'[w] = rest[w] /\ pc'[w] = "pages"
    BY <1>1, <1>6 DEF SendTask, Goto, LabelsOK, PagesOK, Holding
  <2>2. Good(rest[w], more[w])
    BY <1>2, <1>6 DEF HandlePC
  <2>3. Apart(rest[w], Tail(more[w]))
    BY <2>1, <2>2, Shorter
  <2>4. \A e \in Entries : Once(e, Tail(more[w]))
    BY <2>1, <2>2, Shorter
  <2> QED
    BY <2>1, <2>2, <2>3, <2>4
<1>7. CASE SendItem(w)
  <2>1. more'[w] = <<>> /\ more[w] = <<>> /\ rest[w] \in Seq(Entries) /\ rest[w] # <<>>
    BY <1>1, <1>7 DEF SendItem, MoreWhere, PagesOK, Holding
  <2>2. CASE pc'[w] \in HandlePC
    <3>1. rest'[w] = Tail(rest[w])
      BY <1>1, <1>7, <2>2 DEF SendItem, Goto, LabelsOK, PagesOK, HandlePC
    <3>2. Good(rest[w], more[w])
      BY <1>2, <1>7 DEF SendItem, HandlePC
    <3>3. PICK n \in Nat : /\ DOMAIN rest[w] = 1..n /\ DOMAIN Tail(rest[w]) = 1..(n - 1)
                           /\ \A k \in 1..(n - 1) : Tail(rest[w])[k] = rest[w][k + 1] /\ k + 1 \in 1..n
      BY <2>1, TailOf
    <3>4. Distinct(Tail(rest[w]))
      <4>1. SUFFICES ASSUME NEW i \in 1..(n - 1), NEW j \in 1..(n - 1), rest[w][i + 1] = rest[w][j + 1]
                     PROVE  i = j
        BY <3>3
      <4>2. i + 1 = j + 1
        BY <3>2, <3>3, <4>1
      <4>3. i \in Int /\ j \in Int
        OBVIOUS
      <4> QED
        BY <4>2, <4>3
    <3>5. Apart(Tail(rest[w]), more[w])
      BY <3>2, <3>3
    <3> QED
      BY <2>1, <3>1, <3>2, <3>4, <3>5
  <2> QED
    BY <2>1, <2>2
<1>8. CASE \/ CountTask(w) \/ Scan(w) \/ Report(w) \/ CountFile(w)
           \/ (SendTask(w) /\ pc[w] = "sendDir")
  <2>1. /\ more' = more /\ rest' = rest /\ pc[w] \in HandlePC
        /\ more[w] # <<>> => pc'[w] \in {"pages", "sendPage"}
    BY <1>1, <1>8 DEF CountTask, Scan, Report, CountFile, SendTask, Goto, LabelsOK, HandlePC, MoreWhere
  <2> QED
    BY <1>2, <2>1
<1>9. CASE \/ TakeTask(w) \/ NoMoreTasks(w) \/ SendError(w) \/ Finish(w) \/ Close(w) \/ Announce(w)
  <2>1. more' = more /\ pc[w] \notin HandlePC /\ pc'[w] \notin HandlePC
    BY <1>1, <1>9 DEF TakeTask, NoMoreTasks, SendError, Finish, Close, Announce, Goto, LabelsOK, HandlePC
  <2> QED
    BY <2>1 DEF MoreWhere, HandlePC
<1> QED
  BY <1>5, <1>6, <1>7, <1>8, <1>9 DEF Step, SendTask

\* A file is counted when it is about to be sent; sending it changes no count.
LEMMA CountKept ==
  ASSUME IInv, NEW w \in Workers, Step(w), NEW S \in SUBSET Entries, Exclusive(S), Counted(S),
         NEW T, T = S \/ SendItem(w), SendItem(w) => \E h : h = Head(rest[w]) /\ T = S \cup {h}
  PROVE  Counted(T)'
<1>1. LabelsOK /\ PagesOK /\ QueuesOK /\ SharedOK /\ Holding
  BY TypeParts DEF IInv
<1>2. CountedFiles(T)' = {f \in Files : Handled(f, T)'} /\ CountedFiles(S) = {f \in Files : Handled(f, S)}
  BY DEF CountedFiles, Handled
<1>3. CASE CountFile(w) /\ rest[w] # <<>>
  <2>1. PICK h : h = Head(rest[w])
    OBVIOUS
  <2>2. /\ h \in Files /\ files' = files + 1 /\ T = S /\ rest'[w] = rest[w]
        /\ pc[w] = "items" /\ pc'[w] = "sendItem" /\ rest[w] \in Seq(Entries)
    BY <1>1, <1>3, <2>1 DEF CountFile, SendItem, Goto, LabelsOK, PagesOK
  <2>3. \A v \in Workers : v # w => pc'[v] = pc[v] /\ rest'[v] = rest[v]
    BY <1>1, OthersWait
  <2>4. \A e : Handled(e, T)' <=> Handled(e, S) \/ e = h
    BY <2>1, <2>2, <2>3 DEF Handled
  <2>5. h \in Entries /\ h # Root /\ InHand(h, w)
    <3>1. h \in Entries
      BY <1>3, <2>1, <2>2, TailOf
    <3>2. InRest(h, w)
      BY <1>3, <2>1, <2>2, InRestForm
    <3> QED
      BY <2>2, <3>1, <3>2 DEF InHand, HandlePC, Entries
  <2>6. ~Handled(h, S)
    <3>1. ASSUME NEW v \in Workers, pc[v] = "sendItem", Head(rest[v]) = h PROVE FALSE
      <4>1. v # w /\ rest[v] \in Seq(Entries) /\ rest[v] # <<>>
        BY <1>1, <2>2, <3>1 DEF PagesOK, Holding
      <4>2. InHand(h, v)
        BY <3>1, <4>1, InRestForm DEF InHand, HandlePC
      <4> QED
        BY <2>5, <4>1, <4>2 DEF Exclusive
    <3> QED
      BY <2>5, <3>1 DEF Handled, Exclusive
  <2>7. CountedFiles(T)' = CountedFiles(S) \cup {h} /\ h \notin CountedFiles(S)
    BY <1>2, <2>2, <2>4, <2>6
  <2>8. IsFiniteSet(CountedFiles(S)) /\ files = Cardinality(CountedFiles(S))
    BY DEF Counted
  <2>9. /\ IsFiniteSet(CountedFiles(S) \cup {h})
        /\ Cardinality(CountedFiles(S) \cup {h}) = Cardinality(CountedFiles(S)) + 1
    BY <2>7, <2>8, FS_AddElement
  <2> QED
    BY <2>2, <2>7, <2>8, <2>9 DEF Counted
<1>4. CASE ~(CountFile(w) /\ rest[w] # <<>>)
  <2>1. files' = files
    BY <1>4 DEF Step, TakeTask, NoMoreTasks, ListPage, CountTask, SendTask, Scan, Report, CountFile,
                SendItem, SendError, Finish, Close, Announce, counters
  <2>2. \A f \in Files : Handled(f, T)' <=> Handled(f, S)
    <3>1. CASE SendItem(w)
      <4>1. PICK h : h = Head(rest[w]) /\ T = S \cup {h}
        BY <3>1
      <4>2. pc[w] = "sendItem" /\ pc'[w] # "sendItem"
        BY <1>1, <3>1 DEF SendItem, Goto, LabelsOK
      <4> QED
        BY <1>1, <4>1, <4>2, HandledThere
    <3>2. CASE ~SendItem(w)
      <4>1. pc[w] # "sendItem"
        BY <3>2 DEF Step, TakeTask, NoMoreTasks, ListPage, CountTask, SendTask, Scan, Report, CountFile,
                    SendError, Finish, Close, Announce
      <4>2. pc'[w] = "sendItem" => Head(rest'[w]) \in Dirs
        BY <1>1, <1>4, <3>2 DEF Step, TakeTask, NoMoreTasks, ListPage, CountTask, SendTask, Scan, Report,
                    CountFile, SendError, Finish, Close, Announce, Goto, LabelsOK, Holding
      <4>3. Dirs \cap Files = {}
        BY TreeAssumption
      <4> QED
        BY <1>1, <3>2, <4>1, <4>2, <4>3, HandledThere
    <3> QED
      BY <3>1, <3>2
  <2>3. CountedFiles(T)' = CountedFiles(S)
    BY <1>2, <2>2
  <2> QED
    BY <2>1, <2>3 DEF Counted
<1> QED
  BY <1>3, <1>4

\* What is sent for the first time waits in the channel.
LEMMA DeliveredKept ==
  ASSUME IInv, NEW w \in Workers, Step(w), NEW S \in SUBSET Entries, Exclusive(S), Delivered(S),
         NEW T, T = S \/ SendItem(w), SendItem(w) => \E h : h = Head(rest[w]) /\ T = S \cup {h}
  PROVE  Delivered(T)'
<1>1. LabelsOK /\ PagesOK /\ QueuesOK /\ SharedOK /\ Holding
  BY TypeParts DEF IInv
<1>2. consumer' = consumer /\ seen' = seen
  BY DEF Step, TakeTask, NoMoreTasks, ListPage, CountTask, SendTask, Scan, Report, CountFile,
         SendItem, SendError, Finish, Close, Announce, reader
<1>3. CASE SendItem(w)
  <2>1. PICK h : h = Head(rest[w]) /\ T = S \cup {h}
    BY <1>3
  <2>2. rest[w] \in Seq(Entries) /\ rest[w] # <<>> /\ pc[w] = "sendItem"
    BY <1>1, <1>3 DEF SendItem, PagesOK, Holding
  <2>3. h \in Entries /\ InHand(h, w)
    BY <2>1, <2>2, TailOf, InRestForm DEF InHand, HandlePC
  <2>4. h \notin S /\ h # Failure
    BY <2>3, WalkAssumption DEF Exclusive
  <2>5. \A e \in Entries : seen'[e] \in {0, 1} /\ (seen'[e] = 1 => e \in T)
    BY <1>2, <2>1 DEF Delivered
  <2>6. CASE consumer = "dropped"
    BY <1>2, <2>5, <2>6 DEF Delivered
  <2>7. CASE consumer # "dropped"
    <3>1. items' = Append(items, h)
      BY <1>3, <2>1, <2>7 DEF SendItem
    <3>2. PICK n \in Nat : n = Len(items)
      BY <1>1 DEF QueuesOK
    <3>3. /\ DOMAIN items = 1..n /\ DOMAIN items' = 1..(n + 1) /\ items'[n + 1] = h
          /\ \A k \in 1..n : items'[k] = items[k]
      <4>1. items \in Seq(Entries \cup {Failure}) /\ h \in Entries \cup {Failure}
        BY <1>1, <2>3 DEF QueuesOK
      <4> QED
        BY <3>1, <3>2, <4>1, AppendProperties
    <3>4. 1..(n + 1) = (1..n) \cup {n + 1}
      BY <3>2
    <3>5. /\ \A i, j \in 1..n : items[i] = items[j] /\ items[i] # Failure => i = j
          /\ \A i \in 1..n : items[i] # Failure => items[i] \in S /\ seen[items[i]] = 0
          /\ \A e \in S : seen[e] = 1 \/ \E i \in 1..n : items[i] = e
      BY <2>7, <3>3 DEF Delivered
    <3>6. \A i \in 1..n : items[i] # h
      BY <2>4, <3>5
    <3>7. seen[h] = 0
      BY <2>3, <2>4 DEF Delivered
    <3>8. \A i, j \in 1..(n + 1) : items'[i] = items'[j] /\ items'[i] # Failure => i = j
      BY <3>3, <3>4, <3>5, <3>6
    <3>9. \A i \in 1..(n + 1) : items'[i] # Failure => items'[i] \in T /\ seen[items'[i]] = 0
      BY <2>1, <3>3, <3>4, <3>5, <3>7
    <3>10. \A e \in T : seen[e] = 1 \/ \E i \in 1..(n + 1) : items'[i] = e
      BY <2>1, <3>3, <3>4, <3>5
    <3> QED
      BY <1>2, <2>5, <3>3, <3>8, <3>9, <3>10 DEF Delivered
  <2> QED
    BY <2>6, <2>7
<1>4. CASE SendError(w) /\ consumer # "dropped"
  <2>1. T = S /\ items' = Append(items, Failure)
    BY <1>1, <1>4 DEF SendError, SendItem
  <2>2. PICK n \in Nat : n = Len(items)
    BY <1>1 DEF QueuesOK
  <2>3. /\ DOMAIN items = 1..n /\ DOMAIN items' = 1..(n + 1) /\ items'[n + 1] = Failure
        /\ \A k \in 1..n : items'[k] = items[k]
    <3>1. items \in Seq(Entries \cup {Failure})
      BY <1>1 DEF QueuesOK
    <3> QED
      BY <2>1, <2>2, <3>1, AppendProperties
  <2>4. 1..(n + 1) = (1..n) \cup {n + 1}
    BY <2>2
  <2>5. /\ \A i, j \in 1..n : items[i] = items[j] /\ items[i] # Failure => i = j
        /\ \A i \in 1..n : items[i] # Failure => items[i] \in S /\ seen[items[i]] = 0
        /\ \A e \in S : seen[e] = 1 \/ \E i \in 1..n : items[i] = e
    BY <1>4, <2>3 DEF Delivered
  <2>6. \A i, j \in 1..(n + 1) : items'[i] = items'[j] /\ items'[i] # Failure => i = j
    BY <2>3, <2>4, <2>5
  <2>7. \A i \in 1..(n + 1) : items'[i] # Failure => items'[i] \in S /\ seen[items'[i]] = 0
    BY <2>3, <2>4, <2>5
  <2>8. \A e \in S : seen[e] = 1 \/ \E i \in 1..(n + 1) : items'[i] = e
    BY <2>3, <2>4, <2>5
  <2> QED
    BY <1>2, <2>1, <2>3, <2>6, <2>7, <2>8 DEF Delivered
<1>5. CASE ~SendItem(w) /\ ~(SendError(w) /\ consumer # "dropped")
  <2>1. T = S /\ items' = items
    BY <1>5 DEF Step, TakeTask, NoMoreTasks, ListPage, CountTask, SendTask, Scan, Report, CountFile,
                SendError, Finish, Close, Announce, channels
  <2> QED
    BY <1>2, <2>1 DEF Delivered
<1> QED
  BY <1>3, <1>4, <1>5

\* Every step of a worker keeps account of the entries.
LEMMA WorkerPlaces ==
  ASSUME IInv, HandOnce, MoreWhere, NEW w \in Workers, Step(w), NEW S \in SUBSET Entries, Places(S)
  PROVE  \E T \in SUBSET Entries : Places(T)'
<1>1. Exclusive(S) /\ InTurn(S) /\ NoneLost(S) /\ Delivered(S) /\ Counted(S)
  BY DEF Places
<1>2. LabelsOK /\ PagesOK /\ QueuesOK /\ Holding
  BY TypeParts DEF IInv
<1>3. CASE SendItem(w)
  <2>1. PICK h : h = Head(rest[w])
    OBVIOUS
  <2>2. PICK T : T = S \cup {h}
    OBVIOUS
  <2>3. Exclusive(T)' /\ InTurn(T)' /\ NoneLost(T)'
    BY <1>1, <1>3, <2>1, <2>2, ItemMoves
  <2>4. Delivered(T)'
    BY <1>1, <1>3, <2>1, <2>2, DeliveredKept
  <2>5. Counted(T)'
    BY <1>1, <1>3, <2>1, <2>2, CountKept
  <2>6. T \in SUBSET Entries
    <3>1. h \in Entries
      BY <1>2, <1>3, <2>1, TailOf DEF SendItem, PagesOK, Holding
    <3> QED
      BY <2>2, <3>1
  <2>7. Places(T)'
    BY <2>3, <2>4, <2>5 DEF Places
  <2> QED
    BY <2>6, <2>7
<1>4. CASE ~SendItem(w)
  <2>1. Delivered(S)' /\ Counted(S)'
    BY <1>1, <1>4, DeliveredKept, CountKept
  <2>2. Exclusive(S)' /\ InTurn(S)' /\ NoneLost(S)'
    <3>1. CASE TakeTask(w)
      BY <1>1, <3>1, TakeMoves
    <3>2. CASE SendTask(w) /\ pc[w] = "sendPage"
      BY <1>1, <3>2, PageMoves
    <3>3. CASE SendTask(w) /\ pc[w] = "sendDir"
      BY <1>1, <3>3, DirectoryMoves
    <3>4. CASE \/ NoMoreTasks(w) \/ ListPage(w) \/ CountTask(w) \/ Scan(w) \/ Report(w) \/ CountFile(w)
               \/ SendError(w) \/ Finish(w) \/ Close(w) \/ Announce(w)
      BY <1>1, <1>2, <3>4, QuietActions, QuietStep
    <3> QED
      BY <1>4, <3>1, <3>2, <3>3, <3>4 DEF Step, SendTask
  <2>3. Places(S)'
    BY <2>1, <2>2 DEF Places
  <2> QED
    BY <2>3
<1> QED
  BY <1>3, <1>4

\* What the consumer and the token do moves nothing a worker has.
LEMMA ReaderPlaces ==
  ASSUME IInv, Receive \/ Stop \/ Leave \/ Cancel \/ UNCHANGED vars, NEW S \in SUBSET Entries, Places(S)
  PROVE  Places(S)'
<1>1. QueuesOK /\ SharedOK
  BY TypeParts DEF IInv
<1>2. /\ tasks' = tasks /\ pc' = pc /\ task' = task /\ more' = more /\ rest' = rest
      /\ partial' = partial /\ files' = files
  BY DEF Receive, Stop, Leave, Cancel, vars, channels, locals, counters
<1>3. /\ \A e : Queued(e)' <=> Queued(e)
      /\ \A e, w : InHand(e, w)' <=> InHand(e, w)
      /\ \A e : Handled(e, S)' <=> Handled(e, S)
  BY <1>2 DEF Queued, InHand, InRest, InMore, Handled
<1>4. \A e : Somewhere(e, S)' <=> Somewhere(e, S)
  BY <1>3 DEF Somewhere
<1>5. Exclusive(S)'
  BY <1>2, <1>3 DEF Places, Exclusive
<1>6. InTurn(S)' /\ NoneLost(S)'
  <2>1. InTurn(S)'
    BY <1>3, <1>4 DEF Places, InTurn, Kids
  <2>2. NoneLost(S)'
    <3>1. partial = {} => \A d \in Dirs : Handled(d, S)' => \A e \in Kids(d) : Somewhere(e, S)'
      BY <1>3, <1>4 DEF Places, NoneLost
    <3> QED
      BY <1>2, <3>1 DEF NoneLost, Kids
  <2> QED
    BY <2>1, <2>2
<1>7. Counted(S)'
  <2>1. CountedFiles(S)' = {f \in Files : Handled(f, S)'} /\ CountedFiles(S) = {f \in Files : Handled(f, S)}
    BY DEF CountedFiles, Handled
  <2>2. CountedFiles(S)' = CountedFiles(S)
    BY <1>3, <2>1
  <2> QED
    BY <1>2, <2>2 DEF Places, Counted
<1>8. Delivered(S)'
  <2>1. Delivered(S)
    BY DEF Places
  <2>2. CASE consumer' = "dropped" /\ seen' = seen
    BY <2>1, <2>2 DEF Delivered
  <2>3. CASE consumer # "dropped" /\ items' = items /\ seen' = seen
    BY <2>1, <2>3 DEF Delivered
  <2>4. CASE consumer' = consumer /\ items' = items /\ seen' = seen
    BY <2>1, <2>4 DEF Delivered
  <2>5. CASE Receive /\ items # <<>> /\ Head(items) # Failure
    <3>1. PICK h : h = Head(items)
      OBVIOUS
    <3>2. PICK n \in Nat : /\ n >= 1 /\ DOMAIN items = 1..n /\ h = items[1]
                           /\ DOMAIN Tail(items) = 1..(n - 1)
                           /\ \A k \in 1..(n - 1) : Tail(items)[k] = items[k + 1] /\ k + 1 \in 1..n
      BY <1>1, <2>5, <3>1, TailOf DEF QueuesOK
    <3>3. consumer # "dropped" /\ items' = Tail(items) /\ seen' = [seen EXCEPT ![h] = @ + 1]
      BY <2>5, <3>1 DEF Receive
    <3>4. /\ \A i, j \in 1..n : items[i] = items[j] /\ items[i] # Failure => i = j
          /\ \A i \in 1..n : items[i] # Failure => items[i] \in S /\ seen[items[i]] = 0
          /\ \A e \in S : seen[e] = 1 \/ \E i \in 1..n : items[i] = e
      BY <2>1, <3>2, <3>3 DEF Delivered
    <3>5. 1 \in 1..n /\ h # Failure /\ h \in S /\ seen[h] = 0
      BY <2>5, <3>1, <3>2, <3>4
    <3>6. seen'[h] = 1 /\ \A e \in Entries : e # h => seen'[e] = seen[e]
      BY <1>1, <3>3, <3>5 DEF SharedOK
    <3>7. \A k \in 1..(n - 1) : k + 1 # 1 /\ items[k + 1] # h
      <4>1. SUFFICES ASSUME NEW k \in 1..(n - 1) PROVE k + 1 # 1 /\ items[k + 1] # h
        OBVIOUS
      <4>2. k + 1 # 1
        OBVIOUS
      <4> QED
        BY <3>2, <3>4, <3>5, <4>2
    <3>8. \A i \in 1..n : i # 1 => i - 1 \in 1..(n - 1) /\ (i - 1) + 1 = i
      BY <3>2
    <3>9. \A i, j \in 1..(n - 1) : Tail(items)[i] = Tail(items)[j] /\ Tail(items)[i] # Failure => i = j
      <4>1. SUFFICES ASSUME NEW i \in 1..(n - 1), NEW j \in 1..(n - 1),
                            items[i + 1] = items[j + 1], items[i + 1] # Failure
                     PROVE  i = j
        BY <3>2
      <4>2. i + 1 = j + 1
        BY <3>2, <3>4, <4>1
      <4>3. i \in Int /\ j \in Int
        OBVIOUS
      <4> QED
        BY <4>2, <4>3
    <3>10. \A i \in 1..(n - 1) : Tail(items)[i] # Failure => Tail(items)[i] \in S /\ seen'[Tail(items)[i]] = 0
      BY <3>2, <3>4, <3>6, <3>7
    <3>11. \A e \in S : seen'[e] = 1 \/ \E i \in 1..(n - 1) : Tail(items)[i] = e
      <4>1. SUFFICES ASSUME NEW e \in S, e # h, NEW i \in 1..n, items[i] = e
                     PROVE  \E k \in 1..(n - 1) : Tail(items)[k] = e
        BY <3>4, <3>6
      <4>2. i # 1
        BY <3>2, <4>1
      <4>3. i - 1 \in 1..(n - 1) /\ Tail(items)[i - 1] = e
        BY <3>2, <3>8, <4>1, <4>2
      <4> QED
        BY <4>3
    <3>12. \A e \in Entries : seen'[e] \in {0, 1} /\ (seen'[e] = 1 => e \in S)
      BY <2>1, <3>5, <3>6 DEF Delivered
    <3> QED
      BY <3>2, <3>3, <3>9, <3>10, <3>11, <3>12 DEF Delivered
  <2>6. CASE Receive /\ ~(items # <<>> /\ Head(items) # Failure)
    <3>1. \/ consumer' = "dropped" /\ seen' = seen
          \/ consumer # "dropped" /\ items' = items /\ seen' = seen
      BY <2>6 DEF Receive
    <3> QED
      BY <2>2, <2>3, <3>1
  <2>7. CASE Leave
    BY <2>2, <2>7 DEF Leave
  <2>8. CASE Stop
    <3>1. consumer # "dropped" /\ items' = items /\ seen' = seen
      BY <2>8 DEF Stop, channels
    <3> QED
      BY <2>3, <3>1
  <2>9. CASE Cancel \/ UNCHANGED vars
    BY <2>4, <2>9 DEF Cancel, vars, channels, reader
  <2> QED
    BY <2>5, <2>6, <2>7, <2>8, <2>9
<1> QED
  BY <1>5, <1>6, <1>7, <1>8 DEF Places

\* An error stays known, and nobody leaves early without a page given up.
LEMMA ErrorsKept ==
  ASSUME IInv, ErrorKnown, Leaving, [Next]_vars PROVE ErrorKnown' /\ Leaving'
<1>1. LabelsOK /\ PagesOK /\ QueuesOK /\ SharedOK
  BY TypeParts DEF IInv
<1>2. ASSUME NEW w \in Workers, Step(w) PROVE ErrorKnown' /\ Leaving'
  <2>1. \A v \in Workers : v # w => pc'[v] = pc[v]
    BY <1>1, <1>2, OthersWait
  <2>2. partial \subseteq partial' /\ (closed => closed') /\ consumer' = consumer
    BY <1>1, <1>2 DEF Step, TakeTask, NoMoreTasks, ListPage, CountTask, SendTask, Scan, Report, CountFile,
                      SendItem, SendError, Finish, Close, Announce, channels, reader
  <2>3. /\ pc'[w] = "quit" => "skipped" \in partial'
        /\ pc'[w] = "announce" => closed'
        /\ pc'[w] = "exit" => closed' \/ "skipped" \in partial'
    <3>1. CASE TakeTask(w)
      BY <1>1, <3>1 DEF TakeTask, Goto, LabelsOK
    <3>2. CASE Finish(w)
      BY <1>1, <2>2, <3>2 DEF Finish, Goto, LabelsOK, Leaving
    <3>3. CASE NoMoreTasks(w) \/ Close(w) \/ Announce(w)
      BY <1>1, <2>2, <3>3 DEF NoMoreTasks, Close, Announce, Goto, LabelsOK, Leaving
    <3>4. CASE ~(TakeTask(w) \/ Finish(w) \/ NoMoreTasks(w) \/ Close(w) \/ Announce(w))
      BY <1>1, <1>2, <3>4 DEF Step, ListPage, CountTask, SendTask, Scan, Report, CountFile,
                              SendItem, SendError, Goto, LabelsOK
    <3> QED
      BY <3>1, <3>2, <3>3, <3>4
  <2>4. Leaving'
    BY <2>1, <2>2, <2>3 DEF Leaving
  <2>5. CASE ListPage(w)
    <3>1. items' = items /\ pc[w] = "list"
      BY <2>5 DEF ListPage, channels
    <3>2. pc'[w] = "sendError" \/ ("failed" \in partial' => "failed" \in partial)
      BY <1>1, <2>5 DEF ListPage, Goto, LabelsOK
    <3>3. ErrorKnown'
      BY <2>1, <2>2, <3>1, <3>2 DEF ErrorKnown
    <3> QED
      BY <2>4, <3>3
  <2>6. CASE SendError(w)
    <3>1. partial' = partial
      BY <2>6 DEF SendError
    <3>2. CASE consumer # "dropped"
      <4>1. items' = Append(items, Failure) /\ items \in Seq(Entries \cup {Failure})
        BY <1>1, <2>6, <3>2 DEF SendError, QueuesOK
      <4>2. Len(items) + 1 \in DOMAIN items' /\ items'[Len(items) + 1] = Failure
        BY <4>1, AppendProperties
      <4> QED
        BY <2>4, <4>2 DEF ErrorKnown
    <3>3. CASE consumer = "dropped"
      BY <2>2, <2>4, <3>3 DEF ErrorKnown
    <3> QED
      BY <3>2, <3>3
  <2>7. CASE SendItem(w)
    <3>1. "failed" \in partial' => "failed" \in partial
      BY <2>7 DEF SendItem
    <3>2. pc[w] # "sendError"
      BY <2>7 DEF SendItem
    <3>3. CASE consumer # "dropped"
      <4>1. items' = Append(items, Head(rest[w])) /\ items \in Seq(Entries \cup {Failure})
        BY <1>1, <2>7, <3>3 DEF SendItem, QueuesOK
      <4>2. Head(rest[w]) \in Entries
        <5>1. rest[w] \in Seq(Entries) /\ rest[w] # <<>>
          BY <1>1, <2>7 DEF SendItem, PagesOK, IInv, Holding
        <5> QED
          BY <5>1, TailOf
      <4>3. \A i \in DOMAIN items : i \in DOMAIN items' /\ items'[i] = items[i]
        BY <4>1, <4>2, AppendProperties
      <4> QED
        BY <2>1, <2>2, <2>4, <3>1, <3>2, <4>3 DEF ErrorKnown
    <3>4. CASE consumer = "dropped"
      BY <2>2, <2>4, <3>4 DEF ErrorKnown
    <3> QED
      BY <3>3, <3>4
  <2>8. CASE ~(ListPage(w) \/ SendError(w) \/ SendItem(w))
    <3>1. items' = items /\ pc[w] # "sendError" /\ ("failed" \in partial' => "failed" \in partial)
      BY <1>2, <2>8 DEF Step, TakeTask, NoMoreTasks, CountTask, SendTask, Scan, Report, CountFile,
                        Finish, Close, Announce, channels
    <3>2. ErrorKnown'
      BY <2>1, <2>2, <3>1 DEF ErrorKnown
    <3> QED
      BY <2>4, <3>2
  <2> QED
    BY <2>5, <2>6, <2>7, <2>8
<1>3. ASSUME Receive \/ Stop \/ Leave \/ Cancel \/ UNCHANGED vars PROVE ErrorKnown' /\ Leaving'
  <2>1. pc' = pc /\ partial' = partial /\ closed' = closed
    BY <1>3 DEF Receive, Stop, Leave, Cancel, vars, channels, locals
  <2>2. Leaving'
    BY <2>1 DEF Leaving
  <2>3. CASE Receive /\ items # <<>> /\ Head(items) # Failure
    <3>1. PICK n \in Nat : /\ n >= 1 /\ DOMAIN items = 1..n /\ Head(items) = items[1]
                           /\ DOMAIN Tail(items) = 1..(n - 1)
                           /\ \A k \in 1..(n - 1) : Tail(items)[k] = items[k + 1] /\ k + 1 \in 1..n
      BY <1>1, <2>3, TailOf DEF QueuesOK
    <3>2. consumer # "dropped" /\ items' = Tail(items)
      BY <2>3 DEF Receive
    <3>3. ASSUME NEW i \in 1..n, items[i] = Failure PROVE \E k \in 1..(n - 1) : Tail(items)[k] = Failure
      <4>1. i # 1
        BY <2>3, <3>1, <3>3
      <4>2. i - 1 \in 1..(n - 1) /\ (i - 1) + 1 = i
        BY <3>1, <4>1
      <4> QED
        BY <3>1, <3>3, <4>2
    <3> QED
      BY <2>1, <2>2, <3>1, <3>2, <3>3 DEF ErrorKnown
  <2>4. CASE ~(Receive /\ items # <<>> /\ Head(items) # Failure)
    <3>1. \/ consumer' = "dropped"
          \/ items' = items /\ (consumer' # "dropped" => consumer # "dropped")
      BY <1>3, <2>4 DEF Receive, Stop, Leave, Cancel, vars, channels, reader
    <3> QED
      BY <2>1, <2>2, <3>1 DEF ErrorKnown
  <2> QED
    BY <2>3, <2>4
<1> QED
  BY <1>2, <1>3 DEF Next

\* The invariant of the walk's bookkeeping is inductive.
LEMMA TrackingKept == ASSUME IInv, Tracking, [Next]_vars PROVE Tracking'
<1>1. HandOnce /\ MoreWhere /\ ErrorKnown /\ Leaving
  BY DEF Tracking
<1>2. ErrorKnown' /\ Leaving'
  BY <1>1, ErrorsKept
<1>3. PICK S \in SUBSET Entries : Places(S)
  BY DEF Tracking
<1>4. HandOnce' /\ MoreWhere' /\ \E T \in SUBSET Entries : Places(T)'
  <2>1. ASSUME NEW w \in Workers, Step(w)
        PROVE  HandOnce' /\ MoreWhere' /\ \E T \in SUBSET Entries : Places(T)'
    BY <1>1, <1>3, <2>1, HandOnceKept, WorkerPlaces
  <2>2. ASSUME Receive \/ Stop \/ Leave \/ Cancel \/ UNCHANGED vars
        PROVE  HandOnce' /\ MoreWhere' /\ \E T \in SUBSET Entries : Places(T)'
    <3>1. Places(S)'
      BY <1>3, <2>2, ReaderPlaces
    <3>2. pc' = pc /\ more' = more /\ rest' = rest
      BY <2>2 DEF Receive, Stop, Leave, Cancel, vars, locals
    <3>3. HandOnce' /\ MoreWhere'
      BY <1>1, <3>2 DEF HandOnce, InMore, MoreWhere
    <3> QED
      BY <3>1, <3>3
  <2> QED
    BY <2>1, <2>2 DEF Next
<1> QED
  BY <1>2, <1>4 DEF Tracking

LEMMA InitTracking == ASSUME Init PROVE Tracking
<1>1. /\ tasks = <<NoPage>> /\ items = <<>> /\ files = 0 /\ partial = {} /\ consumer = "reading"
      /\ \A w \in Workers : pc[w] = "recv" /\ more[w] = <<>>
      /\ \A e \in Entries : seen[e] = 0
  BY DEF Init
<1>2. HandOnce /\ MoreWhere /\ ErrorKnown /\ Leaving
  BY <1>1 DEF HandOnce, MoreWhere, ErrorKnown, Leaving, HandlePC
<1>3. \A e : \A w \in Workers : ~InHand(e, w)
  BY <1>1 DEF InHand, HandlePC
<1>4. \A e : Queued(e) <=> e \in Kids(Root)
  <2>1. DOMAIN tasks = {1} /\ tasks[1] = [dir |-> Root, offset |-> 0]
    BY <1>1 DEF NoPage
  <2>2. Root \in Dirs
    BY TreeAssumption
  <2> QED
    BY <2>1, <2>2, FirstPage DEF Queued
<1>5. \A e : Handled(e, {}) <=> e = Root
  BY <1>1 DEF Handled
<1>6. Exclusive({})
  <2>1. DOMAIN tasks = {1}
    BY <1>1
  <2> QED
    BY <1>3, <2>1 DEF Exclusive
<1>7. InTurn({}) /\ NoneLost({})
  <2>1. \A d \in Dirs : \A e \in Kids(d) : e \in Kids(Root) => d = Root
    BY TreeAssumption, OnePlace DEF Kids
  <2> QED
    BY <1>3, <1>4, <1>5, <2>1 DEF InTurn, NoneLost, Somewhere
<1>8. Delivered({})
  <2>1. DOMAIN items = {}
    BY <1>1
  <2> QED
    BY <1>1, <2>1 DEF Delivered
<1>9. Counted({})
  <2>1. CountedFiles({}) = {}
    BY <1>5, TreeAssumption DEF CountedFiles
  <2> QED
    BY <1>1, <2>1, FS_EmptySet DEF Counted
<1> QED
  BY <1>2, <1>6, <1>7, <1>8, <1>9 DEF Tracking, Places

-----------------------------------------------------------------------------
(* The walk keeps the promises of WalkStream *)

\* Once the channels are closed every entry was sent, if no page was given up.
LEMMA AllThere ==
  ASSUME IInv, closed, partial = {}, NEW S \in SUBSET Entries, Places(S) PROVE S = Entries
<1>1. tasks = <<>> /\ \A w \in Workers : pc[w] \notin BusyPC
  BY ClosedIsIdle
<1>2. \A w \in Workers : pc[w] \notin HandlePC \cup {"list"}
  BY <1>1 DEF BusyPC, HandlePC, WorkerPC
<1>3. \A e : ~Queued(e) /\ \A w \in Workers : ~InHand(e, w)
  BY <1>1, <1>2, EmptySeq DEF Queued, InHand
<1>4. \A d \in (S \cap Dirs) \cup {Root} : \A i \in DOMAIN Content[d] : Content[d][i] \in S
  <2>1. SUFFICES ASSUME NEW d \in (S \cap Dirs) \cup {Root}, NEW i \in DOMAIN Content[d]
                 PROVE  Content[d][i] \in S
    OBVIOUS
  <2>2. d \in Dirs /\ Handled(d, S)
    BY TreeAssumption DEF Handled
  <2>3. Content[d][i] \in Kids(d)
    BY DEF Kids
  <2>4. Somewhere(Content[d][i], S)
    BY <2>2, <2>3 DEF Places, NoneLost
  <2> QED
    BY <1>3, <2>4 DEF Somewhere
<1> QED
  BY <1>4, AllBelowRoot

LEMMA Mapping ==
  /\ Stream!Init <=> seen = [i \in Entries |-> 0] /\ State = "open" /\ Gap = FALSE
  /\ \A i : Stream!Give(i) <=> /\ State = "open" /\ seen[i] = 0
                              /\ seen' = [seen EXCEPT ![i] = 1]
                              /\ State' = State /\ Gap' = Gap
  /\ Stream!Skip <=> Gap' = TRUE /\ seen' = seen /\ State' = State
  /\ Stream!End <=> /\ State = "open" /\ (Gap \/ \A i \in Entries : seen[i] = 1)
                    /\ State' = "ended" /\ seen' = seen /\ Gap' = Gap
  /\ Stream!Drop <=> /\ State = "open" /\ State' = "dropped"
                     /\ seen' = seen /\ Gap' = Gap
  /\ UNCHANGED Stream!streamVars <=> seen' = seen /\ State' = State /\ Gap' = Gap
  BY Zenon DEF Stream!Init, Stream!Give, Stream!Skip, Stream!End, Stream!Drop, Stream!streamVars,
         State, Gap

LEMMA InitRefines == ASSUME Init PROVE Stream!Init
<1>1. State = "open" /\ Gap = FALSE
  BY DEF Init, State, Gap
<1> QED
  BY <1>1, Mapping DEF Init

\* What the reader of the stream receives is what WalkStream may give it.
LEMMA ReceiveMaps ==
  ASSUME IInv, Tracking, Receive
  PROVE  /\ items # <<>> /\ Head(items) # Failure => Head(items) \in Entries /\ Stream!Give(Head(items))
         /\ items # <<>> /\ Head(items) = Failure => Stream!Drop
         /\ items = <<>> => Stream!End
<1>1. QueuesOK /\ SharedOK
  BY TypeParts DEF IInv
<1>2. State = "open" /\ Gap' = Gap
  BY DEF Receive, State, Gap
<1>3. ASSUME items # <<>>, Head(items) # Failure
      PROVE  Head(items) \in Entries /\ Stream!Give(Head(items))
  <2> DEFINE h == Head(items)
  <2>1. h \in Entries /\ seen[h] = 0
    <3>1. PICK S \in SUBSET Entries : Delivered(S)
      BY DEF Tracking, Places
    <3>2. 1 \in DOMAIN items /\ h = items[1] /\ h \in Entries \cup {Failure}
      BY <1>1, <1>3, TailOf DEF QueuesOK
    <3> QED
      BY <1>3, <3>1, <3>2 DEF Receive, Delivered
  <2>2. seen' = [seen EXCEPT ![h] = 1]
    BY <1>3, <2>1 DEF Receive
  <2>3. State' = "open"
    BY <1>3 DEF Receive, State
  <2> QED
    BY <1>2, <2>1, <2>2, <2>3, Mapping
<1>4. ASSUME items # <<>>, Head(items) = Failure PROVE Stream!Drop
  <2>1. State' = "dropped" /\ seen' = seen
    BY <1>4 DEF Receive, State
  <2> QED
    BY <1>2, <2>1, Mapping
<1>5. ASSUME items = <<>> PROVE Stream!End
  <2>1. State' = "ended" /\ seen' = seen /\ NoSender
    BY <1>5 DEF Receive, State
  <2>2. Gap \/ \A i \in Entries : seen[i] = 1
    <3>1. SUFFICES ASSUME "skipped" \notin partial PROVE \A i \in Entries : seen[i] = 1
      BY DEF Gap
    <3>2. closed
      BY <2>1, <3>1, WalkAssumption DEF NoSender, Tracking, Leaving
    <3>3. \A w \in Workers : pc[w] # "sendError"
      BY <3>2, ClosedIsIdle DEF BusyPC, WorkerPC
    <3>4. consumer # "dropped" /\ DOMAIN items = {}
      BY <1>5 DEF Receive
    <3>5. "failed" \notin partial
      BY <3>3, <3>4 DEF Tracking, ErrorKnown
    <3>6. partial = {}
      BY <1>1, <3>1, <3>5 DEF SharedOK
    <3>7. PICK S \in SUBSET Entries : Places(S)
      BY DEF Tracking
    <3>8. S = Entries
      BY <3>2, <3>6, <3>7, AllThere
    <3> QED
      BY <3>4, <3>7, <3>8 DEF Places, Delivered
  <2> QED
    BY <1>2, <2>1, <2>2, Mapping
<1> QED
  BY <1>3, <1>4, <1>5

\* Nor does a listing worker let the reader see more than a page given up.
LEMMA WorkerMaps ==
  ASSUME NEW w \in Workers, Step(w)
  PROVE  consumer' = consumer /\ seen' = seen /\ State' = State /\ (Gap' = TRUE \/ Gap' = Gap)
<1>1. consumer' = consumer /\ seen' = seen
  BY DEF Step, TakeTask, NoMoreTasks, ListPage, CountTask, SendTask, Scan, Report, CountFile,
         SendItem, SendError, Finish, Close, Announce, reader
<1>2. State' = State
  BY <1>1 DEF State
<1>3. Gap' = TRUE \/ Gap' = Gap
  BY DEF Step, TakeTask, NoMoreTasks, ListPage, CountTask, SendTask, Scan, Report, CountFile,
         SendItem, SendError, Finish, Close, Announce, Gap
<1> QED
  BY <1>1, <1>2, <1>3

\* Every step of the walk is one that WalkStream allows, or none it sees.
LEMMA StepRefines ==
  ASSUME IInv, Tracking, [Next]_vars PROVE [Stream!Next]_(Stream!streamVars)
<1>1. ASSUME NEW w \in Workers, Step(w) PROVE [Stream!Next]_(Stream!streamVars)
  BY <1>1, WorkerMaps, Mapping DEF Stream!Next
<1>2. CASE Receive
  BY <1>2, ReceiveMaps DEF Stream!Next
<1>3. CASE Leave
  <2>1. State = "open" /\ State' = "dropped" /\ seen' = seen /\ Gap' = Gap
    BY <1>3 DEF Leave, State, Gap
  <2> QED
    BY <2>1, Mapping DEF Stream!Next
<1>4. CASE Stop \/ Cancel \/ UNCHANGED vars
  <2>1. State' = State /\ seen' = seen /\ Gap' = Gap
    BY <1>4 DEF Stop, Cancel, vars, reader, State, Gap
  <2> QED
    BY <2>1, Mapping
<1> QED
  BY <1>1, <1>2, <1>3, <1>4 DEF Next

LEMMA TrackingHolds == Spec => [](IInv /\ Tracking)
<1>1. IInv /\ Tracking /\ [Next]_vars => Tracking'
  BY TrackingKept
<1>2. Init => Tracking
  BY InitTracking
<1> QED
  BY <1>1, <1>2, InvariantHolds, PTL DEF Spec

\* The parallel walk keeps the promises of a walk for any tree, any number of
\* workers and any order of their steps: no entry is given twice; the stream ends
\* by itself only when all were given or a page was given up without an error; the
\* error of any worker reaches the consumer; and nothing follows the end.
THEOREM WalkImplementsStream == Spec => KeepsPromises
<1>1. IInv /\ Tracking /\ [Next]_vars => [Stream!Next]_(Stream!streamVars)
  BY StepRefines
<1>2. Init => Stream!Init
  BY InitRefines
<1> QED
  BY <1>1, <1>2, TrackingHolds, PTL DEF Spec, KeepsPromises, Stream!Spec

-----------------------------------------------------------------------------
(* What the observer is told *)

\* The channels are closed once, and the end is announced once, with all files.
LEMMA ClosesOnceKept ==
  ASSUME IInv, Tracking, ClosesOnce, [Next]_vars PROVE ClosesOnce'
<1>1. LabelsOK /\ SharedOK
  BY TypeParts DEF IInv
<1>2. ASSUME NEW w \in Workers, Step(w) PROVE ClosesOnce'
  <2>1. \A v \in Workers : v # w => pc'[v] = pc[v]
    BY <1>1, <1>2, StepLabels DEF LabelsOK
  <2>2. pc[w] \in BusyPC => ~closed /\ finished = <<>> /\ \A v \in Workers : pc[v] \notin {"close", "announce"}
    BY ClosedIsIdle, BusyIsCounted DEF ClosesOnce, IInv, Closing
  <2>3. CASE Finish(w)
    <3>1. pc[w] \in BusyPC /\ closed' = closed /\ finished' = finished
      BY <2>3 DEF Finish, BusyPC, WorkerPC, channels, observer
    <3> QED
      BY <2>1, <2>2, <3>1 DEF ClosesOnce
  <2>4. CASE Close(w)
    <3>1. /\ pc[w] = "close" /\ pc'[w] \in {"announce", "exit"}
          /\ closed' = TRUE /\ finished' = finished /\ files' = files
      BY <1>1, <2>4 DEF Close, Goto, LabelsOK, observer, counters
    <3> QED
      BY <2>1, <3>1 DEF ClosesOnce
  <2>5. CASE Announce(w)
    <3>1. /\ pc[w] = "announce" /\ pc'[w] = "exit" /\ closed' = closed /\ files' = files
          /\ finished' = Append(finished, files)
      BY <1>1, <2>5 DEF Announce, Goto, LabelsOK, channels, counters
    <3>2. closed /\ finished = <<>>
      BY <3>1 DEF Tracking, Leaving, ClosesOnce
    <3>3. finished' = <<files>>
      BY <3>1, <3>2
    <3> QED
      BY <2>1, <3>1, <3>2, <3>3 DEF ClosesOnce
  <2>6. CASE CountFile(w)
    <3>1. /\ pc[w] \in BusyPC /\ pc'[w] \notin {"close", "announce"}
          /\ closed' = closed /\ finished' = finished
      BY <1>1, <2>6 DEF CountFile, Goto, LabelsOK, BusyPC, WorkerPC, channels, observer
    <3> QED
      BY <2>1, <2>2, <3>1 DEF ClosesOnce
  <2>7. CASE ~(Finish(w) \/ Close(w) \/ Announce(w) \/ CountFile(w))
    <3>1. closed' = closed /\ finished' = finished /\ files' = files
      BY <1>2, <2>7 DEF Step, TakeTask, NoMoreTasks, ListPage, CountTask, SendTask, Scan, Report,
                        SendItem, SendError, channels, observer, counters
    <3>2. pc'[w] \notin {"close", "announce"}
      BY <1>1, <1>2, <2>7 DEF Step, TakeTask, NoMoreTasks, ListPage, CountTask, SendTask, Scan, Report,
                        SendItem, SendError, Goto, LabelsOK
    <3> QED
      BY <2>1, <3>1, <3>2 DEF ClosesOnce
  <2> QED
    BY <2>3, <2>4, <2>5, <2>6, <2>7
<1>3. CASE Receive \/ Stop \/ Leave \/ Cancel \/ UNCHANGED vars
  <2>1. pc' = pc /\ closed' = closed /\ finished' = finished /\ files' = files
    BY <1>3 DEF Receive, Stop, Leave, Cancel, vars, channels, locals, observer, counters
  <2> QED
    BY <2>1 DEF ClosesOnce
<1> QED
  BY <1>2, <1>3 DEF Next

LEMMA ClosesOnceHolds == Spec => []ClosesOnce
<1>1. Init => ClosesOnce
  BY DEF Init, ClosesOnce
<1>2. IInv /\ Tracking /\ ClosesOnce /\ [Next]_vars => ClosesOnce'
  BY ClosesOnceKept
<1> QED
  BY <1>1, <1>2, TrackingHolds, PTL DEF Spec

\* The count of all entries seen is shown by the worker that raised it to that.
LEMMA ShownLastKept ==
  ASSUME IInv, ShownLast, ObservedOnly, [Next]_vars PROVE ShownLast' /\ ObservedOnly'
<1>1. LabelsOK /\ PagesOK /\ SharedOK
  BY TypeParts DEF IInv
<1>2. ASSUME NEW w \in Workers, Step(w) PROVE ShownLast' /\ ObservedOnly'
  <2>1. \A v \in Workers : v # w => pc'[v] = pc[v]
    BY <1>1, <1>2, StepLabels DEF LabelsOK
  <2>2. ~Observed => finished' = <<>> /\ pc'[w] # "announce"
    BY <1>1, <1>2 DEF ObservedOnly, Step, TakeTask, NoMoreTasks, ListPage, CountTask, SendTask, Scan,
                      Report, CountFile, SendItem, SendError, Finish, Close, Announce, observer,
                      Goto, LabelsOK
  <2>3. ObservedOnly'
    BY <2>1, <2>2 DEF ObservedOnly
  <2>4. CASE Scan(w)
    <3>1. batch'[w] = scanned' /\ (Observed => pc'[w] = "report")
      BY <1>1, <2>4 DEF Scan, Goto, LabelsOK, PagesOK
    <3> QED
      BY <2>3, <3>1 DEF ShownLast
  <2>5. CASE Report(w)
    <3>1. shown' = Append(shown, batch[w]) /\ shown \in Seq(Nat) /\ scanned' = scanned /\ batch' = batch
      BY <1>1, <2>5 DEF Report, SharedOK, counters
    <3>2. /\ Len(shown) + 1 \in DOMAIN shown' /\ shown'[Len(shown) + 1] = batch[w]
          /\ \A i \in DOMAIN shown : i \in DOMAIN shown' /\ shown'[i] = shown[i]
      BY <1>1, <3>1, AppendProperties DEF PagesOK
    <3> QED
      BY <2>1, <2>3, <3>1, <3>2 DEF ShownLast
  <2>6. CASE ~(Scan(w) \/ Report(w))
    <3>1. scanned' = scanned /\ shown' = shown /\ batch' = batch /\ pc[w] # "report"
      BY <1>2, <2>6 DEF Step, TakeTask, NoMoreTasks, ListPage, CountTask, SendTask, CountFile,
                        SendItem, SendError, Finish, Close, Announce, counters, observer
    <3> QED
      BY <2>1, <2>3, <3>1 DEF ShownLast
  <2> QED
    BY <2>4, <2>5, <2>6
<1>3. CASE Receive \/ Stop \/ Leave \/ Cancel \/ UNCHANGED vars
  <2>1. /\ pc' = pc /\ batch' = batch /\ scanned' = scanned
        /\ shown' = shown /\ finished' = finished
    BY <1>3 DEF Receive, Stop, Leave, Cancel, vars, locals, observer, counters
  <2> QED
    BY <2>1 DEF ShownLast, ObservedOnly
<1> QED
  BY <1>2, <1>3 DEF Next

\* Once the end was announced the counts are what FinalCount says.
LEMMA AnnouncedIsFinal ==
  ASSUME IInv, Tracking, ClosesOnce, ShownLast, ObservedOnly PROVE FinalCount
<1>1. Len(finished) <= 1
  <2>1. finished = <<>> \/ finished = <<files>>
    BY DEF ClosesOnce
  <2> QED
    BY <2>1
<1>2. ASSUME finished # <<>>
      PROVE  /\ finished[1] = files
             /\ partial = {} => files = Cardinality(Files)
             /\ \A w \in Workers : pc[w] # "report"
             /\ scanned = 0 \/ \E i \in DOMAIN shown : shown[i] = scanned
  <2>1. finished = <<files>> /\ closed /\ Observed
    BY <1>2 DEF ClosesOnce, ObservedOnly
  <2>2. \A w \in Workers : pc[w] # "report"
    BY <2>1, ClosedIsIdle DEF BusyPC, WorkerPC
  <2>3. ASSUME partial = {} PROVE files = Cardinality(Files)
    <3>1. PICK S \in SUBSET Entries : Places(S)
      BY DEF Tracking
    <3>2. S = Entries
      BY <2>1, <2>3, <3>1, AllThere
    <3>3. CountedFiles(S) = Files
      BY <3>2, TreeAssumption DEF CountedFiles, Handled, Entries
    <3> QED
      BY <3>1, <3>3 DEF Places, Counted
  <2> QED
    BY <2>1, <2>2, <2>3 DEF ShownLast
<1> QED
  BY <1>1, <1>2 DEF FinalCount

\* DiscoveryFinished goes out once, last, and with the count of all files found:
\* of all there are if no page was given up.
THEOREM CountIsFinal == Spec => []FinalCount
<1>1. Init => ShownLast /\ ObservedOnly
  BY DEF Init, ShownLast, ObservedOnly
<1>2. IInv /\ ShownLast /\ ObservedOnly /\ [Next]_vars => ShownLast' /\ ObservedOnly'
  BY ShownLastKept
<1>3. IInv /\ Tracking /\ ClosesOnce /\ ShownLast /\ ObservedOnly => FinalCount
  BY AnnouncedIsFinal
<1> QED
  BY <1>1, <1>2, <1>3, TrackingHolds, ClosesOnceHolds, PTL DEF Spec

-----------------------------------------------------------------------------
(* What is left of the walk when its stream has ended *)

\* Who has read a stream to its end has read all of it, from workers that have
\* nothing to do; only the token makes a worker leave before.
Over ==
  /\ consumer = "ended" => items = <<>> /\ NoSender
  /\ ~cancelled => \A w \in Workers : pc[w] # "quit" /\ (pc[w] = "exit" => closed)

\* A worker that can still send, or give a page up, keeps the stream open.
LEMMA NoSenderIsIdle ==
  ASSUME IInv, NoSender PROVE \A w \in Workers : pc[w] \notin BusyPC
  BY ClosedIsIdle DEF NoSender, BusyPC

LEMMA IdleKeeps ==
  ASSUME IInv, NoSender, NEW w \in Workers, Step(w)
  PROVE  NoSender' /\ items' = items /\ partial' = partial
<1>1. LabelsOK
  BY TypeParts DEF IInv
<1>2. closed => tasks = <<>>
  BY ClosedIsIdle
<1>3. pc[w] \notin BusyPC /\ pc[w] # "exit" /\ closed
  <2>1. pc[w] # "exit"
    BY DEF Step, TakeTask, NoMoreTasks, ListPage, CountTask, SendTask, Scan, Report, CountFile,
           SendItem, SendError, Finish, Close, Announce
  <2> QED
    BY <2>1, NoSenderIsIdle DEF NoSender
<1>4. NoMoreTasks(w) \/ Close(w) \/ Announce(w)
  BY <1>2, <1>3 DEF Step, TakeTask, ListPage, CountTask, SendTask, Scan, Report, CountFile,
                    SendItem, SendError, Finish, BusyPC, WorkerPC
<1> QED
  BY <1>3, <1>4 DEF NoMoreTasks, Close, Announce, channels, NoSender

LEMMA OverKept == ASSUME IInv, Tracking, Over, [Next]_vars PROVE Over'
<1>1. LabelsOK
  BY TypeParts DEF IInv
<1>2. ASSUME NEW w \in Workers, Step(w) PROVE Over'
  <2>1. consumer' = consumer /\ cancelled' = cancelled
    BY <1>2 DEF Step, TakeTask, NoMoreTasks, ListPage, CountTask, SendTask, Scan, Report, CountFile,
                SendItem, SendError, Finish, Close, Announce, reader
  <2>2. consumer' = "ended" => items' = <<>> /\ NoSender'
    BY <1>2, <2>1, IdleKeeps DEF Over
  <2>3. ASSUME ~cancelled PROVE pc'[w] # "quit" /\ (pc'[w] = "exit" => closed')
    <3>1. pc[w] # "quit"
      BY <2>3 DEF Over
    <3>2. pc[w] = "announce" => closed
      BY DEF Tracking, Leaving
    <3> QED
      BY <1>1, <1>2, <2>3, <3>1, <3>2
      DEF Step, TakeTask, NoMoreTasks, ListPage, CountTask, SendTask, Scan, Report, CountFile,
          SendItem, SendError, Finish, Close, Announce, Goto, LabelsOK, channels
  <2>4. closed => closed'
    BY <1>2 DEF Step, TakeTask, NoMoreTasks, ListPage, CountTask, SendTask, Scan, Report, CountFile,
                SendItem, SendError, Finish, Close, Announce, channels
  <2>5. \A v \in Workers : v # w => pc'[v] = pc[v]
    BY <1>1, <1>2, StepLabels DEF LabelsOK
  <2> QED
    BY <2>1, <2>2, <2>3, <2>4, <2>5 DEF Over
<1>3. CASE Receive \/ Stop \/ Leave \/ Cancel \/ UNCHANGED vars
  <2>1. pc' = pc /\ closed' = closed /\ (cancelled => cancelled')
    BY <1>3 DEF Receive, Stop, Leave, Cancel, vars, channels, locals
  <2>2. consumer' = "ended" => items' = <<>> /\ NoSender
    BY <1>3 DEF Receive, Stop, Leave, Cancel, vars, channels, reader, Over
  <2> QED
    BY <2>1, <2>2 DEF Over, NoSender
<1> QED
  BY <1>2, <1>3 DEF Next

\* A reader who has come to the end was given every file that was counted.
LEMMA GivenAreCounted ==
  ASSUME IInv, Tracking, Over, consumer = "ended"
  PROVE  files = Cardinality({f \in Files : seen[f] = 1})
<1>1. PICK S \in SUBSET Entries : Delivered(S) /\ Counted(S)
  BY DEF Tracking, Places
<1>2. \A w \in Workers : pc[w] # "sendItem"
  BY NoSenderIsIdle DEF Over, BusyPC, WorkerPC
<1>3. DOMAIN items = {}
  BY DEF Over
<1>4. \A f \in Files : f \in Entries /\ f # Root
  BY TreeAssumption DEF Entries
<1>5. \A f \in Files : f \in S <=> seen[f] = 1
  BY <1>1, <1>3, <1>4 DEF Delivered
<1>6. CountedFiles(S) = {f \in Files : seen[f] = 1}
  BY <1>2, <1>4, <1>5 DEF CountedFiles, Handled
<1> QED
  BY <1>1, <1>6 DEF Counted

\* Nor is an error left that it was not told of.
LEMMA NoErrorAtTheEnd ==
  ASSUME IInv, Tracking, Over, consumer = "ended" PROVE "failed" \notin partial
<1>1. \A w \in Workers : pc[w] # "sendError"
  BY NoSenderIsIdle DEF Over, BusyPC, WorkerPC
<1>2. DOMAIN items = {}
  BY DEF Over
<1> QED
  BY <1>1, <1>2 DEF Tracking, ErrorKnown
=============================================================================
