------------------------- MODULE DownloadAllProofs -------------------------
(***************************************************************************)
(* Proofs about a call of download_all, for any number of files, workers   *)
(* and any capacity of the job channel: no file is lost or counted twice   *)
(* on its way from the walk to the result.                                 *)
(***************************************************************************)
EXTENDS DownloadAll, FiniteSetTheorems, SequenceTheorems, TLAPS

\* TypeOK in parts.
CallOK ==
  /\ caller \in Callers
  /\ job \in Files \cup BadFiles \cup {NoFile}
  /\ sender \in BOOLEAN /\ cancelled \in BOOLEAN
  /\ ticker \in {"none", "running", "aborted"}

WalkOK    == given \in [Items -> 0..1] /\ stream \in {"open", "ended", "dropped"} /\ gap \in BOOLEAN
ChannelOK == channel \in Seq(Files) /\ Len(channel) <= Capacity
PoolOK    == pc \in [Workers -> Labels] /\ work \in [Workers -> Files \cup {NoFile}]
AccountOK == stats \in [Counters -> Nat] /\ failures \in Seq(Files) /\ skipped \in Seq(BadFiles)

LEMMA TypeParts ==
  /\ TypeOK <=> CallOK /\ WalkOK /\ ChannelOK /\ PoolOK /\ AccountOK
  /\ TypeOK' <=> CallOK' /\ WalkOK' /\ ChannelOK' /\ PoolOK' /\ AccountOK'
  BY Zenon DEF TypeOK, CallOK, WalkOK, ChannelOK, PoolOK, AccountOK

\* Who has a file in hand.
Hands ==
  /\ caller = "submit" <=> job \in Files
  /\ caller = "skip" <=> job \in BadFiles
  /\ \A w \in Workers : pc[w] \in {"busy", "list", "last"} <=> work[w] # NoFile

\* The sender lives while jobs can be submitted, and until then or until the
\* user cancels no worker leaves; the last ones leave an empty channel.
Open ==
  /\ ~cancelled => \A w \in Workers : pc[w] # "last"
  /\ caller \in {"start", "ok", "error"} => ~sender
  /\ caller \in {"pull", "submit", "skip"} => sender
  /\ caller = "start" => channel = <<>> /\ \A w \in Workers : pc[w] = "exit"
  /\ ~cancelled /\ caller # "start" /\ (\E w \in Workers : pc[w] = "exit") =>
       ~sender /\ channel = <<>>

\* How the walk and the call end together.
Ending ==
  /\ stream = "ended" => gap \/ \A i \in Items : given[i] = 1
  /\ ~cancelled /\ caller \in {"join", "ok"} => stream = "ended"
  /\ caller = "ok" => ticker # "running" /\ \A w \in Workers : pc[w] = "exit"

\* A file is in one place at a time, and in none before the walk gave it.
OnePlace ==
  /\ job # NoFile => given[job] = 1
  /\ \A i \in 1..Len(channel) : given[channel[i]] = 1 /\ channel[i] # job
  /\ \A i, j \in 1..Len(channel) : channel[i] = channel[j] => i = j
  /\ \A w \in Workers : work[w] # NoFile =>
       /\ given[work[w]] = 1 /\ work[w] # job
       /\ \A i \in 1..Len(channel) : channel[i] # work[w]
       /\ \A v \in Workers : v # w => work[v] # work[w]
  /\ \A i \in 1..Len(failures) :
       /\ given[failures[i]] = 1 /\ failures[i] # job
       /\ \A j \in 1..Len(channel) : channel[j] # failures[i]
       /\ \A w \in Workers : work[w] # failures[i]
  /\ \A i, j \in 1..Len(failures) : failures[i] = failures[j] => i = j

\* The rejected files: in the caller's list once, or on their way to it.
Rejected ==
  /\ \A i \in 1..Len(skipped) : given[skipped[i]] = 1 /\ skipped[i] # job
  /\ \A i, j \in 1..Len(skipped) : skipped[i] = skipped[j] => i = j

\* How many workers are at one of the labels in L.
Count(p, L) == Cardinality({w \in Workers : p[w] \in L})

Listing  == {"list", "last"}
Skipping == IF caller = "skip" THEN 1 ELSE 0

\* What was counted as a failure is listed, or about to be.
FailedCount ==
  stats.failed = Len(failures) + Len(skipped) + Count(pc, Listing) + Skipping

IInv == TypeOK /\ Hands /\ Open /\ Ending /\ OnePlace /\ Rejected /\ FailedCount /\ EveryFileAccounted

-----------------------------------------------------------------------------
(* Counting *)

\* A worker that moves to another label is counted there.
LEMMA CountMove ==
  ASSUME NEW L, NEW w \in Workers, \A v \in Workers \ {w} : pc'[v] = pc[v]
  PROVE  /\ pc[w] \in L /\ pc'[w] \notin L => Count(pc', L) = Count(pc, L) - 1
         /\ pc[w] \notin L /\ pc'[w] \in L => Count(pc', L) = Count(pc, L) + 1
         /\ pc[w] \notin L /\ pc'[w] \notin L => Count(pc', L) = Count(pc, L)
<1> DEFINE A == {v \in Workers : pc[v] \in L}
           B == {v \in Workers : pc'[v] \in L}
<1>1. IsFiniteSet(A) /\ Cardinality(A) \in Nat
  BY PoolAssumption, FS_Subset, FS_CardinalityType
<1>2. pc[w] \in L /\ pc'[w] \notin L => w \in A /\ B = A \ {w}
  OBVIOUS
<1>3. pc[w] \notin L /\ pc'[w] \in L => w \notin A /\ B = A \cup {w}
  OBVIOUS
<1>4. pc[w] \notin L /\ pc'[w] \notin L => B = A
  OBVIOUS
<1>5. Count(pc, L) = Cardinality(A) /\ Count(pc', L) = Cardinality(B)
  BY Zenon DEF Count
<1> HIDE DEF A, B
<1> QED
  BY <1>1, <1>2, <1>3, <1>4, <1>5, FS_RemoveElement, FS_AddElement

LEMMA CountType == ASSUME NEW p, NEW L PROVE Count(p, L) \in Nat
  BY PoolAssumption, FS_Subset, FS_CardinalityType DEF Count

LEMMA NoneThere ==
  ASSUME NEW p, NEW L, \A w \in Workers : p[w] \notin L PROVE Count(p, L) = 0
<1>1. {w \in Workers : p[w] \in L} = {}
  OBVIOUS
<1> QED
  BY <1>1, FS_EmptySet DEF Count

\* The workers that download.
Busy(p) == Count(p, {"busy"})

LEMMA BusyType == ASSUME NEW p PROVE Busy(p) \in Nat
  BY CountType DEF Busy

\* What Underway counts.
LEMMA UnderwayIs ==
  /\ Underway  = Len(channel) + Busy(pc) + (IF caller = "submit" THEN 1 ELSE 0)
  /\ Underway' = Len(channel') + Busy(pc') + (IF caller' = "submit" THEN 1 ELSE 0)
<1>1. ASSUME NEW p PROVE Busy(p) = Cardinality({w \in Workers : p[w] = "busy"})
  <2>1. {w \in Workers : p[w] = "busy"} = {w \in Workers : p[w] \in {"busy"}}
    OBVIOUS
  <2> QED
    BY <2>1 DEF Busy, Count
<1>2. Busy(pc) = Cardinality({w \in Workers : pc[w] = "busy"})
  BY <1>1
<1>3. Busy(pc') = Cardinality({w \in Workers : pc'[w] = "busy"})
  BY <1>1
<1> QED
  BY <1>2, <1>3, Zenon DEF Underway

\* One worker moves to label l.
LEMMA PcMove ==
  ASSUME PoolOK, NEW w \in Workers, NEW l, pc' = [pc EXCEPT ![w] = l]
  PROVE  pc'[w] = l /\ \A v \in Workers \ {w} : pc'[v] = pc[v]
  BY DEF PoolOK

\* The files the walk gives are counted one by one.
LEMMA GivenType == IsFiniteSet(Given) /\ Cardinality(Given) \in Nat
<1>1. Given \subseteq Items
  BY DEF Given, Items
<1>2. IsFiniteSet(Items)
  BY PoolAssumption DEF Items
<1> QED
  BY <1>1, <1>2, FS_Subset, FS_CardinalityType

LEMMA GiveOne ==
  ASSUME WalkOK, NEW i \in Items, Stream!Give(i)
  PROVE  /\ WalkOK' /\ stream' = stream /\ gap' = gap
         /\ given[i] = 0 /\ given' = [given EXCEPT ![i] = 1]
         /\ i \in Files \cup BadFiles => Cardinality(Given)' = Cardinality(Given) + 1
         /\ i \in Others => Cardinality(Given)' = Cardinality(Given)
<1>1. /\ stream' = stream /\ gap' = gap /\ stream = "open"
      /\ given[i] = 0 /\ given' = [given EXCEPT ![i] = 1]
  BY DEF Stream!Give
<1>2. WalkOK'
  BY <1>1 DEF WalkOK
<1>3. ASSUME i \in Files \cup BadFiles PROVE Cardinality(Given)' = Cardinality(Given) + 1
  <2>1. Given' = Given \cup {i} /\ i \notin Given
    BY <1>1, <1>3 DEF Given, WalkOK, Items
  <2> QED
    BY <2>1, GivenType, FS_AddElement
<1>4. ASSUME i \in Others PROVE Cardinality(Given)' = Cardinality(Given)
  <2>1. Given' = Given
    BY <1>1, <1>4, PoolAssumption DEF Given, WalkOK, Items
  <2> QED
    BY <2>1
<1> QED
  BY <1>1, <1>2, <1>3, <1>4
-----------------------------------------------------------------------------
(* The invariant *)

LEMMA InitIInv == ASSUME Init PROVE IInv
<1> USE PoolAssumption
<1>1. given = [i \in Items |-> 0] /\ stream = "open" /\ gap = FALSE
  BY DEF Init, Stream!Init
<1>2. TypeOK
  <2>1. WalkOK
    <3>1. given \in [Items -> 0..1]
      BY <1>1
    <3> QED
      BY <1>1, <3>1 DEF WalkOK
  <2>2. CallOK /\ ChannelOK /\ PoolOK
    <3>1. CallOK
      BY DEF Init, CallOK, Callers
    <3>2. ChannelOK
      BY EmptySeq DEF Init, ChannelOK
    <3>3. PoolOK
      BY DEF Init, PoolOK, Labels
    <3> QED
      BY <3>1, <3>2, <3>3
  <2>3. AccountOK
    BY DEF Init, AccountOK
  <2> QED
    BY <2>1, <2>2, <2>3, TypeParts
<1>3. EveryFileAccounted
  <2>1. Given = {}
    BY <1>1 DEF Given, Items
  <2>2. Cardinality(Given) = 0
    BY <2>1, FS_EmptySet
  <2>3. Busy(pc) = 0
    <3>1. \A w \in Workers : pc[w] \notin {"busy"}
      BY DEF Init
    <3> QED
      BY <3>1, NoneThere DEF Busy
  <2>4. Underway = 0
    BY <2>3, UnderwayIs DEF Init
  <2>5. Succeeded = 0 /\ stats.failed = 0
    BY DEF Init, Succeeded, Counters, Outcomes
  <2>6. Lost = 0
    BY <2>2, <2>4, <2>5 DEF Lost
  <2> QED
    BY <2>6 DEF EveryFileAccounted
<1>4. Hands /\ Open /\ Ending
  BY <1>1 DEF Init, Hands, Open, Ending
<1>5. OnePlace /\ Rejected
  BY <1>1 DEF Init, OnePlace, Rejected
<1>6. FailedCount
  <2>1. \A w \in Workers : pc[w] \notin Listing
    BY DEF Init, Listing
  <2>2. Count(pc, Listing) = 0
    BY <2>1, NoneThere
  <2> QED
    BY <2>2 DEF Init, FailedCount, Skipping, Counters
<1> QED
  BY <1>2, <1>3, <1>4, <1>5, <1>6 DEF IInv

\* What recording a file does to the counters.
LEMMA Recorded ==
  ASSUME AccountOK
  PROVE  /\ RecordFailure => /\ stats' \in [Counters -> Nat]
                             /\ stats'.failed = stats.failed + 1
                             /\ Succeeded' = Succeeded
         /\ \A o \in Outcomes : RecordOutcome(o) =>
              /\ stats' \in [Counters -> Nat]
              /\ stats'.failed = stats.failed
              /\ Succeeded' = Succeeded + 1
<1>1. \A c \in Counters : stats[c] \in Nat
  BY DEF AccountOK
<1>2. ASSUME RecordFailure
      PROVE  /\ stats' \in [Counters -> Nat] /\ stats'.failed = stats.failed + 1
             /\ Succeeded' = Succeeded
  <2>1. stats' = [stats EXCEPT !.failed = @ + 1]
    BY <1>2 DEF RecordFailure
  <2>2. stats' \in [Counters -> Nat]
    BY <1>1, <2>1 DEF AccountOK, Counters
  <2>3. /\ stats'.failed = stats.failed + 1 /\ stats'.downloaded = stats.downloaded
        /\ stats'.resumed = stats.resumed /\ stats'.skipped = stats.skipped
    BY <2>1 DEF AccountOK, Counters, Outcomes
  <2> QED
    BY <2>2, <2>3 DEF Succeeded
<1>3. ASSUME NEW o \in Outcomes, RecordOutcome(o)
      PROVE  /\ stats' \in [Counters -> Nat] /\ stats'.failed = stats.failed
             /\ Succeeded' = Succeeded + 1
  <2>1. stats' = [[stats EXCEPT ![o] = @ + 1] EXCEPT !.total = @ + 1] /\ o \in Counters /\ o # "total"
    BY <1>3 DEF RecordOutcome, Outcomes, Counters
  <2>2. [stats EXCEPT ![o] = @ + 1] \in [Counters -> Nat]
    <3>1. stats[o] \in Nat
      BY <1>1, <2>1
    <3>2. stats[o] + 1 \in Nat
      BY <3>1
    <3> QED
      BY <2>1, <3>2 DEF AccountOK
  <2>3. stats' \in [Counters -> Nat]
    <3> DEFINE u == [stats EXCEPT ![o] = @ + 1]
    <3>1. u \in [Counters -> Nat] /\ "total" \in Counters
      BY <2>2 DEF Counters
    <3> HIDE DEF u
    <3>2. u["total"] + 1 \in Nat
      BY <3>1
    <3>3. [u EXCEPT !["total"] = @ + 1] \in [Counters -> Nat]
      BY <3>1, <3>2
    <3> QED
      BY <2>1, <3>3 DEF u
  <2>4. /\ stats'[o] = stats[o] + 1
        /\ \A c \in Counters : c # o /\ c # "total" => stats'[c] = stats[c]
    BY <2>1, <2>2 DEF AccountOK
  <2>5. stats'.failed = stats.failed
    BY <2>4 DEF Counters, Outcomes
  <2>6. PICK d \in Nat, r \in Nat, k \in Nat :
          d = stats.downloaded /\ r = stats.resumed /\ k = stats.skipped
    BY <1>1 DEF Counters, Outcomes
  <2>7. ASSUME o = "downloaded" PROVE Succeeded' = Succeeded + 1
    <3>1. stats'.downloaded = d + 1 /\ stats'.resumed = r /\ stats'.skipped = k
      BY <2>4, <2>6, <2>7 DEF Counters, Outcomes
    <3> QED
      BY <2>6, <3>1 DEF Succeeded
  <2>8. ASSUME o = "resumed" PROVE Succeeded' = Succeeded + 1
    <3>1. stats'.downloaded = d /\ stats'.resumed = r + 1 /\ stats'.skipped = k
      BY <2>4, <2>6, <2>8 DEF Counters, Outcomes
    <3> QED
      BY <2>6, <3>1 DEF Succeeded
  <2>9. ASSUME o = "skipped" PROVE Succeeded' = Succeeded + 1
    <3>1. stats'.downloaded = d /\ stats'.resumed = r /\ stats'.skipped = k + 1
      BY <2>4, <2>6, <2>9 DEF Counters, Outcomes
    <3> QED
      BY <2>6, <3>1 DEF Succeeded
  <2> QED
    BY <2>3, <2>5, <2>7, <2>8, <2>9 DEF Outcomes
<1> QED
  BY <1>2, <1>3

\* Every step keeps the types.
LEMMA StepTypeOK == ASSUME IInv, [Next]_vars PROVE TypeOK'
<1> USE PoolAssumption
<1>1. CallOK /\ WalkOK /\ ChannelOK /\ PoolOK /\ AccountOK
  BY TypeParts DEF IInv
<1>2. CASE Begin
  BY <1>1, <1>2, TypeParts DEF Begin, CallOK, WalkOK, ChannelOK, PoolOK, AccountOK, Callers, Labels,
                              walk, account
<1>3. CASE Pull
  <2>1. PICK i \in Items : Stream!Give(i) /\
          \/ cancelled /\ caller' = "join" /\ UNCHANGED <<job, account>>
          \/ i \in Others /\ UNCHANGED <<caller, job, account>>
          \/ i \in Files /\ caller' = "submit" /\ job' = i /\ UNCHANGED account
          \/ i \in BadFiles /\ RecordFailure /\ caller' = "skip" /\ job' = i
             /\ UNCHANGED <<failures, skipped>>
    BY <1>3 DEF Pull, Handle
  <2>2. WalkOK'
    BY <1>1, <2>1, GiveOne
  <2>3. AccountOK'
    <3>1. CASE UNCHANGED account
      BY <1>1, <3>1 DEF AccountOK, account
    <3>2. CASE RecordFailure /\ UNCHANGED <<failures, skipped>>
      BY <1>1, <3>2, Recorded DEF AccountOK
    <3> QED
      BY <2>1, <3>1, <3>2
  <2>4. CallOK' /\ ChannelOK' /\ PoolOK'
    BY <1>1, <1>3, <2>1 DEF Pull, Handle, CallOK, ChannelOK, PoolOK, Callers, queue, pool
  <2> QED
    BY <2>2, <2>3, <2>4, TypeParts
<1>4. CASE WalkEnded \/ WalkFailed
  <2>1. WalkOK'
    BY <1>1, <1>4 DEF WalkEnded, LoopEnds, WalkFailed, LoopFails, Stream!End, Stream!Drop, WalkOK
  <2>2. CallOK' /\ ChannelOK' /\ PoolOK' /\ AccountOK'
    BY <1>1, <1>4 DEF WalkEnded, LoopEnds, WalkFailed, LoopFails, CallOK, ChannelOK, PoolOK, AccountOK, Callers,
                      queue, pool, account
  <2> QED
    BY <2>1, <2>2, TypeParts
<1>5. CASE Submit
  <2>1. ChannelOK'
    <3>1. job \in Files
      BY <1>5 DEF Submit, IInv, Hands
    <3>2. Append(channel, job) \in Seq(Files) /\ Len(Append(channel, job)) = Len(channel) + 1
      BY <1>1, <3>1, AppendProperties DEF ChannelOK
    <3>3. Len(channel) < Capacity => Len(channel) + 1 <= Capacity
      BY <1>1 DEF ChannelOK
    <3> QED
      BY <1>1, <1>5, <3>2, <3>3 DEF Submit, ChannelOK
  <2>2. CallOK' /\ WalkOK' /\ PoolOK' /\ AccountOK'
    BY <1>1, <1>5 DEF Submit, CallOK, WalkOK, PoolOK, AccountOK, Callers, walk, pool, account
  <2> QED
    BY <2>1, <2>2, TypeParts
<1>6. CASE Join
  <2>1. WalkOK'
    BY <1>1, <1>6 DEF Join, Stream!Drop, WalkOK, walk
  <2>2. CallOK' /\ ChannelOK' /\ PoolOK' /\ AccountOK'
    BY <1>1, <1>6 DEF Join, CallOK, ChannelOK, PoolOK, AccountOK, Callers, pool, account
  <2> QED
    BY <2>1, <2>2, TypeParts
<1>7. ASSUME NEW w \in Workers, Receive(w) PROVE TypeOK'
  <2>1. channel # <<>> => /\ Head(channel) \in Files /\ Tail(channel) \in Seq(Files)
                          /\ Len(Tail(channel)) <= Capacity
    <3>1. Len(channel) - 1 <= Capacity
      BY <1>1 DEF ChannelOK
    <3> QED
      BY <1>1, <3>1, HeadTailProperties DEF ChannelOK
  <2>2. ChannelOK'
    BY <1>1, <1>7, <2>1 DEF Receive, ChannelOK
  <2>3. PoolOK'
    BY <1>1, <1>7, <2>1 DEF Receive, PoolOK, Labels
  <2>4. CallOK' /\ WalkOK' /\ AccountOK'
    BY <1>1, <1>7 DEF Receive, CallOK, WalkOK, AccountOK, walk, account
  <2> QED
    BY <2>2, <2>3, <2>4, TypeParts
<1>8. ASSUME NEW w \in Workers, FinishJob(w) PROVE TypeOK'
  <2>1. AccountOK'
    <3>1. stats' \in [Counters -> Nat]
      BY <1>1, <1>8, Recorded DEF FinishJob
    <3> QED
      BY <1>1, <1>8, <3>1 DEF FinishJob, AccountOK
  <2>2. PoolOK'
    BY <1>1, <1>8 DEF FinishJob, PoolOK, Labels
  <2>3. CallOK' /\ WalkOK' /\ ChannelOK'
    BY <1>1, <1>8 DEF FinishJob, CallOK, WalkOK, ChannelOK, walk, queue
  <2> QED
    BY <2>1, <2>2, <2>3, TypeParts
<1>9. ASSUME NEW w \in Workers, ListFailure(w) PROVE TypeOK'
  <2>1. work[w] \in Files
    BY <1>1, <1>9 DEF ListFailure, IInv, Hands, PoolOK
  <2>2. failures' \in Seq(Files)
    BY <1>1, <1>9, <2>1, AppendProperties DEF ListFailure, AccountOK
  <2>3. AccountOK'
    BY <1>1, <1>9, <2>2 DEF ListFailure, AccountOK
  <2>4. PoolOK'
    BY <1>1, <1>9 DEF ListFailure, PoolOK, Labels
  <2>5. CallOK' /\ WalkOK' /\ ChannelOK'
    BY <1>1, <1>9 DEF ListFailure, CallOK, WalkOK, ChannelOK, walk, queue
  <2> QED
    BY <2>3, <2>4, <2>5, TypeParts
<1>10. CASE ListSkipped
  <2>1. job \in BadFiles
    BY <1>10 DEF ListSkipped, IInv, Hands
  <2>2. skipped' \in Seq(BadFiles)
    BY <1>1, <1>10, <2>1, AppendProperties DEF ListSkipped, AccountOK
  <2>3. AccountOK'
    BY <1>1, <1>10, <2>2 DEF ListSkipped, AccountOK
  <2>4. CallOK' /\ WalkOK' /\ ChannelOK' /\ PoolOK'
    BY <1>1, <1>10 DEF ListSkipped, CallOK, WalkOK, ChannelOK, PoolOK, Callers, walk, queue, pool
  <2> QED
    BY <2>3, <2>4, TypeParts
<1>11. CASE PageSkipped
  BY <1>1, <1>11, TypeParts DEF PageSkipped, Stream!Skip, CallOK, WalkOK, ChannelOK, PoolOK,
                              AccountOK, queue, pool, account
<1>12. CASE Cancel \/ UNCHANGED vars
  BY <1>1, <1>12, TypeParts DEF Cancel, vars, CallOK, WalkOK, ChannelOK, PoolOK, AccountOK,
                               walk, queue, pool, account
<1> QED
  BY <1>2, <1>3, <1>4, <1>5, <1>6, <1>7, <1>8, <1>11, <1>12, <1>9, <1>10 DEF Next, CallerStep, Work

\* Every step keeps track of the files in hand.
LEMMA StepHands == ASSUME IInv, [Next]_vars PROVE Hands'
<1> USE DEF Hands
<1>1. CallOK /\ ChannelOK /\ PoolOK /\ Hands
  BY TypeParts DEF IInv
<1>2. NoFile \notin Files /\ NoFile \notin BadFiles /\ Files \cap BadFiles = {}
  BY PoolAssumption
<1>3. CASE CallerStep
  <2>1. (caller' = "submit" <=> job' \in Files) /\ (caller' = "skip" <=> job' \in BadFiles)
    <3>1. CASE Begin \/ WalkEnded \/ WalkFailed \/ Join
      BY <1>1, <3>1 DEF Begin, WalkEnded, LoopEnds, WalkFailed, LoopFails, Join, CallOK
    <3>2. CASE Pull
      BY <1>1, <1>2, <3>2 DEF Pull, Handle
    <3>3. CASE Submit \/ ListSkipped
      BY <1>1, <1>2, <3>3 DEF Submit, ListSkipped
    <3> QED
      BY <1>3, <3>1, <3>2, <3>3 DEF CallerStep
  <2>2. CASE Begin
    BY <1>1, <2>1, <2>2 DEF Begin, IInv, Open, PoolOK
  <2>3. CASE ~Begin
    <3>1. UNCHANGED pool
      BY <1>3, <2>3 DEF CallerStep, Pull, Handle, WalkEnded, LoopEnds, WalkFailed, LoopFails, Submit, ListSkipped, Join
    <3> QED
      BY <1>1, <2>1, <3>1 DEF pool
  <2> QED
    BY <2>2, <2>3
<1>4. ASSUME NEW w \in Workers, Receive(w) PROVE Hands'
  <2>1. channel # <<>> => Head(channel) \in Files
    BY <1>1 DEF ChannelOK
  <2> QED
    BY <1>1, <1>2, <1>4, <2>1 DEF Receive, PoolOK
<1>5. ASSUME NEW w \in Workers, FinishJob(w) \/ ListFailure(w) PROVE Hands'
  BY <1>1, <1>5 DEF FinishJob, ListFailure, PoolOK
<1>6. CASE PageSkipped \/ Cancel \/ UNCHANGED vars
  BY <1>1, <1>6 DEF PageSkipped, Cancel, vars, pool
<1> QED
  BY <1>3, <1>4, <1>5, <1>6 DEF Next, Work

\* Until the user cancels no worker leaves before the channel is empty for good.
LEMMA StepOpen == ASSUME IInv, [Next]_vars PROVE Open'
<1> USE DEF Open
<1>1. CallOK /\ ChannelOK /\ PoolOK /\ Open /\ Hands
  BY TypeParts DEF IInv
<1>2. CASE Begin
  BY <1>1, <1>2 DEF Begin, PoolOK
<1>3. CASE Pull \/ WalkEnded \/ WalkFailed
  BY <1>1, <1>3 DEF Pull, Handle, WalkEnded, LoopEnds, WalkFailed, LoopFails, CallOK, queue, pool
<1>4. CASE Submit \/ ListSkipped
  BY <1>1, <1>4, PoolAssumption DEF Submit, ListSkipped, CallOK, pool, queue
<1>5. CASE Join
  BY <1>1, <1>5 DEF Join, CallOK, pool
<1>6. ASSUME NEW w \in Workers, Receive(w) PROVE Open'
  <2>1. caller # "start"
    BY <1>1, <1>6 DEF Receive
  <2>2. \A v \in Workers : pc'[v] = "exit" => pc[v] = "exit" \/ (v = w /\ pc'[w] = "exit")
    BY <1>1, <1>6 DEF Receive, PoolOK
  <2>3. pc'[w] = "exit" => (cancelled \/ (channel = <<>> /\ ~sender)) /\ channel' = channel
    BY <1>1, <1>6 DEF Receive, PoolOK
  <2>4. UNCHANGED <<caller, sender, cancelled>>
    BY <1>6 DEF Receive
  <2>5. (\E v \in Workers : pc[v] = "exit") /\ ~cancelled => channel' = channel
    BY <1>1, <1>6, <2>1 DEF Receive
  <2>6. ~cancelled => \A v \in Workers : pc'[v] # "last"
    BY <1>1, <1>6 DEF Receive, PoolOK
  <2> QED
    BY <1>1, <2>1, <2>2, <2>3, <2>4, <2>5, <2>6
<1>7. ASSUME NEW w \in Workers, FinishJob(w) PROVE Open'
  <2>1. caller # "start"
    BY <1>1, <1>7 DEF FinishJob
  <2>2. \A v \in Workers : pc'[v] = "exit" => pc[v] = "exit"
    BY <1>1, <1>7 DEF FinishJob, PoolOK
  <2>3. ~cancelled => \A v \in Workers : pc'[v] # "last"
    BY <1>1, <1>7 DEF FinishJob, PoolOK
  <2>4. UNCHANGED <<caller, sender, channel, cancelled>>
    BY <1>7 DEF FinishJob, queue
  <2> QED
    BY <1>1, <2>1, <2>2, <2>4, <2>3
<1>8. ASSUME NEW w \in Workers, ListFailure(w) PROVE Open'
  <2>1. caller # "start"
    BY <1>1, <1>8 DEF ListFailure
  <2>2. ~cancelled => \A v \in Workers : /\ pc'[v] = "exit" => pc[v] = "exit"
                                         /\ pc'[v] # "last"
    BY <1>1, <1>8 DEF ListFailure, PoolOK
  <2>3. UNCHANGED <<caller, sender, channel, cancelled>>
    BY <1>8 DEF ListFailure, queue
  <2> QED
    BY <1>1, <2>1, <2>2, <2>3
<1>9. CASE PageSkipped \/ Cancel \/ UNCHANGED vars
  BY <1>1, <1>9 DEF PageSkipped, Cancel, vars, pool, queue
<1> QED
  BY <1>2, <1>3, <1>4, <1>5, <1>6, <1>7, <1>9, <1>8 DEF Next, CallerStep, Work

\* A call that ends without a cancellation has seen the stream to its end.
LEMMA StepEnding == ASSUME IInv, [Next]_vars PROVE Ending'
<1> USE DEF Ending
<1>1. CallOK /\ WalkOK /\ PoolOK /\ Open /\ Ending
  BY TypeParts DEF IInv
<1>2. CASE Begin
  BY <1>1, <1>2 DEF Begin, walk
<1>3. CASE Pull
  <2>1. PICK i \in Items : Stream!Give(i)
    BY <1>3 DEF Pull, Handle
  <2>2. stream' = "open"
    BY <2>1 DEF Stream!Give
  <2>3. caller' \in {"pull", "submit", "skip"} \/ (caller' = "join" /\ cancelled /\ cancelled')
    BY <1>3 DEF Pull, Handle
  <2> QED
    BY <2>2, <2>3
<1>4. CASE WalkEnded
  BY <1>1, <1>4 DEF WalkEnded, LoopEnds, Stream!End
<1>5. CASE WalkFailed
  BY <1>1, <1>5 DEF WalkFailed, LoopFails, Stream!Drop
<1>6. CASE Submit
  <2>1. caller' = "join" => cancelled
    <3>1. PICK w \in Workers : TRUE
      BY PoolAssumption
    <3>2. caller' = "join" => pc[w] = "exit"
      BY <1>6 DEF Submit
    <3>3. caller = "submit" /\ sender
      BY <1>1, <1>6 DEF Submit, Open
    <3> QED
      BY <1>1, <3>2, <3>3 DEF Open
  <2>2. caller' \in {"pull", "join"} /\ UNCHANGED <<walk, cancelled>>
    BY <1>6 DEF Submit
  <2> QED
    BY <1>1, <2>1, <2>2 DEF walk
<1>7. CASE Join
  <2>1. CASE sender
    BY <1>1, <1>7, <2>1 DEF Join, walk, pool
  <2>2. CASE ~sender
    <3>1. ~cancelled => stream = "ended"
      BY <1>1, <1>7 DEF Join
    <3>2. stream # "open" => UNCHANGED walk
      BY <1>7, <2>2 DEF Join
    <3>3. stream = "open" => stream' = "dropped"
      BY <1>7, <2>2 DEF Join, Stream!Drop
    <3>4. cancelled' = cancelled /\ ticker' # "running" /\ \A w \in Workers : pc'[w] = "exit"
      BY <1>7, <2>2 DEF Join, pool
    <3> QED
      BY <1>1, <3>1, <3>2, <3>3, <3>4 DEF walk
  <2> QED
    BY <2>1, <2>2
<1>8. ASSUME NEW w \in Workers, Work(w) PROVE Ending'
  <2>1. pc[w] # "exit" /\ UNCHANGED <<caller, walk, ticker, cancelled>>
    BY <1>8 DEF Work, Receive, FinishJob, ListFailure
  <2>2. caller # "ok"
    BY <1>1, <2>1
  <2> QED
    BY <1>1, <2>1, <2>2 DEF walk
<1>9. CASE ListSkipped
  BY <1>1, <1>9 DEF ListSkipped, walk
<1>10. CASE PageSkipped
  BY <1>1, <1>10 DEF PageSkipped, Stream!Skip, pool
<1>11. CASE Cancel \/ UNCHANGED vars
  BY <1>1, <1>11 DEF Cancel, vars, walk, pool
<1> QED
  BY <1>2, <1>3, <1>4, <1>5, <1>6, <1>7, <1>8, <1>10, <1>11, <1>9 DEF Next, CallerStep

\* Every failure that was counted is listed, or in the hands of who will list it.
LEMMA StepFailedCount == ASSUME IInv, [Next]_vars PROVE FailedCount'
<1>1. AccountOK /\ PoolOK /\ Hands /\ Open /\ FailedCount
  BY TypeParts DEF IInv
<1>2. PICK f \in Nat, m \in Nat, k \in Nat, n \in Nat :
        f = stats.failed /\ m = Len(failures) /\ k = Len(skipped) /\ n = Count(pc, Listing)
  BY <1>1, CountType DEF AccountOK, Counters
<1>3. PICK e \in Nat : e = Skipping /\ f = m + k + n + e
  BY <1>1, <1>2 DEF FailedCount, Skipping
<1>4. CASE Begin
  <2>1. Count(pc, Listing) = 0 /\ Count(pc', Listing) = 0
    <3>1. \A w \in Workers : pc[w] \notin Listing /\ pc'[w] \notin Listing
      BY <1>1, <1>4 DEF Begin, Open, Listing
    <3> QED
      BY <3>1, NoneThere
  <2>2. caller # "skip" /\ caller' # "skip" /\ UNCHANGED account
    BY <1>4 DEF Begin
  <2> QED
    BY <1>1, <2>1, <2>2 DEF FailedCount, Skipping, account
<1>5. CASE Pull
  <2>1. caller # "skip" /\ UNCHANGED <<pc, failures, skipped>>
    BY <1>5 DEF Pull, Handle, pool, account
  <2>2. CASE UNCHANGED account /\ caller' # "skip"
    BY <1>1, <2>1, <2>2 DEF account, FailedCount, Skipping
  <2>3. CASE RecordFailure /\ caller' = "skip"
    <3>1. stats'.failed = f + 1
      BY <1>1, <1>2, <2>3, Recorded
    <3> QED
      BY <1>2, <1>3, <2>1, <2>3, <3>1 DEF FailedCount, Skipping
  <2> QED
    BY <1>5, <2>1, <2>2, <2>3 DEF Pull, Handle
<1>6. CASE ListSkipped
  <2>1. job \in BadFiles
    BY <1>1, <1>6 DEF ListSkipped, Hands
  <2>2. Len(skipped') = k + 1
    BY <1>1, <1>2, <1>6, <2>1, AppendProperties DEF ListSkipped, AccountOK
  <2>3. e = 1 /\ Skipping' = 0 /\ UNCHANGED <<pc, stats, failures>>
    BY <1>3, <1>6 DEF ListSkipped, pool, Skipping
  <2> QED
    <3>1. /\ stats'.failed = f /\ Len(failures') = m /\ Len(skipped') = k + 1
          /\ e = 1 /\ Skipping' = 0 /\ Count(pc', Listing) = n
      BY <1>2, <2>2, <2>3
    <3> QED
      BY <1>3, <3>1 DEF FailedCount
<1>7. ASSUME NEW w \in Workers, Receive(w) PROVE FailedCount'
  <2>1. Skipping' = e /\ UNCHANGED account
    BY <1>3, <1>7 DEF Receive, Skipping
  <2>2. /\ pc[w] \notin Listing /\ pc'[w] \notin Listing
        /\ \A v \in Workers \ {w} : pc'[v] = pc[v]
    BY <1>1, <1>7 DEF Receive, PoolOK, Listing
  <2>3. Count(pc', Listing) = n
    BY <1>2, <2>2, CountMove
  <2> QED
    <3>1. /\ stats'.failed = f /\ Len(failures') = m /\ Len(skipped') = k
          /\ Skipping' = e /\ Count(pc', Listing) = n
      BY <1>2, <2>1, <2>3 DEF account
    <3> QED
      BY <1>3, <3>1 DEF FailedCount
<1>8. ASSUME NEW w \in Workers, FinishJob(w) PROVE FailedCount'
  <2>1. Skipping' = e /\ UNCHANGED <<failures, skipped>> /\ pc[w] \notin Listing
    BY <1>3, <1>8 DEF FinishJob, Listing, Skipping
  <2>2. CASE pc' = [pc EXCEPT ![w] = "recv"] /\ \E o \in Outcomes : RecordOutcome(o)
    <3>1. stats'.failed = f
      BY <1>1, <1>2, <2>2, Recorded
    <3>2. Count(pc', Listing) = n
      <4>1. pc'[w] \notin Listing /\ \A v \in Workers \ {w} : pc'[v] = pc[v]
        <5>1. pc'[w] = "recv" /\ \A v \in Workers \ {w} : pc'[v] = pc[v]
          BY <1>1, <2>2, PcMove
        <5> QED
          BY <5>1 DEF Listing
      <4> QED
        BY <1>2, <2>1, <4>1, CountMove
    <3> QED
      BY <1>2, <1>3, <2>1, <3>1, <3>2 DEF FailedCount
  <2>3. ASSUME NEW l \in Listing, pc' = [pc EXCEPT ![w] = l], RecordFailure PROVE FailedCount'
    <3>1. stats'.failed = f + 1
      BY <1>1, <1>2, <2>3, Recorded
    <3>2. Count(pc', Listing) = n + 1
      <4>1. pc'[w] \in Listing /\ \A v \in Workers \ {w} : pc'[v] = pc[v]
        BY <1>1, <2>3, PcMove
      <4> QED
        BY <1>2, <2>1, <4>1, CountMove
    <3> QED
      BY <1>2, <1>3, <2>1, <3>1, <3>2 DEF FailedCount
  <2> QED
    BY <1>8, <2>2, <2>3 DEF FinishJob, Listing
<1>9. ASSUME NEW w \in Workers, ListFailure(w) PROVE FailedCount'
  <2>1. Skipping' = e /\ UNCHANGED <<stats, skipped>> /\ pc[w] \in Listing
    BY <1>3, <1>9 DEF ListFailure, Listing, Skipping
  <2>2. work[w] \in Files
    BY <1>1, <2>1 DEF Hands, PoolOK, Listing
  <2>3. Len(failures') = m + 1
    BY <1>1, <1>2, <1>9, <2>2, AppendProperties DEF ListFailure, AccountOK
  <2>4. Count(pc', Listing) = n - 1
    <3>1. pc'[w] \notin Listing /\ \A v \in Workers \ {w} : pc'[v] = pc[v]
      BY <1>1, <1>9 DEF ListFailure, PoolOK, Listing
    <3> QED
      BY <1>2, <2>1, <3>1, CountMove
  <2> QED
    <3>1. /\ stats'.failed = f /\ Len(failures') = m + 1 /\ Len(skipped') = k
          /\ Skipping' = e /\ Count(pc', Listing) = n - 1
      BY <1>2, <2>1, <2>3, <2>4
    <3> QED
      BY <1>3, <3>1 DEF FailedCount
<1>10. CASE WalkEnded \/ WalkFailed \/ Submit \/ Join \/ PageSkipped \/ Cancel \/ UNCHANGED vars
  <2>1. UNCHANGED <<pc, account>>
    BY <1>10 DEF WalkEnded, LoopEnds, WalkFailed, LoopFails, Submit, Join, PageSkipped, Cancel, vars, pool
  <2>2. caller' = "skip" <=> caller = "skip"
    BY <1>10 DEF WalkEnded, LoopEnds, WalkFailed, LoopFails, Submit, Join, PageSkipped, Cancel, vars
  <2> QED
    BY <1>1, <2>1, <2>2 DEF account, FailedCount, Skipping
<1> QED
  BY <1>4, <1>5, <1>6, <1>7, <1>8, <1>9, <1>10 DEF Next, CallerStep, Work

\* A rejected file is new when the walk gives it, and out of the caller's hands when
\* it is listed.
LEMMA StepRejected == ASSUME IInv, [Next]_vars PROVE Rejected'
<1>1. CallOK /\ WalkOK /\ AccountOK /\ Hands /\ OnePlace /\ Rejected
  BY TypeParts DEF IInv
<1>2. Len(skipped) \in Nat /\ NoFile \notin BadFiles /\ Files \cap BadFiles = {}
  BY <1>1, PoolAssumption DEF AccountOK
<1>3. \A i \in 1..Len(skipped) : skipped[i] \in BadFiles
  BY <1>1 DEF AccountOK
<1>4. CASE Pull
  <2>1. PICK i \in Items : Stream!Give(i) /\ (job' = job \/ job' = i) /\ UNCHANGED skipped
    BY <1>4 DEF Pull, Handle, account
  <2>2. given[i] = 0 /\ given' = [given EXCEPT ![i] = 1]
    BY <1>1, <2>1, GiveOne
  <2>3. \A f \in BadFiles : given[f] = 1 => f # i /\ given'[f] = 1
    BY <1>1, <2>2 DEF WalkOK, Items
  <2> QED
    BY <1>1, <1>3, <2>1, <2>3 DEF Rejected
<1>5. CASE ListSkipped
  <2>1. job \in BadFiles /\ job' = NoFile /\ UNCHANGED given
    BY <1>1, <1>5 DEF ListSkipped, Hands, walk
  <2>2. /\ Len(skipped') = Len(skipped) + 1
        /\ \A i \in 1..Len(skipped) : skipped'[i] = skipped[i]
        /\ skipped'[Len(skipped) + 1] = job
    BY <1>1, <1>5, <2>1, AppendProperties DEF ListSkipped, AccountOK
  <2>3. \A i \in 1..Len(skipped') : i \in 1..Len(skipped) \/ i = Len(skipped) + 1
    BY <1>2, <2>2
  <2>4. given[job] = 1 /\ \A i \in 1..Len(skipped) : given[skipped[i]] = 1 /\ skipped[i] # job
    BY <1>1, <1>2, <2>1 DEF OnePlace, Rejected
  <2>5. \A i \in 1..Len(skipped') : given'[skipped'[i]] = 1 /\ skipped'[i] # job'
    BY <1>2, <1>3, <2>1, <2>2, <2>3, <2>4
  <2>6. \A i, j \in 1..Len(skipped') : skipped'[i] = skipped'[j] => i = j
    BY <1>1, <2>2, <2>3, <2>4 DEF Rejected
  <2> QED
    BY <2>5, <2>6 DEF Rejected
<1>6. CASE Submit
  <2>1. job' = NoFile /\ UNCHANGED <<given, skipped>>
    BY <1>6 DEF Submit, walk, account
  <2> QED
    BY <1>1, <1>2, <1>3, <2>1 DEF Rejected
<1>7. ASSUME NEW w \in Workers, Work(w) PROVE Rejected'
  <2>1. UNCHANGED <<job, given, skipped>>
    BY <1>7 DEF Work, Receive, FinishJob, ListFailure, walk, account
  <2> QED
    BY <1>1, <2>1 DEF Rejected
<1>8. CASE Begin \/ WalkEnded \/ WalkFailed \/ Join \/ PageSkipped \/ Cancel \/ UNCHANGED vars
  <2>1. UNCHANGED <<job, skipped>>
    BY <1>8 DEF Begin, WalkEnded, LoopEnds, WalkFailed, LoopFails, Join, PageSkipped, Cancel, vars, account
  <2>2. UNCHANGED given
    BY <1>8 DEF Begin, WalkEnded, LoopEnds, WalkFailed, LoopFails, Join, PageSkipped, Cancel, vars, walk,
                Stream!End, Stream!Drop, Stream!Skip
  <2> QED
    BY <1>1, <2>1, <2>2 DEF Rejected
<1> QED
  BY <1>4, <1>5, <1>6, <1>7, <1>8 DEF Next, CallerStep

\* A file that moves on is where no other is: a new one was never given before,
\* and it leaves the place it comes from.
LEMMA StepOnePlace == ASSUME IInv, [Next]_vars PROVE OnePlace'
<1>1. CallOK /\ WalkOK /\ ChannelOK /\ PoolOK /\ AccountOK /\ Hands /\ OnePlace
  BY TypeParts DEF IInv
<1>2. NoFile \notin Files \cup BadFiles /\ Files \cap BadFiles = {} /\ Len(channel) \in Nat /\ Len(failures) \in Nat
  BY <1>1, PoolAssumption DEF ChannelOK, AccountOK
<1>3. /\ \A i \in 1..Len(channel) : channel[i] \in Files
      /\ \A i \in 1..Len(failures) : failures[i] \in Files
  BY <1>1 DEF ChannelOK, AccountOK
<1>4. CASE Pull
  <2>1. PICK i \in Items : /\ Stream!Give(i)
                           /\ job' = job \/ (i \in Files \cup BadFiles /\ job' = i)
                           /\ UNCHANGED <<failures, channel, work>>
    BY <1>4 DEF Pull, Handle, account, queue, pool
  <2>2. given[i] = 0 /\ given' = [given EXCEPT ![i] = 1]
    BY <1>1, <2>1, GiveOne
  <2>3. \A f \in Files : given[f] = 1 => f # i /\ given'[f] = 1
    BY <1>1, <2>2 DEF WalkOK, Items
  <2>4. given'[i] = 1
    BY <1>1, <2>2 DEF WalkOK
  <2>5. job = NoFile
    BY <1>1, <1>4 DEF Pull, Handle, Hands, CallOK
  <2>6. \A w \in Workers : work[w] \in Files \cup {NoFile}
    BY <1>1 DEF PoolOK
  <2> QED
    BY <1>1, <1>2, <1>3, <2>1, <2>3, <2>4, <2>5, <2>6 DEF OnePlace
<1>5. CASE Submit
  <2>1. job \in Files /\ job' = NoFile /\ UNCHANGED <<failures, work, given>>
    BY <1>1, <1>5 DEF Submit, Hands, account, pool, walk
  <2>2. \A w \in Workers : work[w] \in Files \cup {NoFile}
    BY <1>1 DEF PoolOK
  <2>3. CASE channel' = channel
    BY <1>1, <1>2, <1>3, <2>1, <2>2, <2>3 DEF OnePlace
  <2>4. CASE channel' = Append(channel, job)
    <3>1. /\ Len(channel') = Len(channel) + 1
          /\ \A i \in 1..Len(channel) : channel'[i] = channel[i]
          /\ channel'[Len(channel) + 1] = job
      BY <1>1, <2>1, <2>4, AppendProperties DEF ChannelOK
    <3>2. \A i \in 1..Len(channel') : channel'[i] = job \/ (i \in 1..Len(channel) /\ channel'[i] = channel[i])
      BY <1>2, <3>1
    <3>3. \A i, j \in 1..Len(channel') : channel'[i] = channel'[j] => i = j
      BY <1>1, <1>2, <3>1 DEF OnePlace
    <3> QED
      BY <1>1, <1>2, <1>3, <2>1, <2>2, <3>2, <3>3 DEF OnePlace
  <2> QED
    BY <1>5, <2>3, <2>4 DEF Submit
<1>6. ASSUME NEW w \in Workers, Receive(w) PROVE OnePlace'
  <2>1. UNCHANGED <<job, given, failures>>
    BY <1>6 DEF Receive, walk, account
  <2>2. CASE UNCHANGED <<work, channel>>
    BY <1>1, <2>1, <2>2 DEF OnePlace
  <2>3. CASE channel # <<>> /\ work' = [work EXCEPT ![w] = Head(channel)] /\ channel' = Tail(channel)
    <3>1. /\ Head(channel) = channel[1] /\ 1 \in 1..Len(channel)
          /\ Len(channel') = Len(channel) - 1
          /\ \A i \in 1..Len(channel') : channel'[i] = channel[i + 1] /\ i + 1 \in 1..Len(channel)
      BY <1>1, <2>3, HeadTailProperties, EmptySeq DEF ChannelOK
    <3>2. /\ work'[w] = channel[1]
          /\ \A v \in Workers : v # w => work'[v] = work[v]
      BY <1>1, <2>3, <3>1 DEF PoolOK
    <3>3. \A i \in 1..Len(channel') : channel'[i] # channel[1]
      BY <1>1, <3>1 DEF OnePlace
    <3>4. \A i, j \in 1..Len(channel') : channel'[i] = channel'[j] => i = j
      BY <1>1, <1>2, <3>1 DEF OnePlace
    <3>5. channel[1] \in Files /\ given[channel[1]] = 1 /\ channel[1] # job
      BY <1>1, <1>3, <3>1 DEF OnePlace
    <3>6. /\ \A v \in Workers : work[v] # channel[1]
          /\ \A i \in 1..Len(failures) : failures[i] # channel[1]
      BY <1>1, <1>2, <3>1, <3>5 DEF OnePlace
    <3>7. /\ job' # NoFile => given'[job'] = 1
          /\ \A i \in 1..Len(channel') : given'[channel'[i]] = 1 /\ channel'[i] # job'
      BY <1>1, <2>1, <3>1 DEF OnePlace
    <3>8. ASSUME NEW v \in Workers, work'[v] # NoFile
          PROVE  /\ given'[work'[v]] = 1 /\ work'[v] # job'
                 /\ \A i \in 1..Len(channel') : channel'[i] # work'[v]
                 /\ \A u \in Workers : u # v => work'[u] # work'[v]
      <4>1. CASE v = w
        BY <1>1, <2>1, <3>2, <3>3, <3>5, <3>6, <4>1
      <4>2. CASE v # w
        BY <1>1, <2>1, <3>1, <3>2, <3>6, <3>8, <4>2 DEF OnePlace
      <4> QED
        BY <4>1, <4>2
    <3>9. ASSUME NEW i \in 1..Len(failures')
          PROVE  /\ given'[failures'[i]] = 1 /\ failures'[i] # job'
                 /\ \A j \in 1..Len(channel') : channel'[j] # failures'[i]
                 /\ \A v \in Workers : work'[v] # failures'[i]
      BY <1>1, <2>1, <3>1, <3>2, <3>6 DEF OnePlace
    <3>10. \A i, j \in 1..Len(failures') : failures'[i] = failures'[j] => i = j
      BY <1>1, <2>1 DEF OnePlace
    <3> QED
      BY <3>4, <3>7, <3>8, <3>9, <3>10 DEF OnePlace
  <2> QED
    BY <1>6, <2>2, <2>3 DEF Receive
<1>7. ASSUME NEW w \in Workers, ListFailure(w) PROVE OnePlace'
  <2>1. /\ UNCHANGED <<job, given, channel>> /\ work[w] \in Files
        /\ work'[w] = NoFile /\ \A v \in Workers : v # w => work'[v] = work[v]
    BY <1>1, <1>7 DEF ListFailure, walk, queue, Hands, PoolOK
  <2>2. /\ given[work[w]] = 1 /\ work[w] # job
        /\ \A i \in 1..Len(channel) : channel[i] # work[w]
        /\ \A v \in Workers : v # w => work[v] # work[w]
        /\ \A i \in 1..Len(failures) : failures[i] # work[w]
    BY <1>1, <1>2, <2>1 DEF OnePlace
  <2>3. /\ Len(failures') \in Nat
        /\ \A i \in 1..Len(failures') : failures'[i] = work[w] \/
              (i \in 1..Len(failures) /\ failures'[i] = failures[i])
        /\ \A i, j \in 1..Len(failures') : failures'[i] = failures'[j] => i = j
    <3>1. /\ Len(failures') = Len(failures) + 1
          /\ \A i \in 1..Len(failures) : failures'[i] = failures[i]
          /\ failures'[Len(failures) + 1] = work[w]
      BY <1>1, <1>7, <2>1, AppendProperties DEF ListFailure, AccountOK
    <3>2. \A i \in 1..Len(failures') : i \in 1..Len(failures) \/ i = Len(failures) + 1
      BY <1>2, <3>1
    <3>3. \A i, j \in 1..Len(failures') : failures'[i] = failures'[j] => i = j
      BY <1>1, <2>2, <3>1, <3>2 DEF OnePlace
    <3> QED
      BY <1>2, <3>1, <3>2, <3>3
  <2>4. \A v \in Workers : work'[v] # work[w]
    BY <1>2, <2>1, <2>2
  <2>5. \A v \in Workers : work'[v] # NoFile => v # w /\ work'[v] = work[v]
    BY <2>1
  <2> QED
    <3>1. /\ job' # NoFile => given'[job'] = 1
          /\ \A i \in 1..Len(channel') : given'[channel'[i]] = 1 /\ channel'[i] # job'
          /\ \A i, j \in 1..Len(channel') : channel'[i] = channel'[j] => i = j
      BY <1>1, <2>1 DEF OnePlace
    <3>2. \A v \in Workers : work'[v] # NoFile =>
            /\ given'[work'[v]] = 1 /\ work'[v] # job'
            /\ \A i \in 1..Len(channel') : channel'[i] # work'[v]
            /\ \A u \in Workers : u # v => work'[u] # work'[v]
      BY <1>1, <2>1, <2>5 DEF OnePlace
    <3>3. \A i \in 1..Len(failures') :
            /\ given'[failures'[i]] = 1 /\ failures'[i] # job'
            /\ \A j \in 1..Len(channel') : channel'[j] # failures'[i]
            /\ \A v \in Workers : work'[v] # failures'[i]
      BY <1>1, <1>2, <1>3, <2>1, <2>2, <2>3, <2>4 DEF OnePlace
    <3> QED
      BY <2>3, <3>1, <3>2, <3>3 DEF OnePlace
<1>8. ASSUME NEW w \in Workers, FinishJob(w) PROVE OnePlace'
  <2>1. UNCHANGED <<job, given, channel, failures>>
    BY <1>8 DEF FinishJob, walk, queue
  <2>2. \A v \in Workers : work'[v] = work[v] \/ work'[v] = NoFile
    BY <1>1, <1>8 DEF FinishJob, PoolOK
  <2> QED
    BY <1>1, <1>2, <1>3, <2>1, <2>2 DEF OnePlace
<1>9. CASE ListSkipped
  <2>1. job' = NoFile /\ UNCHANGED <<given, channel, failures, work>>
    BY <1>9 DEF ListSkipped, walk, queue, pool
  <2>2. \A w \in Workers : work[w] \in Files \cup {NoFile}
    BY <1>1 DEF PoolOK
  <2> QED
    BY <1>1, <1>2, <1>3, <2>1, <2>2 DEF OnePlace
<1>10. CASE Begin \/ WalkEnded \/ WalkFailed \/ Join \/ PageSkipped \/ Cancel \/ UNCHANGED vars
  <2>1. UNCHANGED <<job, channel, work, failures>>
    BY <1>10 DEF Begin, WalkEnded, LoopEnds, WalkFailed, LoopFails, Join, PageSkipped, Cancel, vars, account, pool, queue
  <2>2. UNCHANGED given
    BY <1>10 DEF Begin, WalkEnded, LoopEnds, WalkFailed, LoopFails, Join, PageSkipped, Cancel, vars, walk,
                Stream!End, Stream!Drop, Stream!Skip
  <2> QED
    BY <1>1, <2>1, <2>2 DEF OnePlace
<1> QED
  BY <1>4, <1>5, <1>6, <1>7, <1>10, <1>8, <1>9 DEF Next, CallerStep, Work

\* Every step keeps the account of the files; one file may be lost with the step
\* that leaves the loop, none before and none after it.
LEMMA StepAccounted == ASSUME IInv, [Next]_vars PROVE EveryFileAccounted'
<1>1. CallOK /\ WalkOK /\ ChannelOK /\ PoolOK /\ AccountOK /\ Hands /\ Open
  BY TypeParts DEF IInv
<1>2. PICK g \in Int, c \in Int, b \in Int, s \in Int, f \in Int :
        /\ g = Cardinality(Given) /\ c = Len(channel) /\ b = Busy(pc)
        /\ s = Succeeded /\ f = stats.failed
  <2>1. Succeeded \in Int /\ stats.failed \in Int
    BY <1>1 DEF AccountOK, Succeeded, Counters, Outcomes
  <2> QED
    BY <1>1, <2>1, GivenType, BusyType DEF ChannelOK
<1> DEFINE Held(at)   == IF at = "submit" THEN 1 ELSE 0
           Missing(k) == Cardinality(Given)' = Underway' + Succeeded' + stats'.failed + k
           Left       == cancelled' /\ caller' \in {"join", "ok"}
<1>3. /\ Underway = c + b + Held(caller)
      /\ Underway' = Len(channel') + Busy(pc') + Held(caller')
  BY <1>2, UnderwayIs
<1>4. Held("submit") = 1 /\ \A at : Held(at) \in Int /\ (at # "submit" => Held(at) = 0)
  OBVIOUS
<1> HIDE DEF Held
<1>5. PICK h \in Int : h = Held(caller)
  BY <1>4
<1>6. PICK l \in 0..1 : l = Lost
  BY DEF IInv, EveryFileAccounted
<1>7. l = 1 => cancelled /\ caller \in {"join", "ok"}
  BY <1>6 DEF IInv, EveryFileAccounted
<1>8. g = c + b + h + s + f + l
  <2>1. Lost = g - (c + b + h + s + f)
    BY <1>2, <1>3, <1>5 DEF Lost
  <2> QED
    BY <1>6, <2>1
<1>9. SUFFICES \E k \in 0..1 : Missing(k) /\ (k = 1 => Left)
  <2>1. CallOK' /\ ChannelOK' /\ PoolOK' /\ AccountOK'
    BY StepTypeOK, TypeParts
  <2>2. Succeeded' \in Int /\ stats'.failed \in Int /\ Len(channel') \in Int
    BY <2>1 DEF AccountOK, Succeeded, Counters, Outcomes, ChannelOK
  <2>3. Held(caller') \in Int
    BY <1>4
  <2>4. Underway' \in Int
    BY <1>3, <2>2, <2>3, BusyType
  <2>5. ASSUME NEW k \in 0..1, Missing(k) PROVE Lost' = k
    BY <2>2, <2>4, <2>5 DEF Lost
  <2> QED
    BY <2>5 DEF EveryFileAccounted
<1>10. l = 1 => Left
  <2>1. cancelled => cancelled'
    BY <1>1 DEF Next, CallerStep, Begin, Pull, Handle, WalkEnded, LoopEnds, WalkFailed, LoopFails, Submit, Join, ListSkipped, Work, Receive,
                FinishJob, ListFailure, PageSkipped, Cancel, vars, CallOK
  <2>2. caller \in {"join", "ok"} => caller' \in {"join", "ok"}
    BY DEF Next, CallerStep, Begin, Pull, Handle, WalkEnded, LoopEnds, WalkFailed, LoopFails, Submit, Join, ListSkipped, Work, Receive,
           FinishJob, ListFailure, PageSkipped, Cancel, vars
  <2> QED
    BY <1>7, <2>1, <2>2
<1>11. CASE Begin
  <2>1. Busy(pc) = 0 /\ Busy(pc') = 0
    <3>1. \A w \in Workers : pc[w] \notin {"busy"} /\ pc'[w] \notin {"busy"}
      BY <1>1, <1>11 DEF Begin, Open
    <3> QED
      BY <3>1, NoneThere DEF Busy
  <2>2. UNCHANGED <<Given, channel, stats, Succeeded>>
    BY <1>11 DEF Begin, walk, account, Given, Succeeded
  <2>3. Held(caller) = 0 /\ Held(caller') = 0
    BY <1>4, <1>11 DEF Begin
  <2>4. Missing(l)
    BY <1>2, <1>3, <1>8, <1>5, <2>1, <2>2, <2>3
  <2> QED
    BY <1>10, <2>4
<1>12. CASE Pull
  <2>1. PICK i \in Items : Stream!Give(i) /\
          \/ cancelled /\ caller' = "join" /\ UNCHANGED account
          \/ i \in Others /\ UNCHANGED <<caller, account>>
          \/ i \in Files /\ caller' = "submit" /\ UNCHANGED account
          \/ i \in BadFiles /\ RecordFailure /\ caller' = "skip"
    BY <1>12 DEF Pull, Handle
  <2>2. /\ i \in Files \cup BadFiles => Cardinality(Given)' = g + 1
        /\ i \in Others => Cardinality(Given)' = g
    BY <1>1, <1>2, <2>1, GiveOne
  <2>3. Len(channel') = c /\ Busy(pc') = b /\ cancelled' = cancelled /\ caller = "pull"
    BY <1>2, <1>12 DEF Pull, Handle, queue, pool
  <2>4. h = 0 /\ l = 0
    BY <1>4, <1>5, <1>7, <2>3
  <2>5. g = c + b + s + f
    BY <1>8, <2>4
  <2>6. UNCHANGED account => Succeeded' = s /\ stats'.failed = f
    BY <1>2 DEF Succeeded, account
  <2>7. CASE cancelled /\ caller' = "join" /\ UNCHANGED account
    <3>1. Held(caller') = 0
      BY <1>4, <2>7
    <3>2. i \in Others => Missing(0)
      BY <1>3, <2>2, <2>3, <2>5, <2>6, <2>7, <3>1
    <3>3. i \notin Others => Missing(1)
      BY <1>3, <2>2, <2>3, <2>5, <2>6, <2>7, <3>1 DEF Items
    <3>4. Left
      BY <2>3, <2>7
    <3> QED
      BY <3>2, <3>3, <3>4
  <2>8. CASE i \in Others /\ UNCHANGED <<caller, account>>
    <3>1. Held(caller') = 0
      BY <1>4, <2>3, <2>8
    <3>2. Missing(0)
      BY <1>3, <2>2, <2>3, <2>5, <2>6, <2>8, <3>1
    <3> QED
      BY <3>2
  <2>9. CASE i \in Files /\ caller' = "submit" /\ UNCHANGED account
    <3>1. Held(caller') = 1
      BY <1>4, <2>9
    <3>2. Missing(0)
      BY <1>3, <2>2, <2>3, <2>5, <2>6, <2>9, <3>1
    <3> QED
      BY <3>2
  <2>10. CASE i \in BadFiles /\ RecordFailure /\ caller' = "skip"
    <3>1. Succeeded' = s /\ stats'.failed = f + 1
      BY <1>1, <1>2, <2>10, Recorded
    <3>2. Held(caller') = 0
      BY <1>4, <2>10
    <3>3. Missing(0)
      BY <1>3, <2>2, <2>3, <2>5, <2>10, <3>1, <3>2
    <3> QED
      BY <3>3
  <2> QED
    BY <2>1, <2>7, <2>8, <2>9, <2>10
<1>13. CASE Submit
  <2>1. job \in Files /\ caller = "submit" /\ caller' \in {"pull", "join"}
    BY <1>1, <1>13 DEF Submit, Hands
  <2>2. h = 1 /\ Held(caller') = 0 /\ l = 0
    BY <1>4, <1>5, <1>7, <2>1
  <2>3. g = c + b + 1 + s + f
    BY <1>8, <2>2
  <2>4. Cardinality(Given)' = g /\ Busy(pc') = b /\ Succeeded' = s /\ stats'.failed = f
    BY <1>2, <1>13 DEF Submit, walk, pool, account, Given, Succeeded
  <2>5. CASE channel' = Append(channel, job)
    <3>1. Len(channel') = c + 1
      BY <1>1, <1>2, <2>1, <2>5, AppendProperties DEF ChannelOK
    <3>2. Missing(0)
      BY <1>3, <2>2, <2>3, <2>4, <3>1
    <3> QED
      BY <3>2
  <2>6. CASE channel' = channel /\ caller' = "join" /\ \A w \in Workers : pc[w] = "exit"
    <3>1. Missing(1)
      <4>1. Len(channel') = c
        BY <1>2, <2>6
      <4>2. Underway' = c + b
        BY <1>3, <2>2, <2>4, <4>1
      <4> QED
        BY <2>3, <2>4, <4>2
    <3>2. cancelled
      <4>1. PICK w \in Workers : pc[w] = "exit"
        BY <2>6, PoolAssumption
      <4> QED
        BY <1>1, <1>13, <4>1 DEF Submit, Open
    <3>3. Left
      BY <1>13, <2>6, <3>2 DEF Submit
    <3> QED
      BY <3>1, <3>3
  <2> QED
    BY <1>13, <2>5, <2>6 DEF Submit
<1>14. ASSUME NEW w \in Workers, Receive(w) PROVE Missing(l)
  <2>1. Cardinality(Given)' = g /\ caller' = caller /\ Succeeded' = s /\ stats'.failed = f
    BY <1>2, <1>14 DEF Receive, walk, account, Given, Succeeded
  <2>2. CASE pc' = [pc EXCEPT ![w] = "exit"] /\ channel' = channel
    <3>1. Busy(pc') = b
      <4>1. /\ pc[w] \notin {"busy"} /\ pc'[w] \notin {"busy"}
            /\ \A v \in Workers \ {w} : pc'[v] = pc[v]
        BY <1>1, <1>14, <2>2, PcMove DEF Receive
      <4> QED
        BY <1>2, <4>1, CountMove DEF Busy
    <3> QED
      BY <1>2, <1>3, <1>4, <1>8, <1>5, <2>1, <2>2, <3>1
  <2>3. CASE channel # <<>> /\ pc' = [pc EXCEPT ![w] = "busy"] /\ channel' = Tail(channel)
    <3>1. Busy(pc') = b + 1
      <4>1. /\ pc[w] \notin {"busy"} /\ pc'[w] \in {"busy"}
            /\ \A v \in Workers \ {w} : pc'[v] = pc[v]
        BY <1>1, <1>14, <2>3, PcMove DEF Receive
      <4> QED
        BY <1>2, <4>1, CountMove DEF Busy
    <3>2. Len(channel') = c - 1
      BY <1>1, <1>2, <2>3, HeadTailProperties DEF ChannelOK
    <3> QED
      BY <1>3, <1>4, <1>8, <1>5, <2>1, <3>1, <3>2
  <2> QED
    BY <1>14, <2>2, <2>3 DEF Receive
<1>15. ASSUME NEW w \in Workers, FinishJob(w) PROVE Missing(l)
  <2>1. Cardinality(Given)' = g /\ caller' = caller /\ Len(channel') = c
    BY <1>2, <1>15 DEF FinishJob, walk, queue, Given
  <2>2. pc[w] = "busy" /\ \E at \in {"recv", "list", "last"} : pc' = [pc EXCEPT ![w] = at]
    BY <1>15 DEF FinishJob
  <2>3. Busy(pc') = b - 1
    <3>1. PICK at \in {"recv", "list", "last"} : pc' = [pc EXCEPT ![w] = at]
      BY <2>2
    <3>2. /\ pc[w] \in {"busy"} /\ pc'[w] \notin {"busy"}
          /\ \A v \in Workers \ {w} : pc'[v] = pc[v]
      BY <1>1, <2>2, <3>1, PcMove
    <3> QED
      BY <1>2, <3>2, CountMove DEF Busy
  <2>4. \/ Succeeded' = s + 1 /\ stats'.failed = f
        \/ Succeeded' = s /\ stats'.failed = f + 1
    BY <1>1, <1>2, <1>15, Recorded DEF FinishJob
  <2>5. Underway' = c + (b - 1) + h /\ g = c + b + h + s + f + l
    BY <1>3, <1>8, <1>5, <2>1, <2>3
  <2>6. CASE Succeeded' = s + 1 /\ stats'.failed = f
    BY <2>1, <2>5, <2>6
  <2>7. CASE Succeeded' = s /\ stats'.failed = f + 1
    BY <2>1, <2>5, <2>7
  <2> QED
    BY <2>4, <2>6, <2>7
<1>16. ASSUME NEW w \in Workers, ListFailure(w) PROVE Missing(l)
  <2>1. Cardinality(Given)' = g /\ caller' = caller /\ Len(channel') = c
    BY <1>2, <1>16 DEF ListFailure, walk, queue, Given
  <2>2. Succeeded' = s /\ stats'.failed = f
    BY <1>2, <1>16 DEF ListFailure, Succeeded
  <2>3. Busy(pc') = b
    <3>1. /\ pc[w] \notin {"busy"} /\ pc'[w] \notin {"busy"}
          /\ \A v \in Workers \ {w} : pc'[v] = pc[v]
      BY <1>1, <1>16 DEF ListFailure, PoolOK
    <3> QED
      BY <1>2, <3>1, CountMove DEF Busy
  <2> QED
    BY <1>3, <1>5, <1>8, <2>1, <2>2, <2>3
<1>17. CASE WalkEnded \/ WalkFailed \/ ListSkipped \/ Join \/ PageSkipped \/ Cancel \/ UNCHANGED vars
  <2>1. UNCHANGED <<channel, pc, stats>>
    BY <1>17 DEF WalkEnded, LoopEnds, WalkFailed, LoopFails, ListSkipped, Join, PageSkipped, Cancel, vars, account, pool, queue
  <2>2. UNCHANGED given
    BY <1>17 DEF WalkEnded, LoopEnds, WalkFailed, LoopFails, ListSkipped, Join, PageSkipped, Cancel, vars, walk,
                 Stream!End, Stream!Drop, Stream!Skip
  <2>3. Given' = Given
    BY <2>2 DEF Given
  <2>4. Held(caller') = Held(caller)
    <3>1. caller' = "submit" <=> caller = "submit"
      BY <1>17 DEF WalkEnded, LoopEnds, WalkFailed, LoopFails, ListSkipped, Join, PageSkipped, Cancel, vars
    <3> QED
      BY <3>1 DEF Held
  <2>5. Len(channel') = c /\ Busy(pc') = b
    BY <1>2, <2>1
  <2>6. Succeeded' = s /\ stats'.failed = f
    BY <1>2, <2>1 DEF Succeeded
  <2>7. Missing(l)
    BY <1>2, <1>3, <1>8, <1>5, <2>3, <2>4, <2>5, <2>6
  <2> QED
    BY <1>10, <2>7
<1> QED
  BY <1>10, <1>11, <1>12, <1>13, <1>14, <1>15, <1>16, <1>17 DEF Next, CallerStep, Work

LEMMA StepIInv == ASSUME IInv, [Next]_vars PROVE IInv'
  BY StepTypeOK, StepHands, StepOpen, StepEnding, StepOnePlace, StepRejected, StepFailedCount, StepAccounted DEF IInv

LEMMA InvariantHolds == Spec => []IInv
<1>1. IInv /\ [Next]_vars => IInv'
  BY StepIInv
<1> QED
  BY <1>1, InitIInv, PTL DEF Spec

\* What is still on its way when nobody is at work.
LEMMA NothingUnderway ==
  ASSUME IInv, caller = "ok" PROVE Underway = Len(channel)
<1>1. Busy(pc) = 0
  <2>1. \A w \in Workers : pc[w] \notin {"busy"}
    BY DEF IInv, Ending
  <2> QED
    BY <2>1, NoneThere DEF Busy
<1>2. Len(channel) \in Nat
  BY DEF IInv, TypeOK
<1> QED
  BY <1>1, <1>2, UnderwayIs

\* A call that was not cancelled accounts for all the walk gave it.
LEMMA OkIsComplete ==
  ASSUME IInv, caller = "ok", ~cancelled PROVE Succeeded + stats.failed = Cardinality(Given)
<1>1. PICK w \in Workers : pc[w] = "exit"
  BY PoolAssumption DEF IInv, Ending
<1>2. channel = <<>>
  BY <1>1 DEF IInv, Open
<1>3. Underway = 0
  BY <1>2, NothingUnderway
<1>4. Succeeded \in Int /\ stats.failed \in Int
  BY DEF IInv, TypeOK, Succeeded, Counters, Outcomes
<1>5. Lost = 0
  BY DEF IInv, EveryFileAccounted
<1> QED
  BY <1>3, <1>4, <1>5, GivenType DEF Lost

-----------------------------------------------------------------------------
(* The theorems *)

\* Every variable of a call keeps its type; the job channel never holds more
\* than its capacity.
THEOREM CallTypeOK == Spec => []TypeOK
  BY InvariantHolds, PTL DEF IInv

\* No file is lost between the walk, the submission, the channel, the workers and
\* the two counters, for any number of each, but for one when the user cancels.
THEOREM EveryFileIsAccounted == Spec => []EveryFileAccounted
  BY InvariantHolds, PTL DEF IInv

\* In a result the failure counter agrees with the lists, and every failure is in
\* them once, for any number of workers: who counts a failure lists it in a later
\* step, and the call returns when none of them is in between.
THEOREM FailuresAlwaysMatch == Spec => []FailuresMatch
<1>1. ASSUME IInv, caller = "ok" PROVE stats.failed = Len(failures) + Len(skipped)
  <2>1. \A w \in Workers : pc[w] \notin Listing
    BY <1>1 DEF IInv, Ending, Listing
  <2>2. Count(pc, Listing) = 0
    BY <2>1, NoneThere
  <2>3. Len(failures) \in Nat /\ Len(skipped) \in Nat
    BY <1>1 DEF IInv, TypeOK
  <2> QED
    BY <1>1, <2>2, <2>3 DEF IInv, FailedCount, Skipping
<1>2. ASSUME IInv, caller = "ok" PROVE FailuresMatch
  <2>1. DOMAIN failures = 1..Len(failures) /\ DOMAIN skipped = 1..Len(skipped)
    BY <1>2 DEF IInv, TypeOK
  <2> QED
    BY <1>1, <1>2, <2>1 DEF IInv, OnePlace, Rejected, FailuresMatch
<1> QED
  BY <1>2, InvariantHolds, PTL DEF FailuresMatch

\* A returned result is final, and complete unless the user cancelled or the
\* walk gave up a page; cancelled, it misses at most what fills the channel and
\* one file more.
THEOREM ResultIsAlwaysFinal == Spec => []ResultIsFinal
<1>1. ASSUME IInv PROVE ResultIsFinal
  <2>1. SUFFICES ASSUME caller = "ok"
                 PROVE  /\ \A w \in Workers : pc[w] = "exit"
                        /\ ticker # "running"
                        /\ ~cancelled /\ ~gap =>
                             Succeeded + stats.failed = Cardinality(Files \cup BadFiles)
                        /\ Cardinality(Given) - (Succeeded + stats.failed) \in 0..Capacity + 1
    BY DEF ResultIsFinal
  <2>2. ticker # "running" /\ \A w \in Workers : pc[w] = "exit"
    BY <1>1, <2>1 DEF IInv, Ending
  <2>3. PICK done \in Int, g \in Int, c \in 0..Capacity :
          done = Succeeded + stats.failed /\ g = Cardinality(Given) /\ c = Len(channel)
    <3>1. Succeeded \in Int /\ stats.failed \in Int
      BY <1>1 DEF IInv, TypeOK, Succeeded, Counters, Outcomes
    <3>2. Len(channel) \in 0..Capacity
      BY <1>1, PoolAssumption DEF IInv, TypeOK
    <3> QED
      BY <3>1, <3>2, GivenType
  <2>4. Underway = c
    BY <1>1, <2>1, <2>3, NothingUnderway
  <2>5. Lost = g - (c + done)
    <3>1. Succeeded \in Int /\ stats.failed \in Int
      BY <1>1 DEF IInv, TypeOK, Succeeded, Counters, Outcomes
    <3> QED
      BY <2>3, <2>4, <3>1 DEF Lost
  <2>6. Lost \in 0..1 /\ (Lost = 1 => cancelled)
    BY <1>1 DEF IInv, EveryFileAccounted
  <2>7. g - done \in 0..Capacity + 1
    BY <2>3, <2>5, <2>6, PoolAssumption
  <2>8. ASSUME ~cancelled, ~gap PROVE done = Cardinality(Files \cup BadFiles)
    <3>1. \A i \in Items : given[i] = 1
      BY <1>1, <2>1, <2>8 DEF IInv, Ending
    <3>2. Given = Files \cup BadFiles
      BY <3>1 DEF Given, Items
    <3> QED
      BY <1>1, <2>1, <2>3, <2>8, <3>2, OkIsComplete
  <2> QED
    BY <2>2, <2>3, <2>7, <2>8
<1> QED
  BY <1>1, InvariantHolds, PTL

\* A result never changes after it was returned: the account is closed, because
\* no worker is left that could still record an outcome.
THEOREM ReturnedResultIsStable == Spec => ResultIsStable
<1>1. ASSUME IInv, [Next]_vars PROVE [caller = "ok" => UNCHANGED account]_vars
  <2>1. SUFFICES ASSUME Next, caller = "ok" PROVE UNCHANGED account
    BY <1>1
  <2>2. \A w \in Workers : pc[w] = "exit"
    BY <1>1, <2>1 DEF IInv, Ending
  <2>3. CASE CallerStep
    BY <2>1, <2>3 DEF CallerStep, Begin, Pull, Handle, WalkEnded, LoopEnds, WalkFailed, LoopFails, Submit, ListSkipped, Join
  <2>4. CASE \E w \in Workers : Work(w)
    BY <2>2, <2>4 DEF Work, Receive, FinishJob, ListFailure
  <2>5. CASE PageSkipped \/ Cancel
    BY <2>5 DEF PageSkipped, Cancel
  <2> QED
    BY <2>1, <2>3, <2>4, <2>5 DEF Next
<1> QED
  BY <1>1, InvariantHolds, PTL DEF Spec, ResultIsStable
=============================================================================
