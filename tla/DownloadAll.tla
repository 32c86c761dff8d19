---------------------------- MODULE DownloadAll ----------------------------
(***************************************************************************)
(* One call of download_all: the caller that turns the items of the walk   *)
(* into jobs, the bounded job channel, the pool of download workers, the   *)
(* result they add up, and the ticker of aggregate snapshots.              *)
(*                                                                         *)
(* The walk is a WalkStream, as ParallelWalker implements it.              *)
(* A job is what its worker sees of FileDownload: one outcome or error.    *)
(* The jobs of a call have different destinations.                         *)
(***************************************************************************)
EXTENDS Integers, Sequences, FiniteSets

CONSTANTS
  Workers,    \* the tasks of the DownloadPool
  Others,     \* items of the walk that are not files
  Files,      \* files DownloadJob::for_download makes a job of
  BadFiles,   \* files it rejects: no path, an unsafe path, no size
  Capacity,   \* of the job channel: worker_count * 100 in the code
  Observed    \* a progress_sender is configured

NoFile == "no file"

ASSUME PoolAssumption ==
  /\ IsFiniteSet(Workers) /\ Workers # {}
  /\ IsFiniteSet(Others \cup Files \cup BadFiles)
  /\ Others \cap (Files \cup BadFiles) = {} /\ Files \cap BadFiles = {}
  /\ NoFile \notin Files \cup BadFiles
  /\ Capacity \in Nat \ {0}
  /\ Observed \in BOOLEAN

VARIABLES
  caller,     \* where download_all is
  given,      \* given[i]: how often the walk gave item i
  stream,     \* the stream of the walk: "open", "ended" or "dropped"
  gap,        \* auxiliary: the walk gave up a page without an error
  job,        \* the file in the caller's hands: to submit, or to list as skipped
  channel,    \* the job channel
  sender,     \* the pool still holds the channel's sender
  pc,         \* pc[w]: where worker w is
  work,       \* work[w]: the file worker w downloads
  stats,      \* DownloadStats, its file counters
  failures,   \* the failures of the pool, behind a mutex
  skipped,    \* the failures of the caller
  ticker,     \* the aggregate ticker
  cancelled   \* the cancellation token

Items == Others \cup Files \cup BadFiles

Stream == INSTANCE WalkStream

walk    == <<given, stream, gap>>
queue   == <<channel, sender>>
pool    == <<pc, work>>
account == <<stats, failures, skipped>>
vars    == <<caller, walk, job, queue, pool, account, ticker, cancelled>>

Outcomes == {"downloaded", "resumed", "skipped"}
Counters == Outcomes \cup {"failed", "total"}
Callers  == {"start", "pull", "submit", "skip", "join", "ok", "error"}
\* Where a worker is; "list" and "last" are between the counter and the list of
\* the failures, "last" with the failure that ends the worker.
Labels   == {"recv", "busy", "list", "last", "exit"}
Returned == caller \in {"ok", "error"}

-----------------------------------------------------------------------------
(* DownloadStats: relaxed atomic counters *)

\* Mutant of RecordOutcome: a file that was there already is not counted.
BugRecordOutcome(o) ==
  stats' = IF o = "skipped" THEN stats ELSE [stats EXCEPT ![o] = @ + 1, !.total = @ + 1]

\* DownloadStats::record.
RecordOutcome(o) == stats' = [stats EXCEPT ![o] = @ + 1, !.total = @ + 1]

\* DownloadStats::record_failure.
RecordFailure == stats' = [stats EXCEPT !.failed = @ + 1]

-----------------------------------------------------------------------------
(* The caller *)

\* download_all up to DownloadPool::spawn; `?` leaves it with any API error.
Begin ==
  /\ caller = "start"
  /\ ticker' = IF Observed THEN "running" ELSE "none"
  /\ \/ /\ caller' = "pull"
        /\ sender' = TRUE
        /\ pc' = [w \in Workers |-> "recv"]
     \/ /\ caller' = "error"
        /\ UNCHANGED <<sender, pc>>
  /\ UNCHANGED <<walk, job, channel, work, account, cancelled>>

\* The body of the loop: an item is dropped with the loop, passed over, made a job,
\* or counted as a failure.
Handle(i) ==
  /\ caller = "pull"
  /\ \/ /\ cancelled
        /\ caller' = "join"
        /\ UNCHANGED <<job, account>>
     \/ /\ ~cancelled /\ i \in Others
        /\ UNCHANGED <<caller, job, account>>
     \/ /\ ~cancelled /\ i \in Files
        /\ caller' = "submit"
        /\ job' = i
        /\ UNCHANGED account
     \/ /\ ~cancelled /\ i \in BadFiles
        /\ RecordFailure
        /\ caller' = "skip"
        /\ job' = i
        /\ UNCHANGED <<failures, skipped>>
  /\ UNCHANGED <<queue, pool, ticker, cancelled>>

\* The item that was counted goes into the caller's list.
ListSkipped ==
  /\ caller = "skip"
  /\ skipped' = Append(skipped, job)
  /\ job' = NoFile
  /\ caller' = "pull"
  /\ UNCHANGED <<walk, queue, pool, stats, failures, ticker, cancelled>>

\* The stream has ended: the loop has.
LoopEnds ==
  /\ caller = "pull"
  /\ caller' = "join"
  /\ UNCHANGED <<job, queue, pool, account, ticker, cancelled>>

\* An Err of the stream: `?` returns at once, and dropping the pool drops the
\* sender and the handles; the workers and the ticker are left running.
LoopFails ==
  /\ caller = "pull"
  /\ caller' = "error"
  /\ sender' = FALSE
  /\ UNCHANGED <<job, channel, pool, account, ticker, cancelled>>

\* stream.try_next and what the loop makes of it.
Pull       == \E i \in Items : Stream!Give(i) /\ Handle(i)
WalkEnded  == Stream!End /\ LoopEnds
WalkFailed == Stream!Drop /\ LoopFails

\* DownloadPool::submit waits for room; it fails when no worker is left.
Submit ==
  /\ caller = "submit"
  /\ job' = NoFile
  /\ \/ /\ \E w \in Workers : pc[w] # "exit"
        /\ Len(channel) < Capacity
        /\ channel' = Append(channel, job)
        /\ caller' = "pull"
     \/ /\ \A w \in Workers : pc[w] = "exit"
        /\ caller' = "join"
        /\ UNCHANGED channel
  /\ UNCHANGED <<walk, sender, pool, account, ticker, cancelled>>

\* Mutant of Join: the handles are not awaited.
BugJoin ==
  /\ caller = "join"
  /\ caller' = "ok"
  /\ sender' = FALSE
  /\ ticker' = IF ticker = "running" THEN "aborted" ELSE ticker
  /\ UNCHANGED <<walk, job, channel, pool, account, cancelled>>

\* DownloadPool::join drops the sender, waits for the workers, and the caller
\* aborts the ticker and returns, which drops the stream.
Join ==
  /\ caller = "join"
  /\ \/ /\ sender
        /\ sender' = FALSE
        /\ UNCHANGED <<caller, walk, ticker>>
     \/ /\ ~sender
        /\ \A w \in Workers : pc[w] = "exit"
        /\ ticker' = IF ticker = "running" THEN "aborted" ELSE ticker
        /\ caller' = "ok"
        /\ IF stream = "open" THEN Stream!Drop ELSE UNCHANGED walk
        /\ UNCHANGED sender
  /\ UNCHANGED <<job, channel, pool, account, cancelled>>

-----------------------------------------------------------------------------
(* DownloadWorker::run *)

\* Mutant of Receive: a closed channel ends the worker before it is empty.
BugReceive(w) ==
  /\ pc[w] = "recv"
  /\ \/ /\ cancelled \/ ~sender
        /\ pc' = [pc EXCEPT ![w] = "exit"]
        /\ UNCHANGED <<work, channel>>
     \/ /\ ~cancelled /\ channel # <<>>
        /\ pc' = [pc EXCEPT ![w] = "busy"]
        /\ work' = [work EXCEPT ![w] = Head(channel)]
        /\ channel' = Tail(channel)
  /\ UNCHANGED <<caller, walk, job, sender, account, ticker, cancelled>>

\* cancel.race(receiver.recv()): the token wins, a closed channel is drained.
Receive(w) ==
  /\ pc[w] = "recv"
  /\ \/ /\ cancelled \/ (channel = <<>> /\ ~sender)
        /\ pc' = [pc EXCEPT ![w] = "exit"]
        /\ UNCHANGED <<work, channel>>
     \/ /\ ~cancelled /\ channel # <<>>
        /\ pc' = [pc EXCEPT ![w] = "busy"]
        /\ work' = [work EXCEPT ![w] = Head(channel)]
        /\ channel' = Tail(channel)
  /\ UNCHANGED <<caller, walk, job, sender, account, ticker, cancelled>>

\* download_job returns: an outcome, an error, or Cancelled.  A cancelled job may
\* as well have come to its end.
FinishJob(w) ==
  /\ pc[w] = "busy"
  /\ \/ /\ \E o \in Outcomes : RecordOutcome(o)
        /\ pc' = [pc EXCEPT ![w] = "recv"]
        /\ work' = [work EXCEPT ![w] = NoFile]
     \/ /\ RecordFailure
        /\ \/ pc' = [pc EXCEPT ![w] = "list"]
           \/ cancelled /\ pc' = [pc EXCEPT ![w] = "last"]
        /\ UNCHANGED work
  /\ UNCHANGED <<caller, walk, job, queue, failures, skipped, ticker, cancelled>>

\* Mutant of ListFailure: a cancelled worker leaves at once.
BugListFailure(w) ==
  /\ \/ /\ pc[w] = "list"
        /\ pc' = [pc EXCEPT ![w] = "recv"]
        /\ failures' = Append(failures, work[w])
     \/ /\ pc[w] = "last"
        /\ pc' = [pc EXCEPT ![w] = "exit"]
        /\ UNCHANGED failures
  /\ work' = [work EXCEPT ![w] = NoFile]
  /\ UNCHANGED <<caller, walk, job, queue, stats, skipped, ticker, cancelled>>

\* The file whose failure was counted goes into the list of the pool; a Cancelled
\* one ends the worker.
ListFailure(w) ==
  /\ \/ pc[w] = "list" /\ pc' = [pc EXCEPT ![w] = "recv"]
     \/ pc[w] = "last" /\ pc' = [pc EXCEPT ![w] = "exit"]
  /\ failures' = Append(failures, work[w])
  /\ work' = [work EXCEPT ![w] = NoFile]
  /\ UNCHANGED <<caller, walk, job, queue, stats, skipped, ticker, cancelled>>

Work(w) == Receive(w) \/ FinishJob(w) \/ ListFailure(w)

\* A listing worker gives a page up without an error, perhaps when nobody reads
\* the stream any more.
PageSkipped ==
  /\ \/ caller \in {"pull", "submit", "skip", "join"} /\ stream = "open"
     \/ stream = "dropped"
  /\ ~gap
  /\ Stream!Skip
  /\ UNCHANGED <<caller, job, queue, pool, account, ticker, cancelled>>

Cancel ==
  /\ ~cancelled
  /\ cancelled' = TRUE
  /\ UNCHANGED <<caller, walk, job, queue, pool, account, ticker>>

-----------------------------------------------------------------------------
Init ==
  /\ caller = "start"
  /\ Stream!Init
  /\ job = NoFile
  /\ channel = <<>>
  /\ sender = FALSE
  /\ pc = [w \in Workers |-> "exit"]
  /\ work = [w \in Workers |-> NoFile]
  /\ stats = [c \in Counters |-> 0]
  /\ failures = <<>>
  /\ skipped = <<>>
  /\ ticker = "none"
  /\ cancelled = FALSE

CallerStep == Begin \/ Pull \/ WalkEnded \/ WalkFailed \/ Submit \/ ListSkipped \/ Join

Next == CallerStep \/ (\E w \in Workers : Work(w)) \/ PageSkipped \/ Cancel

Spec == Init /\ [][Next]_vars

-----------------------------------------------------------------------------
(* Properties *)

TypeOK ==
  /\ caller \in Callers
  /\ given \in [Items -> 0..1]
  /\ stream \in {"open", "ended", "dropped"} /\ gap \in BOOLEAN
  /\ job \in Files \cup BadFiles \cup {NoFile}
  /\ channel \in Seq(Files) /\ Len(channel) <= Capacity
  /\ sender \in BOOLEAN /\ cancelled \in BOOLEAN
  /\ pc \in [Workers -> Labels]
  /\ work \in [Workers -> Files \cup {NoFile}]
  /\ stats \in [Counters -> Nat]
  /\ failures \in Seq(Files) /\ skipped \in Seq(BadFiles)
  /\ ticker \in {"none", "running", "aborted"}

Succeeded == stats.downloaded + stats.resumed + stats.skipped

\* The files the walk has given and the loop has not passed over.
Given    == {f \in Files \cup BadFiles : given[f] = 1}
\* Where such a file may be while nothing is recorded of it.
Underway == Len(channel) + Cardinality({w \in Workers : pc[w] = "busy"})
            + (IF caller = "submit" THEN 1 ELSE 0)

\* The files the walk has given that are nowhere: neither on their way nor recorded.
Lost == Cardinality(Given) - (Underway + Succeeded + stats.failed)

\* Every file the walk has given is in one place: being submitted, in the channel,
\* on a worker, a success or a failure; but for the one file with which the loop
\* finds that the user has cancelled, or that the workers are gone.
EveryFileAccounted ==
  /\ Lost \in 0..1
  /\ Lost = 1 => cancelled /\ caller \in {"join", "ok"}

\* A failure is counted first and listed later, by workers and by the caller.  When
\* download_all returns nobody is between the two: the counter agrees with the two
\* lists, and every failure is in them once and of a file the walk gave.
FailuresMatch ==
  caller = "ok" =>
    /\ stats.failed = Len(failures) + Len(skipped)
    /\ \A i, j \in DOMAIN failures : failures[i] = failures[j] => i = j
    /\ \A i, j \in DOMAIN skipped : skipped[i] = skipped[j] => i = j
    /\ \A i \in DOMAIN failures : given[failures[i]] = 1
    /\ \A i \in DOMAIN skipped : given[skipped[i]] = 1

\* A result is returned when nothing moves any more: no worker, no ticker; and
\* without a cancellation it covers every file of the share, unless the walk
\* gave up a page without an error.  A cancelled one may miss what is left in the
\* channel and the file the loop ended with, but no other that the walk gave.
ResultIsFinal ==
  caller = "ok" =>
    /\ \A w \in Workers : pc[w] = "exit"
    /\ ticker # "running"
    /\ ~cancelled /\ ~gap => Succeeded + stats.failed = Cardinality(Files \cup BadFiles)
    /\ Cardinality(Given) - (Succeeded + stats.failed) \in 0..Capacity + 1

\* A result never changes after it was returned.
ResultIsStable == [][caller = "ok" => UNCHANGED account]_vars

-----------------------------------------------------------------------------
(* What the documentation says and the code does not do *)

\* download_all: the aggregate ticker is stopped before returning.
TickerStopped == Returned => ticker # "running"
=============================================================================
