------------------------------ MODULE Observer ------------------------------
(***************************************************************************)
(* What the observer of one download_all is told: the events jobs and walk *)
(* emit, the live counters of the ProgressAggregator they pass through,    *)
(* the snapshots the ticker takes of them, and the bounded channel to an   *)
(* observer who reads when he likes or goes away; next to it, the          *)
(* DownloadStats the call returns.                                         *)
(*                                                                         *)
(* Counters are atomics used one at a time, so an emission is a sequence   *)
(* of operations, todo[a], that the other actors' operations come between. *)
(* A progress_sender is configured.  Left out: Progress events, which move *)
(* no counter, and the counter in_flight, which FileDownload follows.      *)
(***************************************************************************)
EXTENDS Integers, Sequences, FiniteSets

CONSTANTS
  Jobs,         \* the files of the share
  Size,         \* Size[j]: the bytes of file j
  MaxAttempts,  \* failed attempts of a job, of all links together
  MaxTicks,     \* bound on the ticks of the ticker
  Capacity      \* of the observer's channel

ASSUME ObserverAssumption ==
  /\ IsFiniteSet(Jobs) /\ Size \in [Jobs -> Nat]
  /\ "walk" \notin Jobs /\ "ticker" \notin Jobs
  /\ MaxAttempts \in Nat /\ MaxTicks \in Nat
  /\ Capacity \in Nat \ {0}

VARIABLES
  pc,        \* pc[j]: "hidden", then "ready", "started" and "over"
  attempts,  \* attempts[j]: how many attempts of job j have failed
  walk,      \* "listing" or "ended"
  found,     \* discovered_files and discovered_bytes
  todo,      \* todo[a]: the operations actor a has before it
  agg,       \* the counters of the ProgressAggregator
  stats,     \* those of DownloadStats
  queue,     \* how many events wait in the observer's channel
  receiver,  \* the observer holds it: "open", then "gone"
  told,      \* auxiliary: told[c]: terminal events that were sent, or dropped
  ticker,    \* "running" or "aborted"
  ticks,     \* how many snapshots were begun
  snap,      \* the snapshot the ticker is filling in
  base       \* auxiliary: told, when it was begun

vars == <<pc, attempts, walk, found, todo, agg, stats, queue, receiver, told,
          ticker, ticks, snap, base>>

Outcomes == {"downloaded", "resumed", "skipped"}
Final    == Outcomes \cup {"failed"}

\* AggregateSnapshot, in the order snapshot() loads them.
Loads    == <<"downloaded", "resumed", "skipped", "failed",
              "total_files", "total_bytes", "bytes_done">>
Counters == {Loads[i] : i \in DOMAIN Loads}

Nothing  == [c \in Counters |-> 0]
NoneTold == [c \in Final |-> 0]

Actors == Jobs \cup {"walk", "ticker"}
Idle(a) == todo[a] = <<>>

-----------------------------------------------------------------------------
(* Operations *)

Add(c, n)   == [op |-> "add", c |-> c, n |-> n]         \* fetch_add
Store(c, n) == [op |-> "store", c |-> c, n |-> n]
Record(c, n) == [op |-> "record", c |-> c, n |-> n]     \* on DownloadStats, read at the end
Load(c)     == [op |-> "load", c |-> c, n |-> 0]
Send(c)     == [op |-> "send", c |-> c, n |-> 0]        \* emit_raw

\* ProgressAggregator::observe, by the kind of the event.
Observe(event) ==
  CASE event \in Final        -> <<Add(event, 1)>>
    [] event = "Discovered"   -> <<Store("total_files", found.files),
                                   Store("total_bytes", found.bytes)>>
    [] OTHER                  -> <<>>

\* Mutant of Emit: the observer sees the event first.
BugEmit(event) == <<Send(event)>> \o Observe(event)

\* ProgressEmitter::emit.  A terminal event is named for its counter.
Emit(event) == Observe(event) \o <<Send(event)>>

NoteBytesDone(j) == <<Add("bytes_done", Size[j])>>

\* DownloadStats::record, the counters of bytes added up, and record_failure.
RecordOutcome(o, j) == <<Record(o, Size[j])>>
RecordFailure       == <<Record("failed", 0)>>

\* try_send: an event is dropped when the channel is full or closed.
TrySend ==
  queue' = IF receiver = "open" /\ queue < Capacity THEN queue + 1 ELSE queue

\* Actor a does the next of its operations.
Operate(a) ==
  /\ ~Idle(a)
  /\ todo' = [todo EXCEPT ![a] = Tail(@)]
  /\ LET do == Head(todo[a])
     IN  \/ /\ do.op = "add"
            /\ agg' = [agg EXCEPT ![do.c] = @ + do.n]
            /\ UNCHANGED <<stats, queue, told, snap, base>>
         \/ /\ do.op = "store"
            /\ agg' = [agg EXCEPT ![do.c] = do.n]
            /\ UNCHANGED <<stats, queue, told, snap, base>>
         \/ /\ do.op = "record"
            /\ stats' = [stats EXCEPT ![do.c] = @ + 1, !.bytes = @ + do.n]
            /\ UNCHANGED <<agg, queue, told, snap, base>>
         \/ /\ do.op = "load"
            /\ snap' = [snap EXCEPT ![do.c] = agg[do.c]]
            /\ UNCHANGED <<agg, stats, queue, told, base>>
         \/ /\ do.op = "send"
            /\ TrySend
            /\ told' = IF do.c \in Final THEN [told EXCEPT ![do.c] = @ + 1] ELSE told
            /\ IF a = "ticker" THEN snap' = Nothing /\ base' = NoneTold
               ELSE UNCHANGED <<snap, base>>
            /\ UNCHANGED <<agg, stats>>
  /\ UNCHANGED <<pc, attempts, walk, found, receiver, ticker, ticks>>

Plan(a, ops) ==
  /\ Idle(a)
  /\ todo' = [todo EXCEPT ![a] = ops]
  /\ UNCHANGED <<agg, stats, queue, told, receiver, ticker, ticks, snap, base>>

-----------------------------------------------------------------------------
(* The walk *)

\* A page is listed: DiscoveryProgress.
Scan ==
  /\ walk = "listing"
  /\ Plan("walk", <<Send("DiscoveryProgress")>>)
  /\ UNCHANGED <<pc, attempts, walk, found>>

\* A file is counted before it is given, and its job can be received.
Discover(j) ==
  /\ walk = "listing"
  /\ pc[j] = "hidden"
  /\ found' = [files |-> found.files + 1, bytes |-> found.bytes + Size[j]]
  /\ pc' = [pc EXCEPT ![j] = "ready"]
  /\ UNCHANGED <<attempts, walk, todo, agg, stats, queue, receiver, told, ticker, ticks, snap, base>>

\* finish, on the last task: DiscoveryFinished.
Announce ==
  /\ walk = "listing"
  /\ \A j \in Jobs : pc[j] # "hidden"
  /\ walk' = "ended"
  /\ Plan("walk", Emit("Discovered"))
  /\ UNCHANGED <<pc, attempts, found>>

-----------------------------------------------------------------------------
(* A job *)

Job(j, from, to, ops) ==
  /\ pc[j] \in from
  /\ pc' = [pc EXCEPT ![j] = to]
  /\ Plan(j, ops)
  /\ UNCHANGED <<walk, found>>

\* DownloadSession::run emits Started.
Start(j) ==
  /\ Job(j, {"ready"}, "started", Emit("Started"))
  /\ UNCHANGED attempts

\* Mutant of FailAttempt: the event says that the job is over.
BugFailAttempt(j) ==
  /\ attempts[j] < MaxAttempts
  /\ attempts' = [attempts EXCEPT ![j] = @ + 1]
  /\ Job(j, {"ready", "started"}, "ready", Emit("failed"))

\* An attempt fails, before Started or after: Failed with retrying set.
FailAttempt(j) ==
  /\ attempts[j] < MaxAttempts
  /\ attempts' = [attempts EXCEPT ![j] = @ + 1]
  /\ Job(j, {"ready", "started"}, "ready", Emit("FailedRetrying"))

\* download_job gives up: the final Failed, then the failure is recorded.  No
\* event tells of it if what failed was the request for a fresh link.
GiveUp(j) ==
  /\ \E event \in {Emit("failed"), <<>>} : Job(j, {"ready"}, "over", event \o RecordFailure)
  /\ UNCHANGED attempts

Succeed(j, o) == NoteBytesDone(j) \o RecordOutcome(o, j)

\* The session ends well; Finished, and the worker adds the file up.
Finish(j) ==
  /\ \E o \in {"downloaded", "resumed"} : Job(j, {"started"}, "over", Emit(o) \o Succeed(j, o))
  /\ UNCHANGED attempts

\* A complete partial file is installed: Started and Finished at once.
FinalizeExisting(j) ==
  /\ Job(j, {"ready"}, "over", Emit("Started") \o Emit("skipped") \o Succeed(j, "skipped"))
  /\ UNCHANGED attempts

\* Mutant of SkipMatching: bytes_done advances with Finished alone.
BugSkipMatching(j) ==
  /\ Job(j, {"ready"}, "over", RecordOutcome("skipped", j))
  /\ UNCHANGED attempts

\* download_to finds the file there: no event at all.
SkipMatching(j) ==
  /\ Job(j, {"ready"}, "over", Succeed(j, "skipped"))
  /\ UNCHANGED attempts

-----------------------------------------------------------------------------
(* The ticker and the observer *)

Over == walk = "ended" /\ \A j \in Jobs : pc[j] = "over" /\ Idle(j)

\* spawn_aggregate_ticker: a tick takes a snapshot and sends it past the
\* counters.  Nothing is awaited in between, so abort() does not cut it short.
Tick ==
  /\ ticker = "running" /\ ticks < MaxTicks
  /\ Idle("ticker")
  /\ ticks' = ticks + 1
  /\ todo' = [todo EXCEPT !["ticker"] = [i \in DOMAIN Loads |-> Load(Loads[i])]
                                          \o <<Send("Aggregate")>>]
  /\ snap' = Nothing
  /\ base' = told
  /\ UNCHANGED <<pc, attempts, walk, found, agg, stats, queue, receiver, told, ticker>>

\* download_all returns.
Abort ==
  /\ Over /\ ticker = "running"
  /\ ticker' = "aborted"
  /\ UNCHANGED <<pc, attempts, walk, found, todo, agg, stats, queue, receiver, told,
                 ticks, snap, base>>

\* The observer reads an event, or drops the receiver.
Read ==
  /\ receiver = "open"
  /\ \/ /\ queue > 0
        /\ queue' = queue - 1
        /\ UNCHANGED receiver
     \/ /\ queue' = 0
        /\ receiver' = "gone"
  /\ UNCHANGED <<pc, attempts, walk, found, todo, agg, stats, told, ticker, ticks, snap, base>>

-----------------------------------------------------------------------------
Init ==
  /\ pc = [j \in Jobs |-> "hidden"]
  /\ attempts = [j \in Jobs |-> 0]
  /\ walk = "listing"
  /\ found = [files |-> 0, bytes |-> 0]
  /\ todo = [a \in Actors |-> IF a = "walk" THEN Emit("DiscoveryStarted") ELSE <<>>]
  /\ agg = Nothing
  /\ stats = [c \in Final \cup {"bytes"} |-> 0]
  /\ queue = 0
  /\ receiver = "open"
  /\ told = NoneTold
  /\ ticker = "running"
  /\ ticks = 0
  /\ snap = Nothing
  /\ base = NoneTold

JobStep(j) ==
  \/ Start(j) \/ FailAttempt(j) \/ GiveUp(j)
  \/ Finish(j) \/ FinalizeExisting(j) \/ SkipMatching(j)

WalkStep == Scan \/ Announce \/ \E j \in Jobs : Discover(j)

Next ==
  \/ WalkStep \/ Tick \/ Abort \/ Read
  \/ \E j \in Jobs : JobStep(j)
  \/ \E a \in Actors : Operate(a)

Spec == Init /\ [][Next]_vars

-----------------------------------------------------------------------------
(* Properties *)

TypeOK ==
  /\ pc \in [Jobs -> {"hidden", "ready", "started", "over"}]
  /\ attempts \in [Jobs -> 0..MaxAttempts]
  /\ walk \in {"listing", "ended"}
  /\ agg \in [Counters -> Nat] /\ snap \in [Counters -> Nat]
  /\ queue \in 0..Capacity
  /\ receiver \in {"open", "gone"} /\ ticker \in {"running", "aborted"}
  /\ ticks \in 0..MaxTicks

\* The aggregator is fed before the observer: a snapshot holds every terminal
\* event that reached the observer's channel before its tick.
SnapshotCoversSent ==
  todo["ticker"] = <<Send("Aggregate")>> => \A c \in Final : snap[c] >= base[c]

\* Once the totals are known, neither the counters nor a snapshot show more
\* files or bytes done than there are, though both change while they are read.
WithinTotal(s) ==
  /\ s.total_files # 0 => s.downloaded + s.resumed + s.skipped + s.failed <= s.total_files
  /\ s.total_bytes # 0 => s.bytes_done <= s.total_bytes

DoneWithinTotal == WithinTotal(agg) /\ WithinTotal(snap)

\* The aggregator mirrors DownloadStats: when all is over both agree on the
\* files downloaded and resumed and on the bytes, and what it has of skipped and
\* failed files lacks those of which no event tells.
MirrorsStats ==
  Over =>
    /\ agg.downloaded = stats.downloaded /\ agg.resumed = stats.resumed
    /\ agg.bytes_done = stats.bytes
    /\ agg.skipped <= stats.skipped /\ agg.failed <= stats.failed
    /\ stats.downloaded + stats.resumed + stats.skipped + stats.failed = Cardinality(Jobs)
=============================================================================
