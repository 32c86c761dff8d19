--------------------------- MODULE ParallelWalker ---------------------------
(***************************************************************************)
(* The parallel directory walk of download_all: the page tasks, the shared *)
(* pending counter that decides when the walk is over, the listing         *)
(* workers, the bounded channel of items, and the consumer of the stream.  *)
(*                                                                         *)
(* Both channels are async_channel queues (MPMC, FIFO).  The task channel  *)
(* is unbounded and every worker holds both of its ends, so it is only     *)
(* ever closed by finish.  An action is one step on shared state: an       *)
(* atomic operation, a send, a receive or a close; the steps of different  *)
(* workers interleave freely.                                              *)
(***************************************************************************)
EXTENDS RemoteTree, FiniteSets

CONSTANTS
  Workers,      \* the listing workers
  ItemBuffer,   \* item_buffer: 2000 in the code
  Observed,     \* a progress_sender is configured
  MayCancel,    \* the user may cancel the walk
  MayFail       \* the API may fail to list a page

Page    == [dir: Dirs, offset: Nat]
Failure == "failure"     \* an Err item
NoPage  == [dir |-> Root, offset |-> 0]

ASSUME WalkAssumption ==
  /\ ItemBuffer \in Nat \ {0}
  /\ IsFiniteSet(Workers) /\ Workers # {}
  /\ {Observed, MayCancel, MayFail} \subseteq BOOLEAN
  /\ Failure \notin Entries

VARIABLES
  tasks,      \* the task channel
  pending,    \* the counter of tasks not finished
  items,      \* the item channel
  closed,     \* finish has closed both channels
  pc,         \* pc[w]: where worker w is
  task,       \* task[w]: the page it works on
  more,       \* more[w]: the further pages of its directory it has to enqueue
  rest,       \* rest[w]: the entries of its page not yet handled
  batch,      \* batch[w]: the count its DiscoveryProgress event will carry
  scanned,    \* the shared counter of entries seen
  files,      \* discovered_files
  consumer,   \* the reader of the stream
  cancelled,  \* the cancellation token
  seen,       \* seen[e]: how often the stream gave entry e to the consumer
  shown,      \* the DiscoveryProgress counts in the order they went out
  finished,   \* the DiscoveryFinished events: the file counts they carry
  partial     \* auxiliary: "failed": a page was answered with an error, "skipped":
              \* one was given up without telling the consumer

channels == <<tasks, items, closed>>
counters == <<scanned, files>>
locals   == <<pc, task, more, rest, batch>>
observer == <<shown, finished>>
reader   == <<consumer, seen>>
vars     == <<channels, pending, counters, locals, observer, reader, cancelled, partial>>

WorkerPC == {"recv", "list", "pages", "sendPage", "scan", "report", "items", "sendDir",
             "sendItem", "sendError", "finish", "quit", "close", "announce", "exit"}

\* A worker between taking a task and counting it as finished.
Busy(w) == pc[w] \notin {"recv", "close", "announce", "exit"}
\* A worker that has counted a task it has not sent yet.
Sending(w) == pc[w] \in {"sendPage", "sendDir"}

Goto(w, l) == pc' = [pc EXCEPT ![w] = l]

-----------------------------------------------------------------------------
(* Listing *)

\* Mutant of FurtherPages: the last page is forgotten when it is not full.
BugFurtherPages(p) ==
  [i \in 1..(Len(Content[p.dir]) \div PageSize - 1) |-> [dir |-> p.dir, offset |-> i * PageSize]]

\* The pages a page makes its worker enqueue: all others of the directory at
\* the first page if the total is known, the next one after a full page if not.
FurtherPages(p) ==
  IF p.dir \in KnownTotal
  THEN IF p.offset = 0
       THEN [i \in 1..((Len(Content[p.dir]) + PageSize - 1) \div PageSize - 1) |->
               [dir |-> p.dir, offset |-> i * PageSize]]
       ELSE <<>>
  ELSE IF Len(PageAt(p.dir, p.offset)) = PageSize
       THEN << [dir |-> p.dir, offset |-> p.offset + PageSize] >>
       ELSE <<>>

-----------------------------------------------------------------------------
(* A listing worker *)

\* Mutant of TakeTask: a cancelled worker leaves without counting its task.
BugTakeTask(w) ==
  /\ pc[w] = "recv"
  /\ tasks # <<>>
  /\ task' = [task EXCEPT ![w] = Head(tasks)]
  /\ tasks' = Tail(tasks)
  /\ Goto(w, IF cancelled THEN "exit" ELSE "list")
  /\ partial' = IF cancelled THEN partial \cup {"skipped"} ELSE partial
  /\ UNCHANGED <<items, closed, pending, counters, more, rest, batch, observer, reader, cancelled>>

\* The next task, and the look at the token that follows.
TakeTask(w) ==
  /\ pc[w] = "recv"
  /\ tasks # <<>>
  /\ task' = [task EXCEPT ![w] = Head(tasks)]
  /\ tasks' = Tail(tasks)
  /\ \/ ~cancelled /\ Goto(w, "list") /\ UNCHANGED partial
     \/ cancelled /\ Goto(w, "quit") /\ partial' = partial \cup {"skipped"}
  /\ UNCHANGED <<items, closed, pending, counters, more, rest, batch, observer, reader, cancelled>>

\* The channel is closed and drained: the worker's task ends.
NoMoreTasks(w) ==
  /\ pc[w] = "recv"
  /\ tasks = <<>> /\ closed
  /\ Goto(w, "exit")
  /\ UNCHANGED <<channels, pending, counters, task, more, rest, batch,
                 observer, reader, cancelled, partial>>

\* list_page: the page, an error, or a resource without a listing.
ListPage(w) ==
  /\ pc[w] = "list"
  /\ \/ /\ more' = [more EXCEPT ![w] = FurtherPages(task[w])]
        /\ rest' = [rest EXCEPT ![w] = PageAt(task[w].dir, task[w].offset)]
        /\ Goto(w, "pages")
        /\ UNCHANGED partial
     \/ /\ MayFail \/ cancelled
        /\ Goto(w, "sendError")
        /\ partial' = partial \cup {"failed"}
        /\ UNCHANGED <<more, rest>>
     \/ /\ MayFail
        /\ Goto(w, "finish")
        /\ partial' = partial \cup {"skipped"}
        /\ UNCHANGED <<more, rest>>
  /\ UNCHANGED <<channels, pending, counters, task, batch, observer, reader, cancelled>>

\* Mutant of CountTask: the counter is left alone, to be raised after the send.
BugCountTask(w) ==
  /\ \/ pc[w] = "pages" /\ more[w] # <<>> /\ Goto(w, "sendPage")
     \/ /\ pc[w] = "items" /\ rest[w] # <<>> /\ Head(rest[w]) \in Dirs
        /\ Goto(w, "sendDir")
  /\ UNCHANGED <<channels, pending, counters, task, more, rest, batch,
                 observer, reader, cancelled, partial>>

\* A task is counted before it is sent: a further page, or a subdirectory.
CountTask(w) ==
  /\ \/ pc[w] = "pages" /\ more[w] # <<>> /\ Goto(w, "sendPage")
     \/ /\ pc[w] = "items" /\ rest[w] # <<>> /\ Head(rest[w]) \in Dirs
        /\ Goto(w, "sendDir")
  /\ pending' = pending + 1
  /\ UNCHANGED <<channels, counters, task, more, rest, batch, observer, reader, cancelled, partial>>

\* The send that follows; it cannot fail, see NothingAfterClose.
SendTask(w) ==
  /\ \/ /\ pc[w] = "sendPage"
        /\ tasks' = Append(tasks, Head(more[w]))
        /\ more' = [more EXCEPT ![w] = Tail(@)]
        /\ Goto(w, "pages")
     \/ /\ pc[w] = "sendDir"
        /\ tasks' = Append(tasks, [dir |-> Head(rest[w]), offset |-> 0])
        /\ Goto(w, "sendItem")
        /\ UNCHANGED more
  /\ UNCHANGED <<items, closed, pending, counters, task, rest, batch,
                 observer, reader, cancelled, partial>>

\* scanned.fetch_add.
Scan(w) ==
  /\ pc[w] = "pages" /\ more[w] = <<>>
  /\ scanned' = scanned + Len(rest[w])
  /\ batch' = [batch EXCEPT ![w] = scanned']
  /\ Goto(w, IF Observed THEN "report" ELSE "items")
  /\ UNCHANGED <<channels, pending, files, task, more, rest, observer, reader, cancelled, partial>>

\* The DiscoveryProgress event.
Report(w) ==
  /\ pc[w] = "report"
  /\ shown' = Append(shown, batch[w])
  /\ Goto(w, "items")
  /\ UNCHANGED <<channels, pending, counters, task, more, rest, batch,
                 finished, reader, cancelled, partial>>

\* A file is counted before it is sent; a page that is through is finished.
CountFile(w) ==
  /\ pc[w] = "items"
  /\ \/ /\ rest[w] # <<>> /\ Head(rest[w]) \in Files
        /\ files' = files + 1
        /\ Goto(w, "sendItem")
     \/ /\ rest[w] = <<>>
        /\ Goto(w, "finish")
        /\ UNCHANGED files
  /\ UNCHANGED <<channels, pending, scanned, task, more, rest, batch,
                 observer, reader, cancelled, partial>>

\* item_tx.send waits for room; without a receiver the rest of the page is left.
SendItem(w) ==
  /\ pc[w] = "sendItem"
  /\ \/ /\ consumer # "dropped"
        /\ Len(items) < ItemBuffer
        /\ items' = Append(items, Head(rest[w]))
        /\ rest' = [rest EXCEPT ![w] = Tail(@)]
        /\ Goto(w, "items")
        /\ UNCHANGED partial
     \/ /\ consumer = "dropped"
        /\ Goto(w, "finish")
        /\ partial' = partial \cup {"skipped"}
        /\ UNCHANGED <<items, rest>>
  /\ UNCHANGED <<tasks, closed, pending, counters, task, more, batch, observer, reader, cancelled>>

\* Mutant of SendError: the error branch finishes the task itself, too.
BugSendError(w) ==
  /\ pc[w] = "sendError"
  /\ \/ consumer # "dropped" /\ Len(items) < ItemBuffer /\ items' = Append(items, Failure)
     \/ consumer = "dropped" /\ UNCHANGED items
  /\ pending' = pending - 1
  /\ Goto(w, "finish")
  /\ UNCHANGED <<tasks, closed, counters, task, more, rest, batch,
                 observer, reader, cancelled, partial>>

SendError(w) ==
  /\ pc[w] = "sendError"
  /\ \/ consumer # "dropped" /\ Len(items) < ItemBuffer /\ items' = Append(items, Failure)
     \/ consumer = "dropped" /\ UNCHANGED items
  /\ Goto(w, "finish")
  /\ UNCHANGED <<tasks, closed, pending, counters, task, more, rest, batch,
                 observer, reader, cancelled, partial>>

\* Mutant of Finish: the value before the subtraction is taken for the one after.
BugFinish(w) ==
  /\ pc[w] \in {"finish", "quit"}
  /\ pending' = pending - 1
  /\ Goto(w, IF pending <= 2 THEN "close" ELSE IF pc[w] = "quit" THEN "exit" ELSE "recv")
  /\ UNCHANGED <<channels, counters, task, more, rest, batch, observer, reader, cancelled, partial>>

\* finish: the worker whose task was the last one closes the channels.
Finish(w) ==
  /\ pc[w] \in {"finish", "quit"}
  /\ pending' = pending - 1
  /\ Goto(w, IF pending = 1 THEN "close" ELSE IF pc[w] = "quit" THEN "exit" ELSE "recv")
  /\ UNCHANGED <<channels, counters, task, more, rest, batch, observer, reader, cancelled, partial>>

\* task_tx.close and item_tx.close: only idle workers look at the first, only
\* the consumer at the second.
Close(w) ==
  /\ pc[w] = "close"
  /\ closed' = TRUE
  /\ Goto(w, IF Observed THEN "announce" ELSE "exit")
  /\ UNCHANGED <<tasks, items, pending, counters, task, more, rest, batch,
                 observer, reader, cancelled, partial>>

\* The DiscoveryFinished event.
Announce(w) ==
  /\ pc[w] = "announce"
  /\ finished' = Append(finished, files)
  /\ Goto(w, "exit")
  /\ UNCHANGED <<channels, pending, counters, task, more, rest, batch,
                 shown, reader, cancelled, partial>>

-----------------------------------------------------------------------------
(* The consumer: the loop of download_all *)

\* No sender is left: the channel was closed or every worker has ended.
NoSender == closed \/ \A w \in Workers : pc[w] = "exit"

\* stream.try_next: an entry, an Err that `?` returns, or the end.
Receive ==
  /\ consumer = "reading"
  /\ \/ /\ items # <<>> /\ Head(items) # Failure
        /\ seen' = [seen EXCEPT ![Head(items)] = @ + 1]
        /\ items' = Tail(items)
        /\ consumer' = IF cancelled THEN "stopped" ELSE "reading"
     \/ /\ items # <<>> /\ Head(items) = Failure
        /\ consumer' = "dropped"
        /\ items' = <<>>
        /\ UNCHANGED seen
     \/ /\ items = <<>> /\ NoSender
        /\ consumer' = "ended"
        /\ UNCHANGED <<items, seen>>
  /\ UNCHANGED <<tasks, closed, pending, counters, locals, observer, cancelled, partial>>

\* The loop ends for want of download workers, who only leave it on the token.
Stop ==
  /\ consumer = "reading" /\ cancelled
  /\ consumer' = "stopped"
  /\ UNCHANGED <<channels, pending, counters, locals, observer, seen, cancelled, partial>>

\* After the loop the stream lives on until download_all has joined its pool.
Leave ==
  /\ consumer = "stopped"
  /\ consumer' = "dropped"
  /\ items' = <<>>
  /\ UNCHANGED <<tasks, closed, pending, counters, locals, observer, seen, cancelled, partial>>

Cancel ==
  /\ MayCancel /\ ~cancelled
  /\ cancelled' = TRUE
  /\ UNCHANGED <<channels, pending, counters, locals, observer, reader, partial>>

-----------------------------------------------------------------------------
Init ==
  /\ tasks = <<NoPage>>
  /\ pending = 1
  /\ items = <<>>
  /\ closed = FALSE
  /\ pc = [w \in Workers |-> "recv"]
  /\ task = [w \in Workers |-> NoPage]
  /\ more = [w \in Workers |-> <<>>]
  /\ rest = [w \in Workers |-> <<>>]
  /\ batch = [w \in Workers |-> 0]
  /\ scanned = 0
  /\ files = 0
  /\ consumer = "reading"
  /\ cancelled = FALSE
  /\ seen = [e \in Entries |-> 0]
  /\ shown = <<>>
  /\ finished = <<>>
  /\ partial = {}

Step(w) ==
  \/ TakeTask(w) \/ NoMoreTasks(w) \/ ListPage(w)
  \/ CountTask(w) \/ SendTask(w) \/ Scan(w) \/ Report(w)
  \/ CountFile(w) \/ SendItem(w) \/ SendError(w)
  \/ Finish(w) \/ Close(w) \/ Announce(w)

Next == (\E w \in Workers : Step(w)) \/ Receive \/ Stop \/ Leave \/ Cancel

Spec == Init /\ [][Next]_vars

\* The runtime schedules every worker and the consumer, and the API answers.
LiveSpec == Spec /\ (\A w \in Workers : WF_vars(Step(w))) /\ WF_vars(Receive) /\ WF_vars(Leave)

-----------------------------------------------------------------------------
(* Properties *)

TypeOK ==
  /\ tasks \in Seq(Page) /\ pending \in Nat
  /\ items \in Seq(Entries \cup {Failure}) /\ Len(items) <= ItemBuffer
  /\ closed \in BOOLEAN /\ cancelled \in BOOLEAN
  /\ partial \subseteq {"failed", "skipped"}
  /\ pc \in [Workers -> WorkerPC]
  /\ task \in [Workers -> Page]
  /\ more \in [Workers -> Seq(Page)]
  /\ rest \in [Workers -> Seq(Entries)]
  /\ batch \in [Workers -> Nat]
  /\ scanned \in Nat /\ files \in Nat
  /\ consumer \in {"reading", "stopped", "dropped", "ended"}
  /\ seen \in [Entries -> Nat]
  /\ shown \in Seq(Nat) /\ finished \in Seq(Nat)

\* pending counts exactly the tasks in the channel, on a worker, or about to
\* be sent by one; were it ever less, the walk would close with work left.
PendingExact ==
  pending = Len(tasks) + Cardinality({w \in Workers : Busy(w)})
                       + Cardinality({w \in Workers : Sending(w)})

\* Once the channels are closed nobody sends to them: a send never fails for a
\* live consumer, and the error branches of the page loop and dispatch are dead.
NothingAfterClose == closed => tasks = <<>> /\ \A w \in Workers : ~Busy(w)

\* What the reader of the stream sees.
State == CASE consumer = "ended"   -> "ended"
           [] consumer = "dropped" -> "dropped"
           [] OTHER                -> "open"
Gap   == "skipped" \in partial

Stream == INSTANCE WalkStream WITH
  Items <- Entries, given <- seen, stream <- State, gap <- Gap

\* The walk keeps the promises of WalkStream: the consumer gets no entry twice,
\* whatever the workers' order; a stream that ends by itself has given every
\* entry of the tree, unless a page was given up without an error, so an error
\* of any worker reaches the consumer; and nothing follows the end.
KeepsPromises == Stream!Spec

\* DiscoveryFinished goes out at most once, after every DiscoveryProgress, one
\* of which showed the count of all entries seen; it carries all files that were
\* found: all there are if no page was given up.
FinalCount ==
  /\ Len(finished) <= 1
  /\ finished # <<>> => /\ finished[1] = files
                        /\ partial = {} => files = Cardinality(Files)
                        /\ \A w \in Workers : pc[w] # "report"
                        /\ scanned = 0 \/ \E i \in DOMAIN shown : shown[i] = scanned

\* The walk ends: every worker's task ends and the consumer learns of it, if
\* the user cancels, if listings fail and if the consumer goes away, too.
WalkEnds == <>[](/\ \A w \in Workers : pc[w] = "exit"
                 /\ consumer \in {"ended", "dropped"})
=============================================================================
