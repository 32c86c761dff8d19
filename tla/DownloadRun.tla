----------------------------- MODULE DownloadRun -----------------------------
(***************************************************************************)
(* download_all with the walk it runs on: DownloadAll and ParallelWalker   *)
(* composed.  The loop of the caller is the consumer of the stream, so its *)
(* steps are joint ones; the listing workers and the download workers move *)
(* by themselves; one token cancels all of them.                           *)
(*                                                                         *)
(* The stream of the call is what the reader of the walk sees: the entries *)
(* it was given, and the State and Gap of ParallelWalker.                  *)
(***************************************************************************)
EXTENDS ParallelWalker

CONSTANTS
  Downloaders,  \* the tasks of the DownloadPool
  BadFiles,     \* the files no job can be made of
  Capacity      \* of the job channel

ASSUME RunAssumption ==
  /\ IsFiniteSet(Dirs) /\ IsFiniteSet(Files)
  /\ IsFiniteSet(Downloaders) /\ Downloaders # {}
  /\ BadFiles \subseteq Files
  /\ "no file" \notin Files
  /\ Capacity \in Nat \ {0}

VARIABLES
  caller,     \* where download_all is
  job,        \* the file in the caller's hands
  channel,    \* the job channel
  sender,     \* the pool still holds the channel's sender
  loader,     \* loader[w]: where download worker w is
  work,       \* work[w]: the file it downloads
  stats,      \* DownloadStats
  failures,   \* the failures of the pool
  skipped,    \* the failures of the caller
  ticker      \* the aggregate ticker

callVars == <<caller, job, channel, sender, loader, work, stats, failures, skipped, ticker>>
runVars  == <<vars, callVars>>

Call == INSTANCE DownloadAll WITH
  Workers <- Downloaders, Others <- Dirs \ {Root}, Files <- Files \ BadFiles,
  given <- seen, stream <- State, gap <- Gap, pc <- loader

\* into_stream has spawned the listing workers, which nothing but the end of
\* their walk ends.
Walking == caller \in {"pull", "submit", "skip", "join", "ok"} \/ consumer = "dropped"

-----------------------------------------------------------------------------
(* The caller *)

Begin == UNCHANGED vars /\ Call!Begin

\* Mutant of TryNext: an Err of the stream ends the loop and no more.
BugTryNext ==
  /\ caller = "pull"
  /\ Receive
  /\ \/ items # <<>> /\ Head(items) # Failure /\ Call!Handle(Head(items))
     \/ items # <<>> /\ Head(items) = Failure /\ Call!LoopEnds
     \/ items = <<>> /\ Call!LoopEnds

\* stream.try_next and the body of the loop.
TryNext ==
  /\ caller = "pull"
  /\ Receive
  /\ \/ items # <<>> /\ Head(items) # Failure /\ Call!Handle(Head(items))
     \/ items # <<>> /\ Head(items) = Failure /\ Call!LoopFails
     \/ items = <<>> /\ Call!LoopEnds

\* The loop is left with the stream in hand.
LeaveLoop ==
  /\ consumer' = "stopped"
  /\ UNCHANGED <<channels, pending, counters, locals, observer, seen, cancelled, partial>>

\* Mutant of Submit: it gives up on a full channel, too.
BugSubmit ==
  \/ UNCHANGED vars /\ Call!Submit /\ caller' = "pull"
  \/ LeaveLoop /\ Call!Submit /\ caller' = "join"
  \/ /\ caller = "submit" /\ Len(channel) = Capacity
     /\ LeaveLoop
     /\ caller' = "join" /\ job' = "no file"
     /\ UNCHANGED <<channel, sender, loader, work, stats, failures, skipped, ticker>>

\* pool.submit, whose error leaves the loop.
Submit ==
  \/ UNCHANGED vars /\ Call!Submit /\ caller' = "pull"
  \/ LeaveLoop /\ Call!Submit /\ caller' = "join"

\* A file that no job can be made of goes into the caller's list.
ListSkipped == UNCHANGED vars /\ Call!ListSkipped

\* Mutant of Join: it awaits the listing workers before it lets go of the stream.
BugJoin ==
  \/ sender /\ UNCHANGED vars /\ Call!Join
  \/ /\ ~sender /\ caller = "join" /\ \A w \in Workers : pc[w] = "exit"
     /\ IF consumer = "stopped" THEN Leave ELSE UNCHANGED vars
     /\ Call!Join

\* pool.join; the return drops the stream if it has not ended.
Join ==
  \/ sender /\ UNCHANGED vars /\ Call!Join
  \/ /\ ~sender /\ caller = "join"
     /\ IF consumer = "stopped" THEN Leave ELSE UNCHANGED vars
     /\ Call!Join

-----------------------------------------------------------------------------
(* The workers and the token *)

List(w) == Walking /\ Step(w) /\ UNCHANGED callVars

Download(w) == UNCHANGED vars /\ Call!Work(w)

UserCancels == Cancel /\ UNCHANGED callVars

-----------------------------------------------------------------------------
RunInit == Init /\ Call!Init

CallerStep == Begin \/ TryNext \/ Submit \/ ListSkipped \/ Join

RunNext == CallerStep \/ (\E w \in Workers : List(w)) \/ (\E w \in Downloaders : Download(w))
           \/ UserCancels

RunSpec == RunInit /\ [][RunNext]_runVars

\* The runtime schedules the caller and every worker; the API answers and each
\* job comes to an end.
LiveRunSpec ==
  /\ RunSpec
  /\ WF_runVars(CallerStep)
  /\ \A w \in Workers : WF_runVars(List(w))
  /\ \A w \in Downloaders : WF_runVars(Download(w))

-----------------------------------------------------------------------------
(* Properties *)

\* Either part sees in the other what its own model assumes: the walk a consumer
\* that stops for one of its reasons, the call a stream that keeps its promises,
\* so that whatever is shown of either holds of the whole.
ImplementsParts == Spec /\ Call!Spec

\* download_all has returned Ok, and nobody cancelled it.
Complete == caller = "ok" /\ ~cancelled

\* An error of any listing worker, whatever was found before or after it, makes the
\* call fail unless the user cancelled it.
ErrorsSurface == Complete => "failed" \notin partial

\* What the result accounts for is what the walk found, and what DiscoveryFinished
\* shows the user.
ResultMatchesWalk ==
  Complete =>
    /\ Call!Succeeded + stats.failed = files
    /\ \A i \in DOMAIN finished : finished[i] = files

\* When download_all returns Ok nothing of the walk is left to do: no page to list,
\* no request of a listing worker under way, no entry unread.
NothingLeft ==
  Complete => tasks = <<>> /\ items = <<>> /\ \A w \in Workers : ~Busy(w)

\* The call returns and every task it started ends, wherever an error or the token
\* finds it: the caller in want of room or of an item, a listing worker in want of
\* room for an item nobody reads any more.
RunEnds ==
  <>[](/\ caller \in {"ok", "error"}
       /\ \A w \in Downloaders : loader[w] = "exit"
       /\ Walking => \A w \in Workers : pc[w] = "exit")
=============================================================================
