---------------------------- MODULE FileDownload ----------------------------
(***************************************************************************)
(* One download job, from DownloadWorker::download_job down to the file    *)
(* system: the link loop, the skip check of download_to, the retry loop of *)
(* retry::run, and DownloadSession::run with its resumable ".part" file.   *)
(* The process may be killed between any two steps and started again, the  *)
(* user may cancel at any time, the remote file may be replaced at any     *)
(* time, and the server answers as it likes.                               *)
(*                                                                         *)
(* A file is a length and the content its bytes belong to; the bytes       *)
(* themselves are never looked at.  One action is what happens between two *)
(* awaits of the code.  The job's destination and ".part" path are used by *)
(* no other job, so nobody else touches the two files.                     *)
(***************************************************************************)
EXTENDS Integers

CONSTANTS
  Versions,         \* the contents the remote file has over time
  Size,             \* Size[v]: the length of version v
  Mixed,            \* the content of bytes that come from several versions
  Absent,           \* no file at a path
  MaxAttempts,      \* RetryPolicy::max_attempts
  MaxLinkAttempts,  \* DownloadContext::max_link_attempts
  Observed,         \* a progress_sender is configured
  Windows,          \* cfg!(windows)
  OddStatus,        \* the server may answer a download with a 2xx besides 200 and 206
  Width,            \* the width of the aggregator's counters: 2^64 in the code
  MaxRuns,          \* bound: calls that start this job, the first one included
  MaxUpdates        \* bound: times the remote file is replaced

File == [size: Nat, data: Versions \cup {Mixed}]

ASSUME FileAssumption ==
  /\ Size \in [Versions -> Nat]
  /\ Mixed \notin Versions
  /\ Absent \notin File
ASSUME ConfigAssumption ==
  /\ MaxAttempts \in Nat \ {0}
  /\ MaxLinkAttempts \in Nat \ {0}
  /\ Observed \in BOOLEAN
  /\ Windows \in BOOLEAN
  /\ OddStatus \in BOOLEAN
  /\ Width \in Nat \ {0}

VARIABLES
  cur,        \* the version the server holds now
  updates,    \* how often it was replaced
  job,        \* what the listing said of the file when the job was built
  part,       \* the file at destination.part
  dest,       \* the file at the destination
  runs,       \* how many times the job was started
  pc,         \* where the worker is
  linkNo,     \* link_attempt
  tryNo,      \* attempt_no of the retry loop
  action,     \* ResumeState::action
  body,       \* the response being streamed: its version, the next byte's position
  written,    \* download_body's written: the byte count of its last Progress event
  err,        \* the error the current attempt ends with
  result,     \* what download_job returned
  cancelled,  \* the cancellation token
  inFlight,   \* ProgressAggregator::in_flight
  finals      \* Finished and Failed{retrying: false} events of this run

disk   == <<part, dest>>
remote == <<cur, updates>>
events == <<inFlight, finals>>
call   == <<job, runs, cancelled>>
loops  == <<linkNo, tryNo>>
vars   == <<remote, disk, events, call, loops,
            pc, action, body, written, err, result>>

Outcomes  == {"Downloaded", "Resumed", "AlreadyComplete"}
Retryable == {"Transport", "InvalidContentRange", "SizeMismatch",
              "ChecksumMismatch", "RangeNotSatisfiable"}
Errors    == Retryable \cup
             {"Cancelled", "Io", "Api", "LinkExpired", "RateLimited",
              "ServiceUnavailable", "UnexpectedStatus"}
None      == "none"

Ended == {"done", "down"}
Steps == {"link", "api", "dir", "match", "attempt", "inspect", "reset",
          "reinspect", "finalize", "request", "open", "body", "verify",
          "discard", "install", "failed", "backoff"}

Job     == [want: Versions, mode: {"SizeOnly", "SizeAndChecksum"},
            checksum: BOOLEAN, href: BOOLEAN]
Actions == [kind: {"Start", "Resume", "Restart", "Finalize"}, offset: Nat]
Start   == [kind |-> "Start", offset |-> 0]
Body    == [of: Versions, at: Nat]

-----------------------------------------------------------------------------
(* Files *)

Empty   == [size |-> 0, data |-> Mixed]
Len(f)  == IF f = Absent THEN 0 ELSE f.size

\* The expected size and content, the file being compared with the listing.
Expected         == Size[job.want]
HasContent(f, v) == f # Absent /\ f.size = Size[v] /\ (f.size = 0 \/ f.data = v)
Prefix(f, v)     == f # Absent /\ f.size <= Size[v] /\ (f.size = 0 \/ f.data = v)

\* The file f with n bytes of version v, from position at on, written behind it.
Extended(f, v, at, n) ==
  IF n = 0 THEN f
  ELSE [size |-> Len(f) + n,
        data |-> IF at = Len(f) /\ (Len(f) = 0 \/ f.data = v) THEN v ELSE Mixed]

\* FileVerifier::verify: with ChecksumSpec::None every file passes.
Verify(f) == job.checksum => HasContent(f, job.want)

\* FileVerifier::file_matches.
FileMatches(f) ==
  /\ f # Absent
  /\ f.size = Expected
  /\ job.mode = "SizeAndChecksum" => Verify(f)

\* Mutant of Accepted: the checksum is never compared.
BugAccepted(f) == job.mode # "SizeAndChecksum" \/ f # Absent

\* The check both finalize_existing_part and verify_and_finalize make.
Accepted(f) == job.mode = "SizeAndChecksum" => Verify(f)

\* Mutant of DetermineState: the offset is computed the wrong way round.
BugDetermineState(existing, expected) ==
  IF existing = 0 THEN Start
  ELSE [kind |-> "Resume", offset |-> existing - expected]

\* ResumeStateManager::determine_state.
DetermineState(existing, expected) ==
  CASE existing = 0                           -> Start
    [] existing > expected                    -> [kind |-> "Restart", offset |-> 0]
    [] existing # 0 /\ existing = expected    -> [kind |-> "Finalize", offset |-> 0]
    [] existing # 0 /\ existing < expected    -> [kind |-> "Resume", offset |-> existing]

IsResuming == action.kind = "Resume"

-----------------------------------------------------------------------------
(* Leaving the loops *)

Goto(l) == pc' = l

\* ProgressAggregator::observe, on counters that wrap around.
Observe(started, ended) ==
  /\ inFlight' = (inFlight + started - ended) % Width
  /\ finals' = finals + ended

\* download_job returns r; n terminal events are emitted on the way.
Return(r, n) ==
  /\ Goto("done")
  /\ result' = r
  /\ Observe(0, n)
  /\ UNCHANGED loops

\* Mutant of DownloadToFailed: the final event goes out for every link.
BugDownloadToFailed(e) ==
  IF e = "LinkExpired" /\ linkNo < MaxLinkAttempts
  THEN linkNo' = linkNo + 1 /\ Goto("link") /\ UNCHANGED <<tryNo, result>> /\ Observe(0, 1)
  ELSE Return(e, 1)

\* download_to returned Err(e): a fresh link, or the job's final failure.
DownloadToFailed(e) ==
  \/ /\ e = "LinkExpired" /\ linkNo < MaxLinkAttempts
     /\ linkNo' = linkNo + 1
     /\ Goto("link")
     /\ UNCHANGED <<tryNo, result, events>>
  \/ /\ ~ (e = "LinkExpired" /\ linkNo < MaxLinkAttempts)
     /\ Return(e, 1)

\* The session ends with Err(e).
AttemptErr(e) ==
  /\ Goto("failed")
  /\ err' = e

\* The session first removes the partial file, then ends with Err(e).
DiscardThenErr(e) ==
  /\ Goto("discard")
  /\ err' = e

-----------------------------------------------------------------------------
(* download_job, download_to *)

\* DownloadLinkProvider::get_link: the listing's own link on the first attempt.
GetLink ==
  /\ pc = "link"
  /\ \/ /\ cancelled
        /\ Return("Cancelled", 0)
     \/ /\ ~cancelled
        /\ Goto(IF linkNo = 1 /\ job.href THEN "dir" ELSE "api")
        /\ UNCHANGED <<loops, result, events>>
  /\ UNCHANGED <<remote, disk, call, action, body, written, err>>

\* The API answers get_download_link; `?` leaves download_job with any error.
ApiReply ==
  /\ pc = "api"
  /\ \/ /\ Goto("dir")
        /\ UNCHANGED <<loops, result, events>>
     \/ \E e \in {"Api", "Transport"} \cup (IF cancelled THEN {"Cancelled"} ELSE {}) :
          Return(e, 0)
  /\ UNCHANGED <<remote, disk, call, action, body, written, err>>

EnsureDir ==
  /\ pc = "dir"
  /\ \/ /\ Goto("match")
        /\ UNCHANGED <<loops, result, events>>
     \/ DownloadToFailed("Io")
  /\ UNCHANGED <<remote, disk, call, action, body, written, err>>

\* download_to skips a file that is already there, without an event.  A
\* try_exists that fails counts as a missing file; any later I/O error ends it.
SkipMatching ==
  /\ pc = "match"
  /\ \/ /\ FileMatches(dest)
        /\ Return("AlreadyComplete", 0)
     \/ /\ tryNo' = 1
        /\ Goto("attempt")
        /\ UNCHANGED <<linkNo, result, events>>
     \/ DownloadToFailed("Io")
  /\ UNCHANGED <<remote, disk, call, action, body, written, err>>

-----------------------------------------------------------------------------
(* retry::run *)

BeginAttempt ==
  /\ pc = "attempt"
  /\ \/ /\ cancelled
        /\ DownloadToFailed("Cancelled")
     \/ /\ ~cancelled
        /\ Goto("inspect")
        /\ UNCHANGED <<loops, result, events>>
  /\ UNCHANGED <<remote, disk, call, action, body, written, err>>

\* RetryPolicy::default_conditions, and the last attempt.
MayRetry(e) == e \in Retryable /\ tryNo < MaxAttempts

EndAttempt ==
  /\ pc = "failed"
  /\ \/ /\ MayRetry(err)
        /\ Goto("backoff")
        /\ UNCHANGED <<loops, result, events>>
     \/ /\ ~MayRetry(err)
        /\ DownloadToFailed(err)
  /\ UNCHANGED <<remote, disk, call, action, body, written, err>>

\* Mutant of Backoff: the attempts are not counted.
BugBackoff ==
  /\ pc = "backoff"
  /\ Goto("attempt")
  /\ UNCHANGED <<remote, disk, events, call, loops, action, body, written, err, result>>

\* Cancel::sleep between two attempts.
Backoff ==
  /\ pc = "backoff"
  /\ \/ /\ cancelled
        /\ DownloadToFailed("Cancelled")
     \/ /\ ~cancelled
        /\ tryNo' = tryNo + 1
        /\ Goto("attempt")
        /\ UNCHANGED <<linkNo, result, events>>
  /\ UNCHANGED <<remote, disk, call, action, body, written, err>>

-----------------------------------------------------------------------------
(* DownloadSession::run *)

\* The session's Started event, which only an active emitter emits.
EmitStarted == Observe(IF Observed THEN 1 ELSE 0, 0)

\* ResumeManager::inspect, and the branch of run that the action chooses.
Inspect ==
  /\ pc = "inspect"
  /\ \/ /\ action' = DetermineState(Len(part), Expected)
        /\ \/ action'.kind = "Finalize" /\ Goto("finalize") /\ UNCHANGED events
           \/ action'.kind = "Restart" /\ Goto("reset") /\ UNCHANGED events
           \/ action'.kind \in {"Start", "Resume"} /\ Goto("request") /\ EmitStarted
        /\ UNCHANGED err
     \/ /\ AttemptErr("Io")
        /\ UNCHANGED <<action, events>>
  /\ UNCHANGED <<remote, disk, call, loops, body, written, result>>

\* A partial file that is too large is removed first.
Reset ==
  /\ pc = "reset"
  /\ \/ /\ part' = Absent
        /\ Goto("reinspect")
        /\ UNCHANGED err
     \/ /\ AttemptErr("Io")
        /\ UNCHANGED part
  /\ UNCHANGED <<remote, dest, events, call, loops, action, body, written, result>>

Reinspect ==
  /\ pc = "reinspect"
  /\ \/ /\ action' = DetermineState(Len(part), Expected)
        /\ Goto("request")
        /\ EmitStarted
        /\ UNCHANGED err
     \/ /\ AttemptErr("Io")
        /\ UNCHANGED <<action, events>>
  /\ UNCHANGED <<remote, disk, call, loops, body, written, result>>

\* finalize_existing_part up to its rename.
FinalizeExisting ==
  /\ pc = "finalize"
  /\ \/ Accepted(part) /\ Goto("install") /\ UNCHANGED err
     \/ ~Accepted(part) /\ DiscardThenErr("ChecksumMismatch")
     \/ AttemptErr("Io")
  /\ UNCHANGED <<remote, disk, events, call, loops, action, body, written, result>>

\* Discarding the partial file before an error leaves the session.
Discard ==
  /\ pc = "discard"
  /\ Goto("failed")
  /\ \/ part' = Absent /\ UNCHANGED err
     \/ err' = "Io" /\ UNCHANGED part
  /\ UNCHANGED <<remote, dest, events, call, loops, action, body, written, result>>

\* The response's body starts at position at of the version the server holds.
Accept(act, at) ==
  /\ action' = act
  /\ body' = [of |-> cur, at |-> at]
  /\ Goto("open")
  /\ UNCHANGED err

\* Mutant of ValidateResponse: the start of the Content-Range is not compared.
BugValidateResponse ==
  \/ Accept(action, 0)
  \/ IsResuming /\ Size[cur] = Expected /\ Accept(action, action.offset)

\* ResumeStateManager::validate_response on a response with a 2xx status.
ValidateResponse ==
  \/ ~IsResuming /\ Accept(action, 0)
  \/ /\ IsResuming
     /\ \/ Size[cur] = Expected /\ Accept(action, action.offset)        \* 206
        \/ DiscardThenErr("InvalidContentRange") /\ UNCHANGED <<action, body>>
        \/ Accept([kind |-> "Restart", offset |-> 0], 0)                \* 200
        \/ OddStatus /\ Accept(action, 0)                               \* other 2xx

\* map_download_error, and the reset that only a 416 gets.
DownloadError ==
  /\ \/ DiscardThenErr("RangeNotSatisfiable")
     \/ \E e \in {"Transport", "LinkExpired", "RateLimited",
                  "ServiceUnavailable", "UnexpectedStatus"} : AttemptErr(e)
  /\ UNCHANGED <<action, body>>

\* send_request: the server may answer anything, whatever was asked.
Request ==
  /\ pc = "request"
  /\ ValidateResponse \/ DownloadError
  /\ UNCHANGED <<remote, disk, events, call, loops, written, result>>

\* Mutant of Open: the partial file is always truncated.
BugOpenTruncates ==
  /\ pc = "open"
  /\ part' = Empty
  /\ written' = action.offset
  /\ Goto("body")
  /\ UNCHANGED <<remote, dest, events, call, loops, action, body, err, result>>

\* Mutant of Open: the byte count starts at zero when resuming too.
BugOpenCountsFromZero ==
  /\ pc = "open"
  /\ part' = IF IsResuming THEN part ELSE Empty
  /\ written' = 0
  /\ Goto("body")
  /\ UNCHANGED <<remote, dest, events, call, loops, action, body, err, result>>

\* ResumeFileManager::open_for_write.
Open ==
  /\ pc = "open"
  /\ \/ /\ part' = IF IsResuming /\ part # Absent THEN part ELSE Empty
        /\ written' = action.offset
        /\ Goto("body")
        /\ UNCHANGED err
     \/ /\ AttemptErr("Io")
        /\ UNCHANGED <<part, written>>
  /\ UNCHANGED <<remote, dest, events, call, loops, action, body, result>>

\* n bytes reach the file.
Write(n) ==
  /\ part' = Extended(part, body.of, body.at, n)
  /\ body' = [body EXCEPT !.at = @ + n]

\* download_body, one chunk: the token is looked at when the chunk is there,
\* a failed write may have written some of it.
ReceiveChunk ==
  /\ pc = "body"
  /\ \E n \in 1..(Size[body.of] - body.at) :
       \/ /\ cancelled
          /\ AttemptErr("Cancelled")
          /\ UNCHANGED <<part, body, written>>
       \/ /\ ~cancelled
          /\ Write(n)
          /\ written' = IF Observed THEN written + n ELSE written
          /\ UNCHANGED <<pc, err>>
       \/ /\ ~cancelled
          /\ \E m \in 0..(n - 1) : Write(m)
          /\ AttemptErr("Io")
          /\ UNCHANGED written
  /\ UNCHANGED <<remote, dest, events, call, loops, action, result>>

\* The stream yields an error, which the check of the token precedes.
StreamError ==
  /\ pc = "body"
  /\ AttemptErr(IF cancelled THEN "Cancelled" ELSE "Transport")
  /\ UNCHANGED <<remote, disk, events, call, loops, action, body, written, result>>

\* The stream ends, whether or not all bytes came, and the file is flushed.
EndOfStream ==
  /\ pc = "body"
  /\ \/ Goto("verify") /\ UNCHANGED err
     \/ AttemptErr("Io")
  /\ UNCHANGED <<remote, disk, events, call, loops, action, body, written, result>>

\* Mutant of VerifyPart: the size is not compared.
BugVerifyPart ==
  /\ pc = "verify"
  /\ IF Accepted(part) THEN Goto("install") /\ UNCHANGED err
     ELSE DiscardThenErr("ChecksumMismatch")
  /\ UNCHANGED <<remote, disk, events, call, loops, action, body, written, result>>

\* verify_and_finalize up to its rename.
VerifyPart ==
  /\ pc = "verify"
  /\ \/ /\ Len(part) # Expected
        /\ AttemptErr("SizeMismatch")
     \/ /\ Len(part) = Expected
        /\ \/ Accepted(part) /\ Goto("install") /\ UNCHANGED err
           \/ ~Accepted(part) /\ DiscardThenErr("ChecksumMismatch")
     \/ AttemptErr("Io")
  /\ UNCHANGED <<remote, disk, events, call, loops, action, body, written, result>>

\* On Windows rename replaces nothing: an old file is removed first.
RemoveOld ==
  /\ pc = "install"
  /\ Windows /\ dest # Absent
  /\ dest' = Absent
  /\ UNCHANGED <<remote, part, events, call, loops, pc, action, body, written, err, result>>

\* The rename, the session's last events and its outcome.
Install ==
  /\ pc = "install"
  /\ ~ (Windows /\ dest # Absent)
  /\ dest' = part
  /\ part' = Absent
  /\ Goto("done")
  /\ \/ /\ action.kind = "Finalize"
        /\ result' = "AlreadyComplete"
        /\ IF Observed THEN Observe(1, 1) ELSE UNCHANGED events
     \/ /\ action.kind # "Finalize"
        /\ result' = IF IsResuming THEN "Resumed" ELSE "Downloaded"
        /\ IF Observed THEN Observe(0, 1) ELSE UNCHANGED events
  /\ UNCHANGED <<remote, call, loops, action, body, written, err>>

\* try_exists, remove_file or rename fails.
InstallError ==
  /\ pc = "install"
  /\ AttemptErr("Io")
  /\ UNCHANGED <<remote, disk, events, call, loops, action, body, written, result>>

-----------------------------------------------------------------------------
(* The user, the operating system and the remote side *)

Cancel ==
  /\ ~cancelled
  /\ pc \notin Ended
  /\ cancelled' = TRUE
  /\ UNCHANGED <<remote, disk, events, loops, job, runs,
                 pc, action, body, written, err, result>>

\* The owner of the public folder replaces the file.
RemoteUpdate ==
  /\ updates < MaxUpdates
  /\ \E v \in Versions \ {cur} : cur' = v
  /\ updates' = updates + 1
  /\ UNCHANGED <<disk, events, call, loops, pc, action, body, written, err, result>>

\* The process is killed; what it wrote stays.
Crash ==
  /\ pc \notin Ended
  /\ Goto("down")
  /\ UNCHANGED <<remote, disk, events, call, loops, action, body, written, err, result>>

\* The locals of a job that starts.
FreshRun(r) ==
  /\ runs' = r
  /\ cancelled' = FALSE
  /\ Goto("link")
  /\ linkNo' = 1
  /\ tryNo' = 1
  /\ action' = Start
  /\ body' = [of |-> cur, at |-> 0]
  /\ written' = 0
  /\ err' = None
  /\ result' = None
  /\ inFlight' = 0
  /\ finals' = 0

\* The tool is started again and lists the folder anew.
Rerun ==
  /\ pc \in Ended
  /\ runs < MaxRuns
  /\ FreshRun(runs + 1)
  /\ \E c, h \in BOOLEAN :
       job' = [job EXCEPT !.want = cur, !.checksum = c, !.href = h]
  /\ UNCHANGED <<remote, disk>>

-----------------------------------------------------------------------------
Complete(v) == [size |-> Size[v], data |-> v]

\* The destination may hold an earlier download of some version.
Init ==
  /\ cur \in Versions
  /\ updates = 0
  /\ job \in {j \in Job : j.want = cur}
  /\ part = Absent
  /\ dest \in {Absent} \cup {Complete(v) : v \in Versions}
  /\ runs = 1
  /\ cancelled = FALSE
  /\ pc = "link"
  /\ linkNo = 1
  /\ tryNo = 1
  /\ action = Start
  /\ body = [of |-> cur, at |-> 0]
  /\ written = 0
  /\ err = None
  /\ result = None
  /\ inFlight = 0
  /\ finals = 0

\* What the worker does by itself, and what it does when the server is heard of.
Worker ==
  \/ GetLink \/ EnsureDir \/ SkipMatching
  \/ BeginAttempt \/ EndAttempt \/ Backoff
  \/ Inspect \/ Reset \/ Reinspect \/ FinalizeExisting \/ Discard \/ Open
  \/ VerifyPart \/ RemoveOld \/ Install \/ InstallError

Server == ApiReply \/ Request \/ ReceiveChunk \/ StreamError \/ EndOfStream

Environment == Cancel \/ RemoteUpdate \/ Crash \/ Rerun

Next == Worker \/ Server \/ Environment

Spec == Init /\ [][Next]_vars

\* The runtime schedules the worker, and the server never leaves it waiting.
LiveSpec == Spec /\ WF_vars(Worker \/ Server)

-----------------------------------------------------------------------------
(* Properties *)

TypeOK ==
  /\ cur \in Versions /\ updates \in Nat
  /\ job \in Job
  /\ part \in File \cup {Absent}
  /\ dest \in File \cup {Absent}
  /\ runs \in Nat /\ cancelled \in BOOLEAN
  /\ pc \in Steps \cup Ended
  /\ linkNo \in 1..MaxLinkAttempts
  /\ tryNo \in 1..MaxAttempts
  /\ action \in Actions
  /\ body \in Body
  /\ written \in Nat
  /\ err \in Errors \cup {None}
  /\ result \in Outcomes \cup Errors \cup {None}
  /\ inFlight \in 0..(Width - 1)
  /\ finals \in Nat

\* The destination only ever changes to a partial file that the skip check of a
\* later run would accept (size, and checksum if asked for), moved there whole;
\* on Windows the old file may go first, while that partial file waits.
InstalledOnlyVerified ==
  [][dest' # dest => /\ FileMatches(part)
                     /\ \/ dest' = part /\ part' = Absent
                        \/ Windows /\ dest' = Absent /\ part' = part]_vars

\* A job that reports success has left a file at the destination that matches
\* the listing it was started from, whatever happened to the remote file, the
\* server's answers and the runs before.
OkMeansThere == pc = "done" /\ result \in Outcomes => FileMatches(dest)

\* While the remote file is not replaced and a Range request is answered with
\* 200 or 206, even the SizeOnly mode installs nothing but the listed content:
\* resuming never repeats, skips or mixes bytes.
FaithfulWhenUnchanged ==
  [][dest' # dest /\ dest' # Absent /\ updates = 0 /\ ~OddStatus
       => HasContent(dest', job.want)]_vars

\* Bytes of the listed version already in the partial file are given up only
\* for a reason the server gave: a 416, a wrong Content-Range, a 200.
KeepsGoodBytes ==
  [][Prefix(part, job.want) /\ Len(part') < Len(part)
       => \/ dest' = part
          \/ pc = "discard" /\ err \in {"RangeNotSatisfiable", "InvalidContentRange"}
          \/ pc = "open" /\ action.kind = "Restart"]_vars

\* The cumulative byte count of the Progress events is the length of the
\* partial file, over retries, resumes and restarts.
ProgressMatchesPart == Observed /\ pc = "body" => written = Len(part)

\* An observer sees at most one terminal event of a job, as its last event.
FinalsMatch == finals <= 1 /\ (finals = 1 => pc \in Ended)

\* Every run of a job ends: neither loop goes on for ever.
Terminates == pc \notin Ended ~> pc \in Ended

-----------------------------------------------------------------------------
(* What the documentation says and the code does not do *)

\* AggregateSnapshot: in_flight counts the files started but not yet finished
\* or failed, so a job that has returned is not among them.
InFlightSettles == pc = "done" => inFlight = 0

\* send_request: the response is validated to honour the range request.
RangeIsHonoured == pc \in {"open", "body"} /\ IsResuming => body.at >= action.offset

=============================================================================
