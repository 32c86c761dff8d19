# A verification project for yashare

yashare is a Rust library that lists and downloads public Yandex Disk folders.
Its core is asynchronous: listing workers walk the remote tree in parallel, the
files they find become download jobs, a pool of workers downloads them, and
each download can be resumed from a `.part` file that a killed run left behind.
Around that core stand a client with its API requests and the observer who is
told how things go. This project models them in TLA+, checks them with TLC on
small instances and proves theorems about one file's download, the client and its
requests, both walks, a whole call, alone and composed with its walk, and what the
observer of one is told, for all values of the constants, with TLAPS.

Paths below are relative to the repository root; `session.rs:338` stands for
`src/download/transport/session.rs`, line 338, and so on.

## 1. The system

### 1.1 Components

| Component | Source | State it keeps | Operations |
|---|---|---|---|
| Download session | `download/transport/session.rs` | the response, the open part file, the byte count | `run`: inspect, request, stream, verify, rename |
| Resume state, part file | `download/resume/{state,file,manager}.rs` | the action and offset decided; the file `destination.part` | `determine_state`, `validate_response`, `open_for_write`, `remove_if_exists` |
| Download worker | `download/execution/worker.rs` | link and attempt counters | `run`, `download_job`, `download_to`, `try_download` |
| Link provider | `download/transport/link_provider.rs` | none | `get_link` |
| Retry | `retry/*.rs` | the attempt number, the delays | `run`, `decide`, `delay` |
| Download pool | `download/concurrency/pool.rs` | the job channel, the join handles | `spawn`, `submit`, `join` |
| `download_all` | `client/mod.rs` | the stream, the pool, the ticker's handle | one call |
| Statistics, result | `download/model/*.rs` | relaxed atomic counters; the list of failures, behind a mutex | `record`, `record_failure`, `report` |
| Parallel walker | `walker/parallel.rs` | task channel, item channel, `pending`, `scanned`, `discovered_*` | `into_stream`, `dispatch`, `finish` |
| Sequential walker | `walker/sequential.rs` | a stack of directories | `into_stream` |
| Progress, aggregator, ticker | `download/{progress,aggregator}.rs` | per-job byte counts, `in_flight`, outcome counters | `emit`, `observe`, `snapshot`, the ticker task |
| Cancellation | `cancel.rs` | one token | `check`, `race`, `sleep`, `spawn` (SIGINT) |
| File verifier | `fs/{verifier,checksum}.rs` | none | `file_matches`, `verify` |
| Safe paths | `fs/path.rs` | none | `safe_relative_path`, `safe_filename_component` |
| API client, HTTP client | `api/*.rs` | the fields to ask for | `resource_meta`, `list_page`, `get_download_link`, `get_json` |
| Error model | `error/*.rs`, `api/error_mapping.rs` | none | classification for retries |
| Resource model, fields | `model/*.rs` | none | the fields asked for, the members an answer is read into |
| Public key | `model/public_key.rs` | none | `parse` |
| Client builder | `client/builder.rs` | configuration | setters, `build` |

### 1.2 How they interact

    download_all ── into_stream ──> ParallelWalker: N listing tasks
         │  <── bounded item channel (2000) ──┘   sharing an unbounded task channel
         │                                        and the atomic counter `pending`
         ├── submit ──> bounded job channel (workers * 100) ──> pool of DownloadWorkers
         │                                                        │ download_job
         │                                     link loop ─> skip check ─> retry loop
         │                                                        ─> DownloadSession
         ├── join: drop the sender, await the workers
         └── ticker: a task of its own, aborted before the return

All of them share the cancellation token and, through `Progress`, the observer's
bounded channel and the aggregator's atomic counters. Workers share the counters
of `DownloadStats`, which are relaxed atomics, and the list of failures, which is
behind a mutex: a failure is counted in one and listed in the other, in two steps.
The caller counts in the same statistics and has a list of its own. The only state
that outlives a process is on disk: the destination and its `.part` file.

### 1.3 What is hard, and what makes each part correct

* **One file.** A process can die between any two file operations; the remote
  file can be replaced between two runs, two attempts or two requests; the
  server may answer a Range request with 200, 206, 416, a wrong
  `Content-Range` or anything else; two loops (links, attempts) are nested.
  Correct means: what is at the destination after a success is what the listing
  promised; nothing unverified is ever moved there; good bytes are not thrown
  away; the observer's byte counts are right and its terminal event is one.
* **The walk.** Nobody knows when the walk is over but an atomic counter that
  several tasks raise and lower. Correct means: it closes the channels when,
  and only when, no work is left; the consumer gets each entry once; all tasks
  end even if the consumer leaves or the token fires while the channel is full.
* **One call.** Caller, workers, walk and ticker end in any order. Correct
  means: each file is at one place until it is a success or a failure; a
  returned result is complete and final, and lists the failures it counts; the
  call ends.
* **One API request.** It may be answered, refused, rate limited or cut off at
  each of its attempts, and cancelled at any await. Correct means: nothing is
  sent before the time the server named or after the token fired; what is
  returned is about the last exchange, not an earlier one.
* **What a client works with.** A path from the share becomes a path on disk in
  several steps whose order matters; a key is decoded as a text and again as a
  query value; the fields asked for, those an answer has and those the code
  has members for are three lists. Correct means: no job leaves the destination
  directory, names that need no cleaning stay as they are, a key is read as it was written,
  nothing the code relies on is missing from what it asks for.
* **The observer.** Jobs, walk and ticker feed counters and a bounded channel, one
  atomic operation at a time, and the observer reads late or never. Correct
  means: a snapshot is not behind the events sent, or dropped, before it, and its
  counters fit its totals; in the end the counters and the returned statistics
  agree. That nobody waits for the observer is plain from `try_send`
  (`progress.rs:247`), which is modelled so and is no property.

The full list of hazards with their lines is in `PROJECT.json`.

## 2. The modules

| Module | Models | Abstract about |
|---|---|---|
| `FileDownload` | one job: link loop, skip check, retry loop, session, part file, crash and rerun, cancellation, remote updates, the job's events | bytes: a file is a length and the content its bytes belong to; hashing: equality of content |
| `FileDownloadProofs` | theorems: types, what is installed, what a success means, terminal events, byte counts, resuming is faithful, good bytes are kept | |
| `Fields` | the fields of a request, the structures an answer is read into | a field is the path of its names |
| `ApiClient` | one API request: sending, mapping an error response, reading the body, decoding, the retry loop, cancellation | a response is its status, its hint, its kind of body and its fields |
| `SafePath` | the way of a remote path to a path below the destination | a character for each kind the code tells apart |
| `SafePathProofs` | theorems: every path is refused or becomes plain file names; one of plain names without whitespace at their ends is kept and meets no other such path | |
| `PublicKey` | `PublicKey::parse` | a text is a sequence of tokens, each encoded so many times |
| `ShareClient` | the client as its user has it: builder, configuration, field selection, key parsing, the metadata calls, the root lookup, the job of a listed file; composes `ApiClient`, `Fields`, `SafePath`, `PublicKey` | setters and selections from small sets |
| `ShareClientProofs` | theorems: retries, cancellation, results, fields, destinations, keys | |
| `RemoteTree` | the remote folder as the listing endpoint shows it, for both walkers | entries are model values |
| `WalkStream` | the abstract specification of a walk: what its reader is promised | order, pages, workers |
| `ParallelWalker` | the listing workers, both channels, `pending`, the discovery events, the consumer of the stream; implements `WalkStream` | a page is a directory and an offset |
| `ParallelWalkerProofs` | theorems: the counter is exact, closing loses nothing, the walk implements `WalkStream`, the final counts | |
| `SequentialWalker` | the walk of one task: stack, current directory, page buffer; implements `WalkStream` | the consumer asks as soon as it can |
| `SequentialWalkerProofs` | theorems: the walk implements `WalkStream`, one directory after the other | |
| `DownloadAll` | caller, job channel, pool, workers' loop, statistics and failures, ticker's life; uses `WalkStream` | a job is its outcome |
| `DownloadAllProofs` | theorems: every file accounted for, failures, the result | |
| `DownloadRun` | `download_all` with the walk it runs on: `DownloadAll` and `ParallelWalker` composed, their joint steps, one token for both | as its parts |
| `DownloadRunProofs` | theorems: the composition implements both parts, errors of the walk surface, the result is what the walk found, nothing is left | |
| `Observer` | the events of several jobs, of the walk and of the ticker, the aggregator's counters, the snapshots, the observer's channel, `DownloadStats` | a job is its outcome, the walk one actor |
| `ObserverProofs` | theorems: snapshots, totals, agreement with the statistics | |
| `MC...` | the instances TLC checks | |

### 2.1 FileDownload and the code

One action is what happens between two awaits. `pc` names the await the worker
is at:

| `pc` | Where in the code | Action(s) |
|---|---|---|
| `link`, `api` | `get_link`, `get_download_link` | `GetLink`, `ApiReply` |
| `dir`, `match` | `ensure_dir`, `file_matches` in `download_to` | `EnsureDir`, `SkipMatching` |
| `attempt`, `failed`, `backoff` | `retry::run` | `BeginAttempt`, `EndAttempt`, `Backoff` |
| `inspect`, `reset`, `reinspect` | `session.rs:108-146` | `Inspect`, `Reset`, `Reinspect` |
| `finalize` | `finalize_existing_part` | `FinalizeExisting` |
| `request` | `send_request` and `validate_response` | `Request` |
| `open`, `body` | `open_for_write`, `download_body` | `Open`, `ReceiveChunk`, `StreamError`, `EndOfStream` |
| `verify`, `install` | `verify_and_finalize` | `VerifyPart`, `RemoveOld`, `Install`, `InstallError` |
| `discard` | the part file is removed before an error is returned | `Discard` |
| `done`, `down` | `download_job` has returned; the process is dead | `Rerun` |

Every await that can fail with an I/O error may do so (`AttemptErr("Io")`).
`DownloadToFailed` is the branch of `download_job` that either asks for a fresh
link or ends the job with its final event. The token is a variable that `Cancel`
sets at any time; it is looked at exactly where the code calls `check` or
`race`. Both ways to the rename, of a part file that was complete already and of
one just downloaded, pass through `pc = "install"`: `session.rs:315-320` and
`session.rs:366-371` are the same steps.

Bytes. A file is `[size, data]`, where `data` is the version all its bytes
belong to, at their right positions, or `Mixed`. `Extended` keeps that when
bytes of a version are written at its end: they continue the content only if
the body's position is the file's length and the version is the same. So
repeated, skipped and mixed bytes all show as `Mixed`, and a length is all the
program itself can see of a file unless it hashes it.

### 2.2 ParallelWalker and the code

`Step(w)` is one step of worker `w` on shared state: a receive, an atomic
operation, a send, a close, an emitted event. `pending` is raised (`CountTask`)
in another step than the task is sent (`SendTask`), as in `parallel.rs:276-281`;
`scanned.fetch_add` (`Scan`) is another step than the event that carries its
result (`Report`). `FurtherPages` is the paging rule: all other pages at the
first one if the answer carries a total, the next page after a full page if
not. A worker may get an error or a resource without a listing. The consumer is
the loop of `download_all`: it drops the stream on an `Err` item and leaves the
loop when cancelled, by itself or because the download workers are gone (`Stop`);
the stream lives on until the pool is joined (`Leave`).

### 2.3 WalkStream, SequentialWalker and the code

`WalkStream` knows three things: what was given, whether the stream is still
open, and whether a page was given up without an error (`gap`). `Give` an item
not given before, `End` when all are given or there is a gap, `Drop` at an error
or when the reader leaves, `Skip` to open a gap. Both walkers are shown to
implement it (`KeepsPromises` and `SequentialKeepsPromises`, each `Stream!Spec`), with

| `WalkStream` | `ParallelWalker` | `SequentialWalker` |
|---|---|---|
| `given` | `seen`, what the consumer received | the occurrences in `order` |
| `stream` | `consumer`, with "reading" and "stopped" as "open" | `pc`, with "loop" and "list" as "open" |
| `gap` | `"skipped" \in partial` | `partial` |

A page that failed with an error is not a gap: the error must reach the
consumer. In the parallel walk that is a race of the failing worker's send
with another worker's close, decided by the counter.

`SequentialWalker` has one action per way through a turn of `next_item`'s loop
(`Stop`, `GiveItem`, `LeaveDirectory`, `AskForPage`, `Exhausted`) and one for the
answer it awaits (`Answer`).

### 2.4 DownloadAll and the code

The caller's steps follow `client/mod.rs:294-360`. Its view of the walk is
`WalkStream` by instance. What the loop does with an item (`Handle`), with the end
(`LoopEnds`) and with an error of the stream (`LoopFails`) are operators of their
own: `Pull` is `Stream!Give` with `Handle`, `WalkEnded` is `Stream!End` with
`LoopEnds`, `WalkFailed` is `Stream!Drop` with `LoopFails`. The return after a
cancellation drops the stream, too, and `PageSkipped` is a listing worker's
`Stream!Skip`, which may still come then. `Submit` waits for room in the
channel and fails when no receiver is left. `LoopFails` is the `?` on an `Err`
item: it drops the pool (and with it the sender) and returns, while workers and
ticker run on. `Receive` is the race of the token with the channel, in which the
token wins; a closed channel is drained first.

A failure takes two steps, as in the code: `FinishJob` is the end of `download_job` with
`record` or `record_failure`, `ListFailure` the push under the mutex (`worker.rs:132`,
`worker.rs:142`). Between the two the worker is at "list", or at "last" if the failure
is the `Cancelled` that ends it. So has the caller: `Handle` counts a rejected item,
`ListSkipped` puts it into the caller's list (`client/mod.rs:347` and `:349`). The
counter and the lists disagree in between, and `FailuresMatch` speaks of the
return. `record` itself adds to three atomics; these are one step, since nobody
reads the statistics before the return.

### 2.5 DownloadRun and the code

`DownloadRun` extends `ParallelWalker` and takes `DownloadAll` by instance: the
listing workers' `Workers` are beside the pool's `Downloaders`, the entries the
consumer of the walk has seen are what the call was given, and the call's stream
and gap are the `State` and `Gap` that the walk shows `WalkStream`.

| Step | `ParallelWalker` | `DownloadAll` |
|---|---|---|
| `Begin` | | `Begin` |
| `TryNext` | `Receive` | `Handle`, `LoopEnds` or `LoopFails`, by what was received |
| `Submit` | nothing, or `Stop` if it fails | `Submit` |
| `ListSkipped` | | `ListSkipped` |
| `Join` | nothing, or `Leave` if the stream has not ended | `Join` |
| `List(w)` | `Step(w)` | nothing but what it sees: a gap |
| `Download(w)` | | `Receive(w)`, `FinishJob(w)` or `ListFailure(w)` |
| `UserCancels` | `Cancel` | `Cancel` |

So an item is received and handled in one step, and a failing `submit` ends the
loop in one step with the consumer's `Stop`. The listing workers run from the
first pull (`Walking`), and on after the return when an `Err` item or a
cancellation dropped the stream.

### 2.6 ApiClient, ShareClient and the code

| `pc` | Where in the code | Action(s) |
|---|---|---|
| `idle` | no request under way | `GetPublicResource` |
| `attempt` | top of the loop in `retry::run` | `BeginAttempt` |
| `send` | `HttpClient::send` | `SendFails`, `Answer` |
| `errorBody` | `map_error_response` reads the body | `ReadErrorBody`, `ErrorBodyBreaks` |
| `body` | `read_body`, then `from_slice` | `ReadBody`, `BodyBreaks` |
| `sleep` | `Cancel::sleep` | `Sleep` |
| `done` | the request has returned | |

`Fail` is the end of an attempt in the retry loop: `Delays` holds what the policy
makes of the error, none for `Abort`. The token is looked at where the code
does: before an attempt, in `read_body` and in the sleep, and neither while the
request is sent nor while an error response is read.

`ShareClient` lets its user do what the types allow. `SetFields` needs the
client for itself (`&mut self`), so no request is under way. `Request` with an API
base that cannot carry path segments ends in `InvalidPath` before anything is
sent. `Finish` is what a call does with the result: `ResolveRootPath` for the root,
nothing for the others. `MakeJob` is the body of `download_all`'s loop for a listed
file, up to the job: the check of the type, then `DownloadJob::for_download`.
`TakeResult` is the user's: the next call starts afresh.

A path is a sequence of characters of the kinds `path.rs` tells apart: letters,
separators and the other invalid characters, dots, and of whitespace the space,
a control that is whitespace, and any other (`nbsp`, as U+00A0 and U+3000). `trim()`
removes all three, the last step of the cleaning only spaces and dots, and the
replacement concerns the control. `FileName` says what comes out, `CleanName` what
goes in and comes out the same: a `FileName` with no whitespace at its ends, so
neither "\u00A0a" nor "a\u3000" is clean, and both become "a". A key is a
sequence of tokens `[c, esc]`: decoding takes one level of encoding away
(`PercentDecode`), and the query's parser turns a plain `+` into a blank first.

### 2.7 Observer and the code

The counters are atomics used one at a time, so an emission is a sequence of
operations in `todo[a]`, and `Operate(a)` does the first of them: between two, any
other actor may come. `Emit` is `ProgressEmitter::emit`: first `observe`, then the
send; a tick is seven loads and a send that goes past the counters. `Succeed` is
what the worker does after the session: `note_bytes_done`, then `record` on
`DownloadStats`. `GiveUp` has two ways: if the request for a fresh link failed, the
job ends without an event. The walk's tasks are one actor; `Scan` may come at any
time, so their order does not matter here. The ticker ends with `Abort`, when the
call returns.

## 3. The runs

| Run | Question | Instance |
|---|---|---|
| `file_safety` | Is what is installed, kept, counted and announced right, over two runs with a crash, a cancellation and a remote update anywhere, where rename does not replace (Windows)? | 2 versions of length 2, 2 attempts, 2 links, any 2xx |
| `file_faithful` | Does resuming assemble the listed content although only lengths are compared, and do both loops end? | lengths 3 and 2, 2 runs, 2 attempts, 2 links, an update, no observer |
| `walk` | Does the counter close the walk at the right moment, does the walk implement `WalkStream`, do all tasks end? | 2 workers, a directory of two pages with a total, one with a full page and none, item channel of 1 |
| `walk_sequential` | Does the walk of one task implement `WalkStream`, one directory after the other, and end? | three levels, directories of one, two and three pages, with a total and without, one empty |
| `all` | Over any walk that keeps its promises: is each file at one place, does the result list what it counts, and is it final, also after a cancellation? | 2 workers, 4 files, a rejected file, a directory, job channel of 1 |
| `run` | Over the parallel walk itself: do its errors surface, is the result what it found, does a good end leave nothing of it, do both parts see what their models assume, and do the call and all tasks end? | 2 listing workers, 2 download workers, 2 directories, 3 files of which one is rejected, both channels of 1 |
| `client` | Are requests repeated as the server asks, ended by the token and by the timeout, and are the values the calls work with right? | 3 attempts, one setter, three field selections, paths of up to 3 characters, 0 to 2 levels of encoding |
| `observer` | Are snapshots and counters right while everybody changes them, whatever the observer reads? | 2 files, one failed attempt each, one tick, a channel of 1 |
| `file_in_flight`, `file_range`, `all_ticker`, `api_link` | What a comment promises and the code does not do (section 5) | smallest instances that show it |

Each property of a passing run has a mutant: a plausible bug of the code, placed
in the module just before the definition it changes (`BugOpenTruncates`, ...),
with which TLC finds the property violated on the same instance.

### 3.1 Bounds and why they are enough

* `Size`: with lengths 2 and 3 a part file can be missing, empty, a proper prefix
  of one byte or of two, complete, and, after the remote file was replaced by a
  shorter one (`file_faithful`), too long; after one of the same length
  (`file_safety`) it is wrong and looks right. The theorems have every length. The
  four branches of `determine_state` compare lengths only. `file_faithful` has no
  observer: its counters only make the loops' cycles longer.
* `MaxAttempts = 2`, `MaxLinkAttempts = 2`: the first, a further and the last turn
  of each loop. In the code the defaults are 8 and 3.
* `MaxRuns = 2`: what a killed run left is picked up by the next one. A third
  run finds nothing a second one could not: the only state passed on is the
  two files.
* `MaxUpdates = 1`: bytes of an old and of a new version may meet.
* `Width = 8` instead of 2^64: the wrap of `in_flight` is reached by one
  unmatched event; 8 is more than the number of events of two runs.
* `PageSize = 2`, `ItemBuffer = 1`, 2 workers: pages that are full and not full,
  a channel that is full as soon as anything is in it, and a worker that closes
  while the other is idle, listing or waiting for room. Each directory of
  `walk` has at most two pages; those of `walk_sequential` have none to three, so
  that a directory ends with a full page, a short one and an empty one.
* `Capacity = 1` with four files and two workers: the caller waits for room
  while jobs are running and the user cancels.
* `run`: of two directories and two listing workers each is busy with one while
  the other fails, closes or waits for room; three files keep both downloaders
  busy with the third rejected, and the second directory is listed without a total
  from a full page on. With both channels of 1 the chain from a listing worker to
  a downloader is full at every link.
* `client`: the statuses 200, 404 and 429 stand for a success, an error that ends
  the request and one that is waited out; 423 and 503 take the way of 429. The
  hint of 100 s is longer than any backoff (60 s at most), so a backoff in its
  place shows. Three attempts: the first, one after a wait, and the last. Paths
  have up to three characters, one of each kind: enough for a separator between
  two components, for dots and blanks at an end in each order, and for a name
  that is reserved only after cleaning (what holds of longer ones is proved,
  section 4.2). Texts of keys are each form the documentation of `PublicKey`
  names and their near misses, encoded up to twice.
* `observer`: two jobs suffice for a counter and a total to be changed between two
  loads of a snapshot; with a channel of 1 every second send finds it full unless
  the observer reads. One tick: snapshots do not depend on each other.

Symmetry (workers, files) is used only in the runs that check no liveness.

### 3.2 Fairness

* `FileDownload!LiveSpec`: `WF(Worker \/ Server)`: tokio polls a ready task, and
  the server answers or the connection breaks. The second half is not in the
  code, which sets no timeout by default: a server that falls silent holds a
  job, a cancelled one too (section 5).
  `Cancel`, `Crash`, `Rerun` and `RemoteUpdate` have no fairness.
* `SequentialWalker!LiveSpec` (`SequentialWalkEnds`): weak fairness of its one task.
* `ParallelWalker!LiveSpec` (`WalkEnds`): weak fairness of each worker and of the consumer.
  A send to a full channel is enabled as soon as there is room; async-channel
  wakes senders in order, so weak fairness per worker is enough for the
  properties and less than what the runtime gives.
* `DownloadRun!LiveRunSpec`: weak fairness of the caller, of each listing worker
  and of each download worker; the token is under none. That a job ends is what
  `file_faithful` shows under its assumption.
* `ShareClient!LiveSpec`: weak fairness of the loop's own steps, which the runtime
  schedules, and of the exchange only if a timeout is configured: reqwest's
  timeout covers a request from the connection to the end of its body, so an
  exchange ends whatever the server does. `RequestEnds` claims no more.

Deadlock checking is off in all runs: jobs, walks and calls do stop.

## 4. What is proved

### 4.1 One file

For any versions and lengths of the remote file, any numbers of attempts,
links, runs and updates, observed or not, on Windows or not, with odd status
codes or without (`FileDownloadProofs`):

| Theorem | States |
|---|---|
| `TypeCorrect` | `Spec => []TypeOK`: the loops never count past their limits, the counters stay inside their width |
| `SuccessIsThere` | `Spec => []OkMeansThere`: after a success the destination matches the listing |
| `OnlyVerifiedInstalled` | `Spec => InstalledOnlyVerified`: the destination only receives, whole, a part file that passed every check |
| `OneFinalEvent` | `Spec => []FinalsMatch`: at most one terminal event, the job's last |
| `ProgressIsExact` | `Spec => []ProgressMatchesPart`: the observer's byte count is the part file's length |
| `ResumingIsFaithful` | `Spec => FaithfulWhenUnchanged`: while the remote file stays, no byte is repeated, skipped or mixed |
| `GoodBytesAreKept` | `Spec => KeepsGoodBytes`: a good part file shrinks only for a reason the server gave |

The assumptions are the two on the constants (`FileAssumption`,
`ConfigAssumption`), which TLC evaluates in each run of `MCFileDownload`.

None of the properties is inductive. The argument:

1. `TypeInv` adds `AttemptsLeft` to `TypeOK`: at the backoff one attempt is left;
   without it `tryNo + 1` would leave its range.
2. `FilesReady` follows the part file through the session: present while it is
   written and checked, of the expected length where an earlier attempt left
   it complete, verified where the rename comes next. `OkMeansThere` needs it at
   `Install`, and `InstalledOnlyVerified` is read off the same step.
3. `FinalsInv`: no terminal event before the end. Every action is either such
   that the job goes on and no terminal event goes out, or ends it.
4. `Counting` ties the offset that was decided at `inspect` to the length of the
   file when it is opened, two awaits later. It holds since nobody else
   touches the file in between.
5. `PureInv`: while the remote file is the listed one, the part file is a prefix
   of it and the body's position is the file's length. With `Counting` this
   covers resuming (206 at the offset), restarting (200 from zero) and
   starting; with an odd 2xx it would fail, which `file_range` shows.
6. `Keeping` gives each removal its reason before it happens: a reset finds a
   file that is too long, a discard one that is wrong or one the server refused
   to continue.

### 4.2 The client and its requests

For any number of attempts, any statuses, hints and backoffs, any numbers set,
selections, keys and paths (`ShareClientProofs`, under `ApiAssumption` and
`ClientAssumption`; `SafePathProofs` has what concerns paths alone):

| Theorem | States |
|---|---|
| `ClientTypeOK` | `Spec => []TypeOK`: no attempt after the last one, no pool of zero |
| `ResultsAreCurrent` | `Spec => []ResultIsCurrent`: a result is about the last exchange |
| `EveryServerIsHeard` | `Spec => ServerIsHeard`: no repetition the server did not ask for, none before its time |
| `NothingMoreIsSent` | `Spec => NothingSentAfterCancel` |
| `NoFieldIsLost` | `Spec => []NoFieldLost`: what was asked for and sent arrives |
| `EveryJobStaysInside` | `Spec => []JobsStayInside`: every job's destination is a path of plain file names |
| `CleanNamesAreKept` | `Spec => []CleanNamesKept`: a path of plain names without whitespace at their ends is the job's destination |
| `DefaultFieldsAreEnough` | `Spec => []DefaultFieldsSuffice`: the default fields show all that `download_all` looks at |
| `KeysAreReadAsWritten` | `Spec => []KeyReadAsWritten`: whatever text a key is written in, between blanks or not, encoded as a whole or not, the key is what its documentation says |
| `EveryPathIsSafe`, `CleanPathIsKept` | what two of them say of `SafeRelativePath` alone, for any sequence of characters |
| `CleanPathsStayApart` | two paths of plain names without whitespace at their ends that become one destination are one path, but for leading slashes |

`Heard` is the inductive part of the request. `ServerIsHeard` speaks of the
moment an attempt begins, two steps after the delay was computed and three
after the response arrived. `Heard` says what the loop holds of the response on
the way: in `sleep`, that it may be repeated and that `delay` is what it named; in
`attempt`, the same of `slept`. `FailStep` is the lemma on the retry loop, shared by
the four ways an attempt can fail; `MappedError` and `Decoded` say that an error and
a result carry the status, the hint and the fields of the response at hand.
`ReadInFull` adds that a call for metadata reads its answer into a `Resource`, which
has a member for each field there is (`FieldsAreMembers`).

`EveryComponentIsSafe` follows a name through the steps of
`safe_filename_component`: after the replacement no invalid character is left; the
trimming (`TrimmedEnd`, on the greatest index of a set) takes characters
away and leaves a last one that is neither space nor dot; what is empty or
reserved then gets its underscore, and no step is undone by a later one.

`CleanNameIsKept` goes the same way with a name that is plain already and has no
whitespace, of any kind, at its ends: nothing is cut off (`NothingToTrim`), replaced
or prefixed. For a whole path it must be known
that the path has no backslash, which the code would take for a separator. That
its parts have none is given; `CharactersOfParts` says that each character of a
path but the slashes stands in one of the parts of `Split`. Its proof counts the
slashes up to a position: a later slash has a greater rank and the next one the
next rank, so the slash before the part of that rank lies before the position and
the next one behind it (`SlashPositions`, `BetweenSlashes`). By the same positions
splitting is injective (`SplitIsInjective`): the first part that ended elsewhere
would have another length. So clean paths stay apart.

`CallInv` is what `DefaultFieldsAreEnough` needs beyond the request's invariant: a
response shows what was asked for of what the share has, a root call is settled by
the result of its own request, and a job is made of the members the listing showed.

`KeysAreReadAsWritten` is about texts of any length and needs no induction, since
`PublicKey` finds its places in a text as least or greatest indices. What stands
between the blanks is the text that was written (`FirstPlace`, `LastPlace`), or the
text after one decoding; a URL has its path between the host and the first `?`
(`PathOfUrl`, `SharedUrl`), and the value of the first parameter `hash` is a
stretch of the text on which the second decoding, of the query, only turns a `+`
into a blank (`PublicUrl`, `PlainValue`). `UrlMeans` puts the kinds of URL together.

### 4.3 The parallel walk

For any finite, non-empty set of workers, any tree and any capacity
(`ParallelWalkerProofs`, under `WalkAssumption`, `TreeAssumption` and
`AllBelowRoot`):

| Theorem | States |
|---|---|
| `WalkTypeOK` | `Spec => []TypeOK`: the counter never passes below zero |
| `PendingIsExact` | `Spec => []PendingExact`: `pending` is the number of tasks queued, held, and counted but not yet sent |
| `NothingIsSentAfterClose` | `Spec => []NothingAfterClose`: once the channels are closed no task is queued and no worker has one |
| `WalkImplementsStream` | `Spec => KeepsPromises`: the walk implements `WalkStream` |
| `CountIsFinal` | `Spec => []FinalCount`: `DiscoveryFinished` goes out once, last, with the count of all files found |

`PendingExact` adds the sizes of two sets of workers to the length of the queue;
two lemmas say how such a size changes when one worker enters or leaves the set.
It is inductive only together with the types, with `Holding` (a worker at a send has
something to send) and with `Closing`: channels closed, or about to be, mean that
the counter is zero. `NothingAfterClose` follows from the two: a counter
of zero is an empty queue and no busy worker.

For the refinement each entry of the tree must be accounted for. `Tracking` is an
invariant that says there is a set `S`, of the entries sent to the consumer so far,
such that

1. no entry is at two places: ahead of a queued task, in one worker's hands, or in
   `S` (`Exclusive`). That a page, its further pages and what it lists share out the
   positions behind an offset is arithmetic, in `FurtherPositions` and `Split`;
2. what a directory lists is met only after its own task was sent, and then, if no
   page is given up, all of it is at one of the places (`InTurn`, `NoneLost`);
3. what is in `S` was received or waits in the channel, as long as there is a
   consumer (`Delivered`), and the file counter is the number of files in `S` or
   about to be sent (`Counted`).

A step of a worker moves entries between the places or gives them up with a note
in `partial`. When the channels are closed no place but `S` is left, so the set of
entries given contains all that a directory given lists; by `AllBelowRoot` it is
the whole tree, and `Stream!End` may be taken. The other half of the promise is
about errors: a worker that failed sends the error before it lowers the counter, so
the channels are not closed before the error is in one (`ErrorKnown`). For
`CountIsFinal`, `ClosesOnce` adds that one worker announces the end and
`ShownLast` that the greatest number of entries scanned was shown or is about to
be.

### 4.4 The sequential walk

For any tree, with totals or without, and any size of page
(`SequentialWalkerProofs`, under the same assumptions on the tree):

| Theorem | States |
|---|---|
| `WalkTypeOK` | `Spec => []TypeOK`: no offset behind the end, no page longer than asked for |
| `WalkImplementsStream` | `Spec => SequentialKeepsPromises`: the walk implements `WalkStream` |
| `DirectoriesOneByOne` | `Spec => []OneDirectoryAtATime`: a directory is given to its end before the next, and after it was itself given |

The invariant ties the three places of the walk to `order`, what was given. The
buffer holds the entries of the current directory before its offset (`Aligned`); of
that directory exactly the entries before the buffer were given, of one on the
stack none (`Untouched`); a directory given is on the stack, under way or through
(`Complete`). `Parents` excludes that an entry comes twice. For `DirectoriesOneByOne`
`Frontier` says what was given last: the entry before the buffer, or the last one
of another directory.

### 4.5 A whole call

For any number of workers and files and any capacity (`DownloadAllProofs`, under
`PoolAssumption`):

| Theorem | States |
|---|---|
| `CallTypeOK` | `Spec => []TypeOK`: the channel keeps its bound |
| `EveryFileIsAccounted` | `Spec => []EveryFileAccounted`: a file the walk gave is at one place until it is counted; the one file that may be nowhere is the one at which the loop found itself cancelled |
| `FailuresAlwaysMatch` | `Spec => []FailuresMatch`: at the return the failure counter and the two lists agree, and each failure is listed once |
| `ResultIsAlwaysFinal` | `Spec => []ResultIsFinal`: a result is returned after the last worker left, complete unless cancelled; a cancelled one misses at most what the channel holds and one more |
| `ReturnedResultIsStable` | `Spec => ResultIsStable`: nothing is added to a result that was returned |

The invariant adds to them `Hands` (what the caller holds at which step), `Open` and
`Ending` (the sender is dropped before `join` awaits, and a worker leaves only
when the channel is closed and empty, or the token fired) and `OnePlace`: hands,
channel, workers and failures are pairwise disjoint. Without `OnePlace` a file
counted once might still be in the channel, and be counted again. `Rejected` says the
same of the rejected files, between the caller's hands and its list. `FailedCount`
holds throughout, where `FailuresMatch` does not: the counter is the lengths of the
two lists, the number of workers between counting and listing, and one if the caller
is. At the return `Ending` leaves no worker there.

### 4.6 A call with its walk

For any tree, any numbers of listing and of download workers and any size of both
channels (`DownloadRunProofs`, under `RunAssumption`, which makes the trees and
pools finite, and the assumptions of 4.3):

| Theorem | States |
|---|---|
| `RunImplementsParts` | `RunSpec => ImplementsParts`: the composition is a walk as `ParallelWalker` has it and a call as `DownloadAll` has it |
| `ErrorsAlwaysSurface` | `RunSpec => []ErrorsSurface`: when the call returns `Ok` and was not cancelled, no listing worker met an error |
| `ResultAlwaysMatchesWalk` | `RunSpec => []ResultMatchesWalk`: it then accounts for as many files as the walk counted and `DiscoveryFinished` shows |
| `OkLeavesNothing` | `RunSpec => []NothingLeft`: no page, no request and no entry of the walk is left |

The first theorem is what justifies 4.3 and 4.5 where they meet: each part was
modelled with an assumption about the other, the walk with a consumer that stops
for certain reasons, the call with a stream that keeps the promises of `WalkStream`.
Its consequence is that what is proved of either part holds of the whole. The proof
uses the theorems of both: `CallP` is an instance of `DownloadAllProofs` with the
parts of the composition for its constants and variables, whose assumption is
proved (`CallAssumed`), and `SameSteps` and `SameNext` say that its operators are
those the model is composed of.

The invariant is `RunInv`: that of the walk, that of the call and `Link`, which
ties the place of the caller to the place of the walk's consumer. Each joint step
is a step of both parts (`ListParts`, `TryNextParts`, `SubmitParts`, `JoinParts`), and
for this a fact of one part must be a guard of the other:

* a `submit` that fails is a `Stop` of the consumer only if the token has fired: by
  the invariant of the call download workers leave an open channel for no other
  reason;
* an item received is one the call was not given before, and an end is the end
  of all items or of a walk with a gap: that is the refinement of 4.3
  (`ReceiveMaps`), taken step by step;
* a page given up is a `Skip` of the call's stream only before that has ended: by
  `Over` who has read a stream to its end left no worker that could still give a
  page up (`NoSenderIsIdle`, `IdleKeeps`).

The other three relate counters kept by different tasks. They hold at the return
and not before: `CompleteHasEnded` shows that a good return is after the end of the
stream, where `GivenAreCounted` and `NoErrorAtTheEnd` say what the walk's
invariant `Tracking` then comes to, and `OkIsComplete` what the call's does.

### 4.7 The observer

For any number of jobs, any sizes, any number of failed attempts and ticks and any
capacity (`ObserverProofs`, under `ObserverAssumption`):

| Theorem | States |
|---|---|
| `EventsTypeOK` | `Spec => []TypeOK`: the channel keeps its bound |
| `SnapshotHoldsWhatWasTold` | `Spec => []SnapshotCoversSent`: a snapshot holds each terminal event sent before its tick |
| `NoMoreDoneThanFound` | `Spec => []DoneWithinTotal`: no more done than there is, once the totals are announced |
| `AggregatorMirrorsStats` | `Spec => []MirrorsStats`: in the end aggregator and statistics agree, but for the files no event told of |

A counter is raised by one job at a time and read by others in between, so a bound
on it is not inductive. `Accounted` says instead what each counter is: there are an
outcome for every job and a set of the jobs that tell of it, such that what a job
that is over has left to do is an end of the list its outcome prescribes (`Script`),
and every counter is the number, or the bytes, of the jobs that have passed the
operation which feeds it (`Accounts`). The bytes of a set of jobs are the elements
of `ByteSet`, so that a sum is a cardinality and needs no induction. All four
theorems are read off it: the sets behind two counters are subsets of each other or of
the jobs found (`Discovery`), and a snapshot lies between what was told when
it began and what the aggregator holds (`Snapshot`).

### 4.8 Only model-checked

Each invariant of 4.1 to 4.7 was first checked by TLC on the instance of its
run; where a run has no place for a type invariant any more (`SequentialWalker`,
`DownloadAll`, `Observer`), the theorem has taken it. Only model-checked are:

* liveness: `Terminates`, `WalkEnds`, `SequentialWalkEnds`, `RequestEnds`, `RunEnds`. The
  prover's temporal logic has no rule for fairness;
* the four properties that fail (section 5).

## 5. Where the code and its comments disagree

With a run, see `findings` in `PROJECT.json`:

* `in_flight` is raised once per attempt and lowered once per job, also for a job
  that never started: it leaks, or wraps below zero (`aggregator.rs:58`).
* A 2xx other than 200 and 206 to a Range request is appended to the part file
  (`state.rs:202`).
* The ticker survives `download_all` when it returns an error
  (`client/mod.rs:329`).
* No answer to `get_download_link` can be read: it asks for the metadata and
  expects a `Link` (`resource_client.rs:167`). `FileDownload` lets the API give a
  fresh link all the same, as its loop is written to.

Met while modelling, without a run of their own:

* An expired link whose replacement cannot be had ends the job without the
  final `Failed` event (`worker.rs:160`; `GiveUp` of `Observer`).
* A cancelled download waits for a silent server (`session.rs:265`), though
  `session.rs:246` says that a cancellation stops the download promptly.
* After a cancellation the jobs left in the channel are in no counter and no
  list (`worker.rs:117`, against `client/mod.rs:273`). `ResultIsFinal` says how many
  that can be: the capacity of the channel and one.
* A percent-encoded `+` in the `hash` of a public URL comes out as a blank:
  `parse` decodes the whole text (`public_key.rs:65`) and the query is decoded
  again (`FormDecode`), though `public_key.rs:42` says the hash is the parameter's
  value. `KeyReadAsWritten` is about texts that are encoded as a whole or not at all.
* `progress.rs:186` says that snapshots stay consistent with the sequence of events
  the observer sees. A snapshot may show an end whose event is not sent yet, and
  it may lack one that is sent while the snapshot is taken; `SnapshotCoversSent` says
  what holds.
* `progress.rs:176` says that `bytes_done` counts bytes of jobs in flight; it
  advances with the end of a job (`NoteBytesDone`).
* `aggregator.rs:97` says that `note_bytes_done` is called alongside a `Finished` event,
  in `DownloadSession::run`, and `aggregator.rs:83` that a `note_job_size` is; there is
  none of that name, and `note_bytes_done` is called by the worker once the job has
  returned (`worker.rs:126`), also for a file that was skipped without an event
  (`Succeed`). A snapshot may count a file as downloaded and not yet its bytes.
* `progress.rs:172` says that `total_files` may grow while walking; it is zero until
  `DiscoveryFinished` (`Announce`). `progress.rs:16` says that discovery events come
  before any download starts; jobs start as soon as one is listed.
* `aggregator.rs:107` says that the ticker ends when there are no receivers;
  `is_active` asks only whether a sender is there.
* `public_key.rs:48` says that what is no valid URL is refused; any text without
  `http` in front is a hash, and so its tests have it (`Parse`, last branch).
* `path.rs:30` says that a path of invalid characters only is refused; each such
  component becomes `_` or a row of them (`SafeFilenameComponent`).
* `set_fields` without `type` makes `download_all` refuse every root, and skip
  every file (`ResolveRootPath`, `MakeJob`).

Single branches that disagree with a comment:

* `progress.rs:42` says `scanned` is the number of entries observed so far; the
  addition and the event are two steps (`parallel.rs:195`, `Scan` and `Report`), so
  a later event may show less. `FinalCount` says what remains true: one of the
  events shows them all.
* `sequential.rs:31` says subdirectories are processed in the order they are
  discovered; `pending` is a stack (`sequential.rs:113`, `AskForPage`).
* `api/error_mapping.rs:79` says a 429 makes the download back off and retry;
  `RateLimited` is not transient for the download's policy (`error/http.rs:73`),
  the job fails at its first attempt. `MayRetry` shows it.
* `session.rs:332` says the part file is removed if the size check fails; it is
  kept (`session.rs:347`, first branch of `VerifyPart`).
* `progress.rs:96` says `Finished` covers a skipped file; `download_to` returns
  without an event (`worker.rs:236`, first branch of `SkipMatching`).
* `factory.rs:102` says the caller of `file_matches` treats an I/O error as a
  missing file; it fails the job (`worker.rs:234`).
* `stats.rs:56` says `total` grows for every file; `record_failure` leaves it alone.

## 6. Assumptions and what is not modelled

* A process may be killed, the machine does not lose power: what was written
  to a file is there after a crash.
* The last write of a session is on disk before the next attempt looks at the
  part file. tokio's `File` reports a write before it is done and an error path
  drops the file without a flush; the backoff lies in between. A late write is
  planned (section 7).
* The destination and the part path of a job are used by no other job.
  `safe_relative_path` can map two remote paths to one destination; planned.
* Different contents have different checksums.
* The remote tree does not change during a walk, and a directory carries its
  total on all its pages or on none. It is a tree: every entry is below the root
  (`AllBelowRoot`, as an assumption on sets of entries, which TLC evaluates; it
  takes the place of an induction over depth). There is at least one listing
  worker (`builder.rs:141`, `parallel.rs:82`).
* The server sends no more than the version's bytes after a position.
* Time: delays are modelled for API requests only; in `FileDownload` a backoff
  lasts any time, and the API is one nondeterministic answer.
* The API serves what it is asked for: a success with a readable body shows
  the selected fields of those its resource has (`Shown`).
* Two items may become one destination if their paths need cleaning, or if one
  is named like another's part file. `CleanNamesKept` and `CleanPathsStayApart` say when
  they do not; what two such jobs do to each other on disk is planned (section 7).
* Atomics are taken as sequentially consistent. The code uses `Relaxed` for the
  aggregator; the loads of a snapshot may then pass each other further than in
  `Observer`.
* In `Observer`: `Progress` events, which move no counter, and `in_flight`, which
  `FileDownload` follows, are left out.
* Of the builder, the parts handed on to `reqwest` other than the timeout are
  left out, and so are validations of the base URL other than whether it can
  carry a path. `aggregate_interval` may be zero; tokio's `interval` then panics in
  the ticker's task, outside the model.
* Values of fields, `report()`, job ids, logging, the example program: not modelled.

## 7. Plan

Written so far, in this order: `FileDownload` (the heart: what ends up on disk),
`ParallelWalker`, `DownloadAll`, the proofs about `FileDownload`, `WalkStream` with
the two walkers shown to implement it, `SequentialWalker`, the proofs about
`ParallelWalker` and `DownloadAll`, `ApiClient` with its proofs, `ShareClient` with
`Fields`, `SafePath` and `PublicKey`, `Observer`, the proofs about `Observer`,
`SequentialWalker` and the refinement of `WalkStream` by both walks, the proof of
`KeyReadAsWritten`, `DownloadRun` with its proofs.

What a next step would take up, with runs and mutants of its own:

1. `SharedDestination`: two jobs whose safe paths coincide, on file handles
   instead of paths; and `FileDownload` with a write that lands late.
2. The observer beside `DownloadRun`: `DiscoveryFinished` after the return of a
   call that an error ended.
3. Measures that make the loops' ends provable as action properties, since
   liveness itself is out of the prover's reach.

The number of runs is kept small: where a new module asks a deeper question, it
takes the place of a shallower one.
