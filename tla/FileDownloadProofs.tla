------------------------- MODULE FileDownloadProofs -------------------------
(***************************************************************************)
(* Theorems of FileDownload, for any versions of the remote file, any      *)
(* lengths, any numbers of attempts, runs and updates, with and without an *)
(* observer, on Windows and elsewhere: what a job installs, the events it  *)
(* emits, the terminal one and the byte counts, what its partial file is   *)
(* assembled from, and when the session may give it up.                    *)
(***************************************************************************)
EXTENDS FileDownload, TLAPS

\* Counters that wrap around stay below the width they wrap at.
LEMMA Wraps == ASSUME NEW n \in Int PROVE n % Width \in 0..(Width - 1)
  BY ConfigAssumption

-----------------------------------------------------------------------------
(* Type correctness *)

\* An attempt is only left for another one while there is one left.
AttemptsLeft == pc = "backoff" => tryNo < MaxAttempts

TypeInv == TypeOK /\ AttemptsLeft

\* What an action that leaves the retry loop or the job has to keep.
LoopType ==
  /\ pc \in Steps \cup Ended
  /\ linkNo \in 1..MaxLinkAttempts
  /\ tryNo \in 1..MaxAttempts
  /\ result \in Outcomes \cup Errors \cup {None}
  /\ inFlight \in 0..(Width - 1)
  /\ finals \in Nat
  /\ AttemptsLeft

\* Events keep the two counters in range.
LEMMA ObserveType ==
  ASSUME TypeOK, NEW s \in Nat, NEW n \in Nat, Observe(s, n)
  PROVE  inFlight' \in 0..(Width - 1) /\ finals' \in Nat
<1>1. inFlight + s - n \in Int
  BY DEF TypeOK
<1>2. inFlight' \in 0..(Width - 1)
  BY <1>1, Wraps DEF Observe
<1>3. finals' \in Nat
  BY DEF TypeOK, Observe
<1> QED BY <1>2, <1>3

\* Returning from download_job keeps the loops in range.
LEMMA ReturnType ==
  ASSUME TypeOK, NEW r \in Outcomes \cup Errors, NEW n \in Nat, Return(r, n)
  PROVE  LoopType'
<1>1. inFlight' \in 0..(Width - 1) /\ finals' \in Nat
  BY ObserveType DEF Return
<1>2. pc' = "done" /\ result' = r /\ UNCHANGED <<linkNo, tryNo>>
  BY DEF Return, Goto, loops
<1> QED BY <1>1, <1>2 DEF LoopType, TypeOK, AttemptsLeft, Ended

\* So does an error of download_to, whether a fresh link is asked for or not.
LEMMA FailedType ==
  ASSUME TypeOK, NEW e \in Errors, DownloadToFailed(e)
  PROVE  LoopType'
<1>1. CASE /\ e = "LinkExpired" /\ linkNo < MaxLinkAttempts
           /\ linkNo' = linkNo + 1
           /\ Goto("link")
           /\ UNCHANGED <<tryNo, result, events>>
  BY <1>1, ConfigAssumption
     DEF LoopType, TypeOK, AttemptsLeft, Goto, Steps, events
<1>2. CASE Return(e, 1)
  BY <1>2, ReturnType
<1> QED BY <1>1, <1>2 DEF DownloadToFailed

THEOREM InitType == Init => TypeInv
<1> SUFFICES ASSUME Init PROVE TypeInv
  OBVIOUS
<1> USE FileAssumption, ConfigAssumption DEF Init
<1>1. job \in Job /\ cur \in Versions
  OBVIOUS
<1>2. dest \in File \cup {Absent} /\ part \in File \cup {Absent}
  BY DEF File, Complete
<1>3. action \in Actions /\ body \in Body
  BY DEF Actions, Body, Start
<1>4. pc \in Steps \cup Ended /\ linkNo \in 1..MaxLinkAttempts /\ tryNo \in 1..MaxAttempts
  BY DEF Steps
<1>5. inFlight \in 0..(Width - 1) /\ finals \in Nat
  OBVIOUS
<1> QED BY <1>1, <1>2, <1>3, <1>4, <1>5 DEF TypeInv, TypeOK, AttemptsLeft

\* The length of what is at a path.
LEMMA LenType == ASSUME NEW f \in File \cup {Absent} PROVE Len(f) \in Nat
BY FileAssumption DEF Len, File

\* Bytes written to a path leave a file there, and no bytes change nothing.
LEMMA ExtendedType ==
  ASSUME NEW f \in File \cup {Absent}, NEW v \in Versions, NEW at \in Nat, NEW n \in Nat
  PROVE  /\ Extended(f, v, at, n) \in File \cup {Absent}
         /\ f # Absent => Extended(f, v, at, n) # Absent
BY LenType, FileAssumption DEF Extended, File

\* The resume decision is one of the four actions.
LEMMA DetermineType ==
  ASSUME NEW x \in Nat, NEW y \in Nat
  PROVE  /\ DetermineState(x, y) \in Actions
         /\ DetermineState(x, y).kind = "Finalize" => x = y /\ x # 0
         /\ DetermineState(x, y).offset = IF DetermineState(x, y).kind = "Resume" THEN x ELSE 0
BY SMT DEF DetermineState, Actions, Start

\* The expected size is a length.
LEMMA ExpectedType == ASSUME TypeOK PROVE Expected \in Nat
BY FileAssumption DEF TypeOK, Expected, Job

\* Every step keeps every variable in its type, and an attempt is left only
\* while another one remains.
LEMMA StepType == TypeInv /\ [Next]_vars => TypeInv'
<1> SUFFICES ASSUME TypeInv, [Next]_vars PROVE TypeInv'
  OBVIOUS
<1>0. TypeOK /\ AttemptsLeft
  BY DEF TypeInv
<1> USE <1>0
<1> DEFINE FilesType == /\ part \in File \cup {Absent} /\ dest \in File \cup {Absent}
           CallType  == job \in Job /\ runs \in Nat /\ cancelled \in BOOLEAN
           RemoteType == cur \in Versions /\ updates \in Nat
           RunType   == /\ action \in Actions /\ body \in Body /\ written \in Nat
                        /\ err \in Errors \cup {None}
<1>1. ASSUME LoopType', FilesType', CallType', RemoteType', RunType'
      PROVE  TypeInv'
  BY <1>1 DEF LoopType, TypeInv, TypeOK
<1>2. FilesType /\ CallType /\ RemoteType /\ RunType /\ LoopType
  BY DEF TypeOK, LoopType
<1> HIDE DEF FilesType, CallType, RemoteType, RunType
<1>3. ASSUME UNCHANGED <<disk, call, remote>> PROVE FilesType' /\ CallType' /\ RemoteType'
  BY <1>2, <1>3 DEF FilesType, CallType, RemoteType, disk, call, remote
<1>4. ASSUME UNCHANGED <<action, body, written, err>> PROVE RunType'
  BY <1>2, <1>4 DEF RunType
<1>5. ASSUME UNCHANGED <<loops, events, result>>, pc' \in Steps \cup Ended, pc' # "backoff"
      PROVE  LoopType'
  BY <1>2, <1>5 DEF LoopType, AttemptsLeft, loops, events
<1>6. CASE UNCHANGED vars
  BY <1>1, <1>2, <1>6
     DEF vars, remote, disk, events, call, loops, LoopType, AttemptsLeft,
         FilesType, CallType, RemoteType, RunType
<1>7. CASE GetLink
  <2>1. CASE Return("Cancelled", 0)
    BY <2>1, <1>1, <1>3, <1>4, <1>7, ReturnType DEF GetLink, Errors
  <2>2. CASE UNCHANGED <<loops, result, events>> /\ pc' \in {"dir", "api"}
    BY <2>2, <1>1, <1>3, <1>4, <1>5, <1>7 DEF GetLink, Steps
  <2> QED BY <1>7, <2>1, <2>2 DEF GetLink, Goto
<1>8. CASE ApiReply
  <2>1. CASE Goto("dir") /\ UNCHANGED <<loops, result, events>>
    BY <2>1, <1>1, <1>3, <1>4, <1>5, <1>8 DEF ApiReply, Steps, Goto
  <2>2. ASSUME NEW e \in {"Api", "Transport", "Cancelled"}, Return(e, 0) PROVE TypeInv'
    <3>1. e \in Errors
      BY DEF Errors, Retryable
    <3> QED BY <3>1, <2>2, <1>1, <1>3, <1>4, <1>8, ReturnType DEF ApiReply
  <2> QED BY <1>8, <2>1, <2>2 DEF ApiReply
<1>9. CASE EnsureDir
  <2>1. CASE Goto("match") /\ UNCHANGED <<loops, result, events>>
    BY <2>1, <1>1, <1>3, <1>4, <1>5, <1>9 DEF EnsureDir, Steps, Goto
  <2>2. CASE DownloadToFailed("Io")
    BY <2>2, <1>1, <1>3, <1>4, <1>9, FailedType DEF EnsureDir, Errors
  <2> QED BY <1>9, <2>1, <2>2 DEF EnsureDir
<1>10. CASE SkipMatching
  <2>1. CASE Return("AlreadyComplete", 0)
    BY <2>1, <1>1, <1>3, <1>4, <1>10, ReturnType DEF SkipMatching, Outcomes
  <2>2. CASE tryNo' = 1 /\ Goto("attempt") /\ UNCHANGED <<linkNo, result, events>>
    <3>1. LoopType'
      BY <2>2, <1>2, ConfigAssumption DEF LoopType, AttemptsLeft, Goto, events, Steps
    <3> QED BY <3>1, <1>1, <1>3, <1>4, <1>10 DEF SkipMatching
  <2>3. CASE DownloadToFailed("Io")
    BY <2>3, <1>1, <1>3, <1>4, <1>10, FailedType DEF SkipMatching, Errors
  <2> QED BY <1>10, <2>1, <2>2, <2>3 DEF SkipMatching
<1>11. CASE BeginAttempt
  <2>1. CASE DownloadToFailed("Cancelled")
    BY <2>1, <1>1, <1>3, <1>4, <1>11, FailedType DEF BeginAttempt, Errors
  <2>2. CASE Goto("inspect") /\ UNCHANGED <<loops, result, events>>
    BY <2>2, <1>1, <1>3, <1>4, <1>5, <1>11 DEF BeginAttempt, Steps, Goto
  <2> QED BY <1>11, <2>1, <2>2 DEF BeginAttempt
<1>12. CASE EndAttempt
  <2>1. CASE MayRetry(err) /\ Goto("backoff") /\ UNCHANGED <<loops, result, events>>
    <3>1. LoopType'
      BY <2>1, <1>2 DEF LoopType, AttemptsLeft, Goto, events, loops, Steps, MayRetry
    <3> QED BY <3>1, <1>1, <1>3, <1>4, <1>12 DEF EndAttempt
  <2>2. CASE err \in Errors /\ DownloadToFailed(err)
    BY <2>2, <1>1, <1>3, <1>4, <1>12, FailedType DEF EndAttempt
  <2>3. CASE err = None /\ DownloadToFailed(err)
    <3>1. Return(None, 1)
      BY <2>3 DEF DownloadToFailed, None
    <3>2. inFlight' \in 0..(Width - 1) /\ finals' \in Nat
      BY <3>1, ObserveType DEF Return
    <3>3. LoopType'
      BY <3>1, <3>2, <1>2 DEF LoopType, AttemptsLeft, Return, Goto, loops, Ended
    <3> QED BY <3>3, <1>1, <1>3, <1>4, <1>12 DEF EndAttempt
  <2> QED BY <1>12, <2>1, <2>2, <2>3 DEF EndAttempt, TypeOK
<1>13. CASE Backoff
  <2>1. CASE DownloadToFailed("Cancelled")
    BY <2>1, <1>1, <1>3, <1>4, <1>13, FailedType DEF Backoff, Errors
  <2>2. CASE tryNo' = tryNo + 1 /\ Goto("attempt") /\ UNCHANGED <<linkNo, result, events>>
    <3>1. LoopType'
      BY <2>2, <1>2, <1>13, ConfigAssumption
         DEF LoopType, AttemptsLeft, Goto, events, Steps, Backoff
    <3> QED BY <3>1, <1>1, <1>3, <1>4, <1>13 DEF Backoff
  <2> QED BY <1>13, <2>1, <2>2 DEF Backoff
<1>14. ASSUME EmitStarted, UNCHANGED <<loops, result>>, pc' = "request" PROVE LoopType'
  <2>1. inFlight' \in 0..(Width - 1) /\ finals' \in Nat
    BY <1>14, ObserveType DEF EmitStarted
  <2> QED BY <2>1, <1>2, <1>14 DEF LoopType, AttemptsLeft, loops, Steps
<1>15. ASSUME action' = DetermineState(Len(part), Expected) PROVE action' \in Actions
  BY <1>15, LenType, ExpectedType, DetermineType DEF TypeOK
<1>16. CASE Inspect
  <2>1. RunType'
    BY <1>2, <1>15, <1>16 DEF Inspect, RunType, AttemptErr, Errors
  <2>2. CASE EmitStarted /\ pc' = "request"
    BY <2>1, <2>2, <1>1, <1>3, <1>14, <1>16 DEF Inspect
  <2>3. CASE UNCHANGED events /\ pc' \in {"finalize", "reset", "failed"}
    BY <2>1, <2>3, <1>1, <1>3, <1>5, <1>16 DEF Inspect, Steps
  <2> QED BY <1>16, <2>2, <2>3 DEF Inspect, Goto, AttemptErr
<1>17. CASE Reset
  <2>1. FilesType' /\ CallType' /\ RemoteType' /\ RunType'
    BY <1>2, <1>17
       DEF Reset, FilesType, CallType, RemoteType, RunType, call, remote, AttemptErr, Errors
  <2>2. LoopType'
    BY <1>5, <1>17 DEF Reset, Goto, AttemptErr, Steps
  <2> QED BY <2>1, <2>2, <1>1
<1>18. CASE Reinspect
  <2>1. RunType'
    BY <1>2, <1>15, <1>18 DEF Reinspect, RunType, AttemptErr, Errors
  <2>2. CASE EmitStarted /\ pc' = "request"
    BY <2>1, <2>2, <1>1, <1>3, <1>14, <1>18 DEF Reinspect
  <2>3. CASE UNCHANGED events /\ pc' = "failed"
    BY <2>1, <2>3, <1>1, <1>3, <1>5, <1>18 DEF Reinspect, Steps
  <2> QED BY <1>18, <2>2, <2>3 DEF Reinspect, Goto, AttemptErr
<1>19. CASE FinalizeExisting
  <2>1. RunType'
    BY <1>2, <1>19 DEF FinalizeExisting, RunType, AttemptErr, DiscardThenErr, Errors, Retryable
  <2>2. LoopType'
    BY <1>5, <1>19 DEF FinalizeExisting, Goto, AttemptErr, DiscardThenErr, Steps
  <2> QED BY <2>1, <2>2, <1>1, <1>3, <1>19 DEF FinalizeExisting
<1>20. CASE Discard
  <2>1. FilesType' /\ CallType' /\ RemoteType' /\ RunType'
    BY <1>2, <1>20
       DEF Discard, FilesType, CallType, RemoteType, RunType, call, remote, Errors
  <2>2. LoopType'
    BY <1>5, <1>20 DEF Discard, Goto, Steps
  <2> QED BY <2>1, <2>2, <1>1
<1>21. ASSUME NEW a \in Actions, NEW n \in Nat, Accept(a, n), UNCHANGED written
       PROVE  RunType' /\ pc' = "open"
  BY <1>2, <1>21 DEF Accept, RunType, RemoteType, Body, Goto
<1>22. CASE Request
  <2>1. action \in Actions /\ action.offset \in Nat
    BY DEF TypeOK, Actions
  <2>2. [kind |-> "Restart", offset |-> 0] \in Actions
    BY DEF Actions
  <2>3. CASE ValidateResponse
    <3>1. CASE \E a \in Actions, n \in Nat : Accept(a, n)
      BY <3>1, <1>1, <1>3, <1>5, <1>21, <1>22 DEF Request, Steps
    <3>2. CASE DiscardThenErr("InvalidContentRange") /\ UNCHANGED <<action, body>>
      <4>1. RunType' /\ pc' = "discard"
        BY <3>2, <1>2, <1>22 DEF Request, RunType, DiscardThenErr, Goto, Errors, Retryable
      <4> QED BY <4>1, <1>1, <1>3, <1>5, <1>22 DEF Request, Steps
    <3> QED BY <2>1, <2>2, <2>3, <3>1, <3>2 DEF ValidateResponse
  <2>4. CASE DownloadError
    <3>1. RunType' /\ pc' \in {"discard", "failed"}
      BY <2>4, <1>2, <1>22
         DEF Request, DownloadError, RunType, DiscardThenErr, AttemptErr, Goto, Errors, Retryable
    <3> QED BY <3>1, <1>1, <1>3, <1>5, <1>22 DEF Request, Steps
  <2> QED BY <1>22, <2>3, <2>4 DEF Request
<1>23. CASE Open
  <2>1. Empty \in File
    BY DEF Empty, File
  <2>2. action.offset \in Nat
    BY DEF TypeOK, Actions
  <2>3. FilesType' /\ CallType' /\ RemoteType' /\ RunType'
    BY <1>2, <1>23, <2>1, <2>2
       DEF Open, FilesType, CallType, RemoteType, RunType, call, remote, AttemptErr, Errors
  <2>4. LoopType'
    BY <1>5, <1>23 DEF Open, Goto, AttemptErr, Steps
  <2> QED BY <2>3, <2>4, <1>1
<1>24. ASSUME NEW n \in Nat, Write(n), UNCHANGED <<dest, action>>, written' \in Nat,
              err' \in Errors \cup {None}
       PROVE  FilesType' /\ RunType'
  <2>1. body.of \in Versions /\ body.at \in Nat
    BY DEF TypeOK, Body
  <2>2. part' \in File \cup {Absent}
    BY <2>1, <1>24, ExtendedType DEF Write, TypeOK
  <2>3. body' \in Body
    BY <2>1, <1>24 DEF Write, TypeOK, Body
  <2> QED BY <1>2, <1>24, <2>2, <2>3 DEF FilesType, RunType
<1>25. CASE ReceiveChunk
  <2>1. FilesType' /\ RunType'
    <3>1. PICK n \in 1..(Size[body.of] - body.at) :
            \/ AttemptErr("Cancelled") /\ UNCHANGED <<part, body, written>>
            \/ /\ Write(n)
               /\ written' = IF Observed THEN written + n ELSE written
               /\ UNCHANGED err
            \/ \E m \in 0..(n - 1) : Write(m) /\ AttemptErr("Io") /\ UNCHANGED written
      BY <1>25 DEF ReceiveChunk
    <3>2. n \in Nat /\ n >= 1 /\ \A m \in 0..(n - 1) : m \in Nat
      BY FileAssumption DEF TypeOK, Body
    <3>3. UNCHANGED <<dest, action>> /\ written \in Nat /\ err \in Errors \cup {None}
      BY <1>25 DEF ReceiveChunk, TypeOK
    <3>4. CASE AttemptErr("Cancelled") /\ UNCHANGED <<part, body, written>>
      BY <3>3, <3>4, <1>2 DEF FilesType, RunType, AttemptErr, Errors
    <3>5. CASE /\ Write(n)
               /\ written' = IF Observed THEN written + n ELSE written
               /\ UNCHANGED err
      <4>1. written' \in Nat /\ err' \in Errors \cup {None}
        BY <3>2, <3>3, <3>5
      <4> QED BY <3>2, <3>3, <3>5, <4>1, <1>24
    <3>6. ASSUME NEW m \in 0..(n - 1), Write(m), AttemptErr("Io"), UNCHANGED written
          PROVE  FilesType' /\ RunType'
      BY <3>2, <3>3, <3>6, <1>24 DEF AttemptErr, Errors
    <3>7. CASE \E m \in 0..(n - 1) : Write(m) /\ AttemptErr("Io") /\ UNCHANGED written
      BY <3>6, <3>7
    <3> QED BY <3>1, <3>4, <3>5, <3>7
  <2>2. CallType' /\ RemoteType'
    BY <1>2, <1>25 DEF ReceiveChunk, CallType, RemoteType, call, remote
  <2>3. LoopType'
    BY <1>5, <1>25 DEF ReceiveChunk, AttemptErr, Goto, Steps
  <2> QED BY <2>1, <2>2, <2>3, <1>1
<1>26. CASE StreamError
  <2>1. RunType'
    BY <1>2, <1>26 DEF StreamError, RunType, AttemptErr, Errors, Retryable
  <2> QED BY <2>1, <1>1, <1>3, <1>5, <1>26 DEF StreamError, AttemptErr, Goto, Steps
<1>27. CASE EndOfStream
  <2>1. RunType'
    BY <1>2, <1>27 DEF EndOfStream, RunType, AttemptErr, Errors
  <2> QED BY <2>1, <1>1, <1>3, <1>5, <1>27 DEF EndOfStream, AttemptErr, Goto, Steps
<1>28. CASE VerifyPart
  <2>1. RunType'
    BY <1>2, <1>28 DEF VerifyPart, RunType, AttemptErr, DiscardThenErr, Errors, Retryable
  <2>2. LoopType'
    BY <1>5, <1>28 DEF VerifyPart, Goto, AttemptErr, DiscardThenErr, Steps
  <2> QED BY <2>1, <2>2, <1>1, <1>3, <1>28 DEF VerifyPart
<1>29. CASE RemoveOld
  <2>1. FilesType' /\ CallType' /\ RemoteType'
    BY <1>2, <1>29 DEF RemoveOld, FilesType, CallType, RemoteType, call, remote
  <2> QED BY <2>1, <1>1, <1>4, <1>5, <1>29 DEF RemoveOld, TypeOK, Steps
<1>30. CASE Install
  <2>1. FilesType' /\ CallType' /\ RemoteType'
    BY <1>2, <1>30 DEF Install, FilesType, CallType, RemoteType, call, remote
  <2>2. inFlight' \in 0..(Width - 1) /\ finals' \in Nat
    BY <1>30, ObserveType DEF Install, events, TypeOK
  <2>3. LoopType'
    BY <1>2, <1>30, <2>2
       DEF Install, LoopType, AttemptsLeft, Goto, loops, Ended, Outcomes
  <2> QED BY <2>1, <2>3, <1>1, <1>4, <1>30 DEF Install
<1>31. CASE InstallError
  <2>1. RunType'
    BY <1>2, <1>31 DEF InstallError, RunType, AttemptErr, Errors
  <2> QED BY <2>1, <1>1, <1>3, <1>5, <1>31 DEF InstallError, AttemptErr, Goto, Steps
<1>32. CASE Cancel
  <2>1. FilesType' /\ CallType' /\ RemoteType'
    BY <1>2, <1>32 DEF Cancel, FilesType, CallType, RemoteType, disk, remote
  <2>2. LoopType'
    BY <1>2, <1>32 DEF Cancel, LoopType, AttemptsLeft, events, loops
  <2> QED BY <2>1, <2>2, <1>1, <1>4, <1>32 DEF Cancel
<1>33. CASE RemoteUpdate
  <2>1. FilesType' /\ CallType' /\ RemoteType'
    BY <1>2, <1>33 DEF RemoteUpdate, FilesType, CallType, RemoteType, disk, call
  <2>2. LoopType'
    BY <1>2, <1>33 DEF RemoteUpdate, LoopType, AttemptsLeft, events, loops
  <2> QED BY <2>1, <2>2, <1>1, <1>4, <1>33 DEF RemoteUpdate
<1>34. CASE Crash
  BY <1>1, <1>3, <1>4, <1>5, <1>34 DEF Crash, Goto, Ended
<1>35. CASE Rerun
  <2>1. FilesType' /\ CallType' /\ RemoteType'
    <3>1. job' \in Job
      <4>1. PICK c \in BOOLEAN, h \in BOOLEAN :
              job' = [job EXCEPT !.want = cur, !.checksum = c, !.href = h]
        BY <1>35 DEF Rerun
      <4>2. job \in Job /\ cur \in Versions
        BY DEF TypeOK
      <4>3. job' = [want |-> cur, mode |-> job.mode, checksum |-> c, href |-> h]
        BY <4>1, <4>2 DEF Job
      <4>4. job.mode \in {"SizeOnly", "SizeAndChecksum"}
        BY <4>2 DEF Job
      <4>5. c \in BOOLEAN /\ h \in BOOLEAN
        OBVIOUS
      <4>6. job' \in [want: Versions, mode: {"SizeOnly", "SizeAndChecksum"},
                      checksum: BOOLEAN, href: BOOLEAN]
        BY <4>2, <4>3, <4>4, <4>5, Zenon
      <4> QED BY <4>6 DEF Job
    <3>2. runs' \in Nat
      BY <1>35 DEF Rerun, FreshRun, TypeOK
    <3>3. cancelled' \in BOOLEAN
      BY <1>35, Zenon DEF Rerun, FreshRun
    <3>4. FilesType' /\ RemoteType'
      BY <1>2, <1>35 DEF Rerun, FilesType, RemoteType, disk, remote
    <3> QED BY <3>1, <3>2, <3>3, <3>4 DEF CallType
  <2>2. RunType'
    <3>1. body' \in Body
      BY <1>2, <1>35 DEF Rerun, FreshRun, RemoteType, Body
    <3>2. action' \in Actions
      BY <1>35 DEF Rerun, FreshRun, Actions, Start
    <3> QED BY <3>1, <3>2, <1>35 DEF Rerun, FreshRun, RunType
  <2>3. LoopType'
    BY <1>35, ConfigAssumption
       DEF Rerun, FreshRun, LoopType, AttemptsLeft, Goto, Steps
  <2> QED BY <2>1, <2>2, <2>3, <1>1
<1> QED
  BY <1>6, <1>7, <1>8, <1>9, <1>10, <1>11, <1>12, <1>13, <1>16, <1>17, <1>18, <1>19,
     <1>20, <1>22, <1>23, <1>25, <1>26, <1>27, <1>28, <1>29, <1>30, <1>31, <1>32,
     <1>33, <1>34, <1>35
     DEF Next, Worker, Server, Environment

\* Every variable keeps its type, the aggregator's counter among them, and the
\* two loops of a job never count past their limits.
THEOREM TypeCorrect == Spec => []TypeOK
<1>1. TypeInv => TypeOK
  BY DEF TypeInv
<1> QED BY <1>1, InitType, StepType, PTL DEF Spec
-----------------------------------------------------------------------------
(* What is installed, and what a successful result stands for *)

\* The partial file is there while it is written and checked, has the expected
\* length when an earlier attempt left it complete, and has passed every check
\* when the session is about to move it.
FilesReady ==
  /\ pc \in {"body", "verify", "finalize", "install"} => part # Absent
  /\ pc = "finalize" => Len(part) = Expected
  /\ pc = "install" => FileMatches(part)

Safe == FilesReady /\ OkMeansThere

\* The places where FilesReady asks for something of the partial file.
Guarded == {"body", "verify", "finalize", "install"}

\* An error that leaves download_to never makes the job return a success.
LEMMA FailedIsNoSuccess ==
  ASSUME NEW e \in Errors \cup {None}, DownloadToFailed(e)
  PROVE  /\ pc' \in {"link", "done"}
         /\ pc' = "done" => result' \notin Outcomes
<1>1. e \notin Outcomes
  BY DEF Errors, Retryable, None, Outcomes
<1>2. CASE e = "LinkExpired" /\ linkNo < MaxLinkAttempts
  BY <1>2 DEF DownloadToFailed, Goto
<1>3. CASE ~ (e = "LinkExpired" /\ linkNo < MaxLinkAttempts)
  BY <1>1, <1>3 DEF DownloadToFailed, Return, Goto
<1> QED BY <1>2, <1>3

\* A file that has the expected length and passed verify matches the listing.
LEMMA AcceptedMatches ==
  ASSUME part # Absent, Len(part) = Expected, Accepted(part)
  PROVE  FileMatches(part)
BY DEF Len, Accepted, FileMatches

\* A job starts with nothing installed and nothing reported.
LEMMA InitSafe == Init => Safe
BY DEF Init, Safe, FilesReady, OkMeansThere

\* Every step keeps the partial file ready for the step that follows it, and
\* a success is only reported of a file that is there.
LEMMA StepSafe == TypeInv /\ Safe /\ [Next]_vars => Safe'
<1> SUFFICES ASSUME TypeInv, Safe, [Next]_vars PROVE Safe'
  OBVIOUS
<1>1. TypeOK
  BY DEF TypeInv
<1>2. ASSUME pc' \notin Guarded, pc' = "done" => result' \notin Outcomes
      PROVE  Safe'
  BY <1>2 DEF Safe, FilesReady, OkMeansThere, Guarded
<1>3. ASSUME UNCHANGED <<disk, pc, job, result>> PROVE Safe'
  BY <1>3 DEF Safe, FilesReady, OkMeansThere, FileMatches, Verify, HasContent, Len,
              Expected, disk
<1>4. CASE UNCHANGED vars
  BY <1>3, <1>4 DEF vars, call
<1>5. CASE GetLink
  BY <1>2, <1>5 DEF GetLink, Goto, Return, Guarded, Outcomes
<1>6. CASE ApiReply
  BY <1>2, <1>6 DEF ApiReply, Goto, Return, Guarded, Outcomes
<1>7. CASE EnsureDir
  <2>1. CASE DownloadToFailed("Io")
    BY <2>1, <1>2, FailedIsNoSuccess DEF Errors, Guarded
  <2> QED BY <2>1, <1>2, <1>7 DEF EnsureDir, Goto, Guarded
<1>8. CASE SkipMatching
  <2>1. CASE FileMatches(dest) /\ Return("AlreadyComplete", 0)
    BY <2>1, <1>8
       DEF SkipMatching, Return, Goto, Safe, FilesReady, OkMeansThere, FileMatches, Verify,
           HasContent, Expected, disk, call
  <2>2. CASE DownloadToFailed("Io")
    BY <2>2, <1>2, FailedIsNoSuccess DEF Errors, Guarded
  <2> QED BY <2>1, <2>2, <1>2, <1>8 DEF SkipMatching, Goto, Guarded
<1>9. CASE BeginAttempt
  <2>1. CASE DownloadToFailed("Cancelled")
    BY <2>1, <1>2, FailedIsNoSuccess DEF Errors, Guarded
  <2> QED BY <2>1, <1>2, <1>9 DEF BeginAttempt, Goto, Guarded
<1>10. CASE EndAttempt
  <2>1. CASE DownloadToFailed(err)
    BY <2>1, <1>1, <1>2, FailedIsNoSuccess DEF TypeOK, Guarded
  <2> QED BY <2>1, <1>2, <1>10 DEF EndAttempt, Goto, Guarded
<1>11. CASE Backoff
  <2>1. CASE DownloadToFailed("Cancelled")
    BY <2>1, <1>2, FailedIsNoSuccess DEF Errors, Guarded
  <2> QED BY <2>1, <1>2, <1>11 DEF Backoff, Goto, Guarded
<1>12. CASE Inspect
  <2>1. CASE action' = DetermineState(Len(part), Expected) /\ action'.kind = "Finalize"
             /\ pc' = "finalize"
    <3>1. Len(part) = Expected /\ Len(part) # 0
      BY <2>1, <1>1, LenType, ExpectedType, DetermineType DEF TypeOK
    <3>2. part # Absent
      BY <3>1 DEF Len
    <3> QED BY <2>1, <3>1, <3>2, <1>12
            DEF Inspect, Safe, FilesReady, OkMeansThere, Len, Expected, disk, call
  <2>2. CASE pc' \notin Guarded \cup {"done"}
    BY <2>2, <1>2
  <2> QED BY <2>1, <2>2, <1>12 DEF Inspect, Goto, AttemptErr, Guarded
<1>13. CASE Reset
  BY <1>2, <1>13 DEF Reset, Goto, AttemptErr, Guarded
<1>14. CASE Reinspect
  BY <1>2, <1>14 DEF Reinspect, Goto, AttemptErr, Guarded
<1>15. ASSUME pc' = "install", UNCHANGED <<disk, job>>, part # Absent,
              Len(part) = Expected, Accepted(part)
       PROVE  Safe'
  <2>1. FileMatches(part)
    BY <1>15, AcceptedMatches
  <2> QED BY <2>1, <1>15
          DEF Safe, FilesReady, OkMeansThere, FileMatches, Verify, HasContent, Len,
              Expected, disk
<1>16. CASE FinalizeExisting
  BY <1>2, <1>15, <1>16
     DEF FinalizeExisting, Goto, AttemptErr, DiscardThenErr, Guarded, Safe, FilesReady, call
<1>17. CASE Discard
  BY <1>2, <1>17 DEF Discard, Goto, Guarded
<1>18. CASE Request
  BY <1>2, <1>18
     DEF Request, ValidateResponse, DownloadError, Accept, DiscardThenErr, AttemptErr,
         Goto, Guarded
<1>19. CASE Open
  <2>1. CASE part' = (IF IsResuming /\ part # Absent THEN part ELSE Empty) /\ pc' = "body"
    <3>1. Empty # Absent
      BY FileAssumption DEF Empty, File
    <3> QED BY <2>1, <3>1 DEF Safe, FilesReady, OkMeansThere
  <2>2. CASE AttemptErr("Io")
    BY <2>2, <1>2 DEF AttemptErr, Goto, Guarded
  <2> QED BY <2>1, <2>2, <1>19 DEF Open, Goto
<1>20. CASE ReceiveChunk
  <2>1. CASE AttemptErr("Cancelled") \/ AttemptErr("Io")
    BY <2>1, <1>2 DEF AttemptErr, Goto, Guarded
  <2>2. ASSUME NEW n \in 1..(Size[body.of] - body.at), Write(n), UNCHANGED pc
        PROVE  Safe'
    <3>1. body.of \in Versions /\ body.at \in Nat /\ n \in Nat
      BY <1>1, FileAssumption DEF TypeOK, Body
    <3>2. part # Absent /\ part \in File \cup {Absent}
      BY <1>1, <1>20 DEF ReceiveChunk, Safe, FilesReady, TypeOK
    <3>3. part' # Absent
      BY <2>2, <3>1, <3>2, ExtendedType DEF Write
    <3> QED BY <2>2, <3>3, <1>20 DEF ReceiveChunk, Safe, FilesReady, OkMeansThere
  <2> QED BY <2>1, <2>2, <1>20 DEF ReceiveChunk
<1>21. CASE StreamError
  BY <1>2, <1>21 DEF StreamError, AttemptErr, Goto, Guarded
<1>22. CASE EndOfStream
  <2>1. CASE AttemptErr("Io")
    BY <2>1, <1>2 DEF AttemptErr, Goto, Guarded
  <2>2. CASE pc' = "verify"
    BY <2>2, <1>22 DEF EndOfStream, Safe, FilesReady, OkMeansThere, disk
  <2> QED BY <2>1, <2>2, <1>22 DEF EndOfStream, Goto
<1>23. CASE VerifyPart
  BY <1>2, <1>15, <1>23
     DEF VerifyPart, Goto, AttemptErr, DiscardThenErr, Guarded, Safe, FilesReady, call
<1>24. CASE RemoveOld
  BY <1>24
     DEF RemoveOld, Safe, FilesReady, OkMeansThere, FileMatches, Verify, HasContent, Len,
         Expected, call
<1>25. CASE Install
  BY <1>25
     DEF Install, Goto, Safe, FilesReady, OkMeansThere, FileMatches, Verify, HasContent,
         Expected, call
<1>26. CASE InstallError
  BY <1>2, <1>26 DEF InstallError, AttemptErr, Goto, Guarded
<1>27. CASE Cancel
  BY <1>3, <1>27 DEF Cancel
<1>28. CASE RemoteUpdate
  BY <1>3, <1>28 DEF RemoteUpdate, call
<1>29. CASE Crash
  BY <1>2, <1>29 DEF Crash, Goto, Guarded
<1>30. CASE Rerun
  BY <1>2, <1>30 DEF Rerun, FreshRun, Goto, Guarded
<1> QED
  BY <1>4, <1>5, <1>6, <1>7, <1>8, <1>9, <1>10, <1>11, <1>12, <1>13, <1>14, <1>16,
     <1>17, <1>18, <1>19, <1>20, <1>21, <1>22, <1>23, <1>24, <1>25, <1>26, <1>27,
     <1>28, <1>29, <1>30
     DEF Next, Worker, Server, Environment

\* A job that reports success has left a file at the destination that matches
\* the listing it was started from: its size, and its checksum when one is asked
\* for, over any number of crashes, retries, fresh links and remote updates.
THEOREM SuccessIsThere == Spec => []OkMeansThere
<1>1. Safe => OkMeansThere
  BY DEF Safe
<1> QED BY <1>1, InitType, StepType, InitSafe, StepSafe, PTL DEF Spec

\* Whatever a step does to the destination, it either moves a partial file
\* there whole that passed every check, or makes room for one on Windows.
LEMMA StepInstalls ==
  ASSUME Safe, [Next]_vars
  PROVE  dest' # dest => /\ FileMatches(part)
                         /\ \/ dest' = part /\ part' = Absent
                            \/ Windows /\ dest' = Absent /\ part' = part
<1>1. CASE Install
  BY <1>1 DEF Install, Safe, FilesReady
<1>2. CASE RemoveOld
  BY <1>2 DEF RemoveOld, Safe, FilesReady
<1>3. CASE Server
  BY <1>3 DEF Server, ApiReply, Request, ReceiveChunk, StreamError, EndOfStream, disk
<1>4. CASE Environment
  BY <1>4 DEF Environment, Cancel, RemoteUpdate, Crash, Rerun, disk
<1>5. CASE Worker
  BY <1>1, <1>2, <1>5
     DEF Worker, GetLink, EnsureDir, SkipMatching, BeginAttempt, EndAttempt, Backoff,
         Inspect, Reset, Reinspect, FinalizeExisting, Discard, Open, VerifyPart,
         InstallError, disk
<1>6. CASE UNCHANGED vars
  BY <1>6 DEF vars, disk
<1> QED BY <1>3, <1>4, <1>5, <1>6 DEF Next

\* The destination only ever receives files that the skip check of a later run
\* accepts, moved there whole, whatever is killed, cancelled or replaced when.
THEOREM OnlyVerifiedInstalled == Spec => InstalledOnlyVerified
<1>1. Safe /\ [Next]_vars
        => [dest' # dest => /\ FileMatches(part)
                            /\ \/ dest' = part /\ part' = Absent
                               \/ Windows /\ dest' = Absent /\ part' = part]_vars
  BY StepInstalls
<1> QED BY <1>1, InitType, StepType, InitSafe, StepSafe, PTL DEF Spec, InstalledOnlyVerified

-----------------------------------------------------------------------------
(* Terminal events *)

\* No terminal event goes out while the job runs.
FinalsInv ==
  /\ finals <= 1
  /\ pc \notin Ended => finals = 0

\* An error of download_to emits one terminal event, when the job ends.
LEMMA FailedFinals ==
  ASSUME finals = 0, NEW e, DownloadToFailed(e)
  PROVE  finals' = 0 \/ (finals' = 1 /\ pc' = "done")
<1>1. CASE UNCHANGED events
  BY <1>1 DEF events
<1>2. CASE Return(e, 1)
  BY <1>2 DEF Return, Goto, Observe
<1> QED BY <1>1, <1>2 DEF DownloadToFailed

\* A job starts without events.
LEMMA InitFinals == Init => FinalsInv
BY DEF Init, FinalsInv

\* A step emits a terminal event only as it ends the job.
LEMMA StepFinals == TypeInv /\ FinalsInv /\ [Next]_vars => FinalsInv'
<1> SUFFICES ASSUME TypeInv, FinalsInv, [Next]_vars PROVE FinalsInv'
  OBVIOUS
<1>1. ASSUME finals' = 0 \/ (finals' = 1 /\ pc' = "done") PROVE FinalsInv'
  BY <1>1 DEF FinalsInv, Ended
<1>2. ASSUME pc \notin Ended, UNCHANGED events PROVE FinalsInv'
  BY <1>1, <1>2 DEF FinalsInv, events
<1>3. ASSUME UNCHANGED <<pc, events>> PROVE FinalsInv'
  BY <1>3 DEF FinalsInv, events
<1>4. ASSUME pc \notin Ended, NEW e, DownloadToFailed(e) PROVE FinalsInv'
  BY <1>1, <1>4, FailedFinals DEF FinalsInv
<1>5. ASSUME pc \notin Ended, NEW e, Return(e, 0) PROVE FinalsInv'
  BY <1>1, <1>5 DEF FinalsInv, Return, Observe
<1>6. CASE GetLink
  BY <1>2, <1>5, <1>6 DEF GetLink, Ended
<1>7. CASE ApiReply
  BY <1>2, <1>5, <1>7 DEF ApiReply, Ended
<1>8. CASE EnsureDir
  BY <1>2, <1>4, <1>8 DEF EnsureDir, Ended
<1>9. CASE SkipMatching
  BY <1>2, <1>4, <1>5, <1>9 DEF SkipMatching, Ended
<1>10. CASE BeginAttempt
  BY <1>2, <1>4, <1>10 DEF BeginAttempt, Ended
<1>11. CASE EndAttempt
  BY <1>2, <1>4, <1>11 DEF EndAttempt, Ended
<1>12. CASE Backoff
  BY <1>2, <1>4, <1>12 DEF Backoff, Ended
<1>13. ASSUME pc \notin Ended, EmitStarted PROVE FinalsInv'
  BY <1>1, <1>13 DEF FinalsInv, EmitStarted, Observe
<1>14. CASE Inspect
  BY <1>2, <1>13, <1>14 DEF Inspect, Ended
<1>15. CASE Reinspect
  BY <1>2, <1>13, <1>15 DEF Reinspect, Ended
<1>16. CASE Install
  <2>1. finals = 0
    BY <1>16 DEF Install, FinalsInv, Ended
  <2>2. finals' = 0 \/ finals' = 1
    BY <2>1, <1>16 DEF Install, Observe, events
  <2> QED BY <2>2, <1>1, <1>16 DEF Install, Goto
<1>17. CASE Reset \/ FinalizeExisting \/ Discard \/ Open \/ VerifyPart \/ RemoveOld
            \/ InstallError
  BY <1>2, <1>17
     DEF Reset, FinalizeExisting, Discard, Open, VerifyPart, RemoveOld, InstallError, Ended
<1>18. CASE Request \/ ReceiveChunk \/ StreamError \/ EndOfStream
  BY <1>2, <1>18 DEF Request, ReceiveChunk, StreamError, EndOfStream, Ended
<1>19. CASE Cancel \/ Crash
  BY <1>2, <1>19 DEF Cancel, Crash
<1>20. CASE RemoteUpdate
  BY <1>3, <1>20 DEF RemoteUpdate
<1>21. CASE Rerun
  BY <1>1, <1>21 DEF Rerun, FreshRun
<1>22. CASE UNCHANGED vars
  BY <1>3, <1>22 DEF vars
<1> QED
  BY <1>6, <1>7, <1>8, <1>9, <1>10, <1>11, <1>12, <1>14, <1>15, <1>16, <1>17, <1>18,
     <1>19, <1>20, <1>21, <1>22
     DEF Next, Worker, Server, Environment

\* An observer sees at most one terminal event of a run of a job, and nothing
\* of that job after it: retries, fresh links, cancellation and errors in every
\* order never make it two.
THEOREM OneFinalEvent == Spec => []FinalsMatch
<1>1. TypeInv /\ FinalsInv => FinalsMatch
  BY DEF TypeInv, TypeOK, FinalsInv, FinalsMatch
<1> QED BY <1>1, InitType, StepType, InitFinals, StepFinals, PTL DEF Spec

-----------------------------------------------------------------------------
(* Byte counts *)

\* Between the inspection and the opening of the partial file its length is the
\* offset the session goes on from, and while bytes come it is their count.
Counting ==
  /\ pc \in {"request", "open"} =>
       IF IsResuming THEN part # Absent /\ Len(part) = action.offset
                     ELSE action.offset = 0
  /\ ProgressMatchesPart

\* The places where Counting asks for something.
Counted == {"request", "open", "body"}

\* Writing n bytes makes the file n bytes longer.
LEMMA ExtendedLength ==
  ASSUME NEW f \in File \cup {Absent}, NEW v \in Versions, NEW at \in Nat, NEW n \in Nat
  PROVE  Len(Extended(f, v, at, n)) = Len(f) + n
<1>1. Len(f) \in Nat
  BY LenType
<1>2. CASE n = 0
  BY <1>1, <1>2 DEF Extended
<1>3. CASE n # 0
  <2> DEFINE d == IF at = Len(f) /\ (Len(f) = 0 \/ f.data = v) THEN v ELSE Mixed
  <2>1. Extended(f, v, at, n) = [size |-> Len(f) + n, data |-> d]
    BY <1>3 DEF Extended
  <2>2. [size |-> Len(f) + n, data |-> d] \in File
    BY <1>1 DEF File
  <2> QED BY <2>1, <2>2, FileAssumption DEF Len
<1> QED BY <1>2, <1>3

\* The session's decision names the length of the partial file it was made on.
LEMMA DecisionCounts ==
  ASSUME TypeOK, action' = DetermineState(Len(part), Expected), UNCHANGED disk
  PROVE  IF action'.kind = "Resume" THEN part' # Absent /\ Len(part') = action'.offset
                                    ELSE action'.offset = 0
<1>1. Len(part) \in Nat /\ Expected \in Nat
  BY LenType, ExpectedType DEF TypeOK
<1>2. action'.offset = IF action'.kind = "Resume" THEN Len(part) ELSE 0
  BY <1>1, DetermineType
<1>3. action'.kind = "Resume" => Len(part) # 0
  BY <1>1 DEF DetermineState, Start
<1> QED BY <1>2, <1>3 DEF Len, disk

\* A job starts before any byte is counted.
LEMMA InitCounting == Init => Counting
BY DEF Init, Counting, ProgressMatchesPart

\* Every step keeps the count and the file together.
LEMMA StepCounting == TypeInv /\ Counting /\ [Next]_vars => Counting'
<1> SUFFICES ASSUME TypeInv, Counting, [Next]_vars PROVE Counting'
  OBVIOUS
<1>1. TypeOK
  BY DEF TypeInv
<1>2. ASSUME pc' \notin Counted PROVE Counting'
  BY <1>2 DEF Counting, ProgressMatchesPart, Counted
<1>3. ASSUME UNCHANGED <<pc, disk, action, written>> PROVE Counting'
  BY <1>3 DEF Counting, ProgressMatchesPart, IsResuming, Len, disk
<1>4. CASE UNCHANGED vars
  BY <1>3, <1>4 DEF vars
<1>5. CASE GetLink \/ ApiReply \/ EnsureDir \/ SkipMatching \/ BeginAttempt \/ EndAttempt
           \/ Backoff
  <2>1. pc' \in {"link", "api", "dir", "match", "attempt", "inspect", "backoff", "done"}
    BY <1>5 DEF GetLink, ApiReply, EnsureDir, SkipMatching, BeginAttempt, EndAttempt,
                Backoff, DownloadToFailed, Return, Goto
  <2> QED BY <2>1, <1>2 DEF Counted
<1>6. CASE Inspect
  <2>1. CASE action' = DetermineState(Len(part), Expected) /\ pc' = "request"
    BY <2>1, <1>1, <1>6, DecisionCounts
       DEF Inspect, Counting, ProgressMatchesPart, IsResuming
  <2> QED BY <2>1, <1>2, <1>6 DEF Inspect, Goto, AttemptErr, Counted
<1>7. CASE Reinspect
  <2>1. CASE action' = DetermineState(Len(part), Expected) /\ pc' = "request"
    BY <2>1, <1>1, <1>7, DecisionCounts
       DEF Reinspect, Counting, ProgressMatchesPart, IsResuming
  <2> QED BY <2>1, <1>2, <1>7 DEF Reinspect, Goto, AttemptErr, Counted
<1>8. CASE Reset \/ FinalizeExisting \/ Discard \/ StreamError \/ EndOfStream \/ VerifyPart
           \/ Install \/ InstallError \/ Crash \/ Rerun
  <2>1. pc' \in {"failed", "reinspect", "install", "discard", "verify", "done", "down", "link"}
    BY <1>8 DEF Reset, FinalizeExisting, Discard, StreamError, EndOfStream, VerifyPart,
                Install, InstallError, Crash, Rerun, FreshRun, AttemptErr, DiscardThenErr, Goto
  <2> QED BY <2>1, <1>2 DEF Counted
<1>9. CASE Request
  <2>1. ASSUME pc' = "open", UNCHANGED part, action' = action
        PROVE  Counting'
    BY <2>1, <1>9 DEF Request, Counting, ProgressMatchesPart, IsResuming, Len
  <2>2. ASSUME pc' = "open", action' = [kind |-> "Restart", offset |-> 0]
        PROVE  Counting'
    BY <2>2 DEF Counting, ProgressMatchesPart, IsResuming
  <2>3. \/ pc' = "open" /\ action' = action
        \/ pc' = "open" /\ action' = [kind |-> "Restart", offset |-> 0]
        \/ pc' \in {"discard", "failed"}
    BY <1>9 DEF Request, ValidateResponse, DownloadError, Accept, DiscardThenErr, AttemptErr,
                Goto
  <2> QED BY <2>1, <2>2, <2>3, <1>2, <1>9 DEF Request, Counted, disk
<1>10. CASE Open
  <2>1. CASE AttemptErr("Io")
    BY <2>1, <1>2 DEF AttemptErr, Goto, Counted
  <2>2. CASE /\ part' = IF IsResuming /\ part # Absent THEN part ELSE Empty
             /\ written' = action.offset
             /\ pc' = "body"
    <3>1. Empty # Absent /\ Len(Empty) = 0
      BY FileAssumption DEF Empty, File, Len
    <3>2. written' = Len(part')
      BY <2>2, <3>1, <1>10 DEF Open, Counting, Len
    <3> QED BY <2>2, <3>2 DEF Counting, ProgressMatchesPart, Len
  <2> QED BY <2>1, <2>2, <1>10 DEF Open, Goto
<1>11. CASE ReceiveChunk
  <2>1. CASE pc' = "failed"
    BY <2>1, <1>2 DEF Counted
  <2>2. ASSUME NEW n \in 1..(Size[body.of] - body.at), Write(n), UNCHANGED pc,
               written' = IF Observed THEN written + n ELSE written
        PROVE  Counting'
    <3>1. n \in Nat /\ part \in File \cup {Absent} /\ body.of \in Versions /\ body.at \in Nat
      BY <1>1, FileAssumption DEF TypeOK, Body
    <3>2. Len(part') = Len(part) + n
      BY <2>2, <3>1, ExtendedLength DEF Write
    <3>3. Observed => written' = Len(part')
      BY <2>2, <3>2, <1>11 DEF ReceiveChunk, Counting, ProgressMatchesPart
    <3> QED BY <2>2, <3>3, <1>11 DEF ReceiveChunk, Counting, ProgressMatchesPart, Len
  <2> QED BY <2>1, <2>2, <1>11 DEF ReceiveChunk, AttemptErr, Goto
<1>12. CASE RemoveOld
  BY <1>2, <1>12 DEF RemoveOld, Counted
<1>13. CASE Cancel
  BY <1>3, <1>13 DEF Cancel
<1>14. CASE RemoteUpdate
  BY <1>3, <1>14 DEF RemoteUpdate
<1> QED
  BY <1>4, <1>5, <1>6, <1>7, <1>8, <1>9, <1>10, <1>11, <1>12, <1>13, <1>14
     DEF Next, Worker, Server, Environment

\* The byte count of a job's Progress events is the length of its partial file,
\* over retries, resumes, restarts and crashes, for files of any length.
THEOREM ProgressIsExact == Spec => []ProgressMatchesPart
<1>1. Counting => ProgressMatchesPart
  BY DEF Counting
<1> QED BY <1>1, InitType, StepType, InitCounting, StepCounting, PTL DEF Spec

-----------------------------------------------------------------------------
(* Resuming assembles the listed content *)

\* The remote file was not replaced, and a Range request is answered with 200
\* or 206 or an error.
Faithful == updates = 0 /\ ~OddStatus

\* What the partial file holds then, and where the body's next byte goes.
PureContent ==
  /\ job.want = cur
  /\ part # Absent => Prefix(part, cur)
  /\ pc = "open" => body = [of |-> cur, at |-> action.offset]
  /\ pc = "body" => body = [of |-> cur, at |-> Len(part)]

PureInv == Faithful => PureContent

\* Bytes of v written behind a prefix of v, from its end on, make a prefix of v.
LEMMA ExtendedPrefix ==
  ASSUME NEW f \in File, NEW v \in Versions, Prefix(f, v),
         NEW n \in Nat, f.size + n <= Size[v]
  PROVE  Prefix(Extended(f, v, f.size, n), v)
<1>1. f # Absent /\ f.size \in Nat
  BY FileAssumption DEF File
<1>2. CASE n = 0
  BY <1>2 DEF Extended
<1>3. CASE n # 0
  <2>1. f.size = 0 \/ f.data = v
    BY DEF Prefix
  <2>2. Extended(f, v, f.size, n) = [size |-> f.size + n, data |-> v]
    BY <1>1, <1>3, <2>1 DEF Extended, Len
  <2>3. [size |-> f.size + n, data |-> v] \in File
    BY <1>1 DEF File
  <2> QED BY <2>2, <2>3, FileAssumption DEF Prefix
<1> QED BY <1>2, <1>3

\* A job starts without a partial file.
LEMMA InitPure == Init => PureInv
BY DEF Init, PureInv, PureContent, Job

\* While nothing changes on the other side, no step puts other bytes behind
\* those of the listed version.
LEMMA StepPure == TypeInv /\ Safe /\ Counting /\ PureInv /\ [Next]_vars => PureInv'
<1> SUFFICES ASSUME TypeInv, Safe, Counting, PureInv, [Next]_vars, Faithful'
             PROVE  PureContent'
  BY DEF PureInv
<1>1. TypeOK
  BY DEF TypeInv
<1>2. CASE RemoteUpdate
  BY <1>1, <1>2 DEF RemoteUpdate, Faithful, TypeOK
<1>3. ASSUME UNCHANGED remote PROVE Faithful /\ PureContent /\ cur' = cur
  BY <1>3 DEF Faithful, PureInv, remote
<1>4. ASSUME UNCHANGED <<remote, job>>, part' \in {part, Absent}, pc' \notin {"open", "body"}
      PROVE  PureContent'
  BY <1>3, <1>4 DEF PureContent, Prefix
<1>5. ASSUME UNCHANGED <<remote, job, part, pc, body, action>> PROVE PureContent'
  BY <1>3, <1>5 DEF PureContent, Prefix, Len
<1>6. CASE UNCHANGED vars
  BY <1>5, <1>6 DEF vars, remote, disk, call
<1>7. CASE GetLink \/ ApiReply \/ EnsureDir \/ SkipMatching \/ BeginAttempt \/ EndAttempt
           \/ Backoff
  <2>1. UNCHANGED <<remote, disk, call>>
    BY <1>7 DEF GetLink, ApiReply, EnsureDir, SkipMatching, BeginAttempt, EndAttempt, Backoff
  <2>2. pc' \in {"link", "api", "dir", "match", "attempt", "inspect", "backoff", "done"}
    BY <1>7 DEF GetLink, ApiReply, EnsureDir, SkipMatching, BeginAttempt, EndAttempt,
                Backoff, DownloadToFailed, Return, Goto
  <2> QED BY <2>1, <2>2, <1>4 DEF disk, call
<1>8. CASE Inspect \/ Reinspect \/ FinalizeExisting \/ StreamError \/ EndOfStream
           \/ VerifyPart \/ RemoveOld \/ InstallError \/ Crash
  <2>1. UNCHANGED <<remote, part, call>>
    BY <1>8 DEF Inspect, Reinspect, FinalizeExisting, StreamError, EndOfStream, VerifyPart,
                RemoveOld, InstallError, Crash, disk
  <2>2. pc' \in {"failed", "request", "finalize", "reset", "install", "discard", "verify", "down"}
    BY <1>8 DEF Inspect, Reinspect, FinalizeExisting, StreamError, EndOfStream, VerifyPart,
                RemoveOld, InstallError, Crash, AttemptErr, DiscardThenErr, Goto
  <2> QED BY <2>1, <2>2, <1>4 DEF call
<1>9. CASE Reset \/ Discard \/ Install
  <2>1. UNCHANGED <<remote, call>> /\ part' \in {part, Absent}
    BY <1>9 DEF Reset, Discard, Install
  <2>2. pc' \in {"failed", "reinspect", "done"}
    BY <1>9 DEF Reset, Discard, Install, AttemptErr, Goto
  <2> QED BY <2>1, <2>2, <1>4 DEF call
<1>10. CASE Request
  <2>1. UNCHANGED <<remote, part, call>> /\ ~OddStatus
    BY <1>10 DEF Request, disk, Faithful
  <2>2. CASE pc' = "open"
    <3>1. \/ Accept(action, 0) /\ ~IsResuming
          \/ Accept(action, action.offset)
          \/ Accept([kind |-> "Restart", offset |-> 0], 0)
      BY <1>10, <2>1, <2>2
         DEF Request, ValidateResponse, DownloadError, DiscardThenErr, AttemptErr, Goto
    <3>2. ~IsResuming => action.offset = 0
      BY <1>10 DEF Request, Counting
    <3>3. body' = [of |-> cur, at |-> action'.offset]
      BY <3>1, <3>2 DEF Accept
    <3> QED BY <2>1, <2>2, <3>3, <1>3 DEF PureContent, Prefix, call
  <2>3. CASE pc' \in {"discard", "failed"}
    BY <2>1, <2>3, <1>4 DEF call
  <2> QED BY <2>2, <2>3, <1>10
          DEF Request, ValidateResponse, DownloadError, Accept, DiscardThenErr, AttemptErr, Goto
<1>11. CASE Open
  <2>1. UNCHANGED <<remote, call, body>>
    BY <1>11 DEF Open
  <2>2. CASE AttemptErr("Io") /\ UNCHANGED part
    BY <2>1, <2>2, <1>4 DEF AttemptErr, Goto, call
  <2>3. CASE part' = (IF IsResuming /\ part # Absent THEN part ELSE Empty) /\ pc' = "body"
    <3>1. Empty # Absent /\ Len(Empty) = 0 /\ Prefix(Empty, cur)
      BY <1>1, FileAssumption DEF Empty, File, Len, Prefix, TypeOK
    <3>2. Len(part') = action.offset
      BY <2>3, <3>1, <1>11 DEF Open, Counting, Len
    <3>3. Prefix(part', cur)
      BY <2>1, <2>3, <3>1, <1>3 DEF PureContent
    <3>4. body = [of |-> cur, at |-> action.offset]
      BY <2>1, <1>3, <1>11 DEF Open, PureContent
    <3> QED BY <2>1, <2>3, <3>2, <3>3, <3>4, <1>3 DEF PureContent, Prefix, Len, call
  <2> QED BY <2>2, <2>3, <1>11 DEF Open, Goto
<1>12. CASE ReceiveChunk
  <2>1. UNCHANGED <<remote, call>> /\ pc = "body"
    BY <1>12 DEF ReceiveChunk
  <2>2. body = [of |-> cur, at |-> Len(part)] /\ cur \in Versions
    BY <2>1, <1>1, <1>3 DEF PureContent, TypeOK
  <2>3. ASSUME NEW n \in Nat, Write(n), Len(part) + n <= Size[cur], part # Absent
        PROVE  part' # Absent /\ Prefix(part', cur) /\ body' = [of |-> cur, at |-> Len(part')]
    <3>1. part \in File /\ Prefix(part, cur) /\ Len(part) = part.size /\ Len(part) \in Nat
      BY <2>1, <2>3, <1>1, <1>3, LenType DEF PureContent, TypeOK, Len
    <3>2. part' = Extended(part, cur, part.size, n)
      BY <2>2, <2>3, <3>1 DEF Write
    <3>3. Prefix(part', cur)
      BY <2>2, <2>3, <3>1, <3>2, ExtendedPrefix
    <3>4. Len(part') = Len(part) + n
      BY <2>2, <3>1, <3>2, ExtendedLength
    <3>5. body' = [of |-> cur, at |-> Len(part) + n]
      BY <2>2, <2>3 DEF Write
    <3> QED BY <3>3, <3>4, <3>5 DEF Prefix
  <2> DEFINE Room == 1..(Size[body.of] - body.at)
  <2>4. ASSUME NEW n \in Room PROVE n \in Nat /\ Len(part) + n <= Size[cur]
    BY <2>2, <2>4, <1>1, LenType, FileAssumption DEF TypeOK
  <2>5. \A n \in Room : \A m \in 0..(n - 1) : m \in Nat /\ Len(part) + m <= Size[cur]
    BY <2>2, <1>1, LenType, FileAssumption DEF TypeOK
  <2>6. PICK n \in Room :
          \/ AttemptErr("Cancelled") /\ UNCHANGED part
          \/ Write(n) /\ UNCHANGED pc
          \/ AttemptErr("Io") /\ \E m \in 0..(n - 1) : Write(m)
    BY <1>12 DEF ReceiveChunk
  <2>7. part # Absent
    BY <2>1 DEF Safe, FilesReady
  <2>8. ASSUME part' # Absent /\ Prefix(part', cur), UNCHANGED <<remote, call>>,
               pc' = "body" => body' = [of |-> cur, at |-> Len(part')],
               pc' # "open"
        PROVE  PureContent'
    BY <2>8, <1>3 DEF PureContent, Prefix, Len, call
  <2>9. CASE AttemptErr("Cancelled") /\ UNCHANGED part
    BY <2>1, <2>9, <1>4 DEF AttemptErr, Goto, call
  <2>10. CASE Write(n) /\ UNCHANGED pc
    BY <2>1, <2>3, <2>4, <2>7, <2>8, <2>10
  <2>11. ASSUME NEW m \in 0..(n - 1), Write(m), AttemptErr("Io") PROVE PureContent'
    BY <2>1, <2>3, <2>5, <2>7, <2>8, <2>11 DEF AttemptErr, Goto
  <2> QED BY <2>6, <2>9, <2>10, <2>11
<1>13. CASE Cancel
  BY <1>5, <1>13 DEF Cancel, disk
<1>14. CASE Rerun
  <2>1. UNCHANGED <<remote, part>> /\ pc' = "link"
    BY <1>14 DEF Rerun, FreshRun, Goto, disk
  <2>2. job'.want = cur
    BY <1>1, <1>14 DEF Rerun, TypeOK, Job
  <2> QED BY <2>1, <2>2, <1>3 DEF PureContent, Prefix
<1> QED
  BY <1>2, <1>6, <1>7, <1>8, <1>9, <1>10, <1>11, <1>12, <1>13, <1>14
     DEF Next, Worker, Server, Environment

\* What is installed is the listed content then.
LEMMA StepFaithful ==
  ASSUME TypeInv, Safe, PureInv, [Next]_vars,
         dest' # dest, dest' # Absent, updates = 0, ~OddStatus
  PROVE  HasContent(dest', job.want)
<1>1. FileMatches(part) /\ dest' = part
  BY StepInstalls
<1>2. PureContent
  BY DEF PureInv, Faithful
<1> QED BY <1>1, <1>2 DEF PureContent, Prefix, FileMatches, HasContent, Expected

\* While the remote file is not replaced and a Range request is answered with
\* 200 or 206, only the listed content is ever installed: any number of
\* interrupted attempts and runs, of any chunks, repeats, skips or mixes no
\* byte, although without a checksum nothing but the length is compared.
THEOREM ResumingIsFaithful == Spec => FaithfulWhenUnchanged
<1>1. TypeInv /\ Safe /\ PureInv /\ [Next]_vars
        => [dest' # dest /\ dest' # Absent /\ updates = 0 /\ ~OddStatus
              => HasContent(dest', job.want)]_vars
  BY StepFaithful
<1>2. Init => TypeInv /\ Safe /\ Counting /\ PureInv
  BY InitType, InitSafe, InitCounting, InitPure
<1>3. TypeInv /\ Safe /\ Counting /\ PureInv /\ [Next]_vars
        => (TypeInv /\ Safe /\ Counting /\ PureInv)'
  BY StepType, StepSafe, StepCounting, StepPure
<1> QED BY <1>1, <1>2, <1>3, PTL DEF Spec, FaithfulWhenUnchanged

-----------------------------------------------------------------------------
(* When bytes are given up *)

ServerSaidNo == {"RangeNotSatisfiable", "InvalidContentRange"}

\* Where the session is about to remove or to empty the partial file, the file
\* is too long, holds other bytes, or the server gave the reason.
Keeping ==
  /\ pc = "reset" => Len(part) > Expected
  /\ pc = "reinspect" => part = Absent
  /\ pc \in {"request", "open"} =>
       action.kind # "Finalize" /\ (action.kind = "Start" => Len(part) = 0)
  /\ pc = "discard" => err \in ServerSaidNo \/ ~Prefix(part, job.want)

\* The places where Keeping asks for something.
Kept == {"reset", "reinspect", "request", "open", "discard"}

\* Which length makes the session take which of its four ways.
LEMMA DecisionSplits ==
  ASSUME NEW x \in Nat, NEW y \in Nat
  PROVE  /\ DetermineState(x, y).kind = "Restart" => x > y
         /\ DetermineState(x, y).kind = "Start" <=> x = 0
BY SMT DEF DetermineState, Start

\* A file of the expected length that fails the check has no good bytes to keep.
LEMMA RejectedIsBad ==
  ASSUME part # Absent, Len(part) = Expected, ~Accepted(part)
  PROVE  ~Prefix(part, job.want)
BY DEF Accepted, Verify, HasContent, Prefix, Len, Expected

\* A job starts with nothing to remove.
LEMMA InitKeeping == Init => Keeping
BY DEF Init, Keeping

\* Every step that heads for a removal has a reason for it.
LEMMA StepKeeping == TypeInv /\ Safe /\ Keeping /\ [Next]_vars => Keeping'
<1> SUFFICES ASSUME TypeInv, Safe, Keeping, [Next]_vars PROVE Keeping'
  OBVIOUS
<1>1. TypeOK
  BY DEF TypeInv
<1>2. ASSUME pc' \notin Kept PROVE Keeping'
  BY <1>2 DEF Keeping, Kept
<1>3. ASSUME UNCHANGED <<pc, part, job, action, err>> PROVE Keeping'
  BY <1>3 DEF Keeping, Len, Prefix, Expected
<1>4. CASE UNCHANGED vars
  BY <1>3, <1>4 DEF vars, disk, call
<1>5. CASE GetLink \/ ApiReply \/ EnsureDir \/ SkipMatching \/ BeginAttempt \/ EndAttempt
           \/ Backoff
  <2>1. pc' \in {"link", "api", "dir", "match", "attempt", "inspect", "backoff", "done"}
    BY <1>5 DEF GetLink, ApiReply, EnsureDir, SkipMatching, BeginAttempt, EndAttempt,
                Backoff, DownloadToFailed, Return, Goto
  <2> QED BY <2>1, <1>2 DEF Kept
<1>6. Len(part) \in Nat /\ Expected \in Nat
  BY <1>1, LenType, ExpectedType DEF TypeOK
<1>7. CASE Inspect
  <2>1. UNCHANGED <<disk, call>>
    BY <1>7 DEF Inspect
  <2>2. CASE action' = DetermineState(Len(part), Expected) /\ action'.kind = "Restart"
             /\ pc' = "reset"
    BY <2>1, <2>2, <1>6, DecisionSplits DEF Keeping, Len, Expected, disk, call
  <2>3. CASE action' = DetermineState(Len(part), Expected)
             /\ action'.kind \in {"Start", "Resume"} /\ pc' = "request"
    BY <2>1, <2>3, <1>6, DecisionSplits DEF Keeping, Len, disk
  <2>4. CASE pc' \in {"finalize", "failed"}
    BY <2>4, <1>2 DEF Kept
  <2> QED BY <2>2, <2>3, <2>4, <1>7 DEF Inspect, Goto, AttemptErr
<1>8. CASE Reset
  BY <1>2, <1>8 DEF Reset, Goto, AttemptErr, Keeping, Kept
<1>9. CASE Reinspect
  <2>1. Len(part) = 0 /\ UNCHANGED disk
    BY <1>9 DEF Reinspect, Keeping, Len
  <2>2. CASE action' = DetermineState(Len(part), Expected) /\ pc' = "request"
    <3>1. action'.kind = "Start"
      BY <2>1, <2>2, <1>6, DecisionSplits
    <3> QED BY <2>1, <2>2, <3>1 DEF Keeping, Len, disk
  <2> QED BY <2>2, <1>2, <1>9 DEF Reinspect, Goto, AttemptErr, Kept
<1>10. ASSUME pc' = "discard", UNCHANGED <<part, job>>, ~Prefix(part, job.want)
       PROVE  Keeping'
  BY <1>10 DEF Keeping, Prefix
<1>11. CASE FinalizeExisting \/ VerifyPart
  <2>1. UNCHANGED <<part, job>>
    BY <1>11 DEF FinalizeExisting, VerifyPart, disk, call
  <2>2. CASE pc' = "discard"
    BY <2>1, <2>2, <1>10, <1>11, RejectedIsBad
       DEF FinalizeExisting, VerifyPart, AttemptErr, Goto, Safe, FilesReady
  <2>3. CASE pc' \in {"install", "failed"}
    BY <2>3, <1>2 DEF Kept
  <2> QED BY <2>2, <2>3, <1>11
          DEF FinalizeExisting, VerifyPart, DiscardThenErr, AttemptErr, Goto
<1>12. CASE Discard \/ Open \/ StreamError \/ EndOfStream \/ Install \/ InstallError
            \/ RemoveOld \/ Crash \/ Rerun \/ ReceiveChunk
  <2>1. pc' \in {"failed", "body", "verify", "done", "install", "down", "link"}
    BY <1>12 DEF Discard, Open, StreamError, EndOfStream, Install, InstallError, RemoveOld,
                 Crash, Rerun, FreshRun, ReceiveChunk, AttemptErr, Goto
  <2> QED BY <2>1, <1>2 DEF Kept
<1>13. CASE Request
  <2>1. pc = "request" /\ UNCHANGED <<part, job>>
    BY <1>13 DEF Request, disk, call
  <2>2. CASE pc' = "open" /\ (action' = action \/ action'.kind = "Restart")
    BY <2>1, <2>2 DEF Keeping, Len
  <2>3. CASE pc' = "discard" /\ err' \in ServerSaidNo
    BY <2>3 DEF Keeping
  <2>4. CASE pc' = "failed"
    BY <2>4, <1>2 DEF Kept
  <2> QED BY <2>2, <2>3, <2>4, <1>13
          DEF Request, ValidateResponse, DownloadError, Accept, DiscardThenErr, AttemptErr,
              Goto, ServerSaidNo
<1>14. CASE Cancel
  BY <1>3, <1>14 DEF Cancel, disk
<1>15. CASE RemoteUpdate
  BY <1>3, <1>15 DEF RemoteUpdate, disk, call
<1> QED
  BY <1>4, <1>5, <1>7, <1>8, <1>9, <1>11, <1>12, <1>13, <1>14, <1>15
     DEF Next, Worker, Server, Environment

\* A step that leaves less of a good partial file has one of the three reasons.
LEMMA StepKeepsGoodBytes ==
  ASSUME TypeInv, Keeping, [Next]_vars,
         Prefix(part, job.want), Len(part') < Len(part)
  PROVE  \/ dest' = part
         \/ pc = "discard" /\ err \in {"RangeNotSatisfiable", "InvalidContentRange"}
         \/ pc = "open" /\ action.kind = "Restart"
<1>1. TypeOK /\ Len(part) \in Nat /\ part' # part
  BY LenType DEF TypeInv, TypeOK
<1>2. CASE Reset
  <2>1. Len(part) > Expected
    BY <1>2 DEF Reset, Keeping
  <2>2. Len(part) <= Expected
    BY DEF Prefix, Len, Expected
  <2> QED BY <2>1, <2>2, <1>1, ExpectedType
<1>3. CASE Discard
  BY <1>3 DEF Discard, Keeping, ServerSaidNo
<1>4. CASE Open
  <2>1. pc = "open" /\ part # Absent /\ ~IsResuming
    BY <1>1, <1>4 DEF Open, Prefix
  <2>2. action.kind # "Finalize" /\ action.kind # "Start"
    BY <2>1, <1>1, <1>4, LenType DEF Keeping, TypeOK, Len, Open, Empty
  <2> QED BY <2>1, <2>2, <1>1 DEF IsResuming, TypeOK, Actions
<1>5. CASE ReceiveChunk
  <2>1. PICK n \in Int : n >= 0 /\ Write(n)
    BY <1>1, <1>5, FileAssumption DEF ReceiveChunk, TypeOK, Body
  <2>2. Len(part') = Len(part) + n
    BY <2>1, <1>1, ExtendedLength DEF Write, TypeOK, Body
  <2> QED BY <2>1, <2>2, <1>1
<1>6. CASE Install
  BY <1>6 DEF Install
<1>7. CASE Server
  BY <1>1, <1>5, <1>7 DEF Server, ApiReply, Request, StreamError, EndOfStream, disk
<1>8. CASE Environment
  BY <1>1, <1>8 DEF Environment, Cancel, RemoteUpdate, Crash, Rerun, disk
<1>9. CASE Worker
  BY <1>1, <1>2, <1>3, <1>4, <1>6, <1>9
     DEF Worker, GetLink, EnsureDir, SkipMatching, BeginAttempt, EndAttempt, Backoff,
         Inspect, Reinspect, FinalizeExisting, VerifyPart, RemoveOld, InstallError, disk
<1>10. CASE UNCHANGED vars
  BY <1>1, <1>10 DEF vars, disk
<1> QED BY <1>7, <1>8, <1>9, <1>10 DEF Next

\* Good bytes are never thrown away for the session's own reasons: an error, a
\* cancellation, a crash, a fresh link or another run keeps them for resuming.
THEOREM GoodBytesAreKept == Spec => KeepsGoodBytes
<1>1. TypeInv /\ Keeping /\ [Next]_vars
        => [Prefix(part, job.want) /\ Len(part') < Len(part)
              => \/ dest' = part
                 \/ pc = "discard" /\ err \in {"RangeNotSatisfiable", "InvalidContentRange"}
                 \/ pc = "open" /\ action.kind = "Restart"]_vars
  BY StepKeepsGoodBytes
<1>2. Init => TypeInv /\ Safe /\ Keeping
  BY InitType, InitSafe, InitKeeping
<1>3. TypeInv /\ Safe /\ Keeping /\ [Next]_vars => (TypeInv /\ Safe /\ Keeping)'
  BY StepType, StepSafe, StepKeeping
<1> QED BY <1>1, <1>2, <1>3, PTL DEF Spec, KeepsGoodBytes
=============================================================================
