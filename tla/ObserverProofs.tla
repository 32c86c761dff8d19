--------------------------- MODULE ObserverProofs ---------------------------
(***************************************************************************)
(* Proofs about what the observer of a download is told, for every share,  *)
(* every size of channel and any number of ticks.                          *)
(***************************************************************************)
EXTENDS Observer, FiniteSetTheorems, SequenceTheorems, TLAPS

Events == Final \cup {"Started", "FailedRetrying", "Discovered", "DiscoveryStarted",
                      "DiscoveryProgress", "Aggregate"}

\* The operations an actor can have before it.
Op ==
  {d \in [op : {"add", "store", "record", "load", "send"}, c : Counters \cup Events, n : Nat] :
     /\ d.op \in {"add", "store", "load"} => d.c \in Counters
     /\ d.op = "record" => d.c \in Final}

Types ==
  /\ TypeOK
  /\ found \in [files : Nat, bytes : Nat]
  /\ todo \in [Actors -> Seq(Op)]
  /\ stats \in [Final \cup {"bytes"} -> Nat]
  /\ told \in [Final -> Nat] /\ base \in [Final -> Nat]

-----------------------------------------------------------------------------
(* Operations and plans *)

LEMMA CounterNames ==
  Counters = Final \cup {"total_files", "total_bytes", "bytes_done"}
<1>1. DOMAIN Loads = 1..7
  BY DEF Loads
<1>2. 1..7 = {1, 2, 3, 4, 5, 6, 7}
  OBVIOUS
<1> QED
  BY <1>1, <1>2 DEF Counters, Loads, Final, Outcomes

LEMMA Operations ==
  /\ \A c \in Counters, n \in Nat : Add(c, n) \in Op /\ Store(c, n) \in Op
  /\ \A c \in Final, n \in Nat : Record(c, n) \in Op
  /\ \A c \in Counters : Load(c) \in Op
  /\ \A c \in Events : Send(c) \in Op
  BY CounterNames DEF Op, Add, Store, Record, Load, Send, Events

\* The operation that is the k-th from the end of the list s.
FromEnd(s, k) == s[Len(s) + 1 - k]

LEMMA Single ==
  ASSUME NEW X, NEW x \in X
  PROVE  <<x>> \in Seq(X) /\ Len(<<x>>) = 1 /\ FromEnd(<<x>>, 1) = x
  BY DEF FromEnd

LEMMA Joined ==
  ASSUME NEW X, NEW s \in Seq(X), NEW t \in Seq(X)
  PROVE  /\ s \o t \in Seq(X) /\ Len(s \o t) = Len(s) + Len(t)
         /\ \A k \in 1..Len(t) : FromEnd(s \o t, k) = FromEnd(t, k)
         /\ \A k \in 1..Len(s) : FromEnd(s \o t, Len(t) + k) = FromEnd(s, k)
<1> DEFINE m == Len(s)
           n == Len(t)
           r == s \o t
<1>1. m \in Nat /\ n \in Nat
  OBVIOUS
<1>2. /\ r \in Seq(X) /\ Len(r) = m + n
      /\ \A i \in 1..(m + n) : r[i] = IF i <= m THEN s[i] ELSE t[i - m]
  BY ConcatProperties
<1> HIDE DEF m, n, r
<1>3. ASSUME NEW k \in 1..n PROVE r[m + n + 1 - k] = t[n + 1 - k]
  <2>1. m + n + 1 - k \in 1..(m + n) /\ ~(m + n + 1 - k <= m) /\ (m + n + 1 - k) - m = n + 1 - k
    BY <1>1
  <2> QED
    BY <1>2, <2>1
<1>4. ASSUME NEW k \in 1..m PROVE r[m + n + 1 - (n + k)] = s[m + 1 - k]
  <2>1. m + n + 1 - (n + k) = m + 1 - k /\ m + 1 - k \in 1..(m + n) /\ m + 1 - k <= m
    BY <1>1
  <2> QED
    BY <1>2, <2>1
<1> QED
  BY <1>2, <1>3, <1>4 DEF FromEnd, m, n, r

\* What is left of a list when its first operation is done.
LEMMA TailEnds ==
  ASSUME NEW X, NEW s \in Seq(X), s # <<>>
  PROVE  /\ Tail(s) \in Seq(X) /\ Len(s) \in Nat /\ Len(s) >= 1 /\ Len(Tail(s)) = Len(s) - 1
         /\ Head(s) = FromEnd(s, Len(s)) /\ Head(s) \in X
         /\ \A k \in 1..(Len(s) - 1) : FromEnd(Tail(s), k) = FromEnd(s, k)
<1> DEFINE n == Len(s)
<1>1. n \in Nat /\ n >= 1
  BY EmptySeq
<1>2. /\ Tail(s) \in Seq(X) /\ Len(Tail(s)) = n - 1 /\ Head(s) = s[1] /\ s[1] \in X
      /\ \A i \in 1..(n - 1) : Tail(s)[i] = s[i + 1]
  BY <1>1
<1> HIDE DEF n
<1>3. n + 1 - n = 1
  BY <1>1
<1>4. ASSUME NEW k \in 1..(n - 1) PROVE Tail(s)[(n - 1) + 1 - k] = s[n + 1 - k]
  <2>1. (n - 1) + 1 - k \in 1..(n - 1) /\ ((n - 1) + 1 - k) + 1 = n + 1 - k
    BY <1>1
  <2> QED
    BY <1>2, <2>1
<1> QED
  BY <1>1, <1>2, <1>3, <1>4 DEF FromEnd, n

-----------------------------------------------------------------------------
(* What actors plan *)

LEMMA EmitTerminal ==
  ASSUME NEW c \in Final
  PROVE  /\ Emit(c) \in Seq(Op) /\ Len(Emit(c)) = 2
         /\ FromEnd(Emit(c), 1) = Send(c) /\ FromEnd(Emit(c), 2) = Add(c, 1)
<1> DEFINE s == <<Add(c, 1)>>
           t == <<Send(c)>>
<1>1. Emit(c) = s \o t
  BY DEF Emit, Observe, Final, Outcomes
<1>2. Add(c, 1) \in Op /\ Send(c) \in Op
  BY Operations, CounterNames DEF Events
<1>3. /\ s \in Seq(Op) /\ Len(s) = 1 /\ FromEnd(s, 1) = Add(c, 1)
      /\ t \in Seq(Op) /\ Len(t) = 1 /\ FromEnd(t, 1) = Send(c)
  BY <1>2, Single
<1> HIDE DEF s, t
<1>4. /\ s \o t \in Seq(Op) /\ Len(s \o t) = 1 + 1
      /\ \A k \in 1..1 : FromEnd(s \o t, k) = FromEnd(t, k)
      /\ \A k \in 1..1 : FromEnd(s \o t, 1 + k) = FromEnd(s, k)
  <2>1. /\ s \o t \in Seq(Op) /\ Len(s \o t) = Len(s) + Len(t)
        /\ \A k \in 1..Len(t) : FromEnd(s \o t, k) = FromEnd(t, k)
        /\ \A k \in 1..Len(s) : FromEnd(s \o t, Len(t) + k) = FromEnd(s, k)
    BY <1>3, Joined
  <2> QED
    BY <1>3, <2>1
<1>5. 1 \in 1..1 /\ 1 + 1 = 2
  OBVIOUS
<1> QED
  BY <1>1, <1>3, <1>4, <1>5

\* The operations of a job that is over with outcome c, counted from the last.
OpAt(j, c, k) ==
  IF c = "failed"
  THEN CASE k = 1 -> Record("failed", 0)
         [] k = 2 -> Send("failed")
         [] OTHER -> Add("failed", 1)
  ELSE CASE k = 1 -> Record(c, Size[j])
         [] k = 2 -> Add("bytes_done", Size[j])
         [] k = 3 -> Send(c)
         [] k = 4 -> Add(c, 1)
         [] OTHER -> Send("Started")

\* The list s holds n of them, before the last m.
Ends(s, n, j, c, m) ==
  s \in Seq(Op) /\ Len(s) = n /\ \A k \in 1..n : FromEnd(s, k) = OpAt(j, c, m + k)

LEMMA EndsJoined ==
  ASSUME NEW s, NEW t, NEW j, NEW c, NEW l \in Nat, NEW m \in Nat, NEW n \in Nat,
         Ends(t, n, j, c, l), Ends(s, m, j, c, l + n)
  PROVE  Ends(s \o t, m + n, j, c, l)
<1> DEFINE r == s \o t
<1>5. s \in Seq(Op) /\ t \in Seq(Op) /\ Len(s) = m /\ Len(t) = n
  BY DEF Ends
<1>1. /\ r \in Seq(Op) /\ Len(r) = m + n
      /\ \A k \in 1..n : FromEnd(r, k) = FromEnd(t, k)
      /\ \A k \in 1..m : FromEnd(r, n + k) = FromEnd(s, k)
  <2>1. /\ r \in Seq(Op) /\ Len(r) = Len(s) + Len(t)
        /\ \A k \in 1..Len(t) : FromEnd(r, k) = FromEnd(t, k)
        /\ \A k \in 1..Len(s) : FromEnd(r, Len(t) + k) = FromEnd(s, k)
    BY <1>5, Joined
  <2> QED
    BY <1>5, <2>1
<1> HIDE DEF r
<1>2. \A k \in 1..n : FromEnd(r, k) = OpAt(j, c, l + k)
  BY <1>1 DEF Ends
<1>3. \A k \in 1..m : FromEnd(r, n + k) = OpAt(j, c, (l + n) + k)
  BY <1>1 DEF Ends
<1>4. \A k \in 1..(m + n) : FromEnd(r, k) = OpAt(j, c, l + k)
  <2>1. SUFFICES ASSUME NEW k \in 1..(m + n), k > n PROVE FromEnd(r, k) = OpAt(j, c, l + k)
    BY <1>2
  <2>2. k - n \in 1..m /\ n + (k - n) = k /\ (l + n) + (k - n) = l + k
    BY <2>1
  <2> QED
    BY <1>3, <2>2
<1> QED
  BY <1>1, <1>4 DEF Ends, r

LEMMA EndsSingle ==
  ASSUME NEW d \in Op, NEW j, NEW c, NEW m, OpAt(j, c, m + 1) = d PROVE Ends(<<d>>, 1, j, c, m)
<1>1. <<d>> \in Seq(Op) /\ Len(<<d>>) = 1 /\ FromEnd(<<d>>, 1) = d
  BY Single
<1> DEFINE s == <<d>>
<1> HIDE DEF s
<1>2. \A k \in 1..1 : FromEnd(s, k) = OpAt(j, c, m + k)
  BY <1>1 DEF s
<1> QED
  BY <1>1, <1>2 DEF Ends, s

LEMMA EmitEnds ==
  ASSUME NEW c \in Final, NEW j, NEW m \in Nat,
         OpAt(j, c, m + 1) = Send(c), OpAt(j, c, m + 2) = Add(c, 1)
  PROVE  Ends(Emit(c), 2, j, c, m)
<1>1. \A k \in 1..2 : k = 1 \/ k = 2
  OBVIOUS
<1> QED
  BY <1>1, EmitTerminal DEF Ends

\* The lists a job plans when it is over.
LEMMA JobPlans ==
  ASSUME NEW j \in Jobs
  PROVE  /\ Ends(Emit("failed") \o RecordFailure, 3, j, "failed", 0)
         /\ Ends(<<>> \o RecordFailure, 1, j, "failed", 0)
         /\ \A o \in Outcomes : Ends(Succeed(j, o), 2, j, o, 0)
         /\ \A o \in Outcomes : Ends(Emit(o) \o Succeed(j, o), 4, j, o, 0)
         /\ Ends(Emit("Started") \o Emit("skipped") \o Succeed(j, "skipped"), 5, j, "skipped", 0)
<1>1. Size[j] \in Nat
  BY ObserverAssumption
<1>2. Ends(RecordFailure, 1, j, "failed", 0)
  BY EndsSingle, Operations DEF OpAt, RecordFailure, Final, Outcomes
<1>3. Ends(Emit("failed") \o RecordFailure, 3, j, "failed", 0)
  <2>1. Ends(Emit("failed"), 2, j, "failed", 0 + 1)
    BY EmitEnds DEF OpAt, Final
  <2>2. Ends(Emit("failed") \o RecordFailure, 2 + 1, j, "failed", 0)
    BY <1>2, <2>1, EndsJoined
  <2> QED
    BY <2>2
<1>4. Ends(<<>> \o RecordFailure, 1, j, "failed", 0)
  <2>1. <<>> \o RecordFailure = RecordFailure
    BY <1>2, ConcatEmptySeq DEF Ends
  <2> QED
    BY <1>2, <2>1
<1>5. ASSUME NEW o \in Outcomes
      PROVE  Ends(Succeed(j, o), 2, j, o, 0) /\ Ends(Emit(o) \o Succeed(j, o), 4, j, o, 0)
  <2>1. Ends(RecordOutcome(o, j), 1, j, o, 0)
    BY <1>1, EndsSingle, Operations DEF OpAt, RecordOutcome, Final, Outcomes
  <2>2. Ends(NoteBytesDone(j), 1, j, o, 0 + 1)
    BY <1>1, EndsSingle, Operations, CounterNames DEF OpAt, NoteBytesDone, Outcomes
  <2>3. Ends(NoteBytesDone(j) \o RecordOutcome(o, j), 1 + 1, j, o, 0)
    BY <2>1, <2>2, EndsJoined
  <2>4. Ends(Succeed(j, o), 2, j, o, 0)
    BY <2>3 DEF Succeed
  <2>5. Ends(Emit(o), 2, j, o, 0 + 2)
    BY EmitEnds DEF OpAt, Final, Outcomes
  <2>6. Ends(Emit(o) \o Succeed(j, o), 2 + 2, j, o, 0)
    BY <2>4, <2>5, EndsJoined
  <2> QED
    BY <2>4, <2>6
<1>6. Ends(Emit("Started") \o Emit("skipped") \o Succeed(j, "skipped"), 5, j, "skipped", 0)
  <2>1. Ends(Succeed(j, "skipped"), 2, j, "skipped", 0)
    BY <1>5 DEF Outcomes
  <2>2. Ends(Emit("skipped"), 2, j, "skipped", 2)
    BY EmitEnds DEF OpAt, Final, Outcomes
  <2>3. Ends(<<Send("Started")>>, 1, j, "skipped", 2 + 2)
    BY EndsSingle, Operations DEF OpAt, Events
  <2>4. Emit("Started") = <<Send("Started")>>
    BY DEF Emit, Observe, Final, Outcomes
  <2>5. Ends(Emit("Started") \o Emit("skipped"), 1 + 2, j, "skipped", 2)
    BY <2>2, <2>3, <2>4, EndsJoined
  <2>6. Ends(Emit("Started") \o Emit("skipped"), 3, j, "skipped", 0 + 2)
    BY <2>5
  <2>7. Ends((Emit("Started") \o Emit("skipped")) \o Succeed(j, "skipped"), 3 + 2, j, "skipped", 0)
    BY <2>1, <2>6, EndsJoined
  <2> QED
    BY <2>7
<1> QED
  BY <1>3, <1>4, <1>5, <1>6

\* Sends that tell of no terminal event.
Chatter == {Send(e) : e \in Events \ Final}

LEMMA ChatterOps == Chatter \subseteq Op
  BY Operations DEF Chatter

\* What a step of job j does: it plans to tell of something, or it is over, with
\* outcome c and n operations to do.
SendAt(c) == IF c = "failed" THEN 2 ELSE 3
AddAt(c)  == IF c = "failed" THEN 3 ELSE 4

Length(c, n) ==
  /\ n >= 1 /\ (IF c = "failed" THEN n <= 3 ELSE n >= 2 /\ n <= 5)
  /\ n >= SendAt(c) => n >= AddAt(c)
  /\ c \in {"downloaded", "resumed"} => n >= SendAt(c)

untouched == <<agg, stats, queue, told, receiver, ticker, ticks, snap, base, walk, found>>

LEMMA JobStepForm ==
  ASSUME NEW j \in Jobs, JobStep(j)
  PROVE  /\ todo[j] = <<>> /\ pc[j] \in {"ready", "started"} /\ UNCHANGED untouched
         /\ attempts' = attempts \/ (attempts[j] < MaxAttempts /\ attempts' = [attempts EXCEPT ![j] = @ + 1])
         /\ \E s : /\ todo' = [todo EXCEPT ![j] = s]
                   /\ \/ /\ pc' = [pc EXCEPT ![j] = "ready"] \/ pc' = [pc EXCEPT ![j] = "started"]
                         /\ s \in Seq(Chatter)
                      \/ /\ pc' = [pc EXCEPT ![j] = "over"]
                         /\ \E c \in Final, n \in Nat : Length(c, n) /\ Ends(s, n, j, c, 0)
<1>1. /\ todo[j] = <<>> /\ pc[j] \in {"ready", "started"} /\ UNCHANGED untouched
  BY DEF JobStep, Start, FailAttempt, GiveUp, Finish, FinalizeExisting, SkipMatching, Job, Plan, Idle,
         untouched
<1>2. attempts' = attempts \/ (attempts[j] < MaxAttempts /\ attempts' = [attempts EXCEPT ![j] = @ + 1])
  BY DEF JobStep, Start, FailAttempt, GiveUp, Finish, FinalizeExisting, SkipMatching, vars
<1> DEFINE Ended(s) ==
             /\ todo' = [todo EXCEPT ![j] = s] /\ pc' = [pc EXCEPT ![j] = "over"]
             /\ \E c \in Final, n \in Nat : Length(c, n) /\ Ends(s, n, j, c, 0)
           Tells(s) ==
             /\ todo' = [todo EXCEPT ![j] = s] /\ s \in Seq(Chatter)
             /\ pc' = [pc EXCEPT ![j] = "ready"] \/ pc' = [pc EXCEPT ![j] = "started"]
<1>3. CASE Start(j) \/ FailAttempt(j)
  <2>1. \A e \in {"Started", "FailedRetrying"} : Emit(e) = <<Send(e)>> /\ <<Send(e)>> \in Seq(Chatter)
    <3>1. SUFFICES ASSUME NEW e \in {"Started", "FailedRetrying"}
                   PROVE  Emit(e) = <<Send(e)>> /\ <<Send(e)>> \in Seq(Chatter)
      OBVIOUS
    <3>2. Emit(e) = <<Send(e)>>
      <4>1. CASE e = "Started"
        BY <4>1 DEF Emit, Observe, Final, Outcomes
      <4>2. CASE e = "FailedRetrying"
        BY <4>2 DEF Emit, Observe, Final, Outcomes
      <4> QED
        BY <4>1, <4>2
    <3>3. Send(e) \in Chatter
      BY DEF Chatter, Events, Final, Outcomes
    <3> QED
      BY <3>2, <3>3, Single
  <2>2. Tells(Emit("Started")) \/ Tells(Emit("FailedRetrying"))
    BY <1>3, <2>1 DEF Start, FailAttempt, Job, Plan
  <2> QED
    BY <1>1, <1>2, <2>2
<1>4. CASE GiveUp(j)
  <2>1. "failed" \in Final /\ Length("failed", 3) /\ Length("failed", 1)
    BY DEF Final, Length, SendAt, AddAt
  <2>2. Ended(Emit("failed") \o RecordFailure) \/ Ended(<<>> \o RecordFailure)
    BY <1>4, <2>1, JobPlans DEF GiveUp, Job, Plan
  <2> QED
    BY <1>1, <1>2, <2>2
<1>5. CASE Finish(j)
  <2>1. PICK o \in {"downloaded", "resumed"} : Job(j, {"started"}, "over", Emit(o) \o Succeed(j, o))
    BY <1>5 DEF Finish
  <2>2. o \in Final /\ o \in Outcomes /\ Length(o, 4)
    BY DEF Final, Outcomes, Length, SendAt, AddAt
  <2>3. Ended(Emit(o) \o Succeed(j, o))
    BY <2>1, <2>2, JobPlans DEF Job, Plan
  <2> QED
    BY <1>1, <1>2, <2>3
<1>6. CASE FinalizeExisting(j)
  <2>1. "skipped" \in Final /\ Length("skipped", 5)
    BY DEF Final, Outcomes, Length, SendAt, AddAt
  <2>2. Ended(Emit("Started") \o Emit("skipped") \o Succeed(j, "skipped"))
    BY <1>6, <2>1, JobPlans DEF FinalizeExisting, Job, Plan
  <2> QED
    BY <1>1, <1>2, <2>2
<1>7. CASE SkipMatching(j)
  <2>1. "skipped" \in Final /\ "skipped" \in Outcomes /\ Length("skipped", 2)
    BY DEF Final, Outcomes, Length, SendAt, AddAt
  <2>2. Ended(Succeed(j, "skipped"))
    BY <1>7, <2>1, JobPlans DEF SkipMatching, Job, Plan
  <2> QED
    BY <1>1, <1>2, <2>2
<1> QED
  BY <1>3, <1>4, <1>5, <1>6, <1>7 DEF JobStep

\* The plan of a tick: every counter is loaded, then the snapshot is sent.
TickOps == {Load(c) : c \in Counters} \cup {Send("Aggregate")}

LEMMA TickPlan ==
  LET plan == [i \in DOMAIN Loads |-> Load(Loads[i])] \o <<Send("Aggregate")>>
  IN  plan \in Seq(TickOps) /\ \A c \in Counters : \E i \in DOMAIN plan : plan[i] = Load(c)
<1> DEFINE f == [i \in DOMAIN Loads |-> Load(Loads[i])]
           t == <<Send("Aggregate")>>
<1>1. DOMAIN Loads = 1..7
  BY DEF Loads
<1>2. \A i \in 1..7 : Load(Loads[i]) \in TickOps
  BY <1>1 DEF TickOps, Counters
<1>3. f \in Seq(TickOps) /\ Len(f) = 7
  <2>1. f \in [1..7 -> TickOps]
    BY <1>1, <1>2
  <2> QED
    BY <1>1, <2>1, SeqDef
<1>4. t \in Seq(TickOps) /\ Len(t) = 1
  BY DEF TickOps
<1>5. \A c \in Counters : \E i \in 1..7 : f[i] = Load(c)
  BY <1>1 DEF Counters
<1> HIDE DEF f, t
<1>6. f \o t \in Seq(TickOps) /\ Len(f \o t) = 8 /\ \A i \in 1..7 : (f \o t)[i] = f[i]
  <2>1. /\ f \o t \in Seq(TickOps) /\ Len(f \o t) = Len(f) + Len(t)
        /\ \A i \in 1..(Len(f) + Len(t)) : (f \o t)[i] = IF i <= Len(f) THEN f[i] ELSE t[i - Len(f)]
    BY <1>3, <1>4, ConcatProperties
  <2>2. Len(f \o t) = 8 /\ \A i \in 1..8 : (f \o t)[i] = IF i <= 7 THEN f[i] ELSE t[i - 7]
    BY <1>3, <1>4, <2>1
  <2>3. \A i \in 1..7 : i \in 1..8 /\ i <= 7
    OBVIOUS
  <2> QED
    BY <2>1, <2>2, <2>3
<1>7. 1..7 \subseteq DOMAIN (f \o t)
  <2>1. DOMAIN (f \o t) = 1..8
    BY <1>6
  <2> QED
    BY <2>1
<1> QED
  BY <1>5, <1>6, <1>7 DEF f, t

\* The plan of the end of the walk.
Totals == {Store("total_files", found.files), Store("total_bytes", found.bytes)}

LEMMA AnnouncePlan == Emit("Discovered") \in Seq(Chatter \cup Totals)
<1> DEFINE s == <<Store("total_files", found.files), Store("total_bytes", found.bytes)>>
           t == <<Send("Discovered")>>
<1>1. Emit("Discovered") = s \o t
  BY DEF Emit, Observe, Final, Outcomes
<1>2. Send("Discovered") \in Chatter
  BY DEF Chatter, Events, Final, Outcomes
<1>3. s \in Seq(Chatter \cup Totals) /\ t \in Seq(Chatter \cup Totals)
  BY <1>2 DEF Totals
<1> HIDE DEF s, t
<1> QED
  BY <1>1, <1>3, ConcatProperties

-----------------------------------------------------------------------------
(* The inductive invariant *)

\* The jobs of V that are over, with an outcome of C, and have less than k
\* operations to do.
Past(o, V, C, k) == {j \in V : pc[j] = "over" /\ o[j] \in C /\ Len(todo[j]) < k}

\* The bytes of the jobs of S, one element each.
ByteSet(S) == UNION {{j} \X (1..Size[j]) : j \in S}
Bytes(S)   == Cardinality(ByteSet(S))

\* A job that is over has the last operations of its outcome before it; those
\* of V told, or tell, how they ended.
Script(o, V) ==
  \A j \in Jobs :
    /\ pc[j] # "over" => todo[j] \in Seq(Chatter)
    /\ pc[j] = "over" =>
         /\ Ends(todo[j], Len(todo[j]), j, o[j], 0)
         /\ Len(todo[j]) <= (IF o[j] = "failed" THEN 3 ELSE 5)
         /\ Len(todo[j]) >= SendAt(o[j]) => j \in V
         /\ o[j] \in {"downloaded", "resumed"} => j \in V

\* Every counter is the number, or the bytes, of the jobs past its operation.
Accounts(o, V) ==
  /\ \A c \in Final :
       /\ agg[c] = Cardinality(Past(o, V, {c}, AddAt(c)))
       /\ told[c] = Cardinality(Past(o, V, {c}, SendAt(c)))
       /\ stats[c] = Cardinality(Past(o, Jobs, {c}, 1))
  /\ agg["bytes_done"] = Bytes(Past(o, Jobs, Outcomes, 2))
  /\ stats["bytes"] = Bytes(Past(o, Jobs, Outcomes, 1))

Discovered == {j \in Jobs : pc[j] # "hidden"}

\* The totals are unknown until the walk ends, then what was found.
Discovery ==
  /\ found = [files |-> Cardinality(Discovered), bytes |-> Bytes(Discovered)]
  /\ todo["walk"] \in Seq(Chatter \cup Totals)
  /\ agg["total_files"] \in {0, found.files} /\ agg["total_bytes"] \in {0, found.bytes}
  /\ snap["total_files"] \in {0, found.files} /\ snap["total_bytes"] \in {0, found.bytes}
  /\ walk = "listing" =>
       /\ todo["walk"] \in Seq(Chatter)
       /\ agg["total_files"] = 0 /\ agg["total_bytes"] = 0
       /\ snap["total_files"] = 0 /\ snap["total_bytes"] = 0

Pending(c) == \E i \in DOMAIN todo["ticker"] : todo["ticker"][i] = Load(c)

\* What a snapshot has loaded is between what was told when it began and what
\* the aggregator holds.
Snapshot ==
  /\ todo["ticker"] \in Seq(TickOps)
  /\ \A c \in Final \cup {"bytes_done"} : snap[c] <= agg[c]
  /\ \A c \in Final : base[c] <= told[c] /\ (Pending(c) \/ base[c] <= snap[c])

Accounted == \E o \in [Jobs -> Final], V \in SUBSET Jobs : Script(o, V) /\ Accounts(o, V)

IInv == Types /\ Accounted /\ Discovery /\ Snapshot

-----------------------------------------------------------------------------
(* Counting jobs and bytes *)

LEMMA CountJobs ==
  ASSUME NEW S \in SUBSET Jobs
  PROVE  /\ IsFiniteSet(S) /\ Cardinality(S) \in Nat
         /\ \A j \in Jobs : j \notin S => Cardinality(S \cup {j}) = Cardinality(S) + 1
         /\ \A T \in SUBSET S : Cardinality(T) <= Cardinality(S)
<1>1. IsFiniteSet(S)
  BY ObserverAssumption, FS_Subset
<1> QED
  BY <1>1, FS_CardinalityType, FS_AddElement, FS_Subset

LEMMA BytesOfJob ==
  ASSUME NEW j \in Jobs
  PROVE  IsFiniteSet({j} \X (1..Size[j])) /\ Cardinality({j} \X (1..Size[j])) = Size[j]
<1>1. Size[j] \in Nat
  BY ObserverAssumption
<1>2. IsFiniteSet(1..Size[j]) /\ Cardinality(1..Size[j]) = Size[j]
  BY <1>1, FS_Interval
<1>3. IsFiniteSet({j}) /\ Cardinality({j}) = 1
  BY FS_Singleton
<1> DEFINE A == {j}
           B == 1..Size[j]
<1>4. IsFiniteSet(A) /\ Cardinality(A) = 1 /\ IsFiniteSet(B) /\ Cardinality(B) = Size[j]
  BY <1>2, <1>3
<1> HIDE DEF A, B
<1>5. IsFiniteSet(A \X B) /\ Cardinality(A \X B) = Cardinality(A) * Cardinality(B)
  BY <1>4, FS_Product
<1>6. Cardinality(A \X B) = Size[j]
  BY <1>1, <1>4, <1>5
<1> QED
  BY <1>5, <1>6 DEF A, B

LEMMA ByteSets ==
  ASSUME NEW S \in SUBSET Jobs
  PROVE  IsFiniteSet(ByteSet(S))
<1> DEFINE f == [j \in S |-> {j} \X (1..Size[j])]
           R == {f[j] : j \in S}
<1>1. IsFiniteSet(R)
  <2>1. f \in Surjection(S, R)
    BY DEF Surjection
  <2> QED
    BY <2>1, CountJobs, FS_Surjection
<1>2. \A x \in R : IsFiniteSet(x)
  BY BytesOfJob
<1>3. IsFiniteSet(UNION R)
  <2> HIDE DEF R
  <2> QED
    BY <1>1, <1>2, FS_UNION
<1>4. ByteSet(S) = UNION R
  BY DEF ByteSet
<1> QED
  BY <1>3, <1>4

LEMMA CountBytes ==
  ASSUME NEW S \in SUBSET Jobs
  PROVE  /\ Bytes(S) \in Nat
         /\ \A j \in Jobs : j \notin S => Bytes(S \cup {j}) = Bytes(S) + Size[j]
         /\ \A T \in SUBSET S : Bytes(T) <= Bytes(S)
<1>1. Bytes(S) \in Nat
  BY ByteSets, FS_CardinalityType DEF Bytes
<1>2. ASSUME NEW j \in Jobs, j \notin S PROVE Bytes(S \cup {j}) = Bytes(S) + Size[j]
  <2> DEFINE A == ByteSet(S)
             B == {j} \X (1..Size[j])
  <2>1. ByteSet(S \cup {j}) = A \cup B
    BY DEF ByteSet
  <2>2. A \cap B = {}
    BY <1>2 DEF ByteSet
  <2>3. IsFiniteSet(A) /\ IsFiniteSet(B) /\ Cardinality(B) = Size[j]
    BY ByteSets, BytesOfJob
  <2>4. Cardinality(A) = Bytes(S)
    BY DEF Bytes
  <2> HIDE DEF A, B
  <2>5. Cardinality(A \cup B) = Cardinality(A) + Cardinality(B) - Cardinality(A \cap B)
    BY <2>3, FS_Union
  <2>6. Cardinality(A \cap B) = 0
    BY <2>2, FS_EmptySet
  <2>7. Size[j] \in Nat
    BY ObserverAssumption
  <2>8. Cardinality(A \cup B) = Bytes(S) + Size[j]
    BY <1>1, <2>3, <2>4, <2>5, <2>6, <2>7
  <2> QED
    BY <2>1, <2>8 DEF Bytes
<1>3. ASSUME NEW T \in SUBSET S PROVE Bytes(T) <= Bytes(S)
  <2>1. ByteSet(T) \subseteq ByteSet(S)
    BY DEF ByteSet
  <2> QED
    BY <2>1, ByteSets, FS_Subset DEF Bytes
<1> QED
  BY <1>1, <1>2, <1>3

-----------------------------------------------------------------------------
(* The jobs past an operation *)

\* When job j does an operation it goes past that one and no other.
LEMMA PastStep ==
  ASSUME NEW o, NEW V \in SUBSET Jobs, NEW C, NEW k \in Nat, NEW j \in Jobs,
         todo \in [Actors -> Seq(Op)], todo[j] # <<>>,
         todo' = [todo EXCEPT ![j] = Tail(@)], pc' = pc
  PROVE  /\ IF j \in V /\ pc[j] = "over" /\ o[j] \in C /\ k = Len(todo[j])
            THEN Past(o, V, C, k)' = Past(o, V, C, k) \cup {j}
            ELSE Past(o, V, C, k)' = Past(o, V, C, k)
         /\ k = Len(todo[j]) => j \notin Past(o, V, C, k)
         /\ Past(o, V, C, k) \in SUBSET Jobs
<1>1. todo[j] \in Seq(Op) /\ todo'[j] = Tail(todo[j]) /\ \A i \in Jobs \ {j} : todo'[i] = todo[i]
  BY DEF Actors
<1>2. Len(todo[j]) \in Nat /\ Len(todo[j]) >= 1 /\ Len(todo'[j]) = Len(todo[j]) - 1
  BY <1>1, TailEnds
<1>3. Len(todo'[j]) < k <=> (Len(todo[j]) < k \/ k = Len(todo[j]))
  BY <1>2
<1>4. k = Len(todo[j]) => ~(Len(todo[j]) < k)
  BY <1>2
<1> QED
  BY <1>1, <1>3, <1>4 DEF Past

LEMMA PastSame ==
  ASSUME NEW o, NEW V \in SUBSET Jobs,
         \A i \in Jobs : (pc'[i] = "over" <=> pc[i] = "over") /\ todo'[i] = todo[i]
  PROVE  \A C, k : Past(o, V, C, k)' = Past(o, V, C, k)
  BY DEF Past

-----------------------------------------------------------------------------
(* Operations, one at a time *)

LEMMA Effects ==
  ASSUME NEW a, Operate(a), NEW d, d = Head(todo[a])
  PROVE  /\ \A c, n : d = Add(c, n) =>
              agg' = [agg EXCEPT ![c] = @ + n] /\ UNCHANGED <<stats, told, snap, base>>
         /\ \A c, n : d = Store(c, n) =>
              agg' = [agg EXCEPT ![c] = n] /\ UNCHANGED <<stats, told, snap, base>>
         /\ \A c, n : d = Record(c, n) =>
              /\ stats' = [stats EXCEPT ![c] = @ + 1, !.bytes = @ + n]
              /\ UNCHANGED <<agg, told, snap, base>>
         /\ \A c : d = Load(c) =>
              snap' = [snap EXCEPT ![c] = agg[c]] /\ UNCHANGED <<agg, stats, told, base>>
         /\ \A c : d = Send(c) =>
              /\ told' = IF c \in Final THEN [told EXCEPT ![c] = @ + 1] ELSE told
              /\ IF a = "ticker" THEN snap' = Nothing /\ base' = NoneTold
                 ELSE UNCHANGED <<snap, base>>
              /\ UNCHANGED <<agg, stats>>
<1>1. /\ \A c, n : d = Add(c, n) => d.op = "add" /\ d.c = c /\ d.n = n
      /\ \A c, n : d = Store(c, n) => d.op = "store" /\ d.c = c /\ d.n = n
      /\ \A c, n : d = Record(c, n) => d.op = "record" /\ d.c = c /\ d.n = n
      /\ \A c : d = Load(c) => d.op = "load" /\ d.c = c
      /\ \A c : d = Send(c) => d.op = "send" /\ d.c = c
  BY DEF Add, Store, Record, Load, Send
<1>2. /\ d.op = "add" => /\ agg' = [agg EXCEPT ![d.c] = @ + d.n]
                         /\ UNCHANGED <<stats, told, snap, base>>
      /\ d.op = "store" => /\ agg' = [agg EXCEPT ![d.c] = d.n]
                           /\ UNCHANGED <<stats, told, snap, base>>
      /\ d.op = "record" => /\ stats' = [stats EXCEPT ![d.c] = @ + 1, !.bytes = @ + d.n]
                            /\ UNCHANGED <<agg, told, snap, base>>
      /\ d.op = "load" => /\ snap' = [snap EXCEPT ![d.c] = agg[d.c]]
                          /\ UNCHANGED <<agg, stats, told, base>>
      /\ d.op = "send" =>
           /\ told' = IF d.c \in Final THEN [told EXCEPT ![d.c] = @ + 1] ELSE told
           /\ IF a = "ticker" THEN snap' = Nothing /\ base' = NoneTold
              ELSE UNCHANGED <<snap, base>>
           /\ UNCHANGED <<agg, stats>>
  BY DEF Operate
<1>3. ASSUME NEW c, NEW n, d = Add(c, n)
      PROVE  agg' = [agg EXCEPT ![c] = @ + n] /\ UNCHANGED <<stats, told, snap, base>>
  <2>1. d.op = "add" /\ d.c = c /\ d.n = n
    BY <1>1, <1>3
  <2>2. agg' = [agg EXCEPT ![d.c] = @ + d.n] /\ UNCHANGED <<stats, told, snap, base>>
    BY <1>2, <2>1
  <2> QED
    BY <2>1, <2>2
<1>4. ASSUME NEW c, NEW n, d = Store(c, n)
      PROVE  agg' = [agg EXCEPT ![c] = n] /\ UNCHANGED <<stats, told, snap, base>>
  <2>1. d.op = "store" /\ d.c = c /\ d.n = n
    BY <1>1, <1>4
  <2>2. agg' = [agg EXCEPT ![d.c] = d.n] /\ UNCHANGED <<stats, told, snap, base>>
    BY <1>2, <2>1
  <2> QED
    BY <2>1, <2>2
<1>5. ASSUME NEW c, NEW n, d = Record(c, n)
      PROVE  /\ stats' = [stats EXCEPT ![c] = @ + 1, !.bytes = @ + n]
             /\ UNCHANGED <<agg, told, snap, base>>
  BY <1>1, <1>2, <1>5
<1>6. ASSUME NEW c, d = Load(c)
      PROVE  snap' = [snap EXCEPT ![c] = agg[c]] /\ UNCHANGED <<agg, stats, told, base>>
  BY <1>1, <1>2, <1>6
<1>7. ASSUME NEW c, d = Send(c)
      PROVE  /\ told' = IF c \in Final THEN [told EXCEPT ![c] = @ + 1] ELSE told
             /\ IF a = "ticker" THEN snap' = Nothing /\ base' = NoneTold
                ELSE UNCHANGED <<snap, base>>
             /\ UNCHANGED <<agg, stats>>
  BY <1>1, <1>2, <1>7
<1> QED
  BY <1>3, <1>4, <1>5, <1>6, <1>7, Zenon

LEMMA OperateForm ==
  ASSUME todo \in [Actors -> Seq(Op)], NEW a \in Actors, Operate(a)
  PROVE  /\ todo[a] \in Seq(Op) /\ todo[a] # <<>> /\ Head(todo[a]) \in Op
         /\ todo' = [todo EXCEPT ![a] = Tail(@)] /\ todo'[a] = Tail(todo[a])
         /\ \A b \in Actors \ {a} : todo'[b] = todo[b]
         /\ pc' = pc /\ attempts' = attempts /\ walk' = walk /\ found' = found
         /\ receiver' = receiver /\ ticker' = ticker /\ ticks' = ticks
<1>1. todo[a] \in Seq(Op) /\ todo[a] # <<>> /\ todo' = [todo EXCEPT ![a] = Tail(@)]
  BY DEF Operate, Idle
<1>2. Head(todo[a]) \in Op
  BY <1>1, TailEnds
<1>3. /\ pc' = pc /\ attempts' = attempts /\ walk' = walk /\ found' = found
      /\ receiver' = receiver /\ ticker' = ticker /\ ticks' = ticks
  BY DEF Operate
<1> QED
  BY <1>1, <1>2, <1>3

\* What the n-th last operation of a job that is over does to the counters.
LEMMA CounterEffects ==
  ASSUME Types, NEW j \in Jobs, Operate(j), NEW c \in Final, NEW n \in 1..5,
         Head(todo[j]) = OpAt(j, c, n), c = "failed" => n <= 3
  PROVE  /\ \A x \in Final :
              /\ agg'[x] = IF x = c /\ n = AddAt(c) THEN agg[x] + 1 ELSE agg[x]
              /\ told'[x] = IF x = c /\ n = SendAt(c) THEN told[x] + 1 ELSE told[x]
              /\ stats'[x] = IF x = c /\ n = 1 THEN stats[x] + 1 ELSE stats[x]
         /\ agg'["bytes_done"] = IF c \in Outcomes /\ n = 2 THEN agg["bytes_done"] + Size[j]
                                 ELSE agg["bytes_done"]
         /\ stats'["bytes"] = IF c \in Outcomes /\ n = 1 THEN stats["bytes"] + Size[j]
                              ELSE stats["bytes"]
         /\ \A x \in {"total_files", "total_bytes"} : agg'[x] = agg[x]
         /\ snap' = snap /\ base' = base
<1>1. PICK d : d = Head(todo[j])
  OBVIOUS
<1>2. d = OpAt(j, c, n)
  BY <1>1
<1>3. /\ agg \in [Final \cup {"total_files", "total_bytes", "bytes_done"} -> Nat]
      /\ stats \in [Final \cup {"bytes"} -> Nat] /\ told \in [Final -> Nat]
  BY CounterNames DEF Types, TypeOK
<1>4. j # "ticker" /\ Size[j] \in Nat
  BY ObserverAssumption
<1>5. c = "failed" \/ c \in Outcomes
  BY DEF Final
<1>6. "failed" \notin Outcomes /\ "bytes" \notin Final /\ "bytes_done" \notin Final
      /\ "total_files" \notin Final /\ "total_bytes" \notin Final /\ "Started" \notin Final
  BY DEF Final, Outcomes
<1>7. n = 1 \/ n = 2 \/ n = 3 \/ n = 4 \/ n = 5
  OBVIOUS
<1>a. CASE n = 1
  <2>5. PICK b \in Nat : b = IF c = "failed" THEN 0 ELSE Size[j]
    BY <1>4
  <2>1. d = Record(c, b)
    BY <1>2, <1>a, <2>5 DEF OpAt
  <2>2. stats' = [stats EXCEPT ![c] = @ + 1, !.bytes = @ + b] /\ UNCHANGED <<agg, told, snap, base>>
    BY <1>1, <2>1, Effects
  <2>3. SendAt(c) # 1 /\ AddAt(c) # 1
    BY DEF SendAt, AddAt
  <2>4. c # "bytes"
    BY <1>6
  <2> QED
    <3>1. stats'[c] = stats[c] + 1 /\ stats'["bytes"] = stats["bytes"] + b
          /\ \A x \in Final \ {c} : stats'[x] = stats[x]
      BY <1>3, <1>6, <2>2, <2>4
    <3>2. stats'["bytes"] = IF c \in Outcomes THEN stats["bytes"] + Size[j] ELSE stats["bytes"]
      BY <1>3, <1>5, <1>6, <2>5, <3>1
    <3> QED
      <4>1. agg' = agg /\ told' = told /\ snap' = snap /\ base' = base
        BY <2>2
      <4>2. \A x \in Final : stats'[x] = IF x = c /\ n = 1 THEN stats[x] + 1 ELSE stats[x]
        BY <1>a, <3>1
      <4>3. n # AddAt(c) /\ n # SendAt(c) /\ n # 2
        BY <1>a, <2>3
      <4> QED
        BY <1>a, <3>2, <4>1, <4>2, <4>3
<1>b. CASE c = "failed" /\ n = 2
  <2>1. d = Send(c)
    BY <1>2, <1>b DEF OpAt
  <2>2. told' = [told EXCEPT ![c] = @ + 1] /\ UNCHANGED <<agg, stats, snap, base>>
    BY <1>1, <1>4, <2>1, Effects
  <2> QED
    BY <1>3, <1>6, <1>b, <2>2 DEF SendAt, AddAt
<1>c. CASE c = "failed" /\ n = 3
  <2>1. d = Add(c, 1)
    BY <1>2, <1>c DEF OpAt
  <2>2. agg' = [agg EXCEPT ![c] = @ + 1] /\ UNCHANGED <<stats, told, snap, base>>
    BY <1>1, <2>1, Effects
  <2> QED
    BY <1>3, <1>6, <1>c, <2>2 DEF SendAt, AddAt
<1>d. CASE c \in Outcomes /\ n = 2
  <2>1. d = Add("bytes_done", Size[j])
    BY <1>2, <1>6, <1>d DEF OpAt
  <2>2. agg' = [agg EXCEPT !["bytes_done"] = @ + Size[j]] /\ UNCHANGED <<stats, told, snap, base>>
    BY <1>1, <2>1, Effects
  <2>3. SendAt(c) = 3 /\ AddAt(c) = 4
    BY <1>6, <1>d DEF SendAt, AddAt
  <2> QED
    BY <1>3, <1>6, <1>d, <2>2, <2>3
<1>e. CASE c \in Outcomes /\ n = 3
  <2>1. d = Send(c)
    BY <1>2, <1>6, <1>e DEF OpAt
  <2>2. told' = [told EXCEPT ![c] = @ + 1] /\ UNCHANGED <<agg, stats, snap, base>>
    BY <1>1, <1>4, <2>1, Effects
  <2>3. SendAt(c) = 3 /\ AddAt(c) = 4
    BY <1>6, <1>e DEF SendAt, AddAt
  <2> QED
    BY <1>3, <1>6, <1>e, <2>2, <2>3
<1>f. CASE c \in Outcomes /\ n = 4
  <2>1. d = Add(c, 1)
    BY <1>2, <1>6, <1>f DEF OpAt
  <2>2. agg' = [agg EXCEPT ![c] = @ + 1] /\ UNCHANGED <<stats, told, snap, base>>
    BY <1>1, <2>1, Effects
  <2>3. SendAt(c) = 3 /\ AddAt(c) = 4
    BY <1>6, <1>f DEF SendAt, AddAt
  <2> QED
    BY <1>3, <1>6, <1>f, <2>2, <2>3
<1>g. CASE c \in Outcomes /\ n = 5
  <2>1. d = Send("Started")
    BY <1>2, <1>6, <1>g DEF OpAt
  <2>2. told' = told /\ UNCHANGED <<agg, stats, snap, base>>
    BY <1>1, <1>4, <1>6, <2>1, Effects
  <2>3. SendAt(c) = 3 /\ AddAt(c) = 4
    BY <1>6, <1>g DEF SendAt, AddAt
  <2> QED
    BY <1>3, <1>6, <1>g, <2>2, <2>3
<1> QED
  BY <1>5, <1>7, <1>a, <1>b, <1>c, <1>d, <1>e, <1>f, <1>g

\* An operation that only tells of something changes no counter.
LEMMA ChatterEffects ==
  ASSUME NEW a, Operate(a), a # "ticker", Head(todo[a]) \in Chatter
  PROVE  UNCHANGED <<agg, stats, told, snap, base>>
<1>1. PICK e \in Events \ Final : Head(todo[a]) = Send(e)
  BY DEF Chatter
<1>2. PICK d : d = Head(todo[a])
  OBVIOUS
<1>3. /\ told' = IF e \in Final THEN [told EXCEPT ![e] = @ + 1] ELSE told
      /\ IF a = "ticker" THEN snap' = Nothing /\ base' = NoneTold ELSE UNCHANGED <<snap, base>>
      /\ UNCHANGED <<agg, stats>>
  <2>1. d = Send(e)
    BY <1>1, <1>2
  <2> QED
    BY <1>2, <2>1, Effects
<1> QED
  BY <1>3

-----------------------------------------------------------------------------
(* The accounts *)

Grows ==
  /\ \A c \in Final \cup {"bytes_done"} : agg'[c] >= agg[c]
  /\ \A c \in Final : told'[c] >= told[c]
  /\ \A x \in {"total_files", "total_bytes"} : agg'[x] = agg[x]
  /\ snap' = snap /\ base' = base

LEMMA JobOperates ==
  ASSUME Types, NEW o \in [Jobs -> Final], NEW V \in SUBSET Jobs, Script(o, V), Accounts(o, V),
         NEW j \in Jobs, Operate(j)
  PROVE  Script(o, V)' /\ Accounts(o, V)' /\ Grows
<1>1. /\ todo \in [Actors -> Seq(Op)] /\ j \in Actors
      /\ \A i \in Jobs : i \in Actors
  BY DEF Types, Actors
<1>2. /\ todo[j] \in Seq(Op) /\ todo[j] # <<>> /\ todo'[j] = Tail(todo[j]) /\ pc' = pc
      /\ todo' = [todo EXCEPT ![j] = Tail(@)] /\ \A i \in Jobs \ {j} : todo'[i] = todo[i]
  BY <1>1, OperateForm
<1>3. PICK n \in Nat : n = Len(todo[j]) /\ n >= 1 /\ Len(todo'[j]) = n - 1
  BY <1>2, TailEnds
<1>4. ASSUME NEW C, NEW k \in Nat, NEW U \in SUBSET Jobs
      PROVE  /\ IF j \in U /\ pc[j] = "over" /\ o[j] \in C /\ k = n
                THEN Past(o, U, C, k)' = Past(o, U, C, k) \cup {j}
                ELSE Past(o, U, C, k)' = Past(o, U, C, k)
             /\ k = n => j \notin Past(o, U, C, k)
             /\ Past(o, U, C, k) \in SUBSET Jobs
  <2>1. /\ IF j \in U /\ pc[j] = "over" /\ o[j] \in C /\ k = Len(todo[j])
           THEN Past(o, U, C, k)' = Past(o, U, C, k) \cup {j}
           ELSE Past(o, U, C, k)' = Past(o, U, C, k)
        /\ k = Len(todo[j]) => j \notin Past(o, U, C, k)
        /\ Past(o, U, C, k) \in SUBSET Jobs
    BY <1>1, <1>2, PastStep
  <2> QED
    BY <1>3, <2>1
<1>5. \A c \in Final : AddAt(c) \in Nat /\ SendAt(c) \in Nat
  BY DEF AddAt, SendAt
<1>8. Jobs \in SUBSET Jobs /\ 1 \in Nat
  OBVIOUS
<1>9. /\ \A c \in Final \cup {"bytes_done"} : agg[c] \in Nat
      /\ \A c \in Final : told[c] \in Nat
  BY CounterNames DEF Types, TypeOK
<1>6. CASE pc[j] # "over"
  <2>1. todo[j] \in Seq(Chatter)
    BY <1>6 DEF Script
  <2>2. Head(todo[j]) \in Chatter /\ todo'[j] \in Seq(Chatter)
    BY <1>2, <2>1, TailEnds
  <2>3. UNCHANGED <<agg, stats, told>>
    BY <2>2, ChatterEffects, ObserverAssumption
  <2>8. Grows
    BY <1>9, <2>2, ChatterEffects, ObserverAssumption DEF Grows
  <2>4. Script(o, V)'
    BY <1>2, <1>6, <2>2 DEF Script
  <2>5. \A C : \A k \in Nat, U \in SUBSET Jobs : Past(o, U, C, k)' = Past(o, U, C, k)
    BY <1>4, <1>6
  <2>6. /\ \A c \in Final : /\ Past(o, V, {c}, AddAt(c))' = Past(o, V, {c}, AddAt(c))
                            /\ Past(o, V, {c}, SendAt(c))' = Past(o, V, {c}, SendAt(c))
                            /\ Past(o, Jobs, {c}, 1)' = Past(o, Jobs, {c}, 1)
        /\ Past(o, Jobs, Outcomes, 2)' = Past(o, Jobs, Outcomes, 2)
        /\ Past(o, Jobs, Outcomes, 1)' = Past(o, Jobs, Outcomes, 1)
    BY <1>5, <2>5
  <2>7. Accounts(o, V)'
    BY <2>3, <2>6 DEF Accounts, Bytes
  <2> QED
    BY <2>4, <2>7, <2>8
<1>7. CASE pc[j] = "over"
  <2>1. PICK c \in Final : c = o[j]
    OBVIOUS
  <2>2. /\ Ends(todo[j], n, j, c, 0) /\ n <= (IF c = "failed" THEN 3 ELSE 5)
        /\ n >= SendAt(c) => j \in V
        /\ c \in {"downloaded", "resumed"} => j \in V
    BY <1>3, <1>7, <2>1 DEF Script
  <2>3. n \in 1..5 /\ (c = "failed" => n <= 3)
    <3>1. n \in Nat /\ n >= 1
      BY <1>3
    <3>2. c = "failed" => n <= 3
      BY <2>2
    <3>3. c # "failed" => n <= 5
      BY <2>2
    <3> QED
      BY <3>1, <3>2, <3>3
  <2>4. Head(todo[j]) = OpAt(j, c, n)
    <3>1. Head(todo[j]) = FromEnd(todo[j], n)
      BY <1>2, <1>3, TailEnds
    <3>2. FromEnd(todo[j], n) = OpAt(j, c, 0 + n)
      BY <2>2, <2>3 DEF Ends
    <3> QED
      BY <3>1, <3>2
  <2>5. Script(o, V)'
    <3>1. Ends(todo'[j], n - 1, j, c, 0)
      <4>1. \A k \in 1..(n - 1) : FromEnd(todo'[j], k) = FromEnd(todo[j], k)
        BY <1>2, <1>3, TailEnds
      <4>2. \A k \in 1..(n - 1) : k \in 1..n
        BY <1>3
      <4>3. todo'[j] \in Seq(Op)
        BY <1>2, TailEnds
      <4> QED
        BY <1>3, <2>2, <4>1, <4>2, <4>3 DEF Ends
    <3>2. /\ n - 1 <= (IF c = "failed" THEN 3 ELSE 5)
          /\ n - 1 >= SendAt(c) => j \in V
      BY <1>3, <1>5, <2>2
    <3> QED
      BY <1>2, <1>3, <1>7, <2>1, <2>2, <3>1, <3>2 DEF Script
  <2>6. Accounts(o, V)'
    <3>1. n = AddAt(c) => n = SendAt(c) + 1 /\ j \in V
      BY <1>5, <2>2 DEF AddAt, SendAt
    <3>2. n = SendAt(c) => j \in V
      BY <1>5, <2>2
    <3>3. /\ \A x \in Final :
               /\ agg'[x] = IF x = c /\ n = AddAt(c) THEN agg[x] + 1 ELSE agg[x]
               /\ told'[x] = IF x = c /\ n = SendAt(c) THEN told[x] + 1 ELSE told[x]
               /\ stats'[x] = IF x = c /\ n = 1 THEN stats[x] + 1 ELSE stats[x]
          /\ agg'["bytes_done"] = IF c \in Outcomes /\ n = 2 THEN agg["bytes_done"] + Size[j]
                                  ELSE agg["bytes_done"]
          /\ stats'["bytes"] = IF c \in Outcomes /\ n = 1 THEN stats["bytes"] + Size[j]
                               ELSE stats["bytes"]
      BY <2>3, <2>4, CounterEffects
    <3>4. \A C : \A k \in Nat, U \in SUBSET Jobs :
            Cardinality(Past(o, U, C, k))'
              = IF j \in U /\ c \in C /\ k = n THEN Cardinality(Past(o, U, C, k)) + 1
                ELSE Cardinality(Past(o, U, C, k))
      BY <1>4, <1>7, <2>1, CountJobs
    <3>5. \A C : \A k \in Nat, U \in SUBSET Jobs :
            Bytes(Past(o, U, C, k))'
              = IF j \in U /\ c \in C /\ k = n THEN Bytes(Past(o, U, C, k)) + Size[j]
                ELSE Bytes(Past(o, U, C, k))
      <4>1. SUFFICES ASSUME NEW C, NEW k \in Nat, NEW U \in SUBSET Jobs
                     PROVE  Bytes(Past(o, U, C, k))'
                              = IF j \in U /\ c \in C /\ k = n THEN Bytes(Past(o, U, C, k)) + Size[j]
                                ELSE Bytes(Past(o, U, C, k))
        OBVIOUS
      <4>2. PICK S \in SUBSET Jobs : S = Past(o, U, C, k)
        BY <1>4
      <4>3. PICK T : T = Past(o, U, C, k)'
        OBVIOUS
      <4>4. /\ T = IF j \in U /\ c \in C /\ k = n THEN S \cup {j} ELSE S
            /\ k = n => j \notin S
        BY <1>4, <1>7, <2>1, <4>2, <4>3
      <4>5. Bytes(T) = IF j \in U /\ c \in C /\ k = n THEN Bytes(S) + Size[j] ELSE Bytes(S)
        BY <4>4, CountBytes
      <4>6. Bytes(Past(o, U, C, k))' = Bytes(T)
        BY <4>3 DEF Bytes, ByteSet
      <4> QED
        BY <4>2, <4>5, <4>6
    <3>6. ASSUME NEW x \in Final
          PROVE  /\ agg'[x] = Cardinality(Past(o, V, {x}, AddAt(x)))'
                 /\ told'[x] = Cardinality(Past(o, V, {x}, SendAt(x)))'
                 /\ stats'[x] = Cardinality(Past(o, Jobs, {x}, 1))'
      <4>1. agg'[x] = Cardinality(Past(o, V, {x}, AddAt(x)))'
        <5>1. Cardinality(Past(o, V, {x}, AddAt(x)))'
                = IF j \in V /\ c \in {x} /\ AddAt(x) = n THEN Cardinality(Past(o, V, {x}, AddAt(x))) + 1
                  ELSE Cardinality(Past(o, V, {x}, AddAt(x)))
          BY <1>5, <3>4
        <5>2. agg[x] = Cardinality(Past(o, V, {x}, AddAt(x)))
          BY DEF Accounts
        <5> QED
          BY <3>1, <3>3, <5>1, <5>2
      <4>2. told'[x] = Cardinality(Past(o, V, {x}, SendAt(x)))'
        <5>1. Cardinality(Past(o, V, {x}, SendAt(x)))'
                = IF j \in V /\ c \in {x} /\ SendAt(x) = n THEN Cardinality(Past(o, V, {x}, SendAt(x))) + 1
                  ELSE Cardinality(Past(o, V, {x}, SendAt(x)))
          BY <1>5, <3>4
        <5>2. told[x] = Cardinality(Past(o, V, {x}, SendAt(x)))
          BY DEF Accounts
        <5> QED
          BY <3>2, <3>3, <5>1, <5>2
      <4>3. stats'[x] = Cardinality(Past(o, Jobs, {x}, 1))'
        <5>1. Cardinality(Past(o, Jobs, {x}, 1))'
                = IF j \in Jobs /\ c \in {x} /\ 1 = n THEN Cardinality(Past(o, Jobs, {x}, 1)) + 1
                  ELSE Cardinality(Past(o, Jobs, {x}, 1))
          BY <1>8, <3>4
        <5>2. stats[x] = Cardinality(Past(o, Jobs, {x}, 1))
          BY DEF Accounts
        <5> QED
          BY <3>3, <5>1, <5>2
      <4> QED
        BY <4>1, <4>2, <4>3
    <3>7. /\ agg'["bytes_done"] = Bytes(Past(o, Jobs, Outcomes, 2))'
          /\ stats'["bytes"] = Bytes(Past(o, Jobs, Outcomes, 1))'
      BY <3>3, <3>5 DEF Accounts
    <3> QED
      BY <3>6, <3>7 DEF Accounts
  <2>7. Grows
    BY <1>9, <2>3, <2>4, CounterEffects, ObserverAssumption DEF Grows
  <2> QED
    BY <2>5, <2>6, <2>7
<1> QED
  BY <1>6, <1>7

LEMMA AccountsKept ==
  ASSUME NEW o, NEW V, NEW o2, NEW V2, Accounts(o, V),
         \A c \in Final : /\ agg'[c] = agg[c] /\ told'[c] = told[c] /\ stats'[c] = stats[c]
                          /\ Past(o2, V2, {c}, AddAt(c))' = Past(o, V, {c}, AddAt(c))
                          /\ Past(o2, V2, {c}, SendAt(c))' = Past(o, V, {c}, SendAt(c))
                          /\ Past(o2, Jobs, {c}, 1)' = Past(o, Jobs, {c}, 1),
         agg'["bytes_done"] = agg["bytes_done"], stats'["bytes"] = stats["bytes"],
         Past(o2, Jobs, Outcomes, 2)' = Past(o, Jobs, Outcomes, 2),
         Past(o2, Jobs, Outcomes, 1)' = Past(o, Jobs, Outcomes, 1)
  PROVE  Accounts(o2, V2)'
  BY DEF Accounts, Bytes

\* A step of the walk, the ticker or the observer.
LEMMA OthersKeep ==
  ASSUME Accounted, \A i \in Jobs : (pc'[i] = "over" <=> pc[i] = "over") /\ todo'[i] = todo[i],
         \A c \in Final : agg'[c] = agg[c], agg'["bytes_done"] = agg["bytes_done"],
         told' = told, stats' = stats
  PROVE  Accounted'
<1>1. PICK o \in [Jobs -> Final], V \in SUBSET Jobs : Script(o, V) /\ Accounts(o, V)
  BY DEF Accounted
<1>2. Script(o, V)'
  BY <1>1 DEF Script
<1>3. \A C, k : Past(o, V, C, k)' = Past(o, V, C, k) /\ Past(o, Jobs, C, k)' = Past(o, Jobs, C, k)
  BY PastSame
<1>4. Accounts(o, V)'
  BY <1>1, <1>3, AccountsKept
<1> QED
  BY <1>2, <1>4 DEF Accounted

LEMMA JobsKeep ==
  ASSUME Types, Accounted, NEW j \in Jobs, JobStep(j)
  PROVE  Accounted'
<1>1. PICK o \in [Jobs -> Final], V \in SUBSET Jobs : Script(o, V) /\ Accounts(o, V)
  BY DEF Accounted
<1>2. /\ pc[j] # "over" /\ agg' = agg /\ told' = told /\ stats' = stats
      /\ pc \in [Jobs -> {"hidden", "ready", "started", "over"}] /\ todo \in [Actors -> Seq(Op)]
      /\ j \in Actors /\ \A i \in Jobs : i \in Actors
  BY JobStepForm DEF untouched, Types, TypeOK, Actors
<1>3. PICK s : /\ todo' = [todo EXCEPT ![j] = s]
               /\ \/ /\ pc' = [pc EXCEPT ![j] = "ready"] \/ pc' = [pc EXCEPT ![j] = "started"]
                     /\ s \in Seq(Chatter)
                  \/ /\ pc' = [pc EXCEPT ![j] = "over"]
                     /\ \E c \in Final, n \in Nat : Length(c, n) /\ Ends(s, n, j, c, 0)
  BY JobStepForm
<1>4. todo'[j] = s /\ \A i \in Jobs \ {j} : pc'[i] = pc[i] /\ todo'[i] = todo[i]
  BY <1>2, <1>3
<1>5. Jobs \in SUBSET Jobs
  OBVIOUS
<1>6. CASE pc'[j] # "over" /\ s \in Seq(Chatter)
  <2>1. Script(o, V)'
    BY <1>1, <1>4, <1>6 DEF Script
  <2>2. \A C, k : Past(o, V, C, k)' = Past(o, V, C, k) /\ Past(o, Jobs, C, k)' = Past(o, Jobs, C, k)
    BY <1>2, <1>4, <1>6 DEF Past
  <2>3. Accounts(o, V)'
    BY <1>1, <1>2, <2>2, AccountsKept
  <2> QED
    BY <2>1, <2>3 DEF Accounted
<1>7. ASSUME NEW c \in Final, NEW n \in Nat, Length(c, n), Ends(s, n, j, c, 0), pc'[j] = "over"
      PROVE  Accounted'
  <2>1. PICK o2 \in [Jobs -> Final] : o2 = [o EXCEPT ![j] = c]
    OBVIOUS
  <2>2. PICK V2 \in SUBSET Jobs : V2 = IF n >= SendAt(c) THEN V \cup {j} ELSE V \ {j}
    OBVIOUS
  <2>3. /\ o2[j] = c /\ \A i \in Jobs \ {j} : o2[i] = o[i] /\ (i \in V2 <=> i \in V)
        /\ j \in V2 <=> n >= SendAt(c)
    BY <2>1, <2>2
  <2>4. Len(s) = n /\ Ends(s, Len(s), j, c, 0)
    BY <1>7 DEF Ends
  <2>5. /\ n <= (IF c = "failed" THEN 3 ELSE 5)
        /\ c \in {"downloaded", "resumed"} => n >= SendAt(c)
    BY <1>7 DEF Length
  <2>6. Script(o2, V2)'
    BY <1>1, <1>4, <1>7, <2>3, <2>4, <2>5 DEF Script
  <2>7. ASSUME NEW C, NEW k, c \in C /\ j \in V2 => ~(n < k)
        PROVE  Past(o2, V2, C, k)' = Past(o, V, C, k)
    <3>1. /\ \A i \in Jobs \ {j} : /\ pc'[i] = pc[i] /\ todo'[i] = todo[i]
                                   /\ o2[i] = o[i] /\ (i \in V2 <=> i \in V)
          /\ pc'[j] = "over" /\ j \in V2 /\ o2[j] \in C => ~(Len(todo'[j]) < k)
      BY <1>4, <2>3, <2>4, <2>7
    <3> QED
      BY <1>1, <1>2, <2>2, <3>1 DEF Past
  <2>8. ASSUME NEW C, NEW k, c \in C => ~(n < k)
        PROVE  Past(o2, Jobs, C, k)' = Past(o, Jobs, C, k)
    <3>1. /\ \A i \in Jobs \ {j} : /\ pc'[i] = pc[i] /\ todo'[i] = todo[i]
                                   /\ o2[i] = o[i] /\ (i \in Jobs <=> i \in Jobs)
          /\ pc'[j] = "over" /\ j \in Jobs /\ o2[j] \in C => ~(Len(todo'[j]) < k)
      BY <1>4, <2>3, <2>4, <2>8
    <3> QED
      BY <1>2, <3>1 DEF Past
  <2>9. /\ n >= SendAt(c) => ~(n < AddAt(c)) /\ ~(n < SendAt(c))
        /\ ~(n < 1) /\ (c \in Outcomes => ~(n < 2))
    BY <1>7 DEF Length, AddAt, SendAt, Outcomes
  <2>a. ASSUME NEW x \in Final
        PROVE  /\ Past(o2, V2, {x}, AddAt(x))' = Past(o, V, {x}, AddAt(x))
               /\ Past(o2, V2, {x}, SendAt(x))' = Past(o, V, {x}, SendAt(x))
               /\ Past(o2, Jobs, {x}, 1)' = Past(o, Jobs, {x}, 1)
    <3>1. Past(o2, V2, {x}, AddAt(x))' = Past(o, V, {x}, AddAt(x))
      BY <2>3, <2>7, <2>9
    <3>2. Past(o2, V2, {x}, SendAt(x))' = Past(o, V, {x}, SendAt(x))
      BY <2>3, <2>7, <2>9
    <3> QED
      BY <2>8, <2>9, <3>1, <3>2
  <2>b. /\ Past(o2, Jobs, Outcomes, 2)' = Past(o, Jobs, Outcomes, 2)
        /\ Past(o2, Jobs, Outcomes, 1)' = Past(o, Jobs, Outcomes, 1)
    BY <2>8, <2>9
  <2>c. Accounts(o2, V2)'
    <3>1. \A x \in Final : /\ agg'[x] = agg[x] /\ told'[x] = told[x] /\ stats'[x] = stats[x]
                           /\ Past(o2, V2, {x}, AddAt(x))' = Past(o, V, {x}, AddAt(x))
                           /\ Past(o2, V2, {x}, SendAt(x))' = Past(o, V, {x}, SendAt(x))
                           /\ Past(o2, Jobs, {x}, 1)' = Past(o, Jobs, {x}, 1)
      BY <1>2, <2>a
    <3>2. agg'["bytes_done"] = agg["bytes_done"] /\ stats'["bytes"] = stats["bytes"]
      BY <1>2
    <3> QED
      BY <1>1, <2>b, <3>1, <3>2, AccountsKept
  <2> QED
    BY <2>6, <2>c DEF Accounted
<1>8. pc'[j] = "over" \/ (pc'[j] # "over" /\ s \in Seq(Chatter))
  BY <1>2, <1>3
<1>9. pc'[j] = "over" => \E c \in Final, n \in Nat : Length(c, n) /\ Ends(s, n, j, c, 0)
  BY <1>2, <1>3
<1> QED
  BY <1>6, <1>7, <1>8, <1>9

-----------------------------------------------------------------------------
(* Types *)

LEMMA SeqOf == ASSUME NEW X, NEW Y, X \subseteq Y, NEW s \in Seq(X) PROVE s \in Seq(Y)
  OBVIOUS

LEMMA Plans ==
  ASSUME found \in [files : Nat, bytes : Nat]
  PROVE  /\ Totals \subseteq Op /\ TickOps \subseteq Op
         /\ <<Send("DiscoveryProgress")>> \in Seq(Chatter)
         /\ Emit("DiscoveryStarted") \in Seq(Chatter)
<1>1. Totals \subseteq Op
  BY Operations, CounterNames DEF Totals
<1>2. TickOps \subseteq Op
  BY Operations DEF TickOps, Events
<1>3. Send("DiscoveryProgress") \in Chatter /\ Send("DiscoveryStarted") \in Chatter
  BY DEF Chatter, Events, Final, Outcomes
<1>4. Emit("DiscoveryStarted") = <<Send("DiscoveryStarted")>>
  BY DEF Emit, Observe, Final, Outcomes
<1> QED
  BY <1>1, <1>2, <1>3, <1>4, Single

LEMMA TypesInit == Init => Types
<1> SUFFICES ASSUME Init PROVE Types
  OBVIOUS
<1>1. found \in [files : Nat, bytes : Nat]
  BY DEF Init
<1>2. todo \in [Actors -> Seq(Op)]
  <2>1. Emit("DiscoveryStarted") \in Seq(Op)
    BY <1>1, Plans, ChatterOps, SeqOf
  <2>2. <<>> \in Seq(Op)
    OBVIOUS
  <2>3. todo = [a \in Actors |-> IF a = "walk" THEN Emit("DiscoveryStarted") ELSE <<>>]
    BY DEF Init
  <2> QED
    BY <2>1, <2>2, <2>3
<1>3. TypeOK
  BY ObserverAssumption DEF Init, TypeOK, Nothing
<1> QED
  BY <1>1, <1>2, <1>3 DEF Types, Init, NoneTold

LEMMA TypesOperate ==
  ASSUME Types, NEW a \in Actors, Operate(a)
  PROVE  Types'
<1>1. PICK d \in Op : d = Head(todo[a])
  BY OperateForm DEF Types
<1>2. /\ d.op \in {"add", "store", "record", "load", "send"} /\ d.n \in Nat
      /\ d.op \in {"add", "store", "load"} => d.c \in Counters
      /\ d.op = "record" => d.c \in Final
  BY <1>1 DEF Op
<1>3. todo' \in [Actors -> Seq(Op)]
  <2>1. /\ todo \in [Actors -> Seq(Op)] /\ todo' = [todo EXCEPT ![a] = Tail(@)]
        /\ todo[a] \in Seq(Op) /\ todo[a] # <<>>
    BY OperateForm DEF Types
  <2>2. Tail(todo[a]) \in Seq(Op)
    BY <2>1, TailEnds
  <2> QED
    BY <2>1, <2>2
<1>4. /\ agg \in [Counters -> Nat] /\ snap \in [Counters -> Nat] /\ queue \in 0..Capacity
      /\ stats \in [Final \cup {"bytes"} -> Nat] /\ told \in [Final -> Nat] /\ base \in [Final -> Nat]
  BY DEF Types, TypeOK
<1>5. /\ agg' \in [Counters -> Nat] /\ snap' \in [Counters -> Nat] /\ queue' \in 0..Capacity
      /\ stats' \in [Final \cup {"bytes"} -> Nat] /\ told' \in [Final -> Nat] /\ base' \in [Final -> Nat]
  <2>1. CASE d.op = "add"
    <3>1. agg' = [agg EXCEPT ![d.c] = @ + d.n] /\ UNCHANGED <<stats, queue, told, snap, base>>
      BY <1>1, <2>1 DEF Operate
    <3> QED
      BY <1>2, <1>4, <2>1, <3>1
  <2>2. CASE d.op = "store"
    <3>1. agg' = [agg EXCEPT ![d.c] = d.n] /\ UNCHANGED <<stats, queue, told, snap, base>>
      BY <1>1, <2>2 DEF Operate
    <3> QED
      BY <1>2, <1>4, <2>2, <3>1
  <2>3. CASE d.op = "record"
    <3>1. /\ stats' = [stats EXCEPT ![d.c] = @ + 1, !.bytes = @ + d.n]
          /\ UNCHANGED <<agg, queue, told, snap, base>>
      BY <1>1, <2>3 DEF Operate
    <3> QED
      <4>1. PICK c \in Final, n \in Nat : c = d.c /\ n = d.n
        BY <1>2, <2>3
      <4>2. PICK f : f = [stats EXCEPT ![c] = @ + 1]
        OBVIOUS
      <4>3. f \in [Final \cup {"bytes"} -> Nat]
        BY <1>4, <4>1, <4>2
      <4>4. stats' = [f EXCEPT !["bytes"] = stats["bytes"] + n]
        BY <3>1, <4>1, <4>2
      <4>5. stats' \in [Final \cup {"bytes"} -> Nat]
        BY <1>4, <4>1, <4>3, <4>4
      <4> QED
        BY <1>4, <3>1, <4>5
  <2>4. CASE d.op = "load"
    <3>1. snap' = [snap EXCEPT ![d.c] = agg[d.c]] /\ UNCHANGED <<agg, stats, queue, told, base>>
      BY <1>1, <2>4 DEF Operate
    <3> QED
      BY <1>2, <1>4, <2>4, <3>1
  <2>5. CASE d.op = "send"
    <3>1. /\ told' = IF d.c \in Final THEN [told EXCEPT ![d.c] = @ + 1] ELSE told
          /\ (snap' = Nothing /\ base' = NoneTold) \/ UNCHANGED <<snap, base>>
          /\ UNCHANGED <<agg, stats>>
          /\ queue' = IF receiver = "open" /\ queue < Capacity THEN queue + 1 ELSE queue
      BY <1>1, <2>5 DEF Operate, TrySend
    <3>2. queue' \in 0..Capacity
      BY <1>4, <3>1, ObserverAssumption
    <3>3. Nothing \in [Counters -> Nat] /\ NoneTold \in [Final -> Nat]
      BY DEF Nothing, NoneTold
    <3> QED
      BY <1>4, <3>1, <3>2, <3>3
  <2> QED
    BY <1>2, <2>1, <2>2, <2>3, <2>4, <2>5
<1>6. /\ pc' = pc /\ attempts' = attempts /\ walk' = walk /\ found' = found
      /\ receiver' = receiver /\ ticker' = ticker /\ ticks' = ticks
  BY OperateForm DEF Types
<1> QED
  BY <1>3, <1>5, <1>6 DEF Types, TypeOK

LEMMA TypesJob ==
  ASSUME Types, NEW j \in Jobs, JobStep(j)
  PROVE  Types'
<1>1. UNCHANGED untouched
  BY JobStepForm
<1>2. PICK s : /\ todo' = [todo EXCEPT ![j] = s] /\ s \in Seq(Op)
               /\ \E p \in {"ready", "started", "over"} : pc' = [pc EXCEPT ![j] = p]
  BY JobStepForm, ChatterOps, SeqOf DEF Ends
<1>3. attempts' \in [Jobs -> 0..MaxAttempts]
  <2>1. attempts \in [Jobs -> 0..MaxAttempts]
    BY DEF Types, TypeOK
  <2> QED
    BY <2>1, JobStepForm, ObserverAssumption
<1>4. todo' \in [Actors -> Seq(Op)] /\ pc' \in [Jobs -> {"hidden", "ready", "started", "over"}]
  BY <1>2 DEF Types, TypeOK
<1> QED
  BY <1>1, <1>3, <1>4 DEF Types, TypeOK, untouched

LEMMA TypesNext == Types /\ [Next]_vars => Types'
<1> SUFFICES ASSUME Types, [Next]_vars PROVE Types'
  OBVIOUS
<1>0. /\ found \in [files : Nat, bytes : Nat] /\ todo \in [Actors -> Seq(Op)]
      /\ "walk" \in Actors /\ "ticker" \in Actors
  BY DEF Types, Actors
<1>1. CASE Scan
  <2>1. <<Send("DiscoveryProgress")>> \in Seq(Op)
    BY <1>0, Plans, ChatterOps, SeqOf
  <2>2. todo' \in [Actors -> Seq(Op)]
    BY <1>0, <1>1, <2>1 DEF Scan, Plan
  <2> QED
    BY <1>1, <2>2 DEF Scan, Plan, Types, TypeOK
<1>2. CASE Announce
  <2>1. Emit("Discovered") \in Seq(Op)
    BY <1>0, AnnouncePlan, Plans, ChatterOps, SeqOf
  <2>2. todo' \in [Actors -> Seq(Op)]
    BY <1>0, <1>2, <2>1 DEF Announce, Plan
  <2> QED
    BY <1>2, <2>2 DEF Announce, Plan, Types, TypeOK
<1>3. ASSUME NEW j \in Jobs, Discover(j) PROVE Types'
  <2>1. Size[j] \in Nat
    BY ObserverAssumption
  <2>2. found' \in [files : Nat, bytes : Nat]
    BY <1>0, <1>3, <2>1 DEF Discover
  <2> QED
    BY <1>3, <2>2 DEF Discover, Types, TypeOK
<1>4. CASE Tick
  <2>1. todo' \in [Actors -> Seq(Op)]
    <3>1. [i \in DOMAIN Loads |-> Load(Loads[i])] \o <<Send("Aggregate")>> \in Seq(Op)
      BY <1>0, TickPlan, Plans, SeqOf
    <3> QED
      BY <1>0, <1>4, <3>1 DEF Tick
  <2>2. Nothing \in [Counters -> Nat]
    BY DEF Nothing
  <2>3. ticks' \in 0..MaxTicks
    BY <1>4, ObserverAssumption DEF Tick, Types, TypeOK
  <2> QED
    BY <1>4, <2>1, <2>2, <2>3 DEF Tick, Types, TypeOK
<1>5. CASE Abort
  BY <1>5 DEF Abort, Types, TypeOK
<1>6. CASE Read
  <2>1. queue' \in 0..Capacity
    BY <1>6, ObserverAssumption DEF Read, Types, TypeOK
  <2> QED
    BY <1>6, <2>1 DEF Read, Types, TypeOK
<1>7. CASE UNCHANGED vars
  BY <1>7 DEF vars, Types, TypeOK
<1> QED
  BY <1>1, <1>2, <1>3, <1>4, <1>5, <1>6, <1>7, TypesOperate, TypesJob DEF Next, WalkStep

\* TypeOK: the counters are counts, and the observer's channel never holds more
\* events than its capacity, however many are emitted.
THEOREM EventsTypeOK == Spec => []TypeOK
<1>1. Init => Types
  BY TypesInit
<1>2. Types /\ [Next]_vars => Types'
  BY TypesNext
<1>3. Types => TypeOK
  BY DEF Types
<1> QED
  BY <1>1, <1>2, <1>3, PTL DEF Spec

-----------------------------------------------------------------------------
(* The invariant holds *)

LEMMA DiscoveryKept ==
  ASSUME Discovery, \A j \in Jobs : pc'[j] = "hidden" <=> pc[j] = "hidden",
         found' = found, walk' = walk, todo'["walk"] = todo["walk"],
         \A x \in {"total_files", "total_bytes"} : agg'[x] = agg[x] /\ snap'[x] = snap[x]
  PROVE  Discovery'
<1>1. Discovered' = Discovered
  BY DEF Discovered
<1>2. Totals' = Totals
  BY DEF Totals
<1> QED
  BY <1>1, <1>2 DEF Discovery, Bytes

LEMMA SnapshotKept ==
  ASSUME Types, Types', Snapshot, todo'["ticker"] = todo["ticker"], snap' = snap, base' = base,
         \A c \in Final \cup {"bytes_done"} : agg'[c] >= agg[c],
         \A c \in Final : told'[c] >= told[c]
  PROVE  Snapshot'
<1>1. /\ \A c \in Final \cup {"bytes_done"} : snap[c] \in Nat /\ agg[c] \in Nat /\ agg'[c] \in Nat
      /\ \A c \in Final : base[c] \in Nat /\ told[c] \in Nat /\ told'[c] \in Nat
  BY CounterNames DEF Types, TypeOK
<1>2. \A c : Pending(c)' <=> Pending(c)
  BY DEF Pending
<1>3. \A c \in Final \cup {"bytes_done"} : snap'[c] <= agg'[c]
  BY <1>1 DEF Snapshot
<1>4. \A c \in Final : base'[c] <= told'[c]
  BY <1>1 DEF Snapshot
<1> QED
  BY <1>2, <1>3, <1>4 DEF Snapshot

\* The observer is told of a file after the aggregator.
LEMMA AggregatorFirst ==
  ASSUME Types, Accounted
  PROVE  \A c \in Final : told[c] <= agg[c]
<1>1. PICK o \in [Jobs -> Final], V \in SUBSET Jobs : Accounts(o, V)
  BY DEF Accounted
<1>2. SUFFICES ASSUME NEW c \in Final PROVE told[c] <= agg[c]
  OBVIOUS
<1>3. Past(o, V, {c}, SendAt(c)) \in SUBSET Past(o, V, {c}, AddAt(c))
  <2>1. \A j \in Jobs : Len(todo[j]) < SendAt(c) => Len(todo[j]) < AddAt(c)
    <3>1. \A j \in Jobs : todo[j] \in Seq(Op)
      BY DEF Types, Actors
    <3>2. \A j \in Jobs : Len(todo[j]) \in Nat
      BY <3>1
    <3> QED
      BY <3>2 DEF SendAt, AddAt
  <2> QED
    BY <1>1, <2>1 DEF Past
<1>4. Past(o, V, {c}, AddAt(c)) \in SUBSET Jobs
  BY <1>1 DEF Past
<1> QED
  BY <1>1, <1>3, <1>4, CountJobs DEF Accounts

LEMMA InvariantInit == Init => IInv
<1> SUFFICES ASSUME Init PROVE IInv
  OBVIOUS
<1>1. Types
  BY TypesInit
<1>2. Accounted
  <2>1. PICK o \in [Jobs -> Final] : TRUE
    <3>1. [j \in Jobs |-> "failed"] \in [Jobs -> Final]
      BY DEF Final
    <3> QED
      BY <3>1
  <2>2. Script(o, Jobs)
    <3>1. \A j \in Jobs : pc[j] = "hidden" /\ todo[j] = <<>>
      BY ObserverAssumption DEF Init, Actors
    <3>2. <<>> \in Seq(Chatter)
      OBVIOUS
    <3> QED
      BY <3>1, <3>2 DEF Script
  <2>3. \A C, k : Past(o, Jobs, C, k) = {}
    BY DEF Init, Past
  <2>4. Bytes({}) = 0 /\ Cardinality({}) = 0
    BY FS_EmptySet DEF Bytes, ByteSet
  <2>5. /\ \A c \in Final : agg[c] = 0 /\ told[c] = 0 /\ stats[c] = 0
        /\ agg["bytes_done"] = 0 /\ stats["bytes"] = 0
    BY CounterNames DEF Init, Nothing, NoneTold
  <2>6. Accounts(o, Jobs)
    BY <2>3, <2>4, <2>5 DEF Accounts
  <2> QED
    BY <2>2, <2>6 DEF Accounted
<1>3. Discovery
  <2>1. Discovered = {}
    BY DEF Init, Discovered
  <2>2. Bytes({}) = 0 /\ Cardinality({}) = 0
    BY FS_EmptySet DEF Bytes, ByteSet
  <2>3. found = [files |-> 0, bytes |-> 0] /\ todo["walk"] = Emit("DiscoveryStarted")
    BY DEF Init, Actors
  <2>4. \A x \in {"total_files", "total_bytes"} : agg[x] = 0 /\ snap[x] = 0
    BY CounterNames DEF Init, Nothing
  <2>5. todo["walk"] \in Seq(Chatter)
    BY <1>1, <2>3, Plans DEF Types
  <2>6. todo["walk"] \in Seq(Chatter \cup Totals)
    BY <2>5, SeqOf
  <2> QED
    BY <2>1, <2>2, <2>3, <2>4, <2>5, <2>6 DEF Discovery
<1>4. Snapshot
  <2>1. todo["ticker"] = <<>>
    BY DEF Init, Actors
  <2>2. <<>> \in Seq(TickOps)
    OBVIOUS
  <2>3. /\ \A c \in Final \cup {"bytes_done"} : snap[c] = 0 /\ agg[c] = 0
        /\ \A c \in Final : base[c] = 0 /\ told[c] = 0
    BY CounterNames DEF Init, Nothing, NoneTold
  <2> QED
    BY <2>1, <2>2, <2>3 DEF Snapshot
<1> QED
  BY <1>1, <1>2, <1>3, <1>4 DEF IInv

LEMMA JobsPreserve ==
  ASSUME IInv, Types', NEW j \in Jobs, JobStep(j) \/ Operate(j)
  PROVE  IInv'
<1>1. j \in Actors /\ j # "walk" /\ j # "ticker" /\ "walk" \in Actors /\ "ticker" \in Actors
  BY ObserverAssumption DEF Actors
<1>2. todo \in [Actors -> Seq(Op)] /\ pc \in [Jobs -> {"hidden", "ready", "started", "over"}]
  BY DEF IInv, Types, TypeOK
<1>3. /\ \A c \in Final \cup {"bytes_done"} : agg[c] \in Nat
      /\ \A c \in Final : told[c] \in Nat
  BY CounterNames DEF IInv, Types, TypeOK
<1>4. CASE JobStep(j)
  <2>1. /\ pc[j] \in {"ready", "started"} /\ UNCHANGED untouched
        /\ \E s : todo' = [todo EXCEPT ![j] = s]
        /\ \E p \in {"ready", "started", "over"} : pc' = [pc EXCEPT ![j] = p]
    BY <1>4, JobStepForm
  <2>2. /\ agg' = agg /\ told' = told /\ snap' = snap /\ base' = base
        /\ found' = found /\ walk' = walk
    BY <2>1 DEF untouched
  <2>3. todo'["walk"] = todo["walk"] /\ todo'["ticker"] = todo["ticker"]
    BY <1>1, <1>2, <2>1
  <2>4. \A i \in Jobs : pc'[i] = "hidden" <=> pc[i] = "hidden"
    BY <1>2, <2>1
  <2>5. Discovery'
    BY <2>2, <2>3, <2>4, DiscoveryKept DEF IInv
  <2>6. Snapshot'
    BY <1>3, <2>2, <2>3, SnapshotKept DEF IInv
  <2> QED
    BY <1>4, <2>5, <2>6, JobsKeep DEF IInv
<1>5. CASE Operate(j)
  <2>1. Accounted' /\ Grows
    BY <1>5, JobOperates DEF Accounted, IInv
  <2>2. /\ pc' = pc /\ found' = found /\ walk' = walk
        /\ todo'["walk"] = todo["walk"] /\ todo'["ticker"] = todo["ticker"]
    BY <1>1, <1>2, <1>5, OperateForm
  <2>3. Discovery'
    BY <2>1, <2>2, DiscoveryKept DEF IInv, Grows
  <2>4. Snapshot'
    BY <2>1, <2>2, SnapshotKept DEF IInv, Grows
  <2> QED
    BY <2>1, <2>3, <2>4 DEF IInv
<1> QED
  BY <1>4, <1>5

\* A step after which every job, counter and list is what it was.
LEMMA NothingMoves ==
  ASSUME IInv, Types', UNCHANGED <<pc, walk, found, todo, agg, stats, told, snap, base>>
  PROVE  IInv'
<1>1. /\ \A c \in Final \cup {"bytes_done"} : agg[c] \in Nat
      /\ \A c \in Final : told[c] \in Nat
  BY CounterNames DEF IInv, Types, TypeOK
<1> QED
  BY <1>1, OthersKeep, DiscoveryKept, SnapshotKept DEF IInv

LEMMA WalkPreserves ==
  ASSUME IInv, Types', WalkStep \/ Operate("walk")
  PROVE  IInv'
<1>1. /\ "walk" \in Actors /\ "ticker" \in Actors /\ "walk" # "ticker" /\ "walk" \notin Jobs
      /\ \A j \in Jobs : j \in Actors
  BY ObserverAssumption DEF Actors
<1>2. /\ todo \in [Actors -> Seq(Op)] /\ pc \in [Jobs -> {"hidden", "ready", "started", "over"}]
      /\ found \in [files : Nat, bytes : Nat]
      /\ agg \in [Final \cup {"total_files", "total_bytes", "bytes_done"} -> Nat]
  BY CounterNames DEF IInv, Types, TypeOK
<1>3. /\ \A c \in Final \cup {"bytes_done"} : agg[c] \in Nat
      /\ \A c \in Final : told[c] \in Nat
  BY CounterNames DEF IInv, Types, TypeOK
<1>4. ASSUME NEW s, todo["walk"] = <<>>, todo' = [todo EXCEPT !["walk"] = s],
             UNCHANGED <<pc, found, agg, stats, told, snap, base>>,
             \/ walk' = walk /\ s \in Seq(Chatter)
             \/ walk' = "ended" /\ s \in Seq(Chatter \cup Totals)
      PROVE  IInv'
  <2>1. todo'["walk"] = s /\ todo'["ticker"] = todo["ticker"] /\ \A j \in Jobs : todo'[j] = todo[j]
    BY <1>1, <1>2, <1>4
  <2>2. Accounted'
    BY <1>4, <2>1, OthersKeep DEF IInv
  <2>3. Snapshot'
    BY <1>3, <1>4, <2>1, SnapshotKept DEF IInv
  <2>4. Discovery'
    <3>1. s \in Seq(Chatter \cup Totals)
      BY <1>4, SeqOf
    <3>2. Discovered' = Discovered /\ Totals' = Totals
      BY <1>4 DEF Discovered, Totals
    <3>3. walk' = "listing" => walk = "listing" /\ s \in Seq(Chatter)
      BY <1>4
    <3> QED
      BY <1>4, <2>1, <3>1, <3>2, <3>3 DEF IInv, Discovery, Bytes
  <2> QED
    BY <2>2, <2>3, <2>4 DEF IInv
<1>5. CASE Scan
  <2>1. <<Send("DiscoveryProgress")>> \in Seq(Chatter)
    BY <1>2, Plans
  <2> QED
    BY <1>4, <1>5, <2>1 DEF Scan, Plan, Idle
<1>6. CASE Announce
  BY <1>4, <1>6, AnnouncePlan DEF Announce, Plan, Idle
<1>7. ASSUME NEW j \in Jobs, Discover(j) PROVE IInv'
  <2>1. /\ pc[j] = "hidden" /\ pc' = [pc EXCEPT ![j] = "ready"] /\ walk = "listing" /\ walk' = walk
        /\ found' = [files |-> found.files + 1, bytes |-> found.bytes + Size[j]]
        /\ UNCHANGED <<todo, agg, stats, told, snap, base>>
    BY <1>7 DEF Discover
  <2>2. Accounted'
    BY <1>2, <2>1, OthersKeep DEF IInv
  <2>3. Snapshot'
    BY <1>3, <2>1, SnapshotKept DEF IInv
  <2>4. Discovery'
    <3>1. PICK S \in SUBSET Jobs : S = Discovered
      BY DEF Discovered
    <3>2. Discovered' = S \cup {j} /\ j \notin S
      BY <1>2, <2>1, <3>1 DEF Discovered
    <3>3. /\ Cardinality(S \cup {j}) = Cardinality(S) + 1
          /\ Bytes(S \cup {j}) = Bytes(S) + Size[j]
      BY <3>1, <3>2, CountJobs, CountBytes
    <3>4. found.files = Cardinality(S) /\ found.bytes = Bytes(S)
      BY <3>1 DEF IInv, Discovery
    <3>5. found' = [files |-> Cardinality(Discovered'), bytes |-> Bytes(Discovered')]
      BY <2>1, <3>2, <3>3, <3>4
    <3>6. found' = [files |-> Cardinality(Discovered), bytes |-> Bytes(Discovered)]'
      BY <3>5 DEF Bytes, ByteSet
    <3>7. /\ todo["walk"] \in Seq(Chatter)
          /\ agg["total_files"] = 0 /\ agg["total_bytes"] = 0
          /\ snap["total_files"] = 0 /\ snap["total_bytes"] = 0
      BY <2>1 DEF IInv, Discovery
    <3>8. todo'["walk"] \in Seq(Chatter \cup Totals')
      BY <2>1, <3>7, SeqOf
    <3> QED
      BY <2>1, <3>6, <3>7, <3>8 DEF Discovery
  <2> QED
    BY <2>2, <2>3, <2>4 DEF IInv
<1>8. CASE Operate("walk")
  <2>1. /\ pc' = pc /\ walk' = walk /\ found' = found
        /\ todo["walk"] # <<>> /\ todo'["walk"] = Tail(todo["walk"])
        /\ todo'["ticker"] = todo["ticker"] /\ \A j \in Jobs : todo'[j] = todo[j]
    BY <1>1, <1>2, <1>8, OperateForm
  <2>2. /\ Head(todo["walk"]) \in Chatter \cup Totals
        /\ Tail(todo["walk"]) \in Seq(Chatter \cup Totals)
    BY <2>1, TailEnds DEF IInv, Discovery
  <2>3. walk = "listing" => Head(todo["walk"]) \in Chatter /\ Tail(todo["walk"]) \in Seq(Chatter)
    BY <2>1, TailEnds DEF IInv, Discovery
  <2>4. Discovered' = Discovered /\ Totals' = Totals
    BY <2>1 DEF Discovered, Totals
  <2>5. CASE Head(todo["walk"]) \in Chatter
    <3>1. UNCHANGED <<agg, stats, told, snap, base>>
      BY <1>1, <1>8, <2>5, ChatterEffects
    <3>2. Accounted'
      BY <2>1, <3>1, OthersKeep DEF IInv
    <3>3. Snapshot'
      BY <1>3, <2>1, <3>1, SnapshotKept DEF IInv
    <3>4. Discovery'
      BY <2>1, <2>2, <2>3, <2>4, <3>1 DEF IInv, Discovery, Bytes
    <3> QED
      BY <3>2, <3>3, <3>4 DEF IInv
  <2>6. CASE Head(todo["walk"]) \notin Chatter
    <3>1. walk # "listing"
      BY <2>3, <2>6
    <3>2. PICK x \in {"total_files", "total_bytes"}, n \in {found.files, found.bytes} :
            /\ Head(todo["walk"]) = Store(x, n)
            /\ x = "total_files" => n = found.files
            /\ x = "total_bytes" => n = found.bytes
      BY <2>2, <2>6 DEF Totals
    <3>3. agg' = [agg EXCEPT ![x] = n] /\ UNCHANGED <<stats, told, snap, base>>
      BY <1>8, <3>2, Effects
    <3>4. "total_files" \notin Final \cup {"bytes_done"} /\ "total_bytes" \notin Final \cup {"bytes_done"}
      BY DEF Final, Outcomes
    <3>5. /\ \A c \in Final \cup {"bytes_done"} : agg'[c] = agg[c]
          /\ agg'["total_files"] \in {agg["total_files"], found.files}
          /\ agg'["total_bytes"] \in {agg["total_bytes"], found.bytes}
      BY <1>2, <3>2, <3>3, <3>4
    <3>6. Accounted'
      BY <2>1, <3>3, <3>5, OthersKeep DEF IInv
    <3>7. Snapshot'
      BY <1>3, <2>1, <3>3, <3>5, SnapshotKept DEF IInv
    <3>8. Discovery'
      BY <2>1, <2>2, <2>4, <3>1, <3>3, <3>5 DEF IInv, Discovery, Bytes
    <3> QED
      BY <3>6, <3>7, <3>8 DEF IInv
  <2> QED
    BY <2>5, <2>6
<1> QED
  BY <1>5, <1>6, <1>7, <1>8 DEF WalkStep

LEMMA TickerPreserves ==
  ASSUME IInv, Types', Tick \/ Operate("ticker")
  PROVE  IInv'
<1>1. /\ "walk" \in Actors /\ "ticker" \in Actors /\ "walk" # "ticker" /\ "ticker" \notin Jobs
      /\ \A j \in Jobs : j \in Actors
  BY ObserverAssumption DEF Actors
<1>2. /\ todo \in [Actors -> Seq(Op)]
      /\ snap \in [Final \cup {"total_files", "total_bytes", "bytes_done"} -> Nat]
      /\ found \in [files : Nat, bytes : Nat]
  BY CounterNames DEF IInv, Types, TypeOK
<1>3. /\ \A c \in Final \cup {"bytes_done"} : agg[c] \in Nat
      /\ \A c \in Final : told[c] \in Nat /\ base[c] \in Nat
  BY CounterNames DEF IInv, Types, TypeOK
<1>4. /\ \A c \in Counters : Nothing[c] = 0
      /\ \A c \in Final : NoneTold[c] = 0
  BY DEF Nothing, NoneTold
<1>5. Final \cup {"total_files", "total_bytes", "bytes_done"} = Counters
  BY CounterNames
<1>6. CASE Tick
  <2>1. PICK plan \in Seq(TickOps) :
          /\ todo' = [todo EXCEPT !["ticker"] = plan]
          /\ \A c \in Counters : \E i \in DOMAIN plan : plan[i] = Load(c)
    BY <1>6, TickPlan DEF Tick
  <2>2. todo'["ticker"] = plan /\ todo'["walk"] = todo["walk"] /\ \A j \in Jobs : todo'[j] = todo[j]
    BY <1>1, <1>2, <2>1
  <2>3. /\ UNCHANGED <<pc, walk, found, agg, stats, told>>
        /\ snap' = Nothing /\ base' = told
    BY <1>6 DEF Tick
  <2>4. Accounted'
    BY <2>2, <2>3, OthersKeep DEF IInv
  <2>5. Discovery'
    <3>1. Discovered' = Discovered /\ Totals' = Totals
      BY <2>3 DEF Discovered, Totals
    <3>2. snap'["total_files"] = 0 /\ snap'["total_bytes"] = 0
      BY <1>4, <1>5, <2>3
    <3> QED
      BY <2>2, <2>3, <3>1, <3>2 DEF IInv, Discovery, Bytes
  <2>6. Snapshot'
    <3>1. \A c \in Final \cup {"bytes_done"} : snap'[c] <= agg'[c]
      BY <1>3, <1>4, <1>5, <2>3
    <3>2. \A c \in Final : base'[c] <= told'[c] /\ Pending(c)'
      BY <1>3, <1>5, <2>1, <2>2, <2>3 DEF Pending
    <3> QED
      BY <2>1, <2>2, <3>1, <3>2 DEF Snapshot
  <2> QED
    BY <2>4, <2>5, <2>6 DEF IInv
<1>7. CASE Operate("ticker")
  <2>1. /\ pc' = pc /\ walk' = walk /\ found' = found
        /\ todo["ticker"] # <<>> /\ todo'["ticker"] = Tail(todo["ticker"])
        /\ todo'["walk"] = todo["walk"] /\ \A j \in Jobs : todo'[j] = todo[j]
    BY <1>1, <1>2, <1>7, OperateForm
  <2>2. PICK s \in Seq(TickOps) : s = todo["ticker"]
    BY DEF IInv, Snapshot
  <2>3. /\ Head(s) \in TickOps /\ Tail(s) \in Seq(TickOps) /\ Len(s) \in Nat
        /\ Len(Tail(s)) = Len(s) - 1 /\ Head(s) = s[1]
        /\ \A i \in 1..(Len(s) - 1) : Tail(s)[i] = s[i + 1]
    BY <2>1, <2>2, TailEnds, HeadTailProperties
  <2>4. Discovered' = Discovered /\ Totals' = Totals
    BY <2>1 DEF Discovered, Totals
  <2>5. CASE Head(s) = Send("Aggregate")
    <3>1. "Aggregate" \notin Final
      BY DEF Final, Outcomes
    <3>2. UNCHANGED <<agg, stats, told>> /\ snap' = Nothing /\ base' = NoneTold
      BY <1>7, <2>2, <2>5, <3>1, Effects
    <3>3. Accounted'
      BY <2>1, <3>2, OthersKeep DEF IInv
    <3>4. Discovery'
      <4>1. snap'["total_files"] = 0 /\ snap'["total_bytes"] = 0
        BY <1>4, <1>5, <3>2
      <4> QED
        BY <2>1, <2>4, <3>2, <4>1 DEF IInv, Discovery, Bytes
    <3>5. Snapshot'
      <4>1. \A c \in Final \cup {"bytes_done"} : snap'[c] <= agg'[c]
        BY <1>3, <1>4, <1>5, <3>2
      <4>2. \A c \in Final : base'[c] <= told'[c] /\ base'[c] <= snap'[c]
        BY <1>3, <1>4, <1>5, <3>2
      <4> QED
        BY <2>1, <2>2, <2>3, <4>1, <4>2 DEF Snapshot
    <3> QED
      BY <3>3, <3>4, <3>5 DEF IInv
  <2>6. CASE Head(s) # Send("Aggregate")
    <3>1. PICK c \in Counters : Head(s) = Load(c)
      BY <2>3, <2>6 DEF TickOps
    <3>2. UNCHANGED <<agg, stats, told, base>> /\ snap' = [snap EXCEPT ![c] = agg[c]]
      BY <1>7, <2>2, <3>1, Effects
    <3>3. /\ snap'[c] = agg[c] /\ \A x \in Counters \ {c} : snap'[x] = snap[x]
      BY <1>2, <1>5, <3>2
    <3>4. Accounted'
      BY <2>1, <3>2, OthersKeep DEF IInv
    <3>5. Discovery'
      <4>1. \A x \in {"total_files", "total_bytes"} : snap'[x] \in {snap[x], agg[x]}
        BY <1>5, <3>3
      <4> QED
        BY <2>1, <2>4, <3>2, <4>1 DEF IInv, Discovery, Bytes
    <3>6. Snapshot'
      <4>1. \A x \in Final \cup {"bytes_done"} : snap'[x] <= agg'[x]
        BY <1>3, <1>5, <3>2, <3>3 DEF IInv, Snapshot
      <4>2. ASSUME NEW x \in Final PROVE base'[x] <= told'[x] /\ (Pending(x)' \/ base'[x] <= snap'[x])
        <5>1. base[x] <= told[x] /\ told[x] <= agg[x]
          BY AggregatorFirst DEF IInv, Snapshot
        <5>2. CASE x = c
          BY <1>3, <3>2, <3>3, <5>1, <5>2
        <5>3. CASE x # c
          <6>1. Pending(x) => Pending(x)'
            <7>1. SUFFICES ASSUME Pending(x) PROVE Pending(x)'
              OBVIOUS
            <7>2. PICK i \in DOMAIN s : s[i] = Load(x)
              BY <2>2, <7>1 DEF Pending
            <7>3. i \in 1..Len(s) /\ i # 1
              BY <2>3, <3>1, <5>3, <7>2 DEF Load
            <7>4. i - 1 \in 1..(Len(s) - 1) /\ (i - 1) + 1 = i
              BY <2>3, <7>3
            <7>5. i - 1 \in DOMAIN Tail(s) /\ Tail(s)[i - 1] = Load(x)
              BY <2>3, <7>2, <7>4
            <7> QED
              BY <2>1, <2>2, <7>5 DEF Pending
          <6>2. snap'[x] = snap[x]
            BY <1>5, <3>3, <5>3
          <6> QED
            BY <3>2, <5>1, <6>1, <6>2 DEF IInv, Snapshot
        <5> QED
          BY <5>2, <5>3
      <4> QED
        BY <2>1, <2>2, <2>3, <4>1, <4>2 DEF Snapshot
    <3> QED
      BY <3>4, <3>5, <3>6 DEF IInv
  <2> QED
    BY <2>5, <2>6
<1> QED
  BY <1>6, <1>7

LEMMA InvariantHolds == Spec => []IInv
<1>1. Init => IInv
  BY InvariantInit
<1>2. IInv /\ [Next]_vars => IInv'
  <2> SUFFICES ASSUME IInv, [Next]_vars PROVE IInv'
    OBVIOUS
  <2>1. Types'
    BY TypesNext DEF IInv
  <2>2. CASE WalkStep
    BY <2>1, <2>2, WalkPreserves
  <2>3. CASE Tick
    BY <2>1, <2>3, TickerPreserves
  <2>4. CASE Abort \/ Read \/ UNCHANGED vars
    BY <2>1, <2>4, NothingMoves DEF Abort, Read, vars
  <2>5. ASSUME NEW j \in Jobs, JobStep(j) PROVE IInv'
    BY <2>1, <2>5, JobsPreserve
  <2>6. ASSUME NEW a \in Actors, Operate(a) PROVE IInv'
    <3>1. CASE a = "walk"
      BY <2>1, <2>6, <3>1, WalkPreserves
    <3>2. CASE a = "ticker"
      BY <2>1, <2>6, <3>2, TickerPreserves
    <3>3. CASE a \in Jobs
      BY <2>1, <2>6, <3>3, JobsPreserve
    <3> QED
      BY <3>1, <3>2, <3>3 DEF Actors
  <2> QED
    BY <2>2, <2>3, <2>4, <2>5, <2>6 DEF Next
<1> QED
  BY <1>1, <1>2, PTL DEF Spec

-----------------------------------------------------------------------------
(* What the observer can rely on *)

\* SnapshotCoversSent: the aggregator is fed before the observer, so a snapshot
\* holds every terminal event that was told before its tick began.
THEOREM SnapshotHoldsWhatWasTold == Spec => []SnapshotCoversSent
<1>1. IInv => SnapshotCoversSent
  <2>1. SUFFICES ASSUME IInv, todo["ticker"] = <<Send("Aggregate")>>, NEW c \in Final
                 PROVE  snap[c] >= base[c]
    BY DEF SnapshotCoversSent
  <2>2. ~Pending(c)
    <3>1. Send("Aggregate") # Load(c)
      BY DEF Send, Load
    <3> QED
      BY <2>1, <3>1 DEF Pending
  <2>3. base[c] \in Nat /\ snap[c] \in Nat
    BY <2>1, CounterNames DEF IInv, Types, TypeOK
  <2> QED
    BY <2>1, <2>2, <2>3 DEF IInv, Snapshot
<1> QED
  BY <1>1, InvariantHolds, PTL

LEMMA Disjoint4 ==
  ASSUME NEW D \in SUBSET Jobs, NEW R \in SUBSET Jobs, NEW S \in SUBSET Jobs, NEW F \in SUBSET Jobs,
         D \cap R = {}, (D \cup R) \cap S = {}, (D \cup R \cup S) \cap F = {}
  PROVE  Cardinality(D \cup R \cup S \cup F)
           = Cardinality(D) + Cardinality(R) + Cardinality(S) + Cardinality(F)
<1>1. \A A, B \in SUBSET Jobs : A \cap B = {} => Cardinality(A \cup B) = Cardinality(A) + Cardinality(B)
  <2>1. SUFFICES ASSUME NEW A \in SUBSET Jobs, NEW B \in SUBSET Jobs, A \cap B = {}
                 PROVE  Cardinality(A \cup B) = Cardinality(A) + Cardinality(B)
    OBVIOUS
  <2>2. IsFiniteSet(A) /\ IsFiniteSet(B) /\ Cardinality(A) \in Nat /\ Cardinality(B) \in Nat
    BY CountJobs
  <2>3. Cardinality(A \cup B) = Cardinality(A) + Cardinality(B) - Cardinality(A \cap B)
    BY <2>2, FS_Union
  <2>4. Cardinality(A \cap B) = 0
    BY <2>1, FS_EmptySet
  <2> QED
    BY <2>2, <2>3, <2>4
<1>2. Cardinality(D \cup R) = Cardinality(D) + Cardinality(R)
  BY <1>1
<1>3. Cardinality((D \cup R) \cup S) = Cardinality(D \cup R) + Cardinality(S)
  BY <1>1
<1>4. Cardinality((D \cup R \cup S) \cup F) = Cardinality(D \cup R \cup S) + Cardinality(F)
  BY <1>1
<1> QED
  BY <1>2, <1>3, <1>4

\* What the counters add up to is no more than what was found.
LEMMA CountersBounded ==
  ASSUME IInv
  PROVE  /\ agg["downloaded"] + agg["resumed"] + agg["skipped"] + agg["failed"] <= found.files
         /\ agg["bytes_done"] <= found.bytes
<1>1. PICK o \in [Jobs -> Final], V \in SUBSET Jobs : Accounts(o, V)
  BY DEF IInv, Accounted
<1>2. PICK D, R, S, F : /\ D = Past(o, V, {"downloaded"}, 4) /\ R = Past(o, V, {"resumed"}, 4)
                        /\ S = Past(o, V, {"skipped"}, 4) /\ F = Past(o, V, {"failed"}, 3)
  OBVIOUS
<1>3. /\ agg["downloaded"] = Cardinality(D) /\ agg["resumed"] = Cardinality(R)
      /\ agg["skipped"] = Cardinality(S) /\ agg["failed"] = Cardinality(F)
  BY <1>1, <1>2 DEF Accounts, Final, Outcomes, AddAt
<1>4. /\ D \in SUBSET Discovered /\ R \in SUBSET Discovered /\ S \in SUBSET Discovered
      /\ F \in SUBSET Discovered /\ Discovered \in SUBSET Jobs
  BY <1>1, <1>2 DEF Past, Discovered
<1>5. D \cap R = {} /\ (D \cup R) \cap S = {} /\ (D \cup R \cup S) \cap F = {}
  BY <1>2 DEF Past
<1>6. Cardinality(D) + Cardinality(R) + Cardinality(S) + Cardinality(F) <= Cardinality(Discovered)
  <2>1. /\ D \in SUBSET Jobs /\ R \in SUBSET Jobs /\ S \in SUBSET Jobs /\ F \in SUBSET Jobs
        /\ D \cup R \cup S \cup F \in SUBSET Discovered
    BY <1>4
  <2>2. Cardinality(D \cup R \cup S \cup F) <= Cardinality(Discovered)
    BY <1>4, <2>1, CountJobs
  <2>3. Cardinality(D \cup R \cup S \cup F)
          = Cardinality(D) + Cardinality(R) + Cardinality(S) + Cardinality(F)
    BY <1>5, <2>1, Disjoint4
  <2> QED
    BY <2>2, <2>3
<1>7. agg["bytes_done"] <= found.bytes
  <2>1. Past(o, Jobs, Outcomes, 2) \in SUBSET Discovered
    BY DEF Past, Discovered
  <2> QED
    BY <1>1, <1>4, <2>1, CountBytes DEF Accounts, IInv, Discovery
<1> QED
  BY <1>3, <1>6, <1>7 DEF IInv, Discovery

\* DoneWithinTotal: once the totals are known, neither the counters nor a
\* snapshot show more files or bytes done than there are, though both change
\* while they are read.
THEOREM NoMoreDoneThanFound == Spec => []DoneWithinTotal
<1>1. IInv => DoneWithinTotal
  <2>1. SUFFICES ASSUME IInv PROVE WithinTotal(agg) /\ WithinTotal(snap)
    BY DEF DoneWithinTotal
  <2>2. /\ \A c \in Final \cup {"bytes_done"} : agg[c] \in Nat /\ snap[c] \in Nat /\ snap[c] <= agg[c]
        /\ found.files \in Nat /\ found.bytes \in Nat
    BY <2>1, CounterNames DEF IInv, Types, TypeOK, Snapshot
  <2>3. /\ snap["downloaded"] + snap["resumed"] + snap["skipped"] + snap["failed"] <= found.files
        /\ snap["bytes_done"] <= found.bytes
    BY <2>1, <2>2, CountersBounded DEF Final, Outcomes
  <2> QED
    BY <2>1, <2>3, CountersBounded DEF WithinTotal, IInv, Discovery
<1> QED
  BY <1>1, InvariantHolds, PTL

\* MirrorsStats: when all is over the aggregator agrees with DownloadStats on
\* the files downloaded and resumed and on the bytes, and falls short of it only
\* by the skipped and failed files of which no event tells.
THEOREM AggregatorMirrorsStats == Spec => []MirrorsStats
<1>1. IInv => MirrorsStats
  <2>1. SUFFICES ASSUME IInv, Over
                 PROVE  /\ agg["downloaded"] = stats["downloaded"] /\ agg["resumed"] = stats["resumed"]
                        /\ agg["bytes_done"] = stats["bytes"]
                        /\ agg["skipped"] <= stats["skipped"] /\ agg["failed"] <= stats["failed"]
                        /\ stats["downloaded"] + stats["resumed"] + stats["skipped"] + stats["failed"]
                             = Cardinality(Jobs)
    BY DEF MirrorsStats
  <2>2. PICK o \in [Jobs -> Final], V \in SUBSET Jobs : Script(o, V) /\ Accounts(o, V)
    BY <2>1 DEF IInv, Accounted
  <2>3. \A j \in Jobs : pc[j] = "over" /\ Len(todo[j]) = 0
    BY <2>1 DEF Over, Idle
  <2>5. PICK D, R, S, F : /\ D = {j \in Jobs : o[j] = "downloaded"} /\ R = {j \in Jobs : o[j] = "resumed"}
                          /\ S = {j \in Jobs : o[j] = "skipped"} /\ F = {j \in Jobs : o[j] = "failed"}
    OBVIOUS
  <2>6. /\ D \in SUBSET Jobs /\ R \in SUBSET Jobs /\ S \in SUBSET Jobs /\ F \in SUBSET Jobs
        /\ Jobs \in SUBSET Jobs
    BY <2>5
  <2>7. /\ Past(o, Jobs, {"downloaded"}, 1) = D /\ Past(o, Jobs, {"resumed"}, 1) = R
        /\ Past(o, Jobs, {"skipped"}, 1) = S /\ Past(o, Jobs, {"failed"}, 1) = F
        /\ Past(o, Jobs, Outcomes, 2) = Past(o, Jobs, Outcomes, 1)
    BY <2>3, <2>5 DEF Past
  <2>8. /\ Past(o, V, {"downloaded"}, 4) = D /\ Past(o, V, {"resumed"}, 4) = R
        /\ Past(o, V, {"skipped"}, 4) \in SUBSET S /\ Past(o, V, {"failed"}, 3) \in SUBSET F
    BY <2>2, <2>3, <2>5 DEF Past, Script
  <2>9. /\ agg["downloaded"] = Cardinality(Past(o, V, {"downloaded"}, 4))
        /\ agg["resumed"] = Cardinality(Past(o, V, {"resumed"}, 4))
        /\ agg["skipped"] = Cardinality(Past(o, V, {"skipped"}, 4))
        /\ agg["failed"] = Cardinality(Past(o, V, {"failed"}, 3))
        /\ stats["downloaded"] = Cardinality(D) /\ stats["resumed"] = Cardinality(R)
        /\ stats["skipped"] = Cardinality(S) /\ stats["failed"] = Cardinality(F)
        /\ agg["bytes_done"] = stats["bytes"]
    BY <2>2, <2>7 DEF Accounts, Final, Outcomes, AddAt
  <2>a. agg["skipped"] <= stats["skipped"] /\ agg["failed"] <= stats["failed"]
    BY <2>6, <2>8, <2>9, CountJobs
  <2>b. D \cap R = {} /\ (D \cup R) \cap S = {} /\ (D \cup R \cup S) \cap F = {}
    BY <2>5
  <2>c. D \cup R \cup S \cup F = Jobs
    BY <2>2, <2>5 DEF Final, Outcomes
  <2>d. Cardinality(D) + Cardinality(R) + Cardinality(S) + Cardinality(F) = Cardinality(Jobs)
    <3>1. Cardinality(D \cup R \cup S \cup F)
            = Cardinality(D) + Cardinality(R) + Cardinality(S) + Cardinality(F)
      <4>1. D \in SUBSET Jobs /\ R \in SUBSET Jobs /\ S \in SUBSET Jobs /\ F \in SUBSET Jobs
        BY <2>6
      <4> QED
        BY <2>b, <4>1, Disjoint4, SMTT(30)
    <3> QED
      BY <2>c, <3>1
  <2> QED
    BY <2>8, <2>9, <2>a, <2>d
<1> QED
  BY <1>1, InvariantHolds, PTL
=============================================================================
