------------------------- MODULE ShareClientProofs -------------------------
(***************************************************************************)
(* Proofs about a request to the API, for every number of attempts, every  *)
(* set of statuses and of Retry-After hints, and about the client that     *)
(* makes many: what holds of one request holds of each, what was asked for *)
(* and sent arrives, and every job stays below the destination.            *)
(***************************************************************************)
EXTENDS ShareClient, SafePathProofs

-----------------------------------------------------------------------------
(* One request.  Heard is the inductive part: what the retry loop holds of   *)
(* the last exchange while it sleeps and after it.                           *)

Replies == [status : Nat, hint : Hints \cup {NoHint},
            body : {"none", "json", "errorResponse", "notFound", "other"},
            fields : SUBSET ResourceField]

\* The exchange may be repeated, and the server asked for no more than ms.
Repeatable(ms) ==
  \/ reply = Broken
  \/ /\ reply.status \in {429, 503, 423}
     /\ reply.hint # NoHint => ms = reply.hint * 1000

Typed ==
  /\ ApiTypeOK
  /\ reply \in Replies
  /\ pc \in {"attempt", "sleep"} => tryNo < MaxAttempts

Heard ==
  /\ pc = "body" => Success(reply)
  /\ pc = "errorBody" => ~Success(reply)
  /\ pc = "sleep" => Repeatable(delay)
  /\ pc = "attempt" /\ tryNo > 0 => Repeatable(slept)

IInv == Typed /\ Heard /\ ResultIsCurrent

LEMMA BrokenReply == Broken \in Replies /\ Broken.status = 0
  BY DEF Broken, Response, Replies

\* What the server shows is among the fields there are.
LEMMA ShownFields == ASSUME NEW s, NEW f PROVE Shown(s, f) \subseteq ResourceField
  BY DEF Shown, Has

\* The retry loop after an error that stands for the last exchange.
LEMMA FailStep ==
  ASSUME NEW error, Fail(error), tryNo \in 0..MaxAttempts,
         NEW R, R = reply',
         error.status # 0 => error.status = R.status,
         error.status # 0 /\ R.hint # NoHint => error.hint = R.hint,
         error.kind \in Transport => R = Broken
  PROVE  \/ pc' = "done" /\ result' = error
         \/ pc' = "sleep" /\ tryNo < MaxAttempts /\ Repeatable(delay)'
<1>1. CASE pc' = "done" /\ result' = error
  BY <1>1
<1>2. CASE tryNo < MaxAttempts /\ pc' = "sleep" /\ delay' \in Delays(error, tryNo)
  <2>1. CASE error.kind \in Transport
    BY <1>2, <2>1 DEF Repeatable
  <2>2. CASE error.kind \notin Transport /\ error.status \in {429, 503, 423}
    <3>1. R.status \in {429, 503, 423}
      BY <2>2
    <3>2. R.hint # NoHint => delay' = R.hint * 1000
      BY <1>2, <2>2 DEF Delays
    <3> QED
      BY <1>2, <3>1, <3>2 DEF Repeatable
  <2>3. CASE error.kind \notin Transport /\ error.status \notin {429, 503, 423}
    BY <1>2, <2>3 DEF Delays
  <2> QED
    BY <2>1, <2>2, <2>3
<1> QED
  BY <1>1, <1>2 DEF Fail, Return

\* What map_error_response makes of an error response is about that response.
LEMMA MappedError ==
  ASSUME NEW r \in Replies
  PROVE  LET e == MapErrorResponse(r)
         IN  /\ e.kind \in {"NotFound", "Response", "Status"}
             /\ e.kind = "NotFound" => r.body = "notFound" /\ e.status = 0
             /\ e.kind \in {"Response", "Status"} => e.status = r.status /\ e.hint = r.hint
  BY DEF MapErrorResponse, Result, Error, Replies

\* Data that could be decoded are fields of the response.
LEMMA Decoded ==
  ASSUME NEW t, NEW r \in Replies
  PROVE  LET e == Decode(t, r)
         IN  \/ e.kind = "Ok" /\ e.fields \subseteq r.fields
             \/ e.kind = "MalformedResponse" /\ e.status = 0
  BY DEF Decode, Result, Error, Replies

LEMMA KindOfError == \A k : Error(k).kind = k /\ Error(k).status = 0
  BY DEF Error, Result

LEMMA InitIInv == ASSUME ApiInit PROVE IInv
<1>1. pc = "idle" /\ reply = Broken /\ tryNo = 0
  BY DEF ApiInit
<1>2. ApiTypeOK
  <2>1. tryNo \in 0..MaxAttempts
    BY <1>1, ApiAssumption
  <2>2. asked \subseteq ResourceField /\ want = "resource" /\ cancelled = FALSE
        /\ share \in {"folder", "file"}
    BY DEF ApiInit
  <2> QED
    BY <1>1, <2>1, <2>2 DEF ApiTypeOK, PCs
<1>3. Typed
  <2>1. tryNo < MaxAttempts
    BY <1>1, ApiAssumption
  <2> QED
    BY <1>1, <1>2, <2>1, BrokenReply DEF Typed
<1>4. Heard /\ ResultIsCurrent
  BY <1>1 DEF Heard, ResultIsCurrent
<1> QED
  BY <1>3, <1>4 DEF IInv

\* Every step preserves what is known of the request.
LEMMA StepIInv ==
  ASSUME IInv, ApiNext PROVE IInv'
<1> USE ApiAssumption DEF IInv, Typed, ApiTypeOK, PCs, request, Transport
<1>1. CASE \E type \in {"resource", "link"}, f \in SUBSET ResourceField :
             GetPublicResource(type, f)
  BY <1>1, BrokenReply DEF GetPublicResource, Heard, ResultIsCurrent
<1>2. CASE BeginAttempt
  <2>1. CASE cancelled
    BY <1>2, <2>1 DEF BeginAttempt, Return, Heard, ResultIsCurrent, Error, Result
  <2>2. CASE ~cancelled
    BY <1>2, <2>2 DEF BeginAttempt, Heard, ResultIsCurrent
  <2> QED
    BY <2>1, <2>2
<1>3. CASE SendFails
  <2>1. PICK e : e = Error("Request") /\ Fail(e)
    BY <1>3 DEF SendFails
  <2>2. e.kind = "Request" /\ e.status = 0 /\ reply' = Broken
    BY <1>3, <2>1, KindOfError DEF SendFails
  <2>3. \/ pc' = "done" /\ result' = e
        \/ pc' = "sleep" /\ tryNo < MaxAttempts /\ Repeatable(delay)'
    BY <2>1, <2>2, FailStep
  <2> QED
    BY <1>3, <2>2, <2>3, BrokenReply DEF SendFails, Heard, ResultIsCurrent
<1>4. CASE Answer
  <2>1. reply' \in Replies
    <3>1. PICK status \in Statuses, hint \in Hints \cup {NoHint},
               body \in {"json", "errorResponse", "notFound", "other"} :
             reply' = Response(status, hint, body,
                               IF body = "json" THEN Shown(share, asked) ELSE {})
      BY <1>4 DEF Answer
    <3> QED
      BY <3>1, ShownFields DEF Response, Replies
  <2> QED
    BY <1>4, <2>1 DEF Answer, Heard, ResultIsCurrent
<1>5. CASE ReadErrorBody \/ ErrorBodyBreaks
  <2>1. pc = "errorBody" /\ ~Success(reply) /\ UNCHANGED <<request, tryNo, reply, slept, cancelled>>
    BY <1>5 DEF ReadErrorBody, ErrorBodyBreaks, Heard
  <2>2. PICK r : r \in {reply, [reply EXCEPT !.body = "other"]} /\ Fail(MapErrorResponse(r))
    BY <1>5 DEF ReadErrorBody, ErrorBodyBreaks
  <2>3. /\ r \in Replies /\ r.status = reply.status /\ r.hint = reply.hint
        /\ r.body = "notFound" => reply.body = "notFound"
    BY <2>2 DEF Replies
  <2>4. PICK e : e = MapErrorResponse(r)
    OBVIOUS
  <2>5. /\ e.kind \in {"NotFound", "Response", "Status"}
        /\ e.kind = "NotFound" => r.body = "notFound" /\ e.status = 0
        /\ e.kind \in {"Response", "Status"} => e.status = r.status /\ e.hint = r.hint
    BY <2>3, <2>4, MappedError
  <2>6. \/ pc' = "done" /\ result' = e
        \/ pc' = "sleep" /\ tryNo < MaxAttempts /\ Repeatable(delay)'
    BY <2>1, <2>2, <2>3, <2>4, <2>5, FailStep DEF Transport
  <2>7. ResultIsCurrent'
    BY <2>1, <2>3, <2>5, <2>6 DEF ResultIsCurrent, Success
  <2> QED
    BY <2>1, <2>6, <2>7 DEF Heard, request
<1>6. CASE ReadBody
  <2>1. pc = "body" /\ Success(reply) /\ UNCHANGED <<request, tryNo, reply, slept, cancelled>>
    BY <1>6 DEF ReadBody, Heard
  <2>2. PICK e : e = Decode(want, reply)
    OBVIOUS
  <2>3. \/ e.kind = "Ok" /\ e.fields \subseteq reply.fields
        \/ e.kind = "MalformedResponse" /\ e.status = 0
    BY <2>2, Decoded
  <2>4. CASE cancelled
    <3>1. pc' = "done" /\ result'.kind = "Cancelled"
      BY <1>6, <2>4, KindOfError DEF ReadBody, Return, Error, Result
    <3> QED
      BY <2>1, <2>4, <3>1 DEF Heard, ResultIsCurrent, request
  <2>5. CASE ~cancelled /\ e.kind = "Ok"
    <3>1. pc' = "done" /\ result' = e
      BY <1>6, <2>2, <2>5 DEF ReadBody, Return
    <3> QED
      BY <2>1, <2>3, <2>5, <3>1 DEF Heard, ResultIsCurrent, Success, request
  <2>6. CASE ~cancelled /\ e.kind # "Ok"
    <3>1. Fail(e)
      BY <1>6, <2>2, <2>6 DEF ReadBody
    <3>2. \/ pc' = "done" /\ result' = e
          \/ pc' = "sleep" /\ tryNo < MaxAttempts /\ Repeatable(delay)'
      BY <2>3, <2>6, <3>1, FailStep DEF Transport
    <3> QED
      BY <2>1, <2>3, <2>6, <3>2 DEF Heard, ResultIsCurrent, Success, request
  <2> QED
    BY <2>4, <2>5, <2>6
<1>7. CASE BodyBreaks
  <2>1. reply' = Broken /\ UNCHANGED <<request, tryNo, slept, cancelled>>
    BY <1>7 DEF BodyBreaks
  <2>2. CASE cancelled
    <3>1. pc' = "done" /\ result'.kind = "Cancelled"
      BY <1>7, <2>2, KindOfError DEF BodyBreaks, Return, Error, Result
    <3> QED
      BY <2>1, <2>2, <3>1, BrokenReply DEF Heard, ResultIsCurrent, request
  <2>3. CASE ~cancelled
    <3>1. PICK e : e = Error("BodyInterrupted") /\ Fail(e)
      BY <1>7, <2>3 DEF BodyBreaks
    <3>2. e.kind = "BodyInterrupted" /\ e.status = 0
      BY <3>1, KindOfError
    <3>3. \/ pc' = "done" /\ result' = e
          \/ pc' = "sleep" /\ tryNo < MaxAttempts /\ Repeatable(delay)'
      BY <2>1, <3>1, <3>2, FailStep
    <3> QED
      BY <2>1, <3>2, <3>3, BrokenReply DEF Heard, ResultIsCurrent, request
  <2> QED
    BY <2>2, <2>3
<1>8. CASE Sleep
  <2>1. CASE cancelled
    BY <1>8, <2>1 DEF Sleep, Return, Heard, ResultIsCurrent, Error, Result
  <2>2. CASE ~cancelled
    BY <1>8, <2>2 DEF Sleep, Heard, Repeatable, ResultIsCurrent
  <2> QED
    BY <2>1, <2>2
<1>9. CASE Cancel
  BY <1>9 DEF Cancel, Heard, Repeatable, ResultIsCurrent, request
<1> QED
  BY <1>1, <1>2, <1>3, <1>4, <1>5, <1>6, <1>7, <1>8, <1>9 DEF ApiNext, Step

LEMMA StutterIInv == ASSUME IInv, UNCHANGED apiVars PROVE IInv'
  BY DEF apiVars, request, IInv, Typed, ApiTypeOK, Heard, Repeatable, ResultIsCurrent, Success

LEMMA InvariantHolds == ApiSpec => []IInv
  BY InitIInv, StepIInv, StutterIInv, PTL DEF ApiSpec

\* What the retry loop holds when a further attempt begins.
LEMMA Hearing ==
  ASSUME IInv
  PROVE  pc = "attempt" /\ pc' = "send" /\ tryNo > 0 =>
           \/ reply = Broken
           \/ /\ reply.status \in {423, 429, 503}
              /\ reply.hint # NoHint => slept >= reply.hint * 1000
<1>1. reply.hint # NoHint => reply.hint \in Nat
  BY ApiAssumption DEF IInv, Typed, Replies
<1> QED
  BY <1>1 DEF IInv, Heard, Repeatable

\* No step but that of BeginAttempt sends, and it looks at the token.
LEMMA Silence == ASSUME Step PROVE cancelled => pc' # "send" \/ pc = "send"
  BY DEF Step, BeginAttempt, SendFails, Answer, ReadErrorBody, ErrorBodyBreaks,
         ReadBody, BodyBreaks, Sleep, Cancel, Fail, Return

\* The attempts of a request never exceed those of the policy, and every
\* variable keeps its type.
THEOREM RequestTypeOK == ApiSpec => []ApiTypeOK
  BY InvariantHolds, PTL DEF IInv, Typed

\* What a request returns is about its last exchange (ResourceClient::get_json).
THEOREM ResultIsAlwaysCurrent == ApiSpec => []ResultIsCurrent
  BY InvariantHolds, PTL DEF IInv

\* The server's Retry-After is waited out, and only what may be repeated is
\* (retry::run with ApiError::retry_decision).
THEOREM ServerIsAlwaysHeard == ApiSpec => ServerIsHeard
  BY Hearing, InvariantHolds, PTL DEF ServerIsHeard

\* Nothing is sent once the token has fired (Cancel::check in retry::run).
THEOREM NothingIsSentAfterCancel == ApiSpec => NothingSentAfterCancel
<1>1. ASSUME [ApiNext]_apiVars
      PROVE  cancelled => pc' # "send" \/ pc = "send"
  <2>1. CASE UNCHANGED apiVars
    BY <2>1 DEF apiVars
  <2>2. CASE \E type \in {"resource", "link"}, f \in SUBSET ResourceField :
               GetPublicResource(type, f)
    BY <2>2 DEF GetPublicResource
  <2> QED
    BY <1>1, <2>1, <2>2, Silence DEF ApiNext
<1> QED
  BY <1>1, PTL DEF ApiSpec, NothingSentAfterCancel

-----------------------------------------------------------------------------
(* The client *)

ConfigType ==
  [maxLinkAttempts : Nat \ {0}, maxConcurrentDownloads : Nat \ {0},
   maxListingWorkers : Nat \ {0}, verifyMode : {"SizeOnly", "SizeAndChecksum"},
   apiBase : {"base", "opaque"}, progressSender : BOOLEAN, aggregateInterval : Nat,
   timeout : BOOLEAN]

ClientOK ==
  /\ phase \in {"building", "ready", "failed"}
  /\ config \in ConfigType
  /\ setters \in 0..MaxSetters
  /\ fields \subseteq ResourceField

\* A call for metadata reads its answer into a Resource, with all it holds.
ReadInFull ==
  /\ call.op \in {"meta", "page"} => want = "resource"
  /\ call.op \in {"meta", "page"} /\ call.done => pc = "done"
  /\ pc = "done" /\ want = "resource" /\ result.kind = "Ok" => result.fields = reply.fields

\* A job is made at once, at the destination its path is mapped to.
JobOK ==
  call.op = "job" =>
    /\ call.done
    /\ call.out.job = "made" =>
         /\ call.in \in ItemPaths
         /\ call.out.destination = SafeRelativePath(call.in)
         /\ call.out.destination # NoPath

ClientInv == IInv /\ ClientOK /\ ReadInFull /\ JobOK

-----------------------------------------------------------------------------
(* The request *)

\* Every field that can be asked for has a member to be read into.
LEMMA FieldsAreMembers == Resource = ResourceField
<1>1. EmbeddedField = Embedded
  BY DEF EmbeddedField, Embedded, ItemField, Item
<1> QED
  BY <1>1 DEF Resource, ResourceField, ShareField, CommentIdsField, ExifField, PhotoSizeField

\* A request that returns data returns what its response shows.
LEMMA StepReadInFull ==
  ASSUME IInv, Step, ReadInFull
  PROVE  pc' = "done" /\ want' = "resource" /\ result'.kind = "Ok" => result'.fields = reply'.fields
<1> SUFFICES ASSUME pc' = "done", want' = "resource", result'.kind = "Ok"
             PROVE  result'.fields = reply'.fields
  OBVIOUS
<1>1. want = "resource"
  BY DEF Step, BeginAttempt, SendFails, Answer, ReadErrorBody, ErrorBodyBreaks, ReadBody,
         BodyBreaks, Sleep, Cancel, request
<1>2. CASE Cancel
  BY <1>1, <1>2 DEF Cancel, ReadInFull
<1>3. CASE BeginAttempt \/ Sleep \/ BodyBreaks \/ Answer
  BY <1>3, KindOfError DEF BeginAttempt, Sleep, BodyBreaks, Answer, Return, Fail
<1>4. CASE SendFails
  BY <1>4, KindOfError DEF SendFails, Return, Fail
<1>5. CASE ReadErrorBody \/ ErrorBodyBreaks
  <2>1. PICK r \in {reply, [reply EXCEPT !.body = "other"]} : Fail(MapErrorResponse(r))
    BY <1>5 DEF ReadErrorBody, ErrorBodyBreaks
  <2>2. r \in Replies
    BY DEF IInv, Typed, Replies
  <2>3. result' = MapErrorResponse(r)
    BY <2>1 DEF Fail, Return
  <2> QED
    BY <2>2, <2>3, MappedError
<1>6. CASE ReadBody
  <2>1. result' = Decode(want, reply) /\ reply' = reply
    BY <1>6, KindOfError DEF ReadBody, Return, Fail
  <2>2. reply.fields \subseteq ResourceField
    BY DEF IInv, Typed, Replies
  <2>3. \/ Decode(want, reply).kind # "Ok"
        \/ Decode(want, reply).fields = reply.fields \cap Resource
    BY <1>1, KindOfError DEF Decode, Result
  <2> QED
    BY <2>1, <2>2, <2>3, FieldsAreMembers
<1> QED
  BY <1>2, <1>3, <1>4, <1>5, <1>6 DEF Step

-----------------------------------------------------------------------------
(* The invariant *)

LEMMA DefaultsThere == DefaultFields \subseteq ResourceField
<1>1. Leaf({"name", "type", "path", "size", "md5", "sha256", "file"}) \subseteq ResourceField
  BY DEF ResourceField, Leaf
<1>2. {<<"total">>} \cup Nested("items", ItemField) \subseteq EmbeddedField
  BY DEF EmbeddedField, Leaf
<1>3. Nested("_embedded", {<<"total">>} \cup Nested("items", ItemField)) \subseteq
        Nested("_embedded", EmbeddedField)
  BY <1>2 DEF Nested
<1> QED
  BY <1>1, <1>3 DEF DefaultFields, ResourceField

LEMMA ClientInit == ASSUME Init PROVE ClientInv
<1>1. IInv
  BY InitIInv DEF Init
<1>2. ClientOK
  BY ClientAssumption DEF Init, ClientOK, DefaultConfig, ConfigType
<1>3. ReadInFull /\ JobOK
  BY DEF Init, ReadInFull, JobOK, NoCall, ApiInit
<1> QED
  BY <1>1, <1>2, <1>3 DEF ClientInv

\* A setter changes one member of the configuration.
LEMMA BuilderStep ==
  ASSUME ClientInv, Builder PROVE ClientInv'
<1> USE ClientAssumption DEF ClientInv
<1>1. UNCHANGED <<apiVars, call>>
  BY DEF Builder, SetMaxLinkAttempts, SetMaxConcurrentDownloads, SetMaxListingWorkers,
         SetAggregateInterval, SetVerifyMode, SetApiBase, SetTimeout, SetProgressSender, Set, Build
<1>2. IInv'
  BY <1>1, StutterIInv
<1>3. ReadInFull' /\ JobOK'
  BY <1>1 DEF ReadInFull, JobOK, apiVars, request
<1>4. ClientOK'
  <2>1. \A n \in Settings : AtLeastOne(n) \in Nat \ {0} /\ n \in Nat
    BY DEF AtLeastOne
  <2>2. CASE Build
    BY <2>2, DefaultsThere DEF Build, ClientOK
  <2>3. ASSUME NEW name, NEW value, Set(name, value),
               [config EXCEPT ![name] = value] \in ConfigType
        PROVE  ClientOK'
    BY <2>3 DEF Set, ClientOK
  <2>4. config \in ConfigType
    BY DEF ClientOK
  <2>5. ASSUME NEW n \in Settings,
               \/ SetMaxLinkAttempts(n) \/ SetMaxConcurrentDownloads(n)
               \/ SetMaxListingWorkers(n) \/ SetAggregateInterval(n)
        PROVE  ClientOK'
    <3>1. /\ [config EXCEPT !["maxLinkAttempts"] = AtLeastOne(n)] \in ConfigType
          /\ [config EXCEPT !["maxConcurrentDownloads"] = AtLeastOne(n)] \in ConfigType
          /\ [config EXCEPT !["maxListingWorkers"] = AtLeastOne(n)] \in ConfigType
          /\ [config EXCEPT !["aggregateInterval"] = n] \in ConfigType
      BY <2>1, <2>4 DEF ConfigType
    <3> QED
      BY <2>3, <2>5, <3>1 DEF SetMaxLinkAttempts, SetMaxConcurrentDownloads,
                              SetMaxListingWorkers, SetAggregateInterval
  <2>6. CASE SetVerifyMode("SizeAndChecksum") \/ SetApiBase("opaque") \/ SetTimeout \/ SetProgressSender
    <3>1. /\ [config EXCEPT !["verifyMode"] = "SizeAndChecksum"] \in ConfigType
          /\ [config EXCEPT !["apiBase"] = "opaque"] \in ConfigType
          /\ [config EXCEPT !["timeout"] = TRUE] \in ConfigType
          /\ [config EXCEPT !["progressSender"] = TRUE] \in ConfigType
      BY <2>4 DEF ConfigType
    <3> QED
      BY <2>3, <2>6, <3>1 DEF SetVerifyMode, SetApiBase, SetTimeout, SetProgressSender
  <2> QED
    BY <2>2, <2>5, <2>6 DEF Builder
<1> QED
  BY <1>2, <1>3, <1>4

\* A call starts a request, waits for it or does without.
LEMMA CallsStep ==
  ASSUME ClientInv, Calls PROVE ClientInv'
<1> USE ClientAssumption DEF ClientInv
<1>1. CASE \E selection \in Selections : SetFields(selection)
  <2>1. UNCHANGED <<apiVars, phase, config, setters, call>> /\ fields' \subseteq ResourceField
    BY <1>1 DEF SetFields
  <2> QED
    BY <2>1, StutterIInv DEF ClientOK, ReadInFull, JobOK, apiVars, request
<1>2. ASSUME NEW op \in {"meta", "page", "link", "root"}, NEW type \in {"resource", "link"},
             op # "link" => type = "resource", Request(op, type)
      PROVE  ClientInv'
  <2>1. UNCHANGED client /\ call' = Pending(op, fields) /\ want' = type /\ pc = "idle"
    BY <1>2 DEF Request, GetPublicResource
  <2>2. ClientOK'
    BY <2>1 DEF ClientOK, client
  <2>3. call'.op = op /\ call'.done = FALSE
    BY <2>1 DEF Pending
  <2>4. JobOK'
    BY <2>3 DEF JobOK
  <2>5. CASE GetPublicResource(type, fields)
    <3>1. IInv'
      BY <2>5, StepIInv DEF ApiNext, ClientOK
    <3>2. pc' # "done"
      BY <2>5 DEF GetPublicResource
    <3> QED
      BY <1>2, <2>1, <2>2, <2>3, <2>4, <3>1, <3>2 DEF ReadInFull
  <2>6. CASE /\ Return(Error("InvalidPath")) /\ asked' = fields /\ tryNo' = 0 /\ reply' = Broken
             /\ UNCHANGED <<share, slept, cancelled>>
    <3>1. pc' = "done" /\ result'.kind = "InvalidPath"
      BY <2>6, KindOfError DEF Return
    <3>2. tryNo' \in 0..MaxAttempts
      BY <2>6, ApiAssumption
    <3>3. Typed'
      BY <2>1, <2>6, <3>1, <3>2, BrokenReply DEF IInv, Typed, ApiTypeOK, PCs, ClientOK
    <3>4. IInv'
      BY <3>1, <3>3 DEF IInv, Heard, ResultIsCurrent, Transport
    <3> QED
      BY <1>2, <2>1, <2>2, <2>3, <2>4, <3>1, <3>4 DEF ReadInFull
  <2> QED
    BY <1>2, <2>5, <2>6 DEF Request
<1>3. CASE ResourceMeta \/ ListPage \/ DownloadLink \/ Root
  BY <1>2, <1>3 DEF ResourceMeta, ListPage, DownloadLink, Root
<1>4. CASE \E text \in KeyTexts : ParseKey(text)
  <2>1. UNCHANGED <<apiVars, client>> /\ call'.op = "parse"
    BY <1>4 DEF ParseKey, Done
  <2> QED
    BY <2>1, StutterIInv DEF ClientOK, ReadInFull, JobOK, apiVars, request, client
<1>5. CASE \E path \in ItemPaths : MakeJob(path)
  <2>1. PICK path \in ItemPaths : MakeJob(path)
    BY <1>5
  <2>2. UNCHANGED <<apiVars, client>> /\ call'.op = "job" /\ call'.in = path
        /\ call'.done /\ call'.out = IF <<"type">> \in ItemShown THEN ForDownload(path, ItemShown)
                       ELSE [job |-> "skipped"]
    BY <2>1 DEF MakeJob, Done
  <2>3. JobOK'
    BY <2>2 DEF JobOK, ForDownload
  <2> QED
    BY <2>2, <2>3, StutterIInv DEF ClientOK, ReadInFull, apiVars, request, client
<1>6. CASE TakeResult
  <2>1. tryNo' \in 0..MaxAttempts
    BY <1>6, ApiAssumption DEF TakeResult
  <2>2. Typed'
    BY <1>6, <2>1, BrokenReply DEF TakeResult, IInv, Typed, ApiTypeOK, PCs
  <2>3. pc' = "idle" /\ call'.op = "none" /\ UNCHANGED client
    BY <1>6 DEF TakeResult, NoCall
  <2> QED
    BY <2>2, <2>3 DEF IInv, Heard, ResultIsCurrent, ClientOK, client, ReadInFull, JobOK
<1> QED
  BY <1>1, <1>3, <1>4, <1>5, <1>6 DEF Calls

LEMMA RequestStep ==
  ASSUME ClientInv, Exchange \/ Finish \/ UNCHANGED vars PROVE ClientInv'
<1> USE DEF ClientInv
<1>1. CASE Exchange
  <2>1. IInv'
    BY <1>1, StepIInv DEF Exchange, ApiNext
  <2>2. UNCHANGED <<client, call, want>>
    BY <1>1 DEF Exchange, Step, BeginAttempt, SendFails, Answer, ReadErrorBody, ErrorBodyBreaks,
                ReadBody, BodyBreaks, Sleep, Cancel, request
  <2>3. pc = "done" => pc' = "done"
    BY <1>1 DEF Exchange, Step, BeginAttempt, SendFails, Answer, ReadErrorBody, ErrorBodyBreaks,
                ReadBody, BodyBreaks, Sleep, Cancel
  <2>4. ReadInFull'
    BY <1>1, <2>2, <2>3, StepReadInFull DEF Exchange, ReadInFull
  <2> QED
    BY <2>1, <2>2, <2>4 DEF ClientOK, JobOK, client
<1>2. CASE Finish
  <2>1. UNCHANGED <<apiVars, client>> /\ pc = "done" /\ call'.op = call.op /\ call'.in = call.in
    BY <1>2 DEF Finish, Done
  <2>2. CASE call.op = "job"
    <3>1. call.done
      BY <2>2 DEF JobOK
    <3> QED
      BY <1>2, <3>1 DEF Finish
  <2>3. CASE call.op # "job"
    BY <2>1, <2>3, StutterIInv DEF ClientOK, ReadInFull, JobOK, apiVars, request, client
  <2> QED
    BY <2>2, <2>3
<1>3. CASE UNCHANGED vars
  BY <1>3, StutterIInv DEF vars, ClientOK, ReadInFull, JobOK, apiVars, request, client
<1> QED
  BY <1>1, <1>2, <1>3

LEMMA ClientInvariant == Spec => []ClientInv
<1>1. ASSUME ClientInv, [Next]_vars PROVE ClientInv'
  BY <1>1, BuilderStep, CallsStep, RequestStep DEF Next
<1> QED
  BY <1>1, ClientInit, PTL DEF Spec

-----------------------------------------------------------------------------
(* The theorems *)

\* Every variable of the client keeps its type; its numbers, which pools and
\* loops are built on, are at least one (the setters of YaShareClientBuilder).
THEOREM ClientTypeOK == Spec => []TypeOK
<1>1. ASSUME ClientInv PROVE TypeOK
  BY <1>1 DEF ClientInv, IInv, Typed, ClientOK, ConfigType, TypeOK
<1> QED
  BY <1>1, ClientInvariant, PTL

\* The result of each of a client's requests is about its last exchange.
THEOREM ResultsAreCurrent == Spec => []ResultIsCurrent
  BY ClientInvariant, PTL DEF ClientInv, IInv

\* Metadata that was asked for and sent arrives, whatever fields were selected.
THEOREM NoFieldIsLost == Spec => []NoFieldLost
<1>1. ASSUME ClientInv PROVE NoFieldLost
  BY <1>1 DEF ClientInv, ReadInFull, NoFieldLost
<1> QED
  BY <1>1, ClientInvariant, PTL

\* Every job writes below the destination, whatever the path of its item.
THEOREM EveryJobStaysInside == Spec => []JobsStayInside
<1>1. ASSUME ClientInv PROVE JobsStayInside
  <2>1. SUFFICES ASSUME call.op = "job", call.out.job = "made"
                 PROVE  /\ call.out.destination # <<>>
                        /\ \A i \in DOMAIN call.out.destination : FileName(call.out.destination[i])
    BY DEF JobsStayInside
  <2>2. call.in \in Seq(STRING) /\ call.out.destination = SafeRelativePath(call.in)
        /\ call.out.destination # NoPath
    BY <1>1, <2>1, ClientAssumption DEF ClientInv, JobOK
  <2> QED
    BY <2>2, EveryPathIsSafe DEF NoPath
<1> QED
  BY <1>1, ClientInvariant, PTL

\* A path that needs no cleaning is kept, whatever else the client is asked.
THEOREM CleanNamesAreKept == Spec => []CleanNamesKept
<1>1. ASSUME ClientInv PROVE CleanNamesKept
  <2>1. SUFFICES ASSUME NEW parts, parts = Split(TrimStart(call.in, {"/"})), call.op = "job",
                        \A i \in DOMAIN parts : CleanName(parts[i]),
                        call.out.job = "made"
                 PROVE  call.out.destination = parts
    BY DEF CleanNamesKept
  <2>2. call.in \in Seq(STRING) /\ call.out.destination = SafeRelativePath(call.in)
    BY <1>1, <2>1, ClientAssumption, Zenon DEF ClientInv, JobOK
  <2>3. SafeRelativePath(call.in) = parts
    BY <2>1, <2>2, CleanPathIsKept, Zenon
  <2> QED
    BY <2>2, <2>3
<1> QED
  BY <1>1, ClientInvariant, PTL

\* The server's Retry-After is waited out in every request of a client.
THEOREM EveryServerIsHeard == Spec => ServerIsHeard
<1>1. ASSUME ClientInv
      PROVE  pc = "attempt" /\ pc' = "send" /\ tryNo > 0 =>
               \/ reply = Broken
               \/ /\ reply.status \in {423, 429, 503}
                  /\ reply.hint # NoHint => slept >= reply.hint * 1000
  BY <1>1, Hearing DEF ClientInv
<1> QED
  BY <1>1, ClientInvariant, PTL DEF ServerIsHeard

\* Once the token has fired no request of a client sends anything.
THEOREM NothingMoreIsSent == Spec => NothingSentAfterCancel
<1>1. ASSUME ClientInv, [Next]_vars PROVE cancelled => pc' # "send" \/ pc = "send"
  <2>1. CASE Builder \/ Finish \/ UNCHANGED vars
    BY <2>1 DEF Builder, SetMaxLinkAttempts, SetMaxConcurrentDownloads, SetMaxListingWorkers,
         SetAggregateInterval, SetVerifyMode, SetApiBase, SetTimeout, SetProgressSender, Set, Build,
         Finish, vars, apiVars
  <2>2. CASE Calls
    BY <2>2 DEF Calls, SetFields, ResourceMeta, ListPage, DownloadLink, Root, Request,
                GetPublicResource, Return, ParseKey, MakeJob, TakeResult, apiVars
  <2>3. CASE Exchange
    BY <2>3, Silence DEF Exchange
  <2> QED
    BY <1>1, <2>1, <2>2, <2>3 DEF Next
<1> QED
  BY <1>1, ClientInvariant, PTL DEF Spec, NothingSentAfterCancel

-----------------------------------------------------------------------------
(* The default fields *)

\* A response shows what was asked for of what the share has.
Answered == reply.body = "json" => reply.fields = Shown(share, asked)

\* A call for the root is made of its request, and settled by its result.
RootOf ==
  call.op = "root" =>
    /\ want = "resource" /\ call.in = asked
    /\ call.done => pc = "done" /\ call.out = ResolveRootPath(result)

\* A job is made of the members the listing showed.
JobOf ==
  call.op = "job" =>
    /\ phase = "ready"
    /\ call.out = IF <<"type">> \in ItemShown THEN ForDownload(call.in, ItemShown)
                  ELSE [job |-> "skipped"]

\* A key is what its text parses to.
KeyOf ==
  call.op = "parse" => call.done /\ call.in \in KeyTexts /\ call.out = Parse(call.in)

CallInv == Answered /\ RootOf /\ JobOf /\ KeyOf

LEMMA CallInit == ASSUME Init PROVE CallInv
  BY DEF Init, ApiInit, NoCall, CallInv, Answered, RootOf, JobOf, KeyOf, Broken, Response

\* A step of the request.
LEMMA CallExchange == ASSUME ClientInv, CallInv, Exchange PROVE CallInv'
<1>1. UNCHANGED <<phase, fields, call, want, asked, share>>
  BY DEF Exchange, Step, BeginAttempt, SendFails, Answer, ReadErrorBody, ErrorBodyBreaks,
         ReadBody, BodyBreaks, Sleep, Cancel, request, client
<1>2. Answered'
  <2>1. CASE Answer
    <3>1. PICK status \in Statuses, hint \in Hints \cup {NoHint},
               body \in {"json", "errorResponse", "notFound", "other"} :
            reply' = Response(status, hint, body, IF body = "json" THEN Shown(share, asked) ELSE {})
      BY <2>1 DEF Answer
    <3>2. reply'.body = body /\ (body = "json" => reply'.fields = Shown(share, asked))
      BY <3>1 DEF Response
    <3> QED
      BY <1>1, <3>2 DEF Answered, Shown, Has
  <2>2. CASE ~Answer
    <3>1. reply' = reply \/ reply' = Broken
      BY <2>2 DEF Exchange, Step, BeginAttempt, SendFails, ReadErrorBody, ErrorBodyBreaks,
                  ReadBody, BodyBreaks, Sleep, Cancel
    <3>2. Broken.body = "none"
      BY DEF Broken, Response
    <3> QED
      BY <1>1, <3>1, <3>2 DEF CallInv, Answered, Shown, Has
  <2> QED
    BY <2>1, <2>2
<1>3. pc = "done" => pc' = "done" /\ result' = result
  BY DEF Exchange, Step, BeginAttempt, SendFails, Answer, ReadErrorBody, ErrorBodyBreaks,
         ReadBody, BodyBreaks, Sleep, Cancel
<1>4. RootOf'
  BY <1>1, <1>3 DEF CallInv, RootOf, ResolveRootPath
<1>5. JobOf' /\ KeyOf'
  BY <1>1 DEF CallInv, JobOf, ItemShown, KeyOf
<1> QED
  BY <1>2, <1>4, <1>5 DEF CallInv

LEMMA CallStep == ASSUME ClientInv, CallInv, [Next]_vars PROVE CallInv'
<1>1. CASE Builder \/ UNCHANGED vars
  <2>1. UNCHANGED <<apiVars, call>> /\ (phase = "ready" => phase' = "ready" /\ fields' = fields)
    BY <1>1 DEF Builder, SetMaxLinkAttempts, SetMaxConcurrentDownloads, SetMaxListingWorkers,
         SetAggregateInterval, SetVerifyMode, SetApiBase, SetTimeout, SetProgressSender, Set, Build,
         vars, client
  <2> QED
    BY <2>1 DEF CallInv, Answered, RootOf, JobOf, KeyOf, ItemShown, ResolveRootPath, apiVars, request,
                Shown, Has
<1>2. CASE \E selection \in Selections : SetFields(selection)
  <2>1. UNCHANGED <<apiVars, call>> /\ call = NoCall
    BY <1>2 DEF SetFields
  <2> QED
    BY <2>1 DEF CallInv, Answered, RootOf, JobOf, KeyOf, NoCall, apiVars, request, Shown, Has
<1>3. ASSUME NEW op \in {"meta", "page", "link", "root"}, NEW type,
             op = "root" => type = "resource", Request(op, type)
      PROVE  CallInv'
  <2>1. /\ call'.op = op /\ call'.in = fields /\ call'.done = FALSE
        /\ want' = type /\ asked' = fields /\ reply' = Broken
    BY <1>3 DEF Request, GetPublicResource, Pending
  <2>2. Broken.body = "none"
    BY DEF Broken, Response
  <2> QED
    BY <1>3, <2>1, <2>2 DEF CallInv, Answered, RootOf, JobOf, KeyOf
<1>4. CASE ResourceMeta \/ ListPage \/ DownloadLink \/ Root
  BY <1>3, <1>4 DEF ResourceMeta, ListPage, DownloadLink, Root
<1>5. CASE \E text \in KeyTexts : ParseKey(text)
  <2>1. PICK text \in KeyTexts : ParseKey(text)
    BY <1>5
  <2>2. /\ UNCHANGED <<apiVars, client>> /\ call'.op = "parse" /\ call'.done
        /\ call'.in = text /\ call'.out = Parse(text)
    BY <2>1 DEF ParseKey, Done
  <2>3. KeyOf'
    BY <2>2 DEF KeyOf
  <2> QED
    BY <2>2, <2>3 DEF CallInv, Answered, RootOf, JobOf, apiVars, request, Shown, Has
<1>6. CASE \E path \in ItemPaths : MakeJob(path)
  <2>1. PICK path \in ItemPaths : MakeJob(path)
    BY <1>6
  <2>2. /\ UNCHANGED <<apiVars, client>> /\ phase = "ready" /\ call'.op = "job" /\ call'.in = path
        /\ call'.out = IF <<"type">> \in ItemShown THEN ForDownload(path, ItemShown)
                       ELSE [job |-> "skipped"]
    BY <2>1 DEF MakeJob, Done
  <2>3. ItemShown' = ItemShown
    BY <2>2 DEF ItemShown, client
  <2> QED
    BY <2>2, <2>3 DEF CallInv, Answered, RootOf, JobOf, KeyOf, apiVars, request, Shown, Has, client
<1>7. CASE TakeResult
  <2>1. reply' = Broken /\ call'.op = "none"
    BY <1>7 DEF TakeResult, NoCall
  <2>2. Broken.body = "none"
    BY DEF Broken, Response
  <2> QED
    BY <2>1, <2>2 DEF CallInv, Answered, RootOf, JobOf, KeyOf
<1>8. CASE Finish
  <2>1. /\ UNCHANGED <<apiVars, client>> /\ pc = "done" /\ call'.op = call.op /\ call'.in = call.in
        /\ call.op = "root" => call'.out = ResolveRootPath(result)
        /\ ~call.done
    BY <1>8 DEF Finish, Done
  <2>2. call.op # "job"
    BY <2>1 DEF ClientInv, JobOK
  <2>3. ResolveRootPath(result)' = ResolveRootPath(result)
    BY <2>1 DEF ResolveRootPath, apiVars, request
  <2> QED
    BY <2>1, <2>2, <2>3 DEF CallInv, Answered, RootOf, JobOf, KeyOf, apiVars, request, Shown, Has
<1> QED
  BY <1>1, <1>2, <1>4, <1>5, <1>6, <1>7, <1>8, CallExchange DEF Next, Calls

LEMMA CallInvariant == Spec => []CallInv
<1>1. ASSUME ClientInv, CallInv, [Next]_vars PROVE CallInv'
  BY <1>1, CallStep
<1> QED
  BY <1>1, CallInit, ClientInvariant, PTL DEF Spec

\* What the default fields show of a resource and of an item of a listing.
LEMMA DefaultsShow ==
  /\ <<"type">> \in Shown("folder", DefaultFields) /\ <<"path">> \in Shown("folder", DefaultFields)
  /\ \A path \in Item : <<"_embedded", "items">> \o path \in DefaultFields
<1>1. ASSUME NEW n \in {"type", "path"} PROVE <<n>> \in Shown("folder", DefaultFields)
  <2>1. <<n>> \in DefaultFields
    BY DEF DefaultFields, Leaf
  <2>2. <<n>> \notin Leaf({"size", "md5", "sha256", "file"})
    BY DEF Leaf
  <2> QED
    BY <2>1, <2>2, DefaultsThere DEF Shown, Has
<1>2. ASSUME NEW path \in Item PROVE <<"_embedded", "items">> \o path \in DefaultFields
  <2>1. PICK n \in {"name", "type", "path", "size", "md5", "sha256", "file"} : path = <<n>>
    BY DEF Item, Leaf
  <2>2. <<"_embedded", "items">> \o <<n>> = <<"_embedded">> \o (<<"items">> \o <<n>>)
    OBVIOUS
  <2>3. <<"items">> \o <<n>> \in Nested("items", ItemField)
    BY DEF Nested, ItemField, Leaf
  <2> QED
    BY <2>1, <2>2, <2>3 DEF DefaultFields, Nested
<1> QED
  BY <1>1, <1>2

\* DefaultFieldsSuffice: with the default fields the root of every folder is
\* found, and that of a file refused, and a listed file becomes a job unless its
\* path is refused, with its checksums and its link.
THEOREM DefaultFieldsAreEnough == Spec => []DefaultFieldsSuffice
<1>1. ASSUME ClientInv, CallInv PROVE DefaultFieldsSuffice
  <2>1. ASSUME call.op = "root", call.done, call.in = DefaultFields, result.kind = "Ok",
               reply.body = "json"
        PROVE  call.out = "path" <=> share = "folder"
    <3>1. pc = "done" /\ want = "resource" /\ asked = DefaultFields /\ call.out = ResolveRootPath(result)
      BY <1>1, <2>1 DEF CallInv, RootOf
    <3>2. result.fields = Shown(share, DefaultFields)
      BY <1>1, <2>1, <3>1 DEF ClientInv, ReadInFull, CallInv, Answered
    <3>3. share = "folder" => <<"type">> \in result.fields /\ <<"path">> \in result.fields
      BY <3>2, DefaultsShow
    <3>4. CASE share = "folder"
      BY <2>1, <3>1, <3>3, <3>4 DEF ResolveRootPath
    <3>5. CASE share # "folder"
      BY <2>1, <3>1, <3>5 DEF ResolveRootPath
    <3> QED
      BY <3>4, <3>5
  <2>2. ASSUME call.op = "job", fields = DefaultFields
        PROVE  \/ SafeRelativePath(call.in) = NoPath /\ call.out.job = "InvalidPath"
               \/ /\ call.out.job = "made" /\ call.out.href
                  /\ call.out.checksum = Leaf({"md5", "sha256"})
    <3>1. ItemShown = Item
      BY <2>2, DefaultsShow DEF ItemShown
    <3>2. <<"type">> \in Item /\ <<"path">> \in Item /\ <<"size">> \in Item /\ <<"file">> \in Item
          /\ Item \cap Leaf({"md5", "sha256"}) = Leaf({"md5", "sha256"})
      BY DEF Item, Leaf
    <3>3. call.out = ForDownload(call.in, Item)
      BY <1>1, <2>2, <3>1, <3>2 DEF CallInv, JobOf
    <3>4. CASE SafeRelativePath(call.in) = NoPath
      <4>1. call.out = [job |-> "InvalidPath"]
        BY <3>3, <3>4 DEF ForDownload
      <4> QED
        BY <3>4, <4>1
    <3>5. CASE SafeRelativePath(call.in) # NoPath
      <4> DEFINE destination == SafeRelativePath(call.in)
                 checksum    == Leaf({"md5", "sha256"})
      <4>1. call.out = [job |-> "made", destination |-> destination,
                        checksum |-> checksum, href |-> TRUE]
        BY <3>2, <3>3, <3>5, Zenon DEF ForDownload
      <4> HIDE DEF destination, checksum
      <4>2. call.out.job = "made" /\ call.out.href /\ call.out.checksum = checksum
        BY <4>1
      <4> QED
        BY <4>2 DEF checksum
    <3> QED
      BY <3>4, <3>5
  <2> QED
    BY <2>1, <2>2 DEF DefaultFieldsSuffice
<1> QED
  BY <1>1, CallInvariant, ClientInvariant, PTL

-----------------------------------------------------------------------------
(* Public keys *)

\* A text none of whose tokens is percent-encoded.
IsPlain(text) == \A k \in 1..Len(text) : text[k] = Plain(text[k].c)

LEMMA PlainTokens ==
  ASSUME NEW text \in Seq(Token), \A k \in DOMAIN text : text[k].esc = 0
  PROVE  IsPlain(text)
<1> SUFFICES ASSUME NEW k \in 1..Len(text) PROVE text[k] = Plain(text[k].c)
  BY DEF IsPlain
<1>1. text[k] \in Token /\ text[k].esc = 0
  OBVIOUS
<1> QED
  BY <1>1 DEF Token, Plain

LEMMA PlainsDiffer == \A c, d : Plain(c) = Plain(d) <=> c = d
<1>1. \A c : Plain(c).c = c
  BY DEF Plain
<1> QED
  BY <1>1

\* The first of the places that pass a test, and the last.
LEMMA FirstPlace ==
  ASSUME NEW I, I \subseteq Nat, NEW i \in I, \A k \in I : i <= k
  PROVE  Min(I) = i
<1>1. Min(I) \in I /\ \A k \in I : Min(I) <= k
  BY MinIndex
<1>2. Min(I) \in Nat /\ i \in Nat /\ Min(I) <= i /\ i <= Min(I)
  BY <1>1
<1> QED
  BY <1>2

LEMMA LastPlace ==
  ASSUME NEW n \in Nat, NEW I, I \subseteq 0..n, NEW i \in I, \A k \in I : k <= i
  PROVE  Max(I) = i
<1>1. Max(I) \in I /\ \A k \in I : Max(I) >= k
  BY MaxIndex
<1>2. \A k \in I : k \in Nat
  OBVIOUS
<1>3. Max(I) \in Nat /\ i \in Nat /\ Max(I) >= i /\ Max(I) <= i
  BY <1>1, <1>2
<1> QED
  BY <1>3

\* Where the query begins.
LEMMA QueryPlace ==
  ASSUME NEW text \in Seq(Token)
  PROVE  /\ QueryAt(text) \in 0..Len(text)
         /\ QueryAt(text) # 0 => text[QueryAt(text)] = Plain("?")
         /\ QueryAt(text) = 0 => \A k \in 1..Len(text) : text[k] # Plain("?")
         /\ \A i \in 1..Len(text) :
              text[i] = Plain("?") /\ (\A k \in 1..i - 1 : text[k] # Plain("?")) => QueryAt(text) = i
<1> DEFINE I == {k \in 1..Len(text) : text[k] = Plain("?")}
<1>1. QueryAt(text) = IF I # {} THEN Min(I) ELSE 0
  BY DEF QueryAt, SelectInSeq
<1>2. I \subseteq Nat /\ I \subseteq 1..Len(text)
  OBVIOUS
<1>3. CASE I = {}
  BY <1>1, <1>3
<1>4. CASE I # {}
  <2>1. \A k \in 1..Len(text) : k \in I <=> text[k] = Plain("?")
    OBVIOUS
  <2> HIDE DEF I
  <2>2. Min(I) \in I /\ QueryAt(text) = Min(I)
    BY <1>1, <1>2, <1>4, MinIndex
  <2>3. QueryAt(text) \in 1..Len(text) /\ text[QueryAt(text)] = Plain("?")
    BY <1>2, <2>1, <2>2
  <2>4. ASSUME NEW i \in 1..Len(text), text[i] = Plain("?"),
               \A k \in 1..i - 1 : text[k] # Plain("?")
        PROVE  QueryAt(text) = i
    <3>1. i \in I /\ \A k \in I : i <= k
      BY <1>2, <2>1, <2>4
    <3> QED
      BY <1>2, <2>2, <3>1, FirstPlace
  <2> QED
    BY <2>3, <2>4
<1> QED
  BY <1>3, <1>4

\* The path of a URL, as far as it goes.
LEMMA PathOfUrl ==
  ASSUME NEW text \in Seq(Token), Len(text) >= 2
  PROVE  LET end == IF QueryAt(text) = 0 THEN Len(text) ELSE QueryAt(text) - 1
         IN  /\ Len(UrlPath(text)) = IF end >= 2 THEN end - 2 ELSE 0
             /\ \A k \in 1..Len(UrlPath(text)) : UrlPath(text)[k] = text[k + 2]
<1> DEFINE end == IF QueryAt(text) = 0 THEN Len(text) ELSE QueryAt(text) - 1
<1>1. end \in 0..Len(text) /\ UrlPath(text) = SubSeq(text, 3, end)
  BY QueryPlace DEF UrlPath
<1> HIDE DEF end
<1>2. /\ Len(SubSeq(text, 3, end)) = IF end >= 2 THEN end - 2 ELSE 0
      /\ \A k \in 1..Len(SubSeq(text, 3, end)) : SubSeq(text, 3, end)[k] = text[k + 2]
  BY <1>1
<1>3. /\ Len(UrlPath(text)) = IF end >= 2 THEN end - 2 ELSE 0
      /\ \A k \in 1..Len(UrlPath(text)) : UrlPath(text)[k] = text[k + 2]
  BY <1>1, <1>2
<1> QED
  BY <1>3 DEF end

\* Below and Begins say the same of the first five tokens.
LEMMA BelowBegins ==
  ASSUME NEW text \in Seq(Token), IsPlain(text), Len(text) >= 2,
         text[1] = Plain("http"), text[2] = Plain("host"), NEW d, Below(text, d)
  PROVE  /\ Len(text) >= 5 /\ text[3].c = "/" /\ text[4].c = d /\ text[5].c = "/"
         /\ Begins(text, <<"http", "host", "/", d, "/">>)
<1> DEFINE path == UrlPath(text)
<1>1. Len(path) >= 3 /\ path[1] = Plain("/") /\ path[2] = Plain(d) /\ path[3] = Plain("/")
  BY DEF Below
<1>2. /\ Len(path) \in Nat /\ Len(path) <= Len(text) - 2
      /\ \A k \in 1..Len(path) : path[k] = text[k + 2]
  BY PathOfUrl, QueryPlace
<1> HIDE DEF path
<1>3. /\ Len(text) >= 5 /\ text[3] = Plain("/") /\ text[4] = Plain(d) /\ text[5] = Plain("/")
  BY <1>1, <1>2
<1>4. text[1].c = "http" /\ text[2].c = "host" /\ text[3].c = "/" /\ text[4].c = d /\ text[5].c = "/"
  BY <1>3 DEF Plain
<1> QED
  BY <1>3, <1>4 DEF Begins

\* The URL of a folder or of a file has no query and one segment behind the d.
LEMMA SharedUrl ==
  ASSUME NEW text \in Seq(Token), IsPlain(text), NEW d \in {"d", "i"}, Shares(text, d)
  PROVE  /\ Len(text) >= 5 /\ text[1] = Plain("http") /\ text[2] = Plain("host")
         /\ Below(text, d) /\ \A e : Below(text, e) => e = d
<1>1. Len(text) >= 5 /\ \A k \in 1..5 : text[k].c = <<"http", "host", "/", d, "/">>[k]
  BY DEF Shares, Begins
<1>2. /\ text[1] = Plain("http") /\ text[2] = Plain("host")
      /\ text[3] = Plain("/") /\ text[4] = Plain(d) /\ text[5] = Plain("/")
  BY <1>1 DEF IsPlain
<1>3. \A k \in 6..Len(text) : text[k] # Plain("/") /\ text[k] # Plain("?")
  BY PlainsDiffer DEF Shares, IsPlain
<1>4. \A k \in 1..Len(text) : text[k] # Plain("?")
  <2>1. \A k \in 1..5 : text[k] # Plain("?")
    BY <1>2, PlainsDiffer
  <2> QED
    BY <1>3, <2>1
<1>5. QueryAt(text) = 0
  BY <1>4, QueryPlace
<1>6. /\ Len(UrlPath(text)) = Len(text) - 2
      /\ \A k \in 1..Len(UrlPath(text)) : UrlPath(text)[k] = text[k + 2]
  BY <1>1, <1>5, PathOfUrl
<1> DEFINE path == UrlPath(text)
<1>7. /\ Len(path) \in Nat /\ Len(path) >= 3
      /\ path[1] = Plain("/") /\ path[2] = Plain(d) /\ path[3] = Plain("/")
      /\ \A k \in 4..Len(path) : path[k] # Plain("/")
  BY <1>1, <1>2, <1>3, <1>6
<1> QED
  BY <1>1, <1>2, <1>7, PlainsDiffer DEF Below

\* Decoding the value of a query leaves plain tokens as they are, but for "+".
LEMMA PlainValue ==
  ASSUME NEW v \in Seq(Token), IsPlain(v), \A k \in 1..Len(v) : v[k].c # "+"
  PROVE  FormDecode(v) = v
<1> DEFINE w == [i \in DOMAIN v |-> IF v[i] = Plain("+") THEN Plain(" ") ELSE v[i]]
<1>1. \A i \in 1..Len(v) : v[i] \in Token /\ v[i] = Plain(v[i].c) /\ v[i] # Plain("+")
  BY PlainsDiffer DEF IsPlain
<1>2. \A i \in DOMAIN v : (IF v[i] = Plain("+") THEN Plain(" ") ELSE v[i]) = v[i]
  <2>1. ASSUME NEW i \in DOMAIN v PROVE v[i] # Plain("+")
    BY <1>1
  <2> QED
    BY <2>1, Zenon
<1>3. v = [i \in 1..Len(v) |-> v[i]] /\ v = [i \in DOMAIN v |-> v[i]]
  OBVIOUS
<1>4. w = v
  BY <1>2, <1>3, Zenon
<1>5. PercentDecode(v) = v
  <2> DEFINE Less(t) == [c |-> t.c, esc |-> IF t.esc > 0 THEN t.esc - 1 ELSE 0]
  <2>1. ASSUME NEW i \in 1..Len(v) PROVE Less(v[i]) = v[i]
    <3>1. \A c : Less(Plain(c)) = Plain(c)
      BY DEF Plain
    <3> HIDE DEF Less
    <3> QED
      BY <1>1, <3>1
  <2>2. PercentDecode(v) = [i \in 1..Len(v) |-> Less(v[i])]
    BY DEF PercentDecode
  <2> HIDE DEF Less
  <2> QED
    BY <1>3, <2>1, <2>2
<1> QED
  BY <1>4, <1>5 DEF FormDecode

\* The value of the first parameter hash of a public URL.
LEMMA PublicUrl ==
  ASSUME NEW text \in Seq(Token), IsPlain(text),
         NEW a \in 7..Len(text), NEW e \in a..Len(text), HashValue(text, a, e)
  PROVE  ParseUrl(text) = Hash(SubSeq(text, a + 1, e))
<1>1. Len(text) >= 6 /\ \A k \in 1..6 : text[k].c = <<"http", "host", "/", "public", "/", "?">>[k]
  BY DEF HashValue, Begins
<1>2. /\ text[1] = Plain("http") /\ text[2] = Plain("host") /\ text[3] = Plain("/")
      /\ text[4] = Plain("public") /\ text[5] = Plain("/") /\ text[6] = Plain("?")
  BY <1>1 DEF IsPlain
<1>3. QueryAt(text) = 6
  <2>1. 6 \in 1..Len(text) /\ \A k \in 1..5 : text[k] # Plain("?")
    BY <1>1, <1>2, PlainsDiffer
  <2> QED
    BY <1>2, <2>1, QueryPlace
<1>4. Below(text, "public") /\ Len(UrlPath(text)) = 3
  <2>1. Len(UrlPath(text)) = 3
    <3>1. Len(text) >= 2 /\ QueryAt(text) # 0 /\ QueryAt(text) - 1 = 5
      BY <1>1, <1>3
    <3>2. Len(UrlPath(text)) = IF QueryAt(text) - 1 >= 2 THEN QueryAt(text) - 1 - 2 ELSE 0
      BY <3>1, PathOfUrl, Zenon
    <3> QED
      BY <3>1, <3>2
  <2>2. \A k \in 1..Len(UrlPath(text)) : UrlPath(text)[k] = text[k + 2]
    BY <1>1, PathOfUrl
  <2>3. UrlPath(text)[1] = text[3] /\ UrlPath(text)[2] = text[4] /\ UrlPath(text)[3] = text[5]
    BY <2>1, <2>2
  <2> QED
    BY <1>2, <2>1, <2>3 DEF Below
<1>5. text[a] = Plain("hash=") /\ (a = 7 \/ text[a - 1] = Plain("&"))
  <2>1. text[a].c = "hash=" /\ text[a - 1].c \in {"?", "&"} /\ (a # 7 => text[a - 1].c # "?")
    BY DEF HashValue
  <2> QED
    BY <2>1 DEF IsPlain
<1>6. \A k \in 7..a - 1 : text[k] # Plain("hash=")
  BY PlainsDiffer DEF HashValue, IsPlain
<1>7. Hashes(text) # {} /\ Min(Hashes(text)) = a
  <2>1. a \in Hashes(text) /\ Hashes(text) \subseteq 7..Len(text)
    BY <1>3, <1>5 DEF Hashes
  <2>2. ASSUME NEW k \in Hashes(text) PROVE a <= k
    <3>1. k \in 7..Len(text) /\ text[k] = Plain("hash=")
      BY <1>3 DEF Hashes
    <3> QED
      BY <1>6, <3>1
  <2>3. Hashes(text) \subseteq Nat
    BY <2>1
  <2> QED
    BY <2>1, <2>2, <2>3, FirstPlace
<1>8. ValueAt(text, a) = FormDecode(SubSeq(text, a + 1, e))
  <2> DEFINE ends == {Len(text) + 1} \cup {j \in a + 1..Len(text) : text[j] = Plain("&")}
  <2>1. \A k \in a + 1..e : text[k] # Plain("&")
    BY PlainsDiffer DEF HashValue, IsPlain
  <2>2. e + 1 \in ends
    <3>1. e = Len(text) \/ (e + 1 \in a + 1..Len(text) /\ text[e + 1] = Plain("&"))
      BY DEF HashValue, IsPlain
    <3> QED
      BY <3>1
  <2>3. ends \subseteq Nat /\ \A k \in ends : e + 1 <= k
    BY <2>1
  <2>4. ValueAt(text, a) = FormDecode(SubSeq(text, a + 1, Min(ends) - 1))
    BY DEF ValueAt
  <2> HIDE DEF ends
  <2>5. Min(ends) = e + 1
    BY <2>2, <2>3, FirstPlace
  <2> QED
    BY <2>4, <2>5
<1>9. FormDecode(SubSeq(text, a + 1, e)) = SubSeq(text, a + 1, e)
  <2> DEFINE v == SubSeq(text, a + 1, e)
  <2>1. v \in Seq(Token) /\ Len(v) = e - a /\ \A k \in 1..Len(v) : v[k] = text[a + k]
    OBVIOUS
  <2>2. \A k \in 1..Len(v) : a + k \in a + 1..e /\ a + k \in 1..Len(text)
    BY <2>1
  <2> HIDE DEF v
  <2>3. IsPlain(v) /\ \A k \in 1..Len(v) : v[k].c # "+"
    BY <2>1, <2>2 DEF IsPlain, HashValue
  <2>4. FormDecode(v) = v
    BY <2>1, <2>3, PlainValue
  <2> QED
    BY <2>4 DEF v
<1>10. ~(Len(text) < 2)
  BY <1>1
<1> QED
  BY <1>2, <1>4, <1>7, <1>8, <1>9, <1>10, Zenon DEF ParseUrl

\* A URL means what the documentation says.
LEMMA UrlMeans ==
  ASSUME NEW text \in Seq(Token), text # <<>>, IsPlain(text), text[1] = Plain("http")
  PROVE  Means(text, ParseUrl(text))
<1>1. text[1].c = "http" /\ Len(text) >= 1
  BY DEF Plain
<1>2. Shares(text, "d") => ParseUrl(text) = Folder(text)
  BY SharedUrl DEF ParseUrl
<1>3. Shares(text, "i") => ParseUrl(text) = File(text)
  BY SharedUrl DEF ParseUrl
<1>4. ASSUME ParseUrl(text) # InvalidKey
      PROVE  \E d \in {"d", "i", "public"} : Begins(text, <<"http", "host", "/", d, "/">>)
  <2>1. Len(text) >= 2 /\ text[2] = Plain("host") /\ \E d \in {"d", "i", "public"} : Below(text, d)
    BY <1>4 DEF ParseUrl
  <2> QED
    BY <2>1, BelowBegins
<1> QED
  BY <1>1, <1>2, <1>3, <1>4, PublicUrl DEF Means

\* What is written between blanks, percent-encoded or not, is read.
LEMMA ParseMeans ==
  ASSUME NEW input \in Seq(Token), NEW i \in 1..Len(input), NEW j \in i..Len(input), NEW text,
         text = PercentDecode(SubSeq(input, i, j)), Written(input, i, j, text)
  PROVE  Means(text, Parse(input))
<1> DEFINE w == SubSeq(input, i, j)
           I == {k \in 1..Len(input) : input[k] # Plain(" ")}
<1>1. w \in Seq(Token) /\ Len(w) = j - i + 1 /\ \A k \in 1..Len(w) : w[k] = input[i + k - 1]
  OBVIOUS
<1>2. I \subseteq i..j /\ i \in I /\ j \in I
  <2>1. DOMAIN input = 1..Len(input) /\ i \in 1..Len(input) /\ j \in 1..Len(input)
    OBVIOUS
  <2>2. /\ \A k \in DOMAIN input \ (i..j) : input[k] = Plain(" ")
        /\ input[i] # Plain(" ") /\ input[j] # Plain(" ")
    BY DEF Written
  <2> QED
    BY <2>1, <2>2
<1>3. Min(I) = i
  <2> HIDE DEF I
  <2>1. I \subseteq Nat /\ \A k \in I : i <= k
    BY <1>2
  <2> QED
    BY <1>2, <2>1, FirstPlace
<1>4. Max(I) = j
  <2> HIDE DEF I
  <2>1. Len(input) \in Nat /\ I \subseteq 0..Len(input) /\ \A k \in I : k <= j
    BY <1>2
  <2> QED
    BY <1>2, <2>1, LastPlace
<1>5. SelectInSeq(input, LAMBDA t : t # Plain(" ")) = i
  BY <1>2, <1>3 DEF SelectInSeq
<1>6. SelectLastInSeq(input, LAMBDA t : t # Plain(" ")) = j
  BY <1>2, <1>4 DEF SelectLastInSeq
<1>7. /\ text \in Seq(Token) /\ Len(text) = Len(w) /\ IsPlain(text) /\ text # <<>>
      /\ \A k \in 1..Len(text) : text[k].c = w[k].c /\ text[k].c # "bad"
  <2> DEFINE Less(t) == [c |-> t.c, esc |-> IF t.esc > 0 THEN t.esc - 1 ELSE 0]
  <2>1. text = [k \in 1..Len(w) |-> Less(w[k])]
    BY <1>1 DEF PercentDecode
  <2>2. \A k \in 1..Len(w) : w[k] \in Token /\ Less(w[k]) \in Token /\ Less(w[k]).c = w[k].c
    BY <1>1 DEF Token
  <2> HIDE DEF Less, w
  <2>3. text \in [1..Len(w) -> Token]
    BY <2>1, <2>2
  <2>4. text \in Seq(Token) /\ Len(text) = Len(w)
    <3>1. Len(w) \in Nat
      BY <1>1
    <3> QED
      BY <2>3, <3>1, TextOf
  <2>5. \A k \in 1..Len(text) : text[k].c = w[k].c
    BY <2>1, <2>2, <2>4
  <2>6. \A k \in DOMAIN text : text[k].esc = 0 /\ text[k].c # "bad"
    BY DEF Written
  <2>7. IsPlain(text)
    BY <2>4, <2>6, PlainTokens
  <2>8. DOMAIN text = 1..Len(text) /\ Len(text) >= 1
    BY <1>1, <2>4
  <2> QED
    BY <2>4, <2>5, <2>6, <2>7, <2>8
<1>8. Decodable(w)
  <2>1. ASSUME NEW k \in 1..Len(w), w[k] = [c |-> "bad", esc |-> 1] PROVE FALSE
    <3>1. w[k].c = "bad"
      BY <2>1
    <3> HIDE DEF w
    <3> QED
      BY <1>7, <3>1
  <2>2. ToSet(w) = {w[k] : k \in 1..Len(w)}
    BY <1>1, ToSetOf
  <2> QED
    BY <2>1, <2>2 DEF Decodable
<1>9. Parse(input) = IF text[1] = Plain("http") THEN ParseUrl(text) ELSE Hash(text)
  <2> DEFINE first   == SelectInSeq(input, LAMBDA t : t # Plain(" "))
             last    == SelectLastInSeq(input, LAMBDA t : t # Plain(" "))
             trimmed == SubSeq(input, first, last)
             decoded == IF Decodable(trimmed) THEN PercentDecode(trimmed) ELSE trimmed
  <2>1. Parse(input) = IF first = 0 THEN InvalidKey
                       ELSE IF decoded[1] = Plain("http") THEN ParseUrl(decoded)
                       ELSE Hash(decoded)
    BY DEF Parse
  <2>2. first = i /\ last = j
    BY <1>5, <1>6
  <2> HIDE DEF first, last
  <2>3. decoded = text
    BY <1>8, <2>2
  <2> HIDE DEF decoded
  <2> QED
    BY <2>1, <2>2, <2>3
<1>10. CASE text[1] = Plain("http")
  BY <1>7, <1>9, <1>10, UrlMeans
<1>11. CASE text[1] # Plain("http")
  <2>1. text[1].c # "http"
    BY <1>7, <1>11 DEF IsPlain
  <2>2. \A p : ~Begins(text, <<"http">> \o p)
    BY <2>1 DEF Begins
  <2>3. /\ \A d : ~Begins(text, <<"http", "host", "/", d, "/">>)
        /\ ~Begins(text, <<"http", "host", "/", "public", "/", "?">>)
    BY <2>1 DEF Begins
  <2> QED
    BY <1>7, <1>9, <1>11, <2>1, <2>3 DEF Means, Shares, HashValue
<1> QED
  BY <1>10, <1>11

\* KeyReadAsWritten: whatever the text, between blanks or not, percent-encoded as
\* a whole or not, the key is what the documentation says (PublicKey::parse).
THEOREM KeysAreReadAsWritten == Spec => []KeyReadAsWritten
<1>1. ASSUME CallInv PROVE KeyReadAsWritten
  <2> SUFFICES ASSUME call.op = "parse", NEW i \in DOMAIN call.in, NEW j \in i..Len(call.in),
                      NEW text, text = PercentDecode(SubSeq(call.in, i, j)),
                      Written(call.in, i, j, text)
               PROVE  Means(text, call.out)
    BY DEF KeyReadAsWritten
  <2>1. call.in \in Seq(Token) /\ call.out = Parse(call.in)
    BY <1>1, ClientAssumption DEF CallInv, KeyOf
  <2>2. i \in 1..Len(call.in)
    BY <2>1
  <2> QED
    BY <2>1, <2>2, ParseMeans
<1> QED
  BY <1>1, CallInvariant, PTL
=============================================================================
