----------------------------- MODULE ApiClient -----------------------------
(***************************************************************************)
(* A request to the public API: ResourceClient::get_json, that is the      *)
(* retry loop around sending, mapping an error response, reading the body  *)
(* and decoding it, against a server that answers anything and a user who  *)
(* cancels at any time.  Delays are in milliseconds.                       *)
(***************************************************************************)
EXTENDS Integers, Fields

CONSTANTS
  MaxAttempts,  \* of the retry policy: 8 in the code
  Statuses,     \* the HTTP statuses the server answers with
  Hints,        \* the seconds its Retry-After headers name
  Jitters,      \* percentages of a backoff: 75 to 125 in the code
  NoHint        \* no Retry-After header, or one that names a date

ASSUME ApiAssumption ==
  /\ MaxAttempts \in Nat \ {0}
  /\ Statuses \subseteq Nat
  /\ Hints \subseteq Nat
  /\ NoHint \notin Nat

VARIABLES
  pc,         \* where the request is
  want,       \* the type the answer is read into: "resource" or "link"
  asked,      \* the fields it asks for
  share,      \* what the public key leads to: "folder" or "file"
  tryNo,      \* the number of the attempt
  reply,      \* the response to the last attempt, or Broken
  delay,      \* what the retry loop sleeps for
  slept,      \* auxiliary: what it has slept for since the last exchange
  result,     \* what the request returned
  cancelled   \* the cancellation token

request == <<want, asked, share>>
apiVars == <<pc, request, tryNo, reply, delay, slept, result, cancelled>>

PCs == {"idle", "attempt", "send", "errorBody", "body", "sleep", "done"}

\* A response: its status, its Retry-After header, and its body: the fields of
\* a resource, an ApiErrorResponse, one with the error DiskNotFoundError, or
\* anything else.
Response(status, hint, body, fields) ==
  [status |-> status, hint |-> hint, body |-> body, fields |-> fields]

Broken == Response(0, NoHint, "none", {})     \* no response arrived in full

Success(r) == r.status \in 200..299

\* The result of an attempt; status and hint are those of the ApiError.
Result(kind, status, hint, fields) ==
  [kind |-> kind, status |-> status, hint |-> hint, fields |-> fields]

Error(kind) == Result(kind, 0, NoHint, {})

-----------------------------------------------------------------------------
(* Errors and what the retry policy makes of them *)

\* Mutant of MapErrorResponse: the fallback forgets the Retry-After header.
BugMapErrorResponse(r) ==
  CASE r.body = "notFound"      -> Error("NotFound")
    [] r.body = "errorResponse" -> Result("Response", r.status, r.hint, {})
    [] OTHER                    -> Result("Status", r.status, NoHint, {})

\* map_error_response: a body that is no ApiErrorResponse, or is cut short,
\* leaves the status; retry_after reads a number of seconds.
MapErrorResponse(r) ==
  CASE r.body = "notFound"      -> Error("NotFound")
    [] r.body = "errorResponse" -> Result("Response", r.status, r.hint, {})
    [] OTHER                    -> Result("Status", r.status, r.hint, {})

\* from_slice into a Resource, whose members are all optional, or a Link; members
\* of an ApiErrorResponse are passed over.
Decode(type, r) ==
  IF r.body # "other" /\ (type = "resource" \/ Link \subseteq r.fields)
  THEN Result("Ok", r.status, NoHint, r.fields \cap (IF type = "link" THEN Link ELSE Resource))
  ELSE Error("MalformedResponse")

Transport == {"Request", "BodyInterrupted"}     \* HttpError::is_transient

\* exponential_backoff(n, 2 s, 60 s).
Backoffs(n) ==
  LET steps  == (IF n > 30 THEN 30 ELSE n) - 1
      Wait(j) == 20 * 2^steps * j
  IN  {IF Wait(j) > 60000 THEN 60000 ELSE Wait(j) : j \in Jitters}

\* default_conditions and ApiError::retry_decision: the delays before another
\* attempt, none for Abort.
Delays(error, n) ==
  CASE error.kind \in Transport         -> Backoffs(n)
    [] error.status \in {429, 503, 423} -> IF error.hint # NoHint THEN {error.hint * 1000}
                                           ELSE Backoffs(n)
    [] OTHER                            -> {}

-----------------------------------------------------------------------------
(* The request *)

Return(r) ==
  /\ pc' = "done"
  /\ result' = r
  /\ UNCHANGED delay

\* The retry loop after a failed attempt.
Fail(error) ==
  \/ /\ \/ Delays(error, tryNo) = {}
        \/ tryNo >= MaxAttempts
     /\ Return(error)
  \/ /\ tryNo < MaxAttempts
     /\ \E d \in Delays(error, tryNo) : delay' = d
     /\ pc' = "sleep"
     /\ UNCHANGED result

\* get_public_resource, resource_meta, list_page and get_download_link: they
\* differ in the type the answer is read into, not in the fields they ask for.
GetPublicResource(type, fields) ==
  /\ pc = "idle"
  /\ want' = type
  /\ asked' = fields
  /\ tryNo' = 0
  /\ reply' = Broken
  /\ pc' = "attempt"
  /\ UNCHANGED <<share, delay, slept, result, cancelled>>

\* Mutant of BeginAttempt: the token is not checked.
BugBeginAttempt ==
  /\ pc = "attempt"
  /\ tryNo' = tryNo + 1
  /\ pc' = "send"
  /\ UNCHANGED <<request, reply, delay, slept, result, cancelled>>

\* Mutant of BeginAttempt: the attempts are not counted.
BugBeginAttemptAnew ==
  /\ pc = "attempt"
  /\ IF cancelled
     THEN /\ Return(Error("Cancelled"))
          /\ UNCHANGED tryNo
     ELSE /\ tryNo' = 1
          /\ pc' = "send"
          /\ UNCHANGED <<delay, result>>
  /\ UNCHANGED <<request, reply, slept, cancelled>>

\* retry::run: the next attempt, unless the token has fired.
BeginAttempt ==
  /\ pc = "attempt"
  /\ IF cancelled
     THEN /\ Return(Error("Cancelled"))
          /\ UNCHANGED tryNo
     ELSE /\ tryNo' = tryNo + 1
          /\ pc' = "send"
          /\ UNCHANGED <<delay, result>>
  /\ UNCHANGED <<request, reply, slept, cancelled>>

\* HttpClient::send fails; it does not look at the token.
SendFails ==
  /\ pc = "send"
  /\ reply' = Broken
  /\ slept' = 0
  /\ Fail(Error("Request"))
  /\ UNCHANGED <<request, tryNo, cancelled>>

\* The server answers; a success shows what was asked of what the share has.
Answer ==
  /\ pc = "send"
  /\ LET shown == Shown(share, asked)
     IN  \E status \in Statuses, hint \in Hints \cup {NoHint},
            body \in {"json", "errorResponse", "notFound", "other"} :
           reply' = Response(status, hint, body, IF body = "json" THEN shown ELSE {})
  /\ slept' = 0
  /\ pc' = IF Success(reply') THEN "body" ELSE "errorBody"
  /\ UNCHANGED <<request, tryNo, delay, result, cancelled>>

\* send_checked_with_headers maps an error response, the token unseen.
ReadErrorBody ==
  /\ pc = "errorBody"
  /\ Fail(MapErrorResponse(reply))
  /\ UNCHANGED <<request, tryNo, reply, slept, cancelled>>

\* The connection breaks while it does.
ErrorBodyBreaks ==
  /\ pc = "errorBody"
  /\ Fail(MapErrorResponse([reply EXCEPT !.body = "other"]))
  /\ UNCHANGED <<request, tryNo, reply, slept, cancelled>>

\* read_body races the token, which wins, and GetJson::attempt decodes.
ReadBody ==
  /\ pc = "body"
  /\ LET outcome == Decode(want, reply)
     IN  \/ /\ cancelled
            /\ Return(Error("Cancelled"))
         \/ /\ ~cancelled
            /\ IF outcome.kind = "Ok" THEN Return(outcome) ELSE Fail(outcome)
  /\ UNCHANGED <<request, tryNo, reply, slept, cancelled>>

\* Mutant of BodyBreaks: what has arrived is decoded all the same.
BugBodyBreaks ==
  /\ pc = "body"
  /\ reply' = Broken
  /\ Return(IF cancelled THEN Error("Cancelled") ELSE Decode(want, reply))
  /\ UNCHANGED <<request, tryNo, slept, cancelled>>

\* The connection breaks under read_body.
BodyBreaks ==
  /\ pc = "body"
  /\ reply' = Broken
  /\ IF cancelled THEN Return(Error("Cancelled")) ELSE Fail(Error("BodyInterrupted"))
  /\ UNCHANGED <<request, tryNo, slept, cancelled>>

\* Cancel::sleep: the token wins.
Sleep ==
  /\ pc = "sleep"
  /\ IF cancelled
     THEN /\ Return(Error("Cancelled"))
          /\ UNCHANGED slept
     ELSE /\ pc' = "attempt"
          /\ slept' = delay
          /\ delay' = 0
          /\ UNCHANGED result
  /\ UNCHANGED <<request, tryNo, reply, cancelled>>

Cancel ==
  /\ ~cancelled
  /\ cancelled' = TRUE
  /\ UNCHANGED <<pc, request, tryNo, reply, delay, slept, result>>

-----------------------------------------------------------------------------
ApiInit ==
  /\ pc = "idle"
  /\ want = "resource"
  /\ asked = {}
  /\ share \in {"folder", "file"}
  /\ tryNo = 0
  /\ reply = Broken
  /\ delay = 0
  /\ slept = 0
  /\ result = Error("none")
  /\ cancelled = FALSE

Step ==
  \/ BeginAttempt \/ SendFails \/ Answer
  \/ ReadErrorBody \/ ErrorBodyBreaks \/ ReadBody \/ BodyBreaks
  \/ Sleep \/ Cancel

ApiNext ==
  \/ \E type \in {"resource", "link"}, fields \in SUBSET ResourceField :
       GetPublicResource(type, fields)
  \/ Step

ApiSpec == ApiInit /\ [][ApiNext]_apiVars

-----------------------------------------------------------------------------
(* Properties *)

ApiTypeOK ==
  /\ pc \in PCs
  /\ want \in {"resource", "link"}
  /\ asked \subseteq ResourceField
  /\ share \in {"folder", "file"}
  /\ tryNo \in 0..MaxAttempts
  /\ cancelled \in BOOLEAN

\* A further attempt is made only when the last exchange broke down or was
\* answered 423, 429 or 503, and not before the time its Retry-After names: the
\* wait goes through map_error_response, the policy and the sleep unharmed.
ServerIsHeard ==
  [][pc = "attempt" /\ pc' = "send" /\ tryNo > 0 =>
       \/ reply = Broken
       \/ /\ reply.status \in {423, 429, 503}
          /\ reply.hint # NoHint => slept >= reply.hint * 1000]_apiVars

\* Once the token has fired nothing is sent any more, wherever the loop is.
NothingSentAfterCancel == [][cancelled => pc' # "send" \/ pc = "send"]_apiVars

\* What a request returns is about its last exchange: data come from its body,
\* an error from the answer that was given, and Cancelled from the token.
ResultIsCurrent ==
  pc = "done" =>
    /\ result.kind = "Ok" => Success(reply) /\ result.fields \subseteq reply.fields
    /\ result.kind = "MalformedResponse" => Success(reply)
    /\ result.kind = "NotFound" => ~Success(reply) /\ reply.body = "notFound"
    /\ result.kind \in {"Response", "Status"} => ~Success(reply) /\ result.status = reply.status
    /\ result.kind = "Cancelled" => cancelled
    /\ result.kind \in Transport => reply = Broken
=============================================================================
