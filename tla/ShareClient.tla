---------------------------- MODULE ShareClient ----------------------------
(***************************************************************************)
(* YaShareClient as its user sees it: the builder and the configuration it *)
(* leaves, the fields to ask for, parsing a public key, the metadata of a  *)
(* resource, the root of a share, and the download job of a listed item.   *)
(* It composes the request of ApiClient with Fields, PublicKey and         *)
(* SafePath.                                                               *)
(***************************************************************************)
EXTENDS ApiClient, SafePath, PublicKey

CONSTANTS
  Settings,     \* the numbers a setter of the builder is called with
  MaxSetters,   \* how many setters are called before build
  Selections,   \* the fields set_fields is called with
  KeyTexts,     \* the texts a public key is parsed from
  ItemPaths     \* the paths of listed items

ASSUME ClientAssumption ==
  /\ Settings \subseteq Nat /\ MaxSetters \in Nat
  /\ Selections \subseteq SUBSET ResourceField
  /\ ItemPaths \subseteq Seq(STRING)
  /\ KeyTexts \subseteq Seq(Token)

VARIABLES
  phase,     \* "building", "ready", or "failed" to build
  config,    \* ClientConfig, with the timeout of the http builder
  setters,   \* auxiliary: how many setters have been called
  fields,    \* the fields of the ResourceClient
  call       \* the last call: what it was, what it was given and its outcome

client == <<phase, config, setters, fields>>
vars   == <<apiVars, client, call>>

NoCall            == [op |-> "none", done |-> FALSE]
Pending(op, in)   == [op |-> op, in |-> in, done |-> FALSE]
Done(op, in, out) == [op |-> op, in |-> in, done |-> TRUE, out |-> out]

-----------------------------------------------------------------------------
(* The builder *)

DefaultConfig ==
  [maxLinkAttempts |-> 3, maxConcurrentDownloads |-> 6, maxListingWorkers |-> 6,
   verifyMode |-> "SizeOnly", apiBase |-> "base", progressSender |-> FALSE,
   aggregateInterval |-> 200, timeout |-> FALSE]

\* Mutant of AtLeastOne: the number is taken as it is.
BugAtLeastOne(n) == n

\* usize::max(1).
AtLeastOne(n) == IF n > 1 THEN n ELSE 1

Set(name, value) ==
  /\ phase = "building"
  /\ setters < MaxSetters
  /\ config' = [config EXCEPT ![name] = value]
  /\ setters' = setters + 1
  /\ UNCHANGED <<apiVars, phase, fields, call>>

SetMaxLinkAttempts(n)        == Set("maxLinkAttempts", AtLeastOne(n))
SetMaxConcurrentDownloads(n) == Set("maxConcurrentDownloads", AtLeastOne(n))
SetMaxListingWorkers(n)      == Set("maxListingWorkers", AtLeastOne(n))
SetVerifyMode(mode)          == Set("verifyMode", mode)
SetTimeout                   == Set("timeout", TRUE)
SetApiBase(base)             == Set("apiBase", base)
SetProgressSender            == Set("progressSender", TRUE)
SetAggregateInterval(n)      == Set("aggregateInterval", n)

\* build and from_parts: the ResourceClient starts with the default fields.
Build ==
  /\ phase = "building"
  /\ phase' \in {"ready", "failed"}
  /\ fields' = DefaultFields
  /\ UNCHANGED <<apiVars, config, setters, call>>

\* set_fields: it needs the client for itself, so no request is under way.
SetFields(selection) ==
  /\ phase = "ready" /\ call = NoCall
  /\ fields' = selection
  /\ UNCHANGED <<apiVars, phase, config, setters, call>>

-----------------------------------------------------------------------------
(* Requests *)

\* get_public_resource; an API base that cannot have path segments ends it in
\* get_public_api_url, before anything is sent.
Request(op, type) ==
  /\ phase = "ready" /\ call = NoCall
  /\ call' = Pending(op, fields)
  /\ IF config.apiBase = "base"
     THEN GetPublicResource(type, fields)
     ELSE /\ pc = "idle"
          /\ Return(Error("InvalidPath"))
          /\ want' = type
          /\ asked' = fields
          /\ tryNo' = 0
          /\ reply' = Broken
          /\ UNCHANGED <<share, slept, cancelled>>
  /\ UNCHANGED client

ResourceMeta == Request("meta", "resource")
ListPage     == Request("page", "resource")
DownloadLink == Request("link", "link")
Root         == Request("root", "resource")

\* resolve_root_path, on the metadata of the root: its path, "/" for want of one.
ResolveRootPath(root) ==
  IF root.kind # "Ok" THEN root.kind
  ELSE IF share # "folder" \/ <<"type">> \notin root.fields THEN "NotAFolder"
  ELSE IF <<"path">> \in root.fields THEN "path" ELSE "/"

\* The request is over, and the call returns.
Finish ==
  /\ pc = "done"
  /\ call # NoCall /\ ~call.done
  /\ call' = Done(call.op, call.in, IF call.op = "root" THEN ResolveRootPath(result)
                                    ELSE result.kind)
  /\ UNCHANGED <<apiVars, client>>

-----------------------------------------------------------------------------
(* Calls without a request *)

\* PublicKey::parse.
ParseKey(text) ==
  /\ phase = "building" /\ setters = 0 /\ call = NoCall
  /\ call' = Done("parse", text, Parse(text))
  /\ UNCHANGED <<apiVars, client>>

\* The members of the items of a page, of those that were asked for.
ItemShown == {path \in Item : <<"_embedded", "items">> \o path \in fields}

\* DownloadJob::for_download, on a listed file.
ForDownload(path, shown) ==
  IF <<"path">> \notin shown \/ SafeRelativePath(path) = NoPath THEN [job |-> "InvalidPath"]
  ELSE IF <<"size">> \notin shown THEN [job |-> "UnexpectedResponse"]
  ELSE [job |-> "made", destination |-> SafeRelativePath(path),
        checksum |-> shown \cap Leaf({"md5", "sha256"}),
        href |-> <<"file">> \in shown]

\* download_all's loop on a file of the listing: an item that is not known to
\* be a file is passed over.
MakeJob(path) ==
  /\ phase = "ready" /\ call = NoCall
  /\ config = DefaultConfig /\ share = "folder" /\ ~cancelled
  /\ call' = Done("job", path, IF <<"type">> \in ItemShown THEN ForDownload(path, ItemShown)
                               ELSE [job |-> "skipped"])
  /\ UNCHANGED <<apiVars, client>>

\* The user takes what the call returned.
TakeResult ==
  /\ call.done
  /\ call' = NoCall
  /\ pc' = "idle"
  /\ want' = "resource" /\ asked' = {}
  /\ tryNo' = 0
  /\ reply' = Broken
  /\ delay' = 0 /\ slept' = 0
  /\ result' = Error("none")
  /\ UNCHANGED <<share, cancelled, client>>

-----------------------------------------------------------------------------
Init ==
  /\ ApiInit
  /\ phase = "building"
  /\ config = DefaultConfig
  /\ setters = 0
  /\ fields = {}
  /\ call = NoCall

Builder ==
  \/ \E n \in Settings : \/ SetMaxLinkAttempts(n) \/ SetMaxConcurrentDownloads(n)
                         \/ SetMaxListingWorkers(n) \/ SetAggregateInterval(n)
  \/ SetVerifyMode("SizeAndChecksum") \/ SetApiBase("opaque")
  \/ SetTimeout \/ SetProgressSender
  \/ Build

Calls ==
  \/ \E selection \in Selections : SetFields(selection)
  \/ ResourceMeta \/ ListPage \/ DownloadLink \/ Root
  \/ \E text \in KeyTexts : ParseKey(text)
  \/ \E path \in ItemPaths : MakeJob(path)
  \/ TakeResult

\* The request's own steps change apiVars alone.
Exchange == Step /\ UNCHANGED <<client, call>>

Next == Builder \/ Calls \/ Exchange \/ Finish

Spec == Init /\ [][Next]_vars

\* The runtime schedules the request; with a timeout configured reqwest ends
\* every exchange, its body included, if the server does not.
LiveSpec ==
  /\ Spec
  /\ WF_vars((BeginAttempt \/ Sleep) /\ UNCHANGED <<client, call>>)
  /\ WF_vars(config.timeout /\ Exchange /\ pc' # pc)

-----------------------------------------------------------------------------
(* Properties *)

\* The numbers of the configuration are at least one: what the link loop, the
\* download pool and the listing workers are built on.
TypeOK ==
  /\ ApiTypeOK
  /\ phase \in {"building", "ready", "failed"}
  /\ {config.maxLinkAttempts, config.maxConcurrentDownloads, config.maxListingWorkers}
       \subseteq Nat \ {0}
  /\ setters \in 0..MaxSetters
  /\ fields \subseteq ResourceField

\* Every job writes below the destination directory, to a path whose components
\* are plain file names.
JobsStayInside ==
  call.op = "job" /\ call.out.job = "made" =>
    /\ call.out.destination # <<>>
    /\ \A i \in DOMAIN call.out.destination : FileName(call.out.destination[i])

\* A path that needs no cleaning is kept below its leading slashes, component by
\* component: the structure of the share is preserved, and items of one share,
\* whose paths all begin with one slash, do not meet if their paths are clean.
CleanNamesKept ==
  call.op = "job" =>
    LET parts == Split(TrimStart(call.in, {"/"}))
        clean == \A i \in DOMAIN parts : CleanName(parts[i])
    IN  clean /\ call.out.job = "made" => call.out.destination = parts

\* What the default fields ask for is enough for download_all: the root of a
\* folder is found, that of a file is refused, and a listed file becomes a job
\* whose only obstacle is its path, with its checksums and its link.
DefaultFieldsSuffice ==
  /\ call.op = "root" /\ call.done /\ call.in = DefaultFields
       /\ result.kind = "Ok" /\ reply.body = "json" =>
       (call.out = "path" <=> share = "folder")
  /\ call.op = "job" /\ fields = DefaultFields =>
       \/ SafeRelativePath(call.in) = NoPath /\ call.out.job = "InvalidPath"
       \/ /\ call.out.job = "made" /\ call.out.href
          /\ call.out.checksum = Leaf({"md5", "sha256"})

\* Metadata that was asked for and sent arrives: no field gets lost for want of
\* a member to read it into.
NoFieldLost ==
  call.op \in {"meta", "page"} /\ call.done /\ result.kind = "Ok" => result.fields = reply.fields

\* What a text means by the documentation of PublicKey: the URL of a folder or of a
\* file is that key, a public URL the value of its parameter hash, any text that
\* is no URL a hash; a URL of another host or form is refused.
Begins(text, prefix) ==
  Len(text) >= Len(prefix) /\ \A k \in DOMAIN prefix : text[k].c = prefix[k]

Shares(text, d) ==
  Begins(text, <<"http", "host", "/", d, "/">>) /\ \A k \in 6..Len(text) : text[k].c \notin {"/", "?"}

\* The value, from a + 1 to e, of the first parameter hash of a public URL.
HashValue(text, a, e) ==
  /\ Begins(text, <<"http", "host", "/", "public", "/", "?">>)
  /\ text[a].c = "hash=" /\ text[a - 1].c \in {"?", "&"}
  /\ \A k \in 7..a - 1 : text[k].c \notin {"hash=", "?"}
  /\ \A k \in a + 1..e : text[k].c \notin {"&", "+"}
  /\ e = Len(text) \/ text[e + 1].c = "&"

Means(text, key) ==
  /\ Shares(text, "d") => key = Folder(text)
  /\ Shares(text, "i") => key = File(text)
  /\ \A a \in 7..Len(text) : \A e \in a..Len(text) :
       HashValue(text, a, e) => key = Hash(SubSeq(text, a + 1, e))
  /\ text[1].c # "http" => key = Hash(text)
  /\ text[1].c = "http" /\ key # InvalidKey =>
       \E d \in {"d", "i", "public"} : Begins(text, <<"http", "host", "/", d, "/">>)

Encoded(text) == [k \in DOMAIN text |-> [text[k] EXCEPT !.esc = @ + 1]]

\* text is written in input from i to j, percent-encoded as a whole or not, and
\* there are blanks around.
Written(input, i, j, text) ==
  /\ \A k \in DOMAIN input \ (i..j) : input[k] = Plain(" ")
  /\ Plain(" ") \notin {input[i], input[j]}
  /\ \A k \in DOMAIN text : text[k].esc = 0 /\ text[k].c # "bad"
  /\ SubSeq(input, i, j) \in {text, Encoded(text)}

\* A key is read as it was written.
KeyReadAsWritten ==
  call.op = "parse" =>
    \A i \in DOMAIN call.in : \A j \in i..Len(call.in) :
      LET text == PercentDecode(SubSeq(call.in, i, j))
      IN  Written(call.in, i, j, text) => Means(text, call.out)

\* A request ends when a timeout is configured, however the server, the
\* network and the user behave.
RequestEnds == config.timeout /\ pc = "attempt" ~> pc = "done"

-----------------------------------------------------------------------------
(* What the documentation says and the code does not do *)

\* ResourceClient::get_download_link: the response is expected to be a Link; a
\* good answer to what was asked can be read as one.
LinkCanBeHad == pc = "done" /\ want = "link" /\ reply.body = "json" /\ Success(reply)
                  => result.kind = "Ok"
=============================================================================
