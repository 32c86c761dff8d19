----------------------------- MODULE PublicKey -----------------------------
(***************************************************************************)
(* PublicKey::parse: the key of a share out of a URL or a hash.            *)
(*                                                                         *)
(* A text is a sequence of tokens [c, esc]: c is a piece of text the code  *)
(* tells apart, esc how often it is percent-encoded.  "http" stands for    *)
(* http:// or https://, "host" for disk.yandex.ru, "bad" for a byte that   *)
(* is no UTF-8, which exists encoded only.                                 *)
(***************************************************************************)
EXTENDS Integers, Sequences, SequencesExt

Folder(text) == [kind |-> "Folder", text |-> text]
File(text)   == [kind |-> "File", text |-> text]
Hash(text)   == [kind |-> "Hash", text |-> text]
InvalidKey   == [kind |-> "InvalidPublicKey", text |-> <<>>]

Token    == [c : STRING, esc : Nat]
Plain(c) == [c |-> c, esc |-> 0]

\* urlencoding::decode; it fails on bytes that are no UTF-8.
Decodable(text)     == [c |-> "bad", esc |-> 1] \notin ToSet(text)
PercentDecode(text) == [i \in DOMAIN text |->
                          [c |-> text[i].c, esc |-> IF text[i].esc > 0 THEN text[i].esc - 1 ELSE 0]]

\* A value of a query: "+" is a blank, and percent-encoding is undone.
FormDecode(text) ==
  PercentDecode([i \in DOMAIN text |-> IF text[i] = Plain("+") THEN Plain(" ") ELSE text[i]])

\* The parts of a URL: its path lies between the host and the first "?".
QueryAt(text) == SelectInSeq(text, LAMBDA t : t = Plain("?"))
UrlPath(text) == SubSeq(text, 3, IF QueryAt(text) = 0 THEN Len(text) ELSE QueryAt(text) - 1)

\* path_segments are d and one more.
Below(text, d) ==
  LET path == UrlPath(text)
  IN  /\ Len(path) >= 3
      /\ path[1] = Plain("/") /\ path[2] = Plain(d) /\ path[3] = Plain("/")
      /\ \A k \in 4..Len(path) : path[k] # Plain("/")

\* The parameters hash of the query: a parameter is its key, "hash=" or "other=",
\* and its value, up to the next "&".
Hashes(text) ==
  {i \in QueryAt(text) + 1..Len(text) :
     /\ QueryAt(text) # 0 /\ text[i] = Plain("hash=")
     /\ i = QueryAt(text) + 1 \/ text[i - 1] = Plain("&")}

ValueAt(text, i) ==
  LET ends == {Len(text) + 1} \cup {j \in i + 1..Len(text) : text[j] = Plain("&")}
  IN  FormDecode(SubSeq(text, i + 1, Min(ends) - 1))

\* parse_url.
ParseUrl(text) ==
  IF Len(text) < 2 \/ text[2] # Plain("host") THEN InvalidKey
  ELSE IF Below(text, "public") /\ Len(UrlPath(text)) = 3
       THEN IF Hashes(text) = {} THEN InvalidKey ELSE Hash(ValueAt(text, Min(Hashes(text))))
  ELSE IF Below(text, "d") THEN Folder(text)
  ELSE IF Below(text, "i") THEN File(text)
  ELSE InvalidKey

\* Mutant of Parse: a URL is looked for before the text is decoded.
BugParse(input) ==
  LET trimmed == SelectSeq(input, LAMBDA t : t # Plain(" "))
  IN  IF trimmed = <<>> THEN InvalidKey
      ELSE IF trimmed[1] = Plain("http") THEN ParseUrl(trimmed)
      ELSE Hash(PercentDecode(trimmed))

\* parse.
Parse(input) ==
  LET first   == SelectInSeq(input, LAMBDA t : t # Plain(" "))
      last    == SelectLastInSeq(input, LAMBDA t : t # Plain(" "))
      trimmed == SubSeq(input, first, last)
      decoded == IF Decodable(trimmed) THEN PercentDecode(trimmed) ELSE trimmed
  IN  IF first = 0 THEN InvalidKey
      ELSE IF decoded[1] = Plain("http") THEN ParseUrl(decoded)
      ELSE Hash(decoded)

\* as_api_string: what the API is sent as the public_key.
ApiString(key) == key.text
=============================================================================
