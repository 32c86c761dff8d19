------------------------------ MODULE SafePath ------------------------------
(***************************************************************************)
(* safe_relative_path: the path of an item in the share becomes a path     *)
(* below the destination directory.                                        *)
(*                                                                         *)
(* A path is a sequence of characters, one for each kind the code tells    *)
(* apart: "nbsp" is any whitespace that is neither U+0020 nor a control,   *)
(* as U+00A0 and U+3000, "tab" one that is a control, "bell" any other     *)
(* control.  "CON" stands for all the letters of a reserved name.          *)
(***************************************************************************)
EXTENDS Integers, Sequences, SequencesExt

Blank    == {" ", "tab", "nbsp"}               \* char::is_whitespace
Control  == {"tab", "bell"}                    \* char::is_control
Invalid  == {"<", ">", ":", "\"", "/", "\\", "|", "?", "*"}
Reserved == {<<"CON">>}

NoPath == <<>>     \* the error ClientError::InvalidPath

TrimStart(s, set) ==
  LET first == SelectInSeq(s, LAMBDA c : c \notin set)
  IN  IF first = 0 THEN <<>> ELSE SubSeq(s, first, Len(s))

TrimEnd(s, set) == SubSeq(s, 1, SelectLastInSeq(s, LAMBDA c : c \notin set))

Trim(s, set) == TrimEnd(TrimStart(s, set), set)

\* str::split by "/": the k-th part lies between the slashes k - 1 and k.
Split(s) ==
  LET slashes  == {i \in DOMAIN s : s[i] = "/"}
      Rank(i)  == Cardinality({j \in slashes : j <= i})
      Slash(k) == IF k > Cardinality(slashes) THEN Len(s) + 1
                  ELSE Max({0} \cup {i \in slashes : Rank(i) <= k})
  IN  [k \in 1..Cardinality(slashes) + 1 |-> SubSeq(s, Slash(k - 1) + 1, Slash(k) - 1)]

\* Mutant of SafeFilenameComponent: trailing dots and blanks go before the
\* blanks around the name do.
BugSafeFilenameComponent(name) ==
  LET plain  == [i \in DOMAIN name |-> IF name[i] \in Control \cup Invalid THEN "_"
                                       ELSE name[i]]
      result == Trim(TrimEnd(plain, {"."}), Blank)
  IN  CASE result = <<>>         -> <<"_">>
        [] result \in Reserved   -> <<"_">> \o result
        [] OTHER                 -> result

\* Mutant of SafeFilenameComponent: every name is shortened by its dots.
BugComponentDots(name) ==
  LET result == SelectSeq(name, LAMBDA c : c \notin Control \cup Invalid \cup Blank \cup {"."})
  IN  IF result = <<>> THEN <<"_">> ELSE result

SafeFilenameComponent(name) ==
  LET trimmed == Trim(name, Blank)
      plain   == [i \in DOMAIN trimmed |->
                    IF trimmed[i] \in Control \cup Invalid THEN "_" ELSE trimmed[i]]
      result  == TrimEnd(plain, {" ", "."})
  IN  CASE result = <<>>         -> <<"_">>
        [] result \in Reserved   -> <<"_">> \o result
        [] OTHER                 -> result

\* The plain name of a file: it is not empty, "." or "..", has no separator or
\* other invalid character, does not end with a space or a dot, and is no reserved
\* name.  A reserved name with an extension counts as plain.
FileName(part) ==
  /\ part \notin {<<>>} \cup Reserved
  /\ ToSet(part) \cap (Invalid \cup Control) = {}
  /\ part[Len(part)] \notin {" ", "."}

\* A name that needs no cleaning: a plain one without whitespace of any kind at
\* its ends.
CleanName(part) == FileName(part) /\ {part[1], part[Len(part)]} \cap Blank = {}

\* The components of the path below the destination, or NoPath.
SafeRelativePath(path) ==
  LET normalized == TrimStart(ReplaceAll(path, "\\", "/"), {"/"})
      parts      == Split(normalized)
  IN  IF \E i \in DOMAIN parts : parts[i] \in {<<>>, <<".">>, <<".", ".">>}
      THEN NoPath
      ELSE [i \in DOMAIN parts |-> SafeFilenameComponent(parts[i])]
=============================================================================
