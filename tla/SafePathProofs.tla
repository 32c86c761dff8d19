--------------------------- MODULE SafePathProofs ---------------------------
(***************************************************************************)
(* Proofs about safe_relative_path, for paths of any length over any       *)
(* characters: each component of the result is a plain file name, and a    *)
(* path whose parts are such names, without whitespace at their ends, is   *)
(* kept.                                                                   *)
(***************************************************************************)
EXTENDS SafePath, TLAPS, FiniteSetTheorems, SequenceTheorems

LEMMA TextOf == ASSUME NEW S, NEW k \in Nat, NEW f \in [1..k -> S]
                PROVE  f \in Seq(S) /\ Len(f) = k
  BY SeqDef

LEMMA ToSetOf == ASSUME NEW S, NEW s \in Seq(S)
                 PROVE  ToSet(s) = {s[i] : i \in 1..Len(s)}
  BY DEF ToSet

\* A non-empty set of numbers has a least one,
LEMMA MinIndex ==
  ASSUME NEW I, I \subseteq Nat, I # {}
  PROVE  Min(I) \in I /\ \A i \in I : Min(I) <= i
<1>1. PICK x \in I : \A y \in I : ~ (<<y, x>> \in OpToRel(<, Nat))
  BY WFMin, NatLessThanWellFounded, Zenon
<1>2. ASSUME NEW y \in I PROVE x <= y
  <2>1. x \in Nat /\ y \in Nat
    OBVIOUS
  <2>2. <<y, x>> \in OpToRel(<, Nat) <=> y < x
    BY <2>1 DEF OpToRel
  <2>3. ~ (y < x)
    BY <1>1, <2>2
  <2> QED
    BY <2>1, <2>3
<1>3. \E m \in I : \A y \in I : m <= y
  BY <1>2
<1> QED
  BY <1>3 DEF Min

\* and a bounded one has a greatest.
LEMMA MaxIndex ==
  ASSUME NEW n \in Nat, NEW I, I \subseteq 0..n, I # {}
  PROVE  Max(I) \in I /\ \A i \in I : Max(I) >= i
<1> DEFINE D == {n - i : i \in I}
<1>1. D \subseteq Nat /\ D # {}
  <2>1. \A i \in I : n - i \in Nat
    OBVIOUS
  <2> QED
    BY <2>1
<1> HIDE DEF D
<1>2. PICK d \in D : \A e \in D : d <= e
  BY <1>1, MinIndex
<1>3. PICK x \in I : d = n - x
  BY DEF D
<1>4. ASSUME NEW i \in I PROVE x >= i
  <2>1. n - i \in D
    BY DEF D
  <2> QED
    BY <1>2, <1>3, <2>1
<1>5. \E m \in I : \A y \in I : m >= y
  BY <1>4
<1> QED
  BY <1>5 DEF Max

\* What is left of a text, and its last character.
LEMMA TrimmedEnd ==
  ASSUME NEW S, NEW s \in Seq(S), NEW set
  PROVE  LET t == TrimEnd(s, set)
         IN  /\ t \in Seq(S)
             /\ \A i \in 1..Len(t) : t[i] \in {s[j] : j \in 1..Len(s)}
             /\ t # <<>> => t[Len(t)] \notin set
<1> DEFINE I == {i \in 1..Len(s) : s[i] \notin set}
           m == IF I # {} THEN Max(I) ELSE 0
<1>1. TrimEnd(s, set) = SubSeq(s, 1, m)
  BY DEF TrimEnd, SelectLastInSeq
<1>2. m \in 0..Len(s) /\ (m # 0 => s[m] \notin set)
  <2>1. I \subseteq 1..Len(s) /\ Len(s) \in Nat
    OBVIOUS
  <2>2. CASE I = {}
    BY <2>2
  <2>3. CASE I # {}
    <3> HIDE DEF I
    <3>1. I \subseteq 0..Len(s)
      BY <2>1
    <3>2. Max(I) \in I
      BY <2>1, <2>3, <3>1, MaxIndex
    <3>3. m = Max(I)
      BY <2>3
    <3> QED
      BY <3>2, <3>3 DEF I
  <2> QED
    BY <2>2, <2>3
<1> HIDE DEF m
<1>3. /\ SubSeq(s, 1, m) \in Seq(S) /\ Len(SubSeq(s, 1, m)) = m
      /\ \A i \in 1..m : SubSeq(s, 1, m)[i] = s[i]
  BY <1>2
<1> QED
  BY <1>1, <1>2, <1>3

LEMMA TrimmedStart ==
  ASSUME NEW S, NEW s \in Seq(S), NEW set
  PROVE  TrimStart(s, set) \in Seq(S)
<1> DEFINE I == {i \in 1..Len(s) : s[i] \notin set}
           m == IF I # {} THEN Min(I) ELSE 0
<1>1. TrimStart(s, set) = IF m = 0 THEN <<>> ELSE SubSeq(s, m, Len(s))
  BY DEF TrimStart, SelectInSeq
<1>2. m \in 0..Len(s)
  <2>1. I \subseteq 1..Len(s) /\ I \subseteq Nat
    OBVIOUS
  <2>2. CASE I # {}
    <3> HIDE DEF I
    <3>1. Min(I) \in I /\ m = Min(I)
      BY <2>1, <2>2, MinIndex
    <3>2. Min(I) \in 0..Len(s)
      <4>1. Min(I) \in 1..Len(s)
        BY <2>1, <3>1
      <4> HIDE DEF I
      <4> QED
        BY <4>1
    <3> QED
      BY <3>1, <3>2
  <2> QED
    BY <2>2
<1> HIDE DEF m
<1> QED
  BY <1>1, <1>2

-----------------------------------------------------------------------------
(* Names and paths *)

\* The two names the code makes up.
LEMMA ShortName ==
  \A part \in {<<"_">>, <<"_", "CON">>} :
    /\ ToSet(part) \cap (Invalid \cup Control) = {}
    /\ part[Len(part)] \notin {" ", "."}
    /\ part # <<>> /\ part # <<"CON">>
<1>1. ToSet(<<"_">>) = {"_"} /\ ToSet(<<"_", "CON">>) = {"_", "CON"}
  <2>1. <<"_">> \in Seq({"_", "CON"}) /\ <<"_", "CON">> \in Seq({"_", "CON"})
    OBVIOUS
  <2>2. ToSet(<<"_">>) = {<<"_">>[i] : i \in 1..1}
    BY <2>1, ToSetOf
  <2>3. ToSet(<<"_", "CON">>) = {<<"_", "CON">>[i] : i \in 1..2}
    BY <2>1, ToSetOf
  <2>4. <<"_">>[1] = "_" /\ <<"_", "CON">>[1] = "_" /\ <<"_", "CON">>[2] = "CON"
    OBVIOUS
  <2>5. \A f : {f[i] : i \in 1..1} = {f[1]} /\ {f[i] : i \in 1..2} = {f[1], f[2]}
    OBVIOUS
  <2> QED
    BY <2>2, <2>3, <2>4, <2>5
<1>2. {"_", "CON"} \cap (Invalid \cup Control) = {}
  BY DEF Invalid, Control
<1>3. <<"_">>[1] = "_" /\ <<"_", "CON">>[2] = "CON" /\ Len(<<"_">>) = 1 /\ Len(<<"_", "CON">>) = 2
  OBVIOUS
<1>4. <<"_">> # <<>> /\ <<"_">> # <<"CON">> /\ <<"_", "CON">> # <<>> /\ <<"_", "CON">> # <<"CON">>
  OBVIOUS
<1> QED
  BY <1>1, <1>2, <1>3, <1>4

\* Whatever the name of an item, it becomes a plain file name
\* (safe_filename_component).
THEOREM EveryComponentIsSafe ==
  ASSUME NEW S, NEW name \in Seq(S)
  PROVE  FileName(SafeFilenameComponent(name))
<1> DEFINE Clean(c) == IF c \in Control \cup Invalid THEN "_" ELSE c
           trimmed  == Trim(name, Blank)
           plain    == [i \in DOMAIN trimmed |-> Clean(trimmed[i])]
           rest     == TrimEnd(plain, {" ", "."})
<1>1. trimmed \in Seq(S)
  BY TrimmedStart, TrimmedEnd DEF Trim
<1> HIDE DEF trimmed
<1>2. plain \in Seq(S \cup {"_"}) /\ Len(plain) = Len(trimmed)
  <2>1. Len(trimmed) \in Nat /\ DOMAIN trimmed = 1..Len(trimmed)
    BY <1>1
  <2>2. \A i \in 1..Len(trimmed) : Clean(trimmed[i]) \in S \cup {"_"}
    <3>1. \A c \in S : Clean(c) \in S \cup {"_"}
      OBVIOUS
    <3>2. \A i \in 1..Len(trimmed) : trimmed[i] \in S
      BY <1>1
    <3> QED
      BY <3>1, <3>2
  <2>3. plain \in [1..Len(trimmed) -> S \cup {"_"}]
    BY <2>1, <2>2
  <2> HIDE DEF plain
  <2> QED
    BY <2>1, <2>3, TextOf
<1>3. \A i \in 1..Len(plain) : plain[i] \notin Control \cup Invalid
  <2>1. \A c : Clean(c) \notin Control \cup Invalid
    BY DEF Control, Invalid
  <2>2. DOMAIN trimmed = 1..Len(trimmed)
    BY <1>1
  <2>3. \A i \in 1..Len(trimmed) : plain[i] = Clean(trimmed[i])
    BY <2>2, Zenon
  <2> QED
    BY <1>2, <2>1, <2>3, Zenon
<1> HIDE DEF plain
<1>4. /\ rest \in Seq(S \cup {"_"})
      /\ \A i \in 1..Len(rest) : rest[i] \in {plain[j] : j \in 1..Len(plain)}
      /\ rest # <<>> => rest[Len(rest)] \notin {" ", "."}
  BY <1>2, TrimmedEnd
<1> HIDE DEF rest
<1>5. ToSet(rest) \cap (Invalid \cup Control) = {}
  <2>1. ToSet(rest) = {rest[i] : i \in 1..Len(rest)}
    BY <1>4, ToSetOf
  <2>2. \A c \in ToSet(rest) : c \in {plain[j] : j \in 1..Len(plain)}
    BY <1>4, <2>1
  <2>3. \A c \in ToSet(rest) : c \notin Control \cup Invalid
    BY <1>3, <2>2
  <2> QED
    BY <2>3
<1>6. SafeFilenameComponent(name) = CASE rest = <<>>       -> <<"_">>
                                      [] rest \in Reserved -> <<"_">> \o rest
                                      [] OTHER             -> rest
  BY DEF SafeFilenameComponent, trimmed, plain, rest
<1>7. CASE rest = <<>>
  <2>1. SafeFilenameComponent(name) = <<"_">>
    BY <1>6, <1>7 DEF Reserved
  <2> QED
    BY <2>1, ShortName DEF FileName, Reserved
<1>8. CASE rest \in Reserved
  <2>1. rest = <<"CON">> /\ rest # <<>>
    BY <1>8 DEF Reserved
  <2>2. SafeFilenameComponent(name) = <<"_">> \o rest
    BY <1>6, <1>8, <2>1
  <2>3. <<"_">> \o <<"CON">> = <<"_", "CON">>
    <3>1. <<"_">> \in Seq({"_", "CON"}) /\ <<"CON">> \in Seq({"_", "CON"})
      OBVIOUS
    <3>2. /\ Len(<<"_">> \o <<"CON">>) = 2
          /\ (<<"_">> \o <<"CON">>)[1] = "_" /\ (<<"_">> \o <<"CON">>)[2] = "CON"
      BY <3>1
    <3>3. <<"_">> \o <<"CON">> \in Seq({"_", "CON"})
      BY <3>1
    <3> DEFINE a == <<"_">> \o <<"CON">>
               b == <<"_", "CON">>
    <3>4. b \in Seq({"_", "CON"}) /\ Len(b) = 2 /\ b[1] = "_" /\ b[2] = "CON"
      OBVIOUS
    <3>5. a \in Seq({"_", "CON"}) /\ Len(a) = 2 /\ a[1] = "_" /\ a[2] = "CON"
      BY <3>2, <3>3
    <3> HIDE DEF a, b
    <3>6. \A i \in 1..Len(a) : a[i] = b[i]
      <4>1. \A i \in 1..2 : i = 1 \/ i = 2
        OBVIOUS
      <4> QED
        BY <3>4, <3>5, <4>1, Zenon
    <3>7. a = b
      BY <3>4, <3>5, <3>6, SeqEqual, ZenonT(60)
    <3> QED
      BY <3>7 DEF a, b
  <2>4. SafeFilenameComponent(name) = <<"_", "CON">>
    BY <2>1, <2>2, <2>3
  <2> QED
    BY <2>4, ShortName DEF FileName, Reserved
<1>9. CASE rest # <<>> /\ rest \notin Reserved
  BY <1>4, <1>5, <1>6, <1>9 DEF FileName
<1> QED
  BY <1>7, <1>8, <1>9

\* The parts of a path are texts, and there is one at least.
LEMMA PartsOfPath ==
  ASSUME NEW S, NEW s \in Seq(S)
  PROVE  \E n \in Nat \ {0} : Split(s) \in [1..n -> Seq(S)]
<1> DEFINE slashes  == {i \in DOMAIN s : s[i] = "/"}
           Rank(i)  == Cardinality({j \in slashes : j <= i})
           n        == Cardinality(slashes)
           Slash(k) == IF k > n THEN Len(s) + 1
                       ELSE Max({0} \cup {i \in slashes : Rank(i) <= k})
<1>1. n \in Nat
  <2>1. IsFiniteSet(slashes)
    BY FS_Interval, FS_Subset
  <2> QED
    BY <2>1, FS_CardinalityType
<1>2. ASSUME NEW k \in Int PROVE Slash(k) \in 0..Len(s) + 1
  <2> DEFINE I == {0} \cup {i \in slashes : Rank(i) <= k}
  <2>1. Len(s) \in Nat /\ slashes \subseteq 1..Len(s)
    OBVIOUS
  <2>2. I \subseteq 0..Len(s) /\ I # {}
    <3>1. \A i \in {i \in slashes : Rank(i) <= k} : i \in 1..Len(s)
      BY <2>1, Zenon
    <3> QED
      BY <2>1, <3>1
  <2> HIDE DEF I
  <2>3. Max(I) \in 0..Len(s)
    BY <2>1, <2>2, MaxIndex
  <2>4. Slash(k) \in {Len(s) + 1, Max(I)}
    BY DEF I
  <2> HIDE DEF Slash
  <2> QED
    BY <2>1, <2>3, <2>4
<1> HIDE DEF Slash, n
<1>3. ASSUME NEW k \in 1..n + 1
      PROVE  SubSeq(s, Slash(k - 1) + 1, Slash(k) - 1) \in Seq(S)
  <2>1. k \in Int /\ k - 1 \in Int
    BY <1>1
  <2>2. PICK a \in 0..Len(s) + 1, b \in 0..Len(s) + 1 : a = Slash(k - 1) /\ b = Slash(k)
    BY <1>2, <2>1
  <2>3. SubSeq(s, a + 1, b - 1) \in Seq(S)
    OBVIOUS
  <2> QED
    BY <2>2, <2>3
<1>4. Split(s) = [k \in 1..n + 1 |-> SubSeq(s, Slash(k - 1) + 1, Slash(k) - 1)]
  BY DEF Split, Slash, n
<1> QED
  BY <1>1, <1>3, <1>4

\* Whatever the path of an item, it is refused or becomes a path of plain file
\* names, which stays below the directory it is put under (safe_relative_path).
THEOREM EveryPathIsSafe ==
  ASSUME NEW S, NEW path \in Seq(S)
  PROVE  LET safe == SafeRelativePath(path)
         IN  safe # NoPath => \A i \in DOMAIN safe : FileName(safe[i])
<1> DEFINE normalized == TrimStart(ReplaceAll(path, "\\", "/"), {"/"})
           parts      == Split(normalized)
<1>1. ReplaceAll(path, "\\", "/") \in Seq(S \cup {"/"})
  <2> DEFINE r == ReplaceAll(path, "\\", "/")
  <2>1. Len(path) \in Nat /\ r = [i \in 1..Len(path) |-> IF path[i] = "\\" THEN "/" ELSE path[i]]
    BY DEF ReplaceAll
  <2>2. r \in [1..Len(path) -> S \cup {"/"}]
    BY <2>1
  <2> HIDE DEF r
  <2>3. r \in Seq(S \cup {"/"})
    BY <2>1, <2>2, TextOf
  <2> QED
    BY <2>3 DEF r
<1>2. normalized \in Seq(S \cup {"/"})
  BY <1>1, TrimmedStart
<1> HIDE DEF normalized
<1>3. PICK n \in Nat \ {0} : parts \in [1..n -> Seq(S \cup {"/"})]
  BY <1>2, PartsOfPath
<1> HIDE DEF parts
<1>4. SafeRelativePath(path) \in {NoPath, [i \in 1..n |-> SafeFilenameComponent(parts[i])]}
  BY <1>3 DEF SafeRelativePath, normalized, parts
<1>5. \A i \in 1..n : FileName(SafeFilenameComponent(parts[i]))
  BY <1>3, EveryComponentIsSafe
<1> QED
  BY <1>4, <1>5

-----------------------------------------------------------------------------
(* Names and paths that need no cleaning *)

LEMMA TextType ==
  ASSUME NEW S, NEW s \in Seq(S)
  PROVE  /\ Len(s) \in Nat /\ (s # <<>> => Len(s) # 0) /\ DOMAIN s = 1..Len(s)
         /\ \A i \in 1..Len(s) : s[i] \in S
  OBVIOUS

LEMMA FirstAndLast == \A n \in Nat \ {0} : 1 \in 1..n /\ n \in 1..n
  OBVIOUS

\* A text that starts, or ends, with another character is not shortened there.
LEMMA NothingToTrim ==
  ASSUME NEW S, NEW s \in Seq(S), s # <<>>, NEW set
  PROVE  /\ s[1] \notin set => TrimStart(s, set) = s
         /\ s[Len(s)] \notin set => TrimEnd(s, set) = s
<1> DEFINE I == {i \in 1..Len(s) : s[i] \notin set}
<1>1. Len(s) \in Nat \ {0} /\ I \subseteq 1..Len(s)
  OBVIOUS
<1>2. SubSeq(s, 1, Len(s)) = s
  OBVIOUS
<1>3. ASSUME s[1] \notin set PROVE TrimStart(s, set) = s
  <2>1. 1 \in I
    BY <1>1, <1>3
  <2>2. TrimStart(s, set) = SubSeq(s, Min(I), Len(s)) \/ Min(I) = 0
    BY <2>1 DEF TrimStart, SelectInSeq
  <2> HIDE DEF I
  <2>3. I \subseteq Nat /\ I # {}
    BY <1>1, <2>1
  <2>4. Min(I) \in I /\ Min(I) <= 1
    BY <2>1, <2>3, MinIndex
  <2>5. PICK m \in 1..Len(s) : m = Min(I)
    BY <1>1, <2>4
  <2>6. m = 1
    BY <1>1, <2>4, <2>5
  <2>7. TrimStart(s, set) = SubSeq(s, 1, Len(s))
    BY <2>2, <2>5, <2>6
  <2> QED
    BY <1>2, <2>7
<1>4. ASSUME s[Len(s)] \notin set PROVE TrimEnd(s, set) = s
  <2>1. Len(s) \in I
    BY <1>1, <1>4
  <2>2. TrimEnd(s, set) = SubSeq(s, 1, Max(I))
    BY <2>1 DEF TrimEnd, SelectLastInSeq
  <2> HIDE DEF I
  <2>3. I \subseteq 0..Len(s) /\ I # {}
    BY <1>1, <2>1
  <2>4. Max(I) \in I /\ Max(I) >= Len(s)
    BY <1>1, <2>1, <2>3, MaxIndex
  <2>5. PICK m \in 1..Len(s) : m = Max(I)
    BY <1>1, <2>4
  <2>6. m = Len(s)
    BY <1>1, <2>4, <2>5
  <2>7. TrimEnd(s, set) = SubSeq(s, 1, Len(s))
    BY <2>2, <2>5, <2>6
  <2> QED
    BY <1>2, <2>7
<1> QED
  BY <1>3, <1>4

\* What is cut off the start of a text, and what is left.
LEMMA StartCutOff ==
  ASSUME NEW S, NEW s \in Seq(S), NEW set
  PROVE  \E m \in 0..Len(s) :
           /\ \A i \in 1..m : s[i] \in set
           /\ TrimStart(s, set) \in Seq(S)
           /\ Len(TrimStart(s, set)) = Len(s) - m
           /\ \A i \in 1..Len(s) - m : TrimStart(s, set)[i] = s[m + i]
<1> DEFINE I == {i \in 1..Len(s) : s[i] \notin set}
<1>1. Len(s) \in Nat /\ I \subseteq 1..Len(s)
  OBVIOUS
<1>2. CASE I = {}
  <2>1. TrimStart(s, set) = <<>>
    BY <1>2 DEF TrimStart, SelectInSeq
  <2>2. \A i \in 1..Len(s) : s[i] \in set
    BY <1>2
  <2> QED
    BY <1>1, <2>1, <2>2
<1>3. CASE I # {}
  <2>1. TrimStart(s, set) = IF Min(I) = 0 THEN <<>> ELSE SubSeq(s, Min(I), Len(s))
    BY <1>3 DEF TrimStart, SelectInSeq
  <2>2. \A i \in 1..Len(s) : i \in I <=> s[i] \notin set
    OBVIOUS
  <2> HIDE DEF I
  <2>3. Min(I) \in I /\ \A i \in I : Min(I) <= i
    <3>1. I \subseteq Nat
      BY <1>1
    <3> QED
      BY <1>3, <3>1, MinIndex
  <2>4. PICK first \in 1..Len(s) : first = Min(I)
    BY <1>1, <2>3
  <2>5. \A i \in 1..first - 1 : s[i] \in set
    BY <1>1, <2>2, <2>3, <2>4
  <2>6. TrimStart(s, set) = SubSeq(s, first, Len(s))
    BY <2>1, <2>4
  <2>7. /\ SubSeq(s, first, Len(s)) \in Seq(S)
        /\ Len(SubSeq(s, first, Len(s))) = Len(s) - (first - 1)
        /\ \A i \in 1..Len(s) - (first - 1) : SubSeq(s, first, Len(s))[i] = s[first - 1 + i]
    BY <1>1
  <2>8. first - 1 \in 0..Len(s)
    BY <1>1
  <2> QED
    BY <2>5, <2>6, <2>7, <2>8
<1> QED
  BY <1>2, <1>3

\* A plain file name with no whitespace at its ends is its own safe name.
THEOREM CleanNameIsKept ==
  ASSUME NEW S, NEW part \in Seq(S), CleanName(part)
  PROVE  SafeFilenameComponent(part) = part
<1>1. /\ Len(part) \in Nat \ {0} /\ part # <<>> /\ part \notin Reserved
      /\ part[Len(part)] \notin {" ", "."}
  <2>1. part # <<>> /\ part \notin Reserved /\ part[Len(part)] \notin {" ", "."}
    BY Zenon DEF CleanName, FileName
  <2> QED
    BY <2>1, TextType
<1>2. \A i \in 1..Len(part) : part[i] \notin Control \cup Invalid
  <2>1. ToSet(part) = {part[i] : i \in 1..Len(part)}
    BY ToSetOf
  <2>2. \A i \in 1..Len(part) : part[i] \in ToSet(part)
    BY <2>1
  <2> QED
    BY <2>2 DEF CleanName, FileName
<1>3. part[1] \notin Blank /\ part[Len(part)] \notin Blank
  BY DEF CleanName
<1>4. Trim(part, Blank) = part
  BY <1>1, <1>3, NothingToTrim DEF Trim
<1>5. [i \in DOMAIN part |-> IF part[i] \in Control \cup Invalid THEN "_" ELSE part[i]] = part
  <2> DEFINE plain == [i \in DOMAIN part |-> IF part[i] \in Control \cup Invalid THEN "_"
                                             ELSE part[i]]
  <2>1. DOMAIN part = 1..Len(part)
    BY TextType
  <2>2. \A i \in 1..Len(part) : plain[i] = part[i]
    BY <1>2, <2>1, Zenon
  <2>3. plain \in [1..Len(part) -> S]
    <3>1. \A i \in 1..Len(part) : plain[i] \in S
      BY <2>2, TextType, Zenon
    <3>2. plain = [i \in 1..Len(part) |-> plain[i]]
      BY <2>1, Zenon
    <3> QED
      BY <3>1, <3>2, Zenon
  <2> HIDE DEF plain
  <2>4. plain \in Seq(S) /\ Len(plain) = Len(part)
    BY <1>1, <2>3, TextOf
  <2>5. plain = part
    BY <2>2, <2>4, SeqEqual
  <2> QED
    BY <2>5 DEF plain
<1>6. TrimEnd(part, {" ", "."}) = part
  BY <1>1, NothingToTrim
<1>7. SafeFilenameComponent(part) = CASE part = <<>>       -> <<"_">>
                                      [] part \in Reserved -> <<"_">> \o part
                                      [] OTHER             -> part
  BY <1>4, <1>5, <1>6 DEF SafeFilenameComponent
<1> QED
  BY <1>1, <1>7

-----------------------------------------------------------------------------
(* The parts of a path *)

Slashes(s) == {i \in DOMAIN s : s[i] = "/"}
Upto(s, i) == {j \in Slashes(s) : j <= i}
Rank(s, i) == Cardinality(Upto(s, i))
\* Where the k-th part ends.
Slash(s, k) == IF k > Cardinality(Slashes(s)) THEN Len(s) + 1
               ELSE Max({0} \cup {i \in Slashes(s) : Rank(s, i) <= k})

LEMMA SplitAtSlashes ==
  ASSUME NEW s
  PROVE  Split(s) = [k \in 1..Cardinality(Slashes(s)) + 1 |->
                       SubSeq(s, Slash(s, k - 1) + 1, Slash(s, k) - 1)]
  BY DEF Split, Slashes, Upto, Rank, Slash

LEMMA SlashesOf ==
  ASSUME NEW S, NEW s \in Seq(S)
  PROVE  /\ \A j \in Slashes(s) : j \in Nat /\ j \in 1..Len(s) /\ s[j] = "/"
         /\ \A j \in 1..Len(s) : s[j] = "/" => j \in Slashes(s)
         /\ IsFiniteSet(Slashes(s)) /\ Cardinality(Slashes(s)) \in Nat
         /\ \A i : IsFiniteSet(Upto(s, i)) /\ Rank(s, i) \in 0..Cardinality(Slashes(s))
<1>1. DOMAIN s = 1..Len(s) /\ Len(s) \in Nat
  BY TextType
<1>2. /\ \A j \in Slashes(s) : j \in Nat /\ j \in 1..Len(s) /\ s[j] = "/"
      /\ \A j \in 1..Len(s) : s[j] = "/" => j \in Slashes(s)
  BY <1>1 DEF Slashes
<1>3. IsFiniteSet(Slashes(s)) /\ Cardinality(Slashes(s)) \in Nat
  <2>1. IsFiniteSet(1..Len(s)) /\ Slashes(s) \subseteq 1..Len(s)
    BY <1>1, <1>2, FS_Interval
  <2>2. IsFiniteSet(Slashes(s))
    BY <2>1, FS_Subset
  <2> QED
    BY <2>2, FS_CardinalityType
<1>4. ASSUME NEW i
      PROVE  IsFiniteSet(Upto(s, i)) /\ Rank(s, i) \in 0..Cardinality(Slashes(s))
  <2>1. Upto(s, i) \subseteq Slashes(s)
    BY DEF Upto
  <2>2. IsFiniteSet(Upto(s, i)) /\ Cardinality(Upto(s, i)) <= Cardinality(Slashes(s))
    BY <1>3, <2>1, FS_Subset
  <2>3. Cardinality(Upto(s, i)) \in Nat
    BY <2>2, FS_CardinalityType
  <2> QED
    BY <1>3, <2>2, <2>3 DEF Rank
<1> QED
  BY <1>2, <1>3, <1>4

\* A later slash has a greater rank,
LEMMA LaterSlash ==
  ASSUME NEW S, NEW s \in Seq(S), NEW i \in Nat, NEW j \in Slashes(s), i < j
  PROVE  Rank(s, j) >= Rank(s, i) + 1
<1>1. /\ \A x \in Slashes(s) : x \in Nat
      /\ \A x : IsFiniteSet(Upto(s, x)) /\ Rank(s, x) \in Nat
  BY SlashesOf
<1>2. Upto(s, i) \cup {j} \subseteq Upto(s, j) /\ j \notin Upto(s, i)
  <2>1. \A x \in Slashes(s) : x <= i => x <= j /\ x # j
    BY <1>1
  <2>2. j \in Nat /\ j <= j /\ ~(j <= i)
    BY <1>1
  <2> QED
    BY <2>1, <2>2 DEF Upto
<1>3. Cardinality(Upto(s, i) \cup {j}) = Rank(s, i) + 1
  BY <1>1, <1>2, FS_AddElement DEF Rank
<1>4. Cardinality(Upto(s, i) \cup {j}) <= Rank(s, j)
  BY <1>1, <1>2, FS_Subset DEF Rank
<1> QED
  BY <1>3, <1>4

\* and the next one the next rank.
LEMMA NextSlash ==
  ASSUME NEW S, NEW s \in Seq(S), NEW i \in Nat, Rank(s, i) < Cardinality(Slashes(s))
  PROVE  \E j \in Slashes(s) : i < j /\ Rank(s, j) = Rank(s, i) + 1
<1> DEFINE later == {j \in Slashes(s) : i < j}
           next  == Min(later)
<1>1. /\ \A j \in Slashes(s) : j \in Nat
      /\ \A x : IsFiniteSet(Upto(s, x)) /\ Rank(s, x) \in Nat
      /\ Cardinality(Slashes(s)) \in Nat
  BY SlashesOf
<1>2. later # {}
  <2>1. SUFFICES ASSUME later = {} PROVE Slashes(s) = Upto(s, i)
    BY <1>1 DEF Rank
  <2>2. \A j \in Slashes(s) : j <= i
    BY <1>1, <2>1
  <2> QED
    BY <2>2 DEF Upto
<1>3. \A j \in later : j \in Nat /\ j \in Slashes(s) /\ i < j
  BY <1>1
<1>4. next \in later /\ \A j \in later : next <= j
  <2> HIDE DEF later
  <2>1. later \subseteq Nat
    BY <1>3
  <2> QED
    BY <1>2, <2>1, MinIndex
<1>5. next \in Slashes(s) /\ next \in Nat /\ i < next
  BY <1>3, <1>4
<1>6. Upto(s, next) = Upto(s, i) \cup {next}
  <2>1. ASSUME NEW j \in Slashes(s), ~(j <= i) PROVE next <= j
    <3>1. j \in later
      BY <1>1, <2>1
    <3> QED
      BY <1>4, <3>1
  <2> HIDE DEF next
  <2>2. \A j \in Slashes(s) : j <= next <=> j <= i \/ j = next
    BY <1>1, <1>5, <2>1
  <2> QED
    BY <1>5, <2>2 DEF Upto
<1>7. Rank(s, next) = Rank(s, i) + 1
  <2>1. next \notin Upto(s, i)
    BY <1>5 DEF Upto
  <2> QED
    BY <1>1, <1>6, <2>1, FS_AddElement DEF Rank
<1> QED
  BY <1>5, <1>7

\* Slash(s, k) is the last slash whose rank is at most k.
LEMMA LastSlash ==
  ASSUME NEW S, NEW s \in Seq(S), NEW k \in 0..Cardinality(Slashes(s))
  PROVE  /\ Slash(s, k) \in 0..Len(s)
         /\ Rank(s, Slash(s, k)) <= k
         /\ Slash(s, k) = 0 \/ Slash(s, k) \in Slashes(s)
         /\ \A j \in Slashes(s) : Rank(s, j) <= k => j <= Slash(s, k)
<1> DEFINE I == {0} \cup {i \in Slashes(s) : Rank(s, i) <= k}
<1>1. /\ \A j \in Slashes(s) : j \in Nat /\ j \in 1..Len(s)
      /\ Cardinality(Slashes(s)) \in Nat /\ Len(s) \in Nat
  BY SlashesOf, TextType
<1>2. Slash(s, k) = Max(I)
  BY <1>1 DEF Slash
<1>3. /\ \A j \in I : j = 0 \/ (j \in Slashes(s) /\ Rank(s, j) <= k)
      /\ \A j \in Slashes(s) : Rank(s, j) <= k => j \in I
      /\ 0 \in I
  OBVIOUS
<1> HIDE DEF I
<1>4. I \subseteq 0..Len(s)
  BY <1>1, <1>3
<1>5. Max(I) \in I /\ \A i \in I : Max(I) >= i
  BY <1>1, <1>3, <1>4, MaxIndex
<1>6. Rank(s, 0) = 0
  <2>1. Upto(s, 0) = {}
    BY <1>1 DEF Upto
  <2> QED
    BY <2>1, FS_EmptySet DEF Rank
<1>7. Slash(s, k) \in 0..Len(s)
  BY <1>2, <1>4, <1>5
<1>8. Rank(s, Slash(s, k)) <= k /\ (Slash(s, k) = 0 \/ Slash(s, k) \in Slashes(s))
  <2>1. CASE Max(I) = 0
    BY <1>1, <1>2, <1>6, <2>1
  <2>2. CASE Max(I) \in Slashes(s) /\ Rank(s, Max(I)) <= k
    BY <1>2, <2>2
  <2> QED
    BY <1>3, <1>5, <2>1, <2>2
<1>9. ASSUME NEW j \in Slashes(s), Rank(s, j) <= k PROVE j <= Slash(s, k)
  <2>1. j \in Nat /\ Max(I) >= j
    BY <1>1, <1>3, <1>5, <1>9
  <2> QED
    BY <1>2, <1>7, <2>1
<1> QED
  BY <1>7, <1>8, <1>9

\* The ends of the parts: they follow each other, and are the slashes.
LEMMA SlashPositions ==
  ASSUME NEW S, NEW s \in Seq(S), NEW n, n = Cardinality(Slashes(s))
  PROVE  /\ n \in Nat /\ Slash(s, 0) = 0 /\ Slash(s, n + 1) = Len(s) + 1
         /\ \A k \in 0..n : Slash(s, k) \in 0..Len(s) /\ Slash(s, k) < Slash(s, k + 1)
         /\ \A k \in 1..n : s[Slash(s, k)] = "/"
         /\ \A i \in 1..Len(s) : s[i] = "/" => \E k \in 1..n : i = Slash(s, k)
<1>1. /\ n \in Nat /\ Len(s) \in Nat
      /\ \A j \in Slashes(s) : j \in Nat /\ j \in 1..Len(s) /\ s[j] = "/"
      /\ \A j \in 1..Len(s) : s[j] = "/" => j \in Slashes(s)
      /\ \A i : Rank(s, i) \in 0..n
  BY SlashesOf, TextType
<1>2. \A k \in 0..n : /\ Slash(s, k) \in 0..Len(s) /\ Rank(s, Slash(s, k)) <= k
                      /\ Slash(s, k) = 0 \/ Slash(s, k) \in Slashes(s)
                      /\ \A j \in Slashes(s) : Rank(s, j) <= k => j <= Slash(s, k)
  BY LastSlash
<1>3. \A i \in Nat, j \in Slashes(s) : i < j => Rank(s, j) >= Rank(s, i) + 1
  BY LaterSlash
<1>4. Slash(s, n + 1) = Len(s) + 1
  <2>1. n + 1 > n
    BY <1>1
  <2> QED
    BY <2>1 DEF Slash
<1>5. Slash(s, 0) = 0
  <2>1. SUFFICES ASSUME Slash(s, 0) \in Slashes(s) PROVE FALSE
    BY <1>1, <1>2
  <2>2. PICK m \in Slashes(s) : m = Slash(s, 0)
    BY <2>1
  <2>3. Rank(s, m) <= 0 /\ Rank(s, m) \in Nat /\ Rank(s, 0) \in Nat
    BY <1>1, <1>2, <2>2
  <2>4. Rank(s, m) >= Rank(s, 0) + 1
    BY <1>1, <1>3
  <2> QED
    BY <2>3, <2>4
<1>6. ASSUME NEW k \in 0..n PROVE Slash(s, k) < Slash(s, k + 1)
  <2>1. PICK m \in 0..Len(s) : m = Slash(s, k)
    BY <1>2
  <2>2. m \in Nat /\ Rank(s, m) <= k /\ Rank(s, m) \in Nat
    BY <1>1, <1>2, <2>1
  <2>3. CASE k = n
    BY <1>1, <1>4, <2>1, <2>3
  <2>4. CASE k # n
    <3>1. k \in 0..n - 1 /\ k + 1 \in 0..n /\ Rank(s, m) < n
      BY <1>1, <2>2, <2>4
    <3>2. PICK j \in Slashes(s) : m < j /\ Rank(s, j) = Rank(s, m) + 1
      BY <2>2, <3>1, NextSlash
    <3>3. Rank(s, j) <= k + 1
      BY <2>2, <3>1, <3>2
    <3>4. j <= Slash(s, k + 1) /\ Slash(s, k + 1) \in 0..Len(s)
      BY <1>2, <3>1, <3>3
    <3>5. j \in Nat
      BY <1>1
    <3> QED
      BY <1>1, <2>1, <2>2, <3>2, <3>4, <3>5
  <2> QED
    BY <2>3, <2>4
<1>7. ASSUME NEW k \in 1..n PROVE s[Slash(s, k)] = "/"
  <2>1. k - 1 \in 0..n /\ k \in 0..n /\ (k - 1) + 1 = k
    BY <1>1
  <2>2. Slash(s, k - 1) < Slash(s, k) /\ Slash(s, k - 1) \in 0..Len(s) /\ Slash(s, k) \in 0..Len(s)
    BY <1>2, <1>6, <2>1
  <2>3. Slash(s, k) # 0
    BY <1>1, <2>2
  <2> QED
    BY <1>1, <1>2, <2>1, <2>3
<1>8. ASSUME NEW i \in 1..Len(s), s[i] = "/" PROVE \E k \in 1..n : i = Slash(s, k)
  <2>1. i \in Slashes(s) /\ i \in Nat /\ 0 < i
    BY <1>1, <1>8
  <2>2. PICK k \in 0..n : k = Rank(s, i)
    BY <1>1
  <2>3. k \in 1..n
    <3>1. Rank(s, i) >= Rank(s, 0) + 1 /\ Rank(s, 0) \in 0..n
      BY <1>1, <1>3, <2>1
    <3> QED
      BY <1>1, <2>2, <3>1
  <2>4. PICK m \in 0..Len(s) : m = Slash(s, k)
    BY <1>2
  <2>5. i <= m
    <3>1. k <= k
      BY <1>1
    <3> QED
      BY <1>2, <2>1, <2>2, <2>4, <3>1
  <2>6. m \in Slashes(s) /\ Rank(s, m) <= k /\ Rank(s, m) \in 0..n
    BY <1>1, <1>2, <2>1, <2>4, <2>5
  <2>7. ~(i < m)
    <3>1. i < m => Rank(s, m) >= k + 1
      BY <1>3, <2>1, <2>2, <2>6
    <3> QED
      BY <1>1, <2>2, <2>6, <3>1
  <2>8. i = m
    BY <1>1, <2>1, <2>5, <2>7
  <2> QED
    BY <2>3, <2>4, <2>8
<1> QED
  BY <1>1, <1>2, <1>4, <1>5, <1>6, <1>7, <1>8

\* Any other character lies between two of them.
LEMMA BetweenSlashes ==
  ASSUME NEW S, NEW s \in Seq(S), NEW i \in 1..Len(s), s[i] # "/"
  PROVE  \E k \in 1..Cardinality(Slashes(s)) + 1 : Slash(s, k - 1) < i /\ i < Slash(s, k)
<1> DEFINE n == Cardinality(Slashes(s))
<1>1. /\ n \in Nat /\ Len(s) \in Nat /\ i \in Nat /\ 0 < i
      /\ \A j \in Slashes(s) : j \in Nat /\ s[j] = "/"
      /\ \A x : Rank(s, x) \in 0..n
  BY SlashesOf, TextType
<1>2. PICK r \in 0..n : r = Rank(s, i)
  BY <1>1
<1> HIDE DEF n
<1>3. \A k \in 0..n : /\ Slash(s, k) \in 0..Len(s) /\ Rank(s, Slash(s, k)) <= k
                      /\ Slash(s, k) = 0 \/ Slash(s, k) \in Slashes(s)
                      /\ \A j \in Slashes(s) : Rank(s, j) <= k => j <= Slash(s, k)
  BY LastSlash DEF n
<1>4. Slash(s, r) < i
  <2>1. PICK m \in 0..Len(s) : m = Slash(s, r)
    BY <1>3
  <2>2. CASE m = 0
    BY <1>1, <2>1, <2>2
  <2>3. CASE m \in Slashes(s)
    <3>1. Rank(s, m) <= r /\ Rank(s, m) \in 0..n
      BY <1>1, <1>3, <2>1
    <3>2. i < m => Rank(s, m) >= r + 1
      BY <1>1, <1>2, <2>3, LaterSlash
    <3>3. m # i
      BY <1>1, <2>3
    <3> QED
      BY <1>1, <2>1, <3>1, <3>2, <3>3
  <2> QED
    BY <1>3, <2>1, <2>2, <2>3
<1>5. i < Slash(s, r + 1)
  <2>1. CASE r = n
    <3>1. Slash(s, n + 1) = Len(s) + 1
      BY SlashPositions DEF n
    <3> QED
      BY <1>1, <2>1, <3>1
  <2>2. CASE r # n
    <3>1. r < n /\ r + 1 \in 0..n /\ r + 1 <= r + 1
      BY <1>1, <2>2
    <3>2. PICK j \in Slashes(s) : i < j /\ Rank(s, j) = r + 1
      BY <1>1, <1>2, <3>1, NextSlash DEF n
    <3>3. j <= Slash(s, r + 1) /\ Slash(s, r + 1) \in 0..Len(s) /\ j \in Nat
      BY <1>1, <1>3, <3>1, <3>2
    <3> QED
      BY <1>1, <3>2, <3>3
  <2> QED
    BY <2>1, <2>2
<1>6. r + 1 \in 1..n + 1 /\ (r + 1) - 1 = r
  BY <1>1
<1> QED
  BY <1>4, <1>5, <1>6 DEF n

\* The k-th part is what lies between two ends.
LEMMA PartBetween ==
  ASSUME NEW S, NEW s \in Seq(S), NEW k \in 1..Cardinality(Slashes(s)) + 1
  PROVE  LET a == Slash(s, k - 1)
             b == Slash(s, k)
         IN  /\ a \in 0..Len(s) /\ b \in 1..Len(s) + 1 /\ a < b
             /\ k \in DOMAIN Split(s) /\ Split(s)[k] \in Seq(S)
             /\ Len(Split(s)[k]) = b - 1 - a
             /\ \A x \in 1..b - 1 - a : Split(s)[k][x] = s[a + x]
<1> DEFINE n == Cardinality(Slashes(s))
<1>1. /\ n \in Nat /\ Slash(s, n + 1) = Len(s) + 1
      /\ \A j \in 0..n : Slash(s, j) \in 0..Len(s) /\ Slash(s, j) < Slash(s, j + 1)
  BY SlashPositions
<1>2. k \in DOMAIN Split(s) /\ Split(s)[k] = SubSeq(s, Slash(s, k - 1) + 1, Slash(s, k) - 1)
  BY SplitAtSlashes
<1> HIDE DEF n
<1>3. Len(s) \in Nat /\ k \in 1..n + 1
  BY TextType DEF n
<1>4. PICK a \in 0..Len(s) : a = Slash(s, k - 1) /\ a < Slash(s, k)
  <2>1. k - 1 \in 0..n /\ (k - 1) + 1 = k
    BY <1>1, <1>3
  <2> QED
    BY <1>1, <2>1
<1>5. PICK b \in 0..Len(s) + 1 : b = Slash(s, k)
  <2>1. k \in 0..n \/ k = n + 1
    BY <1>1, <1>3
  <2>2. CASE k \in 0..n
    BY <1>1, <1>3, <2>2
  <2>3. CASE k = n + 1
    BY <1>1, <1>3, <2>3
  <2> QED
    BY <2>1, <2>2, <2>3
<1>6. a < b /\ b \in 1..Len(s) + 1
  BY <1>3, <1>4, <1>5
<1>7. /\ SubSeq(s, a + 1, b - 1) \in Seq(S) /\ Len(SubSeq(s, a + 1, b - 1)) = b - 1 - a
      /\ \A x \in 1..b - 1 - a : SubSeq(s, a + 1, b - 1)[x] = s[a + x]
  BY <1>3, <1>6
<1> QED
  BY <1>2, <1>4, <1>5, <1>6, <1>7

\* A character that is no slash stands in one of the parts.
LEMMA CharactersOfParts ==
  ASSUME NEW S, NEW s \in Seq(S), NEW i \in 1..Len(s), s[i] # "/"
  PROVE  \E k \in DOMAIN Split(s) : s[i] \in ToSet(Split(s)[k])
<1>1. PICK k \in 1..Cardinality(Slashes(s)) + 1 : Slash(s, k - 1) < i /\ i < Slash(s, k)
  BY BetweenSlashes
<1>2. PICK a \in 0..Len(s), b \in 1..Len(s) + 1 :
        /\ a = Slash(s, k - 1) /\ b = Slash(s, k)
        /\ k \in DOMAIN Split(s)
        /\ Split(s)[k] \in Seq(S) /\ Len(Split(s)[k]) = b - 1 - a
        /\ \A x \in 1..b - 1 - a : Split(s)[k][x] = s[a + x]
  BY <1>1, PartBetween
<1>3. i - a \in 1..b - 1 - a /\ a + (i - a) = i
  BY <1>1, <1>2, TextType
<1>4. s[i] = Split(s)[k][i - a]
  BY <1>2, <1>3
<1>5. ToSet(Split(s)[k]) = {Split(s)[k][x] : x \in 1..b - 1 - a}
  BY <1>2, ToSetOf
<1> QED
  BY <1>2, <1>3, <1>4, <1>5

\* Splitting loses nothing: two texts with the same parts are the same.
LEMMA SplitIsInjective ==
  ASSUME NEW S, NEW s \in Seq(S), NEW t \in Seq(S), Split(s) = Split(t)
  PROVE  s = t
<1>1. PICK n \in Nat : n = Cardinality(Slashes(s)) /\ n = Cardinality(Slashes(t))
  <2>1. PICK n \in Nat, m \in Nat : n = Cardinality(Slashes(s)) /\ m = Cardinality(Slashes(t))
    BY SlashesOf
  <2>2. DOMAIN Split(s) = 1..n + 1 /\ DOMAIN Split(t) = 1..m + 1
    BY <2>1, SplitAtSlashes, Zenon
  <2>3. 1..n + 1 = 1..m + 1
    BY <2>2
  <2>4. n + 1 \in 1..n + 1 /\ m + 1 \in 1..m + 1
    BY <2>1
  <2>5. n + 1 \in 1..m + 1 /\ m + 1 \in 1..n + 1
    BY <2>3, <2>4
  <2>6. n = m
    BY <2>1, <2>5
  <2> QED
    BY <2>1, <2>6
<1>2. /\ Slash(s, 0) = 0 /\ Slash(s, n + 1) = Len(s) + 1
      /\ \A i \in 1..Len(s) : s[i] = "/" => \E k \in 1..n : i = Slash(s, k)
  BY <1>1, SlashPositions
<1>3. /\ Slash(t, 0) = 0 /\ Slash(t, n + 1) = Len(t) + 1
      /\ \A k \in 1..n : t[Slash(t, k)] = "/"
  BY <1>1, SlashPositions
<1>4. \A k \in 1..n + 1 : \E a \in 0..Len(s), b \in 1..Len(s) + 1 :
        /\ a = Slash(s, k - 1) /\ b = Slash(s, k)
        /\ Len(Split(s)[k]) = b - 1 - a
        /\ \A x \in 1..b - 1 - a : Split(s)[k][x] = s[a + x]
  <2> TAKE k \in 1..n + 1
  <2> DEFINE a == Slash(s, k - 1)
             b == Slash(s, k)
  <2>1. k \in 1..Cardinality(Slashes(s)) + 1
    BY <1>1
  <2>2. /\ a \in 0..Len(s) /\ b \in 1..Len(s) + 1
        /\ Len(Split(s)[k]) = b - 1 - a
        /\ \A x \in 1..b - 1 - a : Split(s)[k][x] = s[a + x]
    BY <2>1, PartBetween, Zenon
  <2> QED
    BY <2>2, Zenon
<1>5. \A k \in 1..n + 1 : \E a \in 0..Len(t), b \in 1..Len(t) + 1 :
        /\ a = Slash(t, k - 1) /\ b = Slash(t, k)
        /\ Len(Split(s)[k]) = b - 1 - a
        /\ \A x \in 1..b - 1 - a : Split(s)[k][x] = t[a + x]
  <2> TAKE k \in 1..n + 1
  <2> DEFINE a == Slash(t, k - 1)
             b == Slash(t, k)
  <2>1. k \in 1..Cardinality(Slashes(t)) + 1
    BY <1>1
  <2>2. /\ a \in 0..Len(t) /\ b \in 1..Len(t) + 1
        /\ Len(Split(t)[k]) = b - 1 - a
        /\ \A x \in 1..b - 1 - a : Split(t)[k][x] = t[a + x]
    BY <2>1, PartBetween, Zenon
  <2> QED
    BY <2>2, Zenon
\* The parts end at the same places: the first that did not would have another length.
<1>6. \A k \in 0..n + 1 : Slash(s, k) = Slash(t, k)
  <2> DEFINE B == {k \in 0..n + 1 : Slash(s, k) # Slash(t, k)}
  <2>1. SUFFICES ASSUME B # {} PROVE FALSE
    OBVIOUS
  <2>2. PICK m \in B : \A k \in B : m <= k
    <3>1. B \subseteq Nat
      BY <1>1
    <3> HIDE DEF B
    <3> QED
      BY <2>1, <3>1, MinIndex
  <2>3. m \in 1..n + 1 /\ Slash(s, m) # Slash(t, m)
    BY <1>1, <1>2, <1>3, <2>2
  <2>4. Slash(s, m - 1) = Slash(t, m - 1)
    <3>1. m - 1 \in 0..n + 1 /\ ~(m <= m - 1)
      BY <1>1, <2>3
    <3>2. m - 1 \notin B
      BY <2>2, <3>1
    <3> QED
      BY <3>1, <3>2
  <2> HIDE DEF B
  <2>5. PICK a \in 0..Len(s), b \in 1..Len(s) + 1 :
          a = Slash(s, m - 1) /\ b = Slash(s, m) /\ Len(Split(s)[m]) = b - 1 - a
    BY <1>4, <2>3, Zenon
  <2>6. PICK c \in 0..Len(t), d \in 1..Len(t) + 1 :
          c = Slash(t, m - 1) /\ d = Slash(t, m) /\ Len(Split(s)[m]) = d - 1 - c
    BY <1>5, <2>3, Zenon
  <2>7. Len(s) \in Nat /\ Len(t) \in Nat
    BY TextType
  <2>8. a \in Nat /\ b \in Nat /\ c \in Nat /\ d \in Nat
    BY <2>7
  <2>9. a = c /\ b # d
    BY <2>3, <2>4, <2>5, <2>6, Zenon
  <2>10. b - 1 - a = d - 1 - c
    BY <2>5, <2>6, Zenon
  <2> QED
    BY <2>8, <2>9, <2>10
<1>7. Len(s) = Len(t)
  <2>1. n + 1 \in 0..n + 1 /\ Len(s) \in Nat /\ Len(t) \in Nat
    BY <1>1, TextType
  <2> QED
    BY <1>2, <1>3, <1>6, <2>1
<1>8. ASSUME NEW i \in 1..Len(s) PROVE s[i] = t[i]
  <2>1. CASE s[i] = "/"
    <3>1. PICK k \in 1..n : i = Slash(s, k)
      BY <1>2, <2>1
    <3>2. i = Slash(t, k)
      BY <1>1, <1>6, <3>1
    <3> QED
      BY <1>3, <2>1, <3>2
  <2>2. CASE s[i] # "/"
    <3>1. PICK k \in 1..n + 1 : Slash(s, k - 1) < i /\ i < Slash(s, k)
      BY <1>1, <2>2, BetweenSlashes
    <3>2. PICK a \in 0..Len(s), b \in 1..Len(s) + 1 :
            /\ a = Slash(s, k - 1) /\ b = Slash(s, k)
            /\ \A x \in 1..b - 1 - a : Split(s)[k][x] = s[a + x]
      BY <1>4, <3>1, Zenon
    <3>3. PICK c \in 0..Len(t), d \in 1..Len(t) + 1 :
            /\ c = Slash(t, k - 1) /\ d = Slash(t, k)
            /\ \A x \in 1..d - 1 - c : Split(s)[k][x] = t[c + x]
      BY <1>5, <3>1, Zenon
    <3>4. c = a /\ d = b
      <4>1. k - 1 \in 0..n + 1 /\ k \in 0..n + 1
        BY <1>1, <3>1
      <4> QED
        BY <1>6, <3>2, <3>3, <4>1
    <3>5. i - a \in 1..b - 1 - a /\ a + (i - a) = i
      BY <3>1, <3>2, TextType
    <3> QED
      BY <3>2, <3>3, <3>4, <3>5
  <2> QED
    BY <2>1, <2>2
<1> QED
  BY <1>7, <1>8, SeqEqual

-----------------------------------------------------------------------------
(* Paths that need no cleaning *)

\* A path without a backslash below its leading slashes has none at all.
LEMMA NoBackslash ==
  ASSUME NEW S, NEW path \in Seq(S), NEW c,
         \A i \in 1..Len(TrimStart(path, {"/"})) : TrimStart(path, {"/"})[i] # c,
         c # "/"
  PROVE  ReplaceAll(path, c, "/") = path
<1> DEFINE rest == TrimStart(path, {"/"})
           r    == ReplaceAll(path, c, "/")
<1>1. PICK m \in 0..Len(path) :
        /\ \A i \in 1..m : path[i] \in {"/"}
        /\ rest \in Seq(S)
        /\ Len(rest) = Len(path) - m
        /\ \A i \in 1..Len(path) - m : rest[i] = path[m + i]
  BY StartCutOff
<1> HIDE DEF rest
<1>2. Len(path) \in Nat /\ m \in Nat
  BY <1>1, TextType
<1>3. \A i \in 1..Len(path) : path[i] # c
  <2> TAKE i \in 1..Len(path)
  <2>1. CASE i <= m
    BY <1>1, <1>2, <2>1
  <2>2. CASE ~(i <= m)
    <3>1. i - m \in 1..Len(path) - m /\ m + (i - m) = i
      BY <1>2, <2>2
    <3>2. rest[i - m] # c
      BY <1>1, <3>1 DEF rest
    <3> QED
      BY <1>1, <3>1, <3>2
  <2> QED
    BY <2>1, <2>2
<1>4. \A i \in 1..Len(path) : r[i] = path[i]
  BY <1>3 DEF ReplaceAll
<1>5. r \in [1..Len(path) -> S]
  <2>1. r = [i \in 1..Len(path) |-> r[i]]
    BY DEF ReplaceAll
  <2>2. \A i \in 1..Len(path) : r[i] \in S
    BY <1>4, TextType
  <2> HIDE DEF r
  <2> QED
    BY <2>1, <2>2, Zenon
<1> HIDE DEF r
<1>6. r \in Seq(S) /\ Len(r) = Len(path)
  BY <1>2, <1>5, TextOf
<1>7. r = path
  BY <1>4, <1>6, SeqEqual
<1> QED
  BY <1>7 DEF r

\* A path that needs no cleaning below its leading slashes is kept, part by part
\* (safe_relative_path): it is not refused, and every part has its own name.
THEOREM CleanPathIsKept ==
  ASSUME NEW S, NEW path \in Seq(S), NEW parts, parts = Split(TrimStart(path, {"/"})),
         \A k \in DOMAIN parts : CleanName(parts[k])
  PROVE  SafeRelativePath(path) = parts
<1> DEFINE rest == TrimStart(path, {"/"})
<1>1. rest \in Seq(S)
  BY TrimmedStart, Zenon
<1>2. parts = Split(rest)
  OBVIOUS
<1> HIDE DEF rest
<1>3. \A i \in 1..Len(rest) : rest[i] # "\\"
  <2>1. SUFFICES ASSUME NEW i \in 1..Len(rest), rest[i] = "\\" PROVE FALSE
    OBVIOUS
  <2>2. PICK k \in DOMAIN parts : "\\" \in ToSet(parts[k])
    <3>1. "\\" # "/"
      OBVIOUS
    <3>2. \E k \in DOMAIN Split(rest) : rest[i] \in ToSet(Split(rest)[k])
      BY <1>1, <2>1, <3>1, CharactersOfParts, Zenon
    <3> QED
      BY <1>2, <2>1, <3>2, Zenon
  <2>3. ToSet(parts[k]) \cap (Invalid \cup Control) = {}
    BY Zenon DEF CleanName, FileName
  <2> QED
    BY <2>2, <2>3 DEF Invalid
<1>4. ReplaceAll(path, "\\", "/") = path
  <2>1. "\\" # "/"
    OBVIOUS
  <2> QED
    BY <1>3, <2>1, NoBackslash, Zenon DEF rest
<1>5. PICK n \in Nat \ {0} : parts \in [1..n -> Seq(S)]
  <2>1. \E n \in Nat \ {0} : Split(rest) \in [1..n -> Seq(S)]
    BY <1>1, PartsOfPath, Zenon
  <2> QED
    BY <1>2, <2>1, Zenon
<1>6. \A k \in DOMAIN parts : parts[k] \notin {<<>>, <<".">>, <<".", ".">>}
  <2> TAKE k \in DOMAIN parts
  <2>1. parts[k] # <<>> /\ parts[k][Len(parts[k])] # "."
    BY Zenon DEF CleanName, FileName
  <2>2. <<".">>[Len(<<".">>)] = "." /\ <<".", ".">>[Len(<<".", ".">>)] = "."
    OBVIOUS
  <2> QED
    BY <2>1, <2>2
<1>7. SafeRelativePath(path) = [k \in DOMAIN parts |-> SafeFilenameComponent(parts[k])]
  BY <1>2, <1>4, <1>6, Zenon DEF SafeRelativePath, rest
<1>8. \A k \in 1..n : SafeFilenameComponent(parts[k]) = parts[k]
  BY <1>5, CleanNameIsKept
<1> QED
  BY <1>5, <1>7, <1>8

\* Two paths that need no cleaning and become one destination are one path, but
\* for leading slashes: the jobs of such items never share a file.
THEOREM CleanPathsStayApart ==
  ASSUME NEW S, NEW path \in Seq(S), NEW other \in Seq(S),
         NEW parts, parts = Split(TrimStart(path, {"/"})),
         \A k \in DOMAIN parts : CleanName(parts[k]),
         NEW others, others = Split(TrimStart(other, {"/"})),
         \A k \in DOMAIN others : CleanName(others[k]),
         SafeRelativePath(path) = SafeRelativePath(other)
  PROVE  TrimStart(path, {"/"}) = TrimStart(other, {"/"})
<1>1. SafeRelativePath(path) = parts /\ SafeRelativePath(other) = others
  BY CleanPathIsKept, Zenon
<1>2. TrimStart(path, {"/"}) \in Seq(S) /\ TrimStart(other, {"/"}) \in Seq(S)
  BY TrimmedStart, Zenon
<1>3. Split(TrimStart(path, {"/"})) = Split(TrimStart(other, {"/"}))
  BY <1>1, Zenon
<1> QED
  BY <1>2, <1>3, SplitIsInjective, Zenon
=============================================================================
