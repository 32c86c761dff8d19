----------------------- MODULE SequentialWalkerProofs -----------------------
(***************************************************************************)
(* Proofs about the sequential walk, for every tree and every size of page: *)
(* it implements WalkStream, and walks one directory after the other.      *)
(***************************************************************************)
EXTENDS SequentialWalker, FiniteSetTheorems, SequenceTheorems, TLAPS

\* The entries listed in directory d, and those given so far.
Kids(d) == {Content[d][i] : i \in DOMAIN Content[d]}
Given   == {order[i] : i \in DOMAIN order}

\* How many entries of the current directory were given.
Through == current.offset - Len(buffer)

\* The stack, as directories.
Waiting == {pending[k].dir : k \in DOMAIN pending}

-----------------------------------------------------------------------------
(* The invariant *)

\* The buffer holds the entries of the current directory before its offset.
Aligned ==
  /\ Len(buffer) <= current.offset
  /\ \A k \in DOMAIN buffer : buffer[k] = Content[current.dir][Through + k]
  /\ pc = "list" => buffer = <<>> /\ current # Nowhere
  /\ current # Nowhere => current.total \in {Unknown, Len(Content[current.dir])}

\* Every entry is given once, and a directory before what it lists.
Parents ==
  /\ \A i, j \in DOMAIN order : order[i] = order[j] => i = j
  /\ \A i \in DOMAIN order : \E d \in Dirs :
       /\ order[i] \in Kids(d)
       /\ d = Root \/ \E j \in 1..(i - 1) : order[j] = d

\* Of the current directory just the entries before the buffer were given, of
\* one on the stack none; each of them was given itself, and is there once.
UnderWay ==
  current # Nowhere =>
    /\ current.dir = Root \/ current.dir \in Given
    /\ \A i \in DOMAIN Content[current.dir] :
         Content[current.dir][i] \in Given <=> i <= Through
    /\ current.dir \notin Waiting

Stacked ==
  \A k \in DOMAIN pending :
    /\ pending[k] = Fresh(pending[k].dir)
    /\ pending[k].dir = Root \/ pending[k].dir \in Given
    /\ Kids(pending[k].dir) \cap Given = {}

StackedOnce == \A k, l \in DOMAIN pending : pending[k].dir = pending[l].dir => k = l

Untouched == UnderWay /\ Stacked /\ StackedOnce

\* No directory is forgotten: it is on the stack, under way, or through.
Complete ==
  ~partial => \A d \in Dirs : d = Root \/ d \in Given =>
    \/ d \in Waiting
    \/ current # Nowhere /\ d = current.dir
    \/ Kids(d) \subseteq Given

\* e is the last entry of its directory.
AtEnd(e) == \E d \in Dirs : Len(Content[d]) > 0 /\ e = Content[d][Len(Content[d])]

\* What was given last is the entry before the buffer or, before the first one
\* of a directory, the last one of another.
Frontier ==
  IF current # Nowhere /\ Through > 0
  THEN order # <<>> /\ order[Len(order)] = Content[current.dir][Through]
  ELSE order = <<>> \/ partial \/ AtEnd(order[Len(order)])

\* Two entries given one after the other.
Consecutive ==
  \A i \in 1..(Len(order) - 1) : \E d \in Dirs : \E k \in DOMAIN Content[d] :
    /\ order[i + 1] = Content[d][k]
    /\ \/ k > 1 /\ order[i] = Content[d][k - 1]
       \/ k = 1 /\ order[i] \notin Kids(d) /\ (partial \/ AtEnd(order[i]))

IInv == TypeOK /\ Aligned /\ Parents /\ Untouched /\ Complete /\ Frontier /\ Consecutive

-----------------------------------------------------------------------------
(* The tree *)

\* An entry is listed in one place.
LEMMA OnePlace ==
  ASSUME NEW d1 \in Dirs, NEW d2 \in Dirs, NEW i \in DOMAIN Content[d1], NEW j \in DOMAIN Content[d2],
         Content[d1][i] = Content[d2][j]
  PROVE  d1 = d2 /\ i = j
  BY ListedOnce

LEMMA OneParent ==
  ASSUME NEW d1 \in Dirs, NEW d2 \in Dirs, NEW e \in Kids(d1), e \in Kids(d2) PROVE d1 = d2
  BY OnePlace DEF Kids

LEMMA ContentType ==
  ASSUME NEW d \in Dirs
  PROVE  /\ Content[d] \in Seq(Entries) /\ Len(Content[d]) \in Nat
         /\ DOMAIN Content[d] = 1..Len(Content[d])
  BY TreeAssumption

\* A page lists, in order, what follows its offset; it is empty at the end only.
LEMMA PageFacts ==
  ASSUME NEW d \in Dirs, NEW o \in Nat, o <= Len(Content[d])
  PROVE  /\ PageAt(d, o) \in Seq(Entries)
         /\ Len(PageAt(d, o)) \in Nat /\ Len(PageAt(d, o)) <= PageSize
         /\ o + Len(PageAt(d, o)) <= Len(Content[d])
         /\ \A k \in 1..Len(PageAt(d, o)) : PageAt(d, o)[k] = Content[d][o + k]
         /\ PageAt(d, o) = <<>> => o = Len(Content[d])
<1>1. Content[d] \in Seq(Entries) /\ PageSize \in Nat \ {0} /\ Len(Content[d]) \in Nat
  BY TreeAssumption
<1> DEFINE n == IF o + PageSize < Len(Content[d]) THEN o + PageSize ELSE Len(Content[d])
           page == SubSeq(Content[d], o + 1, n)
<1>2. n \in Nat /\ o <= n /\ n <= Len(Content[d]) /\ n - o <= PageSize
      /\ (n = o => o = Len(Content[d]))
  BY <1>1
<1> HIDE DEF n
<1>3. page \in Seq(Entries) /\ Len(page) = n - o
  BY <1>1, <1>2
<1>4. \A k \in 1..Len(page) : page[k] = Content[d][o + k]
  BY <1>1, <1>2
<1>5. page = PageAt(d, o)
  BY DEF PageAt, n
<1> HIDE DEF page
<1>6. page = <<>> => Len(page) = 0
  BY EmptySeq
<1>7. page = <<>> => o = Len(Content[d])
  BY <1>2, <1>3, <1>6
<1> QED
  BY <1>2, <1>3, <1>4, <1>5, <1>7

-----------------------------------------------------------------------------
(* The steps *)

LEMMA InitIInv == ASSUME Init PROVE IInv
<1> USE TreeAssumption DEF Init
<1>1. TypeOK
  <2>1. Fresh(Root) \in Directory
    BY DEF Fresh, Directory
  <2>2. pending \in Seq(Directory)
    BY <2>1
  <2>3. current.offset <= Len(Content[current.dir])
    BY ContentType DEF Nowhere
  <2>4. buffer \in Seq(Entries) /\ Len(buffer) <= PageSize /\ order \in Seq(Entries)
    BY EmptySeq
  <2> QED
    BY <2>2, <2>3, <2>4 DEF TypeOK
<1>2. Aligned
  BY DEF Aligned, Nowhere
<1>3. Parents
  BY DEF Parents
<1>4. Untouched
  BY DEF Untouched, UnderWay, Stacked, StackedOnce, Fresh, Given, Kids
<1>5. Complete
  BY DEF Complete, Waiting, Given, Fresh
<1>6. Frontier /\ Consecutive
  BY DEF Frontier, Consecutive
<1> QED
  BY <1>1, <1>2, <1>3, <1>4, <1>5, <1>6 DEF IInv

\* What was given stays in its order.
LEMMA Monotone ==
  ASSUME Consecutive, UNCHANGED order, ~partial' => ~partial PROVE Consecutive'
<1> SUFFICES ASSUME NEW i \in 1..(Len(order) - 1)
             PROVE  \E d \in Dirs : \E k \in DOMAIN Content[d] :
                      /\ order[i + 1] = Content[d][k]
                      /\ \/ k > 1 /\ order[i] = Content[d][k - 1]
                         \/ k = 1 /\ order[i] \notin Kids(d) /\ (partial' \/ AtEnd(order[i]))
  BY ZenonT(60) DEF Consecutive, Kids, AtEnd
<1>1. PICK d \in Dirs : \E k \in DOMAIN Content[d] :
        /\ order[i + 1] = Content[d][k]
        /\ \/ k > 1 /\ order[i] = Content[d][k - 1]
           \/ k = 1 /\ order[i] \notin Kids(d) /\ (partial \/ AtEnd(order[i]))
  BY DEF Consecutive
<1>2. PICK k \in DOMAIN Content[d] :
        /\ order[i + 1] = Content[d][k]
        /\ \/ k > 1 /\ order[i] = Content[d][k - 1]
           \/ k = 1 /\ order[i] \notin Kids(d) /\ (partial \/ AtEnd(order[i]))
  BY <1>1, Zenon
<1> QED
  BY <1>2, Zenon

\* A step that moves nothing.
LEMMA QuietKeeps ==
  ASSUME IInv, UNCHANGED <<walk, order, partial>>, cancelled' \in BOOLEAN,
         pc' \in {"loop", "list", "ended", "dropped"},
         pc' = "list" => buffer = <<>> /\ current # Nowhere
  PROVE  IInv'
<1> USE DEF IInv, walk
<1>1. TypeOK'
  BY DEF TypeOK
<1>2. Aligned'
  BY DEF Aligned, Through
<1>3. Parents' /\ Consecutive'
  BY DEF Parents, Consecutive, Kids, AtEnd
<1>4. Through' = Through /\ Given' = Given /\ Waiting' = Waiting
  BY DEF Through, Given, Waiting
<1>5. Untouched'
  BY <1>4 DEF Untouched, UnderWay, Stacked, StackedOnce, Kids
<1>6. Complete'
  BY <1>4 DEF Complete, Kids
<1>7. Frontier'
  BY <1>4 DEF Frontier, AtEnd
<1> QED
  BY <1>1, <1>2, <1>3, <1>5, <1>6, <1>7

\* The current directory is left: all its entries were given, or a page is given up.
LEMMA LeavingKeeps ==
  ASSUME IInv, buffer = <<>>, current # Nowhere, current' = Nowhere, pc' = "loop",
         UNCHANGED <<pending, buffer, order, cancelled>>,
         \/ partial' = partial /\ current.offset = Len(Content[current.dir])
         \/ partial' = TRUE
  PROVE  IInv'
<1> USE DEF IInv
<1>1. /\ current.dir \in Dirs /\ current.offset \in Nat /\ Through = current.offset
      /\ partial' \in BOOLEAN /\ (~partial' => ~partial)
      /\ Nowhere.dir = Root /\ Nowhere.offset = 0 /\ Root \in Dirs
  <2>1. current.dir \in Dirs /\ current.offset \in Nat
    BY DEF TypeOK, Directory
  <2>2. Through = current.offset
    BY <2>1, EmptySeq DEF Through
  <2>3. Nowhere.dir = Root /\ Nowhere.offset = 0 /\ Root \in Dirs
    BY TreeAssumption DEF Nowhere
  <2> QED
    BY <2>1, <2>2, <2>3 DEF TypeOK
<1>2. TypeOK'
  BY <1>1, ContentType DEF TypeOK, Nowhere
<1>3. Aligned'
  BY <1>1 DEF Aligned
<1>4. Parents'
  BY DEF Parents, Kids
<1>5. Consecutive'
  BY <1>1, Monotone
<1>6. Untouched'
  BY DEF Untouched, UnderWay, Stacked, StackedOnce, Given, Waiting, Kids
<1>7. Complete'
  <2>1. ~partial' => Kids(current.dir) \subseteq Given
    <3>1. SUFFICES ASSUME ~partial' PROVE \A i \in DOMAIN Content[current.dir] : Content[current.dir][i] \in Given
      BY DEF Kids
    <3>2. current.offset = Len(Content[current.dir])
      BY <3>1
    <3> QED
      BY <1>1, <3>2, ContentType DEF Untouched, UnderWay, Stacked, StackedOnce
  <2> QED
    BY <1>1, <2>1 DEF Complete, Given, Waiting, Kids
<1>8. Frontier'
  <2>1. SUFFICES ASSUME order # <<>>, ~partial' PROVE AtEnd(order[Len(order)])
    BY DEF Frontier, AtEnd
  <2>2. CASE current.offset > 0
    BY <1>1, <2>1, <2>2 DEF Frontier, AtEnd
  <2>3. CASE ~(current.offset > 0)
    BY <1>1, <2>1, <2>3 DEF Frontier
  <2> QED
    BY <2>2, <2>3
<1> QED
  BY <1>2, <1>3, <1>4, <1>5, <1>6, <1>7, <1>8

\* A page is read into the buffer.
LEMMA FillingKeeps ==
  ASSUME IInv, pc = "list", Listed, PageAt(current.dir, current.offset) # <<>>, pc' = "loop",
         UNCHANGED <<pending, order, cancelled>>
  PROVE  IInv'
<1> USE DEF IInv
<1> DEFINE d == current.dir
           page == PageAt(d, current.offset)
<1>1. /\ current \in Directory /\ d \in Dirs /\ current.offset \in Nat
      /\ current.offset <= Len(Content[d]) /\ buffer = <<>> /\ current # Nowhere
      /\ current.total \in {Unknown, Len(Content[d])}
  BY DEF TypeOK, Aligned, Directory
<1>2. /\ page \in Seq(Entries) /\ Len(page) <= PageSize /\ Len(page) \in Nat
      /\ current.offset + Len(page) <= Len(Content[d])
      /\ \A k \in 1..Len(page) : page[k] = Content[d][current.offset + k]
  BY <1>1, PageFacts
<1>3. buffer' = page /\ partial' = partial
  BY DEF Listed
<1>4. PICK t \in {Unknown, Len(Content[d])} :
        current' = [dir |-> d, offset |-> current.offset + Len(page), total |-> t]
  BY <1>1 DEF Listed, Directory
<1> HIDE DEF page
<1>5. /\ current'.dir = d /\ current'.offset = current.offset + Len(page)
      /\ current'.total = t /\ current' \in Directory /\ current' # Nowhere
  BY <1>1, <1>2, <1>4, ContentType DEF Directory, Nowhere, Unknown
<1>6. Through = current.offset /\ Through' = current.offset
  BY <1>1, <1>2, <1>3, <1>5, EmptySeq DEF Through
<1>7. Given' = Given /\ Waiting' = Waiting
  BY DEF Given, Waiting
<1>8. TypeOK'
  BY <1>1, <1>2, <1>3, <1>5 DEF TypeOK
<1>9. Aligned'
  <2>1. Len(buffer') <= current'.offset
    BY <1>1, <1>2, <1>3, <1>5
  <2>2. \A k \in DOMAIN buffer' : buffer'[k] = Content[d][current.offset + k]
    BY <1>2, <1>3
  <2> QED
    BY <1>4, <1>5, <1>6, <2>1, <2>2 DEF Aligned
<1>10. Parents'
  BY DEF Parents, Kids
<1>11. Untouched'
  BY <1>1, <1>5, <1>6, <1>7 DEF Untouched, UnderWay, Stacked, StackedOnce, Kids
<1>12. Complete'
  BY <1>1, <1>3, <1>5, <1>7 DEF Complete, Kids
<1>13. Frontier'
  BY <1>1, <1>3, <1>5, <1>6 DEF Frontier, AtEnd
<1>14. Consecutive'
  BY <1>3, Monotone
<1> QED
  BY <1>8, <1>9, <1>10, <1>11, <1>12, <1>13, <1>14

\* The directory on top of the stack is entered.
LEMMA EnteringKeeps ==
  ASSUME IInv, buffer = <<>>, current = Nowhere, pending # <<>>, pc' = "list",
         current' = Last(pending), pending' = Front(pending),
         UNCHANGED <<buffer, order, cancelled, partial>>
  PROVE  IInv'
<1> USE DEF IInv
<1> DEFINE n == Len(pending)
           d == pending[n].dir
<1>1. pending \in Seq(Directory) /\ n \in Nat \ {0} /\ n \in DOMAIN pending
  BY EmptySeq DEF TypeOK
<1>2. current' = Fresh(d) /\ pending[n] \in Directory /\ d \in Dirs
  <2>1. current' = pending[n]
    BY DEF Last
  <2>2. pending[n] = Fresh(pending[n].dir)
    BY <1>1 DEF Untouched, UnderWay, Stacked, StackedOnce
  <2>3. pending[n] \in Directory
    BY <1>1
  <2> QED
    BY <2>1, <2>2, <2>3 DEF Directory
<1>3. /\ pending' \in Seq(Directory) /\ DOMAIN pending' = 1..(n - 1)
      /\ \A k \in 1..(n - 1) : pending'[k] = pending[k]
  BY <1>1 DEF Front
<1>4. /\ current'.dir = d /\ current'.offset = 0 /\ current'.total = Unknown
      /\ current' # Nowhere /\ current' \in Directory
  BY <1>2 DEF Fresh, Nowhere, Directory, Unknown
<1>5. Through' = 0 /\ Given' = Given
  <2>1. Len(buffer') = 0
    BY EmptySeq
  <2>2. Through' = current'.offset - Len(buffer')
    BY DEF Through
  <2>3. Given' = Given
    BY DEF Given
  <2> QED
    BY <1>4, <2>1, <2>2, <2>3
<1>6. d \notin Waiting' /\ Waiting = Waiting' \cup {d}
  <2>1. \A k \in 1..(n - 1) : pending[k].dir # d
    BY <1>1 DEF Untouched, UnderWay, Stacked, StackedOnce
  <2>2. Waiting' = {pending[k].dir : k \in 1..(n - 1)}
    BY <1>3 DEF Waiting
  <2>3. Waiting = {pending[k].dir : k \in 1..n}
    BY <1>1 DEF Waiting
  <2>4. 1..n = 1..(n - 1) \cup {n}
    BY <1>1
  <2> HIDE DEF n, d
  <2> QED
    BY <2>1, <2>2, <2>3, <2>4 DEF d
<1>7. TypeOK'
  <2>1. current'.offset <= Len(Content[current'.dir])
    BY <1>2, <1>4, ContentType
  <2> QED
    BY <1>3, <1>4, <2>1 DEF TypeOK
<1>8. Aligned'
  BY <1>4, <1>5, EmptySeq DEF Aligned
<1>9. Parents' /\ Consecutive'
  BY Monotone DEF Parents, Kids
<1>10. Untouched'
  <2>1. d = Root \/ d \in Given
    BY <1>1 DEF Untouched, UnderWay, Stacked, StackedOnce
  <2>2. \A i \in DOMAIN Content[d] : Content[d][i] \notin Given
    <3>1. Kids(d) \cap Given = {}
      BY <1>1 DEF Untouched, UnderWay, Stacked, StackedOnce
    <3> QED
      BY <3>1 DEF Kids
  <2>3. \A i \in DOMAIN Content[d] : ~(i <= 0)
    BY <1>2, ContentType
  <2>4. 1..(n - 1) \subseteq DOMAIN pending
    BY <1>1
  <2>5. \A k \in DOMAIN pending' :
          /\ pending'[k] = Fresh(pending'[k].dir)
          /\ pending'[k].dir = Root \/ pending'[k].dir \in Given'
          /\ Kids(pending'[k].dir) \cap Given' = {}
    BY <1>3, <1>5, <2>4 DEF Untouched, UnderWay, Stacked, StackedOnce
  <2>6. \A k, l \in DOMAIN pending' : pending'[k].dir = pending'[l].dir => k = l
    BY <1>3, <2>4 DEF Untouched, UnderWay, Stacked, StackedOnce
  <2> HIDE DEF n
  <2>7. /\ current'.dir = Root \/ current'.dir \in Given'
        /\ \A i \in DOMAIN Content[current'.dir] :
             Content[current'.dir][i] \in Given' <=> i <= Through'
        /\ current'.dir \notin Waiting'
    BY <1>4, <1>5, <1>6, <2>1, <2>2, <2>3
  <2> QED
    BY <2>5, <2>6, <2>7 DEF Untouched, UnderWay, Stacked, StackedOnce, Kids
<1>11. Complete'
  BY <1>4, <1>5, <1>6 DEF Complete, Kids
<1>12. Frontier'
  BY <1>5 DEF Frontier, AtEnd
<1> QED
  BY <1>7, <1>8, <1>9, <1>10, <1>11, <1>12

\* An entry is given, and goes on the stack if it is a directory.
LEMMA GivingKeeps == ASSUME IInv, GiveItem PROVE IInv'
<1> USE DEF IInv
<1> DEFINE d == current.dir
           e == Head(buffer)
           n == Len(order)
           k == Through + 1
<1>1. /\ buffer \in Seq(Entries) /\ buffer # <<>> /\ Len(buffer) \in Nat \ {0}
      /\ buffer' = Tail(buffer) /\ e = buffer[1] /\ e \in Entries /\ e # Root
      /\ buffer' \in Seq(Entries) /\ Len(buffer') = Len(buffer) - 1
      /\ \A i \in DOMAIN buffer' : buffer'[i] = buffer[i + 1] /\ i + 1 \in DOMAIN buffer
  BY EmptySeq DEF TypeOK, GiveItem, Entries
<1>2. /\ current' = current /\ pc = "loop" /\ pc' = "loop"
      /\ UNCHANGED <<cancelled, partial>>
  BY DEF GiveItem
<1>3. Len(buffer) <= current.offset /\ current.offset \in Nat /\ d \in Dirs
  BY TreeAssumption DEF TypeOK, Aligned, Directory, Nowhere
<1>4. current # Nowhere
  BY <1>1, <1>3 DEF Nowhere
<1>5. Through \in Nat /\ k \in Nat \ {0} /\ k <= current.offset /\ Through' = k
  <2>1. Through = current.offset - Len(buffer) /\ Through' = current.offset - Len(buffer')
    BY <1>2 DEF Through
  <2> QED
    BY <1>1, <1>3, <2>1
<1>6. k \in DOMAIN Content[d] /\ e = Content[d][k]
  <2>1. current.offset <= Len(Content[d])
    BY DEF TypeOK
  <2>2. 1 \in DOMAIN buffer
    BY <1>1
  <2> QED
    BY <1>1, <1>3, <1>5, <2>1, <2>2, ContentType DEF Aligned
<1>7. /\ order \in Seq(Entries) /\ n \in Nat /\ order' = Append(order, e)
      /\ order' \in Seq(Entries) /\ DOMAIN order = 1..n /\ DOMAIN order' = 1..(n + 1)
      /\ Len(order') = n + 1 /\ order'[n + 1] = e /\ \A i \in 1..n : order'[i] = order[i]
  <2>1. order \in Seq(Entries) /\ order' = Append(order, e)
    BY DEF TypeOK, GiveItem
  <2> QED
    BY <1>1, <2>1
<1> HIDE DEF k, e
<1>8. e \notin Given /\ (d = Root \/ d \in Given)
  <2>1. ~(k <= Through)
    BY <1>5 DEF k
  <2> QED
    BY <1>4, <1>6, <2>1 DEF Untouched, UnderWay, Stacked, StackedOnce
<1> HIDE DEF n
<1>9. Given' = Given \cup {e}
  <2>1. Given = {order[i] : i \in 1..n}
    BY <1>7 DEF Given
  <2>2. Given' = {order'[i] : i \in 1..(n + 1)}
    BY <1>7 DEF Given
  <2>3. 1..(n + 1) = 1..n \cup {n + 1}
    BY <1>7
  <2> QED
    BY <1>7, <2>1, <2>2, <2>3
<1>10. e # d /\ e \in Kids(d)
  <2>1. e # d
    BY <1>1, <1>8
  <2> QED
    BY <1>6, <2>1 DEF Kids
<1>11. e \in Dirs => Kids(e) \cap Given' = {}
  <2>1. SUFFICES ASSUME e \in Dirs, NEW x \in Kids(e), x \in Given' PROVE FALSE
    OBVIOUS
  <2>2. CASE x = e
    BY <1>3, <1>10, <2>1, <2>2, OneParent
  <2>3. CASE x \in Given
    <3>1. PICK i \in DOMAIN order : x = order[i]
      BY <2>3 DEF Given
    <3>2. PICK p \in Dirs : x \in Kids(p) /\ (p = Root \/ \E j \in 1..(i - 1) : order[j] = p)
      BY <3>1 DEF Parents
    <3>3. p = e
      BY <2>1, <3>2, OneParent
    <3>4. \A j \in 1..(i - 1) : j \in DOMAIN order
      BY <1>7
    <3>5. p = Root \/ p \in Given
      BY <3>2, <3>4 DEF Given
    <3> QED
      BY <1>1, <1>8, <3>3, <3>5
  <2> QED
    BY <1>9, <2>1, <2>2, <2>3
<1>12. TypeOK'
  <2>1. pending' \in Seq(Directory)
    <3>1. e \in Dirs => Fresh(e) \in Directory
      BY DEF Fresh, Directory
    <3>2. pending' = IF e \in Dirs THEN Append(pending, Fresh(e)) ELSE pending
      BY DEF GiveItem, HandleItem, e
    <3> HIDE DEF Fresh
    <3>3. pending \in Seq(Directory)
      BY DEF TypeOK
    <3> QED
      BY <3>1, <3>2, <3>3
  <2>2. Len(buffer') <= PageSize
    BY <1>1, TreeAssumption DEF TypeOK
  <2> QED
    BY <1>1, <1>2, <1>7, <2>1, <2>2 DEF TypeOK
<1>13. Aligned'
  <2>1. Len(buffer') <= current'.offset
    BY <1>1, <1>2, <1>3
  <2>2. ASSUME NEW i \in DOMAIN buffer' PROVE buffer'[i] = Content[current'.dir][Through' + i]
    <3>1. buffer'[i] = buffer[i + 1] /\ i + 1 \in DOMAIN buffer /\ i \in Int
      BY <1>1
    <3>2. buffer[i + 1] = Content[d][Through + (i + 1)]
      BY <3>1 DEF Aligned
    <3>3. Through + (i + 1) = Through' + i
      BY <1>5, <3>1 DEF k
    <3> QED
      BY <1>2, <3>1, <3>2, <3>3
  <2> QED
    BY <1>2, <1>4, <2>1, <2>2 DEF Aligned
<1>14. Parents'
  <2>1. ASSUME NEW i \in DOMAIN order', NEW j \in DOMAIN order', order'[i] = order'[j] PROVE i = j
    <3>1. CASE i \in 1..n /\ j \in 1..n
      BY <1>7, <2>1, <3>1 DEF Parents
    <3>2. \A m \in 1..n : order'[m] # e
      BY <1>7, <1>8 DEF Given
    <3>3. i \in 1..n \/ i = n + 1
      BY <1>7
    <3>4. j \in 1..n \/ j = n + 1
      BY <1>7
    <3> QED
      BY <1>7, <2>1, <3>1, <3>2, <3>3, <3>4
  <2>2. ASSUME NEW i \in DOMAIN order'
        PROVE  \E p \in Dirs : /\ order'[i] \in Kids(p)
                               /\ p = Root \/ \E j \in 1..(i - 1) : order'[j] = p
    <3>1. CASE i \in 1..n
      <4>1. PICK p \in Dirs : order[i] \in Kids(p) /\ (p = Root \/ \E j \in 1..(i - 1) : order[j] = p)
        BY <1>7, <3>1 DEF Parents
      <4>2. \A j \in 1..(i - 1) : order'[j] = order[j]
        BY <1>7, <3>1
      <4> QED
        BY <1>7, <3>1, <4>1, <4>2
    <3>2. CASE i = n + 1
      <4>1. d = Root \/ \E j \in 1..n : order'[j] = d
        BY <1>7, <1>8 DEF Given
      <4>2. 1..(i - 1) = 1..n
        BY <1>7, <3>2
      <4> QED
        BY <1>3, <1>7, <1>10, <3>2, <4>1, <4>2
    <3> QED
      BY <1>7, <3>1, <3>2
  <2> QED
    BY <2>1, <2>2 DEF Parents, Kids
<1>15. Untouched'
  <2>1. d = Root \/ d \in Given'
    BY <1>8, <1>9
  <2>2. ASSUME NEW i \in DOMAIN Content[d] PROVE Content[d][i] \in Given' <=> i <= k
    <3>1. Content[d][i] \in Given <=> i <= Through
      BY <1>4 DEF Untouched, UnderWay, Stacked, StackedOnce
    <3>2. Content[d][i] = e <=> i = k
      BY <1>3, <1>6, OnePlace
    <3>3. i \in Int /\ (i <= k <=> i <= Through \/ i = k)
      BY <1>3, <1>5, ContentType DEF k
    <3> QED
      BY <1>9, <3>1, <3>2, <3>3
  <2>3. pending \in Seq(Directory) /\ Len(pending) \in Nat /\ DOMAIN pending = 1..Len(pending)
    BY DEF TypeOK
  <2>4. e \notin Waiting
    BY <1>1, <1>8 DEF Waiting, Untouched, UnderWay, Stacked, StackedOnce
  <2>5. \A m \in DOMAIN pending : e \notin Kids(pending[m].dir)
    <3>1. \A m \in DOMAIN pending : pending[m].dir # d
      BY <1>4 DEF Untouched, UnderWay, Stacked, StackedOnce, Waiting
    <3>2. \A m \in DOMAIN pending : pending[m].dir \in Dirs
      <4>1. \A m \in DOMAIN pending : pending[m] \in Directory
        BY <2>3
      <4> QED
        BY <4>1 DEF Directory
    <3> QED
      BY <1>3, <1>10, <3>1, <3>2, OneParent
  <2>6. d \notin Waiting
    BY <1>4 DEF Untouched, UnderWay, Stacked, StackedOnce
  <2> DEFINE Here == /\ current'.dir = Root \/ current'.dir \in Given'
                     /\ \A i \in DOMAIN Content[current'.dir] :
                          Content[current'.dir][i] \in Given' <=> i <= Through'
  <2>10. Here
    BY <1>2, <1>5, <2>1, <2>2
  <2> HIDE DEF Here
  <2>7. /\ \A m \in DOMAIN pending :
             /\ pending[m] = Fresh(pending[m].dir)
             /\ pending[m].dir = Root \/ pending[m].dir \in Given'
             /\ Kids(pending[m].dir) \cap Given' = {}
        /\ \A l, m \in DOMAIN pending : pending[l].dir = pending[m].dir => l = m
    BY <1>9, <2>5 DEF Untouched, UnderWay, Stacked, StackedOnce
  <2>8. CASE e \notin Dirs
    <3>1. pending' = pending
      BY <2>8 DEF GiveItem, HandleItem, e
    <3>2. Waiting' = Waiting
      BY <3>1 DEF Waiting
    <3>3. current'.dir \notin Waiting'
      BY <1>2, <2>6, <3>2
    <3> QED
      BY <2>7, <2>10, <3>1, <3>3 DEF Untouched, UnderWay, Stacked, StackedOnce, Kids, Here
  <2>9. CASE e \in Dirs
    <3> DEFINE z == Len(pending) + 1
    <3>1. pending' = Append(pending, Fresh(e))
      BY <2>9 DEF GiveItem, HandleItem, e
    <3>2. /\ DOMAIN pending' = 1..z /\ pending'[z] = Fresh(e)
          /\ \A m \in 1..Len(pending) : pending'[m] = pending[m]
      BY <1>12, <2>3, <3>1 DEF TypeOK
    <3>3. \A m \in DOMAIN pending' : m \in DOMAIN pending \/ m = z
      BY <2>3, <3>2
    <3>4. pending'[z].dir = e
      BY <3>2 DEF Fresh
    <3>5. \A m \in DOMAIN pending : pending'[m] = pending[m] /\ pending[m].dir # e
      BY <2>3, <2>4, <3>2 DEF Waiting
    <3> HIDE DEF z
    <3>6. d \notin Waiting'
      BY <1>10, <2>6, <3>3, <3>4, <3>5 DEF Waiting
    <3>7. \A m \in DOMAIN pending' :
            /\ pending'[m] = Fresh(pending'[m].dir)
            /\ pending'[m].dir = Root \/ pending'[m].dir \in Given'
            /\ Kids(pending'[m].dir) \cap Given' = {}
      BY <1>9, <1>11, <2>7, <2>9, <3>2, <3>3, <3>4, <3>5
    <3>8. \A l, m \in DOMAIN pending' : pending'[l].dir = pending'[m].dir => l = m
      BY <2>7, <3>3, <3>4, <3>5
    <3>9. current'.dir \notin Waiting'
      BY <1>2, <3>6
    <3>10. UnderWay'
      BY <2>10, <3>9 DEF UnderWay, Here
    <3>11. Stacked'
      BY <3>7 DEF Stacked, Kids
    <3>12. StackedOnce'
      BY <3>8 DEF StackedOnce
    <3> QED
      BY <3>10, <3>11, <3>12 DEF Untouched
  <2> QED
    BY <2>8, <2>9
<1>16. Complete'
  <2>1. Waiting \subseteq Waiting' /\ (e \in Dirs => e \in Waiting')
    <3>1. pending' = IF e \in Dirs THEN Append(pending, Fresh(e)) ELSE pending
      BY DEF GiveItem, HandleItem, e
    <3>2. pending \in Seq(Directory) /\ Len(pending) \in Nat
      BY DEF TypeOK
    <3>3. CASE e \notin Dirs
      BY <3>1, <3>3 DEF Waiting
    <3>4. CASE e \in Dirs
      <4> DEFINE z == Len(pending) + 1
      <4>1. z \in DOMAIN pending' /\ pending'[z] = Fresh(e)
        BY <3>1, <3>2, <3>4
      <4>2. \A m \in DOMAIN pending : m \in DOMAIN pending' /\ pending'[m] = pending[m]
        BY <3>1, <3>2, <3>4
      <4>3. Fresh(e).dir = e
        BY DEF Fresh
      <4> HIDE DEF z, Fresh
      <4> QED
        BY <4>1, <4>2, <4>3 DEF Waiting
    <3> QED
      BY <3>3, <3>4
  <2>2. SUFFICES ASSUME ~partial', NEW p \in Dirs, p = Root \/ p \in Given'
                 PROVE  \/ p \in Waiting'
                        \/ current' # Nowhere /\ p = current'.dir
                        \/ Kids(p) \subseteq Given'
    BY DEF Complete, Kids
  <2>3. CASE p = e
    BY <2>1, <2>3
  <2>4. CASE p = Root \/ p \in Given
    <3>1. p \in Waiting \/ (current # Nowhere /\ p = current.dir) \/ Kids(p) \subseteq Given
      BY <1>2, <2>2, <2>4 DEF Complete
    <3> QED
      BY <1>2, <1>9, <2>1, <3>1
  <2> QED
    BY <1>9, <2>2, <2>3, <2>4
<1>17. Frontier'
  <2>1. k > 0 /\ order' # <<>> /\ order'[Len(order')] = Content[current'.dir][k]
    BY <1>2, <1>5, <1>6, <1>7, EmptySeq
  <2> QED
    BY <1>2, <1>4, <1>5, <2>1 DEF Frontier
<1>18. Consecutive'
  <2>1. SUFFICES ASSUME NEW i \in 1..n
                 PROVE  \E p \in Dirs : \E m \in DOMAIN Content[p] :
                          /\ order'[i + 1] = Content[p][m]
                          /\ \/ m > 1 /\ order'[i] = Content[p][m - 1]
                             \/ m = 1 /\ order'[i] \notin Kids(p) /\ (partial' \/ AtEnd(order'[i]))
    <3>1. 1..(Len(order') - 1) = 1..n
      BY <1>7
    <3> QED
      BY <3>1 DEF Consecutive, Kids, AtEnd
  <2>2. CASE i < n
    <3>1. i \in 1..(n - 1) /\ i + 1 \in 1..n
      BY <1>7, <2>2
    <3>2. PICK p \in Dirs : \E m \in DOMAIN Content[p] :
            /\ order[i + 1] = Content[p][m]
            /\ \/ m > 1 /\ order[i] = Content[p][m - 1]
               \/ m = 1 /\ order[i] \notin Kids(p) /\ (partial \/ AtEnd(order[i]))
      BY <3>1 DEF Consecutive, n
    <3>3. order'[i + 1] = order[i + 1] /\ order'[i] = order[i]
      BY <1>7, <3>1
    <3> QED
      BY <1>2, <3>2, <3>3
  <2>3. CASE i = n
    <3>1. order'[i + 1] = Content[d][k] /\ order'[i] = order[n] /\ order # <<>>
      BY <1>6, <1>7, <2>3, EmptySeq DEF n
    <3>2. CASE Through > 0
      <4>1. order[n] = Content[d][k - 1] /\ k > 1
        BY <1>4, <1>5, <3>2 DEF Frontier, k, n
      <4> QED
        BY <1>3, <1>6, <3>1, <4>1
    <3>3. CASE Through = 0
      <4>1. partial \/ AtEnd(order[n])
        BY <3>1, <3>3 DEF Frontier, n
      <4>2. order[n] \in Given
        BY <1>7, <2>3 DEF Given
      <4>3. order[n] \notin Kids(d)
        <5>1. \A m \in DOMAIN Content[d] : Content[d][m] \notin Given
          BY <1>3, <1>4, <3>3, ContentType DEF Untouched, UnderWay, Stacked, StackedOnce
        <5> QED
          BY <4>2, <5>1 DEF Kids
      <4>4. k = 1
        BY <3>3 DEF k
      <4> QED
        BY <1>2, <1>3, <1>6, <3>1, <4>1, <4>3, <4>4
    <3> QED
      BY <1>5, <3>2, <3>3
  <2>4. n \in Nat
    BY <1>7
  <2>5. i < n \/ i = n
    BY <2>4
  <2> QED
    BY <2>2, <2>3, <2>5
<1> QED
  BY <1>12, <1>13, <1>14, <1>15, <1>16, <1>17, <1>18

LEMMA StepIInv == ASSUME IInv, [Next]_vars PROVE IInv'
<1>1. TypeOK /\ Aligned
  BY DEF IInv
<1>2. CASE Stop \/ Exhausted \/ Cancel \/ UNCHANGED vars
  <2>1. UNCHANGED <<walk, order, partial>> /\ cancelled' \in BOOLEAN
    BY <1>1, <1>2 DEF Stop, Exhausted, Cancel, vars, TypeOK
  <2>2. /\ pc' \in {"loop", "list", "ended", "dropped"}
        /\ pc' = "list" => buffer = <<>> /\ current # Nowhere
    BY <1>1, <1>2 DEF Stop, Exhausted, Cancel, vars, TypeOK, Aligned
  <2> QED
    BY <2>1, <2>2, QuietKeeps
<1>3. CASE GiveItem
  BY <1>3, GivingKeeps
<1>4. CASE LeaveDirectory
  <2>1. current # Nowhere /\ current.total # Unknown /\ current.offset >= current.total
    BY <1>4 DEF LeaveDirectory, Completed
  <2>2. current.total = Len(Content[current.dir]) /\ current.offset <= Len(Content[current.dir])
    BY <1>1, <2>1 DEF Aligned, TypeOK
  <2>3. current.offset \in Nat /\ current.dir \in Dirs
    BY <1>1, <2>1 DEF TypeOK, Directory
  <2>4. current.offset = Len(Content[current.dir])
    BY <2>1, <2>2, <2>3, ContentType
  <2> QED
    BY <1>4, <2>1, <2>4, LeavingKeeps DEF LeaveDirectory
<1>5. CASE AskForPage
  <2>1. CASE current = Nowhere
    BY <1>5, <2>1, EnteringKeeps DEF AskForPage
  <2>2. CASE current # Nowhere
    <3>1. UNCHANGED <<walk, order, partial>> /\ cancelled' \in BOOLEAN /\ pc' = "list" /\ buffer = <<>>
      BY <1>1, <1>5, <2>2 DEF AskForPage, walk, TypeOK
    <3> QED
      BY <2>2, <3>1, QuietKeeps
  <2> QED
    BY <2>1, <2>2
<1>6. CASE Answer
  <2>1. buffer = <<>> /\ current # Nowhere /\ pc = "list" /\ UNCHANGED <<pending, order, cancelled>>
    BY <1>1, <1>6 DEF Answer, Aligned
  <2>2. CASE Listed /\ pc' = "loop" /\ PageAt(current.dir, current.offset) # <<>>
    BY <2>1, <2>2, FillingKeeps
  <2>3. CASE Listed /\ pc' = "loop" /\ PageAt(current.dir, current.offset) = <<>>
    <3>1. current' = Nowhere /\ UNCHANGED <<buffer, partial>>
      BY <2>3 DEF Listed
    <3>2. current.offset = Len(Content[current.dir])
      BY <1>1, <2>1, <2>3, PageFacts DEF TypeOK, Directory
    <3> QED
      BY <2>1, <2>3, <3>1, <3>2, LeavingKeeps
  <2>4. CASE current' = Nowhere /\ pc' = "loop" /\ partial' = TRUE /\ UNCHANGED buffer
    BY <2>1, <2>4, LeavingKeeps
  <2>5. CASE pc' = "dropped" /\ UNCHANGED <<current, buffer, partial>>
    BY <1>1, <2>1, <2>5, QuietKeeps DEF walk, TypeOK
  <2> QED
    BY <1>6, <2>2, <2>3, <2>4, <2>5 DEF Answer
<1> QED
  BY <1>2, <1>3, <1>4, <1>5, <1>6 DEF Next, Step

LEMMA InvariantHolds == Spec => []IInv
  BY InitIInv, StepIInv, PTL DEF Spec

-----------------------------------------------------------------------------
(* The stream *)

\* How often an entry was given.
Times(e) == Cardinality({i \in DOMAIN order : order[i] = e})

LEMMA TimesGiven ==
  ASSUME IInv, NEW e \in Entries
  PROVE  /\ e \in Given => Times(e) = 1
         /\ e \notin Given => Times(e) = 0
<1>1. CASE e \in Given
  <2>1. PICK i \in DOMAIN order : order[i] = e
    BY <1>1 DEF Given
  <2>2. {j \in DOMAIN order : order[j] = e} = {i}
    BY <2>1 DEF IInv, Parents
  <2> QED
    BY <1>1, <2>2, FS_Singleton DEF Times
<1>2. CASE e \notin Given
  <2>1. {j \in DOMAIN order : order[j] = e} = {}
    BY <1>2 DEF Given
  <2> QED
    BY <1>2, <2>1, FS_EmptySet DEF Times
<1> QED
  BY <1>1, <1>2

LEMMA TimesGivenNext ==
  ASSUME IInv', NEW e \in Entries
  PROVE  /\ e \in Given' => Times(e)' = 1
         /\ e \notin Given' => Times(e)' = 0
<1>1. CASE e \in Given'
  <2>1. PICK i \in DOMAIN order' : order'[i] = e
    BY <1>1 DEF Given
  <2>2. {j \in DOMAIN order' : order'[j] = e} = {i}
    BY <2>1 DEF IInv, Parents
  <2> QED
    BY <1>1, <2>2, FS_Singleton DEF Times
<1>2. CASE e \notin Given'
  <2>1. {j \in DOMAIN order' : order'[j] = e} = {}
    BY <1>2 DEF Given
  <2> QED
    BY <1>2, <2>1, FS_EmptySet DEF Times
<1> QED
  BY <1>1, <1>2

\* At its end the walk has given every entry, unless a page was given up.
LEMMA AllGiven ==
  ASSUME IInv, current = Nowhere, pending = <<>>, ~partial PROVE Given = Entries
<1>1. Waiting = {}
  BY DEF Waiting
<1>2. \A d \in Dirs : d = Root \/ d \in Given => Kids(d) \subseteq Given
  BY <1>1 DEF IInv, Complete
<1>3. Given \subseteq Entries
  BY DEF IInv, TypeOK, Given
<1>4. \A d \in (Given \cap Dirs) \cup {Root} : \A i \in DOMAIN Content[d] : Content[d][i] \in Given
  BY <1>2, TreeAssumption DEF Kids
<1> QED
  BY <1>3, <1>4, AllBelowRoot

\* The variables of WalkStream that the walk stands for.
Counts == [e \in Entries |-> Times(e)]
State  == IF pc \in {"loop", "list"} THEN "open" ELSE pc

LEMMA Mapping ==
  /\ Stream!Init <=> Counts = [i \in Entries |-> 0] /\ State = "open" /\ partial = FALSE
  /\ \A i : Stream!Give(i) <=> /\ State = "open" /\ Counts[i] = 0
                              /\ Counts' = [Counts EXCEPT ![i] = 1]
                              /\ State' = State /\ partial' = partial
  /\ Stream!Skip <=> partial' = TRUE /\ Counts' = Counts /\ State' = State
  /\ Stream!End <=> /\ State = "open" /\ (partial \/ \A i \in Entries : Counts[i] = 1)
                    /\ State' = "ended" /\ Counts' = Counts /\ partial' = partial
  /\ Stream!Drop <=> /\ State = "open" /\ State' = "dropped"
                     /\ Counts' = Counts /\ partial' = partial
  /\ UNCHANGED Stream!streamVars <=> Counts' = Counts /\ State' = State /\ partial' = partial
  BY Zenon DEF Stream!Init, Stream!Give, Stream!Skip, Stream!End, Stream!Drop, Stream!streamVars,
         Counts, Times, State

LEMMA InitRefines == ASSUME Init PROVE Stream!Init
<1>1. \A e : Times(e) = 0
  <2>1. \A e : {i \in DOMAIN order : order[i] = e} = {}
    BY DEF Init
  <2> QED
    BY <2>1, FS_EmptySet DEF Times
<1>2. Counts = [i \in Entries |-> 0] /\ State = "open" /\ partial = FALSE
  BY <1>1 DEF Counts, State, Init
<1> QED
  BY <1>2, Mapping

\* Every step of the walk is one that WalkStream allows, or none it sees.
LEMMA StepRefines == ASSUME IInv, IInv', [Next]_vars PROVE [Stream!Next]_(Stream!streamVars)
<1>1. TypeOK /\ Aligned
  BY DEF IInv
<1>2. UNCHANGED order => Counts' = Counts
  BY DEF Counts, Times
<1>3. CASE GiveItem
  <2> DEFINE e == Head(buffer)
  <2>1. /\ e \in Entries /\ order' = Append(order, e) /\ partial' = partial
        /\ State = "open" /\ State' = State
    BY <1>1, <1>3 DEF GiveItem, TypeOK, State
  <2>2. order \in Seq(Entries) /\ Len(order) \in Nat
    BY <1>1 DEF TypeOK
  <2> DEFINE n == Len(order)
  <2> HIDE DEF e
  <2>3. /\ DOMAIN order = 1..n /\ DOMAIN order' = 1..(n + 1) /\ order'[n + 1] = e
        /\ \A i \in 1..n : order'[i] = order[i]
    BY <2>1, <2>2
  <2>4. e \in Given' /\ \A x \in Entries \ {e} : x \in Given' <=> x \in Given
    <3>1. n + 1 \in 1..(n + 1) /\ \A i \in 1..n : i \in 1..(n + 1)
      BY <2>2
    <3>2. \A i \in 1..(n + 1) : i \in 1..n \/ i = n + 1
      BY <2>2
    <3> HIDE DEF n
    <3> QED
      BY <2>3, <3>1, <3>2 DEF Given
  <2>5. e \notin Given
    <3>1. n + 1 \in DOMAIN order' /\ \A i \in 1..n : i \in DOMAIN order' /\ i # n + 1
      BY <2>2, <2>3
    <3>2. \A i \in 1..n : order'[i] # order'[n + 1]
      BY <3>1 DEF IInv, Parents
    <3> QED
      BY <2>3, <3>2 DEF Given
  <2>6. Counts[e] = 0 /\ Counts'[e] = 1 /\ \A x \in Entries \ {e} : Counts'[x] = Counts[x]
    <3>1. \A x \in Entries : /\ x \in Given => Times(x) = 1
                             /\ x \notin Given => Times(x) = 0
      BY TimesGiven
    <3>2. \A x \in Entries : /\ x \in Given' => Times(x)' = 1
                             /\ x \notin Given' => Times(x)' = 0
      BY TimesGivenNext
    <3> QED
      BY <2>1, <2>4, <2>5, <3>1, <3>2 DEF Counts
  <2>7. Counts' = [Counts EXCEPT ![e] = 1]
    BY <2>1, <2>6 DEF Counts
  <2>8. Stream!Give(e)
    BY <2>1, <2>6, <2>7, Mapping
  <2> QED
    BY <2>1, <2>8 DEF Stream!Next
<1>4. CASE Exhausted
  <2>1. /\ State = "open" /\ State' = "ended" /\ partial' = partial /\ Counts' = Counts
        /\ current = Nowhere /\ pending = <<>>
    BY <1>2, <1>4 DEF Exhausted, State
  <2>2. partial \/ \A i \in Entries : Counts[i] = 1
    BY <2>1, AllGiven, TimesGiven DEF Counts
  <2> QED
    BY <2>1, <2>2, Mapping DEF Stream!Next
<1>5. CASE Stop
  <2>1. State = "open" /\ State' = "dropped" /\ partial' = partial /\ Counts' = Counts
    BY <1>2, <1>5 DEF Stop, State
  <2> QED
    BY <2>1, Mapping DEF Stream!Next
<1>6. CASE Answer
  <2>1. State = "open" /\ Counts' = Counts
    BY <1>2, <1>6 DEF Answer, State
  <2>2. \/ partial' = partial /\ State' = State
        \/ partial' = TRUE /\ State' = State
        \/ partial' = partial /\ State' = "dropped"
    BY <1>6 DEF Answer, Listed, State
  <2> QED
    BY <2>1, <2>2, Mapping DEF Stream!Next
<1>7. CASE LeaveDirectory \/ AskForPage \/ Cancel \/ UNCHANGED vars
  <2>1. State' = State /\ partial' = partial /\ Counts' = Counts
    BY <1>2, <1>7 DEF LeaveDirectory, AskForPage, Cancel, vars, State
  <2> QED
    BY <2>1, Mapping
<1> QED
  BY <1>3, <1>4, <1>5, <1>6, <1>7 DEF Next, Step

-----------------------------------------------------------------------------
(* The theorems *)

\* Every variable of the walk keeps its type: the offset of the directory under way
\* never passes its end, and a page is never longer than was asked for.
THEOREM WalkTypeOK == Spec => []TypeOK
  BY InvariantHolds, PTL DEF IInv

\* next_item keeps the promises of a walk, for any tree and size of page, whatever
\* totals the pages carry: every entry is given once, the stream ends by itself only
\* when all were given or a page had no listing, and nothing follows its end.
THEOREM WalkImplementsStream == Spec => SequentialKeepsPromises
<1>1. IInv /\ IInv' /\ [Next]_vars => [Stream!Next]_(Stream!streamVars)
  BY StepRefines
<1>2. Init => Stream!Init
  BY InitRefines
<1> QED
  BY <1>1, <1>2, InvariantHolds, PTL DEF Spec, SequentialKeepsPromises, Stream!Spec

\* Where Parent and Position find a listed entry.
LEMMA Found ==
  ASSUME NEW d \in Dirs, NEW i \in DOMAIN Content[d]
  PROVE  Parent(Content[d][i]) = d /\ Position(Content[d][i]) = i
<1> DEFINE e == Content[d][i]
<1>1. Parent(e) \in Dirs /\ \E j \in DOMAIN Content[Parent(e)] : Content[Parent(e)][j] = e
  BY DEF Parent
<1>2. Parent(e) = d
  BY <1>1, OnePlace
<1>3. Position(e) \in DOMAIN Content[d] /\ Content[d][Position(e)] = e
  BY <1>2 DEF Position
<1> QED
  BY <1>2, <1>3, OnePlace

\* A directory is walked to its end, in listing order, before the next one, and
\* never before it was itself given.
THEOREM DirectoriesOneByOne == Spec => []OneDirectoryAtATime
<1>1. ASSUME IInv PROVE OneDirectoryAtATime
  <2>1. ASSUME NEW i \in 1..(Len(order) - 1)
        PROVE  LET e == order[i]  f == order[i + 1] IN
               IF Parent(e) = Parent(f) THEN Position(f) = Position(e) + 1
               ELSE Position(f) = 1 /\ (partial \/ Position(e) = Len(Content[Parent(e)]))
    <3> DEFINE After(d, k) == /\ order[i + 1] = Content[d][k]
                              /\ \/ k > 1 /\ order[i] = Content[d][k - 1]
                                 \/ /\ k = 1 /\ order[i] \notin Kids(d)
                                    /\ partial \/ AtEnd(order[i])
    <3>0. PICK d \in Dirs : \E k \in DOMAIN Content[d] : After(d, k)
      BY <1>1, Zenon DEF IInv, Consecutive
    <3>1. PICK k \in DOMAIN Content[d] : After(d, k)
      BY <3>0
    <3>2. Parent(order[i + 1]) = d /\ Position(order[i + 1]) = k /\ k \in Nat
      BY <3>1, Found, ContentType
    <3>3. CASE k > 1 /\ order[i] = Content[d][k - 1]
      <4>1. k - 1 \in DOMAIN Content[d]
        BY <3>3, ContentType
      <4>2. Parent(order[i]) = d /\ Position(order[i]) = k - 1
        BY <3>3, <4>1, Found
      <4> QED
        BY <3>2, <4>2
    <3>4. CASE k = 1 /\ order[i] \notin Kids(d) /\ (partial \/ AtEnd(order[i]))
      <4>1. i \in DOMAIN order
        BY <1>1 DEF IInv, TypeOK
      <4>2. PICK p \in Dirs : order[i] \in Kids(p)
        BY <1>1, <4>1 DEF IInv, Parents
      <4>3. Parent(order[i]) = p /\ p # d
        BY <3>4, <4>2, Found DEF Kids
      <4>4. partial \/ Position(order[i]) = Len(Content[Parent(order[i])])
        <5>1. CASE partial
          BY <5>1
        <5>2. CASE AtEnd(order[i])
          <6>1. PICK q \in Dirs : Len(Content[q]) > 0 /\ order[i] = Content[q][Len(Content[q])]
            BY <5>2 DEF AtEnd
          <6>2. Len(Content[q]) \in DOMAIN Content[q]
            BY <6>1, ContentType
          <6> QED
            BY <6>1, <6>2, Found
        <5> QED
          BY <3>4, <5>1, <5>2
      <4> QED
        BY <3>2, <3>4, <4>3, <4>4
    <3> QED
      BY <3>1, <3>3, <3>4
  <2>2. ASSUME NEW i \in DOMAIN order
        PROVE  Parent(order[i]) = Root \/ \E j \in 1..(i - 1) : order[j] = Parent(order[i])
    <3>1. PICK d \in Dirs : order[i] \in Kids(d) /\ (d = Root \/ \E j \in 1..(i - 1) : order[j] = d)
      BY <1>1 DEF IInv, Parents
    <3> QED
      BY <3>1, Found DEF Kids
  <2> QED
    BY <2>1, <2>2 DEF OneDirectoryAtATime
<1> QED
  BY <1>1, InvariantHolds, PTL
=============================================================================
