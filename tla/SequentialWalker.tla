-------------------------- MODULE SequentialWalker --------------------------
(***************************************************************************)
(* The sequential walk behind YaShareClient::walk: one directory at a time *)
(* from a stack of directories, one page in the buffer.                    *)
(*                                                                         *)
(* An action is one turn of next_item's loop, or the answer it awaits.     *)
(* The consumer asks for the next item as soon as it has one.              *)
(***************************************************************************)
EXTENDS RemoteTree, FiniteSets, SequencesExt

CONSTANTS
  MayCancel,    \* the user may cancel the walk
  MayFail       \* the API may fail to list a page

ASSUME SequentialAssumption == {MayCancel, MayFail} \subseteq BOOLEAN

VARIABLES
  pending,    \* the stack of directories to walk
  current,    \* the directory being walked, or Nowhere
  buffer,     \* the entries of its page not yet given
  pc,         \* "loop", "list" while a page is awaited, or how the stream stopped
  order,      \* the entries in the order they were given
  cancelled,  \* the cancellation token
  partial     \* auxiliary: some page had no listing

walk == <<pending, current, buffer>>
vars == <<walk, pc, order, cancelled, partial>>

\* DirectoryState, with -1 for a total of None, and the None of current.
Unknown    == -1
Fresh(d)   == [dir |-> d, offset |-> 0, total |-> Unknown]
Nowhere    == [dir |-> Root, offset |-> 0, total |-> -2]
Directory  == [dir: Dirs, offset: Nat, total: Nat \cup {Unknown}]

Completed == current # Nowhere /\ current.total # Unknown /\ current.offset >= current.total

-----------------------------------------------------------------------------
\* The check of the token that begins every turn.
Stop ==
  /\ pc = "loop" /\ cancelled
  /\ pc' = "dropped"
  /\ UNCHANGED <<walk, order, cancelled, partial>>

\* Mutant of GiveItem: a directory is walked as soon as it was given.
BugGiveItem ==
  /\ pc = "loop" /\ ~cancelled
  /\ buffer # <<>>
  /\ buffer' = Tail(buffer)
  /\ order' = Append(order, Head(buffer))
  /\ IF Head(buffer) \in Dirs
     THEN /\ pending' = Append(pending, current)
          /\ current' = Fresh(Head(buffer))
     ELSE UNCHANGED <<pending, current>>
  /\ UNCHANGED <<pc, cancelled, partial>>

\* A directory goes on the stack.
HandleItem(e) == pending' = IF e \in Dirs THEN Append(pending, Fresh(e)) ELSE pending

\* A buffered item is given.
GiveItem ==
  /\ pc = "loop" /\ ~cancelled
  /\ buffer # <<>>
  /\ buffer' = Tail(buffer)
  /\ order' = Append(order, Head(buffer))
  /\ HandleItem(Head(buffer))
  /\ UNCHANGED <<current, pc, cancelled, partial>>

\* The directory told its total and has been read to its end.
LeaveDirectory ==
  /\ pc = "loop" /\ ~cancelled
  /\ buffer = <<>> /\ Completed
  /\ current' = Nowhere
  /\ UNCHANGED <<pending, buffer, pc, order, cancelled, partial>>

\* The next page: of this directory, or of the one on top of the stack.
AskForPage ==
  /\ pc = "loop" /\ ~cancelled
  /\ buffer = <<>> /\ ~Completed
  /\ \/ current # Nowhere /\ UNCHANGED <<pending, current>>
     \/ /\ current = Nowhere /\ pending # <<>>
        /\ current' = Last(pending)
        /\ pending' = Front(pending)
  /\ pc' = "list"
  /\ UNCHANGED <<buffer, order, cancelled, partial>>

Exhausted ==
  /\ pc = "loop" /\ ~cancelled
  /\ buffer = <<>> /\ current = Nowhere /\ pending = <<>>
  /\ pc' = "ended"
  /\ UNCHANGED <<walk, order, cancelled, partial>>

\* Mutant of Listed: the offset stays where it is.
BugListedAgain ==
  LET items == PageAt(current.dir, current.offset) IN
  /\ \/ items = <<>> /\ current' = Nowhere /\ UNCHANGED buffer
     \/ items # <<>> /\ buffer' = items /\ UNCHANGED current
  /\ UNCHANGED partial

\* Mutant of Listed: a directory does not end with an empty page.
BugListedEmpty ==
  LET items == PageAt(current.dir, current.offset) IN
  /\ buffer' = items
  /\ current' = [current EXCEPT !.offset = @ + Len(items)]
  /\ UNCHANGED partial

\* A page with a listing: an empty one ends the directory.
Listed ==
  LET items == PageAt(current.dir, current.offset) IN
  /\ \/ items = <<>> /\ current' = Nowhere /\ UNCHANGED buffer
     \/ /\ items # <<>>
        /\ buffer' = items
        /\ current' = [current EXCEPT
             !.offset = @ + Len(items),
             !.total = IF current.dir \in KnownTotal THEN Len(Content[current.dir]) ELSE @]
  /\ UNCHANGED partial

\* list_page answers: a page, a resource without a listing, or an error, which
\* ends the stream.
Answer ==
  /\ pc = "list"
  /\ \/ Listed /\ pc' = "loop"
     \/ /\ MayFail
        /\ current' = Nowhere
        /\ pc' = "loop"
        /\ partial' = TRUE
        /\ UNCHANGED buffer
     \/ /\ MayFail \/ cancelled
        /\ pc' = "dropped"
        /\ UNCHANGED <<current, buffer, partial>>
  /\ UNCHANGED <<pending, order, cancelled>>

Cancel ==
  /\ MayCancel /\ ~cancelled
  /\ cancelled' = TRUE
  /\ UNCHANGED <<walk, pc, order, partial>>

Init ==
  /\ pending = <<Fresh(Root)>>
  /\ current = Nowhere
  /\ buffer = <<>>
  /\ pc = "loop"
  /\ order = <<>>
  /\ cancelled = FALSE
  /\ partial = FALSE

Step == Stop \/ GiveItem \/ LeaveDirectory \/ AskForPage \/ Exhausted \/ Answer

Next == Step \/ Cancel

Spec == Init /\ [][Next]_vars

\* The consumer polls the stream and the API answers.
LiveSpec == Spec /\ WF_vars(Step)

-----------------------------------------------------------------------------
(* Properties *)

TypeOK ==
  /\ pending \in Seq(Directory)
  /\ current \in Directory \cup {Nowhere}
  /\ current.offset <= Len(Content[current.dir])
  /\ buffer \in Seq(Entries) /\ Len(buffer) <= PageSize
  /\ pc \in {"loop", "list", "ended", "dropped"}
  /\ order \in Seq(Entries)
  /\ cancelled \in BOOLEAN /\ partial \in BOOLEAN

Stream == INSTANCE WalkStream WITH
  Items  <- Entries,
  given  <- [e \in Entries |-> Cardinality({i \in DOMAIN order : order[i] = e})],
  stream <- IF pc \in {"loop", "list"} THEN "open" ELSE pc,
  gap    <- partial

\* The sequential walk keeps the promises of a walk: every entry once, all of
\* them unless a page was given up, nothing after an error or the end.
SequentialKeepsPromises == Stream!Spec

Parent(e)   == CHOOSE d \in Dirs : \E i \in DOMAIN Content[d] : Content[d][i] = e
Position(e) == CHOOSE i \in DOMAIN Content[Parent(e)] : Content[Parent(e)][i] = e

\* Walker: the current directory is walked to completion before the next one,
\* in listing order, and never before it was itself given.
OneDirectoryAtATime ==
  /\ \A i \in 1..(Len(order) - 1) :
       LET e == order[i]  f == order[i + 1] IN
       IF Parent(e) = Parent(f) THEN Position(f) = Position(e) + 1
       ELSE Position(f) = 1 /\ (partial \/ Position(e) = Len(Content[Parent(e)]))
  /\ \A i \in DOMAIN order :
       Parent(order[i]) = Root \/ \E j \in 1..(i - 1) : order[j] = Parent(order[i])

\* The stream ends, with or without a total, by itself or with an error.
SequentialWalkEnds == <>(pc \in {"ended", "dropped"})
=============================================================================
