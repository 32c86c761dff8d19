----------------------------- MODULE WalkStream -----------------------------
(***************************************************************************)
(* What a walk promises the reader of its stream, whatever lists the tree: *)
(* no entry is given twice, a stream only ends by itself when every entry  *)
(* was given, unless a page was given up, and nothing follows an error or  *)
(* the end.  Nothing is promised about the order.                          *)
(***************************************************************************)
EXTENDS Integers

CONSTANT Items    \* the entries of the tree below its root

VARIABLES
  given,    \* given[i]: how often entry i was given
  stream,   \* "open", "ended" by itself, or "dropped": failed or left
  gap       \* some page was given up without an error

streamVars == <<given, stream, gap>>

Init ==
  /\ given = [i \in Items |-> 0]
  /\ stream = "open"
  /\ gap = FALSE

Give(i) ==
  /\ stream = "open"
  /\ given[i] = 0
  /\ given' = [given EXCEPT ![i] = 1]
  /\ UNCHANGED <<stream, gap>>

\* A page is given up.
Skip ==
  /\ gap' = TRUE
  /\ UNCHANGED <<given, stream>>

End ==
  /\ stream = "open"
  /\ gap \/ \A i \in Items : given[i] = 1
  /\ stream' = "ended"
  /\ UNCHANGED <<given, gap>>

\* The stream gave an error, or its reader went away.
Drop ==
  /\ stream = "open"
  /\ stream' = "dropped"
  /\ UNCHANGED <<given, gap>>

Next == (\E i \in Items : Give(i)) \/ Skip \/ End \/ Drop

Spec == Init /\ [][Next]_streamVars
=============================================================================
