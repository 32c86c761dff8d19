----------------------------- MODULE RemoteTree -----------------------------
(***************************************************************************)
(* The remote folder as the listing endpoint of the API shows it to both   *)
(* walkers.  It does not change while it is walked, and a directory tells  *)
(* its total on every page or on none.                                     *)
(***************************************************************************)
EXTENDS Integers, Sequences

CONSTANTS
  Dirs,         \* the directories of the share
  Files,        \* its files
  Root,         \* the directory the walk starts at
  Content,      \* Content[d]: the entries of directory d in listing order
  KnownTotal,   \* the directories whose pages carry embedded.total
  PageSize      \* page_size: 1000 in the code

Entries == (Dirs \cup Files) \ {Root}

ASSUME TreeAssumption ==
  /\ Root \in Dirs
  /\ Dirs \cap Files = {}
  /\ Content \in [Dirs -> Seq(Entries)]
  /\ KnownTotal \subseteq Dirs
  /\ PageSize \in Nat \ {0}

\* Every entry is listed once, in one directory.
ASSUME ListedOnce ==
  \A d1, d2 \in Dirs : \A i \in DOMAIN Content[d1], j \in DOMAIN Content[d2] :
    Content[d1][i] = Content[d2][j] => d1 = d2 /\ i = j

\* They are the entries below Root: whoever lists Root, and every directory that
\* was listed, meets them all.
ASSUME AllBelowRoot ==
  \A S \in SUBSET Entries :
    (\A d \in (S \cap Dirs) \cup {Root} : \A i \in DOMAIN Content[d] : Content[d][i] \in S)
      => S = Entries

\* The entries of the page at offset o of directory d.
PageAt(d, o) ==
  SubSeq(Content[d], o + 1, IF o + PageSize < Len(Content[d]) THEN o + PageSize
                                                               ELSE Len(Content[d]))
=============================================================================
