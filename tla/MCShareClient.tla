--------------------------- MODULE MCShareClient ---------------------------
(* ShareClient for TLC: short texts over one token or character of each kind. *)
EXTENDS ShareClient

CONSTANT MaxPath      \* the longest path of an item

Chars == {"a", "CON", ".", "/", "\\", " ", "?", "tab", "nbsp", "bell"}
MCItemPaths == SeqOf(Chars, MaxPath) \ {<<>>}

Bodies ==
  {<<>>, <<"x">>, <<"d", "/", "x">>, <<"http">>, <<"http", "host">>,
   <<"http", "x", "/", "d", "/", "x">>}
   \cup {<<"http", "host", "/">> \o rest : rest \in
          {<<d, "/", "x">> : d \in {"d", "i", "x"}} \cup
          {<<"d">>, <<"d", "/", "x", "/", "x">>, <<"public", "/">>,
           <<"public", "/", "?", "hash=", "x">>, <<"public", "/", "?", "other=", "x">>,
           <<"public", "/", "?", "other=", "x", "&", "hash=", "x">>,
           <<"public", "?", "hash=", "x">>, <<"public", "/", "?", "hash=", "x", "+">>,
           <<"d", "/", "x", "x">>, <<"public", "/", "?", "hash=", "x", "x", "&", "hash=">>,
           <<"public", "/", "?", "x", "?", "hash=", "x">>, <<"d", "/", "x", "?", "x">>}}

MCKeyTexts ==
  LET Texts == {[i \in DOMAIN b |-> [c |-> b[i], esc |-> e]] : b \in Bodies, e \in 0..2}
               \cup {<<[c |-> "bad", esc |-> 1], Plain("x")>>}
      Blanks == {<<>>, <<Plain(" ")>>}
  IN  {l \o t \o r : l \in Blanks, t \in Texts, r \in Blanks}

MCSelections == {DefaultFields, ResourceField, Leaf({"name"})}
=============================================================================
