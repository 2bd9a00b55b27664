----------------------------- MODULE MCFraming -----------------------------
(* Framing on small instances. *)
EXTENDS Framing

\* {}, {{"}"}}, {"\"{\\"}: a scanner that forgets nesting, strings, escapes or
\* escaped escapes is wrong about one of them.
TrickyObjects == {
  <<"lbrace", "rbrace">>,
  <<"lbrace", "lbrace", "quote", "rbrace", "quote", "rbrace", "rbrace">>,
  <<"lbrace", "quote", "backslash", "quote", "lbrace", "backslash", "backslash", "quote", "rbrace">>}

\* A brace too many, and a word with a brace that never closes.
SomeJunk == {<<"rbrace">>, <<"other", "lbrace">>}
=============================================================================
