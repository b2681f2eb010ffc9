---------------------------- MODULE MCActionText ----------------------------
(***************************************************************************)
(* Instance of ActionText for TLC: every action of up to MaxLength         *)
(* characters, one of them a letter, and longer ones made of a letter and  *)
(* up to MaxTokens placeholders, escapes and letters.                      *)
(***************************************************************************)
EXTENDS ActionText

CONSTANTS
  MaxLength,  \* bound on the length of an action
  MaxTokens   \* bound on the tokens of an action made of tokens

Tokens ==
  {<<"a">>, <<"$", "1">>, <<"$", "2">>, <<"$", "2", "1">>, <<"$", "@">>,
   <<"\\", "$">>, <<"\\", "$", "2">>}

SomeCharacters == Digits \cup {"@", "$", "\\", " ", "a", "x", "y"}

SomeActions ==
  BoundedSeq({"$", "\\", "1", "2", "@", "a"}, MaxLength)
    \cup {FlattenSeq(<<<<"a">>>> \o t) : t \in BoundedSeq(Tokens, MaxTokens)}

SomeLines == {<<"x">>}

\* One match or two; the second empty, a digit, an escape or a placeholder.
SomeMatches == {<<<<"y">>>>} \cup {<<<<"y">>, m>> : m \in {<<>>, <<"1">>, <<"\\">>, <<"$", "1">>}}

=============================================================================
