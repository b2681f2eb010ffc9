----------------------------- MODULE ActionText -----------------------------
(***************************************************************************)
(* LNActionPreprocessor::run: the command of an up-bound action, with the  *)
(* placeholders $0, $1, ... and $@ replaced by the matches and the log     *)
(* line, and \$ by $.  Each iteration of the loop in                       *)
(* LNUtility::replaceString, which searches from the start again after     *)
(* every replacement, is a step.  Texts are sequences of characters.       *)
(***************************************************************************)
EXTENDS Naturals, Sequences, SequencesExt

CONSTANTS
  Characters, \* what texts are made of
  Actions,    \* the configured actions
  Lines,      \* log lines
  Matches     \* sequences of matches, match 0 first

VARIABLES
  action, line, matches,  \* the arguments of run
  result,
  pc,        \* "match", "replace", "unescape" or "done"
  search,    \* the arguments of replaceString
  replace

args == <<action, line, matches>>
vars == <<action, line, matches, result, pc, search, replace>>

Digits == {"0", "1", "2", "3", "4", "5", "6", "7", "8", "9"}
Escaped == <<"\\", "$">>

ASSUME TextsAssumption ==
  /\ Digits \cup {"@", "$", "\\", " "} \subseteq Characters
  /\ Actions \subseteq Seq(Characters) /\ Lines \subseteq Seq(Characters)
  /\ Matches \subseteq Seq(Seq(Characters))

Init ==
  /\ action \in Actions /\ line \in Lines /\ matches \in Matches
  /\ result = action /\ pc = "match" /\ search = <<>> /\ replace = <<>>

-----------------------------------------------------------------------------
(* The regular expression [^\\](\$[0-9@]+)                                 *)

\* Where the group (\$[0-9@]+) that starts at i ends, if there is one.
GroupEnd(s, i) ==
  CHOOSE j \in i..Len(s) :
    /\ \A k \in (i + 1)..j : s[k] \in Digits \cup {"@"}
    /\ j = Len(s) \/ s[j + 1] \notin Digits \cup {"@"}

Group(s, i) == SubSeq(s, i, GroupEnd(s, i))

\* Mutant of GroupStarts: the escape character is not looked at.
GroupStartsEscaped(s) == {i \in 2..Len(s) : s[i] = "$" /\ GroupEnd(s, i) > i}

\* A match needs a character before the group, and no backslash.
GroupStarts(s) == {i \in 2..Len(s) : s[i] = "$" /\ s[i - 1] # "\\" /\ GroupEnd(s, i) > i}

First(S) == CHOOSE i \in S : \A j \in S : i <= j

\* atoi: the digits up to the first other character.
Digit(c) == CHOOSE d \in 0..9 : c = <<"0", "1", "2", "3", "4", "5", "6", "7", "8", "9">>[d + 1]
atoi(s) ==
  LET end == {i \in 1..Len(s) : s[i] \notin Digits}
      run == IF end = {} THEN s ELSE SubSeq(s, 1, First(end) - 1)
  IN FoldLeft(LAMBDA n, c : 10 * n + Digit(c), 0, run)

\* Mutant of TextFor: a match that does not exist leaves the placeholder.
TextForKept(group) ==
  LET smi == Tail(group) IN
  IF smi = <<"@">> THEN line
  ELSE IF atoi(smi) + 1 \in DOMAIN matches THEN matches[atoi(smi) + 1] ELSE group

\* What replaces a group: the line, a match, or a space.
TextFor(group) ==
  LET smi == Tail(group) IN
  IF smi = <<"@">> THEN line
  ELSE IF atoi(smi) + 1 \in DOMAIN matches THEN matches[atoi(smi) + 1] ELSE <<" ">>

-----------------------------------------------------------------------------
(* The loops                                                               *)

\* pcre_exec: the leftmost group is to be replaced, everywhere; if there is
\* none, what is left to do is to remove the escapes.
FindGroup ==
  /\ pc = "match"
  /\ IF GroupStarts(result) # {}
     THEN LET group == Group(result, First(GroupStarts(result)))
          IN search' = group /\ replace' = TextFor(group) /\ pc' = "replace"
     ELSE search' = Escaped /\ replace' = <<"$">> /\ pc' = "unescape"
  /\ UNCHANGED <<args, result>>

Occurrences(s, t) == {i \in 1..(Len(t) - Len(s) + 1) : SubSeq(t, i, i + Len(s) - 1) = s}

ReplaceOne ==
  /\ pc \in {"replace", "unescape"} /\ Occurrences(search, result) # {}
  /\ result' = ReplaceSubSeqAt(First(Occurrences(search, result)), replace, search, result)
  /\ UNCHANGED <<args, pc, search, replace>>

ReplaceReturns ==
  /\ pc \in {"replace", "unescape"} /\ Occurrences(search, result) = {}
  /\ pc' = IF pc = "replace" THEN "match" ELSE "done"
  /\ UNCHANGED <<args, result, search, replace>>

Next == FindGroup \/ ReplaceOne \/ ReplaceReturns

\* The function runs on in its thread.
Spec == Init /\ [][Next]_vars /\ WF_vars(Next)

-----------------------------------------------------------------------------
(* What README says of an action                                           *)

Dollars(s) == {i \in 1..Len(s) : s[i] = "$"}
IsEscaped(s, i) == i > 1 /\ s[i - 1] = "\\"
Placeholders(s) == {i \in Dollars(s) : ~IsEscaped(s, i)}

\* An action as README asks for it (lines 396-402): every $ is escaped or
\* starts one of $0, $1, ... and $@.  Actions with \\, which stands for a
\* backslash in README:276-277, are left out: the code never makes one of the two.
WellWritten(s) ==
  /\ \A i \in Placeholders(s) :
       \/ Group(s, i) = <<"$", "@">>
       \/ GroupEnd(s, i) > i /\ \A k \in (i + 1)..GroupEnd(s, i) : s[k] \in Digits
  /\ Occurrences(<<"\\", "\\">>, s) = {}

\* No placeholder is the beginning of another, or of one that is escaped.
NoneExtended(s) ==
  \A i \in Placeholders(s), j \in Dollars(s) :
    IsPrefix(Group(s, i), Group(s, j)) => j \in Placeholders(s) /\ Group(s, j) = Group(s, i)

\* The text of a placeholder may go on with the digits of what stands right
\* before it.  If that is a placeholder, it is replaced no later; if it is
\* escaped, it is not the beginning of a placeholder.
NoneJoined(s) ==
  \A i \in Dollars(s), j \in Placeholders(s) :
    GroupEnd(s, i) + 1 = j =>
      IF i \in Placeholders(s)
      THEN \A k \in Placeholders(s) :
             Group(s, k) = Group(s, j) => \E l \in Placeholders(s) : l <= k /\ Group(s, l) = Group(s, i)
      ELSE \A k \in Placeholders(s) : ~IsPrefix(Group(s, i), Group(s, k))

\* The actions the code deals with as README says.  Of WellWritten, README asks
\* all but the absence of \\; the other conditions are the code's alone.
Proper(s) ==
  WellWritten(s) /\ (s # <<>> => s[1] # "$") /\ NoneExtended(s) /\ NoneJoined(s)

\* Texts in which nothing looks like a placeholder or an escape.
Plain(s) == \A i \in 1..Len(s) : s[i] \notin {"$", "\\"}
PlainTexts == Plain(line) /\ \A k \in 1..Len(matches) : Plain(matches[k])

\* The action with some placeholders replaced and some dollars no longer
\* escaped, as what stands in the text for each of its characters.
Pieces(replaced, unescaped) ==
  [i \in 1..Len(action) |->
     IF i \in replaced THEN TextFor(Group(action, i))
     ELSE IF \E j \in replaced : j < i /\ i <= GroupEnd(action, j) THEN <<>>
     ELSE IF action[i] = "\\" /\ i + 1 \in unescaped THEN <<>>
     ELSE <<action[i]>>]

\* Every placeholder of the action is replaced once, and every escape removed.
Documented == FlattenSeq(Pieces(Placeholders(action), Dollars(action) \ Placeholders(action)))

\* monitor.cpp:308-366: although every replacement is made in the whole text and
\* its outcome is matched again, a proper action with plain texts comes out
\* with each placeholder replaced by its text and nothing else changed.
SubstitutesAsDocumented ==
  (pc = "done" /\ Proper(action) /\ PlainTexts) => result = Documented

\* utility.cpp:75-85, monitor.cpp:332: the nested loops end for every action,
\* proper or not, as long as no text holds a $.
SubstitutionEnds ==
  (pc = "match" /\ Dollars(line) = {} /\ \A k \in 1..Len(matches) : Dollars(matches[k]) = {}) ~> pc = "done"

=============================================================================
