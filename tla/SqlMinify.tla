----------------------------- MODULE SqlMinify -----------------------------
(* SqlUtil.minify: the automaton every rendered statement passes through    *)
(* before it is sent.  It drops comments, keeps hints and quoted text, and  *)
(* folds blanks.  A statement is put together from Fragments (each a        *)
(* sequence of characters), and the automaton reads it character by         *)
(* character.                                                               *)
EXTENDS Naturals, Sequences, SequencesExt, FiniteSetsExt

CONSTANTS Fragments,     \* the pieces a statement is written with
          MaxFragments   \* bound: pieces of one statement

VARIABLE text            \* the statement: a sequence of fragments

White == {" ", "\n"}
Sql == FlattenSeq(text)

(* The state and the appended text, for the states that share a transition: *)
(* CONTENT, QUOTE_DONE and IN_SPACE start whatever the character starts.    *)
Content(ch) ==
  CASE ch = "'"   -> [state |-> "SINGLE_QUOTE", add |-> <<ch>>]
    [] ch = "\""  -> [state |-> "DOUBLE_QUOTE", add |-> <<ch>>]
    [] ch = "-"   -> [state |-> "MAY_BE_FIRST_COMMENT", add |-> <<>>]
    [] ch = "#"   -> [state |-> "IN_COMMENT", add |-> <<>>]
    [] ch = "/"   -> [state |-> "MAY_BE_FIRST_BLOCK_COMMENT", add |-> <<>>]
    [] OTHER      -> [state |-> "CONTENT", add |-> <<ch>>]

(* After one '-' or one '/': only the second character of the opener makes  *)
(* a comment; anything else is content, or opens a string.                  *)
AfterFirst(ch, first, second, next) ==
  IF ch = second THEN [state |-> next, add |-> <<>>]
  ELSE [state |-> CASE ch = "'" -> "SINGLE_QUOTE"
                    [] ch = "\"" -> "DOUBLE_QUOTE"
                    [] OTHER -> "CONTENT",
        add |-> <<first, ch>>]

(* The end of a comment leaves a blank unless one is there already. *)
Gap(ret) == IF ret # <<>> /\ Last(ret) \notin White THEN <<" ">> ELSE <<>>

(* One iteration of the loop: what the state machine does with the i-th     *)
(* character of sql, having put ret out.                                    *)
Read(state, ret, sql, i) ==
  LET ch == sql[i]
      next == IF i < Len(sql) THEN sql[i + 1] ELSE ""
      go(s, add) == [state |-> s, add |-> add]
      quoted(q, s) == go(CASE ch = "\\" -> "BACKSLASH_AFTER_" \o s
                           [] ch = q -> "QUOTE_DONE"
                           [] OTHER -> s, <<ch>>) IN
  CASE state = "START" ->
         CASE ch \in White -> go(state, <<>>)
           [] ch = "/" -> IF next = "+" THEN go("AT_PLUS", <<"/", "*", "+">>)
                                        ELSE go("IN_BLOCK_COMMENT", <<>>)
           [] OTHER -> Content(ch)
    [] state = "AT_PLUS" -> go("IN_BLOCK_COMMENT_HINT", <<>>)    \* i++: the plus is skipped
    [] state \in {"CONTENT", "QUOTE_DONE"} ->
         IF ch \in White THEN go("IN_SPACE", <<" ">>) ELSE Content(ch)
    [] state = "IN_SPACE" -> IF ch \in White THEN go(state, <<>>) ELSE Content(ch)
    [] state = "MAY_BE_FIRST_COMMENT" -> AfterFirst(ch, "-", "-", "IN_COMMENT_WAIT_HINT")
    [] state = "MAY_BE_FIRST_BLOCK_COMMENT" ->
         AfterFirst(ch, "/", "*", "IN_BLOCK_COMMENT_WAIT_HINT")
    [] state = "IN_COMMENT_WAIT_HINT" ->
         IF ch = "+" THEN go("IN_COMMENT_HINT", <<"-", "-", "+">>) ELSE go("IN_COMMENT", <<>>)
    [] state = "IN_BLOCK_COMMENT_WAIT_HINT" ->
         IF ch = "+" THEN go("IN_BLOCK_COMMENT_HINT", <<"/", "*", "+">>)
                     ELSE go("IN_BLOCK_COMMENT", <<>>)
    [] state = "IN_COMMENT" -> IF ch = "\n" THEN go("IN_SPACE", Gap(ret)) ELSE go(state, <<>>)
    [] state = "IN_COMMENT_HINT" ->
         go(IF ch = "\n" THEN "IN_SPACE" ELSE state, <<ch>>)
    [] state = "IN_BLOCK_COMMENT" ->
         go(IF ch = "*" THEN "MAY_BE_LAST_BLOCK_COMMENT" ELSE state, <<>>)
    [] state = "MAY_BE_LAST_BLOCK_COMMENT" ->
         IF ch = "/" THEN go("IN_SPACE", Gap(ret)) ELSE go("IN_BLOCK_COMMENT", <<>>)
    [] state = "IN_BLOCK_COMMENT_HINT" ->
         go(IF ch = "*" THEN "MAY_BE_LAST_BLOCK_COMMENT_HINT" ELSE state, <<ch>>)
    [] state = "MAY_BE_LAST_BLOCK_COMMENT_HINT" ->
         IF ch = "/" THEN go("IN_SPACE", IF next \in White THEN <<ch, next>> ELSE <<ch>>)
                     ELSE go("IN_BLOCK_COMMENT_HINT", <<ch>>)
    [] state = "SINGLE_QUOTE" -> quoted("'", state)
    [] state = "DOUBLE_QUOTE" -> quoted("\"", state)
    [] state = "BACKSLASH_AFTER_SINGLE_QUOTE" -> go("SINGLE_QUOTE", <<ch>>)
    [] state = "BACKSLASH_AFTER_DOUBLE_QUOTE" -> go("DOUBLE_QUOTE", <<ch>>)

Run(sql) ==
  FoldLeft(LAMBDA acc, i : LET to == Read(acc.state, acc.ret, sql, i) IN
                           [state |-> to.state, ret |-> acc.ret \o to.add],
           [state |-> "START", ret |-> <<>>], [i \in DOMAIN sql |-> i]).ret

Trim(s) ==
  LET Black == {i \in DOMAIN s : s[i] \notin White} IN
  IF Black = {} THEN <<>> ELSE SubSeq(s, Min(Black), Max(Black))

Minify(sql) == Trim(Run(sql))

(***************************************************************************)
(* What the database reads in a statement, from the language and not from  *)
(* the automaton: a comment is a blank, blanks are one blank, and strings  *)
(* and hints are kept whole.                                               *)
(***************************************************************************)
Ends(s, closing) == {i \in 1..Len(s) : \E k \in 1..i :
                       /\ k = i + 1 - Len(closing)
                       /\ SubSeq(s, k, i) = closing}
LeastOf(S, other) == IF S = {} THEN other ELSE CHOOSE i \in S : \A j \in S : i <= j
From(s, i) == SubSeq(s, i, Len(s))
Opens(s, opening) == Len(s) >= Len(opening) /\ SubSeq(s, 1, Len(opening)) = opening

(* The end of the string s begins with: a backslash keeps the next one in. *)
Closing(s) ==
  LeastOf({i \in 2..Len(s) : /\ s[i] = s[1]
                             /\ \A j \in 2..(i - 1) : s[j] # s[1] \/ s[j - 1] = "\\"
                             /\ s[i - 1] # "\\"}, Len(s))

Blank == <<" ">>
IsHint(token) == Opens(token, <<"/", "*", "+">>) \/ Opens(token, <<"-", "-", "+">>)

IsLine(token) == Opens(token, <<"-", "-">>) \/ Opens(token, <<"#">>)
IsComment(token) == ~IsHint(token) /\ (IsLine(token) \/ Opens(token, <<"/", "*">>))

(* The tokens of s: comments, hints, strings, and single characters.        *)
Tokens(s) ==
  LET from[n \in 1 .. Len(s) + 1] ==
        LET rest == From(s, n)
            upTo(closing, k) == k - 1 + LeastOf(Ends(From(rest, k), closing), Len(rest) - k + 1)
            take(end) == <<SubSeq(rest, 1, end)>> \o from[n + end] IN
        CASE rest = <<>> -> <<>>
          [] IsLine(rest) -> take(upTo(<<"\n">>, 1))
          [] Opens(rest, <<"/", "*">>) -> take(upTo(<<"*", "/">>, 3))
          [] Opens(rest, <<"'">>) \/ Opens(rest, <<"\"">>) -> take(Closing(rest))
          [] OTHER -> take(1) IN
  from[1]

Lexed(s) ==
  LET tokens == Tokens(s) IN
  [i \in DOMAIN tokens |->
     IF IsComment(tokens[i]) \/ tokens[i][1] \in White THEN Blank ELSE tokens[i]]

(* Blanks separate, and separate once; at the ends, and beside a hint, they *)
(* mean nothing.                                                            *)
Meaning(s) ==
  LET idle(acc) == acc = <<>> \/ Last(acc) = Blank \/ IsHint(Last(acc))
      bare(acc) == IF acc # <<>> /\ Last(acc) = Blank THEN Front(acc) ELSE acc IN
  bare(FoldLeft(LAMBDA acc, token :
                  CASE token = Blank -> IF idle(acc) THEN acc ELSE Append(acc, token)
                    [] IsHint(token) -> Append(bare(acc), token)
                    [] OTHER -> Append(acc, token),
                <<>>, Lexed(s)))

-----------------------------------------------------------------------------
Init == text = <<>>

(* The template renders one more piece of the statement. *)
Write(f) == /\ Len(text) < MaxFragments
            /\ text' = Append(text, f)

Next == \E f \in Fragments : Write(f)

Spec == Init /\ [][Next]_text

-----------------------------------------------------------------------------
TypeOK == text \in BoundedSeq(Fragments, MaxFragments)

(* What the automaton is known to misread.  The character after "--" is     *)
(* never the end of the line for it, nor a "*" after a "*" the first half   *)
(* of an end: an empty line comment and a block that ends in "**/" go on    *)
(* over what follows.  The statement does not begin with a hint for it.     *)
(* And what follows a lone "-" or "/" opens no line comment for it, whose   *)
(* text then stays while its end of line becomes a blank.                   *)
Misread(s) ==
  LET tokens == Tokens(s) IN
  \/ \E i \in DOMAIN tokens :
        \/ tokens[i] = <<"-", "-", "\n">>
        \/ IsComment(tokens[i]) /\ IsSuffix(<<"*", "*", "/">>, tokens[i])
        \/ i > 1 /\ IsLine(tokens[i]) /\ tokens[i - 1] \in {<<"-">>, <<"/">>}
  \/ \E n \in DOMAIN tokens :
        /\ Opens(tokens[n], <<"/", "*", "+">>)
        /\ \A i \in 1..(n - 1) : tokens[i][1] \in White

(***************************************************************************)
(* What is sent means what was rendered, unless the automaton is known to  *)
(* misread it: no comment swallows what follows it, no hint is lost,       *)
(* nothing inside a string is taken for a comment (SqlUtil.test.ts:        *)
(* preserve SQL hint and remove normal comments).                          *)
(***************************************************************************)
MinifyKeepsTheStatement == Misread(Sql) \/ Meaning(Minify(Sql)) = Meaning(Sql)
=============================================================================
