------------------------------- MODULE SqlText -------------------------------
(***************************************************************************)
(* SQL text and the parts of it that package sqlsafe steps over, against   *)
(* the lexical rules of PostgreSQL.                                        *)
(*                                                                         *)
(* A text is a sequence of characters, one per class that the scanners     *)
(* tell apart: "sp" and "nl" for white space, "dq" and "bs" for the double *)
(* quote and the backslash, "hi" for one beyond ASCII, "o" for any other.  *)
(* The letters "S" and "U" stand for a whole keyword (SELECT, UPDATE), so  *)
(* a word of that one letter is the keyword.                               *)
(***************************************************************************)
EXTENDS Integers, Sequences

Letters == {"S", "U", "a", "b"}
Characters == Letters \cup {"1", "sp", "nl", "'", "dq", "bs", "-", "/", "*", "$", ";", "hi", "o"}
isSpace(c) == c \in {"sp", "nl"}
isIdentifierStart(c) == c \in Letters
isIdentifierPart(c) == c \in Letters \cup {"1"}

At(s, i, c) == i <= Len(s) /\ s[i] = c
Pair(s, i, c, d) == At(s, i, c) /\ At(s, i + 1, d)

\* Functions below return the place after what they step over, or 0 when the
\* text ends before it does.

First(places) == CHOOSE n \in places : \A m \in places : n <= m

\* The line end, or the end of the text, from i on.
LineEnd(s, i) == First({j \in i .. Len(s) : s[j] = "nl"} \cup {Len(s) + 1})

WordEnd(s, i) == First({j \in i .. Len(s) : ~isIdentifierPart(s[j])} \cup {Len(s) + 1})

\* A doubled quote is part of the quoted text, and a backslash hides the
\* character after it when the quote is a single one.
skipQuoted(s, start, quote) ==
  LET skip[i \in Nat] ==
        IF i > Len(s) THEN 0
        ELSE IF s[i] = "bs" /\ quote = "'" /\ i < Len(s) THEN skip[i + 2]
        ELSE IF s[i] # quote THEN skip[i + 1]
        ELSE IF At(s, i + 1, quote) THEN skip[i + 2]
        ELSE i + 1
  IN skip[start + 1]

\* Block comments nest.
skipBlockComment_Flat(s, start) ==
  LET skip[i \in Nat] == IF i > Len(s) THEN 0
                         ELSE IF Pair(s, i, "*", "/") THEN i + 2
                         ELSE skip[i + 1]
  IN skip[start + 2]
skipBlockComment(s, start) ==
  LET skip[at \in Nat \X (Nat \ {0})] ==
        LET i == at[1]
            depth == at[2]
        IN IF i > Len(s) THEN 0
           ELSE IF Pair(s, i, "/", "*") THEN skip[<<i + 2, depth + 1>>]
           ELSE IF Pair(s, i, "*", "/")
           THEN IF depth = 1 THEN i + 2 ELSE skip[<<i + 2, depth - 1>>]
           ELSE skip[<<i + 1, depth>>]
  IN skip[<<start + 2, 1>>]

\* The delimiter $$ or $word$ that starts at a dollar sign, <<>> if none does.
dollarQuoteDelimiter(s, start) ==
  LET end == WordEnd(s, start + 1)
      digit == At(s, start + 1, "1")
  IN IF At(s, end, "$") /\ ~digit THEN SubSeq(s, start, end) ELSE <<>>

\* The place after the first occurrence of d from i on.
Closing(s, i, d) ==
  LET found == {j \in i .. Len(s) - Len(d) + 1 : SubSeq(s, j, j + Len(d) - 1) = d}
  IN IF found = {} THEN 0 ELSE First(found) + Len(d)

-----------------------------------------------------------------------------
\* PostgreSQL's own reading, one character at a time: how far the lexer is
\* (mode), the depth of comments, the delimiter of a dollar quote and the text
\* since it (buf), and which places lie inside quotes and comments (hidden).
\* A character beyond ASCII is a letter, so a word and the tag of a dollar quote
\* may have it; an identifier goes on over a dollar sign; and a backslash means
\* nothing in an ordinary '...' string.  package sqlsafe knows none of the three.
\* unusual says that a text had a backslash in a string, a dollar sign in an
\* identifier or a "hi" in a tag; with a "hi" in a word the two readings are
\* compared like any other.

isLetter(c) == isIdentifierStart(c) \/ c = "hi"

Start == [mode |-> "code", depth |-> 0, tag |-> <<>>, buf |-> <<>>, hidden |-> {},
          unusual |-> FALSE]

Hide(q, places) == [q EXCEPT !.hidden = @ \cup places]
Enter(q, mode) == [q EXCEPT !.mode = mode]

\* Ordinary text; "dash" and "slash" have seen the first half of a pair.
InCode(q, c, i) ==
  CASE c = "-" -> IF q.mode = "dash" THEN Hide(Enter(q, "line"), {i - 1, i})
                  ELSE Enter(q, "dash")
    [] c = "/" -> Enter(q, "slash")
    [] c = "*" /\ q.mode = "slash" ->
         Hide([Enter(q, "block") EXCEPT !.depth = 1, !.buf = <<>>], {i - 1, i})
    [] c = "'" -> Hide(Enter(q, "'"), {i})
    [] c = "dq" -> Hide(Enter(q, "dq"), {i})
    [] c = "$" -> IF q.mode = "word" THEN [q EXCEPT !.unusual = TRUE]
                  ELSE [Enter(q, "tag") EXCEPT !.buf = <<"$">>]
    [] isLetter(c) \/ (q.mode = "word" /\ isIdentifierPart(c)) -> Enter(q, "word")
    [] OTHER -> Enter(q, "code")

InTag(q, c, i) ==
  LET tag == Append(q.buf, c)
  IN CASE c = "$" -> Hide([Enter(q, "body") EXCEPT !.tag = tag, !.buf = <<>>],
                          i - Len(tag) + 1 .. i)
       [] isIdentifierPart(c) /\ ~(c = "1" /\ Len(tag) = 2) -> [q EXCEPT !.buf = tag]
       [] c = "hi" -> [q EXCEPT !.buf = tag, !.unusual = TRUE]
       [] OTHER -> InCode(Enter(q, "code"), c, i)

\* buf is the first half of a pair that may open or close a comment.
InBlock(q, c) ==
  CASE q.buf = <<"/">> /\ c = "*" -> [q EXCEPT !.depth = @ + 1, !.buf = <<>>]
    [] q.buf = <<"*">> /\ c = "/" ->
         [Enter(q, IF q.depth = 1 THEN "code" ELSE "block")
            EXCEPT !.depth = @ - 1, !.buf = <<>>]
    [] OTHER -> [q EXCEPT !.buf = <<c>>]

InBody(q, c) ==
  LET buf == Append(q.buf, c)
      n == Len(q.tag)
      closed == Len(buf) >= n /\ SubSeq(buf, Len(buf) - n + 1, Len(buf)) = q.tag
  IN IF closed THEN Enter(q, "code") ELSE [q EXCEPT !.buf = buf]

Step(q, c, i) ==
  CASE q.mode = "line" -> IF c = "nl" THEN Enter(q, "code") ELSE Hide(q, {i})
    [] q.mode \in {"'", "dq"} ->
         Hide([(IF c = q.mode THEN Enter(q, "code") ELSE q)
                 EXCEPT !.unusual = @ \/ (c = "bs" /\ q.mode = "'")], {i})
    [] q.mode = "block" -> Hide(InBlock(q, c), {i})
    [] q.mode = "body" -> Hide(InBody(q, c), {i})
    [] q.mode = "tag" -> InTag(q, c, i)
    [] OTHER -> InCode(q, c, i)

PostgresLex(s) ==
  LET lex[i \in 0 .. Len(s)] == IF i = 0 THEN Start ELSE Step(lex[i - 1], s[i], i)
  IN lex[Len(s)]

\* The text ends outside quotes and block comments.
Complete(q) == q.mode \notin {"'", "dq", "block", "body"}

\* The places of text that is neither quoted nor a comment.
CodeOf(s) == 1 .. Len(s) \ PostgresLex(s).hidden
=============================================================================
