------------------------------- MODULE SqlScan -------------------------------
(***************************************************************************)
(* The two scanners of package sqlsafe, a turn of their loops per action:  *)
(* inspectStatement, which decides whether a text is one SELECT and where  *)
(* its terminator is, and BindNamedParameters, which numbers the named     *)
(* placeholders of a WHERE clause.                                         *)
(*                                                                         *)
(* read_data and explain_query inspect the query they are given;           *)
(* mutationTarget wraps the WHERE clause in a SELECT, inspects that, and   *)
(* then binds the clause itself.  The two loops are written separately in  *)
(* the code and have to step over the same quotes and comments.            *)
(***************************************************************************)
EXTENDS SqlText, FiniteSets

CONSTANTS
  Texts,       \* what callers send, as a query or as a WHERE clause
  ParamSets,   \* the sets of names they send values for
  MaxColumns   \* bound on the number of SET columns in front of a WHERE

ASSUME TextsAssumption == \A s \in Texts : s \in Seq(Characters)
ASSUME ColumnsAssumption == MaxColumns \in Nat

VARIABLES
  kind,       \* "select" for a query, "where" for a WHERE clause
  text,       \* what the caller sent
  params,     \* the names it sent values for
  columns,    \* the SET columns of update_data in front of the clause
  execute,    \* whether the change is executed or previewed
  offset,     \* the parameters in front of the clause
  pc,         \* which scanner runs, or how it all ended
  i,          \* the place of the running scanner
  tokens,     \* inspectStatement: the words outside quotes and comments
  semicolon,  \* the terminator, 0 when there is none
  skipped,    \* the places it stepped over as quotes and comments
  positions,  \* BindNamedParameters: the number of each name seen
  args,       \* the names whose values are passed, in order
  out,        \* the rewritten text, each placeholder as "$", "1"
  slots       \* the placeholders: place in text, name and number

input == <<kind, text, params, columns, execute, offset>>
inspected == <<tokens, semicolon, skipped>>
bound == <<positions, args, out, slots>>
vars == <<input, pc, i, inspected, bound>>

\* The SELECT around a WHERE clause, for inspection.
Wrap(where) == <<"S", "sp", "o", "nl">> \o where \o <<"nl", "o">>
Lead == 4

query == IF kind = "where" THEN Wrap(text) ELSE text

\* updateData counts the SET columns only if it executes: its preview is a
\* SELECT without them.
Offset_Always == columns
Offset == IF execute THEN columns ELSE 0

Init ==
  /\ kind \in {"select", "where"}
  /\ text \in Texts
  /\ IF kind = "where"
     THEN params \in ParamSets /\ columns \in 0 .. MaxColumns /\ execute \in BOOLEAN
     ELSE params = {} /\ columns = 0 /\ execute = FALSE
  /\ offset = Offset
  /\ pc = "inspect" /\ i = 1
  /\ tokens = <<>> /\ semicolon = 0 /\ skipped = {}
  /\ positions = <<>> /\ args = <<>> /\ out = <<>> /\ slots = {}

-----------------------------------------------------------------------------
\* inspectStatement.

MutatingKeyword(word) == word = <<"U">>

IsReadOnlyQuery ==
  /\ Len(tokens) > 0 /\ tokens[1] = <<"S">>
  /\ \A n \in 2 .. Len(tokens) : ~MutatingKeyword(tokens[n])

Inspecting == pc = "inspect" /\ i <= Len(query)
LineComment == Pair(query, i, "-", "-")
BlockComment == Pair(query, i, "/", "*")

Reject(why) == pc' = why /\ UNCHANGED <<input, i, inspected, bound>>

\* Step over query[i .. end - 1], or reject what is not terminated.
StepOver(end) ==
  IF end = 0 THEN Reject("unterminated")
  ELSE /\ i' = end
       /\ skipped' = skipped \cup (i .. end - 1)
       /\ UNCHANGED <<input, pc, tokens, semicolon, bound>>

InspectSpace ==
  /\ Inspecting /\ isSpace(query[i])
  /\ i' = i + 1
  /\ UNCHANGED <<input, pc, inspected, bound>>

InspectComment ==
  /\ Inspecting
  /\ \/ LineComment /\ StepOver(LineEnd(query, i + 2))
     \/ BlockComment /\ StepOver(skipBlockComment(query, i))

\* Only white space and comments may follow the terminator.
Significant == Inspecting /\ ~isSpace(query[i]) /\ ~LineComment /\ ~BlockComment
InspectSecond ==
  /\ Significant /\ semicolon > 0
  /\ Reject("second")

Scanning_AfterTerminator == Significant
Scanning == Significant /\ semicolon = 0

InspectSemicolon ==
  /\ Scanning /\ query[i] = ";"
  /\ semicolon' = i /\ i' = i + 1
  /\ UNCHANGED <<input, pc, tokens, skipped, bound>>

InspectQuoted ==
  /\ Scanning /\ query[i] \in {"'", "dq"}
  /\ StepOver(skipQuoted(query, i, query[i]))

Delimiter(s) == IF s[i] = "$" THEN dollarQuoteDelimiter(s, i) ELSE <<>>
InspectDollar ==
  /\ Scanning /\ Delimiter(query) # <<>>
  /\ LET d == Delimiter(query) IN StepOver(Closing(query, i + Len(d), d))

InspectWord ==
  /\ Scanning /\ isIdentifierStart(query[i])
  /\ LET end == WordEnd(query, i)
     IN tokens' = Append(tokens, SubSeq(query, i, end - 1)) /\ i' = end
  /\ UNCHANGED <<input, pc, semicolon, skipped, bound>>

InspectOther ==
  /\ Scanning /\ query[i] \notin {";", "'", "dq"}
  /\ Delimiter(query) = <<>> /\ ~isIdentifierStart(query[i])
  /\ i' = i + 1
  /\ UNCHANGED <<input, pc, inspected, bound>>

\* The end of the text: the verdict, and for an accepted clause the second
\* scanner.
Inspected ==
  /\ pc = "inspect" /\ i > Len(query)
  /\ pc' = IF ~IsReadOnlyQuery THEN "notSelect"
           ELSE IF kind = "where" THEN "bind" ELSE "accepted"
  /\ i' = 1
  /\ UNCHANGED <<input, inspected, bound>>

-----------------------------------------------------------------------------
\* BindNamedParameters.

Binding == pc = "bind" /\ i <= Len(text)

BindCopy(end) ==
  IF end = 0 THEN Reject("unterminatedBind")
  ELSE /\ out' = out \o SubSeq(text, i, end - 1)
       /\ i' = end
       /\ UNCHANGED <<input, pc, inspected, positions, args, slots>>

BindComment ==
  /\ Binding
  /\ \/ Pair(text, i, "-", "-") /\ BindCopy(LineEnd(text, i + 2))
     \/ Pair(text, i, "/", "*") /\ BindCopy(skipBlockComment(text, i))

BindCode == Binding /\ ~Pair(text, i, "-", "-") /\ ~Pair(text, i, "/", "*")

BindQuoted ==
  /\ BindCode /\ text[i] \in {"'", "dq"}
  /\ BindCopy(skipQuoted(text, i, text[i]))

BindDollar ==
  /\ BindCode /\ Delimiter(text) # <<>>
  /\ LET d == Delimiter(text) IN BindCopy(Closing(text, i + Len(d), d))

NoDollarQuote_Forgotten == BindCode
NoDollarQuote == BindCode /\ Delimiter(text) = <<>>

BindPositional ==
  /\ NoDollarQuote /\ Pair(text, i, "$", "1")
  /\ Reject("positional")

Named == At(text, i, "$") /\ i < Len(text) /\ isIdentifierStart(text[i + 1])
Name == SubSeq(text, i + 1, WordEnd(text, i + 2) - 1)

BindMissing ==
  /\ NoDollarQuote /\ Named /\ Name \notin params
  /\ Reject("missing")

\* A name seen before keeps its number.
BindNamed_AlwaysNew ==
  /\ NoDollarQuote /\ Named /\ Name \in params
  /\ args' = Append(args, Name)
  /\ positions' = [n \in DOMAIN positions \cup {Name} |->
                     IF n = Name THEN offset + Len(args') ELSE positions[n]]
  /\ slots' = slots \cup {<<i, Name, positions'[Name]>>}
  /\ out' = out \o <<"$", "1">>
  /\ i' = WordEnd(text, i + 2)
  /\ UNCHANGED <<input, pc, inspected>>
BindNamed ==
  /\ NoDollarQuote /\ Named /\ Name \in params
  /\ IF Name \in DOMAIN positions THEN UNCHANGED <<positions, args>>
     ELSE /\ args' = Append(args, Name)
          /\ positions' = [n \in DOMAIN positions \cup {Name} |->
                             IF n = Name THEN offset + Len(args') ELSE positions[n]]
  /\ slots' = slots \cup {<<i, Name, positions'[Name]>>}
  /\ out' = out \o <<"$", "1">>
  /\ i' = WordEnd(text, i + 2)
  /\ UNCHANGED <<input, pc, inspected>>

BindOther ==
  /\ NoDollarQuote /\ text[i] \notin {"'", "dq"}
  /\ ~Named /\ ~Pair(text, i, "$", "1")
  /\ BindCopy(i + 1)

Bound ==
  /\ pc = "bind" /\ i > Len(text)
  /\ pc' = IF params \subseteq DOMAIN positions THEN "bound" ELSE "unused"
  /\ UNCHANGED <<input, i, inspected, bound>>

Ended == pc \notin {"inspect", "bind"} /\ UNCHANGED vars

Next == \/ InspectSpace \/ InspectComment \/ InspectSecond \/ InspectSemicolon
        \/ InspectQuoted \/ InspectDollar \/ InspectWord \/ InspectOther \/ Inspected
        \/ BindComment \/ BindQuoted \/ BindDollar \/ BindPositional \/ BindMissing
        \/ BindNamed \/ BindOther \/ Bound \/ Ended

Spec == Init /\ [][Next]_vars

-----------------------------------------------------------------------------
\* AppendLimit: the query up to its terminator, wrapped on lines of its own.

Before_WithTerminator(s, stop) == s
Before(s, stop) == IF stop > 0 THEN SubSeq(s, 1, stop - 1) ELSE s
AppendLimit_OneLine(s, stop) == <<"S", "o">> \o Before(s, stop) \o <<"o", "b">>
AppendLimit(s, stop) == <<"S", "o", "nl">> \o Before(s, stop) \o <<"nl", "o", "b">>

-----------------------------------------------------------------------------
reading == PostgresLex(query)

\* package sqlsafe and PostgreSQL read three things differently: a backslash in
\* an ordinary string (skipQuoted), a dollar sign inside an identifier and a
\* character beyond ASCII in the tag of a dollar quote (isIdentifierStart).
\* Texts without any of them are usual, and where a property below says Usual
\* it is about them alone; AcceptedIsOneStatement does not hold of the others.
Usual(s) == ~PostgresLex(s).unusual

\* For a usual text, inspectStatement hides exactly what PostgreSQL reads as
\* quoted or as a comment: it mistakes no string or comment for SQL, and no SQL for one
\* (skipQuoted, skipBlockComment, dollarQuoteDelimiter and the two loops).
MatchesPostgres ==
  Usual(query) =>
    /\ pc \in {"accepted", "notSelect", "bind", "bound"} =>
         skipped = reading.hidden /\ Complete(reading)
    /\ pc = "unterminated" => ~Complete(reading)

\* A usual text that is accepted is one statement: behind its terminator there
\* is nothing but white space and comments (inspectStatement's check once
\* semicolon is set, and the quotes in front of it).
Accepted == pc \in {"accepted", "bind", "bound"}
EndsAtTerminator(s) ==
  LET code == CodeOf(s)
  IN \A n \in code : s[n] = ";" =>
       \A m \in code : m > n => isSpace(s[m])
OneStatement == Accepted /\ Usual(query) => EndsAtTerminator(query)

\* The LIMIT that AppendLimit puts behind an accepted, usual query is never
\* swallowed by a comment or a quote of the query, nor cut off by its terminator.
LimitIsEffective ==
  pc = "accepted" /\ Usual(query) =>
    LET wrapped == AppendLimit(text, semicolon)
        code == CodeOf(wrapped)
    IN /\ {Len(wrapped) - 1, Len(wrapped)} \subseteq code
       /\ \A n \in code : wrapped[n] # ";"

\* The two scanners agree, though each has a loop of its own: what the first
\* one accepts, the second one reads to its end, and it takes nothing for a
\* placeholder that the first one stepped over as a quote or a comment.
ScannersAgree ==
  /\ pc # "unterminatedBind"
  /\ \A slot \in slots : slot[1] + Lead \notin skipped

\* The arguments of the statement that is sent: the values of the SET columns,
\* which have no names, and those of the clause; of a preview, the latter.
allArgs == (IF execute THEN [n \in 1 .. columns |-> <<>>] ELSE <<>>) \o args

\* Every placeholder of the rewritten clause has the number of the argument
\* with its name, in the statement as in its preview, and a name that occurs
\* again is not passed again: the SET columns in front and the clause share one
\* list of arguments (updateData and BindNamedParameters).
NumbersFitArguments ==
  /\ \A slot \in slots : /\ slot[3] \in 1 .. Len(allArgs)
                         /\ allArgs[slot[3]] = slot[2]
  /\ \A m, n \in 1 .. Len(args) : args[m] = args[n] => m = n

\* Numbering the placeholders of a usual clause leaves every string and comment
\* as it was: for PostgreSQL the rewritten clause has the same quoted text.
HiddenText(s) == LET hidden == PostgresLex(s).hidden
                 IN [n \in 1 .. Cardinality(hidden) |->
                       s[CHOOSE m \in hidden : Cardinality({l \in hidden : l <= m}) = n]]
QuotedTextIsKept == pc = "bound" /\ Usual(text) => HiddenText(out) = HiddenText(text)

\* "rejects multiple statements without mistaking strings or comments for SQL":
\* whatever an accepted text has in it, PostgreSQL reads it as one statement if
\* it reads it to its end.
AcceptedIsOneStatement == Accepted /\ Complete(reading) => EndsAtTerminator(query)
=============================================================================
