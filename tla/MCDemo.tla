-------------------------------- MODULE MCDemo --------------------------------
(***************************************************************************)
(* Two runs of the starter and one of the client.  Words of four bits: a   *)
(* second has three nanoseconds and integers end at 7.                     *)
(***************************************************************************)
EXTENDS Demo

\* A line in another form.
In(form, line) == [line EXCEPT !.form = form]

\* A plain target with an exported one behind it, and a transport in YAML style.
PlainFirst == <<Line("TARGET", "user"), In("export", Line("TARGET", "user")),
                In("yaml", Line("TRANSPORT", "user"))>>

\* No file; a copy of .env.example with an old target and an empty key; a file
\* of the user's with an exported target; PlainFirst; and one that godotenv
\* cannot read.
ManyFiles == {<<>>, <<Line("API_KEY", "blank"), Line("TARGET", "user")>>,
              <<Line("TRANSPORT", "user"), In("export", Line("TARGET", "user")), Comment>>,
              PlainFirst,
              <<In("broken", Comment), Line("TRANSPORT", "user"), Line("API_KEY", "user")>>}

\* The user adds a key, or chooses HTTP.
AddedLines == {Line("API_KEY", "user"), Line("TRANSPORT", "user")}

\* Every text for one setting at a time.
Plainly == [level |-> Unset, transport |-> Unset, port |-> Unset, connect |-> Unset,
            query |-> Unset, rows |-> Unset, confirm |-> Unset,
            target |-> TRUE, sslMode |-> TRUE, address |-> TRUE]
Numbers == {Number(n) : n \in {-8, -5, -2, 0, 1, 2, 3, 6, 7}} \cup {Unset, Word("soon")}
OneOddSetting ==
  {[Plainly EXCEPT !.query = t] : t \in Numbers}
    \cup {[Plainly EXCEPT !.connect = t] : t \in {Number(-5), Number(6), Word("x")}}
    \cup {[Plainly EXCEPT !.port = t, !.rows = t] : t \in {Number(0), Number(6), Word("x")}}
    \cup {[Plainly EXCEPT !.level = Word(w)] : w \in {"DDL-RW", "admin"}}
    \cup {[Plainly EXCEPT !.confirm = t] : t \in {Word("F"), Word("sometimes")}}
    \cup {[Plainly EXCEPT !.sslMode = FALSE]}
=============================================================================
