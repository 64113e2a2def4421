------------------------------ MODULE MCSqlScan ------------------------------
(***************************************************************************)
(* Texts put together from the pieces that open, close or hide something.  *)
(***************************************************************************)
EXTENDS SqlScan, TLC

CONSTANTS Pieces, MaxPieces   \* and the bound on how many a text has

\* The pieces of ordinary SQL text.
Plain == {<<"sp">>, <<"nl">>, <<"'">>, <<"dq">>, <<"-", "-">>, <<"/", "*">>,
          <<"*", "/">>, <<"$", "$">>, <<"$", "a", "$">>, <<";">>, <<"U">>,
          <<"$", "a">>, <<"$", "b">>, <<"$", "1">>, <<"a">>, <<"hi">>}

\* What the two sides read differently, and what may follow it: a second
\* statement, and what ends the quote for the other side.  A string with a
\* backslash; a tag beyond ASCII; an identifier with dollar signs.
Differing == {<<"'", "bs", "'">>, <<";", "U">>, <<"-", "-", "'">>, <<"sp">>,
              <<"$", "hi", "$">>, <<"a", "$", "b", "$">>, <<"$", "b", "$">>}

Joined(p) == LET join[n \in 0 .. Len(p)] == IF n = 0 THEN <<>> ELSE join[n - 1] \o p[n]
             IN join[Len(p)]

AllTexts == UNION {{<<"S", "sp">> \o Joined(p) : p \in [1 .. n -> Pieces]} : n \in 1 .. MaxPieces}
NameSets == {{}, {<<"a">>}, {<<"a">>, <<"b">>}}
=============================================================================
