----------------------------- MODULE MCToolCalls -----------------------------
(***************************************************************************)
(* Small instances of ToolCalls.                                           *)
(***************************************************************************)
EXTENDS ToolCalls

CONSTANTS k1, k2, t1   \* two rows and a table

Call(tool, keys) == [tool |-> tool, keys |-> keys, confirm |-> FALSE,
                     fault |-> "none", writes |-> FALSE]
Confirmed(r) == [r EXCEPT !.confirm = TRUE]
Writing(r) == [r EXCEPT !.writes = TRUE]
Faulty(r, f) == [r EXCEPT !.fault = f]

\* The tools that look at their arguments before anything else.
Validating == {"describe_table", "inspect_relationships", "inspect_dependencies",
               "show_create_table", "table_size"} \cup QueryTools \cup DMLTools \cup DDLTools

\* Every tool with every combination of confirmation and fault that its
\* handler can meet.
EveryRequest ==
  LET base == {Call(t, <<>>) : t \in ReadTools \cup LocalTools \cup {"explain_query"}}
              \cup {Call("insert_data", <<k1, k2>>), Call("insert_data", <<k1, k1>>)}
              \cup {Call(t, <<k1>>) : t \in {"update_data", "delete_data"}}
              \cup {Call(t, <<t1>>) : t \in DDLTools}
      query == {Call("read_data", <<>>)}
      where == {Call(t, <<k1>>) : t \in {"update_data", "delete_data"}}
      all == base \cup query \cup {Writing(r) : r \in query \cup where}
  IN all \cup {Confirmed(r) : r \in {q \in all : q.tool \in Confirmable}}
         \cup {Faulty(r, "target") : r \in {q \in all : q.tool \in Validating}}
         \cup {Faulty(r, "values") : r \in where \cup {Confirmed(w) : w \in where}}

\* Calls that meet each other on k1 and k2 and on the slots of the pool.
RowRequests ==
  {Call("insert_data", <<k1, k2>>), Call("insert_data", <<k2, k1>>),
   Confirmed(Call("delete_data", <<k1>>)), Call("update_data", <<k2>>),
   Writing(Call("read_data", <<>>)), Call("search_schema", <<>>)}

\* The same and two that meet on a table.
MixedRequests == RowRequests \cup {Call("create_table", <<t1>>),
                                   Confirmed(Call("drop_table", <<t1>>))}

\* The gates of the level and of the confirmation are open for the calls of
\* the runs about interleavings.
OpenInit == Init /\ level = "DDL-RW" /\ requireConfirmation
OpenSpec == OpenInit /\ [][Next]_vars
OpenFairSpec == OpenSpec /\ Fairness
=============================================================================
