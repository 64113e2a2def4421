---------------------------- MODULE MCHttpService ----------------------------
(***************************************************************************)
(* A call over the life of the process.                                    *)
(***************************************************************************)
EXTENDS HttpService

CONSTANTS k1, k2

Call(tool, keys) == [tool |-> tool, keys |-> keys, confirm |-> TRUE,
                     fault |-> "none", writes |-> FALSE]

\* A transaction of two rows, a statement on rows and one on a table that
\* commit by themselves, and two queries with a wait for a connection between
\* them.
ServiceRequests == {Call("insert_data", <<k1, k2>>), Call("delete_data", <<k1>>),
                    Call("drop_table", <<k1>>), Call("search_schema", <<>>)}

\* The gates are open for all four.
OpenServiceInit == ServiceInit /\ level = "DDL-RW" /\ requireConfirmation
OpenServiceSpec == OpenServiceInit /\ [][ServiceNext]_allVars /\ ServiceFairness
=============================================================================
