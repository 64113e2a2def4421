---------------------------- MODULE CatalogReads ----------------------------
(***************************************************************************)
(* The catalogue tools that need several queries for one answer, each in a *)
(* transaction of its own, while other sessions change the table:          *)
(* describe_table, inspect_relationships, show_create_table and            *)
(* profile_table.                                                          *)
(*                                                                         *)
(* One call is enough here: what calls do to each other through the pool   *)
(* is in ToolCalls.  A query and its answer are one step.                  *)
(***************************************************************************)
EXTENDS Integers, Sequences, SequencesExt

CONSTANTS
  Columns,     \* names of columns
  Unordered,   \* the columns of a type without MIN and MAX, such as jsonb
  Odd,         \* the names that QuoteIdentifier refuses
  Tables,      \* the tables that exist at first or are created
  MaxChanges   \* bound on the changes by other sessions

\* The columns in order, those of the primary key, of the foreign keys, of
\* the other indexes, and those that foreign keys of other tables refer to.
TableType == [exists : BOOLEAN, cols : Seq(Columns), key : SUBSET Columns,
              out : SUBSET Columns, idx : SUBSET Columns, inbound : SUBSET Columns]
NoTable == [exists |-> FALSE, cols |-> <<>>, key |-> {}, out |-> {}, idx |-> {},
            inbound |-> {}]

ASSUME TablesAssumption ==
  Tables \subseteq TableType /\ \A t \in Tables : t.exists /\ IsInjective(t.cols)
ASSUME ChangesAssumption == MaxChanges \in Nat

VARIABLES
  tool, includeSamples,  \* the request
  table,     \* the table it names, as the catalogue has it
  changes,   \* how often that changed since the call began
  expired,   \* the context of the call is done
  pc,
  step,      \* the query of the script, or the column of the loop
  got,       \* the results by what was asked for
  summaries, \* profile_table: one per column; why is not part of the answer
  reply

request == <<tool, includeSamples>>
vars == <<request, table, changes, expired, pc, step, got, summaries, reply>>

Tools == {"describe_table", "inspect_relationships", "show_create_table", "profile_table"}

\* What the queries of each handler ask for; profile_table goes on with a loop.
Script_InboundForgotten(t) ==
  CASE t = "describe_table" -> <<"cols", "key", "out", "idx">>
    [] t = "inspect_relationships" -> <<"out">>
    [] t = "show_create_table" -> <<"cols", "constraints">>
    [] t = "profile_table" -> <<"count", "cols">>
Script(t) ==
  CASE t = "describe_table" -> <<"cols", "key", "out", "idx">>
    [] t = "inspect_relationships" -> <<"out", "inbound">>
    [] t = "show_create_table" -> <<"cols", "constraints">>
    [] t = "profile_table" -> <<"count", "cols">>

Nothing == [cols |-> <<>>, key |-> {}, out |-> {}, idx |-> {}, inbound |-> {},
            constraints |-> {}, count |-> FALSE]

\* The catalogue has no rows for a table that does not exist.
Read(part) == CASE part = "constraints" -> table.key \cup table.out
                [] part = "count" -> table.exists
                [] OTHER -> table[part]

Init == /\ tool \in Tools
        /\ includeSamples \in (IF tool = "profile_table" THEN BOOLEAN ELSE {FALSE})
        /\ table \in Tables \cup {NoTable} /\ changes = 0
        /\ expired = FALSE
        /\ pc = "script" /\ step = 1
        /\ got = Nothing /\ summaries = <<>> /\ reply = "none"

-----------------------------------------------------------------------------
\* The handlers.

Finish(r) == pc' = "done" /\ reply' = r

\* A query fails: the server refuses it, its connection is lost, or the
\* context is done.  Only a failure of MIN and MAX is not the end of the call.
QueryFails ==
  /\ pc \in {"script", "stats", "samples"}
  /\ Finish("error")
  /\ UNCHANGED <<request, table, changes, expired, step, got, summaries>>

\* show_create_table finds no column, or a name that it cannot quote: that of a
\* column, or of a constraint, which PostgreSQL calls after its columns.
Refused(part) ==
  /\ tool = "show_create_table"
  /\ \/ part = "cols" /\ (got'.cols = <<>> \/ ToSet(got'.cols) \cap Odd # {})
     \/ part = "constraints" /\ got'.constraints \cap Odd # {}

AfterScript == IF tool # "profile_table" THEN Finish("ok")
               ELSE pc' = "column" /\ UNCHANGED reply

\* A query of the script is answered.
ScriptAnswered ==
  /\ pc = "script" /\ ~expired
  /\ LET part == Script(tool)[step]
         last == step = Len(Script(tool))
     IN /\ part = "count" => table.exists
        /\ got' = [got EXCEPT ![part] = Read(part)]
        /\ step' = IF last THEN 1 ELSE step + 1
        /\ IF Refused(part) THEN Finish("error")
           ELSE IF last THEN AfterScript ELSE UNCHANGED <<pc, reply>>
  /\ UNCHANGED <<request, table, changes, expired, summaries>>

\* The head of profile_table's loop.
Column == got.cols[step]
More == pc = "column" /\ step <= Len(got.cols)
NextColumn ==
  /\ More
  /\ IF Column \in Odd THEN Finish("error") ELSE pc' = "stats" /\ UNCHANGED reply
  /\ UNCHANGED <<request, table, changes, expired, step, got, summaries>>

StatsAnswered ==
  /\ pc = "stats" /\ ~expired
  /\ Column \in ToSet(table.cols)
  /\ pc' = "minmax"
  /\ UNCHANGED <<request, table, changes, expired, step, got, summaries, reply>>

\* How the MIN and MAX query may end.
Outcomes == IF expired THEN {"deadline", "lost"}
            ELSE {"lost", IF Column \notin ToSet(table.cols) THEN "gone"
                          ELSE IF Column \in Unordered THEN "unsupported"
                          ELSE "none"}

Summary(why) == [name |-> Column, minMaxAvailable |-> why = "none", why |-> why]

\* Any error that is not the context's counts as a type without MIN and MAX.
MinMaxAnswered_AnyError ==
  /\ pc = "minmax"
  /\ \E why \in Outcomes : summaries' = Append(summaries, Summary(why))
  /\ pc' = "column" /\ step' = step + 1
  /\ UNCHANGED <<request, table, changes, expired, got, reply>>
MinMaxAnswered_NotAppended ==
  /\ pc = "minmax"
  /\ \E why \in Outcomes :
       summaries' = IF why = "none" THEN Append(summaries, Summary(why)) ELSE summaries
  /\ pc' = "column" /\ step' = step + 1
  /\ UNCHANGED <<request, table, changes, expired, got, reply>>
MinMaxAnswered ==
  /\ pc = "minmax"
  /\ \E why \in Outcomes :
       IF why # "none" /\ expired
       THEN Finish("error") /\ UNCHANGED <<step, summaries>>
       ELSE /\ summaries' = Append(summaries, Summary(why))
            /\ pc' = "column" /\ step' = step + 1
            /\ UNCHANGED reply
  /\ UNCHANGED <<request, table, changes, expired, got>>

Profiled ==
  /\ pc = "column" /\ ~More
  /\ IF includeSamples THEN pc' = "samples" /\ UNCHANGED reply ELSE Finish("ok")
  /\ UNCHANGED <<request, table, changes, expired, step, got, summaries>>

SamplesAnswered ==
  /\ pc = "samples" /\ ~expired /\ table.exists
  /\ Finish("ok")
  /\ UNCHANGED <<request, table, changes, expired, step, got, summaries>>

Expire ==
  /\ pc # "done" /\ ~expired
  /\ expired' = TRUE
  /\ UNCHANGED <<request, table, changes, pc, step, got, summaries, reply>>

-----------------------------------------------------------------------------
\* Other sessions.

Change(t) ==
  /\ pc # "done" /\ changes < MaxChanges
  /\ table' = t /\ changes' = changes + 1
  /\ UNCHANGED <<request, expired, pc, step, got, summaries, reply>>

CreateTable == ~table.exists /\ \E t \in Tables : Change(t)
DropTable == table.exists /\ Change(NoTable)

AddColumn(c) ==
  /\ table.exists /\ c \notin ToSet(table.cols)
  /\ Change([table EXCEPT !.cols = Append(@, c)])

\* The constraints and indexes of a column go with it.
DropColumn(c) ==
  /\ \E n \in 1 .. Len(table.cols) :
       /\ table.cols[n] = c
       /\ Change([exists |-> TRUE, cols |-> RemoveAt(table.cols, n),
                  key |-> table.key \ {c}, out |-> table.out \ {c},
                  idx |-> table.idx \ {c}, inbound |-> table.inbound \ {c}])

AddConstraint(c) ==
  /\ c \in ToSet(table.cols)
  /\ \E part \in {"out", "idx"} :
       c \notin table[part] /\ Change([table EXCEPT ![part] = @ \cup {c}])

Done == pc = "done" /\ UNCHANGED vars

Handler == \/ ScriptAnswered \/ QueryFails \/ NextColumn \/ StatsAnswered
           \/ MinMaxAnswered \/ Profiled \/ SamplesAnswered
Others == \/ CreateTable \/ DropTable
          \/ \E c \in Columns : AddColumn(c) \/ DropColumn(c) \/ AddConstraint(c)

Next == Handler \/ Expire \/ Others \/ Done

Spec == Init /\ [][Next]_vars

-----------------------------------------------------------------------------
\* Types of the variables; there is a summary for every column behind the loop.
TypeOK ==
  /\ tool \in Tools /\ includeSamples \in BOOLEAN
  /\ table \in TableType /\ changes \in 0 .. MaxChanges
  /\ expired \in BOOLEAN /\ reply \in {"none", "ok", "error"}
  /\ pc \in {"script", "column", "stats", "minmax", "samples", "done"}
  /\ step \in Nat \ {0}
  /\ pc = "script" => step <= Len(Script(tool))
  /\ pc \in {"column", "stats", "minmax", "samples"} => step <= Len(got.cols) + 1
  /\ pc # "script" /\ tool = "profile_table" /\ reply # "error"
       => Len(summaries) = step - 1

\* An answer that nobody disturbed is the table as it is: every part of it is
\* in its place, a missing table is an error where the tool needs one, and
\* the profile tells the columns that have a least and a greatest value from
\* the others, unless it lost a connection.
QuietAnswerIsExact ==
  reply = "ok" /\ changes = 0 =>
    CASE tool = "describe_table" ->
           \A part \in {"cols", "key", "out", "idx"} : got[part] = table[part]
      [] tool = "inspect_relationships" ->
           got.out = table.out /\ got.inbound = table.inbound
      [] tool = "show_create_table" ->
           /\ table.exists /\ got.cols = table.cols
           /\ got.constraints = table.key \cup table.out
      [] tool = "profile_table" ->
           /\ table.exists /\ got.cols = table.cols
           /\ \A s \in ToSet(summaries) : s.why # "lost" =>
                (s.minMaxAvailable <=> s.name \notin Unordered)

\* A profile has one summary for each column it found, in their order, even
\* when the table changed under it; otherwise it is an error.
ProfileIsWhole ==
  reply = "ok" /\ tool = "profile_table" =>
    [n \in 1 .. Len(summaries) |-> summaries[n].name] = got.cols

\* A query that ran into the deadline is never reported as a type without MIN
\* and MAX: profileTable looks at the context before it says so.
DeadlineIsAnError ==
  reply = "ok" => \A s \in ToSet(summaries) : s.why # "deadline"

\* "min/max when supported": only a type without them goes without.
MinMaxWhenSupported ==
  reply = "ok" => \A s \in ToSet(summaries) :
                    ~s.minMaxAvailable => s.name \in Unordered
=============================================================================
