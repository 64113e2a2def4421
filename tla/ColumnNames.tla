----------------------------- MODULE ColumnNames -----------------------------
(***************************************************************************)
(* uniqueColumnNames: the names under which ScanRows stores the columns of *)
(* a row in a map, one turn of its loops at a time.                        *)
(*                                                                         *)
(* A name is a base and the numbers that follow it: "id" has none, "id_2"  *)
(* has the number 2, so that the code's "%s_%d" appends a number.  Every   *)
(* string is one such name in one way (the base does not end in "_k"), so  *)
(* generated and given names collide as they do in the code.               *)
(***************************************************************************)
EXTENDS Integers, Sequences

CONSTANTS
  Bases,   \* the texts in front of the numbers
  Inputs   \* the column lists that queries may return

Name == [base : Bases, nums : Seq(Nat)]

ASSUME InputsAssumption == Inputs \subseteq Seq(Name)

VARIABLES
  columns,    \* the argument
  i,          \* the column the loop is at
  names,      \* the result so far
  used,       \* the names given out
  next,       \* per column, the number to try next
  pc

vars == <<columns, i, names, used, next, pc>>

Cols == {columns[j] : j \in 1 .. Len(columns)}
original == Cols
Suffixed(column, k) == [column EXCEPT !.nums = Append(@, k)]

Init == /\ columns \in Inputs
        /\ i = 1 /\ names = <<>> /\ used = {}
        /\ next = [c \in Cols |-> 0]
        /\ pc = "column"

Column == columns[i]

\* The name under test by the inner loop.
candidate == Suffixed(Column, next[Column])

Give(name) == /\ names' = Append(names, name)
              /\ used' = used \cup {name}
              /\ i' = i + 1

\* The first column of its name keeps it.
Keep_Forgotten ==
  /\ pc = "column" /\ i <= Len(columns) /\ Column \notin used
  /\ names' = Append(names, Column)
  /\ i' = i + 1
  /\ UNCHANGED <<columns, used, next, pc>>
Keep ==
  /\ pc = "column" /\ i <= Len(columns) /\ Column \notin used
  /\ Give(Column)
  /\ UNCHANGED <<columns, next, pc>>

\* A name given out before: numbers from 2 on are tried.
Search ==
  /\ pc = "column" /\ i <= Len(columns) /\ Column \in used
  /\ next' = [next EXCEPT ![Column] = IF @ < 2 THEN 2 ELSE @]
  /\ pc' = "suffix"
  /\ UNCHANGED <<columns, i, names, used>>

Taken_OnlyUsed(name) == name \in used
Taken(name) == name \in used \cup original

Bump_Stuck ==
  /\ pc = "suffix" /\ Taken(candidate)
  /\ UNCHANGED vars
Bump_ByTwo ==
  /\ pc = "suffix" /\ Taken(candidate)
  /\ next' = [next EXCEPT ![Column] = @ + 2]
  /\ UNCHANGED <<columns, i, names, used, pc>>
Bump ==
  /\ pc = "suffix" /\ Taken(candidate)
  /\ next' = [next EXCEPT ![Column] = @ + 1]
  /\ UNCHANGED <<columns, i, names, used, pc>>

Take ==
  /\ pc = "suffix" /\ ~Taken(candidate)
  /\ Give(candidate)
  /\ next' = [next EXCEPT ![Column] = @ + 1]
  /\ pc' = "column"
  /\ UNCHANGED columns

Done == pc = "column" /\ i > Len(columns) /\ UNCHANGED vars

Next == Keep \/ Search \/ Bump \/ Take \/ Done

Spec == Init /\ [][Next]_vars /\ WF_vars(Next)

-----------------------------------------------------------------------------
\* Types of the variables; the result is as long as the loop has come.
TypeOK == /\ columns \in Inputs
          /\ i \in 1 .. Len(columns) + 1
          /\ names \in Seq(Name) /\ Len(names) = i - 1
          /\ used \subseteq Name
          /\ next \in [Cols -> Nat]
          /\ pc \in {"column", "suffix"}
          /\ pc = "suffix" => i <= Len(columns)

\* No two columns of a row share a key, so no value of a row is lost.
NamesAreDistinct ==
  \A j, k \in 1 .. Len(names) : names[j] = names[k] => j = k

\* Only a repeated column is renamed, and its new name is no name that the
\* query itself gave to another column, before it or after it.
RenamedOnlyWhenRepeated ==
  \A j \in 1 .. Len(names) :
    IF \E k \in 1 .. j - 1 : columns[k] = columns[j]
    THEN names[j] \notin Cols
    ELSE names[j] = columns[j]

\* The numbers leave no gap: "_k" is only given when every smaller number from
\* 2 on is taken, by the query or by an earlier column.
NumbersLeaveNoGap ==
  \A j \in 1 .. Len(names) :
    \A n \in 2 .. Len(columns) + 3 :
      \A k \in 2 .. n - 1 : names[j] = Suffixed(columns[j], n) =>
        Suffixed(columns[j], k) \in Cols \cup {names[m] : m \in 1 .. j - 1}

\* The search for a free number ends for every column.
EveryColumnIsNamed == <>(i > Len(columns))
=============================================================================
