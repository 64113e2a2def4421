-------------------------- MODULE CatalogReadsProofs --------------------------
(***************************************************************************)
(* profile_table on tables of any number of columns that other sessions    *)
(* change any number of times.                                             *)
(***************************************************************************)
EXTENDS CatalogReads, TLAPS

Whys == {"none", "unsupported", "gone", "lost", "deadline"}
SummaryType == [name : Columns, minMaxAvailable : BOOLEAN, why : Whys]
GotType == [cols : Seq(Columns), key : SUBSET Columns, out : SUBSET Columns,
            idx : SUBSET Columns, inbound : SUBSET Columns,
            constraints : SUBSET Columns, count : BOOLEAN]

Types == /\ tool \in Tools /\ includeSamples \in BOOLEAN /\ changes \in 0 .. MaxChanges
         /\ table \in TableType /\ got \in GotType
         /\ summaries \in Seq(SummaryType)
         /\ step \in Nat \ {0} /\ expired \in BOOLEAN
         /\ pc \in {"script", "column", "stats", "minmax", "samples", "done"}
         /\ reply \in {"none", "ok", "error"}

\* Where the handler is in its script or in its loop.
Loop == {"column", "stats", "minmax", "samples"}
InPlace ==
  /\ reply = "none" <=> pc # "done"
  /\ pc = "script" => step <= Len(Script(tool))
  /\ pc \in Loop => tool = "profile_table"
  /\ pc = "column" => step <= Len(got.cols) + 1
  /\ pc \in {"stats", "minmax"} => step <= Len(got.cols)
  /\ pc = "samples" \/ (reply = "ok" /\ tool = "profile_table") => step = Len(got.cols) + 1

\* The summaries are those of the columns behind the loop, and none stands for
\* a deadline.
Behind ==
  /\ pc = "script" => summaries = <<>>
  /\ pc \in Loop \/ (reply = "ok" /\ tool = "profile_table") =>
       /\ Len(summaries) = step - 1
       /\ \A n \in 1 .. Len(summaries) : summaries[n].name = got.cols[n]
  /\ \A n \in 1 .. Len(summaries) : summaries[n].why # "deadline"

ReadsInv == Types /\ InPlace /\ Behind

-----------------------------------------------------------------------------
\* What a query of a script returns has the type of its place in the results.
LEMMA ReadType ==
  ASSUME Types, InPlace, pc = "script"
  PROVE  /\ Len(Script(tool)) \in Nat \ {0}
         /\ Script(tool)[step] \in DOMAIN got
         /\ [got EXCEPT ![Script(tool)[step]] = Read(Script(tool)[step])] \in GotType
<1>1. Len(Script(tool)) \in Nat \ {0} /\ step \in 1 .. Len(Script(tool))
  BY DEF Types, InPlace, Tools, Script
<1>2. Script(tool)[step] \in {"cols", "key", "out", "idx", "inbound", "constraints", "count"}
  BY <1>1 DEF Types, Tools, Script
<1>3. ASSUME NEW part \in {"cols", "key", "out", "idx", "inbound", "constraints", "count"}
      PROVE  part \in DOMAIN got /\ [got EXCEPT ![part] = Read(part)] \in GotType
  BY <1>3 DEF Types, GotType, TableType, Read
<1> QED BY <1>1, <1>2, <1>3

\* Other sessions leave a table of its type.
LEMMA OthersKeepType == Types /\ Others => table' \in TableType
<1> SUFFICES ASSUME Types, Others PROVE table' \in TableType
  OBVIOUS
<1> USE DEF Types, TableType, Change
<1>1. CASE CreateTable
  BY <1>1, TablesAssumption DEF CreateTable
<1>2. CASE DropTable
  BY <1>2 DEF DropTable, NoTable
<1>3. ASSUME NEW c \in Columns, AddColumn(c) PROVE table' \in TableType
  <2>1. Append(table.cols, c) \in Seq(Columns)
    OBVIOUS
  <2>2. table' = [table EXCEPT !.cols = Append(table.cols, c)]
    BY <1>3 DEF AddColumn
  <2> QED BY <2>1, <2>2
<1>4. ASSUME NEW c \in Columns, DropColumn(c) PROVE table' \in TableType
  <2>1. PICK n \in 1 .. Len(table.cols) :
          table' = [exists |-> TRUE, cols |-> RemoveAt(table.cols, n),
                    key |-> table.key \ {c}, out |-> table.out \ {c},
                    idx |-> table.idx \ {c}, inbound |-> table.inbound \ {c}]
    BY <1>4 DEF DropColumn
  <2>2. RemoveAt(table.cols, n) \in Seq(Columns)
    BY DEF RemoveAt
  <2> QED BY <2>1, <2>2
<1>5. ASSUME NEW c \in Columns, AddConstraint(c) PROVE table' \in TableType
  <2>1. PICK part \in {"out", "idx"} : table' = [table EXCEPT ![part] = @ \cup {c}]
    BY <1>5 DEF AddConstraint
  <2>2. CASE part = "out" BY <2>1, <2>2
  <2>3. CASE part = "idx" BY <2>1, <2>3
  <2> QED BY <2>2, <2>3
<1> QED BY <1>1, <1>2, <1>3, <1>4, <1>5 DEF Others

\* The invariant holds at the start.
LEMMA ReadsStart == Init => ReadsInv
<1> SUFFICES ASSUME Init PROVE ReadsInv
  OBVIOUS
<1>1. Types
  <2>0. <<>> \in Seq(Columns) /\ <<>> \in Seq(SummaryType)
    OBVIOUS
  <2>1. table \in TableType
    <3>1. NoTable \in TableType
      BY <2>0 DEF NoTable, TableType
    <3> QED BY <3>1, TablesAssumption DEF Init
  <2>2. got \in GotType
    BY <2>0 DEF Init, Nothing, GotType
  <2>3. tool \in Tools /\ summaries = <<>> /\ step = 1 /\ expired = FALSE
        /\ pc = "script" /\ reply = "none"
    BY DEF Init
  <2>4. summaries \in Seq(SummaryType)
    BY <2>0, <2>3
  <2>5. step \in Nat \ {0}
    BY <2>3
  <2>6. includeSamples \in BOOLEAN
    BY DEF Init
  <2>7. changes \in 0 .. MaxChanges
    BY ChangesAssumption DEF Init
  <2> QED BY <2>1, <2>2, <2>3, <2>4, <2>5, <2>6, <2>7, Zenon DEF Types
<1>2. Len(Script(tool)) >= 1
  BY DEF Init, Tools, Script
<1>3. pc = "script" /\ reply = "none" /\ step = 1 /\ summaries = <<>>
  BY DEF Init
<1>4. InPlace
  BY <1>2, <1>3 DEF InPlace, Loop
<1>5. Behind
  BY <1>3 DEF Behind, Loop
<1> QED BY <1>1, <1>4, <1>5 DEF ReadsInv

\* Every step keeps it.
LEMMA ReadsGoOn == ReadsInv /\ [Next]_vars => ReadsInv'
<1> SUFFICES ASSUME ReadsInv, [Next]_vars PROVE ReadsInv'
  OBVIOUS
<1>0. Types /\ InPlace /\ Behind
  BY DEF ReadsInv
<1>1. CASE ScriptAnswered
  <2>1. got' = [got EXCEPT ![Script(tool)[step]] = Read(Script(tool)[step])]
        /\ step' = (IF step = Len(Script(tool)) THEN 1 ELSE step + 1)
        /\ pc = "script" /\ UNCHANGED <<request, changes, table, expired, summaries>>
    BY <1>1 DEF ScriptAnswered, request
  <2>2. Len(Script(tool)) \in Nat \ {0} /\ got' \in GotType
    BY <1>0, <2>1, ReadType
  <2>3. \/ pc' = "done" /\ reply' = "error"
        \/ step = Len(Script(tool)) /\ tool # "profile_table" /\ pc' = "done" /\ reply' = "ok"
        \/ step = Len(Script(tool)) /\ tool = "profile_table" /\ pc' = "column" /\ reply' = reply
        \/ step # Len(Script(tool)) /\ pc' = pc /\ reply' = reply
    BY <1>1 DEF ScriptAnswered, AfterScript, Finish
  <2>4. Len(got'.cols) \in Nat
    BY <2>2 DEF GotType
  <2>5. step' \in Nat \ {0} /\ (step # Len(Script(tool)) => step' <= Len(Script(tool)))
        /\ (step = Len(Script(tool)) => step' = 1)
    BY <1>0, <2>1, <2>2 DEF Types, InPlace
  <2>6. summaries = <<>> /\ reply = "none"
    BY <1>0, <2>1 DEF Behind, InPlace
  <2> QED
    BY <1>0, <2>1, <2>2, <2>3, <2>4, <2>5, <2>6 DEF request, ReadsInv, Types, InPlace, Behind, Loop
<1>2. CASE QueryFails
  BY <1>0, <1>2 DEF QueryFails, Finish, request, ReadsInv, Types, InPlace, Behind, Loop
<1>3. CASE NextColumn
  BY <1>0, <1>3
  DEF NextColumn, More, Finish, request, ReadsInv, Types, InPlace, Behind, Loop
<1>4. CASE StatsAnswered
  BY <1>0, <1>4 DEF StatsAnswered, request, ReadsInv, Types, InPlace, Behind, Loop
<1>5. CASE MinMaxAnswered
  <2>1. PICK why \in Outcomes :
          IF why # "none" /\ expired
          THEN Finish("error") /\ UNCHANGED <<step, summaries>>
          ELSE /\ summaries' = Append(summaries, Summary(why))
               /\ pc' = "column" /\ step' = step + 1
               /\ UNCHANGED reply
    BY <1>5 DEF MinMaxAnswered
  <2>2. pc = "minmax" /\ UNCHANGED <<request, changes, table, expired, got>>
    BY <1>5 DEF MinMaxAnswered, request
  <2>3. CASE why # "none" /\ expired
    BY <1>0, <2>1, <2>2, <2>3 DEF Finish, request, ReadsInv, Types, InPlace, Behind, Loop
  <2>4. CASE ~(why # "none" /\ expired)
    <3>1. why \in Whys /\ why # "deadline"
      BY <1>0, <2>4 DEF Outcomes, Whys, Types
    <3>2. got.cols \in Seq(Columns) /\ step \in 1 .. Len(got.cols)
      BY <1>0, <2>2 DEF Types, InPlace, GotType
    <3>3. Summary(why) \in SummaryType /\ Summary(why).name = got.cols[step]
          /\ Summary(why).why = why
      BY <3>1, <3>2 DEF Summary, SummaryType, Column
    <3>4. summaries \in Seq(SummaryType) /\ Len(summaries) = step - 1
          /\ (\A n \in 1 .. Len(summaries) : summaries[n].name = got.cols[n])
          /\ (\A n \in 1 .. Len(summaries) : summaries[n].why # "deadline")
      BY <1>0, <2>2 DEF Types, Behind, Loop
    <3>5. summaries' = Append(summaries, Summary(why))
      BY <2>1, <2>4
    <3>6. /\ summaries' \in Seq(SummaryType) /\ Len(summaries') = step
          /\ \A n \in 1 .. Len(summaries') : summaries'[n].name = got.cols[n]
          /\ \A n \in 1 .. Len(summaries') : summaries'[n].why # "deadline"
      BY <3>1, <3>2, <3>3, <3>4, <3>5
    <3> QED
      BY <1>0, <2>1, <2>2, <2>4, <3>2, <3>6 DEF request, ReadsInv, Types, InPlace, Behind, Loop
  <2> QED BY <2>3, <2>4
<1>6. CASE Profiled
  <2>1. Len(got.cols) \in Nat
    BY <1>0 DEF Types, GotType
  <2> QED
    BY <1>0, <1>6, <2>1
    DEF Profiled, More, Finish, request, ReadsInv, Types, InPlace, Behind, Loop
<1>7. CASE SamplesAnswered
  BY <1>0, <1>7 DEF SamplesAnswered, Finish, request, ReadsInv, Types, InPlace, Behind, Loop
<1>8. CASE Expire
  BY <1>0, <1>8 DEF Expire, request, ReadsInv, Types, InPlace, Behind, Loop
<1>9. CASE Others
  <2>1. UNCHANGED <<request, expired, pc, step, got, summaries, reply>>
    BY <1>9 DEF Others, CreateTable, DropTable, AddColumn, DropColumn, AddConstraint, Change
  <2>2. table' \in TableType
    BY <1>0, <1>9, OthersKeepType
  <2>3. changes' \in 0 .. MaxChanges
    BY <1>0, <1>9, ChangesAssumption
    DEF Types, Others, CreateTable, DropTable, AddColumn, DropColumn, AddConstraint, Change
  <2> QED BY <1>0, <2>1, <2>2, <2>3 DEF request, ReadsInv, Types, InPlace, Behind, Loop
<1>10. CASE UNCHANGED vars
  BY <1>0, <1>10 DEF vars, request, ReadsInv, Types, InPlace, Behind, Loop
<1> QED
  BY <1>1, <1>2, <1>3, <1>4, <1>5, <1>6, <1>7, <1>8, <1>9, <1>10 DEF Next, Handler, Done

\* It holds in every behaviour.
LEMMA ReadsInvariant == Spec => []ReadsInv
<1> QED BY ReadsStart, ReadsGoOn, PTL DEF Spec

\* The variables have their types, and the loop a summary behind each column.
THEOREM CatalogTypes == Spec => []TypeOK
<1>1. ReadsInv => TypeOK
  BY DEF ReadsInv, Types, InPlace, Behind, Loop, TypeOK
<1> QED BY <1>1, ReadsInvariant, PTL

\* A profile that is an answer has one summary for each column it found, in
\* their order, however many there are and whatever happens to the table.
THEOREM ProfilesAreWhole == Spec => []ProfileIsWhole
<1>1. ReadsInv => ProfileIsWhole
  <2> SUFFICES ASSUME ReadsInv, reply = "ok", tool = "profile_table"
               PROVE  [n \in 1 .. Len(summaries) |-> summaries[n].name] = got.cols
    BY DEF ProfileIsWhole
  <2>1. got.cols \in Seq(Columns) /\ Len(summaries) = Len(got.cols)
        /\ \A n \in 1 .. Len(summaries) : summaries[n].name = got.cols[n]
    BY DEF ReadsInv, Types, GotType, InPlace, Behind
  <2> QED BY <2>1
<1> QED BY <1>1, ReadsInvariant, PTL

\* No summary of an answer stands for a query that ran into the deadline.
THEOREM DeadlinesAreErrors == Spec => []DeadlineIsAnError
<1>1. ReadsInv => DeadlineIsAnError
  <2> SUFFICES ASSUME ReadsInv, NEW s \in ToSet(summaries) PROVE s.why # "deadline"
    BY DEF DeadlineIsAnError
  <2>1. summaries \in Seq(SummaryType)
        /\ \A n \in 1 .. Len(summaries) : summaries[n].why # "deadline"
    BY DEF ReadsInv, Types, Behind
  <2>2. PICK n \in DOMAIN summaries : s = summaries[n]
    BY DEF ToSet
  <2> QED BY <2>1, <2>2
<1> QED BY <1>1, ReadsInvariant, PTL

-----------------------------------------------------------------------------
\* Undisturbed answers: what was read of a table that has not changed since is
\* still there, and a table that is missing has no columns.
Kept(part) == got[part] = Read(part)
Quiet == changes = 0 =>
  /\ pc = "script" => \A n \in 1 .. step - 1 : Kept(Script(tool)[n])
  /\ pc \in Loop \/ reply = "ok" => \A n \in 1 .. Len(Script(tool)) : Kept(Script(tool)[n])
  /\ tool = "profile_table" /\ ((pc = "script" /\ step > 1) \/ pc \in Loop \/ reply = "ok")
       => table.exists
  /\ \A n \in 1 .. Len(summaries) : summaries[n].why # "lost" =>
       (summaries[n].minMaxAvailable <=> summaries[n].name \notin Unordered)
Missing == ~table.exists => table.cols = <<>>
Described == tool = "show_create_table" /\ ((pc = "script" /\ step > 1) \/ reply = "ok")
               => got.cols # <<>>
QuietInv == Quiet /\ Missing /\ Described

\* The answer to a query of the script adds what was read to what is kept.
LEMMA ScriptKeepsQuiet ==
  ASSUME ReadsInv, QuietInv, ScriptAnswered
  PROVE  QuietInv'
<1>0. Types /\ InPlace /\ Behind /\ Quiet /\ Missing /\ Described
  BY DEF ReadsInv, QuietInv
<1> DEFINE part == Script(tool)[step]
<1>1. /\ pc = "script" /\ got' = [got EXCEPT ![part] = Read(part)]
      /\ step' = (IF step = Len(Script(tool)) THEN 1 ELSE step + 1)
      /\ part = "count" => table.exists
      /\ UNCHANGED <<tool, table, changes, summaries>>
  BY DEF ScriptAnswered, request
<1>2. Len(Script(tool)) \in Nat \ {0} /\ step \in 1 .. Len(Script(tool)) /\ part \in DOMAIN got
  BY <1>0, <1>1, ReadType DEF Types, InPlace
<1>3. \/ pc' = "done" /\ reply' = "error"
      \/ step = Len(Script(tool)) /\ pc' \in {"done", "column"}
      \/ step # Len(Script(tool)) /\ pc' = pc /\ reply' = reply
  BY DEF ScriptAnswered, AfterScript, Finish
<1>4. \A p : Read(p)' = Read(p)
  BY <1>1 DEF Read
<1>5. reply = "none" /\ summaries = <<>>
  BY <1>0, <1>1 DEF InPlace, Behind
<1>6. changes = 0 => \A n \in 1 .. step : Kept(Script(tool)[n])'
  <2> SUFFICES ASSUME changes = 0, NEW n \in 1 .. step
               PROVE  got'[Script(tool)[n]] = Read(Script(tool)[n])
    BY <1>1, <1>4 DEF Kept
  <2>1. n \in 1 .. step - 1 \/ n = step
    BY <1>2
  <2>2. n \in 1 .. step - 1 => got[Script(tool)[n]] = Read(Script(tool)[n])
    BY <1>0, <1>1 DEF Quiet, Kept
  <2>3. CASE Script(tool)[n] = part
    BY <1>1, <1>2, <2>3
  <2>4. CASE Script(tool)[n] # part
    BY <1>1, <1>2, <2>1, <2>2, <2>4 DEF Types, GotType
  <2> QED
    BY <2>3, <2>4
<1>7. tool = "profile_table" /\ changes = 0 => table.exists
  <2>1. tool = "profile_table" /\ step = 1 => part = "count"
    BY DEF Script
  <2> QED
    BY <1>0, <1>1, <1>2, <2>1 DEF Quiet
<1>8. Quiet'
  BY <1>1, <1>2, <1>3, <1>5, <1>6, <1>7 DEF Quiet, Loop
<1>9. Described'
  <2> SUFFICES ASSUME tool = "show_create_table",
                      ((pc = "script" /\ step > 1) \/ reply = "ok")'
               PROVE  got'.cols # <<>>
    BY <1>1 DEF Described
  <2>1. ~Refused(part)
    BY <1>1, <1>5 DEF ScriptAnswered, Finish
  <2>2. CASE step = 1
    <3>1. part = "cols"
      BY <2>2 DEF Script
    <3> QED
      BY <2>1, <3>1 DEF Refused
  <2>3. CASE step # 1
    <3>1. step = 2 /\ part = "constraints" /\ got.cols # <<>>
      BY <1>0, <1>1, <1>2, <2>3 DEF Described, Script
    <3> QED
      BY <1>1, <1>2, <3>1 DEF Types, GotType
  <2> QED
    BY <2>2, <2>3
<1> QED
  BY <1>0, <1>1, <1>8, <1>9 DEF QuietInv, Missing

\* In a table that has not changed, a summary that is not lost tells the type.
LEMMA MinMaxKeepsQuiet ==
  ASSUME ReadsInv, QuietInv, MinMaxAnswered
  PROVE  QuietInv'
<1>0. Types /\ InPlace /\ Behind /\ Quiet /\ Missing /\ Described
  BY DEF ReadsInv, QuietInv
<1>1. PICK why \in Outcomes :
        IF why # "none" /\ expired
        THEN Finish("error") /\ UNCHANGED <<step, summaries>>
        ELSE /\ summaries' = Append(summaries, Summary(why))
             /\ pc' = "column" /\ step' = step + 1
             /\ UNCHANGED reply
  BY DEF MinMaxAnswered
<1>2. pc = "minmax" /\ UNCHANGED <<request, table, changes, expired, got>>
  BY DEF MinMaxAnswered
<1>3. tool = "profile_table" /\ reply = "none"
  BY <1>0, <1>2 DEF InPlace, Loop
<1>4. \A p : Read(p)' = Read(p) /\ Kept(p)' = Kept(p)
  BY <1>2 DEF Read, Kept
<1>5. Missing' /\ Described'
  BY <1>0, <1>2, <1>3 DEF Missing, Described, request
<1>6. CASE why # "none" /\ expired
  BY <1>0, <1>1, <1>2, <1>4, <1>5, <1>6 DEF Finish, Quiet, QuietInv, Loop, request
<1>7. CASE ~(why # "none" /\ expired)
  <2>1. changes = 0 /\ why # "lost" => (why = "none" <=> Column \notin Unordered)
    <3> SUFFICES ASSUME changes = 0, why # "lost"
                 PROVE  why = "none" <=> Column \notin Unordered
      OBVIOUS
    <3>1. got.cols = table.cols
      <4>1. Kept(Script(tool)[2])
        BY <1>0, <1>2, <1>3 DEF Quiet, Loop, Script
      <4> QED
        BY <1>3, <4>1 DEF Script, Kept, Read
    <3>2. Column \in ToSet(table.cols)
      <4>1. got.cols \in Seq(Columns) /\ step \in 1 .. Len(got.cols)
        BY <1>0, <1>2 DEF Types, GotType, InPlace
      <4> QED
        BY <3>1, <4>1 DEF Column, ToSet
    <3>3. why = "deadline" => expired
      BY DEF Outcomes
    <3> QED
      BY <1>7, <3>2, <3>3 DEF Outcomes
  <2>2. /\ Summary(why).why = why /\ Summary(why).name = Column
        /\ Summary(why).minMaxAvailable <=> why = "none"
    BY DEF Summary
  <2>3. changes = 0 => \A n \in 1 .. Len(summaries') : summaries'[n].why # "lost" =>
          (summaries'[n].minMaxAvailable <=> summaries'[n].name \notin Unordered)
    <3> SUFFICES ASSUME changes = 0, NEW n \in 1 .. Len(summaries'),
                        summaries'[n].why # "lost"
                 PROVE  summaries'[n].minMaxAvailable <=> summaries'[n].name \notin Unordered
      OBVIOUS
    <3>1. summaries \in Seq(SummaryType) /\ summaries' = Append(summaries, Summary(why))
      BY <1>0, <1>1, <1>7 DEF Types
    <3>2. CASE n = Len(summaries) + 1
      <4>1. summaries'[n] = Summary(why)
        BY <3>1, <3>2
      <4> QED
        BY <2>1, <2>2, <4>1
    <3>3. CASE n # Len(summaries) + 1
      <4>1. n \in 1 .. Len(summaries) /\ summaries'[n] = summaries[n]
        BY <3>1, <3>3
      <4> QED
        BY <1>0, <4>1 DEF Quiet
    <3> QED
      BY <3>2, <3>3
  <2> QED
    BY <1>0, <1>1, <1>2, <1>3, <1>4, <1>5, <1>7, <2>3 DEF Quiet, QuietInv, Loop, request
<1> QED
  BY <1>6, <1>7

\* A call that nobody disturbs describes the table as it is.
THEOREM QuietAnswers == Spec => []QuietAnswerIsExact
<1>1. Init => QuietInv
  <2> SUFFICES ASSUME Init PROVE QuietInv
    OBVIOUS
  <2>1. Quiet /\ Described
    BY DEF Init, Quiet, Described, Loop
  <2>2. Missing
    BY TablesAssumption DEF Init, Missing, NoTable
  <2> QED
    BY <2>1, <2>2 DEF QuietInv
<1>2. ReadsInv /\ QuietInv /\ [Next]_vars => QuietInv'
  <2> SUFFICES ASSUME ReadsInv, QuietInv, [Next]_vars PROVE QuietInv'
    OBVIOUS
  <2>0. Types /\ InPlace /\ Quiet /\ Missing /\ Described
    BY DEF ReadsInv, QuietInv
  <2>1. ASSUME UNCHANGED <<request, table, changes, got, summaries, step>>,
               pc' \in Loop => pc \in Loop, pc' = "script" => pc = "script",
               reply' = "ok" => reply = "ok" \/ pc \in Loop
        PROVE  QuietInv'
    <3>1. \A p : Kept(p)' = Kept(p)
      BY <2>1 DEF Read, Kept
    <3>2. Quiet' /\ Missing'
      BY <2>0, <2>1, <3>1 DEF Quiet, Missing, request
    <3>3. Described'
      BY <2>0, <2>1 DEF Described, InPlace, request
    <3> QED
      BY <3>2, <3>3 DEF QuietInv
  <2>2. CASE QueryFails
    BY <2>1, <2>2 DEF QueryFails, Finish, Loop
  <2>3. CASE NextColumn
    BY <2>1, <2>3 DEF NextColumn, More, Finish, Loop
  <2>4. CASE StatsAnswered
    BY <2>1, <2>4 DEF StatsAnswered, Loop
  <2>5. CASE Profiled
    BY <2>1, <2>5 DEF Profiled, Finish, Loop
  <2>6. CASE SamplesAnswered
    BY <2>1, <2>6 DEF SamplesAnswered, Finish, Loop
  <2>7. CASE Expire \/ UNCHANGED vars
    BY <2>1, <2>7 DEF Expire, vars
  <2>8. CASE Others
    <3>1. /\ UNCHANGED <<request, expired, pc, step, got, summaries, reply>>
          /\ changes' = changes + 1 /\ changes \in Nat
      BY <2>0, <2>8, ChangesAssumption
      DEF Types, Others, CreateTable, DropTable, AddColumn, DropColumn, AddConstraint, Change
    <3>2. ~table'.exists => table'.cols = <<>>
      <4>0. table \in TableType
        BY <2>0 DEF Types
      <4>1. CASE CreateTable \/ DropTable
        BY <4>1, TablesAssumption DEF CreateTable, DropTable, Change, NoTable
      <4>2. ASSUME NEW c \in Columns, AddColumn(c) PROVE table'.exists
        BY <4>0, <4>2 DEF AddColumn, Change, TableType
      <4>3. ASSUME NEW c \in Columns, DropColumn(c) PROVE table'.exists
        BY <4>3 DEF DropColumn, Change
      <4>4. ASSUME NEW c \in Columns, AddConstraint(c)
            PROVE  table'.exists = table.exists /\ table'.cols = table.cols
        BY <4>0, <4>4 DEF AddConstraint, Change, TableType
      <4> QED
        BY <2>0, <2>8, <4>1, <4>2, <4>3, <4>4 DEF Others, Missing
    <3> QED
      BY <2>0, <3>1, <3>2 DEF QuietInv, Quiet, Missing, Described, request
  <2> QED
    BY <2>2, <2>3, <2>4, <2>5, <2>6, <2>7, <2>8, ScriptKeepsQuiet, MinMaxKeepsQuiet
       DEF Next, Handler, Done
<1>3. ReadsInv /\ QuietInv => QuietAnswerIsExact
  <2> SUFFICES ASSUME ReadsInv, QuietInv, reply = "ok", changes = 0
               PROVE  QuietAnswerIsExact
    BY DEF QuietAnswerIsExact
  <2>0. Types /\ InPlace /\ Quiet /\ Missing /\ Described
    BY DEF ReadsInv, QuietInv
  <2>1. \A n \in 1 .. Len(Script(tool)) : Kept(Script(tool)[n])
    BY <2>0 DEF Quiet
  <2>2. CASE tool = "describe_table"
    <3>1. /\ Kept("cols") /\ Kept("key") /\ Kept("out") /\ Kept("idx")
      BY <2>1, <2>2 DEF Script
    <3> QED
      BY <2>2, <3>1 DEF Kept, Read, QuietAnswerIsExact
  <2>3. CASE tool = "inspect_relationships"
    <3>1. Kept("out") /\ Kept("inbound")
      BY <2>1, <2>3 DEF Script
    <3> QED
      BY <2>3, <3>1 DEF Kept, Read, QuietAnswerIsExact
  <2>4. CASE tool = "show_create_table"
    <3>1. Kept("cols") /\ Kept("constraints")
      BY <2>1, <2>4 DEF Script
    <3>2. table.exists
      BY <2>0, <2>4, <3>1 DEF Kept, Read, Missing, Described
    <3> QED
      BY <2>4, <3>1, <3>2 DEF Kept, Read, QuietAnswerIsExact
  <2>5. CASE tool = "profile_table"
    <3>1. Kept("cols") /\ table.exists
      BY <2>0, <2>1, <2>5 DEF Script, Quiet
    <3>2. ASSUME NEW s \in ToSet(summaries), s.why # "lost"
          PROVE  s.minMaxAvailable <=> s.name \notin Unordered
      <4>1. summaries \in Seq(SummaryType)
        BY <2>0 DEF Types
      <4>2. PICK n \in 1 .. Len(summaries) : s = summaries[n]
        BY <4>1 DEF ToSet
      <4> QED
        BY <2>0, <3>2, <4>2 DEF Quiet
    <3> QED
      BY <2>5, <3>1, <3>2 DEF Kept, Read, QuietAnswerIsExact
  <2> QED
    BY <2>0, <2>2, <2>3, <2>4, <2>5 DEF Types, Tools
<1> QED
  BY <1>1, <1>2, <1>3, ReadsInvariant, PTL DEF Spec
=============================================================================
