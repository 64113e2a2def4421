-------------------------- MODULE ColumnNamesProofs --------------------------
(***************************************************************************)
(* Proofs about uniqueColumnNames for column lists of every length.        *)
(***************************************************************************)
EXTENDS ColumnNames, TLAPS

\* The inductive invariant: used is the set of the names given out, so that a
\* name outside it is new, and it holds every column that came by, so that a
\* column outside it is the first of its name.
UsedIsGiven == used = {names[j] : j \in 1 .. Len(names)}
SeenIsUsed == /\ \A j \in 1 .. i - 1 : columns[j] \in used
              /\ pc = "suffix" => Column \in used
Inv == /\ TypeOK /\ UsedIsGiven /\ SeenIsUsed
       /\ NamesAreDistinct /\ RenamedOnlyWhenRepeated

\* A column list is a sequence of names.
LEMMA ColumnsType ==
  ASSUME TypeOK
  PROVE  /\ columns \in Seq(Name) /\ Len(columns) \in Nat
         /\ Cols \subseteq Name
         /\ \A j \in 1 .. Len(columns) : columns[j] \in Cols
<1>1. columns \in Seq(Name)
  BY InputsAssumption DEF TypeOK
<1> QED
  BY <1>1 DEF Cols

\* The candidate is a name.
LEMMA CandidateType ==
  ASSUME TypeOK, i <= Len(columns)
  PROVE  Column \in Cols /\ Column \in Name /\ candidate \in Name
<1>1. Column \in Cols /\ Column \in Name
  BY ColumnsType DEF TypeOK, Column
<1>2. next[Column] \in Nat
  BY <1>1 DEF TypeOK
<1>3. Append(Column.nums, next[Column]) \in Seq(Nat)
  BY <1>1, <1>2 DEF Name
<1> QED
  BY <1>1, <1>3 DEF candidate, Suffixed, Name

\* Giving out a new name keeps the names distinct and used up to date.
LEMMA GivingANewName ==
  ASSUME TypeOK, UsedIsGiven, NamesAreDistinct, i <= Len(columns),
         NEW n \in Name, n \notin used, Give(n)
  PROVE  /\ names' \in Seq(Name) /\ Len(names') = i /\ i' \in 1 .. Len(columns) + 1
         /\ used' \subseteq Name
         /\ names'[i] = n /\ \A j \in 1 .. i - 1 : names'[j] = names[j]
         /\ UsedIsGiven' /\ NamesAreDistinct'
<1>1. Len(columns) \in Nat /\ i \in Nat \ {0}
  BY ColumnsType DEF TypeOK
<1>2. /\ names' \in Seq(Name) /\ Len(names') = i
      /\ names'[i] = n /\ \A j \in 1 .. i - 1 : names'[j] = names[j]
  BY <1>1 DEF TypeOK, Give
<1>3. used' \subseteq Name /\ i' \in 1 .. Len(columns) + 1
  BY <1>1 DEF TypeOK, Give
<1>4. UsedIsGiven'
  <2>1. used = {names[j] : j \in 1 .. i - 1}
    BY DEF UsedIsGiven, TypeOK
  <2>2. {names'[j] : j \in 1 .. i} = {names'[j] : j \in 1 .. i - 1} \cup {n}
    BY <1>1, <1>2
  <2>3. {names'[j] : j \in 1 .. i - 1} = used
    BY <1>2, <2>1
  <2> QED
    BY <1>2, <2>2, <2>3 DEF UsedIsGiven, Give
<1>5. NamesAreDistinct'
  <2>1. \A j \in 1 .. i - 1 : names[j] # n
    BY DEF UsedIsGiven, TypeOK
  <2>2. \A j, k \in 1 .. i - 1 : names'[j] = names'[k] => j = k
    BY <1>2 DEF NamesAreDistinct, TypeOK
  <2>3. \A j \in 1 .. i : j = i \/ j \in 1 .. i - 1
    BY <1>1
  <2> QED
    BY <1>1, <1>2, <2>1, <2>2, <2>3 DEF NamesAreDistinct
<1> QED
  BY <1>2, <1>3, <1>4, <1>5

\* The renaming rule reaches one column further when the new name obeys it.
LEMMA RuleForTheNext ==
  ASSUME TypeOK, RenamedOnlyWhenRepeated, i <= Len(columns), columns' = columns,
         Len(names') = i, \A j \in 1 .. i - 1 : names'[j] = names[j],
         IF \E k \in 1 .. i - 1 : columns[k] = columns[i]
         THEN names'[i] \notin Cols ELSE names'[i] = columns[i]
  PROVE  RenamedOnlyWhenRepeated'
<1>1. i \in Nat \ {0} /\ Len(names) = i - 1 /\ Cols' = Cols
  BY ColumnsType DEF TypeOK, Cols
<1>2. \A j \in 1 .. i : j = i \/ j \in 1 .. i - 1
  BY <1>1
<1> QED
  BY <1>1, <1>2 DEF RenamedOnlyWhenRepeated

\* A column is in used exactly when the list has it at an earlier place.
LEMMA UsedMeansRepeated ==
  ASSUME Inv, i <= Len(columns)
  PROVE  Column \in used <=> \E k \in 1 .. i - 1 : columns[k] = columns[i]
<1>1. i \in Nat \ {0} /\ Len(names) = i - 1 /\ Len(columns) \in Nat
  BY ColumnsType DEF Inv, TypeOK
<1>2. Column \in Cols
  BY CandidateType DEF Inv
<1>3. ASSUME NEW k \in 1 .. i - 1, columns[k] = columns[i] PROVE Column \in used
  BY <1>3 DEF Inv, SeenIsUsed, Column
<1>4. ASSUME Column \in used PROVE \E k \in 1 .. i - 1 : columns[k] = columns[i]
  <2>1. PICK j \in 1 .. i - 1 : names[j] = Column
    BY <1>1, <1>4 DEF Inv, UsedIsGiven
  <2>2. names[j] \in Cols
    BY <1>2, <2>1
  <2>3. names[j] = columns[j]
    BY <1>1, <2>1, <2>2 DEF Inv, RenamedOnlyWhenRepeated
  <2> QED
    BY <2>1, <2>3 DEF Column
<1> QED
  BY <1>3, <1>4

\* The invariant holds at the start.
LEMMA InitInv == Init => Inv
<1> SUFFICES ASSUME Init PROVE Inv
  OBVIOUS
<1>1. columns \in Seq(Name) /\ Len(columns) \in Nat
  BY InputsAssumption DEF Init
<1>2. TypeOK
  BY <1>1 DEF Init, TypeOK
<1> QED
  BY <1>2 DEF Init, Inv, UsedIsGiven, SeenIsUsed, NamesAreDistinct, RenamedOnlyWhenRepeated

\* Every turn of the loops keeps it.
LEMMA NextInv == Inv /\ [Next]_vars => Inv'
<1> SUFFICES ASSUME Inv, [Next]_vars PROVE Inv'
  OBVIOUS
<1>1. /\ TypeOK /\ UsedIsGiven /\ SeenIsUsed /\ NamesAreDistinct
      /\ RenamedOnlyWhenRepeated
  BY DEF Inv
<1>2. i \in Nat \ {0} /\ Len(names) = i - 1 /\ Len(columns) \in Nat
  BY <1>1, ColumnsType DEF TypeOK
<1>3. CASE Keep
  <2>1. /\ i <= Len(columns) /\ Column \notin used /\ Give(Column)
        /\ UNCHANGED <<columns, next, pc>> /\ pc = "column"
    BY <1>3 DEF Keep
  <2>2. Column \in Name
    BY <1>1, <2>1, CandidateType
  <2>3. /\ names' \in Seq(Name) /\ Len(names') = i /\ i' \in 1 .. Len(columns) + 1
        /\ used' \subseteq Name
        /\ names'[i] = Column /\ \A j \in 1 .. i - 1 : names'[j] = names[j]
        /\ UsedIsGiven' /\ NamesAreDistinct'
    BY <1>1, <2>1, <2>2, GivingANewName
  <2>4. ~ \E k \in 1 .. i - 1 : columns[k] = columns[i]
    BY <2>1, UsedMeansRepeated
  <2>5. RenamedOnlyWhenRepeated'
    BY <1>1, <2>1, <2>3, <2>4, RuleForTheNext DEF Column
  <2>6. TypeOK'
    BY <1>1, <1>2, <2>1, <2>3 DEF TypeOK, Give, Cols
  <2>7. SeenIsUsed'
    BY <1>1, <1>2, <2>1 DEF SeenIsUsed, Give, Column
  <2> QED
    BY <2>3, <2>5, <2>6, <2>7 DEF Inv
<1>4. CASE Search
  <2>1. TypeOK'
    BY <1>1, <1>2, <1>4, CandidateType DEF Search, TypeOK, Cols
  <2> QED
    BY <1>1, <1>4, <2>1 DEF Search, Inv, UsedIsGiven, SeenIsUsed, NamesAreDistinct,
       RenamedOnlyWhenRepeated, Column, Cols
<1>5. CASE Bump
  <2>1. TypeOK'
    BY <1>1, <1>2, <1>5, CandidateType DEF Bump, TypeOK, Cols
  <2> QED
    BY <1>1, <1>5, <2>1 DEF Bump, Inv, UsedIsGiven, SeenIsUsed, NamesAreDistinct,
       RenamedOnlyWhenRepeated, Column, Cols
<1>6. CASE Take
  <2>1. /\ i <= Len(columns) /\ candidate \notin used /\ candidate \notin Cols
        /\ Give(candidate) /\ columns' = columns /\ pc' = "column"
        /\ next' = [next EXCEPT ![Column] = @ + 1] /\ Column \in used
    BY <1>1, <1>6 DEF Take, Taken, original, TypeOK, SeenIsUsed
  <2>2. candidate \in Name
    BY <1>1, <2>1, CandidateType
  <2>3. /\ names' \in Seq(Name) /\ Len(names') = i /\ i' \in 1 .. Len(columns) + 1
        /\ used' \subseteq Name
        /\ names'[i] = candidate /\ \A j \in 1 .. i - 1 : names'[j] = names[j]
        /\ UsedIsGiven' /\ NamesAreDistinct'
    BY <1>1, <2>1, <2>2, GivingANewName
  <2>4. \E k \in 1 .. i - 1 : columns[k] = columns[i]
    BY <2>1, UsedMeansRepeated
  <2>5. RenamedOnlyWhenRepeated'
    BY <1>1, <2>1, <2>3, <2>4, RuleForTheNext
  <2>6. next' \in [Cols -> Nat]
    BY <1>1, <2>1, CandidateType DEF TypeOK
  <2>7. TypeOK'
    BY <1>1, <1>2, <2>1, <2>3, <2>6 DEF TypeOK, Give, Cols
  <2>8. SeenIsUsed'
    BY <1>1, <1>2, <2>1 DEF SeenIsUsed, Give, Column
  <2> QED
    BY <2>3, <2>5, <2>7, <2>8 DEF Inv
<1>7. CASE UNCHANGED vars
  BY <1>1, <1>7 DEF vars, Inv, TypeOK, UsedIsGiven, SeenIsUsed, NamesAreDistinct,
     RenamedOnlyWhenRepeated, Column, Cols
<1> QED
  BY <1>3, <1>4, <1>5, <1>6, <1>7 DEF Next, Done

\* The invariant holds in every behaviour.
LEMMA ColumnsInvariant == Spec => []Inv
<1> QED
  BY InitInv, NextInv, PTL DEF Spec

\* The variables have their types; the names given are those of the columns
\* behind the loop.
THEOREM ColumnTypes == Spec => []TypeOK
<1>1. Inv => TypeOK
  BY DEF Inv
<1> QED
  BY <1>1, ColumnsInvariant, PTL

\* A row never loses a value to another column of the same key, however many
\* columns the query has and whatever they are called.
THEOREM DistinctNames == Spec => []NamesAreDistinct
<1>1. Inv => NamesAreDistinct
  BY DEF Inv
<1> QED
  BY <1>1, ColumnsInvariant, PTL

\* Only repeated columns are renamed, never to a name the query itself gave.
THEOREM RenamedOnlyIfRepeated == Spec => []RenamedOnlyWhenRepeated
<1>1. Inv => RenamedOnlyWhenRepeated
  BY DEF Inv
<1> QED
  BY <1>1, ColumnsInvariant, PTL

\* A name with a number is another name, and tells its number.
LEMMA SuffixedTells ==
  ASSUME NEW c \in Name, NEW n \in Nat
  PROVE  /\ Suffixed(c, n) # c
         /\ \A m \in Nat : Suffixed(c, m) = Suffixed(c, n) => m = n
<1>1. c.nums \in Seq(Nat) /\ Len(c.nums) \in Nat
  BY DEF Name
<1>2. \A m \in Nat : Suffixed(c, m).nums = Append(c.nums, m)
  BY DEF Suffixed, Name
<1>3. \A m \in Nat : /\ Len(Append(c.nums, m)) = Len(c.nums) + 1
                     /\ Append(c.nums, m)[Len(c.nums) + 1] = m
  BY <1>1
<1> QED
  BY <1>1, <1>2, <1>3

\* Every number below the next one to try is taken.
TriedAreTaken == \A c \in Cols : \A k \in 2 .. next[c] - 1 : Taken(Suffixed(c, k))

\* The numbers given out leave no gap, for column lists of every length.
THEOREM NoGap == Spec => []NumbersLeaveNoGap
<1>1. Init => TriedAreTaken /\ NumbersLeaveNoGap
  BY DEF Init, TriedAreTaken, NumbersLeaveNoGap
<1>2. Inv /\ TriedAreTaken /\ NumbersLeaveNoGap /\ [Next]_vars
        => (TriedAreTaken /\ NumbersLeaveNoGap)'
  <2> SUFFICES ASSUME Inv, TriedAreTaken, NumbersLeaveNoGap, [Next]_vars
               PROVE  TriedAreTaken' /\ NumbersLeaveNoGap'
    OBVIOUS
  <2>0. /\ TypeOK /\ UsedIsGiven
        /\ i \in Nat \ {0} /\ Len(names) = i - 1 /\ Len(columns) \in Nat
    BY ColumnsType DEF Inv, TypeOK
  <2>1. TriedAreTaken'
    <3>1. CASE Keep
      BY <3>1 DEF Keep, Give, TriedAreTaken, Taken, original, Cols
    <3>2. CASE Search
      <4>1. /\ UNCHANGED <<columns, used>> /\ Column \in Cols
            /\ next' = [next EXCEPT ![Column] = IF @ < 2 THEN 2 ELSE @]
        BY <2>0, <3>2, CandidateType DEF Search
      <4> QED
        BY <2>0, <4>1 DEF TypeOK, TriedAreTaken, Taken, original, Cols
    <3>3. CASE Bump \/ Take
      <4>1. /\ columns' = columns /\ used \subseteq used' /\ Column \in Cols
            /\ candidate \in used' \cup Cols
            /\ next' = [next EXCEPT ![Column] = @ + 1]
        BY <2>0, <3>3, CandidateType DEF Bump, Take, Taken, original, Give, TypeOK
      <4>2. Cols' = Cols
        BY <4>1 DEF Cols
      <4>3. ASSUME NEW c \in Cols, NEW k \in 2 .. next'[c] - 1
            PROVE  Suffixed(c, k) \in used' \cup Cols
        <5>1. CASE k \in 2 .. next[c] - 1
          BY <4>1, <5>1 DEF TriedAreTaken, Taken, original
        <5>2. CASE k \notin 2 .. next[c] - 1
          <6>1. c = Column /\ k = next[c]
            BY <2>0, <4>1, <4>3, <5>2 DEF TypeOK
          <6> QED
            BY <4>1, <6>1 DEF candidate
        <5> QED
          BY <5>1, <5>2
      <4> QED
        BY <4>2, <4>3 DEF TriedAreTaken, Taken, original, Suffixed
    <3>4. CASE UNCHANGED vars
      BY <3>4 DEF vars, TriedAreTaken, Taken, original, Cols
    <3> QED
      BY <3>1, <3>2, <3>3, <3>4 DEF Next, Done
  <2>2. NumbersLeaveNoGap'
    <3>1. CASE Keep \/ Take
      <4>1. /\ columns' = columns /\ Cols' = Cols /\ i <= Len(columns) /\ Column \in Name
            /\ Column \in Cols /\ next[Column] \in Nat /\ columns[i] = Column
            /\ names' = Append(names, IF pc = "column" THEN Column ELSE candidate)
        BY <2>0, <3>1, CandidateType DEF Keep, Take, Give, TypeOK, Cols, Column
      <4>2. /\ Len(names') = i /\ \A j \in 1 .. i - 1 : names'[j] = names[j]
            /\ names'[i] = IF pc = "column" THEN Column ELSE candidate
        BY <2>0, <4>1 DEF TypeOK
      <4>3. used = {names'[m] : m \in 1 .. i - 1}
        BY <2>0, <4>2 DEF UsedIsGiven
      <4>4. ASSUME NEW j \in 1 .. Len(names'), NEW n \in 2 .. Len(columns) + 3,
                   NEW k \in 2 .. n - 1, names'[j] = Suffixed(columns[j], n)
            PROVE  Suffixed(columns[j], k) \in Cols \cup {names'[m] : m \in 1 .. j - 1}
        <5>1. CASE j # i
          <6>1. j \in 1 .. i - 1 /\ names[j] = Suffixed(columns[j], n)
            BY <2>0, <4>2, <4>4, <5>1
          <6>2. Suffixed(columns[j], k) \in Cols \cup {names[m] : m \in 1 .. j - 1}
            BY <2>0, <6>1 DEF NumbersLeaveNoGap
          <6>3. \A m \in 1 .. j - 1 : names'[m] = names[m]
            BY <2>0, <4>2, <6>1
          <6> QED
            BY <6>2, <6>3
        <5>2. CASE j = i
          <6>1. Suffixed(Column, n) = IF pc = "column" THEN Column ELSE candidate
            BY <4>1, <4>2, <4>4, <5>2
          <6>2. n \in Nat /\ Suffixed(Column, n) # Column
                /\ \A m \in Nat : Suffixed(Column, m) = Suffixed(Column, n) => m = n
            BY <2>0, <4>1, SuffixedTells
          <6>3. n = next[Column]
            BY <4>1, <6>1, <6>2 DEF candidate
          <6>4. Suffixed(Column, k) \in Cols \cup used
            BY <4>1, <6>3 DEF TriedAreTaken, Taken, original
          <6> QED
            BY <4>1, <4>3, <5>2, <6>4
        <5> QED
          BY <5>1, <5>2
      <4> QED
        BY <4>1, <4>4 DEF NumbersLeaveNoGap, Suffixed
    <3>2. CASE UNCHANGED <<columns, names>>
      BY <3>2 DEF NumbersLeaveNoGap, Cols
    <3> QED
      BY <3>1, <3>2 DEF Next, Search, Bump, Done, vars
  <2> QED
    BY <2>1, <2>2
<1> QED
  BY <1>1, <1>2, ColumnsInvariant, PTL DEF Spec
=============================================================================
