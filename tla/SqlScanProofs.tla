---------------------------- MODULE SqlScanProofs ----------------------------
(***************************************************************************)
(* What holds of the two scanners for texts of any length: placeholders    *)
(* and arguments fit, the scanners agree on what is quoted, and so does    *)
(* PostgreSQL for usual texts (Usual): it reads an accepted one as one     *)
(* statement, also when AppendLimit has wrapped it, and the clause with    *)
(* numbered placeholders as having the quotes and comments of the clause.  *)
(***************************************************************************)
EXTENDS SqlScan, SequenceTheorems, FiniteSetTheorems, WellFoundedInduction, TLAPS

-----------------------------------------------------------------------------
(***************************************************************************)
(* Placeholders and arguments.                                             *)
(***************************************************************************)

\* Names and arguments are numbered alike, and a placeholder has the number of
\* its name.
Numbered ==
  /\ columns \in Nat /\ offset = Offset
  /\ args \in Seq(params)
  /\ positions \in [DOMAIN positions -> Int]
  /\ \A n \in DOMAIN positions :
       /\ positions[n] \in offset + 1 .. offset + Len(args)
       /\ args[positions[n] - offset] = n
  /\ \A k \in 1 .. Len(args) :
       args[k] \in DOMAIN positions /\ positions[args[k]] = offset + k
  /\ \A slot \in slots : slot[2] \in DOMAIN positions /\ slot[3] = positions[slot[2]]

LEMMA NumberedStarts == Init => Numbered
<1> SUFFICES ASSUME Init PROVE Numbered
  OBVIOUS
<1>1. columns \in Nat /\ offset = Offset
  BY ColumnsAssumption DEF Init
<1>2. args \in Seq(params) /\ Len(args) = 0
  BY DEF Init
<1>3. DOMAIN positions = {} /\ positions \in [DOMAIN positions -> Int]
  <2>1. positions = <<>> /\ DOMAIN positions = {}
    BY DEF Init
  <2> QED BY <2>1
<1> QED BY <1>1, <1>2, <1>3 DEF Numbered, Init

LEMMA OffsetIsNumber == Numbered => offset \in Nat
BY DEF Numbered, Offset

\* A name that is met for the first time gets the next number.
LEMMA NumberedGoesOn == Numbered /\ [Next]_vars => Numbered'
<1> SUFFICES ASSUME Numbered, [Next]_vars PROVE Numbered'
  OBVIOUS
<1>1. CASE UNCHANGED <<params, columns, execute, offset, positions, args, slots>>
  BY <1>1 DEF Numbered, Offset
<1>2. CASE BindNamed
  <2>1. UNCHANGED <<params, columns, execute, offset>> /\ Name \in params
    BY <1>2 DEF BindNamed, input
  <2>2. slots' = slots \cup {<<i, Name, positions'[Name]>>}
    BY <1>2 DEF BindNamed
  <2> DEFINE name == Name
  <2> HIDE DEF name
  <2>3. name \in params /\ slots' = slots \cup {<<i, name, positions'[name]>>}
    BY <2>1, <2>2 DEF name
  <2>4. CASE name \in DOMAIN positions
    <3>1. UNCHANGED <<positions, args>>
      BY <1>2, <2>4 DEF BindNamed, name
    <3> QED BY <2>1, <2>3, <2>4, <3>1 DEF Numbered, Offset
  <2>5. CASE name \notin DOMAIN positions
    <3>1. /\ args' = Append(args, name)
          /\ positions' = [n \in DOMAIN positions \cup {name} |->
                             IF n = name THEN offset + Len(args') ELSE positions[n]]
      BY <1>2, <2>5 DEF BindNamed, name
    <3>2. args \in Seq(params) /\ Len(args) \in Nat /\ offset \in Nat
      BY OffsetIsNumber DEF Numbered
    <3>3. /\ args' \in Seq(params) /\ Len(args') = Len(args) + 1
          /\ \A k \in 1 .. Len(args) : args'[k] = args[k]
          /\ args'[Len(args) + 1] = name
      BY <2>3, <3>1, <3>2, AppendProperties
    <3>4. /\ DOMAIN positions' = DOMAIN positions \cup {name}
          /\ positions'[name] = offset + Len(args) + 1
          /\ \A n \in DOMAIN positions : positions'[n] = positions[n]
          /\ positions' \in [DOMAIN positions' -> Int]
      BY <2>5, <3>1, <3>2, <3>3 DEF Numbered
    <3>5. \A n \in DOMAIN positions' :
            /\ positions'[n] \in offset + 1 .. offset + Len(args')
            /\ args'[positions'[n] - offset] = n
      <4>1. ASSUME NEW n \in DOMAIN positions
            PROVE  /\ positions'[n] \in offset + 1 .. offset + Len(args')
                   /\ args'[positions'[n] - offset] = n
        <5>1. positions[n] \in offset + 1 .. offset + Len(args) /\ args[positions[n] - offset] = n
          BY DEF Numbered
        <5>2. positions[n] - offset \in 1 .. Len(args)
          BY <3>2, <5>1
        <5> QED BY <3>2, <3>3, <3>4, <5>1, <5>2
      <4>2. /\ positions'[name] \in offset + 1 .. offset + Len(args')
            /\ args'[positions'[name] - offset] = name
        BY <3>2, <3>3, <3>4
      <4> QED BY <3>4, <4>1, <4>2
    <3>6. \A k \in 1 .. Len(args') :
            args'[k] \in DOMAIN positions' /\ positions'[args'[k]] = offset + k
      <4>1. ASSUME NEW k \in 1 .. Len(args)
            PROVE  args'[k] \in DOMAIN positions' /\ positions'[args'[k]] = offset + k
        BY <3>3, <3>4 DEF Numbered
      <4>2. ASSUME NEW k \in 1 .. Len(args'), k \notin 1 .. Len(args)
            PROVE  args'[k] = name /\ k = Len(args) + 1
        BY <3>2, <3>3, <4>2
      <4>3. ASSUME NEW k \in 1 .. Len(args'), k \notin 1 .. Len(args)
            PROVE  args'[k] \in DOMAIN positions' /\ positions'[args'[k]] = offset + k
        BY <3>2, <3>4, <4>2, <4>3
      <4> QED BY <4>1, <4>3
    <3>7. \A slot \in slots' :
            slot[2] \in DOMAIN positions' /\ slot[3] = positions'[slot[2]]
      BY <2>3, <3>4 DEF Numbered
    <3>8. columns' \in Nat /\ offset' = Offset'
      BY <2>1 DEF Numbered, Offset
    <3> QED BY <2>1, <3>3, <3>4, <3>5, <3>6, <3>7, <3>8 DEF Numbered
  <2> QED BY <2>4, <2>5
<1>3. CASE ~BindNamed /\ Next
  <2>1. ASSUME NEW end, StepOver(end)
        PROVE  UNCHANGED <<params, columns, execute, offset, positions, args, slots>>
    BY <2>1 DEF StepOver, Reject, input, bound
  <2>2. ASSUME NEW end, BindCopy(end)
        PROVE  UNCHANGED <<params, columns, execute, offset, positions, args, slots>>
    BY <2>2 DEF BindCopy, Reject, input, bound
  <2>3. UNCHANGED <<params, columns, execute, offset, positions, args, slots>>
    BY <1>3, <2>1, <2>2
    DEF Next, InspectSpace, InspectComment, InspectSecond, InspectSemicolon, InspectQuoted,
       InspectDollar, InspectWord, InspectOther, Inspected, BindComment, BindQuoted,
       BindDollar, BindPositional, BindMissing, BindOther, Bound, Ended, Reject,
       input, inspected, bound, vars
  <2> QED BY <1>1, <2>3
<1>4. CASE UNCHANGED vars
  BY <1>1, <1>4 DEF vars, input, bound
<1> QED BY <1>2, <1>3, <1>4

LEMMA NumberedAlways == Spec => []Numbered
BY NumberedStarts, NumberedGoesOn, PTL DEF Spec

\* Every placeholder has the number of the argument with its name, and no name
\* is passed twice, for clauses of any length with any names.
THEOREM NumbersFit == Spec => []NumbersFitArguments
<1>1. Numbered => NumbersFitArguments
  <2> SUFFICES ASSUME Numbered PROVE NumbersFitArguments
    OBVIOUS
  <2> DEFINE values == IF execute THEN [n \in 1 .. columns |-> <<>>] ELSE <<>>
  <2>1. values \in Seq({<<>>}) /\ Len(values) = offset
    BY DEF Numbered, Offset
  <2>2. args \in Seq(params)
    BY DEF Numbered
  <2> HIDE DEF values
  <2>3. /\ Len(values \o args) = offset + Len(args)
        /\ \A n \in 1 .. offset + Len(args) :
             (values \o args)[n] = IF n <= offset THEN values[n] ELSE args[n - offset]
    <3>1. values \in Seq(params \cup {<<>>}) /\ args \in Seq(params \cup {<<>>})
      BY <2>1, <2>2
    <3> QED BY <2>1, <3>1, ConcatProperties
  <2>4. allArgs = values \o args
    BY DEF allArgs, values
  <2>5. ASSUME NEW slot \in slots
        PROVE  slot[3] \in 1 .. Len(allArgs) /\ allArgs[slot[3]] = slot[2]
    <3>1. /\ slot[3] \in offset + 1 .. offset + Len(args)
          /\ args[slot[3] - offset] = slot[2]
      BY DEF Numbered
    <3>2. offset \in Nat /\ Len(args) \in Nat
      BY <2>2, OffsetIsNumber
    <3>3. slot[3] \in 1 .. offset + Len(args) /\ ~(slot[3] <= offset)
      BY <3>1, <3>2
    <3> QED BY <2>3, <2>4, <3>1, <3>3
  <2>6. ASSUME NEW m \in 1 .. Len(args), NEW n \in 1 .. Len(args), args[m] = args[n]
        PROVE  m = n
    <3>1. offset + m = offset + n
      BY <2>6 DEF Numbered
    <3>2. offset \in Int /\ m \in Int /\ n \in Int
      BY OffsetIsNumber
    <3> QED BY <3>1, <3>2
  <2> QED BY <2>5, <2>6 DEF NumbersFitArguments
<1> QED BY <1>1, NumberedAlways, PTL

-----------------------------------------------------------------------------
(***************************************************************************)
(* The first of some places, and what is searched for with it.             *)
(***************************************************************************)

LEMMA FirstIs ==
  ASSUME NEW places, places \subseteq Int, NEW n \in places, \A m \in places : n <= m
  PROVE  First(places) = n
<1> DEFINE f == CHOOSE k \in places : \A m \in places : k <= m
<1>1. f \in places /\ (\A m \in places : f <= m)
  OBVIOUS
<1>2. f <= n /\ n <= f /\ f \in Int /\ n \in Int
  BY <1>1
<1>3. First(places) = f
  BY DEF First
<1> HIDE DEF f
<1> QED BY <1>2, <1>3

LEMMA FirstExists ==
  ASSUME NEW places, places \subseteq Nat, places # {}
  PROVE  First(places) \in places /\ \A m \in places : First(places) <= m
<1>1. PICK n \in places : \A m \in places : <<m, n>> \notin OpToRel(<, Nat)
  BY WFMin, NatLessThanWellFounded, Zenon
<1>2. \A m \in places : ~(m < n)
  BY <1>1, Zenon DEF OpToRel
<1>3. \A m \in places : n <= m
  BY <1>2
<1>4. places \subseteq Int
  OBVIOUS
<1>5. First(places) = n
  BY <1>3, <1>4, FirstIs, Zenon
<1> QED BY <1>3, <1>5

LEMMA LineEndIs ==
  ASSUME NEW s \in Seq(Characters), NEW j \in 1 .. Len(s) + 1
  PROVE  /\ LineEnd(s, j) \in j .. Len(s) + 1
         /\ LineEnd(s, j) <= Len(s) => s[LineEnd(s, j)] = "nl"
         /\ \A k \in j .. LineEnd(s, j) - 1 : s[k] # "nl"
<1> DEFINE places == {k \in j .. Len(s) : s[k] = "nl"} \cup {Len(s) + 1}
           e == LineEnd(s, j)
<1>1. places \subseteq Nat /\ places # {} /\ Len(s) \in Nat
  OBVIOUS
<1>2. e = First(places)
  BY DEF LineEnd
<1>3. e \in places /\ \A m \in places : e <= m
  BY <1>1, <1>2, FirstExists, Zenon
<1> HIDE DEF e
<1>4. e \in j .. Len(s) + 1 /\ (e <= Len(s) => s[e] = "nl")
  BY <1>3
<1>5. ASSUME NEW k \in j .. e - 1, s[k] = "nl"
      PROVE  FALSE
  <2>1. k \in places /\ ~(e <= k)
    BY <1>4, <1>5
  <2> QED BY <1>3, <2>1
<1> QED BY <1>4, <1>5 DEF e

LEMMA WordEndIs ==
  ASSUME NEW s \in Seq(Characters), NEW j \in 1 .. Len(s) + 1
  PROVE  /\ WordEnd(s, j) \in j .. Len(s) + 1
         /\ WordEnd(s, j) <= Len(s) => ~isIdentifierPart(s[WordEnd(s, j)])
         /\ \A k \in j .. WordEnd(s, j) - 1 : isIdentifierPart(s[k])
<1> DEFINE places == {k \in j .. Len(s) : ~isIdentifierPart(s[k])} \cup {Len(s) + 1}
           e == WordEnd(s, j)
<1>1. places \subseteq Nat /\ places # {} /\ Len(s) \in Nat
  OBVIOUS
<1>2. e = First(places)
  BY DEF WordEnd
<1>3. e \in places /\ \A m \in places : e <= m
  BY <1>1, <1>2, FirstExists, Zenon
<1> HIDE DEF e
<1>4. e \in j .. Len(s) + 1 /\ (e <= Len(s) => ~isIdentifierPart(s[e]))
  BY <1>3
<1>5. ASSUME NEW k \in j .. e - 1, ~isIdentifierPart(s[k])
      PROVE  FALSE
  <2>1. k \in places /\ ~(e <= k)
    BY <1>4, <1>5
  <2> QED BY <1>3, <2>1
<1> QED BY <1>4, <1>5 DEF e

\* Conversely, these facts determine the two.
LEMMA IsLineEnd ==
  ASSUME NEW s \in Seq(Characters), NEW j \in Nat, NEW e \in j .. Len(s) + 1,
         e <= Len(s) => s[e] = "nl",
         \A k \in j .. e - 1 : s[k] # "nl"
  PROVE  LineEnd(s, j) = e
<1> DEFINE places == {k \in j .. Len(s) : s[k] = "nl"} \cup {Len(s) + 1}
<1>1. places \subseteq Int /\ e \in places /\ Len(s) \in Nat
  OBVIOUS
<1>2. \A m \in places : e <= m
  OBVIOUS
<1>3. First(places) = e
  BY <1>1, <1>2, FirstIs, Zenon
<1> QED BY <1>3 DEF LineEnd

LEMMA IsWordEnd ==
  ASSUME NEW s \in Seq(Characters), NEW j \in Nat, NEW e \in j .. Len(s) + 1,
         e <= Len(s) => ~isIdentifierPart(s[e]),
         \A k \in j .. e - 1 : isIdentifierPart(s[k])
  PROVE  WordEnd(s, j) = e
<1> DEFINE places == {k \in j .. Len(s) : ~isIdentifierPart(s[k])} \cup {Len(s) + 1}
<1>1. places \subseteq Int /\ e \in places /\ Len(s) \in Nat
  OBVIOUS
<1>2. \A m \in places : e <= m
  OBVIOUS
<1>3. First(places) = e
  BY <1>1, <1>2, FirstIs, Zenon
<1> QED BY <1>3 DEF WordEnd

\* A word ends where its rest ends.
LEMMA RestOfWord ==
  ASSUME NEW s \in Seq(Characters), NEW j \in 1 .. Len(s), isIdentifierPart(s[j])
  PROVE  WordEnd(s, j) = WordEnd(s, j + 1)
<1> DEFINE e == WordEnd(s, j + 1)
<1>1. /\ e \in j + 1 .. Len(s) + 1
      /\ e <= Len(s) => ~isIdentifierPart(s[e])
      /\ \A k \in j + 1 .. e - 1 : isIdentifierPart(s[k])
  <2>1. j + 1 \in 1 .. Len(s) + 1
    OBVIOUS
  <2> QED BY <2>1, WordEndIs
<1> HIDE DEF e
<1>2. \A k \in j .. e - 1 : isIdentifierPart(s[k])
  BY <1>1
<1>3. e \in j .. Len(s) + 1 /\ j \in Nat
  BY <1>1
<1>4. WordEnd(s, j) = e
  BY <1>1, <1>2, <1>3, IsWordEnd
<1> QED BY <1>4 DEF e

-----------------------------------------------------------------------------
(***************************************************************************)
(* A clause and the SELECT around it: every place of the clause is Lead    *)
(* places further in the SELECT, and a line end follows the clause.        *)
(***************************************************************************)

\* A text between two others.
LEMMA Between ==
  ASSUME NEW front \in Seq(Characters), NEW t \in Seq(Characters), NEW back \in Seq(Characters),
         NEW w, w = front \o t \o back
  PROVE  /\ w \in Seq(Characters) /\ Len(w) = Len(front) + Len(t) + Len(back)
         /\ \A k \in 1 .. Len(front) : w[k] = front[k]
         /\ \A k \in 1 .. Len(t) : w[Len(front) + k] = t[k]
         /\ \A k \in 1 .. Len(back) : w[Len(front) + Len(t) + k] = back[k]
<1> DEFINE body == front \o t
           a == Len(front)
           m == Len(t)
           z == Len(back)
<1>1. a \in Nat /\ m \in Nat /\ z \in Nat
  OBVIOUS
<1>2. /\ body \in Seq(Characters) /\ Len(body) = a + m
      /\ \A k \in 1 .. a + m : body[k] = IF k <= a THEN front[k] ELSE t[k - a]
  BY ConcatProperties, Zenon
<1>3. w = body \o back
  OBVIOUS
<1> HIDE DEF body
<1>4. /\ w \in Seq(Characters) /\ Len(w) = Len(body) + z
      /\ \A k \in 1 .. Len(body) + z :
           w[k] = IF k <= Len(body) THEN body[k] ELSE back[k - Len(body)]
  <2>1. /\ body \o back \in Seq(Characters) /\ Len(body \o back) = Len(body) + Len(back)
        /\ \A k \in 1 .. Len(body) + Len(back) :
             (body \o back)[k] = IF k <= Len(body) THEN body[k] ELSE back[k - Len(body)]
    <3>1. body \in Seq(Characters) /\ back \in Seq(Characters)
      BY <1>2
    <3> QED BY <3>1, ConcatProperties, Zenon
  <2> QED BY <1>3, <2>1
<1> HIDE DEF a, m, z
<1>5. w \in Seq(Characters) /\ Len(w) = a + m + z
  BY <1>2, <1>4
<1>6. ASSUME NEW k \in 1 .. a + m
      PROVE  w[k] = body[k]
  <2>1. k \in 1 .. (a + m) + z /\ k <= a + m
    BY <1>1
  <2> QED BY <1>2, <1>4, <2>1
<1>7. ASSUME NEW k \in 1 .. a
      PROVE  w[k] = front[k]
  <2>1. k \in 1 .. a + m /\ k <= a
    BY <1>1
  <2> QED BY <1>2, <1>6, <2>1
<1>8. ASSUME NEW k \in 1 .. m
      PROVE  w[a + k] = t[k]
  <2>1. a + k \in 1 .. a + m /\ ~(a + k <= a) /\ (a + k) - a = k
    BY <1>1
  <2>2. w[a + k] = body[a + k]
    BY <1>6, <2>1
  <2> QED BY <1>2, <2>1, <2>2
<1>9. ASSUME NEW k \in 1 .. z
      PROVE  w[a + m + k] = back[k]
  <2>1. /\ a + m + k \in 1 .. (a + m) + z /\ ~(a + m + k <= a + m)
        /\ (a + m + k) - (a + m) = k
    BY <1>1
  <2> QED BY <1>2, <1>4, <2>1
<1> QED BY <1>5, <1>7, <1>8, <1>9 DEF a, m, z

LEMMA Wrapped ==
  ASSUME NEW t \in Seq(Characters)
  PROVE  /\ Wrap(t) \in Seq(Characters)
         /\ Len(Wrap(t)) = Lead + Len(t) + 2
         /\ \A j \in 1 .. Len(t) : Wrap(t)[Lead + j] = t[j]
         /\ Wrap(t)[Lead + Len(t) + 1] = "nl"
         /\ Wrap(t)[Lead + Len(t) + 2] = "o"
         /\ Wrap(t)[1] = "S" /\ Wrap(t)[2] = "sp" /\ Wrap(t)[3] = "o" /\ Wrap(t)[4] = "nl"
<1> DEFINE front == <<"S", "sp", "o", "nl">>
           back == <<"nl", "o">>
<1>0. {"S", "sp", "o", "nl"} \subseteq Characters
  BY DEF Characters, Letters
<1>1. /\ front \in Seq(Characters) /\ Len(front) = 4
      /\ front[1] = "S" /\ front[2] = "sp" /\ front[3] = "o" /\ front[4] = "nl"
  BY <1>0
<1>2. back \in Seq(Characters) /\ Len(back) = 2 /\ back[1] = "nl" /\ back[2] = "o"
  BY <1>0
<1>3. Wrap(t) = front \o t \o back
  BY DEF Wrap
<1> HIDE DEF front, back
<1>4. /\ Wrap(t) \in Seq(Characters) /\ Len(Wrap(t)) = 4 + Len(t) + 2
      /\ \A k \in 1 .. 4 : Wrap(t)[k] = front[k]
      /\ \A k \in 1 .. Len(t) : Wrap(t)[4 + k] = t[k]
      /\ \A k \in 1 .. 2 : Wrap(t)[4 + Len(t) + k] = back[k]
  <2>1. /\ Wrap(t) \in Seq(Characters) /\ Len(Wrap(t)) = Len(front) + Len(t) + Len(back)
        /\ \A k \in 1 .. Len(front) : Wrap(t)[k] = front[k]
        /\ \A k \in 1 .. Len(t) : Wrap(t)[Len(front) + k] = t[k]
        /\ \A k \in 1 .. Len(back) : Wrap(t)[Len(front) + Len(t) + k] = back[k]
    <3>1. front \in Seq(Characters) /\ back \in Seq(Characters)
      BY <1>1, <1>2
    <3> QED BY <1>3, <3>1, Between
  <2> QED BY <1>1, <1>2, <2>1
<1>5. Wrap(t)[4 + Len(t) + 1] = "nl" /\ Wrap(t)[4 + Len(t) + 2] = "o"
  BY <1>2, <1>4
<1>6. Wrap(t)[1] = "S" /\ Wrap(t)[2] = "sp" /\ Wrap(t)[3] = "o" /\ Wrap(t)[4] = "nl"
  BY <1>1, <1>4
<1>7. Lead = 4
  BY DEF Lead
<1> QED BY <1>4, <1>5, <1>6, <1>7

LEMMA AtMoves ==
  ASSUME NEW t \in Seq(Characters), NEW j \in 1 .. Len(t) + 1, NEW c, c \notin {"nl", "o"}
  PROVE  At(Wrap(t), Lead + j, c) <=> At(t, j, c)
<1>1. Lead = 4 /\ Len(t) \in Nat
  BY DEF Lead
<1>2. CASE j \in 1 .. Len(t)
  <2>1. Len(Wrap(t)) = Lead + Len(t) + 2 /\ Wrap(t)[Lead + j] = t[j]
    BY <1>2, Wrapped
  <2> QED BY <1>1, <1>2, <2>1 DEF At
<1>3. CASE j = Len(t) + 1
  BY <1>1, <1>3, Wrapped DEF At
<1> QED BY <1>2, <1>3

LEMMA PairMoves ==
  ASSUME NEW t \in Seq(Characters), NEW j \in 1 .. Len(t) + 1, NEW c, NEW d,
         c \notin {"nl", "o"}, d \notin {"nl", "o"}
  PROVE  Pair(Wrap(t), Lead + j, c, d) <=> Pair(t, j, c, d)
<1>1. Lead = 4 /\ Len(t) \in Nat /\ Lead + j + 1 = Lead + (j + 1)
  BY DEF Lead
<1>2. CASE j \in 1 .. Len(t)
  <2>1. j + 1 \in 1 .. Len(t) + 1
    BY <1>1, <1>2
  <2> QED BY <1>1, <2>1, AtMoves DEF Pair
<1>3. CASE j = Len(t) + 1
  <2>1. ~At(Wrap(t), Lead + j, c) /\ ~At(t, j, c)
    BY <1>1, <1>3, AtMoves DEF At
  <2> QED BY <2>1 DEF Pair
<1> QED BY <1>2, <1>3

LEMMA LineEndMoves ==
  ASSUME NEW t \in Seq(Characters), NEW j \in 1 .. Len(t) + 1
  PROVE  LineEnd(Wrap(t), Lead + j) = Lead + LineEnd(t, j)
<1> DEFINE e == LineEnd(t, j)
           q == Wrap(t)
<1>1. /\ e \in j .. Len(t) + 1
      /\ e <= Len(t) => t[e] = "nl"
      /\ \A k \in j .. e - 1 : t[k] # "nl"
  BY LineEndIs
<1>2. /\ q \in Seq(Characters) /\ Len(q) = Lead + Len(t) + 2
      /\ \A k \in 1 .. Len(t) : q[Lead + k] = t[k]
      /\ q[Lead + Len(t) + 1] = "nl"
  BY Wrapped
<1>3. Lead = 4 /\ Len(t) \in Nat
  BY DEF Lead
<1> HIDE DEF e, q
<1>4. Lead + j \in Nat /\ Lead + e \in Lead + j .. Len(q) + 1
  BY <1>1, <1>2, <1>3
<1>5. Lead + e <= Len(q) => q[Lead + e] = "nl"
  BY <1>1, <1>2, <1>3
<1>6. ASSUME NEW k \in Lead + j .. Lead + e - 1
      PROVE  q[k] # "nl"
  <2>1. k - Lead \in j .. e - 1 /\ k - Lead \in 1 .. Len(t) /\ Lead + (k - Lead) = k
    BY <1>1, <1>3
  <2> QED BY <1>1, <1>2, <2>1
<1>7. LineEnd(q, Lead + j) = Lead + e
  <2> DEFINE start == Lead + j
             to == Lead + e
  <2>1. q \in Seq(Characters) /\ start \in Nat /\ to \in start .. Len(q) + 1
    BY <1>2, <1>4
  <2>2. to <= Len(q) => q[to] = "nl"
    BY <1>5
  <2>3. ASSUME NEW k \in start .. to - 1
        PROVE  q[k] # "nl"
    <3>1. k \in Lead + j .. Lead + e - 1
      BY <1>1, <1>3
    <3> QED BY <3>1, <1>6
  <2> HIDE DEF start, to
  <2>4. LineEnd(q, start) = to
    BY <2>1, <2>2, <2>3, IsLineEnd
  <2> QED BY <2>4 DEF start, to
<1> QED BY <1>7 DEF e, q

LEMMA WordEndMoves ==
  ASSUME NEW t \in Seq(Characters), NEW j \in 1 .. Len(t) + 1
  PROVE  WordEnd(Wrap(t), Lead + j) = Lead + WordEnd(t, j)
<1> DEFINE e == WordEnd(t, j)
           q == Wrap(t)
<1>1. /\ e \in j .. Len(t) + 1
      /\ e <= Len(t) => ~isIdentifierPart(t[e])
      /\ \A k \in j .. e - 1 : isIdentifierPart(t[k])
  BY WordEndIs
<1>2. /\ q \in Seq(Characters) /\ Len(q) = Lead + Len(t) + 2
      /\ \A k \in 1 .. Len(t) : q[Lead + k] = t[k]
      /\ q[Lead + Len(t) + 1] = "nl"
  BY Wrapped
<1>3. Lead = 4 /\ Len(t) \in Nat
  BY DEF Lead
<1>4. ~isIdentifierPart("nl")
  BY DEF isIdentifierPart, Letters
<1> HIDE DEF e, q
<1>5. Lead + j \in Nat /\ Lead + e \in Lead + j .. Len(q) + 1
  BY <1>1, <1>2, <1>3
<1>6. Lead + e <= Len(q) => ~isIdentifierPart(q[Lead + e])
  BY <1>1, <1>2, <1>3, <1>4
<1>7. ASSUME NEW k \in Lead + j .. Lead + e - 1
      PROVE  isIdentifierPart(q[k])
  <2>1. k - Lead \in j .. e - 1 /\ k - Lead \in 1 .. Len(t) /\ Lead + (k - Lead) = k
    BY <1>1, <1>3
  <2> QED BY <1>1, <1>2, <2>1
<1>8. WordEnd(q, Lead + j) = Lead + e
  <2> DEFINE start == Lead + j
             to == Lead + e
  <2>1. q \in Seq(Characters) /\ start \in Nat /\ to \in start .. Len(q) + 1
    BY <1>2, <1>5
  <2>2. to <= Len(q) => ~isIdentifierPart(q[to])
    BY <1>6
  <2>3. ASSUME NEW k \in start .. to - 1
        PROVE  isIdentifierPart(q[k])
    <3>1. k \in Lead + j .. Lead + e - 1
      BY <1>1, <1>3
    <3> QED BY <3>1, <1>7
  <2> HIDE DEF start, to
  <2>4. WordEnd(q, start) = to
    BY <2>1, <2>2, <2>3, IsWordEnd
  <2> QED BY <2>4 DEF start, to
<1> QED BY <1>8 DEF e, q

-----------------------------------------------------------------------------
(***************************************************************************)
(* The loops of skipQuoted and skipBlockComment end, for every text.       *)
(***************************************************************************)

LEMMA Upwards ==
  ASSUME NEW S, 0 \in S, \A n \in Nat : n \in S => n + 1 \in S
  PROVE  Nat \subseteq S
<1> DEFINE Bad == Nat \ S
           least == First(Bad)
<1> SUFFICES ASSUME Bad # {} PROVE FALSE
  OBVIOUS
<1>1. Bad \subseteq Nat
  OBVIOUS
<1>2. least \in Bad /\ \A m \in Bad : least <= m
  BY <1>1, FirstExists
<1> HIDE DEF least
<1>3. least \in Nat /\ least # 0
  BY <1>2
<1>4. least - 1 \in Nat /\ ~(least <= least - 1) /\ (least - 1) + 1 = least
  BY <1>3
<1>5. least - 1 \in S
  BY <1>2, <1>4
<1> QED BY <1>2, <1>4, <1>5

\* What is wrong at no last place is wrong nowhere.
LEMMA Downwards ==
  ASSUME NEW N \in Nat, NEW wrong, wrong \subseteq 0 .. N,
         \A n \in wrong : \E m \in wrong : m > n
  PROVE  wrong = {}
<1> SUFFICES ASSUME wrong # {} PROVE FALSE
  OBVIOUS
<1> DEFINE far == {N - n : n \in wrong}
           least == First(far)
<1>1. far \subseteq Nat /\ far # {}
  <2>1. \A n \in wrong : n \in 0 .. N
    OBVIOUS
  <2>2. \A n \in wrong : N - n \in Nat
    BY <2>1
  <2> QED BY <2>2
<1>2. least \in far /\ \A m \in far : least <= m
  BY <1>1, FirstExists
<1> HIDE DEF least
<1>3. PICK n \in wrong : least = N - n
  BY <1>2
<1>4. PICK m \in wrong : m > n
  OBVIOUS
<1>5. N - m \in far /\ ~(least <= N - m)
  BY <1>3, <1>4
<1> QED BY <1>2, <1>5

\* A loop whose every turn comes closer to its end computes a function.
IsLoop(X, N, rank, stop, value, next) ==
  /\ N \in Nat /\ rank \in [X -> 0 .. N] /\ stop \subseteq X
  /\ value \in [X -> Nat] /\ next \in [X -> X]
  /\ \A x \in X : x \notin stop => rank[next[x]] < rank[x]
Computes(f, X, stop, value, next) ==
  /\ f \in [X -> Nat]
  /\ \A x \in X : f[x] = IF x \in stop THEN value[x] ELSE f[next[x]]

LEMMA Iteration ==
  ASSUME NEW X, NEW N, NEW rank, NEW stop, NEW value, NEW next,
         IsLoop(X, N, rank, stop, value, next)
  PROVE  \E f : Computes(f, X, stop, value, next)
<1> USE DEF IsLoop
<1> DEFINE Obeys(f, n) ==
             \A x \in X : rank[x] < n => f[x] = IF x \in stop THEN value[x] ELSE f[next[x]]
           Good == {n \in Nat : \E f \in [X -> Nat] : Obeys(f, n)}
<1>1. 0 \in Good
  <2>1. [x \in X |-> 0] \in [X -> Nat]
    OBVIOUS
  <2>2. Obeys([x \in X |-> 0], 0)
    <3>1. \A x \in X : ~(rank[x] < 0)
      OBVIOUS
    <3> QED BY <3>1
  <2> QED BY <2>1, <2>2
<1>2. ASSUME NEW n \in Good
      PROVE  n + 1 \in Good
  <2>1. PICK f \in [X -> Nat] : Obeys(f, n)
    OBVIOUS
  <2> DEFINE g == [x \in X |-> IF rank[x] = n
                               THEN IF x \in stop THEN value[x] ELSE f[next[x]]
                               ELSE f[x]]
  <2>2. g \in [X -> Nat]
    OBVIOUS
  <2>3. ASSUME NEW x \in X, rank[x] < n + 1
        PROVE  g[x] = IF x \in stop THEN value[x] ELSE g[next[x]]
    <3>1. n \in Nat /\ rank[x] \in Nat /\ rank[next[x]] \in Nat /\ next[x] \in X
      OBVIOUS
    <3>2. x \notin stop => g[next[x]] = f[next[x]]
      <4>1. x \notin stop => rank[next[x]] < n
        BY <2>3, <3>1
      <4> QED BY <3>1, <4>1
    <3>3. CASE rank[x] = n
      BY <3>2, <3>3
    <3>4. CASE rank[x] < n
      <4>1. f[x] = IF x \in stop THEN value[x] ELSE f[next[x]]
        BY <2>1, <3>4
      <4> QED BY <3>1, <3>2, <3>4, <4>1
    <3> QED BY <2>3, <3>1, <3>3, <3>4
  <2>4. Obeys(g, n + 1)
    BY <2>3
  <2> HIDE DEF g, Obeys
  <2> QED BY <2>2, <2>4
<1>3. N + 1 \in Good
  <2>1. Good \subseteq Nat
    OBVIOUS
  <2> HIDE DEF Good
  <2>2. \A n \in Nat : n \in Good => n + 1 \in Good
    BY <1>2
  <2>3. Nat \subseteq Good
    BY <1>1, <2>2, Upwards, Zenon
  <2> QED BY <2>3
<1>4. PICK f \in [X -> Nat] : Obeys(f, N + 1)
  BY <1>3
<1>5. \A x \in X : rank[x] < N + 1
  OBVIOUS
<1> QED BY <1>4, <1>5 DEF Computes

\* One turn of skipQuoted.
QuotedTurn(f, s, quote, j) ==
  IF j > Len(s) THEN 0
  ELSE IF s[j] = "bs" /\ quote = "'" /\ j < Len(s) THEN f[j + 2]
  ELSE IF s[j] # quote THEN f[j + 1]
  ELSE IF At(s, j + 1, quote) THEN f[j + 2]
  ELSE j + 1

LEMMA SkipQuotedRuns ==
  ASSUME NEW s \in Seq(Characters), NEW quote
  PROVE  \E f : /\ \A start \in Nat : skipQuoted(s, start, quote) = f[start + 1]
               /\ \A j \in Nat : f[j] = QuotedTurn(f, s, quote, j)
<1> DEFINE size == Len(s)
           N == size + 1
           twice == {j \in Nat : \/ (s[j] = "bs" /\ quote = "'" /\ j < size)
                              \/ (s[j] = quote /\ At(s, j + 1, quote))}
           stop == {j \in Nat : j > size \/ (j \notin twice /\ s[j] = quote)}
           value == [j \in Nat |-> IF j > size THEN 0 ELSE j + 1]
           next == [j \in Nat |-> IF j \in twice THEN j + 2 ELSE j + 1]
           rank == [j \in Nat |-> IF j > size THEN 0 ELSE size + 1 - j]
<1>1. size \in Nat /\ N \in Nat
  OBVIOUS
<1>2. twice \subseteq Nat
  OBVIOUS
<1>3. /\ rank \in [Nat -> 0 .. N] /\ stop \in SUBSET Nat
      /\ value \in [Nat -> Nat] /\ next \in [Nat -> Nat]
  <2> HIDE DEF size, twice
  <2> QED BY <1>1, <1>2
<1>4. \A j \in Nat : j \notin stop => rank[next[j]] < rank[j]
  <2> HIDE DEF size, twice
  <2> TAKE j \in Nat
  <2>1. next[j] \in Nat /\ next[j] > j
    OBVIOUS
  <2>2. j \notin stop => j <= size
    BY <1>1
  <2>3. rank[j] = IF j > size THEN 0 ELSE size + 1 - j
    OBVIOUS
  <2>4. rank[next[j]] = IF next[j] > size THEN 0 ELSE size + 1 - next[j]
    BY <2>1
  <2> HIDE DEF stop, next, rank
  <2> QED BY <1>1, <2>1, <2>2, <2>3, <2>4
<1>5. \A j \in Nat :
        /\ j \in twice <=> \/ (s[j] = "bs" /\ quote = "'" /\ j < Len(s))
                         \/ (s[j] = quote /\ At(s, j + 1, quote))
        /\ j \in stop <=> j > Len(s) \/ (j \notin twice /\ s[j] = quote)
        /\ value[j] = IF j > Len(s) THEN 0 ELSE j + 1
        /\ next[j] = IF j \in twice THEN j + 2 ELSE j + 1
  OBVIOUS
<1> HIDE DEF N, twice, stop, value, next, rank
<1>6. PICK f : Computes(f, Nat, stop, value, next)
  <2>1. IsLoop(Nat, N, rank, stop, value, next)
    BY <1>1, <1>3, <1>4 DEF IsLoop
  <2> QED BY <2>1, Iteration, Zenon
<1>7. \A j \in Nat : f[j] = QuotedTurn(f, s, quote, j)
  BY <1>5, <1>6 DEF QuotedTurn, Computes
<1> DEFINE Solves(g) == g = [j \in Nat |-> IF j > Len(s) THEN 0
                            ELSE IF s[j] = "bs" /\ quote = "'" /\ j < Len(s) THEN g[j + 2]
                            ELSE IF s[j] # quote THEN g[j + 1]
                            ELSE IF At(s, j + 1, quote) THEN g[j + 2]
                            ELSE j + 1]
           skip == CHOOSE g : Solves(g)
<1>8. Solves(f)
  BY <1>6, <1>7 DEF QuotedTurn, Computes
<1>9. Solves(skip)
  BY <1>8
<1>10. ASSUME NEW start \in Nat
       PROVE  skipQuoted(s, start, quote) = skip[start + 1]
  BY DEF skipQuoted
<1> HIDE DEF skip
<1>11. \A j \in Nat : skip[j] = QuotedTurn(skip, s, quote, j)
  BY <1>9 DEF QuotedTurn
<1> QED BY <1>10, <1>11

LEMMA QuotedEnds ==
  ASSUME NEW s \in Seq(Characters), NEW quote, NEW j \in 1 .. Len(s)
  PROVE  skipQuoted(s, j, quote) \in {0} \cup j + 1 .. Len(s) + 1
<1>1. PICK f : /\ \A start \in Nat : skipQuoted(s, start, quote) = f[start + 1]
               /\ \A k \in Nat : f[k] = QuotedTurn(f, s, quote, k)
  BY SkipQuotedRuns
<1> DEFINE size == Len(s)
           wrong == {k \in 0 .. size : f[k] \notin {0} \cup k + 1 .. size + 1}
<1>2. size \in Nat /\ wrong \subseteq 0 .. size
  OBVIOUS
<1>3. ASSUME NEW k \in wrong
      PROVE  \E m \in wrong : m > k
  <2>1. k \in Nat /\ k + 1 \in Nat /\ k + 2 \in Nat
    OBVIOUS
  <2>2. f[k] = QuotedTurn(f, s, quote, k)
    BY <1>1, <2>1
  <2>3. k <= size /\ f[k] \notin {0} \cup k + 1 .. size + 1
    OBVIOUS
  <2>4. PICK m \in {k + 1, k + 2} : f[k] = f[m]
    BY <1>2, <2>1, <2>2, <2>3 DEF QuotedTurn, At
  <2>5. m \in Nat /\ m > k
    BY <2>1
  <2>6. f[m] = QuotedTurn(f, s, quote, m)
    BY <1>1, <2>5, Zenon
  <2>7. m <= size
    BY <1>2, <2>3, <2>4, <2>5, <2>6 DEF QuotedTurn
  <2>8. m \in wrong
    BY <1>2, <2>1, <2>3, <2>4, <2>5, <2>7
  <2> QED BY <2>5, <2>8
<1>4. wrong = {}
  <2> HIDE DEF wrong
  <2> QED BY <1>2, <1>3, Downwards, Zenon
<1>5. skipQuoted(s, j, quote) = f[j + 1] /\ j + 1 \in Nat
  BY <1>1
<1>6. CASE j = size
  <2>1. f[j + 1] = QuotedTurn(f, s, quote, j + 1)
    BY <1>1, <1>5, Zenon
  <2>2. f[j + 1] = 0
    BY <1>2, <1>6, <2>1 DEF QuotedTurn
  <2> QED BY <1>5, <2>2
<1>7. CASE j < size
  <2>1. j + 1 \in 0 .. size /\ j + 1 \notin wrong
    BY <1>2, <1>4, <1>7
  <2>2. f[j + 1] \in {0} \cup j + 2 .. size + 1
    BY <1>2, <2>1
  <2> QED BY <1>2, <1>5, <2>2
<1> QED BY <1>2, <1>6, <1>7

\* Where a loop on a clause ends, in the SELECT around it.
Moved(n) == IF n = 0 THEN 0 ELSE Lead + n

LEMMA QuotedMoves ==
  ASSUME NEW t \in Seq(Characters), NEW quote \in {"'", "dq"}, NEW j \in 1 .. Len(t)
  PROVE  skipQuoted(Wrap(t), Lead + j, quote) = Moved(skipQuoted(t, j, quote))
<1> DEFINE q == Wrap(t)
           size == Len(t)
<1>0. /\ q \in Seq(Characters) /\ Len(q) = Lead + size + 2
      /\ \A k \in 1 .. size : q[Lead + k] = t[k]
      /\ q[Lead + size + 1] = "nl" /\ q[Lead + size + 2] = "o"
      /\ \A k \in 1 .. size + 1 : At(q, Lead + k, quote) <=> At(t, k, quote)
  BY Wrapped, AtMoves
<1>1. Lead = 4 /\ size \in Nat
  BY DEF Lead
<1> HIDE DEF q
<1>2. PICK f : /\ \A start \in Nat : skipQuoted(t, start, quote) = f[start + 1]
               /\ \A k \in Nat : f[k] = QuotedTurn(f, t, quote, k)
  BY SkipQuotedRuns
<1>3. PICK g : /\ \A start \in Nat : skipQuoted(q, start, quote) = g[start + 1]
               /\ \A k \in Nat : g[k] = QuotedTurn(g, q, quote, k)
  <2>1. q \in Seq(Characters)
    BY <1>0
  <2> QED BY <2>1, SkipQuotedRuns, Zenon
<1>4. \A k \in Nat : k > size => f[k] = 0
  BY <1>1, <1>2 DEF QuotedTurn
<1>5. g[Lead + size + 1] = 0 /\ g[Lead + size + 2] = 0
  <2>1. /\ g[Lead + size + 1] = QuotedTurn(g, q, quote, Lead + size + 1)
        /\ g[Lead + size + 2] = QuotedTurn(g, q, quote, Lead + size + 2)
        /\ g[Lead + size + 3] = QuotedTurn(g, q, quote, Lead + size + 3)
    <3>1. Lead + size + 1 \in Nat /\ Lead + size + 2 \in Nat /\ Lead + size + 3 \in Nat
      BY <1>1
    <3> QED BY <1>3, <3>1, Zenon
  <2>2. g[Lead + size + 3] = 0
    BY <1>0, <1>1, <2>1 DEF QuotedTurn
  <2>3. g[Lead + size + 2] = g[Lead + size + 3]
    BY <1>0, <1>1, <2>1 DEF QuotedTurn
  <2>4. g[Lead + size + 1] = g[Lead + size + 2]
    BY <1>0, <1>1, <2>1 DEF QuotedTurn
  <2> QED BY <2>2, <2>3, <2>4
<1> DEFINE wrong == {k \in 1 .. size : g[Lead + k] # Moved(f[k])}
<1>6. wrong \subseteq 0 .. size
  BY <1>1
<1>7. ASSUME NEW k \in wrong
      PROVE  \E m \in wrong : m > k
  <2>1. k \in 1 .. size /\ k \in Nat /\ Lead + k \in Nat /\ q[Lead + k] = t[k]
    BY <1>0, <1>1
  <2>2. g[Lead + k] = QuotedTurn(g, q, quote, Lead + k) /\ f[k] = QuotedTurn(f, t, quote, k)
    BY <1>2, <1>3, <2>1
  <2>3. At(q, Lead + (k + 1), quote) <=> At(t, k + 1, quote)
    BY <1>0, <1>1, <2>1
  <2>4. Lead + k <= Len(q) /\ Lead + k < Len(q) /\ k <= size
    BY <1>0, <1>1, <2>1
  <2>5. /\ (Lead + k) + 1 = Lead + (k + 1) /\ (Lead + k) + 2 = Lead + (k + 2)
        /\ Lead + k + 1 = Lead + (k + 1)
    BY <1>1, <2>1
  <2>6. CASE t[k] = "bs" /\ quote = "'"
    <3>1. g[Lead + k] = g[Lead + (k + 2)]
      BY <2>1, <2>2, <2>4, <2>5, <2>6 DEF QuotedTurn
    <3>2. CASE k = size
      <4>1. f[k] = f[k + 1]
        BY <1>1, <2>1, <2>2, <2>6, <3>2 DEF QuotedTurn
      <4>2. f[k + 1] = 0 /\ g[Lead + (k + 2)] = 0
        BY <1>1, <1>4, <1>5, <3>2
      <4> QED BY <3>1, <4>1, <4>2 DEF Moved
    <3>3. CASE k < size
      <4>1. f[k] = f[k + 2] /\ g[Lead + (k + 2)] # Moved(f[k + 2])
        BY <1>1, <2>1, <2>2, <2>6, <3>1, <3>3 DEF QuotedTurn
      <4>2. k + 2 \in 1 .. size
        <5>1. CASE k + 2 = size + 1
          <6>1. f[k + 2] = 0 /\ g[Lead + (k + 2)] = 0
            BY <1>1, <1>4, <1>5, <5>1
          <6> QED BY <4>1, <6>1 DEF Moved
        <5> QED BY <1>1, <2>1, <3>3, <5>1
      <4> QED BY <1>1, <2>1, <4>1, <4>2
    <3> QED BY <1>1, <2>1, <3>2, <3>3
  <2>7. CASE ~(t[k] = "bs" /\ quote = "'") /\ t[k] # quote
    <3>1. g[Lead + k] = g[Lead + (k + 1)] /\ f[k] = f[k + 1]
      BY <2>1, <2>2, <2>4, <2>5, <2>7 DEF QuotedTurn
    <3>2. k + 1 \in 1 .. size
      <4>1. CASE k = size
        <5>1. f[k + 1] = 0 /\ g[Lead + (k + 1)] = 0
          BY <1>1, <1>4, <1>5, <4>1
        <5> QED BY <3>1, <5>1 DEF Moved
      <4> QED BY <1>1, <2>1, <4>1
    <3> QED BY <1>1, <2>1, <3>1, <3>2
  <2>8. CASE t[k] = quote /\ At(t, k + 1, quote)
    <3>1. g[Lead + k] = g[Lead + (k + 2)] /\ f[k] = f[k + 2]
      BY <2>1, <2>2, <2>3, <2>4, <2>5, <2>8 DEF QuotedTurn
    <3>2. k + 2 \in 1 .. size
      <4>1. k + 1 <= size
        BY <2>8 DEF At
      <4>2. CASE k + 1 = size
        <5>1. f[k + 2] = 0 /\ g[Lead + (k + 2)] = 0
          BY <1>1, <1>4, <1>5, <2>1, <4>2
        <5> QED BY <3>1, <5>1 DEF Moved
      <4> QED BY <1>1, <2>1, <4>1, <4>2
    <3>3. k + 2 > k
      BY <2>1
    <3>4. k + 2 \in wrong
      BY <3>1, <3>2
    <3> QED BY <3>3, <3>4, Zenon
  <2>9. CASE t[k] = quote /\ ~At(t, k + 1, quote)
    <3>1. g[Lead + k] = Lead + (k + 1) /\ f[k] = k + 1
      BY <2>1, <2>2, <2>3, <2>4, <2>5, <2>9 DEF QuotedTurn
    <3> QED BY <1>1, <2>1, <3>1 DEF Moved
  <2> QED BY <2>6, <2>7, <2>8, <2>9
<1>8. wrong = {}
  <2> HIDE DEF wrong
  <2> QED BY <1>1, <1>6, <1>7, Downwards, Zenon
<1>9. /\ skipQuoted(t, j, quote) = f[j + 1]
      /\ skipQuoted(q, Lead + j, quote) = g[Lead + (j + 1)]
  <2>1. j \in Nat /\ Lead + j \in Nat /\ (Lead + j) + 1 = Lead + (j + 1)
    BY <1>1
  <2>2. /\ skipQuoted(t, j, quote) = f[j + 1]
        /\ skipQuoted(q, Lead + j, quote) = g[(Lead + j) + 1]
    BY <1>2, <1>3, <2>1, Zenon
  <2> QED BY <2>1, <2>2
<1>10. CASE j = size
  BY <1>1, <1>4, <1>5, <1>9, <1>10 DEF q, Moved
<1>11. CASE j < size
  <2>1. j + 1 \in 1 .. size
    BY <1>1, <1>11
  <2> QED BY <1>8, <1>9, <2>1 DEF q
<1> QED BY <1>1, <1>10, <1>11

\* One turn of skipBlockComment, at place k in the comment number d inside.
CommentTurn(f, s, k, d) ==
  IF k > Len(s) THEN 0
  ELSE IF Pair(s, k, "/", "*") THEN f[<<k + 2, d + 1>>]
  ELSE IF Pair(s, k, "*", "/") THEN IF d = 1 THEN k + 2 ELSE f[<<k + 2, d - 1>>]
  ELSE f[<<k + 1, d>>]

LEMMA SkipBlockCommentRuns ==
  ASSUME NEW s \in Seq(Characters)
  PROVE  \E f : /\ \A start \in Nat : skipBlockComment(s, start) = f[<<start + 2, 1>>]
               /\ \A k \in Nat, d \in Nat \ {0} : f[<<k, d>>] = CommentTurn(f, s, k, d)
<1> DEFINE X == Nat \X (Nat \ {0})
           size == Len(s)
           N == size + 1
           opens == {x \in X : Pair(s, x[1], "/", "*")}
           closes == {x \in X : Pair(s, x[1], "*", "/")}
           stop == {x \in X : x[1] > size \/ (x \notin opens /\ x \in closes /\ x[2] = 1)}
           value == [x \in X |-> IF x[1] > size THEN 0 ELSE x[1] + 2]
           next == [x \in X |-> IF x \in opens THEN <<x[1] + 2, x[2] + 1>>
                                ELSE IF x \in closes /\ x[2] # 1 THEN <<x[1] + 2, x[2] - 1>>
                                ELSE <<x[1] + 1, x[2]>>]
           rank == [x \in X |-> IF x[1] > size THEN 0 ELSE size + 1 - x[1]]
<1>1. size \in Nat /\ N \in Nat
  OBVIOUS
<1>2. \A x \in X : x[1] \in Nat /\ x[2] \in Nat /\ x[2] # 0 /\ x = <<x[1], x[2]>>
  OBVIOUS
<1>3. /\ rank \in [X -> 0 .. N] /\ stop \subseteq X /\ value \in [X -> Nat]
  <2> HIDE DEF size, opens, closes, X
  <2> QED BY <1>1, <1>2
<1>4. next \in [X -> X] /\ \A x \in X : next[x][1] > x[1]
  <2>1. ASSUME NEW x \in X
        PROVE  /\ <<x[1] + 2, x[2] + 1>> \in X /\ <<x[1] + 1, x[2]>> \in X
               /\ x[2] # 1 => <<x[1] + 2, x[2] - 1>> \in X
    BY <1>2
  <2> HIDE DEF X, opens, closes
  <2> QED BY <1>2, <2>1
<1>5. \A x \in X : x \notin stop => rank[next[x]] < rank[x]
  <2> HIDE DEF size, opens, closes, X
  <2> TAKE x \in X
  <2>1. next[x] \in X /\ next[x][1] > x[1]
    BY <1>4
  <2>2. next[x][1] \in Nat /\ x[1] \in Nat
    BY <1>2, <2>1
  <2>3. x \notin stop => x[1] <= size
    BY <1>1, <1>2
  <2>4. rank[x] = IF x[1] > size THEN 0 ELSE size + 1 - x[1]
    OBVIOUS
  <2>5. rank[next[x]] = IF next[x][1] > size THEN 0 ELSE size + 1 - next[x][1]
    BY <2>1
  <2> HIDE DEF stop, next, rank
  <2> QED BY <1>1, <2>1, <2>2, <2>3, <2>4, <2>5
<1>6. PICK f : Computes(f, X, stop, value, next)
  <2> HIDE DEF X, N, stop, value, next, rank
  <2>1. IsLoop(X, N, rank, stop, value, next)
    BY <1>1, <1>3, <1>4, <1>5 DEF IsLoop
  <2> QED BY <2>1, Iteration, Zenon
<1>7. ASSUME NEW x \in X
      PROVE  f[x] = CommentTurn(f, s, x[1], x[2])
  <2>1. f[x] = IF x \in stop THEN value[x] ELSE f[next[x]]
    BY <1>6 DEF Computes
  <2>2. /\ x \in opens <=> Pair(s, x[1], "/", "*")
        /\ x \in closes <=> Pair(s, x[1], "*", "/")
    OBVIOUS
  <2>3. /\ x \in stop <=> x[1] > size \/ (x \notin opens /\ x \in closes /\ x[2] = 1)
        /\ value[x] = IF x[1] > size THEN 0 ELSE x[1] + 2
        /\ next[x] = IF x \in opens THEN <<x[1] + 2, x[2] + 1>>
                     ELSE IF x \in closes /\ x[2] # 1 THEN <<x[1] + 2, x[2] - 1>>
                     ELSE <<x[1] + 1, x[2]>>
    OBVIOUS
  <2> HIDE DEF X, N, stop, value, next, rank, opens, closes
  <2>4. x = <<x[1], x[2]>>
    BY <1>2
  <2> QED BY <2>1, <2>2, <2>3, <2>4 DEF CommentTurn
<1> DEFINE Solves(g) ==
             g = [at \in X |->
                    LET k == at[1]
                        depth == at[2]
                    IN IF k > Len(s) THEN 0
                       ELSE IF Pair(s, k, "/", "*") THEN g[<<k + 2, depth + 1>>]
                       ELSE IF Pair(s, k, "*", "/")
                       THEN IF depth = 1 THEN k + 2 ELSE g[<<k + 2, depth - 1>>]
                       ELSE g[<<k + 1, depth>>]]
           skip == CHOOSE g : Solves(g)
<1>8. Solves(f)
  <2> HIDE DEF X, stop, value, next
  <2> QED BY <1>6, <1>7 DEF CommentTurn, Computes
<1>9. Solves(skip)
  BY <1>8
<1>10. ASSUME NEW start \in Nat
       PROVE  skipBlockComment(s, start) = skip[<<start + 2, 1>>]
  BY DEF skipBlockComment
<1> HIDE DEF skip
<1>11. ASSUME NEW k \in Nat, NEW d \in Nat \ {0}
       PROVE  skip[<<k, d>>] = CommentTurn(skip, s, k, d)
  <2>1. <<k, d>> \in X /\ <<k, d>>[1] = k /\ <<k, d>>[2] = d
    OBVIOUS
  <2> QED BY <1>9, <2>1 DEF CommentTurn
<1> QED BY <1>10, <1>11

LEMMA CommentEnds ==
  ASSUME NEW s \in Seq(Characters), NEW j \in 1 .. Len(s)
  PROVE  skipBlockComment(s, j) \in {0} \cup j + 1 .. Len(s) + 1
<1>1. PICK f : /\ \A start \in Nat : skipBlockComment(s, start) = f[<<start + 2, 1>>]
               /\ \A k \in Nat, d \in Nat \ {0} : f[<<k, d>>] = CommentTurn(f, s, k, d)
  BY SkipBlockCommentRuns
<1> DEFINE size == Len(s)
           astray == {x \in Nat \X (Nat \ {0}) : f[x] \notin {0} \cup x[1] + 1 .. size + 1}
           wrong == {k \in 0 .. size : \E d \in Nat \ {0} : <<k, d>> \in astray}
<1>2. size \in Nat /\ wrong \subseteq 0 .. size
  OBVIOUS
<1> HIDE DEF wrong
<1>3. \A k \in 0 .. size : k \in wrong <=> \E d \in Nat \ {0} : <<k, d>> \in astray
  BY DEF wrong
<1>4. \A k \in Nat, d \in Nat \ {0} :
         <<k, d>> \in astray <=> f[<<k, d>>] \notin {0} \cup k + 1 .. size + 1
  OBVIOUS
<1> HIDE DEF astray
<1>5. ASSUME NEW k \in wrong
      PROVE  \E m \in wrong : m > k
  <2>1. k \in Nat /\ k + 1 \in Nat /\ k + 2 \in Nat /\ k \in 0 .. size
    BY <1>2
  <2>2. PICK d \in Nat \ {0} : f[<<k, d>>] \notin {0} \cup k + 1 .. size + 1
    <3>1. PICK d \in Nat \ {0} : <<k, d>> \in astray
      BY <1>3, <2>1
    <3> QED BY <1>4, <2>1, <3>1
  <2>3. f[<<k, d>>] = CommentTurn(f, s, k, d)
    BY <1>1, <2>1, Zenon
  <2>4. \E m \in {k + 1, k + 2}, e \in Nat \ {0} : f[<<k, d>>] = f[<<m, e>>]
    <3>1. d + 1 \in Nat \ {0} /\ (d # 1 => d - 1 \in Nat \ {0})
      OBVIOUS
    <3>2. CASE Pair(s, k, "/", "*")
      <4>1. f[<<k, d>>] = f[<<k + 2, d + 1>>]
        BY <1>2, <2>1, <2>3, <3>2 DEF CommentTurn
      <4> QED BY <3>1, <4>1
    <3>3. CASE ~Pair(s, k, "/", "*") /\ Pair(s, k, "*", "/")
      <4>1. CASE d = 1
        <5>1. f[<<k, d>>] = k + 2 /\ k + 1 <= size
          BY <1>2, <2>1, <2>3, <3>3, <4>1 DEF CommentTurn, Pair, At
        <5> QED BY <1>2, <2>1, <2>2, <5>1
      <4>2. CASE d # 1
        <5>1. f[<<k, d>>] = f[<<k + 2, d - 1>>]
          BY <1>2, <2>1, <2>3, <3>3, <4>2 DEF CommentTurn
        <5> QED BY <3>1, <4>2, <5>1
      <4> QED BY <4>1, <4>2
    <3>4. CASE ~Pair(s, k, "/", "*") /\ ~Pair(s, k, "*", "/")
      <4>1. f[<<k, d>>] = f[<<k + 1, d>>]
        BY <1>2, <2>1, <2>3, <3>4 DEF CommentTurn
      <4> QED BY <4>1
    <3> QED BY <3>2, <3>3, <3>4
  <2>5. PICK m \in {k + 1, k + 2}, e \in Nat \ {0} : f[<<k, d>>] = f[<<m, e>>]
    BY <2>4
  <2>6. m \in Nat /\ m > k
    BY <2>1
  <2>7. f[<<m, e>>] = CommentTurn(f, s, m, e)
    BY <1>1, <2>6, Zenon
  <2>8. m <= size
    BY <1>2, <2>2, <2>5, <2>6, <2>7 DEF CommentTurn
  <2>9. m \in wrong
    <3>1. f[<<m, e>>] \notin {0} \cup m + 1 .. size + 1 /\ m \in 0 .. size
      BY <1>2, <2>1, <2>2, <2>5, <2>6, <2>8
    <3>2. <<m, e>> \in astray
      BY <1>4, <2>6, <3>1
    <3> QED BY <1>3, <3>1, <3>2
  <2> QED BY <2>6, <2>9
<1>6. wrong = {}
  <2> QED BY <1>2, <1>5, Downwards, Zenon
<1>7. j \in Nat /\ j + 2 \in Nat /\ 1 \in Nat \ {0}
  OBVIOUS
<1>8. skipBlockComment(s, j) = f[<<j + 2, 1>>]
  BY <1>1, <1>7
<1>9. CASE j + 2 > size
  <2>1. f[<<j + 2, 1>>] = CommentTurn(f, s, j + 2, 1)
    BY <1>1, <1>7, Zenon
  <2> QED BY <1>8, <1>9, <2>1 DEF CommentTurn
<1>10. CASE j + 2 <= size
  <2>1. j + 2 \in 0 .. size
    BY <1>2, <1>7, <1>10
  <2>2. <<j + 2, 1>> \notin astray
    BY <1>6, <1>7, <1>3, <2>1
  <2>3. f[<<j + 2, 1>>] \in {0} \cup (j + 2) + 1 .. size + 1
    BY <1>7, <1>4, <2>2
  <2> QED BY <1>2, <1>7, <1>8, <2>3
<1> QED BY <1>2, <1>7, <1>9, <1>10

LEMMA CommentMoves ==
  ASSUME NEW t \in Seq(Characters), NEW j \in 1 .. Len(t), Pair(t, j, "/", "*")
  PROVE  skipBlockComment(Wrap(t), Lead + j) = Moved(skipBlockComment(t, j))
<1> DEFINE q == Wrap(t)
           size == Len(t)
<1>1. Lead = 4 /\ size \in Nat
  BY DEF Lead
<1>2. /\ q \in Seq(Characters) /\ Len(q) = Lead + size + 2
      /\ q[Lead + size + 1] = "nl" /\ q[Lead + size + 2] = "o"
  BY Wrapped
<1>3. \A k \in 1 .. size : /\ Pair(q, Lead + k, "/", "*") <=> Pair(t, k, "/", "*")
                           /\ Pair(q, Lead + k, "*", "/") <=> Pair(t, k, "*", "/")
  BY <1>1, PairMoves
<1> HIDE DEF q
<1>4. PICK f : /\ \A start \in Nat : skipBlockComment(t, start) = f[<<start + 2, 1>>]
               /\ \A k \in Nat, d \in Nat \ {0} : f[<<k, d>>] = CommentTurn(f, t, k, d)
  BY SkipBlockCommentRuns
<1>5. PICK g : /\ \A start \in Nat : skipBlockComment(q, start) = g[<<start + 2, 1>>]
               /\ \A k \in Nat, d \in Nat \ {0} : g[<<k, d>>] = CommentTurn(g, q, k, d)
  BY <1>2, SkipBlockCommentRuns
<1>6. ASSUME NEW d \in Nat \ {0}
      PROVE  /\ f[<<size + 1, d>>] = 0
             /\ g[<<Lead + (size + 1), d>>] = 0
  <2> DEFINE n1 == Lead + (size + 1)
             n2 == Lead + (size + 2)
             n3 == Lead + (size + 3)
  <2>1. /\ size + 1 \in Nat /\ n1 \in Nat /\ n2 \in Nat /\ n3 \in Nat
        /\ n1 + 1 = n2 /\ n2 + 1 = n3 /\ n1 <= Len(q) /\ n2 <= Len(q) /\ n3 > Len(q)
        /\ q[n1] = "nl" /\ q[n2] = "o"
    BY <1>1, <1>2
  <2> HIDE DEF n1, n2, n3
  <2>2. /\ f[<<size + 1, d>>] = CommentTurn(f, t, size + 1, d)
        /\ g[<<n1, d>>] = CommentTurn(g, q, n1, d)
        /\ g[<<n2, d>>] = CommentTurn(g, q, n2, d)
        /\ g[<<n3, d>>] = CommentTurn(g, q, n3, d)
    BY <1>4, <1>5, <2>1, Zenon
  <2>3. f[<<size + 1, d>>] = 0
    BY <1>1, <2>2 DEF CommentTurn
  <2>4. g[<<n3, d>>] = 0
    BY <1>2, <2>1, <2>2 DEF CommentTurn
  <2>5. g[<<n2, d>>] = g[<<n3, d>>]
    BY <1>1, <1>2, <2>1, <2>2 DEF CommentTurn, Pair, At
  <2>6. g[<<n1, d>>] = g[<<n2, d>>]
    BY <1>1, <1>2, <2>1, <2>2 DEF CommentTurn, Pair, At
  <2> QED BY <2>3, <2>4, <2>5, <2>6 DEF n1
<1> DEFINE astray == {x \in Nat \X (Nat \ {0}) : g[<<Lead + x[1], x[2]>>] # Moved(f[x])}
           wrong == {k \in 1 .. size : \E d \in Nat \ {0} : <<k, d>> \in astray}
<1>7. wrong \subseteq 0 .. size
  BY <1>1
<1>8. \A k \in 1 .. size : k \in wrong <=> \E d \in Nat \ {0} : <<k, d>> \in astray
  OBVIOUS
<1>9. \A k \in Nat, d \in Nat \ {0} :
        <<k, d>> \in astray <=> g[<<Lead + k, d>>] # Moved(f[<<k, d>>])
  OBVIOUS
<1> HIDE DEF astray, wrong
<1>10. ASSUME NEW k \in wrong
       PROVE  \E m \in wrong : m > k
  <2>1. k \in 1 .. size /\ k \in Nat /\ Lead + k \in Nat
    BY <1>1 DEF wrong
  <2>2. PICK d \in Nat \ {0} : g[<<Lead + k, d>>] # Moved(f[<<k, d>>])
    <3>1. PICK d \in Nat \ {0} : <<k, d>> \in astray
      BY <1>8, <2>1
    <3> QED BY <1>9, <2>1, <3>1
  <2>3. /\ f[<<k, d>>] = CommentTurn(f, t, k, d)
        /\ g[<<Lead + k, d>>] = CommentTurn(g, q, Lead + k, d)
    BY <1>4, <1>5, <2>1, Zenon
  <2>4. /\ Pair(q, Lead + k, "/", "*") <=> Pair(t, k, "/", "*")
        /\ Pair(q, Lead + k, "*", "/") <=> Pair(t, k, "*", "/")
    BY <1>3, <2>1
  <2>5. k <= size /\ Lead + k <= Len(q)
    BY <1>1, <1>2, <2>1
  <2>6. (Lead + k) + 1 = Lead + (k + 1) /\ (Lead + k) + 2 = Lead + (k + 2)
    BY <1>1, <2>1
  <2>7. Pair(t, k, "/", "*") \/ Pair(t, k, "*", "/") => k + 2 \in 1 .. size + 1
    BY <1>1, <2>1 DEF Pair, At
  <2>8. \E m \in {k + 1, k + 2}, e \in Nat \ {0} :
           /\ m \in 1 .. size + 1
           /\ f[<<k, d>>] = f[<<m, e>>] /\ g[<<Lead + k, d>>] = g[<<Lead + m, e>>]
    <3>1. d + 1 \in Nat \ {0} /\ (d # 1 => d - 1 \in Nat \ {0})
      OBVIOUS
    <3>2. CASE Pair(t, k, "/", "*")
      <4>1. /\ f[<<k, d>>] = f[<<k + 2, d + 1>>]
            /\ g[<<Lead + k, d>>] = g[<<Lead + (k + 2), d + 1>>]
        BY <1>1, <2>1, <2>3, <2>4, <2>5, <2>6, <3>2 DEF CommentTurn
      <4> QED BY <2>7, <3>1, <3>2, <4>1
    <3>3. CASE ~Pair(t, k, "/", "*") /\ Pair(t, k, "*", "/")
      <4>1. CASE d = 1
        <5>1. f[<<k, d>>] = k + 2 /\ g[<<Lead + k, d>>] = Lead + (k + 2)
          BY <1>1, <2>1, <2>3, <2>4, <2>5, <2>6, <3>3, <4>1 DEF CommentTurn
        <5> QED BY <2>1, <2>2, <5>1 DEF Moved
      <4>2. CASE d # 1
        <5>1. /\ f[<<k, d>>] = f[<<k + 2, d - 1>>]
              /\ g[<<Lead + k, d>>] = g[<<Lead + (k + 2), d - 1>>]
          BY <1>1, <2>1, <2>3, <2>4, <2>5, <2>6, <3>3, <4>2 DEF CommentTurn
        <5> QED BY <2>7, <3>1, <3>3, <4>2, <5>1
      <4> QED BY <4>1, <4>2
    <3>4. CASE ~Pair(t, k, "/", "*") /\ ~Pair(t, k, "*", "/")
      <4>1. f[<<k, d>>] = f[<<k + 1, d>>] /\ g[<<Lead + k, d>>] = g[<<Lead + (k + 1), d>>]
        BY <1>1, <2>1, <2>3, <2>4, <2>5, <2>6, <3>4 DEF CommentTurn
      <4>2. k + 1 \in 1 .. size + 1
        BY <1>1, <2>1
      <4> QED BY <4>1, <4>2
    <3> QED BY <3>2, <3>3, <3>4
  <2>9. PICK m \in {k + 1, k + 2}, e \in Nat \ {0} :
           /\ m \in 1 .. size + 1
           /\ f[<<k, d>>] = f[<<m, e>>] /\ g[<<Lead + k, d>>] = g[<<Lead + m, e>>]
    BY <2>8
  <2>10. m > k /\ m \in Nat
    BY <2>1
  <2>11. g[<<Lead + m, e>>] # Moved(f[<<m, e>>])
    BY <2>2, <2>9
  <2>12. m # size + 1
    <3> SUFFICES ASSUME m = size + 1 PROVE FALSE
      OBVIOUS
    <3>1. f[<<m, e>>] = 0 /\ g[<<Lead + m, e>>] = 0
      BY <1>6
    <3> QED BY <2>11, <3>1 DEF Moved
  <2>13. m \in 1 .. size
    BY <1>1, <2>9, <2>12
  <2>14. <<m, e>> \in astray
    BY <1>9, <2>10, <2>11
  <2> QED BY <1>8, <2>10, <2>13, <2>14
<1>11. wrong = {}
  BY <1>1, <1>7, <1>10, Downwards, Zenon
<1>12. j \in Nat /\ Lead + j \in Nat /\ (Lead + j) + 2 = Lead + (j + 2) /\ 1 \in Nat \ {0}
  BY <1>1
<1>13. /\ skipBlockComment(t, j) = f[<<j + 2, 1>>]
       /\ skipBlockComment(q, Lead + j) = g[<<Lead + (j + 2), 1>>]
  BY <1>4, <1>5, <1>12
<1>14. j + 2 \in 1 .. size + 1
  BY <1>1, <1>12 DEF Pair, At
<1>15. CASE j + 2 = size + 1
  <2>1. f[<<j + 2, 1>>] = 0 /\ g[<<Lead + (j + 2), 1>>] = 0
    BY <1>6, <1>12, <1>15
  <2> QED BY <1>13, <2>1 DEF Moved, q
<1>16. CASE j + 2 # size + 1
  <2>1. j + 2 \in 1 .. size /\ j + 2 \in Nat
    BY <1>1, <1>12, <1>14, <1>16
  <2>2. <<j + 2, 1>> \notin astray
    BY <1>8, <1>11, <1>12, <2>1
  <2>3. g[<<Lead + (j + 2), 1>>] = Moved(f[<<j + 2, 1>>])
    BY <1>9, <1>12, <2>1, <2>2
  <2> QED BY <1>13, <2>3 DEF q
<1> QED BY <1>15, <1>16

-----------------------------------------------------------------------------
(***************************************************************************)
(* Dollar quotes.                                                          *)
(***************************************************************************)

LEMMA DelimiterIs ==
  ASSUME NEW s \in Seq(Characters), NEW j \in 1 .. Len(s), s[j] = "$",
         NEW d, d = dollarQuoteDelimiter(s, j), d # <<>>
  PROVE  /\ d \in Seq(Characters) /\ Len(d) \in 2 .. Len(s) + 1 - j
         /\ d = SubSeq(s, j, j + Len(d) - 1)
         /\ \A k \in 1 .. Len(d) : d[k] = s[j + k - 1] /\ d[k] \notin {"nl", "o"}
         /\ d[Len(d)] = "$"
<1> DEFINE e == WordEnd(s, j + 1)
<1>1. j \in Nat /\ Len(s) \in Nat /\ j + 1 \in 1 .. Len(s) + 1
  OBVIOUS
<1>2. e \in j + 1 .. Len(s) + 1 /\ \A k \in j + 1 .. e - 1 : isIdentifierPart(s[k])
  BY <1>1, WordEndIs
<1>3. At(s, e, "$") /\ d = SubSeq(s, j, e)
  BY DEF dollarQuoteDelimiter
<1> HIDE DEF e
<1>4. e <= Len(s) /\ s[e] = "$" /\ e \in Nat
  BY <1>1, <1>2, <1>3 DEF At
<1>5. /\ d \in Seq(Characters) /\ Len(d) = e - j + 1
      /\ \A k \in 1 .. e - j + 1 : d[k] = s[j + k - 1]
  BY <1>1, <1>2, <1>3, <1>4, SubSeqProperties
<1>6. Len(d) \in 2 .. Len(s) + 1 - j /\ j + Len(d) - 1 = e
  BY <1>1, <1>2, <1>4, <1>5
<1>7. ASSUME NEW k \in 1 .. Len(d)
      PROVE  d[k] = s[j + k - 1] /\ d[k] \notin {"nl", "o"}
  <2>1. d[k] = s[j + k - 1]
    BY <1>5
  <2>2. CASE k = 1
    <3>1. d[k] = s[j]
      BY <1>1, <2>1, <2>2
    <3> QED BY <2>1, <3>1
  <2>3. CASE k = Len(d)
    <3>1. d[k] = s[e]
      BY <1>6, <2>1, <2>3, <1>1
    <3> QED BY <1>4, <2>1, <3>1
  <2>4. CASE k # 1 /\ k # Len(d)
    <3>1. j + k - 1 \in j + 1 .. e - 1
      BY <1>1, <1>2, <1>4, <1>5, <2>4
    <3>2. isIdentifierPart(d[k])
      BY <1>2, <2>1, <3>1
    <3> QED BY <2>1, <3>2 DEF isIdentifierPart, Letters
  <2> QED BY <2>2, <2>3, <2>4
<1>8. d[Len(d)] = "$"
  <2>1. Len(d) \in 1 .. e - j + 1 /\ j + Len(d) - 1 = e
    BY <1>1, <1>5, <1>6
  <2> QED BY <1>4, <1>5, <2>1
<1> QED BY <1>3, <1>5, <1>6, <1>7, <1>8

LEMMA PartMoves ==
  ASSUME NEW t \in Seq(Characters), NEW a \in 1 .. Len(t), NEW b \in a .. Len(t)
  PROVE  SubSeq(Wrap(t), Lead + a, Lead + b) = SubSeq(t, a, b)
<1> DEFINE q == Wrap(t)
           u == SubSeq(q, Lead + a, Lead + b)
           v == SubSeq(t, a, b)
<1>1. /\ q \in Seq(Characters) /\ Len(q) = Lead + Len(t) + 2
      /\ \A k \in 1 .. Len(t) : q[Lead + k] = t[k]
  BY Wrapped
<1>2. Lead = 4 /\ a \in Int /\ b \in Int /\ Len(t) \in Nat /\ a <= b /\ b <= Len(t) /\ a >= 1
  BY DEF Lead
<1> HIDE DEF q
<1>3. /\ u \in Seq(Characters) /\ Len(u) = b - a + 1
      /\ \A k \in 1 .. b - a + 1 : u[k] = q[Lead + a + k - 1]
  <2>1. Lead + a \in Int /\ Lead + b \in Int /\ Lead + a <= Lead + b
    BY <1>2
  <2>2. \A k \in Lead + a .. Lead + b : q[k] \in Characters
    BY <1>1, <1>2
  <2>3. /\ u \in Seq(Characters) /\ Len(u) = (Lead + b) - (Lead + a) + 1
        /\ \A k \in 1 .. (Lead + b) - (Lead + a) + 1 : u[k] = q[Lead + a + k - 1]
    BY <2>1, <2>2, SubSeqProperties
  <2>4. (Lead + b) - (Lead + a) + 1 = b - a + 1
    BY <1>2
  <2> QED BY <2>3, <2>4
<1>4. /\ v \in Seq(Characters) /\ Len(v) = b - a + 1
      /\ \A k \in 1 .. b - a + 1 : v[k] = t[a + k - 1]
  <2>1. \A k \in a .. b : t[k] \in Characters
    BY <1>2
  <2> QED BY <1>2, <2>1, SubSeqProperties
<1> HIDE DEF u, v
<1>5. ASSUME NEW k \in 1 .. b - a + 1
      PROVE  u[k] = v[k]
  <2>1. a + k - 1 \in 1 .. Len(t) /\ Lead + a + k - 1 = Lead + (a + k - 1)
    BY <1>2
  <2> QED BY <1>1, <1>3, <1>4, <2>1
<1>6. u = v
  BY <1>3, <1>4, <1>5, SeqEqual
<1> QED BY <1>6 DEF u, v, q

LEMMA DelimiterMoves ==
  ASSUME NEW t \in Seq(Characters), NEW j \in 1 .. Len(t)
  PROVE  dollarQuoteDelimiter(Wrap(t), Lead + j) = dollarQuoteDelimiter(t, j)
<1> DEFINE q == Wrap(t)
           e == WordEnd(t, j + 1)
           to == WordEnd(q, Lead + j + 1)
<1>1. /\ Lead = 4 /\ Len(t) \in Nat /\ j \in Nat /\ j + 1 \in 1 .. Len(t) + 1
      /\ Lead + j + 1 = Lead + (j + 1)
  BY DEF Lead
<1>2. e \in j + 1 .. Len(t) + 1
  BY <1>1, WordEndIs
<1>3. to = Lead + e
  BY <1>1, WordEndMoves
<1>4. At(q, Lead + j + 1, "1") <=> At(t, j + 1, "1")
  BY <1>1, AtMoves
<1>5. At(q, Lead + e, "$") <=> At(t, e, "$")
  <2>1. e \in 1 .. Len(t) + 1
    BY <1>1, <1>2
  <2> QED BY <2>1, AtMoves
<1>6. At(t, e, "$") => SubSeq(q, Lead + j, Lead + e) = SubSeq(t, j, e)
  <2> SUFFICES ASSUME At(t, e, "$") PROVE SubSeq(q, Lead + j, Lead + e) = SubSeq(t, j, e)
    OBVIOUS
  <2>1. e \in j .. Len(t)
    BY <1>1, <1>2 DEF At
  <2> QED BY <2>1, PartMoves
<1>7. dollarQuoteDelimiter(t, j)
        = IF At(t, e, "$") /\ ~At(t, j + 1, "1") THEN SubSeq(t, j, e) ELSE <<>>
  BY DEF dollarQuoteDelimiter
<1>8. dollarQuoteDelimiter(q, Lead + j)
        = IF At(q, to, "$") /\ ~At(q, Lead + j + 1, "1") THEN SubSeq(q, Lead + j, to) ELSE <<>>
  BY DEF dollarQuoteDelimiter
<1> HIDE DEF q, e, to
<1>9. dollarQuoteDelimiter(q, Lead + j) = dollarQuoteDelimiter(t, j)
  <2>1. CASE At(t, e, "$") /\ ~At(t, j + 1, "1")
    <3>1. At(q, to, "$") /\ ~At(q, Lead + j + 1, "1")
      BY <1>3, <1>4, <1>5, <2>1, Zenon
    <3>2. SubSeq(q, Lead + j, to) = SubSeq(t, j, e)
      BY <1>3, <1>6, <2>1, Zenon
    <3> QED BY <1>7, <1>8, <2>1, <3>1, <3>2, Zenon
  <2>2. CASE ~(At(t, e, "$") /\ ~At(t, j + 1, "1"))
    <3>1. ~(At(q, to, "$") /\ ~At(q, Lead + j + 1, "1"))
      BY <1>3, <1>4, <1>5, <2>2, Zenon
    <3> QED BY <1>7, <1>8, <2>2, <3>1, Zenon
  <2> QED BY <2>1, <2>2
<1> QED BY <1>9 DEF q

LEMMA ClosingEnds ==
  ASSUME NEW s \in Seq(Characters), NEW j \in 1 .. Len(s) + 1, NEW d, Len(d) \in Nat \ {0}
  PROVE  Closing(s, j, d) \in {0} \cup j + 1 .. Len(s) + 1
<1> DEFINE size == Len(d)
           found == {k \in j .. Len(s) - size + 1 : SubSeq(s, k, k + size - 1) = d}
<1>1. Closing(s, j, d) = IF found = {} THEN 0 ELSE First(found) + size
  BY DEF Closing
<1>2. Len(s) \in Nat /\ size \in Nat /\ size # 0 /\ j \in Nat
  OBVIOUS
<1> HIDE DEF size
<1>3. found \subseteq Nat /\ \A k \in found : k >= j /\ k <= Len(s) - size + 1
  BY <1>2
<1> HIDE DEF found
<1>4. CASE found # {}
  <2> DEFINE first == First(found)
  <2>1. first \in found
    BY <1>3, <1>4, FirstExists
  <2>2. Closing(s, j, d) = first + size
    BY <1>1, <1>4
  <2> HIDE DEF first
  <2>3. first \in Nat /\ first >= j /\ first <= Len(s) - size + 1
    BY <1>3, <2>1
  <2>4. first + size \in j + 1 .. Len(s) + 1
    BY <1>2, <2>3
  <2> QED BY <2>2, <2>4
<1> QED BY <1>1, <1>4

LEMMA CharactersAt ==
  ASSUME NEW s, NEW a \in Int, NEW b \in Int, \A n \in a .. b : s[n] \in Characters
  PROVE  \A n \in 1 .. b - a + 1 : SubSeq(s, a, b)[n] = s[a + n - 1]
BY SubSeqProperties

LEMMA ClosingMoves ==
  ASSUME NEW t \in Seq(Characters), NEW j \in 1 .. Len(t) + 1,
         NEW d \in Seq(Characters), Len(d) # 0, d[Len(d)] = "$"
  PROVE  Closing(Wrap(t), Lead + j, d) = Moved(Closing(t, j, d))
<1> DEFINE q == Wrap(t)
           size == Len(d)
           here == {k \in j .. Len(t) - size + 1 : SubSeq(t, k, k + size - 1) = d}
           there == {k \in Lead + j .. Len(q) - size + 1 : SubSeq(q, k, k + size - 1) = d}
<1>1. /\ q \in Seq(Characters) /\ Len(q) = Lead + Len(t) + 2
      /\ \A k \in 1 .. Len(t) : q[Lead + k] = t[k]
      /\ q[Lead + Len(t) + 1] = "nl" /\ q[Lead + Len(t) + 2] = "o"
  BY Wrapped
<1>2. Lead = 4 /\ Len(t) \in Nat /\ size \in Nat /\ size >= 1 /\ j \in Nat /\ j >= 1
  BY DEF Lead
<1>3. /\ Closing(t, j, d) = IF here = {} THEN 0 ELSE First(here) + size
      /\ Closing(q, Lead + j, d) = IF there = {} THEN 0 ELSE First(there) + size
  BY DEF Closing
<1>4. ASSUME NEW k \in here
      PROVE  Lead + k \in there
  <2>1. k \in 1 .. Len(t) /\ k + size - 1 \in k .. Len(t) /\ k >= j /\ k \in Nat
    BY <1>2
  <2>2. SubSeq(q, Lead + k, Lead + (k + size - 1)) = d
    BY <2>1, PartMoves
  <2>3. Lead + (k + size - 1) = (Lead + k) + size - 1
    BY <1>2, <2>1
  <2>4. Lead + k \in Lead + j .. Len(q) - size + 1
    BY <1>1, <1>2, <2>1
  <2> QED BY <2>2, <2>3, <2>4
<1>5. ASSUME NEW k \in there
      PROVE  \E m \in here : k = Lead + m
  <2> DEFINE m == k - Lead
             last == k + size - 1
  <2>1. /\ k \in Nat /\ m \in Nat /\ k = Lead + m /\ m >= j /\ m >= 1
        /\ last \in Nat /\ last <= Len(q) /\ k <= last
    BY <1>1, <1>2
  <2>2. SubSeq(q, k, last) = d
    OBVIOUS
  <2> HIDE DEF m, last
  <2>3. \A n \in k .. last : q[n] \in Characters
    BY <1>1, <1>2, <2>1
  <2>4. d[size] = q[last]
    <3>1. \A n \in 1 .. last - k + 1 : SubSeq(q, k, last)[n] = q[k + n - 1]
      <4>1. k \in Int /\ last \in Int
        BY <2>1
      <4> QED BY <2>3, <4>1, CharactersAt, Zenon
    <3>2. size \in 1 .. last - k + 1 /\ k + size - 1 = last
      BY <1>2, <2>1 DEF last
    <3> QED BY <2>2, <3>1, <3>2
  <2>5. q[last] = "$"
    BY <2>4
  <2>6. last # Lead + Len(t) + 1 /\ last # Lead + Len(t) + 2
    BY <1>1, <2>5
  <2>7. last <= Lead + Len(t)
    BY <1>1, <1>2, <2>1, <2>6
  <2>8. /\ m \in 1 .. Len(t) /\ m + size - 1 \in m .. Len(t)
        /\ Lead + (m + size - 1) = last
    BY <1>2, <2>1, <2>7 DEF last
  <2>9. SubSeq(t, m, m + size - 1) = d
    <3>1. SubSeq(q, Lead + m, Lead + (m + size - 1)) = SubSeq(t, m, m + size - 1)
      BY <2>8, PartMoves
    <3> QED BY <2>1, <2>2, <2>8, <3>1
  <2>10. m \in j .. Len(t) - size + 1
    BY <1>2, <2>1, <2>8
  <2> QED BY <2>1, <2>9, <2>10
<1>6. here \subseteq Nat /\ there \subseteq Int
  BY <1>2
<1> HIDE DEF here, there, size, q
<1>7. CASE here = {}
  <2>1. there = {}
    BY <1>5, <1>7
  <2> QED BY <1>3, <1>7, <2>1 DEF Moved, q
<1>8. CASE here # {}
  <2> DEFINE first == First(here)
             n == Lead + first
  <2>1. first \in here /\ \A m \in here : first <= m
    BY <1>6, <1>8, FirstExists
  <2>2. /\ Closing(t, j, d) = first + size
        /\ there # {} => Closing(q, Lead + j, d) = First(there) + size
    BY <1>3, <1>8
  <2> HIDE DEF first
  <2>3. n \in there
    BY <1>4, <2>1
  <2>4. ASSUME NEW k \in there
        PROVE  n <= k
    <3>1. PICK m \in here : k = Lead + m
      BY <1>5
    <3>2. first \in Nat /\ m \in Nat /\ first <= m
      BY <1>6, <2>1
    <3> QED BY <1>2, <3>1, <3>2
  <2>5. First(there) = n
    <3> HIDE DEF n
    <3> QED BY <1>6, <2>3, <2>4, FirstIs, Zenon
  <2>6. first \in Nat
    BY <1>6, <2>1
  <2>7. Closing(q, Lead + j, d) = Lead + first + size
    BY <2>2, <2>3, <2>5
  <2>8. Moved(first + size) = Lead + first + size
    BY <1>2, <2>6 DEF Moved
  <2> QED BY <2>2, <2>7, <2>8 DEF q
<1> QED BY <1>7, <1>8

-----------------------------------------------------------------------------
(***************************************************************************)
(* One turn of inspectStatement, told of a text and a place alone.         *)
(***************************************************************************)

DelimiterAt(s, k) == IF s[k] = "$" THEN dollarQuoteDelimiter(s, k) ELSE <<>>

\* A comment or a quote starts at place k.
Covers(s, k) ==
  \/ Pair(s, k, "-", "-") \/ Pair(s, k, "/", "*")
  \/ s[k] \in {"'", "dq"} \/ DelimiterAt(s, k) # <<>>

\* Where the next turn starts, 0 when there is none.
TurnEnd(s, k) ==
  IF Pair(s, k, "-", "-") THEN LineEnd(s, k + 2)
  ELSE IF Pair(s, k, "/", "*") THEN skipBlockComment(s, k)
  ELSE IF s[k] \in {"'", "dq"} THEN skipQuoted(s, k, s[k])
  ELSE IF DelimiterAt(s, k) # <<>>
  THEN Closing(s, k + Len(DelimiterAt(s, k)), DelimiterAt(s, k))
  ELSE IF isIdentifierStart(s[k]) THEN WordEnd(s, k)
  ELSE k + 1

LEMMA WordTurn ==
  ASSUME NEW s \in Seq(Characters), NEW k \in 1 .. Len(s), isIdentifierPart(s[k])
  PROVE  /\ ~Covers(s, k)
         /\ isIdentifierStart(s[k]) => TurnEnd(s, k) = WordEnd(s, k)
<1>1. s[k] \notin {"-", "/", "'", "dq", "$"}
  BY DEF isIdentifierPart, Letters
<1>2. DelimiterAt(s, k) = <<>>
  BY <1>1 DEF DelimiterAt
<1>3. ~Pair(s, k, "-", "-") /\ ~Pair(s, k, "/", "*")
  BY <1>1 DEF Pair, At
<1> QED BY <1>1, <1>2, <1>3 DEF Covers, TurnEnd

LEMMA OtherTurn ==
  ASSUME NEW s, NEW k, ~Covers(s, k), ~isIdentifierStart(s[k])
  PROVE  TurnEnd(s, k) = k + 1
BY DEF Covers, TurnEnd

LEMMA SpaceTurn ==
  ASSUME NEW s, NEW k, isSpace(s[k])
  PROVE  ~Covers(s, k) /\ ~isIdentifierStart(s[k])
<1>1. s[k] \in {"sp", "nl"}
  BY DEF isSpace
<1>2. DelimiterAt(s, k) = <<>>
  BY <1>1 DEF DelimiterAt
<1>3. ~Pair(s, k, "-", "-") /\ ~Pair(s, k, "/", "*")
  BY <1>1 DEF Pair, At
<1> QED BY <1>1, <1>2, <1>3 DEF Covers, isIdentifierStart, Letters

LEMMA DelimiterAtIs ==
  ASSUME NEW s \in Seq(Characters), NEW k \in 1 .. Len(s), NEW d, d = DelimiterAt(s, k),
         d # <<>>
  PROVE  /\ s[k] = "$" /\ d = dollarQuoteDelimiter(s, k)
         /\ d \in Seq(Characters) /\ Len(d) \in 2 .. Len(s) + 1 - k /\ d[Len(d)] = "$"
<1>1. s[k] = "$" /\ d = dollarQuoteDelimiter(s, k)
  BY DEF DelimiterAt
<1> QED BY <1>1, DelimiterIs

LEMMA TurnGoesOn ==
  ASSUME NEW s \in Seq(Characters), NEW k \in 1 .. Len(s)
  PROVE  TurnEnd(s, k) \in {0} \cup k + 1 .. Len(s) + 1
<1>1. k \in Nat /\ Len(s) \in Nat /\ k <= Len(s)
  OBVIOUS
<1>2. CASE Pair(s, k, "-", "-")
  <2>1. k + 2 \in 1 .. Len(s) + 1
    BY <1>1, <1>2 DEF Pair, At
  <2>2. LineEnd(s, k + 2) \in k + 2 .. Len(s) + 1
    BY <2>1, LineEndIs
  <2> QED BY <1>1, <1>2, <2>2 DEF TurnEnd
<1>3. CASE ~Pair(s, k, "-", "-") /\ Pair(s, k, "/", "*")
  BY <1>3, CommentEnds DEF TurnEnd
<1>4. CASE ~Pair(s, k, "-", "-") /\ ~Pair(s, k, "/", "*") /\ s[k] \in {"'", "dq"}
  BY <1>4, QuotedEnds DEF TurnEnd
<1>5. CASE /\ ~Pair(s, k, "-", "-") /\ ~Pair(s, k, "/", "*") /\ s[k] \notin {"'", "dq"}
           /\ DelimiterAt(s, k) # <<>>
  <2> DEFINE d == DelimiterAt(s, k)
  <2>1. Len(d) \in 2 .. Len(s) + 1 - k
    BY <1>5, DelimiterAtIs
  <2>2. TurnEnd(s, k) = Closing(s, k + Len(d), d)
    BY <1>5 DEF TurnEnd
  <2> HIDE DEF d
  <2>3. k + Len(d) \in 1 .. Len(s) + 1 /\ Len(d) \in Nat \ {0} /\ Len(d) >= 1
    BY <1>1, <2>1
  <2>4. Closing(s, k + Len(d), d) \in {0} \cup k + Len(d) + 1 .. Len(s) + 1
    BY <2>3, ClosingEnds
  <2> QED BY <1>1, <2>2, <2>3, <2>4
<1>6. CASE ~Covers(s, k) /\ isIdentifierStart(s[k])
  <2>1. isIdentifierPart(s[k]) /\ TurnEnd(s, k) = WordEnd(s, k)
    BY <1>6 DEF TurnEnd, Covers, isIdentifierStart, isIdentifierPart
  <2>2. WordEnd(s, k) = WordEnd(s, k + 1) /\ k + 1 \in 1 .. Len(s) + 1
    BY <1>1, <2>1, RestOfWord
  <2>3. WordEnd(s, k + 1) \in k + 1 .. Len(s) + 1
    BY <2>2, WordEndIs
  <2> QED BY <2>1, <2>2, <2>3
<1>7. CASE ~Covers(s, k) /\ ~isIdentifierStart(s[k])
  <2>1. TurnEnd(s, k) = k + 1
    BY <1>7, OtherTurn
  <2> QED BY <1>1, <2>1
<1> QED BY <1>2, <1>3, <1>4, <1>5, <1>6, <1>7 DEF Covers

\* In the SELECT around a clause the same quotes and comments start, and they
\* end in the same places.
LEMMA DelimiterAtMoves ==
  ASSUME NEW t \in Seq(Characters), NEW j \in 1 .. Len(t)
  PROVE  DelimiterAt(Wrap(t), Lead + j) = DelimiterAt(t, j)
BY Wrapped, DelimiterMoves DEF DelimiterAt

LEMMA CoversMoves ==
  ASSUME NEW t \in Seq(Characters), NEW j \in 1 .. Len(t)
  PROVE  Covers(Wrap(t), Lead + j) <=> Covers(t, j)
<1>1. Wrap(t)[Lead + j] = t[j] /\ j \in 1 .. Len(t) + 1
  BY Wrapped
<1>2. DelimiterAt(Wrap(t), Lead + j) = DelimiterAt(t, j)
  BY DelimiterAtMoves
<1>3. /\ Pair(Wrap(t), Lead + j, "-", "-") <=> Pair(t, j, "-", "-")
      /\ Pair(Wrap(t), Lead + j, "/", "*") <=> Pair(t, j, "/", "*")
  BY <1>1, PairMoves
<1> QED BY <1>1, <1>2, <1>3 DEF Covers

LEMMA TurnMoves ==
  ASSUME NEW t \in Seq(Characters), NEW j \in 1 .. Len(t), Covers(t, j)
  PROVE  TurnEnd(Wrap(t), Lead + j) = Moved(TurnEnd(t, j))
<1> DEFINE q == Wrap(t)
           x == Lead + j
<1>1. Lead = 4 /\ j \in Nat /\ Len(t) \in Nat /\ q[x] = t[j] /\ j \in 1 .. Len(t) + 1
  BY Wrapped DEF Lead
<1>2. DelimiterAt(q, x) = DelimiterAt(t, j)
  BY DelimiterAtMoves
<1>3. /\ Pair(q, x, "-", "-") <=> Pair(t, j, "-", "-")
      /\ Pair(q, x, "/", "*") <=> Pair(t, j, "/", "*")
  BY <1>1, PairMoves
<1>4. CASE Pair(t, j, "-", "-")
  <2>1. TurnEnd(q, x) = LineEnd(q, x + 2) /\ TurnEnd(t, j) = LineEnd(t, j + 2)
    BY <1>3, <1>4 DEF TurnEnd
  <2>2. j + 2 \in 1 .. Len(t) + 1 /\ x + 2 = Lead + (j + 2)
    BY <1>1, <1>4 DEF Pair, At
  <2>3. LineEnd(q, x + 2) = Lead + LineEnd(t, j + 2)
    BY <2>2, LineEndMoves
  <2>4. LineEnd(t, j + 2) \in j + 2 .. Len(t) + 1
    BY <2>2, LineEndIs
  <2>5. LineEnd(t, j + 2) # 0
    BY <1>1, <2>4
  <2> QED BY <2>1, <2>3, <2>5 DEF Moved
<1>5. CASE ~Pair(t, j, "-", "-") /\ Pair(t, j, "/", "*")
  <2>1. TurnEnd(q, x) = skipBlockComment(q, x) /\ TurnEnd(t, j) = skipBlockComment(t, j)
    BY <1>3, <1>5 DEF TurnEnd
  <2> QED BY <1>5, <2>1, CommentMoves
<1>6. CASE ~Pair(t, j, "-", "-") /\ ~Pair(t, j, "/", "*") /\ t[j] \in {"'", "dq"}
  <2>1. /\ TurnEnd(q, x) = skipQuoted(q, x, t[j])
        /\ TurnEnd(t, j) = skipQuoted(t, j, t[j])
    BY <1>1, <1>3, <1>6 DEF TurnEnd
  <2> QED BY <1>6, <2>1, QuotedMoves
<1>7. CASE /\ ~Pair(t, j, "-", "-") /\ ~Pair(t, j, "/", "*") /\ t[j] \notin {"'", "dq"}
           /\ DelimiterAt(t, j) # <<>>
  <2> DEFINE d == DelimiterAt(t, j)
  <2>1. d \in Seq(Characters) /\ Len(d) \in 2 .. Len(t) + 1 - j /\ d[Len(d)] = "$"
    BY <1>7, DelimiterAtIs
  <2>2. /\ TurnEnd(q, x) = Closing(q, x + Len(d), d)
        /\ TurnEnd(t, j) = Closing(t, j + Len(d), d)
    BY <1>1, <1>2, <1>3, <1>7 DEF TurnEnd
  <2> HIDE DEF d
  <2>3. /\ j + Len(d) \in 1 .. Len(t) + 1 /\ Len(d) # 0
        /\ x + Len(d) = Lead + (j + Len(d))
    <3>1. PICK n \in Nat : n = Len(d) /\ n \in 2 .. Len(t) + 1 - j
      BY <1>1, <2>1
    <3>2. j + n \in 1 .. Len(t) + 1 /\ n # 0 /\ x + n = Lead + (j + n)
      BY <1>1, <3>1
    <3> QED BY <3>1, <3>2
  <2>4. Closing(q, Lead + (j + Len(d)), d) = Moved(Closing(t, j + Len(d), d))
    BY <2>1, <2>3, ClosingMoves
  <2> QED BY <2>2, <2>3, <2>4
<1> QED BY <1>4, <1>5, <1>6, <1>7 DEF Covers

-----------------------------------------------------------------------------
(***************************************************************************)
(* The trail of inspectStatement, and the second scanner on it.            *)
(***************************************************************************)

\* trail has the places of q where a turn started, up to top, where the next
\* one starts; of these, only the starts of quotes and comments are hidden.
IsTrail(trail, top, q, hidden) ==
  /\ trail \subseteq 1 .. top /\ 1 \in trail /\ top \in trail
  /\ hidden \subseteq 1 .. top - 1
  /\ \A b \in trail : b # top =>
       /\ b <= Len(q) /\ TurnEnd(q, b) \in trail /\ b < TurnEnd(q, b)
       /\ b \in hidden => Covers(q, b)

\* The second scanner is at a start of a turn of the first, or inside a word
\* that the first one read in one turn.
Follows(trail, q, x) ==
  \/ x \in trail
  \/ \E w \in trail : /\ w <= Len(q) /\ isIdentifierStart(q[w])
                      /\ w < x /\ x < WordEnd(q, w)

TrailInv ==
  /\ text \in Seq(Characters)
  /\ pc = "inspect" =>
       /\ slots = {} /\ i \in 1 .. Len(query) + 1
       /\ \E trail : IsTrail(trail, i, query, skipped)
  /\ pc = "bind" =>
       /\ kind = "where" /\ i \in 1 .. Len(text) + 1
       /\ \E trail : /\ IsTrail(trail, Len(query) + 1, query, skipped)
                     /\ Follows(trail, query, Lead + i)
  /\ ScannersAgree

LEMMA QueryIsText ==
  ASSUME text \in Seq(Characters)
  PROVE  query \in Seq(Characters) /\ Len(query) \in Nat
BY Wrapped DEF query

LEMMA TrailStarts == Init => TrailInv
<1> SUFFICES ASSUME Init PROVE TrailInv
  OBVIOUS
<1>1. text \in Seq(Characters) /\ i = 1 /\ pc = "inspect" /\ slots = {} /\ skipped = {}
  BY TextsAssumption DEF Init
<1>2. query \in Seq(Characters) /\ Len(query) \in Nat
  BY <1>1, QueryIsText
<1>3. IsTrail({1}, i, query, skipped)
  BY <1>1 DEF IsTrail
<1>4. i \in 1 .. Len(query) + 1
  BY <1>1, <1>2
<1>5. ScannersAgree
  BY <1>1 DEF ScannersAgree
<1> QED BY <1>1, <1>3, <1>4, <1>5 DEF TrailInv

\* A turn of inspectStatement that goes on.
Turn ==
  /\ UNCHANGED <<kind, text, slots>> /\ i <= Len(query)
  /\ i' = TurnEnd(query, i) /\ i' # 0
  /\ Covers(query, i) => skipped' = skipped \cup (i .. i' - 1) /\ semicolon' = semicolon
  /\ ~Covers(query, i) =>
       /\ skipped' = skipped
       /\ semicolon' = IF semicolon = 0 /\ query[i] = ";" THEN i ELSE semicolon
       /\ semicolon # 0 => isSpace(query[i])

LEMMA InspectorTurn ==
  ASSUME text \in Seq(Characters), pc = "inspect", i \in 1 .. Len(query) + 1,
         Next, pc' = "inspect"
  PROVE  Turn
<1> USE DEF Turn
<1>1. query \in Seq(Characters) /\ Len(query) \in Nat /\ i \in Nat
  BY QueryIsText
<1>2. ASSUME NEW end, StepOver(end)
      PROVE  /\ UNCHANGED <<kind, text, slots>> /\ i' = end /\ i' # 0
             /\ skipped' = skipped \cup (i .. i' - 1) /\ semicolon' = semicolon
  BY <1>2 DEF StepOver, Reject, input, bound
<1>3. CASE InspectSpace
  <2>1. /\ UNCHANGED <<kind, text, slots>> /\ i <= Len(query) /\ isSpace(query[i])
        /\ i' = i + 1 /\ skipped' = skipped /\ semicolon' = semicolon
    BY <1>3 DEF InspectSpace, Inspecting, input, inspected, bound
  <2>2. TurnEnd(query, i) = i + 1 /\ ~Covers(query, i)
    BY <2>1, SpaceTurn, OtherTurn
  <2>3. query[i] # ";"
    BY <2>1 DEF isSpace
  <2>4. i + 1 # 0
    BY <1>1
  <2> QED BY <2>1, <2>2, <2>3, <2>4
<1>4. CASE InspectComment
  <2>1. i <= Len(query)
    BY <1>4 DEF InspectComment, Inspecting
  <2>2. CASE LineComment /\ StepOver(LineEnd(query, i + 2))
    <3>1. Pair(query, i, "-", "-")
      BY <2>2 DEF LineComment
    <3>2. TurnEnd(query, i) = LineEnd(query, i + 2) /\ Covers(query, i)
      BY <3>1 DEF TurnEnd, Covers
    <3> QED BY <1>2, <2>1, <2>2, <3>2
  <2>3. CASE BlockComment /\ StepOver(skipBlockComment(query, i))
    <3>1. Pair(query, i, "/", "*") /\ ~Pair(query, i, "-", "-")
      BY <2>3 DEF BlockComment, Pair, At
    <3>2. TurnEnd(query, i) = skipBlockComment(query, i) /\ Covers(query, i)
      BY <3>1 DEF TurnEnd, Covers
    <3> QED BY <1>2, <2>1, <2>3, <3>2
  <2> QED BY <1>4, <2>2, <2>3 DEF InspectComment
<1>5. Significant => /\ i <= Len(query)
                     /\ ~Pair(query, i, "-", "-") /\ ~Pair(query, i, "/", "*")
  BY DEF Significant, Inspecting, LineComment, BlockComment
<1>6. Delimiter(query) = DelimiterAt(query, i)
  BY DEF Delimiter, DelimiterAt
<1>7. CASE InspectSemicolon
  <2>1. /\ UNCHANGED <<kind, text, slots>> /\ Significant /\ query[i] = ";"
        /\ i' = i + 1 /\ skipped' = skipped /\ semicolon = 0 /\ semicolon' = i
    BY <1>7 DEF InspectSemicolon, Scanning, input, bound
  <2>2. ~Covers(query, i) /\ ~isIdentifierStart(query[i])
    BY <1>5, <2>1 DEF Covers, DelimiterAt, isIdentifierStart, Letters
  <2>3. TurnEnd(query, i) = i + 1
    BY <2>2, OtherTurn
  <2>4. i <= Len(query)
    BY <1>5, <2>1, Zenon
  <2>5. i + 1 # 0
    BY <1>1
  <2> QED BY <2>1, <2>2, <2>3, <2>4, <2>5
<1>8. CASE InspectQuoted
  <2>1. /\ Significant /\ query[i] \in {"'", "dq"}
        /\ StepOver(skipQuoted(query, i, query[i]))
    BY <1>8 DEF InspectQuoted, Scanning
  <2>2. TurnEnd(query, i) = skipQuoted(query, i, query[i]) /\ Covers(query, i)
    BY <1>5, <2>1 DEF TurnEnd, Covers
  <2> QED BY <1>2, <1>5, <2>1, <2>2
<1>9. CASE InspectDollar
  <2> DEFINE d == DelimiterAt(query, i)
  <2>1. Significant /\ d # <<>> /\ StepOver(Closing(query, i + Len(d), d))
    BY <1>6, <1>9 DEF InspectDollar, Scanning
  <2>2. query[i] \notin {"'", "dq"}
    BY <2>1 DEF DelimiterAt
  <2>3. TurnEnd(query, i) = Closing(query, i + Len(d), d) /\ Covers(query, i)
    BY <1>5, <2>1, <2>2 DEF TurnEnd, Covers
  <2> QED BY <1>2, <1>5, <2>1, <2>3
<1>10. CASE InspectWord
  <2>1. /\ UNCHANGED <<kind, text, slots>> /\ Significant /\ isIdentifierStart(query[i])
        /\ i' = WordEnd(query, i) /\ skipped' = skipped
        /\ semicolon = 0 /\ semicolon' = semicolon
    BY <1>10 DEF InspectWord, Scanning, input, bound
  <2>2. i \in 1 .. Len(query) /\ isIdentifierPart(query[i])
    BY <1>1, <1>5, <2>1 DEF isIdentifierStart, isIdentifierPart
  <2>3. TurnEnd(query, i) = WordEnd(query, i) /\ ~Covers(query, i)
    BY <1>1, <2>1, <2>2, WordTurn
  <2>5. query[i] # ";"
    BY <2>1 DEF isIdentifierStart, Letters
  <2>4. WordEnd(query, i) # 0
    <3>1. WordEnd(query, i) \in i .. Len(query) + 1
      BY <1>1, <2>2, WordEndIs
    <3> QED BY <1>1, <2>2, <3>1
  <2> QED BY <1>5, <2>1, <2>3, <2>4, <2>5
<1>11. CASE InspectOther
  <2>1. /\ UNCHANGED <<kind, text, slots>> /\ Significant
        /\ query[i] \notin {";", "'", "dq"} /\ Delimiter(query) = <<>>
        /\ ~isIdentifierStart(query[i])
        /\ i' = i + 1 /\ skipped' = skipped /\ semicolon = 0 /\ semicolon' = semicolon
    BY <1>11 DEF InspectOther, Scanning, input, inspected, bound
  <2>2. ~Covers(query, i)
    BY <1>5, <1>6, <2>1 DEF Covers
  <2>3. TurnEnd(query, i) = i + 1
    BY <2>1, <2>2, OtherTurn
  <2>4. i <= Len(query)
    BY <1>5, <2>1, Zenon
  <2>5. i + 1 # 0
    BY <1>1
  <2> QED BY <2>1, <2>2, <2>3, <2>4, <2>5
<1>12. ~InspectSecond /\ ~Inspected
  BY DEF InspectSecond, Reject, Inspected
<1>13. ~(BindComment \/ BindQuoted \/ BindDollar \/ BindPositional \/ BindMissing
         \/ BindNamed \/ BindOther \/ Bound \/ Ended)
  BY DEF BindComment, BindQuoted, BindDollar, BindPositional, BindMissing, BindNamed,
         BindOther, Bound, Ended, Binding, BindCode, NoDollarQuote
<1> QED BY <1>3, <1>4, <1>7, <1>8, <1>9, <1>10, <1>11, <1>12, <1>13 DEF Next

\* The trail grows by the turn.
LEMMA TrailGrows ==
  ASSUME NEW q \in Seq(Characters), NEW trail, NEW top \in 1 .. Len(q), NEW hidden, NEW more,
         IsTrail(trail, top, q, hidden), TurnEnd(q, top) # 0,
         more = hidden \/ (Covers(q, top) /\ more = hidden \cup (top .. TurnEnd(q, top) - 1))
  PROVE  IsTrail(trail \cup {TurnEnd(q, top)}, TurnEnd(q, top), q, more)
<1> DEFINE next == TurnEnd(q, top)
<1>1. next \in top + 1 .. Len(q) + 1
  BY TurnGoesOn
<1>2. Len(q) \in Nat /\ top \in Nat
  OBVIOUS
<1>3. more = hidden \/ (Covers(q, top) /\ more = hidden \cup (top .. next - 1))
  OBVIOUS
<1>4. /\ trail \subseteq 1 .. top /\ 1 \in trail /\ top \in trail
      /\ hidden \subseteq 1 .. top - 1
      /\ \A b \in trail : b # top =>
           /\ b <= Len(q) /\ TurnEnd(q, b) \in trail /\ b < TurnEnd(q, b)
           /\ b \in hidden => Covers(q, b)
  BY DEF IsTrail
<1> DEFINE longer == trail \cup {next}
<1>5. longer \subseteq 1 .. next /\ 1 \in longer /\ next \in longer /\ more \subseteq 1 .. next - 1
  <2> HIDE DEF next
  <2>1. next \in Nat /\ next > top
    BY <1>1, <1>2
  <2>2. 1 .. top \subseteq 1 .. next /\ 1 .. top - 1 \subseteq 1 .. next - 1
    BY <1>2, <2>1
  <2>3. top .. next - 1 \subseteq 1 .. next - 1 /\ next \in 1 .. next
    BY <1>2, <2>1
  <2>4. more \subseteq 1 .. next - 1
    BY <1>3, <1>4, <2>2, <2>3
  <2> QED BY <1>4, <2>2, <2>3, <2>4
<1>6. ASSUME NEW b \in longer, b # next
      PROVE  /\ b <= Len(q) /\ TurnEnd(q, b) \in longer /\ b < TurnEnd(q, b)
             /\ b \in more => Covers(q, b)
  <2>1. b \in trail
    BY <1>6
  <2>2. CASE b = top
    <3>1. b <= Len(q) /\ TurnEnd(q, b) = next /\ b < next
      BY <1>1, <1>2, <2>2
    <3>2. b \notin hidden
      BY <1>2, <1>4, <2>2
    <3> QED BY <1>3, <2>2, <3>1, <3>2
  <2>3. CASE b # top
    <3>1. b <= top - 1 /\ b \in Nat
      BY <1>2, <1>4, <2>1, <2>3
    <3>2. b \in more => b \in hidden
      BY <1>2, <1>3, <3>1
    <3> QED BY <1>4, <2>1, <2>3, <3>2
  <2> QED BY <2>2, <2>3
<1> HIDE DEF next, longer
<1>7. IsTrail(longer, next, q, more)
  BY <1>5, <1>6 DEF IsTrail
<1> QED BY <1>7 DEF next, longer

\* The first turns over the SELECT in front of a clause end where it starts.
LEMMA ClauseIsReached ==
  ASSUME NEW t \in Seq(Characters), NEW trail, NEW hidden,
         IsTrail(trail, Len(Wrap(t)) + 1, Wrap(t), hidden)
  PROVE  Lead + 1 \in trail
<1> DEFINE q == Wrap(t)
           top == Len(q) + 1
<1>1. /\ q \in Seq(Characters) /\ Len(q) = Lead + Len(t) + 2
      /\ q[1] = "S" /\ q[2] = "sp" /\ q[3] = "o" /\ q[4] = "nl"
  BY Wrapped
<1>2. Lead = 4 /\ Len(t) \in Nat /\ Len(q) \in Nat /\ top >= 7
  BY <1>1 DEF Lead
<1>3. 1 \in trail /\ \A b \in trail : b # top => TurnEnd(q, b) \in trail
  BY DEF IsTrail
<1> HIDE DEF q
<1>4. 2 \in trail
  <2>1. isIdentifierStart(q[1]) /\ isIdentifierPart(q[1]) /\ ~isIdentifierPart(q[2])
    BY <1>1 DEF isIdentifierStart, isIdentifierPart, Letters
  <2>2. 1 \in 1 .. Len(q) /\ 2 \in 1 .. Len(q) + 1
    BY <1>2
  <2>3. TurnEnd(q, 1) = WordEnd(q, 1)
    BY <1>1, <2>1, <2>2, WordTurn
  <2>4. WordEnd(q, 1) = 2
    <3>1. \A k \in 1 .. 2 - 1 : isIdentifierPart(q[k])
      BY <2>1
    <3> QED BY <1>1, <2>1, <2>2, <3>1, IsWordEnd
  <2> QED BY <1>2, <1>3, <2>3, <2>4
<1>5. 3 \in trail
  <2>1. TurnEnd(q, 2) = 2 + 1
    BY <1>1, SpaceTurn, OtherTurn DEF isSpace
  <2> QED BY <1>2, <1>3, <1>4, <2>1
<1>6. 4 \in trail
  <2>1. ~Covers(q, 3) /\ ~isIdentifierStart(q[3])
    BY <1>1 DEF Covers, Pair, At, DelimiterAt, isIdentifierStart, Letters
  <2>2. TurnEnd(q, 3) = 3 + 1
    BY <2>1, OtherTurn
  <2> QED BY <1>2, <1>3, <1>5, <2>2
<1>7. 5 \in trail
  <2>1. TurnEnd(q, 4) = 4 + 1
    BY <1>1, SpaceTurn, OtherTurn DEF isSpace
  <2> QED BY <1>2, <1>3, <1>6, <2>1
<1> QED BY <1>2, <1>7

\* The second scanner stays with the first one's trail.
LEMMA ClauseTurn ==
  ASSUME NEW t \in Seq(Characters), NEW trail, NEW hidden, NEW j \in 1 .. Len(t),
         IsTrail(trail, Len(Wrap(t)) + 1, Wrap(t), hidden),
         Follows(trail, Wrap(t), Lead + j)
  PROVE  /\ Covers(t, j) => /\ TurnEnd(t, j) \in 1 .. Len(t) + 1
                            /\ Follows(trail, Wrap(t), Lead + TurnEnd(t, j))
         /\ ~Covers(t, j) => Follows(trail, Wrap(t), Lead + (j + 1))
         /\ ~Covers(t, j) /\ t[j] = "$" /\ j < Len(t) /\ isIdentifierStart(t[j + 1]) =>
              /\ Lead + j \notin hidden
              /\ WordEnd(t, j + 2) \in 1 .. Len(t) + 1
              /\ Follows(trail, Wrap(t), Lead + WordEnd(t, j + 2))
<1> DEFINE q == Wrap(t)
           x == Lead + j
<1>1. /\ q \in Seq(Characters) /\ Len(q) = Lead + Len(t) + 2
      /\ \A k \in 1 .. Len(t) : q[Lead + k] = t[k]
  BY Wrapped
<1>2. /\ Lead = 4 /\ Len(t) \in Nat /\ j \in Nat /\ Len(q) \in Nat /\ x \in 1 .. Len(q)
      /\ x + 1 = Lead + (j + 1) /\ x + 1 \in 1 .. Len(q) /\ q[x] = t[j]
  BY <1>1 DEF Lead
<1>3. Covers(q, x) <=> Covers(t, j)
  BY CoversMoves
<1>4. \A b \in trail : b # Len(q) + 1 =>
        /\ b <= Len(q) /\ TurnEnd(q, b) \in trail /\ b < TurnEnd(q, b)
        /\ b \in hidden => Covers(q, b)
  BY DEF IsTrail
<1>5. Covers(t, j) => TurnEnd(q, x) = Moved(TurnEnd(t, j))
  BY TurnMoves
<1> HIDE DEF q, x
<1>6. trail \subseteq Nat
  BY <1>2 DEF IsTrail, q
<1>7. CASE x \in trail
  <2>1. TurnEnd(q, x) \in trail /\ x < TurnEnd(q, x) /\ (x \in hidden => Covers(q, x))
    BY <1>2, <1>4, <1>7
  <2>2. ASSUME Covers(t, j)
        PROVE  TurnEnd(t, j) \in 1 .. Len(t) + 1 /\ Follows(trail, q, Lead + TurnEnd(t, j))
    <3>1. TurnEnd(t, j) \in {0} \cup j + 1 .. Len(t) + 1
      BY TurnGoesOn
    <3>2. TurnEnd(t, j) # 0
      <4>1. Moved(TurnEnd(t, j)) # 0
        BY <1>2, <1>5, <2>1, <2>2
      <4> QED BY <4>1 DEF Moved
    <3>3. TurnEnd(q, x) = Lead + TurnEnd(t, j)
      BY <1>5, <2>2, <3>2 DEF Moved
    <3> QED BY <1>2, <2>1, <3>1, <3>2, <3>3 DEF Follows
  <2>3. ASSUME ~Covers(t, j), isIdentifierStart(t[j])
        PROVE  Follows(trail, q, x + 1)
    <3>1. isIdentifierPart(q[x]) /\ isIdentifierStart(q[x])
      BY <1>2, <2>3 DEF isIdentifierStart, isIdentifierPart
    <3>2. TurnEnd(q, x) = WordEnd(q, x)
      BY <1>1, <1>2, <3>1, WordTurn
    <3>3. CASE TurnEnd(q, x) = x + 1
      BY <2>1, <3>3 DEF Follows
    <3>4. CASE TurnEnd(q, x) # x + 1
      <4> DEFINE end == WordEnd(q, x)
      <4>1. end \in trail /\ x < end /\ end # x + 1
        BY <2>1, <3>2, <3>4
      <4> HIDE DEF end
      <4>2. x \in Nat /\ end \in Nat
        <5>1. end \in Nat
          BY <1>6, <4>1, Zenon
        <5>2. x \in Nat
          BY <1>6, <1>7, Zenon
        <5> QED BY <5>1, <5>2
      <4>3. x < x + 1 /\ x + 1 < end /\ x <= Len(q)
        BY <1>2, <4>1, <4>2
      <4> QED BY <1>7, <3>1, <4>3 DEF Follows, end
    <3> QED BY <3>3, <3>4
  <2>4. ASSUME ~Covers(t, j), ~isIdentifierStart(t[j])
        PROVE  x + 1 \in trail /\ x \notin hidden
    <3>1. TurnEnd(q, x) = x + 1
      BY <1>2, <1>3, <2>4, OtherTurn
    <3> QED BY <1>3, <2>1, <2>4, <3>1
  <2>5. ASSUME ~Covers(t, j), t[j] = "$", j < Len(t), isIdentifierStart(t[j + 1])
        PROVE  /\ x \notin hidden
               /\ WordEnd(t, j + 2) \in 1 .. Len(t) + 1
               /\ Follows(trail, q, Lead + WordEnd(t, j + 2))
    <3>1. ~isIdentifierStart(t[j])
      BY <2>5 DEF isIdentifierStart, Letters
    <3>2. x + 1 \in trail /\ x \notin hidden
      BY <2>4, <2>5, <3>1
    <3>3. /\ j + 1 \in 1 .. Len(t) /\ (j + 1) + 1 = j + 2 /\ j + 2 \in 1 .. Len(t) + 1
          /\ q[x + 1] = t[j + 1]
      BY <1>1, <1>2, <2>5
    <3>4. isIdentifierStart(q[x + 1]) /\ isIdentifierPart(q[x + 1]) /\ isIdentifierPart(t[j + 1])
      BY <2>5, <3>3 DEF isIdentifierStart, isIdentifierPart
    <3>5. TurnEnd(q, x + 1) = WordEnd(q, x + 1)
      BY <1>1, <1>2, <3>4, WordTurn
    <3>6. WordEnd(t, j + 1) = WordEnd(t, j + 2)
      BY <3>3, <3>4, RestOfWord
    <3>7. WordEnd(q, x + 1) = Lead + WordEnd(t, j + 1)
      <4>1. j + 1 \in 1 .. Len(t) + 1
        BY <1>2, <3>3
      <4> QED BY <1>2, <4>1, WordEndMoves DEF q
    <3>8. x + 1 # Len(q) + 1
      BY <1>2
    <3>9. TurnEnd(q, x + 1) \in trail
      BY <1>4, <3>2, <3>8
    <3>10. WordEnd(t, j + 2) \in j + 2 .. Len(t) + 1
      BY <3>3, WordEndIs
    <3> QED BY <1>2, <3>2, <3>5, <3>6, <3>7, <3>9, <3>10 DEF Follows
  <2>6. ~Covers(t, j) => Follows(trail, q, x + 1)
    BY <2>3, <2>4 DEF Follows
  <2> QED BY <1>2, <2>2, <2>5, <2>6 DEF q, x
<1>8. CASE x \notin trail
  <2>1. PICK w \in trail : /\ w <= Len(q) /\ isIdentifierStart(q[w])
                           /\ w < x /\ x < WordEnd(q, w)
    BY <1>8 DEF Follows, q, x
  <2>2. w \in 1 .. Len(q) /\ w \in Nat /\ w # Len(q) + 1
    BY <1>2, <2>1 DEF IsTrail, q
  <2>3. isIdentifierPart(q[w])
    BY <2>1 DEF isIdentifierStart, isIdentifierPart
  <2>4. TurnEnd(q, w) = WordEnd(q, w)
    BY <1>1, <2>1, <2>2, <2>3, WordTurn
  <2>5. WordEnd(q, w) \in trail /\ WordEnd(q, w) \in Nat
    BY <1>4, <1>6, <2>2, <2>4
  <2>6. isIdentifierPart(t[j])
    <3>1. \A k \in w .. WordEnd(q, w) - 1 : isIdentifierPart(q[k])
      <4>1. w \in 1 .. Len(q) + 1
        BY <1>2, <2>2
      <4> QED BY <1>1, <4>1, WordEndIs
    <3>2. x \in w .. WordEnd(q, w) - 1
      BY <1>2, <2>1, <2>2, <2>5
    <3> QED BY <1>2, <3>1, <3>2
  <2>7. ~Covers(t, j)
    BY <2>6, WordTurn
  <2>8. t[j] # "$"
    BY <2>6 DEF isIdentifierPart, Letters
  <2>9. Follows(trail, q, x + 1)
    <3>1. CASE x + 1 = WordEnd(q, w)
      BY <2>5, <3>1 DEF Follows
    <3>2. CASE x + 1 # WordEnd(q, w)
      <4>1. w < x + 1 /\ x + 1 < WordEnd(q, w)
        BY <1>2, <2>1, <2>2, <2>5, <3>2
      <4> QED BY <2>1, <4>1 DEF Follows
    <3> QED BY <3>1, <3>2
  <2> QED BY <1>2, <2>7, <2>8, <2>9 DEF q
<1> QED BY <1>7, <1>8

LEMMA TrailGoesOn == TrailInv /\ [Next]_vars => TrailInv'
<1> SUFFICES ASSUME TrailInv, [Next]_vars PROVE TrailInv'
  OBVIOUS
<1>1. text \in Seq(Characters) /\ ScannersAgree
  BY DEF TrailInv
<1>2. query \in Seq(Characters) /\ Len(query) \in Nat
  BY <1>1, QueryIsText
<1>3. CASE UNCHANGED vars
  BY <1>3 DEF TrailInv, ScannersAgree, IsTrail, Follows, query, vars, input, inspected, bound
<1>4. CASE Next /\ pc = "inspect" /\ pc' = "inspect"
  <2>1. i \in 1 .. Len(query) + 1 /\ slots = {}
    BY <1>4 DEF TrailInv
  <2>2. PICK trail : IsTrail(trail, i, query, skipped)
    BY <1>4 DEF TrailInv
  <2>3. /\ UNCHANGED <<kind, text, slots>> /\ i <= Len(query)
        /\ i' = TurnEnd(query, i) /\ i' # 0
        /\ skipped' = skipped \/ (Covers(query, i) /\ skipped' = skipped \cup (i .. i' - 1))
    BY <1>1, <1>4, <2>1, InspectorTurn DEF Turn
  <2>4. i \in 1 .. Len(query) /\ query' = query
    BY <1>2, <2>1, <2>3 DEF query
  <2>5. IsTrail(trail \cup {i'}, i', query, skipped')
    BY <1>2, <2>2, <2>3, <2>4, TrailGrows
  <2>6. i' \in 1 .. Len(query) + 1
    <3>1. TurnEnd(query, i) \in {0} \cup i + 1 .. Len(query) + 1
      BY <1>2, <2>4, TurnGoesOn
    <3> QED BY <1>2, <2>3, <2>4, <3>1
  <2>7. ScannersAgree'
    BY <1>4, <2>1, <2>3 DEF ScannersAgree
  <2> QED BY <1>1, <1>4, <2>1, <2>3, <2>4, <2>5, <2>6, <2>7 DEF TrailInv
<1>5. CASE Next /\ pc = "inspect" /\ pc' # "inspect"
  <2>1. slots = {} /\ i \in 1 .. Len(query) + 1
    BY <1>5 DEF TrailInv
  <2>2. ASSUME NEW end, StepOver(end), pc' # pc
        PROVE  UNCHANGED <<kind, text, slots>> /\ pc' = "unterminated"
    BY <2>2 DEF StepOver, Reject, input, bound
  <2>3. CASE pc' # "bind"
    <3>1. UNCHANGED <<kind, text, slots>> /\ pc' # "unterminatedBind"
      BY <1>5, <2>2
      DEF Next, InspectSpace, InspectComment, InspectSecond, InspectSemicolon, InspectQuoted,
          InspectDollar, InspectWord, InspectOther, Inspected, BindComment, BindQuoted,
          BindDollar, BindPositional, BindMissing, BindNamed, BindOther, Bound, Ended,
          Binding, BindCode, NoDollarQuote, Reject, input, inspected, bound
    <3> QED BY <1>1, <1>5, <2>1, <2>3, <3>1 DEF TrailInv, ScannersAgree
  <2>4. CASE pc' = "bind"
    <3>1. Inspected
      BY <1>5, <2>2, <2>4
      DEF Next, InspectSpace, InspectComment, InspectSecond, InspectSemicolon, InspectQuoted,
          InspectDollar, InspectWord, InspectOther, BindComment, BindQuoted,
          BindDollar, BindPositional, BindMissing, BindNamed, BindOther, Bound, Ended,
          Binding, BindCode, NoDollarQuote, Reject, input, inspected, bound
    <3>2. /\ UNCHANGED <<kind, text, slots, skipped>> /\ i > Len(query) /\ i' = 1
          /\ kind = "where"
      BY <2>4, <3>1 DEF Inspected, input, inspected, bound
    <3>3. i = Len(query) + 1 /\ query = Wrap(text) /\ query' = query
      BY <1>2, <2>1, <3>2 DEF query
    <3>4. PICK trail : IsTrail(trail, Len(query) + 1, query, skipped)
      BY <1>5, <3>3 DEF TrailInv
    <3>5. Lead + 1 \in trail
      BY <1>1, <3>3, <3>4, ClauseIsReached
    <3>6. Follows(trail, query, Lead + i')
      BY <3>2, <3>5 DEF Follows
    <3>7. i' \in 1 .. Len(text) + 1
      BY <1>1, <3>2
    <3>8. ScannersAgree'
      BY <2>1, <2>4, <3>2 DEF ScannersAgree
    <3> QED BY <1>1, <2>4, <3>2, <3>3, <3>4, <3>6, <3>7, <3>8 DEF TrailInv
  <2> QED BY <2>3, <2>4
<1>6. CASE Next /\ pc = "bind"
  <2>1. kind = "where" /\ i \in 1 .. Len(text) + 1 /\ query = Wrap(text)
    BY <1>6 DEF TrailInv, query
  <2>2. PICK trail : /\ IsTrail(trail, Len(query) + 1, query, skipped)
                     /\ Follows(trail, query, Lead + i)
    BY <1>6 DEF TrailInv
  <2>3. ASSUME i <= Len(text)
        PROVE  /\ Covers(text, i) => /\ TurnEnd(text, i) \in 1 .. Len(text) + 1
                                     /\ Follows(trail, query, Lead + TurnEnd(text, i))
               /\ ~Covers(text, i) => Follows(trail, query, Lead + (i + 1))
               /\ ~Covers(text, i) /\ text[i] = "$" /\ i < Len(text)
                  /\ isIdentifierStart(text[i + 1]) =>
                    /\ Lead + i \notin skipped
                    /\ WordEnd(text, i + 2) \in 1 .. Len(text) + 1
                    /\ Follows(trail, query, Lead + WordEnd(text, i + 2))
    <3>1. i \in 1 .. Len(text)
      BY <1>1, <2>1, <2>3
    <3> QED BY <1>1, <2>1, <2>2, <3>1, ClauseTurn
  \* What a turn of the second scanner has to do.
  <2>4. ASSUME UNCHANGED <<kind, text, skipped>>, pc' = "bind",
               i' \in 1 .. Len(text) + 1, Follows(trail, query, Lead + i'),
               \A slot \in slots' : slot[1] + Lead \notin skipped
        PROVE  TrailInv'
    <3>1. query' = query
      BY <2>4 DEF query
    <3> QED BY <1>1, <2>1, <2>2, <2>4, <3>1 DEF TrailInv, ScannersAgree
  <2>5. ASSUME UNCHANGED <<kind, text, skipped, slots>>,
               pc' \notin {"inspect", "bind", "unterminatedBind"}
        PROVE  TrailInv'
    BY <1>1, <2>5 DEF TrailInv, ScannersAgree
  <2>6. ASSUME NEW end, end # 0, BindCopy(end)
        PROVE  UNCHANGED <<kind, text, skipped, slots, pc>> /\ i' = end
    BY <2>6 DEF BindCopy, input, inspected
  <2>7. \A slot \in slots : slot[1] + Lead \notin skipped
    BY <1>1 DEF ScannersAgree
  <2>8. ASSUME i <= Len(text), Covers(text, i), BindCopy(TurnEnd(text, i))
        PROVE  TrailInv'
    <3> DEFINE end == TurnEnd(text, i)
    <3>1. end \in 1 .. Len(text) + 1 /\ Follows(trail, query, Lead + end)
      BY <2>3, <2>8
    <3>2. end # 0
      BY <1>1, <3>1
    <3>3. UNCHANGED <<kind, text, skipped, slots, pc>> /\ i' = end
      BY <2>6, <2>8, <3>2
    <3> QED BY <1>6, <2>4, <2>7, <3>1, <3>3
  <2>9. CASE BindComment
    <3>1. i <= Len(text)
      BY <2>9 DEF BindComment, Binding
    <3>2. CASE Pair(text, i, "-", "-") /\ BindCopy(LineEnd(text, i + 2))
      <4>1. TurnEnd(text, i) = LineEnd(text, i + 2) /\ Covers(text, i)
        BY <3>2 DEF TurnEnd, Covers
      <4> QED BY <2>8, <3>1, <3>2, <4>1
    <3>3. CASE Pair(text, i, "/", "*") /\ BindCopy(skipBlockComment(text, i))
      <4>1. ~Pair(text, i, "-", "-")
        BY <3>3 DEF Pair, At
      <4>2. TurnEnd(text, i) = skipBlockComment(text, i) /\ Covers(text, i)
        BY <3>3, <4>1 DEF TurnEnd, Covers
      <4> QED BY <2>8, <3>1, <3>3, <4>2
    <3> QED BY <2>9, <3>2, <3>3 DEF BindComment
  <2>10. BindCode => /\ i <= Len(text)
                     /\ ~Pair(text, i, "-", "-") /\ ~Pair(text, i, "/", "*")
    BY DEF BindCode, Binding
  <2>11. Delimiter(text) = DelimiterAt(text, i)
    BY DEF Delimiter, DelimiterAt
  <2>12. CASE BindQuoted
    <3>1. /\ BindCode /\ text[i] \in {"'", "dq"}
          /\ BindCopy(skipQuoted(text, i, text[i]))
      BY <2>12 DEF BindQuoted
    <3>2. TurnEnd(text, i) = skipQuoted(text, i, text[i]) /\ Covers(text, i)
      BY <2>10, <3>1 DEF TurnEnd, Covers
    <3> QED BY <2>8, <2>10, <3>1, <3>2
  <2>13. CASE BindDollar
    <3> DEFINE d == DelimiterAt(text, i)
    <3>1. BindCode /\ d # <<>> /\ BindCopy(Closing(text, i + Len(d), d))
      BY <2>11, <2>13 DEF BindDollar
    <3>2. text[i] \notin {"'", "dq"}
      BY <3>1 DEF DelimiterAt
    <3>3. TurnEnd(text, i) = Closing(text, i + Len(d), d) /\ Covers(text, i)
      BY <2>10, <3>1, <3>2 DEF TurnEnd, Covers
    <3> QED BY <2>8, <2>10, <3>1, <3>3
  <2>14. CASE BindPositional \/ BindMissing \/ Bound
    <3>1. UNCHANGED <<kind, text, skipped, slots>>
      BY <2>14 DEF BindPositional, BindMissing, Bound, Reject, input, inspected, bound
    <3>2. pc' \notin {"inspect", "bind", "unterminatedBind"}
      BY <2>14 DEF BindPositional, BindMissing, Bound, Reject
    <3> QED BY <2>5, <3>1, <3>2
  <2>15. CASE BindNamed
    <3>1. /\ BindCode /\ Delimiter(text) = <<>> /\ Named
          /\ UNCHANGED <<kind, text, skipped, pc>>
          /\ slots' = slots \cup {<<i, Name, positions'[Name]>>}
          /\ i' = WordEnd(text, i + 2)
      BY <2>15 DEF BindNamed, NoDollarQuote, input, inspected
    <3>2. text[i] = "$" /\ i < Len(text) /\ isIdentifierStart(text[i + 1])
      BY <3>1 DEF Named, At
    <3>3. ~Covers(text, i)
      BY <2>10, <2>11, <3>1, <3>2 DEF Covers
    <3>4. /\ Lead + i \notin skipped
          /\ WordEnd(text, i + 2) \in 1 .. Len(text) + 1
          /\ Follows(trail, query, Lead + WordEnd(text, i + 2))
      BY <2>3, <2>10, <3>1, <3>2, <3>3
    <3>5. \A slot \in slots' : slot[1] + Lead \notin skipped
      <4>1. i + Lead = Lead + i
        BY <1>1, <2>1 DEF Lead
      <4> DEFINE new == <<i, Name, positions'[Name]>>
      <4>2. new[1] = i /\ slots' = slots \cup {new}
        BY <3>1
      <4> HIDE DEF new
      <4> QED BY <2>7, <3>4, <4>1, <4>2
    <3> QED BY <1>6, <2>4, <3>1, <3>4, <3>5
  <2>16. CASE BindOther
    <3>1. /\ BindCode /\ Delimiter(text) = <<>> /\ text[i] \notin {"'", "dq"}
          /\ BindCopy(i + 1)
      BY <2>16 DEF BindOther, NoDollarQuote
    <3>2. ~Covers(text, i)
      BY <2>10, <2>11, <3>1 DEF Covers
    <3>3. Follows(trail, query, Lead + (i + 1)) /\ i <= Len(text)
      BY <2>3, <2>10, <3>1, <3>2
    <3>4. i + 1 \in 1 .. Len(text) + 1 /\ i + 1 # 0
      BY <1>1, <2>1, <3>3
    <3>5. UNCHANGED <<kind, text, skipped, slots, pc>> /\ i' = i + 1
      BY <2>6, <3>1, <3>4
    <3> QED BY <1>6, <2>4, <2>7, <3>3, <3>4, <3>5
  <2>17. ~(InspectSpace \/ InspectComment \/ InspectSecond \/ InspectSemicolon
           \/ InspectQuoted \/ InspectDollar \/ InspectWord \/ InspectOther \/ Inspected
           \/ Ended)
    BY <1>6 DEF InspectSpace, InspectComment, InspectSecond, InspectSemicolon, InspectQuoted,
       InspectDollar, InspectWord, InspectOther, Inspected, Ended, Inspecting, Significant,
       Scanning
  <2> QED BY <1>6, <2>9, <2>12, <2>13, <2>14, <2>15, <2>16, <2>17 DEF Next
<1>7. CASE Next /\ pc \notin {"inspect", "bind"}
  <2>1. UNCHANGED vars
    BY <1>7 DEF Next, InspectSpace, InspectComment, InspectSecond, InspectSemicolon,
       InspectQuoted, InspectDollar, InspectWord, InspectOther, Inspected, BindComment,
       BindQuoted, BindDollar, BindPositional, BindMissing, BindNamed, BindOther, Bound,
       Ended, Inspecting, Significant, Scanning, Binding, BindCode, NoDollarQuote
  <2> QED BY <1>3, <2>1
<1> QED BY <1>3, <1>4, <1>5, <1>6, <1>7

\* What inspectStatement accepts, BindNamedParameters reads to its end, and it
\* takes nothing for a placeholder that inspectStatement stepped over as a
\* quote or a comment, for clauses of any length.
THEOREM OneReading == Spec => []ScannersAgree
<1>1. TrailInv => ScannersAgree
  BY DEF TrailInv
<1> QED BY <1>1, TrailStarts, TrailGoesOn, PTL DEF Spec

-----------------------------------------------------------------------------
(***************************************************************************)
(* PostgreSQL's reading, a character at a time.                            *)
(***************************************************************************)

Modes == {"code", "word", "dash", "slash", "tag", "line", "block", "body", "'", "dq"}
LexStates == [mode : Modes, depth : Int, tag : Seq(Characters), buf : Seq(Characters),
              hidden : SUBSET Int, unusual : BOOLEAN]

\* f has the states of the lexer after each place of s.
IsLex(f, s) ==
  /\ f[0] = Start
  /\ \A k \in 1 .. Len(s) : f[k] = Step(f[k - 1], s[k], k)

LEMMA LexRuns ==
  ASSUME NEW s \in Seq(Characters)
  PROVE  \E f : IsLex(f, s) /\ PostgresLex(s) = f[Len(s)]
<1> DEFINE size == Len(s)
           Upto(f, n) == /\ f[0] = Start
                         /\ \A k \in 1 .. n : f[k] = Step(f[k - 1], s[k], k)
           Good == {n \in Nat : \E f : Upto(f, n)}
<1>1. size \in Nat
  OBVIOUS
<1>2. 0 \in Good
  <2> DEFINE f == [k \in {0} |-> Start]
  <2>1. f[0] = Start /\ 1 .. 0 = {}
    OBVIOUS
  <2> HIDE DEF f
  <2>2. Upto(f, 0)
    BY <2>1
  <2> QED BY <2>2
<1>3. ASSUME NEW n \in Nat, n \in Good
      PROVE  n + 1 \in Good
  <2>1. PICK f : Upto(f, n)
    BY <1>3
  <2> DEFINE g == [k \in 0 .. n + 1 |-> IF k = n + 1 THEN Step(f[n], s[n + 1], n + 1) ELSE f[k]]
  <2>2. /\ g[n + 1] = Step(f[n], s[n + 1], n + 1)
        /\ \A k \in 0 .. n : g[k] = f[k]
    OBVIOUS
  <2> HIDE DEF g
  <2>3. g[0] = Start
    BY <2>1, <2>2
  <2>4. ASSUME NEW k \in 1 .. n + 1
        PROVE  g[k] = Step(g[k - 1], s[k], k)
    <3>1. CASE k = n + 1
      <4>1. k - 1 = n /\ n \in 0 .. n
        BY <3>1
      <4>2. g[k - 1] = f[n]
        BY <2>2, <4>1
      <4> QED BY <2>2, <3>1, <4>2
    <3>2. CASE k # n + 1
      <4>1. k \in 1 .. n /\ k \in 0 .. n /\ k - 1 \in 0 .. n
        BY <3>2
      <4>2. g[k] = f[k] /\ g[k - 1] = f[k - 1] /\ f[k] = Step(f[k - 1], s[k], k)
        BY <2>1, <2>2, <4>1
      <4> QED BY <4>2
    <3> QED BY <3>1, <3>2
  <2> QED BY <2>3, <2>4
<1> HIDE DEF Good
<1>4. Nat \subseteq Good
  BY <1>2, <1>3, Upwards, Zenon
<1>5. PICK f : Upto(f, size)
  BY <1>1, <1>4 DEF Good
<1> DEFINE Solves(g) == g = [k \in 0 .. Len(s) |-> IF k = 0 THEN Start
                                                  ELSE Step(g[k - 1], s[k], k)]
           lex == CHOOSE g : Solves(g)
<1>6. \E g : Solves(g)
  <2> DEFINE g == [k \in 0 .. size |-> f[k]]
  <2>1. \A k \in 0 .. size : g[k] = IF k = 0 THEN Start ELSE Step(g[k - 1], s[k], k)
    <3> TAKE k \in 0 .. size
    <3>1. CASE k = 0
      BY <1>5, <3>1
    <3>2. CASE k # 0
      <4>1. k \in 1 .. size /\ k - 1 \in 0 .. size
        BY <1>1, <3>2
      <4>2. g[k] = f[k] /\ g[k - 1] = f[k - 1] /\ f[k] = Step(f[k - 1], s[k], k)
        BY <1>5, <4>1
      <4> HIDE DEF g
      <4> QED BY <3>2, <4>2
    <3> QED BY <3>1, <3>2
  <2>2. g = [k \in 0 .. size |-> g[k]]
    OBVIOUS
  <2> HIDE DEF g
  <2>3. Solves(g)
    BY <2>1, <2>2
  <2> QED BY <2>3
<1>7. Solves(lex)
  BY <1>6
<1>8. PostgresLex(s) = lex[Len(s)]
  BY DEF PostgresLex
<1> HIDE DEF lex
<1>9. lex[0] = Start
  BY <1>1, <1>7
<1>10. ASSUME NEW k \in 1 .. Len(s)
       PROVE  lex[k] = Step(lex[k - 1], s[k], k)
  <2>1. k \in 0 .. Len(s) /\ k # 0
    OBVIOUS
  <2> QED BY <1>7, <2>1
<1> QED BY <1>8, <1>9, <1>10 DEF IsLex

LEMMA OneElement == ASSUME NEW S, NEW e \in S PROVE <<e>> \in Seq(S)
OBVIOUS

LEMMA EnterIs ==
  ASSUME NEW q \in LexStates, NEW mode \in Modes
  PROVE  /\ Enter(q, mode) \in LexStates
         /\ Enter(q, mode).mode = mode /\ Enter(q, mode).depth = q.depth
         /\ Enter(q, mode).tag = q.tag /\ Enter(q, mode).buf = q.buf
         /\ Enter(q, mode).hidden = q.hidden /\ Enter(q, mode).unusual = q.unusual
BY DEF Enter, LexStates

LEMMA HideIs ==
  ASSUME NEW q \in LexStates, NEW places, places \subseteq Int
  PROVE  /\ Hide(q, places) \in LexStates
         /\ Hide(q, places).mode = q.mode /\ Hide(q, places).depth = q.depth
         /\ Hide(q, places).tag = q.tag /\ Hide(q, places).buf = q.buf
         /\ Hide(q, places).hidden = q.hidden \cup places
         /\ Hide(q, places).unusual = q.unusual
BY DEF Hide, LexStates

LEMMA UnusualIs ==
  ASSUME NEW q \in LexStates, NEW u \in BOOLEAN, NEW r, r = [q EXCEPT !.unusual = u]
  PROVE  /\ r \in LexStates /\ r.mode = q.mode /\ r.depth = q.depth /\ r.buf = q.buf
         /\ r.tag = q.tag /\ r.hidden = q.hidden /\ r.unusual = u
BY DEF LexStates

\* Ordinary text: what each kind of character does to the state.
AfterCode(q, c, k, r) ==
  /\ c = "-" /\ q.mode = "dash" =>
       r.mode = "line" /\ r.hidden = q.hidden \cup {k - 1, k} /\ r.unusual = q.unusual
  /\ c = "-" /\ q.mode # "dash" =>
       r.mode = "dash" /\ r.hidden = q.hidden /\ r.unusual = q.unusual
  /\ c = "/" => r.mode = "slash" /\ r.hidden = q.hidden /\ r.unusual = q.unusual
  /\ c = "*" /\ q.mode = "slash" =>
       /\ r.mode = "block" /\ r.hidden = q.hidden \cup {k - 1, k}
       /\ r.depth = 1 /\ r.buf = <<>> /\ r.unusual = q.unusual
  /\ c \in {"'", "dq"} =>
       r.mode = c /\ r.hidden = q.hidden \cup {k} /\ r.unusual = q.unusual
  /\ c = "$" /\ q.mode = "word" => r.unusual
  /\ c = "$" /\ q.mode # "word" =>
       /\ r.mode = "tag" /\ r.hidden = q.hidden /\ r.buf = <<"$">>
       /\ r.unusual = q.unusual
  /\ isLetter(c) \/ (q.mode = "word" /\ isIdentifierPart(c)) =>
       r.mode = "word" /\ r.hidden = q.hidden /\ r.unusual = q.unusual
  /\ /\ c \notin {"-", "/", "'", "dq", "$"} /\ ~isLetter(c)
     /\ ~(c = "*" /\ q.mode = "slash") /\ ~(q.mode = "word" /\ isIdentifierPart(c))
     => r.mode = "code" /\ r.hidden = q.hidden /\ r.unusual = q.unusual

LEMMA CodeStep ==
  ASSUME NEW q \in LexStates, NEW c \in Characters, NEW k \in Nat, NEW r, r = InCode(q, c, k)
  PROVE  r \in LexStates /\ AfterCode(q, c, k, r)
<1> USE DEF AfterCode
<1>0. c \in {"-", "/", "*", "'", "dq", "$"} => ~isLetter(c) /\ ~isIdentifierPart(c)
  BY DEF isLetter, isIdentifierStart, isIdentifierPart, Letters
<1>1. CASE c = "-" /\ q.mode = "dash"
  <2>1. r = Hide(Enter(q, "line"), {k - 1, k})
    BY <1>0, <1>1 DEF InCode
  <2> QED BY <1>0, <1>1, <2>1, EnterIs, HideIs DEF Modes
<1>2. CASE c = "-" /\ q.mode # "dash"
  <2>1. r = Enter(q, "dash")
    BY <1>0, <1>2 DEF InCode
  <2> QED BY <1>0, <1>2, <2>1, EnterIs DEF Modes
<1>3. CASE c = "/"
  <2>1. r = Enter(q, "slash")
    BY <1>0, <1>3 DEF InCode
  <2> QED BY <1>0, <1>3, <2>1, EnterIs DEF Modes
<1>4. CASE c = "*" /\ q.mode = "slash"
  <2> DEFINE p == [Enter(q, "block") EXCEPT !.depth = 1, !.buf = <<>>]
  <2>1. r = Hide(p, {k - 1, k})
    BY <1>0, <1>4 DEF InCode
  <2>2. /\ p \in LexStates /\ p.mode = "block" /\ p.depth = 1 /\ p.buf = <<>>
        /\ p.hidden = q.hidden /\ p.unusual = q.unusual
    <3> DEFINE b == <<>>
    <3>1. p = [Enter(q, "block") EXCEPT !.depth = 1, !.buf = b]
      OBVIOUS
    <3>2. b = <<>> /\ b \in Seq(Characters) /\ "block" \in Modes /\ 1 \in Int
      BY DEF Modes
    <3> HIDE DEF b, p
    <3>3. /\ p \in LexStates /\ p.mode = "block" /\ p.depth = 1 /\ p.buf = b
          /\ p.hidden = q.hidden /\ p.unusual = q.unusual
      BY <3>1, <3>2 DEF Enter, LexStates
    <3> QED BY <3>2, <3>3
  <2> HIDE DEF p
  <2> QED BY <1>0, <1>4, <2>1, <2>2, HideIs
<1>5. CASE c \in {"'", "dq"}
  <2>1. r = Hide(Enter(q, c), {k})
    BY <1>0, <1>5 DEF InCode
  <2> QED BY <1>0, <1>5, <2>1, EnterIs, HideIs DEF Modes
<1>6. CASE c = "$" /\ q.mode = "word"
  <2>1. r = [q EXCEPT !.unusual = TRUE]
    BY <1>0, <1>6 DEF InCode
  <2>2. r \in LexStates /\ r.unusual
    <3>1. TRUE \in BOOLEAN
      OBVIOUS
    <3> QED BY <2>1, <3>1, UnusualIs, Zenon
  <2> QED BY <1>0, <1>6, <2>2
<1>7. CASE c = "$" /\ q.mode # "word"
  <2>1. r = [Enter(q, "tag") EXCEPT !.buf = <<"$">>]
    BY <1>0, <1>7 DEF InCode
  <2>2. <<"$">> \in Seq(Characters)
    <3>1. "$" \in Characters
      BY DEF Characters
    <3> QED BY <3>1, OneElement
  <2>3. /\ r \in LexStates /\ r.mode = "tag" /\ r.buf = <<"$">>
        /\ r.hidden = q.hidden /\ r.unusual = q.unusual
    <3> DEFINE b == <<"$">>
    <3>1. r = [Enter(q, "tag") EXCEPT !.buf = b] /\ b \in Seq(Characters) /\ "tag" \in Modes
      BY <2>1, <2>2 DEF Modes
    <3>2. b = <<"$">>
      OBVIOUS
    <3> HIDE DEF b
    <3>3. /\ r \in LexStates /\ r.mode = "tag" /\ r.buf = b
          /\ r.hidden = q.hidden /\ r.unusual = q.unusual
      BY <3>1 DEF Enter, LexStates
    <3> QED BY <3>2, <3>3
  <2> QED BY <1>0, <1>7, <2>3
<1>8. CASE isLetter(c) \/ (q.mode = "word" /\ isIdentifierPart(c))
  <2>1. c \notin {"-", "/", "*", "'", "dq", "$"}
    BY <1>8 DEF isLetter, isIdentifierStart, isIdentifierPart, Letters
  <2>2. r = Enter(q, "word")
    BY <1>8, <2>1 DEF InCode
  <2> QED BY <1>8, <2>1, <2>2, EnterIs DEF Modes
<1>9. CASE /\ c \notin {"-", "/", "'", "dq", "$"} /\ ~isLetter(c)
           /\ ~(c = "*" /\ q.mode = "slash") /\ ~(q.mode = "word" /\ isIdentifierPart(c))
  <2>1. r = Enter(q, "code")
    BY <1>9 DEF InCode
  <2> QED BY <1>9, <2>1, EnterIs DEF Modes
<1> QED BY <1>1, <1>2, <1>3, <1>4, <1>5, <1>6, <1>7, <1>8, <1>9
LEMMA LineStep ==
  ASSUME NEW q \in LexStates, NEW c \in Characters, NEW k \in Nat, NEW r, r = Step(q, c, k),
         q.mode = "line"
  PROVE  /\ r \in LexStates /\ r.unusual = q.unusual
         /\ c = "nl" => r.mode = "code" /\ r.hidden = q.hidden
         /\ c # "nl" => r.mode = "line" /\ r.hidden = q.hidden \cup {k}
<1>1. r = IF c = "nl" THEN Enter(q, "code") ELSE Hide(q, {k})
  BY DEF Step
<1>2. CASE c = "nl"
  BY <1>1, <1>2, EnterIs DEF Modes
<1>3. CASE c # "nl"
  BY <1>1, <1>3, HideIs
<1> QED BY <1>2, <1>3

LEMMA QuoteStep ==
  ASSUME NEW q \in LexStates, NEW c \in Characters, NEW k \in Nat, NEW r, r = Step(q, c, k),
         q.mode \in {"'", "dq"}
  PROVE  /\ r \in LexStates
         /\ r.unusual <=> q.unusual \/ (c = "bs" /\ q.mode = "'")
         /\ r.hidden = q.hidden \cup {k}
         /\ c = q.mode => r.mode = "code"
         /\ c # q.mode => r.mode = q.mode
<1> DEFINE p == IF c = q.mode THEN Enter(q, "code") ELSE q
           u == p.unusual \/ (c = "bs" /\ q.mode = "'")
           x == [p EXCEPT !.unusual = u]
<1>1. r = Hide(x, {k})
  <2>1. r = Hide([(IF c = q.mode THEN Enter(q, "code") ELSE q)
                 EXCEPT !.unusual = @ \/ (c = "bs" /\ q.mode = "'")], {k})
    BY DEF Step
  <2> QED BY <2>1
<1>2. /\ p \in LexStates /\ p.hidden = q.hidden /\ p.unusual = q.unusual
      /\ c = q.mode => p.mode = "code"
      /\ c # q.mode => p.mode = q.mode
  <2>1. "code" \in Modes
    BY DEF Modes
  <2> QED BY <2>1, EnterIs
<1> HIDE DEF p
<1>3. x \in LexStates /\ x.hidden = p.hidden /\ x.mode = p.mode
  BY <1>2 DEF LexStates
<1>4. x.unusual <=> u
  BY <1>2 DEF LexStates
<1> HIDE DEF x
<1> QED BY <1>1, <1>2, <1>3, <1>4, HideIs

AfterBlock(q, c, k, r) ==
  /\ r.unusual = q.unusual /\ r.hidden = q.hidden \cup {k}
  /\ q.buf = <<"/">> /\ c = "*" =>
       r.mode = "block" /\ r.depth = q.depth + 1 /\ r.buf = <<>>
  /\ q.buf = <<"*">> /\ c = "/" =>
       /\ r.mode = IF q.depth = 1 THEN "code" ELSE "block"
       /\ r.depth = q.depth - 1 /\ r.buf = <<>>
  /\ ~(q.buf = <<"/">> /\ c = "*") /\ ~(q.buf = <<"*">> /\ c = "/") =>
       r.mode = "block" /\ r.depth = q.depth /\ r.buf = <<c>>

LEMMA BlockStep ==
  ASSUME NEW q \in LexStates, NEW c \in Characters, NEW k \in Nat, NEW r, r = Step(q, c, k),
         q.mode = "block"
  PROVE  r \in LexStates /\ AfterBlock(q, c, k, r)
<1> USE DEF AfterBlock
<1> DEFINE p == InBlock(q, c)
           none == <<>>
           one == <<c>>
           open == q.buf = <<"/">> /\ c = "*"
           close == q.buf = <<"*">> /\ c = "/"
<1>1. r = Hide(p, {k})
  BY DEF Step
<1>2. one \in Seq(Characters) /\ none \in Seq(Characters)
  BY OneElement
<1>3. ~(open /\ close)
  OBVIOUS
<1>4. /\ open => p = [q EXCEPT !.depth = q.depth + 1, !.buf = none]
      /\ close => p = [Enter(q, IF q.depth = 1 THEN "code" ELSE "block")
                         EXCEPT !.depth = q.depth - 1, !.buf = none]
      /\ ~open /\ ~close => p = [q EXCEPT !.buf = one]
  BY DEF InBlock, Enter
<1>5. q.depth \in Int /\ q.depth + 1 \in Int /\ q.depth - 1 \in Int
  BY DEF LexStates
<1> HIDE DEF p, none, one, open, close
<1>6. CASE open
  <2>1. p = [q EXCEPT !.depth = q.depth + 1, !.buf = none]
    BY <1>4, <1>6
  <2>2. /\ p \in LexStates /\ p.unusual = q.unusual /\ p.hidden = q.hidden
        /\ p.mode = "block" /\ p.depth = q.depth + 1 /\ p.buf = none
    BY <1>2, <1>5, <2>1 DEF LexStates
  <2> QED BY <1>1, <1>3, <1>6, <2>2, HideIs DEF open, close, none
<1>7. CASE close
  <2> DEFINE m == IF q.depth = 1 THEN "code" ELSE "block"
  <2>0. m \in Modes
    BY DEF Modes
  <2>1. p = [Enter(q, m) EXCEPT !.depth = q.depth - 1, !.buf = none]
    BY <1>4, <1>7
  <2> HIDE DEF m
  <2>2. /\ p \in LexStates /\ p.unusual = q.unusual /\ p.hidden = q.hidden
        /\ p.mode = m /\ p.depth = q.depth - 1 /\ p.buf = none
    BY <1>2, <1>5, <2>0, <2>1 DEF LexStates, Enter
  <2> QED BY <1>1, <1>3, <1>7, <2>2, HideIs DEF open, close, none, m
<1>8. CASE ~open /\ ~close
  <2>1. p = [q EXCEPT !.buf = one]
    BY <1>4, <1>8
  <2>2. /\ p \in LexStates /\ p.unusual = q.unusual /\ p.hidden = q.hidden
        /\ p.mode = "block" /\ p.depth = q.depth /\ p.buf = one
    BY <1>2, <2>1 DEF LexStates
  <2> QED BY <1>1, <1>8, <2>2, HideIs DEF open, close, one
<1> QED BY <1>6, <1>7, <1>8

\* With the text buf since the delimiter, a dollar quote is closed or goes on.
Closes(buf, d) == Len(buf) >= Len(d) /\ SubSeq(buf, Len(buf) - Len(d) + 1, Len(buf)) = d
AfterBody(q, c, k, r) ==
  /\ r.unusual = q.unusual /\ r.hidden = q.hidden \cup {k} /\ r.tag = q.tag
  /\ Closes(Append(q.buf, c), q.tag) => r.mode = "code"
  /\ ~Closes(Append(q.buf, c), q.tag) => r.mode = "body" /\ r.buf = Append(q.buf, c)

LEMMA BodyStep ==
  ASSUME NEW q \in LexStates, NEW c \in Characters, NEW k \in Nat, NEW r, r = Step(q, c, k),
         q.mode = "body"
  PROVE  r \in LexStates /\ AfterBody(q, c, k, r)
<1> DEFINE p == InBody(q, c)
           buf == Append(q.buf, c)
           closed == Closes(buf, q.tag)
<1>1. r = Hide(p, {k})
  BY DEF Step
<1>2. p = IF closed THEN Enter(q, "code") ELSE [q EXCEPT !.buf = buf]
  BY DEF InBody, Closes
<1>3. buf \in Seq(Characters) /\ "code" \in Modes
  BY AppendProperties DEF LexStates, Modes
<1> HIDE DEF p, closed, buf
<1>4. ASSUME closed
      PROVE  /\ r \in LexStates /\ r.unusual = q.unusual /\ r.hidden = q.hidden \cup {k}
             /\ r.tag = q.tag /\ r.mode = "code"
  <2>1. p = Enter(q, "code")
    BY <1>2, <1>4
  <2>2. /\ p \in LexStates /\ p.unusual = q.unusual /\ p.hidden = q.hidden
        /\ p.mode = "code" /\ p.tag = q.tag
    BY <1>3, <2>1, EnterIs
  <2> QED BY <1>1, <2>2, HideIs
<1>5. ASSUME ~closed
      PROVE  /\ r \in LexStates /\ r.unusual = q.unusual /\ r.hidden = q.hidden \cup {k}
             /\ r.tag = q.tag /\ r.mode = "body" /\ r.buf = buf
  <2>1. p = [q EXCEPT !.buf = buf]
    BY <1>2, <1>5
  <2>2. /\ p \in LexStates /\ p.unusual = q.unusual /\ p.hidden = q.hidden
        /\ p.mode = "body" /\ p.tag = q.tag /\ p.buf = buf
    BY <1>3, <2>1 DEF LexStates
  <2> QED BY <1>1, <2>2, HideIs
<1> QED BY <1>4, <1>5, Zenon DEF closed, buf, AfterBody

\* A tag goes on with letters, and with digits behind the first letter.
OfTag(q, c) == isIdentifierPart(c) /\ ~(c = "1" /\ Len(q.buf) = 1)

AfterTag(q, c, k, r) ==
  /\ c = "$" =>
       /\ r.mode = "body" /\ r.tag = Append(q.buf, c) /\ r.buf = <<>>
       /\ r.unusual = q.unusual /\ r.hidden = q.hidden \cup (k - Len(q.buf) .. k)
  /\ OfTag(q, c) =>
       /\ r.mode = "tag" /\ r.buf = Append(q.buf, c)
       /\ r.hidden = q.hidden /\ r.unusual = q.unusual
  /\ c = "hi" => r.unusual
  /\ c \notin {"$", "hi"} /\ ~OfTag(q, c) => r = InCode(Enter(q, "code"), c, k)

LEMMA TagStep ==
  ASSUME NEW q \in LexStates, NEW c \in Characters, NEW k \in Nat, NEW r, r = Step(q, c, k),
         q.mode = "tag"
  PROVE  r \in LexStates /\ AfterTag(q, c, k, r)
<1> USE DEF AfterTag
<1> DEFINE none == <<>>
           tag == Append(q.buf, c)
           more == OfTag(q, c)
           p == [Enter(q, "body") EXCEPT !.tag = tag, !.buf = none]
           places == k - Len(q.buf) .. k
<1>1. ~(c \in {"$", "hi"} /\ more)
  BY DEF isIdentifierPart, Letters, OfTag
<1>0. /\ tag \in Seq(Characters) /\ Len(q.buf) \in Nat /\ Len(tag) = Len(q.buf) + 1
      /\ k - Len(tag) + 1 = k - Len(q.buf)
  <2>1. q.buf \in Seq(Characters) /\ Len(q.buf) \in Nat
    BY DEF LexStates
  <2>2. tag \in Seq(Characters) /\ Len(tag) = Len(q.buf) + 1
    BY <2>1
  <2> HIDE DEF tag
  <2> QED BY <2>1, <2>2
<1>2. /\ c = "$" => r = Hide(p, places)
      /\ more => r = [q EXCEPT !.buf = tag]
      /\ c = "hi" => r = [q EXCEPT !.buf = tag, !.unusual = TRUE]
      /\ c \notin {"$", "hi"} /\ ~more => r = InCode(Enter(q, "code"), c, k)
  <2>1. r = InTag(q, c, k)
    BY DEF Step
  <2> HIDE DEF more
  <2>2. InTag(q, c, k) = CASE c = "$" -> Hide(p, places)
                           [] more -> [q EXCEPT !.buf = tag]
                           [] c = "hi" -> [q EXCEPT !.buf = tag, !.unusual = TRUE]
                           [] OTHER -> InCode(Enter(q, "code"), c, k)
    <3>1. more <=> isIdentifierPart(c) /\ ~(c = "1" /\ Len(tag) = 2)
      <4>1. Len(tag) = 2 <=> Len(q.buf) = 1
        <5> DEFINE n == Len(tag)
                   m == Len(q.buf)
        <5>1. n = m + 1 /\ m \in Nat
          BY <1>0
        <5> HIDE DEF n, m
        <5>2. n = 2 <=> m = 1
          BY <5>1
        <5> QED BY <5>2 DEF n, m
      <4> QED BY <4>1, Zenon DEF more, OfTag
    <3>2. places = k - Len(tag) + 1 .. k
      BY <1>0
    <3> HIDE DEF more, places
    <3> QED BY <3>1, <3>2, Zenon DEF InTag
  <2> HIDE DEF p, places
  <2> QED BY <1>1, <2>1, <2>2
<1>3. none \in Seq(Characters) /\ "body" \in Modes /\ "code" \in Modes
  BY DEF Modes
<1> HIDE DEF none, more, places, tag
<1>4. CASE c = "$"
  <2>1. /\ p \in LexStates /\ p.unusual = q.unusual /\ p.hidden = q.hidden
        /\ p.mode = "body" /\ p.tag = tag /\ p.buf = none
    BY <1>0, <1>3 DEF LexStates, Enter
  <2>2. places \subseteq Int
    <3> DEFINE size == Len(q.buf)
    <3>1. places = k - size .. k /\ size \in Nat
      BY <1>0 DEF places
    <3> HIDE DEF size
    <3> QED BY <3>1
  <2> HIDE DEF p
  <2>3. /\ Hide(p, places) \in LexStates /\ Hide(p, places).mode = p.mode
        /\ Hide(p, places).tag = p.tag /\ Hide(p, places).buf = p.buf
        /\ Hide(p, places).hidden = p.hidden \cup places
        /\ Hide(p, places).unusual = p.unusual
    BY <2>1, <2>2, HideIs
  <2>4. /\ r \in LexStates /\ r.mode = "body" /\ r.tag = tag /\ r.buf = none
        /\ r.hidden = q.hidden \cup places /\ r.unusual = q.unusual
    BY <1>2, <1>4, <2>1, <2>3
  <2> QED BY <1>1, <1>4, <2>4 DEF none, places, more, tag
<1>5. CASE more
  <2>1. r = [q EXCEPT !.buf = tag]
    BY <1>2, <1>5
  <2>2. /\ r \in LexStates /\ r.unusual = q.unusual /\ r.hidden = q.hidden
        /\ r.mode = "tag" /\ r.buf = tag
    BY <1>0, <2>1 DEF LexStates
  <2> QED BY <1>1, <1>5, <2>2 DEF more, tag
<1>6. CASE c = "hi"
  <2>1. r = [q EXCEPT !.buf = tag, !.unusual = TRUE] /\ TRUE \in BOOLEAN
    BY <1>2, <1>6
  <2>2. r \in LexStates /\ r.unusual
    BY <1>0, <2>1 DEF LexStates
  <2> QED BY <1>1, <1>6, <2>2 DEF more
<1>7. CASE c \notin {"$", "hi"} /\ ~more
  <2>1. r = InCode(Enter(q, "code"), c, k)
    BY <1>2, <1>7
  <2>2. Enter(q, "code") \in LexStates
    BY <1>3, EnterIs
  <2>3. r \in LexStates
    BY <2>1, <2>2, CodeStep
  <2> QED BY <1>7, <2>1, <2>3 DEF more
<1> QED BY <1>4, <1>5, <1>6, <1>7

\* Every step leads to a state again, and what was unusual stays so.
LEMMA StepTypes ==
  ASSUME NEW q \in LexStates, NEW c \in Characters, NEW k \in Nat, NEW r, r = Step(q, c, k)
  PROVE  r \in LexStates /\ (q.unusual => r.unusual)
<1>0. q.mode \in Modes
  BY DEF LexStates
<1>1. CASE q.mode = "line"
  BY <1>1, LineStep
<1>2. CASE q.mode \in {"'", "dq"}
  BY <1>2, QuoteStep
<1>3. CASE q.mode = "block"
  BY <1>3, BlockStep DEF AfterBlock
<1>4. CASE q.mode = "body"
  BY <1>4, BodyStep DEF AfterBody
<1>5. ASSUME NEW p \in LexStates, p.unusual = q.unusual, r = InCode(p, c, k)
      PROVE  r \in LexStates /\ (q.unusual => r.unusual)
  <2>1. r \in LexStates /\ AfterCode(p, c, k, r)
    BY <1>5, CodeStep
  <2>2. CASE c \in {"-", "/", "'", "dq", "$"}
    BY <1>5, <2>1, <2>2 DEF AfterCode
  <2>3. CASE c \notin {"-", "/", "'", "dq", "$"}
    <3>1. CASE c = "*" /\ p.mode = "slash"
      BY <1>5, <2>1, <3>1 DEF AfterCode
    <3>2. CASE isLetter(c) \/ (p.mode = "word" /\ isIdentifierPart(c))
      BY <1>5, <2>1, <3>2 DEF AfterCode
    <3>3. CASE /\ ~(c = "*" /\ p.mode = "slash")
               /\ ~(isLetter(c) \/ (p.mode = "word" /\ isIdentifierPart(c)))
      BY <1>5, <2>1, <2>3, <3>3 DEF AfterCode
    <3> QED BY <3>1, <3>2, <3>3
  <2> QED BY <2>1, <2>2, <2>3
<1>6. CASE q.mode = "tag"
  <2>1. PICK fresh : fresh = Enter(q, "code")
    OBVIOUS
  <2>2. fresh \in LexStates /\ fresh.unusual = q.unusual
    <3>1. "code" \in Modes
      BY DEF Modes
    <3> QED BY <2>1, <3>1, EnterIs
  <2>6. r \in LexStates /\ AfterTag(q, c, k, r)
    BY <1>6, TagStep
  <2>3. CASE c = "$"
    BY <2>3, <2>6 DEF AfterTag
  <2>4. CASE OfTag(q, c)
    BY <2>4, <2>6 DEF AfterTag
  <2>7. CASE c = "hi"
    BY <2>6, <2>7 DEF AfterTag
  <2>5. CASE c \notin {"$", "hi"} /\ ~OfTag(q, c)
    <3>1. r = InCode(fresh, c, k)
      BY <2>1, <2>5, <2>6 DEF AfterTag
    <3> QED BY <1>5, <2>2, <3>1
  <2> QED BY <2>3, <2>4, <2>5, <2>7
<1>7. CASE q.mode \in {"code", "word", "dash", "slash"}
  <2>1. r = InCode(q, c, k)
    BY <1>7 DEF Step
  <2> QED BY <1>5, <2>1
<1> QED BY <1>0, <1>1, <1>2, <1>3, <1>4, <1>6, <1>7 DEF Modes

\* PostgreSQL is in some state of the lexer behind every character.
LEMMA LexTypes ==
  ASSUME NEW s \in Seq(Characters), NEW f, IsLex(f, s)
  PROVE  \A k \in 0 .. Len(s) : f[k] \in LexStates
<1> DEFINE size == Len(s)
           Good == {k \in Nat : k <= size => f[k] \in LexStates}
<1>1. size \in Nat /\ \A k \in 1 .. size : s[k] \in Characters
  OBVIOUS
<1>2. f[0] = Start /\ \A k \in 1 .. size : f[k] = Step(f[k - 1], s[k], k)
  BY DEF IsLex
<1> HIDE DEF size
<1>3. 0 \in Good
  <2>1. "code" \in Modes /\ <<>> \in Seq(Characters)
    BY DEF Modes
  <2>2. Start \in LexStates
    BY <2>1 DEF Start, LexStates
  <2> QED BY <1>2, <2>2
<1>4. ASSUME NEW n \in Nat, n \in Good
      PROVE  n + 1 \in Good
  <2> SUFFICES ASSUME n + 1 <= size PROVE f[n + 1] \in LexStates
    OBVIOUS
  <2>1. n + 1 \in 1 .. size /\ n + 1 \in Nat /\ f[n] \in LexStates /\ (n + 1) - 1 = n
    BY <1>1, <1>4
  <2>2. f[n + 1] = Step(f[n], s[n + 1], n + 1) /\ s[n + 1] \in Characters
    BY <1>1, <1>2, <2>1
  <2> QED BY <2>1, <2>2, StepTypes
<1> HIDE DEF Good
<1>5. Nat \subseteq Good
  BY <1>3, <1>4, Upwards, Zenon
<1> SUFFICES ASSUME NEW k \in 0 .. size PROVE f[k] \in LexStates
  BY DEF size
<1>6. k \in Nat /\ k <= size
  BY <1>1
<1> QED BY <1>5, <1>6 DEF Good

\* The lexer's states over a text with nothing unusual in it.
Reads(f, s) ==
  /\ IsLex(f, s)
  /\ \A k \in 0 .. Len(s) : f[k] \in LexStates /\ ~f[k].unusual

LEMMA UsualRuns ==
  ASSUME NEW s \in Seq(Characters), ~PostgresLex(s).unusual
  PROVE  \E f : Reads(f, s) /\ PostgresLex(s) = f[Len(s)]
<1>1. PICK f : IsLex(f, s) /\ PostgresLex(s) = f[Len(s)]
  BY LexRuns
<1> DEFINE size == Len(s)
           wrong == {k \in 0 .. size : f[k].unusual}
<1>2. size \in Nat /\ \A k \in 1 .. size : s[k] \in Characters
  OBVIOUS
<1>3. \A k \in 1 .. size : f[k] = Step(f[k - 1], s[k], k)
  BY <1>1 DEF IsLex
<1>4. \A k \in 0 .. size : f[k] \in LexStates
  BY <1>1, LexTypes
<1> HIDE DEF size
<1>5. ASSUME NEW k \in wrong
      PROVE  \E m \in wrong : m > k
  <2>1. k # size
    BY <1>1 DEF size
  <2>2. k + 1 \in 1 .. size /\ k + 1 \in 0 .. size /\ k + 1 \in Nat /\ (k + 1) - 1 = k /\ k + 1 > k
    BY <1>2, <2>1
  <2>3. f[k + 1] = Step(f[k], s[k + 1], k + 1) /\ s[k + 1] \in Characters /\ f[k] \in LexStates
    BY <1>2, <1>3, <1>4, <2>2
  <2>4. f[k + 1].unusual
    BY <2>2, <2>3, StepTypes
  <2> QED BY <2>2, <2>4
<1>6. wrong = {}
  <2>1. wrong \subseteq 0 .. size
    OBVIOUS
  <2> HIDE DEF wrong
  <2> QED BY <1>2, <1>5, <2>1, Downwards, Zenon
<1> QED BY <1>1, <1>4, <1>6 DEF Reads, size

\* A step of it.
LEMMA ReadsOn ==
  ASSUME NEW s \in Seq(Characters), NEW f, Reads(f, s), NEW k \in 1 .. Len(s)
  PROVE  /\ f[k] = Step(f[k - 1], s[k], k)
         /\ f[k] \in LexStates /\ ~f[k].unusual
         /\ f[k - 1] \in LexStates /\ ~f[k - 1].unusual
         /\ s[k] \in Characters /\ k \in Nat
<1>1. k \in 0 .. Len(s) /\ k - 1 \in 0 .. Len(s)
  OBVIOUS
<1> QED BY <1>1 DEF Reads, IsLex
-----------------------------------------------------------------------------
(***************************************************************************)
(* PostgreSQL's reading at the starts of the turns of inspectStatement.    *)
(***************************************************************************)

\* In state q, in front of place b of s, the lexer is not inside anything that
\* goes on over b, but for a word and for a dollar sign that starts no quote.
Ready(q, s, b) ==
  /\ q.mode \in {"code", "word", "dash", "slash", "tag", "line"}
  /\ q.mode = "dash" => ~At(s, b, "-")
  /\ q.mode = "slash" => ~At(s, b, "*")
  /\ q.mode = "line" => (b <= Len(s) => s[b] = "nl")
  /\ q.mode = "tag" =>
       \/ /\ q.buf = <<"$">> /\ b > 1 /\ s[b - 1] = "$"
          /\ dollarQuoteDelimiter(s, b - 1) = <<>>
       \/ b <= Len(s) => ~isIdentifierPart(s[b]) /\ s[b] # "$"

\* What follows a dollar sign that starts no quote.
LEMMA NoDelimiter ==
  ASSUME NEW s \in Seq(Characters), NEW b \in 1 .. Len(s), b > 1, s[b - 1] = "$",
         dollarQuoteDelimiter(s, b - 1) = <<>>
  PROVE  s[b] # "$" /\ (isIdentifierStart(s[b]) => ~At(s, WordEnd(s, b), "$"))
<1> DEFINE e == WordEnd(s, b)
<1>1. b \in Nat /\ Len(s) \in Nat /\ b - 1 \in 1 .. Len(s) /\ (b - 1) + 1 = b /\ b <= Len(s)
  OBVIOUS
<1>2. dollarQuoteDelimiter(s, b - 1)
        = IF At(s, e, "$") /\ ~At(s, b, "1") THEN SubSeq(s, b - 1, e) ELSE <<>>
  BY <1>1 DEF dollarQuoteDelimiter
<1>3. e \in b .. Len(s) + 1
  BY <1>1, WordEndIs
<1> HIDE DEF e
<1>4. ~(At(s, e, "$") /\ ~At(s, b, "1"))
  <2> SUFFICES ASSUME At(s, e, "$"), ~At(s, b, "1") PROVE FALSE
    OBVIOUS
  <2>1. e <= Len(s) /\ e \in Nat
    BY <1>1, <1>3 DEF At
  <2>2. SubSeq(s, b - 1, e) = <<>>
    BY <1>2
  <2>3. Len(SubSeq(s, b - 1, e)) = e - (b - 1) + 1
    BY <1>1, <1>3, <2>1, SubSeqProperties
  <2> QED BY <1>1, <1>3, <2>2, <2>3
<1>5. s[b] # "$"
  <2> SUFFICES ASSUME s[b] = "$" PROVE FALSE
    OBVIOUS
  <2>1. ~isIdentifierPart(s[b])
    BY DEF isIdentifierPart, Letters
  <2>2. e = b
    BY <1>1, <2>1, IsWordEnd DEF e
  <2> QED BY <1>1, <1>4, <2>2 DEF At
<1>6. isIdentifierStart(s[b]) => ~At(s, b, "1")
  BY DEF isIdentifierStart, Letters, At
<1> QED BY <1>4, <1>5, <1>6 DEF e

\* The first step of a turn depends on the character alone, but for a letter
\* behind a dollar sign.
AfterFirst(p, r, s, b, c) ==
  /\ c = "-" => r.mode = "dash" /\ r.hidden = p.hidden
  /\ c = "/" => r.mode = "slash" /\ r.hidden = p.hidden
  /\ c \in {"'", "dq"} => r.mode = c /\ r.hidden = p.hidden \cup {b}
  /\ c = "$" => r.mode = "tag" /\ r.hidden = p.hidden /\ r.buf = <<"$">>
  /\ isIdentifierStart(c) =>
       /\ r.hidden = p.hidden
       /\ \/ r.mode = "word"
          \/ r.mode = "tag" /\ Len(r.buf) = 2 /\ ~At(s, WordEnd(s, b), "$")
  /\ c \notin {"-", "/", "'", "dq", "$"} /\ ~isIdentifierStart(c) =>
       r.mode \in {"code", "word"} /\ r.hidden = p.hidden

LEMMA FirstStep ==
  ASSUME NEW s \in Seq(Characters), NEW f, Reads(f, s), NEW b \in 1 .. Len(s),
         NEW p, p = f[b - 1], NEW r, r = f[b], NEW c, c = s[b], Ready(p, s, b)
  PROVE  AfterFirst(p, r, s, b, c)
<1> USE DEF AfterFirst
<1>1. /\ r = Step(p, c, b) /\ r \in LexStates /\ ~r.unusual /\ p \in LexStates
      /\ ~p.unusual /\ c \in Characters /\ b \in Nat /\ b <= Len(s) /\ Len(s) \in Nat
  BY ReadsOn
<1>2. ASSUME NEW q \in LexStates, r = InCode(q, c, b), q.hidden = p.hidden,
             c = "-" => q.mode # "dash",
             c = "*" => q.mode # "slash"
      PROVE  AfterFirst(p, r, s, b, c)
  <2>1. AfterCode(q, c, b, r)
    BY <1>1, <1>2, CodeStep
  <2>2. c \in {"-", "/", "*", "'", "dq", "$"} => ~isLetter(c) /\ ~isIdentifierPart(c)
    BY DEF isLetter, isIdentifierStart, isIdentifierPart, Letters
  <2>3. c = "$" => q.mode # "word"
    BY <1>1, <2>1 DEF AfterCode
  <2>4. isIdentifierStart(c) => isLetter(c)
    BY DEF isLetter
  <2>5. CASE c \in {"-", "/", "'", "dq", "$"}
    BY <1>2, <2>1, <2>2, <2>3, <2>4, <2>5 DEF AfterCode
  <2>6. CASE c \notin {"-", "/", "'", "dq", "$"}
    <3>1. CASE isLetter(c) \/ (q.mode = "word" /\ isIdentifierPart(c))
      BY <1>2, <2>1, <2>6, <3>1 DEF AfterCode
    <3>2. CASE ~(isLetter(c) \/ (q.mode = "word" /\ isIdentifierPart(c)))
      BY <1>2, <2>1, <2>4, <2>6, <3>2 DEF AfterCode
    <3> QED BY <3>1, <3>2
  <2> QED BY <2>5, <2>6
<1>3. CASE p.mode \in {"code", "word", "dash", "slash"}
  <2>1. r = InCode(p, c, b)
    BY <1>1, <1>3 DEF Step
  <2>2. /\ c = "-" => p.mode # "dash"
        /\ c = "*" => p.mode # "slash"
    BY <1>1 DEF Ready, At
  <2> QED BY <1>1, <1>2, <2>1, <2>2
<1>4. CASE p.mode = "line"
  <2>1. c = "nl"
    BY <1>1, <1>4 DEF Ready
  <2>2. r.mode = "code" /\ r.hidden = p.hidden
    BY <1>1, <1>4, <2>1, LineStep
  <2> QED BY <2>1, <2>2 DEF isIdentifierStart, Letters
<1>5. CASE p.mode = "tag"
  <2>1. c # "$"
    BY <1>1, <1>5, NoDelimiter DEF Ready
  <2>4. c # "hi"
    BY <1>1, <1>5, TagStep DEF AfterTag
  <2>2. CASE OfTag(p, c)
    <3>1. isIdentifierPart(c)
      BY <2>2 DEF OfTag
    <3>2. p.buf = <<"$">> /\ b > 1 /\ s[b - 1] = "$" /\ dollarQuoteDelimiter(s, b - 1) = <<>>
      BY <1>1, <1>5, <3>1 DEF Ready
    <3>3. c # "1"
      <4>1. Len(p.buf) = 1
        BY <3>2
      <4> QED BY <2>2, <4>1 DEF OfTag
    <3>4. isIdentifierStart(c)
      BY <3>1, <3>3 DEF isIdentifierPart, isIdentifierStart
    <3>5. c \notin {"-", "/", "'", "dq", "$"}
      BY <3>4 DEF isIdentifierStart, Letters
    <3>6. r.mode = "tag" /\ r.hidden = p.hidden /\ r.buf = Append(p.buf, c)
      <4>1. AfterTag(p, c, b, r)
        BY <1>1, <1>5, TagStep
      <4> QED BY <2>2, <4>1 DEF AfterTag
    <3>7. Len(r.buf) = 2
      BY <3>2, <3>6
    <3>8. ~At(s, WordEnd(s, b), "$")
      BY <3>2, <3>4, NoDelimiter
    <3> QED BY <3>4, <3>5, <3>6, <3>7, <3>8
  <2>3. CASE ~OfTag(p, c)
    <3>1. PICK q : q = Enter(p, "code")
      OBVIOUS
    <3>2. r = InCode(q, c, b)
      <4>1. AfterTag(p, c, b, r)
        BY <1>1, <1>5, TagStep
      <4> QED BY <2>1, <2>3, <2>4, <3>1, <4>1 DEF AfterTag
    <3>3. q \in LexStates /\ q.hidden = p.hidden /\ q.mode = "code"
      <4>1. "code" \in Modes
        BY DEF Modes
      <4> QED BY <1>1, <3>1, <4>1, EnterIs
    <3> QED BY <1>2, <3>2, <3>3
  <2> QED BY <2>2, <2>3
<1> QED BY <1>3, <1>4, <1>5 DEF Ready

\* A place that opens nothing.
LEMMA OtherReads ==
  ASSUME NEW s \in Seq(Characters), NEW f, Reads(f, s), NEW b \in 1 .. Len(s),
         Ready(f[b - 1], s, b), ~Covers(s, b), ~isIdentifierStart(s[b])
  PROVE  Ready(f[b], s, b + 1) /\ f[b].hidden = f[b - 1].hidden
<1>1. PICK p, r, c : p = f[b - 1] /\ r = f[b] /\ c = s[b]
  OBVIOUS
<1>2. b \in Nat /\ (b + 1) - 1 = b /\ b + 1 > 1
  OBVIOUS
<1>0. AfterFirst(p, r, s, b, c)
  BY <1>1, FirstStep
<1>3. /\ ~Pair(s, b, "-", "-") /\ ~Pair(s, b, "/", "*") /\ c \notin {"'", "dq"}
      /\ DelimiterAt(s, b) = <<>>
  BY <1>1 DEF Covers
<1>4. CASE c = "-"
  <2>1. r.mode = "dash" /\ r.hidden = p.hidden
    BY <1>0, <1>4 DEF AfterFirst
  <2>2. ~At(s, b + 1, "-")
    BY <1>1, <1>2, <1>3, <1>4 DEF Pair, At
  <2> QED BY <1>1, <2>1, <2>2 DEF Ready
<1>5. CASE c = "/"
  <2>1. r.mode = "slash" /\ r.hidden = p.hidden
    BY <1>0, <1>5 DEF AfterFirst
  <2>2. ~At(s, b + 1, "*")
    BY <1>1, <1>2, <1>3, <1>5 DEF Pair, At
  <2> QED BY <1>1, <2>1, <2>2 DEF Ready
<1>6. CASE c = "$"
  <2>1. r.mode = "tag" /\ r.hidden = p.hidden /\ r.buf = <<"$">>
    BY <1>0, <1>6 DEF AfterFirst
  <2>2. dollarQuoteDelimiter(s, b) = <<>>
    BY <1>1, <1>3, <1>6 DEF DelimiterAt
  <2> QED BY <1>1, <1>2, <1>6, <2>1, <2>2 DEF Ready
<1>7. CASE c \notin {"-", "/", "$"}
  <2>1. r.mode \in {"code", "word"} /\ r.hidden = p.hidden
    BY <1>0, <1>1, <1>3, <1>7 DEF AfterFirst
  <2> QED BY <1>1, <2>1 DEF Ready
<1> QED BY <1>4, <1>5, <1>6, <1>7
\* What holds at one end of a range and is handed on holds in all of it.
LEMMA RangeGrows ==
  ASSUME NEW b \in Nat, NEW k \in Nat, k >= b
  PROVE  (b .. k - 1) \cup {k} = b .. k /\ (b .. k) \cup {k + 1} = b .. k + 1
OBVIOUS

LEMMA Along ==
  ASSUME NEW b \in Nat, NEW e \in Nat, NEW S, b \in S,
         \A k \in b .. e - 1 : k \in S => k + 1 \in S
  PROVE  b .. e \subseteq S
<1> DEFINE Good == {n \in Nat : b + n <= e => b + n \in S}
<1>1. 0 \in Good
  OBVIOUS
<1>2. ASSUME NEW n \in Nat, n \in Good
      PROVE  n + 1 \in Good
  <2> SUFFICES ASSUME b + (n + 1) <= e PROVE b + (n + 1) \in S
    OBVIOUS
  <2>1. b + n \in b .. e - 1 /\ b + n \in S /\ (b + n) + 1 = b + (n + 1)
    BY <1>2
  <2> QED BY <2>1
<1> HIDE DEF Good
<1>3. Nat \subseteq Good
  BY <1>1, <1>2, Upwards, Zenon
<1>4. ASSUME NEW k \in b .. e
      PROVE  k \in S
  <2>1. k - b \in Nat /\ b + (k - b) = k /\ k <= e
    OBVIOUS
  <2>2. k - b \in Good
    BY <1>3, <2>1
  <2> QED BY <2>1, <2>2 DEF Good
<1> QED BY <1>4

\* How a turn of inspectStatement looks to PostgreSQL: a turn without an end
\* leaves it in a quote or a comment, and the places of any other are hidden if
\* and only if the turn is one over a quote or a comment.
Unfinished == {"'", "dq", "block", "body"}
ReadsTurn(f, s, b, e) ==
  /\ e = 0 => f[Len(s)].mode \in Unfinished
  /\ e # 0 =>
       /\ Ready(f[e - 1], s, e)
       /\ Covers(s, b) => f[e - 1].mode \in {"code", "line"}
       /\ f[e - 1].hidden = f[b - 1].hidden \cup (IF Covers(s, b) THEN b .. e - 1 ELSE {})

LEMMA WordReads ==
  ASSUME NEW s \in Seq(Characters), NEW f, Reads(f, s), NEW b \in 1 .. Len(s),
         Ready(f[b - 1], s, b), isIdentifierStart(s[b]),
         NEW e, e = WordEnd(s, b)
  PROVE  /\ e # 0 /\ Ready(f[e - 1], s, e) /\ f[e - 1].hidden = f[b - 1].hidden
         /\ f[e - 1].mode = f[b].mode
<1> DEFINE h == f[b - 1].hidden
           S == {k \in Nat : /\ f[k].hidden = h /\ f[k].mode = f[b].mode
                             /\ \/ f[k].mode = "word"
                                \/ /\ f[k].mode = "tag" /\ Len(f[k].buf) \in Nat \ {0, 1}
                                   /\ ~At(s, e, "$")}
<1>1. b \in Nat /\ Len(s) \in Nat /\ b <= Len(s) /\ isIdentifierPart(s[b])
  BY DEF isIdentifierStart, isIdentifierPart
<1>2. /\ e \in b .. Len(s) + 1
      /\ e <= Len(s) => ~isIdentifierPart(s[e])
      /\ \A k \in b .. e - 1 : isIdentifierPart(s[k])
  <2>1. b \in 1 .. Len(s) + 1
    BY <1>1
  <2> QED BY <2>1, WordEndIs, Zenon
<1>3. e \in Nat /\ e # b /\ b <= e - 1 /\ e - 1 \in Nat /\ e # 0
  BY <1>1, <1>2
<1>4. b \in S
  <2>1. AfterFirst(f[b - 1], f[b], s, b, s[b])
    BY FirstStep
  <2>2. /\ f[b].hidden = h
        /\ f[b].mode = "word" \/ (f[b].mode = "tag" /\ Len(f[b].buf) = 2 /\ ~At(s, e, "$"))
    BY <2>1 DEF AfterFirst
  <2>3. 2 \in Nat \ {0, 1}
    OBVIOUS
  <2> QED BY <1>1, <2>2, <2>3, Zenon
<1>5. ASSUME NEW k \in b .. (e - 1) - 1, k \in S
      PROVE  k + 1 \in S
  <2>1. k + 1 \in 1 .. Len(s) /\ (k + 1) - 1 = k /\ k + 1 \in b .. e - 1 /\ k + 1 \in Nat
    BY <1>1, <1>2, <1>3
  <2>2. isIdentifierPart(s[k + 1])
    BY <1>2, <2>1
  <2>3. /\ f[k + 1] = Step(f[k], s[k + 1], k + 1) /\ f[k] \in LexStates
        /\ f[k + 1] \in LexStates /\ s[k + 1] \in Characters
    BY <2>1, ReadsOn
  <2>4. CASE f[k].mode = "word"
    <3>1. f[k + 1] = InCode(f[k], s[k + 1], k + 1)
      BY <2>3, <2>4 DEF Step
    <3>2. AfterCode(f[k], s[k + 1], k + 1, f[k + 1])
      BY <2>1, <2>3, <3>1, CodeStep
    <3>3. f[k + 1].mode = "word" /\ f[k + 1].hidden = f[k].hidden
      BY <2>2, <2>4, <3>2 DEF AfterCode
    <3> QED BY <1>5, <2>1, <2>4, <3>3
  <2>5. CASE f[k].mode = "tag" /\ Len(f[k].buf) \in Nat \ {0, 1} /\ ~At(s, e, "$")
    <3>1. AfterTag(f[k], s[k + 1], k + 1, f[k + 1])
      BY <2>1, <2>3, <2>5, TagStep
    <3>2. OfTag(f[k], s[k + 1])
      <4>1. \A n \in Nat \ {0, 1} : n # 1
        OBVIOUS
      <4> QED BY <2>2, <2>5, <4>1, Zenon DEF OfTag
    <3>3. /\ f[k + 1].mode = "tag" /\ f[k + 1].hidden = f[k].hidden
          /\ f[k + 1].buf = Append(f[k].buf, s[k + 1])
      BY <3>1, <3>2 DEF AfterTag
    <3>4. f[k].buf \in Seq(Characters)
      BY <2>3 DEF LexStates
    <3>5. Len(f[k + 1].buf) \in Nat \ {0, 1}
      <4>1. Len(Append(f[k].buf, s[k + 1])) = Len(f[k].buf) + 1
        BY <2>3, <3>4, AppendProperties
      <4>2. \A n \in Nat \ {0, 1} : n + 1 \in Nat \ {0, 1}
        OBVIOUS
      <4> QED BY <2>5, <3>3, <4>1, <4>2, Zenon
    <3> QED BY <1>5, <2>1, <2>5, <3>3, <3>5
  <2> QED BY <1>5, <2>4, <2>5
<1>6. e - 1 \in S
  <2> HIDE DEF S
  <2>1. b .. e - 1 \subseteq S
    BY <1>1, <1>3, <1>4, <1>5, Along
  <2> QED BY <1>1, <1>3, <2>1
<1>7. f[e - 1].hidden = h /\ f[e - 1].mode = f[b].mode
  BY <1>6
<1>8. Ready(f[e - 1], s, e)
  <2>1. CASE f[e - 1].mode = "word"
    BY <1>2, <2>1 DEF Ready
  <2>2. CASE f[e - 1].mode = "tag" /\ ~At(s, e, "$")
    <3>1. e <= Len(s) => ~isIdentifierPart(s[e]) /\ s[e] # "$"
      BY <1>2, <2>2 DEF At
    <3> QED BY <2>2, <3>1 DEF Ready
  <2> QED BY <1>6, <2>1, <2>2
<1> QED BY <1>3, <1>7, <1>8

LEMMA LineGoesOn ==
  ASSUME NEW q \in LexStates, NEW c \in Characters, NEW k \in Nat, NEW r, r = Step(q, c, k),
         q.mode = "line", c # "nl"
  PROVE  r.mode = "line" /\ r.hidden = q.hidden \cup {k}
BY LineStep

LEMMA QuoteGoesOn ==
  ASSUME NEW q \in LexStates, NEW c \in Characters, NEW k \in Nat, NEW r, r = Step(q, c, k),
         NEW quote \in {"'", "dq"}, q.mode = quote, ~r.unusual
  PROVE  /\ r.hidden = q.hidden \cup {k}
         /\ ~(c = "bs" /\ quote = "'")
         /\ c = quote => r.mode = "code"
         /\ c # quote => r.mode = quote
<1>1. q.mode \in {"'", "dq"}
  OBVIOUS
<1> QED BY <1>1, QuoteStep

LEMMA LineReads ==
  ASSUME NEW s \in Seq(Characters), NEW f, Reads(f, s), NEW b \in 1 .. Len(s),
         Ready(f[b - 1], s, b), Pair(s, b, "-", "-"),
         NEW e, e = LineEnd(s, b + 2)
  PROVE  /\ e # 0 /\ Ready(f[e - 1], s, e) /\ f[e - 1].mode = "line"
         /\ f[e - 1].hidden = f[b - 1].hidden \cup (b .. e - 1)
<1> DEFINE h == f[b - 1].hidden
           S == {k \in Nat : f[k].mode = "line" /\ f[k].hidden = h \cup (b .. k)}
<1>1. /\ b \in Nat /\ Len(s) \in Nat /\ b + 1 \in 1 .. Len(s) /\ s[b] = "-" /\ s[b + 1] = "-"
      /\ b + 2 \in 1 .. Len(s) + 1 /\ (b + 1) - 1 = b /\ b + 1 \in Nat
  BY DEF Pair, At
<1>2. /\ e \in b + 2 .. Len(s) + 1
      /\ e <= Len(s) => s[e] = "nl"
      /\ \A k \in b + 2 .. e - 1 : s[k] # "nl"
  BY <1>1, LineEndIs
<1>3. e \in Nat /\ b + 1 <= e - 1 /\ e - 1 \in Nat /\ e # 0
  BY <1>1, <1>2
<1>4. b + 1 \in S
  <2>1. AfterFirst(f[b - 1], f[b], s, b, s[b])
    BY FirstStep
  <2>2. f[b].mode = "dash" /\ f[b].hidden = h
    BY <1>1, <2>1 DEF AfterFirst
  <2>3. /\ f[b + 1] = Step(f[b], "-", b + 1) /\ f[b] \in LexStates
        /\ f[b + 1] \in LexStates /\ "-" \in Characters
    BY <1>1, ReadsOn
  <2>4. f[b + 1] = InCode(f[b], "-", b + 1)
    BY <2>2, <2>3 DEF Step
  <2>5. AfterCode(f[b], "-", b + 1, f[b + 1])
    BY <1>1, <2>3, <2>4, CodeStep
  <2>6. f[b + 1].mode = "line" /\ f[b + 1].hidden = h \cup {(b + 1) - 1, b + 1}
    BY <2>2, <2>5 DEF AfterCode
  <2>7. {(b + 1) - 1, b + 1} = b .. b + 1
    BY <1>1
  <2> QED BY <1>1, <2>6, <2>7
<1>5. ASSUME NEW k \in b + 1 .. (e - 1) - 1, k \in S
      PROVE  k + 1 \in S
  <2>1. /\ k + 1 \in 1 .. Len(s) /\ (k + 1) - 1 = k /\ k + 1 \in b + 2 .. e - 1
        /\ k + 1 \in Nat /\ k \in Nat /\ k >= b
    BY <1>1, <1>2, <1>3
  <2>2. s[k + 1] # "nl"
    BY <1>2, <2>1
  <2>3. /\ f[k + 1] = Step(f[k], s[k + 1], k + 1) /\ f[k] \in LexStates
        /\ s[k + 1] \in Characters
    BY <2>1, ReadsOn
  <2>4. f[k + 1].mode = "line" /\ f[k + 1].hidden = f[k].hidden \cup {k + 1}
    <3>1. f[k].mode = "line" /\ s[k + 1] # "nl"
      BY <1>5, <2>2
    <3>2. k + 1 \in Nat
      BY <2>1
    <3>3. f[k] \in LexStates
      BY <2>3
    <3>4. s[k + 1] \in Characters
      BY <2>3
    <3>5. f[k + 1] = Step(f[k], s[k + 1], k + 1)
      BY <2>3
    <3>6. f[k + 1].mode = "line"
      BY <3>1, <3>2, <3>3, <3>4, <3>5, LineGoesOn
    <3>7. f[k + 1].hidden = f[k].hidden \cup {k + 1}
      BY <3>1, <3>2, <3>3, <3>4, <3>5, LineGoesOn
    <3> QED BY <3>6, <3>7
  <2>5. (b .. k) \cup {k + 1} = b .. k + 1
    BY <1>1, <2>1
  <2> QED BY <1>5, <2>1, <2>4, <2>5
<1>6. e - 1 \in S
  <2> HIDE DEF S
  <2>1. b + 1 .. e - 1 \subseteq S
    <3>1. b + 1 \in Nat /\ e - 1 \in Nat
      BY <1>1, <1>3
    <3> QED BY <1>4, <1>5, <3>1, Along, Zenon
  <2> QED BY <1>1, <1>3, <2>1
<1>7. Ready(f[e - 1], s, e)
  BY <1>2, <1>6 DEF Ready
<1> QED BY <1>3, <1>6, <1>7

\* Over a quote or a comment, whose mode is the given one.
Passes(f, s, b, e, mode) ==
  /\ e = 0 => f[Len(s)].mode = mode
  /\ e # 0 => /\ f[e - 1].mode = "code"
              /\ f[e - 1].hidden = f[b - 1].hidden \cup (b .. e - 1)

LEMMA QuoteReads ==
  ASSUME NEW s \in Seq(Characters), NEW f, Reads(f, s), NEW b \in 1 .. Len(s),
         Ready(f[b - 1], s, b), NEW quote \in {"'", "dq"}, s[b] = quote,
         NEW e, e = skipQuoted(s, b, quote)
  PROVE  Passes(f, s, b, e, quote)
<1>1. PICK skip : /\ \A start \in Nat : skipQuoted(s, start, quote) = skip[start + 1]
                  /\ \A j \in Nat : skip[j] = QuotedTurn(skip, s, quote, j)
  BY SkipQuotedRuns
<1> DEFINE size == Len(s)
           h == f[b - 1].hidden
           Inside(j) == f[j - 1].mode = quote /\ f[j - 1].hidden = h \cup (b .. j - 1)
           Ends(z) == /\ z = 0 => f[size].mode = quote
                      /\ z # 0 => f[z - 1].mode = "code" /\ f[z - 1].hidden = h \cup (b .. z - 1)
           wrong == {j \in 0 .. size + 1 : j >= b + 1 /\ Inside(j) /\ ~Ends(skip[j])}
<1>2. b \in Nat /\ size \in Nat /\ b <= size /\ b + 1 \in Nat /\ (b + 1) - 1 = b
  OBVIOUS
<1>3. ASSUME NEW j \in wrong
      PROVE  \E m \in wrong : m > j
  <2>1. j \in Nat /\ j >= b + 1 /\ j <= size + 1 /\ Inside(j) /\ ~Ends(skip[j])
    BY <1>2
  <2>2. skip[j] = QuotedTurn(skip, s, quote, j)
    BY <1>1, <2>1
  <2>3. j <= size
    <3> SUFFICES ASSUME j = size + 1 PROVE FALSE
      BY <1>2, <2>1
    <3>1. skip[j] = 0 /\ j - 1 = size
      BY <1>2, <2>2 DEF QuotedTurn
    <3> QED BY <2>1, <3>1
  <2>4. /\ j \in 1 .. size /\ j + 1 \in Nat /\ (j + 1) - 1 = j /\ j + 2 \in Nat
        /\ (j + 2) - 1 = j + 1 /\ j >= b
    BY <1>2, <2>1, <2>3
  <2>5. /\ f[j] = Step(f[j - 1], s[j], j) /\ f[j - 1] \in LexStates /\ ~f[j].unusual
        /\ f[j] \in LexStates /\ s[j] \in Characters
    BY <2>4, ReadsOn
  <2>6. /\ f[j].hidden = f[j - 1].hidden \cup {j}
        /\ ~(s[j] = "bs" /\ quote = "'")
        /\ s[j] = quote => f[j].mode = "code"
        /\ s[j] # quote => f[j].mode = quote
    <3>1. f[j - 1].mode = quote /\ j \in Nat
      BY <2>1, <2>4
    <3> HIDE DEF wrong
    <3> QED BY <2>5, <3>1, QuoteGoesOn
  <2>7. f[j].hidden = h \cup (b .. j)
    <3>1. (b .. j - 1) \cup {j} = b .. j
      BY <1>2, <2>4
    <3> QED BY <2>1, <2>6, <3>1
  <2>8. CASE s[j] # quote
    <3>1. skip[j] = skip[j + 1]
      BY <2>2, <2>3, <2>6, <2>8 DEF QuotedTurn
    <3>2. Inside(j + 1)
      BY <2>4, <2>6, <2>7, <2>8
    <3>3. j + 1 \in 0 .. size + 1 /\ j + 1 >= b + 1 /\ j + 1 > j
      BY <1>2, <2>4
    <3> QED BY <2>1, <3>1, <3>2, <3>3
  <2>9. CASE s[j] = quote /\ At(s, j + 1, quote)
    <3>1. skip[j] = skip[j + 2]
      BY <2>2, <2>3, <2>6, <2>9 DEF QuotedTurn
    <3>2. j + 1 \in 1 .. size /\ s[j + 1] = quote
      BY <1>2, <2>4, <2>9 DEF At
    <3>3. /\ f[j + 1] = Step(f[j], quote, j + 1) /\ quote \in Characters
          /\ f[j + 1] \in LexStates
      BY <2>4, <3>2, ReadsOn
    <3>4. f[j + 1] = InCode(f[j], quote, j + 1)
      BY <2>6, <2>9, <3>3 DEF Step
    <3>5. AfterCode(f[j], quote, j + 1, f[j + 1])
      BY <2>4, <2>5, <3>3, <3>4, CodeStep
    <3>6. f[j + 1].mode = quote /\ f[j + 1].hidden = f[j].hidden \cup {j + 1}
      BY <3>5 DEF AfterCode
    <3>7. (b .. j) \cup {j + 1} = b .. j + 1
      <4>1. b \in Nat /\ j \in Nat /\ j >= b
        BY <1>2, <2>4
      <4> QED BY <4>1, RangeGrows
    <3>8. Inside(j + 2)
      BY <2>4, <2>7, <3>6, <3>7
    <3>9. j + 2 \in 0 .. size + 1 /\ j + 2 >= b + 1 /\ j + 2 > j
      BY <1>2, <2>4, <3>2
    <3> QED BY <2>1, <3>1, <3>8, <3>9
  <2>10. CASE s[j] = quote /\ ~At(s, j + 1, quote)
    <3>1. skip[j] = j + 1
      BY <2>2, <2>3, <2>6, <2>10 DEF QuotedTurn
    <3>2. Ends(j + 1)
      BY <2>4, <2>6, <2>7, <2>10
    <3> QED BY <2>1, <3>1, <3>2
  <2> QED BY <2>8, <2>9, <2>10
<1>4. wrong = {}
  <2>1. wrong \subseteq 0 .. size + 1 /\ size + 1 \in Nat
    BY <1>2
  <2> HIDE DEF wrong
  <2> QED BY <1>3, <2>1, Downwards, Zenon
<1>5. Inside(b + 1)
  <2>1. AfterFirst(f[b - 1], f[b], s, b, s[b])
    BY FirstStep
  <2>2. f[b].mode = quote /\ f[b].hidden = h \cup {b}
    BY <2>1 DEF AfterFirst
  <2>3. {b} = b .. b
    BY <1>2
  <2> QED BY <1>2, <2>2, <2>3
<1>6. Ends(skip[b + 1])
  <2>1. b + 1 \in 0 .. size + 1
    BY <1>2
  <2> QED BY <1>2, <1>4, <1>5, <2>1
<1>7. e = skip[b + 1]
  BY <1>1, <1>2
<1> QED BY <1>6, <1>7 DEF Passes
LEMMA HalfPairs ==
  ASSUME NEW c, NEW d
  PROVE  (<<c>> = <<d>> <=> c = d) /\ <<>> # <<d>>
OBVIOUS

\* buf and the character c behind it neither open nor close a comment.
NoPair(buf, c) == ~(buf = <<"/">> /\ c = "*") /\ ~(buf = <<"*">> /\ c = "/")

LEMMA BlockReads ==
  ASSUME NEW s \in Seq(Characters), NEW f, Reads(f, s), NEW b \in 1 .. Len(s),
         Ready(f[b - 1], s, b), Pair(s, b, "/", "*"),
         NEW e, e = skipBlockComment(s, b)
  PROVE  Passes(f, s, b, e, "block")
<1>1. PICK skip : /\ \A start \in Nat : skipBlockComment(s, start) = skip[<<start + 2, 1>>]
                  /\ \A k \in Nat, d \in Nat \ {0} : skip[<<k, d>>] = CommentTurn(skip, s, k, d)
  BY SkipBlockCommentRuns
<1> DEFINE size == Len(s)
           h == f[b - 1].hidden
           Inside(k, d) == /\ f[k - 1].mode = "block" /\ f[k - 1].depth = d
                           /\ f[k - 1].hidden = h \cup (b .. k - 1)
                           /\ k <= size => NoPair(f[k - 1].buf, s[k])
           Ends(z) == /\ z = 0 => f[size].mode = "block"
                      /\ z # 0 => f[z - 1].mode = "code" /\ f[z - 1].hidden = h \cup (b .. z - 1)
           Wrong(k) == \E d \in Nat \ {0} : Inside(k, d) /\ ~Ends(skip[<<k, d>>])
           wrong == {k \in 0 .. size + 1 : k >= b + 2 /\ Wrong(k)}
<1>2. b \in Nat /\ size \in Nat /\ b + 1 \in 1 .. size /\ s[b] = "/" /\ s[b + 1] = "*"
  BY DEF Pair, At
<1>3. ASSUME NEW k \in Nat, k >= b + 2, k <= size + 1,
             NEW d \in Nat \ {0}, Inside(k, d), ~Ends(skip[<<k, d>>])
      PROVE  \E m \in Nat : m <= size + 1 /\ m > k /\ Wrong(m)
  <2>1. k \in Nat /\ k >= b + 2 /\ k <= size + 1
    BY <1>3
  <2>2. Inside(k, d) /\ ~Ends(skip[<<k, d>>])
    BY <1>3
  <2>3. skip[<<k, d>>] = CommentTurn(skip, s, k, d)
    BY <1>1, <2>1
  <2>4. k <= size
    <3> SUFFICES ASSUME k = size + 1 PROVE FALSE
      BY <1>2, <2>1
    <3>1. skip[<<k, d>>] = 0 /\ k - 1 = size
      BY <1>2, <2>3 DEF CommentTurn
    <3> QED BY <2>2, <3>1
  <2>5. /\ k \in 1 .. size /\ k + 1 \in Nat /\ (k + 1) - 1 = k /\ k + 2 \in Nat
        /\ (k + 2) - 1 = k + 1 /\ k >= b /\ ~(k > size)
    BY <1>2, <2>1, <2>4
  <2>6. /\ f[k] = Step(f[k - 1], s[k], k) /\ f[k - 1] \in LexStates
        /\ f[k] \in LexStates /\ s[k] \in Characters
    BY <2>5, ReadsOn
  <2>7. AfterBlock(f[k - 1], s[k], k, f[k])
    BY <2>1, <2>2, <2>6, BlockStep
  <2>8. /\ f[k].mode = "block" /\ f[k].depth = d /\ f[k].buf = <<s[k]>>
        /\ f[k].hidden = f[k - 1].hidden \cup {k}
    BY <2>2, <2>4, <2>7 DEF AfterBlock, NoPair
  <2>9. f[k].hidden = h \cup (b .. k)
    <3>1. (b .. k - 1) \cup {k} = b .. k
      BY <1>2, <2>5, RangeGrows
    <3> QED BY <2>2, <2>8, <3>1
  \* The second half of a pair.
  <2>10. ASSUME k + 1 <= size
         PROVE  /\ f[k + 1] \in LexStates /\ AfterBlock(f[k], s[k + 1], k + 1, f[k + 1])
                /\ f[k + 1].hidden = h \cup (b .. k + 1)
    <3>1. k + 1 \in 1 .. size
      BY <2>5, <2>10
    <3>2. /\ f[k + 1] = Step(f[k], s[k + 1], k + 1) /\ s[k + 1] \in Characters
          /\ f[k + 1] \in LexStates
      BY <2>5, <3>1, ReadsOn
    <3>3. AfterBlock(f[k], s[k + 1], k + 1, f[k + 1])
      BY <2>5, <2>6, <2>8, <3>2, BlockStep
    <3>4. f[k + 1].hidden = f[k].hidden \cup {k + 1}
      BY <3>3 DEF AfterBlock
    <3>5. (b .. k) \cup {k + 1} = b .. k + 1
      BY <1>2, <2>5, RangeGrows
    <3> QED BY <2>9, <3>2, <3>3, <3>4, <3>5
  <2>11. CASE Pair(s, k, "/", "*")
    <3>1. k + 1 <= size /\ s[k] = "/" /\ s[k + 1] = "*"
      BY <2>11 DEF Pair, At
    <3>2. skip[<<k, d>>] = skip[<<k + 2, d + 1>>]
      BY <2>3, <2>5, <2>11 DEF CommentTurn
    <3>3. f[k + 1].mode = "block" /\ f[k + 1].depth = d + 1 /\ f[k + 1].buf = <<>>
      BY <2>8, <2>10, <3>1 DEF AfterBlock
    <3>4. Inside(k + 2, d + 1)
      BY <2>5, <2>10, <3>1, <3>3, HalfPairs DEF NoPair
    <3>5. k + 2 \in Nat /\ k + 2 <= size + 1 /\ k + 2 > k /\ d + 1 \in Nat \ {0}
      BY <1>2, <2>1, <3>1
    <3>6. ~Ends(skip[<<k + 2, d + 1>>])
      BY <2>2, <3>2
    <3>7. Wrong(k + 2)
      BY <3>4, <3>5, <3>6
    <3> QED BY <3>5, <3>7
  <2>12. CASE Pair(s, k, "*", "/")
    <3>1. k + 1 <= size /\ s[k] = "*" /\ s[k + 1] = "/"
      BY <2>12 DEF Pair, At
    <3>2. ~Pair(s, k, "/", "*")
      BY <3>1 DEF Pair, At
    <3>3. skip[<<k, d>>] = IF d = 1 THEN k + 2 ELSE skip[<<k + 2, d - 1>>]
      BY <2>3, <2>5, <2>12, <3>2 DEF CommentTurn
    <3>4. /\ f[k + 1].mode = IF d = 1 THEN "code" ELSE "block"
          /\ f[k + 1].depth = d - 1 /\ f[k + 1].buf = <<>>
      BY <2>8, <2>10, <3>1 DEF AfterBlock
    <3>5. d # 1
      <4> SUFFICES ASSUME d = 1 PROVE FALSE
        OBVIOUS
      <4>1. Ends(k + 2)
        BY <2>5, <2>10, <3>1, <3>4
      <4> QED BY <2>2, <3>3, <4>1
    <3>6. Inside(k + 2, d - 1)
      BY <2>5, <2>10, <3>1, <3>4, <3>5, HalfPairs DEF NoPair
    <3>7. k + 2 \in Nat /\ k + 2 <= size + 1 /\ k + 2 > k /\ d - 1 \in Nat \ {0}
      BY <1>2, <2>1, <3>1, <3>5
    <3>8. ~Ends(skip[<<k + 2, d - 1>>])
      BY <2>2, <3>3, <3>5
    <3>9. Wrong(k + 2)
      BY <3>6, <3>7, <3>8
    <3> QED BY <3>7, <3>9
  <2>13. CASE ~Pair(s, k, "/", "*") /\ ~Pair(s, k, "*", "/")
    <3>1. skip[<<k, d>>] = skip[<<k + 1, d>>]
      BY <2>3, <2>5, <2>13 DEF CommentTurn
    <3>2. k + 1 <= size => NoPair(f[k].buf, s[k + 1])
      <4>1. k + 1 <= size => ~(s[k] = "/" /\ s[k + 1] = "*") /\ ~(s[k] = "*" /\ s[k + 1] = "/")
        BY <2>5, <2>13 DEF Pair, At
      <4>2. (<<s[k]>> = <<"/">> <=> s[k] = "/") /\ (<<s[k]>> = <<"*">> <=> s[k] = "*")
        BY HalfPairs, Zenon
      <4> QED BY <2>8, <4>1, <4>2 DEF NoPair
    <3>3. Inside(k + 1, d)
      BY <2>5, <2>8, <2>9, <3>2
    <3>4. k + 1 \in Nat /\ k + 1 <= size + 1 /\ k + 1 > k
      BY <1>2, <2>1, <2>4
    <3>5. Wrong(k + 1)
      BY <2>2, <3>1, <3>3
    <3> QED BY <3>4, <3>5
  <2> QED BY <2>11, <2>12, <2>13
<1>4. wrong = {}
  <2>1. ASSUME NEW k \in wrong
        PROVE  \E m \in wrong : m > k
    <3> HIDE DEF Wrong
    <3>1. k \in Nat /\ k >= b + 2 /\ k <= size + 1 /\ Wrong(k)
      BY <1>2
    <3>2. PICK d \in Nat \ {0} : Inside(k, d) /\ ~Ends(skip[<<k, d>>])
      BY <3>1 DEF Wrong
    <3> HIDE DEF Inside, Ends
    <3>3. PICK m \in Nat : m <= size + 1 /\ m > k /\ Wrong(m)
      BY <1>3, <3>1, <3>2
    <3>4. m \in 0 .. size + 1 /\ m >= b + 2
      BY <1>2, <3>1, <3>3
    <3> QED BY <3>3, <3>4
  <2>2. wrong \subseteq 0 .. size + 1 /\ size + 1 \in Nat
    BY <1>2
  <2> HIDE DEF wrong
  <2> QED BY <2>1, <2>2, Downwards, Zenon
<1>5. Inside(b + 2, 1)
  <2>1. AfterFirst(f[b - 1], f[b], s, b, s[b])
    BY FirstStep
  <2>2. f[b].mode = "slash" /\ f[b].hidden = h
    BY <1>2, <2>1 DEF AfterFirst
  <2>3. /\ (b + 1) - 1 = b /\ (b + 2) - 1 = b + 1 /\ b + 1 \in Nat
        /\ {(b + 1) - 1, b + 1} = b .. b + 1
    BY <1>2
  <2>4. /\ f[b + 1] = Step(f[b], "*", b + 1) /\ f[b] \in LexStates
        /\ f[b + 1] \in LexStates /\ "*" \in Characters
    BY <1>2, <2>3, ReadsOn
  <2>5. f[b + 1] = InCode(f[b], "*", b + 1)
    BY <2>2, <2>4 DEF Step
  <2>6. AfterCode(f[b], "*", b + 1, f[b + 1])
    BY <2>3, <2>4, <2>5, CodeStep
  <2>7. /\ f[b + 1].mode = "block" /\ f[b + 1].depth = 1 /\ f[b + 1].buf = <<>>
        /\ f[b + 1].hidden = f[b].hidden \cup {(b + 1) - 1, b + 1}
    BY <2>2, <2>6 DEF AfterCode
  <2> QED BY <2>2, <2>3, <2>7, HalfPairs DEF NoPair
<1>6. Ends(skip[<<b + 2, 1>>])
  <2>1. b + 2 \in 0 .. size + 1 /\ b + 2 >= b + 2 /\ 1 \in Nat \ {0}
    BY <1>2
  <2> HIDE DEF Wrong
  <2>2. ~Wrong(b + 2)
    BY <1>4, <2>1
  <2> HIDE DEF Inside, Ends
  <2> QED BY <1>5, <2>1, <2>2, Zenon DEF Wrong
<1>7. e = skip[<<b + 2, 1>>]
  BY <1>1, <1>2
<1> QED BY <1>6, <1>7 DEF Passes
\* A delimiter: the word in it starts with no digit and ends at the second
\* dollar sign.
IsDelimiter(s, b, d, z) ==
  /\ z \in b + 1 .. Len(s) /\ z \in Nat /\ Len(d) = z - b + 1 /\ Len(d) \in Nat
  /\ d \in Seq(Characters)
  /\ s[b] = "$" /\ s[z] = "$" /\ d = SubSeq(s, b, z)
  /\ \A k \in b + 1 .. z - 1 : isIdentifierPart(s[k])
  /\ s[b + 1] # "1"

LEMMA DelimiterWord ==
  ASSUME NEW s \in Seq(Characters), NEW b \in 1 .. Len(s), NEW d, d = DelimiterAt(s, b),
         d # <<>>, NEW z, z = b + Len(d) - 1
  PROVE  IsDelimiter(s, b, d, z)
<1> DEFINE e == WordEnd(s, b + 1)
<1>1. /\ b \in Nat /\ Len(s) \in Nat /\ b + 1 \in 1 .. Len(s) + 1
      /\ s[b] = "$" /\ d = dollarQuoteDelimiter(s, b)
  BY DelimiterAtIs
<1>2. At(s, e, "$") /\ ~At(s, b + 1, "1") /\ d = SubSeq(s, b, e)
  BY <1>1 DEF dollarQuoteDelimiter
<1>3. e \in b + 1 .. Len(s) + 1 /\ \A k \in b + 1 .. e - 1 : isIdentifierPart(s[k])
  BY <1>1, WordEndIs
<1> HIDE DEF e
<1>4. e \in Nat /\ e <= Len(s) /\ s[e] = "$" /\ b + 1 <= Len(s)
  BY <1>1, <1>2, <1>3 DEF At
<1>5. Len(d) = e - b + 1 /\ d \in Seq(Characters)
  <2>1. \A k \in b .. e : s[k] \in Characters
    <3>1. \A k \in b .. e : k \in 1 .. Len(s)
      BY <1>1, <1>4
    <3> QED BY <3>1
  <2>2. b \in Int /\ e \in Int /\ b <= e
    BY <1>1, <1>3, <1>4
  <2>3. Len(d) = (IF b <= e THEN e - b + 1 ELSE 0) /\ d \in Seq(Characters)
    BY <1>2, <2>1, <2>2, SubSeqProperties, Zenon
  <2> QED BY <2>2, <2>3
<1>6. z = e
  BY <1>1, <1>4, <1>5
<1>7. s[b + 1] # "1"
  BY <1>2, <1>4 DEF At
<1> QED BY <1>1, <1>2, <1>3, <1>4, <1>5, <1>6, <1>7 DEF IsDelimiter

\* One more character of a part of a text.
LEMMA PartGrows ==
  ASSUME NEW s \in Seq(Characters), NEW a \in Nat \ {0}, NEW n \in Nat, a <= n + 1, n + 1 <= Len(s)
  PROVE  /\ SubSeq(s, a, n) \in Seq(Characters) /\ Len(SubSeq(s, a, n)) = n - a + 1
         /\ SubSeq(s, a, n + 1) = Append(SubSeq(s, a, n), s[n + 1])
<1>1. a \in 1 .. Len(s) /\ n + 1 \in a .. Len(s) /\ (n + 1) - 1 = n /\ Len(s) \in Nat
  OBVIOUS
<1> DEFINE u == SubSeq(s, a, n)
           c == s[n + 1]
<1>2. u \in Seq(Characters) /\ Len(u) = n - a + 1
  <2>1. \A k \in a .. n : s[k] \in Characters
    BY <1>1
  <2>2. u \in Seq(Characters) /\ Len(u) = IF a <= n THEN n - a + 1 ELSE 0
    BY <2>1, SubSeqProperties
  <2> QED BY <1>1, <2>2
<1>3. SubSeq(s, a, n + 1) = u \o <<c>>
  <2>1. SubSeq(s, a, n + 1) = SubSeq(s, a, (n + 1) - 1) \o <<s[n + 1]>>
    BY <1>1, SubSeqRecursiveSecond, Zenon
  <2> QED BY <1>1, <2>1
<1>4. c \in Characters
  BY <1>1
<1> HIDE DEF u, c
<1>5. Append(u, c) = u \o <<c>>
  BY <1>2, <1>4, AppendIsConcat, Zenon
<1> QED BY <1>2, <1>3, <1>5 DEF u, c

LEMMA PartOfPart ==
  ASSUME NEW s \in Seq(Characters), NEW a \in 1 .. Len(s), NEW n \in 1 .. Len(s),
         NEW x \in 1 .. n - a + 1, NEW y \in 1 .. n - a + 1
  PROVE  SubSeq(SubSeq(s, a, n), x, y) = SubSeq(s, a + x - 1, a + y - 1)
BY SubSeqOfSubSeq

\* The text since place a, up to place n, closes a dollar quote if and only if
\* the delimiter ends at n.
LEMMA ClosesIs ==
  ASSUME NEW s \in Seq(Characters), NEW a \in Nat \ {0}, NEW n \in Nat, a <= n, n <= Len(s),
         NEW d \in Seq(Characters), Len(d) # 0
  PROVE  Closes(SubSeq(s, a, n), d) <=>
           n - Len(d) + 1 >= a /\ SubSeq(s, n - Len(d) + 1, n) = d
<1> DEFINE u == SubSeq(s, a, n)
           size == Len(d)
<1>1. size \in Nat /\ size # 0 /\ Len(s) \in Nat
  OBVIOUS
<1>2. Len(u) = n - a + 1
  <2>1. \A k \in a .. n : s[k] \in Characters
    OBVIOUS
  <2> QED BY <2>1, SubSeqProperties
<1>3. Closes(u, d) <=> n - a + 1 >= size /\ SubSeq(u, n - a + 1 - size + 1, n - a + 1) = d
  <2> HIDE DEF u
  <2>1. Closes(u, d) <=> Len(u) >= size /\ SubSeq(u, Len(u) - size + 1, Len(u)) = d
    BY Zenon DEF Closes
  <2> DEFINE l == n - a + 1
  <2>2. Len(u) = l
    BY <1>2
  <2> HIDE DEF l
  <2>3. Closes(u, d) <=> l >= size /\ SubSeq(u, l - size + 1, l) = d
    BY <2>1, <2>2, Zenon
  <2> QED BY <2>3 DEF l
<1> HIDE DEF size
<1>4. n - a + 1 >= size <=> n - size + 1 >= a
  BY <1>1
<1>5. ASSUME n - a + 1 >= size
      PROVE  SubSeq(u, n - a + 1 - size + 1, n - a + 1) = SubSeq(s, n - size + 1, n)
  <2> DEFINE x == n - a + 1 - size + 1
             y == n - a + 1
  <2>1. /\ a \in 1 .. Len(s) /\ n \in 1 .. Len(s) /\ x \in 1 .. n - a + 1
        /\ y \in 1 .. n - a + 1 /\ a + x - 1 = n - size + 1 /\ a + y - 1 = n
    BY <1>1, <1>5
  <2> HIDE DEF x, y
  <2>2. SubSeq(SubSeq(s, a, n), x, y) = SubSeq(s, a + x - 1, a + y - 1)
    BY <2>1, PartOfPart
  <2> QED BY <2>1, <2>2 DEF x, y
<1> QED BY <1>3, <1>4, <1>5 DEF size

\* Over the delimiter that opens a quote.
Opened(q, d, hidden) ==
  q.mode = "body" /\ q.tag = d /\ q.buf = <<>> /\ q.hidden = hidden

LEMMA TagReads ==
  ASSUME NEW s \in Seq(Characters), NEW f, Reads(f, s), NEW b \in 1 .. Len(s),
         Ready(f[b - 1], s, b), NEW d, d = DelimiterAt(s, b), d # <<>>,
         NEW z, z = b + Len(d) - 1
  PROVE  Opened(f[z], d, f[b - 1].hidden \cup (b .. z))
<1> DEFINE h == f[b - 1].hidden
           S == {k \in Nat : /\ f[k].mode = "tag" /\ f[k].hidden = h
                             /\ f[k].buf = SubSeq(s, b, k)}
<1>1. /\ b \in Nat /\ Len(s) \in Nat /\ b >= 1 /\ z \in b + 1 .. Len(s) /\ z \in Nat
      /\ s[b] = "$" /\ s[z] = "$" /\ d = SubSeq(s, b, z)
      /\ \A k \in b + 1 .. z - 1 : isIdentifierPart(s[k])
      /\ s[b + 1] # "1"
  <2>1. b \in Nat /\ Len(s) \in Nat /\ b >= 1
    OBVIOUS
  <2>2. IsDelimiter(s, b, d, z)
    BY DelimiterWord
  <2> QED BY <2>1, <2>2 DEF IsDelimiter
<1>2. b \in S
  <2>1. AfterFirst(f[b - 1], f[b], s, b, s[b])
    BY FirstStep
  <2>2. f[b].mode = "tag" /\ f[b].hidden = h /\ f[b].buf = <<"$">>
    BY <1>1, <2>1 DEF AfterFirst
  <2>3. SubSeq(s, b, b) = <<s[b]>>
    <3>1. b \in 1 .. Len(s) /\ b \in b .. Len(s) /\ b \in Int /\ b - 1 \in Int /\ b - 1 < b
      BY <1>1
    <3>2. SubSeq(s, b, b) = SubSeq(s, b, b - 1) \o <<s[b]>>
      BY <3>1, SubSeqRecursiveSecond, Zenon
    <3>3. SubSeq(s, b, b - 1) = <<>>
      BY <3>1, SubSeqEmpty, Zenon
    <3>4. <<s[b]>> \in Seq(Characters)
      BY <3>1, OneElement
    <3>5. <<>> \o <<s[b]>> = <<s[b]>>
      BY <3>4, ConcatEmptySeq, Zenon
    <3> QED BY <3>2, <3>3, <3>5, Zenon
  <2> QED BY <1>1, <2>2, <2>3
<1>3. ASSUME NEW k \in b .. (z - 1) - 1, k \in S
      PROVE  k + 1 \in S
  <2> DEFINE buf == SubSeq(s, b, k)
             c == s[k + 1]
             n == Len(buf)
  <2>1. /\ k + 1 \in 1 .. Len(s) /\ (k + 1) - 1 = k /\ k + 1 \in b + 1 .. z - 1
        /\ k + 1 \in Nat /\ k \in Nat /\ k >= b /\ k + 1 <= Len(s) /\ b <= k + 1
        /\ b \in Nat \ {0}
    BY <1>1
  <2>2. buf \in Seq(Characters) /\ n = k - b + 1 /\ SubSeq(s, b, k + 1) = Append(buf, c)
    BY <2>1, PartGrows
  <2>3. f[k + 1] = Step(f[k], c, k + 1)
    BY <2>1, ReadsOn
  <2>4. f[k] \in LexStates
    BY <2>1, ReadsOn
  <2>5. c \in Characters
    BY <2>1, ReadsOn
  <2>6. f[k].mode = "tag" /\ f[k].hidden = h /\ f[k].buf = buf
    BY <1>3
  <2>7. AfterTag(f[k], c, k + 1, f[k + 1])
    BY <2>1, <2>3, <2>4, <2>5, <2>6, TagStep
  <2>8. isIdentifierPart(c)
    BY <1>1, <2>1
  <2>9. n = 1 => c # "1"
    <3> HIDE DEF n
    <3>1. n = 1 => k = b
      BY <1>1, <2>1, <2>2
    <3> QED BY <1>1, <3>1
  <2> HIDE DEF buf, c
  <2>10. OfTag(f[k], c)
    BY <2>6, <2>8, <2>9, Zenon DEF OfTag
  <2>11. f[k + 1].mode = "tag" /\ f[k + 1].hidden = h /\ f[k + 1].buf = Append(buf, c)
    BY <2>6, <2>7, <2>10 DEF AfterTag
  <2> QED BY <2>1, <2>2, <2>11
<1>4. z - 1 \in S
  <2> HIDE DEF S
  <2>1. z - 1 \in Nat /\ z - 1 >= b /\ b \in Nat
    BY <1>1
  <2> DEFINE e == z - 1
  <2>2. e \in Nat /\ b \in Nat /\ b \in S
    BY <1>2, <2>1
  <2>3. \A k \in b .. e - 1 : k \in S => k + 1 \in S
    BY <1>3
  <2> HIDE DEF e
  <2>4. b .. e \subseteq S
    BY <2>2, <2>3, Along
  <2>5. e \in b .. e
    BY <1>1, <2>1 DEF e
  <2> QED BY <2>4, <2>5 DEF e
<1>5. /\ z - 1 \in Nat /\ (z - 1) + 1 = z /\ z \in 1 .. Len(s) /\ b \in Nat \ {0}
      /\ b <= (z - 1) + 1 /\ (z - 1) + 1 <= Len(s)
  BY <1>1
<1> DEFINE buf == SubSeq(s, b, z - 1)
           n == Len(buf)
<1>6. buf \in Seq(Characters) /\ n = (z - 1) - b + 1 /\ d = Append(buf, "$")
  <2>1. /\ buf \in Seq(Characters) /\ n = (z - 1) - b + 1
        /\ SubSeq(s, b, (z - 1) + 1) = Append(buf, s[(z - 1) + 1])
    BY <1>5, PartGrows
  <2> QED BY <1>1, <1>5, <2>1
<1>7. f[z - 1].mode = "tag" /\ f[z - 1].hidden = h /\ f[z - 1].buf = buf
  BY <1>4
<1>8. AfterTag(f[z - 1], "$", z, f[z])
  <2>1. f[z] = Step(f[z - 1], "$", z)
    BY <1>1, <1>5, ReadsOn
  <2>2. f[z - 1] \in LexStates
    BY <1>5, ReadsOn
  <2>3. "$" \in Characters
    BY DEF Characters
  <2> QED BY <1>1, <1>7, <2>1, <2>2, <2>3, TagStep
<1>9. (z - n) = b
  <2> HIDE DEF n
  <2> QED BY <1>1, <1>6
<1> HIDE DEF buf
<1>10. /\ f[z].mode = "body" /\ f[z].tag = Append(buf, "$") /\ f[z].buf = <<>>
       /\ f[z].hidden = h \cup (z - n .. z)
  BY <1>7, <1>8, Zenon DEF AfterTag
<1> QED BY <1>6, <1>9, <1>10, Zenon DEF Opened
LEMMA DollarReads ==
  ASSUME NEW s \in Seq(Characters), NEW f, Reads(f, s), NEW b \in 1 .. Len(s),
         Ready(f[b - 1], s, b), NEW d, d = DelimiterAt(s, b), d # <<>>,
         NEW e, e = Closing(s, b + Len(d), d)
  PROVE  Passes(f, s, b, e, "body")
<1> DEFINE size == Len(s)
           n == Len(d)
           h == f[b - 1].hidden
           found == {j \in b + n .. size - n + 1 : SubSeq(s, j, j + n - 1) = d}
           S == {k \in Nat : /\ f[k].mode = "body" /\ f[k].tag = d
                             /\ f[k].hidden = h \cup (b .. k)
                             /\ f[k].buf = SubSeq(s, b + n, k)}
<1>1. b \in Nat /\ size \in Nat /\ b \in 1 .. size
  OBVIOUS
<1>2. PICK z : z = b + n - 1
  OBVIOUS
<1>3. IsDelimiter(s, b, d, z)
  BY <1>2, DelimiterWord
<1>4. /\ z \in Nat /\ z >= b + 1 /\ z <= size /\ n \in Nat /\ n = z - b + 1
      /\ b + n = z + 1 /\ n >= 2
  BY <1>1, <1>3 DEF IsDelimiter
<1>10. d \in Seq(Characters) /\ Len(d) # 0
  BY <1>3, <1>4 DEF IsDelimiter
<1>5. e = IF found = {} THEN 0 ELSE First(found) + n
  BY DEF Closing
<1> HIDE DEF n, found, S, size
\* Where the body goes on, and where it ends.
<1>6. ASSUME NEW k \in Nat, k >= z, k + 1 <= size, k \in S
      PROVE  /\ (k + 1) - n + 1 \in found => f[k + 1].mode = "code"
             /\ (k + 1) - n + 1 \notin found => k + 1 \in S
             /\ f[k + 1].hidden = h \cup (b .. k + 1)
  <2> DEFINE buf == SubSeq(s, z + 1, k)
             c == s[k + 1]
  <2>1. /\ k + 1 \in 1 .. size /\ (k + 1) - 1 = k /\ k + 1 \in Nat /\ k >= b
        /\ z + 1 \in Nat \ {0} /\ z + 1 <= k + 1
    BY <1>1, <1>4, <1>6
  <2>15. k + 1 <= Len(s)
    BY <1>6 DEF size
  <2>2. SubSeq(s, z + 1, k + 1) = Append(buf, c)
    BY <2>1, <2>15, PartGrows
  <2>3. /\ f[k].mode = "body" /\ f[k].tag = d /\ f[k].hidden = h \cup (b .. k)
        /\ f[k].buf = buf
    BY <1>4, <1>6 DEF S
  <2>4. f[k + 1] = Step(f[k], c, k + 1)
    BY <2>1, ReadsOn DEF size
  <2>5. f[k] \in LexStates
    BY <2>1, ReadsOn DEF size
  <2>6. c \in Characters
    BY <2>1, ReadsOn DEF size
  <2>7. AfterBody(f[k], c, k + 1, f[k + 1])
    BY <2>1, <2>3, <2>4, <2>5, <2>6, BodyStep
  <2>8. Closes(Append(buf, c), d) <=> (k + 1) - n + 1 \in found
    <3>1. Closes(SubSeq(s, z + 1, k + 1), d) <=>
            (k + 1) - Len(d) + 1 >= z + 1 /\ SubSeq(s, (k + 1) - Len(d) + 1, k + 1) = d
      BY <1>10, <2>1, <2>15, ClosesIs, ZenonT(30)
    <3> DEFINE j == (k + 1) - n + 1
    <3>2. Closes(SubSeq(s, z + 1, k + 1), d) <=> j >= z + 1 /\ SubSeq(s, j, k + 1) = d
      BY <3>1 DEF n
    <3>3. j + n - 1 = k + 1 /\ j \in Int /\ (j >= z + 1 => j \in b + n .. size - n + 1)
      BY <1>1, <1>4, <1>6
    <3>4. j \in b + n .. size - n + 1 => j >= z + 1
      BY <1>1, <1>4
    <3> HIDE DEF j
    <3>5. j \in found <=> j >= z + 1 /\ SubSeq(s, j, k + 1) = d
      BY <3>3, <3>4 DEF found
    <3>6. Closes(SubSeq(s, z + 1, k + 1), d) <=> j \in found
      BY <3>2, <3>5
    <3> QED BY <2>2, <3>6 DEF j
  <2> HIDE DEF buf, c
  <2>9. f[k + 1].hidden = h \cup (b .. k + 1)
    <3>1. (b .. k) \cup {k + 1} = b .. k + 1
      BY <1>1, <1>6, <2>1, RangeGrows
    <3> QED BY <2>3, <2>7, <3>1 DEF AfterBody
  <2>10. f[k + 1].tag = d
    BY <2>3, <2>7 DEF AfterBody
  <2>11. ASSUME (k + 1) - n + 1 \in found
         PROVE  f[k + 1].mode = "code"
    BY <2>3, <2>7, <2>8, <2>11, Zenon DEF AfterBody
  <2>12. ASSUME (k + 1) - n + 1 \notin found
         PROVE  f[k + 1].mode = "body" /\ f[k + 1].buf = Append(buf, c)
    BY <2>3, <2>7, <2>8, <2>12, Zenon DEF AfterBody
  <2>13. ASSUME (k + 1) - n + 1 \notin found
         PROVE  k + 1 \in S
    BY <1>4, <2>1, <2>2, <2>9, <2>10, <2>12, <2>13 DEF S
  <2> QED BY <2>9, <2>11, <2>13
<1>7. z \in S
  <2>1. Opened(f[z], d, h \cup (b .. z))
    <3>1. z = b + Len(d) - 1
      BY <1>2 DEF n
    <3> QED BY <3>1, TagReads
  <2>2. SubSeq(s, b + n, z) = <<>>
    <3>1. b + n \in Int /\ z \in Int /\ z < b + n
      BY <1>1, <1>4
    <3> QED BY <3>1, SubSeqEmpty, Zenon
  <2> QED BY <1>4, <2>1, <2>2 DEF S, Opened
<1>8. CASE found = {}
  <2>1. \A k \in z .. size - 1 : k \in S => k + 1 \in S
    <3> SUFFICES ASSUME NEW k \in z .. size - 1, k \in S PROVE k + 1 \in S
      OBVIOUS
    <3>1. k \in Nat /\ k >= z /\ k + 1 <= size
      BY <1>1, <1>4
    <3>2. (k + 1) - n + 1 \notin found
      BY <1>8
    <3> QED BY <1>6, <3>1, <3>2
  <2>2. z .. size \subseteq S
    BY <1>1, <1>4, <1>7, <2>1, Along
  <2>3. size \in S
    BY <1>1, <1>4, <2>2
  <2> QED BY <1>5, <1>8, <2>3 DEF S, size, Passes
<1>9. CASE found # {}
  <2>0. found \subseteq Nat /\ \A j \in found : j >= z + 1 /\ j <= size - n + 1
    BY <1>1, <1>4 DEF found
  <2> DEFINE m == First(found)
  <2>1. m \in found /\ \A j \in found : m <= j
    BY <1>9, <2>0, FirstExists
  <2>2. e = m + n
    BY <1>5, <1>9
  <2> HIDE DEF m
  <2>3. m \in Nat /\ m >= z + 1 /\ m <= size - n + 1
    BY <2>0, <2>1
  <2> DEFINE last == m + n - 2
  <2>4. last \in Nat /\ last >= z /\ last + 1 <= size /\ (last + 1) - n + 1 = m /\ e - 1 = last + 1
        /\ e # 0
    BY <1>1, <1>4, <2>2, <2>3
  <2>5. \A k \in z .. last - 1 : k \in S => k + 1 \in S
    <3> SUFFICES ASSUME NEW k \in z .. last - 1, k \in S PROVE k + 1 \in S
      OBVIOUS
    <3>1. k \in Nat /\ k >= z /\ k + 1 <= size /\ (k + 1) - n + 1 < m
      BY <1>1, <1>4, <2>3, <2>4
    <3>2. (k + 1) - n + 1 \notin found
      BY <1>4, <2>1, <2>3, <3>1
    <3> QED BY <1>6, <3>1, <3>2
  <2> HIDE DEF last
  <2>6. z .. last \subseteq S
    BY <1>4, <1>7, <2>4, <2>5, Along
  <2>7. last \in S
    BY <1>4, <2>4, <2>6
  <2>8. f[last + 1].mode = "code" /\ f[last + 1].hidden = h \cup (b .. last + 1)
    BY <1>6, <2>1, <2>4, <2>7
  <2> QED BY <2>4, <2>8 DEF Passes
<1> QED BY <1>8, <1>9

\* Every turn of inspectStatement is one of PostgreSQL's reading, too.
LEMMA TurnReads ==
  ASSUME NEW s \in Seq(Characters), NEW f, Reads(f, s), NEW b \in 1 .. Len(s),
         Ready(f[b - 1], s, b), NEW e, e = TurnEnd(s, b)
  PROVE  ReadsTurn(f, s, b, e)
<1>1. ASSUME Covers(s, b), NEW mode \in Unfinished, Passes(f, s, b, e, mode)
      PROVE  ReadsTurn(f, s, b, e)
  BY <1>1 DEF ReadsTurn, Ready, Passes
<1>2. CASE Pair(s, b, "-", "-")
  <2>1. e = LineEnd(s, b + 2) /\ Covers(s, b)
    BY <1>2 DEF TurnEnd, Covers
  <2> QED BY <1>2, <2>1, LineReads DEF ReadsTurn
<1>3. CASE Pair(s, b, "/", "*")
  <2>1. ~Pair(s, b, "-", "-")
    BY <1>3 DEF Pair, At
  <2>2. e = skipBlockComment(s, b) /\ Covers(s, b)
    BY <1>3, <2>1 DEF TurnEnd, Covers
  <2>3. "block" \in Unfinished
    BY DEF Unfinished
  <2> QED BY <1>1, <1>3, <2>2, <2>3, BlockReads
<1>4. CASE s[b] \in {"'", "dq"}
  <2>1. ~Pair(s, b, "-", "-") /\ ~Pair(s, b, "/", "*")
    BY <1>4 DEF Pair, At
  <2>2. PICK quote : quote = s[b]
    OBVIOUS
  <2>3. e = skipQuoted(s, b, quote) /\ Covers(s, b)
    BY <1>4, <2>1, <2>2 DEF TurnEnd, Covers
  <2>4. quote \in {"'", "dq"} /\ quote \in Unfinished
    BY <1>4, <2>2 DEF Unfinished
  <2> QED BY <1>1, <2>2, <2>3, <2>4, QuoteReads
<1>5. CASE DelimiterAt(s, b) # <<>>
  <2>1. PICK d : d = DelimiterAt(s, b)
    OBVIOUS
  <2>2. s[b] = "$"
    BY <1>5 DEF DelimiterAt
  <2>3. ~Pair(s, b, "-", "-") /\ ~Pair(s, b, "/", "*") /\ s[b] \notin {"'", "dq"}
    BY <2>2 DEF Pair, At
  <2>4. e = Closing(s, b + Len(d), d) /\ Covers(s, b)
    BY <1>5, <2>1, <2>3 DEF TurnEnd, Covers
  <2>5. "body" \in Unfinished
    BY DEF Unfinished
  <2>6. Passes(f, s, b, e, "body")
    BY <1>5, <2>1, <2>4, DollarReads
  <2> QED BY <1>1, <2>4, <2>5, <2>6
<1>6. CASE ~Covers(s, b) /\ isIdentifierStart(s[b])
  <2>1. isIdentifierPart(s[b])
    BY <1>6 DEF isIdentifierStart, isIdentifierPart
  <2>2. e = WordEnd(s, b)
    BY <1>6, <2>1, WordTurn
  <2> QED BY <1>6, <2>2, WordReads DEF ReadsTurn
<1>7. CASE ~Covers(s, b) /\ ~isIdentifierStart(s[b])
  <2>1. e = b + 1
    BY <1>7, OtherTurn
  <2>2. e - 1 = b /\ e # 0
    BY <2>1
  <2>3. Ready(f[b], s, b + 1) /\ f[b].hidden = f[b - 1].hidden
    BY <1>7, OtherReads
  <2> QED BY <1>7, <2>1, <2>2, <2>3 DEF ReadsTurn
<1> QED BY <1>2, <1>3, <1>4, <1>5, <1>6, <1>7 DEF Covers
-----------------------------------------------------------------------------
(***************************************************************************)
(* inspectStatement against PostgreSQL.                                    *)
(***************************************************************************)

\* A step that ends the inspection.
Verdict ==
  /\ UNCHANGED <<kind, text, skipped, semicolon>>
  /\ \/ pc' = "second"
     \/ pc' = "unterminated" /\ i <= Len(query) /\ TurnEnd(query, i) = 0
     \/ /\ pc' \in {"notSelect", "accepted", "bind"} /\ i > Len(query)
        /\ pc' = "accepted" => kind # "where"

LEMMA InspectorEnds ==
  ASSUME pc = "inspect", Next, pc' # "inspect"
  PROVE  Verdict
<1> USE DEF Verdict
<1>1. ASSUME NEW end, StepOver(end)
      PROVE  UNCHANGED <<kind, text, skipped, semicolon>> /\ pc' = "unterminated" /\ end = 0
  BY <1>1 DEF StepOver, Reject, input, inspected
<1>2. CASE InspectComment
  <2>1. i <= Len(query)
    BY <1>2 DEF InspectComment, Inspecting
  <2>2. CASE LineComment /\ StepOver(LineEnd(query, i + 2))
    <3>1. TurnEnd(query, i) = LineEnd(query, i + 2)
      BY <2>2 DEF TurnEnd, LineComment
    <3> QED BY <1>1, <2>1, <2>2, <3>1
  <2>3. CASE BlockComment /\ StepOver(skipBlockComment(query, i))
    <3>1. Pair(query, i, "/", "*") /\ ~Pair(query, i, "-", "-")
      BY <2>3 DEF BlockComment, Pair, At
    <3>2. TurnEnd(query, i) = skipBlockComment(query, i)
      BY <3>1 DEF TurnEnd
    <3> QED BY <1>1, <2>1, <2>3, <3>2
  <2> QED BY <1>2, <2>2, <2>3 DEF InspectComment
<1>3. Significant => /\ i <= Len(query)
                     /\ ~Pair(query, i, "-", "-") /\ ~Pair(query, i, "/", "*")
  BY DEF Significant, Inspecting, LineComment, BlockComment
<1>4. CASE InspectQuoted
  <2>1. /\ Significant /\ query[i] \in {"'", "dq"}
        /\ StepOver(skipQuoted(query, i, query[i]))
    BY <1>4 DEF InspectQuoted, Scanning
  <2>2. TurnEnd(query, i) = skipQuoted(query, i, query[i])
    BY <1>3, <2>1 DEF TurnEnd
  <2> QED BY <1>1, <1>3, <2>1, <2>2
<1>5. CASE InspectDollar
  <2> DEFINE d == DelimiterAt(query, i)
  <2>1. Significant /\ d # <<>> /\ StepOver(Closing(query, i + Len(d), d))
    BY <1>5 DEF InspectDollar, Scanning, Delimiter, DelimiterAt
  <2>2. query[i] \notin {"'", "dq"}
    BY <2>1 DEF DelimiterAt
  <2>3. TurnEnd(query, i) = Closing(query, i + Len(d), d)
    BY <1>3, <2>1, <2>2 DEF TurnEnd
  <2> QED BY <1>1, <1>3, <2>1, <2>3
<1>6. CASE InspectSecond
  BY <1>6 DEF InspectSecond, Reject, input, inspected
<1>7. CASE Inspected
  BY <1>7 DEF Inspected, input, inspected
<1>8. ~(InspectSpace \/ InspectSemicolon \/ InspectWord \/ InspectOther)
  BY DEF InspectSpace, InspectSemicolon, InspectWord, InspectOther
<1>9. ~(BindComment \/ BindQuoted \/ BindDollar \/ BindPositional \/ BindMissing
        \/ BindNamed \/ BindOther \/ Bound \/ Ended)
  BY DEF BindComment, BindQuoted, BindDollar, BindPositional, BindMissing, BindNamed,
         BindOther, Bound, Ended, Binding, BindCode, NoDollarQuote
<1> QED BY <1>2, <1>4, <1>5, <1>6, <1>7, <1>8, <1>9 DEF Next

\* What comes after the inspection leaves its results alone.
LEMMA InspectorRests ==
  ASSUME pc # "inspect", Next
  PROVE  /\ UNCHANGED <<kind, text, skipped, semicolon>>
         /\ pc' = pc \/ (pc = "bind" /\ pc' \in {"bound", "unused", "positional", "missing",
                                               "unterminatedBind"})
<1>1. ASSUME NEW end, BindCopy(end)
      PROVE  /\ UNCHANGED <<kind, text, skipped, semicolon>>
             /\ pc' = pc \/ pc' = "unterminatedBind"
  BY <1>1 DEF BindCopy, Reject, input, inspected
<1>2. ~(InspectSpace \/ InspectComment \/ InspectSecond \/ InspectSemicolon
        \/ InspectQuoted \/ InspectDollar \/ InspectWord \/ InspectOther \/ Inspected)
  BY DEF InspectSpace, InspectComment, InspectSecond, InspectSemicolon, InspectQuoted,
         InspectDollar, InspectWord, InspectOther, Inspected, Inspecting, Significant, Scanning
<1>3. CASE BindComment \/ BindQuoted \/ BindDollar \/ BindOther
  BY <1>1, <1>3 DEF BindComment, BindQuoted, BindDollar, BindOther, Binding, BindCode,
     NoDollarQuote
<1>4. CASE BindPositional \/ BindMissing \/ Bound
  BY <1>4 DEF BindPositional, BindMissing, Bound, Reject, Binding, BindCode, NoDollarQuote,
     input, inspected
<1>5. CASE BindNamed
  BY <1>5 DEF BindNamed, input, inspected
<1>6. CASE Ended
  BY <1>6 DEF Ended, vars, input, inspected
<1> QED BY <1>2, <1>3, <1>4, <1>5, <1>6 DEF Next

\* The two readings go together, a turn of the scanner at a time: so far the
\* scanner has stepped over exactly what PostgreSQL hides.
Together(s, top, hidden) ==
  \E f : /\ Reads(f, s) /\ PostgresLex(s) = f[Len(s)]
         /\ Ready(f[top - 1], s, top) /\ f[top - 1].hidden = hidden

LexInv ==
  /\ text \in Seq(Characters)
  /\ pc = "inspect" => /\ i \in 1 .. Len(query) + 1
                       /\ Usual(query) => Together(query, i, skipped)
  /\ MatchesPostgres

LEMMA LexStarts == Init => LexInv
<1> SUFFICES ASSUME Init PROVE LexInv
  OBVIOUS
<1>1. text \in Seq(Characters) /\ i = 1 /\ pc = "inspect" /\ skipped = {}
  BY TextsAssumption DEF Init
<1>2. query \in Seq(Characters) /\ Len(query) \in Nat
  BY <1>1, QueryIsText
<1>3. ASSUME Usual(query)
      PROVE  Together(query, i, skipped)
  <2>1. ~PostgresLex(query).unusual
    BY <1>3 DEF Usual
  <2>2. PICK f : Reads(f, query) /\ PostgresLex(query) = f[Len(query)]
    BY <1>2, <2>1, UsualRuns
  <2>3. f[0] = Start
    BY <2>2 DEF Reads, IsLex
  <2>4. f[0].mode = "code" /\ f[0].hidden = {}
    BY <2>3 DEF Start
  <2>5. f[i - 1] = f[0]
    BY <1>1
  <2>6. Ready(f[0], query, i) /\ f[0].hidden = skipped
    BY <1>1, <2>4 DEF Ready
  <2> QED BY <2>2, <2>5, <2>6 DEF Together
<1> QED BY <1>1, <1>2, <1>3 DEF LexInv, MatchesPostgres

LEMMA LexGoesOn == LexInv /\ [Next]_vars => LexInv'
<1> SUFFICES ASSUME LexInv, [Next]_vars PROVE LexInv'
  OBVIOUS
<1>1. text \in Seq(Characters)
  BY DEF LexInv
<1>2. query \in Seq(Characters) /\ Len(query) \in Nat
  BY <1>1, QueryIsText
<1>3. ASSUME UNCHANGED <<kind, text>>
      PROVE  query' = query /\ reading' = reading /\ (Usual(query))' = Usual(query)
  BY <1>3 DEF query, reading
<1>4. CASE UNCHANGED vars
  <2>1. UNCHANGED <<kind, text, pc, i, skipped>>
    BY <1>4 DEF vars, input, inspected
  <2> QED BY <1>3, <2>1 DEF LexInv, MatchesPostgres
<1>5. CASE Next /\ pc = "inspect" /\ pc' = "inspect"
  <2>1. i \in 1 .. Len(query) + 1
    BY <1>5 DEF LexInv
  <2>2. Turn
    BY <1>1, <1>5, <2>1, InspectorTurn
  <2>3. /\ UNCHANGED <<kind, text>> /\ i \in 1 .. Len(query)
        /\ i' = TurnEnd(query, i) /\ i' # 0 /\ query' = query
        /\ skipped' = skipped \cup (IF Covers(query, i) THEN i .. i' - 1 ELSE {})
    <3>1. UNCHANGED <<kind, text>> /\ i <= Len(query) /\ i' = TurnEnd(query, i) /\ i' # 0
      BY <2>2 DEF Turn
    <3>2. i \in 1 .. Len(query) /\ query' = query
      BY <1>2, <1>3, <2>1, <3>1
    <3>3. Covers(query, i) => skipped' = skipped \cup (i .. i' - 1)
      BY <2>2 DEF Turn
    <3>4. ~Covers(query, i) => skipped' = skipped
      BY <2>2 DEF Turn
    <3>5. skipped = skipped \cup {}
      OBVIOUS
    <3> QED BY <3>1, <3>2, <3>3, <3>4, <3>5, Zenon
  <2>4. i' \in 1 .. Len(query) + 1
    <3>1. TurnEnd(query, i) \in {0} \cup i + 1 .. Len(query) + 1
      BY <1>2, <2>3, TurnGoesOn
    <3> QED BY <1>2, <2>3, <3>1
  <2>5. ASSUME Usual(query)
        PROVE  Together(query, i', skipped')
    <3>1. PICK f : /\ Reads(f, query) /\ PostgresLex(query) = f[Len(query)]
                   /\ Ready(f[i - 1], query, i) /\ f[i - 1].hidden = skipped
      BY <1>5, <2>5 DEF LexInv, Together
    <3>2. ReadsTurn(f, query, i, i')
      BY <1>2, <2>3, <3>1, TurnReads
    <3>3. Ready(f[i' - 1], query, i') /\ f[i' - 1].hidden = skipped'
      BY <2>3, <3>1, <3>2 DEF ReadsTurn
    <3> QED BY <3>1, <3>3 DEF Together
  <2>6. MatchesPostgres'
    BY <1>5 DEF MatchesPostgres
  <2> QED BY <1>1, <1>3, <1>5, <2>3, <2>4, <2>5, <2>6 DEF LexInv
<1>6. CASE Next /\ pc = "inspect" /\ pc' # "inspect"
  <2>1. i \in 1 .. Len(query) + 1
    BY <1>6 DEF LexInv
  <2>2. Verdict
    BY <1>6, InspectorEnds
  <2>3. UNCHANGED <<kind, text, skipped>>
    BY <2>2 DEF Verdict
  <2>4. ASSUME Usual(query), pc' \in {"accepted", "notSelect", "bind", "bound"}
        PROVE  skipped = reading.hidden /\ Complete(reading)
    <3>1. i = Len(query) + 1
      <4>1. i > Len(query)
        BY <2>2, <2>4 DEF Verdict
      <4> QED BY <1>2, <2>1, <4>1
    <3>2. PICK f : /\ reading = f[Len(query)]
                   /\ Ready(f[i - 1], query, i) /\ f[i - 1].hidden = skipped
      BY <1>6, <2>4 DEF LexInv, Together, reading
    <3>3. f[i - 1] = reading
      <4>1. i - 1 = Len(query)
        BY <1>2, <3>1
      <4> QED BY <3>2, <4>1
    <3> QED BY <3>2, <3>3 DEF Ready, Complete
  <2>5. ASSUME Usual(query), pc' = "unterminated"
        PROVE  ~Complete(reading)
    <3>1. i <= Len(query) /\ TurnEnd(query, i) = 0
      BY <2>2, <2>5 DEF Verdict
    <3>2. i \in 1 .. Len(query)
      BY <1>2, <2>1, <3>1
    <3>3. PICK f : /\ Reads(f, query) /\ reading = f[Len(query)]
                   /\ Ready(f[i - 1], query, i)
      BY <1>6, <2>5 DEF LexInv, Together, reading
    <3>4. ReadsTurn(f, query, i, 0)
      BY <1>2, <3>1, <3>2, <3>3, TurnReads
    <3> QED BY <3>3, <3>4 DEF ReadsTurn, Complete, Unfinished
  <2>6. MatchesPostgres'
    BY <1>3, <2>3, <2>4, <2>5 DEF MatchesPostgres
  <2> QED BY <1>1, <1>6, <2>3, <2>6 DEF LexInv
<1>7. CASE Next /\ pc # "inspect"
  <2>1. /\ UNCHANGED <<kind, text, skipped>>
        /\ pc' = pc \/ (pc = "bind" /\ pc' \in {"bound", "unused", "positional", "missing",
                                              "unterminatedBind"})
    BY <1>7, InspectorRests
  <2>2. MatchesPostgres'
    BY <1>3, <2>1 DEF LexInv, MatchesPostgres
  <2> QED BY <1>1, <1>7, <2>1, <2>2 DEF LexInv
<1> QED BY <1>4, <1>5, <1>6, <1>7

\* inspectStatement hides exactly the text that PostgreSQL reads as quoted or
\* as a comment, and turns away as unterminated only what PostgreSQL does not
\* read to its end, for every usual text: no backslash in a string, no dollar
\* sign inside an identifier, no character beyond ASCII in a tag
\* (MatchesPostgres).
THEOREM ReadsAsPostgres == Spec => []MatchesPostgres
<1>1. LexInv => MatchesPostgres
  BY DEF LexInv
<1> QED BY <1>1, LexStarts, LexGoesOn, PTL DEF Spec
\* So far the only semicolon outside quotes and comments is the terminator, and
\* nothing but white space and comments is behind it.
Sealed(s, top, hidden, stop) ==
  /\ stop \in Nat /\ stop < top
  /\ \A n \in Nat \ {0} : n < top /\ n \notin hidden /\ s[n] = ";" => n = stop
  /\ stop # 0 => \A n \in Nat : stop < n /\ n < top /\ n \notin hidden => isSpace(s[n])

\* What a turn from b to e does to the places stepped over and the terminator.
SealTurn(s, b, e, hidden, more, stop, next) ==
  /\ Covers(s, b) => more = hidden \cup (b .. e - 1) /\ next = stop
  /\ ~Covers(s, b) => /\ more = hidden
                      /\ next = IF stop = 0 /\ s[b] = ";" THEN b ELSE stop
                      /\ stop # 0 => isSpace(s[b])

LEMMA SealGrows ==
  ASSUME NEW s \in Seq(Characters), NEW b \in 1 .. Len(s), NEW e, e = TurnEnd(s, b), e # 0,
         NEW hidden, NEW stop, Sealed(s, b, hidden, stop),
         NEW more, NEW next, SealTurn(s, b, e, hidden, more, stop, next)
  PROVE  Sealed(s, e, more, next)
<1>1. b \in Nat /\ b # 0
  OBVIOUS
<1>2. e \in Nat /\ b < e
  <2>1. TurnEnd(s, b) \in {0} \cup b + 1 .. Len(s) + 1
    BY TurnGoesOn
  <2> QED BY <1>1, <2>1
<1>3. \A n \in Nat : n < e => n < b \/ n \in b .. e - 1
  BY <1>1, <1>2
<1>7. stop \in Nat /\ stop < b
  BY DEF Sealed
<1>8. stop < e /\ 0 < e
  BY <1>1, <1>2, <1>7
<1>4. CASE Covers(s, b)
  <2>1. next = stop /\ \A n \in Nat : n < e /\ n \notin more => n < b /\ n \notin hidden
    BY <1>3, <1>4 DEF SealTurn
  <2>2. next \in Nat /\ next < e
    BY <1>7, <1>8, <2>1
  <2> QED BY <2>1, <2>2 DEF Sealed
<1>5. CASE ~Covers(s, b) /\ isIdentifierStart(s[b])
  <2>1. isIdentifierPart(s[b])
    BY <1>5 DEF isIdentifierStart, isIdentifierPart
  <2>2. e = WordEnd(s, b)
    BY <1>5, <2>1, WordTurn
  <2>3. \A n \in b .. e - 1 : isIdentifierPart(s[n])
    <3>1. b \in 1 .. Len(s) + 1
      OBVIOUS
    <3> QED BY <2>2, <3>1, WordEndIs
  <2>4. \A n \in b .. e - 1 : s[n] # ";"
    BY <2>3 DEF isIdentifierPart, Letters
  <2>5. ~isSpace(s[b]) /\ s[b] # ";"
    BY <1>5 DEF isIdentifierStart, Letters, isSpace
  <2>6. stop = 0 /\ next = 0 /\ more = hidden
    BY <1>5, <2>5 DEF SealTurn
  <2> QED BY <1>3, <1>8, <2>4, <2>6 DEF Sealed
<1>6. CASE ~Covers(s, b) /\ ~isIdentifierStart(s[b])
  <2>1. e = b + 1 /\ more = hidden
    BY <1>6, OtherTurn DEF SealTurn
  <2>2. \A n \in Nat : n < e => n < b \/ n = b
    BY <1>1, <2>1
  <2>3. CASE stop = 0 /\ s[b] = ";"
    <3>1. next = b
      BY <1>6, <2>3 DEF SealTurn
    <3>2. \A n \in Nat : ~(b < n /\ n < e)
      BY <1>1, <2>1
    <3>3. \A n \in Nat \ {0} : n < b /\ n \notin hidden => s[n] # ";"
      BY <2>3 DEF Sealed
    <3> QED BY <1>1, <1>2, <2>1, <2>2, <3>1, <3>2, <3>3 DEF Sealed
  <2>4. CASE stop = 0 /\ s[b] # ";"
    <3>1. next = 0 /\ 0 < e
      BY <1>6, <1>8, <2>4 DEF SealTurn
    <3> QED BY <2>1, <2>2, <2>4, <3>1 DEF Sealed
  <2>5. CASE stop # 0
    <3>1. next = stop /\ isSpace(s[b])
      BY <1>6, <2>5 DEF SealTurn
    <3>2. s[b] # ";"
      BY <3>1 DEF isSpace
    <3>3. stop \in Nat /\ stop < e
      BY <1>7, <1>8
    <3> QED BY <2>1, <2>2, <2>5, <3>1, <3>2, <3>3 DEF Sealed
  <2> QED BY <2>3, <2>4, <2>5
<1> QED BY <1>4, <1>5, <1>6

LEMMA InText ==
  ASSUME NEW size \in Nat, NEW k \in 1 .. size
  PROVE  k \in Nat \ {0} /\ k < size + 1
OBVIOUS

SealInv ==
  /\ pc = "inspect" => Sealed(query, i, skipped, semicolon)
  /\ pc \in {"accepted", "bind", "bound"} =>
       Sealed(query, Len(query) + 1, skipped, semicolon)

LEMMA SealGoesOn == LexInv /\ SealInv /\ [Next]_vars => SealInv'
<1> SUFFICES ASSUME LexInv, SealInv, [Next]_vars PROVE SealInv'
  OBVIOUS
<1>1. text \in Seq(Characters)
  BY DEF LexInv
<1>2. query \in Seq(Characters) /\ Len(query) \in Nat
  BY <1>1, QueryIsText
<1>3. ASSUME UNCHANGED <<kind, text>>
      PROVE  query' = query
  BY <1>3 DEF query
<1>4. CASE UNCHANGED vars
  <2>1. UNCHANGED <<kind, text, pc, i, skipped, semicolon>>
    BY <1>4 DEF vars, input, inspected
  <2> QED BY <1>3, <2>1 DEF SealInv, Sealed
<1>5. CASE Next /\ pc = "inspect" /\ pc' = "inspect"
  <2>1. i \in 1 .. Len(query) + 1
    BY <1>5 DEF LexInv
  <2>2. Turn
    BY <1>1, <1>5, <2>1, InspectorTurn
  <2>3. UNCHANGED <<kind, text>> /\ i <= Len(query) /\ i' = TurnEnd(query, i) /\ i' # 0
    BY <2>2 DEF Turn
  <2>4. query' = query /\ i \in 1 .. Len(query)
    BY <1>2, <1>3, <2>1, <2>3
  <2>5. Sealed(query, i, skipped, semicolon)
    BY <1>5 DEF SealInv
  <2>6. SealTurn(query, i, i', skipped, skipped', semicolon, semicolon')
    BY <2>2 DEF Turn, SealTurn
  <2>7. Sealed(query, i', skipped', semicolon')
    BY <1>2, <2>3, <2>4, <2>5, <2>6, SealGrows
  <2> QED BY <1>5, <2>4, <2>7 DEF SealInv
<1>6. CASE Next /\ pc = "inspect" /\ pc' # "inspect"
  <2>1. Verdict
    BY <1>6, InspectorEnds
  <2>2. UNCHANGED <<kind, text, skipped, semicolon>> /\ pc' # "bound"
    BY <2>1 DEF Verdict
  <2>3. ASSUME pc' \in {"accepted", "bind"}
        PROVE  i = Len(query) + 1
    <3>1. i > Len(query)
      BY <2>1, <2>3 DEF Verdict
    <3>2. i \in 1 .. Len(query) + 1
      BY <1>6 DEF LexInv
    <3> QED BY <1>2, <3>1, <3>2
  <2>4. query' = query
    BY <1>3, <2>2
  <2> QED BY <1>6, <2>2, <2>3, <2>4 DEF SealInv
<1>7. CASE Next /\ pc # "inspect"
  <2>1. /\ UNCHANGED <<kind, text, skipped, semicolon>>
        /\ pc' = pc \/ (pc = "bind" /\ pc' \in {"bound", "unused", "positional", "missing",
                                              "unterminatedBind"})
    BY <1>7, InspectorRests
  <2>2. query' = query
    BY <1>3, <2>1
  <2> QED BY <1>7, <2>1, <2>2 DEF SealInv
<1> QED BY <1>4, <1>5, <1>6, <1>7

LEMMA SealedAlways == Spec => [](LexInv /\ SealInv)
<1>1. Init => LexInv /\ SealInv
  <2>1. Init => pc = "inspect" /\ i = 1 /\ semicolon = 0
    BY DEF Init
  <2>2. Init => SealInv
    <3> SUFFICES ASSUME Init PROVE Sealed(query, 1, skipped, 0)
      BY <2>1 DEF SealInv
    <3>1. \A n \in Nat \ {0} : ~(n < 1)
      OBVIOUS
    <3>2. 0 \in Nat /\ 0 < 1
      OBVIOUS
    <3> QED BY <3>1, <3>2, Zenon DEF Sealed
  <2> QED BY <2>2, LexStarts
<1>2. LexInv /\ SealInv /\ [Next]_vars => (LexInv /\ SealInv)'
  BY LexGoesOn, SealGoesOn
<1> QED BY <1>1, <1>2, PTL DEF Spec

\* What is accepted is one statement for PostgreSQL: behind the first semicolon
\* outside quotes and comments there are only white space and comments, for
\* every usual text, which has no backslash in a string, no dollar sign inside
\* an identifier and no character beyond ASCII in a tag (OneStatement).
THEOREM AcceptsOne == Spec => []OneStatement
<1>1. LexInv /\ SealInv => OneStatement
  <2> SUFFICES ASSUME LexInv, SealInv, Accepted, Usual(query),
                      NEW n \in CodeOf(query), query[n] = ";",
                      NEW m \in CodeOf(query), m > n
               PROVE  isSpace(query[m])
    BY DEF OneStatement, EndsAtTerminator
  <2>1. skipped = reading.hidden
    BY DEF LexInv, MatchesPostgres, Accepted
  <2>2. n \in 1 .. Len(query) /\ n \notin skipped /\ m \in 1 .. Len(query) /\ m \notin skipped
    BY <2>1 DEF CodeOf, reading
  <2>3. query \in Seq(Characters) /\ Len(query) \in Nat
    BY QueryIsText DEF LexInv
  <2>4. Sealed(query, Len(query) + 1, skipped, semicolon)
    BY DEF SealInv, Accepted
  <2>5. /\ n \in Nat \ {0} /\ n < Len(query) + 1
        /\ m \in Nat /\ m < Len(query) + 1 /\ n < m
    <3>1. n \in Nat \ {0} /\ n < Len(query) + 1 /\ m \in Nat \ {0} /\ m < Len(query) + 1
      BY <2>2, <2>3, InText, Zenon
    <3> QED BY <3>1
  <2>6. n = semicolon /\ n # 0
    BY <2>2, <2>4, <2>5 DEF Sealed
  <2> QED BY <2>2, <2>4, <2>5, <2>6 DEF Sealed
<1> QED BY <1>1, SealedAlways, PTL
-----------------------------------------------------------------------------
(***************************************************************************)
(* The same text somewhere else: PostgreSQL goes on reading it as it began *)
(* to, and hides the same characters, wherever they stand.                 *)
(***************************************************************************)

\* at[m] is where the character at place m went; from place r on they went d
\* places further.
Image(places, at) == {at[m] : m \in places}
Shifts(at, r, d) == \A m \in Int : m >= r => at[m] = m + d

LEMMA ImageBoth ==
  ASSUME NEW A, NEW B, NEW at PROVE Image(A \cup B, at) = Image(A, at) \cup Image(B, at)
BY DEF Image

LEMMA ImageOne ==
  ASSUME NEW A, NEW at, NEW r \in Int, NEW d \in Int, Shifts(at, r, d), NEW k \in Int, k >= r
  PROVE  Image(A \cup {k}, at) = Image(A, at) \cup {k + d}
<1>1. at[k] = k + d
  BY DEF Shifts
<1>2. Image({k}, at) = {k + d}
  BY <1>1 DEF Image
<1>3. Image(A \cup {k}, at) = Image(A, at) \cup Image({k}, at)
  BY ImageBoth
<1> QED BY <1>2, <1>3

LEMMA ImageTwo ==
  ASSUME NEW A, NEW at, NEW r \in Int, NEW d \in Int, Shifts(at, r, d), NEW k \in Int, k - 1 >= r
  PROVE  Image(A \cup {k - 1, k}, at) = Image(A, at) \cup {(k + d) - 1, k + d}
<1>1. k >= r /\ k - 1 \in Int /\ (k - 1) + d = (k + d) - 1
  OBVIOUS
<1>2. at[k] = k + d /\ at[k - 1] = (k + d) - 1
  BY <1>1 DEF Shifts
<1>3. Image({k - 1, k}, at) = {(k + d) - 1, k + d}
  BY <1>2 DEF Image
<1>4. Image(A \cup {k - 1, k}, at) = Image(A, at) \cup Image({k - 1, k}, at)
  BY ImageBoth
<1> QED BY <1>3, <1>4

ImageIs(S, at, T) == Image(S, at) = T
LEMMA ImageRange ==
  ASSUME NEW at, NEW r \in Int, NEW d \in Int, Shifts(at, r, d),
         NEW a \in Int, NEW b \in Int, a >= r
  PROVE  ImageIs(a .. b, at, a + d .. b + d)
<1>1. ASSUME NEW n \in a + d .. b + d
      PROVE  n \in Image(a .. b, at)
  <2>1. n - d \in a .. b /\ n - d \in Int /\ n - d >= r /\ (n - d) + d = n
    OBVIOUS
  <2>2. at[n - d] = n
    BY <2>1 DEF Shifts
  <2> QED BY <2>1, <2>2 DEF Image
<1>2. ASSUME NEW m \in a .. b
      PROVE  at[m] \in a + d .. b + d
  <2>1. m \in Int /\ m >= r /\ m + d \in a + d .. b + d
    OBVIOUS
  <2> QED BY <2>1 DEF Shifts
<1>3. Image(a .. b, at) = a + d .. b + d
  BY <1>1, <1>2 DEF Image
<1> QED BY <1>3 DEF ImageIs

LEMMA ImageMore ==
  ASSUME NEW A, NEW S, NEW T, NEW at, ImageIs(S, at, T)
  PROVE  ImageIs(A \cup S, at, Image(A, at) \cup T)
BY ImageBoth DEF ImageIs

LEMMA ImageTag ==
  ASSUME NEW A, NEW at, NEW r \in Int, NEW d \in Int, Shifts(at, r, d),
         NEW k \in Int, NEW n \in Int, k - n >= r
  PROVE  ImageIs(A \cup (k - n .. k), at, Image(A, at) \cup ((k + d) - n .. k + d))
<1>1. k - n \in Int /\ (k - n) + d = (k + d) - n
  OBVIOUS
<1>2. ImageIs(k - n .. k, at, (k - n) + d .. k + d)
  BY <1>1, ImageRange, Zenon
<1>3. ImageIs(k - n .. k, at, (k + d) - n .. k + d)
  BY <1>1, <1>2, Zenon
<1> QED BY <1>3, ImageMore, Zenon
\* The same state, but for what no longer matters in it.  A tag that ends here
\* is as good as no tag.
Same(p, q) ==
  /\ q.mode = p.mode
  /\ p.mode = "block" => q.depth = p.depth /\ q.buf = p.buf
  /\ p.mode = "tag" => q.buf = p.buf
  /\ p.mode = "body" => q.tag = p.tag /\ q.buf = p.buf

Mirrors(p, q, at) ==
  /\ q.hidden = Image(p.hidden, at)
  /\ Same(p, q) \/ (p.mode = "tag" /\ q.mode = "code")

\* In front of place k nothing is open that began in front of place r.
Near(p, q, k, r) ==
  /\ p.mode \in {"dash", "slash"} => k - 1 >= r
  /\ p.mode = "tag" /\ q.mode = "tag" => k - Len(p.buf) >= r

LEMMA CopyCode ==
  ASSUME NEW p \in LexStates, NEW q \in LexStates, q.mode = p.mode,
         NEW at, NEW r \in Int, NEW d \in Int, Shifts(at, r, d), q.hidden = Image(p.hidden, at),
         NEW c \in Characters, NEW k \in Nat, k + d \in Nat, k >= r,
         p.mode \in {"dash", "slash"} => k - 1 >= r,
         NEW x, x = InCode(p, c, k), ~x.unusual, NEW y, y = InCode(q, c, k + d)
  PROVE  Same(x, y) /\ y.hidden = Image(x.hidden, at) /\ Near(x, y, k + 1, r)
<1>0. AfterCode(p, c, k, x) /\ AfterCode(q, c, k + d, y)
  <2>1. AfterCode(p, c, k, x)
    BY CodeStep
  <2>2. AfterCode(q, c, k + d, y)
    BY CodeStep
  <2> QED BY <2>1, <2>2
<1>10. k \in Int /\ (k + 1) - 1 = k
  OBVIOUS
<1>1. CASE c = "-" /\ p.mode = "dash"
  <2>1. /\ x.mode = "line" /\ x.hidden = p.hidden \cup {k - 1, k}
        /\ y.mode = "line" /\ y.hidden = q.hidden \cup {(k + d) - 1, k + d}
    BY <1>0, <1>1 DEF AfterCode
  <2>2. y.hidden = Image(x.hidden, at)
    <3>1. k - 1 >= r
      BY <1>1
    <3>2. Image(p.hidden \cup {k - 1, k}, at) = Image(p.hidden, at) \cup {(k + d) - 1, k + d}
      BY <1>10, <3>1, ImageTwo
    <3> QED BY <2>1, <3>2, Zenon
  <2> QED BY <2>1, <2>2 DEF Same, Near
<1>2. CASE c = "-" /\ p.mode # "dash"
  <2>1. x.mode = "dash" /\ x.hidden = p.hidden /\ y.mode = "dash" /\ y.hidden = q.hidden
    BY <1>0, <1>2 DEF AfterCode
  <2> QED BY <1>10, <2>1 DEF Same, Near
<1>3. CASE c = "/"
  <2>1. x.mode = "slash" /\ x.hidden = p.hidden /\ y.mode = "slash" /\ y.hidden = q.hidden
    BY <1>0, <1>3 DEF AfterCode
  <2> QED BY <1>10, <2>1 DEF Same, Near
<1>4. CASE c = "*" /\ p.mode = "slash"
  <2>1. /\ x.mode = "block" /\ x.hidden = p.hidden \cup {k - 1, k} /\ x.depth = 1 /\ x.buf = <<>>
        /\ y.mode = "block" /\ y.hidden = q.hidden \cup {(k + d) - 1, k + d} /\ y.depth = 1
        /\ y.buf = <<>>
    BY <1>0, <1>4 DEF AfterCode
  <2>2. y.hidden = Image(x.hidden, at)
    <3>1. k - 1 >= r
      BY <1>4
    <3>2. Image(p.hidden \cup {k - 1, k}, at) = Image(p.hidden, at) \cup {(k + d) - 1, k + d}
      BY <1>10, <3>1, ImageTwo
    <3> QED BY <2>1, <3>2, Zenon
  <2> QED BY <2>1, <2>2 DEF Same, Near
<1>5. CASE c \in {"'", "dq"}
  <2>1. /\ x.mode = c /\ x.hidden = p.hidden \cup {k}
        /\ y.mode = c /\ y.hidden = q.hidden \cup {k + d}
    BY <1>0, <1>5 DEF AfterCode
  <2>2. y.hidden = Image(x.hidden, at)
    <3>1. Image(p.hidden \cup {k}, at) = Image(p.hidden, at) \cup {k + d}
      BY <1>10, ImageOne
    <3> QED BY <2>1, <3>1, Zenon
  <2> QED BY <1>5, <2>1, <2>2 DEF Same, Near
<1>6. CASE c = "$"
  <2>1. p.mode # "word"
    BY <1>0, <1>6 DEF AfterCode
  <2>2. /\ x.mode = "tag" /\ x.hidden = p.hidden /\ x.buf = <<"$">>
        /\ y.mode = "tag" /\ y.hidden = q.hidden /\ y.buf = <<"$">>
    BY <1>0, <1>6, <2>1 DEF AfterCode
  <2>3. Len(x.buf) = 1
    BY <2>2
  <2> QED BY <1>10, <2>2, <2>3 DEF Same, Near
<1>7. CASE isLetter(c) \/ (p.mode = "word" /\ isIdentifierPart(c))
  <2>1. x.mode = "word" /\ x.hidden = p.hidden /\ y.mode = "word" /\ y.hidden = q.hidden
    BY <1>0, <1>7 DEF AfterCode
  <2> QED BY <2>1 DEF Same, Near
<1>8. CASE /\ c \notin {"-", "/", "'", "dq", "$"} /\ ~isLetter(c)
           /\ ~(c = "*" /\ p.mode = "slash") /\ ~(p.mode = "word" /\ isIdentifierPart(c))
  <2>1. x.mode = "code" /\ x.hidden = p.hidden /\ y.mode = "code" /\ y.hidden = q.hidden
    BY <1>0, <1>8 DEF AfterCode
  <2> QED BY <2>1 DEF Same, Near
<1> QED BY <1>1, <1>2, <1>3, <1>4, <1>5, <1>6, <1>7, <1>8

LEMMA CopyTag ==
  ASSUME NEW p \in LexStates, NEW q \in LexStates, p.mode = "tag",
         NEW at, NEW r \in Int, NEW d \in Int, Shifts(at, r, d),
         NEW c \in Characters, NEW k \in Nat, k + d \in Nat, k >= r,
         Mirrors(p, q, at), Near(p, q, k, r),
         q.mode = "tag" \/ (c # "$" /\ ~isIdentifierPart(c)),
         NEW x, x = Step(p, c, k), ~x.unusual, NEW y, y = Step(q, c, k + d)
  PROVE  Same(x, y) /\ y.hidden = Image(x.hidden, at) /\ Near(x, y, k + 1, r)
<1>1. AfterTag(p, c, k, x)
  BY TagStep
<1>0. c # "hi"
  BY <1>1 DEF AfterTag
<1>2. /\ k \in Int /\ (k + 1) - 1 = k /\ q.hidden = Image(p.hidden, at)
      /\ p.buf \in Seq(Characters) /\ Len(p.buf) \in Nat
  <2>1. p.buf \in Seq(Characters)
    BY DEF LexStates
  <2> QED BY <2>1 DEF Mirrors
<1>3. CASE q.mode = "tag"
  <2>0. q.buf = p.buf /\ k - Len(p.buf) >= r
    BY <1>3 DEF Mirrors, Same, Near
  <2>1. AfterTag(q, c, k + d, y)
    BY <1>3, TagStep
  <2>2. CASE c = "$"
    <3>1. PICK n \in Nat : n = Len(p.buf)
      BY <1>2
    <3>2. /\ x.mode = "body" /\ x.tag = Append(p.buf, c) /\ x.buf = <<>>
          /\ x.hidden = p.hidden \cup (k - n .. k)
      BY <1>1, <2>2, <3>1, Zenon DEF AfterTag
    <3>3. /\ y.mode = "body" /\ y.tag = Append(p.buf, c) /\ y.buf = <<>>
          /\ y.hidden = q.hidden \cup ((k + d) - n .. k + d)
      BY <2>0, <2>1, <2>2, <3>1, Zenon DEF AfterTag
    <3>4. k - n >= r
      BY <2>0, <3>1
    <3>5. Image(p.hidden \cup (k - n .. k), at) = Image(p.hidden, at) \cup ((k + d) - n .. k + d)
      <4>1. n \in Int /\ k \in Int
        BY <1>2, <3>1
      <4>2. ImageIs(p.hidden \cup (k - n .. k), at,
                    Image(p.hidden, at) \cup ((k + d) - n .. k + d))
        BY <3>4, <4>1, ImageTag, Zenon
      <4> QED BY <4>2, Zenon DEF ImageIs
    <3>6. y.hidden = Image(x.hidden, at)
      BY <1>2, <3>2, <3>3, <3>5, Zenon
    <3>7. Same(x, y)
      BY <3>2, <3>3 DEF Same
    <3> QED BY <3>2, <3>6, <3>7 DEF Near
  <2>3. CASE OfTag(p, c)
    <3>1. OfTag(q, c)
      BY <2>0, <2>3 DEF OfTag
    <3>2. x.mode = "tag" /\ x.buf = Append(p.buf, c) /\ x.hidden = p.hidden
      BY <1>1, <2>3 DEF AfterTag
    <3>3. y.mode = "tag" /\ y.buf = Append(p.buf, c) /\ y.hidden = q.hidden
      BY <2>0, <2>1, <3>1 DEF AfterTag
    <3>4. Len(x.buf) = Len(p.buf) + 1
      BY <1>2, <3>2
    <3>5. (k + 1) - Len(x.buf) >= r
      <4>1. PICK n \in Nat : n = Len(p.buf)
        BY <1>2
      <4>2. (k + 1) - (n + 1) = k - n
        BY <1>2
      <4>3. k - n >= r /\ Len(x.buf) = n + 1
        BY <2>0, <3>4, <4>1
      <4> QED BY <4>2, <4>3
    <3> QED BY <1>2, <3>2, <3>3, <3>5 DEF Same, Near
  <2>4. CASE c \notin {"$", "hi"} /\ ~OfTag(p, c)
    <3>1. ~OfTag(q, c)
      BY <2>0, <2>4 DEF OfTag
    <3>2. x = InCode(Enter(p, "code"), c, k) /\ y = InCode(Enter(q, "code"), c, k + d)
      BY <1>1, <2>1, <2>4, <3>1 DEF AfterTag
    <3>3. PICK u, v : u = Enter(p, "code") /\ v = Enter(q, "code")
      OBVIOUS
    <3>4. "code" \in Modes
      BY DEF Modes
    <3>5. u \in LexStates /\ u.mode = "code" /\ u.hidden = p.hidden
      BY <3>3, <3>4, EnterIs
    <3>6. v \in LexStates /\ v.mode = "code" /\ v.hidden = q.hidden
      BY <3>3, <3>4, EnterIs
    <3> QED BY <1>2, <3>2, <3>3, <3>5, <3>6, CopyCode
  <2> QED BY <1>0, <2>2, <2>3, <2>4
<1>4. CASE q.mode # "tag"
  <2>1. q.mode = "code" /\ c \notin {"$", "hi"} /\ ~OfTag(p, c)
    BY <1>0, <1>4 DEF Mirrors, Same, OfTag
  <2>2. x = InCode(Enter(p, "code"), c, k)
    BY <1>1, <2>1 DEF AfterTag
  <2>3. y = InCode(q, c, k + d)
    BY <2>1 DEF Step
  <2>4. PICK u : u = Enter(p, "code")
    OBVIOUS
  <2>5. u \in LexStates /\ u.mode = "code" /\ u.hidden = p.hidden
    <3>1. "code" \in Modes
      BY DEF Modes
    <3> QED BY <2>4, <3>1, EnterIs
  <2>6. /\ q.mode = u.mode /\ q.hidden = Image(u.hidden, at) /\ x = InCode(u, c, k)
        /\ u.mode \in {"dash", "slash"} => k - 1 >= r
    BY <1>2, <2>1, <2>2, <2>4, <2>5
  <2> QED BY <2>3, <2>5, <2>6, CopyCode
<1> QED BY <1>3, <1>4

LEMMA CopyStep ==
  ASSUME NEW p \in LexStates, NEW q \in LexStates,
         NEW at, NEW r \in Int, NEW d \in Int, Shifts(at, r, d),
         NEW c \in Characters, NEW k \in Nat, k + d \in Nat, k >= r,
         Mirrors(p, q, at), Near(p, q, k, r),
         Same(p, q) \/ (c # "$" /\ ~isIdentifierPart(c)),
         NEW x, x = Step(p, c, k), ~x.unusual, NEW y, y = Step(q, c, k + d)
  PROVE  Same(x, y) /\ y.hidden = Image(x.hidden, at) /\ Near(x, y, k + 1, r)
<1>1. k \in Int /\ q.hidden = Image(p.hidden, at) /\ (p.mode # "tag" => Same(p, q))
  BY DEF Mirrors
<1>2. Image(p.hidden \cup {k}, at) = q.hidden \cup {k + d}
  <2>1. Image(p.hidden \cup {k}, at) = Image(p.hidden, at) \cup {k + d}
    BY <1>1, ImageOne
  <2> QED BY <1>1, <2>1
<1>3. CASE p.mode = "line"
  <2>0. q.mode = "line"
    BY <1>1, <1>3 DEF Same
  <2>1. CASE c = "nl"
    <3>1. x.mode = "code" /\ x.hidden = p.hidden
      BY <1>3, <2>1, LineStep
    <3>2. y.mode = "code" /\ y.hidden = q.hidden
      BY <2>0, <2>1, LineStep
    <3> QED BY <1>1, <3>1, <3>2 DEF Same, Near
  <2>2. CASE c # "nl"
    <3>1. x.mode = "line" /\ x.hidden = p.hidden \cup {k}
      BY <1>3, <2>2, LineGoesOn
    <3>2. y.mode = "line" /\ y.hidden = q.hidden \cup {k + d}
      BY <2>0, <2>2, LineGoesOn
    <3> QED BY <1>2, <3>1, <3>2 DEF Same, Near
  <2> QED BY <2>1, <2>2
<1>4. CASE p.mode \in {"'", "dq"}
  <2>0. q.mode = p.mode
    BY <1>1, <1>4 DEF Same
  <2>1. /\ x.hidden = p.hidden \cup {k}
        /\ c = p.mode => x.mode = "code"
        /\ c # p.mode => x.mode = p.mode
    BY <1>4, QuoteStep
  <2>2. /\ y.hidden = q.hidden \cup {k + d}
        /\ c = p.mode => y.mode = "code"
        /\ c # p.mode => y.mode = p.mode
    BY <1>4, <2>0, QuoteStep
  <2>3. Same(x, y)
    BY <1>4, <2>1, <2>2 DEF Same
  <2>4. y.hidden = Image(x.hidden, at)
    BY <1>2, <2>1, <2>2
  <2>5. x.mode \in {"'", "dq", "code"}
    BY <1>4, <2>1
  <2> QED BY <2>3, <2>4, <2>5 DEF Near
<1>5. CASE p.mode = "block"
  <2>1. q.mode = "block" /\ q.depth = p.depth /\ q.buf = p.buf
    BY <1>1, <1>5 DEF Same
  <2>2. AfterBlock(p, c, k, x)
    BY <1>5, BlockStep
  <2>3. AfterBlock(q, c, k + d, y)
    BY <2>1, BlockStep
  <2>4. y.mode = x.mode /\ y.depth = x.depth /\ y.buf = x.buf
    BY <2>1, <2>2, <2>3 DEF AfterBlock
  <2>5. y.hidden = Image(x.hidden, at)
    BY <1>2, <2>2, <2>3 DEF AfterBlock
  <2>6. x.mode \in {"block", "code"}
    BY <2>2 DEF AfterBlock
  <2> QED BY <2>4, <2>5, <2>6 DEF Same, Near
<1>6. CASE p.mode = "body"
  <2>1. q.mode = "body" /\ q.tag = p.tag /\ q.buf = p.buf
    BY <1>1, <1>6 DEF Same
  <2>2. AfterBody(p, c, k, x)
    BY <1>6, BodyStep
  <2>3. AfterBody(q, c, k + d, y)
    BY <2>1, BodyStep
  <2>4. y.tag = x.tag /\ y.hidden = Image(x.hidden, at)
    BY <1>2, <2>1, <2>2, <2>3 DEF AfterBody
  <2>5. CASE Closes(Append(p.buf, c), p.tag)
    <3>1. x.mode = "code"
      BY <2>2, <2>5, Zenon DEF AfterBody
    <3>2. y.mode = "code"
      BY <2>1, <2>3, <2>5, Zenon DEF AfterBody
    <3> QED BY <2>4, <3>1, <3>2 DEF Same, Near
  <2>6. CASE ~Closes(Append(p.buf, c), p.tag)
    <3>1. x.mode = "body" /\ x.buf = Append(p.buf, c)
      BY <2>2, <2>6, Zenon DEF AfterBody
    <3>2. y.mode = "body" /\ y.buf = Append(p.buf, c)
      BY <2>1, <2>3, <2>6, Zenon DEF AfterBody
    <3> QED BY <2>4, <3>1, <3>2 DEF Same, Near
  <2> QED BY <2>5, <2>6
<1>7. CASE p.mode = "tag"
  <2>1. q.mode = "tag" \/ (c # "$" /\ ~isIdentifierPart(c))
    BY <1>7 DEF Same
  <2> QED BY <1>7, <2>1, CopyTag
<1>8. CASE p.mode \in {"code", "word", "dash", "slash"}
  <2>0. q.mode = p.mode /\ (p.mode \in {"dash", "slash"} => k - 1 >= r)
    BY <1>1, <1>8 DEF Same, Near
  <2>1. x = InCode(p, c, k) /\ y = InCode(q, c, k + d)
    BY <1>8, <2>0 DEF Step
  <2> QED BY <1>1, <2>0, <2>1, CopyCode
<1>9. p.mode \in Modes
  BY DEF LexStates
<1> QED BY <1>3, <1>4, <1>5, <1>6, <1>7, <1>8, <1>9 DEF Modes

\* The text at places b + 1 .. e of s is in w, d places further.
Copied(s, b, e, w, d) == \A k \in b + 1 .. e : w[k + d] = s[k]

LEMMA CopyRun ==
  ASSUME NEW s \in Seq(Characters), NEW f, Reads(f, s),
         NEW w \in Seq(Characters), NEW g, IsLex(g, w),
         NEW b \in Nat, NEW e \in Nat, b <= e, e <= Len(s),
         NEW d \in Int, b + d \in Nat, e + d <= Len(w),
         Copied(s, b, e, w, d),
         NEW at, NEW r \in Int, Shifts(at, r, d), r <= b + 1,
         Mirrors(f[b], g[b + d], at), Near(f[b], g[b + d], b + 1, r),
         b < e => Same(f[b], g[b + d]) \/ (s[b + 1] # "$" /\ ~isIdentifierPart(s[b + 1]))
  PROVE  /\ Mirrors(f[e], g[e + d], at) /\ Near(f[e], g[e + d], e + 1, r)
         /\ Same(f[e], g[e + d]) \/ e = b
<1> DEFINE Alike(k) == /\ Mirrors(f[k], g[k + d], at) /\ Near(f[k], g[k + d], k + 1, r)
                       /\ Same(f[k], g[k + d]) \/ k = b
           S == {k \in Nat : Alike(k)}
<1>1. b \in S
  OBVIOUS
<1>2. ASSUME NEW k \in b .. e - 1, k \in S
      PROVE  k + 1 \in S
  <2>1. /\ k \in Nat /\ k + 1 \in 1 .. Len(s) /\ (k + 1) - 1 = k /\ k + 1 \in Nat
        /\ k + 1 \in b + 1 .. e /\ k + 1 >= r
    OBVIOUS
  <2>2. /\ (k + 1) + d \in Nat /\ (k + 1) + d \in 1 .. Len(w) /\ ((k + 1) + d) - 1 = k + d
    OBVIOUS
  <2>3. /\ f[k + 1] = Step(f[k], s[k + 1], k + 1) /\ ~f[k + 1].unusual
        /\ f[k] \in LexStates /\ s[k + 1] \in Characters
    BY <2>1, ReadsOn
  <2>4. g[(k + 1) + d] = Step(g[k + d], s[k + 1], (k + 1) + d)
    <3>1. g[(k + 1) + d] = Step(g[k + d], w[(k + 1) + d], (k + 1) + d)
      BY <2>2 DEF IsLex
    <3>2. w[(k + 1) + d] = s[k + 1]
      BY <2>1 DEF Copied
    <3> QED BY <3>1, <3>2
  <2>5. g[k + d] \in LexStates
    <3>1. k + d \in 0 .. Len(w)
      BY <2>2
    <3> QED BY <3>1, LexTypes
  <2>6. Alike(k)
    BY <1>2
  <2>7. Same(f[k], g[k + d]) \/ (s[k + 1] # "$" /\ ~isIdentifierPart(s[k + 1]))
    <3>1. b < e
      OBVIOUS
    <3> QED BY <2>6, <3>1
  <2>8. /\ Same(f[k + 1], g[(k + 1) + d])
        /\ g[(k + 1) + d].hidden = Image(f[k + 1].hidden, at)
        /\ Near(f[k + 1], g[(k + 1) + d], (k + 1) + 1, r)
    BY <2>1, <2>2, <2>3, <2>4, <2>5, <2>6, <2>7, CopyStep, SMTT(30)
  <2> QED BY <2>1, <2>8 DEF Mirrors
<1> HIDE DEF S
<1>3. b .. e \subseteq S
  BY <1>1, <1>2, Along
<1>4. e \in S
  BY <1>3
<1> QED BY <1>4 DEF S

\* The wrapper that AppendLimit puts around the first n characters.
Limits(w, s, n) ==
  /\ w \in Seq(Characters) /\ Len(w) = n + 6
  /\ w[1] = "S" /\ w[2] = "o" /\ w[3] = "nl"
  /\ \A k \in 1 .. n : w[k + 3] = s[k]
  /\ w[n + 4] = "nl" /\ w[n + 5] = "o" /\ w[n + 6] = "b"

LEMMA AppendLimitIs ==
  ASSUME NEW s \in Seq(Characters), NEW stop \in 0 .. Len(s),
         NEW n, n = IF stop # 0 THEN stop - 1 ELSE Len(s)
  PROVE  n \in 0 .. Len(s) /\ Limits(AppendLimit(s, stop), s, n)
<1> DEFINE t == Before(s, stop)
           front == <<"S", "o", "nl">>
           back == <<"nl", "o", "b">>
           w == AppendLimit(s, stop)
<1>1. n \in 0 .. Len(s) /\ n \in Nat
  OBVIOUS
<1>2. t \in Seq(Characters) /\ Len(t) = n /\ \A k \in 1 .. n : t[k] = s[k]
  <2>1. CASE stop = 0
    BY <2>1 DEF Before
  <2>2. CASE stop # 0
    <3>1. t = SubSeq(s, 1, n) /\ 1 \in Int /\ n \in Int
      BY <1>1, <2>2 DEF Before
    <3>2. \A k \in 1 .. n : s[k] \in Characters
      BY <1>1
    <3>3. /\ SubSeq(s, 1, n) \in Seq(Characters)
          /\ Len(SubSeq(s, 1, n)) = IF 1 <= n THEN n - 1 + 1 ELSE 0
          /\ \A k \in 1 .. n - 1 + 1 : SubSeq(s, 1, n)[k] = s[1 + k - 1]
      BY <3>1, <3>2, SubSeqProperties
    <3> QED BY <1>1, <3>1, <3>3
  <2> QED BY <2>1, <2>2
<1>3. /\ front \in Seq(Characters) /\ Len(front) = 3
      /\ front[1] = "S" /\ front[2] = "o" /\ front[3] = "nl"
      /\ back \in Seq(Characters) /\ Len(back) = 3
      /\ back[1] = "nl" /\ back[2] = "o" /\ back[3] = "b"
  <2>1. {"S", "o", "nl", "b"} \subseteq Characters
    BY DEF Characters, Letters
  <2> QED BY <2>1
<1>4. w = front \o t \o back
  BY DEF AppendLimit
<1> HIDE DEF t, front, back, w
<1>5. /\ w \in Seq(Characters) /\ Len(w) = 3 + n + 3
      /\ \A k \in 1 .. 3 : w[k] = front[k]
      /\ \A k \in 1 .. n : w[3 + k] = t[k]
      /\ \A k \in 1 .. 3 : w[3 + n + k] = back[k]
  <2>1. /\ w \in Seq(Characters) /\ Len(w) = Len(front) + Len(t) + Len(back)
        /\ \A k \in 1 .. Len(front) : w[k] = front[k]
        /\ \A k \in 1 .. Len(t) : w[Len(front) + k] = t[k]
        /\ \A k \in 1 .. Len(back) : w[Len(front) + Len(t) + k] = back[k]
    <3>1. front \in Seq(Characters) /\ t \in Seq(Characters) /\ back \in Seq(Characters)
      BY <1>2, <1>3
    <3> QED BY <1>4, <3>1, Between
  <2> QED BY <1>2, <1>3, <2>1
<1>6. w[1] = "S" /\ w[2] = "o" /\ w[3] = "nl"
  BY <1>3, <1>5
<1>7. w[3 + n + 1] = "nl" /\ w[3 + n + 2] = "o" /\ w[3 + n + 3] = "b"
  BY <1>3, <1>5
<1>8. 3 + n + 1 = n + 4 /\ 3 + n + 2 = n + 5 /\ 3 + n + 3 = n + 6
  BY <1>1
<1>9. \A k \in 1 .. n : w[k + 3] = s[k]
  BY <1>1, <1>2, <1>5
<1> QED BY <1>1, <1>5, <1>6, <1>7, <1>8, <1>9 DEF Limits, w

\* A line end outside quotes and comments, and what follows it in the wrapper.
LEMMA LineEnds ==
  ASSUME NEW q \in LexStates, NEW k \in Nat, NEW r, r = Step(q, "nl", k),
         q.mode \in {"code", "word", "dash", "slash", "tag", "line"}
  PROVE  r \in LexStates /\ r.mode = "code" /\ r.hidden = q.hidden
<1>1. /\ "nl" \in Characters /\ ~isLetter("nl") /\ ~isIdentifierPart("nl")
      /\ "code" \in Modes
  BY DEF Characters, isLetter, isIdentifierStart, isIdentifierPart, Letters, Modes
<1>2. ASSUME NEW p \in LexStates, p.hidden = q.hidden, r = InCode(p, "nl", k)
      PROVE  r \in LexStates /\ r.mode = "code" /\ r.hidden = q.hidden
  <2>1. r \in LexStates /\ AfterCode(p, "nl", k, r)
    BY <1>1, <1>2, CodeStep
  <2> QED BY <1>1, <1>2, <2>1 DEF AfterCode
<1>3. CASE q.mode = "line"
  BY <1>1, <1>3, LineStep
<1>4. CASE q.mode = "tag"
  <2>1. AfterTag(q, "nl", k, r) /\ ~OfTag(q, "nl")
    BY <1>1, <1>4, TagStep DEF OfTag
  <2>2. PICK p : p = Enter(q, "code")
    OBVIOUS
  <2>3. p \in LexStates /\ p.hidden = q.hidden
    BY <1>1, <2>2, EnterIs
  <2>4. r = InCode(p, "nl", k)
    BY <2>1, <2>2 DEF AfterTag
  <2> QED BY <1>2, <2>3, <2>4
<1>5. CASE q.mode \in {"code", "word", "dash", "slash"}
  <2>1. r = InCode(q, "nl", k)
    BY <1>5 DEF Step
  <2> QED BY <1>2, <2>1
<1> QED BY <1>3, <1>4, <1>5

\* The lexer is in ordinary text, with no pair or tag begun.
Plain(q) == q.mode \in {"code", "word"}

LEMMA OtherGoesOn ==
  ASSUME NEW q \in LexStates, Plain(q), NEW k \in Nat, NEW r, r = Step(q, "o", k)
  PROVE  r \in LexStates /\ Plain(r) /\ r.hidden = q.hidden
<1>1. "o" \in Characters /\ ~isLetter("o") /\ ~isIdentifierPart("o")
  BY DEF Characters, isLetter, isIdentifierStart, isIdentifierPart, Letters
<1>2. r = InCode(q, "o", k)
  BY DEF Step, Plain
<1>3. r \in LexStates /\ AfterCode(q, "o", k, r)
  BY <1>1, <1>2, CodeStep
<1> QED BY <1>1, <1>3 DEF AfterCode, Plain

LEMMA LetterGoesOn ==
  ASSUME NEW q \in LexStates, Plain(q), NEW k \in Nat,
         NEW r, r = Step(q, "S", k) \/ r = Step(q, "b", k)
  PROVE  r \in LexStates /\ Plain(r) /\ r.hidden = q.hidden
<1>1. PICK c \in {"S", "b"} : r = Step(q, c, k)
  OBVIOUS
<1>2. c \in Characters /\ isLetter(c)
  BY DEF Characters, isLetter, isIdentifierStart, Letters
<1>3. r = InCode(q, c, k)
  BY <1>1 DEF Step, Plain
<1>4. r \in LexStates /\ AfterCode(q, c, k, r)
  BY <1>2, <1>3, CodeStep
<1> QED BY <1>2, <1>4 DEF AfterCode, Plain

\* Three places further.
Shift(places) == {m + 3 : m \in places}

\* Where PostgreSQL is inside nothing after n characters of s, it hides in the
\* wrapper what it hides in those characters.
LEMMA LimitReads ==
  ASSUME NEW s \in Seq(Characters), NEW n \in 0 .. Len(s), NEW w, Limits(w, s, n),
         NEW f, Reads(f, s), Ready(f[n], s, n + 1)
  PROVE  PostgresLex(w).hidden = Shift(f[n].hidden)
<1>1. /\ n \in Nat /\ w \in Seq(Characters) /\ Len(w) = n + 6
      /\ w[1] = "S" /\ w[2] = "o" /\ w[3] = "nl"
      /\ w[n + 4] = "nl" /\ w[n + 5] = "o" /\ w[n + 6] = "b"
  BY DEF Limits
<1>2. PICK g : IsLex(g, w) /\ PostgresLex(w) = g[n + 6]
  BY <1>1, LexRuns
<1>3. /\ g[0] = Start
      /\ \A k \in Nat : k <= n + 6 => g[k] \in LexStates
      /\ \A k \in Nat \ {0} : k <= n + 6 => g[k] = Step(g[k - 1], w[k], k)
  <2>1. \A k \in 0 .. n + 6 : g[k] \in LexStates
    BY <1>1, <1>2, LexTypes
  <2>2. g[0] = Start /\ \A k \in 1 .. n + 6 : g[k] = Step(g[k - 1], w[k], k)
    BY <1>1, <1>2 DEF IsLex
  <2> QED BY <1>1, <2>1, <2>2
\* The line in front of the query.
<1> DEFINE at == [m \in Int |-> m + 3]
<1>4. Same(f[0], g[3]) /\ Mirrors(f[0], g[3], at) /\ Near(f[0], g[3], 1, 1)
  <2>1. /\ g[0] \in LexStates /\ g[1] = Step(g[0], "S", 1) /\ g[2] = Step(g[1], "o", 2)
        /\ g[3] = Step(g[2], "nl", 3)
    <3>1. 1 <= n + 6 /\ 2 <= n + 6 /\ 3 <= n + 6 /\ 0 <= n + 6
      BY <1>1
    <3> QED BY <1>1, <1>3, <3>1
  <2>2. Plain(g[0]) /\ g[0].hidden = {}
    BY <1>3 DEF Start, Plain
  <2>3. g[1] \in LexStates /\ Plain(g[1]) /\ g[1].hidden = {}
    <3>1. 1 \in Nat
      OBVIOUS
    <3>2. g[1] \in LexStates /\ Plain(g[1]) /\ g[1].hidden = g[0].hidden
      BY <2>1, <2>2, <3>1, LetterGoesOn, Zenon
    <3> QED BY <2>2, <3>2
  <2>4. g[2] \in LexStates /\ Plain(g[2]) /\ g[2].hidden = {}
    <3>1. 2 \in Nat
      OBVIOUS
    <3>2. g[2] \in LexStates /\ Plain(g[2]) /\ g[2].hidden = g[1].hidden
      BY <2>1, <2>3, <3>1, OtherGoesOn, Zenon
    <3> QED BY <2>3, <3>2
  <2>5. g[3].mode = "code" /\ g[3].hidden = {}
    <3>1. g[2].mode \in {"code", "word", "dash", "slash", "tag", "line"}
      BY <2>4 DEF Plain
    <3> QED BY <2>1, <2>4, <3>1, LineEnds
  <2>6. f[0] = Start
    BY DEF Reads, IsLex
  <2>7. f[0].mode = "code" /\ f[0].hidden = {}
    BY <2>6 DEF Start
  <2>8. Image({}, at) = {}
    BY DEF Image
  <2> QED BY <2>5, <2>7, <2>8 DEF Same, Mirrors, Near
\* The query.
<1>5. Same(f[n], g[n + 3]) /\ g[n + 3].hidden = Image(f[n].hidden, at)
  <2>1. PICK b \in Nat, d \in Int, r \in Int : b = 0 /\ d = 3 /\ r = 1
    OBVIOUS
  <2>2. /\ b <= n /\ n \in Nat /\ n <= Len(s) /\ b + d \in Nat /\ n + d <= Len(w) /\ r <= b + 1
        /\ f[b] = f[0] /\ g[b + d] = g[3] /\ b + 1 = 1 /\ n + d = n + 3
    BY <1>1, <2>1
  <2>3. Shifts(at, r, d)
    BY <2>1 DEF Shifts
  <2>4. Copied(s, b, n, w, d)
    BY <2>1 DEF Limits, Copied
  <2> HIDE DEF at
  <2>5. Mirrors(f[b], g[b + d], at) /\ Near(f[b], g[b + d], b + 1, r) /\ Same(f[b], g[b + d])
    BY <1>4, <2>1, <2>2
  <2>6. /\ Mirrors(f[n], g[n + d], at)
        /\ Same(f[n], g[n + d]) \/ n = b
    <3>1. b \in Nat /\ d \in Int /\ r \in Int
      BY <2>1
    <3>2. w \in Seq(Characters) /\ IsLex(g, w)
      BY <1>1, <1>2
    <3> QED BY <2>2, <2>3, <2>4, <2>5, <3>1, <3>2, CopyRun
  <2>7. n = b => Same(f[n], g[n + d])
    BY <2>5
  <2> QED BY <2>2, <2>6, <2>7 DEF Mirrors
<1>6. Image(f[n].hidden, at) = Shift(f[n].hidden)
  <2>1. n \in 0 .. Len(s)
    BY <1>1
  <2>2. f[n] \in LexStates
    BY <2>1 DEF Reads
  <2>3. f[n].hidden \subseteq Int
    BY <2>2 DEF LexStates
  <2> QED BY <2>3 DEF Image, Shift
\* The line behind it.
<1>7. /\ g[n + 3] \in LexStates /\ g[n + 4] = Step(g[n + 3], "nl", n + 4)
      /\ g[n + 5] = Step(g[n + 4], "o", n + 5) /\ g[n + 6] = Step(g[n + 5], "b", n + 6)
      /\ n + 4 \in Nat /\ n + 5 \in Nat /\ n + 6 \in Nat
  <2>1. /\ n + 3 \in Nat /\ n + 4 \in Nat \ {0} /\ n + 5 \in Nat \ {0} /\ n + 6 \in Nat \ {0}
        /\ (n + 4) - 1 = n + 3 /\ (n + 5) - 1 = n + 4 /\ (n + 6) - 1 = n + 5
        /\ n + 3 <= n + 6 /\ n + 4 <= n + 6 /\ n + 5 <= n + 6 /\ n + 6 <= n + 6
    BY <1>1
  <2> QED BY <1>1, <1>3, <2>1
<1>8. /\ g[n + 3].mode \in {"code", "word", "dash", "slash", "tag", "line"}
      /\ g[n + 3].hidden = Shift(f[n].hidden)
  BY <1>5, <1>6 DEF Same, Ready
<1>9. g[n + 4] \in LexStates /\ Plain(g[n + 4]) /\ g[n + 4].hidden = Shift(f[n].hidden)
  BY <1>7, <1>8, LineEnds DEF Plain
<1>10. g[n + 5] \in LexStates /\ Plain(g[n + 5]) /\ g[n + 5].hidden = Shift(f[n].hidden)
  BY <1>7, <1>9, OtherGoesOn
<1>11. g[n + 6].hidden = Shift(f[n].hidden)
  <2>1. g[n + 6].hidden = g[n + 5].hidden
    BY <1>7, <1>10, LetterGoesOn, Zenon
  <2> QED BY <1>10, <2>1
<1> QED BY <1>2, <1>11

\* The wrapper's last two words are outside quotes and comments, and so is no
\* semicolon but one of the query's own.
LEMMA LimitShows ==
  ASSUME NEW s \in Seq(Characters), NEW n \in 0 .. Len(s), NEW w, Limits(w, s, n),
         NEW hidden, hidden \subseteq 1 .. n, PostgresLex(w).hidden = Shift(hidden)
  PROVE  /\ {Len(w) - 1, Len(w)} \subseteq CodeOf(w)
         /\ \A k \in CodeOf(w) : w[k] = ";" => \E m \in 1 .. n : m \notin hidden /\ s[m] = ";"
<1>1. /\ n \in Nat /\ Len(w) = n + 6
      /\ w[1] = "S" /\ w[2] = "o" /\ w[3] = "nl"
      /\ w[n + 4] = "nl" /\ w[n + 5] = "o" /\ w[n + 6] = "b"
      /\ \A k \in 1 .. n : w[k + 3] = s[k]
  BY DEF Limits
<1>2. CodeOf(w) = 1 .. n + 6 \ Shift(hidden)
  BY <1>1 DEF CodeOf
<1>3. \A k \in Shift(hidden) : k \in 4 .. n + 3
  BY <1>1 DEF Shift
<1>4. {Len(w) - 1, Len(w)} \subseteq CodeOf(w)
  BY <1>1, <1>2, <1>3
<1>5. ASSUME NEW k \in CodeOf(w), w[k] = ";"
      PROVE  \E m \in 1 .. n : m \notin hidden /\ s[m] = ";"
  <2>1. k \in 1 .. n + 6 /\ k \notin Shift(hidden)
    BY <1>2
  <2>2. k \notin {1, 2, 3, n + 4, n + 5, n + 6}
    BY <1>1, <1>5
  <2>3. k - 3 \in 1 .. n /\ (k - 3) + 3 = k
    BY <1>1, <2>1, <2>2
  <2>4. s[k - 3] = ";"
    BY <1>1, <1>5, <2>3
  <2>5. k - 3 \notin hidden
    BY <2>1, <2>3 DEF Shift
  <2> QED BY <2>3, <2>4, <2>5
<1> QED BY <1>4, <1>5

\* Up to the terminator PostgreSQL reads an accepted query to an end of a turn,
\* and has hidden so far what the scanner had stepped over there.
CutAt(s, stop, hidden) == Together(s, stop, hidden \cap 1 .. stop - 1)

CutInv ==
  /\ pc = "inspect" =>
       /\ skipped \subseteq 1 .. i - 1
       /\ semicolon # 0 /\ Usual(query) => CutAt(query, semicolon, skipped)
  /\ pc = "accepted" =>
       /\ kind # "where"
       /\ semicolon = 0 /\ Usual(query) => CutAt(query, Len(query) + 1, skipped)
       /\ semicolon # 0 /\ Usual(query) => CutAt(query, semicolon, skipped)

LEMMA ReachGrows ==
  ASSUME NEW b \in Nat, NEW e \in Nat, 0 < b, b < e, NEW S, S \subseteq 1 .. b - 1,
         NEW R, R = S \/ R = S \cup (b .. e - 1)
  PROVE  R \subseteq 1 .. e - 1
<1>1. 1 .. b - 1 \subseteq 1 .. e - 1 /\ b .. e - 1 \subseteq 1 .. e - 1
  OBVIOUS
<1> QED BY <1>1

LEMMA Apart ==
  ASSUME NEW a \in Nat, NEW b \in Nat, a < b, NEW e \in Nat, NEW m \in 1 .. a - 1
  PROVE  m \notin b .. e - 1
OBVIOUS

LEMMA CutGoesOn == LexInv /\ SealInv /\ CutInv /\ [Next]_vars => CutInv'
<1> SUFFICES ASSUME LexInv, SealInv, CutInv, [Next]_vars PROVE CutInv'
  OBVIOUS
<1>1. text \in Seq(Characters)
  BY DEF LexInv
<1>2. query \in Seq(Characters) /\ Len(query) \in Nat
  BY <1>1, QueryIsText
<1>3. ASSUME UNCHANGED <<kind, text>>
      PROVE  query' = query /\ (Usual(query))' = Usual(query)
  BY <1>3 DEF query
<1>4. CASE UNCHANGED vars
  <2>1. UNCHANGED <<kind, text, pc, i, skipped, semicolon>>
    BY <1>4 DEF vars, input, inspected
  <2> QED BY <1>3, <2>1 DEF CutInv
<1>5. CASE Next /\ pc = "inspect" /\ pc' = "inspect"
  <2>1. i \in 1 .. Len(query) + 1
    BY <1>5 DEF LexInv
  <2>2. Turn
    BY <1>1, <1>5, <2>1, InspectorTurn
  <2>3. /\ UNCHANGED <<kind, text>> /\ i \in 1 .. Len(query) /\ query' = query
        /\ i' = TurnEnd(query, i) /\ i' # 0
    <3>1. UNCHANGED <<kind, text>> /\ i <= Len(query) /\ i' = TurnEnd(query, i) /\ i' # 0
      BY <2>2 DEF Turn
    <3> QED BY <1>2, <1>3, <2>1, <3>1
  <2>4. i \in Nat /\ i' \in Nat /\ i < i'
    <3>1. TurnEnd(query, i) \in {0} \cup i + 1 .. Len(query) + 1
      BY <1>2, <2>3, TurnGoesOn
    <3> QED BY <1>2, <2>3, <3>1
  <2>5. skipped \subseteq 1 .. i - 1
    BY <1>5 DEF CutInv
  <2>6. skipped' = skipped \/ skipped' = skipped \cup (i .. i' - 1)
    BY <2>2 DEF Turn
  <2>7. skipped' \subseteq 1 .. i' - 1
    <3>1. 0 < i
      BY <2>3, <2>4
    <3> QED BY <2>4, <2>5, <2>6, <3>1, ReachGrows, Zenon
  <2>8. ASSUME semicolon' # 0, Usual(query)
        PROVE  CutAt(query, semicolon', skipped')
    <3>1. CASE semicolon = 0
      <4>1. semicolon' = i /\ skipped' = skipped
        BY <2>2, <2>8, <3>1 DEF Turn
      <4>2. skipped \cap 1 .. i - 1 = skipped
        BY <2>5
      <4>3. Together(query, i, skipped)
        BY <1>5, <2>8 DEF LexInv
      <4> QED BY <4>1, <4>2, <4>3 DEF CutAt
    <3>2. CASE semicolon # 0
      <4>1. semicolon' = semicolon
        BY <2>2, <3>2 DEF Turn
      <4>2. semicolon \in Nat /\ semicolon < i
        BY <1>5 DEF SealInv, Sealed
      <4>3. skipped' \cap 1 .. semicolon - 1 = skipped \cap 1 .. semicolon - 1
        <5>1. \A m \in 1 .. semicolon - 1 : m \notin i .. i' - 1
          BY <2>4, <4>2, Apart, Zenon
        <5> QED BY <2>6, <5>1
      <4>4. CutAt(query, semicolon, skipped)
        BY <1>5, <2>8, <3>2 DEF CutInv
      <4> QED BY <4>1, <4>3, <4>4 DEF CutAt
    <3> QED BY <3>1, <3>2
  <2> QED BY <1>3, <1>5, <2>3, <2>7, <2>8 DEF CutInv
<1>6. CASE Next /\ pc = "inspect" /\ pc' # "inspect"
  <2>1. Verdict
    BY <1>6, InspectorEnds
  <2>2. UNCHANGED <<kind, text, skipped, semicolon>> /\ query' = query
    BY <1>3, <2>1 DEF Verdict
  <2>3. ASSUME pc' = "accepted"
        PROVE  /\ kind # "where"
               /\ semicolon = 0 /\ Usual(query) => CutAt(query, Len(query) + 1, skipped)
               /\ semicolon # 0 /\ Usual(query) => CutAt(query, semicolon, skipped)
    <3>1. kind # "where" /\ i > Len(query)
      BY <2>1, <2>3 DEF Verdict
    <3>2. i = Len(query) + 1
      <4>1. i \in 1 .. Len(query) + 1
        BY <1>6 DEF LexInv
      <4> QED BY <1>2, <3>1, <4>1
    <3>3. skipped \cap 1 .. i - 1 = skipped
      BY <1>6 DEF CutInv
    <3>4. Usual(query) => Together(query, i, skipped)
      BY <1>6 DEF LexInv
    <3>5. Usual(query) => CutAt(query, i, skipped)
      BY <3>3, <3>4 DEF CutAt
    <3> QED BY <1>6, <3>1, <3>2, <3>5 DEF CutInv
  <2> QED BY <1>3, <1>6, <2>2, <2>3 DEF CutInv
<1>7. CASE Next /\ pc # "inspect"
  <2>1. /\ UNCHANGED <<kind, text, skipped, semicolon>>
        /\ pc' = pc \/ (pc = "bind" /\ pc' \in {"bound", "unused", "positional", "missing",
                                              "unterminatedBind"})
    BY <1>7, InspectorRests
  <2>2. query' = query /\ (Usual(query))' = Usual(query)
    BY <1>3, <2>1
  <2>3. pc' # "inspect" /\ (pc' = "accepted" => pc = "accepted")
    BY <1>7, <2>1
  <2> QED BY <2>1, <2>2, <2>3 DEF CutInv
<1> QED BY <1>4, <1>5, <1>6, <1>7

\* The two words that AppendLimit puts behind an accepted query are read as
\* such by PostgreSQL, and no semicolon is left in front of them, for every
\* usual query, which has no backslash in a string, no dollar sign inside an
\* identifier and no character beyond ASCII in a tag (LimitIsEffective).
THEOREM LimitIsRead == Spec => []LimitIsEffective
<1>1. Init => CutInv
  <2> SUFFICES ASSUME Init PROVE CutInv
    OBVIOUS
  <2>1. pc = "inspect" /\ skipped = {} /\ semicolon = 0
    BY DEF Init
  <2> QED BY <2>1 DEF CutInv
<1>2. LexInv /\ SealInv /\ CutInv => LimitIsEffective
  <2> SUFFICES ASSUME LexInv, SealInv, CutInv, pc = "accepted", Usual(query)
               PROVE  LimitIsEffective
    BY DEF LimitIsEffective, query, CutInv
  <2>1. query = text /\ query \in Seq(Characters) /\ Len(query) \in Nat
    BY QueryIsText DEF LexInv, CutInv, query
  <2>2. Sealed(query, Len(query) + 1, skipped, semicolon)
    BY DEF SealInv
  <2>3. semicolon \in 0 .. Len(query)
    <3>1. semicolon \in Nat /\ semicolon < Len(query) + 1
      BY <2>2 DEF Sealed
    <3> QED BY <2>1, <3>1
  <2>4. PICK n : n = IF semicolon # 0 THEN semicolon - 1 ELSE Len(query)
    OBVIOUS
  <2>5. PICK w : w = AppendLimit(query, semicolon)
    OBVIOUS
  <2>6. n \in 0 .. Len(query) /\ Limits(w, query, n)
    BY <2>1, <2>3, <2>4, <2>5, AppendLimitIs
  <2>7. PICK hidden : hidden = skipped \cap 1 .. n
    OBVIOUS
  <2>8. PICK f : Reads(f, query) /\ Ready(f[n], query, n + 1) /\ f[n].hidden = hidden
    <3>1. CASE semicolon = 0
      <4>1. CutAt(query, n + 1, skipped) /\ (n + 1) - 1 = n
        BY <2>1, <2>4, <3>1 DEF CutInv
      <4> QED BY <2>7, <4>1 DEF CutAt, Together
    <3>2. CASE semicolon # 0
      <4>1. n + 1 = semicolon /\ (n + 1) - 1 = n
        BY <2>3, <2>4, <3>2
      <4>2. CutAt(query, n + 1, skipped)
        BY <3>2, <4>1 DEF CutInv
      <4> QED BY <2>7, <4>1, <4>2 DEF CutAt, Together
    <3> QED BY <3>1, <3>2
  <2>9. PostgresLex(w).hidden = Shift(hidden)
    BY <2>1, <2>6, <2>8, LimitReads
  <2>10. /\ {Len(w) - 1, Len(w)} \subseteq CodeOf(w)
         /\ \A k \in CodeOf(w) : w[k] = ";" =>
              \E m \in 1 .. n : m \notin hidden /\ query[m] = ";"
    <3>1. hidden \subseteq 1 .. n
      BY <2>7
    <3> QED BY <2>1, <2>6, <2>9, <3>1, LimitShows
  \* A semicolon in front of the terminator would be the terminator.
  <2>11. ASSUME NEW m \in 1 .. n, m \notin hidden, query[m] = ";"
         PROVE  FALSE
    <3>1. m \in Nat \ {0} /\ m < Len(query) + 1 /\ m \notin skipped
      <4>1. 1 .. n \subseteq 1 .. Len(query)
        BY <2>1, <2>6
      <4>2. m \in 1 .. Len(query)
        BY <4>1, Zenon
      <4>3. m \in Nat \ {0} /\ m < Len(query) + 1
        BY <2>1, <4>2, InText, Zenon
      <4>4. m \notin skipped
        BY <2>7, <2>11
      <4> QED BY <4>3, <4>4
    <3>2. m = semicolon
      BY <2>2, <2>11, <3>1 DEF Sealed
    <3> QED BY <2>3, <2>4, <3>1, <3>2
  <2>12. \A k \in CodeOf(w) : w[k] # ";"
    BY <2>10, <2>11
  <2> QED BY <2>1, <2>5, <2>10, <2>12 DEF LimitIsEffective
<1>3. LexInv /\ SealInv /\ CutInv /\ [Next]_vars => CutInv'
  BY CutGoesOn
<1> QED BY <1>1, <1>2, <1>3, SealedAlways, PTL DEF Spec
-----------------------------------------------------------------------------
(***************************************************************************)
(* PostgreSQL's reading at the starts of the turns of BindNamedParameters, *)
(* which may stop inside a word, but in front of no more of a dollar sign. *)
(***************************************************************************)

Rest(q, s, b) ==
  /\ q.mode \in {"code", "word", "dash", "slash", "tag", "line"}
  /\ q.mode = "dash" => ~At(s, b, "-")
  /\ q.mode = "slash" => ~At(s, b, "*")
  /\ q.mode = "line" => (b <= Len(s) => s[b] = "nl")
  /\ q.mode = "tag" => (b <= Len(s) => ~isIdentifierPart(s[b]) /\ s[b] # "$")

LEMMA RestReady ==
  ASSUME NEW q, NEW s, NEW b, Rest(q, s, b), b <= Len(s), ~isIdentifierPart(s[b])
  PROVE  Ready(q, s, b)
BY DEF Rest, Ready

\* A quote or a comment, copied as it is.
LEMMA CoverRests ==
  ASSUME NEW s \in Seq(Characters), NEW f, Reads(f, s), NEW b \in 1 .. Len(s),
         Rest(f[b - 1], s, b), Covers(s, b), NEW e, e = TurnEnd(s, b), e # 0
  PROVE  Rest(f[e - 1], s, e) /\ f[e - 1].hidden = f[b - 1].hidden \cup (b .. e - 1)
<1>1. ~isIdentifierPart(s[b])
  BY WordTurn
<1>2. Ready(f[b - 1], s, b)
  <2>1. b <= Len(s)
    OBVIOUS
  <2> QED BY <1>1, <2>1, RestReady
<1>3. ReadsTurn(f, s, b, e)
  BY <1>2, TurnReads
<1>4. /\ Ready(f[e - 1], s, e) /\ f[e - 1].mode \in {"code", "line"}
      /\ f[e - 1].hidden = f[b - 1].hidden \cup (b .. e - 1)
  BY <1>3 DEF ReadsTurn
<1> QED BY <1>4 DEF Ready, Rest

\* Any other character that starts no placeholder.
LEMMA OtherRests ==
  ASSUME NEW s \in Seq(Characters), NEW f, Reads(f, s), NEW b \in 1 .. Len(s),
         Rest(f[b - 1], s, b), ~Covers(s, b),
         s[b] = "$" /\ b < Len(s) => ~isIdentifierPart(s[b + 1])
  PROVE  Rest(f[b], s, b + 1) /\ f[b].hidden = f[b - 1].hidden
<1>1. PICK p, r, c : p = f[b - 1] /\ r = f[b] /\ c = s[b]
  OBVIOUS
<1>2. /\ b \in Nat /\ b <= Len(s) /\ Len(s) \in Nat /\ (b + 1) - 1 = b /\ b + 1 > 1
      /\ b + 1 <= Len(s) => b + 1 \in 1 .. Len(s) /\ b < Len(s)
  OBVIOUS
<1>3. CASE isIdentifierPart(c)
  <2>1. r = Step(p, c, b) /\ p \in LexStates /\ c \in Characters
    BY <1>1, ReadsOn
  <2>2. /\ p.mode \in {"code", "word", "dash", "slash"}
        /\ c \notin {"-", "/", "*", "'", "dq", "$"}
    BY <1>1, <1>2, <1>3 DEF Rest, isIdentifierPart, Letters
  <2>3. r = InCode(p, c, b)
    BY <2>1, <2>2 DEF Step
  <2>4. AfterCode(p, c, b, r)
    BY <1>2, <2>1, <2>3, CodeStep
  <2>5. r.mode \in {"word", "code"} /\ r.hidden = p.hidden
    BY <2>2, <2>4 DEF AfterCode
  <2> QED BY <1>1, <2>5 DEF Rest
<1>4. CASE ~isIdentifierPart(c)
  <2>1. Ready(p, s, b) /\ ~isIdentifierStart(c)
    BY <1>1, <1>2, <1>4, RestReady DEF isIdentifierPart, isIdentifierStart
  <2>2. Ready(r, s, b + 1) /\ r.hidden = p.hidden
    BY <1>1, <2>1, OtherReads
  <2>3. ASSUME b + 1 <= Len(s), r.mode = "tag"
        PROVE  ~isIdentifierPart(s[b + 1]) /\ s[b + 1] # "$"
    <3>1. CASE s[b] = "$" /\ dollarQuoteDelimiter(s, b) = <<>>
      BY <1>2, <2>3, <3>1, NoDelimiter
    <3>2. CASE ~(s[b] = "$" /\ dollarQuoteDelimiter(s, b) = <<>>)
      BY <1>2, <2>2, <2>3, <3>2 DEF Ready
    <3> QED BY <3>1, <3>2
  <2>4. Rest(r, s, b + 1)
    BY <2>2, <2>3 DEF Ready, Rest
  <2> QED BY <1>1, <2>2, <2>4
<1> QED BY <1>3, <1>4

\* A placeholder, which PostgreSQL reads as a tag that comes to nothing.
LEMMA NamedRests ==
  ASSUME NEW s \in Seq(Characters), NEW f, Reads(f, s), NEW b \in 1 .. Len(s),
         Rest(f[b - 1], s, b), ~Covers(s, b), s[b] = "$", b < Len(s),
         isIdentifierStart(s[b + 1]), NEW e, e = WordEnd(s, b + 2)
  PROVE  /\ e \in b + 2 .. Len(s) + 1
         /\ Rest(f[e - 1], s, e) /\ f[e - 1].hidden = f[b - 1].hidden
         /\ f[e - 1].mode = "tag"
<1>1. /\ b \in Nat /\ b <= Len(s) /\ Len(s) \in Nat /\ b + 1 \in 1 .. Len(s) /\ (b + 1) - 1 = b
      /\ (b + 1) + 1 = b + 2 /\ b + 1 > 1 /\ b + 2 \in 1 .. Len(s) + 1 /\ b + 1 \in 1 .. Len(s) + 1
  OBVIOUS
<1>2. ~isIdentifierPart(s[b]) /\ ~isIdentifierStart(s[b]) /\ isIdentifierPart(s[b + 1])
  BY DEF isIdentifierPart, isIdentifierStart, Letters
<1>3. Ready(f[b - 1], s, b)
  BY <1>1, <1>2, RestReady
<1>4. f[b].mode = "tag" /\ f[b].hidden = f[b - 1].hidden /\ f[b].buf = <<"$">>
  <2>1. AfterFirst(f[b - 1], f[b], s, b, s[b])
    BY <1>3, FirstStep
  <2> QED BY <2>1 DEF AfterFirst
<1>5. Ready(f[b], s, b + 1)
  BY <1>2, <1>3, OtherReads
<1>6. e = WordEnd(s, b + 1)
  BY <1>1, <1>2, RestOfWord
<1>7. /\ f[e - 1].hidden = f[b].hidden /\ f[e - 1].mode = f[b + 1].mode
  <2>1. Ready(f[(b + 1) - 1], s, b + 1) /\ f[(b + 1) - 1].hidden = f[b].hidden
    BY <1>1, <1>5
  <2> QED BY <1>1, <1>6, <2>1, WordReads
<1>8. f[b + 1].mode = "tag"
  <2>1. /\ f[b + 1] = Step(f[b], s[b + 1], b + 1) /\ f[b] \in LexStates
        /\ s[b + 1] \in Characters /\ b + 1 \in Nat
    BY <1>1, ReadsOn
  <2>2. AfterTag(f[b], s[b + 1], b + 1, f[b + 1])
    BY <1>4, <2>1, TagStep
  <2>3. s[b + 1] # "1"
    BY DEF isIdentifierStart, Letters
  <2>4. OfTag(f[b], s[b + 1])
    BY <1>2, <2>3 DEF OfTag
  <2> QED BY <2>2, <2>4 DEF AfterTag
<1>9. e \in b + 2 .. Len(s) + 1 /\ (e <= Len(s) => ~isIdentifierPart(s[e]))
  BY <1>1, WordEndIs
<1>10. e <= Len(s) => s[e] # "$"
  <2>1. dollarQuoteDelimiter(s, b) = <<>>
    BY DEF Covers, DelimiterAt
  <2>2. ~At(s, WordEnd(s, b + 1), "$")
    BY <1>1, <2>1, NoDelimiter
  <2> QED BY <1>6, <2>2 DEF At
<1>11. Rest(f[e - 1], s, e)
  BY <1>7, <1>8, <1>9, <1>10 DEF Rest
<1> QED BY <1>4, <1>7, <1>8, <1>9, <1>11

-----------------------------------------------------------------------------
(***************************************************************************)
(* Quoted text as a sequence: a map that keeps the order of the hidden     *)
(* places and their characters keeps it.                                   *)
(***************************************************************************)

UpTo(P, m) == {l \in P : l <= m}
Rank(P, m) == Cardinality(UpTo(P, m))

LEMMA RankGrows ==
  ASSUME NEW P \in SUBSET Int, IsFiniteSet(P)
  PROVE  /\ \A m \in P : Rank(P, m) \in 1 .. Cardinality(P)
         /\ \A l, m \in P : l < m => Rank(P, l) < Rank(P, m)
<1>1. ASSUME NEW m \in P
      PROVE  /\ UpTo(P, m) \in SUBSET P /\ m \in UpTo(P, m)
             /\ IsFiniteSet(UpTo(P, m)) /\ Rank(P, m) \in Nat
  <2>1. UpTo(P, m) \in SUBSET P /\ m \in UpTo(P, m)
    BY DEF UpTo
  <2>2. IsFiniteSet(UpTo(P, m))
    BY <2>1, FS_Subset
  <2> QED BY <2>1, <2>2, FS_CardinalityType DEF Rank
<1>2. ASSUME NEW m \in P
      PROVE  Rank(P, m) \in 1 .. Cardinality(P)
  <2>1. Rank(P, m) <= Cardinality(P) /\ Cardinality(P) \in Nat
    BY <1>1, FS_Subset, FS_CardinalityType DEF Rank
  <2>2. Rank(P, m) # 0
    BY <1>1, FS_EmptySet DEF Rank
  <2> QED BY <1>1, <2>1, <2>2
<1>3. ASSUME NEW l \in P, NEW m \in P, l < m
      PROVE  Rank(P, l) < Rank(P, m)
  <2>1. UpTo(P, l) \in SUBSET UpTo(P, m) /\ UpTo(P, l) # UpTo(P, m)
    <3>1. l \in Int /\ m \in Int
      OBVIOUS
    <3>2. UpTo(P, l) \subseteq UpTo(P, m)
      <4>1. \A x \in P : x <= l => x <= m
        BY <1>3, <3>1
      <4> QED BY <4>1 DEF UpTo
    <3>3. m \in UpTo(P, m) /\ m \notin UpTo(P, l)
      BY <1>3, <3>1 DEF UpTo
    <3>4. UpTo(P, l) # UpTo(P, m)
      BY <3>3
    <3>5. UpTo(P, l) \in SUBSET UpTo(P, m)
      BY <3>2
    <3> QED BY <3>4, <3>5
  <2>2. /\ Cardinality(UpTo(P, l)) <= Cardinality(UpTo(P, m))
        /\ Cardinality(UpTo(P, l)) # Cardinality(UpTo(P, m))
    <3>1. IsFiniteSet(UpTo(P, m))
      BY <1>1
    <3> QED BY <2>1, <3>1, FS_Subset
  <2>3. Rank(P, l) \in Nat /\ Rank(P, m) \in Nat
    BY <1>1
  <2> QED BY <2>2, <2>3 DEF Rank
<1> QED BY <1>2, <1>3

LEMMA RankReached ==
  ASSUME NEW P \in SUBSET Int, IsFiniteSet(P), NEW n \in 1 .. Cardinality(P)
  PROVE  \E m \in P : Rank(P, m) = n
<1> DEFINE size == Cardinality(P)
           rank == [m \in P |-> Rank(P, m)]
<1>1. size \in Nat
  BY FS_CardinalityType
<1>2. IsFiniteSet(1 .. size) /\ Cardinality(1 .. size) = size
  BY <1>1, FS_Interval
<1>3. rank \in Injection(P, 1 .. size)
  <2>1. rank \in [P -> 1 .. size]
    BY RankGrows
  <2>2. ASSUME NEW l \in P, NEW m \in P, rank[l] = rank[m]
        PROVE  l = m
    <3>1. l \in Int /\ m \in Int /\ Rank(P, l) = Rank(P, m)
      BY <2>2
    <3>2. ~(l < m) /\ ~(m < l)
      <4>1. Rank(P, l) \in Int
        BY RankGrows
      <4> QED BY <3>1, <4>1, RankGrows
    <3> QED BY <3>1, <3>2
  <2> HIDE DEF rank
  <2> QED BY <2>1, <2>2 DEF Injection, IsInjective
<1> HIDE DEF size
<1>4. rank \in Surjection(P, 1 .. size)
  BY <1>2, <1>3, FS_Injection DEF size
<1>5. \E m \in P : rank[m] = n
  BY <1>4 DEF Surjection, size
<1> QED BY <1>5

\* at keeps the order of the places P.
Ordered(at, P) ==
  /\ \A m \in P : at[m] \in Int
  /\ \A l, m \in P : l < m => at[l] < at[m]

LEMMA OrderedImage ==
  ASSUME NEW P \in SUBSET Int, IsFiniteSet(P), NEW at, Ordered(at, P)
  PROVE  /\ Image(P, at) \in SUBSET Int /\ IsFiniteSet(Image(P, at))
         /\ Cardinality(Image(P, at)) = Cardinality(P)
<1> DEFINE move == [m \in P |-> at[m]]
<1>1. Image(P, at) \in SUBSET Int
  BY DEF Image, Ordered
<1>2. move \in [P -> Image(P, at)]
  BY DEF Image
<1>3. ASSUME NEW l \in P, NEW m \in P, move[l] = move[m]
      PROVE  l = m
  <2>1. l \in Int /\ m \in Int /\ at[l] = at[m] /\ at[l] \in Int
    BY <1>3 DEF Ordered
  <2>2. ~(l < m) /\ ~(m < l)
    BY <2>1 DEF Ordered
  <2> QED BY <2>1, <2>2
<1>4. \A x \in Image(P, at) : \E m \in P : move[m] = x
  BY DEF Image
<1> HIDE DEF move
<1>5. move \in Bijection(P, Image(P, at))
  BY <1>2, <1>3, <1>4 DEF Bijection, Injection, IsInjective, Surjection
<1>6. ExistsBijection(P, Image(P, at))
  BY <1>5 DEF ExistsBijection
<1> QED BY <1>1, <1>6, FS_Bijection

LEMMA RankMoves ==
  ASSUME NEW P \in SUBSET Int, IsFiniteSet(P), NEW at, Ordered(at, P), NEW m \in P
  PROVE  Rank(Image(P, at), at[m]) = Rank(P, m)
<1>1. UpTo(P, m) \in SUBSET P /\ UpTo(P, m) \in SUBSET Int
  BY DEF UpTo
<1>2. IsFiniteSet(UpTo(P, m)) /\ Ordered(at, UpTo(P, m))
  BY <1>1, FS_Subset DEF Ordered
<1>3. UpTo(Image(P, at), at[m]) = Image(UpTo(P, m), at)
  <2>1. ASSUME NEW l \in P
        PROVE  at[l] <= at[m] <=> l <= m
    <3>1. l \in Int /\ m \in Int /\ at[l] \in Int /\ at[m] \in Int
      BY DEF Ordered
    <3>2. (l < m => at[l] < at[m]) /\ (m < l => at[m] < at[l])
      BY DEF Ordered
    <3> QED BY <3>1, <3>2
  <2> QED BY <2>1 DEF UpTo, Image
<1>4. Cardinality(Image(UpTo(P, m), at)) = Cardinality(UpTo(P, m))
  BY <1>1, <1>2, OrderedImage
<1> QED BY <1>3, <1>4 DEF Rank

\* The characters of s at the places P, in order.
TextAt(P, s) == [n \in 1 .. Cardinality(P) |-> s[CHOOSE m \in P : Rank(P, m) = n]]

LEMMA TextMoves ==
  ASSUME NEW P \in SUBSET Int, IsFiniteSet(P), NEW at, Ordered(at, P),
         NEW s, NEW w, \A m \in P : w[at[m]] = s[m]
  PROVE  TextAt(Image(P, at), w) = TextAt(P, s)
<1> DEFINE Q == Image(P, at)
<1>1. Q \in SUBSET Int /\ IsFiniteSet(Q) /\ Cardinality(Q) = Cardinality(P)
  BY OrderedImage
<1>2. ASSUME NEW n \in 1 .. Cardinality(P)
      PROVE  w[CHOOSE x \in Q : Rank(Q, x) = n] = s[CHOOSE m \in P : Rank(P, m) = n]
  <2>1. PICK m \in P : m = CHOOSE l \in P : Rank(P, l) = n
    BY RankReached
  <2>2. Rank(P, m) = n
    BY <2>1, RankReached
  <2>3. at[m] \in Q /\ Rank(Q, at[m]) = n
    BY <2>2, RankMoves DEF Image
  <2>4. ASSUME NEW x \in Q, Rank(Q, x) = n
        PROVE  x = at[m]
    <3>1. x \in Int /\ at[m] \in Int /\ n \in Int
      BY <1>1, <2>3
    <3> HIDE DEF Q
    <3>2. ~(x < at[m]) /\ ~(at[m] < x)
      BY <1>1, <2>3, <2>4, <3>1, RankGrows
    <3> QED BY <3>1, <3>2
  <2> HIDE DEF Q
  <2>5. (CHOOSE x \in Q : Rank(Q, x) = n) = at[m]
    BY <2>3, <2>4
  <2> QED BY <2>1, <2>5
<1> HIDE DEF Q
<1> QED BY <1>1, <1>2 DEF TextAt, Q

-----------------------------------------------------------------------------
(***************************************************************************)
(* The rewritten clause against the clause.                                *)
(***************************************************************************)

\* PostgreSQL reads the beginning of a text the same whatever comes after it.
LEMMA LexPrefix ==
  ASSUME NEW o \in Seq(Characters), NEW w \in Seq(Characters), Len(o) <= Len(w),
         \A k \in 1 .. Len(o) : w[k] = o[k], NEW g, IsLex(g, w)
  PROVE  PostgresLex(o) = g[Len(o)] /\ PostgresLex(o) \in LexStates
<1>1. PICK h : IsLex(h, o) /\ PostgresLex(o) = h[Len(o)]
  BY LexRuns
<1> DEFINE S == {k \in Nat : g[k] = h[k]}
<1>2. 0 \in S
  BY <1>1 DEF IsLex
<1>3. ASSUME NEW k \in 0 .. Len(o) - 1, k \in S
      PROVE  k + 1 \in S
  <2>1. k + 1 \in 1 .. Len(o) /\ k + 1 \in 1 .. Len(w) /\ (k + 1) - 1 = k /\ k + 1 \in Nat
    OBVIOUS
  <2>2. h[k + 1] = Step(h[k], o[k + 1], k + 1) /\ g[k + 1] = Step(g[k], w[k + 1], k + 1)
    BY <1>1, <2>1 DEF IsLex
  <2> QED BY <1>3, <2>1, <2>2
<1>4. Len(o) \in S
  <2>1. Len(o) \in Nat /\ 0 \in Nat /\ Len(o) \in 0 .. Len(o)
    OBVIOUS
  <2> HIDE DEF S
  <2>2. 0 .. Len(o) \subseteq S
    BY <1>2, <1>3, <2>1, Along
  <2> QED BY <2>1, <2>2
<1>5. h[Len(o)] \in LexStates
  <2>1. Len(o) \in 0 .. Len(o)
    OBVIOUS
  <2> QED BY <1>1, <2>1, LexTypes
<1> QED BY <1>1, <1>4, <1>5

\* In front of place b of s the rewritten text o has the quotes and comments
\* of s so far, each character where at says, and PostgreSQL has come to the
\* same in both texts.
Keeps(s, p, o, b, at) ==
  /\ p.hidden \in SUBSET (1 .. b - 1) /\ Ordered(at, p.hidden)
  /\ \A m \in p.hidden : at[m] \in 1 .. Len(o) /\ o[at[m]] = s[m]
Kept(s, p, o, b, at, r, d) ==
  /\ r \in Int /\ r <= b /\ d \in Int /\ (b - 1) + d = Len(o) /\ Shifts(at, r, d)
  /\ Rest(p, s, b) /\ Mirrors(p, PostgresLex(o), at) /\ Near(p, PostgresLex(o), b, r)
  /\ Keeps(s, p, o, b, at)

LEMMA KeptStarts ==
  ASSUME NEW s \in Seq(Characters), NEW f, Reads(f, s)
  PROVE  \E at, r, d : Kept(s, f[0], <<>>, 1, at, r, d)
<1> DEFINE at == [m \in Int |-> m]
<1>1. PICK o \in Seq(Characters) : o = <<>> /\ Len(o) = 0
  <2>1. <<>> \in Seq(Characters) /\ Len(<<>>) = 0
    OBVIOUS
  <2> QED BY <2>1, Zenon
<1>2. f[0] = Start
  BY DEF Reads, IsLex
<1>3. PostgresLex(o) = Start
  <2>1. PICK g : IsLex(g, o) /\ PostgresLex(o) = g[Len(o)]
    BY LexRuns
  <2> QED BY <1>1, <2>1 DEF IsLex
<1>4. f[0].mode = "code" /\ f[0].hidden = {}
  BY <1>2 DEF Start
<1>5. Shifts(at, 1, 0)
  BY DEF Shifts
<1>6. Mirrors(f[0], PostgresLex(o), at)
  BY <1>2, <1>3, <1>4 DEF Mirrors, Same, Image
<1>7. Rest(f[0], s, 1) /\ Near(f[0], PostgresLex(o), 1, 1)
  BY <1>4 DEF Rest, Near
<1>8. Keeps(s, f[0], o, 1, at)
  BY <1>4 DEF Keeps, Ordered
<1> HIDE DEF at
<1>9. Kept(s, f[0], o, 1, at, 1, 0)
  BY <1>1, <1>5, <1>6, <1>7, <1>8 DEF Kept
<1> QED BY <1>1, <1>9

\* o is the beginning of w.
Begins(o, w) == \A k \in 1 .. Len(o) : w[k] = o[k]

LEMMA PartIs ==
  ASSUME NEW s \in Seq(Characters), NEW u \in Nat, NEW v \in Nat, u < v, v <= Len(s)
  PROVE  /\ SubSeq(s, u + 1, v) \in Seq(Characters) /\ Len(SubSeq(s, u + 1, v)) = v - u
         /\ \A k \in 1 .. v - u : SubSeq(s, u + 1, v)[k] = s[u + k]
<1>1. u + 1 \in Int /\ v \in Int /\ \A k \in u + 1 .. v : s[k] \in Characters
  OBVIOUS
<1>2. /\ SubSeq(s, u + 1, v) \in Seq(Characters)
      /\ Len(SubSeq(s, u + 1, v)) = IF u + 1 <= v THEN v - (u + 1) + 1 ELSE 0
      /\ \A k \in 1 .. v - (u + 1) + 1 : SubSeq(s, u + 1, v)[k] = s[(u + 1) + k - 1]
  BY <1>1, SubSeqProperties
<1>3. v - (u + 1) + 1 = v - u /\ u + 1 <= v /\ \A k \in Int : (u + 1) + k - 1 = u + k
  OBVIOUS
<1>4. \A k \in 1 .. v - u : k \in Int
  OBVIOUS
<1> QED BY <1>2, <1>3, <1>4

LEMMA AppendIs ==
  ASSUME NEW o \in Seq(Characters), NEW t \in Seq(Characters)
  PROVE  /\ o \o t \in Seq(Characters) /\ Len(o \o t) = Len(o) + Len(t) /\ Begins(o, o \o t)
         /\ \A k \in 1 .. Len(t) : (o \o t)[Len(o) + k] = t[k]
<1> DEFINE n == Len(o)
           m == Len(t)
<1>1. n \in Nat /\ m \in Nat
  OBVIOUS
<1>2. /\ o \o t \in Seq(Characters) /\ Len(o \o t) = n + m
      /\ \A k \in 1 .. n + m : (o \o t)[k] = IF k <= n THEN o[k] ELSE t[k - n]
  BY ConcatProperties
<1> HIDE DEF n, m
<1>3. PICK w : w = o \o t
  OBVIOUS
<1>4. \A k \in 1 .. n + m : w[k] = IF k <= n THEN o[k] ELSE t[k - n]
  BY <1>2, <1>3
<1>5. \A k \in 1 .. n : w[k] = o[k]
  BY <1>1, <1>4
<1>6. ASSUME NEW k \in 1 .. m
      PROVE  w[n + k] = t[k]
  <2>1. n + k \in 1 .. n + m /\ ~(n + k <= n) /\ (n + k) - n = k
    BY <1>1
  <2> QED BY <1>4, <2>1
<1> QED BY <1>2, <1>3, <1>5, <1>6 DEF Begins, n, m

\* w is o, followed by the text of s from place u + 1 to place v.
LEMMA JoinIs ==
  ASSUME NEW s \in Seq(Characters), NEW o \in Seq(Characters),
         NEW u \in Nat, NEW v \in Nat, u < v, v <= Len(s), NEW d \in Int, u + d = Len(o)
  PROVE  /\ o \o SubSeq(s, u + 1, v) \in Seq(Characters)
         /\ Len(o \o SubSeq(s, u + 1, v)) = v + d
         /\ Begins(o, o \o SubSeq(s, u + 1, v))
         /\ Copied(s, u, v, o \o SubSeq(s, u + 1, v), d)
<1> DEFINE n == Len(o)
<1>1. PICK t : t = SubSeq(s, u + 1, v)
  OBVIOUS
<1>2. /\ t \in Seq(Characters) /\ Len(t) = v - u
      /\ \A k \in 1 .. v - u : t[k] = s[u + k]
  BY <1>1, PartIs
<1>3. PICK w : w = o \o t
  OBVIOUS
<1>4. /\ w \in Seq(Characters) /\ Len(w) = n + (v - u) /\ Begins(o, w)
      /\ \A k \in 1 .. v - u : w[n + k] = t[k]
  <2>1. /\ o \o t \in Seq(Characters) /\ Len(o \o t) = Len(o) + Len(t) /\ Begins(o, o \o t)
        /\ \A k \in 1 .. Len(t) : (o \o t)[Len(o) + k] = t[k]
    BY <1>2, AppendIs
  <2> QED BY <1>2, <1>3, <2>1
<1>5. n \in Nat /\ n = u + d
  OBVIOUS
<1> HIDE DEF n
<1>6. n + (v - u) = v + d
  BY <1>5
<1>7. ASSUME NEW k \in u + 1 .. v
      PROVE  w[k + d] = s[k]
  <2>1. k - u \in 1 .. v - u /\ n + (k - u) = k + d /\ u + (k - u) = k
    BY <1>5
  <2>2. w[n + (k - u)] = t[k - u] /\ t[k - u] = s[u + (k - u)]
    BY <1>2, <1>4, <2>1
  <2> QED BY <2>1, <2>2
<1>8. Copied(s, u, v, w, d)
  BY <1>7 DEF Copied
<1> QED BY <1>1, <1>3, <1>4, <1>6, <1>8

LEMMA BackAgain ==
  ASSUME NEW k \in Nat
  PROVE  (k + 1) - 1 = k /\ k \in Int
OBVIOUS

LEMMA Below ==
  ASSUME NEW n \in Int, NEW z \in Int, NEW x \in 1 .. n, NEW y \in n + 1 .. z
  PROVE  x < y
OBVIOUS

\* Text that is copied is read as before.
LEMMA KeptCopy ==
  ASSUME NEW s \in Seq(Characters), NEW f, Reads(f, s), NEW u \in Nat, NEW v \in Nat,
         u < v, v <= Len(s), NEW o \in Seq(Characters), NEW w \in Seq(Characters),
         NEW at, NEW r \in Int, NEW d \in Int, Kept(s, f[u], o, u + 1, at, r, d),
         Len(w) = v + d, Begins(o, w), Copied(s, u, v, w, d),
         Rest(f[v], s, v + 1), f[v].hidden \in SUBSET (f[u].hidden \cup (u + 1 .. v))
  PROVE  Kept(s, f[v], w, v + 1, at, r, d)
<1> DEFINE n == Len(o)
           p == f[u]
           x == f[v]
<1>1. n \in Nat /\ (u + 1) - 1 = u /\ (v + 1) - 1 = v /\ u <= v /\ u \in Int /\ v \in Int
  <2>1. n \in Nat
    OBVIOUS
  <2>2. (u + 1) - 1 = u /\ (v + 1) - 1 = v /\ u \in Int /\ v \in Int
    BY BackAgain, Zenon
  <2>3. u <= v
    BY <2>2
  <2> QED BY <2>1, <2>2, <2>3, Zenon
<1>2. /\ r <= u + 1 /\ u + d = n /\ Shifts(at, r, d)
      /\ Rest(p, s, u + 1) /\ Mirrors(p, PostgresLex(o), at)
      /\ Near(p, PostgresLex(o), u + 1, r) /\ Keeps(s, p, o, u + 1, at)
  BY <1>1 DEF Kept
<1>3. n <= v + d /\ u + d \in Nat /\ v + d <= Len(w) /\ u + 1 <= Len(s)
  BY <1>1, <1>2
<1>4. PICK g : IsLex(g, w) /\ PostgresLex(w) = g[v + d]
  BY LexRuns
<1>5. PostgresLex(o) = g[u + d]
  <2>1. n <= Len(w)
    BY <1>3
  <2> QED BY <1>2, <1>4, <2>1, LexPrefix DEF Begins
<1>6. Mirrors(x, PostgresLex(w), at) /\ Near(x, PostgresLex(w), v + 1, r)
  <2>1. Mirrors(p, g[u + d], at) /\ Near(p, g[u + d], u + 1, r)
    BY <1>2, <1>5
  <2>2. Same(p, g[u + d]) \/ (s[u + 1] # "$" /\ ~isIdentifierPart(s[u + 1]))
    <3>1. Same(p, g[u + d]) \/ p.mode = "tag"
      BY <2>1 DEF Mirrors
    <3>2. Rest(p, s, u + 1) /\ u + 1 <= Len(s)
      BY <1>2, <1>3
    <3> HIDE DEF p
    <3>3. p.mode = "tag" => s[u + 1] # "$" /\ ~isIdentifierPart(s[u + 1])
      BY <3>2, Zenon DEF Rest
    <3> QED BY <3>1, <3>3
  <2>3. /\ u <= v /\ u + d \in Nat /\ v + d <= Len(w) /\ Shifts(at, r, d) /\ r <= u + 1
        /\ IsLex(g, w) /\ Mirrors(f[u], g[u + d], at) /\ Near(f[u], g[u + d], u + 1, r)
        /\ u < v => Same(f[u], g[u + d]) \/ (s[u + 1] # "$" /\ ~isIdentifierPart(s[u + 1]))
    <3>1. u <= v /\ u + d \in Nat /\ v + d <= Len(w)
      BY <1>1, <1>3, Zenon
    <3>2. Shifts(at, r, d) /\ r <= u + 1
      BY <1>2, Zenon
    <3>3. Mirrors(f[u], g[u + d], at) /\ Near(f[u], g[u + d], u + 1, r)
      BY <2>1, Zenon
    <3> QED BY <1>4, <2>2, <3>1, <3>2, <3>3, Zenon
  <2>4. Mirrors(f[v], g[v + d], at) /\ Near(f[v], g[v + d], v + 1, r)
    BY <2>3, CopyRun, ZenonT(30)
  <2> QED BY <1>4, <2>4
<1>7. Keeps(s, x, w, v + 1, at)
  <2>1. /\ p.hidden \in SUBSET (1 .. u) /\ Ordered(at, p.hidden)
        /\ \A m \in p.hidden : at[m] \in 1 .. n /\ o[at[m]] = s[m]
    BY <1>1, <1>2 DEF Keeps
  <2>2. \A m \in x.hidden : m \in p.hidden \/ m \in u + 1 .. v
    OBVIOUS
  <2> HIDE DEF n, p, x
  <2>3. ASSUME NEW m \in p.hidden
        PROVE  m \in 1 .. u /\ at[m] \in 1 .. n /\ w[at[m]] = s[m]
    BY <2>1 DEF Begins, n
  <2>4. ASSUME NEW m \in u + 1 .. v
        PROVE  /\ m \in Int /\ at[m] = m + d /\ m + d \in n + 1 .. v + d
               /\ w[at[m]] = s[m]
    <3>1. m \in Int /\ m >= r /\ m + d \in n + 1 .. v + d
      BY <1>1, <1>2
    <3>2. at[m] = m + d
      BY <1>2, <3>1 DEF Shifts
    <3>3. w[m + d] = s[m]
      BY DEF Copied
    <3> QED BY <3>1, <3>2, <3>3
  <2>5. ASSUME NEW m \in x.hidden
        PROVE  m \in 1 .. v /\ at[m] \in 1 .. Len(w) /\ w[at[m]] = s[m]
    <3>1. CASE m \in p.hidden
      <4>1. m \in 1 .. u /\ at[m] \in 1 .. n /\ w[at[m]] = s[m]
        BY <2>3, <3>1
      <4>2. 1 .. n \subseteq 1 .. Len(w) /\ 1 .. u \subseteq 1 .. v
        BY <1>1, <1>2, <1>3
      <4> QED BY <4>1, <4>2
    <3>2. CASE m \in u + 1 .. v
      <4>1. at[m] \in n + 1 .. v + d /\ w[at[m]] = s[m]
        BY <2>4, <3>2
      <4>2. n + 1 .. v + d \subseteq 1 .. Len(w) /\ u + 1 .. v \subseteq 1 .. v
        BY <1>1, <1>2, <1>3
      <4> QED BY <3>2, <4>1, <4>2
    <3> QED BY <2>2, <3>1, <3>2
  <2>6. ASSUME NEW l \in x.hidden, NEW m \in x.hidden, l < m
        PROVE  at[l] < at[m]
    <3>1. CASE l \in p.hidden /\ m \in p.hidden
      BY <2>1, <2>6, <3>1 DEF Ordered
    <3>2. CASE l \in p.hidden /\ m \in u + 1 .. v
      <4>1. at[l] \in 1 .. n /\ at[m] \in n + 1 .. v + d
        BY <2>3, <2>4, <3>2
      <4>2. n \in Int /\ v + d \in Int
        BY <1>1
      <4> QED BY <4>1, <4>2, Below, Zenon
    <3>3. CASE l \in u + 1 .. v /\ m \in p.hidden
      <4>1. m \in 1 .. u /\ l \in u + 1 .. v
        BY <2>3, <3>3
      <4> QED BY <1>1, <2>6, <4>1
    <3>4. CASE l \in u + 1 .. v /\ m \in u + 1 .. v
      <4>1. l \in Int /\ m \in Int /\ at[l] = l + d /\ at[m] = m + d
        BY <2>4, <3>4
      <4> QED BY <1>2, <2>6, <4>1
    <3> QED BY <2>2, <3>1, <3>2, <3>3, <3>4
  <2>7. \A m \in x.hidden : at[m] \in Int
    <3>1. 1 .. Len(w) \subseteq Int
      OBVIOUS
    <3> QED BY <2>5, <3>1
  <2> QED BY <1>1, <2>5, <2>6, <2>7 DEF Keeps, Ordered
<1> QED BY <1>1, <1>2, <1>3, <1>6, <1>7 DEF Kept

\* PostgreSQL reads "$1" as a tag that comes to nothing, and hides none of it.
LEMMA SlotReads ==
  ASSUME NEW q \in LexStates, q.mode \in {"code", "dash", "slash"}, NEW k \in Nat,
         NEW l \in Nat, NEW x, x = Step(q, "$", k), NEW y, y = Step(x, "1", l)
  PROVE  y.mode = "code" /\ y.hidden = q.hidden
<1>1. "$" \in Characters /\ "1" \in Characters
  BY DEF Characters
<1>2. x = InCode(q, "$", k)
  BY DEF Step
<1>3. x \in LexStates /\ AfterCode(q, "$", k, x)
  BY <1>1, <1>2, CodeStep
<1>4. x.mode = "tag" /\ x.hidden = q.hidden /\ x.buf = <<"$">>
  BY <1>3 DEF AfterCode
<1>5. AfterTag(x, "1", l, y)
  BY <1>1, <1>3, <1>4, TagStep
<1>6. ~OfTag(x, "1")
  BY <1>4 DEF OfTag
<1>7. y = InCode(Enter(x, "code"), "1", l)
  BY <1>5, <1>6 DEF AfterTag
<1>8. PICK z : z = Enter(x, "code")
  OBVIOUS
<1>9. z \in LexStates /\ z.mode = "code" /\ z.hidden = q.hidden
  BY <1>3, <1>4, <1>8, EnterIs DEF Modes
<1>10. AfterCode(z, "1", l, y)
  BY <1>1, <1>7, <1>8, <1>9, CodeStep
<1>11. ~isLetter("1")
  BY DEF isLetter, isIdentifierStart, Letters
<1> QED BY <1>9, <1>10, <1>11 DEF AfterCode

LEMMA SlotIs ==
  ASSUME NEW o \in Seq(Characters), NEW w, w = o \o <<"$", "1">>
  PROVE  /\ w \in Seq(Characters) /\ Len(w) = Len(o) + 2 /\ Begins(o, w)
         /\ w[Len(o) + 1] = "$" /\ w[Len(o) + 2] = "1"
<1>1. PICK t : t = <<"$", "1">>
  OBVIOUS
<1>2. t \in Seq(Characters) /\ Len(t) = 2 /\ t[1] = "$" /\ t[2] = "1"
  <2>1. "$" \in Characters /\ "1" \in Characters
    BY DEF Characters
  <2> QED BY <1>1, <2>1
<1>3. /\ o \o t \in Seq(Characters) /\ Len(o \o t) = Len(o) + Len(t) /\ Begins(o, o \o t)
      /\ \A k \in 1 .. Len(t) : (o \o t)[Len(o) + k] = t[k]
  BY <1>2, AppendIs
<1>4. 1 \in 1 .. 2 /\ 2 \in 1 .. 2
  OBVIOUS
<1> QED BY <1>1, <1>2, <1>3, <1>4

\* The same, with the slot in place of a name.
LEMMA SlotKept ==
  ASSUME NEW o \in Seq(Characters), NEW w \in Seq(Characters), Len(w) = Len(o) + 2,
         Begins(o, w), w[Len(o) + 1] = "$", w[Len(o) + 2] = "1",
         PostgresLex(o).mode \in {"code", "dash", "slash"}
  PROVE  /\ PostgresLex(w).mode = "code" /\ PostgresLex(w).hidden = PostgresLex(o).hidden
<1> DEFINE n == Len(o)
<1>1. /\ w \in Seq(Characters) /\ Len(w) = n + 2 /\ Begins(o, w)
      /\ w[n + 1] = "$" /\ w[n + 2] = "1"
  OBVIOUS
<1>2. PICK g : IsLex(g, w) /\ PostgresLex(w) = g[n + 2]
  BY <1>1, LexRuns
<1>3. n \in Nat /\ n <= Len(w)
  BY <1>1
<1>4. PostgresLex(o) = g[n] /\ PostgresLex(o) \in LexStates
  BY <1>1, <1>2, <1>3, LexPrefix DEF Begins
<1> HIDE DEF n
<1>5. g[n + 1] = Step(g[n], "$", n + 1) /\ g[n + 2] = Step(g[n + 1], "1", n + 2)
  <2>1. /\ n + 1 \in 1 .. Len(w) /\ n + 2 \in 1 .. Len(w)
        /\ (n + 1) - 1 = n /\ (n + 2) - 1 = n + 1
    BY <1>1, <1>3
  <2>2. g[n + 1] = Step(g[(n + 1) - 1], w[n + 1], n + 1)
    BY <1>2, <2>1 DEF IsLex
  <2>3. g[n + 2] = Step(g[(n + 2) - 1], w[n + 2], n + 2)
    BY <1>2, <2>1 DEF IsLex
  <2> QED BY <1>1, <2>1, <2>2, <2>3
<1>6. n + 1 \in Nat /\ n + 2 \in Nat
  BY <1>3
<1>7. g[n + 2].mode = "code" /\ g[n + 2].hidden = g[n].hidden
  <2>1. g[n] \in LexStates /\ g[n].mode \in {"code", "dash", "slash"}
    BY <1>4
  <2> QED BY <1>5, <1>6, <2>1, SlotReads
<1> QED BY <1>1, <1>2, <1>4, <1>7 DEF n

LEMMA KeptNamed ==
  ASSUME NEW s \in Seq(Characters), NEW f, Reads(f, s), NEW b \in 1 .. Len(s),
         NEW o \in Seq(Characters), NEW at, NEW r, NEW d, Kept(s, f[b - 1], o, b, at, r, d),
         ~Covers(s, b), s[b] = "$", b < Len(s), isIdentifierStart(s[b + 1]),
         NEW e, e = WordEnd(s, b + 2), NEW w, w = o \o <<"$", "1">>
  PROVE  e \in b + 2 .. Len(s) + 1 /\ w \in Seq(Characters)
         /\ \E to, q, z : Kept(s, f[e - 1], w, e, to, q, z)
<1> DEFINE p == f[b - 1]
           x == f[e - 1]
<1>1. /\ Rest(p, s, b) /\ Mirrors(p, PostgresLex(o), at) /\ Keeps(s, p, o, b, at)
      /\ b <= Len(s) /\ b \in Nat
  BY DEF Kept
<1>2. /\ e \in b + 2 .. Len(s) + 1 /\ Rest(x, s, e) /\ x.hidden = p.hidden
      /\ x.mode = "tag"
  BY <1>1, NamedRests
<1>3. /\ e \in Nat /\ b < e /\ e - 1 \in Int /\ Len(o) \in Nat
      /\ 1 .. b - 1 \subseteq 1 .. e - 1
  <2>1. e \in Nat /\ b < e
    BY <1>1, <1>2
  <2>2. Len(o) \in Nat
    OBVIOUS
  <2>3. 1 .. b - 1 \subseteq 1 .. e - 1 /\ e - 1 \in Int
    BY <1>1, <2>1
  <2> QED BY <2>1, <2>2, <2>3
<1>4. p.mode \in {"code", "dash", "slash"} /\ PostgresLex(o).mode = p.mode
  <2>1. f[b] = Step(p, "$", b) /\ p \in LexStates /\ "$" \in Characters /\ ~f[b].unusual
    BY ReadsOn
  <2>2. ~isIdentifierPart("$")
    BY DEF isIdentifierPart, Letters
  <2>3. p.mode \in {"code", "word", "dash", "slash"}
    BY <1>1 DEF Rest
  <2>4. f[b] = InCode(p, "$", b)
    BY <2>1, <2>3 DEF Step
  <2>5. AfterCode(p, "$", b, f[b])
    BY <1>1, <2>1, <2>4, CodeStep
  <2>6. p.mode # "word"
    BY <2>1, <2>5 DEF AfterCode
  <2> QED BY <1>1, <2>3, <2>6 DEF Mirrors, Same
<1>5. /\ w \in Seq(Characters) /\ Len(w) = Len(o) + 2 /\ Begins(o, w)
      /\ PostgresLex(w).mode = "code" /\ PostgresLex(w).hidden = PostgresLex(o).hidden
  <2>1. /\ w \in Seq(Characters) /\ Len(w) = Len(o) + 2 /\ Begins(o, w)
        /\ w[Len(o) + 1] = "$" /\ w[Len(o) + 2] = "1"
    BY SlotIs
  <2>2. PostgresLex(o).mode \in {"code", "dash", "slash"}
    BY <1>4
  <2> QED BY <2>1, <2>2, SlotKept, Zenon
<1> DEFINE n == Len(o)
           z == n + 2 - (e - 1)
           to == [m \in Int |-> IF m < e THEN at[m] ELSE m + z]
<1>6. z \in Int /\ (e - 1) + z = n + 2 /\ e \in Int
  <2>1. n \in Int /\ e \in Int
    BY <1>3
  <2> HIDE DEF n
  <2> QED BY <2>1
<1>7. Shifts(to, e, z)
  BY <1>3 DEF Shifts
<1>8. \A m \in p.hidden : m \in 1 .. b - 1 /\ to[m] = at[m]
  <2>1. p.hidden \in SUBSET (1 .. b - 1)
    BY <1>1 DEF Keeps
  <2>2. \A m \in 1 .. b - 1 : m \in Int /\ m < e
    BY <1>1, <1>3
  <2> QED BY <2>1, <2>2
<1> HIDE DEF to, z, p, x
<1>9. Mirrors(x, PostgresLex(w), to)
  <2>1. Image(x.hidden, to) = Image(p.hidden, at)
    BY <1>2, <1>8 DEF Image
  <2> QED BY <1>1, <1>2, <1>5, <2>1 DEF Mirrors
<1>10. Near(x, PostgresLex(w), e, e)
  BY <1>2, <1>5 DEF Near
<1>11. Keeps(s, x, w, e, to)
  <2>1. /\ Ordered(at, p.hidden) /\ \A m \in p.hidden : at[m] \in 1 .. n /\ o[at[m]] = s[m]
    BY <1>1 DEF Keeps
  <2>2. x.hidden \in SUBSET (1 .. e - 1)
    BY <1>2, <1>3, <1>8
  <2>3. Ordered(to, x.hidden)
    BY <1>2, <1>8, <2>1 DEF Ordered
  <2>4. 1 .. n \subseteq 1 .. Len(w)
    BY <1>3, <1>5
  <2>5. ASSUME NEW m \in x.hidden
        PROVE  to[m] \in 1 .. Len(w) /\ w[to[m]] = s[m]
    <3>1. to[m] = at[m] /\ at[m] \in 1 .. n /\ o[at[m]] = s[m]
      BY <1>2, <1>8, <2>1
    <3>2. w[at[m]] = o[at[m]]
      BY <1>5, <3>1 DEF Begins
    <3> QED BY <2>4, <3>1, <3>2
  <2> QED BY <2>2, <2>3, <2>5 DEF Keeps
<1>12. e <= e
  BY <1>3
<1>13. Kept(s, x, w, e, to, e, z)
  BY <1>2, <1>5, <1>6, <1>7, <1>9, <1>10, <1>11, <1>12 DEF Kept
<1> QED BY <1>2, <1>5, <1>13 DEF x

LEMMA KeptJoin ==
  ASSUME NEW s \in Seq(Characters), NEW f, Reads(f, s), NEW u \in Nat, NEW v \in Nat,
         u < v, v <= Len(s), NEW o \in Seq(Characters),
         NEW at, NEW r \in Int, NEW d \in Int, Kept(s, f[u], o, u + 1, at, r, d),
         Rest(f[v], s, v + 1), f[v].hidden \in SUBSET (f[u].hidden \cup (u + 1 .. v))
  PROVE  /\ o \o SubSeq(s, u + 1, v) \in Seq(Characters)
         /\ Kept(s, f[v], o \o SubSeq(s, u + 1, v), v + 1, at, r, d)
<1>1. u + d = Len(o)
  BY DEF Kept
<1>2. /\ o \o SubSeq(s, u + 1, v) \in Seq(Characters)
      /\ Len(o \o SubSeq(s, u + 1, v)) = v + d
      /\ Begins(o, o \o SubSeq(s, u + 1, v))
      /\ Copied(s, u, v, o \o SubSeq(s, u + 1, v), d)
  BY <1>1, JoinIs
<1>3. PICK w : w = o \o SubSeq(s, u + 1, v)
  OBVIOUS
<1>4. w \in Seq(Characters) /\ Len(w) = v + d /\ Begins(o, w) /\ Copied(s, u, v, w, d)
  BY <1>2, <1>3
<1>5. Kept(s, f[v], w, v + 1, at, r, d)
  BY <1>4, KeptCopy
<1> QED BY <1>3, <1>4, <1>5

LEMMA KeptOver ==
  ASSUME NEW s \in Seq(Characters), NEW f, Reads(f, s), NEW b \in Nat \ {0}, NEW e \in Nat,
         b < e, e <= Len(s) + 1,
         NEW o \in Seq(Characters), NEW at, NEW r, NEW d, Kept(s, f[b - 1], o, b, at, r, d),
         Rest(f[e - 1], s, e), f[e - 1].hidden \in SUBSET (f[b - 1].hidden \cup (b .. e - 1))
  PROVE  /\ o \o SubSeq(s, b, e - 1) \in Seq(Characters)
         /\ Kept(s, f[e - 1], o \o SubSeq(s, b, e - 1), e, at, r, d)
<1>1. PICK u \in Nat, v \in Nat : u = b - 1 /\ v = e - 1
  OBVIOUS
<1>2. u + 1 = b /\ v + 1 = e /\ u < v /\ v <= Len(s)
  BY <1>1
<1>3. r \in Int /\ d \in Int
  BY DEF Kept
<1>4. /\ Kept(s, f[u], o, u + 1, at, r, d) /\ Rest(f[v], s, v + 1)
      /\ f[v].hidden \in SUBSET (f[u].hidden \cup (u + 1 .. v))
  BY <1>1, <1>2
<1>5. /\ o \o SubSeq(s, u + 1, v) \in Seq(Characters)
      /\ Kept(s, f[v], o \o SubSeq(s, u + 1, v), v + 1, at, r, d)
  BY <1>1, <1>2, <1>3, <1>4, KeptJoin
<1> QED BY <1>1, <1>2, <1>5

\* A turn of the second scanner, which goes on from b to e and rewrites o to w.
Rewrites(s, b, e, o, w) ==
  \/ /\ Covers(s, b) /\ e = TurnEnd(s, b) /\ e # 0
     /\ w = o \o SubSeq(s, b, e - 1)
  \/ /\ ~Covers(s, b) /\ (s[b] = "$" /\ b < Len(s) => ~isIdentifierPart(s[b + 1]))
     /\ e = b + 1 /\ w = o \o SubSeq(s, b, e - 1)
  \/ /\ ~Covers(s, b) /\ s[b] = "$" /\ b < Len(s) /\ isIdentifierStart(s[b + 1])
     /\ e = WordEnd(s, b + 2) /\ w = o \o <<"$", "1">>

\* What is rewritten so far: for PostgreSQL it has the quotes and comments of
\* the text up to here.
SoFar(s, o, b) ==
  Usual(s) => \E f : /\ Reads(f, s) /\ PostgresLex(s) = f[Len(s)]
                     /\ \E at, r, d : Kept(s, f[b - 1], o, b, at, r, d)

LEMMA TurnKeeps ==
  ASSUME NEW s \in Seq(Characters), NEW f, Reads(f, s), NEW b \in 1 .. Len(s),
         NEW o \in Seq(Characters), NEW at, NEW r, NEW d, Kept(s, f[b - 1], o, b, at, r, d),
         NEW e, NEW w, Rewrites(s, b, e, o, w)
  PROVE  \E to, q, z : Kept(s, f[e - 1], w, e, to, q, z)
<1>1. Rest(f[b - 1], s, b) /\ b \in Nat \ {0} /\ b <= Len(s)
  BY DEF Kept
<1>2. CASE Covers(s, b) /\ e = TurnEnd(s, b) /\ e # 0 /\ w = o \o SubSeq(s, b, e - 1)
  <2>1. Rest(f[e - 1], s, e) /\ f[e - 1].hidden = f[b - 1].hidden \cup (b .. e - 1)
    BY <1>1, <1>2, CoverRests
  <2>2. e \in {0} \cup b + 1 .. Len(s) + 1
    BY <1>2, TurnGoesOn
  <2>3. e \in Nat /\ b < e /\ e <= Len(s) + 1
    BY <1>1, <1>2, <2>2
  <2>4. f[e - 1].hidden \in SUBSET (f[b - 1].hidden \cup (b .. e - 1))
    BY <2>1
  <2>5. Kept(s, f[e - 1], o \o SubSeq(s, b, e - 1), e, at, r, d)
    BY <1>1, <2>1, <2>3, <2>4, KeptOver
  <2> QED BY <1>2, <2>5
<1>3. CASE /\ ~Covers(s, b) /\ (s[b] = "$" /\ b < Len(s) => ~isIdentifierPart(s[b + 1]))
           /\ e = b + 1 /\ w = o \o SubSeq(s, b, e - 1)
  <2>1. Rest(f[b], s, b + 1) /\ f[b].hidden = f[b - 1].hidden
    BY <1>1, <1>3, OtherRests
  <2>2. e \in Nat /\ b < e /\ e <= Len(s) + 1 /\ e - 1 = b
    BY <1>1, <1>3
  <2>3. Rest(f[e - 1], s, e) /\ f[e - 1].hidden \in SUBSET (f[b - 1].hidden \cup (b .. e - 1))
    BY <1>3, <2>1, <2>2
  <2>4. Kept(s, f[e - 1], o \o SubSeq(s, b, e - 1), e, at, r, d)
    BY <1>1, <2>2, <2>3, KeptOver
  <2> QED BY <1>3, <2>4
<1>4. CASE /\ ~Covers(s, b) /\ s[b] = "$" /\ b < Len(s) /\ isIdentifierStart(s[b + 1])
           /\ e = WordEnd(s, b + 2) /\ w = o \o <<"$", "1">>
  BY <1>4, KeptNamed
<1> QED BY <1>2, <1>3, <1>4 DEF Rewrites

LEMMA SoFarGoesOn ==
  ASSUME NEW s \in Seq(Characters), NEW b \in 1 .. Len(s),
         NEW o \in Seq(Characters), SoFar(s, o, b), NEW e, NEW w, Rewrites(s, b, e, o, w)
  PROVE  SoFar(s, w, e)
<1> SUFFICES ASSUME Usual(s)
             PROVE  \E f : /\ Reads(f, s) /\ PostgresLex(s) = f[Len(s)]
                           /\ \E at, r, d : Kept(s, f[e - 1], w, e, at, r, d)
  BY DEF SoFar
<1>1. PICK f : /\ Reads(f, s) /\ PostgresLex(s) = f[Len(s)]
               /\ \E at, r, d : Kept(s, f[b - 1], o, b, at, r, d)
  BY DEF SoFar
<1>2. \E at, r, d : Kept(s, f[e - 1], w, e, at, r, d)
  BY <1>1, TurnKeeps
<1> QED BY <1>1, <1>2

\* A rewritten text is a text, and the turn ends in the text or just behind it.
LEMMA RewritesText ==
  ASSUME NEW s \in Seq(Characters), NEW b \in 1 .. Len(s), NEW o \in Seq(Characters),
         NEW e, NEW w, Rewrites(s, b, e, o, w)
  PROVE  e \in 1 .. Len(s) + 1 /\ w \in Seq(Characters)
<1>1. b \in Nat \ {0} /\ b <= Len(s) /\ Len(s) \in Nat
  OBVIOUS
<1>2. ASSUME e \in Nat, b < e, e <= Len(s) + 1, w = o \o SubSeq(s, b, e - 1)
      PROVE  e \in 1 .. Len(s) + 1 /\ w \in Seq(Characters)
  <2>1. PICK u \in Nat, v \in Nat : u = b - 1 /\ v = e - 1
    BY <1>1, <1>2
  <2>2. u + 1 = b /\ u < v /\ v <= Len(s)
    BY <1>1, <1>2, <2>1
  <2>3. SubSeq(s, u + 1, v) \in Seq(Characters)
    BY <2>2, PartIs
  <2>4. SubSeq(s, b, e - 1) \in Seq(Characters)
    BY <2>1, <2>2, <2>3
  <2>5. o \o SubSeq(s, b, e - 1) \in Seq(Characters)
    BY <2>4, AppendIs
  <2> QED BY <1>1, <1>2, <2>5
<1>3. CASE Covers(s, b) /\ e = TurnEnd(s, b) /\ e # 0 /\ w = o \o SubSeq(s, b, e - 1)
  <2>1. e \in {0} \cup b + 1 .. Len(s) + 1
    BY <1>3, TurnGoesOn
  <2> QED BY <1>1, <1>2, <1>3, <2>1
<1>4. CASE e = b + 1 /\ w = o \o SubSeq(s, b, e - 1)
  BY <1>1, <1>2, <1>4
<1>5. CASE b < Len(s) /\ e = WordEnd(s, b + 2) /\ w = o \o <<"$", "1">>
  <2>1. b + 2 \in 1 .. Len(s) + 1
    BY <1>1, <1>5
  <2>2. e \in b + 2 .. Len(s) + 1
    BY <1>5, <2>1, WordEndIs
  <2>3. w \in Seq(Characters)
    BY <1>5, SlotIs
  <2>4. b + 2 .. Len(s) + 1 \subseteq 1 .. Len(s) + 1
    BY <1>1
  <2> QED BY <2>2, <2>3, <2>4
<1> QED BY <1>3, <1>4, <1>5 DEF Rewrites

\* A turn of BindNamedParameters that goes on.
LEMMA BinderTurn ==
  ASSUME text \in Seq(Characters), pc = "bind", i \in 1 .. Len(text) + 1, Next, pc' = "bind"
  PROVE  UNCHANGED <<kind, text>> /\ i <= Len(text) /\ Rewrites(text, i, i', out, out')
<1> DEFINE Goal == UNCHANGED <<kind, text>> /\ i <= Len(text) /\ Rewrites(text, i, i', out, out')
<1>1. ASSUME NEW end, BindCopy(end)
      PROVE  /\ UNCHANGED <<kind, text>> /\ end # 0 /\ i' = end
             /\ out' = out \o SubSeq(text, i, i' - 1)
  BY <1>1 DEF BindCopy, Reject, input
<1>2. ASSUME i <= Len(text), Covers(text, i), BindCopy(TurnEnd(text, i))
      PROVE  Goal
  BY <1>1, <1>2 DEF Rewrites
<1>3. BindCode => /\ i <= Len(text)
                  /\ ~Pair(text, i, "-", "-") /\ ~Pair(text, i, "/", "*")
  BY DEF BindCode, Binding
<1>4. Delimiter(text) = DelimiterAt(text, i)
  BY DEF Delimiter, DelimiterAt
<1>5. CASE BindComment
  <2>1. i <= Len(text)
    BY <1>5 DEF BindComment, Binding
  <2>2. CASE Pair(text, i, "-", "-") /\ BindCopy(LineEnd(text, i + 2))
    <3>1. TurnEnd(text, i) = LineEnd(text, i + 2) /\ Covers(text, i)
      BY <2>2 DEF TurnEnd, Covers
    <3> QED BY <1>2, <2>1, <2>2, <3>1
  <2>3. CASE Pair(text, i, "/", "*") /\ BindCopy(skipBlockComment(text, i))
    <3>1. ~Pair(text, i, "-", "-")
      BY <2>3 DEF Pair, At
    <3>2. TurnEnd(text, i) = skipBlockComment(text, i) /\ Covers(text, i)
      BY <2>3, <3>1 DEF TurnEnd, Covers
    <3> QED BY <1>2, <2>1, <2>3, <3>2
  <2> QED BY <1>5, <2>2, <2>3 DEF BindComment
<1>6. CASE BindQuoted
  <2>1. /\ BindCode /\ text[i] \in {"'", "dq"}
        /\ BindCopy(skipQuoted(text, i, text[i]))
    BY <1>6 DEF BindQuoted
  <2>2. TurnEnd(text, i) = skipQuoted(text, i, text[i]) /\ Covers(text, i)
    BY <1>3, <2>1 DEF TurnEnd, Covers
  <2> QED BY <1>2, <1>3, <2>1, <2>2
<1>7. CASE BindDollar
  <2> DEFINE d == DelimiterAt(text, i)
  <2>1. BindCode /\ d # <<>> /\ BindCopy(Closing(text, i + Len(d), d))
    BY <1>4, <1>7 DEF BindDollar
  <2>2. text[i] \notin {"'", "dq"}
    BY <2>1 DEF DelimiterAt
  <2>3. TurnEnd(text, i) = Closing(text, i + Len(d), d) /\ Covers(text, i)
    BY <1>3, <2>1, <2>2 DEF TurnEnd, Covers
  <2> QED BY <1>2, <1>3, <2>1, <2>3
<1>8. CASE BindNamed
  <2>1. /\ BindCode /\ Delimiter(text) = <<>> /\ Named /\ UNCHANGED <<kind, text>>
        /\ i' = WordEnd(text, i + 2) /\ out' = out \o <<"$", "1">>
    BY <1>8 DEF BindNamed, NoDollarQuote, input
  <2>2. text[i] = "$" /\ i < Len(text) /\ isIdentifierStart(text[i + 1])
    BY <2>1 DEF Named, At
  <2>3. ~Covers(text, i)
    BY <1>3, <1>4, <2>1, <2>2 DEF Covers
  <2> QED BY <1>3, <2>1, <2>2, <2>3 DEF Rewrites
<1>9. CASE BindOther
  <2>1. /\ BindCode /\ Delimiter(text) = <<>> /\ text[i] \notin {"'", "dq"}
        /\ ~Named /\ ~Pair(text, i, "$", "1") /\ BindCopy(i + 1)
    BY <1>9 DEF BindOther, NoDollarQuote
  <2>2. ~Covers(text, i)
    BY <1>3, <1>4, <2>1 DEF Covers
  <2>3. ASSUME text[i] = "$", i < Len(text)
        PROVE  ~isIdentifierPart(text[i + 1])
    <3>1. ~isIdentifierStart(text[i + 1])
      BY <1>3, <2>1, <2>3 DEF Named, At
    <3>2. text[i + 1] # "1"
      <4>1. i + 1 <= Len(text)
        BY <2>3
      <4> QED BY <1>3, <2>1, <2>3, <4>1 DEF Pair, At
    <3> QED BY <3>1, <3>2 DEF isIdentifierPart, isIdentifierStart
  <2>4. UNCHANGED <<kind, text>> /\ i' = i + 1 /\ out' = out \o SubSeq(text, i, i' - 1)
    BY <1>1, <2>1
  <2> QED BY <1>3, <2>1, <2>2, <2>3, <2>4 DEF Rewrites
<1>10. ~(InspectSpace \/ InspectComment \/ InspectSecond \/ InspectSemicolon
         \/ InspectQuoted \/ InspectDollar \/ InspectWord \/ InspectOther \/ Inspected
         \/ Ended)
  BY DEF InspectSpace, InspectComment, InspectSecond, InspectSemicolon, InspectQuoted,
     InspectDollar, InspectWord, InspectOther, Inspected, Ended, Inspecting, Significant,
     Scanning
<1>11. ~(BindPositional \/ BindMissing \/ Bound)
  BY DEF BindPositional, BindMissing, Bound, Reject
<1> QED BY <1>5, <1>6, <1>7, <1>8, <1>9, <1>10, <1>11 DEF Next

\* The end of the second scanner's run leaves the rewritten clause alone.
LEMMA BinderEnds ==
  ASSUME Next, pc' = "bound"
  PROVE  UNCHANGED <<text, out, i>> /\ (pc = "bound" \/ (pc = "bind" /\ i > Len(text)))
<1>1. ASSUME NEW end, StepOver(end) \/ BindCopy(end)
      PROVE  pc' \in {pc, "unterminated", "unterminatedBind"}
  BY <1>1 DEF StepOver, BindCopy, Reject, input, inspected
<1>2. Bound \/ Ended
  BY <1>1 DEF Next, InspectSpace, InspectComment, InspectSecond, InspectSemicolon,
     InspectQuoted, InspectDollar, InspectWord, InspectOther, Inspected, BindComment,
     BindQuoted, BindDollar, BindPositional, BindMissing, BindNamed, BindOther,
     Inspecting, Significant, Scanning, Binding, BindCode, NoDollarQuote, Reject, input
<1> QED BY <1>2 DEF Bound, Ended, vars, input, bound

KeptInv ==
  /\ pc = "inspect" => out = <<>>
  /\ pc = "bind" => /\ i \in 1 .. Len(text) + 1 /\ out \in Seq(Characters)
                    /\ SoFar(text, out, i)
  /\ pc = "bound" => i = Len(text) + 1 /\ SoFar(text, out, i)

LEMMA SoFarStarts ==
  ASSUME NEW s \in Seq(Characters)
  PROVE  SoFar(s, <<>>, 1)
<1> SUFFICES ASSUME Usual(s)
             PROVE  \E f : /\ Reads(f, s) /\ PostgresLex(s) = f[Len(s)]
                           /\ \E at, r, d : Kept(s, f[1 - 1], <<>>, 1, at, r, d)
  BY DEF SoFar
<1>1. PICK f : Reads(f, s) /\ PostgresLex(s) = f[Len(s)]
  BY UsualRuns DEF Usual
<1>2. f[1 - 1] = f[0]
  OBVIOUS
<1>3. \E at, r, d : Kept(s, f[0], <<>>, 1, at, r, d)
  BY <1>1, KeptStarts
<1> QED BY <1>1, <1>2, <1>3

LEMMA KeptGoesOn == LexInv /\ KeptInv /\ [Next]_vars => KeptInv'
<1> SUFFICES ASSUME LexInv, KeptInv, [Next]_vars PROVE KeptInv'
  OBVIOUS
<1>1. text \in Seq(Characters) /\ Len(text) \in Nat
  BY DEF LexInv
<1>2. CASE UNCHANGED vars
  <2>1. UNCHANGED <<text, pc, i, out>>
    BY <1>2 DEF vars, input, bound
  <2> QED BY <2>1 DEF KeptInv, SoFar
<1>3. CASE Next /\ pc' = "inspect"
  <2>1. pc = "inspect" /\ out' = out
    <3>1. ASSUME NEW end, StepOver(end) \/ BindCopy(end)
          PROVE  /\ pc' \in {pc, "unterminated", "unterminatedBind"}
                 /\ StepOver(end) => out' = out
      BY <3>1 DEF StepOver, BindCopy, Reject, input, inspected, bound
    <3> QED BY <1>3, <3>1
      DEF Next, InspectSpace, InspectComment, InspectSecond, InspectSemicolon, InspectQuoted,
          InspectDollar, InspectWord, InspectOther, Inspected, BindComment, BindQuoted,
          BindDollar, BindPositional, BindMissing, BindNamed, BindOther, Bound, Ended,
          Inspecting, Significant, Scanning, Binding, BindCode, NoDollarQuote, Reject, input,
          inspected, bound, vars
  <2> QED BY <1>3, <2>1 DEF KeptInv
<1>4. CASE Next /\ pc = "inspect" /\ pc' = "bind"
  <2>1. Inspected
    <3>1. ASSUME NEW end, StepOver(end)
          PROVE  pc' # "bind"
      BY <1>4, <3>1 DEF StepOver, Reject, input
    <3> QED BY <1>4, <3>1
      DEF Next, InspectSpace, InspectComment, InspectSecond, InspectSemicolon, InspectQuoted,
          InspectDollar, InspectWord, InspectOther, BindComment, BindQuoted,
          BindDollar, BindPositional, BindMissing, BindNamed, BindOther, Bound, Ended,
          Binding, BindCode, NoDollarQuote, Reject, input, inspected, bound
  <2>2. UNCHANGED <<text, out>> /\ i' = 1
    BY <2>1 DEF Inspected, input, bound
  <2>3. out' = <<>> /\ SoFar(text, out', i')
    BY <1>1, <1>4, <2>2, SoFarStarts DEF KeptInv
  <2>4. <<>> \in Seq(Characters) /\ 1 \in 1 .. Len(text) + 1
    BY <1>1
  <2> QED BY <1>4, <2>2, <2>3, <2>4 DEF KeptInv
<1>5. CASE Next /\ pc = "bind" /\ pc' = "bind"
  <2>1. /\ i \in 1 .. Len(text) + 1 /\ out \in Seq(Characters) /\ SoFar(text, out, i)
    BY <1>5 DEF KeptInv
  <2>2. text' = text /\ i <= Len(text) /\ Rewrites(text, i, i', out, out')
    BY <1>1, <1>5, <2>1, BinderTurn
  <2>3. i \in 1 .. Len(text)
    BY <1>1, <2>1, <2>2
  <2>4. i' \in 1 .. Len(text) + 1 /\ out' \in Seq(Characters)
    BY <1>1, <2>1, <2>2, <2>3, RewritesText
  <2>5. SoFar(text, out', i')
    BY <1>1, <2>1, <2>2, <2>3, SoFarGoesOn
  <2> QED BY <1>5, <2>2, <2>4, <2>5 DEF KeptInv
<1>6. CASE Next /\ pc' = "bound"
  <2>1. UNCHANGED <<text, out, i>> /\ (pc = "bound" \/ (pc = "bind" /\ i > Len(text)))
    BY <1>6, BinderEnds
  <2>2. i = Len(text) + 1 /\ SoFar(text, out, i)
    <3>1. CASE pc = "bound"
      BY <3>1 DEF KeptInv
    <3>2. CASE pc = "bind" /\ i > Len(text)
      <4>1. i \in 1 .. Len(text) + 1 /\ SoFar(text, out, i)
        BY <3>2 DEF KeptInv
      <4> QED BY <1>1, <3>2, <4>1
    <3> QED BY <2>1, <3>1, <3>2
  <2> QED BY <1>6, <2>1, <2>2 DEF KeptInv
<1>7. CASE Next /\ pc # "inspect" /\ pc' = "bind"
  <2>1. pc = "bind"
    BY <1>7, InspectorRests
  <2> QED BY <1>5, <1>7, <2>1
<1>8. CASE pc' \notin {"inspect", "bind", "bound"}
  BY <1>8 DEF KeptInv
<1> QED BY <1>2, <1>3, <1>4, <1>6, <1>7, <1>8

LEMMA HiddenIs ==
  ASSUME NEW s
  PROVE  HiddenText(s) = TextAt(PostgresLex(s).hidden, s)
BY DEF HiddenText, TextAt, Rank, UpTo

\* Numbering the placeholders leaves the quotes and comments of a clause as
\* they were, for PostgreSQL, and in their order, for every usual clause,
\* which has no backslash in a string, no dollar sign inside an identifier and
\* no character beyond ASCII in a tag (QuotedTextIsKept).
THEOREM QuotesAreKept == Spec => []QuotedTextIsKept
<1>1. Init => KeptInv
  BY DEF Init, KeptInv
<1>2. LexInv /\ KeptInv => QuotedTextIsKept
  <2> SUFFICES ASSUME LexInv, KeptInv, pc = "bound", Usual(text)
               PROVE  HiddenText(out) = HiddenText(text)
    BY DEF QuotedTextIsKept
  <2>1. i - 1 = Len(text) /\ SoFar(text, out, i)
    <3>1. i = Len(text) + 1 /\ Len(text) \in Nat
      BY DEF KeptInv, LexInv
    <3> QED BY <3>1 DEF KeptInv
  <2>2. PICK f : /\ PostgresLex(text) = f[Len(text)]
                 /\ \E at, r, d : Kept(text, f[i - 1], out, i, at, r, d)
    BY <2>1 DEF SoFar
  <2> DEFINE P == PostgresLex(text).hidden
  <2>3. PICK at : /\ Mirrors(PostgresLex(text), PostgresLex(out), at)
                  /\ Keeps(text, PostgresLex(text), out, i, at)
    BY <2>1, <2>2 DEF Kept
  <2>4. /\ P \in SUBSET (1 .. Len(text)) /\ Ordered(at, P)
        /\ \A m \in P : out[at[m]] = text[m]
    BY <2>1, <2>3 DEF Keeps
  <2>5. IsFiniteSet(P) /\ P \in SUBSET Int
    <3>1. IsFiniteSet(1 .. Len(text))
      <4>1. 1 \in Int /\ Len(text) \in Int
        BY DEF LexInv
      <4> QED BY <4>1, FS_Interval
    <3>2. 1 .. Len(text) \subseteq Int
      OBVIOUS
    <3> HIDE DEF P
    <3> QED BY <2>4, <3>1, <3>2, FS_Subset
  <2>6. PostgresLex(out).hidden = Image(P, at)
    BY <2>3 DEF Mirrors
  <2> HIDE DEF P
  <2>7. TextAt(Image(P, at), out) = TextAt(P, text)
    BY <2>4, <2>5, TextMoves
  <2> QED BY <2>6, <2>7, HiddenIs DEF P
<1>3. LexInv /\ KeptInv /\ [Next]_vars => (LexInv /\ KeptInv)'
  BY LexGoesOn, KeptGoesOn
<1> QED BY <1>1, <1>2, <1>3, LexStarts, PTL DEF Spec
=============================================================================
