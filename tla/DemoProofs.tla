------------------------------ MODULE DemoProofs ------------------------------
(***************************************************************************)
(* What holds of the readiness loop for all lengths of the deadline, the   *)
(* ping and the pause, and of a duration in a word of any width.           *)
(***************************************************************************)
EXTENDS Demo, SequenceTheorems, WellFoundedInduction, TLAPS

\* The loop looks at the deadline only when a ping has failed: no ping starts
\* later than a pause behind it, and no pause later than the deadline.
Bounds ==
  /\ wait = "ping" => from <= Deadline + Pause /\ now <= from + PingTimeout
  /\ wait = "pause" => from <= Deadline /\ now <= from + Pause
  /\ WaitIsBounded

WaitInv == WaitTypeOK /\ Bounds /\ ReadyInTimeIsFound

\* It holds when the loop begins.
LEMMA WaitStarts == Waiting => WaitInv
BY TimesAssumption
DEF Waiting, WaitInv, WaitTypeOK, Bounds, WaitIsBounded, ReadyInTimeIsFound

\* Every step of the loop keeps it.
LEMMA WaitGoesOn == WaitInv /\ [WaitStep]_waitVars => WaitInv'
<1> SUFFICES ASSUME WaitInv, [WaitStep]_waitVars PROVE WaitInv'
  OBVIOUS
<1> USE TimesAssumption
    DEF WaitInv, WaitTypeOK, Bounds, WaitIsBounded, ReadyInTimeIsFound
<1>1. CASE Tick BY <1>1 DEF Tick, Patience
<1>2. CASE DatabaseUp BY <1>2 DEF DatabaseUp
<1>3. CASE PingAnswered BY <1>3 DEF PingAnswered
<1>4. CASE PingFails BY <1>4 DEF PingFails, MayFail
<1>5. CASE PauseOver BY <1>5 DEF PauseOver
<1>6. CASE Cancelled BY <1>6 DEF Cancelled
<1>7. CASE UNCHANGED waitVars BY <1>7 DEF waitVars
<1> QED BY <1>1, <1>2, <1>3, <1>4, <1>5, <1>6, <1>7 DEF WaitStep

\* The rest of the starter and the client leave the loop alone, or begin it anew.
LEMMA StepsOfWait == [DemoNext]_demoVars => [WaitStep]_waitVars \/ Waiting'
<1> SUFFICES ASSUME [DemoNext]_demoVars PROVE [WaitStep]_waitVars \/ Waiting'
  OBVIOUS
<1>1. CASE Starter
  <2>1. CASE WaitForDatabase BY <2>1 DEF WaitForDatabase
  <2>2. CASE WaitOver BY <2>2 DEF WaitOver, Waiting
  <2>3. CASE ~WaitForDatabase /\ ~WaitOver
    BY <1>1, <2>3 DEF Starter, Run, Fails, Connect, Seed, Verify, ReadEnv, Truncate,
       WriteEnv, Enter, Terminate
  <2> QED BY <2>1, <2>2, <2>3
<1>2. CASE Kill BY <1>2 DEF Kill, Waiting
<1>3. CASE Client
  BY <1>3 DEF Client, LoadEnv, EnsureEnv, ConnectStdio, ConnectHTTP, Speak, AgentEnds,
     ClientFails
<1>4. CASE Edit \/ Over \/ UNCHANGED demoVars
  BY <1>4 DEF Edit, Over, demoVars
<1>5. ASSUME NEW c \in Containers, Reap(c) PROVE UNCHANGED waitVars
  BY <1>5 DEF Reap
<1> QED BY <1>1, <1>2, <1>3, <1>4, <1>5 DEF DemoNext

\* It holds throughout the demo.
LEMMA WaitInvariant == DemoSpec => []WaitInv
<1>1. DemoInit => WaitInv
  BY WaitStarts DEF DemoInit
<1>2. WaitInv /\ [DemoNext]_demoVars => WaitInv'
  <2>1. Waiting' => WaitInv'
    BY TimesAssumption
    DEF Waiting, WaitInv, WaitTypeOK, Bounds, WaitIsBounded, ReadyInTimeIsFound
  <2> QED BY <2>1, StepsOfWait, WaitGoesOn
<1> QED BY <1>1, <1>2, PTL DEF DemoSpec

\* waitForDatabase overruns its deadline by at most one pause and one ping.
THEOREM WaitEnds == DemoSpec => []WaitIsBounded
<1>1. WaitInv => WaitIsBounded
  BY DEF WaitInv, Bounds
<1> QED BY <1>1, WaitInvariant, PTL

\* waitForDatabase gives up on no database that was ready a ping before the
\* deadline.
THEOREM ReadyIsFound == DemoSpec => []ReadyInTimeIsFound
<1>1. WaitInv => ReadyInTimeIsFound
  BY DEF WaitInv
<1> QED BY <1>1, WaitInvariant, PTL

-----------------------------------------------------------------------------
\* What fits into a word is left alone by the wrap-around.
LEMMA WrapIsExact ==
  ASSUME NEW x \in -MaxInt - 1 .. MaxInt
  PROVE  Wrap(x) = x
<1>1. MaxInt \in Nat \ {0}
  BY WordAssumption
<1>2. x + MaxInt + 1 \in 0 .. 2 * MaxInt + 1
  BY <1>1
<1>3. (x + MaxInt + 1) % (2 * MaxInt + 2) = x + MaxInt + 1
  BY <1>1, <1>2
<1> QED BY <1>1, <1>3 DEF Wrap

\* The guard of durationSecondsEnv is the right one: within it a number of
\* seconds fits into a word, on either side of zero.
LEMMA SecondsFit ==
  ASSUME NEW s \in Int, s <= maxSeconds, s >= -maxSeconds
  PROVE  s * Second \in -MaxInt - 1 .. MaxInt
<1>1. MaxInt \in Nat \ {0} /\ Second \in Nat \ {0}
  BY WordAssumption
<1>2. maxSeconds \in Nat /\ maxSeconds * Second <= MaxInt
  BY <1>1 DEF maxSeconds
<1>3. s * Second <= maxSeconds * Second
  BY <1>1, <1>2
<1>4. -(maxSeconds * Second) <= s * Second
  BY <1>1, <1>2
<1> QED BY <1>1, <1>2, <1>3, <1>4

\* Whatever the text, a timeout that Load accepts is the number of seconds that
\* was asked for; the width of the word and the length of a second do not
\* matter.
THEOREM DurationsAreExact ==
  ASSUME NEW text, NEW fallback \in Int,
         text.kind = "number" => text.n \in Int,
         text.kind \in {"unset", "number"},
         durationSecondsEnv(text, fallback).ok,
         durationSecondsEnv(text, fallback).value > 0
  PROVE  ExactTimeout(text, fallback)
<1> DEFINE asked == IF text.kind = "number" THEN text.n ELSE fallback
<1>1. asked \in Int
  OBVIOUS
<1>2. intEnv(text, fallback) = Got(asked) \/ intEnv(text, fallback) = Failed
  BY DEF intEnv
<1>3. intEnv(text, fallback) = Got(asked)
  BY <1>2 DEF durationSecondsEnv, Failed
<1>4. asked <= maxSeconds /\ asked >= -maxSeconds
  <2>1. Got(asked).ok /\ Got(asked).value = asked /\ ~Failed.ok
    BY DEF Got, Failed
  <2>2. durationSecondsEnv(text, fallback) # Failed
    BY <2>1
  <2>3. ~(asked > maxSeconds \/ asked < -maxSeconds)
    BY <1>3, <2>1, <2>2 DEF durationSecondsEnv
  <2>4. maxSeconds \in Int
    BY WordAssumption DEF maxSeconds
  <2> HIDE DEF asked
  <2> QED BY <1>1, <2>3, <2>4
<1>5. durationSecondsEnv(text, fallback) = Got(Wrap(asked * Second))
  BY <1>3, <1>4 DEF durationSecondsEnv, Got, Failed
<1>6. Wrap(asked * Second) = asked * Second
  BY <1>1, <1>4, SecondsFit, WrapIsExact
<1>7. Second \in Nat \ {0}
  BY WordAssumption
<1>8. durationSecondsEnv(text, fallback).value = asked * Second
  BY <1>5, <1>6 DEF Got
<1>9. asked > 0
  BY <1>1, <1>7, <1>8
<1> QED BY <1>8, <1>9 DEF ExactTimeout

-----------------------------------------------------------------------------
(***************************************************************************)
(* The lines of .env and what their readers get.                           *)
(***************************************************************************)

Last(lines, key, n) ==
  /\ n \in 1 .. Len(lines) /\ lines[n].key = key
  /\ \A m \in 1 .. Len(lines) : lines[m].key = key => m <= n

\* A key that some line sets is set by a last one.
LEMMA LastExists ==
  ASSUME NEW lines, Len(lines) \in Nat, NEW key,
         \E n \in 1 .. Len(lines) : lines[n].key = key
  PROVE  \E n : Last(lines, key, n)
<1> DEFINE Behind == {k \in Nat : /\ Len(lines) - k \in 1 .. Len(lines)
                                  /\ lines[Len(lines) - k].key = key}
<1>1. Behind \subseteq Nat /\ Behind # {}
  <2>1. PICK n \in 1 .. Len(lines) : lines[n].key = key
    OBVIOUS
  <2>2. Len(lines) - n \in Nat /\ Len(lines) - (Len(lines) - n) = n
    BY <2>1
  <2>3. Len(lines) - n \in Behind
    BY <2>1, <2>2
  <2> QED BY <2>3
<1>2. PICK k \in Behind : \A j \in Behind : <<j, k>> \notin OpToRel(<, Nat)
  BY <1>1, WFMin, NatLessThanWellFounded, Zenon
<1>3. \A j \in Behind : ~(j < k)
  BY <1>1, <1>2, Zenon DEF OpToRel
<1>4. ASSUME NEW m \in 1 .. Len(lines), lines[m].key = key
      PROVE  m <= Len(lines) - k
  <2>1. Len(lines) - m \in Nat /\ Len(lines) - (Len(lines) - m) = m
    OBVIOUS
  <2>2. Len(lines) - m \in Behind
    BY <1>4, <2>1
  <2>3. ~(Len(lines) - m < k) /\ k \in Nat
    BY <1>1, <1>3, <2>2
  <2> HIDE DEF Behind
  <2> QED BY <2>3
<1>5. Last(lines, key, Len(lines) - k)
  BY <1>4 DEF Last
<1> QED BY <1>5

\* The last line of a key is the one that counts.
LEMMA LastWins ==
  ASSUME NEW lines, NEW key, NEW n, Last(lines, key, n), Len(lines) \in Nat, Readable(lines)
  PROVE  Value(lines, key) = lines[n].by
<1> DEFINE at == {i \in 1 .. Len(lines) : lines[i].key = key}
           top == CHOOSE i \in at : \A m \in at : m <= i
<1>1. n \in at /\ (\A m \in at : m <= n)
  BY DEF Last
<1>2. top \in at /\ (\A m \in at : m <= top)
  BY <1>1
<1>3. top = n
  <2>1. top <= n /\ n <= top
    BY <1>1, <1>2
  <2>2. top \in Int /\ n \in Int
    BY <1>1, <1>2
  <2> QED BY <2>1, <2>2
<1>4. at # {}
  BY <1>1
<1>5. Value(lines, key) = IF at = {} \/ ~Readable(lines) THEN "none" ELSE lines[top].by
  BY DEF Value
<1> HIDE DEF at, top
<1> QED BY <1>3, <1>4, <1>5

\* A key that has a value has it from a line.
LEMMA ValueIsALine ==
  ASSUME NEW lines \in Seq(Lines), NEW key, Value(lines, key) # "none"
  PROVE  \E n \in 1 .. Len(lines) : lines[n].key = key /\ Value(lines, key) = lines[n].by
<1>0. Len(lines) \in Nat /\ Readable(lines)
  BY DEF Value
<1>1. \E n \in 1 .. Len(lines) : lines[n].key = key
  <2>1. {n \in 1 .. Len(lines) : lines[n].key = key} # {}
    BY DEF Value
  <2> QED BY <2>1
<1>2. PICK n : Last(lines, key, n)
  BY <1>0, <1>1, LastExists, Zenon
<1>3. Value(lines, key) = lines[n].by
  BY <1>0, <1>2, LastWins, Zenon
<1> QED BY <1>2, <1>3 DEF Last

-----------------------------------------------------------------------------
(***************************************************************************)
(* What a rewrite of .env keeps and what it adds.                          *)
(***************************************************************************)

\* What is behind the lines is new to them and written by the starter of c.
Grown(lines, more, c) ==
  /\ more \in Seq(Lines)
  /\ Len(lines) <= Len(more)
  /\ \A n \in 1 .. Len(lines) : more[n] = lines[n]
  /\ \A n \in Len(lines) + 1 .. Len(more) :
       /\ more[n].form = "plain"
       /\ more[n].key # NoKey => more[n].key \notin Seen(lines)
       /\ more[n].by \in {c, "default", "starter"}
       /\ more[n].key \in replacements => more[n].by = c
       /\ more[n].key \in defaults => more[n].by = "default"
  /\ KeysOnce(lines) => KeysOnce(more)

LEMMA GrowsOn ==
  ASSUME NEW a \in Seq(Lines), NEW b \in Seq(Lines), NEW d, NEW c,
         Grown(a, b, c), Grown(b, d, c)
  PROVE  Grown(a, d, c)
<1>1. d \in Seq(Lines) /\ Len(a) <= Len(d)
  BY DEF Grown
<1>2. \A n \in 1 .. Len(a) : d[n] = a[n]
  BY DEF Grown
<1>3. Seen(a) \subseteq Seen(b)
  BY DEF Grown, Seen
<1>4. ASSUME NEW n \in Len(a) + 1 .. Len(d)
      PROVE  /\ d[n].form = "plain"
             /\ d[n].key # NoKey => d[n].key \notin Seen(a)
             /\ d[n].by \in {c, "default", "starter"}
             /\ d[n].key \in replacements => d[n].by = c
             /\ d[n].key \in defaults => d[n].by = "default"
  <2>1. CASE n \in 1 .. Len(b)
    BY <2>1 DEF Grown
  <2>2. CASE n \in Len(b) + 1 .. Len(d)
    BY <1>3, <2>2 DEF Grown
  <2> QED BY <1>1, <2>1, <2>2
<1>5. KeysOnce(a) => KeysOnce(d)
  BY DEF Grown
<1> QED BY <1>1, <1>2, <1>4, <1>5 DEF Grown

\* One more line, which is a comment or sets a key that none has set.
LEMMA OneMore ==
  ASSUME NEW lines \in Seq(Lines), NEW c \in Containers, NEW line \in Lines,
         line.form = "plain", line.by \in {c, "default", "starter"},
         line.key \in replacements => line.by = c,
         line.key \in defaults => line.by = "default",
         line.key # NoKey => line.key \notin Seen(lines)
  PROVE  /\ Grown(lines, Append(lines, line), c)
         /\ line = Append(lines, line)[Len(lines) + 1]
<1> DEFINE more == Append(lines, line)
<1>1. /\ more \in Seq(Lines) /\ Len(more) = Len(lines) + 1
      /\ \A n \in 1 .. Len(lines) : more[n] = lines[n]
      /\ more[Len(lines) + 1] = line
  BY AppendProperties
<1> HIDE DEF more
<1>2. ASSUME NEW n \in Len(lines) + 1 .. Len(more)
      PROVE  n = Len(lines) + 1
  BY <1>1
<1>3. ASSUME KeysOnce(lines), NEW m \in 1 .. Len(more), NEW n \in 1 .. Len(more),
             envLineKey(more[m]) = envLineKey(more[n]), envLineKey(more[m]) # NoKey
      PROVE  m = n
  <2>0. envLineKey(line) = line.key
    BY DEF envLineKey
  <2>1. \A k \in 1 .. Len(lines) : line.key # NoKey => envLineKey(lines[k]) # line.key
    BY DEF Seen
  <2>2. CASE m \in 1 .. Len(lines) /\ n \in 1 .. Len(lines)
    BY <1>1, <1>3, <2>2 DEF KeysOnce
  <2>3. CASE m = Len(lines) + 1 \/ n = Len(lines) + 1
    <3>1. \A k \in 1 .. Len(more) :
            k = Len(lines) + 1 \/ (k \in 1 .. Len(lines) /\ more[k] = lines[k])
      BY <1>1
    <3> QED BY <1>1, <1>3, <2>0, <2>1, <2>3, <3>1
  <2> QED BY <1>1, <2>2, <2>3
<1>4. KeysOnce(lines) => KeysOnce(more)
  BY <1>3 DEF KeysOnce
<1>5. Grown(lines, more, c)
  BY <1>1, <1>2, <1>4 DEF Grown
<1> QED BY <1>1, <1>5 DEF more

\* A key that is asked for is there afterwards.
LEMMA AddedIsThere ==
  ASSUME NEW lines \in Seq(Lines), NEW c \in Containers,
         NEW key \in replacements \cup defaults
  PROVE  Grown(lines, Added(lines, key, c), c) /\ key \in Seen(Added(lines, key, c))
<1> DEFINE line == Line(key, IF key \in replacements THEN c ELSE "default")
<1>1. CASE key \in Seen(lines)
  <2>1. Added(lines, key, c) = lines
    BY <1>1 DEF Added
  <2> QED BY <1>1, <2>1 DEF Grown
<1>2. CASE key \notin Seen(lines)
  <2>1. Added(lines, key, c) = Append(lines, line)
    BY <1>2 DEF Added
  <2>2. /\ line \in Lines /\ line.form = "plain" /\ line.key = key
        /\ line.by \in {c, "default", "starter"}
    <3>1. key \in Names
      BY DEF replacements, defaults, Names
    <3>2. c \in Writers /\ "default" \in Writers
      BY DEF Writers
    <3> QED BY <3>1, <3>2 DEF Line, Lines, Forms
  <2>3. /\ key \in replacements => line.by = c
        /\ key \in defaults => line.by = "default"
    BY DEF Line, replacements, defaults
  <2> HIDE DEF line
  <2>4. Grown(lines, Append(lines, line), c) /\ line = Append(lines, line)[Len(lines) + 1]
    BY <1>2, <2>2, <2>3, OneMore
  <2>5. Len(Append(lines, line)) = Len(lines) + 1 /\ Len(lines) \in Nat
    BY <2>2, AppendProperties
  <2>6. Len(lines) + 1 \in 1 .. Len(Append(lines, line))
    BY <2>5
  <2>7. envLineKey(line) = key
    BY <2>2 DEF envLineKey
  <2> QED BY <2>1, <2>4, <2>6, <2>7 DEF Seen
<1> QED BY <1>1, <1>2

\* The comment over what is added.
LEMMA HeadedGrows ==
  ASSUME NEW lines \in Seq(Lines), NEW c \in Containers
  PROVE  Grown(lines, Headed(lines), c)
<1>1. /\ Comment \in Lines /\ Comment.form = "plain" /\ Comment.key = NoKey
      /\ Comment.by \in {c, "default", "starter"}
      /\ Comment.key \notin replacements /\ Comment.key \notin defaults
  <2>1. NoKey \in Names /\ "starter" \in Writers /\ NoKey \notin replacements \cup defaults
    BY DEF Names, Writers, replacements, defaults, NoKey
  <2> QED BY <2>1 DEF Comment, Line, Lines, Forms
<1>2. ASSUME NEW some \in Seq(Lines)
      PROVE  Append(some, Comment) \in Seq(Lines) /\ Grown(some, Append(some, Comment), c)
  BY <1>1, OneMore, AppendProperties
<1>3. CASE lines = <<>>
  BY <1>2, <1>3 DEF Headed
<1>4. CASE lines # <<>>
  BY <1>2, <1>4, GrowsOn DEF Headed
<1> QED BY <1>3, <1>4

\* Lines are replaced in place.
LEMMA ReplacedInPlace ==
  ASSUME NEW lines \in Seq(Lines), NEW c \in Containers
  PROVE  /\ Replaced(lines, c) \in Seq(Lines)
         /\ Len(Replaced(lines, c)) = Len(lines)
         /\ Seen(Replaced(lines, c)) = Seen(lines)
         /\ \A n \in 1 .. Len(lines) :
              IF envLineKey(lines[n]) \in replacements
              THEN Replaced(lines, c)[n] = Line(envLineKey(lines[n]), c)
              ELSE Replaced(lines, c)[n] = lines[n]
         /\ KeysOnce(lines) => KeysOnce(Replaced(lines, c))
<1> DEFINE new == Replaced(lines, c)
<1>1. Len(lines) \in Nat /\ \A n \in 1 .. Len(lines) : lines[n] \in Lines
  BY ElementOfSeq, LenProperties
<1>2. \A n \in 1 .. Len(lines) : Line(envLineKey(lines[n]), c) \in Lines
  BY <1>1 DEF Line, envLineKey, Lines, Forms, Writers, Names, NoKey
<1>3. new \in [1 .. Len(lines) -> Lines]
  BY <1>1, <1>2 DEF Replaced
<1>4. new \in Seq(Lines) /\ Len(new) = Len(lines)
  BY <1>1, <1>3
<1>5. \A n \in 1 .. Len(lines) :
        IF envLineKey(lines[n]) \in replacements
        THEN new[n] = Line(envLineKey(lines[n]), c) ELSE new[n] = lines[n]
  BY DEF Replaced
<1> HIDE DEF new
<1>6. \A n \in 1 .. Len(lines) :
        new[n].key = lines[n].key /\ new[n].form = lines[n].form
  <2> SUFFICES ASSUME NEW n \in 1 .. Len(lines)
               PROVE  new[n].key = lines[n].key /\ new[n].form = lines[n].form
    OBVIOUS
  <2>1. CASE envLineKey(lines[n]) \in replacements
    <3>1. lines[n].form = "plain" /\ envLineKey(lines[n]) = lines[n].key
      BY <2>1 DEF envLineKey, NoKey, replacements
    <3>2. new[n] = Line(envLineKey(lines[n]), c)
      BY <1>5, <2>1
    <3>3. new[n].key = envLineKey(lines[n]) /\ new[n].form = "plain"
      BY <3>2 DEF Line
    <3> QED BY <3>1, <3>3, Zenon
  <2>2. CASE envLineKey(lines[n]) \notin replacements
    BY <1>5, <2>2
  <2> QED BY <2>1, <2>2
<1>7. Seen(new) = Seen(lines)
  BY <1>4, <1>6 DEF Seen, envLineKey
<1>8. KeysOnce(lines) => KeysOnce(new)
  BY <1>4, <1>6 DEF KeysOnce, envLineKey
<1> QED BY <1>4, <1>5, <1>7, <1>8 DEF new

\* A rewrite keeps the lines in their places, replaces the target and the level
\* by the new ones, and adds nothing that is there.
IsRewrite(lines, new, c) ==
  /\ new \in Seq(Lines)
  /\ Len(lines) <= Len(new)
  /\ \A n \in 1 .. Len(lines) :
       IF envLineKey(lines[n]) \in replacements
       THEN new[n] = Line(envLineKey(lines[n]), c) ELSE new[n] = lines[n]
  /\ \A n \in Len(lines) + 1 .. Len(new) :
       /\ new[n].form = "plain"
       /\ new[n].key # NoKey => new[n].key \notin Seen(lines)
       /\ new[n].by \in {c, "default", "starter"}
       /\ new[n].key \in replacements => new[n].by = c
       /\ new[n].key \in defaults => new[n].by = "default"
  /\ replacements \cup defaults \subseteq Seen(new)
  /\ KeysOnce(lines) => KeysOnce(new)

LEMMA RewriteIsRight ==
  ASSUME NEW lines \in Seq(Lines), NEW c \in Containers
  PROVE  IsRewrite(lines, Rewritten(lines, c), c)
<1> DEFINE new == Rewritten(lines, c)
<1>0. new = Rewritten(lines, c)
  OBVIOUS
<1> HIDE DEF new
<1> DEFINE old == Replaced(lines, c)
<1>1. /\ old \in Seq(Lines) /\ Len(old) = Len(lines) /\ Seen(old) = Seen(lines)
      /\ \A n \in 1 .. Len(lines) :
           IF envLineKey(lines[n]) \in replacements
           THEN old[n] = Line(envLineKey(lines[n]), c) ELSE old[n] = lines[n]
      /\ KeysOnce(lines) => KeysOnce(old)
  BY ReplacedInPlace
<1> HIDE DEF old
<1>2. Grown(old, new, c) /\ replacements \cup defaults \subseteq Seen(new)
  <2>1. CASE replacements \cup defaults \subseteq Seen(lines)
    <3>1. new = old
      BY <1>0, <2>1 DEF Rewritten, old
    <3> QED BY <1>1, <2>1, <3>1 DEF Grown
  <2>2. CASE ~(replacements \cup defaults \subseteq Seen(lines))
    <3> DEFINE headed == Headed(old)
               target == Added(headed, "TARGET", c)
               level == Added(target, "LEVEL", c)
               transport == Added(level, "TRANSPORT", c)
    <3>1. new = Added(transport, "URL", c)
      BY <1>0, <2>2 DEF Rewritten, old
    <3>2. Grown(old, headed, c)
      BY <1>1, HeadedGrows
    <3>3. {"TARGET", "LEVEL", "TRANSPORT", "URL"} \subseteq replacements \cup defaults
      BY DEF replacements, defaults
    <3>4. headed \in Seq(Lines)
      BY <3>2 DEF Grown
    <3> HIDE DEF headed
    <3>5. Grown(headed, target, c) /\ "TARGET" \in Seen(target)
      BY <3>3, <3>4, AddedIsThere
    <3>6. target \in Seq(Lines)
      BY <3>5 DEF Grown
    <3> HIDE DEF target
    <3>7. Grown(target, level, c) /\ "LEVEL" \in Seen(level)
      BY <3>3, <3>6, AddedIsThere
    <3>8. level \in Seq(Lines)
      BY <3>7 DEF Grown
    <3> HIDE DEF level
    <3>9. Grown(level, transport, c) /\ "TRANSPORT" \in Seen(transport)
      BY <3>3, <3>8, AddedIsThere
    <3>10. transport \in Seq(Lines)
      BY <3>9 DEF Grown
    <3> HIDE DEF transport
    <3>11. Grown(transport, new, c) /\ "URL" \in Seen(new)
      BY <3>1, <3>3, <3>10, AddedIsThere
    <3>12. Grown(level, new, c)
      BY <3>8, <3>9, <3>10, <3>11, GrowsOn
    <3>13. Grown(target, new, c)
      BY <3>6, <3>7, <3>8, <3>12, GrowsOn
    <3>14. Grown(headed, new, c)
      BY <3>4, <3>5, <3>6, <3>13, GrowsOn
    <3>15. Grown(old, new, c)
      BY <1>1, <3>2, <3>4, <3>14, GrowsOn
    <3>16. /\ Seen(level) \subseteq Seen(new) /\ Seen(target) \subseteq Seen(new)
           /\ Seen(transport) \subseteq Seen(new)
      BY <3>6, <3>8, <3>10, <3>11, <3>12, <3>13 DEF Grown, Seen
    <3> QED BY <3>5, <3>7, <3>9, <3>11, <3>15, <3>16 DEF replacements, defaults
  <2> QED BY <2>1, <2>2
<1>3. new \in Seq(Lines) /\ Len(new) \in Nat /\ Len(lines) \in Nat /\ Len(lines) <= Len(new)
  BY <1>1, <1>2 DEF Grown
<1>4. \A n \in 1 .. Len(lines) :
        IF envLineKey(lines[n]) \in replacements
        THEN new[n] = Line(envLineKey(lines[n]), c) ELSE new[n] = lines[n]
  BY <1>1, <1>2 DEF Grown
<1>5. \A n \in Len(lines) + 1 .. Len(new) :
        /\ new[n].form = "plain"
        /\ new[n].key # NoKey => new[n].key \notin Seen(lines)
        /\ new[n].by \in {c, "default", "starter"}
        /\ new[n].key \in replacements => new[n].by = c
        /\ new[n].key \in defaults => new[n].by = "default"
  BY <1>1, <1>2 DEF Grown
<1>6. KeysOnce(lines) => KeysOnce(new)
  BY <1>1, <1>2 DEF Grown
<1> QED BY <1>0, <1>2, <1>3, <1>4, <1>5, <1>6 DEF IsRewrite

\* What is left of a rewrite of lines when the user has edited the file since:
\* the lines are in their places, the starter's keys have the starter's values,
\* and each of its keys has a line in its own form.
InEffect(lines, new, c) ==
  /\ Len(lines) <= Len(new)
  /\ \A n \in 1 .. Len(lines) :
       /\ new[n].key = lines[n].key /\ new[n].form = lines[n].form
       /\ lines[n].key \in replacements =>
            new[n].by = IF lines[n].form = "plain" THEN c ELSE lines[n].by
       /\ lines[n].key \notin replacements => new[n].by \in {lines[n].by, "user"}
  /\ \A n \in Len(lines) + 1 .. Len(new) :
       /\ new[n].form # "broken"
       /\ new[n].key \in replacements \cup defaults => new[n].key \notin Seen(lines)
       /\ new[n].key \in replacements => new[n].by = c
       /\ new[n].key \in defaults => new[n].by \in {"default", "user"}
  /\ replacements \cup defaults \subseteq Seen(new)

LEMMA RewriteTakesEffect ==
  ASSUME NEW lines \in Seq(Lines), NEW c \in Containers, NEW new, IsRewrite(lines, new, c)
  PROVE  InEffect(lines, new, c)
<1>1. NoKey \notin replacements \cup defaults
  BY DEF NoKey, replacements, defaults
<1>2. ASSUME NEW n \in 1 .. Len(lines)
      PROVE  /\ new[n].key = lines[n].key /\ new[n].form = lines[n].form
             /\ lines[n].key \in replacements =>
                  new[n].by = IF lines[n].form = "plain" THEN c ELSE lines[n].by
             /\ lines[n].key \notin replacements => new[n].by \in {lines[n].by, "user"}
  <2>1. CASE envLineKey(lines[n]) \in replacements
    <3>1. lines[n].form = "plain" /\ envLineKey(lines[n]) = lines[n].key
      BY <1>1, <2>1 DEF envLineKey
    <3>2. new[n] = Line(lines[n].key, c)
      BY <2>1, <3>1 DEF IsRewrite
    <3>3. new[n].key = lines[n].key /\ new[n].form = "plain" /\ new[n].by = c
      BY <3>2 DEF Line
    <3> QED BY <2>1, <3>1, <3>3
  <2>2. CASE envLineKey(lines[n]) \notin replacements
    <3>1. new[n] = lines[n]
      BY <2>2 DEF IsRewrite
    <3>2. lines[n].key \in replacements => lines[n].form # "plain"
      BY <2>2 DEF envLineKey
    <3> QED BY <3>1, <3>2
  <2> QED BY <2>1, <2>2
<1> QED BY <1>1, <1>2 DEF IsRewrite, InEffect

\* A key of the starter's has its value from the last of its lines, which is a
\* line of the starter's own unless one in another form overrides it.
LEMMA EffectIsRead ==
  ASSUME NEW lines \in Seq(Lines), NEW new \in Seq(Lines), NEW c, InEffect(lines, new, c),
         Readable(lines), NEW key \in replacements \cup defaults
  PROVE  /\ key \in replacements =>
              Value(new, key) = IF Overridden(lines, key) THEN Value(lines, key) ELSE c
         /\ key \in defaults =>
              Value(new, key) \in
                {"user", IF key \in Seen(lines) THEN Value(lines, key) ELSE "default"}
<1>1. Len(lines) \in Nat /\ Len(new) \in Nat /\ Len(lines) <= Len(new)
  BY DEF InEffect
<1>2. Readable(new)
  BY <1>1 DEF InEffect, Readable
<1>3. key # NoKey
  BY DEF NoKey, replacements, defaults
<1>4. PICK m \in 1 .. Len(new) : new[m].key = key /\ new[m].form = "plain"
  <2>1. PICK m \in 1 .. Len(new) : envLineKey(new[m]) = key
    BY DEF InEffect, Seen
  <2> QED BY <1>3, <2>1 DEF envLineKey
<1>5. PICK n : Last(new, key, n)
  BY <1>1, <1>4, LastExists, Zenon
<1>6. n \in 1 .. Len(new) /\ new[n].key = key /\ m <= n
  BY <1>4, <1>5 DEF Last
<1>7. Value(new, key) = new[n].by
  BY <1>1, <1>2, <1>5, LastWins, Zenon
<1>8. \A k \in 1 .. Len(lines) : lines[k].key = key /\ lines[k].form = "plain" => key \in Seen(lines)
  BY DEF Seen, envLineKey
<1>9. CASE n \in Len(lines) + 1 .. Len(new)
  <2>1. key \notin Seen(lines)
    BY <1>6, <1>9 DEF InEffect
  <2> QED BY <1>6, <1>7, <1>9, <2>1 DEF InEffect, Overridden
<1>10. CASE n \in 1 .. Len(lines)
  <2>1. lines[n].key = key /\ new[n].form = lines[n].form
    BY <1>6, <1>10 DEF InEffect
  <2>2. ASSUME NEW k \in 1 .. Len(lines), lines[k].key = key
        PROVE  k <= n
    <3>1. k \in 1 .. Len(new) /\ new[k].key = key
      BY <1>1, <2>2 DEF InEffect
    <3> QED BY <1>5, <3>1 DEF Last
  <2>3. Last(lines, key, n)
    BY <1>10, <2>1, <2>2 DEF Last
  <2>4. Value(lines, key) = lines[n].by
    BY <1>1, <2>3, LastWins, Zenon
  <2>5. m \in 1 .. Len(lines) /\ key \in Seen(lines)
    <3>1. m \in 1 .. Len(lines)
      BY <1>4, <1>6, <1>10
    <3>2. lines[m].key = key /\ lines[m].form = "plain"
      BY <1>4, <3>1 DEF InEffect
    <3> QED BY <1>8, <3>1, <3>2
  <2>6. Overridden(lines, key) <=> lines[n].form # "plain"
    <3>1. ASSUME NEW k \in 1 .. Len(lines), lines[k].key = key,
                 \A l \in k + 1 .. Len(lines) : lines[l].key # key
          PROVE  k = n
      <4>1. k <= n /\ ~(n \in k + 1 .. Len(lines))
        BY <2>1, <2>2, <3>1
      <4> QED BY <1>1, <1>10, <4>1
    <3>2. \A l \in n + 1 .. Len(lines) : lines[l].key # key
      <4>1. \A l \in n + 1 .. Len(lines) : l \in 1 .. Len(lines) /\ ~(l <= n)
        BY <1>1, <1>10
      <4> QED BY <2>2, <4>1
    <3> QED BY <1>10, <2>1, <2>5, <3>1, <3>2 DEF Overridden
  <2> QED BY <1>7, <1>10, <2>1, <2>4, <2>5, <2>6 DEF InEffect, replacements, defaults
<1> QED BY <1>1, <1>6, <1>9, <1>10

-----------------------------------------------------------------------------
(***************************************************************************)
(* The demo: what .env and the client's environment name.                  *)
(***************************************************************************)

DemoTypes ==
  /\ file \in Seq(Lines) /\ draft \in Seq(Lines)
  /\ current \in Containers
  /\ batches \in [Containers -> 0 .. Batches]
  /\ env \in [Keys -> Writers \cup {"none", "shell", "parent", "fallback"}]

\* A container that is named has its whole seed.
Seeded(by) == by \in Containers => batches[by] = Batches
NamesAreSeeded ==
  /\ starter \in {"verify", "read", "truncate", "write", "enter"} => batches[current] = Batches
  /\ \A n \in 1 .. Len(file) : Seeded(file[n].by)
  /\ \A n \in 1 .. Len(draft) : Seeded(draft[n].by)
  /\ \A key \in Keys : Seeded(env[key])

\* No plain key is there twice if none was at first, and while the starter waits
\* for Enter, what it wrote is in effect.
KeysOnceAtFirst == \A lines \in FirstFiles : KeysOnce(lines)
LinesCount ==
  /\ KeysOnceAtFirst => KeysOnce(file) /\ KeysOnce(draft)
  /\ starter = "enter" => InEffect(draft, file, current)

DemoInv == DemoTypes /\ NamesAreSeeded /\ LinesCount /\ TimeoutsAreExact

\* The first file is the user's.
LEMMA DemoStarts == DemoInit => DemoInv
<1> SUFFICES ASSUME DemoInit PROVE DemoInv
  OBVIOUS
<1>1. /\ file \in Seq(Lines) /\ file \in FirstFiles
      /\ \A n \in 1 .. Len(file) : file[n].by \notin Containers
  BY FilesAssumption DEF DemoInit
<1>2. draft = <<>> /\ draft \in Seq(Lines) /\ Len(draft) = 0
  BY DEF DemoInit
<1>3. current \in Containers
  BY ContainersAssumption DEF DemoInit
<1>4. batches \in [Containers -> 0 .. Batches]
  BY BatchesAssumption DEF DemoInit
<1>5. env = [key \in Keys |-> "none"] /\ "none" \notin Containers
  BY ContainersAssumption DEF DemoInit, NoEnv
<1>6. DemoTypes
  BY <1>1, <1>2, <1>3, <1>4, <1>5 DEF DemoTypes
<1>7. NamesAreSeeded
  BY <1>1, <1>2, <1>5 DEF NamesAreSeeded, Seeded, DemoInit
<1>8. LinesCount
  BY <1>1, <1>2 DEF LinesCount, KeysOnceAtFirst, KeysOnce, DemoInit
<1>9. TimeoutsAreExact
  BY DEF TimeoutsAreExact, DemoInit, NoServer
<1> QED BY <1>6, <1>7, <1>8, <1>9 DEF DemoInv

\* An edit adds a line for a key that has none, or makes one of the other keys'
\* lines the user's.
LEMMA EditIsTheUsers ==
  ASSUME DemoTypes, Edit
  PROVE  /\ file' \in Seq(Lines)
         /\ Len(file) \in Nat /\ Len(file') \in Nat /\ Len(file) <= Len(file')
         /\ \A n \in 1 .. Len(file) :
              /\ file'[n].key = file[n].key /\ file'[n].form = file[n].form
              /\ \/ file'[n].by = file[n].by
                 \/ file'[n].by = "user" /\ file[n].key \in {"TRANSPORT", "API_KEY"}
         /\ \A n \in Len(file) + 1 .. Len(file') :
              /\ file'[n].by = "user" /\ file'[n].form # "broken"
              /\ \A m \in 1 .. Len(file) : file[m].key # file'[n].key
         /\ KeysOnce(file) => KeysOnce(file')
<1>1. file \in Seq(Lines) /\ Len(file) \in Nat
  BY DEF DemoTypes
<1>2. ASSUME NEW line \in UserLines, \A m \in 1 .. Len(file) : file[m].key # line.key,
             file' = Append(file, line)
      PROVE  /\ file' \in Seq(Lines) /\ Len(file') = Len(file) + 1
             /\ \A n \in 1 .. Len(file) : file'[n] = file[n]
             /\ file'[Len(file) + 1] = line /\ line.by = "user" /\ line.form # "broken"
             /\ KeysOnce(file) => KeysOnce(file')
  <2>1. line \in Lines /\ line.by = "user" /\ line.form # "broken"
    BY UserAssumption
  <2>2. /\ file' \in Seq(Lines) /\ Len(file') = Len(file) + 1
        /\ \A n \in 1 .. Len(file) : file'[n] = file[n]
        /\ file'[Len(file) + 1] = line
    BY <1>1, <1>2, <2>1, AppendProperties
  <2>3. \A m \in 1 .. Len(file) :
          envLineKey(line) # NoKey => envLineKey(file[m]) # envLineKey(line)
    BY <1>2 DEF envLineKey
  <2>4. ASSUME KeysOnce(file), NEW m \in 1 .. Len(file'), NEW n \in 1 .. Len(file'),
               envLineKey(file'[m]) = envLineKey(file'[n]), envLineKey(file'[m]) # NoKey
        PROVE  m = n
    <3>1. \A k \in 1 .. Len(file') :
            k = Len(file) + 1 \/ (k \in 1 .. Len(file) /\ file'[k] = file[k])
      BY <1>1, <2>2
    <3>2. CASE m \in 1 .. Len(file) /\ n \in 1 .. Len(file)
      BY <2>2, <2>4, <3>2 DEF KeysOnce
    <3>3. CASE m = Len(file) + 1 \/ n = Len(file) + 1
      BY <2>2, <2>3, <2>4, <3>1, <3>3
    <3> QED BY <3>1, <3>2, <3>3
  <2> QED BY <2>1, <2>2, <2>4 DEF KeysOnce
<1>3. ASSUME NEW n \in 1 .. Len(file), file[n].key \in {"TRANSPORT", "API_KEY"},
             file[n].by # "user", file' = [file EXCEPT ![n].by = "user"]
      PROVE  /\ file' \in Seq(Lines) /\ Len(file') = Len(file)
             /\ \A m \in 1 .. Len(file) :
                  /\ file'[m].key = file[m].key /\ file'[m].form = file[m].form
                  /\ file'[m].by = IF m = n THEN "user" ELSE file[m].by
             /\ KeysOnce(file) => KeysOnce(file')
  <2> DEFINE mine == [file[n] EXCEPT !.by = "user"]
  <2>1. file[n] \in Lines
    BY <1>1
  <2>2. "user" \in Writers
    BY DEF Writers
  <2>3. /\ mine \in Lines /\ mine.by = "user" /\ mine.key = file[n].key
        /\ mine.form = file[n].form
    BY <2>1, <2>2 DEF Lines
  <2>4. file' = [file EXCEPT ![n] = mine]
    BY <1>3
  <2> HIDE DEF mine
  <2>5. /\ file' \in Seq(Lines) /\ Len(file') = Len(file)
        /\ \A m \in 1 .. Len(file) : file'[m] = IF m = n THEN mine ELSE file[m]
    BY <1>1, <2>3, <2>4, ExceptSeq
  <2>6. \A m \in 1 .. Len(file) :
          /\ file'[m].key = file[m].key /\ file'[m].form = file[m].form
          /\ file'[m].by = IF m = n THEN "user" ELSE file[m].by
    BY <2>3, <2>5
  <2>7. KeysOnce(file) => KeysOnce(file')
    BY <2>5, <2>6 DEF KeysOnce, envLineKey
  <2> QED BY <2>5, <2>6, <2>7
<1>4. CASE \E line \in UserLines :
             /\ \A m \in 1 .. Len(file) : file[m].key # line.key
             /\ file' = Append(file, line)
  <2>1. PICK line \in UserLines :
             /\ \A m \in 1 .. Len(file) : file[m].key # line.key
             /\ file' = Append(file, line)
    BY <1>4
  <2>2. /\ file' \in Seq(Lines) /\ Len(file') = Len(file) + 1
        /\ \A n \in 1 .. Len(file) : file'[n] = file[n]
        /\ file'[Len(file) + 1] = line /\ line.by = "user" /\ line.form # "broken"
        /\ KeysOnce(file) => KeysOnce(file')
    BY <1>2, <2>1
  <2>3. \A n \in Len(file) + 1 .. Len(file') : file'[n] = line
    BY <1>1, <2>2
  <2> QED BY <1>1, <2>1, <2>2, <2>3
<1>5. CASE \E n \in 1 .. Len(file) :
             /\ file[n].key \in {"TRANSPORT", "API_KEY"} /\ file[n].by # "user"
             /\ file' = [file EXCEPT ![n].by = "user"]
  <2>1. PICK n \in 1 .. Len(file) :
             /\ file[n].key \in {"TRANSPORT", "API_KEY"} /\ file[n].by # "user"
             /\ file' = [file EXCEPT ![n].by = "user"]
    BY <1>5
  <2>2. /\ file' \in Seq(Lines) /\ Len(file') = Len(file)
        /\ \A m \in 1 .. Len(file) :
             /\ file'[m].key = file[m].key /\ file'[m].form = file[m].form
             /\ file'[m].by = IF m = n THEN "user" ELSE file[m].by
        /\ KeysOnce(file) => KeysOnce(file')
    BY <1>3, <2>1
  <2> QED BY <1>1, <2>1, <2>2
<1> QED BY <1>4, <1>5 DEF Edit

\* An edit takes nothing away from what the starter has written.
LEMMA EditLeavesEffect ==
  ASSUME DemoTypes, Edit, InEffect(draft, file, current)
  PROVE  InEffect(draft, file', current)
<1>1. /\ Len(file) \in Nat /\ Len(file') \in Nat /\ Len(file) <= Len(file')
      /\ \A n \in 1 .. Len(file) :
           /\ file'[n].key = file[n].key /\ file'[n].form = file[n].form
           /\ \/ file'[n].by = file[n].by
              \/ file'[n].by = "user" /\ file[n].key \in {"TRANSPORT", "API_KEY"}
      /\ \A n \in Len(file) + 1 .. Len(file') :
           /\ file'[n].by = "user" /\ file'[n].form # "broken"
           /\ \A m \in 1 .. Len(file) : file[m].key # file'[n].key
  BY EditIsTheUsers
<1>2. Len(draft) \in Nat /\ Len(draft) <= Len(file)
  BY DEF DemoTypes, InEffect
<1>3. replacements = {"TARGET", "LEVEL"} /\ defaults = {"TRANSPORT", "URL"}
  BY DEF replacements, defaults
<1>4. ASSUME NEW n \in 1 .. Len(draft)
      PROVE  /\ file'[n].key = draft[n].key /\ file'[n].form = draft[n].form
             /\ draft[n].key \in replacements =>
                  file'[n].by = IF draft[n].form = "plain" THEN current ELSE draft[n].by
             /\ draft[n].key \notin replacements => file'[n].by \in {draft[n].by, "user"}
  <2>1. n \in 1 .. Len(file)
    BY <1>1, <1>2
  <2> QED BY <1>1, <1>3, <2>1 DEF InEffect
<1>5. Seen(file) \subseteq Seen(file')
  BY <1>1 DEF Seen, envLineKey
<1>6. ASSUME NEW n \in Len(draft) + 1 .. Len(file')
      PROVE  /\ file'[n].form # "broken"
             /\ file'[n].key \in replacements \cup defaults => file'[n].key \notin Seen(draft)
             /\ file'[n].key \in replacements => file'[n].by = current
             /\ file'[n].key \in defaults => file'[n].by \in {"default", "user"}
  <2>1. CASE n \in Len(draft) + 1 .. Len(file)
    <3>1. n \in 1 .. Len(file)
      BY <1>2, <2>1
    <3> QED BY <1>1, <1>3, <2>1, <3>1 DEF InEffect
  <2>2. CASE n \in Len(file) + 1 .. Len(file')
    <3>1. ASSUME file'[n].key \in replacements \cup defaults
          PROVE  FALSE
      <4>1. PICK m \in 1 .. Len(file) : envLineKey(file[m]) = file'[n].key
        BY <3>1 DEF InEffect, Seen
      <4>2. file[m].key = file'[n].key
        BY <3>1, <4>1 DEF envLineKey, NoKey, replacements, defaults
      <4> QED BY <1>1, <2>2, <4>2
    <3> QED BY <1>1, <2>2, <3>1
  <2> QED BY <1>1, <1>2, <2>1, <2>2
<1> QED BY <1>1, <1>2, <1>4, <1>5, <1>6 DEF InEffect

\* Load accepts no settings with a timeout that is no number, or wrapped around.
LEMMA AcceptedIsExact ==
  ASSUME NEW e, Accepts(e), e.connect \in Texts, e.query \in Texts
  PROVE  ExactTimeout(e.connect, ConnectFallback) /\ ExactTimeout(e.query, QueryFallback)
<1>1. ASSUME NEW text \in Texts, NEW fallback \in Int,
             durationSecondsEnv(text, fallback).ok,
             durationSecondsEnv(text, fallback).value > 0
      PROVE  ExactTimeout(text, fallback)
  <2>1. text.kind \in {"unset", "number"}
    <3>1. text.kind \in {"unset", "number", "word"}
      BY DEF Texts
    <3>2. text.kind # "word"
      <4>1. text.kind = "word" => intEnv(text, fallback) = Failed
        BY DEF intEnv
      <4>2. Failed.ok = FALSE
        BY DEF Failed
      <4> QED BY <1>1, <4>1, <4>2 DEF durationSecondsEnv
    <3> QED BY <3>1, <3>2
  <2>2. text.kind = "number" => text.n \in Int
    BY DEF Texts
  <2> QED BY <1>1, <2>1, <2>2, DurationsAreExact
<1> DEFINE parsed == Parsed(e)
<1>2. /\ parsed.connect = durationSecondsEnv(e.connect, ConnectFallback)
      /\ parsed.query = durationSecondsEnv(e.query, QueryFallback)
      /\ {"connect", "query"} \subseteq DOMAIN parsed
  BY DEF Parsed
<1>3. /\ \A field \in DOMAIN parsed : parsed[field].ok
      /\ parsed.connect.value > 0 /\ parsed.query.value > 0
  BY DEF Accepts, Validate
<1> HIDE DEF parsed
<1>4. parsed["connect"].ok /\ parsed["query"].ok
  BY <1>2, <1>3
<1> QED BY <1>1, <1>2, <1>3, <1>4, FallbackAssumption

\* Every step keeps it.
LEMMA DemoGoesOn == DemoInv /\ [DemoNext]_demoVars => DemoInv'
<1> SUFFICES ASSUME DemoInv, [DemoNext]_demoVars PROVE DemoInv'
  OBVIOUS
<1> USE DEF DemoInv
<1>1. CASE Edit
  <2>1. /\ file' \in Seq(Lines)
        /\ Len(file) \in Nat /\ Len(file') \in Nat /\ Len(file) <= Len(file')
        /\ \A n \in 1 .. Len(file) : file'[n].by \in {file[n].by, "user"}
        /\ \A n \in Len(file) + 1 .. Len(file') : file'[n].by = "user"
        /\ KeysOnce(file) => KeysOnce(file')
    BY <1>1, EditIsTheUsers
  <2>2. UNCHANGED <<starter, current, draft, batches, env, loaded>>
    BY <1>1 DEF Edit, starterVars, clientVars
  <2>3. "user" \notin Containers
    BY ContainersAssumption
  <2>4. DemoTypes'
    BY <2>1, <2>2 DEF DemoTypes
  <2>5. NamesAreSeeded'
    <3>1. ASSUME NEW n \in 1 .. Len(file')
          PROVE  Seeded(file'[n].by)
      BY <2>1, <2>3, <3>1 DEF NamesAreSeeded, Seeded
    <3> QED BY <2>2, <3>1 DEF NamesAreSeeded, Seeded
  <2>6. LinesCount'
    <3>1. starter = "enter" => InEffect(draft, file', current)
      BY <1>1, EditLeavesEffect DEF LinesCount
    <3> QED BY <2>1, <2>2, <3>1 DEF LinesCount, KeysOnceAtFirst
  <2>7. TimeoutsAreExact'
    BY <2>2 DEF TimeoutsAreExact
  <2> QED BY <2>4, <2>5, <2>6, <2>7
<1>2. CASE Starter
  <2> USE DEF Leave, Go
  <2>1. UNCHANGED <<env, loaded>>
    BY <1>2 DEF Starter, Run, Fails, Connect, WaitForDatabase, WaitOver, Seed, Verify,
       ReadEnv, Truncate, WriteEnv, Enter, Terminate, clientVars
  <2>2. TimeoutsAreExact'
    BY <2>1 DEF TimeoutsAreExact
  <2>3. <<>> \in Seq(Lines) /\ Len(<<>>) = 0
    OBVIOUS
  <2>4. KeysOnce(<<>>)
    BY <2>3 DEF KeysOnce
  <2>5. CASE Run
    <3>1. /\ current' \in Containers /\ draft' = <<>> /\ UNCHANGED <<batches, file>>
          /\ starter' \in {"connect", "exited"}
      BY <2>5 DEF Run, fileVars
    <3>2. DemoTypes'
      BY <2>1, <2>3, <3>1 DEF DemoTypes
    <3>3. NamesAreSeeded'
      BY <2>1, <2>3, <3>1 DEF NamesAreSeeded, Seeded
    <3>4. LinesCount'
      BY <2>3, <2>4, <3>1 DEF LinesCount, KeysOnceAtFirst
    <3> QED BY <2>2, <3>2, <3>3, <3>4
  <2>6. CASE Fails \/ Enter
    <3>1. /\ draft' = <<>> /\ UNCHANGED <<current, batches, file>>
          /\ starter' = "terminate"
      BY <2>6 DEF Fails, Enter, fileVars
    <3>2. DemoTypes'
      BY <2>1, <2>3, <3>1 DEF DemoTypes
    <3>3. NamesAreSeeded'
      BY <2>1, <2>3, <3>1 DEF NamesAreSeeded, Seeded
    <3>4. LinesCount'
      BY <2>3, <2>4, <3>1 DEF LinesCount, KeysOnceAtFirst
    <3> QED BY <2>2, <3>2, <3>3, <3>4
  <2>7. CASE Connect \/ WaitForDatabase \/ WaitOver \/ Terminate
    <3>1. UNCHANGED <<draft, current, batches, file>>
      BY <2>7 DEF Connect, WaitForDatabase, WaitOver, Terminate, fileVars, starterVars
    <3>2. starter' \in {"wait", "seed", "terminate", "exited"}
      BY <2>7 DEF Connect, WaitForDatabase, WaitOver, Terminate, starterVars
    <3>3. DemoTypes'
      BY <2>1, <3>1 DEF DemoTypes
    <3>4. NamesAreSeeded'
      BY <2>1, <3>1, <3>2 DEF NamesAreSeeded, Seeded
    <3>5. LinesCount'
      BY <3>1, <3>2 DEF LinesCount, KeysOnceAtFirst
    <3> QED BY <2>2, <3>3, <3>4, <3>5
  <2>8. CASE Seed
    <3>1. UNCHANGED <<draft, current, file>>
      BY <2>8 DEF Seed, fileVars
    <3>2. /\ batches' \in [Containers -> 0 .. Batches]
          /\ \A by : Seeded(by) => Seeded(by)'
          /\ starter' = "verify" => batches'[current] = Batches
          /\ starter' \in {"seed", "verify"}
      <4>1. CASE batches[current] < Batches
        <5>1. batches' = [batches EXCEPT ![current] = @ + 1] /\ starter' = "seed"
          BY <2>8, <4>1 DEF Seed
        <5>2. batches[current] + 1 \in 0 .. Batches
          BY <4>1, BatchesAssumption DEF DemoTypes
        <5> QED BY <4>1, <5>1, <5>2, BatchesAssumption DEF DemoTypes, Seeded
      <4>2. CASE ~(batches[current] < Batches)
        <5>1. UNCHANGED batches /\ starter' = "verify"
          BY <2>8, <4>2 DEF Seed
        <5> QED BY <4>2, <5>1, BatchesAssumption DEF DemoTypes, Seeded
      <4> QED BY <4>1, <4>2
    <3>3. DemoTypes'
      BY <2>1, <3>1, <3>2 DEF DemoTypes
    <3>4. NamesAreSeeded'
      <4>1. \A n \in 1 .. Len(file) : Seeded(file[n].by)'
        BY <3>1, <3>2 DEF NamesAreSeeded, Seeded
      <4>2. \A n \in 1 .. Len(draft) : Seeded(draft[n].by)'
        BY <3>1, <3>2 DEF NamesAreSeeded, Seeded
      <4>3. \A key \in Keys : Seeded(env[key])'
        BY <2>1, <3>2 DEF NamesAreSeeded, Seeded
      <4> QED BY <2>1, <3>1, <3>2, <4>1, <4>2, <4>3 DEF NamesAreSeeded, Seeded
    <3>5. LinesCount'
      BY <3>1, <3>2 DEF LinesCount, KeysOnceAtFirst
    <3> QED BY <2>2, <3>3, <3>4, <3>5
  <2>9. CASE Verify \/ ReadEnv
    <3>1. /\ UNCHANGED <<current, batches, file>> /\ draft' \in {draft, file}
          /\ starter \in {"verify", "read"} /\ starter' \in {"read", "truncate"}
      BY <2>9 DEF Verify, ReadEnv, fileVars
    <3>2. DemoTypes'
      BY <2>1, <3>1 DEF DemoTypes
    <3>3. NamesAreSeeded'
      BY <2>1, <3>1 DEF NamesAreSeeded, Seeded
    <3>4. LinesCount'
      BY <3>1 DEF LinesCount, KeysOnceAtFirst
    <3> QED BY <2>2, <3>2, <3>3, <3>4
  <2>10. CASE Truncate
    <3>1. /\ UNCHANGED <<current, draft, batches>> /\ file' = <<>>
          /\ starter = "truncate" /\ starter' = "write"
      BY <2>10 DEF Truncate
    <3>2. DemoTypes'
      BY <2>1, <2>3, <3>1 DEF DemoTypes
    <3>3. NamesAreSeeded'
      BY <2>1, <2>3, <3>1 DEF NamesAreSeeded, Seeded
    <3>4. LinesCount'
      BY <2>4, <3>1 DEF LinesCount, KeysOnceAtFirst
    <3> QED BY <2>2, <3>2, <3>3, <3>4
  <2>11. CASE WriteEnv
    <3>1. /\ UNCHANGED <<current, draft, batches>> /\ file' = Rewritten(draft, current)
          /\ starter = "write" /\ starter' = "enter"
      BY <2>11 DEF WriteEnv
    <3>2. /\ draft \in Seq(Lines) /\ current \in Containers
          /\ IsRewrite(draft, file', current)
      <4>1. draft \in Seq(Lines) /\ current \in Containers
        BY DEF DemoTypes
      <4> QED BY <3>1, <4>1, RewriteIsRight
    <3>3. DemoTypes'
      BY <2>1, <3>1, <3>2 DEF DemoTypes, IsRewrite
    <3>4. NamesAreSeeded'
      <4>1. "default" \notin Containers /\ "starter" \notin Containers
        BY ContainersAssumption
      <4>2. batches[current] = Batches
        BY <3>1 DEF NamesAreSeeded
      <4>3. ASSUME NEW n \in 1 .. Len(file')
            PROVE  Seeded(file'[n].by)
        <5>1. CASE n \in 1 .. Len(draft)
          <6>1. file'[n] = Line(envLineKey(draft[n]), current) \/ file'[n] = draft[n]
            BY <3>2, <5>1 DEF IsRewrite
          <6>2. Line(envLineKey(draft[n]), current).by = current
            BY DEF Line
          <6> QED BY <4>2, <5>1, <6>1, <6>2 DEF NamesAreSeeded, Seeded
        <5>2. CASE n \in Len(draft) + 1 .. Len(file')
          <6>1. file'[n].by \in {current, "default", "starter"}
            BY <3>2, <5>2 DEF IsRewrite
          <6> QED BY <4>1, <4>2, <6>1 DEF Seeded
        <5>3. Len(draft) \in Nat /\ Len(file') \in Nat /\ Len(draft) <= Len(file')
          BY <3>2 DEF IsRewrite
        <5> QED BY <5>1, <5>2, <5>3
      <4> QED BY <2>1, <3>1, <4>2, <4>3 DEF NamesAreSeeded, Seeded
    <3>5. LinesCount'
      <4>1. InEffect(draft, file', current)
        BY <3>2, RewriteTakesEffect
      <4>2. KeysOnceAtFirst => KeysOnce(draft) /\ KeysOnce(file')
        BY <3>2 DEF LinesCount, IsRewrite
      <4> QED BY <3>1, <4>1, <4>2 DEF LinesCount, KeysOnceAtFirst
    <3> QED BY <2>2, <3>3, <3>4, <3>5
  <2> QED BY <1>2, <2>5, <2>6, <2>7, <2>8, <2>9, <2>10, <2>11 DEF Starter
<1>3. CASE Kill
  <2>1. /\ draft' = <<>> /\ starter' = "exited"
        /\ UNCHANGED <<current, batches, file, env, loaded>>
    BY <1>3 DEF Kill, Leave, fileVars, clientVars
  <2>2. <<>> \in Seq(Lines) /\ Len(<<>>) = 0
    OBVIOUS
  <2>3. DemoTypes'
    BY <2>1, <2>2 DEF DemoTypes
  <2>4. NamesAreSeeded'
    BY <2>1, <2>2 DEF NamesAreSeeded, Seeded
  <2>5. LinesCount'
    BY <2>1, <2>2 DEF LinesCount, KeysOnceAtFirst, KeysOnce
  <2>6. TimeoutsAreExact'
    BY <2>1 DEF TimeoutsAreExact
  <2> QED BY <2>3, <2>4, <2>5, <2>6
<1>4. ASSUME UNCHANGED <<file, starter, current, draft, batches>>,
             (env' \in [Keys -> Writers \cup {"none", "shell", "parent", "fallback"}]
                /\ \A key \in Keys : Seeded(env'[key])),
             TimeoutsAreExact'
      PROVE  DemoInv'
  <2>1. DemoTypes'
    BY <1>4 DEF DemoTypes
  <2>2. NamesAreSeeded'
    BY <1>4 DEF NamesAreSeeded, Seeded
  <2>3. LinesCount'
    BY <1>4 DEF LinesCount, KeysOnceAtFirst
  <2> QED BY <1>4, <2>1, <2>2, <2>3
<1>5. /\ env \in [Keys -> Writers \cup {"none", "shell", "parent", "fallback"}]
      /\ \A key \in Keys : Seeded(env[key])
  BY DEF DemoTypes, NamesAreSeeded
<1>6. {"none", "shell", "parent", "fallback"} \cap Containers = {}
  BY ContainersAssumption
<1>7. CASE (\E c \in Containers : Reap(c)) \/ Over \/ UNCHANGED demoVars
  <2>1. UNCHANGED <<file, starter, current, draft, batches, env, loaded>>
    BY <1>7 DEF Reap, Over, demoVars, fileVars, starterVars, clientVars
  <2>2. TimeoutsAreExact'
    BY <2>1 DEF TimeoutsAreExact
  <2> QED BY <1>4, <1>5, <2>1, <2>2
<1>8. CASE Client
  <2>1. UNCHANGED <<file, starter, current, draft, batches>>
    BY <1>8 DEF Client, LoadEnv, EnsureEnv, ConnectStdio, ConnectHTTP, Speak, AgentEnds,
       ClientFails, starterVars, fileVars
  <2>2. ASSUME env' = NoEnv
        PROVE  /\ env' \in [Keys -> Writers \cup {"none", "shell", "parent", "fallback"}]
               /\ \A key \in Keys : Seeded(env'[key])
    BY <1>6, <2>2 DEF NoEnv, Seeded
  <2>3. loaded' \in {loaded, NoServer} => TimeoutsAreExact'
    BY DEF TimeoutsAreExact, NoServer
  <2>4. CASE LoadEnv
    <3>1. PICK shell \in Shells :
            env' = [key \in Keys |-> IF key \in shell THEN "shell"
                               ELSE IF Value(file, key) # "none" THEN Value(file, key)
                               ELSE IF key \in Parent THEN "parent" ELSE "none"]
      BY <2>4 DEF LoadEnv
    <3>2. ASSUME NEW key \in Keys
          PROVE  /\ env'[key] \in Writers \cup {"none", "shell", "parent", "fallback"}
                 /\ Seeded(env'[key])
      <4>1. CASE env'[key] \in {"none", "shell", "parent"}
        BY <1>6, <4>1 DEF Seeded
      <4>2. CASE env'[key] = Value(file, key) /\ Value(file, key) # "none"
        <5>1. PICK n \in 1 .. Len(file) : env'[key] = file[n].by
          BY <4>2, ValueIsALine DEF DemoTypes
        <5>2. file[n] \in Lines
          BY <5>1 DEF DemoTypes
        <5>3. file[n].by \in Writers
          BY <5>2 DEF Lines
        <5> QED BY <5>1, <5>3 DEF NamesAreSeeded
      <4> QED BY <3>1, <4>1, <4>2
    <3>3. env' \in [Keys -> Writers \cup {"none", "shell", "parent", "fallback"}]
      BY <3>1, <3>2
    <3> QED BY <1>4, <2>1, <2>3, <2>4, <3>2, <3>3 DEF LoadEnv
  <2>5. CASE EnsureEnv
    <3>1. CASE env' = NoEnv /\ loaded' = NoServer
      BY <1>4, <2>1, <2>2, <2>3, <3>1
    <3>2. CASE UNCHANGED loaded /\ env' = [key \in Keys |->
                       IF key \in {"LEVEL", "TRANSPORT"} /\ env[key] \in Missing
                       THEN "fallback" ELSE env[key]]
      <4>1. env' \in [Keys -> Writers \cup {"none", "shell", "parent", "fallback"}]
        BY <1>5, <3>2
      <4>2. \A key \in Keys : Seeded(env'[key])
        BY <1>5, <1>6, <3>2 DEF Seeded
      <4> QED BY <1>4, <2>1, <2>3, <3>2, <4>1, <4>2
    <3> QED BY <2>5, <3>1, <3>2 DEF EnsureEnv, Quit
  <2>6. CASE ConnectStdio
    <3>1. PICK e \in Environments : \E level :
            LET settings == [e EXCEPT !.level = level, !.transport = Word("stdio"),
                                      !.target = TRUE]
            IN IF Accepts(settings)
               THEN /\ UNCHANGED env
                    /\ loaded' = [started |-> TRUE, connect |-> settings.connect,
                                  query |-> settings.query]
               ELSE Quit("failed")
      BY <2>6 DEF ConnectStdio
    <3>2. PICK level :
            LET settings == [e EXCEPT !.level = level, !.transport = Word("stdio"),
                                      !.target = TRUE]
            IN IF Accepts(settings)
               THEN /\ UNCHANGED env
                    /\ loaded' = [started |-> TRUE, connect |-> settings.connect,
                                  query |-> settings.query]
               ELSE Quit("failed")
      BY <3>1
    <3> DEFINE settings == [e EXCEPT !.level = level, !.transport = Word("stdio"),
                                     !.target = TRUE]
    <3>3. CASE ~Accepts(settings)
      BY <1>4, <2>1, <2>2, <2>3, <3>2, <3>3 DEF Quit
    <3>4. CASE Accepts(settings)
      <4>1. /\ UNCHANGED env
            /\ loaded' = [started |-> TRUE, connect |-> settings.connect,
                          query |-> settings.query]
        BY <3>2, <3>4
      <4>2. /\ settings.connect = e.connect /\ settings.query = e.query
            /\ e.connect \in Texts /\ e.query \in Texts
        BY EnvironmentsAssumption
      <4> HIDE DEF settings
      <4>3. /\ ExactTimeout(settings.connect, ConnectFallback)
            /\ ExactTimeout(settings.query, QueryFallback)
        BY <3>4, <4>2, AcceptedIsExact
      <4>4. TimeoutsAreExact'
        BY <4>1, <4>3 DEF TimeoutsAreExact
      <4> QED BY <1>4, <1>5, <2>1, <4>1, <4>4
    <3> QED BY <3>3, <3>4
  <2>7. CASE ConnectHTTP \/ Speak
    <3>1. UNCHANGED <<env, loaded>>
      BY <2>7 DEF ConnectHTTP, Speak
    <3> QED BY <1>4, <1>5, <2>1, <2>3, <3>1
  <2>8. CASE AgentEnds \/ ClientFails
    <3>1. env' = NoEnv /\ loaded' = NoServer
      BY <2>8 DEF AgentEnds, ClientFails, Quit
    <3> QED BY <1>4, <2>1, <2>2, <2>3, <3>1
  <2> QED BY <1>8, <2>4, <2>5, <2>6, <2>7, <2>8 DEF Client
<1> QED BY <1>1, <1>2, <1>3, <1>7, <1>8 DEF DemoNext

LEMMA DemoInvariant == DemoSpec => []DemoInv
BY DemoStarts, DemoGoesOn, PTL DEF DemoSpec

\* Neither .env nor the client's environment ever names a container whose seed
\* script did not run to its end, whatever fails or is killed.
THEOREM OnlySeeded == DemoSpec => []OnlySeededIsNamed
<1>1. DemoInv => OnlySeededIsNamed
  BY DEF DemoInv, NamesAreSeeded, Seeded, OnlySeededIsNamed
<1> QED BY <1>1, DemoInvariant, PTL

\* .env has no plain key twice, however often it is rewritten and edited, unless
\* it had one at first.
THEOREM NoKeyIsTwice == DemoSpec => []NoKeyTwice
<1>1. DemoInv => NoKeyTwice
  BY DEF DemoInv, LinesCount, KeysOnceAtFirst, NoKeyTwice
<1> QED BY <1>1, DemoInvariant, PTL

\* While the starter waits, the client reads the starter's target and level from
\* a file that it can read at all, unless a line in a form that the starter does
\* not know follows its own; for the other keys it reads what a plain line of
\* the file said before, or else the default (SettingsTakeEffect).
THEOREM SettingsCount == DemoSpec => []SettingsTakeEffect
<1>1. DemoInv => SettingsTakeEffect
  <2> SUFFICES ASSUME DemoInv, starter = "enter" PROVE SettingsTakeEffect
    BY DEF SettingsTakeEffect
  <2>1. file \in Seq(Lines) /\ draft \in Seq(Lines) /\ InEffect(draft, file, current)
    BY DEF DemoInv, DemoTypes, LinesCount
  <2>2. Readable(file) <=> Readable(draft)
    <3>1. Len(draft) \in Nat /\ Len(file) \in Nat /\ Len(draft) <= Len(file)
      BY <2>1 DEF InEffect
    <3>2. \A n \in 1 .. Len(file) :
            IF n \in 1 .. Len(draft) THEN file[n].form = draft[n].form
            ELSE file[n].form # "broken"
      BY <2>1, <3>1 DEF InEffect
    <3>3. 1 .. Len(draft) \subseteq 1 .. Len(file)
      BY <3>1
    <3> QED BY <3>2, <3>3 DEF Readable
  <2>3. ASSUME Readable(draft), NEW key \in replacements \cup defaults
        PROVE  /\ key \in replacements =>
                    Value(file, key) = IF Overridden(draft, key) THEN Value(draft, key)
                                       ELSE current
               /\ key \in defaults =>
                    Value(file, key) \in
                      {"user", IF key \in Seen(draft) THEN Value(draft, key) ELSE "default"}
    BY <2>1, <2>3, EffectIsRead
  <2> QED BY <2>2, <2>3 DEF SettingsTakeEffect
<1> QED BY <1>1, DemoInvariant, PTL

\* The timeouts of a server that the client has started are positive and as
\* many seconds as were asked for.
THEOREM ServerTimeouts == DemoSpec => []TimeoutsAreExact
<1>1. DemoInv => TimeoutsAreExact
  BY DEF DemoInv
<1> QED BY <1>1, DemoInvariant, PTL

\* A rewrite changes no line that is not the starter's to replace.
THEOREM LinesAreKept == DemoSpec => UserLinesAreKept
<1> DEFINE Kept == starter = "write" /\ starter' = "enter" =>
       /\ Len(draft) <= Len(file')
       /\ \A n \in 1 .. Len(draft) :
            file'[n] # draft[n] => /\ envLineKey(draft[n]) \in replacements
                                   /\ envLineKey(file'[n]) = envLineKey(draft[n])
<1>1. DemoInv /\ [DemoNext]_demoVars => [Kept]_demoVars
  <2> SUFFICES ASSUME DemoInv, DemoNext, starter = "write", starter' = "enter"
               PROVE  /\ Len(draft) <= Len(file')
                      /\ \A n \in 1 .. Len(draft) :
                           file'[n] # draft[n] =>
                             /\ envLineKey(draft[n]) \in replacements
                             /\ envLineKey(file'[n]) = envLineKey(draft[n])
    OBVIOUS
  <2>1. WriteEnv
    BY DEF DemoNext, Edit, Starter, Run, Fails, Connect, WaitForDatabase, WaitOver, Seed,
       Verify, ReadEnv, Truncate, Enter, Terminate, Kill, Reap, Client, LoadEnv, EnsureEnv,
       ConnectStdio, ConnectHTTP, Speak, AgentEnds, ClientFails, Over, Go, Leave,
       starterVars, demoVars
  <2>2. draft \in Seq(Lines) /\ current \in Containers /\ file' = Rewritten(draft, current)
    BY <2>1 DEF DemoInv, DemoTypes, WriteEnv
  <2>3. /\ Len(draft) <= Len(file')
        /\ \A n \in 1 .. Len(draft) :
              IF envLineKey(draft[n]) \in replacements
              THEN file'[n] = Line(envLineKey(draft[n]), current) ELSE file'[n] = draft[n]
    <3>1. IsRewrite(draft, file', current)
      BY <2>2, RewriteIsRight
    <3> QED BY <3>1 DEF IsRewrite
  <2>4. \A key : envLineKey(Line(key, current)) = key
    BY DEF envLineKey, Line
  <2> QED BY <2>3, <2>4
<1>2. DemoSpec => [][Kept]_demoVars
  BY <1>1, DemoInvariant, PTL DEF DemoSpec
<1> QED BY <1>2 DEF UserLinesAreKept
=============================================================================
