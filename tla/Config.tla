-------------------------------- MODULE Config --------------------------------
(***************************************************************************)
(* Package config: what Load makes of the environment.  A value is unset   *)
(* (blank counts as unset, the code trims it), the text of an integer, or  *)
(* a word.  Machine integers have a least and a greatest value, and a      *)
(* duration is an integer of nanoseconds; TLC counts in a narrower word.   *)
(***************************************************************************)
EXTENDS Integers

CONSTANTS
  MaxInt,       \* math.MaxInt64
  Second,       \* nanoseconds in a second
  MaxPort, MaxRows,                     \* 65535 and 100000
  PortFallback, ConnectFallback, QueryFallback, RowsFallback

ASSUME WordAssumption == MaxInt \in Nat \ {0} /\ Second \in 1 .. MaxInt
ASSUME FallbackAssumption == ConnectFallback \in Int /\ QueryFallback \in Int

Unset == [kind |-> "unset"]
Number(n) == [kind |-> "number", n |-> n]
Word(w) == [kind |-> "word", w |-> w]
Texts == [kind : {"unset"}] \cup [kind : {"number"}, n : Int] \cup [kind : {"word"}, w : STRING]

\* Multiplication in Go wraps around.
Wrap(x) == ((x + MaxInt + 1) % (2 * MaxInt + 2)) - MaxInt - 1

Got(x) == [ok |-> TRUE, value |-> x]
Failed == [ok |-> FALSE]

\* Atoi refuses a text that is no integer or does not fit.
intEnv(text, fallback) ==
  CASE text.kind = "unset" -> Got(fallback)
    [] text.kind = "number" /\ text.n \in -MaxInt - 1 .. MaxInt -> Got(text.n)
    [] OTHER -> Failed

maxSeconds == MaxInt \div Second

durationSecondsEnv_Unguarded(text, fallback) ==
  LET seconds == intEnv(text, fallback)
  IN IF ~seconds.ok THEN Failed ELSE Got(Wrap(seconds.value * Second))
durationSecondsEnv(text, fallback) ==
  LET seconds == intEnv(text, fallback)
  IN IF ~seconds.ok \/ seconds.value > maxSeconds \/ seconds.value < -maxSeconds
     THEN Failed ELSE Got(Wrap(seconds.value * Second))

\* The spellings that strconv.ParseBool knows.
boolEnv(text, fallback) ==
  CASE text.kind = "unset" -> Got(fallback)
    [] text = Number(1) \/ text \in {Word(w) : w \in {"true", "True", "TRUE", "t", "T"}}
         -> Got(TRUE)
    [] text = Number(0) \/ text \in {Word(w) : w \in {"false", "False", "FALSE", "f", "F"}}
         -> Got(FALSE)
    [] OTHER -> Failed

\* ParseAccessLevel and ParseTransport; case and blanks around do not count.
OneOf(words, text, fallback) ==
  CASE text.kind = "unset" -> Got(fallback)
    [] text \in {Word(w) : w \in words} -> Got(text.w)
    [] OTHER -> Failed
ParseAccessLevel(text) == OneOf({"READONLY", "DML-RW", "DDL-RW"}, text, "READONLY")
ParseTransport(text) == OneOf({"stdio", "http"}, text, "stdio")

Parsed(e) ==
  [level |-> ParseAccessLevel(e.level), transport |-> ParseTransport(e.transport),
   port |-> intEnv(e.port, PortFallback),
   connect |-> durationSecondsEnv(e.connect, ConnectFallback),
   query |-> durationSecondsEnv(e.query, QueryFallback),
   rows |-> intEnv(e.rows, RowsFallback),
   confirm |-> boolEnv(e.confirm, TRUE)]

\* The settings of the connection that have no default are one here: whether
\* host, database, user and password are all there.  "address" stands for the
\* address and path of the HTTP transport, which stdio does not look at.
Validate(e, c) ==
  /\ e.target
  /\ c.port.value \in 1 .. MaxPort
  /\ c.connect.value > 0 /\ c.query.value > 0
  /\ c.rows.value \in 1 .. MaxRows
  /\ e.sslMode
  /\ c.transport.value = "http" => e.address

Accepts(e) == LET c == Parsed(e)
              IN (\A field \in DOMAIN c : c[field].ok) /\ Validate(e, c)

\* A timeout that Load accepts is the number of seconds that was asked for,
\* and positive: none wraps around into a short or a negative one.
ExactTimeout(text, fallback) ==
  LET asked == IF text.kind = "number" THEN text.n ELSE fallback
  IN /\ durationSecondsEnv(text, fallback).value = asked * Second
     /\ asked > 0
=============================================================================
