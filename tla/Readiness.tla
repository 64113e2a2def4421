------------------------------ MODULE Readiness ------------------------------
(***************************************************************************)
(* waitForDatabase of the demo starter: pings with a timeout of their own, *)
(* a pause between them, and a deadline that is looked at only when a ping *)
(* has failed.  Time is counted in units that divide the three lengths.    *)
(***************************************************************************)
EXTENDS Integers

CONSTANTS Deadline, PingTimeout, Pause

ASSUME TimesAssumption == /\ Deadline \in Nat /\ PingTimeout \in Nat \ {0}
                          /\ Pause \in Nat \ {0}

VARIABLES
  wait,  \* where the loop is, or how it ended
  now,   \* time since it began
  from,  \* when the ping or the pause began
  upAt   \* when the database began to accept connections, -1 before

waitVars == <<wait, now, from, upAt>>

\* The first ping; the database is not up yet.
Waiting == wait = "ping" /\ now = 0 /\ from = 0 /\ upAt = -1

Patience == IF wait = "ping" THEN PingTimeout ELSE Pause

Tick == /\ wait \in {"ping", "pause"} /\ now < from + Patience
        /\ now' = now + 1
        /\ UNCHANGED <<wait, from, upAt>>

DatabaseUp == /\ wait \in {"ping", "pause"} /\ upAt = -1
              /\ upAt' = now
              /\ UNCHANGED <<wait, now, from>>

PingAnswered == /\ wait = "ping" /\ upAt # -1
                /\ wait' = "ready"
                /\ UNCHANGED <<now, from, upAt>>

\* A ping that began before the database was up may be refused or time out;
\* only now the loop looks at the deadline.
MayFail == wait = "ping" /\ (upAt = -1 \/ upAt > from)
PingFails_Early ==
  /\ MayFail
  /\ wait' = IF now + PingTimeout > Deadline THEN "gaveUp" ELSE "pause"
  /\ from' = now
  /\ UNCHANGED <<now, upAt>>
PingFails_Forever ==
  /\ MayFail
  /\ wait' = "pause" /\ from' = now
  /\ UNCHANGED <<now, upAt>>
PingFails ==
  /\ MayFail
  /\ wait' = IF now > Deadline THEN "gaveUp" ELSE "pause"
  /\ from' = now
  /\ UNCHANGED <<now, upAt>>

PauseOver == /\ wait = "pause" /\ now = from + Pause
             /\ wait' = "ping" /\ from' = now
             /\ UNCHANGED <<now, upAt>>

\* The ten minutes of run are over.
Cancelled == /\ wait = "pause"
             /\ wait' = "cancelled"
             /\ UNCHANGED <<now, from, upAt>>

WaitStep == Tick \/ DatabaseUp \/ PingAnswered \/ PingFails \/ PauseOver \/ Cancelled

-----------------------------------------------------------------------------
\* Types of the variables.
WaitTypeOK == /\ wait \in {"ping", "pause", "ready", "gaveUp", "cancelled"}
              /\ now \in Nat /\ from \in 0 .. now
              /\ upAt \in -1 .. now

\* The loop is over when the deadline, one pause and one ping have passed: it
\* overruns its 60 seconds by no more than that.
WaitIsBounded == now <= Deadline + Pause + PingTimeout

\* "database did not become ready within 60s" is not said of a database that
\* was ready a ping before the deadline: the ping that hangs when it comes up
\* is followed by another one.
ReadyInTimeIsFound == wait = "gaveUp" => upAt = -1 \/ upAt + PingTimeout > Deadline
=============================================================================
