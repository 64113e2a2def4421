--------------------------- MODULE ServeHTTPProofs ---------------------------
(***************************************************************************)
(* The shutdown of the HTTP server, for any number of connections.         *)
(***************************************************************************)
EXTENDS ServeHTTP, TLAPS

\* Only the second branch of select closes the server, and it leaves select;
\* Serve says ErrServerClosed only then.
OnlyShutdownCloses ==
  /\ main \in {"load", "open", "listen", "select"} => ~closing
  /\ main = "shutdown" => signalled /\ closing
  /\ serve = "closed" \/ errCh = "closed" => closing

\* Nothing is listening before listen and after Shutdown; connections need a
\* listener to begin with.
ListenerIsServing ==
  /\ main \in {"load", "open", "listen"} => ~listening /\ \A c \in Conns : conn[c] = "none"
  /\ closing => ~listening

\* The pool is open from Open to the deferred Close, and there is an exit code
\* from return on.
PoolIsOpen ==
  /\ main \in {"listen", "select", "shutdown", "return"} => dbOpen
  /\ main \in {"load", "open", "closed", "exited"} => ~dbOpen
  /\ code = -1 => main \notin {"return", "closed", "exited"}
  /\ main \notin {"return", "closed", "exited"} => code = -1

\* A clean exit has been a complete drain, and nothing can come after it; only
\* the Close in front of a failure orphans a handler, and it leaves nothing else.
DrainIsComplete ==
  /\ closing /\ main \in {"return", "closed", "exited"} =>
       \A c \in Conns : conn[c] \in {"none", "orphan", "gone"}
  /\ \A c \in Conns : conn[c] = "orphan" => code = 1
  /\ code = 0 => /\ signalled /\ closing
                 /\ \A c \in Conns : conn[c] \in {"none", "gone"}

ServeInv == TypeOK /\ OnlyShutdownCloses /\ ListenerIsServing /\ PoolIsOpen /\ DrainIsComplete

\* The invariant of the shutdown holds at the start.
LEMMA ServeStarts == Init => ServeInv
<1> SUFFICES ASSUME Init PROVE ServeInv
  OBVIOUS
<1>1. TypeOK BY DEF Init, TypeOK, Mains, Busy
<1>2. OnlyShutdownCloses BY DEF Init, OnlyShutdownCloses
<1>3. ListenerIsServing BY DEF Init, ListenerIsServing
<1>4. PoolIsOpen BY DEF Init, PoolIsOpen
<1>5. DrainIsComplete BY DEF Init, DrainIsComplete
<1> QED BY <1>1, <1>2, <1>3, <1>4, <1>5 DEF ServeInv

\* Every step keeps it.
LEMMA ServeGoesOn == ServeInv /\ [Next]_vars => ServeInv'
<1> SUFFICES ASSUME ServeInv, [Next]_vars PROVE ServeInv'
  OBVIOUS
<1> USE DEF ServeInv, TypeOK, Mains, Busy, OnlyShutdownCloses, ListenerIsServing,
            PoolIsOpen, DrainIsComplete
<1>1. CASE Load BY <1>1 DEF Load
<1>2. CASE Open
  <2>1. CASE main' = "listen" BY <1>2, <2>1 DEF Open
  <2>2. CASE main' = "exited" BY <1>2, <2>2 DEF Open
  <2> QED BY <1>2, <2>1, <2>2 DEF Open
<1>3. CASE Listen
  <2>1. CASE main' = "select" BY <1>3, <2>1 DEF Listen, Return
  <2>2. CASE main' = "return" BY <1>3, <2>2 DEF Listen, Return
  <2> QED BY <1>3, <2>1, <2>2 DEF Listen, Return
<1>4. CASE ServeReturned BY <1>4 DEF ServeReturned, Return
<1>5. CASE StartShutdown BY <1>5 DEF StartShutdown
<1>6. CASE ShutdownDone
  <2>1. \A c \in Conns : conn'[c] \in {"none", "gone"}
    BY <1>6 DEF ShutdownDone, Drop, Drained
  <2>2. conn' \in [Conns -> {"none", "gone"}]
    BY <1>6, <2>1 DEF ShutdownDone, Drop
  <2>3. main' = "return" /\ code' = 0 /\ closing' /\ signalled'
    BY <1>6 DEF ShutdownDone, Return
  <2> QED BY <1>6, <2>2, <2>3 DEF ShutdownDone
<1>7. CASE ShutdownTimeout BY <1>7 DEF ShutdownTimeout, Return, Drop
<1>8. CASE CloseDatabase BY <1>8 DEF CloseDatabase
<1>9. CASE Exit BY <1>9 DEF Exit
<1>10. CASE Signal BY <1>10 DEF Signal
<1>11. CASE Overdue BY <1>11 DEF Overdue
<1>12. CASE AcceptFails BY <1>12 DEF AcceptFails, Running
<1>13. CASE SendResult BY <1>13 DEF SendResult, Running
<1>14. ASSUME NEW c \in Conns, Connect(c) PROVE ServeInv'
  BY <1>14 DEF Connect, Running
<1>15. ASSUME NEW c \in Conns, Request(c) PROVE ServeInv'
  BY <1>15 DEF Request, Running
<1>16. ASSUME NEW c \in Conns, Respond(c) PROVE ServeInv'
  BY <1>16 DEF Respond, Running
<1>17. ASSUME NEW c \in Conns, HangUp(c) PROVE ServeInv'
  BY <1>17 DEF HangUp, Running
<1>18. CASE UNCHANGED vars BY <1>18 DEF vars
<1> QED BY <1>1, <1>2, <1>3, <1>4, <1>5, <1>6, <1>7, <1>8, <1>9, <1>10, <1>11,
           <1>12, <1>13, <1>14, <1>15, <1>16, <1>17, <1>18 DEF Next, Main, Exited

\* It holds whatever is fair.
LEMMA ServeInvariant == Init /\ [][Next]_vars => []ServeInv
BY ServeStarts, ServeGoesOn, PTL

\* The variables have their types: the channel never holds a second result, and
\* the exit code is one of two.
THEOREM ServeTypes == Spec => []TypeOK
<1>1. ServeInv => TypeOK
  BY DEF ServeInv
<1> QED BY <1>1, ServeInvariant, PTL DEF Spec

\* A process that exits with 0 was asked to, and left no request unanswered.
THEOREM CleanExit == Spec => []CleanExitIsDrained
<1>1. ServeInv => CleanExitIsDrained
  BY DEF ServeInv, DrainIsComplete, CleanExitIsDrained, Busy
<1> QED BY <1>1, ServeInvariant, PTL DEF Spec

\* After a shutdown, complete or not, the database is closed over no handler but
\* those that Close has orphaned, and none starts after it.
THEOREM PoolOutlivesHandlers == Spec => []DatabaseOutlivesHandlers
<1>1. ServeInv => DatabaseOutlivesHandlers
  BY DEF ServeInv, TypeOK, Mains, PoolIsOpen, ListenerIsServing, DrainIsComplete,
         DatabaseOutlivesHandlers
<1> QED BY <1>1, ServeInvariant, PTL DEF Spec

\* select never sees a Serve that says it was closed.
THEOREM SelectSeesNoClosedServer == Spec => ServerClosedIsNeverSelected
<1>1. ServeInv /\ [Next]_vars => (main = "select" /\ main' = "return" => code' = 1)
  <2> SUFFICES ASSUME ServeInv, [Next]_vars, main = "select", main' = "return"
               PROVE  code' = 1
    OBVIOUS
  <2>1. ServeReturned
    BY DEF Next, vars, Main, Load, Open, Listen, Return, StartShutdown, ShutdownDone,
           ShutdownTimeout, CloseDatabase, Exit, Signal, Overdue, AcceptFails,
           SendResult, Connect, Request, Respond, HangUp, Exited
  <2>2. errCh # "closed"
    BY DEF ServeInv, OnlyShutdownCloses
  <2> QED BY <2>1, <2>2 DEF ServeReturned, Return
<1> QED BY <1>1, ServeInvariant, PTL DEF Spec, ServerClosedIsNeverSelected
=============================================================================
