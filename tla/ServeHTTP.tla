------------------------------ MODULE ServeHTTP ------------------------------
(***************************************************************************)
(* The life of the process under the HTTP transport: start, serving, the   *)
(* race between a signal and a failing listener, the bounded graceful      *)
(* shutdown, and the deferred close of the database.                       *)
(*                                                                         *)
(* Three kinds of actor move: the main goroutine, the goroutine that runs  *)
(* http.Server.Serve and reports on a channel with room for one value, and *)
(* the goroutine of each client connection.  http.Server is modelled as    *)
(* net/http documents it: Shutdown closes the listener and waits until     *)
(* every connection is idle; Close drops the connections but does not wait *)
(* for their handlers.                                                     *)
(***************************************************************************)
EXTENDS Integers, FiniteSets

CONSTANT Conns   \* client connections, each opened at most once

VARIABLES
  main,      \* where the main goroutine is
  code,      \* the exit code once run has returned, -1 before
  dbOpen,    \* the pool is open
  signalled, \* the context of NotifyContext is done
  serve,     \* the goroutine of Serve
  errCh,     \* the channel: empty, or the value in it
  listening, \* the listener accepts connections
  closing,   \* Shutdown or Close was called
  overdue,   \* the five seconds of shutdownCtx have passed
  conn       \* the goroutine of each connection

vars == <<main, code, dbOpen, signalled, serve, errCh, listening, closing,
          overdue, conn>>

Mains == {"load", "open", "listen", "select", "shutdown", "return", "closed", "exited"}
Busy == {"new", "active", "orphan"}

\* Types of the variables.
TypeOK == /\ main \in Mains /\ code \in {-1, 0, 1}
          /\ dbOpen \in BOOLEAN /\ signalled \in BOOLEAN /\ listening \in BOOLEAN
          /\ closing \in BOOLEAN /\ overdue \in BOOLEAN
          /\ serve \in {"none", "accepting", "failed", "closed", "gone"}
          /\ errCh \in {"empty", "closed", "failed"}
          /\ conn \in [Conns -> Busy \cup {"none", "idle", "gone"}]

Init == /\ main = "load" /\ code = -1
        /\ dbOpen = FALSE /\ signalled = FALSE /\ listening = FALSE
        /\ closing = FALSE /\ overdue = FALSE
        /\ serve = "none" /\ errCh = "empty"
        /\ conn = [c \in Conns |-> "none"]

-----------------------------------------------------------------------------
\* The main goroutine.

\* run returns c; its deferred calls follow.
Return(c) == main' = "return" /\ code' = c

Load ==
  /\ main = "load"
  /\ \/ main' = "open" /\ UNCHANGED code
     \/ main' = "exited" /\ code' = 1
  /\ UNCHANGED <<dbOpen, signalled, serve, errCh, listening, closing, overdue, conn>>

\* pgdb.Open, whose failure leaves nothing to close.
Open ==
  /\ main = "open"
  /\ \/ main' = "listen" /\ dbOpen' = TRUE /\ UNCHANGED code
     \/ main' = "exited" /\ code' = 1 /\ UNCHANGED dbOpen
  /\ UNCHANGED <<signalled, serve, errCh, listening, closing, overdue, conn>>

\* runServer listens; serveHTTP starts the goroutine of Serve.
Listen ==
  /\ main = "listen"
  /\ \/ /\ main' = "select" /\ listening' = TRUE /\ serve' = "accepting"
        /\ UNCHANGED code
     \/ Return(1) /\ UNCHANGED <<listening, serve>>
  /\ UNCHANGED <<dbOpen, signalled, errCh, closing, overdue, conn>>

\* The first branch of select: Serve has returned by itself.
ServeReturned ==
  /\ main = "select" /\ errCh # "empty"
  /\ Return(IF errCh = "closed" THEN 0 ELSE 1)
  /\ errCh' = "empty"
  /\ UNCHANGED <<dbOpen, signalled, serve, listening, closing, overdue, conn>>

\* The second branch: Shutdown closes the listener and starts to wait.
StartShutdown_StaysInSelect ==
  /\ main = "select" /\ signalled
  /\ closing' = TRUE /\ listening' = FALSE
  /\ UNCHANGED <<main, code, dbOpen, signalled, serve, errCh, overdue, conn>>
StartShutdown_ReturnsAtOnce ==
  /\ main = "select" /\ signalled
  /\ Return(0)
  /\ closing' = TRUE /\ listening' = FALSE
  /\ UNCHANGED <<dbOpen, signalled, serve, errCh, overdue, conn>>
StartShutdown ==
  /\ main = "select" /\ signalled
  /\ main' = "shutdown"
  /\ closing' = TRUE /\ listening' = FALSE
  /\ UNCHANGED <<code, dbOpen, signalled, serve, errCh, overdue, conn>>

\* A connection that has been open for five seconds without a request counts
\* as idle, so none is in the way of Shutdown when shutdownCtx is about to end.
Drained == \A c \in Conns : conn[c] # "active" /\ (conn[c] = "new" => overdue)

Drop == conn' = [c \in Conns |-> CASE conn[c] = "active" -> "orphan"
                                  [] conn[c] \in {"new", "idle"} -> "gone"
                                  [] OTHER -> conn[c]]

\* Shutdown waits for Serve to return, finds every connection idle, and
\* closes them.
ShutdownDone ==
  /\ main = "shutdown" /\ serve # "accepting" /\ Drained
  /\ Drop
  /\ Return(0)
  /\ UNCHANGED <<dbOpen, signalled, serve, errCh, listening, closing, overdue>>

\* Shutdown gives up; Close drops every connection, handlers run on.
ShutdownTimeout_Never == FALSE /\ UNCHANGED vars
ShutdownTimeout_ErrorIgnored ==
  /\ main = "shutdown" /\ serve # "accepting" /\ overdue
  /\ Drop
  /\ Return(0)
  /\ UNCHANGED <<dbOpen, signalled, serve, errCh, listening, closing, overdue>>
ShutdownTimeout_NoClose ==
  /\ main = "shutdown" /\ serve # "accepting" /\ overdue
  /\ Return(1)
  /\ UNCHANGED <<dbOpen, signalled, serve, errCh, listening, closing, overdue, conn>>
ShutdownTimeout ==
  /\ main = "shutdown" /\ serve # "accepting" /\ overdue
  /\ Drop
  /\ Return(1)
  /\ UNCHANGED <<dbOpen, signalled, serve, errCh, listening, closing, overdue>>

\* The deferred client.Close; then os.Exit, which stops every goroutine.
CloseDatabase ==
  /\ main = "return"
  /\ main' = "closed" /\ dbOpen' = FALSE
  /\ UNCHANGED <<code, signalled, serve, errCh, listening, closing, overdue, conn>>
Exit ==
  /\ main = "closed"
  /\ main' = "exited"
  /\ UNCHANGED <<dbOpen, code, signalled, serve, errCh, listening, closing, overdue, conn>>

-----------------------------------------------------------------------------
\* The other goroutines and the environment.

Running == main # "exited"

Signal ==
  /\ main \in {"select", "shutdown"} /\ ~signalled
  /\ signalled' = TRUE
  /\ UNCHANGED <<main, code, dbOpen, serve, errCh, listening, closing, overdue, conn>>

\* The five seconds of shutdownCtx.
Overdue ==
  /\ main = "shutdown" /\ ~overdue
  /\ overdue' = TRUE
  /\ UNCHANGED <<main, code, dbOpen, signalled, serve, errCh, listening, closing, conn>>

\* Accept fails: Serve returns its error, or ErrServerClosed after Shutdown.
AcceptFails ==
  /\ Running /\ serve = "accepting"
  /\ serve' = IF closing THEN "closed" ELSE "failed"
  /\ listening' = FALSE
  /\ UNCHANGED <<main, code, dbOpen, signalled, errCh, closing, overdue, conn>>

\* The goroutine of Serve sends what Serve returned; the channel has room.
SendResult ==
  /\ Running /\ serve \in {"failed", "closed"} /\ errCh = "empty"
  /\ errCh' = serve
  /\ serve' = "gone"
  /\ UNCHANGED <<main, code, dbOpen, signalled, listening, closing, overdue, conn>>

Connect(c) ==
  /\ Running /\ listening /\ conn[c] = "none"
  /\ conn' = [conn EXCEPT ![c] = "new"]
  /\ UNCHANGED <<main, code, dbOpen, signalled, serve, errCh, listening, closing, overdue>>

\* A request arrives on the connection and its handler starts.
Request(c) ==
  /\ Running /\ conn[c] \in {"new", "idle"}
  /\ conn' = [conn EXCEPT ![c] = "active"]
  /\ UNCHANGED <<main, code, dbOpen, signalled, serve, errCh, listening, closing, overdue>>

\* The handler is done; under Shutdown its connection is closed.
Respond(c) ==
  /\ Running
  /\ conn[c] \in {"active", "orphan"}
  /\ conn' = [conn EXCEPT ![c] = IF closing THEN "gone" ELSE "idle"]
  /\ UNCHANGED <<main, code, dbOpen, signalled, serve, errCh, listening, closing, overdue>>

\* The client closes a connection on which nothing is running.
HangUp(c) ==
  /\ Running /\ conn[c] \in {"new", "idle"}
  /\ conn' = [conn EXCEPT ![c] = "gone"]
  /\ UNCHANGED <<main, code, dbOpen, signalled, serve, errCh, listening, closing, overdue>>

Exited == main = "exited" /\ UNCHANGED vars

Main == Load \/ Open \/ Listen \/ ServeReturned \/ StartShutdown \/ ShutdownDone
        \/ ShutdownTimeout \/ CloseDatabase \/ Exit

Next == \/ Main \/ Signal \/ Overdue \/ AcceptFails \/ SendResult \/ Exited
        \/ \E c \in Conns : Connect(c) \/ Request(c) \/ Respond(c) \/ HangUp(c)

\* The goroutines run and timers fire; Accept fails once the listener is
\* closed.  Nothing is assumed of handlers and clients.
Fairness == /\ WF_vars(Main) /\ WF_vars(Overdue) /\ WF_vars(SendResult)
            /\ WF_vars(closing /\ AcceptFails)

Spec == Init /\ [][Next]_vars /\ Fairness

-----------------------------------------------------------------------------
\* The process that exits with 0 was asked to stop, and no handler was running
\* when its database was closed: the drain was complete.
CleanExitIsDrained ==
  code = 0 => signalled /\ \A c \in Conns : conn[c] \notin Busy

\* When a shutdown, complete or timed out, is followed by the close of the
\* database, no connection has a handler on it or may still start one, but for
\* the handlers that Server.Close has orphaned.  (When Serve fails by itself
\* there is no shutdown, and handlers do run on against the closed pool.)
DatabaseOutlivesHandlers ==
  closing /\ ~dbOpen => \A c \in Conns : conn[c] \in {"none", "orphan", "gone"}

\* A result of Serve that says ErrServerClosed is never what select picks:
\* only the other branch closes the server.
ServerClosedIsNeverSelected == [][main = "select" /\ main' = "return" => code' = 1]_vars

\* After a signal the process ends, whether or not its handlers do.
SignalEndsProcess == main = "select" /\ signalled ~> main = "exited"
=============================================================================
