----------------------------- MODULE HttpService -----------------------------
(***************************************************************************)
(* The server under the HTTP transport: the life of its process, from      *)
(* ServeHTTP, together with the tool calls that its connections carry,     *)
(* from ToolCalls.  The transport is stateless, so a request is one call,  *)
(* and here each connection carries one.                                   *)
(*                                                                         *)
(* What only the two together show: handlers that run while main shuts     *)
(* down, closes the pool under them and ends the process; clients that     *)
(* hang up; and a PostgreSQL server that outlives the process and may      *)
(* still be at work for it.                                                *)
(***************************************************************************)
EXTENDS ToolCalls

VARIABLES
  main, code, dbOpen, signalled, serve, errCh, listening, closing, overdue, conn,
  told   \* what the client of each call knows: "answer", or that it "left" or
         \* that its connection is "broken"

life == <<main, code, dbOpen, signalled, serve, errCh, listening, closing, overdue, conn>>
allVars == <<vars, life, told>>

Life == INSTANCE ServeHTTP WITH Conns <- Calls

ServiceInit == Init /\ Life!Init /\ told = [c \in Calls |-> "none"]

\* The connections with a handler that has yet to return.
Running == {c \in Calls : conn[c] \in {"active", "orphan"}}

Break(lost) == told' = [c \in Calls |-> IF c \in lost /\ told[c] = "none"
                                        THEN "broken" ELSE told[c]]

-----------------------------------------------------------------------------
\* The process.

\* Start, select, the graceful shutdown and the close of the pool.
Proceed ==
  /\ \/ Life!Load \/ Life!Open \/ Life!Listen \/ Life!ServeReturned
     \/ Life!StartShutdown \/ Life!ShutdownDone \/ Life!CloseDatabase
  /\ UNCHANGED <<vars, told>>

\* Server.Close takes the connections from under the handlers.
CutOff == /\ Life!ShutdownTimeout
          /\ Break(Running)
          /\ UNCHANGED vars

\* os.Exit stops the handlers where they are; their connections to PostgreSQL
\* and to the clients break.
Die_LinksStayUp ==
  /\ Life!Exit
  /\ Break(Running)
  /\ UNCHANGED vars
Die ==
  /\ Life!Exit
  /\ Break(Running)
  /\ link' = [c \in Calls |-> IF link[c] = "up" THEN "down" ELSE link[c]]
  /\ inUse' = 0
  /\ UNCHANGED <<config, client, expired, ask, answer, server>>

Outside ==
  /\ \/ Life!Signal \/ Life!Overdue \/ Life!AcceptFails \/ Life!SendResult
     \/ \E c \in Calls : Life!Connect(c) \/ Life!HangUp(c)
  /\ UNCHANGED <<vars, told>>

-----------------------------------------------------------------------------
\* The calls.

\* A request is read and its tool called.
Arrive(c) == /\ pc[c] = "idle"
             /\ Life!Request(c)
             /\ Receive(c)
             /\ UNCHANGED told

\* DB.conn refuses once the pool is closed, to those who wait for it as well.
AcquireHere(c) == dbOpen /\ Acquire(c)
PoolClosed(c) == ~dbOpen /\ PoolRefuses(c)

\* Handlers run as long as the process does.
Work(c) ==
  /\ Life!Running
  /\ \/ AcquireHere(c) \/ PoolClosed(c) \/ PoolTimeout(c) \/ Begun(c) \/ NextRow(c)
     \/ SendCommit(c) \/ Committed(c) \/ NextQuery(c) \/ QueryDone(c)
     \/ ExecDone(c) \/ DeferredRollback(c) \/ RolledBack(c) \/ ServerError(c)
     \/ GiveUp(c)
  /\ UNCHANGED <<life, told>>

\* The deadline passes, or the connection to PostgreSQL breaks.
Trouble(c) ==
  /\ Life!Running
  /\ Expire(c) \/ LoseConnection(c)
  /\ UNCHANGED <<life, told>>

\* The client hangs up; PropagateRequestCancellation ends the context of its
\* call, while the connection counts as active until the handler returns.
Leave_GoneAtOnce(c) ==
  /\ Life!Running /\ conn[c] = "active" /\ told[c] = "none"
  /\ told' = [told EXCEPT ![c] = "left"]
  /\ expired' = [expired EXCEPT ![c] = TRUE]
  /\ conn' = [conn EXCEPT ![c] = "gone"]
  /\ UNCHANGED <<config, client, inUse, link, ask, answer, server, main, code, dbOpen,
                 signalled, serve, errCh, listening, closing, overdue>>
Leave(c) ==
  /\ Life!Running /\ conn[c] = "active" /\ told[c] = "none"
  /\ told' = [told EXCEPT ![c] = "left"]
  /\ expired' = [expired EXCEPT ![c] = TRUE]
  /\ UNCHANGED <<config, client, inUse, link, ask, answer, server, life>>

\* The handler has returned and its result is written.
Respond_BeforeDone(c) ==
  /\ Life!Respond(c)
  /\ told' = [told EXCEPT ![c] = IF @ = "none" THEN "answer" ELSE @]
  /\ UNCHANGED vars
Respond(c) ==
  /\ pc[c] = "done"
  /\ Life!Respond(c)
  /\ told' = [told EXCEPT ![c] = IF @ = "none" THEN "answer" ELSE @]
  /\ UNCHANGED vars

\* PostgreSQL knows nothing of the process.
Backend(c) == Server(c) /\ UNCHANGED <<life, told>>

\* Nothing is left to do once the process is gone and the server knows.
Rest == Life!Exited /\ UNCHANGED allVars

ServiceNext ==
  \/ Proceed \/ CutOff \/ Die \/ Outside \/ Rest
  \/ \E c \in Calls : \/ Arrive(c) \/ Work(c) \/ Trouble(c) \/ Leave(c)
                      \/ Respond(c) \/ Backend(c)

\* As in the two parts; a handler that has returned is answered.
ServiceFairness ==
  /\ WF_allVars(Proceed \/ CutOff \/ Die)
  /\ WF_allVars(Life!Overdue /\ UNCHANGED <<vars, told>>)
  /\ WF_allVars(Life!SendResult /\ UNCHANGED <<vars, told>>)
  /\ WF_allVars(closing /\ Life!AcceptFails /\ UNCHANGED <<vars, told>>)
  /\ \A c \in Calls : /\ WF_allVars(Work(c)) /\ WF_allVars(Respond(c))
                      /\ WF_allVars(Trouble(c) /\ Expire(c))
                      /\ WF_allVars(SrvClose(c) /\ UNCHANGED <<life, told>>)

ServiceSpec == ServiceInit /\ [][ServiceNext]_allVars /\ ServiceFairness

-----------------------------------------------------------------------------
\* Exit code 0 is a promise to the clients: every call that had arrived was
\* answered, unless its own client left; and to the server: the pool was
\* closed with none of its connections in use.
CleanExitLosesNoCall ==
  code = 0 /\ ~dbOpen =>
    \A c \in Calls : /\ pc[c] # "idle" => told[c] \in {"answer", "left"}
                     /\ link[c] # "up"

\* What a client was told is true whatever becomes of the process: the rows that
\* it was told of are changed, all of them, and no others; and nothing is of a
\* call that failed in front of its COMMIT.
ToldTheTruth ==
  \A c \in Calls : told[c] = "answer" =>
    /\ reply[c].status = "executed" => reply[c].rows = RowsChanged(c)
    /\ reply[c].status # "executed" /\ ~InDoubt(c) => applied[c] = {}

\* The process leaves nothing behind: once it is gone its transactions end and
\* their locks go, also those that it left open.
ExitReleasesServer ==
  main = "exited" ~> \A c \in Calls : sess[c] = "idle" /\ \A k \in Objects : holder[k] # c

\* Every call that arrives is answered, unless its client leaves or the
\* process ends under it.
EveryClientHears == \A c \in Calls : conn[c] = "active" ~> told[c] # "none"

\* The whole is a ServeHTTP, its fairness included: handlers that touch the
\* database and a pool that closes do not change the life of the process.
LivesAsServeHTTP == Life!Spec
=============================================================================
