-------------------------- MODULE HttpServiceProofs --------------------------
(***************************************************************************)
(* The server under the HTTP transport, for any number of calls and a pool *)
(* of any size: the life of its process is that of ServeHTTP, and the      *)
(* promise of AtomicWrites is kept for as long as the process lives and    *)
(* after its end.                                                          *)
(***************************************************************************)
EXTENDS HttpService, PromiseProofs

Shut == INSTANCE ServeHTTPProofs WITH Conns <- Calls

\* What a step of the whole does to the process is a step of ServeHTTP or
\* nothing.
LEMMA StepsOfLife == [ServiceNext]_allVars => [Shut!Next]_(Shut!vars)
<1> SUFFICES ASSUME [ServiceNext]_allVars PROVE [Shut!Next]_(Shut!vars)
  OBVIOUS
<1>1. CASE Proceed
  BY <1>1 DEF Proceed, Shut!Next, Shut!Main,
     Life!Load, Life!Open, Life!Listen, Life!ServeReturned, Life!StartShutdown,
     Life!ShutdownDone, Life!CloseDatabase, Life!Return, Life!Drop, Life!Drained,
     Shut!Load, Shut!Open, Shut!Listen, Shut!ServeReturned, Shut!StartShutdown,
     Shut!ShutdownDone, Shut!CloseDatabase, Shut!Return, Shut!Drop, Shut!Drained
<1>2. CASE CutOff
  BY <1>2 DEF CutOff, Shut!Next, Shut!Main, Life!ShutdownTimeout, Life!Return, Life!Drop,
     Shut!ShutdownTimeout, Shut!Return, Shut!Drop
<1>3. CASE Die
  BY <1>3 DEF Die, Shut!Next, Shut!Main, Life!Exit, Shut!Exit
<1>4. CASE Outside
  BY <1>4 DEF Outside, Shut!Next, Life!Running, Shut!Running,
     Life!Signal, Life!Overdue, Life!AcceptFails, Life!SendResult, Life!Connect, Life!HangUp,
     Shut!Signal, Shut!Overdue, Shut!AcceptFails, Shut!SendResult, Shut!Connect, Shut!HangUp
<1>5. ASSUME NEW c \in Calls, Arrive(c) PROVE Shut!Next
  BY <1>5 DEF Arrive, Shut!Next, Life!Request, Shut!Request, Life!Running, Shut!Running
<1>6. ASSUME NEW c \in Calls, Respond(c) PROVE Shut!Next
  BY <1>6 DEF Respond, Shut!Next, Life!Respond, Shut!Respond, Life!Running, Shut!Running
<1>7. ASSUME NEW c \in Calls, Work(c) \/ Trouble(c) \/ Leave(c) \/ Backend(c)
      PROVE  UNCHANGED Shut!vars
  BY <1>7 DEF Work, Trouble, Leave, Backend, life, Shut!vars
<1>8. CASE Rest \/ UNCHANGED allVars
  BY <1>8 DEF Rest, allVars, life, Shut!vars
<1> QED
  BY <1>1, <1>2, <1>3, <1>4, <1>5, <1>6, <1>7, <1>8 DEF ServiceNext

\* The life of the process is one that ServeHTTP allows, whatever the calls do:
\* its initial states and every step of the whole map to ServeHTTP's.
THEOREM LivesSafely == ServiceSpec => Shut!Init /\ [][Shut!Next]_(Shut!vars)
<1>1. ServiceInit => Shut!Init
  BY DEF ServiceInit, Life!Init, Shut!Init
<1> QED
  BY <1>1, StepsOfLife, PTL DEF ServiceSpec

\* So the invariant of the shutdown holds here as well.
LEMMA LifeInvariant == ServiceSpec => []Shut!ServeInv
<1>1. Shut!Init /\ [][Shut!Next]_(Shut!vars) => []Shut!ServeInv
  BY Shut!ServeInvariant
<1> QED
  BY <1>1, LivesSafely, PTL

-----------------------------------------------------------------------------
\* What ties a call to its connection.  A call in progress has a connection
\* that the server counts as busy; a call that is over has told its client
\* before the connection is anything else; connections break in a failure.
Handling(c) == conn[c] \in {"active", "orphan"}

CallInv(c) ==
  /\ pc[c] \notin {"idle", "done"} => Handling(c)
  /\ pc[c] = "done" /\ ~Handling(c) => told[c] # "none"
  /\ told[c] = "broken" => code = 1
  /\ link[c] = "up" => pc[c] \in RoundTrip

ServiceTypes == /\ pc \in [Calls -> Live \cup {"idle", "done"}]
                /\ link \in [Calls -> {"none", "up", "down"}]
                /\ told \in [Calls -> {"none", "answer", "left", "broken"}]

ServiceInv == ServiceTypes /\ \A c \in Calls : CallInv(c)

\* It holds at the start.
LEMMA ServiceStarts == ServiceInit => ServiceInv
  BY DEF ServiceInit, Init, ServiceInv, ServiceTypes, CallInv, Live

\* What a step of a handler does to the place and the link of its call.
Moves(c) ==
  /\ \A d \in Calls \ {c} : pc'[d] = pc[d] /\ link'[d] = link[d]
  /\ pc' \in [Calls -> Live \cup {"idle", "done"}]
  /\ link' \in [Calls -> {"none", "up", "down"}]
  /\ pc[c] \notin {"idle", "done"} \/ pc'[c] = pc[c]
  /\ pc'[c] # "idle" \/ pc'[c] = pc[c]
  /\ link'[c] = "up" => pc'[c] \in RoundTrip

\* Every step of a handler, of its context or of its backend is such a move.
LEMMA WorkMoves ==
  ASSUME ServiceInv, NEW c \in Calls, Work(c) \/ Trouble(c) \/ Leave(c) \/ Backend(c)
  PROVE  Moves(c)
<1> USE DEF ServiceInv, ServiceTypes, CallInv, Moves, RoundTrip, Live
<1>1. CASE Leave(c)
  BY <1>1 DEF Leave, client
<1>2. CASE Backend(c)
  <2>1. CASE SrvClose(c)
    BY <2>1 DEF SrvClose, client
  <2>2. CASE ~SrvClose(c)
    <3>1. UNCHANGED <<pc, link>>
      BY <1>2, <2>2 DEF Backend, Server, SrvBegin, SrvSelect, SrvInsert, SrvExec, SrvCommit,
         SrvRollback, SrvError, Reply, client
    <3> QED
      BY <3>1
  <2> QED
    BY <2>1, <2>2
<1>3. CASE Expire(c)
  BY <1>3 DEF Expire, client
<1>4. CASE LoseConnection(c) \/ GiveUp(c)
  BY <1>4 DEF LoseConnection, GiveUp, Finish, Discard
<1>5. CASE AcquireHere(c)
  BY <1>5 DEF AcquireHere, Acquire
<1>6. CASE PoolClosed(c) \/ PoolTimeout(c)
  BY <1>6 DEF PoolClosed, PoolTimeout, PoolRefuses, Finish
<1>7. CASE Begun(c) \/ NextRow(c) \/ SendCommit(c) \/ DeferredRollback(c)
  BY <1>7 DEF Begun, NextRow, SendCommit, DeferredRollback
<1>8. CASE NextQuery(c)
  BY <1>8 DEF NextQuery, Release
<1>9. CASE Committed(c) \/ QueryDone(c) \/ ExecDone(c) \/ RolledBack(c)
  BY <1>9 DEF Committed, QueryDone, ExecDone, RolledBack, Finish, Release
<1>10. CASE ServerError(c)
  BY <1>10 DEF ServerError, Unusable, Finish, Release
<1> QED
  BY <1>1, <1>2, <1>3, <1>4, <1>5, <1>6, <1>7, <1>8, <1>9, <1>10 DEF Work, Trouble

\* Every step keeps the tie.
LEMMA ServiceGoesOn == ServiceInv /\ Shut!ServeInv /\ [ServiceNext]_allVars => ServiceInv'
<1> SUFFICES ASSUME ServiceInv, Shut!ServeInv, [ServiceNext]_allVars PROVE ServiceInv'
  OBVIOUS
<1> USE DEF ServiceInv, ServiceTypes, CallInv, Handling
<1>0. /\ code \in {-1, 0, 1} /\ (main \notin {"return", "closed", "exited"} => code = -1)
      /\ conn \in [Calls -> {"none", "new", "idle", "active", "orphan", "gone"}]
      /\ (code = -1 => main \notin {"return", "closed", "exited"})
      /\ (code = 0 => \A c \in Calls : ~Handling(c))
  BY DEF Shut!ServeInv, Shut!TypeOK, Shut!Busy, Shut!Mains, Shut!PoolIsOpen, Shut!DrainIsComplete
<1>1. CASE Proceed
  <2>1. UNCHANGED <<pc, link, told>>
    BY <1>1 DEF Proceed, vars, client
  <2>2. \A c \in Calls : Handling(c)' <=> Handling(c)
    <3>1. CASE Life!ShutdownDone
      BY <1>0, <3>1 DEF Life!ShutdownDone, Life!Drop, Life!Drained
    <3>2. CASE ~Life!ShutdownDone
      BY <1>1, <3>2 DEF Proceed, Life!Load, Life!Open, Life!Listen, Life!ServeReturned,
         Life!StartShutdown, Life!CloseDatabase
    <3> QED
      BY <3>1, <3>2
  <2>3. code = 1 => code' = 1
    BY <1>0, <1>1 DEF Proceed, Life!Load, Life!Open, Life!Listen, Life!ServeReturned,
       Life!StartShutdown, Life!ShutdownDone, Life!CloseDatabase, Life!Return
  <2> QED
    BY <2>1, <2>2, <2>3
<1>2. CASE CutOff
  <2>1. UNCHANGED <<pc, link>> /\ code' = 1
    BY <1>2 DEF CutOff, Life!ShutdownTimeout, Life!Return, vars, client
  <2>2. \A c \in Calls : Handling(c)' <=> Handling(c)
    BY <1>0, <1>2 DEF CutOff, Life!ShutdownTimeout, Life!Drop
  <2> QED
    BY <1>2, <2>1, <2>2 DEF CutOff, Break
<1>3. CASE Die
  <2>1. UNCHANGED <<pc, conn, code>> /\ main = "closed"
    BY <1>3 DEF Die, Life!Exit, client
  <2>2. told' \in [Calls -> {"none", "answer", "left", "broken"}]
        /\ \A c \in Calls : /\ told[c] # "none" => told'[c] = told[c]
                            /\ told'[c] = "broken" => told[c] = "broken" \/ Handling(c)
    BY <1>3 DEF Die, Break, Running
  <2>3. link' \in [Calls -> {"none", "down"}]
    BY <1>3 DEF Die
  <2>4. \A c \in Calls : Handling(c) => code = 1
    BY <1>0, <2>1
  <2> QED
    BY <2>1, <2>2, <2>3, <2>4
<1>4. CASE Outside
  <2>1. UNCHANGED <<pc, link, told, code>>
    BY <1>4 DEF Outside, vars, client, Life!Signal, Life!Overdue, Life!AcceptFails,
       Life!SendResult, Life!Connect, Life!HangUp
  <2>2. \A c \in Calls : Handling(c)' <=> Handling(c)
    BY <1>0, <1>4 DEF Outside, Life!Signal, Life!Overdue, Life!AcceptFails, Life!SendResult,
       Life!Connect, Life!HangUp
  <2> QED
    BY <2>1, <2>2
<1>5. ASSUME NEW c \in Calls, Arrive(c) PROVE ServiceInv'
  <2>1. UNCHANGED <<link, told, code>> /\ conn' = [conn EXCEPT ![c] = "active"] /\ pc[c] = "idle"
    BY <1>5 DEF Arrive, Life!Request, Receive
  <2>2. pc' \in [Calls -> Live \cup {"idle", "done"}] /\ \A d \in Calls \ {c} : pc'[d] = pc[d]
    BY <1>5 DEF Arrive, Receive, Finish, Live
  <2>3. link[c] # "up"
    BY <2>1 DEF RoundTrip, Live
  <2> QED
    BY <1>0, <2>1, <2>2, <2>3
<1>6. ASSUME NEW c \in Calls, Respond(c) PROVE ServiceInv'
  <2>1. UNCHANGED <<pc, link, code>> /\ pc[c] = "done"
    BY <1>6 DEF Respond, vars, client, Life!Respond
  <2>2. told' = [told EXCEPT ![c] = IF @ = "none" THEN "answer" ELSE @]
        /\ \A d \in Calls \ {c} : conn'[d] = conn[d]
    BY <1>0, <1>6 DEF Respond, Life!Respond
  <2> QED
    BY <2>1, <2>2
<1>7. ASSUME NEW c \in Calls, Work(c) \/ Trouble(c) \/ Leave(c) \/ Backend(c)
      PROVE  ServiceInv'
  <2>1. Moves(c)
    BY <1>7, WorkMoves
  <2>2. UNCHANGED <<conn, code>>
    BY <1>7 DEF Work, Trouble, Leave, Backend, life
  <2>3. told' \in [Calls -> {"none", "answer", "left", "broken"}]
        /\ \A d \in Calls : told'[d] = told[d] \/ told'[d] = "left"
    BY <1>7 DEF Work, Trouble, Leave, Backend
  <2> QED
    BY <2>1, <2>2, <2>3 DEF Moves
<1>8. CASE Rest \/ UNCHANGED allVars
  BY <1>8 DEF Rest, allVars, vars, client, life
<1> QED
  BY <1>1, <1>2, <1>3, <1>4, <1>5, <1>6, <1>7, <1>8 DEF ServiceNext

\* It holds in every behaviour.
LEMMA ServiceInvariant == ServiceSpec => []ServiceInv
<1> QED
  BY ServiceStarts, ServiceGoesOn, LifeInvariant, PTL DEF ServiceSpec

\* A process that exits with 0 has answered every call that arrived, but for
\* those whose clients left, and has closed its pool with no connection in use.
THEOREM NoCallIsLost == ServiceSpec => []CleanExitLosesNoCall
<1>1. ServiceInv /\ Shut!ServeInv => CleanExitLosesNoCall
  <2> SUFFICES ASSUME ServiceInv, Shut!ServeInv, code = 0, NEW c \in Calls
               PROVE  /\ pc[c] # "idle" => told[c] \in {"answer", "left"}
                      /\ link[c] # "up"
    BY DEF CleanExitLosesNoCall
  <2>1. ~Handling(c)
    BY DEF Shut!ServeInv, Shut!DrainIsComplete, Handling
  <2> QED
    BY <2>1 DEF ServiceInv, ServiceTypes, CallInv, RoundTrip, Live
<1> QED
  BY <1>1, ServiceInvariant, LifeInvariant, PTL

-----------------------------------------------------------------------------
\* The promise, over the life of the process.

\* While the process runs, all that was proved of the calls holds.  Its end
\* takes the handlers away in the middle of what they were doing: of a call
\* that was not over, no more is left than what its backend goes by.
Kept(c) == SessionInv(c) /\ (Req(c).tool = "insert_data" => InsertInv(c))

Outlived ==
  /\ Types /\ InRange
  /\ \A c \in Calls : Behind(c) /\ Guarded(c) /\ (pc[c] = "done" => Kept(c))

Unplugged == \A c \in Calls : link[c] # "up"

ServiceKnown == IF Life!Running THEN KnownInv /\ PromiseInv ELSE Outlived /\ Unplugged

\* A process that runs leaves behind what it should.
LEMMA KnownIsOutlived == KnownInv /\ PromiseInv => Outlived
  BY BehindHandlers DEF KnownInv, BaseInv, InsertsOK, SessionsOK, PromiseInv, Outlived, Kept

\* What is left does not depend on contexts, slots and connections, but for the
\* connections of the calls that are over.
LEMMA OutlivedKept ==
  ASSUME Outlived, UNCHANGED <<config, client, ask, answer, server>>,
         \A c \in Calls : pc[c] = "done" => link'[c] = link[c], Types'
  PROVE  Outlived'
<1>1. InRange'
  BY DEF Outlived, InRange, config, client, server, Req, Trips, Mode, Preview, Execute
<1>2. ASSUME NEW c \in Calls PROVE Behind(c)' /\ Guarded(c)'
  BY <1>2, LocalBehind DEF Outlived, Guarded, client, server, config, Req
<1>3. ASSUME NEW c \in Calls, pc[c] = "done" PROVE Kept(c)'
  <2>1. Local(c)' = Local(c) /\ Locks(c)' = Locks(c) /\ UNCHANGED <<sideEffect, config>>
    BY <1>3 DEF Local, Locks, config, client, server
  <2>2. Req(c)' = Req(c)
    BY <2>1 DEF config, Req
  <2> QED
    BY <1>3, <2>1, <2>2, LocalSessionInv, LocalInsertInv DEF Outlived, Kept
<1> QED
  BY <1>1, <1>2, <1>3 DEF Outlived, client

\* A backend keeps what is left, once no call has a connection.
LEMMA BackendOutlives ==
  ASSUME Outlived, Unplugged, NEW d \in Calls, Server(d)
  PROVE  Outlived' /\ Unplugged'
<1>1. CallStep(d) /\ SomeStep /\ UNCHANGED client
  BY ServerLeavesClient DEF CallStep, SomeStep
<1>2. Types' /\ InRange'
  BY <1>1, NextTypes, NextInRange DEF Outlived
<1>3. ASSUME NEW c \in Calls PROVE Behind(c)' /\ Guarded(c)'
  BY <1>1, <1>3, ServerKeepsBehind, StepsKeepGuarded DEF Outlived
<1>4. ASSUME NEW c \in Calls, pc[c] = "done" PROVE Kept(c)'
  <2>1. Linked(c) /\ Kept(c) /\ Types
    BY <1>4 DEF Linked, RoundTrip, Live, Outlived, Unplugged
  <2>2. Req(c)' = Req(c)
    BY <1>1, ConfigKept DEF config, Req
  <2> QED
    BY <1>1, <2>1, <2>2, StepsKeepSession, StepsKeepInsert DEF Kept
<1>5. Unplugged'
  BY DEF Outlived, Types, WireType, Unplugged, Server, SrvBegin, SrvSelect, SrvInsert,
     SrvExec, SrvCommit, SrvRollback, SrvError, SrvClose, Reply
<1> QED
  BY <1>1, <1>2, <1>3, <1>4, <1>5 DEF Outlived, client

\* What a step of the whole is for the calls: a step of one of them, a client
\* that leaves, the end of the process, or nothing.
CallsLeftAlone ==
  /\ UNCHANGED <<config, client, inUse, link, ask, answer, server>>
  /\ expired' = expired \/ \E c \in Calls : expired' = [expired EXCEPT ![c] = TRUE]
  /\ \/ Life!Running' <=> Life!Running
     \/ main \in {"load", "open"} /\ ~Life!Running'

LEMMA StepsOfCalls ==
  ASSUME [ServiceNext]_allVars
  PROVE  \/ Life!Running /\ SomeStep /\ Life!Running'
         \/ CallsLeftAlone \/ Die
         \/ ~Life!Running /\ ~Life!Running' /\ \E c \in Calls : Server(c)
<1>1. CASE Proceed
  <2>1. UNCHANGED vars
    BY <1>1 DEF Proceed
  <2>2. Life!Running
    BY <1>1 DEF Proceed, Life!Load, Life!Open, Life!Listen, Life!ServeReturned,
       Life!StartShutdown, Life!ShutdownDone, Life!CloseDatabase, Life!Running
  <2>3. ~Life!Running' => main \in {"load", "open"}
    BY <1>1 DEF Proceed, Life!Load, Life!Open, Life!Listen, Life!ServeReturned, Life!Return,
       Life!StartShutdown, Life!ShutdownDone, Life!CloseDatabase, Life!Running
  <2> QED
    BY <2>1, <2>2, <2>3 DEF vars, CallsLeftAlone, Life!Running
<1>2. CASE CutOff \/ Outside \/ Rest \/ UNCHANGED allVars
  <2>1. UNCHANGED vars
    BY <1>2 DEF CutOff, Outside, Rest, allVars
  <2>2. Life!Running' <=> Life!Running
    BY <1>2 DEF CutOff, Outside, Rest, allVars, life, Life!ShutdownTimeout, Life!Return,
       Life!Signal, Life!Overdue, Life!AcceptFails, Life!SendResult, Life!Connect,
       Life!HangUp, Life!Running
  <2> QED
    BY <2>1, <2>2 DEF vars, CallsLeftAlone, Life!Running
<1>3. ASSUME NEW c \in Calls, Arrive(c) \/ Work(c) \/ Trouble(c)
      PROVE  Life!Running /\ SomeStep /\ Life!Running'
  <2>1. Life!Running /\ UNCHANGED main
    BY <1>3 DEF Arrive, Work, Trouble, Life!Request, Life!Running, life
  <2>2. ClientStep(c)
    BY <1>3 DEF Arrive, Work, Trouble, ClientStep, Handler, AcquireHere, PoolClosed
  <2> QED
    BY <2>1, <2>2 DEF SomeStep, CallStep, Life!Running
<1>4. ASSUME NEW c \in Calls, Leave(c) \/ Respond(c)
      PROVE  CallsLeftAlone
  BY <1>4 DEF Leave, Respond, vars, life, Life!Respond, Life!Running, CallsLeftAlone
<1>5. ASSUME NEW c \in Calls, Backend(c) PROVE Server(c) /\ UNCHANGED main
  BY <1>5 DEF Backend, life
<1> QED
  BY <1>1, <1>2, <1>3, <1>4, <1>5 DEF ServiceNext, SomeStep, CallStep, Life!Running

\* It is true of the states in which the process starts.
LEMMA ServiceKnowsAtStart == ServiceInit => ServiceKnown
  BY InitKnown, InitPromise DEF ServiceInit, Life!Init, Life!Running, ServiceKnown

\* The end of the process leaves the calls to their backends.
LEMMA DyingLeavesBackends ==
  ASSUME KnownInv, PromiseInv, Die
  PROVE  Outlived' /\ Unplugged' /\ ~Life!Running'
<1>1. Types
  BY DEF KnownInv, BaseInv
<1>2. /\ UNCHANGED <<config, client, ask, answer, server>>
      /\ link' = [c \in Calls |-> IF link[c] = "up" THEN "down" ELSE link[c]]
  BY DEF Die
<1>3. \A c \in Calls : pc[c] = "done" => link'[c] = link[c]
  BY <1>2 DEF KnownInv, BaseInv, PoolAccounting, RoundTrip, Live
<1>4. Types'
  <2>1. expired' = expired
    BY DEF Die
  <2>2. WireType'
    BY <1>1, <1>2 DEF Types, WireType
  <2> QED
    BY <1>1, <1>2, <2>1, <2>2 DEF Types, ConfigType, ClientType, ServerType, config, client,
       server
<1> QED
  BY <1>2, <1>3, <1>4, KnownIsOutlived, OutlivedKept DEF Die, Life!Exit, Life!Running, Unplugged

\* Leaving the calls alone keeps what is known of them.
LEMMA KnownKept ==
  ASSUME KnownInv, PromiseInv, CallsLeftAlone
  PROVE  KnownInv' /\ PromiseInv' /\ Types'
<1> USE DEF CallsLeftAlone
<1>1. Types /\ Types'
  BY DEF KnownInv, BaseInv, Types, ConfigType, ClientType, WireType, ServerType, config,
     client, server
<1>2. InRange' /\ PoolAccounting' /\ inUse' \in 0 .. PoolSize
  BY DEF KnownInv, BaseInv, InRange, PoolAccounting, client, server, config, Req,
     Trips, Mode, Preview, Execute
<1>3. ASSUME NEW c \in Calls
      PROVE  /\ (Req(c).tool = "insert_data" => InsertInv(c))' /\ SessionInv(c)'
             /\ Pending(c)' /\ Missed(c)' /\ Guarded(c)'
  <2>1. /\ Local(c)' = Local(c) /\ Locks(c)' = Locks(c) /\ UNCHANGED <<sideEffect, config>>
        /\ Req(c)' = Req(c) /\ Mode(Req(c))' = Mode(Req(c))
    BY ShapeKept DEF Local, Locks, config, client, server, Req
  <2>2. SessionInv(c)' /\ (Req(c).tool = "insert_data" => InsertInv(c))'
    BY <2>1, LocalSessionInv, LocalInsertInv DEF KnownInv, InsertsOK, SessionsOK
  <2>3. Pending(c)' /\ Missed(c)' /\ Guarded(c)'
    BY <2>1 DEF PromiseInv, Pending, Missed, Guarded, Local, NoReply, server, client
  <2> QED
    BY <2>2, <2>3
<1> QED
  BY <1>1, <1>2, <1>3 DEF KnownInv, BaseInv, InsertsOK, SessionsOK, PromiseInv

\* A process that ends before it listens has no call to leave behind.
LEMMA NothingUnplugged ==
  ASSUME ServiceInv, Shut!ServeInv, main \in {"load", "open"}
  PROVE  Unplugged
<1>1. \A c \in Calls : ~Handling(c)
  BY DEF Shut!ServeInv, Shut!ListenerIsServing, Handling
<1> QED
  BY <1>1 DEF ServiceInv, CallInv, RoundTrip, Live, Unplugged

\* Every step keeps it.
LEMMA ServiceKnowsOn ==
  ServiceKnown /\ ServiceInv /\ Shut!ServeInv /\ [ServiceNext]_allVars => ServiceKnown'
<1> SUFFICES ASSUME ServiceKnown, ServiceInv, Shut!ServeInv, [ServiceNext]_allVars
             PROVE  ServiceKnown'
  OBVIOUS
<1>1. CASE Life!Running /\ SomeStep /\ Life!Running'
  BY <1>1, NextKnown, NextPromise DEF ServiceKnown
<1>2. CASE CallsLeftAlone
  <2>1. CASE Life!Running
    <3>1. KnownInv /\ PromiseInv /\ KnownInv' /\ PromiseInv' /\ Types'
      BY <1>2, <2>1, KnownKept DEF ServiceKnown
    <3>2. Outlived'
      <4>1. \A c \in Calls : pc[c] = "done" => link'[c] = link[c]
        BY <1>2 DEF CallsLeftAlone
      <4> QED
        BY <1>2, <3>1, <4>1, KnownIsOutlived, OutlivedKept DEF CallsLeftAlone
    <3>3. ~Life!Running' => Unplugged'
      BY <1>2, <2>1, NothingUnplugged DEF CallsLeftAlone, Unplugged
    <3> QED
      BY <3>1, <3>2, <3>3 DEF ServiceKnown
  <2>2. CASE ~Life!Running
    <3>1. Outlived /\ Unplugged /\ ~Life!Running'
      BY <1>2, <2>2 DEF ServiceKnown, CallsLeftAlone, Life!Running
    <3>2. Types'
      BY <1>2, <3>1 DEF CallsLeftAlone, Outlived, Types, ConfigType, ClientType, WireType,
         ServerType, config, client, server
    <3> QED
      BY <1>2, <3>1, <3>2, OutlivedKept DEF ServiceKnown, CallsLeftAlone, Unplugged
  <2> QED
    BY <2>1, <2>2
<1>3. CASE Die
  <2>1. Life!Running
    BY <1>3 DEF Die, Life!Exit, Life!Running
  <2> QED
    BY <1>3, <2>1, DyingLeavesBackends DEF ServiceKnown
<1>4. CASE ~Life!Running /\ ~Life!Running' /\ \E c \in Calls : Server(c)
  BY <1>4, BackendOutlives DEF ServiceKnown
<1> QED
  BY <1>1, <1>2, <1>3, <1>4, StepsOfCalls

\* It holds in every behaviour.
LEMMA ServiceKnowledge == ServiceSpec => [](ServiceKnown /\ ServiceInv /\ Shut!ServeInv)
<1> QED
  BY ServiceKnowsAtStart, ServiceKnowsOn, ServiceInvariant, LifeInvariant, PTL
     DEF ServiceSpec

\* The whole implements the promise as well: also a process that is stopped in
\* the middle of a transaction, or whose connections go down with a statement
\* or a COMMIT on its way, changes everything that a call wants or nothing.
THEOREM PromiseOutlivesProcess == ServiceSpec => KeepsThePromise
<1>1. ServiceInit => Atomic!Init
  BY PromiseStarts DEF ServiceInit
<1>2. ServiceKnown /\ [ServiceNext]_allVars => [Atomic!Next]_(Atomic!vars)
  <2> SUFFICES ASSUME ServiceKnown, [ServiceNext]_allVars
               PROVE  [Atomic!Next]_(Atomic!vars)
    OBVIOUS
  <2>0. Types /\ InRange
    BY DEF ServiceKnown, KnownInv, BaseInv, Outlived
  <2>1. CASE Life!Running /\ SomeStep
    BY <2>1, StepsPromise DEF ServiceKnown
  <2>2. CASE CallsLeftAlone \/ Die
    <3>1. UNCHANGED <<config, applied, present, reply>>
      BY <2>2 DEF CallsLeftAlone, Die, client, server
    <3> QED
      BY <2>0, <3>1, PromiseStutters
  <2>3. CASE ~Life!Running /\ \E c \in Calls : Server(c)
    BY <2>0, <2>3, ServerPromises DEF ServiceKnown, Outlived
  <2> QED
    BY <2>1, <2>2, <2>3, StepsOfCalls
<1> QED
  BY <1>1, <1>2, ServiceKnowledge, PTL DEF ServiceSpec, KeepsThePromise, Atomic!Spec

\* An answer is that of a call that is over.
Answers == \A c \in Calls : told[c] = "answer" => pc[c] = "done"

\* Nothing but the return of its handler makes it one.
LEMMA AnswersStay == ServiceInv /\ Answers /\ [ServiceNext]_allVars => Answers'
<1> SUFFICES ASSUME ServiceInv, Answers, [ServiceNext]_allVars PROVE Answers'
  OBVIOUS
<1> USE DEF ServiceInv, ServiceTypes, Answers
<1>1. CASE Proceed \/ CutOff \/ Die \/ Outside \/ Rest \/ UNCHANGED allVars
  <2>1. UNCHANGED pc
    BY <1>1 DEF Proceed, CutOff, Die, Outside, Rest, allVars, vars, client
  <2>2. \A c \in Calls : told'[c] = "answer" => told[c] = "answer"
    BY <1>1 DEF Proceed, CutOff, Die, Outside, Rest, allVars, Break
  <2> QED
    BY <2>1, <2>2
<1>2. ASSUME NEW c \in Calls, Arrive(c) PROVE Answers'
  BY <1>2 DEF Arrive, Receive, Finish
<1>3. ASSUME NEW c \in Calls, Respond(c) PROVE Answers'
  BY <1>3 DEF Respond, vars, client
<1>4. ASSUME NEW c \in Calls, Work(c) \/ Trouble(c) \/ Leave(c) \/ Backend(c)
      PROVE  Answers'
  <2>1. \A d \in Calls : pc[d] = "done" => pc'[d] = "done"
    BY <1>4, WorkMoves DEF Moves
  <2>2. \A d \in Calls : told'[d] = "answer" => told[d] = "answer"
    BY <1>4 DEF Work, Trouble, Leave, Backend
  <2> QED
    BY <2>1, <2>2
<1> QED
  BY <1>1, <1>2, <1>3, <1>4 DEF ServiceNext

\* What a client was told stays true, whatever becomes of the process: the rows
\* that it was told of are changed, all of them, and no others; and nothing is
\* or will be of a call that failed in front of its COMMIT.
THEOREM AnswersAreTrue == ServiceSpec => []ToldTheTruth
<1>1. ServiceInit => Answers /\ Honest
  BY DEF ServiceInit, Init, Answers, Honest
<1>2. ServiceSpec => [](Answers /\ Honest)
  <2>1. ServiceSpec => []Answers
    BY <1>1, AnswersStay, ServiceInvariant, PTL DEF ServiceSpec
  <2>2. ServiceSpec => []Honest
    BY <1>1, PromiseKeepsHonest, PromiseOutlivesProcess, PTL
       DEF ServiceSpec, KeepsThePromise, Atomic!Spec
  <2> QED
    BY <2>1, <2>2, PTL
<1>3. ServiceKnown /\ Answers /\ Honest => ToldTheTruth
  <2> SUFFICES ASSUME ServiceKnown, Answers, Honest, NEW c \in Calls, told[c] = "answer"
               PROVE  /\ reply[c].status = "executed" => reply[c].rows = RowsChanged(c)
                      /\ reply[c].status # "executed" /\ ~InDoubt(c) => applied[c] = {}
    BY DEF ToldTheTruth
  <2>1. Types /\ Kept(c)
    <3>1. CASE Life!Running
      BY <3>1, KnownIsOutlived DEF ServiceKnown, Outlived, Answers
    <3>2. CASE ~Life!Running
      BY <3>2 DEF ServiceKnown, Outlived, Answers
    <3> QED
      BY <3>1, <3>2
  <2>2. reply[c].status = "executed" => reply[c].rows = RowsChanged(c)
    BY <2>1, CountIsExact DEF Kept, SessionInv, InsertInv
  <2>3. ASSUME reply[c].status # "executed", ~InDoubt(c) PROVE applied[c] = {}
    <3>1. reply[c].status # "none"
      BY <2>1 DEF Answers, Kept, SessionInv, Counted
    <3>2. Verdict(c) \in {"failed", "read"}
      BY <2>3, <3>1 DEF Verdict
    <3> QED
      BY <3>2 DEF Honest
  <2> QED
    BY <2>2, <2>3
<1> QED
  BY <1>2, <1>3, ServiceKnowledge, PTL
=============================================================================
