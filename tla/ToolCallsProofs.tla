--------------------------- MODULE ToolCallsProofs ---------------------------
(***************************************************************************)
(* Proofs about ToolCalls, for every set of calls and requests and every   *)
(* size of the pool: types, the pool, inserts, and then the gates, the     *)
(* sessions and the answers of tools of every kind.                        *)
(***************************************************************************)
EXTENDS ToolCalls, TLAPS, FiniteSetTheorems

-----------------------------------------------------------------------------
\* Helper facts.

\* The replies of the handlers have the type of replies.
LEMMA Replies ==
  /\ \A at \in Live : Failure(at) \in ReplyType
  /\ \A n \in Nat : Executed(n) \in ReplyType
  /\ \A r : ReadReply(r) \in ReplyType
  /\ \A s \in {"rejected", "read", "preview"} :
       [NoReply EXCEPT !.status = s] \in ReplyType
<1>1. \A s \in {"rejected", "read", "preview"} :
        [NoReply EXCEPT !.status = s] \in ReplyType
  BY DEF NoReply, ReplyType
<1> QED
  BY <1>1 DEF Failure, Executed, ReadReply, ReplyType

\* Answering a call keeps the types of pc and reply.
LEMMA FinishType ==
  ASSUME ClientType, NEW c \in Calls, NEW r \in ReplyType, Finish(c, r)
  PROVE  /\ pc' \in [Calls -> Live \cup {"idle", "done"}]
         /\ reply' \in [Calls -> ReplyType]
  BY DEF Finish, ClientType

Types == ConfigType /\ ClientType /\ WireType /\ ServerType

\* The statements of a call stay within the keys it came with.
InRange == \A c \in Calls : /\ step[c] <= Trips(Req(c))
                            /\ \A i \in staged[c] : i <= Len(Req(c).keys)

\* A call has at least one statement, and one per key when it changes rows.
LEMMA TripsType ==
  ASSUME NEW r \in Requests
  PROVE  /\ r \in RequestType /\ Trips(r) \in Nat \ {0}
         /\ Mode(r) = "insertTx" => Trips(r) = Len(r.keys)
         /\ Mode(r) \in {"insertTx", "exec"} => /\ r.tool \in DMLTools \cup DDLTools
                                              /\ Trips(r) <= Len(r.keys)
<1>1. r \in RequestType /\ Len(r.keys) \in Nat
  BY RequestAssumption DEF RequestType
<1>2. Mode(r) \in {"insertTx", "exec"} => r.tool \in DMLTools \cup DDLTools
  BY <1>1 DEF Mode, Preview, Execute, RequestType, Tools
<1>3. Mode(r) \in {"insertTx", "exec"} => Len(r.keys) > 0
  BY <1>2, RequestAssumption
<1>4. Mode(r) = "exec" => Trips(r) = 1
  BY <1>2 DEF Trips, DMLTools, DDLTools
<1> QED
  BY <1>1, <1>2, <1>3, <1>4 DEF Trips

\* The object of the statement a call is at.
LEMMA KeyType ==
  ASSUME ConfigType, ClientType, InRange, NEW c \in Calls, Mutates(c)
  PROVE  step[c] \in 1 .. Len(Req(c).keys) /\ Key(c) \in Objects
<1>1. Req(c) \in Requests
  BY DEF ConfigType, Req
<1>2. step[c] \in Nat \ {0} /\ step[c] <= Trips(Req(c))
  BY DEF ClientType, InRange
<1>3. step[c] \in 1 .. Len(Req(c).keys)
  BY <1>1, <1>2, TripsType DEF Mutates, RequestType
<1> QED
  BY <1>1, <1>3, TripsType DEF Key, RequestType

-----------------------------------------------------------------------------
\* Steps.

\* What can happen to a call: a step of its handler, the end of its context, a
\* connection that is refused or breaks, a step of its backend.  The pool may
\* refuse a call for other reasons than its context, so these are more steps
\* than Next has, and what they keep is kept under either transport.
ClientStep(c) == Receive(c) \/ Handler(c) \/ PoolRefuses(c) \/ Expire(c)
                 \/ LoseConnection(c)
CallStep(c) == ClientStep(c) \/ Server(c)
SomeStep == \E c \in Calls : CallStep(c)

\* Every step of the specification is one of these, or changes nothing.
LEMMA NextIsSomeStep == [Next]_vars => [SomeStep]_vars
  BY DEF Next, AllAnswered, SomeStep, CallStep, ClientStep

\* The client's side of a call does not reach into the server.
LEMMA ClientLeavesServer ==
  ASSUME NEW c \in Calls, ClientStep(c)
  PROVE  UNCHANGED <<config, server>>
  BY DEF ClientStep, Receive, Handler, Expire, LoseConnection, Acquire, PoolTimeout,
     PoolRefuses, Begun, NextRow, SendCommit, Committed, NextQuery, QueryDone, ExecDone,
     DeferredRollback, RolledBack, ServerError, GiveUp

\* The server does not reach into the handlers.
LEMMA ServerLeavesClient ==
  ASSUME NEW c \in Calls, Server(c)
  PROVE  UNCHANGED <<config, client>>
  BY DEF Server, SrvBegin, SrvSelect, SrvInsert, SrvExec, SrvCommit, SrvRollback,
     SrvError, SrvClose, Reply

\* Every step leaves the configuration and the requests alone.
LEMMA ConfigKept == [SomeStep]_vars => UNCHANGED config
  BY ClientLeavesServer, ServerLeavesClient DEF SomeStep, CallStep, vars

-----------------------------------------------------------------------------
\* Types.

\* The initial state is well typed.
LEMMA InitTypes == Init => Types
  BY DEF Init, Types, ConfigType, ClientType, WireType, ServerType, NoReply,
         ReplyType, Live

\* A step of a handler, or of its context, keeps the types.
LEMMA ClientStepTypes ==
  ASSUME Types, NEW c \in Calls, ClientStep(c)
  PROVE  Types'
<1> USE DEF Types
<1>1. CASE Receive(c)
  <2>1. pc' \in [Calls -> Live \cup {"idle", "done"}] /\ reply' \in [Calls -> ReplyType]
    <3>1. CASE ~Admitted(Req(c))
      BY <1>1, <3>1, Replies, FinishType DEF Receive
    <3>2. CASE Admitted(Req(c)) /\ Mode(Req(c)) = "local"
      BY <1>1, <3>2, Replies, FinishType DEF Receive
    <3>3. CASE Admitted(Req(c)) /\ Mode(Req(c)) # "local"
      BY <1>1, <3>3 DEF Receive, ClientType, Live
    <3> QED
      BY <3>1, <3>2, <3>3
  <2> QED
    BY <1>1, <2>1 DEF Receive, ConfigType, ClientType, WireType, ServerType, config, server
<1>2. CASE Expire(c)
  BY <1>2 DEF Expire, Send, Release, Affected, ConfigType, ClientType, WireType, ServerType, config, client, server, Live
<1>3. CASE Acquire(c)
  BY <1>3 DEF Acquire, Send, Release, Affected, ConfigType, ClientType, WireType, ServerType, config, client, server, Live
<1>4. CASE PoolRefuses(c)
  <2>1. PICK r \in ReplyType : Finish(c, r)
    BY <1>4, Replies DEF PoolRefuses, ClientType, Live, RoundTrip, Affected
  <2> QED
    BY <1>4, <2>1, FinishType DEF PoolRefuses, Release, Discard, ConfigType, ClientType, WireType, ServerType, config, server
<1>5. CASE Begun(c)
  BY <1>5 DEF Begun, Send, Release, Affected, ConfigType, ClientType, WireType, ServerType, config, client, server, Live
<1>6. CASE NextRow(c)
  BY <1>6 DEF NextRow, Send, Release, Affected, ConfigType, ClientType, WireType, ServerType, config, client, server, Live
<1>7. CASE SendCommit(c)
  BY <1>7 DEF SendCommit, Send, Release, Affected, ConfigType, ClientType, WireType, ServerType, config, client, server, Live
<1>8. CASE Committed(c)
  <2>1. PICK r \in ReplyType : Finish(c, r)
    BY <1>8, Replies DEF Committed, ClientType, Live, RoundTrip, Affected
  <2> QED
    BY <1>8, <2>1, FinishType DEF Committed, Release, Discard, ConfigType, ClientType, WireType, ServerType, config, server
<1>9. CASE NextQuery(c)
  BY <1>9 DEF NextQuery, Send, Release, Affected, ConfigType, ClientType, WireType, ServerType, config, client, server, Live
<1>10. CASE QueryDone(c)
  <2>1. PICK r \in ReplyType : Finish(c, r)
    BY <1>10, Replies DEF QueryDone, ClientType, Live, RoundTrip, Affected
  <2> QED
    BY <1>10, <2>1, FinishType DEF QueryDone, Release, Discard, ConfigType, ClientType, WireType, ServerType, config, server
<1>11. CASE ExecDone(c)
  <2>1. PICK r \in ReplyType : Finish(c, r)
    BY <1>11, Replies DEF ExecDone, ClientType, Live, RoundTrip, Affected
  <2> QED
    BY <1>11, <2>1, FinishType DEF ExecDone, Release, Discard, ConfigType, ClientType, WireType, ServerType, config, server
<1>12. CASE DeferredRollback(c)
  BY <1>12 DEF DeferredRollback, Send, Release, Affected, ConfigType, ClientType, WireType, ServerType, config, client, server, Live
<1>13. CASE RolledBack(c)
  <2>1. PICK r \in ReplyType : Finish(c, r)
    BY <1>13, Replies DEF RolledBack, ClientType, Live, RoundTrip, Affected
  <2> QED
    BY <1>13, <2>1, FinishType DEF RolledBack, Release, Discard, ConfigType, ClientType, WireType, ServerType, config, server
<1>14. CASE ServerError(c)
  <2>1. PICK r \in ReplyType : Finish(c, r)
    BY <1>14, Replies DEF ServerError, Unusable, ClientType, Live, RoundTrip, Affected
  <2> QED
    BY <1>14, <2>1, FinishType DEF ServerError, Release, Discard, ConfigType, ClientType, WireType, ServerType, config, server
<1>15. CASE GiveUp(c)
  <2>1. PICK r \in ReplyType : Finish(c, r)
    BY <1>15, Replies DEF GiveUp, ClientType, Live, RoundTrip, Affected
  <2> QED
    BY <1>15, <2>1, FinishType DEF GiveUp, Release, Discard, ConfigType, ClientType, WireType, ServerType, config, server
<1>16. CASE LoseConnection(c)
  <2>1. PICK r \in ReplyType : Finish(c, r)
    BY <1>16, Replies DEF LoseConnection, ClientType, Live, RoundTrip, Affected
  <2> QED
    BY <1>16, <2>1, FinishType DEF LoseConnection, Release, Discard, ConfigType, ClientType, WireType, ServerType, config, server
<1> QED
  BY <1>1, <1>2, <1>3, <1>4, <1>5, <1>6, <1>7, <1>8, <1>9, <1>10, <1>11, <1>12, <1>13, <1>14, <1>15, <1>16
     DEF CallStep, ClientStep, Handler, PoolTimeout

\* An answer of the server leaves the client's side as it is.
LEMMA ReplyTypes ==
  ASSUME ConfigType, ClientType, WireType, NEW c \in Calls,
         NEW a \in {"ok", "row", "error"}, Reply(c, a)
  PROVE  ConfigType' /\ ClientType' /\ WireType'
  BY DEF Reply, ConfigType, ClientType, WireType, config, client

\* Ending a transaction keeps the types of the server's state.
LEMMA AbortTypes ==
  ASSUME ServerType, NEW c \in Calls, NEW s \in {"idle", "failed"}, Abort(c, s)
  PROVE  ServerType'
  BY DEF Abort, Unlock, ServerType

\* A step of the server keeps the types.
LEMMA ServerStepTypes ==
  ASSUME Types, InRange, NEW c \in Calls, Server(c)
  PROVE  Types'
<1>a. Mutates(c) => Key(c) \in Objects /\ step[c] \in Nat \ {0}
  <2>1. ASSUME Mutates(c) PROVE Key(c) \in Objects
    BY <2>1, KeyType DEF Types
  <2>2. step[c] \in Nat \ {0}
    BY DEF Types, ClientType
  <2> QED
    BY <2>1, <2>2
<1>b. CASE \E a \in {"ok", "row", "error"} : Reply(c, a)
  <2>0. ConfigType' /\ ClientType' /\ WireType'
    BY <1>b, ReplyTypes DEF Types
  <2>1. ServerType /\ (ServerType' => Types')
    BY <2>0 DEF Types
  <2>2. CASE \E s \in {"idle", "failed"} : Abort(c, s)
    BY <2>1, <2>2, AbortTypes
  <2>3. CASE SrvBegin(c)
    BY <2>1, <2>3 DEF SrvBegin, ServerType
  <2>4. CASE SrvSelect(c)
    <3>1. CASE Req(c).writes /\ sess[c] = "readOnly"
      BY <2>2, <2>4, <3>1 DEF SrvSelect
    <3>2. CASE ~(Req(c).writes /\ sess[c] = "readOnly")
      BY <2>1, <2>4, <3>2 DEF SrvSelect, ServerType
    <3> QED
      BY <3>1, <3>2
  <2>5. CASE SrvInsert(c)
    <3>1. CASE Key(c) \in present \cup Added(c)
      BY <2>2, <2>5, <3>1 DEF SrvInsert
    <3>2. CASE Key(c) \notin present \cup Added(c)
      BY <1>a, <2>1, <2>5, <3>2 DEF SrvInsert, ServerType
    <3> QED
      BY <3>1, <3>2
  <2>6. CASE SrvExec(c)
    BY <1>a, <2>1, <2>6 DEF SrvExec, ServerType, server
  <2>7. CASE SrvCommit(c)
    <3>1. Req(c).keys \in Seq(Objects)
      BY TripsType DEF Types, ConfigType, Req, RequestType
    <3>2. \A i \in staged[c] : i \in 1 .. Len(Req(c).keys)
      BY <2>1, <3>1 DEF InRange, ServerType
    <3>3. Added(c) \subseteq Objects
      BY <3>1, <3>2 DEF Added
    <3> QED
      BY <2>1, <2>7, <3>3 DEF SrvCommit, Unlock, ServerType
  <2>8. CASE SrvRollback(c) \/ SrvError(c)
    BY <2>2, <2>8 DEF SrvRollback, SrvError
  <2>9. CASE SrvClose(c)
    BY <2>2, <2>9 DEF SrvClose
  <2> QED
    BY <2>3, <2>4, <2>5, <2>6, <2>7, <2>8, <2>9 DEF Server
<1>c. CASE SrvClose(c)
  <2>1. ConfigType' /\ ClientType' /\ WireType'
    BY <1>c DEF SrvClose, Types, ConfigType, ClientType, WireType, config, client
  <2>2. ServerType'
    BY <1>c, AbortTypes DEF SrvClose, Types
  <2> QED
    BY <2>1, <2>2 DEF Types
<1> QED
  BY <1>b, <1>c DEF Server, SrvBegin, SrvSelect, SrvInsert, SrvExec, Tag, SrvCommit,
     SrvRollback, SrvError

\* Every step keeps the types.
LEMMA NextTypes == Types /\ InRange /\ [SomeStep]_vars => Types'
<1> SUFFICES ASSUME Types, InRange, [SomeStep]_vars PROVE Types'
  OBVIOUS
<1>1. ASSUME NEW c \in Calls, ClientStep(c) PROVE Types'
  BY <1>1, ClientStepTypes
<1>2. ASSUME NEW c \in Calls, Server(c) PROVE Types'
  BY <1>2, ServerStepTypes
<1>3. CASE UNCHANGED vars
  BY <1>3 DEF vars, config, client, server, Types, ConfigType, ClientType,
     WireType, ServerType
<1> QED
  BY <1>1, <1>2, <1>3 DEF SomeStep, CallStep

-----------------------------------------------------------------------------
\* The pool.

\* Every step keeps the calls within their keys.
LEMMA NextInRange == Types /\ InRange /\ [SomeStep]_vars => InRange'
<1> SUFFICES ASSUME Types, InRange, [SomeStep]_vars, NEW d \in Calls
             PROVE  /\ step'[d] <= Trips(Req(d))'
                    /\ \A i \in staged'[d] : i <= Len(Req(d)'.keys)
  BY DEF InRange
<1> USE DEF Types
<1>1. Req(d)' = Req(d) /\ Trips(Req(d))' = Trips(Req(d))
  <2>1. request' = request /\ requireConfirmation' = requireConfirmation
    BY ConfigKept DEF config
  <2> QED
    BY <2>1 DEF Req, Trips, Mode, Preview, Execute
<1>2. step[d] \in Nat /\ step[d] <= Trips(Req(d)) /\ Trips(Req(d)) \in Nat
      /\ \A i \in staged[d] : i <= Len(Req(d).keys)
  BY TripsType DEF InRange, ClientType, ConfigType, Req
<1>3. CASE UNCHANGED <<step, staged>>
  BY <1>1, <1>2, <1>3
<1>4. ASSUME NEW c \in Calls, NextRow(c) \/ NextQuery(c)
      PROVE  step'[d] <= Trips(Req(d)) /\ staged' = staged
  BY <1>2, <1>4 DEF NextRow, NextQuery, ClientType, server
<1>5. ASSUME NEW c \in Calls, SrvInsert(c)
      PROVE  step' = step /\ \A i \in staged'[d] : i <= Len(Req(d).keys)
  <2>1. step[c] <= Len(Req(c).keys)
    <3>1. Mutates(c)
      BY <1>5 DEF SrvInsert
    <3>2. step[c] \in 1 .. Len(Req(c).keys) /\ Len(Req(c).keys) \in Nat
      BY <3>1, KeyType, TripsType DEF ConfigType, Req, RequestType
    <3> QED
      BY <3>2
  <2>2. CASE c = d
    BY <1>2, <1>5, <2>1, <2>2 DEF SrvInsert, Abort, Reply, client, ServerType
  <2>3. CASE c # d
    BY <1>2, <1>5, <2>3 DEF SrvInsert, Abort, Reply, client, ServerType
  <2> QED
    BY <2>2, <2>3
<1>6. ASSUME NEW c \in Calls, Server(c), ~SrvInsert(c)
      PROVE  step' = step /\ \A i \in staged'[d] : i \in staged[d]
  BY <1>6 DEF Server, SrvBegin, SrvSelect, SrvExec, SrvCommit, SrvRollback, SrvError,
     SrvClose, Abort, Reply, client, server, ServerType
<1>7. ASSUME NEW c \in Calls, ClientStep(c)
      PROVE  NextRow(c) \/ NextQuery(c) \/ UNCHANGED <<step, staged>>
  BY <1>7 DEF ClientStep, Handler, Receive, Expire, LoseConnection, Acquire, PoolTimeout,
     PoolRefuses, Begun, SendCommit, Committed, QueryDone, ExecDone, DeferredRollback,
     RolledBack, ServerError, GiveUp, client, server
<1> QED
  BY <1>1, <1>2, <1>3, <1>4, <1>5, <1>6, <1>7 DEF SomeStep, CallStep, vars, client, server

Up == {c \in Calls : link[c] = "up"}

\* What a step can do to the connection of a call: take one, give it up, or
\* keep things as they are but for the server noticing that it is closed.
Others(c) == \A d \in Calls \ {c} : pc'[d] = pc[d] /\ link'[d] = link[d]
Takes(c) ==
  /\ pc[c] \notin RoundTrip /\ pc'[c] \in RoundTrip /\ link'[c] = "up"
  /\ inUse < PoolSize /\ inUse' = inUse + 1
GivesUp(c) ==
  /\ pc[c] \in RoundTrip /\ pc'[c] \notin RoundTrip /\ link'[c] # "up"
  /\ inUse' = inUse - 1
Keeps(c) ==
  /\ pc'[c] \in RoundTrip <=> pc[c] \in RoundTrip
  /\ link'[c] = "up" <=> link[c] = "up"
  /\ inUse' = inUse

\* Every step is one of these for some call.
LEMMA StepsOfLinks ==
  ASSUME Types, NEW c \in Calls, CallStep(c)
  PROVE  Others(c) /\ (Takes(c) \/ GivesUp(c) \/ Keeps(c))
<1> USE DEF Types, ClientType, WireType, Others
<1>1. CASE Server(c)
  <2>1. inUse' = inUse /\ pc' = pc
    BY <1>1 DEF Server, SrvBegin, SrvSelect, SrvInsert, SrvExec, SrvCommit, SrvRollback,
       SrvError, SrvClose, Reply, client
  <2>2. CASE SrvClose(c)
    BY <2>1, <2>2 DEF SrvClose, Keeps
  <2>3. CASE ~SrvClose(c)
    <3>1. link' = link
      BY <1>1, <2>3 DEF Server, SrvBegin, SrvSelect, SrvInsert, SrvExec, SrvCommit,
         SrvRollback, SrvError, Reply
    <3> QED
      BY <2>1, <3>1 DEF Keeps
  <2> QED
    BY <2>2, <2>3
<1>2. CASE Receive(c)
  BY <1>2 DEF Receive, Finish, Keeps, RoundTrip, Live
<1>3. CASE Expire(c)
  BY <1>3 DEF Expire, client, Keeps
<1>4. CASE Acquire(c)
  BY <1>4 DEF Acquire, Takes, RoundTrip, Live
<1>5. CASE PoolRefuses(c)
  BY <1>5 DEF PoolRefuses, Finish, Keeps, RoundTrip, Live
<1>6. CASE Begun(c) \/ NextRow(c) \/ SendCommit(c) \/ DeferredRollback(c)
  BY <1>6 DEF Begun, NextRow, SendCommit, DeferredRollback, Keeps, RoundTrip, Live
<1>7. CASE Committed(c) \/ NextQuery(c) \/ QueryDone(c) \/ ExecDone(c) \/ RolledBack(c)
           \/ ServerError(c)
  <2>1. pc[c] \in RoundTrip /\ Release(c)
    BY <1>7 DEF Committed, NextQuery, QueryDone, ExecDone, RolledBack, ServerError,
       Unusable, RoundTrip, Live
  <2>2. pc'[c] \in {"pool", "done"} /\ \A d \in Calls \ {c} : pc'[d] = pc[d]
    BY <1>7 DEF Committed, NextQuery, QueryDone, ExecDone, RolledBack, ServerError, Finish
  <2> QED
    BY <2>1, <2>2 DEF Release, GivesUp, RoundTrip, Live
<1>8. CASE GiveUp(c) \/ LoseConnection(c)
  BY <1>8 DEF GiveUp, LoseConnection, Finish, Discard, GivesUp, RoundTrip, Live
<1> QED
  BY <1>1, <1>2, <1>3, <1>4, <1>5, <1>6, <1>7, <1>8
     DEF CallStep, ClientStep, Handler, PoolTimeout

\* The number of connections follows the links.
LEMMA LinksCounted ==
  ASSUME Types, PoolAccounting, inUse \in 0 .. PoolSize, NEW c \in Calls,
         Others(c), Takes(c) \/ GivesUp(c) \/ Keeps(c)
  PROVE  PoolAccounting' /\ inUse' \in 0 .. PoolSize
<1>1. /\ Up \subseteq Calls /\ IsFiniteSet(Up) /\ inUse = Cardinality(Up)
      /\ PoolSize \in Nat
  <2>1. Up \subseteq Calls /\ IsFiniteSet(Up)
    BY CallsAssumption, FS_Subset DEF Up
  <2> QED
    BY <2>1, PoolAssumption DEF PoolAccounting, Up
<1>2. \A d \in Calls : link[d] = "up" <=> pc[d] \in RoundTrip
  BY DEF PoolAccounting
<1>3. \A d \in Calls : link'[d] = "up" <=> pc'[d] \in RoundTrip
  BY <1>2 DEF Others, Takes, GivesUp, Keeps
<1>4. inUse' = Cardinality(Up') /\ inUse' \in 0 .. PoolSize
  <2>1. CASE Takes(c)
    <3>1. c \notin Up /\ Up' = Up \cup {c}
      BY <1>2, <2>1 DEF Takes, Others, Up
    <3>2. Cardinality(Up') = Cardinality(Up) + 1
      BY <1>1, <3>1, FS_AddElement
    <3> QED
      BY <1>1, <2>1, <3>2 DEF Takes
  <2>2. CASE GivesUp(c)
    <3>1. c \in Up /\ Up' = Up \ {c}
      BY <1>2, <2>2 DEF GivesUp, Others, Up
    <3>2. Cardinality(Up') = Cardinality(Up) - 1
      BY <1>1, <3>1, FS_RemoveElement
    <3>3. Cardinality(Up') \in Nat
      BY <1>1, <3>1, FS_RemoveElement, FS_CardinalityType
    <3> QED
      BY <1>1, <2>2, <3>2, <3>3 DEF GivesUp
  <2>3. CASE Keeps(c)
    <3>1. Up' = Up
      BY <2>3 DEF Keeps, Others, Up
    <3> QED
      BY <1>1, <2>3, <3>1 DEF Keeps
  <2> QED
    BY <2>1, <2>2, <2>3
<1> QED
  BY <1>3, <1>4 DEF PoolAccounting, Up

\* A call holds a connection exactly while it is in a round trip.
Linked(c) == link[c] = "up" <=> pc[c] \in RoundTrip

\* The inductive invariant of types and of the pool.
BaseInv == Types /\ InRange /\ PoolAccounting /\ inUse \in 0 .. PoolSize

\* It holds at the start.
LEMMA InitBase == Init => BaseInv
<1> SUFFICES ASSUME Init PROVE BaseInv
  OBVIOUS
<1>1. Types
  BY InitTypes
<1>2. InRange
  BY TripsType DEF Init, InRange, Req
<1>3. {c \in Calls : link[c] = "up"} = {}
  BY DEF Init
<1>4. Cardinality({c \in Calls : link[c] = "up"}) = 0
  BY <1>3, FS_EmptySet
<1>5. PoolAccounting /\ inUse \in 0 .. PoolSize
  BY <1>4, PoolAssumption DEF Init, PoolAccounting, RoundTrip, Live
<1> QED
  BY <1>1, <1>2, <1>5 DEF BaseInv

\* Every step keeps it.
LEMMA NextBase == BaseInv /\ [SomeStep]_vars => BaseInv'
<1> SUFFICES ASSUME BaseInv, [SomeStep]_vars PROVE BaseInv'
  OBVIOUS
<1>1. Types' /\ InRange'
  BY NextTypes, NextInRange DEF BaseInv
<1>2. PoolAccounting' /\ inUse' \in 0 .. PoolSize
  <2>1. ASSUME NEW c \in Calls, CallStep(c)
        PROVE  PoolAccounting' /\ inUse' \in 0 .. PoolSize
    BY <2>1, StepsOfLinks, LinksCounted DEF BaseInv
  <2>2. CASE UNCHANGED vars
    BY <2>2 DEF vars, client, BaseInv, PoolAccounting
  <2> QED
    BY <2>1, <2>2 DEF SomeStep
<1> QED
  BY <1>1, <1>2 DEF BaseInv

\* The invariant holds in every behaviour.
LEMMA BaseInvariant == Spec => []BaseInv
<1> QED
  BY InitBase, NextBase, NextIsSomeStep, PTL DEF Spec

\* The variables have their types, and the pool never hands out more than
\* PoolSize connections.
THEOREM TypeCorrect == Spec => []TypeOK
<1>1. BaseInv => TypeOK
  BY DEF BaseInv, Types, TypeOK
<1> QED
  BY <1>1, BaseInvariant, PTL

\* The slots in use are exactly those of calls in a round trip: no path of a
\* handler leaks a connection, and no call waits for one while it holds one.
THEOREM PoolIsAccountedFor == Spec => []PoolAccounting
<1>1. BaseInv => PoolAccounting
  BY DEF BaseInv
<1> QED
  BY <1>1, BaseInvariant, PTL

-----------------------------------------------------------------------------
\* Inserts.

\* The inductive invariant of an insert: where the transaction of the call
\* stands at the server, by the message on its way (ask), by what the handler
\* waits for (pc), and by what its caller has been told (reply).  The messages
\* matter beyond the answer, for an abandoned COMMIT may still be processed.
RowsOf(c) == 1 .. Len(Req(c).keys)

AskedInsert(c) ==
  /\ ask[c] = "begin" => /\ sess[c] = "idle" /\ staged[c] = {}
                         /\ applied[c] = {} /\ step[c] = 1
  /\ ask[c] = "stmt" => /\ sess[c] = "inTx" /\ staged[c] = 1 .. (step[c] - 1)
                        /\ applied[c] = {}
  /\ ask[c] = "commit" => /\ sess[c] = "inTx" /\ staged[c] = RowsOf(c)
                          /\ applied[c] = {}

WaitingInsert(c) ==
  /\ pc[c] \in {"idle", "pool"} =>
       ask[c] = "none" /\ answer[c] = "none" /\ sess[c] = "idle" /\ staged[c] = {}
  /\ pc[c] \in {"idle", "pool", "begin"} => step[c] = 1 /\ total[c] = 0
  /\ pc[c] \in RoundTrip => \/ ask[c] = pc[c] /\ answer[c] = "none"
                            \/ ask[c] = "none" /\ answer[c] # "none"
  /\ pc[c] \in {"idle", "pool", "begin", "stmt", "rollback"} => applied[c] = {}
  /\ pc[c] = "begin" /\ answer[c] \in Answered => sess[c] = "inTx" /\ staged[c] = {}
  /\ pc[c] = "stmt" => total[c] = step[c] - 1
  /\ pc[c] = "stmt" /\ answer[c] \in Answered =>
       answer[c] = "row" /\ sess[c] = "inTx" /\ staged[c] = 1 .. step[c]
  /\ pc[c] = "commit" => total[c] = Len(Req(c).keys)
  /\ pc[c] = "commit" /\ answer[c] \in Answered => applied[c] = RowsOf(c)

AnsweredInsert(c) ==
  /\ pc[c] # "done" => reply[c] = NoReply
  /\ pc[c] = "done" /\ reply[c].at \in {"pool", "begin", "stmt"} =>
       ask[c] # "commit" /\ applied[c] = {}
  /\ reply[c].status = "executed" =>
       applied[c] = RowsOf(c) /\ reply[c].rows = Len(Req(c).keys)

InsertInv(c) == /\ step[c] <= Len(Req(c).keys)
                /\ applied[c] \in {{}, RowsOf(c)}
                /\ AskedInsert(c) /\ WaitingInsert(c) /\ AnsweredInsert(c)

InsertsOK == \A c \in Calls : Req(c).tool = "insert_data" => InsertInv(c)

\* What the handler of an insert is made of.
LEMMA InsertShape ==
  ASSUME Types, NEW c \in Calls, Req(c).tool = "insert_data"
  PROVE  /\ Mode(Req(c)) = "insertTx" /\ Trips(Req(c)) = Len(Req(c).keys)
         /\ Transactional(Req(c)) /\ ~ReadOnlyTx(Req(c)) /\ Mutates(c)
         /\ Len(Req(c).keys) \in Nat \ {0}
<1>1. Req(c) \in Requests
  BY DEF Types, ConfigType, Req
<1>2. Mode(Req(c)) = "insertTx"
  BY DEF Mode, LocalTools, QueryTools, ReadTools, Preview, Execute, Confirmable
<1>3. Trips(Req(c)) = Len(Req(c).keys) /\ Len(Req(c).keys) \in Nat \ {0}
  BY <1>1, <1>2, TripsType
<1> QED
  BY <1>2, <1>3 DEF Transactional, ReadOnlyTx, Mutates

\* The part of the state that belongs to one call, and what leaves it alone.
Local(c) == <<pc[c], step[c], total[c], reply[c], link[c], ask[c], answer[c],
              sess[c], staged[c], applied[c], request>>

\* Nobody but the call itself touches it.
LEMMA OtherCallsKeepLocal ==
  ASSUME Types, NEW c \in Calls, NEW d \in Calls, c # d,
         CallStep(d)
  PROVE  Local(c)' = Local(c)
<1> USE DEF Types, ClientType, WireType, ServerType
<1>1. CASE Server(d)
  <2>1. /\ UNCHANGED <<config, client>>
        /\ link'[c] = link[c] /\ ask'[c] = ask[c] /\ answer'[c] = answer[c]
    BY <1>1 DEF Server, SrvBegin, SrvSelect, SrvInsert, SrvExec, SrvCommit, SrvRollback,
       SrvError, SrvClose, Reply
  <2>2. sess'[c] = sess[c] /\ staged'[c] = staged[c] /\ applied'[c] = applied[c]
    BY <1>1 DEF Server, SrvBegin, SrvSelect, SrvInsert, SrvExec, SrvCommit, SrvRollback,
       SrvError, SrvClose, Abort, server
  <2> QED
    BY <2>1, <2>2 DEF Local, config, client
<1>2. CASE Receive(d) \/ Expire(d) \/ PoolRefuses(d)
  BY <1>2 DEF Receive, Expire, PoolRefuses, Finish, config, client, server, Local
<1>3. CASE Acquire(d) \/ Begun(d) \/ NextRow(d) \/ SendCommit(d) \/ DeferredRollback(d)
  BY <1>3 DEF Acquire, Begun, NextRow, SendCommit, DeferredRollback, Send, config,
     server, Local
<1>4. CASE Committed(d) \/ NextQuery(d) \/ QueryDone(d) \/ ExecDone(d) \/ RolledBack(d)
           \/ ServerError(d)
  BY <1>4 DEF Committed, NextQuery, QueryDone, ExecDone, RolledBack, ServerError,
     Finish, Release, config, server, Local
<1>5. CASE GiveUp(d) \/ LoseConnection(d)
  BY <1>5 DEF GiveUp, LoseConnection, Finish, Discard, config, server, Local
<1> QED
  BY <1>1, <1>2, <1>3, <1>4, <1>5
     DEF CallStep, ClientStep, Handler, PoolTimeout

\* The invariant of a call is a statement about its own part of the state.
LEMMA LocalInsertInv ==
  ASSUME NEW c \in Calls, InsertInv(c), Local(c)' = Local(c)
  PROVE  InsertInv(c)'
  BY DEF InsertInv, AskedInsert, WaitingInsert, AnsweredInsert, RowsOf, Local, Req, NoReply

\* The steps of its handler keep the invariant of an insert.
LEMMA HandlerKeepsInsert ==
  ASSUME Types, NEW c \in Calls, Req(c).tool = "insert_data", InsertInv(c),
         ClientStep(c)
  PROVE  InsertInv(c)'
<1> USE DEF Types, ClientType, WireType, ServerType, Answered
<1>0. /\ Mode(Req(c)) = "insertTx" /\ Trips(Req(c)) = Len(Req(c).keys)
      /\ Transactional(Req(c)) /\ Len(Req(c).keys) \in Nat \ {0}
  BY InsertShape
<1>1. UNCHANGED server /\ Req(c)' = Req(c) /\ RowsOf(c)' = RowsOf(c)
  <2>1. UNCHANGED <<config, server>>
    BY ClientLeavesServer
  <2> QED
    BY <2>1 DEF config, Req, RowsOf
<1> USE DEF server, InsertInv, AskedInsert, WaitingInsert, AnsweredInsert
<1>2. CASE Receive(c)
  BY <1>0, <1>1, <1>2 DEF Receive, Finish, NoReply, RoundTrip, Live
<1>3. CASE Expire(c)
  BY <1>1, <1>3 DEF Expire, client
<1>4. CASE Acquire(c)
  BY <1>0, <1>1, <1>4 DEF Acquire, Send, RoundTrip, Live
<1>5. CASE PoolRefuses(c)
  BY <1>0, <1>1, <1>5 DEF PoolRefuses, Finish, Failure, RoundTrip, Live
<1>6. CASE Begun(c)
  BY <1>0, <1>1, <1>6 DEF Begun, Send, RoundTrip, Live
<1>7. CASE NextRow(c)
  BY <1>0, <1>1, <1>7 DEF NextRow, Send, Affected, RoundTrip, Live
<1>8. CASE SendCommit(c)
  BY <1>0, <1>1, <1>8 DEF SendCommit, Send, Affected, RowsOf, RoundTrip, Live
<1>9. CASE Committed(c)
  BY <1>0, <1>1, <1>9 DEF Committed, Finish, Release, Executed, RoundTrip, Live
<1>10. CASE NextQuery(c) \/ QueryDone(c) \/ ExecDone(c)
  BY <1>0, <1>10 DEF NextQuery, QueryDone, ExecDone
<1>11. CASE DeferredRollback(c)
  BY <1>0, <1>1, <1>11 DEF DeferredRollback, Send, RoundTrip, Live
<1>12. CASE RolledBack(c)
  BY <1>0, <1>1, <1>12 DEF RolledBack, Finish, Release, Failure, RoundTrip, Live
<1>13. CASE ServerError(c)
  BY <1>0, <1>1, <1>13 DEF ServerError, Finish, Release, Failure, RoundTrip, Live
<1>14. CASE GiveUp(c) \/ LoseConnection(c)
  BY <1>0, <1>1, <1>14 DEF GiveUp, LoseConnection, Finish, Discard, Failure, RoundTrip, Live
<1> QED
  BY <1>2, <1>3, <1>4, <1>5, <1>6, <1>7, <1>8, <1>9, <1>10, <1>11, <1>12, <1>13, <1>14
     DEF CallStep, ClientStep, Handler, PoolTimeout

\* The steps of its backend keep the invariant of an insert.
LEMMA ServerKeepsInsert ==
  ASSUME Types, NEW c \in Calls, Linked(c), Req(c).tool = "insert_data", InsertInv(c),
         Server(c)
  PROVE  InsertInv(c)'
<1> USE DEF Types, ClientType, WireType, ServerType, Answered
<1>0. /\ Mutates(c) /\ ~ReadOnlyTx(Req(c)) /\ Len(Req(c).keys) \in Nat \ {0}
  BY InsertShape
<1>1. UNCHANGED client /\ Req(c)' = Req(c) /\ RowsOf(c)' = RowsOf(c)
  <2>1. UNCHANGED <<config, client>>
    BY ServerLeavesClient
  <2> QED
    BY <2>1 DEF config, Req, RowsOf
<1> USE DEF client, InsertInv, AskedInsert, WaitingInsert, AnsweredInsert
<1>2. CASE SrvBegin(c)
  BY <1>0, <1>1, <1>2 DEF SrvBegin, Reply, RoundTrip, Live
<1>3. CASE SrvSelect(c) \/ SrvExec(c)
  BY <1>0, <1>3 DEF SrvSelect, SrvExec
<1>4. CASE SrvInsert(c)
  <2>1. ask[c] = "stmt" /\ ask'[c] = "none" /\ UNCHANGED <<applied, link>>
        /\ staged[c] = 1 .. (step[c] - 1) /\ applied[c] = {} /\ sess[c] = "inTx"
    BY <1>4 DEF SrvInsert, Reply, Abort
  <2>2. CASE Key(c) \in present \cup Added(c)
    BY <1>0, <1>1, <1>4, <2>1, <2>2 DEF SrvInsert, Reply, Abort, RoundTrip, Live
  <2>3. CASE Key(c) \notin present \cup Added(c)
    <3>1. staged'[c] = 1 .. step[c]
      <4>1. staged'[c] = staged[c] \cup {step[c]}
        BY <1>4, <2>3 DEF SrvInsert
      <4> QED
        BY <2>1, <4>1
    <3>2. sess'[c] = "inTx" /\ answer'[c] = "row"
      BY <1>4, <2>1, <2>3 DEF SrvInsert, Reply
    <3> QED
      BY <1>0, <1>1, <2>1, <3>1, <3>2 DEF RoundTrip, Live
  <2> QED
    BY <2>2, <2>3
<1>5. CASE SrvCommit(c)
  BY <1>0, <1>1, <1>5 DEF SrvCommit, Reply, RoundTrip, Live
<1>6. CASE SrvRollback(c)
  BY <1>0, <1>1, <1>6 DEF SrvRollback, Reply, Abort, RoundTrip, Live
<1>7. CASE SrvError(c)
  BY <1>0, <1>1, <1>7 DEF SrvError, Reply, Abort, RoundTrip, Live
<1>8. CASE SrvClose(c)
  <2>1. pc[c] \notin RoundTrip
    BY <1>8 DEF SrvClose, Linked
  <2> QED
    BY <1>0, <1>1, <1>8, <2>1 DEF SrvClose, Abort, RoundTrip, Live
<1> QED
  BY <1>2, <1>3, <1>4, <1>5, <1>6, <1>7, <1>8 DEF Server

\* So does every step of any call.
LEMMA StepsKeepInsert ==
  ASSUME Types, NEW c \in Calls, NEW d \in Calls, Linked(c), CallStep(d),
         Req(c).tool = "insert_data", InsertInv(c)
  PROVE  InsertInv(c)'
<1>1. CASE c = d
  BY <1>1, HandlerKeepsInsert, ServerKeepsInsert DEF CallStep
<1>2. CASE c # d
  BY <1>2, OtherCallsKeepLocal, LocalInsertInv
<1> QED
  BY <1>1, <1>2

\* The invariant of inserts holds at the start.
LEMMA InitInserts == Init => InsertsOK
<1> SUFFICES ASSUME Init, NEW c \in Calls, Req(c).tool = "insert_data"
             PROVE  InsertInv(c)
  BY DEF InsertsOK
<1>1. Len(Req(c).keys) \in Nat \ {0}
  BY InitTypes, InsertShape
<1> QED
  BY <1>1 DEF Init, InsertInv, AskedInsert, WaitingInsert, AnsweredInsert, NoReply,
     RoundTrip, Live

\* Every step keeps it.
LEMMA NextInserts == BaseInv /\ InsertsOK /\ [SomeStep]_vars => InsertsOK'
<1> SUFFICES ASSUME BaseInv, InsertsOK, [SomeStep]_vars, NEW c \in Calls,
                    Req(c)'.tool = "insert_data"
             PROVE  InsertInv(c)'
  BY DEF InsertsOK
<1>1. /\ Types /\ Linked(c) /\ request' = request
      /\ Req(c).tool = "insert_data" /\ InsertInv(c)
  BY ConfigKept DEF BaseInv, PoolAccounting, Linked, config, InsertsOK, Req
<1>2. CASE SomeStep
  BY <1>1, <1>2, StepsKeepInsert DEF SomeStep
<1>3. CASE UNCHANGED vars
  <2>1. Local(c)' = Local(c)
    BY <1>3 DEF vars, config, client, server, Local
  <2> QED
    BY <1>1, <2>1, LocalInsertInv
<1> QED
  BY <1>2, <1>3

\* It holds in every behaviour.
LEMMA InsertInvariant == Spec => []InsertsOK
<1> QED
  BY InitInserts, NextInserts, NextIsSomeStep, BaseInvariant, PTL DEF Spec

\* insert_data is atomic: whatever is lost, refused or abandoned, and in
\* whatever order calls and server move, the rows of a call are committed
\* together or not at all.
THEOREM InsertIsAtomic == Spec => []InsertAllOrNothing
<1>1. InsertsOK => InsertAllOrNothing
  BY DEF InsertsOK, InsertInv, InsertAllOrNothing, RowsOf
<1> QED
  BY <1>1, InsertInvariant, PTL

\* An insert that failed before its COMMIT was sent leaves no row behind, now
\* or later.
THEOREM FailedInsertIsClean == Spec => []FailedRowLeavesNothing
<1>1. InsertsOK /\ BaseInv => FailedRowLeavesNothing
  <2> SUFFICES ASSUME InsertsOK, BaseInv, NEW c \in Calls, Req(c).tool = "insert_data",
                      reply[c].at \in {"pool", "begin", "stmt"}
               PROVE  applied[c] = {}
    BY DEF FailedRowLeavesNothing
  <2>1. InsertInv(c)
    BY DEF InsertsOK
  <2>2. pc[c] = "done"
    BY <2>1 DEF InsertInv, AnsweredInsert, NoReply
  <2> QED
    BY <2>1, <2>2 DEF InsertInv, AnsweredInsert
<1> QED
  BY <1>1, BaseInvariant, InsertInvariant, PTL

-----------------------------------------------------------------------------
\* The inductive invariant of a call: what it was let through for, its message
\* on the way, the session of its backend, and what its caller hears.

\* The objects that the transaction of a call has locked.
Locks(c) == {k \in Objects : holder[k] = c}

\* Only an admitted call sends messages, and only a mutation has effects.
Gated(c) ==
  /\ pc[c] \in Live \/ ask[c] # "none" => Admitted(Req(c)) /\ Mode(Req(c)) # "local"
  /\ staged[c] # {} \/ applied[c] # {} => Admitted(Req(c)) /\ Mutates(c)

\* A message and its answer; a connection in the pool has no message under way.
OnTheWay(c) ==
  /\ pc[c] \in {"idle", "pool"} => link[c] = "none"
  /\ link[c] = "none" => ask[c] = "none" /\ sess[c] = "idle"
  /\ pc[c] \in RoundTrip => \/ ask[c] = pc[c] /\ answer[c] = "none"
                            \/ ask[c] = "none" /\ answer[c] # "none"

\* Only an open transaction has rows and locks, and which answers have ended it.
Session(c) ==
  /\ sess[c] # "inTx" => staged[c] = {} /\ Locks(c) = {}
  /\ ask[c] = "begin" => sess[c] = "idle"
  /\ pc[c] \in {"commit", "rollback"} /\ ask[c] = "none" => sess[c] = "idle"
  /\ pc[c] = "begin" /\ answer[c] = "error" => sess[c] = "idle"
  /\ ~Transactional(Req(c)) =>
       /\ sess[c] = "idle" /\ ask[c] \in {"none", "stmt"}
       /\ pc[c] \in RoundTrip => pc[c] = "stmt"

\* read_data and explain_query run every statement in a READ ONLY transaction.
ReadsOnly(c) == ReadOnlyTx(Req(c)) =>
  /\ c \notin sideEffect /\ sess[c] # "inTx"
  /\ ask[c] = "stmt" => sess[c] = "readOnly"
  /\ pc[c] = "begin" /\ answer[c] \in Answered => sess[c] = "readOnly"

\* An autocommitted statement, its count of rows and its effect.
Counted(c) ==
  /\ pc[c] # "done" => reply[c] = NoReply
  /\ pc[c] = "done" => reply[c].status # "none"
  /\ reply[c].status = "executed" => Mutates(c) /\ ask[c] = "none"
  /\ Mode(Req(c)) = "exec" =>
       /\ pc[c] \in {"idle", "pool"} \/ ask[c] = "stmt" => applied[c] = {}
       /\ pc[c] = "stmt" /\ answer[c] = "row" =>
            applied[c] = {step[c]} /\ Req(c).tool \notin DDLTools
       /\ pc[c] = "stmt" /\ answer[c] = "ok" =>
            applied[c] = IF Req(c).tool \in DDLTools THEN {step[c]} ELSE {}
       /\ reply[c].status = "executed" =>
            /\ reply[c].rows \in IF Req(c).tool \in DDLTools THEN {0} ELSE {0, 1}
            /\ applied[c] = IF reply[c].rows = 0 /\ Req(c).tool \notin DDLTools
                            THEN {} ELSE {step[c]}

SessionInv(c) == Gated(c) /\ OnTheWay(c) /\ Session(c) /\ ReadsOnly(c) /\ Counted(c)
SessionsOK == \A c \in Calls : SessionInv(c)

\* A call keeps its shape, for nothing changes the configuration or a request.
LEMMA ShapeKept ==
  ASSUME NEW c \in Calls, UNCHANGED config
  PROVE  /\ Req(c)' = Req(c) /\ Mode(Req(c))' = Mode(Req(c))
         /\ Admitted(Req(c))' <=> Admitted(Req(c))
         /\ Transactional(Req(c))' <=> Transactional(Req(c))
         /\ ReadOnlyTx(Req(c))' <=> ReadOnlyTx(Req(c))
         /\ Mutates(c)' <=> Mutates(c)
<1>1. Req(c)' = Req(c)
  BY DEF config, Req
<1>2. Execute(Req(c))' <=> Execute(Req(c))
  BY <1>1 DEF config, Execute
<1>3. Mode(Req(c))' = Mode(Req(c))
  BY <1>1, <1>2 DEF Mode, Preview
<1>4. Admitted(Req(c))' <=> Admitted(Req(c))
  BY <1>1, <1>2 DEF config, Admitted, Registered, LevelAllows, Valid
<1> QED
  BY <1>1, <1>3, <1>4 DEF Transactional, ReadOnlyTx, Mutates

\* The shapes of calls, and which of them change something.
LEMMA Shapes ==
  ASSUME NEW c \in Calls
  PROVE  /\ Transactional(Req(c)) <=> Mode(Req(c)) \in {"readonly", "insertTx"}
         /\ ReadOnlyTx(Req(c)) <=> Mode(Req(c)) = "readonly"
         /\ Mutates(c) <=> Mode(Req(c)) \in {"insertTx", "exec"}
         /\ Mode(Req(c)) \in {"local", "readonly", "reads", "insertTx", "exec"}
         /\ Unusable(c) => Mode(Req(c)) = "reads"
  BY DEF Transactional, ReadOnlyTx, Mutates, Mode, Unusable, LocalTools, QueryTools, ReadTools

\* The steps of its handler keep the invariant of a call.
LEMMA HandlerKeepsSession ==
  ASSUME Types, NEW c \in Calls, Linked(c), SessionInv(c), ClientStep(c)
  PROVE  SessionInv(c)'
<1> USE DEF Types, ClientType, WireType, ServerType, Answered, RoundTrip, Live
<1>0. /\ Transactional(Req(c)) <=> Mode(Req(c)) \in {"readonly", "insertTx"}
      /\ ReadOnlyTx(Req(c)) <=> Mode(Req(c)) = "readonly"
      /\ Mutates(c) <=> Mode(Req(c)) \in {"insertTx", "exec"}
      /\ Mode(Req(c)) \in {"local", "readonly", "reads", "insertTx", "exec"}
      /\ Unusable(c) => Mode(Req(c)) = "reads"
      /\ link[c] = "up" <=> pc[c] \in RoundTrip
  BY Shapes DEF Linked
<1>1. /\ UNCHANGED server
      /\ Req(c)' = Req(c) /\ Mode(Req(c))' = Mode(Req(c)) /\ Locks(c)' = Locks(c)
      /\ Admitted(Req(c))' <=> Admitted(Req(c))
      /\ Transactional(Req(c))' <=> Transactional(Req(c))
      /\ ReadOnlyTx(Req(c))' <=> ReadOnlyTx(Req(c))
      /\ Mutates(c)' <=> Mutates(c)
  <2>1. UNCHANGED <<config, server>>
    BY ClientLeavesServer
  <2> QED
    BY <2>1, ShapeKept DEF Locks, server
<1> USE DEF server, SessionInv, Gated, OnTheWay, Session, ReadsOnly, Counted
<1>2. CASE Receive(c)
  BY <1>0, <1>1, <1>2 DEF Receive, Finish, NoReply
<1>3. CASE Expire(c)
  BY <1>0, <1>1, <1>3 DEF Expire, client
<1>4. CASE Acquire(c)
  <2>1. pc[c] = "pool" /\ link'[c] = "up" /\ UNCHANGED <<step, total, reply>>
        /\ answer'[c] = "none"
    BY <1>4 DEF Acquire, Send
  <2>2. pc'[c] = IF Transactional(Req(c)) THEN "begin" ELSE "stmt"
    BY <1>4 DEF Acquire
  <2>3. ask'[c] = pc'[c]
    BY <1>4 DEF Acquire, Send
  <2>4. CASE Transactional(Req(c))
    <3>1. Gated(c)'
      BY <1>0, <1>1, <2>1, <2>2, <2>3, <2>4
    <3>2. OnTheWay(c)'
      BY <1>0, <1>1, <2>1, <2>2, <2>3, <2>4
    <3>3. Session(c)'
      BY <1>0, <1>1, <2>1, <2>2, <2>3, <2>4
    <3>4. ReadsOnly(c)'
      BY <1>0, <1>1, <2>1, <2>2, <2>3, <2>4
    <3>5. Counted(c)'
      BY <1>0, <1>1, <2>1, <2>2, <2>3, <2>4 DEF NoReply
    <3> QED
      BY <3>1, <3>2, <3>3, <3>4, <3>5
  <2>5. CASE ~Transactional(Req(c))
    <3>1. Gated(c)'
      BY <1>0, <1>1, <2>1, <2>2, <2>3, <2>5
    <3>2. OnTheWay(c)'
      BY <1>0, <1>1, <2>1, <2>2, <2>3, <2>5
    <3>3. Session(c)'
      BY <1>0, <1>1, <2>1, <2>2, <2>3, <2>5
    <3>4. ReadsOnly(c)'
      BY <1>0, <1>1, <2>1, <2>2, <2>3, <2>5
    <3>5. Counted(c)'
      BY <1>0, <1>1, <2>1, <2>2, <2>3, <2>5 DEF NoReply
    <3> QED
      BY <3>1, <3>2, <3>3, <3>4, <3>5
  <2> QED
    BY <2>4, <2>5
<1>5. CASE PoolRefuses(c)
  BY <1>0, <1>1, <1>5 DEF PoolRefuses, Finish, Failure
<1>6. CASE Begun(c)
  <2>1. pc[c] = "begin" /\ answer[c] \in Answered /\ Transactional(Req(c))
        /\ pc'[c] = "stmt" /\ ask'[c] = "stmt" /\ answer'[c] = "none"
        /\ UNCHANGED <<link, reply>>
    BY <1>0, <1>6 DEF Begun, Send
  <2>2. Gated(c)'
    BY <1>0, <1>1, <2>1
  <2>3. OnTheWay(c)'
    BY <1>0, <1>1, <2>1
  <2>4. Session(c)'
    BY <1>0, <1>1, <2>1
  <2>5. ReadsOnly(c)'
    BY <1>0, <1>1, <2>1
  <2>6. Counted(c)'
    BY <1>0, <1>1, <2>1 DEF NoReply
  <2> QED
    BY <2>2, <2>3, <2>4, <2>5, <2>6
<1>7. CASE NextRow(c)
  <2>1. pc[c] = "stmt" /\ answer[c] \in Answered /\ Mode(Req(c)) = "insertTx"
        /\ ask'[c] = "stmt" /\ answer'[c] = "none" /\ UNCHANGED <<pc, link, reply>>
    BY <1>7 DEF NextRow, Send
  <2>2. Gated(c)'
    BY <1>0, <1>1, <2>1
  <2>3. OnTheWay(c)'
    BY <1>0, <1>1, <2>1
  <2>4. Session(c)'
    BY <1>0, <1>1, <2>1
  <2>5. ReadsOnly(c)'
    BY <1>0, <1>1, <2>1
  <2>6. Counted(c)'
    BY <1>0, <1>1, <2>1 DEF NoReply
  <2> QED
    BY <2>2, <2>3, <2>4, <2>5, <2>6
<1>8. CASE SendCommit(c)
  <2>1. pc[c] = "stmt" /\ answer[c] \in Answered /\ Transactional(Req(c))
        /\ pc'[c] = "commit" /\ ask'[c] = "commit" /\ answer'[c] = "none"
        /\ UNCHANGED <<link, reply>>
    BY <1>0, <1>8 DEF SendCommit, Send
  <2>2. Gated(c)'
    BY <1>0, <1>1, <2>1
  <2>3. OnTheWay(c)'
    BY <1>0, <1>1, <2>1
  <2>4. Session(c)'
    BY <1>0, <1>1, <2>1
  <2>5. ReadsOnly(c)'
    BY <1>0, <1>1, <2>1
  <2>6. Counted(c)'
    BY <1>0, <1>1, <2>1 DEF NoReply
  <2> QED
    BY <2>2, <2>3, <2>4, <2>5, <2>6
<1>9. CASE Committed(c)
  BY <1>0, <1>1, <1>9 DEF Committed, Finish, Release, Executed, ReadReply, NoReply
<1>10. CASE NextQuery(c)
  BY <1>0, <1>1, <1>10 DEF NextQuery, Release
<1>11. CASE QueryDone(c)
  BY <1>0, <1>1, <1>11 DEF QueryDone, Finish, Release, ReadReply, NoReply
<1>12. CASE ExecDone(c)
  BY <1>0, <1>1, <1>12 DEF ExecDone, Finish, Release, Executed, Affected
<1>13. CASE DeferredRollback(c)
  <2>1. pc[c] = "stmt" /\ answer[c] = "error" /\ Transactional(Req(c))
        /\ pc'[c] = "rollback" /\ ask'[c] = "rollback" /\ answer'[c] = "none"
        /\ UNCHANGED <<link, reply>>
    BY <1>0, <1>13 DEF DeferredRollback, Send
  <2>2. Gated(c)'
    BY <1>0, <1>1, <2>1
  <2>3. OnTheWay(c)'
    BY <1>0, <1>1, <2>1
  <2>4. Session(c)'
    BY <1>0, <1>1, <2>1
  <2>5. ReadsOnly(c)'
    BY <1>0, <1>1, <2>1
  <2>6. Counted(c)'
    BY <1>0, <1>1, <2>1 DEF NoReply
  <2> QED
    BY <2>2, <2>3, <2>4, <2>5, <2>6
<1>14. CASE RolledBack(c)
  BY <1>0, <1>1, <1>14 DEF RolledBack, Finish, Release, Failure
<1>15. CASE ServerError(c)
  <2>1. pc'[c] = "done" /\ reply'[c].status = "error" /\ link'[c] = "none"
        /\ answer'[c] = "none"
        /\ pc[c] \in RoundTrip /\ UNCHANGED <<step, ask>>
    BY <1>15 DEF ServerError, Unusable, Finish, Release, Failure
  <2>2. sess[c] = "idle" /\ ask[c] = "none"
    BY <1>0, <1>15 DEF ServerError, Unusable
  <2>3. Gated(c)'
    BY <1>0, <1>1, <2>1, <2>2
  <2>4. OnTheWay(c)'
    BY <1>0, <1>1, <2>1, <2>2
  <2>5. Session(c)'
    BY <1>0, <1>1, <2>1, <2>2
  <2>6. ReadsOnly(c)'
    BY <1>0, <1>1, <2>1, <2>2
  <2>7. Counted(c)'
    BY <1>0, <1>1, <2>1, <2>2
  <2> QED
    BY <2>3, <2>4, <2>5, <2>6, <2>7
<1>16. CASE GiveUp(c)
  BY <1>0, <1>1, <1>16 DEF GiveUp, Finish, Discard, Failure
<1>17. CASE LoseConnection(c)
  BY <1>0, <1>1, <1>17 DEF LoseConnection, Finish, Discard, Failure
<1> QED
  BY <1>2, <1>3, <1>4, <1>5, <1>6, <1>7, <1>8, <1>9, <1>10, <1>11, <1>12, <1>13,
     <1>14, <1>15, <1>16, <1>17
     DEF CallStep, ClientStep, Handler, PoolTimeout

\* The steps of its backend keep the invariant of a call.
LEMMA ServerKeepsSession ==
  ASSUME Types, NEW c \in Calls, Linked(c), SessionInv(c), Server(c)
  PROVE  SessionInv(c)'
<1> USE DEF Types, ClientType, WireType, ServerType, Answered, RoundTrip, Live
<1>0. /\ Transactional(Req(c)) <=> Mode(Req(c)) \in {"readonly", "insertTx"}
      /\ ReadOnlyTx(Req(c)) <=> Mode(Req(c)) = "readonly"
      /\ Mutates(c) <=> Mode(Req(c)) \in {"insertTx", "exec"}
      /\ Mode(Req(c)) \in {"local", "readonly", "reads", "insertTx", "exec"}
      /\ link[c] = "up" <=> pc[c] \in RoundTrip
  BY Shapes DEF Linked
<1>1. /\ UNCHANGED client
      /\ Req(c)' = Req(c) /\ Mode(Req(c))' = Mode(Req(c))
      /\ Admitted(Req(c))' <=> Admitted(Req(c))
      /\ Transactional(Req(c))' <=> Transactional(Req(c))
      /\ ReadOnlyTx(Req(c))' <=> ReadOnlyTx(Req(c))
      /\ Mutates(c)' <=> Mutates(c)
  <2>1. UNCHANGED <<config, client>>
    BY ServerLeavesClient
  <2> QED
    BY <2>1, ShapeKept
<1>2. Unlock(c) => Locks(c)' = {}
  <2>1. c # Nobody
    BY CallsAssumption
  <2> QED
    BY <2>1 DEF Unlock, Locks
<1>3. holder' = holder => Locks(c)' = Locks(c)
  BY DEF Locks
<1> USE DEF client, SessionInv, Gated, OnTheWay, Session, ReadsOnly, Counted
<1>4. CASE SrvBegin(c)
  BY <1>0, <1>1, <1>4, <1>2, <1>3 DEF SrvBegin, Reply
<1>5. CASE SrvSelect(c)
  BY <1>0, <1>1, <1>5, <1>2, <1>3 DEF SrvSelect, Reply, Abort
<1>6. CASE SrvInsert(c)
  BY <1>0, <1>1, <1>6, <1>2, <1>3 DEF SrvInsert, Reply, Abort
<1>7. CASE SrvExec(c)
  <2>1. ask[c] = "stmt" /\ ask'[c] = "none" /\ Mutates(c)
        /\ UNCHANGED <<link, sess, staged, holder, sideEffect>>
        /\ sess[c] = "idle"
    BY <1>7 DEF SrvExec, Reply, server
  <2>2. \/ answer'[c] = "error" /\ applied' = applied
        \/ /\ answer'[c] = IF Req(c).tool \in DDLTools THEN "ok" ELSE "row"
           /\ applied'[c] = applied[c] \cup {step[c]}
        \/ answer'[c] = "ok" /\ applied' = applied /\ Req(c).tool \notin DDLTools
    BY <1>7 DEF SrvExec, Reply, server, Tag, ErrorWhen, Adds, DDLTools
  <2>3. Gated(c)'
    BY <1>0, <1>1, <1>3, <2>1, <2>2
  <2>4. OnTheWay(c)'
    BY <1>0, <1>1, <1>3, <2>1, <2>2
  <2>5. Session(c)'
    BY <1>0, <1>1, <1>3, <2>1, <2>2
  <2>6. ReadsOnly(c)'
    BY <1>0, <1>1, <1>3, <2>1, <2>2
  <2>7. Counted(c)'
    BY <1>0, <1>1, <1>3, <2>1, <2>2
  <2> QED
    BY <2>3, <2>4, <2>5, <2>6, <2>7
<1>8. CASE SrvCommit(c)
  BY <1>0, <1>1, <1>8, <1>2, <1>3 DEF SrvCommit, Reply
<1>9. CASE SrvRollback(c)
  BY <1>0, <1>1, <1>9, <1>2, <1>3 DEF SrvRollback, Reply, Abort
<1>10. CASE SrvError(c)
  BY <1>0, <1>1, <1>10, <1>2, <1>3 DEF SrvError, Reply, Abort
<1>11. CASE SrvClose(c)
  BY <1>0, <1>1, <1>11, <1>2, <1>3 DEF SrvClose, Abort
<1> QED
  BY <1>4, <1>5, <1>6, <1>7, <1>8, <1>9, <1>10, <1>11 DEF Server

\* The invariant of a call is about its own part of the state.
LEMMA LocalSessionInv ==
  ASSUME NEW c \in Calls, SessionInv(c), UNCHANGED config, Local(c)' = Local(c),
         Locks(c)' = Locks(c), (c \in sideEffect)' <=> c \in sideEffect
  PROVE  SessionInv(c)'
<1>1. /\ Req(c)' = Req(c) /\ Mode(Req(c))' = Mode(Req(c))
      /\ Admitted(Req(c))' <=> Admitted(Req(c))
      /\ Transactional(Req(c))' <=> Transactional(Req(c))
      /\ ReadOnlyTx(Req(c))' <=> ReadOnlyTx(Req(c))
      /\ Mutates(c)' <=> Mutates(c)
  BY ShapeKept
<1> USE DEF SessionInv, Local
<1>2. Gated(c)' /\ OnTheWay(c)'
  BY <1>1 DEF Gated, OnTheWay
<1>3. Session(c)' /\ ReadsOnly(c)'
  BY <1>1 DEF Session, ReadsOnly
<1>4. Counted(c)'
  BY <1>1 DEF Counted, NoReply
<1> QED
  BY <1>2, <1>3, <1>4

\* No other call touches the locks and the side effects of a call.
LEMMA OtherCallsKeepLocks ==
  ASSUME Types, NEW c \in Calls, NEW d \in Calls, c # d,
         CallStep(d)
  PROVE  Locks(c)' = Locks(c) /\ ((c \in sideEffect)' <=> c \in sideEffect)
<1> USE DEF Types, ServerType, Locks
<1>0. c # Nobody
  BY CallsAssumption
<1>1. Unlock(d) => \A k \in Objects : holder'[k] = c <=> holder[k] = c
  BY <1>0 DEF Unlock
<1>2. CASE Server(d)
  <2>1. CASE SrvInsert(d)
    <3>1. Key(d) \in Objects => holder[Key(d)] # c
      BY <1>0, <2>1 DEF SrvInsert, Free
    <3> QED
      BY <1>1, <2>1, <3>1 DEF SrvInsert, Abort
  <2>2. CASE ~SrvInsert(d)
    <3>1. UNCHANGED holder \/ Unlock(d)
      BY <1>2, <2>2 DEF Server, SrvBegin, SrvSelect, SrvExec, SrvCommit, SrvRollback,
         SrvError, SrvClose, Abort, server
    <3>2. (c \in sideEffect)' <=> c \in sideEffect
      BY <1>2, <2>2 DEF Server, SrvBegin, SrvSelect, SrvExec, SrvCommit, SrvRollback,
         SrvError, SrvClose, Abort, server
    <3> QED
      BY <1>1, <3>1, <3>2
  <2> QED
    BY <2>1, <2>2
<1>3. CASE ~Server(d)
  <2>1. UNCHANGED server
    BY <1>3, ClientLeavesServer DEF CallStep
  <2> QED
    BY <2>1 DEF server
<1> QED
  BY <1>2, <1>3

\* Every step of any call keeps the invariant of a call.
LEMMA StepsKeepSession ==
  ASSUME Types, NEW c \in Calls, NEW d \in Calls, Linked(c), CallStep(d), SessionInv(c)
  PROVE  SessionInv(c)'
<1>1. CASE c = d
  BY <1>1, HandlerKeepsSession, ServerKeepsSession DEF CallStep
<1>2. CASE c # d
  <2>1. UNCHANGED config
    BY ConfigKept DEF SomeStep
  <2> QED
    BY <1>2, <2>1, OtherCallsKeepLocal, OtherCallsKeepLocks, LocalSessionInv
<1> QED
  BY <1>1, <1>2

\* The invariant of sessions holds at the start.
LEMMA InitSessions == Init => SessionsOK
<1> SUFFICES ASSUME Init, NEW c \in Calls PROVE SessionInv(c)
  BY DEF SessionsOK
<1>1. c # Nobody
  BY CallsAssumption
<1>2. Locks(c) = {}
  BY <1>1 DEF Init, Locks
<1>3. Gated(c) /\ OnTheWay(c)
  BY DEF Init, Gated, OnTheWay, RoundTrip, Live
<1>4. Session(c) /\ ReadsOnly(c)
  BY <1>2 DEF Init, Session, ReadsOnly, RoundTrip, Live
<1>5. Counted(c)
  BY DEF Init, Counted, NoReply
<1> QED
  BY <1>3, <1>4, <1>5 DEF SessionInv

\* Every step keeps it.
LEMMA NextSessions == BaseInv /\ SessionsOK /\ [SomeStep]_vars => SessionsOK'
<1> SUFFICES ASSUME BaseInv, SessionsOK, [SomeStep]_vars, NEW c \in Calls
             PROVE  SessionInv(c)'
  BY DEF SessionsOK
<1>1. Types /\ Linked(c) /\ SessionInv(c) /\ UNCHANGED config
  BY ConfigKept DEF BaseInv, PoolAccounting, Linked, SessionsOK
<1>2. CASE SomeStep
  BY <1>1, <1>2, StepsKeepSession DEF SomeStep
<1>3. CASE UNCHANGED vars
  <2>1. Local(c)' = Local(c) /\ Locks(c)' = Locks(c) /\ UNCHANGED sideEffect
    BY <1>3 DEF vars, config, client, server, Local, Locks
  <2> QED
    BY <1>1, <2>1, LocalSessionInv
<1> QED
  BY <1>2, <1>3

\* It holds in every behaviour.
LEMMA SessionInvariant == Spec => []SessionsOK
<1> QED
  BY InitSessions, NextSessions, NextIsSomeStep, BaseInvariant, PTL DEF Spec

-----------------------------------------------------------------------------
\* Nothing is changed but by a tool that the access level allows, and after a
\* confirmation where one is required.
THEOREM ChangesArePermitted == Spec => []OnlyPermittedChanges
<1>1. SessionsOK /\ BaseInv => OnlyPermittedChanges
  <2> SUFFICES ASSUME SessionsOK, BaseInv, NEW c \in Calls, applied[c] # {}
               PROVE  /\ Req(c).tool \in DMLTools => level \in {"DML-RW", "DDL-RW"}
                      /\ Req(c).tool \in DDLTools => level = "DDL-RW"
                      /\ requireConfirmation /\ Req(c).tool \in Confirmable => Req(c).confirm
                      /\ Req(c).tool \in DMLTools \cup DDLTools
    BY DEF OnlyPermittedChanges
  <2>1. Admitted(Req(c)) /\ Mutates(c)
    BY DEF SessionsOK, SessionInv, Gated
  <2>2. Req(c).tool \in DMLTools \cup DDLTools
    BY <2>1, TripsType DEF BaseInv, Types, ConfigType, Req, Mutates
  <2>3. Execute(Req(c))
    BY <2>1, <2>2 DEF Mutates, Mode, Preview
  <2> QED
    BY <2>1, <2>2, <2>3 DEF Admitted, LevelAllows, AllowsDML, AllowsDDL, Execute
<1> QED
  BY <1>1, SessionInvariant, BaseInvariant, PTL

\* read_data and explain_query write nothing, whatever their text calls.
THEOREM QueriesAreReadOnly == Spec => []QueriesWriteNothing
<1>1. SessionsOK /\ BaseInv => QueriesWriteNothing
  <2> SUFFICES ASSUME SessionsOK, BaseInv, NEW c \in sideEffect, Req(c).tool \in QueryTools
               PROVE  FALSE
    BY DEF QueriesWriteNothing
  <2>1. c \in Calls
    BY DEF BaseInv, Types, ServerType
  <2>2. ReadOnlyTx(Req(c))
    BY DEF ReadOnlyTx, Mode, QueryTools, LocalTools
  <2> QED
    BY <2>1, <2>2 DEF SessionsOK, SessionInv, ReadsOnly
<1> QED
  BY <1>1, SessionInvariant, BaseInvariant, PTL

\* What a call has changed and how many rows it was told of.
LEMMA CountIsExact ==
  ASSUME Types, NEW c \in Calls, Counted(c), reply[c].status = "executed",
         Req(c).tool = "insert_data" => AnsweredInsert(c)
  PROVE  /\ reply[c].rows = RowsChanged(c)
         /\ Req(c).tool = "insert_data" => applied[c] = 1 .. Len(Req(c).keys)
         /\ Req(c).tool \in DDLTools => applied[c] # {}
<1> USE DEF RowsChanged, DDLTools
<1>1. Mutates(c)
  BY DEF Counted
<1>2. CASE Req(c).tool = "insert_data"
  <2>1. applied[c] = 1 .. Len(Req(c).keys) /\ reply[c].rows = Len(Req(c).keys)
    BY <1>2 DEF AnsweredInsert, RowsOf
  <2>2. Len(Req(c).keys) \in Nat
    BY <1>2, InsertShape
  <2>3. Cardinality(1 .. Len(Req(c).keys)) = Len(Req(c).keys)
    BY <2>2, FS_Interval
  <2> QED
    BY <1>2, <2>1, <2>3
<1>3. CASE Req(c).tool # "insert_data"
  <2>1. Mode(Req(c)) = "exec"
    BY <1>1, <1>3 DEF Mutates, Mode
  <2>2. /\ reply[c].rows \in {0, 1} /\ (Req(c).tool \in DDLTools => reply[c].rows = 0)
        /\ applied[c] = (IF reply[c].rows = 0 /\ Req(c).tool \notin DDLTools
                         THEN {} ELSE {step[c]})
    BY <2>1 DEF Counted
  <2>3. Cardinality({}) = 0 /\ Cardinality({step[c]}) = 1
    BY FS_EmptySet, FS_Singleton
  <2> QED
    BY <1>3, <2>2, <2>3
<1> QED
  BY <1>2, <1>3

\* "executed" is said of committed changes only, with the exact number of the
\* rows that were changed, which is 0 for tables and indexes.
THEOREM ExecutedIsTrue == Spec => []ExecutedTellsTheTruth
<1>1. SessionsOK /\ InsertsOK /\ BaseInv => ExecutedTellsTheTruth
  BY CountIsExact DEF SessionsOK, SessionInv, InsertsOK, InsertInv, BaseInv,
     ExecutedTellsTheTruth
<1> QED
  BY <1>1, SessionInvariant, InsertInvariant, BaseInvariant, PTL

\* A connection that goes back to the pool has neither a transaction nor a lock.
THEOREM ReturnedIsClean == Spec => []ReturnedConnectionIsClean
<1>1. SessionsOK => ReturnedConnectionIsClean
  BY DEF SessionsOK, SessionInv, OnTheWay, Session, Locks, ReturnedConnectionIsClean
<1> QED
  BY <1>1, SessionInvariant, PTL
=============================================================================
