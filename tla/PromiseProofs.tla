---------------------------- MODULE PromiseProofs ----------------------------
(***************************************************************************)
(* ToolCalls implements AtomicWrites: for every set of calls, requests and *)
(* objects and every size of the pool, each step of a handler, a backend,  *)
(* a deadline or a broken connection is a step of the promise or none.     *)
(***************************************************************************)
EXTENDS ToolCallsProofs

-----------------------------------------------------------------------------
\* What the promise needs beyond the invariants of types, inserts and sessions.

\* A message still on its way has not been reported as anything but in doubt.
Pending(c) == ask[c] # "none" =>
  \/ reply[c] = NoReply
  \/ reply[c].status = "error" /\ (ask[c] = "rollback" \/ reply[c].at = ask[c])

\* Only an update or a delete succeeds without an effect.
Missed(c) == Mode(Req(c)) = "exec" /\ pc[c] = "stmt" /\ answer[c] = "ok" /\ applied[c] = {} =>
               Req(c).tool \in {"update_data", "delete_data"}

\* The rows of an open transaction are locked by it and not yet there.
Guarded(c) == \A i \in staged[c] : /\ holder[Req(c).keys[i]] = c
                                   /\ Req(c).keys[i] \notin present

PromiseInv == \A c \in Calls : Pending(c) /\ Missed(c) /\ Guarded(c)

\* All that was proved about ToolCalls so far.
KnownInv == BaseInv /\ InsertsOK /\ SessionsOK

\* The step of a handler keeps what is known of its own message and answer.
LEMMA HandlerKeepsPending ==
  ASSUME Types, NEW c \in Calls, SessionInv(c), Pending(c), Missed(c),
         ClientStep(c)
  PROVE  Pending(c)' /\ Missed(c)'
<1> USE DEF Types, ClientType, WireType, Answered, RoundTrip, Live, Pending, Missed
<1>0. /\ pc[c] \in {"idle", "pool"} => ask[c] = "none"
      /\ pc[c] \in RoundTrip => \/ ask[c] = pc[c] /\ answer[c] = "none"
                                \/ ask[c] = "none" /\ answer[c] # "none"
      /\ pc[c] # "done" => reply[c] = NoReply
      /\ ReadOnlyTx(Req(c)) => Mode(Req(c)) # "exec"
      /\ Transactional(Req(c)) => Mode(Req(c)) # "exec"
  BY Shapes DEF SessionInv, OnTheWay, Counted
<1>1. Req(c)' = Req(c) /\ Mode(Req(c))' = Mode(Req(c))
  <2>1. UNCHANGED config
    BY ClientLeavesServer
  <2> QED
    BY <2>1, ShapeKept
<1>2. CASE Receive(c) \/ PoolRefuses(c)
  BY <1>0, <1>1, <1>2 DEF Receive, PoolRefuses, Finish
<1>3. CASE Expire(c)
  BY <1>1, <1>3 DEF Expire, client, server
<1>4. CASE Acquire(c) \/ Begun(c) \/ NextRow(c) \/ SendCommit(c) \/ DeferredRollback(c)
  <2>1. answer'[c] = "none" /\ reply'[c] = NoReply
    BY <1>0, <1>4 DEF Acquire, Begun, NextRow, SendCommit, DeferredRollback, Send
  <2> QED
    BY <1>1, <2>1
<1>5. CASE Committed(c) \/ NextQuery(c) \/ QueryDone(c) \/ ExecDone(c) \/ RolledBack(c)
           \/ ServerError(c)
  <2>1. ask'[c] = "none" /\ answer'[c] = "none"
    BY <1>0, <1>5 DEF Committed, NextQuery, QueryDone, ExecDone, RolledBack, ServerError,
       Unusable, Release
  <2> QED
    BY <1>1, <2>1
<1>6. CASE GiveUp(c) \/ LoseConnection(c)
  <2>1. /\ pc[c] \in RoundTrip /\ pc'[c] = "done" /\ ask'[c] = ask[c]
        /\ reply'[c] = Failure(IF pc[c] = "rollback" THEN "stmt" ELSE pc[c])
    BY <1>6 DEF GiveUp, LoseConnection, Finish, Discard
  <2> QED
    BY <1>0, <1>1, <2>1 DEF Failure
<1> QED
  BY <1>2, <1>3, <1>4, <1>5, <1>6
     DEF CallStep, ClientStep, Handler, PoolTimeout

\* The step of its backend, too.
LEMMA ServerKeepsPending ==
  ASSUME Types, NEW c \in Calls, SessionInv(c), Pending(c), Missed(c),
         Server(c)
  PROVE  Pending(c)' /\ Missed(c)'
<1> USE DEF Types, WireType, Pending, Missed
<1>0. Mutates(c) <=> Mode(Req(c)) \in {"insertTx", "exec"}
  BY Shapes
<1>1. UNCHANGED client /\ Req(c)' = Req(c) /\ Mode(Req(c))' = Mode(Req(c))
  <2>1. UNCHANGED <<config, client>>
    BY ServerLeavesClient
  <2> QED
    BY <2>1, ShapeKept
<1>2. ask'[c] = "none"
  BY DEF Server, SrvBegin, SrvSelect, SrvInsert, SrvExec, SrvCommit, SrvRollback,
     SrvError, SrvClose, Reply
<1>3. Mode(Req(c)) = "exec" /\ pc[c] = "stmt" /\ answer'[c] = "ok" /\ applied'[c] = {} =>
        Req(c).tool \in {"update_data", "delete_data"}
  <2> SUFFICES ASSUME Mode(Req(c)) = "exec", pc[c] = "stmt", answer'[c] = "ok",
                      applied'[c] = {}
               PROVE  Req(c).tool \in {"update_data", "delete_data"}
    OBVIOUS
  <2>1. ask[c] \in {"none", "stmt"} /\ Mutates(c)
    BY <1>0, Shapes DEF SessionInv, Session
  <2>2. SrvExec(c)
    BY <2>1 DEF Server, SrvBegin, SrvSelect, SrvInsert, SrvCommit, SrvRollback, SrvError,
       SrvClose, Reply
  <2>3. ~Adds(c) /\ Req(c).tool # "drop_table"
    <3>1. applied'[c] # applied[c] \cup {step[c]}
      OBVIOUS
    <3> QED
      BY <2>2, <3>1 DEF SrvExec, Reply, ErrorWhen, ServerType
  <2>4. Req(c).tool \in DMLTools \cup DDLTools
    BY TripsType DEF ConfigType, Req
  <2> QED
    BY <2>3, <2>4 DEF Adds, DMLTools, DDLTools
<1> QED
  BY <1>1, <1>2, <1>3 DEF client

\* Every step keeps what is known of the rows of an open transaction: the locks
\* are its own, and nobody creates an object that another call has locked.
LEMMA StepsKeepGuarded ==
  ASSUME Types, InRange, NEW c \in Calls, NEW d \in Calls,
         Guarded(c), Guarded(d), CallStep(d)
  PROVE  Guarded(c)'
<1> USE DEF Types, ServerType
<1>0. /\ c # Nobody /\ d # Nobody
      /\ Req(c) \in Requests /\ Req(c).keys \in Seq(Objects)
      /\ \A i \in staged[c] : i \in 1 .. Len(Req(c).keys)
  <2>1. Req(c) \in Requests
    BY DEF ConfigType, Req
  <2>2. Req(c).keys \in Seq(Objects)
    BY <2>1, TripsType DEF RequestType
  <2> QED
    BY <2>1, <2>2, CallsAssumption DEF InRange
<1>1. Req(c)' = Req(c)
  BY ConfigKept DEF SomeStep, config, Req
<1>2. CASE ~Server(d)
  <2>1. UNCHANGED server
    BY <1>2, ClientLeavesServer DEF CallStep
  <2> QED
    BY <1>1, <2>1 DEF server, Guarded
<1>3. CASE SrvInsert(d)
  <2>0. step[d] \in 1 .. Len(Req(d).keys) /\ Key(d) \in Objects
    BY <1>3, KeyType DEF SrvInsert
  <2>1. present' = present
    BY <1>3 DEF SrvInsert, Abort
  <2>2. CASE Key(d) \in present \cup Added(d)
    <3>1. staged' = [staged EXCEPT ![d] = {}] /\ Unlock(d)
      BY <1>3, <2>2 DEF SrvInsert, Abort
    <3>2. CASE c = d
      BY <3>1, <3>2 DEF Guarded
    <3>3. CASE c # d
      BY <1>0, <1>1, <2>1, <3>1, <3>3 DEF Guarded, Unlock
    <3> QED
      BY <3>2, <3>3
  <2>3. CASE Key(d) \notin present \cup Added(d)
    <3>1. /\ staged' = [staged EXCEPT ![d] = @ \cup {step[d]}]
          /\ holder' = [holder EXCEPT ![Key(d)] = d]
          /\ Free(d, Key(d))
      BY <1>3, <2>3 DEF SrvInsert
    <3>2. CASE c = d
      <4>1. Req(c).keys[step[c]] \notin present /\ holder'[Req(c).keys[step[c]]] = c
        BY <2>0, <2>3, <3>1, <3>2 DEF Key
      <4>2. \A i \in staged[c] : holder'[Req(c).keys[i]] = c
        BY <1>0, <2>0, <3>1, <3>2 DEF Guarded
      <4> QED
        BY <1>1, <2>1, <3>1, <3>2, <4>1, <4>2 DEF Guarded
    <3>3. CASE c # d
      <4>1. \A i \in staged[c] : Req(c).keys[i] # Key(d)
        BY <1>0, <3>1, <3>3 DEF Guarded, Free
      <4> QED
        BY <1>0, <1>1, <2>0, <2>1, <3>1, <3>3, <4>1 DEF Guarded
    <3> QED
      BY <3>2, <3>3
  <2> QED
    BY <2>2, <2>3
<1>4. CASE SrvExec(d)
  <2>1. UNCHANGED <<staged, holder>>
        /\ \A k \in present' : k \in present \/ holder[k] = Nobody
    BY <1>4 DEF SrvExec, server
  <2> QED
    BY <1>0, <1>1, <2>1 DEF Guarded
<1>5. CASE SrvCommit(d)
  <2>1. staged' = [staged EXCEPT ![d] = {}] /\ Unlock(d) /\ present' = present \cup Added(d)
    BY <1>5 DEF SrvCommit
  <2>2. CASE c = d
    BY <2>1, <2>2 DEF Guarded
  <2>3. CASE c # d
    <3>1. \A k \in Added(d) : holder[k] = d
      BY DEF Guarded, Added
    <3> QED
      BY <1>0, <1>1, <2>1, <2>3, <3>1 DEF Guarded, Unlock
  <2> QED
    BY <2>2, <2>3
<1>6. CASE Server(d) /\ ~SrvInsert(d) /\ ~SrvExec(d) /\ ~SrvCommit(d)
  <2>1. /\ present' = present
        /\ \/ UNCHANGED <<staged, holder>>
           \/ staged' = [staged EXCEPT ![d] = {}] /\ Unlock(d)
    BY <1>6 DEF Server, SrvBegin, SrvSelect, SrvRollback, SrvError, SrvClose, Abort
  <2>2. CASE c = d
    BY <1>1, <2>1, <2>2 DEF Guarded
  <2>3. CASE c # d
    BY <1>0, <1>1, <2>1, <2>3 DEF Guarded, Unlock
  <2> QED
    BY <2>2, <2>3
<1> QED
  BY <1>2, <1>3, <1>4, <1>5, <1>6

\* Every step of any call keeps all of it.
LEMMA StepsKeepPending ==
  ASSUME Types, NEW c \in Calls, NEW d \in Calls, CallStep(d), SessionInv(c),
         Pending(c), Missed(c)
  PROVE  Pending(c)' /\ Missed(c)'
<1>1. CASE c = d
  BY <1>1, HandlerKeepsPending, ServerKeepsPending DEF CallStep
<1>2. CASE c # d
  <2>1. UNCHANGED config
    BY ConfigKept DEF SomeStep
  <2>2. Local(c)' = Local(c) /\ Mode(Req(c))' = Mode(Req(c)) /\ Req(c)' = Req(c)
    BY <1>2, <2>1, OtherCallsKeepLocal, ShapeKept
  <2> QED
    BY <2>2 DEF Local, Pending, Missed, NoReply
<1> QED
  BY <1>1, <1>2

\* It holds at the start.
LEMMA InitPromise == Init => PromiseInv
  BY DEF Init, PromiseInv, Pending, Missed, Guarded

\* Every step keeps it.
LEMMA NextPromise == KnownInv /\ PromiseInv /\ [SomeStep]_vars => PromiseInv'
<1> SUFFICES ASSUME KnownInv, PromiseInv, [SomeStep]_vars, NEW c \in Calls
             PROVE  Pending(c)' /\ Missed(c)' /\ Guarded(c)'
  BY DEF PromiseInv
<1>1. /\ Types /\ InRange /\ SessionInv(c) /\ UNCHANGED config
      /\ Pending(c) /\ Missed(c) /\ Guarded(c)
  BY ConfigKept DEF KnownInv, BaseInv, SessionsOK, PromiseInv
<1>2. CASE SomeStep
  BY <1>1, <1>2, StepsKeepGuarded, StepsKeepPending DEF SomeStep, PromiseInv
<1>3. CASE UNCHANGED vars
  <2>1. Mode(Req(c))' = Mode(Req(c)) /\ Req(c)' = Req(c)
    BY <1>1, ShapeKept
  <2> QED
    BY <1>1, <1>3, <2>1 DEF vars, client, server, Pending, Missed, Guarded, NoReply
<1> QED
  BY <1>2, <1>3

\* What was known holds at the start.
LEMMA InitKnown == Init => KnownInv
  BY InitBase, InitInserts, InitSessions DEF KnownInv

\* Every step keeps it, too.
LEMMA NextKnown == KnownInv /\ [SomeStep]_vars => KnownInv'
  BY NextBase, NextInserts, NextSessions DEF KnownInv

-----------------------------------------------------------------------------
\* What is left when the process of the handlers ends: the backends.

\* The part of all this that a backend goes by.  It says nothing of the place
\* of the handler, and so it holds of calls that have lost theirs as well.
Behind(c) ==
  /\ Req(c).tool = "insert_data" => AskedInsert(c) /\ applied[c] \in {{}, RowsOf(c)}
  /\ Gated(c) /\ Pending(c)
  /\ ~Transactional(Req(c)) => ask[c] \in {"none", "stmt"}
  /\ Mode(Req(c)) = "exec" /\ ask[c] = "stmt" => applied[c] = {}

\* It is part of what holds while the handlers run.
LEMMA BehindHandlers == KnownInv /\ PromiseInv => \A c \in Calls : Behind(c)
  BY DEF KnownInv, InsertsOK, InsertInv, SessionsOK, SessionInv, Session, Counted,
     PromiseInv, Behind

\* It is about the part of the state that belongs to one call.
LEMMA LocalBehind ==
  ASSUME NEW c \in Calls, Behind(c), UNCHANGED config, pc'[c] = pc[c],
         step'[c] = step[c], reply'[c] = reply[c], ask'[c] = ask[c], sess'[c] = sess[c],
         staged'[c] = staged[c], applied'[c] = applied[c]
  PROVE  Behind(c)'
<1>1. /\ Req(c)' = Req(c) /\ Mode(Req(c))' = Mode(Req(c))
      /\ Admitted(Req(c))' <=> Admitted(Req(c))
      /\ Transactional(Req(c))' <=> Transactional(Req(c))
      /\ Mutates(c)' <=> Mutates(c)
  BY ShapeKept
<1> QED
  BY <1>1 DEF Behind, AskedInsert, RowsOf, Gated, Pending, NoReply

\* A step of the server keeps it, for every call.
LEMMA ServerKeepsBehind ==
  ASSUME Types, NEW c \in Calls, NEW d \in Calls, Behind(c), Server(d)
  PROVE  Behind(c)'
<1> USE DEF Types, WireType, ServerType
<1>1. UNCHANGED <<config, client>>
  BY ServerLeavesClient
<1>2. CASE c # d
  BY <1>1, <1>2, OtherCallsKeepLocal, LocalBehind DEF CallStep, Local, client
<1>3. CASE c = d
  <2>1. /\ Req(c)' = Req(c) /\ RowsOf(c)' = RowsOf(c) /\ Mode(Req(c))' = Mode(Req(c))
        /\ Admitted(Req(c))' <=> Admitted(Req(c))
        /\ Mutates(c)' <=> Mutates(c)
    BY <1>1, ShapeKept DEF RowsOf
  <2>2. ask'[c] = "none"
    BY <1>3 DEF Server, SrvBegin, SrvSelect, SrvInsert, SrvExec, SrvCommit, SrvRollback,
       SrvError, SrvClose, Reply
  <2>3. /\ staged'[c] \in {{}, staged[c]} \/ SrvInsert(c)
        /\ applied'[c] = applied[c] \/ SrvCommit(c) \/ SrvExec(c)
    BY <1>3 DEF Server, SrvBegin, SrvSelect, SrvExec, SrvCommit, SrvRollback, SrvInsert,
       SrvError, SrvClose, Abort, server
  <2>4. Gated(c)'
    <3>1. pc'[c] \in Live => Admitted(Req(c)) /\ Mode(Req(c)) # "local"
      BY <1>1 DEF client, Behind, Gated
    <3>2. staged'[c] # {} \/ applied'[c] # {} => Admitted(Req(c)) /\ Mutates(c)
      <4>1. CASE SrvInsert(c) \/ SrvExec(c)
        BY <4>1 DEF SrvInsert, SrvExec, Behind, Gated
      <4>2. CASE SrvCommit(c)
        BY <4>2 DEF SrvCommit, Behind, Gated
      <4>3. CASE ~SrvInsert(c) /\ ~SrvExec(c) /\ ~SrvCommit(c)
        BY <2>3, <4>3 DEF Behind, Gated
      <4> QED
        BY <4>1, <4>2, <4>3
    <3> QED
      BY <2>1, <2>2, <3>1, <3>2 DEF Gated
  <2>5. Req(c).tool = "insert_data" => applied'[c] \in {{}, RowsOf(c)}
    <3>1. CASE SrvCommit(c)
      BY <3>1 DEF SrvCommit, Behind, AskedInsert
    <3>2. CASE ~SrvCommit(c)
      BY <2>3, <3>2 DEF SrvExec, Behind, AskedInsert
    <3> QED
      BY <3>1, <3>2
  <2> QED
    BY <2>1, <2>2, <2>4, <2>5 DEF Behind, AskedInsert, Pending
<1> QED
  BY <1>2, <1>3

-----------------------------------------------------------------------------
\* The refinement.

\* A call that has changed something wanted to and was allowed to.
LEMMA WantsOfMutations ==
  ASSUME Types, NEW c \in Calls, Admitted(Req(c)), Mutates(c)
  PROVE  /\ Wants(request[c]).allowed
         /\ Req(c).tool \in DMLTools \cup DDLTools /\ Len(Req(c).keys) \in Nat \ {0}
         /\ Req(c).tool # "insert_data" =>
              Mode(Req(c)) = "exec" /\ Len(Req(c).keys) = 1 /\ Trips(Req(c)) = 1
<1>1. Req(c) \in Requests /\ request[c] = Req(c)
  BY DEF Types, ConfigType, Req
<1>2. Req(c).tool \in DMLTools \cup DDLTools /\ Execute(Req(c))
  <2>1. Req(c).tool \in DMLTools \cup DDLTools
    BY <1>1, TripsType DEF Mutates
  <2> QED
    BY <2>1 DEF Mutates, Mode, Preview
<1>3. Wants(request[c]).allowed
  BY <1>1, <1>2 DEF Wants
<1>4. Len(Req(c).keys) \in Nat \ {0}
  <2>1. Req(c) \in RequestType
    BY <1>1, RequestAssumption
  <2>2. Len(Req(c).keys) > 0
    BY <1>1, <1>2, RequestAssumption
  <2> QED
    BY <2>1, <2>2 DEF RequestType
<1>5. ASSUME Req(c).tool # "insert_data"
      PROVE  Mode(Req(c)) = "exec" /\ Len(Req(c).keys) = 1 /\ Trips(Req(c)) = 1
  <2>1. Mode(Req(c)) = "exec"
    BY <1>2, <1>5 DEF Mutates, Mode
  <2>2. Len(Req(c).keys) = 1
    BY <1>1, <1>2, <1>5, RequestAssumption
  <2>3. Trips(Req(c)) = 1
    BY <1>2, <2>1 DEF Trips, DMLTools, DDLTools
  <2> QED
    BY <2>1, <2>2, <2>3
<1> QED
  BY <1>2, <1>3, <1>4, <1>5

\* A verdict that agrees with what the call has done.
Truthful(c) ==
  /\ Verdict(c) \in {"executed", "failed", "inDoubt", "read"}
  /\ Verdict(c) = "executed" => applied[c] # {} \/ Wants(request[c]).mayMiss
  /\ Verdict(c) \in {"failed", "read"} => applied[c] = {}

\* The only thing a handler's step does to the promise is to tell its verdict.
Tells(c) ==
  /\ UNCHANGED <<config, applied, present>>
  /\ \A e \in Calls \ {c} : reply'[e] = reply[e]
  /\ reply'[c] = reply[c] \/ (Verdict(c) = "open" /\ Truthful(c)')

\* Nothing is committed for a call before its last statement is sent.
LEMMA NotYet ==
  ASSUME Types, InsertsOK, NEW c \in Calls, SessionInv(c)
  PROVE  /\ pc[c] \in {"idle", "pool", "begin", "rollback"} => applied[c] = {}
         /\ ~Mutates(c) => applied[c] = {}
<1>1. Mutates(c) /\ Req(c).tool # "insert_data" => Mode(Req(c)) = "exec"
  BY DEF Mutates, Mode
<1>2. CASE ~Mutates(c)
  BY <1>2 DEF SessionInv, Gated
<1>3. CASE Req(c).tool = "insert_data"
  BY <1>3, InsertShape DEF InsertsOK, InsertInv, WaitingInsert
<1>4. CASE Mode(Req(c)) = "exec"
  BY <1>4, Shapes DEF SessionInv, Session, Counted, RoundTrip, Live
<1> QED
  BY <1>1, <1>2, <1>3, <1>4

\* A step of a handler answers its call truthfully, if it answers it.
LEMMA HandlerTells ==
  ASSUME KnownInv, PromiseInv, NEW c \in Calls,
         ClientStep(c)
  PROVE  Tells(c)
<1>0. /\ Types /\ InsertsOK /\ SessionInv(c) /\ Missed(c)
      /\ pc[c] # "done" => reply[c] = NoReply
  BY DEF KnownInv, BaseInv, SessionsOK, SessionInv, Counted, PromiseInv
<1> USE DEF Types, ClientType, Live, RoundTrip
<1>1. /\ UNCHANGED <<config, server>>
      /\ Req(c)' = Req(c) /\ Wants(request[c])'.mayMiss = Wants(request[c]).mayMiss
  <2>1. UNCHANGED <<config, server>>
    BY ClientLeavesServer
  <2> QED
    BY <2>1 DEF config, Req, Wants
<1>2. UNCHANGED <<applied, present>> /\ \A e \in Calls \ {c} : reply'[e] = reply[e]
  BY <1>0, <1>1 DEF server, ClientStep, Receive, Handler, Expire, LoseConnection, Acquire,
     PoolTimeout, PoolRefuses, Begun, NextRow, SendCommit, Committed, NextQuery, QueryDone, ExecDone,
     DeferredRollback, RolledBack, ServerError, GiveUp, Finish, client
<1>3. /\ pc[c] \in {"idle", "pool", "begin", "rollback"} => applied[c] = {}
      /\ ~Mutates(c) => applied[c] = {}
      /\ ~Mutates(c) <=> Mode(Req(c)) \notin {"insertTx", "exec"}
      /\ Mode(Req(c)) = "insertTx" <=> Mutates(c) /\ Req(c).tool = "insert_data"
      /\ Transactional(Req(c)) <=> Mode(Req(c)) \in {"readonly", "insertTx"}
      /\ Mode(Req(c)) = "exec" /\ pc[c] \in RoundTrip => pc[c] = "stmt"
      /\ Req(c).tool = "insert_data" => Mode(Req(c)) = "insertTx"
  <2>1. Mode(Req(c)) = "insertTx" => Req(c).tool = "insert_data"
    BY DEF Mode
  <2> QED
    BY <1>0, <2>1, NotYet, Shapes, InsertShape DEF SessionInv, Session
<1>4. ASSUME NEW r, Finish(c, r), pc[c] # "done", r.status = "error",
             r.at \in {"pool", "begin", "stmt", "commit", "rollback"},
             pc[c] = r.at \/ (pc[c] = "rollback" /\ r.at = "stmt")
      PROVE  Tells(c)
  <2>0. reply[c].status = "none"
    BY <1>0, <1>4 DEF NoReply
  <2>1. reply'[c] = r /\ Verdict(c) = "open"
    <3>1. reply'[c] = r
      BY <1>0, <1>4 DEF Finish
    <3>2. Verdict(c) = "open"
      BY <2>0 DEF Verdict, InDoubt
    <3> QED
      BY <3>1, <3>2
  <2>2. Verdict(c)' = IF r.at = (IF Req(c).tool = "insert_data" THEN "commit" ELSE "stmt")
                      THEN "inDoubt" ELSE "failed"
    BY <1>1, <1>4, <2>1 DEF Verdict, InDoubt
  <2>3. Verdict(c)' = "failed" => applied[c] = {}
    <3>1. CASE Req(c).tool = "insert_data"
      BY <1>0, <1>3, <1>4, <2>2, <3>1 DEF InsertsOK, InsertInv, WaitingInsert
    <3>2. CASE Req(c).tool # "insert_data"
      BY <1>0, <1>3, <1>4, <2>2, <3>2 
    <3> QED
      BY <3>1, <3>2
  <2> QED
    BY <1>1, <1>2, <2>1, <2>2, <2>3 DEF Tells, Truthful
<1>5. ASSUME NEW r, Finish(c, r), pc[c] # "done", r.status \in {"read", "preview", "rejected"},
             applied[c] = {}
      PROVE  Tells(c)
  <2>0. reply[c].status = "none"
    BY <1>0, <1>5 DEF NoReply
  <2>1. reply'[c] = r /\ Verdict(c) = "open"
    <3>1. reply'[c] = r
      BY <1>0, <1>5 DEF Finish
    <3>2. Verdict(c) = "open"
      BY <2>0 DEF Verdict, InDoubt
    <3> QED
      BY <3>1, <3>2
  <2>2. Verdict(c)' \in {"read", "failed"}
    BY <1>5, <2>1 DEF Verdict, InDoubt
  <2> QED
    BY <1>1, <1>2, <1>5, <2>1, <2>2 DEF Tells, Truthful
<1>6. ASSUME NEW n, Finish(c, Executed(n)), pc[c] # "done",
             applied[c] # {} \/ Wants(request[c]).mayMiss
      PROVE  Tells(c)
  <2>0. reply[c].status = "none"
    BY <1>0, <1>6 DEF NoReply
  <2>1. reply'[c] = Executed(n) /\ Verdict(c) = "open"
    <3>1. reply'[c] = Executed(n)
      BY <1>0, <1>6 DEF Finish
    <3>2. Verdict(c) = "open"
      BY <2>0 DEF Verdict, InDoubt
    <3> QED
      BY <3>1, <3>2
  <2>2. reply'[c].status = "executed"
    BY <2>1 DEF Executed
  <2>3. Verdict(c)' = "executed"
    BY <2>2 DEF Verdict, InDoubt
  <2> QED
    BY <1>1, <1>2, <1>6, <2>1, <2>3 DEF Tells, Truthful
<1>7. CASE UNCHANGED reply
  BY <1>1, <1>2, <1>7 DEF Tells
<1>8. CASE Receive(c)
  <2>1. CASE \E s \in {"read", "rejected"} : Finish(c, [NoReply EXCEPT !.status = s])
    BY <1>3, <1>5, <1>8, <2>1 DEF Receive, NoReply
  <2> QED
    BY <1>7, <1>8, <2>1 DEF Receive
<1>9. CASE PoolRefuses(c)
  BY <1>4, <1>9 DEF PoolRefuses, Failure
<1>10. CASE Committed(c)
  <2>1. CASE Mode(Req(c)) = "insertTx"
    <3>1. applied[c] # {}
      <4>1. Req(c).tool = "insert_data"
        BY <1>3, <2>1
      <4>2. applied[c] = RowsOf(c)
        BY <1>0, <1>10, <4>1 DEF Committed, InsertsOK, InsertInv, WaitingInsert
      <4>3. Len(Req(c).keys) \in Nat \ {0}
        BY <1>0, <4>1, InsertShape
      <4>4. 1 \in 1 .. Len(Req(c).keys)
        BY <4>3
      <4> QED
        BY <4>2, <4>4 DEF RowsOf
    <3> QED
      BY <1>6, <1>10, <2>1, <3>1 DEF Committed
  <2>2. CASE Mode(Req(c)) # "insertTx"
    <3>1. applied[c] = {}
      BY <1>3, <1>10, <2>2 DEF Committed
    <3> QED
      BY <1>5, <1>10, <2>2, <3>1 DEF Committed, ReadReply, NoReply
  <2> QED
    BY <2>1, <2>2
<1>11. CASE QueryDone(c)
  <2>1. applied[c] = {}
    BY <1>3, <1>11 DEF QueryDone
  <2> QED
    BY <1>5, <1>11, <2>1 DEF QueryDone, ReadReply, NoReply
<1>12. CASE ExecDone(c)
  <2>1. pc[c] = "stmt" /\ answer[c] \in Answered /\ Mode(Req(c)) = "exec"
        /\ Finish(c, Executed(Affected(c)))
    BY <1>12 DEF ExecDone
  <2>2. answer[c] = "row" => applied[c] # {}
    BY <1>0, <2>1 DEF SessionInv, Counted
  <2>3. answer[c] = "ok" /\ applied[c] = {} => Wants(request[c]).mayMiss
    BY <1>0, <2>1 DEF Missed, Wants, Req
  <2> QED
    BY <1>6, <2>1, <2>2, <2>3 DEF Answered
<1>13. CASE RolledBack(c)
  BY <1>4, <1>13 DEF RolledBack, Failure
<1>14. CASE ServerError(c)
  <2>1. pc[c] \in RoundTrip /\ Finish(c, Failure(pc[c]))
    BY <1>14 DEF ServerError, Unusable
  <2> QED
    BY <1>4, <2>1 DEF Failure
<1>15. CASE GiveUp(c) \/ LoseConnection(c)
  <2>1. /\ pc[c] \in RoundTrip
        /\ Finish(c, Failure(IF pc[c] = "rollback" THEN "stmt" ELSE pc[c]))
    BY <1>15 DEF GiveUp, LoseConnection
  <2> QED
    BY <1>4, <2>1 DEF Failure
<1>16. CASE Expire(c) \/ Acquire(c) \/ Begun(c) \/ NextRow(c) \/ SendCommit(c)
            \/ NextQuery(c) \/ DeferredRollback(c)
  BY <1>7, <1>16 DEF Expire, Acquire, Begun, NextRow, SendCommit, NextQuery,
     DeferredRollback, client
<1> QED
  BY <1>8, <1>9, <1>10, <1>11, <1>12, <1>13, <1>14, <1>15, <1>16
     DEF CallStep, ClientStep, Handler, PoolTimeout

\* The whole change of a call, as the promise has it.
WholeChange(c) ==
  LET w == Wants(request[c])
  IN /\ applied[c] = {} /\ applied'[c] # {}
     /\ \A e \in Calls \ {c} : applied'[e] = applied[e]
     /\ Verdict(c) \in {"open", "inDoubt"}
     /\ w.allowed
     /\ w.adds \cap present = {}
     /\ w.alters \cup w.removes \subseteq present
     /\ present' = (present \cup w.adds) \ w.removes

\* COMMIT makes the rows of an insert the whole change of its call.
LEMMA CommitChanges ==
  ASSUME Types, NEW c \in Calls, Behind(c), Guarded(c), SrvCommit(c)
  PROVE  WholeChange(c) \/ UNCHANGED <<applied, present>>
<1>0. ask[c] = "commit" /\ Pending(c) /\ Gated(c)
  BY DEF SrvCommit, Behind
<1> USE DEF Types, ServerType
<1>1. /\ applied' = [applied EXCEPT ![c] = staged[c]]
      /\ present' = present \cup Added(c)
  BY DEF SrvCommit
<1>2. CASE Req(c).tool = "insert_data"
  <2>1. staged[c] = 1 .. Len(Req(c).keys) /\ applied[c] = {}
    BY <1>0, <1>2 DEF Behind, AskedInsert, RowsOf
  <2>2. Admitted(Req(c)) /\ Mutates(c)
    BY <1>0, <1>2, InsertShape DEF Gated
  <2>3. Len(Req(c).keys) \in Nat \ {0} /\ Wants(request[c]).allowed
    BY <1>0, <2>2, WantsOfMutations
  <2>4. 1 \in staged[c]
    BY <2>1, <2>3
  <2>5. /\ Wants(request[c]).adds = Added(c) /\ Wants(request[c]).alters = {}
        /\ Wants(request[c]).removes = {}
    BY <1>2, <2>1 DEF Wants, Keys, Added, Req
  <2>6. Added(c) \cap present = {}
    BY <1>0 DEF Guarded, Added
  <2>7. Verdict(c) \in {"open", "inDoubt"}
    <3>1. CASE reply[c] = NoReply
      <4>1. reply[c].status = "none"
        BY <3>1 DEF NoReply
      <4> QED
        BY <4>1 DEF Verdict, InDoubt
    <3>2. CASE reply[c] # NoReply
      <4>1. reply[c].status = "error" /\ reply[c].at = "commit"
        BY <1>0, <3>2 DEF Pending
      <4> QED
        BY <1>2, <4>1 DEF Verdict, InDoubt
    <3> QED
      BY <3>1, <3>2
  <2>8. applied'[c] # {} /\ \A e \in Calls \ {c} : applied'[e] = applied[e]
    BY <1>0, <1>1, <2>4
  <2>9. present' = (present \cup Added(c)) \ {}
    BY <1>1
  <2> QED
    BY <2>1, <2>3, <2>5, <2>6, <2>7, <2>8, <2>9 DEF WholeChange
<1>3. CASE Req(c).tool # "insert_data"
  <2>1. ~Mutates(c)
    <3>1. Transactional(Req(c))
      BY <1>0 DEF Behind
    <3> QED
      BY <1>3, <3>1 DEF Transactional, Mutates, Mode
  <2>2. staged[c] = {} /\ applied[c] = {}
    BY <1>0, <2>1 DEF Gated
  <2>3. Added(c) = {}
    BY <2>2 DEF Added
  <2> QED
    BY <1>0, <1>1, <2>2, <2>3
<1> QED
  BY <1>2, <1>3

\* An autocommitted statement is the whole change of its call.
LEMMA ExecChanges ==
  ASSUME Types, InRange, NEW c \in Calls, Behind(c), SrvExec(c)
  PROVE  WholeChange(c) \/ UNCHANGED <<applied, present>>
<1>0. Pending(c) /\ Gated(c) /\ ask[c] = "stmt" /\ Mutates(c) /\ sess[c] = "idle"
  BY DEF SrvExec, Behind
<1> USE DEF Types, ServerType
<1>1. Req(c).tool # "insert_data"
  BY <1>0 DEF Behind, AskedInsert
<1>2. Admitted(Req(c))
  BY <1>0 DEF Gated
<1>3. /\ Wants(request[c]).allowed /\ Mode(Req(c)) = "exec"
      /\ Len(Req(c).keys) = 1 /\ Trips(Req(c)) = 1
      /\ Req(c).tool \in DMLTools \cup DDLTools
  BY <1>0, <1>1, <1>2, WantsOfMutations
<1>4. applied[c] = {}
  BY <1>0, <1>3 DEF Behind
<1>5. Keys(request[c]) = {Key(c)}
  <2>1. step[c] = 1
    BY <1>0, <1>3 DEF InRange, ClientType
  <2> QED
    BY <1>3, <2>1 DEF Keys, Key, Req
<1>6. Verdict(c) \in {"open", "inDoubt"}
  <2>1. CASE reply[c] = NoReply
    <3>1. reply[c].status = "none"
      BY <2>1 DEF NoReply
    <3> QED
      BY <3>1 DEF Verdict, InDoubt
  <2>2. CASE reply[c] # NoReply
    <3>1. reply[c].status = "error" /\ reply[c].at = "stmt"
      BY <1>0, <2>2 DEF Pending
    <3> QED
      BY <1>1, <3>1 DEF Verdict, InDoubt
  <2> QED
    BY <2>1, <2>2
<1>7. CASE UNCHANGED server
  BY <1>7 DEF server
<1>8. CASE ~UNCHANGED server
  <2>1. /\ ~ErrorWhen(c, Key(c) \in present) /\ (Adds(c) \/ Key(c) \in present)
        /\ applied' = [applied EXCEPT ![c] = @ \cup {step[c]}]
        /\ present' = IF Adds(c) THEN present \cup {Key(c)}
                      ELSE IF Req(c).tool = "update_data" THEN present
                      ELSE present \ {Key(c)}
    BY <1>8 DEF SrvExec
  <2>2. applied'[c] # {} /\ \A e \in Calls \ {c} : applied'[e] = applied[e]
    BY <1>0, <2>1
  <2>3. CASE Adds(c)
    <3>1. /\ Wants(request[c]).adds = {Key(c)} /\ Wants(request[c]).alters = {}
          /\ Wants(request[c]).removes = {}
      BY <1>5, <2>3 DEF Wants, Adds, Req
    <3>2. Key(c) \notin present /\ present' = present \cup {Key(c)}
      BY <2>1, <2>3 DEF ErrorWhen
    <3> QED
      BY <1>3, <1>4, <1>6, <2>2, <3>1, <3>2 DEF WholeChange
  <2>4. CASE Req(c).tool = "update_data"
    <3>1. /\ Wants(request[c]).adds = {} /\ Wants(request[c]).alters = {Key(c)}
          /\ Wants(request[c]).removes = {} /\ ~Adds(c)
      BY <1>5, <2>4 DEF Wants, Adds, Req
    <3>2. Key(c) \in present /\ present' = present
      BY <2>1, <2>4, <3>1
    <3> QED
      BY <1>3, <1>4, <1>6, <2>2, <3>1, <3>2 DEF WholeChange
  <2>5. CASE ~Adds(c) /\ Req(c).tool # "update_data"
    <3>1. Req(c).tool \in {"delete_data", "drop_table"}
      BY <1>3, <2>5 DEF Adds, DMLTools, DDLTools
    <3>2. /\ Wants(request[c]).adds = {} /\ Wants(request[c]).alters = {}
          /\ Wants(request[c]).removes = {Key(c)}
      BY <1>5, <3>1 DEF Wants, Req
    <3>3. Key(c) \in present /\ present' = present \ {Key(c)}
      BY <2>1, <2>5
    <3> QED
      BY <1>3, <1>4, <1>6, <2>2, <3>2, <3>3 DEF WholeChange
  <2> QED
    BY <2>3, <2>4, <2>5
<1> QED
  BY <1>7, <1>8

\* What a call wants has the type of the promise.
LEMMA WantsType ==
  ASSUME NEW r \in Requests
  PROVE  Wants(r) \in Atomic!WantsType
<1>1. r \in RequestType
  BY RequestAssumption
<1>2. Keys(r) \subseteq Objects
  BY <1>1 DEF Keys, RequestType
<1>3. (Admitted(r) /\ Execute(r) /\ r.tool \in DMLTools \cup DDLTools) \in BOOLEAN
  OBVIOUS
<1> QED
  BY <1>2, <1>3 DEF Wants, Atomic!WantsType

\* The promise starts as the calls do.
LEMMA PromiseStarts == Init => Atomic!Init
<1> DEFINE wantsBar == [c \in Calls |-> Wants(request[c])]
           changedBar == {c \in Calls : applied[c] # {}}
           verdictBar == [c \in Calls |-> Verdict(c)]
<1> SUFFICES ASSUME Init PROVE Atomic!Init
  OBVIOUS
<1>1. wantsBar \in [Calls -> Atomic!WantsType]
  BY WantsType DEF Init
<1>2. changedBar = {}
  BY DEF Init
<1>3. verdictBar = [c \in Calls |-> "open"]
  <2>1. ASSUME NEW c \in Calls PROVE Verdict(c) = "open"
    <3>1. reply[c].status = "none"
      BY DEF Init, NoReply
    <3> QED
      BY <3>1 DEF Verdict, InDoubt
  <2> QED
    BY <2>1
<1>4. present \in SUBSET Objects
  BY DEF Init
<1> QED
  BY <1>1, <1>2, <1>3, <1>4 DEF Atomic!Init

\* Nobody changes what a call wants.
LEMMA WantsKept ==
  ASSUME Types, UNCHANGED config
  PROVE  UNCHANGED [c \in Calls |-> Wants(request[c])]
<1>1. ASSUME NEW c \in Calls PROVE Wants(request[c])' = Wants(request[c])
  <2>1. Admitted(Req(c))' <=> Admitted(Req(c))
    BY ShapeKept
  <2> QED
    BY <2>1 DEF Wants, Keys, config, Execute, Req
<1> QED
  BY <1>1

\* A step that neither changes an object nor answers a call is none of it.
LEMMA PromiseStutters ==
  ASSUME Types, UNCHANGED <<config, applied, present>>,
         \A c \in Calls : reply'[c] = reply[c]
  PROVE  UNCHANGED Atomic!vars
<1>1. ASSUME NEW c \in Calls PROVE Verdict(c)' = Verdict(c)
  BY DEF Verdict, InDoubt, config, Req
<1>2. UNCHANGED [c \in Calls |-> Wants(request[c])]
  BY WantsKept
<1>3. UNCHANGED <<present, {c \in Calls : applied[c] # {}}, [c \in Calls |-> Verdict(c)]>>
  BY <1>1
<1> QED
  BY <1>2, <1>3 DEF Atomic!vars

\* A handler's step tells a verdict, or is none of it.
LEMMA HandlerPromises ==
  ASSUME KnownInv, PromiseInv, NEW c \in Calls, ClientStep(c)
  PROVE  [Atomic!Next]_(Atomic!vars)
<1> DEFINE wantsBar == [d \in Calls |-> Wants(request[d])]
           changedBar == {d \in Calls : applied[d] # {}}
           verdictBar == [d \in Calls |-> Verdict(d)]
<1>1. Tells(c) /\ Types
  BY HandlerTells DEF KnownInv, BaseInv
<1>2. UNCHANGED wantsBar
  BY <1>1, WantsKept DEF Tells
<1>3. CASE reply'[c] = reply[c]
  BY <1>1, <1>3, PromiseStutters DEF Tells
<1>4. CASE reply'[c] # reply[c]
  <2>1. Verdict(c) = "open" /\ Truthful(c)'
    BY <1>1, <1>4 DEF Tells
  <2>2. /\ UNCHANGED <<applied, present, config>>
        /\ \A e \in Calls \ {c} : reply'[e] = reply[e]
    BY <1>1 DEF Tells
  <2>3. \A e \in Calls \ {c} : Verdict(e)' = Verdict(e)
    BY <2>2 DEF Verdict, InDoubt, config, Req
  <2>4. verdictBar' = [verdictBar EXCEPT ![c] = Verdict(c)']
    BY <2>3
  <2>5. UNCHANGED <<wantsBar, present, changedBar>>
    BY <1>2, <2>2
  <2>6. /\ Verdict(c)' \in Atomic!Verdicts \ {"open"}
        /\ Verdict(c)' = "executed" => c \in changedBar \/ wantsBar[c].mayMiss
        /\ Verdict(c)' \in {"failed", "read"} => c \notin changedBar
    <3>1. Wants(request[c])' = Wants(request[c])
      BY <1>2
    <3> QED
      BY <2>1, <2>2, <3>1 DEF Truthful, Atomic!Verdicts
  <2>7. Atomic!Tell(c, Verdict(c)')
    BY <2>1, <2>4, <2>5, <2>6 DEF Atomic!Tell
  <2> QED
    BY <2>6, <2>7 DEF Atomic!Next
<1> QED
  BY <1>3, <1>4

\* A backend's step is the whole change of its call, or none of it, also when
\* nobody is left to hear of it.
LEMMA ServerPromises ==
  ASSUME Types, InRange, NEW c \in Calls, Behind(c), Guarded(c), Server(c)
  PROVE  [Atomic!Next]_(Atomic!vars)
<1> DEFINE changedBar == {d \in Calls : applied[d] # {}}
           verdictBar == [d \in Calls |-> Verdict(d)]
<1>1. UNCHANGED <<config, reply>>
  BY ServerLeavesClient DEF client
<1>2. CASE UNCHANGED <<applied, present>>
  BY <1>1, <1>2, PromiseStutters
<1>3. CASE ~UNCHANGED <<applied, present>>
  <2>1. WholeChange(c)
    BY <1>3, CommitChanges, ExecChanges DEF Server, SrvBegin, SrvSelect,
       SrvInsert, SrvRollback, SrvError, SrvClose, Abort
  <2>2. UNCHANGED verdictBar
    BY <1>1 DEF Verdict, InDoubt, config, Req
  <2>3. c \notin changedBar /\ changedBar' = changedBar \cup {c}
    BY <2>1 DEF WholeChange
  <2>4. Atomic!Change(c)
    BY <1>1, WantsKept, <2>1, <2>2, <2>3 DEF WholeChange, Atomic!Change
  <2> QED
    BY <2>4 DEF Atomic!Next
<1> QED
  BY <1>2, <1>3

\* Together: each step of the calls is a step of the promise or none.
LEMMA StepsPromise ==
  KnownInv /\ PromiseInv /\ [SomeStep]_vars => [Atomic!Next]_(Atomic!vars)
<1> SUFFICES ASSUME KnownInv, PromiseInv, [SomeStep]_vars
             PROVE  [Atomic!Next]_(Atomic!vars)
  OBVIOUS
<1>1. Types /\ InRange
  BY DEF KnownInv, BaseInv
<1>2. ASSUME NEW c \in Calls, ClientStep(c) PROVE [Atomic!Next]_(Atomic!vars)
  BY <1>2, HandlerPromises
<1>3. ASSUME NEW c \in Calls, Server(c) PROVE [Atomic!Next]_(Atomic!vars)
  BY <1>1, <1>3, BehindHandlers, ServerPromises DEF PromiseInv
<1>4. CASE UNCHANGED vars
  BY <1>1, <1>4, PromiseStutters DEF vars, client, server
<1> QED
  BY <1>2, <1>3, <1>4 DEF SomeStep, CallStep

\* The detailed specification implements the abstract one: whatever is lost,
\* refused, abandoned or late, each call changes everything it wants in one
\* step or nothing, and what its caller hears agrees with it.
THEOREM PromiseIsKept == Spec => KeepsThePromise
<1>1. Spec => [](KnownInv /\ PromiseInv)
  <2>1. Init => KnownInv /\ PromiseInv
    BY InitKnown, InitPromise
  <2> QED
    BY <2>1, NextKnown, NextPromise, NextIsSomeStep, PTL DEF Spec
<1> QED
  BY <1>1, PromiseStarts, StepsPromise, NextIsSomeStep, PTL
     DEF Spec, KeepsThePromise, Atomic!Spec

-----------------------------------------------------------------------------
\* A consequence of the promise, for whoever keeps it: a call that was told that
\* it failed, or that it only read, has changed nothing.
Honest == \A c \in Calls : Verdict(c) \in {"failed", "read"} => applied[c] = {}

\* The steps of the promise keep it.
LEMMA PromiseKeepsHonest == Honest /\ [Atomic!Next]_(Atomic!vars) => Honest'
<1> DEFINE changedBar == {d \in Calls : applied[d] # {}}
           verdictBar == [d \in Calls |-> Verdict(d)]
<1> SUFFICES ASSUME Honest, [Atomic!Next]_(Atomic!vars), NEW c \in Calls
             PROVE  Verdict(c)' \in {"failed", "read"} => applied'[c] = {}
  BY DEF Honest
<1>0. /\ verdictBar[c] = Verdict(c) /\ verdictBar'[c] = Verdict(c)'
      /\ c \in changedBar <=> applied[c] # {}
      /\ c \in changedBar' <=> applied'[c] # {}
      /\ verdictBar[c] \in {"failed", "read"} => c \notin changedBar
  BY DEF Honest
<1>1. CASE UNCHANGED Atomic!vars
  BY <1>0, <1>1 DEF Atomic!vars
<1>2. ASSUME NEW d \in Calls, Atomic!Change(d)
      PROVE  verdictBar'[c] \in {"failed", "read"} => c \notin changedBar'
  BY <1>0, <1>2 DEF Atomic!Change
<1>3. ASSUME NEW d \in Calls, NEW v, Atomic!Tell(d, v)
      PROVE  verdictBar'[c] \in {"failed", "read"} => c \notin changedBar'
  BY <1>0, <1>3 DEF Atomic!Tell
<1> QED
  BY <1>0, <1>1, <1>2, <1>3 DEF Atomic!Next
=============================================================================
