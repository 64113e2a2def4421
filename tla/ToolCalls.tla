------------------------------ MODULE ToolCalls ------------------------------
(***************************************************************************)
(* Concurrent tool calls of the server, from the gates of a handler to the *)
(* reply.  The MCP SDK runs every call in a goroutine of its own; all of   *)
(* them share one database/sql pool and one PostgreSQL server.             *)
(*                                                                         *)
(* A handler has one of four shapes once its gates have let it through:    *)
(*   reads     one or more statements, each on a connection of its own     *)
(*             (Client.Query), also the preview of an unconfirmed change;  *)
(*   readonly  BEGIN READ ONLY, a statement, COMMIT (queryInReadOnly...);  *)
(*   insertTx  BEGIN, an INSERT per row, COMMIT (insertData);              *)
(*   exec      one autocommitted statement (Client.Exec).                  *)
(* Every call runs under a context that ends at its deadline or when the   *)
(* client cancels.  A connection on which a round trip was abandoned is    *)
(* closed, and the server notices that only later: the statement or the    *)
(* COMMIT it was working on may still take effect.                         *)
(*                                                                         *)
(* Objects stand for what statements touch: the rows of a table by key for *)
(* insert, update and delete, and tables or indexes by name for the DDL    *)
(* tools.  Only presence is kept, and the lock that a transaction holds.   *)
(***************************************************************************)
EXTENDS Integers, Sequences, FiniteSets

CONSTANTS
  Calls,        \* tool calls; each is received and answered once
  Objects,      \* rows, tables and indexes that statements touch
  Requests,     \* the arguments that calls may carry, see RequestType
  PoolSize,     \* SetMaxOpenConns
  Nobody        \* not a call

ReadTools == {"search_schema", "describe_table", "list_table",
  "list_databases", "inspect_relationships", "inspect_dependencies",
  "test_connection", "list_schemas", "list_extensions", "list_views",
  "list_triggers", "show_create_table", "table_size"}
LocalTools == {"list_environments", "validate_environment_config"}
QueryTools == {"read_data", "explain_query"}
DMLTools == {"insert_data", "update_data", "delete_data"}
DDLTools == {"create_table", "create_index", "drop_table"}
Tools == ReadTools \cup LocalTools \cup QueryTools \cup DMLTools \cup DDLTools

Levels == {"READONLY", "DML-RW", "DDL-RW"}

\* keys: the objects of the statements, one per row for insert_data and one
\* for the other tools that change something;
\* fault: the first argument that validation rejects ("values" are the SET
\* columns of update_data); writes: the SELECT or WHERE text calls a function
\* that writes, nextval for instance (EXPLAIN calls none).
RequestType == [tool : Tools, keys : Seq(Objects), confirm : BOOLEAN,
                fault : {"none", "target", "values"}, writes : BOOLEAN]

ASSUME PoolAssumption == PoolSize \in Nat \ {0}
ASSUME CallsAssumption == IsFiniteSet(Calls) /\ Nobody \notin Calls
ASSUME RequestAssumption ==
  /\ Requests \subseteq RequestType
  /\ \A r \in Requests :
       /\ r.tool \in DMLTools \cup DDLTools => Len(r.keys) > 0
       /\ r.tool \in (DMLTools \cup DDLTools) \ {"insert_data"} => Len(r.keys) = 1
       /\ r.writes => r.tool \in {"read_data", "update_data", "delete_data"}

VARIABLES
  level, requireConfirmation,  \* Config, loaded once
  request,   \* the arguments of each call
  pc,        \* where the handler of each call is
  step,      \* the statement it is at, from 1
  expired,   \* its context is done
  total,     \* rows affected so far
  reply,     \* what the client of the server is told
  inUse,     \* open connections of the pool
  link,      \* "up": held by the call; "down": closed, server not yet aware
  ask,       \* the message the backend of the call is to process
  answer,    \* what it answered: "row" for done with one row affected, "ok" for
             \* done with none, the command tag of DDL included
  sess,      \* transaction status of that backend
  staged,    \* statements with an effect not yet committed
  applied,   \* statements whose effect is committed
  holder,    \* the transaction that has each object locked
  present,   \* the objects that exist, committed
  sideEffect \* calls whose SELECT or WHERE wrote something

config == <<level, requireConfirmation, request>>
client == <<pc, step, total, reply>>
server == <<sess, staged, applied, holder, present, sideEffect>>
vars == <<config, client, expired, inUse, link, ask, answer, server>>

-----------------------------------------------------------------------------
\* Gates and shapes of the handlers.

AllowsDML(l) == l \in {"DML-RW", "DDL-RW"}
AllowsDDL_AlsoDML(l) == l # "READONLY"
AllowsDDL(l) == l = "DDL-RW"

Registered(tool) == \/ tool \in ReadTools \cup LocalTools \cup QueryTools
                    \/ tool \in DMLTools /\ AllowsDML(level)
                    \/ tool \in DDLTools /\ AllowsDDL(level)

LevelAllows(tool) == /\ tool \in DMLTools => AllowsDML(level)
                     /\ tool \in DDLTools => AllowsDDL(level)

Confirmable == {"update_data", "delete_data", "drop_table"}
Execute_IgnoringConfirm(r) == r.confirm \/ r.tool # "drop_table"
Execute(r) == \/ r.tool \notin Confirmable
              \/ ~requireConfirmation
              \/ r.confirm

\* updateData looks at the SET columns only when it is going to execute.
Valid(r) == \/ r.fault = "none"
            \/ r.fault = "values" /\ r.tool = "update_data" /\ ~Execute(r)

Admitted(r) == Registered(r.tool) /\ LevelAllows(r.tool) /\ Valid(r)

Preview(r) == ~Execute(r)

Mode(r) == IF r.tool \in LocalTools THEN "local"
           ELSE IF r.tool \in QueryTools THEN "readonly"
           ELSE IF r.tool \in ReadTools \/ Preview(r) THEN "reads"
           ELSE IF r.tool = "insert_data" THEN "insertTx"
           ELSE "exec"

Transactional_InsertAutocommits(r) == Mode(r) = "readonly"
Transactional(r) == Mode(r) \in {"readonly", "insertTx"}

ReadOnlyTx_Default(r) == FALSE
ReadOnlyTx(r) == Mode(r) = "readonly"

\* Round trips of a handler, BEGIN and COMMIT not counted.
Trips(r) ==
  IF Mode(r) = "insertTx" THEN Len(r.keys)
  ELSE IF r.tool = "describe_table" THEN 4
  ELSE IF r.tool \in {"search_schema", "inspect_relationships",
                      "test_connection", "show_create_table"} THEN 2
  ELSE 1

Req(c) == request[c]
Live == {"pool", "begin", "stmt", "commit", "rollback"}
RoundTrip == Live \ {"pool"}
Answered == {"ok", "row"}
NoReply == [status |-> "none", at |-> "none", rows |-> 0]
Failure(at) == [status |-> "error", at |-> at, rows |-> 0]

-----------------------------------------------------------------------------
Init ==
  /\ level \in Levels
  /\ requireConfirmation \in BOOLEAN
  /\ request \in [Calls -> Requests]
  /\ pc = [c \in Calls |-> "idle"]
  /\ step = [c \in Calls |-> 1]
  /\ expired = [c \in Calls |-> FALSE]
  /\ total = [c \in Calls |-> 0]
  /\ reply = [c \in Calls |-> NoReply]
  /\ inUse = 0
  /\ link = [c \in Calls |-> "none"]
  /\ ask = [c \in Calls |-> "none"]
  /\ answer = [c \in Calls |-> "none"]
  /\ sess = [c \in Calls |-> "idle"]
  /\ staged = [c \in Calls |-> {}]
  /\ applied = [c \in Calls |-> {}]
  /\ holder = [k \in Objects |-> Nobody]
  /\ present \in SUBSET Objects
  /\ sideEffect = {}

\* Steps of several handlers, named once.

Finish(c, r) == /\ pc' = [pc EXCEPT ![c] = "done"]
                /\ reply' = [reply EXCEPT ![c] = r]

Send(c, message) == /\ ask' = [ask EXCEPT ![c] = message]
                    /\ answer' = [answer EXCEPT ![c] = "none"]

\* The connection goes back to the pool, fit for the next call.
Release(c) == /\ link' = [link EXCEPT ![c] = "none"]
              /\ inUse' = inUse - 1
              /\ answer' = [answer EXCEPT ![c] = "none"]
              /\ UNCHANGED ask

\* The connection is closed with an answer outstanding; its slot is free.
Discard(c) == /\ link' = [link EXCEPT ![c] = "down"]
              /\ inUse' = inUse - 1
              /\ UNCHANGED <<ask, answer>>

-----------------------------------------------------------------------------
\* The handlers.

\* A call the gates turn away, or one that needs no database.
Receive(c) ==
  /\ pc[c] = "idle"
  /\ IF ~Admitted(Req(c)) THEN Finish(c, [NoReply EXCEPT !.status = "rejected"])
     ELSE IF Mode(Req(c)) = "local"
     THEN Finish(c, [NoReply EXCEPT !.status = "read"])
     ELSE pc' = [pc EXCEPT ![c] = "pool"] /\ UNCHANGED reply
  /\ UNCHANGED <<config, step, total, expired, inUse, link, ask, answer, server>>

\* The deadline of TimeoutContext passes, or the caller cancels.
Expire(c) ==
  /\ pc[c] \in Live
  /\ ~expired[c]
  /\ expired' = [expired EXCEPT ![c] = TRUE]
  /\ UNCHANGED <<config, client, inUse, link, ask, answer, server>>

\* DB.conn hands out a connection; a transaction begins with BEGIN.
Acquire_Unbounded(c) ==
  /\ pc[c] = "pool" /\ ~expired[c]
  /\ inUse' = inUse + 1
  /\ link' = [link EXCEPT ![c] = "up"]
  /\ LET first == IF Transactional(Req(c)) THEN "begin" ELSE "stmt"
     IN pc' = [pc EXCEPT ![c] = first] /\ Send(c, first)
  /\ UNCHANGED <<config, step, total, reply, expired, server>>
Acquire(c) ==
  /\ pc[c] = "pool" /\ ~expired[c]
  /\ inUse < PoolSize
  /\ inUse' = inUse + 1
  /\ link' = [link EXCEPT ![c] = "up"]
  /\ LET first == IF Transactional(Req(c)) THEN "begin" ELSE "stmt"
     IN pc' = [pc EXCEPT ![c] = first] /\ Send(c, first)
  /\ UNCHANGED <<config, step, total, reply, expired, server>>

\* DB.conn fails instead.
PoolRefuses(c) ==
  /\ pc[c] = "pool"
  /\ Finish(c, Failure("pool"))
  /\ UNCHANGED <<config, step, total, expired, inUse, link, ask, answer, server>>

\* The context ends while the call waits for a connection.
PoolTimeout_NoContext(c) == FALSE /\ UNCHANGED vars
PoolTimeout(c) == expired[c] /\ PoolRefuses(c)

\* BEGIN was answered: send the first statement.
Begun(c) ==
  /\ pc[c] = "begin" /\ answer[c] \in Answered /\ ~expired[c]
  /\ pc' = [pc EXCEPT ![c] = "stmt"]
  /\ Send(c, "stmt")
  /\ UNCHANGED <<config, step, total, reply, expired, inUse, link, server>>

Affected(c) == IF answer[c] = "row" THEN 1 ELSE 0

\* insertData: a row was inserted, more are to come.
NextRow_NotCounted(c) ==
  /\ pc[c] = "stmt" /\ answer[c] \in Answered /\ ~expired[c]
  /\ Mode(Req(c)) = "insertTx" /\ step[c] < Trips(Req(c))
  /\ step' = [step EXCEPT ![c] = @ + 1]
  /\ Send(c, "stmt")
  /\ UNCHANGED <<config, pc, total, reply, expired, inUse, link, server>>
NextRow(c) ==
  /\ pc[c] = "stmt" /\ answer[c] \in Answered /\ ~expired[c]
  /\ Mode(Req(c)) = "insertTx" /\ step[c] < Trips(Req(c))
  /\ step' = [step EXCEPT ![c] = @ + 1]
  /\ total' = [total EXCEPT ![c] = @ + Affected(c)]
  /\ Send(c, "stmt")
  /\ UNCHANGED <<config, pc, reply, expired, inUse, link, server>>

Executed(rows) == [status |-> "executed", at |-> "none", rows |-> rows]
ReadReply(r) == [NoReply EXCEPT !.status = IF Preview(r) THEN "preview" ELSE "read"]

\* The last statement of a transaction was answered: Commit.
SendCommit_Forgotten(c) ==
  /\ pc[c] = "stmt" /\ answer[c] \in Answered /\ ~expired[c]
  /\ Transactional(Req(c)) /\ step[c] = Trips(Req(c))
  /\ Finish(c, Executed(total[c] + Affected(c)))
  /\ Release(c)
  /\ UNCHANGED <<config, step, total, expired, server>>
SendCommit(c) ==
  /\ pc[c] = "stmt" /\ answer[c] \in Answered /\ ~expired[c]
  /\ Transactional(Req(c)) /\ step[c] = Trips(Req(c))
  /\ pc' = [pc EXCEPT ![c] = "commit"]
  /\ total' = [total EXCEPT ![c] = @ + Affected(c)]
  /\ Send(c, "commit")
  /\ UNCHANGED <<config, step, reply, expired, inUse, link, server>>

\* COMMIT was answered; the deferred Rollback finds the transaction done.
Committed_ErrorIgnored(c) ==
  /\ pc[c] = "commit" /\ answer[c] # "none"
  /\ Finish(c, IF Mode(Req(c)) = "insertTx" THEN Executed(total[c])
               ELSE ReadReply(Req(c)))
  /\ Release(c)
  /\ UNCHANGED <<config, step, total, expired, server>>
Committed(c) ==
  /\ pc[c] = "commit" /\ answer[c] \in Answered
  /\ Finish(c, IF Mode(Req(c)) = "insertTx" THEN Executed(total[c])
               ELSE ReadReply(Req(c)))
  /\ Release(c)
  /\ UNCHANGED <<config, step, total, expired, server>>

\* Client.Query: rows.Close gives the connection back before the next query.
NextQuery_RowsNotClosed(c) ==
  /\ pc[c] = "stmt" /\ answer[c] \in Answered
  /\ Mode(Req(c)) = "reads" /\ step[c] < Trips(Req(c))
  /\ pc' = [pc EXCEPT ![c] = "pool"]
  /\ step' = [step EXCEPT ![c] = @ + 1]
  /\ UNCHANGED <<config, total, reply, expired, inUse, link, ask, answer, server>>
NextQuery(c) ==
  /\ pc[c] = "stmt" /\ answer[c] \in Answered
  /\ Mode(Req(c)) = "reads" /\ step[c] < Trips(Req(c))
  /\ pc' = [pc EXCEPT ![c] = "pool"]
  /\ step' = [step EXCEPT ![c] = @ + 1]
  /\ Release(c)
  /\ UNCHANGED <<config, total, reply, expired, server>>

QueryDone(c) ==
  /\ pc[c] = "stmt" /\ answer[c] \in Answered
  /\ Mode(Req(c)) = "reads" /\ step[c] = Trips(Req(c))
  /\ Finish(c, ReadReply(Req(c)))
  /\ Release(c)
  /\ UNCHANGED <<config, step, total, expired, server>>

\* Client.Exec
ExecDone(c) ==
  /\ pc[c] = "stmt" /\ answer[c] \in Answered
  /\ Mode(Req(c)) = "exec"
  /\ Finish(c, Executed(Affected(c)))
  /\ Release(c)
  /\ UNCHANGED <<config, step, total, expired, server>>

\* The server answered a statement of a transaction with an error: the
\* deferred Rollback is a round trip of its own.
DeferredRollback_Missing(c) ==
  /\ pc[c] = "stmt" /\ answer[c] = "error" /\ ~expired[c]
  /\ Transactional(Req(c))
  /\ Finish(c, Failure("stmt"))
  /\ Release(c)
  /\ UNCHANGED <<config, step, total, expired, server>>
DeferredRollback(c) ==
  /\ pc[c] = "stmt" /\ answer[c] = "error" /\ ~expired[c]
  /\ Transactional(Req(c))
  /\ pc' = [pc EXCEPT ![c] = "rollback"]
  /\ Send(c, "rollback")
  /\ UNCHANGED <<config, step, total, reply, expired, inUse, link, server>>

RolledBack(c) ==
  /\ pc[c] = "rollback" /\ answer[c] \in Answered
  /\ Finish(c, Failure("stmt"))
  /\ Release(c)
  /\ UNCHANGED <<config, step, total, expired, server>>

\* show_create_table: the table does not exist, or has a column or constraint
\* whose name cannot be quoted.
Unusable(c) == /\ Req(c).tool = "show_create_table"
               /\ pc[c] = "stmt" /\ answer[c] \in Answered

\* Any other error is returned and the connection kept.
ServerError(c) ==
  /\ \/ /\ pc[c] \in RoundTrip /\ answer[c] = "error"
        /\ ~(pc[c] = "stmt" /\ Transactional(Req(c)))
     \/ Unusable(c)
  /\ Finish(c, Failure(pc[c]))
  /\ Release(c)
  /\ UNCHANGED <<config, step, total, expired, server>>

\* The context ends during a round trip, or before the next one is sent:
\* pgx closes the connection and database/sql drops it from the pool.
GiveUp(c) ==
  /\ pc[c] \in RoundTrip /\ expired[c]
  /\ Finish(c, Failure(IF pc[c] = "rollback" THEN "stmt" ELSE pc[c]))
  /\ Discard(c)
  /\ UNCHANGED <<config, step, total, expired, server>>

\* The connection breaks: the network, or the server ends the session.
LoseConnection(c) ==
  /\ pc[c] \in RoundTrip
  /\ Finish(c, Failure(IF pc[c] = "rollback" THEN "stmt" ELSE pc[c]))
  /\ Discard(c)
  /\ UNCHANGED <<config, step, total, expired, server>>

-----------------------------------------------------------------------------
\* The PostgreSQL backend of a call.

Key(c) == Req(c).keys[step[c]]
Mutates(c) == Mode(Req(c)) \in {"insertTx", "exec"}
Adds(c) == Req(c).tool \in {"insert_data", "create_table", "create_index"}
ErrorWhen(c, exists) == IF Adds(c) THEN exists
                        ELSE Req(c).tool = "drop_table" /\ ~exists
Free(c, k) == holder[k] \in {Nobody, c}

\* The objects that c has added in its open transaction.
Added(c) == {Req(c).keys[i] : i \in staged[c]}

Reply(c, a) == /\ ask' = [ask EXCEPT ![c] = "none"]
               /\ answer' = [answer EXCEPT ![c] = a]
               /\ UNCHANGED <<config, client, expired, inUse, link>>

Unlock(c) == holder' = [k \in Objects |-> IF holder[k] = c THEN Nobody ELSE holder[k]]

Abort(c, status) == /\ sess' = [sess EXCEPT ![c] = status]
                    /\ staged' = [staged EXCEPT ![c] = {}]
                    /\ Unlock(c)
                    /\ UNCHANGED <<applied, present, sideEffect>>

SrvBegin(c) ==
  /\ ask[c] = "begin"
  /\ sess' = [sess EXCEPT ![c] = IF ReadOnlyTx(Req(c)) THEN "readOnly" ELSE "inTx"]
  /\ Reply(c, "ok")
  /\ UNCHANGED <<staged, applied, holder, present, sideEffect>>

\* SELECT: a writing function is refused in a read-only transaction only.
SrvSelect(c) ==
  /\ ask[c] = "stmt" /\ ~Mutates(c)
  /\ IF Req(c).writes /\ sess[c] = "readOnly"
     THEN Abort(c, "failed") /\ Reply(c, "error")
     ELSE /\ sideEffect' = IF Req(c).writes THEN sideEffect \cup {c} ELSE sideEffect
          /\ Reply(c, "ok")
          /\ UNCHANGED <<sess, staged, applied, holder, present>>

\* A row of an open transaction; it waits for the lock of another one.
SrvInsert(c) ==
  /\ ask[c] = "stmt" /\ Mutates(c) /\ sess[c] = "inTx"
  /\ Free(c, Key(c))
  /\ IF Key(c) \in present \cup Added(c)
     THEN Abort(c, "failed") /\ Reply(c, "error")
     ELSE /\ staged' = [staged EXCEPT ![c] = @ \cup {step[c]}]
          /\ holder' = [holder EXCEPT ![Key(c)] = c]
          /\ Reply(c, "row")
          /\ UNCHANGED <<sess, applied, present, sideEffect>>

\* The command tags of UPDATE and DELETE carry a count of rows, those of DDL
\* carry none.
Tag(c) == IF Req(c).tool \in DDLTools THEN "ok" ELSE "row"

\* An autocommitted statement takes effect at once or not at all.
SrvExec(c) ==
  /\ ask[c] = "stmt" /\ Mutates(c) /\ sess[c] = "idle"
  /\ holder[Key(c)] = Nobody
  /\ LET exists == Key(c) \in present
     IN \/ /\ ErrorWhen(c, exists)
           /\ Reply(c, "error")
           /\ UNCHANGED server
        \/ /\ ~ErrorWhen(c, exists) /\ (Adds(c) \/ exists)
           /\ applied' = [applied EXCEPT ![c] = @ \cup {step[c]}]
           /\ present' = IF Adds(c) THEN present \cup {Key(c)}
                         ELSE IF Req(c).tool = "update_data" THEN present
                         ELSE present \ {Key(c)}
           /\ Reply(c, Tag(c))
           /\ UNCHANGED <<sess, staged, holder, sideEffect>>
        \/ /\ ~ErrorWhen(c, exists) /\ ~Adds(c) /\ ~exists
           /\ Reply(c, "ok")
           /\ UNCHANGED server

SrvCommit(c) ==
  /\ ask[c] = "commit" /\ sess[c] \in {"inTx", "readOnly"}
  /\ sess' = [sess EXCEPT ![c] = "idle"]
  /\ applied' = [applied EXCEPT ![c] = staged[c]]
  /\ present' = present \cup Added(c)
  /\ staged' = [staged EXCEPT ![c] = {}]
  /\ Unlock(c)
  /\ Reply(c, "ok")
  /\ UNCHANGED sideEffect

SrvRollback(c) ==
  /\ ask[c] = "rollback"
  /\ Abort(c, "idle")
  /\ Reply(c, "ok")

\* Any statement or COMMIT may fail on the server: a constraint, a deadlock
\* it breaks, a serialization failure, a refused BEGIN.
SrvError(c) ==
  /\ ask[c] \in {"begin", "stmt", "commit"}
  /\ Abort(c, IF ask[c] = "stmt" /\ sess[c] # "idle" THEN "failed" ELSE "idle")
  /\ Reply(c, "error")

\* The server finds the connection closed and ends the session.
SrvClose(c) ==
  /\ link[c] = "down"
  /\ link' = [link EXCEPT ![c] = "none"]
  /\ ask' = [ask EXCEPT ![c] = "none"]
  /\ answer' = [answer EXCEPT ![c] = "none"]
  /\ Abort(c, "idle")
  /\ UNCHANGED <<config, client, expired, inUse>>

-----------------------------------------------------------------------------
Handler(c) ==
  \/ Acquire(c) \/ PoolTimeout(c) \/ Begun(c) \/ NextRow(c)
  \/ SendCommit(c) \/ Committed(c) \/ NextQuery(c) \/ QueryDone(c)
  \/ ExecDone(c) \/ DeferredRollback(c) \/ RolledBack(c) \/ ServerError(c)
  \/ GiveUp(c)

Server(c) ==
  \/ SrvBegin(c) \/ SrvSelect(c) \/ SrvInsert(c) \/ SrvExec(c) \/ SrvCommit(c)
  \/ SrvRollback(c) \/ SrvError(c) \/ SrvClose(c)

AllAnswered == (\A c \in Calls : pc[c] = "done") /\ UNCHANGED vars

Next == \/ \E c \in Calls : \/ Receive(c) \/ Handler(c) \/ Server(c)
                             \/ Expire(c) \/ LoseConnection(c)
        \/ AllAnswered

Spec == Init /\ [][Next]_vars

\* Goroutines run, deadlines pass, and the server notices closed sessions;
\* nothing is assumed of its answers.
Fairness == \A c \in Calls : WF_vars(Handler(c)) /\ WF_vars(Expire(c))
                             /\ WF_vars(SrvClose(c))
FairSpec == Spec /\ Fairness

-----------------------------------------------------------------------------
ReplyType == [status : {"none", "rejected", "error", "read", "preview", "executed"},
              at : {"none"} \cup Live, rows : Nat]

ConfigType == /\ level \in Levels /\ requireConfirmation \in BOOLEAN
              /\ request \in [Calls -> Requests]
ClientType == /\ pc \in [Calls -> Live \cup {"idle", "done"}]
              /\ step \in [Calls -> Nat \ {0}]
              /\ expired \in [Calls -> BOOLEAN]
              /\ total \in [Calls -> Nat]
              /\ reply \in [Calls -> ReplyType]
WireType == /\ link \in [Calls -> {"none", "up", "down"}]
            /\ ask \in [Calls -> {"none", "begin", "stmt", "commit", "rollback"}]
            /\ answer \in [Calls -> {"none", "ok", "row", "error"}]
ServerType == /\ sess \in [Calls -> {"idle", "inTx", "readOnly", "failed"}]
              /\ staged \in [Calls -> SUBSET (Nat \ {0})]
              /\ applied \in [Calls -> SUBSET (Nat \ {0})]
              /\ holder \in [Objects -> Calls \cup {Nobody}]
              /\ present \in SUBSET Objects
              /\ sideEffect \in SUBSET Calls

\* Types of the variables; the pool never holds more than PoolSize connections.
TypeOK == /\ ConfigType /\ ClientType /\ WireType /\ ServerType
          /\ inUse \in 0 .. PoolSize

\* insert_data: of the rows of a call, all are committed or none is, at every
\* moment and whatever happened to the call.
InsertAllOrNothing ==
  \A c \in Calls : Req(c).tool = "insert_data" =>
                     applied[c] \in {{}, 1 .. Len(Req(c).keys)}

\* The rows that a call has changed, as a caller may count them: tables and
\* indexes are no rows.
RowsChanged(c) == IF Req(c).tool \in DDLTools THEN 0 ELSE Cardinality(applied[c])

\* "executed": true is only said of a change that is committed, and the count
\* of rows that goes with it is the number of rows that were changed; for a
\* table or an index it is 0 although something was changed, and for rows it
\* is 0 only when no row was there to change.
ExecutedTellsTheTruth ==
  \A c \in Calls : reply[c].status = "executed" =>
    /\ reply[c].rows = RowsChanged(c)
    /\ Req(c).tool = "insert_data" => applied[c] = 1 .. Len(Req(c).keys)
    /\ Req(c).tool \in DDLTools => applied[c] # {}

\* An insert that failed before COMMIT was sent ("insert row i") left nothing.
FailedRowLeavesNothing ==
  \A c \in Calls :
    Req(c).tool = "insert_data" /\ reply[c].at \in {"pool", "begin", "stmt"}
      => applied[c] = {}

\* A change is committed only for a call whose tool the access level allows
\* and which was confirmed where confirmation is required.
OnlyPermittedChanges ==
  \A c \in Calls : applied[c] # {} =>
    /\ Req(c).tool \in DMLTools => level \in {"DML-RW", "DDL-RW"}
    /\ Req(c).tool \in DDLTools => level = "DDL-RW"
    /\ requireConfirmation /\ Req(c).tool \in Confirmable => Req(c).confirm
    /\ Req(c).tool \in DMLTools \cup DDLTools

\* A query of read_data writes nothing, whatever function it calls.
QueriesWriteNothing ==
  \A c \in sideEffect : Req(c).tool \notin QueryTools

\* "PostgreSQL's read-only transaction mode remains the authoritative guard at
\* execution time" of what IsReadOnlyQuery accepted: a statement that a call
\* runs on the strength of that check, a preview of update_data or delete_data
\* included, writes nothing.
GuardedByReadOnlyMode ==
  \A c \in sideEffect : Execute(Req(c)) /\ Req(c).tool \notin QueryTools

\* The slots in use are those of the calls in a round trip: every path of a
\* handler gives its connection back once, and no call holds one while it
\* waits for another.
PoolAccounting ==
  /\ inUse = Cardinality({c \in Calls : link[c] = "up"})
  /\ \A c \in Calls : link[c] = "up" <=> pc[c] \in RoundTrip

\* A connection that goes back to the pool has no transaction open on it and
\* holds no lock.
ReturnedConnectionIsClean ==
  \A c \in Calls : link[c] = "none" =>
    /\ sess[c] = "idle" /\ staged[c] = {}
    /\ \A k \in Objects : holder[k] # c

\* The error of a COMMIT or of an autocommitted statement: its caller cannot
\* tell one that was lost from one that the server refused, as the handler
\* reports both alike.
InDoubt(c) ==
  /\ reply[c].status = "error"
  /\ reply[c].at = IF Req(c).tool = "insert_data" THEN "commit" ELSE "stmt"

\* Every call is answered, with a pool of any size and a server that may
\* never answer: the context bounds each wait.
EveryCallReturns == \A c \in Calls : pc[c] # "idle" ~> pc[c] = "done"

\* The locks of a call do not outlive it for ever.
LocksAreReleased ==
  \A c \in Calls : pc[c] = "done" ~> \A k \in Objects : holder[k] # c

-----------------------------------------------------------------------------
\* The promise of the mutating tools, AtomicWrites, and how this
\* specification keeps it.

Keys(r) == {r.keys[i] : i \in 1 .. Len(r.keys)}

Wants(r) ==
  [adds |-> IF r.tool \in {"insert_data", "create_table", "create_index"}
            THEN Keys(r) ELSE {},
   removes |-> IF r.tool \in {"delete_data", "drop_table"} THEN Keys(r) ELSE {},
   alters |-> IF r.tool = "update_data" THEN Keys(r) ELSE {},
   allowed |-> Admitted(r) /\ Execute(r) /\ r.tool \in DMLTools \cup DDLTools,
   mayMiss |-> r.tool \in {"update_data", "delete_data"}]

Verdict(c) ==
  CASE reply[c].status = "none" -> "open"
    [] reply[c].status = "executed" -> "executed"
    [] reply[c].status \in {"read", "preview"} -> "read"
    [] InDoubt(c) -> "inDoubt"
    [] OTHER -> "failed"

Atomic == INSTANCE AtomicWrites WITH
            wants <- [c \in Calls |-> Wants(request[c])],
            changed <- {c \in Calls : applied[c] # {}},
            verdict <- [c \in Calls |-> Verdict(c)]

\* The handlers and the server together keep the promise: every commit
\* appears as one whole change of its call, with the verdict that fits it, and
\* none comes after a verdict, unless it was that of a lost COMMIT or statement.
KeepsThePromise == Atomic!Spec

=============================================================================
