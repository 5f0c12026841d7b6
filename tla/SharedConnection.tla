-------------------------- MODULE SharedConnection --------------------------
(***************************************************************************)
(* The Postgres connection of the bot, as db.py, journal.py and            *)
(* config_store.py use it.  The tick loop, the scanner thread and PATCH    *)
(* /config run statements on one psycopg connection with autocommit off:   *)
(* they share its transaction.  psycopg and Postgres are external.         *)
(***************************************************************************)
EXTENDS Integers, FiniteSets

CONSTANTS
    Rows,           \* what the bot may write
    MaxConns        \* bound: connections a process opens

ASSUME ConnsAssumption == MaxConns \in Nat \ {0}

Conns == 1 .. MaxConns
Statuses == {"unused", "idle", "intrans", "aborted", "dead"}

VARIABLES
    status,         \* connection -> its transaction status
    pending,        \* connection -> rows its open transaction has written
    inBlock,        \* connections inside a "with conn.transaction()" block
    saved,          \* pending rows at the savepoint the block began with
    durable         \* committed rows

db == <<status, pending, inBlock, saved, durable>>

DbTypeOK ==
    /\ status \in [Conns -> Statuses]
    /\ pending \in [Conns -> SUBSET Rows]
    /\ \A h \in Conns : pending[h] # {} => status[h] = "intrans"
    /\ inBlock \in SUBSET Conns
    /\ saved \in SUBSET Rows
    /\ durable \in SUBSET Rows

DbInit ==
    /\ status = [h \in Conns |-> "unused"]
    /\ pending = [h \in Conns |-> {}]
    /\ inBlock = {} /\ saved = {} /\ durable = {}

Usable(h) == status[h] \in {"idle", "intrans"}
Fresh(h) == status[h] = "unused" /\ \A g \in 1 .. h - 1 : status[g] # "unused"

\* What a statement on h sees.
Visible(h) == durable \union pending[h]

-----------------------------------------------------------------------------
(* Statements.  The first one on an idle connection opens a transaction. *)

Execute(h, rows) ==
    /\ Usable(h)
    /\ status' = [status EXCEPT ![h] = "intrans"]
    /\ pending' = [pending EXCEPT ![h] = @ \union (rows \ durable)]
    /\ UNCHANGED <<inBlock, saved, durable>>

\* The server refuses a statement: the transaction is lost, whoever wrote in it.
Refuse(h) ==
    /\ Usable(h)
    /\ status' = [status EXCEPT ![h] = "aborted"]
    /\ pending' = [pending EXCEPT ![h] = {}]
    /\ UNCHANGED <<inBlock, saved, durable>>

\* OperationalError on a dead connection, InFailedSqlTransaction on an aborted one.
ExecuteRaises(h) == ~Usable(h) /\ UNCHANGED db

\* conn.commit().  On an aborted transaction Postgres rolls back and psycopg says
\* nothing.
Commit(h) ==
    /\ status[h] \in {"idle", "intrans", "aborted"} /\ h \notin inBlock
    /\ status' = [status EXCEPT ![h] = "idle"]
    /\ durable' = durable \union pending[h]
    /\ pending' = [pending EXCEPT ![h] = {}]
    /\ UNCHANGED <<inBlock, saved>>

\* Nor does psycopg commit inside a transaction block, whichever thread asks.
CommitRaises(h) == (status[h] = "dead" \/ h \in inBlock) /\ UNCHANGED db

-----------------------------------------------------------------------------
(* with conn.transaction(): a transaction if the connection is idle, and a *)
(* savepoint of the open one if it is not.                                 *)

EnterBlock(h) ==
    /\ Usable(h)
    /\ inBlock' = inBlock \union {h}
    /\ saved' = pending[h]
    /\ status' = [status EXCEPT ![h] = "intrans"]
    /\ UNCHANGED <<pending, durable>>

\* The block ends without an exception.
LeaveBlock(h, outer) ==
    /\ \/ status[h] = "intrans" \/ (status[h] = "aborted" /\ outer)
    /\ inBlock' = inBlock \ {h} /\ saved' = {}
    /\ IF outer
       THEN /\ durable' = durable \union pending[h]
            /\ status' = [status EXCEPT ![h] = "idle"]
            /\ pending' = [pending EXCEPT ![h] = {}]
       ELSE UNCHANGED <<status, pending, durable>>

\* RELEASE on an aborted transaction, or anything on a dead connection.
LeaveBlockRaises(h, outer) ==
    /\ \/ status[h] = "dead" \/ (status[h] = "aborted" /\ ~outer)
    /\ inBlock' = inBlock \ {h} /\ saved' = {}
    /\ UNCHANGED <<status, pending, durable>>

\* A statement of the block raised: ROLLBACK, or ROLLBACK TO the savepoint, which
\* revives an aborted transaction and takes what the others wrote since with it.
RollBackBlock(h, outer) ==
    /\ inBlock' = inBlock \ {h} /\ saved' = {}
    /\ status' = [status EXCEPT ![h] = IF @ = "dead" THEN "dead"
                                       ELSE IF outer THEN "idle" ELSE "intrans"]
    /\ pending' = [pending EXCEPT ![h] = IF outer \/ status[h] = "dead" THEN {} ELSE saved]
    /\ UNCHANGED durable

-----------------------------------------------------------------------------
(* The connection itself. *)

\* psycopg.connect.
Connect(h) ==
    /\ Fresh(h)
    /\ status' = [status EXCEPT ![h] = "idle"]
    /\ UNCHANGED <<pending, inBlock, saved, durable>>

\* The server prunes the connection; the client learns it at its next statement.
Prune(h) ==
    /\ status[h] \notin {"unused", "dead"}
    /\ status' = [status EXCEPT ![h] = "dead"]
    /\ pending' = [pending EXCEPT ![h] = {}]
    /\ UNCHANGED <<inBlock, saved, durable>>

\* The process ends: its connections close and roll back.
CloseAllConns ==
    /\ status' = [h \in Conns |-> "unused"]
    /\ pending' = [h \in Conns |-> {}]
    /\ inBlock' = {} /\ saved' = {}
    /\ UNCHANGED durable
=============================================================================
