----------------------------- MODULE PostIntake -----------------------------
(***************************************************************************)
(* How work reaches the tick loop and how it is written down: posts of the *)
(* X stream, events of the scanner thread and PATCH /config, on the        *)
(* connection they all share.                                              *)
(*                                                                         *)
(* Threads: the stream's callback, the scanner, the API's worker and the   *)
(* tick loop, which sleeps on _wake_event between two ticks.  Every        *)
(* statement and every commit is a step.  What the tick does with an       *)
(* accepted signal is module OptionBook, with a handed event EquityBook.   *)
(***************************************************************************)
EXTENDS SharedConnection, Sequences

CONSTANTS
    MaxPosts, MaxEvents, MaxPatches,    \* bounds of the ids
    Budgets         \* bound: how much of what happens in one behaviour

Posts == 1 .. MaxPosts
Events == 1 .. MaxEvents
Patches == 1 .. MaxPatches

Row(kind, n) == [kind |-> kind, n |-> n]
PostRows == {Row("post", p) : p \in Posts} \union {Row("signal", p) : p \in Posts}
            \union {Row("crash", p) : p \in Posts}
EventRows == {Row("event", e) : e \in Events}
ConfigRows == {Row("config", n) : n \in Patches}

ASSUME IntakeAssumption ==
    /\ {MaxPosts, MaxEvents, MaxPatches} \subseteq Nat
    /\ Rows = PostRows \union EventRows \union ConfigRows

VARIABLES
    conn,           \* Orchestrator._conn
    store,          \* BotConfigStore._conn
    memory,         \* BotConfigStore._snapshot, as the patch it shows
    queue,          \* _post_queue
    squeue,         \* _scanner_signal_queue
    wake, shutdown, \* _wake_event, _shutdown_event
    tpc, cur,       \* the tick loop, and the post it handles
    escaped,        \* an exception left _drain_post_queue in this tick
    dpc,            \* the stream's callback
    spc, ev, scon, isNew,   \* the scanner: its event, connection and answer
    ppc, outer,     \* the PATCH, and whether its block is a real transaction
    kpc,            \* request_shutdown
    acked,          \* history: journal rows whose writer carried on
    handed,         \* history: how often an event was put for the tick loop
    done            \* bound: what has happened so far

tick == <<tpc, cur, escaped>>
scanner == <<spc, ev, scon, isNew>>
patch == <<ppc, outer>>
queues == <<queue, squeue, wake, shutdown>>
handles == <<conn, store>>
config == <<memory>>
journal == <<acked, handed>>
vars == <<db, handles, config, queues, tick, dpc, scanner, patch, kpc, journal, done>>

Kinds == {"posts", "events", "patches", "refused", "pruned", "unreachable", "ended"}
Affordable(d) == \E b \in Budgets : \A k \in Kinds : d[k] <= b[k]
Happens(k) ==
    /\ done' = [done EXCEPT ![k] = @ + 1]
    /\ Affordable(done')

TickPoints == {"probe", "drain", "rawExec", "rawCommit", "signalExec", "signalCommit",
               "crashExec", "crashCommit", "signals", "wait", "clear"}
Up == tpc \in TickPoints

FlagsOK == {wake, shutdown, escaped, isNew, outer} \subseteq BOOLEAN
PointsOK ==
    /\ tpc \in TickPoints \union {"down", "stopped"}
    /\ {dpc, kpc} \subseteq {"idle", "wake"}
    /\ spc \in {"idle", "commit", "put", "wake"}
    /\ ppc \in {"idle", "update", "leave", "reload"}
ItemsOK ==
    /\ {conn, store, scon} \subseteq Conns
    /\ memory \in Patches \union {0}
    /\ queue \in Seq(Posts) /\ squeue \in SUBSET Events
    /\ cur \in Posts \union {0} /\ ev \in Events \union {0}
    /\ acked \in SUBSET Rows /\ handed \in [Events -> Nat]
    /\ done \in [Kinds -> Nat]

TypeOK == DbTypeOK /\ FlagsOK /\ PointsOK /\ ItemsOK

Threads ==
    /\ queue' = <<>> /\ squeue' = {} /\ wake' = FALSE /\ shutdown' = FALSE
    /\ cur' = 0 /\ escaped' = FALSE /\ dpc' = "idle"
    /\ spc' = "idle" /\ ev' = 0 /\ scon' = 1 /\ isNew' = FALSE
    /\ ppc' = "idle" /\ outer' = FALSE /\ kpc' = "idle"

Init ==
    /\ DbInit
    /\ conn = 1 /\ store = 1 /\ memory = 0
    /\ queue = <<>> /\ squeue = {} /\ wake = FALSE /\ shutdown = FALSE
    /\ tpc = "down" /\ cur = 0 /\ escaped = FALSE /\ dpc = "idle"
    /\ spc = "idle" /\ ev = 0 /\ scon = 1 /\ isNew = FALSE
    /\ ppc = "idle" /\ outer = FALSE /\ kpc = "idle"
    /\ acked = {} /\ handed = [e \in Events |-> 0]
    /\ done = [k \in Kinds |-> 0]

Newest(rows) ==
    LET ns == {n \in Patches : Row("config", n) \in rows}
    IN  IF ns = {} THEN 0 ELSE CHOOSE n \in ns : \A m \in ns : m <= n

\* disable_x_stream as the n-th PATCH left it: they turn it on and off.
Paused(n) == n % 2 = 1

\* A statement raises: the connection is not usable, or the server refuses it.
Raises(h) ==
    \/ ExecuteRaises(h) /\ UNCHANGED done
    \/ Refuse(h) /\ Happens("refused")

-----------------------------------------------------------------------------
(* Start and end of the process. *)

\* build_production_app and run(): connect, then the store's first reload, whose
\* SELECT leaves a transaction open.
Start ==
    /\ tpc = "down"
    /\ tpc' = "probe"
    /\ conn' = 1 /\ store' = 1
    /\ status' = [status EXCEPT ![1] = "intrans"]
    /\ memory' = Newest(durable)
    /\ UNCHANGED <<pending, inBlock, saved, durable, queues, cur, escaped, dpc,
                   scanner, patch, kpc, journal, done>>

Ends ==
    /\ CloseAllConns
    /\ tpc' = "down"
    /\ Threads
    /\ UNCHANGED <<handles, config, journal>>

Crash ==
    /\ tpc # "down"
    /\ Happens("ended")
    /\ Ends

\* The lifespan joins a loop that has stopped, and the worker's requests are over.
ProcessExits ==
    /\ tpc = "stopped" /\ ppc = "idle"
    /\ Ends /\ UNCHANGED done

\* request_shutdown: the flag, then the wake-up.
RequestShutdown ==
    /\ Up /\ kpc = "idle" /\ ~shutdown
    /\ Happens("ended")
    /\ shutdown' = TRUE /\ kpc' = "wake"
    /\ UNCHANGED <<db, handles, config, queue, squeue, wake, tick, dpc, scanner, patch,
                   journal>>

ShutdownWakes ==
    /\ kpc = "wake"
    /\ kpc' = "idle" /\ wake' = TRUE
    /\ UNCHANGED <<db, handles, config, queue, squeue, shutdown, tick, dpc, scanner, patch,
                   journal, done>>

PruneSome ==
    /\ \E h \in Conns : Prune(h)
    /\ Happens("pruned")
    /\ UNCHANGED <<handles, config, queues, tick, dpc, scanner, patch, kpc, journal>>

-----------------------------------------------------------------------------
(* The stream thread: _on_x_post puts, then wakes. *)

PutPost ==
    /\ Up /\ dpc = "idle" /\ done.posts < MaxPosts
    /\ Happens("posts")
    /\ queue' = Append(queue, done'.posts)
    /\ dpc' = "wake"
    /\ UNCHANGED <<db, handles, config, squeue, wake, shutdown, tick, scanner, patch, kpc,
                   journal>>

PostWakes ==
    /\ dpc = "wake"
    /\ dpc' = "idle" /\ wake' = TRUE
    /\ UNCHANGED <<db, handles, config, queue, squeue, shutdown, tick, scanner, patch, kpc,
                   journal, done>>

-----------------------------------------------------------------------------
(* The tick: probe, posts, scanner signals, sleep. *)

TickRest == <<queues, dpc, scanner, patch, kpc>>

\* ensure_connection: SELECT 1 opens a transaction; a dead connection is replaced for
\* the tick loop, if the server answers; anything else propagates and is logged.
Probe ==
    /\ tpc = "probe" /\ tpc' = "drain"
    /\ escaped' = FALSE
    /\ \/ Execute(conn, {}) /\ UNCHANGED <<conn, done>>
       \/ status[conn] = "aborted" /\ UNCHANGED <<db, conn, done>>
       \/ /\ status[conn] = "dead"
          /\ \E h \in Conns : Connect(h) /\ conn' = h
          /\ UNCHANGED done
       \/ /\ status[conn] = "dead" /\ Happens("unreachable")
          /\ UNCHANGED <<db, conn>>
    /\ UNCHANGED <<store, config, cur, TickRest, journal>>

\* The snapshot waits for a PATCH that holds the lock.  A paused post is dropped;
\* of the others the parser makes what it can.
TakePost ==
    /\ tpc = "drain" /\ queue # <<>> /\ ppc = "idle"
    /\ queue' = Tail(queue)
    /\ IF Paused(memory) THEN UNCHANGED <<tpc, cur>>
       ELSE tpc' = "rawExec" /\ cur' = Head(queue)
    /\ UNCHANGED <<db, handles, config, squeue, wake, shutdown, escaped, dpc, scanner,
                   patch, kpc, journal, done>>

QueueEmpty ==
    /\ tpc = "drain" /\ queue = <<>>
    /\ tpc' = "signals"
    /\ UNCHANGED <<db, handles, config, queues, cur, escaped, dpc, scanner, patch, kpc,
                   journal, done>>

TickGoes(from, to) ==
    /\ tpc = from /\ tpc' = to
    /\ UNCHANGED <<handles, config, TickRest, cur, escaped, handed>>

\* The journal's inserts: one statement, then conn.commit().
WriteRow(from, to, kind) ==
    /\ TickGoes(from, to)
    /\ Execute(conn, {Row(kind, cur)})
    /\ UNCHANGED <<acked, done>>

CommitRow(from, to, kind) ==
    /\ TickGoes(from, to)
    /\ Commit(conn)
    /\ acked' = acked \union {Row(kind, cur)}
    /\ UNCHANGED done

\* What the parser, the database or the commit raises ends in the except clause.
HandlerRaises ==
    /\ \/ TickGoes("rawExec", "crashExec") /\ Raises(conn)
       \/ TickGoes("rawCommit", "crashExec") /\ CommitRaises(conn) /\ UNCHANGED done
       \/ TickGoes("signalExec", "crashExec") /\ Raises(conn)
       \/ TickGoes("signalCommit", "crashExec") /\ CommitRaises(conn) /\ UNCHANGED done
    /\ UNCHANGED acked

\* A signal references its post: without the row the server refuses it.
SignalWithoutPost ==
    /\ TickGoes("signalExec", "crashExec")
    /\ Row("post", cur) \notin Visible(conn)
    /\ Refuse(conn)
    /\ UNCHANGED <<acked, done>>

WritePost == WriteRow("rawExec", "rawCommit", "post")

WriteSignal ==
    /\ Row("post", cur) \in Visible(conn)
    /\ WriteRow("signalExec", "signalCommit", "signal")

\* insert_event of the except clause: post_handler_crash.
WriteCrash == WriteRow("crashExec", "crashCommit", "crash")

\* Faulty variant: a post that could not even be logged goes back on the queue.
CrashLogRaisesRequeues ==
    /\ \/ tpc = "crashExec" /\ Raises(conn)
       \/ tpc = "crashCommit" /\ CommitRaises(conn) /\ UNCHANGED done
    /\ tpc' = "signals" /\ escaped' = TRUE /\ queue' = <<cur>> \o queue
    /\ UNCHANGED <<handles, config, squeue, wake, shutdown, dpc, scanner, patch, kpc, cur,
                   journal>>

\* The except clause raises too: the posts behind this one wait for the next tick.
CrashLogRaises ==
    /\ \/ tpc = "crashExec" /\ Raises(conn)
       \/ tpc = "crashCommit" /\ CommitRaises(conn) /\ UNCHANGED done
    /\ tpc' = "signals" /\ escaped' = TRUE
    /\ UNCHANGED <<handles, config, TickRest, cur, journal>>

HandlePost ==
    \/ TakePost \/ QueueEmpty
    \/ WritePost \/ WriteSignal \/ WriteCrash \/ SignalWithoutPost
    \/ \E actionable \in BOOLEAN :
           CommitRow("rawCommit", IF actionable THEN "signalExec" ELSE "drain", "post")
    \/ CommitRow("signalCommit", "drain", "signal")
    \/ CommitRow("crashCommit", "drain", "crash")
    \/ HandlerRaises \/ CrashLogRaises

\* Faulty variant: the event is cleared before the sleep, not after it.
DrainSignalsClears ==
    /\ tpc = "signals" /\ tpc' = "wait"
    /\ squeue' = {} /\ cur' = 0 /\ wake' = FALSE
    /\ UNCHANGED <<db, handles, config, queue, shutdown, escaped, dpc, scanner, patch, kpc,
                   journal, done>>

\* _drain_scanner_signal_queue and the rest of the tick.
DrainSignals ==
    /\ tpc = "signals" /\ tpc' = "wait"
    /\ squeue' = {} /\ cur' = 0
    /\ UNCHANGED <<db, handles, config, queue, wake, shutdown, escaped, dpc, scanner, patch,
                   kpc, journal, done>>

\* wait(timeout) returns: somebody set the event, or the tick's five seconds are over.
WaitReturns ==
    /\ tpc = "wait" /\ tpc' = "clear"
    /\ UNCHANGED <<db, handles, config, queues, cur, escaped, dpc, scanner, patch, kpc,
                   journal, done>>

\* clear(), and the loop's condition.
Clear ==
    /\ tpc = "clear"
    /\ wake' = FALSE
    /\ tpc' = IF shutdown THEN "stopped" ELSE "probe"
    /\ UNCHANGED <<db, handles, config, queue, squeue, shutdown, cur, escaped, dpc, scanner,
                   patch, kpc, journal, done>>

Tick == Probe \/ HandlePost \/ DrainSignals \/ WaitReturns \/ Clear

-----------------------------------------------------------------------------
(* The scanner thread: _record_scanner_event, then put, then wake. *)

ScannerRest == <<handles, config, queue, shutdown, tick, dpc, patch, kpc>>

\* insert_scanner_event on what self._conn is now; of a row that is there it returns
\* nothing.  A scan may find the event of an earlier one again.
ScanInserts(e) ==
    /\ Up /\ spc = "idle" /\ ~shutdown
    /\ Happens("events")
    /\ spc' = "commit" /\ ev' = e /\ scon' = conn
    /\ isNew' = (Row("event", e) \notin Visible(conn))
    /\ Execute(conn, {Row("event", e)})
    /\ UNCHANGED <<ScannerRest, squeue, wake, journal>>

\* Faulty variant: a row that was there is reported as new.
ScanCommitsAlwaysNew ==
    /\ spc = "commit" /\ Commit(scon)
    /\ spc' = "put" /\ acked' = acked \union {Row("event", ev)}
    /\ UNCHANGED <<ScannerRest, squeue, wake, handed, ev, scon, isNew, done>>

\* Faulty variant: the commit goes to the connection the tick loop has by now.
ScanCommitsElsewhere ==
    /\ spc = "commit" /\ Commit(conn)
    /\ IF isNew THEN spc' = "put" /\ acked' = acked \union {Row("event", ev)}
       ELSE spc' = "idle" /\ UNCHANGED acked
    /\ UNCHANGED <<ScannerRest, squeue, wake, handed, ev, scon, isNew, done>>

ScanCommits ==
    /\ spc = "commit" /\ Commit(scon)
    /\ IF isNew THEN spc' = "put" /\ acked' = acked \union {Row("event", ev)}
       ELSE spc' = "idle" /\ UNCHANGED acked
    /\ UNCHANGED <<ScannerRest, squeue, wake, handed, ev, scon, isNew, done>>

\* The insert or the commit raises: swallowed, a later scan tries again.
ScanRefused ==
    /\ Up /\ spc = "idle" /\ ~shutdown
    /\ Refuse(conn) /\ Happens("refused")
    /\ UNCHANGED <<ScannerRest, scanner, squeue, wake, journal>>

ScanCommitRaises ==
    /\ spc = "commit" /\ spc' = "idle"
    /\ CommitRaises(scon)
    /\ UNCHANGED <<ScannerRest, squeue, wake, journal, ev, scon, isNew, done>>

PutSignal ==
    /\ spc = "put" /\ spc' = "wake"
    /\ squeue' = squeue \union {ev}
    /\ handed' = [handed EXCEPT ![ev] = @ + 1]
    /\ UNCHANGED <<db, ScannerRest, wake, acked, ev, scon, isNew, done>>

SignalWakes ==
    /\ spc = "wake" /\ spc' = "idle"
    /\ wake' = TRUE
    /\ UNCHANGED <<db, ScannerRest, squeue, journal, ev, scon, isNew, done>>

ScanGoesOn == ScanCommits \/ ScanCommitRaises \/ PutSignal \/ SignalWakes

-----------------------------------------------------------------------------
(* PATCH /config: BotConfigStore.update, under the store's lock. *)

PatchRest == <<handles, queues, tick, dpc, scanner, kpc, journal>>

PatchEnters ==
    /\ Up /\ ppc = "idle" /\ done.patches < MaxPatches
    /\ Happens("patches")
    /\ EnterBlock(store)
    /\ ppc' = "update" /\ outer' = (status[store] = "idle")
    /\ UNCHANGED <<PatchRest, config>>

\* No block on a dead or aborted connection: the request fails.
PatchRefused ==
    /\ Up /\ ppc = "idle" /\ done.patches < MaxPatches
    /\ Happens("patches")
    /\ ExecuteRaises(store)
    /\ UNCHANGED <<PatchRest, patch, config>>

PatchUpdates ==
    /\ ppc = "update" /\ ppc' = "leave"
    /\ Execute(store, {Row("config", done.patches)})
    /\ UNCHANGED <<PatchRest, outer, config, done>>

PatchUpdateRaises ==
    /\ ppc = "update" /\ ppc' = "idle"
    /\ \/ ~Usable(store) /\ UNCHANGED done
       \/ Happens("refused")
    /\ RollBackBlock(store, outer)
    /\ UNCHANGED <<PatchRest, outer, config>>

PatchLeaves ==
    /\ ppc = "leave"
    /\ \/ LeaveBlock(store, outer) /\ ppc' = "reload"
       \/ LeaveBlockRaises(store, outer) /\ ppc' = "idle"
    /\ UNCHANGED <<PatchRest, outer, config, done>>

\* Faulty variant: the answer is made from the payload, and the snapshot forgotten.
PatchSkipsReload ==
    /\ ppc = "reload" /\ ppc' = "idle"
    /\ Execute(store, {})
    /\ UNCHANGED <<PatchRest, outer, memory, done>>

\* reload(): the snapshot is what the store's transaction sees, and the answer.
PatchReloads ==
    /\ ppc = "reload" /\ ppc' = "idle"
    /\ Execute(store, {})
    /\ memory' = Newest(Visible(store))
    /\ UNCHANGED <<PatchRest, outer, done>>

PatchReloadRaises ==
    /\ ppc = "reload" /\ ppc' = "idle"
    /\ Raises(store)
    /\ UNCHANGED <<PatchRest, outer, config>>

PatchGoesOn ==
    PatchUpdates \/ PatchUpdateRaises \/ PatchLeaves \/ PatchReloads \/ PatchReloadRaises

-----------------------------------------------------------------------------

Next ==
    \/ Start \/ Crash \/ ProcessExits \/ RequestShutdown \/ ShutdownWakes \/ PruneSome
    \/ PutPost \/ PostWakes
    \/ Tick
    \/ (\E e \in Events : ScanInserts(e)) \/ ScanRefused \/ ScanGoesOn
    \/ PatchEnters \/ PatchRefused \/ PatchGoesOn

Spec == Init /\ [][Next]_vars

\* The threads of a living process go on with what they have begun.  Nothing is assumed
\* of posts, scans, requests, the server or restarts.
FairSpec ==
    /\ Spec
    /\ WF_vars(Tick) /\ WF_vars(ScanGoesOn) /\ WF_vars(PatchGoesOn)
    /\ WF_vars(PostWakes) /\ WF_vars(ShutdownWakes)

-----------------------------------------------------------------------------
(* Properties. *)

\* "log-before-act": what the tick or the scanner acts on (a signal to validate, an
\* event on the queue) is committed, though other threads commit, reconnect, fail
\* and end between the statement and its commit.  One statement the server refuses
\* takes the rows of every thread with it, and no commit says so.
LogBeforeAct == done.refused = 0 => acked \subseteq durable

\* An event is put for the tick loop at most once, over reconnects and restarts.
HandedOnce == done.refused = 0 => \A e \in Events : handed[e] <= 1

\* The loop never sleeps on work: a post, a signal or a shutdown that is there when
\* it waits has set the event, or is about to.  Only an exception that left the
\* drain lets posts wait for the timeout.
NeverSleepsOnWork ==
    tpc = "wait" /\ ~wake =>
        /\ queue = <<>> \/ escaped \/ dpc = "wake"
        /\ squeue = {} \/ spc = "wake"
        /\ shutdown => kpc = "wake"

\* The settings every thread reads are those the store's transaction holds, whatever
\* the other threads commit on it meanwhile.
SettingsMatchRow ==
    Up /\ ppc = "idle" /\ done.refused = 0 /\ status[store] # "dead" =>
        memory = Newest(Visible(store))

\* Posts do not pile up, not even behind one that cannot be journaled or on a
\* connection that stays aborted.
PostsGetTaken == queue # <<>> ~> (queue = <<>> \/ ~Up)
=============================================================================
