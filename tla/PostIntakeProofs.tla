-------------------------- MODULE PostIntakeProofs --------------------------
(***************************************************************************)
(* What the threads of PostIntake may rely on, for every number of posts,  *)
(* events, patches and connections, and every number of faults.            *)
(***************************************************************************)
EXTENDS PostIntake, WellFoundedInduction, TLAPS

(* The inductive invariant. *)

Handling == {"rawExec", "rawCommit", "signalExec", "signalCommit", "crashExec", "crashCommit"}

\* A thread in the middle of something has something, and an open connection.
InHand ==
    /\ tpc \in Handling => cur \in Posts
    /\ spc # "idle" => ev \in Events
    /\ ppc # "idle" => done.patches \in Patches /\ status[store] # "unused"
    /\ store = 1
    /\ tpc = "down" => \A h \in Conns : status[h] = "unused"

\* What the loop looks at before it sleeps.
Woken ==
    /\ tpc \in {"signals", "wait"} /\ ~wake => queue = <<>> \/ escaped \/ dpc = "wake"
    /\ tpc = "wait" /\ ~wake => squeue = {} \/ spc = "wake"
    /\ Up /\ shutdown /\ ~wake => kpc = "wake"
    /\ tpc = "down" => ~shutdown

\* A written row stays visible on its connection, or the connection is dead.
Safe(row, h) == row \in Visible(h) \/ status[h] = "dead"

NoneAborted == \A h \in Conns : status[h] # "aborted"
AckedDurable == acked \subseteq durable
PostSafe ==
    /\ tpc = "rawCommit" => Safe(Row("post", cur), conn)
    /\ tpc = "signalExec" => Row("post", cur) \in acked
    /\ tpc = "signalCommit" => Safe(Row("signal", cur), conn)
    /\ tpc = "crashCommit" => Safe(Row("crash", cur), conn)
EventSafe ==
    /\ spc = "commit" => Safe(Row("event", ev), scon) /\ (isNew => handed[ev] = 0)
    /\ spc = "put" => Row("event", ev) \in acked /\ handed[ev] = 0
    /\ \A e \in Events : handed[e] <= 1 /\ (handed[e] > 0 => Row("event", e) \in acked)
SettingsSafe ==
    /\ \A h \in Conns, n \in Patches : Row("config", n) \in pending[h] => h = store
    /\ Up /\ ppc = "idle" /\ status[store] # "dead" => memory = Newest(Visible(store))

Clean == NoneAborted /\ AckedDurable /\ PostSafe /\ EventSafe /\ SettingsSafe

IInv == TypeOK /\ InHand /\ Woken /\ (done.refused = 0 => Clean)

-----------------------------------------------------------------------------
(* Operators. *)

\* The newest of the settings rows is one, if there is any.
LEMMA NewestTyped == ASSUME NEW rows PROVE Newest(rows) \in Patches \union {0}
<1> DEFINE ns == {n \in Patches : Row("config", n) \in rows}
<1>1. ASSUME ns # {} PROVE \E n \in ns : \A m \in ns : m <= n
  <2> DEFINE below == {k \in Nat : \E n \in ns : k = MaxPatches - n}
  <2>1. MaxPatches \in Nat /\ ns \subseteq 1 .. MaxPatches
    BY IntakeAssumption DEF Patches
  <2>2. PICK n0 \in ns : TRUE
    BY <1>1
  <2>3. n0 \in 1 .. MaxPatches
    BY <2>1, <2>2
  <2>4. MaxPatches - n0 \in Nat
    BY <2>1, <2>3
  <2>5. below # {} /\ below \in SUBSET Nat
    BY <2>2, <2>4
  <2> HIDE DEF below
  <2>6. PICK k \in below : \A j \in below : k <= j
    <3>1. PICK x \in below : \A y \in below : ~(<<y, x>> \in OpToRel(<, Nat))
      BY <2>5, NatLessThanWellFounded, WFMin
    <3>2. \A y \in below : ~(y < x)
      BY <2>5, <3>1 DEF OpToRel
    <3>3. QED BY <2>5, <3>2
  <2>7. PICK n \in ns : k = MaxPatches - n
    BY <2>6 DEF below
  <2>8. ASSUME NEW m \in ns PROVE m <= n
    <3>1. n \in 1 .. MaxPatches /\ m \in 1 .. MaxPatches
      BY <2>1
    <3>2. MaxPatches - m \in Nat
      BY <2>1, <3>1
    <3>3. MaxPatches - m \in below
      BY <3>2 DEF below
    <3>4. MaxPatches - n <= MaxPatches - m
      BY <2>6, <2>7, <3>3
    <3>5. QED BY <2>1, <3>1, <3>4
  <2>9. QED BY <2>8
<1>2. Newest(rows) = IF ns = {} THEN 0 ELSE CHOOSE n \in ns : \A m \in ns : m <= n
  BY DEF Newest
<1>3. ns \subseteq Patches
  OBVIOUS
<1> HIDE DEF ns
<1>4. QED BY <1>1, <1>2, <1>3

\* Rows of other kinds do not change the settings.
LEMMA NewestSame ==
    ASSUME NEW R, NEW S,
           \A n \in Patches : Row("config", n) \in R <=> Row("config", n) \in S
    PROVE  Newest(R) = Newest(S)
<1> DEFINE ns(X) == {n \in Patches : Row("config", n) \in X}
<1>1. ns(R) = ns(S)
  OBVIOUS
<1> DEFINE top(A) == IF A = {} THEN 0 ELSE CHOOSE n \in A : \A m \in A : m <= n
<1>2. Newest(R) = top(ns(R)) /\ Newest(S) = top(ns(S))
  BY DEF Newest
<1> HIDE DEF ns, top
<1>3. QED BY <1>1, <1>2

LEMMA RowsTyped ==
    /\ \A p \in Posts : /\ Row("post", p) \in Rows /\ Row("signal", p) \in Rows
                        /\ Row("crash", p) \in Rows
    /\ \A e \in Events : Row("event", e) \in Rows
    /\ \A n \in Patches : Row("config", n) \in Rows
BY IntakeAssumption DEF PostRows, EventRows, ConfigRows

LEMMA RowKinds ==
    ASSUME NEW k, NEW n, NEW j, NEW m, k # j
    PROVE  Row(k, n) # Row(j, m)
BY DEF Row

LEMMA HappensTyped ==
    ASSUME done \in [Kinds -> Nat], NEW k \in Kinds, Happens(k)
    PROVE  /\ done' \in [Kinds -> Nat] /\ done'[k] = done[k] + 1
           /\ \A j \in Kinds \ {k} : done'[j] = done[j]
BY DEF Happens

-----------------------------------------------------------------------------
(* The connection: types, and what a step of one thread keeps for the others. *)

Kept ==
    /\ durable \subseteq durable'
    /\ \A h \in Conns :
          /\ status[h] = "dead" => status'[h] = "dead"
          /\ status'[h] = "aborted" => status[h] = "aborted"
          /\ Visible(h) \subseteq Visible(h)' \/ status'[h] = "dead"

\* What types and hands need to know of the connections after a step.
Alive == DbTypeOK' /\ \A h \in Conns : status'[h] = "unused" <=> status[h] = "unused"

\* Nothing is committed or written but rows.
Wrote(rows, h) ==
    /\ durable' \subseteq durable \union UNION {pending[g] : g \in Conns}
    /\ \A g \in Conns : pending'[g] \subseteq pending[g] \union (IF g = h THEN rows ELSE {})

LEMMA ExecuteKeeps ==
    ASSUME DbTypeOK, NEW h \in Conns, NEW rows \in SUBSET Rows, Execute(h, rows)
    PROVE  /\ Alive /\ Kept /\ Wrote(rows, h) /\ rows \subseteq Visible(h)'
           /\ status'[h] = "intrans" /\ \A g \in Conns \ {h} : status'[g] = status[g]
           /\ durable' = durable /\ Visible(h)' = Visible(h) \union rows
<1>1. /\ status' = [status EXCEPT ![h] = "intrans"] /\ Usable(h)
      /\ pending' = [pending EXCEPT ![h] = @ \union (rows \ durable)]
      /\ UNCHANGED <<inBlock, saved, durable>>
  BY DEF Execute
<1>2. /\ status'[h] = "intrans" /\ pending'[h] = pending[h] \union (rows \ durable)
      /\ \A g \in Conns \ {h} : status'[g] = status[g] /\ pending'[g] = pending[g]
  BY <1>1 DEF DbTypeOK
<1>3. DbTypeOK'
  BY <1>1, <1>2 DEF DbTypeOK, Statuses
<1>4. Kept
  BY <1>1, <1>2 DEF Kept, Visible, Usable
<1>5. QED BY <1>1, <1>2, <1>3, <1>4 DEF Alive, Usable, Wrote, Visible

LEMMA CommitKeeps ==
    ASSUME DbTypeOK, NEW h \in Conns, Commit(h)
    PROVE  /\ Alive /\ Kept /\ Wrote({}, h) /\ durable' = Visible(h) /\ status[h] # "dead"
           /\ \A g \in Conns \ {h} : status'[g] = status[g]
           /\ status[h] # "unused" /\ status'[h] = "idle"
<1>1. /\ status' = [status EXCEPT ![h] = "idle"] /\ status[h] \in {"idle", "intrans", "aborted"}
      /\ pending' = [pending EXCEPT ![h] = {}] /\ durable' = durable \union pending[h]
      /\ UNCHANGED <<inBlock, saved>>
  BY DEF Commit
<1>2. /\ status'[h] = "idle" /\ pending'[h] = {}
      /\ \A g \in Conns \ {h} : status'[g] = status[g] /\ pending'[g] = pending[g]
  BY <1>1 DEF DbTypeOK
<1>3. DbTypeOK'
  BY <1>1, <1>2 DEF DbTypeOK, Statuses
<1>4. Kept
  BY <1>1, <1>2 DEF Kept, Visible
<1>5. QED BY <1>1, <1>2, <1>3, <1>4 DEF Alive, Usable, Wrote, Visible

LEMMA EnterKeeps ==
    ASSUME DbTypeOK, NEW h \in Conns, EnterBlock(h)
    PROVE  Alive /\ Kept /\ Wrote({}, h) /\ status'[h] = "intrans" /\ UNCHANGED <<pending, durable>>
<1>1. /\ status' = [status EXCEPT ![h] = "intrans"] /\ Usable(h)
      /\ inBlock' = inBlock \union {h} /\ saved' = pending[h] /\ UNCHANGED <<pending, durable>>
  BY DEF EnterBlock
<1>2. status'[h] = "intrans" /\ \A g \in Conns \ {h} : status'[g] = status[g]
  BY <1>1 DEF DbTypeOK
<1>3. DbTypeOK'
  BY <1>1, <1>2 DEF DbTypeOK, Statuses
<1>4. Kept
  BY <1>1, <1>2 DEF Kept, Visible, Usable
<1>5. QED BY <1>1, <1>2, <1>3, <1>4 DEF Alive, Usable, Wrote

LEMMA LeaveKeeps ==
    ASSUME DbTypeOK, NEW h \in Conns, NEW o \in BOOLEAN, LeaveBlock(h, o)
    PROVE  Alive /\ Kept /\ Wrote({}, h)
<1>1. CASE o
  <2>1. /\ status' = [status EXCEPT ![h] = "idle"] /\ status[h] \in {"intrans", "aborted"}
        /\ pending' = [pending EXCEPT ![h] = {}] /\ durable' = durable \union pending[h]
        /\ inBlock' = inBlock \ {h} /\ saved' = {}
    BY <1>1 DEF LeaveBlock
  <2>2. /\ status'[h] = "idle" /\ pending'[h] = {}
        /\ \A g \in Conns \ {h} : status'[g] = status[g] /\ pending'[g] = pending[g]
    BY <2>1 DEF DbTypeOK
  <2>3. DbTypeOK'
    BY <2>1, <2>2 DEF DbTypeOK, Statuses
  <2>4. Kept
    BY <2>1, <2>2 DEF Kept, Visible
  <2>5. QED BY <2>1, <2>2, <2>3, <2>4 DEF Alive, Wrote
<1>2. CASE ~o
  BY <1>2 DEF LeaveBlock, Alive, DbTypeOK, Kept, Wrote, Visible
<1>3. QED BY <1>1, <1>2

LEMMA PruneKeeps ==
    ASSUME DbTypeOK, NEW h \in Conns, Prune(h)
    PROVE  Alive /\ Kept /\ Wrote({}, h) /\ UNCHANGED durable
<1>1. /\ status' = [status EXCEPT ![h] = "dead"] /\ status[h] \notin {"unused", "dead"}
      /\ pending' = [pending EXCEPT ![h] = {}] /\ UNCHANGED <<inBlock, saved, durable>>
  BY DEF Prune
<1>2. /\ status'[h] = "dead" /\ pending'[h] = {}
      /\ \A g \in Conns \ {h} : status'[g] = status[g] /\ pending'[g] = pending[g]
  BY <1>1 DEF DbTypeOK
<1>3. DbTypeOK'
  BY <1>1, <1>2 DEF DbTypeOK, Statuses
<1>4. Kept
  BY <1>1, <1>2 DEF Kept, Visible
<1>5. QED BY <1>1, <1>2, <1>3, <1>4 DEF Alive, Usable, Wrote

LEMMA SameKeeps ==
    ASSUME DbTypeOK, UNCHANGED <<status, pending, durable>>, inBlock' \in SUBSET Conns,
           saved' \in SUBSET Rows
    PROVE  Alive /\ Kept /\ \A h : Wrote({}, h)
BY DEF Alive, DbTypeOK, Kept, Wrote, Visible

\* A rollback of the block of a dead connection: there is nothing left to lose.
LEMMA RollBackDead ==
    ASSUME DbTypeOK, NEW h \in Conns, NEW o \in BOOLEAN, RollBackBlock(h, o)
    PROVE  /\ DbTypeOK' /\ durable' = durable
           /\ \A g \in Conns \ {h} : status'[g] = status[g]
           /\ status'[h] # "unused"
           /\ status[h] = "dead" => Kept /\ Wrote({}, h) /\ status' = status
<1>1. /\ status' = [status EXCEPT ![h] = IF status[h] = "dead" THEN "dead"
                                        ELSE IF o THEN "idle" ELSE "intrans"]
      /\ pending' = [pending EXCEPT ![h] = IF o \/ status[h] = "dead" THEN {} ELSE saved]
      /\ inBlock' = inBlock \ {h} /\ saved' = {} /\ UNCHANGED durable
  BY DEF RollBackBlock
<1>2. /\ \A g \in Conns \ {h} : status'[g] = status[g] /\ pending'[g] = pending[g]
      /\ pending'[h] = IF o \/ status[h] = "dead" THEN {} ELSE saved
  BY <1>1 DEF DbTypeOK
<1>3. CASE status[h] = "dead"
  <2>0. pending'[h] = {}
    BY <1>2, <1>3
  <2>1. status' = [status EXCEPT ![h] = "dead"]
    BY <1>1, <1>3
  <2>2. status' = status /\ status'[h] = "dead"
    BY <1>3, <2>1 DEF DbTypeOK
  <2>3. DbTypeOK'
    BY <1>1, <1>2, <2>0, <2>2 DEF DbTypeOK, Statuses
  <2>4. Kept
    BY <1>1, <1>2, <2>0, <2>2 DEF Kept, Visible
  <2>5. QED BY <1>1, <1>2, <2>0, <2>2, <2>3, <2>4 DEF Alive, Wrote
<1>4. CASE status[h] # "dead" /\ o
  <2>1. status' = [status EXCEPT ![h] = "idle"] /\ pending' = [pending EXCEPT ![h] = {}]
    BY <1>1, <1>4
  <2>2. status'[h] = "idle" /\ pending'[h] = {}
    BY <2>1 DEF DbTypeOK
  <2>3. QED BY <1>1, <1>2, <1>4, <2>1, <2>2 DEF DbTypeOK, Statuses
<1>5. CASE status[h] # "dead" /\ ~o
  <2>1. status' = [status EXCEPT ![h] = "intrans"] /\ pending' = [pending EXCEPT ![h] = saved]
    BY <1>1, <1>5
  <2>2. status'[h] = "intrans" /\ pending'[h] = saved
    BY <2>1 DEF DbTypeOK
  <2>3. QED BY <1>1, <1>2, <1>5, <2>1, <2>2 DEF DbTypeOK, Statuses
<1>6. QED BY <1>3, <1>4, <1>5

LEMMA RefuseTyped ==
    ASSUME DbTypeOK, NEW h \in Conns, Refuse(h)
    PROVE  /\ DbTypeOK' /\ durable' = durable
           /\ \A g \in Conns : status'[g] = "unused" <=> status[g] = "unused"
<1>1. /\ status' = [status EXCEPT ![h] = "aborted"] /\ Usable(h)
      /\ pending' = [pending EXCEPT ![h] = {}] /\ UNCHANGED <<inBlock, saved, durable>>
  BY DEF Refuse
<1>2. /\ status'[h] = "aborted" /\ pending'[h] = {}
      /\ \A g \in Conns \ {h} : status'[g] = status[g] /\ pending'[g] = pending[g]
  BY <1>1 DEF DbTypeOK
<1>3. QED BY <1>1, <1>2 DEF DbTypeOK, Statuses, Usable

LEMMA CloseTyped ==
    ASSUME DbTypeOK, CloseAllConns
    PROVE  /\ DbTypeOK' /\ durable' = durable
           /\ \A h \in Conns : status'[h] = "unused" /\ pending'[h] = {}
BY DEF DbTypeOK, CloseAllConns, Statuses

LEMMA ConnectKeeps ==
    ASSUME DbTypeOK, NEW h \in Conns, Connect(h)
    PROVE  /\ DbTypeOK' /\ Kept /\ Wrote({}, h) /\ status[h] = "unused" /\ status'[h] = "idle"
           /\ \A g \in Conns \ {h} : status'[g] = status[g]
<1>1. /\ status' = [status EXCEPT ![h] = "idle"] /\ status[h] = "unused"
      /\ UNCHANGED <<pending, inBlock, saved, durable>>
  BY DEF Connect, Fresh
<1>2. status'[h] = "idle" /\ \A g \in Conns \ {h} : status'[g] = status[g]
  BY <1>1 DEF DbTypeOK
<1>3. QED BY <1>1, <1>2 DEF DbTypeOK, Statuses, Kept, Wrote, Visible

LEMMA SameIsAlive == DbTypeOK /\ UNCHANGED db => Alive /\ Kept /\ \A h : Wrote({}, h)
BY DEF Alive, DbTypeOK, Kept, Wrote, Visible, db

LEMMA RefuseIsAlive == ASSUME DbTypeOK, NEW h \in Conns, Refuse(h) PROVE Alive
BY RefuseTyped DEF Alive

LEMMA RaisesIsAlive ==
    ASSUME DbTypeOK, done \in [Kinds -> Nat], NEW h \in Conns, Raises(h)
    PROVE  /\ Alive /\ done' \in [Kinds -> Nat] /\ done'.patches = done.patches
           /\ done'.refused = 0 => Kept /\ Wrote({}, h) /\ done.refused = 0
<1>1. CASE ExecuteRaises(h) /\ UNCHANGED done
  BY <1>1, SameIsAlive DEF ExecuteRaises
<1>2. CASE Refuse(h) /\ Happens("refused")
  <2>1. /\ "refused" \in Kinds /\ "patches" \in Kinds /\ done' \in [Kinds -> Nat]
        /\ done'["refused"] = done["refused"] + 1
        /\ \A j \in Kinds \ {"refused"} : done'[j] = done[j]
    BY <1>2, HappensTyped DEF Kinds
  <2>2. done["refused"] \in Nat
    BY <2>1
  <2>3. QED BY <1>2, <2>1, <2>2, RefuseIsAlive
<1>3. QED BY <1>1, <1>2 DEF Raises

-----------------------------------------------------------------------------
(* Types, hands and wake-ups, thread by thread. *)

LEMMA InitInv == Init => IInv
<1> SUFFICES ASSUME Init PROVE IInv
  OBVIOUS
<1>1. 1 \in Conns
  BY ConnsAssumption DEF Conns
<1>2. DbTypeOK
  BY DEF Init, DbInit, DbTypeOK, Statuses
<1>3. TypeOK
  <2>1. queue \in Seq(Posts) /\ handed \in [Events -> Nat] /\ done \in [Kinds -> Nat]
    BY DEF Init
  <2>2. conn \in Conns /\ store \in Conns /\ scon \in Conns
    BY <1>1 DEF Init
  <2>3. QED BY <1>2, <2>1, <2>2 DEF Init, TypeOK, FlagsOK, PointsOK, ItemsOK, TickPoints
<1>4. InHand /\ Woken
  BY DEF Init, DbInit, InHand, Woken, Handling, Up, TickPoints
<1>5. Clean
  BY DEF Init, DbInit, Clean, NoneAborted, AckedDurable, PostSafe, EventSafe, SettingsSafe, Up,
         TickPoints
<1>6. QED BY <1>3, <1>4, <1>5 DEF IInv

LEMMA ProcessTyped ==
    ASSUME TypeOK, InHand, Woken,
           Start \/ Crash \/ ProcessExits \/ RequestShutdown \/ ShutdownWakes \/ PruneSome
           \/ PutPost \/ PostWakes
    PROVE  TypeOK' /\ InHand' /\ Woken'
<1> USE DEF tick, scanner, patch, queues, handles, config, journal
<1>0. 1 \in Conns
  BY ConnsAssumption DEF Conns
<1>1. CASE Start
  <2>1. DbTypeOK' /\ \A h \in Conns \ {1} : status'[h] = status[h]
    BY <1>0, <1>1 DEF Start, TypeOK, DbTypeOK, Statuses
  <2>2. memory' \in Patches \union {0}
    BY <1>1, NewestTyped DEF Start
  <2>3. TypeOK'
    BY <1>0, <1>1, <2>1, <2>2 DEF Start, TypeOK, FlagsOK, PointsOK, ItemsOK, TickPoints
  <2>4. ppc # "idle" => FALSE
    BY <1>0, <1>1 DEF Start, InHand
  <2>5. InHand' /\ Woken'
    <3>1. /\ tpc' = "probe" /\ store' = 1
          /\ UNCHANGED <<cur, spc, ev, ppc, done, wake, shutdown, kpc, queue, squeue>>
      BY <1>1 DEF Start
    <3>2. InHand'
      BY <2>4, <3>1 DEF InHand, Handling
    <3>3. ~shutdown
      BY <1>1 DEF Start, Woken
    <3>4. QED BY <3>1, <3>2, <3>3 DEF Woken
  <2>6. QED BY <2>3, <2>5
<1>2. CASE Crash \/ ProcessExits
  <2>1. Ends /\ done' \in [Kinds -> Nat]
    BY <1>2, HappensTyped DEF Crash, ProcessExits, TypeOK, FlagsOK, PointsOK, ItemsOK, Kinds
  <2>2. DbTypeOK' /\ \A h \in Conns : status'[h] = "unused"
    BY <2>1, CloseTyped DEF Ends, TypeOK, FlagsOK, PointsOK, ItemsOK
  <2>3. TypeOK'
    <3>1. FlagsOK' /\ PointsOK'
      BY <2>1 DEF Ends, Threads, FlagsOK, PointsOK
    <3>2. ItemsOK'
      BY <1>0, <2>1 DEF Ends, Threads, TypeOK, ItemsOK
    <3>3. QED BY <2>2, <3>1, <3>2 DEF TypeOK
  <2>4. InHand'
    BY <2>1, <2>2 DEF Ends, Threads, InHand, Handling
  <2>5. Woken'
    BY <2>1 DEF Ends, Threads, Woken, Up, TickPoints
  <2>6. QED BY <2>3, <2>4, <2>5
<1>3. CASE RequestShutdown
  <2>1. done' \in [Kinds -> Nat] /\ done'.patches = done.patches
    BY <1>3, HappensTyped DEF RequestShutdown, TypeOK, FlagsOK, PointsOK, ItemsOK, Kinds
  <2>2. Alive /\ status' = status
    BY <1>3, SameIsAlive DEF RequestShutdown, TypeOK, db
  <2>3. TypeOK'
    BY <1>3, <2>1, <2>2 DEF RequestShutdown, TypeOK, FlagsOK, PointsOK, ItemsOK, Alive
  <2>4. InHand' /\ Woken'
    BY <1>3, <2>1, <2>2 DEF RequestShutdown, InHand, Woken, Up, TickPoints
  <2>5. QED BY <2>3, <2>4
<1>4. CASE ShutdownWakes \/ PostWakes
  <2>1. Alive /\ status' = status
    BY <1>4, SameIsAlive DEF ShutdownWakes, PostWakes, TypeOK, db
  <2>2. TypeOK' /\ InHand'
    BY <1>4, <2>1 DEF ShutdownWakes, PostWakes, TypeOK, FlagsOK, PointsOK, ItemsOK, InHand, Alive
  <2>3. Woken'
    BY <1>4 DEF ShutdownWakes, PostWakes, Woken
  <2>4. QED BY <2>2, <2>3
<1>5. CASE PruneSome
  <2>1. done' \in [Kinds -> Nat] /\ done'.patches = done.patches
    BY <1>5, HappensTyped DEF PruneSome, TypeOK, FlagsOK, PointsOK, ItemsOK, Kinds
  <2>2. Alive
    BY <1>5, PruneKeeps DEF PruneSome, TypeOK, FlagsOK, PointsOK, ItemsOK
  <2>3. QED BY <1>5, <2>1, <2>2 DEF PruneSome, TypeOK, FlagsOK, PointsOK, ItemsOK, InHand, Woken,
                                    Alive, Up
<1>6. CASE PutPost
  <2>1. /\ done' \in [Kinds -> Nat] /\ done'.patches = done.patches
        /\ done'.posts = done.posts + 1 /\ done.posts < MaxPosts /\ done.posts \in Nat
    BY <1>6, HappensTyped DEF PutPost, TypeOK, FlagsOK, PointsOK, ItemsOK, Kinds
  <2>2. done'.posts \in Posts
    BY <2>1, IntakeAssumption DEF Posts
  <2>3. Alive /\ status' = status
    BY <1>6, SameIsAlive DEF PutPost, TypeOK, db
  <2>4. queue' \in Seq(Posts)
    BY <1>6, <2>2 DEF PutPost, TypeOK, FlagsOK, PointsOK, ItemsOK
  <2>5. QED BY <1>6, <2>1, <2>3, <2>4 DEF PutPost, TypeOK, FlagsOK, PointsOK, ItemsOK, InHand,
                                          Woken, Alive, Up
<1>7. QED BY <1>1, <1>2, <1>3, <1>4, <1>5, <1>6

LEMMA TickTyped ==
    ASSUME TypeOK, InHand, Woken, Tick PROVE TypeOK' /\ InHand' /\ Woken'
<1> USE DEF tick, scanner, patch, queues, handles, config, journal, TickRest
<1>1. CASE Probe
  <2>1. done' \in [Kinds -> Nat] /\ done'.patches = done.patches
    BY <1>1, HappensTyped DEF Probe, TypeOK, FlagsOK, PointsOK, ItemsOK, Kinds
  <2>2. /\ DbTypeOK' /\ conn' \in Conns
        /\ \A h \in Conns : status[h] # "unused" => status'[h] # "unused"
    <3>1. CASE Execute(conn, {}) /\ UNCHANGED conn
      BY <3>1, ExecuteKeeps DEF TypeOK, ItemsOK, Alive
    <3>2. ASSUME NEW h \in Conns, Connect(h), conn' = h 
          PROVE  /\ DbTypeOK' /\ conn' \in Conns
                 /\ \A g \in Conns : status[g] # "unused" => status'[g] # "unused"
      BY <3>2, ConnectKeeps DEF TypeOK, FlagsOK, PointsOK, ItemsOK
    <3>3. CASE UNCHANGED <<db, conn>>
      BY <3>3, SameIsAlive DEF TypeOK, FlagsOK, PointsOK, ItemsOK, Alive
    <3>4. QED BY <1>1, <3>1, <3>2, <3>3 DEF Probe
  <2>3. TypeOK'
    BY <1>1, <2>1, <2>2 DEF Probe, TypeOK, FlagsOK, PointsOK, ItemsOK, TickPoints
  <2>4. InHand'
    BY <1>1, <2>1, <2>2 DEF Probe, TypeOK, FlagsOK, PointsOK, ItemsOK, InHand, Handling
  <2>5. Woken'
    BY <1>1 DEF Probe, Woken, Up, TickPoints
  <2>6. QED BY <2>3, <2>4, <2>5
<1>2. CASE TakePost
  <2>1. Alive /\ status' = status
    BY <1>2, SameIsAlive DEF TakePost, TypeOK, db
  <2>2. Head(queue) \in Posts /\ Tail(queue) \in Seq(Posts)
    BY <1>2 DEF TakePost, TypeOK, FlagsOK, PointsOK, ItemsOK
  <2>3. QED BY <1>2, <2>1, <2>2 DEF TakePost, TypeOK, FlagsOK, PointsOK, ItemsOK, InHand, Woken,
                                    Alive, Handling, Up, TickPoints
<1>3. CASE QueueEmpty \/ DrainSignals \/ WaitReturns \/ Clear
  <2>1. Alive /\ status' = status
    BY <1>3, SameIsAlive DEF QueueEmpty, DrainSignals, WaitReturns, Clear, TypeOK, db
  <2>2. TypeOK'
    BY <1>3, <2>1 DEF QueueEmpty, DrainSignals, WaitReturns, Clear, TypeOK, FlagsOK, PointsOK,
                      ItemsOK, Alive, TickPoints
  <2>3. InHand'
    BY <1>3, <2>1 DEF QueueEmpty, DrainSignals, WaitReturns, Clear, InHand, Handling
  <2>4. Woken'
    <3>1. CASE QueueEmpty
      BY <3>1 DEF QueueEmpty, Woken, Up, TickPoints
    <3>2. CASE DrainSignals
      BY <3>2 DEF DrainSignals, Woken, Up, TickPoints
    <3>3. CASE WaitReturns
      BY <3>3 DEF WaitReturns, Woken, Up, TickPoints
    <3>4. CASE Clear
      BY <3>4 DEF Clear, Woken, Up, TickPoints
    <3>5. QED BY <1>3, <3>1, <3>2, <3>3, <3>4
  <2>5. QED BY <2>2, <2>3, <2>4
<1>4. ASSUME NEW from \in Handling, NEW to \in Handling \union {"drain"}, TickGoes(from, to),
             Alive, acked' \in SUBSET Rows, done' \in [Kinds -> Nat], done'.patches = done.patches
      PROVE  TypeOK' /\ InHand' /\ Woken'
  BY <1>4 DEF TickGoes, TypeOK, FlagsOK, PointsOK, ItemsOK, InHand, Woken, Alive, Handling, Up,
              TickPoints
<1>5. ASSUME NEW from \in Handling, NEW to \in Handling, NEW k \in {"post", "signal", "crash"},
             WriteRow(from, to, k)
      PROVE  TypeOK' /\ InHand' /\ Woken'
  <2>1. {Row(k, cur)} \in SUBSET Rows
    BY <1>5, RowsTyped DEF WriteRow, TickGoes, InHand
  <2>2. Alive
    BY <1>5, <2>1, ExecuteKeeps DEF WriteRow, TypeOK, FlagsOK, PointsOK, ItemsOK
  <2>3. QED BY <1>4, <1>5, <2>2 DEF WriteRow, TypeOK, FlagsOK, PointsOK, ItemsOK
<1>6. ASSUME NEW from \in Handling, NEW to \in Handling \union {"drain"},
             NEW k \in {"post", "signal", "crash"}, CommitRow(from, to, k)
      PROVE  TypeOK' /\ InHand' /\ Woken'
  <2>1. Row(k, cur) \in Rows
    BY <1>6, RowsTyped DEF CommitRow, TickGoes, InHand
  <2>2. Alive
    BY <1>6, CommitKeeps DEF CommitRow, TypeOK, FlagsOK, PointsOK, ItemsOK
  <2>3. QED BY <1>4, <1>6, <2>1, <2>2 DEF CommitRow, TypeOK, FlagsOK, PointsOK, ItemsOK
<1>7. CASE HandlerRaises
  <2>1. ASSUME NEW from \in Handling, TickGoes(from, "crashExec"), UNCHANGED acked,
               Raises(conn) \/ (CommitRaises(conn) /\ UNCHANGED done)
        PROVE  TypeOK' /\ InHand' /\ Woken'
    <3>1. Alive /\ done' \in [Kinds -> Nat] /\ done'.patches = done.patches
      BY <2>1, RaisesIsAlive, SameIsAlive DEF TypeOK, ItemsOK, CommitRaises
    <3>2. "crashExec" \in Handling /\ acked' \in SUBSET Rows
      BY <2>1 DEF Handling, TypeOK, ItemsOK
    <3>3. QED BY <1>4, <2>1, <3>1, <3>2
  <2>2. /\ "rawExec" \in Handling /\ "rawCommit" \in Handling
        /\ "signalExec" \in Handling /\ "signalCommit" \in Handling
    BY DEF Handling
  <2>3. QED BY <1>7, <2>1, <2>2 DEF HandlerRaises
<1>8. CASE SignalWithoutPost
  <2>1. Alive
    BY <1>8, RefuseIsAlive DEF SignalWithoutPost, TypeOK, FlagsOK, PointsOK, ItemsOK
  <2>2. QED BY <1>4, <1>8, <2>1 DEF SignalWithoutPost, Handling, TypeOK, FlagsOK, PointsOK, ItemsOK
<1>9. CASE CrashLogRaises
  <2>1. Alive /\ done' \in [Kinds -> Nat] /\ done'.patches = done.patches
    BY <1>9, RaisesIsAlive, SameIsAlive DEF CrashLogRaises, TypeOK, FlagsOK, PointsOK, ItemsOK,
                                            CommitRaises
  <2>2. QED BY <1>9, <2>1 DEF CrashLogRaises, TypeOK, FlagsOK, PointsOK, ItemsOK, InHand, Woken,
                              Alive, Handling, Up, TickPoints
<1>10. CASE HandlePost
  <2>1. CASE WritePost \/ WriteSignal \/ WriteCrash
    BY <1>5, <2>1 DEF WritePost, WriteSignal, WriteCrash, Handling
  <2>2. CASE \E actionable \in BOOLEAN :
                 CommitRow("rawCommit", IF actionable THEN "signalExec" ELSE "drain", "post")
    BY <1>6, <2>2 DEF Handling
  <2>3. CASE \/ CommitRow("signalCommit", "drain", "signal")
             \/ CommitRow("crashCommit", "drain", "crash")
    BY <1>6, <2>3 DEF Handling
  <2>4. QED BY <1>2, <1>3, <1>7, <1>8, <1>9, <1>10, <2>1, <2>2, <2>3 DEF HandlePost
<1>11. QED BY <1>1, <1>3, <1>10 DEF Tick

LEMMA ScannerTyped ==
    ASSUME TypeOK, InHand, Woken, (\E e \in Events : ScanInserts(e)) \/ ScanRefused \/ ScanGoesOn
    PROVE  TypeOK' /\ InHand' /\ Woken'
<1> USE DEF tick, scanner, patch, queues, handles, config, journal, ScannerRest
<1>1. ASSUME Alive, UNCHANGED <<ScannerRest>>, done' \in [Kinds -> Nat],
             done'.patches = done.patches, PointsOK', FlagsOK',
             ev' \in Events \union {0}, scon' \in Conns, spc' # "idle" => ev' \in Events,
             squeue' \in SUBSET Events, acked' \in SUBSET Rows, handed' \in [Events -> Nat],
             wake' \/ (wake' = wake /\ (spc' = "wake" \/ (squeue' = squeue /\ spc # "wake")))
      PROVE  TypeOK' /\ InHand' /\ Woken'
  <2>1. TypeOK'
    BY <1>1 DEF TypeOK, ItemsOK, Alive
  <2>2. InHand'
    BY <1>1 DEF InHand, Alive, TypeOK, ItemsOK
  <2>3. Woken'
    BY <1>1 DEF Woken, Up
  <2>4. QED BY <2>1, <2>2, <2>3
<1>2. ASSUME NEW e \in Events, ScanInserts(e) PROVE TypeOK' /\ InHand' /\ Woken'
  <2>1. {Row("event", e)} \in SUBSET Rows /\ conn \in Conns
    BY RowsTyped DEF TypeOK, ItemsOK
  <2>2. Alive
    BY <1>2, <2>1, ExecuteKeeps DEF ScanInserts, TypeOK
  <2>3. done' \in [Kinds -> Nat] /\ done'.patches = done.patches
    BY <1>2, HappensTyped DEF ScanInserts, TypeOK, ItemsOK, Kinds
  <2>4. PointsOK' /\ FlagsOK'
    BY <1>2 DEF ScanInserts, TypeOK, PointsOK, FlagsOK
  <2>5. /\ UNCHANGED ScannerRest /\ UNCHANGED <<squeue, wake, acked, handed>> /\ ev' = e
        /\ scon' = conn /\ spc = "idle"
    BY <1>2 DEF ScanInserts
  <2>6. QED BY <1>1, <2>1, <2>2, <2>3, <2>4, <2>5 DEF TypeOK, ItemsOK
<1>3. CASE ScanRefused
  <2>1. Alive
    BY <1>3, RefuseIsAlive DEF ScanRefused, TypeOK, ItemsOK
  <2>2. done' \in [Kinds -> Nat] /\ done'.patches = done.patches
    BY <1>3, HappensTyped DEF ScanRefused, TypeOK, ItemsOK, Kinds
  <2>3. PointsOK' /\ FlagsOK'
    BY <1>3 DEF ScanRefused, TypeOK, PointsOK, FlagsOK
  <2>4. /\ UNCHANGED ScannerRest /\ UNCHANGED <<squeue, wake, acked, handed, ev, scon, spc>>
        /\ spc = "idle"
    BY <1>3 DEF ScanRefused
  <2>5. QED BY <1>1, <2>1, <2>2, <2>3, <2>4 DEF TypeOK, ItemsOK
<1>4. CASE ScanCommits
  <2>1. ev \in Events /\ Row("event", ev) \in Rows
    BY <1>4, RowsTyped DEF ScanCommits, InHand
  <2>2. Alive
    BY <1>4, CommitKeeps DEF ScanCommits, TypeOK, ItemsOK
  <2>3. PointsOK' /\ FlagsOK'
    BY <1>4 DEF ScanCommits, TypeOK, PointsOK, FlagsOK
  <2>4. /\ UNCHANGED ScannerRest /\ UNCHANGED <<squeue, wake, handed, ev, scon, done>>
        /\ spc = "commit" /\ acked' \in SUBSET Rows
    BY <1>4, <2>1 DEF ScanCommits, TypeOK, ItemsOK
  <2>5. QED BY <1>1, <2>1, <2>2, <2>3, <2>4 DEF TypeOK, ItemsOK
<1>5. CASE ScanCommitRaises
  <2>1. Alive
    BY <1>5, SameIsAlive DEF ScanCommitRaises, CommitRaises, TypeOK
  <2>2. PointsOK' /\ FlagsOK'
    BY <1>5 DEF ScanCommitRaises, TypeOK, PointsOK, FlagsOK
  <2>3. /\ UNCHANGED ScannerRest /\ UNCHANGED <<squeue, wake, acked, handed, ev, scon, done>>
        /\ spc = "commit" /\ spc' = "idle"
    BY <1>5 DEF ScanCommitRaises
  <2>4. QED BY <1>1, <2>1, <2>2, <2>3 DEF TypeOK, ItemsOK
<1>6. CASE PutSignal \/ SignalWakes
  <2>1. Alive
    BY <1>6, SameIsAlive DEF PutSignal, SignalWakes, TypeOK
  <2>2. PointsOK' /\ FlagsOK'
    BY <1>6 DEF PutSignal, SignalWakes, TypeOK, PointsOK, FlagsOK
  <2>3. ev \in Events
    BY <1>6 DEF PutSignal, SignalWakes, InHand
  <2>4. /\ UNCHANGED ScannerRest /\ UNCHANGED <<acked, ev, scon, done>>
        /\ wake' \/ (wake' = wake /\ spc' = "wake")
        /\ squeue' \in SUBSET Events /\ handed' \in [Events -> Nat]
    BY <1>6, <2>3 DEF PutSignal, SignalWakes, TypeOK, ItemsOK
  <2>5. QED BY <1>1, <2>1, <2>2, <2>3, <2>4 DEF TypeOK, ItemsOK
<1>7. QED BY <1>2, <1>3, <1>4, <1>5, <1>6 DEF ScanGoesOn

LEMMA PatchTyped ==
    ASSUME TypeOK, InHand, Woken, PatchEnters \/ PatchRefused \/ PatchGoesOn
    PROVE  TypeOK' /\ InHand' /\ Woken'
<1> USE DEF tick, scanner, patch, queues, handles, config, journal, PatchRest
<1>1. ASSUME Alive, UNCHANGED PatchRest, done' \in [Kinds -> Nat], PointsOK', FlagsOK',
             memory' \in Patches \union {0},
             ppc' # "idle" => done'.patches \in Patches /\ status[store] # "unused"
      PROVE  TypeOK' /\ InHand' /\ Woken'
  <2>1. TypeOK'
    BY <1>1 DEF TypeOK, ItemsOK, Alive
  <2>2. InHand'
    BY <1>1 DEF InHand, Alive, TypeOK, ItemsOK
  <2>3. Woken'
    BY <1>1 DEF Woken, Up
  <2>4. QED BY <2>1, <2>2, <2>3
<1>2. store \in Conns /\ DbTypeOK /\ done \in [Kinds -> Nat]
  BY DEF TypeOK, ItemsOK
<1>3. CASE PatchEnters \/ PatchRefused
  <2>1. /\ done' \in [Kinds -> Nat] /\ done'.patches = done.patches + 1
        /\ done.patches \in Nat /\ done.patches < MaxPatches
    BY <1>2, <1>3, HappensTyped DEF PatchEnters, PatchRefused, Kinds
  <2>2. done'.patches \in Patches
    BY <2>1, IntakeAssumption DEF Patches
  <2>3. Alive
    BY <1>2, <1>3, EnterKeeps, SameIsAlive DEF PatchEnters, PatchRefused, ExecuteRaises
  <2>4. ppc' # "idle" => status[store] # "unused"
    BY <1>3 DEF PatchEnters, PatchRefused, EnterBlock, Usable
  <2>5. PointsOK' /\ FlagsOK'
    BY <1>3 DEF PatchEnters, PatchRefused, TypeOK, PointsOK, FlagsOK
  <2>6. UNCHANGED PatchRest /\ UNCHANGED memory
    BY <1>3 DEF PatchEnters, PatchRefused
  <2>7. QED BY <1>1, <2>1, <2>2, <2>3, <2>4, <2>5, <2>6 DEF TypeOK, ItemsOK
<1>4. CASE PatchGoesOn
  <2>1. /\ ppc # "idle" /\ done.patches \in Patches /\ status[store] # "unused"
        /\ UNCHANGED PatchRest
    BY <1>4 DEF PatchGoesOn, PatchUpdates, PatchUpdateRaises, PatchLeaves, PatchReloads,
                PatchReloadRaises, InHand
  <2>2. PointsOK' /\ FlagsOK'
    BY <1>4 DEF PatchGoesOn, PatchUpdates, PatchUpdateRaises, PatchLeaves, PatchReloads,
                PatchReloadRaises, TypeOK, PointsOK, FlagsOK
  <2>3. memory' \in Patches \union {0}
    BY <1>4, NewestTyped DEF PatchGoesOn, PatchUpdates, PatchUpdateRaises, PatchLeaves,
                             PatchReloads, PatchReloadRaises, TypeOK, ItemsOK
  <2>4. done' \in [Kinds -> Nat] /\ done'.patches = done.patches
    <3>1. CASE Happens("refused")
      BY <1>2, <3>1, HappensTyped DEF Kinds
    <3>2. CASE UNCHANGED done
      BY <1>2, <3>2
    <3>3. QED BY <1>4, <3>1, <3>2 DEF PatchGoesOn, PatchUpdates, PatchUpdateRaises, PatchLeaves,
                                      PatchReloads, PatchReloadRaises, Raises
  <2>5. Alive
    <3>1. CASE PatchUpdates \/ PatchReloads
      <4>1. Execute(store, {Row("config", done.patches)}) \/ Execute(store, {})
        BY <3>1 DEF PatchUpdates, PatchReloads
      <4>2. {Row("config", done.patches)} \in SUBSET Rows
        BY <2>1, RowsTyped
      <4>3. QED BY <1>2, <4>1, <4>2, ExecuteKeeps
    <3>2. CASE PatchUpdateRaises
      <4>1. outer \in BOOLEAN /\ RollBackBlock(store, outer)
        BY <3>2 DEF PatchUpdateRaises, TypeOK, FlagsOK
      <4>2. QED BY <1>2, <2>1, <4>1, RollBackDead DEF Alive
    <3>3. CASE PatchLeaves
      <4>1. outer \in BOOLEAN /\ (LeaveBlock(store, outer) \/ LeaveBlockRaises(store, outer))
        BY <3>3 DEF PatchLeaves, TypeOK, FlagsOK
      <4>2. CASE LeaveBlock(store, outer)
        BY <1>2, <4>1, <4>2, LeaveKeeps
      <4>3. CASE LeaveBlockRaises(store, outer)
        BY <1>2, <4>3, SameKeeps DEF LeaveBlockRaises, DbTypeOK
      <4>4. QED BY <4>1, <4>2, <4>3
    <3>4. CASE PatchReloadRaises
      BY <1>2, <3>4, RaisesIsAlive DEF PatchReloadRaises
    <3>5. QED BY <1>4, <3>1, <3>2, <3>3, <3>4 DEF PatchGoesOn
  <2>6. QED BY <1>1, <2>1, <2>2, <2>3, <2>4, <2>5
<1>5. QED BY <1>3, <1>4

LEMMA NextTyped ==
    ASSUME TypeOK, InHand, Woken, [Next]_vars PROVE TypeOK' /\ InHand' /\ Woken'
<1>1. CASE UNCHANGED vars
  <2> USE DEF vars, tick, scanner, patch, queues, handles, config, journal
  <2>1. Alive /\ status' = status
    BY <1>1, SameIsAlive DEF TypeOK, db
  <2>2. TypeOK'
    BY <1>1, <2>1 DEF TypeOK, FlagsOK, PointsOK, ItemsOK, Alive
  <2>3. InHand' /\ Woken'
    BY <1>1, <2>1 DEF InHand, Woken, Up
  <2>4. QED BY <2>2, <2>3
<1>2. CASE Next
  BY <1>2, ProcessTyped, TickTyped, ScannerTyped, PatchTyped DEF Next
<1>3. QED BY <1>1, <1>2

-----------------------------------------------------------------------------
(* What a step keeps of the clean state. *)

LEMMA KeptIsSafe ==
    ASSUME Kept, NEW h \in Conns, NEW row, Safe(row, h) PROVE Safe(row, h)'
BY DEF Kept, Safe

LEMMA PostKept ==
    ASSUME Kept, conn \in Conns, PostSafe, UNCHANGED <<tpc, cur, conn>>, acked \subseteq acked'
    PROVE  PostSafe'
<1>1. \A row : Safe(row, conn) => Safe(row, conn)'
  BY KeptIsSafe
<1>2. \A row : Safe(row, conn)' <=>
                   (row \in durable' \union pending'[conn] \/ status'[conn] = "dead")
  BY DEF Safe, Visible
<1>3. \A row : Safe(row, conn) <=>
                   (row \in durable \union pending[conn] \/ status[conn] = "dead")
  BY DEF Safe, Visible
<1>4. QED BY <1>1, <1>2, <1>3 DEF PostSafe

LEMMA EventKept ==
    ASSUME Kept, scon \in Conns, EventSafe, UNCHANGED <<scanner, handed>>, acked \subseteq acked'
    PROVE  EventSafe'
<1>1. \A row : Safe(row, scon) => Safe(row, scon)'
  BY KeptIsSafe DEF scanner
<1>2. QED BY <1>1 DEF EventSafe, scanner

\* Nobody but the PATCH writes settings, and what it has not answered it may write.
LEMMA SettingsKept ==
    ASSUME Kept, NEW rows, NEW h \in Conns, Wrote(rows, h), store \in Conns, SettingsSafe,
           \A n \in Patches : Row("config", n) \notin rows,
           UNCHANGED <<store, memory, ppc>>, Up' => Up
    PROVE  SettingsSafe'
<1>1. \A g \in Conns, n \in Patches : Row("config", n) \in pending'[g] => g = store
  BY DEF Wrote, SettingsSafe
<1>2. ASSUME status'[store] # "dead"
      PROVE  Newest(Visible(store)') = Newest(Visible(store))
  <2>1. \A n \in Patches : Row("config", n) \in Visible(store)' =>
                               Row("config", n) \in Visible(store)
    BY DEF Wrote, SettingsSafe, Visible
  <2>2. Visible(store) \subseteq Visible(store)'
    BY <1>2 DEF Kept
  <2>3. QED BY <2>1, <2>2, NewestSame
<1>3. status'[store] # "dead" => status[store] # "dead"
  BY DEF Kept
<1>4. QED BY <1>1, <1>2, <1>3 DEF SettingsSafe

LEMMA SettingsBusy ==
    ASSUME NEW rows, Wrote(rows, store), SettingsSafe, store' = store,
           ppc' # "idle" \/ status'[store] = "dead"
    PROVE  SettingsSafe'
BY DEF Wrote, SettingsSafe

LEMMA CleanKept ==
    ASSUME Clean, Kept, acked' \subseteq acked \union durable', PostSafe', EventSafe',
           SettingsSafe'
    PROVE  Clean'
BY DEF Clean, Kept, NoneAborted, AckedDurable

\* A connection that can take no statement is dead: nothing was refused.
LEMMA UnusableIsDead ==
    ASSUME TypeOK, InHand, Clean, ppc # "idle", ~Usable(store) PROVE status[store] = "dead"
BY DEF TypeOK, DbTypeOK, ItemsOK, InHand, Clean, NoneAborted, Usable, Statuses

LEMMA RefusedStays ==
    ASSUME TypeOK, [Next]_vars, done'.refused = 0
    PROVE  /\ done.refused = 0 /\ ~Happens("refused")
<1>1. done \in [Kinds -> Nat] /\ "refused" \in Kinds
  BY DEF TypeOK, ItemsOK, Kinds
<1>2. ~Happens("refused")
  <2> SUFFICES ASSUME Happens("refused") PROVE FALSE
    OBVIOUS
  <2>1. done'["refused"] = done["refused"] + 1 /\ done["refused"] \in Nat
    BY <1>1, HappensTyped
  <2>2. QED BY <2>1
<1> SUFFICES done.refused = 0
  BY <1>2
<1>3. \A k \in Kinds : Happens(k) => done.refused = 0
  BY <1>1, <1>2, HappensTyped
<1>4. ASSUME UNCHANGED done PROVE done.refused = 0
  BY <1>4
<1>5. {"posts", "events", "patches", "refused", "pruned", "unreachable", "ended"} = Kinds
  BY DEF Kinds
<1>6. CASE UNCHANGED vars
  BY <1>4, <1>6 DEF vars
<1>7. CASE Tick
  <2>1. CASE Probe
    BY <1>3, <1>4, <1>5, <2>1 DEF Probe
  <2>2. CASE HandlePost
    <3>1. CASE WritePost \/ WriteSignal \/ WriteCrash \/ TakePost \/ QueueEmpty \/ SignalWithoutPost
      BY <1>4, <3>1 DEF WritePost, WriteSignal, WriteCrash, WriteRow, TakePost, QueueEmpty,
                        SignalWithoutPost
    <3>2. CASE HandlerRaises \/ CrashLogRaises
      BY <1>2, <1>4, <3>2 DEF HandlerRaises, CrashLogRaises, Raises
    <3>3. ASSUME NEW from, NEW to, NEW k, CommitRow(from, to, k) PROVE done.refused = 0
      BY <1>4, <3>3 DEF CommitRow
    <3>4. QED BY <2>2, <3>1, <3>2, <3>3 DEF HandlePost
  <2>3. CASE DrainSignals \/ WaitReturns \/ Clear
    BY <1>4, <2>3 DEF DrainSignals, WaitReturns, Clear
  <2>4. QED BY <1>7, <2>1, <2>2, <2>3 DEF Tick
<1>8. CASE (\E e \in Events : ScanInserts(e)) \/ ScanRefused \/ ScanGoesOn
  BY <1>3, <1>4, <1>5, <1>8 DEF ScanInserts, ScanRefused, ScanGoesOn, ScanCommits, ScanCommitRaises,
                                PutSignal, SignalWakes
<1>9. CASE PatchEnters \/ PatchRefused \/ PatchGoesOn
  BY <1>2, <1>3, <1>4, <1>5, <1>9 DEF PatchEnters, PatchRefused, PatchGoesOn, PatchUpdates,
       PatchUpdateRaises, PatchLeaves, PatchReloads, PatchReloadRaises, Raises
<1>10. CASE Start \/ Crash \/ ProcessExits \/ RequestShutdown \/ ShutdownWakes \/ PruneSome
            \/ PutPost \/ PostWakes
  BY <1>3, <1>4, <1>5, <1>10 DEF Start, Crash, ProcessExits, RequestShutdown, ShutdownWakes,
       PruneSome, PutPost, PostWakes
<1>11. QED BY <1>6, <1>7, <1>8, <1>9, <1>10 DEF Next

LEMMA OtherRows ==
    ASSUME NEW k \in {"post", "signal", "crash", "event"}, NEW n
    PROVE  \A m \in Patches : Row("config", m) \notin {Row(k, n)}
BY RowKinds

-----------------------------------------------------------------------------
(* The clean state, thread by thread. *)

\* A step that leaves the database, or only prunes it, and the journal alone.
LEMMA CleanRests ==
    ASSUME TypeOK, Clean, Kept, NEW h \in Conns, Wrote({}, h), UNCHANGED <<conn, store, memory>>,
           UNCHANGED <<scanner, ppc, acked, handed>>, Up' => Up,
           UNCHANGED <<tpc, cur>>
             \/ tpc' \notin {"rawCommit", "signalExec", "signalCommit", "crashCommit"}
    PROVE  Clean'
<1>1. /\ store \in Conns /\ conn \in Conns /\ scon \in Conns /\ PostSafe /\ EventSafe
      /\ SettingsSafe /\ acked' = acked /\ handed' = handed
  BY DEF TypeOK, ItemsOK, Clean
<1>2. SettingsSafe'
  BY <1>1, SettingsKept
<1>3. EventSafe'
  BY <1>1, EventKept
<1>4. PostSafe'
  BY <1>1, PostKept DEF PostSafe
<1>5. QED BY <1>1, <1>2, <1>3, <1>4, CleanKept

LEMMA ProcessClean ==
    ASSUME TypeOK, InHand, Clean,
           Start \/ Crash \/ ProcessExits \/ RequestShutdown \/ ShutdownWakes \/ PruneSome
           \/ PutPost \/ PostWakes
    PROVE  Clean'
<1> USE DEF tick, patch, queues, handles, config, journal
<1>0. DbTypeOK /\ 1 \in Conns
  BY ConnsAssumption DEF TypeOK, Conns
<1>1. CASE Start
  <2>1. \A h \in Conns : status[h] = "unused" /\ pending[h] = {}
    BY <1>0, <1>1 DEF Start, InHand, DbTypeOK
  <2>2. /\ status'[1] = "intrans" /\ \A h \in Conns \ {1} : status'[h] = "unused"
        /\ UNCHANGED <<pending, durable, acked, handed, scanner>> /\ tpc' = "probe" /\ store' = 1
        /\ memory' = Newest(durable)
    BY <1>0, <1>1, <2>1 DEF Start, DbTypeOK
  <2>3. Kept
    BY <2>1, <2>2 DEF Kept, Visible
  <2>4. PostSafe'
    BY <2>2 DEF PostSafe
  <2>5. EventSafe'
    BY <2>2, <2>3, EventKept DEF TypeOK, ItemsOK, Clean
  <2>6. SettingsSafe'
    <3>1. durable' \union pending'[1] = durable
      BY <1>0, <2>1, <2>2
    <3>2. \A h \in Conns : pending'[h] = {}
      BY <2>1, <2>2
    <3>3. QED BY <2>2, <3>1, <3>2 DEF SettingsSafe, Visible
  <2>7. QED BY <2>2, <2>3, <2>4, <2>5, <2>6, CleanKept
<1>2. CASE Crash \/ ProcessExits
  <2>1. Ends
    BY <1>2 DEF Crash, ProcessExits
  <2>2. durable' = durable /\ \A h \in Conns : status'[h] = "unused" /\ pending'[h] = {}
    BY <1>0, <2>1, CloseTyped DEF Ends
  <2>3. tpc' = "down" /\ spc' = "idle" /\ UNCHANGED <<acked, handed>>
    BY <2>1 DEF Ends, Threads
  <2>4. NoneAborted' /\ AckedDurable'
    BY <2>2, <2>3 DEF NoneAborted, AckedDurable, Clean
  <2>5. PostSafe' /\ EventSafe'
    BY <2>3 DEF PostSafe, EventSafe, Clean
  <2>6. SettingsSafe'
    BY <2>2, <2>3 DEF SettingsSafe, Up, TickPoints
  <2>7. QED BY <2>4, <2>5, <2>6 DEF Clean
<1>3. CASE RequestShutdown \/ ShutdownWakes \/ PutPost \/ PostWakes
  <2>1. Kept /\ Wrote({}, 1)
    BY <1>0, <1>3, SameIsAlive DEF RequestShutdown, ShutdownWakes, PutPost, PostWakes
  <2>2. UNCHANGED <<conn, store, memory, ppc, acked, handed, tpc, cur>> /\ UNCHANGED scanner
    BY <1>3 DEF RequestShutdown, ShutdownWakes, PutPost, PostWakes
  <2>3. Up' => Up
    BY <2>2 DEF Up
  <2>4. QED BY <1>0, <2>1, <2>2, <2>3, CleanRests
<1>4. CASE PruneSome
  <2>1. PICK h \in Conns : Prune(h)
    BY <1>4 DEF PruneSome
  <2>2. Kept /\ Wrote({}, h)
    BY <1>0, <2>1, PruneKeeps
  <2>3. UNCHANGED <<conn, store, memory, ppc, acked, handed, tpc, cur>> /\ UNCHANGED scanner
    BY <1>4 DEF PruneSome
  <2>4. Up' => Up
    BY <2>3 DEF Up
  <2>5. QED BY <2>2, <2>3, <2>4, CleanRests
<1>5. QED BY <1>1, <1>2, <1>3, <1>4

LEMMA TickClean ==
    ASSUME TypeOK, InHand, Clean, done'.refused = 0, ~Happens("refused"), Tick PROVE Clean'
<1> USE DEF tick, patch, queues, handles, config, journal, TickRest
<1>0. /\ DbTypeOK /\ conn \in Conns /\ store \in Conns /\ scon \in Conns
      /\ AckedDurable /\ PostSafe /\ EventSafe /\ SettingsSafe
  BY DEF TypeOK, ItemsOK, Clean
<1>1. CASE Probe
  <2>1. /\ UNCHANGED <<store, memory, ppc, acked, handed>> /\ UNCHANGED scanner
        /\ tpc = "probe" /\ tpc' = "drain"
    BY <1>1 DEF Probe
  <2>2. \E h \in Conns : Kept /\ Wrote({}, h)
    <3>1. CASE Execute(conn, {})
      BY <1>0, <3>1, ExecuteKeeps
    <3>2. CASE \E h \in Conns : Connect(h)
      BY <1>0, <3>2, ConnectKeeps
    <3>3. CASE UNCHANGED db
      BY <1>0, <3>3, SameIsAlive
    <3>4. QED BY <1>1, <3>1, <3>2, <3>3 DEF Probe
  <2>3. Up
    BY <2>1 DEF Up, TickPoints
  <2>4. SettingsSafe' /\ EventSafe' /\ PostSafe'
    BY <1>0, <2>1, <2>2, <2>3, SettingsKept, EventKept DEF PostSafe
  <2>5. QED BY <2>1, <2>2, <2>4, CleanKept
<1>2. CASE TakePost \/ QueueEmpty \/ DrainSignals \/ WaitReturns \/ Clear
  <2>1. Kept /\ Wrote({}, conn)
    BY <1>0, <1>2, SameIsAlive DEF TakePost, QueueEmpty, DrainSignals, WaitReturns, Clear
  <2>2. /\ UNCHANGED <<conn, store, memory, ppc, acked, handed>> /\ UNCHANGED scanner
        /\ tpc' \notin {"rawCommit", "signalExec", "signalCommit", "crashCommit"}
        /\ tpc \in TickPoints
    BY <1>2 DEF TakePost, QueueEmpty, DrainSignals, WaitReturns, Clear, TickPoints
  <2>3. Up' => Up
    BY <2>2 DEF Up
  <2>4. QED BY <1>0, <2>1, <2>2, <2>3, CleanRests
<1>3. ASSUME NEW from \in Handling, NEW to, TickGoes(from, to), Kept,
             NEW rows, Wrote(rows, conn), \A n \in Patches : Row("config", n) \notin rows,
             acked \subseteq acked', acked' \subseteq acked \union durable', PostSafe'
      PROVE  Clean'
  <2>1. UNCHANGED <<conn, store, memory, ppc, handed>> /\ UNCHANGED scanner /\ tpc = from
    BY <1>3 DEF TickGoes
  <2>2. Up
    BY <1>3, <2>1 DEF Up, Handling, TickPoints
  <2>3. SettingsSafe' /\ EventSafe'
    BY <1>0, <1>3, <2>1, <2>2, SettingsKept, EventKept
  <2>4. QED BY <1>3, <2>3, CleanKept
<1>4. ASSUME NEW from \in Handling, NEW k \in {"post", "signal", "crash"},
             NEW to, to = (CASE k = "post" -> "rawCommit" [] k = "signal" -> "signalCommit"
                             [] k = "crash" -> "crashCommit"),
             WriteRow(from, to, k)
      PROVE  Clean'
  <2>1. cur \in Posts /\ tpc' = to /\ UNCHANGED <<cur, conn>> /\ UNCHANGED acked
        /\ TickGoes(from, to)
    BY <1>4 DEF WriteRow, TickGoes, InHand
  <2>2. Row(k, cur) \in Rows
    BY <2>1, RowsTyped
  <2>3. Kept /\ Wrote({Row(k, cur)}, conn) /\ Row(k, cur) \in Visible(conn)'
    <3>1. {Row(k, cur)} \in SUBSET Rows /\ Execute(conn, {Row(k, cur)})
      BY <1>4, <2>2 DEF WriteRow
    <3>2. Kept /\ Wrote({Row(k, cur)}, conn) /\ Visible(conn)' = Visible(conn) \union {Row(k, cur)}
      BY <1>0, <2>1, <3>1, ExecuteKeeps
    <3>3. QED BY <3>2
  <2>4. PostSafe'
    BY <1>4, <2>1, <2>3 DEF PostSafe, Safe, Visible
  <2>5. QED BY <1>3, <1>4, <2>1, <2>3, <2>4, OtherRows
<1>5. ASSUME NEW k \in {"post", "signal", "crash"}, NEW from, NEW to,
             from = (CASE k = "post" -> "rawCommit" [] k = "signal" -> "signalCommit"
                       [] k = "crash" -> "crashCommit"),
             to = "drain" \/ (to = "signalExec" /\ k = "post"), CommitRow(from, to, k)
      PROVE  Clean'
  <2>1. /\ TickGoes(from, to) /\ tpc = from /\ tpc' = to /\ cur' = cur
        /\ acked' = acked \union {Row(k, cur)} /\ from \in Handling
    BY <1>5 DEF CommitRow, TickGoes, Handling
  <2>2. Kept /\ Wrote({}, conn) /\ durable' = Visible(conn) /\ status[conn] # "dead"
    BY <1>0, <1>5, CommitKeeps DEF CommitRow
  <2>3. Row(k, cur) \in durable'
    BY <1>0, <1>5, <2>1, <2>2 DEF PostSafe, Safe
  <2>4. PostSafe'
    BY <1>5, <2>1 DEF PostSafe
  <2>5. QED BY <1>3, <2>1, <2>2, <2>3, <2>4
<1>6. ASSUME NEW from \in Handling, TickGoes(from, "crashExec"), UNCHANGED acked,
             Raises(conn) \/ (CommitRaises(conn) /\ UNCHANGED done)
      PROVE  Clean'
  <2>1. Kept /\ Wrote({}, conn)
    BY <1>0, <1>6, SameIsAlive DEF Raises, ExecuteRaises, CommitRaises
  <2>2. PostSafe'
    BY <1>6 DEF PostSafe, TickGoes
  <2>3. QED BY <1>3, <1>6, <2>1, <2>2
<1>7. ~SignalWithoutPost
  BY <1>0 DEF SignalWithoutPost, TickGoes, PostSafe, AckedDurable, Visible
<1>8. CASE CrashLogRaises
  <2>1. Kept /\ Wrote({}, conn)
    BY <1>0, <1>8, SameIsAlive DEF CrashLogRaises, Raises, ExecuteRaises, CommitRaises
  <2>2. /\ UNCHANGED <<conn, store, memory, ppc, acked, handed>> /\ UNCHANGED scanner
        /\ tpc' = "signals" /\ Up
    BY <1>8 DEF CrashLogRaises, Up, TickPoints
  <2>3. QED BY <1>0, <2>1, <2>2, CleanRests
<1>9. CASE HandlePost
  <2>1. CASE WritePost \/ WriteSignal \/ WriteCrash
    BY <1>4, <2>1 DEF WritePost, WriteSignal, WriteCrash, Handling
  <2>2. CASE \E actionable \in BOOLEAN :
                 CommitRow("rawCommit", IF actionable THEN "signalExec" ELSE "drain", "post")
    BY <1>5, <2>2
  <2>3. CASE \/ CommitRow("signalCommit", "drain", "signal")
             \/ CommitRow("crashCommit", "drain", "crash")
    BY <1>5, <2>3
  <2>4. CASE HandlerRaises
    <3>1. /\ "rawExec" \in Handling /\ "rawCommit" \in Handling
          /\ "signalExec" \in Handling /\ "signalCommit" \in Handling
      BY DEF Handling
    <3>2. QED BY <1>6, <2>4, <3>1 DEF HandlerRaises
  <2>5. QED BY <1>2, <1>7, <1>8, <1>9, <2>1, <2>2, <2>3, <2>4 DEF HandlePost
<1>10. QED BY <1>1, <1>2, <1>9 DEF Tick

LEMMA ScannerClean ==
    ASSUME TypeOK, InHand, Clean, done'.refused = 0, ~Happens("refused"),
           (\E e \in Events : ScanInserts(e)) \/ ScanRefused \/ ScanGoesOn
    PROVE  Clean'
<1> USE DEF tick, patch, queues, handles, config, journal, ScannerRest
<1>0. /\ DbTypeOK /\ conn \in Conns /\ store \in Conns /\ scon \in Conns
      /\ AckedDurable /\ PostSafe /\ EventSafe /\ SettingsSafe /\ handed \in [Events -> Nat]
  BY DEF TypeOK, ItemsOK, Clean
<1>1. ASSUME UNCHANGED ScannerRest, Kept, NEW rows, NEW h \in Conns, Wrote(rows, h),
             \A n \in Patches : Row("config", n) \notin rows,
             acked \subseteq acked', acked' \subseteq acked \union durable', EventSafe'
      PROVE  Clean'
  <2>1. UNCHANGED <<conn, store, memory, ppc, tpc, cur>> /\ (Up' => Up)
    BY <1>1 DEF Up
  <2>2. SettingsSafe' /\ PostSafe'
    BY <1>0, <1>1, <2>1, SettingsKept, PostKept
  <2>3. QED BY <1>1, <2>2, CleanKept
<1>2. ASSUME NEW e \in Events, ScanInserts(e) PROVE Clean'
  <2>1. {Row("event", e)} \in SUBSET Rows /\ Execute(conn, {Row("event", e)})
    BY <1>2, RowsTyped DEF ScanInserts
  <2>2. /\ Kept /\ Wrote({Row("event", e)}, conn)
        /\ \A h : h = conn => Visible(h)' = Visible(conn) \union {Row("event", e)}
    BY <1>0, <2>1, ExecuteKeeps
  <2>3. /\ spc' = "commit" /\ ev' = e /\ scon' = conn /\ UNCHANGED <<acked, handed>>
        /\ isNew' = (Row("event", e) \notin Visible(conn)) /\ UNCHANGED ScannerRest
    BY <1>2 DEF ScanInserts
  <2>4. Safe(Row("event", ev), scon)'
    BY <2>2, <2>3 DEF Safe, Visible
  <2>5. isNew' => handed[e] = 0
    <3>1. Row("event", e) \notin Visible(conn) => Row("event", e) \notin acked
      BY <1>0 DEF AckedDurable, Visible
    <3>2. handed[e] \in Nat /\ (handed[e] > 0 => Row("event", e) \in acked)
      BY <1>0 DEF EventSafe
    <3>3. isNew' => Row("event", e) \notin Visible(conn)
      BY <2>3, Zenon
    <3>4. handed[e] # 0 => Row("event", e) \in Visible(conn)
      BY <3>1, <3>2
    <3>5. QED BY <3>3, <3>4, Zenon
  <2>6. EventSafe'
    BY <1>0, <2>3, <2>4, <2>5 DEF EventSafe
  <2>7. QED BY <1>0, <1>1, <2>2, <2>3, <2>6, OtherRows
<1>3. ~ScanRefused
  BY DEF ScanRefused
<1>4. CASE ScanCommits
  <2>1. Kept /\ Wrote({}, scon) /\ durable' = Visible(scon) /\ status[scon] # "dead"
    BY <1>0, <1>4, CommitKeeps DEF ScanCommits
  <2>2. Row("event", ev) \in durable' /\ (isNew => handed[ev] = 0)
    BY <1>0, <1>4, <2>1 DEF ScanCommits, EventSafe, Safe
  <2>3. /\ UNCHANGED ScannerRest /\ UNCHANGED <<handed, ev>> /\ acked \subseteq acked'
        /\ acked' \subseteq acked \union {Row("event", ev)}
        /\ spc' = "idle" \/ (spc' = "put" /\ isNew /\ Row("event", ev) \in acked')
    BY <1>4 DEF ScanCommits
  <2>4. EventSafe'
    BY <1>0, <2>2, <2>3 DEF EventSafe
  <2>5. QED BY <1>0, <1>1, <2>1, <2>2, <2>3, <2>4
<1>5. CASE ScanCommitRaises \/ SignalWakes
  <2>1. Kept /\ Wrote({}, conn)
    BY <1>0, <1>5, SameIsAlive DEF ScanCommitRaises, SignalWakes, CommitRaises
  <2>2. UNCHANGED ScannerRest /\ UNCHANGED <<acked, handed>> /\ spc' = "idle"
    BY <1>5 DEF ScanCommitRaises, SignalWakes
  <2>3. EventSafe'
    BY <1>0, <2>2 DEF EventSafe
  <2>4. QED BY <1>0, <1>1, <2>1, <2>2, <2>3
<1>6. CASE PutSignal
  <2>1. Kept /\ Wrote({}, conn)
    BY <1>0, <1>6, SameIsAlive DEF PutSignal
  <2>2. UNCHANGED ScannerRest /\ UNCHANGED <<acked>> /\ spc' = "wake" /\ spc = "put"
    BY <1>6 DEF PutSignal
  <2>3. ev \in Events /\ handed[ev] = 0 /\ Row("event", ev) \in acked
    BY <1>0, <2>2 DEF InHand, EventSafe
  <2>4. handed'[ev] = 1 /\ \A e \in Events \ {ev} : handed'[e] = handed[e]
    BY <1>0, <1>6, <2>3 DEF PutSignal
  <2>5. EventSafe'
    BY <1>0, <2>2, <2>3, <2>4 DEF EventSafe
  <2>6. QED BY <1>0, <1>1, <2>1, <2>2, <2>5
<1>7. QED BY <1>2, <1>3, <1>4, <1>5, <1>6 DEF ScanGoesOn

LEMMA PatchClean ==
    ASSUME TypeOK, InHand, Clean, done'.refused = 0, ~Happens("refused"),
           PatchEnters \/ PatchRefused \/ PatchGoesOn
    PROVE  Clean'
<1> USE DEF tick, patch, queues, handles, config, journal, PatchRest
<1>0. /\ DbTypeOK /\ conn \in Conns /\ store \in Conns /\ scon \in Conns
      /\ AckedDurable /\ PostSafe /\ EventSafe /\ SettingsSafe /\ outer \in BOOLEAN
  BY DEF TypeOK, ItemsOK, FlagsOK, Clean
<1>1. ASSUME UNCHANGED PatchRest, Kept, SettingsSafe' PROVE Clean'
  <2>1. UNCHANGED <<conn, tpc, cur, acked, handed>> /\ UNCHANGED scanner
    BY <1>1
  <2>2. EventSafe' /\ PostSafe'
    BY <1>0, <1>1, <2>1, EventKept, PostKept
  <2>3. QED BY <1>1, <2>1, <2>2, CleanKept
<1>2. CASE PatchEnters
  <2>1. Kept /\ Wrote({}, store)
    BY <1>0, <1>2, EnterKeeps DEF PatchEnters
  <2>2. UNCHANGED PatchRest /\ ppc' # "idle"
    BY <1>2 DEF PatchEnters
  <2>3. QED BY <1>0, <1>1, <2>1, <2>2, SettingsBusy
<1>3. CASE PatchRefused
  <2>1. Kept /\ Wrote({}, store)
    BY <1>0, <1>3, SameIsAlive DEF PatchRefused, ExecuteRaises
  <2>2. UNCHANGED PatchRest /\ UNCHANGED <<ppc, memory>> /\ (Up' => Up)
    BY <1>3 DEF PatchRefused, Up
  <2>3. QED BY <1>0, <1>1, <2>1, <2>2, SettingsKept
<1>4. CASE PatchUpdates
  <2>1. Row("config", done.patches) \in Rows
    BY <1>4, RowsTyped DEF PatchUpdates, InHand
  <2>2. Kept /\ Wrote({Row("config", done.patches)}, store)
    BY <1>0, <1>4, <2>1, ExecuteKeeps DEF PatchUpdates
  <2>3. UNCHANGED PatchRest /\ ppc' # "idle"
    BY <1>4 DEF PatchUpdates
  <2>4. QED BY <1>0, <1>1, <2>2, <2>3, SettingsBusy
<1>5. CASE PatchUpdateRaises
  <2>1. status[store] = "dead" /\ RollBackBlock(store, outer) /\ UNCHANGED PatchRest
    BY <1>5, UnusableIsDead DEF PatchUpdateRaises
  <2>2. Kept /\ Wrote({}, store) /\ status'[store] = "dead"
    BY <1>0, <2>1, RollBackDead
  <2>3. QED BY <1>0, <1>1, <2>1, <2>2, SettingsBusy
<1>6. CASE PatchLeaves
  <2>1. UNCHANGED PatchRest
    BY <1>6 DEF PatchLeaves
  <2>2. CASE LeaveBlock(store, outer) /\ ppc' = "reload"
    <3>1. Kept /\ Wrote({}, store)
      BY <1>0, <2>2, LeaveKeeps
    <3>2. QED BY <1>0, <1>1, <2>1, <2>2, <3>1, SettingsBusy
  <2>3. CASE LeaveBlockRaises(store, outer)
    <3>1. Kept /\ Wrote({}, store)
      BY <1>0, <2>3, SameKeeps DEF LeaveBlockRaises, DbTypeOK
    <3>2. status'[store] = "dead"
      BY <1>0, <2>3 DEF LeaveBlockRaises, Clean, NoneAborted
    <3>3. QED BY <1>0, <1>1, <2>1, <3>1, <3>2, SettingsBusy
  <2>4. QED BY <1>6, <2>2, <2>3 DEF PatchLeaves
<1>7. CASE PatchReloads
  <2>1. /\ Kept /\ Wrote({}, store) /\ durable' = durable
        /\ \A h : h = store => Visible(h)' = Visible(store) \union {}
    BY <1>0, <1>7, ExecuteKeeps DEF PatchReloads
  <2>2. UNCHANGED PatchRest /\ memory' = Newest(Visible(store)) /\ store' = store
    BY <1>7 DEF PatchReloads
  <2>3. durable' \union pending'[store] = durable \union pending[store]
    BY <2>1, <2>2 DEF Visible
  <2>4. \A h \in Conns, n \in Patches : Row("config", n) \in pending'[h] => h = store
    BY <1>0, <2>1 DEF Wrote, SettingsSafe
  <2>5. SettingsSafe'
    BY <2>2, <2>3, <2>4 DEF SettingsSafe, Visible
  <2>6. QED BY <1>1, <2>1, <2>2, <2>5
<1>8. CASE PatchReloadRaises
  <2>1. status[store] = "dead" /\ UNCHANGED db /\ UNCHANGED PatchRest
    BY <1>8, UnusableIsDead DEF PatchReloadRaises, Raises, ExecuteRaises
  <2>2. Kept /\ Wrote({}, store) /\ status'[store] = "dead"
    BY <1>0, <2>1, SameIsAlive DEF db
  <2>3. QED BY <1>0, <1>1, <2>1, <2>2, SettingsBusy
<1>9. QED BY <1>2, <1>3, <1>4, <1>5, <1>6, <1>7, <1>8 DEF PatchGoesOn

-----------------------------------------------------------------------------
(* The theorems. *)

LEMMA Inductive == Spec => []IInv
<1>1. IInv /\ [Next]_vars => IInv'
  <2> SUFFICES ASSUME IInv, [Next]_vars PROVE IInv'
    OBVIOUS
  <2>1. TypeOK /\ InHand /\ Woken
    BY DEF IInv
  <2>2. TypeOK' /\ InHand' /\ Woken'
    BY <2>1, NextTyped
  <2>3. ASSUME done'.refused = 0 PROVE Clean'
    <3>1. done.refused = 0 /\ ~Happens("refused")
      BY <2>1, <2>3, RefusedStays
    <3>2. Clean
      BY <3>1 DEF IInv
    <3>3. CASE UNCHANGED vars
      <4>1. Kept /\ Wrote({}, conn) /\ conn \in Conns
        BY <2>1, <3>3, SameIsAlive DEF vars, TypeOK, ItemsOK
      <4>2. /\ UNCHANGED <<conn, store, memory, ppc, acked, handed, tpc, cur>>
            /\ UNCHANGED scanner /\ (Up' => Up)
        BY <3>3 DEF vars, handles, config, tick, patch, journal, Up
      <4>3. QED BY <2>1, <3>2, <4>1, <4>2, CleanRests
    <3>4. CASE Next
      BY <2>1, <2>3, <3>1, <3>2, <3>4, ProcessClean, TickClean, ScannerClean, PatchClean DEF Next
    <3>5. QED BY <3>3, <3>4
  <2>4. QED BY <2>2, <2>3 DEF IInv
<1>2. QED BY InitInv, <1>1, PTL DEF Spec

\* Every thread, fault, restart and request keeps the queues, the settings and the
\* connections well typed.
THEOREM TypeCorrect == Spec => []TypeOK
<1>1. IInv => TypeOK
  BY DEF IInv
<1>2. QED BY Inductive, <1>1, PTL

\* As long as the server refuses no statement, what the tick and the scanner act on is
\* committed, whichever connection dies and whoever commits (journal.py, db.py).
THEOREM LoggedFirst == Spec => []LogBeforeAct
<1>1. IInv => LogBeforeAct
  BY DEF IInv, Clean, AckedDurable, LogBeforeAct
<1>2. QED BY Inductive, <1>1, PTL

\* And the scanner hands an event to the tick loop once, over reconnects and restarts
\* (insert_scanner_event, _record_scanner_event).
THEOREM HandedAtMostOnce == Spec => []HandedOnce
<1>1. IInv => HandedOnce
  BY DEF IInv, Clean, EventSafe, HandedOnce
<1>2. QED BY Inductive, <1>1, PTL

\* No wake-up is lost between the puts of three threads and the loop's wait and clear
\* (run, _on_x_post, request_shutdown).
THEOREM WakesForWork == Spec => []NeverSleepsOnWork
<1>1. IInv => NeverSleepsOnWork
  BY DEF IInv, Woken, NeverSleepsOnWork, Up, TickPoints
<1>2. QED BY Inductive, <1>1, PTL

\* The settings in memory are those of the store's transaction, through every other
\* thread's commit and every failed PATCH (BotConfigStore.update, reload).
THEOREM SettingsAreCurrent == Spec => []SettingsMatchRow
<1>1. IInv => SettingsMatchRow
  BY DEF IInv, Clean, SettingsSafe, SettingsMatchRow
<1>2. QED BY Inductive, <1>1, PTL
=============================================================================
