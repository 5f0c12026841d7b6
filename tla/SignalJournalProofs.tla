------------------------- MODULE SignalJournalProofs -------------------------
(***************************************************************************)
(* What SignalJournal writes about a position, for every number of         *)
(* signals, every set of quotes, offsets and intervals, and every number   *)
(* of failing inserts and deaths of the process.                           *)
(***************************************************************************)
EXTENDS SignalJournal, TLAPS

(* The inductive invariant. *)

Booking == {"closeSnapshot", "closeRow", "externalSnapshot", "externalRow"}
Entering == {"entrySnapshot", "markTaken"}

\* A loop visits positions of the book, and the one a handler is at is in the book and
\* behind the loop.
LoopsOverOpen == pc \in Loops \union Booking => todo \subseteq open
CurrentOpen ==
    /\ pc \in Booking => cur \in open \ todo
    /\ pc \in Entering => cur \in open

\* Only a signal that was seen leaves a trace, and the book holds unbooked ones.
TraceIsParsed ==
    \A s \in Signals :
        s \in open \union taken \/ trades[s].written \/ monitored[s] # Never =>
            parsedAt[s] # Never
OpenIsUnbooked == \A s \in open : ~trades[s].written

PositionsInv == LoopsOverOpen /\ CurrentOpen /\ TraceIsParsed /\ OpenIsUnbooked

\* g and l are the extremes of the quotes in S, and of the zero it starts from.
Covers(S, g, l) ==
    /\ g \in S \union {0} /\ l \in S \union {0}
    /\ \A x \in S \union {0} : l <= x /\ x <= g

TakenHasEntry == taken \subseteq entries /\ (pc = "markTaken" => cur \in entries)
RowAfterExit ==
    /\ pc \in {"closeRow", "externalRow"} => exits[cur] > 0
    /\ \A s \in Signals : trades[s].written => exits[s] > 0
OpenIsCovered == \A s \in open : Covers(seen[s], tracked[s].gain, tracked[s].loss)
RowIsCovered ==
    \A s \in Signals : trades[s].written => Covers(seen[s], trades[s].gain, trades[s].loss)

RowsInv == TakenHasEntry /\ RowAfterExit /\ OpenIsCovered /\ RowIsCovered

\* The schedule of an open position counts from its last row, and in the loop over
\* what is due, everything else is not due.
LastIsMonitored ==
    /\ pc = "down" => \A s \in Signals : monitored[s] = Never
    /\ \A s \in open : tracked[s].last # Never
                       /\ (monitored[s] = Never \/ tracked[s].last = monitored[s])
DueNow ==
    pc = "snapshots" =>
        /\ \A s \in todo : now - tracked[s].last >= Interval
        /\ \A s \in open \ (missed \union todo) : now - tracked[s].last < Interval

ScheduleInv == LastIsMonitored /\ DueNow

IInv == TypeOK /\ PositionsInv /\ RowsInv /\ ScheduleInv

-----------------------------------------------------------------------------
(* Operators. *)

LEMMA MaxOfTwo ==
    ASSUME NEW a \in Int, NEW b \in Int
    PROVE  /\ Max({a, b}) \in {a, b} /\ Max({a, b}) >= a /\ Max({a, b}) >= b
           /\ Min({a, b}) \in {a, b} /\ Min({a, b}) <= a /\ Min({a, b}) <= b
<1>1. \E x \in {a, b} : \A y \in {a, b} : x >= y
  <2>1. CASE a >= b
    BY <2>1
  <2>2. CASE b >= a
    BY <2>2
  <2>3. QED BY <2>1, <2>2
<1>2. \E x \in {a, b} : \A y \in {a, b} : x <= y
  <2>1. CASE a >= b
    BY <2>1
  <2>2. CASE b >= a
    BY <2>2
  <2>3. QED BY <2>1, <2>2
<1>3. QED BY <1>1, <1>2 DEF Max, Min

\* What covers a set of integers is its maximum and its minimum.
LEMMA CoversIsMaxMin ==
    ASSUME NEW S \in SUBSET Int, NEW g, NEW l, Covers(S, g, l)
    PROVE  g = Max(S \union {0}) /\ l = Min(S \union {0})
<1> DEFINE T == S \union {0}
<1>1. g \in T /\ (\A x \in T : g >= x) /\ l \in T /\ (\A x \in T : l <= x) /\ T \subseteq Int
  BY DEF Covers
<1>2. \A x \in T : (\A y \in T : x >= y) => x = g
  <2> TAKE x \in T
  <2> HAVE \A y \in T : x >= y
  <2>1. x >= g /\ g >= x /\ x \in Int /\ g \in Int
    BY <1>1
  <2>2. QED BY <2>1
<1>3. \A x \in T : (\A y \in T : x <= y) => x = l
  <2> TAKE x \in T
  <2> HAVE \A y \in T : x <= y
  <2>1. x <= l /\ l <= x /\ x \in Int /\ l \in Int
    BY <1>1
  <2>2. QED BY <2>1
<1> HIDE DEF T
<1>4. Max(T) = g
  BY <1>1, <1>2 DEF Max
<1>5. Min(T) = l
  BY <1>1, <1>3 DEF Min
<1>6. QED BY <1>4, <1>5 DEF T

LEMMA CoversOneMore ==
    ASSUME NEW S \in SUBSET Int, NEW g \in Int, NEW l \in Int, NEW x \in Int, Covers(S, g, l)
    PROVE  Covers(S \union {x}, Max({g, x}), Min({l, x}))
<1>1. /\ Max({g, x}) \in {g, x} /\ Max({g, x}) >= g /\ Max({g, x}) >= x
      /\ Min({l, x}) \in {l, x} /\ Min({l, x}) <= l /\ Min({l, x}) <= x
  BY MaxOfTwo
<1>2. Max({g, x}) \in Int /\ Min({l, x}) \in Int
  BY <1>1
<1>3. QED BY <1>1, <1>2 DEF Covers

\* What a record of the scheduler holds after one of its fields was set.
LEMMA LastSet ==
    ASSUME NEW S, NEW A, NEW f \in [S -> [last : A, gain : Int, loss : Int]], NEW s \in S,
           NEW x \in A, NEW h, h = [f EXCEPT ![s].last = x]
    PROVE  /\ h \in [S -> [last : A, gain : Int, loss : Int]]
           /\ h[s].last = x /\ h[s].gain = f[s].gain /\ h[s].loss = f[s].loss
           /\ \A r \in S \ {s} : h[r] = f[r]
OBVIOUS

LEMMA VerdictTyped == ASSUME NEW m PROVE Verdict(m) \in Reasons
<1>1. ASSUME ~Accepted(m) PROVE FailedGate(m) \in Reasons
  <2> DEFINE failed == {i \in DOMAIN Gates(m) : ~Gates(m)[i].passed}
  <2>1. DOMAIN Gates(m) = 1 .. 6 /\ \A i \in 1 .. 6 : Gates(m)[i].name \in Reasons
    <3> DEFINE G == Gates(m)
    <3>1. DOMAIN G = 1 .. 6
      BY DEF Gates
    <3>2. /\ G[1].name = "time_age" /\ G[2].name = "market_open"
          /\ G[3].name = "contract_exists" /\ G[4].name = "spread"
          /\ G[5].name = "price_deviation" /\ G[6].name = "entry_iv"
      BY DEF Gates
    <3> HIDE DEF G
    <3>3. \A i \in 1 .. 6 : G[i].name \in Reasons
      <4> TAKE i \in 1 .. 6
      <4>1. i = 1 \/ i = 2 \/ i = 3 \/ i = 4 \/ i = 5 \/ i = 6
        OBVIOUS
      <4>2. QED BY <3>2, <4>1 DEF Reasons
    <3>4. QED BY <3>1, <3>3 DEF G
  <2>2. failed # {} /\ failed \subseteq 1 .. 6
    BY <1>1, <2>1 DEF Accepted
  <2> HIDE DEF failed
  <2>3. \E i \in failed : \A j \in failed : i <= j
    <3>0. failed \subseteq {1, 2, 3, 4, 5, 6}
      BY <2>2
    <3>1. 1 \in failed \/ 2 \in failed \/ 3 \in failed \/ 4 \in failed \/ 5 \in failed
          \/ 6 \in failed
      BY <2>2, <3>0
    <3>2. CASE 1 \in failed
      BY <2>2, <3>2
    <3>3. CASE 1 \notin failed /\ 2 \in failed
      BY <2>2, <3>3
    <3>4. CASE {1, 2} \intersect failed = {} /\ 3 \in failed
      BY <2>2, <3>4
    <3>5. CASE {1, 2, 3} \intersect failed = {} /\ 4 \in failed
      BY <2>2, <3>5
    <3>6. CASE {1, 2, 3, 4} \intersect failed = {} /\ 5 \in failed
      BY <2>2, <3>6
    <3>7. CASE {1, 2, 3, 4, 5} \intersect failed = {} /\ 6 \in failed
      BY <2>2, <3>7
    <3>8. QED BY <3>1, <3>2, <3>3, <3>4, <3>5, <3>6, <3>7
  <2>4. (CHOOSE i \in failed : \A j \in failed : i <= j) \in 1 .. 6
    BY <2>2, <2>3
  <2>5. QED BY <2>1, <2>4 DEF failed, FailedGate
<1>2. QED BY <1>1 DEF Verdict, Reasons

-----------------------------------------------------------------------------
(* Types. *)

LEMMA InitInv == Init => IInv
<1> SUFFICES ASSUME Init PROVE IInv
  OBVIOUS
<1>1. TypeOK
  <2>1. now \in Time /\ count \in 0 .. ReconcileEvery - 1
    <3>1. Horizon \in Nat /\ ReconcileEvery \in Nat \ {0}
      BY JournalAssumption
    <3>2. now = 0 /\ count = 0
      BY DEF Init
    <3>3. QED BY <3>1, <3>2 DEF Time
  <2>2. tracked \in [Signals -> [last : Time \union {Never}, gain : Int, loss : Int]]
    <3>1. Untracked \in [last : Time \union {Never}, gain : Int, loss : Int]
      BY DEF Untracked
    <3>2. QED BY <3>1 DEF Init
  <2>3. trades \in [Signals -> [gain : Int, loss : Int, written : BOOLEAN]]
    <3>1. NoRow \in [gain : Int, loss : Int, written : BOOLEAN]
      BY DEF NoRow, Never
    <3>2. QED BY <3>1 DEF Init
  <2>4. tracks \in [Signals -> [Offsets -> Time \union {Never}]]
    BY DEF Init
  <2>5. /\ verdict \in [Signals -> Reasons \union {"downstream"}]
        /\ exits \in [Signals -> Nat] /\ done \in [Kinds -> Nat]
        /\ seen \in [Signals -> SUBSET Gains]
    BY DEF Init, Reasons, Kinds
  <2>6. QED BY <2>1, <2>2, <2>3, <2>4, <2>5 DEF Init, TypeOK, PCs, Loops
<1>2. PositionsInv /\ RowsInv /\ ScheduleInv
  BY DEF Init, PositionsInv, LoopsOverOpen, CurrentOpen, TraceIsParsed, OpenIsUnbooked, RowsInv,
         TakenHasEntry, RowAfterExit, OpenIsCovered, RowIsCovered, ScheduleInv, LastIsMonitored,
         DueNow, NoRow, Never, Booking, Entering, Loops
<1>3. QED BY <1>1, <1>2 DEF IInv

LEMMA HappensTyped ==
    ASSUME TypeOK, NEW k \in Kinds, Happens(k) PROVE done' \in [Kinds -> Nat]
BY DEF TypeOK, Happens

LEMMA GainSeenTyped ==
    ASSUME TypeOK, NEW s \in Signals, NEW g \in Gains, GainSeen(s, g)
    PROVE  /\ tracked' \in [Signals -> [last : Time \union {Never}, gain : Int, loss : Int]]
           /\ seen' \in [Signals -> SUBSET Gains]
           /\ seen'[s] = seen[s] \union {g}
           /\ tracked'[s].last = tracked[s].last
           /\ tracked'[s].gain = Max({tracked[s].gain, g})
           /\ tracked'[s].loss = Min({tracked[s].loss, g})
           /\ \A r \in Signals \ {s} : tracked'[r] = tracked[r] /\ seen'[r] = seen[r]
<1> DEFINE A == Time \union {Never}
<1>1. tracked \in [Signals -> [last : A, gain : Int, loss : Int]]
  BY DEF TypeOK
<1>2. tracked' = [tracked EXCEPT ![s].gain = Max({tracked[s].gain, g}),
                                 ![s].loss = Min({tracked[s].loss, g})]
  BY DEF GainSeen
<1>3. g \in Int /\ tracked[s].gain \in Int /\ tracked[s].loss \in Int
  BY <1>1, JournalAssumption
<1>4. Max({tracked[s].gain, g}) \in Int /\ Min({tracked[s].loss, g}) \in Int
  BY <1>3, MaxOfTwo
<1>5. /\ seen' \in [Signals -> SUBSET Gains] /\ seen'[s] = seen[s] \union {g}
      /\ \A r \in Signals \ {s} : seen'[r] = seen[r]
  BY DEF GainSeen, TypeOK
<1> HIDE DEF A
<1> DEFINE gain == Max({tracked[s].gain, g})
           loss == Min({tracked[s].loss, g})
<1>6. gain \in Int /\ loss \in Int /\ tracked' = [tracked EXCEPT ![s].gain = gain, ![s].loss = loss]
  BY <1>2, <1>4
<1> HIDE DEF gain, loss
<1>7. /\ tracked' \in [Signals -> [last : A, gain : Int, loss : Int]]
      /\ tracked'[s].last = tracked[s].last /\ tracked'[s].gain = gain /\ tracked'[s].loss = loss
      /\ \A r \in Signals \ {s} : tracked'[r] = tracked[r]
  BY <1>1, <1>6
<1>8. QED BY <1>5, <1>7 DEF A, gain, loss

LEMMA MonitorTyped ==
    ASSUME TypeOK, NEW s \in Signals, MonitorSnapshot(s)
    PROVE  /\ tracked' \in [Signals -> [last : Time \union {Never}, gain : Int, loss : Int]]
           /\ tracked'[s].last = now
           /\ tracked'[s].gain = tracked[s].gain /\ tracked'[s].loss = tracked[s].loss
           /\ \A r \in Signals \ {s} : tracked'[r] = tracked[r]
<1> DEFINE A == Time \union {Never}
<1>1. /\ tracked \in [Signals -> [last : A, gain : Int, loss : Int]] /\ now \in A
      /\ tracked' = [tracked EXCEPT ![s].last = now]
  BY DEF TypeOK, MonitorSnapshot
<1> HIDE DEF A
<1>2. /\ tracked' \in [Signals -> [last : A, gain : Int, loss : Int]]
      /\ tracked'[s].last = now
      /\ tracked'[s].gain = tracked[s].gain /\ tracked'[s].loss = tracked[s].loss
      /\ \A r \in Signals \ {s} : tracked'[r] = tracked[r]
  BY <1>1, LastSet
<1>3. QED BY <1>2 DEF A

LEMMA PostsTyped == ASSUME TypeOK, CurrentOpen, HandlePosts PROVE TypeOK'
<1> USE DEF TypeOK, loop, memory, rows, history
<1>1. CASE BeginTick
  BY <1>1, JournalAssumption DEF BeginTick, Goto, Time, PCs
<1>2. CASE EntrySnapshot
  BY <1>2 DEF EntrySnapshot, Goto, PCs, CurrentOpen, Entering
<1>3. CASE MarkTaken
  BY <1>3 DEF MarkTaken, Goto, PCs, CurrentOpen, Entering
<1>4. CASE EntryRaises
  BY <1>4, HappensTyped DEF EntryRaises, Goto, PCs, Kinds
<1>5. CASE PostsDrained
  BY <1>5 DEF PostsDrained, StartLoop, Goto, PCs, Loops
<1>6. ASSUME NEW s \in Signals, SignalRejected(s) PROVE TypeOK'
  <2>1. verdict' \in [Signals -> Reasons \union {"downstream"}]
    <3>1. PICK v \in Verdicts :
              verdict' = [verdict EXCEPT ![s] = IF v = "" THEN "downstream" ELSE v]
      BY <1>6 DEF SignalRejected
    <3>2. v \in Reasons
      BY VerdictTyped DEF Verdicts
    <3>3. QED BY <3>1, <3>2
  <2>2. parsedAt' \in [Signals -> Time \union {Never}] /\ done' \in [Kinds -> Nat]
    BY <1>6, HappensTyped DEF SignalRejected, NewSignal, Kinds
  <2>3. QED BY <1>6, <2>1, <2>2 DEF SignalRejected
<1>7. ASSUME NEW s \in Signals, PositionOpened(s) PROVE TypeOK'
  <2>1. parsedAt' \in [Signals -> Time \union {Never}] /\ done' \in [Kinds -> Nat]
    BY <1>7, HappensTyped DEF PositionOpened, NewSignal, Kinds
  <2>2. tracked' \in [Signals -> [last : Time \union {Never}, gain : Int, loss : Int]]
    <3>1. [last |-> now, gain |-> 0, loss |-> 0]
              \in [last : Time \union {Never}, gain : Int, loss : Int]
      OBVIOUS
    <3>2. QED BY <1>7, <3>1 DEF PositionOpened, Register
  <2>3. QED BY <1>7, <2>1, <2>2 DEF PositionOpened, PCs
<1>8. QED BY <1>1, <1>2, <1>3, <1>4, <1>5, <1>6, <1>7 DEF HandlePosts

LEMMA AdvanceTyped == ASSUME TypeOK, CurrentOpen, AdvancePositions PROVE TypeOK'
<1> USE DEF TypeOK, loop, memory, rows, history
<1>1. ASSUME NEW s \in Signals, FillFound(s) \/ LeftAlone(s) PROVE TypeOK'
  BY <1>1 DEF FillFound, LeftAlone, PCs, Loops
<1>2. ASSUME NEW s \in Signals, Advanced(s) PROVE TypeOK'
  BY <1>2, GainSeenTyped DEF Advanced
<1>3. ASSUME NEW s \in Signals, CloseStarted(s) PROVE TypeOK'
  <2>1. /\ tracked' \in [Signals -> [last : Time \union {Never}, gain : Int, loss : Int]]
        /\ seen' \in [Signals -> SUBSET Gains]
    BY <1>3, GainSeenTyped DEF CloseStarted
  <2>2. QED BY <1>3, <2>1 DEF CloseStarted, PCs, Loops
<1>4. CASE ExitSnapshot
  <2>1. cur \in Signals
    BY <1>4 DEF ExitSnapshot, Goto, CurrentOpen, Booking
  <2>2. QED BY <1>4, <2>1 DEF ExitSnapshot, Goto, PCs
<1>5. CASE TradeRow
  <2>1. cur \in Signals
    BY <1>5 DEF TradeRow, CurrentOpen, Booking
  <2>2. /\ trades' \in [Signals -> [gain : Int, loss : Int, written : BOOLEAN]]
        /\ tracked' \in [Signals -> [last : Time \union {Never}, gain : Int, loss : Int]]
    BY <1>5, <2>1 DEF TradeRow, Untracked
  <2>3. QED BY <1>5, <2>1, <2>2 DEF TradeRow, PCs
<1>6. CASE CloseRaises \/ ExternalCloseRaises \/ FlattenRaises \/ ReconcileRaises
  BY <1>6, HappensTyped DEF CloseRaises, ExternalCloseRaises, FlattenRaises, ReconcileRaises,
                            StartLoop, Goto, PCs, Loops, Kinds
<1>7. CASE ManualDone \/ FlattenDone
  BY <1>7 DEF ManualDone, FlattenDone, StartLoop, Goto, PCs, Loops
<1>8. QED BY <1>1, <1>2, <1>3, <1>4, <1>5, <1>6, <1>7 DEF AdvancePositions

LEMMA SnapshotsTyped == ASSUME TypeOK, TakeSnapshots \/ CaptureTracks PROVE TypeOK'
<1> USE DEF TypeOK, loop, memory, rows, history
<1>1. CASE AdvanceDone
  BY <1>1 DEF AdvanceDone, StartLoop, Goto, PCs, PositionsDue
<1>2. CASE SnapshotsDone
  <2>1. count' \in 0 .. ReconcileEvery - 1
    BY <1>2, JournalAssumption DEF SnapshotsDone
  <2>2. QED BY <1>2, <2>1 DEF SnapshotsDone, PCs, Loops
<1>3. ASSUME NEW s \in Signals, SkipClosed(s) PROVE TypeOK'
  BY <1>3 DEF SkipClosed
<1>4. ASSUME NEW s \in Signals, MonitorSnapshot(s) PROVE TypeOK'
  BY <1>4, MonitorTyped DEF MonitorSnapshot
<1>5. ASSUME NEW s \in Signals, MonitorRaises(s) PROVE TypeOK'
  BY <1>5, HappensTyped DEF MonitorRaises, Kinds
<1>6. CASE ReconcileDone
  BY <1>6 DEF ReconcileDone, Goto, PCs, TracksDue
<1>7. CASE CaptureTrack
  <2>1. PICK so \in due : due' = due \ {so}
                          /\ tracks' = [tracks EXCEPT ![so[1]][so[2]] = now]
    BY <1>7 DEF CaptureTrack
  <2>2. so[1] \in Signals /\ so[2] \in Offsets
    OBVIOUS
  <2>3. tracks' = [tracks EXCEPT ![so[1]] = [tracks[so[1]] EXCEPT ![so[2]] = now]]
    BY <2>1, <2>2
  <2>4. [tracks[so[1]] EXCEPT ![so[2]] = now] \in [Offsets -> Time \union {Never}]
    BY <2>2
  <2>5. tracks' \in [Signals -> [Offsets -> Time \union {Never}]]
    BY <2>2, <2>3, <2>4
  <2>6. QED BY <1>7, <2>1, <2>5 DEF CaptureTrack
<1>8. CASE TrackRaises
  BY <1>8, HappensTyped DEF TrackRaises, Goto, PCs, Kinds
<1>9. CASE TracksDone
  BY <1>9 DEF TracksDone, Goto, PCs
<1>10. QED BY <1>1, <1>2, <1>3, <1>4, <1>5, <1>6, <1>7, <1>8, <1>9
           DEF TakeSnapshots, CaptureTracks

LEMMA ProcessTyped ==
    ASSUME TypeOK, TraceIsParsed, SoldOutside \/ Crash \/ TimePasses \/ Restart PROVE TypeOK'
<1> USE DEF TypeOK, loop, memory, rows, history
<1>1. CASE SoldOutside
  BY <1>1 DEF SoldOutside
<1>2. CASE Crash
  BY <1>2, HappensTyped, JournalAssumption DEF Crash, Untracked, Never, PCs, Loops, Kinds
<1>3. CASE TimePasses
  BY <1>3, JournalAssumption DEF TimePasses, Time
<1>4. CASE Restart
  <2>1. \A s \in Adoptable : s \in Signals /\ parsedAt[s] \in Time
    BY DEF Adoptable, TraceIsParsed
  <2>2. tracked' \in [Signals -> [last : Time \union {Never}, gain : Int, loss : Int]]
    BY <1>4, <2>1 DEF Restart, Untracked
  <2>3. seen' \in [Signals -> SUBSET Gains]
    BY <1>4 DEF Restart
  <2>4. QED BY <1>4, <2>1, <2>2, <2>3 DEF Restart, Goto, PCs
<1>5. QED BY <1>1, <1>2, <1>3, <1>4

LEMMA NextTyped == ASSUME TypeOK, PositionsInv, [Next]_vars PROVE TypeOK'
<1>1. CASE UNCHANGED vars
  BY <1>1 DEF TypeOK, vars, loop, memory, rows, history
<1>2. QED BY <1>1, PostsTyped, AdvanceTyped, SnapshotsTyped, ProcessTyped DEF Next, PositionsInv

-----------------------------------------------------------------------------
(* Positions: what the loops and the handlers hold is in the book. *)

LEMMA PositionsStep == ASSUME TypeOK, PositionsInv, LastIsMonitored, [Next]_vars PROVE PositionsInv'
<1> USE DEF PositionsInv, LoopsOverOpen, CurrentOpen, TraceIsParsed, OpenIsUnbooked, Loops,
            Booking, Entering, loop, memory, rows, history
<1>0. TypeOK'
  BY NextTyped
<1>1. CASE BeginTick \/ EntrySnapshot \/ EntryRaises \/ PostsDrained
  BY <1>1 DEF BeginTick, EntrySnapshot, EntryRaises, PostsDrained, StartLoop, Goto
<1>2. CASE MarkTaken
  BY <1>2 DEF MarkTaken, Goto, TypeOK
<1>3. ASSUME NEW s \in Signals, SignalRejected(s) PROVE PositionsInv'
  BY <1>3 DEF SignalRejected, NewSignal, TypeOK, Time, Never
<1>4. ASSUME NEW s \in Signals, PositionOpened(s) PROVE PositionsInv'
  <2>1. parsedAt'[s] # Never /\ \A r \in Signals \ {s} : parsedAt'[r] = parsedAt[r]
    <3>1. now # Never
      BY DEF TypeOK, Time, Never
    <3>2. /\ parsedAt \in [Signals -> Time \union {Never}]
          /\ parsedAt' = [parsedAt EXCEPT ![s] = now]
      BY <1>4 DEF PositionOpened, NewSignal, TypeOK
    <3>3. QED BY <3>1, <3>2
  <2>2. ~trades[s].written
    BY <1>4 DEF PositionOpened, NewSignal
  <2>3. QED BY <1>4, <2>1, <2>2 DEF PositionOpened, TypeOK
<1>5. ASSUME NEW s \in Signals, FillFound(s) \/ LeftAlone(s) \/ Advanced(s) \/ CloseStarted(s)
      PROVE  PositionsInv'
  BY <1>5 DEF FillFound, LeftAlone, Advanced, CloseStarted
<1>6. CASE ExitSnapshot
  BY <1>6 DEF ExitSnapshot, Goto
<1>7. CASE TradeRow
  <2>1. cur \in open \ todo /\ cur \in Signals /\ todo \subseteq open /\ back \in Loops
    BY <1>7 DEF TradeRow, TypeOK
  <2>2. /\ trades'[cur].written /\ parsedAt[cur] # Never
        /\ \A r \in Signals \ {cur} : trades'[r] = trades[r]
    BY <1>7, <2>1 DEF TradeRow, TypeOK
  <2>3. /\ open' = open \ {cur} /\ pc' = back /\ todo' = todo
        /\ UNCHANGED <<parsedAt, taken, monitored>>
    BY <1>7 DEF TradeRow
  <2>4. TraceIsParsed'
    BY <2>1, <2>2, <2>3
  <2>5. OpenIsUnbooked'
    BY <2>1, <2>2, <2>3, <1>0 DEF TypeOK
  <2>6. QED BY <2>1, <2>3, <2>4, <2>5
<1>8. CASE CloseRaises \/ ExternalCloseRaises \/ FlattenRaises \/ ReconcileRaises
  BY <1>8 DEF CloseRaises, ExternalCloseRaises, FlattenRaises, ReconcileRaises, StartLoop, Goto,
              TypeOK
<1>9. CASE ManualDone \/ FlattenDone \/ AdvanceDone
  BY <1>9 DEF ManualDone, FlattenDone, AdvanceDone, StartLoop, Goto
<1>10. CASE SnapshotsDone
  BY <1>10 DEF SnapshotsDone
<1>11. ASSUME NEW s \in Signals, SkipClosed(s) \/ MonitorRaises(s) PROVE PositionsInv'
  BY <1>11 DEF SkipClosed, MonitorRaises
<1>12. ASSUME NEW s \in Signals, MonitorSnapshot(s) PROVE PositionsInv'
  <2>1. s \in open /\ \A r \in Signals \ {s} : monitored'[r] = monitored[r]
    BY <1>12 DEF MonitorSnapshot, TypeOK
  <2>2. QED BY <1>12, <2>1 DEF MonitorSnapshot
<1>13. CASE CaptureTracks
  BY <1>13 DEF CaptureTracks, ReconcileDone, CaptureTrack, TrackRaises, TracksDone, Goto
<1>14. CASE SoldOutside \/ TimePasses
  BY <1>14 DEF SoldOutside, TimePasses
<1>15. CASE Crash
  BY <1>15 DEF Crash
<1>16. CASE Restart
  <2>1. \A s \in Adoptable : s \in taken /\ ~trades[s].written
    BY DEF Adoptable
  <2>2. QED BY <1>16, <2>1 DEF Restart, Goto
<1>17. CASE UNCHANGED vars
  BY <1>17 DEF vars
<1>18. QED
  BY <1>1, <1>2, <1>3, <1>4, <1>5, <1>6, <1>7, <1>8, <1>9, <1>10, <1>11, <1>12, <1>13, <1>14,
     <1>15, <1>16, <1>17
  DEF Next, HandlePosts, AdvancePositions, TakeSnapshots

-----------------------------------------------------------------------------
(* Rows: the exit snapshot before the trades row, the extremes in it. *)

LEMMA CoversTheSeen ==
    ASSUME TypeOK, PositionsInv, OpenIsCovered, NEW s \in open, NEW g \in Gains, GainSeen(s, g)
    PROVE  open' = open => OpenIsCovered'
<1>1. s \in Signals /\ g \in Int /\ seen[s] \in SUBSET Int
      /\ tracked[s].gain \in Int /\ tracked[s].loss \in Int
  BY JournalAssumption DEF TypeOK
<1>2. Covers(seen[s], tracked[s].gain, tracked[s].loss)
  BY DEF OpenIsCovered
<1>3. Covers(seen[s] \union {g}, Max({tracked[s].gain, g}), Min({tracked[s].loss, g}))
  BY <1>1, <1>2, CoversOneMore
<1>4. Covers(seen'[s], tracked'[s].gain, tracked'[s].loss)
  BY <1>1, <1>3, GainSeenTyped
<1>5. \A r \in open \ {s} : tracked'[r] = tracked[r] /\ seen'[r] = seen[r]
  BY <1>1, GainSeenTyped DEF TypeOK
<1>6. QED BY <1>4, <1>5 DEF OpenIsCovered

LEMMA RowsStep == ASSUME TypeOK, PositionsInv, RowsInv, [Next]_vars PROVE RowsInv'
<1> USE DEF RowsInv, TakenHasEntry, RowAfterExit, OpenIsCovered, RowIsCovered, loop, memory, rows,
            history
<1>0. \A s \in open : s \in Signals
  BY DEF TypeOK
<1>1. CASE BeginTick \/ EntryRaises \/ PostsDrained
  BY <1>1 DEF BeginTick, EntryRaises, PostsDrained, StartLoop, Goto
<1>2. CASE EntrySnapshot \/ MarkTaken
  BY <1>2 DEF EntrySnapshot, MarkTaken, Goto
<1>3. ASSUME NEW s \in Signals, SignalRejected(s) PROVE RowsInv'
  BY <1>3 DEF SignalRejected, NewSignal
<1>4. ASSUME NEW s \in Signals, PositionOpened(s) PROVE RowsInv'
  <2>1. ~trades[s].written
    BY <1>4 DEF PositionOpened, NewSignal, PositionsInv, TraceIsParsed
  <2>2. /\ tracked'[s].gain = 0 /\ tracked'[s].loss = 0 /\ seen'[s] = {}
        /\ \A r \in Signals \ {s} : tracked'[r] = tracked[r] /\ seen'[r] = seen[r]
    BY <1>4 DEF PositionOpened, Register, TypeOK
  <2>3. Covers(seen'[s], tracked'[s].gain, tracked'[s].loss)
    BY <2>2 DEF Covers
  <2>4. open' = open \union {s} /\ pc' = "entrySnapshot"
        /\ UNCHANGED <<trades, exits, entries, taken>>
    BY <1>4 DEF PositionOpened
  <2>5. QED BY <1>0, <2>1, <2>2, <2>3, <2>4
<1>5. ASSUME NEW s \in Signals, FillFound(s) \/ LeftAlone(s) PROVE RowsInv'
  BY <1>5 DEF FillFound, LeftAlone
<1>6. ASSUME NEW s \in Signals, Advanced(s) \/ CloseStarted(s) PROVE RowsInv'
  <2>1. s \in open /\ ~trades[s].written /\ open' = open
    BY <1>6 DEF Advanced, CloseStarted, PositionsInv, LoopsOverOpen, Loops, OpenIsUnbooked
  <2>2. pc' \in {pc, "closeSnapshot"} /\ UNCHANGED <<trades, exits, entries, taken, open>>
        /\ cur' \in {cur, s} /\ pc \in {"advance", "flatten"}
    BY <1>6 DEF Advanced, CloseStarted
  <2>3. CASE UNCHANGED <<tracked, seen>>
    BY <2>2, <2>3
  <2>4. ASSUME NEW g \in Gains, GainSeen(s, g) PROVE RowsInv'
    <3>1. OpenIsCovered'
      BY <2>1, <2>4, CoversTheSeen
    <3>2. \A r \in Signals \ {s} : seen'[r] = seen[r]
      BY <2>4, GainSeenTyped
    <3>3. QED BY <2>1, <2>2, <3>1, <3>2
  <2>5. QED BY <1>6, <2>3, <2>4 DEF Advanced, CloseStarted
<1>7. CASE ExitSnapshot
  <2>1. cur \in Signals
    BY <1>0, <1>7 DEF ExitSnapshot, Goto, PositionsInv, CurrentOpen, Booking
  <2>2. exits'[cur] > 0 /\ \A r \in Signals : exits[r] > 0 => exits'[r] > 0
    BY <1>7, <2>1 DEF ExitSnapshot, TypeOK
  <2>3. QED BY <1>7, <2>1, <2>2 DEF ExitSnapshot, Goto
<1>8. CASE TradeRow
  <2>1. cur \in open /\ cur \in Signals /\ exits[cur] > 0
    BY <1>0, <1>8 DEF TradeRow, PositionsInv, CurrentOpen, Booking
  <2>2. /\ trades'[cur].gain = tracked[cur].gain /\ trades'[cur].loss = tracked[cur].loss
        /\ \A r \in Signals \ {cur} : trades'[r] = trades[r] /\ tracked'[r] = tracked[r]
    BY <1>8, <2>1 DEF TradeRow, TypeOK
  <2>3. /\ open' = open \ {cur} /\ pc' \in Loops
        /\ UNCHANGED <<exits, entries, taken, seen>>
    BY <1>8 DEF TradeRow, TypeOK
  <2>4. QED BY <1>0, <2>1, <2>2, <2>3 DEF Loops
<1>9. CASE CloseRaises \/ ExternalCloseRaises \/ FlattenRaises \/ ReconcileRaises
  BY <1>9 DEF CloseRaises, ExternalCloseRaises, FlattenRaises, ReconcileRaises, StartLoop, Goto,
              TypeOK, Loops
<1>10. CASE ManualDone \/ FlattenDone \/ AdvanceDone \/ SnapshotsDone
  BY <1>10 DEF ManualDone, FlattenDone, AdvanceDone, SnapshotsDone, StartLoop, Goto
<1>11. ASSUME NEW s \in Signals, SkipClosed(s) \/ MonitorRaises(s) PROVE RowsInv'
  BY <1>11 DEF SkipClosed, MonitorRaises
<1>12. ASSUME NEW s \in Signals, MonitorSnapshot(s) PROVE RowsInv'
  <2>1. \A r \in Signals : tracked'[r].gain = tracked[r].gain /\ tracked'[r].loss = tracked[r].loss
    BY <1>12, MonitorTyped
  <2>2. QED BY <1>0, <1>12, <2>1 DEF MonitorSnapshot
<1>13. CASE CaptureTracks
  BY <1>13 DEF CaptureTracks, ReconcileDone, CaptureTrack, TrackRaises, TracksDone, Goto
<1>14. CASE SoldOutside \/ TimePasses
  BY <1>14 DEF SoldOutside, TimePasses
<1>15. CASE Crash
  BY <1>15 DEF Crash
<1>16. CASE Restart
  <2>1. \A s \in Adoptable : s \in Signals /\ ~trades[s].written
    BY DEF Adoptable, TypeOK
  <2>2. \A s \in Adoptable : /\ tracked'[s].gain = 0 /\ tracked'[s].loss = 0
                             /\ seen'[s] = {}
    BY <1>16, <2>1 DEF Restart
  <2>3. \A s \in Adoptable : Covers(seen'[s], tracked'[s].gain, tracked'[s].loss)
    BY <2>2 DEF Covers
  <2>4. \A s \in Signals : trades[s].written => seen'[s] = seen[s]
    BY <1>16 DEF Restart
  <2>5. QED BY <1>16, <2>3, <2>4 DEF Restart, Goto
<1>17. CASE UNCHANGED vars
  BY <1>17 DEF vars
<1>18. QED
  BY <1>1, <1>2, <1>3, <1>4, <1>5, <1>6, <1>7, <1>8, <1>9, <1>10, <1>11, <1>12, <1>13, <1>14,
     <1>15, <1>16, <1>17
  DEF Next, HandlePosts, AdvancePositions, TakeSnapshots

-----------------------------------------------------------------------------
(* Schedule: what is due is what has had no row for an interval. *)

LEMMA ScheduleStep ==
    ASSUME TypeOK, PositionsInv, ScheduleInv, [Next]_vars PROVE ScheduleInv'
<1> USE DEF ScheduleInv, LastIsMonitored, DueNow, loop, memory, rows, history
<1>0. /\ \A s \in open : s \in Signals
      /\ \A s \in Signals : tracked[s].last \in Int
      /\ now \in Int /\ now # Never /\ Interval \in Nat \ {0}
  BY JournalAssumption DEF TypeOK, Time, Never
<1>1. CASE BeginTick \/ EntrySnapshot \/ MarkTaken \/ EntryRaises \/ PostsDrained
  BY <1>1 DEF BeginTick, EntrySnapshot, MarkTaken, EntryRaises, PostsDrained, StartLoop, Goto
<1>2. ASSUME NEW s \in Signals, SignalRejected(s) PROVE ScheduleInv'
  BY <1>2 DEF SignalRejected, NewSignal
<1>3. ASSUME NEW s \in Signals, PositionOpened(s) PROVE ScheduleInv'
  <2>1. monitored[s] = Never
    BY <1>3 DEF PositionOpened, NewSignal, PositionsInv, TraceIsParsed
  <2>2. tracked'[s].last = now /\ \A r \in Signals \ {s} : tracked'[r] = tracked[r]
    BY <1>3 DEF PositionOpened, Register, TypeOK
  <2>3. open' = open \union {s} /\ pc' = "entrySnapshot" /\ monitored' = monitored
    BY <1>3 DEF PositionOpened
  <2>4. QED BY <1>0, <2>1, <2>2, <2>3
<1>4. ASSUME NEW s \in Signals, FillFound(s) \/ LeftAlone(s) PROVE ScheduleInv'
  BY <1>4 DEF FillFound, LeftAlone
<1>5. ASSUME NEW s \in Signals, Advanced(s) \/ CloseStarted(s) PROVE ScheduleInv'
  <2>1. \A r \in Signals : tracked'[r].last = tracked[r].last
    BY <1>5, GainSeenTyped DEF Advanced, CloseStarted
  <2>2. pc' \in {"advance", "closeSnapshot"} /\ UNCHANGED <<open, monitored>>
    BY <1>5 DEF Advanced, CloseStarted
  <2>3. QED BY <1>0, <2>1, <2>2
<1>6. CASE ExitSnapshot
  BY <1>6 DEF ExitSnapshot, Goto
<1>7. CASE TradeRow
  <2>1. \A r \in Signals \ {cur} : tracked'[r] = tracked[r]
    BY <1>7 DEF TradeRow, TypeOK
  <2>2. open' = open \ {cur} /\ pc' \in Loops /\ monitored' = monitored
    BY <1>7 DEF TradeRow, TypeOK
  <2>3. QED BY <1>0, <2>1, <2>2 DEF Loops
<1>8. CASE CloseRaises \/ ExternalCloseRaises \/ FlattenRaises \/ ReconcileRaises
  BY <1>8 DEF CloseRaises, ExternalCloseRaises, FlattenRaises, ReconcileRaises, StartLoop, Goto,
              TypeOK, Loops
<1>9. CASE ManualDone \/ FlattenDone \/ SnapshotsDone
  BY <1>9 DEF ManualDone, FlattenDone, SnapshotsDone, StartLoop, Goto
<1>10. CASE AdvanceDone
  <2>1. \A s \in open : tracked[s] # Untracked
    BY DEF Untracked
  <2>2. \A s \in open \ PositionsDue : now - tracked[s].last < Interval
    BY <1>0, <2>1 DEF PositionsDue
  <2>3. \A s \in PositionsDue : now - tracked[s].last >= Interval
    BY DEF PositionsDue
  <2>4. QED BY <1>10, <2>2, <2>3 DEF AdvanceDone, StartLoop, Goto
<1>11. ASSUME NEW s \in Signals, SkipClosed(s) \/ MonitorRaises(s) PROVE ScheduleInv'
  BY <1>11 DEF SkipClosed, MonitorRaises
<1>12. ASSUME NEW s \in Signals, MonitorSnapshot(s) PROVE ScheduleInv'
  <2>1. tracked'[s].last = now /\ \A r \in Signals \ {s} : tracked'[r] = tracked[r]
    BY <1>12, MonitorTyped
  <2>2. monitored'[s] = now /\ \A r \in Signals \ {s} : monitored'[r] = monitored[r]
    BY <1>12 DEF MonitorSnapshot, TypeOK
  <2>3. /\ pc = "snapshots" /\ todo' = todo \ {s}
        /\ UNCHANGED <<now, pc, open, missed>>
    BY <1>12 DEF MonitorSnapshot
  <2>4. LastIsMonitored'
    BY <1>0, <2>1, <2>2, <2>3
  <2>5. \A r \in todo' : now - tracked'[r].last >= Interval
    BY <2>1, <2>3 DEF TypeOK
  <2>6. \A r \in open \ (missed \union todo') : now - tracked'[r].last < Interval
    <3>1. now - tracked'[s].last < Interval
      BY <1>0, <2>1
    <3>2. \A r \in open \ {s} : tracked'[r] = tracked[r]
      BY <1>0, <2>1
    <3>3. QED BY <2>3, <3>1, <3>2
  <2>7. QED BY <2>3, <2>4, <2>5, <2>6
<1>13. CASE CaptureTracks
  BY <1>13 DEF CaptureTracks, ReconcileDone, CaptureTrack, TrackRaises, TracksDone, Goto
<1>14. CASE SoldOutside \/ TimePasses
  BY <1>14 DEF SoldOutside, TimePasses
<1>15. CASE Crash
  BY <1>15 DEF Crash
<1>16. CASE Restart
  <2>1. \A s \in Adoptable : s \in Signals /\ parsedAt[s] # Never
    BY DEF Adoptable, PositionsInv, TraceIsParsed, TypeOK
  <2>2. \A s \in Adoptable : tracked'[s].last = parsedAt[s]
    BY <1>16, <2>1 DEF Restart
  <2>3. QED BY <1>16, <2>1, <2>2 DEF Restart, Goto
<1>17. CASE UNCHANGED vars
  BY <1>17 DEF vars
<1>18. QED
  BY <1>1, <1>2, <1>3, <1>4, <1>5, <1>6, <1>7, <1>8, <1>9, <1>10, <1>11, <1>12, <1>13, <1>14,
     <1>15, <1>16, <1>17
  DEF Next, HandlePosts, AdvancePositions, TakeSnapshots

-----------------------------------------------------------------------------
(* The theorems. *)

LEMMA Inductive == Spec => []IInv
<1>1. IInv /\ [Next]_vars => IInv'
  BY NextTyped, PositionsStep, RowsStep, ScheduleStep DEF IInv, ScheduleInv
<1>2. QED BY InitInv, <1>1, PTL DEF Spec

\* Every tick, handler, failure and restart keeps the journal and the scheduler
\* well typed.
THEOREM TypeCorrect == Spec => []TypeOK
<1>1. IInv => TypeOK
  BY DEF IInv
<1>2. QED BY Inductive, <1>1, PTL

\* Of a trade in the journal the exit snapshot is there too, and the entry snapshot
\* if its signal was marked taken, whichever insert raised and whenever the process
\* died (close_trade, _handle_post).
THEOREM FramedTrades == Spec => []SnapshotsFrameTrade
<1>1. IInv => SnapshotsFrameTrade
  BY DEF IInv, RowsInv, RowAfterExit, TakenHasEntry, SnapshotsFrameTrade
<1>2. QED BY Inductive, <1>1, PTL

\* The extremes of a trades row are those of the quotes its process saw, for any set
\* of quotes (update_extremes, close_trade, _adopt_position).
THEOREM CoveredExtremes == Spec => []ExtremesCoverRun
<1>1. ASSUME IInv PROVE ExtremesCoverRun
  <2> SUFFICES ASSUME NEW s \in Signals, trades[s].written
               PROVE  /\ trades[s].gain = Max(seen[s] \union {0})
                      /\ trades[s].loss = Min(seen[s] \union {0})
    BY DEF ExtremesCoverRun
  <2>1. Covers(seen[s], trades[s].gain, trades[s].loss)
    BY <1>1 DEF IInv, RowsInv, RowIsCovered
  <2>2. seen[s] \in SUBSET Int
    BY <1>1, JournalAssumption DEF IInv, TypeOK
  <2>3. QED BY <2>1, <2>2, CoversIsMaxMin
<1>2. QED BY Inductive, <1>1, PTL

\* Two monitor snapshots of a position in one process are an interval apart
\* (positions_due, mark_snapshotted).
THEOREM SpacedSnapshots == Spec => SnapshotsSpaced
<1> DEFINE A == \A s \in Signals :
                   monitored'[s] \notin {monitored[s], Never} =>
                       monitored[s] = Never \/ now - monitored[s] >= Interval
<1>1. ASSUME IInv, [Next]_vars PROVE A
  <2>1. CASE UNCHANGED monitored
    BY <2>1
  <2>2. ASSUME NEW s \in Signals, MonitorSnapshot(s) PROVE A
    <3>1. \A r \in Signals \ {s} : monitored'[r] = monitored[r]
      BY <1>1, <2>2 DEF MonitorSnapshot, IInv, TypeOK
    <3>2. s \in open /\ now - tracked[s].last >= Interval
      BY <1>1, <2>2 DEF MonitorSnapshot, IInv, ScheduleInv, DueNow
    <3>3. monitored[s] = Never \/ tracked[s].last = monitored[s]
      BY <1>1, <3>2 DEF IInv, ScheduleInv, LastIsMonitored
    <3>4. QED BY <3>1, <3>2, <3>3
  <2>3. CASE Crash
    BY <2>3 DEF Crash
  <2>4. QED
    <3> USE DEF loop, memory, rows, history
    <3>1. CASE HandlePosts
      BY <2>1, <3>1 DEF HandlePosts, BeginTick, EntrySnapshot, MarkTaken, EntryRaises, PostsDrained,
                        SignalRejected, PositionOpened
    <3>2. CASE AdvancePositions
      BY <2>1, <3>2 DEF AdvancePositions, FillFound, LeftAlone, Advanced, CloseStarted,
                        ExitSnapshot, TradeRow, CloseRaises, ExternalCloseRaises, ManualDone,
                        FlattenDone, FlattenRaises, ReconcileRaises
    <3>3. CASE TakeSnapshots
      BY <2>1, <2>2, <3>3 DEF TakeSnapshots, AdvanceDone, SkipClosed, MonitorRaises, SnapshotsDone
    <3>4. CASE CaptureTracks \/ SoldOutside \/ TimePasses \/ Restart \/ UNCHANGED vars
      BY <2>1, <3>4 DEF CaptureTracks, ReconcileDone, CaptureTrack, TrackRaises, TracksDone,
                        SoldOutside, TimePasses, Restart, vars
    <3>5. QED BY <1>1, <2>3, <3>1, <3>2, <3>3, <3>4 DEF Next
<1>2. QED BY Inductive, <1>1, PTL DEF Spec, SnapshotsSpaced

\* The loop over what is due leaves no open position overdue, except those whose
\* capture raised (tick, _take_monitor_snapshot).
THEOREM SnapshotsUpToDate == Spec => SnapshotsKeepUp
<1> DEFINE A == pc = "snapshots" /\ pc' \in {"idle", "reconcile"} =>
                   \A s \in open \ missed : now - tracked[s].last < Interval
<1>1. ASSUME IInv, [Next]_vars PROVE A
  <2> SUFFICES ASSUME pc = "snapshots", pc' \in {"idle", "reconcile"}
               PROVE  \A s \in open \ missed : now - tracked[s].last < Interval
    OBVIOUS
  <2>1. SnapshotsDone
    <3> USE DEF loop, memory, rows, history, Goto, StartLoop
    <3>1. ~HandlePosts
      BY DEF HandlePosts, BeginTick, EntrySnapshot, MarkTaken, EntryRaises, PostsDrained,
             SignalRejected, PositionOpened, NewSignal
    <3>2. ~AdvancePositions
      BY DEF AdvancePositions, FillFound, LeftAlone, Advanced, CloseStarted, ExitSnapshot,
             TradeRow, CloseRaises, ExternalCloseRaises, ManualDone, FlattenDone, FlattenRaises,
             ReconcileRaises
    <3>3. TakeSnapshots => SnapshotsDone
      BY DEF TakeSnapshots, AdvanceDone, SkipClosed, MonitorRaises, MonitorSnapshot
    <3>4. ~(CaptureTracks \/ SoldOutside \/ Crash \/ TimePasses \/ Restart \/ UNCHANGED vars)
      BY DEF CaptureTracks, ReconcileDone, CaptureTrack, TrackRaises, TracksDone, SoldOutside,
             Crash, TimePasses, Restart, vars
    <3>5. QED BY <1>1, <3>1, <3>2, <3>3, <3>4 DEF Next
  <2>2. todo = {}
    BY <2>1 DEF SnapshotsDone
  <2>3. QED BY <1>1, <2>2 DEF IInv, ScheduleInv, DueNow
<1>2. QED BY Inductive, <1>1, PTL DEF Spec, SnapshotsKeepUp

-----------------------------------------------------------------------------
(* The price tracks.  The clock and tick_count are tied to each other: since *)
(* a missing price's window opened, no more ticks have passed than were      *)
(* counted since the last pass, and a pass comes before the window is over.  *)

\* Where a tick is, the trip to a booking and back included.
Phase ==
    IF pc \in {"idle", "tracks", "down"} THEN pc
    ELSE IF pc = "reconcile" \/ (pc \in Booking /\ back = "reconcile") THEN "reconciling"
    ELSE "tick"
Flattening == pc = "flatten" \/ (pc \in Booking /\ back = "flatten")

\* A price that no outage excuses and nobody has recorded.
Missing(s, o) ==
    /\ parsedAt[s] # Never /\ tracks[s][o] = Never
    /\ \A t \in disturbed : ~InWindow(s, o, t)
    /\ parsedAt[s] + o + Grace <= CloseTime

\* Before the pass has it on its list, no more ticks have gone since its window opened
\* than tick_count has counted since the last pass.
NotLate(s, o) ==
    LET behind == now - (parsedAt[s] + o) IN
    \/ behind < 0
    \/ Phase = "tick" /\ behind <= count
    \/ Phase = "idle" /\ behind < count
    \/ Phase = "reconciling" /\ behind < ReconcileEvery
    \/ Phase = "tracks" /\ <<s, o>> \in due

RecordedInWindow ==
    \A s \in Signals, o \in Offsets :
        tracks[s][o] # Never => parsedAt[s] # Never /\ InWindow(s, o, tracks[s][o])
DueInWindow ==
    \A s \in Signals, o \in Offsets :
        <<s, o>> \in due => pc = "tracks" /\ parsedAt[s] # Never /\ InWindow(s, o, now)
FlattenIsLate == Flattening => Late
MissingNotLate == \A s \in Signals, o \in Offsets : Missing(s, o) => NotLate(s, o)

TracksInv == RecordedInWindow /\ DueInWindow /\ FlattenIsLate /\ MissingNotLate

\* One more tick is counted, or the count starts anew.
LEMMA CountUp ==
    ASSUME NEW R \in Nat \ {0}, NEW c \in 0 .. R - 1
    PROVE  (c + 1) % R = IF c + 1 = R THEN 0 ELSE c + 1
<1>1. CASE c + 1 = R
  BY <1>1
<1>2. CASE c + 1 < R
  BY <1>2
<1>3. QED BY <1>1, <1>2

LEMMA TracksInit == ASSUME Init PROVE TracksInv
BY DEF Init, TracksInv, RecordedInWindow, DueInWindow, FlattenIsLate, Flattening, MissingNotLate,
       Missing, Booking

\* Most steps touch neither the clock nor the study, and stay in their half of the tick.
Steady == UNCHANGED <<now, parsedAt, tracks, disturbed, due, count, Phase>>

LEMMA SteadyTracks ==
    ASSUME TypeOK, TracksInv, Steady, pc' = "tracks" <=> pc = "tracks", FlattenIsLate'
    PROVE  TracksInv'
<1>1. RecordedInWindow' /\ DueInWindow'
  BY DEF Steady, TracksInv, RecordedInWindow, DueInWindow, InWindow
<1>2. MissingNotLate'
  BY DEF Steady, TracksInv, MissingNotLate, Missing, NotLate, InWindow
<1>3. QED BY <1>1, <1>2 DEF TracksInv

LEMMA SteadySteps ==
    ASSUME TypeOK, FlattenIsLate,
           \/ EntrySnapshot \/ MarkTaken \/ EntryRaises \/ PostsDrained
           \/ AdvancePositions /\ ~FlattenDone
           \/ TakeSnapshots /\ ~SnapshotsDone
           \/ SoldOutside
    PROVE  Steady /\ (pc' = "tracks" <=> pc = "tracks") /\ FlattenIsLate'
<1> USE DEF Steady, Phase, FlattenIsLate, Flattening, Late, Booking, Goto, StartLoop, loop, memory,
            rows, history
<1>1. CASE EntrySnapshot \/ MarkTaken \/ EntryRaises \/ PostsDrained
  BY <1>1 DEF EntrySnapshot, MarkTaken, EntryRaises, PostsDrained
<1>2. ASSUME NEW s \in Signals, FillFound(s) \/ LeftAlone(s) \/ Advanced(s) \/ CloseStarted(s)
      PROVE  Steady /\ (pc' = "tracks" <=> pc = "tracks") /\ FlattenIsLate'
  BY <1>2 DEF FillFound, LeftAlone, Advanced, CloseStarted
<1>3. CASE ExitSnapshot \/ TradeRow \/ CloseRaises \/ ExternalCloseRaises
  BY <1>3 DEF ExitSnapshot, TradeRow, CloseRaises, ExternalCloseRaises, TypeOK, Loops
<1>4. CASE ManualDone \/ FlattenRaises \/ ReconcileRaises
  BY <1>4 DEF ManualDone, FlattenRaises, ReconcileRaises
<1>5. CASE AdvanceDone
  BY <1>5 DEF AdvanceDone
<1>6. ASSUME NEW s \in Signals, SkipClosed(s) \/ MonitorSnapshot(s) \/ MonitorRaises(s)
      PROVE  Steady /\ (pc' = "tracks" <=> pc = "tracks") /\ FlattenIsLate'
  BY <1>6 DEF SkipClosed, MonitorSnapshot, MonitorRaises
<1>7. CASE SoldOutside
  BY <1>7 DEF SoldOutside
<1>8. QED
  BY <1>1, <1>2, <1>3, <1>4, <1>5, <1>6, <1>7 DEF AdvancePositions, TakeSnapshots

\* A new signal's windows have not opened, or open in this tick.
LEMMA NewSignalTracks ==
    ASSUME TypeOK, TracksInv, NEW s \in Signals, SignalRejected(s) \/ PositionOpened(s)
    PROVE  TracksInv'
<1> USE JournalAssumption DEF Never, Time
<1>1. /\ parsedAt[s] = Never /\ parsedAt' = [parsedAt EXCEPT ![s] = now]
      /\ pc = "posts" /\ pc' \in {"posts", "entrySnapshot"}
      /\ UNCHANGED <<now, tracks, disturbed, due, count, back>>
  BY DEF SignalRejected, PositionOpened, NewSignal, loop, history
<1>2. \A r \in Signals \ {s}, o \in Offsets : \A t : InWindow(r, o, t)' = InWindow(r, o, t)
  BY <1>1 DEF InWindow, TypeOK
<1>3. RecordedInWindow' /\ DueInWindow' /\ FlattenIsLate'
  <2>1. FlattenIsLate'
    BY <1>1 DEF FlattenIsLate, Flattening, Booking
  <2>2. \A o \in Offsets : tracks[s][o] = Never
    BY <1>1 DEF TracksInv, RecordedInWindow
  <2>3. \A r \in Signals \ {s} : parsedAt'[r] = parsedAt[r]
    BY <1>1 DEF TypeOK
  <2>4. RecordedInWindow'
    BY <1>1, <1>2, <2>2, <2>3 DEF TracksInv, RecordedInWindow, InWindow
  <2>5. DueInWindow'
    BY <1>1 DEF TracksInv, DueInWindow
  <2>6. QED BY <2>1, <2>4, <2>5
<1>4. ASSUME NEW r \in Signals, NEW o \in Offsets, Missing(r, o)' PROVE NotLate(r, o)'
  <2>1. Phase = "tick" /\ Phase' = "tick"
    BY <1>1 DEF Phase, Booking
  <2>2. CASE r = s
    <3>1. parsedAt'[r] = now /\ now \in Nat /\ o \in Nat /\ count' \in Nat
      BY <1>1, <2>2 DEF TypeOK
    <3>2. now' - (parsedAt'[r] + o) <= count'
      BY <1>1, <3>1
    <3>3. QED BY <2>1, <3>2 DEF NotLate
  <2>3. CASE r # s
    <3>1. parsedAt'[r] = parsedAt[r]
      BY <1>1, <2>3 DEF TypeOK
    <3>2. Missing(r, o)
      BY <1>1, <2>3, <3>1, <1>4 DEF Missing, InWindow
    <3>3. NotLate(r, o)
      BY <3>2 DEF TracksInv, MissingNotLate
    <3>4. QED BY <1>1, <2>1, <3>1, <3>3 DEF NotLate
  <2>4. QED BY <2>2, <2>3
<1>5. QED BY <1>3, <1>4 DEF TracksInv, MissingNotLate

LEMMA BeginTickTracks == ASSUME TypeOK, TracksInv, BeginTick PROVE TracksInv'
<1> USE JournalAssumption DEF Never, Time
<1>1. /\ pc = "idle" /\ pc' = "posts" /\ now' \in {now, now + 1}
      /\ UNCHANGED <<parsedAt, tracks, disturbed, due, count, back>>
  BY DEF BeginTick, Goto, rows
<1>2. RecordedInWindow' /\ DueInWindow' /\ FlattenIsLate'
  BY <1>1 DEF TracksInv, RecordedInWindow, DueInWindow, FlattenIsLate, Flattening, Booking, InWindow
<1>3. ASSUME NEW r \in Signals, NEW o \in Offsets, Missing(r, o)' PROVE NotLate(r, o)'
  <2>1. Missing(r, o)
    BY <1>1, <1>3 DEF Missing, InWindow
  <2>2. NotLate(r, o) /\ Phase = "idle" /\ Phase' = "tick"
    BY <1>1, <2>1 DEF TracksInv, MissingNotLate, Phase, Booking
  <2>3. now \in Int /\ parsedAt[r] \in Int /\ o \in Int /\ count \in Nat
    BY DEF TypeOK
  <2>4. QED BY <1>1, <2>2, <2>3 DEF NotLate
<1>4. QED BY <1>2, <1>3 DEF TracksInv, MissingNotLate

\* The tick is counted, or it is the one that brings the pass.
LEMMA SnapshotsDoneTracks == ASSUME TypeOK, TracksInv, SnapshotsDone PROVE TracksInv'
<1> USE JournalAssumption DEF Never, Time
<1>1. /\ pc = "snapshots" /\ pc' = IF count' = 0 THEN "reconcile" ELSE "idle"
      /\ count' = IF count + 1 = ReconcileEvery THEN 0 ELSE count + 1
      /\ UNCHANGED <<now, parsedAt, tracks, disturbed, due, back>>
  BY CountUp DEF SnapshotsDone, rows, history, TypeOK
<1>2. RecordedInWindow' /\ DueInWindow' /\ FlattenIsLate'
  BY <1>1 DEF TracksInv, RecordedInWindow, DueInWindow, FlattenIsLate, Flattening, Booking, InWindow
<1>3. ASSUME NEW r \in Signals, NEW o \in Offsets, Missing(r, o)' PROVE NotLate(r, o)'
  <2>1. Missing(r, o)
    BY <1>1, <1>3 DEF Missing, InWindow
  <2>2. NotLate(r, o) /\ Phase = "tick" /\ Phase' = IF count' = 0 THEN "reconciling" ELSE "idle"
    BY <1>1, <2>1 DEF TracksInv, MissingNotLate, Phase, Booking
  <2>3. now \in Int /\ parsedAt[r] \in Int /\ o \in Int /\ count \in 0 .. ReconcileEvery - 1
    BY DEF TypeOK
  <2>4. now - (parsedAt[r] + o) < 0 \/ now - (parsedAt[r] + o) <= count
    BY <2>2 DEF NotLate
  <2>5. CASE count' = 0
    BY <1>1, <2>2, <2>3, <2>4, <2>5 DEF NotLate
  <2>6. CASE count' # 0
    BY <1>1, <2>2, <2>3, <2>4, <2>6 DEF NotLate
  <2>7. QED BY <2>5, <2>6
<1>4. QED BY <1>2, <1>3 DEF TracksInv, MissingNotLate

\* The flatten ends its tick uncounted: by then every window that counts is over, and
\* nothing is missing.
LEMMA FlattenDoneTracks == ASSUME TypeOK, TracksInv, FlattenDone PROVE TracksInv'
<1> USE JournalAssumption DEF Never, Time
<1>1. /\ pc = "flatten" /\ pc' = "idle"
      /\ UNCHANGED <<now, parsedAt, tracks, disturbed, due, count, back>>
  BY DEF FlattenDone, Goto, rows, history
<1>2. RecordedInWindow' /\ DueInWindow' /\ FlattenIsLate'
  BY <1>1 DEF TracksInv, RecordedInWindow, DueInWindow, FlattenIsLate, Flattening, Booking, InWindow
<1>3. ASSUME NEW r \in Signals, NEW o \in Offsets, Missing(r, o)' PROVE FALSE
  <2>1. Missing(r, o)
    BY <1>1, <1>3 DEF Missing, InWindow
  <2>2. NotLate(r, o) /\ Phase = "tick" /\ now >= CloseTime
    BY <1>1, <2>1 DEF TracksInv, MissingNotLate, Phase, Booking, FlattenIsLate, Flattening, Late
  <2>3. now \in Int /\ parsedAt[r] \in Int /\ o \in Int /\ count \in 0 .. ReconcileEvery - 1
    BY DEF TypeOK
  <2>4. now - (parsedAt[r] + o) < 0 \/ now - (parsedAt[r] + o) <= count
    BY <2>2 DEF NotLate
  <2>5. QED BY <2>1, <2>2, <2>3, <2>4 DEF Missing
<1>4. QED BY <1>2, <1>3 DEF TracksInv, MissingNotLate

\* The pass has every missing price whose window has opened on its list.
LEMMA ReconcileDoneTracks == ASSUME TypeOK, TracksInv, ReconcileDone PROVE TracksInv'
<1> USE JournalAssumption DEF Never, Time
<1>1. /\ pc = "reconcile" /\ pc' = "tracks" /\ due' = TracksDue
      /\ UNCHANGED <<now, parsedAt, tracks, disturbed, count, back>>
  BY DEF ReconcileDone, Goto, rows, history
<1>2. RecordedInWindow' /\ FlattenIsLate'
  BY <1>1 DEF TracksInv, RecordedInWindow, FlattenIsLate, Flattening, Booking, InWindow
<1>3. DueInWindow'
  BY <1>1 DEF DueInWindow, TracksDue, InWindow
<1>4. ASSUME NEW r \in Signals, NEW o \in Offsets, Missing(r, o)' PROVE NotLate(r, o)'
  <2>1. Missing(r, o)
    BY <1>1, <1>4 DEF Missing, InWindow
  <2>2. NotLate(r, o) /\ Phase = "reconciling" /\ Phase' = "tracks"
    BY <1>1, <2>1 DEF TracksInv, MissingNotLate, Phase, Booking
  <2>3. now \in Int /\ parsedAt[r] \in Int /\ o \in Int
    BY DEF TypeOK
  <2>4. now - (parsedAt[r] + o) < 0 \/ now - (parsedAt[r] + o) < Grace
    BY <2>2, <2>3 DEF NotLate
  <2>5. now < parsedAt[r] + o \/ InWindow(r, o, now)
    BY <2>3, <2>4 DEF InWindow
  <2>6. InWindow(r, o, now) => <<r, o>> \in due'
    BY <1>1, <2>1 DEF TracksDue, Missing
  <2>7. QED BY <1>1, <2>2, <2>3, <2>5, <2>6 DEF NotLate
<1>5. QED BY <1>2, <1>3, <1>4 DEF TracksInv, MissingNotLate

LEMMA CaptureTrackTracks == ASSUME TypeOK, TracksInv, CaptureTrack PROVE TracksInv'
<1> USE JournalAssumption DEF Never, Time
<1>1. /\ pc = "tracks" /\ UNCHANGED <<pc, now, parsedAt, disturbed, count, back>>
  BY DEF CaptureTrack, history
<1>2. PICK s \in Signals, o \in Offsets :
          /\ <<s, o>> \in due /\ due' = due \ {<<s, o>>}
          /\ tracks' = [tracks EXCEPT ![s][o] = now]
  <2>1. PICK so \in due : due' = due \ {so} /\ tracks' = [tracks EXCEPT ![so[1]][so[2]] = now]
    BY DEF CaptureTrack
  <2>2. so[1] \in Signals /\ so[2] \in Offsets /\ so = <<so[1], so[2]>>
    BY DEF TypeOK
  <2>3. QED BY <2>1, <2>2
<1>3. /\ tracks'[s][o] = now
      /\ \A r \in Signals, q \in Offsets : <<r, q>> # <<s, o>> => tracks'[r][q] = tracks[r][q]
  BY <1>2 DEF TypeOK
<1>4. RecordedInWindow' /\ DueInWindow' /\ FlattenIsLate'
  <2>1. FlattenIsLate'
    BY <1>1 DEF FlattenIsLate, Flattening, Booking
  <2>2. DueInWindow'
    BY <1>1, <1>2 DEF TracksInv, DueInWindow, InWindow
  <2>3. RecordedInWindow'
    BY <1>1, <1>2, <1>3 DEF TracksInv, RecordedInWindow, DueInWindow, InWindow
  <2>4. QED BY <2>1, <2>2, <2>3
<1>5. ASSUME NEW r \in Signals, NEW q \in Offsets, Missing(r, q)' PROVE NotLate(r, q)'
  <2>1. <<r, q>> # <<s, o>>
    <3>1. now # Never
      BY DEF TypeOK
    <3>2. QED BY <1>3, <1>5, <3>1 DEF Missing
  <2>2. Missing(r, q)
    BY <1>1, <1>3, <1>5, <2>1 DEF Missing, InWindow
  <2>3. NotLate(r, q) /\ Phase = "tracks" /\ Phase' = "tracks"
    BY <1>1, <2>2 DEF TracksInv, MissingNotLate, Phase
  <2>4. QED BY <1>1, <1>2, <2>1, <2>3 DEF NotLate
<1>6. QED BY <1>4, <1>5 DEF TracksInv, MissingNotLate

\* What a pass that raises leaves out was disturbed in its window.
LEMMA PassEnds == ASSUME TypeOK, TracksInv, TrackRaises \/ TracksDone PROVE TracksInv'
<1> USE JournalAssumption DEF Never, Time
<1>1. /\ pc = "tracks" /\ pc' = "idle" /\ due' = {}
      /\ UNCHANGED <<now, parsedAt, tracks, count, back>>
      /\ disturbed \subseteq disturbed' /\ (due # {} => now \in disturbed')
  BY DEF TrackRaises, TracksDone, Goto, rows, history
<1>2. RecordedInWindow' /\ DueInWindow' /\ FlattenIsLate'
  BY <1>1 DEF TracksInv, RecordedInWindow, DueInWindow, FlattenIsLate, Flattening, Booking, InWindow
<1>3. ASSUME NEW r \in Signals, NEW o \in Offsets, Missing(r, o)' PROVE NotLate(r, o)'
  <2>1. Missing(r, o)
    BY <1>1, <1>3 DEF Missing, InWindow
  <2>2. NotLate(r, o) /\ Phase = "tracks"
    BY <1>1, <2>1 DEF TracksInv, MissingNotLate, Phase
  <2>3. <<r, o>> \notin due
    BY <1>1, <1>3 DEF TracksInv, DueInWindow, Missing, InWindow
  <2>4. QED BY <1>1, <2>2, <2>3 DEF NotLate
<1>4. QED BY <1>2, <1>3 DEF TracksInv, MissingNotLate

\* At any point of the loop a price that is missing is not overdue by a whole window.
LEMMA NotOverdue ==
    ASSUME TypeOK, TracksInv, NEW s \in Signals, NEW o \in Offsets, Missing(s, o),
           ~InWindow(s, o, now)
    PROVE  now < parsedAt[s] + o
<1> USE JournalAssumption DEF Never, Time
<1>1. NotLate(s, o)
  BY DEF TracksInv, MissingNotLate
<1>2. now \in Int /\ parsedAt[s] \in Int /\ o \in Int /\ count \in 0 .. ReconcileEvery - 1
  BY DEF TypeOK
<1>3. <<s, o>> \notin due
  BY DEF TracksInv, DueInWindow
<1>4. now - (parsedAt[s] + o) < ReconcileEvery
  BY <1>1, <1>2, <1>3 DEF NotLate
<1>5. QED BY <1>2, <1>4 DEF InWindow

\* The bot is down: a window that opens meanwhile is disturbed.
LEMMA DownTracks == ASSUME TypeOK, TracksInv, Crash \/ TimePasses \/ Restart PROVE TracksInv'
<1> USE JournalAssumption DEF Never, Time
<1>1. /\ UNCHANGED <<parsedAt, tracks>> /\ disturbed \subseteq disturbed'
      /\ pc' \in {"down", "idle"} /\ (pc = "down" => due' = due) /\ (pc # "down" => due' = {})
      /\ now' = now \/ now' = now + 1
  BY DEF Crash, TimePasses, Restart, rows, history, loop, Goto
<1>2. due' = {}
  <2>1. CASE pc = "down"
    <3>1. \A s \in Signals, o \in Offsets : <<s, o>> \notin due
      BY <2>1 DEF TracksInv, DueInWindow
    <3>2. due \subseteq Signals \X Offsets
      BY DEF TypeOK
    <3>3. ASSUME NEW so \in due PROVE FALSE
      <4>1. so[1] \in Signals /\ so[2] \in Offsets /\ so = <<so[1], so[2]>>
        BY <3>2
      <4>2. QED BY <3>1, <4>1
    <3>4. QED BY <1>1, <2>1, <3>3
  <2>2. QED BY <1>1, <2>1
<1>3. RecordedInWindow' /\ DueInWindow' /\ FlattenIsLate'
  BY <1>1, <1>2 DEF TracksInv, RecordedInWindow, DueInWindow, FlattenIsLate, Flattening, Booking,
                    InWindow
<1>4. ASSUME NEW r \in Signals, NEW o \in Offsets, Missing(r, o)' PROVE NotLate(r, o)'
  <2>1. Missing(r, o)
    BY <1>1, <1>4 DEF Missing, InWindow
  <2>2. now \in Int /\ parsedAt[r] \in Int /\ o \in Int
    BY DEF TypeOK
  <2>3. CASE Crash
    <3>1. ~InWindow(r, o, now) /\ now' = now
      BY <2>3, <1>4 DEF Crash, Missing, InWindow, rows
    <3>2. QED BY <1>1, <2>1, <2>2, <3>1, NotOverdue DEF NotLate
  <2>4. CASE TimePasses \/ Restart
    <3>1. NotLate(r, o) /\ Phase = "down"
      BY <2>1, <2>4 DEF TracksInv, MissingNotLate, Phase, TimePasses, Restart, Goto
    <3>2. now < parsedAt[r] + o
      BY <2>2, <3>1 DEF NotLate
    <3>3. now' < parsedAt[r] + o
      <4>1. CASE now' = now
        BY <3>2, <4>1
      <4>2. CASE TimePasses
        <5>1. now' = now + 1 /\ ~InWindow(r, o, now')
          BY <4>2, <1>4 DEF TimePasses, Missing, InWindow, rows
        <5>2. QED BY <2>2, <3>2, <5>1 DEF InWindow
      <4>3. QED BY <2>4, <4>1, <4>2 DEF Restart
    <3>4. QED BY <1>1, <2>2, <3>3 DEF NotLate, TypeOK
  <2>5. QED BY <2>3, <2>4, <1>1
<1>5. QED BY <1>3, <1>4 DEF TracksInv, MissingNotLate

LEMMA TracksStep == ASSUME TypeOK, TracksInv, [Next]_vars PROVE TracksInv'
<1>1. CASE \/ EntrySnapshot \/ MarkTaken \/ EntryRaises \/ PostsDrained
           \/ AdvancePositions /\ ~FlattenDone
           \/ TakeSnapshots /\ ~SnapshotsDone
           \/ SoldOutside
  <2>1. FlattenIsLate
    BY DEF TracksInv
  <2>2. Steady /\ (pc' = "tracks" <=> pc = "tracks") /\ FlattenIsLate'
    BY <1>1, <2>1, SteadySteps
  <2>3. QED BY <2>2, SteadyTracks
<1>2. CASE UNCHANGED vars
  <2>1. Steady /\ (pc' = "tracks" <=> pc = "tracks")
    BY <1>2 DEF vars, loop, rows, history, Steady, Phase
  <2>2. FlattenIsLate'
    BY <1>2 DEF vars, loop, rows, history, TracksInv, FlattenIsLate, Flattening, Late
  <2>3. QED BY <2>1, <2>2, SteadyTracks
<1>3. CASE BeginTick \/ \E s \in Signals : SignalRejected(s) \/ PositionOpened(s)
  BY <1>3, BeginTickTracks, NewSignalTracks
<1>4. CASE FlattenDone \/ SnapshotsDone
  BY <1>4, FlattenDoneTracks, SnapshotsDoneTracks
<1>5. CASE CaptureTracks
  BY <1>5, ReconcileDoneTracks, CaptureTrackTracks, PassEnds DEF CaptureTracks
<1>6. CASE Crash \/ TimePasses \/ Restart
  BY <1>6, DownTracks
<1>7. QED BY <1>1, <1>2, <1>3, <1>4, <1>5, <1>6 DEF Next, HandlePosts

\* Whatever fails or dies, a price of the study is recorded inside its window and not
\* later, and is missing when its window is over only if the bot was down or a pass
\* raised in it, or the window reaches past the close (_capture_price_tracks, and the
\* tick_count that brings it up every sixth tick).
THEOREM TimelyTracks == Spec => []TracksOnTime
<1>1. ASSUME TypeOK, TracksInv PROVE TracksOnTime
  <2>1. ASSUME NEW s \in Signals, NEW o \in Offsets
        PROVE  tracks[s][o] # Never => InWindow(s, o, tracks[s][o])
    BY <1>1 DEF TracksInv, RecordedInWindow
  <2>2. ASSUME NEW s \in Signals, NEW o \in Offsets,
               parsedAt[s] # Never, now >= parsedAt[s] + o + Grace
        PROVE  \/ tracks[s][o] # Never
               \/ \E t \in disturbed : InWindow(s, o, t)
               \/ parsedAt[s] + o + Grace > CloseTime
    <3>1. /\ now \in Int /\ parsedAt[s] \in Int /\ o \in Int
          /\ Grace \in Nat \ {0} /\ CloseTime \in Nat
      BY <1>1, JournalAssumption DEF TypeOK, Never, Time
    <3>2. ~InWindow(s, o, now) /\ ~(now < parsedAt[s] + o)
      BY <2>2, <3>1 DEF InWindow
    <3>3. ~Missing(s, o)
      BY <1>1, <3>2, NotOverdue
    <3>4. parsedAt[s] + o + Grace > CloseTime <=> ~(parsedAt[s] + o + Grace <= CloseTime)
      BY <3>1
    <3>5. QED BY <2>2, <3>3, <3>4 DEF Missing
  <2>3. QED BY <2>1, <2>2 DEF TracksOnTime
<1>2. TypeOK /\ TracksInv /\ [Next]_vars => TracksInv'
  BY TracksStep
<1>3. QED BY TracksInit, TypeCorrect, <1>1, <1>2, PTL DEF Spec

-----------------------------------------------------------------------------
\* What the gates let through is worth its order.

LEMMA DivBound ==
    ASSUME NEW a \in Nat, NEW b \in Nat \ {0}
    PROVE  a \div b \in Nat /\ b * (a \div b) <= a
BY SMTT(20)
LEMMA DivMod ==
    ASSUME NEW a \in Nat
    PROVE  /\ a \div 100 \in Nat /\ a % 100 \in 0 .. 99
           /\ a = 100 * (a \div 100) + (a % 100)
OBVIOUS
LEMMA StopBound ==
    ASSUME NEW ask \in Nat, StopLossPct >= 20
    PROVE  StopPrice(ask) \in Nat /\ 100 * StopPrice(ask) <= 80 * ask + 50
<1> DEFINE x == ask * (100 - StopLossPct)
<1>1. x \in Nat /\ x <= ask * 80
  <2>1. 100 - StopLossPct \in 0 .. 80
    BY GatesAssumption
  <2>2. QED BY <2>1, SMTT(20)
<1> DEFINE cents == x \div 100
           rest == x % 100
<1>2. cents \in Nat /\ rest \in 0 .. 99 /\ x = 100 * cents + rest
  BY <1>1, DivMod
<1>3. StopPrice(ask) = IF rest > 50 \/ (rest = 50 /\ cents % 2 = 1) THEN cents + 1 ELSE cents
  BY DEF StopPrice
<1> HIDE DEF x, cents, rest
<1>4. StopPrice(ask) \in {cents, cents + 1} /\ (StopPrice(ask) = cents + 1 => rest >= 50)
  <2>1. rest > 50 \/ (rest = 50 /\ cents % 2 = 1) => rest >= 50
    BY <1>2
  <2>2. QED BY <1>2, <1>3, <2>1
<1>5. QED BY <1>1, <1>2, <1>4

LEMMA SixTuple ==
    ASSUME NEW a, NEW b, NEW c, NEW d, NEW e, NEW f
    PROVE  DOMAIN <<a, b, c, d, e, f>> = 1 .. 6
OBVIOUS

LEMMA UpToSix == /\ {1, 2, 3, 4, 5, 6} \subseteq 1 .. 6
                 /\ \A i \in 1 .. 6 : i \in {1, 2, 3, 4, 5, 6}
OBVIOUS

LEMMA SixGates == \A m : DOMAIN Gates(m) = 1 .. 6
BY SixTuple, Zenon DEF Gates

LEMMA FailedIsNamed ==
    ASSUME NEW m \in Markets, ~Accepted(m)
    PROVE  FailedGate(m) # ""
<1> DEFINE failed == {i \in DOMAIN Gates(m) : ~Gates(m)[i].passed}
<1>1. DOMAIN Gates(m) = 1 .. 6 /\ \A i \in 1 .. 6 : Gates(m)[i].name # ""
  <2>1. \A i \in 1 .. 6 : Gates(m)[i].name # ""
    <3>1. /\ Gates(m)[1].name = "time_age" /\ Gates(m)[2].name = "market_open"
          /\ Gates(m)[3].name = "contract_exists" /\ Gates(m)[4].name = "spread"
          /\ Gates(m)[5].name = "price_deviation" /\ Gates(m)[6].name = "entry_iv"
      BY DEF Gates
    <3>2. \A i \in {1, 2, 3, 4, 5, 6} : Gates(m)[i].name # ""
      BY <3>1
    <3>3. QED BY <3>2, UpToSix, Zenon
  <2>2. QED BY <2>1, SixGates
<1>2. PICK f \in 1 .. 6 : f \in failed
  BY <1>1 DEF Accepted
<1>3. failed \subseteq 1 .. 6
  BY <1>1
<1> HIDE DEF failed
<1>4. \E i \in failed : \A j \in failed : i <= j
  BY <1>2, <1>3
<1>5. (CHOOSE i \in failed : \A j \in failed : i <= j) \in 1 .. 6
  BY <1>3, <1>4
<1>6. QED BY <1>1, <1>5 DEF FailedGate, failed

LEMMA Passed ==
    ASSUME NEW m \in Markets, Verdict(m) = ""
    PROVE  /\ Quoted(m) /\ NarrowSpread(m) /\ NearPost(m)
           /\ ~(Quantity(QuoteOf(m).ask) < 1)
<1>1. Accepted(m) /\ ~(Quantity(QuoteOf(m).ask) < 1)
  BY FailedIsNamed DEF Verdict
<1>2. Gates(m)[3].passed /\ Gates(m)[4].passed /\ Gates(m)[5].passed
  <2>1. \A i \in 1 .. 6 : Gates(m)[i].passed
    BY <1>1, SixGates, Zenon DEF Accepted
  <2>2. 3 \in 1 .. 6 /\ 4 \in 1 .. 6 /\ 5 \in 1 .. 6
    BY UpToSix, Zenon
  <2>3. QED BY <2>1, <2>2, Zenon
<1>3. QED BY <1>1, <1>2 DEF Gates

LEMMA QuoteTyped ==
    ASSUME NEW m \in Markets, Quoted(m)
    PROVE  /\ QuoteOf(m).bid \in Nat \ {0} /\ QuoteOf(m).ask \in Nat \ {0}
           /\ QuoteOf(m).bid <= QuoteOf(m).ask
<1>1. m.alpaca \in Prices /\ m.polygon \in Prices
  BY GatesAssumption DEF MarketType
<1>2. QED BY <1>1 DEF Quoted, QuoteOf, OptionQuote, Valid, Prices, NoAnswer

LEMMA QuantityBound ==
    ASSUME NEW ask \in Nat \ {0}, ~(Quantity(ask) < 1)
    PROVE  /\ Quantity(ask) \in 1 .. MaxQty
           /\ Quantity(ask) * Multiplier * ask <= SpendCap
<1> DEFINE affordable == SpendCap \div (Multiplier * ask)
<1>1. Multiplier * ask \in Nat \ {0} /\ SpendCap \in Nat /\ MaxQty \in Nat
  BY GatesAssumption DEF Multiplier
<1>2. affordable \in Nat /\ Multiplier * ask * affordable <= SpendCap
  BY <1>1, DivBound
<1>3. Quantity(ask) = IF affordable < MaxQty THEN affordable ELSE MaxQty
  BY DEF Quantity
<1> HIDE DEF affordable
<1>4. Quantity(ask) \in 1 .. MaxQty /\ Quantity(ask) <= affordable
  BY <1>1, <1>2, <1>3
<1>5. Quantity(ask) * Multiplier * ask <= affordable * Multiplier * ask
  <2>1. \A q, a \in Nat, p \in Nat : q <= a => q * p <= a * p
    BY SMTT(20)
  <2>2. Quantity(ask) * (Multiplier * ask) <= affordable * (Multiplier * ask)
    BY <1>1, <1>2, <1>4, <2>1
  <2>3. QED BY <1>1, <1>2, <1>4, <2>2 DEF Multiplier
<1>6. QED BY <1>1, <1>2, <1>4, <1>5 DEF Multiplier

LEMMA BelowLimit ==
    ASSUME NEW ask \in Nat, NEW posted \in Nat, NEW max \in Nat, NEW deviation,
           deviation = IF ask < posted THEN posted - ask ELSE ask - posted,
           100 * deviation < max * posted
    PROVE  100 * ask < (100 + max) * posted
<1>1. deviation \in Int /\ ask - posted <= deviation
  <2>1. CASE ask < posted
    BY <2>1
  <2>2. CASE ~(ask < posted)
    BY <2>2
  <2>3. QED BY <2>1, <2>2
<1>2. PICK limit \in Int : limit = max * posted
  OBVIOUS
<1>3. (100 + max) * posted = 100 * posted + limit
  BY <1>2
<1>4. QED BY <1>1, <1>2, <1>3

LEMMA AboveStop ==
    ASSUME NEW ask \in Nat, NEW bid \in Nat, NEW stop \in Nat,
           200 * (ask - bid) < 10 * (bid + ask), 100 * stop <= 80 * ask + 50, ask > 2
    PROVE  bid > stop
<1>1. 21 * bid > 19 * ask
  OBVIOUS
<1>2. CASE ask > 4
  BY <1>1, <1>2
<1>3. CASE ask = 3
  BY <1>1, <1>3
<1>4. CASE ask = 4
  BY <1>1, <1>4
<1>5. QED BY <1>2, <1>3, <1>4

LEMMA OrdersSound ==
    ASSUME StopLossPct >= 20
    PROVE  SoundOrders
<1> SUFFICES ASSUME NEW m \in Markets, Verdict(m) = ""
             PROVE  /\ Quantity(QuoteOf(m).ask) \in 1 .. MaxQty
                    /\ Quantity(QuoteOf(m).ask) * Multiplier * QuoteOf(m).ask <= SpendCap
                    /\ 100 * QuoteOf(m).ask < (100 + MaxDeviation) * m.posted
                    /\ QuoteOf(m).ask > 2 => QuoteOf(m).bid > StopPrice(QuoteOf(m).ask)
  BY DEF SoundOrders
<1> DEFINE ask == QuoteOf(m).ask
           bid == QuoteOf(m).bid
<1>1. NarrowSpread(m) /\ NearPost(m) /\ ~(Quantity(ask) < 1)
  BY Passed
<1>2. ask \in Nat \ {0} /\ bid \in Nat \ {0}
  BY Passed, QuoteTyped
<1>3. 200 * (ask - bid) < 10 * (bid + ask)
  BY <1>1 DEF NarrowSpread, MaxSpread
<1>4. m.posted \in Nat /\ MaxDeviation \in Nat
  BY GatesAssumption DEF MarketType
<1>5. 100 * Deviation(m) < MaxDeviation * m.posted
  BY <1>1 DEF NearPost
<1>6. Deviation(m) = IF ask < m.posted THEN m.posted - ask ELSE ask - m.posted
  BY DEF Deviation
<1>7. StopPrice(ask) \in Nat /\ 100 * StopPrice(ask) <= 80 * ask + 50
  BY <1>2, StopBound
<1>8. Quantity(ask) \in 1 .. MaxQty /\ Quantity(ask) * Multiplier * ask <= SpendCap
  BY <1>1, <1>2, QuantityBound
<1> HIDE DEF ask, bid
<1>9. 100 * ask < (100 + MaxDeviation) * m.posted
  BY <1>2, <1>4, <1>5, <1>6, BelowLimit
<1>10. ask > 2 => bid > StopPrice(ask)
  BY <1>2, <1>3, <1>7, AboveStop
<1>11. QED BY <1>8, <1>9, <1>10 DEF ask, bid

\* With a stop of 20% (the default) or more, every order the gates and the sizing send
\* is within the spend cap, near the post and above its own stop, for every quote, post
\* and cap.  With 16% or less the rounded stop can reach the bid of a few cents.
THEOREM SoundEntries == StopLossPct >= 20 => (Spec => []EntriesAreSound)
<1> SUFFICES ASSUME StopLossPct >= 20 PROVE Spec => []EntriesAreSound
  OBVIOUS
<1>1. EntriesAreSound
  BY OrdersSound DEF EntriesAreSound
<1>2. QED BY <1>1, PTL
=============================================================================
