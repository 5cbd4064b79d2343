--------------------------- MODULE Rotation_proofs ---------------------------
(***************************************************************************)
(* One replica under its probes, for any number of requests and checks,    *)
(* any pool size and overflow, whatever the database does: no slot of the  *)
(* pool is lost or invented, and old outages are forgotten.  The steps of  *)
(* the pool come first; the process's life adds that the pool may vanish   *)
(* as a whole.                                                             *)
(***************************************************************************)
EXTENDS Rotation, FiniteSetTheorems, SequenceTheorems, TLAPS

\* Why a task may fail is known before it does: it waits, its connection is dead or
\* its attempt at one lost, or the database does not answer as it should; and time
\* passes for a check for no other reason.
Explained(t) ==
    /\ result[t] = "failed" => t \in excused
    /\ pc[t] = "waiting" => t \in excused
    /\ pc[t] \in Holding \ {"pinging"} /\ conn[t] = "stale" => t \in excused
    /\ db # "up" /\ pc[t] # "idle" => t \in excused
    /\ t \in delayed => t \in excused /\ pc[t] # "idle"

IInv ==
    /\ TypeOK
    /\ SlotsAddUp
    /\ \A t \in Task : Explained(t)

(***************************************************************************)
(* Facts about the holders and the queue.                                  *)
(***************************************************************************)

\* There are finitely many holders, none if no task holds anything.
LEMMA HoldersAreFinite ==
    /\ IsFiniteSet(Holders)
    /\ Cardinality(Holders) \in Nat
    /\ Holders # {} => Cardinality(Holders) >= 1
<1>1. IsFiniteSet(Task)
  BY TasksAreFinite, FS_Union DEF Task
<1>2. IsFiniteSet(Holders)
  BY <1>1, FS_Subset DEF Holders
<1> QED
  BY <1>2, FS_CardinalityType, FS_EmptySet

\* A task that goes somewhere changes the number of holders by itself at most.
LEMMA HoldersMove ==
    ASSUME TypeOK, NEW t \in Task, NEW label \in Pc, pc' = [pc EXCEPT ![t] = label]
    PROVE  Cardinality(Holders') = Cardinality(Holders)
                                   + (IF label \in Holding THEN 1 ELSE 0)
                                   - (IF pc[t] \in Holding THEN 1 ELSE 0)
<1>1. /\ pc'[t] = label
      /\ \A u \in Task \ {t} : pc'[u] = pc[u]
      /\ t \in Holders <=> pc[t] \in Holding
  BY DEF TypeOK, Holders
<1>2. CASE label \in Holding
  <2>1. Holders' = Holders \cup {t}
    BY <1>1, <1>2 DEF Holders
  <2>2. Cardinality(Holders') = IF t \in Holders THEN Cardinality(Holders)
                                ELSE Cardinality(Holders) + 1
    BY <2>1, HoldersAreFinite, FS_AddElement
  <2> QED
    BY <1>1, <1>2, <2>2, HoldersAreFinite
<1>3. CASE label \notin Holding
  <2>1. Holders' = Holders \ {t}
    BY <1>1, <1>3 DEF Holders
  <2>2. Cardinality(Holders') = IF t \in Holders THEN Cardinality(Holders) - 1
                                ELSE Cardinality(Holders)
    BY <2>1, HoldersAreFinite, FS_RemoveElement
  <2> QED
    BY <1>1, <1>3, <2>2, HoldersAreFinite
<1> QED
  BY <1>2, <1>3

\* Changing what is in the records of a queue leaves it a queue, as long as it was.
LEMMA QueueInPlace ==
    ASSUME NEW queue \in Seq(Conn), NEW new \in [DOMAIN queue -> Conn]
    PROVE  new \in Seq(Conn) /\ Len(new) = Len(queue)
<1>1. Len(queue) \in Nat /\ DOMAIN queue = 1..Len(queue)
  BY LenProperties
<1>2. new \in Seq(Conn)
  BY <1>1, SeqDef
<1>3. Len(new) \in Nat /\ DOMAIN new = 1..Len(new)
  BY <1>2, LenProperties
<1> QED
  BY <1>1, <1>2, <1>3

LEMMA InvalidatedType ==
    ASSUME TypeOK
    PROVE  Invalidated \in Seq(Conn) /\ Len(Invalidated) = Len(idle)
<1>1. Invalidated \in [DOMAIN idle -> Conn]
  BY DEF Invalidated, Conn
<1> QED
  BY <1>1, QueueInPlace DEF TypeOK

\* A record that is given back is in the queue, or not counted any more.
LEMMA GivenBack ==
    ASSUME IInv, NEW queue \in Seq(Conn), Len(queue) = Len(idle), NEW c \in Conn,
           NEW t \in Task, pc[t] \in Holding, GiveBack(queue, c)
    PROVE  /\ idle' \in Seq(Conn) /\ Len(idle') <= PoolSize
           /\ total' \in Nat
           /\ total' - Len(idle') = total - Len(idle) - 1
           /\ total' <= total
<1>1. Len(queue) \in Nat /\ PoolSize \in Nat
  BY LenProperties, PoolSizeType
<1>2. Cardinality(Holders) \in Nat /\ Cardinality(Holders) >= 1
  BY HoldersAreFinite DEF Holders
<1>3. total \in Nat /\ total = Len(idle) + Cardinality(Holders) /\ Len(idle) <= PoolSize
  BY DEF IInv, TypeOK, SlotsAddUp
<1>4. CASE Len(queue) < PoolSize
  BY <1>1, <1>3, <1>4, AppendProperties DEF GiveBack
<1>5. CASE ~(Len(queue) < PoolSize)
  BY <1>1, <1>2, <1>3, <1>5 DEF GiveBack
<1> QED
  BY <1>4, <1>5

(***************************************************************************)
(* The slots.  A step moves one task, and the pool's count and the queue   *)
(* move along with it.                                                     *)
(***************************************************************************)

HeldBy(label) == IF label \in Holding THEN 1 ELSE 0

Balanced(t, label, c) ==
    /\ label \in Pc /\ pc' = [pc EXCEPT ![t] = label]
    /\ c \in Conn /\ conn' = [conn EXCEPT ![t] = c]
    /\ idle' \in Seq(Conn) /\ Len(idle') <= PoolSize
    /\ total' \in Nat /\ total' <= Limit
    /\ total' - Len(idle') = total - Len(idle) + HeldBy(label) - HeldBy(pc[t])

\* The numbers that the arithmetic below is about.
LEMMA Counts ==
    ASSUME IInv
    PROVE  /\ total \in Nat /\ total <= Limit /\ Limit \in Nat
           /\ Len(idle) \in Nat /\ Len(idle) <= PoolSize /\ PoolSize \in Nat
           /\ total = Len(idle) + Cardinality(Holders)
           /\ \A t \in Task : pc[t] \in Holding => total >= Len(idle) + 1
<1>1. /\ total \in Nat /\ total <= Limit /\ Len(idle) <= PoolSize
      /\ total = Len(idle) + Cardinality(Holders)
      /\ idle \in Seq(Conn)
  BY DEF IInv, TypeOK, SlotsAddUp
<1>2. Limit \in Nat /\ PoolSize \in Nat
  BY PoolSizeType, MaxOverflowType DEF Limit
<1>3. Len(idle) \in Nat
  BY <1>1, LenProperties
<1>4. Cardinality(Holders) \in Nat /\ (Holders # {} => Cardinality(Holders) >= 1)
  BY HoldersAreFinite
<1>5. ASSUME NEW t \in Task, pc[t] \in Holding PROVE Holders # {}
  BY <1>5 DEF Holders
<1> QED
  BY <1>1, <1>2, <1>3, <1>4, <1>5

LEMMA BalancedSlots ==
    ASSUME IInv, NEW t \in Task, NEW label, NEW c, Balanced(t, label, c)
    PROVE  SlotsAddUp'
<1>1. Cardinality(Holders') = Cardinality(Holders) + HeldBy(label) - HeldBy(pc[t])
  BY HoldersMove DEF IInv, Balanced, HeldBy
<1>2. Cardinality(Holders) \in Nat /\ HeldBy(label) \in Nat /\ HeldBy(pc[t]) \in Nat
  BY HoldersAreFinite DEF HeldBy
<1>3. Len(idle') \in Nat
  BY LenProperties DEF Balanced
<1> QED
  BY <1>1, <1>2, <1>3, Counts DEF Balanced, SlotsAddUp, Limit

\* To take the oldest record from the queue.
LEMMA TakeIsBalanced ==
    ASSUME IInv, NEW t \in Task, pc[t] \notin Holding, Take(t)
    PROVE  Balanced(t, IF Head(idle) = "none" THEN "connecting" ELSE "pinging", Head(idle))
<1>1. idle \in Seq(Conn) /\ idle # <<>>
  BY DEF IInv, TypeOK, Take
<1>2. Head(idle) \in Conn /\ Tail(idle) \in Seq(Conn) /\ Len(Tail(idle)) = Len(idle) - 1
  BY <1>1, HeadTailProperties
<1> QED
  BY <1>1, <1>2, Counts DEF Take, Goto, Balanced, HeldBy, Holding, Pc

\* To count a new one.
LEMMA CreateIsBalanced ==
    ASSUME IInv, NEW t \in Task, pc[t] \notin Holding, Create(t)
    PROVE  Balanced(t, "creating", "none")
BY Counts DEF IInv, TypeOK, Create, Goto, Balanced, HeldBy, Holding, Pc, Conn

\* To give one back.
LEMMA GiveBackIsBalanced ==
    ASSUME IInv, NEW t \in Task, pc[t] \in Holding,
           NEW queue \in Seq(Conn), Len(queue) = Len(idle), NEW c \in Conn,
           GiveBack(queue, c), Goto(t, "idle", "none")
    PROVE  Balanced(t, "idle", "none")
<1>1. /\ idle' \in Seq(Conn) /\ Len(idle') <= PoolSize
      /\ total' \in Nat
      /\ total' - Len(idle') = total - Len(idle) - 1
      /\ total' <= total
  BY GivenBack
<1>2. Len(idle') \in Nat
  BY <1>1, LenProperties
<1> QED
  BY <1>1, <1>2, Counts DEF Goto, Balanced, HeldBy, Holding, Pc, Conn

\* To uncount one.
LEMMA DropIsBalanced ==
    ASSUME IInv, NEW t \in Task, pc[t] \in Holding,
           total' = total - 1, UNCHANGED idle, Goto(t, "idle", "none")
    PROVE  Balanced(t, "idle", "none")
BY Counts DEF IInv, TypeOK, Goto, Balanced, HeldBy, Holding, Pc, Conn

\* To go on with the record one has, or without any.
LEMMA StayIsBalanced ==
    ASSUME IInv, NEW t \in Task, NEW label \in Pc, NEW c \in Conn,
           HeldBy(label) = HeldBy(pc[t]), Goto(t, label, c),
           UNCHANGED total, idle' \in Seq(Conn), Len(idle') = Len(idle)
    PROVE  Balanced(t, label, c)
<1>1. HeldBy(label) \in Int
  BY DEF HeldBy
<1> QED
  BY <1>1, Counts DEF IInv, TypeOK, Goto, Balanced

LEMMA BeginIsBalanced ==
    ASSUME IInv, NEW t \in Task, Begin(t)
    PROVE  \E label, c : Balanced(t, label, c)
<1>1. pc[t] \notin Holding
  BY DEF Begin, Holding
<1>2. CASE Take(t)
  BY <1>1, <1>2, TakeIsBalanced
<1>3. CASE Create(t)
  BY <1>1, <1>3, CreateIsBalanced
<1>4. CASE Goto(t, "waiting", "none") /\ UNCHANGED <<idle, total>>
  BY <1>1, <1>4, StayIsBalanced DEF IInv, TypeOK, HeldBy, Holding, Pc, Conn
<1> QED
  BY <1>2, <1>3, <1>4 DEF Begin

LEMMA ProbeTimesOutIsBalanced ==
    ASSUME IInv, NEW t \in Task, ProbeTimesOut(t)
    PROVE  \E label, c : Balanced(t, label, c)
<1>1. idle \in Seq(Conn) /\ conn[t] \in Conn
  BY DEF IInv, TypeOK
<1>2. CASE pc[t] = "waiting" /\ Goto(t, "idle", "none") /\ UNCHANGED <<idle, total>>
  BY <1>1, <1>2, StayIsBalanced DEF HeldBy, Holding, Pc, Conn
<1>3. CASE pc[t] = "creating" /\ Goto(t, "idle", "none")
           /\ total' = total - 1 /\ UNCHANGED idle
  BY <1>3, DropIsBalanced DEF Holding
<1>4. CASE pc[t] \in {"connecting", "pinging", "using"} /\ Goto(t, "idle", "none")
           /\ GiveBack(idle, "none")
  BY <1>1, <1>4, GiveBackIsBalanced DEF Holding, Conn
<1>5. CASE pc[t] = "closing" /\ Goto(t, "detached", conn[t]) /\ UNCHANGED <<idle, total>>
  BY <1>1, <1>5, StayIsBalanced DEF HeldBy, Holding, Pc
<1> QED
  BY <1>2, <1>3, <1>4, <1>5 DEF ProbeTimesOut, End

LEMMA StepIsBalanced ==
    ASSUME IInv, NEW t \in Task, Step(t)
    PROVE  \E label, c : Balanced(t, label, c)
<1>1. /\ idle \in Seq(Conn)
      /\ Invalidated \in Seq(Conn) /\ Len(Invalidated) = Len(idle)
      /\ "none" \in Conn /\ "live" \in Conn
  BY InvalidatedType DEF IInv, TypeOK, Conn
<1>2. CASE Awake(t)
  BY <1>2, TakeIsBalanced DEF Awake, Holding
<1>3. CASE CheckoutTimesOut(t)
  <2>1. CASE Create(t)
    BY <1>3, <2>1, CreateIsBalanced DEF CheckoutTimesOut, Holding
  <2>2. CASE Goto(t, "idle", "none") /\ UNCHANGED <<idle, total>>
    BY <1>1, <1>3, <2>2, StayIsBalanced DEF CheckoutTimesOut, HeldBy, Holding, Pc
  <2> QED
    BY <1>3, <2>1, <2>2 DEF CheckoutTimesOut, End
<1>4. CASE ConnectSucceeds(t)
  BY <1>1, <1>4, StayIsBalanced DEF ConnectSucceeds, HeldBy, Holding, Pc
<1>5. CASE ConnectFails(t)
  <2>1. CASE pc[t] = "creating"
    BY <1>5, <2>1, DropIsBalanced DEF ConnectFails, End, Holding
  <2>2. CASE pc[t] # "creating"
    BY <1>1, <1>5, <2>2, GiveBackIsBalanced DEF ConnectFails, End, Holding
  <2> QED
    BY <2>1, <2>2
<1>6. CASE PingSucceeds(t)
  BY <1>1, <1>6, StayIsBalanced DEF PingSucceeds, HeldBy, Holding, Pc
<1>7. CASE PingFails(t)
  BY <1>1, <1>7, StayIsBalanced DEF PingFails, HeldBy, Holding, Pc
<1>8. CASE StatementReturns(t)
  BY <1>1, <1>8, StayIsBalanced DEF StatementReturns, HeldBy, Holding, Pc
<1>9. CASE CommitReturns(t)
  BY <1>1, <1>9, GiveBackIsBalanced DEF CommitReturns, End, Holding
<1>10. CASE StatementTimesOut(t)
  BY <1>1, <1>10, StayIsBalanced DEF StatementTimesOut, HeldBy, Holding, Pc
<1>11. CASE StatementFails(t)
  BY <1>1, <1>11, GiveBackIsBalanced DEF StatementFails, End, Holding
<1>12. CASE CloseReturns(t)
  BY <1>1, <1>12, GiveBackIsBalanced DEF CloseReturns, End, Holding
<1>13. CASE CloseFails(t)
  BY <1>1, <1>13, GiveBackIsBalanced DEF CloseFails, End, Holding
<1>14. CASE ProbeTimesOut(t)
  BY <1>14, ProbeTimesOutIsBalanced
<1>15. CASE Delay(t)
  <2>1. Goto(t, pc[t], conn[t]) /\ pc[t] \in Pc /\ conn[t] \in Conn
    BY <1>15 DEF Delay, Goto, IInv, TypeOK
  <2> QED
    BY <1>1, <1>15, <2>1, StayIsBalanced DEF Delay
<1> QED
  BY <1>2, <1>3, <1>4, <1>5, <1>6, <1>7, <1>8, <1>9, <1>10, <1>11, <1>12, <1>13, <1>14,
     <1>15
     DEF Step, Connect, Answered, Finishes

\* What happens to the database or to connections moves no slot.
LEMMA EnvironmentSlots ==
    ASSUME IInv, Environment
    PROVE  /\ idle' \in Seq(Conn) /\ Len(idle') = Len(idle)
           /\ UNCHANGED <<total, pc>>
           /\ SlotsAddUp'
<1>1. idle \in Seq(Conn)
  BY DEF IInv, TypeOK
<1>2. idle' \in Seq(Conn) /\ Len(idle') = Len(idle)
  <2>1. CASE UNCHANGED idle
    BY <1>1, <2>1
  <2>2. CASE ConnectionsDie
    <3>1. idle' \in [DOMAIN idle -> Conn]
      BY <1>1, <2>2, LenProperties DEF ConnectionsDie, Dead, Conn
    <3> QED
      BY <1>1, <3>1, QueueInPlace
  <2>3. CASE IdleConnectionDies
    BY <1>1, <2>3, LenProperties, ExceptSeq DEF IdleConnectionDies, Conn
  <2> QED
    BY <2>1, <2>2, <2>3 DEF Environment, Slow, Unreachable, Recover
<1>3. UNCHANGED <<total, pc>>
  BY DEF Environment, Slow, Unreachable, ConnectionsDie, Recover, IdleConnectionDies
<1>4. Holders' = Holders
  BY <1>3 DEF Holders
<1> QED
  BY <1>2, <1>3, <1>4 DEF IInv, SlotsAddUp, Limit

(***************************************************************************)
(* The types, and the excuses.                                             *)
(***************************************************************************)

LEMMA TaskStepTypeOK ==
    ASSUME IInv, NEW t \in Task, Begin(t) \/ Step(t)
    PROVE  TypeOK' /\ SlotsAddUp'
<1>1. PICK label, c : Balanced(t, label, c)
  BY BeginIsBalanced, StepIsBalanced
<1>2. /\ idle' \in Seq(Conn) /\ total' \in Nat
      /\ pc' \in [Task -> Pc] /\ conn' \in [Task -> Conn]
  BY <1>1 DEF IInv, TypeOK, Balanced
<1>3. db' = db
  BY DEF Begin, Step, Connect, Answered, Finishes, Awake, CheckoutTimesOut,
         ConnectSucceeds, ConnectFails, PingSucceeds, PingFails, StatementReturns,
         CommitReturns, StatementTimesOut, StatementFails, CloseReturns, CloseFails,
         Delay, ProbeTimesOut
<1>4. \/ result' = result
      \/ \E outcome \in {"ok", "failed", None, result[t]} :
             result' = [result EXCEPT ![t] = outcome]
  BY DEF Begin, Step, Connect, Answered, Finishes, Awake, CheckoutTimesOut, End,
         ConnectSucceeds, ConnectFails, PingSucceeds, PingFails, StatementReturns,
         CommitReturns, StatementTimesOut, StatementFails, CloseReturns, CloseFails,
         Delay, ProbeTimesOut
<1>5. \/ excused' = excused
      \/ excused' \in {excused \cup {t}, excused \ {t}}
  <2>1. CASE Begin(t)
    BY <2>1 DEF Begin
  <2>2. CASE Step(t)
    BY <2>2 DEF Step, Connect, Answered, Finishes, Awake, CheckoutTimesOut,
         ConnectSucceeds, ConnectFails, PingSucceeds, PingFails, StatementReturns,
         CommitReturns, StatementTimesOut, StatementFails, CloseReturns, CloseFails,
         Delay, ProbeTimesOut, NoExcuse
  <2> QED
    BY <2>1, <2>2
<1>6. result' \in [Task -> {"ok", "failed", None}]
  BY <1>4 DEF IInv, TypeOK
<1>7. excused' \subseteq Task
  BY <1>5 DEF IInv, TypeOK
<1>8. delayed' \subseteq delayed \/ (t \in Probe /\ delayed' = delayed \cup {t})
  BY DEF Begin, Step, Connect, Answered, Finishes, Awake, CheckoutTimesOut, End,
         ConnectSucceeds, ConnectFails, PingSucceeds, PingFails, StatementReturns,
         CommitReturns, StatementTimesOut, StatementFails, CloseReturns, CloseFails,
         Delay, ProbeTimesOut
<1>9. TypeOK'
  BY <1>2, <1>3, <1>6, <1>7, <1>8 DEF IInv, TypeOK
<1> QED
  BY <1>1, <1>9, BalancedSlots

\* A task's step leaves the others, and the database, as they were.
LEMMA OthersStay ==
    ASSUME IInv, NEW t \in Task, Begin(t) \/ Step(t), NEW u \in Task, u # t
    PROVE  Explained(u)'
<1>1. PICK label, c : Balanced(t, label, c)
  BY BeginIsBalanced, StepIsBalanced
<1>2. pc'[u] = pc[u] /\ conn'[u] = conn[u]
  BY <1>1 DEF IInv, TypeOK, Balanced
<1>3. /\ db' = db /\ result'[u] = result[u]
      /\ u \in excused' <=> u \in excused
      /\ u \in delayed' <=> u \in delayed
  BY DEF IInv, TypeOK, Begin, Step, Connect, Answered, Finishes, Awake,
         CheckoutTimesOut, End,
         ConnectSucceeds, ConnectFails, PingSucceeds, PingFails, StatementReturns,
         CommitReturns, StatementTimesOut, StatementFails, CloseReturns, CloseFails,
         Delay, ProbeTimesOut, NoExcuse
<1> QED
  BY <1>2, <1>3 DEF IInv, Explained

\* A task that begins knows what it meets.
LEMMA BeginExplained ==
    ASSUME IInv, NEW t \in Task, Begin(t)
    PROVE  Explained(t)'
<1>1. /\ result' = [result EXCEPT ![t] = None] /\ db' = db
      /\ t \in excused' <=> db # "up" \/ pc'[t] = "waiting"
      /\ t \notin delayed'
  BY DEF Begin, Explained, IInv, TypeOK
<1>2. \/ pc'[t] \in {"waiting", "pinging"}
      \/ pc'[t] \in {"creating", "connecting"} /\ conn'[t] = "none"
  BY DEF Begin, Take, Create, Goto, IInv, TypeOK
<1>3. result'[t] = None
  BY <1>1 DEF IInv, TypeOK
<1> QED
  BY <1>1, <1>2, <1>3, NoneIsNoResult DEF Explained, Holding

\* A step of its own leaves a task excused: it fails where it has an excuse, and
\* uses a connection that was alive when it got it.
LEMMA StepExplained ==
    ASSUME IInv, NEW t \in Task, Step(t)
    PROVE  Explained(t)'
<1> DEFINE Gets(label, c) == pc'[t] = label /\ conn'[t] = c
           Keeps == /\ UNCHANGED <<db, excused>> /\ result'[t] = result[t]
                    /\ delayed' = delayed
<1>1. Explained(t) /\ pc[t] \in Pc
  BY DEF IInv, TypeOK
<1>2. ASSUME NEW label, NEW c, Goto(t, label, c) PROVE Gets(label, c)
  BY <1>2 DEF Goto, IInv, TypeOK
<1>3. ASSUME NEW outcome, End(t, outcome)
      PROVE  Gets("idle", "none") /\ result'[t] = outcome /\ t \notin delayed'
  BY <1>2, <1>3 DEF End, IInv, TypeOK
<1>4. CASE Awake(t)
  <2>1. pc'[t] \in {"connecting", "pinging"} /\ Keeps
    BY <1>2, <1>4 DEF Awake, Take
  <2> QED
    BY <1>1, <1>4, <2>1 DEF Awake, Explained
<1>5. CASE CheckoutTimesOut(t)
  <2>1. t \in excused /\ UNCHANGED <<db, excused>>
    BY <1>1, <1>5 DEF CheckoutTimesOut, Explained
  <2>2. pc'[t] \in {"creating", "idle"} /\ (pc'[t] = "idle" => t \notin delayed')
    BY <1>2, <1>3, <1>5 DEF CheckoutTimesOut, Create
  <2> QED
    BY <1>1, <1>5, <2>1, <2>2 DEF CheckoutTimesOut, Explained
<1>6. CASE ConnectSucceeds(t) \/ PingSucceeds(t)
  <2>1. Gets("using", "live") /\ Keeps
    BY <1>2, <1>6 DEF ConnectSucceeds, PingSucceeds
  <2> QED
    BY <1>1, <1>6, <2>1 DEF ConnectSucceeds, PingSucceeds, Explained
<1>7. CASE PingFails(t)
  <2>1. Gets("connecting", "none") /\ Keeps
    BY <1>2, <1>7 DEF PingFails
  <2> QED
    BY <1>1, <1>7, <2>1 DEF PingFails, Explained
<1>8. CASE ConnectFails(t) \/ StatementFails(t) \/ CloseFails(t)
  <2>1. Gets("idle", "none") /\ UNCHANGED <<db, excused>> /\ t \notin delayed'
    BY <1>3, <1>8 DEF ConnectFails, StatementFails, CloseFails
  <2>2. t \in excused \/ result'[t] = result[t]
    BY <1>1, <1>3, <1>8
       DEF ConnectFails, StatementFails, CloseFails, Explained, Holding
  <2> QED
    BY <1>1, <2>1, <2>2 DEF Explained
<1>9. CASE StatementReturns(t)
  <2>1. /\ Gets("closing", "live") /\ UNCHANGED <<db, excused, delayed>>
        /\ result'[t] = "ok"
    BY <1>2, <1>9 DEF StatementReturns, IInv, TypeOK
  <2> QED
    BY <1>1, <1>9, <2>1 DEF StatementReturns, Explained
<1>12. CASE CommitReturns(t) \/ CloseReturns(t)
  <2>1. Gets("idle", "none") /\ t \notin delayed'
    BY <1>3, <1>12 DEF CommitReturns, CloseReturns
  <2>2. result'[t] = "failed" => excused' = excused /\ result[t] = "failed"
    BY <1>3, <1>12 DEF CommitReturns, CloseReturns
  <2> QED
    BY <1>1, <2>1, <2>2 DEF Explained
<1>10. CASE StatementTimesOut(t)
  <2>1. Gets("closing", "live") /\ UNCHANGED <<db, excused, delayed>> /\ t \in excused
    BY <1>1, <1>2, <1>10 DEF StatementTimesOut, Explained
  <2> QED
    BY <2>1 DEF Explained
<1>11. CASE ProbeTimesOut(t)
  <2>1. /\ \/ Gets("idle", "none")
           \/ pc[t] = "closing" /\ Gets("detached", conn[t])
        /\ UNCHANGED <<db, excused>> /\ t \in excused /\ t \notin delayed'
    BY <1>1, <1>2, <1>3, <1>11 DEF ProbeTimesOut, Explained
  <2> QED
    BY <1>1, <2>1 DEF Explained
<1>13. CASE Delay(t)
  <2>1. t \in excused /\ pc[t] # "idle" /\ UNCHANGED <<db, pc, conn, result, excused>>
    BY <1>1, <1>13 DEF Delay, Explained, Holding
  <2> QED
    BY <1>1, <2>1 DEF Explained
<1> QED
  BY <1>4, <1>5, <1>6, <1>7, <1>8, <1>9, <1>10, <1>11, <1>12, <1>13
     DEF Step, Connect, Answered, Finishes

LEMMA TaskStep ==
    ASSUME IInv, NEW t \in Task, Begin(t) \/ Step(t)
    PROVE  IInv'
BY TaskStepTypeOK, OthersStay, BeginExplained, StepExplained DEF IInv

\* An outage blames itself on every task it meets, before it can kill a connection.
LEMMA EnvironmentStep ==
    ASSUME IInv, Environment
    PROVE  IInv'
<1>1. /\ idle' \in Seq(Conn) /\ UNCHANGED <<total, pc>> /\ SlotsAddUp'
  BY EnvironmentSlots
<1>2. CASE Slow \/ Unreachable
  <2>1. /\ db' \in Db /\ UNCHANGED <<conn, result>>
        /\ delayed' = delayed
        /\ excused \subseteq excused' /\ excused' \subseteq Task
        /\ \A u \in Task : pc[u] # "idle" => u \in excused'
    BY <1>2 DEF Slow, Unreachable, Blame, Db, IInv, TypeOK
  <2>2. TypeOK'
    BY <1>1, <2>1 DEF IInv, TypeOK
  <2>3. ASSUME NEW u \in Task PROVE Explained(u)'
    BY <1>1, <2>1 DEF IInv, Explained
  <2> QED
    BY <1>1, <2>2, <2>3 DEF IInv
<1>3. CASE ConnectionsDie
  <2>1. db' = db /\ db = "down" /\ UNCHANGED <<result, excused, delayed>>
        /\ conn' \in [Task -> Conn]
    BY <1>3 DEF ConnectionsDie, Dead, Conn, IInv, TypeOK
  <2>2. TypeOK'
    BY <1>1, <2>1 DEF IInv, TypeOK
  <2>3. ASSUME NEW u \in Task PROVE Explained(u)'
    BY <1>1, <2>1 DEF IInv, Explained, Holding
  <2> QED
    BY <1>1, <2>2, <2>3 DEF IInv
<1>4. CASE Recover \/ IdleConnectionDies
  <2>1. db' \in {db, "up"} /\ UNCHANGED <<conn, result, excused, delayed>>
    BY <1>4 DEF Recover, IdleConnectionDies
  <2>2. TypeOK'
    BY <1>1, <2>1 DEF IInv, TypeOK, Db
  <2>3. ASSUME NEW u \in Task PROVE Explained(u)'
    BY <1>1, <2>1 DEF IInv, Explained
  <2> QED
    BY <1>1, <2>2, <2>3 DEF IInv
<1> QED
  BY <1>2, <1>3, <1>4 DEF Environment

\* An empty pool with nobody in it, as at the start or after a restart.
Empty ==
    /\ idle = <<>>
    /\ total = 0
    /\ pc = [t \in Task |-> "idle"]
    /\ conn = [t \in Task |-> "none"]
    /\ result = [t \in Task |-> None]
    /\ delayed = {}
    /\ excused = {}
    /\ db \in Db

LEMMA EmptyPool == Empty => IInv
<1> SUFFICES ASSUME Empty PROVE IInv
  OBVIOUS
<1>1. Holders = {}
  BY DEF Empty, Holders, Holding
<1>2. Cardinality(Holders) = 0
  BY <1>1, FS_EmptySet
<1>3. Len(idle) = 0 /\ idle \in Seq(Conn)
  BY EmptySeq DEF Empty
<1>4. SlotsAddUp
  BY <1>2, <1>3, PoolSizeType, MaxOverflowType DEF Empty, SlotsAddUp, Limit
<1>5. TypeOK
  BY <1>3 DEF Empty, TypeOK, Pc, Conn
<1>6. \A t \in Task : Explained(t)
  BY NoneIsNoResult DEF Empty, Explained
<1> QED
  BY <1>4, <1>5, <1>6 DEF IInv

LEMMA PoolIsGoneStep ==
    ASSUME IInv, PoolIsGone
    PROVE  IInv'
<1>1. Empty'
  BY DEF PoolIsGone, Empty, IInv, TypeOK
<1>2. (Empty => IInv)'
  BY EmptyPool, PTL
<1> QED
  BY <1>1, <1>2

LEMMA UnchangedPool == IInv /\ UNCHANGED vars => IInv'
BY DEF vars, IInv, TypeOK, SlotsAddUp, Limit, Holders, Explained

(***************************************************************************)
(* The replica.                                                            *)
(***************************************************************************)

RIInv == IInv /\ process \in Process /\ inRotation \in BOOLEAN

LEMMA InitRIInv == RInit => RIInv
<1> SUFFICES ASSUME RInit PROVE RIInv
  OBVIOUS
<1>1. Empty
  BY DEF RInit, Init, Empty, Db
<1> QED
  BY <1>1, EmptyPool DEF RInit, RIInv, Process

\* Every step of the replica is one of its pool, or takes the pool away.
LEMMA StepRIInv == RIInv /\ [RNext]_rvars => RIInv'
<1> SUFFICES ASSUME RIInv, [RNext]_rvars PROVE RIInv'
  OBVIOUS
<1> USE DEF RIInv
<1>1. CASE Start \/ Hang \/ Terminate
  BY <1>1, UnchangedPool DEF Start, Hang, Terminate, Process
<1>2. CASE Restart \/ Dispose
  BY <1>2, PoolIsGoneStep DEF Restart, Dispose, Process
<1>3. CASE Surroundings
  BY <1>3, EnvironmentStep DEF Surroundings, deployment
<1>4. ASSUME NEW t \in Task, Arrive(t) PROVE RIInv'
  BY <1>4, TaskStep DEF Arrive, deployment
<1>5. ASSUME NEW t \in Task, Advance(t) PROVE RIInv'
  <2>1. Step(t) /\ UNCHANGED process
    BY <1>5 DEF Advance, Run
  <2>2. inRotation' \in BOOLEAN
    BY <1>5 DEF Advance, Run, Judge
  <2> QED
    BY <2>1, <2>2, TaskStep
<1>6. CASE UNCHANGED rvars
  BY <1>6, UnchangedPool DEF rvars, deployment
<1> QED
  BY <1>1, <1>2, <1>3, <1>4, <1>5, <1>6 DEF RNext

\* In every reachable state, the pool's accounts and the tasks' excuses hold.
THEOREM Invariance == RSpec => []RIInv
<1>1. RInit => RIInv
  BY InitRIInv
<1>2. RIInv /\ [RNext]_rvars => RIInv'
  BY StepRIInv
<1> QED
  BY <1>1, <1>2, PTL DEF RSpec

\* Type correctness of the replica and its pool.
THEOREM TypeCorrect == RSpec => []RTypeOK
<1>1. RIInv => RTypeOK
  BY DEF RIInv, IInv, RTypeOK
<1> QED
  BY <1>1, Invariance, PTL

\* The engine's pool leaks no connection and exceeds no limit: cancelled
\* readiness checks, failing connects, statements and rollbacks included.
THEOREM NoSlotIsLost == RSpec => []SlotsAddUp
<1>1. RIInv => SlotsAddUp
  BY DEF RIInv, IInv
<1> QED
  BY <1>1, Invariance, PTL

\* pool_pre_ping does its work: what failed met an outage or a full pool itself.
THEOREM OutagesAreForgotten == RSpec => []OldOutagesAreForgotten
<1>1. RIInv => OldOutagesAreForgotten
  BY DEF RIInv, IInv, Explained, OldOutagesAreForgotten
<1> QED
  BY <1>1, Invariance, PTL
==============================================================================
