--------------------------- MODULE SignalsProofs ---------------------------
(***************************************************************************)
(* Theorems about signals and timers, for every number of tasks, signals,  *)
(* timers and calls and every interleaving of tasks and the interrupt.     *)
(***************************************************************************)
EXTENDS Signals, FiniteSetTheorems, SequenceTheorems, WellFoundedInduction, TLAPS

-----------------------------------------------------------------------------
(***************************************************************************)
(* The queue: what retain and sort_by do to it.                            *)
(***************************************************************************)
\* What a queue consists of.
LEMMA QueueEntries ==
    ASSUME NEW q \in Seq(Entries)
    PROVE  /\ Len(q) \in Nat /\ DOMAIN q = 1..Len(q)
           /\ IsFiniteSet(DOMAIN q) /\ Cardinality(DOMAIN q) = Len(q)
           /\ \A k \in DOMAIN q : /\ q[k] \in Entries /\ q[k].at \in Int
                                  /\ q[k].id \in 1..MaxTimers /\ q[k].at \in 0..MaxTime
                                  /\ q[k].pid \in Tasks
<1>1. Len(q) \in Nat /\ DOMAIN q = 1..Len(q)
  BY LenProperties
<1>2. \A k \in DOMAIN q : q[k] \in Entries
  BY <1>1, ElementOfSeq
<1>3. \A e \in Entries : /\ e.id \in 1..MaxTimers /\ e.at \in 0..MaxTime /\ e.pid \in Tasks
                         /\ e.at \in Int
  BY SignalsConstants DEF Entries
<1>4. /\ IsFiniteSet(1..Len(q))
      /\ Cardinality(1..Len(q)) = IF 1 > Len(q) THEN 0 ELSE Len(q) - 1 + 1
  <2>1. 1 \in Int /\ Len(q) \in Int
    BY <1>1
  <2> QED
    BY <2>1, FS_Interval
<1> QED
  BY <1>1, <1>2, <1>3, <1>4

\* The entries that sort_by puts no later than entry i.
Below(q, i) == {j \in DOMAIN q : q[j].at < q[i].at \/ (q[j].at = q[i].at /\ j <= i)}
Before(q, i, j) == q[i].at < q[j].at \/ (q[i].at = q[j].at /\ i < j)

\* An entry that comes first has the smaller rank.
LEMMA RankLess ==
    ASSUME NEW q \in Seq(Entries), NEW i \in DOMAIN q, NEW j \in DOMAIN q, Before(q, i, j)
    PROVE  /\ Rank(q, i) \in 1..Len(q)
           /\ Rank(q, i) < Rank(q, j)
<1>1. DOMAIN q = 1..Len(q) /\ Len(q) \in Nat
  BY QueueEntries
<1>2. \A k \in DOMAIN q : q[k].at \in Int
  BY QueueEntries
<1>3. IsFiniteSet(DOMAIN q) /\ Cardinality(DOMAIN q) = Len(q)
  BY QueueEntries
<1>4. Below(q, i) \subseteq DOMAIN q /\ Below(q, j) \subseteq DOMAIN q
  BY DEF Below
<1>5. /\ IsFiniteSet(Below(q, i)) /\ Cardinality(Below(q, i)) <= Len(q)
      /\ IsFiniteSet(Below(q, j)) /\ Cardinality(Below(q, j)) <= Len(q)
  BY <1>3, <1>4, FS_Subset
<1>6. /\ Cardinality(Below(q, i)) \in Nat /\ Cardinality(Below(q, j)) \in Nat
  BY <1>5, FS_CardinalityType
<1>7. i \in Below(q, i)
  BY <1>1, <1>2 DEF Below
<1>8. Cardinality(Below(q, i)) # 0
  BY <1>5, <1>7, FS_EmptySet
<1>9. Below(q, i) \subseteq Below(q, j)
  BY <1>1, <1>2 DEF Below, Before
<1>10. j \in Below(q, j) /\ j \notin Below(q, i)
  BY <1>1, <1>2 DEF Below, Before
<1>11. /\ Cardinality(Below(q, i)) <= Cardinality(Below(q, j))
       /\ Cardinality(Below(q, j)) # Cardinality(Below(q, i))
  BY <1>5, <1>9, <1>10, FS_Subset
<1>12. Rank(q, i) = Cardinality(Below(q, i)) /\ Rank(q, j) = Cardinality(Below(q, j))
  BY DEF Rank, Below
<1> QED
  BY <1>1, <1>5, <1>6, <1>8, <1>11, <1>12

\* Ranks are positions, and no two entries have the same.
LEMMA RankType ==
    ASSUME NEW q \in Seq(Entries), NEW i \in DOMAIN q
    PROVE  Rank(q, i) \in 1..Len(q)
<1>1. DOMAIN q = 1..Len(q) /\ Len(q) \in Nat
  BY QueueEntries
<1>2. \A k \in DOMAIN q : q[k].at \in Int
  BY QueueEntries
<1>3. IsFiniteSet(DOMAIN q) /\ Cardinality(DOMAIN q) = Len(q)
  BY QueueEntries
<1>4. IsFiniteSet(Below(q, i)) /\ Cardinality(Below(q, i)) <= Len(q)
  BY <1>3, FS_Subset DEF Below
<1>5. Cardinality(Below(q, i)) \in Nat
  BY <1>4, FS_CardinalityType
<1>6. i \in Below(q, i)
  BY <1>1, <1>2 DEF Below
<1>7. Cardinality(Below(q, i)) # 0
  BY <1>4, <1>6, FS_EmptySet
<1>8. Rank(q, i) = Cardinality(Below(q, i))
  BY DEF Rank, Below
<1> QED
  BY <1>1, <1>4, <1>5, <1>7, <1>8

LEMMA RankInjective ==
    ASSUME NEW q \in Seq(Entries), NEW i \in DOMAIN q, NEW j \in DOMAIN q,
           Rank(q, i) = Rank(q, j)
    PROVE  i = j
<1>1. DOMAIN q = 1..Len(q) /\ Len(q) \in Nat
  BY QueueEntries
<1>2. q[i].at \in Int /\ q[j].at \in Int
  BY QueueEntries
<1>3. ~Before(q, i, j) /\ ~Before(q, j, i)
  <2>1. Rank(q, i) \in Int /\ Rank(q, j) \in Int
    BY RankType
  <2> QED
    BY <2>1, RankLess
<1> QED
  BY <1>1, <1>2, <1>3 DEF Before

\* Every position is the rank of an entry.
LEMMA RankOnto ==
    ASSUME NEW q \in Seq(Entries), NEW r \in 1..Len(q)
    PROVE  \E i \in DOMAIN q : Rank(q, i) = r
<1> DEFINE f == [i \in DOMAIN q |-> Rank(q, i)]
<1>1. DOMAIN q = 1..Len(q) /\ Len(q) \in Nat
  BY QueueEntries
<1>2. f \in [DOMAIN q -> 1..Len(q)]
  BY RankType
<1>3. \A i, j \in DOMAIN q : f[i] = f[j] => i = j
  BY RankInjective
<1>4. f \in Injection(DOMAIN q, 1..Len(q))
  BY <1>2, <1>3 DEF Injection, IsInjective
<1>5. IsFiniteSet(1..Len(q))
  BY <1>1, QueueEntries
<1> HIDE DEF f
<1>6. f \in Surjection(DOMAIN q, 1..Len(q))
  BY <1>1, <1>4, <1>5, FS_Injection
<1> QED
  BY <1>6 DEF Surjection, f

\* sort_by: the same entries, in order of their times.
LEMMA SortedQueue ==
    ASSUME NEW q \in Seq(Entries)
    PROVE  /\ Sorted(q) \in Seq(Entries) /\ Len(Sorted(q)) = Len(q)
           /\ DOMAIN Sorted(q) = DOMAIN q
           /\ \A r \in DOMAIN q : \E i \in DOMAIN q : Sorted(q)[r] = q[i] /\ Rank(q, i) = r
           /\ \A i \in DOMAIN q : \E r \in DOMAIN q : Sorted(q)[r] = q[i] /\ Rank(q, i) = r
           /\ \A r, s \in DOMAIN q : r < s => Sorted(q)[r].at <= Sorted(q)[s].at
<1> DEFINE f(r) == CHOOSE i \in DOMAIN q : Rank(q, i) = r
<1>1. Len(q) \in Nat /\ DOMAIN q = 1..Len(q)
  BY QueueEntries
<1>2. \A r \in DOMAIN q : f(r) \in DOMAIN q /\ Rank(q, f(r)) = r
  BY <1>1, RankOnto
<1>3. Sorted(q) = [r \in DOMAIN q |-> q[f(r)]]
  BY DEF Sorted
<1> HIDE DEF f
<1>4. Sorted(q) \in Seq(Entries) /\ Len(Sorted(q)) = Len(q) /\ DOMAIN Sorted(q) = DOMAIN q
  <2>1. \A r \in 1..Len(q) : q[f(r)] \in Entries
    BY <1>1, <1>2, QueueEntries
  <2>2. Sorted(q) \in [1..Len(q) -> Entries]
    BY <1>1, <1>3, <2>1
  <2> QED
    BY <1>1, <2>2
<1>5. \A r \in DOMAIN q : \E i \in DOMAIN q : Sorted(q)[r] = q[i] /\ Rank(q, i) = r
  BY <1>2, <1>3
<1>6. \A i \in DOMAIN q : \E r \in DOMAIN q : Sorted(q)[r] = q[i] /\ Rank(q, i) = r
  <2> SUFFICES ASSUME NEW i \in DOMAIN q
               PROVE  \E r \in DOMAIN q : Sorted(q)[r] = q[i] /\ Rank(q, i) = r
    OBVIOUS
  <2>1. Rank(q, i) \in DOMAIN q
    BY <1>1, RankType
  <2>2. f(Rank(q, i)) = i
    BY <1>2, <2>1, RankInjective
  <2> QED
    BY <1>3, <2>1, <2>2
<1>7. \A r, s \in DOMAIN q : r < s => Sorted(q)[r].at <= Sorted(q)[s].at
  <2> SUFFICES ASSUME NEW r \in DOMAIN q, NEW s \in DOMAIN q, r < s
               PROVE  q[f(r)].at <= q[f(s)].at
    BY <1>3
  <2>1. ~Before(q, f(s), f(r))
    BY <1>1, <1>2, RankLess
  <2>2. q[f(r)].at \in Int /\ q[f(s)].at \in Int
    BY <1>2, QueueEntries
  <2> QED
    BY <2>1, <2>2 DEF Before
<1> QED
  BY <1>4, <1>5, <1>6, <1>7

\* retain: the queue without the entry that expired.
LEMMA WithoutEntry ==
    ASSUME NEW q \in Seq(Entries), NEW i \in DOMAIN q
    PROVE  /\ Without(q, i) \in Seq(Entries) /\ Len(Without(q, i)) = Len(q) - 1
           /\ \A j \in 1..(Len(q) - 1) :
                Without(q, i)[j] = IF j < i THEN q[j] ELSE q[j + 1]
<1>1. Len(q) \in Nat /\ DOMAIN q = 1..Len(q) /\ i \in 1..Len(q)
  BY QueueEntries
<1> DEFINE A == SubSeq(q, 1, i - 1)
           B == SubSeq(q, i + 1, Len(q))
<1>2. A \in Seq(Entries) /\ Len(A) = i - 1 /\ \A k \in 1..(i - 1) : A[k] = q[k]
  BY <1>1
<1>3. B \in Seq(Entries) /\ Len(B) = Len(q) - i /\ \A k \in 1..(Len(q) - i) : B[k] = q[i + k]
  BY <1>1
<1>4. Without(q, i) = A \o B
  BY DEF Without
<1> HIDE DEF A, B
<1>5. /\ A \o B \in Seq(Entries) /\ Len(A \o B) = Len(A) + Len(B)
      /\ \A k \in 1..(Len(A) + Len(B)) :
           (A \o B)[k] = IF k <= Len(A) THEN A[k] ELSE B[k - Len(A)]
  BY <1>2, <1>3, ConcatProperties
<1>6. ASSUME NEW j \in 1..(Len(q) - 1)
      PROVE  (A \o B)[j] = IF j < i THEN q[j] ELSE q[j + 1]
  <2>1. CASE j < i
    BY <1>1, <1>2, <1>3, <1>5, <2>1
  <2>2. CASE j >= i
    <3>1. j - Len(A) \in 1..(Len(q) - i) /\ i + (j - Len(A)) = j + 1
      BY <1>1, <1>2, <2>2
    <3>2. (A \o B)[j] = B[j - Len(A)]
      <4>1. j \in 1..(Len(A) + Len(B)) /\ ~(j <= Len(A))
        BY <1>1, <1>2, <1>3, <2>2
      <4> QED
        BY <1>5, <4>1
    <3>3. B[j - Len(A)] = q[j + 1]
      BY <1>3, <3>1
    <3>4. ~(j < i)
      BY <1>1, <2>2
    <3> QED
      BY <3>2, <3>3, <3>4
  <2>3. j < i \/ j >= i
    BY <1>1
  <2> QED
    BY <2>1, <2>2, <2>3
<1> QED
  BY <1>1, <1>2, <1>3, <1>4, <1>5, <1>6

-----------------------------------------------------------------------------
(***************************************************************************)
(* The inductive invariant.                                                *)
(***************************************************************************)
\* Who holds TASK_MAP is the only actor between looking a task up and setting
\* its bit; from the moment it has read pending until it writes it back it
\* holds that task's signal lock, and what it read is still what is there.
LocksHeld ==
  /\ \A a \in Actors : pc[a] \in {"sig", "set"} <=> map_lock = a
  /\ \A a \in Actors : pc[a] \in {"sig", "set"} => tgt[a] \in Tasks
  /\ \A a \in Actors : pc[a] = "set" => /\ sig_lock[tgt[a]] = a
                                         /\ reg[a] = pending[tgt[a]]

\* handle_timer holds TIME_QUEUE from the first entry to the last, and the entry
\* it signals for is in the queue and due.
TimerScan ==
  /\ pc[Timer] \in {"idle", "queue", "scan", "map", "sig", "set"}
  /\ queue_lock = Timer <=> pc[Timer] \in {"scan", "map", "sig", "set"}
  /\ pc[Timer] \in {"map", "sig", "set"} => idx <= Len(queue) /\ queue[idx].at <= curr
  /\ \A t \in Tasks : pc[t] \in {"map", "sig", "set"} => tgt[t] \in Tasks

\* Timers are numbered in the order they are set.
TimerIds ==
  /\ \A i \in DOMAIN queue : queue[i].id < next_id
  /\ \A id \in fired : id < next_id

IInv == TypeOK /\ LocksHeld /\ TimerScan /\ TimersKept /\ TimerIds

\* There are no more entries in the queue than timers were ever set.
LEMMA QueueBound ==
    ASSUME IInv
    PROVE  Len(queue) <= MaxTimers
<1> DEFINE f == [i \in DOMAIN queue |-> queue[i].id]
<1>1. queue \in Seq(Entries) /\ MaxTimers \in Nat
  BY SignalsConstants DEF IInv, TypeOK
<1>2. /\ Len(queue) \in Nat /\ IsFiniteSet(DOMAIN queue)
      /\ Cardinality(DOMAIN queue) = Len(queue)
      /\ \A k \in DOMAIN queue : queue[k].id \in 1..MaxTimers
  BY <1>1, QueueEntries
<1>3. \A i, j \in DOMAIN queue : queue[i].id = queue[j].id => i = j
  BY DEF IInv, TimersKept
<1>4. f \in [DOMAIN queue -> 1..MaxTimers]
  BY <1>2
<1>5. f \in Injection(DOMAIN queue, 1..MaxTimers)
  BY <1>3, <1>4 DEF Injection, IsInjective
<1>6. /\ IsFiniteSet(1..MaxTimers)
      /\ Cardinality(1..MaxTimers) = IF 1 > MaxTimers THEN 0 ELSE MaxTimers - 1 + 1
  <2>1. 1 \in Int /\ MaxTimers \in Int
    BY <1>1
  <2> QED
    BY <2>1, FS_Interval
<1> HIDE DEF f
<1>7. Cardinality(DOMAIN queue) <= Cardinality(1..MaxTimers)
  BY <1>5, <1>6, FS_Injection
<1> QED
  BY <1>1, <1>2, <1>6, <1>7

\* The invariant holds before the first step.
LEMMA InitIInv == Init => IInv
<1> SUFFICES ASSUME Init PROVE IInv
  OBVIOUS
<1>1. Timer \notin Tasks /\ Free \notin Actors /\ Timer \in Actors
  BY SignalsConstants DEF Actors
<1>2. queue = <<>> /\ queue \in Seq(Entries) /\ Len(queue) = 0 /\ DOMAIN queue = {}
  BY DEF Init
<1>3. TypeOK
  <2>1. /\ now \in 0..MaxTime /\ curr \in 0..now /\ idx \in 1..(MaxTimers + 1)
        /\ next_id \in 1..(MaxTimers + 1) /\ fired \subseteq 1..MaxTimers
        /\ calls \in 0..MaxCalls /\ wake \in [Tasks -> 0..MaxTime]
    BY SignalsConstants DEF Init
  <2>2. /\ pending \in [Tasks -> SUBSET Sigs] /\ mask \in [Tasks -> SUBSET Sigs]
        /\ credit \in [Tasks -> [Sigs -> Int]]
    BY DEF Init
  <2>3. /\ pc \in [Actors -> Waits] /\ tgt \in [Actors -> Tasks \cup {Free}]
        /\ sig \in [Actors -> Nat] /\ reg \in [Actors -> SUBSET Sigs]
    BY DEF Init, Waits
  <2>4. /\ map_lock \in Actors \cup {Free} /\ queue_lock \in {Timer, Free}
        /\ sig_lock \in [Tasks -> Actors \cup {Free}]
    BY DEF Init
  <2> QED
    BY <1>2, <2>1, <2>2, <2>3, <2>4 DEF TypeOK
<1>4. LocksHeld
  BY <1>1 DEF Init, LocksHeld
<1>5. TimerScan
  BY <1>1 DEF Init, TimerScan, Actors
<1>6. TimersKept /\ TimerIds
  BY <1>2 DEF Init, TimersKept, TimerIds
<1> QED
  BY <1>3, <1>4, <1>5, <1>6 DEF IInv

-----------------------------------------------------------------------------
(***************************************************************************)
(* Every step keeps the invariant.                                         *)
(***************************************************************************)
\* Who the actors are.
LEMMA ActorFacts ==
    /\ Timer \notin Tasks /\ Timer \in Actors /\ Free \notin Actors
    /\ \A t \in Tasks : t \in Actors /\ t # Timer
    /\ \A a \in Actors : a # Free /\ (a \in Tasks \/ a = Timer)
BY SignalsConstants DEF Actors

\* Steps that leave the queue alone keep what is known of timers.
LEMMA SameTimers ==
    ASSUME IInv, UNCHANGED timers
    PROVE  TimersKept' /\ TimerIds'
BY DEF IInv, timers, TimersKept, TimerIds

\* An actor goes on: what that does to where the actors are.
LEMMA MovesOn ==
    ASSUME IInv, NEW a \in Actors, NEW w \in Waits, pc' = [pc EXCEPT ![a] = w]
    PROVE  /\ pc' \in [Actors -> Waits] /\ pc'[a] = w
           /\ \A b \in Actors \ {a} : pc'[b] = pc[b]
BY DEF IInv, TypeOK

\* Where neither TASK_MAP nor a signal lock is taken or let go, nothing changes
\* about who holds them.
LEMMA SameLocks ==
    ASSUME IInv, NEW a \in Actors, NEW w \in Waits, pc' = [pc EXCEPT ![a] = w],
           pc[a] \notin {"sig", "set"}, w \notin {"sig", "set"},
           UNCHANGED <<pending, tgt, reg, map_lock, sig_lock>>
    PROVE  LocksHeld'
<1>1. \A b \in Actors : /\ pc'[b] \in {"sig", "set"} <=> pc[b] \in {"sig", "set"}
                        /\ pc'[b] = "set" => pc[b] = "set"
  BY MovesOn
<1> QED
  BY <1>1 DEF IInv, LocksHeld

\* The interrupt advances the time.
LEMMA AdvanceStep ==
    ASSUME IInv, Advance
    PROVE  IInv'
<1>1. TypeOK'
  BY SignalsConstants DEF IInv, TypeOK, Waits, Advance, locks, actor, timers
<1>2. LocksHeld'
  BY ActorFacts DEF IInv, TypeOK, LocksHeld, Advance, locks, actor
<1>3. TimerScan'
  BY SignalsConstants, ActorFacts DEF IInv, TypeOK, TimerScan, Advance, locks, actor, timers
<1>4. TimersKept' /\ TimerIds'
  BY SameTimers DEF Advance
<1> QED
  BY <1>1, <1>2, <1>3, <1>4 DEF IInv

\* kill with 0.
LEMMA KillNullStep ==
    ASSUME IInv, NEW t \in Tasks, sys_kill_null(t)
    PROVE  IInv'
<1>1. TypeOK'
  BY SignalsConstants DEF IInv, TypeOK, Waits, sys_kill_null, Call, locks, actor, timers
<1>2. LocksHeld'
  BY ActorFacts DEF IInv, TypeOK, LocksHeld, sys_kill_null, locks, actor
<1>3. TimerScan'
  BY SignalsConstants, ActorFacts DEF IInv, TypeOK, TimerScan, sys_kill_null, locks, actor, timers
<1>4. TimersKept' /\ TimerIds'
  BY SameTimers DEF sys_kill_null
<1> QED
  BY <1>1, <1>2, <1>3, <1>4 DEF IInv

\* sigprocmask.
LEMMA MaskStep ==
    ASSUME IInv, NEW t \in Tasks, NEW set \in Masks, sys_sigprocmask(t, set)
    PROVE  IInv'
<1>1. TypeOK'
  <2>1. set \in SUBSET Sigs /\ mask[t] \in SUBSET Sigs
    BY SignalsConstants DEF IInv, TypeOK, Sigs
  <2>2. PICK m \in {mask[t] \cup set, mask[t] \ set, set} : mask' = [mask EXCEPT ![t] = m]
    BY DEF sys_sigprocmask
  <2>3. m \in SUBSET Sigs
    BY <2>1
  <2>4. mask' \in [Tasks -> SUBSET Sigs]
    BY <2>2, <2>3 DEF IInv, TypeOK
  <2>5. calls' \in 0..MaxCalls
    BY SignalsConstants DEF IInv, TypeOK, sys_sigprocmask, Call
  <2> QED
    BY <2>4, <2>5 DEF IInv, TypeOK, sys_sigprocmask, locks, actor, timers
<1>2. LocksHeld'
  BY DEF IInv, LocksHeld, sys_sigprocmask, locks, actor
<1>3. TimerScan'
  BY DEF IInv, TimerScan, sys_sigprocmask, locks, actor, timers
<1>4. TimersKept' /\ TimerIds'
  BY SameTimers DEF sys_sigprocmask
<1> QED
  BY <1>1, <1>2, <1>3, <1>4 DEF IInv

\* sleep_ms begins.
LEMMA SleepStep ==
    ASSUME IInv, NEW t \in Tasks, NEW ms \in 1..MaxTime, sleep_ms(t, ms)
    PROVE  IInv'
<1>0. /\ "sleep" \in Waits /\ pc' = [pc EXCEPT ![t] = "sleep"]
      /\ pc[t] \notin {"sig", "set"} /\ t \in Actors
  BY ActorFacts DEF sleep_ms, Waits, Call
<1>1. TypeOK'
  <2>1. calls' \in 0..MaxCalls /\ wake' \in [Tasks -> 0..MaxTime]
    BY SignalsConstants, ActorFacts DEF IInv, TypeOK, sleep_ms, Call
  <2> QED
    BY <1>0, <2>1, MovesOn DEF IInv, TypeOK, sleep_ms, locks, timers
<1>2. LocksHeld'
  BY <1>0, SameLocks DEF sleep_ms, locks
<1>3. TimerScan'
  BY SignalsConstants, ActorFacts DEF IInv, TypeOK, TimerScan, sleep_ms, locks, timers
<1>4. TimersKept' /\ TimerIds'
  BY SameTimers DEF sleep_ms
<1> QED
  BY <1>1, <1>2, <1>3, <1>4 DEF IInv

\* sleep_ms ends.
LEMMA WakeStep ==
    ASSUME IInv, NEW t \in Tasks, Wake(t)
    PROVE  IInv'
<1>0. /\ "idle" \in Waits /\ pc' = [pc EXCEPT ![t] = "idle"]
      /\ pc[t] \notin {"sig", "set"} /\ t \in Actors
  BY ActorFacts DEF Wake, Waits
<1>1. TypeOK'
  <2>1. wake' \in [Tasks -> 0..MaxTime]
    BY SignalsConstants, ActorFacts DEF IInv, TypeOK, Wake
  <2> QED
    BY <1>0, <2>1, MovesOn DEF IInv, TypeOK, Wake, locks, timers
<1>2. LocksHeld'
  BY <1>0, SameLocks DEF Wake, locks
<1>3. TimerScan'
  BY SignalsConstants, ActorFacts DEF IInv, TypeOK, TimerScan, Wake, locks, timers
<1>4. TimersKept' /\ TimerIds'
  BY SameTimers DEF Wake
<1> QED
  BY <1>1, <1>2, <1>3, <1>4 DEF IInv

\* handle_timer reads the time.
LEMMA ReadTimeStep ==
    ASSUME IInv, ReadTime
    PROVE  IInv'
<1>0. /\ "queue" \in Waits /\ pc' = [pc EXCEPT ![Timer] = "queue"]
      /\ pc[Timer] \notin {"sig", "set"} /\ Timer \in Actors
  BY ActorFacts DEF ReadTime, Waits
<1>1. TypeOK'
  <2>1. curr' \in 0..now'
    BY SignalsConstants, ActorFacts DEF IInv, TypeOK, ReadTime
  <2> QED
    BY <1>0, <2>1, MovesOn DEF IInv, TypeOK, ReadTime, locks, timers
<1>2. LocksHeld'
  BY <1>0, SameLocks DEF ReadTime, locks
<1>3. TimerScan'
  BY SignalsConstants, ActorFacts DEF IInv, TypeOK, TimerScan, ReadTime, locks, timers
<1>4. TimersKept' /\ TimerIds'
  BY SameTimers DEF ReadTime
<1> QED
  BY <1>1, <1>2, <1>3, <1>4 DEF IInv

\* handle_timer takes the queue.
LEMMA LockQueueStep ==
    ASSUME IInv, LockQueue
    PROVE  IInv'
<1>0. /\ "scan" \in Waits /\ pc' = [pc EXCEPT ![Timer] = "scan"]
      /\ pc[Timer] \notin {"sig", "set"} /\ Timer \in Actors
  BY ActorFacts DEF LockQueue, Waits
<1>1. TypeOK'
  <2>1. idx' \in 1..(MaxTimers + 1) /\ queue_lock' \in {Timer, Free}
    BY SignalsConstants, ActorFacts DEF IInv, TypeOK, LockQueue, First
  <2> QED
    BY <1>0, <2>1, MovesOn DEF IInv, TypeOK, LockQueue, timers
<1>2. LocksHeld'
  BY <1>0, SameLocks DEF LockQueue
<1>3. TimerScan'
  BY SignalsConstants, ActorFacts DEF IInv, TypeOK, TimerScan, LockQueue, timers
<1>4. TimersKept' /\ TimerIds'
  BY SameTimers DEF LockQueue
<1> QED
  BY <1>1, <1>2, <1>3, <1>4 DEF IInv

\* handle_timer is through the queue.
LEMMA UnlockQueueStep ==
    ASSUME IInv, UnlockQueue
    PROVE  IInv'
<1>0. /\ "idle" \in Waits /\ pc' = [pc EXCEPT ![Timer] = "idle"]
      /\ pc[Timer] \notin {"sig", "set"} /\ Timer \in Actors
  BY ActorFacts DEF UnlockQueue, Waits
<1>1. TypeOK'
  <2>1. idx' \in 1..(MaxTimers + 1) /\ queue_lock' \in {Timer, Free}
    BY SignalsConstants, ActorFacts DEF IInv, TypeOK, UnlockQueue
  <2> QED
    BY <1>0, <2>1, MovesOn DEF IInv, TypeOK, UnlockQueue, timers
<1>2. LocksHeld'
  BY <1>0, SameLocks DEF UnlockQueue
<1>3. TimerScan'
  BY SignalsConstants, ActorFacts DEF IInv, TypeOK, TimerScan, UnlockQueue, timers
<1>4. TimersKept' /\ TimerIds'
  BY SameTimers DEF UnlockQueue
<1> QED
  BY <1>1, <1>2, <1>3, <1>4 DEF IInv

\* An entry that is not due stays.
LEMMA KeepStep ==
    ASSUME IInv, Keep
    PROVE  IInv'
<1>1. TypeOK'
  BY SignalsConstants, QueueBound, QueueEntries DEF IInv, TypeOK, Waits, Keep, locks, actor, timers
<1>2. LocksHeld'
  BY ActorFacts DEF IInv, TypeOK, LocksHeld, Keep, locks, actor
<1>3. TimerScan'
  BY SignalsConstants, ActorFacts DEF IInv, TypeOK, TimerScan, Keep, locks, actor, timers
<1>4. TimersKept' /\ TimerIds'
  BY SameTimers DEF Keep
<1> QED
  BY <1>1, <1>2, <1>3, <1>4 DEF IInv

\* TASK_MAP is taken and the task is there.
LEMMA LockMapStep ==
    ASSUME IInv, NEW a \in Actors, LockMap(a)
    PROVE  IInv'
<1>0. /\ "sig" \in Waits /\ pc' = [pc EXCEPT ![a] = "sig"] /\ map_lock = Free /\ map_lock' = a
      /\ tgt[a] \in Tasks /\ UNCHANGED <<tgt, reg, pending, sig_lock>>
  BY SignalsConstants DEF LockMap, Waits
<1>1. TypeOK'
  BY <1>0, MovesOn DEF IInv, TypeOK, LockMap, timers
<1>2. LocksHeld'
  <2>1. \A b \in Actors : pc[b] \notin {"sig", "set"}
    BY <1>0, ActorFacts DEF IInv, LocksHeld
  <2>2. pc'[a] = "sig" /\ \A b \in Actors \ {a} : pc'[b] = pc[b]
    BY <1>0, MovesOn
  <2> QED
    BY <1>0, <2>1, <2>2 DEF LocksHeld
<1>3. TimerScan'
  BY SignalsConstants, ActorFacts DEF IInv, TypeOK, TimerScan, LockMap, timers
<1>4. TimersKept' /\ TimerIds'
  BY SameTimers DEF LockMap
<1> QED
  BY <1>1, <1>2, <1>3, <1>4 DEF IInv

\* The task's signal lock is taken and pending read.
LEMMA LockSigStep ==
    ASSUME IInv, NEW a \in Actors, LockSig(a)
    PROVE  IInv'
<1>1. TypeOK'
  <2>1. tgt[a] \in Tasks
    BY DEF IInv, LocksHeld, LockSig
  <2>2. pending[tgt[a]] \in SUBSET Sigs
    BY <2>1 DEF IInv, TypeOK
  <2>3. /\ sig_lock' \in [Tasks -> Actors \cup {Free}]
        /\ reg' \in [Actors -> SUBSET Sigs] /\ pc' \in [Actors -> Waits]
    BY <2>2 DEF IInv, TypeOK, Waits, LockSig
  <2> QED
    BY <2>3 DEF IInv, TypeOK, LockSig, timers
<1>2. LocksHeld'
  BY ActorFacts DEF IInv, TypeOK, LocksHeld, LockSig, SigFree
<1>3. TimerScan'
  BY SignalsConstants, ActorFacts DEF IInv, TypeOK, TimerScan, LockSig, timers
<1>4. TimersKept' /\ TimerIds'
  BY SameTimers DEF LockSig
<1> QED
  BY <1>1, <1>2, <1>3, <1>4 DEF IInv

\* A task takes a signal.
LEMMA PopStep ==
    ASSUME IInv, NEW t \in Tasks, pop_signal(t)
    PROVE  IInv'
<1>1. TypeOK'
  <2> DEFINE s == Lowest(Deliverable(t))
  <2>1. /\ pending' = [pending EXCEPT ![t] = pending[t] \ {s}]
        /\ credit' = [credit EXCEPT ![t] = [credit[t] EXCEPT ![s] = credit[t][s] - 1]]
    BY DEF pop_signal
  <2> HIDE DEF s
  <2>2. credit[t] \in [Sigs -> Int]
    BY DEF IInv, TypeOK
  <2>3. [credit[t] EXCEPT ![s] = credit[t][s] - 1] \in [Sigs -> Int]
    <3>1. CASE s \in Sigs
      BY <2>2, <3>1
    <3>2. CASE s \notin Sigs
      BY <2>2, <3>2
    <3> QED
      BY <3>1, <3>2
  <2>4. pending' \in [Tasks -> SUBSET Sigs] /\ credit' \in [Tasks -> [Sigs -> Int]]
    BY <2>1, <2>3 DEF IInv, TypeOK
  <2> QED
    BY <2>4 DEF IInv, TypeOK, pop_signal, locks, actor, timers
<1>2. LocksHeld'
  BY ActorFacts DEF IInv, TypeOK, LocksHeld, pop_signal, SigFree, locks, actor
<1>3. TimerScan'
  BY SignalsConstants, ActorFacts DEF IInv, TypeOK, TimerScan, pop_signal, locks, actor, timers
<1>4. TimersKept' /\ TimerIds'
  BY SameTimers DEF pop_signal
<1> QED
  BY <1>1, <1>2, <1>3, <1>4 DEF IInv

\* An actor begins to signal a task: what that does to the actors.
LEMMA SignalActor ==
    ASSUME IInv, NEW a \in Actors, NEW p \in Tasks, NEW s \in Nat, Signal(a, p, s)
    PROVE  /\ pc' \in [Actors -> Waits] /\ tgt' \in [Actors -> Tasks \cup {Free}]
           /\ sig' \in [Actors -> Nat] /\ credit' \in [Tasks -> [Sigs -> Int]]
           /\ pc'[a] = "map" /\ tgt'[a] = p
           /\ \A b \in Actors \ {a} : pc'[b] = pc[b] /\ tgt'[b] = tgt[b]
<1>1. credit[p] \in [Sigs -> Int]
  BY DEF IInv, TypeOK
<1>2. Sent(credit[p], s) \in [Sigs -> Int]
  BY <1>1 DEF Sent
<1>3. credit' \in [Tasks -> [Sigs -> Int]]
  BY <1>2 DEF IInv, TypeOK, Signal
<1>4. pc' \in [Actors -> Waits]
  BY DEF IInv, TypeOK, Signal, Waits
<1> QED
  BY <1>3, <1>4 DEF IInv, TypeOK, Signal

\* Signalling takes no lock yet.
LEMMA SignalLocks ==
    ASSUME IInv, NEW a \in Actors, NEW p \in Tasks, NEW s \in Nat, Signal(a, p, s),
           pc[a] \in {"idle", "scan"}, UNCHANGED <<pending, reg, locks>>
    PROVE  LocksHeld'
<1>1. /\ pc'[a] = "map"
      /\ \A b \in Actors \ {a} : pc'[b] = pc[b] /\ tgt'[b] = tgt[b]
  BY SignalActor
<1>2. \A b \in Actors : /\ pc'[b] \in {"sig", "set"} <=> pc[b] \in {"sig", "set"}
                        /\ pc'[b] = "set" => pc[b] = "set"
                        /\ pc[b] \in {"sig", "set"} => tgt'[b] = tgt[b]
  BY <1>1
<1> QED
  BY <1>2 DEF IInv, LocksHeld, locks

\* kill.
LEMMA KillStep ==
    ASSUME IInv, NEW t \in Tasks, NEW p \in Tasks, NEW s \in Numbers, sys_kill(t, p, s)
    PROVE  IInv'
<1>0. s \in Nat /\ Signal(t, p, s)
  BY SignalsConstants DEF sys_kill
<1>1. TypeOK'
  <2>1. calls' \in 0..MaxCalls
    BY SignalsConstants DEF IInv, TypeOK, sys_kill, Call
  <2> QED
    BY <1>0, <2>1, ActorFacts, SignalActor DEF IInv, TypeOK, sys_kill, locks, timers
<1>2. LocksHeld'
  BY <1>0, ActorFacts, SignalLocks DEF sys_kill, Call
<1>3. TimerScan'
  <2>1. pc'[t] = "map" /\ tgt'[t] = p /\ t # Timer
        /\ \A b \in Actors \ {t} : pc'[b] = pc[b] /\ tgt'[b] = tgt[b]
    BY <1>0, ActorFacts, SignalActor
  <2> QED
    BY <2>1, ActorFacts DEF IInv, TimerScan, sys_kill, locks, timers
<1>4. TimersKept' /\ TimerIds'
  BY SameTimers DEF sys_kill
<1> QED
  BY <1>1, <1>2, <1>3, <1>4 DEF IInv

\* tkill.
LEMMA TkillStep ==
    ASSUME IInv, NEW t \in Tasks, NEW p \in Tasks, NEW s \in Numbers, sys_tkill(t, p, s)
    PROVE  IInv'
<1>0. s \in Nat /\ Signal(t, p, s)
  BY SignalsConstants DEF sys_tkill
<1>1. TypeOK'
  <2>1. calls' \in 0..MaxCalls
    BY SignalsConstants DEF IInv, TypeOK, sys_tkill, Call
  <2> QED
    BY <1>0, <2>1, ActorFacts, SignalActor DEF IInv, TypeOK, sys_tkill, locks, timers
<1>2. LocksHeld'
  BY <1>0, ActorFacts, SignalLocks DEF sys_tkill, Call
<1>3. TimerScan'
  <2>1. pc'[t] = "map" /\ tgt'[t] = p /\ t # Timer
        /\ \A b \in Actors \ {t} : pc'[b] = pc[b] /\ tgt'[b] = tgt[b]
    BY <1>0, ActorFacts, SignalActor
  <2> QED
    BY <2>1, ActorFacts DEF IInv, TimerScan, sys_tkill, locks, timers
<1>4. TimersKept' /\ TimerIds'
  BY SameTimers DEF sys_tkill
<1> QED
  BY <1>1, <1>2, <1>3, <1>4 DEF IInv

\* An entry is due and its task is signalled.
LEMMA ExpireStep ==
    ASSUME IInv, Expire
    PROVE  IInv'
<1>0. /\ queue[idx].pid \in Tasks /\ SIGALRM \in Nat /\ queue[idx].at \in Int
      /\ Signal(Timer, queue[idx].pid, SIGALRM)
  <2>1. queue \in Seq(Entries) /\ idx \in 1..(MaxTimers + 1) /\ idx <= Len(queue)
    BY DEF IInv, TypeOK, Expire
  <2>2. idx \in DOMAIN queue
    BY <2>1, QueueEntries, SignalsConstants
  <2> QED
    BY <2>1, <2>2, QueueEntries, SignalsConstants DEF Expire
<1>1. TypeOK'
  BY <1>0, ActorFacts, SignalActor DEF IInv, TypeOK, Expire, locks, timers
<1>2. LocksHeld'
  BY <1>0, ActorFacts, SignalLocks DEF Expire
<1>3. TimerScan'
  <2>1. /\ pc'[Timer] = "map"
        /\ \A b \in Actors \ {Timer} : pc'[b] = pc[b] /\ tgt'[b] = tgt[b]
    BY <1>0, ActorFacts, SignalActor
  <2>2. queue[idx].at <= curr
    BY <1>0 DEF Expire, Due, IInv, TypeOK
  <2> QED
    BY <2>1, <2>2, ActorFacts DEF IInv, TimerScan, Expire, locks, timers
<1>4. TimersKept' /\ TimerIds'
  BY SameTimers DEF Expire
<1> QED
  BY <1>1, <1>2, <1>3, <1>4 DEF IInv

\* The end of a call that signals, or of an expired entry: what it does to
\* actors, queue and history.
LEMMA FinishedActor ==
    ASSUME IInv, NEW a \in Actors, Finished(a)
    PROVE  /\ pc' \in [Actors -> Waits] /\ tgt' \in [Actors -> Tasks \cup {Free}]
           /\ sig' \in [Actors -> Nat] /\ reg' \in [Actors -> SUBSET Sigs]
           /\ pc'[a] = IF a = Timer THEN "scan" ELSE "idle"
           /\ \A b \in Actors \ {a} : pc'[b] = pc[b] /\ tgt'[b] = tgt[b] /\ reg'[b] = reg[b]
<1>1. Back(a) \in Waits
  BY DEF Back, Waits
<1>2. pc' \in [Actors -> Waits]
  BY <1>1 DEF IInv, TypeOK, Finished
<1> QED
  BY <1>2 DEF IInv, TypeOK, Finished, Back

\* What becomes of the queue: an entry that expired leaves it.
LEMMA FinishedQueue ==
    ASSUME IInv, NEW a \in Actors, Finished(a), pc[a] \in {"map", "sig", "set"}, next_id' = next_id
    PROVE  /\ queue' \in Seq(Entries) /\ fired' \subseteq 1..MaxTimers
           /\ a # Timer => UNCHANGED <<queue, fired>>
           /\ TimersKept' /\ TimerIds'
<1>1. CASE a # Timer
  <2>1. UNCHANGED timers
    BY <1>1 DEF Finished, timers
  <2> QED
    BY <1>1, <2>1, SameTimers DEF IInv, TypeOK, timers
<1>2. CASE a = Timer
  <2>1. queue \in Seq(Entries) /\ idx \in 1..(MaxTimers + 1) /\ MaxTimers \in Nat
    BY SignalsConstants DEF IInv, TypeOK
  <2>2. Len(queue) \in Nat /\ DOMAIN queue = 1..Len(queue)
    BY <2>1, QueueEntries
  <2>3. idx \in DOMAIN queue
    BY <1>2, <2>1, <2>2 DEF IInv, TimerScan
  <2>4. /\ queue' = Without(queue, idx) /\ fired' = fired \cup {queue[idx].id}
    BY <1>2 DEF Finished
  <2>5. /\ queue' \in Seq(Entries) /\ Len(queue') = Len(queue) - 1
        /\ \A j \in 1..(Len(queue) - 1) : queue'[j] = IF j < idx THEN queue[j] ELSE queue[j + 1]
    BY <2>1, <2>3, <2>4, WithoutEntry
  <2>6. DOMAIN queue' = 1..(Len(queue) - 1)
    BY <2>5, LenProperties
  <2>7. queue[idx].id \in 1..MaxTimers
    BY <2>1, <2>3, QueueEntries
  <2>8. fired' \subseteq 1..MaxTimers
    BY <2>4, <2>7 DEF IInv, TypeOK
  <2>9. ASSUME NEW j \in DOMAIN queue'
        PROVE  \E k \in DOMAIN queue : /\ k # idx /\ queue'[j] = queue[k]
                                        /\ k = IF j < idx THEN j ELSE j + 1
    <3>1. CASE j < idx
      BY <2>1, <2>2, <2>5, <2>6, <3>1
    <3>2. CASE ~(j < idx)
      <4>1. j + 1 \in DOMAIN queue /\ j + 1 # idx
        BY <2>1, <2>2, <2>6, <3>2
      <4> QED
        BY <2>5, <2>6, <3>2, <4>1
    <3> QED
      BY <3>1, <3>2
  <2>10. ASSUME NEW k \in DOMAIN queue, k # idx
         PROVE  \E j \in DOMAIN queue' : queue'[j] = queue[k]
    <3>1. CASE k < idx
      BY <2>1, <2>2, <2>3, <2>5, <2>6, <3>1
    <3>2. CASE ~(k < idx)
      <4>1. k - 1 \in DOMAIN queue' /\ ~(k - 1 < idx) /\ (k - 1) + 1 = k
        BY <2>1, <2>2, <2>3, <2>6, <2>10, <3>2
      <4> QED
        BY <2>5, <2>6, <4>1
    <3> QED
      BY <3>1, <3>2
  <2>11. \A i, j \in DOMAIN queue' : queue'[i].id = queue'[j].id => i = j
    <3> SUFFICES ASSUME NEW i \in DOMAIN queue', NEW j \in DOMAIN queue',
                        queue'[i].id = queue'[j].id
                 PROVE  i = j
      OBVIOUS
    <3>1. PICK k \in DOMAIN queue : queue'[i] = queue[k] /\ k = IF i < idx THEN i ELSE i + 1
      BY <2>9
    <3>2. PICK m \in DOMAIN queue : queue'[j] = queue[m] /\ m = IF j < idx THEN j ELSE j + 1
      BY <2>9
    <3>3. k = m
      BY <3>1, <3>2 DEF IInv, TimersKept
    <3> QED
      BY <2>1, <2>2, <2>6, <3>1, <3>2, <3>3
  <2>12. \A id \in 1..(next_id - 1) :
           id \in fired' <=> ~ \E i \in DOMAIN queue' : queue'[i].id = id
    <3> SUFFICES ASSUME NEW id \in 1..(next_id - 1)
                 PROVE  id \in fired' <=> ~ \E i \in DOMAIN queue' : queue'[i].id = id
      OBVIOUS
    <3>1. id \in fired <=> ~ \E i \in DOMAIN queue : queue[i].id = id
      BY DEF IInv, TimersKept
    <3>2. \A i \in DOMAIN queue : queue[i].id = queue[idx].id => i = idx
      BY <2>3 DEF IInv, TimersKept
    <3>3. CASE id = queue[idx].id
      <4>1. id \in fired'
        BY <2>4, <3>3
      <4>2. ~ \E i \in DOMAIN queue' : queue'[i].id = id
        BY <2>9, <3>2, <3>3
      <4> QED
        BY <4>1, <4>2
    <3>4. CASE id # queue[idx].id
      <4>1. (id \in fired') <=> (id \in fired)
        BY <2>4, <3>4
      <4>2. (\E i \in DOMAIN queue' : queue'[i].id = id)
              <=> (\E i \in DOMAIN queue : queue[i].id = id)
        BY <2>9, <2>10, <3>4
      <4> QED
        BY <3>1, <4>1, <4>2
    <3> QED
      BY <3>3, <3>4
  <2>13. TimersKept'
    <3>1. next_id' = next_id
      OBVIOUS
    <3> QED
      BY <2>11, <2>12, <3>1 DEF TimersKept
  <2>14. TimerIds'
    BY <2>3, <2>4, <2>9 DEF IInv, TimerIds
  <2> QED
    BY <1>2, <2>5, <2>8, <2>13, <2>14
<1> QED
  BY <1>1, <1>2

\* The bit is set and the locks are let go.
LEMMA SetBitStep ==
    ASSUME IInv, NEW a \in Actors, SetBit(a)
    PROVE  IInv'
<1>1. Finished(a) /\ pc[a] = "set" /\ next_id' = next_id
  BY DEF SetBit
<1>2. /\ pc' \in [Actors -> Waits] /\ tgt' \in [Actors -> Tasks \cup {Free}]
      /\ sig' \in [Actors -> Nat] /\ reg' \in [Actors -> SUBSET Sigs]
      /\ pc'[a] = IF a = Timer THEN "scan" ELSE "idle"
      /\ \A b \in Actors \ {a} : pc'[b] = pc[b] /\ tgt'[b] = tgt[b] /\ reg'[b] = reg[b]
  BY <1>1, FinishedActor
<1>3. /\ queue' \in Seq(Entries) /\ fired' \subseteq 1..MaxTimers
      /\ a # Timer => UNCHANGED <<queue, fired>>
      /\ TimersKept' /\ TimerIds'
  BY <1>1, FinishedQueue
<1>4. tgt[a] \in Tasks /\ map_lock = a
  BY <1>1 DEF IInv, LocksHeld
<1>5. TypeOK'
  <2>1. Bit(sig[a]) \subseteq Sigs
    BY SignalsConstants DEF IInv, TypeOK, Bit, Sigs
  <2>2. reg[a] \cup Bit(sig[a]) \in SUBSET Sigs
    BY <2>1 DEF IInv, TypeOK
  <2>3. pending' \in [Tasks -> SUBSET Sigs] /\ sig_lock' \in [Tasks -> Actors \cup {Free}]
        /\ map_lock' \in Actors \cup {Free}
    BY <2>2 DEF IInv, TypeOK, SetBit
  <2> QED
    BY <1>1, <1>2, <1>3, <2>3 DEF IInv, TypeOK, SetBit
<1>6. LocksHeld'
  <2>1. \A b \in Actors \ {a} : pc[b] \notin {"sig", "set"}
    BY <1>4 DEF IInv, LocksHeld
  <2>2. \A b \in Actors : pc'[b] \notin {"sig", "set"}
    BY <1>2, <2>1
  <2>3. map_lock' = Free
    BY DEF SetBit
  <2> QED
    BY <2>2, <2>3, ActorFacts DEF LocksHeld
<1>7. TimerScan'
  BY <1>1, <1>2, <1>3, ActorFacts DEF IInv, TypeOK, TimerScan, SetBit
<1> QED
  BY <1>3, <1>5, <1>6, <1>7 DEF IInv

\* TASK_MAP is taken and the task is not there.
LEMMA NoSuchTaskStep ==
    ASSUME IInv, NEW a \in Actors, NoSuchTask(a)
    PROVE  IInv'
<1>1. Finished(a) /\ pc[a] = "map" /\ next_id' = next_id
  BY DEF NoSuchTask
<1>2. /\ pc' \in [Actors -> Waits] /\ tgt' \in [Actors -> Tasks \cup {Free}]
      /\ sig' \in [Actors -> Nat] /\ reg' \in [Actors -> SUBSET Sigs]
      /\ pc'[a] = IF a = Timer THEN "scan" ELSE "idle"
      /\ \A b \in Actors \ {a} : pc'[b] = pc[b] /\ tgt'[b] = tgt[b] /\ reg'[b] = reg[b]
  BY <1>1, FinishedActor
<1>3. /\ queue' \in Seq(Entries) /\ fired' \subseteq 1..MaxTimers
      /\ a # Timer => UNCHANGED <<queue, fired>>
      /\ TimersKept' /\ TimerIds'
  BY <1>1, FinishedQueue
<1>4. TypeOK'
  BY <1>1, <1>2, <1>3 DEF IInv, TypeOK, NoSuchTask, locks
<1>5. LocksHeld'
  <2>1. \A b \in Actors \ {a} : /\ pc'[b] = pc[b] /\ tgt'[b] = tgt[b] /\ reg'[b] = reg[b]
    BY <1>2
  <2>2. pc[a] \notin {"sig", "set"} /\ pc'[a] \notin {"sig", "set"}
    BY <1>1, <1>2
  <2>3. UNCHANGED <<map_lock, sig_lock, pending>>
    BY DEF NoSuchTask, locks
  <2> QED
    BY <2>1, <2>2, <2>3 DEF IInv, LocksHeld
<1>6. TimerScan'
  BY <1>1, <1>2, <1>3, ActorFacts DEF IInv, TypeOK, TimerScan, NoSuchTask, locks
<1> QED
  BY <1>3, <1>4, <1>5, <1>6 DEF IInv

\* A timer is pushed.
LEMMA SetTimerStep ==
    ASSUME IInv, NEW t \in Tasks, NEW p \in Tasks, NEW at \in 0..MaxTime,
           set_process_timer(t, p, at)
    PROVE  IInv'
<1> DEFINE e == [id |-> next_id, at |-> at, pid |-> p]
<1>1. /\ queue \in Seq(Entries) /\ next_id \in 1..MaxTimers /\ next_id' = next_id + 1
      /\ queue' = Append(queue, e) /\ fired' = fired /\ MaxTimers \in Nat
  BY SignalsConstants DEF IInv, TypeOK, set_process_timer
<1>2. e \in Entries /\ e.id = next_id
  BY <1>1 DEF Entries
<1> HIDE DEF e
<1>3. Len(queue) \in Nat /\ DOMAIN queue = 1..Len(queue)
  BY <1>1, QueueEntries
<1>4. /\ queue' \in Seq(Entries) /\ Len(queue') = Len(queue) + 1
      /\ DOMAIN queue' = 1..(Len(queue) + 1)
      /\ \A i \in 1..Len(queue) : queue'[i] = queue[i]
      /\ queue'[Len(queue) + 1] = e
  BY <1>1, <1>2, <1>3, AppendProperties
<1>5. \A i \in DOMAIN queue : queue[i].id \in Int /\ queue[i].id < next_id
  <2>1. \A i \in DOMAIN queue : queue[i].id \in 1..MaxTimers
    BY <1>1, QueueEntries
  <2> QED
    BY <2>1 DEF IInv, TimerIds
<1>6. TypeOK'
  <2>1. pc' \in [Actors -> Waits]
    BY DEF IInv, TypeOK, Waits, set_process_timer
  <2>2. next_id' \in 1..(MaxTimers + 1)
    BY <1>1
  <2> QED
    BY <1>1, <1>4, <2>1, <2>2 DEF IInv, TypeOK, set_process_timer, locks
<1>7. LocksHeld'
  BY ActorFacts DEF IInv, TypeOK, LocksHeld, set_process_timer, locks
<1>8. TimerScan'
  <2>1. queue_lock = Free /\ queue_lock' = Free /\ pc'[Timer] = pc[Timer]
    BY ActorFacts DEF IInv, TypeOK, set_process_timer, locks
  <2>2. pc[Timer] \in {"idle", "queue"}
    BY <2>1, ActorFacts DEF IInv, TimerScan
  <2> QED
    BY <2>1, <2>2, ActorFacts DEF IInv, TypeOK, TimerScan, set_process_timer, locks
<1>9. TimerIds'
  <2>1. ASSUME NEW i \in DOMAIN queue' PROVE queue'[i].id < next_id'
    <3>1. CASE i = Len(queue) + 1
      BY <1>1, <1>2, <1>4, <3>1
    <3>2. CASE i # Len(queue) + 1
      <4>1. i \in DOMAIN queue /\ queue'[i] = queue[i]
        BY <1>3, <1>4, <3>2
      <4> QED
        BY <1>1, <1>5, <4>1
    <3> QED
      BY <3>1, <3>2
  <2>2. \A id \in fired' : id < next_id'
    BY <1>1 DEF IInv, TypeOK, TimerIds
  <2> QED
    BY <2>1, <2>2 DEF TimerIds
<1>10. TimersKept'
  <2>1. \A i, j \in DOMAIN queue' : queue'[i].id = queue'[j].id => i = j
    BY <1>1, <1>2, <1>3, <1>4, <1>5 DEF IInv, TimersKept
  <2>2. ASSUME NEW id \in 1..(next_id' - 1)
        PROVE  id \in fired' <=> ~ \E i \in DOMAIN queue' : queue'[i].id = id
    <3>1. CASE id = next_id
      <4>1. id \notin fired'
        BY <1>1, <3>1 DEF IInv, TypeOK, TimerIds
      <4>2. \E i \in DOMAIN queue' : queue'[i].id = id
        BY <1>2, <1>3, <1>4, <3>1
      <4> QED
        BY <4>1, <4>2
    <3>2. CASE id # next_id
      <4>1. id \in 1..(next_id - 1)
        BY <1>1, <2>2, <3>2
      <4>2. (\E i \in DOMAIN queue' : queue'[i].id = id)
              <=> (\E i \in DOMAIN queue : queue[i].id = id)
        BY <1>2, <1>3, <1>4, <3>2
      <4>3. id \in fired <=> ~ \E i \in DOMAIN queue : queue[i].id = id
        BY <4>1 DEF IInv, TimersKept
      <4> QED
        BY <1>1, <4>2, <4>3
    <3> QED
      BY <3>1, <3>2
  <2> QED
    BY <2>1, <2>2 DEF TimersKept
<1> QED
  BY <1>6, <1>7, <1>8, <1>9, <1>10 DEF IInv

\* The queue is sorted.
LEMMA SortStep ==
    ASSUME IInv, NEW t \in Tasks, Sort(t)
    PROVE  IInv'
<1>1. queue \in Seq(Entries) /\ queue' = Sorted(queue) /\ UNCHANGED <<next_id, fired>>
  BY DEF IInv, TypeOK, Sort
<1>2. /\ queue' \in Seq(Entries) /\ Len(queue') = Len(queue) /\ DOMAIN queue' = DOMAIN queue
      /\ \A r \in DOMAIN queue : \E i \in DOMAIN queue : queue'[r] = queue[i] /\ Rank(queue, i) = r
      /\ \A i \in DOMAIN queue : \E r \in DOMAIN queue : queue'[r] = queue[i] /\ Rank(queue, i) = r
  BY <1>1, SortedQueue
<1>3. TypeOK'
  <2>1. pc' \in [Actors -> Waits]
    BY DEF IInv, TypeOK, Waits, Sort
  <2> QED
    BY <1>2, <2>1 DEF IInv, TypeOK, Sort, locks
<1>4. LocksHeld'
  BY ActorFacts DEF IInv, TypeOK, LocksHeld, Sort, locks
<1>5. TimerScan'
  <2>1. queue_lock = Free /\ queue_lock' = Free /\ pc'[Timer] = pc[Timer]
    BY ActorFacts DEF IInv, TypeOK, Sort, locks
  <2>2. pc[Timer] \in {"idle", "queue"}
    BY <2>1, ActorFacts DEF IInv, TimerScan
  <2> QED
    BY <2>1, <2>2, ActorFacts DEF IInv, TypeOK, TimerScan, Sort, locks
<1>6. TimerIds'
  BY <1>1, <1>2 DEF IInv, TimerIds
<1>7. TimersKept'
  <2>1. ASSUME NEW r \in DOMAIN queue', NEW u \in DOMAIN queue', queue'[r].id = queue'[u].id
        PROVE  r = u
    <3>1. PICK i \in DOMAIN queue : queue'[r] = queue[i] /\ Rank(queue, i) = r
      BY <1>2
    <3>2. PICK j \in DOMAIN queue : queue'[u] = queue[j] /\ Rank(queue, j) = u
      BY <1>2
    <3>3. i = j
      BY <2>1, <3>1, <3>2 DEF IInv, TimersKept
    <3> QED
      BY <3>1, <3>2, <3>3
  <2>2. \A id : (\E i \in DOMAIN queue' : queue'[i].id = id)
                   <=> (\E i \in DOMAIN queue : queue[i].id = id)
    <3> SUFFICES ASSUME NEW id
                 PROVE  (\E i \in DOMAIN queue' : queue'[i].id = id)
                          <=> (\E i \in DOMAIN queue : queue[i].id = id)
      OBVIOUS
    <3>1. ASSUME NEW r \in DOMAIN queue', queue'[r].id = id
          PROVE  \E i \in DOMAIN queue : queue[i].id = id
      <4>1. PICK i \in DOMAIN queue : queue'[r] = queue[i]
        BY <1>2
      <4> QED
        BY <3>1, <4>1
    <3>2. ASSUME NEW i \in DOMAIN queue, queue[i].id = id
          PROVE  \E r \in DOMAIN queue' : queue'[r].id = id
      <4>1. PICK r \in DOMAIN queue : queue'[r] = queue[i]
        BY <1>2
      <4> QED
        BY <1>2, <3>2, <4>1
    <3> QED
      BY <3>1, <3>2
  <2>3. ASSUME NEW id \in 1..(next_id - 1)
        PROVE  id \in fired <=> ~ \E i \in DOMAIN queue' : queue'[i].id = id
    <3>1. id \in fired <=> ~ \E i \in DOMAIN queue : queue[i].id = id
      BY DEF IInv, TimersKept
    <3> QED
      BY <2>2, <3>1
  <2> QED
    BY <1>1, <2>1, <2>3 DEF TimersKept
<1> QED
  BY <1>3, <1>4, <1>5, <1>6, <1>7 DEF IInv

\* Every step keeps the invariant.
LEMMA IInvStep ==
    ASSUME IInv, [Next]_vars
    PROVE  IInv'
<1>1. ASSUME UNCHANGED vars PROVE IInv'
  BY <1>1 DEF IInv, vars, TypeOK, LocksHeld, TimerScan, TimersKept, TimerIds
<1>2. ASSUME NEW t \in Tasks, Begin(t) PROVE IInv'
  BY <1>2, KillNullStep, KillStep, TkillStep, MaskStep, SetTimerStep, SleepStep, PopStep DEF Begin
<1>3. ASSUME NEW a \in Actors, GoOn(a) PROVE IInv'
  BY <1>3, LockMapStep, NoSuchTaskStep, LockSigStep, SetBitStep DEF GoOn
<1>4. ASSUME NEW t \in Tasks, TaskGoesOn(t) PROVE IInv'
  BY <1>3, <1>4, ActorFacts, SortStep, WakeStep DEF TaskGoesOn
<1>5. ASSUME TimerGoesOn PROVE IInv'
  BY <1>3, <1>5, ActorFacts, ReadTimeStep, LockQueueStep, KeepStep, ExpireStep, UnlockQueueStep
     DEF TimerGoesOn
<1> QED
  BY <1>1, <1>2, <1>4, <1>5, AdvanceStep DEF Next

-----------------------------------------------------------------------------
(***************************************************************************)
(* The theorems.                                                           *)
(***************************************************************************)
\* The invariant holds of every behaviour.
LEMMA Invariance == Spec => []IInv
<1>1. IInv /\ [Next]_vars => IInv'
  BY IInvStep
<1> QED
  BY <1>1, InitIInv, PTL DEF Spec

\* Types: in particular handle_timer never walks beyond the queue, whatever
\* expires while it is walked.
THEOREM SignalsTypeCorrect == Spec => []TypeOK
<1>1. IInv => TypeOK
  BY DEF IInv
<1> QED
  BY <1>1, Invariance, PTL

\* No timer is lost, duplicated or expired twice (timer.rs 26-72).
THEOREM TimersKeptHolds == Spec => []TimersKept
<1>1. IInv => TimersKept
  BY DEF IInv
<1> QED
  BY <1>1, Invariance, PTL

\* A step of an actor that signals changes nothing of pending but, with the lock
\* still held, adds to what was read.
LEMMA SignalsKeptStep ==
    ASSUME IInv, [Next]_vars, NEW t \in Tasks, pending[t] \ pending'[t] # {}
    PROVE  LET open == pending[t] \ mask[t] IN
           open # {} /\ pending'[t] = pending[t] \ {Lowest(open)}
<1>1. ASSUME NEW a \in Actors, SetBit(a) PROVE FALSE
  <2>1. tgt[a] \in Tasks /\ reg[a] = pending[tgt[a]]
    BY <1>1 DEF IInv, LocksHeld, SetBit
  <2>2. pending' = [pending EXCEPT ![tgt[a]] = reg[a] \cup Bit(sig[a])]
    BY <1>1 DEF SetBit
  <2>3. pending \in [Tasks -> SUBSET Sigs]
    BY DEF IInv, TypeOK
  <2> QED
    BY <2>1, <2>2, <2>3
<1>2. ASSUME NEW u \in Tasks, pop_signal(u)
      PROVE  /\ pending[t] \ mask[t] # {}
             /\ pending'[t] = pending[t] \ {Lowest(pending[t] \ mask[t])}
  <2>1. /\ pending' = [pending EXCEPT ![u] = pending[u] \ {Lowest(pending[u] \ mask[u])}]
        /\ pending[u] \ mask[u] # {}
    BY <1>2 DEF pop_signal, Deliverable
  <2>2. pending \in [Tasks -> SUBSET Sigs]
    BY DEF IInv, TypeOK
  <2> QED
    BY <2>1, <2>2
<1>3. ASSUME pending' = pending PROVE FALSE
  BY <1>3
<1>4. ASSUME NEW u \in Tasks, Begin(u) PROVE pop_signal(u)
  BY <1>3, <1>4 DEF Begin, sys_kill_null, sys_kill, sys_tkill, sys_sigprocmask,
     set_process_timer, sleep_ms
<1>5. ASSUME NEW a \in Actors, GoOn(a) PROVE FALSE
  BY <1>1, <1>3, <1>5 DEF GoOn, LockMap, NoSuchTask, LockSig
<1>6. ASSUME NEW u \in Tasks, TaskGoesOn(u) PROVE FALSE
  BY <1>3, <1>5, <1>6, ActorFacts DEF TaskGoesOn, Sort, Wake
<1>7. ASSUME TimerGoesOn PROVE FALSE
  BY <1>3, <1>5, <1>7, ActorFacts DEF TimerGoesOn, ReadTime, LockQueue, Keep, Expire, UnlockQueue
<1>8. ASSUME Advance \/ UNCHANGED vars PROVE FALSE
  BY <1>3, <1>8 DEF Advance, vars
<1>9. PICK u \in Tasks : pop_signal(u)
  BY <1>4, <1>6, <1>7, <1>8 DEF Next
<1> QED
  BY <1>2, <1>9

\* No pending signal is overwritten, by however many tasks and the interrupt at
\* once (signal.rs 71-101, timer.rs 60-64).
THEOREM SignalsKeptHolds == Spec => SignalsKept
<1>1. IInv /\ [Next]_vars =>
        [\A t \in Tasks : pending[t] \ pending'[t] # {} =>
           LET open == pending[t] \ mask[t] IN
           open # {} /\ pending'[t] = pending[t] \ {Lowest(open)}]_vars
  BY SignalsKeptStep
<1> QED
  BY <1>1, Invariance, PTL DEF Spec, SignalsKept

\* Only the end of an expired entry adds to what has fired.
LEMMA FiredStep ==
    ASSUME IInv, [Next]_vars, fired' # fired
    PROVE  fired' = fired \cup {queue[idx].id} /\ pc[Timer] \in {"map", "sig", "set"}
<1>1. ASSUME NEW a \in Actors, NoSuchTask(a) \/ SetBit(a)
      PROVE  fired' = fired \cup {queue[idx].id} /\ pc[Timer] \in {"map", "sig", "set"}
  BY <1>1 DEF NoSuchTask, SetBit, Finished
<1>2. ASSUME fired' = fired PROVE FALSE
  BY <1>2
<1>3. ASSUME NEW t \in Tasks, Begin(t) PROVE FALSE
  BY <1>2, <1>3 DEF Begin, sys_kill_null, sys_kill, sys_tkill, sys_sigprocmask,
     set_process_timer, sleep_ms, pop_signal, timers
<1>4. ASSUME NEW a \in Actors, GoOn(a) PROVE NoSuchTask(a) \/ SetBit(a)
  BY <1>2, <1>4 DEF GoOn, LockMap, LockSig, timers
<1>5. ASSUME NEW t \in Tasks, TaskGoesOn(t) PROVE GoOn(t)
  BY <1>2, <1>5 DEF TaskGoesOn, Sort, Wake, timers
<1>6. ASSUME TimerGoesOn PROVE GoOn(Timer)
  BY <1>2, <1>6 DEF TimerGoesOn, ReadTime, LockQueue, Keep, Expire, UnlockQueue, timers
<1>7. ASSUME Advance \/ UNCHANGED vars PROVE FALSE
  BY <1>2, <1>7 DEF Advance, vars, timers
<1> QED
  BY <1>1, <1>3, <1>4, <1>5, <1>6, <1>7, ActorFacts DEF Next

\* A timer never expires before its time, however old the time handle_timer works
\* with (timer.rs 44-50).
THEOREM NotEarlyHolds == Spec => NotEarly
<1>1. IInv /\ [Next]_vars =>
        [\A i \in DOMAIN queue : queue[i].id \in fired' \ fired => queue[i].at <= now]_vars
  <2> SUFFICES ASSUME IInv, [Next]_vars,
                      NEW i \in DOMAIN queue, queue[i].id \in fired' \ fired
               PROVE  queue[i].at <= now
    OBVIOUS
  <2>1. fired' = fired \cup {queue[idx].id} /\ pc[Timer] \in {"map", "sig", "set"}
    BY FiredStep
  <2>2. queue[i].id = queue[idx].id /\ idx <= Len(queue) /\ queue[idx].at <= curr
    BY <2>1 DEF IInv, TimerScan
  <2>3. /\ queue \in Seq(Entries) /\ idx \in 1..(MaxTimers + 1)
        /\ now \in 0..MaxTime /\ curr \in 0..now
    BY DEF IInv, TypeOK
  <2>4. idx \in DOMAIN queue
    BY <2>2, <2>3, QueueEntries, SignalsConstants
  <2>5. i = idx
    BY <2>2, <2>4 DEF IInv, TimersKept
  <2>6. queue[idx].at \in Int
    BY <2>3, <2>4, QueueEntries
  <2> QED
    BY <2>2, <2>3, <2>5, <2>6, SignalsConstants
<1> QED
  BY <1>1, Invariance, PTL DEF Spec, NotEarly

\* Order is kept by every step: a push is followed by a sort, and to drop an
\* entry leaves the others in order.
LEMMA InOrderStep ==
    ASSUME IInv, InOrder, [Next]_vars
    PROVE  InOrder'
<1> DEFINE Ordered == \A i, j \in DOMAIN queue : i < j => queue[i].at <= queue[j].at
           NoSort  == \A t \in Tasks : pc[t] # "sort"
<1>1. pc \in [Actors -> Waits] /\ queue \in Seq(Entries)
  BY DEF IInv, TypeOK
<1>2. ASSUME queue' = queue, NoSort' => NoSort PROVE InOrder'
  BY <1>2 DEF InOrder
<1>3. ASSUME NEW a \in Actors, NEW w \in Waits, pc[a] # "sort", pc' = [pc EXCEPT ![a] = w]
      PROVE  NoSort' => NoSort
  BY <1>1, <1>3, ActorFacts
<1>4. ASSUME NEW t \in Tasks, NEW p \in Tasks, NEW at \in 0..MaxTime, set_process_timer(t, p, at)
      PROVE  InOrder'
  BY <1>1, <1>4, ActorFacts DEF InOrder, set_process_timer
<1>5. ASSUME NEW t \in Tasks, Sort(t) PROVE InOrder'
  <2>1. queue' = Sorted(queue)
    BY <1>5 DEF Sort
  <2>2. /\ DOMAIN queue' = DOMAIN queue
        /\ \A r, s \in DOMAIN queue : r < s => queue'[r].at <= queue'[s].at
    BY <1>1, <2>1, SortedQueue
  <2> QED
    BY <2>2 DEF InOrder
<1>6. ASSUME NEW a \in Actors, pc[a] \in {"map", "sig", "set"}, Finished(a) PROVE InOrder'
  <2>1. Back(a) \in Waits /\ pc' = [pc EXCEPT ![a] = Back(a)] /\ pc[a] # "sort"
    BY <1>6 DEF Back, Waits, Finished
  <2>2. NoSort' => NoSort
    BY <1>3, <2>1
  <2>3. CASE a # Timer
    BY <1>2, <1>6, <2>2, <2>3 DEF Finished
  <2>4. CASE a = Timer
    <3>1. queue' = Without(queue, idx)
      BY <1>6, <2>4 DEF Finished
    <3>2. Len(queue) \in Nat /\ DOMAIN queue = 1..Len(queue)
      BY <1>1, QueueEntries
    <3>3. idx \in DOMAIN queue /\ idx \in Int
      BY <1>6, <2>4, <3>2, SignalsConstants DEF IInv, TypeOK, TimerScan
    <3>4. /\ queue' \in Seq(Entries) /\ Len(queue') = Len(queue) - 1
          /\ \A j \in 1..(Len(queue) - 1) : queue'[j] = IF j < idx THEN queue[j] ELSE queue[j + 1]
      BY <1>1, <3>1, <3>3, WithoutEntry
    <3>5. DOMAIN queue' = 1..(Len(queue) - 1)
      BY <3>4, LenProperties
    <3>6. Ordered => Ordered'
      <4> SUFFICES ASSUME Ordered, NEW i \in DOMAIN queue', NEW j \in DOMAIN queue', i < j
                   PROVE  queue'[i].at <= queue'[j].at
        OBVIOUS
      <4> DEFINE up(k) == IF k < idx THEN k ELSE k + 1
      <4>1. queue'[i] = queue[up(i)] /\ queue'[j] = queue[up(j)]
        BY <3>4, <3>5
      <4>2. up(i) \in DOMAIN queue /\ up(j) \in DOMAIN queue /\ up(i) < up(j)
        BY <3>2, <3>3, <3>5
      <4> HIDE DEF up
      <4> QED
        BY <4>1, <4>2
    <3> QED
      BY <2>2, <3>6 DEF InOrder
  <2> QED
    BY <2>3, <2>4
<1> HIDE DEF Ordered, NoSort
<1>7. ASSUME pc' = pc, queue' = queue PROVE InOrder'
  <2>1. NoSort' => NoSort
    BY <1>7 DEF NoSort
  <2> QED
    BY <1>2, <1>7, <2>1
<1>8. ASSUME NEW t \in Tasks, Begin(t) PROVE InOrder'
  <2>1. ASSUME NEW w \in Waits, pc[t] = "idle", pc' = [pc EXCEPT ![t] = w], queue' = queue
        PROVE  InOrder'
    BY <1>2, <1>3, <2>1, ActorFacts
  <2>2. "map" \in Waits /\ "sleep" \in Waits
    BY DEF Waits
  <2>3. sys_kill_null(t) \/ pop_signal(t) => InOrder'
    BY <1>7 DEF sys_kill_null, pop_signal, actor, timers
  <2>4. \A p \in Tasks, s \in Numbers : sys_kill(t, p, s) \/ sys_tkill(t, p, s) => InOrder'
    BY <2>1, <2>2 DEF sys_kill, sys_tkill, Call, Signal, timers
  <2>5. \A set \in Masks : sys_sigprocmask(t, set) => InOrder'
    BY <1>7 DEF sys_sigprocmask, actor, timers
  <2>6. \A ms \in 1..MaxTime : sleep_ms(t, ms) => InOrder'
    BY <2>1, <2>2 DEF sleep_ms, Call, timers
  <2> QED
    BY <1>4, <1>8, <2>3, <2>4, <2>5, <2>6 DEF Begin
<1>9. ASSUME NEW a \in Actors, NEW w \in Waits, pc[a] # "sort", pc' = [pc EXCEPT ![a] = w],
             queue' = queue
      PROVE  InOrder'
  BY <1>2, <1>3, <1>9
<1>10. {"sig", "set", "idle", "queue", "scan", "map"} \subseteq Waits
  BY DEF Waits
<1>11. ASSUME NEW a \in Actors, GoOn(a) PROVE InOrder'
  <2>1. LockMap(a) \/ LockSig(a) => InOrder'
    BY <1>9, <1>10 DEF LockMap, LockSig, timers
  <2>2. NoSuchTask(a) \/ SetBit(a) => InOrder'
    BY <1>6 DEF NoSuchTask, SetBit
  <2> QED
    BY <1>11, <2>1, <2>2 DEF GoOn
<1>12. ASSUME NEW t \in Tasks, TaskGoesOn(t) PROVE InOrder'
  <2>1. Wake(t) => InOrder'
    BY <1>9, <1>10, ActorFacts DEF Wake, timers
  <2> QED
    BY <1>5, <1>11, <1>12, <2>1, ActorFacts DEF TaskGoesOn
<1>13. ASSUME TimerGoesOn PROVE InOrder'
  <2>1. ReadTime \/ LockQueue \/ Expire \/ UnlockQueue => InOrder'
    BY <1>9, <1>10, ActorFacts DEF ReadTime, LockQueue, Expire, Signal, UnlockQueue, timers
  <2>2. Keep => InOrder'
    BY <1>7 DEF Keep, actor, timers
  <2> QED
    BY <1>11, <1>13, <2>1, <2>2, ActorFacts DEF TimerGoesOn
<1>14. ASSUME Advance \/ UNCHANGED vars PROVE InOrder'
  BY <1>7, <1>14 DEF Advance, vars, actor, timers
<1> QED
  BY <1>8, <1>12, <1>13, <1>14 DEF Next

\* The queue is in order whenever nobody is between push and sort, so that a walk
\* signals timers in the order of their times (timer.rs 30-41).
THEOREM InOrderHolds == Spec => []InOrder
<1>1. Init => InOrder
  BY DEF Init, InOrder
<1>2. IInv /\ InOrder /\ [Next]_vars => InOrder'
  BY InOrderStep
<1> QED
  BY <1>1, <1>2, Invariance, PTL DEF Spec

-----------------------------------------------------------------------------
(***************************************************************************)
(* No signal comes out more often than it was sent.                        *)
(***************************************************************************)
\* The signals an actor has sent and not yet delivered.
Carries(a, t, s) == pc[a] \in {"map", "sig", "set"} /\ tgt[a] = t /\ sig[a] = s
InFlight(t, s) == {a \in Actors : Carries(a, t, s)}
Waiting(t, s) == IF s \in pending[t] THEN 1 ELSE 0

\* Every signal on its way, and the one that is pending, was sent and not popped.
CreditCovers ==
  \A t \in Tasks : \A s \in Sigs \ {MaxSig} :
    /\ IsFiniteSet(InFlight(t, s))
    /\ credit[t][s] >= Waiting(t, s) + Cardinality(InFlight(t, s))

\* Every set of signals has a lowest, the one pop_signal takes.
LEMMA LowestIn ==
    ASSUME NEW S \in SUBSET Sigs, S # {}
    PROVE  Lowest(S) \in S
<1>1. S \subseteq Nat
  BY SignalsConstants DEF Sigs
<1>2. PICK x \in S : \A y \in S : ~(<<y, x>> \in OpToRel(<, Nat))
  BY <1>1, NatLessThanWellFounded, WFMin
<1>3. \A y \in S : ~(y < x)
  BY <1>1, <1>2 DEF OpToRel
<1>4. \A y \in S : x <= y
  BY <1>1, <1>3
<1> QED
  BY <1>4 DEF Lowest

\* Steps that neither begin nor end a signal's way nor touch pending.
LEMMA SameCredit ==
    ASSUME CreditCovers, UNCHANGED <<pending, credit, tgt, sig>>,
           \A a \in Actors : pc'[a] \in {"map", "sig", "set"} <=> pc[a] \in {"map", "sig", "set"}
    PROVE  CreditCovers'
<1>1. \A t \in Tasks : \A s \in Sigs : InFlight(t, s)' = InFlight(t, s)
  BY DEF InFlight, Carries
<1>2. \A t \in Tasks : \A s \in Sigs : Waiting(t, s)' = Waiting(t, s)
  BY DEF Waiting
<1> QED
  BY <1>1, <1>2 DEF CreditCovers

\* A signal is sent: one more is on its way, and one more was sent.
LEMMA SignalCredit ==
    ASSUME IInv, CreditCovers, NEW a \in Actors, NEW p \in Tasks, NEW n \in Nat,
           Signal(a, p, n), pc[a] \in {"idle", "scan"}, UNCHANGED pending
    PROVE  CreditCovers'
<1> SUFFICES ASSUME NEW t \in Tasks, NEW s \in Sigs \ {MaxSig}
             PROVE  /\ IsFiniteSet(InFlight(t, s)')
                    /\ credit'[t][s] >= Waiting(t, s)' + Cardinality(InFlight(t, s)')
  BY DEF CreditCovers
<1>1. /\ pc'[a] = "map" /\ tgt'[a] = p /\ sig'[a] = n
      /\ \A b \in Actors \ {a} : pc'[b] = pc[b] /\ tgt'[b] = tgt[b] /\ sig'[b] = sig[b]
  BY DEF Signal, IInv, TypeOK
<1>2. a \notin InFlight(t, s)
  BY DEF InFlight, Carries
<1>3. Waiting(t, s)' = Waiting(t, s) /\ Waiting(t, s) \in {0, 1}
  BY DEF Waiting
<1>4. /\ IsFiniteSet(InFlight(t, s)) /\ Cardinality(InFlight(t, s)) \in Nat
      /\ credit[t][s] >= Waiting(t, s) + Cardinality(InFlight(t, s))
  BY FS_CardinalityType DEF CreditCovers
<1>5. credit[t][s] \in Int
  BY DEF IInv, TypeOK
<1>6. CASE t = p /\ s = n
  <2>1. InFlight(t, s)' = InFlight(t, s) \cup {a}
    BY <1>1, <1>6 DEF InFlight, Carries
  <2>2. credit'[t][s] = credit[t][s] + 1
    BY <1>6 DEF Signal, Sent, IInv, TypeOK
  <2>3. /\ IsFiniteSet(InFlight(t, s)')
        /\ Cardinality(InFlight(t, s)') = Cardinality(InFlight(t, s)) + 1
    BY <1>2, <1>4, <2>1, FS_AddElement
  <2> QED
    BY <1>3, <1>4, <1>5, <2>2, <2>3
<1>7. CASE ~(t = p /\ s = n)
  <2>1. InFlight(t, s)' = InFlight(t, s)
    BY <1>1, <1>2, <1>7 DEF InFlight, Carries
  <2>2. credit'[t][s] = credit[t][s]
    BY <1>7 DEF Signal, Sent, IInv, TypeOK
  <2> QED
    BY <1>3, <1>4, <2>1, <2>2
<1> QED
  BY <1>6, <1>7

\* A signal's way ends: its bit is set, or there is no such task.
LEMMA FinishedCredit ==
    ASSUME IInv, CreditCovers, NEW a \in Actors, Finished(a),
           SetBit(a) \/ NoSuchTask(a)
    PROVE  CreditCovers'
<1> SUFFICES ASSUME NEW t \in Tasks, NEW s \in Sigs \ {MaxSig}
             PROVE  /\ IsFiniteSet(InFlight(t, s)')
                    /\ credit'[t][s] >= Waiting(t, s)' + Cardinality(InFlight(t, s)')
  BY DEF CreditCovers
<1>1. /\ pc'[a] \in {"scan", "idle"}
      /\ \A b \in Actors \ {a} : pc'[b] = pc[b] /\ tgt'[b] = tgt[b] /\ sig'[b] = sig[b]
  BY DEF Finished, Back, IInv, TypeOK
<1>2. InFlight(t, s)' = InFlight(t, s) \ {a}
  BY <1>1 DEF InFlight, Carries
<1>3. Waiting(t, s)' \in {0, 1} /\ Waiting(t, s) \in {0, 1}
  BY DEF Waiting
<1>4. /\ IsFiniteSet(InFlight(t, s)) /\ Cardinality(InFlight(t, s)) \in Nat
      /\ credit[t][s] >= Waiting(t, s) + Cardinality(InFlight(t, s))
  BY FS_CardinalityType DEF CreditCovers
<1>5. credit'[t][s] = credit[t][s] /\ credit[t][s] \in Int
  BY DEF IInv, TypeOK, SetBit, NoSuchTask
<1>6. /\ IsFiniteSet(InFlight(t, s) \ {a})
      /\ Cardinality(InFlight(t, s) \ {a}) =
            IF a \in InFlight(t, s) THEN Cardinality(InFlight(t, s)) - 1
            ELSE Cardinality(InFlight(t, s))
  BY <1>4, FS_RemoveElement
<1>7. Waiting(t, s)' = 1 => Waiting(t, s) = 1 \/ a \in InFlight(t, s)
  <2>1. CASE NoSuchTask(a)
    BY <2>1 DEF NoSuchTask, Waiting
  <2>2. CASE SetBit(a)
    <3>1. /\ pending' = [pending EXCEPT ![tgt[a]] = reg[a] \cup Bit(sig[a])]
          /\ tgt[a] \in Tasks /\ reg[a] = pending[tgt[a]] /\ pc[a] = "set"
      BY <2>2 DEF SetBit, IInv, LocksHeld
    <3>2. s \in Bit(sig[a]) => s = sig[a]
      BY DEF Bit
    <3>3. s \in pending'[t] => s \in pending[t] \/ (t = tgt[a] /\ s = sig[a])
      BY <3>1, <3>2 DEF IInv, TypeOK
    <3> QED
      BY <3>1, <3>3 DEF Waiting, InFlight, Carries
  <2> QED
    BY <2>1, <2>2
<1> QED
  BY <1>2, <1>3, <1>4, <1>5, <1>6, <1>7

\* A signal is popped: it was pending, and no longer is.
LEMMA PopCredit ==
    ASSUME IInv, CreditCovers, NEW u \in Tasks, pop_signal(u)
    PROVE  CreditCovers'
<1> SUFFICES ASSUME NEW t \in Tasks, NEW s \in Sigs \ {MaxSig}
             PROVE  /\ IsFiniteSet(InFlight(t, s)')
                    /\ credit'[t][s] >= Waiting(t, s)' + Cardinality(InFlight(t, s)')
  BY DEF CreditCovers
<1> DEFINE r == Lowest(Deliverable(u))
<1>1. r \in pending[u] /\ r \in Sigs
  <2>1. Deliverable(u) \in SUBSET Sigs /\ Deliverable(u) \subseteq pending[u]
    BY DEF Deliverable, IInv, TypeOK
  <2> QED
    BY <2>1, LowestIn DEF pop_signal
<1>2. /\ pending' = [pending EXCEPT ![u] = pending[u] \ {r}]
      /\ credit' = [credit EXCEPT ![u] = [credit[u] EXCEPT ![r] = credit[u][r] - 1]]
  BY DEF pop_signal
<1> HIDE DEF r
<1>3. InFlight(t, s)' = InFlight(t, s)
  BY DEF InFlight, Carries, pop_signal, actor
<1>4. /\ IsFiniteSet(InFlight(t, s)) /\ Cardinality(InFlight(t, s)) \in Nat
      /\ credit[t][s] >= Waiting(t, s) + Cardinality(InFlight(t, s))
  BY FS_CardinalityType DEF CreditCovers
<1>5. credit[t][s] \in Int /\ credit[u] \in [Sigs -> Int]
  BY DEF IInv, TypeOK
<1>6. CASE t = u /\ s = r
  <2>1. credit'[t][s] = credit[t][s] - 1
    BY <1>2, <1>5, <1>6 DEF IInv, TypeOK
  <2>2. Waiting(t, s) = 1 /\ Waiting(t, s)' = 0
    BY <1>1, <1>2, <1>6 DEF Waiting, IInv, TypeOK
  <2> QED
    BY <1>3, <1>4, <1>5, <2>1, <2>2
<1>7. CASE ~(t = u /\ s = r)
  <2>1. credit'[t][s] = credit[t][s]
    BY <1>2, <1>5, <1>7 DEF IInv, TypeOK
  <2>2. Waiting(t, s)' = Waiting(t, s)
    BY <1>2, <1>7 DEF Waiting, IInv, TypeOK
  <2> QED
    BY <1>3, <1>4, <2>1, <2>2
<1> QED
  BY <1>6, <1>7

\* Every step keeps the account.
LEMMA CreditStep ==
    ASSUME IInv, CreditCovers, [Next]_vars
    PROVE  CreditCovers'
<1>a. pc \in [Actors -> Waits] /\ \A t \in Tasks : t \in Actors
  BY ActorFacts DEF IInv, TypeOK
<1>b. ASSUME NEW a \in Actors, NEW w, pc' = [pc EXCEPT ![a] = w],
             pc[a] \in {"map", "sig", "set"} <=> w \in {"map", "sig", "set"},
             UNCHANGED <<pending, credit, tgt, sig>>
      PROVE  CreditCovers'
  <2>1. \A b \in Actors : pc'[b] = IF b = a THEN w ELSE pc[b]
    BY <1>a, <1>b
  <2>2. \A b \in Actors : pc'[b] \in {"map", "sig", "set"} <=> pc[b] \in {"map", "sig", "set"}
    BY <1>b, <2>1
  <2> QED
    BY <1>b, <2>2, SameCredit
<1>1. ASSUME UNCHANGED vars \/ Advance \/ Keep PROVE CreditCovers'
  BY <1>1, SameCredit DEF vars, Advance, Keep, actor
<1>2. ASSUME NEW t \in Tasks, Begin(t) PROVE CreditCovers'
  <2>1. CASE sys_kill_null(t) \/ \E set \in Masks : sys_sigprocmask(t, set)
    BY <2>1, SameCredit DEF sys_kill_null, sys_sigprocmask, actor
  <2>2. ASSUME NEW p \in Tasks, NEW s \in Numbers, sys_kill(t, p, s) \/ sys_tkill(t, p, s)
        PROVE  CreditCovers'
    <3>1. s \in Nat /\ Signal(t, p, s) /\ pc[t] = "idle" /\ pending' = pending
      BY <2>2, SignalsConstants DEF sys_kill, sys_tkill, Call
    <3> QED
      BY <1>a, <3>1, SignalCredit
  <2>3. ASSUME NEW p \in Tasks, NEW at \in 0..MaxTime, set_process_timer(t, p, at)
        PROVE  CreditCovers'
    BY <1>a, <1>b, <2>3 DEF set_process_timer
  <2>4. ASSUME NEW ms \in 1..MaxTime, sleep_ms(t, ms) PROVE CreditCovers'
    BY <1>a, <1>b, <2>4 DEF sleep_ms, Call
  <2> QED
    BY <1>2, <2>1, <2>2, <2>3, <2>4, PopCredit DEF Begin
<1>3. ASSUME NEW a \in Actors, GoOn(a) PROVE CreditCovers'
  <2>1. CASE LockMap(a)
    BY <1>b, <2>1 DEF LockMap
  <2>2. CASE LockSig(a)
    BY <1>b, <2>2 DEF LockSig
  <2>3. CASE NoSuchTask(a) \/ SetBit(a)
    BY <2>3, FinishedCredit DEF NoSuchTask, SetBit
  <2> QED
    BY <1>3, <2>1, <2>2, <2>3 DEF GoOn
<1>4. ASSUME NEW t \in Tasks, TaskGoesOn(t) PROVE CreditCovers'
  <2>1. CASE Sort(t)
    BY <1>a, <1>b, <2>1 DEF Sort
  <2>2. CASE Wake(t)
    BY <1>a, <1>b, <2>2 DEF Wake
  <2> QED
    BY <1>a, <1>3, <1>4, <2>1, <2>2 DEF TaskGoesOn
<1>5. ASSUME TimerGoesOn PROVE CreditCovers'
  <2>0. Timer \in Actors
    BY ActorFacts
  <2>1. CASE ReadTime
    BY <1>b, <2>0, <2>1 DEF ReadTime
  <2>2. CASE LockQueue
    BY <1>b, <2>0, <2>2 DEF LockQueue
  <2>3. CASE UnlockQueue
    BY <1>b, <2>0, <2>3 DEF UnlockQueue
  <2>4. CASE Expire
    <3>1. queue[idx].pid \in Tasks
      <4>1. queue \in Seq(Entries) /\ idx \in 1..(MaxTimers + 1) /\ idx <= Len(queue)
        BY <2>4 DEF IInv, TypeOK, Expire
      <4>2. idx \in DOMAIN queue
        BY <4>1, QueueEntries, SignalsConstants
      <4> QED
        BY <4>1, <4>2, QueueEntries
    <3>2. SIGALRM \in Nat /\ Signal(Timer, queue[idx].pid, SIGALRM)
          /\ pc[Timer] = "scan" /\ pending' = pending
      BY <2>4, SignalsConstants DEF Expire
    <3> QED
      BY <2>0, <3>1, <3>2, SignalCredit
  <2> QED
    BY <1>1, <1>3, <1>5, <2>0, <2>1, <2>2, <2>3, <2>4 DEF TimerGoesOn
<1> QED
  BY <1>1, <1>2, <1>4, <1>5 DEF Next

\* However tasks and the interrupt interleave, a signal is pending only if it was
\* sent once more than it was popped (signal.rs 71-101, task/signal.rs 51-59).
THEOREM SentOnceHolds == Spec => []SentOnce
<1>1. Init => CreditCovers
  <2> SUFFICES ASSUME Init, NEW t \in Tasks, NEW s \in Sigs \ {MaxSig}
               PROVE  /\ IsFiniteSet(InFlight(t, s))
                      /\ credit[t][s] >= Waiting(t, s) + Cardinality(InFlight(t, s))
    BY DEF CreditCovers
  <2>1. InFlight(t, s) = {}
    BY DEF Init, InFlight, Carries
  <2>2. Waiting(t, s) = 0 /\ credit[t][s] = 0
    BY DEF Init, Waiting
  <2> QED
    BY <2>1, <2>2, FS_EmptySet
<1>2. IInv /\ CreditCovers /\ [Next]_vars => CreditCovers'
  BY CreditStep
<1>3. IInv /\ CreditCovers => SentOnce
  <2> SUFFICES ASSUME IInv, CreditCovers, NEW t \in Tasks, NEW s \in pending[t] \ {MaxSig}
               PROVE  credit[t][s] >= 1
    BY DEF SentOnce
  <2>1. s \in Sigs \ {MaxSig} /\ credit[t][s] \in Int
    BY DEF IInv, TypeOK
  <2>2. Waiting(t, s) = 1
    BY DEF Waiting
  <2>3. /\ Cardinality(InFlight(t, s)) \in Nat
        /\ credit[t][s] >= Waiting(t, s) + Cardinality(InFlight(t, s))
    BY <2>1, FS_CardinalityType DEF CreditCovers
  <2> QED
    BY <2>1, <2>2, <2>3
<1> QED
  BY <1>1, <1>2, <1>3, Invariance, PTL DEF Spec
=============================================================================
