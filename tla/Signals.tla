------------------------------ MODULE Signals ------------------------------
(***************************************************************************)
(* Signals and timers of the Linux compatible layer: TaskSignal            *)
(* (task/signal.rs), the signal system calls (syscall/signal.rs) and the   *)
(* time queue (timer.rs), which a timer interrupt drives while tasks make  *)
(* calls.  Every lock the code takes is a step of its own where another    *)
(* lock is taken or the value read is used after it: TIME_QUEUE, TASK_MAP  *)
(* and each task's signal.  An update of pending is a read and a write.    *)
(*                                                                         *)
(* Signals are 1..MaxSig, 64 in the code.  TASK_MAP is a constant: nothing *)
(* in the layer adds or removes a task.                                    *)
(***************************************************************************)
EXTENDS Integers, Sequences, FiniteSets

CONSTANTS Tasks,
          Timer,        \* the actor that runs handle_timer
          Registered,   \* the keys of TASK_MAP
          MaxSig, SIGALRM,
          Numbers,      \* what calls pass to kill and tkill
          Masks,        \* signal sets given to sigprocmask
          MaxTime,      \* bound on CURRENT_TIME_MS
          MaxTimers,    \* bound on timers ever set
          MaxCalls      \* bound on the other calls

Actors == Tasks \cup {Timer}
Free == "free"

ASSUME SignalsConstants ==
  /\ Timer \notin Tasks /\ Free \notin Actors
  /\ Registered \subseteq Tasks
  /\ MaxSig \in Nat \ {0} /\ SIGALRM \in 1..MaxSig
  /\ Masks \subseteq SUBSET (1..MaxSig) /\ Numbers \subseteq Nat
  /\ MaxTime \in Nat /\ MaxTimers \in Nat /\ MaxCalls \in Nat

VARIABLES now,                      \* CURRENT_TIME_MS
          queue, next_id, fired,    \* TIME_QUEUE; timers set and expired so far
          pending, mask,            \* TaskSignal by task
          credit,                   \* how often a signal was sent and not yet popped
          pc, tgt, sig, reg,        \* each actor: where it is, whom it signals, what it read
          map_lock, queue_lock, sig_lock,
          curr, idx,                \* handle_timer: curr_time and the place in the queue
          wake,                     \* sleep_ms: target
          calls
locks  == <<map_lock, queue_lock, sig_lock>>
timers == <<queue, next_id, fired>>
actor  == <<pc, tgt, sig, reg>>
vars == <<now, queue, next_id, fired, pending, mask, credit, pc, tgt, sig, reg,
          map_lock, queue_lock, sig_lock, curr, idx, wake, calls>>

Sigs == 1..MaxSig
Entries == [id : 1..MaxTimers, at : 0..MaxTime, pid : Tasks]

Init ==
  /\ now = 0 /\ queue = <<>> /\ next_id = 1 /\ fired = {}
  /\ pending = [t \in Tasks |-> {}] /\ mask = [t \in Tasks |-> {}]
  /\ credit = [t \in Tasks |-> [s \in Sigs |-> 0]]
  /\ pc = [a \in Actors |-> "idle"]
  /\ tgt = [a \in Actors |-> Free]
  /\ sig = [a \in Actors |-> 0] /\ reg = [a \in Actors |-> {}]
  /\ map_lock = Free /\ queue_lock = Free /\ sig_lock = [t \in Tasks |-> Free]
  /\ curr = 0 /\ idx = 1 /\ wake = [t \in Tasks |-> 0] /\ calls = 0

\* advance_time, from the timer interrupt.
Advance ==
  /\ now < MaxTime /\ now' = now + 1
  /\ UNCHANGED <<timers, pending, mask, credit, actor, locks, curr, idx, wake, calls>>

Call(t) == t \in Tasks /\ pc[t] = "idle" /\ calls < MaxCalls /\ calls' = calls + 1

(***************************************************************************)
(* Signalling a task: sys_kill, sys_tkill and an expired timer take        *)
(* TASK_MAP, then the task's signal lock, then set a bit of pending.       *)
(***************************************************************************)
\* Mutant: the upper bound is not checked.
Bit_Unbounded(s) == IF s = 0 THEN {MaxSig} ELSE {s}

\* 1 << (sig - 1): nothing beyond the last signal; 0 wraps to the top bit.
Bit(s) == IF s = 0 THEN {MaxSig} ELSE IF s <= MaxSig THEN {s} ELSE {}

\* kill with 0 only looks the task up.
sys_kill_null(t) ==
  /\ Call(t) /\ map_lock = Free
  /\ UNCHANGED <<now, timers, pending, mask, credit, actor, locks, curr, idx, wake>>

Sent(c, s) == [r \in Sigs |-> IF r = s THEN c[r] + 1 ELSE c[r]]
Signal(a, p, s) ==
  /\ pc' = [pc EXCEPT ![a] = "map"]
  /\ tgt' = [tgt EXCEPT ![a] = p] /\ sig' = [sig EXCEPT ![a] = s]
  /\ credit' = [credit EXCEPT ![p] = Sent(@, s)]

sys_kill(t, p, s) ==
  /\ Call(t) /\ s # 0
  /\ Signal(t, p, s)
  /\ UNCHANGED <<now, timers, pending, mask, reg, locks, curr, idx, wake>>

sys_tkill(t, p, s) ==
  /\ Call(t)
  /\ Signal(t, p, s)
  /\ UNCHANGED <<now, timers, pending, mask, reg, locks, curr, idx, wake>>

\* Where an actor goes on: a task returns from its call, handle_timer goes on
\* with the queue, from which retain drops the entry.
Back(a) == IF a = Timer THEN "scan" ELSE "idle"
\* Mutant: the queue is cut off where an entry expired.
Without_Rest(q, i) == SubSeq(q, 1, i - 1)

Without(q, i) == SubSeq(q, 1, i - 1) \o SubSeq(q, i + 1, Len(q))
Finished(a) ==
  /\ pc' = [pc EXCEPT ![a] = Back(a)]
  /\ tgt' = [tgt EXCEPT ![a] = Free]
  /\ sig' = [sig EXCEPT ![a] = 0] /\ reg' = [reg EXCEPT ![a] = {}]
  /\ IF a = Timer
     THEN queue' = Without(queue, idx) /\ fired' = fired \cup {queue[idx].id}
     ELSE UNCHANGED <<queue, fired>>

LockMap(a) ==
  /\ pc[a] = "map" /\ map_lock = Free /\ tgt[a] \in Registered
  /\ map_lock' = a
  /\ pc' = [pc EXCEPT ![a] = "sig"]
  /\ UNCHANGED <<now, timers, pending, mask, credit, tgt, sig, reg, queue_lock, sig_lock,
                 curr, idx, wake, calls>>

NoSuchTask(a) ==
  /\ pc[a] = "map" /\ map_lock = Free /\ tgt[a] \notin Registered
  /\ Finished(a)
  /\ UNCHANGED <<now, next_id, pending, mask, credit, locks, curr, idx, wake, calls>>

\* Mutant: pending is read whoever holds the lock.
SigFree_Always(t) == TRUE

SigFree(t) == sig_lock[t] = Free

LockSig(a) ==
  /\ pc[a] = "sig" /\ SigFree(tgt[a])
  /\ sig_lock' = [sig_lock EXCEPT ![tgt[a]] = a]
  /\ reg' = [reg EXCEPT ![a] = pending[tgt[a]]]
  /\ pc' = [pc EXCEPT ![a] = "set"]
  /\ UNCHANGED <<now, timers, pending, mask, credit, tgt, sig, map_lock, queue_lock,
                 curr, idx, wake, calls>>

SetBit(a) ==
  /\ pc[a] = "set"
  /\ pending' = [pending EXCEPT ![tgt[a]] = reg[a] \cup Bit(sig[a])]
  /\ map_lock' = Free /\ sig_lock' = [sig_lock EXCEPT ![tgt[a]] = Free]
  /\ Finished(a)
  /\ UNCHANGED <<now, next_id, mask, credit, queue_lock, curr, idx, wake, calls>>

(***************************************************************************)
(* A task's own signals.                                                   *)
(***************************************************************************)
\* SIG_BLOCK, SIG_UNBLOCK, SIG_SETMASK.
sys_sigprocmask(t, set) ==
  /\ Call(t) /\ SigFree(t)
  /\ \E m \in {mask[t] \cup set, mask[t] \ set, set} : mask' = [mask EXCEPT ![t] = m]
  /\ UNCHANGED <<now, timers, pending, credit, actor, locks, curr, idx, wake>>

Lowest(S) == CHOOSE s \in S : \A r \in S : s <= r
\* Mutant: the mask is forgotten.
Deliverable_All(t) == pending[t]

\* has_unmasked_signal.
Deliverable(t) == pending[t] \ mask[t]

pop_signal(t) ==
  /\ t \in Tasks /\ pc[t] = "idle" /\ SigFree(t) /\ Deliverable(t) # {}
  /\ LET s == Lowest(Deliverable(t)) IN
       /\ pending' = [pending EXCEPT ![t] = @ \ {s}]
       /\ credit' = [credit EXCEPT ![t][s] = @ - 1]
  /\ UNCHANGED <<now, timers, mask, actor, locks, curr, idx, wake, calls>>

(***************************************************************************)
(* Timers.                                                                 *)
(***************************************************************************)
\* set_process_timer pushes under the lock, lets it go, and sorts.
set_process_timer(t, p, at) ==
  /\ pc[t] = "idle" /\ next_id <= MaxTimers /\ queue_lock = Free
  /\ queue' = Append(queue, [id |-> next_id, at |-> at, pid |-> p])
  /\ next_id' = next_id + 1
  /\ pc' = [pc EXCEPT ![t] = "sort"]
  /\ UNCHANGED <<now, fired, pending, mask, credit, tgt, sig, reg, locks, curr, idx, wake, calls>>

\* sort_by is stable.
Rank(q, i) == Cardinality({j \in DOMAIN q : q[j].at < q[i].at \/ (q[j].at = q[i].at /\ j <= i)})
\* Mutant: the queue is left as it is.
Sorted_Not(q) == q

Sorted(q) == [r \in DOMAIN q |-> q[CHOOSE i \in DOMAIN q : Rank(q, i) = r]]
Sort(t) ==
  /\ pc[t] = "sort" /\ queue_lock = Free
  /\ queue' = Sorted(queue)
  /\ pc' = [pc EXCEPT ![t] = "idle"]
  /\ UNCHANGED <<now, next_id, fired, pending, mask, credit, tgt, sig, reg, locks, curr, idx,
                 wake, calls>>

\* sleep_ms spins until the time has come.
sleep_ms(t, ms) ==
  /\ Call(t) /\ now + ms <= MaxTime
  /\ wake' = [wake EXCEPT ![t] = now + ms]
  /\ pc' = [pc EXCEPT ![t] = "sleep"]
  /\ UNCHANGED <<now, timers, pending, mask, credit, tgt, sig, reg, locks, curr, idx>>

Wake(t) ==
  /\ pc[t] = "sleep" /\ now >= wake[t]
  /\ wake' = [wake EXCEPT ![t] = 0]
  /\ pc' = [pc EXCEPT ![t] = "idle"]
  /\ UNCHANGED <<now, timers, pending, mask, credit, tgt, sig, reg, locks, curr, idx, calls>>

\* handle_timer reads the time before it takes the queue.
ReadTime ==
  /\ pc[Timer] = "idle"
  /\ curr' = now
  /\ pc' = [pc EXCEPT ![Timer] = "queue"]
  /\ UNCHANGED <<now, timers, pending, mask, credit, tgt, sig, reg, locks, idx, wake, calls>>

\* Mutant: the walk begins at the second entry.
First_Second == 2

First == 1

LockQueue ==
  /\ pc[Timer] = "queue" /\ queue_lock = Free
  /\ queue_lock' = Timer /\ idx' = First
  /\ pc' = [pc EXCEPT ![Timer] = "scan"]
  /\ UNCHANGED <<now, timers, pending, mask, credit, tgt, sig, reg, map_lock, sig_lock, curr,
                 wake, calls>>

\* Mutant: due one tick too soon.
Due_Early(e) == curr + 1 >= e.at

Due(e) == curr >= e.at

Keep ==
  /\ pc[Timer] = "scan" /\ idx <= Len(queue) /\ ~Due(queue[idx])
  /\ idx' = idx + 1
  /\ UNCHANGED <<now, timers, pending, mask, credit, actor, locks, curr, wake, calls>>

Expire ==
  /\ pc[Timer] = "scan" /\ idx <= Len(queue) /\ Due(queue[idx])
  /\ Signal(Timer, queue[idx].pid, SIGALRM)
  /\ UNCHANGED <<now, timers, pending, mask, reg, locks, curr, idx, wake, calls>>

UnlockQueue ==
  /\ pc[Timer] = "scan" /\ idx > Len(queue)
  /\ queue_lock' = Free /\ idx' = 1
  /\ pc' = [pc EXCEPT ![Timer] = "idle"]
  /\ UNCHANGED <<now, timers, pending, mask, credit, tgt, sig, reg, map_lock, sig_lock, curr,
                 wake, calls>>

(***************************************************************************)
(* Specification.                                                          *)
(***************************************************************************)
Begin(t) ==
  \/ sys_kill_null(t)
  \/ \E p \in Tasks, s \in Numbers : sys_kill(t, p, s) \/ sys_tkill(t, p, s)
  \/ \E set \in Masks : sys_sigprocmask(t, set)
  \/ \E p \in Tasks, at \in 0..MaxTime : set_process_timer(t, p, at)
  \/ \E ms \in 1..MaxTime : sleep_ms(t, ms)
  \/ pop_signal(t)

\* The steps an actor takes once it has begun.
GoOn(a) == LockMap(a) \/ NoSuchTask(a) \/ LockSig(a) \/ SetBit(a)
TaskGoesOn(t) == GoOn(t) \/ Sort(t) \/ Wake(t)
TimerGoesOn == GoOn(Timer) \/ ReadTime \/ LockQueue \/ Keep \/ Expire \/ UnlockQueue

Next == \/ Advance
        \/ \E t \in Tasks : Begin(t) \/ TaskGoesOn(t)
        \/ TimerGoesOn

Spec == Init /\ [][Next]_vars

\* The interrupt keeps coming, an actor in the middle of a call is scheduled, and
\* a task that spins for TIME_QUEUE gets it between two interrupts.
Fairness == WF_vars(Advance) /\ WF_vars(TimerGoesOn) /\ \A t \in Tasks : WF_vars(TaskGoesOn(t)) /\ SF_vars(Sort(t))
FairSpec == Spec /\ Fairness

(***************************************************************************)
(* Properties.                                                             *)
(***************************************************************************)
Waits == {"idle", "map", "sig", "set", "sort", "sleep", "queue", "scan"}
TypeOK ==
  /\ now \in 0..MaxTime /\ curr \in 0..now /\ idx \in 1..(MaxTimers + 1)
  /\ queue \in Seq(Entries) /\ next_id \in 1..(MaxTimers + 1) /\ fired \subseteq 1..MaxTimers
  /\ pending \in [Tasks -> SUBSET Sigs] /\ mask \in [Tasks -> SUBSET Sigs]
  /\ credit \in [Tasks -> [Sigs -> Int]]
  /\ pc \in [Actors -> Waits] /\ tgt \in [Actors -> Tasks \cup {Free}]
  /\ sig \in [Actors -> Nat] /\ reg \in [Actors -> SUBSET Sigs]
  /\ map_lock \in Actors \cup {Free} /\ queue_lock \in {Timer, Free}
  /\ sig_lock \in [Tasks -> Actors \cup {Free}]
  /\ wake \in [Tasks -> 0..MaxTime] /\ calls \in 0..MaxCalls

\* A pending signal disappears only by being popped, and what is popped is the
\* lowest that the mask lets through: no update of pending overwrites another's
\* (signal.rs 71-101; timer.rs 60-64; task/signal.rs 51-59).
SignalsKept ==
  [][\A t \in Tasks : pending[t] \ pending'[t] # {} =>
       LET open == pending[t] \ mask[t] IN
       open # {} /\ pending'[t] = pending[t] \ {Lowest(open)}]_vars

\* No signal comes out more often than it was sent, by number or by a timer: an
\* update of pending never brings back what was popped meanwhile.  The one
\* exception is the top signal, which tkill with 0 raises (signal.rs 90-101).
SentOnce == \A t \in Tasks : \A s \in pending[t] \ {MaxSig} : credit[t][s] >= 1

\* Every timer set is in the queue or has expired, once, although the push and
\* the sort are two critical sections and the queue is rewritten while it is
\* walked.
TimersKept ==
  /\ \A i, j \in DOMAIN queue : queue[i].id = queue[j].id => i = j
  /\ \A id \in 1..(next_id - 1) : id \in fired <=> ~ \E i \in DOMAIN queue : queue[i].id = id

\* A timer never expires before its time, although handle_timer works with a
\* time read before it had the queue (timer.rs 44-50).
NotEarly ==
  [][\A i \in DOMAIN queue : queue[i].id \in fired' \ fired => queue[i].at <= now]_vars

\* The queue is in order whenever no set_process_timer is between its push and
\* its sort.
InOrder ==
  (\A t \in Tasks : pc[t] # "sort") =>
    \A i, j \in DOMAIN queue : i < j => queue[i].at <= queue[j].at

\* Every timer expires in the end and every call returns: a sleeper wakes and a
\* lock is obtained, whoever holds the others.
Progress ==
  /\ \A id \in 1..MaxTimers : (next_id > id) ~> (id \in fired)
  /\ \A t \in Tasks : (pc[t] # "idle") ~> (pc[t] = "idle")
=============================================================================
