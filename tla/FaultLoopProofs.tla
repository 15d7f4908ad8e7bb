-------------------------- MODULE FaultLoopProofs --------------------------
(***************************************************************************)
(* Theorems about the fault loop, for every fault limit, address space,    *)
(* amount of memory and set of user programs.                              *)
(***************************************************************************)
EXTENDS FaultLoop, FiniteSetTheorems, TLAPS

Quiet == \A t \in Threads : ~Live(t)

\* What the loop keeps besides its types: how far the counters can be, whose
\* message is being handled, and that nobody runs while it is.
Counters ==
    /\ ~Halted => fault_count <= MaxFaults
    /\ forks <= fault_count
    /\ pc = "handle" => forks < fault_count

Serving ==
    pc \in {"handle", "stdin"} =>
        Quiet /\ caller \in Threads /\ st[caller] = "replywait"

ForkState ==
    /\ is_child <=> parent_regs # NoRegs
    /\ active_tcb = IF is_child THEN Child ELSE Busybox
    /\ pc # "panic"

Tcbs ==
    /\ st[Busybox] \notin NoTcb
    /\ ChildTcb = "ready" <=> st[Child] \notin NoTcb
    /\ ChildTcb = "absent" => ~is_child

\* Both ways to restart a thread work: the child TCB was configured (or there is
\* none) and a reply carries the label the kernel restarts a thread for.
Restarts == ChildTcb # "broken" /\ ReplyTag = "zero"

IInv ==
    /\ TypeOK
    /\ Counters
    /\ Serving
    /\ ForkState
    /\ Tcbs
    /\ OneRunner
    /\ Restarts => NeverStuck

-----------------------------------------------------------------------------
\* The three kernel operations keep the type of the thread table.
LEMMA KernelTypes ==
    ASSUME TypeOK, NEW t \in Threads,
           NEW s \in [Threads -> ThreadStates]
    PROVE  /\ Resumed(s, t) \in [Threads -> ThreadStates]
           /\ Suspended(s, t) \in [Threads -> ThreadStates]
           /\ \A to \in ReplyStates : Replied(s, to) \in [Threads -> ThreadStates]
           /\ \A T : Revoked(T) \in Threads \cup {NoThread}
    BY DEF TypeOK, Resumed, Suspended, Replied, ReplyStates, Revoked, ThreadStates

\* Advancing past a call and setting rax keeps a register file well formed.
LEMMA RegsTypes ==
    ASSUME NEW x \in Regs, NEW y \in Regs, NEW v \in Results
    PROVE  /\ PastCall(x) \in Regs
           /\ [PastCall(x) EXCEPT !.rax = v] \in Regs
           /\ Write18(y, [PastCall(x) EXCEPT !.rax = v]) \in Regs
<1>1. PastCall(x) \in Regs
  <2>1. x.rip + 1 \in Nat
    BY DEF Regs
  <2>2. [x EXCEPT !.rip = x.rip + 1] \in Regs
    BY <2>1, Zenon DEF Regs
  <2>3. \A z \in Regs : [z EXCEPT !.trap = FALSE] \in Regs
    BY DEF Regs
  <2>4. PastCall(x) = [[x EXCEPT !.rip = x.rip + 1] EXCEPT !.trap = FALSE]
    BY DEF PastCall
  <2> QED
    BY <2>2, <2>3, <2>4
<1>2. \A z \in Regs : [z EXCEPT !.rax = v] \in Regs
  BY DEF Regs
<1>3. \A z \in Regs : Write18(y, z) \in Regs
  BY DEF Regs, Write18
<1> QED
  BY <1>1, <1>2, <1>3

\* Answering a call keeps the types of what it assigns.
LEMMA AnswerTypes ==
    ASSUME TypeOK, NEW ret \in Results, Answer(ret)
    PROVE  /\ regs' \in [Threads -> Regs]
           /\ st' \in [Threads -> ThreadStates]
           /\ caller' \in Threads \cup {NoThread}
           /\ pc' \in Pcs
<1>1. active_tcb \in Threads /\ regs \in [Threads -> Regs]
  BY DEF TypeOK
<1>2. Write18(regs[active_tcb], [PastCall(active_regs) EXCEPT !.rax = ret]) \in Regs
  BY <1>1, RegsTypes DEF active_regs
<1>3. regs' \in [Threads -> Regs]
  BY <1>1, <1>2 DEF Answer
<1>4. \A to \in ReplyStates : Replied(st, to) \in [Threads -> ThreadStates]
  BY KernelTypes DEF TypeOK, Threads
<1> QED
  BY <1>3, <1>4 DEF Answer, Reply, Pcs

\* So does every emulated call that only answers.
LEMMA EmulateTypes ==
    ASSUME TypeOK,
           NEW direct \in SUBSET Results, NEW after \in SUBSET Results,
           Emulate(direct, after)
    PROVE  TypeOK'
<1>1. /\ regs' \in [Threads -> Regs]
      /\ st' \in [Threads -> ThreadStates]
      /\ caller' \in Threads \cup {NoThread}
      /\ pc' \in Pcs
  <2>1. CASE \E ret \in Results : Answer(ret)
    BY <2>1, AnswerTypes
  <2>2. CASE RootFault
    BY <2>2 DEF RootFault, Leave, TypeOK, Pcs
  <2> QED
    BY <2>1, <2>2 DEF Emulate, AnswerWith
<1>2. UNCHANGED rootRest
  BY DEF Emulate
<1> QED
  BY <1>1, <1>2 DEF TypeOK, rootRest, forkVars, memVars, historyVars

\* The state the loop starts in satisfies the inductive invariant.
LEMMA InitIInv == Init => IInv
<1> SUFFICES ASSUME Init PROVE IInv
  OBVIOUS
<1>1. InitRegs \in Regs
  BY ConstantsAssumption DEF InitRegs, Regs, Procs, Results, Pages, FsValues
<1>2. NoOrigin \in Origins
  BY ConstantsAssumption DEF NoOrigin, Origins, Procs, FsValues
<1>3. ChildState \in {"none", "inactive", "broken"}
  BY ConstantsAssumption DEF ChildState
<1>4. \A p \in LoadedPages : PtOf(p) \in Nat
  BY ConstantsAssumption DEF PtOf, Pages
<1>5. TypeOK
  <2>1. [kind |-> "syscall", page |-> 0] \in Msgs
    BY ConstantsAssumption DEF Msgs, Kinds, Pages
  <2>2. /\ st \in [Threads -> ThreadStates]
        /\ regs \in [Threads -> Regs]
        /\ msg \in [Threads -> Msgs]
    BY <1>1, <1>3, <2>1 DEF Init, ThreadStates
  <2>3. /\ caller \in Threads \cup {NoThread}
        /\ pc \in Pcs
        /\ fault_count \in 0..(MaxFaults + 1)
        /\ active_tcb \in Threads
    BY ConstantsAssumption DEF Init, Threads, Pcs
  <2>6. is_child \in BOOLEAN /\ parent_regs \in Regs \cup {NoRegs}
    BY Zenon DEF Init
  <2>4. /\ brk_cur \in Nat /\ parent_brk \in Nat
        /\ mmap_cur \in Nat /\ parent_mmap \in Nat
        /\ mapped \subseteq Pages
        /\ pts \subseteq Nat
        /\ untyped \in Nat /\ allocs \in Nat
        /\ forks \in Nat
    BY <1>4, ConstantsAssumption DEF Init, Pages
  <2>5. /\ origin \in [Procs -> Origins]
        /\ held \in [Procs -> SUBSET Nat]
    BY <1>2 DEF Init
  <2> QED
    BY <2>2, <2>3, <2>4, <2>5, <2>6 DEF TypeOK
<1>6. Counters
  BY ConstantsAssumption DEF Init, Counters
<1>7. ForkState /\ Serving
  BY DEF Init, ForkState, Serving
<1>8. Tcbs
  BY ConstantsAssumption
  DEF Init, Tcbs, NoTcb, ChildState, Threads, Busybox, Child
<1>9. OneRunner /\ NeverStuck
  BY <1>3 DEF Init, OneRunner, NeverStuck, Live, Threads, Busybox, Child
<1> QED
  BY <1>5, <1>6, <1>7, <1>8, <1>9 DEF IInv

\* A step of a user program keeps the types.
LEMMA UserTypes ==
    ASSUME TypeOK, UserNext
    PROVE  TypeOK'
<1>1. PICK t \in Threads :
        \/ \E c \in Calls, a \in Pages, k \in {"syscall", "cap"} : Issue(t, c, a, k)
        \/ \E k \in {"exception", "unmatched"} : Raise(t, k)
        \/ \E p \in Pages : Touch(t, p)
        \/ Retry(t)
  BY DEF UserNext
<1>a. 0 \in Pages
  BY ConstantsAssumption DEF Pages
<1>2. /\ regs' \in [Threads -> Regs]
      /\ msg' \in [Threads -> Msgs]
      /\ st' \in [Threads -> ThreadStates]
      /\ UNCHANGED userRest
  <2>1. CASE \E c \in Calls, a \in Pages, k \in {"syscall", "cap"} : Issue(t, c, a, k)
    <3>1. PICK c \in Calls, a \in Pages, k \in {"syscall", "cap"} : Issue(t, c, a, k)
      BY <2>1
    <3>2. c \in AllCalls /\ k \in Kinds
      BY ConstantsAssumption DEF Kinds
    <3>3. [[regs[t] EXCEPT !.rax = c] EXCEPT !.arg = a] \in Regs
      BY <3>2 DEF TypeOK, Regs
    <3>4. regs' = [regs EXCEPT ![t] = [[regs[t] EXCEPT !.rax = c] EXCEPT !.arg = a]]
      BY <3>1 DEF Issue, TypeOK
    <3>5. [kind |-> k, page |-> 0] \in Msgs
      BY <1>a, <3>2 DEF Msgs
    <3> QED
      BY <3>1, <3>3, <3>4, <3>5 DEF Issue, TypeOK, ThreadStates
  <2>2. CASE \E k \in {"exception", "unmatched"} : Raise(t, k)
    <3>1. PICK k \in {"exception", "unmatched"} : Raise(t, k)
      BY <2>2
    <3>2. [kind |-> k, page |-> 0] \in Msgs
      BY <1>a DEF Msgs, Kinds
    <3> QED
      BY <3>1, <3>2 DEF Raise, TypeOK, ThreadStates
  <2>3. CASE \E p \in Pages : Touch(t, p)
    <3>1. PICK p \in Pages : Touch(t, p)
      BY <2>3
    <3>2. [kind |-> "vm", page |-> p] \in Msgs
      BY DEF Msgs, Kinds
    <3>3. [regs[t] EXCEPT !.acc = p] \in Regs
      BY DEF TypeOK, Regs
    <3> QED
      BY <3>1, <3>2, <3>3 DEF Touch, TypeOK, ThreadStates
  <2>4. CASE Retry(t)
    <3>1. regs[t] \in Regs /\ regs[t].acc \in Pages \cup {NoPage}
      BY DEF TypeOK, Regs
    <3>2. regs[t].acc # NoPage => [kind |-> "vm", page |-> regs[t].acc] \in Msgs
      BY <3>1 DEF Msgs, Kinds
    <3>3. [regs[t] EXCEPT !.acc = NoPage] \in Regs
      BY <3>1 DEF Regs
    <3> QED
      BY <2>4, <3>2, <3>3 DEF Retry, TypeOK, ThreadStates
  <2> QED
    BY <1>1, <2>1, <2>2, <2>3, <2>4
<1> QED
  BY <1>2 DEF TypeOK, userRest, forkVars, memVars, historyVars

\* A handler that changes only threads, registers and the program counter.
LEMMA RestTypes ==
    ASSUME TypeOK, UNCHANGED rootRest,
           regs' \in [Threads -> Regs],
           st' \in [Threads -> ThreadStates],
           caller' \in Threads \cup {NoThread},
           pc' \in Pcs
    PROVE  TypeOK'
    BY DEF TypeOK, rootRest, forkVars, memVars, historyVars

\* The ways an iteration ends keep the types.
LEMMA EndTypes ==
    ASSUME TypeOK
    PROVE  /\ Reply \/ KillReply =>
                 /\ st' \in [Threads -> ThreadStates]
                 /\ caller' \in Threads \cup {NoThread}
                 /\ pc' \in Pcs
           /\ \A w \in Pcs : Leave(w) =>
                 /\ st' \in [Threads -> ThreadStates]
                 /\ caller' \in Threads \cup {NoThread}
                 /\ pc' \in Pcs
<1>1. \A to \in ReplyStates : Replied(st, to) \in [Threads -> ThreadStates]
  BY KernelTypes DEF TypeOK, Threads
<1> QED
  BY <1>1 DEF Reply, KillReply, Leave, TypeOK, Pcs

\* The page fault handler keeps the types: memory only shrinks while there is some.
LEMMA VMFaultTypes ==
    ASSUME TypeOK, Serving, VMFault
    PROVE  TypeOK'
<1>1. caller \in Threads
  BY DEF VMFault, VMFaultNull, VMFaultNoSlot, VMFaultNoFrame, VMFaultMap, VMFaultMapFail,
         Handling, Serving
<1>2. FaultPage \in Pages
  BY <1>1 DEF FaultPage, TypeOK, Msgs
<1>3. PtOf(FaultPage) \in Nat
  BY <1>2, ConstantsAssumption DEF PtOf, Pages
<1>4. /\ UNCHANGED <<regs, msg, fault_count, forkVars, brk_cur, mmap_cur, historyVars>>
      /\ Reply \/ KillReply \/ Leave("oom")
      /\ mapped' \subseteq Pages /\ pts' \subseteq Nat
      /\ untyped' \in Nat /\ allocs' \in Nat
  <2>1. CASE VMFaultNull
    BY <2>1 DEF VMFaultNull, TypeOK, rootRest, memVars
  <2>2. CASE VMFaultNoSlot
    BY <2>2 DEF VMFaultNoSlot, TypeOK, rootRest, memVars
  <2>3. CASE VMFaultNoFrame
    BY <2>3 DEF VMFaultNoFrame, TypeOK
  <2>4. CASE VMFaultMap
    <3>1. untyped' \in Nat /\ allocs' \in Nat
      BY <2>4, ConstantsAssumption DEF VMFaultMap, CanRetype, TypeOK
    <3>2. mapped' \subseteq Pages /\ pts' \subseteq Nat
      BY <2>4, <1>2, <1>3 DEF VMFaultMap, TypeOK
    <3> QED
      BY <2>4, <3>1, <3>2 DEF VMFaultMap
  <2>5. CASE VMFaultMapFail
    <3>1. untyped' \in Nat /\ allocs' \in Nat
      BY <2>5, ConstantsAssumption DEF VMFaultMapFail, CanRetype, TypeOK
    <3> QED
      BY <2>5, <3>1 DEF VMFaultMapFail, TypeOK
  <2> QED
    BY <2>1, <2>2, <2>3, <2>4, <2>5 DEF VMFault
<1>5. /\ st' \in [Threads -> ThreadStates]
      /\ caller' \in Threads \cup {NoThread}
      /\ pc' \in Pcs
  BY <1>4, EndTypes DEF Pcs
<1> QED
  BY <1>4, <1>5 DEF TypeOK, forkVars, historyVars

\* The other fault types that change no registers and no fork state: they reply, or
\* the root itself faults.
OtherKept == CapFaultOther \/ UserExceptionDump \/ OtherFault

\* The other fault types keep the types.
LEMMA OtherTypes ==
    ASSUME TypeOK, Serving,
           KillSuspend \/ CapFault \/ UserException \/ OtherKept
    PROVE  TypeOK'
<1>1. /\ Resumed(st, Busybox) \in [Threads -> ThreadStates]
      /\ Suspended(st, Busybox) \in [Threads -> ThreadStates]
      /\ Revoked({Busybox}) \in Threads \cup {NoThread}
  BY KernelTypes DEF TypeOK, Threads
<1>2. CASE KillSuspend
  BY <1>1, <1>2, RestTypes DEF KillSuspend, Pcs, TypeOK
<1>3. CASE CapFault
  <2>1. caller \in Threads
    BY <1>3 DEF CapFault, Handling, Serving
  <2>2. [regs[caller] EXCEPT !.trap = TRUE] \in Regs
    BY <2>1 DEF TypeOK, Regs
  <2>3. regs' \in [Threads -> Regs]
    BY <1>3, <2>1, <2>2 DEF CapFault, TypeOK
  <2> QED
    BY <1>1, <1>3, <2>3, RestTypes DEF CapFault, Pcs
<1>4. CASE UserException
  BY <1>1, <1>4, RestTypes DEF UserException, Pcs, TypeOK
<1>5. CASE OtherKept
  BY <1>5, EndTypes, RestTypes DEF OtherKept, CapFaultOther, UserExceptionDump, OtherFault,
                                   RootFault, Leave, Pcs, TypeOK
<1> QED
  BY <1>2, <1>3, <1>4, <1>5

\* Recv counts up to one past the limit and then leaves the loop.
LEMMA RecvTypes ==
    ASSUME TypeOK, Counters, NEW t \in Threads, Recv(t)
    PROVE  TypeOK'
<1>1. fault_count <= MaxFaults
  BY DEF Recv, Counters, Halted
<1>2. fault_count' \in 0..(MaxFaults + 1)
  BY <1>1, ConstantsAssumption DEF Recv, Counted, TypeOK
<1>3. st' \in [Threads -> ThreadStates] /\ caller' \in Threads /\ pc' \in Pcs
  BY DEF Recv, TypeOK, ThreadStates, Pcs
<1> QED
  BY <1>2, <1>3 DEF Recv, TypeOK, forkVars, memVars, historyVars

\* A child ends: what fork saved is restored.
LEMMA EndChildTypes ==
    ASSUME TypeOK, ForkState, EndChild
    PROVE  TypeOK'
<1>1. parent_regs \in Regs /\ is_child
  BY DEF EndChild, ForkState, TypeOK
<1>2. RestoredRegs \in Regs
  BY <1>1, RegsTypes DEF RestoredRegs, TypeOK, Threads, Results
<1>3. regs' \in [Threads -> Regs]
  BY <1>2 DEF EndChild, TypeOK
<1>4. /\ Resumed(Suspended(st, active_tcb), Busybox) \in [Threads -> ThreadStates]
      /\ Revoked(Threads) \in Threads \cup {NoThread}
  BY KernelTypes DEF TypeOK, Threads
<1>5. /\ active_tcb' \in Threads /\ is_child' \in BOOLEAN
      /\ parent_regs' \in Regs \cup {NoRegs}
  BY DEF EndChild, Threads
<1>6. pc' \in Pcs
  BY DEF EndChild, TypeOK, Pcs
<1>7. UNCHANGED <<msg, fault_count, parent_brk, parent_mmap, mapped, pts, untyped, allocs, forks, origin, held>>
  BY DEF EndChild, memVars, historyVars
<1>8. brk_cur' \in Nat /\ mmap_cur' \in Nat
  BY DEF EndChild, TypeOK
<1>9. st' \in [Threads -> ThreadStates] /\ caller' \in Threads \cup {NoThread}
  BY <1>4 DEF EndChild
<1> QED
  BY <1>3, <1>5, <1>6, <1>7, <1>8, <1>9 DEF TypeOK

\* fork creates a process number the limit on faults keeps in Procs.
LEMMA ForkTypes ==
    ASSUME TypeOK, Counters, Serving, SysFork
    PROVE  TypeOK'
<1>1. caller \in Threads /\ pc = "handle"
  BY DEF SysFork, Syscall, Handling, Serving
<1>2. forks + 1 \in Procs
  BY <1>1, ConstantsAssumption DEF Counters, Halted, Procs, TypeOK
<1>3. active_regs \in Regs /\ regs[caller] \in Regs
  BY <1>1 DEF active_regs, TypeOK
<1>4. [PastCall(active_regs) EXCEPT !.rax = "zero", !.proc = forks + 1] \in Regs
  <2>1. [PastCall(active_regs) EXCEPT !.rax = "zero"] \in Regs
    BY <1>3, RegsTypes DEF Results
  <2>2. \A z \in Regs : [z EXCEPT !.proc = forks + 1] \in Regs
    BY <1>2 DEF Regs
  <2>3. [PastCall(active_regs) EXCEPT !.rax = "zero", !.proc = forks + 1]
          = [[PastCall(active_regs) EXCEPT !.rax = "zero"] EXCEPT !.proc = forks + 1]
    OBVIOUS
  <2> QED
    BY <2>1, <2>2, <2>3
<1>5. regs' \in [Threads -> Regs]
  BY <1>4 DEF SysFork, TypeOK
<1>6. OriginOf(regs[caller]) \in Origins
  <2>1. /\ regs[caller].proc \in Procs
        /\ regs[caller].rip \in Nat
        /\ regs[caller].fs \in FsValues
    BY <1>3 DEF Regs
  <2> QED
    BY <2>1 DEF OriginOf, Origins, TypeOK
<1>7. origin' \in [Procs -> Origins]
  BY <1>2, <1>6 DEF SysFork, TypeOK
<1>8. active_regs.proc \in Procs
  BY <1>3 DEF Regs
<1>9. held' \in [Procs -> SUBSET Nat]
  BY <1>2, <1>8 DEF SysFork, TypeOK
<1>10. st' \in [Threads -> ThreadStates] /\ caller' \in Threads \cup {NoThread}
  BY KernelTypes DEF SysFork, Switched, TypeOK, Threads
<1>11. /\ parent_regs' \in Regs /\ active_tcb' \in Threads /\ is_child' \in BOOLEAN
       /\ parent_brk' \in Nat /\ parent_mmap' \in Nat
  BY <1>3 DEF SysFork, SavedRegs, TypeOK, Threads
<1>12. pc' \in Pcs /\ forks' \in Nat
  BY DEF SysFork, TypeOK, Pcs
<1>13. UNCHANGED <<msg, fault_count, brk_cur, mmap_cur, mapped, pts, untyped, allocs>>
  BY DEF SysFork, memVars
<1> QED
  BY <1>5, <1>7, <1>9, <1>10, <1>11, <1>12, <1>13 DEF TypeOK

\* mmap, brk, arch_prctl, wait4 and the calls that only answer keep the types.
LEMMA SyscallTypes ==
    ASSUME TypeOK, Counters, Serving, ForkState, SyscallNext \/ ReadStdinLine
    PROVE  TypeOK'
<1>1. CASE \/ SysStub \/ SysWrite \/ SysOpen \/ SysAccess \/ SysStat \/ SysFstat
           \/ SysGetdents \/ SysLseek \/ SysUname \/ SysGetcwd \/ SysGetFs \/ SysUnknown
           \/ ReadStdinLine
  <2>1. PICK direct \in SUBSET Results, after \in SUBSET Results : Emulate(direct, after)
    BY <1>1 DEF SysStub, SysWrite, SysOpen, SysAccess, SysStat, SysFstat, SysGetdents,
                SysLseek, SysUname, SysGetcwd, SysGetFs, SysUnknown, ReadStdinLine, Results
  <2> QED
    BY <2>1, EmulateTypes
<1>2. CASE SysRead
  <2>1. CASE Leave("stdin") /\ UNCHANGED <<regs, rootRest>>
    BY <2>1, RestTypes DEF Leave, TypeOK, Pcs
  <2>2. CASE Emulate({"zero"}, {"value"})
    BY <2>2, EmulateTypes DEF Results
  <2> QED
    BY <1>2, <2>1, <2>2 DEF SysRead
<1>a. active_tcb \in Threads /\ active_regs \in Regs
  BY DEF active_regs, TypeOK
<1>b. active_regs.arg \in Pages /\ active_regs.proc \in Procs
  BY <1>a DEF Regs
<1>3. CASE SysMmap
  <2>1. mmap_cur' \in Nat /\ mmap_cur \in Nat
    BY <1>3, <1>b DEF SysMmap, MmapLen, TypeOK, Pages
  <2>2. held' \in [Procs -> SUBSET Nat]
    <3>1. held[active_regs.proc] \cup {mmap_cur} \cup mmap_cur..(mmap_cur' - 1) \in SUBSET Nat
      BY <2>1, <1>b DEF TypeOK
    <3> QED
      BY <1>3, <1>b, <3>1 DEF SysMmap, TypeOK
  <2>3. /\ regs' \in [Threads -> Regs]
        /\ st' \in [Threads -> ThreadStates]
        /\ caller' \in Threads \cup {NoThread}
        /\ pc' \in Pcs
    BY <1>3, AnswerTypes DEF SysMmap, Results
  <2> QED
    BY <1>3, <2>1, <2>2, <2>3 DEF SysMmap, TypeOK, forkVars, memVars
<1>4. CASE SysBrk
  <2>1. /\ regs' \in [Threads -> Regs]
        /\ st' \in [Threads -> ThreadStates]
        /\ caller' \in Threads \cup {NoThread}
        /\ pc' \in Pcs
    BY <1>4, AnswerTypes DEF SysBrk, Results
  <2>2. brk_cur' \in Nat
    BY <1>4, <1>b DEF SysBrk, TypeOK, Pages
  <2> QED
    BY <1>4, <2>1, <2>2 DEF SysBrk, TypeOK, forkVars, memVars, historyVars
<1>5. CASE SysArchPrctl
  <2>1. PICK v \in FsValues :
          regs' = [regs EXCEPT ![active_tcb] = [PastCall(active_regs) EXCEPT !.rax = "zero", !.fs = v]]
    BY <1>5 DEF SysArchPrctl
  <2>2. [PastCall(active_regs) EXCEPT !.rax = "zero"] \in Regs
    BY <1>a, RegsTypes DEF Results
  <2>3. \A z \in Regs : [z EXCEPT !.fs = v] \in Regs
    BY DEF Regs
  <2>4. [PastCall(active_regs) EXCEPT !.rax = "zero", !.fs = v]
          = [[PastCall(active_regs) EXCEPT !.rax = "zero"] EXCEPT !.fs = v]
    OBVIOUS
  <2>5. regs' \in [Threads -> Regs]
    BY <2>1, <2>2, <2>3, <2>4, <1>a DEF TypeOK
  <2> QED
    BY <1>5, <2>5, EndTypes, RestTypes DEF SysArchPrctl
<1>6. CASE SysWait4
  <2>1. CASE \E ret \in Results : Answer(ret)
    BY <1>6, <2>1, AnswerTypes, RestTypes DEF SysWait4
  <2>2. CASE RootFault
    BY <1>6, <2>2, RestTypes DEF RootFault, Leave, SysWait4, TypeOK, Pcs
  <2> QED
    BY <1>6, <2>1, <2>2 DEF SysWait4, Results
<1>7. CASE SysFork
  BY <1>7, ForkTypes
<1>8. CASE SysForkDisabled
  BY <1>8, AnswerTypes, RestTypes DEF SysForkDisabled, Results
<1>9. CASE ExitChild \/ ExecveChild
  BY <1>9, EndChildTypes DEF ExitChild, ExecveChild
<1>10. CASE ExitParent
  <2>1. Suspended(st, active_tcb) \in [Threads -> ThreadStates]
        /\ Revoked({active_tcb}) \in Threads \cup {NoThread}
    BY <1>a, KernelTypes DEF TypeOK
  <2> QED
    BY <1>10, <2>1, RestTypes DEF ExitParent, TypeOK, Pcs
<1>11. CASE ExecveOther
  <2>1. CASE \E ret \in Results : Answer(ret)
    BY <1>11, <2>1, AnswerTypes, RestTypes DEF ExecveOther
  <2>2. CASE RootFault
    BY <1>11, <2>2, RestTypes DEF RootFault, Leave, ExecveOther, TypeOK, Pcs
  <2> QED
    BY <1>11, <2>1, <2>2 DEF ExecveOther, AnswerWith, Results
<1> QED
  BY <1>1, <1>2, <1>3, <1>4, <1>5, <1>6, <1>7, <1>8, <1>9, <1>10, <1>11 DEF SyscallNext

-----------------------------------------------------------------------------
\* The conjuncts of IInv that say who runs, of the state and of its successor.
Control ==
    /\ Serving
    /\ Tcbs
    /\ OneRunner
    /\ Restarts => NeverStuck

\* Restarting one thread that has a TCB when nobody runs leaves one runner.
LEMMA OneRestarted ==
    ASSUME TypeOK, Tcbs, Quiet, UNCHANGED is_child,
           NEW t \in Threads, st[t] \notin NoTcb,
           st' = [st EXCEPT ![t] = "running"],
           pc' \in {"recv", "kill"}
    PROVE  Control'
<1>1. \A u \in Threads : u # t => st'[u] = st[u] /\ ~Live(u)'
  BY DEF TypeOK, Quiet, Live
<1>2. Live(t)' /\ st'[t] = "running"
  BY DEF TypeOK, Live
<1>3. OneRunner'
  BY <1>1, <1>2 DEF OneRunner
<1>4. NeverStuck'
  BY <1>2 DEF NeverStuck
<1>5. Tcbs'
  BY <1>1, <1>2 DEF Tcbs, NoTcb, Threads
<1>6. Serving'
  BY DEF Serving
<1> QED
  BY <1>3, <1>4, <1>5, <1>6 DEF Control

\* The empty fault reply restarts the thread whose message is being handled; with
\* an undefined tag it may leave it inactive.
LEMMA ReplyControl ==
    ASSUME TypeOK, Serving, Tcbs, pc \in {"handle", "stdin"}, UNCHANGED is_child,
           Reply \/ KillReply
    PROVE  Control'
<1>1. Quiet /\ caller \in Threads /\ st[caller] = "replywait"
  BY DEF Serving
<1>2. PICK to \in ReplyStates : st' = [st EXCEPT ![caller] = to]
  BY <1>1 DEF Reply, KillReply, Replied
<1>3. pc' \in {"recv", "kill"}
  BY DEF Reply, KillReply
<1>4. CASE to = "running"
  BY <1>1, <1>2, <1>3, <1>4, OneRestarted DEF NoTcb
<1>5. CASE to = "inactive"
  <2>1. \A u \in Threads : ~Live(u)' /\ (st'[u] \in NoTcb <=> st[u] \in NoTcb)
    BY <1>1, <1>2, <1>5 DEF TypeOK, Quiet, Live, NoTcb
  <2>2. ReplyTag # "zero"
    BY <1>5 DEF ReplyStates
  <2>3. Tcbs' /\ OneRunner'
    BY <2>1 DEF Tcbs, OneRunner, Threads
  <2> QED
    BY <1>3, <2>2, <2>3 DEF Control, Serving, Restarts
<1> QED
  BY <1>4, <1>5 DEF ReplyStates

\* Leaving the handler for the console or for good restarts nobody.
LEMMA LeaveControl ==
    ASSUME TypeOK, Serving, Tcbs, pc \in {"handle", "stdin"}, UNCHANGED is_child,
           NEW w \in {"stdin", "oom", "rootfault"}, Leave(w)
    PROVE  Control'
<1>1. st' = st /\ caller' = caller /\ pc' = w
  BY DEF Leave
<1>2. Quiet /\ caller \in Threads /\ st[caller] = "replywait"
  BY DEF Serving
<1>3. \A t \in Threads : ~Live(t)'
  BY <1>1, <1>2 DEF Quiet, Live
<1> QED
  BY <1>1, <1>2, <1>3 DEF Control, Serving, Quiet, Tcbs, OneRunner, NeverStuck

\* A user program that runs is the one thread that runs, before and after.
LEMMA UserControl ==
    ASSUME TypeOK, Control, UserNext
    PROVE  Control'
<1>1. PICK t \in Threads :
        /\ st[t] = "running"
        /\ st' = st \/ st' = [st EXCEPT ![t] = "sending"]
        /\ UNCHANGED userRest
  BY DEF UserNext, Issue, Raise, Touch, Retry, Free
<1>2. \A u \in Threads : Live(u)' <=> Live(u)
  BY <1>1 DEF TypeOK, Live
<1>3. Live(t)
  BY <1>1 DEF Live
<1>4. \A u \in Threads : st'[u] \in NoTcb <=> st[u] \in NoTcb
  BY <1>1 DEF TypeOK, NoTcb
<1>5. pc' = pc /\ is_child' = is_child
  BY <1>1 DEF userRest, forkVars
<1>6. OneRunner' /\ (Restarts => NeverStuck')
  BY <1>2, <1>5 DEF Control, OneRunner, NeverStuck
<1>7. Serving'
  BY <1>3, <1>5 DEF Control, Serving, Quiet
<1>8. Tcbs'
  BY <1>4, <1>5 DEF Control, Tcbs, Threads
<1> QED
  BY <1>6, <1>7, <1>8 DEF Control

\* Receiving the message of the only live thread silences the system.
LEMMA RecvControl ==
    ASSUME TypeOK, Control, NEW t \in Threads, Recv(t)
    PROVE  Control'
<1>1. st[t] = "sending" /\ st' = [st EXCEPT ![t] = "replywait"] /\ caller' = t
      /\ pc' \in {"stopped", "handle"} /\ is_child' = is_child
  BY DEF Recv, forkVars
<1>2. Live(t)
  BY <1>1 DEF Live
<1>3. \A u \in Threads : ~Live(u)'
  BY <1>1, <1>2 DEF TypeOK, Control, OneRunner, Live
<1>4. \A u \in Threads : st'[u] \in NoTcb <=> st[u] \in NoTcb
  BY <1>1 DEF TypeOK, NoTcb
<1>5. Tcbs'
  BY <1>1, <1>4 DEF Control, Tcbs, Threads
<1>6. Serving'
  BY <1>1, <1>3 DEF Serving, Quiet, TypeOK
<1> QED
  BY <1>1, <1>3, <1>5, <1>6 DEF Control, OneRunner, NeverStuck

\* Stopping the loop after a suspend cannot start a second runner.
LEMMA SuspendControl ==
    ASSUME TypeOK, Control, NEW t \in Threads,
           st' = Suspended(st, t), pc' = "stopped", UNCHANGED is_child
    PROVE  Control'
<1>1. \A u \in Threads : Live(u)' => Live(u)
  BY DEF TypeOK, Suspended, Live
<1>2. \A u \in Threads : st'[u] \in NoTcb <=> st[u] \in NoTcb
  BY DEF TypeOK, Suspended, NoTcb
<1>3. Tcbs'
  BY <1>2 DEF Control, Tcbs, Threads
<1> QED
  BY <1>1, <1>3 DEF Control, OneRunner, Serving, NeverStuck

\* When a child ends, busybox_tcb is the one thread restarted.
LEMMA EndChildControl ==
    ASSUME TypeOK, Serving, Tcbs, pc = "handle", EndChild
    PROVE  Control'
<1>1. Quiet /\ active_tcb \in Threads /\ Busybox \in Threads
  BY DEF Serving, TypeOK, Threads
<1>2. PICK s \in [Threads -> ThreadStates] : s = Suspended(st, active_tcb)
  BY <1>1, KernelTypes DEF TypeOK
<1>3. \A u \in Threads : /\ s[u] \in NoTcb <=> st[u] \in NoTcb
                         /\ s[u] \notin {"running", "sending"}
  BY <1>1, <1>2 DEF Suspended, TypeOK, NoTcb, Quiet, Live
<1>4. st' = [s EXCEPT ![Busybox] = "running"]
  BY <1>1, <1>2, <1>3 DEF EndChild, Resumed, Tcbs
<1>5. /\ Live(Busybox)'
      /\ \A u \in Threads : u # Busybox => ~Live(u)'
      /\ \A u \in Threads : st'[u] \in NoTcb <=> st[u] \in NoTcb
  <2>1. st'[Busybox] = "running" /\ \A u \in Threads : u # Busybox => st'[u] = s[u]
    BY <1>1, <1>4
  <2>2. Live(Busybox)' /\ \A u \in Threads : u # Busybox => ~Live(u)'
    BY <1>3, <2>1 DEF Live
  <2>3. \A u \in Threads : st'[u] \in NoTcb <=> st[u] \in NoTcb
    BY <1>3, <2>1 DEF Tcbs, NoTcb
  <2> QED
    BY <2>2, <2>3
<1>6. Tcbs'
  BY <1>1, <1>5 DEF Tcbs, Threads, EndChild
<1>7. Serving'
  BY DEF EndChild, Serving
<1> QED
  BY <1>1, <1>5, <1>6, <1>7 DEF Control, OneRunner, NeverStuck

\* fork restarts the child TCB, if there is one, and not the parent.
LEMMA ForkControl ==
    ASSUME TypeOK, Serving, Tcbs, SysFork
    PROVE  Control'
<1>1. Quiet /\ Child \in Threads /\ pc' = "recv"
  BY DEF SysFork, Syscall, Handling, Serving, Threads
<1>2. st' = IF st[Child] \in NoTcb THEN st ELSE [st EXCEPT ![Child] = "running"]
  BY DEF SysFork, Switched, Resumed
<1>3. /\ \A u \in Threads : u # Child => ~Live(u)'
      /\ st[Child] \notin NoTcb => Live(Child)'
      /\ \A u \in Threads : st'[u] \in NoTcb <=> st[u] \in NoTcb
  BY <1>1, <1>2 DEF TypeOK, Quiet, Live, NoTcb
<1>4. Tcbs'
  BY <1>3 DEF Tcbs, Threads, SysFork
<1>5. ChildTcb # "broken" => Live(Child)'
  BY <1>3, ConstantsAssumption DEF Tcbs, SysFork
<1>6. Serving'
  BY <1>1 DEF Serving
<1> QED
  BY <1>1, <1>3, <1>4, <1>5, <1>6 DEF Control, OneRunner, NeverStuck, Restarts

\* The root task's handlers keep one runner.
LEMMA RootControl ==
    ASSUME TypeOK, Control, RootNext \/ ReadStdinLine
    PROVE  Control'
<1> USE DEF Control
<1>1. CASE \E t \in Threads : Recv(t)
  BY <1>1, RecvControl
<1>2. CASE VMFault
  <2>1. pc = "handle" /\ UNCHANGED is_child /\ (Reply \/ KillReply \/ Leave("oom"))
    BY <1>2 DEF VMFault, VMFaultNull, VMFaultNoSlot, VMFaultNoFrame, VMFaultMap,
                VMFaultMapFail, Handling, rootRest, forkVars
  <2> QED
    BY <2>1, ReplyControl, LeaveControl
<1>3. CASE KillSuspend \/ UserException
  BY <1>3, SuspendControl DEF KillSuspend, UserException, rootRest, forkVars, Threads
<1>4. CASE CapFault
  <2>1. Quiet /\ Busybox \in Threads /\ st[Busybox] \notin NoTcb
    BY <1>4 DEF CapFault, Handling, Serving, Tcbs, Threads
  <2>2. st' = [st EXCEPT ![Busybox] = "running"] /\ pc' = "recv" /\ is_child' = is_child
    BY <1>4, <2>1 DEF CapFault, Resumed, rootRest, forkVars
  <2> QED
    BY <2>1, <2>2, OneRestarted
<1>5. CASE OtherKept
  BY <1>5, ReplyControl, LeaveControl DEF OtherKept, CapFaultOther, UserExceptionDump, OtherFault,
                                          RootFault, Handling, rootRest, forkVars
<1>6. CASE SysFork
  BY <1>6, ForkControl
<1>7. CASE ExitChild \/ ExecveChild
  BY <1>7, EndChildControl DEF ExitChild, ExecveChild, Syscall, Handling
<1>8. CASE ExitParent
  BY <1>8, SuspendControl DEF ExitParent, rootRest, forkVars, TypeOK
<1>9. CASE \/ SysStub \/ SysWrite \/ SysOpen \/ SysAccess \/ SysStat \/ SysFstat
           \/ SysGetdents \/ SysLseek \/ SysUname \/ SysGetcwd \/ SysGetFs \/ SysUnknown
           \/ SysRead \/ ReadStdinLine
  <2>1. pc \in {"handle", "stdin"}
    BY <1>9 DEF SysStub, SysWrite, SysOpen, SysAccess, SysStat, SysFstat, SysGetdents, SysLseek,
                SysUname, SysGetcwd, SysGetFs, SysUnknown, SysRead, ReadStdinLine, Syscall, Handling
  <2>2. /\ UNCHANGED is_child
        /\ Reply \/ Leave("rootfault") \/ Leave("stdin")
    BY <1>9 DEF SysStub, SysWrite, SysOpen, SysAccess, SysStat, SysFstat, SysGetdents, SysLseek,
                SysUname, SysGetcwd, SysGetFs, SysUnknown, SysRead, ReadStdinLine, Emulate,
                Answer, AnswerWith, RootFault, rootRest, forkVars
  <2> QED
    BY <2>1, <2>2, ReplyControl, LeaveControl
<1>10. CASE SysMmap \/ SysBrk \/ SysArchPrctl \/ SysWait4 \/ SysForkDisabled \/ ExecveOther
  <2>1. pc = "handle" /\ UNCHANGED is_child /\ (Reply \/ Leave("rootfault"))
    BY <1>10 DEF SysMmap, SysBrk, SysArchPrctl, SysWait4, SysForkDisabled, ExecveOther,
                 Syscall, Handling, Answer, AnswerWith, RootFault, rootRest, forkVars
  <2> QED
    BY <2>1, ReplyControl, LeaveControl
<1> QED
  BY <1>1, <1>2, <1>3, <1>4, <1>5, <1>6, <1>7, <1>8, <1>9, <1>10 DEF RootNext, OtherKept, SyscallNext

\* fork and the end of a child switch is_child, active_tcb and parent_regs together.
LEMMA ForkStateStep ==
    ASSUME TypeOK, ForkState, Next
    PROVE  ForkState'
<1>1. CASE SysFork
  <2>1. active_regs.proc # -1
    BY ConstantsAssumption DEF active_regs, TypeOK, Regs, Procs
  <2>2. NoRegs.proc = -1
    BY DEF NoRegs, InitRegs
  <2>3. active_regs # NoRegs
    BY <2>1, <2>2
  <2> QED
    BY <1>1, <2>3 DEF SysFork, SavedRegs, ForkState
<1>2. CASE ExitChild \/ ExecveChild
  BY <1>2 DEF ExitChild, ExecveChild, EndChild, ForkState
<1>3. CASE \/ UserNext \/ VMFault \/ KillSuspend \/ CapFault \/ UserException \/ OtherKept
           \/ ExitParent \/ (\E t \in Threads : Recv(t))
  <2>1. UNCHANGED forkVars /\ (pc' = "panic" => pc = "panic")
    <3>1. CASE UserNext
      <4>1. UNCHANGED userRest
        BY <3>1 DEF UserNext, Issue, Raise, Touch, Retry
      <4> QED
        BY <4>1 DEF userRest
    <3>2. CASE VMFault
      BY <3>2 DEF VMFault, VMFaultNull, VMFaultNoSlot, VMFaultNoFrame, VMFaultMap,
                  VMFaultMapFail, Reply, KillReply, Leave, rootRest
    <3>3. CASE KillSuspend \/ CapFault \/ UserException \/ OtherKept
      BY <3>3 DEF KillSuspend, CapFault, UserException, OtherKept, CapFaultOther,
                  UserExceptionDump, OtherFault, RootFault, Reply, KillReply, Leave, rootRest
    <3>4. CASE ExitParent \/ (\E t \in Threads : Recv(t))
      BY <3>4 DEF ExitParent, Recv, Reply, KillReply, Leave, rootRest
    <3> QED
      BY <1>3, <3>1, <3>2, <3>3, <3>4
  <2> QED
    BY <2>1 DEF forkVars, ForkState
<1>4. CASE \/ SysStub \/ SysWrite \/ SysOpen \/ SysAccess \/ SysStat \/ SysFstat
           \/ SysGetdents \/ SysLseek \/ SysUname \/ SysGetcwd \/ SysGetFs \/ SysUnknown
           \/ SysRead \/ ReadStdinLine
  <2>1. UNCHANGED forkVars /\ pc' # "panic"
    BY <1>4 DEF SysStub, SysWrite, SysOpen, SysAccess, SysStat, SysFstat, SysGetdents, SysLseek,
                SysUname, SysGetcwd, SysGetFs, SysUnknown, SysRead, ReadStdinLine, Emulate,
                Answer, AnswerWith, RootFault, Reply, Leave, rootRest
  <2> QED
    BY <2>1 DEF forkVars, ForkState
<1>5. CASE SysMmap \/ SysBrk \/ SysArchPrctl \/ SysWait4 \/ SysForkDisabled \/ ExecveOther
  <2>1. UNCHANGED forkVars /\ pc' # "panic"
    BY <1>5 DEF SysMmap, SysBrk, SysArchPrctl, SysWait4, SysForkDisabled, ExecveOther,
                Answer, AnswerWith, RootFault, Reply, Leave, rootRest
  <2> QED
    BY <2>1 DEF forkVars, ForkState
<1>6. CASE Done
  BY <1>6 DEF Done, vars, ForkState
<1> QED
  BY <1>1, <1>2, <1>3, <1>4, <1>5, <1>6 DEF Next, RootNext, OtherKept, SyscallNext

\* Faults are counted once per message and bound the forks.
LEMMA CountersStep ==
    ASSUME TypeOK, Counters, Next
    PROVE  Counters'
<1>1. CASE SysFork
  BY <1>1 DEF SysFork, Syscall, Handling, Counters, Halted, TypeOK
<1>2. CASE \E t \in Threads : Recv(t)
  BY <1>2, ConstantsAssumption DEF Recv, Counted, Counters, Halted, TypeOK, historyVars
<1>3. CASE \/ UserNext \/ VMFault \/ KillSuspend \/ CapFault \/ UserException \/ OtherKept
           \/ ExitParent \/ ExitChild \/ ExecveChild
  <2> DEFINE Same == /\ fault_count' = fault_count /\ forks' = forks
                     /\ pc' = "handle" => pc = "handle"
                     /\ Halted => Halted'
  <2>1. Same
    <3>1. CASE UserNext
      <4>1. UNCHANGED userRest
        BY <3>1 DEF UserNext, Issue, Raise, Touch, Retry
      <4> QED
        BY <4>1 DEF userRest, historyVars, Halted
    <3>2. CASE VMFault
      BY <3>2 DEF VMFault, VMFaultNull, VMFaultNoSlot, VMFaultNoFrame, VMFaultMap,
                  VMFaultMapFail, Reply, KillReply, Leave, rootRest, historyVars, Handling, Halted
    <3>3. CASE KillSuspend \/ CapFault \/ UserException \/ OtherKept
      BY <3>3 DEF KillSuspend, CapFault, UserException, OtherKept, CapFaultOther,
                  UserExceptionDump, OtherFault, RootFault, Reply, KillReply, Leave,
                  rootRest, historyVars, Handling, Halted
    <3>4. CASE ExitParent \/ ExitChild \/ ExecveChild
      BY <3>4 DEF ExitParent, ExitChild, ExecveChild, EndChild, Reply, Leave,
                  rootRest, historyVars, Handling, Syscall, Halted
    <3> QED
      BY <1>3, <3>1, <3>2, <3>3, <3>4
  <2> QED
    BY <2>1 DEF Counters
<1>4. CASE \/ SysStub \/ SysWrite \/ SysOpen \/ SysAccess \/ SysStat \/ SysFstat
           \/ SysGetdents \/ SysLseek \/ SysUname \/ SysGetcwd \/ SysGetFs \/ SysUnknown
           \/ SysRead \/ ReadStdinLine
  <2>1. fault_count' = fault_count /\ forks' = forks /\ pc' # "handle" /\ ~Halted
    BY <1>4 DEF SysStub, SysWrite, SysOpen, SysAccess, SysStat, SysFstat, SysGetdents, SysLseek,
                SysUname, SysGetcwd, SysGetFs, SysUnknown, SysRead, ReadStdinLine, Emulate,
                Answer, AnswerWith, RootFault, Reply, Leave, rootRest, historyVars,
                Syscall, Handling, Halted
  <2> QED
    BY <2>1 DEF Counters
<1>5. CASE SysMmap \/ SysBrk \/ SysArchPrctl \/ SysWait4 \/ SysForkDisabled \/ ExecveOther
  <2>1. fault_count' = fault_count /\ forks' = forks /\ pc' # "handle" /\ ~Halted
    BY <1>5 DEF SysMmap, SysBrk, SysArchPrctl, SysWait4, SysForkDisabled, ExecveOther,
                Answer, AnswerWith, RootFault, Reply, Leave, rootRest, historyVars,
                Syscall, Handling, Halted
  <2> QED
    BY <2>1 DEF Counters
<1>6. CASE Done
  BY <1>6 DEF Done, vars, Counters, Halted
<1> QED
  BY <1>1, <1>2, <1>3, <1>4, <1>5, <1>6 DEF Next, RootNext, OtherKept, SyscallNext

\* The inductive invariant is kept by every step.
LEMMA IInvStep == IInv /\ [Next]_vars => IInv'
<1> SUFFICES ASSUME IInv, [Next]_vars PROVE IInv'
  OBVIOUS
<1>1. CASE Next
  <2>1. TypeOK'
    <3>1. CASE UserNext
      BY <3>1, UserTypes DEF IInv
    <3>2. CASE \E t \in Threads : Recv(t)
      BY <3>2, RecvTypes DEF IInv
    <3>3. CASE VMFault
      BY <3>3, VMFaultTypes DEF IInv
    <3>4. CASE KillSuspend \/ CapFault \/ UserException \/ OtherKept
      BY <3>4, OtherTypes DEF IInv
    <3>5. CASE SyscallNext \/ ReadStdinLine
      BY <3>5, SyscallTypes DEF IInv
    <3>6. CASE Done
      BY <3>6 DEF Done, vars, TypeOK, IInv
    <3> QED
      BY <1>1, <3>1, <3>2, <3>3, <3>4, <3>5, <3>6 DEF Next, RootNext, OtherKept
  <2>2. Control'
    <3>1. TypeOK /\ Control
      BY DEF IInv, Control
    <3>2. CASE Done
      BY <3>1, <3>2 DEF Done, vars, Control, Serving, Quiet, Live, Tcbs, OneRunner, NeverStuck
    <3> QED
      BY <1>1, <3>1, <3>2, UserControl, RootControl DEF Next
  <2>3. ForkState' /\ Counters'
    BY <1>1, ForkStateStep, CountersStep DEF IInv
  <2> QED
    BY <2>1, <2>2, <2>3 DEF IInv, Control
<1>2. CASE UNCHANGED vars
  BY <1>2 DEF IInv, vars, TypeOK, Counters, Halted, Serving, Quiet, Live, ForkState, Tcbs,
              OneRunner, NeverStuck
<1> QED
  BY <1>1, <1>2

\* Every reachable state of the fault loop satisfies the inductive invariant.
THEOREM Inductive == Spec => []IInv
  BY InitIInv, IInvStep, PTL DEF Spec

\* The fault loop keeps the type of all its state.
THEOREM TypeCorrect == Spec => []TypeOK
<1>1. IInv => TypeOK
  BY DEF IInv
<1> QED
  BY <1>1, Inductive, PTL

\* "Only one runs at a time": for every set of user programs, the parent and the
\* child TCB are never both runnable or waiting to be served.
THEOREM OneRunnerHolds == Spec => []OneRunner
<1>1. IInv => OneRunner
  BY DEF IInv
<1> QED
  BY <1>1, Inductive, PTL

\* With a child TCB that was configured, or with fork disabled, and a reply tag
\* whose label is 0, the loop never waits for a message nobody can send.
THEOREM NeverStuckHolds ==
    ASSUME ChildTcb # "broken", ReplyTag = "zero"
    PROVE  Spec => []NeverStuck
<1>1. IInv => NeverStuck
  BY DEF IInv, Restarts
<1> QED
  BY <1>1, Inductive, PTL

\* parent_regs.take().unwrap() never fails: a child ends only after a fork saved
\* the registers, and only once per fork.
THEOREM UnwrapSafeHolds == Spec => []UnwrapSafe
<1>1. IInv => UnwrapSafe
  BY DEF IInv, ForkState, UnwrapSafe
<1> QED
  BY <1>1, Inductive, PTL

-----------------------------------------------------------------------------
(***************************************************************************)
(* What fork, mmap and the page fault handler promise the user programs,   *)
(* on top of the inductive invariant above.                                *)
(***************************************************************************)
\* A thread whose message is being sent or served.
Served(t) == st[t] = "sending" \/ (pc \in {"handle", "stdin"} /\ caller = t)

\* Without cap faults the loop works for the thread that sent the message.
ActiveRuns ==
    /\ \A t \in Threads : Live(t) => t = active_tcb
    /\ pc \in {"handle", "stdin"} => caller = active_tcb
    /\ \A t \in Threads : msg[t].kind # "cap"

\* The child TCB runs, and is served, only between a fork and its end.
ChildOnly == Live(Child) \/ (pc \in {"handle", "stdin"} /\ caller = Child) => is_child

Below(q, n) == \A p \in held[q] : p < n

\* What mmap gave a process lies below the cursor it will continue with.
HeldBelow ==
    /\ \A t \in Threads : regs[t].proc <= forks
    /\ Below(regs[Busybox].proc, mmap_cur)
    /\ is_child =>
          /\ Below(regs[Child].proc, mmap_cur)
          /\ Below(parent_regs.proc, parent_mmap)
          /\ parent_regs.proc <= forks
          /\ parent_regs.proc # regs[Child].proc

\* A page fault waiting to be served names a page that is still unmapped.
FaultsUnmapped ==
    \A t \in Threads : Served(t) /\ msg[t].kind = "vm" => msg[t].page \notin mapped

LoadedPts == {PtOf(p) : p \in LoadedPages}

Memory ==
    /\ LoadedPages \subseteq mapped /\ LoadedPts \subseteq pts
    /\ IsFiniteSet(mapped \ LoadedPages) /\ IsFiniteSet(pts \ LoadedPts)

\* A thread stopped at a system call is at no memory access, and only the first
\* process calls fork.
AtCall ==
    \A t \in Threads : Served(t) /\ msg[t].kind = "syscall" =>
        /\ regs[t].acc = NoPage
        /\ regs[t].rax = "fork" => regs[t].proc = 0

\* What fork saved is what the process that called it must find again.
ParentSaved ==
    /\ regs[Busybox].proc = 0
    /\ is_child =>
          LET q == regs[Child].proc IN
          /\ q \in 1..forks
          /\ parent_regs.proc = origin[q].proc /\ parent_regs.proc = 0
          /\ parent_regs.rip = origin[q].rip /\ parent_regs.acc = NoPage
          /\ regs[Busybox].fs = origin[q].fs
          /\ parent_brk = origin[q].brk /\ parent_mmap = origin[q].mmap

-----------------------------------------------------------------------------
\* What every call that is answered, and an unmatched fault, may change: the
\* answered thread's registers, the cursors, and mmap's record.
Answers ==
    /\ pc \in {"handle", "stdin"}
    /\ \/ regs' = regs
       \/ \E x \in Regs : /\ x.proc = active_regs.proc /\ x.acc = active_regs.acc
                          /\ regs' = [regs EXCEPT ![active_tcb] = x]
    /\ Reply \/ ((Leave("stdin") \/ Leave("rootfault")) /\ UNCHANGED regs)
    /\ SysMmap \/ (mmap_cur' = mmap_cur /\ held' = held)
    /\ UNCHANGED <<msg, forkVars, memVars, forks, origin>>

\* Writing the answer keeps the process a register file belongs to and the access
\* it is at.
LEMMA AnswerKeeps ==
    ASSUME TypeOK, NEW ret \in Results, Answer(ret)
    PROVE  /\ \E x \in Regs : /\ x.proc = active_regs.proc /\ x.acc = active_regs.acc
                             /\ regs' = [regs EXCEPT ![active_tcb] = x]
           /\ Reply
<1>1. active_tcb \in Threads /\ active_regs \in Regs
  BY DEF active_regs, TypeOK
<1> DEFINE x == Write18(regs[active_tcb], [PastCall(active_regs) EXCEPT !.rax = ret])
<1>2. x \in Regs
  BY <1>1, RegsTypes DEF active_regs
<1>3. x.proc = active_regs.proc /\ x.acc = active_regs.acc
  BY <1>1 DEF Write18, PastCall, Regs
<1>4. regs' = [regs EXCEPT ![active_tcb] = x] /\ Reply
  BY DEF Answer
<1> HIDE DEF x
<1> QED
  BY <1>2, <1>3, <1>4

\* The handlers that answer have that shape.
LEMMA AnswersShape ==
    ASSUME TypeOK,
           \/ SysStub \/ SysWrite \/ SysOpen \/ SysAccess \/ SysStat \/ SysFstat
           \/ SysGetdents \/ SysLseek \/ SysUname \/ SysGetcwd \/ SysGetFs \/ SysUnknown
           \/ SysRead \/ ReadStdinLine
           \/ SysMmap \/ SysBrk \/ SysArchPrctl \/ SysWait4 \/ SysForkDisabled \/ ExecveOther
           \/ OtherKept
    PROVE  Answers
<1>1. CASE \/ SysStub \/ SysWrite \/ SysOpen \/ SysAccess \/ SysStat \/ SysFstat
           \/ SysGetdents \/ SysLseek \/ SysUname \/ SysGetcwd \/ SysGetFs \/ SysUnknown
           \/ SysRead \/ ReadStdinLine
  <2>1. pc \in {"handle", "stdin"} /\ UNCHANGED rootRest
    BY <1>1 DEF SysStub, SysWrite, SysOpen, SysAccess, SysStat, SysFstat, SysGetdents, SysLseek,
                SysUname, SysGetcwd, SysGetFs, SysUnknown, SysRead, ReadStdinLine, Syscall,
                Handling, Emulate
  <2>2. \/ \E ret \in Results : Answer(ret)
        \/ RootFault
        \/ Leave("stdin") /\ UNCHANGED regs
    BY <1>1 DEF SysStub, SysWrite, SysOpen, SysAccess, SysStat, SysFstat, SysGetdents, SysLseek,
                SysUname, SysGetcwd, SysGetFs, SysUnknown, SysRead, ReadStdinLine,
                Emulate, AnswerWith, Results
  <2> QED
    BY <2>1, <2>2, AnswerKeeps DEF Answers, RootFault, rootRest, historyVars
<1>2. CASE SysBrk \/ SysWait4 \/ SysForkDisabled \/ ExecveOther
  <2>1. /\ pc = "handle"
        /\ UNCHANGED <<msg, forkVars, mmap_cur, memVars, historyVars>>
    BY <1>2 DEF SysBrk, SysWait4, SysForkDisabled, ExecveOther, Syscall, Handling, rootRest
  <2>2. (\E ret \in Results : Answer(ret)) \/ RootFault
    BY <1>2 DEF SysBrk, SysWait4, SysForkDisabled, ExecveOther, AnswerWith, Results
  <2> QED
    BY <2>1, <2>2, AnswerKeeps DEF Answers, RootFault, historyVars
<1>3. CASE SysMmap
  <2>1. /\ pc = "handle"
        /\ UNCHANGED <<msg, forkVars, memVars, forks, origin>>
    BY <1>3 DEF SysMmap, Syscall, Handling
  <2>2. Answer("value") /\ "value" \in Results
    BY <1>3 DEF SysMmap, Results
  <2> QED
    BY <1>3, <2>1, <2>2, AnswerKeeps DEF Answers
<1>4. CASE SysArchPrctl
  <2>1. /\ pc = "handle" /\ Reply
        /\ UNCHANGED <<msg, forkVars, mmap_cur, memVars, historyVars>>
    BY <1>4 DEF SysArchPrctl, Syscall, Handling, rootRest
  <2>2. PICK v \in FsValues :
          regs' = [regs EXCEPT ![active_tcb] =
                      [PastCall(active_regs) EXCEPT !.rax = "zero", !.fs = v]]
    BY <1>4 DEF SysArchPrctl
  <2>3. active_regs \in Regs
    BY DEF active_regs, TypeOK
  <2> DEFINE x == [PastCall(active_regs) EXCEPT !.rax = "zero", !.fs = v]
  <2>4. x \in Regs
    <3>1. [PastCall(active_regs) EXCEPT !.rax = "zero"] \in Regs
      BY <2>3, RegsTypes DEF Results
    <3>2. \A z \in Regs : [z EXCEPT !.fs = v] \in Regs
      BY DEF Regs
    <3> QED
      BY <3>1, <3>2
  <2>5. x.proc = active_regs.proc /\ x.acc = active_regs.acc
    BY <2>3 DEF PastCall, Regs
  <2> HIDE DEF x
  <2> QED
    BY <2>1, <2>2, <2>4, <2>5 DEF Answers, historyVars, x
<1>5. CASE OtherKept
  BY <1>5 DEF OtherKept, CapFaultOther, UserExceptionDump, OtherFault, RootFault, Answers,
              Handling, rootRest, historyVars
<1> QED
  BY <1>1, <1>2, <1>3, <1>4, <1>5

\* Every step is one of these.
LEMMA StepShape ==
    ASSUME TypeOK, Next
    PROVE  \/ UserNext \/ (\E t \in Threads : Recv(t)) \/ VMFault
           \/ KillSuspend \/ CapFault \/ UserException \/ ExitParent
           \/ Answers \/ SysFork \/ ExitChild \/ ExecveChild \/ Done
  BY AnswersShape DEF Next, RootNext, OtherKept, SyscallNext

\* A user program changes only what its own thread is doing: it asks for a call,
\* faults on an unmapped page, or gets through an access.
LEMMA UserShape ==
    ASSUME TypeOK, UserNext
    PROVE  \E t \in Threads :
              /\ Live(t) /\ st[t] # "sending"
              /\ \A u \in Threads : Live(u)' <=> Live(u)
              /\ \A u \in Threads : u # t =>
                    st'[u] = st[u] /\ regs'[u] = regs[u] /\ msg'[u] = msg[u]
              /\ regs'[t].proc = regs[t].proc /\ regs'[t].fs = regs[t].fs
              /\ st'[t] = "sending" /\ msg'[t].kind = "vm" => msg'[t].page \notin mapped
              /\ st'[t] = "sending" /\ msg'[t].kind = "syscall" =>
                    /\ regs'[t].acc = NoPage
                    /\ regs'[t].rax = "fork" => Nested \/ regs'[t].proc = 0
              /\ msg'[t].kind = "cap" => msg[t].kind = "cap" \/ "cap" \in FaultKinds
              /\ UNCHANGED userRest
<1>1. PICK t \in Threads :
        \/ \E c \in Calls, a \in Pages, k \in {"syscall", "cap"} : Issue(t, c, a, k)
        \/ \E k \in {"exception", "unmatched"} : Raise(t, k)
        \/ \E p \in Pages : Touch(t, p)
        \/ Retry(t)
  BY DEF UserNext
<1>2. /\ st[t] = "running"
      /\ st' = st \/ st' = [st EXCEPT ![t] = "sending"]
      /\ UNCHANGED userRest
  BY <1>1 DEF Issue, Raise, Touch, Retry, Free
<1>3. /\ Live(t) /\ st[t] # "sending"
      /\ \A u \in Threads : Live(u)' <=> Live(u)
      /\ \A u \in Threads : u # t => st'[u] = st[u]
  BY <1>2 DEF TypeOK, Live
<1>4. /\ \A u \in Threads : u # t => regs'[u] = regs[u] /\ msg'[u] = msg[u]
      /\ regs'[t].proc = regs[t].proc /\ regs'[t].fs = regs[t].fs
  <2>1. CASE \E c \in Calls, a \in Pages, k \in {"syscall", "cap"} : Issue(t, c, a, k)
    BY <2>1 DEF Issue, TypeOK, Regs
  <2>2. CASE \E k \in {"exception", "unmatched"} : Raise(t, k)
    BY <2>2 DEF Raise, TypeOK
  <2>3. CASE \E p \in Pages : Touch(t, p)
    BY <2>3 DEF Touch, TypeOK, Regs
  <2>4. CASE Retry(t)
    BY <2>4 DEF Retry, TypeOK, Regs
  <2> QED
    BY <1>1, <2>1, <2>2, <2>3, <2>4
<1> DEFINE Asks ==
      /\ st'[t] = "sending" /\ msg'[t].kind = "vm" => msg'[t].page \notin mapped
      /\ st'[t] = "sending" /\ msg'[t].kind = "syscall" =>
            /\ regs'[t].acc = NoPage
            /\ regs'[t].rax = "fork" => Nested \/ regs'[t].proc = 0
      /\ msg'[t].kind = "cap" => msg[t].kind = "cap" \/ "cap" \in FaultKinds
<1>5. Asks
  <2>1. ASSUME NEW c \in Calls, NEW a \in Pages, NEW k \in {"syscall", "cap"},
               Issue(t, c, a, k)
        PROVE  Asks
    <3>1. msg'[t] = [kind |-> k, page |-> 0] /\ k \in FaultKinds
      BY <2>1 DEF Issue, TypeOK
    <3>2. regs[t].acc = NoPage /\ (c = "fork" => Nested \/ regs[t].proc = 0)
      BY <2>1 DEF Issue, Free
    <3>3. regs'[t].acc = regs[t].acc /\ regs'[t].rax = c /\ regs'[t].proc = regs[t].proc
      BY <2>1 DEF Issue, TypeOK, Regs
    <3> QED
      BY <3>1, <3>2, <3>3
  <2>2. ASSUME NEW k \in {"exception", "unmatched"}, Raise(t, k)
        PROVE  Asks
    <3>1. msg'[t] = [kind |-> k, page |-> 0]
      BY <2>2 DEF Raise, TypeOK
    <3> QED
      BY <3>1
  <2>3. ASSUME NEW p \in Pages, Touch(t, p)
        PROVE  Asks
    <3>1. msg'[t] = [kind |-> "vm", page |-> p] /\ p \notin mapped
      BY <2>3 DEF Touch, TypeOK
    <3> QED
      BY <3>1
  <2>4. ASSUME Retry(t)
        PROVE  Asks
    <3>1. CASE regs[t].acc \in mapped
      BY <2>4, <1>2, <3>1 DEF Retry, TypeOK
    <3>2. CASE regs[t].acc \notin mapped
      <4>1. msg'[t] = [kind |-> "vm", page |-> regs[t].acc]
        BY <2>4, <3>2 DEF Retry, TypeOK
      <4> QED
        BY <4>1, <3>2
    <3> QED
      BY <3>1, <3>2
  <2> QED
    BY <1>1, <2>1, <2>2, <2>3, <2>4
<1> QED
  BY <1>2, <1>3, <1>4, <1>5

\* A reply restarts at most the thread that is being served.
LEMMA ReplyShape ==
    ASSUME TypeOK, Serving, pc \in {"handle", "stdin"}, Reply \/ KillReply
    PROVE  /\ caller' = NoThread /\ pc' \notin {"handle", "stdin"}
           /\ \A t \in Threads : t # caller => ~Live(t)'
           /\ \A t \in Threads : st'[t] # "sending"
<1>1. Quiet /\ caller \in Threads
  BY DEF Serving
<1>2. PICK to \in ReplyStates : st' = [st EXCEPT ![caller] = to]
  BY <1>1 DEF Reply, KillReply, Replied
<1>3. to # "sending"
  BY DEF ReplyStates
<1> QED
  BY <1>1, <1>2, <1>3 DEF Reply, KillReply, Quiet, Live, TypeOK

\* Suspending makes nobody runnable.
LEMMA SuspendShape ==
    ASSUME TypeOK, NEW t \in Threads, st' = Suspended(st, t)
    PROVE  \A u \in Threads : (Live(u)' => Live(u)) /\ (st'[u] = "sending" => st[u] = "sending")
  BY DEF TypeOK, Suspended, Live

\* The end of a child leaves busybox_tcb alone runnable, one call further.
LEMMA EndChildShape ==
    ASSUME TypeOK, Serving, Tcbs, pc = "handle", EndChild
    PROVE  /\ st'[Busybox] = "running" /\ ~Live(Child)'
           /\ caller' = NoThread /\ pc' \notin {"handle", "stdin"}
           /\ \A t \in Threads : st'[t] # "sending"
           /\ regs'[Busybox] = RestoredRegs /\ regs'[Child] = regs[Child]
           /\ ~is_child' /\ active_tcb' = Busybox
<1>1. Quiet /\ active_tcb \in Threads /\ caller \in Threads /\ Busybox # Child
  BY DEF Serving, TypeOK, Threads, Busybox, Child
<1>2. PICK s \in [Threads -> ThreadStates] : s = Suspended(st, active_tcb)
  BY <1>1, KernelTypes DEF TypeOK
<1>3. \A u \in Threads : /\ s[u] \in NoTcb <=> st[u] \in NoTcb
                         /\ s[u] \notin {"running", "sending"}
  BY <1>1, <1>2 DEF Suspended, TypeOK, NoTcb, Quiet, Live
<1>4. st' = [s EXCEPT ![Busybox] = "running"]
  BY <1>1, <1>2, <1>3 DEF EndChild, Resumed, Tcbs, Threads
<1>5. /\ st'[Busybox] = "running" /\ ~Live(Child)'
      /\ \A t \in Threads : st'[t] # "sending"
  BY <1>1, <1>3, <1>4 DEF Live, Threads
<1>6. regs'[Busybox] = RestoredRegs /\ regs'[Child] = regs[Child]
  BY <1>1 DEF EndChild, TypeOK, Threads
<1>7. caller' = NoThread /\ pc' \notin {"handle", "stdin"}
  BY <1>1 DEF EndChild, Revoked
<1>8. ~is_child' /\ active_tcb' = Busybox
  BY DEF EndChild
<1> QED
  BY <1>5, <1>6, <1>7, <1>8

\* fork makes at most the child TCB runnable and leaves busybox_tcb's registers.
LEMMA ForkShape ==
    ASSUME TypeOK, Serving, SysFork
    PROVE  /\ ~Live(Busybox)'
           /\ pc' \notin {"handle", "stdin"}
           /\ \A t \in Threads : st'[t] # "sending"
           /\ regs'[Busybox] = regs[Busybox]
           /\ regs'[Child].proc = forks + 1
           /\ is_child' /\ active_tcb' = Child
<1>1. Quiet /\ Busybox # Child
  BY DEF SysFork, Syscall, Handling, Serving, Busybox, Child
<1>2. st' = IF st[Child] \in NoTcb THEN st ELSE [st EXCEPT ![Child] = "running"]
  BY DEF SysFork, Switched, Resumed
<1>3. ~Live(Busybox)' /\ \A t \in Threads : st'[t] # "sending"
  BY <1>1, <1>2 DEF Quiet, Live, TypeOK, Threads
<1>4. active_regs \in Regs
  BY DEF active_regs, TypeOK
<1>5. [PastCall(active_regs) EXCEPT !.rax = "zero", !.proc = forks + 1].proc = forks + 1
  BY <1>4 DEF PastCall, Regs
<1>6. regs'[Busybox] = regs[Busybox] /\ regs'[Child].proc = forks + 1
  BY <1>1, <1>5 DEF SysFork, TypeOK, Threads
<1> QED
  BY <1>3, <1>6 DEF SysFork

\* The fault limit leaves a process number for every fork.
LEMMA ForkProc ==
    ASSUME TypeOK, Counters, SysFork
    PROVE  forks \in Nat /\ forks + 1 \in Procs
<1>1. pc = "handle"
  BY DEF SysFork, Syscall, Handling
<1>2. forks < fault_count /\ fault_count <= MaxFaults /\ forks \in Nat /\ fault_count \in Nat
  BY <1>1, ConstantsAssumption DEF Counters, Halted, TypeOK
<1> QED
  BY <1>2, ConstantsAssumption DEF Procs

\* The page fault handler answers, kills or gives up, and touches only memory.
LEMMA VMFaultShape ==
    ASSUME VMFault
    PROVE  /\ pc = "handle" /\ msg[caller].kind = "vm"
           /\ Reply \/ KillReply \/ Leave("oom")
           /\ UNCHANGED <<regs, msg, fault_count, forkVars, brk_cur, mmap_cur, historyVars>>
  BY DEF VMFault, VMFaultNull, VMFaultNoSlot, VMFaultNoFrame, VMFaultMap, VMFaultMapFail,
         Handling, rootRest

\* A kill, an exception and the exit of the first process stop the loop.
LEMMA StopShape ==
    ASSUME TypeOK, ForkState, KillSuspend \/ UserException \/ ExitParent
    PROVE  /\ st' = Suspended(st, Busybox) /\ pc' = "stopped"
           /\ UNCHANGED <<regs, rootRest>>
  BY DEF KillSuspend, UserException, ExitParent, ForkState, TypeOK

-----------------------------------------------------------------------------
\* The child TCB is woken only by fork and served only until its process ends.
LEMMA ChildOnlyStep ==
    ASSUME IInv, ChildOnly, Next
    PROVE  ChildOnly'
<1> USE DEF IInv
<1>a. Busybox \in Threads /\ Child \in Threads /\ Busybox # Child /\ NoThread # Child
  BY DEF Threads, Busybox, Child, NoThread
<1>1. CASE UserNext
  BY <1>1, <1>a, UserShape DEF ChildOnly, userRest, forkVars
<1>2. ASSUME NEW t \in Threads, Recv(t)
      PROVE  ChildOnly'
  <2>1. /\ \A u \in Threads : Live(u)' => Live(u)
        /\ Live(t) /\ caller' = t /\ is_child' = is_child
    BY <1>2 DEF Recv, Live, TypeOK, forkVars
  <2> QED
    BY <1>a, <2>1 DEF ChildOnly
<1>3. CASE VMFault
  <2>1. Reply \/ KillReply => ChildOnly'
    BY <1>3, <1>a, ReplyShape, VMFaultShape DEF ChildOnly, forkVars
  <2>2. Leave("oom") => ChildOnly'
    BY <1>3, <1>a, VMFaultShape DEF ChildOnly, forkVars, Leave, Live
  <2> QED
    BY <1>3, <2>1, <2>2, VMFaultShape
<1>4. CASE KillSuspend \/ UserException \/ ExitParent
  BY <1>4, <1>a, StopShape, SuspendShape DEF ChildOnly, rootRest, forkVars
<1>5. CASE CapFault
  <2>1. Quiet /\ st' = Resumed(st, Busybox) /\ pc' = "recv"
    BY <1>5 DEF CapFault, Handling, Serving
  <2>2. ~Live(Child)'
    BY <1>a, <2>1 DEF Resumed, Quiet, Live, TypeOK
  <2> QED
    BY <2>1, <2>2 DEF ChildOnly
<1>6. CASE Answers
  <2>1. CASE Reply
    BY <1>6, <2>1, <1>a, ReplyShape DEF ChildOnly, Answers, forkVars
  <2>2. CASE Leave("stdin") \/ Leave("rootfault")
    BY <1>6, <2>2, <1>a DEF ChildOnly, Answers, forkVars, Leave, Live
  <2> QED
    BY <1>6, <2>1, <2>2 DEF Answers
<1>7. CASE SysFork
  BY <1>7, ForkShape DEF ChildOnly
<1>8. CASE ExitChild \/ ExecveChild
  BY <1>8, EndChildShape DEF ChildOnly, ExitChild, ExecveChild, Syscall, Handling
<1>9. CASE Done
  BY <1>9 DEF Done, vars, ChildOnly, Live
<1> QED
  BY <1>1, <1>2, <1>3, <1>4, <1>5, <1>6, <1>7, <1>8, <1>9, StepShape

\* Without cap faults no step makes a thread runnable that the loop does not work for.
LEMMA ActiveRunsStep ==
    ASSUME IInv, ActiveRuns, Next, "cap" \notin FaultKinds
    PROVE  ActiveRuns'
<1> USE DEF IInv
<1>a. Threads = {Busybox, Child} /\ Busybox # Child
  BY DEF Threads, Busybox, Child
<1>1. CASE UserNext
  <2>1. PICK t \in Threads :
           /\ \A u \in Threads : Live(u)' <=> Live(u)
           /\ \A u \in Threads : u # t => msg'[u] = msg[u]
           /\ msg'[t].kind = "cap" => msg[t].kind = "cap" \/ "cap" \in FaultKinds
           /\ UNCHANGED userRest
    BY <1>1, UserShape
  <2> QED
    BY <2>1 DEF ActiveRuns, userRest, forkVars
<1>2. ASSUME NEW t \in Threads, Recv(t)
      PROVE  ActiveRuns'
  <2>1. /\ \A u \in Threads : Live(u)' => Live(u)
        /\ Live(t) /\ caller' = t /\ active_tcb' = active_tcb /\ msg' = msg
    BY <1>2 DEF Recv, Live, TypeOK, forkVars
  <2> QED
    BY <2>1 DEF ActiveRuns
<1>3. CASE VMFault
  <2>1. active_tcb' = active_tcb /\ msg' = msg /\ caller = active_tcb
    BY <1>3, VMFaultShape DEF forkVars, ActiveRuns
  <2>2. Reply \/ KillReply => ActiveRuns'
    BY <1>3, <2>1, ReplyShape, VMFaultShape DEF ActiveRuns
  <2>3. Leave("oom") => ActiveRuns'
    BY <2>1 DEF ActiveRuns, Leave, Live
  <2> QED
    BY <1>3, <2>2, <2>3, VMFaultShape
<1>4. CASE KillSuspend \/ UserException \/ ExitParent
  BY <1>4, <1>a, StopShape, SuspendShape DEF ActiveRuns, rootRest, forkVars
<1>5. ~CapFault
  BY DEF CapFault, Handling, Serving, ActiveRuns
<1>6. CASE Answers
  <2>1. active_tcb' = active_tcb /\ msg' = msg /\ caller = active_tcb
    BY <1>6 DEF forkVars, ActiveRuns, Answers
  <2>2. CASE Reply
    BY <1>6, <2>1, <2>2, ReplyShape DEF ActiveRuns, Answers
  <2>3. CASE Leave("stdin") \/ Leave("rootfault")
    BY <1>6, <2>1, <2>3 DEF ActiveRuns, Leave, Live
  <2> QED
    BY <1>6, <2>2, <2>3 DEF Answers
<1>7. CASE SysFork
  BY <1>7, <1>a, ForkShape DEF ActiveRuns, SysFork
<1>8. CASE ExitChild \/ ExecveChild
  <2>1. pc = "handle" /\ EndChild
    BY <1>8 DEF ExitChild, ExecveChild, Syscall, Handling
  <2>2. msg' = msg
    BY <2>1 DEF EndChild
  <2> QED
    BY <1>a, <2>1, <2>2, EndChildShape DEF ActiveRuns
<1>9. CASE Done
  BY <1>9 DEF Done, vars, ActiveRuns, Live
<1> QED
  BY <1>1, <1>2, <1>3, <1>4, <1>5, <1>6, <1>7, <1>8, <1>9, StepShape

\* Both hold when the loop starts.
LEMMA RunsInit == Init => ChildOnly /\ ActiveRuns
<1> SUFFICES ASSUME Init PROVE ChildOnly /\ ActiveRuns
  OBVIOUS
<1>1. ChildState \in {"none", "inactive", "broken"}
  BY ConstantsAssumption DEF ChildState
<1> QED
  BY <1>1 DEF Init, ChildOnly, ActiveRuns, Live, Threads, Busybox, Child

\* The child TCB runs only between a fork and the exit or exec of its process.
THEOREM ChildOnlyHolds == Spec => []ChildOnly
<1>1. ChildOnly /\ UNCHANGED vars => ChildOnly'
  BY DEF ChildOnly, vars, Live
<1>2. IInv /\ ChildOnly /\ [Next]_vars => ChildOnly'
  BY <1>1, ChildOnlyStep
<1> QED
  BY <1>2, RunsInit, Inductive, PTL DEF Spec

\* The loop always works for the thread that sent the message, when no program
\* raises a cap fault.
THEOREM ActiveRunsHolds ==
    ASSUME "cap" \notin FaultKinds
    PROVE  Spec => []ActiveRuns
<1>1. ActiveRuns /\ UNCHANGED vars => ActiveRuns'
  BY DEF ActiveRuns, vars, Live
<1>2. IInv /\ ActiveRuns /\ [Next]_vars => ActiveRuns'
  BY <1>1, ActiveRunsStep
<1> QED
  BY <1>2, RunsInit, Inductive, PTL DEF Spec

\* "parent is suspended while child runs", for every program that raises no cap
\* fault (the code resumes busybox_tcb on one, whoever raised it).
THEOREM ParentSuspendedHolds ==
    ASSUME "cap" \notin FaultKinds
    PROVE  Spec => []ParentSuspended
<1>1. IInv /\ ActiveRuns => ParentSuspended
  BY DEF IInv, ForkState, ActiveRuns, ParentSuspended, Threads, Busybox, Child
<1> QED
  BY <1>1, Inductive, ActiveRunsHolds, PTL

\* Without a usable child TCB every way to stop the loop stops busybox_tcb, and
\* nobody can wake it later.
LEMMA StoppedStep ==
    ASSUME IInv, IInv', StoppedMeansStopped, ChildTcb # "ready", Next
    PROVE  StoppedMeansStopped'
<1> USE DEF IInv
<1>a. Threads = {Busybox, Child} /\ Busybox # Child
  BY DEF Threads, Busybox, Child
<1>b. ~Live(Child)'
  BY DEF Tcbs, NoTcb, Live
<1>1. CASE UserNext
  <2>1. PICK t \in Threads : Live(t) /\ UNCHANGED userRest
    BY <1>1, UserShape
  <2> QED
    BY <2>1 DEF StoppedMeansStopped, userRest
<1>2. ASSUME NEW t \in Threads, Recv(t)
      PROVE  StoppedMeansStopped'
  <2>1. Live(t) /\ \A u \in Threads : Live(u)' => Live(u) /\ u # t
    BY <1>2 DEF Recv, Live, TypeOK
  <2> QED
    BY <2>1 DEF OneRunner, StoppedMeansStopped
<1>3. CASE KillSuspend \/ UserException \/ ExitParent
  <2>1. st' = Suspended(st, Busybox)
    BY <1>3, StopShape
  <2>2. ~Live(Busybox)'
    BY <2>1, <1>a DEF Suspended, NoTcb, Live, TypeOK, Tcbs
  <2> QED
    BY <1>a, <1>b, <2>2 DEF StoppedMeansStopped
<1>4. CASE VMFault \/ CapFault \/ Answers \/ SysFork \/ ExitChild \/ ExecveChild
  <2>1. pc' # "stopped"
    BY <1>4, VMFaultShape DEF CapFault, Answers, SysFork, ExitChild, ExecveChild, EndChild,
                              Reply, KillReply, Leave
  <2> QED
    BY <2>1 DEF StoppedMeansStopped
<1>5. CASE Done
  BY <1>5 DEF Done, vars, StoppedMeansStopped, Live
<1> QED
  BY <1>1, <1>2, <1>3, <1>4, <1>5, StepShape

\* "Child killed, stopping": with fork disabled, or with a child TCB that was never
\* configured, no thread runs on once the loop has stopped.
THEOREM StoppedMeansStoppedHolds ==
    ASSUME ChildTcb # "ready"
    PROVE  Spec => []StoppedMeansStopped
<1>1. Init => StoppedMeansStopped
  BY DEF Init, StoppedMeansStopped
<1>2. StoppedMeansStopped /\ UNCHANGED vars => StoppedMeansStopped'
  BY DEF StoppedMeansStopped, vars, Live
<1>3. IInv /\ IInv' /\ StoppedMeansStopped /\ [Next]_vars => StoppedMeansStopped'
  BY <1>2, StoppedStep
<1> QED
  BY <1>1, <1>3, Inductive, PTL DEF Spec

-----------------------------------------------------------------------------
\* mmap records nothing at or above the cursor it leaves behind.
LEMMA MmapBelow ==
    ASSUME TypeOK, SysMmap
    PROVE  /\ mmap_cur' > mmap_cur
           /\ \A q \in Procs : q # active_regs.proc => held'[q] = held[q]
           /\ Below(active_regs.proc, mmap_cur) =>
                 \A p \in held'[active_regs.proc] : p < mmap_cur'
<1>1. active_regs \in Regs
  BY DEF active_regs, TypeOK
<1>2. active_regs.arg \in Nat /\ active_regs.proc \in Procs
  BY <1>1, ConstantsAssumption DEF Regs, Pages
<1>3. mmap_cur' = mmap_cur + MmapLen(active_regs.arg) /\ mmap_cur \in Nat
  BY DEF SysMmap, TypeOK
<1>4. mmap_cur' > mmap_cur /\ mmap_cur' \in Nat
  BY <1>2, <1>3 DEF MmapLen
<1>5. /\ held'[active_regs.proc]
           = held[active_regs.proc] \cup {mmap_cur} \cup mmap_cur..(mmap_cur' - 1)
      /\ \A q \in Procs : q # active_regs.proc => held'[q] = held[q]
  BY <1>2 DEF SysMmap, TypeOK
<1>6. ASSUME Below(active_regs.proc, mmap_cur)
      PROVE  \A p \in held'[active_regs.proc] : p < mmap_cur'
  <2>1. \A p \in held[active_regs.proc] : p \in Nat /\ p < mmap_cur
    BY <1>2, <1>6 DEF Below, TypeOK
  <2> QED
    BY <1>3, <1>4, <1>5, <2>1
<1> QED
  BY <1>4, <1>5, <1>6 DEF Below

\* A step that neither moves a cursor nor changes who a register file belongs to.
LEMMA HeldSame ==
    ASSUME HeldBelow, \A t \in Threads : regs'[t].proc = regs[t].proc,
           UNCHANGED <<forkVars, mmap_cur, held, forks>>
    PROVE  HeldBelow'
  BY DEF HeldBelow, Below, forkVars, Threads

\* The cursor only grows while a process runs, and goes back to the value it had
\* at the fork, below which everything the parent holds lies.
LEMMA HeldBelowStep ==
    ASSUME IInv, IInv', HeldBelow, Next
    PROVE  HeldBelow'
<1> USE DEF IInv
<1>a. Threads = {Busybox, Child} /\ Busybox # Child
  BY DEF Threads, Busybox, Child
<1>b. \A t \in Threads : regs[t].proc \in Procs
  BY DEF TypeOK, Regs
<1>c. active_regs \in Regs /\ active_regs.proc \in Procs /\ active_tcb \in Threads
  BY DEF active_regs, TypeOK, Regs
<1>1. CASE UserNext
  BY <1>1, UserShape, HeldSame DEF userRest, historyVars
<1>2. CASE \/ (\E t \in Threads : Recv(t)) \/ VMFault
           \/ KillSuspend \/ UserException \/ ExitParent \/ Done
  <2>1. UNCHANGED <<regs, forkVars, mmap_cur, held, forks>>
    BY <1>2, VMFaultShape, StopShape DEF Recv, rootRest, Done, vars, forkVars, historyVars
  <2> QED
    BY <2>1, HeldSame
<1>3. CASE CapFault
  <2>1. \A t \in Threads : regs'[t].proc = regs[t].proc
    BY <1>3 DEF CapFault, Handling, Serving, TypeOK, Regs
  <2> QED
    BY <1>3, <2>1, HeldSame DEF CapFault, rootRest, historyVars
<1>4. CASE Answers
  <2>1. \A t \in Threads : regs'[t].proc = regs[t].proc
    BY <1>4, <1>c DEF Answers, TypeOK, active_regs
  <2>2. CASE mmap_cur' = mmap_cur /\ held' = held
    BY <1>4, <2>1, <2>2, HeldSame DEF Answers
  <2>3. CASE SysMmap
    <3>1. /\ mmap_cur' > mmap_cur /\ mmap_cur \in Nat /\ mmap_cur' \in Nat
          /\ \A q \in Procs : q # active_regs.proc => held'[q] = held[q]
          /\ Below(active_regs.proc, mmap_cur) =>
                 \A p \in held'[active_regs.proc] : p < mmap_cur'
      BY <2>3, MmapBelow DEF TypeOK
    <3>2. \A q \in Procs : Below(q, mmap_cur) => \A p \in held'[q] : p < mmap_cur'
      <4> SUFFICES ASSUME NEW q \in Procs, Below(q, mmap_cur), q # active_regs.proc,
                          NEW p \in held'[q]
                   PROVE  p < mmap_cur'
        BY <3>1
      <4>1. p \in held[q] /\ p \in Nat
        BY <3>1 DEF TypeOK
      <4> QED
        BY <3>1, <4>1 DEF Below
    <3>3. UNCHANGED <<is_child, parent_regs, parent_mmap, active_tcb, forks>>
      BY <1>4 DEF Answers, forkVars
    <3>4. is_child => active_regs.proc = regs[Child].proc /\ parent_regs.proc \in Procs
      BY DEF active_regs, ForkState, TypeOK, Regs
    <3>5. is_child => held'[parent_regs.proc] = held[parent_regs.proc]
      BY <3>1, <3>4 DEF HeldBelow
    <3> QED
      BY <1>a, <1>b, <2>1, <3>2, <3>3, <3>5 DEF HeldBelow, Below
  <2> QED
    BY <1>4, <2>2, <2>3 DEF Answers
<1>5. CASE SysFork
  <2>1. /\ regs'[Busybox] = regs[Busybox] /\ regs'[Child].proc = forks + 1
        /\ is_child'
    BY <1>5, ForkShape
  <2>2. /\ parent_regs' = active_regs /\ parent_mmap' = mmap_cur
        /\ mmap_cur' = mmap_cur /\ forks' = forks + 1
    BY <1>5 DEF SysFork, SavedRegs
  <2>3. forks \in Nat /\ forks + 1 \in Procs
    BY <1>5, ForkProc
  <2>4. /\ held'[forks + 1] = held[active_regs.proc]
        /\ \A q \in Procs : q # forks + 1 => held'[q] = held[q]
    BY <1>5, <2>3 DEF SysFork, TypeOK
  <2>5. \A t \in Threads : regs[t].proc <= forks /\ regs[t].proc # forks + 1
    BY <1>b, <2>3 DEF HeldBelow, Procs
  <2>6. active_regs.proc <= forks /\ active_regs.proc # forks + 1
    BY <1>c, <2>5 DEF active_regs
  <2>7. Below(active_regs.proc, mmap_cur)
    BY <1>a DEF HeldBelow, active_regs, ForkState
  <2>8. \A t \in Threads : regs'[t].proc <= forks'
    BY <1>a, <1>b, <2>1, <2>2, <2>3, <2>5 DEF Procs
  <2>9. /\ held'[regs'[Busybox].proc] = held[regs[Busybox].proc]
        /\ held'[regs'[Child].proc] = held[active_regs.proc]
        /\ held'[parent_regs'.proc] = held[active_regs.proc]
    BY <1>a, <1>b, <1>c, <2>1, <2>2, <2>4, <2>5, <2>6
  <2>10. /\ parent_regs'.proc <= forks' /\ parent_regs'.proc # regs'[Child].proc
    BY <1>c, <2>1, <2>2, <2>3, <2>6 DEF Procs
  <2> QED
    BY <2>2, <2>7, <2>8, <2>9, <2>10 DEF HeldBelow, Below
<1>6. CASE ExitChild \/ ExecveChild
  <2>1. pc = "handle" /\ EndChild
    BY <1>6 DEF ExitChild, ExecveChild, Syscall, Handling
  <2>2. regs'[Busybox] = RestoredRegs /\ regs'[Child] = regs[Child] /\ ~is_child'
    BY <2>1, EndChildShape
  <2>3. parent_regs \in Regs /\ is_child
    BY <2>1 DEF EndChild, ForkState, TypeOK
  <2>4. RestoredRegs.proc = parent_regs.proc
    BY <2>3 DEF RestoredRegs, Write18, PastCall, Regs
  <2>5. mmap_cur' = parent_mmap /\ held' = held /\ forks' = forks
    BY <2>1 DEF EndChild, historyVars
  <2> QED
    BY <1>a, <2>2, <2>3, <2>4, <2>5 DEF HeldBelow, Below
<1> QED
  BY <1>1, <1>2, <1>3, <1>4, <1>5, <1>6, StepShape

\* For every sequence of mmap, fork and exit: the region mmap hands out next
\* overlaps nothing the running process got before, also after the cursor was
\* rolled back at the end of a child.
THEOREM MmapDisjointHolds == Spec => []MmapDisjoint
<1>1. Init => HeldBelow
  BY ConstantsAssumption DEF Init, HeldBelow, Below, InitRegs, Threads, Procs
<1>2. HeldBelow /\ UNCHANGED vars => HeldBelow'
  BY DEF HeldBelow, Below, vars
<1>3. IInv /\ IInv' /\ HeldBelow /\ [Next]_vars => HeldBelow'
  BY <1>2, HeldBelowStep
<1>4. HeldBelow /\ ChildOnly => MmapDisjoint
  BY DEF HeldBelow, Below, ChildOnly, MmapDisjoint, Threads
<1> QED
  BY <1>1, <1>3, <1>4, Inductive, ChildOnlyHolds, PTL DEF Spec

-----------------------------------------------------------------------------
\* A page is mapped only while nobody but the thread that faulted on it waits, so
\* a fault that is still waiting is a fault on an unmapped page.
LEMMA FaultsUnmappedStep ==
    ASSUME IInv, FaultsUnmapped, Next
    PROVE  FaultsUnmapped'
<1> USE DEF IInv
<1>1. CASE UserNext
  <2>1. PICK t \in Threads :
           /\ Live(t)
           /\ \A u \in Threads : u # t => st'[u] = st[u] /\ msg'[u] = msg[u]
           /\ st'[t] = "sending" /\ msg'[t].kind = "vm" => msg'[t].page \notin mapped
           /\ UNCHANGED userRest
    BY <1>1, UserShape
  <2>2. pc \notin {"handle", "stdin"}
    BY <2>1 DEF Serving, Quiet
  <2> QED
    BY <2>1, <2>2 DEF FaultsUnmapped, Served, userRest, memVars
<1>2. ASSUME NEW t \in Threads, Recv(t)
      PROVE  FaultsUnmapped'
  <2>1. /\ \A u \in Threads : st'[u] = "sending" => st[u] = "sending"
        /\ st[t] = "sending" /\ caller' = t /\ msg' = msg /\ mapped' = mapped
    BY <1>2 DEF Recv, TypeOK, memVars
  <2> QED
    BY <2>1 DEF FaultsUnmapped, Served
<1>3. CASE VMFault
  <2>1. CASE Reply \/ KillReply
    BY <1>3, <2>1, ReplyShape, VMFaultShape DEF FaultsUnmapped, Served
  <2>2. CASE Leave("oom")
    BY <1>3, <2>2, VMFaultShape DEF FaultsUnmapped, Served, Serving, Quiet, Live, Leave
  <2> QED
    BY <1>3, <2>1, <2>2, VMFaultShape
<1>4. CASE KillSuspend \/ UserException \/ ExitParent
  <2>1. /\ \A u \in Threads : st'[u] = "sending" => st[u] = "sending"
        /\ pc' = "stopped" /\ msg' = msg /\ mapped' = mapped
    BY <1>4, StopShape, SuspendShape DEF Threads, rootRest, memVars
  <2> QED
    BY <2>1 DEF FaultsUnmapped, Served
<1>5. CASE CapFault
  <2>1. Quiet /\ st' = Resumed(st, Busybox) /\ pc' = "recv"
    BY <1>5 DEF CapFault, Handling, Serving
  <2>2. \A u \in Threads : st'[u] # "sending"
    BY <2>1 DEF Resumed, Quiet, Live, TypeOK
  <2> QED
    BY <2>1, <2>2 DEF FaultsUnmapped, Served
<1>6. CASE Answers
  <2>1. CASE Reply
    BY <1>6, <2>1, ReplyShape DEF FaultsUnmapped, Served, Answers
  <2>2. CASE Leave("stdin") \/ Leave("rootfault")
    BY <1>6, <2>2 DEF FaultsUnmapped, Served, Answers, Leave, memVars
  <2> QED
    BY <1>6, <2>1, <2>2 DEF Answers
<1>7. CASE SysFork
  BY <1>7, ForkShape DEF FaultsUnmapped, Served
<1>8. CASE ExitChild \/ ExecveChild
  <2>1. pc = "handle" /\ EndChild
    BY <1>8 DEF ExitChild, ExecveChild, Syscall, Handling
  <2> QED
    BY <2>1, EndChildShape DEF FaultsUnmapped, Served
<1>9. CASE Done
  BY <1>9 DEF Done, vars, FaultsUnmapped, Served
<1> QED
  BY <1>1, <1>2, <1>3, <1>4, <1>5, <1>6, <1>7, <1>8, <1>9, StepShape

\* Only a served page fault changes the VSpace and the untyped memory.
LEMMA MemorySame ==
    ASSUME IInv, Next, ~VMFault
    PROVE  /\ UNCHANGED <<mapped, pts, untyped>>
           /\ ~Halted' /\ pc' # "kill" => ~Halted /\ pc # "kill"
<1> USE DEF IInv
<1>1. CASE UserNext
  BY <1>1, UserShape DEF userRest, memVars, Halted
<1>2. CASE KillSuspend \/ UserException \/ ExitParent
  BY <1>2, StopShape DEF rootRest, memVars, Halted
<1>3. CASE (\E t \in Threads : Recv(t)) \/ CapFault \/ Answers
  BY <1>3 DEF Recv, CapFault, Answers, Handling, rootRest, memVars, Halted
<1>4. CASE SysFork \/ ExitChild \/ ExecveChild
  BY <1>4 DEF SysFork, ExitChild, ExecveChild, EndChild, Syscall, Handling, memVars, Halted
<1>5. CASE Done
  BY <1>5 DEF Done, vars, Halted
<1> QED
  BY <1>1, <1>2, <1>3, <1>4, <1>5, StepShape

\* A new element adds one to the size of what was mapped since the start.
LEMMA CountOne ==
    ASSUME NEW S, NEW L, NEW x, x \notin S, L \subseteq S, IsFiniteSet(S \ L)
    PROVE  /\ IsFiniteSet((S \cup {x}) \ L)
           /\ Cardinality(S \ L) \in Nat
           /\ Cardinality((S \cup {x}) \ L) = Cardinality(S \ L) + 1
<1> DEFINE T == S \ L
<1>1. (S \cup {x}) \ L = T \cup {x} /\ x \notin T /\ IsFiniteSet(T)
  OBVIOUS
<1> HIDE DEF T
<1>2. IsFiniteSet(T \cup {x}) /\ Cardinality(T \cup {x}) = Cardinality(T) + 1
  BY <1>1, FS_AddElement
<1>3. Cardinality(T) \in Nat
  BY <1>1, FS_CardinalityType
<1> QED
  BY <1>1, <1>2, <1>3 DEF T

\* Frames and page tables are taken from the untyped exactly as they are mapped.
LEMMA NoDrainStep ==
    ASSUME IInv, FaultsUnmapped, Memory, NoDrain, Next
    PROVE  Memory' /\ NoDrain'
<1> USE DEF IInv
<1>1. CASE ~VMFault
  BY <1>1, MemorySame DEF Memory, NoDrain, LoadedPts
<1>2. CASE VMFaultNull \/ VMFaultNoSlot \/ VMFaultNoFrame
  <2>1. UNCHANGED <<mapped, pts, untyped>> /\ ~Halted /\ pc # "kill"
    BY <1>2 DEF VMFaultNull, VMFaultNoSlot, VMFaultNoFrame, Handling, rootRest, memVars, Halted
  <2> QED
    BY <2>1 DEF Memory, NoDrain, LoadedPts
<1>3. CASE VMFaultMapFail
  <2>1. UNCHANGED <<mapped, pts>> /\ pc' = "kill"
    BY <1>3 DEF VMFaultMapFail, KillReply
  <2> QED
    BY <2>1 DEF Memory, NoDrain, LoadedPts
<1>4. CASE VMFaultMap
  <2>1. /\ pc = "handle" /\ msg[caller].kind = "vm" /\ CanRetype(allocs, untyped)
        /\ mapped' = mapped \cup {FaultPage}
    BY <1>4 DEF VMFaultMap, Handling
  <2>2. FaultPage \notin mapped
    BY <2>1 DEF Serving, FaultsUnmapped, Served, FaultPage
  <2>3. Frames \in Nat /\ untyped \in Nat
    BY ConstantsAssumption DEF TypeOK
  <2>4. /\ IsFiniteSet(mapped' \ LoadedPages)
        /\ Cardinality(mapped \ LoadedPages) \in Nat
        /\ Cardinality(mapped' \ LoadedPages) = Cardinality(mapped \ LoadedPages) + 1
    BY <2>1, <2>2, CountOne DEF Memory
  <2>5. Frames - untyped = Cardinality(mapped \ LoadedPages) + Cardinality(pts \ LoadedPts)
    BY <2>1 DEF NoDrain, Halted, LoadedPts
  <2>6. Cardinality(pts \ LoadedPts) \in Nat
    BY FS_CardinalityType DEF Memory
  <2>7. CASE NeedsPt
    <3>1. pts' = pts \cup {PtOf(FaultPage)} /\ untyped' = untyped - 2
      BY <1>4, <2>7 DEF VMFaultMap
    <3>2. PtOf(FaultPage) \notin pts
      BY <2>7 DEF NeedsPt
    <3>3. /\ IsFiniteSet(pts' \ LoadedPts)
          /\ Cardinality(pts' \ LoadedPts) = Cardinality(pts \ LoadedPts) + 1
      BY <3>1, <3>2, CountOne DEF Memory
    <3>4. Memory'
      BY <2>1, <2>4, <3>1, <3>3 DEF Memory, LoadedPts
    <3>5. Frames - untyped' = Cardinality(mapped' \ LoadedPages) + Cardinality(pts' \ LoadedPts)
      BY <2>3, <2>4, <2>5, <2>6, <3>1, <3>3
    <3> QED
      BY <3>4, <3>5 DEF NoDrain, LoadedPts
  <2>8. CASE ~NeedsPt
    <3>1. pts' = pts /\ untyped' = untyped - 1
      BY <1>4, <2>8 DEF VMFaultMap
    <3>2. Memory'
      BY <2>1, <2>4, <3>1 DEF Memory, LoadedPts
    <3>3. Frames - untyped' = Cardinality(mapped' \ LoadedPages) + Cardinality(pts' \ LoadedPts)
      BY <2>3, <2>4, <2>5, <2>6, <3>1
    <3> QED
      BY <3>2, <3>3 DEF NoDrain, LoadedPts
  <2> QED
    BY <2>7, <2>8
<1> QED
  BY <1>1, <1>2, <1>3, <1>4 DEF VMFault

\* Before the first fault nothing was taken.
LEMMA NoDrainInit ==
    Init => FaultsUnmapped /\ Memory /\ NoDrain
<1> SUFFICES ASSUME Init PROVE FaultsUnmapped /\ Memory /\ NoDrain
  OBVIOUS
<1>1. mapped \ LoadedPages = {} /\ pts \ LoadedPts = {}
  BY DEF Init, LoadedPts
<1>2. Memory
  BY <1>1, FS_EmptySet DEF Init, Memory, LoadedPts
<1>3. NoDrain
  <2>1. Cardinality(mapped \ LoadedPages) = 0 /\ Cardinality(pts \ LoadedPts) = 0
    BY <1>1, FS_EmptySet
  <2>2. Frames - untyped = 0
    BY ConstantsAssumption DEF Init
  <2> QED
    BY <2>1, <2>2 DEF NoDrain, LoadedPts
<1>4. FaultsUnmapped
  BY DEF Init, FaultsUnmapped, Served
<1> QED
  BY <1>2, <1>3, <1>4

\* For every amount of memory, allocator size and set of programs, as long as the
\* loop runs every object taken from the untyped backs a page or a page table.
THEOREM NoDrainHolds == Spec => []NoDrain
<1> DEFINE Drained == FaultsUnmapped /\ Memory /\ NoDrain
<1>1. Drained /\ UNCHANGED vars => Drained'
  BY DEF vars, FaultsUnmapped, Served, Memory, NoDrain, Halted
<1>2. IInv /\ Drained /\ [Next]_vars => Drained'
  BY <1>1, FaultsUnmappedStep, NoDrainStep
<1> QED
  BY <1>2, NoDrainInit, Inductive, PTL DEF Spec

-----------------------------------------------------------------------------
\* A thread that waits with a system call stays at that call until it is answered.
LEMMA AtCallStep ==
    ASSUME IInv, AtCall, Next, Nested = FALSE
    PROVE  AtCall'
<1> USE DEF IInv
<1>1. CASE UserNext
  <2>1. PICK t \in Threads :
           /\ Live(t)
           /\ \A u \in Threads : u # t =>
                 st'[u] = st[u] /\ regs'[u] = regs[u] /\ msg'[u] = msg[u]
           /\ st'[t] = "sending" /\ msg'[t].kind = "syscall" =>
                 /\ regs'[t].acc = NoPage
                 /\ regs'[t].rax = "fork" => Nested \/ regs'[t].proc = 0
           /\ UNCHANGED userRest
    BY <1>1, UserShape
  <2>2. pc \notin {"handle", "stdin"}
    BY <2>1 DEF Serving, Quiet
  <2> QED
    BY <2>1, <2>2 DEF AtCall, Served, userRest
<1>2. ASSUME NEW t \in Threads, Recv(t)
      PROVE  AtCall'
  <2>1. /\ \A u \in Threads : st'[u] = "sending" => st[u] = "sending"
        /\ st[t] = "sending" /\ caller' = t /\ msg' = msg /\ regs' = regs
    BY <1>2 DEF Recv, TypeOK
  <2> QED
    BY <2>1 DEF AtCall, Served
<1>3. CASE VMFault
  <2>1. CASE Reply \/ KillReply
    BY <1>3, <2>1, ReplyShape, VMFaultShape DEF AtCall, Served
  <2>2. CASE Leave("oom")
    BY <1>3, <2>2, VMFaultShape DEF AtCall, Served, Serving, Quiet, Live, Leave
  <2> QED
    BY <1>3, <2>1, <2>2, VMFaultShape
<1>4. CASE KillSuspend \/ UserException \/ ExitParent
  <2>1. /\ \A u \in Threads : st'[u] = "sending" => st[u] = "sending"
        /\ pc' = "stopped" /\ msg' = msg /\ regs' = regs
    BY <1>4, StopShape, SuspendShape DEF Threads, rootRest
  <2> QED
    BY <2>1 DEF AtCall, Served
<1>5. CASE CapFault
  <2>1. Quiet /\ st' = Resumed(st, Busybox) /\ pc' = "recv"
    BY <1>5 DEF CapFault, Handling, Serving
  <2>2. \A u \in Threads : st'[u] # "sending"
    BY <2>1 DEF Resumed, Quiet, Live, TypeOK
  <2> QED
    BY <2>1, <2>2 DEF AtCall, Served
<1>6. CASE Answers
  <2>1. CASE Reply
    BY <1>6, <2>1, ReplyShape DEF AtCall, Served, Answers
  <2>2. CASE (Leave("stdin") \/ Leave("rootfault")) /\ UNCHANGED regs
    BY <1>6, <2>2 DEF AtCall, Served, Answers, Leave
  <2> QED
    BY <1>6, <2>1, <2>2 DEF Answers
<1>7. CASE SysFork
  BY <1>7, ForkShape DEF AtCall, Served
<1>8. CASE ExitChild \/ ExecveChild
  <2>1. pc = "handle" /\ EndChild
    BY <1>8 DEF ExitChild, ExecveChild, Syscall, Handling
  <2> QED
    BY <2>1, EndChildShape DEF AtCall, Served
<1>9. CASE Done
  BY <1>9 DEF Done, vars, AtCall, Served
<1> QED
  BY <1>1, <1>2, <1>3, <1>4, <1>5, <1>6, <1>7, <1>8, <1>9, StepShape

\* What keeps the saved state of the parent: the child's steps leave busybox_tcb's
\* registers and the process on each TCB alone.
LEMMA ParentSame ==
    ASSUME ParentSaved,
           \A t \in Threads : regs'[t].proc = regs[t].proc,
           is_child => regs'[Busybox].fs = regs[Busybox].fs,
           UNCHANGED <<forkVars, forks, origin>>
    PROVE  ParentSaved'
  BY DEF ParentSaved, forkVars, Threads

\* fork saves what the caller must find again; nothing of it changes until the
\* child ends.
LEMMA ParentSavedStep ==
    ASSUME IInv, ActiveRuns, AtCall, ParentSaved, Next
    PROVE  ParentSaved'
<1> USE DEF IInv
<1>a. Threads = {Busybox, Child} /\ Busybox # Child
  BY DEF Threads, Busybox, Child
<1>b. active_tcb \in Threads /\ active_regs \in Regs
  BY DEF active_regs, TypeOK
<1>1. CASE UserNext
  <2>1. PICK t \in Threads :
           /\ Live(t)
           /\ \A u \in Threads : u # t => regs'[u] = regs[u]
           /\ regs'[t].proc = regs[t].proc /\ regs'[t].fs = regs[t].fs
           /\ UNCHANGED userRest
    BY <1>1, UserShape
  <2> QED
    BY <1>a, <2>1, ParentSame DEF userRest, historyVars
<1>2. CASE \/ (\E t \in Threads : Recv(t)) \/ VMFault
           \/ KillSuspend \/ UserException \/ ExitParent \/ Done
  <2>1. UNCHANGED <<regs, forkVars, forks, origin>>
    BY <1>2, VMFaultShape, StopShape DEF Recv, rootRest, Done, vars, forkVars, historyVars
  <2> QED
    BY <2>1, ParentSame
<1>3. ~CapFault
  BY DEF CapFault, Handling, Serving, ActiveRuns
<1>4. CASE Answers
  <2>1. \A t \in Threads : regs'[t].proc = regs[t].proc
    BY <1>4, <1>b DEF Answers, TypeOK, active_regs
  <2>2. is_child => regs'[Busybox] = regs[Busybox]
    BY <1>4, <1>a DEF Answers, ForkState, TypeOK
  <2> QED
    BY <1>4, <2>1, <2>2, ParentSame DEF Answers
<1>5. CASE SysFork
  <2>1. /\ regs'[Busybox] = regs[Busybox] /\ regs'[Child].proc = forks + 1
        /\ is_child'
    BY <1>5, ForkShape
  <2>2. /\ parent_regs' = active_regs /\ parent_mmap' = mmap_cur /\ parent_brk' = brk_cur
        /\ forks' = forks + 1
    BY <1>5 DEF SysFork, SavedRegs
  <2>3. forks \in Nat /\ forks + 1 \in Procs
    BY <1>5, ForkProc
  <2>4. caller = active_tcb /\ Served(caller) /\ msg[caller].kind = "syscall"
    BY <1>5 DEF SysFork, Syscall, Handling, ActiveRuns, Served
  <2>5. origin'[forks + 1] = OriginOf(active_regs)
    BY <1>5, <2>3, <2>4 DEF SysFork, active_regs, TypeOK
  <2>6. active_regs.rax = "fork"
    BY <1>5 DEF SysFork, Syscall, CallOf
  <2>7. active_regs.acc = NoPage /\ active_regs.proc = 0
    BY <1>b, <2>4, <2>6 DEF AtCall, active_regs
  <2>8. active_regs = regs[Busybox]
    BY <1>a, <2>7 DEF active_regs, ForkState, ParentSaved
  <2>9. forks + 1 \in 1..forks'
    BY <2>2, <2>3
  <2>10. /\ OriginOf(active_regs).proc = active_regs.proc
         /\ OriginOf(active_regs).rip = active_regs.rip
         /\ OriginOf(active_regs).fs = active_regs.fs
         /\ OriginOf(active_regs).brk = brk_cur /\ OriginOf(active_regs).mmap = mmap_cur
    BY DEF OriginOf
  <2> QED
    BY <2>1, <2>2, <2>5, <2>7, <2>8, <2>9, <2>10 DEF ParentSaved
<1>6. CASE ExitChild \/ ExecveChild
  <2>1. pc = "handle" /\ EndChild
    BY <1>6 DEF ExitChild, ExecveChild, Syscall, Handling
  <2>2. regs'[Busybox] = RestoredRegs /\ ~is_child'
    BY <2>1, EndChildShape
  <2>3. parent_regs \in Regs /\ is_child
    BY <2>1 DEF EndChild, ForkState, TypeOK
  <2>4. RestoredRegs.proc = parent_regs.proc
    BY <2>3 DEF RestoredRegs, Write18, PastCall, Regs
  <2> QED
    BY <2>2, <2>3, <2>4 DEF ParentSaved
<1> QED
  BY <1>1, <1>2, <1>3, <1>4, <1>5, <1>6, StepShape

\* The call a forked process ends with is served by the end of the child, which
\* restores its parent.
LEMMA ForkReturnsStep ==
    ASSUME IInv, ActiveRuns, ParentSaved, Next,
           Handling("syscall"), Ends(CallOf(regs[caller].rax)),
           regs[caller].proc # 0, pc' # "rootfault"
    PROVE  LET o == origin[regs[caller].proc] IN
           /\ st'[Busybox] = "running"
           /\ [regs'[Busybox] EXCEPT !.arg = 0]
                 = [proc |-> o.proc, rip |-> o.rip + 1, rax |-> "pid", arg |-> 0,
                    fs |-> o.fs, acc |-> NoPage, trap |-> FALSE]
           /\ brk_cur' = o.brk /\ mmap_cur' = o.mmap
<1> USE DEF IInv
<1>a. Threads = {Busybox, Child} /\ Busybox # Child
  BY DEF Threads, Busybox, Child
<1>1. pc = "handle" /\ msg[caller].kind = "syscall" /\ caller = active_tcb /\ Quiet
  BY DEF Handling, ActiveRuns, Serving
<1>2. caller = Child /\ is_child
  BY <1>1, <1>a DEF ParentSaved, ForkState
<1>3. CallOf(active_regs.rax) \in {"exit", "execve"}
  BY <1>1 DEF active_regs, Ends
<1>4. EndChild
  <2>1. ~UserNext
    BY <1>1, UserShape DEF Quiet
  <2>2. /\ ~(\E t \in Threads : Recv(t)) /\ ~VMFault /\ ~KillSuspend /\ ~CapFault
        /\ ~UserException /\ ~OtherKept /\ ~ReadStdinLine /\ ~Done
    BY <1>1, VMFaultShape DEF Recv, KillSuspend, CapFault, UserException, OtherKept,
                              CapFaultOther, UserExceptionDump, OtherFault, ReadStdinLine, Done, Handling, Halted
  <2>3. SyscallNext
    BY <2>1, <2>2 DEF Next, RootNext, OtherKept
  <2>4. ExitChild \/ ExitParent \/ ExecveChild \/ ExecveOther
    BY <1>3, <2>3 DEF SyscallNext, SysStub, SysWrite, SysOpen, SysAccess, SysStat, SysFstat,
         SysGetdents, SysLseek, SysUname, SysGetcwd, SysGetFs, SysUnknown, SysRead, SysMmap,
         SysBrk, SysArchPrctl, SysWait4, SysFork, SysForkDisabled, Syscall
  <2>5. ~ExitParent
    BY <1>2 DEF ExitParent
  <2>6. ~ExecveOther
    BY <1>2 DEF ExecveOther, AnswerWith, RootFault, Leave
  <2> QED
    BY <2>4, <2>5, <2>6 DEF ExitChild, ExecveChild
<1>5. st'[Busybox] = "running" /\ regs'[Busybox] = RestoredRegs
  BY <1>1, <1>4, EndChildShape
<1>6. parent_regs \in Regs /\ regs[Busybox] \in Regs
  BY <1>2, <1>a DEF ForkState, TypeOK
<1>7. brk_cur' = parent_brk /\ mmap_cur' = parent_mmap
  BY <1>4 DEF EndChild
<1>8. [RestoredRegs EXCEPT !.arg = 0]
        = [proc |-> parent_regs.proc, rip |-> parent_regs.rip + 1, rax |-> "pid", arg |-> 0,
           fs |-> regs[Busybox].fs, acc |-> parent_regs.acc, trap |-> FALSE]
  <2>1. RestoredRegs \in Regs
    BY <1>6, RegsTypes DEF RestoredRegs, Results
  <2>2. /\ RestoredRegs.proc = parent_regs.proc /\ RestoredRegs.rip = parent_regs.rip + 1
        /\ RestoredRegs.rax = "pid" /\ RestoredRegs.fs = regs[Busybox].fs
        /\ RestoredRegs.acc = parent_regs.acc /\ RestoredRegs.trap = FALSE
    BY <1>6 DEF RestoredRegs, Write18, PastCall, Regs
  <2>3. \A x \in Regs : [x EXCEPT !.arg = 0]
          = [proc |-> x.proc, rip |-> x.rip, rax |-> x.rax, arg |-> 0,
             fs |-> x.fs, acc |-> x.acc, trap |-> x.trap]
    BY DEF Regs
  <2> QED
    BY <2>1, <2>2, <2>3
<1> QED
  BY <1>2, <1>5, <1>7, <1>8 DEF ParentSaved

\* When programs raise no cap fault and a forked child does not fork again, the
\* end of every child returns its parent to the call it made, one call further,
\* with child_pid in rax, its own FS_BASE, and the break and cursor of the fork.
THEOREM ForkReturnsHolds ==
    ASSUME "cap" \notin FaultKinds, Nested = FALSE
    PROVE  Spec => ForkReturns
<1> DEFINE Calling == AtCall /\ ParentSaved
<1>1. Init => Calling
  BY DEF Init, AtCall, Served, ParentSaved, InitRegs, Threads
<1>2. Calling /\ UNCHANGED vars => Calling'
  BY DEF vars, AtCall, Served, ParentSaved
<1>3. IInv /\ ActiveRuns /\ Calling /\ [Next]_vars => Calling'
  BY <1>2, AtCallStep, ParentSavedStep
<1> DEFINE Returns ==
        LET q == regs[caller].proc IN
        /\ Handling("syscall") /\ Ends(CallOf(regs[caller].rax))
        /\ q # 0 /\ pc' # "rootfault"
        => LET o == origin[q] IN
           /\ st'[Busybox] = "running"
           /\ [regs'[Busybox] EXCEPT !.arg = 0]
                 = [proc |-> o.proc, rip |-> o.rip + 1, rax |-> "pid", arg |-> 0,
                    fs |-> o.fs, acc |-> NoPage, trap |-> FALSE]
           /\ brk_cur' = o.brk /\ mmap_cur' = o.mmap
<1>4. IInv /\ ActiveRuns /\ Calling /\ Next => Returns
  BY ForkReturnsStep
<1>5. IInv /\ ActiveRuns /\ Calling /\ [Next]_vars => [Returns]_vars
  BY <1>4
<1>6. Spec => []Calling
  BY <1>1, <1>3, Inductive, ActiveRunsHolds, PTL DEF Spec
<1>7. Spec => [][Returns]_vars
  BY <1>5, <1>6, Inductive, ActiveRunsHolds, PTL DEF Spec
<1> QED
  BY <1>7 DEF ForkReturns
=============================================================================
