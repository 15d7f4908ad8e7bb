----------------------------- MODULE FaultLoop -----------------------------
(***************************************************************************)
(* The busybox fault loop of the root task (root-task/src/main.rs,         *)
(* test_busybox).                                                          *)
(*                                                                         *)
(* The root task runs busybox as a seL4 thread whose Linux system calls    *)
(* and page faults arrive as fault messages on one endpoint.  The loop     *)
(* receives a message, emulates the call or maps the page, and restarts    *)
(* the faulting thread with a reply.  fork() is emulated with one          *)
(* preallocated second TCB that shares the address space: the parent is    *)
(* left unanswered while the child runs and is restored from parent_regs   *)
(* when the child exits or execs.                                          *)
(*                                                                         *)
(* User programs are the environment: a running thread may issue any call, *)
(* touch any page or raise an exception at any time.  A register file is   *)
(* abstracted to the process it belongs to, how many system calls that     *)
(* process has got past (rip), rax, one argument, FS_BASE, the access in   *)
(* progress, and whether the instruction at rip was patched to int3.       *)
(* Addresses are page numbers; page 0 is the NULL page.                    *)
(***************************************************************************)
EXTENDS Integers, FiniteSets

CONSTANTS
    MaxFaults,    \* the loop's fault limit (100000 in the code)
    MaxPage,      \* largest page number a program can name
    LoadedPages,  \* pages mapped when the loop starts (image, stack)
    BrkBase,      \* initial brk_cur (0x07000000)
    MmapBase,     \* initial mmap_cur (0x10000000)
    PtSpan,       \* pages covered by one page table (512 on x86_64)
    BadPages,     \* pages under no page directory: a page table cannot be mapped
    FreshSlots,   \* OBJ_ALLOCATOR pops that return an empty CNode slot
    TotalSlots,   \* OBJ_ALLOCATOR pops that return a slot at all
    Frames,       \* 4K objects left in the untyped find_free_untyped returns
    ChildTcb,     \* outcome of the preallocation: "absent", "ready" or "broken"
    ReplyTag,     \* the tag register when seL4_Reply runs: "zero" or "undefined"
    Calls,        \* the system calls the user programs issue
    FaultKinds,   \* the faults they raise: subset of Kinds
    Nested,       \* may a forked child fork again?
    Wild          \* may programs use addresses they do not own?

Busybox == "busybox_tcb"
Child == "child_tcb"
Threads == {Busybox, Child}
NoThread == "none"
Pages == 0..MaxPage
NoPage == -1
FsValues == {0, 1}

\* System calls, those with one kind of handler under one name: "write" is also
\* writev, "open" openat, "stat" newfstatat, "access" faccessat, "stub" every
\* call answered with a constant, "unknown" every number without a handler.
PlainCalls == {"stub", "lseek", "fork", "arch_prctl", "exit", "unknown"}
PointerCalls == {"read", "write", "open", "access", "stat", "fstat", "getdents64",
                 "uname", "getcwd", "arch_get_fs", "execve", "wait4"}
AllCalls == PlainCalls \cup PointerCalls \cup {"mmap", "brk"}

\* Values of rax after a call.  0 is also the number of read(2).
Results == {"zero", "pid", "value", "error"}

\* Fault types of the seL4 message label: 4|5, 1, 2, 3 and the rest.
Kinds == {"vm", "cap", "syscall", "exception", "unmatched"}

ASSUME ConstantsAssumption ==
    /\ MaxFaults \in Nat \ {0}
    /\ MaxPage \in Nat
    /\ LoadedPages \subseteq Pages \ {0}
    /\ BrkBase \in Pages /\ MmapBase \in Pages
    /\ PtSpan \in Nat \ {0}
    /\ BadPages \subseteq Pages
    /\ \A p, q \in Pages : p \div PtSpan = q \div PtSpan => (p \in BadPages <=> q \in BadPages)
    /\ FreshSlots \in Nat /\ TotalSlots \in Nat /\ FreshSlots <= TotalSlots
    /\ Frames \in Nat
    /\ ChildTcb \in {"absent", "ready", "broken"}
    /\ ReplyTag \in {"zero", "undefined"}
    /\ Calls \subseteq AllCalls
    /\ FaultKinds \subseteq Kinds
    /\ Nested \in BOOLEAN /\ Wild \in BOOLEAN

VARIABLES
    st,           \* kernel state of each TCB
    regs,         \* register file of each TCB
    msg,          \* the fault message a TCB sends or sent last
    caller,       \* thread named by the reply capability in the root's caller slot
    pc,           \* where the root task is in its loop
    fault_count,
    active_tcb,
    is_child,
    parent_regs,
    parent_brk,
    parent_mmap,
    brk_cur,
    mmap_cur,
    mapped,       \* pages mapped in the shared VSpace
    pts,          \* page tables mapped there
    untyped,      \* 4K objects left
    allocs,       \* slots taken from OBJ_ALLOCATOR by the loop
    forks,        \* history: processes created
    origin,       \* history: what each process must find when its child ends
    held          \* history: pages mmap returned to each process

kernelVars == <<st, caller, msg>>
forkVars == <<active_tcb, is_child, parent_regs, parent_brk, parent_mmap>>
memVars == <<mapped, pts, untyped, allocs>>
historyVars == <<forks, origin, held>>
\* What a user step, and a handler that only answers, leave alone.
userRest == <<caller, pc, fault_count, forkVars, brk_cur, mmap_cur, memVars, historyVars>>
rootRest == <<msg, fault_count, forkVars, brk_cur, mmap_cur, memVars, historyVars>>
vars == <<st, regs, msg, caller, pc, fault_count, active_tcb, is_child,
          parent_regs, parent_brk, parent_mmap, brk_cur, mmap_cur,
          mapped, pts, untyped, allocs, forks, origin, held>>

(***************************************************************************)
(* Types and the initial state.                                            *)
(***************************************************************************)
Procs == 0..MaxFaults

Regs == [proc : Procs, rip : Nat, rax : AllCalls \cup Results, arg : Pages,
         fs : FsValues, acc : Pages \cup {NoPage}, trap : BOOLEAN]

InitRegs == [proc |-> 0, rip |-> 0, rax |-> "value", arg |-> 0,
             fs |-> 0, acc |-> NoPage, trap |-> FALSE]

Msgs == [kind : Kinds, page : Pages]

\* parent_regs = None.
NoRegs == [InitRegs EXCEPT !.proc = -1]

\* isRunnable / BlockedOnSend / BlockedOnReply / Inactive of the kernel; a TCB
\* slot that holds no TCB is "none", one that was never configured "broken".
ThreadStates == {"running", "sending", "replywait", "inactive", "none", "broken"}

\* The loop listens (recv), handles a message (handle), polls COM1 (stdin), is
\* between the reply and the suspend of a kill (kill), has left the loop
\* (stopped), has panicked (panic, oom), or has itself faulted (rootfault).
Pcs == {"recv", "handle", "stdin", "kill", "stopped", "panic", "oom", "rootfault"}

PtOf(p) == p \div PtSpan

Origins == [proc : Procs, rip : Nat, fs : FsValues, brk : Nat, mmap : Nat]

NoOrigin == [proc |-> 0, rip |-> 0, fs |-> 0, brk |-> 0, mmap |-> 0]

ChildState == CASE ChildTcb = "absent" -> "none"
                [] ChildTcb = "ready"  -> "inactive"
                [] ChildTcb = "broken" -> "broken"

Init ==
    /\ st = [t \in Threads |-> IF t = Busybox THEN "running" ELSE ChildState]
    /\ regs = [t \in Threads |-> InitRegs]
    /\ msg = [t \in Threads |-> [kind |-> "syscall", page |-> 0]]
    /\ caller = NoThread
    /\ pc = "recv"
    /\ fault_count = 0
    /\ active_tcb = Busybox
    /\ is_child = FALSE
    /\ parent_regs = NoRegs
    /\ brk_cur = BrkBase /\ parent_brk = BrkBase
    /\ mmap_cur = MmapBase /\ parent_mmap = MmapBase
    /\ mapped = LoadedPages
    /\ pts = {PtOf(p) : p \in LoadedPages}
    /\ untyped = Frames
    /\ allocs = 0
    /\ forks = 0
    /\ origin = [q \in Procs |-> NoOrigin]
    /\ held = [q \in Procs |-> {}]

(***************************************************************************)
(* The seL4 kernel (external): effect of Resume, Suspend and Reply.        *)
(* Resume restarts any stopped thread and, like Suspend, cancels the IPC   *)
(* it is blocked in, deleting its reply capability.                        *)
(***************************************************************************)
NoTcb == {"none", "broken"}

Resumed(s, t) == IF s[t] \in NoTcb THEN s ELSE [s EXCEPT ![t] = "running"]

Suspended(s, t) == IF s[t] \in NoTcb THEN s ELSE [s EXCEPT ![t] = "inactive"]

Revoked(T) == IF caller \in T THEN NoThread ELSE caller

\* A fault reply restarts the thread when its label is 0 and leaves it inactive
\* otherwise.  seL4_Reply passes its tag in rdi; the kernel takes it from rsi,
\* which sys_send1 does not set.
ReplyStates == IF ReplyTag = "zero" THEN {"running"} ELSE {"running", "inactive"}

Replied(s, to) == IF caller \in Threads THEN [s EXCEPT ![caller] = to] ELSE s

\* seL4_TCB_WriteRegisters with 18 words: FS_BASE is word 18 and stays.
Write18(old, new) == [new EXCEPT !.fs = old.fs]

PastCall(r) == [r EXCEPT !.rip = @ + 1, !.trap = FALSE]

Live(t) == st[t] \in {"running", "sending"}

(***************************************************************************)
(* User programs (environment).                                            *)
(***************************************************************************)
Free(t) == st[t] = "running" /\ regs[t].acc = NoPage

\* The image and stack, what mmap returned, and the heap up to the break.
Owned(t) == LoadedPages \cup held[regs[t].proc] \cup BrkBase..(brk_cur - 1)

\* mmap is asked for at least a page.
MmapLen_NoMin(a) == a

MmapLen(a) == IF a = 0 THEN 1 ELSE a

\* The argument is a pointer, an mmap length in pages (bound: the region fits in
\* Pages), a break, or of no interest.  Only wait4 is given a NULL pointer.
Argument(t, c, a) ==
    \/ c \in PlainCalls /\ a = 0
    \/ c \in PointerCalls /\ (Wild \/ a \in Owned(t) \/ (c = "wait4" /\ a = 0))
    \/ c = "mmap" /\ mmap_cur + MmapLen(a) <= MaxPage + 1
    \/ c = "brk"

\* The `syscall` instruction with number c and argument a.  The kernel takes it
\* for one of its own (kind "cap") when rdx happens to name a seL4 call.
Issue(t, c, a, k) ==
    /\ Free(t) /\ ~regs[t].trap
    /\ k \in FaultKinds \cap {"syscall", "cap"}
    /\ Argument(t, c, a)
    /\ c = "fork" => Nested \/ regs[t].proc = 0
    /\ regs' = [regs EXCEPT ![t].rax = c, ![t].arg = a]
    /\ msg' = [msg EXCEPT ![t] = [kind |-> k, page |-> 0]]
    /\ st' = [st EXCEPT ![t] = "sending"]
    /\ UNCHANGED userRest

\* A CPU exception (int3 of a patched instruction included) or another fault.
Raise(t, k) ==
    /\ Free(t)
    /\ IF regs[t].trap THEN k = "exception" ELSE k \in FaultKinds
    /\ msg' = [msg EXCEPT ![t] = [kind |-> k, page |-> 0]]
    /\ st' = [st EXCEPT ![t] = "sending"]
    /\ UNCHANGED <<regs, userRest>>

\* A load or store to an unmapped page faults; the access stays in progress.
Touch(t, p) ==
    /\ Free(t) /\ ~regs[t].trap
    /\ "vm" \in FaultKinds
    /\ p \notin mapped /\ (Wild \/ p \in Owned(t))
    /\ regs' = [regs EXCEPT ![t].acc = p]
    /\ msg' = [msg EXCEPT ![t] = [kind |-> "vm", page |-> p]]
    /\ st' = [st EXCEPT ![t] = "sending"]
    /\ UNCHANGED userRest

\* A restarted thread repeats the access: it faults again or gets through.
Retry(t) ==
    /\ st[t] = "running" /\ regs[t].acc # NoPage
    /\ IF regs[t].acc \in mapped
          THEN /\ regs' = [regs EXCEPT ![t].acc = NoPage]
               /\ UNCHANGED <<st, msg>>
          ELSE /\ msg' = [msg EXCEPT ![t] = [kind |-> "vm", page |-> regs[t].acc]]
               /\ st' = [st EXCEPT ![t] = "sending"]
               /\ UNCHANGED regs
    /\ UNCHANGED userRest

(***************************************************************************)
(* The loop: seL4_Recv drops the old reply capability, takes a sender and  *)
(* counts the fault.  Past the limit the loop breaks without a reply.      *)
(***************************************************************************)
Counted(t) == fault_count + 1

Recv(t) ==
    /\ pc = "recv" /\ st[t] = "sending"
    /\ caller' = t
    /\ st' = [st EXCEPT ![t] = "replywait"]
    /\ fault_count' = Counted(t)
    /\ pc' = IF Counted(t) > MaxFaults THEN "stopped" ELSE "handle"
    /\ UNCHANGED <<regs, msg, forkVars, brk_cur, mmap_cur, memVars, historyVars>>

Handling(k) == pc = "handle" /\ msg[caller].kind = k

\* The empty fault reply that ends an iteration.
Reply ==
    /\ \E to \in ReplyStates : st' = Replied(st, to)
    /\ caller' = NoThread
    /\ pc' = "recv"

(***************************************************************************)
(* VMFault (4 | 5).                                                        *)
(***************************************************************************)
FaultPage == msg[caller].page

\* bi.find_free_untyped(12) always names the same untyped; retyping into a slot
\* OBJ_ALLOCATOR hands out a second time fails, as does an exhausted untyped.
CanRetype_AnyLeft(n, left) == n < FreshSlots

CanRetype(n, left) == n < FreshSlots /\ left > 0

NeedsPt == PtOf(FaultPage) \notin pts

Leave(where) == pc' = where /\ UNCHANGED <<st, caller>>

\* kill_child, first half: the reply restarts the faulting thread.
KillReply ==
    /\ \E to \in ReplyStates : st' = Replied(st, to)
    /\ caller' = NoThread
    /\ pc' = "kill"

\* NULL pointer guard.
VMFaultNull ==
    /\ Handling("vm") /\ FaultPage = 0
    /\ KillReply
    /\ UNCHANGED <<regs, rootRest>>

\* OBJ_ALLOCATOR.alloc().unwrap() on an empty allocator.
VMFaultNoSlot_Spins ==
    /\ Handling("vm") /\ FaultPage # 0
    /\ allocs >= TotalSlots
    /\ UNCHANGED vars

VMFaultNoSlot ==
    /\ Handling("vm") /\ FaultPage # 0
    /\ \/ allocs >= TotalSlots
       \/ /\ CanRetype(allocs, untyped)
          /\ NeedsPt /\ allocs + 1 >= TotalSlots
    /\ Leave("oom")
    /\ UNCHANGED <<regs, rootRest>>

\* The frame cannot be retyped: nothing is mapped, the reply makes it fault again.
VMFaultNoFrame ==
    /\ Handling("vm") /\ FaultPage # 0
    /\ allocs < TotalSlots /\ ~CanRetype(allocs, untyped)
    /\ allocs' = allocs + 1
    /\ Reply
    /\ UNCHANGED <<regs, msg, fault_count, forkVars, brk_cur, mmap_cur,
                   mapped, pts, untyped, historyVars>>

\* The frame maps at once, or after a page table was made for its region.
VMFaultMap ==
    /\ Handling("vm") /\ FaultPage # 0
    /\ CanRetype(allocs, untyped)
    /\ IF NeedsPt
          THEN /\ allocs + 1 < TotalSlots
               /\ CanRetype(allocs + 1, untyped - 1)
               /\ FaultPage \notin BadPages
               /\ pts' = pts \cup {PtOf(FaultPage)}
               /\ untyped' = untyped - 2
               /\ allocs' = allocs + 2
          ELSE /\ untyped' = untyped - 1
               /\ allocs' = allocs + 1
               /\ UNCHANGED pts
    /\ mapped' = mapped \cup {FaultPage}
    /\ Reply
    /\ UNCHANGED <<regs, msg, fault_count, forkVars, brk_cur, mmap_cur, historyVars>>

\* The page table cannot be made, or mapping still fails: kill_child.
VMFaultMapFail ==
    /\ Handling("vm") /\ FaultPage # 0
    /\ CanRetype(allocs, untyped)
    /\ NeedsPt /\ allocs + 1 < TotalSlots
    /\ \/ ~CanRetype(allocs + 1, untyped - 1) /\ untyped' = untyped - 1
       \/ /\ CanRetype(allocs + 1, untyped - 1) /\ FaultPage \in BadPages
          /\ untyped' = untyped - 2
    /\ allocs' = allocs + 2
    /\ KillReply
    /\ UNCHANGED <<regs, msg, fault_count, forkVars, brk_cur, mmap_cur,
                   mapped, pts, historyVars>>

\* kill_child, second half: seL4_TCB_Suspend(busybox_tcb), then break.
KillSuspend_Forgotten ==
    /\ pc = "kill"
    /\ pc' = "stopped"
    /\ UNCHANGED <<st, caller, regs, rootRest>>

KillSuspend ==
    /\ pc = "kill"
    /\ st' = Suspended(st, Busybox)
    /\ caller' = Revoked({Busybox})
    /\ pc' = "stopped"
    /\ UNCHANGED <<regs, rootRest>>

\* The root task itself faults: it has no fault handler and stops for good.
RootFault == Leave("rootfault") /\ UNCHANGED regs

(***************************************************************************)
(* CapFault (1), UserException (3) and the other fault types.              *)
(***************************************************************************)
\* The `syscall` bytes are patched and busybox_tcb is resumed, whoever faulted.
CapFault ==
    /\ Handling("cap")
    /\ regs' = [regs EXCEPT ![caller].trap = TRUE]
    /\ st' = Resumed(st, Busybox)
    /\ caller' = Revoked({Busybox})
    /\ pc' = "recv"
    /\ UNCHANGED rootRest

\* The fault IP is 0 or all ones, or holds no `syscall`: nothing is patched and the
\* sender gets the empty reply, which restarts it at the same instruction.
CapFaultOther ==
    /\ Handling("cap")
    /\ Reply
    /\ UNCHANGED <<regs, rootRest>>

\* busybox_tcb is suspended, whoever faulted, and the loop stops.
UserException ==
    /\ Handling("exception")
    /\ st' = Suspended(st, Busybox)
    /\ caller' = Revoked({Busybox})
    /\ pc' = "stopped"
    /\ UNCHANGED <<regs, rootRest>>

\* The root reads eight bytes at the exception's IP for its report; where they run
\* into an unmapped page it faults itself.
UserExceptionDump ==
    /\ Handling("exception")
    /\ RootFault
    /\ UNCHANGED rootRest

OtherFault ==
    /\ Handling("unmatched")
    /\ Reply
    /\ UNCHANGED <<regs, rootRest>>

(***************************************************************************)
(* UnknownSyscall (2).  The handler decodes the registers of active_tcb,   *)
(* not of the sender; a stale result in rax is taken for a call number.    *)
(***************************************************************************)
active_regs == regs[active_tcb]

CallOf(rax) == IF rax \in AllCalls THEN rax
               ELSE IF rax = "zero" THEN "read" ELSE "unknown"

Syscall(c) == Handling("syscall") /\ CallOf(active_regs.rax) = c

\* regs[3] = ret_val, regs[0] = rip + 2, WriteRegisters(active_tcb, 18), reply.
Answer(ret) ==
    /\ regs' = [regs EXCEPT ![active_tcb] =
                    Write18(regs[active_tcb], [PastCall(active_regs) EXCEPT !.rax = ret])]
    /\ Reply

\* A handler that dereferences a user pointer itself: an unmapped page faults
\* the root task.
Deref == active_regs.arg \in mapped

AnswerWith(rets) ==
    IF Deref THEN \E ret \in rets : Answer(ret) ELSE RootFault

\* A call that only answers: some results are returned before user memory is
\* touched (direct), others after it was read or written (after).
Emulate(direct, after) ==
    /\ \/ \E ret \in direct : Answer(ret)
       \/ after # {} /\ AnswerWith(after)
    /\ UNCHANGED rootRest

\* fcntl, mprotect, munmap, signal masks, ids, ioctl, kill, and close, whose
\* errors are ignored.
SysStub == Syscall("stub") /\ Emulate({"zero", "value", "error"}, {})

\* write, writev: the bytes are read from user memory; writev to a file is EBADF.
SysWrite == Syscall("write") /\ Emulate({"zero", "error"}, {"zero", "value", "error"})

\* open, openat: the path is read from user memory.
SysOpen == Syscall("open") /\ Emulate({}, {"zero", "value", "error"})

\* access, faccessat: the path is read from user memory.
SysAccess == Syscall("access") /\ Emulate({}, {"zero", "error"})

\* stat, newfstatat: the path is read, struct stat written.
SysStat == Syscall("stat") /\ Emulate({}, {"zero", "error"})

\* fstat: nothing is written for a device or an error.
SysFstat == Syscall("fstat") /\ Emulate({"zero", "error"}, {"zero"})

\* getdents64: entries are written when there are any.
SysGetdents == Syscall("getdents64") /\ Emulate({"zero", "error"}, {"value"})

\* lseek: answered by FS_CLIENT.
SysLseek == Syscall("lseek") /\ Emulate({"zero", "value", "error"}, {})

\* uname: struct utsname is written.
SysUname == Syscall("uname") /\ Emulate({}, {"zero"})

\* getcwd: ERANGE, or "/" is written.
SysGetcwd == Syscall("getcwd") /\ Emulate({"error"}, {"value"})

\* arch_prctl(ARCH_GET_FS): the saved FS_BASE is written.
SysGetFs == Syscall("arch_get_fs") /\ Emulate({}, {"zero"})

\* Any other number: ENOSYS.
SysUnknown == Syscall("unknown") /\ Emulate({"error"}, {})

\* read(0, buf, n) prompts and polls the UART; a file read asks FS_CLIENT, and
\* errors read as end of file.
SysRead ==
    /\ Syscall("read")
    /\ \/ Leave("stdin") /\ UNCHANGED <<regs, rootRest>>
       \/ Emulate({"zero"}, {"value"})

\* read_stdin_line: a line arrives and is written byte by byte, or the port read
\* fails before any byte.
ReadStdinLine == pc = "stdin" /\ Emulate({"zero"}, {"value"})

\* mmap: the bump pointer grows by the length, at least a page.
SysMmap ==
    /\ Syscall("mmap")
    /\ mmap_cur' = mmap_cur + MmapLen(active_regs.arg)
    /\ held' = [held EXCEPT ![active_regs.proc] = @ \cup {mmap_cur} \cup mmap_cur..(mmap_cur' - 1)]
    /\ Answer("value")
    /\ UNCHANGED <<msg, fault_count, forkVars, brk_cur, memVars, forks, origin>>

\* brk(0) queries, any other argument moves the break.
SysBrk ==
    /\ Syscall("brk")
    /\ brk_cur' = IF active_regs.arg = 0 THEN brk_cur ELSE active_regs.arg
    /\ Answer("value")
    /\ UNCHANGED <<msg, fault_count, forkVars, mmap_cur, memVars, historyVars>>

\* arch_prctl(ARCH_SET_FS): SetTLSBase on active_tcb, then the 18-word write.
SysArchPrctl ==
    /\ Syscall("arch_prctl")
    /\ \E v \in FsValues :
          regs' = [regs EXCEPT ![active_tcb] = [PastCall(active_regs) EXCEPT !.rax = "zero", !.fs = v]]
    /\ Reply
    /\ UNCHANGED rootRest

\* wait4: ECHILD to a child, else child_pid at once (status written unless NULL).
SysWait4 ==
    /\ Syscall("wait4")
    /\ IF is_child THEN Answer("error")
       ELSE IF active_regs.arg = 0 \/ Deref THEN Answer("pid") ELSE RootFault
    /\ UNCHANGED rootRest

(***************************************************************************)
(* fork, exit and execve.                                                  *)
(***************************************************************************)
\* What the sender must find again when its child ends.
OriginOf(x) == [proc |-> x.proc, rip |-> x.rip, fs |-> x.fs, brk |-> brk_cur, mmap |-> mmap_cur]

\* Only the child is resumed; the parent's message stays unanswered.
Switched_BothRun == Resumed(Replied(st, "running"), Child)

Switched_NoneRuns == st

Switched == Resumed(st, Child)

\* Words fork saves for the parent.
SavedRegs_Dropped == NoRegs

SavedRegs == active_regs

\* The child TCB gets the caller's registers with rax = 0 and rip past the call,
\* the caller's state is saved, and only the child is resumed.
SysFork ==
    /\ Syscall("fork") /\ ChildTcb # "absent"
    /\ regs' = [regs EXCEPT ![Child] =
                   [PastCall(active_regs) EXCEPT !.rax = "zero", !.proc = forks + 1]]
    /\ parent_regs' = SavedRegs
    /\ parent_brk' = brk_cur
    /\ parent_mmap' = mmap_cur
    /\ active_tcb' = Child
    /\ is_child' = TRUE
    /\ st' = Switched
    /\ caller' = Revoked({Child})
    /\ pc' = "recv"
    /\ forks' = forks + 1
    /\ origin' = [origin EXCEPT ![forks + 1] = OriginOf(regs[caller])]
    /\ held' = [held EXCEPT ![forks + 1] = held[active_regs.proc]]
    /\ UNCHANGED <<msg, fault_count, brk_cur, mmap_cur, memVars>>

SysForkDisabled ==
    /\ Syscall("fork") /\ ChildTcb = "absent"
    /\ Answer("error")
    /\ UNCHANGED rootRest

\* p_regs[3] = child_pid, p_regs[0] += 2, 18 words written to busybox_tcb.
RestoredRegs_NotAdvanced == Write18(regs[Busybox], [parent_regs EXCEPT !.rax = "pid"])

RestoredRegs == Write18(regs[Busybox], [PastCall(parent_regs) EXCEPT !.rax = "pid"])

\* The child is suspended; the parent's cursors and 18 of its registers are
\* restored (parent_regs.take().unwrap()), rax = child_pid, and it is resumed.
EndChild ==
    /\ is_child
    /\ active_tcb' = Busybox
    /\ is_child' = FALSE
    /\ brk_cur' = parent_brk
    /\ mmap_cur' = parent_mmap
    /\ parent_regs' = NoRegs
    /\ regs' = [regs EXCEPT ![Busybox] = RestoredRegs]
    /\ st' = Resumed(Suspended(st, active_tcb), Busybox)
    /\ caller' = Revoked(Threads)
    /\ pc' = IF parent_regs = NoRegs THEN "panic" ELSE "recv"
    /\ UNCHANGED <<msg, fault_count, parent_brk, parent_mmap, memVars, historyVars>>

ExitChild == Syscall("exit") /\ EndChild

\* exit of the process on busybox_tcb: it is suspended and the loop stops.
ExitParent ==
    /\ Syscall("exit") /\ ~is_child
    /\ st' = Suspended(st, active_tcb)
    /\ caller' = Revoked({active_tcb})
    /\ pc' = "stopped"
    /\ UNCHANGED <<regs, rootRest>>

\* execve: the command is emulated; a child then ends, any other caller gets 0.
ExecveChild == Syscall("execve") /\ Deref /\ EndChild

ExecveOther ==
    /\ Syscall("execve")
    /\ ~Deref \/ ~is_child
    /\ AnswerWith({"zero"})
    /\ UNCHANGED rootRest

(***************************************************************************)
(* Specification.                                                          *)
(***************************************************************************)
Halted == pc \in {"stopped", "panic", "oom", "rootfault"}

\* The root task has left the loop; nothing is left to do.
Done == Halted /\ UNCHANGED vars

VMFault == VMFaultNull \/ VMFaultNoSlot \/ VMFaultNoFrame \/ VMFaultMap \/ VMFaultMapFail

SyscallNext ==
    \/ SysStub \/ SysWrite \/ SysOpen \/ SysAccess \/ SysStat \/ SysFstat
    \/ SysGetdents \/ SysLseek \/ SysUname \/ SysGetcwd \/ SysGetFs \/ SysUnknown \/ SysRead
    \/ SysMmap \/ SysBrk \/ SysArchPrctl \/ SysWait4
    \/ SysFork \/ SysForkDisabled \/ ExitChild \/ ExitParent \/ ExecveChild \/ ExecveOther

\* Everything the root task does without waiting for a person at the console.
RootNext ==
    \/ \E t \in Threads : Recv(t)
    \/ VMFault \/ KillSuspend
    \/ CapFault \/ CapFaultOther \/ UserException \/ UserExceptionDump \/ OtherFault
    \/ SyscallNext

UserNext ==
    \E t \in Threads :
        \/ \E c \in Calls, a \in Pages, k \in {"syscall", "cap"} : Issue(t, c, a, k)
        \/ \E k \in {"exception", "unmatched"} : Raise(t, k)
        \/ \E p \in Pages : Touch(t, p)
        \/ Retry(t)

Next == UserNext \/ RootNext \/ ReadStdinLine \/ Done

\* The root task keeps serving messages, and the kernel schedules a runnable
\* thread, which then repeats the access it was restarted at.
Fairness == WF_vars(RootNext) /\ \A t \in Threads : WF_vars(Retry(t))

Spec == Init /\ [][Next]_vars

FairSpec == Spec /\ Fairness

(***************************************************************************)
(* Properties.                                                             *)
(***************************************************************************)
\* Every variable of the loop has its type.
TypeOK ==
    /\ st \in [Threads -> ThreadStates]
    /\ regs \in [Threads -> Regs]
    /\ msg \in [Threads -> Msgs]
    /\ caller \in Threads \cup {NoThread}
    /\ pc \in Pcs
    /\ fault_count \in 0..(MaxFaults + 1)
    /\ active_tcb \in Threads
    /\ is_child \in BOOLEAN
    /\ parent_regs \in Regs \cup {NoRegs}
    /\ brk_cur \in Nat /\ parent_brk \in Nat
    /\ mmap_cur \in Nat /\ parent_mmap \in Nat
    /\ mapped \subseteq Pages
    /\ pts \subseteq Nat
    /\ untyped \in Nat /\ allocs \in Nat
    /\ forks \in Nat
    /\ origin \in [Procs -> Origins]
    /\ held \in [Procs -> SUBSET Nat]

\* "Only one runs at a time": whatever the programs do, the parent and the child
\* TCB are never runnable or waiting to be served together.
OneRunner == \A t, u \in Threads : Live(t) /\ Live(u) => t = u

\* "parent is suspended while child runs": busybox_tcb is not runnable while the
\* loop works for the child.
ParentSuspended == is_child => ~Live(Busybox)

\* The root never blocks in seL4_Recv with nobody left to send: every handler
\* that returns to the loop has restarted a thread.
NeverStuck == pc = "recv" => \E t \in Threads : Live(t)

\* parent_regs.take().unwrap() finds the registers fork saved: a child only ends
\* between a fork and the first restore.
UnwrapSafe == pc # "panic" /\ (is_child <=> parent_regs # NoRegs)

\* When a forked process exits or execs, the process that forked it continues on
\* busybox_tcb with its own registers, one call further, child_pid in rax, its
\* own FS_BASE, and the break and mmap cursor it had at the fork.
Ends(c) == c \in {"exit", "execve"}

ForkReturns ==
    [][LET q == regs[caller].proc IN
       /\ Handling("syscall") /\ Ends(CallOf(regs[caller].rax))
       /\ q # 0 /\ pc' # "rootfault"
       => LET o == origin[q] IN
          /\ st'[Busybox] = "running"
          /\ [regs'[Busybox] EXCEPT !.arg = 0]
                = [proc |-> o.proc, rip |-> o.rip + 1, rax |-> "pid", arg |-> 0,
                   fs |-> o.fs, acc |-> NoPage, trap |-> FALSE]
          /\ brk_cur' = o.brk /\ mmap_cur' = o.mmap]_vars

\* The next region mmap hands out overlaps nothing it gave the process before,
\* also after a child moved the cursor and it was rolled back.
MmapDisjoint ==
    \A t \in Threads : Live(t) => \A p \in held[regs[t].proc] : p < mmap_cur

\* "bump-allocate anonymous pages. Frames are mapped lazily on first access" (main.rs
\* 1528-1530): a region mmap hands out has no frames yet.  It may have those of a
\* child that ended: its cursor was rolled back and its pages stayed mapped.
MmapFresh == [][SysMmap => mapped \cap mmap_cur..(mmap_cur' - 1) = {}]_vars

\* Every 4K object taken from the untyped backs a mapped page or page table as
\* long as the loop runs: a failing fault does not drain memory.
NoDrain ==
    ~Halted /\ pc # "kill" =>
        Frames - untyped = Cardinality(mapped \ LoadedPages)
                           + Cardinality(pts \ {PtOf(p) : p \in LoadedPages})

\* "Child killed, stopping": no thread runs on when the loop has stopped, even if
\* the killed thread ran, and faulted again, between the reply and the suspend.
\* Once fork is possible this fails: kill_child suspends busybox_tcb only.
StoppedMeansStopped == pc = "stopped" => \A t \in Threads : ~Live(t)

\* A page fault is resolved or the loop ends: a fault that cannot be served does
\* not repeat forever.
PageFaultEnds ==
    \A t \in Threads, p \in Pages :
        (st[t] = "sending" /\ msg[t] = [kind |-> "vm", page |-> p])
            ~> (p \in mapped \/ Halted)
=============================================================================
