# TLA+ models of mk-call-merge

mk-call-merge is a small operating system on seL4: a root task that runs an
unmodified busybox and answers its Linux system calls, an ext4 file service, a
block device, and a Linux compatible layer (`lcl`) that is growing into a task
manager of its own. This directory holds TLA+ modules of the parts that carry its
logic, the TLC configurations that check them on small instances, and TLAPS
proofs of the results that matter most for every instance.

## 1. The system

| Component | State it keeps | Operations | What makes it hard |
|---|---|---|---|
| busybox fault loop (`root-task/src/main.rs`, `test_busybox`) | `active_tcb`, `is_child`, `parent_regs`, `parent_brk`, `parent_mmap`, `brk_cur`, `mmap_cur`, `fault_count`; the shared VSpace; the one reply capability | receive a fault message; map a page; emulate a system call; fork / exit / execve on two TCBs; kill | two threads and the root interleave; a handler restarts one of two TCBs; memory and slots run out; the root reads lazily mapped user memory itself |
| ext4 file service (`ext4-srv`) | `fd_table`, `next_fd` | open, read, write, close, stat, getdents64, mkdir, unlink, access, file_size, lseek | state spread over a descriptor and a store; `unwrap()` on library errors stops the service |
| ext4 adapter (`lwext4-task`) | `stores`, a table of `STORE_CAP` open files | add, remove, look up | the table is shared by open, stat and access |
| IPC client (`lcl/src/fs/ipc_client.rs`, `syscall/fs.rs`) | its own `fd_table` over remote descriptors | one message exchange per file operation | a message layout agreed by hand on both sides, and registers nobody loads |
| task creation (`lcl/src/task/runner.rs`, `loader.rs`) | capability slots, untyped memory, page tables, frames | parse an ELF file, make objects, map and fill pages, configure and start a TCB | some twenty steps each of which may fail; slots on the allocator's stack twice; segments that share or split pages |
| tasks and memory (`lcl/src/task/mod.rs`, `mem.rs`, `syscall/mm.rs`, `exec.rs`, `exception.rs`) | `mapped_page`, `page_data`, heap, `task_vm_end` | load, patch, brk, mmap, munmap, fault, execve, exit | two maps that must agree; code patched in place |
| signals, timers (`task/signal.rs`, `syscall/signal.rs`, `timer.rs`) | pending and masked signals, the time queue, three kinds of locks | kill, tkill, mask, pop, set a timer, expire | an interrupt and tasks updating the same words |
| seL4 wrappers (`crates/sel4-sys`) | the IPC buffer | register assignment of each system call | a register the wrapper does not set |
| allocators (`lcl/src/utils/obj.rs`, `crates/common`, `bootinfo.rs`) | a stack of slots; the untyped list | alloc, extend, `find_free_untyped` | a slot handed out twice; an untyped that is full |
| block device, pipes, devfs | ramdisk; a byte queue | I/O | not modelled, see section 5 |

How they interact: busybox faults on one endpoint, and the fault loop answers
with `WriteRegisters` and a reply. File system calls go through `FS_CLIENT` (an
`seL4_Call` to slot 100) to `service_loop` of ext4-srv, which calls
`EXT4FSImpl`, which calls the ramdisk. In the code as it is, nobody starts
ext4-srv and the root task has no capability at slot 100 (main.rs 1280-1281 says
so); `FaultLoop` therefore takes any answer of `FS_CLIENT`, `FsService` any
request, and `FsClient` composes client, message registers and service loop.
`create_user_task` makes the task the fault loop then serves. The hazards of this
code, each at its line and with the properties that cover it, are listed in
`PROJECT.json`.

## 2. Modules

| Module | Models |
|---|---|
| `FaultLoop`, `MCFaultLoop`, `FaultLoopProofs` | the loop of `test_busybox`: every fault type, every system call, fork on the preallocated TCB, lazy paging, kill |
| `OpenFiles` | abstract: what a table of open files promises |
| `FsService`, `MCFsService`, `FsServiceProofs` | `service_loop`, every handler of `service.rs`, the store table of `lwext4-task` |
| `FsClient`, `MCFsClient`, `FsClientProofs` | the file system calls of `lcl`, `FsClient`, the message registers, decoding and `write_response` of ext4-srv |
| `KernelObjects`, `KernelProofs` | seL4 objects as task creation uses them: untypeds, slots, page tables, frames; `OBJ_ALLOCATOR`, `find_free_untyped`; the program headers both loaders read and the walk over the pages of their segments |
| `Runner`, `MCRunner`, `RunnerProofs` | `create_user_task` |
| `Loader`, `MCLoader`, `LoaderProofs` | `load_elf_to_memory`, `create_child_cspace`, `create_child_vspace`, `create_child_tcb`, `start_child_task` |
| `AddressSpace` | abstract: memory as a flat array of cells |
| `TaskMem`, `MCTaskMem`, `TaskMemProofs` | `Sel4Task`'s memory, `load_elf`, the memory system calls, execve, exit, the fault handlers of `exception.rs` |
| `Signals`, `MCSignals`, `SignalsProofs` | pending and masked signals, kill, tkill, process timers, the timer interrupt |

### FaultLoop

The variables with the names of the code are the local variables of
`test_busybox`. Around them are the kernel's view and the memory:

- `st` is the kernel state of the two TCBs (running, sending a fault, waiting for
  a reply, inactive), `caller` the thread named by the root's reply capability,
  `regs` and `msg` the register file and last message of each TCB. `Resumed`,
  `Suspended`, `Revoked` and `Replied` are the kernel's effect of the calls the
  loop makes. A register file is a record of the process it belongs to, how many
  calls that process got past (`rip`), `rax`, one argument, `FS_BASE`, the memory
  access in progress, and whether the instruction at `rip` was patched to int3.
- `pc` is where the root is: in `seL4_Recv`, handling a message, polling the UART,
  between the reply and the suspend of a kill, or out of the loop.
- `mapped`, `pts`, `untyped`, `allocs` are the shared address space, its page
  tables, the 4K objects left in the untyped `find_free_untyped` returns, and the
  slots taken from `OBJ_ALLOCATOR`. `test_busybox` fills the allocator with all of
  bootinfo's empty slots, some of which are in use; `FreshSlots` and `TotalSlots`
  are how many pops give an empty slot and a slot at all.
- `forks`, `origin`, `held` are history variables: processes created, what each
  one's parent must find again, and the pages `mmap` returned to each process.

User programs are the environment. A running thread issues any call of `Calls`,
touches an unmapped page or raises an exception at any moment; `Wild` says
whether it uses addresses it does not own, `Nested` whether a child forks. Each
handler of the loop is one action that ends as the code does: `Answer`
(`WriteRegisters` with 18 words, then the reply), `Reply`, a resume of some TCB,
or a `break`. The handlers that only answer share `Emulate(direct, after)`: the
results returned before user memory is touched and those after it, where a page
that is not mapped faults the root itself (`rootfault`), which has no handler; so
may the eight bytes the report of a user exception reads at its address.

Four details are kept because the properties turn on them: the handler reads the
registers of `active_tcb` and not of the sender; the cap fault and kill arms name
`busybox_tcb` whoever faulted (a cap fault whose instruction is no `syscall` is not
patched and gets a plain reply); 18 words leave `FS_BASE` alone; and `seL4_Reply`
puts its tag in `rdi` while the kernel reads `rsi`, so the label of a reply is
whatever `rsi` holds (`ReplyTag`: "zero" is a build in which it happens to be 0,
"undefined" leaves it open).

### FsService and OpenFiles

`fd_table`, `next_fd` and `stores` are the code's; `files` is the image (kind
and length of each path), `alive` is FALSE after a panic (the handler spins for
ever), `resp` the last reply with the request it answers. Each request type has
one action per outcome of its handler. Contents are lengths; a `usize` offset is an
integer whose negative values stand for wrapped ones. The ext4 library is
external: a read or write in range works or, since the mode a file was opened in
is not kept, panics in `unwrap`; one out of range may also do nothing. A write
payload passes through `from_utf8_lossy`, so `Lossy(n)` gives the lengths it may
have.

`OpenFiles` says that a descriptor designates the file it was opened on until it
is closed and is never handed out again. The mapping looks the file of a
descriptor up *through its store index* (`FileOf`), so a store that is reused too
early, or shared, breaks the refinement.

### FsClient

One call of a program goes down the layers as it does in the code: the system
call layer (`sys_read` and its like) answers device descriptors itself, `FsClient`
looks the descriptor up and marshals the request into message registers, the
service decodes them, answers, and the client decodes the answer and updates its
table. A register holds two bytes instead of eight; encoding and decoding
are modelled as what they do to registers, so stale contents of the buffers matter.
What the service does with a request is `FsService`; here it gives any answer its
handlers can give, or panics.

`carried` is the set of registers a call or reply really carries. Client and service
are written for all of them; the wrappers of `sel4-sys` neither load nor
store MR0 to MR3, which the kernel passes in CPU registers. Both are initial states
(`Whole` and not).

### KernelObjects, Runner, Loader

`kern` is one record: the type in every slot, watermark and size of every untyped,
page tables and pages of each address space, frame contents. The operators that
stand for system calls return whether they succeed and the new record; their
conditions are seL4's (a retype needs an empty slot and room, a frame needs a page
table and an empty entry; a batch is at most `RetypeFanOut`). Memory is in units
of 2 KiB. `Runner` and `Loader` have one action per step of the functions that
may fail, in the code's order, and a failing step ends in `failed` with what was
made so far still there, or in `fault` when the root touches a page that is not
mapped. The cell at offset `o` of the file holds `o + 1`, so each loaded cell
tells where it came from and 0 is cleared memory.

The file is not a constant of the copy. It is `include_bytes!` data in the root's own
image (main.rs 847), and both loaders replace pages of the root's address space
while they copy from it (main.rs 139-144, loader.rs 425). The root starts with an
image of its own (`RootImages`: the pages it occupies), the file begins at the cell
`at` of the root's memory (`Far` when it lies in pages nothing replaces), and
`FileCell` reads a byte through the address space as it is at that moment: from the
file while the root's page is in place, and after that from the frame which was
mapped there instead. `Torn` marks a copy whose source page is the page being filled.
Where the linker puts `.rodata` is not in the repository, so both the image and the
place of the file are inputs.

### TaskMem and AddressSpace

`mapped` is the key set of `mapped_page`, `page_data` the cached pages. Loading
places a segment at a time, patches included (four bytes over a two-byte
instruction, in ascending order, found in the file's bytes); a file that `load_elf`
refuses and one whose segment reaches past its bytes, where the slice panics, end in
`LoadRefused` and `SegmentPanics`. `mode` is what the task is
doing; `sys0` is a system call that came in as `UnknownSyscall`, for which the code
passes zero for all arguments, so buffers go to address 0. `AddressSpace`
says what a program may rely on: growing keeps what is there, a store arrives whole
wherever pages end, only a munmap drops cells, and those between two bounds.

### Signals

Every lock is a step where another lock is taken under it or where a value is read
and used later; `pending |= bit` is a read and a write. `credit` and `fired` are
history variables (signals sent and not popped, timers that expired). TASK_MAP is a
constant: nothing in the layer adds or removes tasks while it runs.

## 3. What TLC checks

Passing runs (each takes seconds to three minutes on two workers):

| Run | Shows | States |
|---|---|---|
| `fault_loop` | every fault type and call, wild addresses, nested forks: types; at most one thread is live (`OneRunner`); the root never waits for nobody (`NeverStuck`); `parent_regs.take().unwrap()` is safe (`UnwrapSafe`) | 835 865 |
| `fault_loop_mem` | slots and frames running out, fork disabled: every object taken backs a mapping while the loop runs (`NoDrain`, the claim of the comment at main.rs 1025-1027); a killed program does not run on, even if it ran between reply and suspend (`StoppedMeansStopped`); under fairness every page fault is resolved or the loop ends (`PageFaultEnds`) | 80 319 |
| `fault_loop_fork` | one level of fork, programs that stay in their memory, no cap faults: the parent is suspended while the child runs (`ParentSuspended`); when the child ends the parent has its registers, `FS_BASE` and cursors again (`ForkReturns`); mmap overlaps nothing the process holds (`MmapDisjoint`) | 1 517 435 |
| `fs_service` | all requests: types and disk bound; descriptors and stores one to one (`StoresMatch`); implements `OpenFiles` (`OpenFilesSpec`) | 46 000 |
| `fs_client` | with all registers carried the service understands every request but write's count (`Understood`), the program gets the value, the error and the bytes of a read the service answered (`Answered`), and the two descriptor tables agree between calls (`TablesAgree`) | 459 127 |
| `runner` | wherever root and file lie, a started program has every byte of its segments whose source was not replaced before it was copied (`ImageLoaded`), all the pages it was promised (`StartedComplete`) and the entry state of the ABI (`EntryContract`); creation fails exactly when memory, slots or tables are short (`FailsOnlyWhenShort`) | 27 510 |
| `loader` | the page map names the frame that backs each page (`PageMapTrue`); bytes whose source was in place are loaded and the rest is cleared, the first page of a segment that begins inside it aside (`LoadedExactly`); a started child is configured and has the entry code at its first address (`StartedReady`) | 8 693 |
| `task_mem` | the two maps agree until execve and mapped pages have contents (`Coherent`); mmap finds free pages (`FreeArea`); a patched instruction whose trap lies in one page and has no other in it is recognised (`TrapsRecognised`); the pages implement `AddressSpace` (`AddressSpaceSpec`) | 130 660 |
| `signals` | no update of pending loses another's (`SignalsKept`) or brings a popped signal back (`SentOnce`); no timer is lost (`TimersKept`), early (`NotEarly`) or out of order (`InOrder`); every call returns and every timer fires (`Progress`) | 51 727 |

Runs in which the code disagrees with what the repository says (each is a finding
in `PROJECT.json`):

| Run | Property | What happens |
|---|---|---|
| `fork_cap_fault` | `ParentSuspended` | a cap fault of the child resumes the parent |
| `reply_tag` | `NeverStuck` | a reply whose label is not 0 leaves the thread inactive and the root waits for ever |
| `exec_args` | `ExecArgs` | execve writes argc, argv, envp and auxv over the strings they point to |

`StoppedMeansStopped` holds with fork disabled only: `kill_child` suspends
`busybox_tcb`, so a killed forked child runs on.

### Further disagreements

The passing properties above say what holds and leave out, by name, the cases in
which a comment of the repository promises more than the code does. Each of these
has a property that states the comment's claim and a configuration in which TLC
finds it violated (`tlc -config MCFsStat.cfg MCFsClient`, and so on):

| Configuration | Property | The repository says | What happens |
|---|---|---|---|
| `MCNestedFork` | `ForkReturns` | "Child exiting — restore parent" (main.rs 1575) | a child forks; when the grandchild has ended the child is taken for the first process, its exit ends the loop and the parent is never restored |
| `MCForkBroken` | `NeverStuck` | "Resume child, do NOT resume parent" (main.rs 1239) | the preparation of the child TCB failed half way and fork is enabled all the same: nobody runs, the root waits for ever |
| `MCForkMmap` | `MmapFresh` | "Frames are mapped lazily on first access" (main.rs 1529) | a child maps and touches a page and exits; the parent's next mmap returns that page, still mapped |
| `MCRunnerRodata` | `ImageWhole` | "Copy the file-backed slice into the correct in-page offset" (runner.rs 353) | if the file lies among the pages being loaded, a later segment gets bytes of an earlier page |
| `MCLoaderMidPage` | `SegmentsCopied` | "copy segments to memory" (loader.rs 4) | the offset of a segment's first page wraps if the segment begins inside it; nothing is copied there |
| `MCLoaderShared` | `SharedKept` | the same | the second frame of a page two segments share replaces the first, with the first segment's bytes |
| `MCLoaderIpc` | `IpcDedicated` | "backed by a dedicated frame" (loader.rs 486) | the second stack page is mapped over the IPC buffer |
| `MCLoaderOwn` | `OwnSpaceWorks` | "a dedicated CSpace + VSpace for the child task" (loader.rs 2) | creation fails with slots and memory left, as `create_child_vspace` needs the stack's page table and `create_child_tcb` makes it again |
| `MCTrapSites` | `AllTrapsRecognised` | patched instructions "trigger a user exception that we can intercept" (task/mod.rs 219) | a call two bytes before another, or within three bytes of a page's end, is not recognised |
| `MCExecStale` | `MapsAgree` | "Clear all mapped memory" (mem.rs 125) | contents of the old program stay readable after execve |
| `MCFsStat` | `StatFields` | "Server returns: MR1=mode, MR2=size_lo, ..." (ipc_client.rs 194) | every field is one register later; the mode is the payload's length |
| `MCFsGetdents` | `EntriesArrive` | "MR2+ = payload bytes" (ipc_client.rs 14) | the entries begin at MR3 |
| `MCFsWrite` | `WriteArrives` | "arg3=count, MR2+=data" (ext4-srv/src/main.rs 208) | the payload overwrites its own count |
| `MCFsDevices` | `DevicesOnly` | "Device files - always OK" (syscall/fs.rs 131) | an ordinary file has a device's number, and no close reaches it |
| `MCFsTransport` | `ReplyReturned` | "`(MR0, MR1, MR2)` from the server's reply" (ipc_client.rs 123) | the wrappers do not move MR0 to MR3: the client reads its own request back |

### Bounds

Each bound is a constant.

- Fault loop: `MaxFaults` is the loop's own limit (100000), 3 to 6 here: fork, a
  step of the child, its exit and a step of the parent fit, as do fork, fork by the
  child, exit. Pages are 0 (NULL), 1 (image and stack) and a few for heap and
  mmap; two pages share a page table, and the last table's pages lie under no page
  directory, so mapping directly, mapping with a new page table and failing to map
  all occur. `Frames`, `FreshSlots` and `TotalSlots` are small and different, so
  that each runs out first in some behaviour.
- File service: two stores and two descriptors beyond the reserved three make the
  store table full, reused and shared between stat, access and open. `MaxFd` bounds
  the descriptors handed out (the code's counter never wraps in practice),
  `MaxOff` the positions a seek reaches, `MaxSize` the disk.
- Client: eight registers of two bytes, two local descriptors, the second of which
  has a device's number; paths of no length, of some and of one byte too many;
  payloads of nothing, one and a half registers, and one that fills every register;
  counts within and beyond what a reply holds.
- Task creation: four cells to a page; four pages to a table and twenty pages for
  `Loader`, five and twenty-five for `Runner`, in which the code's regions keep their
  order and sharing (the stack, the page below it and the IPC page in one region, TLS
  and trampoline in another). Files with one and two segments, aligned,
  beginning inside a page, sharing a page, ending in cleared memory, reaching past
  the file, none at all, and one that must be patched (its `reloc_offset` is 4 cells).
  Root images that are not there, lie below the load address, or lie across the pages
  loaded; files in pages left alone (`Far`) and among the pages replaced. Files whose
  segments share cells are not regular, and nothing is claimed of their contents (the
  linker makes none; runner.rs says so of busybox). Memories that are ample, too small at each stage, and split in two untypeds;
  slots enough for the file that reaches the TLS page to start.
- Task memory: nine pages of four cells, two programs (two system calls two bytes
  apart; one at the end of a page), one execve.
- Signals: two tasks, one of which is not in TASK_MAP, three signals, two timers,
  one call besides timers and pops, one tick: each of the locks is contended, and the
  interrupt meets a queue between push and sort.

Model values are used for tasks; symmetry is not, as no two pages, paths, threads or
tasks play the same role.

### Fairness

`FaultLoop!FairSpec` has weak fairness of `RootNext` (the root is a runnable
thread that blocks only in `seL4_Recv`) and of `Retry(t)` (seL4 schedules a
runnable thread, which then repeats the access it was restarted at). Nothing makes
a program issue a call, and nobody need type at the console, so `ReadStdinLine`
has no fairness.

`Signals!FairSpec` has weak fairness of the interrupt and of every actor within a call
(`advance_time` is documented as called from the interrupt handler, and spinning
actors are runnable), and strong fairness of `Sort`: a task that spins for
`TIME_QUEUE` gets it between two interrupts, which a spin lock does not promise
but interrupts a millisecond apart do. Tasks need not call anything.

## 4. What is proved

Each module of proofs defines an inductive invariant `IInv` (or a few, where the
results need different hypotheses), shows that `Init` establishes it and every
action keeps it, one lemma per action or group of actions, and derives the
properties. All hold for every value of the constants that the named assumptions
of the modules allow; TLC evaluates those assumptions in every run.

### Fault loop

`FaultLoopProofs`, for every fault limit, memory size, set of calls and behaviour
of programs, from `ConstantsAssumption`:

- `TypeCorrect` (`TypeOK`): in particular process numbers stay below the limit,
  as a fork costs a fault;
- `OneRunnerHolds` (`OneRunner`): cap faults, nested forks and wild pointers
  included, the two TCBs are never live together;
- `UnwrapSafeHolds` (`UnwrapSafe`);
- `NeverStuckHolds` (`NeverStuck`), assuming `ChildTcb # "broken"` and
  `ReplyTag = "zero"`; the runs above and the text after them show both are needed.

The properties are not inductive. `IInv` adds: `Counters` (how far
`fault_count` and `forks` are, which bounds process numbers), `Serving` (while a
message is handled nobody is live and the caller waits for its reply, which is
why restarting any one thread keeps `OneRunner`), `ForkState` (`is_child`,
`parent_regs` and `active_tcb` change together), and `Tcbs` (which TCBs exist,
which is why a resume really restarts a thread). The proof has a lemma per group of
actions for types (`*Types`) and for control (`*Control`), and combines them in
`IInvStep`.

Its second half builds on that invariant:

- `ParentSuspendedHolds` (`ParentSuspended`) and `ActiveRunsHolds` (the thread
  that runs is `active_tcb`), for programs without cap faults: the run
  `fork_cap_fault` shows that the hypothesis is needed;
- `ChildOnlyHolds`: the child TCB runs, and is served, only between a fork and the
  child's end; from it `StoppedMeansStoppedHolds` (`StoppedMeansStopped`), with fork
  disabled (`ChildTcb # "ready"`), as the run has it;
- `NoDrainHolds` (`NoDrain`), with no hypothesis: wherever the memory or the slots
  run out, an object that is taken backs a mapping while the loop runs;
- `MmapDisjointHolds` (`MmapDisjoint`): the cursor of every process, the suspended
  parent's included, is above all the pages it was given;
- `ForkReturnsHolds` (`ForkReturns`), without cap faults and nested forks: what is
  in `parent_regs` and the saved cursors is what the parent had at the fork, and
  the parent's own registers and `FS_BASE` do not change while it is suspended.

### File service and its client

`FsServiceProofs`, for every store capacity, set of paths and request sequence,
from `FsAssumption`:

- `FsTypeCorrect` (`TypeOK`) and `StoresMatchHolds` (`StoresMatch`): the two are
  inductive together;
- `FsImplementsOpenFiles` (`OpenFilesSpec`): initial states map to initial states
  and every step to an open, a close or a stutter. `StoresMatch` is what makes the
  mapping stable: opening fills a store no descriptor uses, closing empties one no
  other descriptor uses.

`FsClientProofs`, for every number of message registers, every path and payload
of bytes and every stale buffer, from `FsClientConstants`:

- `TypeCorrect` (`TypeOK`);
- `UnderstoodHolds` (`Understood`) and `AnsweredHolds` (`Answered`): decoding is a
  left inverse of encoding on both ways, which rests on lemmas about packing bytes
  into registers (which register and place a byte goes to, and that reading them
  back gives the byte);
- `TablesAgreeHolds` (`TablesAgree`): between calls the client's table is injective into the
  service's open descriptors; during a call the invariant says which descriptor the
  message in flight is about to add or remove.

The attempt to prove the type invariant corrected the model of a reply: a
directory listing that fills the buffer is one register longer than a message, and
`write_mr` silently drops that register (ext4-srv/src/main.rs 284-290, 307-313).
`len` now ranges to `NMR + 1`, and a payload and a count of that size are among the
inputs of the run.

### Signals and timers

`SignalsProofs`, for every number of tasks, signals, timers and calls and every
interleaving of tasks and the interrupt, from `SignalsConstants`:

- `SignalsTypeCorrect` (`TypeOK`): the walk of `handle_timer` stays within the
  queue although entries leave it on the way;
- `SignalsKeptHolds` (`SignalsKept`): no update of pending overwrites another's;
- `SentOnceHolds` (`SentOnce`): a signal that is pending was sent more often than
  it was popped, so no update brings a popped one back (the top signal aside, which
  `tkill` with 0 raises); the invariant counts the actors that have sent and not yet
  set their bit;
- `TimersKeptHolds` (`TimersKept`) and `NotEarlyHolds` (`NotEarly`): no timer is
  lost, doubled or early;
- `InOrderHolds` (`InOrder`): the queue is sorted whenever nobody is between push
  and sort.

Its `IInv` adds `LocksHeld` (the holder of TASK_MAP is the only actor between
lookup and update; what it read of pending is still there, as it holds the task's
signal lock), `TimerScan` (`handle_timer` holds TIME_QUEUE while it walks, and the
entry it signals for is in the queue and due, which is what `NotEarly` needs) and
`TimerIds` (timers are numbered as they are set, so that a new one is neither in
the queue nor expired). The lemmas before it say what the two operations on the
queue do: `SortedQueue` (the ranks of entries are a permutation, by
counting) and `WithoutEntry`. `QueueBound` is the pigeonhole argument that bounds
the walk.

### Task memory

`TaskMemProofs`, for every program, page size and sequence of memory calls, from
the module's assumptions, of which `AddressesFit` says that programs and arguments
lie in the pages modelled:

- `TypeCorrect` (`TypeOK`), `CoherentHolds` (`Coherent`), `FreeAreaHolds`
  (`FreeArea`) and `TrapsRecognisedHolds` (`TrapsRecognised`): what is patched later
  does not reach a trap that has four bytes of one page to itself, also where the trap
  runs past its segment;
- `AddressSpaceHolds` (`AddressSpaceSpec`): mapping a page, a store that crosses
  pages, brk, mmap and munmap are steps of the flat array or leave it alone.
  `Coherent` is what makes the mapping a function of the pages.

### Loader

`KernelProofs` states once what each operator of `KernelObjects` does, as a
predicate on its result (`Retyped`, `Made`, `TableMapped`, `FrameMapped`,
`StoredAt`, `FrameMade`): a retype fills empty slots from within the untyped or
changes nothing, a mapping changes one entry, a store one frame.

`LoaderProofs`, for every file, memory, layout and number of slots, from
`LoaderInputs` (headers and untypeds are of their types, and what is loaded lies
in the pages modelled):

- `TypeCorrect` (`TypeOK`): no untyped is carved beyond its end, no loop runs past
  its pages;
- `PageMapTrueHolds` (`PageMapTrue`);
- `LoadedExactlyHolds` (`LoadedExactly`): cell by cell, the bytes of a regular
  file that were still in place when they were copied, wherever the file lies, and
  the cells that are cleared;
- `StartedReadyHolds` (`StartedReady`).

`IInv` adds to the types: which address space the child has and that one of its own
has the stack's page table once it has a stack page (`SpaceInv`); the stack pages and
the TCB that are there before the start (`TaskInv`); that the frames of the image are
distinct and the first `done` of them back their pages with their bytes (`LoadInv`);
and that in the root's own space the pages replaced are those of the first `done`
(`PageMapInv`), so that a byte of the file outside them is still the root's. `WalkFacts` says that the walk over segments lists every page of every
segment once, `CellFacts` and `CellBytes` do the arithmetic of one cell.

### Runner

`RunnerProofs`, for every file, list of arguments, memory, number of slots and set
of page tables the root starts with:

- `TypeCorrect` (`TypeOK`): no loop runs past its pages, no batch past its slots;
- `StartedCompleteHolds` (`StartedComplete`): when the task starts, its image, its
  stack, the TLS page and the trampoline are backed and the frame at the IPC page is
  the one the TCB was told;
- `ImageLoadedHolds` (`ImageLoaded`): wherever root and file lie, every byte of every
  segment of a regular file whose source was not replaced before it was copied is in
  place, and exactly the patched immediates are relocated;
- `EntryContractHolds` (`EntryContract`): however long the arguments are, a task that
  starts has its first stack frame in the stack that was mapped for it;
- `FailsOnlyWhenShortHolds` (`FailsOnlyWhenShort`): the function returns `None` only
  when memory, slots or page tables are short, and starts a task only when they are
  not.

Assumed of the constants: `RunnerConstants` (types; a page is a multiple of 16
bytes), `RunnerInputs` (headers, arguments and untypeds are of their types and what
is loaded lies in the pages modelled), `RunnerImages` (the root's image ends below the
stack's region, as benchmark.rs 13 has it), `RunnerMemory` (the untypeds are unused:
nothing `main` calls before `test_busybox` retypes anything; needed by
`FailsOnlyWhenShort` only) and `RunnerLayout`, which the addresses of the
code satisfy: the stack (0xF10000 and 32 pages below it), the page below that and the
IPC page (0xF11000) lie in the region of one page table (0xE00000), and the load
address (0x400000), TLS (0x720000) and trampoline (0x730000) in others.

The invariant, part by part:

- `Sound`: a capability of a frame knows the page it is mapped at, and an empty slot
  is mapped nowhere. Two pages therefore never share a frame, though every slot is on
  the allocator's stack twice: a slot that is popped a second time is not empty, and
  the retype fails. This is what makes a store to one page leave the others alone.
  `Keeps` is the corresponding statement about a step, shown once for each system
  call and used for all the later steps.
- `TableInv`: `create_user_task` gives up when the stack's region already has a page
  table, so none of the image's regions is the stack's, and the page below the stack
  is never mapped. An argument frame that reaches below the stack would have to
  touch it (`GuardArgument`): the root faults instead of starting the task.
- `PagesInv` and `ImageInv`: which pages are backed at each stage, and what is in
  the pages of a regular file, before and after the patch.
- `RootInv`: the frames mapped over the root are those of the pages loaded so far;
  a byte of the file whose page is not among them is intact when it is copied.
- `InfosFacts`: the page plan lists every page of every segment exactly once, with
  the bytes of the first segment that has it.

Two things came out of the attempt. `EntryContract` rests on the page below the
stack being under the stack's page table, which the code's addresses have and the
instance checked before did not (there the argument frame simply never was that
long); it is now an assumption, and the instance has it. And the regions without a
table were written without the parentheses that make the set difference apply to the
whole union rather than leave it to each parser.

`FailsOnlyWhenShort` has an invariant of its own, `AInv`, on top of the one above,
that keeps the account of memory and slots:

- `Spent(k, s, b)`: of the two untypeds (which may be one) exactly `s` units are used
  for the task's own objects and `b` for its image. Every object after endpoint and
  TCB is of two units, so alignment wastes nothing and the sums are exact
  (`MakeExact`, `BatchExact`, `TableExact`, `FrameExact`).
- `Taken(k, q)` and `OnStack(recycled, q)`: the first `q` slots after the six fixed
  ones are in use, the others empty, and the allocator's stack is what is left of the
  two lists pushed on it after `q` pops. The next slot popped is then the first
  empty one; when there is none, the second copy of a used slot comes up and the
  retype fails (`TopSlot`). The slots of a batch follow each other for the same reason
  (`FrameSlotAt`).
- `StageInv` says which sums hold at each stage, with the number of tables made, pages
  planned and stack pages mapped so far; `TableCount` and `PageCount` relate those
  to the regions and pages the file needs.
- `Doomed`: the retype of the table for the load address is not checked. If it
  fails, there was no memory for it, or it took the last slot, which is the one meant
  for the stack's table; either way the stack's table cannot be made later, and the
  function fails there. `pt_extra` is therefore a stage with two cases: the account
  is exact, or the function is doomed and something was short.
- `RegionsInv`, `CapsInv` and `FramesInv`: tables, fixed slots and the frames of the
  image are there when they are used, so neither the mapping of a page of the image nor
  the configuration of the TCB ever fails.

### Recursive functions

`Walk`, `LoadHeaders`, the page plan `Infos` and the string addresses `DataAddr` are
recursive functions. The library's induction theorems take the property as an
operator, which the provers cannot instantiate; `SetInduction` (of `KernelProofs`,
from the least element of a set of naturals) takes it as a set instead, and gives both
that such a function exists and what it computes.

### Only model-checked

The liveness properties `PageFaultEnds` and `Progress`: liveness under fairness is
beyond the prover. Every invariant and every action property of the passing runs is a
theorem.

## 5. Not modelled

- Block device and `Ext4Disk`: reads and writes of a fixed array below the ext4
  library, which is external. Contents of files are lengths in `FsService`.
- Pipes and the devfs objects: no system call creates or uses them. The device
  numbers the system call layer answers itself are part of `FsClient`; UART and
  consoles are I/O.
- `common/slot.rs` (`SLOT_MANAGER`) as an allocator of its own: it counts upward
  and nothing is ever recycled into it. The allocator tasks are made from,
  `OBJ_ALLOCATOR`, is in `KernelObjects` and `FaultLoop`.
- `lcl/src/task/init.rs`: a second way to set up a stack and a TCB that nobody calls.
- `rt_sigaction` (copies a handler address nobody reads), `WaitTime` entries
  (never pushed), futexes (stubs).
- What replacing its pages does to the root's own code, data and strings: only the
  bytes of the file are followed. Where the linker puts `.rodata` is an input.
- Registers in the fault handlers of `lcl`, beyond what the properties of `TaskMem`
  need; the arguments `unknown_syscall` passes are the zeros it really passes.
- The 1 MB bump heap of ext4-srv, which never frees: only the panic it ends in.
- Boot, self tests, benchmarks, printing, trait declarations and constants.

What the models show beside the properties, for whoever works on the code:

- `kill_child` suspends `busybox_tcb`: a forked child that is killed runs on.
- The root dereferences user pointers itself and faults on a page that is only
  lazily mapped.
- `access` answers ENOENT when the store table is full.
- `wait4` answers `child_pid` whether or not a child exists or was waited for.
- `handle_vmfault` of `lcl` resumes the task with zero registers.
