------------------------------ MODULE TaskMem ------------------------------
(***************************************************************************)
(* The memory of one task of the Linux compatible layer (lcl/src/task/     *)
(* mod.rs and mem.rs) and the handlers that change it: load_elf, the fault *)
(* handlers of exception.rs, brk, mmap and munmap (syscall/mm.rs), execve  *)
(* (syscall/exec.rs), exit, and the system calls that fill a buffer.       *)
(*                                                                         *)
(* mapped is the key set of mapped_page, page_data the cached contents;    *)
(* the two are separate maps in the code and drift apart at execve.  A     *)
(* page has PageCells cells.  A pointer, an argument string and a byte of  *)
(* code are a cell each.                                                   *)
(***************************************************************************)
EXTENDS Integers, Sequences, FiniteSets

CONSTANTS PageCells, LastPage,
          MMAP_BASE, EXEC_BASE, EXEC_STACK, HEAP,  \* page numbers
          Programs,     \* the ELF files: sequences of [vaddr, data, memsz]
          Buffers,      \* what system calls write: [addr, data]
          Breaks, MmapArgs, Lengths,
          Faults,       \* the pages a task may fault on
          MaxExecs      \* bound on the number of execve calls

ASSUME TaskMemConstants ==
  /\ PageCells \in Nat \ {0} /\ LastPage \in Nat
  /\ {MMAP_BASE, EXEC_BASE, EXEC_STACK, HEAP} \subseteq 0..LastPage
  /\ MaxExecs \in Nat /\ Faults \subseteq 0..LastPage
  /\ Breaks \subseteq Nat /\ MmapArgs \subseteq Nat /\ Lengths \subseteq Nat

VARIABLES mode,       \* what the task or its handler is doing
          mapped, page_data, heap,
          vm_end,     \* task_vm_end, a page number
          tid_addr,   \* clear_child_tid
          todo,       \* segments a load has still to place
          execs       \* execve calls so far that got as far as clear_mapped
mem  == <<mapped, page_data>>
vars == <<mode, mapped, page_data, heap, vm_end, tid_addr, todo, execs>>

Pages == 0..LastPage
Cells == 0..(PageCells - 1)
Addrs == 0..((LastPage + 1) * PageCells - 1)
NoPage == <<>>
ZeroPage == [c \in Cells |-> 0]
PageOf(addr) == addr \div PageCells
\* Mutant: the end is rounded up to the page after.
PageSpan_Beyond(addr, len) == PageOf(addr)..PageOf(addr + len + PageCells - 1)

\* The pages of addr .. addr+len-1, whole pages as the code rounds them.
PageSpan(addr, len) == PageOf(addr)..(PageOf(addr + len + PageCells - 1) - 1)

HasData(p) == p \in Pages /\ page_data[p] # NoPage
Cached == {p \in Pages : HasData(p)}
CellOf(a) == page_data[PageOf(a)][a % PageCells]

(***************************************************************************)
(* Sel4Task: mapping, reading and writing.                                 *)
(***************************************************************************)
\* Mutant: a page that is there is replaced by a blank one.
Blank_Insert(pd, S) == [p \in Pages |-> IF p \in S THEN ZeroPage ELSE pd[p]]

\* map_blank_page_simple, for a set of pages: what is cached is kept.
Blank(pd, S) == [p \in Pages |-> IF p \in S /\ pd[p] = NoPage THEN ZeroPage ELSE pd[p]]

MapBlank(S) == mapped' = mapped \cup S /\ page_data' = Blank(page_data, S)

\* write_bytes: page after page; only a page that was not cached is entered
\* in mapped_page.
Touched(addr, data) == {PageOf(addr + i - 1) : i \in DOMAIN data}
Written(pd, addr, data) ==
  [p \in Pages |->
     IF p \in Touched(addr, data)
     THEN [c \in Cells |-> LET i == p * PageCells + c - addr + 1 IN
             IF i \in DOMAIN data THEN data[i]
             ELSE IF pd[p] = NoPage THEN 0 ELSE pd[p][c]]
     ELSE pd[p]]
\* Mutant: the page is cached and not entered in mapped_page.
NewlyMapped_None(pd, addr, data) == {}

NewlyMapped(pd, addr, data) == {p \in Touched(addr, data) : pd[p] = NoPage}
write_bytes(addr, data) ==
  /\ page_data' = Written(page_data, addr, data)
  /\ mapped' = mapped \cup NewlyMapped(page_data, addr, data)

\* read_bytes_u32: the bytes up to the end of the page, zeros after it.
read_u32(pd, addr) ==
  [i \in 1..4 |-> IF PageOf(addr + i - 1) = PageOf(addr)
                  THEN pd[PageOf(addr)][(addr + i - 1) % PageCells] ELSE 0]

\* Mutant: the search starts over at the first key it finds room after, one
\* page too early.
find_free_area_Early(start, n) ==
  IF mapped = {} THEN (IF vm_end > start THEN vm_end ELSE start)
  ELSE CHOOSE k \in mapped : \A j \in mapped : j > k => k + n <= j

\* The keys in ascending order; the candidate is the end of the last key
\* looked at, also when that lies below start and task_vm_end.
find_free_area(start, n) ==
  LET last == IF vm_end > start THEN vm_end ELSE start
      Gaps == {k \in mapped : \A j \in mapped : j > k => k + 1 + n <= j}
  IN IF \A j \in mapped : last + n <= j THEN last
     ELSE 1 + (CHOOSE k \in Gaps : \A j \in Gaps : k <= j)

(***************************************************************************)
(* load_elf.  A segment's pages are mapped, its bytes written, and every   *)
(* syscall instruction found in the file's bytes overwritten by a trap of  *)
(* four bytes -- two more than the instruction has.                        *)
(***************************************************************************)
SyscallOp == <<15, 5>>
TrapInst  == <<239, 190, 173, 222>>
SyscallAt(data, j) == j + 1 \in DOMAIN data /\ <<data[j], data[j + 1]>> = SyscallOp

\* Mutant: only the two bytes of the instruction are overwritten.
Patched_Two(data) ==
  [i \in DOMAIN data |-> IF SyscallAt(data, i) THEN TrapInst[1]
                         ELSE IF i > 1 /\ SyscallAt(data, i - 1) THEN TrapInst[2] ELSE data[i]]

\* The patches are applied in ascending order: the last one covering a byte
\* wins, and one at the very end reaches past the data.
Sites(data) == {j \in DOMAIN data : SyscallAt(data, j)}
Over(data, i) == {j \in Sites(data) : j <= i /\ i <= j + 3}
Last(S) == CHOOSE j \in S : \A k \in S : k <= j
PatchedLen(data) ==
  IF \E j \in Sites(data) : j + 3 > Len(data) THEN Last(Sites(data)) + 3 ELSE Len(data)
Patched(data) ==
  [i \in 1..PatchedLen(data) |->
     IF Over(data, i) # {} THEN TrapInst[i - Last(Over(data, i)) + 1] ELSE data[i]]

\* One segment; data is what ends up in memory.
Place(vaddr, memsz, data) ==
  LET S == PageSpan(vaddr, memsz)
      blank == Blank(page_data, S)
  IN /\ page_data' = Written(blank, vaddr, data)
     /\ mapped' = mapped \cup S \cup NewlyMapped(blank, vaddr, data)

SegEnd(s) == s.vaddr + s.memsz

Init ==
  /\ mode = "boot"
  /\ mapped = {} /\ page_data = [p \in Pages |-> NoPage]
  /\ heap = HEAP * PageCells /\ vm_end = 0 /\ tid_addr = 0
  /\ todo \in Programs /\ execs = 0

LoadSegment ==
  /\ mode = "boot" /\ todo # <<>>
  /\ LET s == Head(todo) IN
       /\ Place(s.vaddr, s.memsz, Patched(s.data))
       /\ vm_end' = LET e == PageOf(SegEnd(s) + PageCells - 1)
                    IN IF e > vm_end THEN e ELSE vm_end
  /\ todo' = Tail(todo)
  /\ UNCHANGED <<mode, heap, tid_addr, execs>>

\* load_elf answers None for a file that is too short, is no ELF file or is not of
\* 64 bits, before it touches the task: there is nothing to run.
LoadRefused ==
  /\ mode = "boot" /\ mapped = {}
  /\ mode' = "stuck"
  /\ UNCHANGED <<mem, heap, vm_end, tid_addr, todo, execs>>

\* A segment's bytes are said to lie outside the file: its pages are mapped by then,
\* and the slice panics.  load_elf_segments does the same during execve.
SegmentPanics ==
  /\ mode \in {"boot", "exec"} /\ todo # <<>> /\ Head(todo).data # <<>>
  /\ MapBlank(PageSpan(Head(todo).vaddr, Head(todo).memsz))
  /\ mode' = "stuck"
  /\ UNCHANGED <<heap, vm_end, tid_addr, todo, execs>>

LoadDone ==
  /\ mode = "boot" /\ todo = <<>>
  /\ mode' = "user"
  /\ UNCHANGED <<mem, heap, vm_end, tid_addr, todo, execs>>

(***************************************************************************)
(* exception.rs.  A trap makes the handler emulate a call with the         *)
(* program's arguments; a syscall instruction that was never patched       *)
(* reaches handle_unknown_syscall, which knows the number only; any other  *)
(* exception is printed and the task is never resumed.                     *)
(***************************************************************************)
UserException ==
  /\ mode = "user"
  /\ \E ip \in Addrs : HasData(PageOf(ip)) /\ read_u32(page_data, ip) = TrapInst
  /\ mode' = "sys"
  /\ UNCHANGED <<mem, heap, vm_end, tid_addr, todo, execs>>

UnhandledException ==
  /\ mode = "user"
  /\ mode' = "stuck"
  /\ UNCHANGED <<mem, heap, vm_end, tid_addr, todo, execs>>

UnknownSyscall ==
  /\ mode = "user"
  /\ \E ip \in Addrs : /\ HasData(PageOf(ip)) /\ HasData(PageOf(ip + 1))
                       /\ <<CellOf(ip), CellOf(ip + 1)>> = SyscallOp
  /\ mode' = "sys0"
  /\ UNCHANGED <<mem, heap, vm_end, tid_addr, todo, execs>>

handle_vmfault ==
  /\ mode = "user"
  /\ \E p \in Faults : MapBlank({p})
  /\ UNCHANGED <<mode, heap, vm_end, tid_addr, todo, execs>>

Return == mode' = "user"

(***************************************************************************)
(* System calls.                                                           *)
(***************************************************************************)
sys_brk(new) ==
  /\ mode = "sys" /\ new # 0
  /\ heap' = new
  /\ MapBlank(IF new > heap THEN PageSpan(heap, new - heap) ELSE {})
  /\ Return /\ UNCHANGED <<vm_end, tid_addr, todo, execs>>

sys_mmap(addr, len) ==
  /\ mode = "sys"
  /\ LET n     == (len + PageCells - 1) \div PageCells
         start == IF addr = 0 THEN find_free_area(MMAP_BASE, n) ELSE PageOf(addr)
     IN /\ start + n - 1 <= LastPage                     \* bound of the model
        /\ MapBlank(start..(start + n - 1))
  /\ Return /\ UNCHANGED <<heap, vm_end, tid_addr, todo, execs>>

sys_munmap(addr, len) ==
  /\ mode = "sys"
  /\ mapped' = mapped \ PageSpan(addr, len)
  /\ page_data' = [p \in Pages |-> IF p \in PageSpan(addr, len) THEN NoPage ELSE page_data[p]]
  /\ Return /\ UNCHANGED <<heap, vm_end, tid_addr, todo, execs>>

\* read, fstat, uname, getdents64, clock_gettime ...: the kernel's answer goes
\* to the address the program gave, mapped or not; without the arguments, to
\* address 0.
SysFill(b) ==
  /\ mode \in {"sys", "sys0"}
  /\ write_bytes(IF mode = "sys" THEN b.addr ELSE 0, b.data)
  /\ Return /\ UNCHANGED <<heap, vm_end, tid_addr, todo, execs>>

sys_set_tid_address(addr) ==
  /\ mode = "sys"
  /\ tid_addr' = addr
  /\ Return /\ UNCHANGED <<mem, heap, vm_end, todo, execs>>

\* exit_with: the word at clear_child_tid is cleared unless its address is 0.
sys_exit ==
  /\ mode \in {"sys", "sys0"}
  /\ IF tid_addr = 0 THEN UNCHANGED mem ELSE write_bytes(tid_addr, <<0>>)
  /\ mode' = "exited"
  /\ UNCHANGED <<heap, vm_end, tid_addr, todo, execs>>

\* Every other call, every failing one, and brk, mmap and munmap with all
\* arguments 0, as handle_unknown_syscall passes them.
SysOther ==
  /\ mode \in {"sys", "sys0"}
  /\ Return /\ UNCHANGED <<mem, heap, vm_end, tid_addr, todo, execs>>

SetTidZero ==
  /\ mode = "sys0"
  /\ tid_addr' = 0
  /\ Return /\ UNCHANGED <<mem, heap, vm_end, todo, execs>>

(***************************************************************************)
(* execve.  clear_mapped empties mapped_page and leaves page_data; the     *)
(* segments are moved so that the lowest lies at EXEC_BASE and are not     *)
(* patched.                                                                *)
(***************************************************************************)
Lowest(prog) == LET V == {prog[i].vaddr : i \in DOMAIN prog}
                IN CHOOSE v \in V : \A w \in V : v <= w
Relocated(prog) ==
  [i \in DOMAIN prog |-> [prog[i] EXCEPT !.vaddr = @ - Lowest(prog) + EXEC_BASE * PageCells]]

ExecClear ==
  /\ \/ mode = "sys"
     \/ mode = "sys0" /\ HasData(0) /\ CellOf(0) # 0  \* the path is read at 0
  /\ execs < MaxExecs
  /\ \E prog \in Programs : prog # <<>> /\ todo' = Relocated(prog)
  /\ mapped' = {}
  /\ mode' = "exec" /\ execs' = execs + 1
  /\ UNCHANGED <<page_data, heap, vm_end, tid_addr>>

ExecSegment ==
  /\ mode = "exec" /\ todo # <<>>
  /\ Place(Head(todo).vaddr, Head(todo).memsz, Head(todo).data)
  /\ todo' = Tail(todo)
  /\ UNCHANGED <<mode, heap, vm_end, tid_addr, execs>>

\* setup_stack with args = ["busybox"] and envp = ["PATH=/usr/bin:/bin"]: the
\* strings take one and three words and are written upward from sp; then the
\* auxiliary vector, the envp and the argv arrays and argc are written downward
\* from the end of the strings.  Word i is at ExecSp + i.
ExecSp   == EXEC_STACK * PageCells
Busybox  == 10
EnvWords == <<20, 21, 22>>
ArgWords == 1
Strings  == <<Busybox>> \o EnvWords
StrEnd   == ArgWords + Len(EnvWords)                   \* 27 bytes, rounded up to 32
\* Where the arrays end: str_ptr.
ArrayTop == StrEnd
AuxAt    == ArrayTop - 2
EnvpAt   == AuxAt - 2
ArgvAt   == EnvpAt - 2
ArgcAt   == ArgvAt - 1
Pointer(i) == 100 + i                                  \* the address ExecSp + i
StackWord(i) ==
  CASE i \in AuxAt..(AuxAt + 1)  -> 0
    [] i = EnvpAt                -> Pointer(ArgWords)
    [] i = EnvpAt + 1            -> 0
    [] i = ArgvAt                -> Pointer(0)
    [] i = ArgvAt + 1            -> 0
    [] i = ArgcAt                -> 1
    [] OTHER                     -> Strings[i + 1]
StackImage == [addr |-> ExecSp + ArgcAt,
               data |-> [n \in 1..(StrEnd - ArgcAt) |-> StackWord(ArgcAt + n - 1)]]

\* Bound of the model: what programs, moved or not, buffers, breaks and the stack
\* of execve occupy lies in Addrs; a trap reaches at most two cells past the file.
Within(addr, len) == addr \in Nat /\ len \in Nat /\ addr + len <= (LastPage + 1) * PageCells
ASSUME AddressesFit ==
  /\ \A b \in Breaks : Within(b, 0)
  /\ \A b \in Buffers : /\ b \in [addr : Nat, data : Seq(Nat)]
                        /\ Within(b.addr, Len(b.data)) /\ Within(b.addr, 1)
  /\ \A prog \in Programs :
       /\ prog \in Seq([vaddr : Nat, data : Seq(Nat), memsz : Nat])
       /\ \A i \in DOMAIN prog :
            /\ Within(prog[i].vaddr, prog[i].memsz)
            /\ Within(prog[i].vaddr, Len(prog[i].data) + 2)
            /\ \A j \in DOMAIN prog :
                 LET moved == prog[i].vaddr - prog[j].vaddr + EXEC_BASE * PageCells IN
                 prog[j].vaddr <= prog[i].vaddr =>
                   Within(moved, prog[i].memsz) /\ Within(moved, Len(prog[i].data))
  /\ Within(StackImage.addr, StrEnd - ArgcAt)

ExecStack ==
  /\ mode = "exec" /\ todo = <<>>
  /\ write_bytes(StackImage.addr, StackImage.data)
  /\ Return /\ UNCHANGED <<heap, vm_end, tid_addr, todo, execs>>

Ended == mode \in {"stuck", "exited"} /\ UNCHANGED vars

Next ==
  \/ LoadSegment \/ LoadRefused \/ SegmentPanics \/ LoadDone
  \/ UserException \/ UnhandledException \/ UnknownSyscall \/ handle_vmfault
  \/ \E new \in Breaks : sys_brk(new)
  \/ \E addr \in MmapArgs, len \in Lengths : sys_mmap(addr, len) \/ sys_munmap(addr, len)
  \/ \E b \in Buffers : SysFill(b) \/ sys_set_tid_address(b.addr)
  \/ sys_exit \/ SysOther \/ SetTidZero
  \/ ExecClear \/ ExecSegment \/ ExecStack
  \/ Ended

Spec == Init /\ [][Next]_vars

(***************************************************************************)
(* Properties.                                                             *)
(***************************************************************************)
TypeOK ==
  /\ mode \in {"boot", "user", "sys", "sys0", "exec", "stuck", "exited"}
  /\ mapped \subseteq Pages
  /\ \A p \in Pages : page_data[p] = NoPage \/ page_data[p] \in [Cells -> Int]
  /\ heap \in Nat /\ vm_end \in Nat /\ tid_addr \in Nat /\ execs \in 0..MaxExecs

\* A mapped page always has contents, and until the first execve the two maps
\* have the same keys, through every order of brk, mmap, munmap, faults and
\* writes to unmapped buffers (mod.rs 117-123, 180-201; mm.rs 48-59).
Coherent == /\ mapped \subseteq Cached
            /\ execs = 0 => mapped = Cached

\* "Clear all mapped memory" (mem.rs 125): the two maps agree once execve is done as
\* well.  clear_mapped leaves page_data, so what the old program had at an address
\* is still read there.
MapsAgree == mode = "user" => mapped = Cached

\* mmap without an address never takes a page that is mapped, although the
\* search walks back below its starting point (mod.rs 204-214); until the
\* first execve the area has no old contents either.
FreeArea ==
  [][\A len \in Lengths : sys_mmap(0, len) =>
       LET n == (len + PageCells - 1) \div PageCells
           start == find_free_area(MMAP_BASE, n)
       IN /\ start..(start + n - 1) \cap mapped = {}
          /\ execs = 0 => start..(start + n - 1) \cap Cached = {}]_vars

\* The call at byte j of a loaded segment is a trap that handle_user_exception
\* recognises.
Recognised(s, j) == read_u32(page_data', s.vaddr + j - 1) = TrapInst

\* load_elf turns a syscall instruction of the file into a trap that
\* handle_user_exception recognises whenever the trap's four bytes lie in one page
\* and no other such instruction begins among them, also where the trap runs past
\* the end of the segment's bytes or of its pages (mod.rs 266-279;
\* exception.rs 57-60).
TrapsRecognised ==
  [][LoadSegment => LET s == Head(todo) IN
       \A j \in DOMAIN s.data :
         LET ip == s.vaddr + j - 1 IN
         /\ SyscallAt(s.data, j)
         /\ PageOf(ip) = PageOf(ip + 3)
         /\ ~\E k \in (j + 1)..(j + 3) : SyscallAt(s.data, k)
         => Recognised(s, j)]_vars

\* "patches `syscall` instructions (0x0f05) to `0xdeadbeef` so they trigger a user
\* exception that we can intercept as syscalls" (mod.rs 218-219): every one of them.
\* The code misses those whose trap crosses a page, which read_bytes_u32 does not,
\* and those the next trap is written over.
AllTrapsRecognised ==
  [][LoadSegment => LET s == Head(todo) IN
       \A j \in DOMAIN s.data : SyscallAt(s.data, j) => Recognised(s, j)]_vars

\* What may be stored: segments, patched or moved, buffers, the cleared word
\* and the stack of execve.
ProgStores(prog) ==
  {[addr |-> prog[i].vaddr, data |-> Patched(prog[i].data)] : i \in DOMAIN prog}
  \cup {[addr |-> Relocated(prog)[i].vaddr, data |-> prog[i].data] : i \in DOMAIN prog}
AllStores ==
  Buffers \cup {[b EXCEPT !.addr = 0] : b \in Buffers}
  \cup {StackImage} \cup {[addr |-> b.addr, data |-> <<0>>] : b \in Buffers}
  \cup UNION {ProgStores(prog) : prog \in Programs \ {<<>>}}
Space == INSTANCE AddressSpace WITH
  Absent <- -1, Stores <- AllStores,
  cells <- [a \in Addrs |-> IF HasData(PageOf(a)) THEN CellOf(a) ELSE -1]

\* The pages implement a flat address space: growing it never clears what a
\* task has stored, and a buffer that crosses pages arrives whole.
AddressSpaceSpec == Space!Spec

\* argv[0] of a program started by execve is its name: "Set up stack with
\* argc, argv, envp" (exec.rs 146).  The arrays are written over the strings.
ExecArgs == [][ExecStack => page_data'[PageOf(ExecSp)][ExecSp % PageCells] = Busybox]_vars
=============================================================================
