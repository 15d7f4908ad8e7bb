------------------------------- MODULE Runner -------------------------------
(***************************************************************************)
(* create_user_task (lcl/src/task/runner.rs): the root task loads an ELF   *)
(* program into its own address space, gives it a stack, an IPC buffer, a  *)
(* TLS page and a TCB, and starts it.  One action per step of the function *)
(* that may fail; a step that fails returns None and leaves behind what    *)
(* the earlier ones made.  Before the call test_busybox has pushed every   *)
(* empty slot on OBJ_ALLOCATOR, and the function pushes most of them       *)
(* again.                                                                  *)
(*                                                                         *)
(* Addresses are in cells, PageCells to a page, and the contents of cell o *)
(* of the file is the number o + 1, so that 0 is a cleared cell.  The file *)
(* lies in the root's own image, whose pages the function maps over        *)
(* without asking.  The layout of the first stack frame is in bytes,       *)
(* relative to STACK_VADDR.                                                *)
(***************************************************************************)
EXTENDS KernelObjects

CONSTANTS LOAD_BASE, TLS_BASE, TRAMPOLINE, STACK, IPC_BUF,  \* page numbers
          STACK_EXTRA_PAGES,
          BigUnits,        \* size of the untyped asked for with find_free_untyped(21)
          BusyboxEntry,    \* the e_entry whose code is patched
          PatchCells,      \* offsets of the patched immediates from the entry
          PageBytes,       \* bytes of a page, for the stack layout
          Elves, ArgLists, Memories,
          RootTables, RootImages  \* regions with a table, pages of the root's image

ASSUME RunnerConstants ==
  /\ {LOAD_BASE, TLS_BASE, TRAMPOLINE, STACK, IPC_BUF} \subseteq Pages
  /\ STACK_EXTRA_PAGES \in 0..(STACK - 1) /\ BigUnits \in Nat \ {0}
  /\ PageBytes \in Nat \ {0} /\ PageBytes % 16 = 0
  /\ BusyboxEntry \in Nat /\ PatchCells \subseteq Nat

\* The page below the stack.
GuardPage == STACK - (STACK_EXTRA_PAGES + 1)

\* The addresses in the code: the stack, the page below it and the IPC buffer
\* share a page table (0xE00000), the other pages lie in other regions.
ASSUME RunnerLayout ==
  /\ \A p \in (GuardPage..STACK) \cup {IPC_BUF} : Region(p) = Region(STACK)
  /\ IPC_BUF \notin GuardPage..STACK
  /\ \A p \in {LOAD_BASE, TLS_BASE, TRAMPOLINE} : Region(p) # Region(STACK)
  /\ TLS_BASE # TRAMPOLINE

\* What is loaded lies, moved to LOAD_BASE, in the pages modelled.
ASSUME RunnerInputs ==
  /\ \A e \in Elves :
       /\ e.magic \in BOOLEAN /\ e.entry \in Nat /\ e.len \in Nat /\ e.at \in Nat
       /\ e.phdrs \in Seq(Headers) /\ e.readable \in 0..Len(e.phdrs)
       /\ \A i, j \in DOMAIN e.phdrs : e.phdrs[i].load /\ e.phdrs[j].load =>
            LOAD_BASE * PageCells + (e.phdrs[i].vaddr - e.phdrs[j].vaddr) + e.phdrs[i].memsz
              <= (LastPage + 1) * PageCells
  /\ ArgLists \subseteq Seq(Nat) /\ Memories \subseteq Seq(Untypeds)

\* The root's image ends below the region of the stack.
ASSUME RunnerImages == \A image \in RootImages : \A p \in image :
                         p \in Pages /\ Region(p) # Region(STACK)

\* Nothing is made of the root's memory before test_busybox.
ASSUME RunnerMemory == \A m \in Memories : \A i \in DOMAIN m : m[i].used = 0

VARIABLES pc,
          kern,        \* the kernel's objects, see KernelObjects
          recycled,    \* OBJ_ALLOCATOR
          elf,         \* elf_data: header fields, program headers, length, address
          args,        \* lengths of the strings of _args
          mapped_pts, page_info, frame_slots,
          done,        \* frames_allocated, then the index of the page being loaded
          task         \* what the TCB has been told
vars == <<pc, kern, recycled, elf, args, mapped_pts, page_info, frame_slots, done, task>>

inputs == <<elf, args>>
plan   == <<mapped_pts, page_info, frame_slots, done>>

tcb_slot         == FirstSlot
fault_ep_slot    == FirstSlot + 1
stack_frame_slot == FirstSlot + 2
ipc_frame_slot   == FirstSlot + 3
pt_stack_slot    == FirstSlot + 5      \* FirstSlot + 4 is reserved and never used

NoTask == [run |-> FALSE, ipc |-> NoCap, rip |-> 0, rsp |-> 0, data |-> 0]

(***************************************************************************)
(* The ELF header and the program headers.                                 *)
(***************************************************************************)
PtLoads == LoadHeaders(elf.phdrs, elf.readable)
Loads   == 1..Len(PtLoads)

lowest_vaddr == LET V == {PtLoads[i].vaddr : i \in Loads}
                IN CHOOSE v \in V : \A w \in V : v <= w
reloc_offset    == LOAD_BASE * PageCells - lowest_vaddr
relocated_entry == elf.entry + reloc_offset

\* The segments where they are loaded.
Segments == [i \in Loads |-> [PtLoads[i] EXCEPT !.vaddr = @ + reloc_offset]]

seg_file_end(h) == h.vaddr + h.filesz
seg_mem_end(h)  == h.vaddr + h.memsz
TableCells      == PagesPerTable * PageCells
SegRegions(h)   == (h.vaddr \div TableCells)..((seg_mem_end(h) + TableCells - 1) \div TableCells - 1)

MaxOf(a, b) == IF a >= b THEN a ELSE b
MinOf(a, b) == IF a <= b THEN a ELSE b

\* Mutant: the slice is copied to the start of the page.
PageInfo_AtStart(h, page) ==
  [page |-> page, file_off |-> h.off + MaxOf(0, page * PageCells - h.vaddr), copy_off |-> 0,
   len |-> MaxOf(0, MinOf(PageCells, seg_file_end(h) - MaxOf(h.vaddr, page * PageCells)))]

\* The slice of the segment's file bytes that falls inside the page.
PageInfo(h, page) ==
  LET from == MaxOf(h.vaddr, page * PageCells)
      to   == MinOf(seg_file_end(h), (page + 1) * PageCells)
  IN IF from < to
     THEN [page |-> page, file_off |-> h.off + (from - h.vaddr),
           copy_off |-> from - page * PageCells, len |-> to - from]
     ELSE [page |-> page, file_off |-> 0, copy_off |-> 0, len |-> 0]

\* page_info: every page of every segment, one that is already there skipped.
Recorded(infos, page) == \E i \in DOMAIN infos : infos[i].page = page
Infos(segs) ==
  LET walk == Walk(segs)
      infos[n \in 0..Len(walk)] ==
        IF n = 0 THEN <<>>
        ELSE IF Recorded(infos[n - 1], walk[n].page) THEN infos[n - 1]
        ELSE Append(infos[n - 1], PageInfo(segs[walk[n].seg], walk[n].page))
  IN infos[Len(walk)]

(***************************************************************************)
(* Init and the steps.                                                     *)
(***************************************************************************)
Init ==
  /\ pc = "parse"
  /\ elf \in Elves /\ args \in ArgLists
  /\ \E m \in Memories, t \in RootTables, image \in RootImages :
       Hosts(t, image, elf) /\ kern = Booted(m, t, image)
  /\ recycled = [i \in 1..(EndSlot - FirstSlot) |-> FirstSlot + i - 1]
  /\ mapped_pts = {} /\ page_info = <<>> /\ frame_slots = <<>> /\ done = 0
  /\ task = NoTask

Goto(next, r) == kern' = r.k /\ pc' = IF r.ok THEN next ELSE "failed"

\* Mutant: the slots are pushed in ascending order.
RemainingSlots_Ascending == [i \in 1..(EndSlot - FirstSlot - 6) |-> FirstSlot + 5 + i]

\* The slots after the six fixed ones, largest first: the smallest is popped
\* first.
RemainingSlots == [i \in 1..(EndSlot - FirstSlot - 6) |-> EndSlot - i]

\* The header is looked at, the two untypeds are found and the slots pushed.
Parse ==
  /\ pc = "parse"
  /\ IF elf.magic /\ PtLoads # <<>>
        /\ find_free_untyped(kern, BigUnits) # 0 /\ find_free_untyped(kern, 2) # 0
     THEN /\ pc' = "endpoint"
          /\ recycled' = extend_slot(recycled, RemainingSlots)
     ELSE pc' = "failed" /\ UNCHANGED recycled
  /\ UNCHANGED <<kern, inputs, plan, task>>

CreateEndpoint ==
  /\ pc = "endpoint"
  /\ Goto("tcb", Retype(kern, find_free_untyped(kern, 2), "endpoint", fault_ep_slot, 1))
  /\ UNCHANGED <<recycled, inputs, plan, task>>

CreateTcb ==
  /\ pc = "tcb"
  /\ Goto("pt_load", Retype(kern, find_free_untyped(kern, 2), "tcb", tcb_slot, 1))
  /\ UNCHANGED <<recycled, inputs, plan, task>>

\* A page table in a popped slot, mapped if the region has none: a failed map
\* is never an error here.
MakeTable(k, slot, region) ==
  LET r == Make(k, "pt", slot) IN [r EXCEPT !.k = PageTable_Map(@, slot, "root", region).k]

\* Not even a failed retype stops this step.
CreateLoadTable ==
  /\ pc = "pt_load"
  /\ pc' = IF alloc_ok(recycled) THEN "pt_extra" ELSE "failed"
  /\ kern' = MakeTable(kern, alloc(recycled), Region(LOAD_BASE)).k
  /\ recycled' = after_alloc(recycled)
  /\ mapped_pts' = {Region(LOAD_BASE)}
  /\ UNCHANGED <<inputs, page_info, frame_slots, done, task>>

\* The next region, in the order of the segments, that has no table yet.
Untabled == (UNION {SegRegions(Segments[i]) : i \in Loads}) \ mapped_pts
NextRegion ==
  LET first == CHOOSE i \in Loads : /\ SegRegions(Segments[i]) \ mapped_pts # {}
                                    /\ \A j \in 1..(i - 1) : SegRegions(Segments[j]) \subseteq mapped_pts
      new   == SegRegions(Segments[first]) \ mapped_pts
  IN CHOOSE r \in new : \A q \in new : r <= q

\* Here a failed retype returns None.
CreateExtraTable ==
  /\ pc = "pt_extra" /\ Untabled # {}
  /\ Goto("pt_extra", MakeTable(kern, alloc(recycled), NextRegion))
  /\ recycled' = after_alloc(recycled)
  /\ mapped_pts' = mapped_pts \cup {NextRegion}
  /\ UNCHANGED <<inputs, page_info, frame_slots, done, task>>

CreateStackTable ==
  /\ pc = "pt_extra" /\ Untabled = {}
  /\ LET r == Make(kern, "pt", pt_stack_slot)
     IN Goto("plan", IF r.ok THEN PageTable_Map(r.k, pt_stack_slot, "root", Region(STACK)) ELSE r)
  /\ UNCHANGED <<recycled, inputs, plan, task>>

\* page_info is computed and a slot popped for every page; with no page at
\* all the indexing frame_slots[0] panics.
PlanPages ==
  /\ pc = "plan"
  /\ page_info' = Infos(Segments)
  /\ LET n == Len(page_info') IN
       IF n <= Len(recycled)
       THEN /\ frame_slots' = [i \in 1..n |-> recycled[Len(recycled) + 1 - i]]
            /\ recycled' = SubSeq(recycled, 1, Len(recycled) - n)
            /\ pc' = IF n = 0 THEN "panic" ELSE "frames"
       ELSE /\ frame_slots' = [i \in 1..Len(recycled) |-> recycled[Len(recycled) + 1 - i]]
            /\ recycled' = <<>>
            /\ pc' = "failed"
  /\ UNCHANGED <<kern, inputs, mapped_pts, done, task>>

\* Mutant: the last batch is as large as the others.
BatchSize_Full == RetypeFanOut

\* One batch: the slots after the first are taken to follow it.
BatchSize == MinOf(Len(frame_slots) - done, RetypeFanOut)
RetypeBatch ==
  /\ pc = "frames" /\ done < Len(frame_slots)
  /\ Goto("frames", Retype(kern, find_free_untyped(kern, BigUnits), "frame",
                           frame_slots[done + 1], BatchSize))
  /\ done' = IF pc' = "frames" THEN done + BatchSize ELSE done
  /\ UNCHANGED <<recycled, inputs, mapped_pts, page_info, frame_slots, task>>

AllRetyped ==
  /\ pc = "frames" /\ done = Len(frame_slots)
  /\ pc' = "load" /\ done' = 0
  /\ UNCHANGED <<kern, recycled, inputs, mapped_pts, page_info, frame_slots, task>>

\* Whether cell c of a page gets a byte of the file, and which one: nothing is
\* copied when the slice reaches past the end of the file.
Copied(i, c)   == i.file_off + i.len <= elf.len /\ c \in i.copy_off..(i.copy_off + i.len - 1)
SourceOf(i, c) == i.file_off + (c - i.copy_off)

\* The new page is cleared, then the slice is copied from wherever the root now
\* finds it.
Filled(k, i) == [c \in Cells |-> IF Copied(i, c) THEN FileCell(k, elf, i.page, SourceOf(i, c)) ELSE 0]

LoadPage ==
  /\ pc = "load" /\ done < Len(page_info)
  /\ LET i == page_info[done + 1]
         r == Frame_Map(kern, frame_slots[done + 1], "root", i.page)
     IN Goto("load", [r EXCEPT !.k = IF r.ok THEN Stored(@, i.page, Filled(@, i)) ELSE @])
  /\ done' = done + 1
  /\ UNCHANGED <<recycled, inputs, mapped_pts, page_info, frame_slots, task>>

\* The immediates after the entry point of one known binary are relocated;
\* touching a page that is not mapped faults the root task.
Patches == IF elf.entry = BusyboxEntry THEN {relocated_entry + c : c \in PatchCells} ELSE {}
PatchEntry ==
  /\ pc = "load" /\ done = Len(page_info)
  /\ IF \A a \in Patches : Readable(kern, a \div PageCells)
     THEN /\ kern' = [kern EXCEPT !.data = [s \in Slots |-> [c \in Cells |->
                        IF \E a \in Patches : /\ kern.vmap["root"][a \div PageCells] = s
                                              /\ a % PageCells = c
                        THEN @[s][c] + reloc_offset ELSE @[s][c]]]]
          /\ pc' = "stack"
     ELSE pc' = "fault" /\ UNCHANGED kern
  /\ UNCHANGED <<recycled, inputs, plan, task>>

CreateStack ==
  /\ pc = "stack"
  /\ Goto("extra", MakeFrame(kern, stack_frame_slot, "root", STACK))
  /\ done' = 0
  /\ UNCHANGED <<recycled, inputs, mapped_pts, page_info, frame_slots, task>>

\* A frame in a popped slot.
AllocFrame(page, next, cells) ==
  LET r == MakeFrame(kern, alloc(recycled), "root", page)
  IN /\ Goto(next, [r EXCEPT !.k = IF r.ok THEN Stored(@, page, cells) ELSE @])
     /\ recycled' = after_alloc(recycled)

\* Mutant: the stack grows up.
CreateExtraStack_Above ==
  /\ pc = "extra" /\ done < STACK_EXTRA_PAGES
  /\ AllocFrame(MinOf(STACK + done + 1, LastPage), "extra", ZeroPage)
  /\ done' = done + 1
  /\ UNCHANGED <<inputs, mapped_pts, page_info, frame_slots, task>>

CreateExtraStack ==
  /\ pc = "extra" /\ done < STACK_EXTRA_PAGES
  /\ AllocFrame(STACK - (done + 1), "extra", ZeroPage)
  /\ done' = done + 1
  /\ UNCHANGED <<inputs, mapped_pts, page_info, frame_slots, task>>

CreateIpcBuffer ==
  /\ pc = "extra" /\ done = STACK_EXTRA_PAGES
  /\ Goto("configure", MakeFrame(kern, ipc_frame_slot, "root", IPC_BUF))
  /\ UNCHANGED <<recycled, inputs, plan, task>>

\* The TCB gets the root's CSpace and VSpace, the fault endpoint, the IPC
\* buffer and its priority; then the stack page is cleared.
Configure ==
  /\ pc = "configure"
  /\ IF /\ HasCap(kern, tcb_slot, "tcb") /\ HasCap(kern, fault_ep_slot, "endpoint")
        /\ HasCap(kern, ipc_frame_slot, "frame")
     THEN /\ kern' = Stored(kern, STACK, ZeroPage)
          /\ task' = [task EXCEPT !.ipc = ipc_frame_slot]
          /\ pc' = "tls"
     ELSE pc' = "failed" /\ UNCHANGED <<kern, task>>
  /\ UNCHANGED <<recycled, inputs, plan>>

\* The TLS page points to itself in its first word.
TlsSelf == -2
TlsPage == [c \in Cells |-> IF c = 0 THEN TlsSelf ELSE 0]
CreateTls ==
  /\ pc = "tls"
  /\ AllocFrame(TLS_BASE, "trampoline", TlsPage)
  /\ UNCHANGED <<inputs, plan, task>>

CreateTrampoline ==
  /\ pc = "trampoline"
  /\ AllocFrame(TRAMPOLINE, "enter", ZeroPage)
  /\ UNCHANGED <<inputs, plan, task>>

(***************************************************************************)
(* The System V stack frame: AT_RANDOM bytes, platform string and argument *)
(* strings from the top of the page down, then argc, argv, envp and auxv   *)
(* below them.                                                             *)
(***************************************************************************)
argv == IF args = <<>> THEN <<7>> ELSE args          \* "busybox"
RandomBytes   == 16
PlatformBytes == 7
AuxPairs      == 16
\* The address of the last string.
DataAddr(strs) ==
  LET data[i \in 0..Len(strs)] ==
        IF i = 0 THEN PageBytes - (RandomBytes + PlatformBytes) ELSE data[i - 1] - (strs[i] + 1)
  IN data[Len(strs)]
array_bytes(argc) == 8 * (1 + argc + 1 + 1 + 2 * AuxPairs)
Aligned(addr)     == addr - (addr % 16)
\* Mutant: the array is not aligned.
StackBase_Packed(data, argc) == data - array_bytes(argc)

StackBase(data, argc) == Aligned(data - array_bytes(argc))
StackPageOf(off)  == STACK + (off \div PageBytes)

\* Registers are written and the thread is resumed: the last step.
Enter ==
  /\ pc = "enter"
  /\ LET data == DataAddr(argv)
         rsp  == StackBase(data, Len(argv))
     IN IF \A p \in StackPageOf(rsp)..STACK : Readable(kern, p)
        THEN /\ pc' = "started"
             /\ task' = [task EXCEPT !.run = TRUE, !.rip = relocated_entry,
                                     !.rsp = rsp, !.data = data]
        ELSE pc' = "fault" /\ UNCHANGED task
  /\ UNCHANGED <<kern, recycled, inputs, plan>>

Ended == pc \in {"started", "failed", "panic", "fault"} /\ UNCHANGED vars

Next == \/ Parse \/ CreateEndpoint \/ CreateTcb \/ CreateLoadTable \/ CreateExtraTable
        \/ CreateStackTable \/ PlanPages \/ RetypeBatch \/ AllRetyped \/ LoadPage
        \/ PatchEntry \/ CreateStack \/ CreateExtraStack \/ CreateIpcBuffer
        \/ Configure \/ CreateTls \/ CreateTrampoline \/ Enter \/ Ended

Spec == Init /\ [][Next]_vars

(***************************************************************************)
(* Properties.                                                             *)
(***************************************************************************)
TypeOK ==
  /\ pc \in {"parse", "endpoint", "tcb", "pt_load", "pt_extra", "plan", "frames", "load",
             "stack", "extra", "configure", "tls", "trampoline", "enter",
             "started", "failed", "panic", "fault"}
  /\ KernelOK(kern)
  /\ \A i \in DOMAIN recycled : recycled[i] \in Slots
  /\ mapped_pts \subseteq Regions
  /\ done \in 0..MaxOf(Len(page_info), STACK_EXTRA_PAGES)
  /\ pc = "frames" => done <= Len(frame_slots)
  /\ task.run \in BOOLEAN /\ task.ipc \in Slots \cup {NoCap}

ImagePages == UNION {page_range(Segments[i]) : i \in Loads}
Fixed      == ((STACK - STACK_EXTRA_PAGES)..STACK) \cup {IPC_BUF, TLS_BASE, TRAMPOLINE}

\* A program whose segments share no page, lie inside the file and stay clear
\* of the fixed pages: what the linker makes of busybox.
Regular ==
  /\ \A i, j \in Loads : i # j => page_range(Segments[i]) \cap page_range(Segments[j]) = {}
  /\ \A i \in Loads : PtLoads[i].filesz <= PtLoads[i].memsz
                      /\ PtLoads[i].off + PtLoads[i].filesz <= elf.len
  /\ ImagePages \cap Fixed = {}

\* Cell o of the file is still in the root's image when page_info[n] is filled.
Intact(n, o) == \A j \in 1..n : page_info[j].page # FilePage(elf, o)

\* Cell c of segment i as it was linked, moved by reloc_offset: file bytes first,
\* cleared memory after them, the patched immediates relocated.
InPlace(i, c) ==
  LET addr == Segments[i].vaddr + c
      cell == IF c < PtLoads[i].filesz THEN PtLoads[i].off + c + 1 ELSE 0
  IN CellAt(kern, addr) = IF addr \in Patches THEN cell + reloc_offset ELSE cell

\* When a regular program starts, every byte of its segments is in place, for
\* segments that begin in the middle of a page too -- except the file bytes that
\* loading this page, or one before it, had already taken out of the root's
\* image (runner.rs 217-370, 376-421).
ImageLoaded ==
  pc = "started" /\ Regular =>
    \A i \in Loads : \A c \in 0..(PtLoads[i].memsz - 1) : \A n \in DOMAIN page_info :
      /\ page_info[n].page = (Segments[i].vaddr + c) \div PageCells
      /\ c < PtLoads[i].filesz => Intact(n, PtLoads[i].off + c)
      => InPlace(i, c)

\* Without the exception: "Copy the file-backed slice into the correct in-page
\* offset" (runner.rs 353), for every byte of a regular program.  The file is in
\* the .rodata that loading overwrites (main.rs 139-144, 847).
ImageWhole ==
  pc = "started" /\ Regular =>
    \A i \in Loads : \A c \in 0..(PtLoads[i].memsz - 1) : InPlace(i, c)

\* A started task has every page it was promised: its image, the stack and its
\* guard room, the TLS page pointing to itself and the IPC buffer, and the frame
\* the TCB was configured with is the one mapped at IPC_BUF_VADDR -- no later
\* mapping of the same function took its place (runner.rs 424-620).
StartedComplete ==
  pc = "started" =>
    /\ \A p \in ImagePages \cup Fixed : kern.vmap["root"][p] \in Slots
    /\ kern.vmap["root"][IPC_BUF] = task.ipc
    /\ CellAt(kern, TLS_BASE * PageCells) = TlsSelf

\* What the function needs: memory for its objects in the two untypeds it
\* picks (they may be the same), slots for all of them, no page table in the
\* stack's region and one in the regions of TLS_BASE and TRAMPOLINE.
TablesNeeded == (UNION {SegRegions(Segments[i]) : i \in Loads}) \cup {Region(LOAD_BASE)}
SmallNeed == 2 + 2 * (Cardinality(TablesNeeded) + 1 + 1 + STACK_EXTRA_PAGES + 3)
BigNeed   == 2 * Cardinality(ImagePages)
Enough ==
  LET small  == find_free_untyped(kern, 2)
      big    == find_free_untyped(kern, BigUnits)
      served(r) == kern.pts["root"][r] = Image \/ r \in TablesNeeded \cup {Region(STACK)}
  IN /\ elf.magic /\ PtLoads # <<>> /\ small # 0 /\ big # 0
     /\ IF small = big THEN SmallNeed + BigNeed <= kern.untyped[small].units
        ELSE SmallNeed <= kern.untyped[small].units /\ BigNeed <= kern.untyped[big].units
     /\ 6 + Cardinality(TablesNeeded) + Cardinality(ImagePages) + STACK_EXTRA_PAGES + 2
          <= EndSlot - FirstSlot
     /\ kern.pts["root"][Region(STACK)] # Image /\ Region(STACK) \notin TablesNeeded
     /\ served(Region(TLS_BASE)) /\ served(Region(TRAMPOLINE))

\* The function gives up exactly when something it needs is missing: no
\* order of slots, batch or page table makes it fail with enough of
\* everything, and none of the errors it ignores hides a lack that matters
\* (the early returns of create_user_task).
FailsOnlyWhenShort == /\ pc = "failed"  => ~Enough
                      /\ pc = "started" => Enough

\* The System V entry contract: rsp is a multiple of 16, the array of argc,
\* argv, envp and auxv ends below the strings, and all of it lies in mapped
\* stack pages (runner.rs 626-717).
EntryContract ==
  pc = "started" =>
    /\ task.rsp % 16 = 0
    /\ task.rsp + array_bytes(Len(argv)) <= task.data
    /\ task.data + argv[Len(argv)] + 1 <= PageBytes
    /\ task.rsp >= -(STACK_EXTRA_PAGES * PageBytes)
=============================================================================
