------------------------------- MODULE Loader -------------------------------
(***************************************************************************)
(* The five-step loader of lcl/src/task/loader.rs: load the segments of an *)
(* ELF file into frames mapped in the root's address space, create a CNode *)
(* and a VSpace for the child and map the frames there, create the TCB     *)
(* with its fault endpoint, IPC buffer and stack, start it.  own says      *)
(* whether the caller goes through all five steps or, as the comment in    *)
(* create_child_tcb expects, gives the child the root's CSpace and VSpace. *)
(* Cells and file contents are those of module Runner.                     *)
(***************************************************************************)
EXTENDS KernelObjects

CONSTANTS TLS_BASE, STACK, IPC_BUF,     \* page numbers
          STACK_PAGES,
          Elves, Memories, FreeSlots,
          RootTables, RootImages  \* regions with a table, pages of the root's image

ASSUME LoaderConstants ==
  /\ {TLS_BASE, STACK, IPC_BUF} \subseteq Pages
  /\ STACK_PAGES \in Nat \ {0} /\ STACK + STACK_PAGES - 1 <= LastPage

\* What is loaded lies in the pages modelled.
Fits(h) == h.load => h.vaddr + h.memsz <= (LastPage + 1) * PageCells
ASSUME LoaderInputs ==
  /\ \A e \in Elves : /\ e.magic \in BOOLEAN /\ e.len \in Nat /\ e.at \in Nat
                      /\ e.phdrs \in Seq({h \in Headers : Fits(h)})
                      /\ e.readable \in 0..Len(e.phdrs)
  /\ Memories \subseteq Seq(Untypeds)
  /\ FreeSlots \subseteq 0..(EndSlot - FirstSlot)

VARIABLES pc, kern, recycled, elf,
          own,          \* the child gets a CSpace and a VSpace of its own
          frame_slots,
          ut_idx,       \* position in the list of untypeds
          done,         \* frames retyped, pages loaded, stack pages made
          page_map,     \* LoadedPages.frames; NoCap where there is no entry
          task          \* ChildTask: slots, and whether the thread was started
vars == <<pc, kern, recycled, elf, own, frame_slots, ut_idx, done, page_map, task>>

inputs  == <<elf, own>>
loading == <<frame_slots, ut_idx, page_map>>

pml4 == IF own THEN "child" ELSE "root"
NoTask == [tcb |-> NoCap, ep |-> NoCap, ipc |-> NoCap, configured |-> FALSE, run |-> FALSE]

(***************************************************************************)
(* Step 1.                                                                 *)
(***************************************************************************)
parse_elf == LoadHeaders(elf.phdrs, elf.readable)

\* Every page of every segment.
SegPages    == Walk(parse_elf)
total_pages == Len(SegPages)

\* The untypeds of at least 4K, largest first, the sort being stable.
Usable == {i \in DOMAIN kern.untyped : ~kern.untyped[i].device /\ kern.untyped[i].units >= 2}
Before(i, j) == \/ kern.untyped[i].units > kern.untyped[j].units
                \/ kern.untyped[i].units = kern.untyped[j].units /\ i < j
untyped_list == [n \in 1..Cardinality(Usable) |->
                   CHOOSE j \in Usable : Cardinality({i \in Usable : Before(i, j)}) = n - 1]

Init ==
  /\ pc = "slots"
  /\ elf \in Elves /\ own \in BOOLEAN
  /\ \E m \in Memories, t \in RootTables, image \in RootImages :
       Hosts(t, image, elf) /\ kern = Booted(m, t, image)
  /\ \E n \in FreeSlots : recycled = [i \in 1..n |-> EndSlot - i]
  /\ frame_slots = <<>> /\ ut_idx = 1 /\ done = 0
  /\ page_map = [p \in Pages |-> NoCap]
  /\ task = NoTask

Goto(next, r) == kern' = r.k /\ pc' = IF r.ok THEN next ELSE "failed"

\* The file is parsed and a slot popped for every page.
AllocSlots ==
  /\ pc = "slots"
  /\ IF elf.magic /\ total_pages <= Len(recycled)
     THEN /\ frame_slots' = [i \in 1..total_pages |-> recycled[Len(recycled) + 1 - i]]
          /\ recycled' = SubSeq(recycled, 1, Len(recycled) - total_pages)
          /\ pc' = "retype"
     ELSE /\ pc' = "failed"
          /\ recycled' = IF elf.magic THEN <<>> ELSE recycled
          /\ UNCHANGED frame_slots
  /\ UNCHANGED <<kern, inputs, ut_idx, done, page_map, task>>

\* One frame; an untyped that refuses is left for the next in the list.  The
\* code also stops at the untyped's size, after which it would refuse anyway.
RetypeFrame ==
  /\ pc = "retype" /\ done < total_pages /\ ut_idx <= Len(untyped_list)
  /\ LET r == Retype(kern, untyped_list[ut_idx], "frame", frame_slots[done + 1], 1)
     IN /\ kern' = r.k
        /\ done' = IF r.ok THEN done + 1 ELSE done
        /\ ut_idx' = IF r.ok THEN ut_idx ELSE ut_idx + 1
  /\ UNCHANGED <<pc, recycled, inputs, frame_slots, page_map, task>>

RetypeEnd ==
  /\ pc = "retype" /\ (done = total_pages \/ ut_idx > Len(untyped_list))
  /\ pc' = IF done < total_pages THEN "failed" ELSE "load"
  /\ done' = 0
  /\ UNCHANGED <<kern, recycled, inputs, loading, task>>

\* Mutant: a whole page is copied whatever the segment's size in the file.
PageBytesOf_Whole(k, h, page) ==
  LET off == page * PageCells - h.vaddr
  IN [c \in Cells |-> IF 0 <= off /\ off < h.filesz /\ h.off + off + c < elf.len
                      THEN FileCell(k, elf, page, h.off + off + c) ELSE 0]

\* The bytes of the page, from the offset of the page in the segment on.  The
\* subtraction wraps when the segment begins after the page does, and a huge
\* offset means that there is nothing to copy.
PageBytesOf(k, h, page) ==
  LET off  == page * PageCells - h.vaddr
      from == h.off + off
      to   == IF from + PageCells <= h.off + h.filesz THEN from + PageCells ELSE h.off + h.filesz
  IN [c \in Cells |-> IF 0 <= off /\ off < h.filesz /\ to <= elf.len /\ c < to - from
                      THEN FileCell(k, elf, page, from + c) ELSE 0]

\* Mutant: the first frame of a page stays in the map.
Entered_First(page, slot) == [page_map EXCEPT ![page] = IF @ = NoCap THEN slot ELSE @]

\* page_map.insert(page_vaddr, frame_slot).
Entered(page, slot) == [page_map EXCEPT ![page] = slot]

LoadPage ==
  /\ pc = "load" /\ done < total_pages
  /\ LET sp == SegPages[done + 1]
         r  == Frame_Map(kern, frame_slots[done + 1], "root", sp.page)
     IN /\ Goto("load", [r EXCEPT !.k =
                   IF r.ok THEN Stored(@, sp.page, PageBytesOf(@, parse_elf[sp.seg], sp.page)) ELSE @])
        /\ page_map' = IF r.ok THEN Entered(sp.page, frame_slots[done + 1]) ELSE page_map
  /\ done' = done + 1
  /\ UNCHANGED <<recycled, inputs, frame_slots, ut_idx, task>>

Loaded ==
  /\ pc = "load" /\ done = total_pages
  /\ pc' = IF own THEN "cspace" ELSE "tcb"
  /\ done' = 0
  /\ UNCHANGED <<kern, recycled, inputs, loading, task>>

(***************************************************************************)
(* Steps 2 and 3: the child's CSpace and VSpace.                           *)
(***************************************************************************)
\* An object in a popped slot, and what is done with it.
Pop == recycled' = after_alloc(recycled)
MakeNext(ty) == Make(kern, ty, alloc(recycled))
ThenDo(r, Op(_, _)) == IF r.ok THEN Op(r.k, alloc(recycled)) ELSE r

CreateCSpace ==
  /\ pc = "cspace" /\ Pop
  /\ Goto("pml4", MakeNext("cnode"))
  /\ UNCHANGED <<inputs, loading, done, task>>

CreatePml4 ==
  /\ pc = "pml4" /\ Pop
  /\ Goto("pdpt", MakeNext("pml4"))
  /\ UNCHANGED <<inputs, loading, done, task>>

\* No ASID has been assigned to the new PML4: whether the kernel lets the PDPT
\* be mapped is left open.
CreatePdpt ==
  /\ pc = "pdpt" /\ Pop
  /\ \E mapped \in BOOLEAN : Goto("pd", [MakeNext("pdpt") EXCEPT !.ok = @ /\ mapped])
  /\ UNCHANGED <<inputs, loading, done, task>>

Entries == {p \in Pages : page_map[p] # NoCap}

\* All the pages modelled lie in one gigabyte: one page directory, or none
\* when nothing was loaded.
CreatePd ==
  /\ pc = "pd"
  /\ IF Entries = {} THEN pc' = "pt" /\ UNCHANGED <<kern, recycled>>
     ELSE Pop /\ Goto("pt", MakeNext("pd"))
  /\ UNCHANGED <<inputs, loading, done, task>>

PtRegions == {Region(p) : p \in Entries}
Untabled  == {r \in PtRegions : kern.pts["child"][r] = NoCap}
CreateTable ==
  /\ pc = "pt" /\ Untabled # {} /\ Pop
  /\ LET region == CHOOSE r \in Untabled : \A q \in Untabled : r <= q
         Map(k, slot) == PageTable_Map(k, slot, "child", region)
     IN Goto("pt", ThenDo(MakeNext("pt"), Map))
  /\ UNCHANGED <<inputs, loading, done, task>>

\* The loaded frames are mapped in the child; an error is passed over, and a
\* frame that is mapped in the root gives one.
RemapFrames ==
  /\ pc = "pt" /\ Untabled = {}
  /\ LET able(p) == p \in Entries /\ CanMap(kern, page_map[p], "child", p)
     IN kern' = [kern EXCEPT
          !.vmap["child"] = [p \in Pages |-> IF able(p) THEN page_map[p] ELSE @[p]],
          !.at = [s \in Slots |-> IF \E p \in Pages : able(p) /\ page_map[p] = s
                                  THEN <<"child", CHOOSE p \in Pages : able(p) /\ page_map[p] = s>>
                                  ELSE @[s]]]
  /\ pc' = "vstack"
  /\ UNCHANGED <<recycled, inputs, loading, done, task>>

\* A frame for the child that the root then clears and writes at the same
\* address -- of its own space.
ChildFrame(page, cells, next) ==
  LET Map(k, slot) == Frame_Map(k, slot, "child", page)
      r == ThenDo(MakeNext("frame"), Map)
  IN /\ Pop
     /\ kern' = IF r.ok /\ Readable(r.k, page) THEN Stored(r.k, page, cells) ELSE r.k
     /\ pc' = IF ~r.ok THEN "failed" ELSE IF Readable(r.k, page) THEN next ELSE "fault"

ChildStack ==
  /\ pc = "vstack" /\ done < STACK_PAGES
  /\ ChildFrame(STACK + done, ZeroPage, "vstack")
  /\ done' = done + 1
  /\ UNCHANGED <<inputs, loading, task>>

TlsSelf == -2
ChildTls ==
  /\ pc = "vstack" /\ done = STACK_PAGES
  /\ ChildFrame(TLS_BASE, [c \in Cells |-> IF c = 0 THEN TlsSelf ELSE 0], "tcb")
  /\ done' = 0
  /\ UNCHANGED <<inputs, loading, task>>

(***************************************************************************)
(* Step 4: create_child_tcb.                                               *)
(***************************************************************************)
CreateTcb ==
  /\ pc = "tcb"
  /\ IF Len(recycled) < 3
     THEN pc' = "failed" /\ recycled' = <<>> /\ UNCHANGED <<kern, task>>
     ELSE LET slot(i) == recycled[Len(recycled) + 1 - i]
              r == Make(kern, "tcb", slot(1))
          IN /\ Goto("tcb_pt", IF r.ok THEN Make(r.k, "endpoint", slot(2)) ELSE r)
             /\ recycled' = SubSeq(recycled, 1, Len(recycled) - 3)
             /\ task' = [task EXCEPT !.tcb = slot(1), !.ep = slot(2), !.ipc = slot(3)]
  /\ UNCHANGED <<inputs, loading, done>>

\* Mutant: a table that is already there is passed over, as in the runner.
CreateIpcTable_Lenient ==
  /\ pc = "tcb_pt" /\ Pop
  /\ Goto("tcb_ipc", MakeNext("pt"))
  /\ UNCHANGED <<inputs, loading, done, task>>

CreateIpcTable ==
  /\ pc = "tcb_pt" /\ Pop
  /\ LET Map(k, slot) == PageTable_Map(k, slot, pml4, Region(STACK))
     IN Goto("tcb_ipc", ThenDo(MakeNext("pt"), Map))
  /\ UNCHANGED <<inputs, loading, done, task>>

\* The root initialises the buffer at the same address of its own space.
CreateIpcBuffer ==
  /\ pc = "tcb_ipc"
  /\ LET r == MakeFrame(kern, task.ipc, pml4, IPC_BUF)
     IN /\ kern' = IF r.ok /\ Readable(r.k, IPC_BUF) THEN Stored(r.k, IPC_BUF, ZeroPage) ELSE r.k
        /\ pc' = IF ~r.ok THEN "failed"
                 ELSE IF Readable(r.k, IPC_BUF) THEN "tcb_stack" ELSE "fault"
  /\ UNCHANGED <<recycled, inputs, loading, done, task>>

CreateStack ==
  /\ pc = "tcb_stack" /\ done < STACK_PAGES /\ Pop
  /\ LET Map(k, slot) == Frame_Map(k, slot, pml4, STACK + done)
     IN Goto("tcb_stack", ThenDo(MakeNext("frame"), Map))
  /\ done' = done + 1
  /\ UNCHANGED <<inputs, loading, task>>

Configure ==
  /\ pc = "tcb_stack" /\ done = STACK_PAGES
  /\ IF /\ HasCap(kern, task.tcb, "tcb") /\ HasCap(kern, task.ep, "endpoint")
        /\ HasCap(kern, task.ipc, "frame")
     THEN pc' = "start" /\ task' = [task EXCEPT !.configured = TRUE]
     ELSE pc' = "failed" /\ UNCHANGED task
  /\ UNCHANGED <<kern, recycled, inputs, loading, done>>

(***************************************************************************)
(* Step 5: the trampoline in the first cell and the argument frame in the  *)
(* last one of the first stack page, again at the root's address.          *)
(***************************************************************************)
Trampoline == -3
ArgFrame   == -4
EntryPage  == [c \in Cells |-> IF c = 0 THEN Trampoline
                               ELSE IF c = PageCells - 1 THEN ArgFrame ELSE 0]
Start ==
  /\ pc = "start"
  /\ IF Readable(kern, STACK)
     THEN /\ kern' = Stored(kern, STACK, EntryPage)
          /\ task' = [task EXCEPT !.run = HasCap(kern, task.tcb, "tcb")]
          /\ pc' = "started"
     ELSE pc' = "fault" /\ UNCHANGED <<kern, task>>
  /\ UNCHANGED <<recycled, inputs, loading, done>>

Ended == pc \in {"started", "failed", "fault"} /\ UNCHANGED vars

Next == \/ AllocSlots \/ RetypeFrame \/ RetypeEnd \/ LoadPage \/ Loaded
        \/ CreateCSpace \/ CreatePml4 \/ CreatePdpt \/ CreatePd \/ CreateTable
        \/ RemapFrames \/ ChildStack \/ ChildTls
        \/ CreateTcb \/ CreateIpcTable \/ CreateIpcBuffer \/ CreateStack \/ Configure
        \/ Start \/ Ended

Spec == Init /\ [][Next]_vars

(***************************************************************************)
(* Properties.                                                             *)
(***************************************************************************)
TypeOK ==
  /\ pc \in {"slots", "retype", "load", "cspace", "pml4", "pdpt", "pd", "pt", "vstack", "tcb",
             "tcb_pt", "tcb_ipc", "tcb_stack", "start", "started", "failed", "fault"}
  /\ KernelOK(kern)
  /\ \A i \in DOMAIN recycled : recycled[i] \in Slots
  /\ done \in 0..(total_pages + STACK_PAGES)
  /\ ut_idx \in 1..(Len(kern.untyped) + 1)
  /\ page_map \in [Pages -> Slots \cup {NoCap}]

\* While the image is being loaded, and until the task's own pages are mapped,
\* the map handed to create_child_vspace names for every page the frame that
\* really backs it, also where two segments share a page (loader.rs 267).
PageMapTrue ==
  pc \in {"load", "cspace", "pml4", "pdpt", "pd", "pt"} =>
    \A p \in Entries : kern.vmap["root"][p] = page_map[p]

\* File bytes lie in the file and in the segment.
WellFormed == \A i \in DOMAIN parse_elf : /\ parse_elf[i].filesz <= parse_elf[i].memsz
                                          /\ parse_elf[i].off + parse_elf[i].filesz <= elf.len
\* Segments that share no page, and segments that share no cell.
PagesApart == \A i, j \in DOMAIN parse_elf :
                i # j => page_range(parse_elf[i]) \cap page_range(parse_elf[j]) = {}
SegCells(h) == h.vaddr..(h.vaddr + h.memsz - 1)
CellsApart == \A i, j \in DOMAIN parse_elf :
                i # j => SegCells(parse_elf[i]) \cap SegCells(parse_elf[j]) = {}
Regular    == PagesApart /\ WellFormed

\* The cells of a page in which a segment begins later than the page does are
\* the ones the wrapped subtraction loses.
Lost(h) == {c \in 0..(h.memsz - 1) : ((h.vaddr + c) \div PageCells) * PageCells < h.vaddr}

\* No page of the segments has taken cell c of segment i out of the root's image
\* when its own page is loaded.
Found(i, c) ==
  \A n \in 1..total_pages :
    SegPages[n].page = (parse_elf[i].vaddr + c) \div PageCells =>
      \A j \in 1..n : SegPages[j].page # FilePage(elf, parse_elf[i].off + c)

\* Cell c of a segment as it was linked.
InPlace(h, c) == CellAt(kern, h.vaddr + c) = IF c < h.filesz THEN h.off + c + 1 ELSE 0

AfterStep1 == /\ pc \in {"cspace", "pml4", "pdpt", "pd", "pt", "tcb"}
              /\ pc = "tcb" => ~own

\* After step 1 the segments of a regular file are in memory, cleared behind
\* the file bytes.  Nothing is said of the file bytes that loading takes out of
\* the root's image before they are copied, nor of those in the first page of a
\* segment that begins in the middle of it (loader.rs 206-269).
LoadedExactly ==
  AfterStep1 /\ Regular =>
    \A i \in DOMAIN parse_elf : LET h == parse_elf[i] IN
      \A c \in 0..(h.memsz - 1) :
        (c < h.filesz => c \notin Lost(h) /\ Found(i, c)) => InPlace(h, c)

\* "Allocates 4KB frames from untyped memory, maps them into the current (root)
\* VSpace at the ELF's virtual addresses, copies segment data" (loader.rs
\* 107-108), for segments that begin in the middle of a page too.
SegmentsCopied ==
  AfterStep1 /\ Regular =>
    \A i \in DOMAIN parse_elf : LET h == parse_elf[i] IN
      \A c \in 0..(h.memsz - 1) : (c < h.filesz => Found(i, c)) => InPlace(h, c)

\* The same sentence for the bytes of a segment that shares its last page with
\* the next one: what is copied stays (loader.rs 107-108).
SharedKept ==
  AfterStep1 /\ CellsApart /\ WellFormed =>
    \A i \in DOMAIN parse_elf : LET h == parse_elf[i] IN
      \A c \in 0..(h.memsz - 1) :
        (c < h.filesz => c \notin Lost(h) /\ Found(i, c)) => InPlace(h, c)

\* A started child is configured and runs, and the entry code is at the address
\* its first instruction is fetched from, in its own address space: the root
\* wrote it through its own (loader.rs 546-618, 641-680).
StartedReady ==
  pc = "started" =>
    /\ task.run /\ task.configured
    /\ kern.vmap[pml4][STACK] \in Slots
    /\ kern.data[kern.vmap[pml4][STACK]][0] = Trampoline

\* "IPC buffer at `IPC_BUF_VADDR` backed by a dedicated frame" (loader.rs 486):
\* the frame the TCB was configured with.
IpcDedicated == pc = "started" => kern.vmap[pml4][IPC_BUF] = task.ipc

\* "creates a dedicated CSpace + VSpace for the child task" (loader.rs 1-2): the
\* stack and the page table of the IPC buffer are refused only when there is no
\* slot or no memory for them.
OwnSpaceWorks ==
  [][own /\ pc' = "failed" => /\ pc = "vstack" => ~MakeNext("frame").ok
                              /\ pc = "tcb_pt" => ~MakeNext("pt").ok]_vars
=============================================================================
