--------------------------- MODULE KernelObjects ---------------------------
(***************************************************************************)
(* The seL4 objects a task is built from, as the code that creates user    *)
(* tasks uses them: untyped memory that is carved up front to back, the    *)
(* capability slots of the root CNode, page tables and frames of the       *)
(* virtual address spaces, and the free-slot stack OBJ_ALLOCATOR.          *)
(*                                                                         *)
(* The state is one record k:                                              *)
(*   caps     the type of the object in each slot                          *)
(*   untyped  size, watermark and device flag of each untyped, in units    *)
(*            of 2 KiB (the size of a TCB); a 4K object takes two          *)
(*   pts      per address space, the slot of the page table of a region    *)
(*   vmap     per address space, the frame slot that backs a page          *)
(*   at       where a frame or page table capability says it is mapped     *)
(*   data     the contents of a frame, PageCells cells to a page           *)
(* Operators that stand for a system call return [ok, k].                  *)
(***************************************************************************)
EXTENDS Integers, Sequences, FiniteSets

CONSTANTS PageCells,      \* cells of a page that the model tells apart
          PagesPerTable,  \* pages of the region one page table serves
          LastPage,       \* pages 0..LastPage are modelled
          FirstSlot,      \* bi.empty().start
          EndSlot,        \* bi.empty().end
          CNodeUnits,     \* size of a child CNode of 2^12 slots
          RetypeFanOut    \* CONFIG_RETYPE_FAN_OUT_LIMIT

ASSUME KernelConstants ==
  /\ {PageCells, PagesPerTable, FirstSlot, CNodeUnits, RetypeFanOut} \subseteq Nat \ {0}
  /\ LastPage \in Nat /\ EndSlot \in Nat /\ EndSlot >= FirstSlot

Pages   == 0..LastPage
Slots   == FirstSlot..(EndSlot - 1)
Region(page) == page \div PagesPerTable
Regions == 0..Region(LastPage)
Spaces  == {"root", "child"}
Cells   == 0..(PageCells - 1)

NoCap == 0              \* nothing mapped; slot numbers start at FirstSlot > 0
Image == -1             \* mapped by the kernel when it loaded the root task
Nowhere == <<>>
ZeroPage == [c \in Cells |-> 0]

Untypeds == {u \in [units : Nat, used : Nat, device : BOOLEAN] : u.used <= u.units}
Headers  == [load : BOOLEAN, vaddr : Nat, off : Nat, filesz : Nat, memsz : Nat]

\* An endpoint is smaller than a unit; the alignment of the object that follows
\* it makes up the difference.
ObjectUnits(ty) == CASE ty \in {"tcb", "endpoint"} -> 1
                     [] ty = "cnode"               -> CNodeUnits
                     [] OTHER                      -> 2

\* The kernel at boot: the root task's image occupies some pages of its own
\* address space and has page tables for some regions.
Booted(memory, tables, pages) ==
  [caps    |-> [s \in Slots |-> "null"],
   untyped |-> memory,
   pts     |-> [v \in Spaces |-> [r \in Regions |->
                  IF v = "root" /\ r \in tables THEN Image ELSE NoCap]],
   vmap    |-> [v \in Spaces |-> [p \in Pages |->
                  IF v = "root" /\ p \in pages THEN Image ELSE NoCap]],
   at      |-> [s \in Slots |-> Nowhere],
   data    |-> [s \in Slots |-> ZeroPage]]

KernelOK(k) ==
  /\ k.caps \in [Slots -> {"null", "endpoint", "tcb", "frame", "pt", "cnode",
                           "pml4", "pdpt", "pd"}]
  /\ \A i \in DOMAIN k.untyped : k.untyped[i].used \in 0..k.untyped[i].units
  /\ k.pts \in [Spaces -> [Regions -> Slots \cup {NoCap, Image}]]
  /\ k.vmap \in [Spaces -> [Pages -> Slots \cup {NoCap, Image}]]

Fails(k)    == [ok |-> FALSE, k |-> k]
Succeeds(k) == [ok |-> TRUE, k |-> k]

(***************************************************************************)
(* BootInfo and OBJ_ALLOCATOR.                                             *)
(***************************************************************************)
\* The first untyped that is large enough, whatever has been taken from it;
\* 0 stands for None.
find_free_untyped(k, units) ==
  LET S == {i \in DOMAIN k.untyped : /\ ~k.untyped[i].device
                                     /\ k.untyped[i].units >= units}
  IN IF S = {} THEN 0 ELSE CHOOSE i \in S : \A j \in S : i <= j

extend_slot(stack, slots) == stack \o slots
\* The slot popped; NoCap, into which nothing can be retyped, stands for None.
alloc_ok(stack)    == stack # <<>>
alloc(stack)       == IF alloc_ok(stack) THEN stack[Len(stack)] ELSE NoCap
after_alloc(stack) == SubSeq(stack, 1, Len(stack) - 1)

(***************************************************************************)
(* The program headers, which both loaders read and walk in the same way.  *)
(***************************************************************************)
\* The PT_LOAD headers, up to the first header that reaches past the file.
LoadHeaders(phdrs, readable) ==
  LET upto[n \in 0..readable] ==
        IF n = 0 THEN <<>>
        ELSE IF phdrs[n].load THEN Append(upto[n - 1], phdrs[n]) ELSE upto[n - 1]
  IN upto[readable]

\* The pages a segment touches.
page_range(h) == (h.vaddr \div PageCells)..((h.vaddr + h.memsz + PageCells - 1) \div PageCells - 1)

\* Every page of every segment, a page that two segments touch twice.
Walk(segs) ==
  LET walk[n \in 0..Len(segs)] ==
        IF n = 0 THEN <<>>
        ELSE walk[n - 1] \o
               [i \in 1..Cardinality(page_range(segs[n])) |->
                  [seg |-> n, page |-> (segs[n].vaddr \div PageCells) + i - 1]]
  IN walk[Len(segs)]

(***************************************************************************)
(* System calls.                                                           *)
(***************************************************************************)
AlignUp(n, size) == ((n + size - 1) \div size) * size

\* Mutant: the memory left is not looked at.
Retype_Unlimited(k, ut, ty, slot, n) ==
  IF \A s \in slot..(slot + n - 1) : s \in Slots /\ k.caps[s] = "null"
  THEN Succeeds([k EXCEPT !.untyped[ut].used = @ + n * ObjectUnits(ty),
                          !.caps = [s \in Slots |-> IF s \in slot..(slot + n - 1) THEN ty ELSE @[s]]])
  ELSE Fails(k)

\* n objects into the slots slot .. slot+n-1, from the untyped's watermark on.
Retype(k, ut, ty, slot, n) ==
  LET size  == ObjectUnits(ty)
      start == AlignUp(k.untyped[ut].used, size)
      dest  == slot..(slot + n - 1)
  IN IF /\ start + n * size <= k.untyped[ut].units
        /\ n <= RetypeFanOut
        /\ dest \subseteq Slots
        /\ \A s \in dest : k.caps[s] = "null"
     THEN Succeeds([k EXCEPT !.untyped[ut].used = start + n * size,
                             !.caps = [s \in Slots |-> IF s \in dest THEN ty ELSE @[s]]])
     ELSE Fails(k)

\* find_free_untyped and Retype, as they stand together everywhere.
Make(k, ty, slot) ==
  LET ut == find_free_untyped(k, IF ty = "cnode" THEN 2 ELSE ObjectUnits(ty))
  IN IF ut = 0 THEN Fails(k) ELSE Retype(k, ut, ty, slot, 1)

HasCap(k, slot, ty) == slot \in Slots /\ k.caps[slot] = ty

PageTable_Map(k, slot, vs, region) ==
  IF HasCap(k, slot, "pt") /\ k.at[slot] = Nowhere /\ k.pts[vs][region] = NoCap
  THEN Succeeds([k EXCEPT !.pts[vs][region] = slot, !.at[slot] = <<vs, region>>])
  ELSE Fails(k)

CanMap(k, slot, vs, page) ==
  /\ HasCap(k, slot, "frame")
  /\ k.pts[vs][Region(page)] # NoCap
  /\ k.at[slot] \in {Nowhere, <<vs, page>>}

\* A page that is already backed gets the new frame: the old one stays
\* allocated, and its capability goes on saying that it is mapped there.
Frame_Map(k, slot, vs, page) ==
  IF CanMap(k, slot, vs, page)
  THEN Succeeds([k EXCEPT !.vmap[vs][page] = slot, !.at[slot] = <<vs, page>>])
  ELSE Fails(k)

\* Retype a frame and map it.
MakeFrame(k, slot, vs, page) ==
  LET r == Make(k, "frame", slot) IN IF r.ok THEN Frame_Map(r.k, slot, vs, page) ELSE r

(***************************************************************************)
(* Loads and stores of the root task, which go through its own space.      *)
(***************************************************************************)
Readable(k, page) == page \in Pages /\ k.vmap["root"][page] # NoCap
Stored(k, page, cells) ==
  IF k.vmap["root"][page] \in Slots THEN [k EXCEPT !.data[k.vmap["root"][page]] = cells] ELSE k
CellAt(k, addr) == k.data[k.vmap["root"][addr \div PageCells]][addr % PageCells]

(***************************************************************************)
(* The file is part of the root's own image (include_bytes!), at the cell  *)
(* address e.at, and is read through the root's space while that space is  *)
(* being remapped.  Pages the model leaves out are never remapped.         *)
(***************************************************************************)
FilePage(e, o) == (e.at + o) \div PageCells
FilePages(e)   == {FilePage(e, o) : o \in 0..(e.len - 1)} \cap Pages

\* Source and destination of the copy overlap: whatever the copy makes of it.
Torn == -5

\* What the root finds at cell o of the file when it fills page: o + 1, unless
\* a frame has taken the place of the page of the image the cell was in.
FileCell(k, e, page, o) ==
  IF FilePage(e, o) = page THEN Torn
  ELSE IF FilePage(e, o) \in Pages /\ k.vmap["root"][FilePage(e, o)] \in Slots
  THEN CellAt(k, e.at + o)
  ELSE o + 1

\* The root's image has its page tables, and the file in it.
Hosts(tables, pages, e) == {Region(p) : p \in pages} \subseteq tables /\ FilePages(e) \subseteq pages
=============================================================================
