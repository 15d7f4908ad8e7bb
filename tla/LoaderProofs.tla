---------------------------- MODULE LoaderProofs ----------------------------
(***************************************************************************)
(* Proofs about the five-step loader, for every program, memory, page size *)
(* and number of slots: its types, that the page map names the frames that *)
(* back the pages, what is in memory when the segments are loaded, and     *)
(* that a child that is started finds its entry code.                      *)
(***************************************************************************)
EXTENDS Loader, KernelProofs

(***************************************************************************)
(* The inductive invariant.                                                *)
(***************************************************************************)
AnySlot == Slots \cup {NoCap}

PCs == {"slots", "retype", "load", "cspace", "pml4", "pdpt", "pd", "pt", "vstack", "tcb",
        "tcb_pt", "tcb_ipc", "tcb_stack", "start", "started", "failed", "fault"}

\* Types, and how far each loop has come.
TypeInv ==
  /\ pc \in PCs /\ kern \in Kernels /\ elf \in Elves /\ own \in BOOLEAN
  /\ recycled \in Seq(Slots) /\ frame_slots \in Seq(Slots)
  /\ ut_idx \in 1..(Len(kern.untyped) + 1)
  /\ page_map \in [Pages -> AnySlot]
  /\ task \in [tcb : AnySlot, ep : AnySlot, ipc : AnySlot, configured : BOOLEAN, run : BOOLEAN]
  /\ done \in 0..(total_pages + STACK_PAGES)
  /\ pc \in {"retype", "load"} => done <= total_pages /\ Len(frame_slots) = total_pages
  /\ pc \in {"vstack", "tcb_stack"} => done <= STACK_PAGES
  /\ pc \in {"slots", "cspace", "pml4", "pdpt", "pd", "pt", "tcb", "tcb_pt", "tcb_ipc"} => done = 0

Loading == {"load", "cspace", "pml4", "pdpt", "pd", "pt"}

\* The map handed to create_child_vspace and the root's address space: the pages
\* loaded so far are the ones taken out of the root's image.
PageMapInv ==
  /\ pc \in {"slots", "retype"} =>
       Entries = {} /\ \A p \in Pages : kern.vmap["root"][p] \notin Slots
  /\ pc = "load" =>
       \A p \in Pages : kern.vmap["root"][p] \in Slots => \E j \in 1..done : SegPages[j].page = p
  /\ PageMapTrue

\* Which address space the child gets, and its page table for the stack.
SpaceInv ==
  /\ pc \in {"cspace", "pml4", "pdpt", "pd", "pt", "vstack"} => own
  /\ own /\ ((pc = "vstack" /\ done > 0) \/ pc \in {"tcb", "tcb_pt"}) =>
       kern.pts["child"][Region(STACK)] # NoCap
  /\ pc \in {"tcb_ipc", "tcb_stack", "start", "started"} => ~own

\* The task under construction, and the stack pages it has.
TaskInv ==
  /\ pc \in {"tcb_stack", "start"} =>
       \A i \in 0..(done - 1) : kern.vmap["root"][STACK + i] \in Slots
  /\ pc = "start" => done = STACK_PAGES /\ task.configured /\ HasCap(kern, task.tcb, "tcb")
  /\ StartedReady

\* What a page would get from a file that stays as it is.
Source(h, page, c) == h.off + (page * PageCells - h.vaddr) + c
Copies(h, page, c) ==
  LET off  == page * PageCells - h.vaddr
      from == h.off + off
      to   == IF from + PageCells <= h.off + h.filesz THEN from + PageCells ELSE h.off + h.filesz
  IN 0 <= off /\ off < h.filesz /\ to <= elf.len /\ c < to - from
Slice(h, page) == [c \in Cells |-> IF Copies(h, page, c) THEN Source(h, page, c) + 1 ELSE 0]

\* Cell c of the j-th page is copied from a page of the image that no earlier page
\* has replaced, if it is copied at all.
Sourced(j, c) ==
  LET h == parse_elf[SegPages[j].seg]
      p == SegPages[j].page
  IN Copies(h, p, c) => \A n \in 1..j : SegPages[n].page # FilePage(elf, Source(h, p, c))

\* The j-th page has its frame, and the frame has the bytes.
Holds(j) ==
  LET p == SegPages[j].page IN
  /\ j \in DOMAIN frame_slots
  /\ kern.vmap["root"][p] = frame_slots[j]
  /\ \A c \in Cells : Sourced(j, c) =>
       kern.data[frame_slots[j]][c] = Slice(parse_elf[SegPages[j].seg], p)[c]

\* The pages loaded so far, of a regular file.
LoadedTo == IF pc = "load" THEN done ELSE total_pages
LoadInv ==
  /\ pc = "slots" => \A i, j \in DOMAIN recycled : recycled[i] = recycled[j] => i = j
  /\ pc \in {"retype", "load"} =>
       \A i, j \in DOMAIN frame_slots : frame_slots[i] = frame_slots[j] => i = j
  /\ Regular /\ (pc \in Loading \/ (pc = "tcb" /\ ~own)) =>
       \A j \in 1..LoadedTo : Holds(j)

IInv == TypeInv /\ PageMapInv /\ SpaceInv /\ TaskInv /\ LoadInv

-----------------------------------------------------------------------------
(***************************************************************************)
(* The segments and their pages.                                           *)
(***************************************************************************)
\* The segments of a file lie in the pages modelled.
LEMMA ParseFacts ==
    ASSUME elf \in Elves
    PROVE  parse_elf \in Seq(Loadable) /\ Len(parse_elf) \in Nat
<1> DEFINE S == {h \in Headers : Fits(h)}
<1> DEFINE T == {h \in S : h.load}
<1>1. elf.phdrs \in Seq(S) /\ elf.readable \in 0..Len(elf.phdrs)
  BY LoaderInputs
<1> HIDE DEF S
<1>2. parse_elf \in Seq(T)
  BY <1>1, LoadHeadersFacts DEF parse_elf
<1>3. T \subseteq Loadable
  BY DEF S, Fits, Loadable
<1> HIDE DEF T
<1> QED
  BY <1>2, <1>3

\* The list of pages of the program.
LEMMA SegPagesFacts ==
    ASSUME elf \in Elves
    PROVE  /\ parse_elf \in Seq(Loadable)
           /\ WalkOK(SegPages, parse_elf, Len(parse_elf))
           /\ SegPages \in Seq([seg : 1..Len(parse_elf), page : Pages])
           /\ total_pages \in Nat
           /\ \A j \in 1..total_pages : /\ SegPages[j].page \in Pages
                                        /\ SegPages[j].seg \in 1..Len(parse_elf)
                                        /\ parse_elf[SegPages[j].seg] \in Loadable
<1>1. parse_elf \in Seq(Loadable)
  BY ParseFacts
<1>2. WalkOK(SegPages, parse_elf, Len(parse_elf))
  BY <1>1, WalkFacts DEF SegPages
<1> DEFINE S == [seg : 1..Len(parse_elf), page : Pages]
<1>3. SegPages \in Seq(S)
  BY <1>2 DEF WalkOK
<1>4. total_pages \in Nat
  <2> HIDE DEF S
  <2> QED
    BY <1>3 DEF total_pages
<1>5. \A j \in 1..total_pages : SegPages[j] \in S
  <2> HIDE DEF S
  <2> QED
    BY <1>3 DEF total_pages
<1>6. \A j \in 1..total_pages : SegPages[j].page \in Pages /\ SegPages[j].seg \in 1..Len(parse_elf)
  BY <1>5
<1>7. \A i \in 1..Len(parse_elf) : parse_elf[i] \in Loadable
  BY <1>1
<1> QED
  BY <1>1, <1>2, <1>3, <1>4, <1>6, <1>7

\* The pages the code puts things at.
LEMMA LayoutFacts ==
    /\ STACK_PAGES \in Nat \ {0} /\ {STACK, TLS_BASE, IPC_BUF} \subseteq Pages
    /\ STACK \in Pages /\ TLS_BASE \in Pages /\ IPC_BUF \in Pages
    /\ STACK \in Nat /\ IPC_BUF \in Nat /\ LastPage \in Nat
    /\ STACK + STACK_PAGES - 1 <= LastPage
  BY LoaderConstants, KernelConstants DEF Pages

\* What depends on the file only does not change.
LEMMA SameFile ==
    ASSUME UNCHANGED elf
    PROVE  /\ parse_elf' = parse_elf /\ SegPages' = SegPages /\ total_pages' = total_pages
           /\ Regular' = Regular
           /\ \A h, p : (Slice(h, p))' = Slice(h, p)
           /\ \A j, c : (Sourced(j, c))' <=> Sourced(j, c)
<1>1. parse_elf' = parse_elf
  BY DEF parse_elf
<1>2. SegPages' = SegPages
  BY <1>1 DEF SegPages
<1>3. total_pages' = total_pages
  BY <1>2 DEF total_pages
<1>4. Regular' = Regular
  BY <1>1 DEF Regular, PagesApart, WellFormed
<1>5. \A h, p : (Slice(h, p))' = Slice(h, p)
  BY DEF Slice, Copies, Source
<1>6. \A j, c : (Sourced(j, c))' <=> Sourced(j, c)
  BY <1>1, <1>2 DEF Sourced, Copies, Source, FilePage
<1> QED
  BY <1>1, <1>2, <1>3, <1>4, <1>5, <1>6

\* The bytes of a page, in the terms of a file that stays as it is.
LEMMA BytesOf ==
    ASSUME NEW k, NEW h, NEW page, NEW c \in Cells
    PROVE  PageBytesOf(k, h, page)[c] =
             IF Copies(h, page, c) THEN FileCell(k, elf, page, Source(h, page, c)) ELSE 0
  BY DEF PageBytesOf, Copies, Source

\* A page's bytes are a page.
LEMMA PageBytesType ==
    ASSUME elf \in Elves, NEW k \in Kernels, NEW h \in Loadable, NEW page \in Pages
    PROVE  PageBytesOf(k, h, page) \in [Cells -> Int]
<1>1. /\ page \in Int /\ h.vaddr \in Int /\ h.off \in Int /\ elf.at \in Int
      /\ PageCells \in Nat \ {0}
  <2>1. elf.at \in Nat
    BY LoaderInputs
  <2>2. h.vaddr \in Nat /\ h.off \in Nat
    BY DEF Loadable, Headers
  <2>3. page \in Nat /\ PageCells \in Nat \ {0}
    BY KernelConstants DEF Pages
  <2> QED
    BY <2>1, <2>2, <2>3
<1>2. ASSUME NEW c \in Cells
      PROVE  PageBytesOf(k, h, page)[c] \in Int
  <2> DEFINE o == Source(h, page, c)
  <2> DEFINE s == k.vmap["root"][FilePage(elf, o)]
  <2>1. o \in Int
    BY <1>1, SlotFacts DEF Source
  <2> HIDE DEF o
  <2>2. (elf.at + o) % PageCells \in Cells
    <3>1. elf.at + o \in Int
      BY <1>1, <2>1
    <3> QED
      BY <1>1, <3>1 DEF Cells
  <2>3. s \in Slots => CellAt(k, elf.at + o) \in Int
    <3>1. k.data \in [Slots -> [Cells -> Int]]
      BY DEF Kernels
    <3>2. s \in Slots => k.data[s][(elf.at + o) % PageCells] \in Int
      BY <2>2, <3>1
    <3> QED
      BY <3>2 DEF CellAt, FilePage
  <2>4. FileCell(k, elf, page, o) \in Int
    BY <2>1, <2>3 DEF FileCell, Torn
  <2> QED
    BY <2>4, BytesOf DEF o
<1>3. PageBytesOf(k, h, page) = [c \in Cells |-> PageBytesOf(k, h, page)[c]]
  BY DEF PageBytesOf
<1> QED
  BY <1>2, <1>3

\* The root's frames of k lie at the first j pages of the program.
FramesAmong(k, j) ==
  \A p \in Pages : k.vmap["root"][p] \in Slots => \E n \in 1..j : SegPages[n].page = p

\* The slice is what a page gets, in the cells whose source is intact.
LEMMA BytesSlice ==
    ASSUME NEW k, NEW j, NEW c \in Cells, Sourced(j, c), j \in 1..j, FramesAmong(k, j)
    PROVE  LET h == parse_elf[SegPages[j].seg]
               p == SegPages[j].page
           IN PageBytesOf(k, h, p)[c] = Slice(h, p)[c]
<1> DEFINE h == parse_elf[SegPages[j].seg]
<1> DEFINE p == SegPages[j].page
<1> DEFINE o == Source(h, p, c)
<1>1. /\ PageBytesOf(k, h, p)[c] = IF Copies(h, p, c) THEN FileCell(k, elf, p, o) ELSE 0
      /\ Slice(h, p)[c] = IF Copies(h, p, c) THEN o + 1 ELSE 0
  BY BytesOf DEF Slice
<1>2. ASSUME Copies(h, p, c)
      PROVE  FileCell(k, elf, p, o) = o + 1
  <2>1. \A n \in 1..j : SegPages[n].page # FilePage(elf, o)
    BY <1>2 DEF Sourced
  <2>2. FilePage(elf, o) # p
    BY <2>1
  <2>3. ~(FilePage(elf, o) \in Pages /\ k.vmap["root"][FilePage(elf, o)] \in Slots)
    BY <2>1 DEF FramesAmong
  <2> QED
    BY <2>2, <2>3 DEF FileCell
<1> QED
  BY <1>1, <1>2

\* What the allocator gives, and what is left.
LEMMA AllocFacts ==
    ASSUME recycled \in Seq(Slots)
    PROVE  /\ alloc(recycled) \in AnySlot /\ alloc(recycled) \in Int
           /\ after_alloc(recycled) \in Seq(Slots)
<1>1. alloc(recycled) \in AnySlot
  <2>1. CASE recycled = <<>>
    BY <2>1 DEF alloc, alloc_ok, AnySlot
  <2>2. CASE recycled # <<>>
    <3>1. Len(recycled) \in 1..Len(recycled)
      BY <2>2, EmptySeq
    <3> QED
      BY <2>2, <3>1 DEF alloc, alloc_ok, AnySlot
  <2> QED
    BY <2>1, <2>2
<1>2. AnySlot \subseteq Int
  BY SlotFacts DEF AnySlot, NoCap
<1>3. after_alloc(recycled) \in Seq(Slots)
  BY SubSeqProperties DEF after_alloc
<1> QED
  BY <1>1, <1>2, <1>3

-----------------------------------------------------------------------------
(***************************************************************************)
(* Initial states, and steps that leave most of the state alone.           *)
(***************************************************************************)
\* The invariant holds initially.
LEMMA InitInv == Init => IInv
<1> SUFFICES ASSUME Init PROVE IInv
  OBVIOUS
<1>1. PICK m \in Memories, t \in RootTables, image \in RootImages : kern = Booted(m, t, image)
  BY DEF Init
<1>2. /\ kern \in Kernels /\ Len(kern.untyped) \in Nat
      /\ \A p \in Pages : kern.vmap["root"][p] \notin Slots
  <2>1. \A p \in Pages : kern.vmap["root"][p] = IF p \in image THEN Image ELSE NoCap
    BY <1>1 DEF Booted, Spaces
  <2> QED
    BY <1>1, <2>1, LoaderInputs, BootedFacts, KernelTyped, SlotFacts
<1>3. PICK n \in FreeSlots : recycled = [i \in 1..n |-> EndSlot - i]
  BY DEF Init
<1>4. n \in Nat /\ \A i \in 1..n : EndSlot - i \in Slots
  BY LoaderInputs, KernelConstants DEF Slots
<1>5. recycled \in Seq(Slots)
  <2>1. recycled \in [1..n -> Slots]
    BY <1>3, <1>4
  <2> QED
    BY <1>4, <2>1, SeqDef
<1>6. \A i, j \in DOMAIN recycled : recycled[i] = recycled[j] => i = j
  BY <1>3, <1>4, KernelConstants
<1>7. total_pages \in Nat /\ STACK_PAGES \in Nat
  BY SegPagesFacts, LoaderConstants DEF Init
<1>8. TypeInv
  BY <1>2, <1>5, <1>7 DEF Init, TypeInv, PCs, AnySlot, NoTask
<1>9. PageMapInv
  BY <1>2 DEF Init, PageMapInv, Entries, PageMapTrue
<1>10. SpaceInv /\ TaskInv
  BY DEF Init, SpaceInv, TaskInv, StartedReady
<1>11. LoadInv
  BY <1>6 DEF Init, LoadInv, Loading
<1> QED
  BY <1>8, <1>9, <1>10, <1>11 DEF IInv

\* Once the segments are loaded and handed over, two parts say nothing more.
LEMMA LateStep ==
    ASSUME pc' \notin {"slots", "retype", "tcb"} \cup Loading
    PROVE  PageMapInv' /\ LoadInv'
  BY DEF PageMapInv, PageMapTrue, LoadInv, Loading

\* A step that gives up keeps the types.
LEMMA FailedStep ==
    ASSUME TypeInv', pc' \in {"failed", "fault"}
    PROVE  IInv'
<1>1. PageMapInv' /\ LoadInv'
  BY LateStep DEF Loading
<1>2. SpaceInv' /\ TaskInv'
  BY DEF SpaceInv, TaskInv, StartedReady
<1> QED
  BY <1>1, <1>2 DEF IInv

\* Steps between loading and the child's stack that only make objects and
\* page tables.
LEMMA QuietStep ==
    ASSUME IInv, UNCHANGED <<inputs, loading, done, task>>,
           pc \in Loading \ {"load"}, pc' \in (Loading \ {"load"}) \cup {"failed"},
           kern' \in Kernels, Len(kern'.untyped) = Len(kern.untyped),
           kern'.vmap = kern.vmap, kern'.data = kern.data, recycled' \in Seq(Slots)
    PROVE  IInv'
<1>1. TypeInv /\ PageMapInv /\ SpaceInv /\ LoadInv
  BY DEF IInv
<1>2. /\ UNCHANGED <<elf, own, frame_slots, ut_idx, page_map, done, task>>
  BY DEF inputs, loading
<1>3. /\ parse_elf' = parse_elf /\ SegPages' = SegPages /\ total_pages' = total_pages
      /\ Regular' = Regular /\ (\A h, p : (Slice(h, p))' = Slice(h, p))
      /\ \A j, c : (Sourced(j, c))' <=> Sourced(j, c)
  BY <1>2, SameFile
<1>4. done = 0 /\ own
  BY <1>1 DEF TypeInv, SpaceInv, Loading
<1>5. TypeInv'
  BY <1>1, <1>2, <1>3, <1>4 DEF TypeInv, Loading, PCs
<1>6. PageMapInv'
  BY <1>1, <1>2 DEF PageMapInv, PageMapTrue, Entries, Loading
<1>7. SpaceInv' /\ TaskInv'
  BY <1>2, <1>4 DEF SpaceInv, TaskInv, StartedReady, Loading
<1>8. LoadInv'
  <2> SUFFICES ASSUME Regular, pc' \in Loading, NEW j \in 1..total_pages
               PROVE  Holds(j)'
    BY <1>2, <1>3, <1>4 DEF LoadInv, LoadedTo, Loading
  <2>1. Holds(j)
    BY <1>1 DEF LoadInv, LoadedTo, Loading
  <2> QED
    BY <1>2, <1>3, <2>1 DEF Holds
<1> QED
  BY <1>5, <1>6, <1>7, <1>8 DEF IInv

\* An object made in a popped slot.
LEMMA MakeNextFacts ==
    ASSUME IInv, NEW ty \in CapTypes
    PROVE  Made(MakeNext(ty), kern, ty, alloc(recycled))
<1>1. kern \in Kernels /\ alloc(recycled) \in Int
  BY AllocFacts DEF IInv, TypeInv
<1> QED
  BY <1>1, MakeFacts DEF MakeNext

\* The CNode and the two upper levels of page tables.
LEMMA UpperLevelsStep ==
    ASSUME IInv, CreateCSpace \/ CreatePml4 \/ CreatePdpt \/ CreatePd
    PROVE  IInv'
<1>1. recycled \in Seq(Slots) /\ after_alloc(recycled) \in Seq(Slots) /\ kern \in Kernels
  BY AllocFacts DEF IInv, TypeInv
<1>2. ASSUME NEW ty \in CapTypes
      PROVE  LET r == MakeNext(ty) IN
             /\ r.k \in Kernels /\ Len(r.k.untyped) = Len(kern.untyped)
             /\ r.k.vmap = kern.vmap /\ r.k.data = kern.data
  BY <1>2, MakeNextFacts DEF Made, SameMemory
<1>3. CASE CreateCSpace
  <2>1. /\ pc = "cspace" /\ pc' \in {"pml4", "failed"} /\ recycled' \in Seq(Slots)
        /\ kern' = MakeNext("cnode").k /\ UNCHANGED <<inputs, loading, done, task>>
    BY <1>1, <1>3 DEF CreateCSpace, Pop, Goto
  <2> QED
    BY <1>2, <2>1, QuietStep DEF Loading, CapTypes
<1>4. CASE CreatePml4
  <2>1. /\ pc = "pml4" /\ pc' \in {"pdpt", "failed"} /\ recycled' \in Seq(Slots)
        /\ kern' = MakeNext("pml4").k /\ UNCHANGED <<inputs, loading, done, task>>
    BY <1>1, <1>4 DEF CreatePml4, Pop, Goto
  <2> QED
    BY <1>2, <2>1, QuietStep DEF Loading, CapTypes
<1>5. CASE CreatePdpt
  <2>1. PICK mapped \in BOOLEAN : Goto("pd", [MakeNext("pdpt") EXCEPT !.ok = @ /\ mapped])
    BY <1>5 DEF CreatePdpt
  <2>2. MakeNext("pdpt") \in [ok : BOOLEAN, k : {MakeNext("pdpt").k}]
    BY DEF MakeNext, Make, Retype, Fails, Succeeds
  <2>3. kern' = MakeNext("pdpt").k
    BY <2>1, <2>2 DEF Goto
  <2>4. /\ pc = "pdpt" /\ pc' \in {"pd", "failed"} /\ recycled' \in Seq(Slots)
        /\ UNCHANGED <<inputs, loading, done, task>>
    BY <1>1, <1>5, <2>1 DEF CreatePdpt, Pop, Goto
  <2> QED
    BY <1>2, <2>3, <2>4, QuietStep DEF Loading, CapTypes
<1>6. CASE CreatePd
  <2>1. /\ pc = "pd" /\ pc' \in {"pt", "failed"} /\ recycled' \in Seq(Slots)
        /\ kern' = kern \/ kern' = MakeNext("pd").k
        /\ UNCHANGED <<inputs, loading, done, task>>
    BY <1>1, <1>6 DEF CreatePd, Pop, Goto
  <2>2. /\ kern' \in Kernels /\ Len(kern'.untyped) = Len(kern.untyped)
        /\ kern'.vmap = kern.vmap /\ kern'.data = kern.data
    BY <1>1, <1>2, <2>1 DEF CapTypes
  <2> QED
    BY <2>1, <2>2, QuietStep DEF Loading
<1> QED
  BY <1>3, <1>4, <1>5, <1>6

\* The next page table of the child.
LEMMA CreateTableStep ==
    ASSUME IInv, CreateTable
    PROVE  IInv'
<1> DEFINE region == CHOOSE r \in Untabled : \A q \in Untabled : r <= q
<1> DEFINE slot == alloc(recycled)
<1> DEFINE r0 == MakeNext("pt")
<1>1. /\ recycled \in Seq(Slots) /\ after_alloc(recycled) \in Seq(Slots) /\ kern \in Kernels
      /\ page_map \in [Pages -> AnySlot]
  BY AllocFacts DEF IInv, TypeInv
<1>2. Untabled \subseteq Regions /\ Untabled # {}
  BY RegionFacts DEF CreateTable, Untabled, PtRegions, Entries
<1>3. region \in Regions
  <2>1. Untabled \in SUBSET Nat
    BY <1>2 DEF Regions
  <2>2. \E x \in Untabled : \A q \in Untabled : x <= q
    BY <1>2, <2>1, LeastOf
  <2> QED
    BY <1>2, <2>2
<1>4. Made(r0, kern, "pt", slot)
  BY MakeNextFacts DEF CapTypes
<1> HIDE DEF region
<1> DEFINE r == IF r0.ok THEN PageTable_Map(r0.k, slot, "child", region) ELSE r0
<1>5. /\ pc = "pt" /\ recycled' = after_alloc(recycled)
      /\ kern' = r.k /\ pc' \in {"pt", "failed"} /\ UNCHANGED <<inputs, loading, done, task>>
  BY DEF CreateTable, Pop, Goto, ThenDo, region
<1>6. /\ r.k \in Kernels /\ Len(r.k.untyped) = Len(kern.untyped)
      /\ r.k.vmap = kern.vmap /\ r.k.data = kern.data
  <2>1. /\ r0.k \in Kernels /\ Len(r0.k.untyped) = Len(kern.untyped)
        /\ r0.k.vmap = kern.vmap /\ r0.k.data = kern.data
    BY <1>4 DEF Made, SameMemory
  <2> HIDE DEF r0
  <2>2. CASE ~r0.ok
    BY <2>1, <2>2
  <2>3. CASE r0.ok
    <3>1. TableMapped(PageTable_Map(r0.k, slot, "child", region), r0.k, slot, "child", region)
      BY <1>3, <2>1, PageTableMapFacts DEF Spaces
    <3> QED
      BY <2>1, <2>3, <3>1 DEF TableMapped, SameObjects
  <2> QED
    BY <2>2, <2>3
<1> HIDE DEF r
<1> QED
  BY <1>1, <1>5, <1>6, QuietStep DEF Loading

-----------------------------------------------------------------------------
(***************************************************************************)
(* Step 1: the segments are loaded.                                        *)
(***************************************************************************)
\* A slot for every page: the slots are distinct.
LEMMA AllocSlotsStep ==
    ASSUME IInv, AllocSlots
    PROVE  IInv'
<1>1. /\ TypeInv /\ PageMapInv /\ LoadInv /\ pc = "slots" /\ recycled \in Seq(Slots)
      /\ elf \in Elves /\ UNCHANGED <<kern, elf, own, ut_idx, done, page_map, task>>
  BY DEF IInv, TypeInv, AllocSlots, inputs
<1>2. total_pages \in Nat /\ total_pages' = total_pages
  BY <1>1, SegPagesFacts, SameFile
<1>3. CASE elf.magic /\ total_pages <= Len(recycled)
  <2> DEFINE L == Len(recycled)
  <2>1. /\ frame_slots' = [i \in 1..total_pages |-> recycled[L + 1 - i]]
        /\ recycled' = SubSeq(recycled, 1, L - total_pages) /\ pc' = "retype"
    BY <1>3 DEF AllocSlots
  <2>2. L \in Nat /\ total_pages <= L
    BY <1>1, <1>3
  <2>3. \A i \in 1..total_pages : L + 1 - i \in 1..L
    BY <1>2, <2>2
  <2>4. frame_slots' \in [1..total_pages -> Slots]
    BY <1>1, <2>1, <2>3
  <2>5. frame_slots' \in Seq(Slots) /\ Len(frame_slots') = total_pages
    BY <1>2, <2>4, SeqDef
  <2>6. recycled' \in Seq(Slots)
    <3>1. \A i \in 1..(L - total_pages) : recycled[i] \in Slots
      BY <1>1, <1>2, <2>2
    <3> QED
      BY <1>2, <2>1, <2>2, <3>1, SubSeqProperties
  <2>7. ASSUME NEW i \in DOMAIN frame_slots', NEW j \in DOMAIN frame_slots',
               frame_slots'[i] = frame_slots'[j]
        PROVE  i = j
    <3>1. i \in 1..total_pages /\ j \in 1..total_pages
      BY <2>1
    <3>2. recycled[L + 1 - i] = recycled[L + 1 - j]
      BY <2>1, <2>7, <3>1
    <3>3. L + 1 - i = L + 1 - j
      BY <1>1, <2>3, <3>1, <3>2 DEF LoadInv
    <3> QED
      BY <2>2, <3>1, <3>3
  <2>8. TypeInv'
    BY <1>1, <1>2, <2>1, <2>5, <2>6 DEF TypeInv, PCs
  <2>9. PageMapInv'
    BY <1>1, <2>1 DEF PageMapInv, PageMapTrue, Entries
  <2>10. SpaceInv' /\ TaskInv'
    BY <2>1 DEF SpaceInv, TaskInv, StartedReady
  <2>11. LoadInv'
    BY <2>1, <2>7 DEF LoadInv, Loading
  <2> QED
    BY <2>8, <2>9, <2>10, <2>11 DEF IInv
<1>4. CASE ~(elf.magic /\ total_pages <= Len(recycled))
  <2>1. pc' = "failed" /\ recycled' \in Seq(Slots) /\ frame_slots' = frame_slots
    BY <1>1, <1>4, EmptySeq DEF AllocSlots
  <2>2. TypeInv'
    BY <1>1, <1>2, <2>1 DEF TypeInv, PCs
  <2> QED
    BY <2>1, <2>2, FailedStep
<1> QED
  BY <1>3, <1>4

\* The list of untypeds is no longer than the untypeds.
LEMMA UntypedListFacts ==
    ASSUME kern \in Kernels
    PROVE  Len(untyped_list) \in 0..Len(kern.untyped)
<1>1. DOMAIN kern.untyped = 1..Len(kern.untyped) /\ Len(kern.untyped) \in Nat
  BY KernelTyped
<1> DEFINE N == Len(kern.untyped)
<1>2. IsFiniteSet(1..N) /\ Cardinality(1..N) = N
  <2>1. N \in Int /\ N >= 0 /\ 1 \in Int
    BY <1>1
  <2> HIDE DEF N
  <2>2. IsFiniteSet(1..N) /\ Cardinality(1..N) = IF 1 > N THEN 0 ELSE N - 1 + 1
    BY <2>1, FS_Interval
  <2> QED
    BY <2>1, <2>2
<1>3. Usable \subseteq 1..N
  BY <1>1 DEF Usable
<1>4. IsFiniteSet(Usable) /\ Cardinality(Usable) <= N /\ Cardinality(Usable) \in Nat
  BY <1>2, <1>3, FS_Subset, FS_CardinalityType
<1>5. Len(untyped_list) = Cardinality(Usable)
  BY <1>4 DEF untyped_list
<1> QED
  BY <1>1, <1>4, <1>5

\* A frame, or the next untyped.
LEMMA RetypeFrameStep ==
    ASSUME IInv, RetypeFrame
    PROVE  IInv'
<1> DEFINE r == Retype(kern, untyped_list[ut_idx], "frame", frame_slots[done + 1], 1)
<1>1. /\ TypeInv /\ PageMapInv /\ LoadInv /\ pc = "retype" /\ pc' = pc
      /\ done < total_pages /\ ut_idx <= Len(untyped_list)
      /\ kern' = r.k
      /\ done' = IF r.ok THEN done + 1 ELSE done
      /\ ut_idx' = IF r.ok THEN ut_idx ELSE ut_idx + 1
      /\ UNCHANGED <<recycled, elf, own, frame_slots, page_map, task>>
  BY DEF IInv, RetypeFrame, inputs
<1>2. /\ kern \in Kernels /\ elf \in Elves /\ frame_slots \in Seq(Slots) /\ done \in Nat
      /\ Len(frame_slots) = total_pages /\ ut_idx \in Nat \ {0}
  BY <1>1 DEF TypeInv
<1>3. total_pages \in Nat /\ total_pages' = total_pages /\ STACK_PAGES \in Nat
  BY <1>1, <1>2, SegPagesFacts, SameFile, LoaderConstants
<1>4. frame_slots[done + 1] \in Slots /\ frame_slots[done + 1] \in Int
  <2>1. done + 1 \in 1..Len(frame_slots)
    BY <1>1, <1>2, <1>3
  <2>2. frame_slots[done + 1] \in Slots
    <3> HIDE DEF r
    <3> QED
      BY <1>2, <2>1
  <2>3. Slots \subseteq Int
    BY SlotFacts
  <2> HIDE DEF r
  <2> QED
    BY <2>2, <2>3
<1>5. Retyped(r, kern, "frame", frame_slots[done + 1], 1)
  <2> DEFINE ut == untyped_list[ut_idx]
  <2> DEFINE slot == frame_slots[done + 1]
  <2>1. slot \in Int /\ 1 \in Nat \ {0} /\ "frame" \in CapTypes
    BY <1>4 DEF CapTypes
  <2>2. r = Retype(kern, ut, "frame", slot, 1)
    OBVIOUS
  <2> HIDE DEF ut, slot, r
  <2>3. Retyped(r, kern, "frame", slot, 1)
    BY <1>2, <2>1, <2>2, RetypeFacts
  <2> QED
    BY <2>3 DEF slot
<1>6. r.k \in Kernels /\ Len(r.k.untyped) = Len(kern.untyped) /\ r.k.vmap = kern.vmap
  BY <1>5 DEF Retyped, SameMemory
<1> HIDE DEF r
<1>7. Len(untyped_list) \in 0..Len(kern.untyped) /\ Len(kern.untyped) \in Nat
  BY <1>2, UntypedListFacts, KernelTyped
<1>8. ut_idx' \in 1..(Len(kern'.untyped) + 1)
  BY <1>1, <1>2, <1>6, <1>7
<1>9. done' \in 0..total_pages
  BY <1>1, <1>2, <1>3
<1>10. TypeInv'
  BY <1>1, <1>3, <1>6, <1>8, <1>9 DEF TypeInv
<1>11. PageMapInv'
  BY <1>1, <1>6 DEF PageMapInv, PageMapTrue, Entries
<1>12. SpaceInv' /\ TaskInv'
  BY <1>1 DEF SpaceInv, TaskInv, StartedReady
<1>13. LoadInv'
  BY <1>1 DEF LoadInv, Loading
<1> QED
  BY <1>10, <1>11, <1>12, <1>13 DEF IInv

\* All frames are there, or memory has run out.
LEMMA RetypeEndStep ==
    ASSUME IInv, RetypeEnd
    PROVE  IInv'
<1>1. /\ TypeInv /\ PageMapInv /\ LoadInv /\ pc = "retype" /\ pc' \in {"failed", "load"}
      /\ done' = 0 /\ UNCHANGED <<kern, recycled, elf, own, frame_slots, ut_idx, page_map, task>>
  BY DEF IInv, RetypeEnd, inputs, loading
<1>2. total_pages \in Nat /\ total_pages' = total_pages /\ STACK_PAGES \in Nat
  BY <1>1, SegPagesFacts, SameFile, LoaderConstants DEF TypeInv
<1>3. TypeInv'
  BY <1>1, <1>2 DEF TypeInv, PCs
<1>4. PageMapInv'
  BY <1>1, SlotFacts DEF PageMapInv, PageMapTrue, Entries
<1>5. SpaceInv' /\ TaskInv'
  BY <1>1 DEF SpaceInv, TaskInv, StartedReady
<1>6. LoadInv'
  <2>1. pc' = "load" => LoadedTo' = 0
    BY <1>1 DEF LoadedTo
  <2> QED
    BY <1>1, <2>1 DEF LoadInv, Loading
<1> QED
  BY <1>3, <1>4, <1>5, <1>6 DEF IInv

\* Pages of different places in the list are different pages of a regular file.
LEMMA DistinctPages ==
    ASSUME elf \in Elves, Regular,
           NEW i \in 1..total_pages, NEW j \in 1..total_pages, i # j
    PROVE  SegPages[i].page # SegPages[j].page
<1>1. /\ WalkOK(SegPages, parse_elf, Len(parse_elf)) /\ DOMAIN SegPages = 1..total_pages
      /\ parse_elf \in Seq(Loadable)
      /\ SegPages[i].seg \in 1..Len(parse_elf) /\ SegPages[j].seg \in 1..Len(parse_elf)
  BY SegPagesFacts DEF total_pages
<1>2. /\ SegPages[i].page \in page_range(parse_elf[SegPages[i].seg])
      /\ SegPages[j].page \in page_range(parse_elf[SegPages[j].seg])
      /\ SegPages[i].seg = SegPages[j].seg => SegPages[i].page # SegPages[j].page
  BY <1>1 DEF WalkOK
<1>3. DOMAIN parse_elf = 1..Len(parse_elf)
  BY <1>1
<1> DEFINE a == SegPages[i].seg
<1> DEFINE b == SegPages[j].seg
<1>4. a # b => page_range(parse_elf[a]) \cap page_range(parse_elf[b]) = {}
  BY <1>1, <1>3 DEF Regular, PagesApart
<1> QED
  BY <1>2, <1>4

\* One page is mapped, filled and entered in the map.
LEMMA LoadPageStep ==
    ASSUME IInv, LoadPage
    PROVE  IInv'
<1> DEFINE page == SegPages[done + 1].page
<1> DEFINE seg == parse_elf[SegPages[done + 1].seg]
<1> DEFINE slot == frame_slots[done + 1]
<1> DEFINE r == Frame_Map(kern, slot, "root", page)
<1> DEFINE bytes == PageBytesOf(r.k, seg, page)
<1>1. /\ TypeInv /\ PageMapInv /\ LoadInv /\ pc = "load" /\ done < total_pages
      /\ done' = done + 1
      /\ UNCHANGED <<recycled, elf, own, frame_slots, ut_idx, task>>
  BY DEF IInv, LoadPage, inputs
<1>2. /\ kern \in Kernels /\ elf \in Elves /\ frame_slots \in Seq(Slots) /\ done \in Nat
      /\ Len(frame_slots) = total_pages /\ page_map \in [Pages -> AnySlot]
  BY <1>1 DEF TypeInv
<1>3. /\ parse_elf' = parse_elf /\ SegPages' = SegPages /\ total_pages' = total_pages
      /\ Regular' = Regular /\ (\A h, p : (Slice(h, p))' = Slice(h, p))
      /\ \A j, c : (Sourced(j, c))' <=> Sourced(j, c)
  BY <1>1, SameFile
<1>4. total_pages \in Nat /\ STACK_PAGES \in Nat /\ done + 1 \in 1..total_pages
  BY <1>1, <1>2, SegPagesFacts, LoaderConstants
<1>5. page \in Pages /\ seg \in Loadable
  BY <1>2, <1>4, SegPagesFacts
<1>7. slot \in Slots
  <2>1. done + 1 \in 1..Len(frame_slots)
    BY <1>2, <1>4
  <2> QED
    BY <1>2, <2>1
<1>8. FrameMapped(r, kern, slot, "root", page)
  <2>1. "root" \in Spaces
    BY DEF Spaces
  <2> HIDE DEF page, slot
  <2> QED
    BY <1>2, <1>5, <2>1, FrameMapFacts
<1>6. bytes \in [Cells -> Int]
  <2>1. r.k \in Kernels
    BY <1>8 DEF FrameMapped
  <2> HIDE DEF page, seg, r
  <2> QED
    BY <1>2, <1>5, <2>1, PageBytesType
<1>9. /\ kern' = [r EXCEPT !.k = IF r.ok THEN Stored(@, page, bytes) ELSE @].k
      /\ pc' = IF [r EXCEPT !.k = IF r.ok THEN Stored(@, page, bytes) ELSE @].ok
               THEN "load" ELSE "failed"
      /\ page_map' = IF r.ok THEN [page_map EXCEPT ![page] = slot] ELSE page_map
  BY DEF LoadPage, Goto, Entered
<1>10. r \in [ok : BOOLEAN, k : {r.k}]
  BY DEF Frame_Map, Fails, Succeeds
<1> HIDE DEF r, page, seg, slot, bytes
<1>11. /\ kern' = IF r.ok THEN Stored(r.k, page, bytes) ELSE r.k
       /\ pc' = IF r.ok THEN "load" ELSE "failed"
  BY <1>9, <1>10
<1>12. CASE ~r.ok
  <2>1. pc' = "failed" /\ kern' = kern /\ page_map' = page_map
    BY <1>8, <1>9, <1>11, <1>12 DEF FrameMapped
  <2>2. TypeInv'
    BY <1>1, <1>3, <1>4, <2>1 DEF TypeInv, PCs
  <2> QED
    BY <2>1, <2>2, FailedStep
<1>13. CASE r.ok
  <2>1. /\ pc' = "load" /\ kern' = Stored(r.k, page, bytes)
        /\ page_map' = [page_map EXCEPT ![page] = slot]
    BY <1>9, <1>11, <1>13
  <2>2. /\ r.k \in Kernels /\ r.k.untyped = kern.untyped /\ r.k.data = kern.data
        /\ r.k.vmap = [kern.vmap EXCEPT !["root"][page] = slot]
    BY <1>8, <1>13 DEF FrameMapped, SameObjects
  <2>3. kern.vmap \in [Spaces -> [Pages -> Slots \cup {NoCap, Image}]]
        /\ kern.data \in [Slots -> [Cells -> Int]]
    BY <1>2 DEF Kernels
  <2>4. /\ r.k.vmap["root"][page] = slot
        /\ \A p \in Pages : p # page => r.k.vmap["root"][p] = kern.vmap["root"][p]
    BY <1>5, <2>2, <2>3 DEF Spaces
  <2>5. StoredAt(kern', r.k, page, bytes)
    BY <1>6, <2>1, <2>2, StoredFacts
  <2>6. /\ kern' \in Kernels /\ kern'.untyped = kern.untyped
        /\ kern'.vmap = r.k.vmap /\ kern'.data = [kern.data EXCEPT ![slot] = bytes]
    BY <1>7, <2>2, <2>4, <2>5 DEF StoredAt, SameObjects
  <2>7. page_map' \in [Pages -> AnySlot]
    BY <1>2, <1>5, <1>7, <2>1 DEF AnySlot
  <2>8. TypeInv'
    BY <1>1, <1>3, <1>4, <2>1, <2>6, <2>7 DEF TypeInv
  <2>14. \A p \in Pages : r.k.vmap["root"][p] \in Slots =>
                          \E j \in 1..(done + 1) : SegPages[j].page = p
    <3>1. \A p \in Pages : kern.vmap["root"][p] \in Slots => \E j \in 1..done : SegPages[j].page = p
      BY <1>1 DEF PageMapInv
    <3>2. done + 1 \in 1..(done + 1) /\ SegPages[done + 1].page = page
      BY <1>2 DEF page
    <3>3. \A j \in 1..done : j \in 1..(done + 1)
      BY <1>2
    <3> QED
      BY <2>4, <3>1, <3>2, <3>3
  <2>9. PageMapInv'
    <3>1. \A p \in Pages : page_map[p] # NoCap => kern.vmap["root"][p] = page_map[p]
      BY <1>1 DEF PageMapInv, PageMapTrue, Entries
    <3>2. ASSUME NEW p \in Pages, page_map'[p] # NoCap
          PROVE  kern'.vmap["root"][p] = page_map'[p]
      <4>1. CASE p = page
        BY <1>2, <1>5, <2>1, <2>4, <2>6, <4>1
      <4>2. CASE p # page
        <5>1. page_map'[p] = page_map[p]
          BY <1>2, <2>1, <4>2
        <5> QED
          BY <2>4, <2>6, <3>1, <3>2, <4>2, <5>1
      <4> QED
        BY <4>1, <4>2
    <3>3. \A p \in Pages : kern'.vmap["root"][p] \in Slots =>
                           \E j \in 1..(done + 1) : SegPages[j].page = p
      BY <2>4, <2>6, <2>14
    <3> QED
      BY <1>1, <1>3, <2>1, <3>2, <3>3 DEF PageMapInv, PageMapTrue, Entries
  <2>10. SpaceInv' /\ TaskInv'
    BY <2>1 DEF SpaceInv, TaskInv, StartedReady
  <2>11. LoadInv'
    <3>1. \A i, j \in DOMAIN frame_slots : frame_slots[i] = frame_slots[j] => i = j
      BY <1>1 DEF LoadInv
    <3>2. DOMAIN frame_slots = 1..total_pages
      BY <1>2
    <3>3. ASSUME Regular, NEW j \in 1..(done + 1)
          PROVE  Holds(j)'
      <4>1. j \in 1..total_pages /\ j \in DOMAIN frame_slots
        BY <1>2, <1>4, <3>2
      <4>2. frame_slots[j] \in Slots /\ SegPages[j].page \in Pages
        BY <1>2, <4>1, SegPagesFacts
      <4>3. CASE j = done + 1
        <5>1. SegPages[j].page = page /\ frame_slots[j] = slot /\ parse_elf[SegPages[j].seg] = seg
          BY <4>3 DEF page, slot, seg
        <5>2. kern'.data[slot] = bytes
          BY <1>7, <2>3, <2>6
        <5>3. \A c \in Cells : Sourced(j, c) => bytes[c] = Slice(seg, page)[c]
          <6>1. j \in 1..j
            BY <1>2
          <6>2. FramesAmong(r.k, j)
            BY <2>14, <4>3 DEF FramesAmong
          <6>3. bytes = PageBytesOf(r.k, parse_elf[SegPages[j].seg], SegPages[j].page)
            BY <5>1 DEF bytes
          <6>4. ASSUME NEW c \in Cells, Sourced(j, c)
                PROVE  PageBytesOf(r.k, parse_elf[SegPages[j].seg], SegPages[j].page)[c] =
                       Slice(parse_elf[SegPages[j].seg], SegPages[j].page)[c]
            BY <6>1, <6>2, <6>4, BytesSlice
          <6> QED
            BY <5>1, <6>3, <6>4
        <5> QED
          BY <1>1, <1>3, <2>4, <2>6, <4>1, <5>1, <5>2, <5>3 DEF Holds
      <4>4. CASE j # done + 1
        <5>1. j \in 1..done
          BY <1>2, <4>4
        <5>2. Holds(j)
          BY <1>1, <3>3, <5>1 DEF LoadInv, LoadedTo, Loading
        <5>3. frame_slots[j] # slot
          BY <1>4, <3>1, <3>2, <4>1, <4>4 DEF slot
        <5>4. SegPages[j].page # page
          BY <1>2, <1>4, <3>3, <4>1, <4>4, DistinctPages DEF page
        <5>5. kern'.data[frame_slots[j]] = kern.data[frame_slots[j]]
          BY <2>3, <2>6, <4>2, <5>3
        <5> QED
          BY <1>1, <1>3, <2>4, <2>6, <4>1, <4>2, <5>2, <5>4, <5>5 DEF Holds
      <4> QED
        BY <4>3, <4>4
    <3>4. LoadedTo' = done + 1
      BY <1>1, <2>1 DEF LoadedTo
    <3> QED
      BY <1>1, <1>3, <2>1, <3>1, <3>3, <3>4 DEF LoadInv
  <2> QED
    BY <2>8, <2>9, <2>10, <2>11 DEF IInv
<1> QED
  BY <1>12, <1>13

\* The segments are loaded: the child gets its own spaces, or the root's.
LEMMA LoadedStep ==
    ASSUME IInv, Loaded
    PROVE  IInv'
<1>1. /\ TypeInv /\ PageMapInv /\ LoadInv /\ pc = "load" /\ done = total_pages
      /\ pc' = IF own THEN "cspace" ELSE "tcb"
      /\ done' = 0 /\ UNCHANGED <<kern, recycled, elf, own, frame_slots, ut_idx, page_map, task>>
  BY DEF IInv, Loaded, inputs, loading
<1>2. /\ parse_elf' = parse_elf /\ SegPages' = SegPages /\ total_pages' = total_pages
      /\ Regular' = Regular /\ (\A h, p : (Slice(h, p))' = Slice(h, p))
      /\ \A j, c : (Sourced(j, c))' <=> Sourced(j, c)
  BY <1>1, SameFile
<1>3. total_pages \in Nat /\ STACK_PAGES \in Nat
  BY <1>1, SegPagesFacts, LoaderConstants DEF TypeInv
<1>4. TypeInv'
  BY <1>1, <1>2, <1>3 DEF TypeInv, PCs
<1>5. PageMapInv'
  BY <1>1 DEF PageMapInv, PageMapTrue, Entries
<1>6. SpaceInv' /\ TaskInv'
  BY <1>1 DEF SpaceInv, TaskInv, StartedReady
<1>7. LoadedTo' = LoadedTo
  BY <1>1, <1>2 DEF LoadedTo
<1>8. LoadInv'
  <2>1. Regular => \A j \in 1..LoadedTo : Holds(j)
    BY <1>1 DEF LoadInv, Loading
  <2>2. \A j : Holds(j)' <=> Holds(j)
    BY <1>1, <1>2 DEF Holds
  <2> QED
    BY <1>1, <1>2, <1>7, <2>1, <2>2 DEF LoadInv
<1> QED
  BY <1>4, <1>5, <1>6, <1>8 DEF IInv

-----------------------------------------------------------------------------
(***************************************************************************)
(* Step 3: the child's address space.                                      *)
(***************************************************************************)
\* The loaded frames are offered to the child.
LEMMA RemapStep ==
    ASSUME IInv, RemapFrames
    PROVE  IInv'
<1> DEFINE able(p) == p \in Entries /\ CanMap(kern, page_map[p], "child", p)
<1> DEFINE child == [p \in Pages |-> IF able(p) THEN page_map[p] ELSE kern.vmap["child"][p]]
<1> DEFINE vmap == [kern.vmap EXCEPT !["child"] = child]
<1> DEFINE at == [s \in Slots |-> IF \E p \in Pages : able(p) /\ page_map[p] = s
                                  THEN <<"child", CHOOSE p \in Pages : able(p) /\ page_map[p] = s>>
                                  ELSE kern.at[s]]
<1>1. /\ TypeInv /\ SpaceInv /\ pc = "pt" /\ pc' = "vstack"
      /\ kern' = [kern EXCEPT !.vmap = vmap, !.at = at]
      /\ UNCHANGED <<recycled, elf, own, frame_slots, ut_idx, page_map, done, task>>
  BY DEF IInv, RemapFrames, inputs, loading
<1>2. kern \in Kernels /\ page_map \in [Pages -> AnySlot] /\ elf \in Elves
  BY <1>1 DEF TypeInv
<1>3. vmap \in [Spaces -> [Pages -> Slots \cup {NoCap, Image}]]
  <2>1. kern.vmap \in [Spaces -> [Pages -> Slots \cup {NoCap, Image}]]
    BY <1>2 DEF Kernels
  <2>2. child \in [Pages -> Slots \cup {NoCap, Image}]
    <3> HIDE DEF able
    <3> QED
      BY <1>2, <2>1 DEF AnySlot, Spaces
  <2> HIDE DEF child
  <2> QED
    BY <2>1, <2>2
<1>4. at \in [Slots -> Places]
  <2>1. kern.at \in [Slots -> Places] /\ Pages \subseteq Nat
    BY <1>2, SlotFacts DEF Kernels
  <2>2. \A s \in Slots : (\E p \in Pages : able(p) /\ page_map[p] = s) =>
          (CHOOSE p \in Pages : able(p) /\ page_map[p] = s) \in Pages
    <3> HIDE DEF able
    <3> QED
      OBVIOUS
  <2> HIDE DEF able
  <2>3. \A p \in Pages : <<"child", p>> \in Places
    BY <2>1 DEF Places, Spaces
  <2> QED
    BY <2>1, <2>2, <2>3
<1> HIDE DEF vmap, at
<1>5. kern' \in Kernels /\ kern'.untyped = kern.untyped
  BY <1>1, <1>2, <1>3, <1>4 DEF Kernels
<1>6. total_pages \in Nat /\ total_pages' = total_pages /\ STACK_PAGES \in Nat /\ done = 0
  BY <1>1, SegPagesFacts, SameFile, LoaderConstants DEF TypeInv
<1>7. TypeInv'
  BY <1>1, <1>5, <1>6 DEF TypeInv, PCs
<1>8. PageMapInv' /\ LoadInv'
  BY <1>1, LateStep DEF Loading
<1>9. SpaceInv' /\ TaskInv'
  BY <1>1, <1>6 DEF SpaceInv, TaskInv, StartedReady
<1> QED
  BY <1>7, <1>8, <1>9 DEF IInv

\* A frame made in a popped slot and mapped.
LEMMA MadeAndMapped ==
    ASSUME IInv, NEW vs \in Spaces, NEW page \in Pages, NEW r,
           r = IF MakeNext("frame").ok
               THEN Frame_Map(MakeNext("frame").k, alloc(recycled), vs, page)
               ELSE MakeNext("frame")
    PROVE  FrameMade(r, kern, alloc(recycled), vs, page)
<1>1. kern \in Kernels /\ alloc(recycled) \in Int
  BY AllocFacts DEF IInv, TypeInv
<1>2. r = MakeFrame(kern, alloc(recycled), vs, page)
  BY DEF MakeFrame, MakeNext
<1> QED
  BY <1>1, <1>2, MakeFrameFacts

\* What a frame of the child does to the state, whether or not it gets that far.
LEMMA ChildFrameFacts ==
    ASSUME IInv, NEW page \in Pages, NEW cells \in [Cells -> Int], NEW next,
           ChildFrame(page, cells, next)
    PROVE  /\ kern' \in Kernels /\ Len(kern'.untyped) = Len(kern.untyped)
           /\ kern'.pts = kern.pts /\ recycled' \in Seq(Slots)
           /\ pc' \in {next, "failed", "fault"}
           /\ pc' \notin {"failed", "fault"} => kern.pts["child"][Region(page)] # NoCap
<1> DEFINE r == IF MakeNext("frame").ok
                THEN Frame_Map(MakeNext("frame").k, alloc(recycled), "child", page)
                ELSE MakeNext("frame")
<1>1. FrameMade(r, kern, alloc(recycled), "child", page)
  BY MadeAndMapped DEF Spaces
<1>2. /\ recycled' = after_alloc(recycled)
      /\ kern' = IF r.ok /\ Readable(r.k, page) THEN Stored(r.k, page, cells) ELSE r.k
      /\ pc' = IF ~r.ok THEN "failed" ELSE IF Readable(r.k, page) THEN next ELSE "fault"
  BY DEF ChildFrame, ThenDo, Pop
<1> HIDE DEF r
<1>3. /\ r.k \in Kernels /\ Len(r.k.untyped) = Len(kern.untyped) /\ r.k.pts = kern.pts
      /\ r.ok => kern.pts["child"][Region(page)] # NoCap
  BY <1>1 DEF FrameMade
<1>4. StoredAt(Stored(r.k, page, cells), r.k, page, cells)
  BY <1>3, StoredFacts
<1>5. kern' \in Kernels /\ Len(kern'.untyped) = Len(kern.untyped) /\ kern'.pts = kern.pts
  BY <1>2, <1>3, <1>4 DEF StoredAt, SameObjects
<1>6. recycled' \in Seq(Slots)
  BY <1>2, AllocFacts DEF IInv, TypeInv
<1> QED
  BY <1>2, <1>3, <1>5, <1>6

\* The child's stack and TLS page: they need a page table for the stack's region.
LEMMA ChildPagesStep ==
    ASSUME IInv, ChildStack \/ ChildTls
    PROVE  IInv'
<1>1. /\ TypeInv /\ SpaceInv /\ pc = "vstack"
      /\ UNCHANGED <<elf, own, frame_slots, ut_idx, page_map, task>>
  BY DEF IInv, ChildStack, ChildTls, inputs, loading
<1>2. /\ total_pages \in Nat /\ total_pages' = total_pages /\ own /\ done \in Nat
      /\ STACK_PAGES \in Nat \ {0} /\ STACK \in Pages /\ TLS_BASE \in Pages
      /\ STACK \in Nat /\ LastPage \in Nat /\ STACK + STACK_PAGES - 1 <= LastPage
  <2>1. total_pages \in Nat /\ total_pages' = total_pages /\ own /\ done \in Nat
    BY <1>1, SegPagesFacts, SameFile DEF TypeInv, SpaceInv
  <2> QED
    BY <2>1, LayoutFacts
<1>3. ZeroPage \in [Cells -> Int] /\ [c \in Cells |-> IF c = 0 THEN TlsSelf ELSE 0] \in [Cells -> Int]
  BY DEF ZeroPage, TlsSelf
<1>4. CASE ChildStack
  <2>1. done < STACK_PAGES /\ ChildFrame(STACK + done, ZeroPage, "vstack") /\ done' = done + 1
    BY <1>4 DEF ChildStack
  <2>2. STACK + done \in Pages
    BY <1>2, <2>1 DEF Pages
  <2>3. /\ kern' \in Kernels /\ Len(kern'.untyped) = Len(kern.untyped)
        /\ kern'.pts = kern.pts /\ recycled' \in Seq(Slots)
        /\ pc' \in {"vstack", "failed", "fault"}
        /\ pc' \notin {"failed", "fault"} => kern.pts["child"][Region(STACK + done)] # NoCap
    BY <1>3, <2>1, <2>2, ChildFrameFacts
  <2>4. TypeInv'
    BY <1>1, <1>2, <2>1, <2>3 DEF TypeInv, PCs
  <2>5. CASE pc' \in {"failed", "fault"}
    BY <2>4, <2>5, FailedStep
  <2>6. CASE pc' = "vstack"
    <3>1. kern'.pts["child"][Region(STACK)] # NoCap
      <4>1. CASE done = 0
        <5>1. STACK + done = STACK
          BY <1>2, <4>1
        <5> QED
          BY <2>3, <2>6, <5>1
      <4>2. CASE done > 0
        BY <1>1, <1>2, <2>3, <4>2 DEF SpaceInv
      <4> QED
        BY <1>2, <4>1, <4>2
    <3>2. SpaceInv' /\ TaskInv'
      BY <1>1, <1>2, <2>6, <3>1 DEF SpaceInv, TaskInv, StartedReady
    <3>3. PageMapInv' /\ LoadInv'
      BY <2>6, LateStep DEF Loading
    <3> QED
      BY <2>4, <3>2, <3>3 DEF IInv
  <2> QED
    BY <2>3, <2>5, <2>6
<1>5. CASE ChildTls
  <2> DEFINE cells == [c \in Cells |-> IF c = 0 THEN TlsSelf ELSE 0]
  <2>1. done = STACK_PAGES /\ ChildFrame(TLS_BASE, cells, "tcb") /\ done' = 0
    BY <1>5 DEF ChildTls
  <2>2. cells \in [Cells -> Int]
    BY <1>3
  <2> HIDE DEF cells
  <2>3. /\ kern' \in Kernels /\ Len(kern'.untyped) = Len(kern.untyped)
        /\ kern'.pts = kern.pts /\ recycled' \in Seq(Slots)
        /\ pc' \in {"tcb", "failed", "fault"}
    BY <1>2, <2>1, <2>2, ChildFrameFacts
  <2>4. TypeInv'
    BY <1>1, <1>2, <2>1, <2>3 DEF TypeInv, PCs
  <2>5. CASE pc' \in {"failed", "fault"}
    BY <2>4, <2>5, FailedStep
  <2>6. CASE pc' = "tcb"
    <3>1. kern'.pts["child"][Region(STACK)] # NoCap
      BY <1>1, <1>2, <2>1, <2>3 DEF SpaceInv
    <3>2. SpaceInv' /\ TaskInv'
      BY <1>1, <1>2, <2>6, <3>1 DEF SpaceInv, TaskInv, StartedReady
    <3>3. PageMapInv' /\ LoadInv'
      BY <1>1, <1>2, <2>6 DEF PageMapInv, PageMapTrue, LoadInv, Loading
    <3> QED
      BY <2>4, <3>2, <3>3 DEF IInv
  <2> QED
    BY <2>3, <2>5, <2>6
<1> QED
  BY <1>4, <1>5

-----------------------------------------------------------------------------
(***************************************************************************)
(* Steps 4 and 5: the thread.                                              *)
(***************************************************************************)
\* Three slots, a TCB and an endpoint.
LEMMA CreateTcbStep ==
    ASSUME IInv, CreateTcb
    PROVE  IInv'
<1>1. /\ TypeInv /\ SpaceInv /\ pc = "tcb" /\ recycled \in Seq(Slots) /\ kern \in Kernels
      /\ UNCHANGED <<elf, own, frame_slots, ut_idx, page_map, done>>
  BY DEF IInv, TypeInv, CreateTcb, inputs, loading
<1>2. total_pages \in Nat /\ total_pages' = total_pages /\ STACK_PAGES \in Nat /\ done = 0
  BY <1>1, SegPagesFacts, SameFile, LayoutFacts DEF TypeInv
<1>3. CASE Len(recycled) < 3
  <2>1. pc' = "failed" /\ recycled' \in Seq(Slots) /\ UNCHANGED <<kern, task>>
    BY <1>3, EmptySeq DEF CreateTcb
  <2>2. TypeInv'
    BY <1>1, <1>2, <2>1 DEF TypeInv, PCs
  <2> QED
    BY <2>1, <2>2, FailedStep
<1>4. CASE ~(Len(recycled) < 3)
  <2> DEFINE L == Len(recycled)
  <2> DEFINE a == recycled[L + 1 - 1]
  <2> DEFINE b == recycled[L + 1 - 2]
  <2> DEFINE c == recycled[L + 1 - 3]
  <2> DEFINE r0 == Make(kern, "tcb", a)
  <2> DEFINE r == IF r0.ok THEN Make(r0.k, "endpoint", b) ELSE r0
  <2>1. /\ kern' = r.k /\ pc' \in {"tcb_pt", "failed"}
        /\ recycled' = SubSeq(recycled, 1, L - 3)
        /\ task' = [task EXCEPT !.tcb = a, !.ep = b, !.ipc = c]
    BY <1>4 DEF CreateTcb, Goto
  <2>2. a \in Slots /\ b \in Slots /\ c \in Slots
    <3>1. L + 1 - 1 \in 1..L /\ L + 1 - 2 \in 1..L /\ L + 1 - 3 \in 1..L
      BY <1>1, <1>4
    <3> QED
      BY <1>1, <3>1
  <2>3. recycled' \in Seq(Slots)
    <3>1. \A i \in 1..(L - 3) : recycled[i] \in Slots
      BY <1>1, <1>4
    <3> QED
      BY <1>1, <2>1, <3>1, SubSeqProperties
  <2> HIDE DEF a, b, c
  <2>4. a \in Int /\ b \in Int
    BY <2>2, SlotFacts
  <2>5. Made(r0, kern, "tcb", a)
    BY <1>1, <2>4, MakeFacts DEF CapTypes
  <2>6. /\ r0.k \in Kernels /\ Len(r0.k.untyped) = Len(kern.untyped) /\ r0.k.pts = kern.pts
    BY <2>5 DEF Made, SameMemory
  <2> HIDE DEF r0
  <2>7. Made(Make(r0.k, "endpoint", b), r0.k, "endpoint", b)
    BY <2>4, <2>6, MakeFacts DEF CapTypes
  <2>8. /\ r.k \in Kernels /\ Len(r.k.untyped) = Len(kern.untyped) /\ r.k.pts = kern.pts
    BY <2>6, <2>7 DEF Made, SameMemory
  <2> HIDE DEF r
  <2>9. task' \in [tcb : AnySlot, ep : AnySlot, ipc : AnySlot, configured : BOOLEAN, run : BOOLEAN]
    BY <1>1, <2>1, <2>2 DEF TypeInv, AnySlot
  <2>10. TypeInv'
    BY <1>1, <1>2, <2>1, <2>3, <2>8, <2>9 DEF TypeInv, PCs
  <2>11. PageMapInv' /\ LoadInv'
    BY <2>1, LateStep DEF Loading
  <2>12. SpaceInv' /\ TaskInv'
    BY <1>1, <2>1, <2>8 DEF SpaceInv, TaskInv, StartedReady
  <2> QED
    BY <2>10, <2>11, <2>12 DEF IInv
<1> QED
  BY <1>3, <1>4

\* The page table of the stack's region must be absent: a child with a space
\* of its own already has it.
LEMMA CreateIpcTableStep ==
    ASSUME IInv, CreateIpcTable
    PROVE  IInv'
<1> DEFINE slot == alloc(recycled)
<1> DEFINE r0 == MakeNext("pt")
<1> DEFINE r == IF r0.ok THEN PageTable_Map(r0.k, slot, pml4, Region(STACK)) ELSE r0
<1>1. /\ TypeInv /\ SpaceInv /\ pc = "tcb_pt" /\ recycled \in Seq(Slots)
      /\ UNCHANGED <<elf, own, frame_slots, ut_idx, page_map, done, task>>
  BY DEF IInv, TypeInv, CreateIpcTable, inputs, loading
<1>2. total_pages \in Nat /\ total_pages' = total_pages /\ STACK_PAGES \in Nat /\ done = 0
  BY <1>1, SegPagesFacts, SameFile, LayoutFacts DEF TypeInv
<1>3. /\ recycled' = after_alloc(recycled) /\ kern' = r.k
      /\ pc' = IF r.ok THEN "tcb_ipc" ELSE "failed"
  BY DEF CreateIpcTable, Pop, Goto, ThenDo
<1>4. Made(r0, kern, "pt", slot)
  BY MakeNextFacts DEF CapTypes
<1>5. pml4 \in Spaces /\ Region(STACK) \in Regions
  BY RegionFacts, LayoutFacts DEF pml4, Spaces
<1>6. r0.k \in Kernels /\ Len(r0.k.untyped) = Len(kern.untyped) /\ r0.k.pts = kern.pts
  BY <1>4 DEF Made, SameMemory
<1> DEFINE r1 == PageTable_Map(r0.k, slot, pml4, Region(STACK))
<1> HIDE DEF r0
<1>7. TableMapped(r1, r0.k, slot, pml4, Region(STACK))
  BY <1>5, <1>6, PageTableMapFacts
<1> HIDE DEF r1
<1>8. /\ r.k \in Kernels /\ Len(r.k.untyped) = Len(kern.untyped)
  BY <1>6, <1>7 DEF TableMapped, SameObjects, r1
<1>9. r.ok => kern.pts[pml4][Region(STACK)] = NoCap
  <2>1. r.ok => r0.ok /\ r1.ok
    BY DEF r1
  <2> QED
    BY <1>6, <1>7, <2>1 DEF TableMapped
<1> HIDE DEF r
<1>10. recycled' \in Seq(Slots)
  BY <1>1, <1>3, AllocFacts
<1>11. TypeInv'
  BY <1>1, <1>2, <1>3, <1>8, <1>10 DEF TypeInv, PCs
<1>12. PageMapInv' /\ LoadInv'
  BY <1>3, LateStep DEF Loading
<1>13. SpaceInv'
  <2>1. pc' = "tcb_ipc" => ~own
    BY <1>1, <1>3, <1>9 DEF SpaceInv, pml4
  <2> QED
    BY <1>1, <1>3, <2>1 DEF SpaceInv
<1>14. TaskInv'
  BY <1>3 DEF TaskInv, StartedReady
<1> QED
  BY <1>11, <1>12, <1>13, <1>14 DEF IInv

\* The IPC buffer, in the root's address space.
LEMMA CreateIpcBufferStep ==
    ASSUME IInv, CreateIpcBuffer
    PROVE  IInv'
<1> DEFINE r == MakeFrame(kern, task.ipc, pml4, IPC_BUF)
<1>1. /\ TypeInv /\ SpaceInv /\ pc = "tcb_ipc" /\ kern \in Kernels /\ ~own
      /\ UNCHANGED <<recycled, elf, own, frame_slots, ut_idx, page_map, done, task>>
  BY DEF IInv, TypeInv, SpaceInv, CreateIpcBuffer, inputs, loading
<1>2. total_pages \in Nat /\ total_pages' = total_pages /\ STACK_PAGES \in Nat /\ done = 0
  BY <1>1, SegPagesFacts, SameFile, LayoutFacts DEF TypeInv
<1>3. pml4 = "root" /\ task.ipc \in AnySlot /\ task.ipc \in Int
  <2> HIDE DEF r
  <2>1. task.ipc \in AnySlot
    BY <1>1 DEF TypeInv
  <2>2. AnySlot \subseteq Int
    BY SlotFacts DEF AnySlot, NoCap
  <2>3. pml4 = "root"
    BY <1>1 DEF pml4
  <2> QED
    BY <2>1, <2>2, <2>3
<1>4. FrameMade(r, kern, task.ipc, "root", IPC_BUF)
  BY <1>1, <1>3, LayoutFacts, MakeFrameFacts DEF Spaces
<1>5. /\ kern' = IF r.ok /\ Readable(r.k, IPC_BUF) THEN Stored(r.k, IPC_BUF, ZeroPage) ELSE r.k
      /\ pc' = IF ~r.ok THEN "failed" ELSE IF Readable(r.k, IPC_BUF) THEN "tcb_stack" ELSE "fault"
  BY DEF CreateIpcBuffer
<1> HIDE DEF r
<1>6. r.k \in Kernels /\ Len(r.k.untyped) = Len(kern.untyped)
  BY <1>4 DEF FrameMade
<1>7. StoredAt(Stored(r.k, IPC_BUF, ZeroPage), r.k, IPC_BUF, ZeroPage)
  BY <1>6, StoredFacts DEF ZeroPage
<1>8. kern' \in Kernels /\ Len(kern'.untyped) = Len(kern.untyped)
  BY <1>5, <1>6, <1>7 DEF StoredAt, SameObjects
<1>9. TypeInv'
  BY <1>1, <1>2, <1>5, <1>8 DEF TypeInv, PCs
<1>10. CASE pc' \in {"failed", "fault"}
  BY <1>9, <1>10, FailedStep
<1>11. CASE pc' = "tcb_stack"
  <2>1. TaskInv'
    BY <1>1, <1>2, <1>11 DEF TaskInv, StartedReady
  <2>2. PageMapInv' /\ LoadInv' /\ SpaceInv'
    BY <1>1, <1>11, LateStep DEF Loading, SpaceInv
  <2> QED
    BY <1>9, <2>1, <2>2 DEF IInv
<1> QED
  BY <1>5, <1>10, <1>11


\* A page of the stack.
LEMMA CreateStackStep ==
    ASSUME IInv, CreateStack
    PROVE  IInv'
<1> DEFINE slot == alloc(recycled)
<1> DEFINE page == STACK + done
<1> DEFINE r == IF MakeNext("frame").ok
                THEN Frame_Map(MakeNext("frame").k, slot, "root", page)
                ELSE MakeNext("frame")
<1>1. /\ TypeInv /\ SpaceInv /\ TaskInv /\ pc = "tcb_stack" /\ kern \in Kernels /\ ~own
      /\ recycled \in Seq(Slots) /\ done < STACK_PAGES /\ done' = done + 1
      /\ UNCHANGED <<elf, own, frame_slots, ut_idx, page_map, task>>
  BY DEF IInv, TypeInv, SpaceInv, CreateStack, inputs, loading
<1>2. /\ total_pages \in Nat /\ total_pages' = total_pages /\ STACK_PAGES \in Nat /\ done \in Nat
      /\ STACK \in Nat /\ IPC_BUF \in Nat /\ IPC_BUF \in Pages
  BY <1>1, SegPagesFacts, SameFile, LayoutFacts DEF TypeInv
<1>3. page \in Pages /\ pml4 = "root"
  BY <1>1, <1>2, LayoutFacts DEF Pages, pml4
<1>4. /\ recycled' = after_alloc(recycled) /\ kern' = r.k
      /\ pc' = IF r.ok THEN "tcb_stack" ELSE "failed"
  BY <1>3 DEF CreateStack, Pop, Goto, ThenDo
<1> HIDE DEF page
<1>5. FrameMade(r, kern, slot, "root", page)
  BY <1>3, MadeAndMapped DEF Spaces
<1> HIDE DEF r, slot
<1>6. /\ kern' \in Kernels /\ Len(kern'.untyped) = Len(kern.untyped)
      /\ r.ok => slot \in Slots /\ kern'.vmap = [kern.vmap EXCEPT !["root"][page] = slot]
  BY <1>4, <1>5 DEF FrameMade
<1>7. recycled' \in Seq(Slots)
  BY <1>1, <1>4, AllocFacts
<1>8. TypeInv'
  BY <1>1, <1>2, <1>4, <1>6, <1>7 DEF TypeInv, PCs
<1>9. CASE pc' = "failed"
  BY <1>8, <1>9, FailedStep
<1>10. CASE pc' = "tcb_stack"
  <2>1. r.ok
    BY <1>4, <1>10
  <2>2. kern.vmap \in [Spaces -> [Pages -> Slots \cup {NoCap, Image}]]
    BY <1>1 DEF Kernels
  <2>3. \A i \in 0..(done - 1) : kern.vmap["root"][STACK + i] \in Slots
    BY <1>1 DEF TaskInv
  <2>6. \A p \in Pages : kern'.vmap["root"][p] = IF p = page THEN slot ELSE kern.vmap["root"][p]
    BY <1>3, <1>6, <2>1, <2>2 DEF Spaces
  <2>7. ASSUME NEW i \in 0..((done + 1) - 1)
        PROVE  kern'.vmap["root"][STACK + i] \in Slots
    <3>1. STACK + i \in Pages
      BY <1>1, <1>2, LayoutFacts DEF Pages
    <3>2. CASE i = done
      BY <1>6, <2>1, <2>6, <3>1, <3>2 DEF page
    <3>3. CASE i # done
      <4>1. i \in 0..(done - 1) /\ STACK + i # page
        BY <1>2, <3>3 DEF page
      <4> QED
        BY <2>3, <2>6, <3>1, <4>1
    <3> QED
      BY <3>2, <3>3
  <2>9. TaskInv'
    BY <1>1, <1>10, <2>7 DEF TaskInv, StartedReady
  <2>10. PageMapInv' /\ LoadInv' /\ SpaceInv'
    BY <1>1, <1>10, LateStep DEF Loading, SpaceInv
  <2> QED
    BY <1>8, <2>9, <2>10 DEF IInv
<1> QED
  BY <1>4, <1>9, <1>10

\* The TCB is configured with the caps made before.
LEMMA ConfigureStep ==
    ASSUME IInv, Configure
    PROVE  IInv'
<1>1. /\ TypeInv /\ SpaceInv /\ TaskInv /\ pc = "tcb_stack" /\ ~own /\ done = STACK_PAGES
      /\ UNCHANGED <<kern, recycled, elf, own, frame_slots, ut_idx, page_map, done>>
  BY DEF IInv, SpaceInv, Configure, inputs, loading
<1>2. total_pages' = total_pages
  BY <1>1, SameFile
<1>3. CASE pc' = "failed" /\ UNCHANGED task
  <2>1. TypeInv'
    BY <1>1, <1>2, <1>3 DEF TypeInv, PCs
  <2> QED
    BY <1>3, <2>1, FailedStep
<1>4. CASE pc' = "start" /\ task' = [task EXCEPT !.configured = TRUE]
            /\ HasCap(kern, task.tcb, "tcb")
  <2>1. /\ task' \in [tcb : AnySlot, ep : AnySlot, ipc : AnySlot, configured : BOOLEAN, run : BOOLEAN]
        /\ task'.ipc = task.ipc /\ task'.tcb = task.tcb /\ task'.configured
    BY <1>1, <1>4 DEF TypeInv
  <2>2. TypeInv'
    BY <1>1, <1>2, <1>4, <2>1 DEF TypeInv, PCs
  <2>3. TaskInv'
    BY <1>1, <1>4, <2>1 DEF TaskInv, StartedReady, HasCap
  <2>4. PageMapInv' /\ LoadInv' /\ SpaceInv'
    BY <1>1, <1>4, LateStep DEF Loading, SpaceInv
  <2> QED
    BY <2>2, <2>3, <2>4 DEF IInv
<1> QED
  BY <1>3, <1>4 DEF Configure

\* The entry page is stored at the root's address, which is the child's.
LEMMA StartStep ==
    ASSUME IInv, Start
    PROVE  IInv'
<1>1. /\ TypeInv /\ SpaceInv /\ TaskInv /\ pc = "start" /\ kern \in Kernels /\ ~own
      /\ UNCHANGED <<recycled, elf, own, frame_slots, ut_idx, page_map, done>>
  BY DEF IInv, TypeInv, SpaceInv, Start, inputs, loading
<1>2. total_pages' = total_pages
  BY <1>1, SameFile
<1>3. CASE ~Readable(kern, STACK)
  <2>1. pc' = "fault" /\ UNCHANGED <<kern, task>>
    BY <1>3 DEF Start
  <2>2. TypeInv'
    BY <1>1, <1>2, <2>1 DEF TypeInv, PCs
  <2> QED
    BY <2>1, <2>2, FailedStep
<1>4. CASE Readable(kern, STACK)
  <2>1. /\ kern' = Stored(kern, STACK, EntryPage) /\ pc' = "started"
        /\ task' = [task EXCEPT !.run = HasCap(kern, task.tcb, "tcb")]
    BY <1>4 DEF Start
  <2>2. /\ HasCap(kern, task.tcb, "tcb") /\ task.configured /\ done = STACK_PAGES
        /\ \A i \in 0..(STACK_PAGES - 1) : kern.vmap["root"][STACK + i] \in Slots
    BY <1>1 DEF TaskInv
  <2>3. EntryPage \in [Cells -> Int] /\ EntryPage[0] = Trampoline
    BY SlotFacts DEF EntryPage, Trampoline, ArgFrame
  <2>4. StoredAt(kern', kern, STACK, EntryPage)
    BY <1>1, <2>1, <2>3, StoredFacts
  <2>5. kern.vmap["root"][STACK] \in Slots
    <3>1. 0 \in 0..(STACK_PAGES - 1) /\ STACK + 0 = STACK
      BY LayoutFacts
    <3> QED
      BY <2>2, <3>1
  <2>6. /\ kern' \in Kernels /\ kern'.vmap = kern.vmap /\ Len(kern'.untyped) = Len(kern.untyped)
        /\ kern'.data = [kern.data EXCEPT ![kern.vmap["root"][STACK]] = EntryPage]
    BY <2>4, <2>5 DEF StoredAt, SameObjects
  <2>7. kern'.data[kern'.vmap["root"][STACK]][0] = Trampoline
    <3>1. kern.data \in [Slots -> [Cells -> Int]]
      BY <1>1 DEF Kernels
    <3>2. kern'.data[kern'.vmap["root"][STACK]] = EntryPage
      BY <2>5, <2>6, <3>1
    <3> QED
      BY <2>3, <3>2
  <2>9. /\ task' \in [tcb : AnySlot, ep : AnySlot, ipc : AnySlot, configured : BOOLEAN, run : BOOLEAN]
        /\ task'.ipc = task.ipc /\ task'.configured /\ task'.run
    <3>1. HasCap(kern, task.tcb, "tcb") = TRUE
      BY <2>2 DEF HasCap
    <3> QED
      BY <1>1, <2>1, <2>2, <3>1 DEF TypeInv
  <2>10. TypeInv'
    BY <1>1, <1>2, <2>1, <2>6, <2>9 DEF TypeInv, PCs
  <2>11. StartedReady'
    BY <1>1, <2>1, <2>5, <2>6, <2>7, <2>9 DEF StartedReady, pml4
  <2>12. TaskInv' /\ SpaceInv'
    BY <1>1, <2>1, <2>11 DEF TaskInv, SpaceInv
  <2>13. PageMapInv' /\ LoadInv'
    BY <2>1, LateStep DEF Loading
  <2> QED
    BY <2>10, <2>12, <2>13 DEF IInv
<1> QED
  BY <1>3, <1>4


-----------------------------------------------------------------------------
(***************************************************************************)
(* The theorems.                                                           *)
(***************************************************************************)
\* A step that changes nothing.
LEMMA StutterStep ==
    ASSUME IInv, UNCHANGED vars
    PROVE  IInv'
<1>1. /\ UNCHANGED <<pc, kern, recycled, elf, own, frame_slots, ut_idx, done, page_map, task>>
      /\ TypeInv /\ PageMapInv /\ SpaceInv /\ TaskInv /\ LoadInv
  BY DEF vars, IInv
<1>2. /\ parse_elf' = parse_elf /\ SegPages' = SegPages /\ total_pages' = total_pages
      /\ Regular' = Regular /\ (\A h, p : (Slice(h, p))' = Slice(h, p))
      /\ \A j, c : (Sourced(j, c))' <=> Sourced(j, c)
  BY <1>1, SameFile
<1>3. TypeInv'
  BY <1>1, <1>2 DEF TypeInv
<1>4. PageMapInv' /\ SpaceInv'
  BY <1>1, <1>2 DEF PageMapInv, PageMapTrue, Entries, SpaceInv
<1>5. TaskInv'
  BY <1>1 DEF TaskInv, StartedReady, HasCap, pml4
<1>6. LoadInv'
  BY <1>1, <1>2 DEF LoadInv, LoadedTo, Holds
<1> QED
  BY <1>3, <1>4, <1>5, <1>6 DEF IInv

\* Every step of the loader keeps the invariant.
LEMMA NextInv == IInv /\ [Next]_vars => IInv'
<1> SUFFICES ASSUME IInv, [Next]_vars PROVE IInv'
  OBVIOUS
<1>1. CASE AllocSlots
  BY <1>1, AllocSlotsStep
<1>2. CASE RetypeFrame
  BY <1>2, RetypeFrameStep
<1>3. CASE RetypeEnd
  BY <1>3, RetypeEndStep
<1>4. CASE LoadPage
  BY <1>4, LoadPageStep
<1>5. CASE Loaded
  BY <1>5, LoadedStep
<1>6. CASE CreateCSpace \/ CreatePml4 \/ CreatePdpt \/ CreatePd
  BY <1>6, UpperLevelsStep
<1>7. CASE CreateTable
  BY <1>7, CreateTableStep
<1>8. CASE RemapFrames
  BY <1>8, RemapStep
<1>9. CASE ChildStack \/ ChildTls
  BY <1>9, ChildPagesStep
<1>10. CASE CreateTcb
  BY <1>10, CreateTcbStep
<1>11. CASE CreateIpcTable
  BY <1>11, CreateIpcTableStep
<1>12. CASE CreateIpcBuffer
  BY <1>12, CreateIpcBufferStep
<1>13. CASE CreateStack
  BY <1>13, CreateStackStep
<1>14. CASE Configure
  BY <1>14, ConfigureStep
<1>15. CASE Start
  BY <1>15, StartStep
<1>16. CASE Ended \/ UNCHANGED vars
  BY <1>16, StutterStep DEF Ended
<1> QED
  BY <1>1, <1>2, <1>3, <1>4, <1>5, <1>6, <1>7, <1>8, <1>9, <1>10, <1>11, <1>12, <1>13, <1>14,
     <1>15, <1>16 DEF Next

\* The invariant holds in every state.
LEMMA InvHolds == Spec => []IInv
  BY InitInv, NextInv, PTL DEF Spec

\* Every variable keeps its type: no loop runs past its pages, no untyped is
\* carved beyond its end, and nothing but a slot, NoCap or the image is mapped.
THEOREM TypeCorrect == Spec => []TypeOK
<1>1. IInv => TypeOK
  <2> SUFFICES ASSUME IInv PROVE TypeOK
    OBVIOUS
  <2>1. TypeInv
    BY DEF IInv
  <2>2. KernelOK(kern)
    BY <2>1, KernelTyped DEF TypeInv
  <2>3. \A i \in DOMAIN recycled : recycled[i] \in Slots
    BY <2>1, ElementOfSeq DEF TypeInv
  <2> QED
    BY <2>1, <2>2, <2>3 DEF TypeInv, TypeOK, PCs, AnySlot
<1> QED
  BY <1>1, InvHolds, PTL

\* The page map names, for every page it has, the frame that backs the page in
\* the root's address space, until the child's pages are mapped.
THEOREM PageMapTrueHolds == Spec => []PageMapTrue
<1>1. IInv => PageMapTrue
  BY DEF IInv, PageMapInv
<1> QED
  BY <1>1, InvHolds, PTL

\* A child that is started is configured and runs, with a stack in the address
\* space it was given and the entry code where its first instruction is fetched.
THEOREM StartedReadyHolds == Spec => []StartedReady
<1>1. IInv => StartedReady
  BY DEF IInv, TaskInv
<1> QED
  BY <1>1, InvHolds, PTL

\* Whether a cell of a page gets a byte of the file, in terms of the segment: not
\* beyond the file's part nor in a page in which the segment begins later than
\* the page does; and which byte.
LEMMA CellBytes ==
    ASSUME elf \in Elves, NEW h \in Loadable, h.filesz <= h.memsz, h.off + h.filesz <= elf.len,
           NEW c \in 0..(h.memsz - 1), NEW p \in Nat, NEW o \in Cells,
           h.vaddr + c = p * PageCells + o, p = (h.vaddr + c) \div PageCells
    PROVE  /\ Copies(h, p, o) <=> c < h.filesz /\ c \notin Lost(h)
           /\ Source(h, p, o) = h.off + c
<1> DEFINE base == p * PageCells
<1> DEFINE off == base - h.vaddr
<1> DEFINE from == h.off + off
<1> DEFINE to == IF from + PageCells <= h.off + h.filesz THEN from + PageCells ELSE h.off + h.filesz
<1>1. /\ PageCells \in Nat \ {0} /\ h.vaddr \in Nat /\ h.memsz \in Nat /\ h.off \in Nat
      /\ h.filesz \in Nat /\ c \in Nat /\ elf.len \in Nat /\ o \in Nat /\ o < PageCells
  <2> HIDE DEF base, off, from, to
  <2>1. PageCells \in Nat \ {0} /\ elf.len \in Nat
    BY KernelConstants, LoaderInputs
  <2>2. /\ h.vaddr \in Nat /\ h.memsz \in Nat /\ h.off \in Nat /\ h.filesz \in Nat
    BY DEF Loadable, Headers
  <2> QED
    BY <2>1, <2>2 DEF Cells
<1>2. base \in Int /\ h.vaddr + c = base + o
  BY <1>1
<1>3. c \in Lost(h) <=> base < h.vaddr
  BY DEF Lost
<1>4. /\ Copies(h, p, o) <=> (0 <= off /\ off < h.filesz /\ to <= elf.len /\ o < to - from)
      /\ Source(h, p, o) = from + o
  BY DEF Copies, Source
<1> HIDE DEF base
<1>5. /\ (0 <= off /\ off < h.filesz /\ to <= elf.len /\ o < to - from)
           <=> (c < h.filesz /\ ~(base < h.vaddr))
      /\ from + o = h.off + c
  <2> DEFINE v == h.vaddr
  <2> DEFINE f == h.off
  <2> DEFINE s == h.filesz
  <2> DEFINE m == elf.len
  <2>1. /\ from = f + off /\ off = base - v
        /\ to = IF from + PageCells <= f + s THEN from + PageCells ELSE f + s
        /\ v \in Nat /\ f \in Nat /\ s \in Nat /\ m \in Nat /\ f + s <= m /\ v + c = base + o
    BY <1>1, <1>2
  <2> HIDE DEF from, to, off, v, f, s, m
  <2>2. off \in Int /\ off = c - o
    BY <1>1, <1>2, <2>1
  <2>3. from \in Int /\ from + o = f + c
    <3>1. from = f + off /\ f \in Nat /\ c \in Nat /\ o \in Nat
      BY <1>1, <2>1
    <3> QED
      BY <2>2, <3>1
  <2>4. (0 <= off /\ off < s /\ to <= m /\ o < to - from) <=> (c < s /\ ~(base < v))
    <3>1. CASE from + PageCells <= f + s
      BY <1>1, <1>2, <2>1, <2>2, <2>3, <3>1
    <3>2. CASE ~(from + PageCells <= f + s)
      BY <1>1, <1>2, <2>1, <2>2, <2>3, <3>2
    <3> QED
      BY <3>1, <3>2
  <2> QED
    BY <2>3, <2>4 DEF v, f, s, m
<1> QED
  BY <1>3, <1>4, <1>5

\* After step 1 the segments of a regular file are in memory, cleared behind the
\* file's bytes, up to the bytes of a first page in which the segment begins in the
\* middle and those whose place in the root's image an earlier page has taken.
THEOREM LoadedExactlyHolds == Spec => []LoadedExactly
<1>1. IInv => LoadedExactly
  <2> SUFFICES ASSUME IInv, AfterStep1, Regular,
                      NEW i \in DOMAIN parse_elf, NEW c \in 0..(parse_elf[i].memsz - 1),
                      c < parse_elf[i].filesz => c \notin Lost(parse_elf[i]) /\ Found(i, c)
               PROVE  InPlace(parse_elf[i], c)
    BY DEF LoadedExactly
  <2> DEFINE h == parse_elf[i]
  <2> DEFINE p == (h.vaddr + c) \div PageCells
  <2> DEFINE o == (h.vaddr + c) % PageCells
  <2>1. elf \in Elves /\ LoadInv
    BY DEF IInv, TypeInv
  <2>2. /\ parse_elf \in Seq(Loadable) /\ WalkOK(SegPages, parse_elf, Len(parse_elf))
        /\ total_pages \in Nat /\ DOMAIN SegPages = 1..total_pages
    <3>1. SegPages \in Seq([seg : 1..Len(parse_elf), page : Pages])
      BY <2>1, SegPagesFacts
    <3> QED
      BY <2>1, <3>1, SegPagesFacts, LenProperties DEF total_pages
  <2>3. h \in Loadable /\ i \in 1..Len(parse_elf)
    BY <2>2, ElementOfSeq, LenProperties
  <2>4. /\ p \in page_range(h) /\ p \in Nat /\ o \in Cells
        /\ h.vaddr + c = p * PageCells + o
    BY <2>3, CellFacts
  <2>5. PICK j \in DOMAIN SegPages : SegPages[j].seg = i /\ SegPages[j].page = p
    <3> HIDE DEF p
    <3> QED
      BY <2>2, <2>3, <2>4 DEF WalkOK
  <2>6. LoadedTo = total_pages /\ (pc \in Loading \/ (pc = "tcb" /\ ~own))
    BY DEF AfterStep1, LoadedTo, Loading
  <2>7. Holds(j)
    <3> HIDE DEF p
    <3> QED
      BY <2>1, <2>2, <2>5, <2>6 DEF LoadInv
  <2>8. h.filesz <= h.memsz /\ h.off + h.filesz <= elf.len
    BY DEF Regular, WellFormed
  <2>9. (Copies(h, p, o) <=> c < h.filesz /\ c \notin Lost(h)) /\ Source(h, p, o) = h.off + c
    <3> HIDE DEF o
    <3> QED
      BY <2>1, <2>3, <2>4, <2>8, CellBytes
  <2>10. Sourced(j, o)
    <3>1. c < h.filesz => \A n \in 1..j : SegPages[n].page # FilePage(elf, h.off + c)
      BY <2>2, <2>5 DEF Found
    <3> HIDE DEF p, o
    <3> QED
      BY <2>5, <2>9, <3>1 DEF Sourced
  <2>11. CellAt(kern, h.vaddr + c) = Slice(h, p)[o]
    <3>1. kern.vmap["root"][p] = frame_slots[j] /\ kern.data[frame_slots[j]][o] = Slice(h, p)[o]
      <4> HIDE DEF p, o
      <4> QED
        BY <2>4, <2>5, <2>7, <2>10 DEF Holds
    <3> QED
      BY <3>1 DEF CellAt
  <2>12. Slice(h, p)[o] = IF c < h.filesz THEN h.off + c + 1 ELSE 0
    <3> HIDE DEF p, o
    <3> QED
      BY <2>4, <2>9 DEF Slice
  <2> QED
    BY <2>11, <2>12 DEF InPlace
<1> QED
  BY <1>1, InvHolds, PTL
=============================================================================
