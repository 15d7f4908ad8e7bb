---------------------------- MODULE RunnerProofs ----------------------------
(***************************************************************************)
(* Proofs about create_user_task, for every program, argument list, memory *)
(* and number of slots: its types, the image and the pages a started task  *)
(* finds, the entry contract, and that the function fails exactly when     *)
(* something is short.                                                     *)
(***************************************************************************)
EXTENDS Runner, KernelProofs

(***************************************************************************)
(* The inductive invariant.                                                *)
(***************************************************************************)
AnySlot   == Slots \cup {NoCap}
InfoType  == [page : Pages, file_off : Nat, copy_off : Nat, len : Nat]
TaskType  == [run : BOOLEAN, ipc : AnySlot, rip : Int, rsp : Int, data : Int]

\* The stages of the function, from the last back.
Ends     == {"failed", "panic", "fault"}
Furnished == {"tls", "trampoline", "enter", "started"}
Stacked  == {"configure"} \cup Furnished
Imaged   == {"stack", "extra"} \cup Stacked
Planned  == {"frames", "load"} \cup Imaged
Tabled   == {"plan"} \cup Planned
PCs      == {"parse", "endpoint", "tcb", "pt_load", "pt_extra"} \cup Tabled \cup Ends

Shapes ==
  /\ elf \in Elves /\ args \in ArgLists
  /\ recycled \in Seq(Slots) /\ frame_slots \in Seq(Slots)
  /\ mapped_pts \subseteq Regions
  /\ page_info \in Seq(InfoType)
  /\ task \in TaskType
  /\ done \in Nat /\ (done <= Len(page_info) \/ done <= STACK_EXTRA_PAGES)

\* How far each loop has come.
LoopInv ==
  /\ pc \in PCs
  /\ pc \notin {"parse", "failed"} => PtLoads # <<>>
  /\ pc \in {"parse", "endpoint", "tcb", "pt_load", "pt_extra", "plan"} => done = 0
  /\ pc \in {"frames", "load"} => done <= Len(page_info)
  /\ pc = "extra" => done <= STACK_EXTRA_PAGES
  /\ pc \in Planned => page_info = Infos(Segments) /\ Len(frame_slots) = Len(page_info)

\* A frame is mapped at one page at most, and its capability knows where.
Sound(k) ==
  /\ k \in Kernels
  /\ \A p \in Pages : k.vmap["root"][p] \in Slots => k.at[k.vmap["root"][p]] = <<"root", p>>
  /\ \A s \in Slots : k.caps[s] = "null" => k.at[s] = Nowhere

\* The stack's region had no page table before it got its own, so that nothing
\* of the image lies there, and nothing is mapped below the stack.
AllRegions == UNION {SegRegions(Segments[i]) : i \in Loads}
TableInv ==
  /\ pc = "pt_extra" =>
       \A r \in mapped_pts \ {Region(LOAD_BASE)} : kern.pts["root"][r] # NoCap
  /\ pc \in Tabled => Region(STACK) \notin AllRegions
  /\ kern.vmap["root"][GuardPage] = NoCap

\* The pages mapped so far.
Backed(p) == kern.vmap["root"][p] \in Slots
PagesInv ==
  /\ pc = "load" => \A j \in 1..done : Backed(page_info[j].page)
  /\ pc \in Imaged => \A p \in ImagePages : Backed(p)
  /\ pc = "extra" => \A i \in 0..done : Backed(STACK - i)
  /\ pc \in Stacked => /\ \A i \in 0..STACK_EXTRA_PAGES : Backed(STACK - i)
                       /\ Backed(IPC_BUF) /\ kern.vmap["root"][IPC_BUF] = ipc_frame_slot
  /\ pc \in Furnished => task.ipc = ipc_frame_slot
  /\ pc \in {"trampoline", "enter", "started"} =>
       Backed(TLS_BASE) /\ kern.data[kern.vmap["root"][TLS_BASE]][0] = TlsSelf
  /\ pc \in {"enter", "started"} => Backed(TRAMPOLINE)

\* The contents of the pages of a regular program, before and after the patch:
\* the cells whose source was intact when the page was filled hold the slice of
\* the file.
Slice(i)   == [c \in Cells |-> IF Copied(i, c) THEN SourceOf(i, c) + 1 ELSE 0]
Patched(i) == [c \in Cells |-> IF i.page * PageCells + c \in Patches
                               THEN Slice(i)[c] + reloc_offset ELSE Slice(i)[c]]
Sourced(n, c)   == Copied(page_info[n], c) => Intact(n, SourceOf(page_info[n], c))
Holds(n, cells) == \A c \in Cells : Sourced(n, c) =>
                     kern.data[kern.vmap["root"][page_info[n].page]][c] = cells[c]
ImageInv ==
  Regular =>
    /\ pc = "load"   => \A j \in 1..done : Holds(j, Slice(page_info[j]))
    /\ pc \in Imaged => \A j \in DOMAIN page_info : Holds(j, Patched(page_info[j]))

IInv == Shapes /\ LoopInv /\ Sound(kern) /\ TableInv /\ PagesInv /\ ImageInv /\ EntryContract

\* What loading has taken out of the root's image: the pages loaded so far, and
\* none before.
RootInv ==
  /\ pc \in {"parse", "endpoint", "tcb", "pt_load", "pt_extra", "plan", "frames"} =>
       \A p \in Pages : ~Backed(p)
  /\ pc = "load" =>
       \A p \in Pages : Backed(p) => \E j \in 1..done : page_info[j].page = p

-----------------------------------------------------------------------------
(***************************************************************************)
(* What a step does to the kernel.  Keeps(j, k, S): from k to j the pages  *)
(* of the root outside S keep their frames and what is in them, and page   *)
(* tables stay.                                                            *)
(***************************************************************************)
Keeps(j, k, S) ==
  /\ Sound(j)
  /\ \A r \in Regions : k.pts["root"][r] # NoCap => j.pts["root"][r] # NoCap
  /\ \A q \in Pages \ S :
       /\ j.vmap["root"][q] = k.vmap["root"][q]
       /\ k.vmap["root"][q] \in Slots =>
            j.data[k.vmap["root"][q]] = k.data[k.vmap["root"][q]]

\* A sound kernel: two pages of the root have different frames.
LEMMA SoundFacts ==
    ASSUME NEW k, Sound(k)
    PROVE  /\ k \in Kernels
           /\ \A p \in Pages : k.vmap["root"][p] \in Slots \cup {NoCap, Image}
           /\ \A p, q \in Pages :
                k.vmap["root"][p] \in Slots /\ k.vmap["root"][p] = k.vmap["root"][q] => p = q
<1>1. k \in Kernels
  BY DEF Sound
<1>2. k.vmap["root"] \in [Pages -> Slots \cup {NoCap, Image}]
  BY <1>1 DEF Kernels, Spaces
<1>3. ASSUME NEW p \in Pages, NEW q \in Pages, k.vmap["root"][p] \in Slots,
             k.vmap["root"][p] = k.vmap["root"][q]
      PROVE  p = q
  <2>1. <<"root", p>> = <<"root", q>>
    BY <1>3 DEF Sound
  <2> QED
    BY <2>1
<1> QED
  BY <1>1, <1>2, <1>3

\* The parts a retype leaves alone are those that make a kernel sound.
LEMMA RetypeKeeps ==
    ASSUME NEW k, Sound(k), NEW j \in Kernels, SameMemory(j, k),
           \A s \in Slots : j.caps[s] = "null" => k.caps[s] = "null"
    PROVE  Keeps(j, k, {})
  BY DEF Keeps, Sound, SameMemory

\* Retyping any number of objects.
LEMMA RetypedKeeps ==
    ASSUME NEW k, Sound(k), NEW ut, NEW ty \in CapTypes, ty # "null",
           NEW slot \in Int, NEW n \in Nat \ {0}
    PROVE  Keeps(Retype(k, ut, ty, slot, n).k, k, {}) /\ Retype(k, ut, ty, slot, n).ok \in BOOLEAN
<1> DEFINE r == Retype(k, ut, ty, slot, n)
<1>1. k \in Kernels
  BY DEF Sound
<1>2. Retyped(r, k, ty, slot, n)
  BY <1>1, RetypeFacts
<1> HIDE DEF r
<1>3. \A s \in Slots : r.k.caps[s] = "null" => k.caps[s] = "null"
  BY <1>2 DEF Retyped
<1>4. Keeps(r.k, k, {}) /\ r.ok \in BOOLEAN
  BY <1>2, <1>3, RetypeKeeps DEF Retyped
<1> QED
  BY <1>4 DEF r

\* Results of system calls are records of two fields.
LEMMA MakeResult ==
    ASSUME NEW k, NEW ty, NEW slot, NEW page, NEW x
    PROVE  /\ LET r == Make(k, ty, slot) IN
              [r EXCEPT !.k = x].k = x /\ [r EXCEPT !.k = x].ok = r.ok
           /\ LET r == Frame_Map(k, slot, "root", page) IN
              [r EXCEPT !.k = x].k = x /\ [r EXCEPT !.k = x].ok = r.ok
<1> DEFINE R(r) == r = [ok |-> r.ok, k |-> r.k]
<1>1. \A r : R(r) => [r EXCEPT !.k = x].k = x /\ [r EXCEPT !.k = x].ok = r.ok
  OBVIOUS
<1>2. \A y : R(Fails(y)) /\ R(Succeeds(y))
  BY DEF Fails, Succeeds
<1> HIDE DEF R
<1>3. R(Make(k, ty, slot))
  BY <1>2 DEF Make, Retype
<1>4. R(Frame_Map(k, slot, "root", page))
  BY <1>2 DEF Frame_Map
<1> QED
  BY <1>1, <1>3, <1>4

\* Retyping one object.
LEMMA MakeKeeps ==
    ASSUME NEW k, Sound(k), NEW ty \in CapTypes, ty # "null", NEW slot \in Int
    PROVE  LET r == Make(k, ty, slot) IN
           /\ Keeps(r.k, k, {}) /\ r.ok \in BOOLEAN /\ SameMemory(r.k, k)
           /\ r.ok => HasCap(r.k, slot, ty) /\ r.k.at[slot] = Nowhere
<1> DEFINE r == Make(k, ty, slot)
<1>1. k \in Kernels /\ \A s \in Slots : k.caps[s] = "null" => k.at[s] = Nowhere
  BY DEF Sound
<1>2. Made(r, k, ty, slot)
  BY <1>1, MakeFacts
<1> HIDE DEF r
<1>3. k.caps \in [Slots -> CapTypes]
  BY <1>1 DEF Kernels
<1>4. \A s \in Slots : r.k.caps[s] = "null" => k.caps[s] = "null"
  BY <1>2, <1>3 DEF Made
<1>5. Keeps(r.k, k, {})
  BY <1>2, <1>4, RetypeKeeps DEF Made
<1>6. r.ok => HasCap(r.k, slot, ty) /\ r.k.at[slot] = Nowhere
  <2> SUFFICES ASSUME r.ok PROVE HasCap(r.k, slot, ty) /\ r.k.at[slot] = Nowhere
    OBVIOUS
  <2>1. slot \in Slots /\ k.caps[slot] = "null" /\ r.k.caps = [k.caps EXCEPT ![slot] = ty]
    BY <1>2 DEF Made
  <2>2. r.k.at = k.at
    BY <1>2 DEF Made, SameMemory
  <2> QED
    BY <1>1, <1>3, <2>1, <2>2 DEF HasCap
<1> QED
  BY <1>2, <1>5, <1>6 DEF Made, r


\* From one step to the next.
LEMMA KeepsTrans ==
    ASSUME NEW i, NEW j, NEW k, NEW S, NEW T, Keeps(j, i, S), Keeps(k, j, T)
    PROVE  Keeps(k, i, S \cup T)
<1>1. \A r \in Regions : i.pts["root"][r] # NoCap => k.pts["root"][r] # NoCap
  BY DEF Keeps
<1>2. ASSUME NEW q \in Pages \ (S \cup T)
      PROVE  /\ k.vmap["root"][q] = i.vmap["root"][q]
             /\ i.vmap["root"][q] \in Slots =>
                  k.data[i.vmap["root"][q]] = i.data[i.vmap["root"][q]]
  <2>1. q \in Pages \ S /\ q \in Pages \ T
    OBVIOUS
  <2>2. /\ j.vmap["root"][q] = i.vmap["root"][q]
        /\ i.vmap["root"][q] \in Slots =>
             j.data[i.vmap["root"][q]] = i.data[i.vmap["root"][q]]
    BY <2>1 DEF Keeps
  <2>3. /\ k.vmap["root"][q] = j.vmap["root"][q]
        /\ j.vmap["root"][q] \in Slots =>
             k.data[j.vmap["root"][q]] = j.data[j.vmap["root"][q]]
    BY <2>1 DEF Keeps
  <2> QED
    BY <2>2, <2>3
<1> QED
  BY <1>1, <1>2 DEF Keeps

\* Nothing at all.
LEMMA KeepsSelf ==
    ASSUME NEW k, Sound(k), NEW S
    PROVE  Keeps(k, k, S)
  BY DEF Keeps

\* A page table leaves the pages as they are.
LEMMA TableKeeps ==
    ASSUME NEW k, Sound(k), NEW slot, NEW region \in Regions
    PROVE  LET r == PageTable_Map(k, slot, "root", region) IN
           /\ Keeps(r.k, k, {}) /\ r.ok \in BOOLEAN
           /\ r.ok => k.pts["root"][region] = NoCap
           /\ HasCap(k, slot, "pt") /\ k.at[slot] = Nowhere => r.k.pts["root"][region] # NoCap
<1> DEFINE r == PageTable_Map(k, slot, "root", region)
<1>1. k \in Kernels /\ "root" \in Spaces
  BY DEF Sound, Spaces
<1>2. TableMapped(r, k, slot, "root", region)
  BY <1>1, PageTableMapFacts
<1>3. HasCap(k, slot, "pt") /\ k.at[slot] = Nowhere /\ k.pts["root"][region] = NoCap => r.ok
  BY DEF PageTable_Map, Succeeds
<1> HIDE DEF r
<1>4. CASE ~r.ok
  <2>1. r.k = k
    BY <1>2, <1>4 DEF TableMapped
  <2> QED
    BY <1>2, <1>3, <1>4, <2>1, KeepsSelf DEF TableMapped, r
<1>5. CASE r.ok
  <2>1. /\ r.k \in Kernels /\ SameObjects(r.k, k) /\ r.k.vmap = k.vmap /\ r.k.data = k.data
        /\ HasCap(k, slot, "pt") /\ k.at[slot] = Nowhere
        /\ slot \in Slots /\ k.pts["root"][region] = NoCap
        /\ r.k.pts = [k.pts EXCEPT !["root"][region] = slot]
        /\ r.k.at = [k.at EXCEPT ![slot] = <<"root", region>>]
    BY <1>2, <1>5 DEF TableMapped
  <2>2. k.pts \in [Spaces -> [Regions -> Slots \cup {NoCap, Image}]] /\ k.at \in [Slots -> Places]
    BY <1>1 DEF Kernels
  <2>3. \A s \in Slots : r.k.at[s] = IF s = slot THEN <<"root", region>> ELSE k.at[s]
    BY <2>1, <2>2
  <2>4. \A x \in Regions : r.k.pts["root"][x] = IF x = region THEN slot ELSE k.pts["root"][x]
    BY <1>1, <2>1, <2>2
  <2>5. r.k.caps = k.caps /\ k.caps[slot] # "null" /\ slot # NoCap
    BY <2>1, SlotFacts DEF SameObjects, HasCap
  <2>6. ASSUME NEW p \in Pages, r.k.vmap["root"][p] \in Slots
        PROVE  r.k.at[r.k.vmap["root"][p]] = <<"root", p>>
    <3>1. k.at[k.vmap["root"][p]] = <<"root", p>> /\ r.k.vmap["root"][p] = k.vmap["root"][p]
      BY <2>1, <2>6 DEF Sound
    <3>2. k.vmap["root"][p] # slot
      BY <2>1, <3>1 DEF Nowhere
    <3> QED
      BY <2>3, <2>6, <3>1, <3>2
  <2>7. \A s \in Slots : r.k.caps[s] = "null" => r.k.at[s] = Nowhere
    BY <2>3, <2>5 DEF Sound
  <2>8. Sound(r.k)
    BY <2>1, <2>6, <2>7 DEF Sound
  <2>9. Keeps(r.k, k, {})
    BY <2>1, <2>4, <2>5, <2>8 DEF Keeps
  <2> QED
    BY <1>5, <2>1, <2>4, <2>5, <2>9 DEF r
<1> QED
  BY <1>2, <1>4, <1>5 DEF TableMapped

\* A page table in a new slot, mapped if there is none.
LEMMA MakeTableKeeps ==
    ASSUME NEW k, Sound(k), NEW slot \in Int, NEW region \in Regions
    PROVE  LET r == MakeTable(k, slot, region) IN
           /\ Keeps(r.k, k, {}) /\ r.ok \in BOOLEAN
           /\ r.ok => r.k.pts["root"][region] # NoCap
<1> DEFINE m == Make(k, "pt", slot)
<1> DEFINE t == PageTable_Map(m.k, slot, "root", region)
<1> DEFINE r == MakeTable(k, slot, region)
<1>1. r = [m EXCEPT !.k = t.k]
  BY DEF MakeTable
<1>2. r.k = t.k /\ r.ok = m.ok
  BY <1>1, MakeResult
<1>3. /\ Keeps(m.k, k, {}) /\ m.ok \in BOOLEAN
      /\ m.ok => HasCap(m.k, slot, "pt") /\ m.k.at[slot] = Nowhere
  <2>1. "pt" \in CapTypes /\ "pt" # "null"
    BY DEF CapTypes
  <2> QED
    BY <2>1, MakeKeeps
<1>4. Sound(m.k)
  BY <1>3 DEF Keeps
<1> HIDE DEF m
<1>5. /\ Keeps(t.k, m.k, {})
      /\ HasCap(m.k, slot, "pt") /\ m.k.at[slot] = Nowhere => t.k.pts["root"][region] # NoCap
  BY <1>4, TableKeeps
<1> HIDE DEF t, r
<1>6. Keeps(t.k, k, {})
  <2>1. {} \cup {} = {}
    OBVIOUS
  <2> QED
    BY <1>3, <1>5, <2>1, KeepsTrans
<1> QED
  BY <1>2, <1>3, <1>5, <1>6 DEF r


\* A frame is mapped at the page asked for, and at no other.
LEMMA MapKeeps ==
    ASSUME NEW k, Sound(k), NEW slot, NEW page \in Pages
    PROVE  LET r == Frame_Map(k, slot, "root", page) IN
           /\ Keeps(r.k, k, {page}) /\ r.ok \in BOOLEAN
           /\ r.ok => slot \in Slots /\ r.k.vmap["root"][page] = slot
<1> DEFINE r == Frame_Map(k, slot, "root", page)
<1>1. k \in Kernels /\ "root" \in Spaces
  BY DEF Sound, Spaces
<1>2. FrameMapped(r, k, slot, "root", page)
  BY <1>1, FrameMapFacts
<1> HIDE DEF r
<1>3. CASE ~r.ok
  <2>1. r.k = k
    BY <1>2, <1>3 DEF FrameMapped
  <2> QED
    BY <1>2, <1>3, <2>1, KeepsSelf DEF FrameMapped, r
<1>4. CASE r.ok
  <2>1. /\ r.k \in Kernels /\ SameObjects(r.k, k) /\ r.k.pts = k.pts /\ r.k.data = k.data
        /\ CanMap(k, slot, "root", page) /\ slot \in Slots
        /\ r.k.vmap = [k.vmap EXCEPT !["root"][page] = slot]
        /\ r.k.at = [k.at EXCEPT ![slot] = <<"root", page>>]
    BY <1>2, <1>4 DEF FrameMapped
  <2>2. k.vmap \in [Spaces -> [Pages -> Slots \cup {NoCap, Image}]] /\ k.at \in [Slots -> Places]
    BY <1>1 DEF Kernels
  <2>3. \A s \in Slots : r.k.at[s] = IF s = slot THEN <<"root", page>> ELSE k.at[s]
    BY <2>1, <2>2
  <2>4. \A q \in Pages : r.k.vmap["root"][q] = IF q = page THEN slot ELSE k.vmap["root"][q]
    BY <1>1, <2>1, <2>2
  <2>5. r.k.caps = k.caps /\ k.caps[slot] # "null" /\ k.at[slot] \in {Nowhere, <<"root", page>>}
    BY <2>1 DEF SameObjects, CanMap, HasCap
  <2>6. ASSUME NEW p \in Pages, r.k.vmap["root"][p] \in Slots
        PROVE  r.k.at[r.k.vmap["root"][p]] = <<"root", p>>
    <3>1. CASE p = page
      BY <2>1, <2>3, <2>4, <3>1
    <3>2. CASE p # page
      <4>1. k.at[k.vmap["root"][p]] = <<"root", p>> /\ r.k.vmap["root"][p] = k.vmap["root"][p]
        BY <2>4, <2>6, <3>2 DEF Sound
      <4>2. <<"root", p>> # <<"root", page>> /\ <<"root", p>> # Nowhere
        BY <3>2 DEF Nowhere
      <4>3. k.vmap["root"][p] # slot
        BY <2>5, <4>1, <4>2
      <4> QED
        BY <2>3, <2>6, <4>1, <4>3
    <3> QED
      BY <3>1, <3>2
  <2>7. \A s \in Slots : r.k.caps[s] = "null" => r.k.at[s] = Nowhere
    BY <2>3, <2>5 DEF Sound
  <2>8. Sound(r.k)
    BY <2>1, <2>6, <2>7 DEF Sound
  <2>9. Keeps(r.k, k, {page})
    BY <2>1, <2>4, <2>8 DEF Keeps
  <2>10. r.k.vmap["root"][page] = slot
    BY <2>4
  <2> QED
    BY <1>4, <2>1, <2>9, <2>10 DEF r
<1> QED
  BY <1>2, <1>3, <1>4 DEF FrameMapped

\* A store through one page is seen through that page only.
LEMMA StoreKeeps ==
    ASSUME NEW k, Sound(k), NEW page \in Pages, NEW cells \in [Cells -> Int]
    PROVE  LET j == Stored(k, page, cells) IN
           /\ Keeps(j, k, {page}) /\ j.vmap = k.vmap
           /\ k.vmap["root"][page] \in Slots => j.data[k.vmap["root"][page]] = cells
<1> DEFINE j == Stored(k, page, cells)
<1>1. k \in Kernels
  BY DEF Sound
<1>2. StoredAt(j, k, page, cells)
  BY <1>1, StoredFacts
<1> HIDE DEF j
<1>3. Sound(j)
  BY <1>2 DEF Sound, StoredAt, SameObjects
<1>4. CASE k.vmap["root"][page] \notin Slots
  <2>1. j = k
    BY <1>2, <1>4 DEF StoredAt
  <2> QED
    BY <1>4, <2>1, KeepsSelf DEF j
<1>5. CASE k.vmap["root"][page] \in Slots
  <2>1. /\ j.vmap = k.vmap /\ j.pts = k.pts
        /\ j.data = [k.data EXCEPT ![k.vmap["root"][page]] = cells]
    BY <1>2, <1>5 DEF StoredAt
  <2>2. k.data \in [Slots -> [Cells -> Int]]
    BY <1>1 DEF Kernels
  <2>3. \A s \in Slots : j.data[s] = IF s = k.vmap["root"][page] THEN cells ELSE k.data[s]
    BY <2>1, <2>2
  <2>4. \A q \in Pages \ {page} : k.vmap["root"][q] \in Slots =>
          k.vmap["root"][q] # k.vmap["root"][page]
    BY SoundFacts
  <2>5. Keeps(j, k, {page})
    BY <1>3, <2>1, <2>3, <2>4 DEF Keeps
  <2> QED
    BY <1>5, <2>1, <2>3, <2>5 DEF j
<1> QED
  BY <1>4, <1>5

\* The page has a frame, with these contents.
Placed(j, k, ok, page) == Keeps(j, k, {page}) /\ (ok => j.vmap["root"][page] \in Slots)
Filling(j, ok, page, cells) == ok => j.data[j.vmap["root"][page]] = cells

\* A new frame.
LEMMA MakeFrameKeeps ==
    ASSUME NEW k, Sound(k), NEW slot \in Int, NEW page \in Pages
    PROVE  LET r == MakeFrame(k, slot, "root", page) IN
           /\ Placed(r.k, k, r.ok, page) /\ r.ok \in BOOLEAN
           /\ r.ok => slot \in Slots /\ r.k.vmap["root"][page] = slot
<1> DEFINE m == Make(k, "frame", slot)
<1> DEFINE f == Frame_Map(m.k, slot, "root", page)
<1> DEFINE r == MakeFrame(k, slot, "root", page)
<1>1. r = IF m.ok THEN f ELSE m
  BY DEF MakeFrame
<1>2. Keeps(m.k, k, {}) /\ m.ok \in BOOLEAN
  <2>1. "frame" \in CapTypes /\ "frame" # "null"
    BY DEF CapTypes
  <2> QED
    BY <2>1, MakeKeeps
<1>3. Sound(m.k)
  BY <1>2 DEF Keeps
<1> HIDE DEF m
<1>4. /\ Keeps(f.k, m.k, {page}) /\ f.ok \in BOOLEAN
      /\ f.ok => slot \in Slots /\ f.k.vmap["root"][page] = slot
  BY <1>3, MapKeeps
<1> HIDE DEF f, r
<1>5. Keeps(f.k, k, {page})
  <2>1. {} \cup {page} = {page}
    OBVIOUS
  <2> QED
    BY <1>2, <1>4, <2>1, KeepsTrans
<1>6. Keeps(m.k, k, {page})
  BY <1>2 DEF Keeps
<1> QED
  BY <1>1, <1>2, <1>4, <1>5, <1>6 DEF Placed, r

\* A store after the page has got its frame.
LEMMA StorePlaced ==
    ASSUME NEW k, Sound(k), NEW j, NEW ok \in BOOLEAN, NEW page \in Pages, Placed(j, k, ok, page),
           NEW cells \in [Cells -> Int]
    PROVE  LET i == IF ok THEN Stored(j, page, cells) ELSE j IN
           Placed(i, k, ok, page) /\ Filling(i, ok, page, cells)
<1> DEFINE i == Stored(j, page, cells)
<1>1. Sound(j) /\ Keeps(j, k, {page})
  BY DEF Placed, Keeps
<1>2. CASE ok
  <2>1. /\ Keeps(i, j, {page}) /\ i.vmap = j.vmap
        /\ j.vmap["root"][page] \in Slots => i.data[j.vmap["root"][page]] = cells
    BY <1>1, StoreKeeps
  <2>2. j.vmap["root"][page] \in Slots
    BY <1>2 DEF Placed
  <2> HIDE DEF i
  <2>3. Keeps(i, k, {page})
    <3>1. {page} \cup {page} = {page}
      OBVIOUS
    <3> QED
      BY <1>1, <2>1, <3>1, KeepsTrans
  <2> QED
    BY <1>2, <2>1, <2>2, <2>3 DEF Placed, Filling, i
<1>3. CASE ~ok
  BY <1>3 DEF Placed, Filling
<1> QED
  BY <1>2, <1>3


-----------------------------------------------------------------------------
(***************************************************************************)
(* The program.                                                            *)
(***************************************************************************)
\* The load headers are headers of the file, marked for loading.
LEMMA PtLoadsFacts ==
    ASSUME elf \in Elves
    PROVE  /\ PtLoads \in Seq(Headers) /\ Len(PtLoads) \in Nat
           /\ \A i \in Loads : /\ PtLoads[i] \in Headers
                               /\ \E j \in DOMAIN elf.phdrs : /\ PtLoads[i] = elf.phdrs[j]
                                                              /\ elf.phdrs[j].load
<1> DEFINE S == {elf.phdrs[j] : j \in DOMAIN elf.phdrs}
<1> DEFINE T == {h \in S : h.load}
<1>1. elf.phdrs \in Seq(Headers) /\ elf.readable \in 0..Len(elf.phdrs)
  BY RunnerInputs
<1>2. elf.phdrs \in Seq(S) /\ S \subseteq Headers
  <2>1. Len(elf.phdrs) \in Nat /\ DOMAIN elf.phdrs = 1..Len(elf.phdrs)
    BY <1>1
  <2>2. elf.phdrs = [j \in 1..Len(elf.phdrs) |-> elf.phdrs[j]]
    BY <1>1, <2>1
  <2>3. \A j \in 1..Len(elf.phdrs) : elf.phdrs[j] \in S
    BY <2>1
  <2>4. elf.phdrs \in [1..Len(elf.phdrs) -> S]
    <3> HIDE DEF S
    <3> QED
      BY <2>2, <2>3
  <2>5. S \subseteq Headers
    BY <1>1
  <2> HIDE DEF S
  <2> QED
    BY <2>1, <2>4, <2>5, SeqDef
<1>3. PtLoads \in Seq(T)
  <2> HIDE DEF S
  <2> QED
    BY <1>1, <1>2, LoadHeadersFacts DEF PtLoads
<1>4. T \subseteq Headers /\ \A h \in T : \E j \in DOMAIN elf.phdrs : h = elf.phdrs[j] /\ elf.phdrs[j].load
  BY <1>2
<1> HIDE DEF T
<1>5. Len(PtLoads) \in Nat /\ \A i \in Loads : PtLoads[i] \in T
  BY <1>3 DEF Loads
<1>6. PtLoads \in Seq(Headers)
  BY <1>3, <1>4
<1> QED
  BY <1>4, <1>5, <1>6

\* The lowest address is the address of a segment, and none is lower.
LEMMA LowestFacts ==
    ASSUME elf \in Elves, PtLoads # <<>>
    PROVE  /\ \E j \in Loads : PtLoads[j].vaddr = lowest_vaddr
           /\ \A i \in Loads : lowest_vaddr <= PtLoads[i].vaddr
           /\ reloc_offset \in Int /\ lowest_vaddr \in Nat
<1> DEFINE V == {PtLoads[i].vaddr : i \in Loads}
<1>1. PtLoads \in Seq(Headers) /\ Len(PtLoads) \in Nat /\ \A i \in Loads : PtLoads[i] \in Headers
  BY PtLoadsFacts
<1>2. V \in SUBSET Nat
  BY <1>1 DEF Headers
<1>3. 1 \in Loads
  BY <1>1, EmptySeq DEF Loads
<1>4. V # {}
  BY <1>3
<1>5. \E v \in V : \A w \in V : v <= w
  <2> HIDE DEF V
  <2> QED
    BY <1>2, <1>4, LeastOf
<1>6. lowest_vaddr \in V /\ \A w \in V : lowest_vaddr <= w
  <2>1. lowest_vaddr = CHOOSE v \in V : \A w \in V : v <= w
    BY DEF lowest_vaddr
  <2> HIDE DEF V
  <2> QED
    BY <1>5, <2>1
<1>7. LOAD_BASE \in Nat /\ PageCells \in Nat /\ lowest_vaddr \in Nat
  BY <1>2, <1>6, RunnerConstants, KernelConstants, SlotFacts
<1>8. reloc_offset \in Int
  BY <1>7 DEF reloc_offset
<1> QED
  BY <1>6, <1>7, <1>8

\* Moved to LOAD_BASE, the segments lie in the pages modelled.
LEMMA SegmentFacts ==
    ASSUME elf \in Elves, PtLoads # <<>>
    PROVE  /\ Segments \in Seq(Loadable) /\ Len(Segments) = Len(PtLoads)
           /\ Loads = 1..Len(Segments) /\ Len(Segments) \in Nat /\ reloc_offset \in Int
           /\ \A i \in Loads :
                /\ Segments[i] \in Loadable
                /\ Segments[i].vaddr = PtLoads[i].vaddr + reloc_offset
                /\ Segments[i].off = PtLoads[i].off /\ Segments[i].filesz = PtLoads[i].filesz
                /\ Segments[i].memsz = PtLoads[i].memsz
<1>1. /\ PtLoads \in Seq(Headers) /\ Len(PtLoads) \in Nat
      /\ \A i \in Loads : /\ PtLoads[i] \in Headers
                          /\ \E j \in DOMAIN elf.phdrs : /\ PtLoads[i] = elf.phdrs[j]
                                                         /\ elf.phdrs[j].load
  BY PtLoadsFacts
<1>2. PICK j \in Loads : PtLoads[j].vaddr = lowest_vaddr
  BY LowestFacts
<1>3. (\A i \in Loads : lowest_vaddr <= PtLoads[i].vaddr) /\ reloc_offset \in Int /\ lowest_vaddr \in Nat
  BY LowestFacts
<1>4. ASSUME NEW i \in Loads
      PROVE  /\ Segments[i].vaddr = PtLoads[i].vaddr + reloc_offset
             /\ Segments[i].off = PtLoads[i].off /\ Segments[i].filesz = PtLoads[i].filesz
             /\ Segments[i].memsz = PtLoads[i].memsz
             /\ Segments[i] \in Loadable
  <2> DEFINE h == PtLoads[i]
  <2> DEFINE v == h.vaddr + reloc_offset
  <2>1. h \in Headers /\ Segments[i] = [h EXCEPT !.vaddr = v]
    BY <1>1 DEF Segments
  <2>2. h.vaddr \in Nat /\ h.memsz \in Nat
    BY <2>1 DEF Headers
  <2>3. LOAD_BASE * PageCells \in Nat
    <3>1. LOAD_BASE \in Nat /\ PageCells \in Nat
      BY RunnerConstants, KernelConstants, SlotFacts
    <3> QED
      BY <3>1
  <2> DEFINE b == LOAD_BASE * PageCells
  <2>4. v = b + (h.vaddr - lowest_vaddr)
    <3>1. reloc_offset = b - lowest_vaddr
      BY DEF reloc_offset
    <3>2. lowest_vaddr \in Nat /\ b \in Nat
      BY <1>3, <2>3
    <3> HIDE DEF b, h
    <3> QED
      BY <2>2, <3>1, <3>2
  <2>5. b + (h.vaddr - lowest_vaddr) + h.memsz <= (LastPage + 1) * PageCells
    <3>1. PICK x \in DOMAIN elf.phdrs : h = elf.phdrs[x] /\ elf.phdrs[x].load
      BY <1>1
    <3>2. PICK y \in DOMAIN elf.phdrs : PtLoads[j] = elf.phdrs[y] /\ elf.phdrs[y].load
      BY <1>1, <1>2
    <3>3. LOAD_BASE * PageCells + (elf.phdrs[x].vaddr - elf.phdrs[y].vaddr) + elf.phdrs[x].memsz
            <= (LastPage + 1) * PageCells
      BY <3>1, <3>2, RunnerInputs
    <3> QED
      BY <1>2, <3>1, <3>2, <3>3
  <2>6. lowest_vaddr <= h.vaddr
    BY <1>3
  <2>7. v \in Nat
    <3> HIDE DEF b, h, v
    <3> QED
      BY <1>3, <2>2, <2>3, <2>4, <2>6 DEF b
  <2>8. v + h.memsz <= (LastPage + 1) * PageCells
    BY <2>4, <2>5
  <2> HIDE DEF v, h
  <2>9. /\ Segments[i].vaddr = v
        /\ Segments[i].off = h.off /\ Segments[i].filesz = h.filesz
        /\ Segments[i].memsz = h.memsz /\ Segments[i] \in Headers
    BY <2>1, <2>7 DEF Headers
  <2>10. Segments[i] \in Loadable
    BY <2>8, <2>9 DEF Loadable
  <2> QED
    BY <2>9, <2>10 DEF v, h
<1>5. Segments \in [Loads -> Loadable]
  <2>1. \A i \in Loads : Segments[i] \in Loadable
    BY <1>4
  <2>2. Segments = [i \in Loads |-> Segments[i]]
    BY DEF Segments
  <2> QED
    BY <2>1, <2>2
<1>6. Segments \in Seq(Loadable) /\ Len(Segments) = Len(PtLoads)
  BY <1>1, <1>5, SeqDef DEF Loads
<1> QED
  BY <1>1, <1>3, <1>4, <1>6 DEF Loads


\* A factor cancels.
LEMMA CancelLess ==
    ASSUME NEW d \in Nat \ {0}, NEW x \in Int, NEW y \in Int, d * x < d * y
    PROVE  x < y
<1> SUFFICES ASSUME x >= y PROVE FALSE
  OBVIOUS
<1>1. PICK e \in Nat : x = y + e
  <2>1. x - y \in Nat /\ x = y + (x - y)
    OBVIOUS
  <2> QED
    BY <2>1
<1>2. d * x = d * y + d * e /\ d * e >= 0
  BY <1>1
<1> QED
  BY <1>2

\* x is at most n / d exactly when d * x is at most n.
LEMMA DivBound ==
    ASSUME NEW n \in Int, NEW d \in Nat \ {0}, NEW x \in Int
    PROVE  x <= n \div d <=> d * x <= n
<1> DEFINE q == n \div d
<1> DEFINE r == n % d
<1>1. q \in Int /\ r \in 0..(d - 1) /\ n = d * q + r
  BY DivFacts
<1> HIDE DEF q, r
<1>2. ASSUME x <= q PROVE d * x <= n
  <2>1. PICK e \in Nat : q = x + e
    <3>1. q - x \in Nat /\ q = x + (q - x)
      BY <1>1, <1>2
    <3> QED
      BY <3>1
  <2>2. d * q = d * x + d * e /\ d * e >= 0
    BY <2>1
  <2> QED
    BY <1>1, <2>2
<1>3. ASSUME d * x <= n PROVE x <= q
  <2>1. d * (q + 1) = d * q + d
    BY <1>1
  <2>2. d * x < d * (q + 1)
    BY <1>1, <1>3, <2>1
  <2>3. x < q + 1
    BY <1>1, <2>2, CancelLess
  <2> QED
    BY <1>1, <2>3
<1> QED
  BY <1>2, <1>3 DEF q

\* The regions of a segment are modelled, and hold its pages.
LEMMA SegRegionFacts ==
    ASSUME NEW h \in Loadable
    PROVE  /\ SegRegions(h) \subseteq Regions
           /\ \A p \in page_range(h) : Region(p) \in SegRegions(h)
<1> DEFINE d == PageCells
<1> DEFINE t == PagesPerTable
<1> DEFINE T == TableCells
<1> DEFINE v == h.vaddr
<1> DEFINE e == seg_mem_end(h)
<1> DEFINE lo == v \div T
<1> DEFINE hi == (e + T - 1) \div T
<1>1. /\ d \in Nat \ {0} /\ t \in Nat \ {0} /\ LastPage \in Nat /\ v \in Nat /\ e \in Nat
      /\ e <= (LastPage + 1) * d /\ e = v + h.memsz
  BY KernelConstants DEF Loadable, Headers, seg_mem_end
<1>2. T = t * d /\ T \in Nat \ {0}
  <2>1. T = t * d
    BY DEF TableCells
  <2> HIDE DEF T, t, d
  <2> QED
    BY <1>1, <2>1
<1>3. SegRegions(h) = lo..(hi - 1)
  BY DEF SegRegions
<1>4. page_range(h) = (v \div d)..((e + d - 1) \div d - 1)
  BY DEF page_range, seg_mem_end
<1> HIDE DEF d, T, e, v, t
<1>5. lo \in Int /\ hi \in Int /\ lo >= 0
  <2>1. v \in Int /\ v >= 0 /\ e + T - 1 \in Int
    BY <1>1, <1>2
  <2> QED
    BY <1>2, <2>1, DivFacts
<1>6. SegRegions(h) \subseteq Regions
  <2> SUFFICES ASSUME NEW r \in lo..(hi - 1) PROVE r \in Regions
    BY <1>3
  <2>1. r \in Int /\ r >= 0 /\ r + 1 <= hi
    <3> HIDE DEF lo, hi
    <3> QED
      BY <1>5
  <2>2. T * (r + 1) <= e + T - 1
    <3>1. e + T - 1 \in Int /\ r + 1 \in Int
      BY <1>1, <1>2, <2>1
    <3> QED
      BY <1>2, <2>1, <3>1, DivBound
  <2>3. T * r < e
    <3>1. T * (r + 1) = T * r + T
      BY <1>2, <2>1
    <3> QED
      BY <1>1, <1>2, <2>1, <2>2, <3>1
  <2>4. d * (t * r) < d * (LastPage + 1)
    <3>1. T * r = d * (t * r)
      BY <1>1, <1>2, <2>1
    <3>2. (LastPage + 1) * d = d * (LastPage + 1)
      BY <1>1
    <3>3. t * r \in Int /\ d * (t * r) \in Int /\ d * (LastPage + 1) \in Int
      BY <1>1, <2>1
    <3> QED
      BY <1>1, <2>3, <3>1, <3>2, <3>3
  <2>5. t * r < LastPage + 1 /\ t * r \in Int
    <3>1. t * r \in Int /\ LastPage + 1 \in Int
      BY <1>1, <2>1
    <3> QED
      BY <1>1, <2>4, <3>1, CancelLess
  <2>6. r <= LastPage \div t
    <3>1. t * r <= LastPage /\ LastPage \in Int
      BY <1>1, <2>5
    <3> QED
      BY <1>1, <2>1, <3>1, DivBound
  <2>7. LastPage \div t \in Int
    BY <1>1, DivFacts
  <2> DEFINE m == LastPage \div t
  <2>8. Regions = 0..m
    BY DEF Regions, Region, t
  <2> HIDE DEF m
  <2> QED
    BY <2>1, <2>6, <2>7, <2>8 DEF m
<1>7. ASSUME NEW p \in page_range(h)
      PROVE  Region(p) \in SegRegions(h)
  <2> DEFINE b == v \div d
  <2> DEFINE c == (e + d - 1) \div d
  <2> DEFINE q == p \div t
  <2>1. b \in Int /\ c \in Int /\ v < d * b + d /\ d * b <= v
    <3>1. v \in Int /\ e + d - 1 \in Int
      BY <1>1
    <3>2. b \in Int /\ c \in Int /\ v % d \in 0..(d - 1) /\ v = d * b + (v % d)
      BY <1>1, <3>1, DivFacts
    <3> HIDE DEF b, c
    <3> QED
      BY <1>1, <3>2
  <2>2. p \in Int /\ b <= p /\ p + 1 <= c
    <3> HIDE DEF b, c
    <3>1. p \in b..(c - 1)
      BY <1>4, <1>7 DEF b, c
    <3> QED
      BY <2>1, <3>1
  <2>3. d * (p + 1) <= e + d - 1
    <3>1. e + d - 1 \in Int /\ p + 1 \in Int
      BY <1>1, <2>2
    <3> QED
      BY <1>1, <2>2, <3>1, DivBound
  <2>4. q \in Int /\ t * q <= p
    <3>1. q \in Int
      BY <1>1, <2>2, DivFacts
    <3>2. q <= p \div t
      BY <3>1
    <3> HIDE DEF q
    <3> QED
      BY <1>1, <2>2, <3>1, <3>2, DivBound
  <2> HIDE DEF b, c
  <2>5. lo <= q
    <3>1. T * lo <= v
      <4>1. lo <= v \div T /\ v \in Int
        BY <1>1, <1>5
      <4> HIDE DEF lo
      <4> QED
        BY <1>2, <1>5, <4>1, DivBound
    <3> HIDE DEF lo, q
    <3>2. T * lo = d * (t * lo) /\ t * lo \in Int /\ d * (t * lo) \in Int
      BY <1>1, <1>2, <1>5
    <3>3. d * (b + 1) = d * b + d /\ d * (b + 1) \in Int
      BY <1>1, <2>1
    <3>4. d * (t * lo) < d * (b + 1)
      BY <1>1, <2>1, <3>1, <3>2, <3>3
    <3>5. t * lo < b + 1
      <4>1. b + 1 \in Int
        BY <2>1
      <4> QED
        BY <1>1, <3>2, <3>4, <4>1, CancelLess
    <3>6. t * lo <= p
      BY <2>1, <2>2, <3>2, <3>5
    <3> QED
      BY <1>1, <1>5, <2>2, <3>6, DivBound DEF q
  <2>6. q + 1 <= hi
    <3> HIDE DEF q
    <3>1. T * q = d * (t * q) /\ t * q \in Int
      BY <1>1, <1>2, <2>4
    <3>2. d * (t * q) <= d * p
      <4>1. PICK x \in Nat : p = t * q + x
        <5>1. p - t * q \in Nat /\ p = t * q + (p - t * q)
          BY <2>2, <2>4, <3>1
        <5> QED
          BY <5>1
      <4>2. d * p = d * (t * q) + d * x /\ d * x >= 0
        BY <1>1, <3>1, <4>1
      <4>3. d * (t * q) \in Int /\ d * x \in Int
        BY <1>1, <3>1, <4>1
      <4> QED
        BY <4>2, <4>3
    <3>3. d * (p + 1) = d * p + d /\ d * p \in Int
      BY <1>1, <2>2
    <3>4. T * (q + 1) = T * q + T /\ T * q \in Int
      BY <1>2, <2>4
    <3>5. T * (q + 1) <= e + T - 1
      BY <1>1, <1>2, <2>3, <3>1, <3>2, <3>3, <3>4
    <3>6. e + T - 1 \in Int /\ q + 1 \in Int
      BY <1>1, <1>2, <2>4
    <3> QED
      BY <1>2, <3>5, <3>6, DivBound
  <2>7. Region(p) = q
    BY DEF Region, t
  <2> HIDE DEF lo, hi, q
  <2> QED
    BY <1>3, <1>5, <2>4, <2>5, <2>6, <2>7
<1> QED
  BY <1>6, <1>7


\* The slice of a segment that falls in a page.
LEMMA PageInfoFacts ==
    ASSUME NEW h \in Loadable, NEW page \in Pages
    PROVE  PageInfo(h, page) \in InfoType /\ PageInfo(h, page).page = page
<1> DEFINE from == MaxOf(h.vaddr, page * PageCells)
<1> DEFINE to == MinOf(seg_file_end(h), (page + 1) * PageCells)
<1>1. h.vaddr \in Nat /\ h.filesz \in Nat /\ h.off \in Nat
  BY DEF Loadable, Headers
<1>2. page * PageCells \in Nat /\ (page + 1) * PageCells \in Nat /\ seg_file_end(h) \in Nat
  <2>1. page \in Nat /\ PageCells \in Nat
    BY SlotFacts, KernelConstants
  <2> QED
    BY <1>1, <2>1 DEF seg_file_end
<1>3. /\ from \in Nat /\ to \in Nat /\ from - h.vaddr \in Nat /\ from - page * PageCells \in Nat
      /\ from < to => to - from \in Nat
  BY <1>1, <1>2 DEF MaxOf, MinOf
<1>4. PageInfo(h, page) =
        IF from < to
        THEN [page |-> page, file_off |-> h.off + (from - h.vaddr),
              copy_off |-> from - page * PageCells, len |-> to - from]
        ELSE [page |-> page, file_off |-> 0, copy_off |-> 0, len |-> 0]
  BY DEF PageInfo
<1> HIDE DEF from, to
<1>5. h.off + (from - h.vaddr) \in Nat
  BY <1>1, <1>3
<1> QED
  BY <1>3, <1>4, <1>5 DEF InfoType

\* w records the first n pages of the walk, each once, with a slice of one of
\* the segments that touch it.
InfosOK(w, segs, walk, n) ==
  /\ w \in Seq(InfoType)
  /\ \A j \in DOMAIN w : \E s \in DOMAIN segs : /\ w[j].page \in page_range(segs[s])
                                               /\ w[j] = PageInfo(segs[s], w[j].page)
  /\ \A m \in 1..n : Recorded(w, walk[m].page)
  /\ \A i, j \in DOMAIN w : w[i].page = w[j].page => i = j

\* One more page of the walk.
LEMMA InfosStep ==
    ASSUME NEW segs \in Seq(Loadable), NEW walk, WalkOK(walk, segs, Len(segs)),
           NEW n \in 1..Len(walk), NEW w, InfosOK(w, segs, walk, n - 1)
    PROVE  InfosOK(IF Recorded(w, walk[n].page) THEN w
                   ELSE Append(w, PageInfo(segs[walk[n].seg], walk[n].page)), segs, walk, n)
<1> DEFINE p == walk[n].page
<1> DEFINE s == walk[n].seg
<1> DEFINE x == PageInfo(segs[s], p)
<1> DEFINE v == Append(w, x)
<1>1. n \in DOMAIN walk /\ walk[n] \in [seg : 1..Len(segs), page : Pages]
  <2> DEFINE R == [seg : 1..Len(segs), page : Pages]
  <2>1. walk \in Seq(R)
    BY DEF WalkOK
  <2> HIDE DEF R
  <2>2. DOMAIN walk = 1..Len(walk)
    BY <2>1, LenProperties
  <2>3. walk[n] \in R
    BY <2>1, ElementOfSeq
  <2> QED
    BY <2>2, <2>3 DEF R
<1>2. p \in page_range(segs[s]) /\ p \in Pages /\ s \in DOMAIN segs /\ segs[s] \in Loadable
  BY <1>1 DEF WalkOK
<1>3. n \in Int /\ \A m \in 1..n : m = n \/ m \in 1..(n - 1)
  OBVIOUS
<1>4. CASE Recorded(w, p)
  <2>1. \A m \in 1..n : Recorded(w, walk[m].page)
    BY <1>3, <1>4 DEF InfosOK
  <2> QED
    BY <1>4, <2>1 DEF InfosOK
<1>5. CASE ~Recorded(w, p)
  <2>1. x \in InfoType /\ x.page = p
    BY <1>2, PageInfoFacts
  <2>2. w \in Seq(InfoType)
    BY DEF InfosOK
  <2> HIDE DEF x
  <2>3. /\ v \in Seq(InfoType) /\ Len(v) = Len(w) + 1 /\ v[Len(w) + 1] = x
        /\ \A i \in 1..Len(w) : v[i] = w[i]
    BY <2>1, <2>2, AppendProperties
  <2> HIDE DEF v
  <2>4. Len(w) \in Nat /\ DOMAIN w = 1..Len(w) /\ DOMAIN v = 1..(Len(w) + 1)
    BY <2>2, <2>3
  <2>5. \A j \in DOMAIN v : (j \in DOMAIN w /\ v[j] = w[j]) \/ (j = Len(w) + 1 /\ v[j] = x)
    BY <2>3, <2>4
  <2>6. \A j \in DOMAIN w : w[j].page # p
    BY <1>5 DEF Recorded
  <2>7. ASSUME NEW j \in DOMAIN v
        PROVE  \E z \in DOMAIN segs : v[j].page \in page_range(segs[z])
                                      /\ v[j] = PageInfo(segs[z], v[j].page)
    <3>1. CASE j \in DOMAIN w /\ v[j] = w[j]
      BY <3>1 DEF InfosOK
    <3>2. CASE v[j] = x
      BY <1>2, <2>1, <3>2 DEF x
    <3> QED
      BY <2>5, <3>1, <3>2
  <2>8. \A q : Recorded(w, q) => Recorded(v, q)
    BY <2>3, <2>4 DEF Recorded
  <2>9. Recorded(v, p)
    <3>1. Len(w) + 1 \in DOMAIN v
      BY <2>4
    <3> QED
      BY <2>1, <2>3, <3>1 DEF Recorded
  <2>10. \A m \in 1..n : Recorded(v, walk[m].page)
    <3> SUFFICES ASSUME NEW m \in 1..n PROVE Recorded(v, walk[m].page)
      OBVIOUS
    <3>1. CASE m = n
      BY <2>9, <3>1
    <3>2. CASE m \in 1..(n - 1)
      BY <2>8, <3>2 DEF InfosOK
    <3> QED
      BY <1>3, <3>1, <3>2
  <2>11. \A i, j \in DOMAIN v : v[i].page = v[j].page => i = j
    <3> SUFFICES ASSUME NEW i \in DOMAIN v, NEW j \in DOMAIN v, v[i].page = v[j].page PROVE i = j
      OBVIOUS
    <3>1. CASE i \in DOMAIN w /\ v[i] = w[i] /\ j \in DOMAIN w /\ v[j] = w[j]
      BY <3>1 DEF InfosOK
    <3> QED
      BY <2>1, <2>5, <2>6, <3>1
  <2>12. InfosOK(v, segs, walk, n)
    BY <2>3, <2>7, <2>10, <2>11 DEF InfosOK
  <2> QED
    BY <1>5, <2>12 DEF v, x
<1> QED
  BY <1>4, <1>5

\* page_info records the pages of the walk.
LEMMA InfosWalk ==
    ASSUME NEW segs \in Seq(Loadable)
    PROVE  InfosOK(Infos(segs), segs, Walk(segs), Len(Walk(segs)))
<1> DEFINE walk == Walk(segs)
<1> DEFINE N == Len(walk)
<1> DEFINE Grown(w, n) == IF Recorded(w, walk[n].page) THEN w
                          ELSE Append(w, PageInfo(segs[walk[n].seg], walk[n].page))
<1> DEFINE Step(g, n) == IF n = 0 THEN <<>> ELSE Grown(g[n - 1], n)
<1> DEFINE Good(g, m) == g = [n \in 0..m |-> Step(g, n)]
<1> DEFINE D == {m \in Nat : \E g : Good(g, m)}
<1>0. WalkOK(walk, segs, Len(segs))
  BY WalkFacts
<1>3. N \in Nat /\ DOMAIN walk = 1..N
  <2>1. walk \in Seq([seg : 1..Len(segs), page : Pages])
    BY <1>0 DEF WalkOK
  <2> HIDE DEF walk
  <2> QED
    BY <2>1, LenProperties
<1>6a. Infos(segs) = (CHOOSE g : g = [n \in 0..N |->
          IF n = 0 THEN <<>>
          ELSE IF Recorded(g[n - 1], walk[n].page) THEN g[n - 1]
          ELSE Append(g[n - 1], PageInfo(segs[walk[n].seg], walk[n].page))])[N]
  BY DEF Infos
<1> HIDE DEF walk
<1>1. 0 \in D
  <2>1. Good([n \in 0..0 |-> <<>>], 0)
    <3> HIDE DEF Grown
    <3> QED
      OBVIOUS
  <2> QED
    BY <2>1
<1>2. ASSUME NEW m \in 0..(N - 1), m \in D
      PROVE  m + 1 \in D
  <2>1. PICK g : Good(g, m)
    BY <1>2
  <2> DEFINE f == [n \in 0..(m + 1) |-> Step(g, n)]
  <2>2. \A n \in 0..m : f[n] = g[n]
    <3> HIDE DEF Step
    <3>1. \A n \in 0..m : g[n] = Step(g, n)
      BY <2>1
    <3>2. \A n \in 0..m : f[n] = Step(g, n)
      OBVIOUS
    <3> QED
      BY <3>1, <3>2
  <2>3. \A n \in 0..(m + 1) : n # 0 => n - 1 \in 0..m
    OBVIOUS
  <2> HIDE DEF Grown
  <2>5. \A n \in 0..(m + 1) : f[n] = Step(g, n)
    OBVIOUS
  <2>6. f = [n \in 0..(m + 1) |-> f[n]]
    OBVIOUS
  <2> HIDE DEF f
  <2>4. \A n \in 0..(m + 1) : n # 0 => f[n - 1] = g[n - 1]
    BY <2>2, <2>3
  <2>7. \A n \in 0..(m + 1) : Step(f, n) = Step(g, n)
    BY <2>4
  <2>8. Good(f, m + 1)
    BY <2>5, <2>6, <2>7
  <2> HIDE DEF Good
  <2> QED
    BY <2>8
<1>4. \E g : Good(g, N)
  <2> HIDE DEF D
  <2>1. \A n \in 0..N : n \in D
    BY <1>1, <1>2, <1>3, SetInduction
  <2>2. N \in D
    BY <1>3, <2>1
  <2> HIDE DEF Good
  <2> QED
    BY <2>2 DEF D
<1> DEFINE F == CHOOSE g : Good(g, N)
<1>5. Good(F, N)
  BY <1>4
<1>6. Infos(segs) = F[N]
  BY <1>6a
<1>7. \A n \in 0..N : F[n] = Step(F, n)
  BY <1>5
<1> HIDE DEF F
<1> DEFINE E == {n \in Nat : InfosOK(F[n], segs, walk, n)}
<1>8. 0 \in E
  <2>1. F[0] = <<>>
    <3> HIDE DEF Grown
    <3>1. 0 \in 0..N
      BY <1>3
    <3> QED
      BY <1>7, <3>1
  <2>2. InfosOK(<<>>, segs, walk, 0)
    BY EmptySeq DEF InfosOK
  <2> QED
    BY <2>1, <2>2
<1>9. ASSUME NEW n \in 0..(N - 1), n \in E
      PROVE  n + 1 \in E
  <2>1. n + 1 \in 0..N /\ n + 1 # 0 /\ n + 1 - 1 = n /\ n + 1 \in 1..N
    OBVIOUS
  <2>2. F[n + 1] = Grown(F[n], n + 1)
    <3> HIDE DEF Grown
    <3>1. F[n + 1] = Step(F, n + 1)
      <4> HIDE DEF Step
      <4> QED
        BY <1>7, <2>1
    <3>2. F[(n + 1) - 1] = F[n]
      BY <2>1
    <3> HIDE DEF Good
    <3>3. Step(F, n + 1) = Grown(F[(n + 1) - 1], n + 1)
      BY <2>1
    <3> QED
      BY <3>1, <3>2, <3>3
  <2>3. InfosOK(F[n], segs, walk, (n + 1) - 1)
    BY <1>9, <2>1
  <2>4. InfosOK(Grown(F[n], n + 1), segs, walk, n + 1)
    BY <1>0, <2>1, <2>3, InfosStep
  <2> HIDE DEF Grown
  <2>5. InfosOK(F[n + 1], segs, walk, n + 1)
    BY <2>2, <2>4
  <2> QED
    BY <2>5
<1> HIDE DEF E
<1>10. \A n \in 0..N : n \in E
  BY <1>3, <1>8, <1>9, SetInduction
<1>11. InfosOK(Infos(segs), segs, walk, N)
  BY <1>3, <1>6, <1>10 DEF E
<1> QED
  BY <1>11 DEF walk


\* page_info: a slice for every page of the image, each page once, none in the
\* stack's region when no segment reaches into that region.
LEMMA InfosFacts ==
    ASSUME elf \in Elves, PtLoads # <<>>
    PROVE  LET w == Infos(Segments) IN
           /\ w \in Seq(InfoType)
           /\ \A j \in DOMAIN w : w[j].page \in ImagePages /\ w[j].page \in Pages
           /\ \A j \in DOMAIN w : \E i \in Loads : /\ w[j].page \in page_range(Segments[i])
                                                  /\ w[j] = PageInfo(Segments[i], w[j].page)
           /\ \A p \in ImagePages : \E j \in DOMAIN w : w[j].page = p
           /\ \A i, j \in DOMAIN w : w[i].page = w[j].page => i = j
           /\ \A p \in ImagePages : p \in Pages /\ Region(p) \in AllRegions
           /\ AllRegions \subseteq Regions
<1> DEFINE w == Infos(Segments)
<1> DEFINE walk == Walk(Segments)
<1>1. /\ Segments \in Seq(Loadable) /\ Loads = 1..Len(Segments) /\ DOMAIN Segments = 1..Len(Segments)
      /\ \A i \in Loads : Segments[i] \in Loadable
  BY SegmentFacts, LenProperties
<1>2. InfosOK(w, Segments, walk, Len(walk)) /\ WalkOK(walk, Segments, Len(Segments))
  BY <1>1, InfosWalk, WalkFacts
<1>3. DOMAIN walk = 1..Len(walk)
  <2>1. walk \in Seq([seg : 1..Len(Segments), page : Pages])
    BY <1>2 DEF WalkOK
  <2> HIDE DEF walk
  <2> QED
    BY <2>1, LenProperties
<1> HIDE DEF w, walk
<1>4. ASSUME NEW p \in ImagePages PROVE p \in Pages /\ Region(p) \in AllRegions
  <2>1. PICK i \in Loads : p \in page_range(Segments[i])
    BY DEF ImagePages
  <2>2. p \in Pages
    BY <1>1, <2>1, PageRangeFacts
  <2>3. Region(p) \in SegRegions(Segments[i])
    BY <1>1, <2>1, SegRegionFacts
  <2> QED
    BY <2>2, <2>3 DEF AllRegions
<1>5. AllRegions \subseteq Regions
  BY <1>1, SegRegionFacts DEF AllRegions
<1>6. ASSUME NEW j \in DOMAIN w
      PROVE  \E i \in Loads : /\ w[j].page \in page_range(Segments[i])
                              /\ w[j] = PageInfo(Segments[i], w[j].page)
  BY <1>1, <1>2 DEF InfosOK
<1>7. \A j \in DOMAIN w : w[j].page \in ImagePages
  BY <1>6 DEF ImagePages
<1>8. ASSUME NEW p \in ImagePages
      PROVE  \E j \in DOMAIN w : w[j].page = p
  <2>1. PICK i \in Loads : p \in page_range(Segments[i])
    BY DEF ImagePages
  <2>2. PICK m \in DOMAIN walk : walk[m].page = p
    BY <1>1, <1>2, <2>1 DEF WalkOK
  <2>3. Recorded(w, p)
    BY <1>2, <1>3, <2>2 DEF InfosOK
  <2> QED
    BY <2>3 DEF Recorded
<1>9. w \in Seq(InfoType) /\ \A i, j \in DOMAIN w : w[i].page = w[j].page => i = j
  BY <1>2 DEF InfosOK
<1> QED
  BY <1>4, <1>5, <1>6, <1>7, <1>8, <1>9 DEF w

\* The next region without a table is a region of a segment.
LEMMA NextRegionFacts ==
    ASSUME elf \in Elves, PtLoads # <<>>, Untabled # {}
    PROVE  NextRegion \in Untabled /\ NextRegion \in Regions
<1> DEFINE New(i) == SegRegions(Segments[i]) \ mapped_pts
<1> DEFINE I == {i \in Loads : New(i) # {}}
<1>1. /\ Loads = 1..Len(Segments) /\ Len(Segments) \in Nat
      /\ \A i \in Loads : Segments[i] \in Loadable
  BY SegmentFacts
<1>2. I \in SUBSET Nat /\ I # {}
  <2>1. PICK i \in Loads : New(i) # {}
    BY DEF Untabled
  <2>2. Loads \subseteq Nat
    BY <1>1
  <2> HIDE DEF New
  <2> QED
    BY <2>1, <2>2
<1>3. PICK x \in I : \A y \in I : x <= y
  <2> HIDE DEF I
  <2> QED
    BY <1>2, LeastOf
<1>4. /\ x \in Loads /\ New(x) # {}
      /\ \A j \in 1..(x - 1) : SegRegions(Segments[j]) \subseteq mapped_pts
  <2>1. x \in Loads /\ New(x) # {}
    BY <1>3
  <2>2. ASSUME NEW j \in 1..(x - 1) PROVE SegRegions(Segments[j]) \subseteq mapped_pts
    <3>1. j \in Loads /\ ~(x <= j)
      BY <1>1, <2>1
    <3>2. j \notin I
      BY <1>3, <3>1
    <3>3. New(j) = {}
      BY <3>1, <3>2
    <3> QED
      BY <3>3
  <2> QED
    BY <2>1, <2>2
<1> DEFINE C(i) == /\ New(i) # {}
                   /\ \A j \in 1..(i - 1) : SegRegions(Segments[j]) \subseteq mapped_pts
<1> DEFINE first == CHOOSE i \in Loads : C(i)
<1>5. first \in Loads /\ C(first)
  <2>1. x \in Loads /\ C(x)
    BY <1>4
  <2> HIDE DEF C
  <2> QED
    BY <2>1
<1>6. NextRegion = CHOOSE r \in New(first) : \A q \in New(first) : r <= q
  BY DEF NextRegion
<1> HIDE DEF first
<1>7. New(first) \subseteq Regions /\ New(first) # {}
  BY <1>1, <1>5, SegRegionFacts
<1>8. Regions \subseteq Nat
  BY DEF Regions
<1> DEFINE N == New(first)
<1>9. N \in SUBSET Nat /\ N # {} /\ NextRegion = CHOOSE r \in N : \A q \in N : r <= q
  BY <1>6, <1>7, <1>8
<1>10. N \subseteq Untabled
  BY <1>5 DEF Untabled
<1> HIDE DEF N
<1>11. NextRegion \in N
  <2>1. \E r \in N : \A q \in N : r <= q
    BY <1>9, LeastOf
  <2> QED
    BY <1>9, <2>1
<1> QED
  BY <1>7, <1>10, <1>11 DEF N


\* What is defined from the inputs stays.
LEMMA SameInputs ==
    ASSUME UNCHANGED inputs
    PROVE  /\ elf' = elf /\ args' = args
           /\ PtLoads' = PtLoads /\ Loads' = Loads /\ reloc_offset' = reloc_offset
           /\ Segments' = Segments /\ AllRegions' = AllRegions /\ ImagePages' = ImagePages
           /\ Regular' = Regular /\ Patches' = Patches /\ argv' = argv
           /\ \A i : (Slice(i))' = Slice(i) /\ (Patched(i))' = Patched(i)
<1>1. elf' = elf /\ args' = args
  BY DEF inputs
<1>2. PtLoads' = PtLoads
  BY <1>1 DEF PtLoads
<1>3. Loads' = Loads
  BY <1>2 DEF Loads
<1>4. reloc_offset' = reloc_offset
  BY <1>2, <1>3 DEF reloc_offset, lowest_vaddr
<1>5. Segments' = Segments
  BY <1>2, <1>3, <1>4 DEF Segments
<1>6. AllRegions' = AllRegions /\ ImagePages' = ImagePages
  BY <1>3, <1>5 DEF AllRegions, ImagePages
<1>7. Regular' = Regular
  BY <1>1, <1>2, <1>3, <1>5, <1>6 DEF Regular
<1>8. Patches' = Patches
  BY <1>1, <1>4 DEF Patches, relocated_entry
<1>9. \A i : (Slice(i))' = Slice(i)
  BY <1>1 DEF Slice, Copied, SourceOf
<1>10. \A i : (Patched(i))' = Patched(i)
  BY <1>4, <1>8, <1>9 DEF Patched
<1>11. argv' = argv
  BY <1>1 DEF argv
<1> QED
  BY <1>1, <1>2, <1>3, <1>4, <1>5, <1>6, <1>7, <1>8, <1>9, <1>10, <1>11

\* And so does what was intact when a page was filled.
LEMMA SameSource ==
    ASSUME UNCHANGED inputs, page_info' = page_info
    PROVE  \A n, c : (Sourced(n, c))' <=> Sourced(n, c)
<1>1. elf' = elf
  BY DEF inputs
<1> QED
  BY <1>1 DEF Sourced, Copied, SourceOf, Intact, FilePage

\* A page is filled with numbers.
LEMMA FilledType ==
    ASSUME elf \in Elves, NEW i \in InfoType, NEW k \in Kernels
    PROVE  Filled(k, i) \in [Cells -> Int] /\ i.page \in Pages
<1>1. i.file_off \in Nat /\ i.copy_off \in Nat /\ i.page \in Pages /\ elf.at \in Nat
  BY RunnerInputs DEF InfoType
<1>2. \A c \in Cells : c \in Int
  BY SlotFacts
<1>3. ASSUME NEW c \in Cells
      PROVE  FileCell(k, elf, i.page, SourceOf(i, c)) \in Int
  <2> DEFINE o == SourceOf(i, c)
  <2> DEFINE s == k.vmap["root"][FilePage(elf, o)]
  <2>1. o \in Int
    BY <1>1, <1>2 DEF SourceOf
  <2> HIDE DEF o
  <2>2. (elf.at + o) % PageCells \in Cells
    <3>1. PageCells \in Nat \ {0} /\ elf.at + o \in Int
      BY <1>1, <2>1, KernelConstants
    <3> QED
      BY <3>1 DEF Cells
  <2>3. s \in Slots => CellAt(k, elf.at + o) \in Int
    <3>1. k.data \in [Slots -> [Cells -> Int]]
      BY DEF Kernels
    <3>2. s \in Slots => k.data[s][(elf.at + o) % PageCells] \in Int
      BY <2>2, <3>1
    <3> QED
      BY <3>2 DEF CellAt, FilePage
  <2>4. FileCell(k, elf, i.page, o) \in Int
    BY <2>1, <2>3 DEF FileCell, Torn
  <2> QED
    BY <2>4 DEF o
<1> QED
  BY <1>1, <1>3 DEF Filled

\* The slice is what a page gets, in the cells whose source is intact.
LEMMA FilledSlice ==
    ASSUME NEW k, NEW n, NEW c \in Cells, Sourced(n, c),
           page_info[n].page \in {page_info[j].page : j \in 1..n},
           \A p \in Pages : k.vmap["root"][p] \in Slots => \E j \in 1..n : page_info[j].page = p
    PROVE  Filled(k, page_info[n])[c] = Slice(page_info[n])[c]
<1> DEFINE i == page_info[n]
<1> DEFINE o == SourceOf(i, c)
<1>1. CASE ~Copied(i, c)
  BY <1>1 DEF Filled, Slice
<1>2. CASE Copied(i, c)
  <2>1. \A j \in 1..n : page_info[j].page # FilePage(elf, o)
    BY <1>2 DEF Sourced, Intact
  <2>2. FilePage(elf, o) # i.page
    BY <2>1
  <2>3. ~(FilePage(elf, o) \in Pages /\ k.vmap["root"][FilePage(elf, o)] \in Slots)
    BY <2>1
  <2>4. FileCell(k, elf, i.page, o) = o + 1
    BY <2>2, <2>3 DEF FileCell
  <2> QED
    BY <1>2, <2>4 DEF Filled, Slice
<1> QED
  BY <1>1, <1>2

\* The fixed pages: all modelled, and none of them is the page below the stack.
LEMMA LayoutFacts ==
    /\ STACK \in Pages /\ IPC_BUF \in Pages /\ TLS_BASE \in Pages /\ TRAMPOLINE \in Pages
    /\ LOAD_BASE \in Pages /\ STACK_EXTRA_PAGES \in Nat /\ STACK \in Nat
    /\ GuardPage \in Pages /\ Region(GuardPage) = Region(STACK)
    /\ \A i \in 0..STACK_EXTRA_PAGES : /\ STACK - i \in Pages /\ STACK - i # GuardPage
                                       /\ STACK - i # IPC_BUF /\ STACK - i \in Fixed
                                       /\ STACK - i \notin {TLS_BASE, TRAMPOLINE}
    /\ IPC_BUF # GuardPage /\ TLS_BASE # GuardPage /\ TRAMPOLINE # GuardPage
    /\ IPC_BUF \notin {TLS_BASE, TRAMPOLINE} /\ TLS_BASE # TRAMPOLINE
    /\ {STACK, IPC_BUF, TLS_BASE, TRAMPOLINE} \subseteq Fixed
<1>1. /\ STACK \in Pages /\ IPC_BUF \in Pages /\ TLS_BASE \in Pages /\ TRAMPOLINE \in Pages
      /\ LOAD_BASE \in Pages /\ STACK_EXTRA_PAGES \in 0..(STACK - 1)
  BY RunnerConstants
<1>2. STACK \in Nat /\ LastPage \in Nat /\ STACK <= LastPage /\ STACK_EXTRA_PAGES \in Nat
      /\ STACK_EXTRA_PAGES <= STACK - 1
  BY <1>1, KernelConstants DEF Pages
<1>3. GuardPage \in Nat /\ GuardPage = STACK - (STACK_EXTRA_PAGES + 1) /\ GuardPage <= STACK
  BY <1>2 DEF GuardPage
<1>4. GuardPage \in Pages /\ GuardPage \in GuardPage..STACK /\ STACK \in GuardPage..STACK
  BY <1>2, <1>3 DEF Pages
<1>5. ASSUME NEW i \in 0..STACK_EXTRA_PAGES
      PROVE  /\ STACK - i \in Pages /\ STACK - i # GuardPage /\ STACK - i \in GuardPage..STACK
             /\ STACK - i \in (STACK - STACK_EXTRA_PAGES)..STACK
  BY <1>2, <1>3 DEF Pages
<1>6. /\ \A p \in GuardPage..STACK : Region(p) = Region(STACK) /\ p # IPC_BUF
      /\ Region(IPC_BUF) = Region(STACK)
      /\ \A p \in {LOAD_BASE, TLS_BASE, TRAMPOLINE} : Region(p) # Region(STACK)
      /\ TLS_BASE # TRAMPOLINE
  BY RunnerLayout
<1>7. \A p \in GuardPage..STACK : p \notin {TLS_BASE, TRAMPOLINE}
  BY <1>6
<1>8. STACK \in (STACK - STACK_EXTRA_PAGES)..STACK
  BY <1>2
<1> QED
  BY <1>1, <1>2, <1>4, <1>5, <1>6, <1>7, <1>8 DEF Fixed


-----------------------------------------------------------------------------
(***************************************************************************)
(* Initial states, and what many steps share.                              *)
(***************************************************************************)
\* The kernel at boot is sound, and no page of the root has a frame of its own.
LEMMA BootedSound ==
    ASSUME NEW m \in Seq(Untypeds), NEW t, NEW image
    PROVE  LET k == Booted(m, t, image) IN
           /\ Sound(k)
           /\ \A p \in Pages : /\ k.vmap["root"][p] \notin Slots
                               /\ p \notin image => k.vmap["root"][p] = NoCap
<1> DEFINE k == Booted(m, t, image)
<1>1. k \in Kernels
  BY BootedFacts
<1>2. (\A p \in Pages : k.vmap["root"][p] = IF p \in image THEN Image ELSE NoCap)
      /\ (\A s \in Slots : k.at[s] = Nowhere)
  BY DEF Booted, Spaces
<1> HIDE DEF k
<1>3. \A p \in Pages : k.vmap["root"][p] \notin Slots
  BY <1>2, SlotFacts
<1>4. Sound(k)
  BY <1>1, <1>2, <1>3 DEF Sound
<1> QED
  BY <1>2, <1>3, <1>4 DEF k

\* The slots of a list that counts up or down.
LEMMA CountedSlots ==
    ASSUME NEW n \in Int, NEW f, f = [i \in 1..n |-> f[i]], \A i \in 1..n : f[i] \in Slots
    PROVE  f \in Seq(Slots)
<1>1. CASE n \in Nat
  <2>1. f \in [1..n -> Slots]
    OBVIOUS
  <2> QED
    BY <1>1, <2>1, SeqDef
<1>2. CASE n \notin Nat
  <2>1. 1..n = 1..0
    BY <1>2
  <2>2. f \in [1..0 -> Slots] /\ 0 \in Nat
    BY <2>1
  <2> QED
    BY <2>2, SeqDef
<1> QED
  BY <1>1, <1>2

\* The slots pushed are slots.
LEMMA SlotLists ==
    /\ [i \in 1..(EndSlot - FirstSlot) |-> FirstSlot + i - 1] \in Seq(Slots)
    /\ RemainingSlots \in Seq(Slots)
<1>1. FirstSlot \in Nat \ {0} /\ EndSlot \in Nat
  BY KernelConstants
<1> DEFINE f == [i \in 1..(EndSlot - FirstSlot) |-> FirstSlot + i - 1]
<1>2. f = [i \in 1..(EndSlot - FirstSlot) |-> f[i]] /\ EndSlot - FirstSlot \in Int
  BY <1>1
<1>3. \A i \in 1..(EndSlot - FirstSlot) : f[i] \in Slots
  BY <1>1 DEF Slots
<1> HIDE DEF f
<1>4. f \in Seq(Slots)
  BY <1>2, <1>3, CountedSlots
<1> DEFINE g == RemainingSlots
<1>5. g = [i \in 1..(EndSlot - FirstSlot - 6) |-> g[i]] /\ EndSlot - FirstSlot - 6 \in Int
  BY <1>1 DEF RemainingSlots
<1>6. \A i \in 1..(EndSlot - FirstSlot - 6) : g[i] \in Slots
  BY <1>1 DEF Slots, RemainingSlots
<1> HIDE DEF g
<1>7. g \in Seq(Slots)
  BY <1>5, <1>6, CountedSlots
<1> QED
  BY <1>4, <1>7 DEF f, g

\* The invariant holds initially.
LEMMA InitInv == Init => IInv /\ RootInv
<1> SUFFICES ASSUME Init PROVE IInv /\ RootInv
  OBVIOUS
<1>1. PICK m \in Memories, t \in RootTables, image \in RootImages : kern = Booted(m, t, image)
  BY DEF Init
<1>2. m \in Seq(Untypeds) /\ GuardPage \notin image
  BY RunnerInputs, RunnerImages, LayoutFacts
<1>3. Sound(kern) /\ kern.vmap["root"][GuardPage] = NoCap /\ \A p \in Pages : ~Backed(p)
  BY <1>1, <1>2, BootedSound, LayoutFacts DEF Backed
<1>4. Shapes
  <2>1. recycled \in Seq(Slots)
    BY SlotLists DEF Init
  <2>2. task \in TaskType
    BY DEF Init, NoTask, TaskType, AnySlot
  <2>3. page_info \in Seq(InfoType) /\ frame_slots \in Seq(Slots) /\ Len(page_info) = 0
    BY EmptySeq DEF Init
  <2> QED
    BY <2>1, <2>2, <2>3 DEF Init, Shapes
<1>5. LoopInv
  BY DEF Init, LoopInv, PCs, Planned, Imaged, Stacked, Furnished
<1>6. TableInv
  BY <1>3 DEF Init, TableInv, Tabled, Planned, Imaged, Stacked, Furnished
<1>7. PagesInv /\ ImageInv /\ EntryContract
  BY DEF Init, PagesInv, ImageInv, EntryContract, Imaged, Stacked, Furnished
<1>8. RootInv
  BY <1>3 DEF Init, RootInv
<1> QED
  BY <1>3, <1>4, <1>5, <1>6, <1>7, <1>8 DEF IInv

\* Before the tables, and at the end, little is claimed.
Early == {"endpoint", "tcb", "pt_load"}
LEMMA EarlyStep ==
    ASSUME IInv, Shapes', UNCHANGED inputs, NEW S, Keeps(kern', kern, S), GuardPage \notin S,
           pc' \in Early \cup Ends, pc' \in Early => done' = 0, pc' # "failed" => PtLoads # <<>>
    PROVE  IInv'
<1>1. Sound(kern)' /\ kern'.vmap["root"][GuardPage] = NoCap
  BY LayoutFacts DEF Keeps, IInv, TableInv
<1>2. LoopInv'
  <2>1. PtLoads' = PtLoads
    BY SameInputs
  <2> QED
    BY <2>1 DEF LoopInv, PCs, Tabled, Planned, Imaged, Stacked, Furnished, Ends, Early
<1>3. TableInv'
  BY <1>1 DEF TableInv, Tabled, Planned, Imaged, Stacked, Furnished, Ends, Early
<1>4. PagesInv' /\ ImageInv' /\ EntryContract'
  BY DEF PagesInv, ImageInv, EntryContract, Imaged, Stacked, Furnished, Ends, Early
<1> QED
  BY <1>1, <1>2, <1>3, <1>4 DEF IInv

\* A slot popped, and the stack without it.
LEMMA AllocFacts ==
    ASSUME recycled \in Seq(Slots)
    PROVE  alloc(recycled) \in Int /\ after_alloc(recycled) \in Seq(Slots)
<1>1. alloc(recycled) \in Int
  <2>1. CASE recycled = <<>>
    BY <2>1 DEF alloc, alloc_ok, NoCap
  <2>2. CASE recycled # <<>>
    <3>1. Len(recycled) \in 1..Len(recycled)
      BY <2>2, EmptySeq
    <3>2. recycled[Len(recycled)] \in Slots
      BY <3>1, ElementOfSeq
    <3>3. alloc(recycled) = recycled[Len(recycled)]
      BY <2>2 DEF alloc, alloc_ok
    <3>4. Slots \subseteq Int
      BY KernelConstants DEF Slots
    <3> QED
      BY <3>2, <3>3, <3>4
  <2> QED
    BY <2>1, <2>2
<1>2. after_alloc(recycled) \in Seq(Slots)
  BY SubSeqProperties DEF after_alloc
<1> QED
  BY <1>1, <1>2


(***************************************************************************)
(* Objects, page tables and the plan.                                      *)
(***************************************************************************)
LEMMA ParseStep ==
    ASSUME IInv, Parse
    PROVE  IInv' /\ Keeps(kern', kern, {})
<1>1. /\ UNCHANGED <<kern, elf, args, mapped_pts, page_info, frame_slots, done, task>>
      /\ pc = "parse" /\ pc' \in {"endpoint", "failed"}
      /\ recycled' \in {recycled, recycled \o RemainingSlots}
      /\ pc' = "endpoint" => PtLoads # <<>>
  BY DEF Parse, inputs, plan, extend_slot
<1>2. recycled \in Seq(Slots) /\ recycled \o RemainingSlots \in Seq(Slots)
  <2>1. recycled \in Seq(Slots)
    BY DEF IInv, Shapes
  <2> QED
    BY <2>1, SlotLists, ConcatProperties
<1>3. Shapes'
  BY <1>1, <1>2 DEF IInv, Shapes
<1>4. Keeps(kern', kern, {}) /\ UNCHANGED inputs /\ done = 0
  BY <1>1, KeepsSelf DEF IInv, LoopInv, inputs
<1> QED
  BY <1>1, <1>3, <1>4, EarlyStep DEF Early, Ends

\* The endpoint and the TCB.
LEMMA CreateObjectsStep ==
    ASSUME IInv, CreateEndpoint \/ CreateTcb
    PROVE  IInv' /\ Keeps(kern', kern, {})
<1>1. /\ UNCHANGED <<recycled, elf, args, mapped_pts, page_info, frame_slots, done, task>>
      /\ pc \in {"endpoint", "tcb"} /\ pc' \in {"tcb", "pt_load", "failed"}
  BY DEF CreateEndpoint, CreateTcb, inputs, plan, Goto
<1>2. \E ut, ty, slot : /\ ty \in {"endpoint", "tcb"} /\ slot \in Int
                        /\ kern' = Retype(kern, ut, ty, slot, 1).k
  <2>1. tcb_slot \in Int /\ fault_ep_slot \in Int
    BY KernelConstants DEF tcb_slot, fault_ep_slot
  <2>2. CASE CreateEndpoint
    BY <2>1, <2>2 DEF CreateEndpoint, Goto
  <2>3. CASE CreateTcb
    BY <2>1, <2>3 DEF CreateTcb, Goto
  <2> QED
    BY <2>2, <2>3
<1>3. Keeps(kern', kern, {})
  <2>1. PICK ut, ty, slot : /\ ty \in {"endpoint", "tcb"} /\ slot \in Int
                            /\ kern' = Retype(kern, ut, ty, slot, 1).k
    BY <1>2
  <2>2. ty \in CapTypes /\ ty # "null" /\ 1 \in Nat \ {0} /\ Sound(kern) /\ slot \in Int
    BY <2>1 DEF CapTypes, IInv
  <2>3. Keeps(Retype(kern, ut, ty, slot, 1).k, kern, {})
    BY <2>2, RetypedKeeps
  <2> QED
    BY <2>1, <2>3
<1>4. Shapes' /\ UNCHANGED inputs /\ done = 0 /\ PtLoads # <<>>
  BY <1>1 DEF IInv, Shapes, LoopInv, inputs
<1> QED
  BY <1>1, <1>3, <1>4, EarlyStep DEF Early, Ends

\* Between the page tables: the regions of mapped_pts have their tables.
LEMMA TablesStep ==
    ASSUME IInv, Shapes', UNCHANGED inputs, Keeps(kern', kern, {}), done' = 0, PtLoads # <<>>,
           pc' \in {"pt_extra", "failed"},
           pc' = "pt_extra" =>
             \A r \in mapped_pts' \ {Region(LOAD_BASE)} : kern'.pts["root"][r] # NoCap
    PROVE  IInv'
<1>1. CASE pc' = "failed"
  BY <1>1, EarlyStep DEF Early, Ends
<1>2. CASE pc' = "pt_extra"
  <2>1. Sound(kern)' /\ kern'.vmap["root"][GuardPage] = NoCap
    BY LayoutFacts DEF Keeps, IInv, TableInv
  <2>2. LoopInv'
    <3>1. PtLoads' = PtLoads
      BY SameInputs
    <3> QED
      BY <1>2, <3>1 DEF LoopInv, PCs, Tabled, Planned, Imaged, Stacked, Furnished
  <2>3. TableInv'
    BY <1>2, <2>1 DEF TableInv, Tabled, Planned, Imaged, Stacked, Furnished
  <2>4. PagesInv' /\ ImageInv' /\ EntryContract'
    BY <1>2 DEF PagesInv, ImageInv, EntryContract, Imaged, Stacked, Furnished
  <2> QED
    BY <2>1, <2>2, <2>3, <2>4 DEF IInv
<1> QED
  BY <1>1, <1>2

LEMMA CreateLoadTableStep ==
    ASSUME IInv, CreateLoadTable
    PROVE  IInv' /\ Keeps(kern', kern, {})
<1>1. /\ UNCHANGED <<elf, args, page_info, frame_slots, done, task>>
      /\ pc = "pt_load" /\ pc' \in {"pt_extra", "failed"}
      /\ recycled' = after_alloc(recycled) /\ mapped_pts' = {Region(LOAD_BASE)}
      /\ kern' = MakeTable(kern, alloc(recycled), Region(LOAD_BASE)).k
  BY DEF CreateLoadTable, inputs
<1>2. alloc(recycled) \in Int /\ recycled' \in Seq(Slots)
  BY <1>1, AllocFacts DEF IInv, Shapes
<1>3. Region(LOAD_BASE) \in Regions
  BY LayoutFacts, RegionFacts
<1>4. Keeps(kern', kern, {})
  <2>1. Sound(kern)
    BY DEF IInv
  <2> QED
    BY <1>1, <1>2, <1>3, <2>1, MakeTableKeeps
<1>5. Shapes'
  BY <1>1, <1>2, <1>3 DEF IInv, Shapes
<1>6. done = 0 /\ PtLoads # <<>> /\ UNCHANGED inputs
  BY <1>1 DEF IInv, LoopInv, inputs
<1> QED
  BY <1>1, <1>4, <1>5, <1>6, TablesStep

LEMMA CreateExtraTableStep ==
    ASSUME IInv, CreateExtraTable
    PROVE  IInv' /\ Keeps(kern', kern, {})
<1> DEFINE r == MakeTable(kern, alloc(recycled), NextRegion)
<1>1. /\ UNCHANGED <<elf, args, page_info, frame_slots, done, task>>
      /\ pc = "pt_extra" /\ kern' = r.k /\ pc' = IF r.ok THEN "pt_extra" ELSE "failed"
      /\ recycled' = after_alloc(recycled) /\ mapped_pts' = mapped_pts \cup {NextRegion}
      /\ Untabled # {}
  BY DEF CreateExtraTable, inputs, Goto
<1>2. alloc(recycled) \in Int /\ recycled' \in Seq(Slots)
  BY <1>1, AllocFacts DEF IInv, Shapes
<1>3. done = 0 /\ PtLoads # <<>> /\ UNCHANGED inputs /\ elf \in Elves /\ Sound(kern)
  BY <1>1 DEF IInv, Shapes, LoopInv, inputs
<1>4. NextRegion \in Regions
  BY <1>1, <1>3, NextRegionFacts
<1>5. Keeps(r.k, kern, {}) /\ (r.ok => r.k.pts["root"][NextRegion] # NoCap)
  BY <1>2, <1>3, <1>4, MakeTableKeeps
<1> HIDE DEF r
<1>6. Shapes'
  BY <1>1, <1>2, <1>4 DEF IInv, Shapes
<1>7. ASSUME pc' = "pt_extra", NEW x \in mapped_pts' \ {Region(LOAD_BASE)}
      PROVE  kern'.pts["root"][x] # NoCap
  <2>1. r.ok
    BY <1>1, <1>7
  <2>2. CASE x = NextRegion
    BY <1>1, <1>5, <2>1, <2>2
  <2>3. CASE x \in mapped_pts
    <3>1. kern.pts["root"][x] # NoCap /\ x \in Regions
      BY <1>1, <1>7, <2>3 DEF IInv, TableInv, Shapes
    <3> QED
      BY <1>1, <1>5, <3>1 DEF Keeps
  <2> QED
    BY <1>1, <1>7, <2>2, <2>3
<1>8. Keeps(kern', kern, {}) /\ pc' \in {"pt_extra", "failed"} /\ done' = 0
  BY <1>1, <1>3, <1>5
<1> QED
  BY <1>3, <1>6, <1>7, <1>8, TablesStep

\* The stack's table is mapped only where no table was.
LEMMA CreateStackTableStep ==
    ASSUME IInv, CreateStackTable
    PROVE  IInv' /\ Keeps(kern', kern, {})
<1> DEFINE m == Make(kern, "pt", pt_stack_slot)
<1> DEFINE t == PageTable_Map(m.k, pt_stack_slot, "root", Region(STACK))
<1> DEFINE r == IF m.ok THEN t ELSE m
<1>1. /\ UNCHANGED <<recycled, elf, args, mapped_pts, page_info, frame_slots, done, task>>
      /\ pc = "pt_extra" /\ kern' = r.k /\ pc' = IF r.ok THEN "plan" ELSE "failed"
      /\ Untabled = {}
  BY DEF CreateStackTable, inputs, plan, Goto
<1>2. done = 0 /\ PtLoads # <<>> /\ UNCHANGED inputs /\ elf \in Elves /\ Sound(kern)
  BY <1>1 DEF IInv, Shapes, LoopInv, inputs
<1>3. Region(STACK) \in Regions
  BY LayoutFacts, RegionFacts
<1>4. Keeps(m.k, kern, {}) /\ SameMemory(m.k, kern) /\ m.ok \in BOOLEAN
  <2>1. "pt" \in CapTypes /\ "pt" # "null" /\ pt_stack_slot \in Int
    BY KernelConstants DEF CapTypes, pt_stack_slot
  <2> QED
    BY <1>2, <2>1, MakeKeeps
<1> HIDE DEF m
<1>5. Keeps(t.k, m.k, {}) /\ (t.ok => m.k.pts["root"][Region(STACK)] = NoCap)
  <2>1. Sound(m.k)
    BY <1>4 DEF Keeps
  <2> QED
    BY <1>3, <2>1, TableKeeps
<1> HIDE DEF t
<1>6. Keeps(r.k, kern, {})
  <2>1. {} \cup {} = {}
    OBVIOUS
  <2>2. Keeps(t.k, kern, {})
    BY <1>4, <1>5, <2>1, KeepsTrans
  <2> QED
    BY <1>4, <2>2
<1>7. r.ok => kern.pts["root"][Region(STACK)] = NoCap
  BY <1>4, <1>5 DEF SameMemory
<1> HIDE DEF r
<1>8. Shapes'
  BY <1>1 DEF IInv, Shapes
<1>9. CASE ~r.ok
  <2>1. pc' = "failed" /\ Keeps(kern', kern, {})
    BY <1>1, <1>6, <1>9
  <2> QED
    BY <1>2, <1>8, <2>1, EarlyStep DEF Early, Ends
<1>10. CASE r.ok
  <2>1. pc' = "plan" /\ Keeps(kern', kern, {})
    BY <1>1, <1>6, <1>10
  <2>2. Sound(kern)' /\ kern'.vmap["root"][GuardPage] = NoCap
    BY <2>1, LayoutFacts DEF Keeps, IInv, TableInv
  <2>3. Region(STACK) \notin AllRegions
    <3> SUFFICES ASSUME Region(STACK) \in AllRegions PROVE FALSE
      OBVIOUS
    <3>1. Region(STACK) \in mapped_pts
      BY <1>1 DEF Untabled, AllRegions
    <3>2. Region(STACK) # Region(LOAD_BASE)
      BY RunnerLayout
    <3>3. kern.pts["root"][Region(STACK)] # NoCap
      BY <1>1, <3>1, <3>2 DEF IInv, TableInv
    <3> QED
      BY <1>7, <1>10, <3>3
  <2>4. LoopInv' /\ TableInv'
    <3>1. PtLoads' = PtLoads /\ AllRegions' = AllRegions
      BY <1>2, SameInputs
    <3>2. LoopInv'
      BY <1>1, <1>2, <2>1, <3>1 DEF LoopInv, PCs, Tabled, Planned, Imaged, Stacked, Furnished
    <3>3. TableInv'
      BY <2>1, <2>2, <2>3, <3>1 DEF TableInv
    <3> QED
      BY <3>2, <3>3
  <2>5. PagesInv' /\ ImageInv' /\ EntryContract'
    BY <2>1 DEF PagesInv, ImageInv, EntryContract, Imaged, Stacked, Furnished
  <2> QED
    BY <1>8, <2>1, <2>2, <2>4, <2>5 DEF IInv
<1> QED
  BY <1>9, <1>10


\* With the tables in place, before the image is complete: nothing but the
\* pages loaded so far is claimed.
LEMMA PlannedStep ==
    ASSUME IInv, pc \in Tabled, Shapes', UNCHANGED inputs, Sound(kern'),
           kern'.vmap["root"][GuardPage] = NoCap, PtLoads # <<>>,
           pc' \in {"frames", "load"}, done' <= Len(page_info'),
           page_info' = Infos(Segments), Len(frame_slots') = Len(page_info'),
           pc' = "load" => \A j \in 1..done' :
              /\ kern'.vmap["root"][page_info'[j].page] \in Slots
              /\ Regular => (Holds(j, Slice(page_info[j])))'
    PROVE  IInv'
<1>1. /\ PtLoads' = PtLoads /\ AllRegions' = AllRegions /\ Segments' = Segments
      /\ Regular' = Regular
  BY SameInputs
<1>2. LoopInv'
  BY <1>1 DEF LoopInv, PCs, Tabled, Planned, Imaged, Stacked, Furnished
<1>3. TableInv'
  BY <1>1 DEF IInv, TableInv, Tabled, Planned, Imaged, Stacked, Furnished
<1>4. PagesInv'
  BY DEF PagesInv, Backed, Imaged, Stacked, Furnished
<1>5. ImageInv'
  BY <1>1 DEF ImageInv, Imaged, Stacked, Furnished
<1>6. EntryContract'
  BY DEF EntryContract
<1> QED
  BY <1>2, <1>3, <1>4, <1>5, <1>6 DEF IInv

\* The slots popped for the pages.
LEMMA PoppedSlots ==
    ASSUME recycled \in Seq(Slots), NEW n \in 0..Len(recycled)
    PROVE  LET f == [i \in 1..n |-> recycled[Len(recycled) + 1 - i]] IN
           /\ f \in Seq(Slots) /\ Len(f) = n
           /\ SubSeq(recycled, 1, Len(recycled) - n) \in Seq(Slots)
<1> DEFINE f == [i \in 1..n |-> recycled[Len(recycled) + 1 - i]]
<1>1. Len(recycled) \in Nat /\ n \in Nat /\ DOMAIN recycled = 1..Len(recycled)
  BY LenProperties
<1>2. ASSUME NEW i \in 1..n PROVE recycled[Len(recycled) + 1 - i] \in Slots
  <2>1. Len(recycled) + 1 - i \in 1..Len(recycled)
    BY <1>1
  <2> QED
    BY <2>1, ElementOfSeq
<1>3. f \in [1..n -> Slots]
  BY <1>2
<1> HIDE DEF f
<1>4. f \in Seq(Slots) /\ Len(f) = n
  BY <1>1, <1>3, SeqDef
<1>5. SubSeq(recycled, 1, Len(recycled) - n) \in Seq(Slots)
  BY <1>1, SubSeqProperties
<1> QED
  BY <1>4, <1>5 DEF f

LEMMA PlanPagesStep ==
    ASSUME IInv, PlanPages
    PROVE  IInv' /\ Keeps(kern', kern, {})
<1> DEFINE n == Len(Infos(Segments))
<1>1. /\ UNCHANGED <<kern, elf, args, mapped_pts, done, task>>
      /\ pc = "plan" /\ page_info' = Infos(Segments)
      /\ IF n <= Len(recycled)
         THEN /\ frame_slots' = [i \in 1..n |-> recycled[Len(recycled) + 1 - i]]
              /\ recycled' = SubSeq(recycled, 1, Len(recycled) - n)
              /\ pc' = IF n = 0 THEN "panic" ELSE "frames"
         ELSE /\ frame_slots' = [i \in 1..Len(recycled) |-> recycled[Len(recycled) + 1 - i]]
              /\ recycled' = <<>>
              /\ pc' = "failed"
  BY DEF PlanPages, inputs
<1>2. /\ done = 0 /\ PtLoads # <<>> /\ UNCHANGED inputs /\ elf \in Elves /\ Sound(kern)
      /\ recycled \in Seq(Slots) /\ kern.vmap["root"][GuardPage] = NoCap
  BY <1>1 DEF IInv, Shapes, LoopInv, TableInv, inputs
<1>3. page_info' \in Seq(InfoType) /\ n \in Nat /\ Len(recycled) \in Nat
  <2>1. Infos(Segments) \in Seq(InfoType)
    BY <1>2, InfosFacts
  <2> QED
    BY <1>1, <1>2, <2>1, LenProperties
<1>4. Keeps(kern', kern, {})
  BY <1>1, <1>2, KeepsSelf
<1>7. done' = 0 /\ done' <= STACK_EXTRA_PAGES
  BY <1>1, <1>2, LayoutFacts
<1>5. CASE n <= Len(recycled)
  <2>1. /\ frame_slots' = [i \in 1..n |-> recycled[Len(recycled) + 1 - i]]
        /\ recycled' = SubSeq(recycled, 1, Len(recycled) - n)
        /\ pc' = IF n = 0 THEN "panic" ELSE "frames"
    BY <1>1, <1>5
  <2> HIDE DEF n
  <2>2. n \in 0..Len(recycled)
    BY <1>3, <1>5
  <2>3. frame_slots' \in Seq(Slots) /\ Len(frame_slots') = n /\ recycled' \in Seq(Slots)
    BY <1>2, <2>1, <2>2, PoppedSlots
  <2>4. Shapes'
    BY <1>1, <1>3, <1>7, <2>3 DEF IInv, Shapes
  <2>5. CASE n = 0
    <3>1. pc' = "panic"
      BY <2>1, <2>5
    <3> QED
      BY <1>2, <1>4, <2>4, <3>1, EarlyStep DEF Early, Ends
  <2>6. CASE n # 0
    <3>1. pc' = "frames" /\ Len(page_info') = n /\ done' <= n
      BY <1>1, <1>2, <1>3, <2>1, <2>6 DEF n
    <3>2. pc \in Tabled /\ Sound(kern') /\ kern'.vmap["root"][GuardPage] = NoCap
      BY <1>1, <1>2 DEF Tabled
    <3> QED
      BY <1>1, <1>2, <1>4, <2>3, <2>4, <3>1, <3>2, PlannedStep
  <2> QED
    BY <2>5, <2>6
<1>6. CASE ~(n <= Len(recycled))
  <2>1. /\ frame_slots' = [i \in 1..Len(recycled) |-> recycled[Len(recycled) + 1 - i]]
        /\ recycled' = <<>> /\ pc' = "failed"
    BY <1>1, <1>6
  <2> HIDE DEF n
  <2>2. Len(recycled) \in 0..Len(recycled)
    BY <1>3
  <2>3. frame_slots' \in Seq(Slots) /\ recycled' \in Seq(Slots)
    BY <1>2, <2>1, <2>2, PoppedSlots, EmptySeq
  <2>4. Shapes'
    BY <1>1, <1>3, <1>7, <2>3 DEF IInv, Shapes
  <2> QED
    BY <1>2, <1>4, <2>1, <2>4, EarlyStep DEF Early, Ends
<1> QED
  BY <1>5, <1>6

LEMMA RetypeBatchStep ==
    ASSUME IInv, RetypeBatch
    PROVE  IInv' /\ Keeps(kern', kern, {})
<1> DEFINE ut == find_free_untyped(kern, BigUnits)
<1> DEFINE s == frame_slots[done + 1]
<1> DEFINE r == Retype(kern, ut, "frame", s, BatchSize)
<1>1. /\ UNCHANGED <<recycled, elf, args, mapped_pts, page_info, frame_slots, task>>
      /\ pc = "frames" /\ done < Len(frame_slots)
      /\ kern' = r.k /\ pc' = IF r.ok THEN "frames" ELSE "failed"
      /\ done' = IF pc' = "frames" THEN done + BatchSize ELSE done
  BY DEF RetypeBatch, inputs, Goto
<1>2. /\ PtLoads # <<>> /\ UNCHANGED inputs /\ Sound(kern) /\ done \in Nat
      /\ frame_slots \in Seq(Slots) /\ Len(frame_slots) = Len(page_info)
      /\ kern.vmap["root"][GuardPage] = NoCap /\ page_info = Infos(Segments) /\ pc \in Tabled
  BY <1>1 DEF IInv, Shapes, LoopInv, TableInv, inputs, Planned, Tabled
<1>3. Len(frame_slots) \in Nat /\ s \in Int
  <2>1. Len(frame_slots) \in Nat
    BY <1>2, LenProperties
  <2>2. done + 1 \in 1..Len(frame_slots)
    BY <1>1, <1>2, <2>1
  <2>3. s \in Slots
    BY <1>2, <2>2, ElementOfSeq
  <2>4. Slots \subseteq Int
    BY KernelConstants DEF Slots
  <2> QED
    BY <2>1, <2>3, <2>4
<1>4. BatchSize \in Nat \ {0} /\ done + BatchSize <= Len(frame_slots)
  <2>1. RetypeFanOut \in Nat \ {0}
    BY KernelConstants
  <2> QED
    BY <1>1, <1>2, <1>3, <2>1 DEF BatchSize, MinOf
<1>5. Keeps(kern', kern, {}) /\ r.ok \in BOOLEAN
  <2>1. "frame" \in CapTypes /\ "frame" # "null"
    BY DEF CapTypes
  <2> HIDE DEF ut, s
  <2> QED
    BY <1>1, <1>2, <1>3, <1>4, <2>1, RetypedKeeps
<1> HIDE DEF r
<1>6. done' \in Nat /\ done' <= Len(page_info)
  BY <1>1, <1>2, <1>3, <1>4
<1>7. Shapes'
  BY <1>1, <1>6 DEF IInv, Shapes
<1>8. CASE pc' = "failed"
  BY <1>2, <1>5, <1>7, <1>8, EarlyStep DEF Early, Ends
<1>9. CASE pc' = "frames"
  <2>1. Sound(kern') /\ kern'.vmap["root"][GuardPage] = NoCap
    BY <1>2, <1>5, LayoutFacts DEF Keeps
  <2> QED
    BY <1>1, <1>2, <1>5, <1>6, <1>7, <1>9, <2>1, PlannedStep
<1> QED
  BY <1>1, <1>8, <1>9

LEMMA AllRetypedStep ==
    ASSUME IInv, AllRetyped
    PROVE  IInv' /\ Keeps(kern', kern, {})
<1>1. /\ UNCHANGED <<kern, recycled, elf, args, mapped_pts, page_info, frame_slots, task>>
      /\ pc = "frames" /\ pc' = "load" /\ done' = 0
  BY DEF AllRetyped, inputs
<1>2. /\ PtLoads # <<>> /\ UNCHANGED inputs /\ Sound(kern) /\ Len(page_info) \in Nat
      /\ Len(frame_slots) = Len(page_info)
      /\ kern.vmap["root"][GuardPage] = NoCap /\ page_info = Infos(Segments) /\ pc \in Tabled
  BY <1>1, LenProperties DEF IInv, Shapes, LoopInv, TableInv, inputs, Planned, Tabled
<1>3. Shapes'
  BY <1>1, <1>2 DEF IInv, Shapes
<1>4. done' <= Len(page_info) /\ 1..done' = {}
  BY <1>1, <1>2
<1>5. Keeps(kern', kern, {})
  BY <1>1, <1>2, KeepsSelf
<1> QED
  BY <1>1, <1>2, <1>3, <1>4, <1>5, PlannedStep


(***************************************************************************)
(* The image.                                                              *)
(***************************************************************************)
LEMMA LoadPageStep ==
    ASSUME IInv, RootInv, LoadPage
    PROVE  IInv' /\ RootInv'
<1> DEFINE i == page_info[done + 1]
<1> DEFINE f == Frame_Map(kern, frame_slots[done + 1], "root", i.page)
<1> DEFINE j == IF f.ok THEN Stored(f.k, i.page, Filled(f.k, i)) ELSE f.k
<1>1. /\ UNCHANGED <<recycled, elf, args, mapped_pts, page_info, frame_slots, task>>
      /\ pc = "load" /\ done < Len(page_info) /\ done' = done + 1
      /\ kern' = [f EXCEPT !.k = j].k
      /\ pc' = IF [f EXCEPT !.k = j].ok THEN "load" ELSE "failed"
  BY DEF LoadPage, inputs, Goto
<1>2. kern' = j /\ pc' = IF f.ok THEN "load" ELSE "failed"
  <2> HIDE DEF j, i
  <2> QED
    BY <1>1, MakeResult
<1>3. /\ PtLoads # <<>> /\ UNCHANGED inputs /\ Sound(kern) /\ done \in Nat /\ elf \in Elves
      /\ page_info \in Seq(InfoType) /\ Len(frame_slots) = Len(page_info)
      /\ kern.vmap["root"][GuardPage] = NoCap /\ page_info = Infos(Segments) /\ pc \in Tabled
      /\ Region(STACK) \notin AllRegions
      /\ \A x \in 1..done : kern.vmap["root"][page_info[x].page] \in Slots
      /\ Regular => \A x \in 1..done : Holds(x, Slice(page_info[x]))
      /\ \A p \in Pages : kern.vmap["root"][p] \in Slots => \E x \in 1..done : page_info[x].page = p
  BY <1>1 DEF IInv, Shapes, LoopInv, TableInv, PagesInv, ImageInv, RootInv, Backed,
              inputs, Planned, Tabled
<1>4. Len(page_info) \in Nat /\ DOMAIN page_info = 1..Len(page_info) /\ done + 1 \in DOMAIN page_info
  <2>1. Len(page_info) \in Nat /\ DOMAIN page_info = 1..Len(page_info)
    BY <1>3, LenProperties
  <2> QED
    BY <1>1, <1>3, <2>1
<1>5. i \in InfoType /\ i.page \in Pages
  <2>1. i \in InfoType
    BY <1>3, <1>4, ElementOfSeq
  <2> HIDE DEF i
  <2> QED
    BY <2>1 DEF InfoType
<1>6. i.page # GuardPage
  <2>1. Region(i.page) \in AllRegions
    BY <1>3, <1>4, InfosFacts
  <2> QED
    BY <1>3, <2>1, LayoutFacts
<1>7. Placed(j, kern, f.ok, i.page) /\ Filling(j, f.ok, i.page, Filled(f.k, i)) /\ f.ok \in BOOLEAN
       /\ Keeps(f.k, kern, {i.page})
  <2> HIDE DEF i
  <2>1. Keeps(f.k, kern, {i.page}) /\ f.ok \in BOOLEAN /\ (f.ok => f.k.vmap["root"][i.page] \in Slots)
    BY <1>3, <1>5, MapKeeps
  <2>2. Placed(f.k, kern, f.ok, i.page)
    BY <2>1 DEF Placed
  <2> HIDE DEF f
  <2>3. Filled(f.k, i) \in [Cells -> Int]
    BY <1>3, <1>5, <2>1, FilledType DEF Keeps, Sound
  <2> DEFINE cells == Filled(f.k, i)
  <2> DEFINE n == IF f.ok THEN Stored(f.k, i.page, cells) ELSE f.k
  <2>4. cells \in [Cells -> Int] /\ Sound(kern) /\ i.page \in Pages
    BY <1>3, <1>5, <2>3
  <2>5. j = n
    OBVIOUS
  <2> HIDE DEF cells, j
  <2>6. Placed(n, kern, f.ok, i.page) /\ Filling(n, f.ok, i.page, cells)
    BY <2>1, <2>2, <2>4, StorePlaced
  <2> HIDE DEF n
  <2>7. Placed(j, kern, f.ok, i.page) /\ Filling(j, f.ok, i.page, cells)
    BY <2>5, <2>6
  <2> QED
    BY <2>1, <2>7 DEF cells
<1> HIDE DEF f, j
<1>8. Keeps(kern', kern, {i.page}) /\ UNCHANGED inputs
  BY <1>2, <1>3, <1>7 DEF Placed
<1>9. done' \in Nat /\ done' <= Len(page_info)
  BY <1>1, <1>3, <1>4
<1>10. Shapes'
  BY <1>1, <1>9 DEF IInv, Shapes
<1>11. CASE ~f.ok
  <2>1. pc' = "failed"
    BY <1>2, <1>11
  <2>2. GuardPage \notin {i.page}
    BY <1>6
  <2>3. IInv'
    BY <1>8, <1>10, <2>1, <2>2, EarlyStep DEF Early, Ends
  <2> QED
    BY <2>1, <2>3 DEF RootInv
<1>12. CASE f.ok
  <2>1. Sound(kern') /\ kern'.vmap["root"][GuardPage] = NoCap /\ pc' = "load"
    BY <1>2, <1>3, <1>6, <1>8, <1>12, LayoutFacts DEF Keeps
  <2>2. kern'.vmap["root"][i.page] \in Slots
        /\ kern'.data[kern'.vmap["root"][i.page]] = Filled(f.k, i)
    BY <1>2, <1>7, <1>12 DEF Placed, Filling
  <2>3. \A n, c : (Sourced(n, c))' <=> Sourced(n, c)
    BY <1>1, <1>3, SameSource
  <2>4. \A x : (Slice(x))' = Slice(x)
    BY <1>3, SameInputs
  <2>5. \A p \in Pages : p # i.page /\ kern.vmap["root"][p] \in Slots =>
                         \E x \in 1..(done + 1) : page_info[x].page = p
    BY <1>3
  <2>6. done + 1 \in 1..(done + 1)
    BY <1>3
  <2>7. \A c \in Cells : Sourced(done + 1, c) => Filled(f.k, i)[c] = Slice(i)[c]
    <3>1. \A p \in Pages : f.k.vmap["root"][p] \in Slots =>
                           \E x \in 1..(done + 1) : page_info[x].page = p
      BY <1>7, <2>5, <2>6 DEF Keeps
    <3> QED
      BY <2>6, <3>1, FilledSlice
  <2>8. ASSUME NEW x \in 1..done'
        PROVE  /\ kern'.vmap["root"][page_info'[x].page] \in Slots
               /\ Regular => (Holds(x, Slice(page_info[x])))'
    <3>1. CASE x = done + 1
      <4>1. \A c \in Cells : Sourced(x, c) =>
              kern'.data[kern'.vmap["root"][page_info[x].page]][c] = Slice(page_info[x])[c]
        BY <2>2, <2>7, <3>1
      <4> QED
        BY <1>1, <2>2, <2>3, <2>4, <3>1, <4>1 DEF Holds
    <3>2. CASE x # done + 1
      <4>1. x \in 1..done /\ x \in DOMAIN page_info
        BY <1>1, <1>3, <1>4, <3>2
      <4>2. page_info[x].page \in Pages /\ page_info[x].page # i.page
        BY <1>3, <1>4, <3>2, <4>1, InfosFacts
      <4>3. kern.vmap["root"][page_info[x].page] \in Slots
        BY <1>3, <4>1
      <4>4. /\ kern'.vmap["root"][page_info[x].page] = kern.vmap["root"][page_info[x].page]
            /\ kern'.data[kern.vmap["root"][page_info[x].page]]
                 = kern.data[kern.vmap["root"][page_info[x].page]]
        BY <1>8, <4>2, <4>3 DEF Keeps
      <4>5. Regular => Holds(x, Slice(page_info[x]))
        BY <1>3, <4>1
      <4> QED
        BY <1>1, <2>3, <2>4, <4>3, <4>4, <4>5 DEF Holds
    <3> QED
      BY <3>1, <3>2
  <2>9. IInv'
    BY <1>1, <1>3, <1>9, <1>10, <2>1, <2>8, PlannedStep
  <2>10. \A p \in Pages : kern'.vmap["root"][p] \in Slots =>
                          \E x \in 1..(done + 1) : page_info[x].page = p
    BY <1>8, <2>5, <2>6 DEF Keeps
  <2>11. RootInv'
    BY <1>1, <2>1, <2>10 DEF RootInv, Backed
  <2> QED
    BY <2>9, <2>11
<1> QED
  BY <1>7, <1>11, <1>12


\* A patched address belongs to one page, and to one cell of it.
LEMMA PatchCell ==
    ASSUME NEW k, Sound(k), Patches \subseteq Int,
           \A a \in Patches : Readable(k, a \div PageCells),
           NEW p \in Pages, k.vmap["root"][p] \in Slots, NEW c \in Cells
    PROVE  (\E a \in Patches : /\ k.vmap["root"][a \div PageCells] = k.vmap["root"][p]
                               /\ a % PageCells = c)
             <=> p * PageCells + c \in Patches
<1>1. PageCells \in Nat \ {0} /\ p \in Nat /\ c \in Nat /\ c < PageCells
  BY KernelConstants, SlotFacts DEF Cells
<1>2. ASSUME NEW a \in Patches, k.vmap["root"][a \div PageCells] = k.vmap["root"][p],
             a % PageCells = c
      PROVE  p * PageCells + c = a
  <2>1. a \div PageCells \in Pages
    BY <1>2 DEF Readable
  <2>2. a \div PageCells = p
    BY <1>2, <2>1, SoundFacts
  <2>3. a = PageCells * (a \div PageCells) + (a % PageCells)
    BY <1>1, DivFacts
  <2>4. a = PageCells * p + c
    BY <1>2, <2>2, <2>3
  <2> QED
    BY <1>1, <2>4
<1>3. ASSUME p * PageCells + c \in Patches
      PROVE  \E a \in Patches : /\ k.vmap["root"][a \div PageCells] = k.vmap["root"][p]
                                /\ a % PageCells = c
  <2> DEFINE a == p * PageCells + c
  <2>1. a \in Int /\ PageCells * p <= a /\ a < PageCells * p + PageCells /\ a - PageCells * p = c
    BY <1>1
  <2>2. p \in Int /\ a \in Patches
    BY <1>1, <1>3
  <2> HIDE DEF a
  <2>3. a \div PageCells = p /\ a % PageCells = c
    BY <1>1, <2>1, <2>2, DivUnique
  <2> QED
    BY <2>2, <2>3
<1> QED
  BY <1>2, <1>3

\* New contents change nothing else.
LEMMA NewContents ==
    ASSUME NEW k, Sound(k), NEW d \in [Slots -> [Cells -> Int]], NEW j, j = [k EXCEPT !.data = d]
    PROVE  Sound(j) /\ j.vmap = k.vmap /\ j.data = d
<1>1. k \in Kernels
  BY DEF Sound
<1>2. /\ j \in Kernels /\ j.vmap = k.vmap /\ j.at = k.at /\ j.caps = k.caps /\ j.data = d
  BY <1>1 DEF Kernels
<1> QED
  BY <1>2 DEF Sound

\* The immediates are moved with the program.
LEMMA PatchEntryStep ==
    ASSUME IInv, PatchEntry
    PROVE  IInv'
<1> DEFINE C(s, c) == \E a \in Patches : /\ kern.vmap["root"][a \div PageCells] = s
                                         /\ a % PageCells = c
<1> DEFINE ok == \A a \in Patches : Readable(kern, a \div PageCells)
<1>1. /\ UNCHANGED <<recycled, elf, args, mapped_pts, page_info, frame_slots, done, task>>
      /\ pc = "load" /\ done = Len(page_info)
      /\ pc' = IF ok THEN "stack" ELSE "fault"
      /\ ~ok => kern' = kern
      /\ ok => kern' = [kern EXCEPT !.data = [s \in Slots |-> [c \in Cells |->
                   IF C(s, c) THEN kern.data[s][c] + reloc_offset ELSE kern.data[s][c]]]]
  BY DEF PatchEntry, inputs, plan
<1>2. /\ PtLoads # <<>> /\ UNCHANGED inputs /\ Sound(kern) /\ elf \in Elves
      /\ page_info = Infos(Segments) /\ Len(frame_slots) = Len(page_info)
      /\ page_info \in Seq(InfoType) /\ DOMAIN page_info = 1..Len(page_info)
      /\ kern.vmap["root"][GuardPage] = NoCap /\ Region(STACK) \notin AllRegions
      /\ \A x \in DOMAIN page_info : kern.vmap["root"][page_info[x].page] \in Slots
      /\ Regular => \A x \in DOMAIN page_info : Holds(x, Slice(page_info[x]))
  <2>1. page_info \in Seq(InfoType)
    BY DEF IInv, Shapes
  <2>2. DOMAIN page_info = 1..Len(page_info)
    BY <2>1, LenProperties
  <2> QED
    BY <1>1, <2>1, <2>2 DEF IInv, Shapes, LoopInv, TableInv, PagesInv, ImageInv, Backed,
                            inputs, Planned, Tabled
<1>3. Shapes'
  BY <1>1 DEF IInv, Shapes
<1>4. CASE ~ok
  <2>1. Keeps(kern', kern, {}) /\ pc' = "fault"
    BY <1>1, <1>2, <1>4, KeepsSelf
  <2> QED
    BY <1>2, <1>3, <2>1, EarlyStep DEF Early, Ends
<1>5. CASE ok
  <2>1. reloc_offset \in Int
    BY <1>2, LowestFacts
  <2>2. Patches \subseteq Int
    <3>1. elf.entry \in Nat /\ PatchCells \subseteq Nat
      BY <1>2, RunnerInputs, RunnerConstants
    <3>2. relocated_entry \in Int
      BY <2>1, <3>1 DEF relocated_entry
    <3>3. \A c \in PatchCells : relocated_entry + c \in Int
      BY <3>1, <3>2
    <3> QED
      BY <3>3 DEF Patches
  <2>3. \A p \in Pages, c \in Cells : kern.vmap["root"][p] \in Slots =>
          (C(kern.vmap["root"][p], c) <=> p * PageCells + c \in Patches)
    BY <1>2, <1>5, <2>2, PatchCell
  <2> HIDE DEF C
  <2>4. /\ Sound(kern') /\ kern'.vmap = kern.vmap
        /\ \A s \in Slots : kern'.data[s] = [c \in Cells |->
             IF C(s, c) THEN kern.data[s][c] + reloc_offset ELSE kern.data[s][c]]
    <3> DEFINE d == [s \in Slots |-> [c \in Cells |->
                       IF C(s, c) THEN kern.data[s][c] + reloc_offset ELSE kern.data[s][c]]]
    <3>1. kern' = [kern EXCEPT !.data = d]
      BY <1>1, <1>5
    <3>2. \A s \in Slots, c \in Cells : kern.data[s][c] \in Int
      BY <1>2 DEF Sound, Kernels
    <3>3. \A s \in Slots, c \in Cells : kern.data[s][c] + reloc_offset \in Int
      BY <2>1, <3>2
    <3>4. d \in [Slots -> [Cells -> Int]]
      BY <3>2, <3>3
    <3>5. \A s \in Slots : d[s] = [c \in Cells |->
            IF C(s, c) THEN kern.data[s][c] + reloc_offset ELSE kern.data[s][c]]
      OBVIOUS
    <3> HIDE DEF d
    <3> QED
      BY <1>2, <3>1, <3>4, <3>5, NewContents
  <2> HIDE DEF ok
  <2>5. pc' = "stack"
    BY <1>1, <1>5
  <2>6. /\ PtLoads' = PtLoads /\ AllRegions' = AllRegions /\ Segments' = Segments
        /\ Regular' = Regular /\ ImagePages' = ImagePages /\ \A i : (Patched(i))' = Patched(i)
    BY <1>2, SameInputs
  <2>7. LoopInv' /\ TableInv'
    <3>1. LoopInv'
      BY <1>1, <1>2, <2>5, <2>6 DEF LoopInv, PCs, Tabled, Planned, Imaged, Stacked, Furnished
    <3>2. TableInv'
      BY <1>2, <2>4, <2>5, <2>6 DEF TableInv
    <3> QED
      BY <3>1, <3>2
  <2>8. PagesInv'
    <3>1. \A p \in ImagePages : kern.vmap["root"][p] \in Slots
      BY <1>2, InfosFacts
    <3> QED
      BY <2>4, <2>5, <2>6, <3>1 DEF PagesInv, Backed, Stacked, Furnished
  <2>9. ASSUME Regular, NEW x \in DOMAIN page_info
        PROVE  (Holds(x, Patched(page_info[x])))'
    <3> DEFINE i == page_info[x]
    <3> DEFINE s == kern.vmap["root"][i.page]
    <3>1. /\ s \in Slots /\ i.page \in Pages
          /\ \A c \in Cells : Sourced(x, c) => kern.data[s][c] = Slice(i)[c]
      BY <1>2, <2>9, InfosFacts DEF Holds
    <3> HIDE DEF i
    <3>2. \A c \in Cells : C(s, c) <=> i.page * PageCells + c \in Patches
      BY <2>3, <3>1
    <3> HIDE DEF s
    <3>3. kern'.data[s] = [c \in Cells |->
            IF C(s, c) THEN kern.data[s][c] + reloc_offset ELSE kern.data[s][c]]
      BY <2>4, <3>1
    <3>4. \A c \in Cells : Sourced(x, c) => kern'.data[s][c] = Patched(i)[c]
      BY <3>1, <3>2, <3>3 DEF Patched
    <3>5. \A n, c : (Sourced(n, c))' <=> Sourced(n, c)
      BY <1>1, <1>2, SameSource
    <3>6. kern'.vmap["root"][page_info[x].page] = s
      BY <2>4 DEF s, i
    <3>7. \A c \in Cells : Sourced(x, c) =>
            kern'.data[kern'.vmap["root"][page_info[x].page]][c] = Patched(page_info[x])[c]
      BY <3>4, <3>6 DEF i
    <3> QED
      BY <1>1, <2>6, <3>5, <3>7 DEF Holds
  <2>10. ImageInv'
    BY <1>1, <2>5, <2>6, <2>9 DEF ImageInv
  <2>11. EntryContract'
    BY <2>5 DEF EntryContract
  <2> QED
    BY <1>3, <2>4, <2>7, <2>8, <2>10, <2>11 DEF IInv
<1> QED
  BY <1>4, <1>5


(***************************************************************************)
(* Stack, IPC buffer, TLS page and trampoline.                             *)
(***************************************************************************)
\* A fixed page gets a frame: the image and the other pages stay.
LEMMA ImagedStep ==
    ASSUME IInv, pc \in Imaged, pc' \in Imaged \ {"started"}, Shapes', UNCHANGED inputs,
           UNCHANGED <<mapped_pts, page_info, frame_slots>>,
           NEW page \in Fixed, page \in Pages, page # GuardPage,
           Keeps(kern', kern, {page}), kern'.vmap["root"][page] \in Slots,
           pc' = "extra" => done' <= STACK_EXTRA_PAGES
    PROVE  /\ LoopInv' /\ Sound(kern)' /\ TableInv' /\ ImageInv' /\ EntryContract'
           /\ \A p \in ImagePages' : kern'.vmap["root"][p] \in Slots
           /\ \A p \in Pages : kern.vmap["root"][p] \in Slots => kern'.vmap["root"][p] \in Slots
<1>1. /\ PtLoads' = PtLoads /\ AllRegions' = AllRegions /\ Segments' = Segments
      /\ Regular' = Regular /\ ImagePages' = ImagePages /\ \A i : (Patched(i))' = Patched(i)
  BY SameInputs
<1>2. /\ PtLoads # <<>> /\ elf \in Elves /\ page_info = Infos(Segments)
      /\ Len(frame_slots) = Len(page_info) /\ Region(STACK) \notin AllRegions
      /\ kern.vmap["root"][GuardPage] = NoCap
      /\ \A p \in ImagePages : kern.vmap["root"][p] \in Slots
      /\ Regular => \A x \in DOMAIN page_info : Holds(x, Patched(page_info[x]))
  BY DEF IInv, Shapes, LoopInv, TableInv, PagesInv, ImageInv, Backed,
         Tabled, Planned, Imaged, Stacked, Furnished
<1>3. LoopInv'
  BY <1>1, <1>2 DEF LoopInv, PCs, Tabled, Planned, Imaged, Stacked, Furnished
<1>4. Sound(kern)' /\ kern'.vmap["root"][GuardPage] = NoCap
  BY <1>2, LayoutFacts DEF Keeps
<1>5. TableInv'
  BY <1>1, <1>2, <1>4 DEF TableInv, Imaged, Stacked, Furnished
<1>6. \A p \in Pages : kern.vmap["root"][p] \in Slots => kern'.vmap["root"][p] \in Slots
  BY DEF Keeps
<1>7. \A p \in ImagePages' : kern'.vmap["root"][p] \in Slots
  BY <1>1, <1>2, <1>6, InfosFacts
<1>8. ASSUME Regular, NEW x \in DOMAIN page_info
      PROVE  (Holds(x, Patched(page_info[x])))'
  <2>1. page_info[x].page \in ImagePages /\ page_info[x].page \in Pages
    BY <1>2, InfosFacts
  <2>2. page_info[x].page # page
    BY <1>8, <2>1 DEF Regular
  <2>3. kern.vmap["root"][page_info[x].page] \in Slots
    BY <1>2, <2>1
  <2>4. /\ kern'.vmap["root"][page_info[x].page] = kern.vmap["root"][page_info[x].page]
        /\ kern'.data[kern.vmap["root"][page_info[x].page]]
             = kern.data[kern.vmap["root"][page_info[x].page]]
    BY <2>1, <2>2, <2>3 DEF Keeps
  <2>5. \A n, c : (Sourced(n, c))' <=> Sourced(n, c)
    BY SameSource
  <2> QED
    BY <1>1, <1>2, <1>8, <2>4, <2>5 DEF Holds
<1>9. ImageInv'
  BY <1>1, <1>8 DEF ImageInv, Imaged, Stacked, Furnished
<1>10. EntryContract'
  BY DEF EntryContract
<1> QED
  BY <1>3, <1>4, <1>5, <1>6, <1>7, <1>9, <1>10

\* When it gets none, the function ends.
LEMMA UnmappedStep ==
    ASSUME IInv, Shapes', UNCHANGED inputs, pc' = "failed",
           NEW page \in Pages, page # GuardPage, Keeps(kern', kern, {page})
    PROVE  IInv'
<1>1. GuardPage \notin {page}
  OBVIOUS
<1> QED
  BY <1>1, EarlyStep DEF Early, Ends

LEMMA CreateStackStep ==
    ASSUME IInv, CreateStack
    PROVE  IInv'
<1> DEFINE r == MakeFrame(kern, stack_frame_slot, "root", STACK)
<1>1. /\ UNCHANGED <<recycled, elf, args, mapped_pts, page_info, frame_slots, task>>
      /\ pc = "stack" /\ done' = 0 /\ kern' = r.k /\ pc' = IF r.ok THEN "extra" ELSE "failed"
  BY DEF CreateStack, inputs, Goto
<1>2. UNCHANGED inputs /\ Sound(kern) /\ pc \in Imaged
  BY <1>1 DEF IInv, inputs, Imaged
<1>3. Placed(r.k, kern, r.ok, STACK) /\ r.ok \in BOOLEAN
  <2>1. stack_frame_slot \in Int
    BY KernelConstants DEF stack_frame_slot
  <2> QED
    BY <1>2, <2>1, LayoutFacts, MakeFrameKeeps
<1> HIDE DEF r
<1>4. Shapes'
  <2>1. done' \in Nat /\ done' <= STACK_EXTRA_PAGES
    BY <1>1, LayoutFacts
  <2> QED
    BY <1>1, <2>1 DEF IInv, Shapes
<1>5. STACK \in Pages /\ STACK \in Fixed /\ STACK # GuardPage /\ STACK_EXTRA_PAGES \in Nat
  <2>1. 0 \in 0..STACK_EXTRA_PAGES /\ STACK - 0 = STACK
    BY LayoutFacts
  <2> QED
    BY <2>1, LayoutFacts
<1>6. CASE ~r.ok
  BY <1>1, <1>2, <1>3, <1>4, <1>5, <1>6, UnmappedStep DEF Placed
<1>7. CASE r.ok
  <2>1. /\ pc' = "extra" /\ done' = 0 /\ Keeps(kern', kern, {STACK})
        /\ kern'.vmap["root"][STACK] \in Slots
    BY <1>1, <1>3, <1>7 DEF Placed
  <2>2. pc' \in Imaged \ {"started"} /\ done' <= STACK_EXTRA_PAGES
    BY <1>5, <2>1 DEF Imaged
  <2>3. /\ LoopInv' /\ Sound(kern)' /\ TableInv' /\ ImageInv' /\ EntryContract'
        /\ \A p \in ImagePages' : kern'.vmap["root"][p] \in Slots
    BY <1>1, <1>2, <1>4, <1>5, <2>1, <2>2, ImagedStep
  <2>4. \A i \in 0..done' : STACK - i = STACK
    BY <1>5, <2>1, LayoutFacts
  <2>5. PagesInv'
    BY <2>1, <2>3, <2>4 DEF PagesInv, Backed, Stacked, Furnished
  <2> QED
    BY <1>4, <2>3, <2>5 DEF IInv
<1> QED
  BY <1>3, <1>6, <1>7

\* A frame in a popped slot.
LEMMA AllocFrameFacts ==
    ASSUME IInv, NEW page \in Pages, NEW next, NEW cells \in [Cells -> Int],
           AllocFrame(page, next, cells)
    PROVE  \E ok \in BOOLEAN : /\ Placed(kern', kern, ok, page) /\ Filling(kern', ok, page, cells)
                               /\ pc' = IF ok THEN next ELSE "failed"
                               /\ recycled' \in Seq(Slots)
<1> DEFINE r == MakeFrame(kern, alloc(recycled), "root", page)
<1> DEFINE j == IF r.ok THEN Stored(r.k, page, cells) ELSE r.k
<1>1. /\ kern' = [r EXCEPT !.k = j].k /\ pc' = IF [r EXCEPT !.k = j].ok THEN next ELSE "failed"
      /\ recycled' = after_alloc(recycled)
  BY DEF AllocFrame, Goto
<1>2. [r EXCEPT !.k = j].k = j /\ [r EXCEPT !.k = j].ok = r.ok
  <2> HIDE DEF j
  <2>1. r \in {Make(kern, "frame", alloc(recycled)),
               Frame_Map(Make(kern, "frame", alloc(recycled)).k, alloc(recycled), "root", page)}
    BY DEF MakeFrame
  <2> HIDE DEF r
  <2> QED
    BY <2>1, MakeResult
<1>3. Sound(kern) /\ alloc(recycled) \in Int /\ after_alloc(recycled) \in Seq(Slots)
  BY AllocFacts DEF IInv, Shapes
<1>4. Placed(r.k, kern, r.ok, page) /\ r.ok \in BOOLEAN
  BY <1>3, MakeFrameKeeps
<1> HIDE DEF r
<1>5. Placed(j, kern, r.ok, page) /\ Filling(j, r.ok, page, cells)
  BY <1>3, <1>4, StorePlaced
<1> HIDE DEF j
<1> QED
  BY <1>1, <1>2, <1>3, <1>4, <1>5


LEMMA CreateExtraStackStep ==
    ASSUME IInv, CreateExtraStack
    PROVE  IInv'
<1> DEFINE page == STACK - (done + 1)
<1>1. /\ UNCHANGED <<elf, args, mapped_pts, page_info, frame_slots, task>>
      /\ pc = "extra" /\ done < STACK_EXTRA_PAGES /\ done' = done + 1
      /\ AllocFrame(page, "extra", ZeroPage)
  BY DEF CreateExtraStack, inputs
<1>2. /\ UNCHANGED inputs /\ pc \in Imaged /\ done \in Nat
      /\ \A i \in 0..done : kern.vmap["root"][STACK - i] \in Slots
  BY <1>1 DEF IInv, Shapes, PagesInv, Backed, inputs, Imaged
<1>3. done + 1 \in 0..STACK_EXTRA_PAGES /\ done' \in Nat /\ done' <= STACK_EXTRA_PAGES
  BY <1>1, <1>2, LayoutFacts
<1>4. page \in Pages /\ page \in Fixed /\ page # GuardPage
  BY <1>3, LayoutFacts
<1>5. PICK ok \in BOOLEAN : /\ Placed(kern', kern, ok, page)
                            /\ pc' = IF ok THEN "extra" ELSE "failed"
                            /\ recycled' \in Seq(Slots)
  <2>1. ZeroPage \in [Cells -> Int]
    BY DEF ZeroPage
  <2> HIDE DEF page
  <2> QED
    BY <1>1, <1>4, <2>1, AllocFrameFacts
<1> HIDE DEF page
<1>6. Shapes'
  BY <1>1, <1>3, <1>5 DEF IInv, Shapes
<1>7. CASE ~ok
  BY <1>2, <1>4, <1>5, <1>6, <1>7, UnmappedStep DEF Placed
<1>8. CASE ok
  <2>1. /\ pc' = "extra" /\ Keeps(kern', kern, {page}) /\ kern'.vmap["root"][page] \in Slots
    BY <1>5, <1>8 DEF Placed
  <2>2. pc' \in Imaged \ {"started"}
    BY <2>1 DEF Imaged
  <2>3. /\ LoopInv' /\ Sound(kern)' /\ TableInv' /\ ImageInv' /\ EntryContract'
        /\ \A p \in ImagePages' : kern'.vmap["root"][p] \in Slots
        /\ \A p \in Pages : kern.vmap["root"][p] \in Slots => kern'.vmap["root"][p] \in Slots
    BY <1>1, <1>2, <1>3, <1>4, <1>6, <2>1, <2>2, ImagedStep
  <2>4. ASSUME NEW i \in 0..done' PROVE kern'.vmap["root"][STACK - i] \in Slots
    <3>1. CASE i = done + 1
      BY <2>1, <3>1 DEF page
    <3>2. CASE i # done + 1
      <4>1. i \in 0..done /\ i \in 0..STACK_EXTRA_PAGES
        BY <1>1, <1>2, <1>3, <3>2, LayoutFacts
      <4> QED
        BY <1>2, <2>3, <4>1, LayoutFacts
    <3> QED
      BY <3>1, <3>2
  <2>5. PagesInv'
    BY <2>1, <2>3, <2>4 DEF PagesInv, Backed, Stacked, Furnished
  <2> QED
    BY <1>6, <2>3, <2>5 DEF IInv
<1> QED
  BY <1>7, <1>8

LEMMA CreateIpcBufferStep ==
    ASSUME IInv, CreateIpcBuffer
    PROVE  IInv'
<1> DEFINE r == MakeFrame(kern, ipc_frame_slot, "root", IPC_BUF)
<1>1. /\ UNCHANGED <<recycled, elf, args, mapped_pts, page_info, frame_slots, done, task>>
      /\ pc = "extra" /\ done = STACK_EXTRA_PAGES
      /\ kern' = r.k /\ pc' = IF r.ok THEN "configure" ELSE "failed"
  BY DEF CreateIpcBuffer, inputs, plan, Goto
<1>2. /\ UNCHANGED inputs /\ Sound(kern) /\ pc \in Imaged
      /\ \A i \in 0..STACK_EXTRA_PAGES : kern.vmap["root"][STACK - i] \in Slots
  BY <1>1 DEF IInv, PagesInv, Backed, inputs, Imaged
<1>3. /\ Placed(r.k, kern, r.ok, IPC_BUF) /\ r.ok \in BOOLEAN
      /\ r.ok => r.k.vmap["root"][IPC_BUF] = ipc_frame_slot
  <2>1. ipc_frame_slot \in Int
    BY KernelConstants DEF ipc_frame_slot
  <2> QED
    BY <1>2, <2>1, LayoutFacts, MakeFrameKeeps
<1> HIDE DEF r
<1>4. Shapes'
  BY <1>1 DEF IInv, Shapes
<1>5. IPC_BUF \in Pages /\ IPC_BUF \in Fixed /\ IPC_BUF # GuardPage
  BY LayoutFacts
<1>6. CASE ~r.ok
  BY <1>1, <1>2, <1>3, <1>4, <1>5, <1>6, UnmappedStep DEF Placed
<1>7. CASE r.ok
  <2>1. /\ pc' = "configure" /\ Keeps(kern', kern, {IPC_BUF})
        /\ kern'.vmap["root"][IPC_BUF] \in Slots /\ kern'.vmap["root"][IPC_BUF] = ipc_frame_slot
    BY <1>1, <1>3, <1>7 DEF Placed
  <2>2. pc' \in Imaged \ {"started"}
    BY <2>1 DEF Imaged, Stacked
  <2>3. /\ LoopInv' /\ Sound(kern)' /\ TableInv' /\ ImageInv' /\ EntryContract'
        /\ \A p \in ImagePages' : kern'.vmap["root"][p] \in Slots
        /\ \A p \in Pages : kern.vmap["root"][p] \in Slots => kern'.vmap["root"][p] \in Slots
    BY <1>1, <1>2, <1>4, <1>5, <2>1, <2>2, ImagedStep
  <2>4. \A i \in 0..STACK_EXTRA_PAGES : kern'.vmap["root"][STACK - i] \in Slots
    BY <1>2, <2>3, LayoutFacts
  <2>5. PagesInv'
    BY <2>1, <2>3, <2>4 DEF PagesInv, Backed, Furnished
  <2> QED
    BY <1>4, <2>3, <2>5 DEF IInv
<1> QED
  BY <1>3, <1>6, <1>7

\* The pages a step after the IPC buffer finds.
LEMMA StackedFacts ==
    ASSUME IInv, pc \in Stacked
    PROVE  /\ pc \in Imaged /\ Sound(kern)
           /\ \A i \in 0..STACK_EXTRA_PAGES : kern.vmap["root"][STACK - i] \in Slots
           /\ kern.vmap["root"][IPC_BUF] \in Slots /\ kern.vmap["root"][IPC_BUF] = ipc_frame_slot
           /\ kern.vmap["root"][STACK] \in Slots
<1>1. /\ pc \in Imaged /\ Sound(kern)
      /\ \A i \in 0..STACK_EXTRA_PAGES : kern.vmap["root"][STACK - i] \in Slots
      /\ kern.vmap["root"][IPC_BUF] \in Slots /\ kern.vmap["root"][IPC_BUF] = ipc_frame_slot
  BY DEF IInv, PagesInv, Backed, Imaged
<1>2. 0 \in 0..STACK_EXTRA_PAGES /\ STACK - 0 = STACK
  BY LayoutFacts
<1> QED
  BY <1>1, <1>2

LEMMA ConfigureStep ==
    ASSUME IInv, Configure
    PROVE  IInv'
<1> DEFINE ok == /\ HasCap(kern, tcb_slot, "tcb") /\ HasCap(kern, fault_ep_slot, "endpoint")
                 /\ HasCap(kern, ipc_frame_slot, "frame")
<1>1. /\ UNCHANGED <<recycled, elf, args, mapped_pts, page_info, frame_slots, done>>
      /\ pc = "configure" /\ pc' = IF ok THEN "tls" ELSE "failed"
      /\ ~ok => kern' = kern /\ task' = task
      /\ ok => kern' = Stored(kern, STACK, ZeroPage) /\ task' = [task EXCEPT !.ipc = ipc_frame_slot]
  BY DEF Configure, inputs, plan
<1>2. ok => ipc_frame_slot \in Slots
  BY DEF HasCap
<1> HIDE DEF ok
<1>3. pc \in Stacked /\ UNCHANGED inputs
  BY <1>1 DEF Stacked, inputs
<1>4. /\ pc \in Imaged /\ Sound(kern)
      /\ \A i \in 0..STACK_EXTRA_PAGES : kern.vmap["root"][STACK - i] \in Slots
      /\ kern.vmap["root"][IPC_BUF] \in Slots /\ kern.vmap["root"][IPC_BUF] = ipc_frame_slot
      /\ kern.vmap["root"][STACK] \in Slots
  BY <1>3, StackedFacts
<1>5. STACK \in Pages /\ STACK \in Fixed /\ STACK # GuardPage
  <2>1. 0 \in 0..STACK_EXTRA_PAGES /\ STACK - 0 = STACK
    BY LayoutFacts
  <2> QED
    BY <2>1, LayoutFacts
<1>6. task \in TaskType
  BY DEF IInv, Shapes
<1>7. CASE ~ok
  <2>1. Shapes' /\ pc' = "failed" /\ Keeps(kern', kern, {STACK})
    BY <1>1, <1>4, <1>7, KeepsSelf DEF IInv, Shapes
  <2> QED
    BY <1>3, <1>5, <2>1, UnmappedStep
<1>8. CASE ok
  <2>1. pc' = "tls" /\ kern' = Stored(kern, STACK, ZeroPage) /\ task' = [task EXCEPT !.ipc = ipc_frame_slot]
    BY <1>1, <1>8
  <2>2. Keeps(kern', kern, {STACK}) /\ kern'.vmap = kern.vmap
    <3>1. ZeroPage \in [Cells -> Int]
      BY DEF ZeroPage
    <3> QED
      BY <1>4, <1>5, <2>1, <3>1, StoreKeeps
  <2>3. task' \in TaskType /\ task'.ipc = ipc_frame_slot
    BY <1>2, <1>6, <1>8, <2>1 DEF TaskType, AnySlot
  <2>4. Shapes'
    BY <1>1, <2>3 DEF IInv, Shapes
  <2>5. pc' \in Imaged \ {"started"} /\ kern'.vmap["root"][STACK] \in Slots
    BY <1>4, <2>1, <2>2 DEF Imaged, Stacked, Furnished
  <2>6. /\ LoopInv' /\ Sound(kern)' /\ TableInv' /\ ImageInv' /\ EntryContract'
        /\ \A p \in ImagePages' : kern'.vmap["root"][p] \in Slots
    BY <1>1, <1>3, <1>4, <1>5, <2>1, <2>2, <2>4, <2>5, ImagedStep
  <2>7. PagesInv'
    BY <1>4, <2>1, <2>2, <2>3, <2>6 DEF PagesInv, Backed
  <2> QED
    BY <2>4, <2>6, <2>7 DEF IInv
<1> QED
  BY <1>7, <1>8

LEMMA CreateTlsStep ==
    ASSUME IInv, CreateTls
    PROVE  IInv'
<1>1. /\ UNCHANGED <<elf, args, mapped_pts, page_info, frame_slots, done, task>>
      /\ pc = "tls" /\ AllocFrame(TLS_BASE, "trampoline", TlsPage)
  BY DEF CreateTls, inputs, plan
<1>2. pc \in Stacked /\ UNCHANGED inputs /\ task.ipc = ipc_frame_slot
  BY <1>1 DEF Stacked, Furnished, inputs, IInv, PagesInv
<1>3. /\ pc \in Imaged /\ Sound(kern)
      /\ \A i \in 0..STACK_EXTRA_PAGES : kern.vmap["root"][STACK - i] \in Slots
      /\ kern.vmap["root"][IPC_BUF] \in Slots /\ kern.vmap["root"][IPC_BUF] = ipc_frame_slot
  BY <1>2, StackedFacts
<1>4. /\ TLS_BASE \in Pages /\ TLS_BASE \in Fixed /\ TLS_BASE # GuardPage
      /\ IPC_BUF \in Pages /\ IPC_BUF # TLS_BASE
  BY LayoutFacts
<1>5. PICK ok \in BOOLEAN : /\ Placed(kern', kern, ok, TLS_BASE)
                            /\ Filling(kern', ok, TLS_BASE, TlsPage)
                            /\ pc' = IF ok THEN "trampoline" ELSE "failed"
                            /\ recycled' \in Seq(Slots)
  <2>1. TlsPage \in [Cells -> Int]
    BY DEF TlsPage, TlsSelf
  <2> QED
    BY <1>1, <1>4, <2>1, AllocFrameFacts
<1>6. Shapes'
  BY <1>1, <1>5 DEF IInv, Shapes
<1>7. CASE ~ok
  BY <1>2, <1>4, <1>5, <1>6, <1>7, UnmappedStep DEF Placed
<1>8. CASE ok
  <2>1. /\ pc' = "trampoline" /\ Keeps(kern', kern, {TLS_BASE})
        /\ kern'.vmap["root"][TLS_BASE] \in Slots
        /\ kern'.data[kern'.vmap["root"][TLS_BASE]] = TlsPage
    BY <1>5, <1>8 DEF Placed, Filling
  <2>2. pc' \in Imaged \ {"started"}
    BY <2>1 DEF Imaged, Stacked, Furnished
  <2>3. /\ LoopInv' /\ Sound(kern)' /\ TableInv' /\ ImageInv' /\ EntryContract'
        /\ \A p \in ImagePages' : kern'.vmap["root"][p] \in Slots
        /\ \A p \in Pages : kern.vmap["root"][p] \in Slots => kern'.vmap["root"][p] \in Slots
    BY <1>1, <1>2, <1>3, <1>4, <1>6, <2>1, <2>2, ImagedStep
  <2>4. \A i \in 0..STACK_EXTRA_PAGES : kern'.vmap["root"][STACK - i] \in Slots
    BY <1>3, <2>3, LayoutFacts
  <2>5. kern'.vmap["root"][IPC_BUF] = kern.vmap["root"][IPC_BUF]
    BY <1>4, <2>1 DEF Keeps
  <2>6. TlsPage[0] = TlsSelf
    BY SlotFacts DEF TlsPage
  <2>7. PagesInv'
    BY <1>1, <1>2, <1>3, <2>1, <2>3, <2>4, <2>5, <2>6 DEF PagesInv, Backed
  <2> QED
    BY <1>6, <2>3, <2>7 DEF IInv
<1> QED
  BY <1>7, <1>8

LEMMA CreateTrampolineStep ==
    ASSUME IInv, CreateTrampoline
    PROVE  IInv'
<1>1. /\ UNCHANGED <<elf, args, mapped_pts, page_info, frame_slots, done, task>>
      /\ pc = "trampoline" /\ AllocFrame(TRAMPOLINE, "enter", ZeroPage)
  BY DEF CreateTrampoline, inputs, plan
<1>2. /\ pc \in Stacked /\ UNCHANGED inputs /\ task.ipc = ipc_frame_slot
      /\ kern.vmap["root"][TLS_BASE] \in Slots /\ kern.data[kern.vmap["root"][TLS_BASE]][0] = TlsSelf
  BY <1>1 DEF Stacked, Furnished, inputs, IInv, PagesInv, Backed
<1>3. /\ pc \in Imaged /\ Sound(kern)
      /\ \A i \in 0..STACK_EXTRA_PAGES : kern.vmap["root"][STACK - i] \in Slots
      /\ kern.vmap["root"][IPC_BUF] \in Slots /\ kern.vmap["root"][IPC_BUF] = ipc_frame_slot
  BY <1>2, StackedFacts
<1>4. /\ TRAMPOLINE \in Pages /\ TRAMPOLINE \in Fixed /\ TRAMPOLINE # GuardPage
      /\ IPC_BUF \in Pages /\ IPC_BUF # TRAMPOLINE /\ TLS_BASE \in Pages /\ TLS_BASE # TRAMPOLINE
  BY LayoutFacts
<1>5. PICK ok \in BOOLEAN : /\ Placed(kern', kern, ok, TRAMPOLINE)
                            /\ pc' = IF ok THEN "enter" ELSE "failed"
                            /\ recycled' \in Seq(Slots)
  <2>1. ZeroPage \in [Cells -> Int]
    BY DEF ZeroPage
  <2> QED
    BY <1>1, <1>4, <2>1, AllocFrameFacts
<1>6. Shapes'
  BY <1>1, <1>5 DEF IInv, Shapes
<1>7. CASE ~ok
  BY <1>2, <1>4, <1>5, <1>6, <1>7, UnmappedStep DEF Placed
<1>8. CASE ok
  <2>1. /\ pc' = "enter" /\ Keeps(kern', kern, {TRAMPOLINE})
        /\ kern'.vmap["root"][TRAMPOLINE] \in Slots
    BY <1>5, <1>8 DEF Placed
  <2>2. pc' \in Imaged \ {"started"}
    BY <2>1 DEF Imaged, Stacked, Furnished
  <2>3. /\ LoopInv' /\ Sound(kern)' /\ TableInv' /\ ImageInv' /\ EntryContract'
        /\ \A p \in ImagePages' : kern'.vmap["root"][p] \in Slots
        /\ \A p \in Pages : kern.vmap["root"][p] \in Slots => kern'.vmap["root"][p] \in Slots
    BY <1>1, <1>2, <1>3, <1>4, <1>6, <2>1, <2>2, ImagedStep
  <2>4. \A i \in 0..STACK_EXTRA_PAGES : kern'.vmap["root"][STACK - i] \in Slots
    BY <1>3, <2>3, LayoutFacts
  <2>5. /\ kern'.vmap["root"][IPC_BUF] = kern.vmap["root"][IPC_BUF]
        /\ kern'.vmap["root"][TLS_BASE] = kern.vmap["root"][TLS_BASE]
        /\ kern'.data[kern.vmap["root"][TLS_BASE]] = kern.data[kern.vmap["root"][TLS_BASE]]
    BY <1>2, <1>4, <2>1 DEF Keeps
  <2>6. PagesInv'
    BY <1>1, <1>2, <1>3, <2>1, <2>3, <2>4, <2>5 DEF PagesInv, Backed
  <2> QED
    BY <1>6, <2>3, <2>6 DEF IInv
<1> QED
  BY <1>7, <1>8


(***************************************************************************)
(* The first stack frame.                                                  *)
(***************************************************************************)
\* The last string ends at or below the ones before it.
LEMMA DataAddrFacts ==
    ASSUME NEW strs \in Seq(Nat), strs # <<>>
    PROVE  DataAddr(strs) \in Int /\ DataAddr(strs) + strs[Len(strs)] + 1 <= PageBytes
<1> DEFINE N == Len(strs)
<1> DEFINE top == PageBytes - (RandomBytes + PlatformBytes)
<1> DEFINE Step(g, n) == IF n = 0 THEN top ELSE g[n - 1] - (strs[n] + 1)
<1> DEFINE Good(g, m) == g = [n \in 0..m |-> Step(g, n)]
<1> DEFINE D == {m \in Nat : \E g : Good(g, m)}
<1>0. top \in Int /\ top <= PageBytes /\ PageBytes \in Nat
  BY RunnerConstants DEF RandomBytes, PlatformBytes
<1>1. N \in Nat /\ N # 0 /\ \A n \in 1..N : strs[n] \in Nat
  BY EmptySeq
<1>2. DataAddr(strs) = (CHOOSE g : Good(g, N))[N]
  BY DEF DataAddr
<1> HIDE DEF top
<1>3. 0 \in D
  <2>1. Good([n \in 0..0 |-> top], 0)
    OBVIOUS
  <2> QED
    BY <2>1
<1>4. ASSUME NEW m \in 0..(N - 1), m \in D
      PROVE  m + 1 \in D
  <2>1. PICK g : Good(g, m)
    BY <1>4
  <2> DEFINE f == [n \in 0..(m + 1) |-> Step(g, n)]
  <2>2. \A n \in 0..m : f[n] = g[n]
    <3> HIDE DEF Step
    <3>1. \A n \in 0..m : g[n] = Step(g, n)
      BY <2>1
    <3>2. \A n \in 0..m : f[n] = Step(g, n)
      OBVIOUS
    <3> QED
      BY <3>1, <3>2
  <2>3. \A n \in 0..(m + 1) : n # 0 => n - 1 \in 0..m
    OBVIOUS
  <2>4. \A n \in 0..(m + 1) : f[n] = Step(g, n)
    OBVIOUS
  <2>5. f = [n \in 0..(m + 1) |-> f[n]]
    OBVIOUS
  <2> HIDE DEF f
  <2>6. \A n \in 0..(m + 1) : n # 0 => f[n - 1] = g[n - 1]
    BY <2>2, <2>3
  <2>7. \A n \in 0..(m + 1) : Step(f, n) = Step(g, n)
    BY <2>6
  <2>8. Good(f, m + 1)
    BY <2>4, <2>5, <2>7
  <2> HIDE DEF Good
  <2> QED
    BY <2>8
<1>5. \E g : Good(g, N)
  <2> HIDE DEF D
  <2>1. \A n \in 0..N : n \in D
    BY <1>1, <1>3, <1>4, SetInduction
  <2>2. N \in D
    BY <1>1, <2>1
  <2> HIDE DEF Good
  <2> QED
    BY <2>2 DEF D
<1> DEFINE F == CHOOSE g : Good(g, N)
<1>6. Good(F, N)
  BY <1>5
<1>7. \A n \in 0..N : F[n] = Step(F, n)
  BY <1>6
<1>8. DataAddr(strs) = F[N]
  BY <1>2
<1> HIDE DEF F
<1> DEFINE E == {n \in Nat : F[n] \in Int /\ F[n] <= PageBytes}
<1>9. 0 \in E
  <2>1. 0 \in 0..N
    BY <1>1
  <2>2. F[0] = top
    BY <1>7, <2>1
  <2> QED
    BY <1>0, <2>2
<1>10. ASSUME NEW n \in 1..N
       PROVE  F[n] = F[n - 1] - (strs[n] + 1)
  <2>1. n \in 0..N /\ n # 0
    BY <1>1
  <2> QED
    BY <1>7, <2>1
<1> HIDE DEF Good, Step
<1>11. ASSUME NEW n \in 0..(N - 1), n \in E
       PROVE  n + 1 \in E
  <2>1. n + 1 \in 1..N /\ n + 1 - 1 = n /\ n + 1 \in Nat
    BY <1>1
  <2>2. F[n + 1] = F[n] - (strs[n + 1] + 1) /\ strs[n + 1] \in Nat
    BY <1>1, <1>10, <2>1
  <2>3. F[n] \in Int /\ F[n] <= PageBytes
    BY <1>11
  <2>4. F[n + 1] \in Int /\ F[n + 1] <= PageBytes
    BY <1>0, <2>2, <2>3
  <2> QED
    BY <2>1, <2>4
<1> HIDE DEF E
<1>12. \A n \in 0..N : n \in E
  BY <1>1, <1>9, <1>11, SetInduction
<1>13. N \in 1..N /\ N \in 0..N /\ N - 1 \in 0..N
  BY <1>1
<1>14. /\ F[N] \in Int /\ F[N - 1] \in Int /\ F[N - 1] <= PageBytes
       /\ F[N] = F[N - 1] - (strs[N] + 1) /\ strs[N] \in Nat
  BY <1>1, <1>10, <1>12, <1>13 DEF E
<1> HIDE DEF N
<1>15. F[N] + strs[N] + 1 <= PageBytes
  <2> DEFINE a == F[N]
  <2> DEFINE b == F[N - 1]
  <2> DEFINE s == strs[N]
  <2>1. a \in Int /\ b \in Int /\ b <= PageBytes /\ a = b - (s + 1) /\ s \in Nat
    BY <1>14
  <2> HIDE DEF a, b, s
  <2>2. a + s + 1 = b
    BY <2>1
  <2>3. a + s + 1 <= PageBytes
    BY <2>1, <2>2
  <2> QED
    BY <2>3 DEF a, s
<1> QED
  BY <1>8, <1>14, <1>15 DEF N

\* The frame is aligned and ends below the strings.
LEMMA StackBaseFacts ==
    ASSUME NEW data \in Int, NEW argc \in Nat
    PROVE  LET rsp == StackBase(data, argc) IN
           rsp \in Int /\ rsp % 16 = 0 /\ rsp + array_bytes(argc) <= data
<1> DEFINE a == array_bytes(argc)
<1> DEFINE x == data - a
<1> DEFINE rsp == StackBase(data, argc)
<1>1. a \in Int
  BY DEF array_bytes, AuxPairs
<1>2. rsp = x - (x % 16)
  BY DEF StackBase, Aligned
<1> HIDE DEF a
<1>3. x \in Int /\ x = data - a
  BY <1>1
<1> HIDE DEF x
<1>4. rsp \in Int /\ rsp <= x /\ rsp % 16 = 0
  <2> HIDE DEF rsp
  <2> QED
    BY <1>2, <1>3
<1> HIDE DEF rsp
<1>5. rsp + a <= data
  BY <1>1, <1>3, <1>4
<1> QED
  BY <1>4, <1>5 DEF a, rsp

\* A frame that reached below the stack would touch the page below it.
LEMMA GuardArgument ==
    ASSUME NEW rsp \in Int, rsp < -(STACK_EXTRA_PAGES * PageBytes)
    PROVE  GuardPage \in StackPageOf(rsp)..STACK
<1> DEFINE q == rsp \div PageBytes
<1>1. PageBytes \in Nat \ {0} /\ STACK_EXTRA_PAGES \in Nat /\ STACK \in Nat
  BY RunnerConstants, LayoutFacts
<1>2. q \in Int
  BY <1>1, DivFacts
<1>3. q < -STACK_EXTRA_PAGES
  <2> SUFFICES ASSUME ~(q < -STACK_EXTRA_PAGES) PROVE FALSE
    OBVIOUS
  <2>1. -STACK_EXTRA_PAGES \in Int /\ -STACK_EXTRA_PAGES <= q
    <3> HIDE DEF q
    <3> QED
      BY <1>1, <1>2
  <2>2. PageBytes * (-STACK_EXTRA_PAGES) <= rsp
    BY <1>1, <2>1, DivBound
  <2>3. PageBytes * (-STACK_EXTRA_PAGES) = -(STACK_EXTRA_PAGES * PageBytes)
    BY <1>1
  <2>4. STACK_EXTRA_PAGES * PageBytes \in Int
    BY <1>1
  <2> QED
    BY <2>2, <2>3, <2>4
<1>4. StackPageOf(rsp) = STACK + q /\ GuardPage = STACK - (STACK_EXTRA_PAGES + 1)
  BY DEF StackPageOf, GuardPage
<1> HIDE DEF q
<1> QED
  BY <1>1, <1>2, <1>3, <1>4

LEMMA EnterStep ==
    ASSUME IInv, Enter
    PROVE  IInv'
<1> DEFINE data == DataAddr(argv)
<1> DEFINE rsp == StackBase(data, Len(argv))
<1> DEFINE ok == \A p \in StackPageOf(rsp)..STACK : Readable(kern, p)
<1>1. /\ UNCHANGED <<kern, recycled, elf, args, mapped_pts, page_info, frame_slots, done>>
      /\ pc = "enter" /\ pc' = IF ok THEN "started" ELSE "fault"
      /\ ~ok => task' = task
      /\ ok => task' = [task EXCEPT !.run = TRUE, !.rip = relocated_entry, !.rsp = rsp, !.data = data]
  BY DEF Enter, inputs, plan
<1>2. /\ UNCHANGED inputs /\ Sound(kern) /\ PtLoads # <<>> /\ elf \in Elves /\ task \in TaskType
      /\ args \in Seq(Nat) /\ kern.vmap["root"][GuardPage] = NoCap /\ LoopInv /\ TableInv
      /\ PagesInv /\ ImageInv
  BY <1>1, RunnerInputs DEF IInv, Shapes, LoopInv, TableInv, inputs
<1>3. argv \in Seq(Nat) /\ argv # <<>> /\ Len(argv) \in Nat
  <2>1. argv \in Seq(Nat) /\ argv # <<>>
    BY <1>2 DEF argv
  <2> QED
    BY <2>1, LenProperties
<1>4. data \in Int /\ data + argv[Len(argv)] + 1 <= PageBytes
  BY <1>3, DataAddrFacts
<1> HIDE DEF data
<1>5. rsp \in Int /\ rsp % 16 = 0 /\ rsp + array_bytes(Len(argv)) <= data
  BY <1>3, <1>4, StackBaseFacts
<1> HIDE DEF rsp
<1>6. CASE ~ok
  <2>1. Shapes' /\ Keeps(kern', kern, {}) /\ pc' = "fault"
    BY <1>1, <1>2, <1>6, KeepsSelf DEF IInv, Shapes
  <2> QED
    BY <1>2, <2>1, EarlyStep DEF Early, Ends
<1>7. CASE ok
  <2>1. ~(rsp < -(STACK_EXTRA_PAGES * PageBytes))
    <3> SUFFICES ASSUME rsp < -(STACK_EXTRA_PAGES * PageBytes) PROVE FALSE
      OBVIOUS
    <3>1. Readable(kern, GuardPage)
      BY <1>5, <1>7, GuardArgument
    <3> QED
      BY <1>2, <3>1 DEF Readable
  <2> HIDE DEF ok
  <2>2. task' = [task EXCEPT !.run = TRUE, !.rip = relocated_entry, !.rsp = rsp, !.data = data]
        /\ pc' = "started"
    BY <1>1, <1>7
  <2>3. relocated_entry \in Int
    <3>1. reloc_offset \in Int
      BY <1>2, LowestFacts
    <3>2. elf.entry \in Nat
      BY <1>2, RunnerInputs
    <3> QED
      BY <3>1, <3>2 DEF relocated_entry
  <2>4. task' \in TaskType /\ task'.rsp = rsp /\ task'.data = data /\ task'.ipc = task.ipc
    BY <1>2, <1>4, <1>5, <2>2, <2>3 DEF TaskType
  <2>5. Shapes'
    BY <1>1, <2>4 DEF IInv, Shapes
  <2>6. /\ PtLoads' = PtLoads /\ AllRegions' = AllRegions /\ Segments' = Segments /\ argv' = argv
        /\ Regular' = Regular /\ ImagePages' = ImagePages /\ \A i : (Patched(i))' = Patched(i)
    BY <1>2, SameInputs
  <2>7. LoopInv' /\ TableInv'
    BY <1>1, <1>2, <2>2, <2>6 DEF LoopInv, TableInv, PCs, Tabled, Planned, Imaged, Stacked, Furnished
  <2>8. PagesInv'
    BY <1>1, <1>2, <2>2, <2>4, <2>6 DEF PagesInv, Backed, Imaged, Stacked, Furnished
  <2>9. ImageInv'
    <3>1. \A n, c : (Sourced(n, c))' <=> Sourced(n, c)
      BY <1>1, <1>2, SameSource
    <3> QED
      BY <1>1, <1>2, <2>2, <2>6, <3>1 DEF ImageInv, Holds, Imaged, Stacked, Furnished
  <2>10. STACK_EXTRA_PAGES * PageBytes \in Int
    <3>1. STACK_EXTRA_PAGES \in Nat /\ PageBytes \in Nat
      BY LayoutFacts, RunnerConstants
    <3> QED
      BY <3>1
  <2>11. rsp >= -(STACK_EXTRA_PAGES * PageBytes)
    BY <1>5, <2>1, <2>10
  <2>12. EntryContract'
    BY <1>4, <1>5, <2>4, <2>6, <2>11 DEF EntryContract
  <2> QED
    BY <1>1, <1>2, <2>5, <2>7, <2>8, <2>9, <2>12 DEF IInv
<1> QED
  BY <1>6, <1>7

-----------------------------------------------------------------------------
(***************************************************************************)
(* The theorems.                                                           *)
(***************************************************************************)
LEMMA StutterStep ==
    ASSUME IInv, UNCHANGED vars
    PROVE  IInv'
<1>1. /\ UNCHANGED <<pc, kern, recycled, elf, args, mapped_pts, page_info, frame_slots, done, task>>
      /\ UNCHANGED inputs
  BY DEF vars, inputs
<1>2. /\ PtLoads' = PtLoads /\ AllRegions' = AllRegions /\ Segments' = Segments /\ argv' = argv
      /\ Regular' = Regular /\ ImagePages' = ImagePages
      /\ \A i : (Patched(i))' = Patched(i) /\ (Slice(i))' = Slice(i)
      /\ \A n, c : (Sourced(n, c))' <=> Sourced(n, c)
  BY <1>1, SameInputs, SameSource
<1>3. Shapes' /\ Sound(kern)'
  BY <1>1 DEF IInv, Shapes
<1>4. LoopInv' /\ TableInv'
  BY <1>1, <1>2 DEF IInv, LoopInv, TableInv
<1>5. PagesInv'
  BY <1>1, <1>2 DEF IInv, PagesInv, Backed
<1>6. ImageInv'
  BY <1>1, <1>2 DEF IInv, ImageInv, Holds
<1>7. EntryContract'
  BY <1>1, <1>2 DEF IInv, EntryContract
<1> QED
  BY <1>3, <1>4, <1>5, <1>6, <1>7 DEF IInv

\* Until the first page is loaded the root's pages are what they were.
LEMMA RootStep ==
    ASSUME IInv, RootInv, Keeps(kern', kern, {}),
           pc \in {"parse", "endpoint", "tcb", "pt_load", "pt_extra", "plan", "frames"}
    PROVE  RootInv'
<1>1. \A p \in Pages : kern'.vmap["root"][p] \notin Slots
  BY DEF RootInv, Backed, Keeps
<1> QED
  BY <1>1 DEF RootInv, Backed

\* Every step keeps the invariant.
LEMMA NextInv == IInv /\ RootInv /\ [Next]_vars => IInv' /\ RootInv'
<1> SUFFICES ASSUME IInv, RootInv, [Next]_vars PROVE IInv' /\ RootInv'
  OBVIOUS
<1>1. CASE Parse \/ CreateEndpoint \/ CreateTcb
  <2>1. IInv' /\ Keeps(kern', kern, {})
    BY <1>1, ParseStep, CreateObjectsStep
  <2> QED
    BY <1>1, <2>1, RootStep DEF Parse, CreateEndpoint, CreateTcb
<1>2. CASE CreateLoadTable \/ CreateExtraTable \/ CreateStackTable
  <2>1. IInv' /\ Keeps(kern', kern, {})
    BY <1>2, CreateLoadTableStep, CreateExtraTableStep, CreateStackTableStep
  <2> QED
    BY <1>2, <2>1, RootStep DEF CreateLoadTable, CreateExtraTable, CreateStackTable
<1>3. CASE PlanPages \/ RetypeBatch \/ AllRetyped
  <2>1. IInv' /\ Keeps(kern', kern, {})
    BY <1>3, PlanPagesStep, RetypeBatchStep, AllRetypedStep
  <2> QED
    BY <1>3, <2>1, RootStep DEF PlanPages, RetypeBatch, AllRetyped
<1>4. CASE LoadPage
  BY <1>4, LoadPageStep
<1>5. CASE PatchEntry \/ CreateStack \/ CreateExtraStack \/ CreateIpcBuffer
  <2>1. IInv'
    BY <1>5, PatchEntryStep, CreateStackStep, CreateExtraStackStep, CreateIpcBufferStep
  <2>2. pc' \in {"stack", "extra", "configure", "fault", "failed"}
    BY <1>5 DEF PatchEntry, CreateStack, CreateExtraStack, CreateIpcBuffer, AllocFrame, Goto
  <2> QED
    BY <2>1, <2>2 DEF RootInv
<1>6. CASE Configure \/ CreateTls \/ CreateTrampoline \/ Enter
  <2>1. IInv'
    BY <1>6, ConfigureStep, CreateTlsStep, CreateTrampolineStep, EnterStep
  <2>2. pc' \in {"tls", "trampoline", "enter", "started", "fault", "failed"}
    BY <1>6 DEF Configure, CreateTls, CreateTrampoline, Enter, AllocFrame, Goto
  <2> QED
    BY <2>1, <2>2 DEF RootInv
<1>7. CASE Ended \/ UNCHANGED vars
  <2>1. UNCHANGED vars
    BY <1>7 DEF Ended
  <2>2. RootInv'
    BY <2>1 DEF vars, RootInv, Backed
  <2> QED
    BY <2>1, <2>2, StutterStep
<1> QED
  BY <1>1, <1>2, <1>3, <1>4, <1>5, <1>6, <1>7 DEF Next

LEMMA InvHolds == Spec => []IInv
<1>1. Init => IInv /\ RootInv
  BY InitInv
<1>2. (IInv /\ RootInv) /\ [Next]_vars => (IInv /\ RootInv)'
  BY NextInv
<1> QED
  BY <1>1, <1>2, PTL DEF Spec


\* Type correctness of create_user_task: the stages, the kernel's objects, the
\* slots, and the counters of its loops, which stay within their lists.
THEOREM TypeCorrect == Spec => []TypeOK
<1>1. IInv => TypeOK
  <2> SUFFICES ASSUME IInv PROVE TypeOK
    OBVIOUS
  <2>1. KernelOK(kern)
    BY KernelTyped DEF IInv, Sound
  <2>2. \A i \in DOMAIN recycled : recycled[i] \in Slots
    BY DEF IInv, Shapes
  <2>3. Len(page_info) \in Nat /\ STACK_EXTRA_PAGES \in Nat
    BY LenProperties, LayoutFacts DEF IInv, Shapes
  <2>4. done \in 0..MaxOf(Len(page_info), STACK_EXTRA_PAGES)
    BY <2>3 DEF IInv, Shapes, MaxOf
  <2>5. pc = "frames" => done <= Len(frame_slots)
    BY DEF IInv, LoopInv, Planned
  <2>6. task.run \in BOOLEAN /\ task.ipc \in Slots \cup {NoCap} /\ mapped_pts \subseteq Regions
    BY DEF IInv, Shapes, TaskType, AnySlot
  <2>7. pc \in PCs
    BY DEF IInv, LoopInv
  <2> QED
    BY <2>1, <2>2, <2>4, <2>5, <2>6, <2>7
       DEF TypeOK, PCs, Tabled, Planned, Imaged, Stacked, Furnished, Ends
<1> QED
  BY <1>1, InvHolds, PTL

\* A task that create_user_task has started has its stack aligned, its frame
\* below its strings, and all of it in the pages of the stack.
THEOREM EntryContractHolds == Spec => []EntryContract
<1>1. IInv => EntryContract
  BY DEF IInv
<1> QED
  BY <1>1, InvHolds, PTL

\* A task that create_user_task has started has all its pages, the IPC buffer
\* its TCB was told of, and a TLS page that points to itself.
THEOREM StartedCompleteHolds == Spec => []StartedComplete
<1>1. IInv => StartedComplete
  <2> SUFFICES ASSUME IInv, pc = "started" PROVE StartedComplete
    BY DEF StartedComplete
  <2>1. /\ \A p \in ImagePages : kern.vmap["root"][p] \in Slots
        /\ \A i \in 0..STACK_EXTRA_PAGES : kern.vmap["root"][STACK - i] \in Slots
        /\ kern.vmap["root"][IPC_BUF] \in Slots /\ kern.vmap["root"][IPC_BUF] = task.ipc
        /\ kern.vmap["root"][TLS_BASE] \in Slots /\ kern.vmap["root"][TRAMPOLINE] \in Slots
        /\ kern.data[kern.vmap["root"][TLS_BASE]][0] = TlsSelf
    BY DEF IInv, PagesInv, Backed, Imaged, Stacked, Furnished
  <2>2. ASSUME NEW p \in (STACK - STACK_EXTRA_PAGES)..STACK
        PROVE  kern.vmap["root"][p] \in Slots
    <3>1. STACK - p \in 0..STACK_EXTRA_PAGES /\ STACK - (STACK - p) = p
      BY LayoutFacts
    <3> QED
      BY <2>1, <3>1
  <2>3. \A p \in ImagePages \cup Fixed : kern.vmap["root"][p] \in Slots
    BY <2>1, <2>2 DEF Fixed
  <2>4. CellAt(kern, TLS_BASE * PageCells) = TlsSelf
    <3> DEFINE a == TLS_BASE * PageCells
    <3>1. PageCells \in Nat \ {0} /\ TLS_BASE \in Nat
      BY KernelConstants, LayoutFacts, SlotFacts
    <3>2. /\ a \in Int /\ PageCells * TLS_BASE <= a /\ a < PageCells * TLS_BASE + PageCells
          /\ a - PageCells * TLS_BASE = 0
      BY <3>1
    <3> HIDE DEF a
    <3>3. a \div PageCells = TLS_BASE /\ a % PageCells = 0
      BY <3>1, <3>2, DivUnique
    <3>4. CellAt(kern, a) = TlsSelf
      BY <2>1, <3>3 DEF CellAt
    <3> QED
      BY <3>4 DEF a
  <2> QED
    BY <2>1, <2>3, <2>4 DEF StartedComplete
<1> QED
  BY <1>1, InvHolds, PTL

\* A cell of a segment in its page: the slice recorded for the page has it at
\* the place where the segment has it.
LEMMA CellBytes ==
    ASSUME elf \in Elves, NEW h \in Loadable, h.off + h.filesz <= elf.len,
           NEW c \in 0..(h.memsz - 1), NEW p \in Nat, NEW o \in Cells,
           h.vaddr + c = p * PageCells + o
    PROVE  /\ Slice(PageInfo(h, p))[o] = IF c < h.filesz THEN h.off + c + 1 ELSE 0
           /\ Copied(PageInfo(h, p), o) =>
                c < h.filesz /\ SourceOf(PageInfo(h, p), o) = h.off + c
<1> DEFINE base == p * PageCells
<1> DEFINE next == (p + 1) * PageCells
<1> DEFINE v == h.vaddr
<1> DEFINE f == h.off
<1> DEFINE s == h.filesz
<1> DEFINE m == elf.len
<1> DEFINE from == MaxOf(v, base)
<1> DEFINE to == MinOf(seg_file_end(h), next)
<1> DEFINE i == PageInfo(h, p)
<1>1. /\ PageCells \in Nat \ {0} /\ v \in Nat /\ f \in Nat /\ s \in Nat /\ m \in Nat
      /\ c \in Nat /\ o \in Nat /\ o < PageCells /\ f + s <= m
  <2>1. PageCells \in Nat \ {0} /\ m \in Nat
    BY KernelConstants, RunnerInputs
  <2>2. h.vaddr \in Nat /\ h.memsz \in Nat /\ h.off \in Nat /\ h.filesz \in Nat
    BY DEF Loadable, Headers
  <2> QED
    BY <2>1, <2>2 DEF Cells
<1>2. base \in Int /\ next = base + PageCells /\ v + c = base + o
  BY <1>1
<1>3. seg_file_end(h) = v + s
  BY DEF seg_file_end
<1>4. i = IF from < to
          THEN [page |-> p, file_off |-> f + (from - v), copy_off |-> from - base, len |-> to - from]
          ELSE [page |-> p, file_off |-> 0, copy_off |-> 0, len |-> 0]
  BY DEF PageInfo
<1>5. /\ Slice(i)[o] = IF Copied(i, o) THEN SourceOf(i, o) + 1 ELSE 0
      /\ Copied(i, o) <=> /\ i.file_off + i.len <= m
                          /\ o \in i.copy_off..(i.copy_off + i.len - 1)
      /\ SourceOf(i, o) = i.file_off + (o - i.copy_off)
  BY DEF Slice, Copied, SourceOf
<1>6. from = (IF v >= base THEN v ELSE base) /\ to = (IF v + s <= next THEN v + s ELSE next)
  BY <1>3 DEF MaxOf, MinOf
<1> HIDE DEF base, next, v, f, s, m, from, to, i
<1>7. from \in Int /\ to \in Int
  BY <1>1, <1>2, <1>6
<1>8. (Copied(i, o) <=> c < s) /\ (c < s => SourceOf(i, o) = f + c)
  <2>1. CASE from < to
    <3> DEFINE fo == f + (from - v)
    <3> DEFINE co == from - base
    <3> DEFINE ln == to - from
    <3>1. i.file_off = fo /\ i.copy_off = co /\ i.len = ln
      BY <1>4, <2>1
    <3>2. fo \in Int /\ co \in Int /\ ln \in Int /\ fo + ln = f + (to - v) /\ co + ln = to - base
      BY <1>1, <1>2, <1>7
    <3>3. fo + ln <= m
      <4>1. to <= v + s
        BY <1>1, <1>2, <1>6
      <4> HIDE DEF fo, ln
      <4> QED
        BY <1>1, <1>7, <3>2, <4>1
    <3>4. fo + (o - co) = f + c
      <4>1. base = (v + c) - o
        BY <1>1, <1>2
      <4> QED
        BY <1>1, <1>2, <1>7, <4>1
    <3>5. co <= o
      BY <1>1, <1>2, <1>6
    <3>6. o <= (co + ln) - 1 <=> c < s
      <4>1. o <= (co + ln) - 1 <=> base + o < to
        <5> HIDE DEF co, ln
        <5> QED
          BY <1>1, <1>2, <1>7, <3>2
      <4>2. base + o < to <=> c < s
        BY <1>1, <1>2, <1>6
      <4> QED
        BY <4>1, <4>2
    <3> HIDE DEF fo, co, ln
    <3>7. o \in co..((co + ln) - 1) <=> c < s
      BY <1>1, <3>2, <3>5, <3>6
    <3>8. co + ln - 1 = (co + ln) - 1
      BY <3>2
    <3> QED
      BY <1>5, <3>1, <3>3, <3>4, <3>7, <3>8
  <2>2. CASE ~(from < to)
    <3>1. i.copy_off = 0 /\ i.len = 0
      BY <1>4, <2>2
    <3>2. o \notin 0..(0 + 0 - 1)
      BY <1>1
    <3>3. ~(c < s)
      <4>1. base + o >= from /\ base + o < next
        BY <1>1, <1>2, <1>6
      <4> QED
        BY <1>1, <1>2, <1>6, <1>7, <2>2, <4>1
    <3> QED
      BY <1>5, <3>1, <3>2, <3>3
  <2> QED
    BY <2>1, <2>2
<1> QED
  BY <1>1, <1>5, <1>8 DEF i, s, f

\* Every byte of a regular program that create_user_task has started is where
\* it was linked to be, moved by reloc_offset, with the patch applied, if loading
\* had not yet mapped over its place in the root's image when it was copied.
THEOREM ImageLoadedHolds == Spec => []ImageLoaded
<1>1. IInv => ImageLoaded
  <2> SUFFICES ASSUME IInv, pc = "started", Regular,
                      NEW i \in Loads, NEW c \in 0..(PtLoads[i].memsz - 1),
                      NEW j \in DOMAIN page_info,
                      page_info[j].page = (Segments[i].vaddr + c) \div PageCells,
                      c < PtLoads[i].filesz => Intact(j, PtLoads[i].off + c)
               PROVE  LET addr == Segments[i].vaddr + c
                          cell == IF c < PtLoads[i].filesz THEN PtLoads[i].off + c + 1 ELSE 0
                      IN CellAt(kern, addr) = IF addr \in Patches THEN cell + reloc_offset ELSE cell
    BY DEF ImageLoaded, InPlace
  <2> DEFINE h == Segments[i]
  <2> DEFINE addr == h.vaddr + c
  <2> DEFINE p == addr \div PageCells
  <2> DEFINE o == addr % PageCells
  <2> DEFINE w == page_info
  <2>1. /\ elf \in Elves /\ PtLoads # <<>> /\ w = Infos(Segments)
        /\ Holds(j, Patched(w[j]))
    BY DEF IInv, Shapes, LoopInv, ImageInv, Planned, Imaged, Stacked, Furnished
  <2>2. /\ h \in Loadable /\ h.off = PtLoads[i].off /\ h.filesz = PtLoads[i].filesz
        /\ h.memsz = PtLoads[i].memsz
    BY <2>1, SegmentFacts
  <2>3. h.off + h.filesz <= elf.len
    BY <2>2 DEF Regular
  <2> HIDE DEF h
  <2>4. c \in 0..(h.memsz - 1)
    BY <2>2
  <2>5. p \in page_range(h) /\ p \in Nat /\ o \in Cells /\ addr = p * PageCells + o
    BY <2>2, <2>4, CellFacts
  <2>6. w[j].page = p
    BY DEF h
  <2> HIDE DEF p, o
  <2>7. PICK l \in Loads : w[j].page \in page_range(Segments[l])
                           /\ w[j] = PageInfo(Segments[l], w[j].page)
    BY <2>1, InfosFacts
  <2>8. l = i
    BY <2>5, <2>6, <2>7 DEF Regular, h
  <2>9. w[j] = PageInfo(h, p)
    BY <2>6, <2>7, <2>8 DEF h
  <2>10. /\ Slice(w[j])[o] = IF c < h.filesz THEN h.off + c + 1 ELSE 0
         /\ Copied(w[j], o) => c < h.filesz /\ SourceOf(w[j], o) = h.off + c
    <3>1. h.vaddr + c = p * PageCells + o
      BY <2>5
    <3> QED
      BY <2>1, <2>2, <2>3, <2>4, <2>5, <2>9, <3>1, CellBytes
  <2>11. CellAt(kern, addr) = kern.data[kern.vmap["root"][w[j].page]][o]
    BY <2>6 DEF CellAt, p, o
  <2>12. CellAt(kern, addr) = Patched(w[j])[o]
    <3>1. Sourced(j, o)
      BY <2>2, <2>10 DEF Sourced
    <3> QED
      BY <2>1, <2>5, <2>11, <3>1 DEF Holds
  <2>13. Patched(w[j])[o] = IF addr \in Patches THEN Slice(w[j])[o] + reloc_offset
                            ELSE Slice(w[j])[o]
    <3>1. w[j].page * PageCells + o = addr
      BY <2>5, <2>6
    <3> HIDE DEF w, addr
    <3> QED
      BY <2>5, <3>1 DEF Patched
  <2> QED
    BY <2>2, <2>10, <2>12, <2>13 DEF h
<1> QED
  BY <1>1, InvHolds, PTL

-----------------------------------------------------------------------------
(***************************************************************************)
(* The account of memory and slots: create_user_task fails exactly when    *)
(* something is short.                                                     *)
(***************************************************************************)
Small(k) == find_free_untyped(k, 2)
Big(k)   == find_free_untyped(k, BigUnits)
NSlots   == EndSlot - FirstSlot
Tables   == Cardinality(mapped_pts)
Frames   == Len(frame_slots)
Extra    == STACK_EXTRA_PAGES

\* s units for the task's own objects and b units for its image.
Fits(k, s, b) ==
  IF Small(k) = Big(k) THEN s + b <= k.untyped[Small(k)].units
  ELSE s <= k.untyped[Small(k)].units /\ b <= k.untyped[Big(k)].units
Spent(k, s, b) ==
  IF Small(k) = Big(k) THEN k.untyped[Small(k)].used = s + b
  ELSE k.untyped[Small(k)].used = s /\ k.untyped[Big(k)].used = b

\* The first q slots after the six fixed ones are taken, the others empty.
Taken(k, q) ==
  /\ 6 + q <= NSlots
  /\ \A s \in (FirstSlot + 6)..(FirstSlot + 5 + q) : k.caps[s] # "null"
  /\ \A s \in (FirstSlot + 6 + q)..(EndSlot - 1) : k.caps[s] = "null"

\* x objects of 4K beside endpoint and TCB, b frames of the image, in q slots.
Account(k, x, b, q) == Spent(k, 2 * (x + 1), 2 * b) /\ Taken(k, q)

\* The allocator's stack after p slots were popped: what is left of the slots
\* pushed by create_user_task, above those pushed by test_busybox.
StackSlot(i) == IF i <= NSlots THEN FirstSlot + i - 1 ELSE EndSlot - (i - NSlots)
OnStack(st, p) == /\ Len(st) = 2 * NSlots - 6 - p
                  /\ \A i \in 1..Len(st) : st[i] = StackSlot(i)

Empty(k, slot) == HasCap(k, slot, "null")
HasTables(k, S) == \A r \in S : k.pts["root"][r] # NoCap

\* The stack's table cannot be made any more.
Doomed(k) == \/ k.untyped[Small(k)].used + 2 > k.untyped[Small(k)].units
             \/ ~Empty(k, pt_stack_slot)
Tabling == /\ Account(kern, Tables, 0, Tables) /\ OnStack(recycled, Tables)
           /\ Empty(kern, pt_stack_slot) /\ Empty(kern, stack_frame_slot)
           /\ Empty(kern, ipc_frame_slot) /\ HasTables(kern, mapped_pts)

\* Where each stage stands.
StartInv ==
  /\ pc \in {"parse"} \cup Early => \A s \in Slots \ {tcb_slot, fault_ep_slot} : Empty(kern, s)
  /\ pc \in {"parse", "endpoint"} => /\ \A i \in DOMAIN kern.untyped : kern.untyped[i].used = 0
                                     /\ \A s \in Slots : Empty(kern, s)
  /\ pc = "parse"   => recycled = [i \in 1..NSlots |-> FirstSlot + i - 1]
  /\ pc \in Early   => recycled = [i \in 1..NSlots |-> FirstSlot + i - 1] \o RemainingSlots
  /\ pc = "tcb"     => Spent(kern, 1, 0) /\ \A s \in Slots \ {fault_ep_slot} : Empty(kern, s)
  /\ pc = "pt_load" => Spent(kern, 2, 0)
StageInv ==
  /\ pc = "pt_extra"                   => Tabling \/ (Doomed(kern) /\ ~Enough)
  /\ pc = "plan"                       => Account(kern, Tables + 1, 0, Tables)
  /\ pc = "plan"                       => OnStack(recycled, Tables)
  /\ pc = "frames"                     => Account(kern, Tables + 1, done, Tables + done)
  /\ pc \in {"load", "stack"}          => Account(kern, Tables + 1, Frames, Tables + Frames)
  /\ pc \in {"frames", "load", "stack"} => OnStack(recycled, Tables + Frames)
  /\ pc = "extra"                      => LET q == Tables + Frames + done IN
                                          /\ Account(kern, Tables + 2 + done, Frames, q)
                                          /\ OnStack(recycled, q)
  /\ pc \in {"configure", "tls"}       => LET q == Tables + Frames + Extra IN
                                          /\ Account(kern, Tables + 3 + Extra, Frames, q)
                                          /\ OnStack(recycled, q)
  /\ pc = "trampoline"                 => LET q == Tables + Frames + Extra + 1 IN
                                          /\ Account(kern, Tables + 4 + Extra, Frames, q)
                                          /\ OnStack(recycled, q)
  /\ pc \in {"enter", "started"}       => Account(kern, Tables + 5 + Extra, Frames,
                                                  Tables + Frames + Extra + 2)

\* The fixed slots, and the slots of the image's frames.
Begun == {"pt_extra"} \cup Tabled
CapsInv ==
  /\ pc \in {"tcb", "pt_load"} \cup Begun => HasCap(kern, fault_ep_slot, "endpoint")
  /\ pc \in {"pt_load"} \cup Begun => HasCap(kern, tcb_slot, "tcb")
  /\ pc \in {"plan", "frames", "load", "stack"} => Empty(kern, stack_frame_slot)
  /\ pc \in {"plan", "frames", "load", "stack", "extra"} => Empty(kern, ipc_frame_slot)
  /\ pc \in Stacked => HasCap(kern, ipc_frame_slot, "frame")
Ready(k, i) == HasCap(k, frame_slots[i], "frame") /\ k.at[frame_slots[i]] = Nowhere
FramesInv ==
  /\ pc = "frames" => \A i \in 1..Frames :
       frame_slots[i] = StackSlot(2 * NSlots - 5 - Tables - i)
  /\ pc = "frames" => \A i \in 1..done : Ready(kern, i)
  /\ pc = "load"   => \A i \in (done + 1)..Frames : Ready(kern, i)
  /\ pc = "load"   => \A i, j \in 1..Frames : frame_slots[i] = frame_slots[j] => i = j

\* Which regions have page tables.
RegionsInv ==
  /\ pc \in {"parse"} \cup Early => mapped_pts = {}
  /\ pc \in Begun => Region(LOAD_BASE) \in mapped_pts /\ mapped_pts \subseteq TablesNeeded
  /\ pc \notin Ends => \A r \in Regions : kern.pts["root"][r] \in Slots =>
       r \in mapped_pts \/ (pc \in Tabled /\ r = Region(STACK))
  /\ pc \in Tabled => /\ mapped_pts = TablesNeeded /\ HasTables(kern, mapped_pts)
                      /\ kern.pts["root"][Region(STACK)] \in Slots
  /\ pc \in {"trampoline", "enter", "started"} => kern.pts["root"][Region(TLS_BASE)] # NoCap
  /\ pc \in {"enter", "started"} => kern.pts["root"][Region(TRAMPOLINE)] # NoCap

Looked(k) == elf.magic /\ Small(k) # 0 /\ Big(k) # 0
AInv == /\ StartInv /\ StageInv /\ CapsInv /\ FramesInv /\ RegionsInv
        /\ pc \in Early \cup Begun => Looked(kern)
        /\ pc = "failed" => ~Enough

-----------------------------------------------------------------------------
(***************************************************************************)
(* What the system calls cost.                                             *)
(***************************************************************************)
\* The untypeds and the root's own page tables are those of the boot.
SameBoot(j, k) ==
  /\ DOMAIN j.untyped = DOMAIN k.untyped
  /\ \A i \in DOMAIN k.untyped : /\ j.untyped[i].units = k.untyped[i].units
                                 /\ j.untyped[i].device = k.untyped[i].device
  /\ \A r \in Regions : j.pts["root"][r] = Image <=> k.pts["root"][r] = Image

\* The untyped that is found is one of the untypeds.
LEMMA FoundFacts ==
    ASSUME NEW k \in Kernels, NEW units \in Nat
    PROVE  LET f == find_free_untyped(k, units) IN
           /\ f # 0 => f \in DOMAIN k.untyped
           /\ f # 0 => /\ k.untyped[f] \in Untypeds /\ k.untyped[f].units \in Nat
                       /\ k.untyped[f].used \in Nat /\ k.untyped[f].used <= k.untyped[f].units
<1> DEFINE S == {i \in DOMAIN k.untyped : /\ ~k.untyped[i].device
                                          /\ k.untyped[i].units >= units}
<1> DEFINE f == find_free_untyped(k, units)
<1>1. f = IF S = {} THEN 0 ELSE CHOOSE i \in S : \A j \in S : i <= j
  BY DEF find_free_untyped
<1>2. k.untyped \in Seq(Untypeds) /\ DOMAIN k.untyped = 1..Len(k.untyped)
  BY KernelTyped DEF Kernels
<1>3. \A i \in DOMAIN k.untyped : k.untyped[i] \in Untypeds
  BY <1>2
<1>4. f # 0 => f \in DOMAIN k.untyped
  <2> SUFFICES ASSUME f # 0 PROVE f \in S
    OBVIOUS
  <2>1. S # {} /\ f = CHOOSE i \in S : \A j \in S : i <= j
    BY <1>1
  <2>2. S \in SUBSET Nat
    BY <1>2
  <2>3. \E i \in S : \A j \in S : i <= j
    BY <2>1, <2>2, LeastOf
  <2> HIDE DEF S, f
  <2> QED
    BY <2>1, <2>3
<1> HIDE DEF S
<1> QED
  BY <1>3, <1>4 DEF Untypeds

\* It depends on nothing that changes.
LEMMA SameFound ==
    ASSUME NEW k, NEW j, SameBoot(j, k), NEW units
    PROVE  find_free_untyped(j, units) = find_free_untyped(k, units)
<1> DEFINE S(x) == {i \in DOMAIN x.untyped : /\ ~x.untyped[i].device
                                             /\ x.untyped[i].units >= units}
<1> DEFINE F(T) == IF T = {} THEN 0 ELSE CHOOSE i \in T : \A l \in T : i <= l
<1>1. S(j) = S(k)
  BY DEF SameBoot
<1>2. find_free_untyped(j, units) = F(S(j)) /\ find_free_untyped(k, units) = F(S(k))
  BY DEF find_free_untyped
<1> HIDE DEF S, F
<1> QED
  BY <1>1, <1>2

LEMMA SameBootTrans ==
    ASSUME NEW i, NEW j, NEW k, SameBoot(i, j), SameBoot(j, k)
    PROVE  SameBoot(i, k)
  BY DEF SameBoot

\* Alignment of even numbers.
LEMMA AlignEven ==
    ASSUME NEW n \in Nat
    PROVE  AlignUp(n, 1) = n /\ AlignUp(2 * n, 2) = 2 * n
<1>1. (n + 1 - 1) \div 1 = n
  BY DivUnique
<1>2. (2 * n + 2 - 1) \div 2 = n
  <2>1. 2 * n + 2 - 1 \in Int /\ 2 * n <= 2 * n + 2 - 1 /\ 2 * n + 2 - 1 < 2 * n + 2
    OBVIOUS
  <2> HIDE DEF AlignUp
  <2> QED
    BY <2>1, DivUnique
<1> QED
  BY <1>1, <1>2 DEF AlignUp

\* When a retype works, and what it takes.
LEMMA RetypeExact ==
    ASSUME NEW k \in Kernels, NEW ut \in DOMAIN k.untyped, NEW ty \in CapTypes,
           NEW slot \in Int, NEW n \in Nat \ {0}
    PROVE  LET r     == Retype(k, ut, ty, slot, n)
               start == AlignUp(k.untyped[ut].used, ObjectUnits(ty))
               dest  == slot..(slot + n - 1)
           IN /\ SameBoot(r.k, k)
              /\ r.ok <=> /\ start + n * ObjectUnits(ty) <= k.untyped[ut].units
                          /\ n <= RetypeFanOut
                          /\ dest \subseteq Slots /\ \A s \in dest : k.caps[s] = "null"
              /\ r.ok => r.k.untyped[ut].used = start + n * ObjectUnits(ty)
              /\ \A i \in DOMAIN k.untyped \ {ut} : r.k.untyped[i] = k.untyped[i]
              /\ ~r.ok => r.k = k
<1> DEFINE start == AlignUp(k.untyped[ut].used, ObjectUnits(ty))
<1> DEFINE dest  == slot..(slot + n - 1)
<1> DEFINE room  == /\ start + n * ObjectUnits(ty) <= k.untyped[ut].units
                    /\ n <= RetypeFanOut
                    /\ dest \subseteq Slots /\ \A s \in dest : k.caps[s] = "null"
<1> DEFINE u == start + n * ObjectUnits(ty)
<1> DEFINE c == [s \in Slots |-> IF s \in dest THEN ty ELSE k.caps[s]]
<1> DEFINE r == Retype(k, ut, ty, slot, n)
<1>1. r = IF room THEN Succeeds([k EXCEPT !.untyped[ut].used = u, !.caps = c]) ELSE Fails(k)
  BY DEF Retype
<1> HIDE DEF r, room
<1>2. k.untyped \in Seq(Untypeds) /\ DOMAIN k.untyped = 1..Len(k.untyped)
  BY KernelTyped DEF Kernels
<1>3. k = [caps |-> k.caps, untyped |-> k.untyped, pts |-> k.pts, vmap |-> k.vmap,
           at |-> k.at, data |-> k.data]
  BY DEF Kernels
<1>4. k.untyped[ut] = [units |-> k.untyped[ut].units, used |-> k.untyped[ut].used,
                       device |-> k.untyped[ut].device]
  BY <1>2 DEF Untypeds
<1>5. CASE ~room
  <2>1. r.k = k /\ r.ok = FALSE
    BY <1>1, <1>5 DEF Fails
  <2> QED
    BY <1>5, <2>1 DEF SameBoot, room, r
<1>6. CASE room
  <2> HIDE DEF u, c
  <2>1. r.k = [k EXCEPT !.untyped[ut].used = u, !.caps = c] /\ r.ok = TRUE
    BY <1>1, <1>6 DEF Succeeds
  <2>2. r.k.untyped = [k.untyped EXCEPT ![ut] = [k.untyped[ut] EXCEPT !.used = u]]
        /\ r.k.pts = k.pts
    BY <1>3, <2>1
  <2>3. DOMAIN r.k.untyped = DOMAIN k.untyped
    BY <2>2
  <2>4. \A i \in DOMAIN k.untyped \ {ut} : r.k.untyped[i] = k.untyped[i]
    BY <2>2
  <2>5. /\ r.k.untyped[ut].units = k.untyped[ut].units
        /\ r.k.untyped[ut].device = k.untyped[ut].device
        /\ r.k.untyped[ut].used = u
    BY <1>4, <2>2
  <2>6. SameBoot(r.k, k)
    BY <2>2, <2>3, <2>4, <2>5 DEF SameBoot
  <2> QED
    BY <1>6, <2>1, <2>4, <2>5, <2>6 DEF room, r, u
<1> QED
  BY <1>5, <1>6

\* The two untypeds a task is made of.
LEMMA FoundBoth ==
    ASSUME NEW k \in Kernels, Looked(k)
    PROVE  /\ Small(k) \in DOMAIN k.untyped /\ Big(k) \in DOMAIN k.untyped
           /\ \A i \in {Small(k), Big(k)} : /\ k.untyped[i].units \in Nat
                                            /\ k.untyped[i].used \in Nat
                                            /\ k.untyped[i].used <= k.untyped[i].units
<1>1. BigUnits \in Nat /\ 2 \in Nat
  BY RunnerConstants
<1> QED
  BY <1>1, FoundFacts DEF Looked, Small, Big

LEMMA SameSizes ==
    ASSUME NEW k \in Kernels, NEW j \in Kernels, SameBoot(j, k)
    PROVE  /\ Small(j) = Small(k) /\ Big(j) = Big(k)
           /\ Looked(k) => Looked(j) /\ \A s, b : Fits(j, s, b) <=> Fits(k, s, b)
<1>1. Small(j) = Small(k) /\ Big(j) = Big(k)
  BY SameFound DEF Small, Big
<1>2. ASSUME Looked(k)
      PROVE  Looked(j) /\ \A s, b : Fits(j, s, b) <=> Fits(k, s, b)
  <2>1. Looked(j)
    BY <1>1, <1>2 DEF Looked
  <2>2. /\ j.untyped[Small(k)].units = k.untyped[Small(k)].units
        /\ j.untyped[Big(k)].units = k.untyped[Big(k)].units
    BY <1>2, FoundBoth DEF SameBoot
  <2> QED
    BY <1>1, <2>1, <2>2 DEF Fits
<1> QED
  BY <1>1, <1>2

\* More fits where less is needed.
LEMMA FitsLess ==
    ASSUME NEW k \in Kernels, Looked(k), NEW s \in Nat, NEW b \in Nat, NEW t \in Nat, NEW c \in Nat,
           Fits(k, s, b), t <= s, c <= b
    PROVE  Fits(k, t, c)
  BY FoundBoth DEF Fits

\* What is spent fits.
LEMMA SpentFits ==
    ASSUME NEW k \in Kernels, Looked(k), NEW s \in Nat, NEW b \in Nat, Spent(k, s, b)
    PROVE  Fits(k, s, b)
  BY FoundBoth DEF Fits, Spent

\* Whatever was taken before, 4K more must be left.
LEMMA MakeBoot ==
    ASSUME NEW k \in Kernels, Looked(k), NEW ty \in {"pt", "frame"}, NEW slot \in Int
    PROVE  LET r == Make(k, ty, slot) IN
           /\ SameBoot(r.k, k)
           /\ r.ok => k.untyped[Small(k)].used + 2 <= k.untyped[Small(k)].units
<1> DEFINE ut == Small(k)
<1> DEFINE r == Make(k, ty, slot)
<1> DEFINE start == AlignUp(k.untyped[ut].used, ObjectUnits(ty))
<1>1. ObjectUnits(ty) = 2 /\ ty \in CapTypes /\ ty # "cnode"
  BY DEF ObjectUnits, CapTypes
<1>2. ut # 0 /\ ut \in DOMAIN k.untyped
  BY FoundBoth DEF Looked
<1>3. r = Retype(k, ut, ty, slot, 1)
  BY <1>1, <1>2 DEF Make, Small
<1>4. /\ SameBoot(r.k, k)
      /\ r.ok <=> /\ start + 1 * 2 <= k.untyped[ut].units
                  /\ 1 <= RetypeFanOut
                  /\ slot..(slot + 1 - 1) \subseteq Slots
                  /\ \A s \in slot..(slot + 1 - 1) : k.caps[s] = "null"
  <2>1. 1 \in Nat \ {0}
    OBVIOUS
  <2>2. /\ SameBoot(Retype(k, ut, ty, slot, 1).k, k)
        /\ Retype(k, ut, ty, slot, 1).ok <=>
              /\ start + 1 * ObjectUnits(ty) <= k.untyped[ut].units
              /\ 1 <= RetypeFanOut
              /\ slot..(slot + 1 - 1) \subseteq Slots
              /\ \A s \in slot..(slot + 1 - 1) : k.caps[s] = "null"
    BY <1>1, <1>2, <2>1, RetypeExact
  <2> HIDE DEF start, r
  <2> QED
    BY <1>1, <1>3, <2>2
<1>5. start \in Nat /\ start >= k.untyped[ut].used
  <2> DEFINE n == k.untyped[ut].used
  <2>1. n \in Nat
    BY FoundBoth
  <2> HIDE DEF n
  <2>2. start = ((n + 2 - 1) \div 2) * 2
    BY <1>1 DEF AlignUp, n
  <2>3. /\ (n + 2 - 1) \div 2 \in Int /\ (n + 2 - 1) % 2 \in 0..1
        /\ n + 2 - 1 = 2 * ((n + 2 - 1) \div 2) + ((n + 2 - 1) % 2)
    BY <2>1, DivFacts
  <2> HIDE DEF start
  <2> QED
    BY <2>1, <2>2, <2>3 DEF n
<1> HIDE DEF start, r
<1>6. k.untyped[ut].used \in Nat /\ k.untyped[ut].units \in Nat
  BY FoundBoth
<1> QED
  BY <1>4, <1>5, <1>6 DEF r

\* A table or a frame for the task itself.
LEMMA MakeExact ==
    ASSUME NEW k \in Kernels, Looked(k), NEW x \in Nat, NEW b \in Nat, Spent(k, 2 * x, 2 * b),
           NEW ty \in {"pt", "frame"}, NEW slot \in Int
    PROVE  LET r == Make(k, ty, slot) IN
           /\ SameBoot(r.k, k)
           /\ r.ok <=> Fits(k, 2 * (x + 1), 2 * b) /\ Empty(k, slot)
           /\ r.ok => Spent(r.k, 2 * (x + 1), 2 * b)
<1> DEFINE ut == Small(k)
<1> DEFINE r == Make(k, ty, slot)
<1> DEFINE start == AlignUp(k.untyped[ut].used, ObjectUnits(ty))
<1>1. ObjectUnits(ty) = 2 /\ ty \in CapTypes /\ ty # "cnode"
  BY DEF ObjectUnits, CapTypes
<1>2. ut # 0 /\ ut \in DOMAIN k.untyped
  BY FoundBoth DEF Looked
<1>3. r = Retype(k, ut, ty, slot, 1)
  BY <1>1, <1>2 DEF Make, Small
<1>4. /\ SameBoot(r.k, k)
      /\ r.ok <=> /\ start + 1 * 2 <= k.untyped[ut].units
                  /\ 1 <= RetypeFanOut
                  /\ slot..(slot + 1 - 1) \subseteq Slots
                  /\ \A s \in slot..(slot + 1 - 1) : k.caps[s] = "null"
      /\ r.ok => r.k.untyped[ut].used = start + 1 * 2
      /\ \A i \in DOMAIN k.untyped \ {ut} : r.k.untyped[i] = k.untyped[i]
  BY <1>1, <1>2, <1>3, RetypeExact
<1>5. start = k.untyped[ut].used
  <2>1. x + b \in Nat /\ k.untyped[ut].used \in {2 * x, 2 * (x + b)}
    BY DEF Spent
  <2> QED
    BY <1>1, <2>1, AlignEven
<1>6. r.k \in Kernels
  BY <1>1, MakeFacts DEF Made
<1> HIDE DEF r, start
<1>7. slot..(slot + 1 - 1) = {slot}
  OBVIOUS
<1>8. 1 <= RetypeFanOut
  BY KernelConstants
<1>9. k.untyped[ut].used + 2 <= k.untyped[ut].units <=> Fits(k, 2 * (x + 1), 2 * b)
  BY FoundBoth DEF Fits, Spent
<1>10. r.ok <=> Fits(k, 2 * (x + 1), 2 * b) /\ Empty(k, slot)
  BY <1>4, <1>5, <1>7, <1>8, <1>9 DEF Empty, HasCap
<1>11. ASSUME r.ok PROVE Spent(r.k, 2 * (x + 1), 2 * b)
  <2>1. Small(r.k) = Small(k) /\ Big(r.k) = Big(k)
    BY <1>4, <1>6, SameSizes
  <2>2. r.k.untyped[ut].used = k.untyped[ut].used + 2
    BY <1>4, <1>5, <1>11
  <2>3. Big(k) # ut => r.k.untyped[Big(k)].used = k.untyped[Big(k)].used
    BY <1>4, FoundBoth
  <2> QED
    BY <2>1, <2>2, <2>3 DEF Spent
<1> QED
  BY <1>4, <1>10, <1>11 DEF r

\* Endpoint and TCB.
UnitMade(r, k, s, ty, slot) ==
  /\ r.k \in Kernels /\ SameBoot(r.k, k) /\ SameMemory(r.k, k)
  /\ r.ok <=> Fits(k, s + 1, 0) /\ Empty(k, slot)
  /\ r.ok => Spent(r.k, s + 1, 0) /\ r.k.caps = [k.caps EXCEPT ![slot] = ty]
LEMMA UnitExact ==
    ASSUME NEW k \in Kernels, Looked(k), NEW s \in Nat, Spent(k, s, 0),
           NEW ty \in {"endpoint", "tcb"}, NEW slot \in Int
    PROVE  UnitMade(Retype(k, Small(k), ty, slot, 1), k, s, ty, slot)
<1> DEFINE ut == Small(k)
<1> DEFINE r == Retype(k, ut, ty, slot, 1)
<1> DEFINE start == AlignUp(k.untyped[ut].used, ObjectUnits(ty))
<1>1. ObjectUnits(ty) = 1 /\ ty \in CapTypes
  BY DEF ObjectUnits, CapTypes
<1>2. ut # 0 /\ ut \in DOMAIN k.untyped
  BY FoundBoth DEF Looked
<1>3. /\ SameBoot(r.k, k)
      /\ r.ok <=> /\ start + 1 * 1 <= k.untyped[ut].units
                  /\ 1 <= RetypeFanOut
                  /\ slot..(slot + 1 - 1) \subseteq Slots
                  /\ \A x \in slot..(slot + 1 - 1) : k.caps[x] = "null"
      /\ r.ok => r.k.untyped[ut].used = start + 1 * 1
      /\ \A i \in DOMAIN k.untyped \ {ut} : r.k.untyped[i] = k.untyped[i]
  BY <1>1, <1>2, RetypeExact
<1>4. start = k.untyped[ut].used
  BY <1>1, FoundBoth, AlignEven
<1>5. Retyped(r, k, ty, slot, 1)
  BY <1>1, RetypeFacts
<1> HIDE DEF r, start
<1>6. slot..(slot + 1 - 1) = {slot}
  OBVIOUS
<1>7. 1 <= RetypeFanOut
  BY KernelConstants
<1>8. k.untyped[ut].used + 1 <= k.untyped[ut].units <=> Fits(k, s + 1, 0)
  BY FoundBoth DEF Fits, Spent
<1>9. r.ok <=> Fits(k, s + 1, 0) /\ Empty(k, slot)
  BY <1>3, <1>4, <1>6, <1>7, <1>8 DEF Empty, HasCap
<1>10. r.k \in Kernels /\ SameMemory(r.k, k)
  BY <1>5 DEF Retyped
<1>11. ASSUME r.ok PROVE Spent(r.k, s + 1, 0)
  <2>1. Small(r.k) = Small(k) /\ Big(r.k) = Big(k)
    BY <1>3, <1>10, SameSizes
  <2>2. r.k.untyped[ut].used = k.untyped[ut].used + 1
    BY <1>3, <1>4, <1>11
  <2>3. Big(k) # ut => r.k.untyped[Big(k)].used = k.untyped[Big(k)].used
    BY <1>3, FoundBoth
  <2> QED
    BY <2>1, <2>2, <2>3 DEF Spent
<1>12. ASSUME r.ok PROVE r.k.caps = [k.caps EXCEPT ![slot] = ty]
  <2>1. k.caps \in [Slots -> CapTypes]
    BY DEF Kernels
  <2>2. r.k.caps = [x \in Slots |-> IF x \in {slot} THEN ty ELSE k.caps[x]]
    BY <1>5, <1>6, <1>12 DEF Retyped
  <2> QED
    BY <2>1, <2>2
<1> QED
  BY <1>3, <1>9, <1>10, <1>11, <1>12 DEF UnitMade, r

\* Frames for the image.
LEMMA BatchExact ==
    ASSUME NEW k \in Kernels, Looked(k), NEW x \in Nat, NEW b \in Nat, Spent(k, 2 * x, 2 * b),
           NEW slot \in Int, NEW n \in 1..RetypeFanOut
    PROVE  LET r == Retype(k, Big(k), "frame", slot, n) IN
           /\ SameBoot(r.k, k)
           /\ r.ok <=> /\ Fits(k, 2 * x, 2 * (b + n))
                       /\ \A s \in slot..(slot + n - 1) : Empty(k, s)
           /\ r.ok => Spent(r.k, 2 * x, 2 * (b + n))
<1> DEFINE ut == Big(k)
<1> DEFINE r == Retype(k, ut, "frame", slot, n)
<1> DEFINE start == AlignUp(k.untyped[ut].used, ObjectUnits("frame"))
<1>1. ObjectUnits("frame") = 2 /\ "frame" \in CapTypes
  BY DEF ObjectUnits, CapTypes
<1>2. ut # 0 /\ ut \in DOMAIN k.untyped
  BY FoundBoth DEF Looked
<1>3. n \in Nat \ {0} /\ n <= RetypeFanOut
  BY KernelConstants
<1>4. /\ SameBoot(r.k, k)
      /\ r.ok <=> /\ start + n * 2 <= k.untyped[ut].units
                  /\ n <= RetypeFanOut
                  /\ slot..(slot + n - 1) \subseteq Slots
                  /\ \A s \in slot..(slot + n - 1) : k.caps[s] = "null"
      /\ r.ok => r.k.untyped[ut].used = start + n * 2
      /\ \A i \in DOMAIN k.untyped \ {ut} : r.k.untyped[i] = k.untyped[i]
  <2> DEFINE e == n * ObjectUnits("frame")
  <2>1. /\ SameBoot(r.k, k)
        /\ r.ok <=> /\ start + e <= k.untyped[ut].units
                    /\ n <= RetypeFanOut
                    /\ slot..(slot + n - 1) \subseteq Slots
                    /\ \A s \in slot..(slot + n - 1) : k.caps[s] = "null"
        /\ r.ok => r.k.untyped[ut].used = start + e
        /\ \A i \in DOMAIN k.untyped \ {ut} : r.k.untyped[i] = k.untyped[i]
    BY <1>1, <1>2, <1>3, RetypeExact
  <2> HIDE DEF r, start, ut
  <2>2. e = n * 2
    BY <1>1
  <2> QED
    BY <2>1, <2>2
<1>5. start = k.untyped[ut].used
  <2>1. x + b \in Nat /\ k.untyped[ut].used \in {2 * b, 2 * (x + b)}
    BY DEF Spent
  <2> QED
    BY <1>1, <2>1, AlignEven
<1>6. r.k \in Kernels
  BY <1>1, <1>3, RetypeFacts DEF Retyped
<1> HIDE DEF r, start
<1>7. k.untyped[ut].used + n * 2 <= k.untyped[ut].units <=> Fits(k, 2 * x, 2 * (b + n))
  BY <1>3, FoundBoth DEF Fits, Spent
<1>8. r.ok <=> Fits(k, 2 * x, 2 * (b + n)) /\ \A s \in slot..(slot + n - 1) : Empty(k, s)
  BY <1>3, <1>4, <1>5, <1>7 DEF Empty, HasCap
<1>9. ASSUME r.ok PROVE Spent(r.k, 2 * x, 2 * (b + n))
  <2>1. Small(r.k) = Small(k) /\ Big(r.k) = Big(k)
    BY <1>4, <1>6, SameSizes
  <2>2. r.k.untyped[ut].used = k.untyped[ut].used + n * 2
    BY <1>4, <1>5, <1>9
  <2>3. Small(k) # ut => r.k.untyped[Small(k)].used = k.untyped[Small(k)].used
    BY <1>4, FoundBoth
  <2> QED
    BY <1>3, <2>1, <2>2, <2>3 DEF Spent
<1> QED
  BY <1>4, <1>8, <1>9 DEF r

\* A frame for the task, mapped.
Framed(r, k, x, b, slot, page) ==
  /\ r.k \in Kernels /\ SameBoot(r.k, k) /\ r.k.pts = k.pts
  /\ r.ok <=> /\ Fits(k, 2 * (x + 1), 2 * b) /\ Empty(k, slot)
              /\ k.pts["root"][Region(page)] # NoCap
  /\ r.ok => Spent(r.k, 2 * (x + 1), 2 * b) /\ r.k.caps = [k.caps EXCEPT ![slot] = "frame"]
LEMMA FrameExact ==
    ASSUME NEW k, Sound(k), Looked(k), NEW x \in Nat, NEW b \in Nat, Spent(k, 2 * x, 2 * b),
           NEW slot \in Int, NEW page \in Pages
    PROVE  Framed(MakeFrame(k, slot, "root", page), k, x, b, slot, page)
<1> DEFINE m == Make(k, "frame", slot)
<1> DEFINE f == Frame_Map(m.k, slot, "root", page)
<1> DEFINE r == MakeFrame(k, slot, "root", page)
<1>1. r = IF m.ok THEN f ELSE m
  BY DEF MakeFrame
<1>2. k \in Kernels /\ "root" \in Spaces /\ "frame" \in CapTypes /\ "frame" # "null"
  BY DEF Sound, Spaces, CapTypes
<1>3. /\ SameBoot(m.k, k)
      /\ m.ok <=> Fits(k, 2 * (x + 1), 2 * b) /\ Empty(k, slot)
      /\ m.ok => Spent(m.k, 2 * (x + 1), 2 * b)
  BY <1>2, MakeExact
<1>4. Made(m, k, "frame", slot)
  BY <1>2, MakeFacts
<1>5. m.ok => HasCap(m.k, slot, "frame") /\ m.k.at[slot] = Nowhere
  BY <1>2, MakeKeeps
<1>6. m.k \in Kernels /\ m.k.pts = k.pts /\ m.ok \in BOOLEAN
  BY <1>4 DEF Made, SameMemory
<1> HIDE DEF m
<1>7. FrameMapped(f, m.k, slot, "root", page)
  BY <1>2, <1>6, FrameMapFacts
<1>8. f.ok <=> CanMap(m.k, slot, "root", page)
  BY DEF Frame_Map, Succeeds, Fails
<1> HIDE DEF f, r
<1>9. f.k \in Kernels /\ f.k.untyped = m.k.untyped /\ f.k.caps = m.k.caps /\ f.k.pts = m.k.pts
  BY <1>7 DEF FrameMapped, SameObjects
<1>10. SameBoot(f.k, k) /\ (m.ok => Spent(f.k, 2 * (x + 1), 2 * b))
  <2>1. SameBoot(f.k, m.k)
    BY <1>9 DEF SameBoot
  <2>2. Small(f.k) = Small(m.k) /\ Big(f.k) = Big(m.k)
    BY <1>6, <1>9, <2>1, SameSizes
  <2>3. SameBoot(f.k, k)
    BY <1>3, <2>1, SameBootTrans
  <2> QED
    BY <1>3, <1>9, <2>2, <2>3 DEF Spent
<1>11. m.ok => (f.ok <=> k.pts["root"][Region(page)] # NoCap)
  BY <1>5, <1>6, <1>8 DEF CanMap
<1>12. m.ok => m.k.caps = [k.caps EXCEPT ![slot] = "frame"]
  BY <1>4 DEF Made
<1>13. r.k \in Kernels /\ SameBoot(r.k, k) /\ r.k.pts = k.pts
  BY <1>1, <1>3, <1>6, <1>9, <1>10
<1>14. r.ok <=> /\ Fits(k, 2 * (x + 1), 2 * b) /\ Empty(k, slot)
                /\ k.pts["root"][Region(page)] # NoCap
  BY <1>1, <1>3, <1>11
<1>15. r.ok => m.ok /\ r = f
  BY <1>1
<1> QED
  BY <1>9, <1>10, <1>12, <1>13, <1>14, <1>15 DEF Framed, r

\* A page table in a new slot, mapped if there is none.
TableBuilt(m, t, k, slot, region) ==
  /\ m.k \in Kernels /\ t.k \in Kernels /\ SameBoot(t.k, k) /\ m.ok \in BOOLEAN
  /\ t.k.untyped = m.k.untyped
  /\ m.ok => k.untyped[Small(k)].used + 2 <= k.untyped[Small(k)].units
  /\ m.ok => /\ Empty(k, slot) /\ t.k.caps = [k.caps EXCEPT ![slot] = "pt"]
             /\ t.ok <=> k.pts["root"][region] = NoCap
             /\ t.k.pts["root"][region] # NoCap
             /\ t.ok => t.k.pts["root"][region] = slot
  /\ ~m.ok => m.k = k /\ t.k.caps = k.caps
  /\ \A r \in Regions \ {region} : t.k.pts["root"][r] = k.pts["root"][r]
LEMMA TableBoot ==
    ASSUME NEW k, Sound(k), Looked(k), NEW slot \in Int, NEW region \in Regions
    PROVE  LET m == Make(k, "pt", slot) IN
           TableBuilt(m, PageTable_Map(m.k, slot, "root", region), k, slot, region)
<1> DEFINE m == Make(k, "pt", slot)
<1> DEFINE t == PageTable_Map(m.k, slot, "root", region)
<1>1. k \in Kernels /\ "root" \in Spaces /\ "pt" \in CapTypes /\ "pt" # "null"
  BY DEF Sound, Spaces, CapTypes
<1>2. /\ SameBoot(m.k, k)
      /\ m.ok => k.untyped[Small(k)].used + 2 <= k.untyped[Small(k)].units
  BY <1>1, MakeBoot
<1>3. Made(m, k, "pt", slot)
  BY <1>1, MakeFacts
<1>4. m.ok => HasCap(m.k, slot, "pt") /\ m.k.at[slot] = Nowhere
  BY <1>1, MakeKeeps
<1>5. m.k \in Kernels /\ m.k.pts = k.pts /\ m.ok \in BOOLEAN /\ (~m.ok => m.k = k)
  BY <1>3 DEF Made, SameMemory
<1> HIDE DEF m
<1>6. TableMapped(t, m.k, slot, "root", region)
  BY <1>1, <1>5, PageTableMapFacts
<1>7. t.ok <=> HasCap(m.k, slot, "pt") /\ m.k.at[slot] = Nowhere /\ m.k.pts["root"][region] = NoCap
  BY DEF PageTable_Map, Succeeds, Fails
<1> HIDE DEF t
<1>8. /\ t.k \in Kernels /\ t.k.untyped = m.k.untyped /\ t.k.caps = m.k.caps
      /\ ~t.ok => t.k = m.k
      /\ t.ok => t.k.pts = [m.k.pts EXCEPT !["root"][region] = slot] /\ slot \in Slots
  BY <1>6 DEF TableMapped, SameObjects
<1>9. m.k.pts \in [Spaces -> [Regions -> Slots \cup {NoCap, Image}]]
  BY <1>5 DEF Kernels
<1>10. \A r \in Regions : t.k.pts["root"][r] = IF t.ok /\ r = region THEN slot ELSE k.pts["root"][r]
  <2>1. CASE t.ok
    BY <1>1, <1>5, <1>8, <1>9, <2>1
  <2>2. CASE ~t.ok
    BY <1>5, <1>8, <2>2
  <2> QED
    BY <2>1, <2>2
<1>11. t.ok => k.pts["root"][region] = NoCap /\ slot # Image /\ slot # NoCap
  BY <1>5, <1>7, <1>8, SlotFacts
<1>12. SameBoot(t.k, k)
  <2>1. \A r \in Regions : t.k.pts["root"][r] = Image <=> k.pts["root"][r] = Image
    BY <1>10, <1>11, SlotFacts
  <2> QED
    BY <1>2, <1>8, <2>1 DEF SameBoot
<1>13. m.ok => Empty(k, slot) /\ t.k.caps = [k.caps EXCEPT ![slot] = "pt"]
  BY <1>3, <1>8 DEF Made, Empty, HasCap
<1>14. m.ok => (t.ok <=> k.pts["root"][region] = NoCap)
  BY <1>4, <1>5, <1>7
<1>15. m.ok => t.k.pts["root"][region] # NoCap
  BY <1>10, <1>11, <1>14
<1>16. t.ok => t.k.pts["root"][region] = slot
  BY <1>10
<1>17. ~m.ok => m.k = k /\ t.k.caps = k.caps
  BY <1>5, <1>8
<1> QED
  BY <1>2, <1>5, <1>8, <1>10, <1>12, <1>13, <1>14, <1>15, <1>16, <1>17 DEF TableBuilt, m, t

\* What the table takes.
LEMMA TableExact ==
    ASSUME NEW k, Sound(k), Looked(k), NEW x \in Nat, NEW b \in Nat, Spent(k, 2 * x, 2 * b),
           NEW slot \in Int, NEW region \in Regions
    PROVE  LET m == Make(k, "pt", slot)
               t == PageTable_Map(m.k, slot, "root", region) IN
           /\ m.ok <=> Fits(k, 2 * (x + 1), 2 * b) /\ Empty(k, slot)
           /\ m.ok => Spent(t.k, 2 * (x + 1), 2 * b)
<1> DEFINE m == Make(k, "pt", slot)
<1> DEFINE t == PageTable_Map(m.k, slot, "root", region)
<1>1. k \in Kernels
  BY DEF Sound
<1>2. /\ SameBoot(m.k, k)
      /\ m.ok <=> Fits(k, 2 * (x + 1), 2 * b) /\ Empty(k, slot)
      /\ m.ok => Spent(m.k, 2 * (x + 1), 2 * b)
  BY <1>1, MakeExact
<1>3. TableBuilt(m, t, k, slot, region)
  BY TableBoot
<1> HIDE DEF m, t
<1>4. m.k \in Kernels /\ t.k \in Kernels /\ SameBoot(t.k, k) /\ t.k.untyped = m.k.untyped
  BY <1>3 DEF TableBuilt
<1>5. Small(t.k) = Small(k) /\ Big(t.k) = Big(k) /\ Small(m.k) = Small(k) /\ Big(m.k) = Big(k)
  BY <1>1, <1>2, <1>4, SameSizes
<1>6. m.ok => Spent(t.k, 2 * (x + 1), 2 * b)
  BY <1>2, <1>4, <1>5 DEF Spent
<1> QED
  BY <1>2, <1>6 DEF m, t

\* Popping n slots.
LEMMA PopSlots ==
    ASSUME NEW st \in Seq(Slots), NEW p \in Nat, OnStack(st, p), NEW n \in 0..Len(st)
    PROVE  OnStack(SubSeq(st, 1, Len(st) - n), p + n)
<1> DEFINE w == SubSeq(st, 1, Len(st) - n)
<1>1. Len(st) \in Nat /\ n \in Nat /\ DOMAIN st = 1..Len(st) /\ n <= Len(st) /\ NSlots \in Int
  BY LenProperties, KernelConstants DEF NSlots
<1>2. \A i \in 1..(Len(st) - n) : i \in 1..Len(st) /\ st[i] \in Slots
  BY <1>1, ElementOfSeq
<1>3. Len(st) - n \in Int /\ 1 \in Int
  BY <1>1
<1>4. /\ Len(w) = IF 1 <= Len(st) - n THEN (Len(st) - n) - 1 + 1 ELSE 0
      /\ \A i \in 1..((Len(st) - n) - 1 + 1) : w[i] = st[1 + i - 1]
  BY <1>2, <1>3, SubSeqProperties
<1> HIDE DEF w
<1>5. Len(w) = Len(st) - n /\ \A i \in 1..Len(w) : w[i] = st[i]
  <2>1. Len(w) = Len(st) - n
    <3>1. Len(w) = IF 1 <= Len(st) - n THEN (Len(st) - n) - 1 + 1 ELSE 0
      BY <1>4
    <3>2. \A l, m \in Nat : m <= l /\ ~(1 <= l - m) => l - m = 0
      OBVIOUS
    <3>3. ~(1 <= Len(st) - n) => Len(st) - n = 0
      BY <1>1, <3>2
    <3>4. (Len(st) - n) - 1 + 1 = Len(st) - n
      BY <1>1
    <3> QED
      BY <3>1, <3>3, <3>4
  <2>2. ASSUME NEW i \in 1..Len(w) PROVE w[i] = st[i]
    <3>1. i \in 1..((Len(st) - n) - 1 + 1) /\ 1 + i - 1 = i
      BY <1>1, <2>1
    <3> QED
      BY <1>4, <3>1
  <2> QED
    BY <2>1, <2>2
<1>6. \A i \in 1..Len(w) : w[i] = StackSlot(i)
  BY <1>2, <1>5 DEF OnStack
<1>7. Len(w) = 2 * NSlots - 6 - (p + n)
  BY <1>1, <1>5 DEF OnStack
<1> QED
  BY <1>6, <1>7 DEF OnStack, w

\* The slot on top of the allocator's stack: the first empty one, or the last
\* of all, which is taken.
LEMMA TopSlot ==
    ASSUME NEW st \in Seq(Slots), NEW k \in Kernels, NEW q \in Nat, Taken(k, q), OnStack(st, q),
           q > 0 \/ 6 < NSlots
    PROVE  /\ alloc_ok(st) /\ alloc(st) \in Slots
           /\ Empty(k, alloc(st)) <=> 6 + q < NSlots
           /\ 6 + q < NSlots => alloc(st) = FirstSlot + 6 + q
           /\ OnStack(after_alloc(st), q + 1)
<1>1. NSlots \in Nat /\ 6 + q <= NSlots /\ EndSlot = FirstSlot + NSlots /\ FirstSlot \in Nat
  BY KernelConstants DEF NSlots, Taken
<1>2. Len(st) = 2 * NSlots - 6 - q /\ \A i \in 1..Len(st) : st[i] = StackSlot(i)
  BY DEF OnStack
<1>3. Len(st) \in Nat /\ Len(st) >= NSlots /\ Len(st) >= 1
  BY <1>1, <1>2
<1>4. alloc_ok(st) /\ alloc(st) = st[Len(st)]
  BY <1>3 DEF alloc_ok, alloc
<1>5. alloc(st) = StackSlot(2 * NSlots - 6 - q)
  BY <1>2, <1>3, <1>4
<1>6. alloc(st) \in Slots
  BY <1>3, <1>4
<1>7. 6 + q < NSlots => alloc(st) = FirstSlot + 6 + q
  BY <1>1, <1>5 DEF StackSlot
<1>8. 6 + q = NSlots => alloc(st) = FirstSlot + 5 + q
  BY <1>1, <1>5 DEF StackSlot
<1>9. Empty(k, alloc(st)) <=> 6 + q < NSlots
  <2>1. CASE 6 + q < NSlots
    <3>1. alloc(st) \in (FirstSlot + 6 + q)..(EndSlot - 1)
      BY <1>1, <1>7, <2>1
    <3> QED
      BY <1>6, <2>1, <3>1 DEF Taken, Empty, HasCap
  <2>2. CASE ~(6 + q < NSlots)
    <3>1. 6 + q = NSlots
      BY <1>1, <2>2
    <3>2. alloc(st) \in (FirstSlot + 6)..(FirstSlot + 5 + q)
      BY <1>1, <1>8, <3>1
    <3> QED
      BY <2>2, <3>2 DEF Taken, Empty, HasCap
  <2> QED
    BY <2>1, <2>2
<1>10. OnStack(after_alloc(st), q + 1)
  BY <1>3, PopSlots DEF after_alloc
<1> QED
  BY <1>4, <1>6, <1>7, <1>9, <1>10

\* It is filled.
LEMMA TakeSlot ==
    ASSUME NEW k \in Kernels, NEW q \in Nat, Taken(k, q), 6 + q < NSlots, NEW ty, ty # "null",
           NEW j \in Kernels, j.caps = [k.caps EXCEPT ![FirstSlot + 6 + q] = ty]
    PROVE  Taken(j, q + 1)
<1>1. NSlots \in Nat /\ EndSlot = FirstSlot + NSlots /\ FirstSlot \in Nat
  BY KernelConstants DEF NSlots
<1>2. k.caps \in [Slots -> CapTypes]
  BY DEF Kernels
<1>3. FirstSlot + 6 + q \in Slots /\ j.caps[FirstSlot + 6 + q] = ty
  BY <1>1, <1>2 DEF Slots
<1>4. \A s \in Slots : s # FirstSlot + 6 + q => j.caps[s] = k.caps[s]
  BY <1>2
<1>5. ASSUME NEW s \in (FirstSlot + 6)..(FirstSlot + 5 + (q + 1))
      PROVE  j.caps[s] # "null"
  <2>1. s = FirstSlot + 6 + q \/ (s \in (FirstSlot + 6)..(FirstSlot + 5 + q) /\ s # FirstSlot + 6 + q)
    BY <1>1
  <2>2. s \in Slots
    BY <1>1 DEF Slots
  <2> QED
    BY <1>3, <1>4, <2>1, <2>2 DEF Taken
<1>6. ASSUME NEW s \in (FirstSlot + 6 + (q + 1))..(EndSlot - 1)
      PROVE  j.caps[s] = "null"
  <2>1. s \in (FirstSlot + 6 + q)..(EndSlot - 1) /\ s # FirstSlot + 6 + q /\ s \in Slots
    BY <1>1 DEF Slots
  <2> QED
    BY <1>4, <2>1 DEF Taken
<1>7. 6 + (q + 1) <= NSlots
  BY <1>1
<1> QED
  BY <1>5, <1>6, <1>7 DEF Taken

\* A slot among the six fixed ones is none of those after them.
LEMMA FixedSlot ==
    ASSUME NEW k \in Kernels, NEW q \in Nat, Taken(k, q), NEW ty,
           NEW slot \in FirstSlot..(FirstSlot + 5),
           NEW j \in Kernels, j.caps = [k.caps EXCEPT ![slot] = ty]
    PROVE  Taken(j, q)
<1>1. NSlots \in Nat /\ EndSlot = FirstSlot + NSlots /\ FirstSlot \in Nat /\ 6 + q <= NSlots
  BY KernelConstants DEF NSlots, Taken
<1>2. k.caps \in [Slots -> CapTypes]
  BY DEF Kernels
<1>3. \A s \in Slots : s # slot => j.caps[s] = k.caps[s]
  BY <1>2
<1>4. \A s \in (FirstSlot + 6)..(EndSlot - 1) : j.caps[s] = k.caps[s]
  BY <1>1, <1>3 DEF Slots
<1>5. \A s \in (FirstSlot + 6)..(FirstSlot + 5 + q) : s \in (FirstSlot + 6)..(EndSlot - 1)
  BY <1>1
<1>6. \A s \in (FirstSlot + 6 + q)..(EndSlot - 1) : s \in (FirstSlot + 6)..(EndSlot - 1)
  BY <1>1
<1> QED
  BY <1>1, <1>4, <1>5, <1>6 DEF Taken

\* Other slots keep what is in them.
LEMMA OtherSlot ==
    ASSUME NEW k \in Kernels, NEW slot, NEW ty, NEW j \in Kernels,
           j.caps = [k.caps EXCEPT ![slot] = ty], NEW other, other # slot, NEW x, HasCap(k, other, x)
    PROVE  HasCap(j, other, x)
<1>1. k.caps \in [Slots -> CapTypes]
  BY DEF Kernels
<1> QED
  BY <1>1 DEF HasCap

-----------------------------------------------------------------------------
(***************************************************************************)
(* What the function needs.                                                *)
(***************************************************************************)
Served(k, r) == k.pts["root"][r] = Image \/ r \in TablesNeeded \cup {Region(STACK)}
SlotNeed == 6 + Cardinality(TablesNeeded) + Cardinality(ImagePages) + STACK_EXTRA_PAGES + 2
EnoughFor(k) ==
  /\ Looked(k) /\ PtLoads # <<>>
  /\ Fits(k, SmallNeed, BigNeed) /\ SlotNeed <= NSlots
  /\ k.pts["root"][Region(STACK)] # Image /\ Region(STACK) \notin TablesNeeded
  /\ Served(k, Region(TLS_BASE)) /\ Served(k, Region(TRAMPOLINE))

LEMMA EnoughIs == Enough <=> EnoughFor(kern)
  BY DEF Enough, EnoughFor, Looked, Fits, Small, Big, SlotNeed, NSlots, Served

\* No step changes what is needed or what there is.
LEMMA SameNeeds ==
    ASSUME UNCHANGED inputs
    PROVE  /\ TablesNeeded' = TablesNeeded /\ SmallNeed' = SmallNeed /\ BigNeed' = BigNeed
           /\ SlotNeed' = SlotNeed /\ PtLoads' = PtLoads /\ elf' = elf
           /\ ImagePages' = ImagePages
<1>1. /\ Loads' = Loads /\ Segments' = Segments /\ ImagePages' = ImagePages
      /\ PtLoads' = PtLoads /\ elf' = elf
  BY SameInputs
<1>2. TablesNeeded' = TablesNeeded
  BY <1>1 DEF TablesNeeded
<1> QED
  BY <1>1, <1>2 DEF SmallNeed, BigNeed, SlotNeed

LEMMA SameEnough ==
    ASSUME UNCHANGED inputs, kern \in Kernels, kern' \in Kernels, SameBoot(kern', kern)
    PROVE  /\ Enough' <=> Enough
           /\ Looked(kern) => (Looked(kern))'
<1>1. /\ TablesNeeded' = TablesNeeded /\ SmallNeed' = SmallNeed /\ BigNeed' = BigNeed
      /\ SlotNeed' = SlotNeed /\ PtLoads' = PtLoads /\ elf' = elf
  BY SameNeeds
<1>2. /\ Small(kern') = Small(kern) /\ Big(kern') = Big(kern)
      /\ Looked(kern) => Looked(kern') /\ \A s, b : Fits(kern', s, b) <=> Fits(kern, s, b)
  BY SameSizes
<1>3. (Looked(kern))' <=> Looked(kern)
  BY <1>1, <1>2 DEF Looked
<1>4. /\ Region(STACK) \in Regions /\ Region(TLS_BASE) \in Regions
      /\ Region(TRAMPOLINE) \in Regions
  BY LayoutFacts, RegionFacts
<1>5. \A r \in Regions : kern'.pts["root"][r] = Image <=> kern.pts["root"][r] = Image
  BY DEF SameBoot
<1>6. \A r \in Regions : (Served(kern, r))' <=> Served(kern, r)
  BY <1>1, <1>5 DEF Served
<1>7. Looked(kern) => ((Fits(kern, SmallNeed, BigNeed))' <=> Fits(kern, SmallNeed, BigNeed))
  <2>1. (Fits(kern, SmallNeed, BigNeed))' = Fits(kern', SmallNeed', BigNeed')
    BY DEF Fits, Small, Big
  <2> QED
    BY <1>1, <1>2, <2>1
<1>8. (EnoughFor(kern))' <=> EnoughFor(kern)
  BY <1>1, <1>3, <1>4, <1>5, <1>6, <1>7 DEF EnoughFor
<1>9. Enough' <=> (EnoughFor(kern))'
  BY DEF Enough, EnoughFor, Looked, Fits, Small, Big, SlotNeed, NSlots, Served
<1> QED
  BY <1>3, <1>8, <1>9, EnoughIs

\* Counting tables.
LEMMA TableCount ==
    ASSUME IInv, PtLoads # <<>>
    PROVE  /\ TablesNeeded \subseteq Regions /\ TablesNeeded = AllRegions \cup {Region(LOAD_BASE)}
           /\ Cardinality(TablesNeeded) \in Nat /\ Cardinality(TablesNeeded) >= 1
           /\ Tables \in Nat /\ IsFiniteSet(mapped_pts)
           /\ mapped_pts \subseteq TablesNeeded => Tables <= Cardinality(TablesNeeded)
           /\ Region(LOAD_BASE) \in mapped_pts => Tables >= 1
           /\ \A r \in TablesNeeded \ mapped_pts :
                mapped_pts \subseteq TablesNeeded => Tables + 1 <= Cardinality(TablesNeeded)
           /\ \A r : r \notin mapped_pts => Cardinality(mapped_pts \cup {r}) = Tables + 1
<1>1. elf \in Elves /\ mapped_pts \subseteq Regions
  BY DEF IInv, Shapes
<1>2. TablesNeeded = AllRegions \cup {Region(LOAD_BASE)}
  BY DEF TablesNeeded, AllRegions
<1>3. AllRegions \subseteq Regions
  BY <1>1, InfosFacts
<1>4. LOAD_BASE \in Pages /\ Region(LOAD_BASE) \in Regions
  BY LayoutFacts, RegionFacts
<1>5. TablesNeeded \subseteq Regions
  BY <1>2, <1>3, <1>4
<1>6. IsFiniteSet(Regions)
  <2>1. LastPage \in Pages
    BY KernelConstants DEF Pages
  <2>2. Region(LastPage) \in Nat
    BY <2>1, RegionFacts DEF Regions
  <2> QED
    BY <2>2, FS_Interval DEF Regions
<1>7. IsFiniteSet(TablesNeeded) /\ IsFiniteSet(mapped_pts)
  BY <1>1, <1>5, <1>6, FS_Subset
<1>8. Cardinality(TablesNeeded) \in Nat /\ Tables \in Nat
  BY <1>7, FS_CardinalityType DEF Tables
<1>9. mapped_pts \subseteq TablesNeeded => Tables <= Cardinality(TablesNeeded)
  BY <1>7, FS_Subset DEF Tables
<1>10. Cardinality(TablesNeeded) >= 1
  <2>1. TablesNeeded # {}
    BY <1>2
  <2> QED
    BY <1>7, <1>8, <2>1, FS_EmptySet
<1>11. Region(LOAD_BASE) \in mapped_pts => Tables >= 1
  <2> SUFFICES ASSUME mapped_pts # {} PROVE Tables >= 1
    OBVIOUS
  <2> QED
    BY <1>7, <1>8, FS_EmptySet DEF Tables
<1>12. \A r : r \notin mapped_pts => Cardinality(mapped_pts \cup {r}) = Tables + 1
  BY <1>7, FS_AddElement DEF Tables
<1>13. ASSUME NEW r \in TablesNeeded \ mapped_pts, mapped_pts \subseteq TablesNeeded
       PROVE  Tables + 1 <= Cardinality(TablesNeeded)
  <2>1. Cardinality(mapped_pts \cup {r}) = Tables + 1
    BY <1>12
  <2>2. mapped_pts \cup {r} \in SUBSET TablesNeeded
    BY <1>13
  <2>3. Cardinality(mapped_pts \cup {r}) <= Cardinality(TablesNeeded)
    BY <1>7, <2>2, FS_Subset
  <2> QED
    BY <2>1, <2>3
<1> QED
  BY <1>2, <1>5, <1>7, <1>8, <1>9, <1>10, <1>11, <1>12, <1>13

\* The plan has an entry for each page of the image.
LEMMA PageCount ==
    ASSUME elf \in Elves, PtLoads # <<>>
    PROVE  /\ Len(Infos(Segments)) = Cardinality(ImagePages)
           /\ Cardinality(ImagePages) \in Nat
<1> DEFINE w == Infos(Segments)
<1> DEFINE f == [j \in 1..Len(w) |-> w[j].page]
<1>1. /\ w \in Seq(InfoType)
      /\ \A j \in DOMAIN w : w[j].page \in ImagePages
      /\ \A p \in ImagePages : \E j \in DOMAIN w : w[j].page = p
      /\ \A i, j \in DOMAIN w : w[i].page = w[j].page => i = j
  BY InfosFacts
<1> HIDE DEF w
<1>2. Len(w) \in Nat /\ DOMAIN w = 1..Len(w)
  BY <1>1
<1>3. f \in [1..Len(w) -> ImagePages]
  BY <1>1, <1>2
<1>4. \A i, j \in 1..Len(w) : f[i] = f[j] => i = j
  BY <1>1, <1>2
<1>5. \A p \in ImagePages : \E j \in 1..Len(w) : f[j] = p
  BY <1>1, <1>2
<1> HIDE DEF f
<1>6. f \in Bijection(1..Len(w), ImagePages)
  BY <1>3, <1>4, <1>5 DEF Bijection, Injection, Surjection, IsInjective
<1>7. ExistsBijection(1..Len(w), ImagePages)
  BY <1>6 DEF ExistsBijection
<1>8. IsFiniteSet(1..Len(w)) /\ Cardinality(1..Len(w)) = Len(w)
  <2>1. 1 \in Int /\ Len(w) \in Int
    BY <1>2
  <2>2. /\ IsFiniteSet(1..Len(w))
        /\ Cardinality(1..Len(w)) = IF 1 > Len(w) THEN 0 ELSE Len(w) - 1 + 1
    BY <2>1, FS_Interval
  <2> QED
    BY <1>2, <2>2
<1>9. Cardinality(ImagePages) = Len(w)
  BY <1>7, <1>8, FS_Bijection
<1> QED
  BY <1>2, <1>9 DEF w

\* What enough means for the steps.
Affordable(t, n) ==
  /\ PtLoads # <<>> /\ Looked(kern) /\ t \in Nat /\ n \in Nat /\ Extra \in Nat
  /\ NSlots \in Nat /\ 8 + t + n + Extra <= NSlots
  /\ \A s, b \in Nat : s <= t + Extra + 6 /\ b <= n => Fits(kern, 2 * s, 2 * b)
LEMMA EnoughUse ==
    ASSUME IInv, Enough
    PROVE  Affordable(Cardinality(TablesNeeded), Cardinality(ImagePages))
<1> DEFINE t == Cardinality(TablesNeeded)
<1> DEFINE n == Cardinality(ImagePages)
<1>1. kern \in Kernels /\ elf \in Elves
  BY DEF IInv, Shapes, Sound
<1>2. /\ Looked(kern) /\ PtLoads # <<>> /\ Fits(kern, SmallNeed, BigNeed) /\ SlotNeed <= NSlots
  BY EnoughIs DEF EnoughFor
<1>3. t \in Nat
  BY <1>2, TableCount
<1>4. n \in Nat
  BY <1>1, <1>2, PageCount
<1>5. Extra \in Nat /\ NSlots \in Nat
  BY LayoutFacts, KernelConstants DEF Extra, NSlots
<1> HIDE DEF t, n
<1>6. SmallNeed = 2 * (t + Extra + 6) /\ BigNeed = 2 * n
  BY <1>3, <1>4, <1>5 DEF SmallNeed, BigNeed, Extra, t, n
<1>7. 8 + t + n + Extra <= NSlots
  BY <1>2, <1>3, <1>4, <1>5 DEF SlotNeed, Extra, t, n
<1>8. ASSUME NEW s \in Nat, NEW b \in Nat, s <= t + Extra + 6, b <= n
      PROVE  Fits(kern, 2 * s, 2 * b)
  <2>1. 2 * s \in Nat /\ 2 * b \in Nat /\ SmallNeed \in Nat /\ BigNeed \in Nat
    BY <1>3, <1>4, <1>5, <1>6
  <2>2. 2 * s <= SmallNeed /\ 2 * b <= BigNeed
    BY <1>3, <1>4, <1>5, <1>6, <1>8
  <2> QED
    BY <1>1, <1>2, <2>1, <2>2, FitsLess
<1> QED
  BY <1>2, <1>3, <1>4, <1>5, <1>7, <1>8 DEF Affordable, t, n

LEMMA AffordableOne ==
    ASSUME NEW t, NEW n, Affordable(t, n)
    PROVE  NSlots \in Nat /\ 8 <= NSlots /\ Fits(kern, 2 * 1, 2 * 0)
<1>1. \A s, b \in Nat : s <= t + Extra + 6 /\ b <= n => Fits(kern, 2 * s, 2 * b)
  BY DEF Affordable
<1>2. 1 \in Nat /\ 0 \in Nat /\ 1 <= t + Extra + 6 /\ 0 <= n /\ NSlots \in Nat /\ 8 <= NSlots
  BY DEF Affordable
<1>3. Fits(kern, 2 * 1, 2 * 0)
  BY <1>1, <1>2, Zenon
<1> QED
  BY <1>2, <1>3

\* The function ends without having started anything.
LEMMA EndStep ==
    ASSUME pc' \in Ends, pc' = "failed" => ~Enough'
    PROVE  AInv'
<1>1. pc' \notin {"parse"} \cup Early \cup Begun
  BY DEF Ends, Early, Begun, Tabled, Planned, Imaged, Stacked, Furnished
<1>2. StartInv'
  BY <1>1 DEF StartInv, Early
<1>3. StageInv'
  BY <1>1 DEF StageInv, Begun, Tabled, Planned, Imaged, Stacked, Furnished
<1>4. CapsInv' /\ FramesInv'
  BY <1>1 DEF CapsInv, FramesInv, Early, Begun, Tabled, Planned, Imaged, Stacked, Furnished
<1>5. RegionsInv'
  BY <1>1 DEF RegionsInv, Early, Begun, Tabled, Planned, Imaged, Stacked, Furnished
<1> QED
  BY <1>1, <1>2, <1>3, <1>4, <1>5 DEF AInv

\* A failed step leaves the needs and what there is as they are.
LEMMA FailStep ==
    ASSUME IInv, pc' = "failed", UNCHANGED inputs, kern' \in Kernels, SameBoot(kern', kern), ~Enough
    PROVE  AInv'
<1>1. kern \in Kernels
  BY DEF IInv, Sound
<1> QED
  BY <1>1, SameEnough, EndStep DEF Ends

LEMMA InitAccount == Init => AInv
<1> SUFFICES ASSUME Init PROVE AInv
  OBVIOUS
<1>1. PICK m \in Memories, t \in RootTables, image \in RootImages : kern = Booted(m, t, image)
  BY DEF Init
<1>2. /\ kern.caps = [s \in Slots |-> "null"] /\ kern.untyped = m
      /\ kern.pts["root"] = [r \in Regions |-> IF r \in t THEN Image ELSE NoCap]
  BY <1>1 DEF Booted, Spaces
<1>3. pc = "parse" /\ mapped_pts = {} /\ recycled = [i \in 1..NSlots |-> FirstSlot + i - 1]
  BY DEF Init, NSlots
<1>4. \A s \in Slots : Empty(kern, s)
  BY <1>2 DEF Empty, HasCap
<1>5. \A i \in DOMAIN kern.untyped : kern.untyped[i].used = 0
  BY <1>2, RunnerMemory
<1>6. \A r \in Regions : kern.pts["root"][r] \notin Slots
  BY <1>2, SlotFacts
<1>7. pc \notin Early \cup Begun /\ pc \notin Ends
  BY <1>3 DEF Ends, Early, Begun, Tabled, Planned, Imaged, Stacked, Furnished
<1>8. StartInv
  BY <1>3, <1>4, <1>5, <1>7 DEF StartInv
<1>9. StageInv /\ CapsInv /\ FramesInv
  BY <1>3 DEF StageInv, CapsInv, FramesInv, Begun, Tabled, Planned, Imaged, Stacked, Furnished
<1>10. RegionsInv
  BY <1>3, <1>6, <1>7 DEF RegionsInv, Begun
<1> QED
  BY <1>3, <1>7, <1>8, <1>9, <1>10 DEF AInv

-----------------------------------------------------------------------------
(***************************************************************************)
(* The account step by step, up to the page tables.                        *)
(***************************************************************************)
LEMMA EarlyAccount ==
    ASSUME pc' \in Early, StartInv', (Looked(kern))', mapped_pts' = {},
           \A r \in Regions : kern'.pts["root"][r] \notin Slots,
           pc' \in {"tcb", "pt_load"} => HasCap(kern', fault_ep_slot, "endpoint"),
           pc' = "pt_load" => HasCap(kern', tcb_slot, "tcb")
    PROVE  AInv'
<1>1. pc' \notin Begun /\ pc' \notin Ends
  BY DEF Ends, Early, Begun, Tabled, Planned, Imaged, Stacked, Furnished
<1>2. StageInv' /\ FramesInv'
  BY <1>1 DEF StageInv, FramesInv, Begun, Tabled, Planned, Imaged, Stacked, Furnished
<1>3. CapsInv'
  BY <1>1 DEF CapsInv, Begun, Tabled, Planned, Imaged, Stacked, Furnished
<1>4. RegionsInv'
  BY <1>1 DEF RegionsInv, Begun, Tabled, Planned, Imaged, Stacked, Furnished
<1> QED
  BY <1>1, <1>2, <1>3, <1>4 DEF AInv, Ends

\* Before the first table nothing of the task is mapped.
LEMMA EarlyFacts ==
    ASSUME AInv, pc \in {"parse"} \cup Early
    PROVE  mapped_pts = {} /\ \A r \in Regions : kern.pts["root"][r] \notin Slots
<1>1. pc \notin Ends /\ pc \notin Tabled
  BY DEF Ends, Early, Tabled, Planned, Imaged, Stacked, Furnished
<1> QED
  BY <1>1 DEF AInv, RegionsInv

LEMMA ParseAccount ==
    ASSUME IInv, AInv, Parse
    PROVE  AInv'
<1>1. pc = "parse" /\ kern' = kern /\ UNCHANGED inputs /\ mapped_pts' = mapped_pts
  BY DEF Parse, plan
<1>2. kern \in Kernels
  BY DEF IInv, Sound
<1>3. SameBoot(kern', kern)
  BY <1>1 DEF SameBoot
<1>4. CASE elf.magic /\ PtLoads # <<>>
           /\ find_free_untyped(kern, BigUnits) # 0 /\ find_free_untyped(kern, 2) # 0
  <2>1. pc' = "endpoint" /\ recycled' = recycled \o RemainingSlots
    BY <1>4 DEF Parse, extend_slot
  <2>2. Looked(kern)
    BY <1>4 DEF Looked, Small, Big
  <2>3. (Looked(kern))'
    BY <1>1, <1>2, <1>3, <2>2, SameEnough
  <2>4. /\ \A i \in DOMAIN kern.untyped : kern.untyped[i].used = 0
        /\ \A s \in Slots : Empty(kern, s)
        /\ recycled = [i \in 1..NSlots |-> FirstSlot + i - 1]
    BY <1>1 DEF AInv, StartInv
  <2>5. StartInv'
    BY <1>1, <2>1, <2>4 DEF StartInv, RemainingSlots
  <2>6. mapped_pts = {} /\ \A r \in Regions : kern.pts["root"][r] \notin Slots
    BY <1>1, EarlyFacts
  <2> QED
    BY <1>1, <2>1, <2>3, <2>5, <2>6, EarlyAccount DEF Early
<1>5. CASE ~(elf.magic /\ PtLoads # <<>>
             /\ find_free_untyped(kern, BigUnits) # 0 /\ find_free_untyped(kern, 2) # 0)
  <2>1. pc' = "failed"
    BY <1>5 DEF Parse
  <2>2. ~Enough
    BY <1>5 DEF Enough
  <2> QED
    BY <1>1, <1>2, <1>3, <2>1, <2>2, FailStep
<1> QED
  BY <1>4, <1>5

LEMMA FixedSlots ==
    /\ {tcb_slot, fault_ep_slot, stack_frame_slot, ipc_frame_slot, pt_stack_slot}
         \subseteq FirstSlot..(FirstSlot + 5)
    /\ FirstSlot \in Nat /\ EndSlot = FirstSlot + NSlots /\ NSlots \in Nat
    /\ tcb_slot # fault_ep_slot
    /\ \A s \in {tcb_slot, fault_ep_slot, stack_frame_slot, ipc_frame_slot, pt_stack_slot} :
         6 <= NSlots => s \in Slots
    /\ \A s \in {stack_frame_slot, ipc_frame_slot, pt_stack_slot} : s \notin {tcb_slot, fault_ep_slot}
    /\ stack_frame_slot # ipc_frame_slot /\ stack_frame_slot # pt_stack_slot
    /\ ipc_frame_slot # pt_stack_slot
  BY KernelConstants DEF NSlots, tcb_slot, fault_ep_slot, stack_frame_slot, ipc_frame_slot,
     pt_stack_slot, Slots

LEMMA CreateEndpointAccount ==
    ASSUME IInv, AInv, CreateEndpoint
    PROVE  AInv'
<1> DEFINE r == Retype(kern, Small(kern), "endpoint", fault_ep_slot, 1)
<1>1. /\ pc = "endpoint" /\ kern' = r.k /\ pc' = (IF r.ok THEN "tcb" ELSE "failed")
      /\ UNCHANGED inputs /\ mapped_pts' = mapped_pts /\ recycled' = recycled
  BY DEF CreateEndpoint, Goto, plan, Small
<1>2. kern \in Kernels /\ Looked(kern)
  BY <1>1 DEF IInv, Sound, AInv, Early
<1>3. Spent(kern, 0, 0) /\ \A s \in Slots : Empty(kern, s)
  <2>1. /\ \A i \in DOMAIN kern.untyped : kern.untyped[i].used = 0
        /\ \A s \in Slots : Empty(kern, s)
    BY <1>1 DEF AInv, StartInv
  <2> QED
    BY <1>2, <2>1, FoundBoth DEF Spent
<1>4. UnitMade(r, kern, 0, "endpoint", fault_ep_slot)
  BY <1>2, <1>3, FixedSlots, UnitExact
<1> HIDE DEF r
<1>5. /\ r.k \in Kernels /\ SameBoot(r.k, kern) /\ r.k.pts = kern.pts
      /\ r.ok <=> Fits(kern, 1, 0) /\ Empty(kern, fault_ep_slot)
      /\ r.ok => Spent(r.k, 1, 0) /\ r.k.caps = [kern.caps EXCEPT ![fault_ep_slot] = "endpoint"]
  BY <1>4 DEF UnitMade, SameMemory
<1>6. CASE r.ok
  <2>1. (Looked(kern))'
    BY <1>1, <1>2, <1>5, SameEnough
  <2>2. kern.caps \in [Slots -> CapTypes]
    BY <1>2 DEF Kernels
  <2>3. fault_ep_slot \in Slots
    BY <1>5, <1>6 DEF Empty, HasCap
  <2>4. \A s \in Slots \ {fault_ep_slot} : Empty(kern', s)
    BY <1>1, <1>3, <1>5, <1>6, <2>2 DEF Empty, HasCap
  <2>5. HasCap(kern', fault_ep_slot, "endpoint")
    BY <1>1, <1>5, <1>6, <2>2, <2>3 DEF HasCap
  <2>6. pc' = "tcb" /\ Spent(kern', 1, 0)
    BY <1>1, <1>5, <1>6
  <2>7. recycled' = [i \in 1..NSlots |-> FirstSlot + i - 1] \o RemainingSlots
    BY <1>1 DEF AInv, StartInv, Early
  <2>8. StartInv'
    BY <2>4, <2>6, <2>7 DEF StartInv, Early, RemainingSlots
  <2>9. mapped_pts' = {} /\ \A x \in Regions : kern'.pts["root"][x] \notin Slots
    BY <1>1, <1>5, EarlyFacts DEF Early
  <2> QED
    BY <2>1, <2>5, <2>6, <2>8, <2>9, EarlyAccount DEF Early
<1>7. CASE ~r.ok
  <2>1. ASSUME Enough PROVE FALSE
    <3>1. /\ NSlots \in Nat /\ 6 <= NSlots
          /\ Fits(kern, 2 * 1, 2 * 0)
      <4>1. Affordable(Cardinality(TablesNeeded), Cardinality(ImagePages))
        BY <2>1, EnoughUse
      <4> QED
        BY <4>1, AffordableOne
    <3>2. Fits(kern, 1, 0)
      BY <1>2, <3>1, FitsLess
    <3>3. Empty(kern, fault_ep_slot)
      BY <1>3, <3>1, FixedSlots
    <3> QED
      BY <1>5, <1>7, <3>2, <3>3
  <2> QED
    BY <1>1, <1>5, <1>7, <2>1, FailStep
<1> QED
  BY <1>6, <1>7

LEMMA CreateTcbAccount ==
    ASSUME IInv, AInv, CreateTcb
    PROVE  AInv'
<1> DEFINE r == Retype(kern, Small(kern), "tcb", tcb_slot, 1)
<1>1. /\ pc = "tcb" /\ kern' = r.k /\ pc' = (IF r.ok THEN "pt_load" ELSE "failed")
      /\ UNCHANGED inputs /\ mapped_pts' = mapped_pts /\ recycled' = recycled
  BY DEF CreateTcb, Goto, plan, Small
<1>2. kern \in Kernels /\ Looked(kern)
  BY <1>1 DEF IInv, Sound, AInv, Early
<1>3. /\ Spent(kern, 1, 0) /\ \A s \in Slots \ {fault_ep_slot} : Empty(kern, s)
      /\ HasCap(kern, fault_ep_slot, "endpoint")
  BY <1>1 DEF AInv, StartInv, CapsInv
<1>4. UnitMade(r, kern, 1, "tcb", tcb_slot)
  BY <1>2, <1>3, FixedSlots, UnitExact
<1> HIDE DEF r
<1>5. /\ r.k \in Kernels /\ SameBoot(r.k, kern) /\ r.k.pts = kern.pts
      /\ r.ok <=> Fits(kern, 2, 0) /\ Empty(kern, tcb_slot)
      /\ r.ok => Spent(r.k, 2, 0) /\ r.k.caps = [kern.caps EXCEPT ![tcb_slot] = "tcb"]
  BY <1>4 DEF UnitMade, SameMemory
<1>6. CASE r.ok
  <2>1. (Looked(kern))'
    BY <1>1, <1>2, <1>5, SameEnough
  <2>2. kern.caps \in [Slots -> CapTypes]
    BY <1>2 DEF Kernels
  <2>3. tcb_slot \in Slots
    BY <1>5, <1>6 DEF Empty, HasCap
  <2>4. \A s \in Slots \ {tcb_slot, fault_ep_slot} : Empty(kern', s)
    BY <1>1, <1>3, <1>5, <1>6, <2>2 DEF Empty, HasCap
  <2>5. HasCap(kern', tcb_slot, "tcb")
    BY <1>1, <1>5, <1>6, <2>2, <2>3 DEF HasCap
  <2>6. HasCap(kern', fault_ep_slot, "endpoint")
    BY <1>1, <1>2, <1>3, <1>5, <1>6, FixedSlots, OtherSlot
  <2>7. pc' = "pt_load" /\ Spent(kern', 2, 0)
    BY <1>1, <1>5, <1>6
  <2>8. recycled' = [i \in 1..NSlots |-> FirstSlot + i - 1] \o RemainingSlots
    BY <1>1 DEF AInv, StartInv, Early
  <2>9. StartInv'
    BY <2>4, <2>7, <2>8 DEF StartInv, Early, RemainingSlots
  <2>10. mapped_pts' = {} /\ \A x \in Regions : kern'.pts["root"][x] \notin Slots
    BY <1>1, <1>5, EarlyFacts DEF Early
  <2> QED
    BY <2>1, <2>5, <2>6, <2>7, <2>9, <2>10, EarlyAccount DEF Early
<1>7. CASE ~r.ok
  <2>1. ASSUME Enough PROVE FALSE
    <3>1. /\ NSlots \in Nat /\ 6 <= NSlots
          /\ Fits(kern, 2 * 1, 2 * 0)
      <4>1. Affordable(Cardinality(TablesNeeded), Cardinality(ImagePages))
        BY <2>1, EnoughUse
      <4> QED
        BY <4>1, AffordableOne
    <3>2. Empty(kern, tcb_slot)
      BY <1>3, <3>1, FixedSlots
    <3> QED
      BY <1>5, <1>7, <3>1, <3>2
  <2> QED
    BY <1>1, <1>5, <1>7, <2>1, FailStep
<1> QED
  BY <1>6, <1>7


\* From the first table on.
LEMMA LaterAccount ==
    ASSUME pc' \in Begun, StageInv', CapsInv', FramesInv', RegionsInv', (Looked(kern))'
    PROVE  AInv'
<1>1. pc' \notin {"parse", "failed"} \cup Early
  BY DEF Early, Begun, Tabled, Planned, Imaged, Stacked, Furnished
<1>2. StartInv'
  BY <1>1 DEF StartInv, Early
<1> QED
  BY <1>1, <1>2 DEF AInv

\* The stages that claim only that tables have been made.
LEMMA TablingAccount ==
    ASSUME pc' = "pt_extra", Tabling' \/ (Doomed(kern)' /\ ~Enough'), (Looked(kern))',
           HasCap(kern', fault_ep_slot, "endpoint"), HasCap(kern', tcb_slot, "tcb"), RegionsInv'
    PROVE  AInv'
<1>1. StageInv'
  BY DEF StageInv
<1>2. CapsInv' /\ FramesInv'
  BY DEF CapsInv, FramesInv, Stacked, Furnished
<1> QED
  BY <1>1, <1>2, LaterAccount DEF Begun

LEMMA MakeTableIs ==
    ASSUME NEW k \in Kernels, NEW slot \in Int, NEW region
    PROVE  LET m == Make(k, "pt", slot) IN
           /\ MakeTable(k, slot, region).k = PageTable_Map(m.k, slot, "root", region).k
           /\ MakeTable(k, slot, region).ok = m.ok
<1> DEFINE m == Make(k, "pt", slot)
<1>1. m = [ok |-> m.ok, k |-> m.k]
  BY DEF Make, Retype, Fails, Succeeds
<1> HIDE DEF m
<1>2. MakeTable(k, slot, region) = [m EXCEPT !.k = PageTable_Map(@, slot, "root", region).k]
  BY DEF MakeTable, m
<1> QED
  BY <1>1, <1>2 DEF m

\* A new table takes no slot that is in use.
LEMMA TableCaps ==
    ASSUME NEW k \in Kernels, NEW m, NEW t, NEW slot, NEW region, TableBuilt(m, t, k, slot, region),
           NEW other, NEW ty, HasCap(k, other, ty), ty # "null"
    PROVE  HasCap(t.k, other, ty)
<1>1. t.k \in Kernels /\ m.ok \in BOOLEAN
  BY DEF TableBuilt
<1>2. CASE m.ok
  <2>1. t.k.caps = [k.caps EXCEPT ![slot] = "pt"] /\ k.caps[slot] = "null"
    BY <1>2 DEF TableBuilt, Empty, HasCap
  <2>2. other # slot
    BY <2>1 DEF HasCap
  <2> QED
    BY <1>1, <2>1, <2>2, OtherSlot
<1>3. CASE ~m.ok
  BY <1>3 DEF TableBuilt, HasCap
<1> QED
  BY <1>1, <1>2, <1>3


Joined(st, a, b) ==
  /\ Len(st) = Len(a) + Len(b) /\ Len(a) \in Nat /\ Len(b) \in Nat
  /\ \A i \in 1..Len(a) : st[i] = a[i]
  /\ \A i \in (Len(a) + 1)..(Len(a) + Len(b)) : st[i] = b[i - Len(a)]
LEMMA ConcatParts ==
    ASSUME NEW S, NEW a \in Seq(S), NEW b \in Seq(S)
    PROVE  Joined(a \o b, a, b)
<1> DEFINE st == a \o b
<1>1. Len(b) \in Nat /\ Len(a) \in Nat
  BY LenProperties
<1>2. /\ a \o b \in Seq(S) /\ Len(a \o b) = Len(a) + Len(b)
      /\ \A i \in 1..(Len(a) + Len(b)) : (a \o b)[i] = IF i <= Len(a) THEN a[i] ELSE b[i - Len(a)]
  BY ConcatProperties
<1>3. ASSUME NEW i \in 1..Len(a) PROVE st[i] = a[i]
  <2>1. i \in 1..(Len(a) + Len(b)) /\ i <= Len(a)
    BY <1>1
  <2> QED
    BY <1>2, <2>1
<1>4. ASSUME NEW i \in (Len(a) + 1)..(Len(a) + Len(b)) PROVE st[i] = b[i - Len(a)]
  <2>1. i \in 1..(Len(a) + Len(b)) /\ ~(i <= Len(a))
    BY <1>1
  <2> QED
    BY <1>2, <2>1
<1> QED
  BY <1>1, <1>2, <1>3, <1>4 DEF Joined

\* The allocator's stack when the first slot is popped.
LEMMA FirstStack ==
    ASSUME recycled = [i \in 1..NSlots |-> FirstSlot + i - 1] \o RemainingSlots
    PROVE  /\ 6 <= NSlots => OnStack(recycled, 0)
           /\ 1 <= NSlots => recycled # <<>>
<1> DEFINE a == [i \in 1..NSlots |-> FirstSlot + i - 1]
<1> DEFINE b == RemainingSlots
<1>1. FirstSlot \in Nat /\ NSlots \in Nat /\ EndSlot = FirstSlot + NSlots
  BY FixedSlots
<1>2. a \in Seq(Slots) /\ b \in Seq(Slots)
  BY SlotLists DEF NSlots
<1>3. Len(a) = NSlots
  BY <1>1
<1>4. 6 <= NSlots => Len(b) = NSlots - 6
  BY <1>1 DEF RemainingSlots, NSlots
<1>5. \A i \in 1..NSlots : a[i] = FirstSlot + i - 1
  OBVIOUS
<1>6. \A i \in 1..(NSlots - 6) : b[i] = EndSlot - i
  BY DEF RemainingSlots, NSlots
<1> HIDE DEF a, b
<1>7. recycled = a \o b
  BY DEF a, b
<1>8. Joined(a \o b, a, b)
  BY <1>2, ConcatParts
<1>9. Joined(recycled, a, b)
  BY <1>7, <1>8
<1>10. /\ Len(recycled) = Len(a) + Len(b) /\ Len(a) \in Nat /\ Len(b) \in Nat
       /\ \A i \in 1..Len(a) : recycled[i] = a[i]
       /\ \A i \in (Len(a) + 1)..(Len(a) + Len(b)) : recycled[i] = b[i - Len(a)]
  BY <1>9 DEF Joined
<1>11. ASSUME 6 <= NSlots PROVE OnStack(recycled, 0)
  <2>1. Len(recycled) = 2 * NSlots - 6 - 0
    <3>1. Len(recycled) = NSlots + (NSlots - 6)
      BY <1>3, <1>4, <1>10, <1>11
    <3> HIDE DEF NSlots
    <3> QED
      BY <1>1, <3>1
  <2>2. ASSUME NEW i \in 1..Len(recycled) PROVE recycled[i] = StackSlot(i)
    <3>1. CASE i <= NSlots
      <4>1. i \in 1..NSlots
        BY <1>1, <3>1
      <4> QED
        BY <1>3, <1>5, <1>10, <3>1, <4>1 DEF StackSlot
    <3>2. CASE ~(i <= NSlots)
      <4>1. i \in (NSlots + 1)..(NSlots + (NSlots - 6)) /\ i - NSlots \in 1..(NSlots - 6)
        BY <1>1, <1>11, <2>1, <3>2
      <4>2. recycled[i] = b[i - NSlots]
        BY <1>3, <1>4, <1>10, <1>11, <4>1
      <4> QED
        BY <1>6, <3>2, <4>1, <4>2 DEF StackSlot
    <3> QED
      BY <3>1, <3>2
  <2> QED
    BY <2>1, <2>2 DEF OnStack
<1>12. ASSUME 1 <= NSlots PROVE recycled # <<>>
  <2>1. Len(recycled) # 0
    BY <1>1, <1>3, <1>10, <1>12
  <2>2. Len(<<>>) = 0
    OBVIOUS
  <2> QED
    BY <2>1, <2>2, Zenon
<1> QED
  BY <1>11, <1>12

LEMMA NothingTaken ==
    ASSUME 6 <= NSlots, NEW k, \A s \in Slots \ {tcb_slot, fault_ep_slot} : Empty(k, s)
    PROVE  Taken(k, 0)
<1>1. FirstSlot \in Nat /\ NSlots \in Nat /\ EndSlot = FirstSlot + NSlots
  BY FixedSlots
<1>2. \A s \in (FirstSlot + 6 + 0)..(EndSlot - 1) : s \in Slots \ {tcb_slot, fault_ep_slot}
  BY <1>1 DEF Slots, tcb_slot, fault_ep_slot
<1>3. \A s \in (FirstSlot + 6 + 0)..(EndSlot - 1) : k.caps[s] = "null"
  BY <1>2 DEF Empty, HasCap
<1>4. \A s \in (FirstSlot + 6)..(FirstSlot + 5 + 0) : k.caps[s] # "null"
  BY <1>1
<1> QED
  BY <1>1, <1>3, <1>4 DEF Taken


\* With no slot beyond the fixed ones the first table takes the stack's table's
\* slot, and without memory for it there is none for the stack's table.
LEMMA CreateLoadTableAccount ==
    ASSUME IInv, AInv, CreateLoadTable
    PROVE  AInv'
<1> DEFINE slot == alloc(recycled)
<1> DEFINE region == Region(LOAD_BASE)
<1> DEFINE m == Make(kern, "pt", slot)
<1> DEFINE t == PageTable_Map(m.k, slot, "root", region)
<1>1. /\ pc = "pt_load" /\ pc' = (IF alloc_ok(recycled) THEN "pt_extra" ELSE "failed")
      /\ kern' = MakeTable(kern, slot, region).k /\ UNCHANGED inputs
      /\ recycled' = after_alloc(recycled) /\ mapped_pts' = {region}
  BY DEF CreateLoadTable
<1>2. kern \in Kernels /\ Looked(kern) /\ Sound(kern) /\ PtLoads # <<>> /\ recycled \in Seq(Slots)
  BY <1>1 DEF IInv, Shapes, Sound, AInv, Early, LoopInv
<1>3. /\ Spent(kern, 2 * 1, 2 * 0) /\ \A s \in Slots \ {tcb_slot, fault_ep_slot} : Empty(kern, s)
      /\ HasCap(kern, fault_ep_slot, "endpoint") /\ HasCap(kern, tcb_slot, "tcb")
      /\ recycled = [i \in 1..NSlots |-> FirstSlot + i - 1] \o RemainingSlots
  <2>1. /\ Spent(kern, 2, 0) /\ \A s \in Slots \ {tcb_slot, fault_ep_slot} : Empty(kern, s)
        /\ HasCap(kern, fault_ep_slot, "endpoint") /\ HasCap(kern, tcb_slot, "tcb")
        /\ recycled = [i \in 1..NSlots |-> FirstSlot + i - 1] \o RemainingSlots
    BY <1>1 DEF AInv, StartInv, CapsInv, Early
  <2>2. 2 * 1 = 2 /\ 2 * 0 = 0
    OBVIOUS
  <2> QED
    BY <2>1, <2>2
<1>4. slot \in Int /\ region \in Regions
  BY <1>2, AllocFacts, LayoutFacts, RegionFacts
<1>5. TableBuilt(m, t, kern, slot, region)
  BY <1>2, <1>4, TableBoot
<1>6. /\ m.ok <=> Fits(kern, 2 * (1 + 1), 2 * 0) /\ Empty(kern, slot)
      /\ m.ok => Spent(t.k, 2 * (1 + 1), 2 * 0)
  BY <1>2, <1>3, <1>4, TableExact
<1>7. kern' = t.k
  BY <1>1, <1>2, <1>4, MakeTableIs
<1>8. mapped_pts = {} /\ \A r \in Regions : kern.pts["root"][r] \notin Slots
  BY <1>1, EarlyFacts DEF Early
<1> HIDE DEF m, t, slot, region
<1>9. /\ kern' \in Kernels /\ SameBoot(kern', kern) /\ m.ok \in BOOLEAN
      /\ kern'.untyped = m.k.untyped /\ (~m.ok => m.k = kern /\ kern'.caps = kern.caps)
      /\ m.ok => /\ Empty(kern, slot) /\ kern'.caps = [kern.caps EXCEPT ![slot] = "pt"]
                 /\ kern'.pts["root"][region] # NoCap
      /\ \A r \in Regions \ {region} : kern'.pts["root"][r] = kern.pts["root"][r]
  BY <1>5, <1>7 DEF TableBuilt
<1>10. (Looked(kern))' /\ (Enough' <=> Enough)
  BY <1>1, <1>2, <1>9, SameEnough
<1>11. HasCap(kern', fault_ep_slot, "endpoint") /\ HasCap(kern', tcb_slot, "tcb")
  BY <1>2, <1>3, <1>5, <1>7, TableCaps
<1>12. ASSUME pc' = "pt_extra" PROVE RegionsInv'
  <2>1. TablesNeeded' = TablesNeeded /\ region \in TablesNeeded
    BY <1>1, SameNeeds DEF TablesNeeded, region
  <2>2. \A r \in Regions : kern'.pts["root"][r] \in Slots => r \in mapped_pts'
    BY <1>1, <1>8, <1>9
  <2> QED
    BY <1>1, <1>12, <2>1, <2>2 DEF RegionsInv, Early, Tabled, Planned, Imaged, Stacked, Furnished, region
<1>13. /\ Small(kern') = Small(kern) /\ kern.untyped[Small(kern)].used = 2
       /\ kern.untyped[Small(kern)].units \in Nat
       /\ kern.untyped[Big(kern)].units \in Nat
  BY <1>2, <1>3, <1>9, SameSizes, FoundBoth DEF Spent
<1>14. ASSUME ~Fits(kern, 2 * (1 + 1), 2 * 0) PROVE Doomed(kern) /\ ~Enough
  <2>1. ~Enough
    <3> SUFFICES ASSUME Enough PROVE FALSE
      OBVIOUS
    <3>1. Affordable(Cardinality(TablesNeeded), Cardinality(ImagePages))
      BY EnoughUse
    <3>2. \A x, y : Affordable(x, y) => Fits(kern, 2 * (1 + 1), 2 * 0)
      <4> SUFFICES ASSUME NEW x, NEW y, Affordable(x, y) PROVE Fits(kern, 2 * (1 + 1), 2 * 0)
        OBVIOUS
      <4>1. \A s, b \in Nat : s <= x + Extra + 6 /\ b <= y => Fits(kern, 2 * s, 2 * b)
        BY DEF Affordable
      <4>2. 1 + 1 \in Nat /\ 0 \in Nat /\ 1 + 1 <= x + Extra + 6 /\ 0 <= y
        BY DEF Affordable
      <4> QED
        BY <4>1, <4>2, Zenon
    <3> QED
      BY <1>14, <3>1, <3>2
  <2>2. 4 > kern.untyped[Small(kern)].units
    BY <1>13, <1>14 DEF Fits
  <2> QED
    BY <1>13, <2>1, <2>2 DEF Doomed
<1>15. CASE ~alloc_ok(recycled)
  <2>1. ~(1 <= NSlots)
    BY <1>3, <1>15, FirstStack DEF alloc_ok
  <2>2. ~Enough
    <3>1. Enough => Affordable(Cardinality(TablesNeeded), Cardinality(ImagePages))
      BY EnoughUse
    <3>2. Enough => NSlots \in Nat /\ 8 <= NSlots
      BY <3>1, AffordableOne
    <3> QED
      BY <2>1, <3>2
  <2> QED
    BY <1>1, <1>9, <1>15, <2>2, FailStep
<1>16. CASE alloc_ok(recycled) /\ 6 < NSlots
  <2>1. 6 <= NSlots /\ OnStack(recycled, 0) /\ Taken(kern, 0)
    <3>1. 6 <= NSlots
      BY <1>16, FixedSlots
    <3>2. OnStack(recycled, 0)
      BY <1>3, <3>1, FirstStack
    <3> QED
      BY <1>3, <3>1, <3>2, NothingTaken
  <2>2. /\ slot \in Slots /\ Empty(kern, slot) /\ slot = FirstSlot + 6 + 0
        /\ OnStack(after_alloc(recycled), 0 + 1)
    BY <1>2, <1>16, <2>1, TopSlot DEF slot
  <2>3. CASE m.ok
    <3>1. Taken(kern', 0 + 1)
      <4>1. 6 + 0 < NSlots /\ kern'.caps = [kern.caps EXCEPT ![FirstSlot + 6 + 0] = "pt"]
        BY <1>9, <1>16, <2>2, <2>3
      <4> QED
        BY <1>2, <1>9, <2>1, <4>1, TakeSlot
    <3>2. Tables' = 1
      BY <1>1, FS_Singleton DEF Tables
    <3>3. Account(kern, Tables, 0, Tables)'
      BY <1>6, <1>7, <2>3, <3>1, <3>2 DEF Account
    <3>4. OnStack(recycled, Tables)'
      BY <1>1, <2>2, <3>2
    <3>5. \A s \in {stack_frame_slot, ipc_frame_slot, pt_stack_slot} : Empty(kern, s) /\ s # slot
      BY <1>3, <2>1, <2>2, FixedSlots
    <3>6. \A s \in {stack_frame_slot, ipc_frame_slot, pt_stack_slot} : Empty(kern', s)
      BY <1>2, <1>9, <2>3, <3>5, OtherSlot DEF Empty
    <3>7. HasTables(kern, mapped_pts)'
      BY <1>1, <1>9, <2>3 DEF HasTables
    <3>8. Tabling'
      BY <3>3, <3>4, <3>6, <3>7 DEF Tabling
    <3> QED
      BY <1>1, <1>10, <1>11, <1>12, <1>16, <3>8, TablingAccount
  <2>4. CASE ~m.ok
    <3>1. Doomed(kern) /\ ~Enough /\ 4 > kern.untyped[Small(kern)].units
      BY <1>6, <1>13, <1>14, <2>2, <2>4 DEF Fits
    <3>2. Doomed(kern)'
      BY <1>9, <1>13, <2>4, <3>1 DEF Doomed
    <3> QED
      BY <1>1, <1>10, <1>11, <1>12, <1>16, <3>1, <3>2, TablingAccount
  <2> QED
    BY <2>3, <2>4
<1>17. CASE alloc_ok(recycled) /\ ~(6 < NSlots)
  <2>1. ~Enough
    <3>1. Enough => Affordable(Cardinality(TablesNeeded), Cardinality(ImagePages))
      BY EnoughUse
    <3>2. Enough => NSlots \in Nat /\ 8 <= NSlots
      BY <3>1, AffordableOne
    <3> QED
      BY <1>17, <3>2
  <2>2. Doomed(kern)'
    <3>1. CASE ~m.ok /\ ~Fits(kern, 2 * (1 + 1), 2 * 0)
      <4>1. 4 > kern.untyped[Small(kern)].units
        BY <1>13, <3>1 DEF Fits
      <4> QED
        BY <1>9, <1>13, <3>1, <4>1 DEF Doomed
    <3>2. CASE NSlots # 6
      <4>1. pt_stack_slot \notin Slots
        BY <1>17, <3>2, FixedSlots DEF pt_stack_slot, Slots
      <4> QED
        BY <4>1 DEF Doomed, Empty, HasCap
    <3>3. CASE NSlots = 6 /\ (m.ok \/ Fits(kern, 2 * (1 + 1), 2 * 0))
      <4>1. OnStack(recycled, 0)
        BY <1>3, <3>3, FirstStack
      <4>2. Len(recycled) = 6 /\ recycled[6] = FirstSlot + 5
        BY <3>3, <4>1, FixedSlots DEF OnStack, StackSlot
      <4>3. slot = pt_stack_slot
        BY <1>17, <4>2 DEF slot, alloc, pt_stack_slot
      <4>4. pt_stack_slot \in Slots /\ Empty(kern, pt_stack_slot)
        BY <1>3, <3>3, FixedSlots
      <4>5. m.ok
        BY <1>6, <3>3, <4>3, <4>4
      <4>6. kern'.caps[pt_stack_slot] = "pt"
        <5>1. kern.caps \in [Slots -> CapTypes]
          BY <1>2 DEF Kernels
        <5> QED
          BY <1>9, <4>3, <4>4, <4>5, <5>1
      <4> QED
        BY <4>6 DEF Doomed, Empty, HasCap
    <3> QED
      BY <3>1, <3>2, <3>3
  <2> QED
    BY <1>1, <1>10, <1>11, <1>12, <1>17, <2>1, <2>2, TablingAccount
<1> QED
  BY <1>15, <1>16, <1>17


LEMMA TablesFit ==
    ASSUME NEW t, NEW n, Affordable(t, n), NEW s \in Nat, s + 1 <= t
    PROVE  Fits(kern, 2 * ((s + 1) + 1), 2 * 0) /\ 6 + s < NSlots
<1>1. \A x, b \in Nat : x <= t + Extra + 6 /\ b <= n => Fits(kern, 2 * x, 2 * b)
  BY DEF Affordable
<1>2. /\ (s + 1) + 1 \in Nat /\ 0 \in Nat /\ (s + 1) + 1 <= t + Extra + 6 /\ 0 <= n
      /\ 6 + s < NSlots
  BY DEF Affordable
<1>3. Fits(kern, 2 * ((s + 1) + 1), 2 * 0)
  BY <1>1, <1>2, Zenon
<1> QED
  BY <1>2, <1>3

LEMMA CreateExtraTableAccount ==
    ASSUME IInv, AInv, CreateExtraTable
    PROVE  AInv'
<1> DEFINE slot == alloc(recycled)
<1> DEFINE region == NextRegion
<1> DEFINE m == Make(kern, "pt", slot)
<1> DEFINE t == PageTable_Map(m.k, slot, "root", region)
<1>1. /\ pc = "pt_extra" /\ kern' = MakeTable(kern, slot, region).k /\ UNCHANGED inputs
      /\ pc' = (IF MakeTable(kern, slot, region).ok THEN "pt_extra" ELSE "failed")
      /\ recycled' = after_alloc(recycled) /\ mapped_pts' = mapped_pts \cup {region}
      /\ Untabled # {}
  BY DEF CreateExtraTable, Goto
<1>2. /\ kern \in Kernels /\ Looked(kern) /\ Sound(kern) /\ PtLoads # <<>> /\ recycled \in Seq(Slots)
      /\ elf \in Elves
  BY <1>1 DEF IInv, Shapes, Sound, AInv, Begun, LoopInv
<1>3. /\ Tabling \/ (Doomed(kern) /\ ~Enough)
      /\ HasCap(kern, fault_ep_slot, "endpoint") /\ HasCap(kern, tcb_slot, "tcb")
      /\ Region(LOAD_BASE) \in mapped_pts /\ mapped_pts \subseteq TablesNeeded
      /\ \A r \in Regions : kern.pts["root"][r] \in Slots => r \in mapped_pts
  BY <1>1 DEF AInv, StageInv, CapsInv, RegionsInv, Begun, Ends, Tabled, Planned, Imaged, Stacked,
     Furnished
<1>4. slot \in Int /\ region \in Regions /\ region \in TablesNeeded \ mapped_pts
  <2>1. region \in Untabled /\ region \in Regions
    BY <1>1, <1>2, NextRegionFacts
  <2> QED
    BY <1>2, <2>1, AllocFacts DEF Untabled, TablesNeeded
<1>5. TableBuilt(m, t, kern, slot, region)
  BY <1>2, <1>4, TableBoot
<1>6. kern' = t.k /\ pc' = (IF m.ok THEN "pt_extra" ELSE "failed")
  BY <1>1, <1>2, <1>4, MakeTableIs
<1>7. ASSUME NEW x \in Nat, Spent(kern, 2 * x, 2 * 0)
      PROVE  /\ m.ok <=> Fits(kern, 2 * (x + 1), 2 * 0) /\ Empty(kern, slot)
             /\ m.ok => Spent(t.k, 2 * (x + 1), 2 * 0)
  BY <1>2, <1>4, <1>7, TableExact
<1> HIDE DEF m, t, slot, region
<1>8. /\ kern' \in Kernels /\ SameBoot(kern', kern) /\ m.ok \in BOOLEAN
      /\ m.ok => kern.untyped[Small(kern)].used + 2 <= kern.untyped[Small(kern)].units
      /\ m.ok => /\ Empty(kern, slot) /\ kern'.caps = [kern.caps EXCEPT ![slot] = "pt"]
                 /\ kern'.pts["root"][region] # NoCap
      /\ \A r \in Regions \ {region} : kern'.pts["root"][r] = kern.pts["root"][r]
  BY <1>5, <1>6 DEF TableBuilt
<1>9. (Looked(kern))' /\ (Enough' <=> Enough)
  BY <1>1, <1>2, <1>8, SameEnough
<1>10. HasCap(kern', fault_ep_slot, "endpoint") /\ HasCap(kern', tcb_slot, "tcb")
  BY <1>2, <1>3, <1>5, <1>6, TableCaps
<1>11. ASSUME pc' = "pt_extra" PROVE RegionsInv'
  <2>1. TablesNeeded' = TablesNeeded
    BY <1>1, SameNeeds
  <2>2. \A r \in Regions : kern'.pts["root"][r] \in Slots => r \in mapped_pts'
    BY <1>1, <1>3, <1>8
  <2>3. Region(LOAD_BASE) \in mapped_pts' /\ mapped_pts' \subseteq TablesNeeded
    BY <1>1, <1>3, <1>4
  <2> QED
    BY <1>11, <2>1, <2>2, <2>3 DEF RegionsInv, Early, Tabled, Planned, Imaged, Stacked, Furnished
<1>12. /\ Tables \in Nat /\ Tables >= 1 /\ Tables + 1 <= Cardinality(TablesNeeded)
       /\ Tables' = Tables + 1
  <2>1. Cardinality(mapped_pts \cup {region}) = Tables + 1
    BY <1>2, <1>4, TableCount
  <2>2. Tables' = Tables + 1
    BY <1>1, <2>1 DEF Tables
  <2> QED
    BY <1>2, <1>3, <1>4, <2>2, TableCount
<1>13. CASE Doomed(kern) /\ ~Enough
  <2>1. CASE ~m.ok
    BY <1>1, <1>6, <1>8, <1>13, <2>1, FailStep
  <2>2. CASE m.ok
    <3>1. /\ kern.untyped[Small(kern)].used \in Nat /\ kern.untyped[Small(kern)].units \in Nat
      BY <1>2, FoundBoth
    <3>2. ~Empty(kern, pt_stack_slot)
      BY <1>8, <1>13, <2>2, <3>1 DEF Doomed
    <3>3. kern.caps \in [Slots -> CapTypes]
      BY <1>2 DEF Kernels
    <3>4. slot # pt_stack_slot
      BY <1>8, <2>2, <3>2
    <3>5. ~Empty(kern', pt_stack_slot)
      BY <1>8, <2>2, <3>2, <3>3, <3>4 DEF Empty, HasCap
    <3>6. Doomed(kern)'
      BY <3>5 DEF Doomed
    <3> QED
      BY <1>6, <1>9, <1>10, <1>11, <1>13, <2>2, <3>6, TablingAccount
  <2> QED
    BY <1>8, <2>1, <2>2
<1>14. CASE Tabling
  <2>1. /\ Spent(kern, 2 * (Tables + 1), 2 * 0) /\ Taken(kern, Tables) /\ OnStack(recycled, Tables)
    BY <1>14 DEF Tabling, Account
  <2>2. /\ slot \in Slots /\ (Empty(kern, slot) <=> 6 + Tables < NSlots)
        /\ 6 + Tables < NSlots => slot = FirstSlot + 6 + Tables
        /\ OnStack(after_alloc(recycled), Tables + 1)
    BY <1>2, <1>12, <2>1, TopSlot DEF slot
  <2>3. /\ m.ok <=> Fits(kern, 2 * ((Tables + 1) + 1), 2 * 0) /\ Empty(kern, slot)
        /\ m.ok => Spent(kern', 2 * ((Tables + 1) + 1), 2 * 0)
    <3>1. Tables + 1 \in Nat
      BY <1>12
    <3> QED
      BY <1>6, <1>7, <2>1, <3>1
  <2>4. CASE m.ok
    <3>1. 6 + Tables < NSlots /\ slot = FirstSlot + 6 + Tables
      BY <2>2, <2>3, <2>4
    <3>2. Taken(kern', Tables + 1)
      <4>1. kern'.caps = [kern.caps EXCEPT ![FirstSlot + 6 + Tables] = "pt"]
        BY <1>8, <2>4, <3>1
      <4> QED
        BY <1>2, <1>8, <1>12, <2>1, <3>1, <4>1, TakeSlot
    <3>3. Account(kern, Tables, 0, Tables)'
      BY <1>12, <2>3, <2>4, <3>2 DEF Account
    <3>4. OnStack(recycled, Tables)'
      BY <1>1, <1>12, <2>2
    <3>5. \A s \in {stack_frame_slot, ipc_frame_slot, pt_stack_slot} : Empty(kern, s) /\ s # slot
      <4>1. \A s \in {stack_frame_slot, ipc_frame_slot, pt_stack_slot} : s \in FirstSlot..(FirstSlot + 5)
        BY FixedSlots
      <4> QED
        BY <1>12, <1>14, <3>1, <4>1, FixedSlots DEF Tabling
    <3>6. \A s \in {stack_frame_slot, ipc_frame_slot, pt_stack_slot} : Empty(kern', s)
      BY <1>2, <1>8, <2>4, <3>5, OtherSlot DEF Empty
    <3>7. HasTables(kern, mapped_pts)'
      <4>1. mapped_pts \subseteq Regions
        BY DEF IInv, Shapes
      <4>2. \A r \in mapped_pts : kern.pts["root"][r] # NoCap /\ r # region
        BY <1>4, <1>14 DEF Tabling, HasTables
      <4> QED
        BY <1>1, <1>8, <2>4, <4>1, <4>2 DEF HasTables
    <3>8. Tabling'
      BY <3>3, <3>4, <3>6, <3>7 DEF Tabling
    <3> QED
      BY <1>6, <1>9, <1>10, <1>11, <2>4, <3>8, TablingAccount
  <2>5. CASE ~m.ok
    <3>1. ASSUME Enough PROVE FALSE
      <4>1. Affordable(Cardinality(TablesNeeded), Cardinality(ImagePages))
        BY <3>1, EnoughUse
      <4>2. Fits(kern, 2 * ((Tables + 1) + 1), 2 * 0) /\ 6 + Tables < NSlots
        BY <1>12, <4>1, TablesFit
      <4> QED
        BY <2>2, <2>3, <2>5, <4>2
    <3> QED
      BY <1>1, <1>6, <1>8, <2>5, <3>1, FailStep
  <2> QED
    BY <1>8, <2>4, <2>5
<1> QED
  BY <1>3, <1>13, <1>14


\* The region of the stack has no table when there is enough of everything.
LEMMA StackFree ==
    ASSUME IInv, Enough, mapped_pts = TablesNeeded,
           \A r \in Regions : kern.pts["root"][r] \in Slots => r \in mapped_pts
    PROVE  kern.pts["root"][Region(STACK)] = NoCap
<1>1. /\ kern.pts["root"][Region(STACK)] # Image /\ Region(STACK) \notin TablesNeeded
  BY EnoughIs DEF EnoughFor
<1>2. Region(STACK) \in Regions
  BY LayoutFacts, RegionFacts
<1>3. kern.pts["root"][Region(STACK)] \in Slots \cup {NoCap, Image}
  BY <1>2 DEF IInv, Sound, Kernels, Spaces
<1> QED
  BY <1>1, <1>2, <1>3

LEMMA StackTableFits ==
    ASSUME NEW t, NEW n, Affordable(t, n), NEW s \in Nat, s <= t
    PROVE  Fits(kern, 2 * ((s + 1) + 1), 2 * 0)
<1>1. \A x, b \in Nat : x <= t + Extra + 6 /\ b <= n => Fits(kern, 2 * x, 2 * b)
  BY DEF Affordable
<1>2. (s + 1) + 1 \in Nat /\ 0 \in Nat /\ (s + 1) + 1 <= t + Extra + 6 /\ 0 <= n
  BY DEF Affordable
<1> QED
  BY <1>1, <1>2, Zenon

LEMMA CreateStackTableAccount ==
    ASSUME IInv, AInv, CreateStackTable
    PROVE  AInv'
<1> DEFINE slot == pt_stack_slot
<1> DEFINE region == Region(STACK)
<1> DEFINE m == Make(kern, "pt", slot)
<1> DEFINE t == PageTable_Map(m.k, slot, "root", region)
<1>1. /\ pc = "pt_extra" /\ kern' = (IF m.ok THEN t ELSE m).k /\ UNCHANGED inputs
      /\ pc' = (IF (IF m.ok THEN t ELSE m).ok THEN "plan" ELSE "failed")
      /\ recycled' = recycled /\ mapped_pts' = mapped_pts /\ Untabled = {}
  BY DEF CreateStackTable, Goto, plan
<1>2. kern \in Kernels /\ Looked(kern) /\ Sound(kern) /\ PtLoads # <<>>
  BY <1>1 DEF IInv, Shapes, Sound, AInv, Begun, LoopInv
<1>3. /\ Tabling \/ (Doomed(kern) /\ ~Enough)
      /\ HasCap(kern, fault_ep_slot, "endpoint") /\ HasCap(kern, tcb_slot, "tcb")
      /\ Region(LOAD_BASE) \in mapped_pts /\ mapped_pts \subseteq TablesNeeded
      /\ \A r \in Regions : kern.pts["root"][r] \in Slots => r \in mapped_pts
  BY <1>1 DEF AInv, StageInv, CapsInv, RegionsInv, Begun, Ends, Tabled, Planned, Imaged, Stacked,
     Furnished
<1>4. slot \in Int /\ region \in Regions
  BY FixedSlots, LayoutFacts, RegionFacts DEF pt_stack_slot
<1>5. TableBuilt(m, t, kern, slot, region)
  BY <1>2, <1>4, TableBoot
<1>6. ASSUME NEW x \in Nat, Spent(kern, 2 * x, 2 * 0)
      PROVE  /\ m.ok <=> Fits(kern, 2 * (x + 1), 2 * 0) /\ Empty(kern, slot)
             /\ m.ok => Spent(t.k, 2 * (x + 1), 2 * 0)
  BY <1>2, <1>4, <1>6, TableExact
<1> HIDE DEF m, t, slot, region
<1>7. /\ t.k \in Kernels /\ SameBoot(t.k, kern) /\ m.ok \in BOOLEAN
      /\ ~m.ok => m.k = kern
      /\ m.ok => kern.untyped[Small(kern)].used + 2 <= kern.untyped[Small(kern)].units
      /\ m.ok => /\ Empty(kern, slot) /\ t.k.caps = [kern.caps EXCEPT ![slot] = "pt"]
                 /\ t.ok <=> kern.pts["root"][region] = NoCap
                 /\ t.ok => t.k.pts["root"][region] = slot
      /\ \A r \in Regions \ {region} : t.k.pts["root"][r] = kern.pts["root"][r]
  BY <1>5 DEF TableBuilt
<1>8. mapped_pts = TablesNeeded
  BY <1>1, <1>3 DEF Untabled, TablesNeeded
<1>9. SameBoot(kern, kern)
  BY DEF SameBoot
<1>10. CASE Doomed(kern) /\ ~Enough
  <2>1. /\ kern.untyped[Small(kern)].used \in Nat /\ kern.untyped[Small(kern)].units \in Nat
    BY <1>2, FoundBoth
  <2>2. ~m.ok
    BY <1>7, <1>10, <2>1 DEF Doomed, slot
  <2>3. pc' = "failed" /\ kern' = kern
    BY <1>1, <1>7, <2>2
  <2> QED
    BY <1>1, <1>2, <1>9, <1>10, <2>3, FailStep
<1>11. CASE Tabling
  <2>1. /\ Spent(kern, 2 * (Tables + 1), 2 * 0) /\ Taken(kern, Tables) /\ OnStack(recycled, Tables)
        /\ Empty(kern, slot) /\ HasTables(kern, mapped_pts)
        /\ Empty(kern, stack_frame_slot) /\ Empty(kern, ipc_frame_slot)
    BY <1>11 DEF Tabling, Account, slot
  <2>2. Tables \in Nat /\ Tables + 1 \in Nat /\ Tables = Cardinality(TablesNeeded)
    BY <1>2, <1>8, TableCount DEF Tables
  <2>3. /\ m.ok <=> Fits(kern, 2 * ((Tables + 1) + 1), 2 * 0)
        /\ m.ok => Spent(t.k, 2 * ((Tables + 1) + 1), 2 * 0)
    BY <1>6, <2>1, <2>2
  <2>4. CASE ~m.ok
    <3>1. pc' = "failed" /\ kern' = kern
      BY <1>1, <1>7, <2>3, <2>4
    <3>2. ASSUME Enough PROVE FALSE
      <4>1. Affordable(Cardinality(TablesNeeded), Cardinality(ImagePages))
        BY <3>2, EnoughUse
      <4>2. Fits(kern, 2 * ((Tables + 1) + 1), 2 * 0)
        BY <2>2, <4>1, StackTableFits
      <4> QED
        BY <2>3, <2>4, <4>2
    <3> QED
      BY <1>1, <1>2, <1>9, <3>1, <3>2, FailStep
  <2>5. CASE m.ok /\ ~t.ok
    <3>1. pc' = "failed" /\ kern' = t.k
      BY <1>1, <2>5
    <3>2. ~Enough
      BY <1>3, <1>7, <1>8, <2>5, StackFree DEF region
    <3> QED
      BY <1>1, <1>7, <3>1, <3>2, FailStep
  <2>6. CASE m.ok /\ t.ok
    <3>1. pc' = "plan" /\ kern' = t.k
      BY <1>1, <2>6
    <3>2. (Looked(kern))'
      BY <1>1, <1>2, <1>7, <3>1, SameEnough
    <3>3. slot \in FirstSlot..(FirstSlot + 5)
      BY FixedSlots DEF slot
    <3>4. Taken(kern', Tables)
      BY <1>2, <1>7, <2>1, <2>2, <2>6, <3>1, <3>3, FixedSlot
    <3>5. Tables' = Tables
      BY <1>1 DEF Tables
    <3>6. StageInv'
      <4>1. Account(kern, Tables + 1, 0, Tables)'
        BY <2>3, <2>6, <3>1, <3>4, <3>5 DEF Account
      <4>2. OnStack(recycled, Tables)'
        BY <1>1, <2>1, <3>5
      <4> QED
        BY <3>1, <4>1, <4>2 DEF StageInv
    <3>7. Empty(kern', stack_frame_slot) /\ Empty(kern', ipc_frame_slot)
      <4>1. stack_frame_slot # slot /\ ipc_frame_slot # slot
        BY FixedSlots DEF slot
      <4> QED
        BY <1>2, <1>7, <2>1, <2>6, <3>1, <4>1, OtherSlot DEF Empty
    <3>8. HasCap(kern', fault_ep_slot, "endpoint") /\ HasCap(kern', tcb_slot, "tcb")
      BY <1>2, <1>3, <1>5, <3>1, TableCaps
    <3>9. CapsInv' /\ FramesInv'
      BY <3>1, <3>7, <3>8 DEF CapsInv, FramesInv, Stacked, Furnished
    <3>10. RegionsInv'
      <4>1. TablesNeeded' = TablesNeeded
        BY <1>1, SameNeeds
      <4>2. \A r \in Regions : kern'.pts["root"][r] \in Slots => r \in mapped_pts' \/ r = region
        BY <1>1, <1>3, <1>7, <3>1
      <4>3. kern'.pts["root"][region] \in Slots
        BY <1>7, <2>1, <2>6, <3>1 DEF Empty, HasCap
      <4>4. \A r \in mapped_pts : kern'.pts["root"][r] # NoCap
        <5>1. mapped_pts \subseteq Regions
          BY DEF IInv, Shapes
        <5>2. kern'.pts["root"][region] # NoCap
          BY <4>3, SlotFacts
        <5> QED
          BY <1>7, <2>1, <3>1, <5>1, <5>2 DEF HasTables
      <4>5. Region(LOAD_BASE) \in mapped_pts' /\ mapped_pts' = TablesNeeded' /\ HasTables(kern', mapped_pts')
        BY <1>1, <1>3, <1>8, <4>1, <4>4 DEF HasTables
      <4> QED
        BY <3>1, <4>2, <4>3, <4>5 DEF RegionsInv, Early, Tabled, HasTables, region
    <3> QED
      BY <3>1, <3>2, <3>6, <3>9, <3>10, LaterAccount DEF Begun, Tabled
  <2>7. t.ok \in BOOLEAN
    BY DEF t, PageTable_Map, Succeeds, Fails
  <2> QED
    BY <1>7, <2>4, <2>5, <2>6, <2>7
<1> QED
  BY <1>3, <1>10, <1>11


-----------------------------------------------------------------------------
(***************************************************************************)
(* The account step by step, from the plan on.                             *)
(***************************************************************************)
\* What is known once the tables are there.
LEMMA TabledFacts ==
    ASSUME IInv, AInv, pc \in Tabled
    PROVE  /\ kern \in Kernels /\ Sound(kern) /\ Looked(kern) /\ PtLoads # <<>>
           /\ recycled \in Seq(Slots) /\ elf \in Elves
           /\ Tables \in Nat /\ Tables >= 1 /\ Tables = Cardinality(TablesNeeded)
           /\ Extra \in Nat /\ NSlots \in Nat /\ Frames \in Nat /\ done \in Nat
           /\ mapped_pts = TablesNeeded /\ HasTables(kern, mapped_pts)
           /\ \A p \in (GuardPage..STACK) \cup {IPC_BUF} : kern.pts["root"][Region(p)] # NoCap
           /\ HasCap(kern, fault_ep_slot, "endpoint") /\ HasCap(kern, tcb_slot, "tcb")
<1>1. pc \in Begun /\ pc \notin {"parse", "failed"}
  BY DEF Begun, Tabled, Planned, Imaged, Stacked, Furnished
<1>2. /\ kern \in Kernels /\ Sound(kern) /\ Looked(kern) /\ PtLoads # <<>> /\ elf \in Elves
      /\ recycled \in Seq(Slots) /\ frame_slots \in Seq(Slots) /\ done \in Nat
  BY <1>1 DEF IInv, Shapes, Sound, AInv, LoopInv
<1>3. /\ mapped_pts = TablesNeeded /\ HasTables(kern, mapped_pts)
      /\ kern.pts["root"][Region(STACK)] \in Slots /\ Region(LOAD_BASE) \in mapped_pts
  BY <1>1 DEF AInv, RegionsInv
<1>4. Tables \in Nat /\ Tables >= 1 /\ Tables = Cardinality(TablesNeeded)
  BY <1>2, <1>3, TableCount DEF Tables
<1>5. \A p \in (GuardPage..STACK) \cup {IPC_BUF} : kern.pts["root"][Region(p)] # NoCap
  BY <1>3, RunnerLayout, SlotFacts
<1>6. HasCap(kern, fault_ep_slot, "endpoint") /\ HasCap(kern, tcb_slot, "tcb")
  BY <1>1 DEF AInv, CapsInv
<1>7. Extra \in Nat /\ NSlots \in Nat /\ Frames \in Nat
  BY <1>2, LayoutFacts, FixedSlots, LenProperties DEF Extra, Frames
<1> QED
  BY <1>2, <1>3, <1>4, <1>5, <1>6, <1>7

\* No further table is mapped.
LEMMA TabledRegions ==
    ASSUME AInv, pc \in Tabled, pc' \in Tabled, kern'.pts = kern.pts, mapped_pts' = mapped_pts,
           UNCHANGED inputs,
           pc' \in {"trampoline", "enter", "started"} => kern.pts["root"][Region(TLS_BASE)] # NoCap,
           pc' \in {"enter", "started"} => kern.pts["root"][Region(TRAMPOLINE)] # NoCap
    PROVE  RegionsInv'
<1>1. TablesNeeded' = TablesNeeded
  BY SameNeeds
<1>2. pc \in Begun /\ pc \notin Ends /\ pc' \notin {"parse"} \cup Early
  BY DEF Begun, Early, Ends, Tabled, Planned, Imaged, Stacked, Furnished
<1>3. /\ mapped_pts = TablesNeeded /\ HasTables(kern, mapped_pts)
      /\ kern.pts["root"][Region(STACK)] \in Slots /\ Region(LOAD_BASE) \in mapped_pts
      /\ \A r \in Regions : kern.pts["root"][r] \in Slots => r \in mapped_pts \/ r = Region(STACK)
  BY <1>2 DEF AInv, RegionsInv
<1> QED
  BY <1>1, <1>2, <1>3 DEF RegionsInv, HasTables

LEMMA PlanPagesAccount ==
    ASSUME IInv, AInv, PlanPages
    PROVE  AInv'
<1> DEFINE n == Len(Infos(Segments))
<1>1. /\ pc = "plan" /\ kern' = kern /\ UNCHANGED inputs /\ mapped_pts' = mapped_pts
      /\ page_info' = Infos(Segments) /\ done' = done
  BY DEF PlanPages
<1>2. IF n <= Len(recycled)
      THEN /\ frame_slots' = [i \in 1..n |-> recycled[Len(recycled) + 1 - i]]
           /\ recycled' = SubSeq(recycled, 1, Len(recycled) - n)
           /\ pc' = IF n = 0 THEN "panic" ELSE "frames"
      ELSE pc' = "failed"
  BY <1>1 DEF PlanPages
<1>3. pc \in Tabled
  BY <1>1 DEF Tabled
<1>4. /\ kern \in Kernels /\ Looked(kern) /\ PtLoads # <<>> /\ elf \in Elves
      /\ recycled \in Seq(Slots) /\ Tables \in Nat /\ Tables >= 1
      /\ NSlots \in Nat /\ HasCap(kern, fault_ep_slot, "endpoint") /\ HasCap(kern, tcb_slot, "tcb")
  BY <1>3, TabledFacts
<1>5. /\ Account(kern, Tables + 1, 0, Tables) /\ OnStack(recycled, Tables) /\ done = 0
      /\ Empty(kern, stack_frame_slot) /\ Empty(kern, ipc_frame_slot)
  BY <1>1 DEF AInv, StageInv, CapsInv, IInv, LoopInv
<1>6. n = Cardinality(ImagePages) /\ n \in Nat
  BY <1>4, PageCount
<1>7. /\ Len(recycled) = 2 * NSlots - 6 - Tables /\ 6 + Tables <= NSlots /\ Len(recycled) \in Nat
      /\ \A i \in 1..Len(recycled) : recycled[i] = StackSlot(i)
  BY <1>4, <1>5, LenProperties DEF OnStack, Account, Taken
<1>8. SameBoot(kern', kern) /\ kern' \in Kernels
  BY <1>1, <1>4 DEF SameBoot
<1> HIDE DEF n
<1>9. CASE ~(n <= Len(recycled))
  <2>1. pc' = "failed"
    BY <1>2, <1>9
  <2>2. ASSUME Enough PROVE FALSE
    <3>1. Affordable(Cardinality(TablesNeeded), n)
      BY <1>6, <2>2, EnoughUse
    <3>2. \A x : Affordable(x, n) => n <= NSlots
      BY DEF Affordable
    <3> QED
      BY <1>4, <1>6, <1>7, <1>9, <3>1, <3>2
  <2> QED
    BY <1>1, <1>8, <2>1, <2>2, FailStep
<1>10. CASE n <= Len(recycled) /\ n = 0
  <2>1. pc' = "panic"
    BY <1>2, <1>10
  <2> QED
    BY <2>1, EndStep DEF Ends
<1>11. CASE n <= Len(recycled) /\ n # 0
  <2>1. /\ pc' = "frames" /\ frame_slots' = [i \in 1..n |-> recycled[Len(recycled) + 1 - i]]
        /\ recycled' = SubSeq(recycled, 1, Len(recycled) - n)
    BY <1>2, <1>11
  <2>2. Frames' = n /\ Tables' = Tables
    BY <1>1, <1>6, <2>1 DEF Frames, Tables
  <2>3. OnStack(recycled', Tables + n)
    <3>1. n \in 0..Len(recycled)
      BY <1>6, <1>7, <1>11
    <3> QED
      BY <1>4, <1>5, <2>1, <3>1, PopSlots
  <2>4. Tables + 0 = Tables
    BY <1>4
  <2>5. StageInv'
    <3>1. Account(kern, Tables + 1, done, Tables + done)'
      BY <1>1, <1>5, <2>2, <2>4
    <3>2. OnStack(recycled, Tables + Frames)'
      BY <2>2, <2>3
    <3> QED
      BY <2>1, <3>1, <3>2 DEF StageInv
  <2>6. CapsInv'
    BY <1>1, <1>4, <1>5, <2>1 DEF CapsInv, Stacked, Furnished
  <2>7. FramesInv'
    <3>1. ASSUME NEW i \in 1..n PROVE frame_slots'[i] = StackSlot(2 * NSlots - 5 - Tables - i)
      <4>1. frame_slots'[i] = recycled[Len(recycled) + 1 - i]
        BY <2>1
      <4>2. Len(recycled) + 1 - i \in 1..Len(recycled)
        BY <1>6, <1>7, <1>11
      <4>3. Len(recycled) + 1 - i = 2 * NSlots - 5 - Tables - i
        BY <1>4, <1>6, <1>7
      <4> QED
        BY <1>7, <4>1, <4>2, <4>3
    <3>2. (\A i \in 1..Frames : frame_slots[i] = StackSlot(2 * NSlots - 5 - Tables - i))'
      BY <2>2, <3>1
    <3>3. (\A i \in 1..done : Ready(kern, i))'
      BY <1>1, <1>5
    <3> QED
      BY <2>1, <3>2, <3>3 DEF FramesInv
  <2>8. RegionsInv'
    BY <1>1, <1>3, <2>1, TabledRegions DEF Tabled, Planned
  <2>9. (Looked(kern))'
    BY <1>1, <1>4, <1>8, SameEnough
  <2> QED
    BY <2>1, <2>5, <2>6, <2>7, <2>8, <2>9, LaterAccount DEF Begun, Tabled, Planned
<1> QED
  BY <1>9, <1>10, <1>11


\* What is known once the pages are planned.
LEMMA PlannedFacts ==
    ASSUME IInv, AInv, pc \in Planned
    PROVE  /\ pc \in Tabled /\ Frames = Cardinality(ImagePages) /\ Frames = Len(page_info)
           /\ frame_slots \in Seq(Slots) /\ \A i \in 1..Frames : frame_slots[i] \in Slots
<1>1. pc \in Tabled
  BY DEF Tabled
<1>2. elf \in Elves /\ PtLoads # <<>>
  BY <1>1, TabledFacts
<1>3. page_info = Infos(Segments) /\ Len(frame_slots) = Len(page_info) /\ frame_slots \in Seq(Slots)
  BY DEF IInv, LoopInv, Shapes
<1>4. Len(Infos(Segments)) = Cardinality(ImagePages)
  BY <1>2, PageCount
<1>5. \A i \in 1..Frames : frame_slots[i] \in Slots
  BY <1>3, ElementOfSeq DEF Frames
<1> QED
  BY <1>1, <1>3, <1>4, <1>5 DEF Frames

LEMMA AffordableFits ==
    ASSUME NEW t, NEW n, Affordable(t, n), NEW s \in Nat, NEW b \in Nat, s <= t + Extra + 6, b <= n
    PROVE  Fits(kern, 2 * s, 2 * b) /\ NSlots \in Nat /\ Extra \in Nat /\ 8 + t + n + Extra <= NSlots
<1>1. \A x, y \in Nat : x <= t + Extra + 6 /\ y <= n => Fits(kern, 2 * x, 2 * y)
  BY DEF Affordable
<1>2. NSlots \in Nat /\ Extra \in Nat /\ 8 + t + n + Extra <= NSlots
  BY DEF Affordable
<1>3. Fits(kern, 2 * s, 2 * b)
  BY <1>1, Zenon
<1> QED
  BY <1>2, <1>3

\* The slots popped for the frames follow each other, as long as there are any.
LEMMA FrameSlotAt ==
    ASSUME NEW t \in Nat, NEW i \in Nat
    PROVE  /\ 6 + t + i <= NSlots => StackSlot(2 * NSlots - 5 - t - i) = FirstSlot + 5 + t + i
           /\ 6 + t + i = NSlots + 1 => StackSlot(2 * NSlots - 5 - t - i) = FirstSlot + 4 + t + i
<1>1. NSlots \in Nat /\ FirstSlot \in Nat /\ EndSlot = FirstSlot + NSlots
  BY FixedSlots
<1>2. ASSUME 6 + t + i <= NSlots PROVE StackSlot(2 * NSlots - 5 - t - i) = FirstSlot + 5 + t + i
  <2>1. ~(2 * NSlots - 5 - t - i <= NSlots)
    BY <1>1, <1>2
  <2> QED
    BY <1>1, <2>1 DEF StackSlot
<1>3. ASSUME 6 + t + i = NSlots + 1 PROVE StackSlot(2 * NSlots - 5 - t - i) = FirstSlot + 4 + t + i
  <2>1. 2 * NSlots - 5 - t - i = NSlots
    BY <1>1, <1>3
  <2> QED
    BY <1>1, <1>3, <2>1 DEF StackSlot
<1> QED
  BY <1>2, <1>3

CapsFilled(j, k, slot, n) ==
  j.caps = [s \in Slots |-> IF s \in slot..(slot + n - 1) THEN "frame" ELSE k.caps[s]]
FixedKept(j, k) ==
  \A s \in FirstSlot..(FirstSlot + 5) : \A ty : HasCap(k, s, ty) => HasCap(j, s, ty)
LEMMA TakeSlots ==
    ASSUME NEW k \in Kernels, NEW q \in Nat, Taken(k, q), NEW n \in Nat, 6 + q + n <= NSlots,
           NEW j \in Kernels, CapsFilled(j, k, FirstSlot + 6 + q, n)
    PROVE  Taken(j, q + n) /\ FixedKept(j, k)
<1> DEFINE slot == FirstSlot + 6 + q
<1>0. j.caps = [s \in Slots |-> IF s \in slot..(slot + n - 1) THEN "frame" ELSE k.caps[s]]
  BY DEF CapsFilled
<1>1. NSlots \in Nat /\ EndSlot = FirstSlot + NSlots /\ FirstSlot \in Nat
  BY FixedSlots
<1>2. ASSUME NEW s \in (FirstSlot + 6)..(FirstSlot + 5 + (q + n))
      PROVE  j.caps[s] # "null"
  <2>1. s \in slot..(slot + n - 1) \/ s \in (FirstSlot + 6)..(FirstSlot + 5 + q)
    BY <1>1
  <2>2. s \in Slots
    <3>1. FirstSlot + 5 + (q + n) <= EndSlot - 1 /\ EndSlot \in Nat
      BY <1>1
    <3>2. s \in Int /\ FirstSlot + 6 <= s /\ s <= FirstSlot + 5 + (q + n)
      BY <1>1
    <3>3. FirstSlot <= s /\ s <= EndSlot - 1
      BY <1>1, <3>1, <3>2
    <3> QED
      BY <1>1, <3>1, <3>2, <3>3 DEF Slots
  <2>3. s \in (FirstSlot + 6)..(FirstSlot + 5 + q) => k.caps[s] # "null"
    BY DEF Taken
  <2> QED
    BY <1>0, <2>1, <2>2, <2>3
<1>3. ASSUME NEW s \in (FirstSlot + 6 + (q + n))..(EndSlot - 1)
      PROVE  j.caps[s] = "null"
  <2>1. s \in (FirstSlot + 6 + q)..(EndSlot - 1) /\ s \notin slot..(slot + n - 1) /\ s \in Slots
    BY <1>1 DEF Slots
  <2> QED
    BY <1>0, <2>1 DEF Taken
<1>4. 6 + (q + n) <= NSlots
  BY <1>1
<1>5. ASSUME NEW other \in FirstSlot..(FirstSlot + 5), NEW x, HasCap(k, other, x)
      PROVE  HasCap(j, other, x)
  <2>1. other \notin slot..(slot + n - 1)
    BY <1>1
  <2> QED
    BY <1>0, <1>5, <2>1 DEF HasCap
<1> QED
  BY <1>2, <1>3, <1>4, <1>5 DEF Taken, FixedKept


\* The batch finds its slots in a row, empty, unless they have run out.
LEMMA RetypeBatchAccount ==
    ASSUME IInv, AInv, RetypeBatch
    PROVE  AInv'
<1> DEFINE n == BatchSize
<1> DEFINE slot == frame_slots[done + 1]
<1> DEFINE dest == slot..(slot + n - 1)
<1> DEFINE r == Retype(kern, Big(kern), "frame", slot, n)
<1> DEFINE q == Tables + done
<1>1. /\ pc = "frames" /\ done < Frames /\ UNCHANGED inputs /\ mapped_pts' = mapped_pts
      /\ kern' = r.k /\ pc' = (IF r.ok THEN "frames" ELSE "failed")
      /\ done' = (IF pc' = "frames" THEN done + n ELSE done)
      /\ recycled' = recycled /\ frame_slots' = frame_slots
  BY DEF RetypeBatch, Goto, Big, Frames
<1>2. pc \in Planned /\ pc \in Tabled
  BY <1>1 DEF Planned, Tabled
<1>3. /\ kern \in Kernels /\ Sound(kern) /\ Looked(kern) /\ Tables \in Nat /\ Tables >= 1
      /\ Frames \in Nat /\ done \in Nat /\ NSlots \in Nat /\ Tables = Cardinality(TablesNeeded)
      /\ Frames = Cardinality(ImagePages) /\ \A i \in 1..Frames : frame_slots[i] \in Slots
      /\ HasCap(kern, fault_ep_slot, "endpoint") /\ HasCap(kern, tcb_slot, "tcb")
  BY <1>2, TabledFacts, PlannedFacts
<1>4. /\ Spent(kern, 2 * ((Tables + 1) + 1), 2 * done) /\ Taken(kern, q)
      /\ OnStack(recycled, Tables + Frames)
      /\ Empty(kern, stack_frame_slot) /\ Empty(kern, ipc_frame_slot)
      /\ \A i \in 1..Frames : frame_slots[i] = StackSlot(2 * NSlots - 5 - Tables - i)
      /\ \A i \in 1..done : Ready(kern, i)
  BY <1>1 DEF AInv, StageInv, CapsInv, FramesInv, Account
<1>5. n \in 1..RetypeFanOut /\ n \in Nat /\ n >= 1 /\ done + n <= Frames
  <2>1. RetypeFanOut \in Nat \ {0}
    BY KernelConstants
  <2> QED
    BY <1>1, <1>3, <2>1 DEF BatchSize, MinOf, Frames
<1>6. done + 1 \in 1..Frames /\ slot \in Slots /\ slot \in Int
  <2>1. done + 1 \in 1..Frames
    BY <1>1, <1>3
  <2>2. slot \in Slots
    BY <1>3, <2>1
  <2>3. Slots \subseteq Int
    BY KernelConstants DEF Slots
  <2> QED
    BY <2>1, <2>2, <2>3
<1>7. FirstSlot \in Nat /\ EndSlot = FirstSlot + NSlots
  BY FixedSlots
<1>8. 6 + q <= NSlots
  BY <1>4 DEF Taken
<1>9. slot = (IF 6 + q < NSlots THEN FirstSlot + 6 + q ELSE FirstSlot + 5 + q)
  <2>1. slot = StackSlot(2 * NSlots - 5 - Tables - (done + 1))
    BY <1>4, <1>6
  <2>2. done + 1 \in Nat
    BY <1>3
  <2>3. 6 + q < NSlots => 6 + Tables + (done + 1) <= NSlots
    BY <1>3
  <2>4. ~(6 + q < NSlots) => 6 + Tables + (done + 1) = NSlots + 1
    BY <1>3, <1>8
  <2>5. 6 + q < NSlots => slot = FirstSlot + 5 + Tables + (done + 1)
    BY <1>3, <2>1, <2>2, <2>3, FrameSlotAt
  <2>6. ~(6 + q < NSlots) => slot = FirstSlot + 4 + Tables + (done + 1)
    BY <1>3, <2>1, <2>2, <2>4, FrameSlotAt
  <2> QED
    BY <1>3, <1>7, <2>5, <2>6
<1>10. /\ SameBoot(r.k, kern)
       /\ r.ok <=> /\ Fits(kern, 2 * ((Tables + 1) + 1), 2 * (done + n))
                   /\ \A s \in dest : Empty(kern, s)
       /\ r.ok => Spent(r.k, 2 * ((Tables + 1) + 1), 2 * (done + n))
  <2>1. (Tables + 1) + 1 \in Nat
    BY <1>3
  <2> QED
    BY <1>3, <1>4, <1>5, <1>6, <2>1, BatchExact
<1>11. Retyped(r, kern, "frame", slot, n)
  BY <1>3, <1>5, <1>6, RetypeFacts DEF CapTypes
<1> HIDE DEF n, slot, r, dest, q
<1>12. /\ r.k \in Kernels /\ r.ok \in BOOLEAN /\ r.k.pts = kern.pts /\ r.k.at = kern.at
       /\ r.ok => r.k.caps = [s \in Slots |-> IF s \in slot..(slot + n - 1) THEN "frame" ELSE kern.caps[s]]
  BY <1>11 DEF Retyped, SameMemory
<1>13. q \in Nat /\ q = Tables + done /\ q >= 1
  BY <1>3 DEF q
<1>14. CASE ~r.ok
  <2>1. ASSUME Enough PROVE FALSE
    <3>1. Affordable(Tables, Frames)
      BY <1>3, <2>1, EnoughUse
    <3>2. /\ Fits(kern, 2 * ((Tables + 1) + 1), 2 * (done + n))
          /\ Extra \in Nat /\ 8 + Tables + Frames + Extra <= NSlots
      <4>1. /\ (Tables + 1) + 1 \in Nat /\ done + n \in Nat /\ done + n <= Frames
        BY <1>3, <1>5
      <4>2. Extra \in Nat /\ (Tables + 1) + 1 <= Tables + Extra + 6
        BY <1>2, <1>3, TabledFacts
      <4> QED
        BY <3>1, <4>1, <4>2, AffordableFits
    <3>3. 6 + q + n <= NSlots /\ 6 + q < NSlots
      BY <1>3, <1>5, <1>13, <3>2
    <3>4. ASSUME NEW s \in dest PROVE Empty(kern, s)
      <4>1. slot = FirstSlot + 6 + q
        BY <1>9, <3>3
      <4>2. s \in (FirstSlot + 6 + q)..(EndSlot - 1)
        BY <1>3, <1>5, <1>7, <1>13, <3>3, <4>1 DEF dest
      <4>3. s \in Slots
        BY <1>3, <1>7, <1>13, <4>2 DEF Slots
      <4> QED
        BY <1>4, <4>2, <4>3 DEF Taken, Empty, HasCap
    <3> QED
      BY <1>10, <1>14, <3>2, <3>4
  <2> QED
    BY <1>1, <1>10, <1>12, <1>14, <2>1, FailStep
<1>15. CASE r.ok
  <2>1. pc' = "frames" /\ done' = done + n /\ Tables' = Tables /\ Frames' = Frames
    BY <1>1, <1>15 DEF Tables, Frames
  <2>2. slot \in dest /\ slot + n - 1 \in dest
    BY <1>5, <1>6 DEF dest
  <2>3. Empty(kern, slot) /\ Empty(kern, slot + n - 1)
    BY <1>10, <1>15, <2>2
  <2>4. 6 + q < NSlots
    <3> SUFFICES ASSUME ~(6 + q < NSlots) PROVE FALSE
      OBVIOUS
    <3>1. slot = FirstSlot + 5 + q
      BY <1>9
    <3>2. slot \in (FirstSlot + 6)..(FirstSlot + 5 + q)
      BY <1>7, <1>13, <3>1
    <3> QED
      BY <1>4, <2>3, <3>2 DEF Taken, Empty, HasCap
  <2>5. slot = FirstSlot + 6 + q
    BY <1>9, <2>4
  <2>6. 6 + q + n <= NSlots
    <3>1. slot + n - 1 \in Slots
      BY <2>3 DEF Empty, HasCap
    <3> QED
      BY <1>3, <1>5, <1>7, <1>13, <2>5, <3>1 DEF Slots
  <2>7. Taken(kern', q + n) /\ FixedKept(kern', kern)
    <3>1. /\ kern' \in Kernels /\ "frame" # "null"
          /\ kern'.caps = [s \in Slots |-> IF s \in slot..(slot + n - 1) THEN "frame" ELSE kern.caps[s]]
      BY <1>1, <1>12, <1>15
    <3>2. Taken(kern, q) /\ n \in Nat
      BY <1>4, <1>5 DEF q
    <3>3. /\ kern \in Kernels /\ q \in Nat /\ CapsFilled(kern', kern, FirstSlot + 6 + q, n)
          /\ kern' \in Kernels
      BY <1>3, <1>13, <2>5, <3>1 DEF CapsFilled
    <3> QED
      BY <2>6, <3>2, <3>3, TakeSlots
  <2>8. StageInv'
    <3>1. q + n = Tables + (done + n)
      BY <1>3, <1>5, <1>13
    <3>2. Account(kern, Tables + 1, done, Tables + done)'
      BY <1>1, <1>10, <1>15, <2>1, <2>7, <3>1 DEF Account
    <3>3. OnStack(recycled, Tables + Frames)'
      BY <1>1, <1>4, <2>1
    <3> QED
      BY <2>1, <3>2, <3>3 DEF StageInv
  <2>9. CapsInv'
    <3>1. /\ Empty(kern', stack_frame_slot) /\ Empty(kern', ipc_frame_slot)
          /\ HasCap(kern', fault_ep_slot, "endpoint") /\ HasCap(kern', tcb_slot, "tcb")
      BY <1>3, <1>4, <2>7, FixedSlots DEF Empty, FixedKept
    <3> QED
      BY <2>1, <3>1 DEF CapsInv, Stacked, Furnished
  <2>10. ASSUME NEW i \in 1..(done + n)
         PROVE  HasCap(kern', frame_slots[i], "frame") /\ kern'.at[frame_slots[i]] = Nowhere
    <3>1. CASE i \in 1..done
      <4>1. HasCap(kern, frame_slots[i], "frame") /\ kern.at[frame_slots[i]] = Nowhere
        BY <1>4, <3>1 DEF Ready
      <4> QED
        BY <1>1, <1>12, <1>15, <4>1 DEF HasCap
    <3>2. CASE i \notin 1..done
      <4>1. i \in 1..Frames /\ i \in Nat /\ done < i /\ i <= done + n
        BY <1>3, <1>5, <3>2
      <4>2. frame_slots[i] = StackSlot(2 * NSlots - 5 - Tables - i)
        BY <1>4, <4>1
      <4>3. 6 + Tables + i <= NSlots
        BY <1>3, <1>5, <1>13, <2>6, <4>1
      <4>4. frame_slots[i] = FirstSlot + 5 + Tables + i
        BY <1>3, <4>1, <4>2, <4>3, FrameSlotAt
      <4>5. frame_slots[i] \in dest
        BY <1>3, <1>5, <1>7, <1>13, <2>5, <4>1, <4>4 DEF dest
      <4>6. Empty(kern, frame_slots[i]) /\ frame_slots[i] \in Slots
        BY <1>3, <1>10, <1>15, <4>1, <4>5
      <4>7. kern.at[frame_slots[i]] = Nowhere
        BY <1>3, <4>6 DEF Sound, Empty, HasCap
      <4> QED
        BY <1>1, <1>12, <1>15, <4>5, <4>6, <4>7 DEF HasCap, dest
    <3> QED
      BY <3>1, <3>2
  <2>11. FramesInv'
    <3>1. (\A i \in 1..done : Ready(kern, i))'
      BY <1>1, <2>1, <2>10 DEF Ready
    <3>2. (\A i \in 1..Frames : frame_slots[i] = StackSlot(2 * NSlots - 5 - Tables - i))'
      BY <1>1, <1>4, <2>1
    <3> QED
      BY <2>1, <3>1, <3>2 DEF FramesInv
  <2>12. RegionsInv'
    BY <1>1, <1>2, <1>12, <2>1, TabledRegions DEF Tabled, Planned
  <2>13. (Looked(kern))'
    BY <1>1, <1>3, <1>10, <1>12, SameEnough
  <2> QED
    BY <2>1, <2>8, <2>9, <2>11, <2>12, <2>13, LaterAccount DEF Begun, Tabled, Planned
<1> QED
  BY <1>12, <1>14, <1>15


\* Steps that make no object and map no table.
SameHoldings(j, k) == j.caps = k.caps /\ j.untyped = k.untyped /\ j.pts = k.pts
LEMMA SameAccount ==
    ASSUME NEW k \in Kernels, NEW j \in Kernels, SameHoldings(j, k)
    PROVE  /\ SameBoot(j, k)
           /\ \A x, b, q : Account(k, x, b, q) => Account(j, x, b, q)
           /\ \A slot, ty : HasCap(k, slot, ty) => HasCap(j, slot, ty)
           /\ \A slot : Empty(k, slot) => Empty(j, slot)
<1>1. SameBoot(j, k)
  BY DEF SameBoot, SameHoldings
<1>2. Small(j) = Small(k) /\ Big(j) = Big(k)
  BY <1>1, SameSizes
<1>3. \A slot, ty : HasCap(k, slot, ty) => HasCap(j, slot, ty)
  BY DEF HasCap, SameHoldings
<1>4. ASSUME NEW x, NEW b, NEW q, Account(k, x, b, q) PROVE Account(j, x, b, q)
  <2>1. Spent(j, 2 * (x + 1), 2 * b)
    BY <1>2, <1>4 DEF Account, Spent, SameHoldings
  <2>2. Taken(j, q)
    BY <1>4 DEF Account, Taken, SameHoldings
  <2> QED
    BY <2>1, <2>2 DEF Account
<1> QED
  BY <1>1, <1>3, <1>4 DEF Empty

LEMMA AllRetypedAccount ==
    ASSUME IInv, AInv, AllRetyped
    PROVE  AInv'
<1>1. /\ pc = "frames" /\ done = Frames /\ pc' = "load" /\ done' = 0 /\ kern' = kern
      /\ UNCHANGED inputs /\ mapped_pts' = mapped_pts /\ frame_slots' = frame_slots
      /\ recycled' = recycled
  BY DEF AllRetyped, Frames
<1>2. pc \in Tabled
  BY <1>1 DEF Tabled, Planned
<1>3. /\ kern \in Kernels /\ Looked(kern) /\ Tables \in Nat /\ Frames \in Nat /\ NSlots \in Nat
      /\ HasCap(kern, fault_ep_slot, "endpoint") /\ HasCap(kern, tcb_slot, "tcb")
  BY <1>2, TabledFacts
<1>4. /\ Account(kern, Tables + 1, Frames, Tables + Frames) /\ OnStack(recycled, Tables + Frames)
      /\ Empty(kern, stack_frame_slot) /\ Empty(kern, ipc_frame_slot)
      /\ \A i \in 1..Frames : frame_slots[i] = StackSlot(2 * NSlots - 5 - Tables - i)
      /\ \A i \in 1..Frames : Ready(kern, i)
  BY <1>1 DEF AInv, StageInv, CapsInv, FramesInv
<1>5. Tables' = Tables /\ Frames' = Frames
  BY <1>1 DEF Tables, Frames
<1>6. StageInv'
  <2>1. Account(kern, Tables + 1, Frames, Tables + Frames)' /\ OnStack(recycled, Tables + Frames)'
    BY <1>1, <1>4, <1>5
  <2> QED
    BY <1>1, <2>1 DEF StageInv
<1>7. CapsInv'
  BY <1>1, <1>3, <1>4 DEF CapsInv, Stacked, Furnished
<1>8. ASSUME NEW i \in 1..Frames PROVE frame_slots[i] = FirstSlot + 5 + Tables + i
  <2>1. 6 + (Tables + Frames) <= NSlots
    BY <1>4 DEF Account, Taken
  <2>2. i \in Nat /\ 6 + Tables + i <= NSlots
    BY <1>3, <2>1
  <2> QED
    BY <1>3, <1>4, <2>2, FrameSlotAt
<1>9. \A i, j \in 1..Frames : frame_slots[i] = frame_slots[j] => i = j
  BY <1>3, <1>8, FixedSlots
<1>10. FramesInv'
  <2>1. (\A i \in (done + 1)..Frames : Ready(kern, i))'
    BY <1>1, <1>3, <1>4, <1>5 DEF Ready
  <2>2. (\A i, j \in 1..Frames : frame_slots[i] = frame_slots[j] => i = j)'
    BY <1>1, <1>5, <1>9
  <2> QED
    BY <1>1, <2>1, <2>2 DEF FramesInv
<1>11. RegionsInv'
  BY <1>1, <1>2, TabledRegions DEF Tabled, Planned
<1>12. (Looked(kern))'
  BY <1>1, <1>3, SameEnough DEF SameBoot
<1> QED
  BY <1>1, <1>6, <1>7, <1>10, <1>11, <1>12, LaterAccount DEF Begun, Tabled, Planned

\* A page of the image can always be mapped: its frame has just been made and
\* its region has a table.
LEMMA LoadPageAccount ==
    ASSUME IInv, AInv, LoadPage, IInv'
    PROVE  AInv'
<1> DEFINE i == page_info[done + 1]
<1> DEFINE s == frame_slots[done + 1]
<1> DEFINE f == Frame_Map(kern, s, "root", i.page)
<1> DEFINE j == IF f.ok THEN Stored(f.k, i.page, Filled(f.k, i)) ELSE f.k
<1>1. /\ UNCHANGED <<recycled, mapped_pts, page_info, frame_slots>> /\ UNCHANGED inputs
      /\ pc = "load" /\ done < Len(page_info) /\ done' = done + 1
      /\ kern' = [f EXCEPT !.k = j].k
      /\ pc' = IF [f EXCEPT !.k = j].ok THEN "load" ELSE "failed"
  BY DEF LoadPage, Goto
<1>2. pc \in Tabled /\ pc \in Planned
  BY <1>1 DEF Tabled, Planned
<1>3. /\ kern \in Kernels /\ Looked(kern) /\ Tables \in Nat /\ Frames \in Nat /\ done \in Nat
      /\ HasCap(kern, fault_ep_slot, "endpoint") /\ HasCap(kern, tcb_slot, "tcb")
      /\ elf \in Elves /\ PtLoads # <<>> /\ mapped_pts = TablesNeeded /\ HasTables(kern, mapped_pts)
      /\ Frames = Len(page_info) /\ \A x \in 1..Frames : frame_slots[x] \in Slots
  BY <1>2, TabledFacts, PlannedFacts
<1>4. /\ Account(kern, Tables + 1, Frames, Tables + Frames) /\ OnStack(recycled, Tables + Frames)
      /\ Empty(kern, stack_frame_slot) /\ Empty(kern, ipc_frame_slot)
      /\ \A x \in (done + 1)..Frames : Ready(kern, x)
      /\ \A x, y \in 1..Frames : frame_slots[x] = frame_slots[y] => x = y
  BY <1>1 DEF AInv, StageInv, CapsInv, FramesInv
<1>5. page_info = Infos(Segments) /\ page_info \in Seq(InfoType) /\ kern' \in Kernels
  BY <1>2 DEF IInv, LoopInv, Shapes, Sound
<1>6. done + 1 \in 1..Frames /\ done + 1 \in (done + 1)..Frames /\ done + 1 \in DOMAIN page_info
  <2>1. DOMAIN page_info = 1..Len(page_info)
    BY <1>5, LenProperties
  <2> QED
    BY <1>1, <1>3, <2>1
<1>7. /\ i.page \in Pages /\ Region(i.page) \in AllRegions
  BY <1>3, <1>5, <1>6, InfosFacts
<1>8. HasCap(kern, s, "frame") /\ kern.at[s] = Nowhere /\ s \in Slots
  BY <1>3, <1>4, <1>6 DEF Ready
<1>9. kern.pts["root"][Region(i.page)] # NoCap
  BY <1>3, <1>7 DEF HasTables, TablesNeeded, AllRegions
<1>10. CanMap(kern, s, "root", i.page)
  BY <1>8, <1>9 DEF CanMap
<1>11. f.ok /\ f.k = [kern EXCEPT !.vmap["root"][i.page] = s, !.at[s] = <<"root", i.page>>]
  BY <1>10 DEF Frame_Map, Succeeds
<1>12. kern' = Stored(f.k, i.page, Filled(f.k, i)) /\ pc' = "load"
  <2>1. kern' = j /\ pc' = IF f.ok THEN "load" ELSE "failed"
    <3> HIDE DEF i, j, s
    <3> QED
      BY <1>1, MakeResult
  <2> QED
    BY <1>11, <2>1
<1> HIDE DEF f, i, s
<1>13. /\ SameHoldings(f.k, kern)
       /\ \A x \in Slots : x # s => f.k.at[x] = kern.at[x]
  <2>1. kern.at = [x \in Slots |-> kern.at[x]]
    BY <1>3 DEF Kernels
  <2> QED
    BY <1>11, <2>1 DEF SameHoldings
<1>14. SameHoldings(kern', kern) /\ \A x \in Slots : x # s => kern'.at[x] = kern.at[x]
  BY <1>12, <1>13 DEF SameHoldings, Stored
<1>15. Tables' = Tables /\ Frames' = Frames
  BY <1>1 DEF Tables, Frames
<1>16. /\ SameBoot(kern', kern) /\ Account(kern', Tables + 1, Frames, Tables + Frames)
       /\ Empty(kern', stack_frame_slot) /\ Empty(kern', ipc_frame_slot)
       /\ HasCap(kern', fault_ep_slot, "endpoint") /\ HasCap(kern', tcb_slot, "tcb")
       /\ \A slot, ty : HasCap(kern, slot, ty) => HasCap(kern', slot, ty)
  BY <1>3, <1>4, <1>5, <1>14, SameAccount
<1>17. StageInv'
  <2>1. Account(kern, Tables + 1, Frames, Tables + Frames)' /\ OnStack(recycled, Tables + Frames)'
    BY <1>1, <1>4, <1>15, <1>16
  <2> QED
    BY <1>12, <2>1 DEF StageInv
<1>18. CapsInv'
  BY <1>12, <1>16 DEF CapsInv, Stacked, Furnished
<1>19. ASSUME NEW x \in (done + 1 + 1)..Frames
       PROVE  HasCap(kern', frame_slots[x], "frame") /\ kern'.at[frame_slots[x]] = Nowhere
  <2>1. x \in (done + 1)..Frames /\ x \in 1..Frames /\ x # done + 1
    BY <1>3
  <2>2. HasCap(kern, frame_slots[x], "frame") /\ kern.at[frame_slots[x]] = Nowhere
    BY <1>4, <2>1 DEF Ready
  <2>3. frame_slots[x] # s /\ frame_slots[x] \in Slots
    BY <1>3, <1>4, <1>6, <2>1 DEF s
  <2> QED
    BY <1>14, <1>16, <2>2, <2>3
<1>20. FramesInv'
  <2>1. (\A x \in (done + 1)..Frames : Ready(kern, x))'
    BY <1>1, <1>15, <1>19 DEF Ready
  <2>2. (\A x, y \in 1..Frames : frame_slots[x] = frame_slots[y] => x = y)'
    BY <1>1, <1>4, <1>15
  <2> QED
    BY <1>12, <2>1, <2>2 DEF FramesInv
<1>21. RegionsInv'
  BY <1>1, <1>2, <1>12, <1>14, TabledRegions DEF Tabled, Planned, SameHoldings
<1>22. (Looked(kern))'
  BY <1>1, <1>3, <1>5, <1>16, SameEnough
<1> QED
  BY <1>12, <1>17, <1>18, <1>20, <1>21, <1>22, LaterAccount DEF Begun, Tabled, Planned


\* The stages after the image.
LEMMA ImagedAccount ==
    ASSUME IInv, AInv, pc \in Tabled, pc' \in Imaged, StageInv', kern' \in Kernels,
           SameBoot(kern', kern), kern'.pts = kern.pts, mapped_pts' = mapped_pts, UNCHANGED inputs,
           HasCap(kern', fault_ep_slot, "endpoint"), HasCap(kern', tcb_slot, "tcb"),
           pc' = "stack" => Empty(kern', stack_frame_slot),
           pc' \in {"stack", "extra"} => Empty(kern', ipc_frame_slot),
           pc' \in Stacked => HasCap(kern', ipc_frame_slot, "frame"),
           pc' \in {"trampoline", "enter", "started"} => kern.pts["root"][Region(TLS_BASE)] # NoCap,
           pc' \in {"enter", "started"} => kern.pts["root"][Region(TRAMPOLINE)] # NoCap
    PROVE  AInv'
<1>1. pc' \in Tabled /\ pc' \in Begun /\ pc' \notin {"plan", "frames", "load", "tcb", "pt_load"}
  BY DEF Begun, Tabled, Planned, Imaged, Stacked, Furnished
<1>2. CapsInv' /\ FramesInv'
  BY <1>1 DEF CapsInv, FramesInv
<1>3. RegionsInv'
  BY <1>1, TabledRegions
<1>4. kern \in Kernels /\ Looked(kern)
  BY TabledFacts
<1>5. (Looked(kern))'
  BY <1>4, SameEnough
<1> QED
  BY <1>1, <1>2, <1>3, <1>5, LaterAccount

LEMMA PatchEntryAccount ==
    ASSUME IInv, AInv, PatchEntry, IInv'
    PROVE  AInv'
<1>1. /\ pc = "load" /\ pc' \in {"stack", "fault"} /\ UNCHANGED inputs /\ recycled' = recycled
      /\ mapped_pts' = mapped_pts /\ frame_slots' = frame_slots
  BY DEF PatchEntry, plan
<1>2. CASE pc' = "fault"
  BY <1>2, EndStep DEF Ends
<1>3. CASE pc' = "stack"
  <2>1. pc \in Tabled /\ pc' \in Imaged /\ pc' \notin Stacked
    BY <1>1, <1>3 DEF Tabled, Planned, Imaged, Stacked, Furnished
  <2>2. /\ kern \in Kernels /\ HasCap(kern, fault_ep_slot, "endpoint") /\ HasCap(kern, tcb_slot, "tcb")
    BY <2>1, TabledFacts
  <2>3. /\ Account(kern, Tables + 1, Frames, Tables + Frames) /\ OnStack(recycled, Tables + Frames)
        /\ Empty(kern, stack_frame_slot) /\ Empty(kern, ipc_frame_slot)
    BY <1>1 DEF AInv, StageInv, CapsInv
  <2>4. kern' \in Kernels
    BY DEF IInv, Sound
  <2>5. SameHoldings(kern', kern)
    <3>1. \A d : SameHoldings([kern EXCEPT !.data = d], kern)
      BY <2>2 DEF SameHoldings, Kernels
    <3>2. \E d : kern' = [kern EXCEPT !.data = d]
      BY <1>3 DEF PatchEntry
    <3> QED
      BY <3>1, <3>2
  <2>6. /\ SameBoot(kern', kern) /\ Account(kern', Tables + 1, Frames, Tables + Frames)
        /\ Empty(kern', stack_frame_slot) /\ Empty(kern', ipc_frame_slot)
        /\ HasCap(kern', fault_ep_slot, "endpoint") /\ HasCap(kern', tcb_slot, "tcb")
    BY <2>2, <2>3, <2>4, <2>5, SameAccount
  <2>7. StageInv'
    <3>1. Tables' = Tables /\ Frames' = Frames
      BY <1>1 DEF Tables, Frames
    <3>2. Account(kern, Tables + 1, Frames, Tables + Frames)' /\ OnStack(recycled, Tables + Frames)'
      BY <1>1, <2>3, <2>6, <3>1
    <3> QED
      BY <1>3, <3>2 DEF StageInv
  <2> QED
    BY <1>1, <1>3, <2>1, <2>4, <2>5, <2>6, <2>7, ImagedAccount DEF SameHoldings
<1> QED
  BY <1>1, <1>2, <1>3


\* A frame in one of the fixed slots.
LEMMA FixedFrame ==
    ASSUME IInv, AInv, pc \in Planned, NEW page \in Pages, NEW slot \in FirstSlot..(FirstSlot + 5),
           NEW x \in Nat, NEW q \in Nat, Account(kern, x, Frames, q), Empty(kern, slot),
           x + 2 <= Tables + Extra + 6, kern.pts["root"][Region(page)] # NoCap
    PROVE  LET r == MakeFrame(kern, slot, "root", page) IN
           /\ r.k \in Kernels /\ SameBoot(r.k, kern) /\ r.k.pts = kern.pts /\ r.ok \in BOOLEAN
           /\ ~r.ok => ~Enough
           /\ r.ok => Account(r.k, x + 1, Frames, q) /\ r.k.caps = [kern.caps EXCEPT ![slot] = "frame"]
<1> DEFINE r == MakeFrame(kern, slot, "root", page)
<1>1. pc \in Tabled /\ Frames = Cardinality(ImagePages)
  BY PlannedFacts
<1>2. /\ kern \in Kernels /\ Sound(kern) /\ Looked(kern) /\ Tables \in Nat /\ Frames \in Nat
      /\ Tables = Cardinality(TablesNeeded) /\ Extra \in Nat
  BY <1>1, TabledFacts
<1>3. Spent(kern, 2 * (x + 1), 2 * Frames) /\ Taken(kern, q)
  BY DEF Account
<1>4. slot \in Int /\ x + 1 \in Nat
  BY FixedSlots
<1>5. Framed(r, kern, x + 1, Frames, slot, page)
  BY <1>2, <1>3, <1>4, FrameExact
<1>6. r.ok \in BOOLEAN
  <2>1. r.ok \in BOOLEAN
    BY <1>2, <1>4, MakeFrameKeeps
  <2> QED
    BY <2>1
<1> HIDE DEF r
<1>7. /\ r.k \in Kernels /\ SameBoot(r.k, kern) /\ r.k.pts = kern.pts
      /\ r.ok <=> Fits(kern, 2 * ((x + 1) + 1), 2 * Frames)
      /\ r.ok => Spent(r.k, 2 * ((x + 1) + 1), 2 * Frames) /\ r.k.caps = [kern.caps EXCEPT ![slot] = "frame"]
  BY <1>5 DEF Framed
<1>8. ASSUME Enough PROVE r.ok
  <2>1. Affordable(Tables, Frames)
    BY <1>1, <1>2, <1>8, EnoughUse
  <2>2. (x + 1) + 1 \in Nat /\ (x + 1) + 1 <= Tables + Extra + 6 /\ Frames <= Frames
    BY <1>2
  <2>3. Fits(kern, 2 * ((x + 1) + 1), 2 * Frames)
    BY <1>2, <2>1, <2>2, AffordableFits
  <2> QED
    BY <1>7, <2>3
<1>9. ASSUME r.ok PROVE Account(r.k, x + 1, Frames, q)
  <2>1. Taken(r.k, q)
    BY <1>2, <1>3, <1>7, <1>9, FixedSlot
  <2> QED
    BY <1>7, <1>9, <2>1 DEF Account
<1> QED
  BY <1>6, <1>7, <1>8, <1>9 DEF r

\* A frame in a popped slot: the account after it, or something was short.
Popped(page, next, x, q) ==
  \/ pc' = "failed" /\ AInv'
  \/ /\ pc' = next /\ kern' \in Kernels /\ SameBoot(kern', kern) /\ kern'.pts = kern.pts
     /\ Account(kern', x + 1, Frames, q + 1) /\ OnStack(recycled', q + 1)
     /\ kern.pts["root"][Region(page)] # NoCap
     /\ \A s \in FirstSlot..(FirstSlot + 5) : \A ty : HasCap(kern, s, ty) => HasCap(kern', s, ty)
LEMMA PoppedFrame ==
    ASSUME IInv, AInv, pc \in Planned, NEW page \in Pages, NEW next, NEW cells \in [Cells -> Int],
           AllocFrame(page, next, cells), UNCHANGED inputs,
           NEW x \in Nat, NEW q \in Nat, q > 0, Account(kern, x, Frames, q), OnStack(recycled, q),
           x + 2 <= Tables + Extra + 6, q < Tables + Frames + Extra + 2,
           Enough => kern.pts["root"][Region(page)] # NoCap
    PROVE  Popped(page, next, x, q)
<1> DEFINE slot == alloc(recycled)
<1> DEFINE r == MakeFrame(kern, slot, "root", page)
<1> DEFINE j == IF r.ok THEN Stored(r.k, page, cells) ELSE r.k
<1>1. pc \in Tabled /\ Frames = Cardinality(ImagePages)
  BY PlannedFacts
<1>2. /\ kern \in Kernels /\ Sound(kern) /\ Looked(kern) /\ Tables \in Nat /\ Frames \in Nat
      /\ Tables = Cardinality(TablesNeeded) /\ Extra \in Nat /\ recycled \in Seq(Slots)
  BY <1>1, TabledFacts
<1>3. Spent(kern, 2 * (x + 1), 2 * Frames) /\ Taken(kern, q)
  BY DEF Account
<1>4. /\ slot \in Slots /\ (Empty(kern, slot) <=> 6 + q < NSlots)
      /\ 6 + q < NSlots => slot = FirstSlot + 6 + q
      /\ OnStack(after_alloc(recycled), q + 1)
  BY <1>2, <1>3, TopSlot
<1>5. slot \in Int /\ x + 1 \in Nat
  <2>1. slot \in Int
    BY <1>2, AllocFacts, Zenon
  <2>2. x + 1 \in Nat
    OBVIOUS
  <2> QED
    BY <2>1, <2>2
<1>6. Framed(r, kern, x + 1, Frames, slot, page)
  BY <1>2, <1>3, <1>5, FrameExact
<1>7. r.ok \in BOOLEAN
  BY <1>2, <1>5, MakeFrameKeeps
<1>8. kern' = j /\ pc' = (IF r.ok THEN next ELSE "failed") /\ recycled' = after_alloc(recycled)
  <2>1. /\ kern' = [r EXCEPT !.k = j].k /\ pc' = IF [r EXCEPT !.k = j].ok THEN next ELSE "failed"
        /\ recycled' = after_alloc(recycled)
    BY DEF AllocFrame, Goto
  <2>2. [r EXCEPT !.k = j].k = j /\ [r EXCEPT !.k = j].ok = r.ok
    <3> HIDE DEF j
    <3>1. r \in {Make(kern, "frame", slot), Frame_Map(Make(kern, "frame", slot).k, slot, "root", page)}
      BY DEF MakeFrame
    <3> HIDE DEF r, slot
    <3> QED
      BY <3>1, MakeResult
  <2> QED
    BY <2>1, <2>2
<1>9. kern' \in Kernels
  BY AllocFrameFacts DEF Placed, Keeps, Sound
<1> HIDE DEF r, slot
<1>10. /\ r.k \in Kernels /\ SameBoot(r.k, kern) /\ r.k.pts = kern.pts
       /\ r.ok <=> /\ Fits(kern, 2 * ((x + 1) + 1), 2 * Frames) /\ Empty(kern, slot)
                   /\ kern.pts["root"][Region(page)] # NoCap
       /\ r.ok => Spent(r.k, 2 * ((x + 1) + 1), 2 * Frames) /\ r.k.caps = [kern.caps EXCEPT ![slot] = "frame"]
  BY <1>6 DEF Framed
<1>11. CASE ~r.ok
  <2>1. ASSUME Enough PROVE FALSE
    <3>1. Affordable(Tables, Frames)
      BY <1>1, <1>2, <2>1, EnoughUse
    <3>2. (x + 1) + 1 \in Nat /\ (x + 1) + 1 <= Tables + Extra + 6 /\ Frames <= Frames
      BY <1>2
    <3>3. /\ Fits(kern, 2 * ((x + 1) + 1), 2 * Frames)
          /\ NSlots \in Nat /\ 8 + Tables + Frames + Extra <= NSlots
      BY <1>2, <3>1, <3>2, AffordableFits
    <3>4. 6 + q < NSlots
      <4>1. \A a, b, c, d, n \in Nat : d < a + b + c + 2 /\ 8 + a + b + c <= n => 6 + d < n
        OBVIOUS
      <4> QED
        BY <1>2, <3>3, <4>1
    <3> QED
      BY <1>4, <1>10, <1>11, <2>1, <3>3, <3>4
  <2>2. pc' = "failed" /\ kern' = r.k
    BY <1>8, <1>11
  <2>3. AInv'
    BY <1>10, <2>1, <2>2, FailStep
  <2> QED
    BY <2>2, <2>3 DEF Popped
<1>12. CASE r.ok
  <2>1. pc' = next /\ kern' = Stored(r.k, page, cells)
    BY <1>8, <1>12
  <2>2. SameHoldings(kern', r.k)
    BY <2>1 DEF Stored, SameHoldings
  <2>3. 6 + q < NSlots /\ slot = FirstSlot + 6 + q
    BY <1>4, <1>10, <1>12
  <2>4. Taken(r.k, q + 1)
    BY <1>2, <1>3, <1>10, <1>12, <2>3, TakeSlot
  <2>5. Account(r.k, x + 1, Frames, q + 1)
    BY <1>10, <1>12, <2>4 DEF Account
  <2>6. Account(kern', x + 1, Frames, q + 1) /\ SameBoot(kern', r.k)
    BY <1>9, <1>10, <2>2, <2>5, SameAccount
  <2>7. SameBoot(kern', kern) /\ kern'.pts = kern.pts
    BY <1>10, <2>2, <2>6, SameBootTrans DEF SameHoldings
  <2>8. ASSUME NEW s \in FirstSlot..(FirstSlot + 5), NEW ty, HasCap(kern, s, ty)
        PROVE  HasCap(kern', s, ty)
    <3>1. s # slot
      BY <2>3, FixedSlots
    <3>2. HasCap(r.k, s, ty)
      BY <1>2, <1>10, <1>12, <2>8, <3>1, OtherSlot
    <3> QED
      BY <1>9, <1>10, <2>2, <3>2, SameAccount
  <2> QED
    BY <1>4, <1>8, <1>9, <1>10, <1>12, <2>1, <2>6, <2>7, <2>8 DEF Popped, slot
<1> QED
  BY <1>7, <1>11, <1>12


LEMMA CreateStackAccount ==
    ASSUME IInv, AInv, CreateStack
    PROVE  AInv'
<1> DEFINE r == MakeFrame(kern, stack_frame_slot, "root", STACK)
<1>1. /\ pc = "stack" /\ kern' = r.k /\ pc' = (IF r.ok THEN "extra" ELSE "failed") /\ done' = 0
      /\ UNCHANGED inputs /\ recycled' = recycled /\ mapped_pts' = mapped_pts
      /\ frame_slots' = frame_slots
  BY DEF CreateStack, Goto
<1>2. pc \in Planned /\ pc \in Tabled
  BY <1>1 DEF Tabled, Planned, Imaged
<1>3. /\ kern \in Kernels /\ Tables \in Nat /\ Frames \in Nat /\ Extra \in Nat
      /\ HasCap(kern, fault_ep_slot, "endpoint") /\ HasCap(kern, tcb_slot, "tcb")
      /\ \A p \in (GuardPage..STACK) \cup {IPC_BUF} : kern.pts["root"][Region(p)] # NoCap
  BY <1>2, TabledFacts
<1>4. /\ Account(kern, Tables + 1, Frames, Tables + Frames) /\ OnStack(recycled, Tables + Frames)
      /\ Empty(kern, stack_frame_slot) /\ Empty(kern, ipc_frame_slot)
  BY <1>1 DEF AInv, StageInv, CapsInv
<1>5. STACK \in GuardPage..STACK /\ STACK \in Pages /\ stack_frame_slot \in FirstSlot..(FirstSlot + 5)
  BY LayoutFacts, FixedSlots DEF GuardPage
<1>6. Tables + 1 \in Nat /\ Tables + Frames \in Nat /\ (Tables + 1) + 2 <= Tables + Extra + 6
  BY <1>3
<1>7. /\ r.k \in Kernels /\ SameBoot(r.k, kern) /\ r.k.pts = kern.pts /\ r.ok \in BOOLEAN
      /\ ~r.ok => ~Enough
      /\ r.ok => /\ Account(r.k, (Tables + 1) + 1, Frames, Tables + Frames)
                 /\ r.k.caps = [kern.caps EXCEPT ![stack_frame_slot] = "frame"]
  <2>1. kern.pts["root"][Region(STACK)] # NoCap
    BY <1>3, <1>5
  <2> QED
    BY <1>2, <1>4, <1>5, <1>6, <2>1, FixedFrame
<1> HIDE DEF r
<1>8. CASE ~r.ok
  BY <1>1, <1>7, <1>8, FailStep
<1>9. CASE r.ok
  <2>1. pc' = "extra" /\ pc' \in Imaged /\ pc' \notin Stacked
    BY <1>1, <1>9 DEF Imaged, Stacked, Furnished
  <2>2. StageInv'
    <3>1. Tables' = Tables /\ Frames' = Frames
      BY <1>1 DEF Tables, Frames
    <3>2. Tables + 2 + 0 = (Tables + 1) + 1 /\ Tables + Frames + 0 = Tables + Frames
      BY <1>3
    <3>3. Account(kern', Tables + 2 + 0, Frames, Tables + Frames + 0) /\ OnStack(recycled', Tables + Frames + 0)
      BY <1>1, <1>4, <1>7, <1>9, <3>2
    <3>4. (Account(kern, Tables + 2 + done, Frames, Tables + Frames + done))'
      BY <1>1, <3>1, <3>3
    <3>5. (OnStack(recycled, Tables + Frames + done))'
      BY <1>1, <3>1, <3>3
    <3> QED
      BY <2>1, <3>4, <3>5 DEF StageInv
  <2>3. /\ HasCap(kern', fault_ep_slot, "endpoint") /\ HasCap(kern', tcb_slot, "tcb")
        /\ Empty(kern', ipc_frame_slot)
    <3>1. fault_ep_slot # stack_frame_slot /\ tcb_slot # stack_frame_slot /\ ipc_frame_slot # stack_frame_slot
      BY FixedSlots
    <3> QED
      BY <1>1, <1>3, <1>4, <1>7, <1>9, <3>1, OtherSlot DEF Empty
  <2> QED
    BY <1>1, <1>2, <1>7, <2>1, <2>2, <2>3, ImagedAccount
<1> QED
  BY <1>7, <1>8, <1>9

LEMMA CreateExtraStackAccount ==
    ASSUME IInv, AInv, CreateExtraStack
    PROVE  AInv'
<1> DEFINE page == STACK - (done + 1)
<1> DEFINE q == Tables + Frames + done
<1> DEFINE x == Tables + 2 + done
<1>1. /\ pc = "extra" /\ done < Extra /\ AllocFrame(page, "extra", ZeroPage) /\ done' = done + 1
      /\ UNCHANGED inputs /\ mapped_pts' = mapped_pts /\ frame_slots' = frame_slots
  BY DEF CreateExtraStack, Extra
<1>2. pc \in Planned /\ pc \in Tabled
  BY <1>1 DEF Tabled, Planned, Imaged
<1>3. /\ kern \in Kernels /\ Tables \in Nat /\ Tables >= 1 /\ Frames \in Nat /\ Extra \in Nat /\ done \in Nat
      /\ HasCap(kern, fault_ep_slot, "endpoint") /\ HasCap(kern, tcb_slot, "tcb")
      /\ \A p \in (GuardPage..STACK) \cup {IPC_BUF} : kern.pts["root"][Region(p)] # NoCap
  BY <1>2, TabledFacts
<1>4. /\ Account(kern, x, Frames, q) /\ OnStack(recycled, q) /\ Empty(kern, ipc_frame_slot)
  BY <1>1 DEF AInv, StageInv, CapsInv
<1>5. page \in GuardPage..STACK /\ page \in Pages
  <2>1. STACK \in Nat /\ GuardPage \in Pages /\ STACK_EXTRA_PAGES \in Nat
    BY LayoutFacts
  <2>2. done + 1 \in 0..STACK_EXTRA_PAGES
    BY <1>1, <1>3 DEF Extra
  <2>3. page \in Pages
    BY <2>2, LayoutFacts
  <2> QED
    BY <1>3, <2>1, <2>2, <2>3 DEF GuardPage, Pages
<1>6. kern.pts["root"][Region(page)] # NoCap /\ ZeroPage \in [Cells -> Int]
  BY <1>3, <1>5 DEF ZeroPage
<1>7. /\ x \in Nat /\ q \in Nat /\ q > 0 /\ x + 2 <= Tables + Extra + 6
      /\ q < Tables + Frames + Extra + 2
  BY <1>1, <1>3
<1> HIDE DEF page, q, x
<1>8. Popped(page, "extra", x, q)
  BY <1>1, <1>2, <1>4, <1>5, <1>6, <1>7, PoppedFrame
<1>9. CASE pc' = "failed" /\ AInv'
  BY <1>9
<1>10. CASE ~(pc' = "failed" /\ AInv')
  <2>1. /\ pc' = "extra" /\ kern' \in Kernels /\ SameBoot(kern', kern) /\ kern'.pts = kern.pts
        /\ Account(kern', x + 1, Frames, q + 1) /\ OnStack(recycled', q + 1)
        /\ \A s \in FirstSlot..(FirstSlot + 5) : \A ty : HasCap(kern, s, ty) => HasCap(kern', s, ty)
    BY <1>8, <1>10 DEF Popped
  <2>2. pc' \in Imaged /\ pc' \notin Stacked
    BY <2>1 DEF Imaged, Stacked, Furnished
  <2>3. StageInv'
    <3>1. Tables' = Tables /\ Frames' = Frames
      BY <1>1 DEF Tables, Frames
    <3>2. Tables + 2 + (done + 1) = x + 1 /\ Tables + Frames + (done + 1) = q + 1
      BY <1>3 DEF x, q
    <3>3. (Account(kern, Tables + 2 + done, Frames, Tables + Frames + done))'
      BY <1>1, <2>1, <3>1, <3>2
    <3>4. (OnStack(recycled, Tables + Frames + done))'
      BY <1>1, <2>1, <3>1, <3>2
    <3> QED
      BY <2>1, <3>3, <3>4 DEF StageInv
  <2>4. /\ HasCap(kern', fault_ep_slot, "endpoint") /\ HasCap(kern', tcb_slot, "tcb")
        /\ Empty(kern', ipc_frame_slot)
    BY <1>3, <1>4, <2>1, FixedSlots DEF Empty
  <2> QED
    BY <1>1, <1>2, <2>1, <2>2, <2>3, <2>4, ImagedAccount
<1> QED
  BY <1>9, <1>10

LEMMA CreateIpcBufferAccount ==
    ASSUME IInv, AInv, CreateIpcBuffer
    PROVE  AInv'
<1> DEFINE r == MakeFrame(kern, ipc_frame_slot, "root", IPC_BUF)
<1> DEFINE q == Tables + Frames + Extra
<1> DEFINE x == Tables + 2 + Extra
<1>1. /\ pc = "extra" /\ kern' = r.k /\ pc' = (IF r.ok THEN "configure" ELSE "failed") /\ done = Extra
      /\ UNCHANGED inputs /\ recycled' = recycled /\ mapped_pts' = mapped_pts
      /\ frame_slots' = frame_slots
  BY DEF CreateIpcBuffer, Goto, plan, Extra
<1>2. pc \in Planned /\ pc \in Tabled
  BY <1>1 DEF Tabled, Planned, Imaged
<1>3. /\ kern \in Kernels /\ Tables \in Nat /\ Frames \in Nat /\ Extra \in Nat
      /\ HasCap(kern, fault_ep_slot, "endpoint") /\ HasCap(kern, tcb_slot, "tcb")
      /\ kern.pts["root"][Region(IPC_BUF)] # NoCap
  BY <1>2, TabledFacts
<1>4. /\ Account(kern, x, Frames, q) /\ OnStack(recycled, q) /\ Empty(kern, ipc_frame_slot)
  BY <1>1 DEF AInv, StageInv, CapsInv
<1>5. IPC_BUF \in Pages /\ ipc_frame_slot \in FirstSlot..(FirstSlot + 5)
  BY LayoutFacts, FixedSlots
<1>6. x \in Nat /\ q \in Nat /\ x + 2 <= Tables + Extra + 6
  BY <1>3
<1> HIDE DEF x, q
<1>7. /\ r.k \in Kernels /\ SameBoot(r.k, kern) /\ r.k.pts = kern.pts /\ r.ok \in BOOLEAN
      /\ ~r.ok => ~Enough
      /\ r.ok => /\ Account(r.k, x + 1, Frames, q)
                 /\ r.k.caps = [kern.caps EXCEPT ![ipc_frame_slot] = "frame"]
  BY <1>2, <1>3, <1>4, <1>5, <1>6, FixedFrame
<1> HIDE DEF r
<1>8. CASE ~r.ok
  BY <1>1, <1>7, <1>8, FailStep
<1>9. CASE r.ok
  <2>1. pc' = "configure" /\ pc' \in Imaged
    BY <1>1, <1>9 DEF Imaged, Stacked
  <2>2. StageInv'
    <3>1. Tables' = Tables /\ Frames' = Frames
      BY <1>1 DEF Tables, Frames
    <3>2. Tables + 3 + Extra = x + 1 /\ Tables + Frames + Extra = q
      BY <1>3 DEF x, q
    <3>3. Account(kern', Tables + 3 + Extra, Frames, Tables + Frames + Extra)
          /\ OnStack(recycled', Tables + Frames + Extra)
      BY <1>1, <1>4, <1>7, <1>9, <3>2
    <3>4. (Account(kern, Tables + 3 + Extra, Frames, Tables + Frames + Extra))'
      BY <3>1, <3>3 DEF Extra
    <3>5. (OnStack(recycled, Tables + Frames + Extra))'
      BY <3>1, <3>3 DEF Extra
    <3> QED
      BY <2>1, <3>4, <3>5 DEF StageInv
  <2>3. HasCap(kern', fault_ep_slot, "endpoint") /\ HasCap(kern', tcb_slot, "tcb")
    <3>1. fault_ep_slot # ipc_frame_slot /\ tcb_slot # ipc_frame_slot
      BY FixedSlots
    <3> QED
      BY <1>1, <1>3, <1>7, <1>9, <3>1, OtherSlot
  <2>4. HasCap(kern', ipc_frame_slot, "frame")
    <3>1. kern.caps \in [Slots -> CapTypes] /\ ipc_frame_slot \in Slots
      BY <1>3, <1>4 DEF Kernels, Empty, HasCap
    <3> QED
      BY <1>1, <1>7, <1>9, <3>1 DEF HasCap
  <2> QED
    BY <1>1, <1>2, <1>7, <2>1, <2>2, <2>3, <2>4, ImagedAccount
<1> QED
  BY <1>7, <1>8, <1>9


\* The capabilities the TCB is configured with are there.
LEMMA ConfigureAccount ==
    ASSUME IInv, AInv, Configure, IInv'
    PROVE  AInv'
<1> DEFINE q == Tables + Frames + Extra
<1>1. /\ pc = "configure" /\ UNCHANGED inputs /\ recycled' = recycled /\ mapped_pts' = mapped_pts
      /\ frame_slots' = frame_slots
  BY DEF Configure, plan
<1>2. pc \in Planned /\ pc \in Tabled /\ pc \in Stacked
  BY <1>1 DEF Tabled, Planned, Imaged, Stacked
<1>3. /\ kern \in Kernels /\ HasCap(kern, fault_ep_slot, "endpoint") /\ HasCap(kern, tcb_slot, "tcb")
  BY <1>2, TabledFacts
<1>4. /\ Account(kern, Tables + 3 + Extra, Frames, q) /\ OnStack(recycled, q)
      /\ HasCap(kern, ipc_frame_slot, "frame") /\ kern' \in Kernels
  BY <1>1, <1>2 DEF AInv, StageInv, CapsInv, IInv, Sound
<1>5. pc' = "tls" /\ kern' = Stored(kern, STACK, ZeroPage)
  BY <1>3, <1>4 DEF Configure
<1>6. SameHoldings(kern', kern)
  BY <1>5 DEF Stored, SameHoldings
<1> HIDE DEF q
<1>7. /\ SameBoot(kern', kern) /\ Account(kern', Tables + 3 + Extra, Frames, q)
      /\ HasCap(kern', fault_ep_slot, "endpoint") /\ HasCap(kern', tcb_slot, "tcb")
      /\ HasCap(kern', ipc_frame_slot, "frame")
  BY <1>3, <1>4, <1>6, SameAccount
<1>8. StageInv'
  <2>1. Tables' = Tables /\ Frames' = Frames
    BY <1>1 DEF Tables, Frames
  <2>2. (Account(kern, Tables + 3 + Extra, Frames, Tables + Frames + Extra))'
    BY <1>7, <2>1 DEF Extra, q
  <2>3. (OnStack(recycled, Tables + Frames + Extra))'
    BY <1>1, <1>4, <2>1 DEF Extra, q
  <2> QED
    BY <1>5, <2>2, <2>3 DEF StageInv
<1>9. pc' \in Imaged
  BY <1>5 DEF Imaged, Stacked, Furnished
<1> QED
  BY <1>1, <1>2, <1>4, <1>5, <1>6, <1>7, <1>8, <1>9, ImagedAccount DEF SameHoldings

\* With enough of everything TLS_BASE and TRAMPOLINE lie where a table is.
LEMMA ServedTables ==
    ASSUME IInv, AInv, pc \in Tabled
    PROVE  \A page \in {TLS_BASE, TRAMPOLINE} :
             Enough => kern.pts["root"][Region(page)] # NoCap
<1> SUFFICES ASSUME NEW page \in {TLS_BASE, TRAMPOLINE}, Enough
             PROVE  kern.pts["root"][Region(page)] # NoCap
  OBVIOUS
<1>1. Served(kern, Region(page))
  BY EnoughIs DEF EnoughFor
<1>2. Region(page) # Region(STACK)
  BY RunnerLayout
<1>3. mapped_pts = TablesNeeded /\ HasTables(kern, mapped_pts)
  BY TabledFacts
<1>4. Image # NoCap
  BY DEF Image, NoCap
<1> QED
  BY <1>1, <1>2, <1>3, <1>4 DEF Served, HasTables

LEMMA CreateTlsAccount ==
    ASSUME IInv, AInv, CreateTls
    PROVE  AInv'
<1> DEFINE q == Tables + Frames + Extra
<1> DEFINE x == Tables + 3 + Extra
<1>1. /\ pc = "tls" /\ AllocFrame(TLS_BASE, "trampoline", TlsPage) /\ UNCHANGED inputs
      /\ mapped_pts' = mapped_pts /\ frame_slots' = frame_slots
  BY DEF CreateTls, plan
<1>2. pc \in Planned /\ pc \in Tabled /\ pc \in Stacked
  BY <1>1 DEF Tabled, Planned, Imaged, Stacked, Furnished
<1>3. /\ kern \in Kernels /\ Tables \in Nat /\ Tables >= 1 /\ Frames \in Nat /\ Extra \in Nat
      /\ HasCap(kern, fault_ep_slot, "endpoint") /\ HasCap(kern, tcb_slot, "tcb")
  BY <1>2, TabledFacts
<1>4. /\ Account(kern, x, Frames, q) /\ OnStack(recycled, q) /\ HasCap(kern, ipc_frame_slot, "frame")
  BY <1>1, <1>2 DEF AInv, StageInv, CapsInv
<1>5. TLS_BASE \in Pages /\ TlsPage \in [Cells -> Int]
  BY LayoutFacts DEF TlsPage, TlsSelf
<1>6. Enough => kern.pts["root"][Region(TLS_BASE)] # NoCap
  BY <1>2, ServedTables
<1>7. /\ x \in Nat /\ q \in Nat /\ q > 0 /\ x + 2 <= Tables + Extra + 6
      /\ q < Tables + Frames + Extra + 2
  BY <1>3
<1> HIDE DEF q, x
<1>8. Popped(TLS_BASE, "trampoline", x, q)
  BY <1>1, <1>2, <1>4, <1>5, <1>6, <1>7, PoppedFrame
<1>9. CASE pc' = "failed" /\ AInv'
  BY <1>9
<1>10. CASE ~(pc' = "failed" /\ AInv')
  <2>1. /\ pc' = "trampoline" /\ kern' \in Kernels /\ SameBoot(kern', kern) /\ kern'.pts = kern.pts
        /\ Account(kern', x + 1, Frames, q + 1) /\ OnStack(recycled', q + 1)
        /\ kern.pts["root"][Region(TLS_BASE)] # NoCap
        /\ \A s \in FirstSlot..(FirstSlot + 5) : \A ty : HasCap(kern, s, ty) => HasCap(kern', s, ty)
    BY <1>8, <1>10 DEF Popped
  <2>2. pc' \in Imaged
    BY <2>1 DEF Imaged, Stacked, Furnished
  <2>3. StageInv'
    <3>1. Tables' = Tables /\ Frames' = Frames
      BY <1>1 DEF Tables, Frames
    <3>2. Tables + 4 + Extra = x + 1 /\ Tables + Frames + Extra + 1 = q + 1
      BY <1>3 DEF x, q
    <3>3. /\ Account(kern', Tables + 4 + Extra, Frames, Tables + Frames + Extra + 1)
          /\ OnStack(recycled', Tables + Frames + Extra + 1)
      BY <2>1, <3>2
    <3>4. (Account(kern, Tables + 4 + Extra, Frames, Tables + Frames + Extra + 1))'
      BY <3>1, <3>3 DEF Extra
    <3>5. (OnStack(recycled, Tables + Frames + Extra + 1))'
      BY <3>1, <3>3 DEF Extra
    <3> QED
      BY <2>1, <3>4, <3>5 DEF StageInv
  <2>4. /\ HasCap(kern', fault_ep_slot, "endpoint") /\ HasCap(kern', tcb_slot, "tcb")
        /\ HasCap(kern', ipc_frame_slot, "frame")
    BY <1>3, <1>4, <2>1, FixedSlots
  <2> QED
    BY <1>1, <1>2, <2>1, <2>2, <2>3, <2>4, ImagedAccount
<1> QED
  BY <1>9, <1>10

LEMMA CreateTrampolineAccount ==
    ASSUME IInv, AInv, CreateTrampoline
    PROVE  AInv'
<1> DEFINE q == Tables + Frames + Extra + 1
<1> DEFINE x == Tables + 4 + Extra
<1>1. /\ pc = "trampoline" /\ AllocFrame(TRAMPOLINE, "enter", ZeroPage) /\ UNCHANGED inputs
      /\ mapped_pts' = mapped_pts /\ frame_slots' = frame_slots
  BY DEF CreateTrampoline, plan
<1>2. pc \in Planned /\ pc \in Tabled /\ pc \in Stacked
  BY <1>1 DEF Tabled, Planned, Imaged, Stacked, Furnished
<1>3. /\ kern \in Kernels /\ Tables \in Nat /\ Tables >= 1 /\ Frames \in Nat /\ Extra \in Nat
      /\ HasCap(kern, fault_ep_slot, "endpoint") /\ HasCap(kern, tcb_slot, "tcb")
  BY <1>2, TabledFacts
<1>4. /\ Account(kern, x, Frames, q) /\ OnStack(recycled, q) /\ HasCap(kern, ipc_frame_slot, "frame")
      /\ kern.pts["root"][Region(TLS_BASE)] # NoCap
  BY <1>1, <1>2 DEF AInv, StageInv, CapsInv, RegionsInv
<1>5. TRAMPOLINE \in Pages /\ ZeroPage \in [Cells -> Int]
  BY LayoutFacts DEF ZeroPage
<1>6. Enough => kern.pts["root"][Region(TRAMPOLINE)] # NoCap
  BY <1>2, ServedTables
<1>7. /\ x \in Nat /\ q \in Nat /\ q > 0 /\ x + 2 <= Tables + Extra + 6
      /\ q < Tables + Frames + Extra + 2
  BY <1>3
<1> HIDE DEF q, x
<1>8. Popped(TRAMPOLINE, "enter", x, q)
  BY <1>1, <1>2, <1>4, <1>5, <1>6, <1>7, PoppedFrame
<1>9. CASE pc' = "failed" /\ AInv'
  BY <1>9
<1>10. CASE ~(pc' = "failed" /\ AInv')
  <2>1. /\ pc' = "enter" /\ kern' \in Kernels /\ SameBoot(kern', kern) /\ kern'.pts = kern.pts
        /\ Account(kern', x + 1, Frames, q + 1)
        /\ kern.pts["root"][Region(TRAMPOLINE)] # NoCap
        /\ \A s \in FirstSlot..(FirstSlot + 5) : \A ty : HasCap(kern, s, ty) => HasCap(kern', s, ty)
    BY <1>8, <1>10 DEF Popped
  <2>2. pc' \in Imaged
    BY <2>1 DEF Imaged, Stacked, Furnished
  <2>3. StageInv'
    <3>1. Tables' = Tables /\ Frames' = Frames
      BY <1>1 DEF Tables, Frames
    <3>2. Tables + 5 + Extra = x + 1 /\ Tables + Frames + Extra + 2 = q + 1
      BY <1>3 DEF x, q
    <3>3. Account(kern', Tables + 5 + Extra, Frames, Tables + Frames + Extra + 2)
      BY <2>1, <3>2
    <3>4. (Account(kern, Tables + 5 + Extra, Frames, Tables + Frames + Extra + 2))'
      BY <3>1, <3>3 DEF Extra
    <3> QED
      BY <2>1, <3>4 DEF StageInv
  <2>4. /\ HasCap(kern', fault_ep_slot, "endpoint") /\ HasCap(kern', tcb_slot, "tcb")
        /\ HasCap(kern', ipc_frame_slot, "frame")
    BY <1>3, <1>4, <2>1, FixedSlots
  <2> QED
    BY <1>1, <1>2, <1>4, <2>1, <2>2, <2>3, <2>4, ImagedAccount
<1> QED
  BY <1>9, <1>10

LEMMA EnterAccount ==
    ASSUME IInv, AInv, Enter
    PROVE  AInv'
<1>1. /\ pc = "enter" /\ pc' \in {"started", "fault"} /\ UNCHANGED inputs /\ kern' = kern
      /\ mapped_pts' = mapped_pts /\ frame_slots' = frame_slots
  BY DEF Enter, plan
<1>2. CASE pc' = "fault"
  BY <1>2, EndStep DEF Ends
<1>3. CASE pc' = "started"
  <2>1. pc \in Tabled /\ pc \in Stacked /\ pc' \in Imaged
    BY <1>1, <1>3 DEF Tabled, Planned, Imaged, Stacked, Furnished
  <2>2. kern \in Kernels /\ HasCap(kern, fault_ep_slot, "endpoint") /\ HasCap(kern, tcb_slot, "tcb")
    BY <2>1, TabledFacts
  <2>3. /\ Account(kern, Tables + 5 + Extra, Frames, Tables + Frames + Extra + 2)
        /\ HasCap(kern, ipc_frame_slot, "frame") /\ kern.pts["root"][Region(TLS_BASE)] # NoCap
        /\ kern.pts["root"][Region(TRAMPOLINE)] # NoCap
    BY <1>1, <2>1 DEF AInv, StageInv, CapsInv, RegionsInv
  <2>4. (Account(kern, Tables + 5 + Extra, Frames, Tables + Frames + Extra + 2))'
    <3>1. Tables' = Tables /\ Frames' = Frames
      BY <1>1 DEF Tables, Frames
    <3> QED
      BY <1>1, <2>3, <3>1 DEF Extra
  <2>5. StageInv'
    BY <1>3, <2>4 DEF StageInv
  <2>6. SameBoot(kern', kern)
    BY <1>1 DEF SameBoot
  <2> QED
    BY <1>1, <1>3, <2>1, <2>2, <2>3, <2>5, <2>6, ImagedAccount
<1> QED
  BY <1>1, <1>2, <1>3


LEMMA StutterAccount ==
    ASSUME IInv, AInv, UNCHANGED vars
    PROVE  AInv'
<1>1. /\ pc' = pc /\ kern' = kern /\ recycled' = recycled /\ elf' = elf /\ UNCHANGED inputs
      /\ mapped_pts' = mapped_pts /\ frame_slots' = frame_slots /\ done' = done
  BY DEF vars, inputs
<1>2. kern \in Kernels /\ SameBoot(kern', kern)
  BY <1>1 DEF IInv, Sound, SameBoot
<1>3. (Enough' <=> Enough) /\ (Looked(kern) => (Looked(kern))')
  BY <1>1, <1>2, SameEnough
<1>4. TablesNeeded' = TablesNeeded /\ Tables' = Tables /\ Frames' = Frames
  BY <1>1, SameNeeds DEF Tables, Frames
<1>5. StartInv'
  BY <1>1 DEF AInv, StartInv, RemainingSlots
<1>6. Tabling => Tabling'
  BY <1>1, <1>4 DEF Tabling
<1>7. Doomed(kern) => Doomed(kern)'
  BY <1>1
<1>8. StageInv'
  BY <1>1, <1>3, <1>4, <1>6, <1>7 DEF AInv, StageInv, Extra
<1>9. CapsInv'
  BY <1>1 DEF AInv, CapsInv
<1>10. FramesInv'
  BY <1>1, <1>4 DEF AInv, FramesInv, Ready
<1>11. RegionsInv'
  BY <1>1, <1>4 DEF AInv, RegionsInv
<1> QED
  BY <1>1, <1>3, <1>5, <1>8, <1>9, <1>10, <1>11 DEF AInv

LEMMA NextAccount == IInv /\ AInv /\ IInv' /\ [Next]_vars => AInv'
<1> SUFFICES ASSUME IInv, AInv, IInv', [Next]_vars PROVE AInv'
  OBVIOUS
<1>1. CASE Parse \/ CreateEndpoint \/ CreateTcb
  BY <1>1, ParseAccount, CreateEndpointAccount, CreateTcbAccount
<1>2. CASE CreateLoadTable \/ CreateExtraTable \/ CreateStackTable
  BY <1>2, CreateLoadTableAccount, CreateExtraTableAccount, CreateStackTableAccount
<1>3. CASE PlanPages \/ RetypeBatch \/ AllRetyped
  BY <1>3, PlanPagesAccount, RetypeBatchAccount, AllRetypedAccount
<1>4. CASE LoadPage \/ PatchEntry \/ CreateStack
  BY <1>4, LoadPageAccount, PatchEntryAccount, CreateStackAccount
<1>5. CASE CreateExtraStack \/ CreateIpcBuffer \/ Configure
  BY <1>5, CreateExtraStackAccount, CreateIpcBufferAccount, ConfigureAccount
<1>6. CASE CreateTls \/ CreateTrampoline \/ Enter
  BY <1>6, CreateTlsAccount, CreateTrampolineAccount, EnterAccount
<1>7. CASE Ended \/ UNCHANGED vars
  <2>1. UNCHANGED vars
    BY <1>7 DEF Ended
  <2> QED
    BY <2>1, StutterAccount
<1> QED
  BY <1>1, <1>2, <1>3, <1>4, <1>5, <1>6, <1>7 DEF Next

\* What a started task has taken is what the function needs.
LEMMA StartedEnough ==
    ASSUME IInv, AInv, pc = "started"
    PROVE  Enough
<1>1. pc \in Tabled /\ pc \in Planned /\ pc \notin Ends
  BY DEF Tabled, Planned, Imaged, Stacked, Furnished, Ends
<1>2. /\ kern \in Kernels /\ Looked(kern) /\ PtLoads # <<>> /\ Tables \in Nat /\ Extra \in Nat
      /\ NSlots \in Nat /\ Frames \in Nat
      /\ Tables = Cardinality(TablesNeeded) /\ mapped_pts = TablesNeeded
      /\ Frames = Cardinality(ImagePages)
  BY <1>1, TabledFacts, PlannedFacts
<1>3. /\ Spent(kern, 2 * (Tables + 5 + Extra + 1), 2 * Frames)
      /\ Taken(kern, Tables + Frames + Extra + 2)
  BY DEF AInv, StageInv, Account
<1>4. SmallNeed = 2 * (Tables + 5 + Extra + 1) /\ BigNeed = 2 * Frames
  <2>1. SmallNeed = 2 + 2 * (Tables + 1 + 1 + Extra + 3)
    BY <1>2 DEF SmallNeed, Extra
  <2>2. 2 + 2 * (Tables + 1 + 1 + Extra + 3) = 2 * (Tables + 5 + Extra + 1)
    <3>1. \A a, b \in Nat : 2 + 2 * (a + 1 + 1 + b + 3) = 2 * (a + 5 + b + 1)
      OBVIOUS
    <3>2. Tables \in Nat /\ Extra \in Nat
      BY <1>2
    <3> QED
      BY <3>1, <3>2
  <2> QED
    BY <1>2, <2>1, <2>2 DEF BigNeed
<1>5. Fits(kern, SmallNeed, BigNeed)
  <2>1. 2 * (Tables + 5 + Extra + 1) \in Nat /\ 2 * Frames \in Nat
    BY <1>2
  <2>2. Fits(kern, 2 * (Tables + 5 + Extra + 1), 2 * Frames)
    BY <1>2, <1>3, <2>1, SpentFits
  <2> QED
    BY <1>4, <2>2
<1>6. SlotNeed <= NSlots
  <2>1. 6 + (Tables + Frames + Extra + 2) <= NSlots
    BY <1>3 DEF Taken
  <2>2. SlotNeed = 6 + (Tables + Frames + Extra + 2)
    BY <1>2 DEF SlotNeed, Extra
  <2> QED
    BY <2>1, <2>2
<1>7. /\ kern.pts["root"][Region(STACK)] # Image
      /\ \A r \in Regions : kern.pts["root"][r] \in Slots => r \in mapped_pts \/ r = Region(STACK)
      /\ kern.pts["root"][Region(TLS_BASE)] # NoCap /\ kern.pts["root"][Region(TRAMPOLINE)] # NoCap
  BY <1>1, SlotFacts DEF AInv, RegionsInv
<1>8. Region(STACK) \notin TablesNeeded
  <2>1. Region(STACK) \notin AllRegions
    BY <1>1 DEF IInv, TableInv
  <2>2. Region(STACK) # Region(LOAD_BASE)
    BY RunnerLayout
  <2> QED
    BY <2>1, <2>2 DEF TablesNeeded, AllRegions
<1>9. Served(kern, Region(TLS_BASE)) /\ Served(kern, Region(TRAMPOLINE))
  <2>1. Region(TLS_BASE) \in Regions /\ Region(TRAMPOLINE) \in Regions
    BY LayoutFacts, RegionFacts
  <2>2. \A r \in Regions : kern.pts["root"][r] \in Slots \cup {NoCap, Image}
    BY <1>2 DEF Kernels, Spaces
  <2> QED
    BY <1>2, <1>7, <2>1, <2>2 DEF Served
<1>10. EnoughFor(kern)
  BY <1>2, <1>5, <1>6, <1>7, <1>8, <1>9 DEF EnoughFor
<1> QED
  BY <1>10, EnoughIs

\* create_user_task returns None only if memory, slots or page tables are short,
\* and starts the task only if they are not, for every program, every memory
\* and every number of slots (the early returns of create_user_task).
THEOREM FailsOnlyWhenShortHolds == Spec => []FailsOnlyWhenShort
<1>1. Init => AInv
  BY InitAccount
<1>2. IInv /\ AInv /\ IInv' /\ [Next]_vars => AInv'
  BY NextAccount
<1>3. IInv /\ AInv => FailsOnlyWhenShort
  BY StartedEnough DEF AInv, FailsOnlyWhenShort
<1> QED
  BY <1>1, <1>2, <1>3, InvHolds, PTL DEF Spec
=============================================================================
