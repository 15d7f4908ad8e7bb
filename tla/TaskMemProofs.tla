--------------------------- MODULE TaskMemProofs ---------------------------
(***************************************************************************)
(* Theorems about a task's memory, for every page size, every program and  *)
(* buffer that fits the address range, and every sequence of calls.        *)
(***************************************************************************)
EXTENDS TaskMem, SequenceTheorems, WellFoundedInduction, TLAPS

-----------------------------------------------------------------------------
(***************************************************************************)
(* Pages and addresses.                                                    *)
(***************************************************************************)
\* An address is a page and an offset in it.
LEMMA PageParts ==
    ASSUME NEW a \in Nat
    PROVE  /\ PageOf(a) \in Nat /\ a % PageCells \in Cells
           /\ a = PageOf(a) * PageCells + (a % PageCells)
  BY TaskMemConstants DEF PageOf, Cells

\* Higher addresses are not on lower pages.
LEMMA PageMono ==
    ASSUME NEW a \in Nat, NEW b \in Nat, a <= b
    PROVE  PageOf(a) <= PageOf(b)
  BY TaskMemConstants DEF PageOf

\* Below the n-th page boundary lie the first n pages.
LEMMA PageBound ==
    ASSUME NEW a \in Nat, NEW n \in Nat, a < n * PageCells
    PROVE  PageOf(a) < n
  BY TaskMemConstants DEF PageOf

\* The pages of Addrs are Pages.
LEMMA AddrPage ==
    ASSUME NEW a \in Addrs
    PROVE  a \in Nat /\ PageOf(a) \in Pages
<1>1. a \in Nat /\ LastPage + 1 \in Nat /\ a < (LastPage + 1) * PageCells
  BY TaskMemConstants DEF Addrs
<1>2. PageOf(a) < LastPage + 1 /\ PageOf(a) \in Nat
  BY <1>1, PageBound, PageParts
<1> QED
  BY <1>1, <1>2, TaskMemConstants DEF Pages

\* An area within the address range occupies pages of it.
LEMMA SpanPages ==
    ASSUME NEW addr, NEW len, Within(addr, len)
    PROVE  PageSpan(addr, len) \subseteq Pages
<1>1. /\ addr \in Nat /\ len \in Nat /\ LastPage + 2 \in Nat
      /\ addr + len <= (LastPage + 1) * PageCells
  BY TaskMemConstants DEF Within
<1> DEFINE e == addr + len + PageCells - 1
<1>2. e \in Nat /\ e < (LastPage + 2) * PageCells
  BY <1>1, TaskMemConstants
<1> HIDE DEF e
<1>3. PageOf(e) < LastPage + 2 /\ PageOf(e) \in Nat /\ PageOf(addr) \in Nat
  BY <1>1, <1>2, PageBound, PageParts
<1>4. PageSpan(addr, len) = PageOf(addr)..(PageOf(e) - 1)
  BY DEF PageSpan, e
<1> QED
  BY <1>3, <1>4, TaskMemConstants DEF Pages

\* So do the pages a write of data touches.
LEMMA TouchedPages ==
    ASSUME NEW addr, NEW data \in Seq(Nat), Within(addr, Len(data))
    PROVE  /\ Touched(addr, data) \subseteq Pages
           /\ \A i \in DOMAIN data : addr + i - 1 \in Addrs
<1>1. addr \in Nat /\ Len(data) \in Nat /\ addr + Len(data) <= (LastPage + 1) * PageCells
  BY DEF Within
<1>2. \A i \in DOMAIN data : addr + i - 1 \in Addrs
  <2> DEFINE size == (LastPage + 1) * PageCells
  <2>1. size \in Nat /\ Addrs = 0..(size - 1) /\ addr + Len(data) <= size
    BY <1>1, TaskMemConstants DEF Addrs
  <2> HIDE DEF size
  <2> QED
    BY <1>1, <2>1
<1> QED
  BY <1>2, AddrPage DEF Touched

-----------------------------------------------------------------------------
(***************************************************************************)
(* Contents of memory.                                                     *)
(***************************************************************************)
Contents == {NoPage} \cup [Cells -> Nat]
Images == [Pages -> Contents]

\* What a task finds at an address, -1 where there is nothing.
Cell(pd, a) == IF pd[PageOf(a)] # NoPage THEN pd[PageOf(a)][a % PageCells] ELSE -1

\* Contents are never mistaken for the absence of a page.
LEMMA PageIsThere ==
    /\ ZeroPage \in [Cells -> Nat]
    /\ \A f \in [Cells -> Nat] : f # NoPage
<1>1. 0 \in Cells
  BY TaskMemConstants DEF Cells
<1>2. \A f \in [Cells -> Nat] : f # NoPage
  BY <1>1 DEF NoPage
<1> QED
  BY <1>2 DEF ZeroPage

\* map_blank_page_simple adds cleared pages and keeps what is there.
LEMMA BlankFacts ==
    ASSUME NEW pd \in Images, NEW S
    PROVE  /\ Blank(pd, S) \in Images
           /\ \A p \in Pages : Blank(pd, S)[p] # NoPage <=> pd[p] # NoPage \/ p \in S
           /\ \A a \in Addrs : \/ Cell(Blank(pd, S), a) = Cell(pd, a)
                               \/ Cell(pd, a) = -1 /\ Cell(Blank(pd, S), a) = 0
<1>1. ZeroPage \in [Cells -> Nat] /\ ZeroPage # NoPage
  BY PageIsThere
<1>2. \A p \in Pages :
         Blank(pd, S)[p] = IF p \in S /\ pd[p] = NoPage THEN ZeroPage ELSE pd[p]
  BY DEF Blank
<1>3. Blank(pd, S) \in Images
  BY <1>1 DEF Blank, Images, Contents
<1>4. \A a \in Addrs : PageOf(a) \in Pages /\ a % PageCells \in Cells
  BY AddrPage, PageParts
<1>5. \A c \in Cells : ZeroPage[c] = 0
  BY DEF ZeroPage
<1> QED
  BY <1>1, <1>2, <1>3, <1>4, <1>5 DEF Cell

\* write_bytes stores every byte, wherever pages begin and end, keeps the rest and
\* clears what it adds around them.
LEMMA WrittenFacts ==
    ASSUME NEW pd \in Images, NEW addr, NEW data \in Seq(Nat), Within(addr, Len(data))
    PROVE  /\ Written(pd, addr, data) \in Images
           /\ \A p \in Pages : Written(pd, addr, data)[p] # NoPage
                                  <=> pd[p] # NoPage \/ p \in Touched(addr, data)
           /\ \A a \in Addrs :
                IF a - addr + 1 \in DOMAIN data
                THEN Cell(Written(pd, addr, data), a) = data[a - addr + 1]
                ELSE \/ Cell(Written(pd, addr, data), a) = Cell(pd, a)
                     \/ Cell(pd, a) = -1 /\ Cell(Written(pd, addr, data), a) = 0
<1> DEFINE W == Written(pd, addr, data)
<1> DEFINE Page(p) == [c \in Cells |-> LET i == p * PageCells + c - addr + 1 IN
                         IF i \in DOMAIN data THEN data[i]
                         ELSE IF pd[p] = NoPage THEN 0 ELSE pd[p][c]]
<1>1. addr \in Nat /\ \A i \in DOMAIN data : i \in Nat /\ data[i] \in Nat
  BY DEF Within
<1>2. \A p \in Pages : Page(p) \in [Cells -> Nat] /\ Page(p) # NoPage
  <2>1. \A p \in Pages : Page(p) \in [Cells -> Nat]
    BY <1>1 DEF Images, Contents
  <2> QED
    BY <2>1, PageIsThere
<1>3. \A p \in Pages : W[p] = IF p \in Touched(addr, data) THEN Page(p) ELSE pd[p]
  BY DEF Written
<1>4. W \in Images
  <2>1. W = [p \in Pages |-> IF p \in Touched(addr, data) THEN Page(p) ELSE pd[p]]
    BY DEF Written
  <2> HIDE DEF W, Page
  <2> QED
    BY <1>2, <2>1 DEF Images, Contents
<1>5. ASSUME NEW a \in Addrs
      PROVE  IF a - addr + 1 \in DOMAIN data
             THEN Cell(W, a) = data[a - addr + 1]
             ELSE \/ Cell(W, a) = Cell(pd, a)
                  \/ Cell(pd, a) = -1 /\ Cell(W, a) = 0
  <2>1. /\ PageOf(a) \in Pages /\ PageOf(a) \in Nat /\ a % PageCells \in Cells
        /\ a \in Nat /\ a % PageCells \in Int
        /\ a = PageOf(a) * PageCells + (a % PageCells)
    BY AddrPage, PageParts DEF Cells
  <2>2. PageOf(a) * PageCells + (a % PageCells) - addr + 1 = a - addr + 1
    <3> DEFINE q == PageOf(a) * PageCells
    <3> DEFINE r == a % PageCells
    <3>1. q \in Int /\ r \in Int /\ q + r = a
      BY <2>1, TaskMemConstants
    <3> HIDE DEF q, r
    <3>2. q + r - addr + 1 = a - addr + 1
      BY <1>1, <3>1
    <3> QED
      BY <3>2 DEF q, r
  <2>3. CASE PageOf(a) \in Touched(addr, data)
    <3>1. W[PageOf(a)] = Page(PageOf(a)) /\ W[PageOf(a)] # NoPage
      BY <1>2, <1>3, <2>1, <2>3
    <3>2. Page(PageOf(a))[a % PageCells] =
             IF a - addr + 1 \in DOMAIN data THEN data[a - addr + 1]
             ELSE IF pd[PageOf(a)] = NoPage THEN 0 ELSE pd[PageOf(a)][a % PageCells]
      BY <2>1, <2>2
    <3> HIDE DEF W, Page
    <3> QED
      BY <3>1, <3>2 DEF Cell
  <2>4. CASE PageOf(a) \notin Touched(addr, data)
    <3>1. a - addr + 1 \notin DOMAIN data
      <4> SUFFICES ASSUME a - addr + 1 \in DOMAIN data PROVE FALSE
        OBVIOUS
      <4>1. addr + (a - addr + 1) - 1 = a
        BY <1>1, <2>1
      <4> QED
        BY <2>4, <4>1 DEF Touched
    <3>2. W[PageOf(a)] = pd[PageOf(a)]
      BY <1>3, <2>1, <2>4
    <3> HIDE DEF W, Page
    <3> QED
      BY <3>1, <3>2 DEF Cell
  <2> QED
    BY <2>3, <2>4
<1>6. \A p \in Pages : W[p] # NoPage <=> pd[p] # NoPage \/ p \in Touched(addr, data)
  <2> HIDE DEF W, Page
  <2> QED
    BY <1>2, <1>3
<1> HIDE DEF W
<1>7. W = Written(pd, addr, data)
  BY DEF W
<1> QED
  BY <1>4, <1>5, <1>6, <1>7

-----------------------------------------------------------------------------
(***************************************************************************)
(* Least and greatest members, which the code finds by walking a map or a  *)
(* file in ascending order.                                                *)
(***************************************************************************)
\* A non-empty set of numbers has a least member.
LEMMA LeastOf ==
    ASSUME NEW S \in SUBSET Nat, S # {}
    PROVE  \E x \in S : \A y \in S : x <= y
<1>1. PICK x \in S : \A y \in S : ~(<<y, x>> \in OpToRel(<, Nat))
  BY NatLessThanWellFounded, WFMin
<1>2. \A y \in S : ~(y < x)
  BY <1>1 DEF OpToRel
<1> QED
  BY <1>2

\* A bounded one has a greatest member, and Last is it.
LEMMA LastOf ==
    ASSUME NEW S \in SUBSET Nat, S # {}, NEW b \in Nat, \A x \in S : x <= b
    PROVE  Last(S) \in S /\ \A k \in S : k <= Last(S)
<1> DEFINE T == {k \in Nat : \E x \in S : k = b - x}
<1>1. T \in SUBSET Nat
  OBVIOUS
<1>2. T # {}
  <2>1. PICK x \in S : TRUE
    OBVIOUS
  <2>2. b - x \in T
    BY <2>1
  <2> QED
    BY <2>2
<1>3. PICK t \in T : \A u \in T : t <= u
  BY <1>1, <1>2, LeastOf
<1>4. PICK x \in S : t = b - x
  BY <1>3
<1>5. ASSUME NEW y \in S PROVE y <= x
  <2>1. b - y \in T
    OBVIOUS
  <2> QED
    BY <1>3, <1>4, <2>1
<1> QED
  BY <1>5 DEF Last

-----------------------------------------------------------------------------
(***************************************************************************)
(* Patching.                                                               *)
(***************************************************************************)
\* Where the syscall instructions of a file are, and the last patch over a byte.
LEMMA SiteFacts ==
    ASSUME NEW data \in Seq(Nat)
    PROVE  /\ Sites(data) \in SUBSET Nat
           /\ \A j \in Sites(data) : 1 <= j /\ j + 1 <= Len(data)
           /\ \A i \in Nat : Over(data, i) # {} =>
                /\ Last(Over(data, i)) \in Over(data, i)
                /\ \A k \in Over(data, i) : k <= Last(Over(data, i))
           /\ Sites(data) # {} =>
                /\ Last(Sites(data)) \in Sites(data)
                /\ \A k \in Sites(data) : k <= Last(Sites(data))
<1>1. /\ Sites(data) \in SUBSET Nat
      /\ \A j \in Sites(data) : 1 <= j /\ j + 1 <= Len(data)
  BY DEF Sites, SyscallAt
<1>2. \A i \in Nat : /\ Over(data, i) \in SUBSET Nat
                     /\ \A x \in Over(data, i) : x <= i
  BY <1>1 DEF Over
<1>3. Len(data) \in Nat /\ \A x \in Sites(data) : x <= Len(data)
  BY <1>1
<1>4. \A i \in Nat : Over(data, i) # {} =>
         /\ Last(Over(data, i)) \in Over(data, i)
         /\ \A k \in Over(data, i) : k <= Last(Over(data, i))
  BY <1>2, LastOf
<1>5. Sites(data) # {} =>
         /\ Last(Sites(data)) \in Sites(data)
         /\ \A k \in Sites(data) : k <= Last(Sites(data))
  BY <1>1, <1>3, LastOf
<1> QED
  BY <1>1, <1>4, <1>5

\* Patching writes bytes, loses none of the file's and reaches at most two past them.
LEMMA PatchedFacts ==
    ASSUME NEW data \in Seq(Nat)
    PROVE  /\ Patched(data) \in Seq(Nat)
           /\ Len(Patched(data)) = PatchedLen(data)
           /\ PatchedLen(data) \in Nat
           /\ Len(data) <= PatchedLen(data) /\ PatchedLen(data) <= Len(data) + 2
           /\ \A j \in Sites(data) : j + 3 <= PatchedLen(data)
<1> DEFINE L == PatchedLen(data)
<1>1. /\ Sites(data) \in SUBSET Nat
      /\ \A j \in Sites(data) : 1 <= j /\ j + 1 <= Len(data)
      /\ Sites(data) # {} =>
            /\ Last(Sites(data)) \in Sites(data)
            /\ \A k \in Sites(data) : k <= Last(Sites(data))
  BY SiteFacts
<1>2. /\ L \in Nat /\ Len(data) <= L /\ L <= Len(data) + 2
      /\ \A j \in Sites(data) : j + 3 <= L
  <2>1. CASE \E j \in Sites(data) : j + 3 > Len(data)
    <3> DEFINE m == Last(Sites(data))
    <3>1. L = m + 3
      BY <2>1 DEF PatchedLen
    <3>2. m \in Sites(data) /\ \A k \in Sites(data) : k <= m
      BY <1>1, <2>1
    <3> HIDE DEF m, L
    <3>3. m \in Nat /\ m + 1 <= Len(data) /\ m + 3 > Len(data)
      BY <1>1, <2>1, <3>2
    <3>4. \A j \in Sites(data) : j + 3 <= m + 3
      BY <1>1, <3>2, <3>3
    <3> QED
      BY <3>1, <3>3, <3>4
  <2>2. CASE ~\E j \in Sites(data) : j + 3 > Len(data)
    BY <1>1, <2>2 DEF PatchedLen
  <2> QED
    BY <2>1, <2>2
<1>3. L > Len(data) => Sites(data) # {} /\ L = Last(Sites(data)) + 3
  <2>1. L = Len(data) \/ (Sites(data) # {} /\ L = Last(Sites(data)) + 3)
    BY DEF PatchedLen
  <2> HIDE DEF L
  <2> QED
    BY <1>2, <2>1
<1> HIDE DEF L
<1> DEFINE v(i) == IF Over(data, i) # {} THEN TrapInst[i - Last(Over(data, i)) + 1] ELSE data[i]
<1>4. ASSUME NEW i \in 1..L
      PROVE  v(i) \in Nat
  <2>1. CASE Over(data, i) # {}
    <3>1. Last(Over(data, i)) \in Over(data, i)
      BY <1>2, <2>1, SiteFacts
    <3>2. i - Last(Over(data, i)) + 1 \in 1..4
      <4> DEFINE m == Last(Over(data, i))
      <4>1. m \in Over(data, i)
        BY <3>1
      <4> HIDE DEF m
      <4>2. m \in Nat /\ i \in Nat /\ m <= i /\ i <= m + 3
        BY <1>1, <1>2, <4>1 DEF Over
      <4>3. i - m + 1 \in 1..4
        BY <4>2
      <4> QED
        BY <4>3 DEF m
    <3>3. \A k \in 1..4 : TrapInst[k] \in Nat
      BY DEF TrapInst
    <3> QED
      BY <2>1, <3>2, <3>3
  <2>2. CASE Over(data, i) = {}
    <3>1. i <= Len(data)
      <4> SUFFICES ASSUME i > Len(data) PROVE FALSE
        BY <1>2
      <4>1. Last(Sites(data)) \in Over(data, i)
        <5> DEFINE m == Last(Sites(data))
        <5>1. m \in Sites(data) /\ m \in Nat /\ m + 1 <= Len(data) /\ L = m + 3
          BY <1>1, <1>2, <1>3
        <5> HIDE DEF m
        <5>2. m \in Over(data, i)
          BY <1>2, <5>1 DEF Over
        <5> QED
          BY <5>2 DEF m
      <4> QED
        BY <2>2, <4>1
    <3> QED
      BY <2>2, <3>1, <1>2
  <2> QED
    BY <2>1, <2>2
<1>5. Patched(data) = [i \in 1..L |-> v(i)]
  BY DEF Patched, L
<1> HIDE DEF v
<1>6. Patched(data) \in [1..L -> Nat]
  BY <1>4, <1>5
<1>7. Patched(data) \in Seq(Nat) /\ Len(Patched(data)) = L
  BY <1>2, <1>6, IsASeq, LenProperties
<1> QED
  BY <1>2, <1>7 DEF L

-----------------------------------------------------------------------------
(***************************************************************************)
(* The inductive invariant.  Coherent alone is not inductive: that a write *)
(* leaves both maps with the same pages needs the addresses written to lie *)
(* in the space, so what a load has still to place, the break and          *)
(* clear_child_tid are tied to the programs and buffers they come from.    *)
(***************************************************************************)
\* Segments as the file has them and as execve moves them.
FileSegs == UNION {{prog[i] : i \in DOMAIN prog} : prog \in Programs}
ExecSegs == UNION {{Relocated(prog)[i] : i \in DOMAIN prog} : prog \in Programs}

MemInv == page_data \in Images /\ mapped \subseteq Cached
IInv ==
  /\ mode \in {"boot", "user", "sys", "sys0", "exec", "stuck", "exited"}
  /\ MemInv
  /\ execs \in 0..MaxExecs /\ (execs = 0 => mapped = Cached)
  /\ Within(heap, 0) /\ vm_end \in Nat
  /\ tid_addr \in {0} \cup {b.addr : b \in Buffers}
  /\ mode = "boot" => todo \in Seq(FileSegs)
  /\ mode = "exec" => todo \in Seq(ExecSegs)


\* What a step does to the cells: some may be added, cleared ...
Kept(a) == \/ Cell(page_data', a) = Cell(page_data, a)
           \/ Cell(page_data, a) = -1 /\ Cell(page_data', a) = 0
Grown == \A a \in Addrs : Kept(a)
\* ... and a run of them may be stored.
Stored(addr, data) ==
  \A a \in Addrs : IF a - addr + 1 \in DOMAIN data
                   THEN Cell(page_data', a) = data[a - addr + 1] ELSE Kept(a)
MemStep == MemInv' /\ (mapped = Cached => mapped' = Cached')

\* Mapping blank pages only adds cells, and enters the pages in both maps.
LEMMA MapBlankStep ==
    ASSUME MemInv, NEW S \in SUBSET Pages, MapBlank(S)
    PROVE  MemStep /\ Grown
<1>1. page_data \in Images /\ page_data' = Blank(page_data, S) /\ mapped' = mapped \cup S
  BY DEF MemInv, MapBlank
<1>2. /\ page_data' \in Images
      /\ \A p \in Pages : page_data'[p] # NoPage <=> page_data[p] # NoPage \/ p \in S
      /\ Grown
  BY <1>1, BlankFacts DEF Grown, Kept
<1>3. Cached' = Cached \cup S
  BY <1>2 DEF Cached, HasData
<1> QED
  BY <1>1, <1>2, <1>3 DEF MemStep, MemInv

\* A write stores the data and enters the pages it adds in both maps.
LEMMA WriteStep ==
    ASSUME MemInv, NEW addr, NEW data \in Seq(Nat), Within(addr, Len(data)),
           write_bytes(addr, data)
    PROVE  MemStep /\ Stored(addr, data)
<1>1. /\ page_data \in Images /\ page_data' = Written(page_data, addr, data)
      /\ mapped' = mapped \cup NewlyMapped(page_data, addr, data)
  BY DEF MemInv, write_bytes
<1>2. /\ page_data' \in Images
      /\ \A p \in Pages : page_data'[p] # NoPage
                             <=> page_data[p] # NoPage \/ p \in Touched(addr, data)
      /\ Stored(addr, data)
  BY <1>1, WrittenFacts DEF Stored, Kept
<1>3. Touched(addr, data) \subseteq Pages
  BY TouchedPages
<1>4. Cached' = Cached \cup NewlyMapped(page_data, addr, data)
  BY <1>2, <1>3 DEF Cached, HasData, NewlyMapped
<1> QED
  BY <1>1, <1>2, <1>4 DEF MemStep, MemInv

\* A segment is mapped and stored.
LEMMA PlaceStep ==
    ASSUME MemInv, NEW vaddr, NEW memsz, NEW data \in Seq(Nat),
           Within(vaddr, memsz), Within(vaddr, Len(data)), Place(vaddr, memsz, data)
    PROVE  MemStep /\ Stored(vaddr, data)
<1> DEFINE S == PageSpan(vaddr, memsz)
<1> DEFINE blank == Blank(page_data, S)
<1>1. /\ page_data \in Images /\ page_data' = Written(blank, vaddr, data)
      /\ mapped' = mapped \cup S \cup NewlyMapped(blank, vaddr, data)
  BY DEF MemInv, Place
<1>2. S \subseteq Pages /\ Touched(vaddr, data) \subseteq Pages
  BY SpanPages, TouchedPages
<1> HIDE DEF S
<1>3. /\ blank \in Images
      /\ \A p \in Pages : blank[p] # NoPage <=> page_data[p] # NoPage \/ p \in S
      /\ \A a \in Addrs : \/ Cell(blank, a) = Cell(page_data, a)
                          \/ Cell(page_data, a) = -1 /\ Cell(blank, a) = 0
  BY <1>1, BlankFacts
<1> HIDE DEF blank
<1>4. /\ page_data' \in Images
      /\ \A p \in Pages : page_data'[p] # NoPage
                             <=> blank[p] # NoPage \/ p \in Touched(vaddr, data)
      /\ \A a \in Addrs :
           IF a - vaddr + 1 \in DOMAIN data
           THEN Cell(page_data', a) = data[a - vaddr + 1]
           ELSE \/ Cell(page_data', a) = Cell(blank, a)
                \/ Cell(blank, a) = -1 /\ Cell(page_data', a) = 0
  BY <1>1, <1>3, WrittenFacts
<1>5. Stored(vaddr, data)
  BY <1>3, <1>4 DEF Stored, Kept
<1>6. Cached' = Cached \cup S \cup NewlyMapped(blank, vaddr, data)
  BY <1>2, <1>3, <1>4 DEF Cached, HasData, NewlyMapped
<1> QED
  BY <1>1, <1>4, <1>5, <1>6 DEF MemStep, MemInv

-----------------------------------------------------------------------------
(***************************************************************************)
(* The segments, and the stack of execve, lie in the space.                *)
(***************************************************************************)
Segments == [vaddr : Nat, data : Seq(Nat), memsz : Nat]

\* A program is a sequence of segments.
LEMMA ProgFacts ==
    ASSUME NEW prog \in Programs
    PROVE  /\ prog \in Seq(Segments)
           /\ \A i \in DOMAIN prog : prog[i] \in Segments
           /\ prog # <<>> => 1 \in DOMAIN prog
<1>1. prog \in Seq(Segments)
  BY AddressesFit DEF Segments
<1> QED
  BY <1>1

\* A segment of a file and its patched bytes.
LEMMA FileSegFacts ==
    ASSUME NEW s \in FileSegs
    PROVE  /\ s \in Segments
           /\ Within(s.vaddr, s.memsz) /\ Within(s.vaddr, Len(Patched(s.data)))
           /\ [addr |-> s.vaddr, data |-> Patched(s.data)] \in AllStores
<1>1. PICK prog \in Programs : \E i \in DOMAIN prog : s = prog[i]
  BY DEF FileSegs
<1>2. PICK i \in DOMAIN prog : s = prog[i]
  BY <1>1
<1>3. /\ Within(prog[i].vaddr, prog[i].memsz)
      /\ Within(prog[i].vaddr, Len(prog[i].data) + 2)
  BY AddressesFit
<1>4. s \in Segments
  BY <1>2, ProgFacts
<1>5. /\ Len(Patched(s.data)) \in Nat /\ Len(s.data) \in Nat
      /\ Len(Patched(s.data)) <= Len(s.data) + 2
  BY <1>4, PatchedFacts DEF Segments
<1>6. (LastPage + 1) * PageCells \in Nat
  BY TaskMemConstants
<1>7. Within(s.vaddr, s.memsz) /\ Within(s.vaddr, Len(Patched(s.data)))
  BY <1>2, <1>3, <1>4, <1>5, <1>6 DEF Within, Segments
<1>8. prog # <<>>
  BY <1>2
<1>9. [addr |-> s.vaddr, data |-> Patched(s.data)] \in AllStores
  <2>1. [addr |-> s.vaddr, data |-> Patched(s.data)] \in ProgStores(prog)
    BY <1>2 DEF ProgStores
  <2> QED
    BY <1>1, <1>8, <2>1 DEF AllStores
<1> QED
  BY <1>4, <1>7, <1>9

\* The lowest address is one of the addresses.
LEMMA LowestOf ==
    ASSUME NEW prog \in Programs, prog # <<>>
    PROVE  \E j \in DOMAIN prog : /\ Lowest(prog) = prog[j].vaddr
                                  /\ \A i \in DOMAIN prog : prog[j].vaddr <= prog[i].vaddr
<1> DEFINE V == {prog[i].vaddr : i \in DOMAIN prog}
<1>1. \A i \in DOMAIN prog : prog[i] \in Segments
  BY ProgFacts
<1>2. V \in SUBSET Nat
  BY <1>1 DEF Segments
<1>3. 1 \in DOMAIN prog
  BY ProgFacts
<1>4. V # {}
  BY <1>3
<1>5. \E v \in V : \A w \in V : v <= w
  BY <1>2, <1>4, LeastOf
<1>6. Lowest(prog) = CHOOSE v \in V : \A w \in V : v <= w
  BY DEF Lowest
<1>7. Lowest(prog) \in V /\ \A w \in V : Lowest(prog) <= w
  BY <1>5, <1>6
<1> QED
  BY <1>7

\* A segment as execve places it.
LEMMA ExecSegFacts ==
    ASSUME NEW s \in ExecSegs
    PROVE  /\ s \in Segments
           /\ Within(s.vaddr, s.memsz) /\ Within(s.vaddr, Len(s.data))
           /\ [addr |-> s.vaddr, data |-> s.data] \in AllStores
<1>1. PICK prog \in Programs : \E i \in DOMAIN prog : s = Relocated(prog)[i]
  BY DEF ExecSegs
<1>2. PICK i \in DOMAIN prog : s = Relocated(prog)[i]
  BY <1>1
<1>3. prog # <<>>
  BY <1>2
<1>4. PICK j \in DOMAIN prog : /\ Lowest(prog) = prog[j].vaddr
                               /\ prog[j].vaddr <= prog[i].vaddr
  BY <1>3, LowestOf
<1>5. LET moved == prog[i].vaddr - prog[j].vaddr + EXEC_BASE * PageCells
      IN Within(moved, prog[i].memsz) /\ Within(moved, Len(prog[i].data))
  BY <1>4, AddressesFit
<1>6. prog[i] \in Segments
  BY ProgFacts
<1>7. s = [prog[i] EXCEPT !.vaddr = prog[i].vaddr - prog[j].vaddr + EXEC_BASE * PageCells]
  BY <1>2, <1>4 DEF Relocated
<1>8. /\ s.vaddr = prog[i].vaddr - prog[j].vaddr + EXEC_BASE * PageCells
      /\ s.data = prog[i].data /\ s.memsz = prog[i].memsz
  BY <1>6, <1>7 DEF Segments
<1>9. Within(s.vaddr, s.memsz) /\ Within(s.vaddr, Len(s.data))
  BY <1>5, <1>8
<1>10. s \in Segments
  <2>1. s.vaddr \in Nat
    BY <1>9 DEF Within
  <2> QED
    BY <1>6, <1>7, <1>8, <2>1 DEF Segments
<1>11. [addr |-> s.vaddr, data |-> s.data] \in AllStores
  <2>1. [addr |-> s.vaddr, data |-> s.data] \in ProgStores(prog)
    BY <1>2, <1>8 DEF ProgStores
  <2> QED
    BY <1>1, <1>3, <2>1 DEF AllStores
<1> QED
  BY <1>9, <1>10, <1>11

\* The stack of execve.
LEMMA StackFacts ==
    /\ StackImage.data \in Seq(Nat)
    /\ Within(StackImage.addr, Len(StackImage.data))
    /\ StackImage \in AllStores
<1> DEFINE n == StrEnd - ArgcAt
<1>1. StrEnd = 4 /\ AuxAt = 2 /\ EnvpAt = 0 /\ ArgvAt = -2 /\ ArgcAt = -3
  BY DEF StrEnd, ArgWords, EnvWords, AuxAt, ArrayTop, EnvpAt, ArgvAt, ArgcAt
<1>2. \A i \in -3..3 : StackWord(i) \in Nat
  BY <1>1 DEF StackWord, Pointer, ArgWords
<1>3. n = 7 /\ \A k \in 1..7 : ArgcAt + k - 1 \in -3..3
  BY <1>1
<1>4. StackImage.data = [k \in 1..7 |-> StackWord(ArgcAt + k - 1)]
  BY <1>3 DEF StackImage
<1>5. StackImage.data \in Seq(Nat) /\ Len(StackImage.data) = 7
  <2>1. \A k \in 1..7 : StackWord(ArgcAt + k - 1) \in Nat
    BY <1>2, <1>3
  <2>2. StackImage.data \in [1..7 -> Nat]
    BY <1>4, <2>1
  <2>3. \A m \in Nat : \A f \in [1..m -> Nat] : f \in Seq(Nat) /\ Len(f) = m
    OBVIOUS
  <2> QED
    BY <2>2, <2>3
<1>6. Within(StackImage.addr, n)
  BY AddressesFit
<1> QED
  BY <1>3, <1>5, <1>6 DEF AllStores


-----------------------------------------------------------------------------
(***************************************************************************)
(* Every step keeps the invariant and is a step of the address space.      *)
(***************************************************************************)
Unmapped(addr, len) ==
  \A a \in Addrs : Cell(page_data', a) = IF PageOf(a) \in PageSpan(addr, len) THEN -1
                                         ELSE Cell(page_data, a)
ViewStep ==
  \/ Grown
  \/ \E s \in AllStores : Stored(s.addr, s.data)
  \/ \E addr, len \in Nat : Unmapped(addr, len)

\* A step that leaves memory alone.
LEMMA IdleStep ==
    ASSUME MemInv, UNCHANGED mem
    PROVE  MemStep /\ Grown
  BY DEF MemInv, MemStep, Grown, Kept, mem, Cached, HasData

\* load_elf places one segment, patched.
LEMMA LoadKeeps ==
    ASSUME IInv, LoadSegment
    PROVE  IInv' /\ ViewStep
<1> DEFINE s == Head(todo)
<1>1. todo \in Seq(FileSegs) /\ todo # <<>> /\ mode = "boot" /\ mode' = "boot"
  BY DEF IInv, LoadSegment
<1>2. s \in FileSegs /\ todo' \in Seq(FileSegs)
  BY <1>1 DEF LoadSegment
<1>3. Place(s.vaddr, s.memsz, Patched(s.data))
  BY DEF LoadSegment
<1>4. /\ s \in Segments /\ Within(s.vaddr, s.memsz) /\ Within(s.vaddr, Len(Patched(s.data)))
      /\ [addr |-> s.vaddr, data |-> Patched(s.data)] \in AllStores
  BY <1>2, FileSegFacts
<1> DEFINE e == PageOf(SegEnd(s) + PageCells - 1)
<1>5. vm_end' = (IF e > vm_end THEN e ELSE vm_end) /\ vm_end \in Nat
  BY DEF LoadSegment, IInv
<1> HIDE DEF s, e
<1>6. Patched(s.data) \in Seq(Nat)
  BY <1>4, PatchedFacts DEF Segments
<1>7. MemStep /\ Stored(s.vaddr, Patched(s.data))
  BY <1>3, <1>4, <1>6, PlaceStep DEF IInv
<1>8. vm_end' \in Nat
  <2>1. SegEnd(s) + PageCells - 1 \in Nat
    BY <1>4, TaskMemConstants DEF SegEnd, Segments
  <2>2. e \in Nat
    BY <2>1, PageParts DEF e
  <2> QED
    BY <1>5, <2>2
<1>9. ViewStep
  <2>1. PICK t \in AllStores : t = [addr |-> s.vaddr, data |-> Patched(s.data)]
    BY <1>4
  <2> QED
    BY <1>7, <2>1 DEF ViewStep
<1> QED
  BY <1>1, <1>2, <1>7, <1>8, <1>9 DEF IInv, LoadSegment, MemStep, Within

\* execve places one segment, moved.
LEMMA ExecKeeps ==
    ASSUME IInv, ExecSegment
    PROVE  IInv' /\ ViewStep
<1> DEFINE s == Head(todo)
<1>1. todo \in Seq(ExecSegs) /\ todo # <<>> /\ mode = "exec" /\ mode' = "exec"
  BY DEF IInv, ExecSegment
<1>2. s \in ExecSegs /\ todo' \in Seq(ExecSegs)
  BY <1>1 DEF ExecSegment
<1>3. Place(s.vaddr, s.memsz, s.data)
  BY DEF ExecSegment
<1>4. /\ s \in Segments /\ Within(s.vaddr, s.memsz) /\ Within(s.vaddr, Len(s.data))
      /\ [addr |-> s.vaddr, data |-> s.data] \in AllStores
  BY <1>2, ExecSegFacts
<1> HIDE DEF s
<1>5. s.data \in Seq(Nat)
  BY <1>4 DEF Segments
<1>6. MemStep /\ Stored(s.vaddr, s.data)
  BY <1>3, <1>4, <1>5, PlaceStep DEF IInv
<1>7. ViewStep
  <2>1. PICK t \in AllStores : t = [addr |-> s.vaddr, data |-> s.data]
    BY <1>4
  <2> QED
    BY <1>6, <2>1 DEF ViewStep
<1> QED
  BY <1>1, <1>2, <1>6, <1>7 DEF IInv, ExecSegment, MemStep, Within

\* A load that panics has mapped the pages of the segment it was at.
LEMMA PanicKeeps ==
    ASSUME IInv, SegmentPanics
    PROVE  IInv' /\ ViewStep
<1> DEFINE s == Head(todo)
<1>1. MemInv /\ todo # <<>> /\ mode \in {"boot", "exec"} /\ mode' = "stuck"
  BY DEF IInv, SegmentPanics
<1>2. Within(s.vaddr, s.memsz)
  <2>1. CASE mode = "boot"
    <3>1. s \in FileSegs
      BY <1>1, <2>1 DEF IInv
    <3> HIDE DEF s
    <3> QED
      BY <3>1, FileSegFacts
  <2>2. CASE mode = "exec"
    <3>1. s \in ExecSegs
      BY <1>1, <2>2 DEF IInv
    <3> HIDE DEF s
    <3> QED
      BY <3>1, ExecSegFacts
  <2> QED
    BY <1>1, <2>1, <2>2
<1>3. MapBlank(PageSpan(s.vaddr, s.memsz))
  BY DEF SegmentPanics
<1> HIDE DEF s
<1>4. PageSpan(s.vaddr, s.memsz) \in SUBSET Pages
  BY <1>2, SpanPages
<1>5. MemStep /\ Grown
  BY <1>1, <1>3, <1>4, MapBlankStep
<1> QED
  BY <1>1, <1>5 DEF IInv, SegmentPanics, MemStep, ViewStep, Within

\* find_free_area answers a page number whose area of n pages meets no mapped page:
\* either nothing is mapped below its end, or it starts right after a key that the
\* next key leaves room behind, and the highest key always does.
LEMMA FreeAreaFacts ==
    ASSUME NEW n \in Nat, mapped \subseteq Pages, vm_end \in Nat
    PROVE  LET start == find_free_area(MMAP_BASE, n)
           IN start \in Nat /\ start..(start + n - 1) \cap mapped = {}
<1> DEFINE last == IF vm_end > MMAP_BASE THEN vm_end ELSE MMAP_BASE
<1> DEFINE Gaps == {k \in mapped : \A j \in mapped : j > k => k + 1 + n <= j}
<1> DEFINE start == find_free_area(MMAP_BASE, n)
<1>1. last \in Nat /\ LastPage \in Nat
  BY TaskMemConstants
<1>2. start = IF \A j \in mapped : last + n <= j THEN last
              ELSE 1 + (CHOOSE k \in Gaps : \A j \in Gaps : k <= j)
  BY DEF find_free_area
<1>3. mapped \in SUBSET Nat /\ \A j \in mapped : j <= LastPage
  BY TaskMemConstants DEF Pages
<1> HIDE DEF last, start
<1>4. CASE \A j \in mapped : last + n <= j
  <2>1. start = last
    BY <1>2, <1>4
  <2> QED
    BY <1>1, <1>3, <1>4, <2>1 DEF start
<1>5. CASE ~\A j \in mapped : last + n <= j
  <2>1. Last(mapped) \in mapped /\ \A j \in mapped : j <= Last(mapped)
    BY <1>1, <1>3, <1>5, LastOf
  <2>2. Last(mapped) \in Gaps
    <3> DEFINE m == Last(mapped)
    <3>1. m \in mapped /\ \A j \in mapped : j <= m
      BY <2>1
    <3> HIDE DEF m
    <3>2. m \in Gaps
      BY <1>3, <3>1
    <3> QED
      BY <3>2 DEF m
  <2>3. Gaps \in SUBSET Nat /\ Gaps # {}
    BY <1>3, <2>2
  <2>4. PICK k \in Gaps : start = 1 + k
    <3>1. \E k \in Gaps : \A j \in Gaps : k <= j
      BY <2>3, LeastOf
    <3> HIDE DEF Gaps
    <3>2. (CHOOSE k \in Gaps : \A j \in Gaps : k <= j) \in Gaps
      BY <3>1
    <3> QED
      BY <1>2, <1>5, <3>2
  <2>5. k \in Nat /\ \A j \in mapped : j \in Nat /\ (j > k => k + 1 + n <= j)
    BY <1>3, <2>4
  <2>6. start \in Nat /\ start..(start + n - 1) \cap mapped = {}
    BY <2>4, <2>5
  <2> QED
    BY <2>6 DEF start
<1> QED
  BY <1>4, <1>5

\* A page fault, brk and mmap map blank pages.
LEMMA MapKeeps ==
    ASSUME IInv,
           \/ handle_vmfault
           \/ \E new \in Breaks : sys_brk(new)
           \/ \E addr \in MmapArgs, len \in Lengths : sys_mmap(addr, len)
    PROVE  IInv' /\ ViewStep
<1>1. MemInv /\ Within(heap, 0)
  BY DEF IInv
<1>2. CASE handle_vmfault
  <2>1. PICK p \in Faults : MapBlank({p})
    BY <1>2 DEF handle_vmfault
  <2>2. {p} \in SUBSET Pages
    BY TaskMemConstants DEF Pages
  <2>3. MemStep /\ Grown
    BY <1>1, <2>1, <2>2, MapBlankStep
  <2> QED
    BY <1>2, <2>3 DEF IInv, handle_vmfault, MemStep, ViewStep, Within
<1>3. ASSUME NEW new \in Breaks, sys_brk(new)
      PROVE  IInv' /\ ViewStep
  <2> DEFINE S == IF new > heap THEN PageSpan(heap, new - heap) ELSE {}
  <2>1. MapBlank(S) /\ heap' = new /\ Within(new, 0) /\ mode' = "user"
    BY <1>3, AddressesFit DEF sys_brk, Return
  <2>2. S \in SUBSET Pages
    <3>1. new > heap => Within(heap, new - heap)
      BY <1>1, <2>1 DEF Within
    <3> QED
      BY <3>1, SpanPages
  <2> HIDE DEF S
  <2>3. MemStep /\ Grown
    BY <1>1, <2>1, <2>2, MapBlankStep
  <2> QED
    BY <1>3, <2>1, <2>3 DEF IInv, sys_brk, MemStep, ViewStep, Within
<1>4. ASSUME NEW addr \in MmapArgs, NEW len \in Lengths, sys_mmap(addr, len)
      PROVE  IInv' /\ ViewStep
  <2> DEFINE n == (len + PageCells - 1) \div PageCells
  <2> DEFINE start == IF addr = 0 THEN find_free_area(MMAP_BASE, n) ELSE PageOf(addr)
  <2>1. start + n - 1 <= LastPage /\ MapBlank(start..(start + n - 1)) /\ mode' = "user"
    BY <1>4 DEF sys_mmap, Return
  <2>2. start \in Nat /\ n \in Nat
    <3>1. n \in Nat /\ len \in Nat /\ addr \in Nat
      BY TaskMemConstants
    <3>2. mapped \subseteq Pages /\ vm_end \in Nat
      BY DEF IInv, MemInv, Cached
    <3> HIDE DEF n
    <3> QED
      BY <3>1, <3>2, FreeAreaFacts, PageParts
  <2> HIDE DEF start, n
  <2>3. start..(start + n - 1) \in SUBSET Pages
    BY <2>1, <2>2, TaskMemConstants DEF Pages
  <2>4. MemStep /\ Grown
    BY <1>1, <2>1, <2>3, MapBlankStep
  <2> QED
    BY <1>4, <2>1, <2>4 DEF IInv, sys_mmap, MemStep, ViewStep, Within
<1> QED
  BY <1>2, <1>3, <1>4


\* munmap takes the pages out of both maps.
LEMMA UnmapKeeps ==
    ASSUME IInv, NEW addr \in MmapArgs, NEW len \in Lengths, sys_munmap(addr, len)
    PROVE  IInv' /\ ViewStep
<1> DEFINE S == PageSpan(addr, len)
<1>1. /\ mapped' = mapped \ S /\ mode' = "user"
      /\ page_data' = [p \in Pages |-> IF p \in S THEN NoPage ELSE page_data[p]]
  BY DEF sys_munmap, Return
<1>2. page_data \in Images /\ mapped \subseteq Cached
  BY DEF IInv, MemInv
<1> HIDE DEF S
<1>3. page_data' \in Images
  BY <1>1, <1>2 DEF Images, Contents
<1>4. Cached' = Cached \ S
  BY <1>1 DEF Cached, HasData
<1>5. \A a \in Addrs : PageOf(a) \in Pages
  BY AddrPage
<1>6. Unmapped(addr, len)
  BY <1>1, <1>5 DEF Unmapped, Cell, S
<1>7. addr \in Nat /\ len \in Nat
  BY TaskMemConstants
<1>8. ViewStep
  BY <1>6, <1>7 DEF ViewStep
<1> QED
  BY <1>1, <1>2, <1>3, <1>4, <1>8 DEF IInv, MemInv, sys_munmap, Within

\* A system call's answer, the cleared word of exit and the stack of execve are
\* stores of the address space.
LEMMA FillKeeps ==
    ASSUME IInv,
           \/ \E b \in Buffers : SysFill(b)
           \/ sys_exit
           \/ ExecStack
    PROVE  IInv' /\ ViewStep
<1>1. MemInv
  BY DEF IInv
<1>2. \A b \in Buffers : /\ b \in [addr : Nat, data : Seq(Nat)]
                         /\ Within(b.addr, Len(b.data)) /\ Within(b.addr, 1)
                         /\ Within(0, Len(b.data)) /\ Within(0, 1)
  <2>1. \A b \in Buffers : /\ b \in [addr : Nat, data : Seq(Nat)]
                           /\ Within(b.addr, Len(b.data)) /\ Within(b.addr, 1)
    BY AddressesFit
  <2>2. (LastPage + 1) * PageCells \in Nat
    BY TaskMemConstants
  <2>3. \A addr, len : Within(addr, len) => Within(0, len)
    BY <2>2 DEF Within
  <2> QED
    BY <2>1, <2>3
<1>3. ASSUME NEW b \in Buffers, SysFill(b)
      PROVE  IInv' /\ ViewStep
  <2> DEFINE addr == IF mode = "sys" THEN b.addr ELSE 0
  <2>1. write_bytes(addr, b.data) /\ mode' = "user"
    BY <1>3 DEF SysFill, Return
  <2>2. Within(addr, Len(b.data)) /\ b.data \in Seq(Nat)
    BY <1>2
  <2>3. PICK s \in AllStores : s.addr = addr /\ s.data = b.data
    <3>1. b \in AllStores /\ [b EXCEPT !.addr = 0] \in AllStores
      BY DEF AllStores
    <3>2. /\ [b EXCEPT !.addr = 0].addr = 0
          /\ [b EXCEPT !.addr = 0].data = b.data
      BY <1>2
    <3> QED
      BY <3>1, <3>2
  <2> HIDE DEF addr
  <2>4. MemStep /\ Stored(addr, b.data)
    BY <1>1, <2>1, <2>2, WriteStep
  <2>5. ViewStep
    BY <2>3, <2>4 DEF ViewStep
  <2> QED
    BY <1>3, <2>1, <2>4, <2>5 DEF IInv, SysFill, MemStep, Within
<1>4. CASE sys_exit /\ tid_addr = 0
  <2>1. UNCHANGED mem
    BY <1>4 DEF sys_exit
  <2>2. MemStep /\ Grown
    BY <1>1, <2>1, IdleStep
  <2> QED
    BY <1>4, <2>2 DEF IInv, sys_exit, MemStep, ViewStep, Within
<1>5. CASE sys_exit /\ tid_addr # 0
  <2>1. write_bytes(tid_addr, <<0>>) /\ mode' = "exited"
    BY <1>5 DEF sys_exit
  <2>2. PICK b \in Buffers : tid_addr = b.addr
    BY <1>5 DEF IInv
  <2>3. Within(tid_addr, Len(<<0>>)) /\ <<0>> \in Seq(Nat)
    BY <1>2, <2>2
  <2>4. PICK s \in AllStores : s = [addr |-> tid_addr, data |-> <<0>>]
    BY <2>2 DEF AllStores
  <2>5. MemStep /\ Stored(tid_addr, <<0>>)
    BY <1>1, <2>1, <2>3, WriteStep
  <2>6. ViewStep
    BY <2>4, <2>5 DEF ViewStep
  <2> QED
    BY <1>5, <2>1, <2>5, <2>6 DEF IInv, sys_exit, MemStep, Within
<1>6. CASE ExecStack
  <2>1. write_bytes(StackImage.addr, StackImage.data) /\ mode' = "user"
    BY <1>6 DEF ExecStack, Return
  <2>2. MemStep /\ Stored(StackImage.addr, StackImage.data)
    BY <1>1, <2>1, StackFacts, WriteStep
  <2>3. ViewStep
    BY <2>2, StackFacts DEF ViewStep
  <2> QED
    BY <1>6, <2>1, <2>2, <2>3 DEF IInv, ExecStack, MemStep, Within
<1> QED
  BY <1>3, <1>4, <1>5, <1>6

\* clear_mapped leaves the contents, and execve queues the moved segments.
LEMMA ClearKeeps ==
    ASSUME IInv, ExecClear
    PROVE  IInv' /\ ViewStep
<1>1. /\ mapped' = {} /\ page_data' = page_data /\ mode' = "exec"
      /\ execs < MaxExecs /\ execs' = execs + 1
      /\ heap' = heap /\ vm_end' = vm_end /\ tid_addr' = tid_addr
  BY DEF ExecClear
<1>2. PICK prog \in Programs : todo' = Relocated(prog)
  BY DEF ExecClear
<1>3. todo' \in Seq(ExecSegs)
  <2>1. prog \in Seq(Segments)
    BY ProgFacts
  <2>2. DOMAIN prog = 1..Len(prog) /\ Len(prog) \in Nat
    BY <2>1
  <2>3. \A i \in 1..Len(prog) : Relocated(prog)[i] \in ExecSegs
    BY <2>2 DEF ExecSegs
  <2>4. Relocated(prog) \in [1..Len(prog) -> ExecSegs]
    BY <2>2, <2>3 DEF Relocated
  <2>5. \A m \in Nat : \A f \in [1..m -> ExecSegs] : f \in Seq(ExecSegs)
    OBVIOUS
  <2> QED
    BY <1>2, <2>2, <2>4, <2>5
<1>4. execs' \in 0..MaxExecs /\ execs' # 0
  BY <1>1, TaskMemConstants DEF IInv
<1>5. ViewStep
  BY <1>1 DEF ViewStep, Grown, Kept
<1> QED
  BY <1>1, <1>3, <1>4, <1>5 DEF IInv, MemInv, Within

\* The other steps leave memory alone.
LEMMA RestKeeps ==
    ASSUME IInv,
           \/ LoadRefused \/ LoadDone \/ UserException \/ UnhandledException \/ UnknownSyscall
           \/ \E b \in Buffers : sys_set_tid_address(b.addr)
           \/ SysOther \/ SetTidZero \/ UNCHANGED vars
    PROVE  IInv' /\ ViewStep
<1>1. UNCHANGED mem
  BY DEF LoadRefused, LoadDone, UserException, UnhandledException, UnknownSyscall,
         sys_set_tid_address, SysOther, SetTidZero, vars, mem
<1>2. MemStep /\ Grown
  BY <1>1, IdleStep DEF IInv
<1>3. heap' = heap /\ vm_end' = vm_end /\ todo' = todo /\ execs' = execs
  BY DEF LoadRefused, LoadDone, UserException, UnhandledException, UnknownSyscall,
         sys_set_tid_address, SysOther, SetTidZero, vars
<1>4. tid_addr' \in {0} \cup {b.addr : b \in Buffers}
  BY DEF IInv, LoadRefused, LoadDone, UserException, UnhandledException, UnknownSyscall,
         sys_set_tid_address, SysOther, SetTidZero, vars
<1>5. mode' = mode \/ mode' \in {"user", "sys", "stuck", "sys0"}
  BY DEF LoadRefused, LoadDone, UserException, UnhandledException, UnknownSyscall,
         sys_set_tid_address, SysOther, SetTidZero, vars, Return
<1> QED
  BY <1>2, <1>3, <1>4, <1>5 DEF IInv, MemStep, ViewStep, Within

\* The initial states satisfy the invariant ...
LEMMA InvInit == ASSUME Init PROVE IInv
<1>1. mode = "boot" /\ mapped = {} /\ execs = 0 /\ tid_addr = 0 /\ vm_end = 0
  BY DEF Init
<1>2. page_data = [p \in Pages |-> NoPage] /\ heap = HEAP * PageCells
  BY DEF Init
<1>3. page_data \in Images /\ Cached = {}
  BY <1>2 DEF Images, Contents, Cached, HasData
<1>4. Within(heap, 0)
  <2>1. HEAP \in Nat /\ PageCells \in Nat /\ LastPage \in Nat /\ HEAP <= LastPage + 1
    BY TaskMemConstants
  <2>2. HEAP * PageCells \in Nat /\ HEAP * PageCells <= (LastPage + 1) * PageCells
    BY <2>1
  <2> QED
    BY <1>2, <2>2 DEF Within
<1>5. todo \in Seq(FileSegs)
  <2>1. todo \in Programs
    BY DEF Init
  <2>2. todo \in Seq(Segments)
    BY <2>1, ProgFacts
  <2>3. \A i \in 1..Len(todo) : todo[i] \in FileSegs
    BY <2>1, <2>2 DEF FileSegs
  <2>4. todo \in [1..Len(todo) -> FileSegs] /\ Len(todo) \in Nat
    BY <2>2, <2>3
  <2>5. \A m \in Nat : \A f \in [1..m -> FileSegs] : f \in Seq(FileSegs)
    OBVIOUS
  <2> QED
    BY <2>4, <2>5
<1> QED
  BY <1>1, <1>3, <1>4, <1>5, TaskMemConstants DEF IInv, MemInv

\* ... and every step preserves it and is a step of the address space.
LEMMA InvNext == ASSUME IInv, [Next]_vars PROVE IInv' /\ ViewStep
<1>1. CASE UNCHANGED vars
  BY <1>1, RestKeeps
<1>2. CASE Next
  BY <1>2, LoadKeeps, ExecKeeps, PanicKeeps, MapKeeps, UnmapKeeps, FillKeeps, ClearKeeps, RestKeeps
     DEF Next, Ended
<1> QED
  BY <1>1, <1>2


-----------------------------------------------------------------------------
(***************************************************************************)
(* Theorems.                                                               *)
(***************************************************************************)
\* The invariant holds of every reachable state.
LEMMA InvHolds == Spec => []IInv
<1>1. Init => IInv
  BY InvInit
<1>2. IInv /\ [Next]_vars => IInv'
  BY InvNext
<1> QED
  BY <1>1, <1>2, PTL DEF Spec

\* Type correctness: no call, fault or load leaves the address range, whatever
\* break, buffer or program a task comes with (mod.rs 105-214).
THEOREM TypeCorrect == Spec => []TypeOK
<1>1. IInv => TypeOK
  <2> SUFFICES ASSUME IInv PROVE TypeOK
    OBVIOUS
  <2>1. mapped \subseteq Pages
    BY DEF IInv, MemInv, Cached
  <2>2. \A p \in Pages : page_data[p] = NoPage \/ page_data[p] \in [Cells -> Int]
    <3>1. [Cells -> Nat] \subseteq [Cells -> Int]
      OBVIOUS
    <3> QED
      BY <3>1 DEF IInv, MemInv, Images, Contents
  <2>3. heap \in Nat /\ vm_end \in Nat /\ tid_addr \in Nat
    BY AddressesFit DEF IInv, Within
  <2> QED
    BY <2>1, <2>2, <2>3 DEF IInv, TypeOK
<1> QED
  BY <1>1, InvHolds, PTL

\* The two maps never disagree about a mapped page, and not at all before execve
\* (mod.rs 117-123, 180-201).
THEOREM CoherentHolds == Spec => []Coherent
<1>1. IInv => Coherent
  BY DEF IInv, MemInv, Coherent
<1> QED
  BY <1>1, InvHolds, PTL

\* An area found by mmap overlaps no mapped page, for every number of pages and every
\* layout of the mappings (mod.rs 204-214).
THEOREM FreeAreaHolds == Spec => FreeArea
<1> DEFINE A == \A len \in Lengths : sys_mmap(0, len) =>
                  LET n == (len + PageCells - 1) \div PageCells
                      start == find_free_area(MMAP_BASE, n)
                  IN /\ start..(start + n - 1) \cap mapped = {}
                     /\ execs = 0 => start..(start + n - 1) \cap Cached = {}
<1>1. IInv => A
  <2> SUFFICES ASSUME IInv, NEW len \in Lengths
               PROVE  LET n == (len + PageCells - 1) \div PageCells
                          start == find_free_area(MMAP_BASE, n)
                      IN /\ start..(start + n - 1) \cap mapped = {}
                         /\ execs = 0 => start..(start + n - 1) \cap Cached = {}
    OBVIOUS
  <2> DEFINE n == (len + PageCells - 1) \div PageCells
  <2>1. n \in Nat
    BY TaskMemConstants
  <2>2. mapped \subseteq Pages /\ vm_end \in Nat /\ (execs = 0 => mapped = Cached)
    BY DEF IInv, MemInv, Cached
  <2> HIDE DEF n
  <2> DEFINE start == find_free_area(MMAP_BASE, n)
  <2>3. start..(start + n - 1) \cap mapped = {}
    BY <2>1, <2>2, FreeAreaFacts
  <2> HIDE DEF start
  <2>4. /\ start..(start + n - 1) \cap mapped = {}
        /\ execs = 0 => start..(start + n - 1) \cap Cached = {}
    BY <2>2, <2>3
  <2> QED
    BY <2>4 DEF start, n
<1>2. FreeArea <=> [][A]_vars
  BY DEF FreeArea
<1> HIDE DEF A
<1> QED
  BY <1>1, <1>2, InvHolds, PTL


-----------------------------------------------------------------------------
(***************************************************************************)
(* The pages implement the flat address space.                             *)
(***************************************************************************)
View == [a \in Addrs |-> IF HasData(PageOf(a)) THEN CellOf(a) ELSE -1]

\* What the refinement mapping shows is the cell of the page.
LEMMA ViewIs ==
    ASSUME NEW pd \in Images, NEW a \in Addrs
    PROVE  /\ (IF PageOf(a) \in Pages /\ pd[PageOf(a)] # NoPage
               THEN pd[PageOf(a)][a % PageCells] ELSE -1) = Cell(pd, a)
           /\ Cell(pd, a) \in Int
<1>1. PageOf(a) \in Pages /\ a % PageCells \in Cells
  BY AddrPage, PageParts
<1> QED
  BY <1>1 DEF Cell, Images, Contents

\* Pages between two pages of an area belong to it: munmap drops a run of cells.
LEMMA DropRun ==
    ASSUME NEW addr \in Nat, NEW len \in Nat, NEW a \in Addrs, NEW b \in Addrs, NEW c \in a..b,
           PageOf(a) \in PageSpan(addr, len), PageOf(b) \in PageSpan(addr, len)
    PROVE  c \in Addrs /\ PageOf(c) \in PageSpan(addr, len)
<1>1. a \in Nat /\ b \in Nat /\ c \in Nat /\ a <= c /\ c <= b /\ c \in Addrs
  BY TaskMemConstants DEF Addrs
<1>2. PageOf(a) <= PageOf(c) /\ PageOf(c) <= PageOf(b)
  BY <1>1, PageMono
<1>3. PageOf(a) \in Nat /\ PageOf(b) \in Nat /\ PageOf(c) \in Nat
  BY <1>1, PageParts
<1>4. addr + len + PageCells - 1 \in Nat
  BY TaskMemConstants
<1> DEFINE lo == PageOf(addr)
<1> DEFINE hi == PageOf(addr + len + PageCells - 1)
<1>5. lo \in Nat /\ hi \in Nat /\ PageSpan(addr, len) = lo..(hi - 1)
  BY <1>4, PageParts DEF PageSpan
<1> HIDE DEF lo, hi
<1> QED
  BY <1>1, <1>2, <1>3, <1>5

\* Every step of the task's memory grows the flat space, stores one run of cells in it,
\* drops a run, or leaves it alone: mapping never clears what a task has stored, a buffer
\* that crosses pages arrives whole, and nothing else changes (mod.rs 105-201, mm.rs 14-59).
THEOREM AddressSpaceHolds == Spec => AddressSpaceSpec
<1>1. Init => Space!Init
  <2> SUFFICES ASSUME Init PROVE Space!Init
    OBVIOUS
  <2>1. page_data \in Images /\ \A p \in Pages : page_data[p] = NoPage
    BY InvInit DEF Init, IInv, MemInv
  <2>2. \A a \in Addrs : PageOf(a) \in Pages
    BY AddrPage
  <2>3. View = [a \in Addrs |-> -1]
    BY <2>1, <2>2 DEF View, HasData
  <2> QED
    BY <2>3 DEF Space!Init, View
<1>2. IInv /\ [Next]_vars => [Space!Next]_View
  <2> SUFFICES ASSUME IInv, [Next]_vars PROVE Space!Next
    OBVIOUS
  <2>1. IInv' /\ ViewStep
    BY InvNext
  <2>2. page_data \in Images /\ page_data' \in Images
    BY <2>1 DEF IInv, MemInv
  <2>3. \A a \in Addrs : View[a] = Cell(page_data, a) /\ View'[a] = Cell(page_data', a)
    BY <2>2, ViewIs DEF View, HasData, CellOf
  <2>4. View' \in [Addrs -> Int]
    <3>1. \A a \in Addrs : View'[a] \in Int
      BY <2>2, <2>3, ViewIs
    <3>2. View' = [a \in Addrs |-> View'[a]]
      BY DEF View
    <3> QED
      BY <3>1, <3>2
  <2>5. CASE Grown
    <3>1. Space!Grow
      BY <2>3, <2>5 DEF Space!Grow, Space!KeepOrClear, View, Grown, Kept
    <3> QED
      BY <2>4, <3>1 DEF Space!Next, View
  <2>6. ASSUME NEW s \in AllStores, Stored(s.addr, s.data)
        PROVE  Space!Next
    <3>1. Space!Store(s)
      BY <2>3, <2>6 DEF Space!Store, Space!KeepOrClear, View, Stored, Kept
    <3> QED
      BY <2>4, <3>1 DEF Space!Next, View
  <2>7. ASSUME NEW addr \in Nat, NEW len \in Nat, Unmapped(addr, len)
        PROVE  Space!Next
    <3> DEFINE Dropped == {a \in Addrs : View'[a] # View[a]}
    <3>1. \A a \in Dropped : PageOf(a) \in PageSpan(addr, len) /\ View'[a] = -1
      BY <2>3, <2>7 DEF Unmapped
    <3>2. ASSUME NEW a \in Dropped, NEW b \in Dropped, NEW c \in a..b
          PROVE  View'[c] = -1
      <4>1. c \in Addrs /\ PageOf(c) \in PageSpan(addr, len)
        BY <3>1, DropRun
      <4> QED
        BY <2>3, <2>7, <4>1 DEF Unmapped
    <3>3. Space!Drop
      BY <3>1, <3>2 DEF Space!Drop, View
    <3> QED
      BY <2>4, <3>3 DEF Space!Next, View
  <2> QED
    BY <2>1, <2>5, <2>6, <2>7 DEF ViewStep
<1> QED
  BY <1>1, <1>2, InvHolds, PTL DEF Spec, AddressSpaceSpec, Space!Spec, View


-----------------------------------------------------------------------------
(***************************************************************************)
(* Traps.                                                                  *)
(***************************************************************************)
\* The bytes of a patched instruction: the i-th is that of the trap unless a later
\* instruction's trap lies over it, whose first byte then stands in its place.
LEMMA PatchAt ==
    ASSUME NEW data \in Seq(Nat), NEW j \in Sites(data)
    PROVE  /\ (~\E k \in (j + 1)..(j + 3) : k \in Sites(data)) =>
                 \A i \in 1..4 : Patched(data)[j + i - 1] = TrapInst[i]
           /\ \A k \in (j + 1)..(j + 3) : k \in Sites(data) =>
                 Patched(data)[k] = TrapInst[1]
<1>1. /\ Sites(data) \in SUBSET Nat /\ j \in Nat /\ 1 <= j
      /\ \A m \in Sites(data) : 1 <= m /\ m + 3 <= PatchedLen(data)
      /\ PatchedLen(data) \in Nat
  BY SiteFacts, PatchedFacts
<1>2. \A i \in 1..PatchedLen(data) : Over(data, i) # {} =>
         Patched(data)[i] = TrapInst[i - Last(Over(data, i)) + 1]
  BY DEF Patched
<1>3. ASSUME NEW i \in Nat, NEW m \in Over(data, i), \A k \in Over(data, i) : k <= m
      PROVE  Patched(data)[i] = TrapInst[i - m + 1]
  <2>1. m \in Sites(data) /\ m \in Nat /\ m <= i /\ i <= m + 3
    BY <1>1 DEF Over
  <2>2. i \in 1..PatchedLen(data)
    BY <1>1, <2>1
  <2> DEFINE l == Last(Over(data, i))
  <2>3. l \in Over(data, i) /\ \A k \in Over(data, i) : k <= l
    BY SiteFacts
  <2>4. Patched(data)[i] = TrapInst[i - l + 1]
    BY <1>2, <2>2
  <2> HIDE DEF l
  <2>5. l \in Nat
    BY <1>1, <2>3 DEF Over
  <2>6. l = m
    BY <1>3, <2>1, <2>3, <2>5
  <2> QED
    BY <2>4, <2>6
<1>4. ASSUME ~\E k \in (j + 1)..(j + 3) : k \in Sites(data), NEW i \in 1..4
      PROVE  Patched(data)[j + i - 1] = TrapInst[i]
  <2> DEFINE b == j + i - 1
  <2>1. b \in Nat /\ j <= b /\ b <= j + 3 /\ b - j + 1 = i
    BY <1>1
  <2> HIDE DEF b
  <2>2. j \in Over(data, b)
    BY <2>1 DEF Over
  <2>3. ASSUME NEW k \in Over(data, b)
        PROVE  k <= j
    <3>1. k \in Sites(data) /\ k \in Nat /\ k <= j + 3
      BY <1>1, <2>1 DEF Over
    <3> QED
      BY <1>1, <1>4, <3>1
  <2>4. Patched(data)[b] = TrapInst[i]
    BY <1>3, <2>1, <2>2, <2>3
  <2> QED
    BY <2>4 DEF b
<1>5. ASSUME NEW k \in (j + 1)..(j + 3), k \in Sites(data)
      PROVE  Patched(data)[k] = TrapInst[1]
  <2>1. k \in Nat /\ k - k + 1 = 1
    BY <1>1
  <2>2. k \in Over(data, k) /\ \A l \in Over(data, k) : l <= k
    BY <1>5, <2>1 DEF Over
  <2>3. Patched(data)[k] = TrapInst[k - k + 1]
    BY <1>3, <2>1, <2>2
  <2> QED
    BY <2>1, <2>3
<1> QED
  BY <1>4, <1>5

\* A trap that fits in the page is read as it was written.
LEMMA ReadBack ==
    ASSUME NEW pd \in Images, NEW vaddr \in Nat, NEW bytes \in Seq(Nat),
           Within(vaddr, Len(bytes)),
           \A a \in Addrs : a - vaddr + 1 \in DOMAIN bytes => Cell(pd, a) = bytes[a - vaddr + 1],
           NEW j \in Nat, 1 <= j, j + 3 <= Len(bytes),
           PageOf(vaddr + j - 1) = PageOf(vaddr + j - 1 + 3),
           NEW i \in 1..4
    PROVE  read_u32(pd, vaddr + j - 1)[i] = bytes[j + i - 1]
<1> DEFINE ip == vaddr + j - 1
<1> DEFINE a == ip + i - 1
<1>1. ip \in Nat /\ a \in Nat /\ ip <= a /\ a <= ip + 3 /\ ip + 3 \in Nat
  OBVIOUS
<1>2. a - vaddr + 1 = j + i - 1 /\ j + i - 1 \in DOMAIN bytes
  OBVIOUS
<1>3. a \in Addrs
  <2>1. vaddr + (j + i - 1) - 1 \in Addrs
    BY <1>2, TouchedPages
  <2>2. vaddr + (j + i - 1) - 1 = a
    OBVIOUS
  <2> QED
    BY <2>1, <2>2
<1>4. PageOf(ip) = PageOf(ip + 3)
  OBVIOUS
<1> HIDE DEF ip, a
<1>5. PageOf(a) = PageOf(ip)
  <2>1. PageOf(ip) <= PageOf(a) /\ PageOf(a) <= PageOf(ip + 3)
    BY <1>1, PageMono
  <2>2. PageOf(ip) \in Nat /\ PageOf(a) \in Nat
    BY <1>1, PageParts
  <2> QED
    BY <1>4, <2>1, <2>2
<1>6. Cell(pd, a) = bytes[j + i - 1]
  BY <1>2, <1>3
<1>7. bytes[j + i - 1] \in Nat
  BY <1>2
<1>8. Cell(pd, a) = pd[PageOf(a)][a % PageCells]
  BY <1>6, <1>7 DEF Cell
<1>9. read_u32(pd, ip)[i] = pd[PageOf(ip)][a % PageCells]
  BY <1>5 DEF read_u32, a
<1> QED
  BY <1>5, <1>6, <1>8, <1>9 DEF ip

\* load_elf leaves a trap that handle_user_exception recognises at a syscall
\* instruction of the file, for every file, when the next such instruction is four
\* bytes away or more and the trap's four bytes lie in one page
\* (mod.rs 266-279; exception.rs 57-60).
THEOREM TrapsRecognisedHolds == Spec => TrapsRecognised
<1> DEFINE A == LoadSegment => LET s == Head(todo) IN
       \A j \in DOMAIN s.data :
         LET ip == s.vaddr + j - 1 IN
         /\ SyscallAt(s.data, j)
         /\ PageOf(ip) = PageOf(ip + 3)
         /\ ~\E k \in (j + 1)..(j + 3) : SyscallAt(s.data, k)
         => Recognised(s, j)
<1>1. IInv /\ [Next]_vars => A
  <2> DEFINE s == Head(todo)
  <2> SUFFICES ASSUME IInv, LoadSegment, NEW j \in DOMAIN s.data, SyscallAt(s.data, j),
                      PageOf(s.vaddr + j - 1) = PageOf(s.vaddr + j - 1 + 3),
                      ~\E k \in (j + 1)..(j + 3) : SyscallAt(s.data, k)
               PROVE  Recognised(s, j)
    OBVIOUS
  <2>1. s \in FileSegs /\ Place(s.vaddr, s.memsz, Patched(s.data)) /\ MemInv
    BY DEF LoadSegment, IInv
  <2> DEFINE ip == s.vaddr + j - 1
  <2> DEFINE bytes == Patched(s.data)
  <2> HIDE DEF s
  <2>2. s \in Segments /\ Within(s.vaddr, s.memsz) /\ Within(s.vaddr, Len(bytes))
    BY <2>1, FileSegFacts
  <2>3. s.data \in Seq(Nat) /\ s.vaddr \in Nat
    BY <2>2 DEF Segments
  <2>4. /\ bytes \in Seq(Nat) /\ Len(bytes) = PatchedLen(s.data)
        /\ \A m \in Sites(s.data) : m \in Nat /\ 1 <= m /\ m + 3 <= Len(bytes)
    BY <2>3, PatchedFacts, SiteFacts
  <2>5. MemStep /\ Stored(s.vaddr, bytes)
    BY <2>1, <2>2, <2>4, PlaceStep
  <2>6. page_data' \in Images /\ \A a \in Addrs : a - s.vaddr + 1 \in DOMAIN bytes
                                    => Cell(page_data', a) = bytes[a - s.vaddr + 1]
    BY <2>5 DEF MemStep, MemInv, Stored
  <2>7. j \in Sites(s.data) /\ j \in Nat /\ 1 <= j /\ j + 3 <= Len(bytes)
    BY <2>4 DEF Sites
  <2> DEFINE r == read_u32(page_data', ip)
  <2>8. \A i \in 1..4 : r[i] = bytes[j + i - 1]
    BY <2>2, <2>3, <2>4, <2>6, <2>7, ReadBack
  <2>9. ~\E k \in (j + 1)..(j + 3) : k \in Sites(s.data)
    BY DEF Sites
  <2>10. (r = TrapInst) <=> \A i \in 1..4 : r[i] = TrapInst[i]
    <3>1. r \in [1..4 -> {r[i] : i \in 1..4}]
      BY DEF read_u32
    <3>2. TrapInst \in [1..4 -> {TrapInst[i] : i \in 1..4}]
      BY DEF TrapInst
    <3> QED
      BY <3>1, <3>2
  <2> HIDE DEF r, ip, bytes
  <2>11. \A i \in 1..4 : bytes[j + i - 1] = TrapInst[i]
    BY <2>3, <2>7, <2>9, PatchAt DEF bytes
  <2>12. r = TrapInst
    BY <2>8, <2>10, <2>11
  <2> QED
    BY <2>12 DEF r, ip, Recognised
<1>2. TrapsRecognised <=> [][A]_vars
  BY DEF TrapsRecognised
<1> HIDE DEF A
<1> QED
  BY <1>1, <1>2, InvHolds, PTL DEF Spec
=============================================================================
