---------------------------- MODULE KernelProofs ----------------------------
(***************************************************************************)
(* What the operators of KernelObjects do to the kernel's record: the      *)
(* lemmas that the proofs about the two loaders rest on.                   *)
(***************************************************************************)
EXTENDS KernelObjects, FiniteSetTheorems, SequenceTheorems, WellFoundedInduction, TLAPS

(***************************************************************************)
(* Numbers.                                                                *)
(***************************************************************************)
\* A non-empty set of numbers has a least member.
LEMMA LeastOf ==
    ASSUME NEW S \in SUBSET Nat, S # {}
    PROVE  \E x \in S : \A y \in S : x <= y
<1>1. PICK x \in S : \A y \in S : ~(<<y, x>> \in OpToRel(<, Nat))
  BY NatLessThanWellFounded, WFMin
<1>2. \A y \in S : ~(y < x)
  BY <1>1 DEF OpToRel
<1> QED
  BY <1>2

\* Induction up to N, the property being given as a set.
LEMMA SetInduction ==
    ASSUME NEW D, NEW N \in Nat, 0 \in D, \A n \in 0..(N - 1) : n \in D => n + 1 \in D
    PROVE  \A n \in 0..N : n \in D
<1> DEFINE B == {n \in 0..N : n \notin D}
<1> SUFFICES ASSUME B # {} PROVE FALSE
  OBVIOUS
<1>1. PICK x \in B : \A y \in B : x <= y
  <2>1. B \in SUBSET Nat
    OBVIOUS
  <2> QED
    BY <2>1, LeastOf
<1>2. x \in 0..N /\ x # 0 /\ x - 1 \in 0..(N - 1) /\ x - 1 + 1 = x
  BY <1>1
<1>3. x - 1 \in D
  BY <1>1, <1>2
<1> QED
  BY <1>1, <1>2, <1>3

\* Quotient and remainder.
LEMMA DivFacts ==
    ASSUME NEW n \in Int, NEW d \in Nat \ {0}
    PROVE  /\ n \div d \in Int /\ n % d \in 0..(d - 1)
           /\ n = d * (n \div d) + (n % d)
           /\ n >= 0 => n \div d >= 0
<1> DEFINE q == n \div d
<1> DEFINE r == n % d
<1>1. q \in Int /\ r \in 0..(d - 1)
  OBVIOUS
<1>2. n = d * q + r
  OBVIOUS
<1> HIDE DEF q, r
<1>3. n >= 0 => q >= 0
  <2> SUFFICES ASSUME n >= 0, q <= -1 PROVE FALSE
    BY <1>1
  <2>1. PICK e \in Nat : q = -1 - e
    BY <1>1
  <2>2. d * q = -d - d * e /\ d * e >= 0
    BY <2>1
  <2> QED
    BY <1>1, <1>2, <2>2
<1> QED
  BY <1>1, <1>2, <1>3 DEF q, r

\* A quotient is the number whose multiples enclose the dividend.
LEMMA DivUnique ==
    ASSUME NEW n \in Int, NEW d \in Nat \ {0}, NEW q \in Int, d * q <= n, n < d * q + d
    PROVE  n \div d = q /\ n % d = n - d * q
  OBVIOUS

\* Division is monotonic.
LEMMA DivMono ==
    ASSUME NEW m \in Int, NEW n \in Int, NEW d \in Nat \ {0}, m <= n
    PROVE  m \div d <= n \div d
<1>1. m = d * (m \div d) + (m % d) /\ n = d * (n \div d) + (n % d)
  BY DivFacts
<1>2. m % d >= 0 /\ n % d < d /\ m \div d \in Int /\ n \div d \in Int
  BY DivFacts
<1> DEFINE a == m \div d
<1> DEFINE b == n \div d
<1>3. a \in Int /\ b \in Int /\ d * a <= n /\ n < d * b + d
  BY <1>1, <1>2
<1> HIDE DEF a, b
<1>4. d * a < d * (b + 1)
  BY <1>3
<1>5. ~(a >= b + 1)
  <2> SUFFICES ASSUME a >= b + 1 PROVE FALSE
    OBVIOUS
  <2>1. PICK e \in Nat : a = b + 1 + e
    BY <1>3
  <2>2. d * a = d * (b + 1) + d * e /\ d * e >= 0
    BY <1>3, <2>1
  <2> QED
    BY <1>3, <1>4, <2>2
<1>6. a <= b
  BY <1>3, <1>5
<1> QED
  BY <1>6 DEF a, b

\* The region of a modelled page is modelled.
LEMMA RegionFacts ==
    ASSUME NEW p \in Pages
    PROVE  p \in Nat /\ Region(p) \in Regions
<1>1. p \in Int /\ LastPage \in Int /\ p <= LastPage /\ PagesPerTable \in Nat \ {0} /\ p >= 0
  BY KernelConstants DEF Pages
<1>2. p \div PagesPerTable \in Int /\ p \div PagesPerTable >= 0
  BY <1>1, DivFacts
<1>3. p \div PagesPerTable <= LastPage \div PagesPerTable
  BY <1>1, DivMono
<1>4. LastPage \div PagesPerTable \in Int
  BY <1>1, DivFacts
<1> DEFINE a == p \div PagesPerTable
<1> DEFINE b == LastPage \div PagesPerTable
<1>5. a \in 0..b
  <2> HIDE DEF a, b
  <2>1. a \in Int /\ a >= 0 /\ a <= b /\ b \in Int
    BY <1>2, <1>3, <1>4 DEF a, b
  <2> QED
    BY <2>1
<1> QED
  BY <1>1, <1>5 DEF Region, Regions

(***************************************************************************)
(* The kernel's record.                                                    *)
(***************************************************************************)
CapTypes == {"null", "endpoint", "tcb", "frame", "pt", "cnode", "pml4", "pdpt", "pd"}
Places   == {Nowhere} \cup (Spaces \X Nat)
Kernels  ==
  [caps    : [Slots -> CapTypes],
   untyped : Seq(Untypeds),
   pts     : [Spaces -> [Regions -> Slots \cup {NoCap, Image}]],
   vmap    : [Spaces -> [Pages -> Slots \cup {NoCap, Image}]],
   at      : [Slots -> Places],
   data    : [Slots -> [Cells -> Int]]]

SameObjects(j, k) == j.caps = k.caps /\ j.untyped = k.untyped
SameMemory(j, k)  == j.pts = k.pts /\ j.vmap = k.vmap /\ j.at = k.at /\ j.data = k.data

\* Slots are numbers other than the two that stand for no slot.
LEMMA SlotFacts ==
    /\ Slots \subseteq Nat \ {0}
    /\ NoCap \notin Slots /\ Image \notin Slots /\ NoCap # Image
    /\ Pages \subseteq Nat /\ 0 \in Cells /\ Cells \subseteq Nat
  BY KernelConstants DEF Slots, NoCap, Image, Pages, Cells

\* A kernel of the record type satisfies the type invariant.
LEMMA KernelTyped ==
    ASSUME NEW k \in Kernels
    PROVE  KernelOK(k) /\ Len(k.untyped) \in Nat /\ DOMAIN k.untyped = 1..Len(k.untyped)
<1>1. k.untyped \in Seq(Untypeds)
  BY DEF Kernels
<1>2. ASSUME NEW i \in DOMAIN k.untyped
      PROVE  k.untyped[i].used \in 0..k.untyped[i].units
  <2>1. k.untyped[i] \in Untypeds
    BY <1>1, <1>2
  <2> QED
    BY <2>1 DEF Untypeds
<1>3. /\ k.caps \in [Slots -> CapTypes]
      /\ k.pts \in [Spaces -> [Regions -> Slots \cup {NoCap, Image}]]
      /\ k.vmap \in [Spaces -> [Pages -> Slots \cup {NoCap, Image}]]
  BY DEF Kernels
<1> QED
  BY <1>1, <1>2, <1>3 DEF KernelOK, CapTypes

\* The kernel at boot.
LEMMA BootedFacts ==
    ASSUME NEW m \in Seq(Untypeds), NEW t, NEW pages
    PROVE  Booted(m, t, pages) \in Kernels
<1> DEFINE k == Booted(m, t, pages)
<1>1. k.caps \in [Slots -> CapTypes] /\ k.untyped = m
  BY DEF Booted, CapTypes
<1>2. k.pts \in [Spaces -> [Regions -> Slots \cup {NoCap, Image}]]
  BY DEF Booted
<1>3. k.vmap \in [Spaces -> [Pages -> Slots \cup {NoCap, Image}]]
  BY DEF Booted
<1>4. k.at \in [Slots -> Places] /\ k.data \in [Slots -> [Cells -> Int]]
  BY DEF Booted, Places, ZeroPage
<1>5. k = [caps |-> k.caps, untyped |-> k.untyped, pts |-> k.pts, vmap |-> k.vmap,
           at |-> k.at, data |-> k.data]
  BY DEF Booted
<1> HIDE DEF k
<1>6. k \in Kernels
  BY <1>1, <1>2, <1>3, <1>4, <1>5 DEF Kernels
<1> QED
  BY <1>6 DEF k

\* Objects have a size.
LEMMA SizeFacts ==
    ASSUME NEW ty
    PROVE  ObjectUnits(ty) \in Nat \ {0}
  BY KernelConstants DEF ObjectUnits

\* Rounding up gives a number at least as large.
LEMMA AlignFacts ==
    ASSUME NEW n \in Nat, NEW size \in Nat \ {0}
    PROVE  AlignUp(n, size) \in Nat
<1> DEFINE q == (n + size - 1) \div size
<1>1. n + size - 1 \in Int /\ n + size - 1 >= 0
  OBVIOUS
<1>2. q \in Nat
  BY <1>1, DivFacts
<1> HIDE DEF q
<1>3. q * size \in Nat
  BY <1>2
<1> QED
  BY <1>3 DEF AlignUp, q

Retyped(r, k, ty, slot, n) ==
  /\ r.k \in Kernels /\ r.ok \in BOOLEAN
  /\ SameMemory(r.k, k) /\ Len(r.k.untyped) = Len(k.untyped)
  /\ ~r.ok => r.k = k
  /\ r.ok => /\ slot..(slot + n - 1) \subseteq Slots
             /\ \A s \in slot..(slot + n - 1) : k.caps[s] = "null"
             /\ r.k.caps = [s \in Slots |-> IF s \in slot..(slot + n - 1)
                                            THEN ty ELSE k.caps[s]]

\* A retype puts objects of one type in empty slots, within the untyped, or
\* changes nothing.
LEMMA RetypeFacts ==
    ASSUME NEW k \in Kernels, NEW ut, NEW ty \in CapTypes, NEW slot \in Int, NEW n \in Nat \ {0}
    PROVE  Retyped(Retype(k, ut, ty, slot, n), k, ty, slot, n)
<1> DEFINE r == Retype(k, ut, ty, slot, n)
<1> DEFINE size == ObjectUnits(ty)
<1> DEFINE start == AlignUp(k.untyped[ut].used, size)
<1> DEFINE dest == slot..(slot + n - 1)
<1> DEFINE good == /\ start + n * size <= k.untyped[ut].units
                   /\ n <= RetypeFanOut
                   /\ dest \subseteq Slots
                   /\ \A s \in dest : k.caps[s] = "null"
<1> DEFINE caps == [s \in Slots |-> IF s \in dest THEN ty ELSE k.caps[s]]
<1> DEFINE uts == [k.untyped EXCEPT ![ut] = [@ EXCEPT !.used = start + n * size]]
<1>1. k.untyped \in Seq(Untypeds) /\ k.caps \in [Slots -> CapTypes]
  BY DEF Kernels
<1>2. CASE ~good
  <2>1. r = Fails(k)
    BY <1>2 DEF Retype
  <2> QED
    BY <2>1 DEF Fails, SameMemory, Retyped
<1>3. CASE good
  <2>1. r = Succeeds([k EXCEPT !.untyped = uts, !.caps = caps])
    BY <1>3 DEF Retype
  <2>2. uts \in Seq(Untypeds) /\ Len(uts) = Len(k.untyped)
    <3>1. CASE ut \notin DOMAIN k.untyped
      <4>1. uts = k.untyped
        BY <1>1, <3>1
      <4> QED
        BY <1>1, <4>1
    <3>2. CASE ut \in DOMAIN k.untyped
      <4> DEFINE u == k.untyped[ut]
      <4> DEFINE v == [u EXCEPT !.used = start + n * size]
      <4>1. u \in Untypeds /\ ut \in 1..Len(k.untyped)
        BY <1>1, <3>2
      <4>2. u.units \in Nat /\ u.used \in Nat
        BY <4>1 DEF Untypeds
      <4>3. start \in Nat /\ size \in Nat
        BY <4>2, SizeFacts, AlignFacts
      <4>4. start + n * size \in Nat
        BY <4>3
      <4>5. start + n * size <= u.units
        BY <1>3
      <4> HIDE DEF start, size
      <4>6. v \in Untypeds
        BY <4>1, <4>4, <4>5 DEF Untypeds
      <4> HIDE DEF v
      <4>7. uts = [k.untyped EXCEPT ![ut] = v]
        BY DEF v
      <4> HIDE DEF u, uts, caps, good, r, dest
      <4> QED
        BY <1>1, <3>2, <4>6, <4>7, ExceptSeq
    <3> QED
      BY <3>1, <3>2
  <2>3. caps \in [Slots -> CapTypes]
    BY <1>1
  <2> HIDE DEF uts, caps, good
  <2> DEFINE j == [k EXCEPT !.untyped = uts, !.caps = caps]
  <2>4. j \in Kernels /\ SameMemory(j, k) /\ j.untyped = uts /\ j.caps = caps
    BY <2>2, <2>3 DEF Kernels, SameMemory
  <2>5. r.k = j /\ r.ok = TRUE
    BY <2>1 DEF Succeeds
  <2> HIDE DEF j, r
  <2>6. dest \subseteq Slots /\ \A s \in dest : k.caps[s] = "null"
    BY <1>3 DEF good
  <2>7. r.k \in Kernels /\ r.ok \in BOOLEAN /\ SameMemory(r.k, k)
    BY <2>4, <2>5
  <2>8. Len(r.k.untyped) = Len(k.untyped) /\ r.k.caps = caps /\ r.ok
    BY <2>2, <2>4, <2>5
  <2> QED
    BY <2>6, <2>7, <2>8 DEF Retyped, r, caps
<1> QED
  BY <1>2, <1>3

Made(r, k, ty, slot) ==
  /\ r.k \in Kernels /\ r.ok \in BOOLEAN
  /\ SameMemory(r.k, k) /\ Len(r.k.untyped) = Len(k.untyped)
  /\ ~r.ok => r.k = k
  /\ r.ok => /\ slot \in Slots /\ k.caps[slot] = "null"
             /\ r.k.caps = [k.caps EXCEPT ![slot] = ty]

\* One object from the first untyped that is large enough.
LEMMA MakeFacts ==
    ASSUME NEW k \in Kernels, NEW ty \in CapTypes, NEW slot \in Int
    PROVE  Made(Make(k, ty, slot), k, ty, slot)
<1> DEFINE ut == find_free_untyped(k, IF ty = "cnode" THEN 2 ELSE ObjectUnits(ty))
<1> DEFINE r == Make(k, ty, slot)
<1>1. CASE ut = 0
  <2>1. r = Fails(k)
    BY <1>1 DEF Make
  <2> QED
    BY <2>1 DEF Fails, SameMemory, Made
<1>2. CASE ut # 0
  <2>1. r = Retype(k, ut, ty, slot, 1)
    BY <1>2 DEF Make
  <2> HIDE DEF ut
  <2>2. slot..(slot + 1 - 1) = {slot} /\ 1 \in Nat \ {0}
    OBVIOUS
  <2>3a. Retyped(r, k, ty, slot, 1)
    BY <2>1, <2>2, RetypeFacts
  <2> HIDE DEF r
  <2>3. /\ r.k \in Kernels /\ r.ok \in BOOLEAN
        /\ SameMemory(r.k, k) /\ Len(r.k.untyped) = Len(k.untyped)
        /\ ~r.ok => r.k = k
        /\ r.ok => /\ slot..(slot + 1 - 1) \subseteq Slots
                   /\ \A s \in slot..(slot + 1 - 1) : k.caps[s] = "null"
                   /\ r.k.caps = [s \in Slots |-> IF s \in slot..(slot + 1 - 1)
                                                  THEN ty ELSE k.caps[s]]
    BY <2>3a DEF Retyped
  <2>4. k.caps \in [Slots -> CapTypes]
    BY DEF Kernels
  <2>5. r.ok => slot \in Slots /\ k.caps[slot] = "null"
    BY <2>2, <2>3
  <2>6. r.ok => r.k.caps = [s \in Slots |-> IF s = slot THEN ty ELSE k.caps[s]]
    BY <2>2, <2>3
  <2>7. [s \in Slots |-> IF s = slot THEN ty ELSE k.caps[s]] = [k.caps EXCEPT ![slot] = ty]
    BY <2>4
  <2>8. r.ok => r.k.caps = [k.caps EXCEPT ![slot] = ty]
    BY <2>6, <2>7
  <2> QED
    BY <2>3, <2>5, <2>8 DEF r, Made
<1> QED
  BY <1>1, <1>2

TableMapped(r, k, slot, vs, region) ==
  /\ r.k \in Kernels /\ r.ok \in BOOLEAN
  /\ SameObjects(r.k, k) /\ r.k.vmap = k.vmap /\ r.k.data = k.data
  /\ ~r.ok => r.k = k
  /\ r.ok => /\ HasCap(k, slot, "pt") /\ k.at[slot] = Nowhere
             /\ slot \in Slots /\ k.pts[vs][region] = NoCap
             /\ r.k.pts = [k.pts EXCEPT ![vs][region] = slot]
             /\ r.k.at = [k.at EXCEPT ![slot] = <<vs, region>>]

\* A page table goes where there is none.
LEMMA PageTableMapFacts ==
    ASSUME NEW k \in Kernels, NEW slot, NEW vs \in Spaces, NEW region \in Regions
    PROVE  TableMapped(PageTable_Map(k, slot, vs, region), k, slot, vs, region)
<1> DEFINE r == PageTable_Map(k, slot, vs, region)
<1> DEFINE good == HasCap(k, slot, "pt") /\ k.at[slot] = Nowhere /\ k.pts[vs][region] = NoCap
<1>1. CASE ~good
  <2>1. r = Fails(k)
    BY <1>1 DEF PageTable_Map
  <2> QED
    BY <2>1 DEF Fails, SameObjects, TableMapped
<1>2. CASE good
  <2> DEFINE pts == [k.pts EXCEPT ![vs][region] = slot]
  <2> DEFINE at == [k.at EXCEPT ![slot] = <<vs, region>>]
  <2>1. r = Succeeds([k EXCEPT !.pts = pts, !.at = at])
    BY <1>2 DEF PageTable_Map
  <2>2. slot \in Slots /\ k.pts[vs][region] = NoCap
    BY <1>2 DEF HasCap
  <2>3. region \in Nat
    BY DEF Regions
  <2>4. pts \in [Spaces -> [Regions -> Slots \cup {NoCap, Image}]]
    BY <2>2 DEF Kernels
  <2>5. at \in [Slots -> Places]
    <3>1. k.at \in [Slots -> Places] /\ <<vs, region>> \in Places
      BY <2>3 DEF Kernels, Places
    <3> QED
      BY <2>2, <3>1
  <2> HIDE DEF pts, at, good
  <2> DEFINE j == [k EXCEPT !.pts = pts, !.at = at]
  <2>6. /\ j \in Kernels /\ SameObjects(j, k) /\ j.vmap = k.vmap /\ j.data = k.data
        /\ j.pts = pts /\ j.at = at
    BY <2>4, <2>5 DEF Kernels, SameObjects
  <2>7. r.k = j /\ r.ok = TRUE
    BY <2>1 DEF Succeeds
  <2> HIDE DEF j, r
  <2> QED
    BY <1>2, <2>2, <2>6, <2>7 DEF TableMapped, r, pts, at, good
<1> QED
  BY <1>1, <1>2

FrameMapped(r, k, slot, vs, page) ==
  /\ r.k \in Kernels /\ r.ok \in BOOLEAN
  /\ SameObjects(r.k, k) /\ r.k.pts = k.pts /\ r.k.data = k.data
  /\ ~r.ok => r.k = k
  /\ r.ok => /\ CanMap(k, slot, vs, page) /\ slot \in Slots
             /\ r.k.vmap = [k.vmap EXCEPT ![vs][page] = slot]
             /\ r.k.at = [k.at EXCEPT ![slot] = <<vs, page>>]

\* A frame replaces what backed the page.
LEMMA FrameMapFacts ==
    ASSUME NEW k \in Kernels, NEW slot, NEW vs \in Spaces, NEW page \in Pages
    PROVE  FrameMapped(Frame_Map(k, slot, vs, page), k, slot, vs, page)
<1> DEFINE r == Frame_Map(k, slot, vs, page)
<1> DEFINE good == CanMap(k, slot, vs, page)
<1>1. CASE ~good
  <2>1. r = Fails(k)
    BY <1>1 DEF Frame_Map
  <2> QED
    BY <2>1 DEF Fails, SameObjects, FrameMapped
<1>2. CASE good
  <2> DEFINE vmap == [k.vmap EXCEPT ![vs][page] = slot]
  <2> DEFINE at == [k.at EXCEPT ![slot] = <<vs, page>>]
  <2>1. r = Succeeds([k EXCEPT !.vmap = vmap, !.at = at])
    BY <1>2 DEF Frame_Map
  <2>2. slot \in Slots
    BY <1>2 DEF CanMap, HasCap
  <2>3. page \in Nat
    BY SlotFacts
  <2>4. vmap \in [Spaces -> [Pages -> Slots \cup {NoCap, Image}]]
    BY <2>2 DEF Kernels
  <2>5. at \in [Slots -> Places]
    <3>1. k.at \in [Slots -> Places] /\ <<vs, page>> \in Places
      BY <2>3 DEF Kernels, Places
    <3> QED
      BY <2>2, <3>1
  <2> HIDE DEF vmap, at
  <2> DEFINE j == [k EXCEPT !.vmap = vmap, !.at = at]
  <2>6. /\ j \in Kernels /\ SameObjects(j, k) /\ j.pts = k.pts /\ j.data = k.data
        /\ j.vmap = vmap /\ j.at = at
    BY <2>4, <2>5 DEF Kernels, SameObjects
  <2>7. r.k = j /\ r.ok = TRUE
    BY <2>1 DEF Succeeds
  <2> HIDE DEF j, r
  <2> QED
    BY <1>2, <2>2, <2>6, <2>7 DEF FrameMapped, r, vmap, at
<1> QED
  BY <1>1, <1>2

StoredAt(j, k, page, cells) ==
  /\ j \in Kernels /\ SameObjects(j, k)
  /\ j.pts = k.pts /\ j.vmap = k.vmap /\ j.at = k.at
  /\ k.vmap["root"][page] \notin Slots => j = k
  /\ k.vmap["root"][page] \in Slots =>
       j.data = [k.data EXCEPT ![k.vmap["root"][page]] = cells]

\* A store of the root task changes the frame behind the page and nothing else.
LEMMA StoredFacts ==
    ASSUME NEW k \in Kernels, NEW page, NEW cells \in [Cells -> Int]
    PROVE  StoredAt(Stored(k, page, cells), k, page, cells)
<1> DEFINE s == k.vmap["root"][page]
<1> DEFINE j == Stored(k, page, cells)
<1>1. CASE s \notin Slots
  BY <1>1 DEF Stored, SameObjects, StoredAt
<1>2. CASE s \in Slots
  <2> DEFINE data == [k.data EXCEPT ![s] = cells]
  <2>1. j = [k EXCEPT !.data = data]
    BY <1>2 DEF Stored
  <2>2. data \in [Slots -> [Cells -> Int]]
    BY DEF Kernels
  <2> HIDE DEF StoredAt, data, s, j
  <2>3. /\ j \in Kernels /\ SameObjects(j, k)
        /\ j.pts = k.pts /\ j.vmap = k.vmap /\ j.at = k.at /\ j.data = data
    BY <2>1, <2>2 DEF Kernels, SameObjects
  <2> QED
    BY <1>2, <2>3 DEF StoredAt, data, s, j
<1> QED
  BY <1>1, <1>2

FrameMade(r, k, slot, vs, page) ==
  /\ r.k \in Kernels /\ r.ok \in BOOLEAN
  /\ r.k.pts = k.pts /\ r.k.data = k.data /\ Len(r.k.untyped) = Len(k.untyped)
  /\ r.k.caps \in {k.caps, [k.caps EXCEPT ![slot] = "frame"]}
  /\ slot \notin Slots \/ k.caps[slot] # "null" => r.k.caps = k.caps
  /\ ~r.ok => r.k.vmap = k.vmap
  /\ r.ok => /\ slot \in Slots /\ k.caps[slot] = "null"
             /\ k.pts[vs][Region(page)] # NoCap
             /\ r.k.caps = [k.caps EXCEPT ![slot] = "frame"]
             /\ r.k.vmap = [k.vmap EXCEPT ![vs][page] = slot]
             /\ r.k.at = [k.at EXCEPT ![slot] = <<vs, page>>]

\* A frame is retyped into an empty slot, and mapped.
LEMMA MakeFrameFacts ==
    ASSUME NEW k \in Kernels, NEW slot \in Int, NEW vs \in Spaces, NEW page \in Pages
    PROVE  FrameMade(MakeFrame(k, slot, vs, page), k, slot, vs, page)
<1> DEFINE r0 == Make(k, "frame", slot)
<1> DEFINE r == MakeFrame(k, slot, vs, page)
<1>0. Made(r0, k, "frame", slot)
  <2>1. "frame" \in CapTypes
    BY DEF CapTypes
  <2> QED
    BY <2>1, MakeFacts
<1>1. /\ r0.k \in Kernels /\ r0.ok \in BOOLEAN
      /\ SameMemory(r0.k, k) /\ Len(r0.k.untyped) = Len(k.untyped)
      /\ ~r0.ok => r0.k = k
      /\ r0.ok => /\ slot \in Slots /\ k.caps[slot] = "null"
                  /\ r0.k.caps = [k.caps EXCEPT ![slot] = "frame"]
  BY <1>0 DEF Made
<1>2. CASE ~r0.ok
  <2>1. r = r0
    BY <1>2 DEF MakeFrame
  <2> HIDE DEF r0, r
  <2> QED
    BY <1>1, <1>2, <2>1 DEF FrameMade, SameMemory, r
<1>3. CASE r0.ok
  <2>1. r = Frame_Map(r0.k, slot, vs, page)
    BY <1>3 DEF MakeFrame
  <2> DEFINE k1 == r0.k
  <2>2. /\ r.k \in Kernels /\ r.ok \in BOOLEAN
        /\ SameObjects(r.k, k1) /\ r.k.pts = k1.pts /\ r.k.data = k1.data
        /\ ~r.ok => r.k = k1
        /\ r.ok => /\ CanMap(k1, slot, vs, page) /\ slot \in Slots
                   /\ r.k.vmap = [k1.vmap EXCEPT ![vs][page] = slot]
                   /\ r.k.at = [k1.at EXCEPT ![slot] = <<vs, page>>]
    <3>1. FrameMapped(r, k1, slot, vs, page)
      BY <1>1, <2>1, FrameMapFacts
    <3> QED
      BY <3>1 DEF FrameMapped
  <2> HIDE DEF r0, r
  <2>3. /\ k1.pts = k.pts /\ k1.vmap = k.vmap /\ k1.at = k.at /\ k1.data = k.data
        /\ Len(k1.untyped) = Len(k.untyped) /\ k1.caps = [k.caps EXCEPT ![slot] = "frame"]
    BY <1>1, <1>3 DEF SameMemory
  <2> HIDE DEF k1
  <2>4. r.ok => k.pts[vs][Region(page)] # NoCap
    BY <2>2, <2>3 DEF CanMap
  <2>5. slot \in Slots /\ k.caps[slot] = "null"
    BY <1>1, <1>3
  <2>6. r.k.caps = [k.caps EXCEPT ![slot] = "frame"] /\ Len(r.k.untyped) = Len(k.untyped)
    BY <2>2, <2>3 DEF SameObjects
  <2> QED
    BY <2>2, <2>3, <2>4, <2>5, <2>6 DEF FrameMade, r
<1> QED
  BY <1>1, <1>2, <1>3

(***************************************************************************)
(* Program headers.                                                        *)
(***************************************************************************)
\* The headers selected are headers of the file.
LEMMA LoadHeadersFacts ==
    ASSUME NEW S, NEW phdrs \in Seq(S), NEW readable \in 0..Len(phdrs)
    PROVE  LoadHeaders(phdrs, readable) \in Seq({h \in S : h.load})
<1> DEFINE Step(g, n) == IF n = 0 THEN <<>>
                         ELSE IF phdrs[n].load THEN Append(g[n - 1], phdrs[n]) ELSE g[n - 1]
<1> DEFINE Good(g, m) == g = [n \in 0..m |-> Step(g, n)]
<1> DEFINE D == {m \in Nat : \E g : Good(g, m)}
<1>1. 0 \in D
  <2>1. Good([n \in 0..0 |-> <<>>], 0)
    OBVIOUS
  <2> QED
    BY <2>1
<1>2. ASSUME NEW m \in 0..(readable - 1), m \in D
      PROVE  m + 1 \in D
  <2>1. PICK g : Good(g, m)
    BY <1>2
  <2> DEFINE h == [n \in 0..(m + 1) |-> Step(g, n)]
  <2>2. \A n \in 0..m : h[n] = g[n]
    <3> HIDE DEF Step
    <3>1. \A n \in 0..m : g[n] = Step(g, n)
      BY <2>1
    <3>2. \A n \in 0..m : h[n] = Step(g, n)
      OBVIOUS
    <3> QED
      BY <3>1, <3>2
  <2>3. \A n \in 0..(m + 1) : n # 0 => n - 1 \in 0..m
    OBVIOUS
  <2>4. \A n \in 0..(m + 1) : n # 0 => h[n - 1] = g[n - 1]
    BY <2>2, <2>3
  <2>5. \A n \in 0..(m + 1) : h[n] = Step(g, n)
    OBVIOUS
  <2>6. h = [n \in 0..(m + 1) |-> h[n]]
    OBVIOUS
  <2> HIDE DEF h
  <2>7. \A n \in 0..(m + 1) : Step(h, n) = Step(g, n)
    BY <2>4
  <2>8. Good(h, m + 1)
    BY <2>5, <2>6, <2>7
  <2> QED
    BY <2>8
<1>3. readable \in Nat
  OBVIOUS
<1>4. \E g : Good(g, readable)
  <2> HIDE DEF D
  <2>1. \A n \in 0..readable : n \in D
    BY <1>1, <1>2, <1>3, SetInduction
  <2>2. readable \in D
    BY <1>3, <2>1
  <2> HIDE DEF Good
  <2> QED
    BY <2>2 DEF D
<1> DEFINE F == CHOOSE g : Good(g, readable)
<1>5. Good(F, readable)
  BY <1>4
<1>6. LoadHeaders(phdrs, readable) = F[readable]
  BY DEF LoadHeaders
<1>7. \A n \in 0..readable : F[n] = Step(F, n)
  BY <1>5
<1> HIDE DEF F
<1> DEFINE T == {h \in S : h.load}
<1> DEFINE E == {n \in Nat : F[n] \in Seq(T)}
<1>8. 0 \in E
  <2>1. F[0] = <<>>
    BY <1>3, <1>7
  <2>2. F[0] \in Seq(T)
    BY <2>1, EmptySeq
  <2> QED
    BY <2>2
<1>9. ASSUME NEW n \in 0..(readable - 1), n \in E
      PROVE  n + 1 \in E
  <2>1. n + 1 \in 0..readable /\ n + 1 \in 1..Len(phdrs) /\ n + 1 # 0 /\ n + 1 - 1 = n
    OBVIOUS
  <2>2. F[n + 1] = IF phdrs[n + 1].load THEN Append(F[n], phdrs[n + 1]) ELSE F[n]
    BY <1>7, <2>1
  <2>3. F[n] \in Seq(T) /\ (phdrs[n + 1].load => phdrs[n + 1] \in T)
    BY <1>9, <2>1
  <2> HIDE DEF T
  <2>4. F[n + 1] \in Seq(T)
    BY <2>2, <2>3
  <2> QED
    BY <2>4
<1> HIDE DEF E
<1>10. \A n \in 0..readable : n \in E
  BY <1>3, <1>8, <1>9, SetInduction
<1> QED
  BY <1>3, <1>6, <1>10 DEF E

-----------------------------------------------------------------------------
(***************************************************************************)
(* The walk over the pages of segments.                                    *)
(***************************************************************************)
\* Headers of segments that lie in the pages modelled.
Loadable == {h \in Headers : h.vaddr + h.memsz <= (LastPage + 1) * PageCells}

\* The pages of a segment, counted from the first.
LEMMA PageRangeFacts ==
    ASSUME NEW h \in Loadable
    PROVE  /\ page_range(h) \subseteq Pages
           /\ h.vaddr \div PageCells \in Nat
           /\ Cardinality(page_range(h)) \in Nat
           /\ \A i \in 1..Cardinality(page_range(h)) :
                (h.vaddr \div PageCells) + i - 1 \in page_range(h)
           /\ \A p \in page_range(h) :
                \E i \in 1..Cardinality(page_range(h)) : p = (h.vaddr \div PageCells) + i - 1
<1> DEFINE a == h.vaddr \div PageCells
<1> DEFINE b == (h.vaddr + h.memsz + PageCells - 1) \div PageCells - 1
<1>1. /\ PageCells \in Nat \ {0} /\ LastPage \in Nat /\ h.vaddr \in Nat /\ h.memsz \in Nat
      /\ h.vaddr + h.memsz <= (LastPage + 1) * PageCells
  BY KernelConstants DEF Loadable, Headers
<1>2. a \in Nat
  <2>1. h.vaddr \in Int /\ h.vaddr >= 0
    BY <1>1
  <2>2. a \in Int /\ a >= 0
    BY <1>1, <2>1, DivFacts
  <2> HIDE DEF a
  <2> QED
    BY <2>2
<1>3. b \in Int /\ b <= LastPage
  <2> DEFINE x == h.vaddr + h.memsz + PageCells - 1
  <2> DEFINE y == PageCells * (LastPage + 1) + PageCells - 1
  <2>1. x \in Int /\ y \in Int /\ x <= y
    BY <1>1
  <2>2. x \div PageCells <= y \div PageCells /\ x \div PageCells \in Int
    BY <1>1, <2>1, DivMono, DivFacts
  <2>3. y \div PageCells = LastPage + 1
    <3>1. PageCells * (LastPage + 1) <= y /\ y < PageCells * (LastPage + 1) + PageCells
      BY <1>1
    <3>2. LastPage + 1 \in Int
      BY <1>1
    <3> HIDE DEF y
    <3> QED
      BY <1>1, <2>1, <3>1, <3>2, DivUnique
  <2> DEFINE q == x \div PageCells
  <2>4. q \in Int /\ q <= LastPage + 1
    BY <2>2, <2>3
  <2>5. b = q - 1
    OBVIOUS
  <2> HIDE DEF q, b
  <2> QED
    BY <1>1, <2>4, <2>5
<1>4. page_range(h) = a..b
  BY DEF page_range
<1> HIDE DEF a, b
<1>5. Cardinality(a..b) = IF a > b THEN 0 ELSE b - a + 1
  BY <1>2, <1>3, FS_Interval
<1>6. a..b \subseteq Pages
  BY <1>1, <1>2, <1>3 DEF Pages
<1>7. \A i \in 1..Cardinality(a..b) : a + i - 1 \in a..b
  BY <1>2, <1>3, <1>5
<1>8. ASSUME NEW p \in a..b
      PROVE  \E i \in 1..Cardinality(a..b) : p = a + i - 1
  <2>1. p - a + 1 \in 1..Cardinality(a..b) /\ p = a + (p - a + 1) - 1
    BY <1>2, <1>3, <1>5
  <2> QED
    BY <2>1
<1>9. Cardinality(a..b) \in Nat
  BY <1>2, <1>3, <1>5
<1> QED
  BY <1>2, <1>4, <1>6, <1>7, <1>8, <1>9 DEF a

\* w lists the pages of the first n segments, each once per segment.
WalkOK(w, segs, n) ==
  /\ w \in Seq([seg : 1..n, page : Pages])
  /\ \A j \in DOMAIN w : w[j].page \in page_range(segs[w[j].seg])
  /\ \A i \in 1..n : \A p \in page_range(segs[i]) :
       \E j \in DOMAIN w : w[j].seg = i /\ w[j].page = p
  /\ \A j, l \in DOMAIN w : w[j].seg = w[l].seg /\ w[j].page = w[l].page => j = l

\* The pages of one more segment are appended.
LEMMA WalkStep ==
    ASSUME NEW segs \in Seq(Loadable), NEW n \in 0..(Len(segs) - 1), NEW w, WalkOK(w, segs, n)
    PROVE  WalkOK(w \o [i \in 1..Cardinality(page_range(segs[n + 1])) |->
                          [seg |-> n + 1,
                           page |-> (segs[n + 1].vaddr \div PageCells) + i - 1]],
                  segs, n + 1)
<1> DEFINE h == segs[n + 1]
<1> DEFINE a == h.vaddr \div PageCells
<1> DEFINE c == Cardinality(page_range(h))
<1> DEFINE part == [i \in 1..c |-> [seg |-> n + 1, page |-> a + i - 1]]
<1> DEFINE S == [seg : 1..(n + 1), page : Pages]
<1> DEFINE v == w \o part
<1>1. h \in Loadable /\ n \in Nat
  OBVIOUS
<1>2. /\ page_range(h) \subseteq Pages /\ a \in Nat /\ c \in Nat
      /\ \A i \in 1..c : a + i - 1 \in page_range(h)
      /\ \A p \in page_range(h) : \E i \in 1..c : p = a + i - 1
  BY <1>1, PageRangeFacts
<1> HIDE DEF a, c, h
<1>3. part \in Seq(S) /\ Len(part) = c /\ DOMAIN part = 1..c
  <2>1. n + 1 \in 1..(n + 1)
    BY <1>1
  <2>2. \A i \in 1..c : [seg |-> n + 1, page |-> a + i - 1] \in S
    <3> HIDE DEF part
    <3>1. \A i \in 1..c : a + i - 1 \in Pages
      BY <1>2
    <3> QED
      BY <2>1, <3>1
  <2> HIDE DEF S
  <2>3. part \in [1..c -> S]
    BY <2>2
  <2> HIDE DEF part
  <2> QED
    BY <1>2, <2>3, SeqDef
<1>4. \A i \in 1..c : part[i].seg = n + 1 /\ part[i].page = a + i - 1
  OBVIOUS
<1>5. w \in Seq(S) /\ Len(w) \in Nat /\ DOMAIN w = 1..Len(w)
  <2>1. w \in Seq([seg : 1..n, page : Pages])
    BY DEF WalkOK
  <2> DEFINE R == [seg : 1..n, page : Pages]
  <2>2. R \subseteq S
    OBVIOUS
  <2> HIDE DEF S, R
  <2>3. w \in Seq(R)
    BY <2>1 DEF R
  <2> QED
    BY <2>2, <2>3
<1>6. \A j \in DOMAIN w : w[j].seg \in 1..n /\ w[j].page \in page_range(segs[w[j].seg])
  <2>1. w \in Seq([seg : 1..n, page : Pages])
    BY DEF WalkOK
  <2>2. \A j \in DOMAIN w : w[j] \in [seg : 1..n, page : Pages]
    BY <2>1, ElementOfSeq, <1>5
  <2>3. \A j \in DOMAIN w : w[j].seg \in 1..n
    BY <2>2
  <2> QED
    BY <2>3 DEF WalkOK
<1> HIDE DEF part, S
<1>7. /\ v \in Seq(S) /\ Len(v) = Len(w) + c
      /\ \A j \in 1..(Len(w) + c) : v[j] = IF j <= Len(w) THEN w[j] ELSE part[j - Len(w)]
  BY <1>3, <1>5, ConcatProperties
<1> HIDE DEF v
<1>8. DOMAIN v = 1..(Len(w) + c)
  BY <1>7
<1>9. ASSUME NEW j \in DOMAIN v
      PROVE  \/ j \in DOMAIN w /\ v[j] = w[j]
             \/ /\ j - Len(w) \in 1..c /\ v[j].seg = n + 1 /\ v[j].page = a + (j - Len(w)) - 1
  <2>1. CASE j <= Len(w)
    BY <1>2, <1>5, <1>7, <1>8, <2>1
  <2>2. CASE ~(j <= Len(w))
    <3>1. j - Len(w) \in 1..c /\ v[j] = part[j - Len(w)]
      BY <1>2, <1>5, <1>7, <1>8, <2>2
    <3> QED
      BY <1>4, <3>1
  <2> QED
    BY <2>1, <2>2
<1>10. \A j \in DOMAIN w : j \in DOMAIN v /\ v[j] = w[j]
  BY <1>2, <1>5, <1>7, <1>8
<1>11. ASSUME NEW i \in 1..c
       PROVE  Len(w) + i \in DOMAIN v /\ v[Len(w) + i].seg = n + 1
                /\ v[Len(w) + i].page = a + i - 1
  <2>1. Len(w) + i \in 1..(Len(w) + c) /\ ~(Len(w) + i <= Len(w)) /\ Len(w) + i - Len(w) = i
    BY <1>2, <1>5
  <2>2. v[Len(w) + i] = part[i]
    BY <1>7, <2>1
  <2> QED
    BY <1>4, <1>8, <2>1, <2>2
<1>12. \A j \in DOMAIN v : v[j].page \in page_range(segs[v[j].seg])
  <2> SUFFICES ASSUME NEW j \in DOMAIN v PROVE v[j].page \in page_range(segs[v[j].seg])
    OBVIOUS
  <2>1. CASE j \in DOMAIN w /\ v[j] = w[j]
    BY <1>6, <2>1
  <2>2. CASE /\ j - Len(w) \in 1..c /\ v[j].seg = n + 1 /\ v[j].page = a + (j - Len(w)) - 1
    BY <1>2, <2>2 DEF h
  <2> QED
    BY <1>9, <2>1, <2>2
<1>13. ASSUME NEW i \in 1..(n + 1), NEW p \in page_range(segs[i])
       PROVE  \E j \in DOMAIN v : v[j].seg = i /\ v[j].page = p
  <2>1. CASE i = n + 1
    <3>1. PICK x \in 1..c : p = a + x - 1
      BY <1>2, <2>1 DEF h
    <3> QED
      BY <1>11, <2>1, <3>1
  <2>2. CASE i # n + 1
    <3>1. i \in 1..n
      BY <1>1, <2>2
    <3>2. PICK j \in DOMAIN w : w[j].seg = i /\ w[j].page = p
      BY <3>1 DEF WalkOK
    <3> QED
      BY <1>10, <3>2
  <2> QED
    BY <2>1, <2>2
<1>14. ASSUME NEW j \in DOMAIN v, NEW l \in DOMAIN v, v[j].seg = v[l].seg, v[j].page = v[l].page
       PROVE  j = l
  <2>1. CASE j \in DOMAIN w /\ v[j] = w[j] /\ l \in DOMAIN w /\ v[l] = w[l]
    BY <1>14, <2>1 DEF WalkOK
  <2>2. \A x \in DOMAIN w : w[x].seg # n + 1
    BY <1>1, <1>6
  <2>3. CASE /\ j - Len(w) \in 1..c /\ v[j].seg = n + 1 /\ v[j].page = a + (j - Len(w)) - 1
             /\ l - Len(w) \in 1..c /\ v[l].seg = n + 1 /\ v[l].page = a + (l - Len(w)) - 1
    <3>1. j \in Int /\ l \in Int
      BY <1>8
    <3>2. a + (j - Len(w)) - 1 = a + (l - Len(w)) - 1
      BY <1>14, <2>3
    <3> QED
      BY <1>2, <1>5, <3>1, <3>2
  <2> QED
    BY <1>9, <1>14, <2>1, <2>2, <2>3
<1>15. WalkOK(v, segs, n + 1)
  BY <1>7, <1>12, <1>13, <1>14 DEF WalkOK, S
<1> QED
  BY <1>15 DEF v, part, a, c, h

\* The walk over the segments lists their pages.
LEMMA WalkFacts ==
    ASSUME NEW segs \in Seq(Loadable)
    PROVE  WalkOK(Walk(segs), segs, Len(segs))
<1> DEFINE N == Len(segs)
<1> DEFINE Part(n) == [i \in 1..Cardinality(page_range(segs[n])) |->
                         [seg |-> n, page |-> (segs[n].vaddr \div PageCells) + i - 1]]
<1> DEFINE Step(g, n) == IF n = 0 THEN <<>> ELSE g[n - 1] \o Part(n)
<1> DEFINE Good(g, m) == g = [n \in 0..m |-> Step(g, n)]
<1> DEFINE D == {m \in Nat : \E g : Good(g, m)}
<1>1. 0 \in D
  <2>1. Good([n \in 0..0 |-> <<>>], 0)
    OBVIOUS
  <2> QED
    BY <2>1
<1>2. ASSUME NEW m \in 0..(N - 1), m \in D
      PROVE  m + 1 \in D
  <2>1. PICK g : Good(g, m)
    BY <1>2
  <2> DEFINE f == [n \in 0..(m + 1) |-> Step(g, n)]
  <2>2. \A n \in 0..m : f[n] = g[n]
    <3> HIDE DEF Step
    <3>1. \A n \in 0..m : g[n] = Step(g, n)
      BY <2>1
    <3>2. \A n \in 0..m : f[n] = Step(g, n)
      OBVIOUS
    <3> QED
      BY <3>1, <3>2
  <2>3. \A n \in 0..(m + 1) : n # 0 => n - 1 \in 0..m
    OBVIOUS
  <2> HIDE DEF Part
  <2>5. \A n \in 0..(m + 1) : f[n] = Step(g, n)
    OBVIOUS
  <2>6. f = [n \in 0..(m + 1) |-> f[n]]
    OBVIOUS
  <2> HIDE DEF f
  <2>4. \A n \in 0..(m + 1) : n # 0 => f[n - 1] = g[n - 1]
    BY <2>2, <2>3
  <2>7. \A n \in 0..(m + 1) : Step(f, n) = Step(g, n)
    BY <2>4
  <2>8. Good(f, m + 1)
    BY <2>5, <2>6, <2>7
  <2> HIDE DEF Good
  <2> QED
    BY <2>8
<1>3. N \in Nat
  OBVIOUS
<1>4. \E g : Good(g, N)
  <2> HIDE DEF D
  <2>1. \A n \in 0..N : n \in D
    BY <1>1, <1>2, <1>3, SetInduction
  <2>2. N \in D
    BY <1>3, <2>1
  <2> HIDE DEF Good
  <2> QED
    BY <2>2 DEF D
<1> DEFINE F == CHOOSE g : Good(g, N)
<1>5. Good(F, N)
  BY <1>4
<1>6. Walk(segs) = F[N]
  BY DEF Walk
<1>7. \A n \in 0..N : F[n] = Step(F, n)
  BY <1>5
<1> HIDE DEF F
<1> DEFINE E == {n \in Nat : WalkOK(F[n], segs, n)}
<1>8. 0 \in E
  <2>1. F[0] = <<>>
    <3> HIDE DEF Part
    <3>1. 0 \in 0..N
      BY <1>3
    <3> QED
      BY <1>7, <3>1
  <2>2. WalkOK(<<>>, segs, 0)
    BY EmptySeq DEF WalkOK
  <2> QED
    BY <2>1, <2>2
<1>9. ASSUME NEW n \in 0..(N - 1), n \in E
      PROVE  n + 1 \in E
  <2>1. n + 1 \in 0..N /\ n + 1 # 0 /\ n + 1 - 1 = n
    OBVIOUS
  <2>2. F[n + 1] = F[n] \o Part(n + 1)
    <3> HIDE DEF Part
    <3>1. F[n + 1] = Step(F, n + 1)
      <4> HIDE DEF Step
      <4> QED
        BY <1>7, <2>1
    <3>2. F[(n + 1) - 1] = F[n]
      BY <2>1
    <3> HIDE DEF Good
    <3>3. Step(F, n + 1) = F[(n + 1) - 1] \o Part(n + 1)
      BY <2>1
    <3> QED
      BY <3>1, <3>2, <3>3
  <2>3. WalkOK(F[n], segs, n)
    BY <1>9
  <2>4. WalkOK(F[n] \o Part(n + 1), segs, n + 1)
    BY <2>3, WalkStep
  <2> HIDE DEF Part
  <2>5. WalkOK(F[n + 1], segs, n + 1)
    BY <2>2, <2>4
  <2> QED
    BY <2>5
<1> HIDE DEF E
<1>10. \A n \in 0..N : n \in E
  BY <1>3, <1>8, <1>9, SetInduction
<1> QED
  BY <1>3, <1>6, <1>10 DEF E

\* A cell of a segment lies in one of the pages of the segment.
LEMMA CellFacts ==
    ASSUME NEW h \in Loadable, NEW c \in 0..(h.memsz - 1)
    PROVE  LET p == (h.vaddr + c) \div PageCells
               o == (h.vaddr + c) % PageCells
           IN /\ p \in page_range(h) /\ p \in Nat /\ o \in Cells
              /\ h.vaddr + c = p * PageCells + o
<1> DEFINE n == h.vaddr + c
<1> DEFINE p == n \div PageCells
<1> DEFINE o == n % PageCells
<1> DEFINE x == h.vaddr + h.memsz + PageCells - 1
<1>1. PageCells \in Nat \ {0} /\ h.vaddr \in Nat /\ h.memsz \in Nat /\ c \in Nat /\ c < h.memsz
  BY KernelConstants DEF Loadable, Headers
<1>2. n \in Int /\ n >= 0 /\ x \in Int /\ h.vaddr \in Int /\ h.vaddr <= n
  BY <1>1
<1>3. p \in Int /\ p >= 0 /\ o \in 0..(PageCells - 1) /\ n = PageCells * p + o
  <2> HIDE DEF n
  <2> QED
    BY <1>1, <1>2, DivFacts
<1>4. h.vaddr \div PageCells <= p /\ h.vaddr \div PageCells \in Int
  <2> HIDE DEF n
  <2> QED
    BY <1>1, <1>2, DivFacts, DivMono
<1>5. p + 1 <= x \div PageCells /\ x \div PageCells \in Int
  <2> DEFINE y == n + PageCells
  <2>1. y \in Int /\ y <= x
    BY <1>1
  <2>2. y \div PageCells = p + 1
    <3>1. y = PageCells * p + o + PageCells
      BY <1>3
    <3> HIDE DEF p, o, y
    <3>2. p + 1 \in Int /\ PageCells * (p + 1) = PageCells * p + PageCells
      BY <1>1, <1>3
    <3>3. PageCells * (p + 1) <= y /\ y < PageCells * (p + 1) + PageCells
      BY <1>1, <1>3, <3>1, <3>2
    <3> QED
      BY <1>1, <2>1, <3>2, <3>3, DivUnique
  <2> HIDE DEF x, y
  <2>3. y \div PageCells <= x \div PageCells /\ x \div PageCells \in Int
    BY <1>1, <1>2, <2>1, DivFacts, DivMono
  <2> QED
    BY <2>2, <2>3
<1> DEFINE a == h.vaddr \div PageCells
<1> DEFINE b == x \div PageCells
<1>6. page_range(h) = a..(b - 1)
  BY DEF page_range
<1>7. a \in Int /\ b \in Int /\ a <= p /\ p + 1 <= b
  BY <1>4, <1>5
<1> HIDE DEF a, b, p, o
<1>8. p \in a..(b - 1) /\ p \in Nat /\ PageCells * p = p * PageCells
  BY <1>1, <1>3, <1>7
<1>9. o \in Cells /\ n = p * PageCells + o
  BY <1>3, <1>8 DEF Cells
<1> QED
  BY <1>6, <1>8, <1>9 DEF p, o
=============================================================================
