---------------------------- MODULE AddressSpace ----------------------------
(***************************************************************************)
(* What a task sees of its memory: a flat array of cells, each absent or   *)
(* holding a value.  The space grows by cleared cells, a run of cells is   *)
(* stored in one step wherever pages begin and end, and a run is dropped.  *)
(* Nothing else ever changes: growing never clears what is there.          *)
(***************************************************************************)
EXTENDS Integers, Sequences

CONSTANTS Addrs,    \* 0..n
          Absent,   \* an integer no cell holds
          Stores    \* the runs that may be stored: [addr, data]

VARIABLE cells

Init == cells = [a \in Addrs |-> Absent]

KeepOrClear(a) == cells'[a] = cells[a] \/ (cells[a] = Absent /\ cells'[a] = 0)

Grow == \A a \in Addrs : KeepOrClear(a)

Store(s) ==
  \A a \in Addrs : IF a - s.addr + 1 \in DOMAIN s.data
                   THEN cells'[a] = s.data[a - s.addr + 1]
                   ELSE KeepOrClear(a)

\* Some cells are dropped, and between two of them every cell is absent.
Drop ==
  LET Dropped == {a \in Addrs : cells'[a] # cells[a]} IN
  /\ \A a \in Dropped : cells'[a] = Absent
  /\ \A a, b \in Dropped : \A c \in a..b : cells'[c] = Absent

Next == /\ cells' \in [Addrs -> Int]
        /\ \/ Grow
           \/ \E s \in Stores : Store(s)
           \/ Drop

Spec == Init /\ [][Next]_cells
=============================================================================
