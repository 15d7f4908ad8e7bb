------------------------------ MODULE MCLoader ------------------------------
(* Small programs and memories for Loader. *)
EXTENDS Loader

H(vaddr, off, filesz, memsz) ==
  [load |-> TRUE, vaddr |-> vaddr, off |-> off, filesz |-> filesz, memsz |-> memsz]
Note == [load |-> FALSE, vaddr |-> 0, off |-> 0, filesz |-> 1, memsz |-> 1]
E(at, len, phdrs) ==
  [magic |-> TRUE, len |-> len, at |-> at, phdrs |-> phdrs, readable |-> Len(phdrs)]

Far == 200     \* in pages of the image that the model leaves out

MCElves ==
  { E(0, 12, <<Note, H(16, 1, 5, 10)>>),             \* two file pages, then bss
    E(18, 12, <<H(16, 0, 12, 14)>>),                 \* ... that take the file away
    E(Far, 12, <<H(16, 0, 4, 4), H(22, 4, 6, 9)>>),  \* the second begins mid-page
    E(0, 12, <<H(16, 0, 6, 6), H(22, 6, 2, 2)>>),    \* two segments share a page
    E(0, 4, <<H(16, 0, 6, 6)>>),                     \* truncated file
    E(20, 20, <<H(40, 0, 4, 4), H(72, 4, 4, 8)>>),   \* covers the TLS and stack pages
    E(Far, 20, <<H(40, 0, 4, 4), H(64, 4, 4, 4)>>),  \* in the stack's region, below it
    E(0, 8, <<Note>>),
    [E(0, 8, <<H(16, 0, 4, 4)>>) EXCEPT !.magic = FALSE] }

U(units) == [units |-> units, used |-> 0, device |-> FALSE]
Dev(units) == [units |-> units, used |-> 0, device |-> TRUE]
MCMemories == { <<U(72)>>, <<Dev(64), U(2), U(64)>>, <<U(4), U(6)>>, <<U(24), U(20)>>, <<U(44), U(6)>> }
\* No page of it modelled, and from page 0 across the first pages loaded.
MCRootImages == {{}, 0..9}
MCRootTables == {{0}, {0, 1, 2}, {0, 1, 2, 4}}
=============================================================================
