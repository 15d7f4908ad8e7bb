------------------------------ MODULE MCRunner ------------------------------
(* Small programs, memories and argument lists for Runner. *)
EXTENDS Runner

H(vaddr, off, filesz, memsz) ==
  [load |-> TRUE, vaddr |-> vaddr, off |-> off, filesz |-> filesz, memsz |-> memsz]
Note == [load |-> FALSE, vaddr |-> 0, off |-> 0, filesz |-> 1, memsz |-> 1]
E(at, entry, len, phdrs) ==
  [magic |-> TRUE, entry |-> entry, len |-> len, at |-> at, phdrs |-> phdrs, readable |-> Len(phdrs)]

Far == 200     \* in pages of the image that the model leaves out

MCElves ==
  { E(Far, 20, 12, <<H(16, 0, 6, 6)>>),                      \* the binary that is patched
    E(18, 20, 12, <<H(16, 0, 6, 6)>>),                       \* ... taken away while it is copied
    E(26, 9, 8, <<H(0, 0, 4, 4), H(9, 4, 4, 7)>>),           \* copied over its own later bytes
    E(0, 21, 12, <<Note, H(0, 2, 4, 4), H(9, 6, 3, 7)>>),    \* data starts mid-page, then bss
    E(36, 8, 12, <<H(8, 0, 3, 3), H(11, 4, 3, 3)>>),         \* two segments share a page
    E(0, 0, 4, <<H(0, 0, 6, 6)>>),                           \* truncated file
    E(Far, 3, 9, <<H(3, 1, 8, 24)>>),                        \* crosses into a second table
    E(Far, 0, 30, <<H(0, 0, 20, 30)>>),                      \* runs into the TLS page
    E(Far, 0, 30, <<H(0, 0, 4, 62)>>),                       \* runs into the stack
    E(Far, 20, 30, <<H(0, 0, 4, 4)>>),                       \* patched entry outside the segments
    E(Far, 0, 8, <<H(4, 0, 0, 0)>>),                         \* nothing to map
    E(0, 0, 8, <<Note>>),
    [E(0, 0, 8, <<H(0, 0, 4, 4), H(8, 4, 4, 4)>>) EXCEPT !.readable = 1],
    [E(0, 0, 8, <<H(0, 0, 4, 4)>>) EXCEPT !.magic = FALSE] }

MCArgLists == {<<>>, <<7, 2>>, <<4000, 90>>, <<9000>>, <<14000>>}

U(units) == [units |-> units, used |-> 0, device |-> FALSE]
Dev(units) == [units |-> units, used |-> 0, device |-> TRUE]
MCMemories == { <<U(64)>>, <<Dev(64), U(2), U(64)>>, <<U(8), U(32)>>, <<U(20), U(18)>>,
                <<U(22), U(40)>>, <<U(26)>>, <<U(12)>> }
\* No page of it modelled, below LOAD_BASE only, and across the pages loaded.
MCRootImages == {{}, 0..4, 0..11}
MCRootTables == {{0}, {0, 2}, {0, 1, 2}, {0, 4}}
=============================================================================
