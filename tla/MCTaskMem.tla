----------------------------- MODULE MCTaskMem -----------------------------
(* Small programs, buffers and arguments for TaskMem. *)
EXTENDS TaskMem

S(vaddr, data, memsz) == [vaddr |-> vaddr, data |-> data, memsz |-> memsz]
MCPrograms ==
  { <<S(4, <<1, 1, 15, 5, 15, 5>>, 7)>>,                   \* two calls, two bytes apart, then bss
    <<S(5, <<1, 15, 5>>, 3), S(12, <<15, 5>>, 3)>> }       \* a call at the end of a page
MCBuffers == { [addr |-> 14, data |-> <<1, 1, 1>>], [addr |-> 24, data |-> <<2>>] }
=============================================================================
