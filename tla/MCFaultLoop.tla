---------------------------- MODULE MCFaultLoop ----------------------------
(***************************************************************************)
(* Instances of FaultLoop for TLC.  Page 0 is NULL, page 1 the image and    *)
(* stack, pages 2.. heap and mmap area.                                     *)
(***************************************************************************)
EXTENDS FaultLoop

MCLoaded == {1}
MCBad == {p \in Pages : PtOf(p) = PtOf(MaxPage)}
MCAllKinds == Kinds
MCNoCap == Kinds \ {"cap"}
MCSyscallOnly == {"syscall"}
MCSyscallVm == {"syscall", "vm"}
MCSyscallCap == {"syscall", "cap"}
MCMemCalls == {"mmap", "fork", "brk"}
MCLiveCalls == {"mmap", "fork", "exit"}
MCForkCalls == {"fork", "exit", "execve", "mmap", "brk", "arch_prctl", "wait4"}
=============================================================================
