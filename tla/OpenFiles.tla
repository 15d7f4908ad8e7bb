----------------------------- MODULE OpenFiles -----------------------------
(***************************************************************************)
(* What a table of open files promises: a descriptor handed out by open    *)
(* designates the file it was opened on until it is closed, and is never   *)
(* handed out again.  ext4-srv's FsService implements it (see FsService).  *)
(***************************************************************************)
CONSTANTS Fds, Paths, Closed

VARIABLES file,   \* the file each descriptor designates, or Closed
          used    \* descriptors handed out so far

Init == file = [fd \in Fds |-> Closed] /\ used = {}

Open(fd, p) ==
    /\ fd \notin used
    /\ used' = used \cup {fd}
    /\ file' = [file EXCEPT ![fd] = p]

Close(fd) ==
    /\ file[fd] # Closed
    /\ file' = [file EXCEPT ![fd] = Closed]
    /\ UNCHANGED used

Next == \E fd \in Fds : Close(fd) \/ \E p \in Paths : Open(fd, p)

Spec == Init /\ [][Next]_<<file, used>>
=============================================================================
