---------------------------- MODULE MCFsService ----------------------------
(***************************************************************************)
(* Instances of FsService for TLC: a root directory and one more name.      *)
(***************************************************************************)
EXTENDS FsService

MCTwoPaths == {"/", "a"}
MCOne == {1}
MCAll == AllRequests
=============================================================================
