----------------------------- MODULE MCFsClient -----------------------------
(* Eight message registers of two bytes; the second descriptor is a device's.
   The longest payload fills every register from DATA_MR_START on. *)
EXTENDS FsClient

MCPaths    == { <<>>, <<1, 2, 3>>, <<1, 1, 1, 1, 1, 1, 1>> }
MCPayloads == { <<>>, <<1, 2, 3>>, [i \in 1..12 |-> i % 4] }
MCStat     == <<1, 2, 0, 3, 1>>
MCSeeks    == {-1}
=============================================================================
