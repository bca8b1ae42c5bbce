-------------------------- MODULE MCStorageManager --------------------------
(***************************************************************************)
(* Two clients and two cells.  A write of one cell that deletes the other  *)
(* is what process_output and rollback_block do in several calls; here it  *)
(* makes a lost or repeated write visible in a single cell.                *)
(***************************************************************************)
EXTENDS StorageManager

CONSTANTS c1, c2, x, y

MCRequests ==
    {[op |-> "read", cells |-> {x, y}],
     [op |-> "write", put |-> [z \in {x} |-> 1], del |-> {y}],
     [op |-> "write", put |-> [z \in {y} |-> 1], del |-> {y}],
     [op |-> "save"], [op |-> "take"], [op |-> "shutdown"]}

=============================================================================
