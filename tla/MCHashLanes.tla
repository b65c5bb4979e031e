------------------------------- MODULE MCHashLanes -----------------------------
(* Lists of up to five messages, empty, within a block, just a block and     *)
(* more.                                                                     *)
EXTENDS HashLanes

MCMessageLists == UNION {[1 .. k -> {0, 1, 4, 5, 8, 9}] : k \in 0 .. 5}
================================================================================
