---------------------------- MODULE MCIDAllocator ----------------------------
(* Five IDs: enough for gaps at a restart, reuse in a different order and    *)
(* exhaustion.                                                              *)
EXTENDS IDAllocator
==============================================================================
