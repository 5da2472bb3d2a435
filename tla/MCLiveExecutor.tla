--------------------------- MODULE MCLiveExecutor ---------------------------
(* Instances of LiveExecutor for TLC. *)
EXTENDS LiveExecutor

MCPairOf == [o \in Orders |-> CHOOSE p \in Pairs : TRUE]
MCQty == [o \in Orders |-> 2 * Step]
=============================================================================
