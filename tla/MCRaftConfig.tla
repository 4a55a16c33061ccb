---------------------------- MODULE MCRaftConfig ----------------------------
(* An instance of RaftConfig for TLC: the ends are pairs. *)
EXTENDS RaftConfig

MCNames == 1 .. N
MCEnds == (1 .. MaxInstances) \X (1 .. N)
MCObjects == 0 .. MaxInstances
=============================================================================
