---------------------------- MODULE AdmissionMC ----------------------------
(***************************************************************************)
(* A small instance of Admission: more tasks and sockets than sessions, so *)
(* that ended sessions overlap with new ones and descriptors are reused.   *)
(***************************************************************************)
EXTENDS Admission, TLC

PoolSymmetry == Permutations(Fds) \cup Permutations(Tasks)
=============================================================================
