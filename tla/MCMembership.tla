----------------------------- MODULE MCMembership -----------------------------
(***************************************************************************)
(* Instances of Membership for TLC: all requests on one worker, or each on *)
(* a worker of its own.                                                    *)
(***************************************************************************)
EXTENDS Membership, TLC

OneWorker == [q \in Requests |-> Founder]
WorkerEach == [q \in Requests |-> q]

Symmetry == Permutations(Users \ {Founder}) \cup Permutations(Requests)
================================================================================
