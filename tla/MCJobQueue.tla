----------------------------- MODULE MCJobQueue -----------------------------
(* Instances of JobQueue; threads and Compressors are interchangeable.     *)
EXTENDS JobQueue, TLC

SymmetricThreads == Permutations(Threads)

=============================================================================
