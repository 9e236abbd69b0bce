---------------------------- MODULE MCOrderWorker ----------------------------
(* Instances of OrderWorker for TLC.                                        *)
EXTENDS OrderWorker, TLC

\* Workers are interchangeable in every safety property, and so are schedulers.
Symmetry == Permutations(Workers) \cup Permutations(Schedulers)
=============================================================================
