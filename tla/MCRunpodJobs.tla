---------------------------- MODULE MCRunpodJobs ----------------------------
EXTENDS RunpodJobs, TLC

\* Rows are interchangeable: no action orders them.
RowSymmetry == Permutations(Rows)
=============================================================================
