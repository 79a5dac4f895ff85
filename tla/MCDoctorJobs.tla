---------------------------- MODULE MCDoctorJobs ----------------------------
EXTENDS DoctorJobs, TLC

\* Rows are interchangeable: no action orders them.
RowSymmetry == Permutations(Rows)
=============================================================================
