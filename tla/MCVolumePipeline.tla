-------------------------- MODULE MCVolumePipeline --------------------------
EXTENDS VolumePipeline, TLC

\* Workers are interchangeable, and so are shards: no action orders them.
WorkerSymmetry == Permutations(Workers) \cup Permutations(Shards)
=============================================================================
