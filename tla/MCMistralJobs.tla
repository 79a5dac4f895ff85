--------------------------- MODULE MCMistralJobs ---------------------------
EXTENDS MistralJobs
=============================================================================
