--------------------------- MODULE MCVolumeReads ---------------------------
EXTENDS VolumeReads, TLC
=============================================================================
