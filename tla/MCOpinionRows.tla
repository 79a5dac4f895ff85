--------------------------- MODULE MCOpinionRows ----------------------------
EXTENDS OpinionRows
=============================================================================
