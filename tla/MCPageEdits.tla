---------------------------- MODULE MCPageEdits -----------------------------
EXTENDS PageEdits
=============================================================================
