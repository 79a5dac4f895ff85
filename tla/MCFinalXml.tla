------------------------------ MODULE MCFinalXml ------------------------------
EXTENDS FinalXml
=============================================================================
