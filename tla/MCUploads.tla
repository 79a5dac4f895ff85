------------------------------ MODULE MCUploads ------------------------------
EXTENDS Uploads
=============================================================================
