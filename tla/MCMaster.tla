------------------------------ MODULE MCMaster ------------------------------
EXTENDS Master
=============================================================================
