------------------------------ MODULE MC_Jobs ------------------------------
EXTENDS Jobs
=============================================================================
