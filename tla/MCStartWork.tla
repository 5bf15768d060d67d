---------------------------- MODULE MCStartWork ----------------------------
\* Model-checking instances of the pacing task, its work lane and its stop.
EXTENDS StartWork
============================================================================
