------------------------------ MODULE MCColumnJobs ------------------------------
\* Instances of ColumnJobs for TLC.
EXTENDS ColumnJobs

CONSTANTS loud, quiet
=============================================================================
