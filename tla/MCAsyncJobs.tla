---------------------------- MODULE MCAsyncJobs -----------------------------
\* Small instances of AsyncJobs for TLC.
EXTENDS AsyncJobs
=============================================================================
