---------------------------- MODULE MCTaskBatch -----------------------------
\* Small instances of TaskBatch for TLC.
EXTENDS TaskBatch
=============================================================================
