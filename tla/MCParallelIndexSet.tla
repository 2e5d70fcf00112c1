------------------------- MODULE MCParallelIndexSet -------------------------
EXTENDS ParallelIndexSet
=============================================================================
