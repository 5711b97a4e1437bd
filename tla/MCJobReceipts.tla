--------------------------- MODULE MCJobReceipts ----------------------------
EXTENDS JobReceipts, TLC

CONSTANTS daemon, cli, poll, status

\* One reader is served by each process.
MCHome == [r \in Readers |-> IF r = poll THEN daemon ELSE cli]

MCSymmetry == Permutations(Ids)
=============================================================================
