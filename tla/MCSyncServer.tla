--------------------------- MODULE MCSyncServer ---------------------------
EXTENDS SyncServerInv, TLC

Program == <<1, 3>>
Perms == Permutations(Worker)
=============================================================================
