----------------------------- MODULE MCSendNonce -----------------------------
EXTENDS SendNonce
MCOldMarks == {2, 4}
=============================================================================
