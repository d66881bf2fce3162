--------------------------- MODULE MCHistoryRing ---------------------------
EXTENDS HistoryRing
=============================================================================
