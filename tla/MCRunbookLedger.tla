--------------------------- MODULE MCRunbookLedger ---------------------------
EXTENDS RunbookLedger

=============================================================================
