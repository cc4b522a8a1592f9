--------------------------- MODULE MCAuditJournal ---------------------------
EXTENDS AuditJournal, TLC

CONSTANTS e1, e2, c1, c2

=============================================================================
