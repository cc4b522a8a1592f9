--------------------------- MODULE MCAuditPipeline ---------------------------
EXTENDS AuditPipeline, TLC

CONSTANTS r1, r2, r3
=============================================================================
