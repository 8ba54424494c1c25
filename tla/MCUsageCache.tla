---------------------------- MODULE MCUsageCache ----------------------------
EXTENDS UsageCache

CONSTANTS c1, c2, t1, t2
==============================================================================
