---------------------------- MODULE MCBuildTurns ----------------------------
EXTENDS BuildTurns

CONSTANTS t1, t2, x1

==============================================================================
