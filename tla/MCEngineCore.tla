---------------------------- MODULE MCEngineCore ----------------------------
EXTENDS EngineCore
CONSTANTS r1, r2
=============================================================================
