---------------------------- MODULE MCGroupOutbox ----------------------------
EXTENDS GroupOutbox

MCTraces == (1..MaxEvents) \X (0..MaxCommands)
=============================================================================
