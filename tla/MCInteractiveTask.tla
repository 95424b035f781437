------------------------- MODULE MCInteractiveTask -------------------------
\* Constants of the run of InteractiveTask.
EXTENDS InteractiveTask

CONSTANTS feed, final

MCChain == {feed, final}
=============================================================================
