---------------------------- MODULE MCFramePath ----------------------------
EXTENDS FramePath

\* The third frame comes as if it were before the second.
Overlapping == <<<<20, 21>>, <<22, 23>>, <<22, 24>>>>
=============================================================================
