-------------------------- MODULE MCTrancheHandoff --------------------------
EXTENDS TrancheHandoff

=============================================================================
