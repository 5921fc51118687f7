-------------------------- MODULE MCTicketPipeline --------------------------
EXTENDS TicketPipeline

MCAttempts == 1..3

=============================================================================
