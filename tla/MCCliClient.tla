---------------------------- MODULE MCCliClient ----------------------------
EXTENDS CliClient

MCNewline == [type |-> "newline", copy |-> NoCopy]
=============================================================================
