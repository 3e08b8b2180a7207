------------------------------- MODULE MCFrame -------------------------------
EXTENDS Frame
=============================================================================
