------------------------------ MODULE MCControl ------------------------------
EXTENDS ControlPanel
=============================================================================
