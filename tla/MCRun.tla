-------------------------------- MODULE MCRun --------------------------------
EXTENDS RunPage
=============================================================================
