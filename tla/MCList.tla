------------------------------- MODULE MCList -------------------------------
EXTENDS ListPage
=============================================================================
