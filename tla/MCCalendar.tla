------------------------------ MODULE MCCalendar ------------------------------
EXTENDS BookingsCalendar
=============================================================================
