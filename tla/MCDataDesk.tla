------------------------------ MODULE MCDataDesk ------------------------------
\* One dataset at the start, one source whose table was or was not discovered.
EXTENDS DataDesk
=============================================================================
