---------------------------- MODULE MCLiveQuotes ----------------------------
EXTENDS LiveQuotes
\* With one place, either code may be the best a scan finds.
Both == {{2}, {1, 2}}
=============================================================================
