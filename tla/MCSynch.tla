------------------------------- MODULE MCSynch -------------------------------
\* Synch with main and two forked threads, and one lock, two conditions and one
\* semaphore: the constants are in the .cfg files.
EXTENDS Synch, TLC
=============================================================================
