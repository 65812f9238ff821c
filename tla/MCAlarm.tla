------------------------------ MODULE MCAlarm ------------------------------
\* Test 3 with main, ProhibitExit and two more AlarmThreads: see the .cfg files.
EXTENDS Alarm, TLC
=============================================================================
