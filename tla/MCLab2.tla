------------------------------- MODULE MCLab2 -------------------------------
\* Three threads, a buffer of two bytes, a table of four entries and a list of
\* at most six elements: the constants are in the .cfg files.
EXTENDS Lab2Test, TLC
=============================================================================
