----------------------------- MODULE MCFileSystem -----------------------------
EXTENDS FileSystem, TLC

\* Names are only compared.
Symmetric == Permutations(Name)
=============================================================================
