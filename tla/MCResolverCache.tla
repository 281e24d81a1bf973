---------------------------- MODULE MCResolverCache ----------------------------
EXTENDS ResolverCache, TLC

CONSTANTS npm, pypi, remoteNpm

OneAdapter == <<npm>>
TwoAdapters == <<npm, pypi>>

ReaderSymmetry == Permutations(Readers) \union Permutations(Admins)
================================================================================
