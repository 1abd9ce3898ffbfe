---------------------------- MODULE MCTransfer ----------------------------
EXTENDS Transfer, TLC

ChunkSymmetry == Permutations(Chunks)
=============================================================================
