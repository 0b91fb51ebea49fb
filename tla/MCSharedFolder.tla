-------------------------- MODULE MCSharedFolder --------------------------
EXTENDS SharedFolder, TLC

SameSizes == [c \in Content |-> 1]
OwnSizes == [c \in Content |-> c]
MemberSymmetry == Permutations(Member)
===========================================================================
