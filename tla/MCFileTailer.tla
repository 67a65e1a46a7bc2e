---------------------------- MODULE MCFileTailer ----------------------------
\* FileTailer for TLC: inode numbers are interchangeable, so that the file can begin
\* with the same one in every behaviour.
EXTENDS FileTailer, TLC

InodeSymmetry == Permutations(Inode)

FirstInode == CHOOSE i \in Inode : TRUE
MCInit == inode = FirstInode /\ Init
MCSpec == MCInit /\ [][Next]_vars /\ Fairness
=============================================================================
