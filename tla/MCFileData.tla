----------------------------- MODULE MCFileData -----------------------------
EXTENDS FileData, TLC

\* Processes are interchangeable, and so are inodes.
Symmetry == Permutations(Procs) \cup Permutations(Inodes)

\* balloc() zeroes a block, so what a free block holds makes no difference.
View == <<bitmap, [b \in Blocks |-> IF bitmap[b] = 1 THEN data[b] ELSE Zeroed],
          daddrs, dsize, addrs, size, ilk, off, pc, call, wrote>>
=============================================================================
