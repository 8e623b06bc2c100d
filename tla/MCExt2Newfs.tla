------------------------------ MODULE MCExt2Newfs ------------------------------
EXTENDS Ext2Newfs

\* 1024 bytes are 8: a group of the smallest block size has 64 blocks, and a volume of up
\* to 330 sectors up to three of them.  Near 512 sectors is the first superblock of a
\* volume with blocks of twice the size.  2^32 bytes are 2048 sectors, of which the largest
\* volumes have more; the largest have more descriptors than an indirect block has pointers.
MCOptions ==
  [fssize : 15..330 \cup 511..530, bsize : {0, 8, 16}, inodesize : {1, 2}, num_inodes : {0, 48, 3000},
   density : {0}, Oflag : {0, 1}]
    \cup [fssize : 1000..1010, bsize : {0, 32}, inodesize : {1}, num_inodes : {0},
          density : {0, 16}, Oflag : {0, 1}]
    \cup [fssize : 2040..2064 \cup 2176..2190, bsize : {8, 16, 32}, inodesize : {1},
          num_inodes : {0}, density : {0}, Oflag : {0, 1}]
    \cup [fssize : {8320}, bsize : {8}, inodesize : {1}, num_inodes : {0}, density : {0}, Oflag : {1}]
=============================================================================
