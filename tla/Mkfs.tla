-------------------------------- MODULE Mkfs --------------------------------
(***************************************************************************)
(* The layout of the file system on disk (kernel/fs.h) and the image that  *)
(* mkfs/mkfs.c makes: a root directory and some files.  An image is a      *)
(* bitmap, inodes and blocks.  A block holds BSIZE bytes or NINDIRECT      *)
(* addresses; block 0 stands for the boot block, the super block and the   *)
(* log, which no inode ever refers to.                                     *)
(***************************************************************************)
EXTENDS Naturals, Sequences, FiniteSets, FiniteSetsExt, SequencesExt

CONSTANTS
    BSIZE,              \* bytes of a block
    NDIRECT, NINDIRECT, \* addresses in an inode, and in an indirect block
    FSSIZE,             \* blocks of the disk
    NINODES,            \* inode numbers are 1 .. NINODES
    DirentSize          \* bytes of a directory entry

ASSUME LayoutAssumption ==
    /\ {BSIZE, NDIRECT, NINDIRECT, NINODES, DirentSize} \subseteq Nat \ {0}
    /\ FSSIZE \in Nat /\ FSSIZE > 3

MAXFILE == NDIRECT + NINDIRECT
InodeBlock == 1
BitmapBlock == 2
NMETA == 3
Blk == 0 .. FSSIZE - 1
Inum == 1 .. NINODES
ROOTINO == 1

Zeroes == [k \in 0 .. Max({BSIZE, NINDIRECT}) - 1 |-> 0]
NoAddrs == [k \in 0 .. NDIRECT |-> 0]
FreeInode == [type |-> "free", nlink |-> 0, size |-> 0, addrs |-> NoAddrs]

(* The address of block bn of a file; 0 when there is none.                *)
Addr(img, addrs, bn) ==
    IF bn < NDIRECT THEN addrs[bn]
    ELSE IF addrs[NDIRECT] = 0 THEN 0
    ELSE img.data[addrs[NDIRECT]][bn - NDIRECT]

(* Link block b in as block bn, or as the indirect block it needs first.   *)
Attach(img, addrs, bn, b) ==
    IF bn < NDIRECT THEN <<img, [addrs EXCEPT ![bn] = b]>>
    ELSE IF addrs[NDIRECT] = 0 THEN <<img, [addrs EXCEPT ![NDIRECT] = b]>>
    ELSE <<[img EXCEPT !.data[addrs[NDIRECT]][bn - NDIRECT] = b], addrs>>

Byte(img, addrs, k) == img.data[Addr(img, addrs, k \div BSIZE)][k % BSIZE]
Content(img, d) == [k \in 1 .. d.size |-> Byte(img, d.addrs, k - 1)]

(* The image with the bytes s of a file at offset off.                     *)
PutBytes(img, addrs, off, s) ==
    LET At(b) == {k \in 1 .. Len(s) : Addr(img, addrs, (off + k - 1) \div BSIZE) = b}
        Put(b) == [x \in DOMAIN Zeroes |->
                     LET K == {k \in At(b) : (off + k - 1) % BSIZE = x}
                     IN  IF K = {} THEN img.data[b][x] ELSE s[Max(K)]]
    IN  [img EXCEPT !.data = [b \in Blk |-> IF At(b) = {} THEN @[b] ELSE Put(b)]]

----------------------------------------------------------------------------
(* mkfs.  A disk under construction is an image and the counter freeblock. *)
(* Its files are no longer than MAXFILE blocks, and all fit on the disk,   *)
(* as the assertions of iappend and balloc demand.                         *)

(* One round of iappend: the block at the end of the file, made if need be *)
AppendMap(fs, inum, bn) ==
    LET a == fs.img.ino[inum].addrs
        r == Attach(fs.img, a, bn, fs.freeblock)
    IN  IF Addr(fs.img, a, bn) # 0 THEN fs
        ELSE [img |-> [r[1] EXCEPT !.ino[inum].addrs = r[2]], freeblock |-> fs.freeblock + 1]

AppendByte(fs, inum, x) ==
    LET off == fs.img.ino[inum].size
        bn == off \div BSIZE
        g == AppendMap(AppendMap(fs, inum, bn), inum, bn)
    IN  [g EXCEPT !.img = PutBytes([g.img EXCEPT !.ino[inum].size = off + 1],
                                   g.img.ino[inum].addrs, off, <<x>>)]

Iappend(fs, inum, s) == FoldLeft(LAMBDA f, x : AppendByte(f, inum, x), fs, s)

MkInode(fs, inum, type) ==
    [fs EXCEPT !.img.ino[inum] = [FreeInode EXCEPT !.type = type, !.nlink = 1]]

Dirent(inum) == [k \in 1 .. DirentSize |-> inum]

AddFile(fs, s) ==
    LET inum == Min({i \in Inum : fs.img.ino[i].type = "free"})
    IN  Iappend(Iappend(MkInode(fs, inum, "file"), ROOTINO, Dirent(inum)), inum, s)

EmptyDisk ==
    [img |-> [bit |-> [b \in Blk |-> FALSE], data |-> [b \in Blk |-> Zeroes],
              ino |-> [i \in Inum |-> FreeInode]],
     freeblock |-> NMETA]
RootOnly ==
    Iappend(MkInode(EmptyDisk, ROOTINO, "dir"), ROOTINO, Dirent(ROOTINO) \o Dirent(ROOTINO))

(* At last the size of the root directory is set to a number of blocks,    *)
(* and the bitmap is written.                                              *)
RoundUp(size) == ((size \div BSIZE) + 1) * BSIZE
MkBallocFewer(fs) == [b \in Blk |-> b < fs.freeblock - 1]
MkBalloc(fs) == [b \in Blk |-> b < fs.freeblock]
Finished(fs) == [fs.img EXCEPT !.bit = MkBalloc(fs), !.ino[ROOTINO].size = RoundUp(@)]

Mkfs(files) == Finished(FoldLeft(AddFile, RootOnly, files))

----------------------------------------------------------------------------
(* What a sound image is.                                                  *)

(* The addresses in use of an inode, with the place of each.               *)
Places(img, d) ==
    [k \in 0 .. MAXFILE |-> IF k = MAXFILE THEN d.addrs[NDIRECT] ELSE Addr(img, d.addrs, k)]
Used(img, i) == IF img.ino[i].type = "free" THEN {}
                ELSE LET a == Places(img, img.ino[i])
                     IN  {<<i, k>> : k \in {k \in DOMAIN a : a[k] # 0}}
UsedBlocks(img, i) == IF img.ino[i].type = "free" THEN {}
                      ELSE LET a == Places(img, img.ino[i]) IN {a[k] : k \in DOMAIN a} \ {0}

(* The bitmap marks the blocks in use, each of which belongs to one file,  *)
(* in one place.                                                           *)
BlocksAccounted(img) ==
    LET used == UNION {UsedBlocks(img, i) : i \in Inum}
    IN  /\ {b \in Blk : img.bit[b]} = used \cup (0 .. NMETA - 1)
        /\ Cardinality(used) = Cardinality(UNION {Used(img, i) : i \in Inum})

NoHole(img, i) ==
    LET d == img.ino[i]
    IN  \A bn \in 0 .. MAXFILE - 1 : bn * BSIZE < d.size => Addr(img, d.addrs, bn) # 0
=============================================================================
