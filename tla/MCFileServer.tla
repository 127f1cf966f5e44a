---------------------------- MODULE MCFileServer ----------------------------
(* A file system of seventeen fifteen-cell blocks in one group: the root     *)
(* (inode 2) with a directory d and a file f, and d (inode 3) with three     *)
(* entries in its first block, one more than the ring holds, and one in its  *)
(* second.  f (inode 5) has a block behind its indirect block; g (inode 4)   *)
(* has one direct block and room for two more.  Blocks 15 and 16 are free.   *)
EXTENDS FileServer

Put(cells) == cells \o Zeros(15 - Len(cells))
Run(first) == [c \in 1 .. 15 |-> first + c - 1]
None == <<0, 0, 0, 0, 0, 0>>

MCDisk == [b \in 0 .. 17 |->
  CASE b = 1  -> Put(<<2, 3, 2>>)
    [] b = 2  -> Put(<<2^15 - 1>>)
    [] b = 3  -> Put(None \o <<4, 15, 6, 0, 0, 0>>)
    [] b = 4  -> Put(<<4, 30, 7, 8, 0, 0>> \o <<8, 12, 9, 0, 0, 0>>)
    [] b = 5  -> Put(<<8, 48, 10, 11, 12, 13>>)
    [] b = 6  -> Put(<<3, 5, 2, 1, 1>> \o <<5, 10, 1, 1, 2>>)
    [] b = 7  -> Put(<<4, 5, 1, 1, 3>> \o <<2, 5, 2, 1, 4>> \o <<5, 5, 7, 1, 6>>)
    [] b = 8  -> Put(<<5, 15, 1, 1, 5>>)
    [] b = 9  -> Run(100)
    [] b = 10 -> Run(120)
    [] b = 11 -> Run(140)
    [] b = 12 -> Run(160)
    [] b = 13 -> Put(<<14>>)
    [] b = 14 -> Run(180)
    [] OTHER  -> Put(<<>>)]

d == <<1>>
f == <<2>>
g == <<3>>

CONSTANTS p1, p2

MCOpens == p1 :> {<< <<f>>, "read" >>, << <<d>>, "list" >>, << <<f, g>>, "read" >>}
        @@ p2 :> {<< <<d, g>>, "write" >>, << <<d, g>>, "read" >>, << <<g>>, "read" >>}
MCReadSizes == {4, 60}

(* The short one may be followed by another; the long one does not fit in    *)
(* the ring.  All they send is within the direct blocks g can get.           *)
MCWrites == {SubSeq(Run(200), 1, 9), Run(220) \o <<235>>}

(* f is written to its fifth block, the second behind the indirect block.    *)
OneOpens == p1 :> {<< <<f>>, "write" >>}
GrowWrites == {Run(200) \o Run(220) \o Run(240) \o Run(260) \o <<280>>}
=============================================================================
