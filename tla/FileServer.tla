----------------------------- MODULE FileServer -----------------------------
(***************************************************************************)
(* The file server of programs/ext2fs/src/server.c, its clients' side in   *)
(* c4rt/interface/filesystem.h, and the C library's files on top of that   *)
(* (libc/stdio.c).  A process looks paths up on one connection, current_fs, *)
(* and opens another for the file it finds; the payload of every request   *)
(* goes through the connection's one ring, in both directions.             *)
(*                                                                         *)
(* A call on a connection is one step: the caller fills the ring, waits,   *)
(* and nobody else touches its ring or its client_state_t meanwhile, so    *)
(* only the order of the handlers matters.  The server handles one request *)
(* at a time.  Connman models how connections and calls work, RingBuffer   *)
(* how the bytes travel.                                                   *)
(***************************************************************************)
EXTENDS Ext2, SequencesExt

CONSTANTS Proc,        \* the processes
          Disk,        \* the file system's blocks at the start
          RingSize,    \* buf->size of a ring
          WordMod,     \* 2^32
          MaxName,     \* FS_MAX_NAME_LEN, in cells
          Opens,       \* bound: what a process opens and what for: <<path, use>>
          ReadSizes,   \* bound: the len of a fread
          Writes,      \* bound: the data of a fwrite
          MaxOpens,    \* bound: fopen calls of a process
          MaxReads,    \* bound: fread calls on an open file
          MaxSent,     \* bound: no fwrite on an open file once more cells were sent
          Junk         \* what is in memory behind a caller's buffer

ASSUME RingAssumption == RingSize \in Nat /\ WordMod \in Nat /\ 1 < RingSize /\ RingSize <= WordMod
ASSUME DiskAssumption == Disk \in [Blocks -> Seq(Nat)] /\ \A b \in Blocks : Len(Disk[b]) = BlockSize
ASSUME InputAssumption ==
  /\ ReadSizes \subseteq Nat /\ MaxOpens \in Nat /\ MaxReads \in Nat /\ MaxSent \in Nat
  /\ MaxName \in Nat \ {0} /\ Junk \in Nat /\ Writes \subseteq Seq(Nat)
  /\ \A p \in Proc : \A o \in Opens[p] : o[1] \in Seq(Seq(Nat)) /\ o[2] \in {"read", "write", "list"}

VARIABLES m,      \* the server: [disk, buf, fault]
          conn,   \* connection -> [r, q, cli]: its ring and its prog_data
          proc    \* process -> what it is doing

vars == <<m, conn, proc>>

Conn == {<<p, role>> : p \in Proc, role \in {"current_fs", "file"}}
Cwd(p) == <<p, "current_fs">>
File(p) == <<p, "file">>

RootInode == 2

(* prog_data before FS_MSG_SET_NODE. *)
NoState == [set |-> FALSE, inode |-> 0, index |-> 0,
            e2node |-> Zeros(InodeSize)]

Fresh == [r |-> 0, q |-> <<>>, cli |-> NoState]

(* path: what is left to look up; node: where that has got to; data, len,   *)
(* ret, n: the buffer of a fwrite and the locals of the call; index:        *)
(* conn.index of the file; put: what the first fwrite since fopen was       *)
(* given; sent, got, ents: what was sent to be written, read and listed     *)
(* since then; opens: how often fopen was called; refused: was a lookup     *)
(* refused by the validation in handle_find_name.                           *)
Closed(opens, refused) ==
  [pc |-> "idle", use |-> "none", opened |-> <<>>, path |-> <<>>, node |-> 0,
   calls |-> 0, data |-> <<>>, len |-> 0, ret |-> 0, n |-> 0, index |-> 0,
   put |-> <<>>, sent |-> <<>>, got |-> <<>>, ents |-> <<>>,
   opens |-> opens, refused |-> refused]

Init ==
  /\ m = [disk |-> Disk, buf |-> Zeros(PageSize), fault |-> FALSE]
  /\ conn = [c \in Conn |-> Fresh]
  /\ proc = [p \in Proc |-> [Closed(0, FALSE) EXCEPT !.pc = "start"]]

-----------------------------------------------------------------------------
(* The ring: its cells in order and its read index. *)

c4_ringbuf_available(k) ==
  LET w == (k.r + Len(k.q)) % RingSize
  IN  RingSize - ((IF k.r <= w THEN w - k.r ELSE w - k.r + WordMod) % RingSize)
c4_ringbuf_can_write(k, size) == size < c4_ringbuf_available(k)
c4_ringbuf_can_read(k, size)  == size <= RingSize - c4_ringbuf_available(k)

Room(k) == RingSize - 1 - Len(k.q)

(* c4_ringbuf_write moves what there is room for, c4_ringbuf_read what      *)
(* there is; Took is what a read of size returns.                           *)
c4_ringbuf_write(k, s) == [k EXCEPT !.q = @ \o SubSeq(s, 1, Least(Len(s), Room(k)))]
c4_ringbuf_read(k, size) ==
  LET n == Least(size, Len(k.q))
  IN  [k EXCEPT !.q = SubSeq(@, n + 1, Len(@)), !.r = (@ + n) % RingSize]
Took(k, size) == SubSeq(k.q, 1, Least(size, Len(k.q)))

-----------------------------------------------------------------------------
(* The server's handlers: from the server's state, the connection and the   *)
(* request to [m, k, ok, data], the answer being FS_MSG_COMPLETED with data *)
(* or FS_MSG_ERROR with an error number.                                    *)

Completed(s, k, data) == [m |-> s, k |-> k, ok |-> TRUE, data |-> data]
Error(s, k, error)    == [m |-> s, k |-> k, ok |-> FALSE, data |-> error]

NOT_DIRECTORY == 1
NOT_FOUND == 4
QUEUE_FULL == 6
BAD_REQUEST == 7

(* An inode that is not there leaves the e2node of the one before. *)
handle_set_node(s, k, inode) ==
  LET g == ext2_get_inode(s, inode)
  IN  Completed(g.m, [k EXCEPT !.cli = [set |-> TRUE, inode |-> inode, index |-> 0,
        e2node |-> IF g.found THEN g.inode ELSE @.e2node]], 0)

ext2_is_directory(e2node) == Cell(e2node, modes) = TypeDirectory

(* The entries of a directory block in the buffer: <<name, type, inode>>.   *)
(* On the disk an entry is its inode, its size, its type, the length of its *)
(* name and the name, and the next entry is size cells further on; a name   *)
(* is cut off where the page ends.                                          *)
EntryAt(buf, i) ==
  [inode |-> Cell(buf, i), size |-> Cell(buf, i + 1), type |-> Cell(buf, i + 2),
   name |-> CellsAt(buf, i + 4, Least(Cell(buf, i + 3), Len(buf) - i - 4))]
Dirents(buf) ==
  LET next[i \in Nat] == IF i >= BlockSize THEN <<>>
                         ELSE <<EntryAt(buf, i)>> \o next[i + EntryAt(buf, i).size]
  IN  next[0]

FileBlocks(inode) == {b \in 0 .. Cell(inode, lower_size) : b * BlockSize < Cell(inode, lower_size)}

(* Mutant of handle_find_name: a name that is not found is not taken from   *)
(* the ring.                                                                *)
handle_find_name_leaves(s, k, namelen) ==
  LET e2node == k.cli.e2node
      name == Took(k, namelen)
      After(b) == ext2_inode_read_block(s, e2node, b)
      hits == {b \in FileBlocks(e2node) : \E j \in 1 .. Len(Dirents(After(b).m.buf)) :
                                             Dirents(After(b).m.buf)[j].name = name}
  IN  IF ~ext2_is_directory(e2node) THEN Error(s, k, NOT_DIRECTORY)
      ELSE IF hits = {} THEN Error(s, k, NOT_FOUND)
      ELSE LET at == After(Min(hits)).m
               e == SelectSeq(Dirents(at.buf), LAMBDA d : d.name = name)[1]
           IN  Completed(at, c4_ringbuf_read(k, namelen), e.inode)

(* The lookup goes on after its first refusal and uses the client_state_t   *)
(* that is not there.  The refusals leave the name in the ring.  The search *)
(* ends at the first block with the name, or with no data at all.           *)
handle_find_name(s, k, namelen) ==
  LET e2node == k.cli.e2node
      name == Took(k, namelen)
      k1 == c4_ringbuf_read(k, namelen)
      After(b) == ext2_inode_read_block(s, e2node, b)
      Hits(b) == SelectSeq(Dirents(After(b).m.buf), LAMBDA d : d.name = name)
      ends == {b \in FileBlocks(e2node) : After(b).null \/ Hits(b) # <<>>}
  IN  IF ~k.cli.set THEN Error(Fault(s), k, BAD_REQUEST)
      ELSE IF ~ext2_is_directory(e2node) THEN Error(s, k, NOT_DIRECTORY)
      ELSE IF ~c4_ringbuf_can_read(k, namelen) \/ namelen >= MaxName
      THEN Error(s, k, BAD_REQUEST)
      ELSE IF ends = {}
      THEN Error(IF FileBlocks(e2node) = {} THEN s ELSE After(Max(FileBlocks(e2node))).m,
                 k1, NOT_FOUND)
      ELSE IF After(Min(ends)).null THEN Error(Fault(s), k1, NOT_FOUND)
      ELSE Completed(After(Min(ends)).m, k1, Hits(Min(ends))[1].inode)

handle_get_rootdir(s, k) == Completed(ext2_get_inode(s, RootInode).m, k, RootInode)

handle_get_node_info(s, k, inode) ==
  LET g == ext2_get_inode(s, inode)
  IN  IF g.found THEN Completed(g.m, k, Cell(g.inode, lower_size))
      ELSE Error(g.m, k, NOT_FOUND)

translate_type(type) == IF type \in {1, 2} THEN type ELSE IF type = 7 THEN 3 ELSE 0

(* An entry as it is sent: fs_dirent_t, of fixed size, with the name cut    *)
(* off to fit.  Nobody looks at what is behind the 0 that ends the name.    *)
DirentSize == MaxName + 3
Sent(e) ==
  LET name == SubSeq(e.name, 1, Least(Len(e.name), MaxName - 1))
  IN  name \o Zeros(MaxName - Len(name)) \o <<Len(e.name), e.inode, translate_type(e.type)>>
InodeSent(ent) == ent[MaxName + 2]

(* Mutant of handle_list_dir: the next call lists the same block. *)
handle_list_dir_again(s, k) ==
  LET e2node == k.cli.e2node
      a == ext2_inode_read_block(s, e2node, k.cli.index)
      ents == Dirents(a.m.buf)
  IN  IF k.cli.index * BlockSize >= Cell(e2node, lower_size) THEN Completed(s, k, 0)
      ELSE Completed(a.m, FoldLeft(LAMBDA q, e : c4_ringbuf_write(q, Sent(e)), k, ents),
                     Len(ents))

(* An entry that does not fit is left out, and the block is not listed      *)
(* again.                                                                   *)
handle_list_dir(s, k) ==
  LET e2node == k.cli.e2node
      a == ext2_inode_read_block(s, e2node, k.cli.index)
      put(st, e) == IF c4_ringbuf_can_write(st.k, DirentSize)
                    THEN [k |-> c4_ringbuf_write(st.k, Sent(e)), sent |-> st.sent + 1]
                    ELSE st
      done == FoldLeft(put, [k |-> k, sent |-> 0], Dirents(a.m.buf))
  IN  IF ~k.cli.set THEN Error(s, k, BAD_REQUEST)
      ELSE IF k.cli.index * BlockSize >= Cell(e2node, lower_size) THEN Completed(s, k, 0)
      ELSE IF a.null THEN Error(Fault(s), k, NOT_FOUND)
      ELSE Completed(a.m, [done.k EXCEPT !.cli.index = @ + 1], done.sent)

(* Mutant of handle_read_block: sends a whole block whatever is left. *)
handle_read_block_whole(s, k) ==
  LET a == ext2_inode_read_block(s, k.cli.e2node, k.cli.index \div BlockSize)
      offset == k.cli.index % BlockSize
      k1 == c4_ringbuf_write(k, CellsAt(a.m.buf, offset, BlockSize))
  IN  IF k.cli.index >= Cell(k.cli.e2node, lower_size) THEN Completed(s, k, 0)
      ELSE Completed(a.m, [k1 EXCEPT !.cli.index = @ + BlockSize], BlockSize)

(* Up to a block from the position on.  The offset into the block is not    *)
(* taken off writesize: from the middle of a block the copy runs on into    *)
(* the rest of the buffer.                                                  *)
handle_read_block(s, k) ==
  LET index == k.cli.index
      diff == Cell(k.cli.e2node, lower_size) - index
      writesize == Least(diff, BlockSize)
      a == ext2_inode_read_block(s, k.cli.e2node, index \div BlockSize)
      k1 == c4_ringbuf_write(k, CellsAt(a.m.buf, index % BlockSize, writesize))
      wrote == Len(k1.q) - Len(k.q)
  IN  IF ~k.cli.set THEN Error(s, k, BAD_REQUEST)
      ELSE IF diff <= 0 THEN Completed(s, k, 0)
      ELSE IF ~c4_ringbuf_can_write(k, writesize) THEN Error(s, k, QUEUE_FULL)
      ELSE IF a.null THEN Error(Fault(s), k, BAD_REQUEST)
      ELSE Completed(a.m, [k1 EXCEPT !.cli.index = @ + wrote], wrote)

(* Up to the end of a block.  That ext2_inode_alloc_block gave no block is  *)
(* not noticed: 0 is then read and written like any other.                  *)
handle_write_block(s, k) ==
  LET offset == k.cli.index % BlockSize
      a == ext2_inode_alloc_block(s, k.cli.inode, k.cli.index \div BlockSize)
      b == ext2_read_block(a.m, a.block)
      in == Took(k, BlockSize - offset)
  IN  IF ~k.cli.set THEN Error(s, k, BAD_REQUEST)
      ELSE IF k.q = <<>> THEN Completed(s, k, 0)
      ELSE Completed(ext2_write_block([b EXCEPT !.buf = Paste(@, offset, in)], a.block),
                     [c4_ringbuf_read(k, BlockSize - offset) EXCEPT !.cli.index = @ + Len(in)],
                     Len(in))

-----------------------------------------------------------------------------
(* The processes. *)

Step(p, pc) == proc[p].pc = pc /\ ~m.fault

(* The server's answer h on connection c, and what the caller is then. *)
Answered(p, c, h, then) ==
  /\ m' = h.m
  /\ conn' = [conn EXCEPT ![c] = h.k]
  /\ proc' = [proc EXCEPT ![p] = then]

(* Nothing is asked of the server. *)
Locally(p, c, k, then) ==
  /\ conn' = [conn EXCEPT ![c] = k]
  /\ proc' = [proc EXCEPT ![p] = then]
  /\ UNCHANGED m

(* getenv finds no variable, because strncmp compares one character too     *)
(* many, so it is always the fallback's name that is looked up.  There may  *)
(* be nothing under it yet: that is not tried again, and whatever the       *)
(* process opens from then on, over a connection that was never made, is    *)
(* left out.                                                                *)
init_rootfs(p) ==
  /\ Step(p, "start")
  /\ \/ Answered(p, Cwd(p), handle_get_rootdir(m, Fresh), Closed(0, FALSE))
     \/ Locally(p, Cwd(p), conn[Cwd(p)], [proc[p] EXCEPT !.pc = "unserved"])

fopen(p, path, use) ==
  /\ Step(p, "idle") /\ proc[p].opens < MaxOpens
  /\ Locally(p, Cwd(p), conn[Cwd(p)],
       [Closed(proc[p].opens + 1, proc[p].refused) EXCEPT !.pc = "set", !.use = use, !.opened = path, !.path = path,
                      !.node = RootInode])

(* The node to look in, or the node that was looked for. *)
fs_set_node(p) ==
  LET last == proc[p].path = <<>>
      c == IF last THEN File(p) ELSE Cwd(p)
  IN  /\ Step(p, "set")
      /\ Answered(p, c, handle_set_node(m, IF last THEN Fresh ELSE conn[c], proc[p].node),
                  [proc[p] EXCEPT !.pc = IF last THEN "open" ELSE "find"])

fs_find_name(p) ==
  LET name == Head(proc[p].path)
      h == handle_find_name(m, c4_ringbuf_write(conn[Cwd(p)], name), Len(name))
  IN  /\ Step(p, "find")
      /\ Answered(p, Cwd(p), h,
           IF h.ok THEN [proc[p] EXCEPT !.pc = "set", !.path = Tail(@), !.node = h.data]
           ELSE [proc[p] EXCEPT !.pc = "idle", !.node = 0,
                                !.refused = @ \/ h.data # NOT_FOUND])

fread(p, len) ==
  /\ Step(p, "open") /\ proc[p].use = "read" /\ proc[p].calls < MaxReads
  /\ Locally(p, File(p), conn[File(p)],
             [proc[p] EXCEPT !.pc = "read", !.len = len, !.calls = @ + 1])

(* A turn of fread's loop: ask the server only when the ring is empty.  The *)
(* loop ends when nothing came, or when nothing was wanted any more.        *)
fs_read_block(p) ==
  LET k == conn[File(p)]
      h == IF k.q = <<>> THEN handle_read_block(m, k) ELSE Completed(m, k, 0)
      came == IF h.ok THEN Took(h.k, proc[p].len) ELSE <<>>
  IN  /\ Step(p, "read")
      /\ Answered(p, File(p), [h EXCEPT !.k = c4_ringbuf_read(@, Len(came))],
           [proc[p] EXCEPT !.pc = IF came = <<>> THEN "open" ELSE "read",
                           !.len = @ - Len(came), !.got = @ \o came,
                           !.index = @ + Len(came)])

(* readdir: fs_list_dir's result is taken for a count even when it is an    *)
(* error number.                                                            *)
fs_next_dirent(p) ==
  LET k == conn[File(p)]
      h == IF c4_ringbuf_can_read(k, DirentSize) THEN Completed(m, k, 1)
           ELSE handle_list_dir(m, k)
      end == h.data <= 0
  IN  /\ Step(p, "open") /\ proc[p].use = "list" /\ proc[p].n >= 0
      /\ Answered(p, File(p), IF end THEN h ELSE [h EXCEPT !.k = c4_ringbuf_read(@, DirentSize)],
           IF end THEN [proc[p] EXCEPT !.n = -1]
           ELSE [proc[p] EXCEPT !.ents = Append(@, Took(h.k, DirentSize))])

(* fs_dirent_to_node, as initsys asks about each entry it lists. *)
fs_get_node_info(p) ==
  /\ Step(p, "open") /\ proc[p].use = "list" /\ proc[p].ents # <<>> /\ proc[p].n >= 0
  /\ LET h == handle_get_node_info(m, conn[File(p)], InodeSent(Last(proc[p].ents)))
     IN  Answered(p, File(p), h, [proc[p] EXCEPT !.n = h.data])

fwrite(p, data) ==
  /\ Step(p, "open") /\ proc[p].use = "write" /\ Len(proc[p].sent) <= MaxSent
  /\ Locally(p, File(p), conn[File(p)],
             [proc[p] EXCEPT !.pc = "put", !.data = data, !.len = Len(data), !.ret = 0,
                             !.n = 1, !.calls = @ + 1,
                             !.put = IF proc[p].calls = 0 THEN data ELSE @])

(* A turn of the first loop of fs_write_block.  The cells are taken at      *)
(* conn.index from the buffer it was given, which is fwrite's at ret.       *)
fs_write_block(p) ==
  LET from == proc[p].ret + proc[p].index
      src == SubSeq(proc[p].data \o [j \in 1 .. from + proc[p].len |-> Junk],
                    from + 1, from + proc[p].len)
      k == c4_ringbuf_write(conn[File(p)], src)
      n == Len(k.q) - Len(conn[File(p)].q)
      h == handle_write_block(m, k)
  IN  /\ Step(p, "put")
      /\ IF proc[p].len > 0 /\ proc[p].n > 0
         THEN Answered(p, File(p), h,
                [proc[p] EXCEPT !.pc = IF h.ok THEN "put" ELSE "open", !.n = n,
                                !.index = @ + n, !.len = @ - n,
                                !.sent = @ \o SubSeq(src, 1, n)])
         ELSE Locally(p, File(p), conn[File(p)], [proc[p] EXCEPT !.pc = "drain"])

(* Mutant of fs_write_block_rest: the second loop is not there. *)
fs_write_block_rest_once(p) ==
  /\ Step(p, "drain")
  /\ Locally(p, File(p), conn[File(p)], [proc[p] EXCEPT !.pc = "open"])

(* Mutant of fs_write_block_rest: fs_write_block does not return 0 when it  *)
(* is asked to write nothing.                                               *)
fs_write_block_rest_again(p) ==
  /\ Step(p, "drain")
  /\ IF conn[File(p)].q # <<>>
     THEN Answered(p, File(p), handle_write_block(m, conn[File(p)]), proc[p])
     ELSE Locally(p, File(p), conn[File(p)], [proc[p] EXCEPT !.pc = "put", !.n = 1])

(* A turn of its second loop, and the end of fwrite's turn when the ring is *)
(* empty: what counts as written is the result of the last turn above.      *)
fs_write_block_rest(p) ==
  LET ret == proc[p].ret + proc[p].n
  IN  /\ Step(p, "drain")
      /\ IF conn[File(p)].q # <<>>
         THEN LET h == handle_write_block(m, conn[File(p)])
              IN  Answered(p, File(p), h, [proc[p] EXCEPT !.pc = IF h.ok THEN "drain" ELSE "open"])
         ELSE Locally(p, File(p), conn[File(p)],
                IF proc[p].n > 0 /\ ret < Len(proc[p].data)
                THEN [proc[p] EXCEPT !.pc = "put", !.ret = ret, !.n = 1,
                                     !.len = Len(proc[p].data) - ret]
                ELSE [proc[p] EXCEPT !.pc = "open", !.ret = ret])

fclose(p) ==
  /\ Step(p, "open")
  /\ Locally(p, File(p), Fresh, Closed(proc[p].opens, proc[p].refused))

(* What a process does by itself once a call has begun. *)
InCall(p) == \/ init_rootfs(p) \/ fs_set_node(p) \/ fs_find_name(p) \/ fs_read_block(p)
             \/ fs_write_block(p) \/ fs_write_block_rest(p)

Next ==
  \E p \in Proc :
    \/ InCall(p)
    \/ \E o \in Opens[p] : fopen(p, o[1], o[2])
    \/ \E len \in ReadSizes : fread(p, len)
    \/ fs_next_dirent(p)
    \/ fs_get_node_info(p)
    \/ \E data \in Writes : fwrite(p, data)
    \/ fclose(p)

(* Processes and server run: the kernel schedules every ready thread.  This *)
(* is weak fairness of InCall(p), with what enables it spelled out.         *)
AtRest(p) == proc[p].pc \in {"idle", "open", "unserved"}
CanStep(p) == ~AtRest(p) /\ ~m.fault
Stepped(p) == proc'[p] # proc[p] \/ conn'[File(p)] # conn[File(p)]
Fairness(p) == []<>~CanStep(p) \/ []<><<Stepped(p)>>_vars

Spec == Init /\ [][Next]_vars /\ \A p \in Proc : Fairness(p)

-----------------------------------------------------------------------------
(* Properties. *)

Inodes == RootInode .. TotalInodes
At(d) == [disk |-> d, buf |-> Zeros(PageSize), fault |-> FALSE]
InodeOn(d, i) == ext2_get_inode(At(d), i).inode

(* The block a file's block is kept in, 0 for none. *)
BlockOf(d, i, b) ==
  LET inode == InodeOn(d, i)
      indirect == Cell(inode, single_indirect_ptr)
  IN  IF b < NDirect THEN Cell(inode, direct_ptr + b)
      ELSE IF indirect = 0 THEN 0 ELSE Cell(d[indirect], b - NDirect)

(* Cell pos of a file, counted from 0. *)
FileCell(d, i, pos) == Cell(d[BlockOf(d, i, pos \div BlockSize)], pos % BlockSize)

(* The entries of a directory, the first most of each block. *)
Entries(d, i, most) ==
  LET Of(b) == Dirents(d[BlockOf(d, i, b)])
      all[n \in Nat] == IF n * BlockSize >= Cell(InodeOn(d, i), lower_size) THEN <<>>
                        ELSE SubSeq(Of(n), 1, Least(Len(Of(n)), most)) \o all[n + 1]
  IN  all[0]

(* The inode a path leads to, 0 when it leads nowhere. *)
Lookup(i, name) ==
  LET same == IF i = 0 \/ Cell(InodeOn(Disk, i), modes) # TypeDirectory THEN <<>>
              ELSE SelectSeq(Entries(Disk, i, BlockSize), LAMBDA e : e.name = name)
  IN  IF same = <<>> THEN 0 ELSE same[1].inode
Resolve(path) == FoldLeft(Lookup, RootInode, path)

(* fopen (stdio.c, with find_name and set_node of server.c) opens the inode *)
(* its path names, and fails only for a path that names none, whatever the  *)
(* other processes do to the server's one buffer and whatever this one      *)
(* looked up before, found or not.  Only a lookup that the validation       *)
(* refused spoils the ones after it: its name is still in the ring.         *)
OpensRight ==
  \A p \in Proc : ~proc[p].refused =>
    /\ proc[p].pc = "open" => proc[p].node = Resolve(proc[p].opened)
    /\ proc[p].pc = "idle" /\ proc[p].opened # <<>> => Resolve(proc[p].opened) = 0

(* fread (stdio.c, read_block of filesystem.h and server.c) delivers the    *)
(* file's cells in order, from the first on and never past its size: each   *)
(* is the one the disk began with or one that a fwrite puts there, from the *)
(* data it was given or from behind them (WritesLand).  The server never    *)
(* uses a pointer it did not get.                                           *)
MayWrite(i) == {Junk} \cup {w[i] : w \in {w \in Writes : i <= Len(w)}}
ReadsFile ==
  /\ ~m.fault
  /\ \A p \in Proc : proc[p].use = "read" /\ proc[p].pc \in {"open", "read"} =>
    /\ Len(proc[p].got) <= Cell(InodeOn(Disk, proc[p].node), lower_size)
    /\ \A i \in 1 .. Len(proc[p].got) :
         proc[p].got[i] \in {FileCell(Disk, proc[p].node, i - 1)} \cup MayWrite(i)

(* readdir (fs_next_dirent and handle_list_dir) lists a directory's entries *)
(* in order, each once, and reports the end only after the last one, with   *)
(* requests about single entries in between: all the entries of a block     *)
(* that the ring holds, and none of those after them, which handle_list_dir *)
(* drops for good.                                                          *)
Fit == (RingSize - 1) \div DirentSize
ListsAll ==
  \A p \in Proc : proc[p].use = "list" /\ proc[p].pc = "open" =>
    LET ents == Entries(Disk, proc[p].node, Fit)
        all == [i \in 1 .. Len(ents) |-> Sent(ents[i])]
    IN  /\ IsPrefix(proc[p].ents, all)
        /\ proc[p].n < 0 => proc[p].ents = all

(* What server.c says of a write, "the client just resends write requests   *)
(* until all data is written": once fwrite has returned, every cell that it *)
(* and the fwrites before it put into the ring is in the file, each at its  *)
(* place, however they were cut at the ring's end and at the ends of blocks *)
(* (another process may write there too).  The data of the first fwrite are *)
(* the first of them.  It is not said that a later fwrite sends its data,   *)
(* or only them: fs_write_block takes them at conn->index from the caller's *)
(* buffer, and what lies there, or behind it, is what lands in the file.    *)
Writers == {p \in Proc : \E o \in Opens[p] : o[2] = "write"}
WritesLand ==
  \A p \in Proc : proc[p].use = "write" /\ proc[p].pc = "open" =>
    /\ IsPrefix(proc[p].put, proc[p].sent)
    /\ \A i \in 1 .. Len(proc[p].sent) :
         FileCell(m.disk, proc[p].node, i - 1) \in
           {proc[p].sent[i]} \cup (IF Writers = {p} THEN {} ELSE MayWrite(i))

(* A step changes the size, the type or the cells of a file only if it is a *)
(* write of a process that has that file open, and block 0 never: what      *)
(* handle_write_block finds or allocates belongs to nobody else.            *)
View(d, i) == <<Cell(InodeOn(d, i), modes), Cell(InodeOn(d, i), lower_size),
                [pos \in 0 .. Cell(InodeOn(d, i), lower_size) - 1 |-> FileCell(d, i, pos)]>>
Used == {i \in Inodes : Cell(InodeOn(Disk, i), modes) # 0}
OthersUntouched ==
  [][m'.disk # m.disk =>
       /\ m'.disk[0] = m.disk[0]
       /\ \A i \in Used : View(m'.disk, i) # View(m.disk, i) =>
            \E p \in Proc : /\ proc[p].use = "write" /\ proc[p].node = i
                              /\ conn'[File(p)] # conn[File(p)]]_vars

(* A block that a file has stays the file's ("don't allocate a block if a   *)
(* block is already present", main.c): ext2_inode_alloc_block loses no      *)
(* pointer, because what it read into block_buffer is still there when it   *)
(* is written back ("there should be no worry about accidentally            *)
(* overwriting previously retrieved data").                                 *)
BlocksStay ==
  [][m'.disk # m.disk =>
       \A i \in Used : \A b \in 0 .. NDirect + BlockSize - 1 :
         BlockOf(m.disk, i, b) # 0 => BlockOf(m'.disk, i, b) = BlockOf(m.disk, i, b)]_vars

(* fopen, fread and fwrite return: each loop of the library ends, however   *)
(* the server cuts its data into blocks.                                    *)
CallsReturn ==
  \A p \in Proc : ~AtRest(p) ~> AtRest(p)
=============================================================================
