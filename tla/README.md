# C4-OS: models, checks and proofs

C4-OS is a small operating system on an L4-like microkernel. The repository holds
its user land: a runtime library (`libraries/c4rt`), device drivers, a file server,
a name server, a window manager and a forth. The kernel, the root pager (sigma0) and
the forth interpreter are submodules without content here. They appear in the models
only as what the code in the repository makes of them.

The modules are written from the source. A definition keeps the name of the function
it translates where it can; `PROJECT.json` maps every one to its lines.

## The system's parts

| part | state | operations | what makes it correct |
|---|---|---|---|
| ring buffer (`c4rt/src/ringbuffer.c`) | two indices and the cells of a shared page | read and write a run of bytes, ask for room | a FIFO under every interleaving of the two sides |
| address allocator (`addrman.c`) | vnodes in two trees | allocate, free and merge | ranges given out are disjoint; freed neighbours become one |
| heap (`alloc.c`) | block headers, bucket lists, physical chain | malloc, free | blocks are disjoint and large enough; chain and lists stay intact |
| balanced tree (`andtree.c`) | linked nodes with levels | insert, remove, find, next, previous | balanced, ordered, both directions of every link, lookups right |
| connection manager (`connman.c`) | client structs in a tree, two queues and a page per connection | connect, call, listen, respond, disconnect | each call gets its own answer, once; connects and calls end |
| name server (`programs/nameserver`) | a table of hashed names | bind, lookup, forward | nearest binding found; bound names stay bound; requests are answered |
| memory objects (`mem.c`) | a frame, its range and whether it is mapped | allocate, map into the region, free | each object has its own pages; the allocator is used as it expects |
| file protocol (`filesystem.h`, `ext2fs/src/server.c`) | position and node of a connection, its ring | find, read, write, list | answers and ring bytes stay in step |
| ext2 (`ext2fs/src/main.c`) | bitmaps, inodes, one block buffer | allocate blocks and inodes, read and write blocks | a file keeps its blocks and no other file's change |
| ATA driver (`programs/ata`) | drive registers | read and write sectors by polling | the sectors asked for are moved, and no other; requests end |
| window manager (`programs/stubbywm`) | window list, update regions | two threads: events and requests | no window is lost; every change is drawn |
| keyboard, mouse (`initprogs`) | client tables, decoder state, the controller they share | register, decode, dispatch | every client gets every event, as the device sent it |
| console in a window (`programs/stubby-console`) | its names, its keyboard client | start name server, display and forth; pass keys on | the programs behind it use its devices, and get its keys once |
| display (`programs/display`) | cursor, picture | put a character, set the cursor, clear | the picture shows what was printed |
| forth front end (`programs/forth`) | a line buffer | read a line and echo it | a line is what was typed |
| loader (`elf.c`, `libc/stdlib.c`, `crt0.c`) | a static file buffer, address spaces, stacks | spawn, start | a program finds its segments, arguments and name server |
| C library (`libc`) | streams | fopen, fread, fwrite, readdir | a file's own bytes, in order |

They interact by messages. A program finds a server's endpoint through a name server,
grants the server a temporary endpoint and talks on it, synchronously: sender and
receiver meet. Connections add two asynchronous queues and a shared page with a ring
buffer in it. Within a program, `malloc` is the heap, and pages are mapped where the
address allocator says; the allocator and the connection manager keep their structures
in balanced trees. There are no locks: a program with two threads shares its data
between them as it is.

What is hard here: two sides of a shared page without a lock; single-threaded servers
that block on one client while the others wait; objects told apart only by the order
they arrive in; pointer surgery whose results nobody checks, because the asserts are
commented out or only log; programs that start in any order and look for each other.
The "hazards" of `PROJECT.json` list the lines.

## Modules

**RingBuffer** models `c4_ringbuf_write` in one process and `c4_ringbuf_read` in
another. A side's steps are the loads and stores the other side can tell apart: the
test, the access to the cell, the index. The build does not optimise
(`buildconf.mk`: `-Wall -g`) and the machine is an x86, so a side's accesses take effect
in program order. `c4_ringbuf_available` keeps its unsigned arithmetic: `WordMod` is
2^32, and because that is no multiple of the number of cells the count is wrong while
the write index is behind the read index. A call is *vetted* when it follows a
`can_write` or `can_read` that said yes on unwrapped indices.
**BoundedFifo** is what it implements: a queue with a capacity.

**AddrMan** models a region of `addrman.c`. A vnode is named by its offset. The two
trees are sets that can be asked for their members in key order; where several free
vnodes have the best size, any may be found. An allocation is one step; `free_vnode`
takes one step per turn of its merging loop, so that the invariants say what holds
between turns. Callers ask for at least a byte and free each range once, as the code
takes on trust. **RegionAlloc** is what it implements, and what the heap does too:
runs of units are held by callers and never overlap.

**Memory** extends AddrMan with the memory objects of `mem.c` and the address spaces they
are mapped into. `obj` holds the fields of each `c4_mem_object_t`, `aspace` what the kernel
has at each page. The kernel may refuse to map a frame that already has a range, and the
region may have no room. `c4_memobj_free` goes through AddrMan's merging loop, so that the
program does nothing else until it has ended. The kernel's two calls are external: a map
replaces what was at the pages, and an unmap removes the frame found at one.

**Loader** extends Memory: the same thread calls `spawn`, which reads a file over what the
last one left in its static buffer, and `elf_load`, which makes a process one system call
after the other. Frames have cells, and both sides reach them through their address spaces:
`Store` through the spawner's window, `Load` through the new program's mappings. So the
stack's pointers, computed for one space and written through the other, mean something only
if the two agree. `_start` runs in the new process, at any time after its thread was
continued, beside the spawner's next calls. `elf_load` tests no answer of the pager or the
kernel: when a frame is refused it goes on, and the spawner faults where it first writes into
its window (`stopped`; `CopyFaults` for a segment). Permissions of pages are left out.
Segments are assumed to fit in the pages the code counts for them (`FilesAssumption`), and the
arguments in the page of the stack (`CallsAssumption`).

**C4Alloc** models `alloc.c` down to the six fields of a block header. `heap` holds the
bucket heads and the headers; list surgery is written as functions from heap to heap.
Splitting down and merging up take one step per turn. Sizes are in units and a header
takes `Header` of them; growth of the heap always succeeds (the pager is external). `asked`
records the size each caller asked for, so that `BlockFits` can compare the block it holds
with the request: large enough behind the header, and less than twice as large as needed.

**AndTree** models `andtree.c`: rotations, skew, split, insertion, removal with its
repair loop, and every lookup. A node is named by its data, so where a removal copies
data from one node to another, the node changes its name (`SetData`). Recursive
operators follow the code's recursion and loops; the module is for model checking only.

**Connman** models both sides of `connman.c`. Synchronous messages are joint steps of
client and server, the asynchronous queues are sequences. A client's program counter
goes through `c4rt_connman_connect`, `send`, `recv` and `disconnect`; the server's
through `server_listen` and `handle_connect`. A *stray* has the port but not the
protocol: it may send something else in the middle of a handshake (`error_out`,
`error_preconn`) and may announce requests nobody made. The service behind the server
answers each request once. A new client id is drawn among those not in use; the code
leaves that to chance. Ids are random words that the tree compares by the sign of an int
difference, which is an order only for ids that lie within half of the word of each other
(`andtree_compare`). Once ids were in the tree that are not (`jumbled`), a search may miss an
id that is there: the announcement of a request is then dropped (`missed`), and a handshake
that breaks off may leave its freed struct in the tree, where the model stops the server
(`stale`). A page that cannot be allocated or mapped is left out; the assertions there only
print.

**NameServer** models any number of name servers that forward to each other and the
programs that bind and look up. A server that forwards is a requester itself and serves
nobody meanwhile; chains may have any length. The table is the code's: entries up to the
first with hash 0. It is assumed to have room for every name (`RoomAssumption`). `known`
records, for each requester, where its name was bound when it last asked.

**Ext2** gives the file system's functions as operators from a state (disk, block buffer,
fault) to the next, one for each C function that touches the buffer: reading and writing
blocks, inodes through the descriptor table, the bitmap search of `ext2_alloc_block`,
direct and indirect pointers, directory entries. The one static `block_buffer` is part of
the state, so a function that holds on to a pointer into it sees what a later call put there.
A cell of the disk is a number; entries and inodes are runs of cells.

**FileServer** composes Ext2 with the file protocol of `filesystem.h`, the handlers of
`server.c` and the libc functions on top (`fopen`, `fread`, `fwrite`, `fclose`, `readdir`).
Processes interleave between protocol calls. A call on a connection is one step, because
the server handles one request at a time and the client waits; its ring is filled and
emptied within it, with the capacity and the count of RingBuffer. `init_rootfs` may find
nothing under the file server's name; it is not tried again, and the process is left out from
then on (`unserved`). `sent` records the cells a stream's `fwrite`s put into the ring, `put`
what the first was given. Drives do not fail here.

**Ata** models `programs/ata`: identification of the drives, the test write at start, the
request loop, the polling loops and the transfers, over drives that lag, work, and may
fail in the middle. Registers keep their widths (`CountMod`, `LbaMod`). The driver is one
process, a drive another; its state changes between any two polls. The four reads before a
poll are a delay, and by a slip in `ata.h` do not read the alternate status; that they last
until the command shows is assumed.

**Input** models `keyboard.c` and `ps2mouse.c` with the controller they share. Each driver
has an event thread and a registering main thread, without a lock; the table entry and the
count are stored separately. A byte in the controller's buffer is of one of the devices,
and a driver may take the other's (`mixed`). An interrupt's reception and the access
after it are one step, since nothing can tell them apart. `decode_scancode` looks codes from
behind its tables up all the same: `Lower` and `Upper` include what lies there, which need not
agree, so that such a key may leave a modifier set.

**WindowManager** models the two threads of `programs/stubbywm`: the event thread that
moves, raises, drags, takes the clients' updates and draws, and the server thread that opens
windows. The window list is modelled pointer by pointer. A frame is three steps, the drawing
into the buffer (`buf`), the copy of the regions to the framebuffer and `reset_updates`; the
server's `alloc_update` is two, the slot and its contents. The screen has one dimension.
`clash` records that both threads were halfway into the window list; what they do to it after
that is left out. `raced` records that both were at the list of regions: the server had a slot
in hand while the event thread added regions or made a frame, or took one in the middle of a
frame. In a race one of the regions may be lost, or cells copied that were not drawn.

**Console** models `programs/stubby-console` with the two programs it starts: the nested
display and forth. Five threads wait for each other: the console's main and its
`interface_loop`, the display, forth, and the window manager, which is external and delivers
the press and the release of each key. `nameserver_lookup` answers from the console's own
table or, for names that are not in it, with the machine's own devices, as NameServer shows.
The display's picture is its rows of characters, with the row that the code keeps below the
last. What the interpreter prints for a line is an element of `Outputs`. A line that fills
the buffer is terminated behind it, in whatever variable the build has put there (`Fates`):
nothing that matters; `initialized`, so that only the first character comes through and the
start text is read again; or `display` or `keyboard`, after which forth is left out (`away`).
Histories record what was typed, read and printed.

The `MC` modules extend these and define the constants of the runs.

## Runs

| run | bounds | shows |
|---|---|---|
| `ringbuffer` | 3 cells, 2 byte values, requests of up to 3, word of 16 | the ring is a FIFO of 2 bytes; vetted transfers complete; calls return |
| `process` | 3 pages, 2 memory objects of one or two pages, 2 spawns of 4 files, 2 argument lists | disjoint ranges and no false exhaustion, each object at its own pages, nothing mapped over anything, new programs find their segments and arguments |
| `c4alloc` | chunks of 4 units, 2 chunks, requests of up to 4 | `HeapIntact` (chain and lists), fit, disjoint blocks, merging after each free |
| `andtree` | 9 data, 3 with the same key | `WellFormed` (links and balance), `IsSortedSet` (lookups and walks against the plain set), a removal takes one |
| `connman` | 2 clients, one a stray, 2 connections each, 2 calls on each; ids of a word of 8, of which some sets are in no order | pairing with nothing half open, answers, calls and connects end but for searches gone astray |
| `nameserver` | 2 servers in a chain, 4 binds, 2 lookup loops | nearest binding found, nothing unbound, requests and loops end |
| `files` | 2 processes, 17 blocks of 15 cells, a ring of 16, 2 opens and 2 reads each; short writes repeated while at most 9 cells were sent, and one longer than the ring | opens, reads and listings are right; what is sent lands, leaves other files and all blocks alone; calls return |
| `ata` | 2 clients with 2 requests each, two drives of 4 sectors, a CD drive and a free place, one failure | completed requests moved their sectors, nothing else changes, requests end |
| `input` | 2 registrations of 3 clients, 2 keys of 4 scancodes, 1 packet | every client gets every event once; streams are decoded as sent |
| `wm` | 2 consoles, screen of 4, windows of 2, 2 mouse events, 1 key | no window lost, every change in a region to draw |
| `console` | 3 by 4 characters, line buffer of 5, 5 keys of 4 kinds, one output of 5 kinds | forth uses the window's own devices, reads what was typed, the picture shows what it printed, everything comes to rest |
| `files_grow` | one process, a write over 4 blocks | **violated**: see Findings |

Why the bounds are enough to meet the interesting cases: three cells let the indices wrap
with one cell unused, and a word of 16 is no multiple of 3, so the miscount happens; three
pages with two objects hold a free range before, between and behind them, so that a free
merges with the previous, the next or both, an object of two pages finds no room or room only
after a merge, and what LoaderProofs proves covers every other size; two spawns let a short
file be read over a longer one, and the segment that begins inside a page has its .bss on a
second; two chunks let the heap grow and keep chunks apart; eight nodes are the least at
which a removal needs the second split and skew that the comment in `andtree_remove_repair`
wonders about (the `Balanced` mutant leaves them out), and removing them is not enough with
fewer; two connections of a client leave the struct of an ended one in the tree; a chain of
two servers has a miss, a forwarded hit and a hidden binding; the disk of `files` has
directories of one and two blocks, a file with an indirect block and one that grows by direct
blocks, a directory block with one entry more than the ring holds, and its ring is smaller
than a read and than the longer write, while the shorter write can be made twice on a stream;
the ids 0, 3 and 6 of a word of 8 go round in a circle; a count register modulo 2 is 0 for a
request of two sectors, as the real one is for 256; two key events and a packet are enough
for a registration between two events and for both devices to want the one buffer; two
windows give the list a first and a last one, and the mouse events a raise and a drag; on a
screen of four lines the third newline scrolls, a prompt and three characters are a line too
long, and four characters fill the line buffer, so that five keys reach every limit of the
display and of the line reader.

Some properties are conditional, because the code does not keep them otherwise.
`VettedTransferComplete` speaks of calls that asked while the indices were unwrapped:
otherwise the count may be wrong. `CallsReturn` of Connman excepts the calls of a client
whose id a search did not find, and everything once the server is `stale`; both need ids out
of order. `ListsAll` compares a listing with the entries of each block that the ring holds:
the others are dropped, and the run has one. `WritesLand` says that what is sent lands, in
order and at its place, and that the data of a stream's first `fwrite` come first. It does
not say that a second `fwrite` sends its own data: `fs_write_block` sends the bytes at
`buffer + conn->index`, where the index is the position in the file and the buffer is the one
this `fwrite` was given, so that it sends what lies behind the caller's buffer. The run does
this. `StreamsDecoded` speaks of the time before a driver takes the other's byte: the mouse's
loop tests for its device once and then reads three bytes; and of modifiers only until a key
from behind the tables. `WindowsKept` and `Shown` leave out behaviours with a `clash`, and
`Shown` those with a race for the regions: without these exceptions TLC finds a window that
drops out of the list and a window never drawn. `SectorsMoved` leaves out accesses during
which the drive failed: the driver goes on after an error as if the sector were there.
`ScreenShowsText` says what every row shows, up to the first line that is longer than the
screen (its last character is drawn over the next line's first column) and the first cursor
set by a program (a clear then leaves lines behind). `ProgramStarts` compares a program with
its file only if the file has a header of its own: `spawn` of an empty file runs the program
before it again. `LinesTyped` keeps two habits of `read_keyboard`: a backspace on an empty
line is a character, and a full line ends by itself; of a full line it excepts that only the
first character may come through.

Fairness. A side of the ring that has called in keeps running; so does the thread
inside `free_vnode`. A server keeps running, and a client in the middle of a connect
or a call does too: nobody dies half-way, since the code has no timeout and would wait
for ever. Whoever is blocked on a port is taken in its turn (strong fairness, since
the server leaves the port and comes back): the kernel queues the waiters. A drive that
is working gets done, or fails. A process inside a libc call goes on. So do a thread inside
`c4_memobj_free` or `elf_load`, a new thread, and all threads of the console as a whole:
weak fairness of their union is enough, since the user presses finitely many keys. `input` and `wm`
check safety only and assume no fairness. Deadlock is checked in `ringbuffer`, `c4alloc`,
`andtree` and `nameserver`; in the others the clients and the user may have nothing more to ask,
a client may wait for an answer to a request that was missed, and a spawner may have faulted.

`input` and `wm` use the symmetry of their two clients, which no action tells apart.

Every property has a mutant: an operator next to the definition it changes, the
way a slip in that code would. `PROJECT.json` pairs them.

## Findings

* `files_grow`: `ext2_inode_alloc_block` keeps a pointer into the block buffer across
  `ext2_alloc_block`, which reads the descriptors and the bitmap into the same buffer; the
  indirect block is then overwritten, and the file loses the block it had there. The comment
  above the buffer says that there is no need to worry about this.

The passing run `files` grows files by direct blocks only, so that what it shows is the rest.

## Proofs

Eight modules prove theorems for every value of the constants, from the assumptions named in
the modules they extend.

* **ConnmanProofs**: a connection, the shared page first. `TypeCorrect`, `CellsNotShared`,
  `VettedTransfers` and `RingIsFifo` (the refinement of `BoundedFifo`) are about RingBuffer,
  for a ring of at least two cells and a word at least as large. The inductive invariant
  `RingInv` adds to the three invariants how far a vetted call has come; `StoredByte` says
  that between the store and the index the cell holds the writer's byte, which is what makes
  `PutBump` an enqueue of that byte. The longest part shows how `Queue` changes when either
  index moves, with and without a wrap. `Connections_Paired` and `Answers_Match` are about
  Connman, for any number of clients, connections and calls. `HandsShaken` says, for each
  point of the handshake, which of the objects granted so far the server has stored in the
  new struct, and that they are this client's: the objects carry no tag, so their order is
  all there is. `TreeRight` says the same of the structs in the tree, and `OneInFlight` that
  a request is in one place only, the queue to the server, the server's hands or the queue
  back, or is missed and stays where it is. What a client reads is therefore what it asked
  for. Both theorems hold with ids in any order, whatever searches miss.
* **NameServerProofs**: `Lookups_Right`, for any arrangement of servers, binders and askers.
  The invariant follows a request down the chain: `Pending` says that what was bound above
  when the asker began is still bound above at each server that passes the request on,
  `AnswersBound` that an object on its way back was bound in the chain. That the first free
  slot exists (`RoomAssumption`) and that a lookup finds what a bind stored rests on a least
  slot, taken by the smallest counterexample instead of an induction.
* **LoaderProofs**: the allocator first, then what `mem.c` and `elf.c` add.
  `TypeCorrect`, `RegionTiled`, `TreesConsistent`, `FreeNeighboursMerged`, `AllocFindsRuns`
  and `AddrManRefines` are about AddrMan, for a region and a page that are not empty. Its
  invariants together are inductive: tiling needs the trees to agree and merging needs the
  tiling. `AllocFindsRuns` has an argument of its own: take the vnode that holds the run's
  first page; it is free, and since its neighbour is not, it reaches the run's end.
  `AllocatorUsedRight`: a step of the program is a step of AddrMan or leaves the region
  alone; so `ObjectsGetRuns` and `ObjectsFindRuns` hold there too. `ObjectsKeepPages`: every
  live object keeps its pages and shares none. It needs, beside AddrMan's invariant, that
  objects and held ranges correspond one to one (`HeldByObjects`, `RangesDiffer`) and that
  what is mapped in the region is mapped by an object (`RegionMapped`). `PagesNotRemapped`:
  nothing is mapped over a page in use. For the window this is `WindowUse` (it is clear
  whenever `elf_load` maps there), for a child `ChildSpaces` (only what the segments so far
  have touched is mapped). `ProgramsStart` is all of `ProgramStarts`, for files as
  `FilesAssumption` describes them. The bytes of every
  segment are where the file says, although the file was read over another one
  (`BufferRight`: whatever looks like a program in the buffer begins with one) and written
  through another address space (`SegmentsDone`). And the new program reads back from its
  stack exactly the strings that were pushed through the window: each push leaves what is
  above it alone, and the pointers pushed are those of the child. What is pushed is computed
  by functions that recurse over the argument lists; `SetInduction`, induction over the set
  of numbers for which a claim holds, makes them provable where the library's induction
  theorems, whose parameter is a predicate, do not.
* **AtaProofs**: `AccessesDone` and `NothingElseTouched`, the properties `SectorsMoved` and
  `OnlyAsked`, for any drives, clients and requests. The driver polls and the drive lags, so
  the invariant says what each may still find: a drive that works is on the command being
  polled or on a flush (`Works1`), the task registers hold the request of the client being
  served, and of the sectors transferred so far all agree with the page but, in a write, the
  last one, which may still be in the drive. An error the drive reported leaves its mark in
  `failed`, which is why `SectorsMoved` can except exactly those accesses.
* **InputProofs**: `ClientsServed` (`EveryClientEveryEvent`) and `StreamsRight`
  (`StreamsDecoded`), for any clients, scancodes, packets and tables. `Table` describes the
  client table at each point between main's two unlocked stores: entries below the count are
  known clients, each once, but for one counted and still 0, or stored and not yet counted.
  `Served` counts what each entry has been sent: all events read, or all but the one in the
  loop's hands when the loop has not come to the entry yet. For the streams, `Taken` is where
  the device is less what is in the buffer and what is to come; `KeysRead` and `MovesRead`
  tie the event threads' state to that position, so a thread that has read only its own bytes
  has not lost its place.
* **C4AllocProofs**: `HeapStaysIntact` (`HeapIntact`), `BlocksFit` (`BlockFits`),
  `HeapRefines` (the refinement of `RegionAlloc`) and `FreesMerge` (`FreedBlockIsMerged`),
  for any number of buckets, header, bound on a request and number of chunks. Between calls
  the heap is whole. Inside a call exactly one block is on no list: the splitting loop knows
  the bucket it has come to, the merging loop has cleared the block's links, and the chain
  and all other lists are whole. A free list is the smallest set that holds its head and is
  closed under `next`; that every free block of a bucket is in it is kept by showing, for
  each pointer write, which sets are closed before and after. The proofs go field by field:
  what an unlink, an insertion, a split and a merge make of the six fields, then the chain
  from sizes and neighbours, then the lists from links and buckets. `Suits` compares each
  block held with the size its caller asked for, and the invariant also ties that size to the
  bucket the splitting loop is on its way down to. Where the code counts down to a bucket or
  up to a logarithm, a least counterexample takes the place of an induction.
* **ConsoleProofs**: `UsesOwnConsole` (`OwnConsole`), `ReadsWhatIsTyped` (`LinesTyped`) and
  `PictureShowsText` (`ScreenShowsText`), for displays and line buffers of every size, any
  keys and anything forth prints. `Consoles` says how far each of the programs must have
  come for another to be where it is: main starts forth only when the display serves, so
  that forth's lookup can find no other. `Queues` follows the key events: those sent are the
  press and the release of each key in turn (`Sent`), the two queues are consecutive
  parts of that stream, and the presses in them are counted, so that what is still to be
  read is a suffix of what was typed. `LineRight`: the lines read and the part of the buffer
  in use are the edits of the presses taken so far, up to what a full line may lose
  (`ReadAs`). `Picture` ties cursor and rows to the
  text (`Shows`): the rows show the lines printed from `Top` on, with the one empty row that
  the first scrolling newline leaves (`Skipped`). A character, a backspace, a newline with and
  without scrolling and `do_clear`, by induction over its newlines, each keep it.
* **WindowManagerProofs**: `ListKeepsWindows` (`WindowsKept`) and `ScreenShowsWindows`
  (`Shown`), for any finite set of clients, any mouse and every size of the screen, the
  windows, their borders, the cursor and the table of updates. `Kept(s)` relates the list to
  a sequence `s` of its nodes: `ListIs` says which pointers already agree with `s` at each
  point inside `window_list_insert` and `window_list_remove` (`Whole`, `Unlinked`, `HungFirst`,
  `HungLast`), `Ids` that the windows of `s` are, once each, those that were made and are in
  nobody's hands. The steps append a node to `s`, take one out or leave it; the other thread
  must be out of the list for that, and where it is not, `clash` is set. A node is free for
  each insertion because no client has two. `Forward` and `Backward` are shown to walk `s` and
  its reverse. For the screen, `Right(s)` says of each cell that it shows what the windows of
  `s` show there (`Shows`: the top one, or the mouse), up to an update that is still in the
  queue; or it is in a region to redraw, and no frame has been drawn from the regions yet; or
  it belongs to the window that a thread has in hand (`Excused`), whose region is added before
  it is let go. While a frame is copied, what counts of a cell to redraw is the buffer
  (`Seen`). All this is claimed only as long as there was no race; `Apart` says that without
  one the server has no slot in hand during a frame.
  `MouseHeld` is needed besides: while a window is raised, the place the mouse will leave
  stays in the regions. That a list of regions that gets full is replaced by the whole screen
  is `AllocCovers`.

What AtaProofs assumes: requests lie on the drive and in the page and ask for at least one
and at most `CountMod` sectors of a drive that has a number (the driver tests none of this,
and takes the number as an index), a drive has room for the sectors of the test at start, and
a page and the count register hold at least two. InputProofs assumes that the two character
tables, though not what lies behind them, agree on the modifiers, as they do in `keyboard.c`,
and finitely many clients, for whom the table has room: `clients[1024]` is not tested for.
C4AllocProofs assumes numbers for its bounds, a header that is not empty and
`PowerAssumption`, that 2^(k+1) is twice 2^k: the provers know only the type of a power, and
TLC evaluates the assumption on the run. ConsoleProofs assumes a display of at least three
lines and a column, a line buffer of at least three characters, that newline and backspace
are different keys and no modifiers, and that what the interpreter prints are calls of
`interface/console.h`. WindowManagerProofs assumes finitely many clients, whose ids are none
of the two words that stand for the background and the cursor, sizes that are not 0 and a
table of more than one update.

What LoaderProofs assumes: the region of `crt0.c` (0x10000 pages at 0xc0000000) ends below
the window at 0xda000000 (`PlacesAssumption`); frames of the pager and frames of objects
differ (`FramesAssumption`); files have their header table inside them, segments that fit in
the pages counted for them, do not touch each other's pages and stay off the stack and the
boot page, and what begins with the magic number is a whole header (`FilesAssumption`);
arguments and environment fit in the page below `STACK_OFFSET`, and their strings hold no zero
byte (`CallsAssumption`: the code pushes on regardless); the stack is not at page 0, so that no
pointer into it is null. `elf_load` and `spawn` test none of them but the magic number. Of the
assumptions on files, a linker sees to all but one: it does not promise that a segment which
begins inside a page fits in the pages that `elf_load` counts from its size alone. Programs
for which this fails are outside the theorem.

The inductive invariants were checked by TLC on the run's instance before they were proved,
but for those that quantify over what TLC cannot enumerate, as `Good` of the window manager. The
type invariants, `NoSharedCell`, `Tiling`, `TreesAgree` and `Coalesced`, parts of these
invariants, are stated by theorems only; the other theorems state what a run checks too.
`AllocatorUsedRight` is the safety half of the run's `AllocatorUsed`.

Only model-checked: every liveness property and the fairness half of `AllocatorUsed` (the
prover does not reach fairness); AndTree, whose operators recurse as the code does;
FileServer with Ext2. What `OpensRight` and `ListsAll` compare with, `Resolve` and
`Entries`, folds over a path and walks a directory's blocks, so that a proof would be an
induction over data. `ReadsFile`, `WritesLand` and the two action properties of that run
hold of a well-formed disk and of writes that fit, not of every value of the constants: they
would need both as assumptions, and the bitmap's arithmetic with powers of two.

## Not modelled, and the plan

Next, in this order:

1. a definition of a well-formed ext2 disk, under which `BlocksStay` and `OthersUntouched`
   could be proved; of the other modules, AndTree aside, only liveness is left to the runs;
2. a composition of the name server with connections and the file server, as the programs
   start up.

Left out of the modelled parts: `mouse_init`, which runs before the mouse has an event
thread; allocation of inodes, which has no caller, and mounting; a disk error as ext2 sees
it; what the window manager does after both threads have changed the window list at once, and
the server of a connection after it has freed a struct that is still in its tree;
`c4_memobj_share` and
`c4_memobj_recieve`, which have no callers; the display's text mode and raw framebuffer,
which differ from the nested one in where the characters go; forth's own words, which wrap
calls that are modelled elsewhere, and its interpreter, a submodule without content. The
assertion on `node` in the window manager's update handler can fail, when a client's update
is handled before its window is in the list; the model follows the code past it.

Known and outside the models: the display never uses the port it looks up to announce
updates, so what forth prints is shown with the window's next event; `console_get_info`
waits for an answer on an endpoint it has not given away; a full name server table and a
file larger than `spawn`'s buffer are written past their ends, and arguments that do not
fit in a page below its window; a frame is lost when the region has no room for it; the
window manager's two threads share the heap without a lock. `getenv` finds no variable: for
one that is there, `strncmp` goes on to the difference of the characters behind the n it was to
compare, which are the end of the name and `=`; so `init_rootfs` always uses the fallback
`/dev/ext2fs`. On a larger disk than that of
`files`, the bitmap is scanned with the wrong word (`MapCell` keeps the formula, which is
right for the first word), and a full disk has data written to block 0.

Out of reach or without a property worth stating: pixels, fonts and colours, debug
printing, random numbers, PCI listing, the test programs, the build files. Two threads
inside the heap, the address allocator or a tree at once are not modelled: none of them has
a lock.
