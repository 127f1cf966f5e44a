--------------------------------- MODULE Ata ---------------------------------
(***************************************************************************)
(* programs/ata/src/main.c, the driver of the IDE drives, and its clients  *)
(* in c4rt/interface/block.h.  One thread takes a request at a time: the   *)
(* client grants a temporary endpoint on the driver's port, sends the      *)
(* request on it, grants the page to move the sectors to or from, and      *)
(* waits.  These messages are synchronous, so each is one step of both.    *)
(*                                                                         *)
(* The drives are external.  They are polled: a command shows in the       *)
(* status only after a while (lag), then the drive is busy, and then it    *)
(* wants a sector moved (drq), is done, or reports an error.  The words of *)
(* a sector are moved in one step, since neither side looks at a part.     *)
(* Interrupt messages, which ide_channel_poll throws away, are left out.   *)
(***************************************************************************)
EXTENDS Integers, Sequences, FiniteSets

CONSTANTS Client,      \* the threads that use block.h
          Kind,        \* what is connected as drive 0 .. 3: "ata", "packet", "none"
          Sectors,     \* sectors of a drive
          PageSectors, \* sectors of a page
          CountMod,    \* 256: SEC_COUNT0 is a byte
          LbaMod,      \* 2^28: the bits of LBA0 to 2 and of the drive register
          Requests,    \* bound: [type, drive, location, sectors] a client asks for
          Data,        \* bound: the sectors of a page to be written
          MaxCalls,    \* bound: requests of a client
          MaxErrors,   \* bound: errors of the drives
          TestSector,  \* 1054, where ide_init writes what it has read
          Boot         \* the driver itself, as the user of its drives in ide_init

Drive == 0 .. 3
Channel == 0 .. 1
ChannelOf(d) == d \div 2     \* the inverse of device_number
Select(d) == d % 2

ASSUME KindAssumption == Kind \in [Drive -> {"ata", "packet", "none"}]
ASSUME SizeAssumption ==
  /\ Sectors \in Nat /\ PageSectors \in Nat \ {0} /\ CountMod \in Nat \ {0} /\ LbaMod \in Nat
  /\ TestSector \in Nat /\ TestSector + 2 <= Sectors /\ Sectors <= LbaMod
  /\ 2 <= PageSectors /\ 2 <= CountMod
  /\ MaxCalls \in Nat /\ MaxErrors \in Nat /\ Boot \notin Client

(* What clients ask for lies on the drive and in the page: the driver looks *)
(* at neither, nor at 0 sectors (which a drive takes for 256) or at a drive *)
(* number above 3 (which ide_device takes as an index).                     *)
ASSUME RequestAssumption ==
  /\ Requests \subseteq [type : {"read", "write", "other"}, drive : Drive, location : Nat,
                         sectors : 1 .. PageSectors]
  /\ \A r \in Requests : r.location + r.sectors <= Sectors /\ r.sectors <= CountMod
ASSUME DataAssumption == Data \subseteq [0 .. PageSectors - 1 -> Int]

VARIABLES client,   \* client -> [pc, req, calls, error]
          page,     \* client or Boot -> the sectors in its page
          drv,      \* the driver
          exists,   \* drive -> device->exists
          dev,      \* channel -> registers and state of its selected drive
          disk,     \* drive -> its sectors, from 0
          errors    \* how often a drive has failed

vars == <<client, page, drv, exists, dev, disk, errors>>

NoRequest == [type |-> "none", drive |-> 0, location |-> 0, sectors |-> 0]
Blank == [k \in 0 .. PageSectors - 1 |-> 0]

(* The driver is in ide_init ("select", "identify", "found" for drive d) or  *)
(* in main ("port", "request", "buffer"), in an access ("ready", "poll",    *)
(* "sector", "flush") or at its end ("answer").  who: for whom; k: the      *)
(* sector; then: where the poll leads; cspace: the objects it was granted;  *)
(* failed: a drive reported an error since the access began.                *)
Init ==
  /\ client = [c \in Client |-> [pc |-> "idle", req |-> NoRequest, calls |-> 0, error |-> FALSE]]
  /\ page = [c \in Client \cup {Boot} |-> Blank]
  /\ drv = [pc |-> "select", d |-> 0, who |-> Boot, req |-> NoRequest, k |-> 0,
            then |-> "identify", ok |-> TRUE, cspace |-> {}, failed |-> FALSE]
  /\ exists = [d \in Drive |-> FALSE]
  /\ dev = [ch \in Channel |-> [sel |-> 0, lba |-> 0, count |-> 0, cmd |-> "none", pos |-> 0,
                                buf |-> 0, lag |-> FALSE, busy |-> FALSE, drq |-> FALSE,
                                err |-> FALSE]]
  /\ disk = [d \in Drive |-> [s \in 0 .. Sectors - 1 |-> 10 * d + s]]
  /\ errors = 0

-----------------------------------------------------------------------------
(* The drives. *)

SelectedOn(ch) == 2 * ch + dev[ch].sel
Working(ch) == dev[ch].lag \/ dev[ch].busy

(* Registers written while a drive works are lost, and so is what is        *)
(* written where there is no drive.                                         *)
Written(ch, regs) == IF Working(ch) THEN dev[ch] ELSE regs
Commanded(regs, ch, cmd) ==
  IF Kind[2 * ch + regs.sel] = "none" THEN [regs EXCEPT !.cmd = "none", !.drq = FALSE, !.err = FALSE]
  ELSE [regs EXCEPT !.cmd = cmd, !.pos = 0, !.lag = TRUE]

(* The command shows. *)
Shows(ch) ==
  /\ dev[ch].lag
  /\ dev' = [dev EXCEPT ![ch] = [@ EXCEPT !.lag = FALSE, !.busy = TRUE, !.drq = FALSE, !.err = FALSE]]
  /\ UNCHANGED <<client, page, drv, exists, disk, errors>>

(* The drive has done what it was busy with: stored the sector it was sent, *)
(* and then wants to move the next or is at its end.                        *)
Works(ch) ==
  LET r == dev[ch]
      stores == r.cmd = "write" /\ r.pos > 0
  IN  /\ r.busy
      /\ disk' = IF stores THEN [disk EXCEPT ![SelectedOn(ch)][(r.lba + r.pos - 1) % LbaMod] = r.buf]
                 ELSE disk
      /\ dev' = [dev EXCEPT ![ch] = [r EXCEPT !.busy = FALSE,
                   !.drq = \/ r.cmd \in {"read", "write"} /\ r.pos < r.count
                           \/ r.cmd = "ident" /\ Kind[SelectedOn(ch)] = "ata",
                   !.err = r.cmd = "ident" /\ Kind[SelectedOn(ch)] = "packet"]]
      /\ UNCHANGED <<client, page, drv, exists, errors>>

Fails(ch) ==
  /\ dev[ch].busy /\ dev[ch].cmd \in {"read", "write"} /\ errors < MaxErrors
  /\ errors' = errors + 1
  /\ dev' = [dev EXCEPT ![ch] = [@ EXCEPT !.busy = FALSE, !.err = TRUE]]
  /\ drv' = [drv EXCEPT !.failed = TRUE]
  /\ UNCHANGED <<client, page, exists, disk>>

-----------------------------------------------------------------------------
(* The driver's way to a drive. *)

(* Mutant of ide_channel_ready: both bits are wanted. *)
channel_ready_both(ch) == ~dev[ch].busy /\ dev[ch].drq

ide_channel_ready(ch) == ~dev[ch].busy \/ dev[ch].drq
ide_channel_has_error(ch) == dev[ch].err

ChannelInUse == IF drv.pc \in {"select", "identify", "found"} \/ drv.then \in {"identify", "found"}
                THEN ChannelOf(drv.d) ELSE ChannelOf(drv.req.drive)

(* The four reads before the loop are a delay: ATA_REG_ALT_STATUS is 6, so  *)
(* they read the drive register, not the status.  That they last as long as *)
(* a command needs to show is assumed (~lag).                               *)
ide_channel_poll ==
  /\ drv.pc = "poll" /\ ~dev[ChannelInUse].lag
  /\ ide_channel_ready(ChannelInUse) \/ ide_channel_has_error(ChannelInUse)
  /\ drv' = [drv EXCEPT !.pc = drv.then]
  /\ UNCHANGED <<client, page, exists, dev, disk, errors>>

ide_select_drive ==
  LET ch == ChannelOf(drv.d)
  IN  /\ drv.pc = "select"
      /\ dev' = [dev EXCEPT ![ch] = Written(ch, [@ EXCEPT !.sel = Select(drv.d), !.drq = FALSE,
                                                          !.err = FALSE])]
      /\ drv' = [drv EXCEPT !.pc = "poll", !.then = "identify"]
      /\ UNCHANGED <<client, page, exists, disk, errors>>

ide_identify ==
  LET ch == ChannelOf(drv.d)
  IN  /\ drv.pc = "identify"
      /\ dev' = [dev EXCEPT ![ch] = Written(ch, Commanded(@, ch, "ident"))]
      /\ drv' = [drv EXCEPT !.pc = "poll", !.then = "found"]
      /\ UNCHANGED <<client, page, exists, disk, errors>>

(* The end of ide_init_drive: where there is no drive the status is 0;      *)
(* otherwise ide_init_poll waits for an error or for data.                  *)
ide_init_poll(ch) == dev[ch].err \/ (~dev[ch].busy /\ dev[ch].drq)

(* After the last drive ide_init reads two sectors of drive 0, if it is     *)
(* there, and writes them elsewhere; then main begins.                      *)
TestRead  == [type |-> "read",  drive |-> 0, location |-> 0, sectors |-> 2]
TestWrite == [type |-> "write", drive |-> 0, location |-> TestSector, sectors |-> 2]
ide_init_drive ==
  LET ch == ChannelOf(drv.d)
      answers == dev[ch].drq /\ ~dev[ch].err
  IN  /\ drv.pc = "found"
      /\ Kind[drv.d] = "none" \/ ide_init_poll(ch)
      /\ exists' = [exists EXCEPT ![drv.d] = answers]
      /\ dev' = [dev EXCEPT ![ch].drq = FALSE]
      /\ drv' = IF drv.d < 3 THEN [drv EXCEPT !.pc = "select", !.d = @ + 1]
                ELSE IF exists'[0] THEN [drv EXCEPT !.pc = "ready", !.req = TestRead, !.then = "sector"]
                ELSE [drv EXCEPT !.pc = "port", !.then = "sector"]
      /\ UNCHANGED <<client, page, disk, errors>>

(* Mutant of ide_define_access: the upper bits of the location are lost. *)
define_access_low(regs, location, count) ==
  [regs EXCEPT !.lba = location % (LbaMod \div 2),
               !.count = IF count % CountMod = 0 THEN CountMod ELSE count % CountMod]

(* ide_start_access: the loop, and then the registers and the command. *)
ide_define_access(regs, location, count) ==
  [regs EXCEPT !.lba = location % LbaMod,
               !.count = IF count % CountMod = 0 THEN CountMod ELSE count % CountMod]
Started(r) ==
  LET ch == ChannelOf(r.drive)
      regs == [dev[ch] EXCEPT !.sel = Select(r.drive)]
  IN  /\ dev' = [dev EXCEPT ![ch] =
                   Written(ch, Commanded(ide_define_access(regs, r.location, r.sectors), ch, r.type))]
      /\ drv' = [drv EXCEPT !.pc = "poll", !.then = "sector", !.k = 0]
      /\ UNCHANGED <<client, page, exists, disk, errors>>

(* Mutant of ide_start_access: does not wait for the drive. *)
ide_start_access_at_once == drv.pc = "ready" /\ Started(drv.req)

ide_start_access ==
  /\ drv.pc = "ready" /\ ide_channel_ready(ChannelInUse)
  /\ Started(drv.req)

(* What is left to be done after an access: for ide_init the write of its   *)
(* test and then main, for main the answer.                                 *)
AfterAccess ==
  IF drv.who # Boot THEN [drv EXCEPT !.pc = "answer", !.ok = TRUE]
  ELSE IF drv.req = TestRead THEN [drv EXCEPT !.pc = "ready", !.req = TestWrite]
  ELSE [drv EXCEPT !.pc = "port", !.failed = FALSE]

(* A turn of the loop of ide_pio_read or ide_pio_write.  Without drq there  *)
(* is nothing to read and nobody to write to.                               *)
Moved(ch) == IF dev[ch].drq THEN [dev[ch] EXCEPT !.pos = @ + 1, !.lag = TRUE] ELSE dev[ch]
ide_pio_read ==
  LET ch == ChannelInUse IN
  /\ drv.pc = "sector" /\ drv.req.type = "read" /\ drv.k < drv.req.sectors
  /\ page' = [page EXCEPT ![drv.who][drv.k] =
                IF dev[ch].drq THEN disk[SelectedOn(ch)][(dev[ch].lba + dev[ch].pos) % LbaMod] ELSE -1]
  /\ dev' = [dev EXCEPT ![ch] = Moved(ch)]
  /\ drv' = [drv EXCEPT !.pc = "poll", !.k = @ + 1]
  /\ UNCHANGED <<client, exists, disk, errors>>

ide_pio_write ==
  LET ch == ChannelInUse IN
  /\ drv.pc = "sector" /\ drv.req.type = "write" /\ drv.k < drv.req.sectors
  /\ dev' = [dev EXCEPT ![ch] = [Moved(ch) EXCEPT !.buf = page[drv.who][drv.k]]]
  /\ drv' = [drv EXCEPT !.pc = "poll", !.k = @ + 1]
  /\ UNCHANGED <<client, page, exists, disk, errors>>

(* The end of either loop; a write is followed by a flush that nobody waits *)
(* for.                                                                     *)
EndAccess ==
  LET ch == ChannelInUse IN
  /\ drv.pc = "sector" /\ drv.k = drv.req.sectors
  /\ dev' = IF drv.req.type = "write"
            THEN [dev EXCEPT ![ch] = Written(ch, Commanded(@, ch, "flush"))] ELSE dev
  /\ drv' = AfterAccess
  /\ UNCHANGED <<client, page, exists, disk, errors>>

-----------------------------------------------------------------------------
(* Clients and main. *)

block_access(c, req, data) ==
  /\ client[c].pc = "idle" /\ client[c].calls < MaxCalls
  /\ client' = [client EXCEPT ![c] = [pc |-> "temp", req |-> req, calls |-> @.calls + 1,
                                      error |-> FALSE]]
  /\ page' = IF req.type = "write" THEN [page EXCEPT ![c] = data] ELSE page
  /\ UNCHANGED <<drv, exists, dev, disk, errors>>

(* c4_send_temp_endpoint meets main; a message that is no grant would be    *)
(* dropped there, changing nothing.  By then a flush shows: the system      *)
(* calls since are assumed to have taken longer.                            *)
TakeTemp(c) ==
  /\ client[c].pc = "temp" /\ drv.pc = "port" /\ \A ch \in Channel : ~dev[ch].lag
  /\ client' = [client EXCEPT ![c].pc = "request"]
  /\ drv' = [drv EXCEPT !.pc = "request", !.who = c, !.cspace = @ \cup {<<c, "endpoint">>}]
  /\ UNCHANGED <<page, exists, dev, disk, errors>>

(* The request; one that is neither a read nor a write is dropped, with no  *)
(* answer, and here the client does not wait for one.                       *)
TakeRequest(c) ==
  LET known == client[c].req.type \in {"read", "write"} IN
  /\ client[c].pc = "request" /\ drv.pc = "request" /\ drv.who = c
  /\ client' = [client EXCEPT ![c].pc = IF known THEN "grant" ELSE "idle"]
  /\ drv' = IF known THEN [drv EXCEPT !.pc = "buffer", !.req = client[c].req]
            ELSE [drv EXCEPT !.pc = "port", !.cspace = @ \ {<<c, "endpoint">>}]
  /\ UNCHANGED <<page, exists, dev, disk, errors>>

ata_handle_access(c) ==
  /\ client[c].pc = "grant" /\ drv.pc = "buffer" /\ drv.who = c
  /\ client' = [client EXCEPT ![c].pc = "wait"]
  /\ drv' = [drv EXCEPT !.cspace = @ \cup {<<c, "buffer">>}, !.failed = FALSE, !.ok = FALSE,
                        !.pc = IF exists[drv.req.drive] THEN "ready" ELSE "answer"]
  /\ UNCHANGED <<page, exists, dev, disk, errors>>

(* BLOCK_MSG_COMPLETED or BLOCK_MSG_ERROR; both objects are removed, the    *)
(* endpoint a second time in main, where the slot is empty.                 *)
Answer(c) ==
  /\ client[c].pc = "wait" /\ drv.pc = "answer" /\ drv.who = c
  /\ client' = [client EXCEPT ![c].pc = "idle", ![c].error = ~drv.ok]
  /\ drv' = [drv EXCEPT !.pc = "port", !.cspace = @ \ {<<c, "endpoint">>, <<c, "buffer">>}]
  /\ UNCHANGED <<page, exists, dev, disk, errors>>

-----------------------------------------------------------------------------

Access == ide_channel_poll \/ ide_start_access \/ ide_pio_read \/ ide_pio_write \/ EndAccess
Probe == ide_select_drive \/ ide_identify \/ ide_init_drive
Meet(c) == TakeRequest(c) \/ ata_handle_access(c) \/ Answer(c)

Next ==
  \/ Access
  \/ Probe
  \/ \E ch \in Channel : Shows(ch) \/ Works(ch) \/ Fails(ch)
  \/ \E c \in Client : Meet(c) \/ TakeTemp(c)
  \/ \E c \in Client, req \in Requests, data \in Data : block_access(c, req, data)

(* The driver runs, a client goes on with a request it has begun, the port  *)
(* takes whoever waits there in turn, and drives finish.                    *)
Spec ==
  /\ Init /\ [][Next]_vars
  /\ WF_vars(Access) /\ WF_vars(Probe)
  /\ \A ch \in Channel : WF_vars(Shows(ch)) /\ WF_vars(Works(ch))
  /\ \A c \in Client : WF_vars(Meet(c)) /\ SF_vars(TakeTemp(c))

-----------------------------------------------------------------------------
(* Properties. *)

(* When ata_handle_access answers BLOCK_MSG_COMPLETED, the sectors asked    *)
(* for are in the client's page, or the page's sectors on the drive asked   *)
(* for, whatever the drives were still doing for the request before; a      *)
(* drive that is not there is answered with an error.  The code does not    *)
(* notice an error of a drive: then, and only then, COMPLETED says nothing. *)
(* Between requests the driver holds no object of a client.                 *)
SectorsMoved ==
  /\ drv.pc = "answer" /\ ~drv.failed =>
       /\ drv.ok <=> Kind[drv.req.drive] = "ata"
       /\ drv.ok => \A k \in 0 .. drv.req.sectors - 1 :
                      page[drv.who][k] = disk[drv.req.drive][drv.req.location + k]
  /\ drv.pc = "port" => drv.cspace = {}

(* A step changes a page only if its owner's read is being served, and a    *)
(* sector only if the write being served (or ide_init's test of its drive)  *)
(* asks for that one.                                                       *)
OnlyAsked ==
  [][/\ \A c \in Client : page'[c] # page[c] =>
          \/ client[c].pc = "idle"
          \/ drv.who = c /\ drv.req.type = "read" /\ client[c].pc = "wait"
     /\ \A d \in Drive, s \in 0 .. Sectors - 1 : disk'[d][s] # disk[d][s] =>
          /\ drv.pc = "poll" /\ drv.req.type = "write" /\ drv.req.drive = d
          /\ s \in drv.req.location .. drv.req.location + drv.req.sectors - 1]_vars

(* Every block_read and block_write returns: no poll of the driver waits    *)
(* for a drive that has nothing to do, also after an error.                 *)
RequestsEnd == \A c \in Client : client[c].pc # "idle" ~> client[c].pc = "idle"
=============================================================================
