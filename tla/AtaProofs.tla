------------------------------ MODULE AtaProofs ------------------------------
(***************************************************************************)
(* That the ATA driver moves the sectors it is asked to move and no        *)
(* others, for any drives, clients and requests.  The inductive invariant  *)
(* follows an access sector by sector: what the registers hold, which      *)
(* sectors have been moved, and where the last one is.                     *)
(***************************************************************************)
EXTENDS Ata, TLAPS

-----------------------------------------------------------------------------
(* The inductive invariant. *)

User == Client \cup {Boot}
Cmd == {"none", "ident", "read", "write", "other", "flush"}
Places == 0 .. PageSectors - 1
Request == [type : {"none", "read", "write", "other"}, drive : Drive, location : Nat,
            sectors : Nat]

ClientType == [Client -> [pc : {"idle", "temp", "request", "grant", "wait"}, req : Request,
                          calls : Nat, error : BOOLEAN]]
DrvType == [pc : {"select", "identify", "found", "poll", "ready", "sector",
                  "port", "request", "buffer", "answer"},
            d : Drive, who : User, req : Request, k : Nat,
            then : {"identify", "found", "sector"}, ok : BOOLEAN,
            cspace : SUBSET (Client \X {"endpoint", "buffer"}), failed : BOOLEAN]
Registers == [sel : 0 .. 1, lba : Nat, count : Nat, cmd : Cmd, pos : Nat, buf : Int,
              lag : BOOLEAN, busy : BOOLEAN, drq : BOOLEAN, err : BOOLEAN]
DevType == [Channel -> Registers]

TypeOK ==
  /\ client \in ClientType
  /\ page \in [User -> [Places -> Int]]
  /\ drv \in DrvType
  /\ exists \in [Drive -> BOOLEAN]
  /\ dev \in DevType
  /\ disk \in [Drive -> [0 .. Sectors - 1 -> Int]]

(* A read or write of sectors that are there, on a drive that is. *)
Sound(r) ==
  /\ r.type \in {"read", "write"} /\ Kind[r.drive] = "ata"
  /\ r.sectors \in 1 .. PageSectors /\ r.sectors <= CountMod
  /\ r.location + r.sectors <= Sectors

(* The loop of an access has begun. *)
Moving == drv.pc = "sector" \/ (drv.pc = "poll" /\ drv.then = "sector")
Serving == Moving \/ drv.pc = "ready"

(* For whom the driver works, and what it holds of theirs. *)
Stages ==
  /\ drv.pc = "select" => drv.then \in {"identify", "found"}
  /\ drv.pc = "identify" => drv.then = "identify"
  /\ drv.pc = "found" => drv.then = "found"
  /\ drv.pc \in {"ready", "sector", "port", "request", "buffer", "answer"} => drv.then = "sector"

Asked == \A c \in Client : client[c].pc # "idle" => client[c].req \in Requests

Users ==
  /\ drv.then # "sector" \/ drv.pc = "port" \/ (Serving /\ drv.who = Boot) => drv.cspace = {}
  /\ drv.then # "sector" => drv.who = Boot
  /\ drv.pc \in {"request", "buffer"} =>
       /\ drv.who \in Client /\ drv.cspace = {<<drv.who, "endpoint">>}
       /\ client[drv.who].pc = IF drv.pc = "request" THEN "request" ELSE "grant"
  /\ drv.pc = "buffer" => drv.req \in Requests /\ drv.req.type \in {"read", "write"}
  /\ (Serving /\ drv.who # Boot) \/ drv.pc = "answer" =>
       /\ drv.who \in Client /\ client[drv.who].pc = "wait"
       /\ drv.cspace \subseteq {<<drv.who, "endpoint">>, <<drv.who, "buffer">>}

Served == Serving => Sound(drv.req)

-----------------------------------------------------------------------------
(* The drives. *)

(* A drive that works wants nothing and reports nothing. *)
BusyAlone == \A ch \in Channel : dev[ch].busy => ~dev[ch].lag /\ ~dev[ch].drq /\ ~dev[ch].err

(* A drive works on the command the driver polls for, or on a flush. *)
Works1 ==
  \A ch \in Channel :
    /\ dev[ch].lag => drv.pc \in {"port", "answer"} \/ (drv.pc = "poll" /\ ch = ChannelInUse)
    /\ Working(ch) =>
         IF drv.pc = "poll" /\ ch = ChannelInUse
         THEN /\ drv.then # "identify"
              /\ dev[ch].cmd = IF drv.then = "found" THEN "ident" ELSE drv.req.type
         ELSE drv.then = "sector" /\ dev[ch].cmd = "flush"

(* ide_init_drive sees what is connected. *)
Identified ==
  LET x == dev[ChannelOf(drv.d)]
      w == Working(ChannelOf(drv.d))
  IN  /\ drv.then # "sector" /\ drv.pc # "select" => x.sel = Select(drv.d)
      /\ drv.then = "found" /\ drv.pc # "select" =>
           /\ Kind[drv.d] = "none" => ~w /\ ~x.drq /\ ~x.err
           /\ Kind[drv.d] # "none" =>
                /\ x.cmd = "ident"
                /\ ~w => /\ x.drq <=> Kind[drv.d] = "ata"
                         /\ x.err <=> Kind[drv.d] = "packet"

ExistsRight ==
  \A e \in Drive : drv.then = "sector" \/ e < drv.d => (exists[e] <=> Kind[e] = "ata")

-----------------------------------------------------------------------------
(* An access. *)

Loaded(x) ==
  /\ x.sel = Select(drv.req.drive) /\ x.lba = drv.req.location /\ x.count = drv.req.sectors
  /\ x.cmd = drv.req.type /\ x.pos <= drv.k /\ drv.k <= drv.req.sectors

(* The drive wants the next sector, unless it has failed. *)
Wants(x, w) ==
  ~w => IF x.err THEN drv.failed /\ ~x.drq ELSE x.drq <=> x.pos < x.count

OnDisk(j) == page[drv.who][j] = disk[drv.req.drive][drv.req.location + j]

(* The sectors up to the k-th are the same in the page and on the drive,    *)
(* but for the last one of a write, while the drive still has it.           *)
Same(x, w) ==
  w \/ ~x.err =>
    /\ x.pos = drv.k
    /\ \A j \in 0 .. drv.k - 1 :
         IF drv.req.type = "write" /\ w /\ j = drv.k - 1
         THEN x.buf = page[drv.who][j] ELSE OnDisk(j)

Transfer ==
  LET ch == ChannelOf(drv.req.drive) IN
  Moving => Loaded(dev[ch]) /\ Wants(dev[ch], Working(ch)) /\ Same(dev[ch], Working(ch))

Answered ==
  drv.pc = "answer" =>
    /\ drv.ok <=> Kind[drv.req.drive] = "ata"
    /\ drv.ok /\ ~drv.failed => \A j \in 0 .. drv.req.sectors - 1 : OnDisk(j)

IInv == /\ TypeOK /\ Stages /\ Asked /\ Users /\ Served
        /\ BusyAlone /\ Works1 /\ Identified /\ ExistsRight /\ Transfer /\ Answered

-----------------------------------------------------------------------------
(* Facts about channels and drives. *)

(* A drive is the one its channel and its place on it name. *)
LEMMA DriveLemma ==
  ASSUME NEW d \in Drive
  PROVE  /\ ChannelOf(d) \in Channel /\ Select(d) \in 0 .. 1
         /\ 2 * ChannelOf(d) + Select(d) = d
BY DEF Drive, Channel, ChannelOf, Select

(* The channel in use is that of the drive being probed or served. *)
LEMMA InUse ==
  ASSUME IInv
  PROVE  /\ drv.then = "sector" /\ drv.pc \notin {"select", "identify", "found"} =>
              ChannelInUse = ChannelOf(drv.req.drive)
         /\ drv.then # "sector" => ChannelInUse = ChannelOf(drv.d)
         /\ ChannelInUse \in Channel
<1>1. drv \in DrvType
  BY DEF IInv, TypeOK
<1>2. drv.d \in Drive /\ drv.req.drive \in Drive /\ drv.then \in {"identify", "found", "sector"}
  BY <1>1 DEF DrvType, Request
<1>. QED BY <1>2, DriveLemma DEF ChannelInUse

(* The registers of a channel change. *)
LEMMA DevSet ==
  ASSUME dev \in DevType, NEW ch \in Channel, NEW y \in Registers,
         dev' = [dev EXCEPT ![ch] = y]
  PROVE  dev' \in DevType /\ dev'[ch] = y /\ \A c \in Channel : c # ch => dev'[c] = dev[c]
BY DEF DevType

(* What a command was given. *)
SameRegs(y, x) ==
  /\ y.sel = x.sel /\ y.lba = x.lba /\ y.count = x.count
  /\ y.cmd = x.cmd /\ y.pos = x.pos /\ y.buf = x.buf

(* How an access stands after a step. *)
LEMMA TransferIs ==
  ASSUME NEW y, NEW w \in BOOLEAN, (dev[ChannelOf(drv.req.drive)])' = y,
         Working(ChannelOf(drv.req.drive))' <=> w,
         Moving' => Loaded(y)' /\ Wants(y, w)' /\ Same(y, w)'
  PROVE  Transfer'
<1>1. Working(ChannelOf(drv.req.drive))' = w
  BY DEF Working
<1>. QED BY <1>1, Zenon DEF Transfer

(* What a step of a drive has to keep. *)
LEMMA DriveFrame ==
  ASSUME IInv, UNCHANGED <<client, page, drv, exists>>, dev' \in DevType,
         disk' \in [Drive -> [0 .. Sectors - 1 -> Int]],
         BusyAlone', Works1', Identified', Transfer', Answered'
  PROVE  IInv'
<1>1. TypeOK'
  BY DEF IInv, TypeOK
<1>2. Stages' /\ Asked' /\ Users' /\ Served'
  BY DEF IInv, Stages, Asked, Users, Served, Serving, Moving
<1>3. ExistsRight'
  BY DEF IInv, ExistsRight
<1>. QED BY <1>1, <1>2, <1>3 DEF IInv

-----------------------------------------------------------------------------
(* The drives' steps. *)

(* A command shows. *)
LEMMA ShowsStep ==
  ASSUME IInv, NEW ch \in Channel, Shows(ch)
  PROVE  IInv'
<1>. DEFINE y == [dev[ch] EXCEPT !.lag = FALSE, !.busy = TRUE, !.drq = FALSE, !.err = FALSE]
<1>1. /\ dev[ch].lag /\ dev' = [dev EXCEPT ![ch] = y]
      /\ UNCHANGED <<client, page, drv, exists, disk, errors>>
  BY DEF Shows
<1>2. dev \in DevType /\ dev[ch] \in Registers
  BY DEF IInv, TypeOK, DevType
<1>3. /\ y \in Registers /\ ~y.lag /\ y.busy /\ ~y.drq /\ ~y.err /\ SameRegs(y, dev[ch])
  BY <1>2, ZenonT(30) DEF Registers, SameRegs
<1>. HIDE DEF y
<1>4. dev' \in DevType /\ dev'[ch] = y /\ \A c \in Channel : c # ch => dev'[c] = dev[c]
  BY <1>1, <1>2, <1>3, DevSet
<1>5. \A c \in Channel : /\ Working(c)' <=> Working(c)
                         /\ SameRegs(dev'[c], dev[c])
                         /\ ~Working(c) => dev'[c] = dev[c]
  BY <1>1, <1>3, <1>4 DEF Working, SameRegs
<1>6. BusyAlone'
  BY <1>3, <1>4 DEF IInv, BusyAlone
<1>7. drv.d \in Drive /\ drv.req.drive \in Drive
  BY DEF IInv, TypeOK, DrvType, Request
<1>8. ChannelOf(drv.d) \in Channel /\ ChannelOf(drv.req.drive) \in Channel
  BY <1>7, DriveLemma
<1>9. Works1'
  BY <1>1, <1>3, <1>4, <1>5 DEF IInv, Works1, ChannelInUse, SameRegs
<1>10. Identified'
  BY <1>1, <1>5, <1>8 DEF IInv, Identified, SameRegs
<1>11. Transfer'
  BY <1>1, <1>5, <1>8 DEF IInv, Transfer, Moving, Loaded, Wants, Same, OnDisk, SameRegs
<1>12. Answered'
  BY <1>1 DEF IInv, Answered, OnDisk
<1>. QED BY <1>1, <1>4, <1>6, <1>9, <1>10, <1>11, <1>12, DriveFrame DEF IInv, TypeOK

(* What holds of the channel a working drive is on. *)
LEMMA WorkingLemma ==
  ASSUME IInv, NEW ch \in Channel, Working(ch)
  PROVE  \/ /\ drv.then = "sector" /\ dev[ch].cmd = "flush"
            /\ Moving => ch # ChannelOf(drv.req.drive)
         \/ /\ drv.pc = "poll" /\ drv.then = "found" /\ ch = ChannelOf(drv.d)
            /\ dev[ch].cmd = "ident" /\ SelectedOn(ch) = drv.d /\ Kind[drv.d] # "none"
         \/ /\ drv.pc = "poll" /\ drv.then = "sector" /\ ch = ChannelOf(drv.req.drive)
            /\ dev[ch].cmd = drv.req.type /\ SelectedOn(ch) = drv.req.drive
            /\ Loaded(dev[ch]) /\ Same(dev[ch], TRUE)
<1>1. drv.d \in Drive /\ drv.req.drive \in Drive /\ drv.then \in {"identify", "found", "sector"}
  BY DEF IInv, TypeOK, DrvType, Request
<1>2. CASE ~(drv.pc = "poll" /\ ch = ChannelInUse)
  <2>1. drv.then = "sector" /\ dev[ch].cmd = "flush"
    BY <1>2 DEF IInv, Works1
  <2>2. ASSUME Moving PROVE ch # ChannelOf(drv.req.drive)
    <3>1. drv.req.type \in {"read", "write"} /\ Loaded(dev[ChannelOf(drv.req.drive)])
      BY <2>2 DEF IInv, Served, Serving, Sound, Transfer
    <3>. QED BY <2>1, <3>1 DEF Loaded
  <2>. QED BY <2>1, <2>2
<1>3. CASE drv.pc = "poll" /\ ch = ChannelInUse
  <2>1. drv.then # "identify" /\ dev[ch].cmd = IF drv.then = "found" THEN "ident" ELSE drv.req.type
    BY <1>3 DEF IInv, Works1
  <2>2. CASE drv.then = "found"
    <3>1. ch = ChannelOf(drv.d)
      BY <1>3, <2>2, InUse
    <3>2. dev[ch].sel = Select(drv.d) /\ Kind[drv.d] # "none"
      BY <1>3, <2>2, <3>1 DEF IInv, Identified
    <3>3. SelectedOn(ch) = drv.d
      BY <1>1, <3>1, <3>2, DriveLemma DEF SelectedOn
    <3>. QED BY <1>3, <2>1, <2>2, <3>1, <3>2, <3>3
  <2>3. CASE drv.then = "sector"
    <3>1. ch = ChannelOf(drv.req.drive)
      BY <1>3, <2>3, InUse
    <3>2. Loaded(dev[ch]) /\ Same(dev[ch], Working(ch))
      BY <1>3, <2>3, <3>1 DEF IInv, Transfer, Moving
    <3>3. SelectedOn(ch) = drv.req.drive
      BY <1>1, <3>1, <3>2, DriveLemma DEF SelectedOn, Loaded
    <3>. QED BY <1>3, <2>1, <2>3, <3>1, <3>2, <3>3 DEF Same
  <2>. QED BY <1>1, <2>1, <2>2, <2>3
<1>. QED BY <1>2, <1>3

(* The drive stores what it was sent where it was asked to. *)
LEMMA StoreLemma ==
  ASSUME IInv, NEW ch \in Channel, drv.pc = "poll", drv.then = "sector",
         ch = ChannelOf(drv.req.drive), Loaded(dev[ch]), dev[ch].pos > 0
  PROVE  /\ (dev[ch].lba + dev[ch].pos - 1) % LbaMod = drv.req.location + (dev[ch].pos - 1)
         /\ drv.req.location + (dev[ch].pos - 1) \in
              drv.req.location .. drv.req.location + drv.req.sectors - 1
         /\ drv.req.location + (dev[ch].pos - 1) \in 0 .. Sectors - 1
<1>1. /\ drv.req.location \in Nat /\ drv.req.sectors \in Nat /\ drv.k \in Nat
      /\ dev[ch].pos \in Nat /\ dev[ch].lba \in Nat
  BY DEF IInv, TypeOK, DrvType, Request, DevType, Registers
<1>2. drv.req.location + drv.req.sectors <= Sectors
  BY DEF IInv, Served, Serving, Moving, Sound
<1>3. /\ dev[ch].lba = drv.req.location
      /\ dev[ch].pos <= drv.k /\ drv.k <= drv.req.sectors
  BY DEF Loaded
<1>4. Sectors \in Nat /\ LbaMod \in Nat /\ Sectors <= LbaMod
  BY SizeAssumption
<1>. DEFINE p == dev[ch].pos
            at == drv.req.location + (p - 1)
<1>5. /\ at \in 0 .. Sectors - 1 /\ at < LbaMod /\ dev[ch].lba + p - 1 = at
      /\ at \in drv.req.location .. drv.req.location + drv.req.sectors - 1
  BY <1>1, <1>2, <1>3, <1>4
<1>. HIDE DEF p, at
<1>6. at % LbaMod = at
  BY <1>4, <1>5
<1>. QED BY <1>5, <1>6 DEF p, at

(* A drive has done its work. *)
LEMMA WorksStep ==
  ASSUME IInv, NEW ch \in Channel, Works(ch)
  PROVE  IInv'
<1>. DEFINE r == dev[ch]
            q == \/ r.cmd \in {"read", "write"} /\ r.pos < r.count
                 \/ r.cmd = "ident" /\ Kind[SelectedOn(ch)] = "ata"
            e == r.cmd = "ident" /\ Kind[SelectedOn(ch)] = "packet"
            z == [r EXCEPT !.busy = FALSE, !.drq = q, !.err = e]
            stores == r.cmd = "write" /\ r.pos > 0
<1>1. /\ r.busy /\ dev' = [dev EXCEPT ![ch] = z]
      /\ disk' = IF stores THEN [disk EXCEPT ![SelectedOn(ch)][(r.lba + r.pos - 1) % LbaMod] = r.buf]
                 ELSE disk
      /\ UNCHANGED <<client, page, drv, exists, errors>>
  BY DEF Works
<1>2. dev \in DevType /\ r \in Registers /\ q \in BOOLEAN /\ e \in BOOLEAN /\ ~r.lag /\ Working(ch)
  BY <1>1 DEF IInv, TypeOK, DevType, BusyAlone, Working
<1>. HIDE DEF q, e
<1>z. /\ z \in Registers /\ ~z.lag /\ ~z.busy /\ (z.drq <=> q) /\ (z.err <=> e) /\ SameRegs(z, r)
  BY <1>2, ZenonT(30) DEF Registers, SameRegs
<1>. HIDE DEF z
<1>3. PICK y : /\ y = z /\ y \in Registers /\ ~y.lag /\ ~y.busy /\ (y.drq <=> q) /\ (y.err <=> e)
               /\ SameRegs(y, r)
  BY <1>z
<1>4. dev' \in DevType /\ dev'[ch] = y /\ \A c \in Channel : c # ch => dev'[c] = dev[c]
  BY <1>1, <1>2, <1>3, DevSet
<1>5. ~Working(ch)' /\ \A c \in Channel : c # ch => (Working(c)' <=> Working(c))
  BY <1>3, <1>4 DEF Working
<1>6. BusyAlone'
  BY <1>3, <1>4 DEF IInv, BusyAlone
<1>7. /\ drv.d \in Drive /\ drv.req.drive \in Drive
      /\ ChannelOf(drv.d) \in Channel /\ ChannelOf(drv.req.drive) \in Channel
      /\ disk \in [Drive -> [0 .. Sectors - 1 -> Int]] /\ r.buf \in Int
  BY <1>2, DriveLemma DEF IInv, TypeOK, DrvType, Request, Registers
<1>8. Works1'
  BY <1>1, <1>3, <1>4, <1>5 DEF IInv, Works1, ChannelInUse
<1>9. CASE /\ drv.then = "sector" /\ r.cmd = "flush"
           /\ Moving => ch # ChannelOf(drv.req.drive)
  <2>1. disk' = disk
    BY <1>1, <1>9
  <2>2. Identified'
    BY <1>1, <1>9 DEF Identified
  <2>3. Transfer'
    BY <1>1, <1>4, <1>5, <1>7, <1>9, <2>1
    DEF IInv, Transfer, Moving, Loaded, Wants, Same, OnDisk
  <2>4. Answered'
    BY <1>1, <2>1 DEF IInv, Answered, OnDisk
  <2>. QED BY <1>1, <1>4, <1>6, <1>7, <1>8, <2>1, <2>2, <2>3, <2>4, DriveFrame
<1>10. CASE /\ drv.pc = "poll" /\ drv.then = "found" /\ ch = ChannelOf(drv.d)
            /\ r.cmd = "ident" /\ SelectedOn(ch) = drv.d /\ Kind[drv.d] # "none"
  <2>1. disk' = disk
    BY <1>1, <1>10
  <2>2. (y.drq <=> Kind[drv.d] = "ata") /\ (y.err <=> Kind[drv.d] = "packet")
    BY <1>3, <1>10 DEF q, e
  <2>3. Identified'
    BY <1>1, <1>3, <1>4, <1>5, <1>10, <2>2 DEF IInv, Identified, SameRegs
  <2>4. Transfer' /\ Answered'
    BY <1>1, <1>10 DEF Transfer, Moving, Answered
  <2>. QED BY <1>1, <1>4, <1>6, <1>7, <1>8, <2>1, <2>3, <2>4, DriveFrame
<1>11. CASE /\ drv.pc = "poll" /\ drv.then = "sector" /\ ch = ChannelOf(drv.req.drive)
            /\ r.cmd = drv.req.type /\ SelectedOn(ch) = drv.req.drive
            /\ Loaded(r) /\ Same(r, TRUE)
  <2>1. drv.req.type \in {"read", "write"}
    BY <1>11 DEF IInv, Served, Serving, Moving, Sound
  <2>2. (y.drq <=> y.pos < y.count) /\ ~y.err
    BY <1>3, <1>11, <2>1 DEF q, e, SameRegs
  <2>3. Loaded(y)
    BY <1>3, <1>11 DEF Loaded, SameRegs
  <2>4. y.pos = drv.k /\ r.pos = drv.k
    BY <1>3, <1>11 DEF Same, SameRegs
  <2>5. /\ disk' \in [Drive -> [0 .. Sectors - 1 -> Int]]
        /\ \A j \in 0 .. drv.k - 1 : OnDisk(j)'
    <3>1. CASE stores
      <4>. DEFINE at == drv.req.location + (r.pos - 1)
                  d == drv.req.drive
      <4>1. (r.lba + r.pos - 1) % LbaMod = at /\ at \in 0 .. Sectors - 1
        BY <1>11, <3>1, StoreLemma, SMTT(30)
      <4>2. disk' = [disk EXCEPT ![d][at] = r.buf]
        BY <1>1, <1>11, <3>1, <4>1
      <4>. HIDE DEF at, d
      <4>3. /\ disk' \in [Drive -> [0 .. Sectors - 1 -> Int]] /\ disk'[d][at] = r.buf
            /\ \A s \in 0 .. Sectors - 1 : s # at => disk'[d][s] = disk[d][s]
        BY <4>1, <4>2, <1>7 DEF d
      <4>4. ASSUME NEW j \in 0 .. drv.k - 1
            PROVE  OnDisk(j)'
        <5>1. /\ drv.req.location \in Nat /\ drv.req.sectors \in Nat /\ drv.k \in Nat
              /\ drv.k <= drv.req.sectors /\ drv.req.location + drv.req.sectors <= Sectors
              /\ Sectors \in Nat
          BY <1>11, SizeAssumption
          DEF IInv, TypeOK, DrvType, Request, Served, Serving, Moving, Sound, Loaded
        <5>2. drv.req.location + j \in 0 .. Sectors - 1
          BY <5>1, <4>4
        <5>3. CASE j = drv.k - 1
          <6>1. at = drv.req.location + j
            BY <2>4, <5>3 DEF at
          <6>2. r.buf = page[drv.who][j]
            BY <1>11, <2>1, <3>1, <4>4, <5>3 DEF Same
          <6>. QED BY <1>1, <4>3, <6>1, <6>2 DEF OnDisk, d
        <5>4. CASE j # drv.k - 1
          <6>0. at = drv.req.location + (drv.k - 1)
            BY <2>4 DEF at
          <6>1. at # drv.req.location + j
            BY <4>4, <5>1, <5>4, <6>0
          <6>2. OnDisk(j)
            BY <1>11, <4>4, <5>4 DEF Same
          <6>. QED BY <1>1, <4>3, <5>2, <6>1, <6>2 DEF OnDisk, d
        <5>. QED BY <5>3, <5>4
      <4>. QED BY <4>3, <4>4
    <3>2. CASE ~stores
      <4>1. disk' = disk
        BY <1>1, <3>2
      <4>2. drv.k \in Nat /\ (drv.req.type = "write" => drv.k = 0)
        BY <1>2, <1>11, <2>4, <3>2 DEF Registers
      <4>3. ASSUME NEW j \in 0 .. drv.k - 1
            PROVE  OnDisk(j)
        <5>1. drv.req.type # "write"
          BY <4>2, <4>3
        <5>. QED BY <1>11, <4>3, <5>1 DEF Same
      <4>. QED BY <1>1, <1>7, <4>1, <4>3 DEF OnDisk
    <3>. QED BY <3>1, <3>2
  <2>6. Identified' /\ Answered'
    BY <1>1, <1>11 DEF Identified, Answered
  <2>7. Transfer'
    <3>1. (dev[ChannelOf(drv.req.drive)])' = y /\ ~Working(ChannelOf(drv.req.drive))'
      BY <1>1, <1>4, <1>5, <1>11
    <3>2. Loaded(y)' /\ Wants(y, FALSE)'
      BY <1>1, <2>2, <2>3 DEF Loaded, Wants
    <3>3. Same(y, FALSE)'
      BY <1>1, <2>4, <2>5 DEF Same
    <3>. QED BY <3>1, <3>2, <3>3, TransferIs
  <2>. QED BY <1>1, <1>4, <1>6, <1>8, <2>5, <2>6, <2>7, DriveFrame
<1>. QED BY <1>2, <1>9, <1>10, <1>11, WorkingLemma

(* A drive fails. *)
LEMMA FailsStep ==
  ASSUME IInv, NEW ch \in Channel, Fails(ch)
  PROVE  IInv'
<1>. DEFINE z == [dev[ch] EXCEPT !.busy = FALSE, !.err = TRUE]
<1>1. /\ dev[ch].busy /\ dev[ch].cmd \in {"read", "write"}
      /\ dev' = [dev EXCEPT ![ch] = z] /\ drv' = [drv EXCEPT !.failed = TRUE]
      /\ UNCHANGED <<client, page, exists, disk>>
  BY DEF Fails
<1>2. /\ dev \in DevType /\ dev[ch] \in Registers /\ drv \in DrvType
      /\ ~dev[ch].lag /\ ~dev[ch].drq /\ Working(ch)
  BY <1>1 DEF IInv, TypeOK, DevType, BusyAlone, Working
<1>z. z \in Registers /\ ~z.lag /\ ~z.busy /\ ~z.drq /\ z.err /\ SameRegs(z, dev[ch])
  BY <1>2, ZenonT(30) DEF Registers, SameRegs
<1>. HIDE DEF z
<1>3. PICK y : /\ y = z /\ y \in Registers /\ ~y.lag /\ ~y.busy /\ ~y.drq /\ y.err
               /\ SameRegs(y, dev[ch])
  BY <1>z
<1>4. dev' \in DevType /\ dev'[ch] = y /\ \A c \in Channel : c # ch => dev'[c] = dev[c]
  BY <1>1, <1>2, <1>3, DevSet
<1>5. ~Working(ch)' /\ \A c \in Channel : c # ch => (Working(c)' <=> Working(c))
  BY <1>3, <1>4 DEF Working
<1>6. /\ drv' \in DrvType /\ drv'.failed
      /\ drv'.pc = drv.pc /\ drv'.d = drv.d /\ drv'.who = drv.who /\ drv'.req = drv.req
      /\ drv'.k = drv.k /\ drv'.then = drv.then /\ drv'.ok = drv.ok /\ drv'.cspace = drv.cspace
  BY <1>1, <1>2 DEF DrvType
<1>7. /\ drv.pc = "poll" /\ drv.then = "sector" /\ ch = ChannelOf(drv.req.drive)
      /\ Loaded(dev[ch])
  <2>1. drv.req.type # "flush" /\ dev[ch].cmd # "flush" /\ dev[ch].cmd # "ident"
    BY <1>1, <1>2 DEF DrvType, Request
  <2>. QED BY <1>2, <2>1, WorkingLemma
<1>8. TypeOK'
  BY <1>1, <1>4, <1>6 DEF IInv, TypeOK
<1>9. Stages' /\ Asked' /\ Users' /\ Served'
  BY <1>1, <1>6 DEF IInv, Stages, Asked, Users, Served, Serving, Moving
<1>10. BusyAlone'
  BY <1>3, <1>4 DEF IInv, BusyAlone
<1>11. Works1'
  BY <1>3, <1>4, <1>5, <1>6 DEF IInv, Works1, ChannelInUse
<1>12. Identified' /\ Answered'
  BY <1>6, <1>7 DEF Identified, Answered
<1>13. ExistsRight'
  BY <1>1, <1>6 DEF IInv, ExistsRight
<1>14. Transfer'
  <2>1. (dev[ChannelOf(drv.req.drive)])' = y /\ (Working(ChannelOf(drv.req.drive))' <=> FALSE)
    BY <1>4, <1>5, <1>6, <1>7
  <2>2. Loaded(y)'
    BY <1>3, <1>6, <1>7 DEF Loaded, SameRegs
  <2>3. Wants(y, FALSE)' /\ Same(y, FALSE)'
    BY <1>3, <1>6 DEF Wants, Same
  <2>. QED BY <2>1, <2>2, <2>3, TransferIs
<1>. QED BY <1>8, <1>9, <1>10, <1>11, <1>12, <1>13, <1>14 DEF IInv

-----------------------------------------------------------------------------
(* The driver's steps. *)

(* The poll has ended. *)
LEMMA PollStep ==
  ASSUME IInv, ide_channel_poll
  PROVE  IInv'
<1>1. /\ drv.pc = "poll" /\ ~dev[ChannelInUse].lag
      /\ ~dev[ChannelInUse].busy \/ dev[ChannelInUse].drq \/ dev[ChannelInUse].err
      /\ drv' = [drv EXCEPT !.pc = drv.then]
      /\ UNCHANGED <<client, page, exists, dev, disk, errors>>
  BY DEF ide_channel_poll, ide_channel_ready, ide_channel_has_error
<1>2. drv \in DrvType
  BY DEF IInv, TypeOK
<1>3. /\ drv' \in DrvType /\ drv'.pc = drv.then
      /\ drv'.d = drv.d /\ drv'.who = drv.who /\ drv'.req = drv.req /\ drv'.failed = drv.failed
      /\ drv'.k = drv.k /\ drv'.then = drv.then /\ drv'.ok = drv.ok /\ drv'.cspace = drv.cspace
  BY <1>1, <1>2 DEF DrvType
<1>4. drv.then \in {"identify", "found", "sector"}
  BY <1>2 DEF DrvType
<1>5. ~Working(ChannelInUse)
  BY <1>1, InUse DEF IInv, BusyAlone, Working
<1>6. (Moving' <=> Moving) /\ (Serving' <=> Serving)
  BY <1>1, <1>3, <1>4 DEF Moving, Serving
<1>7. TypeOK'
  BY <1>1, <1>3 DEF IInv, TypeOK
<1>8. Stages' /\ Asked' /\ Served'
  BY <1>1, <1>3, <1>4, <1>6 DEF IInv, Stages, Asked, Served
<1>9. Users'
  BY <1>1, <1>3, <1>4, <1>6 DEF IInv, Users
<1>10. BusyAlone'
  BY <1>1 DEF IInv, BusyAlone
<1>11. Works1'
  <2>1. \A c \in Channel : ~dev[c].lag /\ (Working(c) => drv.then = "sector" /\ dev[c].cmd = "flush")
    BY <1>1, <1>5 DEF IInv, Works1, Working
  <2>. QED BY <1>1, <1>3, <1>4, <2>1 DEF Works1, Working
<1>12. Identified'
  BY <1>1, <1>3, <1>4 DEF IInv, Identified, Working
<1>13. ExistsRight' /\ Answered'
  BY <1>1, <1>3, <1>4 DEF IInv, ExistsRight, Answered
<1>14. Transfer'
  BY <1>1, <1>3, <1>6 DEF IInv, Transfer, Loaded, Wants, Same, OnDisk, Working
<1>. QED BY <1>7, <1>8, <1>9, <1>10, <1>11, <1>12, <1>13, <1>14 DEF IInv

(* Between its polls ide_init works alone. *)
LEMMA ProbeQuiet ==
  ASSUME IInv, drv.pc \in {"select", "identify", "found"}
  PROVE  /\ \A c \in Channel : ~dev[c].lag /\ ~dev[c].busy
         /\ drv.then # "sector" /\ drv.who = Boot /\ drv.cspace = {}
         /\ drv.d \in Drive /\ ChannelOf(drv.d) \in Channel /\ Select(drv.d) \in 0 .. 1
<1>1. drv.then # "sector"
  BY DEF IInv, Stages
<1>2. \A c \in Channel : ~Working(c)
  BY <1>1 DEF IInv, Works1
<1>3. drv.d \in Drive
  BY DEF IInv, TypeOK, DrvType
<1>. QED BY <1>1, <1>2, <1>3, DriveLemma DEF IInv, Users, Working

(* What a step of ide_init that leads to a poll has to keep. *)
LEMMA ProbeFrame ==
  ASSUME IInv, drv.then # "sector", drv.who = Boot, drv.cspace = {},
         drv' \in DrvType, drv'.pc = "poll", drv'.then \in {"identify", "found"},
         drv'.d = drv.d, drv'.who = drv.who, drv'.cspace = drv.cspace,
         UNCHANGED <<client, page, exists, disk, errors>>, dev' \in DevType,
         BusyAlone', Works1', Identified'
  PROVE  IInv'
<1>1. ~Moving' /\ ~Serving'
  BY DEF Moving, Serving
<1>2. TypeOK'
  BY DEF IInv, TypeOK
<1>3. Stages' /\ Asked' /\ Users' /\ Served'
  BY <1>1 DEF IInv, Stages, Asked, Users, Served
<1>4. ExistsRight'
  BY DEF IInv, ExistsRight
<1>5. Transfer' /\ Answered'
  BY <1>1 DEF Transfer, Answered
<1>. QED BY <1>2, <1>3, <1>4, <1>5 DEF IInv

(* A drive is selected. *)
LEMMA SelectStep ==
  ASSUME IInv, ide_select_drive
  PROVE  IInv'
<1>. DEFINE ch == ChannelOf(drv.d)
            z == [dev[ch] EXCEPT !.sel = Select(drv.d), !.drq = FALSE, !.err = FALSE]
<1>1. /\ \A c \in Channel : ~dev[c].lag /\ ~dev[c].busy
      /\ drv.then # "sector" /\ drv.who = Boot /\ drv.cspace = {}
      /\ drv.d \in Drive /\ ch \in Channel /\ Select(drv.d) \in 0 .. 1
  BY ProbeQuiet DEF ide_select_drive
<1>2. /\ dev' = [dev EXCEPT ![ch] = z]
      /\ drv' = [drv EXCEPT !.pc = "poll", !.then = "identify"]
      /\ UNCHANGED <<client, page, exists, disk, errors>>
  BY <1>1 DEF ide_select_drive, Written, Working
<1>3. dev \in DevType /\ dev[ch] \in Registers /\ drv \in DrvType
  BY <1>1 DEF IInv, TypeOK, DevType
<1>4. z \in Registers /\ ~z.lag /\ ~z.busy /\ ~z.drq /\ ~z.err /\ z.sel = Select(drv.d)
  BY <1>1, <1>3, ZenonT(30) DEF Registers
<1>. HIDE DEF z
<1>5. dev' \in DevType /\ dev'[ch] = z /\ \A c \in Channel : c # ch => dev'[c] = dev[c]
  BY <1>1, <1>2, <1>3, <1>4, DevSet
<1>6. /\ drv' \in DrvType /\ drv'.pc = "poll" /\ drv'.then = "identify"
      /\ drv'.d = drv.d /\ drv'.who = drv.who /\ drv'.cspace = drv.cspace
  BY <1>2, <1>3 DEF DrvType
<1>7. \A c \in Channel : ~dev'[c].lag /\ ~dev'[c].busy
  BY <1>1, <1>4, <1>5
<1>8. BusyAlone' /\ Works1'
  BY <1>7 DEF BusyAlone, Works1, Working
<1>9. Identified'
  BY <1>4, <1>5, <1>6 DEF Identified
<1>. QED BY <1>1, <1>2, <1>5, <1>6, <1>8, <1>9, ProbeFrame

(* It is asked what it is. *)
LEMMA IdentifyStep ==
  ASSUME IInv, ide_identify
  PROVE  IInv'
<1>. DEFINE ch == ChannelOf(drv.d)
            z == Commanded(dev[ch], ch, "ident")
<1>1. /\ \A c \in Channel : ~dev[c].lag /\ ~dev[c].busy
      /\ drv.then # "sector" /\ drv.who = Boot /\ drv.cspace = {}
      /\ drv.d \in Drive /\ ch \in Channel /\ Select(drv.d) \in 0 .. 1
  BY ProbeQuiet DEF ide_identify
<1>2. /\ dev' = [dev EXCEPT ![ch] = z]
      /\ drv' = [drv EXCEPT !.pc = "poll", !.then = "found"]
      /\ UNCHANGED <<client, page, exists, disk, errors>>
  BY <1>1 DEF ide_identify, Written, Working
<1>3. dev \in DevType /\ dev[ch] \in Registers /\ drv \in DrvType
  BY <1>1 DEF IInv, TypeOK, DevType
<1>4. dev[ch].sel = Select(drv.d) /\ 2 * ch + dev[ch].sel = drv.d
  BY <1>1, DriveLemma DEF IInv, Identified, ide_identify
<1>5. /\ z \in Registers /\ ~z.busy /\ z.sel = Select(drv.d)
      /\ Kind[drv.d] = "none" => ~z.lag /\ ~z.drq /\ ~z.err
      /\ Kind[drv.d] # "none" => z.lag /\ z.cmd = "ident"
  <2>1. CASE Kind[drv.d] = "none"
    <3>1. z = [dev[ch] EXCEPT !.cmd = "none", !.drq = FALSE, !.err = FALSE]
      BY <1>4, <2>1 DEF Commanded
    <3>2. z \in Registers /\ ~z.busy /\ z.sel = dev[ch].sel /\ ~z.lag /\ ~z.drq /\ ~z.err
      BY <1>1, <1>3, <3>1, ZenonT(30) DEF Registers, Cmd
    <3>. QED BY <1>4, <2>1, <3>2
  <2>2. CASE Kind[drv.d] # "none"
    <3>1. z = [dev[ch] EXCEPT !.cmd = "ident", !.pos = 0, !.lag = TRUE]
      BY <1>4, <2>2 DEF Commanded
    <3>2. 0 \in Nat
      OBVIOUS
    <3>3. z \in Registers /\ ~z.busy /\ z.sel = dev[ch].sel /\ z.lag /\ z.cmd = "ident"
      BY <1>1, <1>3, <3>1, <3>2, ZenonT(30) DEF Registers, Cmd
    <3>. QED BY <1>4, <2>2, <3>3
  <2>. QED BY <2>1, <2>2
<1>. HIDE DEF z
<1>6. dev' \in DevType /\ dev'[ch] = z /\ \A c \in Channel : c # ch => dev'[c] = dev[c]
  BY <1>1, <1>2, <1>3, <1>5, DevSet
<1>7. /\ drv' \in DrvType /\ drv'.pc = "poll" /\ drv'.then = "found"
      /\ drv'.d = drv.d /\ drv'.who = drv.who /\ drv'.cspace = drv.cspace
  BY <1>2, <1>3 DEF DrvType
<1>8. BusyAlone'
  BY <1>1, <1>5, <1>6 DEF BusyAlone
<1>9. ChannelInUse' = ch
  BY <1>7 DEF ChannelInUse
<1>10. Works1'
  BY <1>1, <1>5, <1>6, <1>7, <1>9 DEF Works1, Working
<1>11. Identified'
  BY <1>5, <1>6, <1>7 DEF Identified, Working
<1>. QED BY <1>1, <1>2, <1>6, <1>7, <1>8, <1>10, <1>11, ProbeFrame

(* It has answered, or is not there; after the last drive comes the test,   *)
(* or main.                                                                 *)
LEMMA InitDriveStep ==
  ASSUME IInv, ide_init_drive
  PROVE  IInv'
<1>. DEFINE ch == ChannelOf(drv.d)
            z == [dev[ch] EXCEPT !.drq = FALSE]
            answers == dev[ch].drq /\ ~dev[ch].err
<1>1. /\ \A c \in Channel : ~dev[c].lag /\ ~dev[c].busy
      /\ drv.then # "sector" /\ drv.who = Boot /\ drv.cspace = {}
      /\ drv.d \in Drive /\ ch \in Channel /\ Select(drv.d) \in 0 .. 1
  BY ProbeQuiet DEF ide_init_drive
<1>2. /\ drv.pc = "found" /\ exists' = [exists EXCEPT ![drv.d] = answers]
      /\ dev' = [dev EXCEPT ![ch].drq = FALSE]
      /\ drv' = IF drv.d < 3 THEN [drv EXCEPT !.pc = "select", !.d = @ + 1]
                ELSE IF exists'[0] THEN [drv EXCEPT !.pc = "ready", !.req = TestRead, !.then = "sector"]
                ELSE [drv EXCEPT !.pc = "port", !.then = "sector"]
      /\ UNCHANGED <<client, page, disk, errors>>
  BY DEF ide_init_drive
<1>3. dev \in DevType /\ dev[ch] \in Registers /\ drv \in DrvType /\ exists \in [Drive -> BOOLEAN]
  BY <1>1 DEF IInv, TypeOK, DevType
<1>4. z \in Registers /\ ~z.lag /\ ~z.busy
  BY <1>1, <1>3, ZenonT(30) DEF Registers
<1>5. dev' = [dev EXCEPT ![ch] = z]
  BY <1>2
<1>. HIDE DEF z
<1>6. dev' \in DevType /\ dev'[ch] = z /\ \A c \in Channel : c # ch => dev'[c] = dev[c]
  BY <1>1, <1>3, <1>4, <1>5, DevSet
<1>7. \A c \in Channel : ~dev'[c].lag /\ ~dev'[c].busy
  BY <1>1, <1>4, <1>6
<1>8. BusyAlone' /\ Works1'
  BY <1>7 DEF BusyAlone, Works1, Working
<1>9. answers <=> Kind[drv.d] = "ata"
  <2>1. drv.then = "found"
    BY <1>2 DEF IInv, Stages
  <2>2. ~Working(ch)
    BY <1>1 DEF Working
  <2>3. Kind[drv.d] \in {"ata", "packet", "none"}
    BY <1>1, KindAssumption
  <2>. QED BY <1>2, <2>1, <2>2, <2>3 DEF IInv, Identified
<1>. HIDE DEF answers
<1>10. /\ exists' \in [Drive -> BOOLEAN]
       /\ \A e \in Drive : e # drv.d => exists'[e] = exists[e]
       /\ exists'[drv.d] <=> Kind[drv.d] = "ata"
  <2>1. answers \in BOOLEAN
    BY <1>3 DEF answers, Registers
  <2>. QED BY <1>1, <1>2, <1>3, <1>9, <2>1
<1>11. \A e \in Drive : e < drv.d \/ e = drv.d => (exists'[e] <=> Kind[e] = "ata")
  BY <1>1, <1>10 DEF IInv, ExistsRight
<1>12. CASE drv.d < 3
  <2>1. drv' = [drv EXCEPT !.pc = "select", !.d = @ + 1] /\ drv.d + 1 \in Drive
    BY <1>1, <1>2, <1>12 DEF Drive
  <2>2. /\ drv' \in DrvType /\ drv'.pc = "select" /\ drv'.d = drv.d + 1
        /\ drv'.then = drv.then /\ drv'.who = drv.who /\ drv'.cspace = drv.cspace
    BY <1>3, <2>1 DEF DrvType
  <2>3. drv.then = "found" /\ ~Moving' /\ ~Serving'
    BY <1>2, <2>2 DEF IInv, Stages, Moving, Serving
  <2>4. TypeOK'
    BY <1>2, <1>6, <1>10, <2>2 DEF IInv, TypeOK
  <2>5. Stages' /\ Asked' /\ Users' /\ Served'
    BY <1>1, <1>2, <2>2, <2>3 DEF IInv, Stages, Asked, Users, Served
  <2>6. Identified' /\ Transfer' /\ Answered'
    BY <2>2, <2>3 DEF Identified, Transfer, Answered
  <2>7. ExistsRight'
    <3>1. \A e \in Drive : e < drv.d + 1 => e < drv.d \/ e = drv.d
      BY <1>1 DEF Drive
    <3>. QED BY <1>11, <2>2, <2>3, <3>1 DEF ExistsRight
  <2>. QED BY <1>8, <2>4, <2>5, <2>6, <2>7 DEF IInv
<1>13. CASE ~(drv.d < 3)
  <2>1. \A e \in Drive : e < drv.d \/ e = drv.d
    BY <1>1, <1>13 DEF Drive
  <2>2. \A e \in Drive : exists'[e] <=> Kind[e] = "ata"
    BY <1>11, <2>1
  <2>3. ExistsRight'
    BY <2>2 DEF ExistsRight
  <2>4. CASE exists'[0]
    <3>1. drv' = [drv EXCEPT !.pc = "ready", !.req = TestRead, !.then = "sector"]
      BY <1>2, <1>13, <2>4
    <3>2. TestRead \in Request /\ Sound(TestRead)
      <4>1. 0 \in Drive
        BY DEF Drive
      <4>2. Kind[0] = "ata"
        BY <2>2, <2>4, <4>1
      <4>3. 2 \in 1 .. PageSectors /\ 2 <= CountMod /\ 0 + 2 <= Sectors
        BY SizeAssumption
      <4>. QED BY <4>1, <4>2, <4>3 DEF TestRead, Request, Sound
    <3>3. /\ drv' \in DrvType /\ drv'.pc = "ready" /\ drv'.req = TestRead
          /\ drv'.then = "sector" /\ drv'.who = drv.who /\ drv'.cspace = drv.cspace
      BY <1>3, <3>1, <3>2 DEF DrvType
    <3>4. ~Moving'
      BY <3>3 DEF Moving
    <3>5. TypeOK'
      BY <1>2, <1>6, <1>10, <3>3 DEF IInv, TypeOK
    <3>6. Stages' /\ Asked' /\ Users' /\ Served'
      BY <1>1, <1>2, <3>2, <3>3, <3>4 DEF IInv, Stages, Asked, Users, Served
    <3>7. Identified' /\ Transfer' /\ Answered'
      BY <3>3, <3>4 DEF Identified, Transfer, Answered
    <3>. QED BY <1>8, <2>3, <3>5, <3>6, <3>7 DEF IInv
  <2>5. CASE ~exists'[0]
    <3>1. drv' = [drv EXCEPT !.pc = "port", !.then = "sector"]
      BY <1>2, <1>13, <2>5
    <3>2. /\ drv' \in DrvType /\ drv'.pc = "port"
          /\ drv'.then = "sector" /\ drv'.who = drv.who /\ drv'.cspace = drv.cspace
      BY <1>3, <3>1 DEF DrvType
    <3>3. ~Moving' /\ ~Serving'
      BY <3>2 DEF Moving, Serving
    <3>4. TypeOK'
      BY <1>2, <1>6, <1>10, <3>2 DEF IInv, TypeOK
    <3>5. Stages' /\ Asked' /\ Users' /\ Served'
      BY <1>1, <1>2, <3>2, <3>3 DEF IInv, Stages, Asked, Users, Served
    <3>6. Identified' /\ Transfer' /\ Answered'
      BY <3>2, <3>3 DEF Identified, Transfer, Answered
    <3>. QED BY <1>8, <2>3, <3>4, <3>5, <3>6 DEF IInv
  <2>. QED BY <2>4, <2>5
<1>. QED BY <1>12, <1>13

-----------------------------------------------------------------------------
(* An access. *)

(* Before and between the turns of its loop the drive waits. *)
LEMMA ServingQuiet ==
  ASSUME IInv, drv.pc \in {"ready", "sector"}
  PROVE  /\ drv.then = "sector" /\ Serving /\ Sound(drv.req) /\ drv.req \in Request
         /\ ChannelInUse = ChannelOf(drv.req.drive) /\ ChannelOf(drv.req.drive) \in Channel
         /\ Select(drv.req.drive) \in 0 .. 1
         /\ 2 * ChannelOf(drv.req.drive) + Select(drv.req.drive) = drv.req.drive
         /\ drv.req.drive \in Drive /\ drv.who \in User
         /\ \A c \in Channel : ~dev[c].lag /\ (Working(c) => dev[c].cmd = "flush")
<1>1. drv.then = "sector" /\ Serving
  BY DEF IInv, Stages, Serving, Moving
<1>2. drv.req \in Request /\ drv.who \in User
  BY DEF IInv, TypeOK, DrvType
<1>3. drv.req.drive \in Drive
  BY <1>2 DEF Request
<1>4. Sound(drv.req)
  BY <1>1 DEF IInv, Served
<1>5. \A c \in Channel : ~dev[c].lag /\ (Working(c) => dev[c].cmd = "flush")
  BY DEF IInv, Works1
<1>. QED BY <1>1, <1>2, <1>3, <1>4, <1>5, InUse, DriveLemma

(* How the loop finds the drive. *)
LEMMA SectorQuiet ==
  ASSUME IInv, drv.pc = "sector", NEW ch, ch = ChannelOf(drv.req.drive)
  PROVE  /\ ~dev[ch].busy /\ ~Working(ch) /\ Moving
         /\ Loaded(dev[ch]) /\ Wants(dev[ch], FALSE) /\ Same(dev[ch], FALSE)
         /\ SelectedOn(ch) = drv.req.drive
<1>1. Moving /\ Sound(drv.req) /\ ch \in Channel
  BY ServingQuiet DEF Moving
<1>2. Loaded(dev[ch]) /\ Wants(dev[ch], Working(ch)) /\ Same(dev[ch], Working(ch))
  BY <1>1 DEF IInv, Transfer
<1>3. ~Working(ch)
  BY <1>1, <1>2, ServingQuiet DEF Loaded, Sound
<1>4. Working(ch) = FALSE
  BY <1>3 DEF Working
<1>5. SelectedOn(ch) = drv.req.drive
  BY <1>2, ServingQuiet DEF Loaded, SelectedOn
<1>. QED BY <1>1, <1>2, <1>3, <1>4, <1>5 DEF Working

(* What a step inside an access has to keep. *)
LEMMA AccessFrame ==
  ASSUME IInv, Serving, drv.then = "sector", drv' \in DrvType, drv'.pc = "poll",
         drv'.then = "sector", drv'.who = drv.who, drv'.req = drv.req,
         drv'.cspace = drv.cspace, UNCHANGED <<client, exists, disk, errors>>,
         page' \in [User -> [Places -> Int]], dev' \in DevType,
         BusyAlone', Works1', Transfer'
  PROVE  IInv'
<1>1. Moving' /\ Serving' /\ drv.pc # "answer"
  BY DEF Moving, Serving
<1>2. TypeOK'
  BY DEF IInv, TypeOK
<1>3. Stages' /\ Asked' /\ Served'
  BY <1>1 DEF IInv, Stages, Asked, Served
<1>4. Users'
  BY <1>1 DEF IInv, Users
<1>5. Identified' /\ Answered' /\ ExistsRight'
  BY DEF IInv, Identified, Answered, ExistsRight
<1>. QED BY <1>2, <1>3, <1>4, <1>5 DEF IInv

(* What the registers are given is what was asked for. *)
LEMMA AccessNumbers ==
  ASSUME NEW r \in Request, Sound(r)
  PROVE  /\ r.location % LbaMod = r.location
         /\ (IF r.sectors % CountMod = 0 THEN CountMod ELSE r.sectors % CountMod) = r.sectors
         /\ r.location \in Nat /\ r.sectors \in Nat
<1>. DEFINE l == r.location
            n == r.sectors
<1>1. l \in Nat /\ n \in Nat /\ n >= 1 /\ n <= CountMod /\ l + n <= Sectors
  BY DEF Request, Sound
<1>2. Sectors <= LbaMod /\ Sectors \in Nat /\ LbaMod \in Nat /\ CountMod \in Nat /\ CountMod > 0
  BY SizeAssumption
<1>. HIDE DEF l, n
<1>3. l \in 0 .. LbaMod - 1 /\ l % LbaMod = l
  BY <1>1, <1>2
<1>4. n = CountMod => n % CountMod = 0
  BY <1>1, <1>2
<1>5. n < CountMod => n % CountMod = n
  BY <1>1, <1>2
<1>6. n = CountMod \/ n < CountMod
  BY <1>1, <1>2
<1>7. (IF n % CountMod = 0 THEN CountMod ELSE n % CountMod) = n
  BY <1>1, <1>4, <1>5, <1>6
<1>. QED BY <1>1, <1>3, <1>7 DEF l, n

(* The access begins. *)
LEMMA StartStep ==
  ASSUME IInv, ide_start_access
  PROVE  IInv'
<1>. DEFINE ch == ChannelOf(drv.req.drive)
            regs == [dev[ch] EXCEPT !.sel = Select(drv.req.drive)]
            given == ide_define_access(regs, drv.req.location, drv.req.sectors)
            z == [given EXCEPT !.cmd = drv.req.type, !.pos = 0, !.lag = TRUE]
<1>1. /\ drv.pc = "ready" /\ ide_channel_ready(ChannelInUse)
      /\ dev' = [dev EXCEPT ![ch] = Written(ch, Commanded(given, ch, drv.req.type))]
      /\ drv' = [drv EXCEPT !.pc = "poll", !.then = "sector", !.k = 0]
      /\ UNCHANGED <<client, page, exists, disk, errors>>
  BY DEF ide_start_access, Started
<1>2. /\ drv.then = "sector" /\ Serving /\ Sound(drv.req) /\ drv.req \in Request
      /\ ChannelInUse = ch /\ ch \in Channel /\ Select(drv.req.drive) \in 0 .. 1
      /\ 2 * ch + Select(drv.req.drive) = drv.req.drive
      /\ \A c \in Channel : ~dev[c].lag /\ (Working(c) => dev[c].cmd = "flush")
  BY <1>1, ServingQuiet
<1>3. ~dev[ch].busy /\ ~Working(ch)
  BY <1>1, <1>2 DEF ide_channel_ready, IInv, BusyAlone, Working
<1>4. dev \in DevType /\ dev[ch] \in Registers /\ drv \in DrvType
  BY <1>2 DEF IInv, TypeOK, DevType
<1>5. regs \in Registers /\ regs.sel = Select(drv.req.drive) /\ ~regs.busy
  BY <1>2, <1>3, <1>4, ZenonT(30) DEF Registers
<1>. HIDE DEF regs
<1>6. /\ given \in Registers /\ given.sel = Select(drv.req.drive) /\ ~given.busy
      /\ given.lba = drv.req.location /\ given.count = drv.req.sectors
  <2>1. /\ drv.req.location \in Nat /\ drv.req.sectors \in Nat
        /\ given = [regs EXCEPT !.lba = drv.req.location, !.count = drv.req.sectors]
    BY <1>2, AccessNumbers DEF ide_define_access
  <2>. QED BY <1>5, <2>1, ZenonT(30) DEF Registers
<1>. HIDE DEF given
<1>7. /\ z \in Registers /\ z.lag /\ ~z.busy /\ z.sel = Select(drv.req.drive)
      /\ z.lba = drv.req.location /\ z.count = drv.req.sectors /\ z.cmd = drv.req.type /\ z.pos = 0
  <2>1. drv.req.type \in Cmd /\ 0 \in Nat
    BY <1>2 DEF Sound, Cmd
  <2>. QED BY <1>6, <2>1, ZenonT(30) DEF Registers
<1>8. Written(ch, Commanded(given, ch, drv.req.type)) = z
  BY <1>2, <1>3, <1>6 DEF Written, Commanded, Sound
<1>. HIDE DEF z
<1>9. dev' \in DevType /\ dev'[ch] = z /\ \A c \in Channel : c # ch => dev'[c] = dev[c]
  BY <1>1, <1>2, <1>4, <1>7, <1>8, DevSet
<1>10. /\ drv' \in DrvType /\ drv'.pc = "poll" /\ drv'.then = "sector" /\ drv'.k = 0
       /\ drv'.who = drv.who /\ drv'.req = drv.req /\ drv'.cspace = drv.cspace
  BY <1>1, <1>4 DEF DrvType
<1>11. BusyAlone'
  BY <1>7, <1>9 DEF IInv, BusyAlone
<1>12. ChannelInUse' = ch
  BY <1>10 DEF ChannelInUse
<1>13. Works1'
  BY <1>2, <1>7, <1>9, <1>10, <1>12 DEF Works1, Working
<1>14. Transfer'
  <2>1. PICK y : y = z /\ y = dev'[ch]
    BY <1>9
  <2>2. (dev[ChannelOf(drv.req.drive)])' = y /\ (Working(ChannelOf(drv.req.drive))' <=> TRUE)
    BY <1>7, <1>9, <1>10, <2>1 DEF Working
  <2>3. drv.req.sectors \in Nat
    BY <1>2 DEF Request
  <2>4. Loaded(y)'
    BY <1>7, <1>10, <2>1, <2>3 DEF Loaded
  <2>5. Wants(y, TRUE)' /\ Same(y, TRUE)'
    BY <1>7, <1>10, <2>1 DEF Wants, Same
  <2>. QED BY <2>2, <2>4, <2>5, TransferIs
<1>. QED BY <1>1, <1>2, <1>9, <1>10, <1>11, <1>13, <1>14, AccessFrame DEF IInv, TypeOK

(* Where a turn of the loop is. *)
LEMMA TurnNumbers ==
  ASSUME IInv, drv.pc = "sector", drv.k < drv.req.sectors
  PROVE  /\ drv.k \in Nat /\ drv.k \in Places /\ drv.k + 1 \in Nat
         /\ drv.k + 1 <= drv.req.sectors /\ drv.req.sectors \in Nat /\ drv.req.location \in Nat
         /\ drv.req.location + drv.k \in 0 .. Sectors - 1
         /\ (drv.req.location + drv.k) % LbaMod = drv.req.location + drv.k
<1>. DEFINE l == drv.req.location
            n == drv.req.sectors
            k == drv.k
<1>1. l \in Nat /\ n \in Nat /\ k \in Nat /\ k < n
  BY DEF IInv, TypeOK, DrvType, Request
<1>2. n <= PageSectors /\ l + n <= Sectors
  BY ServingQuiet, SizeAssumption DEF Sound
<1>3. /\ Sectors <= LbaMod /\ Sectors \in Nat /\ LbaMod \in Nat /\ PageSectors \in Nat
  BY SizeAssumption
<1>. HIDE DEF l, n, k
<1>4. k \in 0 .. PageSectors - 1 /\ k + 1 \in Nat /\ k + 1 <= n
  BY <1>1, <1>2, <1>3
<1>5. l + k \in 0 .. Sectors - 1 /\ l + k \in 0 .. LbaMod - 1
  BY <1>1, <1>2, <1>3
<1>6. (l + k) % LbaMod = l + k
  BY <1>3, <1>5
<1>. QED BY <1>1, <1>4, <1>5, <1>6 DEF l, n, k, Places

(* A turn goes on to the poll. *)
LEMMA TurnDrv ==
  ASSUME IInv, drv.pc = "sector", drv.k < drv.req.sectors,
         drv' = [drv EXCEPT !.pc = "poll", !.k = @ + 1]
  PROVE  /\ drv' \in DrvType /\ drv'.pc = "poll" /\ drv'.then = "sector" /\ drv'.k = drv.k + 1
         /\ drv'.who = drv.who /\ drv'.req = drv.req /\ drv'.cspace = drv.cspace
         /\ drv'.failed = drv.failed /\ ChannelInUse' = ChannelOf(drv.req.drive)
<1>1. drv \in DrvType /\ drv.then = "sector" /\ drv.k + 1 \in Nat
  BY TurnNumbers, ServingQuiet DEF IInv, TypeOK
<1>2. /\ drv' \in DrvType /\ drv'.pc = "poll" /\ drv'.then = "sector" /\ drv'.k = drv.k + 1
      /\ drv'.who = drv.who /\ drv'.req = drv.req /\ drv'.cspace = drv.cspace
      /\ drv'.failed = drv.failed
  BY <1>1 DEF DrvType
<1>. QED BY <1>2 DEF ChannelInUse

(* How things stand after a turn, with y in the registers. *)
AfterTurn(y, ch, w) ==
  /\ dev' \in DevType /\ dev'[ch] = y /\ BusyAlone' /\ Works1'
  /\ Loaded(y)' /\ Wants(y, w)' /\ (Working(ch)' <=> w)
  /\ w <=> ~dev[ch].err
  /\ w => dev[ch].pos = drv.k

(* The registers after a turn: the drive has the next sector to move, or    *)
(* nothing happens to it.                                                   *)
Turned(y, x, w) ==
  /\ w => y.lag /\ y.pos = x.pos + 1
  /\ ~w => ~y.lag /\ y.pos = x.pos
  /\ ~y.busy /\ y.drq = x.drq /\ y.err = x.err /\ y.sel = x.sel
  /\ y.lba = x.lba /\ y.count = x.count /\ y.cmd = x.cmd

LEMMA TurnDev ==
  ASSUME IInv, drv.pc = "sector", drv.k < drv.req.sectors, NEW y \in Registers, NEW ch,
         NEW w \in BOOLEAN, w = dev[ch].drq, ch = ChannelOf(drv.req.drive), dev' = [dev EXCEPT ![ch] = y],
         drv' = [drv EXCEPT !.pc = "poll", !.k = @ + 1],
         Turned(y, dev[ch], w)
  PROVE  AfterTurn(y, ch, w)
<1>0. /\ w => y.lag /\ y.pos = dev[ch].pos + 1
      /\ ~w => ~y.lag /\ y.pos = dev[ch].pos
      /\ ~y.busy /\ y.drq = dev[ch].drq /\ y.err = dev[ch].err /\ y.sel = dev[ch].sel
      /\ y.lba = dev[ch].lba /\ y.count = dev[ch].count /\ y.cmd = dev[ch].cmd
  BY DEF Turned
<1>1. /\ ch \in Channel /\ dev \in DevType /\ dev[ch] \in Registers
      /\ drv.req.type \in {"read", "write"}
      /\ \A c \in Channel : ~dev[c].lag /\ (Working(c) => dev[c].cmd = "flush")
  BY ServingQuiet DEF IInv, TypeOK, DevType, Sound
<1>2. Loaded(dev[ch]) /\ Wants(dev[ch], FALSE) /\ Same(dev[ch], FALSE)
  BY SectorQuiet
<1>3. /\ drv' \in DrvType /\ drv'.pc = "poll" /\ drv'.then = "sector" /\ drv'.k = drv.k + 1
      /\ drv'.who = drv.who /\ drv'.req = drv.req /\ drv'.cspace = drv.cspace
      /\ drv'.failed = drv.failed /\ ChannelInUse' = ch
  BY TurnDrv
<1>4. drv.k \in Nat /\ drv.req.sectors \in Nat /\ drv.k + 1 <= drv.req.sectors
  BY TurnNumbers
<1>5. dev[ch].pos \in Nat /\ dev[ch].count = drv.req.sectors /\ dev[ch].pos <= drv.k
  BY <1>1, <1>2 DEF Registers, Loaded
<1>6. dev[ch].err => ~dev[ch].drq /\ drv.failed
  BY <1>2 DEF Wants
<1>7. ~dev[ch].err => dev[ch].drq /\ dev[ch].pos = drv.k
  <2>1. ~dev[ch].err => dev[ch].pos = drv.k /\ (dev[ch].drq <=> dev[ch].pos < dev[ch].count)
    BY <1>2 DEF Wants, Same
  <2>2. drv.k < drv.req.sectors
    OBVIOUS
  <2>. QED BY <1>5, <2>1, <2>2
<1>8. dev' \in DevType /\ dev'[ch] = y /\ \A c \in Channel : c # ch => dev'[c] = dev[c]
  BY <1>1, DevSet
<1>9. BusyAlone'
  BY <1>0, <1>8 DEF IInv, BusyAlone
<1>10. Works1'
  BY <1>0, <1>1, <1>2, <1>3, <1>8 DEF Works1, Working, Loaded
<1>11. Loaded(y)'
  <2>1. y.pos <= drv.k + 1
    BY <1>0, <1>4, <1>5
  <2>. QED BY <1>0, <1>2, <1>3, <1>4, <2>1 DEF Loaded
<1>12. Wants(y, w)'
  BY <1>0, <1>3, <1>6, <1>7 DEF Wants
<1>13. Working(ch)' <=> w
  BY <1>0, <1>8 DEF Working
<1>. QED BY <1>0, <1>6, <1>7, <1>8, <1>9, <1>10, <1>11, <1>12, <1>13 DEF AfterTurn

(* A sector is read. *)
LEMMA ReadStep ==
  ASSUME IInv, ide_pio_read
  PROVE  IInv'
<1>0. PICK ch \in Channel : ch = ChannelOf(drv.req.drive)
  BY ServingQuiet DEF ide_pio_read
<1>1. /\ drv.pc = "sector" /\ drv.req.type = "read" /\ drv.k < drv.req.sectors
      /\ ChannelInUse = ch /\ drv.who \in User /\ drv.req.drive \in Drive
      /\ Serving /\ drv.then = "sector"
  BY <1>0, ServingQuiet DEF ide_pio_read
<1>. DEFINE v == IF dev[ch].drq THEN disk[SelectedOn(ch)][(dev[ch].lba + dev[ch].pos) % LbaMod] ELSE -1
<1>2. /\ page' = [page EXCEPT ![drv.who][drv.k] = v]
      /\ dev' = [dev EXCEPT ![ch] = Moved(ch)]
      /\ drv' = [drv EXCEPT !.pc = "poll", !.k = @ + 1]
      /\ UNCHANGED <<client, exists, disk, errors>>
  BY <1>1 DEF ide_pio_read
<1>3. /\ dev[ch] \in Registers /\ page \in [User -> [Places -> Int]]
      /\ disk \in [Drive -> [0 .. Sectors - 1 -> Int]]
  BY DEF IInv, TypeOK, DevType
<1>4. /\ ~dev[ch].lag /\ ~dev[ch].busy /\ Loaded(dev[ch]) /\ Same(dev[ch], FALSE)
      /\ SelectedOn(ch) = drv.req.drive
  BY <1>0, <1>1, ServingQuiet, SectorQuiet
<1>5. PICK w \in BOOLEAN : w = dev[ch].drq
  BY <1>3 DEF Registers
<1>6. PICK y \in Registers :
        y = Moved(ch) /\ Turned(y, dev[ch], w)
  <2>1. CASE w
    <3>. DEFINE z == [dev[ch] EXCEPT !.pos = @ + 1, !.lag = TRUE]
    <3>1. dev[ch].pos + 1 \in Nat
      BY <1>3 DEF Registers
    <3>2. /\ z \in Registers /\ z.lag /\ z.pos = dev[ch].pos + 1
          /\ ~z.busy /\ z.drq = dev[ch].drq /\ z.err = dev[ch].err /\ z.sel = dev[ch].sel
          /\ z.lba = dev[ch].lba /\ z.count = dev[ch].count /\ z.cmd = dev[ch].cmd
      BY <1>3, <1>4, <3>1, ZenonT(30) DEF Registers
    <3>3. z = Moved(ch)
      BY <1>5, <2>1 DEF Moved
    <3>. HIDE DEF z
    <3>. QED BY <2>1, <3>2, <3>3 DEF Turned
  <2>2. CASE ~w
    BY <1>3, <1>4, <1>5, <2>2 DEF Moved, Turned
  <2>. QED BY <2>1, <2>2
<1>7. /\ dev' \in DevType /\ dev'[ch] = y /\ BusyAlone' /\ Works1'
      /\ Loaded(y)' /\ Wants(y, w)' /\ (Working(ch)' <=> w)
      /\ w <=> ~dev[ch].err
      /\ w => dev[ch].pos = drv.k
  <2>1. dev' = [dev EXCEPT ![ch] = y]
    BY <1>2, <1>6
  <2>2. /\ drv.pc = "sector" /\ drv.k < drv.req.sectors
        /\ drv' = [drv EXCEPT !.pc = "poll", !.k = @ + 1]
    BY <1>1, <1>2
  <2>3. y \in Registers /\ Turned(y, dev[ch], w)
    BY <1>6
  <2>4. AfterTurn(y, ch, w)
    BY <1>0, <1>5, <2>1, <2>2, <2>3, TurnDev
  <2>. QED BY <2>4 DEF AfterTurn
<1>8. /\ drv' \in DrvType /\ drv'.pc = "poll" /\ drv'.then = "sector" /\ drv'.k = drv.k + 1
      /\ drv'.who = drv.who /\ drv'.req = drv.req /\ drv'.cspace = drv.cspace
      /\ drv'.failed = drv.failed
  BY <1>1, <1>2, TurnDrv
<1>9. /\ drv.k \in Nat /\ drv.k \in Places /\ drv.req.location + drv.k \in 0 .. Sectors - 1
      /\ (drv.req.location + drv.k) % LbaMod = drv.req.location + drv.k
  BY <1>1, TurnNumbers
<1>10. w => v = disk[drv.req.drive][drv.req.location + drv.k]
  BY <1>4, <1>5, <1>7, <1>9 DEF Loaded
<1>11. ~w => v = -1
  BY <1>5
<1>. HIDE DEF v
<1>v. v \in Int
  <2>1. disk[drv.req.drive][drv.req.location + drv.k] \in Int
    BY <1>1, <1>3, <1>9
  <2>. QED BY <1>10, <1>11, <2>1
<1>12. /\ page' \in [User -> [Places -> Int]] /\ page'[drv.who][drv.k] = v
       /\ \A j \in Places : j # drv.k => page'[drv.who][j] = page[drv.who][j]
  BY <1>1, <1>2, <1>3, <1>9, <1>v
<1>13. Same(y, w)'
  <2>1. CASE ~w
    BY <1>6, <1>7, <2>1 DEF Same, Turned
  <2>2. CASE w
    <3>1. y.pos = drv.k + 1 /\ ~dev[ch].err
      BY <1>6, <1>7, <2>2 DEF Turned
    <3>2. ASSUME NEW j \in 0 .. drv.k
          PROVE  page'[drv.who][j] = disk[drv.req.drive][drv.req.location + j]
      <4>1. CASE j = drv.k
        BY <1>10, <1>12, <2>2, <4>1
      <4>2. CASE j # drv.k
        <5>1. j \in 0 .. drv.k - 1 /\ j \in Places
          BY <1>9, <3>2, <4>2, SizeAssumption DEF Places
        <5>2. OnDisk(j)
          BY <1>4, <3>1, <5>1 DEF Same
        <5>. QED BY <1>12, <4>2, <5>1, <5>2 DEF OnDisk
      <4>. QED BY <4>1, <4>2
    <3>3. drv'.k - 1 = drv.k /\ drv'.req.type # "write" /\ y.pos = drv'.k
      BY <1>1, <1>8, <1>9, <3>1
    <3>4. \A j \in 0 .. drv'.k - 1 : OnDisk(j)'
      BY <1>2, <1>8, <3>2, <3>3 DEF OnDisk
    <3>. QED BY <3>3, <3>4, Zenon DEF Same
  <2>. QED BY <2>1, <2>2
<1>14. Transfer'
  <2>1. (dev[ChannelOf(drv.req.drive)])' = y /\ (Working(ChannelOf(drv.req.drive))' <=> w)
    BY <1>0, <1>7, <1>8
  <2>. QED BY <1>7, <1>13, <2>1, TransferIs
<1>. QED BY <1>1, <1>2, <1>7, <1>8, <1>12, <1>14, AccessFrame

(* A sector is written. *)
LEMMA WriteStep ==
  ASSUME IInv, ide_pio_write
  PROVE  IInv'
<1>0. PICK ch \in Channel : ch = ChannelOf(drv.req.drive)
  BY ServingQuiet DEF ide_pio_write
<1>1. /\ drv.pc = "sector" /\ drv.req.type = "write" /\ drv.k < drv.req.sectors
      /\ ChannelInUse = ch /\ drv.who \in User /\ Serving /\ drv.then = "sector"
  BY <1>0, ServingQuiet DEF ide_pio_write
<1>2. /\ dev' = [dev EXCEPT ![ch] = [Moved(ch) EXCEPT !.buf = page[drv.who][drv.k]]]
      /\ drv' = [drv EXCEPT !.pc = "poll", !.k = @ + 1]
      /\ UNCHANGED <<client, page, exists, disk, errors>>
  BY <1>1 DEF ide_pio_write
<1>3. dev[ch] \in Registers /\ page \in [User -> [Places -> Int]]
  BY DEF IInv, TypeOK, DevType
<1>4. /\ ~dev[ch].lag /\ ~dev[ch].busy /\ Loaded(dev[ch]) /\ Same(dev[ch], FALSE)
  BY <1>0, <1>1, ServingQuiet, SectorQuiet
<1>5. PICK w \in BOOLEAN : w = dev[ch].drq
  BY <1>3 DEF Registers
<1>6. /\ drv.k \in Nat /\ drv.k \in Places
  BY <1>1, TurnNumbers
<1>7. page[drv.who][drv.k] \in Int
  BY <1>1, <1>3, <1>6
<1>8. PICK y \in Registers :
        /\ y = [Moved(ch) EXCEPT !.buf = page[drv.who][drv.k]] /\ y.buf = page[drv.who][drv.k]
        /\ Turned(y, dev[ch], w)
  <2>. DEFINE z == Moved(ch)
  <2>1. /\ z \in Registers
        /\ (w => z.lag /\ z.pos = dev[ch].pos + 1) /\ (~w => ~z.lag /\ z.pos = dev[ch].pos)
        /\ ~z.busy /\ z.drq = dev[ch].drq /\ z.err = dev[ch].err /\ z.sel = dev[ch].sel
        /\ z.lba = dev[ch].lba /\ z.count = dev[ch].count /\ z.cmd = dev[ch].cmd
    <3>1. CASE w
      <4>. DEFINE u == [dev[ch] EXCEPT !.pos = @ + 1, !.lag = TRUE]
      <4>1. dev[ch].pos + 1 \in Nat
        BY <1>3 DEF Registers
      <4>2. /\ u \in Registers /\ u.lag /\ u.pos = dev[ch].pos + 1
            /\ ~u.busy /\ u.drq = dev[ch].drq /\ u.err = dev[ch].err /\ u.sel = dev[ch].sel
            /\ u.lba = dev[ch].lba /\ u.count = dev[ch].count /\ u.cmd = dev[ch].cmd
        BY <1>3, <1>4, <4>1, ZenonT(30) DEF Registers
      <4>3. u = Moved(ch)
        BY <1>5, <3>1 DEF Moved
      <4>. HIDE DEF u
      <4>. QED BY <3>1, <4>2, <4>3
    <3>2. CASE ~w
      BY <1>3, <1>4, <1>5, <3>2 DEF Moved
    <3>. QED BY <3>1, <3>2
  <2>. HIDE DEF z
  <2>. DEFINE b == page[drv.who][drv.k]
              x == [z EXCEPT !.buf = b]
  <2>2. b \in Int
    BY <1>7
  <2>. HIDE DEF b
  <2>3. /\ x \in Registers /\ x.buf = b /\ x.lag = z.lag /\ x.pos = z.pos
        /\ x.busy = z.busy /\ x.drq = z.drq /\ x.err = z.err /\ x.sel = z.sel
        /\ x.lba = z.lba /\ x.count = z.count /\ x.cmd = z.cmd
    BY <2>1, <2>2, ZenonT(30) DEF Registers
  <2>4. x = [Moved(ch) EXCEPT !.buf = page[drv.who][drv.k]]
    BY DEF z, b
  <2>. HIDE DEF x
  <2>5. x.buf = page[drv.who][drv.k] /\ Turned(x, dev[ch], w)
    BY <2>1, <2>3 DEF b, Turned
  <2>. QED BY <2>3, <2>4, <2>5
<1>9. /\ dev' \in DevType /\ dev'[ch] = y /\ BusyAlone' /\ Works1'
      /\ Loaded(y)' /\ Wants(y, w)' /\ (Working(ch)' <=> w)
      /\ w <=> ~dev[ch].err
      /\ w => dev[ch].pos = drv.k
  <2>1. dev' = [dev EXCEPT ![ch] = y]
    BY <1>2, <1>8
  <2>2. /\ drv.pc = "sector" /\ drv.k < drv.req.sectors
        /\ drv' = [drv EXCEPT !.pc = "poll", !.k = @ + 1]
    BY <1>1, <1>2
  <2>3. y \in Registers /\ Turned(y, dev[ch], w)
    BY <1>8
  <2>4. AfterTurn(y, ch, w)
    BY <1>0, <1>5, <2>1, <2>2, <2>3, TurnDev
  <2>. QED BY <2>4 DEF AfterTurn
<1>10. /\ drv' \in DrvType /\ drv'.pc = "poll" /\ drv'.then = "sector" /\ drv'.k = drv.k + 1
       /\ drv'.who = drv.who /\ drv'.req = drv.req /\ drv'.cspace = drv.cspace
       /\ drv'.failed = drv.failed
  BY <1>1, <1>2, TurnDrv
<1>11. Same(y, w)'
  <2>1. CASE ~w
    BY <1>8, <1>9, <2>1 DEF Same, Turned
  <2>2. CASE w
    <3>1. y.pos = drv.k + 1 /\ ~dev[ch].err /\ y.buf = page[drv.who][drv.k]
      BY <1>8, <1>9, <2>2 DEF Turned
    <3>2. \A j \in 0 .. drv.k - 1 : OnDisk(j)
      BY <1>4, <3>1 DEF Same
    <3>3. drv'.k - 1 = drv.k /\ \A j \in 0 .. drv.k : j = drv.k \/ j \in 0 .. drv.k - 1
      BY <1>6, <1>10
    <3>4. \A j \in 0 .. drv'.k - 1 : IF j = drv'.k - 1 THEN y.buf = page'[drv'.who][j]
                                     ELSE OnDisk(j)'
      BY <1>2, <1>10, <3>1, <3>2, <3>3 DEF OnDisk
    <3>5. drv'.req.type = "write" /\ y.pos = drv'.k
      BY <1>1, <1>10, <3>1
    <3>. QED BY <2>2, <3>4, <3>5, Zenon DEF Same
  <2>. QED BY <2>1, <2>2
<1>12. Transfer'
  <2>1. (dev[ChannelOf(drv.req.drive)])' = y /\ (Working(ChannelOf(drv.req.drive))' <=> w)
    BY <1>0, <1>9, <1>10
  <2>. QED BY <1>9, <1>11, <2>1, TransferIs
<1>. QED BY <1>1, <1>2, <1>3, <1>9, <1>10, <1>12, AccessFrame

(* The end of an access. *)
LEMMA EndStep ==
  ASSUME IInv, EndAccess
  PROVE  IInv'
<1>0. PICK ch \in Channel : ch = ChannelOf(drv.req.drive)
  BY ServingQuiet DEF EndAccess
<1>1. /\ drv.pc = "sector" /\ drv.k = drv.req.sectors /\ drv' = AfterAccess
      /\ dev' = IF drv.req.type = "write"
                THEN [dev EXCEPT ![ch] = Written(ch, Commanded(dev[ch], ch, "flush"))] ELSE dev
      /\ UNCHANGED <<client, page, exists, disk, errors>>
  BY <1>0, ServingQuiet DEF EndAccess
<1>2. /\ drv.then = "sector" /\ Serving /\ Sound(drv.req) /\ drv.req \in Request
      /\ 2 * ch + Select(drv.req.drive) = drv.req.drive /\ drv.who \in User
      /\ \A c \in Channel : ~dev[c].lag /\ (Working(c) => dev[c].cmd = "flush")
  BY <1>0, <1>1, ServingQuiet
<1>3. /\ ~dev[ch].busy /\ ~Working(ch)
      /\ Loaded(dev[ch]) /\ Wants(dev[ch], FALSE) /\ Same(dev[ch], FALSE)
  BY <1>0, <1>1, SectorQuiet
<1>4. dev \in DevType /\ dev[ch] \in Registers /\ drv \in DrvType
  BY DEF IInv, TypeOK, DevType
<1>5. /\ dev' \in DevType
      /\ \A c \in Channel : Working(c)' => dev'[c].cmd = "flush"
      /\ drv.req.type # "write" => dev' = dev
      /\ BusyAlone'
  <2>1. CASE drv.req.type = "write"
    <3>. DEFINE z == [dev[ch] EXCEPT !.cmd = "flush", !.pos = 0, !.lag = TRUE]
    <3>1. z \in Registers /\ z.lag /\ ~z.busy /\ z.cmd = "flush"
      <4>1. 0 \in Nat
        OBVIOUS
      <4>. QED BY <1>3, <1>4, <4>1, ZenonT(30) DEF Registers, Cmd
    <3>2. Written(ch, Commanded(dev[ch], ch, "flush")) = z
      BY <1>2, <1>3 DEF Written, Commanded, Loaded, Sound
    <3>. HIDE DEF z
    <3>3. dev' \in DevType /\ dev'[ch] = z /\ \A c \in Channel : c # ch => dev'[c] = dev[c]
      BY <1>1, <1>4, <2>1, <3>1, <3>2, DevSet
    <3>4. BusyAlone'
      BY <3>1, <3>3 DEF IInv, BusyAlone
    <3>. QED BY <1>2, <2>1, <3>1, <3>3, <3>4 DEF Working
  <2>2. CASE drv.req.type # "write"
    BY <1>1, <1>2, <1>4, <2>2 DEF Working, IInv, BusyAlone
  <2>. QED BY <2>1, <2>2
<1>6. CASE drv.who # Boot
  <2>1. drv' = [drv EXCEPT !.pc = "answer", !.ok = TRUE]
    BY <1>1, <1>6 DEF AfterAccess
  <2>2. /\ drv' \in DrvType /\ drv'.pc = "answer" /\ drv'.ok /\ drv'.then = "sector"
        /\ drv'.who = drv.who /\ drv'.req = drv.req /\ drv'.cspace = drv.cspace
        /\ drv'.failed = drv.failed
    BY <1>2, <1>4, <2>1 DEF DrvType
  <2>3. ~Moving' /\ ~Serving'
    BY <2>2 DEF Moving, Serving
  <2>4. TypeOK'
    BY <1>1, <1>5, <2>2 DEF IInv, TypeOK
  <2>5. Stages' /\ Asked' /\ Served'
    BY <1>1, <2>2, <2>3 DEF IInv, Stages, Asked, Served
  <2>6. Users'
    BY <1>1, <1>2, <1>6, <2>2, <2>3 DEF IInv, Users
  <2>7. Works1'
    BY <1>5, <2>2 DEF Works1
  <2>8. Identified' /\ Transfer'
    BY <2>2, <2>3 DEF Identified, Transfer
  <2>9. ExistsRight'
    BY <1>1, <1>2, <2>2 DEF IInv, ExistsRight
  <2>10. Answered'
    <3>1. ~drv.failed => ~dev[ch].err
      BY <1>3 DEF Wants
    <3>2. ~drv.failed => \A j \in 0 .. drv.req.sectors - 1 : OnDisk(j)
      BY <1>1, <1>3, <3>1 DEF Same
    <3>. QED BY <1>1, <1>2, <2>2, <3>2 DEF Answered, OnDisk, Sound
  <2>. QED BY <1>5, <2>4, <2>5, <2>6, <2>7, <2>8, <2>9, <2>10 DEF IInv
<1>7. CASE drv.who = Boot /\ drv.req = TestRead
  <2>1. drv' = [drv EXCEPT !.pc = "ready", !.req = TestWrite]
    BY <1>1, <1>7 DEF AfterAccess
  <2>2. TestWrite \in Request /\ Sound(TestWrite)
    <3>1. 0 \in Drive /\ Kind[0] = "ata"
      BY <1>2, <1>7 DEF Drive, TestRead, Sound
    <3>2. 2 \in 1 .. PageSectors /\ 2 <= CountMod /\ TestSector + 2 <= Sectors /\ TestSector \in Nat
      BY SizeAssumption
    <3>. QED BY <3>1, <3>2 DEF TestWrite, Request, Sound
  <2>3. /\ drv' \in DrvType /\ drv'.pc = "ready" /\ drv'.req = TestWrite
        /\ drv'.then = "sector" /\ drv'.who = drv.who /\ drv'.cspace = drv.cspace
    BY <1>2, <1>4, <2>1, <2>2 DEF DrvType
  <2>4. dev' = dev
    <3>1. drv.req.type = "read"
      BY <1>7 DEF TestRead
    <3>. QED BY <1>5, <3>1
  <2>5. ~Moving' /\ Serving'
    BY <2>3 DEF Moving, Serving
  <2>6. TypeOK'
    BY <1>1, <1>5, <2>3 DEF IInv, TypeOK
  <2>7. Stages' /\ Asked' /\ Served'
    BY <1>1, <2>2, <2>3, <2>5 DEF IInv, Stages, Asked, Served
  <2>8. Users'
    BY <1>1, <1>2, <1>7, <2>3, <2>5 DEF IInv, Users
  <2>9. Works1'
    BY <1>2, <1>5, <2>3, <2>4 DEF Works1
  <2>10. Identified' /\ Transfer' /\ Answered'
    BY <2>3, <2>5 DEF Identified, Transfer, Answered
  <2>11. ExistsRight'
    BY <1>1, <1>2, <2>3 DEF IInv, ExistsRight
  <2>. QED BY <1>5, <2>6, <2>7, <2>8, <2>9, <2>10, <2>11 DEF IInv
<1>8. CASE drv.who = Boot /\ drv.req # TestRead
  <2>1. drv' = [drv EXCEPT !.pc = "port", !.failed = FALSE]
    BY <1>1, <1>8 DEF AfterAccess
  <2>2. /\ drv' \in DrvType /\ drv'.pc = "port"
        /\ drv'.then = "sector" /\ drv'.who = drv.who /\ drv'.cspace = drv.cspace
    BY <1>2, <1>4, <2>1 DEF DrvType
  <2>3. ~Moving' /\ ~Serving'
    BY <2>2 DEF Moving, Serving
  <2>4. TypeOK'
    BY <1>1, <1>5, <2>2 DEF IInv, TypeOK
  <2>5. Stages' /\ Asked' /\ Served'
    BY <1>1, <2>2, <2>3 DEF IInv, Stages, Asked, Served
  <2>6. Users'
    BY <1>1, <1>2, <1>8, <2>2, <2>3 DEF IInv, Users
  <2>7. Works1'
    BY <1>5, <2>2 DEF Works1
  <2>8. Identified' /\ Transfer' /\ Answered'
    BY <2>2, <2>3 DEF Identified, Transfer, Answered
  <2>9. ExistsRight'
    BY <1>1, <1>2, <2>2 DEF IInv, ExistsRight
  <2>. QED BY <1>5, <2>4, <2>5, <2>6, <2>7, <2>8, <2>9 DEF IInv
<1>. QED BY <1>6, <1>7, <1>8

-----------------------------------------------------------------------------
(* Clients and main. *)

(* What a meeting of a client with main has to keep. *)
LEMMA MeetFrame ==
  ASSUME IInv, drv.then = "sector", drv' \in DrvType, drv'.then = "sector",
         drv.pc \in {"port", "request", "buffer", "answer"},
         drv'.pc \in {"port", "request", "buffer", "ready", "answer"},
         client' \in ClientType, UNCHANGED <<page, exists, dev, disk>>,
         drv'.pc \in {"port", "answer"} \/ \A ch \in Channel : ~dev[ch].lag,
         Asked', Users', Served', Answered'
  PROVE  IInv'
<1>1. ~Moving'
  BY DEF Moving
<1>2. TypeOK' /\ Stages' /\ BusyAlone'
  BY DEF IInv, TypeOK, Stages, BusyAlone
<1>3. Works1'
  BY DEF IInv, Works1, Working
<1>4. Identified' /\ Transfer'
  BY <1>1 DEF Identified, Transfer
<1>5. ExistsRight'
  BY DEF IInv, ExistsRight
<1>. QED BY <1>2, <1>3, <1>4, <1>5 DEF IInv

(* A client begins a request. *)
LEMMA BlockStep ==
  ASSUME IInv, NEW c \in Client, NEW req \in Requests, NEW data \in Data, block_access(c, req, data)
  PROVE  IInv'
<1>. DEFINE z == [pc |-> "temp", req |-> req, calls |-> client[c].calls + 1, error |-> FALSE]
<1>1. /\ client[c].pc = "idle" /\ client' = [client EXCEPT ![c] = z]
      /\ page' = IF req.type = "write" THEN [page EXCEPT ![c] = data] ELSE page
      /\ UNCHANGED <<drv, exists, dev, disk, errors>>
  BY DEF block_access
<1>2. /\ client \in ClientType /\ page \in [User -> [Places -> Int]] /\ c \in User
      /\ client[c].calls + 1 \in Nat
  BY DEF IInv, TypeOK, ClientType, User
<1>3. req \in Request /\ data \in [Places -> Int]
  BY RequestAssumption, DataAssumption, SizeAssumption DEF Request, Places
<1>4. z.pc = "temp" /\ z.req = req
      /\ z \in [pc : {"idle", "temp", "request", "grant", "wait"}, req : Request,
                calls : Nat, error : BOOLEAN]
  BY <1>2, <1>3
<1>. HIDE DEF z
<1>5. client' \in ClientType /\ client'[c] = z /\ \A x \in Client : x # c => client'[x] = client[x]
  BY <1>1, <1>2, <1>4 DEF ClientType
<1>6. page' \in [User -> [Places -> Int]] /\ \A x \in User : x # c => page'[x] = page[x]
  BY <1>1, <1>2, <1>3
<1>7. /\ drv.pc \in {"request", "buffer", "answer"} \/ Serving => drv.who # c
      /\ drv.who \in User
  BY <1>1, SizeAssumption DEF IInv, Users, TypeOK, DrvType
<1>8. TypeOK'
  BY <1>1, <1>5, <1>6 DEF IInv, TypeOK
<1>9. Stages' /\ Served' /\ BusyAlone' /\ ExistsRight'
  BY <1>1 DEF IInv, Stages, Served, Serving, Moving, BusyAlone, ExistsRight
<1>10. Asked'
  BY <1>4, <1>5 DEF IInv, Asked
<1>11. (Serving' <=> Serving) /\ (Moving' <=> Moving)
  BY <1>1 DEF Serving, Moving
<1>12. Users'
  BY <1>1, <1>5, <1>7, <1>11 DEF IInv, Users
<1>13. Works1' /\ Identified'
  BY <1>1 DEF IInv, Works1, Identified, Working, ChannelInUse
<1>14. Transfer'
  <2>1. Moving => page'[drv.who] = page[drv.who]
    BY <1>6, <1>7 DEF Serving
  <2>. QED BY <1>1, <1>11, <2>1 DEF IInv, Transfer, Loaded, Wants, Same, OnDisk, Working
<1>15. Answered'
  BY <1>1, <1>6, <1>7 DEF IInv, Answered, OnDisk
<1>. QED BY <1>8, <1>9, <1>10, <1>12, <1>13, <1>14, <1>15 DEF IInv

(* A client's program counter moves. *)
LEMMA ClientMoves ==
  ASSUME client \in ClientType, NEW c \in Client,
         NEW pc \in {"idle", "temp", "request", "grant", "wait"},
         client' = [client EXCEPT ![c].pc = pc]
  PROVE  /\ client' \in ClientType /\ client'[c].pc = pc /\ client'[c].req = client[c].req
         /\ \A x \in Client : x # c => client'[x] = client[x]
BY DEF ClientType

(* main takes a temporary endpoint. *)
LEMMA TempStep ==
  ASSUME IInv, NEW c \in Client, TakeTemp(c)
  PROVE  IInv'
<1>1. /\ client[c].pc = "temp" /\ drv.pc = "port" /\ \A ch \in Channel : ~dev[ch].lag
      /\ client' = [client EXCEPT ![c].pc = "request"]
      /\ drv' = [drv EXCEPT !.pc = "request", !.who = c, !.cspace = @ \cup {<<c, "endpoint">>}]
      /\ UNCHANGED <<page, exists, dev, disk, errors>>
  BY DEF TakeTemp
<1>2. client \in ClientType /\ drv \in DrvType /\ drv.cspace = {} /\ drv.then = "sector"
  BY <1>1 DEF IInv, TypeOK, Users, Stages
<1>3. /\ client' \in ClientType /\ client'[c].pc = "request" /\ client'[c].req = client[c].req
      /\ \A x \in Client : x # c => client'[x] = client[x]
  BY <1>1, <1>2, ClientMoves
<1>4. drv.cspace \cup {<<c, "endpoint">>} \in SUBSET (Client \X {"endpoint", "buffer"})
  BY <1>2
<1>5. /\ drv' \in DrvType /\ drv'.pc = "request" /\ drv'.who = c /\ drv'.then = "sector"
      /\ drv'.cspace = drv.cspace \cup {<<c, "endpoint">>}
  BY <1>1, <1>2, <1>4 DEF DrvType, User
<1>6. drv'.cspace = {<<c, "endpoint">>}
  BY <1>2, <1>5
<1>7. ~Serving' /\ Served' /\ Answered'
  BY <1>5 DEF Serving, Moving, Served, Answered
<1>8. Asked'
  BY <1>1, <1>3 DEF IInv, Asked
<1>9. Users'
  BY <1>3, <1>5, <1>6, <1>7 DEF Users
<1>. QED BY <1>1, <1>2, <1>3, <1>5, <1>7, <1>8, <1>9, MeetFrame

(* main takes a request, or drops one it does not know. *)
LEMMA RequestStep ==
  ASSUME IInv, NEW c \in Client, TakeRequest(c)
  PROVE  IInv'
<1>. DEFINE known == client[c].req.type \in {"read", "write"}
<1>1. /\ client[c].pc = "request" /\ drv.pc = "request" /\ drv.who = c
      /\ client' = [client EXCEPT ![c].pc = IF known THEN "grant" ELSE "idle"]
      /\ drv' = IF known THEN [drv EXCEPT !.pc = "buffer", !.req = client[c].req]
                ELSE [drv EXCEPT !.pc = "port", !.cspace = @ \ {<<c, "endpoint">>}]
      /\ UNCHANGED <<page, exists, dev, disk, errors>>
  BY DEF TakeRequest
<1>2. /\ client \in ClientType /\ drv \in DrvType /\ drv.then = "sector"
      /\ drv.cspace = {<<c, "endpoint">>} /\ \A ch \in Channel : ~dev[ch].lag
  BY <1>1 DEF IInv, TypeOK, Users, Stages, Works1
<1>3. client[c].req \in Requests /\ client[c].req \in Request
  BY <1>1, <1>2 DEF IInv, Asked, ClientType
<1>4. CASE known
  <2>1. /\ client' = [client EXCEPT ![c].pc = "grant"]
        /\ drv' = [drv EXCEPT !.pc = "buffer", !.req = client[c].req]
    BY <1>1, <1>4
  <2>2. /\ client' \in ClientType /\ client'[c].pc = "grant" /\ client'[c].req = client[c].req
        /\ \A x \in Client : x # c => client'[x] = client[x]
    BY <1>2, <2>1, ClientMoves
  <2>3. /\ drv' \in DrvType /\ drv'.pc = "buffer" /\ drv'.who = c /\ drv'.then = "sector"
        /\ drv'.req = client[c].req /\ drv'.cspace = {<<c, "endpoint">>}
    BY <1>1, <1>2, <1>3, <2>1 DEF DrvType
  <2>4. ~Serving' /\ Served' /\ Answered'
    BY <2>3 DEF Serving, Moving, Served, Answered
  <2>5. Asked'
    BY <1>1, <2>2 DEF IInv, Asked
  <2>6. Users'
    BY <1>3, <1>4, <2>2, <2>3, <2>4 DEF Users
  <2>. QED BY <1>1, <1>2, <2>2, <2>3, <2>4, <2>5, <2>6, MeetFrame
<1>5. CASE ~known
  <2>1. /\ client' = [client EXCEPT ![c].pc = "idle"]
        /\ drv' = [drv EXCEPT !.pc = "port", !.cspace = @ \ {<<c, "endpoint">>}]
    BY <1>1, <1>5
  <2>2. /\ client' \in ClientType /\ client'[c].pc = "idle"
        /\ \A x \in Client : x # c => client'[x] = client[x]
    BY <1>2, <2>1, ClientMoves
  <2>3. drv.cspace \ {<<c, "endpoint">>} = {}
    BY <1>2
  <2>4. /\ drv' \in DrvType /\ drv'.pc = "port" /\ drv'.then = "sector" /\ drv'.cspace = {}
    BY <1>2, <2>1, <2>3 DEF DrvType
  <2>5. ~Serving' /\ Served' /\ Answered'
    BY <2>4 DEF Serving, Moving, Served, Answered
  <2>6. Asked'
    BY <1>1, <2>2 DEF IInv, Asked
  <2>7. Users'
    BY <2>4, <2>5 DEF Users
  <2>. QED BY <1>1, <1>2, <2>2, <2>4, <2>5, <2>6, <2>7, MeetFrame
<1>. QED BY <1>4, <1>5

(* main takes the page; a drive that is not there is answered at once. *)
LEMMA HandleStep ==
  ASSUME IInv, NEW c \in Client, ata_handle_access(c)
  PROVE  IInv'
<1>1. /\ client[c].pc = "grant" /\ drv.pc = "buffer" /\ drv.who = c
      /\ client' = [client EXCEPT ![c].pc = "wait"]
      /\ drv' = [drv EXCEPT !.cspace = @ \cup {<<c, "buffer">>}, !.failed = FALSE, !.ok = FALSE,
                            !.pc = IF exists[drv.req.drive] THEN "ready" ELSE "answer"]
      /\ UNCHANGED <<page, exists, dev, disk, errors>>
  BY DEF ata_handle_access
<1>2. /\ client \in ClientType /\ drv \in DrvType /\ drv.then = "sector"
      /\ drv.cspace = {<<c, "endpoint">>} /\ \A ch \in Channel : ~dev[ch].lag
      /\ drv.req \in Requests /\ drv.req.type \in {"read", "write"} /\ c # Boot
  BY <1>1, SizeAssumption DEF IInv, TypeOK, Users, Stages, Works1
<1>3. /\ client' \in ClientType /\ client'[c].pc = "wait" /\ client'[c].req = client[c].req
      /\ \A x \in Client : x # c => client'[x] = client[x]
  BY <1>1, <1>2, ClientMoves
<1>4. PICK pc \in {"ready", "answer"} : pc = IF exists[drv.req.drive] THEN "ready" ELSE "answer"
  OBVIOUS
<1>5. drv.cspace \cup {<<c, "buffer">>} \in SUBSET (Client \X {"endpoint", "buffer"})
  BY <1>2
<1>6. /\ drv' \in DrvType /\ drv'.pc = pc /\ drv'.who = c /\ drv'.then = "sector"
      /\ drv'.cspace = drv.cspace \cup {<<c, "buffer">>} /\ ~drv'.ok /\ drv'.req = drv.req
  BY <1>1, <1>2, <1>4, <1>5 DEF DrvType
<1>7. drv'.cspace \subseteq {<<c, "endpoint">>, <<c, "buffer">>}
  BY <1>2, <1>6
<1>8. drv.req.drive \in Drive /\ (exists[drv.req.drive] <=> Kind[drv.req.drive] = "ata")
  <2>1. drv.req.drive \in Drive
    BY <1>2 DEF DrvType, Request
  <2>. QED BY <1>2, <2>1 DEF IInv, ExistsRight
<1>9. Served'
  <2>1. ASSUME Serving' PROVE Sound(drv.req)
    <3>1. Kind[drv.req.drive] = "ata"
      BY <1>4, <1>6, <1>8, <2>1 DEF Serving, Moving
    <3>. QED BY <1>2, <3>1, RequestAssumption DEF Sound
  <2>. QED BY <1>6, <2>1 DEF Served
<1>10. Answered'
  BY <1>4, <1>6, <1>8 DEF Answered
<1>11. Asked'
  BY <1>1, <1>3 DEF IInv, Asked
<1>12. Users'
  BY <1>2, <1>3, <1>4, <1>6, <1>7 DEF Users
<1>. QED BY <1>1, <1>2, <1>3, <1>4, <1>6, <1>9, <1>10, <1>11, <1>12, MeetFrame

(* The client is answered. *)
LEMMA AnswerStep ==
  ASSUME IInv, NEW c \in Client, Answer(c)
  PROVE  IInv'
<1>1. /\ client[c].pc = "wait" /\ drv.pc = "answer" /\ drv.who = c
      /\ client' = [client EXCEPT ![c].pc = "idle", ![c].error = ~drv.ok]
      /\ drv' = [drv EXCEPT !.pc = "port", !.cspace = @ \ {<<c, "endpoint">>, <<c, "buffer">>}]
      /\ UNCHANGED <<page, exists, dev, disk, errors>>
  BY DEF Answer
<1>2. /\ client \in ClientType /\ drv \in DrvType /\ drv.then = "sector"
      /\ drv.cspace \subseteq {<<c, "endpoint">>, <<c, "buffer">>}
  BY <1>1 DEF IInv, TypeOK, Users, Stages
<1>3. PICK e \in BOOLEAN : e = ~drv.ok
  BY <1>2 DEF DrvType
<1>4. client' = [client EXCEPT ![c].pc = "idle", ![c].error = e]
  BY <1>1, <1>3
<1>5. /\ client' \in ClientType /\ client'[c].pc = "idle"
      /\ \A x \in Client : x # c => client'[x] = client[x]
  BY <1>2, <1>4, ZenonT(30) DEF ClientType
<1>6. drv.cspace \ {<<c, "endpoint">>, <<c, "buffer">>} = {}
  BY <1>2
<1>7. /\ drv' \in DrvType /\ drv'.pc = "port" /\ drv'.then = "sector" /\ drv'.cspace = {}
  BY <1>1, <1>2, <1>6 DEF DrvType
<1>8. ~Serving' /\ Served' /\ Answered'
  BY <1>7 DEF Serving, Moving, Served, Answered
<1>9. Asked'
  BY <1>1, <1>5 DEF IInv, Asked
<1>10. Users'
  BY <1>7, <1>8 DEF Users
<1>. QED BY <1>1, <1>2, <1>5, <1>7, <1>8, <1>9, <1>10, MeetFrame

-----------------------------------------------------------------------------
(* The theorems. *)

(* The driver begins with everything quiet. *)
LEMMA InitInv == Init => IInv
<1>. SUFFICES ASSUME Init PROVE IInv
  OBVIOUS
<1>1. NoRequest \in Request
  BY DEF NoRequest, Request, Drive
<1>2. client \in ClientType /\ Asked
  BY <1>1 DEF Init, ClientType, Asked
<1>3. /\ drv \in DrvType /\ drv.pc = "select" /\ drv.d = 0 /\ drv.who = Boot
      /\ drv.then = "identify" /\ drv.cspace = {}
  BY <1>1 DEF Init, DrvType, User, Drive
<1>4. /\ dev \in DevType /\ \A ch \in Channel : ~dev[ch].lag /\ ~dev[ch].busy
  BY DEF Init, DevType, Registers, Cmd
<1>5. page \in [User -> [Places -> Int]]
  BY DEF Init, User, Places, Blank
<1>6. disk \in [Drive -> [0 .. Sectors - 1 -> Int]]
  BY SizeAssumption DEF Init, Drive
<1>7. TypeOK
  BY <1>2, <1>3, <1>4, <1>5, <1>6 DEF Init, TypeOK
<1>8. ~Moving /\ ~Serving
  BY <1>3 DEF Moving, Serving
<1>9. Stages /\ Users /\ Served /\ Transfer /\ Answered
  BY <1>3, <1>8 DEF Stages, Users, Served, Transfer, Answered
<1>10. BusyAlone /\ Works1
  BY <1>4 DEF BusyAlone, Works1, Working
<1>11. Identified
  BY <1>3 DEF Identified
<1>12. ExistsRight
  BY <1>3 DEF ExistsRight, Drive
<1>. QED BY <1>2, <1>7, <1>9, <1>10, <1>11, <1>12 DEF IInv

(* No step of a drive, of the driver or of a client breaks the invariant. *)
LEMMA NextInv == IInv /\ [Next]_vars => IInv'
<1>. SUFFICES ASSUME IInv, [Next]_vars PROVE IInv'
  OBVIOUS
<1>1. CASE Access
  BY <1>1, PollStep, StartStep, ReadStep, WriteStep, EndStep DEF Access
<1>2. CASE Probe
  BY <1>2, SelectStep, IdentifyStep, InitDriveStep DEF Probe
<1>3. CASE \E ch \in Channel : Shows(ch) \/ Works(ch) \/ Fails(ch)
  BY <1>3, ShowsStep, WorksStep, FailsStep
<1>4. CASE \E c \in Client : Meet(c) \/ TakeTemp(c)
  BY <1>4, RequestStep, HandleStep, AnswerStep, TempStep DEF Meet
<1>5. CASE \E c \in Client, req \in Requests, data \in Data : block_access(c, req, data)
  BY <1>5, BlockStep
<1>6. CASE UNCHANGED vars
  BY <1>6 DEF vars, IInv, TypeOK, Stages, Asked, Users, Served, Serving, Moving, BusyAlone, Works1,
              Identified, ExistsRight, Transfer, Loaded, Wants, Same, OnDisk, Answered,
              Working, ChannelInUse
<1>. QED BY <1>1, <1>2, <1>3, <1>4, <1>5, <1>6 DEF Next

(* The invariant of the whole driver. *)
THEOREM DriverInvariant == Spec => []IInv
<1>. QED BY InitInv, NextInv, PTL DEF Spec

(* COMPLETED means what it says, whatever drives, clients and requests      *)
(* there are: see SectorsMoved.                                             *)
THEOREM AccessesDone == Spec => []SectorsMoved
<1>1. IInv => SectorsMoved
  BY DEF IInv, Answered, OnDisk, Users, SectorsMoved
<1>. QED BY <1>1, DriverInvariant, PTL

(* Nobody's page and no sector is touched that the request does not name:   *)
(* see OnlyAsked.                                                           *)
THEOREM NothingElseTouched == Spec => OnlyAsked
<1>. DEFINE PageKept == \A c \in Client : page'[c] # page[c] =>
                          \/ client[c].pc = "idle"
                          \/ drv.who = c /\ drv.req.type = "read" /\ client[c].pc = "wait"
            DiskKept == \A d \in Drive, s \in 0 .. Sectors - 1 : disk'[d][s] # disk[d][s] =>
                          /\ drv.pc = "poll" /\ drv.req.type = "write" /\ drv.req.drive = d
                          /\ s \in drv.req.location .. drv.req.location + drv.req.sectors - 1
<1>1. ASSUME IInv, Next
      PROVE  PageKept /\ DiskKept
  <2>0. page \in [User -> [Places -> Int]] /\ disk \in [Drive -> [0 .. Sectors - 1 -> Int]]
    BY <1>1 DEF IInv, TypeOK
  <2>1. CASE page' = page /\ disk' = disk
    BY <2>1
  <2>2. CASE ide_pio_read
    <3>1. disk' = disk /\ drv.req.type = "read" /\ drv.pc = "sector" /\ Serving /\ drv.who \in User
      BY <1>1, <2>2 DEF ide_pio_read, Serving, Moving, IInv, TypeOK, DrvType
    <3>2. \A c \in Client : c # drv.who => page'[c] = page[c]
      BY <2>0, <2>2 DEF ide_pio_read, User
    <3>3. drv.who \in Client => client[drv.who].pc = "wait"
      BY <1>1, <3>1, SizeAssumption DEF IInv, Users
    <3>. QED BY <3>1, <3>2, <3>3
  <2>3. ASSUME NEW ch \in Channel, Works(ch)
        PROVE  PageKept /\ DiskKept
    <3>. DEFINE stores == dev[ch].cmd = "write" /\ dev[ch].pos > 0
                at == (dev[ch].lba + dev[ch].pos - 1) % LbaMod
    <3>1. /\ page' = page /\ dev[ch].busy
          /\ disk' = IF stores THEN [disk EXCEPT ![SelectedOn(ch)][at] = dev[ch].buf] ELSE disk
      BY <2>3 DEF Works
    <3>2. CASE stores
      <4>1. Working(ch) /\ dev[ch].cmd # "flush" /\ dev[ch].cmd # "ident"
        BY <3>1, <3>2 DEF Working
      <4>2. /\ drv.pc = "poll" /\ drv.then = "sector" /\ ch = ChannelOf(drv.req.drive)
            /\ drv.req.type = "write" /\ SelectedOn(ch) = drv.req.drive /\ Loaded(dev[ch])
        BY <1>1, <3>2, <4>1, WorkingLemma
      <4>3. at \in drv.req.location .. drv.req.location + drv.req.sectors - 1
        BY <1>1, <3>2, <4>2, StoreLemma
      <4>. HIDE DEF at
      <4>4. \A d \in Drive, s \in 0 .. Sectors - 1 :
              ~(d = drv.req.drive /\ s = at) => disk'[d][s] = disk[d][s]
        BY <2>0, <3>1, <3>2, <4>2
      <4>. QED BY <3>1, <4>2, <4>3, <4>4
    <3>3. CASE ~stores
      BY <2>1, <3>1, <3>3
    <3>. QED BY <3>2, <3>3
  <2>4. ASSUME NEW c \in Client, NEW req \in Requests, NEW data \in Data, block_access(c, req, data)
        PROVE  PageKept /\ DiskKept
    <3>1. /\ disk' = disk /\ client[c].pc = "idle"
          /\ \A x \in Client : x # c => page'[x] = page[x]
      BY <2>0, <2>4 DEF block_access, User
    <3>. QED BY <3>1
  <2>5. CASE ide_channel_poll \/ ide_start_access \/ ide_pio_write \/ EndAccess \/ Probe
    <3>1. page' = page /\ disk' = disk
      BY <2>5 DEF ide_channel_poll, ide_start_access, Started, ide_pio_write, EndAccess,
                  Probe, ide_select_drive, ide_identify, ide_init_drive
    <3>. QED BY <2>1, <3>1
  <2>6. CASE \E ch \in Channel : Shows(ch) \/ Fails(ch)
    <3>1. page' = page /\ disk' = disk
      BY <2>6 DEF Shows, Fails
    <3>. QED BY <2>1, <3>1
  <2>7. CASE \E c \in Client : Meet(c) \/ TakeTemp(c)
    <3>1. page' = page /\ disk' = disk
      BY <2>7 DEF Meet, TakeRequest, ata_handle_access, Answer, TakeTemp
    <3>. QED BY <2>1, <3>1
  <2>. QED BY <1>1, <2>2, <2>3, <2>4, <2>5, <2>6, <2>7 DEF Next, Access
<1>2. IInv /\ [Next]_vars => [PageKept /\ DiskKept]_vars
  BY <1>1
<1>. QED BY <1>2, DriverInvariant, PTL DEF Spec, OnlyAsked
=============================================================================
