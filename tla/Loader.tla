------------------------------- MODULE Loader -------------------------------
(***************************************************************************)
(* libraries/c4rt: how one program starts another.  spawn (libc/stdlib.c)  *)
(* reads a file into a static buffer; elf_load (src/elf.c) makes an        *)
(* address space, puts the arguments on a stack and the program's segments *)
(* at their addresses, each through a window of the spawner's own space;   *)
(* the new thread's _start (crt/crt0.c) finds them there.  The spawner has *)
(* one thread, which also handles its memory objects (Memory).             *)
(*                                                                         *)
(* A page has PageSize cells.  A character, a word, a pointer and a field  *)
(* of an ELF header take a cell each, and an address is a number of cells. *)
(* A file that cannot be opened changes nothing and is left out.  elf_load *)
(* ignores what the pager and the kernel answer: without a frame in the    *)
(* window it goes on, and the spawner faults at the first cell it writes   *)
(* there.  A frame that is in the window is taken to be mapped in the new  *)
(* program too, and the kernel to have room for its objects.               *)
(***************************************************************************)
EXTENDS Memory, SequencesExt

CONSTANTS Files,        \* the contents of the files there are
          Calls,        \* what spawn is called with: pairs <<argv, envp>>
          ProgSize,     \* the cells of progbuf
          MaxSpawns,    \* bound: the processes made
          MaxSegments,  \* the largest e_phnum of the files
          FramePages,   \* the pages of the largest segment
          Window,       \* 0xda000000: where the spawner sees a new frame
          StackPage,    \* 0xa0000000: where the new program has its stack
          BootPage,     \* BOOTINFO_ADDR
          BootFrame,    \* the frame of the boot information
          STACK_OFFSET, ELFMAG, C4RT_INIT_MAGIC,
          Junk          \* what a new frame holds

Child == 1 .. MaxSpawns
StackOf(c) == <<c, MaxSegments>>
FrameId == Child \X (0 .. MaxSegments)
FrameCells == 0 .. FramePages * PageSize - 1

ASSUME BoundsAssumption == /\ MaxSpawns \in Nat /\ MaxSegments \in Nat
                           /\ ProgSize \in Nat /\ ProgSize >= 4
                           /\ FramePages \in Nat \ {0}

(* crt0.c's general region ends below the window. *)
ASSUME PlacesAssumption ==
  /\ Child \subseteq Space \ {Self}
  /\ Window \in Nat
  /\ Window .. Window + FramePages - 1 \subseteq PageNumbers \ (Base .. Base + Pages - 1)
  /\ {StackPage, BootPage} \subseteq PageNumbers /\ StackPage \notin {0, BootPage}

(* The pager's frames are none of the spawner's objects', and no mapping    *)
(* looks like an empty page.                                                *)
ASSUME FramesAssumption ==
  /\ Obj \cap (FrameId \cup {BootFrame}) = {}
  /\ NoFrame \notin (Obj \cup FrameId \cup {BootFrame}) \X Nat

(* The default slots of a capability space. *)
C4_SERV_PORT == 1
C4_CURRENT_ADDRSPACE == 2
C4_BOOT_INFO == 3
C4_PAGER == 4
C4_NAMESERVER == 5
C4_DEFAULT_OBJECT_END == 6
Slot == 0 .. C4_DEFAULT_OBJECT_END + MaxSegments - 1

VARIABLES progbuf,  \* spawn's static buffer
          pc,       \* where elf_load is; "idle" outside of spawn
          made,     \* the processes made so far; the last is at work on
          seg,      \* i, the program header elf_load is at
          frames,   \* frame -> its cells
          cspace,   \* process -> slot -> what its capability is for
          thread,   \* process -> [entry, stack, runs]
          stopped,  \* has the spawner faulted
          asked,    \* process -> what spawn was called with
          got       \* process -> what _start found, once it has run

loadvars == <<progbuf, pc, made, seg, frames, cspace, thread, stopped, asked, got>>
pvars == <<vars, memvars, loadvars>>

NoThread == [entry |-> 0, stack |-> 0, runs |-> FALSE]
NoCall   == [file |-> << >>, argv |-> << >>, envp |-> << >>]
NotYet   == [args |-> << >>, env |-> << >>, nameserv |-> 0, seen |-> FALSE]

ProcessInit ==
  /\ MemInit
  /\ progbuf = [k \in 1 .. ProgSize |-> 0]
  /\ pc = "idle" /\ made = 0 /\ seg = 0
  /\ frames = [f \in FrameId |-> [k \in FrameCells |-> Junk]]
  /\ cspace = [c \in Child |-> [s \in Slot |-> << >>]]
  /\ thread = [c \in Child |-> NoThread]
  /\ stopped = FALSE
  /\ asked = [c \in Child |-> NoCall]
  /\ got = [c \in Child |-> NotYet]

-----------------------------------------------------------------------------
(* The ELF image in a buffer.  Its header is four cells, and each program   *)
(* header another four, from e_phoff on.                                    *)
elf_is_valid(elf) == elf[1] = ELFMAG
e_entry(elf) == elf[2]
e_phoff(elf) == elf[3]
e_phnum(elf) == elf[4]

elf_get_phdr(elf, i) ==
  LET at == e_phoff(elf) + 4 * i IN
  [offset |-> elf[at + 1], vaddr |-> elf[at + 2], filesz |-> elf[at + 3], memsz |-> elf[at + 4]]

HasHeader(file) == Len(file) >= 4 /\ elf_is_valid(file)

(* What elf_load takes on trust: a file fits progbuf; one that begins as an *)
(* ELF file does has its headers; every segment fits the pages elf_load     *)
(* asks for (it counts those of p_memsz, wherever in a page the segment     *)
(* begins); and no two need the same page of the program.                   *)
Touched(file, i) == LET h == elf_get_phdr(file, i)
                        first == h.vaddr \div PageSize
                    IN first .. first + pages_of(h.memsz) - 1
ASSUME FilesAssumption == ELFMAG # 0 /\ \A file \in Files :
  /\ file \in Seq(Nat) /\ Len(file) <= ProgSize
  /\ file # << >> /\ file[1] = ELFMAG => HasHeader(file)
  /\ HasHeader(file) =>
       /\ e_phnum(file) <= MaxSegments /\ e_phoff(file) + 4 * e_phnum(file) <= Len(file)
       /\ \A i \in 0 .. e_phnum(file) - 1 :
            LET h == elf_get_phdr(file, i) IN
            /\ h.offset + h.filesz <= Len(file) /\ h.filesz <= h.memsz
            /\ (h.vaddr % PageSize) + h.memsz <= pages_of(h.memsz) * PageSize
            /\ pages_of(h.memsz) <= FramePages
            /\ Touched(file, i) \subseteq PageNumbers \ {StackPage, BootPage}
            /\ \A j \in 0 .. i - 1 : Touched(file, i) \cap Touched(file, j) = {}

-----------------------------------------------------------------------------
(* Memory as the spawner writes it and the new program reads it: through    *)
(* the mappings of the address space.                                       *)
Store(fr, addr, cells) ==
  LET at    == aspace[Self][addr \div PageSize]
      first == at[2] * PageSize + (addr % PageSize)
  IN IF cells = << >> THEN fr
     ELSE [fr EXCEPT ![at[1]] = [k \in FrameCells |->
             IF first <= k /\ k < first + Len(cells) THEN cells[k - first + 1] ELSE @[k]]]

Cell(c, page, k) == frames[aspace[c][page][1]][aspace[c][page][2] * PageSize + k]
Load(c, addr) == Cell(c, addr \div PageSize, addr % PageSize)

(* The cells from addr on up to a zero: a string, or a list of pointers.    *)
UpToZero(c, addr) ==
  LET last == CHOOSE k \in addr % PageSize .. PageSize - 1 :
                /\ Cell(c, addr \div PageSize, k) = 0
                /\ \A j \in addr % PageSize .. k - 1 : Cell(c, addr \div PageSize, j) # 0
  IN [k \in 1 .. last - (addr % PageSize) |-> Load(c, addr + k - 1)]

Strings(c, list) == [i \in 1 .. Len(list) |-> UpToZero(c, list[i])]

-----------------------------------------------------------------------------
(* The new stack, from its lowest cell up.  The pointers that go on it are  *)
(* places in the new program's space (to), while the cells are written to   *)
(* the window (from): both go down together.                                *)
To(stack) == StackPage * PageSize + STACK_OFFSET - Len(stack)
From(stack) == Window * PageSize + STACK_OFFSET - Len(stack)

elf_push_arg(stack, value) == <<value>> \o stack
elf_push_str(stack, str) == str \o <<0>> \o stack

(* The stack after each of the strings. *)
PushStrings(stack, things) ==
  LET after[i \in 0 .. Len(things)] ==
        IF i = 0 THEN stack ELSE elf_push_str(after[i - 1], things[i])
  IN after

PushList(things, stacks) ==
  [i \in 1 .. Len(things) |-> To(stacks[i])] \o <<0>> \o stacks[Len(things)]

(* Mutant of elf_copy_strlist: the pointers are pushed first to last. *)
copy_strlist_forward(stack, things) ==
  LET stacks == PushStrings(stack, things) IN
  [i \in 1 .. Len(things) |-> To(stacks[Len(things) + 1 - i])] \o <<0>> \o stacks[Len(things)]

(* The strings, then a list of pointers to them that ends with a zero. *)
elf_copy_strlist(stack, things) == PushList(things, PushStrings(stack, things))

PushParams(nameserver, argv, env) == <<0, nameserver, To(argv), To(env), C4RT_INIT_MAGIC>> \o env

setup_stack_params(nameserver, argv, envp) ==
  PushParams(nameserver, elf_copy_strlist(<< >>, argv),
             elf_copy_strlist(elf_copy_strlist(<< >>, argv), envp))

(* Nothing stops the pushes at the start of the page. *)
Str == Seq(Nat \ {0})
ASSUME CallsAssumption ==
  /\ STACK_OFFSET \in 0 .. PageSize - 1 /\ C4RT_INIT_MAGIC \in Nat
  /\ \A call \in Calls :
       /\ call[1] \in Seq(Str) /\ call[2] \in Seq(Str)
       /\ Len(setup_stack_params(C4_NAMESERVER, call[1], call[2])) \in 0 .. STACK_OFFSET

-----------------------------------------------------------------------------
(* elf_load, up to the new frame for the stack, mapped on both sides. *)
NewProcess(c, elf) ==
  /\ made' = c
  /\ aspace' = c4_addrspace_map(
                 c4_addrspace_map(
                   c4_addrspace_map(aspace, c, BootFrame, 1, BootPage),
                   Self, StackOf(c), 1, Window),
                 c, StackOf(c), 1, StackPage)
  /\ cspace' = [cspace EXCEPT ![c] = [@ EXCEPT
                 ![C4_SERV_PORT] = <<"port", c>>, ![C4_CURRENT_ADDRSPACE] = <<"aspace", c>>,
                 ![C4_BOOT_INFO] = <<"bootinfo">>, ![C4_PAGER] = <<"pager">>,
                 ![C4_NAMESERVER] = <<"nameserver">>]]
  /\ thread' = [thread EXCEPT ![c].entry = e_entry(elf)]
  /\ pc' = "push" /\ seg' = 0

(* The file is read over what the last one left in progbuf; spawn goes on   *)
(* if an ELF header is there then.  Without a frame for the stack the first *)
(* push faults, and nobody uses the objects made for the program.           *)
spawn(file, argv, envp) ==
  /\ pc = "idle" /\ freeing = NoObj /\ made < MaxSpawns /\ ~stopped
  /\ progbuf' = file \o SubSeq(progbuf, Len(file) + 1, ProgSize)
  /\ \/ /\ elf_is_valid(progbuf')
        /\ NewProcess(made + 1, progbuf')
        /\ asked' = [asked EXCEPT ![made + 1] = [file |-> file, argv |-> argv, envp |-> envp]]
        /\ UNCHANGED stopped
     \/ /\ stopped' = elf_is_valid(progbuf')
        /\ UNCHANGED <<pc, made, seg, aspace, cspace, thread, asked>>
  /\ UNCHANGED <<vars, obj, freeing, frames, got>>

(* Mutant of PushStack: the stack stays in the window. *)
PushStack_kept ==
  /\ pc = "push"
  /\ \E stack \in {setup_stack_params(C4_NAMESERVER, asked[made].argv, asked[made].envp)} :
       /\ frames' = Store(frames, From(stack), stack)
       /\ thread' = [thread EXCEPT ![made].stack = To(stack)]
  /\ pc' = "map"
  /\ UNCHANGED <<aspace, vars, obj, freeing, progbuf, made, seg, cspace, stopped, asked, got>>

(* The arguments are written and the window is free again; the thread that  *)
(* is made has its entry and its stack, and is not running yet.             *)
PushStack ==
  /\ pc = "push"
  /\ \E stack \in {setup_stack_params(C4_NAMESERVER, asked[made].argv, asked[made].envp)} :
       /\ frames' = Store(frames, From(stack), stack)
       /\ thread' = [thread EXCEPT ![made].stack = To(stack)]
  /\ aspace' = c4_addrspace_unmap(aspace, Self, Window)
  /\ pc' = "map"
  /\ UNCHANGED <<vars, obj, freeing, progbuf, made, seg, cspace, stopped, asked, got>>

(* A frame for the next segment, mapped in the window and where the segment *)
(* belongs, at the start of its first page.                                 *)
MapSegment ==
  LET h == elf_get_phdr(progbuf, seg) IN
  /\ pc = "map" /\ seg < e_phnum(progbuf)
  /\ aspace' = c4_addrspace_map(
                 c4_addrspace_map(aspace, Self, <<made, seg>>, pages_of(h.memsz), Window),
                 made, <<made, seg>>, pages_of(h.memsz), h.vaddr \div PageSize)
  /\ pc' = "copy"
  /\ UNCHANGED <<vars, obj, freeing, progbuf, made, seg, frames, cspace, thread, stopped, asked, got>>

(* There is no frame, or it is not in the window, and the copy faults. *)
CopyFaults ==
  /\ pc = "map" /\ seg < e_phnum(progbuf) /\ elf_get_phdr(progbuf, seg).filesz > 0
  /\ stopped' = TRUE
  /\ UNCHANGED <<vars, memvars, progbuf, pc, made, seg, frames, cspace, thread, asked, got>>

(* p_filesz cells are copied; what is behind them, .bss, stays as the pager *)
(* gave it.                                                                 *)
CopySegment ==
  LET h == elf_get_phdr(progbuf, seg) IN
  /\ pc = "copy"
  /\ frames' = Store(frames, Window * PageSize + (h.vaddr % PageSize),
                     SubSeq(progbuf, h.offset + 1, h.offset + h.filesz))
  /\ aspace' = c4_addrspace_unmap(aspace, Self, Window)
  /\ cspace' = [cspace EXCEPT ![made][C4_DEFAULT_OBJECT_END + seg] = <<"frame", made, seg>>]
  /\ seg' = seg + 1 /\ pc' = "map"
  /\ UNCHANGED <<vars, obj, freeing, progbuf, made, thread, stopped, asked, got>>

ContinueThread ==
  /\ pc = "map" /\ seg = e_phnum(progbuf)
  /\ thread' = [thread EXCEPT ![made].runs = TRUE]
  /\ pc' = "idle"
  /\ UNCHANGED <<vars, memvars, progbuf, made, seg, frames, cspace, stopped, asked, got>>

elf_load_full == ~stopped /\ (PushStack \/ MapSegment \/ CopyFaults \/ CopySegment \/ ContinueThread)

-----------------------------------------------------------------------------
(* The new thread finds its parameters above a return address of zero. *)
_start(c) ==
  LET esp == thread[c].stack
      magic == Load(c, esp + 4) = C4RT_INIT_MAGIC
      Given(list) == IF magic THEN Strings(c, UpToZero(c, list)) ELSE << >>
  IN /\ thread[c].runs /\ ~got[c].seen
     /\ \E args \in {Given(Load(c, esp + 2))}, env \in {Given(Load(c, esp + 3))} :
          got' = [got EXCEPT ![c] = [args |-> args, env |-> env, nameserv |-> Load(c, esp + 1), seen |-> TRUE]]
     /\ UNCHANGED <<vars, memvars, progbuf, pc, made, seg, frames, cspace, thread, stopped, asked>>

Starts == \E c \in Child : _start(c)

ProcessNext ==
  \/ pc = "idle" /\ ~stopped /\ MemNext /\ UNCHANGED loadvars
  \/ \E file \in Files, call \in Calls : spawn(file, call[1], call[2])
  \/ elf_load_full
  \/ Starts

(* A call that has begun is finished by the thread that made it. *)
ProcessSpec ==
  /\ ProcessInit /\ [][ProcessNext]_pvars
  /\ WF_pvars((Merge \/ c4_memobj_destroy) /\ UNCHANGED loadvars)
  /\ WF_pvars(elf_load_full) /\ WF_pvars(Starts)

-----------------------------------------------------------------------------
(* The program has every segment of its file at its address. *)
SegmentsLoaded(c) ==
  thread[c].runs /\ HasHeader(asked[c].file) =>
    /\ thread[c].entry = e_entry(asked[c].file)
    /\ \A i \in 0 .. e_phnum(asked[c].file) - 1 :
         LET h == elf_get_phdr(asked[c].file, i) IN
         \A k \in 0 .. h.filesz - 1 : Load(c, h.vaddr + k) = asked[c].file[h.offset + k + 1]

ParametersFound(c) ==
  got[c].seen =>
    /\ got[c].args = asked[c].argv /\ got[c].env = asked[c].envp
    /\ cspace[c][got[c].nameserv] = <<"nameserver">>

(* elf_load: when its thread is continued, the program has every segment of *)
(* its file at its address and its entry point, and _start finds the        *)
(* arguments, the environment and the name server the spawner gave,         *)
(* although they were written through another mapping; and later spawns and *)
(* memory objects of the spawner leave all of it alone.  (A file without a  *)
(* header of its own runs whatever was spawned before it.)                  *)
ProgramStarts == \A c \in Child : SegmentsLoaded(c) /\ ParametersFound(c)

(* c4_addrspace_map at the window, for memory objects and in the new        *)
(* program's space: nothing is mapped over a page that is in use.           *)
NothingRemapped ==
  [][\A s \in Space, p \in PageNumbers :
       aspace[s][p] # NoFrame => aspace'[s][p] \in {aspace[s][p], NoFrame}]_aspace
=============================================================================
