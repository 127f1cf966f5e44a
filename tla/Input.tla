-------------------------------- MODULE Input --------------------------------
(***************************************************************************)
(* The keyboard and mouse drivers, programs/initprogs/src/keyboard.c and   *)
(* ps2mouse.c, and their clients' c4rt/interface/peripheral.h.  A driver   *)
(* has two threads without a lock: main enters clients into a table, and   *)
(* event_thread reads the controller's port after an interrupt and sends   *)
(* an event to everybody in the table.  The two drivers share the port.    *)
(*                                                                         *)
(* The controller is external: it holds one byte at a time, of either      *)
(* device, with an interrupt for each, until somebody reads the port.      *)
(* Port accesses are system calls, and each is a step.  The drivers have   *)
(* subscribed to their interrupts, and mouse_init has run.                 *)
(***************************************************************************)
EXTENDS Integers, SequencesExt

CONSTANTS Connects,     \* driver -> the clients that connect to it, at some time
          Lower, Upper, \* lowercase[] and uppercase[] with what lies behind each:
                        \* scancode -> character
          Listed,       \* the scancodes that are in the tables
          Modifier,     \* the characters below CODE_END
          Shift,        \* CODE_LEFT_SHIFT and CODE_RIGHT_SHIFT
          Scancodes,    \* bound: what the keyboard sends
          Packets,      \* bound: what the mouse sends, three bytes each
          MaxKeys, MaxPackets, \* bounds: how often they do
          MaxConnects,  \* bound: how many connect, to both drivers together
          NoClient      \* an entry of clients[] that is still 0

Driver == {"keyboard", "mouse"}
Byte == 0 .. 255
Code == 0 .. 127     \* scancodes without the bit of a release

ASSUME TableAssumption ==
  /\ DOMAIN Lower = Code /\ DOMAIN Upper = Code /\ Listed \subseteq Code /\ Shift \subseteq Modifier
  /\ \A code \in Listed : {Lower[code], Upper[code]} \cap Modifier # {} => Lower[code] = Upper[code]
ASSUME DeviceAssumption ==
  /\ Scancodes \subseteq Byte /\ \A p \in Packets : p \in Seq(Byte) /\ Len(p) = 3
  /\ {MaxKeys, MaxPackets, MaxConnects} \subseteq Nat
  /\ \A d \in Driver : IsFiniteSet(Connects[d]) /\ NoClient \notin Connects[d]

VARIABLES ctl,      \* the controller's buffer: [full, from, byte]
          pending,  \* device -> bytes of a packet that are still to come
          irq,      \* driver -> interrupt messages in its queue
          main,     \* driver -> where main is, and the client it enters
          clients, num_clients, \* driver -> its table and the count
          thread,   \* driver -> the event thread
          got,      \* driver -> client -> the events sent to it
          sent,     \* device -> the bytes it has ever sent
          events,   \* driver -> the events it has ever read
          since,    \* driver -> client -> how many of them were before it
          mixed     \* did a driver read a byte that was not its own

vars == <<ctl, pending, irq, main, clients, num_clients, thread, got, sent, events, since, mixed>>

NoEvent == [type |-> "none"]

Init ==
  /\ ctl = [full |-> FALSE, from |-> "keyboard", byte |-> 0]
  /\ pending = [d \in Driver |-> <<>>]
  /\ irq = [d \in Driver |-> 0]
  /\ main = [d \in Driver |-> [pc |-> "recv", client |-> NoClient]]
  /\ clients = [d \in Driver |-> [k \in 0 .. Cardinality(Connects[d]) - 1 |-> NoClient]]
  /\ num_clients = [d \in Driver |-> 0]
  /\ thread = [d \in Driver |-> [pc |-> "wait", k |-> 0, msg |-> NoEvent, things |-> <<>>,
                                 is_uppercase |-> FALSE, modifiers |-> {}]]
  /\ got = [d \in Driver |-> [c \in Connects[d] |-> <<>>]]
  /\ sent = [d \in Driver |-> <<>>]
  /\ events = [d \in Driver |-> <<>>]
  /\ since = [d \in Driver |-> [c \in Connects[d] |-> -1]]
  /\ mixed = FALSE

-----------------------------------------------------------------------------
(* The devices and the controller. *)

Device == <<main, clients, num_clients, thread, got, events, since, mixed>>

(* A device puts a byte into the free buffer, with an interrupt; the bytes  *)
(* of a packet follow one another.                                          *)
Load(d, byte, rest) ==
  /\ ~ctl.full
  /\ ctl' = [full |-> TRUE, from |-> d, byte |-> byte]
  /\ pending' = [pending EXCEPT ![d] = rest]
  /\ irq' = [irq EXCEPT ![d] = @ + 1]
  /\ UNCHANGED Device

(* A key is released after it was pressed. *)
Type(code) ==
  /\ Len(sent["keyboard"]) < MaxKeys
  /\ code >= 128 => Contains(sent["keyboard"], code - 128)
  /\ sent' = [sent EXCEPT !["keyboard"] = Append(@, code)]
  /\ Load("keyboard", code, <<>>)

Move(packet) ==
  /\ Len(sent["mouse"]) < 3 * MaxPackets /\ pending["mouse"] = <<>>
  /\ sent' = [sent EXCEPT !["mouse"] = @ \o packet]
  /\ Load("mouse", Head(packet), Tail(packet))

MoveOn ==
  /\ pending["mouse"] # <<>>
  /\ Load("mouse", Head(pending["mouse"]), Tail(pending["mouse"]))
  /\ UNCHANGED sent

(* c4_in_byte(0x60) by driver d: empties the buffer, whoever's byte it was; *)
(* an empty one gives the last byte again.                                  *)
ReadPort(d) ==
  /\ ctl' = [ctl EXCEPT !.full = FALSE]
  /\ mixed' = (mixed \/ ~ctl.full \/ ctl.from # d)
  /\ UNCHANGED <<pending, sent>>

-----------------------------------------------------------------------------
(* main: it meets c4rt_peripheral_connect, and then                         *)
(* clients[num_clients++] = ... is two stores, in either order; the receive *)
(* touches nothing shared, and is one step with the first of them.          *)

Others == <<ctl, pending, irq, thread, got, sent, events, mixed>>

CountClient(d) == num_clients' = [num_clients EXCEPT ![d] = @ + 1] /\ UNCHANGED clients

(* Mutant of StoreClient: the entry goes where the count is by then. *)
StoreClient_behind(d, k, c) ==
  /\ clients' = [clients EXCEPT ![d] = [n \in DOMAIN @ |-> IF n = num_clients[d] THEN c ELSE @[n]]]
  /\ UNCHANGED num_clients

StoreClient(d, k, c) == clients' = [clients EXCEPT ![d][k] = c] /\ UNCHANGED num_clients

Met(d) == num_clients[d] + (IF main[d].pc = "stored" THEN 1 ELSE 0)

c4rt_peripheral_connect(d, c) ==
  /\ main[d].pc = "recv" /\ since[d][c] = -1
  /\ Met("keyboard") + Met("mouse") < MaxConnects
  /\ \/ CountClient(d) /\ main' = [main EXCEPT ![d] = [pc |-> "counted", client |-> c]]
     \/ StoreClient(d, num_clients[d], c) /\ main' = [main EXCEPT ![d] = [pc |-> "stored", client |-> c]]
  /\ UNCHANGED since /\ UNCHANGED Others

(* The second store; main then waits for the next client. *)
Entered(d) ==
  /\ \/ main[d].pc = "counted" /\ StoreClient(d, num_clients[d] - 1, main[d].client)
     \/ main[d].pc = "stored" /\ CountClient(d)
  /\ main' = [main EXCEPT ![d] = [pc |-> "recv", client |-> NoClient]]
  /\ since' = [since EXCEPT ![d][main[d].client] = Len(events[d])]
  /\ UNCHANGED Others

-----------------------------------------------------------------------------
(* The event threads. *)

Tables == <<main, clients, num_clients, since>>

(* The interrupt message.  Only the device adds to the queue, and only this *)
(* thread takes from it, so the receive commutes with what others do and is *)
(* one step with the port access behind it.                                 *)
TakeInterrupt(d) == irq[d] > 0 /\ irq' = [irq EXCEPT ![d] = @ - 1]

IsUp(scancode) == scancode >= 128

(* The character, and whether the next one is upper case.  A code behind    *)
(* the tables is looked up all the same, and the two tables have different  *)
(* neighbours.                                                              *)
decode_scancode(scancode, is_uppercase) ==
  LET code == scancode % 128
      c == IF is_uppercase THEN Upper[code] ELSE Lower[code]
  IN  [c |-> c, is_uppercase |-> IF c \in Shift THEN ~IsUp(scancode) ELSE is_uppercase]

(* Mutant of Modified: a modifier is never let go. *)
Modified_sticky(modifiers, c, up) == modifiers \cup ({c} \cap Modifier)

Modified(modifiers, c, up) ==
  IF c \notin Modifier THEN modifiers
  ELSE IF up THEN modifiers \ {c} ELSE modifiers \cup {c}

get_event ==
  LET t == thread["keyboard"]
      r == decode_scancode(ctl.byte, t.is_uppercase)
      modifiers == Modified(t.modifiers, r.c, IsUp(ctl.byte))
      msg == [type |-> "KEYBOARD_MSG_EVENT", character |-> r.c, modifiers |-> modifiers,
              scancode |-> ctl.byte, up |-> IsUp(ctl.byte)]
  IN  /\ t.pc = "wait" /\ TakeInterrupt("keyboard")
      /\ ReadPort("keyboard")
      /\ thread' = [thread EXCEPT !["keyboard"] = [t EXCEPT !.pc = "send", !.k = 0, !.msg = msg,
                      !.is_uppercase = r.is_uppercase, !.modifiers = modifiers]]
      /\ events' = [events EXCEPT !["keyboard"] = Append(@, msg)]
      /\ UNCHANGED got /\ UNCHANGED Tables

(* MOUSE_STATUS_IS_MOUSE is tested once, after the interrupt, and           *)
(* MOUSE_STATUS_CAN_READ before each byte.                                  *)
CheckIsMouse ==
  /\ thread["mouse"].pc = "wait" /\ TakeInterrupt("mouse")
  /\ thread' = [thread EXCEPT !["mouse"].pc = IF ctl.from = "mouse" THEN "drain" ELSE "wait"]
  /\ UNCHANGED <<ctl, pending, got, sent, events, mixed>> /\ UNCHANGED Tables

CheckCanRead ==
  /\ thread["mouse"].pc = "drain"
  /\ thread' = [thread EXCEPT !["mouse"].pc = IF ctl.full THEN "read" ELSE "wait"]
  /\ UNCHANGED <<ctl, pending, irq, got, sent, events, mixed>> /\ UNCHANGED Tables

HasBit(byte, bit) == (byte \div bit) % 2 = 1
Overflow(packet) == HasBit(packet[1], 64) \/ HasBit(packet[1], 128)

(* The event dispatch makes of a packet. *)
Motion(packet) ==
  [type |-> "MOUSE_MSG_EVENT", flags |-> packet[1] % 8,
   x |-> IF HasBit(packet[1], 16) THEN -(255 - packet[2]) ELSE packet[2],
   y |-> IF HasBit(packet[1], 32) THEN -(255 - packet[3]) ELSE packet[3]]

(* One byte; the third makes a packet, and dispatch sends it unless it says *)
(* that it overflowed.                                                      *)
MouseByte ==
  LET t == thread["mouse"]
      things == Append(t.things, ctl.byte)
      whole == Len(things) = 3
      sends == whole /\ ~Overflow(things)
  IN  /\ t.pc = "read"
      /\ ReadPort("mouse")
      /\ thread' = [thread EXCEPT !["mouse"] = [t EXCEPT
                      !.things = IF whole THEN <<>> ELSE things,
                      !.pc = IF sends THEN "send" ELSE "drain", !.k = 0,
                      !.msg = IF sends THEN Motion(things) ELSE @]]
      /\ events' = IF sends THEN [events EXCEPT !["mouse"] = Append(@, Motion(things))] ELSE events
      /\ UNCHANGED <<irq, got>> /\ UNCHANGED Tables

(* A turn of the loop over the clients, with the count and the entry as     *)
(* they are by now; what is sent to object 0 is lost.                       *)
SendNext(d) ==
  LET t == thread[d]
      c == clients[d][t.k]
  IN  /\ t.pc = "send"
      /\ IF t.k < num_clients[d]
         THEN /\ thread' = [thread EXCEPT ![d].k = @ + 1]
              /\ got' = IF c = NoClient THEN got ELSE [got EXCEPT ![d][c] = Append(@, t.msg)]
         ELSE /\ thread' = [thread EXCEPT ![d].pc = IF d = "keyboard" THEN "wait" ELSE "drain",
                                          ![d].msg = NoEvent]
              /\ UNCHANGED got
      /\ UNCHANGED <<ctl, pending, irq, sent, events, mixed>> /\ UNCHANGED Tables

-----------------------------------------------------------------------------

EventThread(d) ==
  \/ SendNext(d)
  \/ d = "keyboard" /\ get_event
  \/ d = "mouse" /\ (CheckIsMouse \/ CheckCanRead \/ MouseByte)

Next ==
  \/ \E code \in Scancodes : Type(code)
  \/ \E packet \in Packets : Move(packet)
  \/ MoveOn
  \/ \E d \in Driver : \/ EventThread(d) \/ Entered(d)
                       \/ \E c \in Connects[d] : c4rt_peripheral_connect(d, c)

Spec == Init /\ [][Next]_vars

-----------------------------------------------------------------------------
(* Properties. *)

(* event_thread (keyboard.c, ps2mouse.c) sends every event to every client  *)
(* in its table, once and in the order read, however main's unlocked        *)
(* registration falls into its loop: a client misses at most the event that *)
(* was being sent while it was entered.                                     *)
EveryClientEveryEvent ==
  \A d \in Driver : \A c \in Connects[d] :
    LET read == Len(events[d]) IN
    IF since[d][c] = -1 THEN got[d][c] = <<>>
    ELSE \E s \in {since[d][c] - 1, since[d][c]}, n \in {read - 1, read} :
           /\ s >= 0 /\ (thread[d].pc # "send" => n = read)
           /\ got[d][c] = SubSeq(events[d], s + 1, n)

(* The key of a scancode. *)
KeyOf(code) == Lower[code % 128]

(* The modifiers held after the first n scancodes: the ones whose last      *)
(* scancode was not a release.                                              *)
HeldAfter(codes, n) ==
  {c \in Modifier : \E i \in 1 .. n :
     /\ KeyOf(codes[i]) = c /\ ~IsUp(codes[i])
     /\ \A j \in i + 1 .. n : KeyOf(codes[j]) # c}

(* Of the shift keys' scancodes among the first n, the last was a press. *)
ShiftedAfter(codes, n) ==
  \E i \in 1 .. n :
    /\ KeyOf(codes[i]) \in Shift /\ ~IsUp(codes[i])
    /\ \A j \in i + 1 .. n : KeyOf(codes[j]) \notin Shift

(* The first n scancodes are in the tables. *)
AllListed(codes, n) == \A i \in 1 .. n : codes[i] % 128 \in Listed

(* Each event is a scancode, in order, and until one came from behind the   *)
(* tables it has the modifiers held at the time.                            *)
KeysDecoded(codes, evs) ==
  \A i \in 1 .. Len(evs) :
    /\ evs[i].scancode = codes[i]
    /\ AllListed(codes, i) =>
         /\ evs[i].modifiers = HeldAfter(codes, i)
         /\ evs[i].character = (IF ShiftedAfter(codes, i - 1) THEN Upper ELSE Lower)[codes[i] % 128]

(* The p-th packet among the bytes. *)
Packet(bytes, p) == SubSeq(bytes, 3 * p - 2, 3 * p)

(* The i-th event is the packet with number f[i]; f goes upwards, through   *)
(* all of the first n packets but those that overflowed.                    *)
MovesDecoded(bytes, n, evs) ==
  \E f \in [1 .. Len(evs) -> 1 .. n] :
    /\ \A i, j \in 1 .. Len(evs) : i < j => f[i] < f[j]
    /\ \A p \in 1 .. n : (\E i \in 1 .. Len(evs) : f[i] = p) <=> ~Overflow(Packet(bytes, p))
    /\ \A i \in 1 .. Len(evs) : evs[i] = Motion(Packet(bytes, f[i]))

(* How many of device d's bytes have left the controller. *)
Taken(d) ==
  Len(sent[d]) - Len(pending[d]) - (IF ctl.full /\ ctl.from = d THEN 1 ELSE 0)

(* As long as neither driver has read a byte that was not meant for it, the *)
(* keyboard's events are the scancodes sent, in order and each once, with   *)
(* the modifiers held at the time (get_event; a scancode from behind the    *)
(* tables may leave a modifier set), and the mouse's events are             *)
(* the packets sent, without the overflowed ones: event_thread of           *)
(* ps2mouse.c never loses its place among the three bytes, whatever bytes   *)
(* of the keyboard come in between.  Nothing that has left the controller   *)
(* is missing.                                                              *)
StreamsDecoded ==
  ~mixed =>
    /\ Len(events["keyboard"]) = Taken("keyboard")
    /\ KeysDecoded(sent["keyboard"], events["keyboard"])
    /\ MovesDecoded(sent["mouse"], Taken("mouse") \div 3, events["mouse"])
=============================================================================
