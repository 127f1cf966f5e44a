--------------------------- MODULE WindowManager ---------------------------
(***************************************************************************)
(* programs/stubbywm: the event thread (event_loop), which alone draws and *)
(* handles the mouse, the keyboard and the clients' updates, the server    *)
(* thread (server_loop), which makes windows, and their clients, consoles  *)
(* as in programs/stubby-console.  Both threads work on the window list    *)
(* and on the list of regions to redraw, without a lock.                   *)
(*                                                                         *)
(* A step of the server thread is one half of its alloc_update or a group  *)
(* of pointer stores of window_list_insert.  A step of the event thread is *)
(* such a group too, or the regions of one event, the drawing of a frame,  *)
(* its copy or its reset_updates.  The screen has one dimension: rows are  *)
(* left out, and with them titles and the status bar.                      *)
(***************************************************************************)
EXTENDS Integers, SequencesExt, FiniteSetsExt

CONSTANTS Client,
          Width,        \* info.width
          WinWidth,     \* of every window
          Border,       \* STUBBYWM_BORDER_SIZE
          Cursor,       \* mouse_cursor.width
          MaxUpdates,   \* MAX_UPDATES
          MouseEvents,  \* bound: what the mouse sends: [flags, x]
          MaxMouse, MaxKeys \* bounds: how many events

ASSUME SizeAssumption ==
  /\ {Width, WinWidth, Cursor} \subseteq Nat \ {0} /\ Border \in Nat
  /\ MaxUpdates \in Nat /\ MaxUpdates > 1
ASSUME ClientAssumption ==      \* a window's id is none of a picture's marks
  IsFiniteSet(Client) /\ {"background", "cursor"} \cap Client = {}
ASSUME EventAssumption ==
  /\ MaxMouse \in Nat /\ MaxKeys \in Nat
  /\ \A e \in MouseEvents : e.flags \subseteq {"left", "right"} /\ e.x \in Int

Null == 0
Nodes == 1 .. Cardinality(Client) + 1    \* a raised window is freed before it is entered
Cells == 0 .. Width - 1
NoWin == [id |-> "none", x |-> 0]

VARIABLES list,     \* winlist: [start, end, node, used]
          updates,  \* updates[0 .. num_updates - 1], intervals [lower, upper)
          mouse,    \* wm->mouse.x
          buf,      \* state->buffer: cell -> what a frame has drawn there
          fb,       \* the framebuffer: cell -> what it shows
          queue,    \* the clients' updates in wm->peripherals: window ids
          event,    \* the event thread: [pc, up_x, node, win]
          server,   \* the server thread: [pc, client, node, win]
          client,   \* client -> [pc, keys, drawn]: key messages and pictures drawn
          count,    \* mouse and key events so far
          clash,    \* were both threads changing the list at once
          raced     \* were both working on the list of regions at once

vars == <<list, updates, mouse, buf, fb, queue, event, server, client, count, clash, raced>>

-----------------------------------------------------------------------------
(* Regions. *)

normalize_point(x) == IF x < 0 THEN 0 ELSE IF x > Width THEN Width ELSE x
Full == <<0, Width>>

(* Mutant of alloc_update: a full list is only emptied. *)
alloc_update_wraps(u, region) ==
  IF Len(u) + 1 >= MaxUpdates THEN <<>> ELSE Append(u, region)

(* The last slot is never used: a list that gets there is replaced by the   *)
(* whole screen.                                                            *)
alloc_update(u, region) ==
  IF Len(u) + 1 >= MaxUpdates THEN <<Full>> ELSE Append(u, region)

update_region(u, a, b) == alloc_update(u, <<normalize_point(Min({a, b})), normalize_point(Max({a, b}))>>)
update_mouse_region(u, x) == update_region(u, x, x + Cursor)

rect_max_coord(win) == normalize_point(win.x + WinWidth)

update_window_region(u, win) ==
  update_region(u, normalize_point(win.x - Border), normalize_point(rect_max_coord(win) + Border))

-----------------------------------------------------------------------------
(* The window list, as functions from lists to lists. *)

(* window_list_insert: the node is linked behind the last, becomes the      *)
(* first if there is none, and becomes the last.                            *)
FreeNode(l) == Min(Nodes \ l.used)

InsertLink(l, n, win) ==
  LET l1 == [l EXCEPT !.used = @ \cup {n}, !.node[n] = [prev |-> l.end, next |-> Null, win |-> win]]
  IN  IF l.end = Null THEN l1 ELSE [l1 EXCEPT !.node[l.end].next = n]
InsertFirst(l, n) == IF l.start = Null THEN [l EXCEPT !.start = n] ELSE l
InsertLast(l, n) == [l EXCEPT !.end = n]

(* window_list_remove: the neighbours, then the ends; the node is freed.    *)
RemoveLinks(l, n) ==
  LET l1 == IF l.node[n].prev = Null THEN l ELSE [l EXCEPT !.node[l.node[n].prev].next = l.node[n].next]
  IN  IF l.node[n].next = Null THEN l1 ELSE [l1 EXCEPT !.node[l.node[n].next].prev = l.node[n].prev]

(* Mutant of RemoveEnds: the end of the list is not looked at. *)
RemoveEnds_start(l, n) ==
  [l EXCEPT !.start = IF @ = n THEN l.node[n].next ELSE @, !.used = @ \ {n}]

RemoveEnds(l, n) ==
  [l EXCEPT !.start = IF @ = n THEN l.node[n].next ELSE @,
            !.end = IF @ = n THEN l.node[n].prev ELSE @,
            !.used = @ \ {n}]

(* The nodes met along a link, as far as there are nodes. *)
Along(l, from, link) ==
  LET at[k \in 0 .. Cardinality(Nodes)] ==
        IF k = 0 THEN from ELSE IF at[k - 1] = Null THEN Null ELSE l.node[at[k - 1]][link]
      met == {k \in DOMAIN at : at[k] # Null}
  IN  [k \in 1 .. Cardinality(met) |-> at[k - 1]]
Forward(l)  == Along(l, l.start, "next")
Backward(l) == Along(l, l.end, "prev")

-----------------------------------------------------------------------------
(* Drawing: what a cell shows when it is drawn, the last window on top.     *)

Borders(win) == win.x - Border .. win.x + WinWidth + Border - 1
Inside(win)  == win.x .. win.x + WinWidth - 1

draw_windows(c) ==
  LET wins == [k \in DOMAIN Forward(list) |-> list.node[Forward(list)[k]].win]
      over == {k \in DOMAIN wins : c \in Borders(wins[k])}
      top == wins[Max(over)]
  IN  IF over = {} THEN <<"background">>
      ELSE IF c \in Inside(top) THEN <<top.id, client[top.id].drawn>>
      ELSE <<top.id, "border">>

Picture(c) == IF c \in mouse .. mouse + Cursor - 1 THEN <<"cursor">> ELSE draw_windows(c)

(* Borders and cursor are drawn whole, but only the regions to redraw get   *)
(* into the framebuffer.  What the buffer holds outside of them, and once   *)
(* the frame is copied, is not told apart.                                  *)
Covered(c) == \E k \in DOMAIN updates : updates[k][1] <= c /\ c < updates[k][2]
Stale == [c \in Cells |-> <<"nothing">>]
Drawn == [c \in Cells |-> IF Covered(c) THEN Picture(c) ELSE Stale[c]]
draw_framebuffer == [c \in Cells |-> IF Covered(c) THEN buf[c] ELSE fb[c]]

Init ==
  /\ list = [start |-> Null, end |-> Null, used |-> {},
             node |-> [n \in Nodes |-> [prev |-> Null, next |-> Null, win |-> NoWin]]]
  /\ updates = <<Full>>
  /\ mouse = 0
  /\ buf = Stale /\ fb = Stale
  /\ queue = <<>>
  /\ event = [pc |-> "draw", up_x |-> 0, node |-> Null, win |-> NoWin]
  /\ server = [pc |-> "listen", client |-> "none", node |-> Null, win |-> NoWin]
  /\ client = [c \in Client |-> [pc |-> "start", keys |-> 0, drawn |-> 0]]
  /\ count = [mouse |-> 0, keys |-> 0]
  /\ clash = FALSE /\ raced = FALSE

-----------------------------------------------------------------------------
(* The clients. *)

(* window_create, and the reply: server_loop then enters the window. *)
server_handle_new_window(c) == [pc |-> "link", client |-> c, node |-> Null, win |-> [id |-> c, x |-> 0]]

(* stubbywm_new_window meets the server; what they exchange on the          *)
(* temporary endpoint, the request, the reply and the five objects, touches *)
(* nothing else and is one step.  The client goes its way before the        *)
(* window is in the list.                                                   *)
stubbywm_new_window(c) ==
  /\ client[c].pc = "start" /\ server.pc = "listen"
  /\ client' = [client EXCEPT ![c].pc = "new"]
  /\ server' = server_handle_new_window(c)
  /\ UNCHANGED <<list, updates, mouse, buf, fb, queue, event, count, clash, raced>>

(* stubbywm_update, behind a picture drawn in the shared buffer: the        *)
(* background at first (draw_background), later what a key asks for         *)
(* (update_loop).  A frame in between would only show the picture early.    *)
stubbywm_update(c) ==
  /\ \/ client[c].pc = "new" /\ client' = [client EXCEPT ![c].pc = "loop", ![c].drawn = 1]
     \/ /\ client[c].pc = "loop" /\ client[c].keys > 0
        /\ client' = [client EXCEPT ![c].keys = @ - 1, ![c].drawn = @ + 1]
  /\ queue' = Append(queue, c)
  /\ UNCHANGED <<list, updates, mouse, buf, fb, event, server, count, clash, raced>>

-----------------------------------------------------------------------------
(* The server thread. *)

Elsewhere == <<mouse, buf, fb, queue, event, count>>

(* A thread that is in the middle of a call on the list, the other now      *)
(* making a step of one.                                                    *)
Halfway == {"ends", "first", "last"}
Clashes(other) == clash' = (clash \/ other \in Halfway)

ServerInserts ==
  /\ \/ /\ server.pc = "link"
        /\ list' = InsertLink(list, FreeNode(list), server.win)
        /\ server' = [server EXCEPT !.pc = "first", !.node = FreeNode(list)]
     \/ /\ server.pc = "first"
        /\ list' = InsertFirst(list, server.node)
        /\ server' = [server EXCEPT !.pc = "last"]
     \/ /\ server.pc = "last"
        /\ list' = InsertLast(list, server.node)
        /\ server' = [server EXCEPT !.pc = "update"]
  /\ Clashes(event.pc)
  /\ UNCHANGED <<updates, client, raced>> /\ UNCHANGED Elsewhere

(* update_window_region, in two steps: alloc_update takes a slot, then it   *)
(* counts and is filled.  Nothing keeps the event thread from the list in   *)
(* between, nor this thread from a list that a frame is being drawn from.   *)
Frame == {"copy", "reset"}

ServerAllocs ==
  /\ server.pc = "update" /\ server' = [server EXCEPT !.pc = "fill"]
  /\ raced' = (raced \/ event.pc \in Frame)
  /\ UNCHANGED <<list, updates, client, clash>> /\ UNCHANGED Elsewhere

(* In a race both threads may take one slot, so that one region is gone, or *)
(* the slot is one that reset_updates gives up.                             *)
Dropped(u, v) == {u} \cup (IF u = <<>> THEN {} ELSE {Append(Front(u), Last(v))})

ServerUpdates ==
  LET added == update_window_region(updates, server.win) IN
  /\ server.pc = "fill"
  /\ \/ updates' = added
     \/ raced /\ updates' \in Dropped(updates, added)
  /\ server' = [pc |-> "listen", client |-> "none", node |-> Null, win |-> NoWin]
  /\ UNCHANGED <<list, client, clash, raced>> /\ UNCHANGED Elsewhere

-----------------------------------------------------------------------------
(* The event thread. *)

Rest == <<server, count>>

(* This thread uses the list of regions, the other perhaps being at it.     *)
Races == raced' = (raced \/ server.pc = "fill")

(* A frame: the background, the windows and the mouse are drawn, the        *)
(* regions copied, and the list is emptied.  A slot that is taken but not   *)
(* filled yet holds some old region, at worst the whole screen, and gets    *)
(* cells copied that were not drawn.                                        *)
Draw ==
  /\ event.pc = "draw" /\ event' = [event EXCEPT !.pc = "copy"]
  /\ buf' = Drawn /\ Races
  /\ UNCHANGED <<list, updates, mouse, fb, queue, client, clash>> /\ UNCHANGED Rest

Copy ==
  /\ event.pc = "copy" /\ event' = [event EXCEPT !.pc = "reset"]
  /\ fb' = draw_framebuffer \/ (server.pc = "fill" /\ fb' = buf)
  /\ buf' = Stale /\ Races
  /\ UNCHANGED <<list, updates, mouse, queue, client, clash>> /\ UNCHANGED Rest

reset_updates ==
  /\ event.pc = "reset" /\ event' = [event EXCEPT !.pc = "wait"]
  /\ updates' = <<>> /\ Races
  /\ UNCHANGED <<list, mouse, buf, fb, queue, client, clash>> /\ UNCHANGED Rest

(* c4rt_peripheral_wait_event, and c4rt_peripheral_have_event until there   *)
(* is none.  Only this thread takes from the queue, so a message is taken   *)
(* and handled in one step.  The drivers' events may be anywhere between    *)
(* the clients' updates: they are not kept in queue, and happen when the    *)
(* thread takes them.                                                       *)
Taking == event.pc \in {"wait", "more"}

NoEvent ==
  /\ event.pc = "more" /\ queue = <<>>
  /\ event' = [event EXCEPT !.pc = "draw"]
  /\ UNCHANGED <<list, updates, mouse, buf, fb, queue, client, clash, raced>> /\ UNCHANGED Rest

(* The window under the mouse, from the top. *)
Hit ==
  LET back == Backward(list)
      under == {k \in DOMAIN back : LET win == list.node[back[k]].win
                                    IN  win.x <= mouse /\ mouse < rect_max_coord(win)}
  IN  IF under = {} THEN Null ELSE back[Min(under)]

(* The end of handle_mouse: the mouse moves, and u are the updates so far.  *)
MouseMoved(u, dx) ==
  LET x == normalize_point(mouse + dx)
  IN  /\ mouse' = x
      /\ updates' = update_mouse_region(u, x)
      /\ event' = [event EXCEPT !.pc = "more", !.up_x = 0, !.node = Null, !.win = NoWin]

Dragged(win, dx) == [win EXCEPT !.x = normalize_point(@ + dx)]

(* handle_mouse: the left button raises a window, the right one drags it.   *)
handle_mouse(ev) ==
  LET u == update_mouse_region(updates, mouse)
      win == list.node[Hit].win
  IN  /\ Taking
      /\ count.mouse < MaxMouse /\ count' = [count EXCEPT !.mouse = @ + 1]
      /\ \/ /\ Hit # Null /\ "left" \in ev.flags
            /\ updates' = update_window_region(u, win)
            /\ event' = [pc |-> "links", up_x |-> ev.x, node |-> Hit, win |-> win]
            /\ UNCHANGED <<list, mouse>>
         \/ /\ Hit # Null /\ ev.flags = {"right"}
            /\ list' = [list EXCEPT !.node[Hit].win = Dragged(win, ev.x)]
            /\ MouseMoved(update_window_region(update_window_region(u, win), Dragged(win, ev.x)), ev.x)
         \/ /\ Hit = Null \/ ev.flags = {}
            /\ MouseMoved(u, ev.x) /\ UNCHANGED list
      /\ Races /\ UNCHANGED <<buf, fb, queue, client, server, clash>>

(* window_list_remove and window_list_insert of the window raised. *)
Raise ==
  /\ \/ /\ event.pc = "links"
        /\ list' = RemoveLinks(list, event.node) /\ event' = [event EXCEPT !.pc = "ends"]
     \/ /\ event.pc = "ends"
        /\ list' = RemoveEnds(list, event.node) /\ event' = [event EXCEPT !.pc = "link"]
     \/ /\ event.pc = "link"
        /\ list' = InsertLink(list, FreeNode(list), event.win)
        /\ event' = [event EXCEPT !.pc = "first", !.node = FreeNode(list)]
     \/ /\ event.pc = "first"
        /\ list' = InsertFirst(list, event.node) /\ event' = [event EXCEPT !.pc = "last"]
     \/ /\ event.pc = "last"
        /\ list' = InsertLast(list, event.node) /\ event' = [event EXCEPT !.pc = "raised"]
  /\ Clashes(server.pc)
  /\ UNCHANGED <<updates, mouse, buf, fb, queue, client, raced>> /\ UNCHANGED Rest

Raised ==
  /\ event.pc = "raised"
  /\ MouseMoved(update_window_region(updates, event.win), event.up_x)
  /\ Races /\ UNCHANGED <<list, buf, fb, queue, client, clash>> /\ UNCHANGED Rest

Handled == event' = [event EXCEPT !.pc = "more"]

(* The top window gets the key. *)
handle_keyboard ==
  /\ Taking /\ Handled
  /\ count.keys < MaxKeys /\ count' = [count EXCEPT !.keys = @ + 1]
  /\ client' = IF list.end = Null THEN client
               ELSE [client EXCEPT ![list.node[list.end].win.id].keys = @ + 1]
  /\ UNCHANGED <<list, updates, mouse, buf, fb, queue, server, clash, raced>>

find_client(id) ==
  LET met == {k \in DOMAIN Forward(list) : list.node[Forward(list)[k]].win.id = id}
  IN  IF met = {} THEN Null ELSE Forward(list)[Min(met)]

(* An update of a window that is not in the list yet fails the assertion,   *)
(* which is only logged, and is dropped.                                    *)
handle_client_update ==
  LET n == find_client(Head(queue)) IN
  /\ Taking /\ Handled /\ queue # <<>> /\ queue' = Tail(queue)
  /\ updates' = IF n = Null THEN updates ELSE update_window_region(updates, list.node[n].win)
  /\ Races /\ UNCHANGED <<list, mouse, buf, fb, client, clash>> /\ UNCHANGED Rest

-----------------------------------------------------------------------------

event_loop ==
  \/ Draw \/ Copy \/ reset_updates \/ NoEvent
  \/ Raise \/ Raised \/ handle_client_update
server_loop == ServerInserts \/ ServerAllocs \/ ServerUpdates
ClientRuns(c) == stubbywm_new_window(c) \/ stubbywm_update(c)

(* What the threads do to the window list once both were changing it at the *)
(* same time, links to freed nodes included, is left out.                   *)
Next ==
  /\ ~clash
  /\ \/ \E ev \in MouseEvents : handle_mouse(ev)
     \/ handle_keyboard
     \/ \E c \in Client : ClientRuns(c)
     \/ server_loop
     \/ event_loop

Spec == Init /\ [][Next]_vars

-----------------------------------------------------------------------------
(* Properties. *)

Surgery == Halfway \cup {"link", "links"}

Entered == {c \in Client : client[c].pc # "start"} \
             (IF server.pc \in {"link", "first", "last"} THEN {server.client} ELSE {})

(* As long as the threads have not both been in the list at once            *)
(* (window_list_insert, window_list_remove), no window is lost or met twice *)
(* by a walk from either end, whatever windows are made, raised and dragged *)
(* in between.                                                              *)
WindowsKept ==
  ~clash /\ event.pc \notin Surgery /\ server.pc \notin Surgery =>
    /\ Forward(list) = Reverse(Backward(list))
    /\ Len(Forward(list)) = Cardinality(Entered)
    /\ {list.node[Forward(list)[k]].win.id : k \in DOMAIN Forward(list)} = Entered

(* When event_loop waits with nothing to redraw, the framebuffer shows the  *)
(* windows, the mouse and what was under them as they are: every change     *)
(* since the last frame was in some update region, also when MAX_UPDATES    *)
(* was reached.  Excepted are races of the threads for the window list, and *)
(* for the regions: the server's alloc_update at the same time as one of    *)
(* the event thread, or during a frame, which may drop a region undrawn.    *)
Shown ==
  ~clash /\ ~raced /\ event.pc = "wait" /\ updates = <<>>
         /\ server.pc \notin Surgery \cup {"update", "fill"} =>
    \A c \in Cells : \/ fb[c] = Picture(c)
                     \/ Picture(c)[1] \in Client /\ fb[c][1] = Picture(c)[1] /\ Contains(queue, Picture(c)[1])
=============================================================================
