------------------------------- MODULE Console -------------------------------
(***************************************************************************)
(* A console in a window: programs/stubby-console and the two programs it  *)
(* starts, a nested display (programs/display) that turns characters into  *)
(* a picture, and forth (programs/forth), whose line reader echoes what is *)
(* typed.  All three use a name server of their own, which asks the outer  *)
(* one for names it does not know (NameServer), so that a program started  *)
(* too early finds the devices of the whole machine instead.               *)
(*                                                                         *)
(* Synchronous messages are steps of both threads.  A request to the name  *)
(* server is one step: NameServer shows that it has the answer of a moment *)
(* inside it.  The window manager and the forth interpreter are external:  *)
(* the one delivers a key's press and release to the window, the other     *)
(* prints something when it is given a line.                               *)
(***************************************************************************)
EXTENDS Integers, Sequences, SequencesExt

CONSTANTS Width, Height,   \* the display's size in characters
          InputSize,       \* sizeof(input), forth's line buffer
          Keys,            \* the characters of the keys there are
          Modifiers,       \* those below KEYBOARD_MOD_END
          Newline, Backspace, Blank, Nul,
          Prompt,          \* "miniforth > ", one character wide
          Smudge,          \* two characters drawn over each other
          Intro,           \* what forth prints when it starts
          Outputs,         \* what the interpreter may print for a line
          MaxKeys,         \* bound: the keys pressed
          MaxOutputs       \* bound: the lines for which it prints anything

ASSUME SizeAssumption ==
  /\ Width \in Nat \ {0}
  /\ Height \in Nat /\ Height > 2
  /\ InputSize \in Nat /\ InputSize > 2

(* The two keys that edit are characters, and they are different ones. *)
ASSUME KeysAssumption == Newline # Backspace /\ Modifiers \cap {Newline, Backspace} = {}

(* forth speaks to its display with the calls of interface/console.h. *)
ASSUME OutputsAssumption ==
  \A prints \in Outputs \cup {Intro} :
    /\ prints \in Seq(Range(prints))
    /\ \A k \in DOMAIN prints : prints[k][1] \in {"put", "set", "clear"}
    /\ \A k \in DOMAIN prints :
         prints[k][1] = "set" => prints[k][2] \in Nat /\ prints[k][3] \in Nat

Names == {"/dev/framebuffer", "/dev/keyboard", "/dev/console-alert", "/dev/console"}

(* What the outer name server answers: the machine's own devices. *)
Outer(name) == IF name = "/dev/console-alert" THEN "none" ELSE "outer"

VARIABLES main,       \* where stubby-console's main is; "update" is update_loop
          iface,      \* its interface_loop: "off", "wait", or at a request
          inner,      \* the names bound at the console's name server
          keyboard,   \* state.keyboard: forth's queue, once it has connected
          from_port,  \* key events the window manager has sent
          dpy,        \* the display: [pc, x, y, screen], screen by row and column
          forth,      \* [pc, display, i, buf]; "away": with what is not its console
          out,        \* what forth has still to send to the display
          events,     \* forth's queue of key events
          typed, dropped, lines, text, odd, printed

(* The last line are histories: typed, the keys pressed; dropped, how many  *)
(* came before forth was connected; lines, those forth has read; text, the  *)
(* lines printed, the last one unfinished; odd, what ScreenShowsText leaves *)
(* out and has happened: a line "long"er than the screen, the cursor        *)
(* "moved"; printed, the outputs.                                           *)
vars == <<main, iface, inner, keyboard, from_port, dpy, forth, out, events,
          typed, dropped, lines, text, odd, printed>>

Rows == 0 .. Height          \* one more than the display has lines
Columns == 0 .. Width - 1
BlankRow == [x \in Columns |-> Blank]

Init ==
  /\ main = "setup" /\ iface = "off"
  /\ inner = [name \in Names |-> "none"]
  /\ keyboard = FALSE
  /\ from_port = << >> /\ out = << >> /\ events = << >>
  /\ dpy = [pc |-> "off", x |-> 0, y |-> 0, screen |-> [y \in Rows |-> BlankRow]]
  /\ forth = [pc |-> "off", display |-> "none", i |-> 0, buf |-> [k \in 0 .. InputSize - 1 |-> Nul]]
  /\ typed = << >> /\ dropped = 0 /\ lines = << >> /\ text = << << >> >>
  /\ odd = {} /\ printed = 0

histories == <<typed, dropped, lines, text, odd, printed>>

nameserver_lookup(name) == IF inner[name] # "none" THEN inner[name] ELSE Outer(name)

-----------------------------------------------------------------------------
(* display.c and framebuffer.c: drawing, on d = [pc, x, y, screen]. *)

(* The picture has room for one line below the last, which is never drawn   *)
(* to; scrolling moves the lines up and copies it.  The copy stops one scan *)
(* line short of that room, inside the line that is never drawn to.         *)
framebuf_scroll(screen) ==
  [y \in Rows |-> IF y < Height THEN screen[y + 1] ELSE screen[y]]

(* A character in the column behind the last lands on the first, a pixel    *)
(* lower.                                                                   *)
framebuf_draw_char(screen, x, y, c) ==
  IF x < Width THEN [screen EXCEPT ![y][x] = c] ELSE [screen EXCEPT ![y][0] = Smudge]

(* Mutant of do_newline: the last line is written over and over. *)
newline_unscrolled(d) ==
  IF d.y + 1 >= Height - 1 THEN [d EXCEPT !.x = 0, !.y = Height - 1]
  ELSE [d EXCEPT !.x = 0, !.y = d.y + 1]

do_newline(d) ==
  IF d.y + 1 >= Height - 1
  THEN [d EXCEPT !.x = 0, !.y = Height - 1, !.screen = framebuf_scroll(d.screen)]
  ELSE [d EXCEPT !.x = 0, !.y = d.y + 1]

do_draw_char(d, c) ==
  CASE c = Newline -> do_newline(d)
    [] c = Backspace /\ d.x > 0 ->
         [d EXCEPT !.x = d.x - 1, !.screen = framebuf_draw_char(d.screen, d.x - 1, d.y, Blank)]
    [] OTHER ->
         LET drawn == [d EXCEPT !.x = d.x + 1, !.screen = framebuf_draw_char(d.screen, d.x, d.y, c)]
         IN IF d.x >= Width THEN do_newline(drawn) ELSE drawn

do_set_position(d, x, y) ==
  IF x < Width /\ y < Height THEN [d EXCEPT !.x = x, !.y = y] ELSE d

do_clear(d) ==
  LET after[n \in 0 .. Height] == IF n = 0 THEN d ELSE do_newline(after[n - 1])
  IN do_set_position(after[Height], 0, 0)

(* A message is <<"put", c>>, <<"set", x, y>> or <<"clear">>. *)
Handled(d, msg) ==
  CASE msg[1] = "put"   -> do_draw_char(d, msg[2])
    [] msg[1] = "set"   -> do_set_position(d, msg[2], msg[3])
    [] msg[1] = "clear" -> do_clear(d)

(* The same for the histories: a line is what was printed since the last    *)
(* newline, less what was taken back.                                       *)
Extended(line, c) ==
  IF c = Backspace /\ line # << >> THEN Front(line) ELSE Append(line, c)

Recorded(msg) ==
  /\ text' = CASE msg[1] = "clear" -> << << >> >>
               [] msg[1] = "put" /\ msg[2] = Newline -> Append(text, << >>)
               [] msg[1] = "put" /\ msg[2] # Newline ->
                    [text EXCEPT ![Len(text)] = Extended(@, msg[2])]
               [] OTHER -> text
  /\ odd' = odd \cup (IF msg[1] = "set" THEN {"moved"} ELSE {})
                \cup (IF dpy.x = Width /\ msg[1] = "put" /\ msg[2] \notin {Newline, Backspace}
                      THEN {"long"} ELSE {})

(* The display's loop takes a message somebody is sending on its port. *)
DisplayTakes(msg) ==
  /\ dpy.pc = "serve"
  /\ dpy' = Handled(dpy, msg)

-----------------------------------------------------------------------------
(* stubby-console's main, one step for each thing others wait for. *)

(* The window is there; start_nameserv and the three names. *)
start_nameserv ==
  /\ main = "setup" /\ main' = "thread"
  /\ inner' = [inner EXCEPT !["/dev/framebuffer"] = "console", !["/dev/keyboard"] = "console",
                            !["/dev/console-alert"] = "alert"]
  /\ UNCHANGED <<iface, keyboard, from_port, dpy, forth, out, events, histories>>

StartInterface ==
  /\ main = "thread" /\ main' = "display"
  /\ iface' = "wait"
  /\ UNCHANGED <<inner, keyboard, from_port, dpy, forth, out, events, histories>>

(* Mutant of StartDisplay: nobody waits for the display. *)
StartDisplay_only ==
  /\ main = "display" /\ main' = "forth"
  /\ dpy' = [dpy EXCEPT !.pc = "info"]
  /\ UNCHANGED <<iface, inner, keyboard, from_port, forth, out, events, histories>>

(* start_servers: the display is started, which looks the framebuffer up;   *)
(* its name is bound.                                                       *)
StartDisplay ==
  /\ main = "display" /\ main' = "first"
  /\ dpy' = [dpy EXCEPT !.pc = "info"]
  /\ UNCHANGED <<iface, inner, keyboard, from_port, forth, out, events, histories>>

(* Two backspaces wait for the display to take messages. *)
WaitForDisplay ==
  /\ main \in {"first", "second"}
  /\ DisplayTakes(<<"put", Backspace>>)
  /\ main' = IF main = "first" THEN "second" ELSE "forth"
  /\ UNCHANGED <<iface, inner, keyboard, from_port, forth, out, events, histories>>

StartForth ==
  /\ main = "forth" /\ main' = "update"
  /\ forth' = [forth EXCEPT !.pc = "display"]
  /\ UNCHANGED <<iface, inner, keyboard, from_port, dpy, out, events, histories>>

IsPress(ev) == ev[2] = "down"

(* An event is passed on to forth, or dropped while there is no forth.      *)
handle_keyboard_event(ev) ==
  /\ events' = IF keyboard THEN Append(events, ev) ELSE events
  /\ dropped' = IF ~keyboard /\ IsPress(ev) THEN dropped + 1 ELSE dropped

update_loop ==
  /\ main = "update" /\ from_port # << >>
  /\ from_port' = Tail(from_port)
  /\ handle_keyboard_event(Head(from_port))
  /\ UNCHANGED <<main, iface, inner, keyboard, dpy, forth, out, typed, lines, text, odd, printed>>

-----------------------------------------------------------------------------
(* The display's start, and interface_loop, which serves it. *)

(* framebuffer_get_info and framebuffer_get_buffer begin with a temporary   *)
(* endpoint, which interface_loop takes.                                    *)
SendTemp ==
  /\ iface = "wait" /\ dpy.pc \in {"info", "buffer"}
  /\ iface' = dpy.pc
  /\ dpy' = [dpy EXCEPT !.pc = "sent"]
  /\ UNCHANGED <<main, inner, keyboard, from_port, forth, out, events, histories>>

(* Mutant of handle_framebuf_request: the buffer is never granted. *)
framebuf_request_unanswered ==
  /\ iface = "info" /\ dpy.pc = "sent"
  /\ dpy' = [dpy EXCEPT !.pc = "buffer"]

handle_framebuf_request ==
  /\ dpy.pc = "sent"
  /\ \/ iface = "info" /\ dpy' = [dpy EXCEPT !.pc = "buffer"]
     \/ iface = "buffer" /\ dpy' = [dpy EXCEPT !.pc = "bind"]

AnswerRequest ==
  /\ handle_framebuf_request
  /\ iface' = "wait"
  /\ UNCHANGED <<main, inner, keyboard, from_port, forth, out, events, histories>>

(* framebuffer_init_nested clears the picture and looks up the port to      *)
(* alert on updates, which nothing uses; the display's loop begins.         *)
BindConsole ==
  /\ dpy.pc = "bind"
  /\ inner' = [inner EXCEPT !["/dev/console"] = "display"]
  /\ dpy' = [dpy EXCEPT !.pc = "serve", !.screen = [y \in Rows |-> BlankRow]]
  /\ UNCHANGED <<main, iface, keyboard, from_port, forth, out, events, histories>>

(* interface_loop is granted an asynchronous endpoint: a keyboard client.   *)
ConnectKeyboard ==
  /\ iface = "wait" /\ forth.pc = "connect"
  /\ keyboard' = TRUE
  /\ forth' = [forth EXCEPT !.pc = "eval"]
  /\ out' = Intro
  /\ UNCHANGED <<main, iface, inner, from_port, dpy, events, histories>>

-----------------------------------------------------------------------------
(* forth.c. *)
LookUpDisplay ==
  /\ forth.pc = "display"
  /\ nameserver_lookup("/dev/console") # "none"
  /\ forth' = [forth EXCEPT !.pc = "keyboard", !.display = nameserver_lookup("/dev/console")]
  /\ UNCHANGED <<main, iface, inner, keyboard, from_port, dpy, out, events, histories>>

(* Whatever is found: interface_loop, or the machine's own keyboard. *)
LookUpKeyboard ==
  /\ forth.pc = "keyboard"
  /\ nameserver_lookup("/dev/keyboard") # "none"
  /\ forth' = [forth EXCEPT !.pc =
       IF nameserver_lookup("/dev/keyboard") = "console" THEN "connect" ELSE "away"]
  /\ UNCHANGED <<main, iface, inner, keyboard, from_port, dpy, out, events, histories>>

(* console_put_char and the like: forth goes on when its display has taken  *)
(* the message.                                                             *)
SendOut ==
  /\ out # << >> /\ forth.display = "display"
  /\ DisplayTakes(Head(out))
  /\ Recorded(Head(out))
  /\ out' = Tail(out)
  /\ UNCHANGED <<main, iface, inner, keyboard, from_port, forth, events, typed, dropped, lines, printed>>

(* read_keyboard begins: the interpreter has used up the line before. *)
ReadKeyboard ==
  /\ forth.pc = "eval" /\ out = << >>
  /\ out' = << <<"put", Prompt>> >>
  /\ forth' = [forth EXCEPT !.pc = "read", !.i = 0]
  /\ UNCHANGED <<main, iface, inner, keyboard, from_port, dpy, events, histories>>

(* A full line has its terminator behind the buffer, in whatever variable   *)
(* the build has put there: nothing that matters; initialized, so that      *)
(* after the line's first character the buffer is cleared and the text      *)
(* forth starts with is read again; or display or keyboard, so that forth   *)
(* is away from its console, and left out from then on.                     *)
Fates(end) == IF end = InputSize THEN {"whole", "again", "away"} ELSE {"whole"}

(* The first n characters of buf are a line, terminated at end, for the     *)
(* interpreter.                                                             *)
EndLine(buf, n, end) ==
  \E fate \in Fates(end), prints \in IF printed < MaxOutputs THEN Outputs ELSE {<< >>} :
    /\ lines' = Append(lines, IF fate = "again" THEN <<buf[0]>> ELSE [k \in 1 .. n |-> buf[k - 1]])
    /\ out' = << <<"put", buf[n - 1]>> >> \o (CASE fate = "whole" -> prints
                                              [] fate = "again" -> prints \o Intro
                                              [] fate = "away"  -> << >>)
    /\ printed' = IF prints = << >> THEN printed ELSE printed + 1
    /\ forth' = [forth EXCEPT !.pc = IF fate = "away" THEN "away" ELSE "eval",
                   !.buf = [k \in DOMAIN buf |-> IF fate = "again" \/ k = end THEN Nul ELSE buf[k]]]

(* The character is sent to the display, then it is a step back or goes     *)
(* into the buffer; a backspace that finds the buffer empty goes in too.    *)
StoreChar(c) ==
  LET buf == [forth.buf EXCEPT ![forth.i] = c] IN
  \/ /\ c = Backspace /\ forth.i > 0
     /\ forth' = [forth EXCEPT !.i = forth.i - 1]
     /\ out' = << <<"put", c>> >>
     /\ UNCHANGED <<lines, printed>>
  \/ /\ c # Backspace \/ forth.i = 0
     /\ c # Newline /\ forth.i + 1 < InputSize - 1
     /\ forth' = [forth EXCEPT !.i = forth.i + 1, !.buf = buf]
     /\ out' = << <<"put", c>> >>
     /\ UNCHANGED <<lines, printed>>
  \/ c = Newline /\ EndLine(buf, forth.i + 1, forth.i + 1)
  \/ /\ c # Backspace \/ forth.i = 0
     /\ c # Newline /\ forth.i + 1 = InputSize - 1
     /\ EndLine(buf, InputSize - 1, InputSize)

(* Mutant of Wanted: releases count as well. *)
Wanted_any(ev) == ev[1] \notin Modifiers

(* What read_keyboard does not skip with goto retry. *)
Wanted(ev) == ev[1] \notin Modifiers /\ ev[2] = "down"

read_keyboard ==
  /\ forth.pc = "read" /\ out = << >> /\ events # << >>
  /\ events' = Tail(events)
  /\ \/ Wanted(Head(events)) /\ StoreChar(Head(events)[1])
     \/ ~Wanted(Head(events)) /\ UNCHANGED <<forth, out, lines, printed>>
  /\ UNCHANGED <<main, iface, inner, keyboard, from_port, dpy, typed, dropped, text, odd>>

-----------------------------------------------------------------------------
(* A key is pressed and let go while the window has the focus. *)
Press(k) ==
  /\ main # "setup" /\ Len(typed) < MaxKeys
  /\ from_port' = from_port \o << <<k, "down">>, <<k, "up">> >>
  /\ typed' = Append(typed, k)
  /\ UNCHANGED <<main, iface, inner, keyboard, dpy, forth, out, events,
                 dropped, lines, text, odd, printed>>

System ==
  \/ start_nameserv \/ StartInterface \/ StartDisplay \/ WaitForDisplay \/ StartForth
  \/ update_loop \/ SendTemp \/ AnswerRequest \/ BindConsole \/ ConnectKeyboard
  \/ LookUpDisplay \/ LookUpKeyboard \/ SendOut \/ ReadKeyboard \/ read_keyboard

Next == System \/ \E k \in Keys : Press(k)

(* The threads are scheduled; nobody has to type. *)
Spec == Init /\ [][Next]_vars /\ WF_vars(System)
-----------------------------------------------------------------------------
(* start_servers and forth's main: forth prints on the display of its own   *)
(* window, although the name server answers with the machine's console for  *)
(* as long as the nested one is not bound.                                  *)
OwnConsole == forth.display \in {"none", "display"}

(* Line editing as a user understands it, apart from the two limits of the  *)
(* code: a backspace on an empty line is a character, and a line is cut off *)
(* when it fills the buffer.                                                *)
EditKey(e, c) ==
  CASE c \in Modifiers -> e
    [] c = Backspace /\ e.cur # << >> -> [e EXCEPT !.cur = Front(e.cur)]
    [] c = Newline -> [done |-> Append(e.done, Append(e.cur, c)), cur |-> << >>]
    [] c \notin Modifiers \cup {Newline, Backspace} /\ Len(e.cur) = InputSize - 2 ->
         [done |-> Append(e.done, Append(e.cur, c)), cur |-> << >>]
    [] OTHER -> [e EXCEPT !.cur = Append(e.cur, c)]

Edited(keys) ==
  LET after[n \in 0 .. Len(keys)] ==
        IF n = 0 THEN [done |-> << >>, cur |-> << >>] ELSE EditKey(after[n - 1], keys[n])
  IN after[Len(keys)]

Presses(queue) == Cardinality({k \in DOMAIN queue : IsPress(queue[k])})

(* A line as it was typed, and as it was read: whole, unless it was cut off *)
(* at the end of the buffer; of such a line only the first character may    *)
(* come through.                                                            *)
ReadAs(done, read) ==
  /\ Len(done) = Len(read)
  /\ \A k \in DOMAIN read :
       \/ read[k] = done[k]
       \/ Len(done[k]) = InputSize - 1 /\ Last(done[k]) # Newline /\ read[k] = <<done[k][1]>>

(* handle_keyboard_event, read_keyboard and minift_get_char: the lines      *)
(* forth reads, and the one it is at, are the keys typed, edited: each      *)
(* press counts once and in order on its way through the window's queue and *)
(* forth's own, releases and modifiers never.  Lost are only keys from      *)
(* before forth was connected and, of a line cut off at the end of the      *)
(* buffer, what follows its first character; the lines after it are whole.  *)
LinesTyped ==
  LET taken == SubSeq(typed, dropped + 1, Len(typed) - Presses(from_port) - Presses(events))
      reading == IF forth.pc = "read" THEN [k \in 1 .. forth.i |-> forth.buf[k - 1]] ELSE << >>
  IN Edited(taken).cur = reading /\ ReadAs(Edited(taken).done, lines)

Padded(line) == [x \in Columns |-> IF x < Len(line) THEN line[x + 1] ELSE Blank]

(* Which of the lines printed is on the first row, and which row has none:  *)
(* the first newline that scrolls puts the cursor two rows below the line   *)
(* it ends, and the row between them scrolls away with the others.          *)
Top(printout) == IF Len(printout) < Height THEN 1 ELSE Len(printout) - Height + 2
Skipped(printout) == 2 * Height - 2 - Len(printout)

RowShown(printout, r) ==
  LET k == IF r < Skipped(printout) THEN Top(printout) + r ELSE Top(printout) + r - 1
  IN IF r # Skipped(printout) /\ k \in 1 .. Len(printout) THEN Padded(printout[k]) ELSE BlankRow

(* do_newline, do_draw_char and do_clear: the picture shows the last lines  *)
(* forth has printed, one to a row and in order, the one it is at last, and *)
(* nothing else, whatever was erased, scrolled and cleared; the two         *)
(* backspaces the console waits with leave no trace.  Left out: pictures    *)
(* after a line that is too long, and after the cursor was moved.           *)
ScreenShowsText ==
  forth.display # "none" /\ odd \cap {"long", "moved"} = {} =>
    \A r \in Rows : dpy.screen[r] = RowShown(text, r)

(* The console's threads and its programs wait for each other in every      *)
(* direction: all the same forth comes up, and takes and echoes whatever is *)
(* typed, unless a full line has led it away from its console.              *)
Settles ==
  <>[](/\ out = << >> /\ from_port = << >>
       /\ forth.pc = "away" \/ (forth.pc = "read" /\ events = << >>))
=============================================================================
