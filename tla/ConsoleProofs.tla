---------------------------- MODULE ConsoleProofs ----------------------------
(***************************************************************************)
(* What Console promises, for displays and line buffers of every size, any *)
(* keys and anything forth prints: it uses the display of its own window,  *)
(* reads what was typed, and the picture shows what it printed.            *)
(***************************************************************************)
EXTENDS Console, FiniteSetTheorems, SequenceTheorems, WellFoundedInduction, TLAPS

-----------------------------------------------------------------------------
(* Induction, without a predicate for a parameter. *)

(* A set of numbers that is not empty has a least one. *)
LEMMA LeastNumber ==
  ASSUME NEW T, T \subseteq Nat, T # {}
  PROVE  \E m \in T : \A k \in T : m <= k
<1>. DEFINE R == {p \in Nat \X Nat : p[1] < p[2]}
<1>1. R = OpToRel(<, Nat)
  BY DEF OpToRel
<1>2. IsWellFoundedOn(R, Nat)
  BY <1>1, NatLessThanWellFounded
<1>. HIDE DEF R
<1>3. PICK m \in T : \A k \in T : ~(<<k, m>> \in R)
  BY <1>2, WFMin
<1>4. ASSUME NEW k \in T
      PROVE  m <= k
  <2>1. <<k, m>> \notin R /\ k \in Nat /\ m \in Nat
    BY <1>3
  <2>2. ~(k < m)
    BY <2>1 DEF R
  <2>. QED BY <2>1, <2>2
<1>. QED BY <1>4

(* Induction, over a set: what holds of 0 and of n + 1 whenever it holds of *)
(* n holds of every number.                                                 *)
LEMMA SetInduction ==
  ASSUME NEW T, 0 \in T, \A n \in Nat : n \in T => n + 1 \in T
  PROVE  \A n \in Nat : n \in T
<1>. DEFINE S == {n \in Nat : n \notin T}
<1>. SUFFICES ASSUME S # {} PROVE FALSE
  OBVIOUS
<1>1. PICK m \in S : \A k \in S : m <= k
  <2>1. S \subseteq Nat
    OBVIOUS
  <2>. HIDE DEF S
  <2>. QED BY <2>1, LeastNumber
<1>2. m \in Nat /\ m # 0 /\ m - 1 \in Nat /\ m - 1 \notin S
  BY <1>1
<1>3. m - 1 \in T /\ m - 1 + 1 = m
  BY <1>2
<1>. QED BY <1>1, <1>2, <1>3

-----------------------------------------------------------------------------
(* Types. *)

Printouts == UNION {Range(prints) : prints \in Outputs \cup {Intro}}
Chars == Keys \cup {Nul, Prompt, Newline, Backspace} \cup {msg[2] : msg \in {m \in Printouts : m[1] = "put"}}
Msgs == Printouts \cup ({"put"} \X Chars)
Pixels == Chars \cup {Blank, Smudge}
Pictures == [Rows -> [Columns -> Pixels]]
Displays == [pc : {"off", "info", "sent", "buffer", "bind", "serve"},
             x : 0 .. Width, y : 0 .. Height - 1, screen : Pictures]

(* Messages are what the display knows, with the arguments it needs. *)
LEMMA MessageTypes ==
  ASSUME NEW msg \in Msgs
  PROVE  /\ msg[1] \in {"put", "set", "clear"}
         /\ msg[1] = "put" => msg[2] \in Chars
         /\ msg[1] = "set" => msg[2] \in Nat /\ msg[3] \in Nat
<1>1. CASE msg \in {"put"} \X Chars
  BY <1>1
<1>2. CASE msg \in Printouts
  <2>1. PICK prints \in Outputs \cup {Intro} : msg \in Range(prints)
    BY <1>2 DEF Printouts
  <2>2. PICK k \in DOMAIN prints : msg = prints[k]
    BY <2>1 DEF Range
  <2>3. msg[1] = "put" => msg[2] \in Chars
    BY <1>2 DEF Chars
  <2>. QED BY <2>1, <2>2, <2>3, OutputsAssumption
<1>. QED BY <1>1, <1>2 DEF Msgs

(* What forth prints is a sequence of messages. *)
LEMMA OutputTypes ==
  ASSUME NEW prints \in Outputs \cup {Intro}
  PROVE  prints \in Seq(Msgs)
<1>1. prints \in Seq(Range(prints))
  BY OutputsAssumption
<1>2. Range(prints) \subseteq Msgs
  BY DEF Msgs, Printouts
<1>. QED BY <1>1, <1>2, SeqMonotonic

-----------------------------------------------------------------------------
(* Drawing keeps to the picture. *)

(* A character goes to one of the cells, or to the first of its row. *)
LEMMA DrawType ==
  ASSUME NEW screen \in Pictures, NEW x \in 0 .. Width, NEW y \in 0 .. Height - 1, NEW c \in Pixels
  PROVE  framebuf_draw_char(screen, x, y, c) \in Pictures
<1>1. y \in Rows /\ Smudge \in Pixels /\ 0 \in Columns /\ (x < Width => x \in Columns)
  BY SizeAssumption DEF Rows, Pixels, Columns
<1>. QED BY <1>1 DEF framebuf_draw_char, Pictures

(* Rows move up. *)
LEMMA ScrollType ==
  ASSUME NEW screen \in Pictures
  PROVE  framebuf_scroll(screen) \in Pictures
BY SizeAssumption DEF framebuf_scroll, Pictures, Rows

(* A display with its cursor and picture changed. *)
Remade(d, x, y, screen) == [pc |-> d.pc, x |-> x, y |-> y, screen |-> screen]
Moved(d, x, y) == [d EXCEPT !.x = x, !.y = y]
Drawn(d, x, screen) == [d EXCEPT !.x = x, !.screen = screen]
Redrawn(d, x, y, screen) == [d EXCEPT !.x = x, !.y = y, !.screen = screen]
IsDisplay(d) == d = Remade(d, d.x, d.y, d.screen)

(* It is a display, with what it was changed to. *)
LEMMA RemadeType ==
  ASSUME NEW d \in Displays, NEW x \in 0 .. Width, NEW y \in 0 .. Height - 1, NEW screen \in Pictures
  PROVE  Remade(d, x, y, screen) \in Displays /\ Remade(d, x, y, screen).pc = d.pc
BY DEF Remade, Displays

(* What the drawing operators make of a display. *)
LEMMA RemadeBy ==
  ASSUME NEW d, IsDisplay(d), NEW x, NEW y, NEW screen
  PROVE  /\ Redrawn(d, x, y, screen) = Remade(d, x, y, screen)
         /\ Moved(d, x, y) = Remade(d, x, y, d.screen)
         /\ Drawn(d, x, screen) = Remade(d, x, d.y, screen)
<1>. DEFINE e == [d EXCEPT !.x = x]
            f == [e EXCEPT !.y = y]
<1>1. d = [pc |-> d.pc, x |-> d.x, y |-> d.y, screen |-> d.screen]
  BY DEF IsDisplay, Remade
<1>2. e = [pc |-> d.pc, x |-> x, y |-> d.y, screen |-> d.screen]
  BY <1>1
<1>3. /\ [d EXCEPT !.x = x, !.y = y] = f
      /\ [d EXCEPT !.x = x, !.screen = screen] = [e EXCEPT !.screen = screen]
      /\ [d EXCEPT !.x = x, !.y = y, !.screen = screen] = [f EXCEPT !.screen = screen]
  OBVIOUS
<1>. HIDE DEF e
<1>4. f = [pc |-> d.pc, x |-> x, y |-> y, screen |-> d.screen]
  BY <1>2
<1>5. [e EXCEPT !.screen = screen] = [pc |-> d.pc, x |-> x, y |-> d.y, screen |-> screen]
  BY <1>2
<1>. HIDE DEF f
<1>6. [f EXCEPT !.screen = screen] = [pc |-> d.pc, x |-> x, y |-> y, screen |-> screen]
  BY <1>4
<1>. QED BY <1>3, <1>4, <1>5, <1>6 DEF Remade, Redrawn, Moved, Drawn

(* The parts of a display. *)
LEMMA DisplayParts ==
  ASSUME NEW d \in Displays
  PROVE  d.x \in 0 .. Width /\ d.y \in 0 .. Height - 1 /\ d.screen \in Pictures /\ IsDisplay(d)
BY DEF Displays, IsDisplay, Remade

(* A newline, with and without scrolling. *)
LEMMA NewlineIs ==
  ASSUME NEW d, IsDisplay(d)
  PROVE  /\ d.y + 1 >= Height - 1 => do_newline(d) = Remade(d, 0, Height - 1, framebuf_scroll(d.screen))
         /\ ~(d.y + 1 >= Height - 1) => do_newline(d) = Remade(d, 0, d.y + 1, d.screen)
<1>1. ASSUME d.y + 1 >= Height - 1
      PROVE  do_newline(d) = Redrawn(d, 0, Height - 1, framebuf_scroll(d.screen))
  BY <1>1, Zenon DEF do_newline, Redrawn
<1>2. ASSUME ~(d.y + 1 >= Height - 1)
      PROVE  do_newline(d) = Moved(d, 0, d.y + 1)
  BY <1>2, Zenon DEF do_newline, Moved
<1>. QED BY <1>1, <1>2, RemadeBy, Zenon

(* A newline leaves a display. *)
LEMMA NewlineType ==
  ASSUME NEW d \in Displays
  PROVE  do_newline(d) \in Displays /\ do_newline(d).pc = d.pc
<1>1. d.x \in 0 .. Width /\ d.y \in 0 .. Height - 1 /\ d.screen \in Pictures /\ IsDisplay(d)
  BY DisplayParts
<1>2. CASE d.y + 1 >= Height - 1
  <2>1. do_newline(d) = Remade(d, 0, Height - 1, framebuf_scroll(d.screen))
    BY <1>1, <1>2, NewlineIs
  <2>2. 0 \in 0 .. Width /\ Height - 1 \in 0 .. Height - 1
    BY SizeAssumption
  <2>3. framebuf_scroll(d.screen) \in Pictures
    BY <1>1, ScrollType
  <2>4. LET e == Remade(d, 0, Height - 1, framebuf_scroll(d.screen)) IN e \in Displays /\ e.pc = d.pc
    BY <2>2, <2>3, RemadeType, Zenon
  <2>. QED BY <2>1, <2>4, Zenon
<1>3. CASE ~(d.y + 1 >= Height - 1)
  <2>1. do_newline(d) = Remade(d, 0, d.y + 1, d.screen)
    BY <1>1, <1>3, NewlineIs
  <2>2. 0 \in 0 .. Width /\ d.y + 1 \in 0 .. Height - 1
    BY <1>1, <1>3, SizeAssumption
  <2>. QED BY <1>1, <2>1, <2>2, RemadeType, Zenon
<1>. QED BY <1>2, <1>3

(* So does a character. *)
LEMMA CharType ==
  ASSUME NEW d \in Displays, NEW c \in Chars
  PROVE  do_draw_char(d, c) \in Displays /\ do_draw_char(d, c).pc = d.pc
<1>1. c \in Pixels /\ Blank \in Pixels
  BY DEF Pixels
<1>2. d.x \in 0 .. Width /\ d.y \in 0 .. Height - 1 /\ d.screen \in Pictures /\ IsDisplay(d)
  BY DisplayParts
<1>3. CASE c = Newline
  BY <1>3, NewlineType, KeysAssumption DEF do_draw_char
<1>4. CASE c = Backspace /\ d.x > 0
  <2>1. d.x - 1 \in 0 .. Width
    BY <1>2, <1>4, SizeAssumption
  <2>. DEFINE pic == framebuf_draw_char(d.screen, d.x - 1, d.y, Blank)
  <2>2. pic \in Pictures
    BY <1>1, <1>2, <2>1, DrawType
  <2>3. do_draw_char(d, c) = Drawn(d, d.x - 1, pic)
    BY <1>4, KeysAssumption, Zenon DEF do_draw_char, Drawn
  <2>. HIDE DEF pic
  <2>4. do_draw_char(d, c) = Remade(d, d.x - 1, d.y, pic)
    BY <1>2, <2>3, RemadeBy, Zenon
  <2>. QED BY <1>2, <2>1, <2>2, <2>4, RemadeType, Zenon
<1>5. CASE c # Newline /\ ~(c = Backspace /\ d.x > 0)
  <2>. DEFINE pic == framebuf_draw_char(d.screen, d.x, d.y, c)
              drawn == Drawn(d, d.x + 1, pic)
  <2>1. do_draw_char(d, c) = IF d.x >= Width THEN do_newline(drawn) ELSE drawn
    BY <1>5, Zenon DEF do_draw_char, Drawn
  <2>2. pic \in Pictures
    BY <1>1, <1>2, DrawType
  <2>. HIDE DEF pic
  <2>3. drawn = Remade(d, d.x + 1, d.y, pic)
    BY <1>2, RemadeBy, Zenon
  <2>4. CASE d.x < Width
    <3>1. d.x + 1 \in 0 .. Width /\ ~(d.x >= Width)
      BY <1>2, <2>4, SizeAssumption
    <3>2. do_draw_char(d, c) = Remade(d, d.x + 1, d.y, pic)
      BY <2>1, <2>3, <3>1
    <3>. QED BY <1>2, <2>2, <3>1, <3>2, RemadeType, Zenon
  <2>5. CASE d.x >= Width
    <3>. DEFINE e == Remade(d, d.x, d.y, pic)
    <3>1. e \in Displays /\ e.pc = d.pc
      BY <1>2, <2>2, RemadeType, Zenon
    <3>2. /\ drawn.pc = d.pc /\ drawn.y = d.y /\ drawn.screen = pic /\ IsDisplay(drawn)
          /\ e.pc = d.pc /\ e.y = d.y /\ e.screen = pic /\ IsDisplay(e)
      BY <2>3 DEF Remade, IsDisplay
    <3>. HIDE DEF drawn, e
    <3>3. \A a, b, q : Remade(drawn, a, b, q) = Remade(e, a, b, q)
      BY <3>2, Zenon DEF Remade
    <3>4. do_newline(drawn) = do_newline(e)
      BY <3>2, <3>3, NewlineIs, Zenon
    <3>. QED BY <2>1, <2>5, <3>1, <3>4, NewlineType
  <2>. QED BY <1>2, <2>4, <2>5, SizeAssumption
<1>. QED BY <1>3, <1>4, <1>5

(* A cursor that is set stays on the display. *)
LEMMA PositionType ==
  ASSUME NEW d \in Displays, NEW x \in Nat, NEW y \in Nat
  PROVE  do_set_position(d, x, y) \in Displays /\ do_set_position(d, x, y).pc = d.pc
<1>1. d.screen \in Pictures /\ IsDisplay(d)
  BY DisplayParts
<1>2. CASE x < Width /\ y < Height
  <2>1. do_set_position(d, x, y) = Moved(d, x, y)
    BY <1>2, Zenon DEF do_set_position, Moved
  <2>3. do_set_position(d, x, y) = Remade(d, x, y, d.screen)
    BY <1>1, <2>1, RemadeBy, Zenon
  <2>2. x \in 0 .. Width /\ y \in 0 .. Height - 1
    BY <1>2, SizeAssumption
  <2>. QED BY <1>1, <2>3, <2>2, RemadeType, Zenon
<1>3. CASE ~(x < Width /\ y < Height)
  BY <1>3 DEF do_set_position
<1>. QED BY <1>2, <1>3

-----------------------------------------------------------------------------
(* do_clear: one newline for each line. *)
Newlines(f, d, n) == f = [k \in 0 .. n |-> IF k = 0 THEN d ELSE do_newline(f[k - 1])]

(* What the definition of do_clear stands for. *)
LEMMA ClearIs ==
  ASSUME NEW d
  PROVE  do_clear(d) = do_set_position((CHOOSE f : Newlines(f, d, Height))[Height], 0, 0)
BY DEF do_clear, Newlines

(* There are displays that follow each other so, for any number of lines. *)
LEMMA NewlinesExist ==
  ASSUME NEW d
  PROVE  \A n \in Nat : \E f : Newlines(f, d, n)
<1>. DEFINE T == {n \in Nat : \E f : Newlines(f, d, n)}
<1>1. 0 \in T
  <2>1. Newlines([k \in 0 .. 0 |-> d], d, 0)
    BY DEF Newlines
  <2>. QED BY <2>1
<1>2. ASSUME NEW n \in Nat, n \in T
      PROVE  n + 1 \in T
  <2>1. PICK f : Newlines(f, d, n)
    BY <1>2
  <2>. DEFINE g == [k \in 0 .. n + 1 |-> IF k = n + 1 THEN do_newline(f[n]) ELSE f[k]]
  <2>2. \A k \in 0 .. n : f[k] = IF k = 0 THEN d ELSE do_newline(f[k - 1])
    BY <2>1 DEF Newlines
  <2>3. \A k \in 0 .. n + 1 : g[k] = IF k = 0 THEN d ELSE do_newline(g[k - 1])
    <3>. SUFFICES ASSUME NEW k \in 0 .. n + 1
                  PROVE  g[k] = IF k = 0 THEN d ELSE do_newline(g[k - 1])
      OBVIOUS
    <3>1. CASE k = n + 1
      BY <3>1
    <3>2. CASE k # n + 1
      BY <3>2, <2>2
    <3>. QED BY <3>1, <3>2
  <2>4. Newlines(g, d, n + 1)
    <3>1. g = [k \in 0 .. n + 1 |-> g[k]]
      OBVIOUS
    <3>. HIDE DEF g
    <3>. QED BY <2>3, <3>1 DEF Newlines
  <2>. QED BY <2>4
<1>3. \A n \in Nat : n \in T
  <2>. HIDE DEF T
  <2>. QED BY <1>1, <1>2, SetInduction
<1>. QED BY <1>3

(* The displays do_clear goes through. *)
LEMMA ClearSteps ==
  ASSUME NEW d
  PROVE  \E f : /\ f[0] = d
                /\ \A k \in 0 .. Height - 1 : f[k + 1] = do_newline(f[k])
                /\ do_clear(d) = do_set_position(f[Height], 0, 0)
<1>. DEFINE f == CHOOSE g : Newlines(g, d, Height)
<1>1. Newlines(f, d, Height)
  BY NewlinesExist, SizeAssumption
<1>2. do_clear(d) = do_set_position(f[Height], 0, 0)
  BY ClearIs
<1>. HIDE DEF f
<1>3. \A k \in 0 .. Height : f[k] = IF k = 0 THEN d ELSE do_newline(f[k - 1])
  BY <1>1 DEF Newlines
<1>4. f[0] = d
  BY <1>3, SizeAssumption
<1>5. ASSUME NEW k \in 0 .. Height - 1
      PROVE  f[k + 1] = do_newline(f[k])
  <2>1. k + 1 \in 0 .. Height /\ k + 1 # 0 /\ k + 1 - 1 = k
    BY SizeAssumption
  <2>. QED BY <1>3, <2>1
<1>. QED BY <1>2, <1>4, <1>5

(* A cleared display is one. *)
LEMMA ClearType ==
  ASSUME NEW d \in Displays
  PROVE  do_clear(d) \in Displays /\ do_clear(d).pc = d.pc
<1>1. PICK f : /\ f[0] = d
               /\ \A k \in 0 .. Height - 1 : f[k + 1] = do_newline(f[k])
               /\ do_clear(d) = do_set_position(f[Height], 0, 0)
  BY ClearSteps
<1>. DEFINE T == {k \in Nat : k <= Height => f[k] \in Displays /\ f[k].pc = d.pc}
<1>2. 0 \in T
  BY <1>1
<1>3. ASSUME NEW k \in Nat, k \in T PROVE k + 1 \in T
  <2>. SUFFICES ASSUME k + 1 <= Height PROVE f[k + 1] \in Displays /\ f[k + 1].pc = d.pc
    OBVIOUS
  <2>1. f[k] \in Displays /\ f[k].pc = d.pc /\ k \in 0 .. Height - 1
    BY <1>3, SizeAssumption
  <2>. QED BY <1>1, <2>1, NewlineType
<1>4. \A k \in Nat : k \in T
  <2>. HIDE DEF T
  <2>. QED BY <1>2, <1>3, SetInduction
<1>5. f[Height] \in Displays /\ f[Height].pc = d.pc
  BY <1>4, SizeAssumption
<1>. QED BY <1>1, <1>5, PositionType

(* Whatever the display is sent, it stays one and keeps serving. *)
LEMMA HandledType ==
  ASSUME NEW d \in Displays, NEW msg \in Msgs
  PROVE  Handled(d, msg) \in Displays /\ Handled(d, msg).pc = d.pc
<1>1. /\ msg[1] \in {"put", "set", "clear"}
      /\ msg[1] = "put" => msg[2] \in Chars
      /\ msg[1] = "set" => msg[2] \in Nat /\ msg[3] \in Nat
  BY MessageTypes
<1>2. CASE msg[1] = "put"
  BY <1>1, <1>2, CharType DEF Handled
<1>3. CASE msg[1] = "set"
  BY <1>1, <1>3, PositionType DEF Handled
<1>4. CASE msg[1] = "clear"
  BY <1>4, ClearType DEF Handled
<1>. QED BY <1>1, <1>2, <1>3, <1>4

-----------------------------------------------------------------------------
(* What the picture shows. *)

Texts == Seq(Seq(Chars))

(* Display d shows the lines of t, with the cursor behind the last one. *)
Shows(d, t) ==
  /\ d.x = Len(t[Len(t)])
  /\ d.y = IF Len(t) < Height THEN Len(t) - 1 ELSE Height - 1
  /\ \A r \in Rows : d.screen[r] = RowShown(t, r)

(* An empty line is a blank row. *)
LEMMA PaddedEmpty == Padded(<< >>) = BlankRow
BY SizeAssumption DEF Padded, BlankRow, Columns

(* A new line before the screen is full leaves the rows as they are. *)
LEMMA RowsStay ==
  ASSUME NEW t \in Texts, Len(t) + 1 < Height, t # << >>, NEW r \in Rows
  PROVE  RowShown(Append(t, << >>), r) = RowShown(t, r)
<1>. DEFINE n == Len(t)
            u == Append(t, << >>)
<1>1. n \in Nat /\ Len(u) = n + 1 /\ u[n + 1] = << >> /\ \A k \in 1 .. n : u[k] = t[k]
  BY DEF Texts
<1>2. /\ Top(t) = 1 /\ Top(u) = 1
      /\ Skipped(t) = 2 * Height - 2 - n /\ Skipped(u) = 2 * Height - 3 - n
  BY <1>1, SizeAssumption DEF Top, Skipped
<1>3. r \in 0 .. Height /\ n + 1 < Height
  BY DEF Rows
<1>. DEFINE s == Skipped(t)
<1>4. /\ RowShown(t, r) = LET k == IF r < s THEN 1 + r ELSE 1 + r - 1
                          IN IF r # s /\ k \in 1 .. n THEN Padded(t[k]) ELSE BlankRow
      /\ RowShown(u, r) = LET k == IF r < Skipped(u) THEN 1 + r ELSE 1 + r - 1
                          IN IF r # Skipped(u) /\ k \in 1 .. n + 1 THEN Padded(u[k]) ELSE BlankRow
  BY <1>1, <1>2, Zenon DEF RowShown
<1>. HIDE DEF n, u, s
<1>5. CASE r < n
  <2>1. r < s /\ r < Skipped(u) /\ 1 + r \in 1 .. n /\ 1 + r \in 1 .. n + 1
    BY <1>1, <1>2, <1>3, <1>5, SizeAssumption DEF s
  <2>2. r # s /\ r # Skipped(u) /\ u[1 + r] = t[1 + r]
    BY <1>1, <1>2, <2>1, SizeAssumption DEF s
  <2>. QED BY <1>4, <2>1, <2>2 DEF u
<1>6. CASE r = n
  <2>1. r < s /\ r < Skipped(u) /\ 1 + r \notin 1 .. n /\ 1 + r = n + 1
    BY <1>1, <1>2, <1>3, <1>6, SizeAssumption DEF s
  <2>. QED BY <1>1, <1>4, <2>1, PaddedEmpty DEF u
<1>7. CASE r > n
  <2>1. 1 + r \notin 1 .. n /\ 1 + r \notin 1 .. n + 1 /\ 1 + r - 1 = r /\ r \notin 1 .. n
    BY <1>1, <1>3, <1>7
  <2>2. r \in 1 .. n + 1 => r < Skipped(u) \/ r = Skipped(u)
    BY <1>1, <1>2, <1>3, <1>7, SizeAssumption
  <2>. QED BY <1>4, <2>1, <2>2 DEF u
<1>. QED BY <1>1, <1>3, <1>5, <1>6, <1>7

(* From then on it moves them all up by one. *)
LEMMA RowsMove ==
  ASSUME NEW t \in Texts, Len(t) + 1 >= Height, t # << >>
  PROVE  /\ \A r \in 0 .. Height - 1 : RowShown(Append(t, << >>), r) = RowShown(t, r + 1)
         /\ RowShown(Append(t, << >>), Height) = RowShown(t, Height)
<1>. DEFINE n == Len(t)
            u == Append(t, << >>)
            s == Skipped(t)
            top == Top(t)
<1>1. n \in Nat /\ Len(u) = n + 1 /\ u[n + 1] = << >> /\ \A k \in 1 .. n : u[k] = t[k]
  BY DEF Texts
<1>2. /\ top = n - Height + 2 /\ Top(u) = top + 1
      /\ s = 2 * Height - 2 - n /\ Skipped(u) = s - 1
  BY <1>1, SizeAssumption DEF Top, Skipped
<1>3. n + 1 >= Height /\ top \in Nat /\ top >= 1
  BY <1>1, <1>2, SizeAssumption
<1>4. /\ \A r : RowShown(t, r) = LET k == IF r < s THEN top + r ELSE top + r - 1
                                 IN IF r # s /\ k \in 1 .. n THEN Padded(t[k]) ELSE BlankRow
      /\ \A r : RowShown(u, r) = LET k == IF r < s - 1 THEN top + 1 + r ELSE top + 1 + r - 1
                                 IN IF r # s - 1 /\ k \in 1 .. n + 1 THEN Padded(u[k]) ELSE BlankRow
  BY <1>1, <1>2, Zenon DEF RowShown
<1>. HIDE DEF n, u, s, top
<1>5. ASSUME NEW r \in 0 .. Height - 1
      PROVE  RowShown(u, r) = RowShown(t, r + 1)
  <2>1. CASE r < s - 1
    <3>1. r + 1 < s /\ top + (r + 1) = top + 1 + r /\ r # s - 1 /\ r + 1 # s
      BY <2>1, <1>2, <1>3, <1>1, SizeAssumption
    <3>2. top + 1 + r <= n /\ top + 1 + r \in 1 .. n
      BY <2>1, <1>1, <1>2, <1>3, SizeAssumption
    <3>. QED BY <2>1, <3>1, <3>2, <1>1, <1>4
  <2>2. CASE r = s - 1
    <3>1. r + 1 = s
      BY <2>2, <1>2, <1>1, SizeAssumption
    <3>. QED BY <2>2, <3>1, <1>4
  <2>3. CASE r > s - 1
    <3>1. ~(r + 1 < s) /\ ~(r < s - 1) /\ r + 1 # s /\ r # s - 1
      BY <2>3, <1>2, <1>1, SizeAssumption
    <3>2. top + (r + 1) - 1 = top + r /\ top + 1 + r - 1 = top + r /\ top + r \in 1 .. n + 1
      BY <1>1, <1>2, <1>3, SizeAssumption
    <3>3. CASE top + r = n + 1
      <4>1. top + r \notin 1 .. n /\ u[top + r] = << >>
        BY <3>3, <1>1
      <4>. QED BY <3>1, <3>2, <4>1, <1>4, PaddedEmpty
    <3>4. CASE top + r # n + 1
      <4>1. top + r \in 1 .. n /\ u[top + r] = t[top + r]
        BY <3>2, <3>4, <1>1
      <4>. QED BY <3>1, <3>2, <4>1, <1>4
    <3>. QED BY <3>3, <3>4
  <2>. QED BY <2>1, <2>2, <2>3, <1>1, <1>2, SizeAssumption
<1>6. RowShown(u, Height) = RowShown(t, Height)
  <2>1. ~(Height < s) /\ ~(Height < s - 1)
    BY <1>1, <1>2, <1>3, SizeAssumption
  <2>2. top + Height - 1 = n + 1 /\ top + 1 + Height - 1 = n + 2
    BY <1>1, <1>2, SizeAssumption
  <2>3. n + 1 \notin 1 .. n /\ n + 2 \notin 1 .. n + 1
    BY <1>1
  <2>4. RowShown(t, Height) = BlankRow
    BY <2>1, <2>2, <2>3, <1>4
  <2>5. RowShown(u, Height) = BlankRow
    BY <2>1, <2>2, <2>3, <1>4
  <2>. QED BY <2>4, <2>5
<1>. QED BY <1>5, <1>6 DEF u

(* A newline shows an empty line. *)
LEMMA NewlineShows ==
  ASSUME NEW d \in Displays, NEW t \in Texts, t # << >>, Shows(d, t)
  PROVE  Shows(do_newline(d), Append(t, << >>)) /\ Append(t, << >>) \in Texts
<1>. DEFINE n == Len(t)
            u == Append(t, << >>)
            e == do_newline(d)
<1>1. n \in Nat /\ n # 0 /\ Len(u) = n + 1 /\ u[n + 1] = << >> /\ u \in Texts
  <2>1. << >> \in Seq(Chars)
    OBVIOUS
  <2>. QED BY <2>1 DEF Texts
<1>2. d.screen \in Pictures /\ IsDisplay(d) /\ d.y \in 0 .. Height - 1
  BY DisplayParts
<1>3. d.y = (IF n < Height THEN n - 1 ELSE Height - 1) /\ \A r \in Rows : d.screen[r] = RowShown(t, r)
  BY DEF Shows
<1>4. CASE n + 1 < Height
  <2>1. ~(d.y + 1 >= Height - 1) /\ d.y + 1 = n
    BY <1>1, <1>3, <1>4, SizeAssumption
  <2>2. e.x = 0 /\ e.y = n /\ e.screen = d.screen
    BY <1>2, <2>1, NewlineIs DEF Remade
  <2>3. \A r \in Rows : d.screen[r] = RowShown(u, r)
    BY <1>3, <1>4, RowsStay
  <2>. HIDE DEF e, u, n
  <2>4. e.x = Len(u[Len(u)]) /\ e.y = IF Len(u) < Height THEN Len(u) - 1 ELSE Height - 1
    BY <1>1, <1>4, <2>2
  <2>5. \A r \in Rows : e.screen[r] = RowShown(u, r)
    BY <2>2, <2>3
  <2>6. Shows(e, u)
    BY <2>4, <2>5 DEF Shows
  <2>. QED BY <1>1, <2>6 DEF e, u
<1>5. CASE n + 1 >= Height
  <2>1. d.y + 1 >= Height - 1
    BY <1>1, <1>3, <1>5, SizeAssumption
  <2>2. e.x = 0 /\ e.y = Height - 1 /\ e.screen = framebuf_scroll(d.screen)
    BY <1>2, <2>1, NewlineIs DEF Remade
  <2>3. /\ \A r \in 0 .. Height - 1 : RowShown(u, r) = RowShown(t, r + 1)
        /\ RowShown(u, Height) = RowShown(t, Height)
    BY <1>5, RowsMove
  <2>. HIDE DEF e, u, n
  <2>4. e.x = Len(u[Len(u)]) /\ e.y = IF Len(u) < Height THEN Len(u) - 1 ELSE Height - 1
    BY <1>1, <1>5, <2>2, SizeAssumption
  <2>5. ASSUME NEW r \in Rows PROVE e.screen[r] = RowShown(u, r)
    <3>1. CASE r < Height
      <4>1. e.screen[r] = d.screen[r + 1] /\ r + 1 \in Rows /\ r \in 0 .. Height - 1
        BY <2>2, <3>1, SizeAssumption DEF framebuf_scroll, Rows
      <4>. QED BY <1>3, <2>3, <4>1
    <3>2. CASE r = Height
      <4>1. e.screen[r] = d.screen[r]
        BY <2>2, <3>2, SizeAssumption DEF framebuf_scroll, Rows
      <4>. QED BY <1>3, <2>3, <3>2, <4>1
    <3>. QED BY <3>1, <3>2, SizeAssumption DEF Rows
  <2>6. Shows(e, u)
    BY <2>4, <2>5 DEF Shows
  <2>. QED BY <1>1, <2>6 DEF e, u
<1>. QED BY <1>1, <1>4, <1>5, SizeAssumption

(* The row of the last line is the cursor's, and no other row is. *)
LEMMA LastRow ==
  ASSUME NEW t \in Texts, t # << >>, NEW s \in Seq(Chars), NEW r \in Rows,
         NEW y, y = IF Len(t) < Height THEN Len(t) - 1 ELSE Height - 1
  PROVE  LET u == [t EXCEPT ![Len(t)] = s] IN
         /\ r # y => RowShown(u, r) = RowShown(t, r)
         /\ RowShown(t, y) = Padded(t[Len(t)])
         /\ RowShown(u, y) = Padded(s)
<1>. DEFINE n == Len(t)
            u == [t EXCEPT ![n] = s]
            top == Top(t)
            k == Skipped(t)
            q == IF r < k THEN top + r ELSE top + r - 1
<1>1. n \in Nat /\ n # 0 /\ Len(u) = n /\ u[n] = s /\ \A i \in 1 .. n - 1 : u[i] = t[i]
  BY DEF Texts
<1>2. Top(u) = top /\ Skipped(u) = k
  BY <1>1 DEF Top, Skipped
<1>3. top = (IF n < Height THEN 1 ELSE n - Height + 2) /\ k = 2 * Height - 2 - n /\ r \in 0 .. Height
  BY <1>1, SizeAssumption DEF Top, Skipped, Rows
<1>. HIDE DEF u
<1>4. /\ \A i : RowShown(t, i) = LET p == IF i < k THEN top + i ELSE top + i - 1
                                 IN IF i # k /\ p \in 1 .. n THEN Padded(t[p]) ELSE BlankRow
      /\ \A i : RowShown(u, i) = LET p == IF i < k THEN top + i ELSE top + i - 1
                                 IN IF i # k /\ p \in 1 .. n THEN Padded(u[p]) ELSE BlankRow
  BY <1>1, <1>2, Zenon DEF RowShown
<1>. HIDE DEF n, u, top, k
<1>5. ASSUME r # y PROVE RowShown(u, r) = RowShown(t, r)
  <2>1. r # k => q # n
    <3>1. CASE n < Height
      <4>1. y = n - 1 /\ top = 1
        BY <1>3, <3>1 DEF n
      <4>. QED BY <1>1, <1>3, <1>5, <3>1, <4>1, SizeAssumption
    <3>2. CASE n >= Height
      <4>1. y = Height - 1 /\ top = n - Height + 2
        BY <1>1, <1>3, <3>2, SizeAssumption DEF n
      <4>. QED BY <1>1, <1>3, <1>5, <3>2, <4>1, SizeAssumption
    <3>. QED BY <1>1, <3>1, <3>2, SizeAssumption
  <2>2. r # k /\ q \in 1 .. n => u[q] = t[q]
    BY <1>1, <1>3, <2>1
  <2>. QED BY <1>4, <2>2, Zenon
<1>6. y # k /\ (IF y < k THEN top + y ELSE top + y - 1) = n /\ n \in 1 .. n
  BY <1>1, <1>3, SizeAssumption DEF n
<1>7. RowShown(t, y) = Padded(t[n]) /\ RowShown(u, y) = Padded(u[n])
  BY <1>4, <1>6, Zenon
<1>. QED BY <1>1, <1>5, <1>7 DEF n, u

(* A line more, and a line less. *)
LEMMA PaddedMore ==
  ASSUME NEW s \in Seq(Chars), Len(s) < Width, NEW c
  PROVE  Padded(Append(s, c)) = [Padded(s) EXCEPT ![Len(s)] = c]
<1>1. Len(s) \in Columns
  BY SizeAssumption DEF Columns
<1>2. Len(Append(s, c)) = Len(s) + 1
  OBVIOUS
<1>3. ASSUME NEW x \in Columns PROVE Padded(Append(s, c))[x] = [Padded(s) EXCEPT ![Len(s)] = c][x]
  <2>1. x \in Nat
    BY DEF Columns
  <2>2. CASE x < Len(s)
    BY <1>2, <2>1, <2>2 DEF Padded
  <2>3. CASE x = Len(s)
    BY <1>2, <2>1, <2>3 DEF Padded
  <2>4. CASE x > Len(s)
    BY <1>2, <2>1, <2>4 DEF Padded
  <2>. QED BY <2>1, <2>2, <2>3, <2>4
<1>. QED BY <1>3 DEF Padded

(* A sequence without its last element. *)
LEMMA FrontIs ==
  ASSUME NEW S, NEW s \in Seq(S), s # << >>
  PROVE  /\ Front(s) \in Seq(S)
         /\ Len(Front(s)) = Len(s) - 1
         /\ \A k \in 1 .. Len(s) - 1 : Front(s)[k] = s[k]
<1>. DEFINE m == Len(s) - 1
            t == SubSeq(s, 1, m)
<1>1. m \in Nat /\ Len(s) = m + 1 /\ \A i \in 1 .. m : s[i] \in S
  OBVIOUS
<1>. HIDE DEF m
<1>2. /\ t \in Seq(S)
      /\ Len(t) = IF 1 <= m THEN m - 1 + 1 ELSE 0
      /\ \A i \in 1 .. m - 1 + 1 : t[i] = s[1 + i - 1]
  BY <1>1, SubSeqProperties
<1>. HIDE DEF t
<1>3. Len(t) = m /\ \A i \in 1 .. m : t[i] = s[i]
  <2>1. m - 1 + 1 = m /\ \A i \in 1 .. m : 1 + i - 1 = i
    BY <1>1
  <2>. QED BY <1>1, <1>2, <2>1
<1>. QED BY <1>2, <1>3 DEF Front, m, t

(* A character taken back leaves a blank. *)
LEMMA PaddedLess ==
  ASSUME NEW s \in Seq(Chars), Len(s) \in 1 .. Width
  PROVE  Padded(Front(s)) = [Padded(s) EXCEPT ![Len(s) - 1] = Blank]
<1>1. Len(s) - 1 \in Columns
  BY SizeAssumption DEF Columns
<1>2. Len(Front(s)) = Len(s) - 1 /\ \A k \in 1 .. Len(s) - 1 : Front(s)[k] = s[k]
  BY FrontIs
<1>3. ASSUME NEW x \in Columns PROVE Padded(Front(s))[x] = [Padded(s) EXCEPT ![Len(s) - 1] = Blank][x]
  <2>1. x \in Nat
    BY DEF Columns
  <2>2. CASE x < Len(s) - 1
    <3>1. x + 1 \in 1 .. Len(s) - 1
      BY <2>1, <2>2
    <3>. QED BY <1>2, <2>1, <2>2, <3>1 DEF Padded
  <2>3. CASE x = Len(s) - 1
    BY <1>2, <2>1, <2>3 DEF Padded
  <2>4. CASE x > Len(s) - 1
    BY <1>2, <2>1, <2>4 DEF Padded
  <2>. QED BY <2>1, <2>2, <2>3, <2>4
<1>. QED BY <1>3 DEF Padded

(* Writing one cell of the cursor's row, so that it shows line s. *)
LEMMA LineShows ==
  ASSUME NEW d \in Displays, NEW t \in Texts, t # << >>, Shows(d, t), NEW s \in Seq(Chars),
         NEW x \in Columns, NEW c, Padded(s) = [Padded(t[Len(t)]) EXCEPT ![x] = c]
  PROVE  LET pic == framebuf_draw_char(d.screen, x, d.y, c)
             u == [t EXCEPT ![Len(t)] = s]
         IN Shows(Remade(d, Len(s), d.y, pic), u) /\ u \in Texts
<1>. DEFINE n == Len(t)
            pic == framebuf_draw_char(d.screen, x, d.y, c)
            u == [t EXCEPT ![n] = s]
            e == Remade(d, Len(s), d.y, pic)
<1>1. n \in Nat /\ n # 0 /\ Len(u) = n /\ u[n] = s /\ u \in Texts
  BY DEF Texts
<1>2. d.screen \in Pictures /\ d.y \in 0 .. Height - 1 /\ d.y \in Rows
  BY DisplayParts, SizeAssumption DEF Rows
<1>3. d.y = (IF n < Height THEN n - 1 ELSE Height - 1) /\ \A r \in Rows : d.screen[r] = RowShown(t, r)
  BY DEF Shows
<1>4. x < Width
  BY SizeAssumption DEF Columns
<1>5. pic = [d.screen EXCEPT ![d.y][x] = c]
  BY <1>4, Zenon DEF framebuf_draw_char
<1>6. e.x = Len(s) /\ e.y = d.y /\ e.screen = pic
  BY DEF Remade
<1>7. ASSUME NEW r \in Rows
      PROVE  pic[r] = RowShown(u, r)
  <2>1. /\ r # d.y => RowShown(u, r) = RowShown(t, r)
        /\ RowShown(t, d.y) = Padded(t[n])
        /\ RowShown(u, d.y) = Padded(s)
    BY <1>3, LastRow
  <2>. HIDE DEF u
  <2>2. CASE r # d.y
    BY <1>2, <1>3, <1>5, <2>1, <2>2 DEF Pictures
  <2>3. CASE r = d.y
    <3>1. pic[r] = [d.screen[r] EXCEPT ![x] = c]
      BY <1>2, <1>5, <2>3 DEF Pictures
    <3>2. d.screen[r] = Padded(t[n])
      BY <1>3, <2>1, <2>3
    <3>. QED BY <2>1, <2>3, <3>1, <3>2
  <2>. QED BY <2>2, <2>3
<1>. HIDE DEF u, e, pic
<1>8. Shows(e, u)
  BY <1>1, <1>3, <1>6, <1>7 DEF Shows
<1>. QED BY <1>1, <1>8 DEF u, e, pic

(* The text after a character that is no newline. *)
Longer(t, c) == [t EXCEPT ![Len(t)] = Extended(t[Len(t)], c)]

(* What a character does to the last line, unless the line is too long. *)
LEMMA CharShows ==
  ASSUME NEW d \in Displays, NEW t \in Texts, t # << >>, Shows(d, t), NEW c \in Chars,
         c # Newline, d.x < Width \/ c = Backspace
  PROVE  Shows(do_draw_char(d, c), Longer(t, c)) /\ Longer(t, c) \in Texts
<1>. DEFINE last == t[Len(t)]
            s == Extended(last, c)
<1>1. last \in Seq(Chars) /\ d.x = Len(last)
  <2>1. Len(t) \in 1 .. Len(t) /\ t \in Seq(Seq(Chars))
    BY DEF Texts
  <2>. QED BY <2>1, ElementOfSeq DEF Shows
<1>2. d.x \in 0 .. Width /\ IsDisplay(d)
  BY DisplayParts
<1>. HIDE DEF last
<1>3. CASE c = Backspace /\ d.x > 0
  <2>1. last # << >> /\ Len(last) \in 1 .. Width /\ d.x - 1 \in Columns
    BY <1>1, <1>2, <1>3, SizeAssumption DEF Columns
  <2>2. s = Front(last)
    BY <1>3, <2>1 DEF Extended
  <2>3. s \in Seq(Chars) /\ Len(s) = d.x - 1
    BY <1>1, <2>1, <2>2, FrontIs
  <2>4. Padded(s) = [Padded(last) EXCEPT ![d.x - 1] = Blank]
    BY <1>1, <2>1, <2>2, PaddedLess
  <2>. DEFINE pic == framebuf_draw_char(d.screen, d.x - 1, d.y, Blank)
  <2>5. do_draw_char(d, c) = Drawn(d, d.x - 1, pic)
    BY <1>3, KeysAssumption, Zenon DEF do_draw_char, Drawn
  <2>. HIDE DEF s
  <2>6. do_draw_char(d, c) = Remade(d, Len(s), d.y, pic)
    <3>. HIDE DEF pic
    <3>. QED BY <1>2, <2>3, <2>5, RemadeBy, Zenon
  <2>7. Shows(Remade(d, Len(s), d.y, pic), [t EXCEPT ![Len(t)] = s]) /\ [t EXCEPT ![Len(t)] = s] \in Texts
    BY <2>1, <2>3, <2>4, LineShows, Zenon DEF last
  <2>. QED BY <2>6, <2>7, Zenon DEF s, last, Longer
<1>4. CASE ~(c = Backspace /\ d.x > 0)
  <2>1. Len(last) < Width /\ d.x < Width /\ d.x \in Columns /\ (c = Backspace => last = << >>)
    BY <1>1, <1>2, <1>4, SizeAssumption DEF Columns
  <2>2. s = Append(last, c)
    BY <2>1 DEF Extended
  <2>3. s \in Seq(Chars) /\ Len(s) = d.x + 1
    BY <1>1, <2>2
  <2>4. Padded(s) = [Padded(last) EXCEPT ![d.x] = c]
    BY <1>1, <2>1, <2>2, PaddedMore
  <2>. DEFINE pic == framebuf_draw_char(d.screen, d.x, d.y, c)
  <2>5. do_draw_char(d, c) = Drawn(d, d.x + 1, pic)
    <3>1. ~(d.x >= Width)
      BY <1>2, <2>1, SizeAssumption
    <3>. QED BY <1>4, <3>1, Zenon DEF do_draw_char, Drawn
  <2>. HIDE DEF s
  <2>6. do_draw_char(d, c) = Remade(d, Len(s), d.y, pic)
    <3>. HIDE DEF pic
    <3>. QED BY <1>2, <2>3, <2>5, RemadeBy, Zenon
  <2>7. Shows(Remade(d, Len(s), d.y, pic), [t EXCEPT ![Len(t)] = s]) /\ [t EXCEPT ![Len(t)] = s] \in Texts
    BY <2>1, <2>3, <2>4, LineShows, Zenon DEF last
  <2>. QED BY <2>6, <2>7, Zenon DEF s, last, Longer
<1>. QED BY <1>3, <1>4

(* The text of a cleared screen, and of one on which nothing was printed. *)
NoText == << << >> >>

(* It has no row that is not blank. *)
LEMMA NothingShown ==
  ASSUME NEW r \in Rows
  PROVE  RowShown(NoText, r) = BlankRow
<1>1. Len(NoText) = 1 /\ NoText[1] = << >>
  BY DEF NoText
<1>2. \A k \in 1 .. 1 : Padded(NoText[k]) = BlankRow
  BY <1>1, PaddedEmpty
<1>. QED BY <1>1, <1>2, Zenon DEF RowShown

(* Height empty lines push everything off the screen. *)
LEMMA AllScrolled ==
  ASSUME NEW n \in Nat, NEW u \in Texts, Len(u) = n + Height,
         \A i \in n + 1 .. n + Height : u[i] = << >>, NEW r \in Rows
  PROVE  RowShown(u, r) = BlankRow
<1>1. Top(u) = n + 2 /\ r \in 0 .. Height
  BY SizeAssumption DEF Top, Rows
<1>. DEFINE k == IF r < Skipped(u) THEN Top(u) + r ELSE Top(u) + r - 1
<1>2. k >= n + 1 /\ k \in Int
  BY <1>1
<1>3. k \in 1 .. Len(u) => k \in n + 1 .. n + Height
  BY <1>2, SizeAssumption
<1>4. k \in 1 .. Len(u) => Padded(u[k]) = BlankRow
  BY <1>3, PaddedEmpty
<1>. QED BY <1>4, Zenon DEF RowShown

(* do_clear leaves nothing, and the cursor at the top. *)
LEMMA ClearShows ==
  ASSUME NEW d \in Displays, NEW t \in Texts, t # << >>, Shows(d, t)
  PROVE  Shows(do_clear(d), NoText) /\ NoText \in Texts
<1>1. PICK f : /\ f[0] = d
               /\ \A k \in 0 .. Height - 1 : f[k + 1] = do_newline(f[k])
               /\ do_clear(d) = do_set_position(f[Height], 0, 0)
  BY ClearSteps
<1>. DEFINE n == Len(t)
            Scrolled(k) == \E u \in Texts : /\ Shows(f[k], u) /\ Len(u) = n + k
                                            /\ \A i \in n + 1 .. n + k : u[i] = << >>
            T == {k \in Nat : k <= Height => f[k] \in Displays /\ Scrolled(k)}
<1>2. n \in Nat /\ n # 0
  BY DEF Texts
<1>3. 0 \in T
  <2>1. Shows(f[0], t) /\ Len(t) = n + 0 /\ \A i \in n + 1 .. n + 0 : t[i] = << >>
    BY <1>1, <1>2
  <2>2. Scrolled(0)
    BY <2>1
  <2>. HIDE DEF Scrolled
  <2>. QED BY <1>1, <2>2
<1>. HIDE DEF n
<1>4. ASSUME NEW k \in Nat, k \in T PROVE k + 1 \in T
  <2>. SUFFICES ASSUME k + 1 <= Height PROVE f[k + 1] \in Displays /\ Scrolled(k + 1)
    <3>. HIDE DEF Scrolled
    <3>. QED OBVIOUS
  <2>1. f[k] \in Displays /\ Scrolled(k) /\ k \in 0 .. Height - 1
    <3>. HIDE DEF Scrolled
    <3>. QED BY <1>4, SizeAssumption
  <2>2. PICK u \in Texts : /\ Shows(f[k], u) /\ Len(u) = n + k
                           /\ \A i \in n + 1 .. n + k : u[i] = << >>
    BY <2>1
  <2>. DEFINE v == Append(u, << >>)
  <2>3. f[k + 1] = do_newline(f[k]) /\ u # << >>
    BY <1>1, <1>2, <2>1, <2>2
  <2>4. f[k + 1] \in Displays
    BY <2>1, <2>3, NewlineType
  <2>5. Shows(f[k + 1], v) /\ v \in Texts
    BY <2>1, <2>2, <2>3, NewlineShows
  <2>6. Len(v) = n + (k + 1) /\ \A i \in n + 1 .. n + (k + 1) : v[i] = << >>
    <3>1. u \in Seq(Seq(Chars)) /\ Len(u) \in Nat /\ Len(v) = Len(u) + 1
      BY DEF Texts
    <3>2. \A i \in 1 .. Len(u) : v[i] = u[i]
      BY <3>1
    <3>3. v[Len(u) + 1] = << >>
      BY <3>1
    <3>. HIDE DEF v
    <3>4. ASSUME NEW i \in n + 1 .. n + (k + 1) PROVE v[i] = << >>
      <4>1. CASE i = Len(u) + 1
        BY <3>3, <4>1
      <4>2. CASE i # Len(u) + 1
        <5>1. i \in 1 .. Len(u) /\ i \in n + 1 .. n + k
          BY <1>2, <2>2, <4>2
        <5>. QED BY <2>2, <3>2, <5>1
      <4>. QED BY <4>1, <4>2
    <3>. QED BY <1>2, <2>2, <3>1, <3>4
  <2>. HIDE DEF v
  <2>7. Scrolled(k + 1)
    BY <2>5, <2>6
  <2>. QED BY <2>4, <2>7
<1>5. \A k \in Nat : k \in T
  <2>. HIDE DEF T
  <2>. QED BY <1>3, <1>4, SetInduction
<1>6. Height \in Nat /\ Height <= Height /\ 0 < Width /\ 0 < Height
  BY SizeAssumption
<1>7. f[Height] \in Displays /\ Scrolled(Height)
  <2>. HIDE DEF Scrolled
  <2>. QED BY <1>5, <1>6
<1>8. PICK u \in Texts : /\ Shows(f[Height], u) /\ Len(u) = n + Height
                         /\ \A i \in n + 1 .. n + Height : u[i] = << >>
  BY <1>7
<1>. DEFINE e == f[Height]
<1>9. \A r \in Rows : e.screen[r] = RowShown(NoText, r)
  <2>1. \A r \in Rows : e.screen[r] = RowShown(u, r)
    BY <1>8 DEF Shows
  <2>2. \A r \in Rows : RowShown(u, r) = BlankRow
    BY <1>2, <1>8, AllScrolled
  <2>. QED BY <2>1, <2>2, NothingShown
<1>10. do_clear(d) = Moved(e, 0, 0)
  BY <1>1, <1>6, Zenon DEF do_set_position, Moved
<1>11. do_clear(d) = Remade(e, 0, 0, e.screen)
  BY <1>7, <1>10, DisplayParts, RemadeBy, Zenon
<1>12. do_clear(d).x = 0 /\ do_clear(d).y = 0 /\ do_clear(d).screen = e.screen
  BY <1>11 DEF Remade
<1>13. Len(NoText) = 1 /\ NoText[1] = << >> /\ NoText \in Texts
  BY DEF NoText, Texts
<1>14. 1 < Height
  BY SizeAssumption
<1>. QED BY <1>9, <1>12, <1>13, <1>14 DEF Shows

-----------------------------------------------------------------------------
(* The invariant. *)

Events == Keys \X {"down", "up"}

TypeOK ==
  /\ main \in {"setup", "thread", "display", "first", "second", "forth", "update"}
  /\ iface \in {"off", "wait", "info", "buffer"}
  /\ inner \in [Names -> {"none", "console", "alert", "display"}]
  /\ keyboard \in BOOLEAN
  /\ from_port \in Seq(Events) /\ events \in Seq(Events)
  /\ dpy \in Displays
  /\ forth \in [pc : {"off", "display", "keyboard", "connect", "eval", "read", "away"},
                display : {"none", "outer", "display"}, i : 0 .. InputSize - 2,
                buf : [0 .. InputSize - 1 -> Chars]]
  /\ out \in Seq(Msgs)
  /\ typed \in Seq(Keys) /\ dropped \in Nat
  /\ lines \in Seq(Seq(Chars))
  /\ text \in Texts /\ text # << >>

(* Nobody can ask for the console before the display serves it. *)
Consoles ==
  /\ inner["/dev/console"] = IF dpy.pc = "serve" THEN "display" ELSE "none"
  /\ main \in {"setup", "thread", "display"} => dpy.pc = "off"
  /\ main \in {"second", "forth", "update"} => dpy.pc = "serve"
  /\ forth.pc # "off" => main = "update"
  /\ forth.pc \in {"off", "display"} => forth.display = "none"
  /\ OwnConsole

(* The events of the keys typed, in the order they are sent: the j-th, how  *)
(* many of the first j are presses, how many have left from_port, and how   *)
(* many forth has read or were dropped.                                     *)
Sent(j) == <<typed[(j + 1) \div 2], IF j % 2 = 1 THEN "down" ELSE "up">>
Pressed(j) == (j + 1) \div 2
Passed == 2 * Len(typed) - Len(from_port)
Gone == Passed - Len(events)

Queues ==
  /\ Gone >= 0
  /\ \A k \in 1 .. Len(from_port) : from_port[k] = Sent(Passed + k)
  /\ \A k \in 1 .. Len(events) : events[k] = Sent(Gone + k)
  /\ Presses(from_port) = Len(typed) - Pressed(Passed)
  /\ Presses(events) = Pressed(Passed) - Pressed(Gone)
  /\ dropped <= Pressed(Gone)
  /\ ~keyboard => events = << >> /\ dropped = Pressed(Passed)

Reading == IF forth.pc = "read" THEN [k \in 1 .. forth.i |-> forth.buf[k - 1]] ELSE << >>

LineRight ==
  \E done \in Seq(Seq(Chars)) :
    /\ Edited(SubSeq(typed, dropped + 1, Pressed(Gone))) = [done |-> done, cur |-> Reading]
    /\ ReadAs(done, lines)

Picture ==
  /\ dpy.pc # "serve" => dpy.x = 0 /\ dpy.y = 0
  /\ forth.display = "none" => text = NoText
  /\ main = "first" /\ dpy.pc = "serve" => Shows(dpy, NoText)
  /\ main = "second" => Shows(dpy, << <<Backspace>> >>)
  /\ main \in {"forth", "update"} /\ odd \cap {"long", "moved"} = {} => Shows(dpy, text)

Inv == TypeOK /\ Consoles /\ Queues /\ LineRight /\ Picture

-----------------------------------------------------------------------------
(* Line editing, key by key. *)
NoKeys == [done |-> << >>, cur |-> << >>]
Edits(f, keys, n) == f = [k \in 0 .. n |-> IF k = 0 THEN NoKeys ELSE EditKey(f[k - 1], keys[k])]

(* What the definition of Edited stands for. *)
LEMMA EditedIs ==
  ASSUME NEW keys
  PROVE  Edited(keys) = (CHOOSE f : Edits(f, keys, Len(keys)))[Len(keys)]
BY DEF Edited, Edits, NoKeys

(* There are lines that follow each other so, for any number of keys. *)
LEMMA EditsExist ==
  ASSUME NEW keys
  PROVE  \A n \in Nat : \E f : Edits(f, keys, n)
<1>. DEFINE T == {n \in Nat : \E f : Edits(f, keys, n)}
<1>1. 0 \in T
  <2>1. Edits([k \in 0 .. 0 |-> NoKeys], keys, 0)
    BY DEF Edits
  <2>. QED BY <2>1
<1>2. ASSUME NEW n \in Nat, n \in T
      PROVE  n + 1 \in T
  <2>1. PICK f : Edits(f, keys, n)
    BY <1>2
  <2>. DEFINE g == [k \in 0 .. n + 1 |-> IF k = n + 1 THEN EditKey(f[n], keys[n + 1]) ELSE f[k]]
  <2>2. \A k \in 0 .. n : f[k] = IF k = 0 THEN NoKeys ELSE EditKey(f[k - 1], keys[k])
    BY <2>1 DEF Edits
  <2>3. \A k \in 0 .. n + 1 : g[k] = IF k = 0 THEN NoKeys ELSE EditKey(g[k - 1], keys[k])
    <3>. SUFFICES ASSUME NEW k \in 0 .. n + 1
                  PROVE  g[k] = IF k = 0 THEN NoKeys ELSE EditKey(g[k - 1], keys[k])
      OBVIOUS
    <3>1. CASE k = n + 1
      BY <3>1
    <3>2. CASE k # n + 1
      BY <3>2, <2>2
    <3>. QED BY <3>1, <3>2
  <2>4. Edits(g, keys, n + 1)
    <3>1. g = [k \in 0 .. n + 1 |-> g[k]]
      OBVIOUS
    <3>. HIDE DEF g
    <3>. QED BY <2>3, <3>1 DEF Edits
  <2>. QED BY <2>4
<1>3. \A n \in Nat : n \in T
  <2>. HIDE DEF T
  <2>. QED BY <1>1, <1>2, SetInduction
<1>. QED BY <1>3

(* The lines Edited goes through. *)
LEMMA EditSteps ==
  ASSUME NEW S, NEW keys \in Seq(S)
  PROVE  \E f : /\ f[0] = NoKeys
                /\ \A k \in 0 .. Len(keys) - 1 : f[k + 1] = EditKey(f[k], keys[k + 1])
                /\ Edited(keys) = f[Len(keys)]
<1>. DEFINE n == Len(keys)
            f == CHOOSE g : Edits(g, keys, n)
<1>1. n \in Nat
  OBVIOUS
<1>2. Edits(f, keys, n) /\ Edited(keys) = f[n]
  BY <1>1, EditsExist, EditedIs
<1>. HIDE DEF f, n
<1>3. \A k \in 0 .. n : f[k] = IF k = 0 THEN NoKeys ELSE EditKey(f[k - 1], keys[k])
  BY <1>2 DEF Edits
<1>4. f[0] = NoKeys
  BY <1>1, <1>3
<1>5. ASSUME NEW k \in 0 .. n - 1
      PROVE  f[k + 1] = EditKey(f[k], keys[k + 1])
  <2>1. k + 1 \in 0 .. n /\ k + 1 # 0 /\ k + 1 - 1 = k
    BY <1>1
  <2>. QED BY <1>3, <2>1
<1>. QED BY <1>2, <1>4, <1>5 DEF n

(* No keys make no line. *)
LEMMA EditedNone == Edited(<< >>) = NoKeys
<1>1. << >> \in Seq({}) /\ Len(<< >>) = 0
  OBVIOUS
<1>. QED BY <1>1, EditSteps

(* One more key is one more edit. *)
LEMMA EditedMore ==
  ASSUME NEW S, NEW keys \in Seq(S), NEW c \in S
  PROVE  Edited(Append(keys, c)) = EditKey(Edited(keys), c)
<1>. DEFINE n == Len(keys)
            more == Append(keys, c)
<1>1. n \in Nat /\ more \in Seq(S) /\ Len(more) = n + 1 /\ more[n + 1] = c
      /\ \A k \in 1 .. n : more[k] = keys[k]
  OBVIOUS
<1>2. PICK f : /\ f[0] = NoKeys
               /\ \A k \in 0 .. n - 1 : f[k + 1] = EditKey(f[k], keys[k + 1])
               /\ Edited(keys) = f[n]
  BY EditSteps
<1>. HIDE DEF n, more
<1>3. PICK g : /\ g[0] = NoKeys
               /\ \A k \in 0 .. n + 1 - 1 : g[k + 1] = EditKey(g[k], more[k + 1])
               /\ Edited(more) = g[n + 1]
  <2>1. \E g : /\ g[0] = NoKeys
               /\ \A k \in 0 .. Len(more) - 1 : g[k + 1] = EditKey(g[k], more[k + 1])
               /\ Edited(more) = g[Len(more)]
    BY <1>1, EditSteps
  <2>. QED BY <1>1, <2>1
<1>. DEFINE T == {k \in Nat : k <= n => f[k] = g[k]}
<1>4. 0 \in T
  BY <1>2, <1>3
<1>5. ASSUME NEW k \in Nat, k \in T PROVE k + 1 \in T
  <2>. SUFFICES ASSUME k + 1 <= n PROVE f[k + 1] = g[k + 1]
    OBVIOUS
  <2>1. f[k] = g[k] /\ k \in 0 .. n - 1 /\ k \in 0 .. n + 1 - 1 /\ k + 1 \in 1 .. n
    BY <1>1, <1>5
  <2>2. more[k + 1] = keys[k + 1]
    BY <1>1, <2>1
  <2>. QED BY <1>2, <1>3, <2>1, <2>2
<1>6. \A k \in Nat : k \in T
  <2>. HIDE DEF T
  <2>. QED BY <1>4, <1>5, SetInduction
<1>7. f[n] = g[n] /\ n \in 0 .. n + 1 - 1
  BY <1>1, <1>6
<1>. QED BY <1>1, <1>2, <1>3, <1>7 DEF more

-----------------------------------------------------------------------------
(* Presses in a queue. *)

One(ev) == IF IsPress(ev) THEN 1 ELSE 0

(* An empty queue has none. *)
LEMMA PressesNone == Presses(<< >>) = 0
<1>1. {k \in DOMAIN << >> : IsPress(<< >>[k])} = {}
  OBVIOUS
<1>. QED BY <1>1, FS_EmptySet DEF Presses

(* One more event. *)
LEMMA PressesMore ==
  ASSUME NEW S, NEW q \in Seq(S), NEW ev \in S
  PROVE  Presses(q) \in Nat /\ Presses(Append(q, ev)) = Presses(q) + One(ev)
<1>. DEFINE n == Len(q)
            r == Append(q, ev)
            Before == {k \in DOMAIN q : IsPress(q[k])}
            After == {k \in DOMAIN r : IsPress(r[k])}
<1>1. n \in Nat /\ DOMAIN q = 1 .. n /\ DOMAIN r = 1 .. n + 1 /\ r[n + 1] = ev
      /\ \A k \in 1 .. n : r[k] = q[k]
  OBVIOUS
<1>2. IsFiniteSet(Before) /\ Cardinality(Before) \in Nat
  <2>1. Before \subseteq 1 .. n
    BY <1>1
  <2>2. IsFiniteSet(1 .. n)
    BY <1>1, FS_Interval
  <2>. QED BY <2>1, <2>2, FS_Subset, FS_CardinalityType
<1>. HIDE DEF r, n
<1>3. CASE IsPress(ev)
  <2>1. After = Before \cup {n + 1} /\ n + 1 \notin Before
    BY <1>1, <1>3
  <2>. HIDE DEF After, Before
  <2>2. Cardinality(After) = Cardinality(Before) + 1
    BY <1>2, <2>1, FS_AddElement
  <2>. QED BY <1>2, <1>3, <2>2 DEF Presses, One, After, Before, r
<1>4. CASE ~IsPress(ev)
  <2>1. After = Before
    BY <1>1, <1>4
  <2>2. Presses(r) = Presses(q)
    BY <2>1, Zenon DEF Presses
  <2>3. Presses(q) \in Nat
    BY <1>2, Zenon DEF Presses
  <2>. QED BY <1>4, <2>2, <2>3 DEF One, r
<1>. QED BY <1>3, <1>4

(* One event less. *)
LEMMA PressesLess ==
  ASSUME NEW S, NEW q \in Seq(S), q # << >>
  PROVE  Presses(Tail(q)) \in Nat /\ Presses(q) = Presses(Tail(q)) + One(Head(q))
<1>. DEFINE n == Len(q)
            r == Tail(q)
            Before == {k \in DOMAIN q : IsPress(q[k])}
            After == {k \in DOMAIN r : IsPress(r[k])}
            Rest == Before \ {1}
            Shift == [k \in After |-> k + 1]
<1>1. n \in Nat \ {0} /\ DOMAIN q = 1 .. n /\ DOMAIN r = 1 .. n - 1 /\ Head(q) = q[1]
      /\ \A k \in 1 .. n - 1 : r[k] = q[k + 1]
  <2>1. r \in Seq(S) /\ Len(r) = n - 1
    OBVIOUS
  <2>2. DOMAIN r = 1 .. n - 1
    BY <2>1
  <2>. QED BY <2>2
<1>. HIDE DEF n, r
<1>2. IsFiniteSet(Before) /\ IsFiniteSet(After) /\ IsFiniteSet(Rest)
  <2>1. Before \subseteq 1 .. n /\ After \subseteq 1 .. n /\ Rest \subseteq 1 .. n
    BY <1>1
  <2>2. IsFiniteSet(1 .. n)
    BY <1>1, FS_Interval
  <2>. QED BY <2>1, <2>2, FS_Subset, Zenon
<1>3. Cardinality(After) = Cardinality(Rest)
  <2>1. Shift \in [After -> Rest]
    BY <1>1
  <2>2. \A a, b \in After : Shift[a] = Shift[b] => a = b
    BY <1>1
  <2>3. \A b \in Rest : \E a \in After : Shift[a] = b
    <3>. SUFFICES ASSUME NEW b \in Rest PROVE \E a \in After : Shift[a] = b
      OBVIOUS
    <3>1. b - 1 \in After /\ b - 1 + 1 = b
      BY <1>1
    <3>2. Shift[b - 1] = b
      BY <3>1
    <3>. QED BY <3>1, <3>2
  <2>4. Shift \in Bijection(After, Rest)
    <3>. HIDE DEF Shift, After, Rest
    <3>. QED BY <2>1, <2>2, <2>3 DEF Bijection, Injection, IsInjective, Surjection
  <2>. HIDE DEF Shift, After, Rest
  <2>5. ExistsBijection(After, Rest)
    BY <2>4 DEF ExistsBijection
  <2>. QED BY <1>2, <2>5, FS_Bijection
<1>4. Cardinality(After) \in Nat
  BY <1>2, FS_CardinalityType, Zenon
<1>5. CASE IsPress(q[1])
  <2>1. Before = Rest \cup {1} /\ 1 \notin Rest
    BY <1>1, <1>5
  <2>. HIDE DEF Rest, Before, After
  <2>2. Cardinality(Before) = Cardinality(Rest) + 1
    BY <1>2, <2>1, FS_AddElement
  <2>. QED BY <1>1, <1>3, <1>4, <1>5, <2>2 DEF Presses, One, After, Before, r
<1>6. CASE ~IsPress(q[1])
  <2>1. Before = Rest
    BY <1>1, <1>6
  <2>. HIDE DEF Rest, Before, After
  <2>2. Presses(q) = Cardinality(Before) /\ Presses(r) = Cardinality(After) /\ One(Head(q)) = 0
    BY <1>1, <1>6, Zenon DEF Presses, One, After, Before
  <2>. QED BY <1>3, <1>4, <2>1, <2>2 DEF r
<1>. QED BY <1>5, <1>6

-----------------------------------------------------------------------------
(* The invariant holds at first. *)
LEMMA InitInv ==
  ASSUME Init
  PROVE  Inv
<1>. USE DEF Init
<1>1. dpy \in Displays
  <2>1. BlankRow \in [Columns -> Pixels]
    BY DEF BlankRow, Pixels
  <2>2. [y \in Rows |-> BlankRow] \in Pictures
    BY <2>1 DEF Pictures
  <2>. QED BY <2>2, SizeAssumption DEF Displays
<1>2. Nul \in Chars /\ 0 \in 0 .. InputSize - 2
  BY SizeAssumption DEF Chars
<1>3. text \in Texts /\ text # << >> /\ text = NoText
  BY DEF Texts, NoText
<1>4. TypeOK
  <2>1. [k \in 0 .. InputSize - 1 |-> Nul] \in [0 .. InputSize - 1 -> Chars]
    BY <1>2
  <2>2. forth \in [pc : {"off", "display", "keyboard", "connect", "eval", "read", "away"},
                   display : {"none", "outer", "display"}, i : 0 .. InputSize - 2,
                   buf : [0 .. InputSize - 1 -> Chars]]
    BY <1>2, <2>1
  <2>3. /\ << >> \in Seq(Events) /\ << >> \in Seq(Msgs) /\ << >> \in Seq(Keys)
        /\ << >> \in Seq(Seq(Chars))
    OBVIOUS
  <2>. QED BY <1>1, <1>3, <2>2, <2>3 DEF TypeOK
<1>5. Consoles
  BY DEF Consoles, OwnConsole, Names
<1>6. Passed = 0 /\ Gone = 0 /\ Pressed(0) = 0
  BY DEF Passed, Gone, Pressed
<1>7. Queues
  BY <1>6, PressesNone DEF Queues
<1>8. LineRight
  <2>1. SubSeq(typed, dropped + 1, 0) = << >>
    BY SubSeqEmpty
  <2>2. << >> \in Seq(Seq(Chars)) /\ ReadAs(<< >>, lines)
    BY DEF ReadAs
  <2>. QED BY <1>6, <2>1, <2>2, EditedNone DEF LineRight, Reading, NoKeys
<1>9. Picture
  BY <1>3 DEF Picture
<1>. QED BY <1>4, <1>5, <1>7, <1>8, <1>9 DEF Inv

(* What the steps that are no part of typing and reading leave alone. *)
LEMMA ReadingStays ==
  ASSUME Inv, UNCHANGED <<from_port, events, typed, dropped, lines>>,
         keyboard' \in {keyboard, TRUE}, Reading' = Reading
  PROVE  Queues' /\ LineRight'
<1>1. Passed' = Passed /\ Gone' = Gone
  BY DEF Passed, Gone
<1>2. Queues'
  <2>1. \A j : Sent(j)' = Sent(j)
    BY DEF Sent
  <2>2. Pressed(Passed)' = Pressed(Passed) /\ Pressed(Gone)' = Pressed(Gone)
    BY <1>1 DEF Pressed
  <2>3. Presses(from_port)' = Presses(from_port) /\ Presses(events)' = Presses(events)
    BY Zenon DEF Presses
  <2>4. keyboard \in BOOLEAN
    BY DEF Inv, TypeOK
  <2>. QED BY <1>1, <2>1, <2>2, <2>3, <2>4 DEF Queues, Inv
<1>3. LineRight'
  <2>1. Pressed(Gone)' = Pressed(Gone)
    BY <1>1 DEF Pressed
  <2>. QED BY <2>1 DEF LineRight, Inv
<1>. QED BY <1>2, <1>3

(* And the same of the picture. *)
LEMMA PictureStays ==
  ASSUME Inv, UNCHANGED <<main, dpy, text>>, forth'.display = forth.display,
         odd' \cap {"long", "moved"} = odd \cap {"long", "moved"}
  PROVE  Picture'
BY DEF Inv, Picture, Shows, RowShown, Top, Skipped, Padded, NoText

-----------------------------------------------------------------------------
(* One lemma for each step. *)

(* The three names; "/dev/console" is none of them. *)
LEMMA NameserverStep ==
  ASSUME Inv, start_nameserv
  PROVE  Inv'
<1>. USE DEF start_nameserv, histories
<1>1. TypeOK'
  BY DEF Inv, TypeOK
<1>2. Consoles'
  BY DEF Inv, TypeOK, Consoles, OwnConsole, Names
<1>3. Reading' = Reading
  BY DEF Reading
<1>4. Picture'
  BY DEF Inv, Picture, Shows, RowShown, Top, Skipped, Padded, NoText
<1>. QED BY <1>1, <1>2, <1>3, <1>4, ReadingStays DEF Inv

(* The interface's thread. *)
LEMMA InterfaceStep ==
  ASSUME Inv, StartInterface
  PROVE  Inv'
<1>. USE DEF StartInterface, histories
<1>1. TypeOK'
  BY DEF Inv, TypeOK
<1>2. Consoles'
  BY DEF Inv, TypeOK, Consoles, OwnConsole
<1>3. Reading' = Reading
  BY DEF Reading
<1>4. Picture'
  BY DEF Inv, Picture, Shows, RowShown, Top, Skipped, Padded, NoText
<1>. QED BY <1>1, <1>2, <1>3, <1>4, ReadingStays DEF Inv

(* A display that is not serving goes from one step of its start to another. *)
LEMMA DisplayGoes ==
  ASSUME Inv, NEW p \in {"info", "sent", "buffer", "bind"}, dpy' = [dpy EXCEPT !.pc = p]
  PROVE  /\ dpy' \in Displays /\ dpy'.pc = p /\ dpy'.x = dpy.x /\ dpy'.y = dpy.y
BY DEF Inv, TypeOK, Displays

(* The display is started: it does not serve yet. *)
LEMMA StartDisplayStep ==
  ASSUME Inv, StartDisplay
  PROVE  Inv'
<1>. USE DEF StartDisplay, histories
<1>0. /\ dpy' \in Displays /\ dpy'.pc = "info" /\ dpy'.x = dpy.x /\ dpy'.y = dpy.y
  BY DisplayGoes
<1>1. TypeOK'
  BY <1>0 DEF Inv, TypeOK
<1>2. Consoles'
  BY <1>0 DEF Inv, Consoles, OwnConsole
<1>3. Reading' = Reading
  BY DEF Reading
<1>4. Picture'
  BY <1>0 DEF Inv, Consoles, Picture
<1>. QED BY <1>1, <1>2, <1>3, <1>4, ReadingStays DEF Inv

(* The first backspace is drawn, the second one takes it back. *)
LEMMA WaitStep ==
  ASSUME Inv, WaitForDisplay
  PROVE  Inv'
<1>. USE DEF WaitForDisplay, DisplayTakes, histories
<1>. DEFINE msg == <<"put", Backspace>>
<1>1. msg \in Msgs /\ Backspace \in Chars /\ Backspace # Newline
  BY KeysAssumption DEF Msgs, Chars
<1>2. dpy \in Displays /\ dpy.pc = "serve"
  BY DEF Inv, TypeOK
<1>3. dpy' \in Displays /\ dpy'.pc = "serve"
  BY <1>1, <1>2, HandledType
<1>4. dpy' = do_draw_char(dpy, Backspace)
  BY DEF Handled
<1>5. TypeOK'
  BY <1>3 DEF Inv, TypeOK
<1>6. Consoles'
  BY <1>2, <1>3 DEF Inv, Consoles, OwnConsole
<1>7. Reading' = Reading
  BY DEF Reading
<1>. DEFINE one == << <<Backspace>> >>
<1>8. /\ NoText \in Texts /\ one \in Texts /\ NoText # << >> /\ one # << >>
      /\ Len(NoText) = 1 /\ Len(one) = 1 /\ NoText[1] = << >> /\ one[1] = <<Backspace>>
  <2>1. <<Backspace>> \in Seq(Chars) /\ << >> \in Seq(Chars)
    BY <1>1
  <2>. QED BY <2>1 DEF NoText, Texts
<1>9. Longer(NoText, Backspace) = one /\ Longer(one, Backspace) = NoText
  <2>1. Extended(<< >>, Backspace) = <<Backspace>> /\ Extended(<<Backspace>>, Backspace) = Front(<<Backspace>>)
    BY DEF Extended
  <2>2. Front(<<Backspace>>) = << >>
    BY DEF Front
  <2>3. \A a, b : [<<a>> EXCEPT ![1] = b] = <<b>>
    OBVIOUS
  <2>. QED BY <1>8, <2>1, <2>2, <2>3 DEF NoText, Longer
<1>. HIDE DEF one
<1>10. CASE main = "first"
  <2>1. Shows(dpy, NoText)
    BY <1>2, <1>10 DEF Inv, Picture
  <2>2. dpy.x < Width
    BY <1>8, <2>1, SizeAssumption DEF Shows
  <2>3. Shows(dpy', one)
    BY <1>1, <1>2, <1>4, <1>8, <1>9, <2>1, <2>2, CharShows, Zenon
  <2>4. Picture'
    BY <1>3, <1>10, <2>3 DEF Inv, Picture, one
  <2>. QED BY <1>5, <1>6, <1>7, <2>4, ReadingStays DEF Inv
<1>11. CASE main = "second"
  <2>1. Shows(dpy, one)
    BY <1>11 DEF Inv, Picture, one
  <2>2. Shows(dpy', NoText)
    BY <1>1, <1>2, <1>4, <1>8, <1>9, <2>1, CharShows, Zenon
  <2>3. text' = NoText
    BY <1>11 DEF Inv, TypeOK, Consoles, Picture
  <2>4. Picture'
    BY <1>3, <1>11, <2>2, <2>3 DEF Inv, Picture
  <2>. QED BY <1>5, <1>6, <1>7, <2>4, ReadingStays DEF Inv
<1>. QED BY <1>10, <1>11

(* forth is started. *)
LEMMA StartForthStep ==
  ASSUME Inv, StartForth
  PROVE  Inv'
<1>. USE DEF StartForth, histories
<1>1. forth'.pc = "display" /\ forth'.display = forth.display /\ forth.pc # "read"
  BY DEF Inv, TypeOK, Consoles
<1>2. TypeOK'
  BY DEF Inv, TypeOK
<1>3. Consoles'
  BY <1>1 DEF Inv, TypeOK, Consoles, OwnConsole
<1>4. Reading' = Reading
  BY <1>1 DEF Reading
<1>5. Picture'
  <2>1. dpy.pc = "serve" /\ (odd \cap {"long", "moved"} = {} => Shows(dpy, text))
    BY DEF Inv, Consoles, Picture
  <2>2. Shows(dpy, text)' <=> Shows(dpy, text)
    BY DEF Shows, RowShown, Top, Skipped, Padded
  <2>. QED BY <1>1, <2>1, <2>2 DEF Inv, Picture
<1>. QED BY <1>2, <1>3, <1>4, <1>5, ReadingStays DEF Inv

(* The display asks for what it needs. *)
LEMMA SendTempStep ==
  ASSUME Inv, SendTemp
  PROVE  Inv'
<1>. USE DEF SendTemp, histories
<1>1. /\ dpy' \in Displays /\ dpy'.pc = "sent" /\ dpy'.x = dpy.x /\ dpy'.y = dpy.y
  BY DisplayGoes
<1>2. TypeOK'
  BY <1>1 DEF Inv, TypeOK
<1>3. Consoles'
  BY <1>1 DEF Inv, Consoles, OwnConsole
<1>4. Reading' = Reading
  BY DEF Reading
<1>5. Picture'
  BY <1>1 DEF Inv, Consoles, Picture
<1>. QED BY <1>2, <1>3, <1>4, <1>5, ReadingStays DEF Inv

(* And gets it. *)
LEMMA AnswerStep ==
  ASSUME Inv, AnswerRequest
  PROVE  Inv'
<1>. USE DEF AnswerRequest, histories
<1>1. dpy.pc = "sent" /\ \E p \in {"buffer", "bind"} : dpy' = [dpy EXCEPT !.pc = p]
  BY DEF handle_framebuf_request
<1>2. /\ dpy' \in Displays /\ dpy'.pc \in {"buffer", "bind"} /\ dpy'.x = dpy.x /\ dpy'.y = dpy.y
  BY <1>1, DisplayGoes
<1>3. TypeOK'
  BY <1>2 DEF Inv, TypeOK
<1>4. Consoles'
  BY <1>1, <1>2 DEF Inv, Consoles, OwnConsole
<1>5. Reading' = Reading
  BY DEF Reading
<1>6. Picture'
  BY <1>1, <1>2 DEF Inv, Consoles, Picture
<1>. QED BY <1>3, <1>4, <1>5, <1>6, ReadingStays DEF Inv

(* The name is bound when the picture is blank. *)
LEMMA BindStep ==
  ASSUME Inv, BindConsole
  PROVE  Inv'
<1>. USE DEF BindConsole, histories
<1>1. [y \in Rows |-> BlankRow] \in Pictures
  <2>1. BlankRow \in [Columns -> Pixels]
    BY DEF BlankRow, Pixels
  <2>. QED BY <2>1 DEF Pictures
<1>2. dpy' \in Displays
  BY <1>1 DEF Inv, TypeOK, Displays
<1>3. /\ dpy'.pc = "serve" /\ dpy'.x = dpy.x /\ dpy'.y = dpy.y
      /\ dpy'.screen = [y \in Rows |-> BlankRow]
  BY DEF Inv, TypeOK, Displays
<1>4. TypeOK'
  BY <1>2 DEF Inv, TypeOK
<1>5. Consoles'
  BY <1>3 DEF Inv, TypeOK, Consoles, OwnConsole, Names
<1>6. Reading' = Reading
  BY DEF Reading
<1>7. Shows(dpy', NoText)
  <2>1. Len(NoText) = 1 /\ NoText[1] = << >>
    BY DEF NoText
  <2>2. dpy'.x = 0 /\ dpy'.y = 0
    BY <1>3 DEF Inv, Picture
  <2>3. \A r \in Rows : dpy'.screen[r] = RowShown(NoText, r)
    BY <1>3, NothingShown
  <2>. QED BY <2>1, <2>2, <2>3, SizeAssumption DEF Shows
<1>8. Picture'
  <2>1. main \notin {"second", "forth", "update"}
    BY DEF Inv, Consoles
  <2>. QED BY <1>3, <1>7, <2>1 DEF Inv, Picture
<1>. QED BY <1>4, <1>5, <1>6, <1>8, ReadingStays DEF Inv

(* The keyboard's client: from now on events are kept. *)
LEMMA ConnectStep ==
  ASSUME Inv, ConnectKeyboard
  PROVE  Inv'
<1>. USE DEF ConnectKeyboard, histories
<1>1. Intro \in Seq(Msgs)
  BY OutputTypes
<1>2. forth'.pc = "eval" /\ forth'.display = forth.display
  BY DEF Inv, TypeOK
<1>3. TypeOK'
  BY <1>1 DEF Inv, TypeOK
<1>4. Consoles'
  BY <1>2 DEF Inv, TypeOK, Consoles, OwnConsole
<1>5. Reading' = Reading
  BY <1>2 DEF Reading
<1>6. Picture'
  BY <1>2, PictureStays
<1>. QED BY <1>3, <1>4, <1>5, <1>6, ReadingStays DEF Inv

(* forth finds the display of its window: it serves by now. *)
LEMMA LookUpDisplayStep ==
  ASSUME Inv, LookUpDisplay
  PROVE  Inv'
<1>. USE DEF LookUpDisplay, histories
<1>1. main = "update" /\ dpy.pc = "serve" /\ inner["/dev/console"] = "display"
  BY DEF Inv, Consoles
<1>2. nameserver_lookup("/dev/console") = "display"
  BY <1>1 DEF nameserver_lookup
<1>3. forth'.pc = "keyboard" /\ forth'.display = "display"
  BY <1>2 DEF Inv, TypeOK
<1>4. TypeOK'
  BY <1>2 DEF Inv, TypeOK
<1>5. Consoles'
  BY <1>1, <1>3 DEF Inv, Consoles, OwnConsole
<1>6. Reading' = Reading
  BY <1>3 DEF Reading
<1>7. Picture'
  <2>1. odd \cap {"long", "moved"} = {} => Shows(dpy, text)
    BY <1>1 DEF Inv, Picture
  <2>2. Shows(dpy, text)' <=> Shows(dpy, text)
    BY DEF Shows, RowShown, Top, Skipped, Padded
  <2>. QED BY <1>1, <1>3, <2>1, <2>2 DEF Picture
<1>. QED BY <1>4, <1>5, <1>6, <1>7, ReadingStays DEF Inv

(* And its keyboard. *)
LEMMA LookUpKeyboardStep ==
  ASSUME Inv, LookUpKeyboard
  PROVE  Inv'
<1>. USE DEF LookUpKeyboard, histories
<1>1. forth'.pc \in {"connect", "away"} /\ forth'.display = forth.display
  BY DEF Inv, TypeOK
<1>2. TypeOK'
  BY DEF Inv, TypeOK
<1>3. Consoles'
  BY <1>1 DEF Inv, TypeOK, Consoles, OwnConsole
<1>4. Reading' = Reading
  BY <1>1 DEF Reading
<1>5. Picture'
  BY <1>1, PictureStays
<1>. QED BY <1>2, <1>3, <1>4, <1>5, ReadingStays DEF Inv

(* read_keyboard begins with an empty line. *)
LEMMA ReadKeyboardStep ==
  ASSUME Inv, ReadKeyboard
  PROVE  Inv'
<1>. USE DEF ReadKeyboard, histories
<1>1. forth'.pc = "read" /\ forth'.display = forth.display /\ forth'.i = 0
  BY DEF Inv, TypeOK
<1>2. <<"put", Prompt>> \in Msgs /\ 0 \in 0 .. InputSize - 2
  BY SizeAssumption DEF Msgs, Chars
<1>3. out' \in Seq(Msgs)
  BY <1>2
<1>4. TypeOK'
  BY <1>2, <1>3 DEF Inv, TypeOK
<1>5. Consoles'
  BY <1>1 DEF Inv, TypeOK, Consoles, OwnConsole
<1>6. Reading' = Reading
  BY <1>1 DEF Reading
<1>7. Picture'
  BY <1>1, PictureStays
<1>. QED BY <1>4, <1>5, <1>6, <1>7, ReadingStays DEF Inv

(* A line stays one. *)
LEMMA LongerType ==
  ASSUME NEW t \in Texts, t # << >>, NEW c \in Chars
  PROVE  Longer(t, c) \in Texts /\ Longer(t, c) # << >>
<1>1. Len(t) \in 1 .. Len(t) /\ t \in Seq(Seq(Chars)) /\ t[Len(t)] \in Seq(Chars)
  <2>1. Len(t) \in 1 .. Len(t) /\ t \in Seq(Seq(Chars))
    BY DEF Texts
  <2>. QED BY <2>1, ElementOfSeq
<1>. DEFINE s == Extended(t[Len(t)], c)
<1>2. s \in Seq(Chars)
  <2>1. Append(t[Len(t)], c) \in Seq(Chars)
    BY <1>1
  <2>2. t[Len(t)] # << >> => Front(t[Len(t)]) \in Seq(Chars)
    BY <1>1, FrontIs
  <2>. QED BY <2>1, <2>2 DEF Extended
<1>. HIDE DEF s
<1>3. [t EXCEPT ![Len(t)] = s] \in Seq(Seq(Chars)) /\ Len([t EXCEPT ![Len(t)] = s]) = Len(t)
  BY <1>1, <1>2, ExceptSeq
<1>4. Longer(t, c) = [t EXCEPT ![Len(t)] = s]
  BY DEF Longer, s
<1>. QED BY <1>1, <1>3, <1>4 DEF Texts

(* Whatever forth sends, the picture shows the text it makes. *)
LEMMA SendOutStep ==
  ASSUME Inv, SendOut
  PROVE  Inv'
<1>. USE DEF SendOut, DisplayTakes
<1>. DEFINE msg == Head(out)
<1>1. msg \in Msgs /\ out' \in Seq(Msgs)
  BY DEF Inv, TypeOK
<1>2. dpy \in Displays /\ dpy.pc = "serve" /\ dpy' = Handled(dpy, msg) /\ Recorded(msg)
  BY DEF Inv, TypeOK
<1>. HIDE DEF msg
<1>3. dpy' \in Displays /\ dpy'.pc = "serve"
  BY <1>1, <1>2, HandledType
<1>4. /\ msg[1] \in {"put", "set", "clear"}
      /\ msg[1] = "put" => msg[2] \in Chars
  BY <1>1, MessageTypes
<1>5. main = "update" /\ forth.display = "display" /\ text \in Texts /\ text # << >>
      /\ dpy.x \in 0 .. Width
  BY <1>2, DisplayParts DEF Inv, TypeOK, Consoles
<1>. DEFINE Plain == odd \cap {"long", "moved"} = {}
<1>6. Plain => Shows(dpy, text)
  BY <1>5 DEF Inv, Picture
<1>7. odd \subseteq odd'
  BY <1>2 DEF Recorded
<1>8. text' \in Texts /\ text' # << >> /\ (Plain' => Shows(dpy', text'))
  <2>1. CASE msg[1] = "put" /\ msg[2] = Newline
    <3>1. text' = Append(text, << >>) /\ Append(text, << >>) \in Texts
      BY <1>2, <1>5, <2>1 DEF Recorded, Texts
    <3>2. dpy' = do_newline(dpy)
      BY <1>2, <2>1, KeysAssumption DEF Handled, do_draw_char
    <3>3. Plain' => Shows(dpy', text')
      BY <1>2, <1>5, <1>6, <1>7, <3>1, <3>2, NewlineShows
    <3>4. text' # << >>
      BY <1>5, <3>1 DEF Texts
    <3>. QED BY <3>1, <3>3, <3>4
  <2>2. CASE msg[1] = "put" /\ msg[2] # Newline
    <3>1. text' = Longer(text, msg[2])
      BY <1>2, <2>2 DEF Recorded, Longer
    <3>2. text' \in Texts /\ text' # << >>
      BY <1>4, <1>5, <2>2, <3>1, LongerType
    <3>3. dpy' = do_draw_char(dpy, msg[2])
      BY <1>2, <2>2 DEF Handled
    <3>4. Plain' => dpy.x < Width \/ msg[2] = Backspace
      <4>1. dpy.x = Width /\ msg[2] # Backspace => "long" \in odd'
        BY <1>2, <2>2 DEF Recorded
      <4>. QED BY <1>5, <4>1, SizeAssumption
    <3>5. Plain' => Plain
      BY <1>7
    <3>6. Plain' => Shows(dpy', text')
      BY <1>2, <1>4, <1>5, <1>6, <2>2, <3>1, <3>3, <3>4, <3>5, CharShows
    <3>. QED BY <3>2, <3>6
  <2>3. CASE msg[1] = "set"
    <3>1. text' = text /\ "moved" \in odd'
      BY <1>2, <2>3 DEF Recorded
    <3>. QED BY <1>5, <3>1
  <2>4. CASE msg[1] = "clear"
    <3>1. text' = NoText
      BY <1>2, <2>4 DEF Recorded, NoText
    <3>2. dpy' = do_clear(dpy)
      BY <1>2, <2>4 DEF Handled
    <3>3. NoText \in Texts /\ NoText # << >>
      BY DEF NoText, Texts
    <3>4. Plain' => Shows(dpy', text')
      BY <1>2, <1>5, <1>6, <1>7, <3>1, <3>2, ClearShows
    <3>. QED BY <3>1, <3>3, <3>4
  <2>. QED BY <1>4, <2>1, <2>2, <2>3, <2>4
<1>9. TypeOK'
  BY <1>1, <1>3, <1>8 DEF Inv, TypeOK
<1>10. Consoles'
  BY <1>2, <1>3, <1>5 DEF Inv, Consoles, OwnConsole
<1>11. Reading' = Reading
  BY DEF Reading
<1>12. Picture'
  BY <1>3, <1>5, <1>8 DEF Picture
<1>. QED BY <1>9, <1>10, <1>11, <1>12, ReadingStays DEF Inv, TypeOK

-----------------------------------------------------------------------------
(* Keys on their way. *)

(* Every other event is a press. *)
LEMMA PressedStep ==
  ASSUME NEW j \in Nat
  PROVE  /\ Pressed(j) \in Nat
         /\ Pressed(j + 1) = Pressed(j) + (IF (j + 1) % 2 = 1 THEN 1 ELSE 0)
         /\ Pressed(2 * j) = j
         /\ (j + 1) % 2 = 1 => (j + 2) \div 2 = Pressed(j) + 1
         /\ Pressed(j) <= j
BY DEF Pressed

(* And says so. *)
LEMMA SentIs ==
  ASSUME NEW j
  PROVE  One(Sent(j)) = (IF j % 2 = 1 THEN 1 ELSE 0) /\ Sent(j)[1] = typed[(j + 1) \div 2]
BY DEF One, IsPress, Sent

(* Presses are counted alike in any part of the stream. *)
LEMMA PressedMonotone ==
  ASSUME NEW j \in Nat, NEW k \in Nat, j <= k
  PROVE  Pressed(j) <= Pressed(k)
BY DEF Pressed

(* The numbers of the invariant. *)
LEMMA Numbers ==
  ASSUME Inv
  PROVE  /\ Len(typed) \in Nat /\ Len(from_port) \in Nat /\ Len(events) \in Nat
         /\ Passed \in Nat /\ Gone \in Nat /\ Gone <= Passed /\ Passed <= 2 * Len(typed)
         /\ Pressed(Gone) <= Pressed(Passed) /\ Pressed(Passed) <= Len(typed)
         /\ Pressed(Gone) \in Nat /\ Pressed(Passed) \in Nat
<1>1. Len(typed) \in Nat /\ Len(from_port) \in Nat /\ Len(events) \in Nat
  BY DEF Inv, TypeOK
<1>2. Passed \in Int /\ Gone \in Int /\ Gone >= 0 /\ Gone <= Passed /\ Passed <= 2 * Len(typed)
  BY <1>1 DEF Passed, Gone, Inv, Queues
<1>3. Passed \in Nat /\ Gone \in Nat
  BY <1>2
<1>4. Pressed(Gone) \in Nat /\ Pressed(Passed) \in Nat /\ Pressed(Gone) <= Pressed(Passed)
  BY <1>2, <1>3, PressedStep, PressedMonotone
<1>5. Pressed(Passed) <= Pressed(2 * Len(typed)) /\ Pressed(2 * Len(typed)) = Len(typed)
  BY <1>1, <1>2, <1>3, PressedStep, PressedMonotone
<1>. QED BY <1>1, <1>2, <1>3, <1>4, <1>5

(* The keys forth has taken stay the same ones when more are typed. *)
LEMMA TakenStays ==
  ASSUME Inv, NEW k \in Keys
  PROVE  SubSeq(Append(typed, k), dropped + 1, Pressed(Gone)) = SubSeq(typed, dropped + 1, Pressed(Gone))
<1>. DEFINE m == dropped + 1
            n == Pressed(Gone)
            more == Append(typed, k)
<1>1. m \in Nat /\ m >= 1 /\ n \in Nat /\ n <= Len(typed) /\ Len(typed) \in Nat /\ typed \in Seq(Keys)
  BY Numbers DEF Inv, TypeOK
<1>2. more \in Seq(Keys) /\ \A i \in 1 .. Len(typed) : more[i] = typed[i] /\ typed[i] \in Keys
  BY <1>1
<1>. HIDE DEF m, n, more
<1>3. \A i \in m .. n : more[i] = typed[i] /\ typed[i] \in Keys
  BY <1>1, <1>2
<1>4. /\ SubSeq(typed, m, n) \in Seq(Keys)
      /\ Len(SubSeq(typed, m, n)) = IF m <= n THEN n - m + 1 ELSE 0
      /\ \A i \in 1 .. n - m + 1 : SubSeq(typed, m, n)[i] = typed[m + i - 1]
  BY <1>1, <1>3, SubSeqProperties
<1>5. /\ SubSeq(more, m, n) \in Seq(Keys)
      /\ Len(SubSeq(more, m, n)) = IF m <= n THEN n - m + 1 ELSE 0
      /\ \A i \in 1 .. n - m + 1 : SubSeq(more, m, n)[i] = more[m + i - 1]
  <2>1. \A i \in m .. n : more[i] \in Keys
    BY <1>3
  <2>. QED BY <1>1, <2>1, SubSeqProperties
<1>6. ASSUME NEW i \in 1 .. Len(SubSeq(typed, m, n))
      PROVE  SubSeq(typed, m, n)[i] = SubSeq(more, m, n)[i]
  <2>1. i \in 1 .. n - m + 1 /\ m + i - 1 \in m .. n
    BY <1>1, <1>4
  <2>. QED BY <1>3, <1>4, <1>5, <2>1
<1>. QED BY <1>4, <1>5, <1>6, SeqEqual DEF m, n, more

(* Two events sent together. *)
LEMMA AppendTwo ==
  ASSUME NEW S, NEW s \in Seq(S), NEW a \in S, NEW b \in S
  PROVE  s \o <<a, b>> = Append(Append(s, a), b)
<1>. DEFINE t == s \o <<a, b>>
            u == Append(Append(s, a), b)
            n == Len(s)
<1>1. n \in Nat /\ <<a, b>> \in Seq(S) /\ Len(<<a, b>>) = 2 /\ <<a, b>>[1] = a /\ <<a, b>>[2] = b
  OBVIOUS
<1>2. t \in Seq(S) /\ Len(t) = n + 2 /\ \A i \in 1 .. n + 2 : t[i] = IF i <= n THEN s[i] ELSE <<a, b>>[i - n]
  BY <1>1, ConcatProperties
<1>3. u \in Seq(S) /\ Len(u) = n + 2 /\ u[n + 1] = a /\ u[n + 2] = b /\ \A i \in 1 .. n : u[i] = s[i]
  OBVIOUS
<1>. HIDE DEF t, u, n
<1>4. ASSUME NEW i \in 1 .. n + 2 PROVE t[i] = u[i]
  <2>1. CASE i <= n
    BY <1>1, <1>2, <1>3, <2>1
  <2>2. CASE i = n + 1
    <3>1. ~(i <= n) /\ i - n = 1
      BY <1>1, <2>2
    <3>. QED BY <1>1, <1>2, <1>3, <2>2, <3>1
  <2>3. CASE i = n + 2
    <3>1. ~(i <= n) /\ i - n = 2
      BY <1>1, <2>3
    <3>. QED BY <1>1, <1>2, <1>3, <2>3, <3>1
  <2>. QED BY <1>1, <2>1, <2>2, <2>3
<1>. QED BY <1>2, <1>3, <1>4, SeqEqual DEF t, u

(* A key is typed: two events more behind all others. *)
LEMMA PressStep ==
  ASSUME Inv, NEW key \in Keys, Press(key)
  PROVE  Inv'
<1>. DEFINE n == Len(typed)
            down == <<key, "down">>
            up == <<key, "up">>
            two == Append(Append(from_port, down), up)
<1>1. /\ n \in Nat /\ Len(from_port) \in Nat /\ from_port \in Seq(Events) /\ typed \in Seq(Keys)
      /\ down \in Events /\ up \in Events
  BY Numbers DEF Inv, TypeOK, Events
<1>2. from_port' = two /\ Append(from_port, down) \in Seq(Events) /\ two \in Seq(Events)
  <2>1. from_port' = from_port \o <<down, up>>
    BY Zenon DEF Press
  <2>. HIDE DEF down, up
  <2>3. \A s \in Seq(Events) : \A a, b \in Events : s \o <<a, b>> = Append(Append(s, a), b)
    BY AppendTwo
  <2>2. from_port' = two
    BY <1>1, <2>1, <2>3, Zenon
  <2>. QED BY <1>1, <2>2
<1>3. /\ Len(two) = Len(from_port) + 2
      /\ \A k \in 1 .. Len(from_port) : two[k] = from_port[k]
      /\ two[Len(from_port) + 1] = down /\ two[Len(from_port) + 2] = up
  BY <1>1
<1>4. Len(typed') = n + 1 /\ typed'[n + 1] = key /\ typed' \in Seq(Keys) /\ \A k \in 1 .. n : typed'[k] = typed[k]
  BY <1>1 DEF Press
<1>5. Presses(from_port') = Presses(from_port) + 1
  <2>1. One(down) = 1 /\ One(up) = 0
    BY DEF One, IsPress
  <2>2. Presses(from_port) \in Nat /\ Presses(Append(from_port, down)) = Presses(from_port) + One(down)
    BY <1>1, PressesMore
  <2>3. Presses(two) = Presses(Append(from_port, down)) + One(up)
    BY <1>1, <1>2, PressesMore
  <2>4. Presses(from_port') = Presses(two)
    BY <1>2, Zenon
  <2>. QED BY <2>1, <2>2, <2>3, <2>4
<1>. HIDE DEF n, two, down, up
<1>6. Passed' = Passed /\ Gone' = Gone
  BY <1>1, <1>2, <1>3, <1>4 DEF Passed, Gone, n, Press
<1>7. /\ Passed \in Nat /\ Gone \in Nat /\ Passed = 2 * n - Len(from_port) /\ Pressed(Passed) \in Nat
      /\ Pressed(Gone) \in Nat /\ Len(events) \in Nat /\ Gone = Passed - Len(events)
  BY Numbers DEF Passed, Gone, n
<1>8. ASSUME NEW j \in Nat, j # 0, j <= 2 * n
      PROVE  Sent(j)' = Sent(j)
  <2>1. (j + 1) \div 2 \in 1 .. n
    BY <1>1, <1>8
  <2>. QED BY <1>4, <2>1 DEF Sent
<1>9. ASSUME NEW j \in Nat
      PROVE  /\ j = 2 * n + 1 => Sent(j)' = down
             /\ j = 2 * n + 2 => Sent(j)' = up
  <2>1. /\ (2 * n + 1 + 1) \div 2 = n + 1 /\ (2 * n + 1) % 2 = 1
        /\ (2 * n + 2 + 1) \div 2 = n + 1 /\ (2 * n + 2) % 2 = 0
    BY <1>1
  <2>. QED BY <1>4, <2>1 DEF Sent, down, up
<1>10. Queues'
  <2>1. ASSUME NEW k \in 1 .. Len(from_port') PROVE from_port'[k] = Sent(Passed + k)'
    <3>1. CASE k <= Len(from_port)
      <4>1. Passed + k \in Nat /\ Passed + k # 0 /\ Passed + k <= 2 * n /\ k \in 1 .. Len(from_port)
        BY <1>1, <1>7, <3>1
      <4>2. Sent(Passed + k)' = Sent(Passed + k)
        BY <1>6, <1>8, <4>1, Zenon
      <4>. QED BY <1>2, <1>3, <4>1, <4>2 DEF Inv, Queues
    <3>2. CASE k = Len(from_port) + 1
      <4>1. PICK j \in Nat : j = Passed + k /\ j = 2 * n + 1
        BY <1>1, <1>7, <3>2
      <4>2. Sent(Passed + k)' = Sent(j)'
        BY <1>6, <4>1, Zenon
      <4>. QED BY <1>2, <1>3, <1>9, <3>2, <4>1, <4>2
    <3>3. CASE k = Len(from_port) + 2
      <4>1. PICK j \in Nat : j = Passed + k /\ j = 2 * n + 2
        BY <1>1, <1>7, <3>3
      <4>2. Sent(Passed + k)' = Sent(j)'
        BY <1>6, <4>1, Zenon
      <4>. QED BY <1>2, <1>3, <1>9, <3>3, <4>1, <4>2
    <3>. QED BY <1>1, <1>2, <1>3, <3>1, <3>2, <3>3
  <2>2. ASSUME NEW k \in 1 .. Len(events') PROVE events'[k] = Sent(Gone + k)'
    <3>. USE DEF Press
    <3>1. Gone + k \in Nat /\ Gone + k # 0 /\ Gone + k <= 2 * n /\ k \in 1 .. Len(events)
      BY <1>1, <1>7
    <3>2. Sent(Gone + k)' = Sent(Gone + k)
      BY <1>6, <1>8, <3>1, Zenon
    <3>. QED BY <3>1, <3>2 DEF Inv, Queues, Press
  <2>3. Pressed(Passed)' = Pressed(Passed) /\ Pressed(Gone)' = Pressed(Gone)
    BY <1>6 DEF Pressed
  <2>4. Presses(from_port)' = Len(typed)' - Pressed(Passed)'
    BY <1>1, <1>4, <1>5, <1>7, <2>3 DEF Inv, Queues, n
  <2>5. Presses(events)' = Pressed(Passed)' - Pressed(Gone)'
    <3>1. Presses(events)' = Presses(events)
      BY Zenon DEF Presses, Press
    <3>. QED BY <2>3, <3>1 DEF Inv, Queues
  <2>6. dropped' <= Pressed(Gone) /\ (~keyboard' => events' = << >> /\ dropped' = Pressed(Passed))
    BY DEF Inv, Queues, Press
  <2>. QED BY <1>6, <1>7, <2>1, <2>2, <2>3, <2>4, <2>5, <2>6 DEF Queues
<1>11. LineRight'
  <2>1. Pressed(Gone)' = Pressed(Gone)
    BY <1>6 DEF Pressed
  <2>2. SubSeq(typed, dropped + 1, Pressed(Gone))' = SubSeq(typed, dropped + 1, Pressed(Gone))
    BY <2>1, TakenStays DEF Press
  <2>3. Reading' = Reading
    BY DEF Reading, Press
  <2>. QED BY <2>2, <2>3 DEF Inv, LineRight, Press
<1>12. TypeOK'
  BY <1>2, <1>4 DEF Inv, TypeOK, Press
<1>13. Consoles'
  BY DEF Inv, Consoles, OwnConsole, Press
<1>14. Picture'
  BY PictureStays DEF Press
<1>. QED BY <1>10, <1>11, <1>12, <1>13, <1>14 DEF Inv

(* An event leaves the window's queue, for forth's or for nobody. *)
LEMMA UpdateStep ==
  ASSUME Inv, update_loop
  PROVE  Inv'
<1>. DEFINE ev == Head(from_port)
<1>1. /\ from_port \in Seq(Events) /\ events \in Seq(Events) /\ from_port # << >>
      /\ from_port' = Tail(from_port) /\ UNCHANGED <<typed, forth, lines, keyboard>> /\ typed \in Seq(Keys)
      /\ keyboard \in BOOLEAN /\ dropped \in Nat
  BY DEF Inv, TypeOK, update_loop
<1>2. /\ events' = IF keyboard THEN Append(events, ev) ELSE events
      /\ dropped' = IF ~keyboard /\ IsPress(ev) THEN dropped + 1 ELSE dropped
  BY DEF update_loop, handle_keyboard_event
<1>3. /\ ev \in Events /\ from_port' \in Seq(Events) /\ Len(from_port') = Len(from_port) - 1
      /\ \A k \in 1 .. Len(from_port') : from_port'[k] = from_port[k + 1]
      /\ ev = from_port[1]
  BY <1>1, HeadTailProperties
<1>4. /\ Len(typed) \in Nat /\ Len(from_port) \in Nat /\ Len(events) \in Nat
      /\ Passed \in Nat /\ Gone \in Nat /\ Gone = Passed - Len(events)
      /\ Pressed(Gone) \in Nat /\ Pressed(Passed) \in Nat /\ Pressed(Gone) <= Pressed(Passed)
  BY Numbers DEF Gone
<1>5. Passed' = Passed + 1
  BY <1>1, <1>3, <1>4 DEF Passed
<1>6. ev = Sent(Passed + 1)
  <2>1. 1 \in 1 .. Len(from_port)
    BY <1>1, <1>4
  <2>. QED BY <1>3, <2>1 DEF Inv, Queues
<1>. HIDE DEF ev
<1>7. Pressed(Passed + 1) = Pressed(Passed) + One(ev) /\ One(ev) \in {0, 1}
  <2>1. Pressed(Passed + 1) = Pressed(Passed) + (IF (Passed + 1) % 2 = 1 THEN 1 ELSE 0)
    BY <1>4, PressedStep, Zenon
  <2>2. One(ev) = IF (Passed + 1) % 2 = 1 THEN 1 ELSE 0
    BY <1>6, SentIs, Zenon
  <2>. QED BY <2>1, <2>2
<1>8. ASSUME NEW j PROVE Sent(j)' = Sent(j)
  BY <1>1 DEF Sent
<1>9. ASSUME NEW k \in 1 .. Len(from_port') PROVE from_port'[k] = Sent(Passed + k)'
  <2>1. k + 1 \in 1 .. Len(from_port) /\ Passed + (k + 1) = Passed + 1 + k
    BY <1>3, <1>4
  <2>2. Sent(Passed + k)' = Sent(Passed + 1 + k)
    BY <1>5, <1>8, Zenon
  <2>. QED BY <1>3, <2>1, <2>2 DEF Inv, Queues
<1>10. Pressed(Passed)' = Pressed(Passed) + One(ev)
  BY <1>5, <1>7, Zenon DEF Pressed
<1>11. Presses(from_port)' = Len(typed)' - Pressed(Passed)'
  <2>1. Presses(from_port') \in Nat /\ Presses(from_port) = Presses(from_port') + One(ev)
    BY <1>1, PressesLess DEF ev
  <2>2. Presses(from_port) = Len(typed) - Pressed(Passed) /\ Len(typed)' = Len(typed)
    BY <1>1 DEF Inv, Queues
  <2>. QED BY <1>4, <1>7, <1>10, <2>1, <2>2
<1>12. TypeOK'
  <2>1. events' \in Seq(Events) /\ dropped' \in Nat
    BY <1>1, <1>2, <1>3
  <2>. QED BY <1>1, <1>3, <2>1 DEF Inv, TypeOK, update_loop
<1>13. Consoles'
  BY DEF Inv, Consoles, OwnConsole, update_loop
<1>14. Picture'
  BY PictureStays DEF update_loop
<1>15. Reading' = Reading
  BY <1>1 DEF Reading
<1>16. CASE keyboard
  <2>1. events' = Append(events, ev) /\ dropped' = dropped /\ Len(events') = Len(events) + 1
    BY <1>1, <1>2, <1>3, <1>16
  <2>2. Gone' = Gone
    BY <1>4, <1>5, <2>1 DEF Gone
  <2>3. Pressed(Gone)' = Pressed(Gone)
    BY <2>2 DEF Pressed
  <2>4. ASSUME NEW k \in 1 .. Len(events') PROVE events'[k] = Sent(Gone + k)'
    <3>1. Sent(Gone + k)' = Sent(Gone + k)
      BY <1>8, <2>2, Zenon
    <3>2. CASE k = Len(events) + 1
      <4>1. Gone + k = Passed + 1 /\ events'[k] = ev
        BY <1>1, <1>3, <1>4, <2>1, <3>2
      <4>. QED BY <1>6, <3>1, <4>1
    <3>3. CASE k # Len(events) + 1
      <4>1. k \in 1 .. Len(events) /\ events'[k] = events[k]
        BY <1>1, <1>3, <1>4, <2>1, <3>3
      <4>. QED BY <3>1, <4>1 DEF Inv, Queues
    <3>. QED BY <3>2, <3>3
  <2>5. Presses(events)' = Pressed(Passed)' - Pressed(Gone)'
    <3>1. Presses(events) \in Nat /\ Presses(events') = Presses(events) + One(ev)
      BY <1>1, <1>3, <2>1, PressesMore
    <3>2. Presses(events) = Pressed(Passed) - Pressed(Gone)
      BY DEF Inv, Queues
    <3>. QED BY <1>4, <1>7, <1>10, <2>3, <3>1, <3>2
  <2>6. Queues'
    <3>1. dropped <= Pressed(Gone)
      BY DEF Inv, Queues
    <3>. QED BY <1>1, <1>4, <1>9, <1>11, <1>16, <2>1, <2>2, <2>3, <2>4, <2>5, <3>1 DEF Queues
  <2>7. LineRight'
    BY <1>1, <1>15, <2>1, <2>3 DEF Inv, LineRight
  <2>. QED BY <1>12, <1>13, <1>14, <2>6, <2>7 DEF Inv
<1>17. CASE ~keyboard
  <2>1. /\ events' = events /\ events = << >> /\ dropped = Pressed(Passed) /\ dropped' = dropped + One(ev)
    <3>1. events = << >> /\ dropped = Pressed(Passed)
      BY <1>17 DEF Inv, Queues
    <3>2. dropped' = dropped + One(ev)
      BY <1>1, <1>2, <1>17 DEF One
    <3>. QED BY <1>2, <1>17, <3>1, <3>2
  <2>2. Gone = Passed /\ Gone' = Passed + 1 /\ Len(events) = 0
    BY <1>4, <1>5, <2>1 DEF Gone
  <2>3. Pressed(Gone)' = Pressed(Passed) + One(ev) /\ Pressed(Gone)' = dropped'
    BY <1>7, <2>1, <2>2, Zenon DEF Pressed
  <2>4. Presses(events)' = 0
    BY <2>1, PressesNone
  <2>5. Queues'
    <3>1. \A k \in 1 .. Len(events') : events'[k] = Sent(Gone + k)'
      BY <2>1, <2>2
    <3>. QED BY <1>1, <1>4, <1>7, <1>9, <1>10, <1>11, <2>1, <2>2, <2>3, <2>4, <3>1 DEF Queues
  <2>6. LineRight'
    <3>1. dropped' \in Nat /\ dropped' < dropped' + 1 /\ dropped < dropped + 1 /\ dropped = Pressed(Gone)
      BY <1>1, <1>7, <2>1, <2>2
    <3>2. SubSeq(typed, dropped + 1, Pressed(Gone)) = << >>
      BY <1>1, <3>1, SubSeqEmpty
    <3>3. SubSeq(typed', dropped' + 1, Pressed(Gone)') = << >>
      BY <2>3, <3>1, SubSeqEmpty
    <3>. QED BY <1>1, <1>15, <3>2, <3>3 DEF Inv, LineRight
  <2>. QED BY <1>12, <1>13, <1>14, <2>5, <2>6 DEF Inv
<1>. QED BY <1>1, <1>16, <1>17

-----------------------------------------------------------------------------
(* What read_keyboard does with a character is the edit. *)

Line(buf, i) == [k \in 1 .. i |-> buf[k - 1]]

(* The first characters of the buffer. *)
LEMMA LineIs ==
  ASSUME NEW S, NEW n \in Nat, NEW buf \in [0 .. n -> S], NEW i \in 0 .. n + 1
  PROVE  Line(buf, i) \in Seq(S) /\ Len(Line(buf, i)) = i /\ (i = 0 <=> Line(buf, i) = << >>)
<1>1. \A k \in 1 .. i : buf[k - 1] \in S
  OBVIOUS
<1>2. Line(buf, i) \in [1 .. i -> S]
  BY <1>1 DEF Line
<1>. QED BY <1>2

(* One more. *)
LEMMA LineMore ==
  ASSUME NEW S, NEW n \in Nat, NEW buf \in [0 .. n -> S], NEW i \in 0 .. n, NEW c \in S
  PROVE  Line([buf EXCEPT ![i] = c], i + 1) = Append(Line(buf, i), c)
<1>. DEFINE new == [buf EXCEPT ![i] = c]
            s == Line(new, i + 1)
            t == Append(Line(buf, i), c)
<1>1. new \in [0 .. n -> S] /\ new[i] = c /\ \A k \in 0 .. n : k # i => new[k] = buf[k]
  OBVIOUS
<1>. HIDE DEF new
<1>2. s \in Seq(S) /\ Len(s) = i + 1
  <2>1. \A k \in 1 .. i + 1 : new[k - 1] \in S
    BY <1>1
  <2>2. s \in [1 .. i + 1 -> S]
    BY <2>1 DEF Line
  <2>. QED BY <2>2
<1>3. Line(buf, i) \in Seq(S) /\ Len(Line(buf, i)) = i
  <2>1. \A k \in 1 .. i : buf[k - 1] \in S
    OBVIOUS
  <2>2. Line(buf, i) \in [1 .. i -> S]
    BY <2>1 DEF Line
  <2>. QED BY <2>2
<1>4. t \in Seq(S) /\ Len(t) = i + 1 /\ t[i + 1] = c /\ \A k \in 1 .. i : t[k] = Line(buf, i)[k]
  BY <1>3
<1>5. ASSUME NEW k \in 1 .. i + 1 PROVE s[k] = t[k]
  <2>1. CASE k = i + 1
    BY <1>1, <1>4, <2>1 DEF Line
  <2>2. CASE k # i + 1
    <3>1. k \in 1 .. i /\ k - 1 \in 0 .. n /\ k - 1 # i
      BY <2>2
    <3>. QED BY <1>1, <1>4, <3>1 DEF Line
  <2>. QED BY <2>1, <2>2
<1>. HIDE DEF s, t
<1>6. s = t
  BY <1>2, <1>4, <1>5, SeqEqual
<1>. QED BY <1>6 DEF s, t, new

(* What forth's input buffer can hold. *)
Bufs == [0 .. InputSize - 1 -> Chars]

(* A character stored behind the line. *)
LEMMA LineStored ==
  ASSUME NEW buf \in Bufs, NEW i \in 0 .. InputSize - 1, NEW c \in Chars
  PROVE  Line([buf EXCEPT ![i] = c], i + 1) = Append(Line(buf, i), c)
<1>. DEFINE n == InputSize - 1
<1>1. n \in Nat /\ buf \in [0 .. n -> Chars] /\ i \in 0 .. n
  BY SizeAssumption DEF Bufs
<1>. HIDE DEF n
<1>. QED BY <1>1, LineMore

(* One less. *)
LEMMA LineLess ==
  ASSUME NEW S, NEW n \in Nat, NEW buf \in [0 .. n -> S], NEW i \in 1 .. n + 1
  PROVE  Line(buf, i - 1) = Front(Line(buf, i))
<1>. DEFINE s == Line(buf, i - 1)
            t == Front(Line(buf, i))
<1>1. s \in Seq(S) /\ Len(s) = i - 1
  <2>1. i - 1 \in 0 .. n + 1
    OBVIOUS
  <2>. QED BY <2>1, LineIs
<1>2. Line(buf, i) \in Seq(S) /\ Len(Line(buf, i)) = i /\ Line(buf, i) # << >>
  <2>1. i \in 0 .. n + 1 /\ i # 0
    OBVIOUS
  <2>. QED BY <2>1, LineIs
<1>3. t \in Seq(S) /\ Len(t) = i - 1 /\ \A k \in 1 .. i - 1 : t[k] = Line(buf, i)[k]
  BY <1>2, FrontIs
<1>4. ASSUME NEW k \in 1 .. i - 1 PROVE s[k] = t[k]
  <2>1. k \in 1 .. i /\ Line(buf, i)[k] = buf[k - 1]
    BY DEF Line
  <2>2. s[k] = buf[k - 1]
    BY DEF Line
  <2>. HIDE DEF s, t
  <2>. QED BY <1>3, <2>1, <2>2
<1>. HIDE DEF s, t
<1>5. s = t
  BY <1>1, <1>3, <1>4, SeqEqual
<1>. QED BY <1>5 DEF s, t

(* What a line that ended leaves behind. *)
Ended(buf, n) ==
  /\ \/ lines' = Append(lines, Line(buf, n))
     \/ n = InputSize - 1 /\ buf[n - 1] # Newline /\ lines' = Append(lines, <<buf[0]>>)
  /\ forth'.pc \in {"eval", "away"} /\ forth'.display = forth.display
  /\ out' \in Seq(Msgs)
  /\ forth'.i = forth.i /\ forth'.buf \in [0 .. InputSize - 1 -> Chars]

ForthType == [pc : {"off", "display", "keyboard", "connect", "eval", "read", "away"},
              display : {"none", "outer", "display"}, i : 0 .. InputSize - 2,
              buf : [0 .. InputSize - 1 -> Chars]]

(* A line ends; what the interpreter prints are messages. *)
LEMMA LineEnds ==
  ASSUME forth \in ForthType, NEW buf \in [0 .. InputSize - 1 -> Chars],
         NEW n \in 1 .. InputSize, NEW end \in 0 .. InputSize, EndLine(buf, n, end),
         end = InputSize => n = InputSize - 1 /\ buf[n - 1] # Newline
  PROVE  Ended(buf, n) /\ forth' \in ForthType
<1>. DEFINE Rest(fate, prints) == CASE fate = "whole" -> prints
                                    [] fate = "again" -> prints \o Intro
                                    [] fate = "away"  -> << >>
            new(fate) == [k \in DOMAIN buf |-> IF fate = "again" \/ k = end THEN Nul ELSE buf[k]]
<1>1. PICK fate \in Fates(end), prints \in Outputs \cup {<< >>} :
        /\ lines' = Append(lines, IF fate = "again" THEN <<buf[0]>> ELSE Line(buf, n))
        /\ out' = << <<"put", buf[n - 1]>> >> \o Rest(fate, prints)
        /\ forth' = [forth EXCEPT !.pc = IF fate = "away" THEN "away" ELSE "eval", !.buf = new(fate)]
  BY DEF EndLine, Line
<1>2. fate \in {"whole", "again", "away"} /\ (fate = "again" => end = InputSize)
  BY DEF Fates
<1>3. out' \in Seq(Msgs)
  <2>1. buf[n - 1] \in Chars
    BY SizeAssumption
  <2>2. <<"put", buf[n - 1]>> \in Msgs
    BY <2>1 DEF Msgs
  <2>3. << <<"put", buf[n - 1]>> >> \in Seq(Msgs)
    BY <2>2
  <2>4. prints \in Seq(Msgs) /\ Intro \in Seq(Msgs)
    <3>1. CASE prints \in Outputs
      BY <3>1, OutputTypes
    <3>2. CASE prints = << >>
      BY <3>2, OutputTypes
    <3>. QED BY <1>1, <3>1, <3>2
  <2>5. prints \o Intro \in Seq(Msgs)
    BY <2>4, ConcatProperties
  <2>6. Rest(fate, prints) \in Seq(Msgs)
    BY <1>2, <2>4, <2>5
  <2>. HIDE DEF Rest
  <2>. QED BY <1>1, <2>3, <2>6, ConcatProperties
<1>4. new(fate) \in [0 .. InputSize - 1 -> Chars]
  <2>1. Nul \in Chars
    BY DEF Chars
  <2>. QED BY <2>1
<1>5. forth' = [forth EXCEPT !.pc = IF fate = "away" THEN "away" ELSE "eval", !.buf = new(fate)]
  BY <1>1
<1>. HIDE DEF new
<1>6. /\ forth' \in ForthType /\ forth'.pc \in {"eval", "away"}
      /\ forth'.display = forth.display /\ forth'.i = forth.i /\ forth'.buf = new(fate)
  BY <1>4, <1>5 DEF ForthType
<1>7. \/ lines' = Append(lines, Line(buf, n))
      \/ n = InputSize - 1 /\ buf[n - 1] # Newline /\ lines' = Append(lines, <<buf[0]>>)
  <2>1. CASE fate = "again"
    BY <1>1, <1>2, <2>1
  <2>2. CASE fate # "again"
    BY <1>1, <2>2
  <2>. QED BY <2>1, <2>2
<1>. QED BY <1>3, <1>4, <1>6, <1>7 DEF Ended

(* What read_keyboard has read, as EditKey has it, behind the lines done. *)
Edit(done) == [done |-> done, cur |-> Reading]

(* One more line, read whole or cut off. *)
LEMMA ReadMore ==
  ASSUME NEW done \in Seq(Seq(Chars)), NEW read \in Seq(Seq(Chars)), ReadAs(done, read),
         NEW line \in Seq(Chars), NEW got \in Seq(Chars),
         \/ got = line
         \/ Len(line) = InputSize - 1 /\ Last(line) # Newline /\ got = <<line[1]>>
  PROVE  ReadAs(Append(done, line), Append(read, got))
<1>. DEFINE d == Append(done, line)
            g == Append(read, got)
            n == Len(done)
<1>1. /\ n \in Nat /\ Len(read) = n /\ d \in Seq(Seq(Chars)) /\ g \in Seq(Seq(Chars))
      /\ Len(d) = n + 1 /\ Len(g) = n + 1 /\ d[n + 1] = line /\ g[n + 1] = got
      /\ \A k \in 1 .. n : d[k] = done[k] /\ g[k] = read[k]
  BY DEF ReadAs
<1>2. \A k \in 1 .. n :
        \/ read[k] = done[k]
        \/ Len(done[k]) = InputSize - 1 /\ Last(done[k]) # Newline /\ read[k] = <<done[k][1]>>
  <2>1. DOMAIN read = 1 .. n
    BY <1>1
  <2>. HIDE DEF n
  <2>. QED BY <2>1, Zenon DEF ReadAs
<1>. HIDE DEF d, g, n
<1>3. DOMAIN g = 1 .. n + 1
  BY <1>1
<1>4. ASSUME NEW k \in 1 .. n + 1
      PROVE  \/ g[k] = d[k]
             \/ Len(d[k]) = InputSize - 1 /\ Last(d[k]) # Newline /\ g[k] = <<d[k][1]>>
  <2>1. CASE k = n + 1
    BY <1>1, <2>1
  <2>2. CASE k # n + 1
    <3>1. k \in 1 .. n
      BY <1>1, <2>2
    <3>. QED BY <1>1, <1>2, <3>1
  <2>. QED BY <2>1, <2>2
<1>5. ReadAs(d, g)
  BY <1>1, <1>3, <1>4 DEF ReadAs
<1>. QED BY <1>5 DEF d, g

(* Storing a character edits the line with it. *)
LEMMA StoreEdits ==
  ASSUME forth \in ForthType, lines \in Seq(Seq(Chars)), forth.pc = "read",
         NEW done \in Seq(Seq(Chars)), ReadAs(done, lines),
         NEW c \in Keys, c \notin Modifiers, StoreChar(c)
  PROVE  /\ \E more \in Seq(Seq(Chars)) :
              EditKey(Edit(done), c) = [done |-> more, cur |-> Reading'] /\ ReadAs(more, lines')
         /\ forth' \in ForthType /\ forth'.display = forth.display /\ forth'.pc \in {"read", "eval", "away"}
         /\ lines' \in Seq(Seq(Chars)) /\ out' \in Seq(Msgs)
<1>. DEFINE i == forth.i
            buf == forth.buf
            new == [buf EXCEPT ![i] = c]
            n == InputSize - 1
<1>1. /\ n \in Nat /\ n >= 2 /\ i \in 0 .. n - 1 /\ i \in 0 .. n /\ i \in 0 .. n + 1
      /\ buf \in [0 .. n -> Chars] /\ c \in Chars
  BY SizeAssumption DEF ForthType, Chars
<1>2. new \in [0 .. n -> Chars]
  BY <1>1
<1>. HIDE DEF i, buf, n
<1>3. Line(buf, i) \in Seq(Chars) /\ Len(Line(buf, i)) = i /\ (i = 0 <=> Line(buf, i) = << >>)
  BY <1>1, LineIs
<1>4. Reading = Line(buf, i)
  BY DEF Reading, Line, i, buf
<1>5. Line(new, i + 1) = Append(Line(buf, i), c)
  <2>1. n \in Nat /\ i \in 0 .. n /\ buf \in [0 .. n -> Chars] /\ c \in Chars
    BY <1>1
  <2>2. buf \in Bufs /\ i \in 0 .. InputSize - 1
    BY <1>1 DEF Bufs, n
  <2>. QED BY <2>1, <2>2, LineStored
<1>6. <<"put", c>> \in Msgs
  BY <1>1 DEF Msgs
<1>7. Edit(done).cur = Line(buf, i) /\ Edit(done).done = done
  BY <1>4 DEF Edit
<1>8. Newline # Backspace /\ Newline \notin Modifiers /\ Backspace \notin Modifiers
  BY KeysAssumption
<1>9. CASE c = Backspace /\ i > 0
  <2>1. forth' = [forth EXCEPT !.i = i - 1] /\ out' = << <<"put", c>> >> /\ lines' = lines
    BY <1>1, <1>8, <1>9 DEF StoreChar, i
  <2>2. /\ forth' \in ForthType /\ forth'.display = forth.display /\ forth'.pc = "read"
        /\ forth'.i = i - 1 /\ forth'.buf = buf
    <3>1. i - 1 \in 0 .. InputSize - 2
      BY <1>1, <1>9, SizeAssumption DEF n
    <3>. QED BY <2>1, <3>1 DEF ForthType, buf
  <2>3. Reading' = Line(buf, i - 1)
    BY <2>2 DEF Reading, Line
  <2>4. i \in 1 .. n + 1
    BY <1>1, <1>9
  <2>5. Reading' = Front(Line(buf, i))
    BY <1>1, <2>3, <2>4, LineLess
  <2>6. EditKey(Edit(done), c) = [Edit(done) EXCEPT !.cur = Front(Line(buf, i))]
    BY <1>1, <1>3, <1>7, <1>8, <1>9 DEF EditKey
  <2>7. EditKey(Edit(done), c) = [done |-> done, cur |-> Reading']
    BY <2>5, <2>6 DEF Edit
  <2>8. out' \in Seq(Msgs)
    BY <1>6, <2>1
  <2>. QED BY <2>1, <2>2, <2>7, <2>8
<1>10. CASE c # Newline /\ (c # Backspace \/ i = 0) /\ i + 1 < n
  <2>1. forth' = [forth EXCEPT !.i = i + 1, !.buf = new] /\ out' = << <<"put", c>> >> /\ lines' = lines
    BY <1>1, <1>8, <1>10 DEF StoreChar, i, n, buf
  <2>. HIDE DEF new
  <2>2. /\ forth' \in ForthType /\ forth'.display = forth.display /\ forth'.pc = "read"
        /\ forth'.i = i + 1 /\ forth'.buf = new
    <3>1. i + 1 \in 0 .. InputSize - 2 /\ new \in [0 .. InputSize - 1 -> Chars]
      BY <1>1, <1>2, <1>10, SizeAssumption DEF n
    <3>. QED BY <2>1, <3>1 DEF ForthType
  <2>3. Reading' = Line(new, i + 1)
    BY <2>2 DEF Reading, Line
  <2>4. EditKey(Edit(done), c) = [Edit(done) EXCEPT !.cur = Append(Line(buf, i), c)]
    <3>1. ~(c = Backspace /\ Edit(done).cur # << >>) /\ Len(Edit(done).cur) # InputSize - 2
      BY <1>1, <1>3, <1>7, <1>10, SizeAssumption DEF n
    <3>. QED BY <1>7, <1>8, <1>10, <3>1 DEF EditKey
  <2>5. EditKey(Edit(done), c) = [done |-> done, cur |-> Reading']
    BY <1>5, <2>3, <2>4 DEF Edit
  <2>6. out' \in Seq(Msgs)
    BY <1>6, <2>1
  <2>. QED BY <2>1, <2>2, <2>5, <2>6
<1>11. CASE c = Newline \/ (c # Newline /\ (c # Backspace \/ i = 0) /\ i + 1 = n)
  <2>. DEFINE line == Append(Line(buf, i), c)
  <2>1. /\ new[0] \in Chars /\ new[i] = c /\ (0 < i => new[0] = buf[0])
    BY <1>1
  <2>2. /\ line \in Seq(Chars) /\ Len(line) = i + 1 /\ Last(line) = c /\ line[1] = new[0]
    <3>1. line \in Seq(Chars) /\ Len(line) = i + 1 /\ line[i + 1] = c
          /\ \A k \in 1 .. i : line[k] = Line(buf, i)[k]
      BY <1>1, <1>3
    <3>2. CASE i = 0
      BY <2>1, <3>1, <3>2 DEF Last
    <3>3. CASE i # 0
      <4>1. 1 \in 1 .. i /\ 0 < i
        BY <1>1, <3>3
      <4>2. Line(buf, i)[1] = buf[0]
        BY <4>1 DEF Line
      <4>. QED BY <2>1, <3>1, <4>1, <4>2 DEF Last
    <3>. QED BY <3>2, <3>3
  <2>3. \E end \in 0 .. InputSize :
          EndLine(new, i + 1, end) /\ (end = InputSize => i + 1 = InputSize - 1 /\ new[i] # Newline)
    <3>1. i + 1 \in 0 .. InputSize /\ InputSize \in 0 .. InputSize /\ InputSize - 1 = n /\ i + 1 # InputSize
      BY <1>1, SizeAssumption DEF n
    <3>2. c = Newline => EndLine(new, i + 1, i + 1)
      BY <1>1, <1>8 DEF StoreChar, i, buf
    <3>3. c # Newline => EndLine(new, i + 1, InputSize)
      BY <1>1, <1>11, <3>1 DEF StoreChar, i, buf
    <3>4. new[i] = c
      BY <1>1
    <3>. HIDE DEF new
    <3>. QED BY <1>11, <3>1, <3>2, <3>3, <3>4
  <2>4. i + 1 \in 1 .. InputSize /\ new \in [0 .. InputSize - 1 -> Chars] /\ i + 1 - 1 = i
    BY <1>1, <1>2, SizeAssumption DEF n
  <2>. HIDE DEF new, line
  <2>5. Ended(new, i + 1) /\ forth' \in ForthType
    <3>. DEFINE j == i + 1
    <3>1. j \in 1 .. InputSize /\ j - 1 = i
      BY <1>1, <2>4
    <3>2. PICK end \in 0 .. InputSize :
            EndLine(new, j, end) /\ (end = InputSize => j = InputSize - 1 /\ new[i] # Newline)
      BY <2>3
    <3>. HIDE DEF j
    <3>3. end = InputSize => j = InputSize - 1 /\ new[j - 1] # Newline
      BY <3>1, <3>2
    <3>4. Ended(new, j) /\ forth' \in ForthType
      BY <2>4, <3>1, <3>2, <3>3, LineEnds
    <3>. QED BY <3>4 DEF j
  <2>6. Reading' = << >>
    BY <2>5 DEF Ended, Reading
  <2>7. EditKey(Edit(done), c) = [done |-> Append(done, line), cur |-> << >>]
    <3>1. c # Newline => c # Backspace /\ Len(Edit(done).cur) = InputSize - 2
      BY <1>1, <1>3, <1>7, <1>11, SizeAssumption DEF n
    <3>. QED BY <1>7, <1>8, <1>11, <3>1 DEF EditKey, line
  <2>8. PICK got \in Seq(Chars) :
          /\ lines' = Append(lines, got)
          /\ \/ got = line
             \/ Len(line) = InputSize - 1 /\ Last(line) # Newline /\ got = <<line[1]>>
    <3>1. CASE lines' = Append(lines, Line(new, i + 1))
      BY <1>5, <2>2, <3>1 DEF line
    <3>2. CASE i + 1 = InputSize - 1 /\ new[i] # Newline /\ lines' = Append(lines, <<new[0]>>)
      <4>1. Len(line) = InputSize - 1 /\ Last(line) # Newline /\ <<new[0]>> = <<line[1]>>
        BY <2>1, <2>2, <2>4, <3>2
      <4>2. <<new[0]>> \in Seq(Chars)
        BY <2>1
      <4>. QED BY <3>2, <4>1, <4>2
    <3>3. \/ lines' = Append(lines, Line(new, i + 1))
          \/ i + 1 = InputSize - 1 /\ new[i] # Newline /\ lines' = Append(lines, <<new[0]>>)
      <4>. DEFINE j == i + 1
      <4>1. Ended(new, j) /\ j - 1 = i
        BY <1>1, <2>5
      <4>. HIDE DEF j
      <4>2. \/ lines' = Append(lines, Line(new, j))
            \/ j = InputSize - 1 /\ new[j - 1] # Newline /\ lines' = Append(lines, <<new[0]>>)
        BY <4>1 DEF Ended
      <4>. QED BY <4>1, <4>2 DEF j
    <3>. QED BY <3>1, <3>2, <3>3
  <2>9. ReadAs(Append(done, line), lines')
    BY <2>2, <2>8, ReadMore
  <2>10. Append(done, line) \in Seq(Seq(Chars)) /\ lines' \in Seq(Seq(Chars))
    BY <2>2, <2>8
  <2>. QED BY <2>5, <2>6, <2>7, <2>9, <2>10 DEF Ended
<1>12. \/ c = Backspace /\ i > 0
       \/ c # Newline /\ (c # Backspace \/ i = 0) /\ i + 1 < n
       \/ c = Newline \/ (c # Newline /\ (c # Backspace \/ i = 0) /\ i + 1 = n)
  BY <1>1
<1>. QED BY <1>9, <1>10, <1>11, <1>12

(* The keys taken, with one more. *)
LEMMA TakenMore ==
  ASSUME NEW S, NEW keys \in Seq(S), NEW m \in Nat, m >= 1, NEW n \in Nat, n + 1 <= Len(keys), m <= n + 1
  PROVE  /\ SubSeq(keys, m, n + 1) = Append(SubSeq(keys, m, n), keys[n + 1])
         /\ SubSeq(keys, m, n) \in Seq(S) /\ keys[n + 1] \in S
<1>. DEFINE s == SubSeq(keys, m, n)
            t == SubSeq(keys, m, n + 1)
            u == Append(s, keys[n + 1])
            len == n - m + 1
<1>1. \A i \in m .. n + 1 : keys[i] \in S
  OBVIOUS
<1>2. /\ s \in Seq(S)
      /\ Len(s) = IF m <= n THEN n - m + 1 ELSE 0
      /\ \A i \in 1 .. n - m + 1 : s[i] = keys[m + i - 1]
  <2>1. \A i \in m .. n : keys[i] \in S
    BY <1>1
  <2>. QED BY <2>1, SubSeqProperties
<1>3. /\ t \in Seq(S)
      /\ Len(t) = IF m <= n + 1 THEN n + 1 - m + 1 ELSE 0
      /\ \A i \in 1 .. n + 1 - m + 1 : t[i] = keys[m + i - 1]
  BY <1>1, SubSeqProperties
<1>4. len \in Nat /\ len = n - m + 1 /\ n + 1 - m + 1 = len + 1 /\ keys[n + 1] \in S
  BY <1>1
<1>. HIDE DEF s, t, len
<1>5. Len(s) = len /\ Len(t) = len + 1
  BY <1>2, <1>3, <1>4
<1>6. u \in Seq(S) /\ Len(u) = len + 1 /\ u[len + 1] = keys[n + 1] /\ \A i \in 1 .. len : u[i] = s[i]
  BY <1>2, <1>4, <1>5
<1>. HIDE DEF u
<1>7. ASSUME NEW i \in 1 .. len + 1 PROVE t[i] = u[i]
  <2>1. t[i] = keys[m + i - 1]
    BY <1>3, <1>4
  <2>2. CASE i = len + 1
    <3>1. m + i - 1 = n + 1
      BY <1>4, <2>2
    <3>. QED BY <1>6, <2>1, <2>2, <3>1
  <2>3. CASE i # len + 1
    <3>1. i \in 1 .. len
      BY <1>4, <2>3
    <3>. QED BY <1>2, <1>4, <1>6, <2>1, <3>1
  <2>. QED BY <2>2, <2>3
<1>8. t = u
  BY <1>3, <1>5, <1>6, <1>7, SeqEqual
<1>. QED BY <1>2, <1>4, <1>8 DEF s, t, u

(* forth takes an event off its queue. *)
LEMMA ReadStep ==
  ASSUME Inv, read_keyboard
  PROVE  Inv'
<1>. DEFINE ev == Head(events)
            c == ev[1]
<1>1. /\ events \in Seq(Events) /\ events # << >> /\ events' = Tail(events) /\ forth.pc = "read"
      /\ UNCHANGED <<typed, dropped, from_port, keyboard>> /\ typed \in Seq(Keys)
      /\ keyboard \in BOOLEAN /\ dropped \in Nat /\ forth \in ForthType /\ lines \in Seq(Seq(Chars))
  BY DEF Inv, TypeOK, read_keyboard, ForthType
<1>2. \/ Wanted(ev) /\ StoreChar(c)
      \/ ~Wanted(ev) /\ UNCHANGED <<forth, out, lines, printed>>
  BY DEF read_keyboard
<1>3. /\ ev \in Events /\ events' \in Seq(Events) /\ Len(events') = Len(events) - 1
      /\ \A k \in 1 .. Len(events') : events'[k] = events[k + 1]
      /\ ev = events[1]
  BY <1>1, HeadTailProperties
<1>4. /\ Len(typed) \in Nat /\ Len(from_port) \in Nat /\ Len(events) \in Nat \ {0}
      /\ Passed \in Nat /\ Gone \in Nat /\ Gone = Passed - Len(events)
      /\ Pressed(Gone) \in Nat /\ Pressed(Passed) \in Nat /\ Pressed(Passed) <= Len(typed)
  BY <1>1, Numbers DEF Gone
<1>5. Passed' = Passed /\ Gone' = Gone + 1
  <2>1. Passed' = Passed
    BY <1>1 DEF Passed
  <2>. QED BY <1>3, <1>4, <2>1 DEF Gone
<1>6. ev = Sent(Gone + 1)
  <2>1. 1 \in 1 .. Len(events)
    BY <1>4
  <2>. QED BY <1>3, <2>1 DEF Inv, Queues
<1>7. c \in Keys /\ IsPress(ev) \in BOOLEAN
  BY <1>3 DEF Events, IsPress
<1>. HIDE DEF ev
<1>8. /\ Pressed(Gone + 1) = Pressed(Gone) + One(ev) /\ One(ev) \in {0, 1}
      /\ One(ev) = 1 => c = typed[Pressed(Gone) + 1]
  <2>1. /\ Pressed(Gone + 1) = Pressed(Gone) + (IF (Gone + 1) % 2 = 1 THEN 1 ELSE 0)
        /\ (Gone + 1) % 2 = 1 => (Gone + 2) \div 2 = Pressed(Gone) + 1
    BY <1>4, PressedStep, Zenon
  <2>2. One(ev) = (IF (Gone + 1) % 2 = 1 THEN 1 ELSE 0) /\ c = typed[(Gone + 1 + 1) \div 2]
    BY <1>6, SentIs, Zenon
  <2>3. Gone + 1 + 1 = Gone + 2
    BY <1>4
  <2>. QED BY <2>1, <2>2, <2>3
<1>9. Pressed(Gone)' = Pressed(Gone) + One(ev) /\ Pressed(Passed)' = Pressed(Passed)
  BY <1>5, <1>8, Zenon DEF Pressed
<1>10. keyboard
  BY <1>1 DEF Inv, Queues
<1>11. Queues'
  <2>1. ASSUME NEW j PROVE Sent(j)' = Sent(j)
    BY <1>1 DEF Sent
  <2>2. ASSUME NEW k \in 1 .. Len(events') PROVE events'[k] = Sent(Gone + k)'
    <3>1. k + 1 \in 1 .. Len(events) /\ Gone + (k + 1) = Gone + 1 + k
      BY <1>3, <1>4
    <3>2. Sent(Gone + k)' = Sent(Gone + 1 + k)
      BY <1>5, <2>1, Zenon
    <3>. QED BY <1>3, <3>1, <3>2 DEF Inv, Queues
  <2>3. ASSUME NEW k \in 1 .. Len(from_port') PROVE from_port'[k] = Sent(Passed + k)'
    <3>1. Sent(Passed + k)' = Sent(Passed + k)
      BY <1>5, <2>1, Zenon
    <3>. QED BY <1>1, <3>1 DEF Inv, Queues
  <2>4. Presses(events)' = Pressed(Passed)' - Pressed(Gone)'
    <3>1. Presses(events') \in Nat /\ Presses(events) = Presses(events') + One(ev)
      BY <1>1, PressesLess DEF ev
    <3>2. Presses(events) = Pressed(Passed) - Pressed(Gone)
      BY DEF Inv, Queues
    <3>. QED BY <1>4, <1>8, <1>9, <3>1, <3>2
  <2>5. Presses(from_port)' = Len(typed)' - Pressed(Passed)'
    <3>1. Presses(from_port)' = Presses(from_port) /\ Len(typed)' = Len(typed)
      BY <1>1, Zenon
    <3>. QED BY <1>9, <3>1 DEF Inv, Queues
  <2>6. dropped' <= Pressed(Gone)'
    <3>1. dropped <= Pressed(Gone)
      BY DEF Inv, Queues
    <3>. QED BY <1>1, <1>4, <1>8, <1>9, <3>1
  <2>. QED BY <1>1, <1>4, <1>5, <1>10, <2>2, <2>3, <2>4, <2>5, <2>6 DEF Queues
<1>. DEFINE m == dropped + 1
            n == Pressed(Gone)
<1>12. PICK done \in Seq(Seq(Chars)) :
         Edited(SubSeq(typed, m, n)) = Edit(done) /\ ReadAs(done, lines)
  BY DEF Inv, LineRight, Edit
<1>. DEFINE Read(more) ==
       /\ (IF IsPress(ev) THEN EditKey(Edit(done), c) ELSE Edit(done)) = [done |-> more, cur |-> Reading']
       /\ ReadAs(more, lines')
<1>13. /\ forth' \in ForthType /\ forth'.display = forth.display /\ forth'.pc \in {"read", "eval", "away"}
       /\ lines' \in Seq(Seq(Chars)) /\ out' \in Seq(Msgs)
       /\ \E more \in Seq(Seq(Chars)) : Read(more)
  <2>. HIDE DEF m, n
  <2>1. CASE Wanted(ev)
    <3>1. StoreChar(c) /\ c \notin Modifiers /\ IsPress(ev)
      BY <1>2, <2>1 DEF Wanted, IsPress
    <3>. QED BY <1>1, <1>7, <1>12, <3>1, StoreEdits
  <2>2. CASE ~Wanted(ev)
    <3>1. UNCHANGED <<forth, out, lines>> /\ (IsPress(ev) => c \in Modifiers)
      BY <1>2, <2>2 DEF Wanted, IsPress
    <3>2. IsPress(ev) => EditKey(Edit(done), c) = Edit(done)
      BY <3>1, KeysAssumption DEF EditKey
    <3>3. Edit(done) = [done |-> done, cur |-> Reading']
      BY <3>1 DEF Edit, Reading
    <3>4. out \in Seq(Msgs)
      BY DEF Inv, TypeOK
    <3>5. Read(done)
      BY <1>7, <1>12, <3>1, <3>2, <3>3
    <3>. QED BY <1>1, <1>12, <3>1, <3>4, <3>5
  <2>. QED BY <2>1, <2>2
<1>14. LineRight'
  <2>1. PICK more \in Seq(Seq(Chars)) : Read(more)
    BY <1>13
  <2>2. m \in Nat /\ m >= 1 /\ m <= n + 1 /\ n \in Nat
    BY <1>1, <1>4 DEF Inv, Queues
  <2>3. Edited(SubSeq(typed, m, n + One(ev))) = [done |-> more, cur |-> Reading']
    <3>. HIDE DEF m, n
    <3>1. CASE IsPress(ev)
      <4>1. One(ev) = 1
        BY <3>1 DEF One
      <4>2. n + 1 <= Len(typed)
        <5>1. Pressed(Gone + 1) <= Pressed(Passed)
          BY <1>4, PressedMonotone
        <5>. QED BY <1>4, <1>8, <4>1, <5>1 DEF n
      <4>3. /\ SubSeq(typed, m, n + 1) = Append(SubSeq(typed, m, n), c)
            /\ SubSeq(typed, m, n) \in Seq(Keys) /\ c \in Keys
        <5>1. c = typed[n + 1]
          BY <1>8, <4>1 DEF n
        <5>2. typed \in Seq(Keys)
          BY <1>1
        <5>3. /\ SubSeq(typed, m, n + 1) = Append(SubSeq(typed, m, n), typed[n + 1])
              /\ SubSeq(typed, m, n) \in Seq(Keys)
          BY <2>2, <4>2, <5>2, TakenMore
        <5>. QED BY <1>7, <5>1, <5>3
      <4>4. Edited(SubSeq(typed, m, n + 1)) = EditKey(Edit(done), c)
        BY <1>12, <4>3, EditedMore
      <4>. QED BY <2>1, <3>1, <4>1, <4>4
    <3>2. CASE ~IsPress(ev)
      <4>1. One(ev) = 0 /\ n + 0 = n
        BY <2>2, <3>2 DEF One
      <4>. QED BY <1>12, <2>1, <3>2, <4>1
    <3>. QED BY <3>1, <3>2
  <2>4. SubSeq(typed', dropped' + 1, Pressed(Gone)') = SubSeq(typed, m, n + One(ev))
    BY <1>1, <1>9
  <2>. HIDE DEF m, n
  <2>. QED BY <2>1, <2>3, <2>4 DEF LineRight
<1>. HIDE DEF m, n, Read
<1>15. TypeOK'
  BY <1>1, <1>3, <1>13 DEF Inv, TypeOK, read_keyboard, ForthType
<1>16. Consoles'
  BY <1>1, <1>13 DEF Inv, Consoles, OwnConsole, read_keyboard
<1>17. Picture'
  BY <1>13, PictureStays DEF read_keyboard
<1>. QED BY <1>11, <1>14, <1>15, <1>16, <1>17 DEF Inv

(* Every step keeps the invariant. *)
LEMMA NextInv ==
  ASSUME Inv, [Next]_vars
  PROVE  Inv'
<1>1. CASE UNCHANGED vars
  <2>1. UNCHANGED <<main, iface, inner, keyboard, from_port, dpy, forth, out, events,
                    typed, dropped, lines, text, odd, printed>>
    BY <1>1 DEF vars
  <2>2. TypeOK'
    BY <2>1 DEF Inv, TypeOK
  <2>3. Consoles'
    BY <2>1 DEF Inv, Consoles, OwnConsole
  <2>4. Reading' = Reading
    BY <2>1 DEF Reading
  <2>5. Picture'
    BY <2>1, PictureStays
  <2>. QED BY <2>1, <2>2, <2>3, <2>4, <2>5, ReadingStays DEF Inv
<1>2. CASE System
  BY <1>2, NameserverStep, InterfaceStep, StartDisplayStep, WaitStep, StartForthStep, UpdateStep,
     SendTempStep, AnswerStep, BindStep, ConnectStep, LookUpDisplayStep, LookUpKeyboardStep,
     SendOutStep, ReadKeyboardStep, ReadStep DEF System
<1>3. CASE \E k \in Keys : Press(k)
  BY <1>3, PressStep
<1>. QED BY <1>1, <1>2, <1>3 DEF Next

(* The invariant holds throughout. *)
LEMMA ConsoleInvariant == Spec => []Inv
<1>1. Init => Inv
  BY InitInv
<1>2. Inv /\ [Next]_vars => Inv'
  BY NextInv
<1>. QED BY <1>1, <1>2, PTL DEF Spec

-----------------------------------------------------------------------------
(* forth prints on the display of its own window, whatever the order in     *)
(* which the console, its two threads, the display and forth come up.       *)
THEOREM UsesOwnConsole == Spec => []OwnConsole
<1>1. Inv => OwnConsole
  BY DEF Inv, Consoles
<1>. QED BY <1>1, ConsoleInvariant, PTL

(* forth reads the lines typed after it connected, for a line buffer of any *)
(* size and any keys: every press once and in order, edited, through two    *)
(* queues; of a line that fills the buffer perhaps no more than its first   *)
(* character.                                                               *)
THEOREM ReadsWhatIsTyped == Spec => []LinesTyped
<1>1. ASSUME Inv PROVE LinesTyped
  <2>1. (Len(typed) - Presses(from_port)) - Presses(events) = Pressed(Gone)
    BY <1>1, Numbers DEF Inv, Queues
  <2>2. PICK done \in Seq(Seq(Chars)) :
          /\ Edited(SubSeq(typed, dropped + 1, Pressed(Gone))) = [done |-> done, cur |-> Reading]
          /\ ReadAs(done, lines)
    BY <1>1 DEF Inv, LineRight
  <2>. DEFINE e == Edited(SubSeq(typed, dropped + 1, Pressed(Gone)))
  <2>3. e.cur = Reading /\ ReadAs(e.done, lines)
    BY <2>2
  <2>. HIDE DEF e
  <2>4. e = Edited(SubSeq(typed, dropped + 1, Len(typed) - Presses(from_port) - Presses(events)))
    BY <2>1 DEF e
  <2>. QED BY <2>3, <2>4, Zenon DEF LinesTyped, Reading
<1>. QED BY <1>1, ConsoleInvariant, PTL

(* The picture shows what was printed, row by row, for a display of any     *)
(* size and any output, through erasing, scrolling and clearing.            *)
THEOREM PictureShowsText == Spec => []ScreenShowsText
<1>1. ASSUME Inv PROVE ScreenShowsText
  <2>1. forth.display # "none" => main = "update"
    BY <1>1 DEF Inv, TypeOK, Consoles
  <2>. QED BY <1>1, <2>1 DEF Inv, Picture, ScreenShowsText, Shows
<1>. QED BY <1>1, ConsoleInvariant, PTL

=============================================================================
