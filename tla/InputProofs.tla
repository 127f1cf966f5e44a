----------------------------- MODULE InputProofs -----------------------------
(***************************************************************************)
(* Proofs about the keyboard and mouse drivers: whatever main's            *)
(* registrations and the event thread's loops do to each other, a client   *)
(* gets every event read since it was entered, once and in order.          *)
(***************************************************************************)
EXTENDS Input, FiniteSetTheorems, SequenceTheorems, TLAPS

-----------------------------------------------------------------------------
(* The invariant. *)

Character == {Lower[k] : k \in Code} \cup {Upper[k] : k \in Code}

KeyEvent == [type : {"KEYBOARD_MSG_EVENT"}, character : Character, modifiers : SUBSET Modifier,
             scancode : Byte, up : BOOLEAN]
MouseEvent == [type : {"MOUSE_MSG_EVENT"}, flags : Int, x : Int, y : Int]
Event == KeyEvent \cup MouseEvent

Controller == [full : BOOLEAN, from : Driver, byte : Byte]
Thread == [pc : {"wait", "drain", "read", "send"}, k : Nat, msg : Event \cup {NoEvent},
           things : Seq(Byte), is_uppercase : BOOLEAN, modifiers : SUBSET Modifier]
Main(d) == [pc : {"recv", "counted", "stored"}, client : Connects[d] \cup {NoClient}]
Slots(d) == 0 .. Cardinality(Connects[d]) - 1

(* What a driver's variables hold. *)
TypeOK ==
  /\ ctl \in Controller /\ pending \in [Driver -> Seq(Byte)]
  /\ thread \in [Driver -> Thread]
  /\ events \in [Driver -> Seq(Event)]
  /\ num_clients \in [Driver -> Nat]
  /\ DOMAIN main = Driver /\ DOMAIN clients = Driver /\ DOMAIN got = Driver /\ DOMAIN since = Driver
  /\ \A d \in Driver :
       /\ main[d] \in Main(d)
       /\ clients[d] \in [Slots(d) -> Connects[d] \cup {NoClient}]
       /\ got[d] \in [Connects[d] -> Seq(Event)]
       /\ since[d] \in [Connects[d] -> Int]

(* The clients that main has entered. *)
Known(d, s) == {c \in Connects[d] : s[c] # -1}

(* Driver d's table cl and count n, with main at m: the first n entries are *)
(* the clients entered so far, each once; while main is between its two     *)
(* stores there is one that is counted and still 0, or stored and not yet   *)
(* counted; behind them the table is clear, and there is room.              *)
Table(d, m, cl, n, s) ==
  /\ Cardinality(Known(d, s)) = (IF m.pc = "counted" THEN n - 1 ELSE n)
  /\ n <= Cardinality(Connects[d])
  /\ m.pc # "recv" => m.client \in Connects[d] /\ s[m.client] = -1
  /\ m.pc = "counted" => n > 0
  /\ m.pc = "stored" => n < Cardinality(Connects[d])
  /\ \A k \in Slots(d) :
       IF k < n /\ ~(m.pc = "counted" /\ k = n - 1) THEN cl[k] \in Known(d, s)
       ELSE cl[k] = IF m.pc = "stored" /\ k = n THEN m.client ELSE NoClient
  /\ \A c \in Known(d, s) : \E k \in Slots(d) : k < n /\ cl[k] = c
  /\ \A j, k \in Slots(d) : cl[j] = cl[k] /\ cl[k] # NoClient => j = k

(* How many of the events e thread t has sent to entry k. *)
Upto(t, e, k) == IF t.pc = "send" /\ t.k <= k THEN Len(e) - 1 ELSE Len(e)

(* g is what was read from s0 on, or from one before, to the n-th. *)
Delivered(g, e, n, s0) ==
  \E s \in {s0 - 1, s0} : 0 <= s /\ s <= n /\ g = SubSeq(e, s + 1, n)

(* The thread sends the event it read last; everybody in the table has all  *)
(* events up to there, and nobody else has any.                             *)
Served(d, cl, n, t, g, e, s) ==
  /\ t.pc = "send" => Len(e) > 0 /\ t.msg = e[Len(e)]
  /\ \A k \in Slots(d) :
       k < n /\ cl[k] \in Known(d, s) => Delivered(g[cl[k]], e, Upto(t, e, k), s[cl[k]])
  /\ \A c \in Connects[d] : s[c] = -1 => g[c] = <<>>

Tabled(d) == Table(d, main[d], clients[d], num_clients[d], since[d])
Serving(d) == Served(d, clients[d], num_clients[d], thread[d], got[d], events[d], since[d])

(* The inductive invariant. *)
IInv == TypeOK /\ \A d \in Driver : Tabled(d) /\ Serving(d)

-----------------------------------------------------------------------------
(* Parts of a sequence. *)

(* An event read later does not change what was read before. *)
LEMMA SubSeqAppend ==
  ASSUME NEW S, NEW e \in Seq(S), NEW x \in S, NEW m \in Nat, NEW n \in Nat, 1 <= m, n <= Len(e)
  PROVE  SubSeq(Append(e, x), m, n) = SubSeq(e, m, n)
  OBVIOUS

(* What was sent, with the next one behind it. *)
LEMMA SubSeqNext ==
  ASSUME NEW S, NEW e \in Seq(S), NEW m \in Nat, NEW n \in Nat, 1 <= m, m <= n, n <= Len(e)
  PROVE  Append(SubSeq(e, m, n - 1), e[n]) = SubSeq(e, m, n)
  OBVIOUS

-----------------------------------------------------------------------------
(* The table. *)

(* The number of clients entered is at most that of the clients. *)
LEMMA KnownCount ==
  ASSUME NEW d \in Driver, NEW s
  PROVE  /\ IsFiniteSet(Known(d, s)) /\ Cardinality(Known(d, s)) \in Nat
         /\ Cardinality(Connects[d]) \in Nat /\ IsFiniteSet(Connects[d])
         /\ \A c \in Connects[d] : s[c] = -1 => Cardinality(Known(d, s)) < Cardinality(Connects[d])
<1>1. IsFiniteSet(Connects[d])
  BY DeviceAssumption
<1>2. Known(d, s) \in SUBSET Connects[d]
  BY DEF Known
<1>3. /\ IsFiniteSet(Known(d, s)) /\ Cardinality(Known(d, s)) <= Cardinality(Connects[d])
      /\ Cardinality(Connects[d]) = Cardinality(Known(d, s)) => Connects[d] = Known(d, s)
  BY <1>1, <1>2, FS_Subset
<1>4. Cardinality(Known(d, s)) \in Nat /\ Cardinality(Connects[d]) \in Nat
  BY <1>1, <1>3, FS_CardinalityType
<1>5. ASSUME NEW c \in Connects[d], s[c] = -1
      PROVE  Connects[d] # Known(d, s)
  BY <1>5 DEF Known
<1> QED
  BY <1>1, <1>3, <1>4, <1>5

(* sm knows c beside those that s knows. *)
Knows(d, s, sm, c) ==
  /\ Known(d, sm) = Known(d, s) \cup {c}
  /\ Cardinality(Known(d, sm)) = Cardinality(Known(d, s)) + 1

(* Entering a client makes it known. *)
LEMMA KnownGrows ==
  ASSUME NEW d \in Driver, NEW s \in [Connects[d] -> Int], NEW c \in Connects[d], s[c] = -1,
         NEW v \in Nat
  PROVE  Knows(d, s, [s EXCEPT ![c] = v], c)
<1> DEFINE sm == [s EXCEPT ![c] = v]
<1>1. Known(d, sm) = Known(d, s) \cup {c} /\ c \notin Known(d, s)
  BY DEF Known
<1> HIDE DEF sm
<1>2. Knows(d, s, sm, c)
  BY <1>1, KnownCount, FS_AddElement DEF Knows
<1> QED
  BY <1>2 DEF sm

(* main counts first: the entry it counts is still clear. *)
LEMMA TableCount ==
  ASSUME NEW d \in Driver, NEW cl \in [Slots(d) -> Connects[d] \cup {NoClient}], NEW n \in Nat,
         NEW s \in [Connects[d] -> Int], NEW m \in Main(d), m.pc = "recv", Table(d, m, cl, n, s),
         NEW c \in Connects[d], s[c] = -1
  PROVE  Table(d, [pc |-> "counted", client |-> c], cl, n + 1, s)
<1>1. Cardinality(Known(d, s)) = n /\ n < Cardinality(Connects[d]) /\ Cardinality(Connects[d]) \in Nat
  BY KnownCount DEF Table
<1>2. \A k \in Slots(d) : IF k < n THEN cl[k] \in Known(d, s) ELSE cl[k] = NoClient
  BY DEF Table
<1>3. \A k \in Slots(d) :
        IF k < n + 1 /\ k # n THEN cl[k] \in Known(d, s) ELSE cl[k] = NoClient
  BY <1>2 DEF Slots
<1>4. \A e \in Known(d, s) : \E k \in Slots(d) : k < n + 1 /\ cl[k] = e
  BY DEF Table, Slots
<1>5. \A j, k \in Slots(d) : cl[j] = cl[k] /\ cl[k] # NoClient => j = k
  BY DEF Table
<1> QED
  BY <1>1, <1>3, <1>4, <1>5 DEF Table

(* main stores first: the entry behind the last one counted, which is there *)
(* and clear.                                                               *)
LEMMA TableStore ==
  ASSUME NEW d \in Driver, NEW cl \in [Slots(d) -> Connects[d] \cup {NoClient}], NEW n \in Nat,
         NEW s \in [Connects[d] -> Int], NEW m \in Main(d), m.pc = "recv", Table(d, m, cl, n, s),
         NEW c \in Connects[d], s[c] = -1
  PROVE  /\ n \in Slots(d)
         /\ Table(d, [pc |-> "stored", client |-> c], [cl EXCEPT ![n] = c], n, s)
<1>1. Cardinality(Known(d, s)) = n /\ n < Cardinality(Connects[d]) /\ Cardinality(Connects[d]) \in Nat
  BY KnownCount DEF Table
<1>2. \A k \in Slots(d) : IF k < n THEN cl[k] \in Known(d, s) ELSE cl[k] = NoClient
  BY DEF Table
<1>3. n \in Slots(d)
  BY <1>1 DEF Slots
<1> DEFINE cm == [cl EXCEPT ![n] = c]
<1>4. cm[n] = c /\ \A k \in Slots(d) : k # n => cm[k] = cl[k]
  BY <1>3
<1>5. c \notin Known(d, s) /\ c # NoClient /\ NoClient \notin Known(d, s)
  BY DeviceAssumption DEF Known
<1> HIDE DEF cm
<1>6. \A k \in Slots(d) :
        IF k < n THEN cm[k] \in Known(d, s) ELSE cm[k] = IF k = n THEN c ELSE NoClient
  BY <1>2, <1>4 DEF Slots
<1>7. \A e \in Known(d, s) : \E k \in Slots(d) : k < n /\ cm[k] = e
  BY <1>4 DEF Table, Slots
<1>8. \A j, k \in Slots(d) : cm[j] = cm[k] /\ cm[k] # NoClient => j = k
  <2>1. \A j, k \in Slots(d) : cl[j] = cl[k] /\ cl[k] # NoClient => j = k
    BY DEF Table
  <2>2. \A k \in Slots(d) : k # n => cl[k] # c
    BY <1>2, <1>5
  <2> QED
    BY <2>1, <2>2, <1>4
<1>9. Table(d, [pc |-> "stored", client |-> c], cm, n, s)
  BY <1>1, <1>6, <1>7, <1>8 DEF Table
<1> QED
  BY <1>3, <1>9 DEF cm

(* The client counted is stored. *)
LEMMA TableCounted ==
  ASSUME NEW d \in Driver, NEW cl \in [Slots(d) -> Connects[d] \cup {NoClient}], NEW n \in Nat,
         NEW s \in [Connects[d] -> Int], NEW m \in Main(d), m.pc = "counted", Table(d, m, cl, n, s),
         NEW v \in Nat
  PROVE  /\ n - 1 \in Slots(d)
         /\ Table(d, [pc |-> "recv", client |-> NoClient], [cl EXCEPT ![n - 1] = m.client], n,
                  [s EXCEPT ![m.client] = v])
<1> DEFINE c == m.client
           cm == [cl EXCEPT ![n - 1] = c]
           sm == [s EXCEPT ![c] = v]
           p == n - 1
<1>1. /\ Cardinality(Known(d, s)) = p /\ n <= Cardinality(Connects[d]) /\ p \in Nat /\ n = p + 1
      /\ c \in Connects[d] /\ s[c] = -1
  BY DEF Table
<1>2. p \in Slots(d)
  BY <1>1, KnownCount DEF Slots
<1>3. Known(d, sm) = Known(d, s) \cup {c} /\ Cardinality(Known(d, sm)) = n
  <2>1. c \in Connects[d] /\ s[c] = -1
    BY <1>1
  <2>2. Knows(d, s, sm, c)
    BY <2>1, KnownGrows
  <2> QED
    BY <1>1, <2>2 DEF Knows
<1>4. \A k \in Slots(d) : IF k < p THEN cl[k] \in Known(d, s) ELSE cl[k] = NoClient
  <2>1. \A k \in Slots(d) : IF k < n /\ k # n - 1 THEN cl[k] \in Known(d, s) ELSE cl[k] = NoClient
    BY DEF Table
  <2> QED
    BY <2>1 DEF Slots
<1>5. cm[p] = c /\ \A k \in Slots(d) : k # p => cm[k] = cl[k]
  BY <1>2
<1>6. c \notin Known(d, s) /\ c # NoClient /\ NoClient \notin Known(d, s)
  BY <1>1, DeviceAssumption DEF Known
<1>0. \A e \in Known(d, s) : \E k \in Slots(d) : k < n /\ cl[k] = e
  BY DEF Table
<1>x. \A j, k \in Slots(d) : cl[j] = cl[k] /\ cl[k] # NoClient => j = k
  BY DEF Table
<1> HIDE DEF c, cm, sm, p
<1>7. \A k \in Slots(d) : IF k < n THEN cm[k] \in Known(d, sm) ELSE cm[k] = NoClient
  BY <1>1, <1>3, <1>4, <1>5 DEF Slots
<1>8. \A e \in Known(d, sm) : \E k \in Slots(d) : k < n /\ cm[k] = e
  <2>1. ASSUME NEW e \in Known(d, s)
        PROVE  \E k \in Slots(d) : k < n /\ cm[k] = e
    <3>1. cl[p] = NoClient
      BY <1>1, <1>2, <1>4
    <3> QED
      BY <3>1, <1>0, <1>5, <1>6
  <2>2. p < n /\ cm[p] = c
    BY <1>1, <1>5
  <2> QED
    BY <2>1, <2>2, <1>2, <1>3
<1>9. \A j, k \in Slots(d) : cm[j] = cm[k] /\ cm[k] # NoClient => j = k
  <2>1. \A k \in Slots(d) : k # p => cl[k] # c
    BY <1>4, <1>6
  <2> QED
    BY <2>1, <1>5, <1>x
<1>10. Table(d, [pc |-> "recv", client |-> NoClient], cm, n, sm)
  BY <1>1, <1>3, <1>7, <1>8, <1>9 DEF Table
<1> QED
  BY <1>2, <1>10 DEF c, cm, sm, p

(* The client stored is counted. *)
LEMMA TableStored ==
  ASSUME NEW d \in Driver, NEW cl \in [Slots(d) -> Connects[d] \cup {NoClient}], NEW n \in Nat,
         NEW s \in [Connects[d] -> Int], NEW m \in Main(d), m.pc = "stored", Table(d, m, cl, n, s),
         NEW v \in Nat
  PROVE  Table(d, [pc |-> "recv", client |-> NoClient], cl, n + 1, [s EXCEPT ![m.client] = v])
<1> DEFINE c == m.client
           sm == [s EXCEPT ![c] = v]
<1>1. /\ Cardinality(Known(d, s)) = n /\ n < Cardinality(Connects[d])
      /\ c \in Connects[d] /\ s[c] = -1
  BY DEF Table
<1>2. n \in Slots(d) /\ n + 1 <= Cardinality(Connects[d])
  BY <1>1, KnownCount DEF Slots
<1>3. Known(d, sm) = Known(d, s) \cup {c} /\ Cardinality(Known(d, sm)) = n + 1
  <2>1. c \in Connects[d] /\ s[c] = -1
    BY <1>1
  <2>2. Knows(d, s, sm, c)
    BY <2>1, KnownGrows
  <2> QED
    BY <1>1, <2>2 DEF Knows
<1>4. \A k \in Slots(d) : IF k < n THEN cl[k] \in Known(d, s)
                          ELSE cl[k] = IF k = n THEN c ELSE NoClient
  BY DEF Table
<1>5. \A e \in Known(d, s) : \E k \in Slots(d) : k < n /\ cl[k] = e
  BY DEF Table
<1>6. \A j, k \in Slots(d) : cl[j] = cl[k] /\ cl[k] # NoClient => j = k
  BY DEF Table
<1> HIDE DEF c, sm
<1>7. \A k \in Slots(d) : IF k < n + 1 THEN cl[k] \in Known(d, sm) ELSE cl[k] = NoClient
  BY <1>3, <1>4 DEF Slots
<1>8. \A e \in Known(d, sm) : \E k \in Slots(d) : k < n + 1 /\ cl[k] = e
  <2>1. ASSUME NEW e \in Known(d, s)
        PROVE  \E k \in Slots(d) : k < n + 1 /\ cl[k] = e
    BY <1>5 DEF Slots
  <2>2. n < n + 1 /\ cl[n] = c
    BY <1>2, <1>4
  <2> QED
    BY <2>1, <2>2, <1>2, <1>3
<1>9. Table(d, [pc |-> "recv", client |-> NoClient], cl, n + 1, sm)
  BY <1>2, <1>3, <1>6, <1>7, <1>8 DEF Table
<1> QED
  BY <1>9 DEF c, sm

-----------------------------------------------------------------------------
(* What the clients in the table have got. *)

(* main's first store puts no client into the table. *)
LEMMA ServedFirst ==
  ASSUME NEW d \in Driver, NEW cl, NEW cm, NEW n, NEW nm, NEW t, NEW g, NEW e, NEW s,
         Served(d, cl, n, t, g, e, s),
         \A k \in Slots(d) : k < nm /\ cm[k] \in Known(d, s) => k < n /\ cm[k] = cl[k]
  PROVE  Served(d, cm, nm, t, g, e, s)
  BY Zenon DEF Served

(* A client that main has just entered, at entry k: it gets the event that  *)
(* is being sent if the loop has not come to k, and the next one otherwise. *)
LEMMA FreshDelivered ==
  ASSUME NEW t \in Thread, NEW e \in Seq(Event), NEW k \in Nat, t.pc = "send" => Len(e) > 0
  PROVE  Delivered(<<>>, e, Upto(t, e, k), Len(e))
<1>0. Len(e) \in Nat
  OBVIOUS
<1>1. CASE t.pc = "send" /\ t.k <= k
  <2>1. Upto(t, e, k) = Len(e) - 1 /\ Len(e) > 0
    BY <1>1 DEF Upto
  <2>2. SubSeq(e, (Len(e) - 1) + 1, Len(e) - 1) = <<>>
    BY <1>0, SubSeqEmpty
  <2>3. \E s \in {Len(e) - 1, Len(e)} : 0 <= s /\ s <= Len(e) - 1 /\ <<>> = SubSeq(e, s + 1, Len(e) - 1)
    BY <1>0, <2>1, <2>2
  <2> QED
    BY <2>1, <2>3 DEF Delivered
<1>2. CASE ~(t.pc = "send" /\ t.k <= k)
  <2>1. Upto(t, e, k) = Len(e)
    BY <1>2 DEF Upto
  <2>2. SubSeq(e, Len(e) + 1, Len(e)) = <<>>
    BY <1>0, SubSeqEmpty
  <2>3. \E s \in {Len(e) - 1, Len(e)} : 0 <= s /\ s <= Len(e) /\ <<>> = SubSeq(e, s + 1, Len(e))
    BY <1>0, <2>2
  <2> QED
    BY <2>1, <2>3 DEF Delivered
<1> QED
  BY <1>1, <1>2

(* The table cm with count nm is cl with count n, and c at entry p. *)
Enters(d, cl, cm, n, nm, c, p) ==
  /\ c \in Connects[d] /\ p \in Slots(d) /\ cm[p] = c
  /\ \A k \in Slots(d) : k < nm /\ k # p => k < n /\ cm[k] = cl[k] /\ cl[k] # c

(* main's second store puts c into the table, at entry p. *)
LEMMA ServedSecond ==
  ASSUME NEW d \in Driver, NEW cl, NEW cm, NEW n, NEW nm, NEW t \in Thread, NEW g,
         NEW e \in Seq(Event), NEW s \in [Connects[d] -> Int],
         Served(d, cl, n, t, g, e, s),
         NEW c, s[c] = -1, NEW p, Enters(d, cl, cm, n, nm, c, p)
  PROVE  Served(d, cm, nm, t, g, e, [s EXCEPT ![c] = Len(e)])
<1>0. /\ c \in Connects[d] /\ p \in Slots(d) /\ cm[p] = c
      /\ \A k \in Slots(d) : k < nm /\ k # p => k < n /\ cm[k] = cl[k] /\ cl[k] # c
  BY DEF Enters
<1> DEFINE sm == [s EXCEPT ![c] = Len(e)]
<1>1. t.pc = "send" => Len(e) > 0 /\ t.msg = e[Len(e)]
  BY Zenon DEF Served
<1>2. sm[c] = Len(e) /\ Len(e) # -1 /\ \A b \in Connects[d] : b # c => sm[b] = s[b]
  BY <1>0
<1>3. Known(d, sm) = Known(d, s) \cup {c}
  BY <1>0, <1>2 DEF Known
<1>4. g[c] = <<>>
  BY <1>0, Zenon DEF Served
<1> HIDE DEF sm
<1>5. ASSUME NEW k \in Slots(d), k < nm, cm[k] \in Known(d, sm)
      PROVE  Delivered(g[cm[k]], e, Upto(t, e, k), sm[cm[k]])
  <2>1. CASE k = p
    <3>1. p \in Nat
      BY <1>0 DEF Slots
    <3>2. Delivered(<<>>, e, Upto(t, e, p), Len(e))
      BY <1>1, <3>1, FreshDelivered, Zenon
    <3> QED
      BY <2>1, <3>2, <1>0, <1>2, <1>4, Zenon
  <2>2. CASE k # p
    <3>1. k < n /\ cm[k] = cl[k] /\ cl[k] # c
      BY <1>0, <1>5, <2>2
    <3>2. cl[k] \in Known(d, s) /\ cl[k] \in Connects[d]
      BY <1>3, <1>5, <3>1 DEF Known
    <3>3. Delivered(g[cl[k]], e, Upto(t, e, k), s[cl[k]])
      BY <3>1, <3>2, Zenon DEF Served
    <3> QED
      BY <1>2, <3>1, <3>2, <3>3, Zenon
  <2> QED
    BY <2>1, <2>2
<1>6. \A b \in Connects[d] : sm[b] = -1 => g[b] = <<>>
  <2>1. \A b \in Connects[d] : s[b] = -1 => g[b] = <<>>
    BY Zenon DEF Served
  <2> QED
    BY <1>2, <1>4, <2>1
<1>7. Served(d, cm, nm, t, g, e, sm)
  BY <1>1, <1>5, <1>6, Zenon DEF Served
<1> QED
  BY <1>7 DEF sm

(* The thread reads an event and begins to send it. *)
LEMMA ServedEvent ==
  ASSUME NEW d \in Driver, NEW cl, NEW n, NEW t, NEW u, NEW g, NEW e \in Seq(Event),
         NEW s \in [Connects[d] -> Int], Served(d, cl, n, t, g, e, s),
         NEW x \in Event, t.pc # "send", u.pc = "send", u.k = 0, u.msg = x
  PROVE  Served(d, cl, n, u, g, Append(e, x), s)
<1> DEFINE em == Append(e, x)
<1>1. em \in Seq(Event) /\ Len(em) = Len(e) + 1 /\ em[Len(em)] = x /\ Len(e) \in Nat
  OBVIOUS
<1>2. ASSUME NEW m \in Nat, 1 <= m
      PROVE  SubSeq(em, m, Len(e)) = SubSeq(e, m, Len(e))
  BY <1>1, <1>2, SubSeqAppend
<1> HIDE DEF em
<1>3. ASSUME NEW k \in Slots(d), k < n, cl[k] \in Known(d, s)
      PROVE  Delivered(g[cl[k]], em, Upto(u, em, k), s[cl[k]])
  <2>1. Upto(t, e, k) = Len(e) /\ Upto(u, em, k) = Len(e)
    BY <1>1 DEF Upto, Slots
  <2>2. s[cl[k]] \in Int
    BY <1>3 DEF Known
  <2>3. Delivered(g[cl[k]], e, Len(e), s[cl[k]])
    <3>1. Delivered(g[cl[k]], e, Upto(t, e, k), s[cl[k]])
      BY <1>3, Zenon DEF Served
    <3> QED
      BY <2>1, <3>1
  <2>4. PICK a \in {s[cl[k]] - 1, s[cl[k]]} : 0 <= a /\ a <= Len(e) /\ g[cl[k]] = SubSeq(e, a + 1, Len(e))
    BY <2>3 DEF Delivered
  <2>5. a + 1 \in Nat /\ 1 <= a + 1
    BY <2>2, <2>4
  <2>6. g[cl[k]] = SubSeq(em, a + 1, Len(e))
    BY <1>2, <2>4, <2>5
  <2>7. Delivered(g[cl[k]], em, Len(e), s[cl[k]])
    BY <2>4, <2>6, Zenon DEF Delivered
  <2> QED
    BY <2>1, <2>7
<1>4. \A c \in Connects[d] : s[c] = -1 => g[c] = <<>>
  BY Zenon DEF Served
<1>5. Len(em) > 0
  BY <1>1
<1>6. Served(d, cl, n, u, g, em, s)
  BY <1>1, <1>3, <1>4, <1>5, Zenon DEF Served
<1> QED
  BY <1>6 DEF em

(* The thread does something else than send, as before. *)
LEMMA ServedQuiet ==
  ASSUME NEW d \in Driver, NEW cl, NEW n, NEW t, NEW u, NEW g, NEW e, NEW s,
         Served(d, cl, n, t, g, e, s), t.pc # "send", u.pc # "send"
  PROVE  Served(d, cl, n, u, g, e, s)
<1>1. \A k : Upto(t, e, k) = Len(e) /\ Upto(u, e, k) = Len(e)
  BY DEF Upto
<1> QED
  BY <1>1, Zenon DEF Served

(* The loop has come to the end of the table. *)
LEMMA ServedDone ==
  ASSUME NEW d \in Driver, NEW cl, NEW n \in Nat, NEW t \in Thread, NEW u, NEW g, NEW e, NEW s,
         Served(d, cl, n, t, g, e, s), ~(t.k < n), u.pc # "send"
  PROVE  Served(d, cl, n, u, g, e, s)
<1>1. ASSUME NEW k \in Slots(d), k < n
      PROVE  Upto(t, e, k) = Len(e) /\ Upto(u, e, k) = Len(e)
  BY <1>1 DEF Upto, Slots, Thread
<1> QED
  BY <1>1, Zenon DEF Served

(* The loop's next turn, at an entry that is still clear. *)
LEMMA ServedHole ==
  ASSUME NEW d \in Driver, NEW cl, NEW n \in Nat, NEW t \in Thread, NEW u, NEW g, NEW e, NEW s,
         Served(d, cl, n, t, g, e, s), t.pc = "send", u.pc = "send", u.k = t.k + 1, u.msg = t.msg,
         cl[t.k] \notin Known(d, s)
  PROVE  Served(d, cl, n, u, g, e, s)
<1>1. ASSUME NEW k \in Slots(d), k # t.k
      PROVE  Upto(u, e, k) = Upto(t, e, k)
  BY <1>1 DEF Upto, Slots, Thread
<1> QED
  BY <1>1, Zenon DEF Served

(* The loop's next turn, at a client's entry. *)
LEMMA ServedNext ==
  ASSUME NEW d \in Driver, NEW cl, NEW n \in Nat, NEW t \in Thread, NEW u,
         NEW g \in [Connects[d] -> Seq(Event)], NEW e \in Seq(Event),
         NEW s \in [Connects[d] -> Int], Served(d, cl, n, t, g, e, s),
         t.pc = "send", u.pc = "send", u.k = t.k + 1, u.msg = t.msg,
         t.k < n, t.k \in Slots(d), cl[t.k] \in Known(d, s),
         \A k \in Slots(d) : cl[k] = cl[t.k] => k = t.k
  PROVE  Served(d, cl, n, u, [g EXCEPT ![cl[t.k]] = Append(@, t.msg)], e, s)
<1> DEFINE c == cl[t.k]
           gm == [g EXCEPT ![c] = Append(@, t.msg)]
<1>1. c \in Connects[d] /\ s[c] # -1 /\ s[c] \in Int /\ t.k \in Nat /\ Len(e) \in Nat
  BY DEF Known, Thread
<1>2. gm[c] = Append(g[c], t.msg) /\ \A b \in Connects[d] : b # c => gm[b] = g[b]
  BY <1>1
<1>3. Len(e) > 0 /\ t.msg = e[Len(e)]
  BY Zenon DEF Served
<1>4. Delivered(g[c], e, Upto(t, e, t.k), s[c])
  BY Zenon DEF Served
<1>5. Upto(t, e, t.k) = Len(e) - 1 /\ Upto(u, e, t.k) = Len(e)
  BY <1>1 DEF Upto
<1>6. \A b \in Connects[d] : s[b] = -1 => g[b] = <<>>
  BY Zenon DEF Served
<1> HIDE DEF gm, c
<1>7. Delivered(gm[c], e, Upto(u, e, t.k), s[c])
  <2>1. PICK a \in {s[c] - 1, s[c]} : 0 <= a /\ a <= Len(e) - 1 /\ g[c] = SubSeq(e, a + 1, Len(e) - 1)
    BY <1>4, <1>5 DEF Delivered
  <2>2. a + 1 \in Nat /\ 1 <= a + 1 /\ a + 1 <= Len(e) /\ a <= Len(e)
    BY <1>1, <2>1
  <2>3. Append(SubSeq(e, a + 1, Len(e) - 1), e[Len(e)]) = SubSeq(e, a + 1, Len(e))
    <3>1. Len(e) <= Len(e)
      BY <1>1
    <3> QED
      BY <3>1, <1>1, <2>2, SubSeqNext, Zenon
  <2>4. gm[c] = SubSeq(e, a + 1, Len(e))
    BY <1>2, <1>3, <2>1, <2>3
  <2>5. Delivered(gm[c], e, Len(e), s[c])
    BY <2>1, <2>2, <2>4, Zenon DEF Delivered
  <2> QED
    BY <1>5, <2>5
<1>8. ASSUME NEW k \in Slots(d), k < n, cl[k] \in Known(d, s)
      PROVE  Delivered(gm[cl[k]], e, Upto(u, e, k), s[cl[k]])
  <2>1. CASE k = t.k
    BY <1>7, <2>1 DEF c
  <2>2. CASE k # t.k
    <3>1. Upto(u, e, k) = Upto(t, e, k)
      BY <1>1, <2>2 DEF Upto, Slots
    <3>2. cl[k] # c /\ cl[k] \in Connects[d]
      BY <1>8, <2>2 DEF c, Known
    <3>3. Delivered(g[cl[k]], e, Upto(t, e, k), s[cl[k]])
      BY <1>8, Zenon DEF Served
    <3> QED
      BY <1>2, <3>1, <3>2, <3>3, Zenon
  <2> QED
    BY <2>1, <2>2
<1>9. \A b \in Connects[d] : s[b] = -1 => gm[b] = <<>>
  BY <1>1, <1>2, <1>6
<1>10. Served(d, cl, n, u, gm, e, s)
  BY <1>3, <1>8, <1>9, Zenon DEF Served
<1> QED
  BY <1>10 DEF gm, c

-----------------------------------------------------------------------------
(* The steps. *)

(* A driver that a step leaves alone. *)
LEMMA Rest ==
  ASSUME NEW b \in Driver, Tabled(b), Serving(b),
         main'[b] = main[b], clients'[b] = clients[b], num_clients'[b] = num_clients[b],
         thread'[b] = thread[b], got'[b] = got[b], events'[b] = events[b], since'[b] = since[b]
  PROVE  Tabled(b)' /\ Serving(b)'
  BY Zenon DEF Tabled, Serving

(* What the proofs take from the types, for one driver. *)
LEMMA DriverTypes ==
  ASSUME TypeOK, NEW d \in Driver
  PROVE  /\ main[d] \in Main(d) /\ clients[d] \in [Slots(d) -> Connects[d] \cup {NoClient}]
         /\ num_clients[d] \in Nat /\ thread[d] \in Thread /\ events[d] \in Seq(Event)
         /\ got[d] \in [Connects[d] -> Seq(Event)] /\ since[d] \in [Connects[d] -> Int]
         /\ Len(events[d]) \in Nat
  BY DEF TypeOK

(* The devices change the controller only. *)
LEMMA LoadStep ==
  ASSUME IInv, NEW d \in Driver, NEW byte \in Byte, NEW rest \in Seq(Byte), Load(d, byte, rest)
  PROVE  IInv'
<1>1. ctl' \in Controller /\ pending' \in [Driver -> Seq(Byte)]
  BY DEF Load, IInv, TypeOK, Controller
<1>2. UNCHANGED <<main, clients, num_clients, thread, got, events, since>>
  BY DEF Load, Device
<1>3. TypeOK'
  BY <1>1, <1>2 DEF IInv, TypeOK
<1>4. \A b \in Driver : Tabled(b)' /\ Serving(b)'
  BY <1>2, Rest DEF IInv
<1> QED
  BY <1>3, <1>4 DEF IInv

(* The steps of the keyboard and of the mouse. *)
LEMMA DeviceStep ==
  ASSUME IInv, (\E code \in Scancodes : Type(code)) \/ (\E packet \in Packets : Move(packet)) \/ MoveOn
  PROVE  IInv'
<1>1. ASSUME NEW code \in Scancodes, Type(code)
      PROVE  IInv'
  <2>1. code \in Byte /\ <<>> \in Seq(Byte) /\ "keyboard" \in Driver
    BY DeviceAssumption DEF Driver
  <2>2. Load("keyboard", code, <<>>)
    BY <1>1 DEF Type
  <2> QED
    BY <2>1, <2>2, LoadStep, Zenon
<1>2. ASSUME NEW packet \in Packets, Move(packet)
      PROVE  IInv'
  <2>1. packet \in Seq(Byte) /\ Len(packet) = 3
    BY DeviceAssumption
  <2>2. Head(packet) \in Byte /\ Tail(packet) \in Seq(Byte) /\ "mouse" \in Driver
    BY <2>1 DEF Driver
  <2>3. Load("mouse", Head(packet), Tail(packet))
    BY <1>2 DEF Move
  <2> QED
    BY <2>2, <2>3, LoadStep, Zenon
<1>3. ASSUME MoveOn
      PROVE  IInv'
  <2>1. pending["mouse"] \in Seq(Byte) /\ pending["mouse"] # <<>> /\ "mouse" \in Driver
    BY <1>3 DEF MoveOn, IInv, TypeOK, Driver
  <2>2. Head(pending["mouse"]) \in Byte /\ Tail(pending["mouse"]) \in Seq(Byte)
    BY <2>1, HeadTailProperties
  <2>3. Load("mouse", Head(pending["mouse"]), Tail(pending["mouse"]))
    BY <1>3 DEF MoveOn
  <2> QED
    BY <2>1, <2>2, <2>3, LoadStep, Zenon
<1> QED
  BY <1>1, <1>2, <1>3

(* main receives a client and does the first of its stores. *)
LEMMA ConnectStep ==
  ASSUME IInv, NEW d \in Driver, NEW c \in Connects[d], c4rt_peripheral_connect(d, c)
  PROVE  IInv'
<1> DEFINE After(m, cl, n) ==
             /\ m \in Main(d) /\ main' = [main EXCEPT ![d] = m]
             /\ clients'[d] = cl /\ cl \in [Slots(d) -> Connects[d] \cup {NoClient}]
             /\ num_clients'[d] = n /\ n \in Nat
             /\ DOMAIN clients' = Driver /\ num_clients' \in [Driver -> Nat]
             /\ \A b \in Driver : b # d => clients'[b] = clients[b] /\ num_clients'[b] = num_clients[b]
             /\ Table(d, m, cl, n, since[d])
             /\ \A k \in Slots(d) : k < n /\ cl[k] \in Known(d, since[d])
                                     => k < num_clients[d] /\ cl[k] = clients[d][k]
<1>0. TypeOK /\ Tabled(d) /\ Serving(d)
  BY DEF IInv
<1>1. /\ main[d].pc = "recv" /\ since[d][c] = -1
      /\ UNCHANGED <<since, ctl, pending, thread, got, events>>
  BY DEF c4rt_peripheral_connect, Others
<1>2. /\ main[d] \in Main(d) /\ clients[d] \in [Slots(d) -> Connects[d] \cup {NoClient}]
      /\ num_clients[d] \in Nat /\ since[d] \in [Connects[d] -> Int]
  BY <1>0, DriverTypes
<1>3. Table(d, main[d], clients[d], num_clients[d], since[d])
  BY <1>0 DEF Tabled
<1>4. /\ num_clients[d] \in Slots(d)
      /\ Table(d, [pc |-> "counted", client |-> c], clients[d], num_clients[d] + 1, since[d])
      /\ Table(d, [pc |-> "stored", client |-> c], [clients[d] EXCEPT ![num_clients[d]] = c],
               num_clients[d], since[d])
  <2>1. Table(d, [pc |-> "counted", client |-> c], clients[d], num_clients[d] + 1, since[d])
    BY <1>1, <1>2, <1>3, TableCount, Zenon
  <2>2. /\ num_clients[d] \in Slots(d)
        /\ Table(d, [pc |-> "stored", client |-> c], [clients[d] EXCEPT ![num_clients[d]] = c],
                 num_clients[d], since[d])
    BY <1>1, <1>2, <1>3, TableStore, Zenon
  <2> QED
    BY <2>1, <2>2
<1>5. \A k \in Slots(d) :
        IF k < num_clients[d] THEN clients[d][k] \in Known(d, since[d]) ELSE clients[d][k] = NoClient
  BY <1>1, <1>3 DEF Table
<1>6. NoClient \notin Known(d, since[d]) /\ c \notin Known(d, since[d])
  BY <1>1, DeviceAssumption DEF Known
<1>7. /\ DOMAIN main = Driver /\ DOMAIN clients = Driver /\ num_clients \in [Driver -> Nat]
      /\ \A b \in Driver : /\ main[b] \in Main(b)
                           /\ clients[b] \in [Slots(b) -> Connects[b] \cup {NoClient}]
  BY <1>0 DEF TypeOK
<1>8. Served(d, clients[d], num_clients[d], thread[d], got[d], events[d], since[d])
  BY <1>0 DEF Serving
<1>9. ASSUME NEW m, NEW cl, NEW n, After(m, cl, n)
      PROVE  IInv'
  <2>1. DOMAIN main' = Driver /\ main'[d] = m /\ \A b \in Driver : b # d => main'[b] = main[b]
    BY <1>7, <1>9
  <2>2. \A b \in Driver : /\ main'[b] \in Main(b)
                          /\ clients'[b] \in [Slots(b) -> Connects[b] \cup {NoClient}]
    BY <1>7, <1>9, <2>1, Zenon
  <2>3. TypeOK'
    BY <1>0, <1>1, <1>9, <2>1, <2>2 DEF TypeOK
  <2>4. Tabled(d)'
    BY <1>1, <1>9, <2>1 DEF Tabled
  <2>5. Served(d, cl, n, thread[d], got[d], events[d], since[d])
    <3>1. \A k \in Slots(d) : k < n /\ cl[k] \in Known(d, since[d])
                               => k < num_clients[d] /\ cl[k] = clients[d][k]
      BY <1>9
    <3> QED
      BY <1>8, <3>1, ServedFirst
  <2>6. Serving(d)'
    BY <1>1, <1>9, <2>5 DEF Serving
  <2>7. ASSUME NEW b \in Driver, b # d
        PROVE  Tabled(b)' /\ Serving(b)'
    <3>1. Tabled(b) /\ Serving(b)
      BY DEF IInv
    <3> QED
      BY <1>1, <1>9, <2>1, <2>7, <3>1, Rest
  <2> QED
    BY <2>3, <2>4, <2>6, <2>7 DEF IInv
<1>10. CASE CountClient(d) /\ main' = [main EXCEPT ![d] = [pc |-> "counted", client |-> c]]
  <2>1. /\ num_clients' = [num_clients EXCEPT ![d] = @ + 1] /\ clients' = clients
    BY <1>10 DEF CountClient
  <2>2. /\ num_clients' \in [Driver -> Nat] /\ num_clients'[d] = num_clients[d] + 1
        /\ \A b \in Driver : b # d => num_clients'[b] = num_clients[b]
    BY <1>7, <2>1
  <2>3. [pc |-> "counted", client |-> c] \in Main(d) /\ num_clients[d] + 1 \in Nat
    BY <1>2 DEF Main
  <2>4. \A k \in Slots(d) : k < num_clients[d] + 1 /\ clients[d][k] \in Known(d, since[d])
                              => k < num_clients[d] /\ clients[d][k] = clients[d][k]
    BY <1>5, <1>6
  <2>5. After([pc |-> "counted", client |-> c], clients[d], num_clients[d] + 1)
    BY <1>2, <1>4, <1>7, <1>10, <2>1, <2>2, <2>3, <2>4
  <2> HIDE DEF After
  <2> QED
    BY <1>9, <2>5
<1>11. CASE StoreClient(d, num_clients[d], c) /\ main' = [main EXCEPT ![d] = [pc |-> "stored", client |-> c]]
  <2> DEFINE cl == [clients[d] EXCEPT ![num_clients[d]] = c]
  <2>1. /\ clients' = [clients EXCEPT ![d][num_clients[d]] = c] /\ num_clients' = num_clients
    BY <1>11 DEF StoreClient
  <2>2. /\ DOMAIN clients' = Driver /\ clients'[d] = cl
        /\ \A b \in Driver : b # d => clients'[b] = clients[b]
    BY <1>7, <2>1
  <2>3. [pc |-> "stored", client |-> c] \in Main(d) /\ cl \in [Slots(d) -> Connects[d] \cup {NoClient}]
    BY <1>2 DEF Main
  <2>4. \A k \in Slots(d) : k < num_clients[d] /\ cl[k] \in Known(d, since[d])
                              => k < num_clients[d] /\ cl[k] = clients[d][k]
    BY <1>2, <1>6
  <2>5. Table(d, [pc |-> "stored", client |-> c], cl, num_clients[d], since[d])
    BY <1>4
  <2> HIDE DEF cl
  <2>6. After([pc |-> "stored", client |-> c], cl, num_clients[d])
    BY <1>2, <1>7, <1>11, <2>1, <2>2, <2>3, <2>4, <2>5
  <2> HIDE DEF After
  <2> QED
    BY <1>9, <2>6
<1> QED
  BY <1>10, <1>11 DEF c4rt_peripheral_connect

(* main does the second store. *)
LEMMA EnteredStep ==
  ASSUME IInv, NEW d \in Driver, Entered(d)
  PROVE  IInv'
<1> DEFINE c == main[d].client
           m == [pc |-> "recv", client |-> NoClient]
           v == Len(events[d])
           sm == [since[d] EXCEPT ![c] = v]
           After(cl, n, p) ==
             /\ clients'[d] = cl /\ cl \in [Slots(d) -> Connects[d] \cup {NoClient}]
             /\ num_clients'[d] = n /\ n \in Nat
             /\ DOMAIN clients' = Driver /\ num_clients' \in [Driver -> Nat]
             /\ \A b \in Driver : b # d => clients'[b] = clients[b] /\ num_clients'[b] = num_clients[b]
             /\ Table(d, m, cl, n, sm)
             /\ Enters(d, clients[d], cl, num_clients[d], n, c, p)
<1>0. TypeOK /\ Tabled(d) /\ Serving(d)
  BY DEF IInv
<1>1. /\ main[d].pc \in {"counted", "stored"} /\ main' = [main EXCEPT ![d] = m]
      /\ since' = [since EXCEPT ![d][c] = v]
      /\ UNCHANGED <<ctl, pending, thread, got, events>>
  BY DEF Entered, Others
<1>2. /\ main[d] \in Main(d) /\ clients[d] \in [Slots(d) -> Connects[d] \cup {NoClient}]
      /\ num_clients[d] \in Nat /\ since[d] \in [Connects[d] -> Int] /\ v \in Nat
      /\ thread[d] \in Thread /\ events[d] \in Seq(Event)
  BY <1>0, DriverTypes
<1>3. Table(d, main[d], clients[d], num_clients[d], since[d])
  BY <1>0 DEF Tabled
<1>4. c \in Connects[d] /\ since[d][c] = -1
  BY <1>1, <1>3 DEF Table
<1>5. c \notin Known(d, since[d]) /\ c # NoClient
  BY <1>4, DeviceAssumption DEF Known
<1>6. sm \in [Connects[d] -> Int] /\ m \in Main(d)
  BY <1>2, <1>4 DEF Main
<1>7. /\ DOMAIN main = Driver /\ DOMAIN clients = Driver /\ num_clients \in [Driver -> Nat]
      /\ DOMAIN since = Driver
      /\ \A b \in Driver : /\ main[b] \in Main(b) /\ since[b] \in [Connects[b] -> Int]
                           /\ clients[b] \in [Slots(b) -> Connects[b] \cup {NoClient}]
  BY <1>0 DEF TypeOK
<1>8. Served(d, clients[d], num_clients[d], thread[d], got[d], events[d], since[d])
  BY <1>0 DEF Serving
<1>9. ASSUME NEW cl, NEW n, NEW p, After(cl, n, p)
      PROVE  IInv'
  <2>1. /\ DOMAIN main' = Driver /\ main'[d] = m /\ \A b \in Driver : b # d => main'[b] = main[b]
        /\ DOMAIN since' = Driver /\ since'[d] = sm /\ \A b \in Driver : b # d => since'[b] = since[b]
    BY <1>1, <1>7
  <2> HIDE DEF sm, m
  <2>2. \A b \in Driver : /\ main'[b] \in Main(b) /\ since'[b] \in [Connects[b] -> Int]
                          /\ clients'[b] \in [Slots(b) -> Connects[b] \cup {NoClient}]
    BY <1>6, <1>7, <1>9, <2>1, Zenon
  <2>3. TypeOK'
    BY <1>0, <1>1, <1>9, <2>1, <2>2 DEF TypeOK
  <2>4. Tabled(d)'
    BY <1>9, <2>1 DEF Tabled
  <2>5. Served(d, cl, n, thread[d], got[d], events[d], sm)
    <3>1. Enters(d, clients[d], cl, num_clients[d], n, c, p)
      BY <1>9
    <3> HIDE DEF c, After
    <3> QED
      BY <1>2, <1>4, <1>8, <3>1, ServedSecond, Zenon DEF sm
  <2>6. Serving(d)'
    BY <1>1, <1>9, <2>1, <2>5 DEF Serving
  <2>7. ASSUME NEW b \in Driver, b # d
        PROVE  Tabled(b)' /\ Serving(b)'
    <3>1. Tabled(b) /\ Serving(b)
      BY DEF IInv
    <3> QED
      BY <1>1, <1>9, <2>1, <2>7, <3>1, Rest
  <2> QED
    BY <2>3, <2>4, <2>6, <2>7 DEF IInv
<1>10. CASE main[d].pc = "counted" /\ StoreClient(d, num_clients[d] - 1, c)
  <2> DEFINE p == num_clients[d] - 1
             cl == [clients[d] EXCEPT ![p] = c]
  <2>1. /\ clients' = [clients EXCEPT ![d][p] = c] /\ num_clients' = num_clients
    BY <1>10 DEF StoreClient
  <2>2. /\ DOMAIN clients' = Driver /\ clients'[d] = cl
        /\ \A b \in Driver : b # d => clients'[b] = clients[b]
    BY <1>7, <2>1
  <2>3. p \in Slots(d) /\ Table(d, m, cl, num_clients[d], sm)
    BY <1>2, <1>3, <1>10, TableCounted, Zenon
  <2>4. \A k \in Slots(d) : k < num_clients[d] /\ k # p => clients[d][k] \in Known(d, since[d])
    BY <1>3, <1>10 DEF Table
  <2>5. cl[p] = c /\ \A k \in Slots(d) : k # p => cl[k] = clients[d][k]
    BY <1>2, <2>3
  <2>6. cl \in [Slots(d) -> Connects[d] \cup {NoClient}]
    BY <1>2, <1>4
  <2> HIDE DEF cl, p, m, sm, c
  <2>7. \A k \in Slots(d) : k < num_clients[d] /\ k # p
                              => k < num_clients[d] /\ cl[k] = clients[d][k] /\ clients[d][k] # c
    BY <1>5, <2>4, <2>5, Zenon
  <2>8. Enters(d, clients[d], cl, num_clients[d], num_clients[d], c, p)
    BY <1>4, <2>3, <2>5, <2>7 DEF Enters
  <2>9. After(cl, num_clients[d], p)
    BY <1>2, <1>7, <2>1, <2>2, <2>3, <2>6, <2>8
  <2> HIDE DEF After
  <2> QED
    BY <1>9, <2>9
<1>11. CASE main[d].pc = "stored" /\ CountClient(d)
  <2> DEFINE p == num_clients[d]
  <2>1. /\ num_clients' = [num_clients EXCEPT ![d] = @ + 1] /\ clients' = clients
    BY <1>11 DEF CountClient
  <2>2. /\ num_clients' \in [Driver -> Nat] /\ num_clients'[d] = p + 1 /\ p + 1 \in Nat
        /\ \A b \in Driver : b # d => num_clients'[b] = num_clients[b]
    BY <1>7, <2>1
  <2>3. Table(d, m, clients[d], p + 1, sm)
    BY <1>2, <1>3, <1>11, TableStored, Zenon
  <2>4. p \in Slots(d) /\ clients[d][p] = c
    <3>1. p < Cardinality(Connects[d]) /\ Cardinality(Connects[d]) \in Nat
      BY <1>3, <1>11, KnownCount DEF Table
    <3>2. p \in Slots(d)
      BY <3>1, <1>2 DEF Slots
    <3> QED
      BY <1>2, <1>3, <1>11, <3>2 DEF Table
  <2>5. \A k \in Slots(d) : k < p => clients[d][k] \in Known(d, since[d])
    BY <1>3, <1>11 DEF Table
  <2> HIDE DEF m, sm, c
  <2>6. \A k \in Slots(d) : k < p + 1 /\ k # p
                              => k < p /\ clients[d][k] = clients[d][k] /\ clients[d][k] # c
    BY <1>2, <1>5, <2>5 DEF Slots
  <2>7. Enters(d, clients[d], clients[d], p, p + 1, c, p)
    BY <1>4, <2>4, <2>6 DEF Enters
  <2>8. After(clients[d], p + 1, p)
    BY <1>2, <1>7, <2>1, <2>2, <2>3, <2>7
  <2> HIDE DEF After
  <2> QED
    BY <1>9, <2>8
<1> QED
  BY <1>10, <1>11 DEF Entered

(* A step of d's thread: it becomes u, the events read ev and the ones sent *)
(* gm.                                                                      *)
Turn(d, u, gm, ev) ==
  /\ ctl' \in Controller /\ pending' = pending
  /\ UNCHANGED <<main, clients, num_clients, since>>
  /\ u \in Thread /\ DOMAIN thread' = Driver /\ thread'[d] = u
  /\ gm \in [Connects[d] -> Seq(Event)] /\ DOMAIN got' = Driver /\ got'[d] = gm
  /\ ev \in Seq(Event) /\ DOMAIN events' = Driver /\ events'[d] = ev
  /\ thread' = [b \in Driver |-> thread'[b]] /\ events' = [b \in Driver |-> events'[b]]
  /\ \A b \in Driver : b # d => thread'[b] = thread[b] /\ got'[b] = got[b] /\ events'[b] = events[b]

(* A step of a thread that serves the clients keeps the invariant. *)
LEMMA TurnStep ==
  ASSUME IInv, NEW d \in Driver, NEW u, NEW gm, NEW ev, Turn(d, u, gm, ev),
         Served(d, clients[d], num_clients[d], u, gm, ev, since[d])
  PROVE  IInv'
<1>0. TypeOK
  BY DEF IInv
<1>1. /\ UNCHANGED <<main, clients, num_clients, since, pending>> /\ ctl' \in Controller
      /\ \A b \in Driver : b # d => thread'[b] = thread[b] /\ got'[b] = got[b] /\ events'[b] = events[b]
      /\ u \in Thread /\ thread'[d] = u /\ DOMAIN got' = Driver
      /\ gm \in [Connects[d] -> Seq(Event)] /\ got'[d] = gm
      /\ ev \in Seq(Event) /\ events'[d] = ev
  BY DEF Turn
<1>2. \A b \in Driver : thread[b] \in Thread /\ events[b] \in Seq(Event) /\ got[b] \in [Connects[b] -> Seq(Event)]
  BY <1>0 DEF TypeOK
<1>3. \A b \in Driver : thread'[b] \in Thread /\ events'[b] \in Seq(Event) /\ got'[b] \in [Connects[b] -> Seq(Event)]
  BY <1>1, <1>2, Zenon
<1>4. thread' \in [Driver -> Thread] /\ events' \in [Driver -> Seq(Event)]
  <2>1. thread' = [b \in Driver |-> thread'[b]] /\ events' = [b \in Driver |-> events'[b]]
    BY DEF Turn
  <2> QED
    BY <1>3, <2>1
<1>5. TypeOK'
  BY <1>0, <1>1, <1>3, <1>4 DEF TypeOK
<1>6. Tabled(d)'
  BY <1>1 DEF Tabled, IInv
<1>7. Serving(d)'
  BY <1>1 DEF Serving
<1>8. ASSUME NEW b \in Driver, b # d
      PROVE  Tabled(b)' /\ Serving(b)'
  <2>1. Tabled(b) /\ Serving(b)
    BY DEF IInv
  <2> QED
    BY <1>1, <1>8, <2>1, Rest
<1> QED
  BY <1>5, <1>6, <1>7, <1>8 DEF IInv

(* A thread's step in which it takes up u; nothing else of the driver       *)
(* changes but the events, to ev.                                           *)
LEMMA TurnOf ==
  ASSUME TypeOK, NEW d \in Driver, NEW u \in Thread, NEW ev \in Seq(Event),
         thread' = [thread EXCEPT ![d] = u], events' = [events EXCEPT ![d] = ev],
         UNCHANGED <<got, main, clients, num_clients, since, pending>>, ctl' \in Controller
  PROVE  Turn(d, u, got[d], ev)
<1>1. /\ thread \in [Driver -> Thread] /\ events \in [Driver -> Seq(Event)] /\ DOMAIN got = Driver
      /\ got[d] \in [Connects[d] -> Seq(Event)]
  BY DEF TypeOK
<1>2. /\ DOMAIN thread' = Driver /\ thread'[d] = u /\ thread' = [b \in Driver |-> thread'[b]]
      /\ \A b \in Driver : b # d => thread'[b] = thread[b]
  BY <1>1
<1>3. /\ DOMAIN events' = Driver /\ events'[d] = ev /\ events' = [b \in Driver |-> events'[b]]
      /\ \A b \in Driver : b # d => events'[b] = events[b]
  BY <1>1
<1> QED
  BY <1>1, <1>2, <1>3 DEF Turn

(* c4_in_byte leaves the byte where it was. *)
LEMMA PortRead ==
  ASSUME TypeOK, NEW d \in Driver, ReadPort(d)
  PROVE  ctl' \in Controller /\ pending' = pending
  BY DEF ReadPort, TypeOK, Controller

(* Events are what their types say. *)
LEMMA EventTypes ==
  /\ \A code \in Byte, up \in BOOLEAN :
       LET r == decode_scancode(code, up) IN r.c \in Character /\ r.is_uppercase \in BOOLEAN
  /\ \A ms \in SUBSET Modifier : \A c, up : Modified(ms, c, up) \in SUBSET Modifier
  /\ \A p \in Seq(Byte) : Len(p) = 3 => Motion(p) \in Event
<1>1. ASSUME NEW code \in Byte, NEW up \in BOOLEAN
      PROVE  LET r == decode_scancode(code, up) IN r.c \in Character /\ r.is_uppercase \in BOOLEAN
  <2> DEFINE k == code % 128
             c == IF up THEN Upper[k] ELSE Lower[k]
             upper == IF c \in Shift THEN ~IsUp(code) ELSE up
  <2>1. c \in Character
    <3>1. k \in Code
      BY DEF Byte, Code
    <3> HIDE DEF k
    <3> QED
      BY <3>1, Zenon DEF Character
  <2>2. upper \in BOOLEAN
    <3> HIDE DEF c
    <3> QED
      BY Zenon DEF IsUp
  <2>3. decode_scancode(code, up) = [c |-> c, is_uppercase |-> upper]
    BY Zenon DEF decode_scancode
  <2> HIDE DEF c, upper
  <2> QED
    BY <2>1, <2>2, <2>3
<1>2. ASSUME NEW ms \in SUBSET Modifier, NEW c, NEW up
      PROVE  Modified(ms, c, up) \in SUBSET Modifier
  BY DEF Modified
<1>3. ASSUME NEW p \in Seq(Byte), Len(p) = 3
      PROVE  Motion(p) \in Event
  <2>1. p[1] \in Int /\ p[2] \in Int /\ p[3] \in Int
    <3>1. 1 \in 1 .. Len(p) /\ 2 \in 1 .. Len(p) /\ 3 \in 1 .. Len(p)
      BY <1>3
    <3>2. p[1] \in Byte /\ p[2] \in Byte /\ p[3] \in Byte
      BY <3>1, ElementOfSeq, Zenon
    <3>3. \A b \in Byte : b \in Int
      BY DEF Byte
    <3> QED
      BY <3>2, <3>3, Zenon
  <2>2. p[1] % 8 \in Int /\ -(255 - p[2]) \in Int /\ -(255 - p[3]) \in Int
    BY <2>1
  <2>3. Motion(p) \in MouseEvent
    BY <2>1, <2>2 DEF Motion, MouseEvent
  <2> QED
    BY <2>3 DEF Event
<1> QED
  BY <1>1, <1>2, <1>3

(* The keyboard's thread reads a scancode. *)
LEMMA KeyStep ==
  ASSUME IInv, get_event
  PROVE  IInv'
<1> DEFINE d == "keyboard"
           t == thread[d]
           r == decode_scancode(ctl.byte, t.is_uppercase)
           ms == Modified(t.modifiers, r.c, IsUp(ctl.byte))
           x == [type |-> "KEYBOARD_MSG_EVENT", character |-> r.c, modifiers |-> ms,
                 scancode |-> ctl.byte, up |-> IsUp(ctl.byte)]
           u == [t EXCEPT !.pc = "send", !.k = 0, !.msg = x, !.is_uppercase = r.is_uppercase,
                          !.modifiers = ms]
           ev == Append(events[d], x)
<1>0. TypeOK /\ d \in Driver /\ Serving(d)
  BY DEF IInv, Driver
<1>1. /\ t.pc = "wait" /\ ReadPort(d) /\ thread' = [thread EXCEPT ![d] = u]
      /\ events' = [events EXCEPT ![d] = Append(@, x)]
      /\ UNCHANGED <<got, main, clients, num_clients, since>>
  BY Zenon DEF get_event, Tables
<1>2. t \in Thread /\ events[d] \in Seq(Event) /\ since[d] \in [Connects[d] -> Int]
  BY <1>0, DriverTypes
<1>3. ctl.byte \in Byte /\ t.is_uppercase \in BOOLEAN /\ t.modifiers \in SUBSET Modifier
  BY <1>0, <1>2 DEF TypeOK, Controller, Thread
<1>4. r.c \in Character /\ r.is_uppercase \in BOOLEAN /\ ms \in SUBSET Modifier /\ IsUp(ctl.byte) \in BOOLEAN
  <2>1. IsUp(ctl.byte) \in BOOLEAN
    BY DEF IsUp
  <2> QED
    BY <1>3, <2>1, EventTypes, Zenon
<1>5. events' = [events EXCEPT ![d] = ev]
  BY <1>0, <1>1 DEF TypeOK
<1> HIDE DEF r, ms
<1>6. x \in Event
  BY <1>3, <1>4 DEF Event, KeyEvent
<1> HIDE DEF x
<1>7. u \in Thread /\ u.pc = "send" /\ u.k = 0 /\ u.msg = x
  <2>1. 0 \in Nat
    OBVIOUS
  <2> QED
    BY <1>2, <1>4, <1>6, <2>1, ZenonT(30) DEF Thread
<1> HIDE DEF u, t, d
<1>8. ev \in Seq(Event)
  BY <1>2, <1>6
<1>9. Turn(d, u, got[d], ev)
  BY <1>0, <1>1, <1>5, <1>7, <1>8, PortRead, TurnOf
<1>10. Served(d, clients[d], num_clients[d], t, got[d], events[d], since[d])
  BY <1>0 DEF Serving, t
<1>11. t.pc # "send"
  BY <1>1
<1>12. Served(d, clients[d], num_clients[d], u, got[d], ev, since[d])
  BY <1>0, <1>2, <1>6, <1>7, <1>10, <1>11, ServedEvent
<1> QED
  BY <1>0, <1>9, <1>12, TurnStep

(* A step of a thread that was not sending and goes on without. *)
LEMMA QuietStep ==
  ASSUME IInv, NEW d \in Driver, NEW u \in Thread, thread[d].pc # "send", u.pc # "send",
         thread' = [thread EXCEPT ![d] = u], events' = events,
         UNCHANGED <<got, main, clients, num_clients, since, pending>>, ctl' \in Controller
  PROVE  IInv'
<1>0. TypeOK /\ Serving(d)
  BY DEF IInv
<1>1. events[d] \in Seq(Event) /\ events' = [events EXCEPT ![d] = events[d]]
  BY <1>0 DEF TypeOK
<1>2. Turn(d, u, got[d], events[d])
  BY <1>0, <1>1, TurnOf
<1>3. Served(d, clients[d], num_clients[d], u, got[d], events[d], since[d])
  BY <1>0, ServedQuiet DEF Serving
<1> QED
  BY <1>2, <1>3, TurnStep

(* The mouse's thread tests the status. *)
LEMMA CheckStep ==
  ASSUME IInv, CheckIsMouse \/ CheckCanRead
  PROVE  IInv'
<1> DEFINE d == "mouse"
<1>0. TypeOK /\ d \in Driver /\ ctl \in Controller
  BY DEF IInv, Driver, TypeOK
<1>1. thread[d] \in Thread /\ thread \in [Driver -> Thread]
  BY <1>0, DriverTypes DEF TypeOK
<1>2. PICK pc \in {"wait", "drain", "read"} : thread' = [thread EXCEPT ![d].pc = pc]
  BY DEF CheckIsMouse, CheckCanRead
<1>3. thread[d].pc # "send" /\ UNCHANGED <<events, got, main, clients, num_clients, since, pending, ctl>>
  BY DEF CheckIsMouse, CheckCanRead, Tables
<1> DEFINE u == [thread[d] EXCEPT !.pc = pc]
<1>4. thread' = [thread EXCEPT ![d] = u]
  BY <1>0, <1>1, <1>2
<1>5. u \in Thread /\ u.pc # "send"
  BY <1>1, <1>2 DEF Thread
<1> HIDE DEF u, d
<1> QED
  BY <1>0, <1>3, <1>4, <1>5, QuietStep

(* The mouse's thread reads a byte. *)
LEMMA MouseStep ==
  ASSUME IInv, MouseByte
  PROVE  IInv'
<1> DEFINE d == "mouse"
           t == thread[d]
           things == Append(t.things, ctl.byte)
           whole == Len(things) = 3
           sends == whole /\ ~Overflow(things)
           x == Motion(things)
           rest == IF whole THEN <<>> ELSE things
           pc == IF sends THEN "send" ELSE "drain"
           msg == IF sends THEN x ELSE t.msg
           u == [t EXCEPT !.things = rest, !.pc = pc, !.k = 0, !.msg = msg]
<1>0. TypeOK /\ d \in Driver /\ Serving(d)
  BY DEF IInv, Driver
<1>1. /\ t.pc = "read" /\ ReadPort(d) /\ thread' = [thread EXCEPT ![d] = u]
      /\ events' = IF sends THEN [events EXCEPT ![d] = Append(@, x)] ELSE events
      /\ UNCHANGED <<got, main, clients, num_clients, since>>
  BY Zenon DEF MouseByte, Tables
<1>2. t \in Thread /\ events[d] \in Seq(Event) /\ since[d] \in [Connects[d] -> Int]
  BY <1>0, DriverTypes
<1>3. ctl.byte \in Byte /\ t.things \in Seq(Byte) /\ t.msg \in Event \cup {NoEvent}
  BY <1>0, <1>2 DEF TypeOK, Controller, Thread
<1>4. things \in Seq(Byte) /\ rest \in Seq(Byte)
  BY <1>3
<1>5. sends => x \in Event
  BY <1>4, EventTypes, Zenon
<1>6. ctl' \in Controller /\ pending' = pending
  BY <1>0, <1>1, PortRead
<1>7. sends \in BOOLEAN
  BY Zenon
<1>8. CASE sends
  <2>1. pc = "send" /\ msg = x
    BY <1>8, Zenon
  <2>2. events' = [events EXCEPT ![d] = Append(events[d], x)]
    BY <1>0, <1>1, <1>8 DEF TypeOK
  <2>3. x \in Event
    BY <1>5, <1>8
  <2> HIDE DEF pc, msg, rest, sends, x
  <2>4. u \in Thread /\ u.pc = "send" /\ u.k = 0 /\ u.msg = x
    <3>1. 0 \in Nat
      OBVIOUS
    <3> QED
      BY <1>2, <1>4, <2>1, <2>3, <3>1, ZenonT(30) DEF Thread
  <2> HIDE DEF u, t, d
  <2> DEFINE ev == Append(events[d], x)
  <2>5. ev \in Seq(Event)
    BY <1>2, <2>3
  <2>6. Turn(d, u, got[d], ev)
    BY <1>0, <1>1, <1>6, <2>2, <2>4, <2>5, TurnOf
  <2>7. Served(d, clients[d], num_clients[d], t, got[d], events[d], since[d])
    BY <1>0 DEF Serving, t
  <2>8. t.pc # "send"
    BY <1>1
  <2>9. Served(d, clients[d], num_clients[d], u, got[d], ev, since[d])
    BY <1>0, <1>2, <2>3, <2>4, <2>7, <2>8, ServedEvent
  <2> QED
    BY <1>0, <2>6, <2>9, TurnStep
<1>9. CASE ~sends
  <2>1. pc = "drain" /\ msg = t.msg
    BY <1>9, Zenon
  <2>2. events' = events
    BY <1>1, <1>9
  <2> HIDE DEF pc, msg, rest, sends
  <2>3. u \in Thread /\ u.pc # "send"
    <3>1. 0 \in Nat /\ "drain" # "send"
      OBVIOUS
    <3> QED
      BY <1>2, <1>3, <1>4, <2>1, <3>1, ZenonT(30) DEF Thread
  <2>4. thread[d].pc # "send"
    BY <1>1
  <2> HIDE DEF u, t, d
  <2> QED
    BY <1>0, <1>1, <1>6, <2>2, <2>3, <2>4, QuietStep
<1> QED
  BY <1>8, <1>9

(* A turn of the loop over the clients. *)
LEMMA SendStep ==
  ASSUME IInv, NEW d \in Driver, SendNext(d)
  PROVE  IInv'
<1> DEFINE t == thread[d]
           cl == clients[d]
           n == num_clients[d]
           c == cl[t.k]
<1>0. TypeOK /\ Tabled(d) /\ Serving(d) /\ ctl \in Controller
  BY DEF IInv, TypeOK
<1>1. /\ t.pc = "send"
      /\ UNCHANGED <<ctl, pending, events, main, clients, num_clients, since>>
  BY DEF SendNext, Tables
<1>2. /\ t \in Thread /\ cl \in [Slots(d) -> Connects[d] \cup {NoClient}] /\ n \in Nat
      /\ events[d] \in Seq(Event) /\ got[d] \in [Connects[d] -> Seq(Event)]
      /\ since[d] \in [Connects[d] -> Int]
  BY <1>0, DriverTypes
<1>3. Served(d, cl, n, t, got[d], events[d], since[d])
  BY <1>0 DEF Serving
<1>4. Table(d, main[d], cl, n, since[d])
  BY <1>0 DEF Tabled
<1>5. t.k \in Nat /\ t.msg \in Event
  <2>1. t.msg = events[d][Len(events[d])] /\ Len(events[d]) > 0
    BY <1>1, <1>3, Zenon DEF Served
  <2> QED
    BY <1>2, <2>1 DEF Thread
<1>6. /\ thread \in [Driver -> Thread] /\ events \in [Driver -> Seq(Event)] /\ DOMAIN got = Driver
      /\ events' = [events EXCEPT ![d] = events[d]]
  BY <1>0, <1>1 DEF TypeOK
<1>7. CASE t.k < n
  <2> DEFINE u == [t EXCEPT !.k = t.k + 1]
  <2>1. /\ thread' = [thread EXCEPT ![d].k = @ + 1]
        /\ got' = IF c = NoClient THEN got ELSE [got EXCEPT ![d][c] = Append(@, t.msg)]
    BY <1>7 DEF SendNext
  <2>2. thread' = [thread EXCEPT ![d] = u]
    BY <1>6, <2>1
  <2>3. u \in Thread /\ u.pc = "send" /\ u.k = t.k + 1 /\ u.msg = t.msg
    <3>1. t.k + 1 \in Nat
      BY <1>5
    <3> QED
      BY <1>1, <1>2, <3>1, ZenonT(30) DEF Thread
  <2>4. t.k \in Slots(d)
    <3>1. n <= Cardinality(Connects[d]) /\ Cardinality(Connects[d]) \in Nat
      BY <1>4, KnownCount DEF Table
    <3> QED
      BY <1>2, <1>5, <1>7, <3>1 DEF Slots
  <2>5. c \in Known(d, since[d]) \/ c = NoClient
    BY <1>4, <1>7, <2>4 DEF Table
  <2>6. NoClient \notin Known(d, since[d])
    BY DeviceAssumption DEF Known
  <2>7. CASE c = NoClient
    <3>1. got' = got
      BY <2>1, <2>7
    <3>2. cl[t.k] \notin Known(d, since[d])
      BY <2>6, <2>7
    <3> HIDE DEF u, t, cl, n
    <3>3. Turn(d, u, got[d], events[d])
      BY <1>0, <1>1, <1>2, <1>6, <2>2, <2>3, <3>1, TurnOf
    <3>4. Served(d, cl, n, u, got[d], events[d], since[d])
      BY <1>1, <1>2, <1>3, <2>3, <3>2, ServedHole
    <3> QED
      BY <3>3, <3>4, TurnStep DEF cl, n
  <2>8. CASE c # NoClient
    <3> DEFINE gm == [got[d] EXCEPT ![c] = Append(@, t.msg)]
    <3>1. c \in Known(d, since[d]) /\ c \in Connects[d]
      BY <2>5, <2>8 DEF Known
    <3>2. \A k \in Slots(d) : cl[k] = cl[t.k] => k = t.k
      BY <1>4, <2>4, <2>8 DEF Table
    <3>3. /\ DOMAIN got' = Driver /\ got'[d] = gm
          /\ \A b \in Driver : b # d => got'[b] = got[b]
      BY <1>6, <2>1, <2>8
    <3>4. gm \in [Connects[d] -> Seq(Event)]
      <4>1. Append(got[d][c], t.msg) \in Seq(Event)
        BY <1>2, <1>5, <3>1
      <4> QED
        BY <1>2, <4>1
    <3>5. /\ DOMAIN thread' = Driver /\ thread'[d] = u /\ thread' = [b \in Driver |-> thread'[b]]
          /\ \A b \in Driver : b # d => thread'[b] = thread[b]
      BY <1>6, <2>2
    <3>6. DOMAIN events' = Driver /\ events' = [b \in Driver |-> events'[b]]
      BY <1>1, <1>6
    <3>7. Served(d, cl, n, u, gm, events[d], since[d])
      <4> HIDE DEF u, t, cl, n
      <4> QED
        BY <1>1, <1>2, <1>3, <1>7, <2>3, <2>4, <3>1, <3>2, ServedNext
    <3> HIDE DEF u, gm
    <3>8. Turn(d, u, gm, events[d])
      BY <1>0, <1>1, <1>2, <2>3, <3>3, <3>4, <3>5, <3>6 DEF Turn
    <3> QED
      BY <3>7, <3>8, TurnStep
  <2> QED
    BY <2>7, <2>8
<1>8. CASE ~(t.k < n)
  <2> DEFINE pc == IF d = "keyboard" THEN "wait" ELSE "drain"
             u == [t EXCEPT !.pc = pc, !.msg = NoEvent]
  <2>1. /\ thread' = [thread EXCEPT ![d].pc = pc, ![d].msg = NoEvent] /\ got' = got
    BY <1>8, Zenon DEF SendNext
  <2>2. pc \in {"wait", "drain"}
    OBVIOUS
  <2> HIDE DEF pc
  <2>3. thread' = [thread EXCEPT ![d] = u]
    BY <1>6, <2>1
  <2>4. u \in Thread /\ u.pc # "send"
    BY <1>2, <2>2 DEF Thread
  <2> HIDE DEF u, t, cl, n
  <2>5. Turn(d, u, got[d], events[d])
    BY <1>0, <1>1, <1>2, <1>6, <2>1, <2>3, <2>4, TurnOf
  <2>6. Served(d, cl, n, u, got[d], events[d], since[d])
    BY <1>2, <1>3, <1>8, <2>4, ServedDone
  <2> QED
    BY <2>5, <2>6, TurnStep DEF cl, n
<1> QED
  BY <1>7, <1>8

(* At first nobody is in the tables and nothing was read. *)
LEMMA InitInv == Init => IInv
<1> SUFFICES ASSUME Init PROVE IInv
  OBVIOUS
<1>1. TypeOK
  <2>1. ctl \in Controller /\ pending \in [Driver -> Seq(Byte)] /\ events \in [Driver -> Seq(Event)]
    BY DEF Init, Controller, Driver, Byte
  <2>2. thread \in [Driver -> Thread]
    BY DEF Init, Thread
  <2>3. /\ num_clients \in [Driver -> Nat] /\ DOMAIN main = Driver /\ DOMAIN clients = Driver
        /\ DOMAIN got = Driver /\ DOMAIN since = Driver
    BY DEF Init
  <2>4. ASSUME NEW d \in Driver
        PROVE  /\ main[d] \in Main(d)
               /\ clients[d] \in [Slots(d) -> Connects[d] \cup {NoClient}]
               /\ got[d] \in [Connects[d] -> Seq(Event)]
               /\ since[d] \in [Connects[d] -> Int]
    BY DEF Init, Main, Slots
  <2> QED
    BY <2>1, <2>2, <2>3, <2>4 DEF TypeOK
<1>2. ASSUME NEW d \in Driver
      PROVE  Tabled(d) /\ Serving(d)
  <2>1. /\ main[d] = [pc |-> "recv", client |-> NoClient] /\ num_clients[d] = 0
        /\ clients[d] = [k \in Slots(d) |-> NoClient] /\ since[d] = [c \in Connects[d] |-> -1]
        /\ got[d] = [c \in Connects[d] |-> <<>>] /\ thread[d].pc = "wait"
    BY DEF Init, Slots
  <2>2. Known(d, since[d]) = {} /\ Cardinality(Known(d, since[d])) = 0
    BY <2>1, FS_EmptySet DEF Known
  <2>3. Cardinality(Connects[d]) \in Nat
    BY KnownCount
  <2>4. Tabled(d)
    BY <2>1, <2>2, <2>3 DEF Tabled, Table, Slots
  <2>5. Serving(d)
    BY <2>1, <2>2 DEF Serving, Served
  <2> QED
    BY <2>4, <2>5
<1> QED
  BY <1>1, <1>2 DEF IInv

(* The invariant: tables and threads of both drivers agree, wherever main   *)
(* is between its stores and the thread in its loop.                        *)
THEOREM DriversInvariant == Spec => []IInv
<1>1. ASSUME IInv, [Next]_vars
      PROVE  IInv'
  <2>1. CASE Next
    <3>1. CASE \E code \in Scancodes : Type(code)
      BY <1>1, <3>1, DeviceStep
    <3>2. CASE \E packet \in Packets : Move(packet)
      BY <1>1, <3>2, DeviceStep
    <3>3. CASE MoveOn
      BY <1>1, <3>3, DeviceStep
    <3>4. ASSUME NEW d \in Driver, EventThread(d)
          PROVE  IInv'
      BY <1>1, <3>4, SendStep, KeyStep, CheckStep, MouseStep DEF EventThread
    <3>5. ASSUME NEW d \in Driver, Entered(d)
          PROVE  IInv'
      BY <1>1, <3>5, EnteredStep
    <3>6. ASSUME NEW d \in Driver, NEW c \in Connects[d], c4rt_peripheral_connect(d, c)
          PROVE  IInv'
      BY <1>1, <3>6, ConnectStep
    <3> QED
      BY <2>1, <3>1, <3>2, <3>3, <3>4, <3>5, <3>6 DEF Next
  <2>2. CASE UNCHANGED vars
    <3>1. UNCHANGED <<ctl, pending, main, clients, num_clients, thread, got, events, since>>
      BY <2>2 DEF vars
    <3>2. TypeOK'
      BY <1>1, <3>1 DEF IInv, TypeOK
    <3>3. \A d \in Driver : Tabled(d)' /\ Serving(d)'
      BY <1>1, <3>1, Rest DEF IInv
    <3> QED
      BY <3>2, <3>3 DEF IInv
  <2> QED
    BY <1>1, <2>1, <2>2
<1> QED
  BY <1>1, InitInv, PTL DEF Spec

(* Every client of keyboard.c and ps2mouse.c gets every event read since it *)
(* was entered, once and in order, for any number of clients and events,    *)
(* any scancodes and packets, and however the unlocked registration and the *)
(* loop over the table interleave.                                          *)
THEOREM ClientsServed == Spec => []EveryClientEveryEvent
<1>1. IInv => EveryClientEveryEvent
  <2> SUFFICES ASSUME IInv, NEW d \in Driver, NEW c \in Connects[d]
               PROVE  LET read == Len(events[d]) IN
                      IF since[d][c] = -1 THEN got[d][c] = <<>>
                      ELSE \E s \in {since[d][c] - 1, since[d][c]}, n \in {read - 1, read} :
                             /\ s >= 0 /\ (thread[d].pc # "send" => n = read)
                             /\ got[d][c] = SubSeq(events[d], s + 1, n)
    BY DEF EveryClientEveryEvent
  <2>1. TypeOK /\ Tabled(d) /\ Serving(d)
    BY DEF IInv
  <2>2. CASE since[d][c] = -1
    BY <2>1, <2>2, Zenon DEF Serving, Served
  <2>3. CASE since[d][c] # -1
    <3>1. c \in Known(d, since[d])
      BY <2>3 DEF Known
    <3>2. PICK k \in Slots(d) : k < num_clients[d] /\ clients[d][k] = c
      BY <2>1, <3>1 DEF Tabled, Table
    <3> DEFINE n == Upto(thread[d], events[d], k)
    <3>3. Delivered(got[d][c], events[d], n, since[d][c])
      BY <2>1, <3>1, <3>2, Zenon DEF Serving, Served
    <3>4. n \in {Len(events[d]) - 1, Len(events[d])} /\ (thread[d].pc # "send" => n = Len(events[d]))
      BY DEF Upto
    <3> HIDE DEF n
    <3>5. since[d][c] \in Int
      BY <2>1, DriverTypes
    <3>6. PICK s \in {since[d][c] - 1, since[d][c]} :
            0 <= s /\ s <= n /\ got[d][c] = SubSeq(events[d], s + 1, n)
      BY <3>3 DEF Delivered
    <3>7. s >= 0
      BY <3>5, <3>6
    <3> QED
      BY <2>3, <3>4, <3>6, <3>7, Zenon
  <2> QED
    BY <2>2, <2>3
<1> QED
  BY <1>1, DriversInvariant, PTL

-----------------------------------------------------------------------------
(* What the drivers read.  The keyboard's thread has decoded the first n    *)
(* scancodes.                                                               *)
KeysRead(codes, n, t, evs) ==
  /\ Len(evs) = n /\ KeysDecoded(codes, evs)
  /\ AllListed(codes, n) => t.modifiers = HeldAfter(codes, n) /\ t.is_uppercase = ShiftedAfter(codes, n)

(* The mouse's thread has read the first n bytes: whole packets, and the    *)
(* bytes in things[] of the next.                                           *)
MovesRead(bytes, n, t, evs) ==
  \E p \in Nat :
    /\ n = 3 * p + Len(t.things) /\ Len(t.things) < 3
    /\ \A i \in 1 .. Len(t.things) : t.things[i] = bytes[3 * p + i]
    /\ MovesDecoded(bytes, p, evs)

(* What a device has sent is read, in the buffer, or still to come. *)
Buffered(d) ==
  /\ Taken(d) \in Nat
  /\ ctl.full /\ ctl.from = d => ctl.byte = sent[d][Taken(d) + 1]
  /\ \A i \in 1 .. Len(pending[d]) : pending[d][i] = sent[d][Len(sent[d]) - Len(pending[d]) + i]

Streams ==
  /\ \A d \in Driver : Buffered(d)
  /\ pending["keyboard"] = <<>>
  /\ KeysRead(sent["keyboard"], Taken("keyboard"), thread["keyboard"], events["keyboard"])
  /\ MovesRead(sent["mouse"], Taken("mouse"), thread["mouse"], events["mouse"])

(* The inductive invariant of the streams. *)
SInv == sent \in [Driver -> Seq(Byte)] /\ (~mixed => Streams)

-----------------------------------------------------------------------------
(* Scancodes. *)

(* One more scancode: the key it is of is held if it was pressed. *)
LEMMA HeldNext ==
  ASSUME NEW codes, NEW n \in Nat
  PROVE  HeldAfter(codes, n + 1)
           = Modified(HeldAfter(codes, n), KeyOf(codes[n + 1]), IsUp(codes[n + 1]))
<1> DEFINE k == KeyOf(codes[n + 1])
           up == IsUp(codes[n + 1])
           Final(i, c, m) == /\ KeyOf(codes[i]) = c /\ ~IsUp(codes[i])
                             /\ \A j \in i + 1 .. m : KeyOf(codes[j]) # c
<1>1. ASSUME NEW c
      PROVE  (\E i \in 1 .. n + 1 : Final(i, c, n + 1))
               <=> IF k = c THEN ~up ELSE \E i \in 1 .. n : Final(i, c, n)
  <2>1. n + 1 \in 1 .. n + 1 /\ \A j \in n + 1 + 1 .. n + 1 : FALSE
    OBVIOUS
  <2>2. \A i \in 1 .. n : i \in 1 .. n + 1 /\ n + 1 \in i + 1 .. n + 1
    OBVIOUS
  <2>3. \A i \in 1 .. n + 1 : i = n + 1 \/ i \in 1 .. n
    OBVIOUS
  <2>4. \A i \in 1 .. n : \A j \in i + 1 .. n + 1 : j = n + 1 \/ j \in i + 1 .. n
    OBVIOUS
  <2>5. \A i \in 1 .. n : \A j \in i + 1 .. n : j \in i + 1 .. n + 1
    OBVIOUS
  <2>6. CASE k = c
    <3>1. \A i \in 1 .. n : ~Final(i, c, n + 1)
      BY <2>2, <2>6, Zenon
    <3>2. Final(n + 1, c, n + 1) <=> ~up
      BY <2>1, <2>6, Zenon
    <3> QED
      BY <2>1, <2>3, <2>6, <3>1, <3>2, Zenon
  <2>7. CASE k # c
    <3>1. ~Final(n + 1, c, n + 1)
      BY <2>7, Zenon
    <3>2. \A i \in 1 .. n : Final(i, c, n + 1) <=> Final(i, c, n)
      <4> DEFINE Not(j) == KeyOf(codes[j]) # c
      <4>1. Not(n + 1)
        BY <2>7
      <4>2. ASSUME NEW i \in 1 .. n
            PROVE  (\A j \in i + 1 .. n + 1 : Not(j)) <=> (\A j \in i + 1 .. n : Not(j))
        <5> HIDE DEF Not
        <5> QED
          BY <2>4, <2>5, <4>1, Zenon
      <4> QED
        BY <4>2, Zenon
    <3> QED
      BY <2>2, <2>3, <2>7, <3>1, <3>2, Zenon
  <2> QED
    BY <2>6, <2>7
<1>2. /\ HeldAfter(codes, n + 1) = {c \in Modifier : \E i \in 1 .. n + 1 : Final(i, c, n + 1)}
      /\ HeldAfter(codes, n) = {c \in Modifier : \E i \in 1 .. n : Final(i, c, n)}
  BY Zenon DEF HeldAfter
<1> HIDE DEF Final, k, up
<1>3. HeldAfter(codes, n + 1) = Modified(HeldAfter(codes, n), k, up)
  <2>1. CASE k \notin Modifier
    BY <1>1, <1>2, <2>1 DEF Modified
  <2>2. CASE k \in Modifier
    BY <1>1, <1>2, <2>2 DEF Modified
  <2> QED
    BY <2>1, <2>2
<1> QED
  BY <1>3 DEF k, up

(* One more scancode: if it is of a shift key, that decides. *)
LEMMA ShiftNext ==
  ASSUME NEW codes, NEW n \in Nat
  PROVE  ShiftedAfter(codes, n + 1)
           <=> IF KeyOf(codes[n + 1]) \in Shift THEN ~IsUp(codes[n + 1]) ELSE ShiftedAfter(codes, n)
<1> DEFINE k == KeyOf(codes[n + 1])
           Final(i, m) == /\ KeyOf(codes[i]) \in Shift /\ ~IsUp(codes[i])
                          /\ \A j \in i + 1 .. m : KeyOf(codes[j]) \notin Shift
<1>1. n + 1 \in 1 .. n + 1 /\ \A j \in n + 1 + 1 .. n + 1 : FALSE
  OBVIOUS
<1>2. \A i \in 1 .. n : i \in 1 .. n + 1 /\ n + 1 \in i + 1 .. n + 1
  OBVIOUS
<1>3. \A i \in 1 .. n + 1 : i = n + 1 \/ i \in 1 .. n
  OBVIOUS
<1>4. \A i \in 1 .. n : \A j \in i + 1 .. n + 1 : j = n + 1 \/ j \in i + 1 .. n
  OBVIOUS
<1>5. \A i \in 1 .. n : \A j \in i + 1 .. n : j \in i + 1 .. n + 1
  OBVIOUS
<1>6. /\ ShiftedAfter(codes, n + 1) <=> \E i \in 1 .. n + 1 : Final(i, n + 1)
      /\ ShiftedAfter(codes, n) <=> \E i \in 1 .. n : Final(i, n)
  BY Zenon DEF ShiftedAfter
<1>7. CASE k \in Shift
  <2>1. \A i \in 1 .. n : ~Final(i, n + 1)
    BY <1>2, <1>7, Zenon
  <2>2. Final(n + 1, n + 1) <=> ~IsUp(codes[n + 1])
    BY <1>1, <1>7, Zenon
  <2> QED
    BY <1>1, <1>3, <1>6, <1>7, <2>1, <2>2, Zenon
<1>8. CASE k \notin Shift
  <2>1. ~Final(n + 1, n + 1)
    BY <1>8, Zenon
  <2>2. \A i \in 1 .. n : Final(i, n + 1) <=> Final(i, n)
    BY <1>4, <1>5, <1>8, Zenon
  <2> QED
    BY <1>2, <1>3, <1>6, <1>8, <2>1, <2>2, Zenon
<1> QED
  BY <1>7, <1>8

(* Both depend on the scancodes so far only. *)
LEMMA CodesSame ==
  ASSUME NEW codes, NEW more, NEW n \in Nat, \A i \in 1 .. n : more[i] = codes[i]
  PROVE  HeldAfter(more, n) = HeldAfter(codes, n) /\ ShiftedAfter(more, n) = ShiftedAfter(codes, n)
<1>1. \A i \in 1 .. n : \A j \in i + 1 .. n : j \in 1 .. n
  OBVIOUS
<1>2. \A c : \A i \in 1 .. n :
        (\A j \in i + 1 .. n : KeyOf(more[j]) # c) <=> (\A j \in i + 1 .. n : KeyOf(codes[j]) # c)
  BY <1>1, Zenon
<1>3. \A i \in 1 .. n :
        (\A j \in i + 1 .. n : KeyOf(more[j]) \notin Shift) <=> (\A j \in i + 1 .. n : KeyOf(codes[j]) \notin Shift)
  BY <1>1, Zenon
<1>4. HeldAfter(more, n) = HeldAfter(codes, n)
  BY <1>2 DEF HeldAfter
<1>5. ShiftedAfter(more, n) <=> ShiftedAfter(codes, n)
  BY <1>3, Zenon DEF ShiftedAfter
<1> QED
  BY <1>4, <1>5, Zenon DEF ShiftedAfter

(* r is what decode_scancode should make of a scancode. *)
Decodes(r, code, up) ==
  /\ r.c \in Shift <=> KeyOf(code) \in Shift
  /\ \A ms, u : Modified(ms, r.c, u) = Modified(ms, KeyOf(code), u)
  /\ r.c = (IF up THEN Upper ELSE Lower)[code % 128]
  /\ r.is_uppercase = IF r.c \in Shift THEN ~IsUp(code) ELSE up

(* The character read is the key's, or its upper-case form; a modifier of   *)
(* the tables has only one form.                                            *)
LEMMA DecodeKey ==
  ASSUME NEW code \in Byte, code % 128 \in Listed, NEW up \in BOOLEAN
  PROVE  Decodes(decode_scancode(code, up), code, up)
<1> DEFINE k == code % 128
           c == IF up THEN Upper[k] ELSE Lower[k]
           r == decode_scancode(code, up)
<1>1. r.c = c /\ r.is_uppercase = IF c \in Shift THEN ~IsUp(code) ELSE up
  BY Zenon DEF decode_scancode
<1>2. c = (IF up THEN Upper ELSE Lower)[k]
  <2> HIDE DEF k
  <2> QED
    BY Zenon
<1>3. c # KeyOf(code) => c \notin Modifier /\ KeyOf(code) \notin Modifier
  <2>1. ASSUME c # KeyOf(code)
        PROVE  c = Upper[k] /\ KeyOf(code) = Lower[k]
    BY <2>1 DEF KeyOf
  <2>2. k \in Listed
    OBVIOUS
  <2>3. \A x \in Listed : Lower[x] # Upper[x] => Lower[x] \notin Modifier /\ Upper[x] \notin Modifier
    BY TableAssumption, Zenon
  <2> HIDE DEF k, c
  <2> QED
    BY <2>1, <2>2, <2>3
<1>4. Shift \subseteq Modifier
  BY TableAssumption
<1>5. c \in Shift <=> KeyOf(code) \in Shift
  <2> HIDE DEF c
  <2> QED
    BY <1>3, <1>4
<1>6. \A ms, u : Modified(ms, c, u) = Modified(ms, KeyOf(code), u)
  <2> HIDE DEF c
  <2>1. CASE c = KeyOf(code)
    BY <2>1
  <2>2. CASE c # KeyOf(code)
    BY <1>3, <2>2 DEF Modified
  <2> QED
    BY <2>1, <2>2
<1> HIDE DEF c, r
<1>7. Decodes(r, code, up)
  BY <1>1, <1>2, <1>5, <1>6, Zenon DEF Decodes
<1> QED
  BY <1>7 DEF r

(* The keyboard's thread decodes the next scancode. *)
LEMMA KeysReadNext ==
  ASSUME NEW codes, NEW n \in Nat, NEW t, NEW evs \in Seq(Event), KeysRead(codes, n, t, evs),
         codes[n + 1] \in Byte, t.is_uppercase \in BOOLEAN,
         NEW r, r = decode_scancode(codes[n + 1], t.is_uppercase),
         NEW x \in Event, NEW u,
         u.modifiers = Modified(t.modifiers, r.c, IsUp(codes[n + 1])),
         u.is_uppercase = r.is_uppercase,
         x.scancode = codes[n + 1], x.character = r.c, x.modifiers = u.modifiers
  PROVE  KeysRead(codes, n + 1, u, Append(evs, x))
<1> DEFINE code == codes[n + 1]
           em == Append(evs, x)
<1>0. Len(evs) = n /\ KeysDecoded(codes, evs)
  BY DEF KeysRead
<1> DEFINE Held == u.modifiers = HeldAfter(codes, n + 1)
           Shifted == u.is_uppercase = ShiftedAfter(codes, n + 1)
           Named == x.character = (IF ShiftedAfter(codes, n) THEN Upper ELSE Lower)[code % 128]
<1>1. ASSUME AllListed(codes, n + 1)
      PROVE  Held /\ Shifted /\ Named
  <2>1. AllListed(codes, n) /\ code % 128 \in Listed
    <3>1. n + 1 \in 1 .. n + 1 /\ \A i \in 1 .. n : i \in 1 .. n + 1
      OBVIOUS
    <3>2. \A i \in 1 .. n + 1 : codes[i] % 128 \in Listed
      BY <1>1, Zenon DEF AllListed
    <3>3. code % 128 \in Listed
      BY <3>1, <3>2, Zenon
    <3>4. AllListed(codes, n)
      BY <3>1, <3>2, Zenon DEF AllListed
    <3> QED
      BY <3>3, <3>4
  <2>2. t.modifiers = HeldAfter(codes, n) /\ t.is_uppercase = ShiftedAfter(codes, n)
    BY <2>1 DEF KeysRead
  <2>3. /\ r.c \in Shift <=> KeyOf(code) \in Shift
        /\ \A ms, v : Modified(ms, r.c, v) = Modified(ms, KeyOf(code), v)
        /\ r.c = (IF t.is_uppercase THEN Upper ELSE Lower)[code % 128]
        /\ r.is_uppercase = IF r.c \in Shift THEN ~IsUp(code) ELSE t.is_uppercase
    <3>1. Decodes(r, code, t.is_uppercase)
      BY <2>1, DecodeKey
    <3> QED
      BY <3>1, Zenon DEF Decodes
  <2>4. Held
    <3>1. u.modifiers = Modified(HeldAfter(codes, n), r.c, IsUp(code))
      BY <2>2
    <3>2. u.modifiers = Modified(HeldAfter(codes, n), KeyOf(code), IsUp(code))
      BY <2>3, <3>1, Zenon
    <3> QED
      BY <3>2, HeldNext
  <2>5. Shifted
    <3>1. ShiftedAfter(codes, n + 1)
             <=> IF KeyOf(code) \in Shift THEN ~IsUp(code) ELSE ShiftedAfter(codes, n)
      BY ShiftNext, Zenon
    <3>2. ShiftedAfter(codes, n + 1) \in BOOLEAN /\ ShiftedAfter(codes, n) \in BOOLEAN /\ IsUp(code) \in BOOLEAN
      <4>1. ShiftedAfter(codes, n + 1) \in BOOLEAN /\ ShiftedAfter(codes, n) \in BOOLEAN
        BY Zenon DEF ShiftedAfter
      <4>2. IsUp(code) \in BOOLEAN
        BY DEF IsUp
      <4> QED
        BY <4>1, <4>2
    <3>3. CASE KeyOf(code) \in Shift
      BY <2>3, <3>1, <3>2, <3>3, Zenon
    <3>4. CASE KeyOf(code) \notin Shift
      BY <2>2, <2>3, <3>1, <3>2, <3>4, Zenon
    <3> QED
      BY <3>3, <3>4
  <2>6. Named
    BY <2>2, <2>3, Zenon
  <2> QED
    BY <2>4, <2>5, <2>6
<1>2. Len(em) = n + 1 /\ em[n + 1] = x /\ \A i \in 1 .. n : em[i] = evs[i]
  BY <1>0
<1>3. \A i \in 1 .. n + 1 : i \in 1 .. n \/ i = n + 1
  OBVIOUS
<1>4. (n + 1) - 1 = n
  OBVIOUS
<1> DEFINE Right(i, e) ==
             /\ e.scancode = codes[i]
             /\ AllListed(codes, i) =>
                  /\ e.modifiers = HeldAfter(codes, i)
                  /\ e.character = (IF ShiftedAfter(codes, i - 1) THEN Upper ELSE Lower)[codes[i] % 128]
<1>5. \A i \in 1 .. n : Right(i, evs[i])
  BY <1>0, Zenon DEF KeysDecoded
<1>6. Right(n + 1, x)
  BY <1>1, <1>4, Zenon
<1> HIDE DEF Right, em
<1>7. \A i \in 1 .. Len(em) : Right(i, em[i])
  BY <1>2, <1>3, <1>5, <1>6, Zenon
<1>8. KeysDecoded(codes, em)
  BY <1>7, Zenon DEF KeysDecoded, Right
<1>9. KeysRead(codes, n + 1, u, em)
  BY <1>1, <1>2, <1>8, Zenon DEF KeysRead
<1> QED
  BY <1>9 DEF em

(* Another key, or something else that the thread does. *)
LEMMA KeysReadSame ==
  ASSUME NEW codes, NEW more, NEW n \in Nat, NEW t, NEW u, NEW evs, KeysRead(codes, n, t, evs),
         \A i \in 1 .. n : more[i] = codes[i],
         u.modifiers = t.modifiers, u.is_uppercase = t.is_uppercase
  PROVE  KeysRead(more, n, u, evs)
<1>1. /\ Len(evs) = n /\ KeysDecoded(codes, evs)
      /\ AllListed(codes, n) => t.modifiers = HeldAfter(codes, n) /\ t.is_uppercase = ShiftedAfter(codes, n)
  BY DEF KeysRead
<1>2. /\ HeldAfter(more, n) = HeldAfter(codes, n) /\ ShiftedAfter(more, n) = ShiftedAfter(codes, n)
      /\ AllListed(more, n) => AllListed(codes, n)
  <2>1. AllListed(more, n) => AllListed(codes, n)
    BY Zenon DEF AllListed
  <2> QED
    BY <2>1, CodesSame, Zenon
<1>3. ASSUME NEW i \in 1 .. n
      PROVE  /\ HeldAfter(more, i) = HeldAfter(codes, i) /\ ShiftedAfter(more, i - 1) = ShiftedAfter(codes, i - 1)
             /\ AllListed(more, i) => AllListed(codes, i)
  <2>1. i \in Nat /\ i - 1 \in Nat /\ \A j \in 1 .. i : j \in 1 .. n
    OBVIOUS
  <2>2. \A j \in 1 .. i - 1 : j \in 1 .. n
    OBVIOUS
  <2>3. (\A j \in 1 .. i : more[j] = codes[j]) /\ (\A j \in 1 .. i - 1 : more[j] = codes[j])
    BY <2>1, <2>2, Zenon
  <2>4. AllListed(more, i) => AllListed(codes, i)
    BY <2>3, Zenon DEF AllListed
  <2> QED
    BY <2>1, <2>3, <2>4, CodesSame, Zenon
<1>4. KeysDecoded(more, evs)
  <2> DEFINE Right(k, codes1) ==
               /\ evs[k].scancode = codes1[k]
               /\ AllListed(codes1, k) =>
                    /\ evs[k].modifiers = HeldAfter(codes1, k)
                    /\ evs[k].character
                         = (IF ShiftedAfter(codes1, k - 1) THEN Upper ELSE Lower)[codes1[k] % 128]
  <2> SUFFICES ASSUME NEW i \in 1 .. Len(evs)
               PROVE  Right(i, more)
    BY Zenon DEF KeysDecoded
  <2>1. Right(i, codes)
    BY <1>1, Zenon DEF KeysDecoded
  <2>2. /\ more[i] = codes[i] /\ HeldAfter(more, i) = HeldAfter(codes, i)
        /\ ShiftedAfter(more, i - 1) = ShiftedAfter(codes, i - 1)
        /\ AllListed(more, i) => AllListed(codes, i)
    BY <1>1, <1>3, Zenon
  <2> QED
    BY <2>1, <2>2, ZenonT(30)
<1> QED
  BY <1>1, <1>2, <1>4, Zenon DEF KeysRead

-----------------------------------------------------------------------------
(* Packets. *)

(* f numbers the packets that evs are of, among the first n. *)
Numbers(f, bytes, n, evs) ==
  /\ f \in [1 .. Len(evs) -> 1 .. n]
  /\ \A i, j \in 1 .. Len(evs) : i < j => f[i] < f[j]
  /\ \A p \in 1 .. n : (\E i \in 1 .. Len(evs) : f[i] = p) <=> ~Overflow(Packet(bytes, p))
  /\ \A i \in 1 .. Len(evs) : evs[i] = Motion(Packet(bytes, f[i]))

(* That is what MovesDecoded says. *)
LEMMA MovesNumbered ==
  ASSUME NEW bytes, NEW n, NEW evs
  PROVE  MovesDecoded(bytes, n, evs) <=> \E f : Numbers(f, bytes, n, evs)
  BY Zenon DEF MovesDecoded, Numbers

(* The packets so far stay what they are. *)
LEMMA MovesDecodedSame ==
  ASSUME NEW bytes, NEW more, NEW n \in Nat, NEW evs, MovesDecoded(bytes, n, evs),
         \A p \in 1 .. n : Packet(more, p) = Packet(bytes, p)
  PROVE  MovesDecoded(more, n, evs)
<1>1. PICK f : Numbers(f, bytes, n, evs)
  BY MovesNumbered, Zenon
<1>2. \A i \in 1 .. Len(evs) : f[i] \in 1 .. n
  BY <1>1 DEF Numbers
<1>3. Numbers(f, more, n, evs)
  BY <1>1, <1>2, Zenon DEF Numbers
<1> QED
  BY <1>3, MovesNumbered, Zenon

(* A packet that overflowed is no event. *)
LEMMA MovesDecodedSkip ==
  ASSUME NEW bytes, NEW n \in Nat, NEW evs, MovesDecoded(bytes, n, evs),
         Overflow(Packet(bytes, n + 1))
  PROVE  MovesDecoded(bytes, n + 1, evs)
<1>1. PICK f : Numbers(f, bytes, n, evs)
  BY MovesNumbered, Zenon
<1>2. f \in [1 .. Len(evs) -> 1 .. n + 1] /\ \A i \in 1 .. Len(evs) : f[i] # n + 1
  BY <1>1 DEF Numbers
<1>3. \A p \in 1 .. n + 1 : p \in 1 .. n \/ p = n + 1
  OBVIOUS
<1>4. \A p \in 1 .. n + 1 : (\E i \in 1 .. Len(evs) : f[i] = p) <=> ~Overflow(Packet(bytes, p))
  <2>1. \A p \in 1 .. n : (\E i \in 1 .. Len(evs) : f[i] = p) <=> ~Overflow(Packet(bytes, p))
    BY <1>1, Zenon DEF Numbers
  <2> QED
    BY <1>2, <1>3, <2>1, Zenon
<1>5. Numbers(f, bytes, n + 1, evs)
  BY <1>1, <1>2, <1>4, Zenon DEF Numbers
<1> QED
  BY <1>5, MovesNumbered, Zenon

(* Any other is the next event. *)
LEMMA MovesDecodedNext ==
  ASSUME NEW bytes, NEW n \in Nat, NEW evs \in Seq(Event), MovesDecoded(bytes, n, evs),
         ~Overflow(Packet(bytes, n + 1)), NEW x \in Event, x = Motion(Packet(bytes, n + 1))
  PROVE  MovesDecoded(bytes, n + 1, Append(evs, x))
<1> DEFINE em == Append(evs, x)
           m == Len(evs)
<1>1. PICK f : Numbers(f, bytes, n, evs)
  BY MovesNumbered, Zenon
<1>2. f \in [1 .. m -> 1 .. n]
  BY <1>1 DEF Numbers
<1>3. m \in Nat /\ Len(em) = m + 1 /\ em[m + 1] = x /\ \A i \in 1 .. m : em[i] = evs[i]
  OBVIOUS
<1> DEFINE g == [i \in 1 .. m + 1 |-> IF i = m + 1 THEN n + 1 ELSE f[i]]
<1>4. g[m + 1] = n + 1 /\ \A i \in 1 .. m : g[i] = f[i]
  BY <1>3
<1>5. g \in [1 .. m + 1 -> 1 .. n + 1]
  BY <1>2, <1>3
<1> HIDE DEF em, m, g
<1>6. m + 1 \in 1 .. m + 1 /\ \A i \in 1 .. m + 1 : i \in 1 .. m \/ i = m + 1
  BY <1>3
<1>7. \A i \in 1 .. m : i \in 1 .. m + 1 /\ f[i] \in 1 .. n /\ f[i] # n + 1
  BY <1>2, <1>3
<1>8. \A p \in 1 .. n + 1 : p \in 1 .. n \/ p = n + 1
  OBVIOUS
<1>9. \A i, j \in 1 .. m + 1 : i < j => g[i] < g[j]
  <2>1. \A i, j \in 1 .. m : i < j => f[i] < f[j]
    BY <1>1 DEF Numbers, m
  <2>2. ASSUME NEW i \in 1 .. m + 1, NEW j \in 1 .. m + 1, i < j
        PROVE  g[i] < g[j]
    <3>1. i \in 1 .. m
      BY <1>3, <2>2
    <3>2. CASE j \in 1 .. m
      BY <1>4, <2>1, <2>2, <3>1, <3>2
    <3>3. CASE j = m + 1
      <4>1. f[i] \in 1 .. n
        BY <1>7, <3>1
      <4>2. f[i] < n + 1
        BY <4>1
      <4> QED
        BY <1>4, <3>1, <3>3, <4>2
    <3> QED
      BY <1>6, <3>2, <3>3
  <2> QED
    BY <2>2
<1>10. \A p \in 1 .. n + 1 : (\E i \in 1 .. m + 1 : g[i] = p) <=> ~Overflow(Packet(bytes, p))
  <2>1. \A p \in 1 .. n : (\E i \in 1 .. m : f[i] = p) <=> ~Overflow(Packet(bytes, p))
    BY <1>1, Zenon DEF Numbers, m
  <2>2. ASSUME NEW p \in 1 .. n
        PROVE  (\E i \in 1 .. m + 1 : g[i] = p) <=> (\E i \in 1 .. m : f[i] = p)
    <3>1. p # n + 1
      OBVIOUS
    <3> QED
      BY <1>4, <1>6, <1>7, <3>1, Zenon
  <2> QED
    BY <1>4, <1>6, <1>8, <2>1, <2>2, Zenon
<1>11. \A i \in 1 .. m + 1 : em[i] = Motion(Packet(bytes, g[i]))
  <2>1. \A i \in 1 .. m : evs[i] = Motion(Packet(bytes, f[i]))
    BY <1>1, Zenon DEF Numbers, m
  <2> QED
    BY <1>3, <1>4, <1>6, <2>1, Zenon
<1>12. Numbers(g, bytes, n + 1, em)
  BY <1>3, <1>5, <1>9, <1>10, <1>11, Zenon DEF Numbers
<1>13. MovesDecoded(bytes, n + 1, em)
  BY <1>12, MovesNumbered, Zenon
<1> QED
  BY <1>13 DEF em

(* A packet lies where its bytes are. *)
LEMMA PacketSame ==
  ASSUME NEW bytes \in Seq(Byte), NEW more \in Seq(Byte), NEW n \in Nat, NEW p \in 1 .. n,
         3 * n <= Len(bytes), 3 * n <= Len(more), \A i \in 1 .. 3 * n : more[i] = bytes[i]
  PROVE  Packet(more, p) = Packet(bytes, p)
<1> DEFINE a == 3 * p - 2
           b == 3 * p
<1>1. a \in Int /\ b \in Int /\ b - a + 1 = 3 /\ a >= 1 /\ b <= 3 * n
  OBVIOUS
<1> HIDE DEF a, b
<1>2. SubSeq(more, a, b) = SubSeq(bytes, a, b)
  BY <1>1
<1> QED
  BY <1>2 DEF Packet, a, b

(* Three bytes are the packet. *)
LEMMA PacketIs ==
  ASSUME NEW bytes \in Seq(Byte), NEW n \in Nat, 3 * n + 3 <= Len(bytes), NEW s \in Seq(Byte), Len(s) = 3,
         s[1] = bytes[3 * n + 1], s[2] = bytes[3 * n + 2], s[3] = bytes[3 * n + 3]
  PROVE  s = Packet(bytes, n + 1)
<1>1. Packet(bytes, n + 1) = SubSeq(bytes, 3 * n + 1, 3 * n + 3)
  BY 3 * (n + 1) - 2 = 3 * n + 1, 3 * (n + 1) = 3 * n + 3, Zenon DEF Packet
<1> DEFINE a == 3 * n
           q == SubSeq(bytes, a + 1, a + 3)
<1>2. a \in Nat /\ a + 3 <= Len(bytes) /\ Len(bytes) \in Nat
  OBVIOUS
<1> HIDE DEF a
<1>3. q \in Seq(Byte) /\ Len(q) = 3 /\ q[1] = bytes[a + 1] /\ q[2] = bytes[a + 2] /\ q[3] = bytes[a + 3]
  <2>1. q \in Seq(Byte)
    BY <1>2
  <2>2. Len(q) = 3
    BY <1>2
  <2>3. \A i \in 1 .. 3 : q[i] = bytes[a + i]
    BY <1>2
  <2> HIDE DEF q
  <2> QED
    BY <2>1, <2>2, <2>3
<1> HIDE DEF q
<1>4. s[1] = q[1] /\ s[2] = q[2] /\ s[3] = q[3]
  BY <1>3 DEF a
<1>5. \A i \in 1 .. 3 : s[i] = q[i]
  BY <1>4
<1>6. s = q
  BY <1>3, <1>5, SeqEqual
<1> QED
  BY <1>1, <1>6 DEF q, a

(* Another packet is sent, or the thread does something else. *)
LEMMA MovesReadSame ==
  ASSUME NEW bytes \in Seq(Byte), NEW more \in Seq(Byte), NEW n \in Nat, NEW t, NEW u, NEW evs,
         MovesRead(bytes, n, t, evs), n <= Len(bytes), n <= Len(more),
         \A i \in 1 .. n : more[i] = bytes[i], u.things = t.things, t.things \in Seq(Byte)
  PROVE  MovesRead(more, n, u, evs)
<1>1. PICK p \in Nat : /\ n = 3 * p + Len(t.things) /\ Len(t.things) < 3
                       /\ \A i \in 1 .. Len(t.things) : t.things[i] = bytes[3 * p + i]
                       /\ MovesDecoded(bytes, p, evs)
  BY Zenon DEF MovesRead
<1>2. Len(t.things) \in Nat
  OBVIOUS
<1>3. 3 * p <= n
  <2> DEFINE k == Len(t.things)
  <2>1. n = 3 * p + k /\ k \in Nat
    BY <1>1, <1>2, Zenon
  <2> HIDE DEF k
  <2> QED
    BY <2>1
<1>4. 3 * p <= Len(bytes) /\ 3 * p <= Len(more) /\ \A i \in 1 .. 3 * p : i \in 1 .. n
  BY <1>3
<1>5. \A i \in 1 .. 3 * p : more[i] = bytes[i]
  BY <1>4
<1>6. \A q \in 1 .. p : Packet(more, q) = Packet(bytes, q)
  BY <1>4, <1>5, PacketSame
<1>7. MovesDecoded(more, p, evs)
  BY <1>1, <1>6, MovesDecodedSame
<1>8. \A i \in 1 .. Len(t.things) : 3 * p + i \in 1 .. n
  BY <1>1, <1>2
<1>9. \A i \in 1 .. Len(u.things) : u.things[i] = more[3 * p + i]
  BY <1>1, <1>8
<1> QED
  BY <1>1, <1>7, <1>9, Zenon DEF MovesRead

(* The thread reads the next byte, and with the third a packet. *)
LEMMA MovesReadNext ==
  ASSUME NEW bytes \in Seq(Byte), NEW n \in Nat, NEW t, NEW u, NEW evs \in Seq(Event),
         MovesRead(bytes, n, t, evs), n + 1 <= Len(bytes), t.things \in Seq(Byte),
         NEW things, things = Append(t.things, bytes[n + 1]),
         u.things = IF Len(things) = 3 THEN <<>> ELSE things
  PROVE  MovesRead(bytes, n + 1, u,
                   IF Len(things) = 3 /\ ~Overflow(things) THEN Append(evs, Motion(things)) ELSE evs)
<1>1. PICK p \in Nat : /\ n = 3 * p + Len(t.things) /\ Len(t.things) < 3
                       /\ \A i \in 1 .. Len(t.things) : t.things[i] = bytes[3 * p + i]
                       /\ MovesDecoded(bytes, p, evs)
  BY Zenon DEF MovesRead
<1> DEFINE k == Len(t.things)
<1>2. k \in Nat /\ bytes[n + 1] \in Byte
  OBVIOUS
<1>3. /\ things \in Seq(Byte) /\ Len(things) = k + 1 /\ things[k + 1] = bytes[n + 1]
      /\ \A i \in 1 .. k : things[i] = t.things[i]
  BY <1>2
<1>0. n = 3 * p + k /\ k < 3
  BY <1>1, Zenon
<1> HIDE DEF k
<1>4. n + 1 = 3 * p + (k + 1)
  BY <1>0, <1>2
<1>5. \A i \in 1 .. k + 1 : things[i] = bytes[3 * p + i]
  <2>1. \A i \in 1 .. k + 1 : i \in 1 .. k \/ i = k + 1
    BY <1>2
  <2>2. \A i \in 1 .. k : things[i] = bytes[3 * p + i]
    BY <1>1, <1>3 DEF k
  <2>3. things[k + 1] = bytes[3 * p + (k + 1)]
    BY <1>3, <1>4
  <2> QED
    BY <2>1, <2>2, <2>3, Zenon
<1>6. CASE Len(things) # 3
  <2>1. u.things = things /\ Len(things) < 3
    <3>1. Len(things) < 3
      BY <1>0, <1>2, <1>3, <1>6
    <3> QED
      BY <1>6, <3>1, Zenon
  <2>2. n + 1 = 3 * p + Len(u.things) /\ Len(u.things) < 3
    BY <1>3, <1>4, <2>1
  <2>3. \A i \in 1 .. Len(u.things) : u.things[i] = bytes[3 * p + i]
    BY <1>3, <1>5, <2>1, Zenon
  <2>4. MovesRead(bytes, n + 1, u, evs)
    BY <1>1, <2>2, <2>3, Zenon DEF MovesRead
  <2> QED
    BY <1>6, <2>4, Zenon
<1>7. CASE Len(things) = 3
  <2>1. k + 1 = 3 /\ u.things = <<>> /\ Len(u.things) = 0
    BY <1>3, <1>7
  <2>2. n + 1 = 3 * p + 3 /\ 3 * p + 3 <= Len(bytes) /\ n + 1 = 3 * (p + 1) + Len(u.things)
        /\ Len(u.things) < 3 /\ p + 1 \in Nat
    <3>1. n + 1 = 3 * p + 3 /\ n + 1 = 3 * (p + 1) + 0 /\ p + 1 \in Nat /\ 0 < 3
      BY <1>4, <2>1
    <3> QED
      BY <2>1, <3>1, Zenon
  <2>3. things[1] = bytes[3 * p + 1] /\ things[2] = bytes[3 * p + 2] /\ things[3] = bytes[3 * p + 3]
    <3>1. 1 \in 1 .. k + 1 /\ 2 \in 1 .. k + 1 /\ 3 \in 1 .. k + 1
      BY <2>1
    <3> QED
      BY <1>5, <3>1, Zenon
  <2>4. things = Packet(bytes, p + 1)
    BY <1>3, <1>7, <2>2, <2>3, PacketIs, Zenon
  <2>5. \A i \in 1 .. Len(u.things) : u.things[i] = bytes[3 * (p + 1) + i]
    BY <2>1
  <2>6. ASSUME NEW em, MovesDecoded(bytes, p + 1, em)
        PROVE  MovesRead(bytes, n + 1, u, em)
    BY <2>2, <2>5, <2>6, Zenon DEF MovesRead
  <2>7. CASE Overflow(things)
    <3>1. MovesDecoded(bytes, p + 1, evs)
      BY <1>1, <2>4, <2>7, MovesDecodedSkip, Zenon
    <3> QED
      BY <2>6, <2>7, <3>1, Zenon
  <2>8. CASE ~Overflow(things)
    <3>1. Motion(things) \in Event
      BY <1>3, <1>7, EventTypes, Zenon
    <3>2. MovesDecoded(bytes, p + 1, Append(evs, Motion(things)))
      BY <1>1, <2>4, <2>8, <3>1, MovesDecodedNext
    <3> QED
      BY <1>7, <2>6, <2>8, <3>2, Zenon
  <2> QED
    BY <2>7, <2>8
<1> QED
  BY <1>6, <1>7

-----------------------------------------------------------------------------
(* Steps that neither touch the controller nor read an event. *)
LEMMA StreamsSame ==
  ASSUME TypeOK, SInv, UNCHANGED <<ctl, pending, sent, events, mixed>>,
         \A d \in Driver : /\ thread'[d].things = thread[d].things
                           /\ thread'[d].modifiers = thread[d].modifiers
                           /\ thread'[d].is_uppercase = thread[d].is_uppercase
  PROVE  SInv'
<1> SUFFICES ASSUME ~mixed PROVE Streams'
  BY DEF SInv
<1>1. Streams /\ "keyboard" \in Driver /\ "mouse" \in Driver
  BY DEF SInv, Driver
<1>2. \A d \in Driver : Taken(d)' = Taken(d) /\ Buffered(d)'
  BY <1>1, ZenonT(30) DEF Streams, Buffered, Taken
<1>3. KeysRead(sent["keyboard"], Taken("keyboard"), thread'["keyboard"], events["keyboard"])
  BY <1>1, Zenon DEF Streams, KeysRead
<1>4. MovesRead(sent["mouse"], Taken("mouse"), thread'["mouse"], events["mouse"])
  BY <1>1, Zenon DEF Streams, MovesRead
<1> QED
  BY <1>1, <1>2, <1>3, <1>4, Zenon DEF Streams

(* Lengths and places in the streams. *)
LEMMA TakenTypes ==
  ASSUME TypeOK, SInv, ~mixed, NEW d \in Driver
  PROVE  /\ sent[d] \in Seq(Byte) /\ pending[d] \in Seq(Byte) /\ Len(sent[d]) \in Nat
         /\ Len(pending[d]) \in Nat /\ Taken(d) \in Nat /\ Taken(d) <= Len(sent[d]) /\ Buffered(d)
<1>1. sent[d] \in Seq(Byte) /\ pending[d] \in Seq(Byte)
  BY DEF SInv, TypeOK
<1>2. Len(sent[d]) \in Nat /\ Len(pending[d]) \in Nat
  BY <1>1
<1>3. Buffered(d) /\ Taken(d) \in Nat
  BY DEF SInv, Streams, Buffered
<1>4. Taken(d) <= Len(sent[d])
  <2> DEFINE x == Len(sent[d])
             y == Len(pending[d])
             e == IF ctl.full /\ ctl.from = d THEN 1 ELSE 0
  <2>1. Taken(d) = x - y - e /\ e \in Nat /\ x \in Nat /\ y \in Nat
    BY <1>2 DEF Taken
  <2> HIDE DEF x, y, e
  <2>2. Taken(d) <= x
    BY <2>1
  <2> QED
    BY <2>2 DEF x
<1> QED
  BY <1>1, <1>2, <1>3, <1>4

(* A device puts the next of its bytes into the buffer. *)
LEMMA StreamsLoad ==
  ASSUME TypeOK, SInv, NEW d \in Driver, NEW byte, NEW rest, Load(d, byte, rest),
         sent' \in [Driver -> Seq(Byte)], \A b \in Driver : b # d => sent'[b] = sent[b],
         rest \in Seq(Byte), d = "keyboard" => rest = <<>>,
         ~mixed => /\ Len(sent'[d]) - Len(rest) - 1 = Taken(d)
                   /\ byte = sent'[d][Taken(d) + 1]
                   /\ \A i \in 1 .. Len(rest) : rest[i] = sent'[d][Len(sent'[d]) - Len(rest) + i]
                   /\ \A i \in 1 .. Taken(d) : sent'[d][i] = sent[d][i]
  PROVE  SInv'
<1>1. /\ ~ctl.full /\ ctl' = [full |-> TRUE, from |-> d, byte |-> byte]
      /\ pending' = [pending EXCEPT ![d] = rest]
      /\ UNCHANGED <<thread, events, mixed>>
  BY DEF Load, Device
<1> SUFFICES ASSUME ~mixed PROVE Streams'
  BY <1>1 DEF SInv
<1>2. /\ ctl'.full /\ ctl'.from = d /\ ctl'.byte = byte
      /\ pending'[d] = rest /\ \A b \in Driver : b # d => pending'[b] = pending[b]
  BY <1>1 DEF TypeOK
<1>3. \A b \in Driver : Taken(b)' = Taken(b)
  <2>1. ASSUME NEW b \in Driver, b # d
        PROVE  Taken(b)' = Taken(b)
    BY <1>1, <1>2, <2>1 DEF Taken
  <2>2. Taken(d)' = Len(sent'[d]) - Len(rest) - 1
    BY <1>2 DEF Taken
  <2> QED
    BY <2>1, <2>2
<1>4. \A b \in Driver : Buffered(b)'
  <2>1. ASSUME NEW b \in Driver, b # d
        PROVE  Buffered(b)'
    <3>1. Buffered(b)
      BY TakenTypes
    <3>2. /\ Taken(b)' = Taken(b) /\ sent'[b] = sent[b] /\ pending'[b] = pending[b] /\ ctl'.from # b
      BY <1>2, <1>3, <2>1
    <3> QED
      BY <3>1, <3>2, Zenon DEF Buffered
  <2>2. Buffered(d)'
    <3>1. Taken(d)' = Taken(d) /\ Taken(d) \in Nat
      BY <1>3, TakenTypes
    <3> QED
      BY <1>2, <3>1 DEF Buffered
  <2> QED
    BY <2>1, <2>2
<1>5. "keyboard" \in Driver /\ "mouse" \in Driver
  BY DEF Driver
<1>6. pending'["keyboard"] = <<>>
  BY <1>2, <1>5 DEF SInv, Streams
<1>7. \A b \in Driver : \A i \in 1 .. Taken(b) : sent'[b][i] = sent[b][i]
  BY Zenon
<1>8. KeysRead(sent'["keyboard"], Taken("keyboard"), thread["keyboard"], events["keyboard"])
  <2>1. KeysRead(sent["keyboard"], Taken("keyboard"), thread["keyboard"], events["keyboard"])
    BY DEF SInv, Streams
  <2>2. Taken("keyboard") \in Nat
    BY <1>5, TakenTypes
  <2>3. \A i \in 1 .. Taken("keyboard") : sent'["keyboard"][i] = sent["keyboard"][i]
    BY <1>5, <1>7
  <2> QED
    <3> DEFINE codes == sent["keyboard"]
               more == sent'["keyboard"]
               n == Taken("keyboard")
               t == thread["keyboard"]
               evs == events["keyboard"]
    <3>1. KeysRead(codes, n, t, evs) /\ n \in Nat /\ \A i \in 1 .. n : more[i] = codes[i]
      BY <2>1, <2>2, <2>3
    <3> HIDE DEF codes, more, n, t, evs
    <3>2. KeysRead(more, n, t, evs)
      BY <3>1, KeysReadSame
    <3> QED
      BY <3>2 DEF more, n, t, evs
<1>9. MovesRead(sent'["mouse"], Taken("mouse"), thread["mouse"], events["mouse"])
  <2>1. MovesRead(sent["mouse"], Taken("mouse"), thread["mouse"], events["mouse"])
    BY DEF SInv, Streams
  <2>2. Taken("mouse") \in Nat /\ Taken("mouse") <= Len(sent["mouse"]) /\ sent["mouse"] \in Seq(Byte)
    BY <1>5, TakenTypes
  <2>3. sent'["mouse"] \in Seq(Byte) /\ thread["mouse"].things \in Seq(Byte)
    BY <1>5 DEF TypeOK, Thread
  <2>4. Taken("mouse") <= Len(sent'["mouse"])
    <3>1. CASE d = "mouse"
      <4>1. Len(sent'["mouse"]) \in Nat /\ Len(rest) \in Nat
        BY <2>3
      <4> QED
        BY <2>2, <3>1, <4>1
    <3>2. CASE d # "mouse"
      BY <1>5, <2>2, <3>2
    <3> QED
      BY <3>1, <3>2
  <2> QED
    BY <1>5, <1>7, <2>1, <2>2, <2>3, <2>4, MovesReadSame, Zenon
<1> QED
  BY <1>1, <1>3, <1>4, <1>5, <1>6, <1>8, <1>9, Zenon DEF Streams

(* A driver reads a byte of its own. *)
LEMMA PortTaken ==
  ASSUME TypeOK, SInv, NEW d \in Driver, ReadPort(d), ~mixed'
  PROVE  /\ ~mixed /\ ctl.byte = sent[d][Taken(d) + 1] /\ Taken(d) + 1 <= Len(sent[d])
         /\ Taken(d)' = Taken(d) + 1
         /\ \A b \in Driver : (b # d => Taken(b)' = Taken(b)) /\ Buffered(b)'
<1>1. /\ ~mixed /\ ctl.full /\ ctl.from = d
      /\ ctl' = [ctl EXCEPT !.full = FALSE] /\ pending' = pending /\ sent' = sent
  BY DEF ReadPort
<1>2. ~ctl'.full
  BY <1>1 DEF TypeOK, Controller
<1>3. ASSUME NEW b \in Driver
      PROVE  Taken(b)' = IF b = d THEN Taken(b) + 1 ELSE Taken(b)
  <2> DEFINE x == Len(sent[b])
             y == Len(pending[b])
  <2>1. Taken(b)' = x - y - 0 /\ x \in Nat /\ y \in Nat
    BY <1>1, <1>2, TakenTypes DEF Taken
  <2>2. Taken(b) = x - y - (IF b = d THEN 1 ELSE 0)
    BY <1>1 DEF Taken
  <2> HIDE DEF x, y
  <2> QED
    BY <2>1, <2>2
<1>4. Len(sent[d]) \in Nat /\ Len(pending[d]) \in Nat /\ Taken(d) \in Nat /\ Buffered(d)
  BY <1>1, TakenTypes
<1>5. Taken(d) + 1 <= Len(sent[d])
  <2> DEFINE x == Len(sent[d])
             y == Len(pending[d])
  <2>1. Taken(d) = x - y - 1 /\ x \in Nat /\ y \in Nat
    BY <1>1, <1>4 DEF Taken
  <2> HIDE DEF x, y
  <2>2. Taken(d) + 1 <= x
    BY <2>1
  <2> QED
    BY <2>2 DEF x
<1>6. ctl.byte = sent[d][Taken(d) + 1]
  BY <1>1, <1>4 DEF Buffered
<1>7. Taken(d)' = Taken(d) + 1
  BY <1>3
<1>8. \A b \in Driver : b # d => Taken(b)' = Taken(b)
  BY <1>3
<1>9. ASSUME NEW b \in Driver
      PROVE  Buffered(b)'
  <2>1. Taken(b) \in Nat /\ Buffered(b)
    BY <1>1, TakenTypes
  <2>2. Taken(b)' \in Nat
    BY <1>7, <1>8, <2>1
  <2> QED
    BY <1>1, <1>2, <2>1, <2>2 DEF Buffered
<1> QED
  BY <1>1, <1>5, <1>6, <1>7, <1>8, <1>9

(* What follows a packet's first byte. *)
LEMMA ThreeBytes ==
  ASSUME NEW q \in Seq(Byte), Len(q) = 3
  PROVE  /\ Tail(q) \in Seq(Byte) /\ Len(Tail(q)) = 2 /\ Head(q) = q[1]
         /\ \A i \in 1 .. 2 : Tail(q)[i] = q[i + 1]
<1>1. q # <<>>
  OBVIOUS
<1>2. Tail(q) \in Seq(Byte) /\ Len(Tail(q)) = Len(q) - 1
  BY <1>1, HeadTailProperties
<1>3. \A i \in 1 .. Len(Tail(q)) : Tail(q)[i] = q[i + 1]
  BY <1>1, HeadTailProperties
<1>4. Len(Tail(q)) = 2
  BY <1>2
<1>5. Head(q) = q[1]
  BY <1>1
<1> QED
  BY <1>2, <1>3, <1>4, <1>5, Zenon

(* A packet behind what was sent before. *)
LEMMA PacketBehind ==
  ASSUME NEW z \in Seq(Byte), NEW q \in Seq(Byte), Len(q) = 3
  PROVE  /\ z \o q \in Seq(Byte) /\ Len(z \o q) = Len(z) + 3 /\ Len(z) \in Nat
         /\ \A i \in 1 .. Len(z) : (z \o q)[i] = z[i]
         /\ \A i \in 1 .. 3 : (z \o q)[Len(z) + i] = q[i]
<1>1. z \o q \in Seq(Byte) /\ Len(z \o q) = Len(z) + Len(q) /\ Len(z) \in Nat
  <2>1. Len(z) \in Nat
    OBVIOUS
  <2> QED
    BY <2>1, ConcatProperties, Zenon
<1>2. \A i \in 1 .. Len(z) : (z \o q)[i] = z[i]
  OBVIOUS
<1>3. \A i \in 1 .. 3 : (z \o q)[Len(z) + i] = q[i]
  <2> DEFINE m == Len(z)
             n == Len(q)
             r == z \o q
  <2>1. \A j \in 1 .. m + n : r[j] = IF j <= m THEN z[j] ELSE q[j - m]
    BY ConcatProperties, Zenon
  <2>2. m \in Nat /\ n = 3
    OBVIOUS
  <2> HIDE DEF m, n, r
  <2>3. ASSUME NEW i \in 1 .. 3
        PROVE  r[m + i] = q[i]
    <3>1. m + i \in 1 .. m + n /\ ~(m + i <= m) /\ (m + i) - m = i
      BY <2>2
    <3> QED
      BY <2>1, <3>1, Zenon
  <2> QED
    BY <2>3 DEF m, r
<1> QED
  BY <1>1, <1>2, <1>3, Zenon

(* The devices' steps keep the streams. *)
LEMMA DeviceStreams ==
  ASSUME TypeOK, SInv,
         (\E code \in Scancodes : Type(code)) \/ (\E packet \in Packets : Move(packet)) \/ MoveOn
  PROVE  SInv'
<1>0. sent \in [Driver -> Seq(Byte)] /\ "keyboard" \in Driver /\ "mouse" \in Driver /\ "keyboard" # "mouse"
  BY DEF SInv, Driver
<1>1. ASSUME NEW code \in Scancodes, Type(code)
      PROVE  SInv'
  <2> DEFINE d == "keyboard"
             z == sent[d]
             y == Append(z, code)
  <2>1. Load(d, code, <<>>) /\ sent' = [sent EXCEPT ![d] = Append(@, code)] /\ ~ctl.full
    BY <1>1 DEF Type, Load
  <2>2. code \in Byte /\ z \in Seq(Byte) /\ y \in Seq(Byte)
    BY <1>0, DeviceAssumption
  <2>3. sent' \in [Driver -> Seq(Byte)] /\ sent'[d] = y /\ \A b \in Driver : b # d => sent'[b] = sent[b]
    BY <1>0, <2>1, <2>2
  <2>4. ASSUME ~mixed
        PROVE  Taken(d) = Len(z)
    <3>1. pending[d] = <<>>
      BY <2>4 DEF SInv, Streams
    <3>2. Taken(d) = Len(z) - 0 - 0
      BY <2>1, <3>1 DEF Taken
    <3> QED
      BY <2>2, <3>2
  <2>5. /\ Len(y) = Len(z) + 1 /\ y[Len(z) + 1] = code /\ \A i \in 1 .. Len(z) : y[i] = z[i]
        /\ Len(z) \in Nat
    BY <2>2
  <2>6. <<>> \in Seq(Byte) /\ Len(<<>>) = 0 /\ \A i \in 1 .. 0 : FALSE
    OBVIOUS
  <2> HIDE DEF d, y, z
  <2>7. ~mixed => /\ Len(sent'[d]) - Len(<<>>) - 1 = Taken(d)
                  /\ code = sent'[d][Taken(d) + 1]
                  /\ \A i \in 1 .. Len(<<>>) : <<>>[i] = sent'[d][Len(sent'[d]) - Len(<<>>) + i]
                  /\ \A i \in 1 .. Taken(d) : sent'[d][i] = sent[d][i]
    <3> SUFFICES ASSUME ~mixed PROVE
                  /\ Len(sent'[d]) - Len(<<>>) - 1 = Taken(d)
                  /\ code = sent'[d][Taken(d) + 1]
                  /\ \A i \in 1 .. Len(<<>>) : <<>>[i] = sent'[d][Len(sent'[d]) - Len(<<>>) + i]
                  /\ \A i \in 1 .. Taken(d) : sent'[d][i] = sent[d][i]
      OBVIOUS
    <3>1. Len(y) - Len(<<>>) - 1 = Len(z)
      BY <2>5, <2>6
    <3>2. sent'[d] = y /\ Taken(d) = Len(z) /\ sent[d] = z
      BY <2>3, <2>4 DEF z
    <3> QED
      BY <2>5, <2>6, <3>1, <3>2, Zenon
  <2>8. d \in Driver
    BY <1>0 DEF d
  <2> QED
    BY <2>1, <2>3, <2>6, <2>7, <2>8, StreamsLoad
<1>2. ASSUME NEW packet \in Packets, Move(packet)
      PROVE  SInv'
  <2> DEFINE d == "mouse"
             z == sent[d]
             y == z \o packet
             byte == Head(packet)
             rest == Tail(packet)
  <2>1. /\ Load(d, byte, rest) /\ sent' = [sent EXCEPT ![d] = @ \o packet] /\ ~ctl.full
        /\ pending[d] = <<>>
    BY <1>2 DEF Move, Load
  <2>2. packet \in Seq(Byte) /\ Len(packet) = 3 /\ z \in Seq(Byte)
    BY <1>0, DeviceAssumption
  <2>3. /\ y \in Seq(Byte) /\ rest \in Seq(Byte) /\ Len(rest) = 2 /\ byte = packet[1]
        /\ \A i \in 1 .. 2 : rest[i] = packet[i + 1]
    <3> HIDE DEF z
    <3> QED
      BY <2>2, ThreeBytes, PacketBehind
  <2>4. /\ Len(z) \in Nat /\ Len(y) = Len(z) + 3 /\ \A i \in 1 .. Len(z) : y[i] = z[i]
        /\ \A i \in 1 .. 3 : y[Len(z) + i] = packet[i]
    <3> HIDE DEF z
    <3> QED
      BY <2>2, PacketBehind
  <2>5. sent' \in [Driver -> Seq(Byte)] /\ sent'[d] = y /\ \A b \in Driver : b # d => sent'[b] = sent[b]
    BY <1>0, <2>1, <2>2, <2>3
  <2>6. ASSUME ~mixed
        PROVE  Taken(d) = Len(z)
    <3>1. Taken(d) = Len(z) - 0 - 0
      BY <2>1 DEF Taken
    <3> QED
      BY <2>4, <3>1
  <2>7. d \in Driver /\ d # "keyboard"
    BY <1>0
  <2> HIDE DEF y, z, byte, rest, d
  <2>8. /\ Len(y) - Len(rest) - 1 = Len(z) /\ byte = y[Len(z) + 1]
        /\ \A i \in 1 .. Len(rest) : rest[i] = y[Len(y) - Len(rest) + i]
    <3>1. Len(y) - Len(rest) - 1 = Len(z) /\ Len(y) - Len(rest) = Len(z) + 1
      BY <2>3, <2>4
    <3>2. byte = y[Len(z) + 1]
      BY <2>3, <2>4
    <3>3. ASSUME NEW i \in 1 .. 2
          PROVE  rest[i] = y[Len(z) + 1 + i]
      <4>1. i + 1 \in 1 .. 3 /\ Len(z) + 1 + i = Len(z) + (i + 1)
        BY <2>4
      <4> QED
        BY <2>3, <2>4, <4>1
    <3> QED
      BY <2>3, <3>1, <3>2, <3>3, Zenon
  <2>9. ~mixed => /\ Len(sent'[d]) - Len(rest) - 1 = Taken(d)
                  /\ byte = sent'[d][Taken(d) + 1]
                  /\ \A i \in 1 .. Len(rest) : rest[i] = sent'[d][Len(sent'[d]) - Len(rest) + i]
                  /\ \A i \in 1 .. Taken(d) : sent'[d][i] = sent[d][i]
    <3>1. sent[d] = z
      BY DEF z
    <3> QED
      BY <2>4, <2>5, <2>6, <2>8, <3>1, Zenon
  <2> QED
    BY <2>1, <2>3, <2>5, <2>7, <2>9, StreamsLoad
<1>3. ASSUME MoveOn
      PROVE  SInv'
  <2> DEFINE d == "mouse"
             z == sent[d]
             w == pending[d]
             byte == Head(w)
             rest == Tail(w)
  <2>1. Load(d, byte, rest) /\ sent' = sent /\ ~ctl.full /\ w # <<>>
    BY <1>3 DEF MoveOn, Load
  <2>2. w \in Seq(Byte) /\ z \in Seq(Byte)
    BY <1>0 DEF TypeOK
  <2>3. /\ rest \in Seq(Byte) /\ Len(rest) = Len(w) - 1 /\ byte = w[1] /\ 1 \in 1 .. Len(w)
        /\ \A i \in 1 .. Len(rest) : rest[i] = w[i + 1] /\ i + 1 \in 1 .. Len(w)
        /\ Len(w) \in Nat /\ Len(z) \in Nat /\ Len(rest) \in Nat
    BY <2>1, <2>2
  <2>4. d \in Driver /\ d # "keyboard"
    BY <1>0
  <2>5. ASSUME ~mixed
        PROVE  /\ Taken(d) = Len(z) - Len(w) /\ Taken(d) \in Nat
               /\ \A i \in 1 .. Len(w) : w[i] = z[Len(z) - Len(w) + i]
    <3>1. Taken(d) = Len(z) - Len(w) - 0
      BY <2>1 DEF Taken
    <3>2. Buffered(d) /\ Taken(d) \in Nat
      BY <2>4, <2>5, TakenTypes
    <3>3. Taken(d) = Len(z) - Len(w)
      <4> HIDE DEF z, w, rest, byte
      <4> QED
        BY <2>3, <3>1
    <3> QED
      BY <3>2, <3>3 DEF Buffered
  <2>6. sent'[d] = z /\ sent[d] = z
    BY <2>1
  <2> HIDE DEF z, w, byte, rest, d
  <2>7. ~mixed => /\ Len(z) - Len(rest) - 1 = Taken(d)
                  /\ byte = z[Taken(d) + 1]
                  /\ \A i \in 1 .. Len(rest) : rest[i] = z[Len(z) - Len(rest) + i]
    <3> SUFFICES ASSUME ~mixed PROVE
                  /\ Len(z) - Len(rest) - 1 = Taken(d)
                  /\ byte = z[Taken(d) + 1]
                  /\ \A i \in 1 .. Len(rest) : rest[i] = z[Len(z) - Len(rest) + i]
      OBVIOUS
    <3>1. Len(z) - Len(rest) - 1 = Taken(d)
      BY <2>3, <2>5
    <3>2. byte = z[Taken(d) + 1]
      BY <2>3, <2>5
    <3>3. ASSUME NEW i \in 1 .. Len(rest)
          PROVE  rest[i] = z[Len(z) - Len(rest) + i]
      <4>1. rest[i] = z[Len(z) - Len(w) + (i + 1)]
        BY <2>3, <2>5
      <4>2. Len(z) - Len(w) + (i + 1) = Len(z) - Len(rest) + i
        BY <2>3
      <4> QED
        BY <4>1, <4>2
    <3> QED
      BY <3>1, <3>2, <3>3
  <2>8. ~mixed => /\ Len(sent'[d]) - Len(rest) - 1 = Taken(d)
                  /\ byte = sent'[d][Taken(d) + 1]
                  /\ \A i \in 1 .. Len(rest) : rest[i] = sent'[d][Len(sent'[d]) - Len(rest) + i]
                  /\ \A i \in 1 .. Taken(d) : sent'[d][i] = sent[d][i]
    BY <2>6, <2>7, Zenon
  <2>9. sent' \in [Driver -> Seq(Byte)] /\ \A b \in Driver : b # d => sent'[b] = sent[b]
    BY <1>0, <2>1
  <2> QED
    BY <2>1, <2>3, <2>4, <2>8, <2>9, StreamsLoad
<1> QED
  BY <1>1, <1>2, <1>3

(* The keyboard's thread reads a scancode. *)
LEMMA KeyStreams ==
  ASSUME TypeOK, SInv, get_event
  PROVE  SInv'
<1> DEFINE d == "keyboard"
           b == "mouse"
           t == thread[d]
           codes == sent[d]
           n == Taken(d)
           r == decode_scancode(ctl.byte, t.is_uppercase)
           ms == Modified(t.modifiers, r.c, IsUp(ctl.byte))
           x == [type |-> "KEYBOARD_MSG_EVENT", character |-> r.c, modifiers |-> ms,
                 scancode |-> ctl.byte, up |-> IsUp(ctl.byte)]
           u == [t EXCEPT !.pc = "send", !.k = 0, !.msg = x, !.is_uppercase = r.is_uppercase,
                          !.modifiers = ms]
           evs == events[d]
<1>0. d \in Driver /\ b \in Driver /\ d # b
  BY DEF Driver
<1>1. /\ ReadPort(d) /\ thread' = [thread EXCEPT ![d] = u]
      /\ events' = [events EXCEPT ![d] = Append(@, x)]
  BY Zenon DEF get_event
<1>2. sent' = sent /\ pending' = pending /\ sent \in [Driver -> Seq(Byte)]
  BY <1>1 DEF ReadPort, SInv
<1>3. t \in Thread /\ evs \in Seq(Event)
  BY <1>0, DriverTypes
<1>4. /\ thread'[d] = u /\ thread'[b] = thread[b]
      /\ events'[d] = Append(evs, x) /\ events'[b] = events[b]
  BY <1>0, <1>1 DEF TypeOK
<1>5. ctl.byte \in Byte /\ t.is_uppercase \in BOOLEAN /\ t.modifiers \in SUBSET Modifier
  BY <1>3 DEF TypeOK, Controller, Thread
<1>6. r.c \in Character /\ r.is_uppercase \in BOOLEAN /\ ms \in SUBSET Modifier /\ IsUp(ctl.byte) \in BOOLEAN
  <2>1. IsUp(ctl.byte) \in BOOLEAN
    BY DEF IsUp
  <2> QED
    BY <1>5, <2>1, EventTypes, Zenon
<1>7. r = decode_scancode(ctl.byte, t.is_uppercase) /\ ms = Modified(t.modifiers, r.c, IsUp(ctl.byte))
  BY Zenon
<1> HIDE DEF r, ms
<1>8. x \in Event /\ x.scancode = ctl.byte /\ x.character = r.c /\ x.modifiers = ms
  BY <1>5, <1>6 DEF Event, KeyEvent
<1> HIDE DEF x
<1>9. u.modifiers = ms /\ u.is_uppercase = r.is_uppercase
  BY <1>3, ZenonT(30) DEF Thread
<1> SUFFICES ASSUME ~mixed' PROVE Streams'
  BY <1>2 DEF SInv
<1> HIDE DEF u, t, evs, codes, n, d, b
<1>10. /\ ~mixed /\ ctl.byte = sent[d][Taken(d) + 1] /\ Taken(d)' = Taken(d) + 1 /\ Taken(b)' = Taken(b)
       /\ \A a \in Driver : Buffered(a)'
  BY <1>0, <1>1, PortTaken
<1>11. Streams
  BY <1>10 DEF SInv
<1>12. KeysRead(codes, n, t, evs) /\ n \in Nat
  BY <1>0, <1>10, <1>11, TakenTypes DEF Streams, codes, n, t, evs, d
<1>13. ctl.byte = codes[n + 1]
  BY <1>10 DEF codes, n
<1>14. KeysRead(codes, n + 1, u, Append(evs, x))
  <2>1. codes[n + 1] \in Byte /\ r = decode_scancode(codes[n + 1], t.is_uppercase)
    BY <1>5, <1>7, <1>13
  <2>2. /\ u.modifiers = Modified(t.modifiers, r.c, IsUp(codes[n + 1]))
        /\ u.is_uppercase = r.is_uppercase
        /\ x.scancode = codes[n + 1] /\ x.character = r.c /\ x.modifiers = u.modifiers
    BY <1>7, <1>8, <1>9, <1>13
  <2> QED
    BY <1>3, <1>5, <1>8, <1>12, <2>1, <2>2, KeysReadNext
<1>15. KeysRead(sent'[d], Taken(d)', thread'[d], events'[d])
  BY <1>2, <1>4, <1>10, <1>14 DEF codes, n
<1>16. MovesRead(sent'[b], Taken(b)', thread'[b], events'[b])
  <2>1. MovesRead(sent[b], Taken(b), thread[b], events[b])
    BY <1>11 DEF Streams, b
  <2> QED
    BY <1>2, <1>4, <1>10, <2>1
<1>17. pending'["keyboard"] = <<>>
  BY <1>2, <1>11 DEF Streams
<1> QED
  BY <1>10, <1>15, <1>16, <1>17 DEF Streams, d, b

(* The mouse's thread reads a byte. *)
LEMMA MouseStreams ==
  ASSUME TypeOK, SInv, MouseByte
  PROVE  SInv'
<1> DEFINE d == "mouse"
           b == "keyboard"
           t == thread[d]
           bytes == sent[d]
           n == Taken(d)
           things == Append(t.things, ctl.byte)
           whole == Len(things) = 3
           sends == whole /\ ~Overflow(things)
           x == Motion(things)
           rest == IF whole THEN <<>> ELSE things
           u == [t EXCEPT !.things = rest, !.pc = IF sends THEN "send" ELSE "drain", !.k = 0,
                          !.msg = IF sends THEN x ELSE @]
           evs == events[d]
           em == IF sends THEN Append(evs, x) ELSE evs
<1>0. d \in Driver /\ b \in Driver /\ d # b
  BY DEF Driver
<1>1. /\ ReadPort(d) /\ thread' = [thread EXCEPT ![d] = u]
      /\ events' = IF sends THEN [events EXCEPT ![d] = Append(@, x)] ELSE events
  BY Zenon DEF MouseByte
<1>2. sent' = sent /\ pending' = pending /\ sent \in [Driver -> Seq(Byte)]
  BY <1>1 DEF ReadPort, SInv
<1>3. t \in Thread /\ evs \in Seq(Event) /\ t.things \in Seq(Byte)
  <2>1. t \in Thread /\ evs \in Seq(Event)
    BY <1>0, DriverTypes
  <2> QED
    BY <2>1 DEF Thread
<1>4. u.things = rest
  <2> HIDE DEF rest, sends
  <2> QED
    BY <1>3, ZenonT(30) DEF Thread
<1>5. thread'[d] = u /\ thread'[b] = thread[b]
  <2> HIDE DEF u
  <2> QED
    BY <1>0, <1>1 DEF TypeOK
<1>6. events'[d] = em /\ events'[b] = events[b]
  <2> HIDE DEF x, sends
  <2>1. CASE sends
    BY <1>0, <1>1, <2>1 DEF TypeOK
  <2>2. CASE ~sends
    BY <1>0, <1>1, <2>2 DEF TypeOK
  <2> QED
    BY <2>1, <2>2
<1>7. things = Append(t.things, ctl.byte) /\ rest = (IF Len(things) = 3 THEN <<>> ELSE things)
      /\ em = (IF Len(things) = 3 /\ ~Overflow(things) THEN Append(evs, Motion(things)) ELSE evs)
  BY Zenon
<1> SUFFICES ASSUME ~mixed' PROVE Streams'
  BY <1>2 DEF SInv
<1> HIDE DEF u, t, things, rest, em, sends, whole, x, evs, bytes, n, d, b
<1>8. /\ ~mixed /\ ctl.byte = sent[d][Taken(d) + 1] /\ Taken(d) + 1 <= Len(sent[d])
      /\ Taken(d)' = Taken(d) + 1 /\ Taken(b)' = Taken(b)
      /\ \A a \in Driver : Buffered(a)'
  BY <1>0, <1>1, PortTaken
<1>9. Streams
  BY <1>8 DEF SInv
<1>10. MovesRead(bytes, n, t, evs) /\ n \in Nat /\ bytes \in Seq(Byte)
  BY <1>0, <1>8, <1>9, TakenTypes DEF Streams, bytes, n, t, evs, d
<1>11. n + 1 <= Len(bytes) /\ things = Append(t.things, bytes[n + 1])
  BY <1>7, <1>8 DEF bytes, n
<1>12. u.things = IF Len(things) = 3 THEN <<>> ELSE things
  BY <1>4, <1>7, Zenon
<1>13. MovesRead(bytes, n + 1, u,
                 IF Len(things) = 3 /\ ~Overflow(things) THEN Append(evs, Motion(things)) ELSE evs)
  BY <1>3, <1>10, <1>11, <1>12, MovesReadNext, Zenon
<1>14. MovesRead(sent'[d], Taken(d)', thread'[d], events'[d])
  BY <1>2, <1>5, <1>6, <1>7, <1>8, <1>13, Zenon DEF bytes, n
<1>15. KeysRead(sent'[b], Taken(b)', thread'[b], events'[b])
  <2>1. KeysRead(sent[b], Taken(b), thread[b], events[b])
    BY <1>9 DEF Streams, b
  <2> QED
    BY <1>2, <1>5, <1>6, <1>8, <2>1
<1>16. pending'["keyboard"] = <<>>
  BY <1>2, <1>9 DEF Streams
<1> QED
  BY <1>8, <1>14, <1>15, <1>16 DEF Streams, d, b

(* The thread's other steps move its program counter and its loop only. *)
LEMMA OtherStreams ==
  ASSUME TypeOK, SInv, NEW d \in Driver, SendNext(d) \/ (d = "mouse" /\ (CheckIsMouse \/ CheckCanRead))
  PROVE  SInv'
<1>1. UNCHANGED <<ctl, pending, sent, events, mixed>>
  BY Zenon DEF SendNext, CheckIsMouse, CheckCanRead
<1>2. thread \in [Driver -> Thread]
  BY DEF TypeOK
<1> DEFINE Kept(u, t) == u.things = t.things /\ u.modifiers = t.modifiers /\ u.is_uppercase = t.is_uppercase
<1>3. \/ thread' = [thread EXCEPT ![d].k = @ + 1]
      \/ \E pc : thread' = [thread EXCEPT ![d].pc = pc]
      \/ \E pc : thread' = [thread EXCEPT ![d].pc = pc, ![d].msg = NoEvent]
  BY Zenon DEF SendNext, CheckIsMouse, CheckCanRead
<1>4. \A a \in Driver : Kept(thread'[a], thread[a])
  <2>1. thread[d] \in Thread
    BY <1>2
  <2>2. CASE thread' = [thread EXCEPT ![d].k = @ + 1]
    <3>1. /\ thread'[d] = [thread[d] EXCEPT !.k = @ + 1]
          /\ \A a \in Driver : a # d => thread'[a] = thread[a]
      BY <1>2, <2>2
    <3>2. Kept(thread'[d], thread[d])
      BY <2>1, <3>1 DEF Thread
    <3> QED
      BY <3>1, <3>2
  <2>3. ASSUME NEW pc, thread' = [thread EXCEPT ![d].pc = pc]
        PROVE  \A a \in Driver : Kept(thread'[a], thread[a])
    <3>1. /\ thread'[d] = [thread[d] EXCEPT !.pc = pc]
          /\ \A a \in Driver : a # d => thread'[a] = thread[a]
      BY <1>2, <2>3
    <3>2. Kept(thread'[d], thread[d])
      BY <2>1, <3>1 DEF Thread
    <3> QED
      BY <3>1, <3>2
  <2>4. ASSUME NEW pc, thread' = [thread EXCEPT ![d].pc = pc, ![d].msg = NoEvent]
        PROVE  \A a \in Driver : Kept(thread'[a], thread[a])
    <3>1. /\ thread'[d] = [thread[d] EXCEPT !.pc = pc, !.msg = NoEvent]
          /\ \A a \in Driver : a # d => thread'[a] = thread[a]
      BY <1>2, <2>4
    <3>2. Kept(thread'[d], thread[d])
      BY <2>1, <3>1 DEF Thread
    <3> QED
      BY <3>1, <3>2
  <2> QED
    BY <1>3, <2>2, <2>3, <2>4
<1>5. \A a \in Driver : /\ thread'[a].things = thread[a].things
                        /\ thread'[a].modifiers = thread[a].modifiers
                        /\ thread'[a].is_uppercase = thread[a].is_uppercase
  BY <1>4, Zenon
<1> QED
  BY <1>1, <1>5, StreamsSame, ZenonT(30)

(* At first nothing was sent. *)
LEMMA InitStreams == Init => SInv
<1> SUFFICES ASSUME Init PROVE SInv
  OBVIOUS
<1>1. sent \in [Driver -> Seq(Byte)]
  BY DEF Init
<1>2. /\ "keyboard" \in Driver /\ "mouse" \in Driver
      /\ \A d \in Driver : sent[d] = <<>> /\ pending[d] = <<>> /\ events[d] = <<>>
                           /\ thread[d].things = <<>> /\ thread[d].modifiers = {}
                           /\ thread[d].is_uppercase = FALSE
      /\ ~ctl.full
  BY DEF Init, Driver
<1>3. Len(<<>>) = 0 /\ 0 - 0 - 0 = 0 /\ 0 \in Nat /\ 0 = 3 * 0 + 0 /\ 0 < 3 /\ \A i \in 1 .. 0 : FALSE
  OBVIOUS
<1>4. \A d \in Driver : Taken(d) = 0
  BY <1>2, <1>3, Zenon DEF Taken
<1>5. \A d \in Driver : Buffered(d)
  BY <1>2, <1>3, <1>4, Zenon DEF Buffered
<1>6. KeysRead(sent["keyboard"], Taken("keyboard"), thread["keyboard"], events["keyboard"])
  <2>1. HeldAfter(<<>>, 0) = {}
    BY <1>3 DEF HeldAfter
  <2>2. ShiftedAfter(<<>>, 0) = FALSE
    BY <1>3, Zenon DEF ShiftedAfter
  <2>3. KeysDecoded(<<>>, <<>>)
    BY <1>3, Zenon DEF KeysDecoded
  <2> QED
    BY <1>2, <1>3, <1>4, <2>1, <2>2, <2>3, Zenon DEF KeysRead
<1>7. MovesRead(sent["mouse"], Taken("mouse"), thread["mouse"], events["mouse"])
  <2>1. \E f : Numbers(f, <<>>, 0, <<>>)
    <3>1. [i \in 1 .. Len(<<>>) |-> 0] \in [1 .. Len(<<>>) -> 1 .. 0]
      BY <1>3
    <3> QED
      BY <1>3, <3>1, Zenon DEF Numbers
  <2>2. MovesDecoded(<<>>, 0, <<>>)
    BY <2>1, MovesNumbered, Zenon
  <2> QED
    BY <1>2, <1>3, <1>4, <2>2, Zenon DEF MovesRead
<1> QED
  BY <1>1, <1>2, <1>5, <1>6, <1>7, Zenon DEF SInv, Streams

(* The invariant of the streams: what each thread has read is where the     *)
(* device is, less what is in the buffer and what is still to come.         *)
THEOREM StreamsInvariant == Spec => []SInv
<1>1. ASSUME IInv, SInv, [Next]_vars
      PROVE  SInv'
  <2>0. TypeOK
    BY <1>1 DEF IInv
  <2>1. CASE Next
    <3>1. CASE \E code \in Scancodes : Type(code)
      BY <1>1, <2>0, <3>1, DeviceStreams
    <3>2. CASE \E packet \in Packets : Move(packet)
      BY <1>1, <2>0, <3>2, DeviceStreams
    <3>3. CASE MoveOn
      BY <1>1, <2>0, <3>3, DeviceStreams
    <3>4. ASSUME NEW d \in Driver, EventThread(d)
          PROVE  SInv'
      BY <1>1, <2>0, <3>4, OtherStreams, KeyStreams, MouseStreams DEF EventThread
    <3>5. ASSUME NEW d \in Driver, Entered(d) \/ \E c \in Connects[d] : c4rt_peripheral_connect(d, c)
          PROVE  SInv'
      <4>1. UNCHANGED <<ctl, pending, sent, events, mixed, thread>>
        BY <3>5 DEF Entered, c4rt_peripheral_connect, Others
      <4> QED
        BY <1>1, <2>0, <4>1, StreamsSame, ZenonT(30)
    <3> QED
      BY <2>1, <3>1, <3>2, <3>3, <3>4, <3>5 DEF Next
  <2>2. CASE UNCHANGED vars
    <3>1. UNCHANGED <<ctl, pending, sent, events, mixed, thread>>
      BY <2>2 DEF vars
    <3> QED
      BY <1>1, <2>0, <3>1, StreamsSame
  <2> QED
    BY <1>1, <2>1, <2>2
<1> QED
  BY <1>1, DriversInvariant, InitStreams, PTL DEF Spec

(* The keyboard's events are the scancodes and the mouse's the packets, as  *)
(* get_event and ps2mouse.c's dispatch should make them, for any tables     *)
(* that agree on the modifiers and any bytes, until a driver first reads    *)
(* the other's byte.                                                        *)
THEOREM StreamsRight == Spec => []StreamsDecoded
<1>1. TypeOK /\ SInv => StreamsDecoded
  <2> SUFFICES ASSUME TypeOK, SInv, ~mixed
               PROVE  /\ Len(events["keyboard"]) = Taken("keyboard")
                      /\ KeysDecoded(sent["keyboard"], events["keyboard"])
                      /\ MovesDecoded(sent["mouse"], Taken("mouse") \div 3, events["mouse"])
    BY DEF StreamsDecoded
  <2>1. Streams
    BY DEF SInv
  <2>2. Len(events["keyboard"]) = Taken("keyboard") /\ KeysDecoded(sent["keyboard"], events["keyboard"])
    BY <2>1, Zenon DEF Streams, KeysRead
  <2>3. PICK p \in Nat : /\ Taken("mouse") = 3 * p + Len(thread["mouse"].things)
                         /\ Len(thread["mouse"].things) < 3
                         /\ MovesDecoded(sent["mouse"], p, events["mouse"])
    BY <2>1, Zenon DEF Streams, MovesRead
  <2>4. Taken("mouse") \div 3 = p
    <3> DEFINE k == Len(thread["mouse"].things)
               m == Taken("mouse")
    <3>1. thread["mouse"].things \in Seq(Byte)
      BY DEF TypeOK, Thread, Driver
    <3>2. k \in Nat
      BY <3>1
    <3>3. m = 3 * p + k /\ k < 3
      BY <2>3, Zenon
    <3> HIDE DEF k, m
    <3>4. m \div 3 = p
      BY <3>2, <3>3
    <3> QED
      BY <3>4 DEF m
  <2> QED
    BY <2>2, <2>3, <2>4
<1>2. IInv => TypeOK
  BY DEF IInv
<1> QED
  BY <1>1, <1>2, DriversInvariant, StreamsInvariant, PTL
=============================================================================
