-------------------------- MODULE NameServerProofs --------------------------
(***************************************************************************)
(* Whatever name servers are chained in whatever way, and whatever names   *)
(* are bound and looked up, the answers of nameserver_lookup are right.    *)
(***************************************************************************)
EXTENDS NameServer, FiniteSetTheorems, WellFoundedInduction, TLAPS

Asker == Requester \ Binds

(* An endpoint was bound to the name at the server or above it. *)
BoundBy(s, hash, endpoint) ==
  \E b \in Binds : /\ b[1] \in Chain(s)
                   /\ b[2] = hash /\ b[3] = endpoint
                   /\ req[b].pc = "done"

(* A name that is in use in a table came from a finished bind. *)
TableFromBinds ==
  \A s \in Server, i \in Slots : names[s][i].hash # 0 =>
    LET b == <<s, names[s][i].hash, names[s][i].endpoint>>
    IN  b \in Binds /\ req[b].pc = "done"

(* A server and the requester it serves are at the same point of the same  *)
(* conversation, and a server asks above exactly while it forwards.        *)
Serving(s, r) == serv[s].pc # "port" /\ serv[s].peer = r

InStep ==
  /\ \A s \in Server :
       /\ serv[s].pc = "forward" <=> req[s].pc # "idle"
       /\ serv[s].pc = "forward" => Up[s] # NoServer
       /\ serv[s].pc # "port" => serv[s].peer \in Requester
  /\ \A s \in Server, r \in Requester : Serving(s, r) =>
       /\ Target(r) = s
       /\ serv[s].pc = "temp" => req[r].pc = "sending"
       /\ serv[s].pc = "object" =>
            r \in Binds /\ req[r].pc = "object" /\ serv[s].hash = HashOf(r)
       /\ serv[s].pc \in {"forward", "answer"} =>
            r \in Asker /\ req[r].pc = "awaiting" /\ serv[s].hash = HashOf(r)

(* Only a finished lookup has a result. *)
ResultAtEnd == \A r \in Asker : req[r].got # 0 => req[r].pc = "done"

(* What was bound when a lookup began stays bound while it is served. *)
Has(s, h) == h # 0 /\ \E i \in Slots : names[s][i].hash = h

KnownStays ==
  \A r \in Asker : req[r].pc # "idle" =>
    /\ known[r] = "here" => Has(Target(r), HashOf(r))
    /\ known[r] = "above" => \E t \in Chain(Target(r)) : Has(t, HashOf(r))

(* A server that forwards asks for no less than it was asked, and one that  *)
(* is about to answer holds what LookupsRight asks of the answer.           *)
Pending ==
  \A s \in Server, r \in Requester : Serving(s, r) =>
    /\ serv[s].pc = "forward" =>
         known[r] # "here" /\ (known[r] = "above" => known[s] # "nowhere")
    /\ serv[s].pc = "answer" =>
         /\ serv[s].obj # 0 => BoundBy(s, serv[s].hash, serv[s].obj)
         /\ known[r] # "nowhere" => serv[s].obj # 0
         /\ known[r] = "here" => <<s, serv[s].hash, serv[s].obj>> \in Binds

IInv == /\ TypeOK /\ TableFromBinds /\ InStep /\ ResultAtEnd
        /\ KnownStays /\ Pending /\ AnswersBound /\ BoundIsFound

-----------------------------------------------------------------------------
(* Numbers, chains and the table. *)

(* Every set of naturals that is not empty has a least one: what the loops  *)
(* of bind_name and lookup_name stop at.                                    *)
LEMMA LeastNat ==
  ASSUME NEW T \in SUBSET Nat, T # {}
  PROVE  \E m \in T : \A j \in T : m <= j
<1>. DEFINE R == {ss \in Nat \X Nat : ss[1] < ss[2]}
<1>1. R = OpToRel(<, Nat)
  BY DEF OpToRel
<1>2. IsWellFoundedOn(R, Nat)
  BY <1>1, NatLessThanWellFounded
<1>. HIDE DEF R
<1>3. PICK m \in T : \A y \in T : ~ (<<y, m>> \in R)
  BY <1>2, WFMin
<1>4. ASSUME NEW y \in T
      PROVE  m <= y
  <2>1. <<y, m>> \notin R /\ y \in Nat /\ m \in Nat
    BY <1>3
  <2>2. ~ (y < m)
    BY <2>1 DEF R
  <2>. QED BY <2>1, <2>2
<1>. QED BY <1>4

(* A server is on its own chain. *)
LEMMA ChainSelf ==
  ASSUME NEW s \in Server
  PROVE  s \in Chain(s)
BY DEF Chain

(* What is above the next server is above this one. *)
LEMMA ChainUp ==
  ASSUME NEW s \in Server, Up[s] # NoServer
  PROVE  Chain(Up[s]) \subseteq Chain(s)
BY ServerAssumption DEF Chain

(* What is above a server is above the next one; nothing is above the last. *)
LEMMA ChainStep ==
  ASSUME NEW s \in Server, NEW t \in Chain(s), t # s
  PROVE  Up[s] # NoServer /\ t \in Chain(Up[s])
<1>0. t \in Server /\ Up[s] \in Server \cup {NoServer}
  BY ServerAssumption DEF Chain
<1>1. CASE Up[s] = NoServer
  <2>1. {s} \in SUBSET Server /\ \A x \in {s} : Up[x] # NoServer => Up[x] \in {s}
    BY <1>1
  <2>2. t \in {s}
    BY <2>1 DEF Chain
  <2>. QED BY <2>2
<1>2. CASE Up[s] # NoServer
  <2>. SUFFICES ASSUME NEW S \in SUBSET Server, Up[s] \in S,
                       \A x \in S : Up[x] # NoServer => Up[x] \in S
                PROVE  t \in S
    BY <1>0, <1>2 DEF Chain
  <2>1. S \cup {s} \in SUBSET Server
    OBVIOUS
  <2>2. \A x \in S \cup {s} : Up[x] # NoServer => Up[x] \in S \cup {s}
    OBVIOUS
  <2>3. t \in S \cup {s}
    BY <2>1, <2>2 DEF Chain
  <2>. QED BY <2>3
<1>. QED BY <1>1, <1>2

(* A table in which no name is twice, or hidden, is searched correctly. *)
LEMMA LookupLemma ==
  ASSUME TypeOK, NEW s \in Server, NEW h \in Hash
  PROVE  /\ \A i \in Slots : names[s][i].hash = h /\ h # 0
                               => lookup_name(s, h) = names[s][i].endpoint
         /\ lookup_name(s, h) # 0 =>
              h # 0 /\ \E i \in Slots : /\ names[s][i].hash = h
                                        /\ lookup_name(s, h) = names[s][i].endpoint
<1>. DEFINE at == {i \in Slots : InUse(s, i) /\ names[s][i].hash = h}
            k == CHOOSE k \in at : \A j \in at : k <= j
<1>0. /\ \A i \in Slots : names[s][i].hash # 0 =>
            InUse(s, i) /\ \A j \in Slots : names[s][i].hash = names[s][j].hash => i = j
      /\ Slots \subseteq Nat
  BY DEF TypeOK, Slots
<1>1. lookup_name(s, h) = IF at = {} THEN 0 ELSE names[s][k].endpoint
  BY DEF lookup_name
<1>2. \A i \in at : i \in Slots /\ i \in Nat /\ names[s][i].hash = h /\ h # 0
  <2>. TAKE i \in at
  <2>1. i \in 0 .. i /\ i \in Nat
    BY <1>0
  <2>. QED BY <2>1, <1>0 DEF InUse
<1>. HIDE DEF at
<1>3. \A i, j \in at : i = j
  BY <1>0, <1>2
<1>4. at # {} => k \in at
  <2>. HAVE at # {}
  <2>1. PICK i \in at : TRUE
    OBVIOUS
  <2>2. \A j \in at : i <= j
    <3>1. i <= i
      BY <1>2
    <3>. QED BY <3>1, <1>3
  <2>. QED BY <2>1, <2>2
<1>. HIDE DEF k
<1>5. \A i \in Slots : names[s][i].hash = h /\ h # 0 => i \in at
  BY <1>0 DEF at
<1>. QED BY <1>1, <1>2, <1>3, <1>4, <1>5

(* bind_name finds a slot, and the one it finds is the name's own or the    *)
(* first free one: there are more slots than names besides the one bound.   *)
LEMMA BindSlot ==
  ASSUME TypeOK, NEW s \in Server, NEW h \in Hash, NEW e \in Endpoint,
         bind_name(s, h, e)
  PROVE  \E i \in Slots :
           /\ names' = [names EXCEPT ![s][i] = [hash |-> h, endpoint |-> e]]
           /\ names[s][i].hash \in {0, h}
           /\ \A j \in Slots : j < i => names[s][j].hash # 0
           /\ \A j \in Slots : names[s][j].hash = h /\ h # 0 => j = i
<1>. DEFINE stop == {i \in Slots : ~InUse(s, i) \/ names[s][i].hash = h}
            k == CHOOSE k \in stop : \A j \in stop : k <= j
<1>0. /\ \A i \in Slots : names[s][i].hash # 0 =>
            InUse(s, i) /\ \A j \in Slots : names[s][i].hash = names[s][j].hash => i = j
      /\ \A i \in Slots : i \in Nat
  BY DEF TypeOK, Slots
<1>h. \A i \in Slots : names[s][i].hash \in Hash
  BY DEF TypeOK
<1>1. \A i \in Slots : InUse(s, i) => \A j \in Slots : j <= i => names[s][j].hash # 0
  <2>. SUFFICES ASSUME NEW i \in Slots, InUse(s, i), NEW j \in Slots, j <= i
                PROVE  names[s][j].hash # 0
    OBVIOUS
  <2>1. j \in 0 .. i
    BY <1>0
  <2>. QED BY <2>1 DEF InUse
<1>2. stop # {}
  <2>. SUFFICES ASSUME stop = {}
                PROVE  FALSE
    OBVIOUS
  <2>1. \A i \in Slots : InUse(s, i) /\ names[s][i].hash # h
    OBVIOUS
  <2>2. \A i \in Slots : names[s][i].hash \in Hash \ {0}
    <3>. TAKE i \in Slots
    <3>1. i <= i
      BY <1>0
    <3>. QED BY <1>h, <1>1, <2>1, <3>1
  <2>. DEFINE f == [i \in Slots |-> names[s][i].hash]
  <2>3. f \in [Slots -> Hash \ {0}]
    BY <2>2
  <2>4. /\ IsFiniteSet(Slots) /\ Cardinality(Slots) = MaxEntries
    BY FS_Interval, RoomAssumption DEF Slots
  <2>5. 0 \in Hash /\ IsFiniteSet(Hash)
    BY RoomAssumption DEF Hash
  <2>6. /\ IsFiniteSet(Hash \ {0})
        /\ Cardinality(Hash \ {0}) = Cardinality(Hash) - 1
        /\ Cardinality(Hash) \in Nat
    BY <2>5, FS_RemoveElement, FS_CardinalityType
  <2>7. Cardinality(Hash \ {0}) < Cardinality(Slots)
    BY <2>4, <2>6, RoomAssumption
  <2>. HIDE DEF f
  <2>8. \E x, y \in Slots : x # y /\ f[x] = f[y]
    BY <2>3, <2>4, <2>6, <2>7, FS_PigeonHole
  <2>9. PICK x, y \in Slots : x # y /\ names[s][x].hash = names[s][y].hash
    BY <2>8 DEF f
  <2>. QED BY <1>0, <2>2, <2>9
<1>3. k \in stop /\ \A j \in stop : k <= j
  <2>1. stop \in SUBSET Nat
    BY <1>0
  <2>2. \E m \in stop : \A j \in stop : m <= j
    BY <1>2, <2>1, LeastNat
  <2>. QED BY <2>2
<1>4. names' = [names EXCEPT ![s][k] = [hash |-> h, endpoint |-> e]]
  BY DEF bind_name
<1>5. k \in Slots /\ k \in Nat /\ names[s][k].hash \in {0, h}
  BY <1>0, <1>3
<1>. HIDE DEF k
<1>6. \A j \in Slots : j < k => names[s][j].hash # 0
  <2>. SUFFICES ASSUME NEW j \in Slots, j < k
                PROVE  names[s][j].hash # 0
    OBVIOUS
  <2>0. j \in Nat /\ k \in Nat
    BY <1>0, <1>5
  <2>1. ~ (k <= j) /\ j <= j
    BY <2>0
  <2>2. InUse(s, j)
    BY <1>3, <2>1
  <2>. QED BY <1>1, <2>1, <2>2
<1>7. \A j \in Slots : names[s][j].hash = h /\ h # 0 => j = k
  <2>. SUFFICES ASSUME NEW j \in Slots, names[s][j].hash = h, h # 0
                PROVE  j = k
    OBVIOUS
  <2>1. k <= j /\ InUse(s, j)
    BY <1>0, <1>3
  <2>2. names[s][k].hash # 0
    BY <1>1, <1>5, <2>1
  <2>. QED BY <1>0, <1>5, <2>2
<1>. QED BY <1>4, <1>5, <1>6, <1>7

(* lookup_name finds a name exactly if it is in the table, and what it      *)
(* finds was bound to it here.                                              *)
LEMMA LookupBound ==
  ASSUME TypeOK, TableFromBinds, NEW s \in Server, NEW h \in Hash
  PROVE  /\ lookup_name(s, h) # 0 <=> Has(s, h)
         /\ lookup_name(s, h) \in Endpoint \cup {0}
         /\ lookup_name(s, h) # 0 => LET b == <<s, h, lookup_name(s, h)>>
                                     IN  b \in Binds /\ req[b].pc = "done"
<1>1. \A i \in Slots : names[s][i].hash = h /\ h # 0 =>
        /\ lookup_name(s, h) = names[s][i].endpoint
        /\ <<s, h, lookup_name(s, h)>> \in Binds
        /\ req[<<s, h, lookup_name(s, h)>>].pc = "done"
  BY LookupLemma DEF TableFromBinds
<1>2. \A b \in Binds : b[3] # 0 /\ b[3] \in Endpoint
  BY BindsAssumption DEF Endpoint
<1>3. Has(s, h) => lookup_name(s, h) # 0 /\ lookup_name(s, h) \in Endpoint
  BY <1>1, <1>2 DEF Has
<1>4. lookup_name(s, h) # 0 => Has(s, h)
  BY LookupLemma DEF Has
<1>. QED BY <1>1, <1>3, <1>4 DEF Has

(* Where BoundAt places a name. *)
LEMMA BoundAtLemma ==
  ASSUME TypeOK, TableFromBinds, NEW s \in Server, NEW h \in Hash
  PROVE  /\ BoundAt(s, h) \in {"nowhere", "here", "above"}
         /\ BoundAt(s, h) = "here" => Has(s, h)
         /\ BoundAt(s, h) = "above" => \E t \in Chain(s) : Has(t, h)
         /\ (\E t \in Chain(s) : Has(t, h)) => BoundAt(s, h) # "nowhere"
<1>1. \A t \in Server : lookup_name(t, h) # 0 <=> Has(t, h)
  BY LookupBound
<1>2. Chain(s) \subseteq Server
  BY DEF Chain
<1>. QED BY <1>1, <1>2, Zenon DEF BoundAt

-----------------------------------------------------------------------------
(* The steps keep the invariant. *)

(* Where requests go and what they are about. *)
LEMMA TargetLemma ==
  /\ \A r \in Requester \ Server :
       /\ Target(r) = r[1] /\ HashOf(r) = r[2] /\ HashOf(r)' = r[2]
       /\ Target(r) \in Server /\ r[2] \in Hash
  /\ \A s \in Server : Target(s) = Up[s] /\ HashOf(s) = serv[s].hash /\ s \in Asker
  /\ \A s \in Server : HashOf(s)' = serv[s].hash'
  /\ \A b \in Binds : b \notin Server /\ b[3] \in Endpoint
<1>1. \A b \in Binds : b \notin Server /\ b[1] \in Server /\ b[3] \in Endpoint /\ b[2] \in Hash
  BY BindsAssumption, RequesterAssumption DEF Endpoint, Hash
<1>2. \A l \in Lookups : l[1] \in Server /\ l[2] \in Hash
  BY LookupsAssumption DEF Hash
<1>3. \A r \in Requester \ Server : r[1] \in Server /\ r[2] \in Hash
  BY <1>1, <1>2 DEF Requester
<1>4. \A s \in Server : s \in Asker
  BY <1>1 DEF Requester, Asker
<1>. QED BY <1>1, <1>3, <1>4 DEF Target, HashOf

ServType == [Server -> [pc : ServPC, peer : Requester \cup {NoServer},
                       hash : Hash, obj : Endpoint \cup {0}]]
ReqType == [Requester -> [pc : ReqPC, got : Endpoint \cup {0}]]
KnownType == [Requester -> {"nowhere", "here", "above"}]

(* A step that leaves the tables alone keeps the types if it keeps those of *)
(* the rest.                                                                *)
LEMMA TypeFrame ==
  ASSUME TypeOK, UNCHANGED names, serv' \in ServType, req' \in ReqType, known' \in KnownType
  PROVE  TypeOK'
<1>1. \A s, i : InUse(s, i)' <=> InUse(s, i)
  BY DEF InUse
<1>. QED BY <1>1 DEF TypeOK, ServType, ReqType, KnownType

(* A requester that is served is in the middle of a request to its server. *)
LEMMA ServedBusy ==
  ASSUME IInv, NEW t \in Server, NEW r \in Requester, Serving(t, r)
  PROVE  Target(r) = t /\ req[r].pc \in {"sending", "object", "awaiting"}
<1>1. serv[t].pc \in {"temp", "object", "forward", "answer"}
  BY DEF IInv, TypeOK, Serving, ServPC
<1>. QED BY <1>1 DEF IInv, InStep

(* Tables are empty and nobody asks at first. *)
LEMMA InitInv == Init => IInv
<1>. SUFFICES ASSUME Init PROVE IInv
  OBVIOUS
<1>0. 0 \in Hash
  BY DEF Hash
<1>1. TypeOK
  BY <1>0 DEF Init, TypeOK, Waiting, ServPC, ReqPC
<1>2. TableFromBinds
  BY DEF Init, TableFromBinds
<1>3. InStep
  BY TargetLemma DEF Init, InStep, Waiting, Asker, Serving
<1>4. ResultAtEnd /\ KnownStays /\ AnswersBound /\ BoundIsFound
  BY DEF Init, ResultAtEnd, KnownStays, AnswersBound, BoundIsFound, Asker
<1>5. Pending
  BY DEF Init, Pending, Waiting, Serving
<1>. QED BY <1>1, <1>2, <1>3, <1>4, <1>5 DEF IInv

(* A program starts to bind a name. *)
LEMMA BindStarts ==
  ASSUME IInv, NEW b \in Binds, nameserver_bind(b)
  PROVE  IInv'
<1>0. /\ req' = [req EXCEPT ![b].pc = "granting"]
      /\ req[b].pc = "idle" /\ UNCHANGED <<names, serv, known>>
      /\ b \notin Asker /\ b \notin Server
  BY TargetLemma DEF nameserver_bind, SetPC, Asker
<1>a. /\ req \in ReqType /\ serv \in ServType /\ known \in KnownType
      /\ Binds \subseteq Requester
  BY DEF IInv, TypeOK, Requester, ReqType, ServType, KnownType
<1>1. TypeOK'
  <2>1. req' \in ReqType
    BY <1>0, <1>a DEF ReqType, ReqPC
  <2>. QED BY <1>0, <1>a, <2>1, TypeFrame DEF IInv
<1>b. /\ \A x \in Requester : x # b => req'[x] = req[x]
      /\ req'[b].pc = "granting"
  BY <1>0, <1>a DEF ReqType
<1>c. \A x \in Binds : req[x].pc = "done" => req'[x].pc = "done"
  BY <1>0, <1>b, <1>a
<1>d. \A x \in Asker : req'[x] = req[x] /\ HashOf(x)' = HashOf(x)
  BY <1>0, <1>b DEF Asker, HashOf
<1>2. TableFromBinds'
  BY <1>0, <1>c DEF IInv, TableFromBinds
<1>3. InStep'
  BY <1>0, <1>b, <1>d, TargetLemma DEF IInv, InStep, HashOf, Serving
<1>4. ResultAtEnd' /\ KnownStays'
  BY <1>0, <1>d DEF IInv, ResultAtEnd, KnownStays, Has
<1>5. Pending'
  BY <1>0, <1>c DEF IInv, Pending, BoundBy, Serving
<1>6. AnswersBound' /\ BoundIsFound'
  BY <1>0, <1>c, <1>d DEF IInv, AnswersBound, BoundIsFound, Asker
<1>. QED BY <1>1, <1>2, <1>3, <1>4, <1>5, <1>6 DEF IInv

(* A program starts to look a name up. *)
LEMMA LookupStarts ==
  ASSUME IInv, NEW l \in Lookups, nameserver_lookup(l)
  PROVE  IInv'
<1>0. /\ req' = [req EXCEPT ![l] = [pc |-> "granting", got |-> 0]]
      /\ known' = [known EXCEPT ![l] = BoundAt(l[1], l[2])]
      /\ req[l].pc \in {"idle", "done"} /\ UNCHANGED <<names, serv>>
  BY DEF nameserver_lookup
<1>a. /\ req \in ReqType /\ serv \in ServType /\ known \in KnownType
      /\ l \in Asker /\ l \in Requester /\ l \notin Server /\ l \notin Binds
  BY RequesterAssumption DEF IInv, TypeOK, Requester, Asker, ReqType, ServType, KnownType
<1>l. l[1] \in Server /\ l[2] \in Hash /\ Target(l) = l[1] /\ HashOf(l)' = l[2]
  BY <1>a, TargetLemma
<1>k. /\ BoundAt(l[1], l[2]) \in {"nowhere", "here", "above"}
      /\ BoundAt(l[1], l[2]) = "here" => Has(l[1], l[2])
      /\ BoundAt(l[1], l[2]) = "above" => \E t \in Chain(l[1]) : Has(t, l[2])
  BY <1>l, BoundAtLemma DEF IInv
<1>1. TypeOK'
  <2>1. req' \in ReqType /\ known' \in KnownType
    BY <1>0, <1>a, <1>k DEF ReqType, ReqPC, KnownType
  <2>. QED BY <1>0, <1>a, <2>1, TypeFrame DEF IInv
<1>b. /\ \A x \in Requester : x # l => req'[x] = req[x] /\ known'[x] = known[x]
      /\ req'[l].pc = "granting" /\ req'[l].got = 0
      /\ known'[l] = BoundAt(l[1], l[2])
  BY <1>0, <1>a DEF ReqType, KnownType
<1>c. \A x \in Binds : req'[x] = req[x]
  BY <1>a, <1>b DEF Requester
<1>d. \A x \in Asker : HashOf(x)' = HashOf(x)
  BY <1>0 DEF HashOf
<1>2. TableFromBinds'
  BY <1>0, <1>c DEF IInv, TableFromBinds
<1>3. InStep'
  BY <1>0, <1>a, <1>b, TargetLemma DEF IInv, InStep, HashOf, Serving, Asker
<1>4. ResultAtEnd'
  BY <1>b DEF IInv, ResultAtEnd, Asker
<1>5. KnownStays'
  <2>. SUFFICES ASSUME NEW r \in Asker, req'[r].pc # "idle"
                PROVE /\ known'[r] = "here" => Has(Target(r), HashOf(r))'
                      /\ known'[r] = "above" => \E t \in Chain(Target(r)) : Has(t, HashOf(r))'
    BY DEF KnownStays
  <2>1. CASE r = l
    BY <1>0, <1>b, <1>k, <1>l, <2>1 DEF Has
  <2>2. CASE r # l
    BY <1>0, <1>b, <1>d, <2>2 DEF IInv, KnownStays, Has, Asker
  <2>. QED BY <2>1, <2>2
<1>6. Pending'
  <2>1. \A s \in Server : s # l
    BY <1>a
  <2>2. \A s \in Server, r \in Requester :
          Serving(s, r) /\ serv[s].pc \in {"forward", "answer"} => known'[r] = known[r]
    BY <1>0, <1>b DEF IInv, InStep
  <2>3. \A s \in Server : known'[s] = known[s]
    BY <1>b, <2>1 DEF Requester
  <2>. QED BY <1>0, <1>c, <2>2, <2>3 DEF IInv, Pending, BoundBy, Serving
<1>7. AnswersBound'
  BY <1>0, <1>b, <1>c, <1>d DEF IInv, AnswersBound, Asker
<1>8. BoundIsFound'
  BY <1>0, <1>b, <1>c, <1>d DEF IInv, BoundIsFound, Asker
<1>. QED BY <1>1, <1>2, <1>3, <1>4, <1>5, <1>6, <1>7, <1>8 DEF IInv

(* A server takes a temporary endpoint from its port. *)
LEMMA TempTaken ==
  ASSUME IInv, NEW s \in Server, NEW q \in Requester, TakeTemp(s, q)
  PROVE  IInv'
<1>0. /\ serv[s].pc = "port" /\ Target(q) = s /\ req[q].pc = "granting"
      /\ serv' = [serv EXCEPT ![s].pc = "temp", ![s].peer = q]
      /\ req' = [req EXCEPT ![q].pc = "sending"]
      /\ UNCHANGED <<names, known>>
  BY DEF TakeTemp, SetPC
<1>a. req \in ReqType /\ serv \in ServType /\ known \in KnownType
  BY DEF IInv, TypeOK, ReqType, ServType, KnownType
<1>1. TypeOK'
  <2>1. req' \in ReqType
    BY <1>0, <1>a DEF ReqType, ReqPC
  <2>2. serv' \in ServType
    BY <1>0, <1>a, ZenonT(60) DEF ServType, ServPC
  <2>. QED BY <1>0, <1>a, <2>1, <2>2, TypeFrame DEF IInv
<1>b. /\ \A x \in Requester : x # q => req'[x] = req[x]
      /\ req'[q].pc = "sending" /\ req'[q].got = req[q].got
      /\ \A t \in Server : t # s => serv'[t] = serv[t]
      /\ serv'[s].pc = "temp" /\ serv'[s].peer = q /\ serv'[s].hash = serv[s].hash
  BY <1>0, <1>a DEF ReqType, ServType
<1>c. \A x \in Binds : req[x].pc = "done" => req'[x].pc = "done"
  BY <1>0, <1>b DEF Requester
<1>d. \A x \in Requester : HashOf(x)' = HashOf(x)
  BY <1>b DEF HashOf
<1>2. TableFromBinds'
  BY <1>0, <1>c DEF IInv, TableFromBinds
<1>3. InStep'
  <2>1. \A t \in Server :
          /\ serv'[t].pc = "forward" <=> req'[t].pc # "idle"
          /\ serv'[t].pc = "forward" => Up[t] # NoServer
          /\ serv'[t].pc # "port" => serv'[t].peer \in Requester
    <3>. TAKE t \in Server
    <3>1. req'[t].pc = "idle" <=> req[t].pc = "idle"
      BY <1>0, <1>b DEF Requester
    <3>2. CASE t = s
      BY <1>0, <1>b, <3>1, <3>2 DEF IInv, InStep
    <3>3. CASE t # s
      BY <1>b, <3>1, <3>3 DEF IInv, InStep
    <3>. QED BY <3>2, <3>3
  <2>2. ASSUME NEW t \in Server, NEW r \in Requester, Serving(t, r)'
        PROVE  /\ Target(r) = t
               /\ serv'[t].pc = "temp" => req'[r].pc = "sending"
               /\ serv'[t].pc = "object" =>
                    r \in Binds /\ req'[r].pc = "object" /\ serv'[t].hash = HashOf(r)'
               /\ serv'[t].pc \in {"forward", "answer"} =>
                    r \in Asker /\ req'[r].pc = "awaiting" /\ serv'[t].hash = HashOf(r)'
    <3>1. CASE t = s
      BY <1>0, <1>b, <2>2, <3>1 DEF Serving
    <3>2. CASE t # s
      <4>1. Serving(t, r) /\ Target(r) = t /\ r # q
        BY <1>0, <1>b, <2>2, <3>2 DEF IInv, InStep, Serving
      <4>. QED BY <1>b, <1>d, <3>2, <4>1 DEF IInv, InStep
    <3>. QED BY <3>1, <3>2
  <2>. QED BY <2>1, <2>2 DEF InStep
<1>4. ResultAtEnd'
  BY <1>0, <1>b DEF IInv, ResultAtEnd, Asker
<1>5. KnownStays'
  BY <1>0, <1>b, <1>d DEF IInv, KnownStays, Has, Asker
<1>6. Pending'
  <2>. SUFFICES ASSUME NEW t \in Server, NEW r \in Requester, Serving(t, r)',
                       serv'[t].pc \in {"forward", "answer"}
                PROVE  /\ serv'[t].pc = "forward" =>
                            /\ known'[r] # "here"
                            /\ known'[r] = "above" => known'[t] # "nowhere"
                       /\ serv'[t].pc = "answer" =>
                            /\ serv'[t].obj # 0 => BoundBy(t, serv[t].hash, serv[t].obj)'
                            /\ known'[r] # "nowhere" => serv'[t].obj # 0
                            /\ known'[r] = "here" => <<t, serv'[t].hash, serv'[t].obj>> \in Binds
    BY DEF Pending
  <2>1. t # s /\ serv'[t] = serv[t] /\ Serving(t, r)
    BY <1>b DEF Serving
  <2>2. BoundBy(t, serv[t].hash, serv[t].obj) => BoundBy(t, serv[t].hash, serv[t].obj)'
    BY <1>c, <2>1 DEF BoundBy
  <2>. QED BY <1>0, <2>1, <2>2 DEF IInv, Pending
<1>7. AnswersBound'
  BY <1>0, <1>b, <1>c, <1>d DEF IInv, AnswersBound, Asker
<1>8. BoundIsFound'
  BY <1>0, <1>b, <1>d DEF IInv, BoundIsFound, Asker
<1>. QED BY <1>1, <1>2, <1>3, <1>4, <1>5, <1>6, <1>7, <1>8 DEF IInv

(* A server takes NAME_BIND on the endpoint. *)
LEMMA BindTaken ==
  ASSUME IInv, NEW s \in Server, NEW q \in Requester, TakeBind(s, q)
  PROVE  IInv'
<1>0. /\ serv[s].pc = "temp" /\ serv[s].peer = q /\ req[q].pc = "sending" /\ q \in Binds
      /\ serv' = [serv EXCEPT ![s].pc = "object", ![s].hash = HashOf(q)]
      /\ req' = [req EXCEPT ![q].pc = "object"]
      /\ UNCHANGED <<names, known>>
  BY DEF TakeBind, SetPC
<1>a. req \in ReqType /\ serv \in ServType /\ known \in KnownType
  BY DEF IInv, TypeOK, ReqType, ServType, KnownType
<1>h. /\ HashOf(q) \in Hash /\ HashOf(q)' = HashOf(q)
      /\ q \notin Server /\ q \notin Asker
  BY <1>0, TargetLemma DEF Asker
<1>1. TypeOK'
  <2>1. req' \in ReqType
    BY <1>0, <1>a DEF ReqType, ReqPC
  <2>2. \A h \in Hash : [serv EXCEPT ![s].pc = "object", ![s].hash = h] \in ServType
    BY <1>a, ZenonT(30) DEF ServType, ServPC
  <2>3. serv' \in ServType
    BY <1>0, <1>h, <2>2
  <2>. QED BY <1>0, <1>a, <2>1, <2>3, TypeFrame DEF IInv
<1>b. /\ \A x \in Requester : x # q => req'[x] = req[x]
      /\ req'[q].pc = "object"
      /\ \A t \in Server : t # s => serv'[t] = serv[t]
      /\ serv'[s].pc = "object" /\ serv'[s].peer = q /\ serv'[s].hash = HashOf(q)
  BY <1>0, <1>a DEF ReqType, ServType
<1>c. \A x \in Binds : req[x].pc = "done" => req'[x].pc = "done"
  BY <1>0, <1>b DEF Requester
<1>d. \A x \in Requester : x # s => HashOf(x)' = HashOf(x)
  BY <1>b DEF HashOf
<1>e. /\ req[s].pc = "idle" /\ req'[s] = req[s]
      /\ \A x \in Asker : req'[x] = req[x]
  BY <1>0, <1>b, <1>h DEF IInv, InStep, Requester, Asker
<1>2. TableFromBinds'
  BY <1>0, <1>c DEF IInv, TableFromBinds
<1>3. InStep'
  <2>1. \A t \in Server :
          /\ serv'[t].pc = "forward" <=> req'[t].pc # "idle"
          /\ serv'[t].pc = "forward" => Up[t] # NoServer
          /\ serv'[t].pc # "port" => serv'[t].peer \in Requester
    <3>. TAKE t \in Server
    <3>1. req'[t] = req[t]
      BY <1>e, TargetLemma
    <3>2. CASE t = s
      BY <1>0, <1>b, <1>e, <3>1, <3>2
    <3>3. CASE t # s
      BY <1>b, <3>1, <3>3 DEF IInv, InStep
    <3>. QED BY <3>2, <3>3
  <2>2. ASSUME NEW t \in Server, NEW r \in Requester, Serving(t, r)'
        PROVE  /\ Target(r) = t
               /\ serv'[t].pc = "temp" => req'[r].pc = "sending"
               /\ serv'[t].pc = "object" =>
                    r \in Binds /\ req'[r].pc = "object" /\ serv'[t].hash = HashOf(r)'
               /\ serv'[t].pc \in {"forward", "answer"} =>
                    r \in Asker /\ req'[r].pc = "awaiting" /\ serv'[t].hash = HashOf(r)'
    <3>1. CASE t = s
      BY <1>0, <1>b, <1>h, <2>2, <3>1 DEF IInv, InStep, Serving
    <3>2. CASE t # s
      <4>1. Serving(t, r) /\ serv'[t] = serv[t]
        BY <1>b, <2>2, <3>2 DEF Serving
      <4>2. Target(r) = t /\ req[r].pc # "idle"
        BY <4>1, ServedBusy
      <4>3. Target(q) = s
        BY <1>0 DEF IInv, InStep, Serving
      <4>4. r # q /\ r # s
        BY <1>e, <3>2, <4>2, <4>3
      <4>. QED BY <1>b, <1>d, <4>1, <4>4 DEF IInv, InStep
    <3>. QED BY <3>1, <3>2
  <2>. QED BY <2>1, <2>2 DEF InStep
<1>4. ResultAtEnd'
  BY <1>e DEF IInv, ResultAtEnd
<1>5. KnownStays'
  BY <1>0, <1>d, <1>e DEF IInv, KnownStays, Has, Asker
<1>6. Pending'
  <2>. SUFFICES ASSUME NEW t \in Server, NEW r \in Requester, Serving(t, r)',
                       serv'[t].pc \in {"forward", "answer"}
                PROVE  /\ serv'[t].pc = "forward" =>
                            /\ known'[r] # "here"
                            /\ known'[r] = "above" => known'[t] # "nowhere"
                       /\ serv'[t].pc = "answer" =>
                            /\ serv'[t].obj # 0 => BoundBy(t, serv[t].hash, serv[t].obj)'
                            /\ known'[r] # "nowhere" => serv'[t].obj # 0
                            /\ known'[r] = "here" => <<t, serv'[t].hash, serv'[t].obj>> \in Binds
    BY DEF Pending
  <2>1. t # s /\ serv'[t] = serv[t] /\ Serving(t, r)
    BY <1>b DEF Serving
  <2>2. BoundBy(t, serv[t].hash, serv[t].obj) => BoundBy(t, serv[t].hash, serv[t].obj)'
    BY <1>c, <2>1 DEF BoundBy
  <2>. QED BY <1>0, <2>1, <2>2 DEF IInv, Pending
<1>7. AnswersBound'
  BY <1>0, <1>c, <1>d, <1>e DEF IInv, AnswersBound, ResultAtEnd, Asker
<1>8. BoundIsFound'
  BY <1>0, <1>d, <1>e DEF IInv, BoundIsFound, Asker
<1>. QED BY <1>1, <1>2, <1>3, <1>4, <1>5, <1>6, <1>7, <1>8 DEF IInv

(* A server looks a name up in its table and asks above if it is not there. *)
LEMMA LookupHandled ==
  ASSUME IInv, NEW s \in Server, NEW q \in Requester, handle_lookup(s, q)
  PROVE  IInv'
<1>. DEFINE hash == HashOf(q)
            obj == lookup_name(s, hash)
            pc == IF obj > 0 \/ Up[s] = NoServer THEN "answer" ELSE "forward"
<1>0. /\ q \notin Binds
      /\ serv[s].pc = "temp" /\ serv[s].peer = q /\ req[q].pc = "sending"
      /\ serv' = [serv EXCEPT ![s] = [pc |-> pc, peer |-> q, hash |-> hash, obj |-> obj]]
      /\ req' = [x \in Requester |->
                   IF x = q THEN [req[q] EXCEPT !.pc = "awaiting"]
                   ELSE IF x = s /\ pc = "forward" THEN [pc |-> "granting", got |-> 0]
                   ELSE req[x]]
      /\ known' = IF pc = "forward" THEN [known EXCEPT ![s] = BoundAt(Up[s], hash)] ELSE known
      /\ UNCHANGED names
  BY DEF handle_lookup
<1>a. req \in ReqType /\ serv \in ServType /\ known \in KnownType /\ s \in Requester
  BY DEF IInv, TypeOK, ReqType, ServType, KnownType, Requester
<1>q. /\ q \in Asker /\ Target(q) = s /\ req[s].pc = "idle" /\ q # s
      /\ req[q].got = 0 /\ req[s].got = 0
  <2>1. Serving(s, q)
    BY <1>0 DEF Serving
  <2>2. q \in Asker /\ s \in Asker
    BY <1>0, TargetLemma DEF Asker
  <2>. QED BY <1>0, <2>1, <2>2 DEF IInv, InStep, ResultAtEnd
<1>h. hash \in Hash /\ (HashOf(q)' = hash)
  <2>1. q \in Server => hash = serv[q].hash /\ HashOf(q)' = serv[q].hash /\ hash \in Hash
    BY <1>0, <1>a, <1>q DEF HashOf, ServType
  <2>2. q \notin Server => hash \in Hash /\ HashOf(q)' = hash
    BY TargetLemma
  <2>. QED BY <2>1, <2>2
<1>o. /\ obj \in Endpoint \cup {0}
      /\ obj # 0 <=> Has(s, hash)
      /\ obj # 0 => LET b == <<s, hash, obj>> IN b \in Binds /\ req[b].pc = "done"
      /\ obj > 0 <=> obj # 0
  <2>1. \A e \in Endpoint \cup {0} : e \in Nat
    BY BindsAssumption DEF Endpoint
  <2>2. \A e \in Endpoint \cup {0} : e > 0 <=> e # 0
    BY <2>1
  <2>3. hash \in Hash
    BY <1>h
  <2>. QED BY <2>2, <2>3, LookupBound DEF IInv
<1>u. /\ pc \in {"answer", "forward"}
      /\ pc = "forward" => obj = 0 /\ Up[s] \in Server
      /\ pc = "answer" => obj # 0 \/ Up[s] = NoServer
  BY <1>o, ServerAssumption
<1>k. pc = "forward" =>
        /\ BoundAt(Up[s], hash) \in {"nowhere", "here", "above"}
        /\ BoundAt(Up[s], hash) = "here" => Has(Up[s], hash)
        /\ BoundAt(Up[s], hash) = "above" => \E t \in Chain(Up[s]) : Has(t, hash)
        /\ (\E t \in Chain(Up[s]) : Has(t, hash)) => BoundAt(Up[s], hash) # "nowhere"
  <2>1. hash \in Hash
    BY <1>h
  <2>. QED BY <1>u, <2>1, BoundAtLemma DEF IInv
<1>. HIDE DEF hash, obj, pc
<1>b. /\ \A x \in Requester : x # q /\ x # s => req'[x] = req[x]
      /\ req'[q].pc = "awaiting" /\ req'[q].got = 0
      /\ pc = "forward" => req'[s].pc = "granting" /\ req'[s].got = 0
      /\ pc # "forward" => req'[s] = req[s]
      /\ \A t \in Server : t # s => serv'[t] = serv[t]
      /\ serv'[s].pc = pc /\ serv'[s].peer = q /\ serv'[s].hash = hash /\ serv'[s].obj = obj
      /\ \A x \in Requester : x # s => known'[x] = known[x]
      /\ pc = "forward" => known'[s] = BoundAt(Up[s], hash)
      /\ pc # "forward" => known'[s] = known[s]
  BY <1>0, <1>a, <1>q DEF ReqType, ServType, KnownType
<1>1. TypeOK'
  <2>1. req' \in ReqType
    BY <1>0, <1>a DEF ReqType, ReqPC
  <2>2. [pc |-> pc, peer |-> q, hash |-> hash, obj |-> obj] \in
          [pc : ServPC, peer : Requester \cup {NoServer}, hash : Hash, obj : Endpoint \cup {0}]
    BY <1>h, <1>o, <1>u DEF ServPC
  <2>3. serv' \in ServType
    BY <1>0, <1>a, <2>2 DEF ServType
  <2>4. known' \in KnownType
    BY <1>0, <1>a, <1>k DEF KnownType
  <2>. QED BY <1>0, <1>a, <2>1, <2>3, <2>4, TypeFrame DEF IInv
<1>c. \A x \in Binds : req'[x] = req[x]
  BY <1>0, <1>b, TargetLemma DEF Requester
<1>d. \A x \in Requester : x # s => HashOf(x)' = HashOf(x)
  BY <1>b DEF HashOf
<1>e. HashOf(s)' = hash /\ HashOf(q) = hash
  BY <1>b, TargetLemma DEF hash
<1>2. TableFromBinds'
  BY <1>0, <1>c, SMTT(30) DEF IInv, TableFromBinds
<1>s. \A t \in Server, r \in Requester : t # s /\ Serving(t, r)' =>
        /\ Serving(t, r) /\ serv'[t] = serv[t] /\ Target(r) = t
        /\ r # q /\ r # s
  <2>. SUFFICES ASSUME NEW t \in Server, NEW r \in Requester, t # s, Serving(t, r)'
                PROVE  /\ Serving(t, r) /\ serv'[t] = serv[t] /\ Target(r) = t
                       /\ r # q /\ r # s
    OBVIOUS
  <2>1. Serving(t, r) /\ serv'[t] = serv[t]
    BY <1>b DEF Serving
  <2>2. Target(r) = t /\ req[r].pc # "idle"
    BY <2>1, ServedBusy
  <2>. QED BY <1>q, <2>1, <2>2
<1>3. InStep'
  <2>1. \A t \in Server :
          /\ serv'[t].pc = "forward" <=> req'[t].pc # "idle"
          /\ serv'[t].pc = "forward" => Up[t] # NoServer
          /\ serv'[t].pc # "port" => serv'[t].peer \in Requester
    <3>. TAKE t \in Server
    <3>1. CASE t = s
      BY <1>b, <1>q, <1>u, <3>1, ServerAssumption
    <3>2. CASE t # s
      <4>1. req'[t].pc = "idle" <=> req[t].pc = "idle"
        BY <1>0, <1>b, <3>2 DEF Requester
      <4>. QED BY <1>b, <3>2, <4>1 DEF IInv, InStep
    <3>. QED BY <3>1, <3>2
  <2>2. ASSUME NEW t \in Server, NEW r \in Requester, Serving(t, r)'
        PROVE  /\ Target(r) = t
               /\ serv'[t].pc = "temp" => req'[r].pc = "sending"
               /\ serv'[t].pc = "object" =>
                    r \in Binds /\ req'[r].pc = "object" /\ serv'[t].hash = HashOf(r)'
               /\ serv'[t].pc \in {"forward", "answer"} =>
                    r \in Asker /\ req'[r].pc = "awaiting" /\ serv'[t].hash = HashOf(r)'
    <3>1. CASE t = s
      BY <1>b, <1>h, <1>q, <1>u, <2>2, <3>1 DEF Serving
    <3>2. CASE t # s
      BY <1>b, <1>d, <1>s, <2>2, <3>2 DEF IInv, InStep
    <3>. QED BY <3>1, <3>2
  <2>. QED BY <2>1, <2>2 DEF InStep
<1>4. ResultAtEnd'
  BY <1>b, <1>q DEF IInv, ResultAtEnd, Asker
<1>5. KnownStays'
  <2>. SUFFICES ASSUME NEW x \in Asker, req'[x].pc # "idle"
                PROVE /\ known'[x] = "here" => Has(Target(x), HashOf(x))'
                      /\ known'[x] = "above" => \E t \in Chain(Target(x)) : Has(t, HashOf(x))'
    BY DEF KnownStays
  <2>1. CASE x = s
    <3>1. pc = "forward" /\ Target(x) = Up[s]
      BY <1>b, <1>q, <2>1, TargetLemma
    <3>. QED BY <1>0, <1>b, <1>e, <1>k, <2>1, <3>1 DEF Has
  <2>2. CASE x # s
    <3>1. HashOf(x)' = HashOf(x) /\ known'[x] = known[x] /\ req[x].pc # "idle"
      BY <1>0, <1>b, <1>d, <2>2 DEF Asker
    <3>. QED BY <1>0, <3>1 DEF IInv, KnownStays, Has
  <2>. QED BY <2>1, <2>2
<1>6. Pending'
  <2>. SUFFICES ASSUME NEW t \in Server, NEW r \in Requester, Serving(t, r)',
                       serv'[t].pc \in {"forward", "answer"}
                PROVE  /\ serv'[t].pc = "forward" =>
                            /\ known'[r] # "here"
                            /\ known'[r] = "above" => known'[t] # "nowhere"
                       /\ serv'[t].pc = "answer" =>
                            /\ serv'[t].obj # 0 => BoundBy(t, serv[t].hash, serv[t].obj)'
                            /\ known'[r] # "nowhere" => serv'[t].obj # 0
                            /\ known'[r] = "here" => <<t, serv'[t].hash, serv'[t].obj>> \in Binds
    BY DEF Pending
  <2>1. CASE t # s
    <3>1. serv'[t] = serv[t] /\ Serving(t, r) /\ known'[r] = known[r] /\ known'[t] = known[t]
      BY <1>b, <1>s, <2>1 DEF Requester
    <3>2. BoundBy(t, serv[t].hash, serv[t].obj) => BoundBy(t, serv[t].hash, serv[t].obj)'
      BY <1>c, <3>1 DEF BoundBy
    <3>. QED BY <3>1, <3>2 DEF IInv, Pending
  <2>2. CASE t = s
    <3>1. r = q /\ known'[r] = known[q]
      BY <1>b, <1>q, <2>2 DEF Serving
    <3>2. /\ known[q] = "here" => obj # 0
          /\ known[q] = "above" => \E c \in Chain(s) : Has(c, hash)
      BY <1>0, <1>e, <1>o, <1>q DEF IInv, KnownStays
    <3>3. known[q] = "above" /\ obj = 0 =>
            Up[s] # NoServer /\ \E c \in Chain(Up[s]) : Has(c, hash)
      BY <1>o, <3>2, ChainStep
    <3>4. known[q] # "nowhere" => known[q] \in {"here", "above"}
      BY <1>a DEF KnownType
    <3>5. CASE pc = "forward"
      BY <1>b, <1>k, <1>u, <2>2, <3>1, <3>2, <3>3, <3>5
    <3>6. CASE pc = "answer"
      <4>1. obj # 0 => BoundBy(s, serv[s].hash, serv[s].obj)'
        <5>. SUFFICES ASSUME obj # 0
                      PROVE  \E b \in Binds : /\ b[1] \in Chain(s) /\ b[2] = hash /\ b[3] = obj
                                              /\ req'[b].pc = "done"
          BY <1>b DEF BoundBy
        <5>1. <<s, hash, obj>> \in Binds /\ req'[<<s, hash, obj>>].pc = "done"
          BY <1>c, <1>o
        <5>. QED BY <5>1, ChainSelf
      <4>. QED BY <1>b, <1>o, <1>u, <2>2, <3>1, <3>2, <3>3, <3>4, <3>6, <4>1
    <3>. QED BY <1>u, <3>5, <3>6
  <2>. QED BY <2>1, <2>2
<1>7. AnswersBound'
  <2>. SUFFICES ASSUME NEW x \in Asker, req'[x].got # 0
                PROVE  \E b \in Binds : /\ b[1] \in Chain(Target(x))
                                        /\ b[2] = HashOf(x)' /\ b[3] = req'[x].got
                                        /\ req'[b].pc = "done"
    BY DEF AnswersBound, Asker
  <2>1. x # s /\ req'[x].got = req[x].got /\ HashOf(x)' = HashOf(x)
    BY <1>b, <1>d, <1>q DEF Asker
  <2>. QED BY <1>c, <2>1 DEF IInv, AnswersBound, Asker
<1>8. BoundIsFound'
  <2>. SUFFICES ASSUME NEW x \in Asker, req'[x].pc = "done"
                PROVE  /\ known'[x] # "nowhere" => req'[x].got # 0
                       /\ known'[x] = "here" => <<Target(x), HashOf(x)', req'[x].got>> \in Binds
    BY DEF BoundIsFound, Asker
  <2>1. x # s /\ x # q
    BY <1>b, <1>q DEF Asker
  <2>2. req'[x] = req[x] /\ HashOf(x)' = HashOf(x) /\ known'[x] = known[x]
    BY <1>b, <1>d, <2>1 DEF Asker
  <2>. QED BY <2>2 DEF IInv, BoundIsFound, Asker
<1>. QED BY <1>1, <1>2, <1>3, <1>4, <1>5, <1>6, <1>7, <1>8 DEF IInv

(* A server has got the answer from above. *)
LEMMA ForwardedBack ==
  ASSUME IInv, NEW s \in Server, Forwarded(s)
  PROVE  IInv'
<1>0. /\ serv[s].pc = "forward" /\ req[s].pc = "done"
      /\ serv' = [serv EXCEPT ![s].pc = "answer", ![s].obj = req[s].got]
      /\ req' = [req EXCEPT ![s] = [pc |-> "idle", got |-> 0]]
      /\ UNCHANGED <<names, known>>
  BY DEF Forwarded
<1>a. /\ req \in ReqType /\ serv \in ServType /\ known \in KnownType
      /\ s \in Requester /\ s \in Asker
  BY TargetLemma DEF IInv, TypeOK, ReqType, ServType, KnownType, Requester
<1>b. /\ \A x \in Requester : x # s => req'[x] = req[x]
      /\ req'[s].pc = "idle" /\ req'[s].got = 0
      /\ \A t \in Server : t # s => serv'[t] = serv[t]
      /\ serv'[s].pc = "answer" /\ serv'[s].peer = serv[s].peer
      /\ serv'[s].hash = serv[s].hash /\ serv'[s].obj = req[s].got
  BY <1>0, <1>a DEF ReqType, ServType
<1>1. TypeOK'
  <2>1. req' \in ReqType
    BY <1>0, <1>a DEF ReqType, ReqPC
  <2>2. req[s].got \in Endpoint \cup {0}
    BY <1>a DEF ReqType
  <2>3. serv' \in ServType
    BY <1>0, <1>a, <2>2, ZenonT(60) DEF ServType, ServPC
  <2>. QED BY <1>0, <1>a, <2>1, <2>3, TypeFrame DEF IInv
<1>c. \A x \in Binds : req'[x] = req[x]
  BY <1>b, TargetLemma DEF Requester
<1>d. \A x \in Requester : HashOf(x)' = HashOf(x)
  BY <1>b DEF HashOf
<1>2. TableFromBinds'
  BY <1>0, <1>c DEF IInv, TableFromBinds
<1>s. \A t \in Server, r \in Requester : Serving(t, r)' =>
        Serving(t, r) /\ r # s /\ (t # s => serv'[t] = serv[t])
  <2>1. \A t \in Server, r \in Requester : Serving(t, r)' => Serving(t, r)
    BY <1>0, <1>b, ZenonT(30) DEF Serving
  <2>2. \A t \in Server, r \in Requester : Serving(t, r) => req[r].pc # "done"
    BY ServedBusy
  <2>. QED BY <1>0, <1>b, <2>1, <2>2, ZenonT(30)
<1>3. InStep'
  <2>1. \A t \in Server :
          /\ serv'[t].pc = "forward" <=> req'[t].pc # "idle"
          /\ serv'[t].pc = "forward" => Up[t] # NoServer
          /\ serv'[t].pc # "port" => serv'[t].peer \in Requester
    <3>1. ASSUME NEW t \in Server, t # s
          PROVE  req'[t] = req[t] /\ serv'[t] = serv[t]
      BY <1>b, <3>1 DEF Requester
    <3>2. ASSUME NEW t \in Server, t # s
          PROVE  /\ serv'[t].pc = "forward" <=> req'[t].pc # "idle"
                 /\ serv'[t].pc = "forward" => Up[t] # NoServer
                 /\ serv'[t].pc # "port" => serv'[t].peer \in Requester
      BY <3>1, <3>2 DEF IInv, InStep
    <3>3. serv[s].peer \in Requester
      BY <1>0 DEF IInv, InStep
    <3>. QED BY <1>b, <3>2, <3>3
  <2>2. ASSUME NEW t \in Server, NEW r \in Requester, Serving(t, r)'
        PROVE  /\ Target(r) = t
               /\ serv'[t].pc = "temp" => req'[r].pc = "sending"
               /\ serv'[t].pc = "object" =>
                    r \in Binds /\ req'[r].pc = "object" /\ serv'[t].hash = HashOf(r)'
               /\ serv'[t].pc \in {"forward", "answer"} =>
                    r \in Asker /\ req'[r].pc = "awaiting" /\ serv'[t].hash = HashOf(r)'
    <3>1. Serving(t, r) /\ req'[r] = req[r] /\ HashOf(r)' = HashOf(r)
      BY <1>b, <1>d, <1>s, <2>2
    <3>2. CASE t = s
      BY <1>0, <1>b, <3>1, <3>2 DEF IInv, InStep
    <3>3. CASE t # s
      BY <1>b, <3>1, <3>3 DEF IInv, InStep
    <3>. QED BY <3>2, <3>3
  <2>. QED BY <2>1, <2>2 DEF InStep
<1>4. ResultAtEnd'
  BY <1>b DEF IInv, ResultAtEnd, Asker
<1>5. KnownStays'
  BY <1>0, <1>b, <1>d DEF IInv, KnownStays, Has, Asker
<1>6. Pending'
  <2>. SUFFICES ASSUME NEW t \in Server, NEW r \in Requester, Serving(t, r)',
                       serv'[t].pc \in {"forward", "answer"}
                PROVE  /\ serv'[t].pc = "forward" =>
                            /\ known'[r] # "here"
                            /\ known'[r] = "above" => known'[t] # "nowhere"
                       /\ serv'[t].pc = "answer" =>
                            /\ serv'[t].obj # 0 => BoundBy(t, serv[t].hash, serv[t].obj)'
                            /\ known'[r] # "nowhere" => serv'[t].obj # 0
                            /\ known'[r] = "here" => <<t, serv'[t].hash, serv'[t].obj>> \in Binds
    BY DEF Pending
  <2>1. CASE t # s
    <3>1. serv'[t] = serv[t] /\ Serving(t, r)
      BY <1>s, <2>1
    <3>2. BoundBy(t, serv[t].hash, serv[t].obj) => BoundBy(t, serv[t].hash, serv[t].obj)'
      BY <1>c, <3>1 DEF BoundBy
    <3>. QED BY <1>0, <3>1, <3>2 DEF IInv, Pending
  <2>2. CASE t = s
    <3>1. /\ known[r] # "here"
          /\ known[r] = "above" => known[s] # "nowhere"
          /\ known[r] # "nowhere" => known[r] \in {"here", "above"}
      BY <1>0, <1>a, <1>s, <2>2 DEF IInv, Pending, KnownType
    <3>2. /\ known[s] # "nowhere" => req[s].got # 0
          /\ Up[s] # NoServer
      BY <1>0, <1>a DEF IInv, BoundIsFound, Asker, InStep
    <3>3. req[s].got # 0 =>
            \E b \in Binds : /\ b[1] \in Chain(Up[s]) /\ b[2] = serv[s].hash
                             /\ b[3] = req[s].got /\ req[b].pc = "done"
      BY <1>a, TargetLemma DEF IInv, AnswersBound, Asker
    <3>4. req[s].got # 0 => BoundBy(s, serv[s].hash, serv[s].obj)'
      BY <1>b, <1>c, <3>2, <3>3, ChainUp DEF BoundBy
    <3>. QED BY <1>0, <1>b, <2>2, <3>1, <3>2, <3>4
  <2>. QED BY <2>1, <2>2
<1>7. AnswersBound'
  <2>1. \A x \in Asker : req'[x].got # 0 => req'[x] = req[x]
    BY <1>b DEF Asker
  <2>. QED BY <1>c, <1>d, <2>1 DEF IInv, AnswersBound, Asker
<1>8. BoundIsFound'
  <2>1. \A x \in Asker : req'[x].pc = "done" => req'[x] = req[x]
    BY <1>b DEF Asker
  <2>. QED BY <1>0, <1>d, <2>1 DEF IInv, BoundIsFound, Asker
<1>. QED BY <1>1, <1>2, <1>3, <1>4, <1>5, <1>6, <1>7, <1>8 DEF IInv

(* A server answers on the temporary endpoint. *)
LEMMA Answered ==
  ASSUME IInv, NEW s \in Server, NEW q \in Requester, Answer(s, q)
  PROVE  IInv'
<1>0. /\ serv[s].pc = "answer" /\ serv[s].peer = q /\ req[q].pc = "awaiting"
      /\ req' = [req EXCEPT ![q] = [pc |-> "done", got |-> serv[s].obj]]
      /\ serv' = [serv EXCEPT ![s] = Waiting]
      /\ UNCHANGED <<names, known>>
  BY DEF Answer
<1>a. /\ req \in ReqType /\ serv \in ServType /\ known \in KnownType
  BY DEF IInv, TypeOK, ReqType, ServType, KnownType
<1>q. /\ q \in Asker /\ Target(q) = s /\ req[s].pc = "idle" /\ q # s
      /\ serv[s].hash = HashOf(q) /\ Serving(s, q)
  BY <1>0 DEF IInv, InStep, Serving
<1>b. /\ \A x \in Requester : x # q => req'[x] = req[x]
      /\ req'[q].pc = "done" /\ req'[q].got = serv[s].obj
      /\ \A t \in Server : t # s => serv'[t] = serv[t]
      /\ serv'[s].pc = "port"
  BY <1>0, <1>a DEF ReqType, ServType, Waiting
<1>1. TypeOK'
  <2>0. serv[s].obj \in Endpoint \cup {0} /\ Waiting \in
          [pc : ServPC, peer : Requester \cup {NoServer}, hash : Hash, obj : Endpoint \cup {0}]
    BY <1>a DEF ServType, Waiting, ServPC, Hash
  <2>1. req' \in ReqType
    BY <1>0, <1>a, <2>0 DEF ReqType, ReqPC
  <2>2. serv' \in ServType
    BY <1>0, <1>a, <2>0 DEF ServType
  <2>. QED BY <1>0, <1>a, <2>1, <2>2, TypeFrame DEF IInv
<1>c. \A x \in Binds : req'[x] = req[x]
  BY <1>b, <1>q DEF Requester, Asker
<1>d. \A x \in Requester : x # s => HashOf(x)' = HashOf(x)
  BY <1>b DEF HashOf
<1>2. TableFromBinds'
  BY <1>0, <1>c DEF IInv, TableFromBinds
<1>s. \A t \in Server, r \in Requester : Serving(t, r)' =>
        Serving(t, r) /\ t # s /\ r # q /\ r # s /\ serv'[t] = serv[t]
  <2>1. \A t \in Server, r \in Requester : Serving(t, r)' =>
          Serving(t, r) /\ t # s /\ serv'[t] = serv[t]
    BY <1>b DEF Serving
  <2>2. \A t \in Server, r \in Requester : Serving(t, r) => req[r].pc # "idle" /\ Target(r) = t
    BY ServedBusy
  <2>. QED BY <1>q, <2>1, <2>2
<1>3. InStep'
  <2>1. \A t \in Server :
          /\ serv'[t].pc = "forward" <=> req'[t].pc # "idle"
          /\ serv'[t].pc = "forward" => Up[t] # NoServer
          /\ serv'[t].pc # "port" => serv'[t].peer \in Requester
    <3>1. \A t \in Server : req'[t].pc = "idle" <=> req[t].pc = "idle"
      BY <1>0, <1>b DEF Requester
    <3>. QED BY <1>b, <1>q, <3>1 DEF IInv, InStep
  <2>2. ASSUME NEW t \in Server, NEW r \in Requester, Serving(t, r)'
        PROVE  /\ Target(r) = t
               /\ serv'[t].pc = "temp" => req'[r].pc = "sending"
               /\ serv'[t].pc = "object" =>
                    r \in Binds /\ req'[r].pc = "object" /\ serv'[t].hash = HashOf(r)'
               /\ serv'[t].pc \in {"forward", "answer"} =>
                    r \in Asker /\ req'[r].pc = "awaiting" /\ serv'[t].hash = HashOf(r)'
    BY <1>b, <1>d, <1>s, <2>2 DEF IInv, InStep
  <2>. QED BY <2>1, <2>2 DEF InStep
<1>4. ResultAtEnd'
  BY <1>b DEF IInv, ResultAtEnd, Asker
<1>x. \A x \in Asker : x # s /\ req'[x].pc # "idle" => HashOf(x)' = HashOf(x) /\ req[x].pc # "idle"
  BY <1>0, <1>b, <1>d DEF Asker
<1>y. req'[s].pc = "idle" /\ req'[s].got = 0
  BY <1>b, <1>q, TargetLemma DEF IInv, ResultAtEnd, Asker
<1>5. KnownStays'
  BY <1>0, <1>x, <1>y DEF IInv, KnownStays, Has
<1>6. Pending'
  <2>. SUFFICES ASSUME NEW t \in Server, NEW r \in Requester, Serving(t, r)',
                       serv'[t].pc \in {"forward", "answer"}
                PROVE  /\ serv'[t].pc = "forward" =>
                            /\ known'[r] # "here"
                            /\ known'[r] = "above" => known'[t] # "nowhere"
                       /\ serv'[t].pc = "answer" =>
                            /\ serv'[t].obj # 0 => BoundBy(t, serv[t].hash, serv[t].obj)'
                            /\ known'[r] # "nowhere" => serv'[t].obj # 0
                            /\ known'[r] = "here" => <<t, serv'[t].hash, serv'[t].obj>> \in Binds
    BY DEF Pending
  <2>1. serv'[t] = serv[t] /\ Serving(t, r)
    BY <1>s
  <2>2. BoundBy(t, serv[t].hash, serv[t].obj) => BoundBy(t, serv[t].hash, serv[t].obj)'
    BY <1>c, <2>1 DEF BoundBy
  <2>. QED BY <1>0, <2>1, <2>2 DEF IInv, Pending
<1>p. /\ serv[s].obj # 0 => BoundBy(s, serv[s].hash, serv[s].obj)
      /\ known[q] # "nowhere" => serv[s].obj # 0
      /\ known[q] = "here" => <<s, serv[s].hash, serv[s].obj>> \in Binds
  BY <1>0, <1>q DEF IInv, Pending
<1>7. AnswersBound'
  <2>. SUFFICES ASSUME NEW x \in Asker, req'[x].got # 0
                PROVE  \E b \in Binds : /\ b[1] \in Chain(Target(x))
                                        /\ b[2] = HashOf(x)' /\ b[3] = req'[x].got
                                        /\ req'[b].pc = "done"
    BY DEF AnswersBound, Asker
  <2>1. x # s /\ HashOf(x)' = HashOf(x)
    BY <1>d, <1>y DEF Asker
  <2>2. CASE x = q
    BY <1>b, <1>c, <1>p, <1>q, <2>1, <2>2 DEF BoundBy
  <2>3. CASE x # q
    BY <1>b, <1>c, <2>1, <2>3 DEF IInv, AnswersBound, Asker
  <2>. QED BY <2>2, <2>3
<1>8. BoundIsFound'
  <2>. SUFFICES ASSUME NEW x \in Asker, req'[x].pc = "done"
                PROVE  /\ known'[x] # "nowhere" => req'[x].got # 0
                       /\ known'[x] = "here" => <<Target(x), HashOf(x)', req'[x].got>> \in Binds
    BY DEF BoundIsFound, Asker
  <2>1. x # s /\ HashOf(x)' = HashOf(x)
    BY <1>d, <1>y DEF Asker
  <2>2. CASE x = q
    BY <1>0, <1>b, <1>p, <1>q, <2>1, <2>2
  <2>3. CASE x # q
    BY <1>0, <1>b, <2>1, <2>3 DEF IInv, BoundIsFound, Asker
  <2>. QED BY <2>2, <2>3
<1>. QED BY <1>1, <1>2, <1>3, <1>4, <1>5, <1>6, <1>7, <1>8 DEF IInv

(* A server takes the object and puts it in its table. *)
LEMMA BindHandled ==
  ASSUME IInv, NEW s \in Server, NEW q \in Binds, handle_bind(s, q)
  PROVE  IInv'
<1>0. /\ serv[s].pc = "object" /\ serv[s].peer = q /\ req[q].pc = "object"
      /\ bind_name(s, serv[s].hash, q[3])
      /\ serv' = [serv EXCEPT ![s] = Waiting]
      /\ req' = [req EXCEPT ![q].pc = "done"]
      /\ UNCHANGED known
  BY DEF handle_bind, SetPC
<1>a. /\ req \in ReqType /\ serv \in ServType /\ known \in KnownType
      /\ q \in Requester /\ q \notin Server /\ q \notin Asker /\ q[3] \in Endpoint
  BY TargetLemma DEF IInv, TypeOK, ReqType, ServType, KnownType, Requester, Asker
<1>q. /\ q[1] = s /\ serv[s].hash = q[2] /\ q = <<s, q[2], q[3]>>
      /\ req[s].pc = "idle" /\ q[2] \in Hash
  <2>1. Serving(s, q) /\ q \in Requester \ Server
    BY <1>0, <1>a DEF Serving
  <2>2. Target(q) = s /\ serv[s].hash = HashOf(q) /\ req[s].pc = "idle"
    BY <1>0, <2>1 DEF IInv, InStep
  <2>3. q[1] = s /\ serv[s].hash = q[2]
    BY <2>1, <2>2, TargetLemma
  <2>4. q = <<q[1], q[2], q[3]>>
    BY BindsAssumption
  <2>. QED BY <1>a, <2>2, <2>3, <2>4 DEF ServType
<1>n. PICK i \in Slots :
        /\ names' = [names EXCEPT ![s][i] = [hash |-> q[2], endpoint |-> q[3]]]
        /\ names[s][i].hash \in {0, q[2]}
        /\ \A j \in Slots : j < i => names[s][j].hash # 0
        /\ \A j \in Slots : names[s][j].hash = q[2] /\ q[2] # 0 => j = i
  <2>1. bind_name(s, q[2], q[3])
    BY <1>0, <1>q
  <2>. QED BY <1>a, <1>q, <2>1, BindSlot DEF IInv
<1>m. names \in [Server -> [Slots -> [hash : Hash, endpoint : Endpoint \cup {0}]]]
  BY DEF IInv, TypeOK
<1>t. /\ \A t \in Server, j \in Slots : t # s \/ j # i => names'[t][j] = names[t][j]
      /\ names'[s][i].hash = q[2] /\ names'[s][i].endpoint = q[3]
  BY <1>m, <1>n
<1>k. \A t \in Server, j \in Slots : names[t][j].hash # 0 => names'[t][j].hash = names[t][j].hash
  BY <1>n, <1>t
<1>b. /\ \A x \in Requester : x # q => req'[x] = req[x]
      /\ req'[q].pc = "done"
      /\ \A t \in Server : t # s => serv'[t] = serv[t]
      /\ serv'[s].pc = "port"
  BY <1>0, <1>a DEF ReqType, ServType, Waiting
<1>c. \A x \in Binds : req[x].pc = "done" => req'[x].pc = "done"
  BY <1>b DEF Requester
<1>d. \A x \in Requester : x # s => HashOf(x)' = HashOf(x)
  BY <1>b DEF HashOf
<1>e. \A x \in Asker : req'[x] = req[x]
  BY <1>a, <1>b DEF Asker
<1>1. TypeOK'
  <2>1. names' \in [Server -> [Slots -> [hash : Hash, endpoint : Endpoint \cup {0}]]]
    BY <1>a, <1>m, <1>n, <1>q
  <2>2. req' \in ReqType
    BY <1>0, <1>a DEF ReqType, ReqPC
  <2>3. Waiting \in
          [pc : ServPC, peer : Requester \cup {NoServer}, hash : Hash, obj : Endpoint \cup {0}]
    BY DEF Waiting, ServPC, Hash
  <2>4. serv' \in ServType
    BY <1>0, <1>a, <2>3 DEF ServType
  <2>5. ASSUME NEW t \in Server, NEW j \in Slots, names'[t][j].hash # 0
        PROVE  /\ InUse(t, j)'
               /\ \A k \in Slots : names'[t][j].hash = names'[t][k].hash => j = k
    <3>0. /\ \A k \in Slots : k \in Nat
          /\ \A k \in 0 .. j : k \in Slots /\ k <= j
      BY RoomAssumption DEF Slots
    <3>old. \A u \in Server, k \in Slots : names[u][k].hash # 0 =>
              InUse(u, k) /\ \A l \in Slots : names[u][k].hash = names[u][l].hash => k = l
      BY DEF IInv, TypeOK
    <3>1. CASE names[t][j].hash # 0
      <4>1. InUse(t, j)'
        BY <1>k, <3>0, <3>1, <3>old DEF InUse
      <4>2. ASSUME NEW k \in Slots, names'[t][j].hash = names'[t][k].hash
            PROVE  j = k
        <5>1. names'[t][j].hash = names[t][j].hash
          BY <1>k, <3>1
        <5>2. CASE names[t][k].hash # 0
          BY <1>k, <3>1, <3>old, <4>2, <5>1, <5>2
        <5>3. CASE names[t][k].hash = 0
          <6>1. t = s /\ k = i
            BY <1>t, <3>1, <4>2, <5>1, <5>3
          <6>2. names[s][j].hash = q[2] /\ q[2] # 0
            BY <1>t, <2>5, <4>2, <5>1, <6>1
          <6>. QED BY <1>n, <6>1, <6>2
        <5>. QED BY <5>2, <5>3
      <4>. QED BY <4>1, <4>2
    <3>2. CASE names[t][j].hash = 0
      <4>1. t = s /\ j = i /\ q[2] # 0
        BY <1>t, <2>5, <3>2
      <4>2. ASSUME NEW k \in 0 .. j
            PROVE  names'[t][k].hash # 0
        <5>0. k \in Slots /\ k <= j /\ k \in Nat /\ j \in Nat
          BY <3>0
        <5>1. CASE k = i
          BY <1>t, <4>1, <5>1
        <5>2. CASE k # i
          <6>1. k < i
            BY <4>1, <5>0, <5>2
          <6>. QED BY <1>k, <1>n, <4>1, <5>0, <6>1
        <5>. QED BY <5>1, <5>2
      <4>3. InUse(t, j)'
        BY <4>2 DEF InUse
      <4>4. ASSUME NEW k \in Slots, names'[t][j].hash = names'[t][k].hash
            PROVE  j = k
        BY <1>n, <1>t, <4>1, <4>4
      <4>. QED BY <4>3, <4>4
    <3>. QED BY <3>1, <3>2
  <2>. QED BY <1>0, <1>a, <2>1, <2>2, <2>4, <2>5 DEF TypeOK, ReqType, ServType, KnownType
<1>2. TableFromBinds'
  <2>. SUFFICES ASSUME NEW t \in Server, NEW j \in Slots, names'[t][j].hash # 0
                PROVE  LET b == <<t, names'[t][j].hash, names'[t][j].endpoint>>
                       IN  b \in Binds /\ req'[b].pc = "done"
    BY DEF TableFromBinds
  <2>1. CASE t = s /\ j = i
    BY <1>b, <1>q, <1>t, <2>1
  <2>2. CASE t # s \/ j # i
    BY <1>c, <1>t, <2>2 DEF IInv, TableFromBinds
  <2>. QED BY <2>1, <2>2
<1>s. \A t \in Server, r \in Requester : Serving(t, r)' =>
        Serving(t, r) /\ t # s /\ r # q /\ r # s /\ serv'[t] = serv[t]
  <2>1. \A t \in Server, r \in Requester : Serving(t, r)' =>
          Serving(t, r) /\ t # s /\ serv'[t] = serv[t]
    BY <1>b DEF Serving
  <2>2. \A t \in Server, r \in Requester : Serving(t, r) => req[r].pc # "idle" /\ Target(r) = t
    BY ServedBusy
  <2>3. Target(q) = s
    BY <1>a, <1>q, TargetLemma
  <2>. QED BY <1>q, <2>1, <2>2, <2>3
<1>3. InStep'
  <2>1. \A t \in Server :
          /\ serv'[t].pc = "forward" <=> req'[t].pc # "idle"
          /\ serv'[t].pc = "forward" => Up[t] # NoServer
          /\ serv'[t].pc # "port" => serv'[t].peer \in Requester
    <3>1. \A t \in Server : req'[t] = req[t]
      BY <1>e, TargetLemma
    <3>. QED BY <1>b, <1>q, <3>1 DEF IInv, InStep
  <2>2. ASSUME NEW t \in Server, NEW r \in Requester, Serving(t, r)'
        PROVE  /\ Target(r) = t
               /\ serv'[t].pc = "temp" => req'[r].pc = "sending"
               /\ serv'[t].pc = "object" =>
                    r \in Binds /\ req'[r].pc = "object" /\ serv'[t].hash = HashOf(r)'
               /\ serv'[t].pc \in {"forward", "answer"} =>
                    r \in Asker /\ req'[r].pc = "awaiting" /\ serv'[t].hash = HashOf(r)'
    BY <1>b, <1>d, <1>s, <2>2 DEF IInv, InStep
  <2>. QED BY <2>1, <2>2 DEF InStep
<1>4. ResultAtEnd'
  BY <1>e DEF IInv, ResultAtEnd
<1>x. \A x \in Asker : req'[x].pc # "idle" => HashOf(x)' = HashOf(x)
  BY <1>d, <1>e, <1>q DEF Asker
<1>5. KnownStays'
  <2>. SUFFICES ASSUME NEW x \in Asker, req'[x].pc # "idle"
                PROVE /\ known'[x] = "here" => Has(Target(x), HashOf(x))'
                      /\ known'[x] = "above" => \E t \in Chain(Target(x)) : Has(t, HashOf(x))'
    BY DEF KnownStays
  <2>2. /\ HashOf(x)' = HashOf(x)
        /\ \A t \in Server : Has(t, HashOf(x)) => Has(t, HashOf(x))'
    BY <1>k, <1>x DEF Has
  <2>3. /\ known[x] = "here" => Has(Target(x), HashOf(x))
        /\ known[x] = "above" => \E t \in Chain(Target(x)) : Has(t, HashOf(x))
    BY <1>e DEF IInv, KnownStays
  <2>4. Target(x) \in Server /\ Chain(Target(x)) \subseteq Server
    <3>1. x \in Server => serv[x].pc = "forward"
      BY <1>e DEF IInv, InStep
    <3>2. x \in Server => Target(x) \in Server
      BY <3>1, TargetLemma, ServerAssumption DEF IInv, InStep
    <3>. QED BY <3>2, TargetLemma DEF Asker, Chain
  <2>. QED BY <1>0, <2>2, <2>3, <2>4
<1>6. Pending'
  <2>. SUFFICES ASSUME NEW t \in Server, NEW r \in Requester, Serving(t, r)',
                       serv'[t].pc \in {"forward", "answer"}
                PROVE  /\ serv'[t].pc = "forward" =>
                            /\ known'[r] # "here"
                            /\ known'[r] = "above" => known'[t] # "nowhere"
                       /\ serv'[t].pc = "answer" =>
                            /\ serv'[t].obj # 0 => BoundBy(t, serv[t].hash, serv[t].obj)'
                            /\ known'[r] # "nowhere" => serv'[t].obj # 0
                            /\ known'[r] = "here" => <<t, serv'[t].hash, serv'[t].obj>> \in Binds
    BY DEF Pending
  <2>1. serv'[t] = serv[t] /\ Serving(t, r)
    BY <1>s
  <2>2. BoundBy(t, serv[t].hash, serv[t].obj) => BoundBy(t, serv[t].hash, serv[t].obj)'
    BY <1>c, <2>1 DEF BoundBy
  <2>. QED BY <1>0, <2>1, <2>2 DEF IInv, Pending
<1>7. AnswersBound'
  <2>1. \A x \in Asker : req'[x].got # 0 => HashOf(x)' = HashOf(x)
    BY <1>e, <1>x DEF IInv, ResultAtEnd
  <2>. QED BY <1>c, <1>e, <2>1 DEF IInv, AnswersBound, Asker
<1>8. BoundIsFound'
  BY <1>0, <1>e, <1>x DEF IInv, BoundIsFound, Asker
<1>. QED BY <1>1, <1>2, <1>3, <1>4, <1>5, <1>6, <1>7, <1>8 DEF IInv

(* A step that changes nothing keeps the invariant. *)
LEMMA StutterInv == IInv /\ UNCHANGED vars => IInv'
<1>. SUFFICES ASSUME IInv, UNCHANGED vars PROVE IInv'
  OBVIOUS
<1>0. names' = names /\ serv' = serv /\ req' = req /\ known' = known
  BY DEF vars
<1>1. TypeOK'
  BY <1>0, TypeFrame DEF IInv, TypeOK, ServType, ReqType, KnownType
<1>2. \A r : HashOf(r)' = HashOf(r)
  BY <1>0 DEF HashOf
<1>. QED
  BY <1>0, <1>1, <1>2 DEF IInv, TableFromBinds, InStep, Serving, ResultAtEnd, KnownStays,
     Has, Pending, BoundBy, AnswersBound, BoundIsFound

(* Every step of a server or a program keeps the invariant. *)
LEMMA NextInv == IInv /\ [Next]_vars => IInv'
<1>. SUFFICES ASSUME IInv, [Next]_vars PROVE IInv'
  OBVIOUS
<1>1. ASSUME NEW b \in Binds, nameserver_bind(b) PROVE IInv'
  BY <1>1, BindStarts
<1>2. ASSUME NEW l \in Lookups, nameserver_lookup(l) PROVE IInv'
  BY <1>2, LookupStarts
<1>3. ASSUME NEW s \in Server, NEW r \in Requester, TakeTemp(s, r) PROVE IInv'
  BY <1>3, TempTaken
<1>4. ASSUME NEW s \in Server, Serve(s) PROVE IInv'
  BY <1>4, BindTaken, LookupHandled, Answered, BindHandled, ForwardedBack DEF Serve
<1>5. CASE UNCHANGED vars
  BY <1>5, StutterInv
<1>. QED BY <1>1, <1>2, <1>3, <1>4, <1>5 DEF Next

(* What nameserver_lookup answers is right: for every number of servers,    *)
(* however they are chained, and every set of names bound and looked up, a  *)
(* lookup of a name bound when it started succeeds, with an endpoint that   *)
(* was bound to this name at the server asked or above it, the server's own *)
(* if it had one.                                                           *)
THEOREM Lookups_Right == Spec => []LookupsRight
<1>1. IInv => LookupsRight
  BY DEF IInv, LookupsRight
<1>. QED BY <1>1, InitInv, NextInv, PTL DEF Spec
=============================================================================
