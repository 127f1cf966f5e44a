----------------------------- MODULE NameServer -----------------------------
(***************************************************************************)
(* programs/nameserver: the servers that programs find each other through. *)
(* A name server keeps a table from hashed names to endpoints; one that    *)
(* does not know a name asks the name server it was started with, so they  *)
(* form chains (stubby-console starts one of its own, whose bindings hide  *)
(* the system's).  Every request comes on a temporary endpoint that the    *)
(* requester grants first.                                                 *)
(*                                                                         *)
(* A synchronous message is a rendezvous of its sender and its receiver    *)
(* and so one step.  A server handles one request at a time and is itself  *)
(* a requester while it forwards a lookup.                                 *)
(***************************************************************************)
EXTENDS Integers, FiniteSets

CONSTANTS Server,      \* the name servers
          NoServer,    \* none: started with --no-forward
          Up,          \* server -> its C4_NAMESERVER, or NoServer
          Binds,       \* the nameserver_bind calls: <<server, hash, endpoint>>
          Lookups,     \* the lookup loops: <<server, hash>>
          MaxEntries   \* MAX_NAME_ENTRIES

Hash == {b[2] : b \in Binds} \cup {l[2] : l \in Lookups} \cup {0}
Endpoint == {b[3] : b \in Binds}
Requester == Binds \cup Lookups \cup Server
Slots == 0 .. MaxEntries - 1

ASSUME ServerAssumption == NoServer \notin Server /\ Up \in [Server -> Server \cup {NoServer}]
ASSUME BindsAssumption  == Binds \subseteq Server \X Nat \X (Nat \ {0})
ASSUME LookupsAssumption == Lookups \subseteq Server \X Nat
ASSUME RequesterAssumption ==
  Binds \cap Lookups = {} /\ Server \cap (Binds \cup Lookups) = {} /\ NoServer \notin Requester

(* The table has room for every name: bind_name does not look whether it    *)
(* has and would write past its end.                                        *)
ASSUME RoomAssumption ==
  MaxEntries \in Nat /\ IsFiniteSet(Hash) /\ Cardinality(Hash) <= MaxEntries

VARIABLES names,   \* server -> slot -> [hash, endpoint]
          serv,    \* server -> [pc, peer, hash, obj]: its main loop
          req,     \* requester -> [pc, got]
          known    \* requester -> where its name was bound when it last asked

vars == <<names, serv, req, known>>

ServPC == {"port", "temp", "object", "forward", "answer"}
ReqPC  == {"idle", "granting", "sending", "object", "awaiting", "done"}

Waiting == [pc |-> "port", peer |-> NoServer, hash |-> 0, obj |-> 0]

Init ==
  /\ names = [s \in Server |-> [i \in Slots |-> [hash |-> 0, endpoint |-> 0]]]
  /\ serv = [s \in Server |-> Waiting]
  /\ req = [r \in Requester |-> [pc |-> "idle", got |-> 0]]
  /\ known = [r \in Requester |-> "nowhere"]

(* Where a requester's request goes and what it is about.                   *)
Target(r) == IF r \in Server THEN Up[r] ELSE r[1]
HashOf(r) == IF r \in Server THEN serv[r].hash ELSE r[2]

-----------------------------------------------------------------------------
(* The table: entries up to the first whose hash is 0. *)

InUse(s, i) == i \in Slots /\ \A j \in 0 .. i : names[s][j].hash # 0

bind_name(s, name, endpoint) ==
  LET stop == {i \in Slots : ~InUse(s, i) \/ names[s][i].hash = name}
      i == CHOOSE k \in stop : \A j \in stop : k <= j
  IN  names' = [names EXCEPT ![s][i] = [hash |-> name, endpoint |-> endpoint]]

(* Mutant of lookup_name: starts one slot too far. *)
lookup_name_skips(s, name) ==
  LET at == {i \in Slots : i > 0 /\ InUse(s, i) /\ names[s][i].hash = name}
  IN  IF at = {} THEN 0
      ELSE names[s][CHOOSE k \in at : \A j \in at : k <= j].endpoint

lookup_name(s, name) ==
  LET at == {i \in Slots : InUse(s, i) /\ names[s][i].hash = name}
  IN  IF at = {} THEN 0
      ELSE names[s][CHOOSE k \in at : \A j \in at : k <= j].endpoint

(* A server and those its requests are passed on to. *)
Chain(s) == {t \in Server : \A S \in SUBSET Server :
               s \in S /\ (\A x \in S : Up[x] # NoServer => Up[x] \in S) => t \in S}

(* Where a name is bound, seen from a server. *)
BoundAt(s, name) ==
  CASE lookup_name(s, name) # 0 -> "here"
    [] /\ lookup_name(s, name) = 0
       /\ \E t \in Chain(s) : lookup_name(t, name) # 0 -> "above"
    [] OTHER -> "nowhere"

-----------------------------------------------------------------------------
(* The requesters' side. *)

SetPC(r, pc) == req' = [req EXCEPT ![r].pc = pc]

nameserver_bind(b) ==
  /\ req[b].pc = "idle"
  /\ SetPC(b, "granting")
  /\ UNCHANGED <<names, serv, known>>

(* A lookup, and the next turn of a loop around one. *)
nameserver_lookup(l) ==
  /\ req[l].pc \in {"idle", "done"}
  /\ req' = [req EXCEPT ![l] = [pc |-> "granting", got |-> 0]]
  /\ known' = [known EXCEPT ![l] = BoundAt(l[1], l[2])]
  /\ UNCHANGED <<names, serv>>

-----------------------------------------------------------------------------
(* The server's main loop. *)

(* A temporary endpoint arrives on the port. *)
TakeTemp(s, r) ==
  /\ serv[s].pc = "port"
  /\ Target(r) = s /\ req[r].pc = "granting"
  /\ serv' = [serv EXCEPT ![s].pc = "temp", ![s].peer = r]
  /\ SetPC(r, "sending")
  /\ UNCHANGED <<names, known>>

(* NAME_BIND, and then the object to bind. *)
TakeBind(s, b) ==
  /\ b \in Binds
  /\ serv[s].pc = "temp" /\ serv[s].peer = b /\ req[b].pc = "sending"
  /\ serv' = [serv EXCEPT ![s].pc = "object", ![s].hash = HashOf(b)]
  /\ SetPC(b, "object")
  /\ UNCHANGED <<names, known>>

handle_bind(s, b) ==
  /\ serv[s].pc = "object" /\ serv[s].peer = b /\ req[b].pc = "object"
  /\ bind_name(s, serv[s].hash, b[3])
  /\ serv' = [serv EXCEPT ![s] = Waiting]
  /\ SetPC(b, "done")
  /\ UNCHANGED known

(* Mutant of handle_lookup: never forwards. *)
handle_lookup_local(s, r) ==
  LET hash == HashOf(r) IN
  /\ r \notin Binds
  /\ serv[s].pc = "temp" /\ serv[s].peer = r /\ req[r].pc = "sending"
  /\ serv' = [serv EXCEPT ![s] = [pc |-> "answer", peer |-> r, hash |-> hash,
                                  obj |-> lookup_name(s, hash)]]
  /\ SetPC(r, "awaiting")
  /\ UNCHANGED <<names, known>>

(* NAME_LOOKUP: from the table, or else by asking the next server. *)
handle_lookup(s, r) ==
  LET hash == HashOf(r)
      obj == lookup_name(s, hash)
      pc == IF obj > 0 \/ Up[s] = NoServer THEN "answer" ELSE "forward"
  IN
  /\ r \notin Binds
  /\ serv[s].pc = "temp" /\ serv[s].peer = r /\ req[r].pc = "sending"
  /\ serv' = [serv EXCEPT ![s] = [pc |-> pc, peer |-> r, hash |-> hash, obj |-> obj]]
  /\ req' = [x \in Requester |->
               IF x = r THEN [req[r] EXCEPT !.pc = "awaiting"]
               ELSE IF x = s /\ pc = "forward" THEN [pc |-> "granting", got |-> 0]
               ELSE req[x]]
  /\ known' = IF pc = "forward" THEN [known EXCEPT ![s] = BoundAt(Up[s], hash)] ELSE known
  /\ UNCHANGED names

(* nameserver_lookup_hash has returned. *)
Forwarded(s) ==
  /\ serv[s].pc = "forward" /\ req[s].pc = "done"
  /\ serv' = [serv EXCEPT ![s].pc = "answer", ![s].obj = req[s].got]
  /\ req' = [req EXCEPT ![s] = [pc |-> "idle", got |-> 0]]
  /\ UNCHANGED <<names, known>>

(* Mutant of Answer: a failed lookup is not answered. *)
Answer_silent(s, r) ==
  /\ serv[s].pc = "answer" /\ serv[s].peer = r /\ req[r].pc = "awaiting"
  /\ req' = IF serv[s].obj = 0 THEN req
            ELSE [req EXCEPT ![r] = [pc |-> "done", got |-> serv[s].obj]]
  /\ serv' = [serv EXCEPT ![s] = Waiting]
  /\ UNCHANGED <<names, known>>

(* The object is granted, or NAME_LOOKUP_FAILED sent, on the endpoint. *)
Answer(s, r) ==
  /\ serv[s].pc = "answer" /\ serv[s].peer = r /\ req[r].pc = "awaiting"
  /\ req' = [req EXCEPT ![r] = [pc |-> "done", got |-> serv[s].obj]]
  /\ serv' = [serv EXCEPT ![s] = Waiting]
  /\ UNCHANGED <<names, known>>

Serve(s) == \/ \E r \in Requester : \/ TakeBind(s, r)
                                    \/ handle_lookup(s, r)
                                    \/ Answer(s, r)
            \/ \E b \in Binds : handle_bind(s, b)
            \/ Forwarded(s)

Next == \/ \E b \in Binds : nameserver_bind(b)
        \/ \E l \in Lookups : nameserver_lookup(l)
        \/ \E s \in Server : Serve(s)
        \/ \E r \in Requester, s \in Server : TakeTemp(s, r)

Taken(r) == \E s \in Server : TakeTemp(s, r)

(* Servers keep running, whoever waits on a port is taken in its turn, and  *)
(* the programs that bind and the loops that look up get to run.  Each bind *)
(* is made once, so fairness to them all is fairness to each.               *)
Fairness ==
  /\ \A s \in Server : WF_vars(Serve(s))
  /\ \A r \in Lookups : SF_vars(Taken(r))
  /\ \A r \in {s \in Server : Up[s] # NoServer} : SF_vars(Taken(r))
  /\ SF_vars(\E b \in Binds : Taken(b))
  /\ WF_vars(\E b \in Binds : nameserver_bind(b))
  /\ \A l \in Lookups : WF_vars(nameserver_lookup(l))

Spec == Init /\ [][Next]_vars /\ Fairness

-----------------------------------------------------------------------------
(* Hashes, endpoints and control states are what they should be; no name is *)
(* in a table twice, and none is hidden behind the end marker: binding a    *)
(* name whose hash is 0 (bind_name) leaves the other names alone.           *)
TypeOK ==
  /\ names \in [Server -> [Slots -> [hash : Hash, endpoint : Endpoint \cup {0}]]]
  /\ serv \in [Server -> [pc : ServPC, peer : Requester \cup {NoServer},
                          hash : Hash, obj : Endpoint \cup {0}]]
  /\ req \in [Requester -> [pc : ReqPC, got : Endpoint \cup {0}]]
  /\ known \in [Requester -> {"nowhere", "here", "above"}]
  /\ \A s \in Server, i \in Slots : names[s][i].hash # 0 =>
       InUse(s, i) /\ \A j \in Slots : names[s][i].hash = names[s][j].hash => i = j

(* A lookup answers with an endpoint that was bound to this very name at    *)
(* its server or above it; an answer meant for one requester, forwarded     *)
(* through others, never reaches another.                                   *)
AnswersBound ==
  \A r \in Requester \ Binds : req[r].got # 0 =>
    \E b \in Binds : /\ b[1] \in Chain(Target(r))
                     /\ b[2] = HashOf(r) /\ b[3] = req[r].got
                     /\ req[b].pc = "done"

(* A lookup of a name that was bound when it started does not fail, and a   *)
(* server's own binding hides those above it, though binds and rebinds are  *)
(* served between the lookup's start and its answer.                        *)
BoundIsFound ==
  \A r \in Requester \ Binds : req[r].pc = "done" =>
    /\ known[r] # "nowhere" => req[r].got # 0
    /\ known[r] = "here" => <<Target(r), HashOf(r), req[r].got>> \in Binds

(* Together: what nameserver_lookup answers is right, at every moment and   *)
(* for every program and server on a chain.                            *)
LookupsRight == TypeOK /\ AnswersBound /\ BoundIsFound

(* Servers that wait on each other do not wait for ever: every request is   *)
(* answered.                                                                *)
RequestsEnd ==
  \A r \in Requester : req[r].pc \notin {"idle", "done"} ~> req[r].pc = "done"

(* A loop around a lookup ends if some program binds the name.              *)
LoopsFind ==
  \A l \in Lookups :
    (\E b \in Binds : b[1] \in Chain(l[1]) /\ b[2] = l[2] /\ l[2] # 0)
      => <>(req[l].got # 0)
=============================================================================
