------------------------------ MODULE Connman ------------------------------
(***************************************************************************)
(* libraries/c4rt/src/connman.c: connections between clients and a server  *)
(* (the file server is one).  To connect, a client grants the server a     *)
(* temporary endpoint and hands over, on it, the two queues and the page   *)
(* of the connection.  A call puts the request on one queue, tells the     *)
(* server's port that it is there, and waits for the answer on the other.  *)
(*                                                                         *)
(* A synchronous message is a rendezvous: the sender is blocked until the  *)
(* receiver takes it, so sending and receiving it are one step.  The       *)
(* asynchronous queues are the kernel's and hold what was sent, in order.  *)
(*                                                                         *)
(* A stray is a program that has the port but not the protocol: it may     *)
(* break off a handshake with a message of another type, and may announce  *)
(* requests that nobody made.                                              *)
(*                                                                         *)
(* Left out: a page that cannot be allocated or mapped (the assertions     *)
(* around both calls only print), and two clients given the same id.       *)
(***************************************************************************)
EXTENDS Integers, Sequences, FiniteSets

CONSTANTS Client,    \* the programs that talk to the port
          Strays,    \* those of them that need not keep to the protocol
          Id,        \* the client ids that c4rt_prng_u32 can give
          IdSpan,    \* how many there are: 2^32
          NoId,      \* a client id that is none of them: not connected
          MaxConns,  \* bound: how often each client connects
          MaxCalls   \* bound: how many calls it makes on a connection

ASSUME ClientAssumption == Strays \subseteq Client
ASSUME IdAssumption     == NoId \notin Id /\ IdSpan \in Nat \ {0} /\ Id \subseteq 0 .. IdSpan - 1
ASSUME BoundAssumption  == MaxConns \in Nat \ {0} /\ MaxCalls \in Nat

(* The objects a client makes for its n-th connection. *)
Object == Client \X (1 .. MaxConns) \X {"to", "from", "page"}
None == <<>>
Objects == Object \cup {None}

(* A request is the k-th of its connection; the answer to it has its name. *)
Request == Client \X (1 .. MaxConns) \X (1 .. MaxCalls)

VARIABLES client,   \* client -> [pc, n, id, calls, answer]
          server,   \* [pc, peer, conn, request]: the thread in server_listen
          tree,     \* the server's c4rt_conn_t structs, found by client id
          queue,    \* the asynchronous queues' contents
          jumbled,  \* whether the ids in the tree were ever out of order
          missed    \* history: the ids that were not found although in it

vars == <<client, server, tree, queue, jumbled, missed>>

Conn == [client_id : Id, async_to : Objects, async_from : Objects,
         ringbuf : Objects]
NoConn == [client_id |-> NoId, async_to |-> None, async_from |-> None,
           ringbuf |-> None]

Listening == [pc |-> "listen", peer |-> None, conn |-> NoConn, request |-> None]

c4rt_connman_server_init == server = Listening /\ tree = {} /\ jumbled = FALSE /\ missed = {}

(* andtree_compare takes the difference of two ids as an int.  Ids compare  *)
(* as an order, and a search finds what is there (AndTree), if all are less *)
(* than half of the span behind one of them; else three of them go round in *)
(* a circle, or two are each before the other, and what a search meets      *)
(* depends on how the tree was rotated.                                     *)
andtree_compare(ids) ==
  ids = {} \/ \E first \in ids : \A id \in ids : (id - first) % IdSpan < IdSpan \div 2

ClientIds == {conn.client_id : conn \in tree}

Init ==
  /\ c4rt_connman_server_init
  /\ client = [c \in Client |-> [pc |-> "idle", n |-> 0, id |-> NoId,
                                 calls |-> 0, answer |-> None]]
  /\ queue = [q \in Object |-> <<>>]

(* This client's own objects for the connection it is on. *)
Mine(c, kind) == <<c, client[c].n, kind>>

Goto(c, pc) == client' = [client EXCEPT ![c].pc = pc]

(* c sends on the server's port and the server, listening, takes it. *)
Port(c, pc) == client[c].pc = pc /\ server.pc = "listen"

(* c sends on the temporary endpoint that the server is waiting on. *)
Temp(c, pc, at) == client[c].pc = pc /\ server.pc = at /\ server.peer = c

-----------------------------------------------------------------------------
(* c4rt_connman_connect and handle_connect. *)

(* The queues and the page are made, then the temporary endpoint. *)
c4rt_connman_connect(c) ==
  /\ client[c].pc = "idle"
  /\ client[c].n < MaxConns
  /\ client' = [client EXCEPT ![c].pc = "granting", ![c].n = @ + 1,
                              ![c].calls = 0, ![c].answer = None]
  /\ UNCHANGED <<server, tree, queue, jumbled, missed>>

TakeTemp(c) ==
  /\ Port(c, "granting")
  /\ server' = [server EXCEPT !.pc = "connect", !.peer = c]
  /\ Goto(c, "connecting")
  /\ UNCHANGED <<tree, queue, jumbled, missed>>

(* A connect request: a new client struct under a random id.  That the id   *)
(* is not in use already is left to chance by the code.                     *)
TakeConnect(c, id) ==
  /\ Temp(c, "connecting", "connect")
  /\ id \notin ClientIds
  /\ LET conn == [NoConn EXCEPT !.client_id = id]
     IN  /\ tree' = tree \cup {conn}
         /\ server' = [server EXCEPT !.pc = "send_id", !.conn = conn]
  /\ jumbled' = (jumbled \/ ~andtree_compare(ClientIds \cup {id}))
  /\ Goto(c, "awaiting_id")
  /\ UNCHANGED <<queue, missed>>

SendId(c) ==
  /\ Temp(c, "awaiting_id", "send_id")
  /\ server' = [server EXCEPT !.pc = "grant_to"]
  /\ client' = [client EXCEPT ![c].pc = "grant_to",
                              ![c].id = server.conn.client_id]
  /\ UNCHANGED <<tree, queue, jumbled, missed>>

(* One of the three grants: the field of the struct it is stored in, and    *)
(* where both sides go on.                                                  *)
TakeGrant(c, at, kind, field, next) ==
  LET conn == [server.conn EXCEPT ![field] = Mine(c, kind)] IN
  /\ Temp(c, at, at)
  /\ tree' = (tree \ {server.conn}) \cup {conn}
  /\ server' = IF next = "connected" THEN Listening
               ELSE [server EXCEPT !.pc = next, !.conn = conn]
  /\ Goto(c, next)
  /\ UNCHANGED <<queue, jumbled, missed>>

(* Mutant of TakeGrants: the ends are not reversed. *)
TakeGrants_straight(c) ==
  \/ TakeGrant(c, "grant_to",   "to",   "async_to",   "grant_from")
  \/ TakeGrant(c, "grant_from", "from", "async_from", "grant_page")
  \/ TakeGrant(c, "grant_page", "page", "ringbuf",    "connected")

(* The ends are reversed in the server's struct. *)
TakeGrants(c) ==
  \/ TakeGrant(c, "grant_to",   "to",   "async_from", "grant_from")
  \/ TakeGrant(c, "grant_from", "from", "async_to",   "grant_page")
  \/ TakeGrant(c, "grant_page", "page", "ringbuf",    "connected")

(* Mutant of BreakOff: the server waits for the message it expected. *)
BreakOff_waits(c) ==
  /\ c \in Strays
  /\ \/ Temp(c, "connecting", "connect")
     \/ \E at \in {"grant_to", "grant_from", "grant_page"} : Temp(c, at, at)
  /\ Goto(c, "gone")
  /\ UNCHANGED <<server, tree, queue, jumbled, missed>>

(* error_out and error_preconn: a message of another type where a connect   *)
(* request or a grant was due.  A struct that is freed but was not found,   *)
(* and so is still in the tree, leaves the server in a "stale" state, where *)
(* it is left out.                                                          *)
BreakOff(c) ==
  /\ c \in Strays
  /\ \/ Temp(c, "connecting", "connect")
     \/ \E at \in {"grant_to", "grant_from", "grant_page"} : Temp(c, at, at)
  /\ \/ tree' = tree \ {server.conn} /\ server' = Listening
     \/ /\ jumbled /\ server.conn # NoConn
        /\ server' = [Listening EXCEPT !.pc = "stale"]
        /\ UNCHANGED tree
  /\ Goto(c, "gone")
  /\ UNCHANGED <<queue, jumbled, missed>>

-----------------------------------------------------------------------------
(* c4rt_connman_call, handle_new_message and the answer. *)

(* The request goes on the queue before the server is told. *)
c4rt_connman_send(c) ==
  /\ client[c].pc = "connected"
  /\ client[c].calls < MaxCalls
  /\ LET k == client[c].calls + 1
     IN  /\ queue' = [queue EXCEPT ![Mine(c, "to")] =
                        Append(@, <<c, client[c].n, k>>)]
         /\ client' = [client EXCEPT ![c].pc = "notifying", ![c].calls = k]
  /\ UNCHANGED <<server, tree, jumbled, missed>>

NewMessage(id) ==
  \/ id \notin ClientIds /\ UNCHANGED <<server, queue, missed>>
  \/ /\ id \in ClientIds /\ jumbled
     /\ missed' = missed \cup {id}
     /\ UNCHANGED <<server, queue>>
  \/ \E conn \in tree :
       /\ conn.client_id = id
       /\ UNCHANGED missed
       /\ IF queue[conn.async_from] = <<>>
          THEN UNCHANGED <<server, queue>>
          ELSE /\ server' = [server EXCEPT !.pc = "serve", !.conn = conn,
                               !.request = Head(queue[conn.async_from])]
               /\ queue' = [queue EXCEPT ![conn.async_from] = Tail(@)]

TakeNewMessage(c) ==
  /\ Port(c, "notifying")
  /\ NewMessage(client[c].id)
  /\ Goto(c, "awaiting")
  /\ UNCHANGED <<tree, jumbled>>

(* A stray announces a request: one that does not exist, or one whose       *)
(* sender has not got round to announcing it.                               *)
StrayNewMessage(id) ==
  /\ Strays # {}
  /\ server.pc = "listen"
  /\ NewMessage(id)
  /\ UNCHANGED <<client, tree, jumbled>>

(* The server answers each request once and listens again. *)
c4rt_connman_server_respond ==
  /\ server.pc = "serve"
  /\ queue' = [queue EXCEPT ![server.conn.async_to] = Append(@, server.request)]
  /\ server' = Listening
  /\ UNCHANGED <<client, tree, jumbled, missed>>

(* Mutant of c4rt_connman_recv: does not block. *)
recv_unblocked(c) ==
  LET q == Mine(c, "from") IN
  /\ client[c].pc = "awaiting"
  /\ client' = [client EXCEPT ![c].pc = "connected",
                 ![c].answer = IF queue[q] = <<>> THEN @ ELSE Head(queue[q])]
  /\ queue' = [queue EXCEPT ![q] = IF @ = <<>> THEN @ ELSE Tail(@)]
  /\ UNCHANGED <<server, tree, jumbled, missed>>

c4rt_connman_recv(c) ==
  LET q == Mine(c, "from") IN
  /\ client[c].pc = "awaiting"
  /\ queue[q] # <<>>
  /\ client' = [client EXCEPT ![c].pc = "connected", ![c].answer = Head(queue[q])]
  /\ queue' = [queue EXCEPT ![q] = Tail(@)]
  /\ UNCHANGED <<server, tree, jumbled, missed>>

-----------------------------------------------------------------------------
(* c4rt_connman_disconnect: the server only reports it and keeps its struct; *)
(* the client gives up its queues and its page.                              *)
c4rt_connman_disconnect(c) ==
  /\ client[c].pc = "connected"
  /\ Goto(c, "disconnecting")
  /\ UNCHANGED <<server, tree, queue, jumbled, missed>>

TakeDisconnect(c) ==
  /\ Port(c, "disconnecting")
  /\ client' = [client EXCEPT ![c].pc = "idle", ![c].id = NoId]
  /\ UNCHANGED <<server, tree, queue, jumbled, missed>>

-----------------------------------------------------------------------------
(* What happens to c on the port, and what then goes on by itself. *)
OnPort(c) == TakeTemp(c) \/ TakeNewMessage(c) \/ TakeDisconnect(c)

Handshake(c) == \/ \E id \in Id : TakeConnect(c, id)
                \/ SendId(c)
                \/ TakeGrants(c)

Next ==
  \/ \E c \in Client : \/ c4rt_connman_connect(c)
                       \/ c4rt_connman_send(c)
                       \/ c4rt_connman_recv(c)
                       \/ c4rt_connman_disconnect(c)
                       \/ OnPort(c)
                       \/ Handshake(c)
                       \/ BreakOff(c)
  \/ \E id \in Id : StrayNewMessage(id)
  \/ c4rt_connman_server_respond

(* The kernel serves everyone blocked on the port in turn, and a client in  *)
(* the middle of a connect or a call keeps running.                         *)
Fairness ==
  /\ WF_vars(c4rt_connman_server_respond)
  /\ \A c \in Client : /\ SF_vars(OnPort(c))
                       /\ WF_vars(Handshake(c))
                       /\ WF_vars(c4rt_connman_recv(c))

Spec == Init /\ [][Next]_vars /\ Fairness

-----------------------------------------------------------------------------
InCall == {"connected", "notifying", "awaiting", "disconnecting"}

(* The struct the server finds under a connected client's id holds that     *)
(* client's own objects, each at its place: the three grants carry no       *)
(* label, only their order tells the queues and the page apart, and structs *)
(* of ended connections stay in the tree.  Once the server listens again no *)
(* half-made struct is there: a client that breaks off leaves nothing to be *)
(* found by its id.                                                         *)
Paired ==
  /\ \A c \in Client : client[c].pc \in InCall =>
       {conn \in tree : conn.client_id = client[c].id} =
         {[client_id |-> client[c].id, async_from |-> Mine(c, "to"),
           async_to |-> Mine(c, "from"), ringbuf |-> Mine(c, "page")]}
  /\ server.pc \in {"listen", "serve"} =>
       \A conn \in tree : None \notin {conn.async_to, conn.async_from, conn.ringbuf}

(* A call returns the answer to its own request, whoever else is calling    *)
(* and however requests are announced.                                      *)
AnswersMatch ==
  \A c \in Client :
    /\ client[c].pc = "connected" /\ client[c].calls > 0
         => client[c].answer = <<c, client[c].n, client[c].calls>>
    /\ client[c].pc = "connected"
         => queue[Mine(c, "to")] = <<>> /\ queue[Mine(c, "from")] = <<>>
    /\ client[c].pc \in {"notifying", "awaiting"} =>
         Len(queue[Mine(c, "to")]) + Len(queue[Mine(c, "from")])
           + (IF server.pc = "serve" /\ server.conn.async_to = Mine(c, "from")
              THEN 1 ELSE 0) = 1

(* Every call returns and every connect ends, with a connection or with a   *)
(* stray breaking off, provided nobody leaves the server waiting on a       *)
(* temporary endpoint.  Only a search that went astray among ids out of     *)
(* order keeps a call waiting: the one that did not find this very client,  *)
(* or the one that left a freed struct in the tree.                         *)
CallsReturn ==
  \A c \in Client :
    /\ client[c].pc \in {"notifying", "awaiting"} ~>
         client[c].pc = "connected" \/ client[c].id \in missed \/ server.pc = "stale"
    /\ client[c].pc = "granting" ~>
         client[c].pc \in {"connected", "gone"} \/ server.pc = "stale"
=============================================================================
