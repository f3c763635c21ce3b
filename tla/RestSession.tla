---------------------------- MODULE RestSession -----------------------------
(***************************************************************************)
(* A REST request from accept to close: the session table of the web       *)
(* server (rest_session.c, rest_http_server.c), the queues and threads of  *)
(* the applications that answer (bst_main.c, system_utils_main.c), and the *)
(* JSON buffers they encode the answer in (bst_json_memory.c).             *)
(*                                                                         *)
(* The web thread serves one connection at a time up to the moment its     *)
(* request is in an application's queue.  The session stays in use and the *)
(* application thread that handles the message answers on the session's    *)
(* socket, closes it and releases the session.  No lock protects the       *)
(* session table.                                                          *)
(***************************************************************************)
EXTENDS Naturals, Sequences, FiniteSets

CONSTANTS
  NumSessions,  \* REST_MAX_SESSIONS
  Fds,          \* socket numbers the process can have open
  Clients,      \* collectors, one connection each at a time
  Apps,         \* the threads that answer: bst and system_utils
  QLen,         \* capacity of an application's queue
  NumSlices,    \* buffers of each JSON pool
  None,         \* no socket, no client, no session (a NULL cookie)
  MaxFaults     \* bound on the encoders that fail after they took a buffer

Slots == 1 .. NumSessions
Pools == {"response", "report"}

ASSUME SessionAssumption ==
  /\ NumSessions \in Nat \ {0}
  /\ QLen \in Nat \ {0}
  /\ NumSlices \in Nat \ {0}
  /\ None \notin Fds \cup Clients
  /\ None \notin Slots /\ None \notin Pools
  /\ MaxFaults \in Nat

VARIABLES
  sess,     \* rest.sessions: inUse and connectionFd
  conn,     \* whose connection a socket is, and the answers sent on it
  web,      \* where the web thread is, its fd and its sessionId
  queue,    \* the applications' message queues
  pc,       \* where each application thread is
  msg,      \* the message it handles
  held,     \* the pool its buffer is from
  used,     \* slices in use in each application's pools
  failed    \* history: encoders that failed with a buffer in hand

vars == <<sess, conn, web, queue, pc, msg, held, used, failed>>

\* a message carries its session as cookie, and its type decides the pool its
\* answer is encoded in; client is a history field
Message == [pool : Pools, slot : Slots \cup {None}, client : Clients \cup {None}]

NoPeer == [client |-> None, replies |-> 0]

NoMessage == [pool |-> "report", slot |-> None, client |-> None]

\* rest_sessions_init, bstjson_memory_init and empty queues
Init ==
  /\ sess = [s \in Slots |-> [inUse |-> FALSE, fd |-> None]]
  /\ conn = [f \in Fds |-> NoPeer]
  /\ web = [pc |-> "accept", fd |-> None, slot |-> None]
  /\ queue = [a \in Apps |-> <<>>]
  /\ pc = [a \in Apps |-> "recv"]
  /\ msg = [a \in Apps |-> NoMessage]
  /\ held = [a \in Apps |-> None]
  /\ used = [a \in Apps |-> [p \in Pools |-> 0]]
  /\ failed = 0

Connected(c) == \E f \in Fds : conn[f].client = c

\* send on a socket reaches whoever is at its other end
Answer(f) == conn' = [conn EXCEPT ![f].replies = @ + 1]
CloseFd(f) == conn' = [conn EXCEPT ![f] = NoPeer]

-----------------------------------------------------------------------------
(* The web thread: rest_process_http_request *)

Idle == [pc |-> "accept", fd |-> None, slot |-> None]

Accept ==
  /\ web.pc = "accept"
  /\ \E f \in Fds, c \in Clients :
       /\ conn[f] = NoPeer
       /\ ~Connected(c)
       /\ conn' = [conn EXCEPT ![f] = [client |-> c, replies |-> 0]]
       /\ web' = [pc |-> "alloc", fd |-> f, slot |-> None]
  /\ UNCHANGED <<sess, queue, pc, msg, held, used, failed>>

Free == {s \in Slots : ~sess[s].inUse}

\* mutant: the table is not searched for a session that is free
AllocateFirst ==
  /\ web.pc = "alloc"
  /\ sess' = [sess EXCEPT ![1] = [inUse |-> FALSE, fd |-> None]]
  /\ web' = [web EXCEPT !.pc = "read", !.slot = 1]
  /\ UNCHANGED <<conn, queue, pc, msg, held, used, failed>>

\* rest_allocate_session; without a free session the function returns and
\* leaves the socket open
AllocateSession ==
  /\ web.pc = "alloc"
  /\ \/ /\ Free = {}
        /\ web' = Idle
        /\ UNCHANGED sess
     \/ \E s \in Free :
          /\ \A t \in Free : s <= t
          /\ sess' = [sess EXCEPT ![s] = [inUse |-> FALSE, fd |-> None]]
          /\ web' = [web EXCEPT !.pc = "read", !.slot = s]
  /\ UNCHANGED <<conn, queue, pc, msg, held, used, failed>>

\* the select and read loop ends with an error, or after two silent seconds
ReadRequest ==
  /\ web.pc = "read"
  /\ \/ /\ CloseFd(web.fd)
        /\ web' = Idle
        /\ UNCHANGED sess
     \/ /\ sess' = [sess EXCEPT ![web.slot].fd = web.fd]
        /\ web' = [web EXCEPT !.pc = "parse"]
        /\ UNCHANGED conn
  /\ UNCHANGED <<queue, pc, msg, held, used, failed>>

\* the error exits: an answer, then close and inUse = false
Refuse ==
  /\ Answer(web.fd)
  /\ web' = [web EXCEPT !.pc = "close"]

EndSession ==
  /\ web.pc = "close"
  /\ CloseFd(web.fd)
  /\ sess' = [sess EXCEPT ![web.slot].inUse = FALSE]
  /\ web' = Idle
  /\ UNCHANGED <<queue, pc, msg, held, used, failed>>

\* rest_parse_http_request_to_session
ParseRequest ==
  /\ web.pc = "parse"
  /\ \/ Refuse /\ UNCHANGED sess
     \/ /\ sess' = [sess EXCEPT ![web.slot].inUse = TRUE]
        /\ web' = [web EXCEPT !.pc = "dispatch"]
        /\ UNCHANGED conn
  /\ UNCHANGED <<queue, pc, msg, held, used, failed>>

\* mutant: the queue takes one message too many
AcceptsOneMore(q) == Len(q) <= QLen

\* msgsnd with IPC_NOWAIT
HasRoom(q) == Len(q) < QLen

\* mutant: the handler reports success when the queue refused the message
DispatchIgnoresFull ==
  /\ web.pc = "dispatch"
  /\ \E a \in Apps, p \in Pools :
       LET m == [pool |-> p, slot |-> web.slot, client |-> conn[web.fd].client] IN
         queue' = IF HasRoom(queue[a]) THEN [queue EXCEPT ![a] = Append(@, m)] ELSE queue
  /\ web' = Idle
  /\ UNCHANGED <<sess, conn, pc, msg, held, used, failed>>

\* no handler is registered, the handler refuses the request or its queue is
\* full; or the message is posted and the session kept
Dispatch ==
  /\ web.pc = "dispatch"
  /\ \/ Refuse /\ UNCHANGED queue
     \/ \E a \in Apps, p \in Pools :
          /\ HasRoom(queue[a])
          /\ queue' = [queue EXCEPT ![a] =
               Append(@, [pool |-> p, slot |-> web.slot, client |-> conn[web.fd].client])]
          /\ web' = Idle
          /\ UNCHANGED conn
  /\ UNCHANGED <<sess, pc, msg, held, used, failed>>

-----------------------------------------------------------------------------
(* The application threads *)

\* a trigger, the collection timer or a configuration change: messages that
\* nobody waits for
PostInternal(a) ==
  /\ HasRoom(queue[a])
  /\ queue' = [queue EXCEPT ![a] = Append(@, NoMessage)]
  /\ UNCHANGED <<sess, conn, web, pc, msg, held, used, failed>>

\* what bst_app_main and bst_send_response do once the handler returned: an
\* unknown unit, a failed handler and a set are answered without data
AfterHandler(m) == {"encode", IF m.slot = None THEN "recv" ELSE "reply"}

\* mutant: msgrcv with a message type takes the first message of that type
ReceiveByType(a) ==
  /\ pc[a] = "recv"
  /\ \E i \in DOMAIN queue[a] :
       /\ queue' = [queue EXCEPT ![a] = SubSeq(@, 1, i - 1) \o SubSeq(@, i + 1, Len(@))]
       /\ pc' = [pc EXCEPT ![a] = "encode"]
       /\ msg' = [msg EXCEPT ![a] = queue[a][i]]
  /\ UNCHANGED <<sess, conn, web, held, used, failed>>

\* msgrcv without a message type: the first message
Receive(a) ==
  /\ pc[a] = "recv"
  /\ queue[a] # <<>>
  /\ queue' = [queue EXCEPT ![a] = Tail(@)]
  /\ \E next \in AfterHandler(Head(queue[a])) :
       /\ pc' = [pc EXCEPT ![a] = next]
       /\ msg' = [msg EXCEPT ![a] = IF next = "recv" THEN NoMessage ELSE Head(queue[a])]
  /\ UNCHANGED <<sess, conn, web, held, used, failed>>

\* the thread is back at msgrcv
Done(a) ==
  /\ pc' = [pc EXCEPT ![a] = "recv"]
  /\ msg' = [msg EXCEPT ![a] = NoMessage]

\* the encoder allocates a buffer and fills it.  When it fails, with or
\* without a buffer, bst_send_response sees a null pointer: it writes a log
\* line and returns.
Encode(a) ==
  /\ pc[a] = "encode"
  /\ LET p == msg[a].pool IN
       \/ /\ used[a][p] = NumSlices
          /\ Done(a)
          /\ UNCHANGED <<held, used, failed>>
       \/ /\ used[a][p] < NumSlices
          /\ used' = [used EXCEPT ![a][p] = @ + 1]
          /\ \/ /\ held' = [held EXCEPT ![a] = p]
                /\ pc' = [pc EXCEPT ![a] = "reply"]
                /\ UNCHANGED <<msg, failed>>
             \/ /\ failed < MaxFaults
                /\ Done(a)
                /\ failed' = failed + 1
                /\ UNCHANGED held
  /\ UNCHANGED <<sess, conn, web, queue>>

\* mutant: the session is released before its socket is closed
ReplyReleasesEarly(a) ==
  /\ pc[a] = "reply"
  /\ \/ /\ msg[a].slot = None
        /\ pc' = [pc EXCEPT ![a] = "free"]
        /\ UNCHANGED <<sess, conn>>
     \/ /\ msg[a].slot # None
        /\ Answer(sess[msg[a].slot].fd)
        /\ sess' = [sess EXCEPT ![msg[a].slot].inUse = FALSE]
        /\ pc' = [pc EXCEPT ![a] = "close"]
  /\ UNCHANGED <<web, queue, msg, held, used, failed>>

\* rest_response_send, rest_response_send_ok and rest_response_send_error: an
\* answer without a session goes to the collector on a socket of its own
Reply(a) ==
  /\ pc[a] = "reply"
  /\ \/ /\ msg[a].slot = None
        /\ pc' = [pc EXCEPT ![a] = "free"]
        /\ UNCHANGED conn
     \/ /\ msg[a].slot # None
        /\ Answer(sess[msg[a].slot].fd)
        /\ pc' = [pc EXCEPT ![a] = "close"]
  /\ UNCHANGED <<sess, web, queue, msg, held, used, failed>>

Close(a) ==
  /\ pc[a] = "close"
  /\ CloseFd(sess[msg[a].slot].fd)
  /\ pc' = [pc EXCEPT ![a] = "release"]
  /\ UNCHANGED <<sess, web, queue, msg, held, used, failed>>

\* mutant: the buffer is forgotten once the answer has been sent
ReleaseKeepsBuffer(a) ==
  /\ pc[a] = "release"
  /\ sess' = [sess EXCEPT ![msg[a].slot].inUse = FALSE]
  /\ held' = [held EXCEPT ![a] = None]
  /\ Done(a)
  /\ UNCHANGED <<conn, web, queue, used, failed>>

Release(a) ==
  /\ pc[a] = "release"
  /\ sess' = [sess EXCEPT ![msg[a].slot].inUse = FALSE]
  /\ \/ held[a] = None /\ Done(a)
     \/ held[a] # None /\ pc' = [pc EXCEPT ![a] = "free"] /\ UNCHANGED msg
  /\ UNCHANGED <<conn, web, queue, held, used, failed>>

\* bstjson_memory_free
FreeBuffer(a) ==
  /\ pc[a] = "free"
  /\ used' = [used EXCEPT ![a][held[a]] = @ - 1]
  /\ held' = [held EXCEPT ![a] = None]
  /\ Done(a)
  /\ UNCHANGED <<sess, conn, web, queue, failed>>

-----------------------------------------------------------------------------
Web == AllocateSession \/ ReadRequest \/ ParseRequest \/ Dispatch \/ EndSession

App(a) ==
  \/ Receive(a)
  \/ Encode(a)
  \/ Reply(a)
  \/ Close(a)
  \/ Release(a)
  \/ FreeBuffer(a)

Next ==
  \/ Accept
  \/ Web
  \/ \E a \in Apps : PostInternal(a) \/ App(a)

Spec == Init /\ [][Next]_vars

\* the threads are scheduled; no client has to connect
Fairness == WF_vars(Web) /\ \A a \in Apps : WF_vars(App(a))

FairSpec == Spec /\ Fairness

-----------------------------------------------------------------------------
(* Properties *)

\* Every variable has its type, and neither a queue nor a pool exceeds its
\* capacity.
TypeOK ==
  /\ sess \in [Slots -> [inUse : BOOLEAN, fd : Fds \cup {None}]]
  /\ conn \in [Fds -> [client : Clients \cup {None}, replies : Nat]]
  /\ web \in [pc : {"accept", "alloc", "read", "parse", "dispatch", "close"},
              fd : Fds \cup {None}, slot : Slots \cup {None}]
  /\ \A a \in Apps : queue[a] \in Seq(Message) /\ Len(queue[a]) <= QLen
  /\ pc \in [Apps -> {"recv", "encode", "reply", "close", "release", "free"}]
  /\ msg \in [Apps -> Message]
  /\ held \in [Apps -> Pools \cup {None}]
  /\ used \in [Apps -> [Pools -> 0 .. NumSlices]]
  /\ failed \in 0 .. MaxFaults

\* requests that have been posted and whose socket is still to be closed
Outstanding(a) ==
  {m \in {queue[a][i] : i \in DOMAIN queue[a]} : m.slot # None}
    \cup {m \in {msg[a]} : m.slot # None /\ pc[a] \in {"encode", "reply", "close"}}

\* The session an application thread holds as its cookie still leads to the
\* connection the request came from, although the web thread takes sessions
\* and the kernel reuses socket numbers meanwhile, with no lock: close comes
\* before inUse = false in rest_response_send and its siblings.
CookieValid ==
  \A a \in Apps : \A m \in Outstanding(a) :
    LET fd == sess[m.slot].fd IN fd \in Fds /\ conn[fd].client = m.client

\* Exactly one answer goes out on a connection before either thread closes
\* it, the failed reads of rest_process_http_request excepted.
AnsweredOnce ==
  [][\A f \in Fds : conn[f] # NoPeer /\ conn'[f] = NoPeer =>
       conn[f].replies = 1 \/ (web.pc = "read" /\ web.fd = f)]_vars

\* A session in use is released: whatever a handler or a full queue makes of
\* the request, the session returns to the table (rest_response_send: "if
\* input is not valid, we still need to clean up session, if valid").  Only an
\* encoder that fails keeps it: bst_send_response then returns.
SessionReleased ==
  \A s \in Slots : sess[s].inUse ~> ~sess[s].inUse \/ failed > 0

\* A slice that is in use is one an application thread is about to free
\* (bst_send_response: "Can happen that memory is allocated, but the encoding
\* failed.. in that case also free the json buffer"), as long as no encoder
\* has failed; one that takes a buffer never finds the pool exhausted by others.
NoSliceLost ==
  failed = 0 => \A a \in Apps, p \in Pools : used[a][p] = IF held[a] = p THEN 1 ELSE 0

\* sessions whose request an application has in its queue or in hand
SlotsOf(a) ==
  {queue[a][i].slot : i \in DOMAIN queue[a]}
    \cup (IF pc[a] \in {"encode", "reply", "close", "release"} THEN {msg[a].slot} ELSE {})

\* A session in use is one that the web thread or an application is about to
\* release, on every error path of the handlers and of bst_app_main, as long as
\* no encoder has failed: a session that nobody knows of is lost for ever.
NoSessionLost ==
  failed = 0 => \A s \in Slots : sess[s].inUse =>
    \/ web.pc \in {"dispatch", "close"} /\ web.slot = s
    \/ \E a \in Apps : s \in SlotsOf(a)

\* the daemon as its clients see it
Caller(m) == IF m.slot = None THEN None ELSE m.client
Talking == IF web.pc = "accept" THEN None ELSE conn[web.fd].client
Replies == [c \in Clients |->
  IF Connected(c) THEN conn[CHOOSE f \in Fds : conn[f].client = c].replies ELSE None]
Callers(q) == [i \in DOMAIN q |-> Caller(q[i])]
Line == [a \in Apps |-> Callers(queue[a])]
Serving == [a \in Apps |->
  IF pc[a] \in {"encode", "reply", "close"} THEN Caller(msg[a]) ELSE None]
Releasing == {a \in Apps : pc[a] = "release"}

Api == INSTANCE RestApi WITH
  talking <- Talking, answers <- Replies, line <- Line, serving <- Serving,
  releasing <- Releasing, faulty <- (failed > 0)

\* The sessions, sockets and queues implement the API: although the web thread
\* and the applications share sessions and socket numbers without a lock, a
\* request is answered once, to its own client, in its turn.
ImplementsApi == Api!Spec
=============================================================================
