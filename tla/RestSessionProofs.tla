-------------------------- MODULE RestSessionProofs --------------------------
(***************************************************************************)
(* What holds of RestSession for every number of sessions, sockets,        *)
(* clients, applications, queue entries and buffers.                       *)
(*                                                                         *)
(* A request that an application has accepted is a job: the messages in    *)
(* its queue and the one it handles.  The proof numbers an application's   *)
(* jobs, 0 for the one it handles, and shows that no two jobs have the     *)
(* same session or the same open socket, and that none has the web         *)
(* thread's.                                                               *)
(***************************************************************************)
EXTENDS RestSession, SequenceTheorems, TLAPS

\* where a thread still holds its message's session
Busy == {"encode", "reply", "close", "release"}

\* where the web thread has taken a session
Taken == {"read", "parse", "dispatch", "close"}

Places(a) == 0 .. Len(queue[a])

Job(a, i) ==
  IF i = 0 THEN IF pc[a] \in Busy THEN msg[a] ELSE NoMessage
  ELSE queue[a][i]

Slot(a, i) == Job(a, i).slot

\* the job's socket is still to be closed
Open(a, i) == Slot(a, i) # None /\ (i = 0 => pc[a] # "release")

Fd(a, i) == sess[Slot(a, i)].fd

Answered(a, i) == i = 0 /\ pc[a] = "close"

QueueFits == queue \in [Apps -> Seq(Message)]

\* Where a thread is tells whether it holds a buffer and a session.
BuffersFit ==
  \A a \in Apps :
    /\ pc[a] \in {"recv", "encode"} => held[a] = None
    /\ pc[a] = "free" => held[a] # None
    /\ pc[a] = "reply" /\ msg[a].slot = None => held[a] # None
    /\ pc[a] \in {"close", "release"} => msg[a].slot # None
    /\ held[a] # None => used[a][held[a]] >= 1

\* The web thread has a socket of a client's, and sends one answer at most.
WebFits ==
  /\ web.pc # "accept" =>
       /\ web.fd \in Fds
       /\ conn[web.fd].client \in Clients
       /\ conn[web.fd].replies = IF web.pc = "close" THEN 1 ELSE 0
  /\ web.pc \in Taken => web.slot \in Slots
  /\ web.pc \in {"parse", "dispatch"} => sess[web.slot].fd = web.fd
  /\ web.pc = "dispatch" => sess[web.slot].inUse

\* A job's session is in use and the web thread has another.
SlotsOwned ==
  \A a \in Apps : \A i \in Places(a) : Slot(a, i) # None =>
    /\ sess[Slot(a, i)].inUse
    /\ web.pc \in Taken => web.slot # Slot(a, i)

SlotsApart ==
  \A a, b \in Apps : \A i \in Places(a), j \in Places(b) :
    Slot(a, i) # None /\ Slot(a, i) = Slot(b, j) => a = b /\ i = j

\* A job's socket is the one its client has connected to.
OpenFits ==
  \A a \in Apps : \A i \in Places(a) : Open(a, i) =>
    /\ Fd(a, i) \in Fds
    /\ Job(a, i).client \in Clients
    /\ conn[Fd(a, i)].client = Job(a, i).client
    /\ conn[Fd(a, i)].replies = IF Answered(a, i) THEN 1 ELSE 0
    /\ web.pc # "accept" => web.fd # Fd(a, i)

FdsApart ==
  \A a, b \in Apps : \A i \in Places(a), j \in Places(b) :
    Open(a, i) /\ Open(b, j) /\ Fd(a, i) = Fd(b, j) => a = b /\ i = j

JobsFit == SlotsOwned /\ SlotsApart /\ OpenFits /\ FdsApart

RestInv ==
  TypeOK /\ QueueFits /\ BuffersFit /\ NoSliceLost /\ WebFits /\ JobsFit

-----------------------------------------------------------------------------
(* Types *)

SessType ==
  /\ sess \in [Slots -> [inUse : BOOLEAN, fd : Fds \cup {None}]]
  /\ conn \in [Fds -> [client : Clients \cup {None}, replies : Nat]]
  /\ web \in [pc : {"accept", "alloc", "read", "parse", "dispatch", "close"},
              fd : Fds \cup {None}, slot : Slots \cup {None}]

QueueType ==
  /\ QueueFits
  /\ \A a \in Apps : queue[a] \in Seq(Message) /\ Len(queue[a]) <= QLen

AppType ==
  /\ pc \in [Apps -> {"recv", "encode", "reply", "close", "release", "free"}]
  /\ msg \in [Apps -> Message]
  /\ held \in [Apps -> Pools \cup {None}]
  /\ used \in [Apps -> [Pools -> 0 .. NumSlices]]
  /\ failed \in 0 .. MaxFaults

\* The types, by the threads that write them.
LEMMA Types == TypeOK /\ QueueFits <=> SessType /\ QueueType /\ AppType
  BY Zenon DEF TypeOK, SessType, QueueType, AppType

\* The message an idle application thread holds.
LEMMA NoMessageType == NoMessage \in Message
  BY DEF NoMessage, Message, Pools

\* RestInv holds at the start.
LEMMA RestInit == Init => RestInv
<1> SUFFICES ASSUME Init PROVE RestInv
    OBVIOUS
<1> USE SessionAssumption DEF Init
<1>1. SessType
  BY DEF SessType, NoPeer
<1>2. QueueType
  BY DEF QueueType, QueueFits
<1>3. AppType
  BY NoMessageType DEF AppType
<1>4. BuffersFit /\ NoSliceLost
  BY DEF BuffersFit, NoSliceLost, Pools
<1>5. WebFits
  BY DEF WebFits, Taken
<1>6. \A a \in Apps : \A i \in Places(a) : Slot(a, i) = None
  BY DEF Places, Slot, Job, Busy, NoMessage
<1>7. JobsFit
  BY <1>6 DEF JobsFit, SlotsOwned, SlotsApart, OpenFits, FdsApart, Open
<1> QED
  BY <1>1, <1>2, <1>3, <1>4, <1>5, <1>7, Types DEF RestInv

-----------------------------------------------------------------------------
(* Buffers *)

\* An application thread that takes a buffer frees it, unless the encoder
\* fails in between.
LEMMA BuffersStep ==
  ASSUME QueueType, AppType, BuffersFit, NoSliceLost,
         NEW a \in Apps, App(a)
  PROVE  AppType' /\ BuffersFit' /\ NoSliceLost'
<1> USE DEF AppType, BuffersFit, NoSliceLost
<1>1. CASE Receive(a)
  <2>1. Head(queue[a]) \in Message
    BY <1>1 DEF Receive, QueueType
  <2>2. PICK next \in AfterHandler(Head(queue[a])) :
          /\ pc' = [pc EXCEPT ![a] = next]
          /\ msg' = [msg EXCEPT ![a] = IF next = "recv" THEN NoMessage ELSE Head(queue[a])]
    BY <1>1 DEF Receive
  <2>3. pc[a] = "recv" /\ UNCHANGED <<held, used, failed>>
    BY <1>1 DEF Receive
  <2>4. \/ next \in {"recv", "encode"}
        \/ next = "reply" /\ Head(queue[a]).slot # None
    BY <2>2 DEF AfterHandler
  <2>5. AppType'
    BY <2>1, <2>2, <2>3, <2>4, NoMessageType
  <2> QED
    BY <2>1, <2>2, <2>3, <2>4, <2>5
<1>2. CASE Encode(a)
  <2> DEFINE p == msg[a].pool
  <2>1. p \in Pools /\ p # None /\ pc[a] = "encode" /\ held[a] = None
    BY <1>2, SessionAssumption DEF Encode, Message
  <2>2. CASE Done(a) /\ UNCHANGED <<held, used, failed>>
    BY <2>1, <2>2, NoMessageType DEF Done
  <2>3. CASE /\ used[a][p] < NumSlices
             /\ used' = [used EXCEPT ![a][p] = @ + 1]
             /\ held' = [held EXCEPT ![a] = p]
             /\ pc' = [pc EXCEPT ![a] = "reply"]
             /\ UNCHANGED <<msg, failed>>
    BY <2>1, <2>3, SessionAssumption
  <2>4. CASE /\ used[a][p] < NumSlices
             /\ used' = [used EXCEPT ![a][p] = @ + 1]
             /\ failed < MaxFaults
             /\ Done(a)
             /\ failed' = failed + 1
             /\ UNCHANGED held
    BY <2>1, <2>4, SessionAssumption, NoMessageType DEF Done
  <2> QED
    BY <1>2, <2>2, <2>3, <2>4 DEF Encode
<1>3. CASE Reply(a)
  <2>1. /\ pc[a] = "reply" /\ UNCHANGED <<msg, held, used, failed>>
        /\ \/ msg[a].slot = None /\ pc' = [pc EXCEPT ![a] = "free"]
           \/ msg[a].slot # None /\ pc' = [pc EXCEPT ![a] = "close"]
    BY <1>3 DEF Reply
  <2>2. AppType'
    BY <2>1
  <2>3. BuffersFit' /\ NoSliceLost'
    BY <2>1
  <2> QED
    BY <2>2, <2>3
<1>4. CASE Close(a)
  <2>1. /\ pc[a] = "close" /\ UNCHANGED <<msg, held, used, failed>>
        /\ pc' = [pc EXCEPT ![a] = "release"]
    BY <1>4 DEF Close
  <2> QED
    BY <2>1
<1>5. CASE Release(a)
  <2>1. pc[a] = "release" /\ UNCHANGED <<held, used, failed>>
    BY <1>5 DEF Release
  <2>2. CASE held[a] = None /\ Done(a)
    <3>1. AppType'
      BY <2>1, <2>2, NoMessageType DEF Done
    <3>2. BuffersFit' /\ NoSliceLost'
      BY <2>1, <2>2 DEF Done
    <3> QED
      BY <3>1, <3>2
  <2>3. CASE held[a] # None /\ pc' = [pc EXCEPT ![a] = "free"] /\ UNCHANGED msg
    BY <2>1, <2>3
  <2> QED
    BY <1>5, <2>2, <2>3 DEF Release
<1>6. CASE FreeBuffer(a)
  BY <1>6, SessionAssumption, NoMessageType DEF FreeBuffer, Done
<1> QED
  BY <1>1, <1>2, <1>3, <1>4, <1>5, <1>6 DEF App

-----------------------------------------------------------------------------
(* Queues *)

\* A message that is posted comes after the others.
LEMMA AppendStep ==
  ASSUME QueueType, NEW a \in Apps, NEW m \in Message, HasRoom(queue[a]),
         queue' = [queue EXCEPT ![a] = Append(@, m)]
  PROVE  /\ QueueType'
         /\ Len(queue'[a]) = Len(queue[a]) + 1
         /\ \A b \in Apps : b # a => queue'[b] = queue[b]
         /\ \A i \in 1 .. Len(queue[a]) : queue'[a][i] = queue[a][i]
         /\ queue'[a][Len(queue[a]) + 1] = m
<1>1. queue'[a] = Append(queue[a], m) /\ queue[a] \in Seq(Message)
  BY DEF QueueType, QueueFits
<1>2. \A b \in Apps : b # a => queue'[b] = queue[b]
  BY DEF QueueType, QueueFits
<1>3. /\ queue'[a] \in Seq(Message)
      /\ Len(queue'[a]) = Len(queue[a]) + 1
      /\ \A i \in 1 .. Len(queue[a]) : queue'[a][i] = queue[a][i]
      /\ queue'[a][Len(queue[a]) + 1] = m
  BY <1>1
<1>4. \A b \in Apps : queue'[b] \in Seq(Message) /\ Len(queue'[b]) <= QLen
  BY <1>2, <1>3, SessionAssumption DEF QueueType, QueueFits, HasRoom
<1>5. QueueFits'
  BY <1>3 DEF QueueType, QueueFits
<1> QED
  BY <1>2, <1>3, <1>4, <1>5 DEF QueueType

\* What is left of a queue when its first message is taken.
LEMMA TailFacts ==
  ASSUME NEW S, NEW q \in Seq(S), q # <<>>
  PROVE  /\ Tail(q) \in Seq(S)
         /\ Len(q) \in Nat \ {0} /\ Len(Tail(q)) = Len(q) - 1
         /\ \A i \in 1 .. Len(Tail(q)) : Tail(q)[i] = q[i + 1]
         /\ Head(q) = q[1] /\ Head(q) \in S
<1>1. Len(q) \in Nat \ {0}
  OBVIOUS
<1>2. Head(q) \in S /\ Tail(q) \in Seq(S) /\ Len(Tail(q)) = Len(q) - 1
        /\ \A i \in 1 .. Len(Tail(q)) : Tail(q)[i] = q[i + 1]
  BY HeadTailProperties
<1>3. Head(q) = q[1]
  OBVIOUS
<1> QED
  BY <1>1, <1>2, <1>3

\* A message that is received leaves the others, one place nearer.
LEMMA TailStep ==
  ASSUME QueueType, NEW a \in Apps, queue[a] # <<>>,
         queue' = [queue EXCEPT ![a] = Tail(@)]
  PROVE  /\ QueueType'
         /\ Len(queue[a]) \in Nat \ {0} /\ Len(queue'[a]) = Len(queue[a]) - 1
         /\ \A b \in Apps : b # a => queue'[b] = queue[b]
         /\ \A i \in 1 .. Len(queue'[a]) : queue'[a][i] = queue[a][i + 1]
         /\ Head(queue[a]) = queue[a][1] /\ Head(queue[a]) \in Message
<1>1. queue'[a] = Tail(queue[a]) /\ queue[a] \in Seq(Message) /\ queue[a] # <<>>
  BY DEF QueueType, QueueFits
<1>2. \A b \in Apps : b # a => queue'[b] = queue[b]
  BY DEF QueueType, QueueFits
<1>3. /\ queue'[a] \in Seq(Message)
      /\ Len(queue[a]) \in Nat \ {0} /\ Len(queue'[a]) = Len(queue[a]) - 1
      /\ \A i \in 1 .. Len(queue'[a]) : queue'[a][i] = queue[a][i + 1]
      /\ Head(queue[a]) = queue[a][1] /\ Head(queue[a]) \in Message
  <2> DEFINE q == queue[a]
  <2>1. q \in Seq(Message) /\ q # <<>>
    BY <1>1
  <2> HIDE DEF q
  <2>2. /\ Tail(q) \in Seq(Message)
        /\ Len(q) \in Nat \ {0} /\ Len(Tail(q)) = Len(q) - 1
        /\ \A i \in 1 .. Len(Tail(q)) : Tail(q)[i] = q[i + 1]
        /\ Head(q) = q[1] /\ Head(q) \in Message
    BY <2>1, TailFacts, Zenon
  <2>3. queue'[a] = Tail(q)
    BY <1>1 DEF q
  <2> QED
    BY <2>2, <2>3, Zenon DEF q
<1>4. \A b \in Apps : queue'[b] \in Seq(Message) /\ Len(queue'[b]) <= QLen
  BY <1>2, <1>3, SessionAssumption DEF QueueType, QueueFits
<1>5. QueueFits'
  BY <1>3 DEF QueueType, QueueFits
<1> QED
  BY <1>2, <1>3, <1>4, <1>5 DEF QueueType

-----------------------------------------------------------------------------
(* Jobs *)

\* A step that adds no job and moves none: what it changes of the sessions and
\* the sockets of the jobs that stay.
LEMMA JobsStay ==
  ASSUME JobsFit,
         \A a \in Apps : \A i \in Places(a)' :
           Slot(a, i)' # None =>
             /\ i \in Places(a)
             /\ Job(a, i)' = Job(a, i)
             /\ sess'[Slot(a, i)].inUse
             /\ web'.pc \in Taken => web'.slot # Slot(a, i),
         \A a \in Apps : \A i \in Places(a)' :
           Open(a, i)' =>
             /\ Open(a, i)
             /\ sess'[Slot(a, i)].fd = Fd(a, i)
             /\ conn'[Fd(a, i)].client = conn[Fd(a, i)].client
             /\ conn'[Fd(a, i)].replies = IF Answered(a, i)' THEN 1 ELSE 0
             /\ web'.pc # "accept" => web'.fd # Fd(a, i)
  PROVE  JobsFit'
<1>1. \A a \in Apps : \A i \in Places(a)' :
        Slot(a, i)' # None => i \in Places(a) /\ Slot(a, i)' = Slot(a, i)
  BY DEF Slot
<1>2. \A a \in Apps : \A i \in Places(a)' :
        Open(a, i)' => i \in Places(a) /\ Slot(a, i)' = Slot(a, i) /\ Fd(a, i)' = Fd(a, i)
  BY <1>1 DEF Open, Fd
<1>3. SlotsOwned'
  BY <1>1 DEF SlotsOwned
<1>4. SlotsApart'
  BY <1>1 DEF JobsFit, SlotsApart
<1>5. OpenFits'
  BY <1>1, <1>2 DEF JobsFit, OpenFits, Open
<1>6. FdsApart'
  BY <1>1, <1>2 DEF JobsFit, FdsApart
<1> QED
  BY <1>3, <1>4, <1>5, <1>6 DEF JobsFit

\* A job is a message, and its slot one of the session table.
LEMMA JobType ==
  ASSUME QueueType, AppType
  PROVE  \A a \in Apps : \A i \in Places(a) :
           /\ Job(a, i) \in Message
           /\ Slot(a, i) \in Slots \cup {None}
<1> SUFFICES ASSUME NEW a \in Apps, NEW i \in Places(a)
             PROVE  Job(a, i) \in Message
    BY DEF Slot, Message
<1>1. CASE i = 0
  BY <1>1, NoMessageType DEF AppType, Job
<1>2. CASE i # 0
  <2>1. queue[a] \in Seq(Message) /\ i \in 1 .. Len(queue[a])
    BY <1>2 DEF QueueType, Places
  <2> QED
    BY <1>2, <2>1 DEF Job
<1> QED
  BY <1>1, <1>2

\* The web thread alone: a socket that Accept opens is no job's, and neither is
\* a session that AllocateSession takes.
LEMMA WebStep ==
  ASSUME SessType, QueueType, AppType, WebFits, JobsFit,
         Accept \/ AllocateSession \/ ReadRequest \/ ParseRequest \/ EndSession
  PROVE  SessType' /\ WebFits' /\ JobsFit'
<1>1. /\ UNCHANGED <<queue, pc, msg>>
      /\ UNCHANGED <<held, used, failed>>
  BY DEF Accept, AllocateSession, ReadRequest, ParseRequest, EndSession
<1>2. \A a \in Apps : \A i \in Nat :
        /\ Places(a)' = Places(a) /\ Job(a, i)' = Job(a, i) /\ Slot(a, i)' = Slot(a, i)
        /\ Open(a, i)' = Open(a, i) /\ Answered(a, i)' = Answered(a, i)
  BY <1>1 DEF Places, Job, Slot, Open, Answered
<1>3. \A a \in Apps : \A i \in Places(a) :
        /\ i \in Nat
        /\ Slot(a, i) # None =>
             /\ Slot(a, i) \in Slots
             /\ sess[Slot(a, i)].inUse
             /\ web.pc \in Taken => web.slot # Slot(a, i)
        /\ Open(a, i) =>
             /\ Slot(a, i) # None
             /\ Fd(a, i) \in Fds /\ Fd(a, i) = sess[Slot(a, i)].fd
             /\ conn[Fd(a, i)].client # None
             /\ conn[Fd(a, i)].replies = IF Answered(a, i) THEN 1 ELSE 0
             /\ web.pc # "accept" => web.fd # Fd(a, i)
  BY JobType, SessionAssumption DEF JobsFit, SlotsOwned, OpenFits, Open, Fd, Places
<1> DEFINE Kept == \A a \in Apps : \A i \in Places(a) :
      /\ Slot(a, i) # None =>
           /\ sess'[Slot(a, i)] = sess[Slot(a, i)]
           /\ web'.pc \in Taken => web'.slot # Slot(a, i)
      /\ Open(a, i) =>
           /\ conn'[Fd(a, i)] = conn[Fd(a, i)]
           /\ web'.pc # "accept" => web'.fd # Fd(a, i)
<1>4. Kept => JobsFit'
  BY <1>2, <1>3, JobsStay
<1> HIDE DEF Kept
<1>5. CASE Accept
  <2>1. PICK f \in Fds, c \in Clients :
          /\ conn[f] = NoPeer
          /\ conn' = [conn EXCEPT ![f] = [client |-> c, replies |-> 0]]
          /\ web' = [pc |-> "alloc", fd |-> f, slot |-> None]
          /\ UNCHANGED sess
    BY <1>5 DEF Accept
  <2>2. SessType' /\ WebFits'
    BY <2>1 DEF SessType, WebFits, Taken
  <2>3. Kept
    BY <2>1, <1>3 DEF Kept, NoPeer, Taken, SessType
  <2> QED
    BY <2>2, <2>3, <1>4
<1>6. CASE AllocateSession
  <2>1. CASE web' = Idle /\ UNCHANGED <<sess, conn>>
    <3>1. SessType' /\ WebFits'
      BY <2>1 DEF SessType, WebFits, Taken, Idle
    <3>2. Kept
      BY <2>1, <1>3 DEF Kept, Idle, Taken
    <3> QED
      BY <3>1, <3>2, <1>4
  <2>2. ASSUME NEW s \in Free,
               sess' = [sess EXCEPT ![s] = [inUse |-> FALSE, fd |-> None]],
               web' = [web EXCEPT !.pc = "read", !.slot = s],
               web.pc = "alloc", UNCHANGED conn
        PROVE  SessType' /\ WebFits' /\ JobsFit'
    <3>1. SessType' /\ WebFits'
      BY <2>2 DEF SessType, WebFits, Taken, Free
    <3>2. Kept
      BY <2>2, <1>3 DEF Kept, Free, Taken, SessType
    <3> QED
      BY <3>1, <3>2, <1>4
  <2> QED
    BY <1>6, <2>1, <2>2 DEF AllocateSession
<1>7. CASE ReadRequest
  <2>1. CASE CloseFd(web.fd) /\ web' = Idle /\ UNCHANGED sess
    <3>1. SessType' /\ WebFits'
      BY <2>1, <1>7 DEF SessType, WebFits, Taken, Idle, CloseFd, NoPeer, ReadRequest
    <3>2. Kept
      BY <2>1, <1>3, <1>7 DEF Kept, Idle, Taken, CloseFd, SessType, ReadRequest
    <3> QED
      BY <3>1, <3>2, <1>4
  <2>2. CASE /\ sess' = [sess EXCEPT ![web.slot].fd = web.fd]
             /\ web' = [web EXCEPT !.pc = "parse"]
             /\ UNCHANGED conn
    <3>1. SessType' /\ WebFits'
      BY <2>2, <1>7 DEF SessType, WebFits, Taken, ReadRequest
    <3>2. Kept
      BY <2>2, <1>3, <1>7 DEF Kept, Taken, SessType, ReadRequest
    <3> QED
      BY <3>1, <3>2, <1>4
  <2> QED
    BY <1>7, <2>1, <2>2 DEF ReadRequest
<1>8. CASE ParseRequest
  <2>1. CASE Refuse /\ UNCHANGED sess
    <3>1. SessType' /\ WebFits'
      BY <2>1, <1>8 DEF SessType, WebFits, Taken, Refuse, Answer, ParseRequest
    <3>2. Kept
      BY <2>1, <1>3, <1>8 DEF Kept, Taken, Refuse, Answer, SessType, ParseRequest
    <3> QED
      BY <3>1, <3>2, <1>4
  <2>2. CASE /\ sess' = [sess EXCEPT ![web.slot].inUse = TRUE]
             /\ web' = [web EXCEPT !.pc = "dispatch"]
             /\ UNCHANGED conn
    <3>0. web.pc = "parse" /\ web.slot \in Slots /\ web.fd \in Fds
      BY <1>8 DEF ParseRequest, WebFits, Taken
    <3>1. SessType' /\ WebFits'
      <4>1. SessType'
        <5>1. sess' \in [Slots -> [inUse : BOOLEAN, fd : Fds \cup {None}]]
          BY <2>2, <3>0 DEF SessType
        <5>2. web' \in [pc : {"accept", "alloc", "read", "parse", "dispatch", "close"},
                        fd : Fds \cup {None}, slot : Slots \cup {None}]
          BY <2>2 DEF SessType
        <5> QED
          BY <2>2, <5>1, <5>2 DEF SessType
      <4>2. WebFits'
        BY <2>2, <3>0 DEF SessType, WebFits, Taken
      <4> QED
        BY <4>1, <4>2
    <3>2. Kept
      BY <2>2, <1>3, <1>8 DEF Kept, Taken, SessType, ParseRequest
    <3> QED
      BY <3>1, <3>2, <1>4
  <2> QED
    BY <1>8, <2>1, <2>2 DEF ParseRequest
<1>9. CASE EndSession
  <2>1. SessType' /\ WebFits'
    <3>1. /\ conn' = [conn EXCEPT ![web.fd] = NoPeer]
          /\ sess' = [sess EXCEPT ![web.slot].inUse = FALSE]
          /\ web' = [pc |-> "accept", fd |-> None, slot |-> None]
      BY <1>9 DEF EndSession, CloseFd, Idle
    <3>2. NoPeer \in [client : Clients \cup {None}, replies : Nat]
      BY DEF NoPeer
    <3>3. conn' \in [Fds -> [client : Clients \cup {None}, replies : Nat]]
      BY <3>1, <3>2 DEF SessType
    <3>4. sess' \in [Slots -> [inUse : BOOLEAN, fd : Fds \cup {None}]]
      BY <3>1 DEF SessType
    <3>5. SessType'
      BY <3>1, <3>3, <3>4 DEF SessType
    <3>6. WebFits'
      BY <3>1 DEF WebFits, Taken
    <3> QED
      BY <3>5, <3>6
  <2>2. Kept
    BY <1>9, <1>3 DEF Kept, Idle, Taken, CloseFd, SessType, EndSession
  <2> QED
    BY <2>1, <2>2, <1>4
<1> QED
  BY <1>5, <1>6, <1>7, <1>8, <1>9

\* A refused request is answered and is nobody's job; an accepted one becomes
\* one, with the web thread's session and socket.
LEMMA DispatchStep ==
  ASSUME SessType, QueueType, AppType, WebFits, JobsFit, Dispatch
  PROVE  SessType' /\ QueueType' /\ WebFits' /\ JobsFit'
<1>1. web.pc = "dispatch" /\ UNCHANGED <<sess, pc, msg>>
  BY DEF Dispatch
<1>2. /\ web.fd \in Fds /\ web.slot \in Slots /\ web.slot # None
      /\ conn[web.fd].client \in Clients /\ conn[web.fd].replies = 0
      /\ sess[web.slot].fd = web.fd /\ sess[web.slot].inUse
  BY <1>1, SessionAssumption DEF WebFits, Taken
<1>3. CASE Refuse /\ UNCHANGED queue
  <2>1. SessType' /\ QueueType' /\ WebFits'
    <3>1. QueueType'
      BY <1>3 DEF QueueType, QueueFits
    <3>2. /\ conn' = [conn EXCEPT ![web.fd].replies = @ + 1]
          /\ web' = [web EXCEPT !.pc = "close"]
      BY <1>3 DEF Refuse, Answer
    <3>3. SessType'
      <4>1. conn' \in [Fds -> [client : Clients \cup {None}, replies : Nat]]
        BY <1>2, <3>2 DEF SessType
      <4>2. web' \in [pc : {"accept", "alloc", "read", "parse", "dispatch", "close"},
                      fd : Fds \cup {None}, slot : Slots \cup {None}]
        BY <3>2 DEF SessType
      <4> QED
        BY <1>1, <4>1, <4>2 DEF SessType
    <3>4. WebFits'
      BY <1>1, <1>2, <3>2 DEF SessType, WebFits, Taken
    <3> QED
      BY <3>1, <3>3, <3>4
  <2>2. \A a \in Apps : \A i \in Nat :
          /\ Places(a)' = Places(a) /\ Job(a, i)' = Job(a, i) /\ Slot(a, i)' = Slot(a, i)
          /\ Open(a, i)' = Open(a, i) /\ Answered(a, i)' = Answered(a, i)
    BY <1>1, <1>3 DEF Places, Job, Slot, Open, Answered
  <2>3. \A a \in Apps : \A i \in Places(a) :
          /\ i \in Nat
          /\ Slot(a, i) # None => sess[Slot(a, i)].inUse /\ web'.slot # Slot(a, i)
          /\ Open(a, i) =>
               /\ sess[Slot(a, i)].fd = Fd(a, i)
               /\ conn'[Fd(a, i)] = conn[Fd(a, i)]
               /\ conn[Fd(a, i)].replies = IF Answered(a, i) THEN 1 ELSE 0
               /\ web'.fd # Fd(a, i)
    BY <1>1, <1>2, <1>3
    DEF JobsFit, SlotsOwned, OpenFits, Places, Fd, Taken, Refuse, Answer, SessType
  <2>4. JobsFit'
    BY <1>1, <2>2, <2>3, JobsStay
  <2> QED
    BY <2>1, <2>4
<1>4. ASSUME NEW a \in Apps, NEW p \in Pools, HasRoom(queue[a]),
             queue' = [queue EXCEPT ![a] =
               Append(@, [pool |-> p, slot |-> web.slot, client |-> conn[web.fd].client])],
             web' = Idle, UNCHANGED conn
      PROVE  SessType' /\ QueueType' /\ WebFits' /\ JobsFit'
  <2> DEFINE m == [pool |-> p, slot |-> web.slot, client |-> conn[web.fd].client]
  <2>0. PICK n \in Nat : n = Len(queue[a]) + 1
    BY DEF QueueType
  <2>1. SessType' /\ WebFits'
    BY <1>1, <1>4 DEF SessType, WebFits, Taken, Idle
  <2>2. m \in Message
    BY <1>2 DEF Message
  <2>3. /\ QueueType'
        /\ Len(queue'[a]) = Len(queue[a]) + 1
        /\ \A b \in Apps : b # a => queue'[b] = queue[b]
        /\ \A i \in 1 .. Len(queue[a]) : queue'[a][i] = queue[a][i]
        /\ queue'[a][Len(queue[a]) + 1] = m
    BY <1>4, <2>2, AppendStep
  <2>4. \A b \in Apps : Len(queue[b]) \in Nat
    BY DEF QueueType
  <2>5. /\ Job(a, n)' = m /\ Slot(a, n)' = web.slot /\ Fd(a, n)' = web.fd
        /\ n # 0 /\ ~Answered(a, n)'
    BY <1>1, <1>2, <2>0, <2>3, <2>4 DEF Job, Slot, Fd, Answered
  <2>6. \A b \in Apps : \A i \in Places(b)' : ~(b = a /\ i = n) =>
          /\ i \in Places(b) /\ Job(b, i)' = Job(b, i) /\ Slot(b, i)' = Slot(b, i)
          /\ Open(b, i)' = Open(b, i) /\ Answered(b, i)' = Answered(b, i)
          /\ Fd(b, i)' = Fd(b, i)
    <3>1. \A b \in Apps : \A i \in Places(b)' : ~(b = a /\ i = n) =>
            i \in Places(b) /\ Job(b, i)' = Job(b, i)
      BY <1>1, <2>0, <2>3, <2>4 DEF Places, Job
    <3> QED
      BY <1>1, <3>1 DEF Slot, Open, Answered, Fd
  <2>7. \A b \in Apps : \A i \in Places(b) :
          /\ Slot(b, i) # None => sess[Slot(b, i)].inUse /\ web.slot # Slot(b, i)
          /\ Open(b, i) =>
               /\ Fd(b, i) \in Fds /\ Job(b, i).client \in Clients
               /\ conn[Fd(b, i)].client = Job(b, i).client
               /\ conn[Fd(b, i)].replies = IF Answered(b, i) THEN 1 ELSE 0
               /\ web.fd # Fd(b, i)
    BY <1>1 DEF JobsFit, SlotsOwned, OpenFits, Taken
  <2> HIDE DEF m
  <2>8. SlotsOwned'
    BY <1>1, <1>2, <1>4, <2>5, <2>6, <2>7 DEF SlotsOwned, Idle, Taken
  <2>9. SlotsApart'
    BY <2>5, <2>6, <2>7 DEF SlotsApart, JobsFit
  <2>10. OpenFits'
    <3>1. m.client \in Clients /\ conn[web.fd].client = m.client
      BY <1>2 DEF m
    <3> QED
      BY <1>2, <1>4, <2>5, <2>6, <2>7, <3>1 DEF OpenFits, Idle
  <2>11. FdsApart'
    BY <2>5, <2>6, <2>7 DEF FdsApart, JobsFit
  <2> QED
    BY <2>1, <2>3, <2>8, <2>9, <2>10, <2>11 DEF JobsFit
<1> QED
  BY <1>3, <1>4 DEF Dispatch

\* A message nobody waits for has no session.
LEMMA PostStep ==
  ASSUME SessType, QueueType, AppType, WebFits, JobsFit, NEW a \in Apps, PostInternal(a)
  PROVE  QueueType' /\ JobsFit'
<1>1. /\ HasRoom(queue[a]) /\ queue' = [queue EXCEPT ![a] = Append(@, NoMessage)]
      /\ UNCHANGED <<sess, conn, web, pc, msg>>
  BY DEF PostInternal
<1>2. /\ QueueType'
      /\ Len(queue'[a]) = Len(queue[a]) + 1
      /\ \A b \in Apps : b # a => queue'[b] = queue[b]
      /\ \A i \in 1 .. Len(queue[a]) : queue'[a][i] = queue[a][i]
      /\ queue'[a][Len(queue[a]) + 1] = NoMessage
  BY <1>1, NoMessageType, AppendStep
<1>3. \A b \in Apps : Len(queue[b]) \in Nat
  BY DEF QueueType
<1>4. \A b \in Apps : \A i \in Places(b)' :
        Slot(b, i)' # None => i \in Places(b) /\ Job(b, i)' = Job(b, i)
  BY <1>1, <1>2, <1>3 DEF Places, Job, Slot, NoMessage
<1>5. \A b \in Apps : \A i \in Places(b)' :
        Open(b, i)' => Open(b, i) /\ Answered(b, i)' = Answered(b, i)
  BY <1>1, <1>4 DEF Slot, Open, Answered
<1>6. JobsFit'
  <2>1. \A b \in Apps : \A i \in Places(b)' : Slot(b, i)' # None =>
           sess[Slot(b, i)].inUse /\ (web.pc \in Taken => web.slot # Slot(b, i))
    BY <1>4 DEF JobsFit, SlotsOwned, Slot
  <2>2. \A b \in Apps : \A i \in Places(b)' : Open(b, i)' =>
          /\ sess[Slot(b, i)].fd = Fd(b, i)
          /\ conn[Fd(b, i)].replies = IF Answered(b, i)' THEN 1 ELSE 0
          /\ web.pc # "accept" => web.fd # Fd(b, i)
    BY <1>4, <1>5 DEF JobsFit, OpenFits, Fd, Open
  <2> QED
    BY <1>1, <1>4, <1>5, <2>1, <2>2, JobsStay
<1> QED
  BY <1>2, <1>6

\* The first message of the queue becomes the one the thread handles, or is
\* done with at once.
LEMMA ReceiveStep ==
  ASSUME QueueType, AppType, JobsFit, NEW a \in Apps, Receive(a)
  PROVE  QueueType' /\ JobsFit'
<1>1. /\ pc[a] = "recv" /\ queue[a] # <<>>
      /\ queue' = [queue EXCEPT ![a] = Tail(@)]
      /\ UNCHANGED <<sess, conn, web>>
  BY DEF Receive
<1>2. /\ QueueType'
      /\ Len(queue[a]) \in Nat \ {0} /\ Len(queue'[a]) = Len(queue[a]) - 1
      /\ \A b \in Apps : b # a => queue'[b] = queue[b]
      /\ \A i \in 1 .. Len(queue'[a]) : queue'[a][i] = queue[a][i + 1]
      /\ Head(queue[a]) = queue[a][1] /\ Head(queue[a]) \in Message
  BY <1>1, TailStep
<1>3. PICK next \in {"recv", "encode", "reply"} :
        /\ pc' = [pc EXCEPT ![a] = next]
        /\ msg' = [msg EXCEPT ![a] = IF next = "recv" THEN NoMessage ELSE Head(queue[a])]
  BY DEF Receive, AfterHandler
<1>4. \A b \in Apps : Len(queue[b]) \in Nat
  BY DEF QueueType
<1> DEFINE From(b, i) == IF b = a THEN i + 1 ELSE i
<1>5. \A b \in Apps : \A i \in Places(b)' :
        Slot(b, i)' # None =>
          From(b, i) \in Places(b) /\ Job(b, i)' = Job(b, From(b, i))
  <2> SUFFICES ASSUME NEW b \in Apps, NEW i \in Places(b)', Slot(b, i)' # None
               PROVE  From(b, i) \in Places(b) /\ Job(b, i)' = Job(b, From(b, i))
      OBVIOUS
  <2>1. CASE b # a
    BY <1>2, <1>3, <1>4, <2>1 DEF Places, Job, AppType
  <2>2. CASE b = a /\ i = 0
    BY <1>2, <1>3, <1>4, <2>2 DEF Places, Job, Slot, NoMessage, AppType
  <2>3. CASE b = a /\ i # 0
    BY <1>2, <1>4, <2>3 DEF Places, Job
  <2> QED
    BY <2>1, <2>2, <2>3
<1>6. \A b, c \in Apps : \A i \in Places(b)', j \in Places(c)' :
        b = c /\ From(b, i) = From(c, j) => i = j
  BY <1>2, <1>4 DEF Places
<1>7. \A b \in Apps : \A i \in Places(b)' :
        Slot(b, i)' # None => Slot(b, i)' = Slot(b, From(b, i))
  BY <1>5 DEF Slot
<1>8. \A b \in Apps : \A i \in Places(b)' :
        Open(b, i)' =>
          /\ Open(b, From(b, i)) /\ Slot(b, i)' # None
          /\ Fd(b, i)' = Fd(b, From(b, i))
          /\ Answered(b, i)' = Answered(b, From(b, i))
  <2> SUFFICES ASSUME NEW b \in Apps, NEW i \in Places(b)', Open(b, i)'
               PROVE  /\ Open(b, From(b, i)) /\ Slot(b, i)' # None
                      /\ Fd(b, i)' = Fd(b, From(b, i))
                      /\ Answered(b, i)' = Answered(b, From(b, i))
      OBVIOUS
  <2>1. Slot(b, i)' # None /\ Slot(b, i)' = Slot(b, From(b, i))
    BY <1>7 DEF Open
  <2>2. Fd(b, i)' = Fd(b, From(b, i))
    BY <1>1, <2>1 DEF Fd
  <2>3. CASE b # a
    BY <1>3, <2>1, <2>2, <2>3 DEF Open, Answered, AppType
  <2>4. CASE b = a
    <3>1. i \in Nat /\ pc'[a] \notin {"release", "close"}
      BY <1>2, <1>3, <1>4, <2>4 DEF Places, AppType
    <3> QED
      BY <2>1, <2>2, <2>4, <3>1 DEF Open, Answered
  <2> QED
    BY <2>3, <2>4
<1> HIDE DEF From
<1>9. SlotsOwned'
  BY <1>1, <1>5, <1>7 DEF SlotsOwned, JobsFit
<1>10. SlotsApart'
  BY <1>5, <1>6, <1>7 DEF SlotsApart, JobsFit
<1>11. OpenFits'
  BY <1>1, <1>5, <1>8 DEF OpenFits, JobsFit
<1>12. FdsApart'
  BY <1>5, <1>6, <1>8 DEF FdsApart, JobsFit
<1> QED
  BY <1>2, <1>9, <1>10, <1>11, <1>12 DEF JobsFit

\* The thread that handles a job: it answers and closes the job's own socket,
\* and releases the job's own session, which nobody else has.
LEMMA HandleStep ==
  ASSUME SessType, QueueType, AppType, WebFits, JobsFit, BuffersFit, NEW a \in Apps,
         Encode(a) \/ Reply(a) \/ Close(a) \/ Release(a) \/ FreeBuffer(a)
  PROVE  SessType' /\ QueueType' /\ WebFits' /\ JobsFit'
<1>1. UNCHANGED <<web, queue>>
  BY DEF Encode, Reply, Close, Release, FreeBuffer
<1>2. QueueType'
  BY <1>1 DEF QueueType, QueueFits
<1>3. \A b \in Apps : 0 \in Places(b) /\ Places(b)' = Places(b)
  BY <1>1 DEF QueueType, Places
<1>4. \A b \in Apps : b # a => pc'[b] = pc[b] /\ msg'[b] = msg[b]
  BY DEF Encode, Reply, Close, Release, FreeBuffer, Done, AppType
<1>5. \/ pc[a] = "encode" /\ pc'[a] \in {"recv", "reply"}
      \/ pc[a] = "reply" /\ pc'[a] \in {"free", "close"}
      \/ pc[a] = "close" /\ pc'[a] = "release"
      \/ pc[a] = "release" /\ pc'[a] \in {"recv", "free"}
      \/ pc[a] = "free" /\ pc'[a] = "recv"
  <2> USE DEF AppType
  <2>1. CASE Encode(a)
    BY <2>1 DEF Encode, Done
  <2>2. CASE Reply(a)
    BY <2>2 DEF Reply
  <2>3. CASE Close(a)
    BY <2>3 DEF Close
  <2>4. CASE Release(a)
    BY <2>4 DEF Release, Done
  <2>5. CASE FreeBuffer(a)
    BY <2>5 DEF FreeBuffer, Done
  <2> QED
    BY <2>1, <2>2, <2>3, <2>4, <2>5
<1>6. pc'[a] \in Busy => msg'[a] = msg[a] /\ pc[a] \in Busy
  BY <1>5 DEF Encode, Reply, Close, Release, FreeBuffer, Done, AppType, Busy
<1>7. \A b \in Apps : \A i \in Places(b) :
        Slot(b, i)' # None => Job(b, i)' = Job(b, i)
  BY <1>1, <1>4, <1>6 DEF Job, Slot, NoMessage
<1>8. \A b \in Apps : \A i \in Places(b) :
        Open(b, i)' =>
          /\ Open(b, i) /\ Slot(b, i)' = Slot(b, i)
          /\ IF b = a /\ i = 0
             THEN ~Answered(b, i) /\ (pc'[a] = "close" <=> Answered(b, i)')
             ELSE Answered(b, i)' <=> Answered(b, i)
  <2> SUFFICES ASSUME NEW b \in Apps, NEW i \in Places(b), Open(b, i)'
               PROVE  /\ Open(b, i) /\ Slot(b, i)' = Slot(b, i)
                      /\ IF b = a /\ i = 0
                         THEN ~Answered(b, i) /\ (pc'[a] = "close" <=> Answered(b, i)')
                         ELSE Answered(b, i)' <=> Answered(b, i)
      OBVIOUS
  <2>1. Slot(b, i)' # None /\ Slot(b, i)' = Slot(b, i)
    BY <1>7 DEF Open, Slot
  <2>2. CASE b = a /\ i = 0
    <3>1. pc'[a] \in Busy
      BY <2>1, <2>2 DEF Slot, Job, NoMessage
    <3>2. pc[a] \notin {"close", "release"}
      BY <1>5, <2>2, <3>1 DEF Busy, Open
    <3> QED
      BY <2>1, <2>2, <3>2 DEF Open, Answered
  <2>3. CASE b # a \/ i # 0
    BY <1>4, <2>1, <2>3 DEF Open, Answered
  <2> QED
    BY <2>2, <2>3
<1>9. pc[a] \in Busy => Job(a, 0) = msg[a]
  BY DEF Job
<1> DEFINE Own(b, i) == b = a /\ i = 0
           Effect ==
             /\ \A b \in Apps : \A i \in Places(b) :
                  /\ Slot(b, i)' # None => sess'[Slot(b, i)] = sess[Slot(b, i)]
                  /\ Open(b, i)' =>
                       /\ conn'[Fd(b, i)].client = conn[Fd(b, i)].client
                       /\ conn'[Fd(b, i)].replies =
                            IF Own(b, i) /\ pc'[a] = "close" THEN 1
                            ELSE conn[Fd(b, i)].replies
             /\ web.pc # "accept" => conn'[web.fd] = conn[web.fd]
             /\ web.pc \in Taken => sess'[web.slot] = sess[web.slot]
<1>10. SessType' /\ Effect
  <2>1. CASE UNCHANGED <<sess, conn>> /\ pc'[a] # "close"
    BY <1>1, <2>1 DEF SessType
  <2>2. CASE /\ pc[a] = "reply" /\ pc'[a] = "close" /\ msg[a].slot # None
             /\ Answer(sess[msg[a].slot].fd) /\ UNCHANGED sess
    <3>1. /\ Open(a, 0) /\ ~Answered(a, 0) /\ 0 \in Places(a)
          /\ Fd(a, 0) = sess[msg[a].slot].fd
      BY <1>3, <1>9, <2>2 DEF Open, Answered, Fd, Slot, Busy
    <3>2. /\ Fd(a, 0) \in Fds /\ conn[Fd(a, 0)].replies = 0
          /\ web.pc # "accept" => web.fd # Fd(a, 0) /\ web.fd \in Fds
      BY <3>1 DEF JobsFit, OpenFits, WebFits
    <3>3. conn' = [conn EXCEPT ![Fd(a, 0)].replies = @ + 1]
      BY <2>2, <3>1 DEF Answer
    <3>4. \A b \in Apps : \A i \in Places(b) :
            Open(b, i) => Fd(b, i) \in Fds /\ (Own(b, i) \/ Fd(b, i) # Fd(a, 0))
      BY <3>1 DEF JobsFit, FdsApart, OpenFits
    <3>5. SessType'
      BY <1>1, <2>2, <3>2, <3>3 DEF SessType
    <3>6. \A b \in Apps : \A i \in Places(b) : Open(b, i) =>
            /\ conn'[Fd(b, i)].client = conn[Fd(b, i)].client
            /\ conn'[Fd(b, i)].replies = IF Own(b, i) THEN 1 ELSE conn[Fd(b, i)].replies
      BY <3>2, <3>3, <3>4 DEF SessType
    <3>7. web.pc # "accept" => conn'[web.fd] = conn[web.fd]
      BY <3>2, <3>3 DEF SessType
    <3> QED
      BY <1>8, <2>2, <3>5, <3>6, <3>7
  <2>3. CASE /\ pc[a] = "close" /\ pc'[a] = "release"
             /\ CloseFd(sess[msg[a].slot].fd) /\ UNCHANGED sess
    <3>1. /\ Open(a, 0) /\ 0 \in Places(a) /\ Fd(a, 0) = sess[msg[a].slot].fd
      BY <1>3, <1>9, <2>3 DEF Open, Fd, Slot, Busy, BuffersFit
    <3>2. /\ Fd(a, 0) \in Fds
          /\ web.pc # "accept" => web.fd # Fd(a, 0) /\ web.fd \in Fds
      BY <3>1 DEF JobsFit, OpenFits, WebFits
    <3>3. conn' = [conn EXCEPT ![Fd(a, 0)] = NoPeer]
      BY <2>3, <3>1 DEF CloseFd
    <3>4. \A b \in Apps : \A i \in Places(b) :
            Open(b, i)' => Fd(b, i) \in Fds /\ Fd(b, i) # Fd(a, 0)
      <4>1. ~Open(a, 0)'
        BY <2>3 DEF Open
      <4> QED
        BY <1>8, <3>1, <4>1 DEF JobsFit, FdsApart, OpenFits
    <3>5. SessType'
      BY <1>1, <2>3, <3>2, <3>3 DEF SessType, NoPeer
    <3> QED
      BY <2>3, <3>2, <3>3, <3>4, <3>5 DEF SessType
  <2>4. CASE /\ pc[a] = "release" /\ pc'[a] \in {"recv", "free"}
             /\ sess' = [sess EXCEPT ![msg[a].slot].inUse = FALSE] /\ UNCHANGED conn
    <3>1. Slot(a, 0) # None /\ 0 \in Places(a) /\ Slot(a, 0) = msg[a].slot
      BY <1>3, <1>9, <2>4 DEF Slot, Busy, BuffersFit
    <3>2. /\ Slot(a, 0) \in Slots
          /\ web.pc \in Taken => web.slot # Slot(a, 0) /\ web.slot \in Slots
      BY <3>1, JobType DEF JobsFit, SlotsOwned, WebFits
    <3>3. \A b \in Apps : \A i \in Places(b) :
            Slot(b, i)' # None => Slot(b, i) \in Slots /\ Slot(b, i) # Slot(a, 0)
      <4>1. Slot(a, 0)' = None
        BY <2>4 DEF Slot, Job, Busy, NoMessage
      <4>2. \A b \in Apps : \A i \in Places(b) : Slot(b, i)' # None => Slot(b, i)' = Slot(b, i)
        BY <1>7 DEF Slot
      <4> QED
        BY <3>1, <4>1, <4>2, JobType DEF JobsFit, SlotsApart
    <3>4. SessType'
      BY <1>1, <2>4, <3>1, <3>2 DEF SessType
    <3> QED
      BY <2>4, <3>1, <3>2, <3>3, <3>4 DEF SessType
  <2> QED
    <3>1. CASE Encode(a) \/ FreeBuffer(a)
      BY <1>5, <2>1, <3>1 DEF Encode, FreeBuffer
    <3>2. CASE Reply(a)
      BY <2>1, <2>2, <3>2 DEF Reply, AppType
    <3>3. CASE Close(a)
      BY <2>3, <3>3 DEF Close, AppType
    <3>4. CASE Release(a)
      BY <2>4, <3>4 DEF Release, Done, AppType
    <3> QED
      BY <3>1, <3>2, <3>3, <3>4
<1>11. WebFits'
  BY <1>1, <1>10 DEF WebFits, Taken
<1>12. JobsFit'
  <2>1. \A b \in Apps : \A i \in Places(b) : Slot(b, i)' # None =>
          /\ sess'[Slot(b, i)].inUse
          /\ web.pc \in Taken => web.slot # Slot(b, i)
    BY <1>7, <1>10 DEF JobsFit, SlotsOwned, Slot
  <2>2. \A b \in Apps : \A i \in Places(b) : Open(b, i)' =>
          /\ sess'[Slot(b, i)].fd = Fd(b, i)
          /\ conn'[Fd(b, i)].client = conn[Fd(b, i)].client
          /\ conn'[Fd(b, i)].replies = IF Answered(b, i)' THEN 1 ELSE 0
          /\ web.pc # "accept" => web.fd # Fd(b, i)
    <3>1. \A b \in Apps : \A i \in Places(b) : Open(b, i)' =>
            sess'[Slot(b, i)].fd = Fd(b, i)
      BY <1>8, <1>10 DEF Fd, Open
    <3> QED
      BY <1>8, <1>10, <3>1 DEF JobsFit, OpenFits
  <2> QED
    BY <1>1, <1>3, <1>7, <1>8, <2>1, <2>2, JobsStay
<1> QED
  BY <1>2, <1>10, <1>11, <1>12

-----------------------------------------------------------------------------
\* Every step preserves RestInv.
LEMMA RestStep == RestInv /\ [Next]_vars => RestInv'
<1> SUFFICES ASSUME RestInv, [Next]_vars PROVE RestInv'
    OBVIOUS
<1>1. /\ SessType /\ QueueType /\ AppType
      /\ BuffersFit /\ NoSliceLost /\ WebFits /\ JobsFit
  BY Types DEF RestInv
<1>2. UNCHANGED <<pc, msg, held, used, failed>> => AppType' /\ BuffersFit' /\ NoSliceLost'
  BY <1>1 DEF AppType, BuffersFit, NoSliceLost
<1>3. /\ SessType' /\ QueueType' /\ AppType'
      /\ BuffersFit' /\ NoSliceLost' /\ WebFits' /\ JobsFit'
  <2>1. CASE Accept \/ AllocateSession \/ ReadRequest \/ ParseRequest \/ EndSession
    <3>1. UNCHANGED queue /\ UNCHANGED <<pc, msg, held, used, failed>>
      BY <2>1 DEF Accept, AllocateSession, ReadRequest, ParseRequest, EndSession
    <3>2. QueueType'
      BY <1>1, <3>1 DEF QueueType, QueueFits
    <3> QED
      BY <1>1, <1>2, <2>1, <3>1, <3>2, WebStep
  <2>2. CASE Dispatch
    <3>1. UNCHANGED <<pc, msg, held, used, failed>>
      BY <2>2 DEF Dispatch
    <3> QED
      BY <1>1, <1>2, <2>2, <3>1, DispatchStep
  <2>3. ASSUME NEW a \in Apps, PostInternal(a)
        PROVE  /\ SessType' /\ QueueType' /\ AppType'
               /\ BuffersFit' /\ NoSliceLost' /\ WebFits' /\ JobsFit'
    <3>1. UNCHANGED <<sess, conn, web>> /\ UNCHANGED <<pc, msg, held, used, failed>>
      BY <2>3 DEF PostInternal
    <3>2. SessType' /\ WebFits'
      BY <1>1, <3>1 DEF SessType, WebFits
    <3> QED
      BY <1>1, <1>2, <2>3, <3>1, <3>2, PostStep
  <2>4. ASSUME NEW a \in Apps, App(a)
        PROVE  /\ SessType' /\ QueueType' /\ AppType'
               /\ BuffersFit' /\ NoSliceLost' /\ WebFits' /\ JobsFit'
    <3>1. AppType' /\ BuffersFit' /\ NoSliceLost'
      BY <1>1, <2>4, BuffersStep
    <3>2. CASE Receive(a)
      <4>1. UNCHANGED <<sess, conn, web>>
        BY <3>2 DEF Receive
      <4>2. SessType' /\ WebFits'
        BY <1>1, <4>1 DEF SessType, WebFits
      <4> QED
        BY <1>1, <3>1, <3>2, <4>2, ReceiveStep
    <3>3. CASE ~Receive(a)
      BY <1>1, <2>4, <3>1, <3>3, HandleStep DEF App
    <3> QED
      BY <3>2, <3>3
  <2>5. CASE UNCHANGED vars
    <3>1. UNCHANGED <<sess, conn, web, queue>> /\ UNCHANGED <<pc, msg, held, used, failed>>
      BY <2>5 DEF vars
    <3>2. SessType' /\ QueueType' /\ WebFits'
      BY <1>1, <3>1 DEF SessType, QueueType, QueueFits, WebFits
    <3>3. JobsFit'
      <4>1. \A a, i : /\ Places(a)' = Places(a) /\ Job(a, i)' = Job(a, i)
                       /\ Slot(a, i)' = Slot(a, i) /\ Open(a, i)' = Open(a, i)
                       /\ Fd(a, i)' = Fd(a, i) /\ Answered(a, i)' = Answered(a, i)
        BY <3>1, Zenon DEF Places, Job, Slot, Open, Fd, Answered
      <4>2. SlotsOwned'
        <5>1. SlotsOwned
          BY <1>1 DEF JobsFit
        <5> QED
          BY <3>1, <4>1, <5>1, SMT DEF SlotsOwned
      <4>3. OpenFits'
        <5>1. OpenFits
          BY <1>1 DEF JobsFit
        <5> QED
          BY <3>1, <4>1, <5>1, SMT DEF OpenFits
      <4>4. SlotsApart'
        <5>1. SlotsApart
          BY <1>1 DEF JobsFit
        <5> QED
          BY <4>1, <5>1, SMT DEF SlotsApart
      <4>5. FdsApart'
        <5>1. FdsApart
          BY <1>1 DEF JobsFit
        <5> QED
          BY <4>1, <5>1, SMT DEF FdsApart
      <4> QED
        BY <4>2, <4>3, <4>4, <4>5 DEF JobsFit
    <3> QED
      BY <1>2, <3>1, <3>2, <3>3
  <2> QED
    BY <2>1, <2>2, <2>3, <2>4, <2>5 DEF Next, Web
<1>4. TypeOK' /\ QueueFits'
  BY <1>3, Zenon DEF TypeOK, SessType, QueueType, AppType
<1> QED
  BY <1>3, <1>4 DEF RestInv

\* RestInv holds of every reachable state of every instance.
THEOREM RestInvariant == Spec => []RestInv
  BY RestInit, RestStep, PTL DEF Spec

\* Every variable of the REST server has its type, no queue and no JSON pool
\* exceeds its capacity.
THEOREM RestTypeCorrect == Spec => []TypeOK
  BY RestInvariant, PTL DEF RestInv

\* A JSON buffer that is in use is one that a thread is about to free, unless
\* an encoder has failed with a buffer in hand (bst_send_response).
THEOREM SlicesAreFreed == Spec => []NoSliceLost
  BY RestInvariant, PTL DEF RestInv

\* The invariant makes every outstanding cookie lead to its client.
LEMMA CookiesFit == RestInv => CookieValid
<1> SUFFICES ASSUME RestInv, NEW a \in Apps, NEW m \in Outstanding(a)
             PROVE  LET fd == sess[m.slot].fd IN fd \in Fds /\ conn[fd].client = m.client
    BY DEF CookieValid
<1>1. queue[a] \in Seq(Message)
  BY DEF RestInv, TypeOK
<1>2. \E i \in Places(a) : Open(a, i) /\ Job(a, i) = m
  <2>1. CASE m \in {n \in {queue[a][i] : i \in DOMAIN queue[a]} : n.slot # None}
    <3>1. PICK i \in DOMAIN queue[a] : m = queue[a][i] /\ m.slot # None
      BY <2>1
    <3>2. i \in Places(a) /\ i # 0
      BY <1>1, <3>1 DEF Places
    <3> QED
      BY <3>1, <3>2 DEF Open, Slot, Job
  <2>2. CASE /\ m = msg[a] /\ m.slot # None
             /\ pc[a] \in {"encode", "reply", "close"}
    <3>1. 0 \in Places(a)
      BY <1>1 DEF Places
    <3> QED
      BY <2>2, <3>1 DEF Open, Slot, Job, Busy
  <2> QED
    BY <2>1, <2>2 DEF Outstanding
<1> QED
  BY <1>2 DEF RestInv, JobsFit, OpenFits, Fd, Slot

\* The session that an application thread has as its cookie leads to the
\* connection its request came from, although nothing locks the session table.
THEOREM CookiesAreValid == Spec => []CookieValid
  BY RestInvariant, CookiesFit, PTL

\* A connection that is closed has been answered, or could not be read.
LEMMA ClosedOnce ==
  ASSUME RestInv, [Next]_vars, NEW f \in Fds, conn[f] # NoPeer, conn'[f] = NoPeer
  PROVE  conn[f].replies = 1 \/ (web.pc = "read" /\ web.fd = f)
<1>1. SessType /\ QueueType /\ WebFits /\ JobsFit
  BY Types DEF RestInv
<1>2. conn'[f] # conn[f]
  OBVIOUS
<1>3. \A g : ~Answer(g)
  <2> SUFFICES ASSUME NEW g, Answer(g) PROVE FALSE
      OBVIOUS
  <2>1. conn' = [conn EXCEPT ![g] = [conn[g] EXCEPT !.replies = @ + 1]]
    BY DEF Answer
  <2>2. g = f /\ conn[f] \in [client : Clients \cup {None}, replies : Nat]
    BY <1>1, <1>2, <2>1 DEF SessType
  <2>3. conn'[f].replies = conn[f].replies + 1
    BY <1>1, <2>1, <2>2 DEF SessType
  <2> QED
    BY <2>2, <2>3 DEF NoPeer
<1>4. CASE Accept
  BY <1>1, <1>2, <1>4, SessionAssumption DEF Accept, SessType, NoPeer
<1>5. CASE ReadRequest
  BY <1>1, <1>2, <1>5 DEF ReadRequest, CloseFd, SessType
<1>6. CASE EndSession
  BY <1>1, <1>2, <1>6 DEF EndSession, CloseFd, SessType, WebFits
<1>7. CASE AllocateSession \/ ParseRequest \/ Dispatch
  BY <1>2, <1>3, <1>7 DEF AllocateSession, ParseRequest, Dispatch, Refuse
<1>8. ASSUME NEW a \in Apps, Close(a)
      PROVE  conn[f].replies = 1
  <2>1. pc[a] = "close" /\ CloseFd(sess[msg[a].slot].fd) /\ msg[a].slot # None
    BY <1>8 DEF Close, RestInv, BuffersFit
  <2>2. sess[msg[a].slot].fd = f
    BY <1>1, <1>2, <2>1 DEF CloseFd, SessType
  <2>3. /\ 0 \in Places(a) /\ Open(a, 0) /\ Fd(a, 0) = f /\ Answered(a, 0)
    BY <1>1, <2>1, <2>2 DEF QueueType, Places, Open, Slot, Job, Fd, Answered, Busy
  <2> QED
    BY <1>1, <2>3 DEF JobsFit, OpenFits
<1>9. ASSUME NEW a \in Apps, PostInternal(a) \/ App(a), ~Close(a)
      PROVE  FALSE
  BY <1>2, <1>3, <1>9 DEF PostInternal, App, Receive, Encode, Reply, Release, FreeBuffer
<1> QED
  BY <1>2, <1>4, <1>5, <1>6, <1>7, <1>8, <1>9 DEF Next, Web, vars

\* One answer goes out on a connection before either thread closes it, unless
\* its request could not be read.
THEOREM ConnectionsAnsweredOnce == Spec => AnsweredOnce
<1>1. RestInv /\ [Next]_vars =>
        [\A f \in Fds : conn[f] # NoPeer /\ conn'[f] = NoPeer =>
           conn[f].replies = 1 \/ (web.pc = "read" /\ web.fd = f)]_vars
  BY ClosedOnce
<1> QED
  BY <1>1, RestInvariant, PTL DEF Spec, AnsweredOnce

-----------------------------------------------------------------------------
(* Sessions *)

\* The sessions of an application, and that SlotsOf is what its jobs have.
LEMMA KeptSlots ==
  ASSUME QueueType, NEW a \in Apps, NEW s
  PROVE  s \in SlotsOf(a) <=>
           \/ \E i \in 1 .. Len(queue[a]) : queue[a][i].slot = s
           \/ pc[a] \in Busy /\ msg[a].slot = s
<1>1. DOMAIN queue[a] = 1 .. Len(queue[a])
  BY DEF QueueType
<1> QED
  BY <1>1 DEF SlotsOf, Busy

\* An application thread keeps its sessions, takes the next message's over, or
\* gives its message's back.
LEMMA KeptStep ==
  ASSUME QueueType, AppType, NoSliceLost, BuffersFit, failed' = 0, NEW a \in Apps, App(a),
         NEW s \in SlotsOf(a), s \in Slots
  PROVE  s \in SlotsOf(a)' \/ sess' = [sess EXCEPT ![s].inUse = FALSE]
<1> USE DEF AppType
<1>1. s # None
  BY SessionAssumption
<1>2. CASE Receive(a)
  <2>1. PICK next \in AfterHandler(Head(queue[a])) :
          /\ pc' = [pc EXCEPT ![a] = next]
          /\ msg' = [msg EXCEPT ![a] = IF next = "recv" THEN NoMessage ELSE Head(queue[a])]
    BY <1>2 DEF Receive
  <2>2. /\ pc[a] = "recv" /\ queue[a] # <<>>
        /\ queue' = [queue EXCEPT ![a] = Tail(@)]
    BY <1>2 DEF Receive
  <2>3. /\ QueueType'
        /\ Len(queue[a]) \in Nat \ {0} /\ Len(queue'[a]) = Len(queue[a]) - 1
        /\ \A i \in 1 .. Len(queue'[a]) : queue'[a][i] = queue[a][i + 1]
        /\ Head(queue[a]) = queue[a][1]
    BY <2>2, TailStep
  <2>4. PICK i \in 1 .. Len(queue[a]) : queue[a][i].slot = s
    BY <2>2, KeptSlots DEF Busy
  <2>5. CASE i = 1
    <3>1. Head(queue[a]).slot = s /\ next \in Busy
      BY <1>1, <2>1, <2>3, <2>4, <2>5 DEF AfterHandler, Busy
    <3>2. pc'[a] \in Busy /\ msg'[a].slot = s
      BY <2>1, <3>1 DEF Busy
    <3> QED
      BY <3>2 DEF SlotsOf, Busy
  <2>6. CASE i # 1
    <3>1. i - 1 \in 1 .. Len(queue'[a]) /\ queue'[a][i - 1].slot = s
      BY <2>3, <2>4, <2>6
    <3>2. DOMAIN queue'[a] = 1 .. Len(queue'[a])
      BY <2>3 DEF QueueType
    <3> QED
      BY <3>1, <3>2 DEF SlotsOf
  <2> QED
    BY <2>5, <2>6
<1>3. ASSUME queue' = queue, msg' = msg, pc[a] \in Busy => pc'[a] \in Busy
      PROVE  s \in SlotsOf(a)'
  BY <1>3 DEF SlotsOf, Busy
<1>4. CASE Encode(a)
  <2>1. pc[a] = "encode" /\ queue' = queue /\ held[a] = None /\ msg[a].pool \in Pools
    BY <1>4 DEF Encode, BuffersFit, Message
  <2>2. failed = 0
    BY <1>4 DEF Encode
  <2>3. used[a][msg[a].pool] = 0
    BY <2>1, <2>2, SessionAssumption DEF NoSliceLost
  <2>4. pc' = [pc EXCEPT ![a] = "reply"] /\ msg' = msg
    BY <1>4, <2>2, <2>3, SessionAssumption DEF Encode
  <2> QED
    BY <1>3, <2>1, <2>4 DEF Busy
<1>5. CASE Reply(a)
  <2>1. pc[a] = "reply" /\ UNCHANGED <<queue, msg>>
    BY <1>5 DEF Reply
  <2>2. CASE msg[a].slot = None
    <3>1. PICK i \in 1 .. Len(queue[a]) : queue[a][i].slot = s
      BY <1>1, <2>2, KeptSlots
    <3>2. DOMAIN queue[a] = 1 .. Len(queue[a])
      BY DEF QueueType
    <3> QED
      BY <2>1, <3>1, <3>2 DEF SlotsOf
  <2>3. CASE msg[a].slot # None
    BY <1>3, <1>5, <2>1, <2>3 DEF Reply, Busy
  <2> QED
    BY <2>2, <2>3
<1>6. CASE Close(a)
  BY <1>3, <1>6 DEF Close, Busy
<1>7. CASE Release(a)
  <2>1. /\ pc[a] = "release" /\ queue' = queue
        /\ sess' = [sess EXCEPT ![msg[a].slot].inUse = FALSE]
    BY <1>7 DEF Release
  <2>2. CASE msg[a].slot = s
    BY <2>1, <2>2
  <2>3. CASE msg[a].slot # s
    <3>1. PICK i \in 1 .. Len(queue[a]) : queue[a][i].slot = s
      BY <2>3, KeptSlots
    <3>2. DOMAIN queue[a] = 1 .. Len(queue[a])
      BY DEF QueueType
    <3> QED
      BY <2>1, <3>1, <3>2 DEF SlotsOf
  <2> QED
    BY <2>2, <2>3
<1>8. CASE FreeBuffer(a)
  <2>1. pc[a] = "free" /\ queue' = queue
    BY <1>8 DEF FreeBuffer
  <2>2. PICK i \in 1 .. Len(queue[a]) : queue[a][i].slot = s
    BY <2>1, KeptSlots DEF Busy
  <2>3. DOMAIN queue[a] = 1 .. Len(queue[a])
    BY DEF QueueType
  <2> QED
    BY <2>1, <2>2, <2>3 DEF SlotsOf
<1> QED
  BY <1>2, <1>4, <1>5, <1>6, <1>7, <1>8 DEF App

\* An application thread leaves the others, their messages and queues alone.
LEMMA OthersStay ==
  ASSUME AppType, QueueType, NEW a \in Apps, App(a)
  PROVE  \A b \in Apps : b # a => pc'[b] = pc[b] /\ msg'[b] = msg[b] /\ queue'[b] = queue[b]
<1> USE DEF AppType, QueueType, QueueFits
<1>1. CASE Receive(a)
  BY <1>1 DEF Receive
<1>2. CASE Encode(a)
  BY <1>2 DEF Encode, Done
<1>3. CASE Reply(a)
  BY <1>3 DEF Reply
<1>4. CASE Close(a)
  BY <1>4 DEF Close
<1>5. CASE Release(a)
  BY <1>5 DEF Release, Done
<1>6. CASE FreeBuffer(a)
  BY <1>6 DEF FreeBuffer, Done
<1> QED
  BY <1>1, <1>2, <1>3, <1>4, <1>5, <1>6 DEF App

\* It leaves their sessions alone, then.
LEMMA KeptByOthers ==
  ASSUME AppType, QueueType, NEW a \in Apps, App(a)
  PROVE  \A b \in Apps : b # a => SlotsOf(b)' = SlotsOf(b)
<1>1. \A b \in Apps : b # a => pc'[b] = pc[b] /\ msg'[b] = msg[b] /\ queue'[b] = queue[b]
  BY OthersStay
<1> QED
  BY <1>1, Zenon DEF SlotsOf

\* A session in use keeps having somebody who will release it.
LEMMA SessionsStep == RestInv /\ NoSessionLost /\ [Next]_vars => NoSessionLost'
<1> SUFFICES ASSUME RestInv, NoSessionLost, [Next]_vars, failed' = 0,
                    NEW s \in Slots, sess'[s].inUse
             PROVE  \/ web'.pc \in {"dispatch", "close"} /\ web'.slot = s
                    \/ \E a \in Apps : s \in SlotsOf(a)'
    BY DEF NoSessionLost
<1>1. SessType /\ QueueType /\ AppType /\ WebFits /\ BuffersFit /\ NoSliceLost
  BY Types DEF RestInv
<1>2. failed = 0
  <2>1. failed' = failed \/ failed' = failed + 1
    <3>1. CASE \E a \in Apps : Encode(a)
      BY <3>1 DEF Encode
    <3>2. CASE ~\E a \in Apps : Encode(a)
      BY <3>2, Zenon
      DEF Next, Web, App, Accept, AllocateSession, ReadRequest, ParseRequest, Dispatch,
          EndSession, PostInternal, Receive, Reply, Close, Release, FreeBuffer, vars
    <3> QED
      BY <3>1, <3>2
  <2> QED
    BY <1>1, <2>1 DEF AppType
<1>3. sess[s].inUse => \/ web.pc \in {"dispatch", "close"} /\ web.slot = s
                       \/ \E a \in Apps : s \in SlotsOf(a)
  BY <1>2 DEF NoSessionLost
<1>4. ASSUME UNCHANGED <<queue, pc, msg>>
      PROVE  \A a : SlotsOf(a)' = SlotsOf(a)
  BY <1>4, Zenon DEF SlotsOf
<1>5. CASE Accept
  <2>1. UNCHANGED <<queue, pc, msg, sess>> /\ web.pc = "accept"
    BY <1>5 DEF Accept
  <2> QED
    BY <1>3, <1>4, <2>1
<1>6. CASE AllocateSession
  <2>1. UNCHANGED <<queue, pc, msg>> /\ web.pc = "alloc"
    BY <1>6 DEF AllocateSession
  <2>2. sess[s].inUse
    <3>1. CASE UNCHANGED sess
      BY <3>1
    <3>2. ASSUME NEW t \in Slots, sess' = [sess EXCEPT ![t] = [inUse |-> FALSE, fd |-> None]]
          PROVE  sess[s].inUse
      BY <1>1, <3>2 DEF SessType
    <3> QED
      BY <1>6, <3>1, <3>2 DEF AllocateSession, Free
  <2> QED
    BY <1>3, <1>4, <2>1, <2>2
<1>7. CASE ReadRequest
  <2>1. UNCHANGED <<queue, pc, msg>> /\ web.pc = "read"
    BY <1>7 DEF ReadRequest
  <2>2. sess[s].inUse
    BY <1>1, <1>7 DEF ReadRequest, SessType
  <2> QED
    BY <1>3, <1>4, <2>1, <2>2
<1>8. CASE ParseRequest
  <2>1. UNCHANGED <<queue, pc, msg>> /\ web.pc = "parse"
    BY <1>8 DEF ParseRequest
  <2>2. CASE Refuse /\ UNCHANGED sess
    BY <1>3, <1>4, <2>1, <2>2
  <2>3. CASE /\ sess' = [sess EXCEPT ![web.slot].inUse = TRUE]
             /\ web' = [web EXCEPT !.pc = "dispatch"]
    <3>1. web'.pc = "dispatch" /\ web'.slot = web.slot
      BY <1>1, <2>3 DEF SessType
    <3>2. sess[s].inUse \/ s = web.slot
      BY <1>1, <2>3 DEF SessType
    <3> QED
      BY <1>3, <1>4, <2>1, <3>1, <3>2
  <2> QED
    BY <1>8, <2>2, <2>3 DEF ParseRequest
<1>9. CASE Dispatch
  <2>1. UNCHANGED <<sess, pc, msg>> /\ web.pc = "dispatch"
    BY <1>9 DEF Dispatch
  <2>2. CASE Refuse /\ UNCHANGED queue
    <3>1. web'.pc = "close" /\ web'.slot = web.slot
      BY <1>1, <2>2 DEF SessType, Refuse
    <3> QED
      BY <1>3, <1>4, <2>1, <2>2, <3>1
  <2>3. ASSUME NEW a \in Apps, NEW p \in Pools, HasRoom(queue[a]),
               queue' = [queue EXCEPT ![a] =
                 Append(@, [pool |-> p, slot |-> web.slot, client |-> conn[web.fd].client])]
        PROVE  \E b \in Apps : s \in SlotsOf(b)'
    <3> DEFINE m == [pool |-> p, slot |-> web.slot, client |-> conn[web.fd].client]
    <3>1. m \in Message /\ m.slot = web.slot
      BY <1>1, <2>1 DEF WebFits, Taken, Message
    <3> HIDE DEF m
    <3>2. queue' = [queue EXCEPT ![a] = Append(@, m)]
      BY <2>3 DEF m
    <3>3. /\ QueueType'
          /\ Len(queue'[a]) = Len(queue[a]) + 1
          /\ \A b \in Apps : b # a => queue'[b] = queue[b]
          /\ \A i \in 1 .. Len(queue[a]) : queue'[a][i] = queue[a][i]
          /\ queue'[a][Len(queue[a]) + 1] = m
      BY <1>1, <2>3, <3>1, <3>2, AppendStep
    <3>4. Len(queue[a]) \in Nat /\ DOMAIN queue'[a] = 1 .. Len(queue[a]) + 1
      BY <1>1, <3>3 DEF QueueType
    <3>5. CASE s = web.slot
      BY <3>1, <3>3, <3>4, <3>5 DEF SlotsOf
    <3>6. CASE s # web.slot
      <4>1. PICK b \in Apps : s \in SlotsOf(b)
        BY <1>3, <2>1, <3>6
      <4>2. CASE b # a
        <5>1. SlotsOf(b)' = SlotsOf(b)
          <6>1. queue'[b] = queue[b] /\ UNCHANGED <<pc, msg>>
            BY <2>1, <3>3, <4>2
          <6> QED
            BY <6>1, Zenon DEF SlotsOf
        <5> QED
          BY <4>1, <5>1
      <4>3. CASE b = a
        <5>1. CASE pc[a] \in Busy /\ msg[a].slot = s
          BY <2>1, <5>1 DEF SlotsOf, Busy
        <5>2. CASE \E i \in 1 .. Len(queue[a]) : queue[a][i].slot = s
          <6>1. PICK i \in 1 .. Len(queue[a]) : queue[a][i].slot = s
            BY <5>2
          <6>2. i \in DOMAIN queue'[a] /\ queue'[a][i].slot = s
            BY <3>3, <3>4, <6>1
          <6> QED
            BY <6>2 DEF SlotsOf
        <5> QED
          BY <1>1, <4>1, <4>3, <5>1, <5>2, KeptSlots
      <4> QED
        BY <4>2, <4>3
    <3> QED
      BY <3>5, <3>6
  <2> QED
    BY <1>9, <2>2, <2>3 DEF Dispatch
<1>10. CASE EndSession
  <2>1. UNCHANGED <<queue, pc, msg>> /\ web.pc = "close"
    BY <1>10 DEF EndSession
  <2>2. sess[s].inUse /\ s # web.slot
    BY <1>1, <1>10 DEF EndSession, SessType
  <2> QED
    BY <1>3, <1>4, <2>1, <2>2
<1>11. ASSUME NEW a \in Apps, PostInternal(a)
       PROVE  \/ web'.pc \in {"dispatch", "close"} /\ web'.slot = s
              \/ \E b \in Apps : s \in SlotsOf(b)'
  <2>1. /\ HasRoom(queue[a]) /\ queue' = [queue EXCEPT ![a] = Append(@, NoMessage)]
        /\ UNCHANGED <<sess, web, pc, msg>>
    BY <1>11 DEF PostInternal
  <2>2. /\ QueueType'
        /\ Len(queue'[a]) = Len(queue[a]) + 1
        /\ \A b \in Apps : b # a => queue'[b] = queue[b]
        /\ \A i \in 1 .. Len(queue[a]) : queue'[a][i] = queue[a][i]
    BY <1>1, <2>1, NoMessageType, AppendStep
  <2>3. Len(queue[a]) \in Nat /\ DOMAIN queue'[a] = 1 .. Len(queue[a]) + 1
    BY <1>1, <2>2 DEF QueueType
  <2>4. ASSUME NEW b \in Apps, s \in SlotsOf(b)
        PROVE  s \in SlotsOf(b)'
    <3>1. CASE b # a
      <4>1. SlotsOf(b)' = SlotsOf(b)
        <5>1. queue'[b] = queue[b] /\ UNCHANGED <<pc, msg>>
          BY <2>1, <2>2, <3>1
        <5> QED
          BY <5>1, Zenon DEF SlotsOf
      <4> QED
        BY <2>4, <4>1
    <3>2. CASE b = a /\ pc[a] \in Busy /\ msg[a].slot = s
      BY <2>1, <3>2 DEF SlotsOf, Busy
    <3>3. CASE b = a /\ \E i \in 1 .. Len(queue[a]) : queue[a][i].slot = s
      <4>1. PICK i \in 1 .. Len(queue[a]) : queue[a][i].slot = s
        BY <3>3
      <4>2. i \in DOMAIN queue'[a] /\ queue'[a][i].slot = s
        BY <2>2, <2>3, <4>1
      <4> QED
        BY <3>3, <4>2 DEF SlotsOf
    <3> QED
      BY <1>1, <2>4, <3>1, <3>2, <3>3, KeptSlots
  <2> QED
    BY <1>3, <2>1, <2>4
<1>12. ASSUME NEW a \in Apps, App(a)
       PROVE  \/ web'.pc \in {"dispatch", "close"} /\ web'.slot = s
              \/ \E b \in Apps : s \in SlotsOf(b)'
  <2>1. web' = web
    BY <1>12 DEF App, Receive, Encode, Reply, Close, Release, FreeBuffer
  <2>2. sess[s].inUse
    BY <1>1, <1>12
    DEF App, Receive, Encode, Reply, Close, Release, FreeBuffer, SessType
  <2>3. ASSUME NEW b \in Apps, s \in SlotsOf(b)
        PROVE  s \in SlotsOf(b)'
    <3>1. CASE b # a
      BY <1>1, <1>12, <2>3, <3>1, KeptByOthers
    <3>2. CASE b = a
      <4>1. sess' # [sess EXCEPT ![s].inUse = FALSE]
        BY <1>1 DEF SessType
      <4> QED
        BY <1>1, <1>12, <2>3, <3>2, <4>1, KeptStep
    <3> QED
      BY <3>1, <3>2
  <2> QED
    BY <1>3, <2>1, <2>2, <2>3
<1>13. CASE UNCHANGED vars
  <2>1. UNCHANGED <<queue, pc, msg, sess, web>>
    BY <1>13 DEF vars
  <2> QED
    BY <1>3, <1>4, <2>1
<1> QED
  BY <1>5, <1>6, <1>7, <1>8, <1>9, <1>10, <1>11, <1>12, <1>13 DEF Next, Web

\* A session in use is known to a thread that will release it, unless an encoder
\* has failed: no error path of the web server or of an application loses one.
THEOREM SessionsAreKnown == Spec => []NoSessionLost
<1>1. Init => NoSessionLost
  BY DEF Init, NoSessionLost
<1> QED
  BY <1>1, RestInvariant, SessionsStep, PTL DEF Spec

-----------------------------------------------------------------------------
(* RestApi *)

\* A client has one connection: whose a socket is tells the clients apart.
PeersApart(k) ==
  \A f, g \in Fds : k[f].client # None /\ k[f].client = k[g].client => f = g

ApiInv == RestInv /\ NoSessionLost /\ PeersApart(conn)

\* What a step may do to the sockets.
LEMMA ConnSteps ==
  ASSUME [Next]_vars
  PROVE  conn' = conn \/ Accept \/ (\E f : Answer(f)) \/ (\E f : CloseFd(f))
<1>1. CASE Accept \/ AllocateSession \/ ReadRequest \/ ParseRequest \/ Dispatch \/ EndSession
  BY <1>1, Zenon
  DEF AllocateSession, ReadRequest, ParseRequest, Dispatch, EndSession, Refuse
<1>2. ASSUME NEW a \in Apps, PostInternal(a) \/ App(a)
      PROVE  conn' = conn \/ (\E f : Answer(f)) \/ (\E f : CloseFd(f))
  BY <1>2, Zenon
  DEF PostInternal, App, Receive, Encode, Reply, Close, Release, FreeBuffer
<1>3. CASE UNCHANGED vars
  BY <1>3, Zenon DEF vars
<1> QED
  BY <1>1, <1>2, <1>3, Zenon DEF Next, Web

\* The server lets nobody connect twice: no step gives two sockets one client.
LEMMA PeersStep ==
  ASSUME SessType, PeersApart(conn), [Next]_vars
  PROVE  PeersApart(conn')
<1>1. CASE conn' = conn
  BY <1>1
<1>2. CASE Accept
  <2>1. PICK f \in Fds, c \in Clients :
          /\ ~Connected(c)
          /\ conn' = [conn EXCEPT ![f] = [client |-> c, replies |-> 0]]
    BY <1>2 DEF Accept
  <2>2. \A g \in Fds : conn'[g].client = IF g = f THEN c ELSE conn[g].client
    BY <2>1 DEF SessType
  <2>3. \A g \in Fds : conn[g].client # c
    BY <2>1 DEF Connected
  <2> QED
    BY <2>2, <2>3 DEF PeersApart
<1>3. ASSUME NEW f, Answer(f)
      PROVE  PeersApart(conn')
  <2>1. \A g \in Fds : conn'[g].client = conn[g].client
    BY <1>3 DEF Answer, SessType
  <2> QED
    BY <2>1 DEF PeersApart
<1>4. ASSUME NEW f, CloseFd(f)
      PROVE  PeersApart(conn')
  <2>1. \A g \in Fds : conn'[g].client = IF g = f THEN None ELSE conn[g].client
    BY <1>4 DEF CloseFd, NoPeer, SessType
  <2> QED
    BY <2>1 DEF PeersApart
<1> QED
  BY <1>1, <1>2, <1>3, <1>4, ConnSteps

\* Replies, of any sockets.
RepliesOf(k) == [c \in Clients |->
  IF \E f \in Fds : k[f].client = c
  THEN k[CHOOSE f \in Fds : k[f].client = c].replies ELSE None]

\* A client's answers are the ones on its socket.
LEMMA RepliesAre ==
  ASSUME NEW k, PeersApart(k), NEW c \in Clients
  PROVE  /\ \A f \in Fds : k[f].client = c => RepliesOf(k)[c] = k[f].replies
         /\ (\A f \in Fds : k[f].client # c) => RepliesOf(k)[c] = None
<1>1. ASSUME NEW f \in Fds, k[f].client = c
      PROVE  RepliesOf(k)[c] = k[f].replies
  <2> DEFINE g == CHOOSE h \in Fds : k[h].client = c
  <2>1. g \in Fds /\ k[g].client = c
    BY <1>1
  <2>2. RepliesOf(k)[c] = k[g].replies
    BY <1>1 DEF RepliesOf
  <2> HIDE DEF g
  <2>3. g = f
    BY <1>1, <2>1, SessionAssumption DEF PeersApart
  <2> QED
    BY <2>2, <2>3
<1>2. ASSUME \A f \in Fds : k[f].client # c
      PROVE  RepliesOf(k)[c] = None
  BY <1>2 DEF RepliesOf
<1> QED
  BY <1>1, <1>2

\* What becomes of a socket concerns its client alone.
LEMMA RepliesStep ==
  ASSUME PeersApart(conn), PeersApart(conn'), NEW f \in Fds, NEW c \in Clients,
         \A g \in Fds : g # f => conn'[g] = conn[g],
         \/ conn[f].client = c
         \/ conn[f].client = None /\ \A g \in Fds : conn[g].client # c,
         conn'[f].client \in {c, None}
  PROVE  Replies' = [Replies EXCEPT ![c] =
                       IF conn'[f].client = c THEN conn'[f].replies ELSE None]
<1> DEFINE New == IF conn'[f].client = c THEN conn'[f].replies ELSE None
<1>1. Replies = RepliesOf(conn) /\ Replies' = RepliesOf(conn')
  BY DEF Replies, RepliesOf, Connected
<1>2. RepliesOf(conn')[c] = New
  <2>1. CASE conn'[f].client = c
    BY <2>1, RepliesAre
  <2>2. CASE conn'[f].client # c
    <3>1. \A g \in Fds : conn'[g].client # c
      BY <2>2, SessionAssumption DEF PeersApart
    <3> QED
      BY <2>2, <3>1, RepliesAre
  <2> QED
    BY <2>1, <2>2
<1>3. ASSUME NEW d \in Clients, d # c
      PROVE  RepliesOf(conn')[d] = RepliesOf(conn)[d]
  <2>1. conn[f].client # d /\ conn'[f].client # d
    BY <1>3, SessionAssumption
  <2>2. CASE \E g \in Fds : conn[g].client = d
    <3>1. PICK g \in Fds : conn[g].client = d
      BY <2>2
    <3>2. conn'[g] = conn[g]
      BY <2>1, <3>1
    <3> QED
      BY <3>1, <3>2, RepliesAre
  <2>3. CASE \A g \in Fds : conn[g].client # d
    <3>1. \A g \in Fds : conn'[g].client # d
      BY <2>1, <2>3
    <3> QED
      BY <2>3, <3>1, RepliesAre
  <2> QED
    BY <2>2, <2>3
<1> HIDE DEF New
<1>4. Replies' = [Replies EXCEPT ![c] = New]
  <2>1. Replies' = [d \in Clients |-> RepliesOf(conn')[d]]
    BY <1>1 DEF RepliesOf
  <2>2. Replies = [d \in Clients |-> RepliesOf(conn)[d]]
    BY <1>1 DEF RepliesOf
  <2> QED
    BY <1>2, <1>3, <2>1, <2>2
<1> QED
  BY <1>4 DEF New

\* An answer on a client's socket, and the end of its connection.
LEMMA RepliesAnswer ==
  ASSUME SessType, PeersApart(conn), PeersApart(conn'), NEW f \in Fds, NEW c \in Clients,
         conn[f].client = c, Answer(f)
  PROVE  Replies[c] = conn[f].replies /\ Replies' = [Replies EXCEPT ![c] = conn[f].replies + 1]
<1>1. conn'[f].client = c /\ conn'[f].replies = conn[f].replies + 1
  BY DEF SessType, Answer
<1>2. \A g \in Fds : g # f => conn'[g] = conn[g]
  BY DEF SessType, Answer
<1>3. Replies[c] = conn[f].replies
  BY RepliesAre DEF Replies, RepliesOf, Connected
<1> QED
  BY <1>1, <1>2, <1>3, RepliesStep

\* The socket's answers are no client's once it is closed.
LEMMA RepliesClose ==
  ASSUME SessType, PeersApart(conn), PeersApart(conn'), NEW f \in Fds, NEW c \in Clients,
         conn[f].client = c, CloseFd(f)
  PROVE  Replies[c] = conn[f].replies /\ Replies' = [Replies EXCEPT ![c] = None]
<1>1. conn'[f].client = None /\ None # c
  BY SessionAssumption DEF SessType, CloseFd, NoPeer
<1>2. \A g \in Fds : g # f => conn'[g] = conn[g]
  BY DEF SessType, CloseFd
<1>3. Replies[c] = conn[f].replies
  BY RepliesAre DEF Replies, RepliesOf, Connected
<1> QED
  BY <1>1, <1>2, <1>3, RepliesStep

\* The clients in a queue that takes a message, and in one that gives one up.
LEMMA CallersAppend ==
  ASSUME NEW S, NEW q \in Seq(S), NEW m \in S
  PROVE  Callers(Append(q, m)) = Append(Callers(q), Caller(m))
<1> DEFINE C(x) == Caller(x)
<1>1. Callers(q) = [i \in 1 .. Len(q) |-> C(q[i])] /\ Len(q) \in Nat
  BY DEF Callers
<1>2. Callers(Append(q, m)) = [i \in 1 .. Len(q) + 1 |-> C(Append(q, m)[i])]
  BY DEF Callers
<1> HIDE DEF C
<1>3. Append(Callers(q), C(m)) =
        [i \in 1 .. Len(q) + 1 |-> IF i = Len(q) + 1 THEN C(m) ELSE Callers(q)[i]]
  BY <1>1
<1>4. \A i \in 1 .. Len(q) + 1 :
        C(Append(q, m)[i]) = IF i = Len(q) + 1 THEN C(m) ELSE Callers(q)[i]
  BY <1>1
<1>5. Callers(Append(q, m)) = Append(Callers(q), C(m))
  BY <1>2, <1>3, <1>4
<1> QED
  BY <1>5 DEF C

\* The oldest message's client leaves the line with its message.
LEMMA CallersTail ==
  ASSUME NEW S, NEW q \in Seq(S), q # <<>>
  PROVE  /\ Callers(Tail(q)) = Tail(Callers(q)) /\ Callers(q) # <<>>
         /\ Head(Callers(q)) = Caller(Head(q)) /\ Len(Callers(q)) = Len(q)
<1> DEFINE C(x) == Caller(x)
<1>1. /\ Len(q) \in Nat \ {0} /\ Len(Tail(q)) = Len(q) - 1
      /\ \A i \in 1 .. Len(Tail(q)) : Tail(q)[i] = q[i + 1]
      /\ Head(q) = q[1] /\ Tail(q) \in Seq(S)
  BY TailFacts
<1>2. Callers(q) = [i \in 1 .. Len(q) |-> C(q[i])]
  BY DEF Callers
<1>3. Callers(Tail(q)) = [i \in 1 .. Len(q) - 1 |-> C(Tail(q)[i])]
  BY <1>1 DEF Callers
<1> HIDE DEF C
<1>4. Len(Callers(q)) = Len(q) /\ Callers(q) # <<>> /\ Head(Callers(q)) = C(q[1])
  BY <1>1, <1>2
<1>5. Tail(Callers(q)) = [i \in 1 .. Len(q) - 1 |-> C(q[i + 1])]
  BY <1>1, <1>2
<1>6. Callers(Tail(q)) = Tail(Callers(q))
  BY <1>1, <1>3, <1>5
<1> QED
  BY <1>1, <1>4, <1>6 DEF C

\* The web thread's client, and what went out on its connection.
LEMMA TalkingFits ==
  ASSUME SessType, WebFits, PeersApart(conn), web.pc # "accept"
  PROVE  /\ web.fd \in Fds /\ Talking \in Clients /\ Talking # None
         /\ conn[web.fd].client = Talking
         /\ Replies[Talking] = IF web.pc = "close" THEN 1 ELSE 0
<1>1. web.fd \in Fds /\ Talking \in Clients /\ conn[web.fd].client = Talking
  BY DEF WebFits, Talking
<1>2. conn[web.fd].replies = IF web.pc = "close" THEN 1 ELSE 0
  BY DEF WebFits
<1>3. Replies[Talking] = conn[web.fd].replies
  BY <1>1, RepliesAre DEF Replies, RepliesOf, Connected
<1> QED
  BY <1>1, <1>2, <1>3, SessionAssumption

\* What the API shows of the applications changes with their own variables.
LEMMA AppsSame ==
  ASSUME UNCHANGED <<pc, msg, failed>>
  PROVE  UNCHANGED <<Serving, Releasing>> /\ (failed > 0)' = (failed > 0)
  BY DEF Serving, Releasing

\* Nor does what waits for them change while the queues stay as they are.
LEMMA LineSame == queue' = queue => Line' = Line
  BY Zenon DEF Line

\* What becomes of a queue shows in its own line only.
LEMMA LineStep ==
  ASSUME NEW a \in Apps, NEW r, Callers(queue'[a]) = r,
         \A b \in Apps : b # a => queue'[b] = queue[b]
  PROVE  Line' = [Line EXCEPT ![a] = r] /\ Line[a] = Callers(queue[a])
<1>1. Line' = [b \in Apps |-> Callers(queue'[b])] /\ Line = [b \in Apps |-> Callers(queue[b])]
  BY DEF Line
<1> QED
  BY <1>1

\* A message that is posted joins the line if the queue had room for it.
LEMMA LineAppend ==
  ASSUME QueueType, NEW a \in Apps, NEW m \in Message, HasRoom(queue[a]),
         queue' = [queue EXCEPT ![a] = Append(@, m)]
  PROVE  Line' = [Line EXCEPT ![a] = Append(@, Caller(m))] /\ Len(Line[a]) < QLen
<1>1. queue[a] \in Seq(Message) /\ queue'[a] = Append(queue[a], m)
  BY DEF QueueType, QueueFits
<1>2. Callers(queue'[a]) = Append(Callers(queue[a]), Caller(m))
  BY <1>1, CallersAppend
<1>3. \A b \in Apps : b # a => queue'[b] = queue[b]
  BY DEF QueueType, QueueFits
<1>4. Line' = [Line EXCEPT ![a] = Append(Callers(queue[a]), Caller(m))]
        /\ Line[a] = Callers(queue[a])
  BY <1>2, <1>3, LineStep
<1>5. Len(Callers(queue[a])) = Len(queue[a])
  BY <1>1 DEF Callers
<1> QED
  BY <1>4, <1>5 DEF HasRoom

\* No session is free: somebody has a client's request, or an encoder failed.
LEMMA FullBacklog ==
  ASSUME ApiInv, web.pc = "alloc", Free = {}, failed = 0
  PROVE  Api!Backlog
<1>1. /\ QueueType /\ AppType /\ JobsFit /\ sess[1].inUse /\ 1 \in Slots
  BY Types, SessionAssumption DEF ApiInv, RestInv, Free, Slots
<1>2. PICK a \in Apps : 1 \in SlotsOf(a)
  BY <1>1 DEF ApiInv, NoSessionLost
<1>3. CASE pc[a] = "release"
  BY <1>3 DEF Api!Backlog, Releasing
<1>4. CASE pc[a] # "release" /\ pc[a] \in Busy /\ msg[a].slot = 1
  <2>1. 0 \in Places(a) /\ Open(a, 0) /\ Job(a, 0) = msg[a]
    BY <1>1, <1>4, SessionAssumption DEF Places, QueueType, Open, Slot, Job
  <2>2. msg[a].client \in Clients
    BY <1>1, <2>1 DEF JobsFit, OpenFits
  <2>3. Serving[a] # None
    BY <1>1, <1>4, <2>2, SessionAssumption DEF Serving, Caller, Busy
  <2> QED
    BY <2>3 DEF Api!Backlog
<1>5. CASE \E i \in 1 .. Len(queue[a]) : queue[a][i].slot = 1
  <2>1. PICK i \in 1 .. Len(queue[a]) : queue[a][i].slot = 1
    BY <1>5
  <2>2. i \in Places(a) /\ i # 0 /\ Job(a, i) = queue[a][i] /\ i \in DOMAIN queue[a]
    BY <1>1, <2>1 DEF Places, QueueType, Job
  <2>3. Open(a, i)
    BY <1>1, <2>1, <2>2, SessionAssumption DEF Open, Slot
  <2>4. queue[a][i].client \in Clients
    BY <1>1, <2>2, <2>3 DEF JobsFit, OpenFits
  <2>5. i \in DOMAIN Line[a] /\ Line[a][i] # None
    BY <1>1, <2>1, <2>2, <2>4, SessionAssumption DEF Line, Callers, Caller
  <2> QED
    BY <2>5 DEF Api!Backlog
<1> QED
  BY <1>1, <1>2, <1>3, <1>4, <1>5, KeptSlots

\* The web thread's steps are the API's: it connects a client, refuses its
\* request or passes it on, hangs up, or leaves it when no session is free.
LEMMA WebImplements ==
  ASSUME ApiInv, PeersApart(conn'), Accept \/ Web
  PROVE  Api!Next \/ UNCHANGED Api!vars
<1>1. SessType /\ QueueType /\ AppType /\ WebFits /\ PeersApart(conn)
  BY Types DEF ApiInv, RestInv
<1>2. /\ UNCHANGED <<Serving, Releasing>> /\ (failed > 0)' = (failed > 0)
  <2>1. UNCHANGED <<pc, msg, failed>>
    BY DEF Accept, Web, AllocateSession, ReadRequest, ParseRequest, Dispatch, EndSession
  <2> QED
    BY <2>1, AppsSame
<1>3. conn' = conn => Replies' = Replies
  BY Zenon DEF Replies, Connected
<1>4. web'.pc = "accept" => Talking' = None
  BY DEF Talking
<1>5. CASE Accept
  <2>1. PICK f \in Fds, c \in Clients :
          /\ conn[f] = NoPeer /\ ~Connected(c)
          /\ conn' = [conn EXCEPT ![f] = [client |-> c, replies |-> 0]]
          /\ web' = [pc |-> "alloc", fd |-> f, slot |-> None]
    BY <1>5 DEF Accept
  <2>2. /\ \A g \in Fds : conn[g].client # c
        /\ \A g \in Fds : g # f => conn'[g] = conn[g]
        /\ conn[f].client = None /\ conn'[f].client = c /\ conn'[f].replies = 0
    BY <1>1, <2>1 DEF SessType, NoPeer, Connected
  <2>3. Replies' = [Replies EXCEPT ![c] = 0]
    BY <1>1, <2>2, RepliesStep
  <2>4. Replies[c] = None
    BY <1>1, <2>2, RepliesAre DEF Replies, RepliesOf, Connected
  <2>5. Talking = None /\ Talking' = c
    BY <1>5, <2>1, <2>2 DEF Accept, Talking
  <2>6. Line' = Line
    BY <1>5, LineSame DEF Accept
  <2> QED
    BY <1>2, <2>3, <2>4, <2>5, <2>6 DEF Api!Connect, Api!Next
<1>6. ASSUME web.pc # "accept", Refuse, web.pc # "close", queue' = queue
      PROVE  Api!Refuse
  <2>1. /\ web.fd \in Fds /\ Talking \in Clients /\ Talking # None
        /\ conn[web.fd].client = Talking /\ Replies[Talking] = 0
    BY <1>1, <1>6, TalkingFits
  <2>2. Replies[Talking] = conn[web.fd].replies
          /\ Replies' = [Replies EXCEPT ![Talking] = conn[web.fd].replies + 1]
    BY <1>1, <1>6, <2>1, RepliesAnswer DEF Refuse
  <2>3. Replies' = [Replies EXCEPT ![Talking] = 1]
    <3>1. conn[web.fd].replies + 1 = 1
      BY <2>1, <2>2
    <3> QED
      BY <2>2, <3>1
  <2>4. Talking' = Talking
    BY <1>1, <1>6, <2>1 DEF Refuse, Answer, SessType, Talking
  <2> QED
    BY <1>2, <1>6, <2>1, <2>3, <2>4, LineSame DEF Api!Refuse
<1>7. ASSUME web.pc # "accept", CloseFd(web.fd), web' = Idle, queue' = queue
      PROVE  Api!HangUp
  <2>1. /\ web.fd \in Fds /\ Talking \in Clients /\ Talking # None
        /\ conn[web.fd].client = Talking
    BY <1>1, <1>7, TalkingFits
  <2>2. Replies' = [Replies EXCEPT ![Talking] = None]
    BY <1>1, <1>7, <2>1, RepliesClose
  <2>3. Talking' = None
    BY <1>7 DEF Talking, Idle
  <2> QED
    BY <1>2, <1>7, <2>1, <2>2, <2>3, LineSame DEF Api!HangUp
<1>8. ASSUME web.pc # "accept", web'.pc # "accept", web'.fd = web.fd, UNCHANGED <<conn, queue>>
      PROVE  UNCHANGED Api!vars
  <2>1. Talking' = Talking
    BY <1>8 DEF Talking
  <2> QED
    BY <1>2, <1>3, <1>8, <2>1, LineSame DEF Api!vars
<1>9. CASE AllocateSession
  <2>1. web.pc = "alloc" /\ UNCHANGED <<conn, queue>>
    BY <1>9 DEF AllocateSession
  <2>2. CASE Free = {} /\ web' = Idle
    <3>1. Talking' = None /\ Talking # None
      BY <1>1, <2>1, <2>2, TalkingFits DEF Talking, Idle
    <3>2. failed > 0 \/ Api!Backlog
      BY <1>1, <2>1, <2>2, FullBacklog DEF AppType
    <3> QED
      BY <1>2, <1>3, <2>1, <3>1, <3>2, LineSame DEF Api!Abandon, Api!Next
  <2>3. ASSUME NEW t \in Slots, web' = [web EXCEPT !.pc = "read", !.slot = t]
        PROVE  UNCHANGED Api!vars
    <3>1. web'.pc = "read" /\ web'.fd = web.fd
      BY <1>1, <2>3 DEF SessType
    <3> QED
      BY <1>8, <2>1, <3>1
  <2> QED
    BY <1>9, <2>2, <2>3 DEF AllocateSession, Free
<1>10. CASE ReadRequest
  <2>1. web.pc = "read" /\ queue' = queue
    BY <1>10 DEF ReadRequest
  <2>2. CASE web' = [web EXCEPT !.pc = "parse"] /\ UNCHANGED conn
    <3>1. web'.pc = "parse" /\ web'.fd = web.fd
      BY <1>1, <2>2 DEF SessType
    <3> QED
      BY <1>8, <2>1, <2>2, <3>1
  <2> QED
    BY <1>7, <1>10, <2>1, <2>2 DEF ReadRequest, Api!Next
<1>11. CASE ParseRequest
  <2>1. web.pc = "parse" /\ queue' = queue
    BY <1>11 DEF ParseRequest
  <2>2. CASE web' = [web EXCEPT !.pc = "dispatch"] /\ UNCHANGED conn
    <3>1. web'.pc = "dispatch" /\ web'.fd = web.fd
      BY <1>1, <2>2 DEF SessType
    <3> QED
      BY <1>8, <2>1, <2>2, <3>1
  <2> QED
    BY <1>6, <1>11, <2>1, <2>2 DEF ParseRequest, Api!Next
<1>12. CASE Dispatch
  <2>1. web.pc = "dispatch"
    BY <1>12 DEF Dispatch
  <2>2. ASSUME NEW a \in Apps, NEW p \in Pools, HasRoom(queue[a]),
               queue' = [queue EXCEPT ![a] =
                 Append(@, [pool |-> p, slot |-> web.slot, client |-> conn[web.fd].client])],
               web' = Idle, UNCHANGED conn
        PROVE  Api!Accept(a)
    <3> DEFINE m == [pool |-> p, slot |-> web.slot, client |-> conn[web.fd].client]
    <3>1. /\ Talking \in Clients /\ Talking # None /\ conn[web.fd].client = Talking
          /\ Replies[Talking] = 0 /\ web.slot \in Slots
      BY <1>1, <2>1, TalkingFits DEF WebFits, Taken
    <3>2. m \in Message /\ Caller(m) = Talking
      BY <3>1, SessionAssumption DEF Message, Caller
    <3> HIDE DEF m
    <3>3. queue[a] \in Seq(Message) /\ queue' = [queue EXCEPT ![a] = Append(@, m)]
      BY <1>1, <2>2 DEF m, QueueType
    <3>4. Line' = [Line EXCEPT ![a] = Append(@, Talking)] /\ Len(Line[a]) < QLen
      BY <1>1, <2>2, <3>2, <3>3, LineAppend
    <3>5. Talking' = None
      BY <2>2 DEF Talking, Idle
    <3> QED
      BY <1>2, <1>3, <2>2, <3>1, <3>4, <3>5 DEF Api!Accept
  <2> QED
    BY <1>6, <1>12, <2>1, <2>2 DEF Dispatch, Api!Next
<1>13. CASE EndSession
  BY <1>7, <1>13 DEF EndSession, Api!Next
<1> QED
  BY <1>5, <1>9, <1>10, <1>11, <1>12, <1>13 DEF Web

\* An application thread that has a client's request in hand knows the client,
\* and what went out on the client's connection.
LEMMA ServingFits ==
  ASSUME ApiInv, NEW a \in Apps, pc[a] \in {"encode", "reply", "close"}, msg[a].slot # None
  PROVE  /\ sess[msg[a].slot].fd \in Fds /\ conn[sess[msg[a].slot].fd].client = msg[a].client
         /\ msg[a].client \in Clients /\ msg[a].client # None
         /\ Serving[a] = msg[a].client
         /\ Replies[msg[a].client] = IF pc[a] = "close" THEN 1 ELSE 0
         /\ web.pc # "accept" => web.fd # sess[msg[a].slot].fd
<1>1. QueueType /\ JobsFit /\ PeersApart(conn)
  BY Types DEF ApiInv, RestInv
<1>2. 0 \in Places(a) /\ Open(a, 0) /\ Job(a, 0) = msg[a] /\ Fd(a, 0) = sess[msg[a].slot].fd
  BY <1>1 DEF Places, QueueType, Open, Slot, Job, Fd, Busy
<1>3. /\ sess[msg[a].slot].fd \in Fds /\ conn[sess[msg[a].slot].fd].client = msg[a].client
      /\ msg[a].client \in Clients /\ msg[a].client # None
      /\ conn[sess[msg[a].slot].fd].replies = IF Answered(a, 0) THEN 1 ELSE 0
      /\ web.pc # "accept" => web.fd # sess[msg[a].slot].fd
  BY <1>1, <1>2, SessionAssumption DEF JobsFit, OpenFits
<1>4. Serving[a] = msg[a].client
  BY DEF Serving, Caller
<1>5. Replies[msg[a].client] = conn[sess[msg[a].slot].fd].replies
  <2>1. \A f \in Fds, c \in Clients : conn[f].client = c => RepliesOf(conn)[c] = conn[f].replies
    BY <1>1, RepliesAre
  <2>2. Replies = RepliesOf(conn)
    BY Zenon DEF Replies, RepliesOf, Connected
  <2> QED
    BY <1>3, <2>1, <2>2, Zenon
<1> QED
  BY <1>3, <1>4, <1>5 DEF Answered

\* What a thread does shows in its own place only.
LEMMA ServingStep ==
  ASSUME AppType, AppType', NEW a \in Apps,
         \A b \in Apps : b # a => pc'[b] = pc[b] /\ msg'[b] = msg[b]
  PROVE  /\ \A v : v = (IF pc'[a] \in {"encode", "reply", "close"} THEN Caller(msg'[a]) ELSE None)
              => Serving' = [Serving EXCEPT ![a] = v]
         /\ Releasing' = IF pc'[a] = "release" THEN Releasing \cup {a} ELSE Releasing \ {a}
<1>1. Serving = [b \in Apps |->
        IF pc[b] \in {"encode", "reply", "close"} THEN Caller(msg[b]) ELSE None]
  BY DEF Serving
<1>2. Serving' = [b \in Apps |->
        IF pc'[b] \in {"encode", "reply", "close"} THEN Caller(msg'[b]) ELSE None]
  BY DEF Serving, Caller
<1>3. ASSUME NEW v, v = IF pc'[a] \in {"encode", "reply", "close"} THEN Caller(msg'[a]) ELSE None
      PROVE  Serving' = [Serving EXCEPT ![a] = v]
  BY <1>1, <1>2, <1>3
<1>4. Releasing' = IF pc'[a] = "release" THEN Releasing \cup {a} ELSE Releasing \ {a}
  BY DEF Releasing
<1> QED
  BY <1>3, <1>4

\* The web thread talks to the same client while others' sockets change.
LEMMA TalkingStep ==
  ASSUME SessType, web' = web, NEW f, web.pc # "accept" => web.fd # f,
         conn' = conn \/ Answer(f) \/ CloseFd(f)
  PROVE  Talking' = Talking
<1>1. CASE web.pc = "accept"
  BY <1>1 DEF Talking
<1>2. CASE web.pc # "accept"
  <2>1. conn'[web.fd] = conn[web.fd]
    <3>1. CASE conn' = conn
      BY <3>1
    <3>2. CASE Answer(f)
      BY <1>2, <3>2 DEF Answer
    <3>3. CASE CloseFd(f)
      BY <1>2, <3>3 DEF CloseFd
    <3> QED
      BY <3>1, <3>2, <3>3
  <2> QED
    BY <2>1 DEF Talking
<1> QED
  BY <1>1, <1>2

\* An application's steps are the API's too: it takes a request from its line,
\* answers the client, closes its connection and releases the session; what it
\* does with its buffers does not show.
LEMMA AppImplements ==
  ASSUME ApiInv, ApiInv', NEW a \in Apps, App(a)
  PROVE  Api!Next \/ UNCHANGED Api!vars
<1>1. /\ SessType /\ QueueType /\ AppType /\ AppType' /\ BuffersFit /\ NoSliceLost
      /\ PeersApart(conn) /\ PeersApart(conn')
  <2>1. SessType /\ QueueType /\ AppType /\ BuffersFit /\ NoSliceLost /\ PeersApart(conn)
    BY Types DEF ApiInv, RestInv
  <2>2. PeersApart(conn')
    BY DEF ApiInv
  <2>3. AppType'
    BY <2>1, BuffersStep
  <2> QED
    BY <2>1, <2>2, <2>3
<1>2. \A b \in Apps : b # a => pc'[b] = pc[b] /\ msg'[b] = msg[b] /\ queue'[b] = queue[b]
  BY <1>1, OthersStay
<1>3. /\ \A v : v = (IF pc'[a] \in {"encode", "reply", "close"} THEN Caller(msg'[a]) ELSE None)
           => Serving' = [Serving EXCEPT ![a] = v]
      /\ Releasing' = IF pc'[a] = "release" THEN Releasing \cup {a} ELSE Releasing \ {a}
  BY <1>1, <1>2, ServingStep
<1>4. /\ Serving[a] = IF pc[a] \in {"encode", "reply", "close"} THEN Caller(msg[a]) ELSE None
      /\ a \in Releasing <=> pc[a] = "release"
  BY DEF Serving, Releasing
<1>5. conn' = conn => Replies' = Replies
  BY Zenon DEF Replies, Connected
<1>6. ASSUME web' = web, conn' = conn
      PROVE  Talking' = Talking
  BY <1>6 DEF Talking
<1>7. Serving \in [Apps -> Clients \cup {None}]
  <2>1. \A b \in Apps : msg[b].client \in Clients \cup {None}
    BY <1>1 DEF AppType, Message
  <2> QED
    BY <2>1 DEF Serving, Caller
<1>8. ASSUME Serving' = [Serving EXCEPT ![a] = Serving[a]]
      PROVE  Serving' = Serving
  BY <1>7, <1>8
<1>9. CASE Receive(a)
  <2>1. /\ pc[a] = "recv" /\ queue[a] # <<>> /\ queue' = [queue EXCEPT ![a] = Tail(@)]
        /\ UNCHANGED <<web, conn, failed>>
    BY <1>9 DEF Receive
  <2>2. PICK next \in AfterHandler(Head(queue[a])) :
          /\ pc' = [pc EXCEPT ![a] = next]
          /\ msg' = [msg EXCEPT ![a] = IF next = "recv" THEN NoMessage ELSE Head(queue[a])]
    BY <1>9 DEF Receive
  <2>3. pc'[a] = next /\ msg'[a] = IF next = "recv" THEN NoMessage ELSE Head(queue[a])
    BY <1>1, <2>2 DEF AppType
  <2>4. \/ next \in {"encode", "reply"}
        \/ next = "recv" /\ Head(queue[a]).slot = None
    BY <2>2 DEF AfterHandler
  <2>5. Serving' = [Serving EXCEPT ![a] = Caller(Head(queue[a]))]
    BY <1>3, <2>3, <2>4 DEF Caller
  <2>6. queue[a] \in Seq(Message) /\ queue'[a] = Tail(queue[a])
    BY <1>1, <2>1 DEF QueueType, QueueFits
  <2>7. /\ Callers(queue'[a]) = Tail(Callers(queue[a])) /\ Callers(queue[a]) # <<>>
        /\ Head(Callers(queue[a])) = Caller(Head(queue[a]))
    BY <2>1, <2>6, CallersTail
  <2>8. Line' = [Line EXCEPT ![a] = Tail(Callers(queue[a]))] /\ Line[a] = Callers(queue[a])
    BY <1>2, <2>7, LineStep
  <2>9. Serving[a] = None /\ a \notin Releasing /\ Releasing' = Releasing
    BY <1>3, <1>4, <2>1, <2>3, <2>4
  <2>10. Api!Take(a)
    BY <1>5, <1>6, <2>1, <2>5, <2>7, <2>8, <2>9 DEF Api!Take
  <2> QED
    BY <2>10 DEF Api!Next
<1>10. CASE Encode(a)
  <2>1. pc[a] = "encode" /\ UNCHANGED <<web, conn, queue>>
    BY <1>10 DEF Encode
  <2>2. Line' = Line /\ Replies' = Replies /\ Talking' = Talking
    BY <1>5, <1>6, <2>1, LineSame
  <2>3. CASE pc' = [pc EXCEPT ![a] = "reply"] /\ UNCHANGED <<msg, failed>>
    <3>1. pc'[a] = "reply"
      BY <1>1, <2>3 DEF AppType
    <3>2. Serving' = [Serving EXCEPT ![a] = Serving[a]] /\ Releasing' = Releasing
      BY <1>3, <1>4, <2>1, <2>3, <3>1
    <3> QED
      BY <1>8, <2>2, <2>3, <3>2 DEF Api!vars
  <2>4. ASSUME Done(a), failed' > 0
        PROVE  Api!Fail(a)
    <3>1. pc'[a] = "recv"
      BY <1>1, <2>4 DEF Done, AppType
    <3>2. Serving' = [Serving EXCEPT ![a] = None] /\ Releasing' = Releasing
      BY <1>3, <1>4, <2>1, <3>1
    <3>3. Serving[a] # None => Replies[Serving[a]] = 0
      <4>1. Serving[a] # None => msg[a].slot # None
        BY <1>4 DEF Caller
      <4> QED
        BY <2>1, <4>1, ServingFits
    <3>4. (failed > 0)' = TRUE
      BY <2>4
    <3> QED
      BY <2>2, <3>2, <3>3, <3>4 DEF Api!Fail
  <2>5. CASE used[a][msg[a].pool] = NumSlices /\ Done(a) /\ failed' = failed
    <3>1. failed # 0
      <4>1. held[a] = None /\ msg[a].pool \in Pools
        BY <1>1, <2>1 DEF BuffersFit, AppType, Message
      <4> QED
        BY <1>1, <2>5, <4>1, SessionAssumption DEF NoSliceLost
    <3>2. failed' > 0
      BY <1>1, <2>5, <3>1 DEF AppType
    <3> QED
      BY <2>4, <2>5, <3>2 DEF Api!Next
  <2>6. CASE Done(a) /\ failed' = failed + 1
    <3>1. failed' > 0
      BY <1>1, <2>6 DEF AppType
    <3> QED
      BY <2>4, <2>6, <3>1 DEF Api!Next
  <2> QED
    BY <1>10, <2>3, <2>5, <2>6 DEF Encode
<1>11. CASE Reply(a)
  <2>1. pc[a] = "reply" /\ UNCHANGED <<web, queue, msg, failed>>
    BY <1>11 DEF Reply
  <2>2. CASE msg[a].slot = None
    <3>1. pc' = [pc EXCEPT ![a] = "free"] /\ conn' = conn
      BY <1>11, <2>2 DEF Reply
    <3>2. pc'[a] = "free"
      BY <1>1, <3>1 DEF AppType
    <3>3. Serving[a] = None
      BY <1>4, <2>2 DEF Caller
    <3>4. Serving' = [Serving EXCEPT ![a] = Serving[a]] /\ Releasing' = Releasing
      BY <1>3, <1>4, <2>1, <3>2, <3>3
    <3> QED
      BY <1>5, <1>6, <1>8, <2>1, <3>1, <3>4, LineSame DEF Api!vars
  <2>3. CASE msg[a].slot # None
    <3>1. PICK f \in Fds, c \in Clients :
            /\ f = sess[msg[a].slot].fd /\ c = msg[a].client /\ c # None
            /\ conn[f].client = c /\ Serving[a] = c /\ Replies[c] = 0
            /\ web.pc # "accept" => web.fd # f
      BY <2>1, <2>3, ServingFits
    <3>2. Answer(f) /\ pc' = [pc EXCEPT ![a] = "close"]
      BY <1>11, <2>3, <3>1 DEF Reply
    <3>3. pc'[a] = "close"
      BY <1>1, <3>2 DEF AppType
    <3>4. Serving' = [Serving EXCEPT ![a] = Serving[a]] /\ Releasing' = Releasing
      BY <1>3, <1>4, <2>1, <3>3
    <3>5. Replies' = [Replies EXCEPT ![c] = 1]
      <4>1. Replies[c] = conn[f].replies
              /\ Replies' = [Replies EXCEPT ![c] = conn[f].replies + 1]
        BY <1>1, <3>1, <3>2, RepliesAnswer
      <4>2. conn[f].replies + 1 = 1
        BY <3>1, <4>1
      <4> QED
        BY <4>1, <4>2
    <3>6. Talking' = Talking
      BY <1>1, <2>1, <3>1, <3>2, TalkingStep
    <3>7. Line' = Line /\ Serving' = Serving /\ (failed > 0)' = (failed > 0)
      BY <1>8, <2>1, <3>4, LineSame
    <3>8. Api!Respond(a)
      BY <3>1, <3>4, <3>5, <3>6, <3>7 DEF Api!Respond
    <3> QED
      BY <3>8 DEF Api!Next
  <2> QED
    BY <2>2, <2>3
<1>12. CASE Close(a)
  <2>1. pc[a] = "close" /\ UNCHANGED <<web, queue, msg, failed>> /\ msg[a].slot # None
    BY <1>1, <1>12 DEF Close, BuffersFit
  <2>2. PICK f \in Fds, c \in Clients :
          /\ f = sess[msg[a].slot].fd /\ c = msg[a].client /\ c # None
          /\ conn[f].client = c /\ Serving[a] = c /\ Replies[c] = 1
          /\ web.pc # "accept" => web.fd # f
    BY <2>1, ServingFits
  <2>3. CloseFd(f) /\ pc' = [pc EXCEPT ![a] = "release"]
    BY <1>12, <2>2 DEF Close
  <2>4. pc'[a] = "release"
    BY <1>1, <2>3 DEF AppType
  <2>5. Serving' = [Serving EXCEPT ![a] = None] /\ Releasing' = Releasing \cup {a}
    BY <1>3, <2>4
  <2>6. Replies' = [Replies EXCEPT ![c] = None]
    BY <1>1, <2>2, <2>3, RepliesClose
  <2>7. Talking' = Talking
    BY <1>1, <2>1, <2>2, <2>3, TalkingStep
  <2>8. Line' = Line /\ (failed > 0)' = (failed > 0)
    BY <2>1, LineSame
  <2>9. Api!Close(a)
    BY <2>2, <2>5, <2>6, <2>7, <2>8 DEF Api!Close
  <2> QED
    BY <2>9 DEF Api!Next
<1>13. CASE Release(a)
  <2>1. pc[a] = "release" /\ UNCHANGED <<web, conn, queue, failed>>
    BY <1>13 DEF Release
  <2>2. pc'[a] \in {"recv", "free"}
    BY <1>1, <1>13 DEF Release, Done, AppType
  <2>3. Serving' = [Serving EXCEPT ![a] = Serving[a]] /\ Releasing' = Releasing \ {a}
    BY <1>3, <1>4, <2>1, <2>2
  <2>4. Line' = Line /\ Serving' = Serving /\ (failed > 0)' = (failed > 0)
    BY <1>8, <2>1, <2>3, LineSame
  <2>5. Api!Release(a)
    BY <1>4, <1>5, <1>6, <2>1, <2>3, <2>4 DEF Api!Release
  <2> QED
    BY <2>5 DEF Api!Next
<1>14. CASE FreeBuffer(a)
  <2>1. pc[a] = "free" /\ UNCHANGED <<web, conn, queue, failed>>
    BY <1>14 DEF FreeBuffer
  <2>2. pc'[a] = "recv"
    BY <1>1, <1>14 DEF FreeBuffer, Done, AppType
  <2>3. Serving' = [Serving EXCEPT ![a] = Serving[a]] /\ Releasing' = Releasing
    BY <1>3, <1>4, <2>1, <2>2
  <2> QED
    BY <1>5, <1>6, <1>8, <2>1, <2>3, LineSame DEF Api!vars
<1> QED
  BY <1>9, <1>10, <1>11, <1>12, <1>13, <1>14 DEF App

\* A step of the server and its applications is one of the API's, or does not
\* show.
LEMMA ApiStep == ApiInv /\ ApiInv' /\ [Next]_vars => [Api!Next]_(Api!vars)
<1> SUFFICES ASSUME ApiInv, ApiInv', [Next]_vars
             PROVE  Api!Next \/ UNCHANGED Api!vars
    OBVIOUS
<1>1. CASE Accept \/ Web
  BY <1>1, WebImplements DEF ApiInv
<1>2. ASSUME NEW a \in Apps, PostInternal(a)
      PROVE  Api!Post(a)
  <2>1. /\ HasRoom(queue[a]) /\ queue' = [queue EXCEPT ![a] = Append(@, NoMessage)]
        /\ UNCHANGED <<conn, web, pc, msg, failed>>
    BY <1>2 DEF PostInternal
  <2>2. QueueType /\ NoMessage \in Message /\ Caller(NoMessage) = None
    BY Types, NoMessageType DEF ApiInv, RestInv, Caller, NoMessage
  <2>3. Line' = [Line EXCEPT ![a] = Append(@, None)] /\ Len(Line[a]) < QLen
    <3>1. Line' = [Line EXCEPT ![a] = Append(@, Caller(NoMessage))] /\ Len(Line[a]) < QLen
      BY <2>1, <2>2, LineAppend
    <3> QED
      BY <2>2, <3>1
  <2>4. UNCHANGED <<Serving, Releasing>> /\ (failed > 0)' = (failed > 0)
    BY <2>1, AppsSame
  <2>5. Talking' = Talking /\ Replies' = Replies
    BY <2>1, Zenon DEF Talking, Replies, Connected
  <2> QED
    BY <2>3, <2>4, <2>5 DEF Api!Post
<1>3. ASSUME NEW a \in Apps, App(a)
      PROVE  Api!Next \/ UNCHANGED Api!vars
  BY <1>3, AppImplements
<1>4. CASE UNCHANGED vars
  <2>1. UNCHANGED <<conn, web, queue, pc, msg, failed>>
    BY <1>4 DEF vars
  <2>2. UNCHANGED <<Serving, Releasing>> /\ (failed > 0)' = (failed > 0) /\ Line' = Line
    BY <2>1, AppsSame, LineSame
  <2>3. Talking' = Talking /\ Replies' = Replies
    BY <2>1, Zenon DEF Talking, Replies, Connected
  <2> QED
    BY <2>2, <2>3 DEF Api!vars
<1>5. ASSUME NEW a \in Apps, PostInternal(a)
      PROVE  Api!Next
  BY <1>2, <1>5 DEF Api!Next
<1> QED
  BY <1>1, <1>3, <1>4, <1>5 DEF Next

\* The daemon starts with no client and no request.
LEMMA ApiInit == Init => ApiInv /\ Api!Init
<1> SUFFICES ASSUME Init PROVE ApiInv /\ Api!Init
    OBVIOUS
<1>1. ApiInv
  <2>1. NoSessionLost /\ PeersApart(conn)
    BY DEF Init, NoSessionLost, PeersApart, NoPeer
  <2> QED
    BY <2>1, RestInit DEF ApiInv
<1>2. Talking = None /\ (failed > 0) = FALSE
  BY DEF Init, Talking
<1>3. Replies = [c \in Clients |-> None]
  BY SessionAssumption DEF Init, Replies, Connected, NoPeer
<1>4. Line = [a \in Apps |-> <<>>]
  BY DEF Init, Line, Callers
<1>5. Serving = [a \in Apps |-> None] /\ Releasing = {}
  BY DEF Init, Serving, Releasing
<1> QED
  BY <1>1, <1>2, <1>3, <1>4, <1>5 DEF Api!Init

\* The session table, the sockets and the queues are a REST server as its
\* clients see one: however the threads interleave and socket numbers are used
\* again, each request is answered once, to the client that sent it, in the
\* order its application accepted it, and a client that is left without a
\* session has requests before it or a failed encoder to blame.
THEOREM RestImplementsApi == Spec => ImplementsApi
<1>1. ApiInv /\ [Next]_vars => ApiInv'
  BY RestStep, SessionsStep, PeersStep, Types DEF ApiInv, RestInv
<1> QED
  BY <1>1, ApiInit, ApiStep, PTL DEF Spec, ImplementsApi, Api!Spec
=============================================================================
