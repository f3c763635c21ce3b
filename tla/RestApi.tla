------------------------------- MODULE RestApi -------------------------------
(***************************************************************************)
(* What the daemon promises to the collectors that connect to its REST     *)
(* server: the web thread serves one client at a time, an accepted request *)
(* is one application's, which answers its requests one after the other in *)
(* the order they were accepted, each exactly once and to the client that  *)
(* asked.  A client gets no answer in three cases only: its request could  *)
(* not be read, requests before it keep the sessions, or an encoder has    *)
(* failed.  RestSession implements it with a session table, socket numbers *)
(* and message queues.                                                     *)
(***************************************************************************)
EXTENDS Naturals, Sequences

CONSTANTS
  Clients,  \* the collectors
  Apps,     \* the applications that answer
  QLen,     \* how many messages may wait for an application
  None      \* no client, or not connected

VARIABLES
  talking,    \* the client that the web thread serves
  answers,    \* how many answers went out on a client's connection
  line,       \* the clients whose requests wait for an application, and None
              \* for each of the daemon's own messages
  serving,    \* the client whose request an application carries out
  releasing,  \* the applications that have hung up and keep the session yet
  faulty      \* has an encoder failed?

vars == <<talking, answers, line, serving, releasing, faulty>>

Init ==
  /\ talking = None
  /\ answers = [c \in Clients |-> None]
  /\ line = [a \in Apps |-> <<>>]
  /\ serving = [a \in Apps |-> None]
  /\ releasing = {}
  /\ faulty = FALSE

-----------------------------------------------------------------------------
(* The web thread *)

Connect(c) ==
  /\ talking = None
  /\ answers[c] = None
  /\ talking' = c
  /\ answers' = [answers EXCEPT ![c] = 0]
  /\ UNCHANGED <<line, serving, releasing, faulty>>

\* requests that keep a session
Backlog ==
  \/ releasing # {}
  \/ \E a \in Apps : serving[a] # None \/ \E i \in DOMAIN line[a] : line[a][i] # None

\* no session is free: the connection stays open and nobody looks at it again
Abandon ==
  /\ talking # None
  /\ faulty \/ Backlog
  /\ talking' = None
  /\ UNCHANGED <<answers, line, serving, releasing, faulty>>

Refuse ==
  /\ talking # None /\ answers[talking] = 0
  /\ answers' = [answers EXCEPT ![talking] = 1]
  /\ UNCHANGED <<talking, line, serving, releasing, faulty>>

\* the request was refused, or could not be read
HangUp ==
  /\ talking # None
  /\ talking' = None
  /\ answers' = [answers EXCEPT ![talking] = None]
  /\ UNCHANGED <<line, serving, releasing, faulty>>

Accept(a) ==
  /\ talking # None /\ answers[talking] = 0
  /\ Len(line[a]) < QLen
  /\ line' = [line EXCEPT ![a] = Append(@, talking)]
  /\ talking' = None
  /\ UNCHANGED <<answers, serving, releasing, faulty>>

-----------------------------------------------------------------------------
(* The applications *)

\* a message that nobody waits for
Post(a) ==
  /\ Len(line[a]) < QLen
  /\ line' = [line EXCEPT ![a] = Append(@, None)]
  /\ UNCHANGED <<talking, answers, serving, releasing, faulty>>

Take(a) ==
  /\ serving[a] = None /\ a \notin releasing
  /\ line[a] # <<>>
  /\ serving' = [serving EXCEPT ![a] = Head(line[a])]
  /\ line' = [line EXCEPT ![a] = Tail(@)]
  /\ UNCHANGED <<talking, answers, releasing, faulty>>

Respond(a) ==
  /\ serving[a] # None /\ answers[serving[a]] = 0
  /\ answers' = [answers EXCEPT ![serving[a]] = 1]
  /\ UNCHANGED <<talking, line, serving, releasing, faulty>>

\* an encoder fails now, or one that failed before has left no buffer
Fail(a) ==
  /\ serving[a] # None => answers[serving[a]] = 0
  /\ faulty' = TRUE
  /\ serving' = [serving EXCEPT ![a] = None]
  /\ UNCHANGED <<talking, answers, line, releasing>>

Close(a) ==
  /\ serving[a] # None /\ answers[serving[a]] = 1
  /\ answers' = [answers EXCEPT ![serving[a]] = None]
  /\ serving' = [serving EXCEPT ![a] = None]
  /\ releasing' = releasing \cup {a}
  /\ UNCHANGED <<talking, line, faulty>>

Release(a) ==
  /\ a \in releasing
  /\ releasing' = releasing \ {a}
  /\ UNCHANGED <<talking, answers, line, serving, faulty>>

-----------------------------------------------------------------------------
Next ==
  \/ \E c \in Clients : Connect(c)
  \/ Abandon \/ Refuse \/ HangUp
  \/ \E a \in Apps :
       Accept(a) \/ Post(a) \/ Take(a) \/ Respond(a) \/ Fail(a) \/ Close(a) \/ Release(a)

Spec == Init /\ [][Next]_vars
=============================================================================
