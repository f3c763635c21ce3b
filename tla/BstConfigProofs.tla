---------------------------- MODULE BstConfigProofs ---------------------------
(***************************************************************************)
(* What holds of BstConfig for every set of limits and realms, every       *)
(* capacity of the bst queue, every content of the database at the start   *)
(* and every number of events: once everything has been delivered, the     *)
(* copies of the configuration agree as far as the code makes them.        *)
(***************************************************************************)
EXTENDS BstConfig, SequenceTheorems, FiniteSetTheorems, TLAPS

-----------------------------------------------------------------------------
(* Types *)

Transaction  == [realm : Realms, enabled : BOOLEAN]
Notification == RowUpdate \cup SystemUpdate

DbType == db \in Config /\ inflight \in Seq(Transaction)

NetType ==
  /\ net \in Seq(Notification)
  /\ mpc \in {"idle", "table", "locked", "notify"}
  /\ mpc # "idle" => net # <<>>
  /\ oldMask \subseteq Realms /\ mmask \subseteq Realms

QueueType == bstQ \in Seq(BstMessage) /\ Len(bstQ) <= QLen /\ lost \in BOOLEAN

BstType ==
  /\ cache \in Config /\ app \in Config /\ mode \in Config
  /\ bpc \in {"recv", "get", "commit", "track", "mask", "store"}
  /\ req \in BstMessage \cup {Idle}
  /\ wanted \in Limits

\* The types, by the threads that write them.
LEMMA Types ==
  TypeOK <=> DbType /\ NetType /\ QueueType /\ BstType /\ events \in 0 .. MaxEvents
  BY Zenon DEF TypeOK, DbType, NetType, QueueType, BstType, Transaction, Notification

\* A configuration's fields, and what a store into one of them leaves.
LEMMA ConfigFields ==
  ASSUME NEW c \in Config
  PROVE  /\ c.enable \in BOOLEAN /\ c.max \in Limits /\ c.track \in SUBSET Realms
         /\ \A e \in BOOLEAN, n \in Limits, s \in SUBSET Realms :
              [enable |-> e, max |-> n, track |-> s] \in Config
  BY DEF Config

\* There is a configuration for the handler's local variable to hold.
LEMMA NoModeType == NoMode \in Config
<1>1. PICK n \in Limits : TRUE
  BY ConfigAssumption
<1>2. [enable |-> TRUE, max |-> n, track |-> {}] \in Config
  BY DEF Config
<1> QED
  BY <1>2 DEF NoMode

\* The realms in the order in which their transactions are sent.
LEMMA RealmSequence ==
  /\ SetToSeq(Realms) \in Seq(Realms)
  /\ \A r \in Realms : \E k \in 1 .. Len(SetToSeq(Realms)) : SetToSeq(Realms)[k] = r
<1> DEFINE n == Cardinality(Realms)
           q == SetToSeq(Realms)
<1>1. n \in Nat /\ ExistsBijection(1 .. n, Realms)
  BY FS_CardinalityType, ConfigAssumption
<1>2. \E f \in [1 .. n -> Realms] : IsInjective(f)
  BY <1>1 DEF ExistsBijection, Bijection, Injection, IsInjective
<1>3. q \in [1 .. n -> Realms] /\ IsInjective(q)
  BY <1>2, Zenon DEF SetToSeq
<1> HIDE DEF q
<1>4. q \in Injection(1 .. n, Realms)
  BY <1>3 DEF Injection, IsInjective
<1>5. Cardinality(1 .. n) = n
  BY <1>1, FS_Interval
<1>6. q \in Surjection(1 .. n, Realms)
  BY <1>4, <1>5, FS_Injection, ConfigAssumption
<1>7. q \in Seq(Realms) /\ Len(q) = n
  BY <1>1, <1>3
<1> QED
  BY <1>6, <1>7 DEF q, Surjection

\* The kinds of messages in the bst queue.
LEMMA MessageKinds ==
  ASSUME NEW m \in BstMessage
  PROVE  /\ m.type = "SET_FEATURE" =>
              m.enable \in BOOLEAN /\ m.max \in Limits \cup {Keep}
         /\ m.type = "SET_TRACK" => m.track \in SUBSET Realms
  BY ConfigAssumption DEF BstMessage, SetFeatureMsg, SetTrackMsg, OtherMsg

\* msgsnd keeps the queue within its capacity.
LEMMA SendStep ==
  ASSUME QueueType, NEW m \in BstMessage, Send(m)
  PROVE  QueueType'
<1>1. bstQ' = Post(bstQ, m) /\ lost' \in BOOLEAN
  BY DEF Send, QueueType
<1>2. Post(bstQ, m) \in Seq(BstMessage) /\ Len(Post(bstQ, m)) <= QLen
  <2> HIDE DEF BstMessage
  <2>1. CASE Len(bstQ) >= QLen
    BY <2>1 DEF Post, QueueType
  <2>2. CASE ~(Len(bstQ) >= QLen)
    <3>1. Len(Append(bstQ, m)) = Len(bstQ) + 1 /\ Append(bstQ, m) \in Seq(BstMessage)
      BY DEF QueueType
    <3> QED
      BY <2>2, <3>1, ConfigAssumption DEF Post, QueueType
  <2> QED
    BY <2>1, <2>2
<1> QED
  BY <1>1, <1>2 DEF QueueType

\* What a handler takes is a message, and the queue gets shorter.
LEMMA TakeStep ==
  ASSUME QueueType, NEW t, Take(t), UNCHANGED lost
  PROVE  QueueType' /\ Head(bstQ) \in BstMessage /\ Head(bstQ).type = t
<1> HIDE DEF BstMessage
<1>1. bstQ \in Seq(BstMessage) /\ bstQ # <<>> /\ bstQ' = Tail(bstQ) /\ Len(bstQ) <= QLen
  BY DEF Take, QueueType
<1>2. /\ Head(bstQ) \in BstMessage /\ Tail(bstQ) \in Seq(BstMessage)
      /\ Len(Tail(bstQ)) = Len(bstQ) - 1 /\ Len(bstQ) \in Nat
  BY <1>1, HeadTailProperties
<1> QED
  BY <1>1, <1>2, ConfigAssumption DEF QueueType, Take

\* The start has the types.
LEMMA TypeInit == Init => TypeOK
<1> SUFFICES ASSUME Init PROVE TypeOK
    OBVIOUS
<1>1. db \in Config /\ db.max \in Limits
  BY ConfigAssumption DEF Init, Config
<1>2. DbType /\ NetType
  BY <1>1 DEF Init, DbType, NetType
<1>3. QueueType
  <2>1. bstQ = <<>> /\ lost = FALSE
    BY DEF Init
  <2>2. Len(<<>>) = 0 /\ <<>> \in Seq(BstMessage)
    <3> HIDE DEF BstMessage
    <3> QED
      OBVIOUS
  <2>3. 0 <= QLen
    BY ConfigAssumption
  <2> HIDE DEF BstMessage
  <2> QED
    BY <2>1, <2>2, <2>3 DEF QueueType
<1>4. BstType
  BY <1>1, NoModeType DEF Init, BstType
<1>5. events \in 0 .. MaxEvents
  BY ConfigAssumption DEF Init
<1> QED
  BY <1>2, <1>3, <1>4, <1>5, Types

\* An update of one field is a configuration.
LEMMA ConfigExcept ==
  ASSUME NEW c \in Config, NEW e \in BOOLEAN, NEW n \in Limits, NEW s \in SUBSET Realms
  PROVE  /\ [c EXCEPT !.enable = e] \in Config
         /\ [c EXCEPT !.max = n] \in Config
         /\ [c EXCEPT !.track = s] \in Config
         /\ [c EXCEPT !.enable = e, !.max = n] \in Config
  BY DEF Config

\* A request to be handled has one of the three kinds that commit.
LEMMA RequestFields ==
  ASSUME BstType
  PROVE  /\ req.type = "SET_FEATURE" => req.enable \in BOOLEAN
         /\ req.type = "SET_TRACK" => req.track \in SUBSET Realms
<1>1. CASE req \in BstMessage
  BY <1>1, MessageKinds
<1>2. CASE req = Idle
  BY <1>2 DEF Idle
<1> QED
  BY <1>1, <1>2 DEF BstType

\* What a handler commits, and what it stores in the application, are
\* configurations.
LEMMA ModeType ==
  ASSUME BstType
  PROVE  ModeToCommit(cache) \in Config /\ Programmed(app) \in Config
<1>1. cache \in Config /\ app \in Config
  BY DEF BstType
<1>2. app.enable \in BOOLEAN /\ app.max \in Limits
  BY <1>1, ConfigFields
<1>3. CASE req.type = "SET_FEATURE"
  <2>1. req.enable \in BOOLEAN
    BY <1>3, RequestFields
  <2>2. /\ Programmed(app) = [app EXCEPT !.enable = req.enable]
        /\ ModeToCommit(cache) = [cache EXCEPT !.enable = req.enable, !.max = app.max]
    BY <1>3 DEF ModeToCommit, Programmed
  <2> QED
    BY <1>1, <1>2, <2>1, <2>2 DEF Config
<1>4. CASE req.type = "SET_TRACK"
  <2>1. req.track \in SUBSET Realms
    BY <1>4, RequestFields
  <2>2. Programmed(app) = [app EXCEPT !.track = req.track]
    BY <1>4 DEF Programmed
  <2>3. ModeToCommit(cache) = [enable |-> app.enable, max |-> app.max, track |-> req.track]
    BY <1>4 DEF ModeToCommit
  <2> QED
    BY <1>1, <1>2, <2>1, <2>2, <2>3 DEF Config
<1>5. CASE req.type \notin {"SET_FEATURE", "SET_TRACK"}
  <2>1. Programmed(app) = app /\ ModeToCommit(cache) = [cache EXCEPT !.enable = TRUE]
    BY <1>5 DEF ModeToCommit, Programmed
  <2> QED
    BY <1>1, <2>1 DEF Config
<1> QED
  BY <1>3, <1>4, <1>5

\* The news of a System row are at most one notification, which carries what
\* the row has become.
LEMMA NewsFields ==
  ASSUME NEW a \in Config, NEW b \in Config
  PROVE  \/ SystemNews(a, b) = <<>> /\ a.enable = b.enable /\ a.max = b.max
         \/ \E u \in SystemUpdate : /\ SystemNews(a, b) = <<u>> /\ u.table = "System"
                                    /\ u.enable = b.enable /\ u.max = b.max
<1>1. CASE a.enable = b.enable /\ a.max = b.max
  BY <1>1 DEF SystemNews
<1>2. CASE ~(a.enable = b.enable /\ a.max = b.max)
  <2> DEFINE u == [table |-> "System", enable |-> b.enable, max |-> b.max]
  <2>1. u \in SystemUpdate
    BY ConfigFields DEF SystemUpdate
  <2>2. SystemNews(a, b) = <<u>>
    BY <1>2 DEF SystemNews
  <2> QED
    BY <2>1, <2>2
<1> QED
  BY <1>1, <1>2

\* A concatenation with at most one element is at most an appending.
LEMMA ConcatOne ==
  ASSUME NEW S, NEW q \in Seq(S), NEW u \in S
  PROVE  q \o <<>> = q /\ q \o <<u>> = Append(q, u) /\ Append(q, u) \in Seq(S)
  OBVIOUS

\* A transaction on the System row changes neither the mask nor what is in
\* flight, and adds at most one notification, which says what the row now is.
LEMMA SystemCommitted ==
  ASSUME db \in Config, net \in Seq(Notification),
         NEW e \in BOOLEAN, NEW n \in Limits,
         db' = [db EXCEPT !.enable = e, !.max = n],
         net' = net \o SystemNews(db, [db EXCEPT !.enable = e, !.max = n])
  PROVE  /\ db' \in Config /\ db'.enable = e /\ db'.max = n /\ db'.track = db.track
         /\ \/ net' = net /\ db.enable = e /\ db.max = n
            \/ \E u \in SystemUpdate : /\ net' = Append(net, u) /\ u.table = "System"
                                       /\ u.enable = e /\ u.max = n
<1>1. PICK new : new = [db EXCEPT !.enable = e, !.max = n]
  OBVIOUS
<1>2. new \in Config /\ new.enable = e /\ new.max = n /\ new.track = db.track
  BY <1>1, ConfigExcept DEF Config
<1>3. db' = new /\ net' = net \o SystemNews(db, new)
  BY <1>1
<1>4. \A u \in SystemUpdate : net \o <<u>> = Append(net, u)
  BY ConcatOne DEF Notification
<1>5. net \o <<>> = net
  BY ConcatOne
<1>6. CASE SystemNews(db, new) = <<>> /\ db.enable = new.enable /\ db.max = new.max
  BY <1>2, <1>3, <1>5, <1>6
<1>7. ASSUME NEW u \in SystemUpdate, SystemNews(db, new) = <<u>>, u.table = "System",
             u.enable = new.enable, u.max = new.max
      PROVE  /\ net' = Append(net, u) /\ u.table = "System"
             /\ u.enable = e /\ u.max = n
  BY <1>2, <1>3, <1>4, <1>7
<1> QED
  BY <1>2, <1>3, <1>6, <1>7, NewsFields

\* There is a tracking transaction for every realm, with its bit of the mask.
LEMMA TrackFields ==
  /\ TrackTransactions \in Seq(Transaction)
  /\ \A k \in 1 .. Len(TrackTransactions) :
       TrackTransactions[k].enabled <=> TrackTransactions[k].realm \in mode.track
  /\ \A r \in Realms : \E k \in 1 .. Len(TrackTransactions) : TrackTransactions[k].realm = r
<1> DEFINE q == SetToSeq(Realms)
<1>1. q \in Seq(Realms) /\ \A r \in Realms : \E k \in 1 .. Len(q) : q[k] = r
  BY RealmSequence
<1> DEFINE Sent(r) == [realm |-> r, enabled |-> r \in mode.track]
<1>2. TrackTransactions = [k \in DOMAIN q |-> Sent(q[k])]
  BY DEF TrackTransactions
<1> HIDE DEF q
<1>3. DOMAIN q = 1 .. Len(q) /\ Len(q) \in Nat
  BY <1>1
<1>4. ASSUME NEW r \in Realms
      PROVE  /\ Sent(r) \in Transaction /\ Sent(r).realm = r
             /\ Sent(r).enabled <=> r \in mode.track
  <2>2. CASE r \in mode.track
    <3>1. (r \in mode.track) = TRUE
      BY <2>2, Zenon
    <3>2. Sent(r) = [realm |-> r, enabled |-> TRUE]
      BY <3>1, Zenon
    <3>3. /\ [realm |-> r, enabled |-> TRUE] \in Transaction
          /\ [realm |-> r, enabled |-> TRUE].realm = r
          /\ [realm |-> r, enabled |-> TRUE].enabled
      BY DEF Transaction
    <3> HIDE DEF Sent
    <3> QED
      BY <2>2, <3>2, <3>3
  <2>3. CASE r \notin mode.track
    <3>1. (r \in mode.track) = FALSE
      BY <2>3
    <3>2. Sent(r) = [realm |-> r, enabled |-> FALSE]
      BY <3>1, Zenon
    <3>3. /\ [realm |-> r, enabled |-> FALSE] \in Transaction
          /\ [realm |-> r, enabled |-> FALSE].realm = r
          /\ ~[realm |-> r, enabled |-> FALSE].enabled
      BY DEF Transaction
    <3> HIDE DEF Sent
    <3> QED
      BY <2>3, <3>2, <3>3
  <2> QED
    BY <2>2, <2>3
<1> HIDE DEF Sent
<1>5. TrackTransactions = [k \in 1 .. Len(q) |-> Sent(q[k])]
  BY <1>2, <1>3
<1>6. /\ TrackTransactions \in Seq(Transaction) /\ Len(TrackTransactions) = Len(q)
      /\ \A k \in 1 .. Len(q) : TrackTransactions[k] = Sent(q[k])
  <2>1. \A k \in 1 .. Len(q) : Sent(q[k]) \in Transaction
    BY <1>1, <1>4
  <2> HIDE DEF TrackTransactions
  <2> QED
    BY <1>3, <1>5, <2>1
<1>7. \A k \in 1 .. Len(q) : q[k] \in Realms
  BY <1>1
<1> QED
  BY <1>1, <1>4, <1>6, <1>7

\* A handler that returns has nothing in its local variables.
LEMMA ReturnStep ==
  ASSUME BstType, Return, UNCHANGED wanted, cache' \in Config, app' \in Config
  PROVE  BstType'
  BY NoModeType DEF BstType, Return

\* The bst thread's steps keep the types.
LEMMA BstTypeStep ==
  ASSUME DbType, NetType, QueueType, BstType, BstThread
  PROVE  DbType' /\ NetType' /\ QueueType' /\ BstType'
<1> USE ConfigAssumption
<1>1. /\ db \in Config /\ cache \in Config /\ app \in Config /\ mode \in Config
      /\ mode.enable \in BOOLEAN /\ mode.max \in Limits /\ mode.track \in SUBSET Realms
      /\ cache.enable \in BOOLEAN /\ cache.max \in Limits /\ cache.track \in SUBSET Realms
  BY ConfigFields DEF DbType, BstType
<1>2. CASE SetFeature
  <2>1. /\ Take("SET_FEATURE") /\ UNCHANGED lost
        /\ UNCHANGED <<db, inflight, net, mpc, oldMask, mmask, cache, mode>>
    BY <1>2 DEF SetFeature
  <2>2. QueueType' /\ Head(bstQ) \in BstMessage /\ Head(bstQ).type = "SET_FEATURE"
    BY <2>1, TakeStep
  <2>3. Head(bstQ).max \in Limits \cup {Keep}
    BY <2>2, MessageKinds
  <2>4. /\ app' = IF Head(bstQ).max = Keep THEN app ELSE [app EXCEPT !.max = Head(bstQ).max]
        /\ wanted' = IF Head(bstQ).max = Keep THEN wanted ELSE Head(bstQ).max
        /\ bpc' = "get" /\ req' = Head(bstQ)
    BY <1>2 DEF SetFeature, Begin
  <2>5. app' \in Config
    BY <1>1, <2>3, <2>4 DEF Config
  <2> HIDE DEF BstMessage
  <2>6. BstType'
    BY <2>1, <2>2, <2>3, <2>4, <2>5 DEF BstType
  <2> QED
    BY <2>1, <2>2, <2>6 DEF DbType, NetType
<1>3. CASE SetTrack \/ EnableOnTrigger
  <2>1. /\ UNCHANGED <<db, inflight, net, mpc, oldMask, mmask, cache, app, mode, wanted, lost>>
        /\ \E t : Take(t)
        /\ \/ UNCHANGED <<bpc, req>>
           \/ bpc' = "get" /\ req' = Head(bstQ)
    BY <1>3 DEF SetTrack, EnableOnTrigger, Begin
  <2>2. QueueType' /\ Head(bstQ) \in BstMessage
    BY <2>1, TakeStep
  <2>3. BstType'
    BY <2>1, <2>2, Zenon DEF BstType
  <2> QED
    BY <2>1, <2>2, <2>3 DEF DbType, NetType
<1>4. CASE ReadToCommit
  <2>1. /\ mode' = ModeToCommit(cache) /\ bpc' = "commit"
        /\ UNCHANGED <<db, inflight, net, mpc, oldMask, mmask, cache, app, wanted, req>>
        /\ UNCHANGED <<bstQ, lost>>
    BY <1>4 DEF ReadToCommit
  <2> QED
    BY <2>1, ModeType DEF DbType, NetType, QueueType, BstType
<1>5. CASE Update
  <2>1. /\ UNCHANGED <<db, inflight, net, mpc, oldMask, mmask, cache, mode, wanted, lost>>
        /\ UNCHANGED <<bpc, req>>
        /\ \E t : Take(t)
        /\ \/ app' = [app EXCEPT !.enable = cache.enable, !.max = cache.max]
           \/ app' = [app EXCEPT !.track = cache.track]
    BY <1>5 DEF Update
  <2>2. app' \in Config
    BY <1>1, <2>1 DEF Config
  <2>3. QueueType'
    BY <2>1, TakeStep
  <2> QED
    BY <2>1, <2>2, <2>3 DEF DbType, NetType, BstType
<1>6. CASE CommitSystem
  <2>1. /\ UNCHANGED <<inflight, mpc, oldMask, mmask, cache, app, bstQ, wanted>>
        /\ lost' \in {lost, TRUE}
        /\ \/ Return
           \/ bpc' = "track" /\ UNCHANGED <<req, mode>>
    BY <1>6 DEF CommitSystem
  <2>2. /\ db' \in Config /\ net' \in Seq(Notification)
        /\ net # <<>> => net' # <<>>
    <3>1. CASE UNCHANGED <<db, net>>
      BY <1>1, <3>1 DEF NetType
    <3>2. CASE /\ db' = [db EXCEPT !.enable = mode.enable, !.max = mode.max]
               /\ net' = net \o SystemNews(db, [db EXCEPT !.enable = mode.enable,
                                                          !.max = mode.max])
      <4>1. /\ db' \in Config
            /\ net' = net \/ \E u \in SystemUpdate : net' = Append(net, u)
        BY <1>1, <3>2, SystemCommitted DEF NetType
      <4>2. ASSUME NEW u \in SystemUpdate, net' = Append(net, u)
            PROVE  net' \in Seq(Notification) /\ net' # <<>>
        <5>1. u \in Notification /\ net \in Seq(Notification)
          BY DEF Notification, NetType
        <5> QED
          BY <4>2, <5>1
      <4> QED
        BY <4>1, <4>2 DEF NetType
    <3> QED
      BY <1>6, <3>1, <3>2 DEF CommitSystem
  <2>3. DbType' /\ NetType' /\ QueueType'
    BY <2>1, <2>2 DEF DbType, NetType, QueueType
  <2>4. BstType'
    BY <1>1, <2>1, ReturnStep DEF BstType
  <2> QED
    BY <2>3, <2>4
<1>7. CASE CommitTrack
  <2>1. /\ UNCHANGED <<db, net, mpc, oldMask, mmask, cache, app, bstQ, wanted>>
        /\ lost' \in {lost, TRUE}
        /\ \/ Return /\ UNCHANGED inflight
           \/ /\ bpc' = "mask" /\ UNCHANGED <<req, mode>>
              /\ inflight' = inflight \o TrackTransactions
    BY <1>7 DEF CommitTrack
  <2>2. inflight' \in Seq(Transaction)
    <3>1. inflight \in Seq(Transaction) /\ TrackTransactions \in Seq(Transaction)
      BY TrackFields DEF DbType
    <3> QED
      BY <2>1, <3>1, ConcatProperties
  <2>3. DbType' /\ NetType' /\ QueueType'
    BY <2>1, <2>2 DEF DbType, NetType, QueueType
  <2>4. BstType'
    BY <1>1, <2>1, ReturnStep DEF BstType
  <2> QED
    BY <2>3, <2>4
<1>8. CASE StoreMask
  <2>1. /\ UNCHANGED <<db, inflight, net, mpc, oldMask, mmask, bstQ, lost>>
        /\ UNCHANGED <<app, req, mode, wanted>> /\ bpc' = "store"
        /\ cache' = [cache EXCEPT !.track = mode.track]
    BY <1>8 DEF StoreMask
  <2>2. cache' \in Config
    BY <1>1, <2>1, ConfigExcept
  <2> QED
    BY <2>1, <2>2 DEF DbType, NetType, QueueType, BstType
<1>9. CASE StoreCache
  <2>1. /\ UNCHANGED <<db, inflight, net, mpc, oldMask, mmask, bstQ, wanted, lost>>
        /\ cache' = [cache EXCEPT !.enable = mode.enable, !.max = mode.max]
        /\ app' = Programmed(app) /\ Return
    BY <1>9 DEF StoreCache
  <2>2. cache' \in Config /\ app' \in Config
    BY <1>1, <2>1, ConfigExcept, ModeType
  <2> QED
    BY <2>1, <2>2, ReturnStep DEF DbType, NetType, QueueType
<1> QED
  BY <1>2, <1>3, <1>4, <1>5, <1>6, <1>7, <1>8, <1>9 DEF BstThread

\* A notification of an enabled or disabled realm is appended, or none.
LEMMA AppendUpdate ==
  ASSUME NetType, NEW u \in Notification, net' \in {net, Append(net, u)},
         UNCHANGED <<mpc, oldMask, mmask>>
  PROVE  NetType'
<1>1. net' \in Seq(Notification) /\ (net # <<>> => net' # <<>>)
  BY DEF NetType
<1> QED
  BY <1>1 DEF NetType

\* The row of a transaction that ovsdb-server has executed.
LEMMA TrackApplied ==
  ASSUME DbType, ApplyTrack
  PROVE  LET t == Head(inflight)
             u == [table |-> "bufmon", realm |-> t.realm, enabled |-> t.enabled]
         IN /\ t \in Transaction /\ t.realm \in Realms /\ t.enabled \in BOOLEAN
            /\ u \in Notification /\ u.table = "bufmon"
            /\ net' \in {net, Append(net, u)}
            /\ db'.max = db.max /\ db'.enable = db.enable
            /\ db'.track = IF t.enabled THEN db.track \cup {t.realm}
                           ELSE db.track \ {t.realm}
            /\ t.enabled /\ t.realm \notin db.track => net' = Append(net, u)
<1> DEFINE t == Head(inflight)
           u == [table |-> "bufmon", realm |-> t.realm, enabled |-> t.enabled]
<1>1. /\ inflight # <<>>
      /\ db' = [db EXCEPT !.track = IF t.enabled THEN db.track \cup {t.realm}
                                    ELSE db.track \ {t.realm}]
      /\ net' \in {net, Append(net, u)}
      /\ t.enabled # (t.realm \in db.track) => net' = Append(net, u)
  BY DEF ApplyTrack
<1>2. t \in Transaction
  BY <1>1 DEF DbType
<1>3. t.realm \in Realms /\ t.enabled \in BOOLEAN
  <2> HIDE DEF t
  <2> QED
    BY <1>2 DEF Transaction
<1>4. u \in Notification /\ u.table = "bufmon"
  BY <1>3 DEF Notification, RowUpdate
<1> HIDE DEF t, u
<1>5. /\ db'.max = db.max /\ db'.enable = db.enable
      /\ db'.track = IF t.enabled THEN db.track \cup {t.realm} ELSE db.track \ {t.realm}
  BY <1>1, <1>3 DEF DbType, Config
<1>6. ASSUME t.enabled, t.realm \notin db.track
      PROVE  net' = Append(net, u)
  <2>1. t.enabled = TRUE
    BY <1>3, <1>6
  <2>2. (t.realm \in db.track) = FALSE
    BY <1>6
  <2> QED
    BY <1>1, <2>1, <2>2, Zenon
<1> QED
  BY <1>1, <1>2, <1>3, <1>4, <1>5, <1>6 DEF t, u

\* The row of a counter's update.
LEMMA StatApplied ==
  ASSUME StatUpdate
  PROVE  \E u \in Notification : u.table = "bufmon" /\ net' = Append(net, u)
<1>1. PICK r \in Realms :
        net' = Append(net, [table |-> "bufmon", realm |-> r, enabled |-> r \in db.track])
  BY DEF StatUpdate
<1> DEFINE Row(e) == [table |-> "bufmon", realm |-> r, enabled |-> e]
<1>2. Row(TRUE) \in Notification /\ Row(FALSE) \in Notification
  BY DEF Notification, RowUpdate
<1>3. Row(r \in db.track) = Row(TRUE) \/ Row(r \in db.track) = Row(FALSE)
  <2>1. CASE r \in db.track
    <3>1. (r \in db.track) = TRUE
      BY <2>1, Zenon
    <3> QED
      BY <3>1, Zenon
  <2>2. CASE r \notin db.track
    <3>1. (r \in db.track) = FALSE
      BY <2>2
    <3> QED
      BY <3>1, Zenon
  <2> QED
    BY <2>1, <2>2
<1>4. Row(TRUE).table = "bufmon" /\ Row(FALSE).table = "bufmon"
  OBVIOUS
<1>5. net' = Append(net, Row(r \in db.track))
  BY <1>1
<1> HIDE DEF Row
<1> QED
  BY <1>2, <1>3, <1>4, <1>5

\* ovsdb-server's steps and those of its other clients keep the types.
LEMMA ServerTypeStep ==
  ASSUME DbType, NetType, QueueType, BstType,
         Request \/ External \/ StatUpdate \/ ApplyTrack
  PROVE  DbType' /\ NetType' /\ QueueType' /\ BstType'
<1>1. CASE Request
  <2>1. /\ UNCHANGED <<db, inflight, net, mpc, oldMask, mmask>>
        /\ UNCHANGED <<cache, app, bpc, req, mode, wanted>>
        /\ \E m \in BstMessage : Send(m)
    BY <1>1, Zenon DEF Request, BstMessage, OtherMsg
  <2> QED
    BY <2>1, SendStep DEF DbType, NetType, BstType
<1>2. CASE External
  <2>1. PICK e \in BOOLEAN, n \in Limits :
          /\ db' = [db EXCEPT !.enable = e, !.max = n]
          /\ net' = net \o SystemNews(db, [db EXCEPT !.enable = e, !.max = n])
    BY <1>2 DEF External
  <2>2. /\ UNCHANGED <<inflight, mpc, oldMask, mmask, bstQ>> /\ lost' = TRUE
        /\ UNCHANGED <<cache, app, bpc, req, mode, wanted>>
    BY <1>2 DEF External
  <2>3. /\ db' \in Config
        /\ net' = net \/ \E u \in SystemUpdate : net' = Append(net, u)
    BY <2>1, SystemCommitted DEF DbType, NetType
  <2>4. SystemUpdate \subseteq Notification
    BY DEF Notification
  <2>5. NetType'
    BY <2>2, <2>3, <2>4, AppendUpdate DEF NetType
  <2> QED
    BY <2>2, <2>3, <2>5 DEF DbType, QueueType, BstType
<1>3. CASE StatUpdate
  <2>1. /\ UNCHANGED <<db, inflight, mpc, oldMask, mmask, bstQ, lost>>
        /\ UNCHANGED <<cache, app, bpc, req, mode, wanted>>
    BY <1>3 DEF StatUpdate
  <2>2. NetType'
    BY <1>3, <2>1, StatApplied, AppendUpdate
  <2> QED
    BY <2>1, <2>2 DEF DbType, QueueType, BstType
<1>4. CASE ApplyTrack
  <2>1. /\ inflight # <<>> /\ inflight' = Tail(inflight)
        /\ UNCHANGED <<mpc, oldMask, mmask, bstQ, lost>>
        /\ UNCHANGED <<cache, app, bpc, req, mode, wanted>>
        /\ \E s : db' = [db EXCEPT !.track = s]
    BY <1>4 DEF ApplyTrack
  <2>2. inflight' \in Seq(Transaction)
    BY <2>1 DEF DbType
  <2>3. PICK u \in Notification : net' \in {net, Append(net, u)}
    BY <1>4, TrackApplied
  <2>4. NetType'
    BY <2>1, <2>3, AppendUpdate
  <2>5. db'.track \in SUBSET Realms
    BY <1>4, TrackApplied DEF DbType, Config
  <2>6. db' \in Config
    BY <2>1, <2>5 DEF DbType, Config
  <2> QED
    BY <2>1, <2>2, <2>4, <2>6 DEF DbType, QueueType, BstType
<1> QED
  BY <1>1, <1>2, <1>3, <1>4

\* The monitor's steps keep the types.
LEMMA MonitorTypeStep ==
  ASSUME DbType, NetType, QueueType, BstType, Monitor
  PROVE  DbType' /\ NetType' /\ QueueType' /\ BstType'
<1>1. cache \in Config /\ cache.enable \in BOOLEAN /\ cache.track \in SUBSET Realms
  BY ConfigFields DEF BstType
<1>2. /\ \A t \in {"UPDATE_FEATURE", "UPDATE_TRACK"} : [type |-> t] \in BstMessage
      /\ UNCHANGED <<db, inflight, app, bpc, req, mode, wanted>>
  BY DEF BstMessage, OtherMsg, Monitor, MonitorStart, MonitorLock, MonitorSystem,
         MonitorRow, MonitorNotify
<1>3. CASE MonitorStart \/ MonitorLock
  <2>1. /\ UNCHANGED <<net, cache, bstQ, lost>>
        /\ mpc' \in {"table", "locked", "notify"} /\ net # <<>>
        /\ oldMask' \in {oldMask, cache.track} /\ mmask' \in {mmask, cache.track}
    BY <1>3 DEF MonitorStart, MonitorLock, NetType
  <2> QED
    BY <1>1, <1>2, <2>1 DEF DbType, NetType, QueueType, BstType
<1>4. CASE MonitorSystem
  <2>1. /\ mpc = "locked" /\ mpc' = "notify" /\ UNCHANGED <<net, oldMask, mmask>>
        /\ Head(net).table = "System"
        /\ cache' = [cache EXCEPT !.enable = IF Head(net).enable # cache.enable THEN TRUE
                                             ELSE Head(net).enable,
                                  !.max = Head(net).max]
        /\ Send([type |-> "UPDATE_FEATURE"]) \/ UNCHANGED <<bstQ, lost>>
    BY <1>4 DEF MonitorSystem
  <2>2. Head(net) \in Notification
    BY <2>1 DEF NetType
  <2>3. Head(net).enable \in BOOLEAN /\ Head(net).max \in Limits
    BY <2>1, <2>2 DEF Notification, RowUpdate, SystemUpdate
  <2>4. cache' \in Config
    <3>1. (IF Head(net).enable # cache.enable THEN TRUE ELSE Head(net).enable) \in BOOLEAN
      BY <2>3
    <3> QED
      BY <1>1, <2>1, <2>3, <3>1, ConfigExcept
  <2>5. QueueType'
    BY <1>2, <2>1, SendStep DEF QueueType
  <2> QED
    BY <1>2, <2>1, <2>4, <2>5 DEF DbType, NetType, BstType
<1>5. CASE MonitorRow
  <2>1. /\ mpc = "locked" /\ mpc' = "notify" /\ UNCHANGED <<net, oldMask, mmask, bstQ, lost>>
        /\ Head(net).table = "bufmon"
        /\ cache' = [cache EXCEPT !.track = mmask \cup {Head(net).realm}]
    BY <1>5 DEF MonitorRow
  <2>2. Head(net) \in Notification
    BY <2>1 DEF NetType
  <2>3. Head(net).realm \in Realms
    BY <2>1, <2>2 DEF Notification, RowUpdate, SystemUpdate
  <2>4. cache' \in Config
    <3>1. mmask \cup {Head(net).realm} \in SUBSET Realms
      BY <2>3 DEF NetType
    <3> QED
      BY <1>1, <2>1, <3>1 DEF Config
  <2> QED
    BY <1>2, <2>1, <2>4 DEF DbType, NetType, QueueType, BstType
<1>6. CASE MonitorNotify
  <2>1. /\ net # <<>> /\ net' = Tail(net) /\ mpc' = "idle" /\ oldMask' = {} /\ mmask' = {}
        /\ Send([type |-> "UPDATE_TRACK"]) \/ UNCHANGED <<bstQ, lost>>
        /\ UNCHANGED cache
    BY <1>6 DEF MonitorNotify, NetType
  <2>2. QueueType'
    BY <1>2, <2>1, SendStep DEF QueueType
  <2>3. net' \in Seq(Notification)
    BY <2>1 DEF NetType
  <2> QED
    BY <1>2, <2>1, <2>2, <2>3 DEF DbType, NetType, BstType
<1> QED
  BY <1>3, <1>4, <1>5, <1>6 DEF Monitor

\* Every step keeps the types.
LEMMA TypeStep == TypeOK /\ [Next]_vars => TypeOK'
<1> SUFFICES ASSUME TypeOK, [Next]_vars PROVE TypeOK'
    OBVIOUS
<1> USE ConfigAssumption
<1>1. DbType /\ NetType /\ QueueType /\ BstType /\ events \in 0 .. MaxEvents
  BY Types
<1>2. DbType' /\ NetType' /\ QueueType' /\ BstType'
  <2>1. CASE UNCHANGED vars
    BY <1>1, <2>1 DEF vars, DbType, NetType, QueueType, BstType
  <2> QED
    BY <1>1, <2>1, BstTypeStep, ServerTypeStep, MonitorTypeStep DEF Next
<1>3. events' \in 0 .. MaxEvents
  <2>1. \/ UNCHANGED events
        \/ events < MaxEvents /\ events' = events + 1
    BY DEF Next, vars, Request, External, StatUpdate, Event, ApplyTrack, BstThread,
           SetFeature, SetTrack, EnableOnTrigger, ReadToCommit, Update, CommitSystem,
           CommitTrack, StoreMask, StoreCache, Monitor, MonitorStart, MonitorLock,
           MonitorSystem, MonitorRow, MonitorNotify
  <2> QED
    BY <1>1, <2>1
<1> QED
  BY <1>2, <1>3, Zenon
  DEF TypeOK, DbType, NetType, QueueType, BstType, Transaction, Notification

-----------------------------------------------------------------------------
(* The invariant *)

\* The notifications that the monitor has still to apply.
Unread(i) == i \in 1 .. Len(net) /\ ~(i = 1 /\ mpc = "notify")

SystemAt(i) == Unread(i) /\ net[i].table = "System"

RowAt(r, i) ==
  Unread(i) /\ net[i].table = "bufmon" /\ net[i].realm = r /\ net[i].enabled

\* The transactions in flight that enable or disable a realm.
SetAt(r, i) == i \in 1 .. Len(inflight) /\ inflight[i].realm = r /\ inflight[i].enabled
ClearAt(r, i) == i \in 1 .. Len(inflight) /\ inflight[i].realm = r /\ ~inflight[i].enabled

\* The application is going to take the plugin's copy over.
Told == \E i \in 1 .. Len(bstQ) : bstQ[i].type = "UPDATE_FEATURE"

\* What has been committed is in the database until the handler returns.
Committed ==
  ~lost /\ bpc \in {"track", "mask", "store"} =>
    mode.max = db.max /\ (mode.enable <=> db.enable)

\* The last news of the System row are what the database has; when there are
\* none, the cache has the limit, and BST enabled if the database has it so.
SystemFits ==
  ~lost =>
    /\ \A i \in Nat : SystemAt(i) =>
         \/ net[i].max = db.max /\ (net[i].enable <=> db.enable)
         \/ \E j \in Nat : j > i /\ SystemAt(j)
    /\ (\A i \in Nat : ~SystemAt(i)) =>
         cache.max = db.max /\ (db.enable => cache.enable)

Writers == {"SET_FEATURE", "SET_TRACK"}

\* The application has the cache's limit, or its handler is going to store its
\* own in the cache, or an UPDATE_FEATURE is in the queue.
AppFits ==
  ~lost =>
    /\ bpc = "recv" => Told \/ app.max = cache.max
    /\ bpc = "get" => req.type \in Writers \/ Told \/ app.max = cache.max
    /\ bpc \in {"commit", "track", "mask", "store"} =>
         app.max = mode.max \/ (req.type \notin Writers /\ Told)

\* A realm whose bit is missing from a mask is disabled by a transaction in
\* flight, or set again by a notification.
Pending(r) == \/ \E i \in Nat : ClearAt(r, i)
              \/ \E i \in Nat : RowAt(r, i)

\* Before the mask is stored, its transactions are the last in flight.
MaskFits ==
  bpc = "mask" =>
    \A r \in Realms \ mode.track :
      /\ \A i \in Nat : SetAt(r, i) => \E j \in Nat : j > i /\ ClearAt(r, j)
      /\ r \in db.track => \E i \in Nat : ClearAt(r, i)

\* The masks of the cache and of the monitor miss no realm for good.
TrackFits ==
  /\ \A r \in db.track : r \notin cache.track => Pending(r)
  /\ mpc = "locked" => \A r \in db.track : r \notin mmask => Pending(r)

ConfigInv == TypeOK /\ Committed /\ SystemFits /\ AppFits /\ MaskFits /\ TrackFits

\* ConfigInv holds at the start.
LEMMA ConfigInit == Init => ConfigInv
<1> SUFFICES ASSUME Init PROVE ConfigInv
    OBVIOUS
<1>1. \A i : ~Unread(i)
  BY DEF Init, Unread
<1>2. Committed /\ AppFits /\ MaskFits
  BY DEF Init, Committed, AppFits, MaskFits
<1>3. SystemFits /\ TrackFits
  BY <1>1 DEF Init, SystemFits, SystemAt, TrackFits
<1> QED
  BY <1>2, <1>3, TypeInit DEF ConfigInv

-----------------------------------------------------------------------------
(* How the notifications and the queue move *)

\* What is lost stays lost.
LEMMA LostStays ==
  ASSUME TypeOK, [Next]_vars, ~lost'
  PROVE  ~lost
<1>1. \/ lost' = lost
      \/ lost' = TRUE
      \/ \E m : Send(m)
  BY DEF Next, vars, Request, External, StatUpdate, ApplyTrack, BstThread,
         SetFeature, SetTrack, EnableOnTrigger, ReadToCommit, Update, CommitSystem,
         CommitTrack, StoreMask, StoreCache, Monitor, MonitorStart, MonitorLock,
         MonitorSystem, MonitorRow, MonitorNotify
<1>2. \A m : Send(m) /\ lost => lost'
  BY Zenon DEF Send
<1> QED
  BY <1>1, <1>2

\* A notification is appended: it is unread, and the others stay where they are.
LEMMA UnreadAppend ==
  ASSUME NetType, NEW u \in Notification, net' = Append(net, u), UNCHANGED mpc
  PROVE  \E n \in Nat : /\ net'[n] = u /\ Unread(n)'
                        /\ \A i \in Nat : /\ Unread(i)' <=> Unread(i) \/ i = n
                                          /\ Unread(i) => i < n /\ net'[i] = net[i]
<1>1. /\ net \in Seq(Notification) /\ Len(net) \in Nat
      /\ net = <<>> => mpc # "notify"
  BY DEF NetType
<1>2. /\ Len(net') = Len(net) + 1 /\ net'[Len(net) + 1] = u
      /\ \A i \in 1 .. Len(net) : net'[i] = net[i]
  BY <1>1
<1>3. PICK n \in Nat : n = Len(net) + 1
  BY <1>1
<1>4. Unread(n)'
  BY <1>1, <1>2, <1>3 DEF Unread
<1>5. ASSUME NEW i \in Nat
      PROVE  /\ Unread(i)' <=> Unread(i) \/ i = n
             /\ Unread(i) => i < n /\ net'[i] = net[i]
  BY <1>1, <1>2, <1>3, <1>4 DEF Unread
<1> QED
  BY <1>2, <1>3, <1>4, <1>5

\* The monitor is done with a notification: the others move up.
LEMMA UnreadTail ==
  ASSUME NetType, mpc = "notify", net' = Tail(net), mpc' = "idle"
  PROVE  /\ \A i \in Nat : Unread(i)' => Unread(i + 1) /\ net'[i] = net[i + 1]
         /\ \A j \in Nat : Unread(j) =>
              \E i \in Nat : j = i + 1 /\ Unread(i)' /\ net'[i] = net[j]
<1>1. /\ net \in Seq(Notification) /\ net # <<>>
      /\ Len(net) \in Nat /\ Len(net') = Len(net) - 1
      /\ \A i \in 1 .. Len(net) - 1 : net'[i] = net[i + 1]
  BY HeadTailProperties DEF NetType
<1>2. ASSUME NEW i \in Nat, Unread(i)'
      PROVE  Unread(i + 1) /\ net'[i] = net[i + 1]
  BY <1>1, <1>2 DEF Unread
<1>3. ASSUME NEW j \in Nat, Unread(j)
      PROVE  \E i \in Nat : j = i + 1 /\ Unread(i)' /\ net'[i] = net[j]
  <2>1. j \in 2 .. Len(net)
    BY <1>1, <1>3 DEF Unread
  <2>2. PICK i \in 1 .. Len(net) - 1 : j = i + 1
    <3>1. j - 1 \in 1 .. Len(net) - 1 /\ j = (j - 1) + 1
      BY <1>1, <2>1
    <3> QED
      BY <3>1
  <2>3. Unread(i)'
    BY <1>1, <2>2 DEF Unread
  <2> QED
    BY <1>1, <2>2, <2>3
<1> QED
  BY <1>2, <1>3

\* An UPDATE_FEATURE that was sent is in the queue.
LEMMA ToldSent ==
  ASSUME QueueType, NEW m \in BstMessage, Send(m), ~lost'
  PROVE  Told' <=> Told \/ m.type = "UPDATE_FEATURE"
<1>1. bstQ \in Seq(BstMessage)
  BY DEF QueueType
<1>2. bstQ' = Append(bstQ, m)
  BY DEF Send, Post
<1> HIDE DEF BstMessage
<1>3. /\ Len(bstQ') = Len(bstQ) + 1 /\ Len(bstQ) \in Nat /\ bstQ'[Len(bstQ) + 1] = m
      /\ \A i \in 1 .. Len(bstQ) : bstQ'[i] = bstQ[i]
  BY <1>1, <1>2
<1>4. Told => Told'
  BY <1>3 DEF Told
<1>5. m.type = "UPDATE_FEATURE" => Told'
  BY <1>3 DEF Told
<1>6. Told' => Told \/ m.type = "UPDATE_FEATURE"
  BY <1>3 DEF Told
<1> QED
  BY <1>4, <1>5, <1>6

\* No other message is taken for it.
LEMMA ToldTaken ==
  ASSUME QueueType, NEW t, t # "UPDATE_FEATURE", Take(t), Told
  PROVE  Told'
<1>1. /\ bstQ \in Seq(BstMessage) /\ bstQ # <<>> /\ bstQ' = Tail(bstQ)
      /\ Head(bstQ).type # "UPDATE_FEATURE"
  BY DEF Take, QueueType
<1> HIDE DEF BstMessage
<1>2. /\ Len(bstQ') = Len(bstQ) - 1 /\ Len(bstQ) \in Nat /\ Head(bstQ) = bstQ[1]
      /\ \A i \in 1 .. Len(bstQ) - 1 : bstQ'[i] = bstQ[i + 1]
  BY <1>1, HeadTailProperties
<1>3. PICK i \in 1 .. Len(bstQ) : bstQ[i].type = "UPDATE_FEATURE"
  BY DEF Told
<1>4. i - 1 \in 1 .. Len(bstQ) - 1 /\ (i - 1) + 1 = i
  BY <1>1, <1>2, <1>3
<1> QED
  BY <1>2, <1>3, <1>4 DEF Told

\* The monitor has applied the notification at the head: the others are unread.
LEMMA HeadApplied ==
  ASSUME NetType, mpc \in {"table", "locked"}, mpc' = "notify", UNCHANGED net
  PROVE  /\ Unread(1) /\ net[1] = Head(net) /\ Head(net) \in Notification
         /\ \A i \in Nat : Unread(i)' <=> Unread(i) /\ i # 1
<1>1. /\ net \in Seq(Notification) /\ net # <<>> /\ Len(net) \in Nat
      /\ mpc \in {"table", "locked"} /\ mpc' = "notify"
  BY DEF NetType
<1>2. 1 \in 1 .. Len(net) /\ net[1] = Head(net) /\ Head(net) \in Notification
  BY <1>1, HeadTailProperties
<1>3. \A i \in Nat : Unread(i)' <=> Unread(i) /\ i # 1
  BY <1>1 DEF Unread
<1> QED
  BY <1>1, <1>2, <1>3 DEF Unread

-----------------------------------------------------------------------------
(* The limit and the enabled flag *)

\* Committed is kept.
LEMMA CommittedStep ==
  ASSUME TypeOK, Committed, [Next]_vars
  PROVE  Committed'
<1> SUFFICES ASSUME ~lost', bpc' \in {"track", "mask", "store"}
             PROVE  mode'.max = db'.max /\ (mode'.enable <=> db'.enable)
  BY DEF Committed
<1>1. ~lost
  BY LostStays
<1>2. DbType /\ NetType /\ QueueType /\ BstType
  BY Types
<1>3. mode \in Config /\ mode.enable \in BOOLEAN /\ mode.max \in Limits
  BY <1>2, ConfigFields DEF BstType
<1>4. CASE CommitSystem
  <2>1. /\ UNCHANGED mode
        /\ db' = [db EXCEPT !.enable = mode.enable, !.max = mode.max]
        /\ net' = net \o SystemNews(db, [db EXCEPT !.enable = mode.enable,
                                                   !.max = mode.max])
    BY <1>4 DEF CommitSystem
  <2> QED
    BY <1>2, <1>3, <2>1, SystemCommitted DEF DbType, NetType
<1>5. CASE ApplyTrack
  <2>1. UNCHANGED <<mode, bpc>> /\ \E s : db' = [db EXCEPT !.track = s]
    BY <1>5 DEF ApplyTrack
  <2>2. db'.max = db.max /\ db'.enable = db.enable
    BY <1>2, <2>1 DEF DbType, Config
  <2> QED
    BY <1>1, <2>1, <2>2 DEF Committed
<1>6. CASE UNCHANGED <<mode, db, bpc>>
  BY <1>1, <1>6 DEF Committed
<1>7. CASE CommitTrack \/ StoreMask
  BY <1>1, <1>7 DEF CommitTrack, StoreMask, Committed
<1>8. \/ UNCHANGED <<mode, db, bpc>>
      \/ CommitSystem \/ ApplyTrack \/ CommitTrack \/ StoreMask
  BY DEF Next, vars, Request, External, StatUpdate, BstThread, SetFeature, SetTrack,
         EnableOnTrigger, Begin, Return, ReadToCommit, Update, StoreCache, Monitor,
         MonitorStart, MonitorLock, MonitorSystem, MonitorRow, MonitorNotify
<1> QED
  BY <1>4, <1>5, <1>6, <1>7, <1>8

\* SystemFits is kept when neither the news of the System row nor what they
\* are about changes.
LEMMA SystemKept ==
  ASSUME SystemFits, ~lost, \A i \in Nat : SystemAt(i)' <=> SystemAt(i),
         \A i \in Nat : SystemAt(i) => net'[i] = net[i],
         db'.max = db.max, db'.enable = db.enable,
         cache'.max = cache.max, cache'.enable = cache.enable
  PROVE  SystemFits'
  BY Zenon DEF SystemFits

\* A notification of a bufmon row that is appended is no news of the System row.
LEMMA RowAppended ==
  ASSUME NetType, NEW u \in Notification, u.table = "bufmon",
         net' \in {net, Append(net, u)}, UNCHANGED mpc
  PROVE  \A i \in Nat : /\ SystemAt(i)' <=> SystemAt(i)
                        /\ SystemAt(i) => net'[i] = net[i]
<1>1. CASE net' = net
  BY <1>1 DEF SystemAt, Unread
<1>2. CASE net' = Append(net, u)
  <2>1. PICK n \in Nat : /\ net'[n] = u /\ Unread(n)'
                         /\ \A i \in Nat : /\ Unread(i)' <=> Unread(i) \/ i = n
                                           /\ Unread(i) => i < n /\ net'[i] = net[i]
    BY <1>2, UnreadAppend
  <2>2. ~Unread(n)
    BY <2>1
  <2>3. ASSUME NEW i \in Nat, Unread(i)
        PROVE  Unread(i)' /\ net'[i] = net[i]
    BY <2>1, <2>3
  <2>4. ASSUME NEW i \in Nat, Unread(i)'
        PROVE  Unread(i) \/ (i = n /\ net'[i].table = "bufmon")
    BY <2>1, <2>4
  <2> QED
    BY <2>2, <2>3, <2>4 DEF SystemAt
<1> QED
  BY <1>1, <1>2

\* The last news of the System row reach the cache.
LEMMA SystemFitsStep ==
  ASSUME TypeOK, Committed, SystemFits, [Next]_vars
  PROVE  SystemFits'
<1> SUFFICES ASSUME ~lost' PROVE SystemFits'
  BY DEF SystemFits
<1>1. ~lost /\ DbType /\ NetType /\ QueueType /\ BstType
  BY LostStays, Types
<1>2. /\ cache \in Config /\ cache.enable \in BOOLEAN
      /\ mode \in Config /\ mode.enable \in BOOLEAN /\ mode.max \in Limits
      /\ mode.track \in SUBSET Realms
  BY <1>1, ConfigFields DEF BstType
<1>3. ASSUME UNCHANGED net, mpc' # "notify", mpc # "notify" \/ mpc' = mpc
      PROVE  \A i \in Nat : (SystemAt(i)' <=> SystemAt(i)) /\ net'[i] = net[i]
  BY <1>3 DEF SystemAt, Unread
<1>4. CASE \/ UNCHANGED <<net, mpc, db, cache>>
           \/ StoreMask
  <2>1. UNCHANGED <<net, mpc, db>>
    BY <1>4 DEF StoreMask
  <2>2. cache'.max = cache.max /\ cache'.enable = cache.enable
    BY <1>2, <1>4 DEF StoreMask, Config
  <2>3. \A i \in Nat : (SystemAt(i)' <=> SystemAt(i)) /\ net'[i] = net[i]
    BY <2>1 DEF SystemAt, Unread
  <2> QED
    BY <1>1, <2>1, <2>2, <2>3, SystemKept
<1>5. CASE ApplyTrack \/ StatUpdate
  <2>1. UNCHANGED <<mpc, cache>>
    BY <1>5 DEF ApplyTrack, StatUpdate
  <2>2. /\ \E u \in Notification : u.table = "bufmon" /\ net' \in {net, Append(net, u)}
        /\ db'.max = db.max /\ db'.enable = db.enable
    BY <1>1, <1>5, TrackApplied, StatApplied DEF StatUpdate
  <2> QED
    BY <1>1, <2>1, <2>2, RowAppended, SystemKept
<1>6. CASE CommitSystem
  <2>1. /\ UNCHANGED <<mode, mpc, cache>>
        /\ db' = [db EXCEPT !.enable = mode.enable, !.max = mode.max]
        /\ net' = net \o SystemNews(db, [db EXCEPT !.enable = mode.enable,
                                                   !.max = mode.max])
    BY <1>6 DEF CommitSystem
  <2>2. /\ db'.enable = mode.enable /\ db'.max = mode.max
        /\ \/ net' = net /\ db.enable = mode.enable /\ db.max = mode.max
           \/ \E u \in SystemUpdate : /\ net' = Append(net, u) /\ u.table = "System"
                                      /\ u.enable = mode.enable /\ u.max = mode.max
    BY <1>1, <1>2, <2>1, SystemCommitted DEF DbType, NetType
  <2>3. CASE net' = net /\ db.enable = mode.enable /\ db.max = mode.max
    <3>1. \A i \in Nat : (SystemAt(i)' <=> SystemAt(i)) /\ net'[i] = net[i]
      BY <2>1, <2>3 DEF SystemAt, Unread
    <3> QED
      BY <1>1, <2>1, <2>2, <2>3, <3>1, SystemKept
  <2>4. ASSUME NEW u \in SystemUpdate, net' = Append(net, u), u.table = "System",
               u.enable = db'.enable, u.max = db'.max
        PROVE  SystemFits'
    <3>1. u \in Notification
      BY DEF Notification
    <3>2. PICK n \in Nat : /\ net'[n] = u /\ Unread(n)'
                           /\ \A i \in Nat : /\ Unread(i)' <=> Unread(i) \/ i = n
                                             /\ Unread(i) => i < n /\ net'[i] = net[i]
      BY <1>1, <2>1, <2>4, <3>1, UnreadAppend
    <3>3. SystemAt(n)' /\ net'[n].max = db'.max /\ net'[n].enable = db'.enable
      BY <2>4, <3>2 DEF SystemAt
    <3>4. ASSUME NEW i \in Nat, SystemAt(i)'
          PROVE  i = n \/ n > i
      <4>1. i = n \/ Unread(i)
        BY <3>2, <3>4 DEF SystemAt
      <4> QED
        BY <3>2, <4>1
    <3> QED
      BY <3>3, <3>4 DEF SystemFits
  <2> QED
    BY <2>2, <2>3, <2>4
<1>7. CASE StoreCache
  <2>1. /\ UNCHANGED <<net, mpc, db>> /\ bpc = "store"
        /\ cache' = [cache EXCEPT !.enable = mode.enable, !.max = mode.max]
    BY <1>7 DEF StoreCache
  <2>2. cache'.max = mode.max /\ cache'.enable = mode.enable
    BY <1>2, <2>1 DEF Config
  <2>3. mode.max = db.max /\ (mode.enable <=> db.enable)
    BY <1>1, <2>1 DEF Committed
  <2>4. \A i \in Nat : (SystemAt(i)' <=> SystemAt(i)) /\ net'[i] = net[i]
    BY <2>1 DEF SystemAt, Unread
  <2> QED
    BY <1>1, <2>1, <2>2, <2>3, <2>4 DEF SystemFits
<1>8. CASE MonitorStart \/ MonitorLock
  <2>1. UNCHANGED <<net, db, cache>> /\ mpc' # "idle"
    BY <1>8 DEF MonitorStart, MonitorLock
  <2>2. \A i \in Nat : (SystemAt(i)' <=> SystemAt(i)) /\ net'[i] = net[i]
    <3>1. CASE mpc' # "notify"
      BY <1>3, <1>8, <2>1, <3>1 DEF MonitorStart, MonitorLock
    <3>2. CASE mpc' = "notify"
      <4>1. mpc = "table" /\ Head(net).table = "bufmon"
        BY <1>8, <3>2 DEF MonitorStart, MonitorLock
      <4>2. Unread(1) /\ net[1] = Head(net) /\ \A i \in Nat : Unread(i)' <=> Unread(i) /\ i # 1
        BY <1>1, <2>1, <3>2, <4>1, HeadApplied
      <4> QED
        BY <2>1, <4>1, <4>2 DEF SystemAt
    <3> QED
      BY <3>1, <3>2
  <2> QED
    BY <1>1, <2>1, <2>2, SystemKept
<1>9. CASE MonitorRow
  <2>1. /\ UNCHANGED <<net, db>> /\ mpc = "locked" /\ mpc' = "notify"
        /\ Head(net).table = "bufmon"
        /\ cache' = [cache EXCEPT !.track = mmask \cup {Head(net).realm}]
    BY <1>9 DEF MonitorRow
  <2>2. cache'.max = cache.max /\ cache'.enable = cache.enable
    BY <1>2, <2>1 DEF Config
  <2>3. Unread(1) /\ net[1] = Head(net) /\ \A i \in Nat : Unread(i)' <=> Unread(i) /\ i # 1
    BY <1>1, <2>1, HeadApplied
  <2>4. \A i \in Nat : (SystemAt(i)' <=> SystemAt(i)) /\ net'[i] = net[i]
    BY <2>1, <2>3 DEF SystemAt
  <2> QED
    BY <1>1, <2>1, <2>2, <2>4, SystemKept
<1>10. CASE MonitorSystem
  <2>1. /\ UNCHANGED <<net, db>> /\ mpc = "locked" /\ mpc' = "notify"
        /\ Head(net).table = "System"
        /\ cache' = [cache EXCEPT !.enable = IF Head(net).enable # cache.enable THEN TRUE
                                             ELSE Head(net).enable,
                                  !.max = Head(net).max]
    BY <1>10 DEF MonitorSystem
  <2>2. /\ Unread(1) /\ net[1] = Head(net) /\ Head(net) \in Notification
        /\ \A i \in Nat : Unread(i)' <=> Unread(i) /\ i # 1
    BY <1>1, <2>1, HeadApplied
  <2>3. Head(net).enable \in BOOLEAN /\ Head(net).max \in Limits
    BY <2>1, <2>2 DEF Notification, RowUpdate, SystemUpdate
  <2>4. cache'.max = Head(net).max /\ (Head(net).enable => cache'.enable)
    BY <1>2, <2>1, <2>3 DEF Config
  <2>5. SystemAt(1) /\ \A i \in Nat : SystemAt(i)' <=> SystemAt(i) /\ i # 1
    BY <2>1, <2>2 DEF SystemAt
  <2>6. ASSUME NEW i \in Nat, SystemAt(i)'
        PROVE  \/ net'[i].max = db'.max /\ (net'[i].enable <=> db'.enable)
               \/ \E j \in Nat : j > i /\ SystemAt(j)'
    <3>1. i # 0
      BY <2>6 DEF SystemAt, Unread
    <3>2. \/ net[i].max = db.max /\ (net[i].enable <=> db.enable)
          \/ \E j \in Nat : j > i /\ SystemAt(j)
      BY <1>1, <2>5, <2>6 DEF SystemFits
    <3> QED
      BY <2>1, <2>5, <3>1, <3>2
  <2>7. ASSUME \A i \in Nat : ~SystemAt(i)'
        PROVE  Head(net).max = db.max /\ (Head(net).enable <=> db.enable)
    <3>1. \A j \in Nat : j > 1 => ~SystemAt(j)
      BY <2>5, <2>7
    <3> QED
      BY <1>1, <2>2, <2>5, <3>1 DEF SystemFits
  <2> QED
    BY <2>1, <2>4, <2>6, <2>7 DEF SystemFits
<1>11. CASE MonitorNotify
  <2>1. /\ UNCHANGED <<db, cache>> /\ mpc = "notify" /\ mpc' = "idle"
        /\ net' = Tail(net)
    BY <1>11 DEF MonitorNotify
  <2>2. /\ \A i \in Nat : Unread(i)' => Unread(i + 1) /\ net'[i] = net[i + 1]
        /\ \A j \in Nat : Unread(j) =>
              \E i \in Nat : j = i + 1 /\ Unread(i)' /\ net'[i] = net[j]
    BY <1>1, <2>1, UnreadTail
  <2>3. ASSUME NEW j \in Nat, SystemAt(j)
        PROVE  \E i \in Nat : j = i + 1 /\ SystemAt(i)'
    BY <2>2, <2>3 DEF SystemAt
  <2>4. ASSUME NEW i \in Nat, SystemAt(i)'
        PROVE  SystemAt(i + 1) /\ net'[i] = net[i + 1]
    BY <2>2, <2>4 DEF SystemAt
  <2>5. ASSUME NEW i \in Nat, SystemAt(i)'
        PROVE  \/ net'[i].max = db'.max /\ (net'[i].enable <=> db'.enable)
               \/ \E j \in Nat : j > i /\ SystemAt(j)'
    <3>1. SystemAt(i + 1) /\ net'[i] = net[i + 1] /\ i + 1 \in Nat
      BY <2>4, <2>5
    <3>2. CASE net[i + 1].max = db.max /\ (net[i + 1].enable <=> db.enable)
      BY <2>1, <3>1, <3>2
    <3>3. ASSUME NEW j \in Nat, j > i + 1, SystemAt(j)
          PROVE  \E k \in Nat : k > i /\ SystemAt(k)'
      <4>1. PICK k \in Nat : j = k + 1 /\ SystemAt(k)'
        BY <2>3, <3>3
      <4> QED
        BY <3>3, <4>1
    <3> QED
      BY <1>1, <3>1, <3>2, <3>3 DEF SystemFits
  <2>6. (\A i \in Nat : ~SystemAt(i)') => \A j \in Nat : ~SystemAt(j)
    BY <2>3
  <2> QED
    BY <1>1, <2>1, <2>5, <2>6 DEF SystemFits
<1>12. \/ UNCHANGED <<net, mpc, db, cache>>
       \/ StoreMask \/ ApplyTrack \/ StatUpdate \/ CommitSystem \/ StoreCache \/ Monitor
  BY DEF Next, vars, Request, External, BstThread, SetFeature, SetTrack,
         EnableOnTrigger, ReadToCommit, Update, CommitTrack
<1> QED
  BY <1>4, <1>5, <1>6, <1>7, <1>8, <1>9, <1>10, <1>11, <1>12 DEF Monitor

\* The application follows the cache's limit.
LEMMA AppFitsStep ==
  ASSUME TypeOK, AppFits, [Next]_vars
  PROVE  AppFits'
<1> SUFFICES ASSUME ~lost' PROVE AppFits'
  BY DEF AppFits
<1>1. ~lost /\ DbType /\ NetType /\ QueueType /\ BstType
  BY LostStays, Types
<1>2. /\ cache \in Config /\ cache.enable \in BOOLEAN /\ cache.max \in Limits
      /\ app \in Config
      /\ mode \in Config /\ mode.enable \in BOOLEAN /\ mode.max \in Limits
      /\ mode.track \in SUBSET Realms
  BY <1>1, ConfigFields DEF BstType
<1>3. /\ bpc = "recv" => Told \/ app.max = cache.max
      /\ bpc = "get" => req.type \in Writers \/ Told \/ app.max = cache.max
      /\ bpc \in {"commit", "track", "mask", "store"} =>
           app.max = mode.max \/ (req.type \notin Writers /\ Told)
  BY <1>1 DEF AppFits
<1>4. ASSUME UNCHANGED bstQ PROVE Told' <=> Told
  BY <1>4 DEF Told
<1>5. /\ \A t \in {"UPDATE_FEATURE", "UPDATE_TRACK"} : [type |-> t] \in BstMessage
      /\ \A t \in {"UPDATE_FEATURE", "UPDATE_TRACK"} : [type |-> t].type = t
  BY DEF BstMessage, OtherMsg
<1>6. CASE \/ UNCHANGED <<app, bpc, req, mode, bstQ>> /\ cache'.max = cache.max
           \/ UNCHANGED <<app, bpc, req, mode, cache>> /\ (Told => Told')
  BY <1>3, <1>4, <1>6 DEF AppFits
<1>7. CASE Request
  <2>1. UNCHANGED <<app, bpc, req, mode, cache>> /\ \E m \in BstMessage : Send(m)
    BY <1>7, Zenon DEF Request, BstMessage, OtherMsg
  <2> QED
    BY <1>1, <1>6, <2>1, ToldSent
<1>8. CASE SetFeature
  <2>1. Take("SET_FEATURE") /\ bpc' = "get" /\ req' = Head(bstQ)
    BY <1>8 DEF SetFeature, Begin
  <2> QED
    BY <2>1 DEF Take, AppFits, Writers
<1>9. CASE SetTrack \/ EnableOnTrigger
  <2>1. PICK t \in {"SET_TRACK", "TRIGGER_REPORT", "ENABLE_BST_ON_TRIGGER"} : Take(t)
    BY <1>9 DEF SetTrack, EnableOnTrigger
  <2>2. /\ UNCHANGED <<app, mode, cache>> /\ bpc = "recv"
        /\ bpc' \in {"recv", "get"}
    BY <1>9, <2>1 DEF SetTrack, EnableOnTrigger, Begin, Take
  <2>3. Told => Told'
    BY <1>1, <2>1, ToldTaken
  <2> QED
    BY <1>3, <2>2, <2>3 DEF AppFits
<1>10. CASE ReadToCommit
  <2>1. /\ UNCHANGED <<app, cache, req, bstQ>> /\ bpc = "get" /\ bpc' = "commit"
        /\ mode' = ModeToCommit(cache)
    BY <1>10 DEF ReadToCommit
  <2>2. CASE req.type = "SET_FEATURE"
    <3>1. req.enable \in BOOLEAN
      BY <1>1, <2>2, RequestFields
    <3>2. mode' = [cache EXCEPT !.enable = req.enable, !.max = app.max]
      BY <2>1, <2>2 DEF ModeToCommit
    <3>3. mode'.max = app.max
      BY <1>2, <3>1, <3>2 DEF Config
    <3> QED
      BY <2>1, <3>3 DEF AppFits
  <2>3. CASE req.type = "SET_TRACK"
    <3>1. mode' = [enable |-> app.enable, max |-> app.max, track |-> req.track]
      BY <2>1, <2>3 DEF ModeToCommit
    <3>2. mode'.max = app.max
      BY <3>1
    <3> QED
      BY <2>1, <3>2 DEF AppFits
  <2>4. CASE req.type \notin Writers
    <3>1. mode' = [cache EXCEPT !.enable = TRUE]
      BY <2>1, <2>4 DEF ModeToCommit, Writers
    <3>2. mode'.max = cache.max
      BY <1>2, <3>1 DEF Config
    <3> QED
      BY <1>3, <1>4, <2>1, <2>4, <3>2 DEF AppFits
  <2> QED
    BY <2>2, <2>3, <2>4 DEF Writers
<1>11. CASE Update
  <2>1. UNCHANGED <<cache, bpc, req, mode>> /\ bpc = "recv"
    BY <1>11 DEF Update, Take
  <2>2. CASE app' = [app EXCEPT !.enable = cache.enable, !.max = cache.max]
    <3>1. app'.max = cache.max
      BY <1>2, <2>2 DEF Config
    <3> QED
      BY <2>1, <3>1 DEF AppFits
  <2>3. CASE Take("UPDATE_TRACK") /\ app' = [app EXCEPT !.track = cache.track]
    <3>1. app'.max = app.max
      BY <1>2, <2>3 DEF Config
    <3>2. Told => Told'
      BY <1>1, <2>3, ToldTaken
    <3> QED
      BY <1>3, <2>1, <3>1, <3>2 DEF AppFits
  <2> QED
    BY <1>11, <2>2, <2>3 DEF Update
<1>12. CASE CommitSystem \/ CommitTrack
  <2>1. /\ UNCHANGED <<req, mode, app, cache, bstQ>>
        /\ bpc \in {"commit", "track"} /\ bpc' \in {"track", "mask"}
    BY <1>12 DEF CommitSystem, CommitTrack
  <2> QED
    BY <1>3, <1>4, <2>1 DEF AppFits
<1>13. CASE StoreMask
  <2>1. /\ UNCHANGED <<req, mode, app, bstQ>> /\ bpc = "mask" /\ bpc' = "store"
    BY <1>13 DEF StoreMask
  <2> QED
    BY <1>3, <1>4, <2>1 DEF AppFits
<1>14. CASE StoreCache
  <2>1. /\ UNCHANGED bstQ /\ bpc = "store" /\ bpc' = "recv"
        /\ cache' = [cache EXCEPT !.enable = mode.enable, !.max = mode.max]
        /\ app' = Programmed(app)
    BY <1>14 DEF StoreCache, Return
  <2>2. cache'.max = mode.max
    BY <1>2, <2>1 DEF Config
  <2>3. app'.max = app.max
    <3>1. req.type = "SET_FEATURE" => req.enable \in BOOLEAN
      BY <1>1, RequestFields
    <3>2. \/ app' = app
          \/ \E e \in BOOLEAN : app' = [app EXCEPT !.enable = e]
          \/ \E x : app' = [app EXCEPT !.track = x]
      BY <2>1, <3>1, Zenon DEF Programmed
    <3> QED
      BY <1>2, <3>2 DEF Config
  <2> QED
    BY <1>3, <1>4, <2>1, <2>2, <2>3 DEF AppFits
<1>15. CASE MonitorSystem
  <2>1. /\ UNCHANGED <<app, bpc, req, mode>> /\ mpc = "locked" /\ mpc' = "notify"
        /\ Head(net).table = "System" /\ UNCHANGED net
        /\ cache' = [cache EXCEPT !.enable = IF Head(net).enable # cache.enable THEN TRUE
                                             ELSE Head(net).enable,
                                  !.max = Head(net).max]
    BY <1>15 DEF MonitorSystem
  <2>2. \/ Send([type |-> "UPDATE_FEATURE"])
        \/ UNCHANGED bstQ /\ Head(net).max = cache.max
    BY <1>15 DEF MonitorSystem
  <2>3. Head(net) \in Notification
    BY <1>1, <2>1, HeadApplied
  <2>4. Head(net).enable \in BOOLEAN /\ Head(net).max \in Limits
    BY <2>1, <2>3 DEF Notification, RowUpdate, SystemUpdate
  <2>5. cache'.max = Head(net).max
    BY <1>2, <2>1, <2>4 DEF Config
  <2>6. CASE Send([type |-> "UPDATE_FEATURE"])
    <3>1. Told'
      BY <1>1, <1>5, <2>6, ToldSent
    <3> QED
      BY <1>3, <2>1, <3>1 DEF AppFits
  <2>7. CASE UNCHANGED bstQ /\ Head(net).max = cache.max
    BY <1>6, <2>1, <2>5, <2>7
  <2> QED
    BY <2>2, <2>6, <2>7
<1>16. CASE MonitorNotify
  <2>1. /\ UNCHANGED <<app, bpc, req, mode, cache>>
        /\ UNCHANGED bstQ \/ Send([type |-> "UPDATE_TRACK"])
    BY <1>16 DEF MonitorNotify
  <2>2. Told => Told'
    BY <1>1, <1>4, <1>5, <2>1, ToldSent
  <2> QED
    BY <1>6, <2>1, <2>2
<1>17. CASE MonitorRow
  <2>1. /\ UNCHANGED <<app, bpc, req, mode, bstQ>>
        /\ cache' = [cache EXCEPT !.track = mmask \cup {Head(net).realm}]
    BY <1>17 DEF MonitorRow
  <2>2. cache'.max = cache.max
    BY <1>2, <2>1 DEF Config
  <2> QED
    BY <1>6, <2>1, <2>2
<1>18. CASE UNCHANGED <<app, bpc, req, mode, cache, bstQ>>
  BY <1>4, <1>6, <1>18
<1>19. \/ UNCHANGED <<app, bpc, req, mode, cache, bstQ>>
       \/ Request \/ BstThread \/ MonitorSystem \/ MonitorRow \/ MonitorNotify
  BY DEF Next, vars, External, StatUpdate, ApplyTrack, Monitor, MonitorStart, MonitorLock
<1> QED
  BY <1>7, <1>8, <1>9, <1>10, <1>11, <1>12, <1>13, <1>14, <1>15, <1>16, <1>17, <1>18,
     <1>19 DEF BstThread

-----------------------------------------------------------------------------
(* The tracking mask *)

\* A transaction in flight has been executed: the others move up.
LEMMA InflightTail ==
  ASSUME DbType, inflight # <<>>, inflight' = Tail(inflight)
  PROVE  /\ Head(inflight) = inflight[1] /\ 1 \in 1 .. Len(inflight)
         /\ \A r \in Realms, i \in Nat : SetAt(r, i)' => SetAt(r, i + 1)
         /\ \A r \in Realms, j \in Nat : ClearAt(r, j) /\ j # 1 =>
              \E i \in Nat : j = i + 1 /\ ClearAt(r, i)'
  <1>1. /\ inflight \in Seq(Transaction) /\ Len(inflight) \in Nat
        /\ Len(inflight') = Len(inflight) - 1 /\ Head(inflight) = inflight[1]
        /\ \A i \in 1 .. Len(inflight) - 1 : inflight'[i] = inflight[i + 1]
        /\ 1 \in 1 .. Len(inflight)
    BY HeadTailProperties DEF DbType
  <1>2. ASSUME NEW r \in Realms, NEW i \in Nat
        PROVE  SetAt(r, i)' => SetAt(r, i + 1)
    BY <1>1 DEF SetAt
  <1>3. ASSUME NEW r \in Realms, NEW j \in Nat, ClearAt(r, j), j # 1
        PROVE  \E i \in Nat : j = i + 1 /\ ClearAt(r, i)'
    <2>1. j \in 2 .. Len(inflight)
      BY <1>1, <1>3 DEF ClearAt
    <2>2. PICK i \in 1 .. Len(inflight) - 1 : j = i + 1
      <3>1. j - 1 \in 1 .. Len(inflight) - 1 /\ j = (j - 1) + 1
        BY <1>1, <2>1
      <3> QED
        BY <3>1
    <2>3. ClearAt(r, i)'
      BY <1>1, <1>3, <2>2 DEF ClearAt
    <2> QED
      BY <2>2, <2>3
  <1> QED
    BY <1>1, <1>2, <1>3

\* The transactions of a mask are sent: they come after the others.
LEMMA InflightSent ==
  ASSUME DbType, inflight' = inflight \o TrackTransactions
  PROVE  /\ \A r \in Realms, i \in Nat : ClearAt(r, i) => ClearAt(r, i)'
         /\ \A r \in Realms \ mode.track :
              \E n \in Nat : /\ ClearAt(r, n)'
                             /\ \A i \in Nat : SetAt(r, i)' => i < n
<1>1. /\ inflight \in Seq(Transaction) /\ TrackTransactions \in Seq(Transaction)
      /\ Len(inflight) \in Nat /\ Len(TrackTransactions) \in Nat
  BY TrackFields DEF DbType
<1>2. /\ Len(inflight') = Len(inflight) + Len(TrackTransactions)
      /\ \A i \in 1 .. Len(inflight) : inflight'[i] = inflight[i]
      /\ \A k \in 1 .. Len(TrackTransactions) :
           inflight'[Len(inflight) + k] = TrackTransactions[k]
  <2> HIDE DEF TrackTransactions
  <2>1. PICK q : q = TrackTransactions
    OBVIOUS
  <2> QED
    BY <1>1, <2>1, ConcatProperties
<1>3. ASSUME NEW r \in Realms, NEW i \in Nat, ClearAt(r, i) PROVE ClearAt(r, i)'
  BY <1>1, <1>2, <1>3 DEF ClearAt
<1>4. ASSUME NEW r \in Realms \ mode.track
      PROVE  \E n \in Nat : ClearAt(r, n)' /\ \A i \in Nat : SetAt(r, i)' => i < n
  <2>1. PICK k \in 1 .. Len(TrackTransactions) : TrackTransactions[k].realm = r
    BY TrackFields
  <2>2. ~TrackTransactions[k].enabled
    BY <2>1, TrackFields
  <2>3. PICK n \in Nat : n = Len(inflight) + k
    BY <1>1
  <2>4. ClearAt(r, n)'
    BY <1>1, <1>2, <2>1, <2>2, <2>3 DEF ClearAt
  <2>5. ASSUME NEW i \in Nat, SetAt(r, i)' PROVE i <= Len(inflight)
    <3>1. i \in 1 .. Len(inflight') /\ inflight'[i].realm = r /\ inflight'[i].enabled
      BY <2>5 DEF SetAt
    <3>2. SUFFICES ASSUME i > Len(inflight) PROVE FALSE
      BY <1>1
    <3>3. PICK m \in 1 .. Len(TrackTransactions) : i = Len(inflight) + m
      <4>1. /\ i - Len(inflight) \in 1 .. Len(TrackTransactions)
            /\ i = Len(inflight) + (i - Len(inflight))
        BY <1>1, <1>2, <3>1, <3>2
      <4> QED
        BY <4>1
    <3>4. TrackTransactions[m].realm = r /\ TrackTransactions[m].enabled
      BY <1>2, <3>1, <3>3
    <3> QED
      BY <3>4, TrackFields
  <2> QED
    BY <1>1, <2>3, <2>4, <2>5
<1> QED
  BY <1>3, <1>4

\* MaskFits is kept.
LEMMA MaskFitsStep ==
  ASSUME TypeOK, MaskFits, [Next]_vars
  PROVE  MaskFits'
<1> SUFFICES ASSUME bpc' = "mask"
             PROVE  \A r \in Realms \ mode'.track :
                      /\ \A i \in Nat : SetAt(r, i)' =>
                           \E j \in Nat : j > i /\ ClearAt(r, j)'
                      /\ r \in db'.track => \E i \in Nat : ClearAt(r, i)'
  BY DEF MaskFits
<1>1. DbType /\ NetType /\ QueueType /\ BstType
  BY Types
<1>2. CASE CommitTrack
  <2>1. UNCHANGED <<mode, db>> /\ inflight' = inflight \o TrackTransactions
    BY <1>2 DEF CommitTrack, Return
  <2> QED
    BY <1>1, <2>1, InflightSent
<1>3. CASE ApplyTrack
  <2>1. bpc' = bpc /\ mode' = mode /\ inflight # <<>> /\ inflight' = Tail(inflight)
    BY <1>3 DEF ApplyTrack
  <2>2. PICK t : /\ t = Head(inflight) /\ t.enabled \in BOOLEAN
                 /\ db'.track = IF t.enabled THEN db.track \cup {t.realm}
                                ELSE db.track \ {t.realm}
    BY <1>1, <1>3, TrackApplied
  <2>3. /\ t = inflight[1] /\ 1 \in 1 .. Len(inflight)
        /\ \A r \in Realms, i \in Nat : SetAt(r, i)' => SetAt(r, i + 1)
        /\ \A r \in Realms, j \in Nat : ClearAt(r, j) /\ j # 1 =>
             \E i \in Nat : j = i + 1 /\ ClearAt(r, i)'
    BY <1>1, <2>1, <2>2, InflightTail
  <2> SUFFICES ASSUME NEW r \in Realms \ mode.track
               PROVE  /\ \A i \in Nat : SetAt(r, i)' =>
                           \E j \in Nat : j > i /\ ClearAt(r, j)'
                      /\ r \in db'.track => \E i \in Nat : ClearAt(r, i)'
    BY <2>1, Zenon
  <2>4. /\ \A i \in Nat : SetAt(r, i) => \E j \in Nat : j > i /\ ClearAt(r, j)
        /\ r \in db.track => \E i \in Nat : ClearAt(r, i)
    BY <2>1 DEF MaskFits
  <2>5. ASSUME NEW i \in Nat, SetAt(r, i)'
        PROVE  \E j \in Nat : j > i /\ ClearAt(r, j)'
    <3>1. PICK k \in Nat : k > i + 1 /\ ClearAt(r, k)
      BY <2>3, <2>4, <2>5
    <3>2. PICK j \in Nat : k = j + 1 /\ ClearAt(r, j)'
      BY <2>3, <3>1
    <3> QED
      BY <3>1, <3>2
  <2>6. ASSUME r \in db'.track
        PROVE  \E i \in Nat : ClearAt(r, i)'
    <3>1. CASE t.enabled /\ t.realm = r
      <4>1. SetAt(r, 1)
        BY <2>3, <3>1 DEF SetAt
      <4>2. PICK k \in Nat : k > 1 /\ ClearAt(r, k)
        BY <2>4, <4>1
      <4> QED
        BY <2>3, <4>2
    <3>2. CASE ~(t.enabled /\ t.realm = r)
      <4>1. r \in db.track /\ ~(~t.enabled /\ t.realm = r)
        BY <2>2, <2>6, <3>2
      <4>2. PICK k \in Nat : ClearAt(r, k)
        BY <2>4, <4>1
      <4>3. k # 1
        BY <2>3, <4>1, <4>2 DEF ClearAt
      <4> QED
        BY <2>3, <4>2, <4>3
    <3> QED
      BY <3>1, <3>2
  <2> QED
    BY <2>5, <2>6
<1>4. CASE UNCHANGED <<bpc, mode, inflight>> /\ db'.track = db.track
  BY <1>4 DEF MaskFits, SetAt, ClearAt
<1>5. CASE External
  <2>1. PICK e \in BOOLEAN, n \in Limits :
          /\ db' = [db EXCEPT !.enable = e, !.max = n]
          /\ net' = net \o SystemNews(db, [db EXCEPT !.enable = e, !.max = n])
    BY <1>5 DEF External
  <2>2. db'.track = db.track
    BY <1>1, <2>1, SystemCommitted DEF DbType, NetType
  <2> QED
    BY <1>4, <1>5, <2>2 DEF External
<1>6. \/ UNCHANGED <<bpc, mode, inflight, db>>
      \/ CommitTrack \/ ApplyTrack \/ External
  BY DEF Next, vars, Request, StatUpdate, BstThread, SetFeature, SetTrack,
         EnableOnTrigger, Begin, Return, Take, ReadToCommit, Update, CommitSystem,
         StoreMask, StoreCache, Monitor, MonitorStart, MonitorLock, MonitorSystem,
         MonitorRow, MonitorNotify
<1> QED
  BY <1>2, <1>3, <1>4, <1>5, <1>6

\* TrackFits is kept when the masks and what the database tracks stay the same
\* and nothing that a realm waits for is lost.
LEMMA TrackKept ==
  ASSUME TrackFits, \A r \in Realms : Pending(r) => Pending(r)',
         db' \in Config, db'.track = db.track, cache'.track = cache.track,
         mmask' = mmask, mpc' = "locked" => mpc = "locked"
  PROVE  TrackFits'
<1>1. db'.track \subseteq Realms
  BY DEF Config
<1> QED
  BY <1>1 DEF TrackFits

\* A notification that is appended takes nothing away.
LEMMA PendingAppend ==
  ASSUME NetType, NEW u \in Notification, net' \in {net, Append(net, u)},
         UNCHANGED <<mpc, inflight>>
  PROVE  \A r \in Realms : Pending(r) => Pending(r)'
<1>1. \A i \in Nat : Unread(i) => Unread(i)' /\ net'[i] = net[i]
  <2>1. CASE net' = net
    BY <2>1 DEF Unread
  <2>2. CASE net' = Append(net, u)
    BY <2>2, UnreadAppend
  <2> QED
    BY <2>1, <2>2
<1>2. \A r \in Realms, i \in Nat : RowAt(r, i) => RowAt(r, i)'
  BY <1>1 DEF RowAt
<1>3. \A r \in Realms, i \in Nat : ClearAt(r, i) => ClearAt(r, i)'
  BY DEF ClearAt
<1> QED
  BY <1>2, <1>3 DEF Pending

\* The monitor has applied the notification at the head: what it set, a realm
\* does not wait for any more.
LEMMA PendingApplied ==
  ASSUME NetType, mpc \in {"table", "locked"}, mpc' = "notify", UNCHANGED <<net, inflight>>,
         NEW r \in Realms, Pending(r)
  PROVE  \/ Pending(r)'
         \/ Head(net).table = "bufmon" /\ Head(net).realm = r /\ Head(net).enabled
<1>1. net[1] = Head(net) /\ \A i \in Nat : Unread(i)' <=> Unread(i) /\ i # 1
  BY HeadApplied
<1>2. \A i \in Nat : ClearAt(r, i) => ClearAt(r, i)'
  BY DEF ClearAt
<1>3. ASSUME NEW i \in Nat, RowAt(r, i), i # 1 PROVE RowAt(r, i)'
  BY <1>1, <1>3 DEF RowAt
<1>4. RowAt(r, 1) =>
        Head(net).table = "bufmon" /\ Head(net).realm = r /\ Head(net).enabled
  BY <1>1 DEF RowAt
<1> QED
  BY <1>2, <1>3, <1>4 DEF Pending

\* No realm is missing from a mask for good.
LEMMA TrackFitsStep ==
  ASSUME TypeOK, MaskFits, TrackFits, [Next]_vars, TypeOK'
  PROVE  TrackFits'
<1>1. DbType /\ NetType /\ QueueType /\ BstType /\ db' \in Config
  BY Types, Zenon DEF TypeOK, DbType
<1>2. /\ cache \in Config /\ cache.track \in SUBSET Realms
      /\ mode \in Config /\ mode.enable \in BOOLEAN /\ mode.max \in Limits
      /\ mode.track \in SUBSET Realms /\ db.track \in SUBSET Realms
  BY <1>1, ConfigFields DEF BstType, DbType
<1>3. ASSUME UNCHANGED <<net, inflight>>, mpc' # "notify", mpc # "notify" \/ mpc' = mpc
      PROVE  \A r \in Realms : Pending(r) => Pending(r)'
  BY <1>3 DEF Pending, RowAt, ClearAt, Unread
<1>4. CASE \/ UNCHANGED <<net, inflight, mpc, mmask, db, cache>>
           \/ StoreCache \/ MonitorStart
  <2>1. UNCHANGED <<net, inflight, mmask, db>> /\ (mpc' = mpc \/ MonitorStart)
    BY <1>4 DEF StoreCache, MonitorStart
  <2>2. cache'.track = cache.track
    BY <1>2, <1>4 DEF StoreCache, MonitorStart, Config
  <2>3. mpc' = "locked" => mpc = "locked"
    BY <2>1 DEF MonitorStart
  <2>4. \A r \in Realms : Pending(r) => Pending(r)'
    BY <2>1 DEF MonitorStart, Pending, RowAt, ClearAt, Unread
  <2> QED
    BY <1>1, <2>1, <2>2, <2>3, <2>4, TrackKept
<1>5. CASE StatUpdate
  <2>1. UNCHANGED <<mpc, inflight, mmask, db, cache>>
    BY <1>5 DEF StatUpdate
  <2> QED
    BY <1>1, <1>5, <2>1, StatApplied, PendingAppend, TrackKept
<1>6. CASE CommitSystem \/ External
  <2>1. UNCHANGED <<mpc, inflight, mmask, cache>>
    BY <1>6 DEF CommitSystem, External
  <2>2. \/ UNCHANGED <<db, net>>
        \/ \E e \in BOOLEAN, n \in Limits :
             /\ db' = [db EXCEPT !.enable = e, !.max = n]
             /\ net' = net \o SystemNews(db, [db EXCEPT !.enable = e, !.max = n])
    BY <1>2, <1>6, Zenon DEF CommitSystem, External
  <2>3. /\ db'.track = db.track
        /\ net' = net \/ \E u \in Notification : net' = Append(net, u)
    BY <1>1, <2>2, SystemCommitted DEF DbType, NetType, Notification
  <2>4. \A r \in Realms : Pending(r) => Pending(r)'
    <3>1. CASE net' = net
      BY <2>1, <3>1 DEF Pending, RowAt, ClearAt, Unread
    <3> QED
      BY <1>1, <2>1, <2>3, <3>1, PendingAppend
  <2> QED
    BY <1>1, <2>1, <2>3, <2>4, TrackKept
<1>7. CASE CommitTrack
  <2>1. /\ UNCHANGED <<net, mpc, mmask, db, cache>>
        /\ inflight' = inflight \/ inflight' = inflight \o TrackTransactions
    BY <1>7 DEF CommitTrack
  <2>2. \A r \in Realms, i \in Nat : ClearAt(r, i) => ClearAt(r, i)'
    <3>1. CASE inflight' = inflight
      BY <3>1 DEF ClearAt
    <3> QED
      BY <1>1, <2>1, <3>1, InflightSent
  <2>3. \A r \in Realms, i \in Nat : RowAt(r, i) => RowAt(r, i)'
    BY <2>1 DEF RowAt, Unread
  <2>4. \A r \in Realms : Pending(r) => Pending(r)'
    BY <2>2, <2>3 DEF Pending
  <2> QED
    BY <1>1, <2>1, <2>4, TrackKept
<1>8. CASE StoreMask
  <2>1. /\ UNCHANGED <<net, inflight, mpc, mmask, db>> /\ bpc = "mask"
        /\ cache' = [cache EXCEPT !.track = mode.track]
    BY <1>8 DEF StoreMask
  <2>2. cache'.track = mode.track
    BY <1>2, <2>1 DEF Config
  <2>3. \A r \in Realms : Pending(r) => Pending(r)'
    BY <2>1 DEF Pending, RowAt, ClearAt, Unread
  <2>4. ASSUME NEW r \in db.track, r \notin mode.track PROVE Pending(r)
    BY <1>2, <2>1, <2>4 DEF MaskFits, Pending
  <2>5. \A r \in db'.track : r \notin cache'.track => Pending(r)'
    BY <1>2, <2>1, <2>2, <2>3, <2>4
  <2>6. mpc' = "locked" => \A r \in db'.track : r \notin mmask' => Pending(r)'
    BY <1>2, <2>1, <2>3 DEF TrackFits
  <2> QED
    BY <2>5, <2>6 DEF TrackFits
<1>9. CASE MonitorLock
  <2>1. /\ UNCHANGED <<net, inflight, db, cache>> /\ mpc = "table"
        /\ mmask' = cache.track
        /\ \/ mpc' = "locked"
           \/ mpc' = "notify" /\ Head(net).table = "bufmon" /\ ~Head(net).enabled
    BY <1>9 DEF MonitorLock
  <2>2. \A r \in Realms : Pending(r) => Pending(r)'
    <3>1. CASE mpc' = "locked"
      BY <1>3, <2>1, <3>1
    <3>2. CASE mpc' = "notify" /\ ~Head(net).enabled
      BY <1>1, <2>1, <3>2, PendingApplied
    <3> QED
      BY <2>1, <3>1, <3>2
  <2>3. \A r \in db.track : r \notin cache.track => Pending(r)'
    BY <1>2, <2>2 DEF TrackFits
  <2> QED
    BY <2>1, <2>3 DEF TrackFits
<1>10. CASE MonitorSystem
  <2>1. /\ UNCHANGED <<net, inflight, mmask, db>> /\ mpc = "locked" /\ mpc' = "notify"
        /\ Head(net).table = "System"
        /\ cache' = [cache EXCEPT !.enable = IF Head(net).enable # cache.enable THEN TRUE
                                             ELSE Head(net).enable,
                                  !.max = Head(net).max]
    BY <1>10 DEF MonitorSystem
  <2>2. cache'.track = cache.track
    BY <1>2, <2>1 DEF Config
  <2>3. \A r \in Realms : Pending(r) => Pending(r)'
    BY <1>1, <2>1, PendingApplied
  <2> QED
    BY <1>1, <2>1, <2>2, <2>3, TrackKept
<1>11. CASE MonitorRow
  <2>1. /\ UNCHANGED <<net, inflight, db>> /\ mpc = "locked" /\ mpc' = "notify"
        /\ cache' = [cache EXCEPT !.track = mmask \cup {Head(net).realm}]
    BY <1>11 DEF MonitorRow
  <2>2. cache'.track = mmask \cup {Head(net).realm}
    BY <1>2, <2>1 DEF Config
  <2>3. ASSUME NEW r \in db.track, r \notin cache'.track
        PROVE  Pending(r)'
    <3>1. Pending(r) /\ Head(net).realm # r /\ r \in Realms
      BY <1>2, <2>1, <2>2, <2>3 DEF TrackFits
    <3> QED
      BY <1>1, <2>1, <3>1, PendingApplied
  <2> QED
    BY <2>1, <2>3 DEF TrackFits
<1>12. CASE MonitorNotify
  <2>1. /\ UNCHANGED <<inflight, db, cache>> /\ mpc = "notify" /\ mpc' = "idle"
        /\ net' = Tail(net)
    BY <1>12 DEF MonitorNotify
  <2>2. \A j \in Nat : Unread(j) => \E i \in Nat : Unread(i)' /\ net'[i] = net[j]
    BY <1>1, <2>1, UnreadTail
  <2>3. ASSUME NEW r \in Realms, NEW j \in Nat, RowAt(r, j)
        PROVE  \E i \in Nat : RowAt(r, i)'
    BY <2>2, <2>3 DEF RowAt
  <2>4. \A r \in Realms, i \in Nat : ClearAt(r, i) => ClearAt(r, i)'
    BY <2>1 DEF ClearAt
  <2>5. \A r \in Realms : Pending(r) => Pending(r)'
    BY <2>3, <2>4 DEF Pending
  <2>6. \A r \in db.track : r \notin cache.track => Pending(r)'
    BY <1>2, <2>5 DEF TrackFits
  <2> QED
    BY <2>1, <2>6 DEF TrackFits
<1>13. CASE ApplyTrack
  <2>1. /\ UNCHANGED <<mpc, mmask, cache>>
        /\ inflight # <<>> /\ inflight' = Tail(inflight)
    BY <1>13 DEF ApplyTrack
  <2>2. PICK t \in Transaction, u \in Notification :
          /\ t = Head(inflight) /\ t.realm \in Realms /\ t.enabled \in BOOLEAN
          /\ u = [table |-> "bufmon", realm |-> t.realm, enabled |-> t.enabled]
          /\ net' \in {net, Append(net, u)}
          /\ db'.track = IF t.enabled THEN db.track \cup {t.realm}
                         ELSE db.track \ {t.realm}
          /\ t.enabled /\ t.realm \notin db.track => net' = Append(net, u)
    <3> DEFINE t == Head(inflight)
               u == [table |-> "bufmon", realm |-> t.realm, enabled |-> t.enabled]
    <3>1. /\ u \in Notification /\ t \in Transaction
          /\ t.realm \in Realms /\ t.enabled \in BOOLEAN
          /\ net' \in {net, Append(net, u)}
          /\ db'.track = IF t.enabled THEN db.track \cup {t.realm}
                         ELSE db.track \ {t.realm}
          /\ t.enabled /\ t.realm \notin db.track => net' = Append(net, u)
      BY <1>1, <1>13, TrackApplied
    <3>2. /\ t = Head(inflight)
          /\ u = [table |-> "bufmon", realm |-> t.realm, enabled |-> t.enabled]
      OBVIOUS
    <3> HIDE DEF t, u
    <3> QED
      BY <3>1, <3>2, Zenon
  <2>3. \A r \in Realms, j \in Nat : ClearAt(r, j) /\ j # 1 => \E i \in Nat : ClearAt(r, i)'
    BY <1>1, <2>1, InflightTail
  <2>4. ASSUME NEW r \in Realms, ClearAt(r, 1) PROVE r \notin db'.track
    <3>1. t = inflight[1]
      BY <1>1, <2>1, <2>2, InflightTail
    <3>2. t.realm = r /\ ~t.enabled
      BY <2>4, <3>1 DEF ClearAt
    <3> QED
      BY <2>2, <3>2
  <2>5. \A r \in Realms, i \in Nat : RowAt(r, i) => RowAt(r, i)'
    <3>1. \A i \in Nat : Unread(i) => Unread(i)' /\ net'[i] = net[i]
      <4>1. CASE net' = net
        BY <2>1, <4>1 DEF Unread
      <4>2. CASE net' = Append(net, u)
        BY <1>1, <2>1, <4>2, UnreadAppend
      <4> QED
        BY <2>2, <4>1, <4>2
    <3> QED
      BY <3>1 DEF RowAt
  <2>6. ASSUME NEW r \in db'.track, r \in db.track, Pending(r)
        PROVE  Pending(r)'
    <3>1. r \in Realms
      BY <1>2, <2>6
    <3>2. CASE \E i \in Nat : RowAt(r, i)
      BY <2>5, <3>1, <3>2 DEF Pending
    <3>3. ASSUME NEW i \in Nat, ClearAt(r, i) PROVE Pending(r)'
      BY <2>3, <2>4, <2>6, <3>1, <3>3 DEF Pending
    <3> QED
      BY <2>6, <3>2, <3>3 DEF Pending
  <2>7. ASSUME NEW r \in db'.track, r \notin db.track
        PROVE  Pending(r)'
    <3>1. t.enabled /\ r = t.realm
      BY <2>2, <2>7
    <3>2. net' = Append(net, u) /\ r \in Realms
      BY <2>2, <2>7, <3>1
    <3>3. PICK n \in Nat : net'[n] = u /\ Unread(n)'
      BY <1>1, <2>1, <3>2, UnreadAppend
    <3>4. RowAt(r, n)'
      BY <2>2, <3>1, <3>3 DEF RowAt
    <3> QED
      BY <3>4 DEF Pending
  <2>8. \A r \in db'.track : r \notin cache'.track => Pending(r)'
    BY <2>1, <2>6, <2>7 DEF TrackFits
  <2>9. mpc' = "locked" => \A r \in db'.track : r \notin mmask' => Pending(r)'
    BY <2>1, <2>6, <2>7 DEF TrackFits
  <2> QED
    BY <2>8, <2>9 DEF TrackFits
<1>14. \/ UNCHANGED <<net, inflight, mpc, mmask, db, cache>>
       \/ StoreCache \/ StatUpdate \/ CommitSystem \/ External \/ CommitTrack
       \/ StoreMask \/ ApplyTrack \/ Monitor
  BY DEF Next, vars, Request, BstThread, SetFeature, SetTrack, EnableOnTrigger,
         ReadToCommit, Update
<1> QED
  BY <1>4, <1>5, <1>6, <1>7, <1>8, <1>9, <1>10, <1>11, <1>12, <1>13, <1>14 DEF Monitor

-----------------------------------------------------------------------------
(* Theorems *)

\* Every step keeps ConfigInv.
LEMMA ConfigStep == ConfigInv /\ [Next]_vars => ConfigInv'
<1> SUFFICES ASSUME ConfigInv, [Next]_vars PROVE ConfigInv'
    OBVIOUS
<1>1. TypeOK /\ Committed /\ SystemFits /\ AppFits /\ MaskFits /\ TrackFits
  BY DEF ConfigInv
<1>2. TypeOK'
  BY <1>1, TypeStep
<1>3. Committed' /\ SystemFits' /\ AppFits' /\ MaskFits'
  BY <1>1, CommittedStep, SystemFitsStep, AppFitsStep, MaskFitsStep
<1>4. TrackFits'
  BY <1>1, <1>2, TrackFitsStep
<1> QED
  BY <1>2, <1>3, <1>4 DEF ConfigInv

\* When everything has been delivered, nothing is unread, in flight or queued.
LEMMA NothingPending ==
  ASSUME Quiescent
  PROVE  /\ ~Told
         /\ \A i \in Nat : ~SystemAt(i)
         /\ \A r : ~Pending(r)
<1>1. Len(bstQ) = 0 /\ Len(net) = 0 /\ Len(inflight) = 0
  BY DEF Quiescent
<1> QED
  BY <1>1 DEF Told, SystemAt, Pending, RowAt, ClearAt, Unread

\* The invariant of the four copies: what has been committed and is not yet in a
\* copy is on its way to it, as a notification that the monitor has not
\* applied, a transaction that ovsdb-server has not executed, or a message in
\* the bst queue.
THEOREM ConfigInvariant == Spec => []ConfigInv
  BY ConfigInit, ConfigStep, PTL DEF Spec

\* The configuration, what is on its way, and the threads' local variables have
\* their types, and the bst queue stays within its capacity.
THEOREM ConfigTypeCorrect == Spec => []TypeOK
<1>1. ConfigInv => TypeOK
  BY DEF ConfigInv
<1> QED
  BY <1>1, ConfigInvariant, PTL

\* The rate limit that bst_config_feature_set stores in the application, the
\* plugin's cache and the database agree once everything has been delivered.
THEOREM LimitsConverge == Spec => []LimitConverges
<1>1. ConfigInv => LimitConverges
  <2> SUFFICES ASSUME ConfigInv, Quiescent, ~lost
               PROVE  app.max = db.max /\ cache.max = db.max
    BY DEF LimitConverges
  <2>1. cache.max = db.max
    BY NothingPending DEF ConfigInv, SystemFits
  <2>2. app.max = cache.max
    BY NothingPending DEF ConfigInv, AppFits, Quiescent
  <2> QED
    BY <2>1, <2>2
<1> QED
  BY <1>1, ConfigInvariant, PTL

\* bst_system_bufmon_config_update never leaves the cache disabled for good
\* while the database has BST enabled.
THEOREM EnableIsSeen == Spec => []EnableSeen
<1>1. ConfigInv => EnableSeen
  BY NothingPending DEF ConfigInv, SystemFits, EnableSeen
<1> QED
  BY <1>1, ConfigInvariant, PTL

\* The mask that the bst thread stores without the cache's lock, and the one
\* that the monitor has read before, never lose a realm that the database
\* tracks for good.
THEOREM TrackingIsSeen == Spec => []TrackSeen
<1>1. ConfigInv => TrackSeen
  BY NothingPending DEF ConfigInv, TrackFits, TrackSeen
<1> QED
  BY <1>1, ConfigInvariant, PTL
=============================================================================
