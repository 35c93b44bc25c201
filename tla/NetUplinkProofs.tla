---------------------------- MODULE NetUplinkProofs ----------------------------
(***************************************************************************)
(* The safety of the uplink's queue and connection, for a queue of any     *)
(* depth and any number of fixes.                                          *)
(*                                                                         *)
(* The queue and the fix being published are not enough to be inductive:   *)
(* that a fix is newer than the last one published needs it to be known    *)
(* that everything published is older than everything that waits (Behind). *)
(***************************************************************************)
EXTENDS NetUplink, SequenceTheorems, TLAPS

Behind ==
  /\ published + Len(fix_q) <= submitted
  /\ held # 0 => published < held

UInv == TypeOK /\ KeepsNewest /\ OneConnection /\ Behind

\* The queue of the newest fixes, of which n wait, after k fixes.
Newest(n, k) == [j \in 1..n |-> k - n + j]

\* Newest(n, k) is a queue of n of the first k fixes.
LEMMA NewestSeq ==
  ASSUME NEW n \in Nat, NEW k \in Nat, n <= k
  PROVE  Newest(n, k) \in Seq(1..k) /\ Len(Newest(n, k)) = n
BY DEF Newest

\* Queueing a fix keeps the newest, whether or not the oldest has to go; it goes
\* only from a full queue.
LEMMA QueuedNewest ==
  ASSUME NEW n \in 0..Depth, NEW k \in Nat, n <= k
  PROVE  \E m \in 0..Depth :
           /\ m <= n + 1 /\ m \in {n + 1, Depth}
           /\ Queued(Newest(n, k), k + 1) = Newest(m, k + 1)
<1> Depth \in Nat \ {0}
  BY UplinkAssumption
<1> Newest(n, k) \in Seq(Int) /\ Len(Newest(n, k)) = n
  BY DEF Newest
<1>1. CASE n = Depth
  <2>1. Tail(Newest(n, k)) \in Seq(Int) /\ Len(Tail(Newest(n, k))) = n - 1
    BY <1>1 DEF Newest
  <2>2. \A j \in 1..(n - 1) : Tail(Newest(n, k))[j] = k - n + j + 1
    BY <1>1 DEF Newest
  <2> DEFINE q == Append(Tail(Newest(n, k)), k + 1)
  <2>3. q = Newest(n, k + 1)
    <3>1. q \in Seq(Int) /\ Len(q) = n
      BY <2>1
    <3>2. Newest(n, k + 1) \in Seq(Int) /\ Len(Newest(n, k + 1)) = n
      BY DEF Newest
    <3>3. \A j \in 1..n : q[j] = k - n + j + 1
      <4> k + 1 \in Int
        OBVIOUS
      <4>1. \A j \in 1..(n - 1) : q[j] = Tail(Newest(n, k))[j]
        BY <2>1, AppendProperties
      <4>2. q[n] = k + 1
        BY <2>1, AppendProperties
      <4> QED
        BY <2>2, <4>1, <4>2
    <3>4. \A j \in 1..n : Newest(n, k + 1)[j] = k - n + j + 1
      BY DEF Newest
    <3>5. Len(q) = Len(Newest(n, k + 1))
            /\ \A j \in 1..Len(q) : q[j] = Newest(n, k + 1)[j]
      BY <3>1, <3>2, <3>3, <3>4
    <3> HIDE DEF q
    <3> QED
      BY <3>1, <3>2, <3>5, SeqEqual, Zenon
  <2> QED
    BY <2>3, <1>1 DEF Queued
<1>2. CASE n # Depth
  <2>1. Append(Newest(n, k), k + 1) = Newest(n + 1, k + 1)
    BY DEF Newest
  <2> QED
    BY <2>1, <1>2 DEF Queued
<1> QED
  BY <1>1, <1>2

\* Taking the oldest leaves the newest.
LEMMA TailNewest ==
  ASSUME NEW n \in Nat \ {0}, NEW k \in Nat, n <= k
  PROVE  /\ Head(Newest(n, k)) = k - n + 1
         /\ Tail(Newest(n, k)) = Newest(n - 1, k)
<1> Newest(n, k) \in Seq(Int) /\ Len(Newest(n, k)) = n
  BY DEF Newest
<1>1. Head(Newest(n, k)) = k - n + 1
  BY DEF Newest
<1>2. Tail(Newest(n, k)) = Newest(n - 1, k)
  <2>1. Tail(Newest(n, k)) \in Seq(Int) /\ Len(Tail(Newest(n, k))) = n - 1
    OBVIOUS
  <2>2. \A j \in 1..(n - 1) : Tail(Newest(n, k))[j] = k - n + j + 1
    BY DEF Newest
  <2> QED
    BY <2>1, <2>2 DEF Newest
<1> QED
  BY <1>1, <1>2

-----------------------------------------------------------------------------

\* What UInv says of the queue, in terms of Newest.
LEMMA QueueIsNewest ==
  ASSUME UInv
  PROVE  /\ Len(fix_q) \in 0..Depth /\ Len(fix_q) <= submitted
         /\ fix_q = Newest(Len(fix_q), submitted)
<1> Depth \in Nat /\ submitted \in Nat /\ held \in Nat /\ Len(fix_q) \in Nat
  BY UplinkAssumption DEF UInv, TypeOK
<1> QED
  BY DEF UInv, TypeOK, KeepsNewest, Newest

\* The thread starts with an empty queue and without a connection.
LEMMA InitU == Init => UInv
<1> SUFFICES ASSUME Init PROVE UInv
  OBVIOUS
<1>1. TypeOK
  <2>1. fix_q \in Seq(1..submitted) /\ Len(fix_q) <= Depth
    BY UplinkAssumption DEF Init
  <2>2. events \in Seq({"address", "disconnect"})
    BY DEF Init
  <2>3. tries \in 1..MaxTries
    BY UplinkAssumption DEF Init
  <2>4. /\ wifi_associated \in BOOLEAN /\ mqtt_connected \in BOOLEAN
        /\ ip_sem \in BOOLEAN /\ iface_up \in BOOLEAN /\ lease \in BOOLEAN
        /\ broker \in BOOLEAN /\ session \in BOOLEAN /\ calm \in BOOLEAN
    BY DEF Init
  <2>5. /\ pc \in Place /\ link \in {"down", "joining", "up"}
        /\ submitted \in Nat /\ published \in 0..submitted
        /\ held \in 0..submitted /\ (held # 0 <=> pc = "publish")
    BY DEF Init, Place
  <2> QED
    BY <2>1, <2>2, <2>3, <2>4, <2>5 DEF TypeOK
<1>2. KeepsNewest
  BY DEF Init, KeepsNewest
<1>3. OneConnection /\ Behind
  BY DEF Init, OneConnection, Behind
<1> QED
  BY <1>1, <1>2, <1>3 DEF UInv

\* A submission.
LEMMA SubmitKeeps ==
  ASSUME UInv, Submit PROVE UInv'
<1> DEFINE n == Len(fix_q)
<1>1. n \in 0..Depth /\ n <= submitted /\ fix_q = Newest(n, submitted)
  BY QueueIsNewest
<1>2. submitted \in Nat /\ held \in Nat /\ published \in Nat /\ held + n <= submitted
  BY DEF UInv, TypeOK, KeepsNewest
<1>3. PICK m \in 0..Depth : m <= n + 1 /\ fix_q' = Newest(m, submitted + 1)
  <2> HIDE DEF n
  <2> QED
    BY <1>1, <1>2, QueuedNewest DEF Submit
<1>4. fix_q' \in Seq(1..(submitted + 1)) /\ Len(fix_q') = m
  <2> HIDE DEF n
  <2>1. m \in Nat /\ submitted + 1 \in Nat /\ m <= submitted + 1
    BY <1>1, <1>2, <1>3, UplinkAssumption
  <2> QED
    BY <2>1, <1>3, NewestSeq
<1>5. TypeOK'
  <2>1. fix_q' \in Seq(1..submitted') /\ Len(fix_q') <= Depth
    BY <1>4, UplinkAssumption DEF Submit
  <2>2. /\ submitted' \in Nat /\ published' \in 0..submitted'
        /\ held' \in 0..submitted' /\ (held' # 0 <=> pc' = "publish")
    BY DEF Submit, threadVars, UInv, TypeOK
  <2> QED
    BY <2>1, <2>2 DEF Submit, threadVars, netVars, wifiVars, UInv, TypeOK
<1>6. KeepsNewest'
  <2>1. fix_q' = [k \in 1..Len(fix_q') |-> submitted' - Len(fix_q') + k]
    BY <1>3, <1>4 DEF Submit, Newest
  <2>2. held' + Len(fix_q') <= submitted'
    BY <1>2, <1>3, <1>4, UplinkAssumption DEF Submit, threadVars
  <2> QED
    BY <2>1, <2>2 DEF KeepsNewest
<1>7. OneConnection'
  BY DEF Submit, threadVars, netVars, UInv, OneConnection
<1>8. Behind'
  <2>1. published + n <= submitted /\ (held # 0 => published < held)
    BY DEF UInv, Behind
  <2> HIDE DEF n
  <2> QED
    BY <2>1, <1>1, <1>2, <1>3, <1>4, UplinkAssumption DEF Submit, threadVars, Behind
<1> QED
  BY <1>5, <1>6, <1>7, <1>8 DEF UInv

\* The oldest fix is taken from the queue.
LEMMA TakeFixKeeps ==
  ASSUME UInv, TakeFix PROVE UInv' /\ published' = published
<1> DEFINE n == Len(fix_q)
<1>1. n \in 0..Depth /\ n <= submitted /\ fix_q = Newest(n, submitted)
  BY QueueIsNewest
<1>2. submitted \in Nat /\ published \in Nat /\ n \in Nat \ {0}
  BY DEF UInv, TypeOK, TakeFix
<1>3. held' = submitted - n + 1 /\ fix_q' = Newest(n - 1, submitted)
  <2> HIDE DEF n
  <2> QED
    BY <1>1, <1>2, TailNewest DEF TakeFix
<1>4. fix_q' \in Seq(1..submitted) /\ Len(fix_q') = n - 1
  <2> HIDE DEF n
  <2>1. n - 1 \in Nat /\ n - 1 <= submitted
    BY <1>1, <1>2
  <2> QED
    BY <2>1, <1>2, <1>3, NewestSeq
<1>5. TypeOK'
  <2>1. fix_q' \in Seq(1..submitted') /\ Len(fix_q') <= Depth
    BY <1>1, <1>4, UplinkAssumption DEF TakeFix
  <2>2. held' \in 0..submitted' /\ (held' # 0 <=> pc' = "publish")
    BY <1>1, <1>2, <1>3 DEF TakeFix
  <2> QED
    BY <2>1, <2>2 DEF TakeFix, netVars, wifiVars, UInv, TypeOK, Place
<1>6. KeepsNewest'
  <2> HIDE DEF n
  <2>1. submitted' = submitted /\ n - 1 \in Nat
    BY <1>2 DEF TakeFix
  <2>2. fix_q' = [k \in 1..Len(fix_q') |-> submitted' - Len(fix_q') + k]
    BY <2>1, <1>3, <1>4 DEF Newest
  <2>3. held' + Len(fix_q') <= submitted'
    BY <2>1, <1>2, <1>3, <1>4
  <2> QED
    BY <2>2, <2>3 DEF KeepsNewest
<1>7. OneConnection'
  BY DEF TakeFix, netVars, OneConnection
<1>8. Behind'
  <2>1. published + n <= submitted
    BY DEF UInv, Behind
  <2> HIDE DEF n
  <2> QED
    BY <2>1, <1>2, <1>3, <1>4 DEF TakeFix, Behind
<1> QED
  BY <1>5, <1>6, <1>7, <1>8 DEF UInv, TakeFix

\* The fix that was taken is published, or lost.
LEMMA PublishKeeps ==
  ASSUME UInv, PublishFix \/ PublishFails
  PROVE  UInv' /\ (published' # published => published' > published)
<1>1. /\ held' = 0 /\ fix_q' = fix_q /\ submitted' = submitted
      /\ published' \in {published, held} /\ pc' \in {"drain", "lost"}
      /\ UNCHANGED <<tries, mqtt_connected, wifi_associated, ip_sem, netVars>>
  BY DEF PublishFix, PublishFails, AfterFailedPublish
<1>2. /\ submitted \in Nat /\ held \in 1..submitted /\ published \in 0..submitted
      /\ Len(fix_q) \in Nat /\ held + Len(fix_q) <= submitted /\ published < held
      /\ published + Len(fix_q) <= submitted
  BY DEF PublishFix, PublishFails, UInv, TypeOK, KeepsNewest, Behind
<1>3. TypeOK'
  BY <1>1, <1>2 DEF netVars, wifiVars, UInv, TypeOK, Place
<1>4. KeepsNewest' /\ Behind'
  BY <1>1, <1>2 DEF UInv, KeepsNewest, Behind
<1>5. OneConnection'
  BY <1>1 DEF netVars, OneConnection
<1> QED
  BY <1>1, <1>2, <1>3, <1>4, <1>5 DEF UInv

\* The other steps leave the queue, its counters and the fix held alone.
LEMMA OthersKeep ==
  ASSUME UInv,
         \/ Thread /\ ~TakeFix /\ ~PublishFix /\ ~PublishFails
         \/ Network
  PROVE  UInv' /\ UNCHANGED <<queueVars, held>>
<1>1. CASE RequestAccepted \/ RequestRefused \/ WifiBackoff \/ GotAddress
             \/ AddressTimeout \/ LinkLost
  <2>1. TypeOK'
    <3>1. CASE RequestAccepted \/ GotAddress \/ AddressTimeout
      BY <3>1
      DEF RequestAccepted, GotAddress, AddressTimeout, GoTo, queueVars, netVars, wifiVars,
          UInv, TypeOK, Place
    <3>2. CASE RequestRefused \/ WifiBackoff \/ LinkLost
      <4>1. tries' \in 1..MaxTries /\ pc' \in {"request", "wifi_backoff"} /\ held = 0
        BY <3>2, UplinkAssumption
        DEF RequestRefused, LastTry, WifiBackoff, LinkLost, Reassociate, UInv, TypeOK
      <4>2. UNCHANGED <<mqtt_connected, held, wifi_associated, ip_sem, queueVars, netVars>>
        BY <3>2 DEF RequestRefused, WifiBackoff, LinkLost
      <4> QED
        BY <4>1, <4>2 DEF queueVars, netVars, wifiVars, UInv, TypeOK, Place
    <3> QED
      BY <1>1, <3>1, <3>2
  <2>2. UNCHANGED <<queueVars, held, session>> /\ ~session
    BY <1>1
    DEF RequestAccepted, RequestRefused, WifiBackoff, GotAddress, AddressTimeout, LinkLost,
        Reassociate, GoTo, netVars, UInv, OneConnection
  <2> QED
    BY <2>1, <2>2 DEF queueVars, UInv, KeepsNewest, OneConnection, Behind
<1>2. CASE Connect \/ ConnectFails \/ Connack \/ NoConnack \/ MqttBackoff
  <2>1. TypeOK'
    <3>1. CASE Connect
      BY <3>1 DEF Connect, GoTo, queueVars, netVars, wifiVars, UInv, TypeOK, Place
    <3>2. CASE ConnectFails
      BY <3>2 DEF ConnectFails, GoTo, queueVars, netVars, wifiVars, UInv, TypeOK, Place
    <3>3. CASE Connack
      BY <3>3 DEF Connack, GoTo, queueVars, netVars, wifiVars, UInv, TypeOK, Place
    <3>4. CASE NoConnack
      BY <3>4 DEF NoConnack, Abort, GoTo, queueVars, netVars, wifiVars, UInv, TypeOK, Place
    <3>5. CASE MqttBackoff
      BY <3>5 DEF MqttBackoff, AfterMqttBackoff, queueVars, netVars, wifiVars, UInv, TypeOK, Place
    <3> QED
      BY <1>2, <3>1, <3>2, <3>3, <3>4, <3>5
  <2>2. OneConnection'
    BY <1>2
    DEF Connect, ConnectFails, Connack, NoConnack, MqttBackoff, Abort, AfterMqttBackoff,
        GoTo, netVars, UInv, OneConnection
  <2>3. UNCHANGED <<queueVars, held>>
    BY <1>2 DEF Connect, ConnectFails, Connack, NoConnack, MqttBackoff, GoTo
  <2> QED
    BY <2>1, <2>2, <2>3 DEF queueVars, UInv, KeepsNewest, Behind
<1>3. CASE PublishMap \/ Poll \/ PollFails \/ Drained \/ Lost
  <2>1. TypeOK'
    <3>1. CASE PublishMap
      BY <3>1 DEF PublishMap, GoTo, queueVars, netVars, wifiVars, UInv, TypeOK, Place
    <3>2. CASE Poll \/ PollFails
      BY <3>2 DEF Poll, AfterLive, PollFails, GoTo, queueVars, netVars, wifiVars, UInv, TypeOK, Place
    <3>3. CASE Drained
      BY <3>3 DEF Drained, GoTo, queueVars, netVars, wifiVars, UInv, TypeOK, Place
    <3>4. CASE Lost
      BY <3>4 DEF Lost, Abort, GoTo, queueVars, netVars, wifiVars, UInv, TypeOK, Place
    <3> QED
      BY <1>3, <3>1, <3>2, <3>3, <3>4
  <2>2. OneConnection'
    BY <1>3
    DEF PublishMap, Poll, AfterLive, PollFails, Drained, Lost, Abort, GoTo, netVars,
        UInv, OneConnection
  <2>3. UNCHANGED <<queueVars, held>>
    BY <1>3 DEF PublishMap, Poll, PollFails, Drained, Lost, GoTo
  <2> QED
    BY <2>1, <2>2, <2>3 DEF queueVars, UInv, KeepsNewest, Behind
<1>4. CASE Network
  <2>1. UNCHANGED <<threadVars, queueVars>> /\ (session' => session)
    BY <1>4
    DEF Network, Deliver, IfaceUp, Joined, Bound, LinkDrops, BrokerChanges, Settles,
        Elsewhere
  <2>2. TypeOK'
    <3>1. /\ events' \in Seq({"address", "disconnect"})
          /\ link' \in {"down", "joining", "up"}
      <4>1. /\ events \in Seq({"address", "disconnect"})
            /\ link \in {"down", "joining", "up"}
        BY DEF UInv, TypeOK
      <4>2. CASE Deliver
        BY <4>1, <4>2 DEF Deliver
      <4>3. CASE Bound \/ LinkDrops
        BY <4>1, <4>3 DEF Bound, LinkDrops
      <4>4. CASE IfaceUp \/ Joined \/ BrokerChanges \/ Settles
        BY <4>1, <4>4 DEF IfaceUp, Joined, BrokerChanges, Settles, wifiVars
      <4> QED
        BY <1>4, <4>2, <4>3, <4>4 DEF Network
    <3>2. /\ iface_up' \in BOOLEAN /\ lease' \in BOOLEAN /\ broker' \in BOOLEAN
          /\ session' \in BOOLEAN /\ calm' \in BOOLEAN
          /\ wifi_associated' \in BOOLEAN /\ ip_sem' \in BOOLEAN
      BY <1>4
      DEF Network, Deliver, IfaceUp, Joined, Bound, LinkDrops, BrokerChanges, Settles,
          wifiVars, UInv, TypeOK
    <3> QED
      BY <2>1, <3>1, <3>2 DEF threadVars, queueVars, UInv, TypeOK
  <2> QED
    BY <2>1, <2>2 DEF threadVars, queueVars, UInv, KeepsNewest, OneConnection, Behind
<1> QED
  BY <1>1, <1>2, <1>3, <1>4 DEF Thread

\* Every step keeps UInv, and publishes nothing but a newer fix.
LEMMA NextU == UInv /\ [Next]_vars => UInv' /\ (published' # published => published' > published)
<1> SUFFICES ASSUME UInv, [Next]_vars
             PROVE  UInv' /\ (published' # published => published' > published)
  OBVIOUS
<1>1. CASE Submit
  BY <1>1, SubmitKeeps DEF Submit
<1>2. CASE TakeFix
  BY <1>2, TakeFixKeeps
<1>3. CASE PublishFix \/ PublishFails
  BY <1>3, PublishKeeps
<1>4. CASE (Thread /\ ~TakeFix /\ ~PublishFix /\ ~PublishFails) \/ Network
  BY <1>4, OthersKeep DEF queueVars
<1>5. CASE UNCHANGED vars
  <2>1. UNCHANGED <<threadVars, wifi_associated, ip_sem, queueVars, wifiVars, broker,
                    session, calm>>
    BY <1>5 DEF vars, netVars
  <2> QED
    BY <2>1
    DEF threadVars, queueVars, wifiVars, UInv, TypeOK, KeepsNewest, OneConnection, Behind
<1> QED
  BY <1>1, <1>2, <1>3, <1>4, <1>5 DEF Next

\* UInv holds in every reachable state.
THEOREM UplinkInductive == Spec => []UInv
<1>1. Init => UInv
  BY InitU
<1>2. UInv /\ [Next]_vars => UInv'
  BY NextU
<1> QED
  BY <1>1, <1>2, PTL DEF Spec

\* Every variable keeps its type, and the queue its depth.
THEOREM UplinkTypeCorrect == Spec => []TypeOK
<1>1. UInv => TypeOK
  BY DEF UInv
<1> QED
  BY <1>1, UplinkInductive, PTL

\* What waits are the newest fixes, whatever the depth of the queue.
THEOREM AlwaysKeepsNewest == Spec => []KeepsNewest
<1>1. UInv => KeepsNewest
  BY DEF UInv
<1> QED
  BY <1>1, UplinkInductive, PTL

\* No connection outlives the thread's use of it.
THEOREM AlwaysOneConnection == Spec => []OneConnection
<1>1. UInv => OneConnection
  BY DEF UInv
<1> QED
  BY <1>1, UplinkInductive, PTL

\* Fixes reach the broker at most once and in their order, through any number
\* of outages.
THEOREM FixesInOrder == Spec => PublishedInOrder
<1>1. UInv /\ [Next]_vars => [published' # published => published' > published]_vars
  BY NextU
<1> QED
  BY <1>1, UplinkInductive, PTL DEF Spec, PublishedInOrder

-----------------------------------------------------------------------------
(* The uplink implements FixStream.  The thread's own fix counts among those *)
(* that wait, so taking it from the queue is a stutter.                      *)

\* The fixes in a queue of the n newest.
LEMMA NewestAsSet ==
  ASSUME NEW n \in Nat, NEW k \in Nat, n <= k
  PROVE  {Newest(n, k)[j] : j \in DOMAIN Newest(n, k)} = (k - n + 1)..k
<1>1. {Newest(n, k)[j] : j \in DOMAIN Newest(n, k)} = {k - n + j : j \in 1..n}
  BY DEF Newest
<1>2. ASSUME NEW f \in (k - n + 1)..k PROVE f \in {k - n + j : j \in 1..n}
  <2>1. f - (k - n) \in 1..n /\ f = k - n + (f - (k - n))
    OBVIOUS
  <2> QED
    BY <2>1
<1>3. ASSUME NEW j \in 1..n PROVE k - n + j \in (k - n + 1)..k
  OBVIOUS
<1> QED
  BY <1>1, <1>2, <1>3

\* What waits, as numbers: an interval, and the fix in hand.
WaitingShape ==
  Waiting = ((submitted - Len(fix_q) + 1)..submitted) \union ({held} \ {0})

\* UInv gives what waits its shape.
LEMMA WaitingIs == UInv => WaitingShape
<1> SUFFICES ASSUME UInv PROVE WaitingShape
  OBVIOUS
<1> DEFINE n == Len(fix_q)
<1>1. n \in 0..Depth /\ n <= submitted /\ fix_q = Newest(n, submitted)
  BY QueueIsNewest
<1>2. n \in Nat /\ submitted \in Nat
  BY DEF UInv, TypeOK
<1> HIDE DEF n
<1>3. {fix_q[j] : j \in DOMAIN fix_q} = (submitted - n + 1)..submitted
  BY <1>1, <1>2, NewestAsSet
<1> QED
  BY <1>3 DEF Waiting, WaitingShape, n

\* A submission is accepted.  What it drops is Depth fixes old.
LEMMA SubmitAccepts ==
  ASSUME UInv, Submit PROVE Stream!Accept
<1> DEFINE n == Len(fix_q)
<1> DEFINE m == Len(fix_q')
<1>1. n \in 0..Depth /\ n <= submitted /\ fix_q = Newest(n, submitted)
  BY QueueIsNewest
<1>2. submitted \in Nat /\ held \in Nat /\ Depth \in Nat /\ n \in Nat
  BY UplinkAssumption DEF UInv, TypeOK
<1>3. m \in 1..Depth /\ m \in {n + 1, Depth} /\ m <= n + 1
  <2>1. PICK i \in 0..Depth : /\ i <= n + 1 /\ i \in {n + 1, Depth}
                              /\ fix_q' = Newest(i, submitted + 1)
    <3> HIDE DEF n
    <3> QED
      BY <1>1, <1>2, QueuedNewest DEF Submit
  <2>2. Len(fix_q') = i
    <3> HIDE DEF n
    <3> QED
      BY <1>1, <1>2, <2>1, NewestSeq
  <2> HIDE DEF n
  <2> QED
    BY <1>2, <2>1, <2>2, UplinkAssumption
<1>4. submitted' = submitted + 1 /\ UNCHANGED <<held, published>>
  BY DEF Submit, threadVars
<1>5. Waiting = ((submitted - n + 1)..submitted) \union ({held} \ {0})
  BY WaitingIs DEF WaitingShape
<1>6. Waiting' = ((submitted + 1 - m + 1)..(submitted + 1)) \union ({held} \ {0})
  <2>1. UInv'
    BY SubmitKeeps
  <2>2. WaitingShape'
    BY <2>1, WaitingIs, PTL
  <2> QED
    BY <1>2, <1>3, <1>4, <2>2 DEF WaitingShape
<1> HIDE DEF n, m
<1>7. submitted' \in Waiting' /\ Waiting' \subseteq Waiting \union {submitted'}
  BY <1>2, <1>3, <1>4, <1>5, <1>6
<1>8. \A f \in Waiting \ Waiting' : f + Depth <= submitted'
  BY <1>2, <1>3, <1>4, <1>5, <1>6
<1> QED
  BY <1>4, <1>7, <1>8 DEF Stream!Accept

\* Taking a fix leaves what waits as it is.
LEMMA TakeFixStutters ==
  ASSUME UInv, TakeFix PROVE UNCHANGED <<submitted, Waiting, published>>
<1> DEFINE n == Len(fix_q)
<1>1. n \in 0..Depth /\ n <= submitted /\ fix_q = Newest(n, submitted)
  BY QueueIsNewest
<1>2. submitted \in Nat /\ n \in Nat \ {0} /\ held = 0
  BY DEF UInv, TypeOK, TakeFix
<1>3. held' = submitted - n + 1 /\ Len(fix_q') = n - 1
  <2>1. fix_q' = Newest(n - 1, submitted) /\ held' = submitted - n + 1
    <3> HIDE DEF n
    <3> QED
      BY <1>1, <1>2, TailNewest DEF TakeFix
  <2> HIDE DEF n
  <2>2. n - 1 \in Nat /\ n - 1 <= submitted
    BY <1>1, <1>2
  <2> QED
    BY <1>2, <2>1, <2>2, NewestSeq
<1>4. Waiting = ((submitted - n + 1)..submitted) \union ({held} \ {0})
  BY WaitingIs DEF WaitingShape
<1>5. Waiting' = ((submitted - (n - 1) + 1)..submitted) \union ({held'} \ {0})
  <2>1. UInv'
    BY TakeFixKeeps
  <2>2. WaitingShape'
    BY <2>1, WaitingIs, PTL
  <2> QED
    BY <1>3, <2>2 DEF TakeFix, WaitingShape
<1> HIDE DEF n
<1>6. Waiting' = Waiting
  BY <1>1, <1>2, <1>3, <1>4, <1>5
<1> QED
  BY <1>6 DEF TakeFix

\* The fix in hand is the oldest that waits: it is delivered, or lost.
LEMMA PublishDelivers ==
  ASSUME UInv, PublishFix \/ PublishFails
  PROVE  held \in Waiting /\ (Stream!Deliver(held) \/ Stream!Lose(held))
<1> DEFINE n == Len(fix_q)
<1>1. /\ held' = 0 /\ fix_q' = fix_q /\ submitted' = submitted
      /\ published' \in {published, held}
  BY DEF PublishFix, PublishFails, AfterFailedPublish
<1>2. /\ submitted \in Nat /\ held \in Nat \ {0} /\ n \in Nat
      /\ held + n <= submitted
  BY DEF PublishFix, PublishFails, UInv, TypeOK, KeepsNewest
<1>3. Waiting = ((submitted - n + 1)..submitted) \union {held}
  BY <1>2, WaitingIs DEF WaitingShape
<1>4. Waiting' = (submitted - n + 1)..submitted
  <2>1. UInv'
    BY PublishKeeps
  <2>2. WaitingShape'
    BY <2>1, WaitingIs, PTL
  <2> QED
    BY <1>1, <2>2 DEF WaitingShape
<1> HIDE DEF n
<1>5. held \in Waiting /\ \A f \in Waiting : held <= f
  BY <1>2, <1>3
<1>6. Waiting' = Waiting \ {held}
  BY <1>2, <1>3, <1>4
<1> QED
  BY <1>1, <1>5, <1>6 DEF Stream!Deliver, Stream!Lose, Stream!Oldest

\* Every step of the uplink is one of the stream, or none.
LEMMA NextStreams ==
  UInv /\ [Next]_vars => [Stream!Next]_<<submitted, Waiting, published>>
<1> SUFFICES ASSUME UInv, [Next]_vars
             PROVE  Stream!Next \/ UNCHANGED <<submitted, Waiting, published>>
  OBVIOUS
<1>1. CASE Submit
  BY <1>1, SubmitAccepts DEF Stream!Next
<1>2. CASE TakeFix
  BY <1>2, TakeFixStutters
<1>3. CASE PublishFix \/ PublishFails
  BY <1>3, PublishDelivers DEF Stream!Next
<1>4. CASE (Thread /\ ~TakeFix /\ ~PublishFix /\ ~PublishFails) \/ Network
  BY <1>4, OthersKeep DEF queueVars, Waiting
<1>5. CASE UNCHANGED vars
  BY <1>5 DEF vars, threadVars, queueVars, Waiting
<1> QED
  BY <1>1, <1>2, <1>3, <1>4, <1>5 DEF Next

\* Queue, thread and outages together are the stream of fixes that is promised:
\* oldest first, none twice, none dropped for another unless it is too old.
THEOREM UplinkIsStream == Spec => ImplementsStream
<1>1. Init => Stream!Init
  BY DEF Init, Waiting, Stream!Init
<1>2. UInv /\ [Next]_vars => [Stream!Next]_<<submitted, Waiting, published>>
  BY NextStreams
<1> QED
  BY <1>1, <1>2, UplinkInductive, PTL DEF Spec, ImplementsStream, Stream!Spec
================================================================================
