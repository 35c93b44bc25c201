------------------------------ MODULE NetUplink ------------------------------
(***************************************************************************)
(* The gateway's uplink (net_uplink.c): a thread that associates, waits    *)
(* for an address, connects to the broker and publishes the fixes the      *)
(* gateway's loop queues; the callbacks of the network events; the queue.  *)
(*                                                                         *)
(* The loop is cooperative and of the highest priority, so a submission is *)
(* one step whatever the thread is doing.  WiFi driver, DHCP and broker    *)
(* are modelled from what the thread expects of them; the driver refuses a *)
(* request while it is associated, and does not associate by itself.       *)
(*                                                                         *)
(* Fixes are numbered in the order of their submission.  Waits that only   *)
(* get longer (the back-off ladders) are one step, as is the loop that     *)
(* polls for the CONNACK.  The state shown by `net show' is left out.      *)
(***************************************************************************)
EXTENDS Integers, Sequences

CONSTANTS
  Depth,      \* FIX_QUEUE_DEPTH
  MaxTries    \* requests to associate before the thread backs off

ASSUME UplinkAssumption == Depth \in Nat \ {0} /\ MaxTries \in Nat \ {0}

VARIABLES
  pc,               \* where uplink_thread() is
  tries,            \* requests left in wifi_connect()
  wifi_associated,
  mqtt_connected,
  held,             \* the fix drain_fix_queue() has taken; 0 for none
  ip_sem,           \* a binary semaphore
  fix_q,
  submitted,        \* fixes so far
  published,        \* the last fix given to the broker; 0 for none
  iface_up, link, lease,   \* the WiFi interface, its association, its address
  events,           \* network events not delivered yet, oldest first
  broker,           \* the broker answers
  session,          \* broker and client have a connection
  calm              \* the network has settled, for good

threadVars == <<pc, tries, mqtt_connected, held>>
queueVars == <<fix_q, submitted, published>>
wifiVars == <<iface_up, link, lease, events>>
netVars == <<wifiVars, broker, session, calm>>
vars == <<threadVars, wifi_associated, ip_sem, queueVars, netVars>>

Place == {"off", "request", "await_ip", "wifi_backoff", "mqtt", "await_connack",
          "mqtt_backoff", "map", "poll", "drain", "publish", "lost"}

\* A fix is held exactly while it is being published, and is older than every
\* one that waits.
TypeOK ==
  /\ pc \in Place /\ tries \in 1..MaxTries
  /\ wifi_associated \in BOOLEAN /\ mqtt_connected \in BOOLEAN
  /\ submitted \in Nat /\ published \in 0..submitted
  /\ held \in 0..submitted /\ (held # 0 <=> pc = "publish")
  /\ ip_sem \in BOOLEAN
  /\ fix_q \in Seq(1..submitted) /\ Len(fix_q) <= Depth
  /\ iface_up \in BOOLEAN /\ lease \in BOOLEAN
  /\ link \in {"down", "joining", "up"}
  /\ events \in Seq({"address", "disconnect"})
  /\ broker \in BOOLEAN /\ session \in BOOLEAN /\ calm \in BOOLEAN

Init ==
  /\ pc \in {"off", "request"}          \* "off": not provisioned
  /\ tries = MaxTries
  /\ wifi_associated = FALSE /\ mqtt_connected = FALSE /\ ip_sem = FALSE
  /\ held = 0 /\ fix_q = <<>> /\ submitted = 0 /\ published = 0
  /\ iface_up = FALSE /\ link = "down" /\ lease = FALSE /\ events = <<>>
  /\ broker \in BOOLEAN /\ session = FALSE /\ calm = FALSE

-----------------------------------------------------------------------------
(* The gateway's loop *)

\* net_uplink_submit(): a full queue loses its oldest.
Queued_DropsNewest(q, f) == IF Len(q) = Depth THEN q ELSE Append(q, f)
Queued(q, f) == Append(IF Len(q) = Depth THEN Tail(q) ELSE q, f)

Submit ==
  /\ submitted' = submitted + 1
  /\ fix_q' = Queued(fix_q, submitted + 1)
  /\ UNCHANGED <<threadVars, wifi_associated, ip_sem, published, netVars>>

-----------------------------------------------------------------------------
(* The uplink thread: association *)

GoTo(p) == pc' = p /\ UNCHANGED <<tries, mqtt_connected, held>>

RequestAccepted ==
  /\ pc = "request"
  /\ iface_up /\ link # "up"
  /\ link' = "joining"
  /\ GoTo("await_ip")
  /\ UNCHANGED <<wifi_associated, ip_sem, queueVars, iface_up, lease, events,
                 broker, session, calm>>

LastTry == tries = 1

\* -EALREADY, or an interface that is not up yet: try again, in the end back
\* off.
RequestRefused ==
  /\ pc = "request"
  /\ ~iface_up \/ link # "down"
  /\ \/ /\ ~LastTry /\ tries' = tries - 1
        /\ UNCHANGED pc
     \/ /\ LastTry /\ pc' = "wifi_backoff"
        /\ UNCHANGED tries
  /\ UNCHANGED <<mqtt_connected, held, wifi_associated, ip_sem, queueVars, netVars>>

Reassociate == pc' = "request" /\ tries' = MaxTries

WifiBackoff ==
  /\ pc = "wifi_backoff"
  /\ Reassociate
  /\ UNCHANGED <<mqtt_connected, held, wifi_associated, ip_sem, queueVars, netVars>>

GotAddress ==
  /\ pc = "await_ip" /\ ip_sem
  /\ ip_sem' = FALSE
  /\ wifi_associated' = TRUE
  /\ GoTo("mqtt")
  /\ UNCHANGED <<queueVars, netVars>>

\* 30 s have passed.
AddressTimeout ==
  /\ pc = "await_ip" /\ ~ip_sem
  /\ GoTo("wifi_backoff")
  /\ UNCHANGED <<wifi_associated, ip_sem, queueVars, netVars>>

-----------------------------------------------------------------------------
(* The uplink thread: the broker *)

LinkLost ==
  /\ pc = "mqtt" /\ ~wifi_associated
  /\ Reassociate
  /\ UNCHANGED <<mqtt_connected, held, wifi_associated, ip_sem, queueVars, netVars>>

Reachable == link = "up" /\ lease /\ broker

\* The name is resolved and the connection opened.
Connect ==
  /\ pc = "mqtt" /\ wifi_associated
  /\ Reachable
  /\ session' = TRUE
  /\ mqtt_connected' = FALSE
  /\ pc' = "await_connack"
  /\ UNCHANGED <<tries, held, wifi_associated, ip_sem, queueVars, wifiVars, broker, calm>>

ConnectFails ==
  /\ pc = "mqtt" /\ wifi_associated
  /\ ~calm \/ ~Reachable
  /\ mqtt_connected' = FALSE
  /\ pc' = "mqtt_backoff"
  /\ UNCHANGED <<tries, held, wifi_associated, ip_sem, queueVars, netVars>>

Connack ==
  /\ pc = "await_connack" /\ session
  /\ mqtt_connected' = TRUE
  /\ pc' = "map"
  /\ UNCHANGED <<tries, held, wifi_associated, ip_sem, queueVars, netVars>>

Abort_Leaks == UNCHANGED session
Abort == session' = FALSE

\* Refused, or none within 10 s, or the socket failed.
NoConnack ==
  /\ pc = "await_connack"
  /\ ~calm \/ ~session
  /\ Abort
  /\ GoTo("mqtt_backoff")
  /\ UNCHANGED <<wifi_associated, ip_sem, queueVars, wifiVars, broker, calm>>

\* In place: an association that stands is not asked for again.
AfterMqttBackoff_Reassociates == Reassociate
AfterMqttBackoff == pc' = "mqtt" /\ UNCHANGED tries

MqttBackoff ==
  /\ pc = "mqtt_backoff"
  /\ AfterMqttBackoff
  /\ UNCHANGED <<mqtt_connected, held, wifi_associated, ip_sem, queueVars, netVars>>

\* Whether the anchor map could be published is only logged.
PublishMap ==
  /\ pc = "map"
  /\ GoTo("poll")
  /\ UNCHANGED <<wifi_associated, ip_sem, queueVars, netVars>>

-----------------------------------------------------------------------------
(* The uplink thread: connected *)

\* mqtt_live() has nothing to send, or sent a PINGREQ.
AfterLive_TrustsErrno == "lost"
AfterLive == "drain"

Poll ==
  /\ pc = "poll" /\ mqtt_connected /\ wifi_associated
  /\ GoTo(AfterLive)
  /\ UNCHANGED <<wifi_associated, ip_sem, queueVars, netVars>>

\* The link is down; or the connection, as the input or the keep-alive finds.
PollFails ==
  /\ pc = "poll"
  /\ ~wifi_associated \/ ~session
  /\ GoTo("lost")
  /\ UNCHANGED <<wifi_associated, ip_sem, queueVars, netVars>>

Drained ==
  /\ pc = "drain" /\ fix_q = <<>>
  /\ GoTo("poll")
  /\ UNCHANGED <<wifi_associated, ip_sem, queueVars, netVars>>

TakeFix ==
  /\ pc = "drain" /\ fix_q # <<>>
  /\ held' = Head(fix_q)
  /\ fix_q' = Tail(fix_q)
  /\ pc' = "publish"
  /\ UNCHANGED <<tries, mqtt_connected, wifi_associated, ip_sem, submitted,
                 published, netVars>>

\* On a connection that is dead, a publication may seem to work.  A payload
\* always fits its buffer.
PublishFix ==
  /\ pc = "publish"
  /\ published' = IF session THEN held ELSE published
  /\ held' = 0
  /\ pc' = "drain"
  /\ UNCHANGED <<tries, mqtt_connected, wifi_associated, ip_sem, fix_q,
                 submitted, netVars>>

\* The fix is not kept: it would be stale.
AfterFailedPublish_KeepsFix == fix_q' = Queued(fix_q, held)
AfterFailedPublish == UNCHANGED fix_q

PublishFails ==
  /\ pc = "publish" /\ ~session
  /\ AfterFailedPublish
  /\ held' = 0
  /\ pc' = "lost"
  /\ UNCHANGED <<tries, mqtt_connected, wifi_associated, ip_sem, submitted,
                 published, netVars>>

Lost ==
  /\ pc = "lost"
  /\ Abort
  /\ mqtt_connected' = FALSE
  /\ pc' = "mqtt"
  /\ UNCHANGED <<tries, held, wifi_associated, ip_sem, queueVars, wifiVars, broker, calm>>

Thread ==
  \/ RequestAccepted \/ RequestRefused \/ WifiBackoff \/ GotAddress \/ AddressTimeout
  \/ LinkLost \/ Connect \/ ConnectFails \/ Connack \/ NoConnack \/ MqttBackoff
  \/ PublishMap \/ Poll \/ PollFails \/ Drained \/ TakeFix \/ PublishFix
  \/ PublishFails \/ Lost

-----------------------------------------------------------------------------
(* The network *)

Elsewhere == UNCHANGED <<threadVars, queueVars>>

\* wifi_evt() and ipv4_evt(), on the thread of the network events.
Deliver ==
  /\ events # <<>>
  /\ events' = Tail(events)
  /\ \/ /\ Head(events) = "address" /\ ip_sem' = TRUE
        /\ UNCHANGED wifi_associated
     \/ /\ Head(events) = "disconnect" /\ wifi_associated' = FALSE
        /\ UNCHANGED ip_sem
  /\ Elsewhere /\ UNCHANGED <<iface_up, link, lease, broker, session, calm>>

IfaceUp ==
  /\ ~iface_up /\ iface_up' = TRUE
  /\ Elsewhere
  /\ UNCHANGED <<wifi_associated, ip_sem, link, lease, events, broker, session, calm>>

\* An association that fails raises no disconnect event.
Joined ==
  /\ link = "joining" /\ link' \in {"up", "down"}
  /\ Elsewhere
  /\ UNCHANGED <<wifi_associated, ip_sem, iface_up, lease, events, broker, session, calm>>

\* DHCP, once started, answers whenever it does.
Bound ==
  /\ link = "up" /\ ~lease
  /\ lease' = TRUE /\ events' = Append(events, "address")
  /\ Elsewhere
  /\ UNCHANGED <<wifi_associated, ip_sem, iface_up, link, broker, session, calm>>

LinkDrops ==
  /\ ~calm /\ link = "up"
  /\ link' = "down" /\ lease' = FALSE /\ session' = FALSE
  /\ events' = Append(events, "disconnect")
  /\ Elsewhere
  /\ UNCHANGED <<wifi_associated, ip_sem, iface_up, broker, calm>>

\* The broker goes, comes back, or closes the connection.
BrokerChanges ==
  /\ ~calm /\ broker' \in BOOLEAN
  /\ session' = FALSE
  /\ Elsewhere /\ UNCHANGED <<wifi_associated, ip_sem, wifiVars, calm>>

\* From here on nothing fails any more.
Settles ==
  /\ ~calm /\ calm' = TRUE
  /\ Reachable /\ events = <<>>
  /\ Elsewhere
  /\ UNCHANGED <<wifi_associated, ip_sem, wifiVars, broker, session>>

Network == Deliver \/ IfaceUp \/ Joined \/ Bound \/ LinkDrops \/ BrokerChanges \/ Settles

Next == Submit \/ Thread \/ Network

\* The thread runs while the gateway's loop sleeps; a dead connection is found
\* out in the end, by the keep-alive if by nothing else.
Fairness == WF_vars(Thread) /\ SF_vars(PollFails)

Spec == Init /\ [][Next]_vars /\ Fairness

-----------------------------------------------------------------------------

\* What waits are the newest fixes, all of them as far as the queue holds, and
\* in order, whatever was dropped from the queue, lost on a dead connection or
\* taken in between: a position in real time is worth nothing once it is old.
KeepsNewest ==
  /\ fix_q = [k \in 1..Len(fix_q) |-> submitted - Len(fix_q) + k]
  /\ held + Len(fix_q) <= submitted

\* No fix reaches the broker twice, or after a newer one, also over outages.
PublishedInOrder == [][published' # published => published' > published]_vars

\* Queue, thread and outages together are a stream of fixes: oldest first, none
\* twice, and none dropped for another unless it is too old.
Waiting == {fix_q[k] : k \in DOMAIN fix_q} \union ({held} \ {0})

Stream == INSTANCE FixStream
  WITH accepted <- submitted, waiting <- Waiting, delivered <- published

ImplementsStream == Stream!Spec

\* The connection is aborted on every way back to a new one: none is left open
\* behind it.
OneConnection ==
  session => pc \in {"await_connack", "map", "poll", "drain", "publish", "lost"}

\* As long as the association stands, the uplink comes back from whatever the
\* broker did, and then stays.
RecoversInPlace ==
  calm /\ wifi_associated ~> [](session /\ mqtt_connected /\ wifi_associated)

\* Over a connection that stands, what waits is delivered, or something newer.
FixArrives(n) ==
  calm /\ wifi_associated /\ session /\ mqtt_connected
      /\ fix_q # <<>> /\ n = Head(fix_q)
    ~> published >= n

\* Once the network has settled - the access point, DHCP, the broker - the
\* uplink comes up: no failure before that is fatal.
Recovers == calm ~> mqtt_connected

\* wifi_associated is the ground truth for whether the link is up, but for an
\* event on its way.
LinkTruth ==
  wifi_associated => link = "up" \/ \E k \in DOMAIN events : events[k] = "disconnect"
=============================================================================
