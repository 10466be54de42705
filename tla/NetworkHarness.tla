--------------------------- MODULE NetworkHarness ---------------------------
(***************************************************************************)
(* The MQTT measurement harness: scripts/network_harness.py as simulator,  *)
(* edge agent and cloud controller, each a process of docker/compose.yaml, *)
(* and scripts/reconcile_pcap.py, which compares their counters.           *)
(*                                                                         *)
(* The broker and the client library are external: QoS 1 over one ordered  *)
(* connection per client, without a persistent session.  A client keeps    *)
(* what is not acknowledged and sends it again after a reconnection; the   *)
(* broker forgets what a client that left subscribed to and had coming.    *)
(* Payloads are of one length: counted bytes say what counted messages say.*)
(***************************************************************************)
EXTENDS Integers, Sequences, FiniteSets

CONSTANTS
  Messages,   \* telemetry messages (100)
  Peers,      \* intersections, each with a peer message (8)
  MaxDrops,   \* bound: connections that break
  None

Controller == {"edge", "cloud"}
Process == {"simulator"} \cup Controller
Sequence == 1 .. Messages
Counters == [published : Nat, received : Nat, action_published : Nat,
             peer_published : Nat, peer_received : Nat]

ASSUME HarnessAssumption ==
  {Messages, Peers, MaxDrops} \subseteq Nat /\ Messages > 0 /\ None \notin Counters

Message == [topic : {"telemetry", "action", "peer"}, sequence : Sequence]
             \cup {[topic |-> "stop", sequence |-> 0]}

VARIABLES
  architecture,
  at,          \* process -> where its main thread stands
  connected,   \* processes the broker knows, with their subscriptions
  outbox,      \* process -> messages published that the broker has not yet
  taken,       \* process -> what the broker took from its connection
  queue,       \* process -> messages the broker has for it
  responses,   \* sequences the simulator has an answer to
  counters,    \* process -> its counters
  result,      \* process -> the counters in its file
  drops, late, \* history: broken connections; the answers' deadline passed
  seen, twice  \* history: telemetry seen; telemetry or an action came twice

network == <<connected, outbox, taken, queue>>
record == <<responses, counters, result>>
history == <<drops, late, seen, twice>>
harnessVars == <<architecture, at, network, record, history>>

Alive(p) == at[p] \in {"waiting", "publishing", "answers", "stopping"}
Ended(p) == at[p] \in {"ended", "failed"}
Put(f, x, v) == [f EXCEPT ![x] = v]
Repeat(n, m) == [i \in 1 .. n |-> m]

NoMessages == [published |-> 0, received |-> 0, action_published |-> 0,
               peer_published |-> 0, peer_received |-> 0]

HarnessInit ==
  /\ architecture \in Controller
  /\ at = [p \in Process |-> "off"]
  /\ connected = {}
  /\ outbox = [p \in Process |-> <<>>]
  /\ taken = [p \in Process |-> <<>>]
  /\ queue = [p \in Process |-> <<>>]
  /\ responses = {}
  /\ counters = [p \in Process |-> NoMessages]
  /\ result = [p \in Process |-> None]
  /\ drops = 0 /\ late = FALSE /\ seen = {} /\ twice = FALSE

-----------------------------------------------------------------------------
(* The broker and the client library. *)

(* Nobody waits for the others: depends_on asks for service_started, not   *)
(* for a subscription.  A process goes on before the broker has subscribed *)
(* it, but nothing it publishes overtakes its subscription: both at once.  *)
Connect(p) ==
  /\ p \notin connected /\ (at[p] = "off" \/ Alive(p))
  /\ connected' = connected \cup {p}
  /\ at' = IF at[p] # "off" THEN at
           ELSE Put(at, p, IF p = "simulator" THEN "publishing" ELSE "waiting")
  /\ UNCHANGED <<architecture, outbox, taken, queue, record, history>>

Subscribers(m) ==
  {p \in connected :
     \/ m.topic = "telemetry" /\ p = architecture
     \/ m.topic = "action" /\ p = "simulator"
     \/ m.topic = "peer" /\ p = "edge" /\ architecture = "edge"
     \/ m.topic = "stop" /\ p \in Controller}

Route(p) ==
  /\ p \in connected /\ outbox[p] # <<>>
  /\ LET m == Head(outbox[p])
     IN /\ queue' = [q \in Process |->
                       IF q \in Subscribers(m) THEN Append(queue[q], m) ELSE queue[q]]
        /\ taken' = Put(taken, p, Append(taken[p], m))
  /\ outbox' = Put(outbox, p, Tail(outbox[p]))
  /\ UNCHANGED <<architecture, at, connected, record, history>>

(* The connection breaks, and with it the acknowledgements of the last     *)
(* messages the broker took are lost: the client will send these again.    *)
Drop(p) ==
  /\ p \in connected /\ Alive(p) /\ drops < MaxDrops
  /\ connected' = connected \ {p}
  /\ \E n \in 0 .. Len(taken[p]) :
       outbox' = Put(outbox, p, SubSeq(taken[p], n + 1, Len(taken[p])) \o outbox[p])
  /\ taken' = Put(taken, p, <<>>)
  /\ queue' = Put(queue, p, <<>>)
  /\ drops' = drops + 1
  /\ UNCHANGED <<architecture, at, record, late, seen, twice>>

-----------------------------------------------------------------------------
(* on_message of the three roles. *)

Incoming(p, topics) ==
  /\ p \in connected /\ Alive(p)
  /\ queue[p] # <<>> /\ Head(queue[p]).topic \in topics
  /\ queue' = Put(queue, p, Tail(queue[p]))

(* Mutant of OnAction: an answer that was there before is not counted.     *)
OnActionOnce ==
  /\ Incoming("simulator", {"action"})
  /\ LET k == Head(queue["simulator"]).sequence
     IN /\ responses' = responses \cup {k}
        /\ twice' = (twice \/ k \in responses)
        /\ counters' = [counters EXCEPT !["simulator"].received =
                          IF k \in responses THEN @ ELSE @ + 1]
  /\ UNCHANGED <<architecture, at, connected, outbox, taken, result, drops, late, seen>>

OnAction ==
  /\ Incoming("simulator", {"action"})
  /\ LET k == Head(queue["simulator"]).sequence
     IN /\ responses' = responses \cup {k}
        /\ twice' = (twice \/ k \in responses)
        /\ counters' = [counters EXCEPT !["simulator"].received = @ + 1]
  /\ UNCHANGED <<architecture, at, connected, outbox, taken, result, drops, late, seen>>

(* Mutant of Reply: the action first. *)
ReplyActionFirst(p, k) ==
  <<[topic |-> "action", sequence |-> k]>>
    \o Repeat(IF p = "edge" THEN Peers ELSE 0, [topic |-> "peer", sequence |-> k])

(* The edge publishes a message for every intersection, then the action.   *)
Reply(p, k) ==
  Repeat(IF p = "edge" THEN Peers ELSE 0, [topic |-> "peer", sequence |-> k])
    \o <<[topic |-> "action", sequence |-> k]>>

OnTelemetry(p) ==
  /\ p \in Controller /\ Incoming(p, {"telemetry"})
  /\ LET k == Head(queue[p]).sequence
         sent == Reply(p, k)
     IN /\ outbox' = Put(outbox, p, outbox[p] \o sent)
        /\ counters' = Put(counters, p,
             [counters[p] EXCEPT !.received = @ + 1, !.published = @ + Len(sent),
                !.action_published = @ + 1, !.peer_published = @ + Len(sent) - 1])
        /\ seen' = seen \cup {k}
        /\ twice' = (twice \/ k \in seen)
  /\ UNCHANGED <<architecture, at, connected, taken, responses, result, drops, late>>

OnPeer ==
  /\ Incoming("edge", {"peer"})
  /\ counters' = [counters EXCEPT !["edge"].peer_received = @ + 1]
  /\ UNCHANGED <<architecture, at, connected, outbox, taken, responses, result, history>>

OnStop(p) ==
  /\ p \in Controller /\ Incoming(p, {"stop"})
  /\ at' = Put(at, p, "stopping")
  /\ UNCHANGED <<architecture, connected, outbox, taken, record, history>>

-----------------------------------------------------------------------------
(* The main threads. *)

(* Mutant of Leaves: the broker keeps the session.                         *)
LeavesSession(p) ==
  /\ connected' = connected \ {p}
  /\ outbox' = Put(outbox, p, <<>>)
  /\ taken' = Put(taken, p, <<>>)
  /\ UNCHANGED queue

Leaves(p) ==
  /\ connected' = connected \ {p}
  /\ outbox' = Put(outbox, p, <<>>)
  /\ taken' = Put(taken, p, <<>>)
  /\ queue' = Put(queue, p, <<>>)

Fails(p) == at' = Put(at, p, "failed") /\ Leaves(p) /\ UNCHANGED <<architecture, record, history>>

(* Not connected within 15 seconds. *)
NotReady(p) == at[p] = "off" /\ Fails(p)

(* wait_for_publish ends after ten seconds, whether the broker has the     *)
(* message or not, and raises when there is no connection to send it by.   *)
Publish ==
  /\ at["simulator"] = "publishing" /\ "simulator" \in connected
  /\ LET k == counters["simulator"].published + 1
     IN /\ outbox' = Put(outbox, "simulator",
                         Append(outbox["simulator"], [topic |-> "telemetry", sequence |-> k]))
        /\ counters' = [counters EXCEPT !["simulator"].published = k]
        /\ at' = IF k = Messages THEN Put(at, "simulator", "answers") ELSE at
  /\ UNCHANGED <<architecture, connected, taken, queue, responses, result, history>>

(* All answers are there, or the deadline of 60 seconds has passed.        *)
PublishStop ==
  /\ at["simulator"] = "answers" /\ "simulator" \in connected
  /\ late' = (late \/ Cardinality(responses) < Messages)
  /\ outbox' = Put(outbox, "simulator",
                   Append(outbox["simulator"], [topic |-> "stop", sequence |-> 0]))
  /\ at' = Put(at, "simulator", "stopping")
  /\ UNCHANGED <<architecture, connected, taken, queue, record, drops, seen, twice>>

PublishFails ==
  /\ at["simulator"] \in {"publishing", "answers"} /\ "simulator" \notin connected
  /\ Fails("simulator")

(* The result is written before a simulator without all answers raises.    *)
End(p) ==
  /\ at[p] = "stopping"
  /\ result' = Put(result, p, counters[p])
  /\ at' = Put(at, p, IF p = "simulator" /\ Cardinality(responses) # Messages
                      THEN "failed" ELSE "ended")
  /\ Leaves(p)
  /\ UNCHANGED <<architecture, responses, counters, history>>

(* Mutant of GiveUp: a controller waits for the stop message for ever.     *)
GiveUpNever(p) == FALSE /\ Fails(p)

(* No stop message within 90 seconds. *)
GiveUp(p) == p \in Controller /\ at[p] = "waiting" /\ Fails(p)

-----------------------------------------------------------------------------
HarnessNext ==
  \/ \E p \in Process :
       \/ Connect(p) \/ Route(p) \/ Drop(p)
       \/ OnTelemetry(p) \/ OnStop(p) \/ NotReady(p) \/ End(p) \/ GiveUp(p)
  \/ OnAction \/ OnPeer \/ Publish \/ PublishStop \/ PublishFails

HarnessSpec == HarnessInit /\ [][HarnessNext]_harnessVars

(* Every wait of a process ends, by what it waits for or by its timeout.   *)
HarnessFairSpec == HarnessSpec /\ WF_harnessVars(HarnessNext)

(* reconcile_pcap.py; it cannot tell before all three files are there.     *)
Reconciles ==
  /\ \A p \in Process : result[p] # None
  /\ result["simulator"].published = result[architecture].received
  /\ result["simulator"].received = result[architecture].action_published
  /\ architecture = "edge" =>
       result["edge"].peer_published = result["edge"].peer_received

-----------------------------------------------------------------------------
(* Properties. *)

(* Type invariant; nothing is kept for a client the broker does not know.  *)
HarnessTypeOK ==
  /\ architecture \in Controller
  /\ at \in [Process -> {"off", "waiting", "publishing", "answers", "stopping",
                         "ended", "failed"}]
  /\ connected \subseteq Process
  /\ \A p \in Process :
       /\ \A i \in DOMAIN outbox[p] : outbox[p][i] \in Message
       /\ \A i \in DOMAIN taken[p] : taken[p][i] \in Message
       /\ \A i \in DOMAIN queue[p] : queue[p][i] \in Message
       /\ queue[p] # <<>> => p \in connected
       /\ result[p] \in {None, counters[p]}
  /\ responses \subseteq seen /\ seen \subseteq Sequence

(* "Application counters must match exactly between publishers and         *)
(* subscribers." (docs/network_harness.md)  They do when no connection     *)
(* broke and no deadline passed: nothing any process published is still on *)
(* its way when it stops counting, and who subscribed late shows up as a   *)
(* simulator without its answers.                                          *)
CountersMatch ==
  (\A p \in Process : at[p] = "ended") /\ drops = 0 /\ ~late => Reconciles

(* Broken connections lose and duplicate messages.  When the simulator     *)
(* ends well and the counters match all the same, no telemetry and no      *)
(* action was delivered twice: the latencies measured are those of first   *)
(* answers.  Nothing is said of the messages between peers: one delivered  *)
(* twice makes up for another that is unread when the edge ends.           *)
ReconciledIsExact ==
  at["simulator"] = "ended" /\ Reconciles => ~twice

(* Nobody waits for ever: every process ends, whatever is lost.            *)
EveryoneEnds == <>(\A p \in Process : Ended(p))
=============================================================================
