------------------------ MODULE NetworkHarnessProofs ------------------------
(***************************************************************************)
(* Theorems about the MQTT harness, for every number of messages, peers    *)
(* and broken connections.                                                 *)
(*                                                                         *)
(* The argument has four layers.  Carried says what every list of messages *)
(* may hold: nothing is answered that was not seen.  Tallied relates the   *)
(* counters to the sets of what arrived: a surplus is a second delivery.   *)
(* While no connection has broken, InOrder keeps telemetry and actions in  *)
(* the order of their sequences, hence apart from what arrived before, and *)
(* PeersFlow accounts for every peer message until the edge stops.         *)
(***************************************************************************)
EXTENDS NetworkHarness, FiniteSetTheorems, SequenceTheorems, TLAPS

Place == {"off", "waiting", "publishing", "answers", "stopping", "ended", "failed"}

Typing ==
  /\ architecture \in Controller
  /\ at \in [Process -> Place]
  /\ connected \subseteq Process
  /\ outbox \in [Process -> Seq(Message)]
  /\ taken \in [Process -> Seq(Message)]
  /\ queue \in [Process -> Seq(Message)]
  /\ counters \in [Process -> Counters]
  /\ result \in [Process -> Counters \cup {None}]
  /\ seen \subseteq Sequence /\ responses \subseteq Sequence
  /\ drops \in Nat /\ late \in BOOLEAN /\ twice \in BOOLEAN

(* What a process publishes, and what the broker may have for it.          *)
Sendable(p) ==
  {m \in Message :
     \/ /\ m.topic = "telemetry" /\ p = "simulator"
        /\ m.sequence <= counters["simulator"].published
     \/ m.topic = "action" /\ p = architecture /\ m.sequence \in seen
     \/ m.topic = "peer" /\ p = "edge" /\ p = architecture
     \/ m.topic = "stop" /\ p = "simulator"}

Receivable(p) ==
  {m \in Message :
     \/ /\ m.topic = "telemetry" /\ p = architecture
        /\ m.sequence <= counters["simulator"].published
     \/ m.topic = "action" /\ p = "simulator" /\ m.sequence \in seen
     \/ m.topic = "peer" /\ p = "edge" /\ p = architecture
     \/ m.topic = "stop" /\ p \in Controller}

Carried ==
  /\ \A p \in Process : outbox[p] \in Seq(Sendable(p)) /\ taken[p] \in Seq(Sendable(p))
  /\ \A p \in Process : queue[p] \in Seq(Receivable(p))
  /\ responses \subseteq seen
  /\ seen \subseteq 1 .. counters["simulator"].published
  /\ counters["simulator"].published <= Messages

(* Where the main threads stand and what their files say.                  *)
Stands ==
  /\ \A p \in Process : queue[p] # <<>> => p \in connected
  /\ \A p \in Process : result[p] # None => result[p] = counters[p] /\ Ended(p)
  /\ \A p \in Process : at[p] = "ended" => result[p] # None
  /\ at["simulator"] # "waiting"
  /\ \A p \in Controller : at[p] \notin {"publishing", "answers"}
  /\ at["simulator"] \in {"off", "publishing"} => counters["simulator"].published < Messages
  /\ at["simulator"] \in {"answers", "stopping", "ended"} =>
       counters["simulator"].published = Messages
  /\ at["simulator"] = "ended" => responses = Sequence

Tallied ==
  /\ counters[architecture].received = counters[architecture].action_published
  /\ counters[architecture].received >= Cardinality(seen)
  /\ counters["simulator"].received >= Cardinality(responses)
  /\ ~twice => /\ counters[architecture].received = Cardinality(seen)
               /\ counters["simulator"].received = Cardinality(responses)
  /\ twice => \/ counters[architecture].received > Cardinality(seen)
              \/ counters["simulator"].received > Cardinality(responses)

(* Sequences of a topic in a list rise, those in one set are below those   *)
(* in another.                                                             *)
Rising(s, topic) ==
  \A i, j \in DOMAIN s :
    i < j /\ s[i].topic = topic /\ s[j].topic = topic => s[i].sequence < s[j].sequence
Values(s, topic) == {s[i].sequence : i \in {j \in DOMAIN s : s[j].topic = topic}}
Below(A, B) == \A a \in A, b \in B : a < b

Ordered(done, q, s, topic) ==
  /\ Rising(q, topic) /\ Rising(s, topic)
  /\ Below(done, Values(q, topic)) /\ Below(done, Values(s, topic))
  /\ Below(Values(q, topic), Values(s, topic))

InOrder ==
  drops = 0 =>
    /\ Ordered(seen, queue[architecture], outbox["simulator"], "telemetry")
    /\ Ordered(responses, queue["simulator"], outbox[architecture], "action")
    /\ ~twice

PeerPlaces(s) == {i \in DOMAIN s : s[i].topic = "peer"}
PeersIn(s) == Cardinality(PeerPlaces(s))

Stopped ==
  \/ \E i \in DOMAIN outbox["simulator"] : outbox["simulator"][i].topic = "stop"
  \/ \E i \in DOMAIN queue["edge"] : queue["edge"][i].topic = "stop"
  \/ at["edge"] \in {"stopping", "ended"}

EndsWithAction ==
  outbox["edge"] # <<>> => outbox["edge"][Len(outbox["edge"])].topic = "action"

Balanced ==
  at["edge"] \in {"off", "waiting", "stopping"} =>
    counters["edge"].peer_published =
      counters["edge"].peer_received + PeersIn(queue["edge"]) + PeersIn(outbox["edge"])

NoneBehindStop ==
  \A i, j \in DOMAIN queue["edge"] :
    i < j /\ queue["edge"][i].topic = "stop" => queue["edge"][j].topic # "peer"

Drained ==
  /\ at["edge"] = "stopping" => PeersIn(queue["edge"]) = 0
  /\ at["edge"] = "ended" =>
       counters["edge"].peer_published = counters["edge"].peer_received

PeersFlow ==
  drops = 0 /\ architecture = "edge" =>
    /\ EndsWithAction /\ Balanced
    /\ ~late => (Stopped => responses = Sequence) /\ NoneBehindStop /\ Drained

-----------------------------------------------------------------------------
(* Sequences. *)

LEMMA SeqMonotone ==
  ASSUME NEW S, NEW T, S \subseteq T, NEW s \in Seq(S)
  PROVE  s \in Seq(T)
<1>1. Len(s) \in Nat /\ s \in [1 .. Len(s) -> S]
  OBVIOUS
<1>2. s \in [1 .. Len(s) -> T]
  BY <1>1
<1>3. QED
  BY <1>1, <1>2

LEMMA Tails ==
  ASSUME NEW S, NEW s \in Seq(S), s # <<>>
  PROVE  /\ Len(s) \in Nat \ {0} /\ Len(Tail(s)) = Len(s) - 1
         /\ DOMAIN s = 1 .. Len(s) /\ DOMAIN Tail(s) = 1 .. (Len(s) - 1)
         /\ Head(s) = s[1] /\ Head(s) \in S
         /\ Tail(s) \in Seq(S)
         /\ \A i \in DOMAIN Tail(s) : i + 1 \in DOMAIN s /\ Tail(s)[i] = s[i + 1]
         /\ \A i \in DOMAIN s : i = 1 \/ (i - 1 \in DOMAIN Tail(s) /\ s[i] = Tail(s)[i - 1])
OBVIOUS

LEMMA Appends ==
  ASSUME NEW S, NEW s \in Seq(S), NEW m \in S
  PROVE  /\ Len(s) \in Nat /\ Len(Append(s, m)) = Len(s) + 1
         /\ DOMAIN s = 1 .. Len(s) /\ DOMAIN Append(s, m) = 1 .. (Len(s) + 1)
         /\ Append(s, m) \in Seq(S)
         /\ Append(s, m)[Len(s) + 1] = m
         /\ \A i \in DOMAIN s : i \in DOMAIN Append(s, m) /\ Append(s, m)[i] = s[i]
OBVIOUS

LEMMA Concats ==
  ASSUME NEW S, NEW s \in Seq(S), NEW t \in Seq(S)
  PROVE  /\ Len(s) \in Nat /\ Len(t) \in Nat /\ Len(s \o t) = Len(s) + Len(t)
         /\ DOMAIN s = 1 .. Len(s) /\ DOMAIN t = 1 .. Len(t)
         /\ DOMAIN (s \o t) = 1 .. (Len(s) + Len(t))
         /\ s \o t \in Seq(S)
         /\ \A i \in DOMAIN s : (s \o t)[i] = s[i]
         /\ \A i \in DOMAIN t : (s \o t)[Len(s) + i] = t[i]
OBVIOUS

LEMMA Suffixes ==
  ASSUME NEW S, NEW s \in Seq(S), NEW n \in 0 .. Len(s)
  PROVE  SubSeq(s, n + 1, Len(s)) \in Seq(S)
OBVIOUS

LEMMA Empty ==
  ASSUME NEW S
  PROVE  <<>> \in Seq(S) /\ DOMAIN <<>> = {} /\ Len(<<>>) = 0
OBVIOUS

(* The order of a list survives what happens to the list.                  *)
LEMMA RisingTail ==
  ASSUME NEW s \in Seq(Message), s # <<>>, NEW topic, Rising(s, topic)
  PROVE  /\ Rising(Tail(s), topic)
         /\ Values(Tail(s), topic) \subseteq Values(s, topic)
         /\ Head(s).topic = topic =>
              Head(s).sequence \in Values(s, topic)
                /\ Below({Head(s).sequence}, Values(Tail(s), topic))
<1>1. \A i, j \in DOMAIN Tail(s) : i < j =>
        i + 1 \in DOMAIN s /\ j + 1 \in DOMAIN s /\ i + 1 < j + 1
  BY Tails
<1>2. Rising(Tail(s), topic)
  BY <1>1, Tails DEF Rising
<1>3. Values(Tail(s), topic) \subseteq Values(s, topic)
  BY Tails DEF Values
<1>4. 1 \in DOMAIN s /\ \A i \in DOMAIN Tail(s) : 1 < i + 1
  BY Tails
<1>5. ASSUME Head(s).topic = topic
      PROVE  /\ Head(s).sequence \in Values(s, topic)
             /\ Below({Head(s).sequence}, Values(Tail(s), topic))
  <2>1. s[1].topic = topic /\ s[1] = Head(s)
    BY <1>5, Tails
  <2>2. \A i \in DOMAIN Tail(s) : Tail(s)[i].topic = topic =>
          s[1].sequence < Tail(s)[i].sequence
    BY <2>1, <1>4, Tails DEF Rising
  <2>3. QED
    BY <2>1, <2>2, <1>4 DEF Values, Below
<1>6. QED
  BY <1>2, <1>3, <1>5

LEMMA RisingAppend ==
  ASSUME NEW s \in Seq(Message), NEW m \in Message, NEW topic, Rising(s, topic),
         m.topic = topic => Below(Values(s, topic), {m.sequence})
  PROVE  /\ Rising(Append(s, m), topic)
         /\ Values(Append(s, m), topic) \subseteq Values(s, topic) \cup {m.sequence}
         /\ m.topic # topic => Values(Append(s, m), topic) = Values(s, topic)
<1> DEFINE a == Append(s, m)
<1>1. /\ Len(s) \in Nat /\ DOMAIN s = 1 .. Len(s) /\ DOMAIN a = 1 .. (Len(s) + 1)
      /\ a[Len(s) + 1] = m /\ \A i \in DOMAIN s : a[i] = s[i]
  BY Appends
<1>2. DOMAIN a = DOMAIN s \cup {Len(s) + 1}
  BY <1>1
<1> HIDE DEF a
<1>3. Rising(a, topic)
  <2> SUFFICES ASSUME NEW i \in DOMAIN a, NEW j \in DOMAIN a, i < j,
                      a[i].topic = topic, a[j].topic = topic
               PROVE  a[i].sequence < a[j].sequence
    BY DEF Rising
  <2>1. i \in DOMAIN s
    BY <1>1
  <2>2. CASE j \in DOMAIN s
    BY <2>1, <2>2, <1>1 DEF Rising
  <2>3. CASE j = Len(s) + 1
    <3>1. a[j] = m /\ a[i] = s[i]
      BY <2>1, <2>3, <1>1
    <3>2. s[i].sequence \in Values(s, topic)
      BY <2>1, <3>1 DEF Values
    <3>3. QED
      BY <3>1, <3>2 DEF Below
  <2>4. QED
    BY <2>2, <2>3, <1>2
<1>4. Values(a, topic) \subseteq Values(s, topic) \cup {m.sequence}
  BY <1>1, <1>2 DEF Values
<1>5. m.topic # topic => Values(a, topic) = Values(s, topic)
  BY <1>1, <1>2 DEF Values
<1>6. QED
  BY <1>3, <1>4, <1>5 DEF a

LEMMA RisingConcat ==
  ASSUME NEW s \in Seq(Message), NEW t \in Seq(Message), NEW topic,
         Rising(s, topic), Rising(t, topic), Below(Values(s, topic), Values(t, topic))
  PROVE  /\ Rising(s \o t, topic)
         /\ Values(s \o t, topic) \subseteq Values(s, topic) \cup Values(t, topic)
<1> DEFINE c == s \o t
<1>1. /\ Len(s) \in Nat /\ Len(t) \in Nat
      /\ DOMAIN s = 1 .. Len(s) /\ DOMAIN t = 1 .. Len(t)
      /\ DOMAIN c = 1 .. (Len(s) + Len(t))
      /\ \A i \in DOMAIN s : c[i] = s[i]
      /\ \A i \in DOMAIN t : c[Len(s) + i] = t[i]
  BY Concats
<1>2. \A i \in DOMAIN c : i \in DOMAIN s \/ (i - Len(s) \in DOMAIN t /\ i > Len(s))
  BY <1>1
<1>3. \A i \in DOMAIN c : i - Len(s) \in DOMAIN t => c[i] = t[i - Len(s)]
  <2> TAKE i \in DOMAIN c
  <2>1. HAVE i - Len(s) \in DOMAIN t
  <2>2. c[Len(s) + (i - Len(s))] = t[i - Len(s)]
    BY <1>1, <2>1
  <2>3. Len(s) + (i - Len(s)) = i
    BY <1>1
  <2>4. QED
    BY <2>2, <2>3
<1> HIDE DEF c
<1>4. Rising(c, topic)
  <2> SUFFICES ASSUME NEW i \in DOMAIN c, NEW j \in DOMAIN c, i < j,
                      c[i].topic = topic, c[j].topic = topic
               PROVE  c[i].sequence < c[j].sequence
    BY DEF Rising
  <2>1. CASE j \in DOMAIN s
    <3>1. i \in DOMAIN s
      BY <2>1, <1>1
    <3>2. QED
      BY <3>1, <2>1, <1>1 DEF Rising
  <2>2. CASE j - Len(s) \in DOMAIN t /\ i \in DOMAIN s
    <3>1. c[i] = s[i] /\ c[j] = t[j - Len(s)]
      BY <2>2, <1>1, <1>3
    <3>2. s[i].sequence \in Values(s, topic) /\ t[j - Len(s)].sequence \in Values(t, topic)
      BY <2>2, <3>1 DEF Values
    <3>3. QED
      BY <3>1, <3>2 DEF Below
  <2>3. CASE j - Len(s) \in DOMAIN t /\ i - Len(s) \in DOMAIN t
    <3>1. i - Len(s) < j - Len(s)
      BY <1>1
    <3>2. c[i] = t[i - Len(s)] /\ c[j] = t[j - Len(s)]
      BY <2>3, <1>3
    <3>3. QED
      BY <3>1, <3>2, <2>3 DEF Rising
  <2>4. QED
    BY <2>1, <2>2, <2>3, <1>2
<1>5. Values(c, topic) \subseteq Values(s, topic) \cup Values(t, topic)
  <2> SUFFICES ASSUME NEW i \in DOMAIN c, c[i].topic = topic
               PROVE  c[i].sequence \in Values(s, topic) \cup Values(t, topic)
    BY DEF Values
  <2>1. CASE i \in DOMAIN s
    BY <2>1, <1>1 DEF Values
  <2>2. CASE i - Len(s) \in DOMAIN t
    BY <2>2, <1>3 DEF Values
  <2>3. QED
    BY <2>1, <2>2, <1>2
<1>6. QED
  BY <1>4, <1>5 DEF c

-----------------------------------------------------------------------------
(* Types. *)

LEMMA Constants ==
  /\ Messages \in Nat \ {0} /\ Peers \in Nat /\ MaxDrops \in Nat
  /\ None \notin Counters /\ NoMessages \in Counters
BY HarnessAssumption DEF Counters, NoMessages

LEMMA Processes ==
  /\ Process = {"simulator", "edge", "cloud"} /\ Controller = {"edge", "cloud"}
  /\ "simulator" \in Process /\ "edge" \in Process /\ Controller \subseteq Process
  /\ "simulator" \notin Controller
BY DEF Process, Controller

LEMMA Replies ==
  ASSUME NEW p \in Controller, NEW k \in Sequence
  PROVE  /\ Reply(p, k) \in Seq(Message)
         /\ Len(Reply(p, k)) \in Nat \ {0} /\ Reply(p, k)[Len(Reply(p, k))].topic = "action"
         /\ Reply(p, k)[Len(Reply(p, k))].sequence = k
         /\ Len(Reply(p, k)) = IF p = "edge" THEN Peers + 1 ELSE 1
         /\ \A i \in DOMAIN Reply(p, k) :
              i < Len(Reply(p, k)) => Reply(p, k)[i] = [topic |-> "peer", sequence |-> k] /\ p = "edge"
<1> DEFINE n == IF p = "edge" THEN Peers ELSE 0
           peer == [topic |-> "peer", sequence |-> k]
           action == [topic |-> "action", sequence |-> k]
<1>1. n \in Nat /\ peer \in Message /\ action \in Message
  BY Constants DEF Message
<1>2. Reply(p, k) = Repeat(n, peer) \o <<action>>
  BY DEF Reply
<1>3. Repeat(n, peer) \in Seq(Message) /\ Len(Repeat(n, peer)) = n
      /\ \A i \in 1 .. n : Repeat(n, peer)[i] = peer
  <2> HIDE DEF peer, n
  <2>1. QED
    BY <1>1 DEF Repeat
<1>4. <<action>> \in Seq(Message) /\ Len(<<action>>) = 1 /\ <<action>>[1] = action
  <2> HIDE DEF action
  <2>1. QED
    BY <1>1
<1>5. /\ Reply(p, k) \in Seq(Message) /\ Len(Reply(p, k)) = n + 1
      /\ DOMAIN Reply(p, k) = 1 .. (n + 1)
      /\ \A i \in 1 .. n : Reply(p, k)[i] = peer
      /\ Reply(p, k)[n + 1] = action
  <2> HIDE DEF peer, action, n
  <2>1. QED
    BY <1>1, <1>2, <1>3, <1>4, Concats
<1>6. n = 0 \/ p = "edge"
  OBVIOUS
<1>7. QED
  BY <1>1, <1>5, <1>6

(* What on_message finds: the first message of the queue.                  *)
LEMMA IncomingHead ==
  ASSUME Typing, NEW p \in Process, NEW topics, Incoming(p, topics)
  PROVE  /\ Head(queue[p]) \in Message /\ Head(queue[p]).topic \in topics
         /\ Head(queue[p]) = queue[p][1] /\ 1 \in DOMAIN queue[p]
         /\ Tail(queue[p]) \in Seq(Message)
         /\ queue[p] # <<>>
         /\ queue' = [queue EXCEPT ![p] = Tail(queue[p])]
         /\ Alive(p) /\ p \in connected
BY Tails DEF Typing, Incoming, Put

LEMMA QueueTaken ==
  ASSUME Typing, NEW p \in Process, NEW topics, Incoming(p, topics)
  PROVE  queue' \in [Process -> Seq(Message)]
<1>1. Tail(queue[p]) \in Seq(Message) /\ queue' = [queue EXCEPT ![p] = Tail(queue[p])]
  BY IncomingHead
<1>2. QED
  BY <1>1 DEF Typing

(* Counters count on.                                                      *)
LEMMA Counted ==
  ASSUME NEW c \in Counters
  PROVE  /\ c.received \in Nat /\ c.published \in Nat /\ c.action_published \in Nat
         /\ c.peer_published \in Nat /\ c.peer_received \in Nat
BY Zenon DEF Counters

LEMMA Counting ==
  ASSUME NEW c \in Counters
  PROVE  \A i \in Nat : /\ [c EXCEPT !.received = i] \in Counters
                         /\ [c EXCEPT !.peer_received = i] \in Counters
                         /\ [c EXCEPT !.published = i] \in Counters
BY Zenon DEF Counters

LEMMA CountingReply ==
  ASSUME NEW c \in Counters
  PROVE  \A i, j, k, l \in Nat :
           [c EXCEPT !.received = i, !.published = j, !.action_published = k,
              !.peer_published = l] \in Counters
BY Zenon DEF Counters

LEMMA Topics ==
  ASSUME NEW m \in Message
  PROVE  /\ m.topic \in {"telemetry", "action", "peer", "stop"}
         /\ m.topic # "stop" => m.sequence \in Sequence
         /\ m.sequence \in Int
BY Constants DEF Message, Sequence

LEMMA TypingInit == HarnessInit => Typing
<1> SUFFICES ASSUME HarnessInit PROVE Typing
  OBVIOUS
<1>1. outbox = [p \in Process |-> <<>>] /\ taken = outbox /\ queue = outbox
  BY DEF HarnessInit
<1>2. outbox \in [Process -> Seq(Message)]
  BY <1>1, Empty
<1>3. counters \in [Process -> Counters] /\ result \in [Process -> Counters \cup {None}]
  BY Constants DEF HarnessInit
<1>4. QED
  BY <1>1, <1>2, <1>3 DEF HarnessInit, Typing, Place

LEMMA TypingNext ==
  Typing /\ Stands /\ [HarnessNext]_harnessVars => Typing'
<1> SUFFICES ASSUME Typing, Stands, [HarnessNext]_harnessVars PROVE Typing'
  OBVIOUS
<1> USE Processes
<1>1. ASSUME NEW p \in Process, Connect(p) PROVE Typing'
  BY <1>1 DEF Connect, Typing, Put, Place, record, history
<1>2. ASSUME NEW p \in Process, Route(p) PROVE Typing'
  <2> DEFINE m == Head(outbox[p])
  <2>1. outbox[p] \in Seq(Message) /\ m \in Message /\ Tail(outbox[p]) \in Seq(Message)
    BY <1>2, Tails DEF Route, Typing
  <2>2. \A q \in Process : queue[q] \in Seq(Message) /\ Append(queue[q], m) \in Seq(Message)
    BY <2>1 DEF Typing
  <2>3. Append(taken[p], m) \in Seq(Message)
    BY <2>1 DEF Typing
  <2>4. queue' \in [Process -> Seq(Message)]
    BY <1>2, <2>2 DEF Route
  <2>5. taken' \in [Process -> Seq(Message)] /\ outbox' \in [Process -> Seq(Message)]
    BY <1>2, <2>1, <2>3 DEF Route, Typing, Put
  <2>6. QED
    BY <1>2, <2>4, <2>5 DEF Route, Typing, record, history
<1>3. ASSUME NEW p \in Process, Drop(p) PROVE Typing'
  <2>1. PICK n \in 0 .. Len(taken[p]) :
          outbox' = Put(outbox, p, SubSeq(taken[p], n + 1, Len(taken[p])) \o outbox[p])
    BY <1>3 DEF Drop
  <2>2. SubSeq(taken[p], n + 1, Len(taken[p])) \o outbox[p] \in Seq(Message)
    BY Suffixes, Concats DEF Typing
  <2>3. outbox' \in [Process -> Seq(Message)]
    BY <2>1, <2>2 DEF Put, Typing
  <2>4. taken' \in [Process -> Seq(Message)] /\ queue' \in [Process -> Seq(Message)]
    BY <1>3, Empty DEF Drop, Put, Typing
  <2>5. QED
    BY <1>3, <2>3, <2>4, Constants, SMTT(30) DEF Drop, Typing, record
<1>4. ASSUME NEW p \in Process, OnTelemetry(p) PROVE Typing'
  <2> DEFINE k == Head(queue[p]).sequence
             sent == Reply(p, k)
  <2>1. p \in Controller /\ Incoming(p, {"telemetry"})
    BY <1>4 DEF OnTelemetry
  <2>2. k \in Sequence
    BY <2>1, IncomingHead, Topics
  <2>3. sent \in Seq(Message) /\ Len(sent) \in Nat \ {0}
    BY <2>1, <2>2, Replies
  <2>4. counters' = Put(counters, p,
             [counters[p] EXCEPT !.received = @ + 1, !.published = @ + Len(sent),
                !.action_published = @ + 1, !.peer_published = @ + Len(sent) - 1])
        /\ outbox' = Put(outbox, p, outbox[p] \o sent)
        /\ seen' = seen \cup {k} /\ twice' = (twice \/ k \in seen)
    BY <1>4 DEF OnTelemetry
  <2> HIDE DEF k, sent
  <2>5. counters[p] \in Counters
    BY DEF Typing
  <2>6. [counters[p] EXCEPT !.received = @ + 1, !.published = @ + Len(sent),
           !.action_published = @ + 1, !.peer_published = @ + Len(sent) - 1] \in Counters
    <3>1. /\ counters[p].received + 1 \in Nat
          /\ counters[p].published + Len(sent) \in Nat
          /\ counters[p].action_published + 1 \in Nat
          /\ counters[p].peer_published + Len(sent) - 1 \in Nat
      BY <2>3, <2>5, Counted
    <3>2. QED
      BY <3>1, <2>5, CountingReply
  <2>7. counters' \in [Process -> Counters]
    BY <2>4, <2>6 DEF Put, Typing
  <2>8. outbox[p] \o sent \in Seq(Message)
    BY <2>3 DEF Typing
  <2>9. outbox' \in [Process -> Seq(Message)] /\ queue' \in [Process -> Seq(Message)]
    <3>1. queue' \in [Process -> Seq(Message)]
      BY <2>1, QueueTaken
    <3>2. QED
      BY <3>1, <2>4, <2>8 DEF Put, Typing
  <2>10. QED
    BY <1>4, <2>2, <2>4, <2>7, <2>9 DEF OnTelemetry, Typing
<1>5. ASSUME NEW p \in Process, OnStop(p) PROVE Typing'
  <2>1. Incoming(p, {"stop"})
    BY <1>5 DEF OnStop
  <2>2. queue' \in [Process -> Seq(Message)]
    BY <2>1, QueueTaken
  <2>3. QED
    BY <1>5, <2>2 DEF OnStop, Typing, Put, Place, record, history
<1>6. ASSUME NEW p \in Process, Fails(p) PROVE Typing'
  BY <1>6, Empty DEF Fails, Leaves, Typing, Put, Place, record, history
<1>7. ASSUME NEW p \in Process, End(p) PROVE Typing'
  BY <1>7, Empty DEF End, Leaves, Typing, Put, Place, history
<1>8. CASE OnAction
  <2> DEFINE k == Head(queue["simulator"]).sequence
  <2>1. Incoming("simulator", {"action"})
    BY <1>8 DEF OnAction
  <2>2. k \in Sequence
    BY <2>1, IncomingHead, Topics
  <2>3. queue' \in [Process -> Seq(Message)]
    BY <2>1, QueueTaken
  <2>4. counters' = [counters EXCEPT !["simulator"].received = @ + 1]
    BY <1>8 DEF OnAction
  <2>5. counters' \in [Process -> Counters]
    <3>1. counters["simulator"] \in Counters
      BY DEF Typing
    <3>2. counters["simulator"].received + 1 \in Nat
      BY <3>1, Counted
    <3>3. [counters["simulator"] EXCEPT !.received = counters["simulator"].received + 1] \in Counters
      BY <3>1, <3>2, Counting
    <3>4. QED
      BY <2>4, <3>3 DEF Typing
  <2>6. QED
    BY <1>8, <2>2, <2>3, <2>5 DEF OnAction, Typing
<1>9. CASE OnPeer
  <2>1. Incoming("edge", {"peer"}) /\ counters' = [counters EXCEPT !["edge"].peer_received = @ + 1]
    BY <1>9 DEF OnPeer
  <2>2. queue' \in [Process -> Seq(Message)]
    BY <2>1, QueueTaken
  <2>3. counters' \in [Process -> Counters]
    <3>1. counters["edge"] \in Counters
      BY DEF Typing
    <3>2. counters["edge"].peer_received + 1 \in Nat
      BY <3>1, Counted
    <3>3. [counters["edge"] EXCEPT !.peer_received = counters["edge"].peer_received + 1] \in Counters
      BY <3>1, <3>2, Counting
    <3>4. QED
      BY <2>1, <3>3 DEF Typing
  <2>4. QED
    BY <1>9, <2>2, <2>3 DEF OnPeer, Typing, history
<1>10. CASE Publish
  <2> DEFINE k == counters["simulator"].published + 1
  <2>1. /\ outbox' = Put(outbox, "simulator",
               Append(outbox["simulator"], [topic |-> "telemetry", sequence |-> k]))
        /\ counters' = [counters EXCEPT !["simulator"].published = k]
        /\ at' = IF k = Messages THEN Put(at, "simulator", "answers") ELSE at
    BY <1>10 DEF Publish
  <2>2. counters["simulator"] \in Counters /\ counters["simulator"].published \in Nat
    BY Counted DEF Typing
  <2>3. k \in Sequence
    BY <1>10, <2>2, Constants DEF Publish, Stands, Sequence
  <2>4. [topic |-> "telemetry", sequence |-> k] \in Message
    BY <2>3 DEF Message
  <2> HIDE DEF k
  <2>5. outbox' \in [Process -> Seq(Message)]
    BY <2>1, <2>4 DEF Typing, Put
  <2>6. [counters["simulator"] EXCEPT !.published = k] \in Counters
    <3>1. k \in Nat
      BY <2>3, Constants DEF Sequence
    <3>2. QED
      BY <2>2, <3>1, Counting
  <2>7. counters' \in [Process -> Counters]
    BY <2>1, <2>6 DEF Typing
  <2>8. at' \in [Process -> Place]
    BY <2>1 DEF Typing, Put, Place
  <2>9. QED
    BY <1>10, <2>5, <2>7, <2>8 DEF Publish, Typing, history
<1>11. CASE PublishStop
  <2>1. [topic |-> "stop", sequence |-> 0] \in Message
    BY DEF Message
  <2>2. outbox' \in [Process -> Seq(Message)]
    BY <1>11, <2>1 DEF PublishStop, Typing, Put
  <2>3. late' \in BOOLEAN
    BY <1>11 DEF PublishStop, Typing
  <2>4. QED
    BY <1>11, <2>2, <2>3 DEF PublishStop, Typing, Put, Place, record
<1>12. CASE UNCHANGED harnessVars
  BY <1>12 DEF harnessVars, network, record, history, Typing
<1>13. QED
  BY <1>1, <1>2, <1>3, <1>4, <1>5, <1>6, <1>7, <1>8, <1>9, <1>10, <1>11, <1>12
     DEF HarnessNext, NotReady, GiveUp, PublishFails

-----------------------------------------------------------------------------
(* What lists carry, where processes stand. *)

LEMMA AllAnswers ==
  ASSUME NEW S, S \subseteq Sequence
  PROVE  /\ IsFiniteSet(S) /\ Cardinality(S) \in Nat /\ Cardinality(S) <= Messages
         /\ Cardinality(S) >= Messages => S = Sequence
         /\ Cardinality(Sequence) = Messages
<1>1. IsFiniteSet(Sequence) /\ Cardinality(Sequence) = Messages
  BY Constants, FS_Interval DEF Sequence
<1>2. /\ IsFiniteSet(S) /\ Cardinality(S) <= Cardinality(Sequence)
      /\ Cardinality(S) = Cardinality(Sequence) => S = Sequence
  BY <1>1, FS_Subset
<1>3. Cardinality(S) \in Nat
  BY <1>2, FS_CardinalityType
<1>4. QED
  BY <1>1, <1>2, <1>3, Constants

LEMMA StandsInit == HarnessInit => Stands
BY Constants, Processes DEF HarnessInit, Stands, NoMessages

LEMMA StandsNext ==
  Typing /\ Carried /\ Stands /\ [HarnessNext]_harnessVars => Stands'
<1> SUFFICES ASSUME Typing, Carried, Stands, [HarnessNext]_harnessVars PROVE Stands'
  OBVIOUS
<1> USE Processes
<1>1. ASSUME NEW p \in Process, Connect(p) PROVE Stands'
  <2>1. UNCHANGED <<queue, counters, result, responses>> /\ connected' = connected \cup {p}
    BY <1>1 DEF Connect, record
  <2>2. at' = at \/ (at[p] = "off" /\
          at' = [at EXCEPT ![p] = IF p = "simulator" THEN "publishing" ELSE "waiting"])
    BY <1>1 DEF Connect, Put
  <2>3. CASE at' = at
    BY <2>1, <2>3 DEF Stands, Ended
  <2>4. CASE at[p] = "off" /\
          at' = [at EXCEPT ![p] = IF p = "simulator" THEN "publishing" ELSE "waiting"]
    BY <2>1, <2>4 DEF Stands, Ended, Typing
  <2>5. QED
    BY <2>2, <2>3, <2>4
<1>2. ASSUME NEW p \in Process, Route(p) PROVE Stands'
  <2>1. UNCHANGED <<at, connected, counters, result, responses>>
    BY <1>2 DEF Route, record
  <2>2. \A q \in Process : queue'[q] # <<>> => queue[q] # <<>> \/ q \in connected
    BY <1>2 DEF Route, Subscribers
  <2>3. QED
    BY <2>1, <2>2 DEF Stands, Ended
<1>3. ASSUME NEW p \in Process, Drop(p) PROVE Stands'
  <2>1. UNCHANGED <<at, counters, result, responses>> /\ connected' = connected \ {p}
    BY <1>3 DEF Drop, record
  <2>2. \A q \in Process : queue'[q] = IF q = p THEN <<>> ELSE queue[q]
    BY <1>3 DEF Drop, Put, Typing
  <2>3. QED
    BY <2>1, <2>2 DEF Stands, Ended
<1>4. ASSUME NEW p \in Process, OnTelemetry(p) PROVE Stands'
  <2>1. p \in Controller /\ Incoming(p, {"telemetry"}) /\ UNCHANGED <<at, connected, result, responses>>
    BY <1>4 DEF OnTelemetry
  <2>2. Alive(p) /\ p \in connected
    BY <2>1, IncomingHead
  <2>3. result[p] = None
    BY <2>2 DEF Stands, Alive, Ended
  <2>4. \A q \in Process : q # p => counters'[q] = counters[q]
    BY <1>4 DEF OnTelemetry, Put, Typing
  <2>5. \A q \in Process : q # p => queue'[q] = queue[q]
    BY <2>1 DEF Incoming, Put, Typing
  <2>6. QED
    BY <2>1, <2>2, <2>3, <2>4, <2>5 DEF Stands, Ended
<1>5. ASSUME NEW p \in Process, OnStop(p) PROVE Stands'
  <2>1. p \in Controller /\ Incoming(p, {"stop"}) /\ UNCHANGED <<connected, counters, result, responses>>
        /\ at' = [at EXCEPT ![p] = "stopping"]
    BY <1>5 DEF OnStop, record, Put
  <2>2. Alive(p) /\ p \in connected
    BY <2>1, IncomingHead
  <2>3. result[p] = None
    BY <2>2 DEF Stands, Alive, Ended
  <2>5. \A q \in Process : q # p => queue'[q] = queue[q]
    BY <2>1 DEF Incoming, Put, Typing
  <2>6. QED
    BY <2>1, <2>2, <2>3, <2>5 DEF Stands, Ended, Typing
<1>6. ASSUME NEW p \in Process, Fails(p) PROVE Stands'
  <2>1. UNCHANGED <<counters, result, responses>> /\ at' = [at EXCEPT ![p] = "failed"]
        /\ connected' = connected \ {p} /\ queue' = [queue EXCEPT ![p] = <<>>]
    BY <1>6 DEF Fails, Leaves, record, Put
  <2>2. QED
    BY <2>1 DEF Stands, Ended, Typing
<1>7. ASSUME NEW p \in Process, End(p) PROVE Stands'
  <2>1. /\ at[p] = "stopping" /\ UNCHANGED <<counters, responses>>
        /\ at' = [at EXCEPT ![p] = IF p = "simulator" /\ Cardinality(responses) # Messages
                                   THEN "failed" ELSE "ended"]
        /\ result' = [result EXCEPT ![p] = counters[p]]
        /\ connected' = connected \ {p} /\ queue' = [queue EXCEPT ![p] = <<>>]
    BY <1>7 DEF End, Leaves, Put
  <2>2. counters[p] # None
    BY Constants DEF Typing
  <2>3. Cardinality(responses) = Messages => responses = Sequence
    <3>1. responses \subseteq Sequence
      BY DEF Typing
    <3>2. Cardinality(responses) \in Nat /\ (Cardinality(responses) >= Messages => responses = Sequence)
      BY <3>1, AllAnswers
    <3>3. QED
      BY <3>2
  <2>4. \A q \in Process : /\ at'[q] = "ended" => at[q] = "ended" \/ q = p
                           /\ q # p => at'[q] = at[q] /\ result'[q] = result[q]
                                         /\ queue'[q] = queue[q]
                           /\ q = p => at'[q] \in {"ended", "failed"} /\ result'[q] = counters[q]
                                         /\ queue'[q] = <<>>
    BY <2>1 DEF Typing
  <2>5. at'["simulator"] = "ended" => responses' = Sequence
    BY <2>1, <2>3 DEF Stands, Typing
  <2>6. QED
    BY <2>1, <2>2, <2>4, <2>5 DEF Stands, Ended
<1>8. CASE OnAction
  <2>1. /\ Incoming("simulator", {"action"}) /\ UNCHANGED <<at, connected, result>>
        /\ counters' = [counters EXCEPT !["simulator"].received = @ + 1]
    BY <1>8 DEF OnAction
  <2>2. Alive("simulator") /\ "simulator" \in connected
    BY <2>1, IncomingHead
  <2>3. result["simulator"] = None /\ at["simulator"] # "ended"
    BY <2>2 DEF Stands, Alive, Ended
  <2>4. counters'["simulator"].published = counters["simulator"].published
        /\ \A q \in Process : q # "simulator" => counters'[q] = counters[q]
    BY <2>1 DEF Typing, Counters
  <2>5. \A q \in Process : q # "simulator" => queue'[q] = queue[q]
    BY <2>1 DEF Incoming, Put, Typing
  <2>6. QED
    BY <2>1, <2>2, <2>3, <2>4, <2>5 DEF Stands, Ended
<1>9. CASE OnPeer
  <2>1. /\ Incoming("edge", {"peer"}) /\ UNCHANGED <<at, connected, result, responses>>
        /\ counters' = [counters EXCEPT !["edge"].peer_received = @ + 1]
    BY <1>9 DEF OnPeer
  <2>2. Alive("edge") /\ "edge" \in connected
    BY <2>1, IncomingHead
  <2>3. result["edge"] = None
    BY <2>2 DEF Stands, Alive, Ended
  <2>4. \A q \in Process : q # "edge" => counters'[q] = counters[q]
    BY <2>1 DEF Typing
  <2>5. \A q \in Process : q # "edge" => queue'[q] = queue[q]
    BY <2>1 DEF Incoming, Put, Typing
  <2>6. QED
    BY <2>1, <2>2, <2>3, <2>4, <2>5 DEF Stands, Ended
<1>10. CASE Publish
  <2> DEFINE k == counters["simulator"].published + 1
  <2>1. /\ at["simulator"] = "publishing" /\ UNCHANGED <<connected, queue, result, responses>>
        /\ counters' = [counters EXCEPT !["simulator"].published = k]
        /\ at' = IF k = Messages THEN Put(at, "simulator", "answers") ELSE at
    BY <1>10 DEF Publish
  <2>2. /\ counters'["simulator"].published = k
        /\ \A q \in Process : q # "simulator" => counters'[q] = counters[q]
    BY <2>1 DEF Typing, Counters
  <2>3. k \in Nat /\ k <= Messages
    BY <2>1, Counted, Constants, SMTT(30) DEF Typing, Stands
  <2>4. \A q \in Process : q # "simulator" => at'[q] = at[q]
    BY <2>1 DEF Put, Typing
  <2>5. at'["simulator"] = IF k = Messages THEN "answers" ELSE "publishing"
    BY <2>1 DEF Put, Typing
  <2>6. result["simulator"] = None
    BY <2>1 DEF Stands, Ended
  <2> HIDE DEF k
  <2>7. QED
    BY <2>1, <2>2, <2>3, <2>4, <2>5, <2>6, Constants DEF Stands, Ended
<1>11. CASE PublishStop
  <2>1. /\ at["simulator"] = "answers" /\ UNCHANGED <<connected, queue, counters, result, responses>>
        /\ at' = [at EXCEPT !["simulator"] = "stopping"]
    BY <1>11 DEF PublishStop, record, Put
  <2>2. QED
    BY <2>1 DEF Stands, Ended, Typing
<1>12. CASE UNCHANGED harnessVars
  BY <1>12 DEF harnessVars, network, record, history, Stands, Ended
<1>13. QED
  BY <1>1, <1>2, <1>3, <1>4, <1>5, <1>6, <1>7, <1>8, <1>9, <1>10, <1>11, <1>12
     DEF HarnessNext, NotReady, GiveUp, PublishFails

LEMMA Kinds ==
  ASSUME Typing, Carried, NEW p \in Process
  PROVE  /\ Sendable(p) \subseteq Message /\ Receivable(p) \subseteq Message
         /\ outbox[p] \in Seq(Sendable(p)) /\ taken[p] \in Seq(Sendable(p))
         /\ queue[p] \in Seq(Receivable(p))
BY DEF Carried, Sendable, Receivable

(* More may be sent when more was seen or published.                       *)
LEMMA KindsGrow ==
  ASSUME Typing, Typing', architecture' = architecture, seen \subseteq seen',
         counters["simulator"].published <= counters'["simulator"].published
  PROVE  \A p \in Process : /\ Sendable(p) \subseteq Sendable(p)'
                            /\ Receivable(p) \subseteq Receivable(p)'
                            /\ Seq(Sendable(p)) \subseteq Seq(Sendable(p)')
                            /\ Seq(Receivable(p)) \subseteq Seq(Receivable(p)')
<1>1. TAKE p \in Process
<1>2. counters["simulator"].published \in Nat /\ counters'["simulator"].published \in Nat
  BY Counted, Processes DEF Typing
<1>3. Sendable(p) \subseteq Sendable(p)'
  BY <1>2, Topics DEF Sendable
<1>4. Receivable(p) \subseteq Receivable(p)'
  BY <1>2, Topics DEF Receivable
<1>5. Seq(Sendable(p)) \subseteq Seq(Sendable(p)')
  BY <1>3, SeqMonotone
<1>6. Seq(Receivable(p)) \subseteq Seq(Receivable(p)')
  BY <1>4, SeqMonotone
<1>7. QED
  BY <1>3, <1>4, <1>5, <1>6

LEMMA KindsStay ==
  ASSUME UNCHANGED <<architecture, seen>>,
         counters'["simulator"].published = counters["simulator"].published
  PROVE  \A p \in Process : Sendable(p)' = Sendable(p) /\ Receivable(p)' = Receivable(p)
BY DEF Sendable, Receivable

(* A message the broker takes is one its subscribers may receive.          *)
LEMMA Delivered ==
  ASSUME Typing, Carried, NEW p \in Process, Route(p)
  PROVE  /\ outbox[p] \in Seq(Sendable(p)) /\ outbox[p] # <<>>
         /\ Head(outbox[p]) \in Sendable(p) /\ Head(outbox[p]) \in Message
         /\ \A q \in Subscribers(Head(outbox[p])) :
              q \in Process /\ q \in connected /\ Head(outbox[p]) \in Receivable(q)
         /\ outbox'[p] = Tail(outbox[p])
         /\ \A q \in Process : q # p => outbox'[q] = outbox[q]
         /\ \A q \in Process :
              queue'[q] = IF q \in Subscribers(Head(outbox[p]))
                          THEN Append(queue[q], Head(outbox[p])) ELSE queue[q]
<1> DEFINE m == Head(outbox[p])
<1>1. outbox[p] \in Seq(Sendable(p)) /\ outbox[p] # <<>>
  BY Kinds DEF Route
<1>2. m \in Sendable(p) /\ m \in Message
  BY <1>1, Tails, Kinds
<1>3. ASSUME NEW q \in Subscribers(m)
      PROVE  q \in Process /\ q \in connected /\ m \in Receivable(q)
  <2> HIDE DEF m
  <2>1. q \in connected /\ q \in Process
    BY DEF Subscribers, Typing
  <2>2. m \in Receivable(q)
    BY <1>2, <2>1, Processes DEF Subscribers, Sendable, Receivable
  <2>3. QED
    BY <2>1, <2>2
<1>4. /\ outbox'[p] = Tail(outbox[p])
      /\ \A q \in Process : q # p => outbox'[q] = outbox[q]
  BY DEF Route, Put, Typing
<1>5. \A q \in Process :
        queue'[q] = IF q \in Subscribers(m) THEN Append(queue[q], m) ELSE queue[q]
  BY DEF Route
<1>6. QED
  BY <1>1, <1>2, <1>3, <1>4, <1>5

LEMMA CarriedInit == HarnessInit => Carried
<1> SUFFICES ASSUME HarnessInit PROVE Carried
  OBVIOUS
<1>1. \A p \in Process : outbox[p] = <<>> /\ taken[p] = <<>> /\ queue[p] = <<>>
  BY DEF HarnessInit
<1>2. \A p \in Process : /\ outbox[p] \in Seq(Sendable(p)) /\ taken[p] \in Seq(Sendable(p))
                         /\ queue[p] \in Seq(Receivable(p))
  BY <1>1, Empty
<1>3. responses = {} /\ seen = {} /\ counters["simulator"].published = 0
  BY Processes DEF HarnessInit, NoMessages
<1>4. QED
  BY <1>2, <1>3, Constants DEF Carried

(* What on_message leaves.                                                 *)
LEMMA Consumed ==
  ASSUME Typing, Carried, NEW p \in Process, NEW topics, Incoming(p, topics)
  PROVE  /\ \A q \in Process : queue'[q] \in Seq(Receivable(q))
         /\ Head(queue[p]) \in Receivable(p)
         /\ queue'[p] = Tail(queue[p])
         /\ \A q \in Process : q # p => queue'[q] = queue[q]
<1>1. queue[p] \in Seq(Receivable(p)) /\ queue[p] # <<>>
  BY Kinds, IncomingHead
<1>2. Tail(queue[p]) \in Seq(Receivable(p)) /\ Head(queue[p]) \in Receivable(p)
  BY <1>1, Tails
<1>3. queue' = [queue EXCEPT ![p] = Tail(queue[p])]
  BY IncomingHead
<1>4. queue'[p] = Tail(queue[p]) /\ \A q \in Process : q # p => queue'[q] = queue[q]
  BY <1>3 DEF Typing
<1>5. \A q \in Process : queue[q] \in Seq(Receivable(q))
  BY DEF Carried
<1>6. QED
  BY <1>2, <1>4, <1>5

LEMMA CarriedNext ==
  Typing /\ Typing' /\ Carried /\ Stands /\ [HarnessNext]_harnessVars => Carried'
<1> SUFFICES ASSUME Typing, Typing', Carried, Stands, [HarnessNext]_harnessVars PROVE Carried'
  OBVIOUS
<1> USE Processes
<1> DEFINE Lists == /\ \A q \in Process : outbox'[q] \in Seq(Sendable(q))
                    /\ \A q \in Process : taken'[q] \in Seq(Sendable(q))
                    /\ \A q \in Process : queue'[q] \in Seq(Receivable(q))
<1>0. ASSUME UNCHANGED <<architecture, seen>>, Lists, responses' \subseteq seen,
             counters'["simulator"].published = counters["simulator"].published
      PROVE  Carried'
  <2>1. \A q \in Process : Sendable(q)' = Sendable(q) /\ Receivable(q)' = Receivable(q)
    BY <1>0, KindsStay
  <2>2. \A q \in Process : /\ outbox'[q] \in Seq(Sendable(q)') /\ taken'[q] \in Seq(Sendable(q)')
                           /\ queue'[q] \in Seq(Receivable(q)')
    BY <1>0, <2>1
  <2>3. QED
    BY <1>0, <2>2 DEF Carried
<1>1. ASSUME NEW p \in Process, Connect(p) PROVE Carried'
  <2>1. UNCHANGED <<architecture, outbox, taken, queue, responses, counters, seen>>
    BY <1>1 DEF Connect, record, history
  <2>2. Lists
    BY <2>1, Kinds
  <2>3. QED
    BY <1>0, <2>1, <2>2 DEF Carried
<1>2. ASSUME NEW p \in Process, Route(p) PROVE Carried'
  <2> DEFINE m == Head(outbox[p])
  <2>1. UNCHANGED <<architecture, responses, counters, seen>>
    BY <1>2 DEF Route, record, history
  <2>2. Tail(outbox[p]) \in Seq(Sendable(p)) /\ Append(taken[p], m) \in Seq(Sendable(p))
    BY <1>2, Delivered, Kinds, Tails, Appends
  <2>3. \A q \in Process : taken'[q] = IF q = p THEN Append(taken[p], m) ELSE taken[q]
    BY <1>2 DEF Route, Put, Typing
  <2>4. \A q \in Process : outbox'[q] \in Seq(Sendable(q)) /\ taken'[q] \in Seq(Sendable(q))
    BY <1>2, <2>2, <2>3, Delivered, Kinds, ZenonT(40)
  <2>5. ASSUME NEW q \in Process PROVE queue'[q] \in Seq(Receivable(q))
    <3>1. queue[q] \in Seq(Receivable(q))
      BY Kinds
    <3>2. queue'[q] = IF q \in Subscribers(m) THEN Append(queue[q], m) ELSE queue[q]
      BY <1>2, Delivered
    <3>3. q \in Subscribers(m) => m \in Receivable(q)
      BY <1>2, Delivered
    <3> HIDE DEF m
    <3>4. QED
      BY <3>1, <3>2, <3>3, Appends
  <2>6. QED
    BY <1>0, <2>1, <2>4, <2>5 DEF Carried
<1>3. ASSUME NEW p \in Process, Drop(p) PROVE Carried'
  <2>1. UNCHANGED <<architecture, responses, counters, seen>>
    BY <1>3 DEF Drop, record
  <2>2. PICK n \in 0 .. Len(taken[p]) :
          outbox' = Put(outbox, p, SubSeq(taken[p], n + 1, Len(taken[p])) \o outbox[p])
    BY <1>3 DEF Drop
  <2>3. SubSeq(taken[p], n + 1, Len(taken[p])) \in Seq(Sendable(p))
    BY Kinds, Suffixes
  <2>4. SubSeq(taken[p], n + 1, Len(taken[p])) \o outbox[p] \in Seq(Sendable(p))
    BY <2>3, Kinds, Concats
  <2>5. \A q \in Process : outbox'[q] = IF q = p
          THEN SubSeq(taken[p], n + 1, Len(taken[p])) \o outbox[p] ELSE outbox[q]
    BY <2>2 DEF Put, Typing
  <2>6. \A q \in Process : /\ taken'[q] = IF q = p THEN <<>> ELSE taken[q]
                           /\ queue'[q] = IF q = p THEN <<>> ELSE queue[q]
    BY <1>3 DEF Drop, Put, Typing
  <2>7. Lists
    BY <2>4, <2>5, <2>6, Kinds, Empty
  <2>8. QED
    BY <1>0, <2>1, <2>7 DEF Carried
<1>4. ASSUME NEW p \in Process, OnTelemetry(p) PROVE Carried'
  <2> DEFINE k == Head(queue[p]).sequence
             sent == Reply(p, k)
  <2>1. p \in Controller /\ Incoming(p, {"telemetry"}) /\ UNCHANGED <<architecture, taken, responses>>
    BY <1>4 DEF OnTelemetry
  <2>2. Head(queue[p]) \in Receivable(p) /\ Head(queue[p]).topic = "telemetry"
    BY <2>1, Consumed, IncomingHead
  <2>3. p = architecture /\ k \in Sequence /\ k <= counters["simulator"].published
    BY <2>2, Topics DEF Receivable
  <2>4. outbox' = Put(outbox, p, outbox[p] \o sent) /\ seen' = seen \cup {k}
        /\ \A q \in Process : q # p => counters'[q] = counters[q]
    BY <1>4 DEF OnTelemetry, Put, Typing
  <2>5. counters'["simulator"].published = counters["simulator"].published
        /\ counters["simulator"].published \in Nat
    BY <2>1, <2>4, Counted DEF Typing
  <2>6. \A q \in Process : /\ Sendable(q) \subseteq Sendable(q)'
                           /\ Seq(Sendable(q)) \subseteq Seq(Sendable(q)')
                           /\ Seq(Receivable(q)) \subseteq Seq(Receivable(q)')
    BY <2>1, <2>4, <2>5, KindsGrow
  <2>7. sent \in Seq(Sendable(p)')
    <3>1. sent \in Seq(Message) /\ Len(sent) \in Nat \ {0} /\ DOMAIN sent = 1 .. Len(sent)
      BY <2>1, <2>3, Replies
    <3>2. ASSUME NEW i \in DOMAIN sent PROVE sent[i] \in Sendable(p)'
      <4>1. sent[i] \in Message
        BY <3>1
      <4>2. CASE i < Len(sent)
        <5>1. sent[i].topic = "peer" /\ p = "edge"
          BY <2>1, <2>3, <4>2, Replies
        <5>2. QED
          BY <4>1, <5>1, <2>1, <2>3 DEF Sendable
      <4>3. CASE i = Len(sent)
        <5>1. sent[i].topic = "action" /\ sent[i].sequence = k
          BY <2>1, <2>3, <4>3, Replies
        <5>2. QED
          BY <4>1, <5>1, <2>1, <2>3, <2>4 DEF Sendable
      <4>4. QED
        BY <4>2, <4>3, <3>1
    <3> HIDE DEF sent
    <3>3. sent \in [1 .. Len(sent) -> Sendable(p)']
      BY <3>1, <3>2
    <3>4. QED
      BY <3>1, <3>3
  <2> HIDE DEF sent, k
  <2>8. outbox[p] \in Seq(Sendable(p)')
    BY <2>6, Kinds
  <2>9. outbox[p] \o sent \in Seq(Sendable(p)')
    BY <2>7, <2>8, Concats
  <2>10. \A q \in Process : outbox'[q] = IF q = p THEN outbox[p] \o sent ELSE outbox[q]
    BY <2>4 DEF Put, Typing
  <2>11. \A q \in Process : outbox'[q] \in Seq(Sendable(q)')
    BY <2>6, <2>9, <2>10, Kinds
  <2>12. \A q \in Process : taken'[q] \in Seq(Sendable(q)') /\ queue'[q] \in Seq(Receivable(q)')
    BY <2>1, <2>6, Kinds, Consumed
  <2>13. k \in 1 .. counters["simulator"].published
    BY <2>3, <2>5, Constants DEF Sequence
  <2>14. seen' \subseteq 1 .. counters'["simulator"].published
    BY <2>4, <2>5, <2>13 DEF Carried
  <2>15. responses' \subseteq seen' /\ counters'["simulator"].published <= Messages
    BY <2>1, <2>4, <2>5 DEF Carried
  <2>16. QED
    BY <2>11, <2>12, <2>14, <2>15 DEF Carried
<1>5. ASSUME NEW p \in Process, OnStop(p) PROVE Carried'
  <2>1. Incoming(p, {"stop"}) /\ UNCHANGED <<architecture, outbox, taken, responses, counters, seen>>
    BY <1>5 DEF OnStop, record, history
  <2>2. Lists
    BY <2>1, Consumed, Kinds
  <2>3. QED
    BY <1>0, <2>1, <2>2 DEF Carried
<1>6. ASSUME NEW p \in Process, Leaves(p), UNCHANGED <<architecture, responses, counters, seen>>
      PROVE Carried'
  <2>1. \A q \in Process : /\ outbox'[q] = IF q = p THEN <<>> ELSE outbox[q]
                           /\ taken'[q] = IF q = p THEN <<>> ELSE taken[q]
                           /\ queue'[q] = IF q = p THEN <<>> ELSE queue[q]
    BY <1>6 DEF Leaves, Put, Typing
  <2>2. Lists
    BY <2>1, Kinds, Empty
  <2>3. QED
    BY <1>0, <1>6, <2>2 DEF Carried
<1>7. CASE OnAction
  <2>1. /\ Incoming("simulator", {"action"}) /\ UNCHANGED <<architecture, outbox, taken, seen>>
        /\ responses' = responses \cup {Head(queue["simulator"]).sequence}
        /\ counters' = [counters EXCEPT !["simulator"].received = @ + 1]
    BY <1>7 DEF OnAction
  <2>2. Head(queue["simulator"]) \in Receivable("simulator")
        /\ Head(queue["simulator"]).topic = "action"
    BY <2>1, Consumed, IncomingHead
  <2>3. Head(queue["simulator"]).sequence \in seen
    BY <2>2 DEF Receivable
  <2>4. counters'["simulator"].published = counters["simulator"].published
    BY <2>1 DEF Typing, Counters
  <2>5. Lists
    BY <2>1, Consumed, Kinds
  <2>6. QED
    BY <1>0, <2>1, <2>3, <2>4, <2>5 DEF Carried
<1>8. CASE OnPeer
  <2>1. /\ Incoming("edge", {"peer"}) /\ UNCHANGED <<architecture, outbox, taken, responses, seen>>
        /\ counters' = [counters EXCEPT !["edge"].peer_received = @ + 1]
    BY <1>8 DEF OnPeer, history
  <2>2. counters'["simulator"] = counters["simulator"]
    BY <2>1 DEF Typing
  <2>3. Lists
    BY <2>1, Consumed, Kinds
  <2>4. QED
    BY <1>0, <2>1, <2>2, <2>3 DEF Carried
<1>9. CASE Publish
  <2> DEFINE k == counters["simulator"].published + 1
             m == [topic |-> "telemetry", sequence |-> k]
  <2>1. /\ at["simulator"] = "publishing" /\ UNCHANGED <<architecture, taken, queue, responses, seen>>
        /\ counters' = [counters EXCEPT !["simulator"].published = k]
        /\ outbox' = Put(outbox, "simulator", Append(outbox["simulator"], m))
    BY <1>9 DEF Publish, history
  <2>2. counters["simulator"].published \in Nat /\ k \in Nat /\ k <= Messages /\ k \in Sequence
    BY <2>1, Counted, Constants, SMTT(30) DEF Typing, Stands, Sequence
  <2>3. counters'["simulator"].published = k
    BY <2>1 DEF Typing, Counters
  <2>4. \A q \in Process : /\ Sendable(q) \subseteq Sendable(q)'
                           /\ Seq(Sendable(q)) \subseteq Seq(Sendable(q)')
                           /\ Seq(Receivable(q)) \subseteq Seq(Receivable(q)')
    BY <2>1, <2>2, <2>3, KindsGrow
  <2>5. m \in Sendable("simulator")'
    BY <2>2, <2>3 DEF Sendable, Message
  <2> HIDE DEF m
  <2>6. \A q \in Process : outbox'[q] = IF q = "simulator" THEN Append(outbox[q], m) ELSE outbox[q]
    BY <2>1 DEF Put, Typing
  <2>7. outbox["simulator"] \in Seq(Sendable("simulator")')
    BY <2>4, Kinds
  <2>8. Append(outbox["simulator"], m) \in Seq(Sendable("simulator")')
    BY <2>5, <2>7, Appends
  <2>9. \A q \in Process : outbox'[q] \in Seq(Sendable(q)')
    BY <2>4, <2>6, <2>8, Kinds
  <2>10. \A q \in Process : taken'[q] \in Seq(Sendable(q)') /\ queue'[q] \in Seq(Receivable(q)')
    BY <2>1, <2>4, Kinds
  <2>11. QED
    BY <2>1, <2>2, <2>3, <2>9, <2>10 DEF Carried
<1>10. CASE PublishStop
  <2> DEFINE m == [topic |-> "stop", sequence |-> 0]
  <2>1. /\ UNCHANGED <<architecture, taken, queue, responses, counters, seen>>
        /\ outbox' = Put(outbox, "simulator", Append(outbox["simulator"], m))
    BY <1>10 DEF PublishStop, record
  <2>2. m \in Sendable("simulator")
    BY DEF Sendable, Message
  <2> HIDE DEF m
  <2>3. \A q \in Process : outbox'[q] = IF q = "simulator" THEN Append(outbox[q], m) ELSE outbox[q]
    BY <2>1 DEF Put, Typing
  <2>4. Append(outbox["simulator"], m) \in Seq(Sendable("simulator"))
    BY <2>2, Kinds, Appends
  <2>5. Lists
    BY <2>1, <2>3, <2>4, Kinds
  <2>6. QED
    BY <1>0, <2>1, <2>5 DEF Carried
<1>11. CASE UNCHANGED harnessVars
  <2>1. UNCHANGED <<architecture, outbox, taken, queue, responses, counters, seen>>
    BY <1>11 DEF harnessVars, network, record, history
  <2>2. Lists
    BY <2>1, Kinds
  <2>3. QED
    BY <1>0, <2>1, <2>2 DEF Carried
<1>12. ASSUME NEW p \in Process, Fails(p) PROVE Carried'
  BY <1>6, <1>12 DEF Fails, record, history
<1>13. ASSUME NEW p \in Process, End(p) PROVE Carried'
  BY <1>6, <1>13 DEF End, history
<1>14. QED
  BY <1>1, <1>2, <1>3, <1>4, <1>5, <1>7, <1>8, <1>9, <1>10, <1>11, <1>12, <1>13
     DEF HarnessNext, NotReady, GiveUp, PublishFails

(* The type invariant is what the first three say of the state.            *)
LEMMA TypedState ==
  Typing /\ Carried /\ Stands => HarnessTypeOK
<1> SUFFICES ASSUME Typing, Carried, Stands PROVE HarnessTypeOK
  OBVIOUS
<1>1. \A p \in Process :
        /\ \A i \in DOMAIN outbox[p] : outbox[p][i] \in Message
        /\ \A i \in DOMAIN taken[p] : taken[p][i] \in Message
        /\ \A i \in DOMAIN queue[p] : queue[p][i] \in Message
  BY DEF Typing
<1>2. \A p \in Process : result[p] \in {None, counters[p]}
  BY DEF Stands
<1>3. QED
  BY <1>1, <1>2 DEF Typing, Carried, Stands, HarnessTypeOK, Place

LEMMA Carries == HarnessSpec => [](Typing /\ Carried /\ Stands)
<1>1. HarnessInit => Typing /\ Carried /\ Stands
  BY TypingInit, CarriedInit, StandsInit
<1>2. Typing /\ Carried /\ Stands /\ [HarnessNext]_harnessVars =>
        Typing' /\ Carried' /\ Stands'
  BY TypingNext, CarriedNext, StandsNext
<1>3. QED
  BY <1>1, <1>2, PTL DEF HarnessSpec

(* The harness is well-typed, keeps nothing for a client the broker does   *)
(* not know, and has no answer to what no controller saw.                  *)
THEOREM HarnessTypeCorrect == HarnessSpec => []HarnessTypeOK
BY Carries, TypedState, PTL

-----------------------------------------------------------------------------
(* Counters and what arrived. *)

LEMMA OneMore ==
  ASSUME NEW S, S \subseteq Sequence, NEW k \in Sequence
  PROVE  /\ Cardinality(S) \in Nat /\ Cardinality(S \cup {k}) \in Nat
         /\ Cardinality(S \cup {k}) = IF k \in S THEN Cardinality(S) ELSE Cardinality(S) + 1
<1>1. IsFiniteSet(S) /\ Cardinality(S) \in Nat
  BY AllAnswers
<1>2. Cardinality(S \cup {k}) = IF k \in S THEN Cardinality(S) ELSE Cardinality(S) + 1
  BY <1>1, FS_AddElement
<1>3. QED
  BY <1>1, <1>2

LEMMA TalliedInit == HarnessInit => Tallied
<1> SUFFICES ASSUME HarnessInit PROVE Tallied
  OBVIOUS
<1>1. \A p \in Process : counters[p].received = 0 /\ counters[p].action_published = 0
  BY DEF HarnessInit, NoMessages
<1>2. Cardinality({}) = 0
  BY FS_EmptySet
<1>3. architecture \in Process /\ "simulator" \in Process
  BY Processes DEF HarnessInit
<1>4. QED
  BY <1>1, <1>2, <1>3 DEF HarnessInit, Tallied

LEMMA TalliedNext ==
  Typing /\ Carried /\ Tallied /\ [HarnessNext]_harnessVars => Tallied'
<1> SUFFICES ASSUME Typing, Carried, Tallied, [HarnessNext]_harnessVars PROVE Tallied'
  OBVIOUS
<1> USE Processes
<1>0. architecture \in Process /\ architecture # "simulator"
      /\ counters[architecture] \in Counters /\ counters["simulator"] \in Counters
  BY DEF Typing
<1>1. ASSUME UNCHANGED <<architecture, counters, responses, seen, twice>> PROVE Tallied'
  BY <1>1 DEF Tallied
<1>2. ASSUME NEW p \in Process, OnTelemetry(p) PROVE Tallied'
  <2> DEFINE k == Head(queue[p]).sequence
             sent == Reply(p, k)
  <2>1. p \in Controller /\ Incoming(p, {"telemetry"}) /\ UNCHANGED <<architecture, responses>>
    BY <1>2 DEF OnTelemetry
  <2>2. Head(queue[p]) \in Receivable(p) /\ Head(queue[p]).topic = "telemetry"
    BY <2>1, Consumed, IncomingHead
  <2>3. p = architecture /\ k \in Sequence
    BY <2>2, Topics DEF Receivable
  <2>4. /\ counters' = Put(counters, p,
             [counters[p] EXCEPT !.received = @ + 1, !.published = @ + Len(sent),
                !.action_published = @ + 1, !.peer_published = @ + Len(sent) - 1])
        /\ seen' = seen \cup {k} /\ twice' = (twice \/ k \in seen)
    BY <1>2 DEF OnTelemetry
  <2> HIDE DEF sent
  <2>5. counters'[p] = [counters[p] EXCEPT !.received = counters[p].received + 1,
                          !.published = counters[p].published + Len(sent),
                          !.action_published = counters[p].action_published + 1,
                          !.peer_published = counters[p].peer_published + Len(sent) - 1]
        /\ counters'["simulator"] = counters["simulator"]
    BY <2>1, <2>4 DEF Put, Typing
  <2>6. counters'[p].received = counters[p].received + 1
        /\ counters'[p].action_published = counters[p].action_published + 1
    BY <2>3, <2>5, <1>0 DEF Counters
  <2>7. /\ Cardinality(seen) \in Nat
        /\ Cardinality(seen') = IF k \in seen THEN Cardinality(seen) ELSE Cardinality(seen) + 1
    BY <2>3, <2>4, OneMore DEF Typing
  <2>8. counters[p].received \in Nat /\ counters[p].action_published \in Nat
    BY <1>0, <2>3, Counted
  <2>9. Cardinality(responses) \in Nat /\ counters["simulator"].received \in Nat
    BY <1>0, Counted, AllAnswers DEF Typing
  <2> HIDE DEF k
  <2>10. /\ counters'[architecture'].received = counters[architecture].received + 1
         /\ counters'[architecture'].action_published = counters[architecture].action_published + 1
         /\ counters'["simulator"].received = counters["simulator"].received
         /\ Cardinality(responses') = Cardinality(responses)
         /\ twice \in BOOLEAN
    BY <2>1, <2>3, <2>5, <2>6 DEF Typing
  <2>11. CASE k \in seen
    <3>1. twice' /\ Cardinality(seen') = Cardinality(seen)
      BY <2>4, <2>7, <2>11
    <3>2. QED
      BY <3>1, <2>3, <2>7, <2>8, <2>9, <2>10 DEF Tallied
  <2>12. CASE k \notin seen
    <3>1. twice' = twice /\ Cardinality(seen') = Cardinality(seen) + 1
      BY <2>4, <2>7, <2>10, <2>12
    <3>2. QED
      BY <3>1, <2>3, <2>7, <2>8, <2>9, <2>10 DEF Tallied
  <2>13. QED
    BY <2>11, <2>12
<1>3. CASE OnAction
  <2> DEFINE k == Head(queue["simulator"]).sequence
  <2>1. /\ Incoming("simulator", {"action"}) /\ UNCHANGED <<architecture, seen>>
        /\ responses' = responses \cup {k} /\ twice' = (twice \/ k \in responses)
        /\ counters' = [counters EXCEPT !["simulator"].received = @ + 1]
    BY <1>3 DEF OnAction
  <2>2. k \in Sequence
    BY <2>1, IncomingHead, Topics
  <2>3. counters'["simulator"].received = counters["simulator"].received + 1
        /\ counters'[architecture] = counters[architecture]
    BY <2>1, <1>0 DEF Typing, Counters
  <2>4. /\ Cardinality(responses) \in Nat
        /\ Cardinality(responses') =
             IF k \in responses THEN Cardinality(responses) ELSE Cardinality(responses) + 1
    BY <2>1, <2>2, OneMore DEF Typing
  <2>5. Cardinality(seen) \in Nat /\ counters["simulator"].received \in Nat
        /\ counters[architecture].received \in Nat
    BY <1>0, Counted, AllAnswers DEF Typing
  <2> HIDE DEF k
  <2>6. /\ counters'[architecture'].received = counters[architecture].received
        /\ counters'[architecture'].action_published = counters[architecture].action_published
        /\ Cardinality(seen') = Cardinality(seen)
        /\ twice \in BOOLEAN
    BY <2>1, <2>3 DEF Typing
  <2>7. CASE k \in responses
    <3>1. twice' /\ Cardinality(responses') = Cardinality(responses)
      BY <2>1, <2>4, <2>7
    <3>2. QED
      BY <3>1, <2>3, <2>4, <2>5, <2>6 DEF Tallied
  <2>8. CASE k \notin responses
    <3>1. twice' = twice /\ Cardinality(responses') = Cardinality(responses) + 1
      BY <2>1, <2>4, <2>6, <2>8
    <3>2. QED
      BY <3>1, <2>3, <2>4, <2>5, <2>6 DEF Tallied
  <2>9. QED
    BY <2>7, <2>8
<1>4. CASE OnPeer
  <2>1. /\ UNCHANGED <<architecture, responses, seen, twice>>
        /\ counters' = [counters EXCEPT !["edge"].peer_received = @ + 1]
    BY <1>4 DEF OnPeer, history
  <2>2. /\ counters'["simulator"] = counters["simulator"]
        /\ counters'[architecture].received = counters[architecture].received
        /\ counters'[architecture].action_published = counters[architecture].action_published
    BY <2>1, <1>0 DEF Typing, Counters
  <2>3. QED
    BY <2>1, <2>2 DEF Tallied
<1>5. CASE Publish
  <2>1. /\ UNCHANGED <<architecture, responses, seen, twice>>
        /\ counters' = [counters EXCEPT !["simulator"].published = counters["simulator"].published + 1]
    BY <1>5 DEF Publish, history
  <2>2. /\ counters'["simulator"].received = counters["simulator"].received
        /\ counters'[architecture] = counters[architecture]
    BY <2>1, <1>0 DEF Typing, Counters
  <2>3. QED
    BY <2>1, <2>2 DEF Tallied
<1>6. CASE UNCHANGED harnessVars
  BY <1>1, <1>6 DEF harnessVars, record, history
<1>7. ASSUME NEW p \in Process,
             \/ Connect(p) \/ Route(p) \/ Drop(p) \/ OnStop(p) \/ Fails(p) \/ End(p)
      PROVE  Tallied'
  BY <1>1, <1>7 DEF Connect, Route, Drop, OnStop, Fails, End, record, history
<1>8. CASE PublishStop
  BY <1>1, <1>8 DEF PublishStop, record
<1>9. QED
  BY <1>2, <1>3, <1>4, <1>5, <1>6, <1>7, <1>8
     DEF HarnessNext, NotReady, GiveUp, PublishFails

(* The argument of the reconciliation: with all answers, the sets of what  *)
(* arrived are full, and counters that match leave no room for a surplus.  *)
LEMMA Reconciled ==
  Typing /\ Carried /\ Stands /\ Tallied => ReconciledIsExact
<1> SUFFICES ASSUME Typing, Carried, Stands, Tallied,
                    at["simulator"] = "ended", Reconciles
             PROVE  ~twice
  BY DEF ReconciledIsExact
<1> USE Processes
<1>1. \A p \in Process : result[p] = counters[p]
  BY DEF Reconciles, Stands
<1>2. architecture \in Process /\ counters[architecture] \in Counters
      /\ counters["simulator"] \in Counters
  BY DEF Typing
<1>3. /\ counters["simulator"].published = counters[architecture].received
      /\ counters["simulator"].received = counters[architecture].action_published
  BY <1>1, <1>2 DEF Reconciles
<1>4. responses = Sequence /\ seen = Sequence
  BY DEF Stands, Carried, Typing
<1>5. Cardinality(Sequence) = Messages
  BY AllAnswers
<1>6. counters["simulator"].published <= Messages
  BY DEF Carried
<1>7. /\ counters[architecture].received \in Nat /\ counters["simulator"].received \in Nat
      /\ counters["simulator"].published \in Nat
  BY <1>2, Counted
<1>8. QED
  BY <1>3, <1>4, <1>5, <1>6, <1>7, Constants DEF Tallied

LEMMA Tallies == HarnessSpec => []Tallied
<1>1. Typing /\ Carried /\ Stands /\ Tallied /\ [HarnessNext]_harnessVars => Tallied'
  BY TalliedNext
<1>2. QED
  BY <1>1, TalliedInit, Carries, PTL DEF HarnessSpec

(* When the simulator has ended well and the files reconcile, no telemetry *)
(* and no action was delivered twice, whatever connections broke: for      *)
(* these a duplicate and a loss cannot make up for each other.             *)
THEOREM ReconciledRunsAreExact == HarnessSpec => []ReconciledIsExact
BY Carries, Tallies, Reconciled, PTL

-----------------------------------------------------------------------------
(* Order, while no connection has broken. *)

LEMMA NoValues == ASSUME NEW topic PROVE Values(<<>>, topic) = {} /\ Rising(<<>>, topic)
BY DEF Values, Rising

LEMMA OrderedCleared ==
  ASSUME NEW done, NEW q, NEW s, NEW topic, Ordered(done, q, s, topic),
         NEW r \in {q, <<>>}, NEW t \in {s, <<>>}
  PROVE  Ordered(done, r, t, topic)
BY NoValues DEF Ordered, Below

LEMMA OrderedRouted ==
  ASSUME NEW done, NEW q \in Seq(Message), NEW s \in Seq(Message), s # <<>>, NEW topic,
         Ordered(done, q, s, topic)
  PROVE  /\ Ordered(done, q, Tail(s), topic)
         /\ Ordered(done, Append(q, Head(s)), Tail(s), topic)
<1> DEFINE m == Head(s)
           a == Append(q, m)
<1>1. m \in Message /\ Tail(s) \in Seq(Message)
  BY Tails
<1>2. /\ Rising(Tail(s), topic) /\ Values(Tail(s), topic) \subseteq Values(s, topic)
      /\ m.topic = topic => m.sequence \in Values(s, topic)
                              /\ Below({m.sequence}, Values(Tail(s), topic))
  BY RisingTail DEF Ordered
<1>3. Ordered(done, q, Tail(s), topic)
  BY <1>2 DEF Ordered, Below
<1>4. m.topic = topic => Below(Values(q, topic), {m.sequence})
  BY <1>2 DEF Ordered, Below
<1> HIDE DEF m
<1>5. /\ Rising(a, topic) /\ Values(a, topic) \subseteq Values(q, topic) \cup {m.sequence}
      /\ m.topic # topic => Values(a, topic) = Values(q, topic)
  BY <1>1, <1>4, RisingAppend DEF Ordered
<1> HIDE DEF a
<1>6. Ordered(done, a, Tail(s), topic)
  BY <1>2, <1>3, <1>5 DEF Ordered, Below
<1>7. QED
  BY <1>3, <1>6 DEF a, m

LEMMA OrderedOther ==
  ASSUME NEW done, NEW q \in Seq(Message), NEW s, NEW topic, NEW m \in Message,
         m.topic # topic, Ordered(done, q, s, topic)
  PROVE  Ordered(done, Append(q, m), s, topic)
<1>1. Rising(Append(q, m), topic) /\ Values(Append(q, m), topic) = Values(q, topic)
  BY RisingAppend DEF Ordered
<1>2. QED
  BY <1>1 DEF Ordered

LEMMA OrderedTaken ==
  ASSUME NEW done, NEW q \in Seq(Message), q # <<>>, NEW s, NEW topic,
         Ordered(done, q, s, topic)
  PROVE  /\ Ordered(done, Tail(q), s, topic)
         /\ Head(q).topic = topic =>
              /\ Ordered(done \cup {Head(q).sequence}, Tail(q), s, topic)
              /\ Below(done, {Head(q).sequence})
<1> DEFINE m == Head(q)
<1>1. /\ Rising(Tail(q), topic) /\ Values(Tail(q), topic) \subseteq Values(q, topic)
      /\ m.topic = topic => m.sequence \in Values(q, topic)
                              /\ Below({m.sequence}, Values(Tail(q), topic))
  BY RisingTail DEF Ordered
<1> HIDE DEF m
<1>2. Ordered(done, Tail(q), s, topic)
  BY <1>1 DEF Ordered, Below
<1>3. ASSUME m.topic = topic
      PROVE  Ordered(done \cup {m.sequence}, Tail(q), s, topic) /\ Below(done, {m.sequence})
  BY <1>1, <1>2, <1>3 DEF Ordered, Below
<1>4. QED
  BY <1>2, <1>3 DEF m

LEMMA OrderedSent ==
  ASSUME NEW done, NEW q, NEW s \in Seq(Message), NEW t \in Seq(Message), NEW topic,
         Ordered(done, q, s, topic), Rising(t, topic), NEW k,
         Values(t, topic) \subseteq {k},
         Below(done, {k}), Below(Values(q, topic), {k}), Below(Values(s, topic), {k})
  PROVE  Ordered(done, q, s \o t, topic)
<1>1. Below(Values(s, topic), Values(t, topic))
  BY DEF Below
<1>2. Rising(s \o t, topic) /\ Values(s \o t, topic) \subseteq Values(s, topic) \cup Values(t, topic)
  BY <1>1, RisingConcat DEF Ordered
<1>3. QED
  BY <1>2 DEF Ordered, Below

LEMMA OrderedAppended ==
  ASSUME NEW done, NEW q, NEW s \in Seq(Message), NEW m \in Message, NEW topic,
         Ordered(done, q, s, topic),
         m.topic = topic => /\ Below(done, {m.sequence})
                            /\ Below(Values(q, topic), {m.sequence})
                            /\ Below(Values(s, topic), {m.sequence})
  PROVE  Ordered(done, q, Append(s, m), topic)
<1>1. /\ Rising(Append(s, m), topic)
      /\ Values(Append(s, m), topic) \subseteq Values(s, topic) \cup {m.sequence}
      /\ m.topic # topic => Values(Append(s, m), topic) = Values(s, topic)
  BY RisingAppend DEF Ordered
<1>2. QED
  BY <1>1 DEF Ordered, Below

(* What lists may hold, said of the sequences in them.                     *)
LEMMA ValuesKnown ==
  ASSUME Typing, Carried
  PROVE  /\ Values(queue[architecture], "telemetry") \subseteq 1 .. counters["simulator"].published
         /\ Values(outbox["simulator"], "telemetry") \subseteq 1 .. counters["simulator"].published
         /\ Values(queue["simulator"], "action") \subseteq seen
         /\ Values(outbox[architecture], "action") \subseteq seen
         /\ seen \subseteq Int
<1> USE Processes
<1>1. architecture \in Process /\ counters["simulator"].published \in Nat
  BY Counted DEF Typing
<1>2. ASSUME NEW p \in Process, NEW i \in DOMAIN queue[p]
      PROVE  queue[p][i] \in Receivable(p) /\ queue[p][i] \in Message
  BY Kinds
<1>3. ASSUME NEW p \in Process, NEW i \in DOMAIN outbox[p]
      PROVE  outbox[p][i] \in Sendable(p) /\ outbox[p][i] \in Message
  BY Kinds
<1>4. Values(queue[architecture], "telemetry") \subseteq 1 .. counters["simulator"].published
  BY <1>1, <1>2, Topics, Constants DEF Values, Receivable, Sequence
<1>5. Values(outbox["simulator"], "telemetry") \subseteq 1 .. counters["simulator"].published
  BY <1>1, <1>3, Topics, Constants DEF Values, Sendable, Sequence
<1>6. Values(queue["simulator"], "action") \subseteq seen
  BY <1>1, <1>2 DEF Values, Receivable
<1>7. Values(outbox[architecture], "action") \subseteq seen
  BY <1>1, <1>3 DEF Values, Sendable
<1>8. QED
  BY <1>4, <1>5, <1>6, <1>7, Constants DEF Typing, Sequence

LEMMA InOrderInit == HarnessInit => InOrder
<1> SUFFICES ASSUME HarnessInit PROVE InOrder
  OBVIOUS
<1>1. \A p \in Process : outbox[p] = <<>> /\ queue[p] = <<>>
  BY DEF HarnessInit
<1>2. architecture \in Process /\ "simulator" \in Process
  BY Processes DEF HarnessInit
<1>3. seen = {} /\ responses = {} /\ ~twice
  BY DEF HarnessInit
<1>4. QED
  BY <1>1, <1>2, <1>3, NoValues DEF InOrder, Ordered, Below

LEMMA InOrderNext ==
  Typing /\ Carried /\ Stands /\ InOrder /\ [HarnessNext]_harnessVars => InOrder'
<1> SUFFICES ASSUME Typing, Carried, Stands, InOrder, [HarnessNext]_harnessVars, drops' = 0
             PROVE  /\ Ordered(seen', queue'[architecture'], outbox'["simulator"], "telemetry")
                    /\ Ordered(responses', queue'["simulator"], outbox'[architecture'], "action")
                    /\ ~twice'
  BY DEF InOrder
<1> DEFINE TelemetryOrdered ==
             Ordered(seen', queue'[architecture'], outbox'["simulator"], "telemetry")
           ActionsOrdered ==
             Ordered(responses', queue'["simulator"], outbox'[architecture'], "action")
           Goal == TelemetryOrdered /\ ActionsOrdered /\ ~twice'
<1> USE Processes
<1>0. architecture \in Process /\ architecture # "simulator" /\ architecture \in Controller
      /\ \A p \in Process : outbox[p] \in Seq(Message) /\ queue[p] \in Seq(Message)
  BY DEF Typing
<1>1. ASSUME drops = 0
      PROVE  /\ Ordered(seen, queue[architecture], outbox["simulator"], "telemetry")
             /\ Ordered(responses, queue["simulator"], outbox[architecture], "action")
             /\ ~twice
  BY <1>1 DEF InOrder
<1>2. ASSUME UNCHANGED <<architecture, seen, responses, twice, drops>>,
             \A q \in Process : queue'[q] \in {queue[q], <<>>} /\ outbox'[q] \in {outbox[q], <<>>}
      PROVE  Goal
  <2>1. drops = 0
    BY <1>2
  <2>2. TelemetryOrdered /\ ActionsOrdered
    BY <1>0, <1>1, <1>2, <2>1, OrderedCleared
  <2>3. QED
    BY <1>1, <1>2, <2>1, <2>2
<1>3. ASSUME NEW p \in Process, Connect(p) PROVE Goal
  BY <1>2, <1>3 DEF Connect, record, history
<1>4. ASSUME NEW p \in Process, Route(p) PROVE Goal
  <2> DEFINE m == Head(outbox[p])
  <2>1. UNCHANGED <<architecture, responses, seen, drops, twice>> /\ drops = 0
    BY <1>4 DEF Route, record, history
  <2>2. /\ outbox[p] # <<>> /\ m \in Sendable(p) /\ m \in Message
        /\ outbox'[p] = Tail(outbox[p])
        /\ \A q \in Process : q # p => outbox'[q] = outbox[q]
        /\ \A q \in Process : queue'[q] = queue[q] \/ queue'[q] = Append(queue[q], m)
    BY <1>4, Delivered, ZenonT(60)
  <2>3. CASE p = "simulator"
    <3>1. TelemetryOrdered
      <4>1. /\ Ordered(seen, queue[architecture], Tail(outbox["simulator"]), "telemetry")
            /\ Ordered(seen, Append(queue[architecture], m), Tail(outbox["simulator"]), "telemetry")
        BY <1>0, <1>1, <2>1, <2>2, <2>3, OrderedRouted
      <4> HIDE DEF m
      <4>2. QED
        BY <1>0, <2>1, <2>2, <2>3, <4>1
    <3>2. m.topic # "action"
      BY <2>2, <2>3, <1>0 DEF Sendable
    <3> HIDE DEF m
    <3>3. ActionsOrdered
      <4>1. /\ Ordered(responses, queue["simulator"], outbox[architecture], "action")
            /\ Ordered(responses, Append(queue["simulator"], m), outbox[architecture], "action")
        BY <1>0, <1>1, <2>1, <2>2, <3>2, OrderedOther
      <4>2. QED
        BY <1>0, <2>1, <2>2, <2>3, <4>1
    <3>4. QED
      BY <1>1, <2>1, <3>1, <3>3
  <2>4. CASE p # "simulator"
    <3>1. p = architecture /\ m.topic # "telemetry"
      BY <2>2, <2>4 DEF Sendable
    <3>2. ActionsOrdered
      <4>1. /\ Ordered(responses, queue["simulator"], Tail(outbox[architecture]), "action")
            /\ Ordered(responses, Append(queue["simulator"], m), Tail(outbox[architecture]), "action")
        BY <1>0, <1>1, <2>1, <2>2, <3>1, OrderedRouted
      <4> HIDE DEF m
      <4>2. QED
        BY <1>0, <2>1, <2>2, <3>1, <4>1
    <3> HIDE DEF m
    <3>3. TelemetryOrdered
      <4>1. /\ Ordered(seen, queue[architecture], outbox["simulator"], "telemetry")
            /\ Ordered(seen, Append(queue[architecture], m), outbox["simulator"], "telemetry")
        BY <1>0, <1>1, <2>1, <2>2, <3>1, OrderedOther
      <4>2. QED
        BY <1>0, <2>1, <2>2, <3>1, <2>4, <4>1
    <3>4. QED
      BY <1>1, <2>1, <3>2, <3>3
  <2>5. QED
    BY <2>3, <2>4
<1>5. ASSUME NEW p \in Process, Drop(p) PROVE FALSE
  BY <1>5 DEF Drop, Typing
<1>6. ASSUME NEW p \in Process, OnTelemetry(p) PROVE Goal
  <2> DEFINE k == Head(queue[p]).sequence
             sent == Reply(p, k)
  <2>1. /\ p \in Controller /\ Incoming(p, {"telemetry"})
        /\ UNCHANGED <<architecture, responses, drops>> /\ drops = 0
        /\ outbox' = Put(outbox, p, outbox[p] \o sent)
        /\ seen' = seen \cup {k} /\ twice' = (twice \/ k \in seen)
    BY <1>6 DEF OnTelemetry
  <2>2. Head(queue[p]) \in Receivable(p) /\ Head(queue[p]).topic = "telemetry"
        /\ queue[p] # <<>>
    BY <2>1, Consumed, IncomingHead
  <2>3. p = architecture /\ k \in Sequence /\ k \in Int
    BY <2>2, Topics DEF Receivable
  <2>4. /\ queue'[p] = Tail(queue[p])
        /\ \A q \in Process : q # p => queue'[q] = queue[q]
    BY <2>1, Consumed
  <2>5. outbox'[p] = outbox[p] \o sent /\ \A q \in Process : q # p => outbox'[q] = outbox[q]
    BY <2>1 DEF Put, Typing
  <2>6. /\ Ordered(seen \cup {k}, Tail(queue[p]), outbox["simulator"], "telemetry")
        /\ Below(seen, {k})
    BY <1>0, <1>1, <2>1, <2>2, <2>3, OrderedTaken
  <2>7. TelemetryOrdered
    BY <1>0, <2>1, <2>3, <2>4, <2>5, <2>6
  <2>8. sent \in Seq(Message) /\ Rising(sent, "action") /\ Values(sent, "action") \subseteq {k}
    <3>1. /\ sent \in Seq(Message) /\ Len(sent) \in Nat /\ DOMAIN sent = 1 .. Len(sent)
          /\ sent[Len(sent)].sequence = k
          /\ \A i \in DOMAIN sent : i < Len(sent) => sent[i].topic = "peer"
      BY <2>1, <2>3, Replies
    <3> HIDE DEF sent
    <3>2. \A i \in DOMAIN sent : sent[i].topic = "action" => i = Len(sent)
      BY <3>1
    <3>3. Rising(sent, "action")
      BY <3>1, <3>2 DEF Rising
    <3>4. Values(sent, "action") \subseteq {k}
      BY <3>1, <3>2 DEF Values
    <3>5. QED
      BY <3>1, <3>3, <3>4
  <2>9. /\ Below(responses, {k}) /\ Below(Values(queue["simulator"], "action"), {k})
        /\ Below(Values(outbox[architecture], "action"), {k})
    BY <2>6, ValuesKnown DEF Below, Carried
  <2> HIDE DEF sent, k
  <2>10. Ordered(responses, queue["simulator"], outbox[architecture] \o sent, "action")
    BY <1>0, <1>1, <2>1, <2>8, <2>9, OrderedSent
  <2>11. ActionsOrdered
    BY <1>0, <2>1, <2>3, <2>4, <2>5, <2>10
  <2>12. k \notin seen
    BY <2>3, <2>6 DEF Below
  <2>13. QED
    BY <1>1, <2>1, <2>7, <2>11, <2>12
<1>7. ASSUME NEW p \in Process, NEW topics, Incoming(p, topics), p \in Controller,
             Head(queue[p]).topic # "telemetry", UNCHANGED <<architecture, outbox, seen, responses, twice, drops>>
      PROVE  Goal
  <2>1. /\ queue[p] # <<>> /\ queue'[p] = Tail(queue[p])
        /\ \A q \in Process : q # p => queue'[q] = queue[q]
    BY <1>7, Consumed, IncomingHead
  <2>2. drops = 0
    BY <1>7
  <2>3. TelemetryOrdered
    <3>1. Ordered(seen, queue[architecture], outbox["simulator"], "telemetry")
      BY <1>1, <2>2
    <3>2. CASE p = architecture
      <4>1. Ordered(seen, Tail(queue[architecture]), outbox["simulator"], "telemetry")
        BY <1>0, <2>1, <3>1, <3>2, OrderedTaken
      <4>2. QED
        BY <1>7, <2>1, <3>2, <4>1
    <3>3. CASE p # architecture
      BY <1>0, <1>7, <2>1, <3>1, <3>3
    <3>4. QED
      BY <3>2, <3>3
  <2>4. ActionsOrdered
    BY <1>1, <1>7, <2>1, <2>2
  <2>5. QED
    BY <1>1, <1>7, <2>2, <2>3, <2>4
<1>8. ASSUME NEW p \in Process, OnStop(p) PROVE Goal
  <2>1. /\ p \in Controller /\ Incoming(p, {"stop"})
        /\ UNCHANGED <<architecture, outbox, seen, responses, twice, drops>>
    BY <1>8 DEF OnStop, record, history
  <2>2. Head(queue[p]).topic # "telemetry"
    BY <2>1, IncomingHead
  <2>3. QED
    BY <1>7, <2>1, <2>2
<1>9. CASE OnPeer
  <2>1. /\ "edge" \in Controller /\ Incoming("edge", {"peer"})
        /\ UNCHANGED <<architecture, outbox, seen, responses, twice, drops>>
    BY <1>9 DEF OnPeer, history
  <2>2. Head(queue["edge"]).topic # "telemetry"
    BY <2>1, IncomingHead
  <2>3. QED
    BY <1>7, <2>1, <2>2
<1>10. CASE OnAction
  <2> DEFINE k == Head(queue["simulator"]).sequence
  <2>1. /\ Incoming("simulator", {"action"}) /\ UNCHANGED <<architecture, outbox, seen, drops>>
        /\ responses' = responses \cup {k} /\ twice' = (twice \/ k \in responses) /\ drops = 0
    BY <1>10 DEF OnAction
  <2>2. /\ queue["simulator"] # <<>> /\ Head(queue["simulator"]).topic = "action"
        /\ queue'["simulator"] = Tail(queue["simulator"])
        /\ \A q \in Process : q # "simulator" => queue'[q] = queue[q]
    BY <2>1, Consumed, IncomingHead
  <2>3. k \in Int
    BY <2>1, IncomingHead, Topics
  <2>4. /\ Ordered(responses \cup {k}, Tail(queue["simulator"]), outbox[architecture], "action")
        /\ Below(responses, {k})
    BY <1>0, <1>1, <2>1, <2>2, OrderedTaken
  <2>5. k \notin responses
    BY <2>3, <2>4 DEF Below
  <2>6. TelemetryOrdered /\ ActionsOrdered
    BY <1>0, <1>1, <2>1, <2>2, <2>4
  <2>7. QED
    BY <1>1, <2>1, <2>5, <2>6
<1>11. ASSUME NEW m \in Message, m.topic # "action",
              outbox' = Put(outbox, "simulator", Append(outbox["simulator"], m)),
              UNCHANGED <<architecture, queue, seen, responses, twice, drops>>,
              m.topic = "telemetry" => m.sequence = counters["simulator"].published + 1
       PROVE  Goal
  <2>1. outbox'["simulator"] = Append(outbox["simulator"], m)
        /\ outbox'[architecture] = outbox[architecture] /\ drops = 0
    BY <1>0, <1>11 DEF Put, Typing
  <2>2. counters["simulator"].published \in Nat
    BY Counted DEF Typing
  <2>3. m.topic = "telemetry" =>
          /\ Below(seen, {m.sequence})
          /\ Below(Values(queue[architecture], "telemetry"), {m.sequence})
          /\ Below(Values(outbox["simulator"], "telemetry"), {m.sequence})
    BY <1>11, <2>2, ValuesKnown DEF Below, Carried
  <2>4. Ordered(seen, queue[architecture], Append(outbox["simulator"], m), "telemetry")
    BY <1>0, <1>1, <2>1, <2>3, OrderedAppended
  <2>5. QED
    BY <1>1, <1>11, <2>1, <2>4
<1>12. CASE Publish
  <2> DEFINE m == [topic |-> "telemetry", sequence |-> counters["simulator"].published + 1]
  <2>1. /\ outbox' = Put(outbox, "simulator", Append(outbox["simulator"], m))
        /\ UNCHANGED <<architecture, queue, seen, responses, twice, drops>>
        /\ at["simulator"] = "publishing"
    BY <1>12 DEF Publish, history
  <2>2. counters["simulator"].published + 1 \in Sequence
    BY <2>1, Counted, Constants DEF Typing, Stands, Sequence
  <2>3. /\ m \in Message /\ m.topic = "telemetry"
        /\ m.sequence = counters["simulator"].published + 1
    BY <2>2 DEF Message
  <2> HIDE DEF m
  <2>4. QED
    BY <1>11, <2>1, <2>3
<1>13. CASE PublishStop
  <2> DEFINE m == [topic |-> "stop", sequence |-> 0]
  <2>1. /\ outbox' = Put(outbox, "simulator", Append(outbox["simulator"], m))
        /\ UNCHANGED <<architecture, queue, seen, responses, twice, drops>>
    BY <1>13 DEF PublishStop, record
  <2>2. m \in Message /\ m.topic = "stop"
    BY DEF Message
  <2> HIDE DEF m
  <2>3. QED
    BY <1>11, <2>1, <2>2
<1>14. ASSUME NEW p \in Process, Leaves(p),
              UNCHANGED <<architecture, seen, responses, twice, drops>>
       PROVE  Goal
  <2>1. \A q \in Process : queue'[q] \in {queue[q], <<>>} /\ outbox'[q] \in {outbox[q], <<>>}
    BY <1>14 DEF Leaves, Put, Typing
  <2>2. QED
    BY <1>2, <1>14, <2>1
<1>15. ASSUME NEW p \in Process, Fails(p) PROVE Goal
  BY <1>14, <1>15 DEF Fails, record, history
<1>16. ASSUME NEW p \in Process, End(p) PROVE Goal
  BY <1>14, <1>16 DEF End, history
<1>17. CASE UNCHANGED harnessVars
  <2>1. UNCHANGED <<architecture, queue, outbox, seen, responses, twice, drops>>
    BY <1>17 DEF harnessVars, network, record, history
  <2>2. QED
    BY <1>2, <2>1
<1>18. QED
  BY <1>3, <1>4, <1>5, <1>6, <1>8, <1>9, <1>10, <1>12, <1>13, <1>15, <1>16, <1>17
     DEF HarnessNext, NotReady, GiveUp, PublishFails

-----------------------------------------------------------------------------
(* Peer messages of the edge. *)

LEMMA PlacesFinite ==
  ASSUME NEW s \in Seq(Message)
  PROVE  /\ IsFiniteSet(PeerPlaces(s)) /\ PeersIn(s) \in Nat
         /\ PeerPlaces(s) \subseteq 1 .. Len(s) /\ PeerPlaces(s) \subseteq Int
<1>1. /\ Len(s) \in Nat /\ PeerPlaces(s) \subseteq 1 .. Len(s)
      /\ PeerPlaces(s) \subseteq Int
  BY DEF PeerPlaces
<1>2. IsFiniteSet(1 .. Len(s))
  BY <1>1, FS_Interval
<1>3. IsFiniteSet(PeerPlaces(s))
  BY <1>1, <1>2, FS_Subset
<1>4. QED
  BY <1>1, <1>3, FS_CardinalityType DEF PeersIn

LEMMA Shifted ==
  ASSUME NEW A, NEW B, IsFiniteSet(A), A \subseteq Int, B \subseteq Int, NEW n \in Int,
         \A i \in A : i + n \in B, \A j \in B : j - n \in A
  PROVE  Cardinality(B) = Cardinality(A)
<1> DEFINE f == [i \in A |-> i + n]
<1>1. f \in [A -> B]
  OBVIOUS
<1>2. \A i, j \in A : f[i] = f[j] => i = j
  OBVIOUS
<1>3. \A j \in B : j - n \in A /\ f[j - n] = j
  OBVIOUS
<1> HIDE DEF f
<1>4. f \in Bijection(A, B)
  <2>1. f \in Injection(A, B)
    BY <1>1, <1>2 DEF Injection, IsInjective
  <2>2. f \in Surjection(A, B)
    BY <1>1, <1>3 DEF Surjection
  <2>3. QED
    BY <2>1, <2>2 DEF Bijection
<1>5. ExistsBijection(A, B)
  BY <1>4 DEF ExistsBijection
<1>6. QED
  BY <1>5, FS_Bijection

LEMMA PeersNone == PeersIn(<<>>) = 0 /\ PeerPlaces(<<>>) = {}
BY FS_EmptySet DEF PeersIn, PeerPlaces

LEMMA PeersTail ==
  ASSUME NEW s \in Seq(Message), s # <<>>
  PROVE  PeersIn(s) = PeersIn(Tail(s)) + (IF Head(s).topic = "peer" THEN 1 ELSE 0)
<1> DEFINE A == PeerPlaces(Tail(s))
           B == PeerPlaces(s) \ {1}
<1>1. IsFiniteSet(PeerPlaces(s)) /\ IsFiniteSet(A) /\ A \subseteq Int /\ B \subseteq Int
      /\ PeersIn(s) \in Nat
  <2>1. Tail(s) \in Seq(Message)
    BY Tails
  <2>2. QED
    BY <2>1, PlacesFinite
<1>2. \A i \in A : i + 1 \in B
  BY Tails DEF PeerPlaces
<1>3. \A j \in B : j - 1 \in A
  BY Tails DEF PeerPlaces
<1>4. Cardinality(B) = Cardinality(A)
  BY <1>1, <1>2, <1>3, Shifted
<1>5. Cardinality(B) = IF 1 \in PeerPlaces(s) THEN PeersIn(s) - 1 ELSE PeersIn(s)
  BY <1>1, FS_RemoveElement DEF PeersIn
<1>6. 1 \in PeerPlaces(s) <=> Head(s).topic = "peer"
  BY Tails DEF PeerPlaces
<1>7. QED
  BY <1>1, <1>4, <1>5, <1>6 DEF PeersIn

LEMMA PeersConcat ==
  ASSUME NEW s \in Seq(Message), NEW t \in Seq(Message)
  PROVE  PeersIn(s \o t) = PeersIn(s) + PeersIn(t)
<1> DEFINE A == PeerPlaces(s)
           B == PeerPlaces(s \o t) \ A
<1>1. /\ IsFiniteSet(A) /\ IsFiniteSet(PeerPlaces(t)) /\ PeerPlaces(t) \subseteq Int
      /\ A \subseteq 1 .. Len(s) /\ IsFiniteSet(PeerPlaces(s \o t))
      /\ PeerPlaces(s \o t) \subseteq Int
      /\ PeersIn(s) \in Nat /\ PeersIn(t) \in Nat /\ PeersIn(s \o t) \in Nat
  <2>1. s \o t \in Seq(Message)
    BY Concats
  <2>2. QED
    BY <2>1, PlacesFinite
<1>2. /\ Len(s) \in Nat /\ Len(t) \in Nat
      /\ DOMAIN s = 1 .. Len(s) /\ DOMAIN t = 1 .. Len(t)
      /\ DOMAIN (s \o t) = 1 .. (Len(s) + Len(t))
      /\ \A i \in DOMAIN s : (s \o t)[i] = s[i]
      /\ \A i \in DOMAIN t : (s \o t)[Len(s) + i] = t[i]
  BY Concats
<1>3. A \subseteq PeerPlaces(s \o t)
  BY <1>2 DEF PeerPlaces
<1>4. \A i \in PeerPlaces(t) : i + Len(s) \in B
  <2> TAKE i \in PeerPlaces(t)
  <2>1. i \in DOMAIN t /\ t[i].topic = "peer"
    BY DEF PeerPlaces
  <2>2. Len(s) + i = i + Len(s) /\ i + Len(s) \in DOMAIN (s \o t) /\ i + Len(s) \notin 1 .. Len(s)
    BY <1>2, <2>1
  <2>3. (s \o t)[i + Len(s)] = t[i]
    BY <1>2, <2>1, <2>2
  <2>4. QED
    BY <1>1, <2>1, <2>2, <2>3 DEF PeerPlaces
<1>5. \A j \in B : j - Len(s) \in PeerPlaces(t)
  <2> TAKE j \in B
  <2>1. j \in DOMAIN (s \o t) /\ (s \o t)[j].topic = "peer" /\ j \notin A
    BY DEF PeerPlaces
  <2>2. j \notin DOMAIN s
    BY <1>2, <2>1 DEF PeerPlaces
  <2>3. j - Len(s) \in DOMAIN t /\ Len(s) + (j - Len(s)) = j
    BY <1>2, <2>1, <2>2
  <2>4. (s \o t)[j] = t[j - Len(s)]
    BY <1>2, <2>3
  <2>5. QED
    BY <2>1, <2>3, <2>4 DEF PeerPlaces
<1>6. Cardinality(B) = PeersIn(t)
  <2>1. B \subseteq Int
    BY <1>1
  <2>2. Len(s) \in Int /\ IsFiniteSet(PeerPlaces(t)) /\ PeerPlaces(t) \subseteq Int
    BY <1>1, <1>2
  <2> HIDE DEF B
  <2>3. Cardinality(B) = Cardinality(PeerPlaces(t))
    BY <1>4, <1>5, <2>1, <2>2, Shifted
  <2>4. QED
    BY <2>3 DEF PeersIn
<1>7. IsFiniteSet(B) /\ A \cap B = {} /\ A \cup B = PeerPlaces(s \o t)
  BY <1>1, <1>3, FS_Subset
<1>8. Cardinality(A \cup B) = Cardinality(A) + Cardinality(B)
  <2>1. Cardinality(A \cup B) = Cardinality(A) + Cardinality(B) - Cardinality(A \cap B)
    BY <1>1, <1>7, FS_Union
  <2>2. Cardinality(A \cap B) = 0
    BY <1>7, FS_EmptySet
  <2>3. Cardinality(A) \in Nat /\ Cardinality(B) \in Nat
    BY <1>1, <1>6 DEF PeersIn
  <2>4. QED
    BY <2>1, <2>2, <2>3
<1>9. QED
  BY <1>6, <1>7, <1>8 DEF PeersIn

LEMMA PeersAppend ==
  ASSUME NEW s \in Seq(Message), NEW m \in Message
  PROVE  PeersIn(Append(s, m)) = PeersIn(s) + (IF m.topic = "peer" THEN 1 ELSE 0)
<1>1. <<m>> \in Seq(Message) /\ Append(s, m) = s \o <<m>>
  OBVIOUS
<1>2. PeersIn(<<m>>) = IF m.topic = "peer" THEN 1 ELSE 0
  <2>1. DOMAIN <<m>> = {1} /\ <<m>>[1] = m
    OBVIOUS
  <2>2. PeerPlaces(<<m>>) = IF m.topic = "peer" THEN {1} ELSE {}
    BY <2>1 DEF PeerPlaces
  <2>3. QED
    BY <2>2, FS_EmptySet, FS_Singleton DEF PeersIn
<1>3. QED
  BY <1>1, <1>2, PeersConcat

LEMMA PeersReply ==
  ASSUME NEW k \in Sequence
  PROVE  PeersIn(Reply("edge", k)) = Peers /\ Len(Reply("edge", k)) = Peers + 1
<1> DEFINE r == Reply("edge", k)
<1>1. /\ r \in Seq(Message) /\ Len(r) = Peers + 1 /\ DOMAIN r = 1 .. (Peers + 1)
      /\ r[Peers + 1].topic = "action"
      /\ \A i \in 1 .. (Peers + 1) : i < Peers + 1 => r[i].topic = "peer"
  BY Replies, Constants, Processes
<1> HIDE DEF r
<1>2. PeerPlaces(r) = 1 .. Peers
  BY <1>1, Constants DEF PeerPlaces
<1>3. Cardinality(1 .. Peers) = Peers
  BY Constants, FS_Interval
<1>4. QED
  BY <1>1, <1>2, <1>3 DEF PeersIn, r

(* When every answer is there, the edge has nothing left to send and no    *)
(* telemetry to answer: both would be younger than all of them.            *)
LEMMA AllAnswered ==
  ASSUME Typing, Carried, InOrder, PeersFlow, drops = 0, architecture = "edge",
         responses = Sequence
  PROVE  /\ outbox["edge"] = <<>>
         /\ queue["edge"] # <<>> => Head(queue["edge"]).topic # "telemetry"
<1> USE Processes
<1>1. /\ Ordered(seen, queue["edge"], outbox["simulator"], "telemetry")
      /\ Ordered(responses, queue["simulator"], outbox["edge"], "action")
  BY DEF InOrder
<1>2. outbox["edge"] \in Seq(Message) /\ queue["edge"] \in Seq(Message)
  BY DEF Typing
<1>3. ASSUME outbox["edge"] # <<>> PROVE FALSE
  <2> DEFINE n == Len(outbox["edge"])
             m == outbox["edge"][n]
  <2>1. n \in DOMAIN outbox["edge"] /\ m \in Message
    BY <1>2, <1>3
  <2>2. m.topic = "action"
    BY <1>3 DEF PeersFlow, EndsWithAction
  <2>3. m.sequence \in Sequence /\ m.sequence \in Int
    BY <2>1, <2>2, Topics
  <2>4. m.sequence \in Values(outbox["edge"], "action")
    BY <2>1, <2>2 DEF Values
  <2>5. m.sequence < m.sequence
    BY <1>1, <2>3, <2>4 DEF Ordered, Below
  <2>6. QED
    BY <2>3, <2>5
<1>4. ASSUME queue["edge"] # <<>>, Head(queue["edge"]).topic = "telemetry" PROVE FALSE
  <2> DEFINE m == Head(queue["edge"])
  <2>1. m = queue["edge"][1] /\ 1 \in DOMAIN queue["edge"] /\ m \in Message
    BY <1>2, <1>4, Tails
  <2>2. m.sequence \in Sequence /\ m.sequence \in Int
    BY <1>4, <2>1, Topics
  <2>3. m.sequence \in Values(queue["edge"], "telemetry")
    BY <1>4, <2>1 DEF Values
  <2>4. m.sequence \in seen
    BY <2>2 DEF Carried
  <2>5. m.sequence < m.sequence
    BY <1>1, <2>3, <2>4 DEF Ordered, Below
  <2>6. QED
    BY <2>2, <2>5
<1>5. QED
  BY <1>3, <1>4

LEMMA PeersFlowInit == HarnessInit => PeersFlow
<1> SUFFICES ASSUME HarnessInit PROVE PeersFlow
  OBVIOUS
<1>1. \A p \in Process : outbox[p] = <<>> /\ queue[p] = <<>> /\ at[p] = "off"
        /\ counters[p].peer_published = 0 /\ counters[p].peer_received = 0
  BY DEF HarnessInit, NoMessages
<1>2. ~Stopped /\ EndsWithAction /\ NoneBehindStop /\ Drained
  BY <1>1, Processes DEF Stopped, EndsWithAction, NoneBehindStop, Drained
<1>3. Balanced
  BY <1>1, Processes, PeersNone DEF Balanced
<1>4. QED
  BY <1>2, <1>3 DEF PeersFlow

(* Steps that leave the edge's messages alone and send no stop.            *)
LEMMA PeersFlowQuiet ==
  ASSUME Typing, Typing', PeersFlow,
         UNCHANGED <<architecture, drops, late>>, responses \subseteq responses',
         outbox'["edge"] = outbox["edge"], queue'["edge"] = queue["edge"],
         counters'["edge"].peer_published = counters["edge"].peer_published,
         counters'["edge"].peer_received = counters["edge"].peer_received,
         at'["edge"] = at["edge"] \/ (at["edge"] = "off" /\ at'["edge"] = "waiting"),
         Stopped' => Stopped
  PROVE  PeersFlow'
<1> SUFFICES ASSUME drops = 0, architecture = "edge"
             PROVE  /\ EndsWithAction' /\ Balanced'
                    /\ ~late => (Stopped' => responses' = Sequence)
                                  /\ NoneBehindStop' /\ Drained'
  BY DEF PeersFlow
<1>1. /\ EndsWithAction /\ Balanced
      /\ ~late => (Stopped => responses = Sequence) /\ NoneBehindStop /\ Drained
  BY DEF PeersFlow
<1>2. EndsWithAction'
  BY <1>1 DEF EndsWithAction
<1>3. Balanced'
  BY <1>1 DEF Balanced
<1>4. responses' \subseteq Sequence
  BY DEF Typing, Sequence
<1>5. NoneBehindStop => NoneBehindStop'
  BY DEF NoneBehindStop
<1>6. Drained => Drained'
  BY DEF Drained
<1>7. QED
  BY <1>1, <1>2, <1>3, <1>4, <1>5, <1>6

LEMMA PeersFlowRoute ==
  ASSUME Typing, Typing', Carried, Stands, InOrder, PeersFlow, NEW p \in Process, Route(p)
  PROVE  PeersFlow'
<1> USE Processes
<1> SUFFICES ASSUME drops = 0, architecture = "edge"
             PROVE  /\ EndsWithAction' /\ Balanced'
                    /\ ~late => (Stopped' => responses' = Sequence)
                                  /\ NoneBehindStop' /\ Drained'
  BY DEF PeersFlow, Route, history, record
<1> DEFINE m == Head(outbox[p])
           q == queue["edge"]
<1>1. /\ EndsWithAction /\ Balanced
      /\ ~late => (Stopped => responses = Sequence) /\ NoneBehindStop /\ Drained
  BY DEF PeersFlow
<1>2. UNCHANGED <<architecture, at, responses, counters, late, drops>>
  BY DEF Route, record, history
<1>3. /\ outbox[p] \in Seq(Message) /\ outbox[p] # <<>>
      /\ m \in Message /\ m \in Sendable(p)
      /\ outbox'[p] = Tail(outbox[p])
      /\ \A r \in Process : r # p => outbox'[r] = outbox[r]
      /\ queue'["edge"] = IF "edge" \in Subscribers(m) THEN Append(q, m) ELSE q
  BY Delivered DEF Typing
<1>4. q \in Seq(Message)
  BY DEF Typing
<1>5. p = "simulator" \/ p = "edge"
  BY <1>3 DEF Sendable
<1>6. /\ 1 \in DOMAIN outbox[p] /\ m = outbox[p][1]
      /\ DOMAIN outbox[p] = 1 .. Len(outbox[p]) /\ Len(outbox[p]) \in Nat \ {0}
      /\ DOMAIN Tail(outbox[p]) = 1 .. (Len(outbox[p]) - 1)
      /\ Len(Tail(outbox[p])) = Len(outbox[p]) - 1
      /\ \A i \in DOMAIN Tail(outbox[p]) :
           i + 1 \in DOMAIN outbox[p] /\ Tail(outbox[p])[i] = outbox[p][i + 1]
  BY <1>3, Tails
<1> HIDE DEF m
<1>7. /\ Len(q) \in Nat /\ DOMAIN q = 1 .. Len(q)
      /\ DOMAIN Append(q, m) = 1 .. (Len(q) + 1)
      /\ Append(q, m)[Len(q) + 1] = m /\ \A i \in DOMAIN q : Append(q, m)[i] = q[i]
  BY <1>3, <1>4, Appends
<1>8. \A i \in DOMAIN queue'["edge"] :
        \/ i \in DOMAIN q /\ queue'["edge"][i] = q[i]
        \/ i = Len(q) + 1 /\ queue'["edge"][i] = m
  BY <1>3, <1>7
<1>9. Stopped' => Stopped
  <2>1. ASSUME NEW i \in DOMAIN outbox'["simulator"], outbox'["simulator"][i].topic = "stop"
        PROVE  Stopped
    <3>1. CASE p = "simulator"
      <4>1. i \in DOMAIN Tail(outbox[p]) /\ Tail(outbox[p])[i].topic = "stop"
        BY <1>3, <2>1, <3>1
      <4>2. i + 1 \in DOMAIN outbox[p] /\ outbox[p][i + 1].topic = "stop"
        BY <1>6, <4>1
      <4>3. QED
        BY <3>1, <4>2 DEF Stopped
    <3>2. CASE p # "simulator"
      BY <1>3, <2>1, <3>2 DEF Stopped
    <3>3. QED
      BY <3>1, <3>2
  <2>2. ASSUME NEW i \in DOMAIN queue'["edge"], queue'["edge"][i].topic = "stop"
        PROVE  Stopped
    <3>1. CASE i \in DOMAIN q /\ queue'["edge"][i] = q[i]
      BY <2>2, <3>1 DEF Stopped
    <3>2. CASE queue'["edge"][i] = m
      <4>1. p = "simulator"
        BY <1>3, <2>2, <3>2 DEF Sendable
      <4>2. QED
        BY <1>6, <2>2, <3>2, <4>1 DEF Stopped
    <3>3. QED
      BY <1>8, <3>1, <3>2
  <2>3. at'["edge"] \in {"stopping", "ended"} => Stopped
    BY <1>2 DEF Stopped
  <2>4. QED
    BY <2>1, <2>2, <2>3 DEF Stopped
<1>10. CASE p = "simulator"
  <2>1. m.topic # "peer" /\ outbox'["edge"] = outbox["edge"]
    BY <1>3, <1>10 DEF Sendable
  <2>2. EndsWithAction'
    BY <1>1, <2>1 DEF EndsWithAction
  <2>3. PeersIn(queue'["edge"]) = PeersIn(q)
    <3>1. PeersIn(Append(q, m)) = PeersIn(q) + 0
      BY <1>3, <1>4, <2>1, PeersAppend
    <3>2. PeersIn(q) \in Nat
      BY <1>4, PlacesFinite
    <3>3. QED
      BY <1>3, <3>1, <3>2
  <2>4. Balanced'
    BY <1>1, <1>2, <2>1, <2>3 DEF Balanced
  <2>5. Drained => Drained'
    BY <1>2, <2>3 DEF Drained
  <2>6. NoneBehindStop => NoneBehindStop'
    BY <1>7, <1>8, <2>1 DEF NoneBehindStop
  <2>7. QED
    BY <1>1, <1>2, <1>9, <2>2, <2>4, <2>5, <2>6
<1>11. CASE p = "edge"
  <2>1. m.topic \in {"peer", "action"}
    BY <1>3, <1>11 DEF Sendable
  <2>2. EndsWithAction'
    <3>1. SUFFICES ASSUME Tail(outbox[p]) # <<>>
                   PROVE  Tail(outbox[p])[Len(Tail(outbox[p]))].topic = "action"
      BY <1>3, <1>11 DEF EndsWithAction
    <3>2. Len(outbox[p]) # 1
      <4>1. Tail(outbox[p]) \in Seq(Message)
        BY <1>3, Tails
      <4>2. Len(Tail(outbox[p])) # 0
        BY <3>1, <4>1, Tails
      <4>3. QED
        BY <1>6, <4>2
    <3>3. Len(outbox[p]) - 1 \in DOMAIN Tail(outbox[p])
      <4>1. \A n \in Nat \ {0} : n # 1 => n - 1 \in 1 .. (n - 1)
        OBVIOUS
      <4>2. Len(outbox[p]) - 1 \in 1 .. (Len(outbox[p]) - 1)
        BY <1>6, <3>2, <4>1
      <4>3. QED
        BY <1>6, <4>2
    <3>4. Tail(outbox[p])[Len(outbox[p]) - 1] = outbox[p][Len(outbox[p])]
      BY <1>6, <3>3
    <3>5. outbox[p][Len(outbox[p])].topic = "action"
      BY <1>1, <1>3, <1>11 DEF EndsWithAction
    <3>6. QED
      BY <1>6, <3>4, <3>5
  <2>3. "edge" \in Subscribers(m) <=> m.topic = "peer"
    BY <1>11, <2>1 DEF Subscribers, Route
  <2>4. PeersIn(outbox["edge"]) = PeersIn(outbox'["edge"]) + (IF m.topic = "peer" THEN 1 ELSE 0)
    BY <1>3, <1>11, PeersTail DEF m
  <2>5. PeersIn(queue'["edge"]) = PeersIn(q) + (IF m.topic = "peer" THEN 1 ELSE 0)
    <3>1. PeersIn(Append(q, m)) = PeersIn(q) + (IF m.topic = "peer" THEN 1 ELSE 0)
      BY <1>3, <1>4, PeersAppend
    <3>2. PeersIn(q) \in Nat
      BY <1>4, PlacesFinite
    <3>3. QED
      BY <1>3, <2>3, <3>1, <3>2
  <2>6. Balanced'
    <3>1. /\ PeersIn(q) \in Nat /\ PeersIn(outbox["edge"]) \in Nat
          /\ PeersIn(outbox'["edge"]) \in Nat
      BY PlacesFinite DEF Typing
    <3>2. counters["edge"].peer_received \in Nat
      BY Counted DEF Typing
    <3>3. QED
      BY <1>1, <1>2, <2>4, <2>5, <3>1, <3>2 DEF Balanced
  <2>7. ASSUME ~late PROVE ~Stopped
    BY <1>1, <1>3, <1>11, <2>7, AllAnswered
  <2>8. ASSUME ~late PROVE NoneBehindStop' /\ Drained'
    <3>1. \A i \in DOMAIN queue'["edge"] : queue'["edge"][i].topic # "stop"
      BY <1>8, <2>1, <2>7, <2>8 DEF Stopped
    <3>2. at'["edge"] \notin {"stopping", "ended"}
      BY <1>2, <2>7, <2>8 DEF Stopped
    <3>3. QED
      BY <3>1, <3>2 DEF NoneBehindStop, Drained
  <2>9. QED
    BY <1>9, <2>2, <2>6, <2>7, <2>8
<1>12. QED
  BY <1>5, <1>10, <1>11

(* Steps in which the edge takes a message.                                *)
LEMMA PeersFlowTaken ==
  ASSUME Typing, Typing', Carried, Stands, InOrder, PeersFlow,
         NEW topics, Incoming("edge", topics), UNCHANGED <<architecture, drops, late, responses>>,
         outbox'["simulator"] = outbox["simulator"],
         \/ /\ Head(queue["edge"]).topic = "stop"
            /\ at'["edge"] = "stopping" /\ outbox'["edge"] = outbox["edge"]
            /\ counters'["edge"] = counters["edge"]
         \/ /\ Head(queue["edge"]).topic = "peer"
            /\ at'["edge"] = at["edge"] /\ outbox'["edge"] = outbox["edge"]
            /\ counters'["edge"].peer_published = counters["edge"].peer_published
            /\ counters'["edge"].peer_received = counters["edge"].peer_received + 1
         \/ /\ Head(queue["edge"]).topic = "telemetry" /\ at'["edge"] = at["edge"]
            /\ \E k \in Sequence : outbox'["edge"] = outbox["edge"] \o Reply("edge", k)
            /\ counters'["edge"].peer_published = counters["edge"].peer_published + Peers
            /\ counters'["edge"].peer_received = counters["edge"].peer_received
  PROVE  PeersFlow'
<1> USE Processes
<1> SUFFICES ASSUME drops = 0, architecture = "edge"
             PROVE  /\ EndsWithAction' /\ Balanced'
                    /\ ~late => (Stopped' => responses' = Sequence)
                                  /\ NoneBehindStop' /\ Drained'
  BY DEF PeersFlow
<1> DEFINE q == queue["edge"]
           m == Head(q)
<1>1. /\ EndsWithAction /\ Balanced
      /\ ~late => (Stopped => responses = Sequence) /\ NoneBehindStop /\ Drained
  BY DEF PeersFlow
<1>2. q \in Seq(Message) /\ q # <<>> /\ queue'["edge"] = Tail(q)
      /\ Alive("edge") /\ m \in Message
  BY Consumed, IncomingHead DEF Typing
<1>3. at["edge"] \in {"waiting", "stopping"}
  BY <1>2 DEF Alive, Stands
<1>4. /\ 1 \in DOMAIN q /\ m = q[1] /\ DOMAIN q = 1 .. Len(q) /\ Len(q) \in Nat
      /\ DOMAIN Tail(q) = 1 .. (Len(q) - 1)
      /\ \A i \in DOMAIN Tail(q) : i + 1 \in DOMAIN q /\ Tail(q)[i] = q[i + 1]
      /\ \A i \in DOMAIN q : i = 1 \/ (i - 1 \in DOMAIN Tail(q) /\ q[i] = Tail(q)[i - 1])
  BY <1>2, Tails
<1>5. PeersIn(q) = PeersIn(Tail(q)) + (IF m.topic = "peer" THEN 1 ELSE 0)
  BY <1>2, PeersTail
<1>6. /\ PeersIn(q) \in Nat /\ PeersIn(Tail(q)) \in Nat /\ PeersIn(outbox["edge"]) \in Nat
      /\ PeersIn(outbox'["edge"]) \in Nat /\ Peers \in Nat
      /\ counters["edge"].peer_received \in Nat /\ counters["edge"].peer_published \in Nat
  <2>1. Tail(q) \in Seq(Message)
    BY <1>2, Tails
  <2>2. outbox["edge"] \in Seq(Message) /\ outbox'["edge"] \in Seq(Message)
        /\ counters["edge"] \in Counters
    BY DEF Typing
  <2>3. QED
    BY <1>2, <2>1, <2>2, PlacesFinite, Constants, Counted
<1>7. (\E i \in DOMAIN queue'["edge"] : queue'["edge"][i].topic = "stop") => Stopped
  BY <1>2, <1>4 DEF Stopped
<1>8. NoneBehindStop => NoneBehindStop'
  <2>1. \A i, j \in DOMAIN Tail(q) : i < j => i + 1 < j + 1
    BY <1>4
  <2>2. QED
    BY <1>2, <1>4, <2>1 DEF NoneBehindStop
<1>9. CASE /\ m.topic = "stop"
           /\ at'["edge"] = "stopping" /\ outbox'["edge"] = outbox["edge"]
           /\ counters'["edge"] = counters["edge"]
  <2>1. Stopped
    BY <1>4, <1>9 DEF Stopped
  <2>2. EndsWithAction' /\ Balanced'
    BY <1>1, <1>2, <1>3, <1>5, <1>6, <1>9 DEF EndsWithAction, Balanced
  <2>3. NoneBehindStop => PeersIn(Tail(q)) = 0
    <3>1. SUFFICES ASSUME NoneBehindStop PROVE PeersIn(Tail(q)) = 0
      OBVIOUS
    <3>2. \A i \in DOMAIN Tail(q) : 1 < i + 1
      BY <1>4
    <3>3. PeerPlaces(Tail(q)) = {}
      BY <1>4, <1>9, <3>1, <3>2 DEF PeerPlaces, NoneBehindStop
    <3>4. QED
      BY <3>3, FS_EmptySet DEF PeersIn
  <2>4. NoneBehindStop => Drained'
    BY <1>2, <1>9, <2>3 DEF Drained
  <2>5. QED
    BY <1>1, <1>8, <2>1, <2>2, <2>4
<1>10. CASE /\ m.topic = "peer"
            /\ at'["edge"] = at["edge"] /\ outbox'["edge"] = outbox["edge"]
            /\ counters'["edge"].peer_published = counters["edge"].peer_published
            /\ counters'["edge"].peer_received = counters["edge"].peer_received + 1
  <2>1. EndsWithAction'
    BY <1>1, <1>10 DEF EndsWithAction
  <2>2. Balanced'
    BY <1>1, <1>2, <1>3, <1>5, <1>6, <1>10 DEF Balanced
  <2>3. Stopped' => Stopped
    BY <1>7, <1>10 DEF Stopped
  <2>4. Drained => Drained'
    BY <1>2, <1>3, <1>5, <1>6, <1>10 DEF Drained
  <2>5. QED
    BY <1>1, <1>8, <2>1, <2>2, <2>3, <2>4
<1>11. CASE /\ m.topic = "telemetry" /\ at'["edge"] = at["edge"]
            /\ \E k \in Sequence : outbox'["edge"] = outbox["edge"] \o Reply("edge", k)
            /\ counters'["edge"].peer_published = counters["edge"].peer_published + Peers
            /\ counters'["edge"].peer_received = counters["edge"].peer_received
  <2>1. PICK k \in Sequence : outbox'["edge"] = outbox["edge"] \o Reply("edge", k)
    BY <1>11
  <2> DEFINE sent == Reply("edge", k)
  <2>2. /\ sent \in Seq(Message) /\ Len(sent) \in Nat \ {0} /\ DOMAIN sent = 1 .. Len(sent)
        /\ sent[Len(sent)].topic = "action" /\ PeersIn(sent) = Peers
    BY Replies, PeersReply
  <2>3. outbox["edge"] \in Seq(Message)
    BY DEF Typing
  <2> HIDE DEF sent
  <2>4. /\ Len(outbox["edge"] \o sent) = Len(outbox["edge"]) + Len(sent)
        /\ (outbox["edge"] \o sent)[Len(outbox["edge"]) + Len(sent)] = sent[Len(sent)]
        /\ PeersIn(outbox["edge"] \o sent) = PeersIn(outbox["edge"]) + Peers
    <3>1. Len(sent) \in DOMAIN sent
      BY <2>2
    <3>2. QED
      BY <2>2, <2>3, <3>1, Concats, PeersConcat
  <2>5. outbox'["edge"] = outbox["edge"] \o sent
    BY <2>1 DEF sent
  <2>6. EndsWithAction'
    BY <2>2, <2>4, <2>5 DEF EndsWithAction
  <2>7. Balanced'
    <3>1. PeersIn(queue'["edge"]) = PeersIn(q)
      BY <1>2, <1>5, <1>6, <1>11
    <3>2. PeersIn(outbox'["edge"]) = PeersIn(outbox["edge"]) + Peers
      BY <2>4, <2>5
    <3>3. counters["edge"].peer_published =
            counters["edge"].peer_received + PeersIn(q) + PeersIn(outbox["edge"])
      BY <1>1, <1>3 DEF Balanced
    <3> HIDE DEF q
    <3>4. QED
      BY <1>6, <1>11, <3>1, <3>2, <3>3 DEF Balanced
  <2>8. ASSUME ~late PROVE ~Stopped
    BY <1>1, <1>2, <1>11, <2>8, AllAnswered
  <2>9. Stopped' => Stopped
    BY <1>7, <1>11 DEF Stopped
  <2>10. ~Stopped => Drained'
    BY <1>11 DEF Stopped, Drained
  <2>11. QED
    BY <1>1, <1>8, <2>6, <2>7, <2>8, <2>9, <2>10
<1>12. QED
  BY <1>9, <1>10, <1>11

LEMMA PeersFlowNext ==
  Typing /\ Typing' /\ Carried /\ Stands /\ InOrder /\ PeersFlow /\ [HarnessNext]_harnessVars
    => PeersFlow'
<1> SUFFICES ASSUME Typing, Typing', Carried, Stands, InOrder, PeersFlow,
                    [HarnessNext]_harnessVars
             PROVE  PeersFlow'
  OBVIOUS
<1> USE Processes
<1>1. ASSUME NEW p \in Process, Connect(p) PROVE PeersFlow'
  <2>1. UNCHANGED <<architecture, outbox, queue, counters, responses, drops, late>>
    BY <1>1 DEF Connect, record, history
  <2>2. at'["edge"] = at["edge"] \/ (at["edge"] = "off" /\ at'["edge"] = "waiting")
    BY <1>1 DEF Connect, Put, Typing
  <2>3. Stopped' => Stopped
    BY <2>1, <2>2 DEF Stopped
  <2>4. QED
    BY <2>1, <2>2, <2>3, PeersFlowQuiet
<1>2. ASSUME NEW p \in Process, Route(p) PROVE PeersFlow'
  BY <1>2, PeersFlowRoute
<1>3. ASSUME NEW p \in Process, Drop(p) PROVE PeersFlow'
  <2>1. drops' # 0
    BY <1>3 DEF Drop, Typing
  <2>2. QED
    BY <2>1 DEF PeersFlow
<1>4. ASSUME NEW p \in Process, OnTelemetry(p) PROVE PeersFlow'
  <2> DEFINE k == Head(queue[p]).sequence
             sent == Reply(p, k)
  <2>1. /\ p \in Controller /\ Incoming(p, {"telemetry"})
        /\ UNCHANGED <<architecture, at, responses, drops, late>>
        /\ outbox' = Put(outbox, p, outbox[p] \o sent)
        /\ counters' = Put(counters, p,
             [counters[p] EXCEPT !.received = @ + 1, !.published = @ + Len(sent),
                !.action_published = @ + 1, !.peer_published = @ + Len(sent) - 1])
    BY <1>4 DEF OnTelemetry
  <2>2. Head(queue[p]) \in Receivable(p) /\ Head(queue[p]).topic = "telemetry"
    BY <2>1, Consumed, IncomingHead
  <2>3. p = architecture /\ k \in Sequence
    BY <2>2, Topics DEF Receivable
  <2>4. CASE architecture # "edge"
    BY <2>1, <2>4 DEF PeersFlow
  <2>5. CASE architecture = "edge"
    <3>1. Len(sent) = Peers + 1 /\ Peers \in Nat
      BY <2>3, <2>5, PeersReply, Constants
    <3>2. counters["edge"] \in Counters /\ counters["edge"].peer_published \in Nat
      BY Counted DEF Typing
    <3>3. outbox'["edge"] = outbox["edge"] \o Reply("edge", k)
          /\ outbox'["simulator"] = outbox["simulator"]
      BY <2>1, <2>3, <2>5 DEF Put, Typing
    <3>4. counters'["edge"] =
            [counters["edge"] EXCEPT !.received = counters["edge"].received + 1,
               !.published = counters["edge"].published + Len(sent),
               !.action_published = counters["edge"].action_published + 1,
               !.peer_published = counters["edge"].peer_published + Len(sent) - 1]
      BY <2>1, <2>3, <2>5 DEF Put, Typing
    <3> HIDE DEF sent
    <3>5. /\ counters'["edge"].peer_published = counters["edge"].peer_published + Len(sent) - 1
          /\ counters'["edge"].peer_received = counters["edge"].peer_received
      BY <3>2, <3>4 DEF Counters
    <3>6. counters'["edge"].peer_published = counters["edge"].peer_published + Peers
      BY <3>1, <3>2, <3>5
    <3> HIDE DEF k
    <3>7. QED
      BY <2>1, <2>2, <2>3, <2>5, <3>3, <3>5, <3>6, PeersFlowTaken
  <2>6. QED
    BY <2>4, <2>5
<1>5. ASSUME NEW p \in Process, OnStop(p) PROVE PeersFlow'
  <2>1. /\ p \in Controller /\ Incoming(p, {"stop"}) /\ at' = Put(at, p, "stopping")
        /\ UNCHANGED <<architecture, outbox, counters, responses, drops, late>>
    BY <1>5 DEF OnStop, record, history
  <2>2. CASE p = "edge"
    <3>1. Head(queue["edge"]).topic = "stop"
      BY <2>1, <2>2, IncomingHead
    <3>2. at'["edge"] = "stopping"
      BY <2>1, <2>2 DEF Put, Typing
    <3>3. QED
      BY <2>1, <2>2, <3>1, <3>2, PeersFlowTaken
  <2>3. CASE p # "edge"
    <3>1. queue'["edge"] = queue["edge"] /\ at'["edge"] = at["edge"]
      BY <2>1, <2>3 DEF Incoming, Put, Typing
    <3>2. Stopped' => Stopped
      BY <2>1, <3>1 DEF Stopped
    <3>3. QED
      BY <2>1, <3>1, <3>2, PeersFlowQuiet
  <2>4. QED
    BY <2>2, <2>3
<1>6. CASE OnAction
  <2>1. /\ Incoming("simulator", {"action"}) /\ responses \subseteq responses'
        /\ UNCHANGED <<architecture, at, outbox, drops, late>>
        /\ counters' = [counters EXCEPT !["simulator"].received = @ + 1]
    BY <1>6 DEF OnAction
  <2>2. queue'["edge"] = queue["edge"] /\ counters'["edge"] = counters["edge"]
    BY <2>1 DEF Incoming, Put, Typing
  <2>3. Stopped' => Stopped
    BY <2>1, <2>2 DEF Stopped
  <2>4. QED
    BY <2>1, <2>2, <2>3, PeersFlowQuiet
<1>7. CASE OnPeer
  <2>1. /\ Incoming("edge", {"peer"})
        /\ UNCHANGED <<architecture, at, outbox, responses, drops, late>>
        /\ counters' = [counters EXCEPT !["edge"].peer_received = @ + 1]
    BY <1>7 DEF OnPeer, history
  <2>2. /\ counters'["edge"].peer_received = counters["edge"].peer_received + 1
        /\ counters'["edge"].peer_published = counters["edge"].peer_published
    BY <2>1 DEF Typing, Counters
  <2>3. Head(queue["edge"]).topic = "peer"
    BY <2>1, IncomingHead
  <2>4. QED
    BY <2>1, <2>2, <2>3, PeersFlowTaken
<1>8. CASE Publish
  <2> DEFINE m == [topic |-> "telemetry", sequence |-> counters["simulator"].published + 1]
  <2>1. /\ UNCHANGED <<architecture, queue, responses, drops, late>>
        /\ outbox' = Put(outbox, "simulator", Append(outbox["simulator"], m))
        /\ counters' = [counters EXCEPT !["simulator"].published = counters["simulator"].published + 1]
        /\ at'["edge"] = at["edge"]
    BY <1>8 DEF Publish, history, Put, Typing
  <2>2. m.topic = "telemetry"
    OBVIOUS
  <2> HIDE DEF m
  <2>3. /\ outbox'["edge"] = outbox["edge"] /\ counters'["edge"] = counters["edge"]
        /\ outbox'["simulator"] = Append(outbox["simulator"], m)
    BY <2>1 DEF Put, Typing
  <2>4. \A i \in DOMAIN outbox'["simulator"] :
          \/ i \in DOMAIN outbox["simulator"] /\ outbox'["simulator"][i] = outbox["simulator"][i]
          \/ outbox'["simulator"][i] = m
    BY <2>3, SMTT(30) DEF Typing
  <2>5. Stopped' => Stopped
    BY <2>1, <2>2, <2>4 DEF Stopped
  <2>6. QED
    BY <2>1, <2>3, <2>5, PeersFlowQuiet
<1>9. CASE PublishStop
  <2>1. /\ UNCHANGED <<architecture, queue, counters, responses, drops>>
        /\ late' = (late \/ Cardinality(responses) < Messages)
        /\ outbox'["edge"] = outbox["edge"] /\ at'["edge"] = at["edge"]
    BY <1>9 DEF PublishStop, record, Put, Typing
  <2>2. ~late' => responses = Sequence
    <3>1. /\ Cardinality(responses) \in Nat
          /\ Cardinality(responses) >= Messages => responses = Sequence
      BY AllAnswers DEF Typing
    <3>2. ~late' => ~(Cardinality(responses) < Messages)
      BY <2>1
    <3>3. QED
      BY <3>1, <3>2, Constants
  <2>3. (EndsWithAction => EndsWithAction') /\ (Balanced => Balanced')
        /\ (NoneBehindStop => NoneBehindStop') /\ (Drained => Drained')
    BY <2>1 DEF EndsWithAction, Balanced, NoneBehindStop, Drained
  <2>4. QED
    BY <2>1, <2>2, <2>3 DEF PeersFlow
<1>10. ASSUME NEW p \in Process, Leaves(p),
              UNCHANGED <<architecture, counters, responses, drops, late>>,
              \A q \in Process : q # p => at'[q] = at[q],
              \/ at'[p] = "failed"
              \/ at[p] = "stopping" /\ (p = "edge" => at'[p] = "ended")
       PROVE  PeersFlow'
  <2>1. \A q \in Process : /\ outbox'[q] = IF q = p THEN <<>> ELSE outbox[q]
                           /\ queue'[q] = IF q = p THEN <<>> ELSE queue[q]
    BY <1>10 DEF Leaves, Put, Typing
  <2>2. Stopped' => Stopped
    BY <1>10, <2>1 DEF Stopped
  <2>3. CASE p # "edge"
    BY <1>10, <2>1, <2>2, <2>3, PeersFlowQuiet
  <2>4. CASE p = "edge"
    <3>1. outbox'["edge"] = <<>> /\ queue'["edge"] = <<>> /\ at'["edge"] \in {"ended", "failed"}
      BY <1>10, <2>1, <2>4
    <3>2. EndsWithAction' /\ Balanced' /\ NoneBehindStop'
      BY <3>1 DEF EndsWithAction, Balanced, NoneBehindStop
    <3>3. ASSUME drops = 0, architecture = "edge", ~late PROVE Drained'
      <4>1. CASE at'["edge"] = "failed"
        BY <4>1 DEF Drained
      <4>2. CASE at'["edge"] = "ended"
        <5>1. at["edge"] = "stopping" /\ Stopped
          BY <1>10, <2>4, <4>2 DEF Stopped
        <5>2. responses = Sequence /\ Balanced /\ Drained
          BY <3>3, <5>1 DEF PeersFlow
        <5>3. outbox["edge"] = <<>>
          BY <3>3, <5>2, AllAnswered
        <5>4. PeersIn(outbox["edge"]) = 0 /\ PeersIn(queue["edge"]) = 0
          BY <5>1, <5>2, <5>3, PeersNone DEF Drained
        <5>5. counters["edge"].peer_received \in Nat
          BY Counted DEF Typing
        <5>6. counters["edge"].peer_published = counters["edge"].peer_received
          BY <5>1, <5>2, <5>4, <5>5 DEF Balanced
        <5>7. QED
          BY <1>10, <4>2, <5>6 DEF Drained
      <4>3. QED
        BY <3>1, <4>1, <4>2
    <3>4. QED
      BY <1>10, <2>2, <3>2, <3>3 DEF PeersFlow
  <2>5. QED
    BY <2>3, <2>4
<1>11. ASSUME NEW p \in Process, Fails(p) PROVE PeersFlow'
  <2>1. /\ Leaves(p) /\ UNCHANGED <<architecture, counters, responses, drops, late>>
        /\ at'[p] = "failed" /\ \A q \in Process : q # p => at'[q] = at[q]
    BY <1>11 DEF Fails, record, history, Put, Typing
  <2>2. QED
    BY <1>10, <2>1
<1>12. ASSUME NEW p \in Process, End(p) PROVE PeersFlow'
  <2>1. /\ Leaves(p) /\ UNCHANGED <<architecture, counters, responses, drops, late>>
        /\ at[p] = "stopping" /\ (p = "edge" => at'[p] = "ended")
        /\ \A q \in Process : q # p => at'[q] = at[q]
    BY <1>12 DEF End, history, Put, Typing
  <2>2. QED
    BY <1>10, <2>1
<1>13. CASE UNCHANGED harnessVars
  <2>1. UNCHANGED <<architecture, at, queue, outbox, counters, responses, drops, late>>
    BY <1>13 DEF harnessVars, network, record, history
  <2>2. Stopped' => Stopped
    BY <2>1 DEF Stopped
  <2>3. QED
    BY <2>1, <2>2, PeersFlowQuiet
<1>14. QED
  BY <1>1, <1>2, <1>3, <1>4, <1>5, <1>6, <1>7, <1>8, <1>9, <1>11, <1>12, <1>13
     DEF HarnessNext, NotReady, GiveUp, PublishFails

(* Who ends without a broken connection and without a passed deadline has  *)
(* counted every message once.                                             *)
LEMMA Matched ==
  Typing /\ Carried /\ Stands /\ Tallied /\ InOrder /\ PeersFlow => CountersMatch
<1> SUFFICES ASSUME Typing, Carried, Stands, Tallied, InOrder, PeersFlow,
                    \A p \in Process : at[p] = "ended", drops = 0, ~late
             PROVE  Reconciles
  BY DEF CountersMatch
<1> USE Processes
<1>1. \A p \in Process : result[p] # None /\ result[p] = counters[p]
  BY DEF Stands
<1>2. responses = Sequence /\ seen = Sequence /\ counters["simulator"].published = Messages
  BY DEF Stands, Carried, Typing
<1>3. ~twice /\ Cardinality(Sequence) = Messages
  BY AllAnswers DEF InOrder
<1>4. /\ counters[architecture].received = Messages
      /\ counters["simulator"].received = Messages
      /\ counters[architecture].action_published = Messages
  BY <1>2, <1>3 DEF Tallied
<1>5. architecture = "edge" => counters["edge"].peer_published = counters["edge"].peer_received
  BY DEF PeersFlow, Drained
<1>6. architecture \in Process
  BY DEF Typing
<1>7. QED
  BY <1>1, <1>2, <1>4, <1>5, <1>6 DEF Reconciles

LEMMA Flows == HarnessSpec => [](InOrder /\ PeersFlow)
<1>1. HarnessInit => InOrder /\ PeersFlow
  BY InOrderInit, PeersFlowInit
<1>2. /\ Typing /\ Carried /\ Stands /\ Typing' /\ InOrder /\ PeersFlow
      /\ [HarnessNext]_harnessVars
      => InOrder' /\ PeersFlow'
  BY InOrderNext, PeersFlowNext
<1>3. QED
  BY <1>1, <1>2, Carries, PTL DEF HarnessSpec

(* Without a broken connection and a passed deadline the counters of all   *)
(* processes match exactly, late subscriptions and any number of peers     *)
(* included: no message is behind the one that stops its receiver.         *)
THEOREM CountersAgree == HarnessSpec => []CountersMatch
BY Carries, Tallies, Flows, Matched, PTL
=============================================================================
