-------------------------- MODULE CoordinatorProofs --------------------------
(***************************************************************************)
(* Proofs about the coordinator and its clients, for any number of         *)
(* workers, connections, lives, publications and restarts.                 *)
(***************************************************************************)
EXTENDS Coordinator, FiniteSetTheorems, TLAPS

-----------------------------------------------------------------------------
(* The inductive invariant.                                                *)

\* Before Record, and after Leave, a connection has no identity.
Anonymous == {"none", "backlog", "taken", "counted", "registered", "welcomed", "unwelcome"}

\* The identity of a connection is set once, from a boot that Hello named.
RecordOK(k) ==
    /\ k.request.type # "none" => k.request.boot \in Boot
    /\ k.thread \in {"registered", "welcomed", "fencing", "erasing"} => k.asked \in Boot
    /\ k.thread \in Anonymous \/ k.request.type = "hello" => k.boot = NoBoot
    /\ k.request.type = "hello" => k.thread \notin {"registered", "welcomed"}
    /\ k.thread = "backlog" => k.open

\* What is said of the set is not ahead of it.
Heard(k) ==
    /\ k.thread # "none" /\ k.answer.type \in {"committed", "status"} => k.answer.number <= set
    /\ k.open /\ k.reply.type \in {"committed", "status"} => k.reply.number <= set

ConnectionsOK == \A c \in Conn : RecordOK(conn[c]) /\ Heard(conn[c])

\* The client and its connection name each other, until one of them closes.
ClientOK(w) ==
    /\ client[w].conn = NoConn => client[w].call = "idle" /\ client[w].cache = -1
    /\ client[w].conn # NoConn =>
          /\ client[w].life <= MaxLife
          /\ conn[client[w].conn].peer = w
          /\ conn[client[w].conn].open => client[w].cache <= set

ClientsOK == \A w \in Worker : ClientOK(w)

NotServing == phase \in {"down", "loaded", "advanced", "saving"}

\* A process begins without connections.
PhaseOK ==
    NotServing => /\ speaking = {} /\ boots = {}
                  /\ \A c \in Conn : conn[c].thread = "none" /\ ~conn[c].open

Disjoint(p) == p = NoPayload \/ p.registered \cap p.fenced = {}

RegistryOK ==
    /\ speaking \subseteq registered
    /\ registered \cap fenced = {}
    /\ Disjoint(stored)
    /\ \A s \in Saver : Disjoint(saves[s].payload)

Inv ==
    /\ TypeOK
    /\ IsFiniteSet(Connections)
    /\ ConnectionsOK
    /\ ClientsOK
    /\ PhaseOK
    /\ RegistryOK
    /\ SpeakersAreServed
    /\ ScopesAreServed

-----------------------------------------------------------------------------
(* What the acknowledgements rest on, when one connection is served at a   *)
(* time, every save succeeds and Stop is not called.                       *)

OneAtATime == MaxConnections = 1 /\ Faults \cap {"stop", "save"} = {}

\* The payload p locks out who was acknowledged before it was captured.
Remembers(p) ==
    \A b \in Boot : told.acked[b] # 0 =>
        /\ told.acked[b] <= p.epoch
        /\ told.acked[b] = p.epoch => b \in p.registered \cup p.fenced
        /\ told.acked[b] < p.epoch => b \in p.fenced

\* p holds the commit that a connection is about to acknowledge.
Holds(p, c) ==
    conn[c].answer.type = "committed" =>
        /\ conn[c].answer.number <= p.set
        /\ conn[c].boot \in p.registered \cup p.fenced

\* p comes from the present process, and is no older than the store.
Newer(p) ==
    /\ p \in StoredRegistry
    /\ p.epoch = epoch /\ p.set <= set
    /\ stored # NoPayload => stored.set <= p.set
    /\ told.set <= p.set
    /\ Remembers(p)

StoreOK ==
    /\ stored = NoPayload => told.set = 0 /\ \A b \in Boot : told.acked[b] = 0
    /\ stored # NoPayload => told.set <= stored.set /\ Remembers(stored)
    /\ phase # "down" => /\ Remembers(Payload)
                         /\ stored # NoPayload => stored.set <= set
    /\ phase = "serving" /\ Persistent => stored # NoPayload /\ stored.epoch = epoch

SavesOK ==
    /\ \A s \in Saver : /\ saves[s].phase # "failed"
                        /\ saves[s].phase = "pending" => Newer(saves[s].payload)
    /\ saves["main"].phase # "idle" => phase = "saving"
    /\ saves["main"].phase = "saved" => stored # NoPayload /\ stored.epoch = epoch
    /\ \A c \in Conn : saves[c].phase # "idle" => conn[c].thread = "answer"

CommitsOK ==
    \A c \in Conn : conn[c].thread \in {"unsaved", "answer"} =>
        /\ Holds(Payload, c)
        /\ conn[c].thread = "answer" /\ PersistOnMutation =>
              /\ saves[c].phase # "idle"
              /\ Holds(IF saves[c].phase = "pending" THEN saves[c].payload ELSE stored, c)

DurableInv ==
    /\ phase \in {"down", "loaded", "advanced", "saving", "serving"}
    /\ StoreOK
    /\ SavesOK
    /\ CommitsOK

-----------------------------------------------------------------------------
(* Steps of a connection's thread.                                         *)

\* A step after which no more connections are served keeps the bound.
LEMMA FewerConnections ==
    ASSUME Inv, CoordinatorAssumption, Connections' \subseteq Connections
    PROVE  IsFiniteSet(Connections)' /\ (Cardinality(Connections) <= MaxConnections)'
<1>1. IsFiniteSet(Connections) /\ Cardinality(Connections) <= MaxConnections
  BY DEF Inv, TypeOK
<1>2. IsFiniteSet(Connections') /\ Cardinality(Connections') <= Cardinality(Connections)
  BY <1>1, FS_Subset
<1>3. Cardinality(Connections) \in Nat /\ Cardinality(Connections') \in Nat
  BY <1>1, <1>2, FS_CardinalityType
<1> QED
  BY <1>1, <1>2, <1>3 DEF CoordinatorAssumption

\* A step of the thread of c.
LEMMA ThreadStep ==
    ASSUME Inv, CoordinatorAssumption, Typed', NEW c \in Connections,
           \A d \in Conn \ {c} : conn'[d] = conn[d],
           UNCHANGED <<phase, client>>, set <= set',
           conn'[c].peer = conn[c].peer, conn'[c].open => conn[c].open,
           RecordOK(conn[c])', Heard(conn[c])', RegistryOK',
           \A b \in speaking' :
              \/ conn'[c].boot = b /\ conn'[c].thread \notin {"none", "leave"}
              \/ b \in speaking /\ (conn[c].boot # b \/ conn[c].thread = "leave"),
           \A b \in boots' :
              \/ conn'[c].boot = b /\ conn'[c].thread # "none"
              \/ b \in boots /\ conn[c].boot # b
    PROVE  Inv'
<1>1. c \in Conn /\ conn[c].thread \notin {"none", "backlog", "taken"}
  BY DEF Connections
<1>2. Connections' \subseteq Connections
  BY DEF Connections
<1>3. IsFiniteSet(Connections)' /\ (Cardinality(Connections) <= MaxConnections)'
  BY <1>2, FewerConnections
<1>4. TypeOK'
  BY <1>3 DEF TypeOK
<1>5. ASSUME NEW d \in Conn PROVE (RecordOK(conn[d]) /\ Heard(conn[d]))'
  <2>1. CASE d = c
    BY <2>1
  <2>2. CASE d # c
    <3>1. RecordOK(conn[d]) /\ Heard(conn[d]) /\ conn'[d] = conn[d]
      BY <2>2 DEF Inv, ConnectionsOK
    <3>2. set \in Nat /\ set' \in Nat /\ conn[d] \in Connection
      BY DEF Inv, TypeOK, Typed, set
    <3> QED
      BY <3>1, <3>2 DEF RecordOK, Heard, Connection, Answer
  <2> QED
    BY <2>1, <2>2
<1>6. ASSUME NEW w \in Worker PROVE ClientOK(w)'
  <2>1. ClientOK(w) /\ client'[w] = client[w] /\ client[w] \in Client
    BY DEF Inv, ClientsOK, TypeOK, Typed
  <2>2. set \in Nat /\ set' \in Nat
    BY DEF Inv, TypeOK, Typed, set
  <2>3. CASE client[w].conn = NoConn
    BY <2>1, <2>3 DEF ClientOK
  <2>4. CASE client[w].conn # NoConn
    <3>1. client[w].conn \in Conn /\ client[w].cache \in Int
      BY <2>1, <2>4 DEF Client
    <3> QED
      BY <2>1, <2>2, <2>4, <3>1 DEF ClientOK
  <2> QED
    BY <2>3, <2>4
<1>7. PhaseOK'
  BY <1>1 DEF Inv, PhaseOK, NotServing
<1>8. SpeakersAreServed'
  <2>1. ASSUME NEW b \in speaking'
        PROVE  \E d \in Conn : conn'[d].boot = b /\ conn'[d].thread \notin {"none", "leave"}
    <3>1. CASE b \in speaking /\ (conn[c].boot # b \/ conn[c].thread = "leave")
      BY <3>1 DEF Inv, SpeakersAreServed
    <3> QED
      BY <1>1, <3>1
  <2> QED
    BY <2>1 DEF SpeakersAreServed
<1>9. ScopesAreServed'
  <2>1. ASSUME NEW b \in boots'
        PROVE  \E d \in Conn : conn'[d].boot = b /\ conn'[d].thread # "none"
    <3>1. CASE b \in boots /\ conn[c].boot # b
      BY <3>1 DEF Inv, ScopesAreServed
    <3> QED
      BY <1>1, <3>1
  <2> QED
    BY <2>1 DEF ScopesAreServed
<1> QED
  BY <1>3, <1>4, <1>5, <1>6, <1>7, <1>8, <1>9 DEF Inv, ConnectionsOK, ClientsOK

\* A step of the thread of c that leaves the registry and the boots alone.
LEMMA QuietStep ==
    ASSUME Inv, CoordinatorAssumption, Typed', NEW c \in Connections,
           \A d \in Conn \ {c} : conn'[d] = conn[d],
           UNCHANGED <<phase, client, registry>>, boots' \subseteq boots,
           conn'[c].peer = conn[c].peer, conn'[c].open => conn[c].open,
           conn'[c].boot = conn[c].boot, conn'[c].thread \notin {"none", "leave"},
           RecordOK(conn[c])', Heard(conn[c])',
           \A p \in {stored'} \cup {saves'[s].payload : s \in Saver} : Disjoint(p)
    PROVE  Inv'
<1>1. set' = set /\ set \in Nat
  BY DEF Inv, TypeOK, Typed, set, registry
<1>2. RegistryOK'
  BY DEF Inv, RegistryOK, registry, Disjoint
<1>3. speaking' = speaking
  BY DEF registry
<1> QED
  BY <1>1, <1>2, <1>3, ThreadStep

\* The payloads of the store when it is left alone.
LEMMA PayloadsKept ==
    ASSUME Inv, UNCHANGED store
    PROVE  \A p \in {stored'} \cup {saves'[s].payload : s \in Saver} : Disjoint(p)
BY DEF Inv, RegistryOK, store

\* SendFrame.
LEMMA Sends ==
    ASSUME Inv, NEW c \in Connections, NEW a \in Answer, NEW next \in Thread, Send(c, a, next),
           UNCHANGED set, a.type \in {"committed", "status"} => a.number <= set,
           next \in {"welcomed", "lost"} \/ (next = "receive" /\ conn[c].thread \notin Anonymous),
           next = "welcomed" => conn[c].thread = "registered",
           conn[c].thread \in Anonymous => conn[c].boot = NoBoot
    PROVE  /\ conn' \in [Conn -> Connection]
           /\ \A d \in Conn \ {c} : conn'[d] = conn[d]
           /\ conn'[c].peer = conn[c].peer /\ conn'[c].open = conn[c].open
           /\ conn'[c].boot = conn[c].boot
           /\ conn'[c].thread \in {next, "lost"}
           /\ RecordOK(conn[c])' /\ Heard(conn[c])'
<1>1. c \in Conn /\ conn \in [Conn -> Connection] /\ conn[c] \in Connection
  BY DEF Connections, Inv, TypeOK, Typed
<1>2. RecordOK(conn[c]) /\ Heard(conn[c])
  BY <1>1 DEF Inv, ConnectionsOK
<1>3. NoAnswer \in Answer /\ NoMessage \in Message
  BY DEF NoAnswer, Answer, NoMessage, Message
<1>4. CASE /\ conn[c].open
           /\ conn' = [conn EXCEPT ![c].thread = next, ![c].answer = NoAnswer,
                               ![c].request = NoMessage,
                               ![c].asked = IF next = "welcomed" THEN @ ELSE NoBoot,
                               ![c].reply = IF Gone(c) THEN NoAnswer ELSE a]
  <2>1. conn' \in [Conn -> Connection]
    BY <1>1, <1>3, <1>4 DEF Connection
  <2>2. /\ \A d \in Conn \ {c} : conn'[d] = conn[d]
        /\ conn'[c].peer = conn[c].peer /\ conn'[c].open = conn[c].open
        /\ conn'[c].boot = conn[c].boot /\ conn'[c].thread = next
        /\ conn'[c].answer = NoAnswer /\ conn'[c].request = NoMessage
        /\ conn'[c].asked = IF next = "welcomed" THEN conn[c].asked ELSE NoBoot
        /\ conn'[c].reply = IF Gone(c) THEN NoAnswer ELSE a
    BY <1>1, <1>4 DEF Connection
  <2>3. RecordOK(conn[c])'
    BY <1>2, <2>2 DEF RecordOK, NoMessage, Anonymous
  <2>4. Heard(conn[c])'
    BY <2>2 DEF Heard, NoAnswer
  <2> QED
    BY <2>1, <2>2, <2>3, <2>4
<1>5. CASE /\ ~conn[c].open \/ Gone(c)
           /\ conn' = [conn EXCEPT ![c].thread = "lost", ![c].answer = NoAnswer,
                               ![c].request = NoMessage]
  <2>1. conn' \in [Conn -> Connection]
    BY <1>1, <1>3, <1>5 DEF Connection, Thread
  <2>2. /\ \A d \in Conn \ {c} : conn'[d] = conn[d]
        /\ conn'[c].peer = conn[c].peer /\ conn'[c].open = conn[c].open
        /\ conn'[c].boot = conn[c].boot /\ conn'[c].thread = "lost"
        /\ conn'[c].answer = NoAnswer /\ conn'[c].request = NoMessage
        /\ conn'[c].reply = conn[c].reply
    BY <1>1, <1>5 DEF Connection
  <2>3. RecordOK(conn[c])'
    BY <1>2, <2>2 DEF RecordOK, NoMessage, Anonymous
  <2>4. Heard(conn[c])'
    BY <1>2, <2>2 DEF Heard, NoAnswer
  <2> QED
    BY <2>1, <2>2, <2>3, <2>4
<1> QED
  BY <1>4, <1>5 DEF Send

\* The state of a connection that is served.
LEMMA ThreadState ==
    ASSUME Inv, NEW c \in Conn, conn[c].thread \notin {"none", "backlog", "taken"}
    PROVE  /\ c \in Connections /\ conn[c] \in Connection
           /\ conn[c].request \in Message /\ conn[c].answer \in Answer
           /\ RecordOK(conn[c]) /\ Heard(conn[c])
           /\ set \in Nat
BY DEF Connections, Inv, ConnectionsOK, TypeOK, Typed, Connection, set

\* The end of the connection, or of its client.
LEMMA StepReceiveNothing ==
    ASSUME Inv, CoordinatorAssumption, NEW c \in Conn, ReceiveNothing(c)
    PROVE  Inv'
<1>1. /\ c \in Connections /\ conn[c] \in Connection /\ conn \in [Conn -> Connection]
      /\ RecordOK(conn[c]) /\ Heard(conn[c])
  BY ThreadState DEF ReceiveNothing, Inv, TypeOK, Typed
<1>2. /\ conn' \in [Conn -> Connection]
      /\ \A d \in Conn \ {c} : conn'[d] = conn[d]
      /\ conn'[c] = [conn[c] EXCEPT !.thread = "lost"]
  BY <1>1 DEF ReceiveNothing, SetThread, Connection, Thread
<1>3. Typed'
  BY <1>2 DEF Inv, TypeOK, Typed, ReceiveNothing, Rest, lifecycle, registry, store
<1>4. RecordOK(conn[c])' /\ Heard(conn[c])'
  BY <1>1, <1>2 DEF RecordOK, Heard, Connection, Anonymous, set, ReceiveNothing, registry
<1> QED
  BY <1>1, <1>2, <1>3, <1>4, QuietStep, PayloadsKept
     DEF ReceiveNothing, Rest, lifecycle, registry, Connection

\* Hello: the boot is registered before the client is told.
LEMMA StepHello ==
    ASSUME Inv, CoordinatorAssumption, NEW c \in Conn, Hello(c)
    PROVE  Inv'
<1>1. /\ c \in Connections /\ conn[c] \in Connection /\ conn \in [Conn -> Connection]
      /\ RecordOK(conn[c]) /\ Heard(conn[c]) /\ conn[c].request \in Message
      /\ conn[c].request.type = "hello" /\ conn[c].thread = "receive"
  BY ThreadState DEF Hello, Asked, Inv, TypeOK, Typed
<1>2. PICK thread \in {"registered", "unwelcome"} : Consume(c, thread)
  BY DEF Hello
<1>3. conn[c].request.boot \in Boot
  BY <1>1 DEF RecordOK
<1>4. /\ conn' \in [Conn -> Connection]
      /\ \A d \in Conn \ {c} : conn'[d] = conn[d]
      /\ conn'[c].thread = thread /\ conn'[c].request = NoMessage
      /\ conn'[c].asked = conn[c].request.boot
      /\ conn'[c].peer = conn[c].peer /\ conn'[c].open = conn[c].open
      /\ conn'[c].boot = conn[c].boot /\ conn'[c].answer = conn[c].answer
      /\ conn'[c].reply = conn[c].reply
  BY <1>1, <1>2, <1>3 DEF Consume, Connection, Thread, NoMessage, Message
<1>5. /\ UNCHANGED <<epoch, fenced, speaking, sets>>
      /\ registered' = registered \/ /\ conn[c].request.boot \notin fenced
                                     /\ registered' = registered \cup {conn[c].request.boot}
  BY DEF Hello, Registry!Register, registry
<1>6. Typed'
  BY <1>3, <1>4, <1>5 DEF Inv, TypeOK, Typed, Hello, Rest, lifecycle, store
<1>7. RecordOK(conn[c])' /\ Heard(conn[c])'
  BY <1>1, <1>3, <1>4, <1>5 DEF RecordOK, Heard, Anonymous, set, NoMessage
<1>8. RegistryOK'
  BY <1>5, PayloadsKept DEF Inv, RegistryOK, Hello, store
<1>9. set' = set /\ set \in Nat /\ conn[c].boot = NoBoot
  <2>1. set' = set /\ set \in Nat
    BY <1>5 DEF set, Inv, TypeOK, Typed
  <2> QED
    BY <1>1, <2>1 DEF RecordOK
<1>10. speaking \subseteq Boot /\ boots \subseteq Boot /\ NoBoot \notin Boot
  BY DEF Inv, TypeOK, Typed, CoordinatorAssumption
<1> QED
  BY <1>1, <1>4, <1>5, <1>6, <1>7, <1>8, <1>9, <1>10, ThreadStep
     DEF Hello, Rest, lifecycle

\* The answer to Hello that lets the client in.
LEMMA StepWelcome ==
    ASSUME Inv, CoordinatorAssumption, NEW c \in Conn, Welcome(c)
    PROVE  Inv'
<1>1. c \in Connections /\ RecordOK(conn[c]) /\ conn[c].boot = NoBoot
  BY ThreadState DEF Welcome, RecordOK, Anonymous
<1> DEFINE a == [type |-> "accepted", number |-> epoch]
<1>2. a \in Answer /\ UNCHANGED set
  BY DEF Inv, TypeOK, Typed, Answer, Welcome, registry, set
<1>3. Send(c, a, "welcomed") /\ conn[c].thread = "registered"
  BY DEF Welcome
<1>4. /\ conn' \in [Conn -> Connection]
      /\ \A d \in Conn \ {c} : conn'[d] = conn[d]
      /\ conn'[c].peer = conn[c].peer /\ conn'[c].open = conn[c].open
      /\ conn'[c].boot = conn[c].boot
      /\ conn'[c].thread \in {"welcomed", "lost"}
      /\ RecordOK(conn[c])' /\ Heard(conn[c])'
  <2> HIDE DEF a
  <2>1. "welcomed" \in Thread /\ a.type \notin {"committed", "status"}
    BY DEF Thread, a
  <2> QED
    BY <1>1, <1>2, <1>3, <2>1, Sends
<1>5. Typed'
  BY <1>4 DEF Inv, TypeOK, Typed, Welcome, Rest, lifecycle, registry, store
<1> QED
  BY <1>1, <1>4, <1>5, QuietStep, PayloadsKept DEF Welcome, Rest, lifecycle, registry

\* The boot becomes the connection's, and is listed.
LEMMA StepRecord ==
    ASSUME Inv, CoordinatorAssumption, NEW c \in Conn, Record(c)
    PROVE  Inv'
<1>1. /\ c \in Connections /\ conn[c] \in Connection /\ conn \in [Conn -> Connection]
      /\ RecordOK(conn[c]) /\ Heard(conn[c]) /\ conn[c].boot = NoBoot
      /\ conn[c].asked \in Boot
  BY ThreadState DEF Record, Inv, TypeOK, Typed, RecordOK, Anonymous
<1>2. /\ conn' \in [Conn -> Connection]
      /\ \A d \in Conn \ {c} : conn'[d] = conn[d]
      /\ conn'[c].thread = "receive" /\ conn'[c].boot = conn[c].asked
      /\ conn'[c].peer = conn[c].peer /\ conn'[c].open = conn[c].open
      /\ conn'[c].request = conn[c].request /\ conn'[c].answer = conn[c].answer
      /\ conn'[c].reply = conn[c].reply
  BY <1>1 DEF Record, Connection, Thread
<1>3. Typed'
  BY <1>1, <1>2 DEF Inv, TypeOK, Typed, Record, Rest, lifecycle, registry, store
<1>4. set' = set /\ set \in Nat
  BY ThreadState DEF set, Record, registry
<1>5. RecordOK(conn[c])' /\ Heard(conn[c])'
  BY <1>1, <1>2, <1>4 DEF Record, RecordOK, Heard, Anonymous
<1>6. RegistryOK'
  BY PayloadsKept DEF Inv, RegistryOK, Record, store, registry
<1>7. speaking \subseteq Boot /\ boots \subseteq Boot /\ NoBoot \notin Boot
  BY DEF Inv, TypeOK, Typed, CoordinatorAssumption
<1> QED
  BY <1>1, <1>2, <1>3, <1>4, <1>5, <1>6, <1>7, ThreadStep
     DEF Record, Rest, lifecycle, registry

\* A refusal ends the connection.
LEMMA StepUnwelcome ==
    ASSUME Inv, CoordinatorAssumption, NEW c \in Conn, Unwelcome(c)
    PROVE  Inv'
<1>1. c \in Connections /\ RecordOK(conn[c]) /\ conn[c].boot = NoBoot
  BY ThreadState DEF Unwelcome, RecordOK, Anonymous
<1> DEFINE a == [type |-> "refused", number |-> 0]
<1>2. a \in Answer /\ UNCHANGED set /\ "lost" \in Thread /\ a.type \notin {"committed", "status"}
  BY DEF Answer, Unwelcome, registry, set, Thread
<1>3. Send(c, a, "lost")
  BY DEF Unwelcome
<1>4. /\ conn' \in [Conn -> Connection]
      /\ \A d \in Conn \ {c} : conn'[d] = conn[d]
      /\ conn'[c].peer = conn[c].peer /\ conn'[c].open = conn[c].open
      /\ conn'[c].boot = conn[c].boot
      /\ conn'[c].thread \in {"lost"}
      /\ RecordOK(conn[c])' /\ Heard(conn[c])'
  <2> HIDE DEF a
  <2> QED
    BY <1>1, <1>2, <1>3, Sends
<1>5. Typed'
  BY <1>4 DEF Inv, TypeOK, Typed, Unwelcome, Rest, lifecycle, registry, store
<1> QED
  BY <1>1, <1>4, <1>5, QuietStep, PayloadsKept DEF Unwelcome, Rest, lifecycle, registry

\* A request that a served connection takes up.
LEMMA ServedState ==
    ASSUME Inv, NEW c \in Conn, NEW type, Served(c, type)
    PROVE  /\ c \in Connections /\ conn[c] \in Connection /\ conn \in [Conn -> Connection]
           /\ RecordOK(conn[c]) /\ Heard(conn[c]) /\ conn[c].request \in Message
           /\ conn[c].thread = "receive" /\ conn[c].thread \notin Anonymous
           /\ conn[c].boot \in Boot
           /\ set \in Nat
<1>1. conn[c].thread = "receive" /\ conn[c].boot # NoBoot
  BY DEF Served, Asked
<1>2. conn \in [Conn -> Connection] /\ conn[c].boot \in Boot
  BY <1>1 DEF Inv, TypeOK, Typed, Connection
<1> QED
  BY <1>1, <1>2, ThreadState DEF Anonymous

\* The result of a publication is known.
LEMMA Concludes ==
    ASSUME Inv, NEW c \in Conn, NEW a \in Answer, Served(c, "publish"), Conclude(c, a)
    PROVE  /\ conn' \in [Conn -> Connection]
           /\ \A d \in Conn \ {c} : conn'[d] = conn[d]
           /\ conn'[c].peer = conn[c].peer /\ conn'[c].open = conn[c].open
           /\ conn'[c].boot = conn[c].boot
           /\ conn'[c].thread = IF PersistOnMutation THEN "unsaved" ELSE "answer"
           /\ conn'[c].answer = a /\ conn'[c].reply = conn[c].reply
           /\ RecordOK(conn[c])'
<1>1. /\ conn[c] \in Connection /\ conn \in [Conn -> Connection]
      /\ RecordOK(conn[c])
  BY ServedState
<1>2. NoMessage \in Message
  BY DEF NoMessage, Message
<1>3. conn' \in [Conn -> Connection]
  BY <1>1, <1>2 DEF Conclude, Connection, Thread
<1>4. /\ \A d \in Conn \ {c} : conn'[d] = conn[d]
      /\ conn'[c].peer = conn[c].peer /\ conn'[c].open = conn[c].open
      /\ conn'[c].boot = conn[c].boot /\ conn'[c].request = NoMessage
      /\ conn'[c].thread = IF PersistOnMutation THEN "unsaved" ELSE "answer"
      /\ conn'[c].answer = a /\ conn'[c].reply = conn[c].reply
  BY <1>1 DEF Conclude, Connection
<1>5. RecordOK(conn[c])'
  BY <1>1, <1>4 DEF RecordOK, Anonymous, NoMessage
<1> QED
  BY <1>3, <1>4, <1>5

\* A publication that the registry commits.
LEMMA StepPublishCommitted ==
    ASSUME Inv, CoordinatorAssumption, NEW c \in Conn, PublishCommitted(c)
    PROVE  Inv'
<1>1. /\ c \in Connections /\ conn[c] \in Connection /\ conn[c].boot \in Boot
      /\ Heard(conn[c]) /\ set \in Nat
  BY ServedState DEF PublishCommitted
<1>2. /\ UNCHANGED <<epoch, registered, fenced>>
      /\ conn[c].boot \in registered \ fenced
      /\ speaking' = speaking \cup {conn[c].boot}
      /\ \E n \in {0, 1} : sets' = [sets EXCEPT ![Item] = @ + n]
  BY DEF PublishCommitted, Registry!Publish
<1>3. sets' \in [{Item} -> Nat] /\ set' \in Nat /\ set <= set'
  BY <1>2 DEF Inv, TypeOK, Typed, set
<1> DEFINE a == [type |-> "committed", number |-> set']
<1>4. a \in Answer /\ Conclude(c, a) /\ Served(c, "publish")
  BY <1>3 DEF Answer, PublishCommitted, set
<1>5. /\ conn' \in [Conn -> Connection]
      /\ \A d \in Conn \ {c} : conn'[d] = conn[d]
      /\ conn'[c].peer = conn[c].peer /\ conn'[c].open = conn[c].open
      /\ conn'[c].boot = conn[c].boot
      /\ conn'[c].thread \in {"unsaved", "answer"}
      /\ conn'[c].answer = a /\ conn'[c].reply = conn[c].reply
      /\ RecordOK(conn[c])'
  <2> HIDE DEF a
  <2> QED
    BY <1>4, Concludes
<1>6. Typed'
  BY <1>1, <1>2, <1>3, <1>5 DEF Inv, TypeOK, Typed, PublishCommitted, Rest, lifecycle, store
<1>7. Heard(conn[c])'
  <2>1. conn[c].reply.number \in Nat
    BY <1>1 DEF Connection, Answer
  <2> QED
    BY <1>1, <1>3, <1>5, <2>1 DEF Heard
<1>8. RegistryOK'
  BY <1>2, PayloadsKept DEF Inv, RegistryOK, PublishCommitted, store
<1> QED
  BY <1>1, <1>2, <1>3, <1>5, <1>6, <1>7, <1>8, ThreadStep
     DEF PublishCommitted, Rest, lifecycle

\* A publication that it does not.
LEMMA StepPublishRejected ==
    ASSUME Inv, CoordinatorAssumption, NEW c \in Conn, PublishRejected(c)
    PROVE  Inv'
<1>1. /\ c \in Connections /\ conn[c] \in Connection /\ conn[c].boot \in Boot
      /\ Heard(conn[c]) /\ UNCHANGED set
  BY ServedState DEF PublishRejected, registry, set
<1>2. PICK type \in {"stale", "rejected"} : Conclude(c, [type |-> type, number |-> 0])
  BY DEF PublishRejected
<1> DEFINE a == [type |-> type, number |-> 0]
<1>3. a \in Answer /\ Conclude(c, a) /\ Served(c, "publish")
      /\ a.type \notin {"committed", "status"}
  BY <1>2 DEF Answer, PublishRejected
<1>4. /\ conn' \in [Conn -> Connection]
      /\ \A d \in Conn \ {c} : conn'[d] = conn[d]
      /\ conn'[c].peer = conn[c].peer /\ conn'[c].open = conn[c].open
      /\ conn'[c].boot = conn[c].boot
      /\ conn'[c].thread \in {"unsaved", "answer"}
      /\ conn'[c].answer = a /\ conn'[c].reply = conn[c].reply
      /\ RecordOK(conn[c])'
  <2> HIDE DEF a
  <2> QED
    BY <1>3, Concludes
<1>5. Typed'
  BY <1>4 DEF Inv, TypeOK, Typed, PublishRejected, Rest, lifecycle, registry, store
<1>6. Heard(conn[c])'
  BY <1>1, <1>3, <1>4 DEF Heard
<1> QED
  BY <1>1, <1>4, <1>5, <1>6, QuietStep, PayloadsKept
     DEF PublishRejected, Rest, lifecycle, registry

\* A call to Save begins.
LEMMA Begins ==
    ASSUME Inv, NEW s \in Saver, BeginSave(s)
    PROVE  /\ stored' = stored /\ saves' \in [Saver -> Call]
           /\ saves'[s] = [phase |-> "pending", payload |-> Payload]
           /\ \A t \in Saver \ {s} : saves'[t] = saves[t]
           /\ Payload \in StoredRegistry
           /\ \A p \in {stored'} \cup {saves'[t].payload : t \in Saver} : Disjoint(p)
<1>1. Payload \in StoredRegistry /\ Disjoint(Payload)
  BY DEF Inv, TypeOK, Typed, RegistryOK, Payload, StoredRegistry, Disjoint, set
<1>2. saves \in [Saver -> Call]
  BY DEF Inv, TypeOK, Typed
<1>3. /\ saves' = [saves EXCEPT ![s] = [phase |-> "pending", payload |-> Payload]]
      /\ stored' = stored
  BY DEF BeginSave, Store!Begin, Store!Call
<1>4. [phase |-> "pending", payload |-> Payload] \in Call
  BY <1>1 DEF Call
<1> QED
  BY <1>1, <1>2, <1>3, <1>4 DEF Inv, RegistryOK

\* A call to Save returns.
LEMMA Returns ==
    ASSUME Inv, NEW s \in Saver, Store!Return(s)
    PROVE  /\ stored' = stored /\ saves' \in [Saver -> Call]
           /\ saves'[s] = [phase |-> "idle", payload |-> NoPayload]
           /\ \A t \in Saver \ {s} : saves'[t] = saves[t]
           /\ \A p \in {stored'} \cup {saves'[t].payload : t \in Saver} : Disjoint(p)
<1>1. saves \in [Saver -> Call] /\ [phase |-> "idle", payload |-> NoPayload] \in Call
  BY DEF Inv, TypeOK, Typed, Call
<1>2. /\ saves' = [saves EXCEPT ![s] = [phase |-> "idle", payload |-> NoPayload]]
      /\ stored' = stored
  BY DEF Store!Return, Store!Idle
<1> QED
  BY <1>1, <1>2 DEF Inv, RegistryOK, Disjoint

\* The capture of what a publication left.
LEMMA StepSaveMutation ==
    ASSUME Inv, CoordinatorAssumption, NEW c \in Conn, SaveMutation(c)
    PROVE  Inv'
<1>1. /\ c \in Connections /\ conn[c] \in Connection /\ conn \in [Conn -> Connection]
      /\ RecordOK(conn[c]) /\ Heard(conn[c])
  BY ThreadState DEF SaveMutation, Inv, TypeOK, Typed
<1>2. /\ conn' \in [Conn -> Connection]
      /\ \A d \in Conn \ {c} : conn'[d] = conn[d]
      /\ conn'[c] = [conn[c] EXCEPT !.thread = "answer"]
  BY <1>1 DEF SaveMutation, SetThread, Connection, Thread
<1>3. BeginSave(c) /\ c \in Saver
  BY DEF SaveMutation, Saver
<1>4. Typed'
  BY <1>2, <1>3, Begins DEF Inv, TypeOK, Typed, SaveMutation, Rest, lifecycle, registry
<1>5. RecordOK(conn[c])' /\ Heard(conn[c])'
  BY <1>1, <1>2 DEF RecordOK, Heard, Connection, Anonymous, set, SaveMutation, registry
<1>6. \A p \in {stored'} \cup {saves'[s].payload : s \in Saver} : Disjoint(p)
  BY <1>3, Begins
<1> QED
  BY <1>1, <1>2, <1>4, <1>5, <1>6, QuietStep
     DEF SaveMutation, Rest, lifecycle, registry, Connection

\* The acknowledgement, and what the client may have learned from it.
LEMMA StepAcknowledge ==
    ASSUME Inv, CoordinatorAssumption, NEW c \in Conn, Acknowledge(c)
    PROVE  Inv'
<1>1. /\ c \in Connections /\ conn[c] \in Connection /\ conn[c].answer \in Answer
      /\ RecordOK(conn[c]) /\ Heard(conn[c]) /\ conn[c].thread \notin Anonymous
      /\ UNCHANGED set
      /\ conn[c].answer.type \in {"committed", "status"} => conn[c].answer.number <= set
  BY ThreadState DEF Acknowledge, Anonymous, set, registry, Heard
<1>2. Send(c, conn[c].answer, "receive") /\ "receive" \in Thread
  BY DEF Acknowledge, Thread
<1>3. /\ conn' \in [Conn -> Connection]
      /\ \A d \in Conn \ {c} : conn'[d] = conn[d]
      /\ conn'[c].peer = conn[c].peer /\ conn'[c].open = conn[c].open
      /\ conn'[c].boot = conn[c].boot
      /\ conn'[c].thread \in {"receive", "lost"}
      /\ RecordOK(conn[c])' /\ Heard(conn[c])'
  <2>1. PICK a \in Answer : a = conn[c].answer
    BY <1>1
  <2> QED
    BY <1>1, <1>2, <2>1, Sends
<1>4. told' \in [set: Nat, acked: [Boot -> Nat]]
  <2>1. /\ told \in [set: Nat, acked: [Boot -> Nat]] /\ epoch \in Nat
        /\ conn[c].answer.number \in Nat
    BY <1>1 DEF Inv, TypeOK, Typed, Answer
  <2>2. \/ told' = told
        \/ told' = [set   |-> Larger(told.set, conn[c].answer.number),
                    acked |-> [told.acked EXCEPT ![conn[c].boot] = epoch]]
    BY DEF Acknowledge, Tell
  <2> QED
    BY <2>1, <2>2 DEF Larger
<1>5. /\ stored' = stored /\ saves' \in [Saver -> Call]
      /\ \A p \in {stored'} \cup {saves'[s].payload : s \in Saver} : Disjoint(p)
  <2>1. CASE saves[c].phase = "idle"
    BY <2>1, PayloadsKept DEF Acknowledge, store, Inv, TypeOK, Typed
  <2>2. CASE Store!Return(c)
    BY <2>2, Returns DEF Saver
  <2> QED
    BY <2>1, <2>2 DEF Acknowledge
<1>6. Typed'
  BY <1>3, <1>4, <1>5 DEF Inv, TypeOK, Typed, Acknowledge, lifecycle, registry
<1> QED
  BY <1>1, <1>3, <1>5, <1>6, QuietStep DEF Acknowledge, lifecycle, registry

\* Status tells the set generation of this moment.
LEMMA StepStatus ==
    ASSUME Inv, CoordinatorAssumption, NEW c \in Conn, Status(c)
    PROVE  Inv'
<1>1. /\ c \in Connections /\ conn[c].thread \notin Anonymous /\ set \in Nat
      /\ UNCHANGED set
  BY ServedState DEF Status, set, registry
<1> DEFINE a == [type |-> "status", number |-> set]
<1>2. Send(c, a, "receive") /\ a \in Answer /\ "receive" \in Thread /\ a.number <= set
  BY <1>1 DEF Status, Thread, Answer
<1>3. /\ conn' \in [Conn -> Connection]
      /\ \A d \in Conn \ {c} : conn'[d] = conn[d]
      /\ conn'[c].peer = conn[c].peer /\ conn'[c].open = conn[c].open
      /\ conn'[c].boot = conn[c].boot
      /\ conn'[c].thread \in {"receive", "lost"}
      /\ RecordOK(conn[c])' /\ Heard(conn[c])'
  <2> HIDE DEF a
  <2> QED
    BY <1>1, <1>2, Sends
<1>4. Typed'
  BY <1>3 DEF Inv, TypeOK, Typed, Status, Rest, lifecycle, registry, store
<1> QED
  BY <1>1, <1>3, <1>4, QuietStep, PayloadsKept DEF Status, Rest, lifecycle, registry

\* A fence is asked for: of a listed boot, or refused.
LEMMA StepFenceAsked ==
    ASSUME Inv, CoordinatorAssumption, NEW c \in Conn, FenceAsked(c)
    PROVE  Inv'
<1>1. /\ c \in Connections /\ conn[c] \in Connection /\ conn \in [Conn -> Connection]
      /\ conn[c].thread \notin Anonymous /\ set \in Nat
      /\ RecordOK(conn[c]) /\ Heard(conn[c]) /\ UNCHANGED set
  BY ServedState DEF FenceAsked, set, registry
<1> DEFINE a == [type |-> "error", number |-> 0]
<1>2. /\ conn' \in [Conn -> Connection]
      /\ \A d \in Conn \ {c} : conn'[d] = conn[d]
      /\ conn'[c].peer = conn[c].peer /\ conn'[c].open = conn[c].open
      /\ conn'[c].boot = conn[c].boot
      /\ conn'[c].thread \in {"fencing", "receive", "lost"}
      /\ RecordOK(conn[c])' /\ Heard(conn[c])'
  <2>1. CASE conn[c].request.boot \in boots /\ Consume(c, "fencing")
    <3>1. conn[c].request.boot \in Boot
      BY <2>1 DEF Inv, TypeOK, Typed
    <3>2. /\ conn' \in [Conn -> Connection]
          /\ \A d \in Conn \ {c} : conn'[d] = conn[d]
          /\ conn'[c].thread = "fencing" /\ conn'[c].request = NoMessage
          /\ conn'[c].asked = conn[c].request.boot
          /\ conn'[c].peer = conn[c].peer /\ conn'[c].open = conn[c].open
          /\ conn'[c].boot = conn[c].boot /\ conn'[c].answer = conn[c].answer
          /\ conn'[c].reply = conn[c].reply
      BY <1>1, <2>1, <3>1 DEF Consume, Connection, Thread, NoMessage, Message
    <3> QED
      BY <1>1, <3>1, <3>2 DEF RecordOK, Heard, Anonymous, NoMessage
  <2>2. CASE Send(c, a, "receive")
    <3>1. a \in Answer /\ "receive" \in Thread /\ a.type \notin {"committed", "status"}
      BY DEF Thread, Answer
    <3> HIDE DEF a
    <3> QED
      BY <1>1, <2>2, <3>1, Sends
  <2> QED
    BY <2>1, <2>2 DEF FenceAsked
<1>3. Typed'
  BY <1>2 DEF Inv, TypeOK, Typed, FenceAsked, Rest, lifecycle, registry, store
<1> QED
  BY <1>1, <1>2, <1>3, QuietStep, PayloadsKept DEF FenceAsked, Rest, lifecycle, registry

\* FenceWorkerBoot on the registry.
LEMMA Fences ==
    ASSUME Inv, NEW b \in Boot, FenceBoot(b)
    PROVE  /\ UNCHANGED <<epoch, sets>>
           /\ registered' \subseteq registered /\ fenced' \subseteq Boot
           /\ speaking' \subseteq speaking \ {b}
           /\ speaking' \subseteq registered' /\ registered' \cap fenced' = {}
           /\ b \in fenced' /\ fenced \subseteq fenced'
           /\ registered' \cup fenced' = registered \cup fenced \cup {b}
<1>1. /\ speaking \subseteq registered /\ registered \cap fenced = {} /\ fenced \subseteq Boot
  BY DEF Inv, RegistryOK, TypeOK, Typed
<1>2. CASE b \in fenced
  BY <1>1, <1>2 DEF FenceBoot, registry
<1>3. CASE b \notin fenced
  BY <1>1, <1>3 DEF FenceBoot, Registry!Fence
<1> QED
  BY <1>2, <1>3

\* The fence that was asked for.
LEMMA StepFenceTarget ==
    ASSUME Inv, CoordinatorAssumption, NEW c \in Conn, FenceTarget(c)
    PROVE  Inv'
<1>1. /\ c \in Connections /\ conn[c] \in Connection /\ conn \in [Conn -> Connection]
      /\ RecordOK(conn[c]) /\ Heard(conn[c]) /\ conn[c].asked \in Boot
      /\ conn[c].thread = "fencing"
  BY ThreadState DEF FenceTarget, Inv, TypeOK, Typed, RecordOK
<1>2. /\ conn' \in [Conn -> Connection]
      /\ \A d \in Conn \ {c} : conn'[d] = conn[d]
      /\ conn'[c] = [conn[c] EXCEPT !.thread = "erasing"]
  BY <1>1 DEF FenceTarget, SetThread, Connection, Thread
<1>3. /\ UNCHANGED <<epoch, sets>> /\ registered' \subseteq registered
      /\ fenced' \subseteq Boot /\ speaking' \subseteq speaking
      /\ speaking' \subseteq registered' /\ registered' \cap fenced' = {}
  BY <1>1, Fences DEF FenceTarget
<1>4. Typed'
  BY <1>2, <1>3 DEF Inv, TypeOK, Typed, FenceTarget, Rest, lifecycle, store
<1>5. set' = set /\ set \in Nat
  BY <1>3 DEF set, Inv, TypeOK, Typed
<1>6. RecordOK(conn[c])' /\ Heard(conn[c])'
  BY <1>1, <1>2, <1>5 DEF RecordOK, Heard, Connection, Anonymous
<1>7. RegistryOK'
  BY <1>3, PayloadsKept DEF Inv, RegistryOK, FenceTarget, store
<1> QED
  BY <1>1, <1>2, <1>3, <1>4, <1>5, <1>6, <1>7, ThreadStep
     DEF FenceTarget, Rest, lifecycle, Connection

\* The boot that was fenced is no longer listed.
LEMMA StepFenceDone ==
    ASSUME Inv, CoordinatorAssumption, NEW c \in Conn, FenceDone(c)
    PROVE  Inv'
<1>1. c \in Connections /\ conn[c].thread \notin Anonymous /\ UNCHANGED set
  BY ThreadState DEF FenceDone, Anonymous, set, registry
<1> DEFINE a == [type |-> "fenced", number |-> 0]
<1>2. /\ Send(c, a, "receive") /\ a \in Answer /\ "receive" \in Thread
      /\ a.type \notin {"committed", "status"}
  BY DEF FenceDone, Thread, Answer
<1>3. /\ conn' \in [Conn -> Connection]
      /\ \A d \in Conn \ {c} : conn'[d] = conn[d]
      /\ conn'[c].peer = conn[c].peer /\ conn'[c].open = conn[c].open
      /\ conn'[c].boot = conn[c].boot
      /\ conn'[c].thread \in {"receive", "lost"}
      /\ RecordOK(conn[c])' /\ Heard(conn[c])'
  <2> HIDE DEF a
  <2> QED
    BY <1>1, <1>2, Sends
<1>4. Typed' /\ boots' \subseteq boots
  BY <1>3 DEF Inv, TypeOK, Typed, FenceDone, Rest, lifecycle, registry, store
<1> QED
  BY <1>1, <1>3, <1>4, QuietStep, PayloadsKept DEF FenceDone, Rest, lifecycle, registry

\* The fence of a lost connection's boot.
LEMMA StepLose ==
    ASSUME Inv, CoordinatorAssumption, NEW c \in Conn, Lose(c)
    PROVE  Inv'
<1>1. /\ c \in Connections /\ conn[c] \in Connection /\ conn \in [Conn -> Connection]
      /\ RecordOK(conn[c]) /\ Heard(conn[c]) /\ conn[c].thread = "lost"
  BY ThreadState DEF Lose, Inv, TypeOK, Typed
<1>2. /\ conn' \in [Conn -> Connection]
      /\ \A d \in Conn \ {c} : conn'[d] = conn[d]
      /\ conn'[c] = [conn[c] EXCEPT !.thread = "leave"]
  BY <1>1 DEF Lose, SetThread, Connection, Thread
<1>3. /\ UNCHANGED <<epoch, sets>> /\ registered' \subseteq registered
      /\ fenced' \subseteq Boot /\ speaking' \subseteq speaking \ {conn[c].boot}
      /\ speaking' \subseteq registered' /\ registered' \cap fenced' = {}
  <2>1. CASE conn[c].boot = NoBoot
    BY <2>1 DEF Lose, Inv, RegistryOK, TypeOK, Typed, registry, CoordinatorAssumption
  <2>2. CASE conn[c].boot # NoBoot
    <3>1. conn[c].boot \in Boot
      BY <1>1, <2>2 DEF Connection
    <3> QED
      BY <2>2, <3>1, Fences DEF Lose
  <2> QED
    BY <2>1, <2>2
<1>4. Typed'
  BY <1>2, <1>3 DEF Inv, TypeOK, Typed, Lose, Rest, lifecycle, store
<1>5. set' = set /\ set \in Nat
  BY <1>3 DEF set, Inv, TypeOK, Typed
<1>6. RecordOK(conn[c])' /\ Heard(conn[c])'
  BY <1>1, <1>2, <1>5 DEF RecordOK, Heard, Connection, Anonymous
<1>7. RegistryOK'
  BY <1>3, PayloadsKept DEF Inv, RegistryOK, Lose, store
<1> QED
  BY <1>1, <1>2, <1>3, <1>4, <1>5, <1>6, <1>7, ThreadStep
     DEF Lose, Rest, lifecycle, Connection

\* What is dropped keeps the client's end.
LEMMA DroppedRecord ==
    ASSUME Inv, NEW c \in Conn
    PROVE  /\ Dropped(c) \in Connection
           /\ Dropped(c).thread = "none" /\ ~Dropped(c).open
           /\ Dropped(c).peer = conn[c].peer /\ Dropped(c).boot = NoBoot
           /\ Dropped(c).request = NoMessage /\ Dropped(c).answer = NoAnswer
           /\ Dropped(c).reply = conn[c].reply
           /\ RecordOK(Dropped(c))
           /\ Dropped(c).answer.type \notin {"committed", "status"}
<1>1. conn[c] \in Connection
  BY DEF Inv, TypeOK, Typed
<1>2. NoAnswer \in Answer /\ NoMessage \in Message
  BY DEF NoAnswer, Answer, NoMessage, Message
<1>3. NoConnection \in Connection
  BY <1>2 DEF NoConnection, Connection, Thread
<1>4. Dropped(c) \in Connection
  BY <1>1, <1>3 DEF Dropped, Connection
<1>5. /\ Dropped(c).thread = NoConnection.thread /\ Dropped(c).open = NoConnection.open
      /\ Dropped(c).peer = conn[c].peer /\ Dropped(c).boot = NoConnection.boot
      /\ Dropped(c).request = NoConnection.request /\ Dropped(c).answer = NoConnection.answer
      /\ Dropped(c).reply = conn[c].reply
  BY <1>3 DEF Dropped, Connection
<1>6. /\ NoConnection.thread = "none" /\ NoConnection.open = FALSE
      /\ NoConnection.boot = NoBoot
      /\ NoConnection.request = NoMessage /\ NoConnection.answer = NoAnswer
  BY DEF NoConnection
<1> QED
  BY <1>4, <1>5, <1>6 DEF RecordOK, NoMessage, NoAnswer

\* The connection is forgotten, with its boot.
LEMMA StepLeave ==
    ASSUME Inv, CoordinatorAssumption, NEW c \in Conn, Leave(c)
    PROVE  Inv'
<1>1. /\ c \in Connections /\ conn[c] \in Connection /\ conn \in [Conn -> Connection]
      /\ conn[c].thread = "leave"
  BY ThreadState DEF Leave, Inv, TypeOK, Typed
<1>2. /\ conn' \in [Conn -> Connection]
      /\ \A d \in Conn \ {c} : conn'[d] = conn[d]
      /\ conn'[c] = Dropped(c)
  BY <1>1, DroppedRecord DEF Leave
<1>3. Typed' /\ set' = set /\ set \in Nat
  BY <1>2 DEF Inv, TypeOK, Typed, Leave, Rest, lifecycle, registry, store, set
<1>4. RecordOK(conn[c])' /\ Heard(conn[c])'
  BY <1>2, DroppedRecord DEF RecordOK, Heard
<1>5. RegistryOK'
  BY PayloadsKept DEF Inv, RegistryOK, Leave, registry, store
<1>6. boots' = boots \ {conn[c].boot} /\ speaking' = speaking
  BY DEF Leave, registry
<1> QED
  BY <1>1, <1>2, <1>3, <1>4, <1>5, <1>6, DroppedRecord, ThreadStep
     DEF Leave, Rest, lifecycle

\* Every step of a connection's thread.
LEMMA StepServe ==
    ASSUME Inv, CoordinatorAssumption, NEW c \in Conn, Serve(c)
    PROVE  Inv'
BY StepReceiveNothing, StepHello, StepWelcome, StepRecord, StepUnwelcome,
   StepPublishCommitted, StepPublishRejected, StepSaveMutation, StepAcknowledge,
   StepStatus, StepFenceAsked, StepFenceTarget, StepFenceDone, StepLose, StepLeave
   DEF Serve

-----------------------------------------------------------------------------
(* Steps of a client.                                                      *)

\* A client writes on its own connection, or on one it opens.
WrittenBy(w, c) ==
    /\ conn[c].peer \in {w, NoWorker}
    /\ conn'[c].boot = conn[c].boot
    /\ \/ conn'[c].thread = conn[c].thread /\ conn'[c].open = conn[c].open
       \/ phase = "serving" /\ conn[c].thread = "none" /\ conn'[c].thread = "backlog"
    /\ RecordOK(conn[c])' /\ Heard(conn[c])'

\* A step of the client w.
LEMMA ClientStep ==
    ASSUME Inv, CoordinatorAssumption, Typed', NEW w \in Worker, UNCHANGED Server,
           \A c \in Conn : conn'[c] = conn[c] \/ WrittenBy(w, c),
           \A v \in Worker \ {w} : client'[v] = client[v],
           ClientOK(w)'
    PROVE  Inv'
<1>1. /\ UNCHANGED <<phase, boots, epoch, registered, fenced, speaking, sets, stored, saves>>
      /\ set' = set
  BY DEF Server, lifecycle, registry, store, set
<1>2. Connections' \subseteq Connections
  BY DEF Connections, WrittenBy
<1>3. TypeOK' /\ IsFiniteSet(Connections)'
  BY <1>2, FewerConnections DEF TypeOK
<1>4. ASSUME NEW c \in Conn PROVE (RecordOK(conn[c]) /\ Heard(conn[c]))'
  BY <1>1 DEF Inv, ConnectionsOK, WrittenBy, RecordOK, Heard
<1>5. ASSUME NEW v \in Worker \ {w} PROVE ClientOK(v)'
  <2>1. ClientOK(v) /\ client'[v] = client[v] /\ client[v] \in Client
    BY DEF Inv, ClientsOK, TypeOK, Typed
  <2>2. CASE client[v].conn = NoConn
    BY <2>1, <2>2 DEF ClientOK
  <2>3. CASE client[v].conn # NoConn
    <3>1. client[v].conn \in Conn /\ conn[client[v].conn].peer = v /\ v # NoWorker
      BY <2>1, <2>3 DEF Client, ClientOK, CoordinatorAssumption
    <3>2. conn'[client[v].conn] = conn[client[v].conn]
      BY <3>1 DEF WrittenBy
    <3> QED
      BY <1>1, <2>1, <3>1, <3>2 DEF ClientOK
  <2> QED
    BY <2>2, <2>3
<1>6. PhaseOK'
  BY <1>1 DEF Inv, PhaseOK, NotServing, WrittenBy
<1>7. RegistryOK'
  BY <1>1 DEF Inv, RegistryOK
<1>8. SpeakersAreServed' /\ ScopesAreServed'
  BY <1>1 DEF Inv, SpeakersAreServed, ScopesAreServed, WrittenBy
<1> QED
  BY <1>3, <1>4, <1>5, <1>6, <1>7, <1>8 DEF Inv, ConnectionsOK, ClientsOK

\* What a client in a call, or with a connection, holds.
LEMMA ClientState ==
    ASSUME Inv, CoordinatorAssumption, NEW w \in Worker, client[w].conn # NoConn
    PROVE  /\ client[w].conn \in Conn /\ conn[client[w].conn].peer = w
           /\ client[w] \in Client /\ client \in [Worker -> Client]
           /\ conn[client[w].conn] \in Connection /\ conn \in [Conn -> Connection]
           /\ RecordOK(conn[client[w].conn]) /\ Heard(conn[client[w].conn])
           /\ client[w].life <= MaxLife /\ BootOf(w) \in Boot
           /\ conn[client[w].conn].open => client[w].cache <= set
           /\ set \in Nat
<1>1. client[w] \in Client /\ client \in [Worker -> Client] /\ ClientOK(w) /\ set \in Nat
      /\ conn \in [Conn -> Connection]
  BY DEF Inv, ClientsOK, TypeOK, Typed, set
<1>2. client[w].conn \in Conn /\ client[w].life \in 1..MaxLife
  BY <1>1 DEF Client, ClientOK, CoordinatorAssumption
<1> QED
  BY <1>1, <1>2 DEF ClientOK, Inv, ConnectionsOK, BootOf, Boot

\* A client that connects.
LEMMA StepConnect ==
    ASSUME Inv, CoordinatorAssumption, NEW w \in Worker, Connect(w)
    PROVE  Inv'
<1>1. PICK c \in Conn : conn[c] = NoConnection /\ c = CHOOSE free \in Free : TRUE
  BY DEF Connect, Free
<1>2. PICK e \in HelloEpochs :
         conn' = [conn EXCEPT ![c] =
            [NoConnection EXCEPT
                !.thread = "backlog", !.open = TRUE, !.peer = w,
                !.request = [type |-> "hello", boot |-> BootOf(w), number |-> e]]]
  BY <1>1 DEF Connect
<1>3. client' = [client EXCEPT ![w].conn = c, ![w].call = "hello"]
  BY <1>1 DEF Connect
<1>4. /\ client \in [Worker -> Client] /\ client[w] \in Client /\ conn \in [Conn -> Connection]
      /\ client[w].conn = NoConn /\ client[w].cache = -1 /\ client[w].life <= MaxLife
      /\ phase = "serving" /\ set \in Nat
  BY DEF Inv, ClientsOK, ClientOK, TypeOK, Typed, Connect, set
<1>5. BootOf(w) \in Boot /\ e \in Nat
  BY <1>4 DEF Client, BootOf, Boot, CoordinatorAssumption
<1>6. NoConnection \in Connection
  BY DEF NoConnection, Connection, Thread, NoAnswer, Answer, NoMessage, Message
<1>7. /\ conn' \in [Conn -> Connection]
      /\ \A d \in Conn \ {c} : conn'[d] = conn[d]
      /\ conn'[c].thread = "backlog" /\ conn'[c].peer = w /\ conn'[c].open
      /\ conn'[c].request = [type |-> "hello", boot |-> BootOf(w), number |-> e]
      /\ conn'[c].boot = NoConnection.boot /\ conn'[c].answer = NoConnection.answer
      /\ conn'[c].reply = NoConnection.reply
  BY <1>1, <1>2, <1>4, <1>5, <1>6 DEF Connection, Thread, Message
<1>8. WrittenBy(w, c)
  <2>1. /\ NoConnection.boot = NoBoot /\ NoConnection.thread = "none"
        /\ NoConnection.peer = NoWorker
        /\ NoConnection.answer = NoAnswer /\ NoConnection.reply = NoAnswer
    BY DEF NoConnection
  <2>2. RecordOK(conn[c])'
    BY <1>5, <1>7, <2>1 DEF RecordOK
  <2>3. Heard(conn[c])'
    BY <1>7, <2>1 DEF Heard, NoAnswer
  <2> QED
    BY <1>1, <1>4, <1>7, <2>1, <2>2, <2>3 DEF WrittenBy
<1>9. /\ client' \in [Worker -> Client]
      /\ \A v \in Worker \ {w} : client'[v] = client[v]
      /\ client'[w].conn = c /\ client'[w].life = client[w].life /\ client'[w].cache = -1
  BY <1>1, <1>3, <1>4 DEF Client
<1>10. Typed'
  BY <1>7, <1>9 DEF Inv, TypeOK, Typed, Connect, Server, lifecycle, registry, store
<1>11. ClientOK(w)'
  <2>1. set' = set /\ c # NoConn
    BY <1>1 DEF Connect, Server, registry, set, CoordinatorAssumption
  <2> QED
    BY <1>4, <1>7, <1>9, <2>1 DEF ClientOK
<1> QED
  <2>1. UNCHANGED Server
    BY DEF Connect
  <2>2. \A d \in Conn : conn'[d] = conn[d] \/ WrittenBy(w, d)
    BY <1>7, <1>8
  <2> QED
    BY <1>9, <1>10, <1>11, <2>1, <2>2, ClientStep

\* A client keeps its connection, with another call or another cache.
Keeps(w) ==
    /\ client' \in [Worker -> Client]
    /\ \A v \in Worker \ {w} : client'[v] = client[v]
    /\ client'[w].conn = client[w].conn /\ client'[w].life = client[w].life
    /\ conn[client[w].conn].open => client'[w].cache <= set

\* A client that writes on its connection c and keeps it.
LEMMA KeepingStep ==
    ASSUME Inv, CoordinatorAssumption, NEW w \in Worker, NEW c \in Conn, client[w].conn = c,
           UNCHANGED Server, conn' \in [Conn -> Connection],
           \A d \in Conn \ {c} : conn'[d] = conn[d], WrittenBy(w, c),
           conn'[c].peer = w, conn'[c].open = conn[c].open, Keeps(w)
    PROVE  Inv'
<1>1. client[w].life <= MaxLife /\ c # NoConn
  BY ClientState DEF CoordinatorAssumption
<1>2. Typed' /\ set' = set
  BY DEF Inv, TypeOK, Typed, Keeps, Server, lifecycle, registry, store, set
<1>3. ClientOK(w)'
  BY <1>1, <1>2 DEF ClientOK, Keeps
<1> QED
  BY <1>2, <1>3, ClientStep DEF Keeps

\* A client that has no connection any more, nor a call.
Leaves(w) ==
    /\ client' \in [Worker -> Client]
    /\ \A v \in Worker \ {w} : client'[v] = client[v]
    /\ client'[w].conn = NoConn /\ client'[w].cache = -1 /\ client'[w].call = "idle"

\* A client that leaves its connection.
LEMMA LeavingStep ==
    ASSUME Inv, CoordinatorAssumption, NEW w \in Worker, NEW c \in Conn, client[w].conn = c,
           UNCHANGED Server, Leaves(w),
           conn' = [conn EXCEPT ![c].peer = NoWorker, ![c].reply = NoAnswer]
    PROVE  Inv'
<1>1. /\ conn \in [Conn -> Connection]
      /\ conn[c] \in Connection /\ conn[c].peer = w /\ RecordOK(conn[c]) /\ Heard(conn[c])
  BY ClientState DEF Inv, TypeOK, Typed, CoordinatorAssumption
<1>2. /\ conn' \in [Conn -> Connection]
      /\ \A d \in Conn \ {c} : conn'[d] = conn[d]
      /\ conn'[c] = [conn[c] EXCEPT !.peer = NoWorker, !.reply = NoAnswer]
  BY <1>1 DEF Connection, NoAnswer, Answer
<1>3. Typed' /\ set' = set
  BY <1>2 DEF Leaves, Inv, TypeOK, Typed, Server, lifecycle, registry, store, set
<1>4. WrittenBy(w, c)
  BY <1>1, <1>2, <1>3 DEF WrittenBy, RecordOK, Heard, NoAnswer, Connection
<1>5. ClientOK(w)'
  BY DEF ClientOK, Leaves
<1> QED
  BY <1>2, <1>3, <1>4, <1>5, ClientStep DEF Leaves

\* A request goes out, or is lost on a closed socket.
LEMMA Asks ==
    ASSUME Inv, CoordinatorAssumption, NEW w \in Worker, NEW c \in Conn, client[w].conn = c,
           UNCHANGED Server, NEW type, type \in {"publish", "status", "fence"},
           NEW b \in Boot, NEW n \in Nat, Ask(w, type, b, n)
    PROVE  /\ conn' \in [Conn -> Connection]
           /\ \A d \in Conn \ {c} : conn'[d] = conn[d]
           /\ WrittenBy(w, c) /\ conn'[c].peer = w /\ conn'[c].open = conn[c].open
<1>1. /\ conn \in [Conn -> Connection]
      /\ conn[c] \in Connection /\ conn[c].peer = w /\ RecordOK(conn[c]) /\ Heard(conn[c])
  BY ClientState DEF CoordinatorAssumption
<1> DEFINE q == IF conn[c].open THEN [type |-> type, boot |-> b, number |-> n] ELSE NoMessage
<1>2. q \in Message /\ q.type # "hello" /\ (q.type # "none" => q.boot \in Boot)
  BY DEF Message, NoMessage
<1>3. conn' = [conn EXCEPT ![c].reply = NoAnswer, ![c].request = q]
  BY DEF Ask
<1> HIDE DEF q
<1>4. /\ conn' \in [Conn -> Connection]
      /\ \A d \in Conn \ {c} : conn'[d] = conn[d]
      /\ conn'[c] = [conn[c] EXCEPT !.reply = NoAnswer, !.request = q]
  BY <1>1, <1>2, <1>3 DEF Connection, NoAnswer, Answer
<1>5. set' = set
  BY DEF Server, registry, set
<1>6. /\ conn'[c].peer = w /\ conn'[c].open = conn[c].open /\ conn'[c].boot = conn[c].boot
      /\ conn'[c].thread = conn[c].thread /\ conn'[c].asked = conn[c].asked
      /\ conn'[c].answer = conn[c].answer
      /\ conn'[c].reply = NoAnswer /\ conn'[c].request = q
  BY <1>1, <1>4 DEF Connection
<1>7. RecordOK(conn[c])' /\ Heard(conn[c])'
  BY <1>1, <1>2, <1>5, <1>6 DEF RecordOK, Heard, NoAnswer
<1> QED
  BY <1>1, <1>4, <1>6, <1>7 DEF WrittenBy

\* An answer is taken.
LEMMA Takes ==
    ASSUME Inv, CoordinatorAssumption, NEW w \in Worker, NEW c \in Conn, client[w].conn = c,
           UNCHANGED Server, conn' = Consumed(w)
    PROVE  /\ conn' \in [Conn -> Connection]
           /\ \A d \in Conn \ {c} : conn'[d] = conn[d]
           /\ WrittenBy(w, c) /\ conn'[c].peer = w /\ conn'[c].open = conn[c].open
<1>1. /\ conn \in [Conn -> Connection]
      /\ conn[c] \in Connection /\ conn[c].peer = w /\ RecordOK(conn[c]) /\ Heard(conn[c])
  BY ClientState DEF CoordinatorAssumption
<1>2. /\ conn' \in [Conn -> Connection]
      /\ \A d \in Conn \ {c} : conn'[d] = conn[d]
      /\ conn'[c] = [conn[c] EXCEPT !.reply = NoAnswer]
  BY <1>1 DEF Consumed, Connection, NoAnswer, Answer
<1>3. set' = set
  BY DEF Server, registry, set
<1> QED
  BY <1>1, <1>2, <1>3 DEF WrittenBy, RecordOK, Heard, NoAnswer, Connection

\* The entry of a client whose call changes.
LEMMA CallChanges ==
    ASSUME Inv, CoordinatorAssumption, NEW w \in Worker, client[w].conn # NoConn,
           NEW call \in {"idle", "publish", "status", "fence"},
           client' = [client EXCEPT ![w].call = call]
    PROVE  Keeps(w)
<1>1. /\ client \in [Worker -> Client] /\ client[w] \in Client
      /\ conn[client[w].conn].open => client[w].cache <= set
  BY ClientState
<1> QED
  BY <1>1 DEF Client, Keeps

\* The same, when the client also learns of the set.
LEMMA CacheChanges ==
    ASSUME Inv, CoordinatorAssumption, NEW w \in Worker, client[w].conn # NoConn,
           NEW call \in {"idle", "publish"}, NEW n \in Nat \cup {-1},
           conn[client[w].conn].open => n <= set,
           client' = [client EXCEPT ![w].call = call, ![w].cache = n]
    PROVE  Keeps(w)
<1>1. client \in [Worker -> Client] /\ client[w] \in Client
  BY ClientState
<1> QED
  BY <1>1 DEF Client, Keeps

\* A publication, or the question that precedes it.
LEMMA StepPublish ==
    ASSUME Inv, CoordinatorAssumption, NEW w \in Worker, Publish(w)
    PROVE  Inv'
<1>1. client[w].conn # NoConn
  BY DEF Publish, Connected
<1>2. PICK c \in Conn : client[w].conn = c
  BY <1>1, ClientState
<1>3. /\ client[w] \in Client /\ BootOf(w) \in Boot /\ client[w].cache \in Nat \cup {-1}
      /\ conn[c].open => client[w].cache <= set
  BY <1>1, <1>2, ClientState DEF Client
<1>4. UNCHANGED Server
  BY DEF Publish
<1>5. PICK call \in {"status", "publish"}, n \in Nat :
         Ask(w, call, BootOf(w), n) /\ client' = [client EXCEPT ![w].call = call]
  <2>1. CASE client[w].cache = -1
    BY <2>1 DEF Publish
  <2>2. CASE client[w].cache # -1
    BY <1>3, <2>2 DEF Publish
  <2> QED
    BY <2>1, <2>2
<1>6. /\ conn' \in [Conn -> Connection]
      /\ \A d \in Conn \ {c} : conn'[d] = conn[d]
      /\ WrittenBy(w, c) /\ conn'[c].peer = w /\ conn'[c].open = conn[c].open
  <2>1. PICK b \in Boot : b = BootOf(w)
    BY <1>3
  <2>2. Ask(w, call, b, n)
    BY <1>5, <2>1
  <2> QED
    BY <1>2, <1>4, <2>2, Asks
<1>7. Keeps(w)
  BY <1>1, <1>5, CallChanges
<1> QED
  BY <1>2, <1>4, <1>6, <1>7, KeepingStep

\* A request to fence a boot.
LEMMA StepFence ==
    ASSUME Inv, CoordinatorAssumption, NEW w \in Worker, NEW b \in Boot, Fence(w, b)
    PROVE  Inv'
<1>1. client[w].conn # NoConn
  BY DEF Fence, Connected
<1>2. PICK c \in Conn : client[w].conn = c
  BY <1>1, ClientState
<1>3. PICK type \in {"publish", "status", "fence"}, n \in Nat : Ask(w, type, b, n)
  BY DEF Fence
<1>4. UNCHANGED Server
  BY DEF Fence
<1>5. /\ conn' \in [Conn -> Connection]
      /\ \A d \in Conn \ {c} : conn'[d] = conn[d]
      /\ WrittenBy(w, c) /\ conn'[c].peer = w /\ conn'[c].open = conn[c].open
  BY <1>2, <1>3, <1>4, Asks
<1>6. Keeps(w)
  BY <1>1, CallChanges DEF Fence
<1> QED
  BY <1>2, <1>4, <1>5, <1>6, KeepingStep

\* CloseLocked, in whatever call.
LEMMA Closes ==
    ASSUME Inv, CoordinatorAssumption, NEW w \in Worker, client[w].conn # NoConn,
           CloseLocked(w), UNCHANGED Server
    PROVE  Inv'
<1>1. PICK c \in Conn : client[w].conn = c
  BY ClientState
<1>2. client \in [Worker -> Client] /\ client[w] \in Client
  BY ClientState
<1>3. conn' = [conn EXCEPT ![c].peer = NoWorker, ![c].reply = NoAnswer]
  BY <1>1 DEF CloseLocked
<1>4. Leaves(w)
  BY <1>2 DEF CloseLocked, Client, Leaves
<1> QED
  BY <1>1, <1>3, <1>4, LeavingStep

\* An idle client without a connection waits for nothing.
LEMMA Calling ==
    ASSUME Inv, NEW w \in Worker, client[w].call # "idle"
    PROVE  client[w].conn # NoConn
BY DEF Inv, ClientsOK, ClientOK

\* The answer to a call is taken.
LEMMA Learns ==
    ASSUME Inv, CoordinatorAssumption, NEW w \in Worker, client[w].conn # NoConn,
           UNCHANGED Server, conn' = Consumed(w), Keeps(w)
    PROVE  Inv'
<1>1. PICK c \in Conn : client[w].conn = c
  BY ClientState
<1>2. /\ conn' \in [Conn -> Connection]
      /\ \A d \in Conn \ {c} : conn'[d] = conn[d]
      /\ WrittenBy(w, c) /\ conn'[c].peer = w /\ conn'[c].open = conn[c].open
  BY <1>1, Takes
<1> QED
  BY <1>1, <1>2, KeepingStep

\* The answers to Hello and Fence, after which the cache is as before.
LEMMA StepAnswered ==
    ASSUME Inv, CoordinatorAssumption, NEW w \in Worker, HelloAccepted(w) \/ FenceAnswered(w)
    PROVE  Inv'
<1>1. client[w].conn # NoConn
  BY Calling DEF HelloAccepted, FenceAnswered, Answered
<1>2. /\ UNCHANGED Server /\ conn' = Consumed(w)
      /\ client' = [client EXCEPT ![w].call = "idle"]
  BY DEF HelloAccepted, FenceAnswered
<1> QED
  BY <1>1, <1>2, CallChanges, Learns

\* The status is cached.
LEMMA StepStatusAnswered ==
    ASSUME Inv, CoordinatorAssumption, NEW w \in Worker, StatusAnswered(w)
    PROVE  Inv'
<1>1. client[w].conn # NoConn
  BY Calling DEF StatusAnswered, Answered
<1>2. PICK c \in Conn : client[w].conn = c
  BY <1>1, ClientState
<1>3. /\ BootOf(w) \in Boot /\ conn[c] \in Connection /\ Heard(conn[c])
      /\ conn[c].reply.type = "status"
  BY <1>1, <1>2, ClientState DEF StatusAnswered, Answered
<1>4. PICK n \in Nat : n = Answers(w)
  BY <1>2, <1>3 DEF Answers, Connection, Answer
<1>5. conn[c].open => n <= set
  BY <1>2, <1>3, <1>4 DEF Heard, Answers
<1>6. UNCHANGED Server /\ Ask(w, "publish", BootOf(w), n)
  BY <1>4 DEF StatusAnswered
<1>7. /\ conn' \in [Conn -> Connection]
      /\ \A d \in Conn \ {c} : conn'[d] = conn[d]
      /\ WrittenBy(w, c) /\ conn'[c].peer = w /\ conn'[c].open = conn[c].open
  BY <1>2, <1>3, <1>6, Asks
<1>8. Keeps(w)
  BY <1>1, <1>2, <1>4, <1>5, CacheChanges DEF StatusAnswered
<1> QED
  BY <1>2, <1>6, <1>7, <1>8, KeepingStep

\* The result of a publication.
LEMMA StepPublishAnswered ==
    ASSUME Inv, CoordinatorAssumption, NEW w \in Worker, PublishAnswered(w)
    PROVE  Inv'
<1>1. client[w].conn # NoConn
  BY Calling DEF PublishAnswered, Answered
<1>2. PICK type \in {"committed", "stale", "rejected"} :
         /\ Answered(w, "publish", type)
         /\ client' = [client EXCEPT
                ![w].call = "idle",
                ![w].cache = CASE type = "committed" -> Answers(w)
                               [] type = "stale"     -> -1
                               [] type = "rejected"  -> @]
  BY DEF PublishAnswered
<1>3. UNCHANGED Server /\ conn' = Consumed(w)
  BY DEF PublishAnswered
<1>4. /\ client \in [Worker -> Client] /\ client[w] \in Client
      /\ conn[client[w].conn] \in Connection /\ Heard(conn[client[w].conn])
      /\ conn[client[w].conn].open => client[w].cache <= set
      /\ client[w].cache \in Nat \cup {-1} /\ set \in Nat
  BY <1>1, ClientState DEF Client
<1>5. CASE type = "committed"
  <2>1. client' = [client EXCEPT ![w].call = "idle", ![w].cache = Answers(w)]
    BY <1>2, <1>5
  <2>2. PICK n \in Nat : n = Answers(w) /\ (conn[client[w].conn].open => n <= set)
    BY <1>2, <1>4, <1>5 DEF Answers, Answered, Heard, Connection, Answer
  <2> QED
    BY <1>1, <1>3, <2>1, <2>2, CacheChanges, Learns
<1>6. CASE type = "stale"
  <2>1. client' = [client EXCEPT ![w].call = "idle", ![w].cache = -1]
    BY <1>2, <1>6
  <2>2. -1 \in Nat \cup {-1} /\ -1 <= set
    BY <1>4
  <2> QED
    BY <1>1, <1>3, <2>1, <2>2, CacheChanges, Learns
<1>7. CASE type = "rejected"
  <2>1. client' = [client EXCEPT ![w].call = "idle"]
    BY <1>2, <1>4, <1>7 DEF Client
  <2> QED
    BY <1>1, <1>3, <2>1, CallChanges, Learns
<1> QED
  BY <1>2, <1>5, <1>6, <1>7

\* A worker dies.
LEMMA StepDie ==
    ASSUME Inv, CoordinatorAssumption, NEW w \in Worker, Die(w)
    PROVE  Inv'
<1>1. /\ client \in [Worker -> Client] /\ client[w] \in Client
      /\ client[w].life <= MaxLife /\ UNCHANGED Server
  BY DEF Die, Inv, TypeOK, Typed
<1>2. PICK life \in 1..(MaxLife + 1) : life = client[w].life + 1
  BY <1>1 DEF Client, CoordinatorAssumption
<1>3. client' = [client EXCEPT ![w] = [life |-> life, conn |-> NoConn,
                                       cache |-> -1, call |-> "idle"]]
  BY <1>2 DEF Die
<1>4. Leaves(w)
  BY <1>1, <1>3 DEF Client, Leaves
<1>5. CASE client[w].conn = NoConn
  <2>1. conn' = conn
    BY <1>5 DEF Die
  <2>2. Typed'
    BY <1>1, <1>4, <2>1 DEF Leaves, Inv, TypeOK, Typed, Server, lifecycle, registry, store
  <2>3. ClientOK(w)'
    BY <1>4 DEF ClientOK, Leaves
  <2> QED
    BY <1>1, <1>4, <2>1, <2>2, <2>3, ClientStep DEF Leaves
<1>6. CASE client[w].conn # NoConn
  <2>1. PICK c \in Conn : client[w].conn = c
    BY <1>6, ClientState
  <2>2. conn' = [conn EXCEPT ![c].peer = NoWorker, ![c].reply = NoAnswer]
    BY <1>6, <2>1 DEF Die
  <2> QED
    BY <1>1, <1>4, <2>1, <2>2, LeavingStep
<1> QED
  BY <1>5, <1>6

\* Every step of a client.
LEMMA StepClient ==
    ASSUME Inv, CoordinatorAssumption, NEW w \in Worker,
           \/ Connect(w) \/ Publish(w) \/ Close(w) \/ Die(w) \/ Library(w)
           \/ \E b \in Boot : Fence(w, b)
    PROVE  Inv'
<1>1. CASE Close(w)
  BY <1>1, Closes DEF Close, Connected
<1>2. CASE HelloRefused(w)
  BY <1>2, Closes, Calling DEF HelloRefused, Answered
<1>3. CASE CallFailed(w)
  BY <1>3, Closes, Calling DEF CallFailed, Idle
<1> QED
  BY <1>1, <1>2, <1>3, StepConnect, StepPublish, StepDie, StepFence, StepAnswered,
     StepStatusAnswered, StepPublishAnswered DEF Library

-----------------------------------------------------------------------------
(* Start, Stop, crashes, and the accept thread.                            *)

\* A step that leaves the connections alone.
LEMMA GlobalStep ==
    ASSUME Inv, CoordinatorAssumption, Typed', UNCHANGED <<conn, client, boots>>,
           speaking' \subseteq speaking, set' = set \/ NotServing,
           NotServing' => NotServing, RegistryOK'
    PROVE  Inv'
<1>1. Connections' = Connections
  BY DEF Connections
<1>2. TypeOK' /\ IsFiniteSet(Connections)'
  BY <1>1 DEF Inv, TypeOK
<1>3. ASSUME NEW c \in Conn PROVE (RecordOK(conn[c]) /\ Heard(conn[c]))'
  BY DEF Inv, ConnectionsOK, PhaseOK, RecordOK, Heard
<1>4. ASSUME NEW w \in Worker PROVE ClientOK(w)'
  <2>1. CASE client[w].conn = NoConn
    BY <2>1 DEF Inv, ClientsOK, ClientOK
  <2>2. CASE client[w].conn # NoConn
    <3>1. client[w].conn \in Conn
      BY <2>2, ClientState
    <3> QED
      BY <2>2, <3>1 DEF Inv, ClientsOK, ClientOK, PhaseOK
  <2> QED
    BY <2>1, <2>2
<1>5. PhaseOK' /\ SpeakersAreServed' /\ ScopesAreServed'
  BY DEF Inv, PhaseOK, SpeakersAreServed, ScopesAreServed
<1> QED
  BY <1>2, <1>3, <1>4, <1>5 DEF Inv, ConnectionsOK, ClientsOK

\* A step of the coordinator that changes the connections.
LEMMA ConnectionsStep ==
    ASSUME Inv, CoordinatorAssumption, TypeOK', IsFiniteSet(Connections)', UNCHANGED client,
           set' = set \/ \A c \in Conn : ~conn'[c].open,
           \A c \in Conn : /\ conn'[c].peer = conn[c].peer
                           /\ conn'[c].open => conn[c].open
                           /\ (RecordOK(conn[c]) /\ Heard(conn[c]))',
           PhaseOK', RegistryOK', SpeakersAreServed', ScopesAreServed'
    PROVE  Inv'
<1>1. ASSUME NEW w \in Worker PROVE ClientOK(w)'
  <2>1. CASE client[w].conn = NoConn
    BY <2>1 DEF Inv, ClientsOK, ClientOK
  <2>2. CASE client[w].conn # NoConn
    <3>1. client[w].conn \in Conn
      BY <2>2, ClientState
    <3> QED
      BY <2>2, <3>1 DEF Inv, ClientsOK, ClientOK
  <2> QED
    BY <2>1, <2>2
<1> QED
  BY <1>1 DEF Inv, ConnectionsOK, ClientsOK

\* Load takes the registry out of the store, or begins a new one.
LEMMA StepLoad ==
    ASSUME Inv, CoordinatorAssumption, Load
    PROVE  Inv'
<1>1. sets \in [{Item} -> Nat] /\ NotServing
  BY DEF Inv, TypeOK, Typed, Load, NotServing
<1>2. CASE stored = NoPayload
  <2>1. UNCHANGED registry
    BY <1>2 DEF Load
  <2> QED
    BY <1>1, <2>1, GlobalStep
       DEF Load, Goto, Inv, TypeOK, Typed, RegistryOK, NotServing, store, registry
<1>3. CASE stored # NoPayload
  <2>1. stored \in StoredRegistry /\ stored.registered \cap stored.fenced = {}
    BY <1>3 DEF Inv, TypeOK, Typed, RegistryOK, Disjoint
  <2>2. /\ epoch' = stored.epoch /\ registered' = stored.registered
        /\ fenced' = stored.fenced /\ sets' = [sets EXCEPT ![Item] = stored.set]
        /\ speaking' = speaking
    BY <1>3 DEF Load
  <2>3. speaking = {}
    BY <1>1 DEF Inv, PhaseOK
  <2>4. Typed'
    BY <1>1, <2>1, <2>2 DEF Load, Goto, Inv, TypeOK, Typed, store, StoredRegistry
  <2>5. RegistryOK'
    BY <2>1, <2>2, <2>3 DEF Load, Inv, RegistryOK, store
  <2> QED
    BY <1>1, <2>2, <2>4, <2>5, GlobalStep DEF Load
<1> QED
  BY <1>2, <1>3

\* The boots of the last epoch are fenced.
LEMMA StepAdvanceEpoch ==
    ASSUME Inv, CoordinatorAssumption, AdvanceEpoch
    PROVE  Inv'
<1>1. /\ phase = "loaded" /\ phase' = "advanced" /\ epoch' = epoch + 1
      /\ registered' = {} /\ speaking' = {} /\ fenced' = fenced \cup registered
      /\ UNCHANGED <<acceptor, workers, joining, boots, conn, client, sets, store, told>>
  BY DEF AdvanceEpoch, Goto, Registry!AdvanceEpoch
<1>2. Typed'
  BY <1>1 DEF Inv, TypeOK, Typed, store
<1>3. RegistryOK' /\ set' = set /\ NotServing
  BY <1>1 DEF Inv, RegistryOK, store, set, NotServing
<1> QED
  BY <1>1, <1>2, <1>3, GlobalStep

\* The new epoch is captured.
LEMMA StepSaveEpoch ==
    ASSUME Inv, CoordinatorAssumption, SaveEpoch
    PROVE  Inv'
<1>1. BeginSave("main") /\ "main" \in Saver
  BY DEF SaveEpoch, Saver
<1>2. /\ UNCHANGED <<acceptor, workers, joining, boots, conn, client, registry, told>>
      /\ phase' = "saving" /\ NotServing
  BY DEF SaveEpoch, Goto, NotServing
<1>3. Typed'
  BY <1>1, <1>2, Begins DEF Inv, TypeOK, Typed, registry
<1>4. RegistryOK'
  BY <1>1, <1>2, Begins DEF Inv, RegistryOK, registry
<1> QED
  BY <1>2, <1>3, <1>4, GlobalStep DEF registry

\* The coordinator listens when its epoch is saved.
LEMMA StepListen ==
    ASSUME Inv, CoordinatorAssumption, Listen
    PROVE  Inv'
<1>1. /\ UNCHANGED <<workers, joining, boots, conn, client, registry, told>>
      /\ phase' = "serving" /\ acceptor' = "waiting"
      /\ UNCHANGED store \/ Store!Return("main")
  BY DEF Listen, Goto
<1>2. /\ stored' \in StoredRegistry \cup {NoPayload} /\ saves' \in [Saver -> Call]
      /\ Disjoint(stored') /\ \A s \in Saver : Disjoint(saves'[s].payload)
  <2>1. CASE UNCHANGED store
    BY <2>1 DEF Inv, TypeOK, Typed, RegistryOK, store
  <2>2. CASE Store!Return("main")
    BY <2>2, Returns DEF Saver, Inv, TypeOK, Typed
  <2> QED
    BY <1>1, <2>1, <2>2
<1>3. Typed'
  BY <1>1, <1>2 DEF Inv, TypeOK, Typed, registry
<1>4. RegistryOK'
  BY <1>1, <1>2 DEF Inv, RegistryOK, registry
<1> QED
  BY <1>1, <1>3, <1>4, GlobalStep DEF registry, set, NotServing

\* Without its epoch saved the process is down again, its registry new.
LEMMA StepStartFails ==
    ASSUME Inv, CoordinatorAssumption, StartFails
    PROVE  Inv'
<1>1. Store!Return("main") /\ "main" \in Saver
  BY DEF StartFails, Saver
<1>2. /\ UNCHANGED <<acceptor, workers, joining, boots, conn, client, told>>
      /\ phase' = "down" /\ epoch' = 1 /\ registered' = {} /\ fenced' = {} /\ speaking' = {}
      /\ sets' = [sets EXCEPT ![Item] = 0] /\ NotServing
  BY DEF StartFails, Goto, NewRegistry, NotServing
<1>3. Typed'
  BY <1>1, <1>2, Returns DEF Inv, TypeOK, Typed
<1>4. RegistryOK'
  BY <1>1, <1>2, Returns DEF RegistryOK
<1> QED
  BY <1>2, <1>3, <1>4, GlobalStep

\* The threads to join are chosen, or the accept thread has ended.
LEMMA StepQuietly ==
    ASSUME Inv, CoordinatorAssumption, TakeThreads \/ EndAccepting
    PROVE  Inv'
<1>1. /\ UNCHANGED <<boots, conn, client, registry, store, told>>
      /\ workers' \in {workers, {}} /\ joining' \in {joining, workers}
      /\ acceptor' \in {acceptor, "ended"} /\ phase' \in {phase, "joining"}
  BY DEF TakeThreads, EndAccepting, Goto
<1>2. Typed'
  BY <1>1 DEF Inv, TypeOK, Typed, registry, store
<1>3. RegistryOK'
  BY <1>1 DEF Inv, RegistryOK, registry, store
<1> QED
  BY <1>1, <1>2, <1>3, GlobalStep DEF registry, set, NotServing

\* The threads are joined, and what they left is captured.
LEMMA StepJoinThreads ==
    ASSUME Inv, CoordinatorAssumption, JoinThreads
    PROVE  Inv'
<1>1. /\ UNCHANGED <<acceptor, workers, boots, conn, client, registry, told>>
      /\ phase' = "finishing" /\ joining' = {}
      /\ UNCHANGED store \/ BeginSave("main")
  BY DEF JoinThreads, Goto
<1>2. /\ stored' \in StoredRegistry \cup {NoPayload} /\ saves' \in [Saver -> Call]
      /\ Disjoint(stored') /\ \A s \in Saver : Disjoint(saves'[s].payload)
  <2>1. CASE UNCHANGED store
    BY <2>1 DEF Inv, TypeOK, Typed, RegistryOK, store
  <2>2. CASE BeginSave("main")
    BY <2>2, Begins DEF Saver, Inv, TypeOK, Typed
  <2> QED
    BY <1>1, <2>1, <2>2
<1>3. Typed'
  BY <1>1, <1>2 DEF Inv, TypeOK, Typed, registry
<1>4. RegistryOK'
  BY <1>1, <1>2 DEF Inv, RegistryOK, registry
<1> QED
  BY <1>1, <1>3, <1>4, GlobalStep DEF registry, set, NotServing

\* A save succeeds or fails.
LEMMA StepWrite ==
    ASSUME Inv, CoordinatorAssumption, NEW s \in Saver, Write(s)
    PROVE  Inv'
<1>1. UNCHANGED <<lifecycle, boots, conn, client, registry, told>>
  BY DEF Write
<1>2. saves \in [Saver -> Call] /\ saves[s] \in Call /\ saves[s].phase = "pending"
  BY DEF Inv, TypeOK, Typed, Write, Store!Commit, Store!Fail
<1>3. PICK end \in {"saved", "failed"} : saves' = [saves EXCEPT ![s].phase = end]
  BY DEF Write, Store!Commit, Store!Fail
<1>4. /\ saves' \in [Saver -> Call]
      /\ \A t \in Saver : saves'[t].payload = saves[t].payload
  BY <1>2, <1>3 DEF Call
<1>5. stored' \in {stored, saves[s].payload}
  BY DEF Write, Store!Commit, Store!Fail
<1>6. Typed'
  BY <1>1, <1>2, <1>4, <1>5 DEF Inv, TypeOK, Typed, Call, lifecycle, registry
<1>7. RegistryOK'
  BY <1>1, <1>4, <1>5 DEF Inv, RegistryOK, registry
<1> QED
  BY <1>1, <1>6, <1>7, GlobalStep DEF lifecycle, registry, set, NotServing

\* A boot that speaks or has a scope is the identity of no connection that
\* was not served yet.
LEMMA Identity ==
    ASSUME Inv, CoordinatorAssumption, NEW c \in Conn, conn[c].thread \in Anonymous
    PROVE  conn[c].boot \notin speaking \cup boots
BY DEF Inv, ConnectionsOK, RecordOK, TypeOK, Typed, CoordinatorAssumption

\* The listener is closed, with the connections that were not accepted.
LEMMA StepBeginStop ==
    ASSUME Inv, CoordinatorAssumption, BeginStop
    PROVE  Inv'
<1>1. /\ UNCHANGED <<acceptor, workers, joining, boots, client, registry, store, told>>
      /\ phase' = "stopping" /\ conn' = [c \in Conn |-> Unlisten(c)]
  BY DEF BeginStop, Goto
<1>2. conn \in [Conn -> Connection]
  BY DEF Inv, TypeOK, Typed
<1>3. ASSUME NEW c \in Conn
      PROVE  /\ conn'[c] \in Connection
             /\ conn'[c].peer = conn[c].peer /\ (conn'[c].open => conn[c].open)
             /\ \/ conn'[c] = conn[c]
                \/ conn[c].thread = "backlog" /\ conn'[c] = Dropped(c)
  BY <1>1, <1>2, DroppedRecord DEF Unlisten
<1>4. set' = set
  BY <1>1 DEF registry, set
<1>5. ASSUME NEW c \in Conn PROVE (RecordOK(conn[c]) /\ Heard(conn[c]))'
  <2>1. CASE conn'[c] = conn[c]
    BY <1>4, <2>1 DEF Inv, ConnectionsOK, RecordOK, Heard
  <2>2. CASE conn'[c] = Dropped(c)
    BY <2>2, DroppedRecord DEF RecordOK, Heard
  <2> QED
    BY <1>3, <2>1, <2>2
<1>6. Typed'
  <2>1. conn' \in [Conn -> Connection]
    BY <1>1, <1>3
  <2> QED
    BY <1>1, <2>1 DEF Inv, TypeOK, Typed, registry, store
<1>7. Connections' \subseteq Connections
  BY <1>3, DroppedRecord DEF Connections
<1>8. TypeOK' /\ IsFiniteSet(Connections)'
  BY <1>6, <1>7, FewerConnections DEF TypeOK
<1>9. SpeakersAreServed' /\ ScopesAreServed'
  BY <1>1, <1>3, Identity DEF Inv, SpeakersAreServed, ScopesAreServed, registry, Anonymous
<1>10. RegistryOK' /\ PhaseOK'
  BY <1>1 DEF Inv, RegistryOK, PhaseOK, NotServing, registry, store
<1> QED
  BY <1>1, <1>3, <1>4, <1>5, <1>8, <1>9, <1>10, ConnectionsStep

\* The sockets of the connections are closed under their threads.
LEMMA StepCloseSockets ==
    ASSUME Inv, CoordinatorAssumption, CloseSockets
    PROVE  Inv'
<1>1. /\ UNCHANGED <<acceptor, workers, joining, boots, client, registry, store, told>>
      /\ phase' = "closed"
      /\ conn' = [c \in Conn |-> IF c \in Connections THEN [conn[c] EXCEPT !.open = FALSE]
                                 ELSE conn[c]]
  BY DEF CloseSockets, Goto
<1>2. conn \in [Conn -> Connection]
  BY DEF Inv, TypeOK, Typed
<1>3. ASSUME NEW c \in Conn
      PROVE  /\ conn'[c] \in Connection
             /\ conn'[c].peer = conn[c].peer /\ (conn'[c].open => conn[c].open)
             /\ conn'[c].boot = conn[c].boot /\ conn'[c].thread = conn[c].thread
             /\ \/ conn'[c] = conn[c]
                \/ conn[c].thread # "backlog" /\ conn'[c] = [conn[c] EXCEPT !.open = FALSE]
  BY <1>1, <1>2 DEF Connection, Connections
<1>4. set' = set
  BY <1>1 DEF registry, set
<1>5. ASSUME NEW c \in Conn PROVE (RecordOK(conn[c]) /\ Heard(conn[c]))'
  <2>1. CASE conn'[c] = conn[c]
    BY <1>4, <2>1 DEF Inv, ConnectionsOK, RecordOK, Heard
  <2>2. CASE conn[c].thread # "backlog" /\ conn'[c] = [conn[c] EXCEPT !.open = FALSE]
    BY <1>2, <1>4, <2>2 DEF Inv, ConnectionsOK, RecordOK, Heard, Connection
  <2> QED
    BY <1>3, <2>1, <2>2
<1>6. Typed'
  <2>1. conn' \in [Conn -> Connection]
    BY <1>1, <1>3
  <2> QED
    BY <1>1, <2>1 DEF Inv, TypeOK, Typed, registry, store
<1>7. Connections' \subseteq Connections
  BY <1>3 DEF Connections
<1>8. TypeOK' /\ IsFiniteSet(Connections)'
  BY <1>6, <1>7, FewerConnections DEF TypeOK
<1>9. SpeakersAreServed' /\ ScopesAreServed'
  BY <1>1, <1>3 DEF Inv, SpeakersAreServed, ScopesAreServed, registry
<1>10. RegistryOK' /\ PhaseOK'
  BY <1>1 DEF Inv, RegistryOK, PhaseOK, NotServing, registry, store
<1> QED
  BY <1>1, <1>3, <1>4, <1>5, <1>8, <1>9, <1>10, ConnectionsStep

\* The process ends, in order or not.
LEMMA StepProcessEnds ==
    ASSUME Inv, CoordinatorAssumption, ProcessEnds
    PROVE  Inv'
<1>1. /\ UNCHANGED <<client, told>> /\ phase' = "down" /\ acceptor' = "ended"
      /\ workers' = {} /\ joining' = {} /\ boots' = {}
      /\ epoch' = 1 /\ registered' = {} /\ fenced' = {} /\ speaking' = {}
      /\ sets' = [sets EXCEPT ![Item] = 0]
      /\ conn' = [c \in Conn |-> Dropped(c)]
  BY DEF ProcessEnds, Goto, NewRegistry
<1>2. stored' = stored /\ saves' = [s \in Saver |-> [phase |-> "idle", payload |-> NoPayload]]
  BY DEF ProcessEnds, Store!Crash, Store!Idle
<1>3. saves' \in [Saver -> Call] /\ \A s \in Saver : saves'[s].payload = NoPayload
  BY <1>2 DEF Call
<1>4. ASSUME NEW c \in Conn
      PROVE  /\ conn'[c] \in Connection /\ conn'[c].thread = "none" /\ ~conn'[c].open
             /\ conn'[c].peer = conn[c].peer /\ (RecordOK(conn[c]) /\ Heard(conn[c]))'
  <2>1. conn'[c] = Dropped(c)
    BY <1>1
  <2> QED
    BY <2>1, DroppedRecord DEF RecordOK, Heard
<1>5. Typed'
  <2>1. conn' \in [Conn -> Connection]
    BY <1>1, <1>4
  <2> QED
    BY <1>1, <1>2, <1>3, <2>1 DEF Inv, TypeOK, Typed
<1>6. Connections' \subseteq Connections
  BY <1>4 DEF Connections
<1>7. TypeOK' /\ IsFiniteSet(Connections)'
  BY <1>5, <1>6, FewerConnections DEF TypeOK
<1>8. RegistryOK'
  BY <1>1, <1>2, <1>3 DEF Inv, RegistryOK, Disjoint
<1>9. PhaseOK' /\ SpeakersAreServed' /\ ScopesAreServed'
  BY <1>1, <1>4 DEF PhaseOK, SpeakersAreServed, ScopesAreServed
<1> QED
  BY <1>1, <1>4, <1>7, <1>8, <1>9, ConnectionsStep

\* The accept thread takes a connection, or hands it to a thread of its own.
LEMMA StepTakeSpawn ==
    ASSUME Inv, CoordinatorAssumption, NEW c \in Conn, Take(c) \/ Spawn(c)
    PROVE  Inv'
<1>1. /\ UNCHANGED <<phase, joining, boots, client, registry, store, told>>
      /\ workers' \in {workers, workers \cup {c}} /\ acceptor' \in {"waiting", c}
  BY DEF Take, Spawn
<1>2. conn \in [Conn -> Connection] /\ conn[c] \in Connection /\ RecordOK(conn[c]) /\ Heard(conn[c])
  BY DEF Inv, TypeOK, Typed, ConnectionsOK
<1>3. /\ conn' \in [Conn -> Connection]
      /\ \A d \in Conn \ {c} : conn'[d] = conn[d]
      /\ \/ /\ conn[c].thread = "backlog"
            /\ conn'[c] = [conn[c] EXCEPT !.thread = "taken"]
         \/ /\ conn[c].thread = "counted"
            /\ conn'[c] = [conn[c] EXCEPT !.thread = "receive"]
  <2>1. CASE Take(c)
    <3>1. conn[c].open = TRUE
      BY <1>2, <2>1 DEF Take, RecordOK, Connection
    <3>2. conn' = [conn EXCEPT ![c].thread = "taken", ![c].open = TRUE]
      BY <2>1 DEF Take
    <3>3. conn'[c] = [conn[c] EXCEPT !.thread = "taken"]
      BY <1>2, <3>1, <3>2 DEF Connection
    <3>4. conn' \in [Conn -> Connection]
      BY <1>2, <3>2 DEF Connection, Thread
    <3> QED
      BY <1>2, <2>1, <3>2, <3>3, <3>4 DEF Take
  <2>2. CASE Spawn(c)
    BY <1>2, <2>2 DEF Spawn, SetThread, Connection, Thread
  <2> QED
    BY <2>1, <2>2
<1>4. set' = set
  BY <1>1 DEF registry, set
<1>5. ASSUME NEW d \in Conn PROVE (RecordOK(conn[d]) /\ Heard(conn[d]))'
  <2>1. CASE d = c
    BY <1>2, <1>3, <1>4, <2>1 DEF RecordOK, Heard, Connection, Anonymous
  <2>2. CASE d # c
    BY <1>3, <1>4, <2>2 DEF Inv, ConnectionsOK, RecordOK, Heard
  <2> QED
    BY <2>1, <2>2
<1>6. Typed'
  BY <1>1, <1>3 DEF Inv, TypeOK, Typed, registry, store
<1>7. ASSUME NEW d \in Conn
      PROVE  conn'[d].peer = conn[d].peer /\ conn'[d].open = conn[d].open
  BY <1>2, <1>3 DEF Connection
<1>8. Connections' \subseteq Connections
  BY <1>2, <1>3 DEF Connections, Connection
<1>9. TypeOK' /\ IsFiniteSet(Connections)'
  BY <1>6, <1>8, FewerConnections DEF TypeOK
<1>10. SpeakersAreServed' /\ ScopesAreServed'
  <2>1. conn[c].thread \in Anonymous
    BY <1>3 DEF Anonymous
  <2>2. conn[c].boot \notin speaking \cup boots
    BY <2>1, Identity
  <2> QED
    BY <1>1, <1>3, <2>2 DEF Inv, SpeakersAreServed, ScopesAreServed, registry
<1>11. RegistryOK' /\ PhaseOK'
  BY <1>1, <1>3 DEF Inv, RegistryOK, PhaseOK, registry, store, NotServing
<1> QED
  BY <1>1, <1>4, <1>5, <1>7, <1>9, <1>10, <1>11, ConnectionsStep

\* The connection is counted, or closed.
LEMMA StepCount ==
    ASSUME Inv, CoordinatorAssumption, NEW c \in Conn, Count(c)
    PROVE  Inv'
<1>1. /\ UNCHANGED <<phase, workers, joining, boots, client, registry, store, told>>
      /\ acceptor' \in {acceptor, "waiting"} /\ conn[c].thread = "taken"
  BY DEF Count
<1>2. conn \in [Conn -> Connection] /\ conn[c] \in Connection /\ RecordOK(conn[c]) /\ Heard(conn[c])
  BY DEF Inv, TypeOK, Typed, ConnectionsOK
<1>3. set' = set
  BY <1>1 DEF registry, set
<1>4. conn[c].boot \notin speaking \cup boots
  BY <1>1, Identity DEF Anonymous
<1>5. /\ conn' \in [Conn -> Connection]
      /\ \A d \in Conn \ {c} : conn'[d] = conn[d]
      /\ conn'[c].peer = conn[c].peer /\ (conn'[c].open => conn[c].open)
      /\ RecordOK(conn[c])' /\ Heard(conn[c])'
      /\ \/ Connections' = Connections
         \/ Connections' = Connections \cup {c} /\ Cardinality(Connections) < MaxConnections
  <2>1. CASE Cardinality(Connections) >= MaxConnections
    <3>1. conn' = [conn EXCEPT ![c] = Dropped(c)]
      BY <2>1 DEF Count
    <3>2. conn'[c] = Dropped(c) /\ \A d \in Conn \ {c} : conn'[d] = conn[d]
      BY <1>2, <3>1
    <3>3. conn' \in [Conn -> Connection]
      BY <1>2, <3>1, DroppedRecord
    <3>4. Connections' = Connections
      BY <1>1, <3>2, DroppedRecord DEF Connections
    <3> QED
      BY <3>2, <3>3, <3>4, DroppedRecord DEF RecordOK, Heard
  <2>2. CASE ~(Cardinality(Connections) >= MaxConnections)
    <3>1. conn' = [conn EXCEPT ![c].thread = "counted"]
      BY <2>2 DEF Count, SetThread
    <3>2. /\ conn' \in [Conn -> Connection]
          /\ \A d \in Conn \ {c} : conn'[d] = conn[d]
          /\ conn'[c] = [conn[c] EXCEPT !.thread = "counted"]
      BY <1>2, <3>1 DEF Connection, Thread
    <3>3. RecordOK(conn[c])' /\ Heard(conn[c])'
      BY <1>1, <1>2, <1>3, <3>2 DEF RecordOK, Heard, Connection, Anonymous
    <3>4. Connections' = Connections \cup {c}
      BY <1>1, <1>2, <3>2 DEF Connections, Connection
    <3>5. Cardinality(Connections) \in Nat
      BY FS_CardinalityType DEF Inv
    <3> QED
      BY <1>2, <2>2, <3>2, <3>3, <3>4, <3>5 DEF Connection, CoordinatorAssumption
  <2> QED
    BY <2>1, <2>2
<1>6. ASSUME NEW d \in Conn PROVE (RecordOK(conn[d]) /\ Heard(conn[d]))'
  <2>1. CASE d # c
    BY <1>3, <1>5, <2>1 DEF Inv, ConnectionsOK, RecordOK, Heard
  <2> QED
    BY <1>5, <2>1
<1>7. Typed'
  BY <1>1, <1>5 DEF Inv, TypeOK, Typed, registry, store
<1>8. TypeOK' /\ IsFiniteSet(Connections)'
  <2>1. IsFiniteSet(Connections) /\ Cardinality(Connections) <= MaxConnections
    BY DEF Inv, TypeOK
  <2>2. Cardinality(Connections) \in Nat
    BY <2>1, FS_CardinalityType
  <2>3. CASE Connections' = Connections
    BY <1>7, <2>1, <2>3 DEF TypeOK
  <2>4. CASE Connections' = Connections \cup {c} /\ Cardinality(Connections) < MaxConnections
    <3>1. IsFiniteSet(Connections \cup {c})
      BY <2>1, FS_AddElement
    <3>2. Cardinality(Connections \cup {c}) <= Cardinality(Connections) + 1
      <4>1. Cardinality(Connections \cup {c}) = IF c \in Connections THEN Cardinality(Connections)
                                                ELSE Cardinality(Connections) + 1
        BY <2>1, FS_AddElement
      <4> QED
        BY <2>2, <4>1
    <3>3. Cardinality(Connections \cup {c}) \in Nat
      BY <3>1, FS_CardinalityType
    <3> QED
      BY <1>7, <2>2, <2>4, <3>1, <3>2, <3>3 DEF TypeOK, CoordinatorAssumption
  <2> QED
    BY <1>5, <2>3, <2>4
<1>9. SpeakersAreServed' /\ ScopesAreServed'
  BY <1>1, <1>4, <1>5 DEF Inv, SpeakersAreServed, ScopesAreServed, registry
<1>10. RegistryOK' /\ PhaseOK'
  BY <1>1 DEF Inv, RegistryOK, PhaseOK, registry, store, NotServing
<1>11. \A d \in Conn : conn'[d].peer = conn[d].peer /\ (conn'[d].open => conn[d].open)
  BY <1>5
<1> QED
  BY <1>1, <1>3, <1>6, <1>8, <1>9, <1>10, <1>11, ConnectionsStep

-----------------------------------------------------------------------------
(* What holds in every behaviour.                                          *)

LEMMA InitInv ==
    ASSUME CoordinatorAssumption, Init
    PROVE  Inv
<1>1. /\ phase = "down" /\ acceptor = "ended" /\ workers = {} /\ joining = {} /\ boots = {}
      /\ conn = [c \in Conn |-> NoConnection]
      /\ client = [w \in Worker |-> [life |-> 1, conn |-> NoConn, cache |-> -1, call |-> "idle"]]
      /\ epoch = 1 /\ registered = {} /\ fenced = {} /\ speaking = {}
      /\ sets \in [{Item} -> {0}]
      /\ stored = NoPayload
      /\ saves = [s \in Saver |-> [phase |-> "idle", payload |-> NoPayload]]
      /\ told = [set |-> 0, acked |-> [b \in Boot |-> 0]]
  BY DEF Init, Registry!Init, Store!Init, Store!Idle
<1>2. /\ NoConnection \in Connection /\ NoConnection.thread = "none" /\ NoConnection.open = FALSE
      /\ NoConnection.request = NoMessage /\ NoConnection.answer = NoAnswer
      /\ NoConnection.boot = NoBoot
  BY DEF NoConnection, Connection, Thread, NoMessage, Message, NoAnswer, Answer
<1>3. \A c \in Conn : conn[c] = NoConnection
  BY <1>1
<1>4. Typed
  <2>1. conn \in [Conn -> Connection]
    BY <1>1, <1>2
  <2>2. client \in [Worker -> Client]
    BY <1>1 DEF Client, CoordinatorAssumption
  <2>3. saves \in [Saver -> Call]
    BY <1>1 DEF Call
  <2> QED
    BY <1>1, <2>1, <2>2, <2>3 DEF Typed
<1>5. Connections = {}
  BY <1>2, <1>3 DEF Connections
<1>6. TypeOK /\ IsFiniteSet(Connections)
  BY <1>4, <1>5, FS_EmptySet DEF TypeOK, CoordinatorAssumption
<1>7. ConnectionsOK
  BY <1>2, <1>3 DEF ConnectionsOK, RecordOK, Heard, NoMessage
<1>8. ClientsOK
  BY <1>1 DEF ClientsOK, ClientOK
<1>9. PhaseOK
  BY <1>1, <1>2, <1>3 DEF PhaseOK
<1>10. RegistryOK
  BY <1>1 DEF RegistryOK, Disjoint
<1> QED
  BY <1>1, <1>6, <1>7, <1>8, <1>9, <1>10 DEF Inv, SpeakersAreServed, ScopesAreServed

LEMMA NextInv ==
    ASSUME Inv, CoordinatorAssumption, [Next]_vars
    PROVE  Inv'
<1>1. CASE Starting
  BY <1>1, StepLoad, StepAdvanceEpoch, StepSaveEpoch, StepListen, StepStartFails DEF Starting
<1>2. CASE BeginStop
  BY <1>2, StepBeginStop
<1>3. CASE Stopping
  BY <1>3, StepCloseSockets, StepQuietly, StepJoinThreads, StepProcessEnds DEF Stopping, Stopped
<1>4. CASE Crash
  BY <1>4, StepProcessEnds DEF Crash
<1>5. ASSUME NEW c \in Conn, Take(c) \/ Count(c) \/ Spawn(c) \/ Serve(c)
      PROVE  Inv'
  BY <1>5, StepTakeSpawn, StepCount, StepServe
<1>6. ASSUME NEW s \in Saver, Write(s)
      PROVE  Inv'
  BY <1>6, StepWrite
<1>7. ASSUME NEW w \in Worker,
             \/ Connect(w) \/ Publish(w) \/ Close(w) \/ Die(w) \/ Library(w)
             \/ \E b \in Boot : Fence(w, b)
      PROVE  Inv'
  BY <1>7, StepClient
<1>8. CASE UNCHANGED vars
  <2>1. /\ UNCHANGED <<phase, acceptor, workers, joining, boots, conn, client>>
        /\ UNCHANGED <<epoch, registered, fenced, speaking, sets, stored, saves, told>>
    BY <1>8 DEF vars, lifecycle, registry, store
  <2>2. Typed'
    BY <2>1 DEF Inv, TypeOK, Typed
  <2>3. RegistryOK'
    BY <2>1 DEF Inv, RegistryOK
  <2> QED
    BY <2>1, <2>2, <2>3, GlobalStep DEF set, NotServing
<1> QED
  BY <1>1, <1>2, <1>3, <1>4, <1>5, <1>6, <1>7, <1>8 DEF Next

LEMMA Invariant == Spec => []Inv
<1>1. Init => Inv
  BY CoordinatorAssumption, InitInv
<1>2. Inv /\ [Next]_vars => Inv'
  BY CoordinatorAssumption, NextInv
<1> QED
  BY <1>1, <1>2, PTL DEF Spec

\* AcceptLoop counts a connection only below max_connections, so however
\* connections come, are refused, are lost and are stopped, no more than that
\* many are served; and every variable keeps its type.
THEOREM TypeCorrect == Spec => []TypeOK
<1>1. Inv => TypeOK
  BY DEF Inv
<1> QED
  BY <1>1, Invariant, PTL

\* Process-bound evidence of a boot is current only while a thread that has
\* yet to run FenceWorkerBoot for it serves one of its connections: the fence
\* of a lost connection is never skipped.
THEOREM SpeakersServed == Spec => []SpeakersAreServed
<1>1. Inv => SpeakersAreServed
  BY DEF Inv
<1> QED
  BY <1>1, Invariant, PTL

\* ServeConnection leaves no boot in boot_scopes_ behind.
THEOREM ScopesServed == Spec => []ScopesAreServed
<1>1. Inv => ScopesAreServed
  BY DEF Inv
<1> QED
  BY <1>1, Invariant, PTL

\* generation_cache_ of a PublisherClient is not ahead of the set on a
\* connection that stands, for CloseLocked clears it with the connection.
THEOREM CacheBehind == Spec => []CacheNeverAhead
<1>1. Inv => CacheNeverAhead
  BY DEF Inv, ClientsOK, ClientOK, CacheNeverAhead
<1> QED
  BY <1>1, Invariant, PTL

-----------------------------------------------------------------------------
(* What clients were told is kept, when one connection is served at a      *)
(* time, no save fails and Stop is not called.                             *)

LEMMA OneConnection ==
    ASSUME OneAtATime, Inv, NEW c \in Connections, NEW d \in Connections
    PROVE  c = d
<1>1. IsFiniteSet(Connections) /\ Cardinality(Connections) <= 1
  BY DEF Inv, TypeOK, OneAtATime
<1>2. SUFFICES ASSUME c # d PROVE FALSE
  OBVIOUS
<1>3. IsFiniteSet({c}) /\ Cardinality({c}) = 1
  BY FS_Singleton
<1>4. IsFiniteSet({c} \cup {d}) /\ Cardinality({c} \cup {d}) = 2
  BY <1>2, <1>3, FS_AddElement
<1>5. {c} \cup {d} \subseteq Connections
  OBVIOUS
<1>6. Cardinality({c} \cup {d}) <= Cardinality(Connections)
  BY <1>1, <1>5, FS_Subset
<1>7. Cardinality(Connections) \in Nat
  BY <1>1, FS_CardinalityType
<1> QED
  BY <1>1, <1>4, <1>6, <1>7

\* No two saves are under way.
LEMMA OneSave ==
    ASSUME OneAtATime, Inv, DurableInv, NEW s \in Saver, NEW t \in Saver,
           saves[s].phase # "idle", saves[t].phase # "idle"
    PROVE  s = t
<1>1. ASSUME NEW c \in Conn, saves[c].phase # "idle"
      PROVE  c \in Connections /\ ~NotServing
  BY <1>1 DEF DurableInv, SavesOK, Connections, Inv, PhaseOK
<1>2. ASSUME saves["main"].phase # "idle"
      PROVE  NotServing
  BY <1>2 DEF DurableInv, SavesOK, NotServing
<1> QED
  BY <1>1, <1>2, OneConnection DEF Saver

\* What was told is no more than the registry of a process that is up.
LEMMA ToldBelowSet ==
    ASSUME Inv, DurableInv, phase # "down"
    PROVE  told.set <= set
<1>1. set \in Nat /\ told.set \in Nat /\ stored \in StoredRegistry \cup {NoPayload}
  BY DEF Inv, TypeOK, Typed, set
<1>2. CASE stored = NoPayload
  BY <1>1, <1>2 DEF DurableInv, StoreOK
<1>3. CASE stored # NoPayload
  BY <1>1, <1>3 DEF DurableInv, StoreOK, StoredRegistry
<1> QED
  BY <1>2, <1>3

\* A save that begins captures what is to be kept.
LEMMA PayloadNewer ==
    ASSUME Inv, DurableInv, phase # "down"
    PROVE  Newer(Payload)
<1>1. Payload \in StoredRegistry
  BY DEF Payload, StoredRegistry, Inv, TypeOK, Typed, set
<1>2. Payload.epoch = epoch /\ Payload.set = set /\ set \in Nat
  BY DEF Payload, Inv, TypeOK, Typed, set
<1>3. (stored # NoPayload => stored.set <= set) /\ Remembers(Payload)
  BY DEF DurableInv, StoreOK
<1> QED
  BY <1>1, <1>2, <1>3, ToldBelowSet DEF Newer

\* A step that leaves the store alone and takes no boot off the registry
\* without a fence.
LEMMA DurableStep ==
    ASSUME Inv, DurableInv, Inv', UNCHANGED <<phase, epoch, stored, saves, told>>,
           set <= set', fenced \subseteq fenced', registered \cup fenced \subseteq registered' \cup fenced',
           \A c \in Conn :
              /\ conn[c].thread = "answer" => conn'[c].thread = "answer"
              /\ conn'[c].thread \in {"unsaved", "answer"} =>
                    \/ /\ conn'[c].thread = conn[c].thread
                       /\ conn'[c].boot = conn[c].boot /\ conn'[c].answer = conn[c].answer
                    \/ /\ Holds(Payload, c)'
                       /\ conn'[c].thread = "answer" => ~PersistOnMutation
    PROVE  DurableInv'
<1>1. /\ set \in Nat /\ set' \in Nat
      /\ stored \in StoredRegistry \cup {NoPayload} /\ saves \in [Saver -> Call]
      /\ told \in [set: Nat, acked: [Boot -> Nat]]
  BY DEF Inv, TypeOK, Typed, set
<1>2. /\ Payload.epoch = epoch /\ Payload.set = set
      /\ Payload.registered = registered /\ Payload.fenced = fenced
      /\ Payload'.epoch = epoch /\ Payload'.set = set'
      /\ Payload'.registered = registered' /\ Payload'.fenced = fenced'
  BY DEF Payload
<1>3. phase # "down" => Remembers(Payload)'
  BY <1>2 DEF DurableInv, StoreOK, Remembers
<1>4. StoreOK'
  <2>1. stored # NoPayload => stored.set \in Nat
    BY <1>1 DEF StoredRegistry
  <2>2. stored # NoPayload => Remembers(stored)'
    BY DEF DurableInv, StoreOK, Remembers
  <2> QED
    BY <1>1, <1>3, <2>1, <2>2 DEF DurableInv, StoreOK
<1>5. SavesOK'
  <2>1. ASSUME NEW s \in Saver, saves[s].phase = "pending"
        PROVE  Newer(saves[s].payload)'
    <3>1. Newer(saves[s].payload) /\ saves[s].payload \in StoredRegistry
      BY <2>1 DEF DurableInv, SavesOK, Newer
    <3>2. saves[s].payload.set \in Nat
      BY <3>1 DEF StoredRegistry
    <3> QED
      BY <1>1, <3>1, <3>2 DEF Newer, Remembers
  <2> QED
    BY <2>1 DEF DurableInv, SavesOK
<1>6. CommitsOK'
  <2>1. SUFFICES ASSUME NEW c \in Conn, conn'[c].thread \in {"unsaved", "answer"}
                 PROVE  /\ Holds(Payload, c)'
                        /\ conn'[c].thread = "answer" /\ PersistOnMutation =>
                              /\ saves[c].phase # "idle"
                              /\ Holds(IF saves[c].phase = "pending" THEN saves[c].payload
                                       ELSE stored, c)'
    BY DEF CommitsOK
  <2>2. CASE /\ Holds(Payload, c)'
             /\ conn'[c].thread = "answer" => ~PersistOnMutation
    BY <2>2
  <2>3. CASE /\ conn'[c].thread = conn[c].thread
             /\ conn'[c].boot = conn[c].boot /\ conn'[c].answer = conn[c].answer
    <3>1. Holds(Payload, c)
      BY <2>1, <2>3 DEF DurableInv, CommitsOK
    <3>2. conn[c].answer.number \in Nat
      BY DEF Inv, TypeOK, Typed, Connection, Answer
    <3>3. Holds(Payload, c)'
      BY <1>1, <1>2, <2>3, <3>1, <3>2 DEF Holds
    <3> QED
      BY <2>1, <2>3, <3>3 DEF DurableInv, CommitsOK, Holds
  <2> QED
    BY <2>1, <2>2, <2>3
<1> QED
  BY <1>4, <1>5, <1>6 DEF DurableInv

\* The steps of a thread that is about to do anything but save or acknowledge.
Quietly(c) ==
    \/ ReceiveNothing(c) \/ Hello(c) \/ Welcome(c) \/ Record(c) \/ Unwelcome(c)
    \/ PublishRejected(c) \/ Status(c) \/ FenceAsked(c) \/ FenceTarget(c) \/ FenceDone(c)
    \/ Lose(c) \/ Leave(c)

\* What such a step does to its connection.
LEMMA QuietThread ==
    ASSUME Inv, NEW c \in Conn, Quietly(c)
    PROVE  /\ \A d \in Conn \ {c} : conn'[d] = conn[d]
           /\ conn[c].thread \notin {"unsaved", "answer"}
           /\ \/ conn'[c].thread \notin {"unsaved", "answer"}
              \/ /\ conn'[c].answer.type # "committed"
                 /\ conn'[c].thread = "answer" => ~PersistOnMutation
<1>1. conn \in [Conn -> Connection] /\ conn[c] \in Connection
  BY DEF Inv, TypeOK, Typed
<1>2. CASE ReceiveNothing(c) \/ FenceTarget(c) \/ Lose(c)
  BY <1>1, <1>2 DEF ReceiveNothing, FenceTarget, Lose, SetThread, Connection
<1>3. CASE Hello(c)
  BY <1>1, <1>3 DEF Hello, Asked, Consume, Connection
<1>4. CASE Welcome(c) \/ Unwelcome(c) \/ Status(c) \/ FenceDone(c)
  <2>1. /\ \A d \in Conn \ {c} : conn'[d] = conn[d]
        /\ conn'[c].thread \in {"welcomed", "receive", "lost"}
    <3>1. CASE Welcome(c)
      BY <1>1, <3>1 DEF Welcome, Send, Connection
    <3>2. CASE Unwelcome(c)
      BY <1>1, <3>2 DEF Unwelcome, Send, Connection
    <3>3. CASE Status(c)
      BY <1>1, <3>3 DEF Status, Send, Connection
    <3>4. CASE FenceDone(c)
      BY <1>1, <3>4 DEF FenceDone, Send, Connection
    <3> QED
      BY <1>4, <3>1, <3>2, <3>3, <3>4
  <2> QED
    BY <1>4, <2>1 DEF Welcome, Unwelcome, Status, FenceDone, Served, Asked
<1>5. CASE FenceAsked(c)
  <2>1. CASE conn[c].request.boot \in boots
    BY <1>1, <1>5, <2>1 DEF FenceAsked, Served, Asked, Consume, Connection
  <2>2. CASE conn[c].request.boot \notin boots
    BY <1>1, <1>5, <2>2 DEF FenceAsked, Served, Asked, Send, Connection
  <2> QED
    BY <2>1, <2>2
<1>6. CASE Record(c)
  BY <1>1, <1>6 DEF Record, Connection
<1>7. CASE PublishRejected(c)
  BY <1>1, <1>7 DEF PublishRejected, Served, Asked, Conclude, Connection
<1>8. CASE Leave(c)
  <2>1. Dropped(c).thread = "none"
    BY DroppedRecord
  <2> QED
    BY <1>1, <1>8, <2>1 DEF Leave
<1> QED
  BY <1>2, <1>3, <1>4, <1>5, <1>6, <1>7, <1>8 DEF Quietly

\* No boot leaves the registry without a fence.
LEMMA QuietRegistry ==
    ASSUME Inv, NEW c \in Conn, Quietly(c)
    PROVE  /\ UNCHANGED <<phase, epoch, sets, stored, saves, told>>
           /\ fenced \subseteq fenced'
           /\ registered \cup fenced \subseteq registered' \cup fenced'
<1>1. UNCHANGED <<phase, stored, saves, told>>
  BY DEF Quietly, ReceiveNothing, Hello, Welcome, Record, Unwelcome, PublishRejected, Status,
         FenceAsked, FenceTarget, FenceDone, Lose, Leave, Rest, lifecycle, store
<1>2. CASE Hello(c)
  BY <1>1, <1>2 DEF Hello, Registry!Register, registry
<1>3. ASSUME NEW b, FenceBoot(b)
      PROVE  /\ UNCHANGED <<epoch, sets>> /\ fenced \subseteq fenced'
             /\ registered \cup fenced \subseteq registered' \cup fenced'
  BY <1>3 DEF FenceBoot, Registry!Fence, registry
<1>4. CASE FenceTarget(c) \/ Lose(c)
  BY <1>1, <1>3, <1>4 DEF FenceTarget, Lose, registry
<1>5. CASE UNCHANGED registry
  BY <1>1, <1>5 DEF registry
<1> QED
  BY <1>2, <1>4, <1>5
     DEF Quietly, ReceiveNothing, Welcome, Record, Unwelcome, PublishRejected, Status,
         FenceAsked, FenceDone, Leave

LEMMA DurableQuietly ==
    ASSUME Inv, DurableInv, Inv', NEW c \in Conn, Quietly(c)
    PROVE  DurableInv'
<1>1. UNCHANGED set /\ set \in Nat
  BY QuietRegistry DEF set, Inv, TypeOK, Typed
<1>2. conn'[c].thread \in {"unsaved", "answer"} =>
         Holds(Payload, c)' /\ (conn'[c].thread = "answer" => ~PersistOnMutation)
  BY QuietThread DEF Holds
<1> QED
  BY <1>1, <1>2, QuietThread, QuietRegistry, DurableStep

\* The accept thread saves and acknowledges nothing.
LEMMA DurableAccept ==
    ASSUME Inv, DurableInv, Inv', NEW c \in Conn, Take(c) \/ Count(c) \/ Spawn(c)
    PROVE  DurableInv'
<1>1. /\ UNCHANGED <<phase, epoch, registered, fenced, stored, saves, told>> /\ UNCHANGED set
      /\ set \in Nat
  BY DEF Take, Count, Spawn, registry, store, set, Inv, TypeOK, Typed
<1>2. conn \in [Conn -> Connection] /\ conn[c] \in Connection
  BY DEF Inv, TypeOK, Typed
<1>3. /\ conn[c].thread \notin {"unsaved", "answer"}
      /\ conn'[c].thread \notin {"unsaved", "answer"}
      /\ \A d \in Conn \ {c} : conn'[d] = conn[d]
  <2>1. CASE Take(c) \/ Spawn(c)
    BY <1>2, <2>1 DEF Take, Spawn, SetThread, Connection
  <2>2. CASE Count(c) /\ Cardinality(Connections) >= MaxConnections
    BY <1>2, <2>2, DroppedRecord DEF Count
  <2>3. CASE Count(c) /\ ~(Cardinality(Connections) >= MaxConnections)
    BY <1>2, <2>3 DEF Count, SetThread, Connection
  <2> QED
    BY <2>1, <2>2, <2>3
<1> QED
  BY <1>1, <1>3, DurableStep

\* Neither does a client.
LEMMA DurableClient ==
    ASSUME Inv, DurableInv, Inv', NEW w \in Worker,
           \/ Connect(w) \/ Publish(w) \/ Close(w) \/ Die(w) \/ Library(w)
           \/ \E b \in Boot : Fence(w, b)
    PROVE  DurableInv'
<1>1. /\ UNCHANGED <<phase, epoch, registered, fenced, stored, saves, told>> /\ UNCHANGED set
      /\ set \in Nat
  <2>1. UNCHANGED Server
    BY DEF Connect, Publish, Close, Die, Library, Fence, HelloAccepted, HelloRefused,
           StatusAnswered, PublishAnswered, FenceAnswered, CallFailed
  <2> QED
    BY <2>1 DEF Server, lifecycle, registry, store, set, Inv, TypeOK, Typed
<1>2. conn \in [Conn -> Connection]
  BY DEF Inv, TypeOK, Typed
<1>3. ASSUME NEW d \in Conn
      PROVE  \/ /\ conn'[d].thread = conn[d].thread
                /\ conn'[d].boot = conn[d].boot /\ conn'[d].answer = conn[d].answer
             \/ conn[d].thread = "none" /\ conn'[d].thread = "backlog"
  <2>1. conn[d] \in Connection
    BY <1>2
  <2>2. CASE \E type, b, n : Ask(w, type, b, n)
    BY <1>2, <2>1, <2>2 DEF Ask, Connection
  <2>3. CASE conn' = Consumed(w)
    BY <1>2, <2>1, <2>3 DEF Consumed, Connection
  <2>4. CASE conn' = [conn EXCEPT ![client[w].conn].peer = NoWorker,
                                  ![client[w].conn].reply = NoAnswer]
    BY <1>2, <2>1, <2>4 DEF Connection
  <2>5. CASE conn' = conn
    BY <2>5
  <2>6. CASE Connect(w)
    <3>1. PICK c \in Conn : conn[c] = NoConnection /\ c = CHOOSE free \in Free : TRUE
      BY <2>6 DEF Connect, Free
    <3>2. PICK e \in HelloEpochs :
             conn' = [conn EXCEPT ![c] =
                [NoConnection EXCEPT
                    !.thread = "backlog", !.open = TRUE, !.peer = w,
                    !.request = [type |-> "hello", boot |-> BootOf(w), number |-> e]]]
      BY <2>6, <3>1 DEF Connect
    <3>3. NoConnection \in Connection /\ NoConnection.thread = "none"
      BY DEF NoConnection, Connection, Thread, NoAnswer, Answer, NoMessage, Message
    <3>4. conn'[c].thread = "backlog" /\ \A k \in Conn \ {c} : conn'[k] = conn[k]
      BY <1>2, <3>1, <3>2, <3>3 DEF Connection
    <3> QED
      BY <3>1, <3>3, <3>4
  <2> QED
    BY <2>2, <2>3, <2>4, <2>5, <2>6
       DEF Publish, Close, CloseLocked, Die, Library, Fence, HelloAccepted, HelloRefused,
           StatusAnswered, PublishAnswered, FenceAnswered, CallFailed
<1> QED
  BY <1>1, <1>3, DurableStep

\* A commit is in the registry before it is saved.
LEMMA DurablePublish ==
    ASSUME CoordinatorAssumption, Inv, DurableInv, Inv', NEW c \in Conn, PublishCommitted(c)
    PROVE  DurableInv'
<1>1. /\ UNCHANGED <<phase, epoch, registered, fenced, stored, saves, told>>
      /\ conn[c].thread = "receive" /\ conn[c].boot \in registered \ fenced
  BY DEF PublishCommitted, Served, Asked, Rest, lifecycle, store, Registry!Publish
<1>2. conn \in [Conn -> Connection] /\ conn[c] \in Connection /\ sets \in [{Item} -> Nat]
  BY DEF Inv, TypeOK, Typed
<1>3. set <= set' /\ set \in Nat /\ set' \in Nat
  BY <1>2 DEF PublishCommitted, Registry!Publish, set
<1>4. Conclude(c, [type |-> "committed", number |-> set'])
  BY DEF PublishCommitted, set
<1>5. /\ \A d \in Conn \ {c} : conn'[d] = conn[d]
      /\ conn'[c].answer = [type |-> "committed", number |-> set']
      /\ conn'[c].boot = conn[c].boot
      /\ conn'[c].thread = "answer" => ~PersistOnMutation
  BY <1>2, <1>4 DEF Conclude, Connection
<1>6. Holds(Payload, c)'
  <2>1. /\ Payload'.set = set' /\ Payload'.registered = registered'
        /\ Payload'.fenced = fenced'
    BY DEF Payload
  <2> QED
    BY <1>1, <1>3, <1>5, <2>1 DEF Holds
<1> QED
  BY <1>1, <1>3, <1>5, <1>6, DurableStep

\* The capture after a commit holds it.
LEMMA DurableSaveMutation ==
    ASSUME CoordinatorAssumption, Inv, DurableInv, NEW c \in Conn, SaveMutation(c)
    PROVE  DurableInv'
<1>1. /\ UNCHANGED <<phase, epoch, registered, fenced, sets, told>>
      /\ conn[c].thread = "unsaved" /\ BeginSave(c) /\ c \in Saver
  BY DEF SaveMutation, Rest, lifecycle, registry, Saver
<1>2. conn \in [Conn -> Connection] /\ conn[c] \in Connection
  BY DEF Inv, TypeOK, Typed
<1>3. /\ \A d \in Conn \ {c} : conn'[d] = conn[d]
      /\ conn'[c].thread = "answer"
      /\ conn'[c].boot = conn[c].boot /\ conn'[c].answer = conn[c].answer
  BY <1>2 DEF SaveMutation, SetThread, Connection
<1>4. /\ stored' = stored /\ saves'[c] = [phase |-> "pending", payload |-> Payload]
      /\ \A s \in Saver \ {c} : saves'[s] = saves[s]
  <2>1. saves \in [Saver -> Call]
    BY DEF Inv, TypeOK, Typed
  <2> QED
    BY <1>1, <2>1 DEF BeginSave, Store!Begin, Store!Call
<1>5. Payload' = Payload /\ set' = set
  BY <1>1 DEF Payload, set
<1>6. phase # "down"
  BY <1>1 DEF Inv, PhaseOK, NotServing
<1>7. StoreOK'
  BY <1>1, <1>4, <1>5 DEF DurableInv, StoreOK, Remembers
<1>8. SavesOK'
  <2>1. Newer(Payload)'
    BY <1>1, <1>4, <1>5, <1>6, PayloadNewer DEF Newer, Remembers
  <2>2. ASSUME NEW s \in Saver \ {c}, saves[s].phase = "pending"
        PROVE  Newer(saves[s].payload)'
    <3>1. saves'[s] = saves[s] /\ Newer(saves[s].payload)
      BY <1>4, <2>2 DEF DurableInv, SavesOK
    <3> QED
      BY <1>1, <1>4, <1>5, <3>1 DEF Newer, Remembers
  <2>3. "main" \in Saver /\ saves'["main"] = saves["main"]
    BY <1>4 DEF Saver, CoordinatorAssumption
  <2>4. ASSUME NEW s \in Saver
        PROVE  /\ saves'[s].phase # "failed"
               /\ saves'[s].phase = "pending" => Newer(saves[s].payload)'
    BY <1>4, <1>5, <2>1, <2>2 DEF DurableInv, SavesOK
  <2>5. ASSUME NEW d \in Conn, saves'[d].phase # "idle"
        PROVE  conn'[d].thread = "answer"
    BY <1>3, <1>4, <2>5 DEF DurableInv, SavesOK, Saver
  <2> QED
    BY <1>1, <1>4, <2>3, <2>4, <2>5 DEF DurableInv, SavesOK
<1>9. CommitsOK'
  <2>1. SUFFICES ASSUME NEW d \in Conn, conn'[d].thread \in {"unsaved", "answer"}
                 PROVE  /\ Holds(Payload, d)'
                        /\ conn'[d].thread = "answer" /\ PersistOnMutation =>
                              /\ saves'[d].phase # "idle"
                              /\ Holds(IF saves[d].phase = "pending" THEN saves[d].payload
                                       ELSE stored, d)'
    BY DEF CommitsOK
  <2>2. CASE d = c
    <3>1. Holds(Payload, c)'
      BY <1>1, <1>3, <1>5 DEF DurableInv, CommitsOK, Holds
    <3> QED
      BY <1>4, <1>5, <2>2, <3>1 DEF Holds
  <2>3. CASE d # c
    BY <1>3, <1>4, <1>5, <2>1, <2>3 DEF DurableInv, CommitsOK, Holds, Saver
  <2> QED
    BY <2>2, <2>3
<1> QED
  BY <1>1, <1>7, <1>8, <1>9 DEF DurableInv

\* What is acknowledged was saved.
LEMMA DurableAcknowledge ==
    ASSUME OneAtATime, CoordinatorAssumption, Inv, DurableInv, NEW c \in Conn, Acknowledge(c)
    PROVE  DurableInv'
<1>1. /\ UNCHANGED <<phase, epoch, registered, fenced, sets>>
      /\ conn[c].thread = "answer" /\ saves[c].phase # "pending" /\ Tell(c)
      /\ Send(c, conn[c].answer, "receive")
      /\ UNCHANGED store \/ Store!Return(c)
  BY DEF Acknowledge, lifecycle, registry
<1>2. /\ conn \in [Conn -> Connection] /\ conn[c].answer.number \in Nat
      /\ stored \in StoredRegistry \cup {NoPayload} /\ saves \in [Saver -> Call]
      /\ told \in [set: Nat, acked: [Boot -> Nat]] /\ set \in Nat /\ epoch \in Nat
      /\ registered \subseteq Boot /\ fenced \subseteq Boot
  BY DEF Inv, TypeOK, Typed, Connection, Answer, set
<1>3. c \in Connections /\ phase = "serving"
  BY <1>1 DEF Connections, Inv, PhaseOK, NotServing, DurableInv
<1>4. ASSUME NEW d \in Conn \ {c}
      PROVE  conn[d].thread \notin {"unsaved", "answer"} /\ conn'[d] = conn[d]
  <2>1. conn'[d] = conn[d]
    BY <1>1, <1>2 DEF Send
  <2>2. d \notin Connections
    BY <1>3, OneConnection
  <2> QED
    BY <2>1, <2>2 DEF Connections
<1>5. conn'[c].thread \in {"receive", "lost"}
  BY <1>1, <1>2 DEF Send, Connection
<1>6. stored' = stored /\ \A s \in Saver : saves'[s].phase = "idle"
  <2>1. \A s \in Saver \ {c} : saves[s].phase = "idle"
    BY <1>3, <1>4 DEF DurableInv, SavesOK, Saver
  <2>2. c \in Saver
    BY DEF Saver
  <2>3. CASE saves[c].phase = "idle"
    BY <2>1, <2>2, <2>3 DEF Acknowledge, store
  <2>4. CASE saves[c].phase # "idle"
    <3>1. Store!Return(c)
      BY <2>4 DEF Acknowledge
    <3> QED
      BY <2>1, <2>2, <3>1, Returns
  <2> QED
    BY <2>3, <2>4
<1>7. SavesOK' /\ CommitsOK'
  BY <1>4, <1>5, <1>6, <1>2 DEF SavesOK, CommitsOK, Saver
<1>8. StoreOK'
  <2>1. Payload' = Payload /\ set' = set
    BY <1>1 DEF Payload, set
  <2>2. CASE told' = told
    BY <1>1, <1>6, <2>1, <2>2 DEF DurableInv, StoreOK, Remembers
  <2>3. CASE told' # told
    <3>1. /\ conn[c].answer.type = "committed" /\ PersistOnMutation /\ Persistent
          /\ told' = [set   |-> Larger(told.set, conn[c].answer.number),
                      acked |-> [told.acked EXCEPT ![conn[c].boot] = epoch]]
      BY <1>1, <2>3 DEF Tell, CoordinatorAssumption
    <3>2. /\ conn[c].boot \in registered \cup fenced
          /\ conn[c].answer.number <= stored.set
          /\ conn[c].boot \in stored.registered \cup stored.fenced
      <4>1. CommitsOK
        BY DEF DurableInv
      <4> QED
        BY <1>1, <3>1, <4>1 DEF CommitsOK, Holds, Payload
    <3>3. stored # NoPayload /\ stored.epoch = epoch /\ stored \in StoredRegistry
      BY <1>2, <1>3, <3>1 DEF DurableInv, StoreOK
    <3>4. /\ told.set <= stored.set /\ Remembers(stored) /\ Remembers(Payload)
          /\ stored.set <= set
      BY <1>3, <3>3 DEF DurableInv, StoreOK
    <3>5. told'.set <= stored.set
      BY <1>2, <3>1, <3>2, <3>4 DEF Larger
    <3>6. \A b \in Boot : told'.acked[b] = IF b = conn[c].boot THEN epoch ELSE told.acked[b]
      BY <1>2, <3>1
    <3>7. Remembers(stored)'
      BY <1>6, <1>2, <3>2, <3>3, <3>4, <3>6 DEF Remembers
    <3>8. Remembers(Payload)'
      BY <1>1, <1>2, <2>1, <3>2, <3>4, <3>6 DEF Remembers, Payload
    <3> QED
      BY <1>1, <1>6, <2>1, <3>3, <3>4, <3>5, <3>7, <3>8 DEF StoreOK
  <2> QED
    BY <2>2, <2>3
<1> QED
  BY <1>1, <1>3, <1>7, <1>8 DEF DurableInv

\* A save that succeeds is no older than what it replaces.
LEMMA DurableWrite ==
    ASSUME OneAtATime, CoordinatorAssumption, Inv, DurableInv, NEW s \in Saver, Write(s)
    PROVE  DurableInv'
<1>1. /\ UNCHANGED <<phase, epoch, registered, fenced, sets, conn, told>>
      /\ Store!Commit(s)
  BY DEF Write, OneAtATime, lifecycle, registry
<1>2. /\ saves \in [Saver -> Call] /\ saves[s].phase = "pending"
      /\ stored' = saves[s].payload /\ saves' = [saves EXCEPT ![s].phase = "saved"]
  BY <1>1 DEF Store!Commit, Inv, TypeOK, Typed
<1>3. /\ saves'[s].phase = "saved" /\ saves'[s].payload = saves[s].payload
      /\ \A t \in Saver \ {s} : saves'[t] = saves[t]
  BY <1>2 DEF Call
<1>4. \A t \in Saver \ {s} : saves[t].phase = "idle"
  BY <1>2, OneSave
<1>5. Newer(saves[s].payload)
  BY <1>2 DEF DurableInv, SavesOK
<1>6. stored' \in StoredRegistry /\ stored' # NoPayload /\ stored'.epoch = epoch
  BY <1>2, <1>5 DEF Newer, CoordinatorAssumption
<1>7. Payload' = Payload /\ set' = set
  BY <1>1 DEF Payload, set
<1>8. StoreOK'
  BY <1>1, <1>2, <1>5, <1>6, <1>7 DEF DurableInv, StoreOK, Newer, Remembers
<1>9. SavesOK'
  <2>1. \A t \in Saver : saves'[t].phase \in {"idle", "saved"}
    BY <1>3, <1>4
  <2>2. ASSUME NEW t \in Saver, saves'[t].phase # "idle"
        PROVE  saves[t].phase # "idle"
    BY <1>2, <1>3, <2>2
  <2>3. "main" \in Saver /\ Conn \subseteq Saver
    BY DEF Saver
  <2>4. saves'["main"].phase # "idle" => phase' = "saving"
    BY <1>1, <2>2, <2>3 DEF DurableInv, SavesOK
  <2>5. \A c \in Conn : saves'[c].phase # "idle" => conn'[c].thread = "answer"
    BY <1>1, <2>2, <2>3 DEF DurableInv, SavesOK
  <2> QED
    BY <1>1, <1>6, <2>1, <2>4, <2>5 DEF SavesOK
<1>10. CommitsOK'
  <2>1. SUFFICES ASSUME NEW d \in Conn, conn[d].thread \in {"unsaved", "answer"}
                 PROVE  /\ Holds(Payload, d)'
                        /\ conn'[d].thread = "answer" /\ PersistOnMutation =>
                              /\ saves'[d].phase # "idle"
                              /\ Holds(IF saves[d].phase = "pending" THEN saves[d].payload
                                       ELSE stored, d)'
    BY <1>1 DEF CommitsOK
  <2>2. Holds(Payload, d)'
    BY <1>1, <1>7, <2>1 DEF DurableInv, CommitsOK, Holds
  <2>3. CASE d = s
    BY <1>1, <1>2, <1>3, <2>1, <2>2, <2>3 DEF DurableInv, CommitsOK, Holds
  <2>4. CASE d # s
    BY <1>1, <1>4, <2>1, <2>2, <2>4 DEF DurableInv, CommitsOK, Saver
  <2> QED
    BY <2>3, <2>4
<1> QED
  BY <1>1, <1>8, <1>9, <1>10 DEF DurableInv

\* No connection of an earlier process is left before the coordinator listens,
\* and no save but the one of Start.
LEMMA NoConnections ==
    ASSUME Inv, DurableInv, NotServing
    PROVE  /\ \A c \in Conn : conn[c].thread = "none" /\ saves[c].phase = "idle"
           /\ saves["main"].phase # "idle" => phase = "saving"
BY DEF Inv, PhaseOK, DurableInv, SavesOK

\* A step of Start, before the coordinator listens.
LEMMA DurableStarting ==
    ASSUME OneAtATime, CoordinatorAssumption, Inv, DurableInv, Starting
    PROVE  DurableInv'
<1>1. /\ UNCHANGED <<conn, told, stored>> /\ NotServing
      /\ phase' \in {"loaded", "advanced", "saving", "serving"}
  <2>1. saves["main"].phase # "failed"
    BY DEF DurableInv, SavesOK, Saver
  <2>2. CASE Listen
    BY <2>2 DEF Listen, Goto, Store!Return, store, NotServing
  <2>3. CASE Load \/ AdvanceEpoch \/ SaveEpoch
    BY <2>3 DEF Load, AdvanceEpoch, SaveEpoch, BeginSave, Store!Begin, Goto, store, NotServing
  <2> QED
    BY <2>1, <2>2, <2>3 DEF Starting, StartFails
<1>2. /\ \A c \in Conn : conn[c].thread = "none" /\ saves[c].phase = "idle"
      /\ saves["main"].phase # "idle" => phase = "saving"
  BY <1>1, NoConnections
<1>3. /\ saves \in [Saver -> Call] /\ "main" \in Saver /\ "main" \notin Conn
      /\ sets \in [{Item} -> Nat] /\ stored \in StoredRegistry \cup {NoPayload}
      /\ told \in [set: Nat, acked: [Boot -> Nat]] /\ epoch \in Nat
  BY DEF Inv, TypeOK, Typed, Saver, CoordinatorAssumption
<1>4. CommitsOK'
  BY <1>1, <1>2 DEF CommitsOK
<1>5. ASSUME UNCHANGED registry
      PROVE  Payload' = Payload /\ set' = set
  BY <1>5 DEF registry, Payload, set
<1>6. CASE Load
  <2>1. phase = "down" /\ phase' = "loaded" /\ saves' = saves
    BY <1>6 DEF Load, Goto, store
  <2>2. SavesOK'
    BY <1>1, <1>2, <1>3, <2>1 DEF SavesOK, Saver
  <2>3. Remembers(Payload)' /\ (stored # NoPayload => stored.set <= set')
    <3>1. CASE stored = NoPayload
      BY <1>1, <3>1 DEF DurableInv, StoreOK, Remembers
    <3>2. CASE stored # NoPayload
      <4>1. /\ epoch' = stored.epoch /\ registered' = stored.registered
            /\ fenced' = stored.fenced /\ set' = stored.set /\ stored.set \in Nat
        BY <1>3, <1>6, <3>2 DEF Load, set, StoredRegistry
      <4>2. Remembers(stored)
        BY <3>2 DEF DurableInv, StoreOK
      <4> QED
        BY <1>1, <4>1, <4>2 DEF Remembers, Payload
    <3> QED
      BY <3>1, <3>2
  <2>4. StoreOK'
    BY <1>1, <2>1, <2>3 DEF DurableInv, StoreOK, Remembers
  <2> QED
    BY <1>1, <1>4, <2>2, <2>4 DEF DurableInv
<1>7. CASE AdvanceEpoch
  <2>1. /\ phase = "loaded" /\ phase' = "advanced" /\ saves' = saves /\ set' = set
        /\ epoch' = epoch + 1 /\ registered' = {} /\ fenced' = fenced \cup registered
    BY <1>7 DEF AdvanceEpoch, Goto, store, Registry!AdvanceEpoch, set
  <2>2. SavesOK'
    BY <1>1, <1>2, <1>3, <2>1 DEF SavesOK, Saver
  <2>3. Remembers(Payload)'
    <3>1. Remembers(Payload)
      BY <2>1 DEF DurableInv, StoreOK
    <3>2. \A b \in Boot : told.acked[b] \in Nat
      BY <1>3
    <3> QED
      BY <1>1, <1>3, <2>1, <3>1, <3>2 DEF Remembers, Payload
  <2>4. StoreOK'
    BY <1>1, <2>1, <2>3 DEF DurableInv, StoreOK, Remembers
  <2> QED
    BY <1>1, <1>4, <2>2, <2>4 DEF DurableInv
<1>8. CASE SaveEpoch
  <2>1. /\ phase = "advanced" /\ phase' = "saving" /\ epoch' = epoch /\ BeginSave("main")
        /\ UNCHANGED registry
    BY <1>8 DEF SaveEpoch, Goto, registry
  <2>2. /\ saves'["main"].phase = "pending" /\ saves'["main"].payload = Payload
        /\ \A s \in Saver \ {"main"} : saves'[s] = saves[s]
    BY <1>3, <2>1 DEF BeginSave, Store!Begin, Store!Call
  <2>3. Newer(Payload)'
    BY <1>1, <1>5, <2>1, PayloadNewer DEF Newer, Remembers
  <2>4. SavesOK'
    BY <1>1, <1>2, <1>3, <1>5, <2>1, <2>2, <2>3 DEF SavesOK, Saver
  <2>5. StoreOK'
    BY <1>1, <1>5, <2>1 DEF DurableInv, StoreOK, Remembers
  <2> QED
    BY <1>1, <1>4, <2>4, <2>5 DEF DurableInv
<1>9. CASE Listen
  <2>1. /\ phase \in {"advanced", "saving"} /\ phase' = "serving" /\ epoch' = epoch
        /\ UNCHANGED registry
    BY <1>9 DEF Listen, Goto, registry
  <2>2. \A s \in Saver : saves'[s].phase = "idle"
    <3>1. CASE phase = "advanced"
      BY <1>2, <1>9, <3>1 DEF Listen, store, Saver
    <3>2. CASE phase = "saving"
      BY <1>2, <1>3, <1>9, <3>2 DEF Listen, Store!Return, Store!Idle, Saver
    <3> QED
      BY <2>1, <3>1, <3>2
  <2>3. Persistent => stored # NoPayload /\ stored.epoch = epoch
    BY <1>9 DEF Listen, DurableInv, SavesOK
  <2>4. SavesOK'
    BY <1>3, <2>2 DEF SavesOK, Saver
  <2>5. StoreOK'
    BY <1>1, <1>5, <2>1, <2>3 DEF DurableInv, StoreOK, Remembers
  <2> QED
    BY <1>1, <1>4, <2>4, <2>5 DEF DurableInv
<1> QED
  <2>1. ~StartFails
    BY DEF StartFails, DurableInv, SavesOK, Saver
  <2> QED
    BY <1>6, <1>7, <1>8, <1>9, <2>1 DEF Starting

\* A crash leaves the store.
LEMMA DurableCrash ==
    ASSUME Inv, DurableInv, Crash
    PROVE  DurableInv'
<1>1. /\ phase' = "down" /\ stored' = stored /\ told' = told
      /\ \A s \in Saver : saves'[s].phase = "idle"
      /\ \A c \in Conn : conn'[c] = Dropped(c)
  BY DEF Crash, ProcessEnds, Goto, Store!Crash, Store!Idle
<1>2. \A c \in Conn : conn'[c].thread = "none"
  BY <1>1, DroppedRecord
<1>3. StoreOK'
  BY <1>1 DEF DurableInv, StoreOK, Remembers
<1>4. SavesOK' /\ CommitsOK'
  BY <1>1, <1>2 DEF SavesOK, CommitsOK, Saver
<1> QED
  BY <1>1, <1>3, <1>4 DEF DurableInv

LEMMA InitDurable ==
    ASSUME Init
    PROVE  DurableInv
<1>1. /\ phase = "down" /\ stored = NoPayload
      /\ \A s \in Saver : saves[s].phase = "idle"
      /\ told = [set |-> 0, acked |-> [b \in Boot |-> 0]]
      /\ \A c \in Conn : conn[c].thread = "none"
  BY DEF Init, Store!Init, Store!Idle, NoConnection
<1> QED
  BY <1>1 DEF DurableInv, StoreOK, SavesOK, CommitsOK, Saver

LEMMA NextDurable ==
    ASSUME OneAtATime, CoordinatorAssumption, Inv, DurableInv, [Next]_vars
    PROVE  DurableInv'
<1>1. Inv'
  BY NextInv
<1>2. CASE Starting
  BY <1>2, DurableStarting
<1>3. CASE Crash
  BY <1>3, DurableCrash
<1>4. ASSUME NEW c \in Conn, Take(c) \/ Count(c) \/ Spawn(c) \/ Serve(c)
      PROVE  DurableInv'
  <2>1. CASE Take(c) \/ Count(c) \/ Spawn(c)
    BY <1>1, <2>1, DurableAccept
  <2>2. CASE Serve(c)
    BY <1>1, <2>2, DurableQuietly, DurablePublish, DurableSaveMutation, DurableAcknowledge
       DEF Serve, Quietly
  <2> QED
    BY <1>4, <2>1, <2>2
<1>5. ASSUME NEW s \in Saver, Write(s)
      PROVE  DurableInv'
  BY <1>5, DurableWrite
<1>6. ASSUME NEW w \in Worker,
             \/ Connect(w) \/ Publish(w) \/ Close(w) \/ Die(w) \/ Library(w)
             \/ \E b \in Boot : Fence(w, b)
      PROVE  DurableInv'
  BY <1>1, <1>6, DurableClient
<1>7. ~BeginStop /\ ~Stopping
  BY DEF BeginStop, Stopping, CloseSockets, TakeThreads, JoinThreads, Stopped, EndAccepting,
         OneAtATime, DurableInv
<1>8. CASE UNCHANGED vars
  <2>1. /\ UNCHANGED <<phase, conn, epoch, registered, fenced, sets, stored, saves, told>>
        /\ Payload' = Payload /\ set' = set
    BY <1>8 DEF vars, lifecycle, registry, store, Payload, set
  <2> QED
    BY <2>1 DEF DurableInv, StoreOK, SavesOK, CommitsOK, Holds, Newer, Remembers
<1> QED
  BY <1>2, <1>3, <1>4, <1>5, <1>6, <1>7, <1>8 DEF Next

LEMMA Durable ==
    ASSUME OneAtATime
    PROVE  Spec => []DurableInv
<1>1. Init => DurableInv
  BY InitDurable
<1>2. Inv /\ DurableInv /\ [Next]_vars => DurableInv'
  BY CoordinatorAssumption, NextDurable
<1> QED
  BY <1>1, <1>2, Invariant, PTL DEF Spec

\* A commit that was acknowledged is in the store at every moment a crash may
\* come: the save precedes the answer, and no older capture replaces it.
THEOREM AcknowledgedIsDurable ==
    ASSUME OneAtATime
    PROVE  Spec => []AckedSurvives
<1>1. DurableInv => AckedSurvives
  <2>1. SUFFICES ASSUME DurableInv, told.set > 0 PROVE stored # NoPayload /\ stored.set >= told.set
    BY DEF AckedSurvives
  <2> QED
    BY <2>1 DEF DurableInv, StoreOK
<1> QED
  BY <1>1, Durable, PTL

\* AdvanceCoordinatorEpoch fences whoever an earlier process acknowledged,
\* however often that process, or this one, crashed while it started.
THEOREM EarlierWorkersFenced ==
    ASSUME OneAtATime
    PROVE  Spec => []EarlierWorkersLockedOut
<1>1. Inv /\ DurableInv => EarlierWorkersLockedOut
  <2>1. SUFFICES ASSUME Inv, DurableInv, phase = "serving",
                        NEW b \in Boot, told.acked[b] \notin {0, epoch}
                 PROVE  b \in fenced /\ b \notin registered \cup speaking
    BY DEF EarlierWorkersLockedOut
  <2>2. told.acked[b] \in Nat /\ epoch \in Nat
    BY <2>1 DEF Inv, TypeOK, Typed
  <2>3. b \in fenced
    BY <2>1, <2>2 DEF DurableInv, StoreOK, Remembers, Payload
  <2> QED
    BY <2>1, <2>3 DEF Inv, RegistryOK
<1> QED
  BY <1>1, Durable, Invariant, PTL
=============================================================================
