----------------------------- MODULE Coordinator -----------------------------
(***************************************************************************)
(* CapabilityCoordinator and PublisherClient (distributed.cpp): the accept *)
(* thread, one thread per connection, Start, Stop, the clients' calls, and *)
(* the deaths of either process.                                           *)
(*                                                                         *)
(* The registry and the store are their specifications, Authority and      *)
(* AtomicStore; one action of the registry is one lock section.  Fences    *)
(* are never forgotten for want of room.  All workers publish one entity   *)
(* within one scope; a request or an answer in flight is a field of its    *)
(* connection, since a client has one call outstanding and Goodbye and end *)
(* of file are answered alike.  Request ids, with the cache of answers to  *)
(* repeated ones, are left out: PublisherClient never repeats an id.       *)
(***************************************************************************)
EXTENDS Integers, FiniteSets

CONSTANTS
    Worker, NoWorker,
    Conn, NoConn,      \* sockets
    NoBoot,
    Item,              \* the entity
    NoPayload,
    MaxConnections,    \* CoordinatorOptions::max_connections
    Persistent,        \* a directory is configured for the store
    PersistOnMutation, \* CoordinatorOptions::persist_on_mutation
    HelloEpochs,       \* PublisherClientOptions::epoch, 0 when unset
    Faults,            \* what may go wrong: "stop", "crash", "save", "death"
    MaxLife, MaxSet, MaxEpoch   \* bounds of the model

\* A client object derives its boot once; another process derives another.
Boot == Worker \X (1..MaxLife)

Saver == Conn \cup {"main"}

\* What Save stores of the registry.
StoredRegistry == [epoch: Nat, registered: SUBSET Boot, fenced: SUBSET Boot, set: Nat]

ASSUME CoordinatorAssumption ==
    /\ NoWorker \notin Worker /\ NoConn \notin Conn /\ NoBoot \notin Boot
    /\ "main" \notin Conn
    /\ NoPayload \notin StoredRegistry
    /\ MaxConnections \in Nat \ {0}
    /\ {Persistent, PersistOnMutation} \subseteq BOOLEAN
    /\ PersistOnMutation => Persistent
    /\ HelloEpochs \subseteq Nat
    /\ Faults \subseteq {"stop", "crash", "save", "death"}
    /\ {MaxLife, MaxSet, MaxEpoch} \subseteq Nat \ {0}

VARIABLES
    phase,          \* where Start and Stop are
    acceptor,       \* the accept thread: "waiting", "ended", or the socket it took
    workers,        \* the threads in worker_threads_
    joining,        \* the threads Stop joins
    boots,          \* the keys of boot_scopes_
    conn,           \* each connection, its thread and its identity
    client,         \* each worker's client object
    epoch, registered, fenced, speaking, sets,    \* the registry
    stored, saves,  \* the store, and each thread's call to Save
    told            \* history: what clients were told

registry == <<epoch, registered, fenced, speaking, sets>>
store == <<stored, saves>>
lifecycle == <<phase, acceptor, workers, joining>>
vars == <<lifecycle, boots, conn, client, registry, store, told>>

Registry == INSTANCE Authority WITH Entity <- {Item}

Store == INSTANCE AtomicStore WITH Reader <- {}, Payload <- {}, reads <- <<>>

set == sets[Item]

Message == [type: {"none", "hello", "publish", "status", "fence"},
            boot: Boot \cup {NoBoot}, number: Nat]

\* "accepted" and "refused" answer Hello, "status" answers Status, "fenced"
\* and "error" answer Fence, the others are results of a publication.
Answer == [type: {"none", "accepted", "refused", "committed", "stale", "rejected",
                  "status", "fenced", "error"},
           number: Nat]

NoMessage == [type |-> "none", boot |-> NoBoot, number |-> 0]
NoAnswer == [type |-> "none", number |-> 0]

Thread == {"none", "backlog", "taken", "counted", "receive", "registered", "welcomed",
           "unwelcome", "unsaved", "answer", "fencing", "erasing", "lost", "leave"}

\* boot is the identity of the connection, asked the boot of the request in
\* hand; answer is made by the thread, reply is on its way to the client.
Connection == [thread: Thread, open: BOOLEAN, peer: Worker \cup {NoWorker},
               boot: Boot \cup {NoBoot}, asked: Boot \cup {NoBoot},
               request: Message, answer: Answer, reply: Answer]

NoConnection == [thread |-> "none", open |-> FALSE, peer |-> NoWorker, boot |-> NoBoot,
                 asked |-> NoBoot, request |-> NoMessage, answer |-> NoAnswer, reply |-> NoAnswer]

\* cache is -1 when generation_cache_ has no entry of the entity.
Client == [life: 1..(MaxLife + 1), conn: Conn \cup {NoConn}, cache: Nat \cup {-1},
           call: {"idle", "hello", "publish", "status", "fence"}]

BootOf(w) == <<w, client[w].life>>

\* A connection of which only the client's end is left, with what was sent to it.
Dropped(c) == [NoConnection EXCEPT !.peer = conn[c].peer, !.reply = conn[c].reply]

\* The sockets in connections_.
Connections == {c \in Conn : conn[c].thread \notin {"none", "backlog", "taken"}}

Init ==
    /\ phase = "down"
    /\ acceptor = "ended"
    /\ workers = {}
    /\ joining = {}
    /\ boots = {}
    /\ conn = [c \in Conn |-> NoConnection]
    /\ client = [w \in Worker |-> [life |-> 1, conn |-> NoConn, cache |-> -1,
                                   call |-> "idle"]]
    /\ Registry!Init
    /\ Store!Init
    /\ told = [set |-> 0, acked |-> [b \in Boot |-> 0]]

-----------------------------------------------------------------------------
(* Start and Stop.                                                         *)

Payload == [epoch |-> epoch, registered |-> registered, fenced |-> fenced, set |-> set]

Goto(next) == phase' = next

NewRegistry ==
    /\ epoch' = 1
    /\ registered' = {}
    /\ fenced' = {}
    /\ speaking' = {}
    /\ sets' = [sets EXCEPT ![Item] = 0]

\* Process-bound evidence is not current in what Load builds.
Load ==
    /\ phase = "down"
    /\ Goto("loaded")
    /\ IF stored = NoPayload THEN UNCHANGED registry
       ELSE /\ epoch' = stored.epoch
            /\ registered' = stored.registered
            /\ fenced' = stored.fenced
            /\ sets' = [sets EXCEPT ![Item] = stored.set]
            /\ UNCHANGED speaking
    /\ UNCHANGED <<acceptor, workers, joining, boots, conn, client, store, told>>

\* Mutant of AdvanceEpoch: the registrations of the last process are dropped
\* without a fence.
AdvanceEpochUnfenced ==
    /\ phase = "loaded"
    /\ epoch < MaxEpoch
    /\ Registry!AdvanceEpoch
    /\ fenced' = fenced
    /\ Goto("advanced")
    /\ UNCHANGED <<acceptor, workers, joining, boots, conn, client, store, told>>

AdvanceEpoch ==
    /\ phase = "loaded"
    /\ epoch < MaxEpoch
    /\ Registry!AdvanceEpoch
    /\ fenced' = fenced \cup registered
    /\ Goto("advanced")
    /\ UNCHANGED <<acceptor, workers, joining, boots, conn, client, store, told>>

\* Save, by a connection's thread or by the thread that starts and stops.
BeginSave(s) == Store!Begin(s, Payload)

Write(s) ==
    /\ \/ Store!Commit(s)
       \/ "save" \in Faults /\ Store!Fail(s)
    /\ UNCHANGED <<lifecycle, boots, conn, client, registry, told>>

SaveEpoch ==
    /\ phase = "advanced"
    /\ Persistent
    /\ BeginSave("main")
    /\ Goto("saving")
    /\ UNCHANGED <<acceptor, workers, joining, boots, conn, client, registry, told>>

Listen ==
    /\ \/ phase = "advanced" /\ ~Persistent /\ UNCHANGED store
       \/ phase = "saving" /\ saves["main"].phase = "saved" /\ Store!Return("main")
    /\ Goto("serving")
    /\ acceptor' = "waiting"
    /\ UNCHANGED <<workers, joining, boots, conn, client, registry, told>>

\* Start fails when the new epoch was not saved.
StartFails ==
    /\ phase = "saving"
    /\ saves["main"].phase = "failed"
    /\ Store!Return("main")
    /\ Goto("down")
    /\ NewRegistry
    /\ UNCHANGED <<acceptor, workers, joining, boots, conn, client, told>>

\* Connections that were not accepted end with the listener.
Unlisten(c) ==
    IF conn[c].thread = "backlog" THEN Dropped(c) ELSE conn[c]

\* stopping_ is set, the listener is closed.
BeginStop ==
    /\ "stop" \in Faults
    /\ phase = "serving"
    /\ Goto("stopping")
    /\ conn' = [c \in Conn |-> Unlisten(c)]
    /\ UNCHANGED <<acceptor, workers, joining, boots, client, registry, store, told>>

\* A connection that is counted after this moment stays open.
CloseSockets ==
    /\ phase = "stopping"
    /\ conn' = [c \in Conn |-> IF c \in Connections THEN [conn[c] EXCEPT !.open = FALSE]
                               ELSE conn[c]]
    /\ Goto("closed")
    /\ UNCHANGED <<acceptor, workers, joining, boots, client, registry, store, told>>

\* JoinThreads takes the threads that are in the vector now.
TakeThreads ==
    /\ phase = "closed"
    /\ joining' = workers
    /\ workers' = {}
    /\ Goto("joining")
    /\ UNCHANGED <<acceptor, boots, conn, client, registry, store, told>>

JoinThreads ==
    /\ phase = "joining"
    /\ acceptor = "ended"
    /\ \A c \in joining : conn[c].thread = "none"
    /\ joining' = {}
    /\ Goto("finishing")
    /\ IF Persistent THEN BeginSave("main") ELSE UNCHANGED store
    /\ UNCHANGED <<acceptor, workers, boots, conn, client, registry, told>>

\* The process ends, whatever became of its threads, and with it its sockets.
ProcessEnds ==
    /\ Goto("down")
    /\ acceptor' = "ended"
    /\ workers' = {}
    /\ joining' = {}
    /\ boots' = {}
    /\ conn' = [c \in Conn |-> Dropped(c)]
    /\ NewRegistry
    /\ Store!Crash({})
    /\ UNCHANGED <<client, told>>

Stopped ==
    /\ phase = "finishing"
    /\ saves["main"].phase # "pending"
    /\ ProcessEnds

Crash ==
    /\ "crash" \in Faults
    /\ phase # "down"
    /\ ProcessEnds

-----------------------------------------------------------------------------
(* The accept thread.                                                      *)

SetThread(c, thread) == conn' = [conn EXCEPT ![c].thread = thread]

Take(c) ==
    /\ acceptor = "waiting"
    /\ conn[c].thread = "backlog"
    /\ acceptor' = c
    /\ conn' = [conn EXCEPT ![c].thread = "taken", ![c].open = TRUE]
    /\ UNCHANGED <<phase, workers, joining, boots, client, registry, store, told>>

\* Mutant of Count: a connection over the bound is dropped but not closed.
CountLeaky(c) ==
    /\ acceptor = c
    /\ conn[c].thread = "taken"
    /\ IF Cardinality(Connections) >= MaxConnections
       THEN /\ conn' = [conn EXCEPT ![c].thread = "none"]
            /\ acceptor' = "waiting"
       ELSE /\ SetThread(c, "counted")
            /\ UNCHANGED acceptor
    /\ UNCHANGED <<phase, workers, joining, boots, client, registry, store, told>>

\* Mutant of Count: one connection more than the bound is served.
CountLate(c) ==
    /\ acceptor = c
    /\ conn[c].thread = "taken"
    /\ IF Cardinality(Connections) > MaxConnections
       THEN /\ conn' = [conn EXCEPT ![c] = Dropped(c)]
            /\ acceptor' = "waiting"
       ELSE /\ SetThread(c, "counted")
            /\ UNCHANGED acceptor
    /\ UNCHANGED <<phase, workers, joining, boots, client, registry, store, told>>

\* The connection is counted in connections_, or closed when that is full.
Count(c) ==
    /\ acceptor = c
    /\ conn[c].thread = "taken"
    /\ IF Cardinality(Connections) >= MaxConnections
       THEN /\ conn' = [conn EXCEPT ![c] = Dropped(c)]
            /\ acceptor' = "waiting"
       ELSE /\ SetThread(c, "counted")
            /\ UNCHANGED acceptor
    /\ UNCHANGED <<phase, workers, joining, boots, client, registry, store, told>>

Spawn(c) ==
    /\ acceptor = c
    /\ conn[c].thread = "counted"
    /\ SetThread(c, "receive")
    /\ workers' = workers \cup {c}
    /\ acceptor' = "waiting"
    /\ UNCHANGED <<phase, joining, boots, client, registry, store, told>>

EndAccepting ==
    /\ acceptor = "waiting"
    /\ phase \in {"stopping", "closed", "joining"}
    /\ acceptor' = "ended"
    /\ UNCHANGED <<phase, workers, joining, boots, conn, client, registry, store,
                   told>>

-----------------------------------------------------------------------------
(* A connection's thread.                                                  *)

Rest == <<lifecycle, client, told>>

Gone(c) == conn[c].peer = NoWorker

\* SendFrame, after which the request is done with.  What a client that is
\* gone is sent may be discarded or fail.
Send(c, a, next) ==
    \/ /\ conn[c].open
       /\ conn' = [conn EXCEPT ![c].thread = next, ![c].answer = NoAnswer,
                               ![c].request = NoMessage,
                               ![c].asked = IF next = "welcomed" THEN @ ELSE NoBoot,
                               ![c].reply = IF Gone(c) THEN NoAnswer ELSE a]
    \/ /\ ~conn[c].open \/ Gone(c)
       /\ conn' = [conn EXCEPT ![c].thread = "lost", ![c].answer = NoAnswer,
                               ![c].request = NoMessage]

Asked(c, type) ==
    /\ conn[c].thread = "receive"
    /\ conn[c].open
    /\ conn[c].request.type = type

\* The next request is taken off the socket.
Consume(c, thread) ==
    conn' = [conn EXCEPT ![c].thread = thread, ![c].request = NoMessage,
                         ![c].asked = conn[c].request.boot]

\* Mutant of ReceiveNothing: the end of a connection goes unnoticed.
ReceiveClosed(c) ==
    /\ conn[c].thread = "receive"
    /\ ~conn[c].open
    /\ SetThread(c, "lost")
    /\ UNCHANGED <<Rest, boots, registry, store>>

\* The socket was closed, or the client said Goodbye or is gone.
ReceiveNothing(c) ==
    /\ conn[c].thread = "receive"
    /\ ~conn[c].open \/ (Gone(c) /\ conn[c].request = NoMessage)
    /\ SetThread(c, "lost")
    /\ UNCHANGED <<Rest, boots, registry, store>>

EpochMatches(q) == q.number # 0 => q.number = epoch

Hello(c) ==
    LET q == conn[c].request
    IN  /\ Asked(c, "hello")
        /\ \/ /\ EpochMatches(q)
              /\ Registry!Register(q.boot)
              /\ Consume(c, "registered")
           \/ /\ ~EpochMatches(q) \/ q.boot \in fenced
              /\ Consume(c, "unwelcome")
              /\ UNCHANGED registry
        /\ UNCHANGED <<Rest, boots, store>>

Welcome(c) ==
    /\ conn[c].thread = "registered"
    /\ Send(c, [type |-> "accepted", number |-> epoch], "welcomed")
    /\ UNCHANGED <<Rest, boots, registry, store>>

\* Only now is the boot the connection's, to be fenced when it is lost.
Record(c) ==
    /\ conn[c].thread = "welcomed"
    /\ conn' = [conn EXCEPT ![c].thread = "receive", ![c].boot = conn[c].asked,
                            ![c].asked = NoBoot]
    /\ boots' = boots \cup {conn[c].asked}
    /\ UNCHANGED <<Rest, registry, store>>

Unwelcome(c) ==
    /\ conn[c].thread = "unwelcome"
    /\ Send(c, [type |-> "refused", number |-> 0], "lost")
    /\ UNCHANGED <<Rest, boots, registry, store>>

Served(c, type) == Asked(c, type) /\ conn[c].boot # NoBoot

\* The result of a publication is known; it is saved before it is sent.
Conclude(c, a) ==
    conn' = [conn EXCEPT ![c].thread = IF PersistOnMutation THEN "unsaved" ELSE "answer",
                         ![c].request = NoMessage, ![c].answer = a]

MayPublish(c) == conn[c].boot \in registered \ fenced

\* Of what the registry allows, the publication silences nobody.  The thread
\* stamps the registry's epoch on the request, so an epoch the
\* client learned before does not refuse it.
PublishCommitted(c) ==
    /\ Served(c, "publish")
    /\ conn[c].request.number = set
    /\ Registry!Publish(conn[c].boot, Item)
    /\ speaking' = speaking \cup {conn[c].boot}
    /\ sets'[Item] \in 1..MaxSet
    /\ Conclude(c, [type |-> "committed", number |-> sets'[Item]])
    /\ UNCHANGED <<Rest, boots, store>>

PublishRejected(c) ==
    /\ Served(c, "publish")
    /\ ~MayPublish(c) \/ conn[c].request.number # set
    /\ Conclude(c, [type |-> IF MayPublish(c) THEN "stale" ELSE "rejected", number |-> 0])
    /\ UNCHANGED <<Rest, boots, registry, store>>

SaveMutation(c) ==
    /\ conn[c].thread = "unsaved"
    /\ BeginSave(c)
    /\ SetThread(c, "answer")
    /\ UNCHANGED <<Rest, boots, registry>>

Larger(m, n) == IF m > n THEN m ELSE n

\* The commits clients may have learned of, and in which epoch; without
\* persist_on_mutation nothing is promised of them.
Tell(c) ==
    told' = IF conn[c].answer.type # "committed" \/ conn'[c].reply = NoAnswer
               \/ ~PersistOnMutation
            THEN told
            ELSE [set   |-> Larger(told.set, conn[c].answer.number),
                  acked |-> [told.acked EXCEPT ![conn[c].boot] = epoch]]

\* Mutant of Acknowledge: the save may still be under way.
AcknowledgeEarly(c) ==
    /\ conn[c].thread = "answer"
    /\ Send(c, conn[c].answer, "receive")
    /\ Tell(c)
    /\ IF saves[c].phase \in {"saved", "failed"} THEN Store!Return(c) ELSE UNCHANGED store
    /\ UNCHANGED <<lifecycle, client, boots, registry>>

\* The result is sent whether or not the save succeeded.
Acknowledge(c) ==
    /\ conn[c].thread = "answer"
    /\ saves[c].phase # "pending"
    /\ Send(c, conn[c].answer, "receive")
    /\ Tell(c)
    /\ IF saves[c].phase = "idle" THEN UNCHANGED store ELSE Store!Return(c)
    /\ UNCHANGED <<lifecycle, client, boots, registry>>

Status(c) ==
    /\ Served(c, "status")
    /\ Send(c, [type |-> "status", number |-> set], "receive")
    /\ UNCHANGED <<Rest, boots, registry, store>>

\* Only a boot that a connection of the scope registered may be fenced.
FenceAsked(c) ==
    /\ Served(c, "fence")
    /\ IF conn[c].request.boot \in boots
       THEN Consume(c, "fencing")
       ELSE Send(c, [type |-> "error", number |-> 0], "receive")
    /\ UNCHANGED <<Rest, boots, registry, store>>

\* FenceWorkerBoot: a boot that is fenced already is left as it is.
FenceBoot(b) ==
    IF b \in fenced THEN UNCHANGED registry
    ELSE /\ Registry!Fence(b)
         /\ fenced' = fenced \cup {b}
         /\ registered' = registered \ {b}

FenceTarget(c) ==
    /\ conn[c].thread = "fencing"
    /\ FenceBoot(conn[c].asked)
    /\ SetThread(c, "erasing")
    /\ UNCHANGED <<Rest, boots, store>>

\* A fence is acknowledged without a save.
FenceDone(c) ==
    /\ conn[c].thread = "erasing"
    /\ boots' = boots \ {conn[c].asked}
    /\ Send(c, [type |-> "fenced", number |-> 0], "receive")
    /\ UNCHANGED <<Rest, registry, store>>

\* Mutant of Lose: a connection that is lost fences nobody.
LoseUnfenced(c) ==
    /\ conn[c].thread = "lost"
    /\ SetThread(c, "leave")
    /\ UNCHANGED <<Rest, boots, registry, store>>

\* The boot of a lost connection is fenced.
Lose(c) ==
    /\ conn[c].thread = "lost"
    /\ IF conn[c].boot = NoBoot
       THEN UNCHANGED registry
       ELSE FenceBoot(conn[c].boot)
    /\ SetThread(c, "leave")
    /\ UNCHANGED <<Rest, boots, store>>

\* Mutant of Leave: the boot stays in boot_scopes_.
LeaveScope(c) ==
    /\ conn[c].thread = "leave"
    /\ conn' = [conn EXCEPT ![c] = Dropped(c)]
    /\ UNCHANGED <<Rest, boots, registry, store>>

\* It is forgotten: its entries in boot_scopes_ and connections_, its socket.
Leave(c) ==
    /\ conn[c].thread = "leave"
    /\ boots' = boots \ {conn[c].boot}
    /\ conn' = [conn EXCEPT ![c] = Dropped(c)]
    /\ UNCHANGED <<Rest, registry, store>>

Serve(c) ==
    \/ ReceiveNothing(c) \/ Hello(c) \/ Welcome(c) \/ Record(c) \/ Unwelcome(c)
    \/ PublishCommitted(c) \/ PublishRejected(c) \/ SaveMutation(c) \/ Acknowledge(c)
    \/ Status(c)
    \/ FenceAsked(c) \/ FenceTarget(c) \/ FenceDone(c)
    \/ Lose(c) \/ Leave(c)

-----------------------------------------------------------------------------
(* The client.  Its mutex is held for a whole call, so a worker is in one  *)
(* call at a time; a call blocks until it is answered or the socket ends.  *)

Server == <<lifecycle, boots, registry, store, told>>

Free == {c \in Conn : conn[c] = NoConnection}

Idle(w) == client[w].call = "idle"

Connected(w) == Idle(w) /\ client[w].conn # NoConn

\* The connection attempts that are refused change nothing.
Connect(w) ==
    /\ Idle(w) /\ client[w].conn = NoConn
    /\ client[w].life <= MaxLife
    /\ phase = "serving"
    /\ Free # {}
    /\ LET c == CHOOSE free \in Free : TRUE
       IN  /\ \E e \in HelloEpochs :
                 conn' = [conn EXCEPT ![c] =
                    [NoConnection EXCEPT
                        !.thread = "backlog", !.open = TRUE, !.peer = w,
                        !.request = [type |-> "hello", boot |-> BootOf(w), number |-> e]]]
           /\ client' = [client EXCEPT ![w].conn = c, ![w].call = "hello"]
    /\ UNCHANGED Server

\* A request on a socket that the coordinator has closed is lost.
Ask(w, type, b, n) ==
    LET c == client[w].conn
    IN  conn' = [conn EXCEPT ![c].reply = NoAnswer,
                             ![c].request = IF conn[c].open
                                            THEN [type |-> type, boot |-> b, number |-> n]
                                            ELSE NoMessage]

\* Publish asks for the set generation first when it has none cached.
Publish(w) ==
    /\ Connected(w)
    /\ LET call == IF client[w].cache = -1 THEN "status" ELSE "publish"
       IN  /\ Ask(w, call, BootOf(w), IF call = "status" THEN 0 ELSE client[w].cache)
           /\ client' = [client EXCEPT ![w].call = call]
    /\ UNCHANGED Server

Fence(w, b) ==
    /\ Connected(w)
    /\ b # BootOf(w)
    /\ Ask(w, "fence", b, 0)
    /\ client' = [client EXCEPT ![w].call = "fence"]
    /\ UNCHANGED Server

\* Mutant of CloseLocked: the generation cache survives the connection.
CloseKeepingCache(w) ==
    /\ conn' = [conn EXCEPT ![client[w].conn].peer = NoWorker,
                            ![client[w].conn].reply = NoAnswer]
    /\ client' = [client EXCEPT ![w].conn = NoConn, ![w].call = "idle"]

CloseLocked(w) ==
    /\ conn' = [conn EXCEPT ![client[w].conn].peer = NoWorker,
                            ![client[w].conn].reply = NoAnswer]
    /\ client' = [client EXCEPT ![w].conn = NoConn, ![w].cache = -1, ![w].call = "idle"]

Close(w) ==
    /\ Connected(w)
    /\ CloseLocked(w)
    /\ UNCHANGED Server

Answered(w, call, type) ==
    /\ client[w].call = call
    /\ conn[client[w].conn].reply.type = type

Answers(w) == conn[client[w].conn].reply.number

Consumed(w) == [conn EXCEPT ![client[w].conn].reply = NoAnswer]

HelloAccepted(w) ==
    /\ Answered(w, "hello", "accepted")
    /\ conn' = Consumed(w)
    /\ client' = [client EXCEPT ![w].call = "idle"]
    /\ UNCHANGED Server

HelloRefused(w) ==
    /\ Answered(w, "hello", "refused")
    /\ CloseLocked(w)
    /\ UNCHANGED Server

\* The status is cached and the publication goes out with it.
StatusAnswered(w) ==
    /\ Answered(w, "status", "status")
    /\ Ask(w, "publish", BootOf(w), Answers(w))
    /\ client' = [client EXCEPT ![w].cache = Answers(w), ![w].call = "publish"]
    /\ UNCHANGED Server

PublishAnswered(w) ==
    /\ \E type \in {"committed", "stale", "rejected"} :
          /\ Answered(w, "publish", type)
          /\ client' = [client EXCEPT
                ![w].call = "idle",
                ![w].cache = CASE type = "committed" -> Answers(w)
                               [] type = "stale"     -> -1
                               [] type = "rejected"  -> @]
    /\ conn' = Consumed(w)
    /\ UNCHANGED Server

FenceAnswered(w) ==
    /\ Answered(w, "fence", "fenced") \/ Answered(w, "fence", "error")
    /\ conn' = Consumed(w)
    /\ client' = [client EXCEPT ![w].call = "idle"]
    /\ UNCHANGED Server

\* No answer will come: the coordinator's end is closed.
CallFailed(w) ==
    /\ ~Idle(w)
    /\ ~conn[client[w].conn].open
    /\ conn[client[w].conn].reply = NoAnswer
    /\ CloseLocked(w)
    /\ UNCHANGED Server

\* The worker dies at any moment; what it sent is still read.
Die(w) ==
    /\ "death" \in Faults
    /\ client[w].life <= MaxLife
    /\ client' = [client EXCEPT ![w] = [life |-> client[w].life + 1, conn |-> NoConn,
                                        cache |-> -1, call |-> "idle"]]
    /\ IF client[w].conn = NoConn THEN UNCHANGED conn
       ELSE conn' = [conn EXCEPT ![client[w].conn].peer = NoWorker,
                                 ![client[w].conn].reply = NoAnswer]
    /\ UNCHANGED Server

Library(w) ==
    \/ HelloAccepted(w) \/ HelloRefused(w) \/ StatusAnswered(w)
    \/ PublishAnswered(w) \/ FenceAnswered(w) \/ CallFailed(w)

-----------------------------------------------------------------------------
Starting == Load \/ AdvanceEpoch \/ SaveEpoch \/ Listen \/ StartFails

Stopping ==
    \/ CloseSockets \/ TakeThreads \/ JoinThreads \/ Stopped
    \/ EndAccepting

Next ==
    \/ Starting \/ BeginStop \/ Stopping \/ Crash
    \/ \E c \in Conn : Take(c) \/ Count(c) \/ Spawn(c) \/ Serve(c)
    \/ \E s \in Saver : Write(s)
    \/ \E w \in Worker : \/ Connect(w) \/ Publish(w) \/ Close(w) \/ Die(w) \/ Library(w)
                         \/ \E b \in Boot : Fence(w, b)

Spec == Init /\ [][Next]_vars

\* Threads that can run do run, and so do the calls of the client library;
\* accept takes waiting connections in turn.  No call is ever made, no process
\* ever started, stopped or ended for the sake of progress.
FairSpec ==
    /\ Spec
    /\ \A c \in Conn : /\ SF_vars(Take(c))
                       /\ WF_vars(Count(c) \/ Spawn(c))
                       /\ WF_vars(Serve(c))
    /\ WF_vars(Stopping)
    /\ \A s \in Saver : WF_vars(Write(s))
    /\ \A w \in Worker : WF_vars(Library(w))

-----------------------------------------------------------------------------
Call == [phase: {"idle", "pending", "saved", "failed"},
         payload: StoredRegistry \cup {NoPayload}]

Typed ==
    /\ phase \in {"down", "loaded", "advanced", "saving", "serving", "stopping", "closed",
                  "joining", "finishing"}
    /\ acceptor \in {"waiting", "ended"} \cup Conn
    /\ workers \in SUBSET Conn /\ joining \in SUBSET Conn
    /\ boots \subseteq Boot
    /\ conn \in [Conn -> Connection]
    /\ client \in [Worker -> Client]
    /\ epoch \in Nat /\ registered \subseteq Boot /\ fenced \subseteq Boot
    /\ speaking \subseteq Boot /\ sets \in [{Item} -> Nat]
    /\ stored \in StoredRegistry \cup {NoPayload} /\ saves \in [Saver -> Call]
    /\ told \in [set: Nat, acked: [Boot -> Nat]]

\* The type invariant; connections_ stays within its bound.
TypeOK == Typed /\ Cardinality(Connections) <= MaxConnections

\* A worker speaks only while the coordinator will notice its end: as long as
\* process-bound evidence of a boot is current, a thread that has not yet
\* fenced it serves a connection of that boot.  So the evidence of a dead
\* worker never outlives its connection, however its death, a fence, a second
\* connection or a failing send interleave.
SpeakersAreServed ==
    \A b \in speaking : \E c \in Conn :
        conn[c].boot = b /\ conn[c].thread \notin {"none", "leave"}

\* boot_scopes_, which nothing else bounds, holds no boot whose connections are
\* gone, so a fence request cannot name one.
ScopesAreServed ==
    \A b \in boots : \E c \in Conn : conn[c].boot = b /\ conn[c].thread # "none"

\* On a connection that stands the client never expects a generation the
\* coordinator has not reached: a stale answer always means that somebody else
\* published in between, and asking again helps.
CacheNeverAhead ==
    \A w \in Worker :
        /\ client[w].conn # NoConn
        /\ conn[client[w].conn].open
        => client[w].cache <= set

\* What a client was told is committed is in the store, at every moment a
\* crash may come.
AckedSurvives ==
    told.set > 0 => stored # NoPayload /\ stored.set >= told.set

\* A worker of an earlier coordinator process that was told of a commit is
\* locked out by the restart: it cannot register again and nothing speaks for
\* it.
EarlierWorkersLockedOut ==
    phase = "serving" =>
        \A b \in Boot : told.acked[b] \notin {0, epoch} =>
            b \in fenced /\ b \notin registered \cup speaking

\* Every call of a client returns: answered, or ended by a rejected
\* connection, a stop or a crash.
CallsReturn == \A w \in Worker : ~Idle(w) ~> Idle(w)

\* The boot of a client that is gone is fenced, unless the coordinator itself
\* ends first.
LostConnectionIsFenced ==
    \A c \in Conn, b \in Boot :
        conn[c].boot = b /\ Gone(c) ~> b \in fenced \/ phase = "down"
=============================================================================
