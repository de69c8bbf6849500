------------------------------ MODULE EventBus ------------------------------
(***************************************************************************)
(* The event bus of internal/events/event_bus.go with its only subscribers,*)
(* the WebSocket handlers of internal/master/api_handlers.go.  Publishers  *)
(* are the goroutines of the master that call Publish; each has one call   *)
(* under way at a time.                                                    *)
(*                                                                         *)
(* Bus.mu is a Go RWMutex: a Publish holds it for reading from RLock to    *)
(* RUnlock, Subscribe and Unsubscribe are single steps that need it for    *)
(* writing, and a writer that waits keeps new readers out.  A channel is   *)
(* named after its client; Unsubscribe closes it after giving up the lock. *)
(***************************************************************************)
EXTENDS Naturals, Sequences

CONSTANTS Publishers, Clients,
          Capacity,    \* of a subscription channel (512)
          MaxEvents    \* bound on the events of each publisher

ASSUME BusAssumption == /\ Capacity \in Nat \ {0}
                        /\ MaxEvents \in [Publishers -> Nat]

VARIABLES
  subscribers,  \* Bus.subscribers, the channels in the map
  chan,         \* what each channel holds
  closed,       \* the channels that have been closed
  pub,          \* where each publisher is in Publish
  seq,          \* the number of the last event of each publisher
  todo,         \* its sends still to be made: <<client, number>>
  handler,      \* where each client's handler is in handleWebSocket
  event,        \* the event it is writing, if any, as a sequence
  conn,         \* "up", or "gone" once the connection is known to be dead
  seen,         \* history: the last event of each publisher that was written to
                \* the client, or that was older than its subscription
  overrun       \* history: clients for which a full channel lost an event

busVars == <<subscribers, chan, closed>>
pubVars == <<pub, seq, todo>>
webVars == <<handler, event, conn>>
vars == <<busVars, pubVars, webVars, seen, overrun>>

Event == [from : Publishers, n : Nat]

TypeOK ==
  /\ subscribers \in SUBSET Clients
  /\ chan \in [Clients -> Seq(Event)]
  /\ closed \in SUBSET Clients
  /\ pub \in [Publishers -> {"idle", "lock", "send"}]
  /\ seq \in [Publishers -> Nat]
  /\ todo \in [Publishers -> SUBSET (Clients \X Nat)]
  /\ handler \in [Clients -> {"new", "subscribe", "range", "write",
                              "unsubscribe", "close", "ended"}]
  /\ event \in [Clients -> Seq(Event)]
  /\ conn \in [Clients -> {"up", "gone"}]
  /\ seen \in [Clients -> [Publishers -> Nat]]
  /\ overrun \in SUBSET Clients

Init ==
  /\ subscribers = {}
  /\ chan = [c \in Clients |-> <<>>]
  /\ closed = {}
  /\ pub = [p \in Publishers |-> "idle"]
  /\ seq = [p \in Publishers |-> 0]
  /\ todo = [p \in Publishers |-> {}]
  /\ handler = [c \in Clients |-> "new"]
  /\ event = [c \in Clients |-> <<>>]
  /\ conn = [c \in Clients |-> "up"]
  /\ seen = [c \in Clients |-> [p \in Publishers |-> 0]]
  /\ overrun = {}

NoReader == \A p \in Publishers : pub[p] # "send"
NoWriterWaits == \A c \in Clients : handler[c] \notin {"subscribe", "unsubscribe"}
-----------------------------------------------------------------------------
(* Publish. *)

\* The event is stamped before the lock is asked for.
Publish(p) ==
  /\ pub[p] = "idle" /\ seq[p] < MaxEvents[p]
  /\ pub' = [pub EXCEPT ![p] = "lock"]
  /\ seq' = [seq EXCEPT ![p] = @ + 1]
  /\ UNCHANGED <<busVars, todo, webVars, seen, overrun>>

\* The loop's sends, one for each channel in the map.
RLock(p) ==
  /\ pub[p] = "lock" /\ NoWriterWaits
  /\ pub' = [pub EXCEPT ![p] = "send"]
  /\ todo' = [todo EXCEPT ![p] = @ \cup (subscribers \X {seq[p]})]
  /\ UNCHANGED <<busVars, seq, webVars, seen, overrun>>

\* A send without the default branch.
Send_Blocking(p, c, n) ==
  /\ <<c, n>> \in todo[p]
  /\ Len(chan[c]) < Capacity
  /\ chan' = [chan EXCEPT ![c] = Append(@, [from |-> p, n |-> n])]
  /\ todo' = [todo EXCEPT ![p] = @ \ {<<c, n>>}]
  /\ UNCHANGED <<subscribers, closed, pub, seq, webVars, seen, overrun>>

\* When the channel is full, Publish returns and a goroutine makes the send later.
Send_Later(p, c, n) ==
  /\ <<c, n>> \in todo[p]
  /\ IF Len(chan[c]) < Capacity
       THEN /\ chan' = [chan EXCEPT ![c] = Append(@, [from |-> p, n |-> n])]
            /\ todo' = [todo EXCEPT ![p] = @ \ {<<c, n>>}]
            /\ UNCHANGED <<pub, overrun>>
       ELSE /\ pub' = [pub EXCEPT ![p] = "idle"]
            /\ overrun' = overrun \cup {c}
            /\ UNCHANGED <<chan, todo>>
  /\ UNCHANGED <<subscribers, closed, seq, webVars, seen>>

\* The select: the event goes into the channel or, when that is full, is lost.
Send(p, c, n) ==
  /\ <<c, n>> \in todo[p]
  /\ IF Len(chan[c]) < Capacity
       THEN /\ chan' = [chan EXCEPT ![c] = Append(@, [from |-> p, n |-> n])]
            /\ UNCHANGED overrun
       ELSE /\ overrun' = overrun \cup {c}
            /\ UNCHANGED chan
  /\ todo' = [todo EXCEPT ![p] = @ \ {<<c, n>>}]
  /\ UNCHANGED <<subscribers, closed, pub, seq, webVars, seen>>

\* Publish returning while goroutines make its sends.
RUnlock_Async(p) ==
  /\ pub[p] = "send"
  /\ pub' = [pub EXCEPT ![p] = "idle"]
  /\ UNCHANGED <<busVars, seq, todo, webVars, seen, overrun>>

RUnlock(p) ==
  /\ pub[p] = "send" /\ todo[p] = {}
  /\ pub' = [pub EXCEPT ![p] = "idle"]
  /\ UNCHANGED <<busVars, seq, todo, webVars, seen, overrun>>
-----------------------------------------------------------------------------
(* The WebSocket handler of client c. *)

Upgrade(c) ==
  /\ handler[c] = "new"
  /\ handler' = [handler EXCEPT ![c] = "subscribe"]
  /\ UNCHANGED <<busVars, pubVars, event, conn, seen, overrun>>

\* An event whose Publish has not got the lock yet is not older.
Subscribe(c) ==
  /\ handler[c] = "subscribe" /\ NoReader
  /\ subscribers' = subscribers \cup {c}
  /\ handler' = [handler EXCEPT ![c] = "range"]
  /\ seen' = [seen EXCEPT ![c] = [p \in Publishers |->
                IF pub[p] = "lock" THEN seq[p] - 1 ELSE seq[p]]]
  /\ UNCHANGED <<chan, closed, pubVars, event, conn, overrun>>

\* for event := range sub
Take(c) ==
  /\ handler[c] = "range" /\ chan[c] # <<>>
  /\ event' = [event EXCEPT ![c] = <<Head(chan[c])>>]
  /\ chan' = [chan EXCEPT ![c] = Tail(@)]
  /\ handler' = [handler EXCEPT ![c] = "write"]
  /\ UNCHANGED <<subscribers, closed, pubVars, conn, seen, overrun>>

\* WriteMessage returns nil, however long the client takes.
WriteOk(c) ==
  /\ handler[c] = "write" /\ conn[c] = "up"
  /\ seen' = [seen EXCEPT ![c][event[c][1].from] = event[c][1].n]
  /\ event' = [event EXCEPT ![c] = <<>>]
  /\ handler' = [handler EXCEPT ![c] = "range"]
  /\ UNCHANGED <<busVars, pubVars, conn, overrun>>

\* A failed write that is only logged.
WriteFails_Continue(c) ==
  /\ handler[c] = "write" /\ conn[c] = "gone"
  /\ event' = [event EXCEPT ![c] = <<>>]
  /\ handler' = [handler EXCEPT ![c] = "range"]
  /\ UNCHANGED <<busVars, pubVars, conn, seen, overrun>>

WriteFails(c) ==
  /\ handler[c] = "write" /\ conn[c] = "gone"
  /\ event' = [event EXCEPT ![c] = <<>>]
  /\ handler' = [handler EXCEPT ![c] = "unsubscribe"]
  /\ UNCHANGED <<busVars, pubVars, conn, seen, overrun>>

Unsubscribe(c) ==
  /\ handler[c] = "unsubscribe" /\ NoReader
  /\ subscribers' = subscribers \ {c}
  /\ handler' = [handler EXCEPT ![c] = "close"]
  /\ UNCHANGED <<chan, closed, pubVars, event, conn, seen, overrun>>

CloseChan(c) ==
  /\ handler[c] = "close"
  /\ closed' = closed \cup {c}
  /\ handler' = [handler EXCEPT ![c] = "ended"]
  /\ UNCHANGED <<subscribers, chan, pubVars, event, conn, seen, overrun>>

\* The read loop finds out and returns; it tells nobody.
ClientLeaves(c) ==
  /\ handler[c] \notin {"new", "ended"} /\ conn[c] = "up"
  /\ conn' = [conn EXCEPT ![c] = "gone"]
  /\ UNCHANGED <<busVars, pubVars, handler, event, seen, overrun>>
-----------------------------------------------------------------------------
PublishStep(p) ==
  \/ RLock(p) \/ RUnlock(p)
  \/ \E c \in Clients, n \in 1 .. MaxEvents[p] : Send(p, c, n)

HandlerStep(c) ==
  Subscribe(c) \/ Take(c) \/ WriteFails(c) \/ Unsubscribe(c) \/ CloseChan(c)

Next == \/ \E p \in Publishers : Publish(p) \/ PublishStep(p)
        \/ \E c \in Clients : Upgrade(c) \/ HandlerStep(c) \/ WriteOk(c) \/ ClientLeaves(c)

Spec == Init /\ [][Next]_vars

\* Goroutines run.  A write to a client that is up may take for ever.
Fairness == /\ \A p \in Publishers : WF_vars(PublishStep(p))
            /\ \A c \in Clients : WF_vars(HandlerStep(c))

FairSpec == Spec /\ Fairness
-----------------------------------------------------------------------------
\* No Publish sends on a closed channel, which would panic: Unsubscribe closes
\* it after it has given up the lock, but a publisher that got the channel from
\* the map holds the lock until it has made the send.
NoSendOnClosed ==
  \A p \in Publishers : \A send \in todo[p] : send[1] \notin closed

\* The events on their way to client c, the oldest first.
Line(c) == event[c] \o chan[c]

\* The last event of p that has been offered to every channel in the map.
Offered(p, c) ==
  IF pub[p] = "lock" \/ <<c, seq[p]>> \in todo[p] THEN seq[p] - 1 ELSE seq[p]

\* Only a slow client misses events: one whose channel was never full has got,
\* or has on the way, in order, every event of each publisher since it
\* subscribed; even one whose channel was full gets no event twice or out of
\* order.
InOrder ==
  \A c \in subscribers, p \in Publishers :
    LET mine   == {i \in 1 .. Len(Line(c)) : Line(c)[i].from = p}
        num(i) == Line(c)[i].n
    IN  /\ \A i \in mine : num(i) > seen[c][p]
        /\ \A i, j \in mine : i < j => num(i) < num(j)
        /\ c \notin overrun /\ handler[c] # "unsubscribe" =>
             {num(i) : i \in mine} = seen[c][p] + 1 .. Offered(p, c)

\* Publishers never wait for clients: every Publish returns, even if no client
\* ever takes an event.  checkWorkerHealth publishes with the registry's lock
\* held, so a Publish that waits would stop heartbeats and registrations too.
PublisherNeverWaits == \A p \in Publishers : pub[p] = "lock" ~> pub[p] = "idle"

\* A client that has gone is unsubscribed as soon as there is an event for it.
GoneClientReleased ==
  \A c \in Clients :
    conn[c] = "gone" /\ c \in subscribers /\ chan[c] # <<>> ~> c \notin subscribers
=============================================================================
