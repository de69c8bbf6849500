--------------------------- MODULE EventBusProofs ---------------------------
(***************************************************************************)
(* The event bus for any number of publishers and clients.                 *)
(***************************************************************************)
EXTENDS EventBus, Integers, SequenceTheorems, TLAPS

\* A send under way is that of a publisher that has the read lock, to a channel
\* in the map; a channel in the map belongs to a handler that has not
\* unsubscribed, and a closed channel to one that has ended.
ClosedInv ==
  /\ pub \in [Publishers -> {"idle", "lock", "send"}]
  /\ todo \in [Publishers -> SUBSET (Clients \X Nat)]
  /\ seq \in [Publishers -> Nat]
  /\ handler \in [Clients -> {"new", "subscribe", "range", "write",
                              "unsubscribe", "close", "ended"}]
  /\ subscribers \subseteq Clients
  /\ \A p \in Publishers : todo[p] # {} => pub[p] = "send"
  /\ \A p \in Publishers : \A send \in todo[p] : send[1] \in subscribers
  /\ \A c \in subscribers : handler[c] \in {"range", "write", "unsubscribe"}
  /\ \A c \in closed : c \in Clients /\ handler[c] = "ended"

\* The steps of a Publish keep it: only RLock adds sends, for the channels in
\* the map, and RUnlock waits until they are made.
LEMMA ClosedPublish ==
  ASSUME ClosedInv, NEW p \in Publishers, Publish(p) \/ PublishStep(p)
  PROVE  ClosedInv'
<1>1. CASE Publish(p)
  BY <1>1 DEF ClosedInv, Publish, busVars, webVars
<1>2. CASE RLock(p)
  <2>1. /\ pub' = [pub EXCEPT ![p] = "send"]
        /\ todo' = [todo EXCEPT ![p] = @ \cup (subscribers \X {seq[p]})]
        /\ UNCHANGED <<subscribers, closed, seq, handler>>
    BY <1>2 DEF RLock, busVars, webVars
  <2>2. subscribers \X {seq[p]} \subseteq Clients \X Nat
    BY DEF ClosedInv
  <2>3. todo' \in [Publishers -> SUBSET (Clients \X Nat)]
    BY <2>1, <2>2 DEF ClosedInv
  <2>4. \A q \in Publishers : todo'[q] # {} => pub'[q] = "send"
    BY <2>1 DEF ClosedInv
  <2>5. \A q \in Publishers : \A send \in todo'[q] : send[1] \in subscribers
    BY <2>1 DEF ClosedInv
  <2> QED
    BY <2>1, <2>3, <2>4, <2>5 DEF ClosedInv
<1>3. CASE RUnlock(p)
  BY <1>3 DEF ClosedInv, RUnlock, busVars, webVars
<1>4. ASSUME NEW c \in Clients, NEW n, Send(p, c, n) PROVE ClosedInv'
  <2>1. /\ todo' = [todo EXCEPT ![p] = @ \ {<<c, n>>}]
        /\ UNCHANGED <<subscribers, closed, pub, seq, handler>>
    BY <1>4 DEF Send, webVars
  <2>2. /\ todo' \in [Publishers -> SUBSET (Clients \X Nat)]
        /\ \A q \in Publishers : todo'[q] \subseteq todo[q]
    BY <2>1 DEF ClosedInv
  <2> QED
    BY <2>1, <2>2 DEF ClosedInv
<1> QED
  BY <1>1, <1>2, <1>3, <1>4 DEF PublishStep

\* So do the steps of a client and its handler: a channel leaves the map only
\* while nobody holds the read lock, hence while no send is under way, and is
\* closed only after that.
LEMMA ClosedClient ==
  ASSUME ClosedInv, NEW c \in Clients,
         Upgrade(c) \/ HandlerStep(c) \/ WriteOk(c) \/ ClientLeaves(c)
  PROVE  ClosedInv'
<1>1. CASE Upgrade(c) \/ Take(c) \/ WriteOk(c) \/ WriteFails(c) \/ ClientLeaves(c)
  <2>1. UNCHANGED <<subscribers, closed, pub, todo, seq>>
    BY <1>1 DEF Upgrade, Take, WriteOk, WriteFails, ClientLeaves, busVars, pubVars
  <2>2. \/ UNCHANGED handler
        \/ handler[c] = "new" /\ handler' = [handler EXCEPT ![c] = "subscribe"]
        \/ /\ handler[c] \in {"range", "write"}
           /\ \E l \in {"range", "write", "unsubscribe"} :
                handler' = [handler EXCEPT ![c] = l]
    BY <1>1 DEF Upgrade, Take, WriteOk, WriteFails, ClientLeaves
  <2> QED
    BY <2>1, <2>2 DEF ClosedInv
<1>2. CASE Subscribe(c)
  BY <1>2 DEF ClosedInv, Subscribe, pubVars
<1>3. CASE Unsubscribe(c)
  <2>1. \A p \in Publishers : todo[p] = {}
    BY <1>3 DEF ClosedInv, Unsubscribe, NoReader
  <2> QED
    BY <1>3, <2>1 DEF ClosedInv, Unsubscribe, pubVars
<1>4. CASE CloseChan(c)
  BY <1>4 DEF ClosedInv, CloseChan, pubVars
<1> QED
  BY <1>1, <1>2, <1>3, <1>4 DEF HandlerStep

\* For any number of publishers and clients no event is sent on a closed channel:
\* closing outside the lock is safe because sending happens inside it.
THEOREM NeverSendsOnClosed == Spec => []NoSendOnClosed
<1>1. Init => ClosedInv
  BY DEF Init, ClosedInv
<1>2. ClosedInv /\ [Next]_vars => ClosedInv'
  <2> SUFFICES ASSUME ClosedInv, [Next]_vars PROVE ClosedInv'
    OBVIOUS
  <2>1. CASE UNCHANGED vars
    BY <2>1 DEF ClosedInv, vars, busVars, pubVars, webVars
  <2> QED
    BY <2>1, ClosedPublish, ClosedClient DEF Next
<1>3. ClosedInv => NoSendOnClosed
  BY DEF ClosedInv, NoSendOnClosed
<1> QED
  BY <1>1, <1>2, <1>3, PTL DEF Spec
-----------------------------------------------------------------------------
(* Order.  Lines of events as sequences. *)

\* The events of p in line L are numbered in ascending order, above lo and up to
\* hi ...
Sorted(L, p, lo, hi) ==
  /\ lo <= hi
  /\ \A i \in 1 .. Len(L) : L[i].from = p => lo < L[i].n /\ L[i].n <= hi
  /\ \A i, j \in 1 .. Len(L) : i < j /\ L[i].from = p /\ L[j].from = p => L[i].n < L[j].n

\* ... and none of these numbers is missing.
Gapless(L, p, lo, hi) ==
  \A m \in lo + 1 .. hi : \E i \in 1 .. Len(L) : L[i].from = p /\ L[i].n = m

\* A client that has just subscribed has nothing on the way.
LEMMA EmptyLine ==
  ASSUME NEW p, NEW lo \in Int
  PROVE  Sorted(<<>>, p, lo, lo) /\ Gapless(<<>>, p, lo, lo)
  BY DEF Sorted, Gapless

\* What a Send that finds room does to a line.
LEMMA LineGrows ==
  ASSUME NEW L \in Seq(Event), NEW e \in Event, NEW p, NEW lo \in Int, NEW hi \in Int,
         Sorted(L, p, lo, hi), e.from = p => e.n = hi + 1
  PROVE  LET top == IF e.from = p THEN hi + 1 ELSE hi
         IN  /\ Sorted(Append(L, e), p, lo, top)
             /\ Gapless(L, p, lo, hi) => Gapless(Append(L, e), p, lo, top)
<1> DEFINE top == IF e.from = p THEN hi + 1 ELSE hi
           A == Append(L, e)
<1>0. \A i \in 1 .. Len(L) : L[i].n \in Int
  <2>1. \A i \in 1 .. Len(L) : L[i] \in Event
    BY ElementOfSeq
  <2> QED
    BY <2>1 DEF Event
<1>1. /\ Len(A) = Len(L) + 1 /\ Len(L) \in Nat
      /\ \A i \in 1 .. Len(L) : A[i] = L[i]
      /\ A[Len(L) + 1] = e
  BY AppendProperties, LenProperties
<1>e. e.n \in Int
  BY DEF Event
<1> HIDE DEF A
<1>2. /\ lo <= top
      /\ \A i \in 1 .. Len(A) : A[i].from = p => lo < A[i].n /\ A[i].n <= top
  BY <1>0, <1>1, <1>e DEF Sorted
<1>3. \A i, j \in 1 .. Len(A) :
        i < j /\ A[i].from = p /\ A[j].from = p => A[i].n < A[j].n
  <2> SUFFICES ASSUME NEW i \in 1 .. Len(A), NEW j \in 1 .. Len(A),
                      i < j, A[i].from = p, A[j].from = p
               PROVE  A[i].n < A[j].n
    OBVIOUS
  <2>1. i \in 1 .. Len(L) /\ A[i] = L[i]
    BY <1>1
  <2>2. CASE j \in 1 .. Len(L)
    BY <1>1, <2>1, <2>2 DEF Sorted
  <2>3. CASE j = Len(L) + 1
    BY <1>0, <1>1, <2>1, <2>3 DEF Sorted
  <2>4. j \in 1 .. Len(L) \/ j = Len(L) + 1
    BY <1>1
  <2> QED
    BY <2>2, <2>3, <2>4
<1>4. ASSUME Gapless(L, p, lo, hi) PROVE Gapless(A, p, lo, top)
  <2> SUFFICES ASSUME NEW m \in lo + 1 .. top
               PROVE  \E i \in 1 .. Len(A) : A[i].from = p /\ A[i].n = m
    BY DEF Gapless
  <2>1. CASE m \in lo + 1 .. hi
    <3>1. PICK i \in 1 .. Len(L) : L[i].from = p /\ L[i].n = m
      BY <1>4, <2>1 DEF Gapless
    <3> QED
      BY <1>1, <3>1
  <2>2. CASE m = hi + 1 /\ e.from = p
    BY <1>1, <2>2
  <2> QED
    BY <2>1, <2>2
<1> QED
  BY <1>2, <1>3, <1>4 DEF Sorted, A

\* What taking the first event off a line does.
LEMMA LineShrinks ==
  ASSUME NEW L \in Seq(Event), L # <<>>, NEW p, NEW lo \in Int, NEW hi \in Int,
         Sorted(L, p, lo, hi)
  PROVE  LET low == IF L[1].from = p THEN L[1].n ELSE lo
         IN  /\ Sorted(Tail(L), p, lo, hi)
             /\ Sorted(Tail(L), p, low, hi)
             /\ Gapless(L, p, lo, hi) => Gapless(Tail(L), p, low, hi)
<1> DEFINE low == IF L[1].from = p THEN L[1].n ELSE lo
           T == Tail(L)
<1>0. \A i \in 1 .. Len(L) : L[i].n \in Int
  <2>1. \A i \in 1 .. Len(L) : L[i] \in Event
    BY ElementOfSeq
  <2> QED
    BY <2>1 DEF Event
<1>1. /\ Len(L) \in Nat \ {0} /\ Len(T) = Len(L) - 1
      /\ \A i \in 1 .. Len(T) : T[i] = L[i + 1]
  BY HeadTailProperties, EmptySeq
<1> HIDE DEF T
<1>2. Sorted(T, p, lo, hi)
  <2>1. \A i \in 1 .. Len(T) : i + 1 \in 1 .. Len(L) /\ T[i] = L[i + 1]
    BY <1>1
  <2>2. \A i, j \in 1 .. Len(T) :
          i < j /\ T[i].from = p /\ T[j].from = p => T[i].n < T[j].n
    BY <1>1, <2>1 DEF Sorted
  <2> QED
    BY <2>1, <2>2 DEF Sorted
<1>3. /\ low \in Int /\ low <= hi
      /\ \A i \in 1 .. Len(T) : T[i].from = p => low < T[i].n
  BY <1>0, <1>1 DEF Sorted
<1>5. ASSUME Gapless(L, p, lo, hi) PROVE Gapless(T, p, low, hi)
  <2> SUFFICES ASSUME NEW m \in low + 1 .. hi
               PROVE  \E i \in 1 .. Len(T) : T[i].from = p /\ T[i].n = m
    BY DEF Gapless
  <2>1. m \in lo + 1 .. hi /\ (L[1].from = p => L[1].n # m)
    BY <1>0, <1>1, <1>3 DEF Sorted
  <2>2. PICK i \in 1 .. Len(L) : L[i].from = p /\ L[i].n = m
    BY <1>5, <2>1 DEF Gapless
  <2>3. i # 1 /\ i - 1 \in 1 .. Len(T) /\ T[i - 1] = L[i]
    BY <1>1, <2>1, <2>2
  <2> QED
    BY <2>2, <2>3
<1> QED
  BY <1>2, <1>3, <1>5 DEF Sorted, T

\* A sequence is its head before its tail.
LEMMA HeadTailJoined ==
  ASSUME NEW s \in Seq(Event), s # <<>>
  PROVE  <<Head(s)>> \o Tail(s) = s
<1> DEFINE j == <<Head(s)>> \o Tail(s)
<1>1. /\ Head(s) \in Event /\ Tail(s) \in Seq(Event) /\ Len(Tail(s)) = Len(s) - 1
      /\ \A i \in 1 .. Len(Tail(s)) : Tail(s)[i] = s[i + 1]
      /\ Len(s) \in Nat \ {0} /\ Head(s) = s[1]
  BY HeadTailProperties, EmptySeq
<1>2. <<Head(s)>> \in Seq(Event) /\ Len(<<Head(s)>>) = 1 /\ <<Head(s)>>[1] = s[1]
  BY <1>1
<1>3. /\ j \in Seq(Event) /\ Len(j) = 1 + Len(Tail(s))
      /\ \A i \in 1 .. 1 + Len(Tail(s)) :
           j[i] = IF i <= 1 THEN <<Head(s)>>[i] ELSE Tail(s)[i - 1]
  BY <1>1, <1>2, ConcatProperties
<1> HIDE DEF j
<1>4. \A i \in 1 .. Len(s) : j[i] = s[i]
  BY <1>1, <1>2, <1>3
<1> QED
  BY <1>1, <1>3, <1>4, SeqEqual DEF j

\* With one event in hand, the rest of the line is what the channel holds.
LEMMA OneInHand ==
  ASSUME NEW h \in Seq(Event), NEW s \in Seq(Event), Len(h) = 1
  PROVE  /\ h[1] \in Event /\ h \o s # <<>>
         /\ (h \o s)[1] = h[1] /\ Tail(h \o s) = s
<1> DEFINE j == h \o s
<1>1. /\ j \in Seq(Event) /\ Len(j) = 1 + Len(s) /\ Len(s) \in Nat
      /\ \A i \in 1 .. 1 + Len(s) : j[i] = IF i <= 1 THEN h[i] ELSE s[i - 1]
  BY ConcatProperties, LenProperties
<1>2. h[1] \in Event
  BY ElementOfSeq
<1> HIDE DEF j
<1>3. j # <<>> /\ j[1] = h[1]
  BY <1>1
<1>4. /\ Tail(j) \in Seq(Event) /\ Len(Tail(j)) = Len(s)
      /\ \A i \in 1 .. Len(Tail(j)) : Tail(j)[i] = j[i + 1]
  BY <1>1, <1>3, HeadTailProperties
<1>5. \A i \in 1 .. Len(Tail(j)) : Tail(j)[i] = s[i]
  BY <1>1, <1>4
<1>6. Tail(j) = s
  BY <1>4, <1>5, SeqEqual
<1> QED
  BY <1>2, <1>3, <1>6 DEF j

\* An event sent to the channel is appended to the whole line.
LEMMA AppendedLast ==
  ASSUME NEW h \in Seq(Event), NEW s \in Seq(Event), NEW e \in Event
  PROVE  h \o Append(s, e) = Append(h \o s, e)
<1>1. <<e>> \in Seq(Event) /\ h \o s \in Seq(Event)
  BY ConcatProperties
<1>2. Append(s, e) = s \o <<e>> /\ Append(h \o s, e) = (h \o s) \o <<e>>
  BY <1>1, AppendIsConcat
<1>3. (h \o s) \o <<e>> = h \o (s \o <<e>>)
  BY <1>1, ConcatAssociative
<1> QED
  BY <1>2, <1>3
-----------------------------------------------------------------------------
(* The order in which events reach a client. *)

Served(c, p) ==
  /\ Sorted(Line(c), p, seen[c][p], Offered(p, c))
  /\ c \notin overrun /\ handler[c] # "unsubscribe" =>
       Gapless(Line(c), p, seen[c][p], Offered(p, c))

\* The sends still to be made are those of the publisher's last event, a client
\* that has not subscribed has an empty channel, only a handler that writes has
\* an event in hand, and every subscriber is served in order.
OrderInv ==
  /\ TypeOK /\ ClosedInv
  /\ \A p \in Publishers : pub[p] # "idle" => seq[p] > 0
  /\ \A p \in Publishers : \A send \in todo[p] : send[2] = seq[p]
  /\ \A c \in Clients : handler[c] \in {"new", "subscribe"} => chan[c] = <<>>
  /\ \A c \in Clients : IF handler[c] = "write" THEN Len(event[c]) = 1
                                                ELSE event[c] = <<>>
  /\ \A c \in subscribers, p \in Publishers : Served(c, p)

\* What the invariant says of one client's line.
LEMMA LineTyped ==
  ASSUME OrderInv, NEW c \in Clients, NEW p \in Publishers
  PROVE  /\ chan[c] \in Seq(Event) /\ event[c] \in Seq(Event) /\ Line(c) \in Seq(Event)
         /\ seen[c][p] \in Nat /\ seq[p] \in Nat /\ Offered(p, c) \in Int
         /\ pub[p] # "send" => todo[p] = {}
<1>1. chan[c] \in Seq(Event) /\ event[c] \in Seq(Event)
  BY DEF OrderInv, TypeOK
<1>2. Line(c) \in Seq(Event)
  BY <1>1, ConcatProperties DEF Line
<1>3. /\ seen[c][p] \in Nat /\ seq[p] \in Nat
      /\ pub[p] # "send" => todo[p] = {}
  BY DEF OrderInv, TypeOK, ClosedInv
<1> QED
  BY <1>1, <1>2, <1>3 DEF Offered

\* A client stays served when its line, what has been offered to it and what it
\* has seen do not change.
LEMMA ServedStill ==
  ASSUME NEW c \in Clients, NEW p \in Publishers, Served(c, p),
         Line(c)' = Line(c), Offered(p, c)' = Offered(p, c),
         seen'[c][p] = seen[c][p],
         c \in overrun => c \in overrun',
         handler[c] = "unsubscribe" => handler'[c] = "unsubscribe"
  PROVE  Served(c, p)'
  BY DEF Served

\* The steps of a Publish.
LEMMA OrderPublish ==
  ASSUME OrderInv, NEW p \in Publishers, Publish(p) \/ PublishStep(p)
  PROVE  OrderInv'
<1>0. /\ TypeOK /\ ClosedInv
      /\ \A q \in Publishers : pub[q] # "idle" => seq[q] > 0
      /\ \A q \in Publishers : \A send \in todo[q] : send[2] = seq[q]
      /\ \A c \in Clients : handler[c] \in {"new", "subscribe"} => chan[c] = <<>>
      /\ \A c \in Clients : IF handler[c] = "write" THEN Len(event[c]) = 1
                                                    ELSE event[c] = <<>>
      /\ \A c \in subscribers, q \in Publishers : Served(c, q)
      /\ subscribers \subseteq Clients
  BY DEF OrderInv, TypeOK
<1>1. ClosedInv'
  BY <1>0, ClosedPublish
<1>2. UNCHANGED <<subscribers, closed, webVars, seen>>
  BY DEF Publish, PublishStep, RLock, RUnlock, Send, busVars
\* As long as no event is sent, only what has been offered can change.
<1>a. ASSUME UNCHANGED <<chan, overrun>>, TypeOK',
             \A q \in Publishers : pub'[q] # "idle" => seq'[q] > 0,
             \A q \in Publishers : \A send \in todo'[q] : send[2] = seq'[q],
             \A c \in subscribers, q \in Publishers : Offered(q, c)' = Offered(q, c)
      PROVE  OrderInv'
  <2>1. ASSUME NEW c \in subscribers, NEW q \in Publishers PROVE Served(c, q)'
    <3>1. Line(c)' = Line(c)
      BY <1>2, <1>a DEF Line, webVars
    <3> QED
      BY <1>0, <1>2, <1>a, <2>1, <3>1, ServedStill DEF webVars
  <2> QED
    BY <1>0, <1>1, <1>2, <1>a, <2>1 DEF OrderInv, webVars
<1>3. CASE Publish(p)
  <2>1. /\ pub[p] = "idle" /\ pub' = [pub EXCEPT ![p] = "lock"]
        /\ seq' = [seq EXCEPT ![p] = @ + 1] /\ UNCHANGED <<chan, todo, overrun>>
    BY <1>3 DEF Publish, busVars
  <2>2. todo[p] = {} /\ seq[p] \in Nat
    BY <1>0, <2>1 DEF ClosedInv
  <2>3. TypeOK'
    BY <1>0, <1>2, <2>1 DEF TypeOK, webVars
  <2>4. \A q \in Publishers : pub'[q] # "idle" => seq'[q] > 0
    BY <1>0, <2>1, <2>2 DEF TypeOK
  <2>5. \A q \in Publishers : \A send \in todo'[q] : send[2] = seq'[q]
    BY <1>0, <2>1, <2>2 DEF TypeOK
  <2>6. ASSUME NEW c \in subscribers, NEW q \in Publishers
        PROVE  Offered(q, c)' = Offered(q, c)
    <3>1. CASE q = p
      <4>1. pub'[p] = "lock" /\ seq'[p] = seq[p] + 1
        BY <1>0, <2>1 DEF TypeOK
      <4> QED
        BY <2>1, <2>2, <3>1, <4>1 DEF Offered
    <3>2. CASE q # p
      BY <1>0, <2>1, <3>2 DEF Offered, TypeOK
    <3> QED
      BY <3>1, <3>2
  <2> QED
    BY <1>a, <2>1, <2>3, <2>4, <2>5, <2>6
<1>4. CASE RLock(p)
  <2>1. /\ pub[p] = "lock" /\ pub' = [pub EXCEPT ![p] = "send"]
        /\ todo' = [todo EXCEPT ![p] = @ \cup (subscribers \X {seq[p]})]
        /\ UNCHANGED <<chan, seq, overrun>>
    BY <1>4 DEF RLock, busVars
  <2>2. todo[p] = {} /\ seq[p] \in Nat
    BY <1>0, <2>1 DEF ClosedInv
  <2>3. todo' \in [Publishers -> SUBSET (Clients \X Nat)]
    BY <1>1 DEF ClosedInv
  <2>4. TypeOK'
    BY <1>0, <1>2, <2>1, <2>3 DEF TypeOK, webVars
  <2>5. \A q \in Publishers : pub'[q] # "idle" => seq'[q] > 0
    BY <1>0, <2>1 DEF TypeOK
  <2>6. todo'[p] = subscribers \X {seq[p]}
        /\ \A q \in Publishers \ {p} : todo'[q] = todo[q]
    BY <1>0, <2>1, <2>2 DEF TypeOK
  <2>7. \A q \in Publishers : \A send \in todo'[q] : send[2] = seq'[q]
    BY <1>0, <2>1, <2>6
  <2>8. \A c \in subscribers, q \in Publishers : Offered(q, c)' = Offered(q, c)
    BY <1>0, <2>1, <2>2, <2>6 DEF Offered, TypeOK
  <2> QED
    BY <1>a, <2>1, <2>4, <2>5, <2>7, <2>8
<1>5. CASE RUnlock(p)
  <2>1. /\ pub[p] = "send" /\ pub' = [pub EXCEPT ![p] = "idle"]
        /\ UNCHANGED <<chan, todo, seq, overrun>>
    BY <1>5 DEF RUnlock, busVars
  <2>2. TypeOK'
    BY <1>0, <1>2, <2>1 DEF TypeOK, webVars
  <2>3. \A q \in Publishers : pub'[q] # "idle" => seq'[q] > 0
    BY <1>0, <2>1 DEF TypeOK
  <2>4. \A c \in subscribers, q \in Publishers : Offered(q, c)' = Offered(q, c)
    BY <1>0, <2>1 DEF Offered, TypeOK
  <2> QED
    BY <1>0, <1>a, <2>1, <2>2, <2>3, <2>4
<1>6. ASSUME NEW c \in Clients, NEW n, Send(p, c, n) PROVE OrderInv'
  <2> DEFINE e == [from |-> p, n |-> n]
  <2>1. /\ <<c, n>> \in todo[p] /\ todo' = [todo EXCEPT ![p] = @ \ {<<c, n>>}]
        /\ UNCHANGED <<pub, seq>>
    BY <1>6 DEF Send
  <2>2. n = seq[p] /\ seq[p] \in Nat /\ pub[p] = "send" /\ c \in subscribers
    BY <1>0, <2>1 DEF ClosedInv
  <2>3. e \in Event /\ e.from = p /\ e.n = seq[p]
    BY <2>2 DEF Event
  <2>4. \/ chan' = [chan EXCEPT ![c] = Append(@, e)] /\ UNCHANGED overrun
        \/ overrun' = overrun \cup {c} /\ UNCHANGED chan
    BY <1>6 DEF Send
  <2> HIDE DEF e
  <2>5. TypeOK'
    <3>1. todo' \in [Publishers -> SUBSET (Clients \X Nat)]
      BY <1>1 DEF ClosedInv
    <3>2. chan' \in [Clients -> Seq(Event)]
      <4>1. Append(chan[c], e) \in Seq(Event)
        BY <1>0, <2>3, AppendProperties DEF TypeOK
      <4> QED
        BY <1>0, <2>4, <4>1 DEF TypeOK
    <3>3. overrun' \in SUBSET Clients
      BY <1>0, <2>4 DEF TypeOK
    <3> QED
      BY <1>0, <1>2, <2>1, <3>1, <3>2, <3>3 DEF TypeOK, webVars
  <2>6. \A q \in Publishers : todo'[q] \subseteq todo[q]
    BY <1>0, <2>1 DEF TypeOK
  <2>7. \A d \in subscribers, q \in Publishers :
          Offered(q, d)' = IF q = p /\ d = c THEN seq[p] ELSE Offered(q, d)
    BY <1>0, <2>1, <2>2 DEF Offered, TypeOK
  <2>8. Offered(p, c) = seq[p] - 1
    BY <2>1, <2>2 DEF Offered
  <2>9. ASSUME NEW d \in subscribers, NEW q \in Publishers PROVE Served(d, q)'
    <3>0. /\ d \in Clients /\ Served(d, q)
          /\ seen'[d][q] = seen[d][q] /\ handler'[d] = handler[d]
      BY <1>0, <1>2, <2>9 DEF webVars
    <3>1. CASE d # c
      <4>1. Line(d)' = Line(d)
        BY <1>0, <1>2, <2>4, <3>0, <3>1 DEF Line, webVars, TypeOK
      <4> QED
        BY <2>4, <2>7, <2>9, <3>0, <3>1, <4>1, ServedStill
    <3>2. CASE d = c /\ chan' = [chan EXCEPT ![c] = Append(@, e)] /\ UNCHANGED overrun
      <4>1. /\ chan[c] \in Seq(Event) /\ event[c] \in Seq(Event)
            /\ Line(c) \in Seq(Event)
            /\ seen[c][q] \in Int /\ Offered(q, c) \in Int
        BY LineTyped
      <4>2. Line(c)' = Append(Line(c), e)
        <5>1. chan'[c] = Append(chan[c], e) /\ event'[c] = event[c]
          BY <1>0, <1>2, <3>2 DEF TypeOK, webVars
        <5>2. event[c] \o Append(chan[c], e) = Append(event[c] \o chan[c], e)
          BY <2>3, <4>1, AppendedLast
        <5> QED
          BY <5>1, <5>2 DEF Line
      <4>3. Offered(q, c)' = IF e.from = q THEN Offered(q, c) + 1 ELSE Offered(q, c)
        BY <2>2, <2>3, <2>7, <2>8
      <4>4. e.from = q => e.n = Offered(q, c) + 1
        BY <2>2, <2>3, <2>8
      <4>5. Sorted(Line(c), q, seen[c][q], Offered(q, c))
        BY <3>0, <3>2 DEF Served
      <4>6. /\ Sorted(Line(c)', q, seen[c][q], Offered(q, c)')
            /\ Gapless(Line(c), q, seen[c][q], Offered(q, c)) =>
                 Gapless(Line(c)', q, seen[c][q], Offered(q, c)')
        BY <2>3, <4>1, <4>2, <4>3, <4>4, <4>5, LineGrows
      <4> QED
        BY <3>0, <3>2, <4>6 DEF Served
    <3>3. CASE d = c /\ overrun' = overrun \cup {c} /\ UNCHANGED chan
      <4>1. Line(c)' = Line(c)
        BY <1>2, <3>3 DEF Line, webVars
      <4>2. /\ Line(c) \in Seq(Event)
            /\ seen[c][q] \in Int /\ Offered(q, c) \in Int
        BY LineTyped
      <4>3. Offered(q, c)' \in Int /\ Offered(q, c) <= Offered(q, c)'
        BY <2>2, <2>7, <2>8, <4>2
      <4>4. \A i \in 1 .. Len(Line(c)) : Line(c)[i].n \in Int
        <5>1. \A i \in 1 .. Len(Line(c)) : Line(c)[i] \in Event
          BY <4>2, ElementOfSeq
        <5> QED
          BY <5>1 DEF Event
      <4>5. Sorted(Line(c), q, seen[c][q], Offered(q, c)')
        BY <3>0, <3>3, <4>2, <4>3, <4>4 DEF Served, Sorted
      <4> QED
        BY <3>0, <3>3, <4>1, <4>5 DEF Served
    <3> QED
      BY <2>4, <3>1, <3>2, <3>3
  <2>10. \A d \in Clients : handler'[d] \in {"new", "subscribe"} => chan'[d] = <<>>
    BY <1>0, <1>2, <2>2, <2>4 DEF ClosedInv, TypeOK, webVars
  <2> QED
    BY <1>0, <1>1, <1>2, <2>1, <2>5, <2>6, <2>9, <2>10 DEF OrderInv, webVars
<1> QED
  BY <1>3, <1>4, <1>5, <1>6 DEF PublishStep

\* The steps of a client and its handler.
LEMMA OrderClient ==
  ASSUME OrderInv, NEW c \in Clients,
         Upgrade(c) \/ HandlerStep(c) \/ WriteOk(c) \/ ClientLeaves(c)
  PROVE  OrderInv'
<1>0. /\ TypeOK /\ ClosedInv
      /\ \A p \in Publishers : pub[p] # "idle" => seq[p] > 0
      /\ \A p \in Publishers : \A send \in todo[p] : send[2] = seq[p]
      /\ \A d \in Clients : handler[d] \in {"new", "subscribe"} => chan[d] = <<>>
      /\ \A d \in Clients : IF handler[d] = "write" THEN Len(event[d]) = 1
                                                    ELSE event[d] = <<>>
      /\ \A d \in subscribers, p \in Publishers : Served(d, p)
      /\ subscribers \subseteq Clients
  BY DEF OrderInv, TypeOK
<1>1. ClosedInv'
  BY <1>0, ClosedClient
<1>2. UNCHANGED <<pub, seq, todo, overrun>>
      /\ \A p \in Publishers, d \in Clients : Offered(p, d)' = Offered(p, d)
  BY DEF Upgrade, HandlerStep, Subscribe, Take, WriteOk, WriteFails, Unsubscribe,
         CloseChan, ClientLeaves, pubVars, Offered
<1>3. chan[c] \in Seq(Event) /\ event[c] \in Seq(Event) /\ Line(c) \in Seq(Event)
      /\ \A p \in Publishers : seen[c][p] \in Int /\ Offered(p, c) \in Int
  <2>1. chan[c] \in Seq(Event) /\ event[c] \in Seq(Event)
    BY <1>0 DEF TypeOK
  <2> QED
    BY <2>1, LineTyped, ConcatProperties DEF Line
\* What is left to show: the types, and client c.
<1>a. ASSUME TypeOK', subscribers' \subseteq subscribers \cup {c},
             \A d \in Clients \ {c} : UNCHANGED <<handler[d], event[d], chan[d], seen[d]>>,
             handler'[c] \in {"new", "subscribe"} => chan'[c] = <<>>,
             IF handler'[c] = "write" THEN Len(event'[c]) = 1 ELSE event'[c] = <<>>,
             \A p \in Publishers : c \in subscribers' => Served(c, p)'
      PROVE  OrderInv'
  <2>1. ASSUME NEW d \in subscribers', NEW p \in Publishers PROVE Served(d, p)'
    <3>1. CASE d = c
      BY <1>a, <2>1, <3>1
    <3>2. CASE d # c
      <4>1. d \in Clients /\ Served(d, p)
        BY <1>0, <1>a, <2>1, <3>2
      <4>2. Line(d)' = Line(d)
        BY <1>a, <3>2, <4>1 DEF Line
      <4> QED
        BY <1>2, <1>a, <3>2, <4>1, <4>2, ServedStill
    <3> QED
      BY <3>1, <3>2
  <2>2. \A d \in Clients : handler'[d] \in {"new", "subscribe"} => chan'[d] = <<>>
    BY <1>0, <1>a
  <2>3. \A d \in Clients : IF handler'[d] = "write" THEN Len(event'[d]) = 1
                                                    ELSE event'[d] = <<>>
    BY <1>0, <1>a
  <2> QED
    BY <1>0, <1>1, <1>2, <1>a, <2>1, <2>2, <2>3 DEF OrderInv
\* A client whose line and history stay is served as before.
<1>b. ASSUME UNCHANGED seen, Line(c)' = Line(c), c \in subscribers,
             handler[c] = "unsubscribe" => handler'[c] = "unsubscribe"
      PROVE  \A p \in Publishers : Served(c, p)'
  BY <1>0, <1>2, <1>b, ServedStill
<1>4. CASE Upgrade(c) \/ CloseChan(c) \/ ClientLeaves(c)
  <2>1. /\ UNCHANGED <<subscribers, chan, event, seen>>
        /\ \/ UNCHANGED handler
           \/ handler[c] = "new" /\ handler' = [handler EXCEPT ![c] = "subscribe"]
           \/ handler[c] = "close" /\ handler' = [handler EXCEPT ![c] = "ended"]
    BY <1>4 DEF Upgrade, CloseChan, ClientLeaves, busVars
  <2>2. TypeOK'
    BY <1>0, <1>2, <1>4, <2>1
       DEF TypeOK, Upgrade, CloseChan, ClientLeaves, busVars, webVars
  <2>3. Line(c)' = Line(c)
    BY <2>1 DEF Line
  <2>4. /\ \A d \in Clients \ {c} : handler'[d] = handler[d]
        /\ handler'[c] \in {"new", "subscribe"} => handler[c] \in {"new", "subscribe"}
        /\ handler'[c] = "write" <=> handler[c] = "write"
        /\ handler[c] = "unsubscribe" => handler'[c] = "unsubscribe"
    BY <1>0, <2>1 DEF TypeOK
  <2> QED
    BY <1>0, <1>a, <1>b, <2>1, <2>2, <2>3, <2>4
<1>5. CASE Unsubscribe(c)
  <2>1. /\ subscribers' = subscribers \ {c} /\ UNCHANGED <<chan, event, seen, closed, conn>>
        /\ handler[c] = "unsubscribe" /\ handler' = [handler EXCEPT ![c] = "close"]
    BY <1>5 DEF Unsubscribe
  <2>2. TypeOK'
    BY <1>0, <1>2, <2>1 DEF TypeOK
  <2>3. handler'[c] = "close" /\ \A d \in Clients \ {c} : handler'[d] = handler[d]
    BY <1>0, <2>1 DEF TypeOK
  <2> QED
    BY <1>0, <1>a, <2>1, <2>2, <2>3
<1>6. CASE Subscribe(c)
  <2> DEFINE old == [p \in Publishers |-> IF pub[p] = "lock" THEN seq[p] - 1 ELSE seq[p]]
  <2>1. /\ subscribers' = subscribers \cup {c} /\ UNCHANGED <<chan, event, closed, conn>>
        /\ handler[c] = "subscribe" /\ handler' = [handler EXCEPT ![c] = "range"]
        /\ seen' = [seen EXCEPT ![c] = old]
        /\ NoReader
    BY <1>6 DEF Subscribe
  <2>2. \A p \in Publishers : old[p] \in Nat /\ Offered(p, c) = old[p]
    BY <1>0, <2>1 DEF NoReader, Offered, TypeOK, ClosedInv
  <2>3. old \in [Publishers -> Nat]
    BY <2>2
  <2> HIDE DEF old
  <2>4. TypeOK'
    BY <1>0, <1>2, <2>1, <2>3 DEF TypeOK
  <2>5. /\ handler'[c] = "range" /\ seen'[c] = old
        /\ \A d \in Clients \ {c} : UNCHANGED <<handler[d], seen[d]>>
    BY <1>0, <2>1 DEF TypeOK
  <2>6. event'[c] = <<>> /\ chan'[c] = <<>>
    BY <1>0, <2>1
  <2>7. Line(c)' = <<>>
    BY <2>6, ConcatEmptySeq, EmptySeq DEF Line
  <2>8. \A p \in Publishers : Served(c, p)'
    BY <1>2, <2>2, <2>5, <2>7, EmptyLine DEF Served
  <2> QED
    BY <1>a, <2>1, <2>4, <2>5, <2>6, <2>8
<1>7. CASE Take(c)
  <2>1. /\ handler[c] = "range" /\ handler' = [handler EXCEPT ![c] = "write"]
        /\ chan[c] # <<>> /\ chan' = [chan EXCEPT ![c] = Tail(@)]
        /\ event' = [event EXCEPT ![c] = <<Head(chan[c])>>]
        /\ UNCHANGED <<subscribers, closed, conn, seen>>
    BY <1>7 DEF Take
  <2>2. Head(chan[c]) \in Event /\ Tail(chan[c]) \in Seq(Event)
    BY <1>3, <2>1, HeadTailProperties
  <2>3. TypeOK'
    BY <1>0, <1>2, <2>1, <2>2 DEF TypeOK
  <2>4. /\ handler'[c] = "write" /\ chan'[c] = Tail(chan[c])
        /\ event'[c] = <<Head(chan[c])>> /\ event[c] = <<>>
        /\ \A d \in Clients \ {c} : UNCHANGED <<handler[d], chan[d], event[d]>>
    BY <1>0, <2>1 DEF TypeOK
  <2>5. Line(c)' = Line(c)
    <3>1. Line(c) = chan[c]
      BY <1>3, <2>4, ConcatEmptySeq DEF Line
    <3>2. <<Head(chan[c])>> \o Tail(chan[c]) = chan[c]
      BY <1>3, <2>1, HeadTailJoined
    <3> QED
      BY <2>4, <3>1, <3>2 DEF Line
  <2> QED
    BY <1>a, <1>b, <2>1, <2>3, <2>4, <2>5
<1>8. CASE WriteOk(c) \/ WriteFails(c)
  <2> DEFINE e == event[c][1]
  <2>1. /\ handler[c] = "write" /\ event' = [event EXCEPT ![c] = <<>>]
        /\ UNCHANGED <<subscribers, closed, chan, conn>>
    BY <1>8 DEF WriteOk, WriteFails, busVars
  <2>2. Len(event[c]) = 1
    BY <1>0, <2>1
  <2>3. /\ e \in Event /\ Line(c) # <<>> /\ Line(c)[1] = e /\ Tail(Line(c)) = chan[c]
    BY <1>3, <2>2, OneInHand DEF Line
  <2> HIDE DEF e
  <2>4. Line(c)' = chan[c]
    <3>1. event'[c] = <<>> /\ chan'[c] = chan[c]
      BY <1>0, <2>1 DEF TypeOK
    <3> QED
      BY <1>3, <3>1, ConcatEmptySeq DEF Line
  <2>5. /\ event'[c] = <<>> /\ event' \in [Clients -> Seq(Event)]
        /\ \A d \in Clients \ {c} : event'[d] = event[d]
    BY <1>0, <2>1 DEF TypeOK
  <2>6. CASE WriteOk(c)
    <3>1. /\ seen' = [seen EXCEPT ![c][e.from] = e.n]
          /\ handler' = [handler EXCEPT ![c] = "range"]
      BY <2>6 DEF WriteOk, e
    <3>2. e.from \in Publishers /\ e.n \in Nat
      BY <2>3 DEF Event
    <3>3. /\ seen' \in [Clients -> [Publishers -> Nat]]
          /\ \A d \in Clients \ {c} : seen'[d] = seen[d]
          /\ \A p \in Publishers :
               seen'[c][p] = IF Line(c)[1].from = p THEN Line(c)[1].n ELSE seen[c][p]
      BY <1>0, <2>3, <3>1, <3>2 DEF TypeOK
    <3>4. handler'[c] = "range" /\ \A d \in Clients \ {c} : handler'[d] = handler[d]
      BY <1>0, <3>1 DEF TypeOK
    <3>5. TypeOK'
      BY <1>0, <1>2, <2>1, <2>5, <3>1, <3>3 DEF TypeOK
    <3>6. ASSUME NEW p \in Publishers, c \in subscribers PROVE Served(c, p)'
      <4>1. /\ Sorted(Line(c), p, seen[c][p], Offered(p, c))
            /\ c \notin overrun => Gapless(Line(c), p, seen[c][p], Offered(p, c))
        BY <1>0, <2>1, <3>6 DEF Served
      <4> DEFINE low == IF Line(c)[1].from = p THEN Line(c)[1].n ELSE seen[c][p]
      <4>2. /\ Sorted(Tail(Line(c)), p, low, Offered(p, c))
            /\ Gapless(Line(c), p, seen[c][p], Offered(p, c)) =>
                 Gapless(Tail(Line(c)), p, low, Offered(p, c))
        BY <1>3, <2>3, <4>1, LineShrinks
      <4>3. seen'[c][p] = low /\ Tail(Line(c)) = chan[c]
        BY <2>3, <3>3
      <4> HIDE DEF low
      <4>4. /\ Sorted(chan[c], p, seen'[c][p], Offered(p, c))
            /\ Gapless(Line(c), p, seen[c][p], Offered(p, c)) =>
                 Gapless(chan[c], p, seen'[c][p], Offered(p, c))
        BY <4>2, <4>3
      <4> QED
        BY <1>2, <2>4, <4>1, <4>4 DEF Served
    <3> QED
      BY <1>a, <2>1, <2>5, <3>3, <3>4, <3>5, <3>6
  <2>7. CASE WriteFails(c)
    <3>1. UNCHANGED seen /\ handler' = [handler EXCEPT ![c] = "unsubscribe"]
      BY <2>7 DEF WriteFails
    <3>2. handler'[c] = "unsubscribe" /\ \A d \in Clients \ {c} : handler'[d] = handler[d]
      BY <1>0, <3>1 DEF TypeOK
    <3>3. TypeOK'
      BY <1>0, <1>2, <2>1, <2>5, <3>1 DEF TypeOK
    <3>4. ASSUME NEW p \in Publishers, c \in subscribers PROVE Served(c, p)'
      <4>1. Sorted(Line(c), p, seen[c][p], Offered(p, c))
        BY <1>0, <3>4 DEF Served
      <4>2. Sorted(chan[c], p, seen[c][p], Offered(p, c))
        BY <1>3, <2>3, <4>1, LineShrinks
      <4> QED
        BY <1>2, <2>4, <3>1, <3>2, <4>2 DEF Served
    <3> QED
      BY <1>a, <2>1, <2>5, <3>1, <3>2, <3>3, <3>4
  <2> QED
    BY <1>8, <2>6, <2>7
<1> QED
  BY <1>4, <1>5, <1>6, <1>7, <1>8 DEF HandlerStep

\* For any number of publishers, clients and events and any capacity, only a slow
\* client misses events: what is on the way to a client is in the order of
\* publication, newer than all it has got and, unless its channel was full, all
\* there is; so the select in Publish that drops the newest event, the
\* subscription under the lock and the single reader are together enough.
THEOREM DeliveredInOrder == Spec => []InOrder
<1>1. Init => OrderInv
  BY EmptySeq DEF Init, OrderInv, TypeOK, ClosedInv
<1>2. OrderInv /\ [Next]_vars => OrderInv'
  <2> SUFFICES ASSUME OrderInv, [Next]_vars PROVE OrderInv'
    OBVIOUS
  <2>1. CASE UNCHANGED vars
    BY <2>1 DEF vars, busVars, pubVars, webVars, OrderInv, TypeOK, ClosedInv,
                Served, Line, Offered
  <2> QED
    BY <2>1, OrderPublish, OrderClient DEF Next
<1>3. OrderInv => InOrder
  <2> SUFFICES ASSUME OrderInv, NEW c \in subscribers, NEW p \in Publishers
               PROVE  LET mine   == {i \in 1 .. Len(Line(c)) : Line(c)[i].from = p}
                          num(i) == Line(c)[i].n
                      IN  /\ \A i \in mine : num(i) > seen[c][p]
                          /\ \A i, j \in mine : i < j => num(i) < num(j)
                          /\ c \notin overrun /\ handler[c] # "unsubscribe" =>
                               {num(i) : i \in mine} = seen[c][p] + 1 .. Offered(p, c)
    BY DEF InOrder
  <2>1. c \in Clients /\ Served(c, p)
    BY DEF OrderInv, TypeOK
  <2>2. /\ Line(c) \in Seq(Event) /\ seen[c][p] \in Int /\ Offered(p, c) \in Int
    BY <2>1, LineTyped
  <2>3. \A i \in 1 .. Len(Line(c)) : Line(c)[i].n \in Int
    <3>1. \A i \in 1 .. Len(Line(c)) : Line(c)[i] \in Event
      BY <2>2, ElementOfSeq
    <3> QED
      BY <3>1 DEF Event
  <2> QED
    BY <2>1, <2>2, <2>3 DEF Served, Sorted, Gapless
<1> QED
  BY <1>1, <1>2, <1>3, PTL DEF Spec
=============================================================================
