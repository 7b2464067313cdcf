------------------------------- MODULE Broker -------------------------------
(* internal/state: the broker that fans frames out to the WebSocket        *)
(* clients, and the write loop of each client. Two goroutines publish: the *)
(* read loop its sweeps, the supervisor its status.                        *)
EXTENDS Naturals, Sequences, FiniteSets

CONSTANTS
  Clients,      \* connections to /ws, each made once
  SubBuffer,    \* subBuffer
  MaxSessions,  \* bound: read loops started
  MaxSweeps,    \* bound: bundles published
  MaxStatus     \* bound: status messages published

ASSUME BrokerConstantsOK ==
  /\ IsFiniteSet(Clients) /\ SubBuffer \in Nat \ {0}
  /\ MaxSessions \in Nat /\ MaxSweeps \in Nat /\ MaxStatus \in Nat \ {0}

VARIABLES
  subs,              \* Broker.subs
  queue, dropped,    \* Sub.C and Sub.dropped of each client
  handler,           \* where the client's handleWS is
  writing,           \* the frame inside its WriteMessage, or <<>>
  offered, taken,    \* history: frames published to it, frames it took
  last,              \* history: the newest bytes of each publisher it was handed
  ahead,             \* history: the newest bundle it was handed for an older one
  shown,             \* Snapshot.Clients
  pub,               \* what each publisher is doing inside publish
  session,           \* the read loop's run: encBufs are its locals
  bundleSeq, statusSeq, encIdx,
  encBufs            \* encBufs of every run: the bundle each one holds

clientVars == <<queue, dropped, writing, offered, taken, last, ahead>>
encodeVars == <<session, bundleSeq, statusSeq, encIdx, encBufs>>
brokerVars == <<subs, handler, shown, pub, clientVars, encodeVars>>

Publishers == {"loop", "supervisor"}

(* A status message is marshalled afresh; a bundle lies in encBufs[slot].   *)
Sweep(n, s, slot) == [from |-> "loop", seq |-> n, session |-> s, slot |-> slot]
Status(n) == [from |-> "supervisor", seq |-> n, session |-> 0, slot |-> 0]
Frames == [from : Publishers, seq : 1..(MaxSweeps + MaxStatus),
           session : 0..MaxSessions, slot : 0..1]

(* What a frame's slice holds by now, and whether that is what was sent.    *)
Bytes(f) == IF f.from = "loop" THEN encBufs[f.session][f.slot] ELSE f.seq
Intact(f) == Bytes(f) = f.seq

(* Outside publish there is nobody left to visit.                           *)
Returned == [frame |-> Status(1), todo |-> {}, full |-> {}, evicted |-> {}]
Publishing(p) == pub[p].todo # {}

BrokerTypeOK ==
  /\ subs \subseteq Clients
  /\ queue \in [Clients -> Seq(Frames)] /\ \A c \in Clients : Len(queue[c]) <= SubBuffer
  /\ writing \in [Clients -> Seq(Frames)] /\ \A c \in Clients : Len(writing[c]) <= 1
  /\ {dropped, offered, taken} \subseteq [Clients -> Nat]
  /\ last \in [Clients -> [Publishers -> 0..(MaxSweeps + MaxStatus)]]
  /\ ahead \in [Clients -> 0..MaxSweeps]
  /\ handler \in [Clients -> {"out", "joining", "in", "lost", "left", "gone", "failed"}]
  /\ shown \in 0..Cardinality(Clients)
  /\ pub \in [Publishers -> [frame : Frames, todo : SUBSET Clients,
                             full : SUBSET Clients, evicted : SUBSET Clients]]
  /\ session \in 0..MaxSessions /\ bundleSeq \in 0..MaxSweeps
  /\ statusSeq \in 0..MaxStatus /\ encIdx \in 0..1
  /\ encBufs \in [0..MaxSessions -> [0..1 -> 0..MaxSweeps]]

BrokerInit ==
  /\ subs = {} /\ handler = [c \in Clients |-> "out"] /\ shown = 0
  /\ queue = [c \in Clients |-> <<>>] /\ writing = queue
  /\ dropped = [c \in Clients |-> 0] /\ offered = dropped /\ taken = dropped
  /\ last = [c \in Clients |-> [p \in Publishers |-> 0]] /\ ahead = dropped
  /\ pub = [p \in Publishers |-> Returned]
  /\ session = 0 /\ bundleSeq = 0 /\ statusSeq = 0 /\ encIdx = 0
  /\ encBufs = [s \in 0..MaxSessions |-> [i \in 0..1 |-> 0]]

-----------------------------------------------------------------------------
(* publish, under the read lock from its first step to its last.            *)

Fan(p, f) == pub' = [pub EXCEPT ![p] = [Returned EXCEPT !.frame = f, !.todo = subs]]

(* A slip to be noticed: one buffer of encBufs used for every bundle.       *)
PublishSweepSingleBuffer ==
  /\ bundleSeq < MaxSweeps /\ ~Publishing("loop")
  /\ bundleSeq' = bundleSeq + 1
  /\ encBufs' = [encBufs EXCEPT ![session][encIdx] = bundleSeq']
  /\ Fan("loop", Sweep(bundleSeq', session, encIdx))
  /\ UNCHANGED <<subs, handler, shown, clientVars, session, statusSeq, encIdx>>

(* processCycle's bundle: EncodeBundle into encBufs[encIdx], PublishBinary, *)
(* the other buffer next.                                                   *)
PublishSweep ==
  /\ bundleSeq < MaxSweeps /\ ~Publishing("loop")
  /\ bundleSeq' = bundleSeq + 1
  /\ encBufs' = [encBufs EXCEPT ![session][encIdx] = bundleSeq']
  /\ encIdx' = 1 - encIdx
  /\ Fan("loop", Sweep(bundleSeq', session, encIdx))
  /\ UNCHANGED <<subs, handler, shown, clientVars, session, statusSeq>>

(* publishStatus and applyProgress, on the supervisor's goroutine.          *)
PublishStatus ==
  /\ statusSeq < MaxStatus /\ ~Publishing("supervisor")
  /\ statusSeq' = statusSeq + 1
  /\ Fan("supervisor", Status(statusSeq'))
  /\ UNCHANGED <<subs, handler, shown, clientVars, session, bundleSeq, encIdx, encBufs>>

Visited(p, c) ==
  LET left == [pub[p] EXCEPT !.todo = @ \ {c}, !.full = {}, !.evicted = {}]
  IN  pub' = [pub EXCEPT ![p] = IF left.todo = {} THEN Returned ELSE left]

(* The subscribers come in any order, one after the other.                  *)
Visits(p, c) == c \in pub[p].todo /\ pub[p].full \cup pub[p].evicted \subseteq {c}

(* A slip to be noticed: a queue that grows.                                *)
SendUnbounded(p, c) ==
  /\ Visits(p, c) /\ c \notin pub[p].full \cup pub[p].evicted
  /\ queue' = [queue EXCEPT ![c] = Append(@, pub[p].frame)]
  /\ offered' = [offered EXCEPT ![c] = @ + 1] /\ Visited(p, c)
  /\ UNCHANGED <<subs, handler, shown, dropped, writing, taken, last, ahead, encodeVars>>

(* The first select: the frame is queued or the queue is found full.        *)
Send(p, c) ==
  /\ Visits(p, c) /\ c \notin pub[p].full \cup pub[p].evicted
  /\ IF Len(queue[c]) < SubBuffer
       THEN /\ queue' = [queue EXCEPT ![c] = Append(@, pub[p].frame)]
            /\ offered' = [offered EXCEPT ![c] = @ + 1]
            /\ Visited(p, c)
       ELSE /\ pub' = [pub EXCEPT ![p].full = {c}]
            /\ UNCHANGED <<queue, offered>>
  /\ UNCHANGED <<subs, handler, shown, dropped, writing, taken, last, ahead, encodeVars>>

(* A slip to be noticed: the evicted frame is not counted.                  *)
EvictUncounted(p, c) ==
  /\ c \in pub[p].full
  /\ queue' = [queue EXCEPT ![c] = IF @ = <<>> THEN @ ELSE Tail(@)]
  /\ pub' = [pub EXCEPT ![p].full = {}, ![p].evicted = {c}]
  /\ UNCHANGED <<subs, handler, shown, dropped, writing, offered, taken, last, ahead, encodeVars>>

(* A slip to be noticed: the oldest frame is put back behind the newest.    *)
EvictRequeues(p, c) ==
  /\ c \in pub[p].full
  /\ queue' = [queue EXCEPT ![c] = IF @ = <<>> THEN @ ELSE Append(Tail(@), Head(@))]
  /\ pub' = [pub EXCEPT ![p].full = {}, ![p].evicted = {c}]
  /\ UNCHANGED <<subs, handler, shown, dropped, writing, offered, taken, last, ahead, encodeVars>>

(* A slip to be noticed: nothing is taken out of the full queue.            *)
EvictNothing(p, c) ==
  /\ c \in pub[p].full
  /\ pub' = [pub EXCEPT ![p].full = {}, ![p].evicted = {c}]
  /\ UNCHANGED <<subs, handler, shown, queue, dropped, writing, offered, taken, last, ahead, encodeVars>>

(* The second select drops the oldest frame, unless the client has emptied  *)
(* the queue in between.                                                    *)
Evict(p, c) ==
  /\ c \in pub[p].full
  /\ IF queue[c] = <<>> THEN UNCHANGED <<queue, dropped>>
     ELSE /\ queue' = [queue EXCEPT ![c] = Tail(@)]
          /\ dropped' = [dropped EXCEPT ![c] = @ + 1]
  /\ pub' = [pub EXCEPT ![p].full = {}, ![p].evicted = {c}]
  /\ UNCHANGED <<subs, handler, shown, writing, offered, taken, last, ahead, encodeVars>>

(* A slip to be noticed: the last select without its default.               *)
RetryBlocking(p, c) ==
  /\ c \in pub[p].evicted /\ Len(queue[c]) < SubBuffer
  /\ queue' = [queue EXCEPT ![c] = Append(@, pub[p].frame)]
  /\ offered' = [offered EXCEPT ![c] = @ + 1] /\ Visited(p, c)
  /\ UNCHANGED <<subs, handler, shown, dropped, writing, taken, last, ahead, encodeVars>>

(* The third select: the frame takes the place, or is itself dropped when   *)
(* another publisher was quicker.                                           *)
Retry(p, c) ==
  /\ c \in pub[p].evicted
  /\ IF Len(queue[c]) < SubBuffer
       THEN queue' = [queue EXCEPT ![c] = Append(@, pub[p].frame)] /\ UNCHANGED dropped
       ELSE dropped' = [dropped EXCEPT ![c] = @ + 1] /\ UNCHANGED queue
  /\ offered' = [offered EXCEPT ![c] = @ + 1]
  /\ Visited(p, c)
  /\ UNCHANGED <<subs, handler, shown, writing, taken, last, ahead, encodeVars>>

PublishStep(p) == \E c \in Clients : Send(p, c) \/ Evict(p, c) \/ Retry(p, c)

-----------------------------------------------------------------------------
(* handleWS. Subscribe and Unsubscribe wait for the publishers to leave.    *)

Unlocked == \A p \in Publishers : ~Publishing(p)

At(c, from, to) == handler[c] = from /\ handler' = [handler EXCEPT ![c] = to]

Subscribe(c) ==
  /\ At(c, "out", "joining") /\ Unlocked
  /\ subs' = subs \cup {c}
  /\ UNCHANGED <<shown, pub, clientVars, encodeVars>>

(* Store.Update counts the subscribers of that moment.                      *)
CountAfter(c, from, to) ==
  /\ At(c, from, to)
  /\ shown' = Cardinality(subs)
  /\ UNCHANGED <<subs, pub, clientVars, encodeVars>>

CountJoined(c) == CountAfter(c, "joining", "in")

Newer(m, n) == IF m < n THEN n ELSE m

(* WriteMessage begins with the bytes its slice holds at that moment.       *)
Take(c) ==
  /\ handler[c] = "in" /\ writing[c] = <<>> /\ queue[c] # <<>>
  /\ LET f == Head(queue[c]) IN
       /\ writing' = [writing EXCEPT ![c] = <<f>>]
       /\ last' = [last EXCEPT ![c][f.from] = Newer(@, Bytes(f))]
       /\ ahead' = [ahead EXCEPT ![c] = IF Intact(f) THEN @ ELSE Newer(@, Bytes(f))]
  /\ queue' = [queue EXCEPT ![c] = Tail(@)]
  /\ taken' = [taken EXCEPT ![c] = @ + 1]
  /\ UNCHANGED <<subs, handler, shown, pub, dropped, offered, encodeVars>>

Written(c) ==
  /\ writing[c] # <<>> /\ writing' = [writing EXCEPT ![c] = <<>>]
  /\ UNCHANGED <<subs, shown, pub, queue, dropped, offered, taken, last, ahead, encodeVars>>

WriteOK(c) == Written(c) /\ UNCHANGED handler

(* A write error or its deadline.                                           *)
WriteFails(c) == Written(c) /\ At(c, "in", "failed")

(* The peer closes: the write loop finds done closed.                       *)
PeerCloses(c) ==
  /\ writing[c] = <<>> /\ At(c, "in", "left")
  /\ UNCHANGED <<subs, shown, pub, clientVars, encodeVars>>

Unsubscribe(c, from, to) ==
  /\ c \in subs /\ At(c, from, to) /\ Unlocked
  /\ subs' = subs \ {c}
  /\ UNCHANGED <<shown, pub, clientVars, encodeVars>>

(* After a failed write nobody counts the subscribers again.                *)
UnsubscribeFailed(c) == Unsubscribe(c, "failed", "lost")
UnsubscribeLeft(c) == Unsubscribe(c, "left", "left")

(* A slip to be noticed: a client that left is not counted out.             *)
CountLeftStale(c) ==
  /\ c \notin subs /\ At(c, "left", "gone")
  /\ UNCHANGED <<subs, shown, pub, clientVars, encodeVars>>

CountLeft(c) == c \notin subs /\ CountAfter(c, "left", "gone")

(* The read loop's statistics, once a second.                               *)
StatsTick ==
  /\ session > 0 /\ ~Publishing("loop") /\ shown # Cardinality(subs)
  /\ shown' = Cardinality(subs)
  /\ UNCHANGED <<subs, handler, pub, clientVars, encodeVars>>

ClientStep(c) == CountJoined(c) \/ Take(c) \/ WriteOK(c) \/ WriteFails(c)
                 \/ PeerCloses(c) \/ UnsubscribeFailed(c) \/ UnsubscribeLeft(c) \/ CountLeft(c)

BrokerNext == (\E p \in Publishers : PublishStep(p))
              \/ (\E c \in Clients : ClientStep(c))
=============================================================================
