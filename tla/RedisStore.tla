----------------------------- MODULE RedisStore -----------------------------
(***************************************************************************)
(* src/lib/redis-store.js: one store per process, whose init() makes a     *)
(* client and the publisher that sendData and publishLiveUpdate use, and   *)
(* whose getSubscribe makes one more connection per call.  The calls wait  *)
(* for their connections and interleave.                                   *)
(*                                                                         *)
(* connect() may resolve or reject; a message published while the link is  *)
(* made waits for it; a publish() may be rejected, and the message may     *)
(* have left by then.  That is all that is assumed of the redis package.   *)
(*                                                                         *)
(* An operator named X_Y is X with a fault: the properties are tested by   *)
(* putting it in X's place (PROJECT.json, "mutants").                      *)
(***************************************************************************)
EXTENDS Naturals, Sequences

CONSTANTS InitCalls,      \* calls of init()
          SubscribeCalls, \* calls of getSubscribe()
          SendCalls,      \* calls of sendData() and publishLiveUpdate()
          Payloads,       \* what they are given to send; calls may share one
          Unserialisable, \* the payloads JSON.stringify throws on
          WithDest,       \* those that come with a `dest` that is not empty
          Destinations,   \* the list of destinations a call may be given
          NoStore         \* JavaScript's undefined

ASSUME RedisAssumption ==
  /\ NoStore \notin InitCalls
  /\ Destinations \in Seq([socket_id : BOOLEAN])
  /\ Unserialisable \subseteq Payloads /\ WithDest \subseteq Payloads /\ Payloads # {}
  /\ InitCalls \cap SubscribeCalls = {}

\* How a call names its destinations: an array or one object as argument, an
\* argument that isEmpty() takes for empty, as {}, the payload's own `dest`, or
\* publishLiveUpdate, which has none.
Form == {"list", "one", "empty", "own", "live"}

VARIABLES
  store,        \* RedisStore._instance
  initPc,       \* where each init() stands
  link,         \* the client and the publisher of each init(), each subscriber
  subPc,        \* where each getSubscribe() stands
  dest,         \* each payload's `dest`: its "own", "none" (or {}), or "deleted"
  sent,         \* per sendData(), its progress
  channel       \* what was published, in order

redisVars == <<store, initPc, link, subPc, dest, sent, channel>>

Link == {"none", "opening", "ready", "failed"}

NotSent == [pc |-> "idle", form |-> "list", payload |-> CHOOSE p \in Payloads : TRUE,
             via |-> NoStore, left |-> {}]

RedisInit_Undefined ==
  /\ store = [redisClient |-> NoStore, publisher |-> NoStore, inited |-> NoStore,
              subscribers |-> {}]
  /\ initPc = [i \in InitCalls |-> "idle"]
  /\ link = [x \in (InitCalls \X {"client", "publisher"}) \cup (SubscribeCalls \X {"subscriber"})
                |-> "none"]
  /\ subPc = [g \in SubscribeCalls |-> "idle"]
  /\ dest = [p \in Payloads |-> IF p \in WithDest THEN "own" ELSE "none"]
  /\ sent = [s \in SendCalls |-> NotSent]
  /\ channel = <<>>
RedisInit ==
  /\ store = [redisClient |-> NoStore, publisher |-> NoStore, inited |-> FALSE,
              subscribers |-> {}]
  /\ initPc = [i \in InitCalls |-> "idle"]
  /\ link = [x \in (InitCalls \X {"client", "publisher"}) \cup (SubscribeCalls \X {"subscriber"})
                |-> "none"]
  /\ subPc = [g \in SubscribeCalls |-> "idle"]
  /\ dest = [p \in Payloads |-> IF p \in WithDest THEN "own" ELSE "none"]
  /\ sent = [s \in SendCalls |-> NotSent]
  /\ channel = <<>>

-----------------------------------------------------------------------------
(* init().                                                                  *)

\* The client is made unless the store is ready; calls that overlap each make one.
init(i) ==
  /\ initPc[i] = "idle"
  /\ IF store.inited
     THEN initPc' = [initPc EXCEPT ![i] = "done"] /\ UNCHANGED link
     ELSE /\ initPc' = [initPc EXCEPT ![i] = "client"]
          /\ link' = [link EXCEPT ![<<i, "client">>] = "opening"]
  /\ UNCHANGED <<store, subPc, dest, sent, channel>>

\* The last client to connect is the store's, and so is its publisher, which
\* is stored before it is connected.
ClientConnected_InitedEarly(i) ==
  /\ initPc[i] = "client"
  /\ initPc' = [initPc EXCEPT ![i] = "publisher"]
  /\ link' = [link EXCEPT ![<<i, "client">>] = "ready", ![<<i, "publisher">>] = "opening"]
  /\ store' = [store EXCEPT !.redisClient = i, !.publisher = i, !.inited = TRUE]
  /\ UNCHANGED <<subPc, dest, sent, channel>>
ClientConnected(i) ==
  /\ initPc[i] = "client"
  /\ initPc' = [initPc EXCEPT ![i] = "publisher"]
  /\ link' = [link EXCEPT ![<<i, "client">>] = "ready", ![<<i, "publisher">>] = "opening"]
  /\ store' = [store EXCEPT !.redisClient = i, !.publisher = i]
  /\ UNCHANGED <<subPc, dest, sent, channel>>

PublisherConnected(i) ==
  /\ initPc[i] = "publisher"
  /\ initPc' = [initPc EXCEPT ![i] = "done"]
  /\ link' = [link EXCEPT ![<<i, "publisher">>] = "ready"]
  /\ store' = [store EXCEPT !.inited = TRUE]
  /\ UNCHANGED <<subPc, dest, sent, channel>>

\* A rejection leaves everything as it is: a publisher that failed stays the
\* store's until another init() succeeds.
ConnectRejected(i) ==
  /\ initPc[i] \in {"client", "publisher"}
  /\ initPc' = [initPc EXCEPT ![i] = "failed"]
  /\ link' = [link EXCEPT ![<<i, initPc[i]>>] = "failed"]
  /\ UNCHANGED <<store, subPc, dest, sent, channel>>

-----------------------------------------------------------------------------
(* getSubscribe().                                                          *)

\* duplicate() of a client that is not there throws.
getSubscribe(g) ==
  /\ subPc[g] = "idle"
  /\ IF store.redisClient = NoStore
     THEN subPc' = [subPc EXCEPT ![g] = "failed"] /\ UNCHANGED link
     ELSE /\ subPc' = [subPc EXCEPT ![g] = "waiting"]
          /\ link' = [link EXCEPT ![<<g, "subscriber">>] = "opening"]
  /\ UNCHANGED <<store, initPc, dest, sent, channel>>

SubscriberSettles_Early(g) ==
  /\ subPc[g] = "waiting"
  /\ store' = [store EXCEPT !.subscribers = @ \cup {g}]
  /\ \E end \in {<<"ready", "done">>, <<"failed", "failed">>} :
       /\ link' = [link EXCEPT ![<<g, "subscriber">>] = end[1]]
       /\ subPc' = [subPc EXCEPT ![g] = end[2]]
  /\ UNCHANGED <<initPc, dest, sent, channel>>
SubscriberSettles(g) ==
  /\ subPc[g] = "waiting"
  /\ \/ /\ link' = [link EXCEPT ![<<g, "subscriber">>] = "ready"]
        /\ subPc' = [subPc EXCEPT ![g] = "done"]
        /\ store' = [store EXCEPT !.subscribers = @ \cup {g}]
     \/ /\ link' = [link EXCEPT ![<<g, "subscriber">>] = "failed"]
        /\ subPc' = [subPc EXCEPT ![g] = "failed"]
        /\ UNCHANGED store
  /\ UNCHANGED <<initPc, dest, sent, channel>>

-----------------------------------------------------------------------------
(* sendData().                                                              *)

\* The places in the list that are served: an element without a socket_id is
\* passed over, and one the message of which cannot be serialised.
Eligible == {i \in DOMAIN Destinations : Destinations[i].socket_id}

Places == {1} \cup DOMAIN Destinations

\* The messages a call is to publish.  A copy of payload.dest is an object, not
\* an array: it gives one message, whatever it holds.
Targets(p, form) ==
  IF form # "live" /\ p \in Unserialisable THEN {}
  ELSE IF form = "list" THEN Eligible
  ELSE IF form = "empty" THEN {}
  ELSE {1}

\* What is known without waiting: nothing to send, or no publisher to ask.
Immediate(p, form) ==
  \/ form = "own" /\ dest[p] # "own"
  \/ form = "list" /\ Destinations = <<>>
  \/ form = "empty"
Refused(p, form) ==
  \/ form = "live" /\ (store.publisher = NoStore \/ p \in Unserialisable)
  \/ form # "live" /\ store.publisher = NoStore /\ Targets(p, form) # {}

Started(p, form, immediate) ==
  [form |-> form, payload |-> p,
   pc |-> IF immediate THEN "resolved" ELSE IF Refused(p, form) THEN "rejected" ELSE "sending",
   via |-> store.publisher,
   left |-> IF immediate THEN {} ELSE Targets(p, form)]

\* payload.dest is deleted whichever destinations are used, and whatever
\* happens next.
sendData_DeletedFirst(s, p, form) ==
  /\ sent[s].pc = "idle"
  /\ dest' = IF form # "live" /\ dest[p] = "own" THEN [dest EXCEPT ![p] = "deleted"] ELSE dest
  /\ sent' = [sent EXCEPT ![s] = Started(p, form, form = "own")]
  /\ UNCHANGED <<store, initPc, link, subPc, channel>>
sendData(s, p, form) ==
  /\ sent[s].pc = "idle"
  /\ dest' = IF form # "live" /\ dest[p] = "own" THEN [dest EXCEPT ![p] = "deleted"] ELSE dest
  /\ sent' = [sent EXCEPT ![s] = Started(p, form, Immediate(p, form))]
  /\ UNCHANGED <<store, initPc, link, subPc, channel>>

\* The first place that is left of the list of s.
Following(s) == {i \in sent[s].left : \A j \in sent[s].left : i <= j}

Published(s, to) == channel' = Append(channel, [call |-> s, to |-> to])

\* publish() resolves: the next message of the list is sent.
Publish_Skipping(s) ==
  /\ sent[s].pc = "sending" /\ sent[s].left # {}
  /\ link[sent[s].via, "publisher"] = "ready"
  /\ \E to \in Following(s) :
       /\ sent' = [sent EXCEPT ![s].left = @ \ {to}]
       /\ Published(s, to) \/ UNCHANGED channel
  /\ UNCHANGED <<store, initPc, link, subPc, dest>>
Publish(s) ==
  /\ sent[s].pc = "sending" /\ sent[s].left # {}
  /\ link[sent[s].via, "publisher"] = "ready"
  /\ \E to \in Following(s) :
       /\ sent' = [sent EXCEPT ![s].left = @ \ {to}]
       /\ Published(s, to)
  /\ UNCHANGED <<store, initPc, link, subPc, dest>>

\* It rejects, and the rest of the list is not served.
PublishRejected(s) ==
  /\ sent[s].pc = "sending" /\ sent[s].left # {}
  /\ link[sent[s].via, "publisher"] \in {"ready", "failed"}
  /\ \/ UNCHANGED channel
     \/ /\ link[sent[s].via, "publisher"] = "ready"
        /\ \E to \in Following(s) : Published(s, to)
  /\ sent' = [sent EXCEPT ![s].pc = "rejected"]
  /\ UNCHANGED <<store, initPc, link, subPc, dest>>

SendReturns(s) ==
  /\ sent[s].pc = "sending" /\ sent[s].left = {}
  /\ sent' = [sent EXCEPT ![s].pc = "resolved"]
  /\ UNCHANGED <<store, initPc, link, subPc, dest, channel>>

-----------------------------------------------------------------------------
InitStep(i) == ClientConnected(i) \/ PublisherConnected(i) \/ ConnectRejected(i)
SendStep(s) == Publish(s) \/ PublishRejected(s) \/ SendReturns(s)

RedisProgress ==
  \/ \E i \in InitCalls : InitStep(i)
  \/ \E g \in SubscribeCalls : SubscriberSettles(g)
  \/ \E s \in SendCalls : SendStep(s)

RedisNext ==
  \/ RedisProgress
  \/ \E i \in InitCalls : init(i)
  \/ \E g \in SubscribeCalls : getSubscribe(g)
  \/ \E s \in SendCalls, p \in Payloads, form \in Form : sendData(s, p, form)

RedisSpec == RedisInit /\ [][RedisNext]_redisVars

-----------------------------------------------------------------------------
RedisTypeOK ==
  /\ store \in [redisClient : InitCalls \cup {NoStore}, publisher : InitCalls \cup {NoStore},
                inited : BOOLEAN, subscribers : SUBSET SubscribeCalls]
  /\ initPc \in [InitCalls -> {"idle", "client", "publisher", "done", "failed"}]
  /\ link \in [(InitCalls \X {"client", "publisher"}) \cup (SubscribeCalls \X {"subscriber"})
                 -> Link]
  /\ subPc \in [SubscribeCalls -> {"idle", "waiting", "done", "failed"}]
  /\ dest \in [Payloads -> {"own", "none", "deleted"}]
  /\ sent \in [SendCalls -> [pc : {"idle", "sending", "resolved", "rejected"},
                             form : Form, payload : Payloads,
                             via : InitCalls \cup {NoStore}, left : SUBSET Places]]
  /\ channel \in Seq([call : SendCalls, to : Places])

Underway == \E i \in InitCalls : initPc[i] \in {"client", "publisher"}

\* A store that calls itself ready has a publisher that is connected, once no
\* init() is under way: only an init() that overlapped the one that made it
\* ready can have replaced the publisher by one that failed (lines 174-189).
InitedIsUsable ==
  store.inited /\ ~Underway =>
    \/ link[store.publisher, "publisher"] = "ready"
    \/ /\ initPc[store.publisher] = "failed"
       /\ \E i \in InitCalls \ {store.publisher} : link[i, "publisher"] = "ready"

SentTo(s) == {channel[m].to : m \in {n \in DOMAIN channel : channel[n].call = s}}

\* A call serves its list one by one and in order (lines 116-133): resolved,
\* every destination was sent its message, once, or none was to be; rejected,
\* the first ones were, one more perhaps, and none behind it, so that the
\* caller knows where to go on.
ServedInOrder ==
  /\ \A m, n \in DOMAIN channel :
       m < n /\ channel[m].call = channel[n].call => channel[m].to < channel[n].to
  /\ \A s \in SendCalls :
       LET all == Targets(sent[s].payload, sent[s].form)
           served == all \ sent[s].left IN
         CASE sent[s].pc = "idle" -> SentTo(s) = {}
           [] sent[s].pc = "sending" -> SentTo(s) = served
           [] sent[s].pc = "resolved" -> SentTo(s) \in {{}, all}
           [] sent[s].pc = "rejected" ->
                \/ SentTo(s) = served
                \/ \E to \in Following(s) : SentTo(s) = served \cup {to}

\* A call that reports success without having published anything had nothing to
\* send (lines 107-110, 117-118, 142-149), or was given a payload that another
\* call, which had its destination, had stripped of it (line 109): a program
\* that retries with the same payload is told that its message was sent.
SilentOnlyWithCause ==
  \A s \in SendCalls :
    sent[s].pc = "resolved" /\ SentTo(s) = {} =>
      \/ sent[s].payload \in Unserialisable
      \/ sent[s].form = "list" /\ Eligible = {}
      \/ sent[s].form = "empty"
      \/ sent[s].form = "own" /\ dest[sent[s].payload] = "none"
      \/ sent[s].form = "own" /\ \E o \in SendCalls \ {s} :
           sent[o].payload = sent[s].payload /\ sent[o].pc # "idle" /\ sent[o].form # "live"

\* getSubscribe() hands out and remembers connected subscribers only, each its
\* own, whichever client the store had when it was called.
SubscribersConnected ==
  \A g \in SubscribeCalls :
    g \in store.subscribers <=> subPc[g] = "done" /\ link[g, "subscriber"] = "ready"

\* Redis: whatever calls overlap and whichever connections fail, a store that
\* says it is ready can send, and the subscribers it remembers are connected
\* (redis-store.js 158-190).
LinksAreReady == InitedIsUsable /\ SubscribersConnected

\* Redis: what a sender is told of its messages is true, but for a payload that
\* lost its destination to an earlier call (redis-store.js 91-151).
SendsAreTrue == ServedInOrder /\ SilentOnlyWithCause
=============================================================================
