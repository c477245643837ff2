------------------------------ MODULE StreamHub ------------------------------
(***************************************************************************)
(* Publishing and playing: the source pool (g_source_pool), the map from   *)
(* stream names to sources (g_source_map), the consumer queue of every     *)
(* source, and the client sessions of bls.js that drive them.              *)
(*                                                                         *)
(* The program has one thread.  What interleaves is (a) the events of the  *)
(* libuv loop, each handled to the end before the next, and (b) the calls  *)
(* the application makes from inside a callback.  The one place where the  *)
(* native code is half-way through a change of these structures while it   *)
(* runs JavaScript is BlsSource::clear_consumer, which calls back for      *)
(* every player before collect_source erases the name and returns the      *)
(* source.  `collecting' is the stack of the collect_source calls that are *)
(* on the C++ stack: the loop's own events need it empty, the calls of the *)
(* application do not, and one of them may start a nested collection.      *)
(***************************************************************************)
EXTENDS Naturals, Sequences, FiniteSets

CONSTANTS
  Client,           \* connections (RtmpClient with its RtmpProtocol and BlsClient)
  Name,             \* stream names
  Source,           \* the BlsSource objects of the pool
  Consumer,         \* the bls_consumer_t objects that can be allocated
  None,             \* NULL
  AnswerInHandler,  \* the application answers "publish" and "play" in their handlers
  MaxAsked          \* bound on the unanswered events of one kind of a client

ASSUME NoneAssumption == None \notin Client \cup Name \cup Source \cup Consumer
ASSUME AnswerAssumption == AnswerInHandler \in BOOLEAN
ASSUME MaxAskedAssumption == MaxAsked \in Nat \ {0}

VARIABLES
  conn,            \* the native client: "gone", "open", or "closing" (uv_client is
                   \* NULL and bls_close_tcp_cb has not finished)
  connect_state,   \* BlsClient.connect_state
  publish_id,      \* BlsClient.publish_stream_id # 0
  play_id,         \* BlsClient.play_stream_id # 0
  pub_asked,       \* "publish" events the application has not answered yet
  play_asked,      \* "play" events the application has not answered yet
  publish_source,  \* RtmpProtocol::publish_source
  play_consumer,   \* RtmpProtocol::play_consumer
  g_source_map,
  g_source_pool,
  stream_name,     \* BlsSource::stream_name, kept when the source is returned
  consumer_queue,  \* BlsSource::consumer_queue, as a set
  owner,           \* bls_consumer_t::client, None while not allocated
  plays,           \* bls_consumer_t::stream_name
  is_alive,        \* bls_consumer_t::is_alive
  ended,           \* bls_consumer_t::state is CONSUMER_END
  collecting       \* the stack of collect_source calls, innermost first

sessionVars  == <<connect_state, publish_id, play_id, pub_asked, play_asked>>
sourceVars   == <<g_source_map, g_source_pool, stream_name>>
consumerVars == <<owner, plays, is_alive, ended>>
vars == <<conn, sessionVars, publish_source, play_consumer, sourceVars,
          consumer_queue, consumerVars, collecting>>

\* One collect_source call: for which client, and what follows when it returns.
Frame == [client : Client, source : Source, then : {"unpublish", "destroy"}]

TypeOK ==
  /\ conn \in [Client -> {"gone", "open", "closing"}]
  /\ connect_state \in [Client -> {"WAIT_ACCEPT", "ACCEPT", "CLOSE"}]
  /\ publish_id \in [Client -> BOOLEAN]
  /\ play_id \in [Client -> BOOLEAN]
  /\ pub_asked \in [Client -> 0..MaxAsked]
  /\ play_asked \in [Client -> 0..MaxAsked]
  /\ publish_source \in [Client -> Source \cup {None}]
  /\ play_consumer \in [Client -> Consumer \cup {None}]
  /\ g_source_map \in [Name -> Source \cup {None}]
  /\ g_source_pool \in SUBSET Source
  /\ stream_name \in [Source -> Name \cup {None}]
  /\ consumer_queue \in [Source -> SUBSET Consumer]
  /\ owner \in [Consumer -> Client \cup {None}]
  /\ plays \in [Consumer -> Name \cup {None}]
  /\ is_alive \in [Consumer -> BOOLEAN]
  /\ ended \in [Consumer -> BOOLEAN]
  /\ collecting \in Seq(Frame)

Init ==
  /\ conn = [c \in Client |-> "gone"]
  /\ connect_state = [c \in Client |-> "WAIT_ACCEPT"]
  /\ publish_id = [c \in Client |-> FALSE]
  /\ play_id = [c \in Client |-> FALSE]
  /\ pub_asked = [c \in Client |-> 0]
  /\ play_asked = [c \in Client |-> 0]
  /\ publish_source = [c \in Client |-> None]
  /\ play_consumer = [c \in Client |-> None]
  /\ g_source_map = [n \in Name |-> None]
  /\ g_source_pool = Source
  /\ stream_name = [s \in Source |-> None]
  /\ consumer_queue = [s \in Source |-> {}]
  /\ owner = [k \in Consumer |-> None]
  /\ plays = [k \in Consumer |-> None]
  /\ is_alive = [k \in Consumer |-> FALSE]
  /\ ended = [k \in Consumer |-> FALSE]
  /\ collecting = <<>>

-----------------------------------------------------------------------------
(* Helpers. *)

\* The clients that have a collect_source call on the stack.
Collecting == {collecting[i].client : i \in 1..Len(collecting)}

\* The loop may deliver its next event: no callback is running.  An application
\* that answers in its handlers has answered before the loop goes on.
Quiet ==
  /\ collecting = <<>>
  /\ AnswerInHandler => \A c \in Client : pub_asked[c] = 0 /\ play_asked[c] = 0

\* Mutant: the consumer is not told that its client is closed.
CloseSocketSilently(c) ==
  /\ conn' = [conn EXCEPT ![c] = "closing"]
  /\ UNCHANGED ended

\* RtmpClient::close of an open client.
CloseSocket(c) ==
  /\ conn' = [conn EXCEPT ![c] = "closing"]
  /\ ended' = [k \in Consumer |-> ended[k] \/ k = play_consumer[c]]

\* RtmpClient::close: nothing happens when uv_client is NULL already.
Close(c) == IF conn[c] = "open" THEN CloseSocket(c) ELSE UNCHANGED <<conn, ended>>

\* free_consumer: unlinks the consumer only when it is alive.
FreeConsumer(k) ==
  /\ owner' = [owner EXCEPT ![k] = None]
  /\ plays' = [plays EXCEPT ![k] = None]
  /\ is_alive' = [is_alive EXCEPT ![k] = FALSE]
  /\ ended' = [ended EXCEPT ![k] = FALSE]
  /\ consumer_queue' =
       IF is_alive[k] THEN [s \in Source |-> consumer_queue[s] \ {k}]
       ELSE consumer_queue

\* free_consumer(play_consumer) unless it is NULL.
FreePlayConsumer(c) ==
  /\ IF play_consumer[c] = None THEN UNCHANGED <<consumer_queue, consumerVars>>
     ELSE FreeConsumer(play_consumer[c])
  /\ play_consumer' = [play_consumer EXCEPT ![c] = None]

\* Entering collect_source(publish_source) when there is a source to collect.
BeginCollect(c, then) ==
  collecting' = IF publish_source[c] = None THEN collecting
                ELSE <<[client |-> c, source |-> publish_source[c], then |-> then]>>
                     \o collecting

\* Mutant: the last step of the deletion is forgotten.
DeleteClientLater(c) ==
  /\ connect_state' = [connect_state EXCEPT ![c] = "WAIT_ACCEPT"]
  /\ publish_id' = [publish_id EXCEPT ![c] = FALSE]
  /\ play_id' = [play_id EXCEPT ![c] = FALSE]
  /\ pub_asked' = [pub_asked EXCEPT ![c] = 0]
  /\ play_asked' = [play_asked EXCEPT ![c] = 0]
  /\ UNCHANGED conn

\* The client object is deleted; the application has been given "close".
DeleteClient(c) ==
  /\ conn' = [conn EXCEPT ![c] = "gone"]
  /\ connect_state' = [connect_state EXCEPT ![c] = "WAIT_ACCEPT"]
  /\ publish_id' = [publish_id EXCEPT ![c] = FALSE]
  /\ play_id' = [play_id EXCEPT ![c] = FALSE]
  /\ pub_asked' = [pub_asked EXCEPT ![c] = 0]
  /\ play_asked' = [play_asked EXCEPT ![c] = 0]

\* Mutants of the four helpers below: the name is not looked up; the name is given
\* up before the players are told; the source is not returned; it is not forgotten.
NameFreeUnchecked(n) == TRUE
AllToldUnchecked(s) == TRUE
ReturnSourceLost(s) ==
  /\ g_source_map' = [g_source_map EXCEPT ![stream_name[s]] = None]
  /\ UNCHANGED g_source_pool
KeepSource(c) == UNCHANGED publish_source

\* publish_stream looks the name up in the map.
NameFree(n) == g_source_map[n] = None

\* clear_consumer has walked the whole queue of s.
AllTold(s) == \A k \in consumer_queue[s] : ~is_alive[k]

\* collect_source(s), after clear_consumer: the name is erased, s returned.
ReturnSource(s) ==
  /\ g_source_map' = [g_source_map EXCEPT ![stream_name[s]] = None]
  /\ g_source_pool' = g_source_pool \cup {s}

\* The caller of collect_source forgets the source.
ForgetSource(c) == publish_source' = [publish_source EXCEPT ![c] = None]

-----------------------------------------------------------------------------
(* Events of the loop. *)

\* A peer has finished its handshake: RtmpProtocol and BlsClient are created.
Connect(c) ==
  /\ Quiet
  /\ conn[c] = "gone"
  /\ conn' = [conn EXCEPT ![c] = "open"]
  /\ UNCHANGED <<sessionVars, publish_source, play_consumer, sourceVars,
                 consumer_queue, consumerVars, collecting>>

\* End of file, a read error or a malformed message: RtmpClient::close from C++.
PeerLeaves(c) ==
  /\ Quiet
  /\ conn[c] = "open"
  /\ CloseSocket(c)
  /\ UNCHANGED <<sessionVars, publish_source, play_consumer, sourceVars,
                 consumer_queue, owner, plays, is_alive, collecting>>

\* The command "publish": passed on only while no publish is under way.
CmdPublish(c) ==
  /\ Quiet
  /\ conn[c] = "open"
  /\ ~publish_id[c]
  /\ pub_asked[c] < MaxAsked
  /\ publish_id' = [publish_id EXCEPT ![c] = TRUE]
  /\ pub_asked' = [pub_asked EXCEPT ![c] = @ + 1]
  /\ UNCHANGED <<conn, connect_state, play_id, play_asked, publish_source,
                 play_consumer, sourceVars, consumer_queue, consumerVars, collecting>>

\* The command "play": passed on only while no play is under way.
CmdPlay(c) ==
  /\ Quiet
  /\ conn[c] = "open"
  /\ ~play_id[c]
  /\ play_asked[c] < MaxAsked
  /\ play_id' = [play_id EXCEPT ![c] = TRUE]
  /\ play_asked' = [play_asked EXCEPT ![c] = @ + 1]
  /\ UNCHANGED <<conn, connect_state, publish_id, pub_asked, publish_source,
                 play_consumer, sourceVars, consumer_queue, consumerVars, collecting>>

\* The streams one "deleteStream" can match: its id is compared with both ids,
\* which are equal when the peer used one stream for both, or when both are 0.
Matched(c) ==
  {w \in {{"play"}, {"publish"}, {"play", "publish"}} :
     /\ "play" \in w /\ "publish" \in w => play_id[c] = publish_id[c]
     /\ w = {"play"} => play_id[c] \/ publish_id[c]
     /\ w = {"publish"} => play_id[c] \/ publish_id[c]}

\* The command "deleteStream": unplay_stream, then unpublish_stream.
DeleteStream(c, which) ==
  /\ Quiet
  /\ conn[c] = "open"
  /\ which \in Matched(c)
  /\ IF "play" \in which
     THEN /\ play_id' = [play_id EXCEPT ![c] = FALSE]
          /\ FreePlayConsumer(c)
     ELSE UNCHANGED <<play_id, play_consumer, consumer_queue, consumerVars>>
  /\ IF "publish" \in which
     THEN /\ publish_id' = [publish_id EXCEPT ![c] = FALSE]
          /\ BeginCollect(c, "unpublish")
     ELSE UNCHANGED <<publish_id, collecting>>
  /\ UNCHANGED <<conn, connect_state, pub_asked, play_asked, publish_source, sourceVars>>

\* bls_close_tcp_cb deletes the protocol: "close" to the application, the
\* consumer is freed, and the source, if any, is collected before the client goes.
CloseCallback(c) ==
  /\ Quiet
  /\ conn[c] = "closing"
  /\ FreePlayConsumer(c)
  /\ BeginCollect(c, "destroy")
  /\ IF publish_source[c] = None
     THEN DeleteClient(c)
     ELSE /\ connect_state' = [connect_state EXCEPT ![c] = "CLOSE"]
          /\ UNCHANGED <<conn, publish_id, play_id, pub_asked, play_asked>>
  /\ UNCHANGED <<publish_source, sourceVars>>

-----------------------------------------------------------------------------
(* Calls of the application, from any callback. *)

\* accept(true) and accept(false): the second closes nothing but the state.
Accept(c, allow) ==
  /\ conn[c] # "gone"
  /\ connect_state[c] = "WAIT_ACCEPT"
  /\ connect_state' = [connect_state EXCEPT ![c] = IF allow THEN "ACCEPT" ELSE "CLOSE"]
  /\ UNCHANGED <<conn, publish_id, play_id, pub_asked, play_asked, publish_source,
                 play_consumer, sourceVars, consumer_queue, consumerVars, collecting>>

\* close(), from the application or from the ping timer.
JsClose(c) ==
  /\ conn[c] # "gone"
  /\ connect_state[c] # "CLOSE"
  /\ connect_state' = [connect_state EXCEPT ![c] = "CLOSE"]
  /\ Close(c)
  /\ UNCHANGED <<publish_id, play_id, pub_asked, play_asked, publish_source,
                 play_consumer, sourceVars, consumer_queue, owner, plays, is_alive,
                 collecting>>

\* Mutant: an event can be answered twice.
PublishDroppedTwice(c) ==
  /\ pub_asked' = [pub_asked EXCEPT ![c] = @ - 1]
  /\ UNCHANGED <<conn, connect_state, publish_id, play_id, play_asked, publish_source,
                 play_consumer, sourceVars, consumer_queue, consumerVars, collecting>>

\* The event is not answered, or publish() returns at its first checks.
PublishDropped(c) ==
  /\ pub_asked[c] > 0
  /\ pub_asked' = [pub_asked EXCEPT ![c] = @ - 1]
  /\ UNCHANGED <<conn, connect_state, publish_id, play_id, play_asked, publish_source,
                 play_consumer, sourceVars, consumer_queue, consumerVars, collecting>>

\* publish() passes the checks of bls.js.
MayPublish(c) == pub_asked[c] > 0 /\ connect_state[c] = "ACCEPT" /\ publish_id[c]

\* publish() of a closed client, or of a name that is taken, closes the client.
PublishRefused(c, n) ==
  /\ MayPublish(c)
  /\ conn[c] # "open" \/ ~NameFree(n)
  /\ pub_asked' = [pub_asked EXCEPT ![c] = @ - 1]
  /\ connect_state' = [connect_state EXCEPT ![c] = "CLOSE"]
  /\ Close(c)
  /\ UNCHANGED <<publish_id, play_id, play_asked, publish_source, play_consumer,
                 sourceVars, consumer_queue, owner, plays, is_alive, collecting>>

\* publish() of a free name takes a source from the pool; nothing looks at the
\* publish_source the client may have.  An empty pool aborts the process.
PublishStarted(c, n, s) ==
  /\ MayPublish(c)
  /\ conn[c] = "open"
  /\ NameFree(n)
  /\ s \in g_source_pool
  /\ g_source_pool' = g_source_pool \ {s}
  /\ g_source_map' = [g_source_map EXCEPT ![n] = s]
  /\ stream_name' = [stream_name EXCEPT ![s] = n]
  /\ publish_source' = [publish_source EXCEPT ![c] = s]
  /\ pub_asked' = [pub_asked EXCEPT ![c] = @ - 1]
  /\ UNCHANGED <<conn, connect_state, publish_id, play_id, play_asked, play_consumer,
                 consumer_queue, consumerVars, collecting>>

\* The event is not answered, play() returns at its first checks, the client is
\* closed, or nobody publishes the name.
PlayDropped(c) ==
  /\ play_asked[c] > 0
  /\ play_asked' = [play_asked EXCEPT ![c] = @ - 1]
  /\ UNCHANGED <<conn, connect_state, publish_id, play_id, pub_asked, publish_source,
                 play_consumer, sourceVars, consumer_queue, consumerVars, collecting>>

\* play() of a published name: init_consumer and add_consumer; nothing looks at
\* the play_consumer the client may have.
PlayStarted(c, n, k) ==
  /\ play_asked[c] > 0 /\ connect_state[c] = "ACCEPT" /\ play_id[c]
  /\ conn[c] = "open"
  /\ g_source_map[n] # None
  /\ owner[k] = None
  /\ owner' = [owner EXCEPT ![k] = c]
  /\ plays' = [plays EXCEPT ![k] = n]
  /\ is_alive' = [is_alive EXCEPT ![k] = TRUE]
  /\ ended' = [ended EXCEPT ![k] = FALSE]
  /\ consumer_queue' = [consumer_queue EXCEPT ![g_source_map[n]] = @ \cup {k}]
  /\ play_consumer' = [play_consumer EXCEPT ![c] = k]
  /\ play_asked' = [play_asked EXCEPT ![c] = @ - 1]
  /\ UNCHANGED <<conn, connect_state, publish_id, play_id, pub_asked, publish_source,
                 sourceVars, collecting>>

\* unpublish(); not from the notification that this very stream is ending.
Unpublish(c) ==
  /\ conn[c] = "open"
  /\ publish_source[c] # None
  /\ c \notin Collecting
  /\ BeginCollect(c, "unpublish")
  /\ UNCHANGED <<conn, sessionVars, publish_source, play_consumer, sourceVars,
                 consumer_queue, consumerVars>>

-----------------------------------------------------------------------------
(* collect_source, step by step. *)

\* One turn of the loop in clear_consumer: is_alive, then "play_stop_event".
NotifyStop(k) ==
  /\ collecting # <<>>
  /\ k \in consumer_queue[collecting[1].source]
  /\ is_alive[k]
  /\ is_alive' = [is_alive EXCEPT ![k] = FALSE]
  /\ UNCHANGED <<conn, sessionVars, publish_source, play_consumer, sourceVars,
                 consumer_queue, owner, plays, ended, collecting>>

\* The queue has been walked: it is emptied, the name erased, the source returned
\* and the caller goes on.
Collected ==
  /\ collecting # <<>>
  /\ LET f == collecting[1] IN
     /\ AllTold(f.source)
     /\ consumer_queue' = [consumer_queue EXCEPT ![f.source] = {}]
     /\ ReturnSource(f.source)
     /\ ForgetSource(f.client)
     /\ IF f.then = "destroy" THEN DeleteClient(f.client)
        ELSE UNCHANGED <<conn, sessionVars>>
  /\ collecting' = Tail(collecting)
  /\ UNCHANGED <<play_consumer, stream_name, consumerVars>>

-----------------------------------------------------------------------------

Loop(c) ==
  \/ Connect(c) \/ PeerLeaves(c) \/ CmdPublish(c) \/ CmdPlay(c) \/ CloseCallback(c)
  \/ \E which \in SUBSET {"play", "publish"} : DeleteStream(c, which)

Answer(c) ==
  \/ PublishDropped(c) \/ PlayDropped(c)
  \/ \E n \in Name :
       \/ PublishRefused(c, n)
       \/ \E s \in Source : PublishStarted(c, n, s)
       \/ \E k \in Consumer : PlayStarted(c, n, k)

Application(c) ==
  \/ \E allow \in BOOLEAN : Accept(c, allow)
  \/ JsClose(c) \/ Unpublish(c) \/ Answer(c)

Collect == Collected \/ \E k \in Consumer : NotifyStop(k)

Next == Collect \/ \E c \in Client : Loop(c) \/ Application(c)

Spec == Init /\ [][Next]_vars

\* clear_consumer is a loop that runs on and a handler returns to the loop (weak
\* fairness); libuv looks at the closing handles at the end of every iteration,
\* however busy the iterations are (strong fairness).
Fairness ==
  /\ WF_vars(Collect)
  /\ \A c \in Client : WF_vars(Answer(c)) /\ SF_vars(CloseCallback(c))

FairSpec == Spec /\ Fairness

-----------------------------------------------------------------------------
(* Properties. *)

\* Every source is either in the pool, idle, or carries exactly one name of the map
\* and belongs to exactly one client that still exists.  A source returned twice,
\* returned while in use or never returned breaks it (collect_source, the
\* destructor of RtmpProtocol, publish_stream).
SourcesAccounted ==
  \A s \in Source :
    \/ /\ s \in g_source_pool
       /\ consumer_queue[s] = {}
       /\ \A n \in Name : g_source_map[n] # s
       /\ \A c \in Client : publish_source[c] # s
    \/ /\ s \notin g_source_pool
       /\ \A n \in Name : g_source_map[n] = s <=> n = stream_name[s]
       /\ \E c \in Client :
            /\ conn[c] # "gone"
            /\ \A d \in Client : publish_source[d] = s <=> d = c

\* Forwarding a chunk walks consumer_queue: each consumer in it belongs to a client
\* that is not deleted and knows the consumer as its own, was asked for the name the
\* source carries (the assertion of consumer_send_video), and is at CONSUMER_END if
\* the client's socket is closed.
PlayersReachable ==
  \A s \in Source : \A k \in consumer_queue[s] :
    /\ owner[k] \in Client
    /\ conn[owner[k]] # "gone"
    /\ play_consumer[owner[k]] = k
    /\ plays[k] = stream_name[s]
    /\ conn[owner[k]] = "closing" => ended[k]

\* The pool is never empty when a client may publish: apply_source would abort.
PoolSuffices ==
  (\E c \in Client : MayPublish(c) /\ conn[c] = "open") => g_source_pool # {}

\* A name is given up only when every consumer that plays it has been told, those
\* that joined while the stream was ending included, and is not given to another
\* source in the same step.
NameReleased ==
  \A n \in Name : g_source_map[n] \notin {None, g_source_map'[n]} =>
    /\ g_source_map'[n] = None
    /\ \A k \in Consumer : plays[k] = n => ~is_alive[k]

NobodyLeftWaiting == [][NameReleased]_vars

\* README.md: a client publishes one stream at a time, so the source it publishes to
\* is not replaced by another one before it is given back.
OnePublishPerClient ==
  [][\A c \in Client :
       publish_source[c] # None => publish_source'[c] \in {None, publish_source[c]}]_vars

\* README.md: a client plays one stream, so the consumer it plays with is not replaced
\* by another one before it is freed (play_stream, free_consumer).
OnePlayPerClient ==
  [][\A c \in Client :
       play_consumer[c] # None => play_consumer'[c] \in {None, play_consumer[c]}]_vars

\* clear_consumer ends, whatever the application does in its callbacks, and the
\* loop goes on; a closed client is deleted, with whatever it published and played.
ClosedClientsGo ==
  /\ (collecting # <<>>) ~> (collecting = <<>>)
  /\ \A c \in Client : (conn[c] = "closing") ~> (conn[c] = "gone")

\* The implementation of PubSub.
PublisherOf(n) ==
  IF g_source_map[n] = None THEN None
  ELSE CHOOSE c \in Client : publish_source[c] = g_source_map[n]

AudienceOf(n) ==
  IF g_source_map[n] = None THEN {}
  ELSE {owner[k] : k \in consumer_queue[g_source_map[n]]}

ToldOf(n) ==
  IF g_source_map[n] = None THEN {}
  ELSE {owner[k] : k \in {j \in consumer_queue[g_source_map[n]] : ~is_alive[j]}}

Streams == INSTANCE PubSub WITH
  publisher <- [n \in Name |-> PublisherOf(n)],
  audience <- [n \in Name |-> AudienceOf(n)],
  told <- [n \in Name |-> ToldOf(n)]

\* Pool, map and queues together behave as PubSub.
ImplementsPubSub == Streams!Spec
=============================================================================
