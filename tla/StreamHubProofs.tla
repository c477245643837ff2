--------------------------- MODULE StreamHubProofs ---------------------------
(***************************************************************************)
(* Proofs about StreamHub for any number of clients, names, sources and    *)
(* consumers, for an application that answers in its handlers.             *)
(***************************************************************************)
EXTENDS StreamHub, FiniteSetTheorems, TLAPS

\* The map and the pool: a mapped source carries its name and is not in the pool,
\* and what is not in the pool is mapped.
MapInv ==
  /\ \A n \in Name : g_source_map[n] # None =>
       stream_name[g_source_map[n]] = n /\ g_source_map[n] \notin g_source_pool
  /\ \A s \in Source \ g_source_pool :
       stream_name[s] \in Name /\ g_source_map[stream_name[s]] = s

\* Ownership: the sources in use and the clients that publish are in bijection.
PubInv ==
  /\ \A c \in Client : publish_source[c] # None =>
       publish_source[c] \notin g_source_pool /\ conn[c] # "gone"
  /\ \A c, d \in Client :
       publish_source[c] # None /\ publish_source[c] = publish_source[d] => c = d
  /\ \A s \in Source \ g_source_pool : \E c \in Client : publish_source[c] = s

\* The sessions: an unanswered event belongs to a client that has no stream yet.
SessionInv ==
  /\ \A c \in Client : publish_source[c] # None => publish_id[c] \/ c \in Collecting
  /\ \A c \in Client : pub_asked[c] > 0 =>
       pub_asked[c] = 1 /\ publish_id[c] /\ publish_source[c] = None
  /\ \A c \in Client : play_consumer[c] # None => play_id[c]
  /\ \A c \in Client : play_asked[c] > 0 =>
       play_asked[c] = 1 /\ play_id[c] /\ play_consumer[c] = None
  /\ \A c \in Client : conn[c] = "gone" =>
       ~publish_id[c] /\ ~play_id[c] /\ pub_asked[c] = 0 /\ play_asked[c] = 0

\* The stack: every collection is of the source its client still holds.
FrameInv ==
  /\ \A i \in 1..Len(collecting) :
       /\ publish_source[collecting[i].client] = collecting[i].source
       /\ collecting[i].then = "destroy" =>
            /\ conn[collecting[i].client] = "closing"
            /\ play_consumer[collecting[i].client] = None
  /\ \A i, j \in 1..Len(collecting) :
       collecting[i].client = collecting[j].client => i = j

\* Consumers and clients know each other, and a queue holds living consumers of its
\* own name; only a source that is being collected has some it has told already.
ConsumerInv ==
  /\ \A c \in Client : play_consumer[c] # None =>
       /\ owner[play_consumer[c]] = c
       /\ conn[c] # "gone"
       /\ conn[c] = "closing" => ended[play_consumer[c]]
  /\ \A k \in Consumer : owner[k] # None => play_consumer[owner[k]] = k

QueueInv ==
  /\ \A s \in Source : \A k \in consumer_queue[s] :
       /\ owner[k] # None
       /\ plays[k] = stream_name[s]
       /\ s \notin g_source_pool
       /\ is_alive[k] \/ \E i \in 1..Len(collecting) : collecting[i].source = s
  /\ \A k \in Consumer : is_alive[k] =>
       owner[k] # None /\ \E s \in Source : k \in consumer_queue[s]

IInv == TypeOK /\ MapInv /\ PubInv /\ SessionInv /\ FrameInv /\ ConsumerInv /\ QueueInv

-----------------------------------------------------------------------------
(* The stack. *)

\* Entering a call puts its frame at the head and keeps the others in order.
LEMMA Push ==
  ASSUME NEW f \in Frame, NEW q \in Seq(Frame)
  PROVE  /\ <<f>> \o q \in Seq(Frame)
         /\ Len(<<f>> \o q) = Len(q) + 1
         /\ (<<f>> \o q)[1] = f
         /\ \A i \in 1..Len(q) : (<<f>> \o q)[i + 1] = q[i]
  OBVIOUS

\* Returning from a call takes its frame off the head.
LEMMA Pop ==
  ASSUME NEW q \in Seq(Frame), q # <<>>
  PROVE  /\ Tail(q) \in Seq(Frame)
         /\ Len(q) \in Nat \ {0}
         /\ Len(Tail(q)) = Len(q) - 1
         /\ \A i \in 1..Len(Tail(q)) : Tail(q)[i] = q[i + 1]
         /\ q[1] \in Frame
  OBVIOUS

\* At the start everything is gone, idle or free.
LEMMA InitIInv == Init => IInv
  BY NoneAssumption, MaxAskedAssumption
  DEF Init, IInv, TypeOK, MapInv, PubInv, SessionInv, FrameInv, ConsumerInv, QueueInv

\* accept() moves connect_state only, which the invariant does not mention.
LEMMA AcceptStep ==
  ASSUME IInv, NEW c \in Client, NEW allow \in BOOLEAN, Accept(c, allow)
  PROVE  IInv'
  BY DEF IInv, TypeOK, MapInv, PubInv, SessionInv, FrameInv, ConsumerInv, QueueInv,
         Collecting, Accept, sourceVars, consumerVars

\* A new client has no source, no consumer and no unanswered event.
LEMMA ConnectStep ==
  ASSUME IInv, AnswerInHandler, NEW c \in Client, Connect(c)
  PROVE  IInv'
  BY NoneAssumption, MaxAskedAssumption
  DEF IInv, TypeOK, MapInv, PubInv, SessionInv, FrameInv, ConsumerInv, QueueInv,
      Collecting, sessionVars, sourceVars, consumerVars, Connect, Quiet

\* The consumer of a client that is closed from C++ is at CONSUMER_END.
LEMMA PeerLeavesStep ==
  ASSUME IInv, AnswerInHandler, NEW c \in Client, PeerLeaves(c)
  PROVE  IInv'
  BY NoneAssumption, MaxAskedAssumption
  DEF IInv, TypeOK, MapInv, PubInv, SessionInv, FrameInv, ConsumerInv, QueueInv,
      Collecting, sessionVars, sourceVars, consumerVars, PeerLeaves, Quiet, CloseSocket

\* The event is passed on only to a client without a source: publish_id is FALSE
\* and, between two events, no collection is under way.
LEMMA CmdPublishStep ==
  ASSUME IInv, AnswerInHandler, NEW c \in Client, CmdPublish(c)
  PROVE  IInv'
  BY NoneAssumption, MaxAskedAssumption
  DEF IInv, TypeOK, MapInv, PubInv, SessionInv, FrameInv, ConsumerInv, QueueInv,
      Collecting, sessionVars, sourceVars, consumerVars, CmdPublish, Quiet

\* The event is passed on only to a client without a consumer.
LEMMA CmdPlayStep ==
  ASSUME IInv, AnswerInHandler, NEW c \in Client, CmdPlay(c)
  PROVE  IInv'
  BY NoneAssumption, MaxAskedAssumption
  DEF IInv, TypeOK, MapInv, PubInv, SessionInv, FrameInv, ConsumerInv, QueueInv,
      Collecting, sessionVars, sourceVars, consumerVars, CmdPlay, Quiet

\* An event less to answer leaves nothing else to show.
LEMMA PublishDroppedStep ==
  ASSUME IInv, NEW c \in Client, PublishDropped(c)
  PROVE  IInv'
  BY NoneAssumption, MaxAskedAssumption
  DEF IInv, TypeOK, MapInv, PubInv, SessionInv, FrameInv, ConsumerInv, QueueInv,
      Collecting, sessionVars, sourceVars, consumerVars, PublishDropped

\* An event less to answer leaves nothing else to show.
LEMMA PlayDroppedStep ==
  ASSUME IInv, NEW c \in Client, PlayDropped(c)
  PROVE  IInv'
  BY NoneAssumption, MaxAskedAssumption
  DEF IInv, TypeOK, MapInv, PubInv, SessionInv, FrameInv, ConsumerInv, QueueInv,
      Collecting, sessionVars, sourceVars, consumerVars, PlayDropped

\* The fields of the frames, without the sequence they are in.
LEMMA FramesTyped ==
  ASSUME TypeOK
  PROVE  \A i \in 1..Len(collecting) :
           /\ collecting[i].client \in Client
           /\ collecting[i].source \in Source
           /\ collecting[i].then \in {"unpublish", "destroy"}
<1>1. \A i \in 1..Len(collecting) : collecting[i] \in Frame
  BY DEF TypeOK
<1>. QED  BY <1>1 DEF Frame

\* What RtmpClient::close leaves behind, whether or not the client was open.
LEMMA CloseFacts ==
  ASSUME TypeOK, NEW c \in Client, conn[c] # "gone", Close(c)
  PROVE  /\ conn' = [conn EXCEPT ![c] = "closing"]
         /\ ended' \in [Consumer -> BOOLEAN]
         /\ \A k \in Consumer : ended[k] => ended'[k]
         /\ conn[c] = "open" => \A k \in Consumer : k = play_consumer[c] => ended'[k]
<1>1. CASE conn[c] = "open"
  BY <1>1, ZenonT(40) DEF Close, CloseSocket, TypeOK
<1>2. CASE conn[c] = "closing"
  BY <1>2 DEF Close, TypeOK
<1>. QED  BY <1>1, <1>2 DEF TypeOK

\* close() of an open client puts its consumer at CONSUMER_END, of any other nothing.
LEMMA JsCloseStep ==
  ASSUME IInv, NEW c \in Client, JsClose(c)
  PROVE  IInv'
<1> USE NoneAssumption, CloseFacts
    DEF IInv, JsClose, sourceVars
<1>1. TypeOK'
  BY DEF TypeOK
<1>2. MapInv'
  BY DEF MapInv
<1>3. PubInv'
  BY DEF TypeOK, PubInv
<1>4. SessionInv'
  BY DEF TypeOK, SessionInv, Collecting
<1>5. FrameInv'
  BY FramesTyped DEF TypeOK, FrameInv
<1>6. ConsumerInv'
  BY DEF TypeOK, ConsumerInv
<1>7. QueueInv'
  BY DEF TypeOK, QueueInv
<1>. QED  BY <1>1, <1>2, <1>3, <1>4, <1>5, <1>6, <1>7

\* A refusal is a close() that also answers the event.
LEMMA PublishRefusedStep ==
  ASSUME IInv, NEW c \in Client, NEW n \in Name, PublishRefused(c, n)
  PROVE  IInv'
<1>0. conn[c] # "gone" /\ pub_asked[c] - 1 \in 0..MaxAsked
  BY MaxAskedAssumption DEF IInv, TypeOK, SessionInv, PublishRefused, MayPublish
<1> USE <1>0, NoneAssumption, MaxAskedAssumption, CloseFacts
    DEF IInv, PublishRefused, MayPublish, sourceVars
<1>1. TypeOK'
  BY DEF TypeOK
<1>2. MapInv'
  BY DEF MapInv
<1>3. PubInv'
  BY DEF TypeOK, PubInv
<1>4. SessionInv'
  BY DEF TypeOK, SessionInv, Collecting
<1>5. FrameInv'
  BY FramesTyped, SMTT(30) DEF TypeOK, FrameInv
<1>6. ConsumerInv'
  BY DEF TypeOK, ConsumerInv
<1>7. QueueInv'
  BY DEF TypeOK, QueueInv
<1>. QED  BY <1>1, <1>2, <1>3, <1>4, <1>5, <1>6, <1>7

\* A client with an unanswered "publish" has no source and is on no frame, so the
\* source it gets is the only one it holds.
LEMMA PublishStartedStep ==
  ASSUME IInv, NEW c \in Client, NEW n \in Name, NEW s \in Source,
         PublishStarted(c, n, s)
  PROVE  IInv'
<1>0. /\ publish_source[c] = None
      /\ \A d \in Client : publish_source[d] # s
      /\ consumer_queue[s] = {}
  BY NoneAssumption
  DEF IInv, TypeOK, PubInv, SessionInv, QueueInv, PublishStarted, MayPublish,
      NameFree
<1> USE <1>0, NoneAssumption, MaxAskedAssumption DEF IInv, PublishStarted, MayPublish,
         NameFree, consumerVars
<1>1. TypeOK'
  BY DEF TypeOK
<1>2. MapInv'
  BY DEF TypeOK, MapInv
<1>3. PubInv'
  BY DEF TypeOK, PubInv
<1>4. SessionInv'
  BY DEF TypeOK, SessionInv, Collecting
<1>5. FrameInv'
  BY FramesTyped DEF TypeOK, FrameInv
<1>6. ConsumerInv'
  BY DEF TypeOK, ConsumerInv
<1>7. QueueInv'
  BY DEF TypeOK, QueueInv
<1>. QED  BY <1>1, <1>2, <1>3, <1>4, <1>5, <1>6, <1>7

\* A client with an unanswered "play" has no consumer, so none is orphaned.
LEMMA PlayStartedStep ==
  ASSUME IInv, NEW c \in Client, NEW n \in Name, NEW k \in Consumer,
         PlayStarted(c, n, k)
  PROVE  IInv'
<1>a. /\ g_source_map[n] \in Source \ g_source_pool
      /\ stream_name[g_source_map[n]] = n
  BY DEF IInv, TypeOK, MapInv, PlayStarted
<1>b. play_consumer[c] = None
  BY DEF IInv, TypeOK, SessionInv, PlayStarted
<1>c. \A d \in Client : play_consumer[d] # k
  <2> SUFFICES ASSUME NEW d \in Client, play_consumer[d] = k  PROVE FALSE
    OBVIOUS
  <2>1. k # None /\ d # None
    BY NoneAssumption
  <2>2. owner[k] = d
    BY <2>1 DEF IInv, ConsumerInv
  <2>. QED  BY <2>1, <2>2 DEF PlayStarted
<1>d. \A s \in Source : k \notin consumer_queue[s]
  BY DEF IInv, QueueInv, PlayStarted
<1> USE <1>a, <1>b, <1>c, <1>d, NoneAssumption, MaxAskedAssumption DEF IInv, PlayStarted, sourceVars
<1>1. TypeOK'
  BY DEF TypeOK
<1>2. MapInv'
  BY DEF MapInv
<1>3. PubInv'
  BY DEF PubInv
<1>4. SessionInv'
  BY DEF TypeOK, SessionInv, Collecting
<1>5. FrameInv'
  BY FramesTyped DEF TypeOK, FrameInv
<1>6. ConsumerInv'
  BY DEF TypeOK, ConsumerInv
<1>7. QueueInv'
  BY DEF TypeOK, QueueInv
<1>. QED  BY <1>1, <1>2, <1>3, <1>4, <1>5, <1>6, <1>7

-----------------------------------------------------------------------------
(* Freeing a consumer and starting a collection. *)

\* Between two events a consumer in a queue is alive, so free_consumer takes the
\* consumer out of every queue it is in.
LEMMA FreeFacts ==
  ASSUME IInv, collecting = <<>>, NEW c \in Client, FreePlayConsumer(c)
  PROVE  /\ play_consumer' = [play_consumer EXCEPT ![c] = None]
         /\ owner' \in [Consumer -> Client \cup {None}]
         /\ plays' \in [Consumer -> Name \cup {None}]
         /\ is_alive' \in [Consumer -> BOOLEAN]
         /\ ended' \in [Consumer -> BOOLEAN]
         /\ consumer_queue' = [s \in Source |-> consumer_queue[s] \ {play_consumer[c]}]
         /\ \A k \in Consumer :
              IF k = play_consumer[c]
              THEN owner'[k] = None /\ ~is_alive'[k]
              ELSE /\ owner'[k] = owner[k] /\ plays'[k] = plays[k]
                   /\ is_alive'[k] = is_alive[k] /\ ended'[k] = ended[k]
<1>1. CASE play_consumer[c] = None
  <2>1. \A s \in Source : None \notin consumer_queue[s]
    BY NoneAssumption DEF IInv, TypeOK
  <2>2. consumer_queue = [s \in Source |-> consumer_queue[s] \ {None}]
    BY <2>1 DEF IInv, TypeOK
  <2>. QED
    BY <1>1, <2>2, NoneAssumption DEF IInv, TypeOK, FreePlayConsumer, consumerVars
<1>2. CASE play_consumer[c] # None
  <2> DEFINE k == play_consumer[c]
  <2>1. k \in Consumer /\ FreeConsumer(k)
    BY <1>2 DEF IInv, TypeOK, FreePlayConsumer
  <2>2. ~is_alive[k] => \A s \in Source : k \notin consumer_queue[s]
    BY DEF IInv, QueueInv
  <2>3. consumer_queue' = [s \in Source |-> consumer_queue[s] \ {k}]
    BY <2>1, <2>2 DEF FreeConsumer, IInv, TypeOK
  <2>. QED
    BY <1>2, <2>1, <2>3 DEF IInv, TypeOK, FreePlayConsumer, FreeConsumer
<1>. QED  BY <1>1, <1>2

\* BeginCollect puts one frame for c on the stack, if c has a source.
LEMMA BeginFacts ==
  ASSUME TypeOK, NEW c \in Client, NEW then \in {"unpublish", "destroy"},
         BeginCollect(c, then)
  PROVE  /\ collecting' \in Seq(Frame)
         /\ publish_source[c] = None => collecting' = collecting
         /\ publish_source[c] # None =>
              /\ Len(collecting') = Len(collecting) + 1
              /\ collecting'[1] =
                   [client |-> c, source |-> publish_source[c], then |-> then]
              /\ \A i \in 1..Len(collecting) : collecting'[i + 1] = collecting[i]
<1>1. CASE publish_source[c] = None
  BY <1>1 DEF BeginCollect, TypeOK
<1>2. CASE publish_source[c] # None
  <2> DEFINE f == [client |-> c, source |-> publish_source[c], then |-> then]
  <2>1. f \in Frame
    BY <1>2 DEF TypeOK, Frame
  <2>2. collecting \in Seq(Frame)
    BY DEF TypeOK
  <2>3. collecting' = <<f>> \o collecting
    BY <1>2 DEF BeginCollect
  <2> HIDE DEF f
  <2>4. /\ collecting' \in Seq(Frame)
        /\ Len(collecting') = Len(collecting) + 1
        /\ collecting'[1] = f
        /\ \A i \in 1..Len(collecting) : collecting'[i + 1] = collecting[i]
    BY <2>1, <2>2, <2>3, Push
  <2>. QED  BY <1>2, <2>4 DEF f
<1>. QED  BY <1>1, <1>2

\* The frames after a push, index by index: the new one, or an old one.
LEMMA BeginFrames ==
  ASSUME TypeOK, NEW c \in Client, NEW then \in {"unpublish", "destroy"},
         BeginCollect(c, then), publish_source[c] # None
  PROVE  /\ \A i \in 1..Len(collecting') :
              \/ /\ i = 1
                 /\ collecting'[i].client = c
                 /\ collecting'[i].source = publish_source[c]
                 /\ collecting'[i].then = then
              \/ /\ i - 1 \in 1..Len(collecting)
                 /\ collecting'[i] = collecting[i - 1]
         /\ Collecting' = Collecting \cup {c}
         /\ \A i \in 1..Len(collecting) :
              i + 1 \in 1..Len(collecting') /\ collecting'[i + 1] = collecting[i]
<1>0. Len(collecting) \in Nat
  BY DEF TypeOK
<1>1. /\ Len(collecting') = Len(collecting) + 1
      /\ collecting'[1] = [client |-> c, source |-> publish_source[c], then |-> then]
      /\ \A i \in 1..Len(collecting) : collecting'[i + 1] = collecting[i]
  BY BeginFacts
<1>2. ASSUME NEW i \in 1..Len(collecting'), i # 1
      PROVE  i - 1 \in 1..Len(collecting) /\ collecting'[i] = collecting[i - 1]
  BY <1>0, <1>1, <1>2
<1>3. \A i \in 1..Len(collecting) : i + 1 \in 1..Len(collecting')
  BY <1>0, <1>1
<1>4. 1 \in 1..Len(collecting') /\ collecting'[1].client = c
  BY <1>0, <1>1
<1>5. Collecting' = Collecting \cup {c}
  BY <1>0, <1>1, <1>2, <1>3, <1>4 DEF Collecting
<1>. QED  BY <1>0, <1>1, <1>2, <1>3, <1>5

\* A collection starts only for a client that has none under way, so the clients on
\* the stack stay distinct.
LEMMA BeginFrameInv ==
  ASSUME TypeOK, FrameInv, NEW c \in Client, NEW then \in {"unpublish", "destroy"},
         BeginCollect(c, then), c \notin Collecting,
         publish_source' = publish_source,
         \A d \in Client : conn[d] = "closing" => conn'[d] = "closing",
         \A d \in Client : play_consumer[d] = None => play_consumer'[d] = None,
         then = "destroy" => conn'[c] = "closing" /\ play_consumer'[c] = None
  PROVE  FrameInv'
<1>1. CASE publish_source[c] = None
  <2>1. collecting' = collecting
    BY <1>1, BeginFacts
  <2>. QED  BY <2>1, FramesTyped DEF FrameInv
<1>2. CASE publish_source[c] # None
  <2>1. \A i \in 1..Len(collecting) : collecting[i].client # c
    BY DEF Collecting
  <2>2. \A i \in 1..Len(collecting') :
          \/ /\ i = 1
             /\ collecting'[i].client = c
             /\ collecting'[i].source = publish_source[c]
             /\ collecting'[i].then = then
          \/ /\ i - 1 \in 1..Len(collecting)
             /\ collecting'[i] = collecting[i - 1]
    BY <1>2, BeginFrames
  <2>3. ASSUME NEW i \in 1..Len(collecting')
        PROVE  /\ publish_source'[collecting'[i].client] = collecting'[i].source
               /\ collecting'[i].then = "destroy" =>
                    /\ conn'[collecting'[i].client] = "closing"
                    /\ play_consumer'[collecting'[i].client] = None
    <3>1. CASE i = 1 /\ collecting'[i].client = c
               /\ collecting'[i].source = publish_source[c] /\ collecting'[i].then = then
      BY <3>1
    <3>2. CASE i - 1 \in 1..Len(collecting) /\ collecting'[i] = collecting[i - 1]
      BY <3>2, FramesTyped DEF FrameInv
    <3>. QED  BY <2>2, <3>1, <3>2
  <2>4. ASSUME NEW i \in 1..Len(collecting'), NEW j \in 1..Len(collecting'),
               collecting'[i].client = collecting'[j].client
        PROVE  i = j
    <3>1. CASE i = 1 \/ j = 1
      BY <2>1, <2>2, <2>4, <3>1
    <3>2. CASE i # 1 /\ j # 1
      <4>1. /\ i - 1 \in 1..Len(collecting) /\ collecting'[i] = collecting[i - 1]
            /\ j - 1 \in 1..Len(collecting) /\ collecting'[j] = collecting[j - 1]
        BY <2>2, <3>2
      <4>2. i - 1 = j - 1
        BY <2>4, <4>1 DEF FrameInv
      <4>. QED  BY <4>2
    <3>. QED  BY <3>1, <3>2
  <2>. QED  BY <2>3, <2>4 DEF FrameInv
<1>. QED  BY <1>1, <1>2

\* unpublish() of a client that is not being collected puts one frame on the stack.
LEMMA UnpublishStep ==
  ASSUME IInv, NEW c \in Client, Unpublish(c)
  PROVE  IInv'
<1> USE BeginFacts, BeginFrames, NoneAssumption
    DEF IInv, Unpublish, sessionVars, sourceVars, consumerVars
<1>1. TypeOK'
  BY DEF TypeOK
<1>2. MapInv'
  BY DEF MapInv
<1>3. PubInv'
  BY DEF PubInv
<1>4. SessionInv'
  BY DEF SessionInv
<1>5. FrameInv'
  BY BeginFrameInv
<1>6. ConsumerInv'
  BY DEF ConsumerInv
<1>7. QueueInv'
  BY SMTT(30) DEF QueueInv
<1>. QED  BY <1>1, <1>2, <1>3, <1>4, <1>5, <1>6, <1>7

\* After freeing the consumer of c and perhaps starting the collection of its
\* source, nothing refers to the consumer and every queue and client is as before.
LEMMA FreedConsumer ==
  ASSUME IInv, collecting = <<>>, NEW c \in Client, FreePlayConsumer(c),
         sourceVars' = sourceVars, \A d \in Client : d # c => conn'[d] = conn[d]
  PROVE  ConsumerInv' /\ QueueInv'
<1> DEFINE k == play_consumer[c]
<1>0. /\ play_consumer' = [play_consumer EXCEPT ![c] = None]
      /\ consumer_queue' = [s \in Source |-> consumer_queue[s] \ {k}]
      /\ \A j \in Consumer :
           IF j = k
           THEN owner'[j] = None /\ ~is_alive'[j]
           ELSE /\ owner'[j] = owner[j] /\ plays'[j] = plays[j]
                /\ is_alive'[j] = is_alive[j] /\ ended'[j] = ended[j]
  BY FreeFacts
<1>1. ConsumerInv'
  BY <1>0, NoneAssumption DEF IInv, TypeOK, ConsumerInv
<1>2. ASSUME NEW s \in Source, NEW j \in consumer_queue'[s]
      PROVE  /\ owner'[j] # None
             /\ plays'[j] = stream_name'[s]
             /\ s \notin g_source_pool'
             /\ is_alive'[j]
  <2>1. j \in Consumer /\ j # k /\ j \in consumer_queue[s]
    BY <1>0 DEF IInv, TypeOK
  <2>. QED  BY <1>0, <2>1 DEF IInv, QueueInv, sourceVars
<1>3. ASSUME NEW j \in Consumer, is_alive'[j]
      PROVE  owner'[j] # None /\ \E s \in Source : j \in consumer_queue'[s]
  BY <1>0, <1>3 DEF IInv, QueueInv
<1>. QED  BY <1>1, <1>2, <1>3 DEF QueueInv

\* "deleteStream" frees the consumer, starts a collection, or both.
LEMMA DeleteStreamStep ==
  ASSUME IInv, AnswerInHandler, NEW c \in Client, NEW which \in SUBSET {"play", "publish"},
         DeleteStream(c, which)
  PROVE  IInv'
<1>0. /\ collecting = <<>> /\ Collecting = {}
      /\ \A d \in Client : pub_asked[d] = 0 /\ play_asked[d] = 0
      /\ conn[c] = "open" /\ conn' = conn
      /\ publish_source' = publish_source
      /\ UNCHANGED <<connect_state, pub_asked, play_asked, sourceVars>>
  BY DEF DeleteStream, Quiet, Collecting
<1>1. \/ /\ play_id' = [play_id EXCEPT ![c] = FALSE]
         /\ FreePlayConsumer(c)
      \/ UNCHANGED <<play_id, play_consumer, consumer_queue, consumerVars>>
  BY DEF DeleteStream
<1>2. \/ /\ publish_id' = [publish_id EXCEPT ![c] = FALSE]
         /\ BeginCollect(c, "unpublish")
      \/ UNCHANGED <<publish_id, collecting>>
  BY DEF DeleteStream
<1>3. TypeOK'
  <2>1. collecting' \in Seq(Frame) /\ publish_id' \in [Client -> BOOLEAN]
    BY <1>2, BeginFacts DEF IInv, TypeOK
  <2>2. /\ play_id' \in [Client -> BOOLEAN]
        /\ play_consumer' \in [Client -> Consumer \cup {None}]
        /\ consumer_queue' \in [Source -> SUBSET Consumer]
        /\ owner' \in [Consumer -> Client \cup {None}]
        /\ plays' \in [Consumer -> Name \cup {None}]
        /\ is_alive' \in [Consumer -> BOOLEAN]
        /\ ended' \in [Consumer -> BOOLEAN]
    <3>1. CASE FreePlayConsumer(c) /\ play_id' = [play_id EXCEPT ![c] = FALSE]
      <4>1. IInv /\ TypeOK
        BY DEF IInv
      <4>2. /\ play_consumer' = [play_consumer EXCEPT ![c] = None]
            /\ consumer_queue' = [s \in Source |-> consumer_queue[s] \ {play_consumer[c]}]
            /\ owner' \in [Consumer -> Client \cup {None}]
            /\ plays' \in [Consumer -> Name \cup {None}]
            /\ is_alive' \in [Consumer -> BOOLEAN]
            /\ ended' \in [Consumer -> BOOLEAN]
        BY <1>0, <3>1, <4>1, FreeFacts
      <4>. QED  BY <3>1, <4>1, <4>2 DEF TypeOK
    <3>2. CASE UNCHANGED <<play_id, play_consumer, consumer_queue, consumerVars>>
      BY <3>2 DEF IInv, TypeOK, consumerVars
    <3>. QED  BY <1>1, <3>1, <3>2
  <2>. QED  BY <1>0, <2>1, <2>2 DEF IInv, TypeOK, sourceVars
<1>4. MapInv'
  BY <1>0 DEF IInv, MapInv, sourceVars
<1>5. PubInv'
  BY <1>0 DEF IInv, PubInv, sourceVars
<1>6. /\ \A d \in Client : play_consumer'[d] \in {play_consumer[d], None}
      /\ \A d \in Client : d # c => play_id'[d] = play_id[d]
      /\ play_consumer'[c] # None => play_id'[c] = play_id[c]
      /\ play_id'[c] => play_id[c]
  BY <1>0, <1>1, FreeFacts DEF IInv, TypeOK
<1>7. /\ Collecting \subseteq Collecting'
      /\ \A d \in Client : d # c => publish_id'[d] = publish_id[d]
      /\ publish_source[c] # None => publish_id'[c] = publish_id[c] \/ c \in Collecting'
      /\ publish_id'[c] => publish_id[c]
  BY <1>0, <1>2, BeginFrames DEF IInv, TypeOK
<1>8. SessionInv'
  BY <1>0, <1>6, <1>7 DEF IInv, TypeOK, SessionInv
<1>9. FrameInv'
  <2>1. CASE BeginCollect(c, "unpublish")
    BY <1>0, <1>6, <2>1, BeginFrameInv DEF IInv
  <2>2. CASE UNCHANGED collecting
    BY <1>0, <2>2 DEF FrameInv
  <2>. QED  BY <1>2, <2>1, <2>2
<1>10. ConsumerInv' /\ QueueInv'
  <2>1. CASE FreePlayConsumer(c)
    BY <1>0, <2>1, FreedConsumer
  <2>2. CASE UNCHANGED <<play_id, play_consumer, consumer_queue, consumerVars>>
    BY <1>0, <2>2 DEF IInv, ConsumerInv, QueueInv, sourceVars, consumerVars
  <2>. QED  BY <1>1, <2>1, <2>2
<1>. QED  BY <1>3, <1>4, <1>5, <1>8, <1>9, <1>10 DEF IInv

\* Deleting the protocol frees the consumer; a client without a source goes at once.
LEMMA CloseCallbackStep ==
  ASSUME IInv, AnswerInHandler, NEW c \in Client, CloseCallback(c)
  PROVE  IInv'
<1>0. /\ collecting = <<>> /\ Collecting = {}
      /\ \A d \in Client : pub_asked[d] = 0 /\ play_asked[d] = 0
      /\ conn[c] = "closing"
      /\ publish_source' = publish_source
      /\ sourceVars' = sourceVars
      /\ FreePlayConsumer(c)
      /\ BeginCollect(c, "destroy")
      /\ TypeOK
  BY DEF CloseCallback, Quiet, Collecting, IInv
<1>1. /\ play_consumer' = [play_consumer EXCEPT ![c] = None]
      /\ consumer_queue' = [s \in Source |-> consumer_queue[s] \ {play_consumer[c]}]
      /\ owner' \in [Consumer -> Client \cup {None}]
      /\ plays' \in [Consumer -> Name \cup {None}]
      /\ is_alive' \in [Consumer -> BOOLEAN]
      /\ ended' \in [Consumer -> BOOLEAN]
  BY <1>0, FreeFacts
<1>2. CASE publish_source[c] = None
  <2>0. DeleteClient(c) /\ collecting' = <<>>
    BY <1>0, <1>2, BeginFacts DEF CloseCallback
  <2>1. TypeOK'
    BY <1>0, <1>1, <2>0 DEF TypeOK, DeleteClient, sourceVars
  <2>2. MapInv'
    BY <1>0 DEF IInv, MapInv, sourceVars
  <2>3. PubInv'
    BY <1>0, <1>2, <2>0 DEF IInv, TypeOK, PubInv, DeleteClient, sourceVars
  <2>4. SessionInv'
    BY <1>0, <1>1, <1>2, <2>0 DEF IInv, TypeOK, SessionInv, DeleteClient
  <2>5. FrameInv'
    BY <2>0 DEF FrameInv
  <2>6. ConsumerInv' /\ QueueInv'
    <3>1. \A d \in Client : d # c => conn'[d] = conn[d]
      BY <1>0, <2>0 DEF DeleteClient, TypeOK
    <3>. QED  BY <1>0, <3>1, FreedConsumer
  <2>. QED  BY <2>1, <2>2, <2>3, <2>4, <2>5, <2>6 DEF IInv
<1>3. CASE publish_source[c] # None
  <2>0. /\ connect_state' = [connect_state EXCEPT ![c] = "CLOSE"]
        /\ UNCHANGED <<conn, publish_id, play_id, pub_asked, play_asked>>
        /\ Collecting' = {c}
    BY <1>0, <1>3, BeginFrames DEF CloseCallback
  <2>1. TypeOK'
    <3>1. collecting' \in Seq(Frame)
      BY <1>0, BeginFacts
    <3>. QED  BY <1>0, <1>1, <2>0, <3>1 DEF TypeOK, sourceVars
  <2>2. MapInv'
    BY <1>0 DEF IInv, MapInv, sourceVars
  <2>3. PubInv'
    BY <1>0, <2>0 DEF IInv, PubInv, sourceVars
  <2>4. SessionInv'
    BY <1>0, <1>1, <2>0 DEF IInv, TypeOK, SessionInv
  <2>5. FrameInv'
    <3>1. \A d \in Client : play_consumer[d] = None => play_consumer'[d] = None
      BY <1>0, <1>1 DEF TypeOK
    <3>2. play_consumer'[c] = None
      BY <1>0, <1>1 DEF TypeOK
    <3>. QED  BY <1>0, <2>0, <3>1, <3>2, BeginFrameInv DEF IInv
  <2>6. ConsumerInv' /\ QueueInv'
    BY <1>0, <2>0, FreedConsumer
  <2>. QED  BY <2>1, <2>2, <2>3, <2>4, <2>5, <2>6 DEF IInv
<1>. QED  BY <1>2, <1>3

-----------------------------------------------------------------------------
(* The end of a collection. *)

\* The frames after a return: the old ones but the innermost, which was the only
\* one of its client.
LEMMA PopFrames ==
  ASSUME TypeOK, FrameInv, collecting # <<>>, collecting' = Tail(collecting)
  PROVE  /\ collecting' \in Seq(Frame)
         /\ 1 \in 1..Len(collecting)
         /\ \A i \in 1..Len(collecting') :
              /\ i + 1 \in 1..Len(collecting)
              /\ collecting'[i] = collecting[i + 1]
              /\ collecting'[i].client # collecting[1].client
         /\ \A i \in 1..Len(collecting) :
              i # 1 => i - 1 \in 1..Len(collecting') /\ collecting'[i - 1] = collecting[i]
<1>0. collecting \in Seq(Frame)
  BY DEF TypeOK
<1>1. /\ collecting' \in Seq(Frame)
      /\ Len(collecting) \in Nat \ {0}
      /\ Len(collecting') = Len(collecting) - 1
      /\ \A i \in 1..Len(collecting') : collecting'[i] = collecting[i + 1]
  BY <1>0, Pop
<1>2. 1 \in 1..Len(collecting)
  BY <1>1
<1>3. ASSUME NEW i \in 1..Len(collecting')
      PROVE  /\ i + 1 \in 1..Len(collecting)
             /\ collecting'[i] = collecting[i + 1]
             /\ collecting'[i].client # collecting[1].client
  <2>1. i + 1 \in 1..Len(collecting) /\ collecting'[i] = collecting[i + 1]
    BY <1>1, <1>3
  <2>. QED  BY <1>2, <2>1 DEF FrameInv
<1>4. ASSUME NEW i \in 1..Len(collecting), i # 1
      PROVE  i - 1 \in 1..Len(collecting') /\ collecting'[i - 1] = collecting[i]
  BY <1>1, <1>4
<1>. QED  BY <1>1, <1>2, <1>3, <1>4

\* The consumer that is told stays in its queue, whose source is on the stack.
LEMMA NotifyStopStep ==
  ASSUME IInv, NEW k \in Consumer, NotifyStop(k)
  PROVE  IInv'
<1> USE DEF IInv, NotifyStop, sessionVars, sourceVars
<1>1. TypeOK'
  BY DEF TypeOK
<1>2. MapInv' /\ PubInv' /\ SessionInv' /\ FrameInv' /\ ConsumerInv'
  BY DEF MapInv, PubInv, SessionInv, Collecting, FrameInv, ConsumerInv
<1>3. QueueInv'
  <2>1. 1 \in 1..Len(collecting) /\ collecting[1].source \in Source
    <3>1. collecting \in Seq(Frame) /\ collecting # <<>>
      BY DEF TypeOK
    <3>2. 1 \in 1..Len(collecting) /\ collecting[1] \in Frame
      BY <3>1, Pop
    <3>. QED  BY <3>2 DEF Frame
  <2>2. \A s \in Source : k \in consumer_queue[s] => s = collecting[1].source
    BY <2>1 DEF QueueInv, MapInv
  <2>3. \A j \in Consumer : is_alive'[j] => is_alive[j]
    BY DEF TypeOK
  <2>4. \A j \in Consumer : j # k => is_alive'[j] = is_alive[j]
    BY DEF TypeOK
  <2>. QED  BY <2>1, <2>2, <2>3, <2>4 DEF TypeOK, QueueInv
<1>. QED  BY <1>1, <1>2, <1>3

\* The source collected was held by the client of the innermost frame alone, and
\* every consumer in its queue has been told.
LEMMA CollectedStep ==
  ASSUME IInv, Collected
  PROVE  IInv'
<1> DEFINE c == collecting[1].client
           s == collecting[1].source
<1>0. /\ \A k \in consumer_queue[s] : ~is_alive[k]
      /\ consumer_queue' = [consumer_queue EXCEPT ![s] = {}]
      /\ g_source_map' = [g_source_map EXCEPT ![stream_name[s]] = None]
      /\ g_source_pool' = g_source_pool \cup {s}
      /\ publish_source' = [publish_source EXCEPT ![c] = None]
      /\ collecting # <<>>
      /\ collecting' = Tail(collecting)
      /\ UNCHANGED <<play_consumer, stream_name, owner, plays, is_alive, ended>>
      /\ TypeOK /\ FrameInv
  BY DEF Collected, AllTold, ReturnSource, ForgetSource, consumerVars, IInv
<1>1. \/ collecting[1].then = "destroy" /\ DeleteClient(c)
      \/ UNCHANGED <<conn, connect_state, publish_id, play_id, pub_asked, play_asked>>
  BY DEF Collected, AllTold, ReturnSource, ForgetSource, sessionVars
<1>2. 1 \in 1..Len(collecting) /\ collecting' \in Seq(Frame)
  BY <1>0, PopFrames
<1>3. /\ c \in Client /\ s \in Source /\ s # None
      /\ publish_source[c] = s
      /\ collecting[1].then = "destroy" =>
           conn[c] = "closing" /\ play_consumer[c] = None
  BY <1>0, <1>2, FramesTyped, NoneAssumption DEF FrameInv
<1>4. /\ s \notin g_source_pool
      /\ stream_name[s] \in Name
      /\ g_source_map[stream_name[s]] = s
  BY <1>3 DEF IInv, PubInv, MapInv
<1>5. /\ \A i \in 1..Len(collecting') :
           /\ collecting'[i].client \in Client \ {c}
           /\ collecting'[i].source \in Source
           /\ collecting'[i].source = publish_source[collecting'[i].client]
           /\ collecting'[i].then = "destroy" =>
                /\ conn[collecting'[i].client] = "closing"
                /\ play_consumer[collecting'[i].client] = None
      /\ \A i, j \in 1..Len(collecting') :
           collecting'[i].client = collecting'[j].client => i = j
  <2>1. ASSUME NEW i \in 1..Len(collecting')
        PROVE  /\ collecting'[i].client \in Client \ {c}
               /\ collecting'[i].source \in Source
               /\ collecting'[i].source = publish_source[collecting'[i].client]
               /\ collecting'[i].then = "destroy" =>
                    /\ conn[collecting'[i].client] = "closing"
                    /\ play_consumer[collecting'[i].client] = None
    <3>1. /\ i + 1 \in 1..Len(collecting)
          /\ collecting'[i] = collecting[i + 1]
          /\ collecting'[i].client # c
      BY <1>0, PopFrames
    <3>. QED  BY <1>0, <3>1, FramesTyped DEF FrameInv
  <2>2. ASSUME NEW i \in 1..Len(collecting'), NEW j \in 1..Len(collecting'),
               collecting'[i].client = collecting'[j].client
        PROVE  i = j
    <3>1. /\ i + 1 \in 1..Len(collecting) /\ collecting'[i] = collecting[i + 1]
          /\ j + 1 \in 1..Len(collecting) /\ collecting'[j] = collecting[j + 1]
      BY <1>0, PopFrames
    <3>2. i + 1 = j + 1
      BY <1>0, <2>2, <3>1 DEF FrameInv
    <3>. QED  BY <3>2
  <2>. QED  BY <2>1, <2>2
<1>6. /\ \A d \in Client : d # c => (d \in Collecting <=> d \in Collecting')
      /\ \A t \in Source : t # s /\ (\E i \in 1..Len(collecting) : collecting[i].source = t)
           => \E i \in 1..Len(collecting') : collecting'[i].source = t
  <2>1. \A i \in 1..Len(collecting) :
          i # 1 => i - 1 \in 1..Len(collecting') /\ collecting'[i - 1] = collecting[i]
    BY <1>0, PopFrames
  <2>2. \A i \in 1..Len(collecting') :
          i + 1 \in 1..Len(collecting) /\ collecting'[i] = collecting[i + 1]
    BY <1>0, PopFrames
  <2>3. ASSUME NEW d \in Client, d # c
        PROVE  d \in Collecting <=> d \in Collecting'
    BY <2>1, <2>2, <2>3 DEF Collecting
  <2>4. ASSUME NEW t \in Source, t # s, NEW i \in 1..Len(collecting),
               collecting[i].source = t
        PROVE  \E j \in 1..Len(collecting') : collecting'[j].source = t
    BY <2>1, <2>4
  <2>. QED  BY <2>3, <2>4
<1> HIDE DEF c, s
<1>7. TypeOK'
  <2>1. /\ consumer_queue' \in [Source -> SUBSET Consumer]
        /\ g_source_map' \in [Name -> Source \cup {None}]
        /\ g_source_pool' \in SUBSET Source
        /\ publish_source' \in [Client -> Source \cup {None}]
    BY <1>0, <1>3, <1>4 DEF TypeOK
  <2>2. /\ conn' \in [Client -> {"gone", "open", "closing"}]
        /\ connect_state' \in [Client -> {"WAIT_ACCEPT", "ACCEPT", "CLOSE"}]
        /\ publish_id' \in [Client -> BOOLEAN]
        /\ play_id' \in [Client -> BOOLEAN]
        /\ pub_asked' \in [Client -> 0..MaxAsked]
        /\ play_asked' \in [Client -> 0..MaxAsked]
    <3>1. 0 \in 0..MaxAsked
      BY MaxAskedAssumption
    <3>2. CASE DeleteClient(c)
      BY <1>0, <3>1, <3>2 DEF TypeOK, DeleteClient
    <3>3. CASE UNCHANGED <<conn, connect_state, publish_id, play_id, pub_asked, play_asked>>
      BY <1>0, <3>3 DEF TypeOK
    <3>. QED  BY <1>1, <3>2, <3>3
  <2>. QED  BY <1>0, <1>2, <2>1, <2>2 DEF TypeOK
<1>8. MapInv'
  BY <1>0, <1>3, <1>4 DEF IInv, TypeOK, MapInv
<1>9. PubInv'
  BY <1>0, <1>1, <1>3, <1>4 DEF IInv, TypeOK, PubInv, DeleteClient
<1>10. SessionInv'
  <2>1. \A d \in Client :
          /\ publish_source'[d] = IF d = c THEN None ELSE publish_source[d]
          /\ play_consumer'[d] = play_consumer[d]
    BY <1>0 DEF TypeOK
  <2>2. CASE collecting[1].then = "destroy" /\ DeleteClient(c)
    <3>1. play_consumer[c] = None
      BY <1>3, <2>2
    <3>. QED  BY <1>6, <2>1, <2>2, <3>1, <1>0 DEF IInv, TypeOK, SessionInv, DeleteClient
  <2>3. CASE UNCHANGED <<conn, connect_state, publish_id, play_id, pub_asked, play_asked>>
    BY <1>3, <1>6, <2>1, <2>3 DEF IInv, SessionInv
  <2>. QED  BY <1>1, <2>2, <2>3
<1>11. FrameInv'
  BY <1>0, <1>1, <1>3, <1>5 DEF TypeOK, FrameInv, DeleteClient
<1>12. ConsumerInv'
  BY <1>0, <1>1, <1>3 DEF IInv, TypeOK, ConsumerInv, DeleteClient
<1>13. QueueInv'
  <2>1. ASSUME NEW t \in Source, NEW k \in consumer_queue'[t]
        PROVE  /\ owner'[k] # None
               /\ plays'[k] = stream_name'[t]
               /\ t \notin g_source_pool'
               /\ is_alive'[k] \/ \E i \in 1..Len(collecting') : collecting'[i].source = t
    <3>1. t # s /\ k \in consumer_queue[t]
      BY <1>0, <1>3, <2>1 DEF TypeOK
    <3>2. /\ owner[k] # None
          /\ plays[k] = stream_name[t]
          /\ t \notin g_source_pool
          /\ is_alive[k] \/ \E i \in 1..Len(collecting) : collecting[i].source = t
      BY <3>1 DEF IInv, QueueInv
    <3>3. is_alive[k] \/ \E i \in 1..Len(collecting') : collecting'[i].source = t
      BY <1>6, <3>1, <3>2
    <3>. QED  BY <1>0, <3>1, <3>2, <3>3
  <2>2. ASSUME NEW k \in Consumer, is_alive'[k]
        PROVE  owner'[k] # None /\ \E t \in Source : k \in consumer_queue'[t]
    <3>1. owner[k] # None /\ is_alive[k]
      BY <1>0, <2>2 DEF IInv, QueueInv
    <3>2. PICK t \in Source : k \in consumer_queue[t]
      BY <3>1 DEF IInv, QueueInv
    <3>. QED  BY <1>0, <1>3, <3>1, <3>2 DEF TypeOK
  <2>. QED  BY <2>1, <2>2 DEF QueueInv
<1>. QED  BY <1>7, <1>8, <1>9, <1>10, <1>11, <1>12, <1>13 DEF IInv

-----------------------------------------------------------------------------
(* Every step keeps the invariant. *)

\* The events of the loop keep the invariant.
LEMMA LoopStep ==
  ASSUME IInv, AnswerInHandler, NEW c \in Client, Loop(c)
  PROVE  IInv'
<1>1. CASE Connect(c) \/ PeerLeaves(c) \/ CmdPublish(c) \/ CmdPlay(c)
  BY <1>1, ConnectStep, PeerLeavesStep, CmdPublishStep, CmdPlayStep
<1>2. CASE CloseCallback(c)
  BY <1>2, CloseCallbackStep
<1>3. CASE \E which \in SUBSET {"play", "publish"} : DeleteStream(c, which)
  BY <1>3, DeleteStreamStep
<1>. QED  BY <1>1, <1>2, <1>3 DEF Loop

\* The calls of the application keep the invariant.
LEMMA ApplicationStep ==
  ASSUME IInv, NEW c \in Client, Application(c)
  PROVE  IInv'
<1>1. CASE \E allow \in BOOLEAN : Accept(c, allow)
  BY <1>1, AcceptStep
<1>2. CASE JsClose(c) \/ Unpublish(c)
  BY <1>2, JsCloseStep, UnpublishStep
<1>3. CASE PublishDropped(c) \/ PlayDropped(c)
  BY <1>3, PublishDroppedStep, PlayDroppedStep
<1>4. CASE \E n \in Name : PublishRefused(c, n)
  BY <1>4, PublishRefusedStep
<1>5. CASE \E n \in Name, s \in Source : PublishStarted(c, n, s)
  BY <1>5, PublishStartedStep
<1>6. CASE \E n \in Name, k \in Consumer : PlayStarted(c, n, k)
  BY <1>6, PlayStartedStep
<1>. QED  BY <1>1, <1>2, <1>3, <1>4, <1>5, <1>6 DEF Application, Answer

\* Every step and every stutter keeps the invariant.
LEMMA IInvStep ==
  ASSUME IInv, AnswerInHandler, [Next]_vars
  PROVE  IInv'
<1>1. CASE Collect
  BY <1>1, CollectedStep, NotifyStopStep DEF Collect
<1>2. CASE \E c \in Client : Loop(c) \/ Application(c)
  BY <1>2, LoopStep, ApplicationStep
<1>3. CASE UNCHANGED vars
  BY <1>3
  DEF IInv, TypeOK, MapInv, PubInv, SessionInv, FrameInv, ConsumerInv, QueueInv,
      Collecting, vars, sessionVars, sourceVars, consumerVars
<1>. QED  BY <1>1, <1>2, <1>3 DEF Next

-----------------------------------------------------------------------------
(* The theorems. *)

\* The inductive invariant holds throughout.
THEOREM Invariant ==
  ASSUME AnswerInHandler
  PROVE  Spec => []IInv
<1>1. Init => IInv
  BY InitIInv
<1>2. IInv /\ [Next]_vars => IInv'
  BY IInvStep
<1>. QED  BY <1>1, <1>2, PTL DEF Spec

\* Type correctness: in particular no counter of unanswered events runs below zero
\* or past its bound, and every name given up was a name.
THEOREM TypeCorrect ==
  ASSUME AnswerInHandler
  PROVE  Spec => []TypeOK
<1>1. IInv => TypeOK
  BY DEF IInv
<1>. QED  BY <1>1, Invariant, PTL

\* However clients connect, publish, unpublish, close and are deleted, and however
\* collections nest, no source is lost, returned twice or shared.
THEOREM SourcesAlwaysAccounted ==
  ASSUME AnswerInHandler
  PROVE  Spec => []SourcesAccounted
<1>1. IInv => SourcesAccounted
  <2> SUFFICES ASSUME IInv, NEW s \in Source
               PROVE  \/ /\ s \in g_source_pool
                         /\ consumer_queue[s] = {}
                         /\ \A n \in Name : g_source_map[n] # s
                         /\ \A c \in Client : publish_source[c] # s
                      \/ /\ s \notin g_source_pool
                         /\ \A n \in Name : g_source_map[n] = s <=> n = stream_name[s]
                         /\ \E c \in Client :
                              /\ conn[c] # "gone"
                              /\ \A d \in Client : publish_source[d] = s <=> d = c
    BY DEF SourcesAccounted
  <2>0. s # None
    BY NoneAssumption
  <2>1. CASE s \in g_source_pool
    BY <2>0, <2>1 DEF IInv, TypeOK, MapInv, PubInv, QueueInv
  <2>2. CASE s \notin g_source_pool
    <3>1. PICK c \in Client : publish_source[c] = s
      BY <2>2 DEF IInv, PubInv
    <3>2. conn[c] # "gone" /\ \A d \in Client : publish_source[d] = s <=> d = c
      BY <2>0, <3>1 DEF IInv, PubInv
    <3>3. \A n \in Name : g_source_map[n] = s <=> n = stream_name[s]
      BY <2>0, <2>2 DEF IInv, MapInv
    <3>. QED  BY <2>2, <3>2, <3>3
  <2>. QED  BY <2>1, <2>2
<1>. QED  BY <1>1, Invariant, PTL

\* Forwarding never meets a consumer of a deleted client, of another stream, or of
\* a closed client that is not at CONSUMER_END.
THEOREM PlayersAlwaysReachable ==
  ASSUME AnswerInHandler
  PROVE  Spec => []PlayersReachable
<1>1. IInv => PlayersReachable
  <2> SUFFICES ASSUME IInv, NEW s \in Source, NEW k \in consumer_queue[s]
               PROVE  /\ owner[k] \in Client
                      /\ conn[owner[k]] # "gone"
                      /\ play_consumer[owner[k]] = k
                      /\ plays[k] = stream_name[s]
                      /\ conn[owner[k]] = "closing" => ended[k]
    BY DEF PlayersReachable
  <2>1. k \in Consumer /\ k # None
    BY NoneAssumption DEF IInv, TypeOK
  <2>2. owner[k] \in Client /\ plays[k] = stream_name[s]
    BY <2>1 DEF IInv, TypeOK, QueueInv
  <2>3. play_consumer[owner[k]] = k
    BY <2>1, <2>2, NoneAssumption DEF IInv, ConsumerInv
  <2>. QED  BY <2>1, <2>2, <2>3 DEF IInv, ConsumerInv
<1>. QED  BY <1>1, Invariant, PTL

\* A name is given up only after every consumer that plays it has been told.
THEOREM NamesReleasedLast ==
  ASSUME AnswerInHandler
  PROVE  Spec => NobodyLeftWaiting
<1>1. ASSUME IInv, [Next]_vars
      PROVE  [NameReleased]_vars
  <2> SUFFICES ASSUME NEW n \in Name, g_source_map[n] \notin {None, g_source_map'[n]}
               PROVE  /\ g_source_map'[n] = None
                      /\ \A k \in Consumer : plays[k] = n => ~is_alive[k]
    BY DEF NameReleased
  <2>1. CASE Collected
    <3> DEFINE s == collecting[1].source
    <3>1. /\ \A k \in consumer_queue[s] : ~is_alive[k]
          /\ g_source_map' = [g_source_map EXCEPT ![stream_name[s]] = None]
      BY <2>1 DEF Collected, AllTold, ReturnSource, ForgetSource
    <3>2. s \in Source /\ s \notin g_source_pool
      <4>1. collecting \in Seq(Frame) /\ collecting # <<>>
        BY <1>1, <2>1 DEF IInv, TypeOK, Collected, AllTold, ReturnSource, ForgetSource
      <4>2. 1 \in 1..Len(collecting)
        BY <4>1, Pop
      <4>3. collecting[1].client \in Client /\ s \in Source
        BY <1>1, <4>2, FramesTyped DEF IInv
      <4>4. publish_source[collecting[1].client] = s
        BY <1>1, <4>2 DEF IInv, FrameInv
      <4>. QED  BY <1>1, <4>3, <4>4, NoneAssumption DEF IInv, PubInv
    <3> HIDE DEF s
    <3>3. n = stream_name[s] /\ g_source_map'[n] = None
      BY <1>1, <3>1 DEF IInv, TypeOK
    <3>4. ASSUME NEW k \in Consumer, plays[k] = n, is_alive[k]
          PROVE  FALSE
      <4>1. PICK t \in Source : k \in consumer_queue[t]
        BY <1>1, <3>4 DEF IInv, QueueInv
      <4>2. plays[k] = stream_name[t] /\ t \notin g_source_pool
        BY <1>1, <4>1 DEF IInv, QueueInv
      <4>3. t = s
        <5>1. g_source_map[stream_name[t]] = t
          BY <1>1, <4>1, <4>2 DEF IInv, MapInv
        <5>2. s \in Source /\ g_source_map[stream_name[s]] = s
          BY <1>1, <3>2 DEF IInv, MapInv
        <5>. QED  BY <3>3, <3>4, <4>2, <5>1, <5>2
      <4>. QED  BY <3>1, <3>4, <4>1, <4>3
    <3>. QED  BY <3>3, <3>4
  <2>2. CASE \E c \in Client, m \in Name, s \in Source : PublishStarted(c, m, s)
    BY <1>1, <2>2 DEF IInv, TypeOK, PublishStarted, NameFree
  <2>3. CASE UNCHANGED g_source_map
    BY <2>3
  <2>4. Collected \/ (\E c \in Client, m \in Name, s \in Source : PublishStarted(c, m, s))
          \/ UNCHANGED g_source_map
    BY <1>1
    DEF Next, Collect, Loop, Application, Answer, NotifyStop, Connect, PeerLeaves,
        CmdPublish, CmdPlay, CloseCallback, DeleteStream, Accept, JsClose, Unpublish,
        PublishDropped, PublishRefused, PlayDropped, PlayStarted, vars, sourceVars
  <2>. QED  BY <2>1, <2>2, <2>3, <2>4
<1>. QED  BY <1>1, Invariant, PTL DEF Spec, NobodyLeftWaiting

\* A source for each client is enough, however long the clients come and go: a client
\* that may publish holds no source, so each source that is not in the pool is held by
\* one of the others, and these are fewer than the sources.  With the constants of the
\* code, DEFAULT_MAX_CLIENT below DEFAULT_SOURCE_POOL_SIZE, apply_source does not abort.
THEOREM PoolAlwaysSuffices ==
  ASSUME AnswerInHandler, IsFiniteSet(Client), IsFiniteSet(Source),
         Cardinality(Client) <= Cardinality(Source)
  PROVE  Spec => []PoolSuffices
<1>1. IInv => PoolSuffices
  <2> SUFFICES ASSUME IInv, NEW c \in Client, MayPublish(c), g_source_pool = {}
               PROVE  FALSE
    BY DEF PoolSuffices
  <2> DEFINE Others == Client \ {c}
             holder == [s \in Source |-> CHOOSE d \in Client : publish_source[d] = s]
  <2>1. publish_source[c] = None
    BY DEF IInv, TypeOK, SessionInv, MayPublish
  <2>2. \A s \in Source : holder[s] \in Client /\ publish_source[holder[s]] = s
    BY DEF IInv, PubInv
  <2>3. \A s \in Source : s # None
    BY NoneAssumption
  <2>4. holder \in [Source -> Others]
    BY <2>1, <2>2, <2>3
  <2>5. IsFiniteSet(Others) /\ Cardinality(Others) < Cardinality(Source)
    <3>1. Cardinality(Client) \in Nat /\ Cardinality(Source) \in Nat
      BY FS_CardinalityType
    <3>2. IsFiniteSet(Others) /\ Cardinality(Others) = Cardinality(Client) - 1
      BY FS_RemoveElement
    <3>. QED  BY <3>1, <3>2
  <2> HIDE DEF Others, holder
  <2>6. PICK s, t \in Source : s # t /\ holder[s] = holder[t]
    BY <2>4, <2>5, FS_PigeonHole
  <2>. QED  BY <2>2, <2>6
<1>. QED  BY <1>1, Invariant, PTL

-----------------------------------------------------------------------------
(* StreamHub implements PubSub, for any number of clients, names, sources and
   consumers, if the application answers in its handlers. *)

\* The state of PubSub, name by name, with two names never on one source.
LEMMA Mapped ==
  ASSUME IInv
  PROVE  /\ \A n \in Name : g_source_map[n] # None =>
              /\ g_source_map[n] \in Source /\ g_source_map[n] \notin g_source_pool
              /\ stream_name[g_source_map[n]] = n
              /\ consumer_queue[g_source_map[n]] \subseteq Consumer
         /\ \A m, n \in Name :
              g_source_map[n] # None /\ g_source_map[m] = g_source_map[n] => m = n
BY DEF IInv, TypeOK, MapInv

\* The publisher of a mapped name is the client that holds the source.
LEMMA PublisherHolds ==
  ASSUME IInv, NEW n \in Name, g_source_map[n] # None
  PROVE  PublisherOf(n) \in Client /\ publish_source[PublisherOf(n)] = g_source_map[n]
<1>1. \E c \in Client : publish_source[c] = g_source_map[n]
  BY Mapped DEF IInv, PubInv
<1> QED
  BY <1>1 DEF PublisherOf

\* The same after the step.
LEMMA PublisherHoldsNext ==
  ASSUME IInv', NEW n \in Name, g_source_map'[n] # None
  PROVE  PublisherOf(n)' \in Client /\ publish_source'[PublisherOf(n)'] = g_source_map'[n]
<1>1. g_source_map'[n] \in Source /\ g_source_map'[n] \notin g_source_pool'
  BY DEF IInv, TypeOK, MapInv
<1>2. \E c \in Client : publish_source'[c] = g_source_map'[n]
  BY <1>1 DEF IInv, PubInv
<1> QED
  BY <1>2 DEF PublisherOf

\* A step that keeps the map, the sources of the clients and the audience is none.
LEMMA Untouched ==
  ASSUME UNCHANGED <<g_source_map, publish_source, consumer_queue, owner, is_alive>>
  PROVE  UNCHANGED Streams!vars
BY DEF Streams!vars, PublisherOf, AudienceOf, ToldOf

\* publish_stream is the start of a stream: the client has no other source.
LEMMA StartMaps ==
  ASSUME IInv, IInv', NEW c \in Client, NEW n \in Name, NEW s \in Source,
         PublishStarted(c, n, s)
  PROVE  Streams!Start(c, n)
<1>1. /\ g_source_map[n] = None /\ s # None /\ s \in g_source_pool
      /\ g_source_map' = [g_source_map EXCEPT ![n] = s]
      /\ publish_source' = [publish_source EXCEPT ![c] = s]
      /\ UNCHANGED <<consumer_queue, owner, is_alive>>
  BY NoneAssumption DEF PublishStarted, NameFree, consumerVars
<1>2. publish_source[c] = None /\ c # None
  BY NoneAssumption DEF IInv, TypeOK, SessionInv, PublishStarted, MayPublish
<1>3. consumer_queue[s] = {}
  BY <1>1 DEF IInv, TypeOK, QueueInv
<1>4. \A m \in Name : g_source_map'[m] = IF m = n THEN s ELSE g_source_map[m]
  BY <1>1 DEF IInv, TypeOK
<1>5. \A m \in Name : PublisherOf(m) # c
  <2> SUFFICES ASSUME NEW m \in Name PROVE PublisherOf(m) # c
    OBVIOUS
  <2>1. CASE g_source_map[m] = None
    BY <1>2, <2>1 DEF PublisherOf
  <2>2. CASE g_source_map[m] # None
    BY <1>2, <2>2, PublisherHolds
  <2> QED
    BY <2>1, <2>2
<1>6. PublisherOf(n) = None
  BY <1>1 DEF PublisherOf
<1>7. ASSUME NEW m \in Name
      PROVE  PublisherOf(m)' = IF m = n THEN c ELSE PublisherOf(m)
  <2>1. CASE m = n
    <3>1. g_source_map'[n] = s /\ publish_source'[c] = s
      BY <1>1, <1>4 DEF IInv, TypeOK
    <3>2. PublisherOf(n)' \in Client /\ publish_source'[PublisherOf(n)'] = s
      BY <1>1, <3>1, PublisherHoldsNext
    <3>3. PublisherOf(n)' = c
      BY <1>1, <3>1, <3>2 DEF IInv, PubInv
    <3> QED
      BY <2>1, <3>3
  <2>2. CASE m # n /\ g_source_map[m] = None
    BY <1>4, <2>2 DEF PublisherOf
  <2>3. CASE m # n /\ g_source_map[m] # None
    <3>1. g_source_map'[m] = g_source_map[m]
      BY <1>4, <2>3
    <3>2. PublisherOf(m) \in Client /\ publish_source[PublisherOf(m)] = g_source_map[m]
      BY <2>3, PublisherHolds
    <3>3. PublisherOf(m)' \in Client /\ publish_source'[PublisherOf(m)'] = g_source_map[m]
      BY <2>3, <3>1, PublisherHoldsNext
    <3>4. g_source_map[m] # s
      BY <1>1, <2>3, Mapped
    <3>5. publish_source[PublisherOf(m)'] = g_source_map[m]
      BY <1>1, <3>3, <3>4 DEF IInv, TypeOK
    <3>6. PublisherOf(m)' = PublisherOf(m)
      BY <2>3, <3>2, <3>3, <3>5 DEF IInv, PubInv
    <3> QED
      BY <2>3, <3>6
  <2> QED
    BY <2>1, <2>2, <2>3
<1>8. ASSUME NEW m \in Name
      PROVE  AudienceOf(m)' = AudienceOf(m) /\ ToldOf(m)' = ToldOf(m)
  <2>1. CASE m = n
    BY <1>1, <1>3, <1>4, <2>1 DEF AudienceOf, ToldOf
  <2>2. CASE m # n
    BY <1>1, <1>4, <2>2 DEF AudienceOf, ToldOf
  <2> QED
    BY <2>1, <2>2
<1> QED
  BY <1>5, <1>6, <1>7, <1>8 DEF Streams!Start

\* Nobody sits in the audience twice, and a consumer in a queue is its owner's own.
LEMMA Seats ==
  ASSUME IInv
  PROVE  \A s \in Source : \A k \in consumer_queue[s] :
           /\ k \in Consumer /\ k # None /\ owner[k] \in Client
           /\ play_consumer[owner[k]] = k
           /\ s \notin g_source_pool /\ plays[k] = stream_name[s]
<1> SUFFICES ASSUME NEW s \in Source, NEW k \in consumer_queue[s]
             PROVE  /\ k \in Consumer /\ k # None /\ owner[k] \in Client
                    /\ play_consumer[owner[k]] = k
                    /\ s \notin g_source_pool /\ plays[k] = stream_name[s]
  OBVIOUS
<1>1. k \in Consumer /\ k # None
  BY NoneAssumption DEF IInv, TypeOK
<1>2. owner[k] \in Client /\ plays[k] = stream_name[s] /\ s \notin g_source_pool
  BY <1>1 DEF IInv, TypeOK, QueueInv
<1> QED
  BY <1>1, <1>2, NoneAssumption DEF IInv, ConsumerInv

\* The publishers stay when the map and the sources of the clients do.
LEMMA SamePublishers ==
  ASSUME UNCHANGED <<g_source_map, publish_source>>
  PROVE  \A n \in Name : PublisherOf(n)' = PublisherOf(n)
BY DEF PublisherOf

\* play_stream is joining: the client sits in no audience, its consumer is new.
LEMMA JoinMaps ==
  ASSUME IInv, NEW c \in Client, NEW n \in Name, NEW k \in Consumer,
         PlayStarted(c, n, k)
  PROVE  Streams!Join(c, n)
<1> DEFINE s == g_source_map[n]
<1>1. /\ s # None /\ owner[k] = None
      /\ owner' = [owner EXCEPT ![k] = c]
      /\ is_alive' = [is_alive EXCEPT ![k] = TRUE]
      /\ consumer_queue' = [consumer_queue EXCEPT ![s] = @ \cup {k}]
      /\ UNCHANGED <<g_source_map, publish_source>>
  BY DEF PlayStarted, sourceVars
<1>2. play_consumer[c] = None
  BY DEF IInv, TypeOK, SessionInv, PlayStarted
<1>3. s \in Source
  BY <1>1, Mapped
<1>4. \A t \in Source : \A j \in consumer_queue[t] : j \in Consumer /\ j # k /\ owner[j] # c
  BY <1>1, <1>2, Seats, NoneAssumption
<1>5. \A m \in Name : c \notin AudienceOf(m)
  BY <1>4, Mapped DEF AudienceOf
<1>6. PublisherOf(n) # None
  BY <1>1, PublisherHolds, NoneAssumption
<1>7. \A m \in Name : PublisherOf(m)' = PublisherOf(m)
  BY <1>1, SamePublishers
<1> HIDE DEF s
<1>8. ASSUME NEW m \in Name
      PROVE  /\ AudienceOf(m)' = IF m = n THEN AudienceOf(n) \cup {c} ELSE AudienceOf(m)
             /\ ToldOf(m)' = ToldOf(m)
  <2>1. CASE g_source_map[m] = None
    BY <1>1, <2>1 DEF AudienceOf, ToldOf, s
  <2>2. CASE m # n /\ g_source_map[m] # None
    <3>1. g_source_map[m] # s /\ g_source_map[m] \in Source
      BY <1>1, <2>2, Mapped DEF s
    <3>2. consumer_queue'[g_source_map[m]] = consumer_queue[g_source_map[m]]
      BY <1>1, <3>1 DEF IInv, TypeOK
    <3>3. \A j \in consumer_queue[g_source_map[m]] :
            owner'[j] = owner[j] /\ is_alive'[j] = is_alive[j]
      BY <1>1, <1>4, <3>1 DEF IInv, TypeOK
    <3>4. /\ AudienceOf(m)' = {owner'[j] : j \in consumer_queue'[g_source_map[m]]}
          /\ ToldOf(m)' = {owner'[j] : j \in {i \in consumer_queue'[g_source_map[m]] :
                                             ~is_alive'[i]}}
      BY <1>1, <2>2 DEF AudienceOf, ToldOf
    <3>5. /\ AudienceOf(m) = {owner[j] : j \in consumer_queue[g_source_map[m]]}
          /\ ToldOf(m) = {owner[j] : j \in {i \in consumer_queue[g_source_map[m]] :
                                            ~is_alive[i]}}
      BY <2>2 DEF AudienceOf, ToldOf
    <3> QED
      BY <2>2, <3>2, <3>3, <3>4, <3>5
  <2>3. CASE m = n
    <3>1. consumer_queue'[s] = consumer_queue[s] \cup {k}
      BY <1>1, <1>3 DEF IInv, TypeOK
    <3>2. \A j \in consumer_queue[s] : owner'[j] = owner[j] /\ is_alive'[j] = is_alive[j]
      BY <1>1, <1>3, <1>4 DEF IInv, TypeOK
    <3>3. owner'[k] = c /\ is_alive'[k]
      BY <1>1 DEF IInv, TypeOK
    <3>4. g_source_map[m] = s /\ g_source_map'[m] = s
      BY <1>1, <2>3 DEF s
    <3>5. /\ AudienceOf(n) = {owner[j] : j \in consumer_queue[s]}
          /\ AudienceOf(n)' = {owner'[j] : j \in consumer_queue'[s]}
          /\ ToldOf(n) = {owner[j] : j \in {i \in consumer_queue[s] : ~is_alive[i]}}
          /\ ToldOf(n)' = {owner'[j] : j \in {i \in consumer_queue'[s] : ~is_alive'[i]}}
      BY <1>1, <2>3, <3>4 DEF AudienceOf, ToldOf
    <3>6. AudienceOf(n)' = AudienceOf(n) \cup {c}
      BY <3>1, <3>2, <3>3, <3>5
    <3>7. ToldOf(n)' = ToldOf(n)
      BY <3>1, <3>2, <3>3, <3>5
    <3> QED
      BY <2>3, <3>6, <3>7
  <2> QED
    BY <2>1, <2>2, <2>3
<1> QED
  BY <1>5, <1>6, <1>7, <1>8 DEF Streams!Join

\* Freeing the consumer of a client that plays is leaving; of any other, nothing.
LEMMA LeaveMaps ==
  ASSUME IInv, collecting = <<>>, NEW c \in Client, FreePlayConsumer(c),
         UNCHANGED <<g_source_map, publish_source>>
  PROVE  (\E n \in Name : Streams!Leave(c, n)) \/ UNCHANGED Streams!vars
<1> DEFINE k == play_consumer[c]
<1>1. /\ consumer_queue' = [s \in Source |-> consumer_queue[s] \ {k}]
      /\ \A j \in Consumer : j # k => owner'[j] = owner[j] /\ is_alive'[j] = is_alive[j]
  BY FreeFacts
<1>2. \A m \in Name : PublisherOf(m)' = PublisherOf(m)
  BY SamePublishers
<1> HIDE DEF k
<1>3. ASSUME NEW m \in Name, g_source_map[m] # None
      PROVE  /\ AudienceOf(m)' = {owner[j] : j \in consumer_queue[g_source_map[m]] \ {k}}
             /\ ToldOf(m)' = {owner[j] : j \in {i \in consumer_queue[g_source_map[m]] \ {k} :
                                                ~is_alive[i]}}
  <2>1. /\ g_source_map[m] \in Source
        /\ consumer_queue[g_source_map[m]] \subseteq Consumer
    BY <1>3, Mapped
  <2>2. consumer_queue'[g_source_map[m]] = consumer_queue[g_source_map[m]] \ {k}
    BY <1>1, <2>1
  <2>3. /\ AudienceOf(m)' = {owner'[j] : j \in consumer_queue'[g_source_map[m]]}
        /\ ToldOf(m)' = {owner'[j] : j \in {i \in consumer_queue'[g_source_map[m]] :
                                           ~is_alive'[i]}}
    BY <1>3 DEF AudienceOf, ToldOf
  <2>4. \A j \in consumer_queue[g_source_map[m]] \ {k} :
          owner'[j] = owner[j] /\ is_alive'[j] = is_alive[j]
    BY <1>1, <2>1
  <2> QED
    BY <2>2, <2>3, <2>4
<1>4. ASSUME NEW m \in Name,
             g_source_map[m] # None => k \notin consumer_queue[g_source_map[m]]
      PROVE  AudienceOf(m)' = AudienceOf(m) /\ ToldOf(m)' = ToldOf(m)
  <2>1. CASE g_source_map[m] = None
    BY <2>1 DEF AudienceOf, ToldOf
  <2>2. CASE g_source_map[m] # None
    <3>1. consumer_queue[g_source_map[m]] \ {k} = consumer_queue[g_source_map[m]]
      BY <1>4, <2>2
    <3> QED
      BY <1>3, <2>2, <3>1 DEF AudienceOf, ToldOf
  <2> QED
    BY <2>1, <2>2
<1>5. CASE \E n \in Name : g_source_map[n] # None /\ k \in consumer_queue[g_source_map[n]]
  <2>1. PICK n \in Name : g_source_map[n] # None /\ k \in consumer_queue[g_source_map[n]]
    BY <1>5
  <2> DEFINE q == consumer_queue[g_source_map[n]]
  <2>2. g_source_map[n] \in Source /\ stream_name[g_source_map[n]] = n
    BY <2>1, Mapped
  <2>3. k \in Consumer /\ owner[k] = c /\ is_alive[k]
    <3>1. k \in Consumer /\ k # None
      BY <2>1, <2>2, Seats
    <3>2. owner[k] = c
      BY <3>1 DEF k, IInv, ConsumerInv
    <3>3. Len(collecting) = 0
      OBVIOUS
    <3>4. is_alive[k]
      BY <2>1, <2>2, <3>3 DEF IInv, QueueInv
    <3> QED
      BY <3>1, <3>2, <3>4
  <2>4. \A j \in q : owner[j] = c <=> j = k
    BY <2>2, <2>3, Seats DEF k
  <2>5. /\ AudienceOf(n) = {owner[j] : j \in q}
        /\ ToldOf(n) = {owner[j] : j \in {i \in q : ~is_alive[i]}}
    BY <2>1 DEF AudienceOf, ToldOf
  <2>6. c \in AudienceOf(n) \ ToldOf(n)
    BY <2>1, <2>3, <2>4, <2>5
  <2>7. AudienceOf(n)' = AudienceOf(n) \ {c} /\ ToldOf(n)' = ToldOf(n)
    BY <1>3, <2>1, <2>3, <2>4, <2>5
  <2>8. ASSUME NEW m \in Name, m # n
        PROVE  AudienceOf(m)' = AudienceOf(m) /\ ToldOf(m)' = ToldOf(m)
    <3>1. g_source_map[m] # None => k \notin consumer_queue[g_source_map[m]]
      <4> SUFFICES ASSUME g_source_map[m] # None, k \in consumer_queue[g_source_map[m]]
                   PROVE  FALSE
        OBVIOUS
      <4>1. g_source_map[m] \in Source /\ stream_name[g_source_map[m]] = m
        BY Mapped
      <4>2. plays[k] = m /\ plays[k] = n
        BY <2>1, <2>2, <4>1, Seats
      <4> QED
        BY <2>8, <4>2
    <3> QED
      BY <1>4, <3>1
  <2>9. Streams!Leave(c, n)
    BY <1>2, <2>6, <2>7, <2>8 DEF Streams!Leave
  <2> QED
    BY <2>9
<1>6. CASE \A n \in Name : g_source_map[n] # None => k \notin consumer_queue[g_source_map[n]]
  <2>1. \A m \in Name : AudienceOf(m)' = AudienceOf(m) /\ ToldOf(m)' = ToldOf(m)
    BY <1>4, <1>6
  <2> QED
    BY <1>2, <2>1 DEF Streams!vars
<1> QED
  BY <1>5, <1>6

\* One turn of clear_consumer tells one member of the audience.
LEMMA TellMaps ==
  ASSUME IInv, NEW k \in Consumer, NotifyStop(k)
  PROVE  \E n \in Name, c \in Client : Streams!Tell(c, n)
<1> DEFINE s == collecting[1].source
<1>1. /\ collecting # <<>> /\ k \in consumer_queue[s] /\ is_alive[k]
      /\ is_alive' = [is_alive EXCEPT ![k] = FALSE]
      /\ UNCHANGED <<g_source_map, publish_source, consumer_queue, owner>>
  BY DEF NotifyStop, sourceVars
<1>2. s \in Source
  <2>1. 1 \in 1 .. Len(collecting)
    BY <1>1, Pop DEF IInv, TypeOK
  <2> QED
    BY <2>1, FramesTyped DEF IInv
<1> HIDE DEF s
<1>n. PICK n : n = stream_name[s]
  OBVIOUS
<1>c. PICK c : c = owner[k]
  OBVIOUS
<1>3. /\ c \in Client /\ play_consumer[c] = k /\ s \notin g_source_pool
  BY <1>c, <1>1, <1>2, Seats
<1>4. n \in Name /\ g_source_map[n] = s /\ s # None
  BY <1>2, <1>3, <1>n, NoneAssumption DEF IInv, MapInv
<1>5. \A j \in consumer_queue[s] : j \in Consumer /\ (owner[j] = c <=> j = k)
  BY <1>1, <1>2, <1>3, <1>c, Seats
<1>6. \A j \in Consumer : is_alive'[j] = IF j = k THEN FALSE ELSE is_alive[j]
  BY <1>1 DEF IInv, TypeOK
<1>7. \A m \in Name : PublisherOf(m)' = PublisherOf(m) /\ AudienceOf(m)' = AudienceOf(m)
  BY <1>1, SamePublishers DEF AudienceOf
<1>8. /\ AudienceOf(n) = {owner[j] : j \in consumer_queue[s]}
      /\ ToldOf(n) = {owner[j] : j \in {i \in consumer_queue[s] : ~is_alive[i]}}
      /\ ToldOf(n)' = {owner[j] : j \in {i \in consumer_queue[s] : ~is_alive'[i]}}
  BY <1>1, <1>4 DEF AudienceOf, ToldOf
<1>9. c \in AudienceOf(n) \ ToldOf(n)
  BY <1>1, <1>c, <1>5, <1>8
<1>10. ToldOf(n)' = ToldOf(n) \cup {c}
  <2>1. {i \in consumer_queue[s] : ~is_alive'[i]} =
          {i \in consumer_queue[s] : ~is_alive[i]} \cup {k}
    BY <1>1, <1>5, <1>6
  <2> QED
    BY <1>c, <1>8, <2>1
<1>11. ASSUME NEW m \in Name, m # n PROVE ToldOf(m)' = ToldOf(m)
  <2>1. CASE g_source_map[m] = None
    BY <1>1, <2>1 DEF ToldOf
  <2>2. CASE g_source_map[m] # None
    <3>1. g_source_map[m] \in Source /\ stream_name[g_source_map[m]] = m
      BY <2>2, Mapped
    <3>2. \A j \in consumer_queue[g_source_map[m]] : j \in Consumer /\ plays[j] = m
      BY <3>1, Seats
    <3>3. plays[k] = n
      BY <1>1, <1>2, <1>n, Seats
    <3>4. \A j \in consumer_queue[g_source_map[m]] : is_alive'[j] = is_alive[j]
      BY <1>6, <1>11, <3>2, <3>3
    <3> QED
      BY <1>1, <3>4 DEF ToldOf
  <2> QED
    BY <2>1, <2>2
<1>12. Streams!Tell(c, n)
  BY <1>4, <1>7, <1>9, <1>10, <1>11 DEF Streams!Tell
<1> QED
  BY <1>3, <1>4, <1>12

\* The end of collect_source is the end of the stream, when all are told.
LEMMA FinishMaps ==
  ASSUME IInv, IInv', Collected
  PROVE  \E n \in Name : Streams!Finish(n)
<1> DEFINE s == collecting[1].source
           c == collecting[1].client
           n == stream_name[s]
<1>1. /\ collecting # <<>>
      /\ \A k \in consumer_queue[s] : ~is_alive[k]
      /\ consumer_queue' = [consumer_queue EXCEPT ![s] = {}]
      /\ g_source_map' = [g_source_map EXCEPT ![n] = None]
      /\ publish_source' = [publish_source EXCEPT ![c] = None]
      /\ UNCHANGED <<owner, is_alive>>
  BY DEF Collected, AllTold, ReturnSource, ForgetSource, consumerVars
<1>2. s \in Source /\ c \in Client /\ publish_source[c] = s
  <2>1. 1 \in 1 .. Len(collecting)
    BY <1>1, Pop DEF IInv, TypeOK
  <2> QED
    BY <2>1, FramesTyped DEF IInv, FrameInv
<1> HIDE DEF s, c, n
<1>3. s # None /\ s \notin g_source_pool
  BY <1>2, NoneAssumption DEF IInv, PubInv
<1>4. n \in Name /\ g_source_map[n] = s
  BY <1>2, <1>3 DEF IInv, MapInv, n
<1>5. \A m \in Name : g_source_map'[m] = IF m = n THEN None ELSE g_source_map[m]
  BY <1>1 DEF IInv, TypeOK
<1>6. PublisherOf(n) # None
  BY <1>3, <1>4, PublisherHolds, NoneAssumption
<1>7. ToldOf(n) = AudienceOf(n)
  <2>1. {i \in consumer_queue[s] : ~is_alive[i]} = consumer_queue[s]
    BY <1>1
  <2> QED
    BY <1>4, <2>1 DEF ToldOf, AudienceOf
<1>8. ASSUME NEW m \in Name
      PROVE  PublisherOf(m)' = IF m = n THEN None ELSE PublisherOf(m)
  <2>1. CASE m = n
    BY <1>5, <2>1 DEF PublisherOf
  <2>2. CASE m # n /\ g_source_map[m] = None
    BY <1>5, <2>2 DEF PublisherOf
  <2>3. CASE m # n /\ g_source_map[m] # None
    <3>1. g_source_map'[m] = g_source_map[m]
      BY <1>5, <2>3
    <3>2. PublisherOf(m) \in Client /\ publish_source[PublisherOf(m)] = g_source_map[m]
      BY <2>3, PublisherHolds
    <3>3. PublisherOf(m)' \in Client /\ publish_source'[PublisherOf(m)'] = g_source_map[m]
      BY <2>3, <3>1, PublisherHoldsNext
    <3>4. publish_source[PublisherOf(m)'] = g_source_map[m]
      BY <1>1, <2>3, <3>3 DEF IInv, TypeOK
    <3>5. PublisherOf(m)' = PublisherOf(m)
      BY <2>3, <3>2, <3>3, <3>4 DEF IInv, PubInv
    <3> QED
      BY <2>3, <3>5
  <2> QED
    BY <2>1, <2>2, <2>3
<1>9. ASSUME NEW m \in Name
      PROVE  /\ AudienceOf(m)' = IF m = n THEN {} ELSE AudienceOf(m)
             /\ ToldOf(m)' = IF m = n THEN {} ELSE ToldOf(m)
  <2>1. CASE m = n
    BY <1>5, <2>1 DEF AudienceOf, ToldOf
  <2>2. CASE m # n /\ g_source_map[m] = None
    BY <1>5, <2>2 DEF AudienceOf, ToldOf
  <2>3. CASE m # n /\ g_source_map[m] # None
    <3>1. g_source_map[m] # s /\ g_source_map[m] \in Source
      BY <1>4, <2>3, Mapped
    <3>2. consumer_queue'[g_source_map[m]] = consumer_queue[g_source_map[m]]
      BY <1>1, <3>1 DEF IInv, TypeOK
    <3> QED
      BY <1>1, <1>5, <2>3, <3>2 DEF AudienceOf, ToldOf
  <2> QED
    BY <2>1, <2>2, <2>3
<1>10. Streams!Finish(n)
  BY <1>4, <1>6, <1>7, <1>8, <1>9 DEF Streams!Finish
<1> QED
  BY <1>4, <1>10

-----------------------------------------------------------------------------
\* No stream at the start.
LEMMA InitMaps == Init => Streams!Init
BY DEF Init, Streams!Init, PublisherOf, AudienceOf, ToldOf

\* Deleting a stream may free a consumer, and so may the end of a connection; what a
\* collection does comes in steps of its own.
LEMMA LoopMaps ==
  ASSUME IInv, NEW c \in Client, Loop(c)
  PROVE  [Streams!Next]_(Streams!vars)
<1>1. CASE Connect(c) \/ PeerLeaves(c) \/ CmdPublish(c) \/ CmdPlay(c)
  BY <1>1, Untouched DEF Connect, PeerLeaves, CmdPublish, CmdPlay, CloseSocket,
                         sourceVars, consumerVars
<1>2. ASSUME FreePlayConsumer(c), Quiet, UNCHANGED <<g_source_map, publish_source>>
      PROVE  [Streams!Next]_(Streams!vars)
  BY <1>2, LeaveMaps DEF Quiet, Streams!Next
<1>3. CASE CloseCallback(c)
  BY <1>2, <1>3 DEF CloseCallback, sourceVars
<1>4. ASSUME NEW which \in SUBSET {"play", "publish"}, DeleteStream(c, which)
      PROVE  [Streams!Next]_(Streams!vars)
  <2>1. CASE "play" \in which
    BY <1>2, <1>4, <2>1 DEF DeleteStream, sourceVars
  <2>2. CASE "play" \notin which
    BY <1>4, <2>2, Untouched DEF DeleteStream, sourceVars, consumerVars
  <2> QED
    BY <2>1, <2>2
<1> QED
  BY <1>1, <1>3, <1>4 DEF Loop

\* The application's calls: publish and play, and those that change no stream.
LEMMA ApplicationMaps ==
  ASSUME IInv, IInv', NEW c \in Client, Application(c)
  PROVE  [Streams!Next]_(Streams!vars)
<1>1. ASSUME NEW allow \in BOOLEAN, Accept(c, allow) PROVE UNCHANGED Streams!vars
  BY <1>1, Untouched DEF Accept, sourceVars, consumerVars
<1>2. CASE JsClose(c) \/ Unpublish(c) \/ PublishDropped(c) \/ PlayDropped(c)
  BY <1>2, Untouched DEF JsClose, Unpublish, PublishDropped, PlayDropped,
                         sourceVars, consumerVars
<1>3. ASSUME NEW n \in Name, PublishRefused(c, n) PROVE UNCHANGED Streams!vars
  BY <1>3, Untouched DEF PublishRefused, sourceVars
<1>4. ASSUME NEW n \in Name, NEW s \in Source, PublishStarted(c, n, s)
      PROVE  Streams!Next
  BY <1>4, StartMaps DEF Streams!Next
<1>5. ASSUME NEW n \in Name, NEW k \in Consumer, PlayStarted(c, n, k)
      PROVE  Streams!Next
  BY <1>5, JoinMaps DEF Streams!Next
<1> QED
  BY <1>1, <1>2, <1>3, <1>4, <1>5 DEF Application, Answer

\* Every step is a step of PubSub or none.
LEMMA NextMaps ==
  ASSUME IInv, IInv', [Next]_vars
  PROVE  [Streams!Next]_(Streams!vars)
<1>1. CASE Collected
  BY <1>1, FinishMaps DEF Streams!Next
<1>2. ASSUME NEW k \in Consumer, NotifyStop(k) PROVE Streams!Next
  BY <1>2, TellMaps DEF Streams!Next
<1>3. ASSUME NEW c \in Client, Loop(c) \/ Application(c)
      PROVE  [Streams!Next]_(Streams!vars)
  BY <1>3, LoopMaps, ApplicationMaps
<1>4. CASE UNCHANGED vars
  BY <1>4, Untouched DEF vars, sourceVars, consumerVars
<1> QED
  BY <1>1, <1>2, <1>3, <1>4 DEF Next, Collect

\* Source pool, map, queues and sessions together behave as PubSub: whatever the
\* loop and the application do, a name has one publisher, nobody is in two audiences,
\* and a stream ends when its audience has been told.
THEOREM HubImplementsPubSub ==
  ASSUME AnswerInHandler
  PROVE  Spec => ImplementsPubSub
<1>1. Init => Streams!Init
  BY InitMaps
<1>2. IInv /\ IInv' /\ [Next]_vars => [Streams!Next]_(Streams!vars)
  BY NextMaps
<1>3. Spec => []IInv
  BY Invariant
<1> QED
  BY <1>1, <1>2, <1>3, PTL DEF Spec, ImplementsPubSub, Streams!Spec
=============================================================================
