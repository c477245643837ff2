------------------------------ MODULE ChunkPool ------------------------------
(***************************************************************************)
(* The pool of chunk buckets (RtmpChunkPool) and everybody who holds one:  *)
(* the reader of a publishing connection (the chunk it is receiving, the   *)
(* chain of its channel), the key cache of the source, the header buckets  *)
(* of the consumers, and every write a socket has not called back yet.     *)
(*                                                                         *)
(* A bucket is not copied when it is forwarded to a player, joins the      *)
(* cache or waits in a socket: ref_count says how many still need it, and  *)
(* the last free_chunk_bucket wipes it and puts it back.  An owner frees   *)
(* its bucket by a call of its own, a write by its callback.               *)
(*                                                                         *)
(* There is one publishing connection with one channel.  Its own socket,   *)
(* and what the players send, add nothing new and are left out.  Which     *)
(* messages a running player is sent is what PlayerFlow is about: here any *)
(* of them, whole.                                                         *)
(***************************************************************************)
EXTENDS Naturals, Sequences, FiniteSets, FiniteSetsExt, Functions

CONSTANTS
  Player,                   \* connections that may play
  None,                     \* NULL
  Kind,                     \* the kinds of message the publisher sends
  g_pool_size,              \* buckets added at a time
  MAX_ADD_POOL_SIZE_COUNT,  \* 100 in the code
  HeaderNum,                \* buckets of a consumer for headers of its own: 5
  MaxChunks,                \* bound on the chunks of a message
  MaxGop,                   \* the chunks of the longest group of pictures; the
                            \* code counts 1000 messages
  MaxWrites,                \* bound on the writes waiting in the sockets
  MayTake(_, _)             \* which buckets of a set are allocated or made next: the
                            \* queue's order, which nothing else depends on

ASSUME PlayerAssumption == IsFiniteSet(Player)
ASSUME NoneAssumption == None \notin Nat \cup Seq(Nat)
ASSUME KindAssumption ==
  Kind \subseteq {"metadata", "video_sh", "audio_sh", "key", "inter", "sound", "command"}
ASSUME SizeAssumption ==
  /\ g_pool_size \in Nat \ {0}
  /\ MAX_ADD_POOL_SIZE_COUNT \in Nat \ {0}
  /\ HeaderNum \in Nat \ {0}
  /\ MaxChunks \in Nat \ {0}
  /\ MaxGop \in Nat /\ MaxWrites \in Nat

\* The buckets there can be, by their bucket_id.
Bucket == 1..(g_pool_size * MAX_ADD_POOL_SIZE_COUNT)

VARIABLES
  g_queue,            \* the free buckets
  g_bucket_id,        \* the id of the last bucket that was malloc'ed
  g_add_pool_count,
  ref_count,
  current_chunk,      \* the bucket the publisher's next bytes go to, or None
  chain,              \* the chunks of its unfinished message
  merging,            \* the last of them is in CHUNK_STATE_MERGE_HEADER: the next
                      \* type 3 chunk continues it
  publishing,         \* the publisher has a source
  key_cache,          \* the chains of the cached messages, or None
  consumer,           \* of a player: "none", "waiting" for its first frame,
                      \* "running", or "ended" with its stream
  headers,            \* its header buckets
  writes              \* the buckets its socket still has to send, in order

poolVars   == <<g_queue, g_bucket_id, g_add_pool_count, ref_count>>
readerVars == <<current_chunk, chain, merging>>
vars == <<poolVars, readerVars, publishing, key_cache, consumer, headers, writes>>

Cached == {"metadata", "video_sh", "audio_sh", "gop"}

TypeOK ==
  /\ g_queue \in SUBSET Bucket
  /\ g_bucket_id = g_pool_size * g_add_pool_count
  /\ g_add_pool_count \in 1..MAX_ADD_POOL_SIZE_COUNT
  /\ ref_count \in [Bucket -> Nat]
  /\ current_chunk \in Bucket \cup {None}
  /\ chain \in Seq(Bucket)
  /\ merging \in BOOLEAN
  /\ publishing \in BOOLEAN
  /\ key_cache \in [Cached -> Seq(Bucket) \cup {None}]
  /\ consumer \in [Player -> {"none", "waiting", "running", "ended"}]
  /\ headers \in [Player -> Seq(Bucket)]
  /\ writes \in [Player -> Seq(Bucket)]

\* init_chunk_pool: the first buckets are made.
Init ==
  /\ g_bucket_id = g_pool_size
  /\ g_queue = 1..g_pool_size
  /\ g_add_pool_count = 1
  /\ ref_count = [b \in Bucket |-> 0]
  /\ current_chunk = None
  /\ chain = <<>>
  /\ merging = FALSE
  /\ publishing = FALSE
  /\ key_cache = [k \in Cached |-> None]
  /\ consumer = [p \in Player |-> "none"]
  /\ headers = [p \in Player |-> <<>>]
  /\ writes = [p \in Player |-> <<>>]

-----------------------------------------------------------------------------
(* The pool. *)

Elements(s) == {s[i] : i \in DOMAIN s}

\* Where b occurs in the sequences of f.
Places(b, I, f) == UNION {{x} \X {i \in DOMAIN f[x] : f[x][i] = b} : x \in I}

\* How many of the writes of out are of b: a bucket may be written to many players, and
\* more than once to one.
Times(b, out) == Cardinality(Places(b, Player, out))

\* rtmp_write_chunk and its variants for the header and the payload: a write holds
\* a reference until it is called back.  Mutant: it does not.
HeldByWritesNot(b, out) == 0

HeldByWrites(b, out) == Times(b, out)

\* The buckets add_pool_queue would make.
Fresh == IF g_add_pool_count < MAX_ADD_POOL_SIZE_COUNT
         THEN (g_bucket_id + 1)..(g_bucket_id + g_pool_size) ELSE {}

\* `lent' and then `own' come from the queue, to which `back' return in between, or
\* the queue runs empty and grows.  What an allocation returns when it is empty and
\* may not grow is outside of the model.
Allocated(lent, own, back) ==
  LET free == g_queue \cup back
      new == lent \cup own
  IN
  /\ new \subseteq free \cup Fresh
  /\ MayTake(free \ lent, own \ Fresh)
  /\ \/ /\ new \subseteq free
        /\ g_queue' = free \ new
        /\ UNCHANGED <<g_bucket_id, g_add_pool_count>>
     \/ /\ ~(new \subseteq free) /\ g_queue \subseteq new
        /\ lent \subseteq g_queue => back \subseteq new
        /\ MayTake(Fresh, new \cap Fresh)
        /\ g_queue' = (free \cup Fresh) \ new
        /\ g_bucket_id' = g_bucket_id + g_pool_size
        /\ g_add_pool_count' = g_add_pool_count + 1

\* What one event does to the buckets.  `lent' are allocated, written and freed within
\* the event, so that only their writes hold them; `own' are allocated for an owner;
\* the sockets get `out' to write; and the owners of `drop' free them, of which those
\* return to the queue that no write needs.
Buckets(lent, own, out, drop) ==
  /\ lent \cap own = {}
  /\ lent \subseteq g_queue \cup Fresh
  /\ own \subseteq g_queue \cup Fresh \cup drop
  /\ MayTake(g_queue, lent \ Fresh)
  /\ writes' = [p \in Player |-> writes[p] \o out[p]]
  /\ MapThenSumSet(LAMBDA p : Len(writes'[p]), Player) <= MaxWrites
  /\ LET used == [b \in Bucket |-> ref_count[b] + HeldByWrites(b, out)] IN
     /\ ref_count' = [b \in Bucket |-> (used[b] + (IF b \in own THEN 1 ELSE 0))
                                         - (IF b \in drop THEN 1 ELSE 0)]
     /\ Allocated(lent, own, {b \in drop : used[b] = 1})

Nothing == [p \in Player |-> <<>>]

Chain(k) == IF key_cache[k] = None THEN <<>> ELSE key_cache[k]

\* A write of p is called back.  Mutant: the bucket is freed twice.
FreedTwice(b) == ref_count' = [ref_count EXCEPT ![b] = @ - 2]

Freed(b) == ref_count' = [ref_count EXCEPT ![b] = @ - 1]

-----------------------------------------------------------------------------
(* The reader of the publishing connection. *)

\* RtmpProtocol::start and expect_chunk.
Connect(b) ==
  /\ current_chunk = None
  /\ Buckets({}, {b}, Nothing, {})
  /\ current_chunk' = b
  /\ UNCHANGED <<chain, merging, publishing, key_cache, consumer, headers>>

\* on_new_chunk when the message goes on; `merge' when the bucket has room for
\* another chunk (CHUNK_STATE_MERGE_HEADER).
ReadChunk(b, merge) ==
  /\ current_chunk # None /\ ~merging
  /\ Len(chain) + 1 < MaxChunks
  /\ Buckets({}, {b}, Nothing, {})
  /\ chain' = Append(chain, current_chunk)
  /\ merging' = merge
  /\ current_chunk' = b
  /\ UNCHANGED <<publishing, key_cache, consumer, headers>>

\* The header of a type 3 chunk that continues the last bucket: the bucket the header
\* was read into is freed.
ReadMergedHeader ==
  /\ current_chunk # None /\ merging
  /\ Buckets({}, {}, Nothing, {current_chunk})
  /\ current_chunk' = chain[Len(chain)]
  /\ chain' = SubSeq(chain, 1, Len(chain) - 1)
  /\ merging' = FALSE
  /\ UNCHANGED <<publishing, key_cache, consumer, headers>>

\* What the source does with a message: what it caches, and the buckets that are freed,
\* be it with the chain they leave or with the message when nobody takes it over.  A
\* sequence header goes to a place of its own, and add_msg_to_gop, which then looks at
\* an emptied chain, may end the group of pictures or start an empty one.
\* Mutant: a group that has got too long is forgotten and not freed.
CachingLeaky(kind, message) ==
  CASE kind = "metadata" ->
         {[cache |-> [key_cache EXCEPT !.metadata = message],
           freed |-> Elements(Chain("metadata"))]}
    [] kind \in {"video_sh", "audio_sh"} ->
         {[cache |-> [key_cache EXCEPT ![kind] = message, !.gop = gop],
           freed |-> Elements(Chain(kind))
                       \cup (IF gop = key_cache.gop THEN {} ELSE Elements(Chain("gop")))]
            : gop \in {key_cache.gop, None, <<>>}}
    [] kind = "key" ->
         {[cache |-> [key_cache EXCEPT !.gop = message], freed |-> Elements(Chain("gop"))]}
    [] kind \in {"inter", "sound"} /\ key_cache.gop # None ->
         LET gop == key_cache.gop \o message IN
         {IF Len(gop) > MaxGop
          THEN [cache |-> [key_cache EXCEPT !.gop = None], freed |-> {}]
          ELSE [cache |-> [key_cache EXCEPT !.gop = gop], freed |-> {}]}
    [] OTHER -> {[cache |-> key_cache, freed |-> Elements(message)]}

Caching(kind, message) ==
  CASE kind = "metadata" ->
         {[cache |-> [key_cache EXCEPT !.metadata = message],
           freed |-> Elements(Chain("metadata"))]}
    [] kind \in {"video_sh", "audio_sh"} ->
         {[cache |-> [key_cache EXCEPT ![kind] = message, !.gop = gop],
           freed |-> Elements(Chain(kind))
                       \cup (IF gop = key_cache.gop THEN {} ELSE Elements(Chain("gop")))]
            : gop \in {key_cache.gop, None, <<>>}}
    [] kind = "key" ->
         {[cache |-> [key_cache EXCEPT !.gop = message], freed |-> Elements(Chain("gop"))]}
    [] kind \in {"inter", "sound"} /\ key_cache.gop # None ->
         LET gop == key_cache.gop \o message IN
         {IF Len(gop) > MaxGop
          THEN [cache |-> [key_cache EXCEPT !.gop = None], freed |-> Elements(gop)]
          ELSE [cache |-> [key_cache EXCEPT !.gop = gop], freed |-> {}]}
    [] OTHER -> {[cache |-> key_cache, freed |-> Elements(message)]}

\* The channel's chain after msg_decode has taken it over.  Mutant: it is not emptied.
ChainLeft(message) == message

ChainAfter(message) == <<>>

\* The header buckets that are wrapped for a player; they are written before what they
\* head.
Wrapped(own, n) == SubSeq(own, 1, n)

Sound == {"audio_sh", "sound"}
Picture == {"video_sh", "key"}

SequenceHeader(kind) == IF kind \in Sound THEN "audio_sh" ELSE "video_sh"

\* CONSUMER_WAIT_METADATA: the messages a waiting player starts with.
Starts(kind) ==
  /\ key_cache.metadata # None
  /\ \/ kind \in Picture /\ key_cache.video_sh # None
     \/ kind \in Sound /\ key_cache.video_sh = None

\* CONSUMER_WAIT_VIDEO_SH and CONSUMER_WAIT_AUDIO_SH: the messages that go with a
\* sequence header to a running player that has not got it.
Completes(kind) == kind \in Sound \cup Picture /\ key_cache[SequenceHeader(kind)] # None

\* The last chunk of a message: msg_decode, which for audio and video forwards the
\* buckets and caches them, and expect_chunk.  A player that starts is also sent its
\* copy of the metadata, here of one chunk.
ReadMessage(kind, starting, completed, goes, n) ==
  LET message == Append(chain, current_chunk)
      fed == starting \cup completed \cup goes
  IN
  /\ current_chunk # None /\ ~merging
  /\ kind \in {"metadata", "command"} \/ ~publishing => fed = {}
  /\ starting # {} => Starts(kind)
  /\ completed # {} => Completes(kind)
  /\ \A p \in fed : consumer[p] = IF p \in starting THEN "waiting" ELSE "running"
  /\ completed \cap goes = {}
  /\ \E kept \in (IF publishing THEN Caching(kind, message)
                  ELSE {[cache |-> key_cache, freed |-> Elements(message)]}),
        b \in Bucket, lent \in Injection(starting, Bucket) :
       /\ key_cache' = kept.cache
       /\ current_chunk' = b
       /\ Buckets({lent[p] : p \in starting}, {b},
            [p \in Player |->
               (IF p \in starting THEN <<lent[p]>> ELSE <<>>)
                 \o (IF p \in starting \cup completed
                     THEN Wrapped(headers[p], n) \o Chain(SequenceHeader(kind)) ELSE <<>>)
                 \o (IF p \in fed THEN message ELSE <<>>)],
            kept.freed)
  /\ consumer' = [p \in Player |-> IF p \in starting THEN "running" ELSE consumer[p]]
  /\ chain' = ChainAfter(message)
  /\ UNCHANGED <<merging, publishing, headers>>

\* publish_stream, and collect_source with clear_consumer.
Publish ==
  /\ current_chunk # None /\ ~publishing
  /\ publishing' = TRUE
  /\ UNCHANGED <<poolVars, readerVars, key_cache, consumer, headers, writes>>

AllCached == UNION {Elements(Chain(k)) : k \in Cached}

StopStream ==
  /\ publishing' = FALSE
  /\ key_cache' = [k \in Cached |-> None]
  /\ consumer' = [p \in Player |-> IF consumer[p] = "none" THEN "none" ELSE "ended"]

Unpublish ==
  /\ publishing
  /\ StopStream
  /\ Buckets({}, {}, Nothing, AllCached)
  /\ UNCHANGED <<readerVars, headers>>

\* The destructor of the connection: its source, its channels, its current chunk.
Disconnect ==
  /\ current_chunk # None
  /\ StopStream
  /\ Buckets({}, {}, Nothing, AllCached \cup Elements(chain) \cup {current_chunk})
  /\ current_chunk' = None
  /\ chain' = <<>>
  /\ merging' = FALSE
  /\ UNCHANGED headers

-----------------------------------------------------------------------------
(* The players. *)

\* init_consumer: the buckets a consumer may allocate for its headers.
HeaderBuckets == Injection(1..HeaderNum, Bucket)

\* play_stream with init_consumer and add_consumer: the player starts at once when the
\* cache has what it needs.
Play(p, own, t, n) ==
  /\ publishing /\ consumer[p] = "none"
  /\ headers' = [headers EXCEPT ![p] = own]
  /\ IF None \in {key_cache.gop, key_cache.metadata, key_cache.video_sh}
     THEN /\ consumer' = [consumer EXCEPT ![p] = "waiting"]
          /\ Buckets({}, Elements(own), Nothing, {})
     ELSE /\ consumer' = [consumer EXCEPT ![p] = "running"]
          /\ Buckets({t}, Elements(own),
                     [Nothing EXCEPT ![p] = <<t>> \o Wrapped(own, n) \o Chain("video_sh")
                                              \o Chain("audio_sh") \o Chain("gop")], {})
  /\ UNCHANGED <<readerVars, publishing, key_cache>>

\* free_consumer, for unplay_stream and for a connection that is deleted.
Unplay(p) ==
  /\ consumer[p] # "none"
  /\ consumer' = [consumer EXCEPT ![p] = "none"]
  /\ headers' = [headers EXCEPT ![p] = <<>>]
  /\ Buckets({}, {}, Nothing, Elements(headers[p]))
  /\ UNCHANGED <<readerVars, publishing, key_cache>>

\* A message of the server's own: allocated, written and freed at once.
Send(p, t) ==
  /\ Buckets({t}, {}, [Nothing EXCEPT ![p] = <<t>>], {})
  /\ UNCHANGED <<readerVars, publishing, key_cache, consumer, headers>>

\* _bucket_write_cb and _custom_bucket_write_cb, when sent or when the socket closes.
WriteDone(p) ==
  /\ writes[p] # <<>>
  /\ writes' = [writes EXCEPT ![p] = Tail(@)]
  /\ Freed(Head(writes[p]))
  /\ g_queue' = IF ref_count'[Head(writes[p])] = 0 THEN g_queue \cup {Head(writes[p])}
                ELSE g_queue
  /\ UNCHANGED <<g_bucket_id, g_add_pool_count, readerVars, publishing, key_cache, consumer,
                 headers>>

-----------------------------------------------------------------------------

\* How many of its headers a player needs depends on what the cache has.
Written == 1..HeaderNum

Next ==
  \/ \E b \in Bucket : Connect(b)
  \/ \E b \in Bucket, merge \in BOOLEAN : ReadChunk(b, merge)
  \/ ReadMergedHeader
  \/ \E kind \in Kind, starting, completed, goes \in SUBSET Player, n \in Written :
       ReadMessage(kind, starting, completed, goes, n)
  \/ Publish \/ Unpublish \/ Disconnect
  \/ \E p \in Player, own \in HeaderBuckets, t \in Bucket, n \in Written :
       Play(p, own, t, n)
  \/ \E p \in Player : Unplay(p)
  \/ \E p \in Player, t \in Bucket : Send(p, t)
  \/ \E p \in Player : WriteDone(p)

Spec == Init /\ [][Next]_vars

-----------------------------------------------------------------------------
(* Properties. *)

\* The owners of b: the places outside of the sockets that keep it.
Owners(b) ==
  {o \in {<<"reader", "current">>} : current_chunk = b}
    \cup {<<"reader", i>> : i \in {j \in DOMAIN chain : chain[j] = b}}
    \cup Places(b, Cached, [k \in Cached |-> Chain(k)])
    \cup Places(b, Player, headers)

\* ref_count is the number of owners, of which a bucket has at most one, and of the
\* writes that are waiting.
RefsExact ==
  \A b \in Bucket : /\ Cardinality(Owners(b)) <= 1
                    /\ ref_count[b] = Cardinality(Owners(b)) + Times(b, writes)

\* A bucket in the queue, which has been wiped and will be given to anybody, is
\* needed by nobody; a bucket that is not in the queue is needed: it will come back.
FreeIsIdle ==
  /\ g_queue \subseteq 1..g_bucket_id
  /\ \A b \in 1..g_bucket_id :
       b \in g_queue <=> Owners(b) = {} /\ Times(b, writes) = 0

\* What a socket is still to send is not received into, nor part of a message that is
\* not complete.
ReceivedAlone ==
  /\ current_chunk # None => Times(current_chunk, writes) = 0
  /\ \A b \in Elements(chain) : Times(b, writes) = 0
=============================================================================
