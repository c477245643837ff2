# A verification of bls

bls is an RTMP server for live streams: a native node module (C++ on libuv) with
an API in JavaScript (`bls.js`).  A publisher sends a stream under a name, the
server forwards it, chunk by chunk, to everybody who plays the name, and an
application decides in callbacks who may connect, publish and play.

This directory holds TLA+ modules that model its core, TLC configurations that
check them on small instances, and theorems that TLAPS proves for every size.
Paths below are relative to the root of the repository; `src/addon.cpp` is the
file of that name in its `src` directory.

## 1. The system

Everything runs on one thread: the libuv loop that node runs.  What makes the
code hard is not parallelism but

- the order in which the loop delivers events (reads, write callbacks, close
  callbacks, timers) of many connections;
- JavaScript called from the middle of native operations, which may call back
  into the native code before the operation is over;
- asynchronous close: `uv_close` answers in a later iteration, and everything a
  connection owns must survive until then and no longer;
- slow readers: writes pile up, and their callbacks arrive when the consumer they
  were made for may be gone.

| Component | Files | State | Operations |
|---|---|---|---|
| Stream hub | `src/BlsSource.cpp`, `src/addon.cpp` | `g_source_pool`, `g_source_map`; per source `stream_name`, `consumer_queue`, `key_cache` | publish, unpublish, play, unplay, collect_source, clear_consumer |
| Client session | `bls.js` | `connect_state`, `publish_stream_id`, `play_stream_id`, `transid_cb`, ping timer | commands from the peer; accept, close, publish, play, call, connect, edge, push |
| Player consumer | `src/BlsConsumer.cpp` | `state`, `chunk_in_buffer_num`, `is_alive` | consumer_send_video, consumer_send_audio, write callback |
| Key cache | `src/BlsSource.cpp`, `src/BlsMessage.cpp` | metadata, sequence headers, group of pictures | on_video_msg, on_audio_msg, on_metadata, add_msg_to_gop |
| Server, connection | `src/RtmpServer.cpp`, `src/RtmpClient.cpp`, `src/utilities.cpp` | `client_count`, `uv_client`, `data`, `protocol` | accept, close, remote connect, bls_close_tcp_cb |
| Handshake | `src/BlsHandShake.cpp` | `recved_len`, the callback in charge | three steps, failure |
| Chunk reader and writer | `src/RtmpProtocol.cpp` | `current_chunk`, `channels`, chunk size, window | chunk_state_machine, expect_chunk, writing of chains |
| Message dispatch | `src/BlsMessage.cpp` | none | one handler per message type |
| Chunk pool | `src/RtmpChunkPool.cpp` | free queue, reference counts, growth count | alloc, free, write, write callbacks |
| Socket, logger, stand-alone server, examples, vendored code | `src/BlsSocket.cpp`, `src/BlsLogger.cpp`, `src/server_c.cpp`, `examples/`, `include/{librtmp,spdlog,uv,uv-private}` | | wrappers, output, not built, or third-party |

How they interact: the server accepts a connection and hands it to the
handshake; that creates the protocol and, through the connect callback, the
BlsClient.  The reader assembles messages; commands go up to `bls.js`, which emits
them to the application, whose answers come down through `addon.cpp` to the hub;
audio and video go to the source of the connection, which forwards every chunk
to its consumers and keeps what a late joiner needs.  A closing connection takes
its consumer out of a queue and its source out of the map, telling the
application on the way.

What makes each correct:

- *hub*: no source is lost, shared or returned twice; a consumer in a queue always
  belongs to a living client; a name is released after its players were told;
- *consumer, cache*: a player gets whole messages, metadata first, no inter frame
  after a gap, a bounded backlog, and is fed again when it has caught up;
- *connection*: the counter is exact, what is closed is freed once, no timer
  outlives its client, a silent peer is found out;
- *pool*: a chunk returns when the last socket and cache have let it go;
- *reader*: chunk boundaries are found whatever the sizes and changes of size, and
  what a channel is sent arrives whole and in order;
- *time*: sound and picture of a player stay together, and the time of day it is
  told is right;
- *session*: every answer reaches the call it answers, and both ends of a relay
  agree on the streams between them.

## 2. The modules

| Module | What it is |
|---|---|
| `PubSub` | what the hub promises: one publisher per name, one stream and one audience seat per client, a stream ends when its audience has been told |
| `StreamHub` | the hub and the sessions that drive it |
| `StreamHubMC` | the assumption that relates pool and clients |
| `StreamHubProofs` | its inductive invariant, and the proof that it implements `PubSub` |
| `PlayerFlow` | one player of one stream: consumer, cache, socket |
| `PlayerFlowProofs` | its invariants: the counter and the backlog, and what the player has got |
| `ClientLifecycle` | connections: server, handshake, close, ping |
| `LifecycleProofs` | its invariant |
| `ChunkPool` | the buckets of the pool and everybody who holds one |
| `ChunkPoolMC` | the shape of a state, by which TLC compares states |
| `ChunkPoolProofs` | counting sequences, and the pool's invariant |
| `MessageChannels` | what the reader promises: every channel delivers its messages whole, once and in order |
| `ChunkReader` | the chunk state machine against a peer that writes chunks |
| `ChunkReaderTypes` | what holds of the reader whatever the peer does: types, and the names of buckets |
| `ChunkReaderProofs` | that it is in step with a peer, and keeps the promise of `MessageChannels` |
| `StreamClock` | the times a player sees, and the time of day in the metadata |
| `StreamClockProofs` | its invariant |
| `RelaySession` | calls, `edge` and `push` on a remote connection, and the client at its other end |
| `RelayProofs` | its invariants: transaction ids, types, and the streams the two ends agree on |

Operators whose comment says *Mutant* are variants of the definition after them
with a plausible bug.  Nothing uses them; they are there to show that a property
notices the bug (PROJECT.json lists which).

### StreamHub

One action per event of the loop (`Connect`, `PeerLeaves`, `CmdPublish`,
`CmdPlay`, `DeleteStream`, `CloseCallback`) and per call of the application
(`Accept`, `JsClose`, `PublishStarted`, `PublishRefused`, `PublishDropped`,
`PlayStarted`, `PlayDropped`, `Unpublish`).  `publish_source`, `play_consumer`,
`g_source_map`, `g_source_pool`, `consumer_queue` and the fields of a consumer are
variables of the same names.

`collect_source` is the only native operation that calls JavaScript half-way
through a change of these structures, once per player.  `collecting` is the stack
of the calls in progress.  While it is not empty no event of the loop happens, but
every call of the application may, `Unpublish` of another client included, which
pushes a nested call.  `NotifyStop` is one turn of the loop in `clear_consumer`,
`Collected` what comes after the last turn.

Choices that need an argument:

- A call made from inside a "close", "unplay" or "unpublish" handler commutes with
  the event: the native state changes only after the handler, so the same call
  just before the event has the same effect.  The application's actions are
  enabled before every event.
- `consumer_queue` is a set.  The order only decides who is told first; `NotifyStop`
  takes any, and a consumer that is added during the walk lands behind the
  position of the walk and is reached, which is what a set gives.
- `AnswerInHandler` says that the application calls `publish` and `play` in the
  handlers of these events.  The examples do so for "publish"; for "play" the edge
  server of the repository's `README.md` (line 215) and `examples/test_edge_server.js`
  do not: they fetch the stream first and answer when it is there.  When the constant
  is FALSE an answer may come at any time.  The notes that a client publishes one
  stream and plays one stream at a time hold only for the first kind of application
  (`hub_late_publish`, and `OnePlayPerClient` in section 3).
- An application does not call `unpublish()` for a stream from the
  "play_stop_event" of that same stream; the code would return the source twice.
  It is a hazard in PROJECT.json and not a behaviour of the model.
- The JavaScript guards are kept as they are, `deleteStream` with its comparison of
  ids that may both be 0 included (`Matched`).

### PlayerFlow

A message is dispatched within one event of the loop, so `VideoMsg` and `AudioMsg`
do a whole message: its head, which decides, and its further chunks, which are type
3 and follow the state the head has left.  What a message is, is what the code can
see in its first chunk: sequence header, key frame, inter frame, sound, ADPCM sound,
or a type 3 chunk about which it can see nothing.

`chunk_is_keyframe` looks at four bits of the first chunk.  A sequence header of
pictures has them, and `add_msg_to_gop` asks the question of sound as well, where ADPCM
has them.  After `on_video_msg` or `on_audio_msg` has cached a sequence header,
`add_msg_to_gop` is given an emptied chain, whose head is other memory; `StrayKey` is the
set of answers it may find there.  (It may also find an address it must not read: the
process would stop, and no property speaks of that.)  So `CacheAfter` starts a group with
a key frame, with ADPCM sound or with nothing, and `key_led` records which.

`own` counts the writes of the present consumer that wait in the socket and carry its
callback, `stale` those of earlier consumers of the same client, whose callbacks count
down the counter of the present one.  A client may play again at any time, before its
socket has drained too.  The rest is history and influences nothing: `inherited` is what
was `stale` when the consumer came, so that `Foreign == inherited - stale` of its
callbacks were not its own; `unchecked` counts the chunks that went out behind a type 3
head without a look at the limit; `sent` is what the player got, `last` the last message,
and `gap` says what its next inter frame builds on: `"none"`, it is there; `"missed"`, it
was not sent; `"headless"`, it was not in the cached group the player started with.

Two constants describe the publisher and are named in every run: `StreamKind` (is there
video) and `Type3Heads` (does it begin messages with type 3 chunks, which RTMP allows
when nothing changes).

### ClientLifecycle

A slot of `Client` is a place for one connection at a time.  `data` is
`uv_tcp_t::data`, which changes its meaning from the handshake to the session to
the close callback, and which nobody sets for a refused connection: `Leftover` is
what `malloc` may leave there.  `RejectClient` stands for both ways to get there, a
connection over the limit and a `uv_accept` that fails.  `CloseCallback` is
`bls_close_tcp_cb` with its
three outcomes.  Calls made in the connect callback are the application's actions
right after `StartSession`.  The application answers "connect" with `accept` on
accepted connections and calls `connect` on its own, as README.md of the repository
tells it to.  It may refuse a client (`accept(false)`), which makes the client `CLOSE` in
JavaScript and leaves its socket open: `refused` records that, since close() and the ping
timer pass such a client over.  The ping timer
of `src/RtmpProtocol.cpp` is commented out in the code; the one in `bls.js` is the
one modelled.

### ChunkPool

Every place that keeps a `chunk_bucket_t *` is a variable: `current_chunk` and the
chain of the channel in the reader, the chains of `key_cache`, the five header
buckets of a consumer (`headers`), and `writes`, the write requests a socket has not
called back.  `g_queue`, `g_bucket_id`, `g_add_pool_count` and `ref_count` are those
of the code.  One event of the loop allocates, writes and frees several buckets;
`Buckets` adds this up for all of them, and each action says who does what:
`ReadChunk` and `ReadMergedHeader` are the reader's two ways to go on with a message,
`ReadMessage` is its last chunk with the forwarding and the caching, `Caching` is what
`on_metadata`, `on_video_msg`, `on_audio_msg` and `add_msg_to_gop` keep and free,
`Unpublish`, `Disconnect` and `Unplay` are the three ways to let go, `Send` is a
message of the server's own, which is freed right after it was written, and
`WriteDone` is a write callback, with whatever status.

An allocation takes some bucket of the queue (`MayTake`), or one of the fresh ones
when the queue is empty and may grow.  A sequence header leaves an emptied chain to
`add_msg_to_gop`, so that the group of pictures may stay, end or start anew
(`Caching`).  Players that are fed get a whole message, as `PlayerFlow` shows; which
of the running ones are fed is left open here, and so is how many of its headers a
player needs.

### ChunkReader

A part of a chunk (`basic`, `ext_basic`, `header`, `time`, `payload`) is one
`read_n` of `chunk_state_machine`, and an action of its own.  `Read...` takes what
the socket holds and decides what the next part is, as `expect_chunk` and the
header handlers do; if it decides wrongly it takes payload for headers for ever
after.  The peer (`Begin`, `Continue`, `Break`) interleaves the chunks of several
channels, chooses among the header formats RTMP allows at that place, uses extended
ids and extended timestamps, changes its chunk size, and at some point may break
the format, which is what the error path is for.

The sizes of buckets and chunks are what the bucket logic is about and are kept, on
a coarser scale: with `DEFAULT_CHUNK_BUCKET_SIZE = 4` one byte of the model stands
for 2048 of the code.  Small chunks are merged into one bucket (`MergesInto`), large
ones read in several (`BucketEnds`); the unsupported chunk sizes that make the code
hang up are those of `SizeOK`.  Buckets get the name of the stream when they are
complete (`Filled`), which may be another one than the message goes to if the
application publishes in between.

The application publishes and stops at any time (`Publish`, `Unpublish`), `renamed`
recording the channels on which a bucket had its name by then.

Two things RTMP 1.0 lets a peer do the reader does not foresee, and the peer of the
model does both:

- When the header of a message had an extended timestamp, the type 3 chunks of its
  channel repeat it.  A peer may do so or not (`SendsChunk`, `ChunkAgain`; `stamped`
  are the channels in question); the reader takes the four bytes for payload.
- A Set Chunk Size message may be sent while messages are under way on other channels.
  A bucket of such a channel that waits to be merged was found to have room for a chunk
  of the old size.

The history `unforeseen` says that one of them has happened.  When the reader then asks
for bytes that belong to two parts, or for more than its bucket has room for, it is
*lost* (`Misread`): where it takes headers from afterwards depends on every byte of the
payload, so the model only says that it may close the connection or not (`Wander`), and
the peer sends no more.

What is left is one assumption about the peer: it begins a message with a type 3 chunk
only if nothing has changed, time included.  What another peer would mean by such a
chunk the code and its documents leave open, see the hazards.

`MessageChannels` is the abstract specification.  Its state is what has been sent and
not delivered, per channel, and whether the connection can be relied on; the detailed
one implements it (`ImplementsChannels`), with `up` until the reader hangs up or
something unforeseen happens.

### StreamClock

`bls` sends steps, not times: the source keeps the time of the last message of each
kind (`time`) and forwards the difference, and a player starts each kind at 0.
`StreamClock` follows the steps through the cache (`gop.steps`), through a live start
and through gaps, and compares the clocks the player has with those of the
publisher.  Whether a socket is too full is a choice here, `PlayerFlow` says when;
the state machine is that of `PlayerFlow`, including that a slow player forgets the
sequence header it waited for.  The rest is `update_abs_record_time`: it writes the
time of day into the cached metadata in place, at `time_index`.

The publisher sends its sequence headers first and then each kind at least every
`Interval`; its time may go back (`MaxSlips`), which the code counts as a step of 0,
and it may start again under the same source.  A kind that begins much later than
the other is out of scope: how far apart they then are is the publisher's affair.

### RelaySession

Two clients, one at each end of a connection: the *near* one was made by
`remote_connect` and calls `connect`, `call`, `edge`, `push` and deletes streams, the
*far* one is the `BlsClient` the other server made on accepting.  `wire` carries the
commands in order.  `call` takes the next transaction id, from `FirstTransId` up to
one above `MaxTransId` and then again from the first; `transid_cb` holds the
callbacks, and an answer runs the callback under its id and then clears the entry,
also when the callback has just made a call of its own that was given that id.
`edge` and `push` are chains of such callbacks: `createStream`, then `play` or
`publish` on the stream in the answer.  The far application answers `connect` and
custom commands in any order; `createStream`, `deleteStream`, `play` and `publish`
are answered or executed by `bls.js` itself.  Either end may close at any moment.

Streams are created, started and deleted in any order; `MaxCalls` and `MaxDeletes`
are bounds and nothing else.  `overlapped` records that a stream was deleted while
another was being created, `clashed` that the near end was answered an id that is in
use or none: the far end takes the id off `stream_id_flag` at each deletion, so
that the flag falls, is zero or below (-1 is 2^32 - 1 on the wire), and `createStream`
looks only at what is played and published.

Two things are assumed of the application, which the code does not prevent (`MayCall`):

- `MaxSpan`: from the oldest unanswered call on, it makes at most this many calls.
  With more calls than ids (26 in the code) an id is used again while its callback
  waits, or is given out inside the very callback whose entry is then cleared, and a
  callback is lost: `MaxSpan = 4` with 3 ids breaks `AnswersMatch`.
- It relays one stream in each direction at a time: no second `edge` while the first is
  there or on its way, and no second `push`.  A client has one `play_stream_id` and one
  `publish_stream_id`, and the far end ignores the second.

`accept(false)` is not part of this model (it answers with `onStatus`, which runs no
callback of `connect`; see `ClientLifecycle` for what else it does).

## 3. The runs

Passing runs, with what bounds them:

| Run | Bounds | Shows |
|---|---|---|
| `hub` | 2 clients, 2 names, 2 sources, 2 consumers, fairness | `SourcesAccounted`, `PlayersReachable`, `PoolSuffices`, `NobodyLeftWaiting`; `StreamHub` implements `PubSub`; `ClosedClientsGo`: clients that close are deleted and collections end |
| `flow` | video from the start; limit 1, `MAX_GOP_LEN` 1, messages of 1 or 2 chunks with heads of any type, 5 pending, 2 plays, any stray answer, fairness | whole messages, metadata first, no inter frame in a gap, what the counter is (`BufferCounted`) and how large the backlog (`BacklogBounded`), `SlowPlayersResume` |
| `pool` | 2 players, buckets by fours, twice; messages of 1 or 2 chunks, 4 waiting writes, 1 header bucket, groups of 1 chunk | `RefsExact`, `FreeIsIdle` (with it: no bucket is lost), `ReceivedAlone` |
| `lifecycle` | 2 slots, limit 1, any leftover, refusals, fairness | `CountExact`, `DataFits`, `TimerNeverDangles`, `ClosedIsFinal`, `ClosedMeansClosed`; `SilentSessionsEnd`: sessions of silent peers end and closed handles are freed |
| `reader` | 3 channels (one with an extended id), buckets of 4 bytes, chunk size 2, then 3 or 8; 2 messages of 3 or 10 bytes, 1 change of size and 1 publish at any time, 4 parts on the wire, fairness | `InStep`, `FullBuckets`, `OnlyCulpritsCut`, `CulpritsCut`, `TagsMatch`; `ChunkReader` implements `MessageChannels` |
| `clock` | clock to 6, groups of 3, 2 gaps, 1 slip, 2 plays | `InSync`, `ToldRight` |
| `relay` | 3 transaction ids, 6 calls, at most 3 from the oldest unanswered one on, 3 deletions at any time, fairness | `AnswersMatch`, `RelayAgrees`, `IdsNew`, `CallsAnswered` |

Why they are enough.  Two clients are a publisher and a player that is being told and
publishes, plays, closes or ends its own stream inside that notification; with two names
the nested collection is of another stream, which the publisher may play.  A third client
adds one more of either kind: the safety properties were checked with three as well, and
the theorems are for any number.
A limit of 1 chunk with messages of 2 puts the counter at, just over and two over the
limit, type 3 heads leave room for messages beyond it, and 5 pending writes exceed what
the limit lets happen (4, with no foreign callbacks and no unchecked heads).
Two plays let the writes of the first come back during the second, when they take the
counter below zero.
Four waiting writes are what a player gets that starts on a key frame of one chunk,
and let one bucket wait in two sockets, or twice in one, while the cache keeps it;
a group of two chunks is one too long.  Buckets are interchangeable, so `pool`
compares states by the shape `ChunkPoolMC` defines (`VIEW`): which places hold the
same bucket, with what count.
Two slots are two connections at any two moments of their lives, used again and again.
With a limit of 1 both may be counted, which is one too many; a connection over the limit
differs in nothing from one whose `uv_accept` fails, which is possible at any time.
Chunks of 2 bytes are merged in a bucket of 4 and chunks of 8 need two; 3 is a size
the code does not support, messages of 3 bytes end inside a chunk and those of 10
inside a bucket; two of them interleave, in any formats, and the change of size falls
before, between and after them and in their middle.  4 parts on the wire are a whole
chunk with either an extended id or an extended time and the beginning of the next; a
chunk with both has 5, and the theorems are about any number.  A message of 10 bytes takes
three buckets, so that one is complete, one half full and one to come when the application
publishes.
In `clock` the bound of `InSync` is reached with no gap and with one, so that nothing
smaller would hold.
Six calls with three ids use every id twice, and three deletions are the first number
after which `createStream` answers a wrong id.
What the bounds cannot give, the theorems do.

Runs that find a disagreement with what a comment or the repository's README.md says, each
with one property; PROJECT.json quotes the line:

| Run | What it shows |
|---|---|
| `hub_late_publish` | an application that answers "publish" later: a client gets two sources; the first is lost with its name |
| `flow_audio_only` | without video a slow player never comes back |
| `reader_publish_midway` | a publish in the middle of a message: its first buckets have no name, and an assertion fails |
| `clock_metadata` | metadata that has no `absRecordTime`, after metadata that had one, is overwritten in the middle with the time of day |
| `relay_third` | a third deletion, even in turn: `createStream` gives an id that is in use, 0 or below, and the two ends disagree |

More disagreements are stated as properties and have no run of their own.  Each is found
by TLC when the property is put in place of those of the configuration:

| Property | Configuration | What it shows |
|---|---|---|
| `OnePlayPerClient` | `StreamHubLate.cfg` | an application that answers "play" later, as `examples/test_edge_server.js` does: a client gets two consumers, the first stays in its queue (`README.md:438` of the repository, "One client can only play one stream now") |
| `SlowOnlyWhenFull` | `PlayerFlow.cfg` | a client that plays again before its socket has drained: the callbacks of the old consumer wrap the counter of the new one, which is slow with an empty socket |
| `BacklogWithinLimit` | `PlayerFlow.cfg` | messages that begin with a type 3 chunk are sent to a slow player beyond the limit |
| `KeyframesFirst` | `PlayerFlow.cfg` | a group started without a key frame: a new player gets inter frames it cannot decode |
| `GapEndsAtKeyframe` | `PlayerFlow.cfg` with `StreamKind = "any"` | where the video comes later, a player that waits for a sequence header and gets slow comes back to `CONSUMER_RUN` without it |
| `WithinLimit` | `Lifecycle.cfg` | one client more than `max_client_num` is accepted (`README.md:42`, "the maximum number of clients connect to server concurrently") |
| `RefusedQuietly` | `Lifecycle.cfg` | closing a connection over the limit deletes what an uninitialised pointer points to |
| `AlwaysInStep` | `ChunkReader.cfg` | an extended timestamp that is repeated in a type 3 chunk, as RTMP 1.0 has it, is taken for payload |
| `RoomForChunk` | `ChunkReader.cfg` | after a change of size in the middle of another message the reader asks for more than the bucket has room for |
| `StreamsAgree` | `RelaySession.cfg` | a deletion while a stream is created: two streams get one id |

And `ClosedMeansClosed` and `SilentSessionsEnd` fail without their exception of `refused`
clients: `is_closed()` is true of them while their socket is open, and a refused client
that is silent is never closed, not even by the ping timer, which the repository's `README.md:315` says
detects "whether this client is alive or not".

The passing runs say how far the code keeps what it promises and what exactly breaks
it.  `BufferCounted` and `BacklogBounded` allow for foreign callbacks (`Foreign`) and
unchecked heads (`unchecked`) and nothing else; the properties of `reader` end with
`unforeseen`, and `TagsMatch` leaves out the messages that were under way at a publish
(`renamed`); `RelayAgrees` ends when an id is given twice (`clashed`), and `IdsNew` says
that this takes a third deletion or an overlap.

The deadlock check is off where a system may stop: `lifecycle` after deleting a wild
pointer; the runs of `ChunkReader`, `StreamClock` and `RelaySession` when a session ends,
by closing or because its bounds are used up.

### Fairness

- `StreamHub`: a loop in C++ runs on and a handler returns (weak fairness of
  `Collect` and `Answer`); libuv calls the close callbacks at the end of every
  iteration, so that a handle that is closing is not passed over for ever however
  the iterations are filled (strong fairness of `CloseCallback`, which is disabled
  while a collection runs).
- `PlayerFlow`: the peer reads (weak fairness of `WriteDone`), and the publisher goes
  on sending sound and, if it has video, key frames.  Nothing is assumed of the
  player's own calls.  `SlowPlayersResume` is about consumers that inherited no writes:
  a counter that foreign callbacks have wrapped stays above the limit for ever.
- `ClientLifecycle`: the interval timer fires while it is armed and close callbacks
  are called, as long as the process lives.
- `ChunkReader`: the loop reads what the socket holds (weak fairness of `Read`).
  Nobody is obliged to send or to publish.
- `RelaySession`: what is on the wire arrives or the connection breaks, a break is
  noticed (weak fairness of `Answered`, `Handled`, `PeerGone`), and the far application
  answers every command in the end, as the examples do with `accept` and `result`; the
  code itself has no timeout for a call.

## 4. The proofs

`StreamHubProofs` assumes `AnswerInHandler` (`hub_late_publish` shows what goes wrong
without it) and nothing about the sets.  `SourcesAccounted` is not
inductive: it says nothing of the sources on the stack of collections, of the
consumers that have been told but not freed, and of clients that have a source or
a consumer though their ids say otherwise.  The strengthened invariant relates
pool, map and `publish_source`, queues, `owner` and `play_consumer`, and the frames
of `collecting`, which are of different clients; its lemmas take one action each,
and the calls that may run during a collection are exactly those that leave the
frames alone.  From it follow `TypeOK`, `SourcesAccounted`, `PlayersReachable` and
the action property `NobodyLeftWaiting`.  `PoolAlwaysSuffices` needs finite sets and no
more clients than sources, which the defaults of the code are (`DEFAULT_MAX_CLIENT`
2000, `DEFAULT_SOURCE_POOL_SIZE` 3000): a source that is not in the pool is held by a
client, no two by the same one, and the client that publishes holds none, so by the
pigeonhole principle one is left.

Its second part proves from the same invariant that `StreamHub` implements `PubSub`,
for every number of clients, names, sources and consumers.  The publisher of a name
is the client that holds the mapped source, an audience seat is a consumer in the
queue of that source; there is one lemma for each abstract step (`StartMaps`,
`JoinMaps`, `LeaveMaps`, `TellMaps`, `FinishMaps`), and every other action of the hub
is shown to leave the three abstract variables alone.

`PlayerFlowProofs` has two invariants, and neither assumes anything of the publisher or
the player.  The one about the counter (`FlowInv`) says what the counter of a consumer
is: its own writes less the callbacks of earlier consumers that have come since, on
the lap from `-Modulus` to `Modulus` (`Wrapped`), so that one wrap is all that can
happen; and how much it may have waiting, by its state: a state that can still send a
head that is not counted has one message less (`Backlog`).  What is beyond the
limit is what foreign callbacks and unchecked heads allow, chunk by chunk.  `Laps` is the
arithmetic of the remainder on these laps.  From it follow `BufferCounted` and
`BacklogBounded`, for every limit, message length, kind of head and any replay.
In the other (`Got`) the state machine of a consumer is summed up by
`VideoOutcome` and `AudioOutcome`: which state a message leaves, what was sent before
it and whether it goes out, so that the invariant speaks of these four things only:
the metadata was sent if the player is in a state that forwards anything, and, in a
stream that has its video from the start, a player in a state that forwards pictures
has missed none since the last key frame or the start of its group, and is never in the
two states that audio alone leads to.  From it follow `TypeOK`, `WholeMessages`,
`MetadataFirst` and, for `StreamKind = "both"`, `GapEndsAtKeyframe`; section 3 shows why for no other kind.

`LifecycleProofs` assumes only that there are finitely many slots and that the
limit is a natural number.  `CountExact` is about a cardinality, so each step is
shown to leave the set of counted connections alone, or to add or remove one
element, and the library's facts about finite sets give the count.  `DataFits`,
`TimerNeverDangles` and the auxiliary `Refused` are about one client at a time.
`ClosedIsFinal` needs `Refused`: a `_result` could accept a closed client again
only if its socket were open and a call pending, and a refused client never made
one.  `CountBounded`, one client more than the limit, has an induction of its own: it is
the best that can be said, since the limit itself is exceeded (`WithinLimit`, section 3).

`RelayProofs` shows `AnswersMatch` for any number of ids, calls and any order of
answers, under one hypothesis: `MaxSpan` is at most the number of ids, 26 in the code.
`AnswersMatch` by itself says nothing about calls that are still pending.
The invariant says that whatever is on its way, as a command, with the far
application or as an answer, belongs to a pending call whose callback waits under
the id of that call (`AllAwaited`), that a call is in at most one of these places
(`Net`), and that the calls from the oldest pending one on are few enough to have
different ids (`SpanKept`).  The id of a call is not recorded with it: it follows
from `transid_flag` and the number of calls made since (`IdOf`), whence the
arithmetic of `IdFacts`: two calls with the same id are at least `Ids` calls apart.

`RelayTypes`, in the same module, has no hypothesis.  Two of its types are wider than
one might expect: `stream_id_flag` and `held` are any whole numbers, since a deletion
takes the id off the flag and nothing stops at zero.

`RelayAlwaysAgrees` shows `RelayAgrees` from the same hypothesis, for any number of
deletions at any time.  The property compares the ends only while nothing is on
the way to the far one, so its invariant (`RelayInv`) has to say what they
know of each other's streams at every other moment, as long as no id has been given
twice.  There are four parts.  Commands on
the way to the far end are in an order (`InOrder`): no stream is started or deleted
twice, and none is started behind its deletion.  `createStream` belongs to
calls of `edge` and `push` and to no others
(`KindsKept`), of which one per kind is pending, while the near end has no such stream
(`OneOfAKind`).  The far end does not play where it publishes, and no command on its way
will make it (`Apart`).  And while both ends are open there are, for each kind, a
stream that is *due*, which the far end has or is told to start, and a stream that is
*new*, created and not yet answered, and everything else follows from these two
(`View`): what the far end plays and publishes, what the near end holds, which starts,
deletions and answers are on the wire.  `due` and `new` are quantified in `Linked`, not
variables of the model.

`IdsAlwaysNew` shows `IdsNew`: when `createStream` does not answer an id that is in use,
due or new.  That depends on where `stream_id_flag` stands.  `Level` says for no, one and
two deletions at the far end how far below those ids it may be, and how high it may have
got; in the end no id exceeds 5.  `MaxStreamId >= 4`, 10 in the code, is its only new
hypothesis: with two deletions the search for a free id never gets to the id from which
it restarts.  That the statement stops at the second deletion, and at streams that are
deleted in turn, is in the property and not a hypothesis; `relay_third` and
`StreamsAgree` show what comes after.

`ChunkPoolProofs` is for any players, kinds of message and sizes.  `RefsExact` says how
many places keep a bucket, but not which, and an action moves buckets between places.
The invariant says that the places a bucket can be kept in are disjoint and no place
has it twice (`KeptInv`), that a count is 1 for the owner and 1 for each waiting write
(`PoolInv`), that no socket has what is being received (`ReaderInv`), and that a
consumer keeps its headers as long as it lives (`HeaderInv`).  The first part of the
module counts: how often a bucket is in the sockets (`Times`) is a sum over players, and
what an action writes is added to it, player by player.  The second part says what an
exchange of one kept sequence for another does to what is kept.  `Buckets`, which adds
up one event of the loop, is then proved about once, in the form every action uses.

`StreamClockProofs` is for any interval, clock and length of a group.  `InSync` is about a
player that runs, but what it will see is decided earlier: by how far the publisher's
two times are apart (`PublisherInv`), by what the steps in the cached group add up to
(`GopInv`), by what a player that has one kind only has been given (`WaitInv`), and, while
it is slow, by its clocks that stand still (`ClockInv`).  The bound of `InSync` is the
one all of these have in common: two intervals for the start and two for each gap,
and one step for each time the publisher went back.

The proofs about `ChunkReader` are for any channels, messages, chunk sizes and changes of
size, and for every peer, the one that does the two unforeseen things included.

`ChunkReaderTypes` has what holds in any case.  `Sound` says that the reader knows the
channel it reads for, never asks for more of a message than is left, and that only the
last bucket of a channel may wait to be merged; it is inductive with `TypeOK`
(`ReaderSound`), since `Misread` takes the cases in which a part does not fit.  `TagsMatch`
has an invariant of its own about the names that buckets carry (`Named`): while a stream
is published, the complete buckets carry its name on all channels but those that had
one when the application published.

`ChunkReaderProofs` has what holds until something unforeseen happens.  The
reader is in step when it and the peer agree on what the bytes between them mean.
A *stand* is a place in what a peer writes: which part is next, of which chunk of which
message, and what is left of every message.  `Follows` says which stand comes after
which, whoever sends; `Path` is a sequence of stands along a sequence of parts.  The
invariant (`ReaderInv`) is that the wire is a path from a stand that fits the reader's
variables (`Reads`) to one that fits the peer's (`Now`), or to the chunk with which the
peer broke the format; that the reader has hung up on nobody else; and that the
message handed on last was whole (`Full`).  A step of the peer lengthens the path at its
end, a step of the reader shortens it at its beginning, and neither lemma mentions the
other side.  `Joined` quantifies over stands and paths, so TLC cannot evaluate it; what
TLC checks are its consequences.  The arithmetic of buckets needs that a supported
chunk size divides the bucket or is a multiple of it, which is what `SizeOK` says, and
that a bucket that waits has room for a chunk of the present size, which is what a
change of size in the middle of another message takes away.
The theorem about it (`ReaderInvariant`) is `~unforeseen => ReaderInv`: nothing the peer
does later makes `unforeseen` false again.  From it follow `InStep`,
`FullBuckets` and `OnlyCulpritsCut`, which say so themselves, and
`ReaderKeepsPromise`: every step of the reader and the peer is one of
`MessageChannels` or leaves its variables alone.  `AlwaysInStep` and `RoomForChunk`
(section 3) show that neither exception can be left out.

Three things were put into the models for the proofs, none of them a change of
behaviour: assumptions that `None` is different from the values it stands beside, and
that clocks start within their bound (`ChunkPool`, `StreamClock`, `ChunkReader`); types
that say what `handed`, `channels`, `told`, `held` and `stream_id_flag` hold; and in
`FullBuckets` that the buckets of a message together hold the whole of it, which the
proof needed and TLC confirms.

Model-checked only: liveness (`ClosedClientsGo`, `SlowPlayersResume`,
`SilentSessionsEnd`, `CallsAnswered`, `CulpritsCut`, the fairness in
`ImplementsChannels`), which is beyond the prover.  Every safety property of a passing
run is a theorem.  The bounds of the runs do not enter any theorem except where a
constant is named in its hypotheses.

## 5. Not modelled

- The re-entrant `unpublish()` described above, the callback of `enable_av_cb`
  (`throwup_av_info`), and calls on a client after its "close" event: hazards with a
  note.
- The publish and play of `edge` and `push` in the hub of their own server, where
  they skip the guards of `publish` and `play`; `RelaySession` has their side of the
  connection.  `send_stream_begin`, `send_stream_eof`, `pause`.
- What `alloc_chunk_bucket` returns when the pool is empty and may not grow: the
  sentinel of the queue, taken for a bucket.  `ChunkPool` stops before it.
- Acknowledgements of the window (`src/RtmpProtocol.cpp`): byte counts that nothing
  in the code waits for.
- The chunk ids a source keeps, `copy_aac_sh_data` and the text of the metadata, of
  which only the place of the time of day is modelled.
- Failures of `malloc` (the process exits), of `uv_write` at the call, of
  `uv_listen`; the digests of the handshake; the encoding of AMF; the logger.
- What a reader that is out of step, or has written past its bucket, makes of the rest
  of a connection (`Misread`, `Wander`).
- In `StreamClock`: messages that begin with a type 3 chunk, groups that begin without a
  key frame, and times that go back by more than one unit; the first two are in
  `PlayerFlow`, where nothing is said of clocks.
- `src/server_c.cpp`, which the build does not use, the examples, and the vendored
  code in `include/` (librtmp, spdlog with fmt, uv), which is about three quarters of all
  lines of C and C++ in the repository.  Of the project's own `src/` and `bls.js` more
  than half of the lines are mapped to a definition; most of the rest encodes or
  decodes bytes, converts arguments between JavaScript and C++, or logs.

## 6. The plan

Done: `PubSub` and `StreamHub` with the refinement and its proof; `PlayerFlow`;
`ClientLifecycle`; `ChunkPool`; `ChunkReader` with `MessageChannels` and the names of
streams that chunks carry; `StreamClock`; `RelaySession`.  Proofs of all
safety properties and type invariants, and of both refinements as far as safety goes.

Left, in this order:

1. `unpublish()` from the "play_stop_event" of the same stream, and the callback of
   `enable_av_cb`, both as actions of `StreamHub` under a constant that says whether the
   application does it.
2. A relay composed of two hubs: `edge` and `push` as publisher and player at both
   ends, `RelaySession` between them.
3. That `ClientLifecycle` implements an abstract connection.
