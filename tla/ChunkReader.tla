----------------------------- MODULE ChunkReader -----------------------------
(***************************************************************************)
(* How RtmpProtocol reads the chunks a peer sends: chunk_state_machine     *)
(* asks the socket for exactly the bytes of the next part of a chunk       *)
(* (read_n) and decides from them what the part after it is, so one wrong  *)
(* length and it takes payload for headers for ever after.  Payload is     *)
(* gathered in buckets of DEFAULT_CHUNK_BUCKET_SIZE bytes, whatever chunk  *)
(* size the peer uses: small chunks are merged into one bucket, a chunk    *)
(* larger than a bucket is read in several.  A message whose last byte has *)
(* come is decoded; the buckets of an audio or video message go on to the  *)
(* players as they are, each as one chunk.                                 *)
(*                                                                         *)
(* The peer may interleave the chunks of different channels.  The socket   *)
(* delivers the bytes in order, so the reader acts when a whole part is    *)
(* there.  A byte of the model stands for 2048 bytes of the code when      *)
(* DEFAULT_CHUNK_BUCKET_SIZE is 4; a header is one part whatever its size. *)
(*                                                                         *)
(* Two things RTMP 1.0 lets a peer do the reader does not foresee: to      *)
(* repeat the extended timestamp in the chunks of type 3, and to change    *)
(* the chunk size while a message is under way on another channel.  The    *)
(* peer of the model does both; unforeseen records that it has.            *)
(***************************************************************************)
EXTENDS Naturals, Sequences, SequencesExt

CONSTANTS
  None,
  Channel,                    \* chunk ids the peer uses
  ExtendedCid,                \* those whose id follows the basic header (0 or 1
                              \* in its six bits)
  ControlCid,                 \* RTMP_CID_ProtocolControl
  Name,                       \* stream names the application publishes under
  DEFAULT_CHUNK_BUCKET_SIZE,  \* 8192 in the code
  DEFAULT_CHUNK_SIZE,         \* 128 in the code
  RTMP_CHUNK_EXTENDED_TIMESTAMP, \* 0xFFFFFF in the code
  Modulus,                    \* 2^32: timestamps are uint32_t
  PeerSizes,                  \* chunk sizes the peer may ask for
  Lengths,                    \* lengths of audio and video messages
  ControlLength,              \* length of a Set Chunk Size message
  Steps,                      \* time from one message of a channel to the next
  MaxMessages,                \* bound on the audio and video messages
  MaxSizes,                   \* bound on the changes of the chunk size
  MaxNames,                   \* bound on how often the application publishes
  MaxWire                     \* bound on the parts in the socket

\* Chunk sizes that BLS supports.  A payload that is no size (None) is none.
SizeOK(n) ==
  /\ n # None /\ n # 0
  /\ n > DEFAULT_CHUNK_BUCKET_SIZE => n % DEFAULT_CHUNK_BUCKET_SIZE = 0
  /\ n < DEFAULT_CHUNK_BUCKET_SIZE => DEFAULT_CHUNK_BUCKET_SIZE % n = 0

Stamp == 0..(Modulus - 1)

Message ==
  [type : {"av"}, len : Lengths, ts : Stamp, val : {None}]
    \cup [type : {"set_chunk_size"}, len : {ControlLength}, ts : Stamp, val : PeerSizes]

\* A rtmp_channel_t: the header of its message and the buckets gathered so far.
ChannelState ==
  [header : [type : {None, "av", "set_chunk_size"}, len : Nat, recv : Nat,
             ts : Stamp, delta : Nat],
   chain : Seq([cid : Channel, fmt : 0..3, fill : Nat, val : PeerSizes \cup {None},
                tag : Name \cup {None}, state : {"end", "merge"}])]

\* A message that is handed on, with the buckets that hold it.
Handed ==
  [cid : Channel,
   msg : [type : {"av", "set_chunk_size"}, len : Nat, ts : Nat, val : PeerSizes \cup {None}],
   to : Name \cup {None}, fills : Seq(Nat), tags : SUBSET (Name \cup {None}),
   renamed : BOOLEAN]

ASSUME SizeAssumption ==
  /\ DEFAULT_CHUNK_BUCKET_SIZE \in Nat \ {0}
  /\ DEFAULT_CHUNK_SIZE \in Nat \ {0} /\ SizeOK(DEFAULT_CHUNK_SIZE)
  /\ PeerSizes \subseteq Nat
  /\ Lengths \subseteq Nat \ {0}
  /\ ControlLength \in Nat \ {0}
ASSUME TimeAssumption ==
  /\ Modulus \in Nat \ {0}
  /\ RTMP_CHUNK_EXTENDED_TIMESTAMP \in 1..(Modulus - 1)
  /\ Steps \subseteq 0..(Modulus - 1)
ASSUME ChannelAssumption ==
  /\ ExtendedCid \subseteq Channel /\ ControlCid \in Channel
  /\ None \notin Channel \cup Name \cup Nat \cup Message \cup ChannelState \cup Handed

VARIABLES
  wire,             \* parts the peer has sent and the reader has not read
  peer,             \* peer[c]: header, message and rest of what the peer sends on c
  peer_size,        \* chunk size the peer sends with
  peer_state,       \* "sending"; "broken": it broke a rule of the format and stops
  stamped,          \* channels whose last header had an extended timestamp
  unforeseen,       \* history: the peer has repeated an extended timestamp, or
                    \* changed the chunk size in the middle of a message
  flight,           \* history: flight[c], messages sent to the last byte and
                    \* not decoded yet
  begun,            \* how many messages of each type the peer has begun
  state,            \* current_chunk->state, "closed", or "lost": what the
                    \* reader asked for is not what came
  want,             \* payload bytes asked of read_n
  current_chunk,
  current_channel,
  channels,         \* channels[c]: None or the header and chain of a rtmp_channel_t
  chunk_size,       \* client->chunk_size
  publishing,       \* stream name of publish_source, or None
  named,            \* how often the application has published
  renamed,          \* history: channels where a bucket of the message under way
                    \* was complete when the application published
  handed            \* history: the last message decoded, its channel, the stream
                    \* it went to, the fill and tag of its buckets, and whether
                    \* the application published in the middle of it

peerVars == <<peer, peer_size, peer_state, stamped, unforeseen, begun>>
readVars == <<state, want, current_chunk, current_channel, channels, chunk_size>>
history  == <<flight, handed, renamed>>
appVars  == <<publishing, named>>
vars     == <<wire, peerVars, readVars, appVars, history>>

-----------------------------------------------------------------------------
(* The peer. *)

Least(a, b) == IF a < b THEN a ELSE b

Basic(c, fmt) ==
  IF c \in ExtendedCid
    THEN <<[part |-> "basic", cid |-> None, fmt |-> fmt],
           [part |-> "ext_basic", cid |-> c]>>
    ELSE <<[part |-> "basic", cid |-> c, fmt |-> fmt]>>

Payload(n, val) == <<[part |-> "payload", n |-> n, val |-> val]>>

\* The header carries the time itself (fmt 0) or the step since the message
\* before; a value that does not fit in three bytes follows in four more.
Header(fmt, m, step) ==
  LET time == IF fmt = 0 THEN m.ts ELSE step
      long == time >= RTMP_CHUNK_EXTENDED_TIMESTAMP
      field == IF long THEN RTMP_CHUNK_EXTENDED_TIMESTAMP ELSE time
      head == [part |-> "header", type |-> m.type, len |-> m.len, time |-> field]
  IN  IF fmt = 3 THEN <<>>
      ELSE IF long THEN <<head, [part |-> "time", time |-> time]>> ELSE <<head>>

\* Chunk c starts or goes on with at most peer_size bytes of a message.
Chunk(c, fmt, m, step, left) ==
  Basic(c, fmt) \o Header(fmt, m, step) \o Payload(Least(left, peer_size), m.val)

Silent == [last |-> None, msg |-> None, left |-> 0]
Idle(c) == peer[c].left = 0
\* The header formats the peer may use for message m, step after the last.
Formats(c, m, step) ==
  LET last == peer[c].last
  IN  {0} \cup (IF last = None THEN {}
                ELSE {1} \cup IF [m EXCEPT !.ts = last.ts, !.val = last.val] # last THEN {}
                              ELSE {2} \cup IF step = 0 THEN {3} ELSE {})

\* RTMP 1.0 has the extended timestamp of a channel in its chunks of type 3 too.
ChunkAgain(c, m, left) ==
  Basic(c, 3) \o <<[part |-> "time", time |-> m.ts]>>
    \o Payload(Least(left, peer_size), m.val)

\* What the peer has sent of m after one more chunk, with or without a repeated
\* timestamp; a chunk size takes effect with the last byte of the message that
\* announces it, whatever is under way on the other channels.
Sent(c, m, left, again) ==
  LET rest == left - Least(left, peer_size)
      resized == rest = 0 /\ m.type = "set_chunk_size" /\ SizeOK(m.val)
  IN  /\ peer' = [peer EXCEPT ![c] =
                    [last |-> m, msg |-> IF rest = 0 THEN None ELSE m, left |-> rest]]
      /\ flight' = IF rest = 0 THEN [flight EXCEPT ![c] = Append(@, m)] ELSE flight
      /\ peer_size' = IF resized THEN m.val ELSE peer_size
      /\ unforeseen' = (unforeseen \/ again
                          \/ (resized /\ \E d \in Channel \ {c} : ~Idle(d)))

PeerSends(parts) ==
  /\ peer_state = "sending"
  /\ state \notin {"closed", "lost"}
  /\ Len(wire) + Len(parts) <= MaxWire
  /\ wire' = wire \o parts

SendsChunk(c, fmt, m, step, left) ==
  \/ /\ PeerSends(Chunk(c, fmt, m, step, left))
     /\ Sent(c, m, left, FALSE)
  \/ /\ fmt = 3 /\ c \in stamped
     /\ PeerSends(ChunkAgain(c, m, left))
     /\ Sent(c, m, left, TRUE)

Begin(c) ==
  \E m \in Message, step \in Steps :
    LET last == peer[c].last
    IN  /\ c = ControlCid <=> m.type = "set_chunk_size"
        /\ m.type = "set_chunk_size" => step = 0
        /\ Idle(c)
        /\ begun[m.type] < IF m.type = "av" THEN MaxMessages ELSE MaxSizes
        /\ begun' = [begun EXCEPT ![m.type] = @ + 1]
        /\ m.ts = ((IF last = None THEN 0 ELSE last.ts) + step) % Modulus
        /\ \E fmt \in Formats(c, m, step) :
             /\ SendsChunk(c, fmt, m, step, m.len)
             /\ stamped' = IF fmt = 3 THEN stamped
                           ELSE IF Len(Header(fmt, m, step)) > 1 THEN stamped \cup {c}
                           ELSE stamped \ {c}
        /\ UNCHANGED <<peer_state, readVars, appVars, handed, renamed>>

Continue(c) ==
  /\ ~Idle(c)
  /\ SendsChunk(c, 3, peer[c].msg, 0, peer[c].left)
  /\ UNCHANGED <<peer_state, stamped, begun, readVars, appVars, handed, renamed>>

\* The peer breaks a rule: it opens a channel without a full header, begins a
\* message before the last one ends, or announces an empty message.
Break(c) ==
  /\ \/ /\ peer[c].last = None
        /\ \E fmt \in {2, 3} : PeerSends(Basic(c, fmt) \o
             IF fmt = 3 THEN <<>>
             ELSE <<[part |-> "header", type |-> "av", len |-> 0, time |-> 0]>>)
     \/ /\ ~Idle(c)
        /\ PeerSends(Basic(c, 0) \o Header(0, peer[c].msg, 0))
     \/ /\ Idle(c)
        /\ PeerSends(Basic(c, 0) \o
             <<[part |-> "header", type |-> "av", len |-> 0, time |-> 0]>>)
  /\ peer_state' = "broken"
  /\ UNCHANGED <<peer, peer_size, stamped, unforeseen, begun, readVars, appVars, history>>

-----------------------------------------------------------------------------
(* The reader. *)

Bucket(c, fmt) == [cid |-> c, fmt |-> fmt, fill |-> 0, val |-> None, tag |-> None,
                   state |-> "reading"]

expect_payload_len(h, size) ==
  Least(Least(h.len - h.recv, size), DEFAULT_CHUNK_BUCKET_SIZE)

\* The next thing in the socket is the part the reader waits for.
Next_is(part) ==
  /\ state = part
  /\ wire # <<>>
  /\ Head(wire).part = part

AskPayload(ch, b) ==
  /\ state' = "payload"
  /\ want' = expect_payload_len(ch.header, chunk_size)
  /\ current_chunk' = b

\* RtmpClient::close.  What the protocol object holds is of no use any more.
Close ==
  /\ state' = "closed"
  /\ channels' = [c \in Channel |-> None]
  /\ UNCHANGED <<want, current_chunk, current_channel>>

\* case CHUNK_STATE_READ_MESSAGE_HEADER, with the header f just read (None for
\* a chunk of type 3, which has none).
NewChannel == [header |-> [type |-> None, len |-> 0, recv |-> 0, ts |-> 0, delta |-> 0],
               chain |-> <<>>]

\* Mutant: the time of a full header is added to the last one.
HeaderAfterAdding(h, fmt, f) ==
  LET h1 == IF fmt <= 1 THEN [h EXCEPT !.type = f.type, !.len = f.len] ELSE h
  IN  [h1 EXCEPT !.delta = IF fmt = 3 THEN 0 ELSE f.time]

HeaderAfter(h, fmt, f) ==
  LET h1 == IF fmt <= 1 THEN [h EXCEPT !.type = f.type, !.len = f.len] ELSE h
      h0 == IF fmt = 0 THEN [h1 EXCEPT !.ts = 0] ELSE h1
  IN  [h0 EXCEPT !.delta = IF fmt = 3 THEN 0 ELSE f.time]

\* Mutant: without the width of a timestamp.
AddDeltaWide(h) == [h EXCEPT !.ts = @ + h.delta]

AddDelta(h) == [h EXCEPT !.ts = (@ + h.delta) % Modulus]

MergesInto(ch, fmt) ==
  /\ fmt = 3
  /\ ch.chain # <<>>
  /\ Last(ch.chain).state = "merge"

\* Mutants: messages end unnoticed; messages under way are not watched.
OutOfPlaceOften(c, fmt) == IF channels[c] = None THEN fmt > 1 ELSE fmt # 3
OutOfPlaceFirst(c, fmt) == channels[c] = None /\ fmt > 1

\* The first chunk of a channel needs a length, a message under way goes on
\* with type 3.
OutOfPlace(c, fmt) ==
  IF channels[c] = None THEN fmt > 1
  ELSE channels[c].header.recv # 0 /\ fmt # 3

TakeHeader(b, f) ==
  LET c  == b.cid
      ch == IF channels[c] = None THEN NewChannel ELSE channels[c]
      h  == HeaderAfter(ch.header, b.fmt, f)
  IN  IF OutOfPlace(c, b.fmt) \/ (~MergesInto(ch, b.fmt) /\ h.len = 0)
      THEN Close
      ELSE /\ current_channel' = c
           /\ IF MergesInto(ch, b.fmt)
              THEN /\ AskPayload(ch, [Last(ch.chain) EXCEPT !.state = "reading"])
                   /\ channels' = [channels EXCEPT ![c].chain = Front(@)]
              ELSE IF h.delta = RTMP_CHUNK_EXTENDED_TIMESTAMP
              THEN /\ state' = "time"
                   /\ current_chunk' = b
                   /\ channels' = [channels EXCEPT ![c] = [ch EXCEPT !.header = h]]
                   /\ UNCHANGED want
              ELSE LET ch2 == [ch EXCEPT !.header = AddDelta(h)]
                   IN  /\ AskPayload(ch2, b)
                       /\ channels' = [channels EXCEPT ![c] = ch2]

ReadBasic ==
  /\ Next_is("basic")
  /\ LET p == Head(wire)
         b == Bucket(p.cid, p.fmt)
     IN  IF p.cid # None /\ p.fmt = 3 THEN TakeHeader(b, None)
         ELSE /\ state' = IF p.cid = None THEN "ext_basic" ELSE "header"
              /\ current_chunk' = b
              /\ UNCHANGED <<want, current_channel, channels>>
  /\ wire' = Tail(wire)
  /\ UNCHANGED <<chunk_size, peerVars, appVars, history>>

ReadExtBasic ==
  /\ Next_is("ext_basic")
  /\ LET b == [current_chunk EXCEPT !.cid = Head(wire).cid]
     IN  IF b.fmt = 3 THEN TakeHeader(b, None)
         ELSE /\ state' = "header"
              /\ current_chunk' = b
              /\ UNCHANGED <<want, current_channel, channels>>
  /\ wire' = Tail(wire)
  /\ UNCHANGED <<chunk_size, peerVars, appVars, history>>

ReadHeader ==
  /\ Next_is("header")
  /\ TakeHeader(current_chunk, Head(wire))
  /\ wire' = Tail(wire)
  /\ UNCHANGED <<chunk_size, peerVars, appVars, history>>

ReadTime ==
  /\ Next_is("time")
  /\ LET ch  == channels[current_channel]
         ch2 == [ch EXCEPT !.header = AddDelta([@ EXCEPT !.delta = Head(wire).time])]
     IN  /\ AskPayload(ch2, current_chunk)
         /\ channels' = [channels EXCEPT ![current_channel] = ch2]
  /\ wire' = Tail(wire)
  /\ UNCHANGED <<current_channel, chunk_size, peerVars, appVars, history>>

\* Mutant: a header after every bucket.
ExpectChunkHeader(ch, size) ==
  /\ state' = "basic"
  /\ want' = 0
  /\ current_chunk' = Bucket(None, 0)

\* expect_chunk: a chunk larger than a bucket goes on in the next bucket
\* without a header; otherwise a chunk begins.
ExpectChunk(ch, size) ==
  IF /\ size > DEFAULT_CHUNK_BUCKET_SIZE
     /\ ch.header.recv % size # 0
     /\ ch.header.recv < ch.header.len
  THEN /\ state' = "payload"
       /\ want' = expect_payload_len(ch.header, size)
       /\ current_chunk' = Bucket(Last(ch.chain).cid, 3)
  ELSE /\ state' = "basic"
       /\ want' = 0
       /\ current_chunk' = Bucket(None, 0)

\* What msg_decode makes of a whole message: the history keeps what a player
\* of the stream is handed, bucket by bucket.
Decoded(c, h, chain) ==
  [cid |-> c,
   msg |-> [type |-> h.type, len |-> h.len, ts |-> h.ts, val |-> Head(chain).val],
   to |-> publishing,
   fills |-> [i \in DOMAIN chain |-> chain[i].fill],
   tags |-> {chain[i].tag : i \in DOMAIN chain},
   renamed |-> c \in renamed]

\* Mutant: one chunk too early.
BucketEndsEarly(fill, whole) ==
  whole \/ DEFAULT_CHUNK_BUCKET_SIZE - fill <= chunk_size

\* A bucket is done with the message, or when it has no room for a chunk more.
BucketEnds(fill, whole) ==
  whole \/ DEFAULT_CHUNK_BUCKET_SIZE - fill < chunk_size

\* Mutant: only the last bucket of a message is named.
FilledUntagged(b, n, val, whole) ==
  [b EXCEPT !.fill = @ + n, !.val = val,
            !.state = IF BucketEnds(b.fill + n, whole) THEN "end" ELSE "merge",
            !.tag = IF whole THEN publishing ELSE None]

\* on_new_chunk names the stream a bucket belongs to when the bucket ends.
Filled(b, n, val, whole) ==
  LET ends == BucketEnds(b.fill + n, whole)
  IN  [b EXCEPT !.fill = @ + n, !.val = val,
                !.state = IF ends THEN "end" ELSE "merge",
                !.tag = IF ends THEN publishing ELSE None]

Restarted(h) == [header |-> [h EXCEPT !.recv = 0], chain |-> <<>>]

HasRoom == current_chunk.fill + want <= DEFAULT_CHUNK_BUCKET_SIZE

ReadPayload ==
  /\ Next_is("payload")
  /\ Head(wire).n >= want /\ HasRoom
  /\ wire' = (IF Head(wire).n = want THEN <<>>
              ELSE <<[Head(wire) EXCEPT !.n = @ - want]>>) \o Tail(wire)
  /\ LET c     == current_channel
         h     == [channels[c].header EXCEPT !.recv = @ + want]
         whole == h.recv = h.len
         chain == Append(channels[c].chain,
                         Filled(current_chunk, want, Head(wire).val, whole))
         m     == Decoded(c, h, chain)
         left  == IF whole THEN Restarted(h) ELSE [header |-> h, chain |-> chain]
         size  == IF whole /\ h.type = "set_chunk_size" /\ SizeOK(m.msg.val)
                    THEN m.msg.val ELSE chunk_size
     IN  /\ channels' = [channels EXCEPT ![c] = left]
         /\ IF whole THEN /\ handed' = m /\ renamed' = renamed \ {c}
                          /\ flight' = [flight EXCEPT ![c] = Tail(@)]
            ELSE UNCHANGED history
         /\ chunk_size' = size
         /\ IF whole /\ h.type = "set_chunk_size" /\ ~SizeOK(m.msg.val)
            THEN state' = "closed" /\ UNCHANGED <<want, current_chunk>>
            ELSE ExpectChunk(left, size)
  /\ UNCHANGED <<current_channel, peerVars, appVars>>

\* The reader asks for bytes that belong to different parts, or writes past the end
\* of a bucket: what it makes of the connection from here on is not modelled.
Misread ==
  /\ state \notin {"closed", "lost"}
  /\ wire # <<>>
  /\ Head(wire).part = state =>
       state = "payload" /\ (Head(wire).n < want \/ ~HasRoom)
  /\ state' = "lost"
  /\ UNCHANGED <<wire, want, current_chunk, current_channel, channels, chunk_size,
                 peerVars, appVars, history>>

\* It reads on, and may close the connection over what it takes for a header.
Wander ==
  /\ state = "lost"
  /\ wire # <<>>
  /\ wire' = <<>>
  /\ Close \/ UNCHANGED <<state, want, current_chunk, current_channel, channels>>
  /\ UNCHANGED <<chunk_size, peerVars, appVars, history>>

\* The socket fails or the peer is gone: read_n calls back with an error.
ReadFails ==
  /\ state # "closed"
  /\ Close
  /\ peer_state' = "left"
  /\ UNCHANGED <<wire, peer, peer_size, stamped, unforeseen, begun, chunk_size, appVars,
                 history>>

-----------------------------------------------------------------------------
(* The application. *)

\* Channels where a bucket of the message under way has its name already.
HalfNamed ==
  {c \in Channel : /\ channels[c] # None
                   /\ \E k \in DOMAIN channels[c].chain : channels[c].chain[k].state = "end"}

Publish(n) ==
  /\ state # "closed"
  /\ publishing = None
  /\ named < MaxNames
  /\ publishing' = n
  /\ named' = named + 1
  /\ renamed' = renamed \cup HalfNamed
  /\ UNCHANGED <<wire, peerVars, readVars, flight, handed>>

Unpublish ==
  /\ state # "closed"
  /\ publishing # None
  /\ publishing' = None
  /\ UNCHANGED <<wire, peerVars, readVars, named, history>>

-----------------------------------------------------------------------------
Init ==
  /\ wire = <<>>
  /\ peer = [c \in Channel |-> Silent]
  /\ peer_size = DEFAULT_CHUNK_SIZE
  /\ peer_state = "sending"
  /\ stamped = {}
  /\ unforeseen = FALSE
  /\ begun = [type \in {"av", "set_chunk_size"} |-> 0]
  /\ flight = [c \in Channel |-> <<>>]
  /\ state = "basic"
  /\ want = 0
  /\ current_chunk = Bucket(None, 0)
  /\ current_channel = None
  /\ channels = [c \in Channel |-> None]
  /\ chunk_size = DEFAULT_CHUNK_SIZE
  /\ publishing = None
  /\ named = 0
  /\ renamed = {}
  /\ handed = None

Peer == \E c \in Channel : Begin(c) \/ Continue(c) \/ Break(c)
Read == ReadBasic \/ ReadExtBasic \/ ReadHeader \/ ReadTime \/ ReadPayload
          \/ Misread \/ Wander
App  == (\E n \in Name : Publish(n)) \/ Unpublish

Next == Peer \/ Read \/ ReadFails \/ App

Spec == Init /\ [][Next]_vars

\* The loop reads what the socket holds; nobody is obliged to send or publish.
FairSpec == Spec /\ WF_vars(Read)

-----------------------------------------------------------------------------
(* Properties. *)

\* Types of the variables; a bucket handed to a chain is complete or to be
\* merged, never still being read, and no chain holds one for a message to come.
TypeOK ==
  /\ peer_state \in {"sending", "broken", "left"}
  /\ unforeseen \in BOOLEAN /\ stamped \subseteq Channel /\ renamed \subseteq Channel
  /\ state \in {"basic", "ext_basic", "header", "time", "payload", "closed", "lost"}
  /\ want \in Nat /\ chunk_size \in PeerSizes \cup {DEFAULT_CHUNK_SIZE}
  /\ current_channel \in Channel \cup {None}
  /\ channels \in [Channel -> ChannelState \cup {None}]
  /\ publishing \in Name \cup {None}
  /\ handed \in Handed \cup {None}

\* The reader is in step with the peer: what comes next in the socket is the part
\* it asks for, and never fewer payload bytes in this chunk than it asks for
\* (chunk_state_machine, expect_chunk, expect_payload_len).
Aligned ==
  state # "closed" /\ wire # <<>> =>
    /\ Head(wire).part = state
    /\ state = "payload" => want \in 1..Head(wire).n

\* The reader never falls out of step with a peer that leaves the extended
\* timestamp out of chunks of type 3 and changes the chunk size between messages.
InStep == ~unforeseen => Aligned

\* The docs have a BLS that takes streams of ffmpeg, and the parser a note that
\* long times are to be done: in step with any peer that follows RTMP 1.0?
AlwaysInStep == Aligned

\* Every byte of a chunk lands in its bucket: one that waits to be merged has
\* room for all that is asked for when the next chunk of its channel comes.
RoomForChunk == state = "payload" => HasRoom

\* Players are told that chunks hold DEFAULT_CHUNK_BUCKET_SIZE bytes, and get
\* each bucket as a chunk: all buckets of a message but the last are full, and
\* together they hold the message, whatever chunk sizes the publisher used; none
\* overflows.  The chunk size must not change in the middle of a message.
FullBuckets ==
  ~unforeseen =>
    /\ RoomForChunk
    /\ handed # None =>
      /\ \A k \in 1..(Len(handed.fills) - 1) :
           handed.fills[k] = DEFAULT_CHUNK_BUCKET_SIZE
      /\ (Len(handed.fills) - 1) * DEFAULT_CHUNK_BUCKET_SIZE + Last(handed.fills)
           = handed.msg.len

\* All buckets of an audio or video message that goes to a stream carry the
\* name of that stream.
Tagged ==
  handed # None /\ handed.to # None /\ handed.msg.type = "av" =>
    handed.tags = {handed.to}

\* They do, unless the application published when some bucket of the message was
\* complete already: the others, merged ones included, get the name in time.
TagsMatch == handed # None /\ ~handed.renamed => Tagged

\* consumer_send_video and consumer_send_audio assert it of every message.
TagsAlwaysMatch == Tagged

\* Only the end of the connection, a broken rule or an unsupported chunk size
\* makes the reader hang up; a peer that does nothing unforeseen is never cut off.
OnlyCulpritsCut ==
  state = "closed" =>
    \/ peer_state # "sending" \/ unforeseen
    \/ handed # None /\ handed.cid = ControlCid /\ ~SizeOK(handed.msg.val)

\* The reader keeps the promise of MessageChannels: messages arrive whole, once
\* and in order on each channel, with the time the peer gave them, and what is
\* sent is delivered while the connection stands and nothing unforeseen is sent.
Channels ==
  INSTANCE MessageChannels WITH
    handed <- IF handed = None THEN None ELSE <<handed.cid, handed.msg>>,
    up     <- state # "closed" /\ ~unforeseen
ImplementsChannels == Channels!Spec

\* A peer that breaks a rule of the format, and did nothing unforeseen before, is
\* cut off.
CulpritsCut == (peer_state = "broken" /\ ~unforeseen) ~> (state = "closed")
=============================================================================
