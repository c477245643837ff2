-------------------------- MODULE ChunkReaderTypes --------------------------
(***************************************************************************)
(* Proofs about ChunkReader that need nothing of the peer: the variables   *)
(* keep their types, and buckets their names, whatever it sends.           *)
(***************************************************************************)
EXTENDS ChunkReader, SequenceTheorems, TLAPS

-----------------------------------------------------------------------------
(* Parts, sizes and times. *)

\* A part of a chunk.
HeaderPart ==
  [part : {"header"}, type : {"av", "set_chunk_size"}, len : Nat, time : Nat]
Part ==
  [part : {"basic"}, cid : Channel \cup {None}, fmt : 0..3]
    \cup [part : {"ext_basic"}, cid : Channel]
    \cup HeaderPart
    \cup [part : {"time"}, time : Nat]
    \cup [part : {"payload"}, n : Nat, val : PeerSizes \cup {None}]

\* A bucket that payload is read into.
BucketState ==
  [cid : Channel, fmt : 0..3, fill : Nat, val : PeerSizes \cup {None},
   tag : Name \cup {None}, state : {"reading"}]

\* The header of a channel, and a bucket of its chain.
HeaderState ==
  [type : {None, "av", "set_chunk_size"}, len : Nat, recv : Nat, ts : Stamp, delta : Nat]
ChainBucket ==
  [cid : Channel, fmt : 0..3, fill : Nat, val : PeerSizes \cup {None},
   tag : Name \cup {None}, state : {"end", "merge"}]

\* The constants that lengths and sizes are compared with.
LEMMA Sizes ==
  /\ DEFAULT_CHUNK_BUCKET_SIZE \in Nat \ {0} /\ DEFAULT_CHUNK_SIZE \in Nat
  /\ SizeOK(DEFAULT_CHUNK_SIZE)
  /\ PeerSizes \cup {DEFAULT_CHUNK_SIZE} \subseteq Nat
  /\ Modulus \in Nat \ {0} /\ RTMP_CHUNK_EXTENDED_TIMESTAMP \in Nat \ {0}
  /\ \A m \in Message : /\ m.len \in Nat \ {0} /\ m.ts \in Nat /\ m.ts < Modulus
                        /\ m.val \in PeerSizes \cup {None}
                        /\ m.type \in {"av", "set_chunk_size"}
                        /\ m.type = "set_chunk_size" => m.val \in PeerSizes
<1>1. /\ DEFAULT_CHUNK_BUCKET_SIZE \in Nat \ {0} /\ DEFAULT_CHUNK_SIZE \in Nat
      /\ SizeOK(DEFAULT_CHUNK_SIZE) /\ PeerSizes \subseteq Nat
      /\ Lengths \subseteq Nat \ {0} /\ ControlLength \in Nat \ {0}
  BY SizeAssumption
<1>2. Modulus \in Nat \ {0} /\ RTMP_CHUNK_EXTENDED_TIMESTAMP \in Nat \ {0}
  BY TimeAssumption
<1>3. ASSUME NEW m \in Message
      PROVE  /\ m.len \in Nat \ {0} /\ m.ts \in Nat /\ m.ts < Modulus
             /\ m.val \in PeerSizes \cup {None}
             /\ m.type \in {"av", "set_chunk_size"}
             /\ m.type = "set_chunk_size" => m.val \in PeerSizes
  <2>1. /\ m.len \in Lengths \cup {ControlLength} /\ m.ts \in 0..(Modulus - 1)
        /\ m.val \in PeerSizes \cup {None} /\ m.type \in {"av", "set_chunk_size"}
        /\ m.type = "set_chunk_size" => m.val \in PeerSizes
    BY DEF Message, Stamp
  <2>2. m.len \in Nat \ {0}
    BY <1>1, <2>1
  <2>3. m.ts \in Nat /\ m.ts < Modulus
    BY <1>2, <2>1
  <2>. QED  BY <2>1, <2>2, <2>3
<1>. QED  BY <1>1, <1>2, <1>3

\* The smaller of two numbers.
LEMMA LeastIs ==
  ASSUME NEW a \in Nat, NEW b \in Nat
  PROVE  /\ Least(a, b) \in Nat /\ Least(a, b) <= a /\ Least(a, b) <= b
         /\ a <= b => Least(a, b) = a
         /\ b <= a => Least(a, b) = b
  BY DEF Least

-----------------------------------------------------------------------------
(* What holds of the reader whatever it is sent. *)

\* All buckets of a chain are complete.
AllEnd(chain) == \A k \in 1..Len(chain) : chain[k].state = "end"

\* A channel between two parts: its message has a type and is not whole yet, and
\* only the last bucket may wait to be merged, which takes a message under way.
SoundChannel(ch) ==
  /\ ch.header.type \in {"av", "set_chunk_size"}
  /\ ch.header.recv < ch.header.len
  /\ \A k \in 1..(Len(ch.chain) - 1) : ch.chain[k].state = "end"
  /\ ch.header.recv = 0 => ch.chain = <<>>

\* The parts on the wire are parts, and what the peer has still to send is a message.
SoundPeer ==
  /\ wire \in Seq(Part)
  /\ peer \in [Channel -> [last : Message \cup {None}, msg : Message \cup {None},
                           left : Nat]]
  /\ \A c \in Channel : peer[c].left # 0 => peer[c].msg \in Message
  /\ peer_size \in PeerSizes \cup {DEFAULT_CHUNK_SIZE}

\* The reader knows the channel of the chunk once it has its id, and never asks for
\* more than the message has left.
SoundReader ==
  /\ SizeOK(chunk_size)
  /\ current_chunk \in BucketState \cup {Bucket(None, fmt) : fmt \in 0..3}
  /\ state = "header" => current_chunk.cid \in Channel
  /\ \A c \in Channel : channels[c] # None => SoundChannel(channels[c])
  /\ state \in {"time", "payload"} =>
       /\ current_chunk.cid \in Channel /\ current_channel \in Channel
       /\ channels[current_channel] # None
       /\ AllEnd(channels[current_channel].chain)
       /\ state = "payload" =>
            /\ want # 0
            /\ channels[current_channel].header.recv + want
                 <= channels[current_channel].header.len

Sound == SoundPeer /\ SoundReader

\* While a stream is published, the complete buckets carry its name, on every
\* channel but those where one was complete when the application published.
Named ==
  publishing # None =>
    \A c \in Channel \ renamed : channels[c] # None =>
      \A k \in 1..Len(channels[c].chain) :
        channels[c].chain[k].state = "end" => channels[c].chain[k].tag = publishing

\* A channel has only buckets it had before.
KeepsBuckets(d) ==
  channels'[d] # None =>
    \/ channels'[d].chain = <<>>
    \/ /\ channels[d] # None
       /\ \A k \in 1..Len(channels'[d].chain) :
            /\ k \in 1..Len(channels[d].chain)
            /\ channels'[d].chain[k] = channels[d].chain[k]

\* What a step that reads a part of a header leaves.
HeaderRead ==
  /\ state' \in {"ext_basic", "header", "payload", "time", "closed"} /\ want' \in Nat
  /\ current_channel' \in Channel \cup {None}
  /\ channels' \in [Channel -> ChannelState \cup {None}]
  /\ SoundReader'
  /\ \A d \in Channel : KeepsBuckets(d)

\* The length asked for is a length, and the message has it left.
LEMMA Asked ==
  ASSUME NEW h \in HeaderState, h.recv < h.len, NEW size \in Nat, SizeOK(size)
  PROVE  LET w == expect_payload_len(h, size)
         IN  w \in Nat /\ w # 0 /\ h.recv + w <= h.len
<1>1. PICK x, y, w : x = h.recv /\ y = h.len /\ w = expect_payload_len(h, size)
  OBVIOUS
<1>2. x \in Nat /\ y \in Nat /\ x < y
  BY <1>1 DEF HeaderState
<1>3. w = Least(Least(y - x, size), DEFAULT_CHUNK_BUCKET_SIZE)
  BY <1>1 DEF expect_payload_len
<1>4. size # 0 /\ DEFAULT_CHUNK_BUCKET_SIZE \in Nat \ {0}
  BY Sizes DEF SizeOK
<1>5. y - x \in Nat /\ y - x # 0
  BY <1>2
<1>6. w \in Nat /\ w # 0 /\ w <= y - x
  BY <1>3, <1>4, <1>5 DEF Least
<1>. QED  BY <1>1, <1>2, <1>6

\* The connection is closed.
LEMMA CloseSound ==
  ASSUME TypeOK, SoundReader, Close, UNCHANGED chunk_size
  PROVE  HeaderRead
<1>1. /\ state' = "closed" /\ UNCHANGED <<want, current_chunk, current_channel>>
      /\ channels' = [c \in Channel |-> None]
  BY DEF Close
<1>2. SoundReader'
  BY <1>1 DEF SoundReader
<1>3. \A d \in Channel : KeepsBuckets(d)
  BY <1>1 DEF KeepsBuckets
<1>. QED  BY <1>1, <1>2, <1>3 DEF HeaderRead, TypeOK

\* A channel takes a header, and the reader goes on with it.
LEMMA Renewed ==
  ASSUME TypeOK, SoundReader, UNCHANGED chunk_size,
         NEW c \in Channel, NEW new \in ChannelState, SoundChannel(new), AllEnd(new.chain),
         NEW b \in BucketState,
         channels' = [channels EXCEPT ![c] = new], current_channel' = c, current_chunk' = b,
         \/ state' = "payload" /\ want' = expect_payload_len(new.header, chunk_size)
         \/ state' = "time" /\ UNCHANGED want,
         \/ new.chain = <<>>
         \/ /\ channels[c] # None
            /\ \A k \in 1..Len(new.chain) : /\ k \in 1..Len(channels[c].chain)
                                            /\ new.chain[k] = channels[c].chain[k]
  PROVE  HeaderRead
<1>1. \A d \in Channel : channels'[d] = IF d = c THEN new ELSE channels[d]
  BY DEF TypeOK
<1>2. channels' \in [Channel -> ChannelState \cup {None}] /\ new # None
  BY ChannelAssumption DEF TypeOK
<1>3. /\ chunk_size \in Nat /\ SizeOK(chunk_size) /\ new.header \in HeaderState
      /\ new.header.recv < new.header.len
  BY Sizes DEF TypeOK, SoundReader, ChannelState, HeaderState, SoundChannel
<1>4. /\ want' \in Nat
      /\ state' = "payload" => want' # 0 /\ new.header.recv + want' <= new.header.len
  BY <1>3, Asked DEF TypeOK
<1>5. SoundReader'
  <2>1. current_chunk' \in BucketState /\ current_chunk'.cid \in Channel
    BY DEF BucketState
  <2>2. \A d \in Channel : channels'[d] # None => SoundChannel(channels'[d])
    BY <1>1 DEF SoundReader
  <2>3. channels'[current_channel'] = new
    BY <1>1
  <2>. QED  BY <1>2, <1>3, <1>4, <2>1, <2>2, <2>3 DEF SoundReader
<1>6. ASSUME NEW d \in Channel  PROVE KeepsBuckets(d)
  <2>1. CASE d = c
    BY <1>1, <2>1 DEF KeepsBuckets
  <2>2. CASE d # c
    BY <1>1, <2>2 DEF KeepsBuckets
  <2>. QED  BY <2>1, <2>2
<1>. QED  BY <1>2, <1>4, <1>5, <1>6 DEF HeaderRead

\* A chunk is merged into the bucket that waits for it.
LEMMA MergeSound ==
  ASSUME TypeOK, SoundReader, UNCHANGED chunk_size, NEW b \in BucketState, NEW p,
         TakeHeader(b, p), state' # "closed", MergesInto(channels[b.cid], b.fmt),
         channels[b.cid] # None
  PROVE  HeaderRead
<1>1. PICK c, ch : c = b.cid /\ ch = channels[c]
  OBVIOUS
<1>2. /\ c \in Channel /\ ch \in ChannelState /\ SoundChannel(ch)
      /\ ch.chain # <<>> /\ Last(ch.chain).state = "merge"
  BY <1>1 DEF BucketState, TypeOK, SoundReader, MergesInto
<1>3. ch.header \in HeaderState /\ ch.chain \in Seq(ChainBucket)
  BY <1>2 DEF ChannelState, HeaderState, ChainBucket
<1>4. /\ Last(ch.chain) \in ChainBucket /\ Len(ch.chain) \in Nat \ {0}
      /\ Front(ch.chain) \in Seq(ChainBucket)
      /\ Len(Front(ch.chain)) = Len(ch.chain) - 1
      /\ \A k \in 1..(Len(ch.chain) - 1) : Front(ch.chain)[k] = ch.chain[k]
  <2>1. Last(ch.chain) \in ChainBucket /\ Len(ch.chain) \in Nat \ {0}
    BY <1>2, <1>3 DEF Last
  <2>2. \A k \in 1..(Len(ch.chain) - 1) : ch.chain[k] \in ChainBucket
    BY <1>3
  <2>3. /\ SubSeq(ch.chain, 1, Len(ch.chain) - 1) \in Seq(ChainBucket)
        /\ Len(SubSeq(ch.chain, 1, Len(ch.chain) - 1))
             = IF 1 <= Len(ch.chain) - 1 THEN Len(ch.chain) - 1 - 1 + 1 ELSE 0
        /\ \A i \in 1..(Len(ch.chain) - 1 - 1 + 1) :
             SubSeq(ch.chain, 1, Len(ch.chain) - 1)[i] = ch.chain[1 + i - 1]
    BY <2>1, <2>2, SubSeqProperties
  <2>. QED  BY <2>1, <2>3 DEF Front
<1>5. PICK new, r : /\ new = [ch EXCEPT !.chain = Front(@)]
                    /\ r = [Last(ch.chain) EXCEPT !.state = "reading"]
  OBVIOUS
<1>6. /\ new.header = ch.header /\ new.chain = Front(ch.chain) /\ new \in ChannelState
      /\ r \in BucketState
  BY <1>2, <1>3, <1>4, <1>5 DEF ChannelState, HeaderState, ChainBucket, BucketState
<1>7. /\ AskPayload(ch, r) /\ current_channel' = c
      /\ channels' = [channels EXCEPT ![c] = new]
  BY <1>1, <1>2, <1>5, ChannelAssumption DEF TakeHeader, Close, MergesInto
<1>8. SoundChannel(new) /\ AllEnd(new.chain)
  <2>1. \A k \in 1..(Len(ch.chain) - 1) : ch.chain[k].state = "end"
    BY <1>2 DEF SoundChannel
  <2>2. AllEnd(new.chain)
    BY <1>4, <1>6, <2>1 DEF AllEnd
  <2>3. /\ ch.header.type \in {"av", "set_chunk_size"} /\ ch.header.recv < ch.header.len
        /\ ch.header.recv # 0
    BY <1>2 DEF SoundChannel
  <2>4. \A k \in 1..(Len(new.chain) - 1) : k \in 1..Len(new.chain)
    BY <1>4, <1>6
  <2>. QED  BY <1>6, <2>2, <2>3, <2>4 DEF SoundChannel, AllEnd
<1>9. /\ state' = "payload" /\ want' = expect_payload_len(new.header, chunk_size)
      /\ current_chunk' = r
  BY <1>6, <1>7 DEF AskPayload
<1>10. channels[c] # None
       /\ \A k \in 1..Len(new.chain) : /\ k \in 1..Len(channels[c].chain)
                                       /\ new.chain[k] = channels[c].chain[k]
  BY <1>1, <1>4, <1>6
<1>. QED  BY <1>2, <1>6, <1>7, <1>8, <1>9, <1>10, Renewed

\* The time of a header with its step.
LEMMA StepAdded ==
  ASSUME NEW n \in HeaderState
  PROVE  /\ AddDelta(n) \in HeaderState /\ AddDelta(n).recv = n.recv
         /\ AddDelta(n).len = n.len /\ AddDelta(n).type = n.type
<1>1. Modulus \in Nat \ {0}
  BY Sizes
<1>2. n.ts \in Nat /\ n.delta \in Nat
  BY <1>1 DEF HeaderState, Stamp
<1>3. \A x, y \in Nat, z \in Nat \ {0} : (x + y) % z \in 0..(z - 1)
  OBVIOUS
<1>4. (n.ts + n.delta) % Modulus \in Stamp
  BY <1>1, <1>2, <1>3 DEF Stamp
<1>5. AddDelta(n) = [n EXCEPT !.ts = (n.ts + n.delta) % Modulus]
  BY DEF AddDelta
<1>. QED  BY <1>4, <1>5 DEF HeaderState

\* The header of a channel with the parts of header p.
LEMMA HeaderIs ==
  ASSUME NEW h \in HeaderState, NEW fmt \in 0..3, NEW p, fmt = 3 \/ p \in HeaderPart
  PROVE  LET n == HeaderAfter(h, fmt, p)
         IN  /\ n \in HeaderState /\ n.recv = h.recv /\ AddDelta(n) \in HeaderState
             /\ AddDelta(n).recv = h.recv /\ AddDelta(n).len = n.len
             /\ AddDelta(n).type = n.type
             /\ IF fmt <= 1 THEN n.type = p.type ELSE n.type = h.type /\ n.len = h.len
<1>1. Modulus \in Nat \ {0} /\ 0 \in Stamp
  BY Sizes DEF Stamp
<1>2. PICK n : n = HeaderAfter(h, fmt, p)
  OBVIOUS
<1>3. /\ n \in HeaderState /\ n.recv = h.recv
      /\ IF fmt <= 1 THEN n.type = p.type ELSE n.type = h.type /\ n.len = h.len
  <2> DEFINE h1 == IF fmt <= 1 THEN [h EXCEPT !.type = p.type, !.len = p.len] ELSE h
             h0 == IF fmt = 0 THEN [h1 EXCEPT !.ts = 0] ELSE h1
  <2>1. /\ h1 \in HeaderState /\ h1.recv = h.recv
        /\ IF fmt <= 1 THEN h1.type = p.type ELSE h1.type = h.type /\ h1.len = h.len
    <3>1. CASE fmt <= 1
      <4>1. p.type \in {"av", "set_chunk_size"} /\ p.len \in Nat
        BY <3>1 DEF HeaderPart
      <4>2. h1 = [h EXCEPT !.type = p.type, !.len = p.len]
        BY <3>1
      <4> HIDE DEF h1
      <4>. QED  BY <3>1, <4>1, <4>2 DEF HeaderState
    <3>2. CASE ~(fmt <= 1)
      BY <3>2
    <3>. QED  BY <3>1, <3>2
  <2> HIDE DEF h1
  <2>2. /\ h0 \in HeaderState /\ h0.recv = h1.recv /\ h0.type = h1.type /\ h0.len = h1.len
    BY <1>1, <2>1 DEF HeaderState
  <2>3. n = [h0 EXCEPT !.delta = IF fmt = 3 THEN 0 ELSE p.time]
    BY <1>2 DEF HeaderAfter, h1
  <2> HIDE DEF h0
  <2>4. (IF fmt = 3 THEN 0 ELSE p.time) \in Nat
    BY DEF HeaderPart
  <2>5. /\ n \in HeaderState /\ n.recv = h0.recv /\ n.type = h0.type /\ n.len = h0.len
    BY <2>2, <2>3, <2>4 DEF HeaderState
  <2>. QED  BY <2>1, <2>2, <2>5
<1>4. PICK d : d = AddDelta(n)
  OBVIOUS
<1>5. d \in HeaderState /\ d.recv = n.recv /\ d.len = n.len /\ d.type = n.type
  BY <1>3, <1>4, StepAdded
<1>. QED  BY <1>2, <1>3, <1>4, <1>5

\* A chunk gets a bucket of its own.
LEMMA OpensSound ==
  ASSUME TypeOK, SoundReader, UNCHANGED chunk_size, NEW b \in BucketState,
         NEW p, b.fmt = 3 \/ p \in HeaderPart,
         TakeHeader(b, p), state' # "closed",
         ~(channels[b.cid] # None /\ MergesInto(channels[b.cid], b.fmt))
  PROVE  HeaderRead
<1>1. PICK c, ch, h : /\ c = b.cid
                      /\ ch = IF channels[c] = None THEN NewChannel ELSE channels[c]
                      /\ h = HeaderAfter(ch.header, b.fmt, p)
  OBVIOUS
<1>2. /\ c \in Channel /\ b.fmt \in 0..3
      /\ channels[c] # None => channels[c] \in ChannelState /\ SoundChannel(channels[c])
  BY <1>1 DEF BucketState, TypeOK, SoundReader
<1>3. /\ NewChannel \in ChannelState /\ NewChannel.chain = <<>>
      /\ NewChannel.header.recv = 0
  BY Sizes DEF NewChannel, ChannelState, Stamp
<1>4. ch \in ChannelState
  BY <1>1, <1>2, <1>3
<1>5. ch.header \in HeaderState /\ ch.chain \in Seq(ChainBucket)
  BY <1>4 DEF ChannelState, HeaderState, ChainBucket
<1>6. ~MergesInto(ch, b.fmt)
  BY <1>1, <1>3 DEF MergesInto
<1>7. ~OutOfPlace(c, b.fmt) /\ h.len # 0
  BY <1>1, <1>6 DEF TakeHeader, Close
<1>8. /\ h \in HeaderState /\ h.recv = ch.header.recv
      /\ AddDelta(h) \in HeaderState /\ AddDelta(h).recv = ch.header.recv
      /\ AddDelta(h).len = h.len /\ AddDelta(h).type = h.type
      /\ IF b.fmt <= 1 THEN h.type = p.type
         ELSE h.type = ch.header.type /\ h.len = ch.header.len
  <2>1. PICK g, fmt : g = ch.header /\ fmt = b.fmt
    OBVIOUS
  <2>2. g \in HeaderState /\ fmt \in 0..3 /\ (fmt = 3 \/ p \in HeaderPart)
    BY <1>2, <1>5, <2>1
  <2>3. h = HeaderAfter(g, fmt, p)
    BY <1>1, <2>1
  <2>4. /\ h \in HeaderState /\ h.recv = g.recv /\ AddDelta(h) \in HeaderState
        /\ AddDelta(h).recv = g.recv /\ AddDelta(h).len = h.len
        /\ AddDelta(h).type = h.type
        /\ IF fmt <= 1 THEN h.type = p.type ELSE h.type = g.type /\ h.len = g.len
    BY <2>2, <2>3, HeaderIs
  <2>. QED  BY <2>1, <2>4
<1>9. /\ h.type \in {"av", "set_chunk_size"} /\ h.recv < h.len
      /\ h.recv = 0 => ch.chain = <<>>
  <2>1. h.recv \in Nat /\ h.len \in Nat
    BY <1>8 DEF HeaderState
  <2>2. CASE channels[c] = None
    BY <1>1, <1>2, <1>3, <1>7, <1>8, <2>1, <2>2 DEF OutOfPlace, HeaderPart
  <2>3. CASE channels[c] # None
    <3>1. /\ ch.header.type \in {"av", "set_chunk_size"} /\ ch.header.recv < ch.header.len
          /\ ch.header.recv = 0 => ch.chain = <<>>
      BY <1>1, <1>2, <2>3 DEF SoundChannel
    <3>2. h.recv # 0 => b.fmt = 3
      BY <1>1, <1>7, <1>8, <2>3 DEF OutOfPlace
    <3>. QED  BY <1>2, <1>7, <1>8, <2>1, <3>1, <3>2 DEF HeaderPart
  <2>. QED  BY <2>2, <2>3
<1>10. AllEnd(ch.chain) /\ \A k \in 1..(Len(ch.chain) - 1) : ch.chain[k].state = "end"
  <2>1. CASE ch.chain = <<>>
    BY <2>1 DEF AllEnd
  <2>2. CASE ch.chain # <<>>
    <3>1. ch = channels[c] /\ channels[c] # None /\ SoundChannel(ch)
      BY <1>1, <1>2, <1>3, <2>2
    <3>2. b.fmt = 3
      BY <1>1, <1>7, <2>2, <3>1 DEF OutOfPlace, SoundChannel
    <3>3. Len(ch.chain) \in Nat \ {0} /\ Last(ch.chain) = ch.chain[Len(ch.chain)]
          /\ ch.chain[Len(ch.chain)].state \in {"end", "merge"}
      <4>1. Len(ch.chain) \in Nat \ {0} /\ ch.chain[Len(ch.chain)] \in ChainBucket
        BY <1>5, <2>2
      <4>. QED  BY <4>1 DEF Last, ChainBucket
    <3>4. ch.chain[Len(ch.chain)].state = "end"
      BY <1>6, <2>2, <3>2, <3>3 DEF MergesInto
    <3>. QED  BY <3>1, <3>3, <3>4 DEF SoundChannel, AllEnd
  <2>. QED  BY <2>1, <2>2
<1>11. ch.chain = <<>> \/ (channels[c] # None /\ ch = channels[c])
  BY <1>1, <1>3
<1>12. CASE h.delta = RTMP_CHUNK_EXTENDED_TIMESTAMP
  <2>1. PICK new : new = [ch EXCEPT !.header = h]
    OBVIOUS
  <2>2. new \in ChannelState /\ new.header = h /\ new.chain = ch.chain
    BY <1>4, <1>8, <2>1 DEF ChannelState, HeaderState
  <2>3. /\ current_channel' = c /\ state' = "time" /\ current_chunk' = b
        /\ channels' = [channels EXCEPT ![c] = new] /\ UNCHANGED want
    BY <1>1, <1>6, <1>7, <1>12, <2>1 DEF TakeHeader
  <2>4. SoundChannel(new) /\ AllEnd(new.chain)
    BY <1>9, <1>10, <2>2 DEF SoundChannel
  <2>5. \A k \in 1..Len(ch.chain) : k \in 1..Len(ch.chain) /\ new.chain[k] = ch.chain[k]
    BY <2>2
  <2>. QED  BY <1>2, <1>11, <2>2, <2>3, <2>4, <2>5, Renewed
<1>13. CASE h.delta # RTMP_CHUNK_EXTENDED_TIMESTAMP
  <2>1. PICK new : new = [ch EXCEPT !.header = AddDelta(h)]
    OBVIOUS
  <2>2. new \in ChannelState /\ new.header = AddDelta(h) /\ new.chain = ch.chain
    BY <1>4, <1>8, <2>1 DEF ChannelState, HeaderState
  <2>3. /\ current_channel' = c /\ AskPayload(new, b)
        /\ channels' = [channels EXCEPT ![c] = new]
    BY <1>1, <1>6, <1>7, <1>13, <2>1 DEF TakeHeader
  <2>4. SoundChannel(new) /\ AllEnd(new.chain)
    BY <1>8, <1>9, <1>10, <2>2 DEF SoundChannel
  <2>5. \A k \in 1..Len(ch.chain) : k \in 1..Len(ch.chain) /\ new.chain[k] = ch.chain[k]
    BY <2>2
  <2>. QED  BY <1>2, <1>11, <2>2, <2>3, <2>4, <2>5, Renewed DEF AskPayload
<1>. QED  BY <1>12, <1>13

\* A header is taken.
LEMMA HeaderSound ==
  ASSUME TypeOK, SoundReader, UNCHANGED chunk_size, NEW b \in BucketState,
         NEW p, b.fmt = 3 \/ p \in HeaderPart, TakeHeader(b, p)
  PROVE  HeaderRead
<1>1. CASE state' = "closed"
  <2>1. Close
    BY <1>1 DEF TakeHeader, AskPayload
  <2>. QED  BY <2>1, CloseSound
<1>2. CASE state' # "closed"
  BY <1>2, MergeSound, OpensSound
<1>. QED  BY <1>1, <1>2

-----------------------------------------------------------------------------
(* The steps of the reader. *)

\* The part the reader waits for, and what is behind it.
LEMMA PartRead ==
  ASSUME Sound, NEW s, Next_is(s)
  PROVE  /\ Head(wire) \in Part /\ Head(wire).part = s
         /\ Tail(wire) \in Seq(Part)
<1>1. wire \in Seq(Part) /\ wire # <<>> /\ Head(wire).part = s
  BY DEF Sound, SoundPeer, Next_is
<1>2. Head(wire) \in Part /\ Tail(wire) \in Seq(Part)
  BY <1>1
<1>. QED  BY <1>1, <1>2

\* An id is read, and a header must follow or the rest of the id.
LEMMA IdRead ==
  ASSUME TypeOK, SoundReader, UNCHANGED <<want, current_channel, channels, chunk_size>>,
         current_chunk' \in BucketState \cup {Bucket(None, fmt) : fmt \in 0..3},
         \/ state' = "ext_basic"
         \/ state' = "header" /\ current_chunk'.cid \in Channel
  PROVE  HeaderRead
<1>1. SoundReader'
  BY DEF SoundReader
<1>2. ASSUME NEW d \in Channel  PROVE KeepsBuckets(d)
  BY DEF KeepsBuckets
<1>. QED  BY <1>1, <1>2 DEF HeaderRead, TypeOK

\* A step that reads a part of a header.
LEMMA HeaderParts ==
  ASSUME TypeOK, Sound, ReadBasic \/ ReadExtBasic \/ ReadHeader \/ ReadTime
  PROVE  HeaderRead /\ wire' \in Seq(Part)
<1>1. SoundReader /\ UNCHANGED chunk_size
  BY DEF Sound, ReadBasic, ReadExtBasic, ReadHeader, ReadTime
<1>2. CASE ReadBasic
  <2>1. PICK q, b : q = Head(wire) /\ b = Bucket(q.cid, q.fmt)
    OBVIOUS
  <2>2. /\ q \in Part /\ q.part = "basic" /\ wire' \in Seq(Part)
    BY <1>2, <2>1, PartRead DEF ReadBasic
  <2>3. q.cid \in Channel \cup {None} /\ q.fmt \in 0..3
    BY <2>2 DEF Part, HeaderPart
  <2>4. /\ q.cid # None => b \in BucketState /\ b.cid \in Channel
        /\ b \in BucketState \cup {Bucket(None, fmt) : fmt \in 0..3}
        /\ b.fmt = q.fmt
    BY <2>1, <2>3 DEF Bucket, BucketState
  <2>5. CASE q.cid # None /\ q.fmt = 3
    <3>1. TakeHeader(b, None)
      BY <1>2, <2>1, <2>5 DEF ReadBasic
    <3>. QED  BY <1>1, <2>2, <2>4, <2>5, <3>1, HeaderSound
  <2>6. CASE ~(q.cid # None /\ q.fmt = 3)
    <3>1. /\ state' = IF q.cid = None THEN "ext_basic" ELSE "header"
          /\ current_chunk' = b
          /\ UNCHANGED <<want, current_channel, channels>>
      BY <1>2, <2>1, <2>6 DEF ReadBasic
    <3>. QED  BY <1>1, <2>2, <2>4, <3>1, IdRead
  <2>. QED  BY <2>5, <2>6
<1>3. CASE ReadExtBasic
  <2>1. PICK q, b : q = Head(wire) /\ b = [current_chunk EXCEPT !.cid = q.cid]
    OBVIOUS
  <2>2. /\ q \in Part /\ q.part = "ext_basic" /\ wire' \in Seq(Part)
    BY <1>3, <2>1, PartRead DEF ReadExtBasic
  <2>3. q.cid \in Channel
    BY <2>2 DEF Part, HeaderPart
  <2>4. b \in BucketState /\ b.cid \in Channel
    <3>1. current_chunk \in BucketState \cup {Bucket(None, fmt) : fmt \in 0..3}
      BY <1>1 DEF SoundReader
    <3>. QED  BY <2>1, <2>3, <3>1 DEF Bucket, BucketState
  <2>5. CASE b.fmt = 3
    <3>1. TakeHeader(b, None)
      BY <1>3, <2>1, <2>5 DEF ReadExtBasic
    <3>. QED  BY <1>1, <2>2, <2>4, <2>5, <3>1, HeaderSound
  <2>6. CASE b.fmt # 3
    <3>1. /\ state' = "header" /\ current_chunk' = b
          /\ UNCHANGED <<want, current_channel, channels>>
      BY <1>3, <2>1, <2>6 DEF ReadExtBasic
    <3>. QED  BY <1>1, <2>2, <2>4, <3>1, IdRead
  <2>. QED  BY <2>5, <2>6
<1>4. CASE ReadHeader
  <2>1. PICK q : q = Head(wire)
    OBVIOUS
  <2>2. q \in Part /\ q.part = "header" /\ wire' \in Seq(Part) /\ state = "header"
    BY <1>4, <2>1, PartRead DEF ReadHeader, Next_is
  <2>3. q \in HeaderPart
    BY <2>2 DEF Part
  <2>4. current_chunk \in BucketState
    <3>1. /\ current_chunk \in BucketState \cup {Bucket(None, fmt) : fmt \in 0..3}
          /\ current_chunk.cid \in Channel
      BY <1>1, <2>2 DEF SoundReader
    <3>. QED  BY <3>1 DEF Bucket, BucketState
  <2>5. TakeHeader(current_chunk, q)
    BY <1>4, <2>1 DEF ReadHeader
  <2>. QED  BY <1>1, <2>2, <2>3, <2>4, <2>5, HeaderSound
<1>5. CASE ReadTime
  <2>1. PICK q, c, ch, h : /\ q = Head(wire) /\ c = current_channel /\ ch = channels[c]
                           /\ h = [ch.header EXCEPT !.delta = q.time]
    OBVIOUS
  <2>2. q \in Part /\ q.part = "time" /\ wire' \in Seq(Part) /\ state = "time"
    BY <1>5, <2>1, PartRead DEF ReadTime, Next_is
  <2>3. q.time \in Nat
    BY <2>2 DEF Part, HeaderPart
  <2>4. /\ c \in Channel /\ ch \in ChannelState /\ ch # None /\ AllEnd(ch.chain)
        /\ SoundChannel(ch) /\ current_chunk.cid \in Channel
        /\ current_chunk \in BucketState \cup {Bucket(None, fmt) : fmt \in 0..3}
    BY <1>1, <2>1, <2>2 DEF SoundReader, TypeOK
  <2>5. current_chunk \in BucketState
    BY <2>4 DEF Bucket, BucketState
  <2>6. /\ h \in HeaderState /\ h.type = ch.header.type /\ h.len = ch.header.len
        /\ h.recv = ch.header.recv
    BY <2>1, <2>3, <2>4 DEF ChannelState, HeaderState
  <2>7. /\ AddDelta(h) \in HeaderState /\ AddDelta(h).type = h.type
        /\ AddDelta(h).len = h.len /\ AddDelta(h).recv = h.recv
    BY <2>6, StepAdded
  <2>8. PICK new : new = [ch EXCEPT !.header = AddDelta(h)]
    OBVIOUS
  <2>9. new \in ChannelState /\ new.header = AddDelta(h) /\ new.chain = ch.chain
    BY <2>4, <2>7, <2>8 DEF ChannelState, HeaderState
  <2>10. SoundChannel(new) /\ AllEnd(new.chain)
    BY <2>4, <2>6, <2>7, <2>9 DEF SoundChannel
  <2>11. /\ AskPayload(new, current_chunk) /\ channels' = [channels EXCEPT ![c] = new]
         /\ current_channel' = c
    BY <1>5, <2>1, <2>8 DEF ReadTime
  <2>12. \A k \in 1..Len(new.chain) : /\ k \in 1..Len(channels[c].chain)
                                      /\ new.chain[k] = channels[c].chain[k]
    BY <2>1, <2>9
  <2>. QED  BY <1>1, <2>1, <2>2, <2>4, <2>5, <2>9, <2>10, <2>11, <2>12, Renewed
            DEF AskPayload
<1>. QED  BY <1>2, <1>3, <1>4, <1>5

\* A message that is decoded.
LEMMA DecodedIs ==
  ASSUME NEW c \in Channel, NEW h \in HeaderState, h.type \in {"av", "set_chunk_size"},
         NEW chain \in Seq(ChainBucket), chain # <<>>, publishing \in Name \cup {None}
  PROVE  LET m == Decoded(c, h, chain)
         IN  /\ m \in Handed /\ m.cid = c /\ m.to = publishing
             /\ m.msg.val \in PeerSizes \cup {None}
             /\ m.tags = {chain[k].tag : k \in 1..Len(chain)}
             /\ m.renamed <=> c \in renamed
<1>1. PICK n : n = Len(chain)
  OBVIOUS
<1>2. /\ n \in Nat \ {0} /\ DOMAIN chain = 1..n /\ Head(chain) = chain[1]
      /\ \A k \in 1..n : chain[k] \in ChainBucket
  BY <1>1
<1>3. \A k \in 1..n : chain[k].fill \in Nat /\ chain[k].tag \in Name \cup {None}
  BY <1>2 DEF ChainBucket
<1>4. Head(chain).val \in PeerSizes \cup {None}
  <2>1. 1 \in 1..n
    BY <1>2
  <2>. QED  BY <1>2, <2>1 DEF ChainBucket
<1>5. PICK fills, tags, val : /\ fills = [k \in 1..n |-> chain[k].fill]
                              /\ tags = {chain[k].tag : k \in 1..n}
                              /\ val = Head(chain).val
  OBVIOUS
<1>6. fills \in Seq(Nat)
  <2>1. fills \in [1..n -> Nat]
    BY <1>3, <1>5
  <2>. QED  BY <1>2, <2>1
<1>7. tags \subseteq Name \cup {None}
  BY <1>3, <1>5
<1>8. PICK m : m = Decoded(c, h, chain)
  OBVIOUS
<1>9. m = [cid |-> c, msg |-> [type |-> h.type, len |-> h.len, ts |-> h.ts, val |-> val],
           to |-> publishing, fills |-> fills, tags |-> tags, renamed |-> c \in renamed]
  BY <1>2, <1>5, <1>8 DEF Decoded
<1>10. h.len \in Nat /\ h.ts \in Nat
  BY Sizes DEF HeaderState, Stamp
<1>11. (c \in renamed) \in BOOLEAN
  OBVIOUS
<1>12. [type |-> h.type, len |-> h.len, ts |-> h.ts, val |-> val]
         \in [type : {"av", "set_chunk_size"}, len : Nat, ts : Nat,
              val : PeerSizes \cup {None}]
  BY <1>4, <1>5, <1>10
<1>13. m \in Handed
  BY <1>6, <1>7, <1>9, <1>11, <1>12 DEF Handed
<1>14. /\ m.cid = c /\ m.to = publishing /\ m.msg.val = val /\ m.tags = tags
       /\ m.renamed <=> c \in renamed
  BY <1>9
<1>. QED  BY <1>1, <1>4, <1>5, <1>8, <1>13, <1>14

\* The channel, its header and the bucket after a piece of payload.
Counted == [channels[current_channel].header EXCEPT !.recv = @ + want]
Ending == Counted.recv = Counted.len
Added == Filled(current_chunk, want, Head(wire).val, Ending)
Lengthened == Append(channels[current_channel].chain, Added)

\* What they are.
LEMMA TakenIs ==
  ASSUME TypeOK, Sound, ReadPayload
  PROVE  LET ch == channels[current_channel]
             n  == Len(ch.chain)
         IN  /\ current_channel \in Channel /\ ch # None /\ SoundChannel(ch)
             /\ ch.chain \in Seq(ChainBucket) /\ AllEnd(ch.chain) /\ n \in Nat
             /\ Counted \in HeaderState /\ Counted.type \in {"av", "set_chunk_size"}
             /\ Counted.recv # 0 /\ Counted.recv <= Counted.len
             /\ Added \in ChainBucket
             /\ Added.state = IF BucketEnds(Added.fill, Ending) THEN "end" ELSE "merge"
             /\ Added.state = "end" => Added.tag = publishing
             /\ Lengthened \in Seq(ChainBucket) /\ Len(Lengthened) = n + 1
             /\ \A k \in 1..n : Lengthened[k] = ch.chain[k]
             /\ Lengthened[n + 1] = Added
<1>1. PICK c, ch, q : c = current_channel /\ ch = channels[c] /\ q = Head(wire)
  OBVIOUS
<1>2. /\ c \in Channel /\ ch # None /\ ch \in ChannelState /\ SoundChannel(ch)
      /\ AllEnd(ch.chain) /\ want # 0 /\ ch.header.recv + want <= ch.header.len
      /\ current_chunk.cid \in Channel /\ want \in Nat
      /\ current_chunk \in BucketState \cup {Bucket(None, fmt) : fmt \in 0..3}
  BY <1>1 DEF ReadPayload, Next_is, Sound, SoundReader, TypeOK
<1>3. ch.header \in HeaderState /\ ch.chain \in Seq(ChainBucket)
  BY <1>2 DEF ChannelState, HeaderState, ChainBucket
<1>4. q \in Part /\ q.part = "payload"
  BY <1>1, PartRead DEF ReadPayload
<1>5. q.val \in PeerSizes \cup {None}
  BY <1>4 DEF Part, HeaderPart
<1>6. current_chunk \in BucketState
  BY <1>2 DEF Bucket, BucketState
<1>7. PICK h, end, r : /\ h = Counted /\ end = Ending
                       /\ r = ch.header.recv + want
  OBVIOUS
<1>8. ch.header.recv \in Nat /\ ch.header.len \in Nat
  BY <1>3 DEF HeaderState
<1>9. /\ h \in HeaderState /\ h.type = ch.header.type /\ h.len = ch.header.len
      /\ h.recv = r
  <2>1. r \in Nat /\ h = [ch.header EXCEPT !.recv = r]
    BY <1>1, <1>2, <1>7, <1>8 DEF Counted
  <2>. QED  BY <1>3, <2>1 DEF HeaderState
<1>10. r # 0 /\ r <= ch.header.len
  BY <1>2, <1>7, <1>8
<1>11. PICK b, fill : b = Added /\ fill = current_chunk.fill + want
  OBVIOUS
<1>12. fill \in Nat /\ publishing \in Name \cup {None}
  BY <1>2, <1>6, <1>11 DEF BucketState, TypeOK
<1>13. b = [current_chunk EXCEPT !.fill = fill, !.val = q.val,
              !.state = IF BucketEnds(fill, end) THEN "end" ELSE "merge",
              !.tag = IF BucketEnds(fill, end) THEN publishing ELSE None]
  BY <1>1, <1>6, <1>7, <1>11 DEF Added, Filled, BucketState
<1>14. /\ b \in ChainBucket /\ b.fill = fill
       /\ b.state = IF BucketEnds(fill, end) THEN "end" ELSE "merge"
       /\ b.tag = IF BucketEnds(fill, end) THEN publishing ELSE None
  BY <1>2, <1>5, <1>6, <1>12, <1>13 DEF BucketState, ChainBucket
<1>15. Lengthened = Append(ch.chain, b)
  BY <1>1, <1>11 DEF Lengthened
<1>16. /\ Lengthened \in Seq(ChainBucket) /\ Len(ch.chain) \in Nat
       /\ Len(Lengthened) = Len(ch.chain) + 1 /\ Lengthened[Len(ch.chain) + 1] = b
       /\ \A k \in 1..Len(ch.chain) : Lengthened[k] = ch.chain[k]
  BY <1>3, <1>14, <1>15, AppendProperties
<1>17. h.type \in {"av", "set_chunk_size"}
  BY <1>2, <1>9 DEF SoundChannel
<1>18. b.state = "end" => b.tag = publishing
  BY <1>14
<1>. QED  BY <1>1, <1>2, <1>3, <1>7, <1>9, <1>10, <1>11, <1>14, <1>16, <1>17, <1>18

\* The parts of ReadPayload, by these names.
DecodedNow == Decoded(current_channel, Counted, Lengthened)
ChannelLeft ==
  IF Ending THEN Restarted(Counted) ELSE [header |-> Counted, chain |-> Lengthened]
SizeNow ==
  IF Ending /\ Counted.type = "set_chunk_size" /\ SizeOK(DecodedNow.msg.val)
    THEN DecodedNow.msg.val ELSE chunk_size

LEMMA PayloadIs ==
  ASSUME ReadPayload
  PROVE  /\ channels' = [channels EXCEPT ![current_channel] = ChannelLeft]
         /\ Ending => handed' = DecodedNow /\ renamed' = renamed \ {current_channel}
         /\ ~Ending => UNCHANGED <<handed, renamed>>
         /\ chunk_size' = SizeNow
         /\ \/ state' = "closed" /\ UNCHANGED <<want, current_chunk>>
            \/ ExpectChunk(ChannelLeft, SizeNow)
BY DEF ReadPayload, Counted, Ending, Added, Lengthened, DecodedNow, ChannelLeft, SizeNow,
       history

\* What it leaves on the wire.
LEMMA PayloadWire ==
  ASSUME TypeOK, Sound, ReadPayload
  PROVE  wire' \in Seq(Part)
<1>1. PICK q, r : /\ q = Head(wire)
                  /\ r = IF q.n = want THEN <<>> ELSE <<[q EXCEPT !.n = @ - want]>>
  OBVIOUS
<1>2. /\ q \in Part /\ q.part = "payload" /\ Tail(wire) \in Seq(Part)
      /\ q.n >= want /\ want \in Nat /\ wire' = r \o Tail(wire)
  BY <1>1, PartRead DEF ReadPayload, TypeOK
<1>3. q.n \in Nat /\ q.val \in PeerSizes \cup {None}
  BY <1>2 DEF Part, HeaderPart
<1>4. r \in Seq(Part)
  <2>1. CASE q.n = want
    BY <1>1, <2>1
  <2>2. CASE q.n # want
    <3>1. q.n - want \in Nat
      BY <1>2, <1>3
    <3>2. [q EXCEPT !.n = @ - want] \in Part
      BY <1>2, <1>3, <3>1 DEF Part, HeaderPart
    <3>. QED  BY <1>1, <2>2, <3>2
  <2>. QED  BY <2>1, <2>2
<1>. QED  BY <1>2, <1>4

\* A piece of payload is read.
LEMMA PayloadSound ==
  ASSUME TypeOK, Sound, ReadPayload
  PROVE  TypeOK' /\ Sound'
<1>1. PICK c, ch, m, left, size, n :
           /\ c = current_channel /\ ch = channels[c] /\ n = Len(ch.chain)
           /\ m = DecodedNow /\ left = ChannelLeft /\ size = SizeNow
  OBVIOUS
<1>2. PICK h, b, chain : /\ h = Counted /\ b = Added /\ chain = Lengthened
                         /\ Ending <=> h.recv = h.len
  BY DEF Ending
<1>3. /\ c \in Channel /\ ch # None /\ SoundChannel(ch) /\ AllEnd(ch.chain)
      /\ n \in Nat /\ h \in HeaderState /\ h.type \in {"av", "set_chunk_size"}
      /\ h.recv # 0 /\ h.recv <= h.len
      /\ b \in ChainBucket /\ b.state = IF BucketEnds(b.fill, Ending) THEN "end" ELSE "merge"
      /\ chain \in Seq(ChainBucket) /\ Len(chain) = n + 1
      /\ \A k \in 1..n : chain[k] = ch.chain[k]
      /\ chain[n + 1] = b
  BY <1>1, <1>2, TakenIs
<1>4. /\ channels' = [channels EXCEPT ![c] = left]
      /\ Ending => handed' = m /\ renamed' = renamed \ {c}
      /\ ~Ending => UNCHANGED <<handed, renamed>>
      /\ chunk_size' = size
      /\ \/ state' = "closed" /\ UNCHANGED <<want, current_chunk>>
         \/ ExpectChunk(left, size)
  <2>1. /\ channels' = [channels EXCEPT ![c] = left]
        /\ chunk_size' = size
        /\ \/ state' = "closed" /\ UNCHANGED <<want, current_chunk>>
           \/ ExpectChunk(left, size)
    BY <1>1, PayloadIs
  <2>2. Ending => handed' = m /\ renamed' = renamed \ {c}
    BY <1>1, PayloadIs
  <2>3. ~Ending => UNCHANGED <<handed, renamed>>
    BY PayloadIs
  <2>. QED  BY <1>2, <2>1, <2>2, <2>3
<1>5. UNCHANGED <<current_channel, peerVars, appVars>>
  BY DEF ReadPayload
<1>6. \A k \in 1..n : chain[k].state = "end"
  BY <1>1, <1>3 DEF AllEnd
<1>7. m \in Handed /\ m.msg.val \in PeerSizes \cup {None}
  <2>1. chain # <<>> /\ publishing \in Name \cup {None}
    BY <1>3 DEF TypeOK
  <2>2. m = Decoded(c, h, chain)
    BY <1>1, <1>2 DEF DecodedNow
  <2>. QED  BY <1>3, <2>1, <2>2, DecodedIs
<1>8. /\ size \in PeerSizes \cup {DEFAULT_CHUNK_SIZE} /\ SizeOK(size)
      /\ ~Ending => size = chunk_size
  <2>1. chunk_size \in PeerSizes \cup {DEFAULT_CHUNK_SIZE} /\ SizeOK(chunk_size)
    BY DEF TypeOK, Sound, SoundReader
  <2>2. SizeOK(m.msg.val) => m.msg.val # None
    BY DEF SizeOK
  <2>. QED  BY <1>1, <1>2, <1>7, <2>1, <2>2 DEF SizeNow
<1>9. h.recv \in Nat /\ h.len \in Nat /\ size \in Nat
  BY <1>3, <1>8, Sizes DEF HeaderState
<1>10. left \in ChannelState /\ SoundChannel(left) /\ left.header \in HeaderState
  <2>1. CASE Ending
    <3>1. left = [header |-> [h EXCEPT !.recv = 0], chain |-> <<>>]
      BY <1>1, <1>2, <2>1 DEF ChannelLeft, Restarted
    <3>2. /\ left.header \in HeaderState /\ left.header.recv = 0
          /\ left.header.len = h.len /\ left.header.type = h.type /\ left.chain = <<>>
      BY <1>3, <3>1 DEF HeaderState
    <3>3. left \in ChannelState
      BY <3>1, <3>2 DEF ChannelState, HeaderState
    <3>4. 0 < h.len
      BY <1>3, <1>9
    <3>. QED  BY <1>3, <3>2, <3>3, <3>4 DEF SoundChannel
  <2>2. CASE ~Ending
    <3>1. left = [header |-> h, chain |-> chain]
      BY <1>1, <1>2, <2>2 DEF ChannelLeft
    <3>2. left \in ChannelState
      BY <1>3, <3>1 DEF ChannelState, HeaderState, ChainBucket
    <3>3. h.recv < h.len
      BY <1>2, <1>3, <1>9, <2>2
    <3>4. \A k \in 1..(Len(chain) - 1) : chain[k].state = "end"
      BY <1>3, <1>6
    <3>. QED  BY <1>3, <3>1, <3>2, <3>3, <3>4 DEF SoundChannel
  <2>. QED  BY <2>1, <2>2
<1>11. /\ state' \in {"closed", "payload", "basic"} /\ want' \in Nat
       /\ current_chunk' \in BucketState \cup {Bucket(None, fmt) : fmt \in 0..3}
       /\ state' = "payload" =>
            /\ current_chunk'.cid \in Channel /\ AllEnd(left.chain)
            /\ want' # 0 /\ left.header.recv + want' <= left.header.len
  <2>1. CASE state' = "closed" /\ UNCHANGED <<want, current_chunk>>
    BY <2>1 DEF TypeOK, Sound, SoundReader
  <2>2. CASE ExpectChunk(left, size) /\ state' # "payload"
    <3>1. state' = "basic" /\ want' = 0 /\ current_chunk' = Bucket(None, 0)
      BY <2>2 DEF ExpectChunk
    <3>. QED  BY <3>1
  <2>3. CASE ExpectChunk(left, size) /\ state' = "payload"
    <3>1. /\ size > DEFAULT_CHUNK_BUCKET_SIZE /\ left.header.recv % size # 0
          /\ left.header.recv < left.header.len
          /\ want' = expect_payload_len(left.header, size)
          /\ current_chunk' = Bucket(Last(left.chain).cid, 3)
      BY <2>3 DEF ExpectChunk
    <3>2. ~Ending
      <4>1. \A x \in Nat \ {0} : 0 % x = 0
        OBVIOUS
      <4>2. size # 0
        BY <1>8 DEF SizeOK
      <4>3. Ending => left.header.recv = 0
        BY <1>1, <1>2, <1>3 DEF ChannelLeft, Restarted, HeaderState
      <4>. QED  BY <1>9, <3>1, <4>1, <4>2, <4>3
    <3>3. left.chain = chain /\ size = chunk_size
      BY <1>1, <1>2, <1>8, <3>2 DEF ChannelLeft
    <3>4. b.state = "end"
      <4>1. b.fill \in Nat /\ DEFAULT_CHUNK_BUCKET_SIZE \in Nat
        BY <1>3, Sizes DEF ChainBucket
      <4>2. \A x, y, z \in Nat : z > y => y - x < z
        OBVIOUS
      <4>3. DEFAULT_CHUNK_BUCKET_SIZE - b.fill < chunk_size
        BY <1>9, <3>1, <3>3, <4>1, <4>2
      <4>. QED  BY <1>3, <4>3 DEF BucketEnds
    <3>5. AllEnd(left.chain)
      <4>1. ASSUME NEW k \in 1..Len(chain)  PROVE chain[k].state = "end"
        <5>1. k \in 1..n \/ k = n + 1
          BY <1>3
        <5>. QED  BY <1>3, <1>6, <3>4, <5>1
      <4>. QED  BY <3>3, <4>1 DEF AllEnd
    <3>6. Last(left.chain).cid \in Channel
      <4>1. Last(chain) = b
        BY <1>3 DEF Last
      <4>. QED  BY <1>3, <3>3, <4>1 DEF ChainBucket
    <3>7. current_chunk' \in BucketState /\ current_chunk'.cid \in Channel
      BY <3>1, <3>6 DEF Bucket, BucketState
    <3>8. want' \in Nat /\ want' # 0 /\ left.header.recv + want' <= left.header.len
      BY <1>8, <1>9, <1>10, <3>1, Asked
    <3>. QED  BY <2>3, <3>5, <3>7, <3>8
  <2>. QED  BY <1>4, <2>1, <2>2, <2>3
<1>12. /\ \A d \in Channel : channels'[d] = IF d = c THEN left ELSE channels[d]
       /\ channels' \in [Channel -> ChannelState \cup {None}]
  BY <1>4, <1>10 DEF TypeOK
<1>13. TypeOK'
  <2>1. renamed' \subseteq Channel /\ handed' \in Handed \cup {None}
    BY <1>4, <1>7 DEF TypeOK
  <2>. QED  BY <1>4, <1>5, <1>8, <1>11, <1>12, <2>1 DEF TypeOK, peerVars, appVars
<1>14. SoundReader'
  <2>1. \A d \in Channel : channels'[d] # None => SoundChannel(channels'[d])
    BY <1>10, <1>12 DEF Sound, SoundReader
  <2>2. channels'[c] = left /\ current_channel' = c /\ left # None
    BY <1>1, <1>3, <1>5, <1>10, <1>12, ChannelAssumption
  <2>. QED  BY <1>3, <1>4, <1>8, <1>11, <2>1, <2>2 DEF SoundReader
<1>15. SoundPeer'
  BY <1>5, PayloadWire DEF Sound, SoundPeer, peerVars
<1>. QED  BY <1>13, <1>14, <1>15 DEF Sound

-----------------------------------------------------------------------------
(* The steps of the peer. *)

\* An id is one part or two.
LEMMA PartsOfId ==
  ASSUME NEW c \in Channel, NEW fmt \in 0..3
  PROVE  Basic(c, fmt) \in Seq(Part)
<1>1. /\ [part |-> "basic", cid |-> None, fmt |-> fmt] \in Part
      /\ [part |-> "basic", cid |-> c, fmt |-> fmt] \in Part
      /\ [part |-> "ext_basic", cid |-> c] \in Part
  BY DEF Part
<1>. QED  BY <1>1 DEF Basic

\* A header is none, one part or two.
LEMMA PartsOfHeader ==
  ASSUME NEW fmt \in 0..3, NEW m \in Message, NEW step \in Nat
  PROVE  Header(fmt, m, step) \in Seq(Part)
<1>1. PICK time, head, more :
        /\ time = IF fmt = 0 THEN m.ts ELSE step
        /\ head = [part |-> "header", type |-> m.type, len |-> m.len,
                   time |-> IF time >= RTMP_CHUNK_EXTENDED_TIMESTAMP
                            THEN RTMP_CHUNK_EXTENDED_TIMESTAMP ELSE time]
        /\ more = [part |-> "time", time |-> time]
  OBVIOUS
<1>2. /\ m.len \in Nat /\ m.type \in {"av", "set_chunk_size"} /\ time \in Nat
      /\ RTMP_CHUNK_EXTENDED_TIMESTAMP \in Nat
  BY <1>1, Sizes
<1>3. head \in Part
  <2>1. head \in HeaderPart
    BY <1>1, <1>2 DEF HeaderPart
  <2>. QED  BY <2>1 DEF Part
<1>4. more \in Part
  BY <1>1, <1>2 DEF Part
<1>5. <<>> \in Seq(Part) /\ <<head>> \in Seq(Part) /\ <<head, more>> \in Seq(Part)
  BY <1>3, <1>4
<1>6. Header(fmt, m, step) \in {<<>>, <<head>>, <<head, more>>}
  BY <1>1 DEF Header
<1>. QED  BY <1>5, <1>6

\* Chunks are made of parts.
LEMMA PartsOfChunk ==
  ASSUME NEW c \in Channel, NEW fmt \in 0..3, NEW m \in Message, NEW step \in Nat,
         NEW left \in Nat, peer_size \in Nat
  PROVE  /\ Chunk(c, fmt, m, step, left) \in Seq(Part)
         /\ ChunkAgain(c, m, left) \in Seq(Part)
<1>1. /\ m.ts \in Nat /\ m.val \in PeerSizes \cup {None} /\ Least(left, peer_size) \in Nat
  BY Sizes, LeastIs
<1>2. Payload(Least(left, peer_size), m.val) \in Seq(Part)
  <2>1. [part |-> "payload", n |-> Least(left, peer_size), val |-> m.val] \in Part
    BY <1>1 DEF Part
  <2>. QED  BY <2>1 DEF Payload
<1>3. Chunk(c, fmt, m, step, left) \in Seq(Part)
  <2>1. Basic(c, fmt) \in Seq(Part)
    BY PartsOfId
  <2>2. Header(fmt, m, step) \in Seq(Part)
    BY PartsOfHeader
  <2>. QED  BY <1>2, <2>1, <2>2 DEF Chunk
<1>4. <<[part |-> "time", time |-> m.ts]>> \in Seq(Part)
  <2>1. [part |-> "time", time |-> m.ts] \in Part
    BY <1>1 DEF Part
  <2>. QED  BY <2>1
<1>5. ChunkAgain(c, m, left) \in Seq(Part)
  <2>1. 3 \in 0..3
    OBVIOUS
  <2>2. Basic(c, 3) \in Seq(Part)
    BY <2>1, PartsOfId
  <2>. QED  BY <1>2, <1>4, <2>2 DEF ChunkAgain
<1>. QED  BY <1>3, <1>5

\* The parts it adds to the wire.
LEMMA Sends ==
  ASSUME Sound, NEW parts \in Seq(Part), PeerSends(parts)
  PROVE  wire' \in Seq(Part)
BY DEF Sound, SoundPeer, PeerSends

\* A chunk is sent.
LEMMA ChunkSound ==
  ASSUME TypeOK, Sound, NEW c \in Channel, NEW fmt \in 0..3, NEW m \in Message,
         NEW step \in Nat, NEW left \in Nat, SendsChunk(c, fmt, m, step, left)
  PROVE  SoundPeer' /\ unforeseen' \in BOOLEAN
<1>1. PICK again \in BOOLEAN :
        /\ Sent(c, m, left, again)
        /\ PeerSends(Chunk(c, fmt, m, step, left)) \/ PeerSends(ChunkAgain(c, m, left))
  BY DEF SendsChunk
<1>2. /\ peer_size \in PeerSizes \cup {DEFAULT_CHUNK_SIZE} /\ peer_size \in Nat
      /\ peer \in [Channel -> [last : Message \cup {None}, msg : Message \cup {None},
                               left : Nat]]
      /\ \A d \in Channel : peer[d].left # 0 => peer[d].msg \in Message
  BY Sizes DEF Sound, SoundPeer
<1>3. wire' \in Seq(Part)
  BY <1>1, <1>2, PartsOfChunk, Sends
<1>4. PICK rest : rest = left - Least(left, peer_size)
  OBVIOUS
<1>5. rest \in Nat
  <2>1. Least(left, peer_size) \in Nat /\ Least(left, peer_size) <= left
    BY <1>2, LeastIs
  <2>. QED  BY <1>4, <2>1
<1>6. PICK new : new = [last |-> m, msg |-> IF rest = 0 THEN None ELSE m, left |-> rest]
  OBVIOUS
<1>7. /\ new \in [last : Message \cup {None}, msg : Message \cup {None}, left : Nat]
      /\ new.left # 0 => new.msg \in Message
  BY <1>5, <1>6
<1>8. peer' = [peer EXCEPT ![c] = new]
  BY <1>1, <1>4, <1>6 DEF Sent
<1>9. /\ peer' \in [Channel -> [last : Message \cup {None}, msg : Message \cup {None},
                                left : Nat]]
      /\ \A d \in Channel : peer'[d].left # 0 => peer'[d].msg \in Message
  BY <1>2, <1>7, <1>8
<1>10. peer_size' \in PeerSizes \cup {DEFAULT_CHUNK_SIZE}
  <2>1. peer_size' = peer_size \/ (peer_size' = m.val /\ SizeOK(m.val))
    BY <1>1 DEF Sent
  <2>2. m.val \in PeerSizes \cup {None}
    BY Sizes
  <2>. QED  BY <1>2, <2>1, <2>2 DEF SizeOK
<1>11. unforeseen' \in BOOLEAN
  BY <1>1, Zenon DEF Sent
<1>. QED  BY <1>3, <1>9, <1>10, <1>11 DEF SoundPeer

\* What the reader holds is not touched by the peer or the application.
LEMMA ReaderStays ==
  ASSUME SoundReader, UNCHANGED readVars
  PROVE  SoundReader'
BY DEF SoundReader, readVars

\* A step of the peer.
LEMMA PeerSound ==
  ASSUME TypeOK, Sound, NEW c \in Channel, Begin(c) \/ Continue(c) \/ Break(c)
  PROVE  TypeOK' /\ Sound'
<1>1. SoundReader' /\ UNCHANGED <<readVars, appVars, handed, renamed>>
  BY ReaderStays DEF Begin, Continue, Break, Sound, history
<1>2. CASE Begin(c)
  <2>1. PICK m \in Message, step \in Steps :
          /\ \E fmt \in Formats(c, m, step) :
               /\ SendsChunk(c, fmt, m, step, m.len)
               /\ stamped' = IF fmt = 3 THEN stamped
                             ELSE IF Len(Header(fmt, m, step)) > 1 THEN stamped \cup {c}
                             ELSE stamped \ {c}
          /\ UNCHANGED peer_state
    BY <1>2 DEF Begin
  <2>2. PICK fmt \in Formats(c, m, step) :
          /\ SendsChunk(c, fmt, m, step, m.len)
          /\ stamped' = IF fmt = 3 THEN stamped
                        ELSE IF Len(Header(fmt, m, step)) > 1 THEN stamped \cup {c}
                        ELSE stamped \ {c}
    BY <2>1
  <2>3. fmt \in 0..3 /\ step \in Nat /\ m.len \in Nat
    BY TimeAssumption, Sizes DEF Formats
  <2>4. SoundPeer' /\ unforeseen' \in BOOLEAN
    BY <2>2, <2>3, ChunkSound
  <2>5. stamped' \subseteq Channel
    BY <2>2 DEF TypeOK
  <2>. QED  BY <1>1, <2>1, <2>4, <2>5 DEF TypeOK, Sound, readVars, appVars
<1>3. CASE Continue(c)
  <2>1. /\ peer[c].msg \in Message /\ peer[c].left \in Nat
    BY <1>3 DEF Continue, Idle, Sound, SoundPeer
  <2>2. SendsChunk(c, 3, peer[c].msg, 0, peer[c].left) /\ UNCHANGED <<peer_state, stamped>>
    BY <1>3 DEF Continue
  <2>3. SoundPeer' /\ unforeseen' \in BOOLEAN
    BY <2>1, <2>2, ChunkSound
  <2>. QED  BY <1>1, <2>2, <2>3 DEF TypeOK, Sound, readVars, appVars
<1>4. CASE Break(c)
  <2>1. peer_state' = "broken" /\ UNCHANGED <<peer, peer_size, stamped, unforeseen>>
    BY <1>4 DEF Break
  <2>2. wire' \in Seq(Part)
    <3>1. PICK head : head = <<[part |-> "header", type |-> "av", len |-> 0, time |-> 0]>>
      OBVIOUS
    <3>2. head \in Seq(Part) /\ <<>> \in Seq(Part)
      <4>1. [part |-> "header", type |-> "av", len |-> 0, time |-> 0] \in HeaderPart
        BY DEF HeaderPart
      <4>2. [part |-> "header", type |-> "av", len |-> 0, time |-> 0] \in Part
        BY <4>1 DEF Part
      <4>. QED  BY <3>1, <4>2
    <3>3. \A f \in 0..3 : Basic(c, f) \in Seq(Part)
      BY PartsOfId
    <3>4. peer[c].left # 0 => Header(0, peer[c].msg, 0) \in Seq(Part)
      <4>1. 0 \in 0..3 /\ 0 \in Nat
        OBVIOUS
      <4>2. peer[c].left # 0 => peer[c].msg \in Message
        BY DEF Sound, SoundPeer
      <4>. QED  BY <4>1, <4>2, PartsOfHeader
    <3>5. PICK tail \in Seq(Part), f \in 0..3 : PeerSends(Basic(c, f) \o tail)
      <4>1. \/ \E f \in {2, 3} : PeerSends(Basic(c, f) \o IF f = 3 THEN <<>> ELSE head)
            \/ peer[c].left # 0 /\ PeerSends(Basic(c, 0) \o Header(0, peer[c].msg, 0))
            \/ PeerSends(Basic(c, 0) \o head)
        BY <1>4, <3>1 DEF Break, Idle
      <4>2. CASE \E f \in {2, 3} : PeerSends(Basic(c, f) \o IF f = 3 THEN <<>> ELSE head)
        <5>1. PICK f \in {2, 3} : PeerSends(Basic(c, f) \o IF f = 3 THEN <<>> ELSE head)
          BY <4>2
        <5>2. (IF f = 3 THEN <<>> ELSE head) \in Seq(Part) /\ f \in 0..3
          BY <3>2
        <5>. QED  BY <5>1, <5>2
      <4>3. CASE peer[c].left # 0 /\ PeerSends(Basic(c, 0) \o Header(0, peer[c].msg, 0))
        <5>1. 0 \in 0..3
          OBVIOUS
        <5>. QED  BY <3>4, <4>3, <5>1
      <4>4. CASE PeerSends(Basic(c, 0) \o head)
        BY <3>2, <4>4
      <4>. QED  BY <4>1, <4>2, <4>3, <4>4
    <3>6. Basic(c, f) \o tail \in Seq(Part)
      BY <3>3, <3>5
    <3>. QED  BY <3>5, <3>6, Sends
  <2>3. SoundPeer'
    BY <2>1, <2>2 DEF Sound, SoundPeer
  <2>. QED  BY <1>1, <2>1, <2>3 DEF TypeOK, Sound, readVars, appVars
<1>. QED  BY <1>2, <1>3, <1>4

-----------------------------------------------------------------------------
(* Every step. *)

LEMMA InitSound ==
  ASSUME Init
  PROVE  TypeOK /\ Sound
<1>1. DEFAULT_CHUNK_SIZE \in Nat /\ SizeOK(DEFAULT_CHUNK_SIZE)
  BY Sizes
<1>2. TypeOK
  BY <1>1 DEF Init, TypeOK
<1>3. SoundReader
  BY <1>1 DEF Init, SoundReader
<1>4. SoundPeer
  BY <1>1 DEF Init, SoundPeer, Silent
<1>. QED  BY <1>2, <1>3, <1>4 DEF Sound

\* Steps after which the reader has the channels it had, or none.
LEMMA OtherSound ==
  ASSUME TypeOK, Sound, Misread \/ Wander \/ ReadFails \/ App \/ UNCHANGED vars
  PROVE  TypeOK' /\ Sound' /\ \A d \in Channel : KeepsBuckets(d)
<1>1. CASE Misread
  <2>1. /\ state' = "lost"
        /\ UNCHANGED <<wire, want, current_chunk, current_channel, channels, chunk_size,
                       peerVars, appVars, history>>
    BY <1>1 DEF Misread
  <2>. QED  BY <2>1 DEF TypeOK, Sound, SoundPeer, SoundReader, KeepsBuckets, peerVars,
                        appVars, history
<1>2. CASE Wander
  <2>1. /\ wire' = <<>> /\ UNCHANGED <<chunk_size, peerVars, appVars, history>>
        /\ state = "lost"
        /\ Close \/ UNCHANGED <<state, want, current_chunk, current_channel, channels>>
    BY <1>2 DEF Wander
  <2>2. SoundPeer' /\ <<>> \in Seq(Part)
    BY <2>1 DEF Sound, SoundPeer, peerVars
  <2>3. CASE Close
    <3>1. HeaderRead
      BY <2>1, <2>3, CloseSound DEF Sound
    <3>. QED  BY <2>1, <2>2, <3>1 DEF HeaderRead, TypeOK, Sound, peerVars, appVars, history
  <2>4. CASE UNCHANGED <<state, want, current_chunk, current_channel, channels>>
    BY <2>1, <2>2, <2>4 DEF TypeOK, Sound, SoundReader, KeepsBuckets, peerVars, appVars,
                            history
  <2>. QED  BY <2>1, <2>3, <2>4
<1>3. CASE ReadFails
  <2>1. /\ Close /\ peer_state' = "left"
        /\ UNCHANGED <<wire, peer, peer_size, stamped, unforeseen, chunk_size, appVars,
                       history>>
    BY <1>3 DEF ReadFails
  <2>2. HeaderRead
    BY <2>1, CloseSound DEF Sound
  <2>3. SoundPeer'
    BY <2>1 DEF Sound, SoundPeer
  <2>. QED  BY <2>1, <2>2, <2>3 DEF HeaderRead, TypeOK, Sound, appVars, history
<1>4. CASE App
  <2>1. UNCHANGED <<wire, peerVars, readVars, flight, handed>>
    BY <1>4 DEF App, Publish, Unpublish, history
  <2>2. Sound'
    BY <2>1, ReaderStays DEF Sound, SoundPeer, peerVars
  <2>3. publishing' \in Name \cup {None} /\ renamed' \subseteq Channel
    BY <1>4 DEF App, Publish, Unpublish, HalfNamed, TypeOK, history
  <2>. QED  BY <2>1, <2>2, <2>3 DEF TypeOK, KeepsBuckets, peerVars, readVars
<1>5. CASE UNCHANGED vars
  <2>1. Sound'
    BY <1>5, ReaderStays DEF Sound, SoundPeer, vars, peerVars
  <2>. QED  BY <1>5, <2>1 DEF TypeOK, KeepsBuckets, vars, peerVars, readVars, appVars,
                              history
<1>. QED  BY <1>1, <1>2, <1>3, <1>4, <1>5

\* A step that reads a part of a header.
LEMMA HeaderPartSound ==
  ASSUME TypeOK, Sound, ReadBasic \/ ReadExtBasic \/ ReadHeader \/ ReadTime
  PROVE  TypeOK' /\ Sound' /\ \A d \in Channel : KeepsBuckets(d)
<1>1. HeaderRead /\ wire' \in Seq(Part)
  BY HeaderParts
<1>2. UNCHANGED <<chunk_size, peerVars, appVars, history>>
  BY DEF ReadBasic, ReadExtBasic, ReadHeader, ReadTime
<1>3. SoundPeer'
  BY <1>1, <1>2 DEF Sound, SoundPeer, peerVars
<1>. QED  BY <1>1, <1>2, <1>3 DEF HeaderRead, TypeOK, Sound, peerVars, appVars, history

\* Whatever the peer sends, the variables keep their types and the buckets their order.
THEOREM ReaderSound == Spec => [](TypeOK /\ Sound)
<1>1. TypeOK /\ Sound /\ [Next]_vars => (TypeOK /\ Sound)'
  <2> SUFFICES ASSUME TypeOK, Sound, [Next]_vars
               PROVE  (TypeOK /\ Sound)'
    OBVIOUS
  <2>1. CASE Peer
    BY <2>1, PeerSound DEF Peer
  <2>2. CASE ReadPayload
    BY <2>2, PayloadSound
  <2>3. CASE ReadBasic \/ ReadExtBasic \/ ReadHeader \/ ReadTime
    BY <2>3, HeaderPartSound
  <2>4. CASE Misread \/ Wander \/ ReadFails \/ App \/ UNCHANGED vars
    BY <2>4, OtherSound
  <2>. QED  BY <2>1, <2>2, <2>3, <2>4 DEF Next, Read
<1>. QED  BY <1>1, InitSound, PTL DEF Spec

\* In particular the variables keep their types.
THEOREM ReaderTypes == Spec => []TypeOK
  BY ReaderSound, PTL

-----------------------------------------------------------------------------
(* The names of the buckets. *)

\* A step that adds no bucket.
LEMMA NamedStays ==
  ASSUME Named, \A d \in Channel : KeepsBuckets(d), UNCHANGED <<publishing, renamed>>
  PROVE  Named'
<1> SUFFICES ASSUME publishing # None, NEW c \in Channel \ renamed, channels'[c] # None,
                    NEW k \in 1..Len(channels'[c].chain),
                    channels'[c].chain[k].state = "end"
             PROVE  channels'[c].chain[k].tag = publishing
  BY DEF Named
<1>1. CASE channels'[c].chain = <<>>
  <2>1. Len(channels'[c].chain) = 0
    BY <1>1
  <2>. QED  BY <2>1
<1>2. CASE channels'[c].chain # <<>>
  <2>1. /\ channels[c] # None /\ k \in 1..Len(channels[c].chain)
        /\ channels'[c].chain[k] = channels[c].chain[k]
    BY <1>2 DEF KeepsBuckets
  <2>. QED  BY <2>1 DEF Named
<1>. QED  BY <1>1, <1>2

\* A bucket is added, or the buckets are handed on.
LEMMA NamedGrows ==
  ASSUME TypeOK, Sound, Named, TagsMatch, ReadPayload
  PROVE  Named' /\ TagsMatch'
<1>1. PICK c, ch, n : c = current_channel /\ ch = channels[c] /\ n = Len(ch.chain)
  OBVIOUS
<1>2. /\ c \in Channel /\ ch # None /\ AllEnd(ch.chain) /\ n \in Nat
      /\ Lengthened \in Seq(ChainBucket) /\ Len(Lengthened) = n + 1
      /\ \A k \in 1..n : Lengthened[k] = ch.chain[k]
      /\ Lengthened[n + 1] = Added
      /\ Added.state = IF BucketEnds(Added.fill, Ending) THEN "end" ELSE "merge"
      /\ Added.state = "end" => Added.tag = publishing
      /\ Counted \in HeaderState /\ Counted.type \in {"av", "set_chunk_size"}
  BY <1>1, TakenIs
<1>3. UNCHANGED publishing
  BY DEF ReadPayload, appVars
<1>4. ASSUME publishing # None, c \notin renamed, NEW k \in 1..(n + 1),
             Lengthened[k].state = "end"
      PROVE  Lengthened[k].tag = publishing
  <2>1. CASE k = n + 1
    BY <1>2, <1>4, <2>1
  <2>2. CASE k # n + 1
    <3>1. k \in 1..n
      BY <1>2, <1>4, <2>2
    <3>2. ch.chain[k].state = "end"
      BY <1>1, <1>2, <3>1 DEF AllEnd
    <3>3. ch.chain[k].tag = publishing
      BY <1>1, <1>2, <1>4, <3>1, <3>2 DEF Named
    <3>. QED  BY <1>2, <3>1, <3>3
  <2>. QED  BY <2>1, <2>2
<1>5. \A d \in Channel : channels'[d] = IF d = c THEN ChannelLeft ELSE channels[d]
  BY <1>1, PayloadIs DEF TypeOK
<1>6. Named'
  <2> SUFFICES ASSUME publishing # None, NEW d \in Channel \ renamed', channels'[d] # None,
                      NEW k \in 1..Len(channels'[d].chain),
                      channels'[d].chain[k].state = "end"
               PROVE  channels'[d].chain[k].tag = publishing
    BY <1>3 DEF Named
  <2>1. CASE d # c
    <3>1. d \notin renamed
      BY <1>1, <2>1, PayloadIs
    <3>. QED  BY <1>5, <2>1, <3>1 DEF Named
  <2>2. CASE d = c /\ Ending
    <3>1. channels'[d].chain = <<>>
      BY <1>5, <2>2 DEF ChannelLeft, Restarted
    <3>2. Len(channels'[d].chain) = 0
      BY <3>1
    <3>. QED  BY <3>2
  <2>3. CASE d = c /\ ~Ending
    <3>1. channels'[d].chain = Lengthened
      BY <1>5, <2>3 DEF ChannelLeft
    <3>2. c \notin renamed
      BY <2>3, PayloadIs
    <3>. QED  BY <1>2, <1>4, <3>1, <3>2
  <2>. QED  BY <2>1, <2>2, <2>3
<1>7. TagsMatch'
  <2>1. CASE ~Ending
    <3>1. handed' = handed
      BY <2>1, PayloadIs
    <3>. QED  BY <3>1 DEF TagsMatch, Tagged
  <2>2. CASE Ending
    <3>1. PICK m : m = DecodedNow
      OBVIOUS
    <3>2. handed' = m
      BY <2>2, <3>1, PayloadIs
    <3>3. /\ m.to = publishing /\ m.tags = {Lengthened[k].tag : k \in 1..(n + 1)}
          /\ m.renamed <=> c \in renamed
      <4>1. Lengthened # <<>> /\ publishing \in Name \cup {None}
        BY <1>2 DEF TypeOK
      <4>2. m = Decoded(c, Counted, Lengthened)
        BY <1>1, <3>1 DEF DecodedNow
      <4>3. PICK chain, h : chain = Lengthened /\ h = Counted
        OBVIOUS
      <4>4. /\ m.to = publishing /\ m.tags = {chain[k].tag : k \in 1..Len(chain)}
            /\ m.renamed <=> c \in renamed
        BY <1>2, <4>1, <4>2, <4>3, DecodedIs
      <4>. QED  BY <1>2, <4>3, <4>4
    <3>4. ASSUME publishing # None, c \notin renamed
          PROVE  m.tags = {publishing}
      <4>1. ASSUME NEW k \in 1..(n + 1)  PROVE Lengthened[k].state = "end"
        <5>1. CASE k = n + 1
          BY <1>2, <2>2, <5>1 DEF BucketEnds
        <5>2. CASE k # n + 1
          <6>1. k \in 1..n
            BY <1>2, <5>2
          <6>. QED  BY <1>1, <1>2, <6>1 DEF AllEnd
        <5>. QED  BY <5>1, <5>2
      <4>2. \A k \in 1..(n + 1) : Lengthened[k].tag = publishing
        BY <1>4, <3>4, <4>1
      <4>3. n + 1 \in 1..(n + 1)
        BY <1>2
      <4>. QED  BY <3>3, <4>2, <4>3
    <3>. QED  BY <3>2, <3>3, <3>4 DEF TagsMatch, Tagged
  <2>. QED  BY <2>1, <2>2
<1>. QED  BY <1>6, <1>7

\* The application publishes, or stops.
LEMMA AppNames ==
  ASSUME TypeOK, Named, App
  PROVE  Named'
<1>1. UNCHANGED channels
  BY DEF App, Publish, Unpublish, readVars
<1>2. CASE Unpublish
  BY <1>2 DEF Unpublish, Named
<1>3. CASE \E n \in Name : Publish(n)
  <2>1. renamed' = renamed \cup HalfNamed
    BY <1>3 DEF Publish
  <2>2. ASSUME NEW c \in Channel \ renamed', channels[c] # None,
               NEW k \in 1..Len(channels[c].chain)
        PROVE  channels[c].chain[k].state # "end"
    <3>1. channels[c].chain \in Seq(ChainBucket)
      BY <2>2 DEF TypeOK, ChannelState, ChainBucket
    <3>2. k \in DOMAIN channels[c].chain
      BY <3>1
    <3>. QED  BY <2>1, <2>2, <3>2 DEF HalfNamed
  <2>. QED  BY <1>1, <2>2 DEF Named
<1>. QED  BY <1>2, <1>3 DEF App

\* A step of the peer names nothing.
LEMMA PeerNames ==
  ASSUME Named, NEW c \in Channel, Begin(c) \/ Continue(c) \/ Break(c)
  PROVE  Named' /\ UNCHANGED handed
<1>1. UNCHANGED <<readVars, appVars, handed, renamed>>
  BY DEF Begin, Continue, Break, history
<1>. QED  BY <1>1 DEF Named, readVars, appVars

\* Every bucket of an audio or video message carries the name of the stream it goes to,
\* unless the application published when some of its buckets were complete: whatever the
\* peer sends, and however often the application publishes.
THEOREM TagsAgree == Spec => []TagsMatch
<1>1. Init => Named /\ TagsMatch
  BY DEF Init, Named, TagsMatch
<1>2. TypeOK /\ Sound /\ Named /\ TagsMatch /\ [Next]_vars => (Named /\ TagsMatch)'
  <2> SUFFICES ASSUME TypeOK, Sound, Named, TagsMatch, [Next]_vars
               PROVE  (Named /\ TagsMatch)'
    OBVIOUS
  <2>1. CASE ReadPayload
    BY <2>1, NamedGrows
  <2>2. CASE ~ReadPayload
    <3>1. UNCHANGED handed
      BY <2>2, PeerNames DEF Next, Peer, Read, ReadBasic, ReadExtBasic, ReadHeader,
         ReadTime, Misread, Wander, ReadFails, App, Publish, Unpublish, vars, history
    <3>2. TagsMatch'
      BY <3>1 DEF TagsMatch, Tagged
    <3>3. CASE Peer
      BY <3>2, <3>3, PeerNames DEF Peer
    <3>4. CASE App
      BY <3>2, <3>4, AppNames
    <3>5. CASE ReadBasic \/ ReadExtBasic \/ ReadHeader \/ ReadTime
      <4>1. \A d \in Channel : KeepsBuckets(d)
        BY <3>5, HeaderPartSound
      <4>2. UNCHANGED <<publishing, renamed>>
        BY <3>5 DEF ReadBasic, ReadExtBasic, ReadHeader, ReadTime, appVars, history
      <4>. QED  BY <3>2, <4>1, <4>2, NamedStays
    <3>6. CASE Misread \/ Wander \/ ReadFails \/ UNCHANGED vars
      <4>1. \A d \in Channel : KeepsBuckets(d)
        BY <3>6, OtherSound
      <4>2. UNCHANGED <<publishing, renamed>>
        BY <3>6 DEF Misread, Wander, ReadFails, vars, appVars, history
      <4>. QED  BY <3>2, <4>1, <4>2, NamedStays
    <3>. QED  BY <2>2, <3>3, <3>4, <3>5, <3>6 DEF Next, Read
  <2>. QED  BY <2>1, <2>2
<1>. QED  BY <1>1, <1>2, ReaderSound, PTL DEF Spec

=============================================================================
