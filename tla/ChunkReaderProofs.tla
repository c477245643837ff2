-------------------------- MODULE ChunkReaderProofs --------------------------
(***************************************************************************)
(* Proofs about ChunkReader: the reader is never out of step with a peer,  *)
(* whatever chunk sizes, channels and headers the peer uses; it fills its  *)
(* buckets, hangs up on nobody who keeps the rules, and hands the messages *)
(* on whole and in order.                                                  *)
(***************************************************************************)
EXTENDS ChunkReaderTypes

-----------------------------------------------------------------------------
(* What is on the wire. *)

\* Where the peer stands before a part of a chunk: which part is next, of which chunk
\* (its channel, header format, message, the step of that message, what is left of the
\* message before the chunk, what is left of its payload, whether it breaks a rule), what
\* the peer had sent before the chunk, with which chunk size, and which messages have
\* their last byte in this chunk or after it.
Stand ==
  [stage : {"basic", "ext_basic", "header", "time", "payload", "over"},
   c : Channel, fmt : 0..3, m : Message \cup {None}, step : Nat, left : Nat, n : Nat,
   bad : BOOLEAN,
   peer : [Channel -> [last : Message \cup {None}, msg : Message \cup {None}, left : Nat]],
   size : Nat, rest : [Channel -> Seq(Message)]]

\* On channel d, messages go out in chunks of the size.
SentRight(d, p, size) ==
  /\ p.last # None => (d = ControlCid <=> p.last.type = "set_chunk_size")
  /\ p.left # 0 => /\ p.last # None /\ p.msg = p.last /\ p.left < p.last.len
                   /\ \E q \in Nat : p.last.len - p.left = q * size

\* Every stand is one of a peer that follows the format, up to the chunk it is in.
StandOK(g) ==
  /\ g \in Stand
  /\ g.size \in PeerSizes \cup {DEFAULT_CHUNK_SIZE} /\ SizeOK(g.size)
  /\ \A d \in Channel : SentRight(d, g.peer[d], g.size)

\* The time a header carries, and the bytes of a chunk.
HeaderTime(g) == IF g.fmt = 0 THEN g.m.ts ELSE g.step
ChunkLen(g) == Least(g.left, g.size)
Ends(g) == g.left <= g.size

\* A chunk after which chunks have another size.
Resizes(g) == Ends(g) /\ g.m.type = "set_chunk_size" /\ SizeOK(g.m.val)

\* A chunk of a message that begins or goes on.  The chunk size changes while no other
\* message is under way.
GoodChunk(g) ==
  /\ g.m \in Message /\ (g.c = ControlCid <=> g.m.type = "set_chunk_size")
  /\ Resizes(g) => \A d \in Channel \ {g.c} : g.peer[d].left = 0
  /\ g.left \in 1..g.m.len /\ g.n \in 1..ChunkLen(g)
  /\ g.stage # "payload" => g.n = ChunkLen(g)
  /\ LET last == g.peer[g.c].last
     IN  IF g.peer[g.c].left = 0
         THEN /\ g.left = g.m.len
              /\ g.m.ts = ((IF last = None THEN 0 ELSE last.ts) + g.step) % Modulus
              /\ last = None => g.fmt = 0
              /\ g.fmt \in {2, 3} => g.m.type = last.type /\ g.m.len = last.len
              /\ g.fmt = 3 => g.step = 0
         ELSE /\ g.left = g.peer[g.c].left /\ g.m = last
              /\ g.fmt = 3 /\ g.step = 0
  /\ g.stage = "ext_basic" => g.c \in ExtendedCid
  /\ g.stage \in {"header", "time"} => g.fmt # 3
  /\ g.stage = "time" => HeaderTime(g) >= RTMP_CHUNK_EXTENDED_TIMESTAMP

\* A chunk that breaks a rule.
BadChunk(g) ==
  /\ \/ g.peer[g.c].last = None /\ g.fmt \in {2, 3}
     \/ g.fmt = 0
  /\ g.stage \in {"basic", "ext_basic", "header", "over"}
  /\ g.stage = "ext_basic" => g.c \in ExtendedCid
  /\ g.stage = "header" => g.fmt # 3

\* The next part on the wire.
Says(p, g) ==
  \/ g.stage = "over"
  \/ /\ g.stage = "basic"
     /\ p = [part |-> "basic", cid |-> IF g.c \in ExtendedCid THEN None ELSE g.c,
             fmt |-> g.fmt]
  \/ g.stage = "ext_basic" /\ p = [part |-> "ext_basic", cid |-> g.c]
  \/ /\ g.stage = "header" /\ ~g.bad
     /\ p = [part |-> "header", type |-> g.m.type, len |-> g.m.len,
             time |-> Least(HeaderTime(g), RTMP_CHUNK_EXTENDED_TIMESTAMP)]
  \/ /\ g.stage = "header" /\ g.bad
     /\ p.part = "header"
     /\ g.fmt = 0 /\ g.peer[g.c].left = 0 => p.len = 0
  \/ g.stage = "time" /\ p = [part |-> "time", time |-> HeaderTime(g)]
  \/ g.stage = "payload" /\ p = [part |-> "payload", n |-> g.n, val |-> g.m.val]

\* The part after it.
AfterCid(g) == IF g.fmt # 3 THEN "header" ELSE IF g.bad THEN "over" ELSE "payload"
NextStage(g) ==
  CASE g.stage = "basic"     -> IF g.c \in ExtendedCid THEN "ext_basic" ELSE AfterCid(g)
    [] g.stage = "ext_basic" -> AfterCid(g)
    [] g.stage = "header"    -> IF g.bad THEN "over"
                                ELSE IF HeaderTime(g) >= RTMP_CHUNK_EXTENDED_TIMESTAMP
                                THEN "time" ELSE "payload"
    [] g.stage = "time"      -> "payload"
    [] OTHER                 -> "over"

\* What has been sent when the chunk has.
PeerAfter(g) ==
  [g.peer EXCEPT ![g.c] = [last |-> g.m, msg |-> IF Ends(g) THEN None ELSE g.m,
                           left |-> g.left - ChunkLen(g)]]
SizeAfter(g) ==
  IF Resizes(g) THEN g.m.val ELSE g.size

\* Stand h is the one after g.
Follows(g, h) ==
  IF g.stage # "payload" THEN h = [g EXCEPT !.stage = NextStage(g)]
  ELSE /\ h.stage = "basic" /\ h.peer = PeerAfter(g) /\ h.size = SizeAfter(g)
       /\ IF Ends(g)
          THEN /\ g.rest[g.c] # <<>> /\ Head(g.rest[g.c]) = g.m
               /\ h.rest = [g.rest EXCEPT ![g.c] = Tail(@)]
          ELSE h.rest = g.rest

\* A stand with a part to come.
Coming(g) == StandOK(g) /\ IF g.bad THEN BadChunk(g) ELSE GoodChunk(g) /\ g.stage # "over"

\* The stands before the parts of u, and the one after the last.  A rule once broken
\* stays broken.
Path(u, G) ==
  /\ \A i \in 1..Len(u) : /\ Coming(G[i]) /\ Says(u[i], G[i]) /\ Follows(G[i], G[i + 1])
                          /\ G[i].bad => G[Len(u) + 1].bad
  /\ StandOK(G[Len(u) + 1])

\* The parts of u take the peer from stand e to stand f.
PathFrom(u, e, f) ==
  /\ u \in Seq(Part)
  /\ \E G : Path(u, G) /\ G[1] = e /\ G[Len(u) + 1] = f

-----------------------------------------------------------------------------
(* What the reader has made of the parts before. *)

\* The buckets of chain hold what has been received of a message with value val.
Whole(b) == b.fill = DEFAULT_CHUNK_BUCKET_SIZE /\ b.state = "end"
Gathered(chain, val) ==
  /\ \A k \in 1..(Len(chain) - 1) : Whole(chain[k])
  /\ chain # <<>> => Head(chain).val = val

\* A bucket that a chunk is received into: it has room for it.
Room(b, size) ==
  /\ size > DEFAULT_CHUNK_BUCKET_SIZE => b.fill = 0
  /\ size <= DEFAULT_CHUNK_BUCKET_SIZE => /\ b.fill + size <= DEFAULT_CHUNK_BUCKET_SIZE
                                          /\ \E a \in Nat : b.fill = a * size

\* Between the chunks of a channel, its state is what has been sent on it.
Matches(ch, p, size) ==
  IF p.last = None THEN ch = None
  ELSE /\ ch \in ChannelState
       /\ ch.header.type = p.last.type /\ ch.header.len = p.last.len
       /\ ch.header.ts = p.last.ts
       /\ p.left = 0 => ch.header.recv = 0 /\ ch.chain = <<>>
       /\ p.left # 0 =>
            /\ ch.header.recv = p.last.len - p.left
            /\ ch.chain # <<>> /\ Gathered(ch.chain, p.last.val)
            /\ (Len(ch.chain) - 1) * DEFAULT_CHUNK_BUCKET_SIZE + Last(ch.chain).fill
                 = ch.header.recv
            /\ Whole(Last(ch.chain)) \/ (Last(ch.chain).state = "merge"
                                          /\ size <= DEFAULT_CHUNK_BUCKET_SIZE
                                          /\ Room(Last(ch.chain), size))

\* A channel whose message is being received.
Receives(ch, b, g) ==
  /\ ch \in ChannelState
  /\ ch.header.type = g.m.type /\ ch.header.len = g.m.len /\ ch.header.ts = g.m.ts
  /\ ch.header.recv = g.m.len - g.left + (ChunkLen(g) - g.n)
  /\ Gathered(ch.chain, g.m.val) /\ \A k \in 1..Len(ch.chain) : Whole(ch.chain[k])
  /\ Len(ch.chain) * DEFAULT_CHUNK_BUCKET_SIZE + b.fill = ch.header.recv
  /\ Room(b, g.size)
  /\ IF g.size <= DEFAULT_CHUNK_BUCKET_SIZE THEN g.n = ChunkLen(g)
     ELSE \E j \in Nat : ChunkLen(g) - g.n = j * DEFAULT_CHUNK_BUCKET_SIZE
  /\ want = Least(Least(g.m.len - ch.header.recv, g.size), DEFAULT_CHUNK_BUCKET_SIZE)

\* The reader is where the peer was before the part that is next.
Reads(g) ==
  /\ state = g.stage /\ g.stage # "over" /\ chunk_size = g.size
  /\ \A d \in Channel : d # g.c \/ g.stage \in {"basic", "ext_basic", "header"} =>
       Matches(channels[d], g.peer[d], g.size)
  /\ g.stage = "ext_basic" => current_chunk = Bucket(None, g.fmt)
  /\ g.stage = "header" => current_chunk = Bucket(g.c, g.fmt)
  /\ g.stage \in {"time", "payload"} => /\ current_channel = g.c
                                        /\ current_chunk \in BucketState
  /\ g.stage = "time" =>
       /\ channels[g.c] \in ChannelState /\ channels[g.c].chain = <<>>
       /\ current_chunk = Bucket(g.c, g.fmt)
       /\ LET h == channels[g.c].header
              last == g.peer[g.c].last
          IN  /\ h.type = g.m.type /\ h.len = g.m.len /\ h.recv = 0
              /\ h.ts = IF g.fmt = 0 \/ last = None THEN 0 ELSE last.ts
  /\ g.stage = "payload" => Receives(channels[g.c], current_chunk, g)

\* The peer is there now.
Now(g) ==
  /\ g.stage = "basic" /\ g.peer = peer /\ g.size = peer_size
  /\ g.rest = [d \in Channel |-> <<>>] /\ ~g.bad

-----------------------------------------------------------------------------
(* Paths. *)

\* Nothing to come.
LEMMA PathEmpty ==
  ASSUME NEW e, StandOK(e)
  PROVE  PathFrom(<<>>, e, e)
<1> DEFINE G == [i \in {1} |-> e]
<1>1. <<>> \in Seq(Part) /\ Len(<<>>) = 0
  OBVIOUS
<1>2. Path(<<>>, G) /\ G[1] = e /\ G[Len(<<>>) + 1] = e
  BY <1>1 DEF Path
<1>. QED  BY <1>1, <1>2 DEF PathFrom

\* A rule once broken stays broken.
LEMMA BadFollows ==
  ASSUME NEW e, NEW f, Coming(e), Follows(e, f), e.bad
  PROVE  f.bad
<1>1. e.stage # "payload" /\ e \in Stand
  BY DEF Coming, BadChunk, StandOK
<1>2. f = [e EXCEPT !.stage = NextStage(e)]
  BY <1>1 DEF Follows
<1>3. f.bad = e.bad
  BY <1>1, <1>2 DEF Stand
<1>. QED  BY <1>3

\* One part.
LEMMA PathOne ==
  ASSUME NEW p \in Part, NEW e, NEW f, Coming(e), Says(p, e), Follows(e, f), StandOK(f)
  PROVE  PathFrom(<<p>>, e, f)
<1> DEFINE G == [i \in {1, 2} |-> IF i = 1 THEN e ELSE f]
<1>1. <<p>> \in Seq(Part) /\ Len(<<p>>) = 1 /\ <<p>>[1] = p
  OBVIOUS
<1>2. G[1] = e /\ G[2] = f
  OBVIOUS
<1>3. e.bad => f.bad
  BY BadFollows
<1> HIDE DEF G
<1>4. \A i \in 1..1 : i = 1
  OBVIOUS
<1>5. Path(<<p>>, G)
  BY <1>1, <1>2, <1>3, <1>4 DEF Path
<1>. QED  BY <1>1, <1>2, <1>5 DEF PathFrom

\* One path after another.
LEMMA PathGlue ==
  ASSUME NEW u, NEW v, NEW e, NEW f, NEW h, PathFrom(u, e, f), PathFrom(v, f, h)
  PROVE  PathFrom(u \o v, e, h)
<1>1. u \in Seq(Part) /\ v \in Seq(Part)
  BY DEF PathFrom
<1>2. PICK G : Path(u, G) /\ G[1] = e /\ G[Len(u) + 1] = f
  BY DEF PathFrom
<1>3. PICK H : Path(v, H) /\ H[1] = f /\ H[Len(v) + 1] = h
  BY DEF PathFrom
<1> DEFINE w == u \o v
           K == [i \in 1..(Len(u) + Len(v) + 1) |-> IF i <= Len(u) THEN G[i]
                                                    ELSE H[i - Len(u)]]
<1>4. /\ w \in Seq(Part) /\ Len(w) = Len(u) + Len(v)
      /\ Len(u) \in Nat /\ Len(v) \in Nat
      /\ \A i \in 1..Len(u) : w[i] = u[i]
      /\ \A i \in 1..Len(v) : w[i + Len(u)] = v[i]
  BY <1>1
<1>5. /\ \A i \in 1..Len(u) : K[i] = G[i]
      /\ \A i \in 1..(Len(v) + 1) : K[i + Len(u)] = H[i]
  BY <1>4
<1> HIDE DEF w, K
<1>6. K[Len(w) + 1] = h
  <2>1. Len(w) + 1 = (Len(v) + 1) + Len(u) /\ Len(v) + 1 \in 1..(Len(v) + 1)
    BY <1>4
  <2>. QED  BY <1>3, <1>5, <2>1
<1>7. K[1] = e
  <2>1. CASE Len(u) = 0
    <3>1. K[1 + Len(u)] = H[1]
      BY <1>4, <1>5
    <3>. QED  BY <1>2, <1>3, <2>1, <3>1
  <2>2. CASE Len(u) # 0
    BY <1>2, <1>4, <1>5, <2>2
  <2>. QED  BY <2>1, <2>2
<1>8. f.bad => h.bad
  <2>1. CASE Len(v) = 0
    BY <1>3, <2>1
  <2>2. CASE Len(v) # 0
    <3>1. 1 \in 1..Len(v)
      BY <1>4, <2>2
    <3>. QED  BY <1>3, <3>1 DEF Path
  <2>. QED  BY <2>1, <2>2
<1>9. ASSUME NEW i \in 1..Len(w)
      PROVE  /\ Coming(K[i]) /\ Says(w[i], K[i]) /\ Follows(K[i], K[i + 1])
             /\ K[i].bad => K[Len(w) + 1].bad
  <2>1. CASE i <= Len(u)
    <3>1. i \in 1..Len(u) /\ K[i] = G[i] /\ w[i] = u[i]
      BY <1>4, <1>5, <2>1
    <3>2. K[i + 1] = G[i + 1]
      <4>1. CASE i = Len(u)
        <5>1. K[1 + Len(u)] = H[1]
          BY <1>4, <1>5
        <5>. QED  BY <1>2, <1>3, <1>4, <4>1, <5>1
      <4>2. CASE i # Len(u)
        BY <1>4, <1>5, <2>1, <4>2
      <4>. QED  BY <4>1, <4>2
    <3>3. G[i].bad => f.bad
      BY <1>2, <3>1 DEF Path
    <3>. QED  BY <1>2, <1>6, <1>8, <3>1, <3>2, <3>3 DEF Path
  <2>2. CASE ~(i <= Len(u))
    <3> DEFINE j == i - Len(u)
    <3>1. j \in 1..Len(v) /\ i = j + Len(u) /\ i + 1 = (j + 1) + Len(u)
          /\ j + 1 \in 1..(Len(v) + 1) /\ j \in 1..(Len(v) + 1)
      BY <1>4, <2>2
    <3>2. K[i] = H[j] /\ K[i + 1] = H[j + 1] /\ w[i] = v[j]
      BY <1>4, <1>5, <3>1, SMTT(30)
    <3>3. H[j].bad => h.bad
      BY <1>3, <3>1 DEF Path
    <3> HIDE DEF j
    <3>. QED  BY <1>3, <1>6, <3>1, <3>2, <3>3 DEF Path
  <2>. QED  BY <2>1, <2>2
<1>10. StandOK(h)
  BY <1>3 DEF Path
<1>11. Path(w, K)
  BY <1>6, <1>9, <1>10 DEF Path
<1>. QED  BY <1>4, <1>6, <1>7, <1>11 DEF PathFrom, w

\* The first part of a path.
LEMMA PathPop ==
  ASSUME NEW u, NEW e, NEW f, PathFrom(u, e, f), u # <<>>
  PROVE  /\ Coming(e) /\ Says(Head(u), e) /\ (e.bad => f.bad) /\ Head(u) \in Part
         /\ Tail(u) \in Seq(Part)
         /\ \E g : Follows(e, g) /\ StandOK(g) /\ PathFrom(Tail(u), g, f)
<1>1. u \in Seq(Part) /\ Len(u) \in Nat \ {0} /\ Head(u) = u[1] /\ Head(u) \in Part
      /\ Tail(u) \in Seq(Part) /\ Len(Tail(u)) = Len(u) - 1
      /\ \A i \in 1..(Len(u) - 1) : Tail(u)[i] = u[i + 1]
  BY DEF PathFrom
<1>2. PICK G : Path(u, G) /\ G[1] = e /\ G[Len(u) + 1] = f
  BY DEF PathFrom
<1>3. 1 \in 1..Len(u)
  BY <1>1
<1>4. /\ Coming(e) /\ Says(Head(u), e) /\ (e.bad => f.bad)
      /\ Follows(e, G[2]) /\ StandOK(f)
  BY <1>1, <1>2, <1>3 DEF Path
<1> DEFINE t == Tail(u)
           K == [i \in 1..(Len(u) + 1) |-> G[i + 1]]
<1>5. /\ Len(t) \in Nat /\ Len(u) = Len(t) + 1 /\ \A i \in 1..Len(t) : t[i] = u[i + 1]
      /\ t \in Seq(Part)
  BY <1>1
<1>6. \A i \in 1..(Len(t) + 1) : K[i] = G[i + 1]
  BY <1>5
<1> HIDE DEF t, K
<1>7. K[1] = G[2] /\ K[Len(t) + 1] = f
  BY <1>2, <1>5, <1>6
<1>8. ASSUME NEW i \in 1..Len(t)
      PROVE  /\ Coming(K[i]) /\ Says(t[i], K[i]) /\ Follows(K[i], K[i + 1])
             /\ K[i].bad => K[Len(t) + 1].bad
  <2>1. /\ i + 1 \in 1..Len(u) /\ i \in 1..(Len(t) + 1) /\ i + 1 \in 1..(Len(t) + 1)
    BY <1>5
  <2>2. K[i] = G[i + 1] /\ K[i + 1] = G[(i + 1) + 1] /\ t[i] = u[i + 1]
    BY <1>5, <1>6, <2>1
  <2>. QED  BY <1>2, <1>7, <2>1, <2>2 DEF Path
<1>9. Path(t, K)
  BY <1>4, <1>7, <1>8 DEF Path
<1>10. PathFrom(t, G[2], f)
  BY <1>5, <1>7, <1>9 DEF PathFrom
<1>11. StandOK(G[2])
  <2>1. CASE Len(t) = 0
    BY <1>4, <1>7, <2>1
  <2>2. CASE Len(t) # 0
    <3>1. 1 \in 1..Len(t)
      BY <1>5, <2>2
    <3>. QED  BY <1>7, <1>8, <3>1 DEF Coming
  <2>. QED  BY <2>1, <2>2
<1>. QED  BY <1>1, <1>4, <1>10, <1>11 DEF t

\* One more message to be finished.
AddRest(g, c, m) == [g EXCEPT !.rest[c] = Append(@, m)]

\* A stand with one more message to be finished differs in nothing else.
LEMMA AddRestFields ==
  ASSUME NEW g \in Stand, NEW c \in Channel, NEW m \in Message
  PROVE  LET r == AddRest(g, c, m) IN
         /\ r \in Stand
         /\ r.stage = g.stage /\ r.c = g.c /\ r.fmt = g.fmt /\ r.m = g.m /\ r.step = g.step
         /\ r.left = g.left /\ r.n = g.n /\ r.bad = g.bad /\ r.peer = g.peer
         /\ r.size = g.size /\ r.rest = [g.rest EXCEPT ![c] = Append(@, m)]
<1>1. [g.rest EXCEPT ![c] = Append(@, m)] \in [Channel -> Seq(Message)]
  <2>1. g.rest \in [Channel -> Seq(Message)] /\ Append(g.rest[c], m) \in Seq(Message)
    BY DEF Stand
  <2>. QED  BY <2>1
<1> DEFINE x == [g.rest EXCEPT ![c] = Append(@, m)]
<1>2. AddRest(g, c, m) = [g EXCEPT !.rest = x]
  BY DEF AddRest
<1> HIDE DEF x
<1>. QED  BY <1>1, <1>2 DEF Stand, x

\* Appending to what is to be finished keeps its head.
LEMMA RestHead ==
  ASSUME NEW s \in Seq(Message), NEW m \in Message, s # <<>>
  PROVE  /\ Append(s, m) # <<>> /\ Head(Append(s, m)) = Head(s)
         /\ Tail(Append(s, m)) = Append(Tail(s), m)
  OBVIOUS

\* The stage of a stand only.
LEMMA Restage ==
  ASSUME NEW g \in Stand,
         NEW s \in {"basic", "ext_basic", "header", "time", "payload", "over"}
  PROVE  LET r == [g EXCEPT !.stage = s] IN
         /\ r \in Stand
         /\ r.stage = s /\ r.c = g.c /\ r.fmt = g.fmt /\ r.m = g.m /\ r.step = g.step
         /\ r.left = g.left /\ r.n = g.n /\ r.bad = g.bad /\ r.peer = g.peer
         /\ r.size = g.size /\ r.rest = g.rest
  BY DEF Stand

\* The next stage is a stage, and never the first.
LEMMA NextStages ==
  ASSUME NEW g \in Stand
  PROVE  NextStage(g) \in {"ext_basic", "header", "time", "payload", "over"}
  BY DEF NextStage, AfterCid, Stand

\* A message that ends later changes nothing before.
LEMMA PathRest ==
  ASSUME NEW u, NEW e, NEW f, NEW c \in Channel, NEW m \in Message, PathFrom(u, e, f)
  PROVE  PathFrom(u, AddRest(e, c, m), AddRest(f, c, m))
<1>1. u \in Seq(Part) /\ Len(u) \in Nat
  BY DEF PathFrom
<1>2. PICK G : Path(u, G) /\ G[1] = e /\ G[Len(u) + 1] = f
  BY DEF PathFrom
<1> DEFINE A(g) == AddRest(g, c, m)
           K == [i \in 1..(Len(u) + 1) |-> A(G[i])]
<1>3. \A i \in 1..(Len(u) + 1) : K[i] = A(G[i])
  OBVIOUS
<1> HIDE DEF K
<1>4. \A g \in Stand :
        /\ A(g) \in Stand
        /\ A(g).stage = g.stage /\ A(g).c = g.c /\ A(g).fmt = g.fmt /\ A(g).m = g.m
        /\ A(g).step = g.step /\ A(g).left = g.left /\ A(g).n = g.n /\ A(g).bad = g.bad
        /\ A(g).peer = g.peer /\ A(g).size = g.size
        /\ A(g).rest = [g.rest EXCEPT ![c] = Append(@, m)]
  BY AddRestFields
<1>5. ASSUME NEW g \in Stand, NEW s
      PROVE  A([g EXCEPT !.stage = s]) = [A(g) EXCEPT !.stage = s]
  BY DEF AddRest, Stand
<1> HIDE DEF A
<1>6. ASSUME NEW g, StandOK(g)  PROVE StandOK(A(g))
  <2>1. g \in Stand
    BY <1>6 DEF StandOK
  <2>. QED  BY <1>4, <1>6, <2>1 DEF StandOK
<1>7. ASSUME NEW g \in Stand
      PROVE  /\ ChunkLen(A(g)) = ChunkLen(g) /\ HeaderTime(A(g)) = HeaderTime(g)
             /\ Ends(A(g)) = Ends(g) /\ PeerAfter(A(g)) = PeerAfter(g)
             /\ SizeAfter(A(g)) = SizeAfter(g) /\ NextStage(A(g)) = NextStage(g)
  <2>1. /\ ChunkLen(A(g)) = ChunkLen(g) /\ HeaderTime(A(g)) = HeaderTime(g)
        /\ Ends(A(g)) = Ends(g) /\ AfterCid(A(g)) = AfterCid(g)
    BY <1>4 DEF ChunkLen, HeaderTime, Ends, AfterCid
  <2>2. PeerAfter(A(g)) = PeerAfter(g)
    BY <1>4, <2>1 DEF PeerAfter
  <2>3. SizeAfter(A(g)) = SizeAfter(g)
    BY <1>4, <2>1 DEF SizeAfter, Resizes
  <2>4. NextStage(A(g)) = NextStage(g)
    <3>1. A(g).stage = g.stage /\ A(g).c = g.c /\ A(g).bad = g.bad
      BY <1>4
    <3>. QED  BY <2>1, <3>1 DEF NextStage
  <2>. QED  BY <2>1, <2>2, <2>3, <2>4
<1>8. ASSUME NEW g, Coming(g)  PROVE Coming(A(g))
  <2>1. g \in Stand /\ StandOK(A(g))
    BY <1>6, <1>8 DEF Coming, StandOK
  <2>2. GoodChunk(g) => GoodChunk(A(g))
    <3>1. PICK r : r = A(g)
      OBVIOUS
    <3>2. /\ r.stage = g.stage /\ r.c = g.c /\ r.fmt = g.fmt /\ r.m = g.m
          /\ r.step = g.step /\ r.left = g.left /\ r.n = g.n /\ r.peer = g.peer
          /\ r.size = g.size /\ ChunkLen(r) = ChunkLen(g) /\ HeaderTime(r) = HeaderTime(g)
      BY <1>4, <1>7, <2>1, <3>1
    <3>3. Resizes(r) <=> Resizes(g)
      BY <3>2 DEF Resizes, Ends
    <3>4. GoodChunk(g) => GoodChunk(r)
      BY <3>2, <3>3 DEF GoodChunk
    <3>. QED  BY <3>1, <3>4
  <2>3. BadChunk(g) => BadChunk(A(g))
    BY <1>4, <2>1 DEF BadChunk
  <2>. QED  BY <1>4, <1>8, <2>1, <2>2, <2>3 DEF Coming
<1>9. ASSUME NEW g \in Stand, NEW p, Says(p, g)  PROVE Says(p, A(g))
  BY <1>4, <1>7, <1>9 DEF Says
<1>10. ASSUME NEW g, NEW h, Coming(g), StandOK(h), Follows(g, h)  PROVE Follows(A(g), A(h))
  <2>1. g \in Stand /\ h \in Stand
    BY <1>10 DEF Coming, StandOK
  <2>2. CASE g.stage # "payload"
    <3>1. h = [g EXCEPT !.stage = NextStage(g)]
      BY <1>10, <2>2 DEF Follows
    <3>2. NextStage(A(g)) = NextStage(g) /\ A(g).stage # "payload"
      BY <1>4, <1>7, <2>1, <2>2
    <3>3. A(h) = [A(g) EXCEPT !.stage = NextStage(g)]
      BY <1>5, <2>1, <3>1
    <3>. QED  BY <3>2, <3>3 DEF Follows
  <2>3. CASE g.stage = "payload"
    <3>1. /\ h.stage = "basic" /\ h.peer = PeerAfter(g) /\ h.size = SizeAfter(g)
          /\ IF Ends(g)
             THEN /\ g.rest[g.c] # <<>> /\ Head(g.rest[g.c]) = g.m
                  /\ h.rest = [g.rest EXCEPT ![g.c] = Tail(@)]
             ELSE h.rest = g.rest
      BY <1>10, <2>3 DEF Follows
    <3>2. /\ A(g).stage = "payload" /\ A(h).stage = "basic"
          /\ A(h).peer = PeerAfter(A(g)) /\ A(h).size = SizeAfter(A(g))
          /\ Ends(A(g)) <=> Ends(g)
          /\ A(g).c = g.c /\ A(g).m = g.m
          /\ A(g).rest = [g.rest EXCEPT ![c] = Append(@, m)]
          /\ A(h).rest = [h.rest EXCEPT ![c] = Append(@, m)]
      BY <1>4, <1>7, <2>1, <2>3, <3>1
    <3>3. CASE ~Ends(g)
      BY <3>1, <3>2, <3>3 DEF Follows
    <3>4. CASE Ends(g)
      <4> DEFINE R == g.rest
                 Q == [R EXCEPT ![c] = Append(@, m)]
      <4>1. R \in [Channel -> Seq(Message)] /\ g.c \in Channel
        BY <2>1 DEF Stand
      <4>2. R[g.c] # <<>> /\ Head(R[g.c]) = g.m /\ h.rest = [R EXCEPT ![g.c] = Tail(@)]
        BY <3>1, <3>4
      <4>0. A(g).rest = Q /\ A(h).rest = [h.rest EXCEPT ![c] = Append(@, m)]
        BY <3>2
      <4> HIDE DEF R
      <4>3. R[g.c] \in Seq(Message) /\ R[c] \in Seq(Message)
        BY <4>1
      <4>4. /\ Q[g.c] # <<>> /\ Head(Q[g.c]) = g.m
            /\ Tail(Q[g.c]) = IF g.c = c THEN Append(Tail(R[c]), m) ELSE Tail(R[g.c])
        <5>1. CASE g.c = c
          BY <4>1, <4>2, <4>3, <5>1, RestHead
        <5>2. CASE g.c # c
          BY <4>1, <4>2, <5>2
        <5>. QED  BY <5>1, <5>2
      <4>5. [[R EXCEPT ![g.c] = Tail(@)] EXCEPT ![c] = Append(@, m)]
              = [Q EXCEPT ![g.c] = Tail(@)]
        BY <4>1, <4>4
      <4>6. A(h).rest = [Q EXCEPT ![g.c] = Tail(@)]
        BY <4>0, <4>2, <4>5
      <4> HIDE DEF Q
      <4>. QED  BY <3>2, <3>4, <4>0, <4>4, <4>6 DEF Follows
    <3>. QED  BY <3>3, <3>4
  <2>. QED  BY <2>2, <2>3
<1>11. \A i \in 1..(Len(u) + 1) : StandOK(G[i]) /\ G[i] \in Stand
  BY <1>1, <1>2 DEF Path, Coming, StandOK
<1>12. ASSUME NEW i \in 1..Len(u)
       PROVE  /\ Coming(K[i]) /\ Says(u[i], K[i]) /\ Follows(K[i], K[i + 1])
              /\ K[i].bad => K[Len(u) + 1].bad
  <2>1. i \in 1..(Len(u) + 1) /\ i + 1 \in 1..(Len(u) + 1)
        /\ Len(u) + 1 \in 1..(Len(u) + 1)
    BY <1>1
  <2>2. /\ Coming(G[i]) /\ Says(u[i], G[i]) /\ Follows(G[i], G[i + 1])
        /\ G[i].bad => G[Len(u) + 1].bad
        /\ StandOK(G[i + 1]) /\ G[i] \in Stand /\ G[Len(u) + 1] \in Stand
    BY <1>2, <1>11, <2>1 DEF Path
  <2>3. K[i] = A(G[i]) /\ K[i + 1] = A(G[i + 1]) /\ K[Len(u) + 1] = A(G[Len(u) + 1])
    BY <1>3, <2>1
  <2>4. Coming(A(G[i])) /\ Says(u[i], A(G[i])) /\ Follows(A(G[i]), A(G[i + 1]))
    BY <1>8, <1>9, <1>10, <2>2
  <2>5. A(G[i]).bad => A(G[Len(u) + 1]).bad
    BY <1>4, <2>2
  <2>. QED  BY <2>3, <2>4, <2>5
<1>13. K[1] = A(e) /\ K[Len(u) + 1] = A(f) /\ StandOK(A(f))
  <2>1. 1 \in 1..(Len(u) + 1) /\ Len(u) + 1 \in 1..(Len(u) + 1)
    BY <1>1
  <2>. QED  BY <1>2, <1>3, <1>6, <1>11, <2>1
<1>14. Path(u, K)
  BY <1>12, <1>13 DEF Path
<1>. QED  BY <1>1, <1>13, <1>14 DEF PathFrom, A

\* Between two chunks, before the peer has chosen the next.
Between(g, h) ==
  /\ g.stage = "basic" /\ h.stage = "basic"
  /\ h.peer = g.peer /\ h.size = g.size /\ h.rest = g.rest

\* The chunk after a path may be any.
LEMMA PathRetarget ==
  ASSUME NEW u, NEW e, NEW f, NEW h, PathFrom(u, e, f), Between(f, h), StandOK(h),
         ~f.bad
  PROVE  \E g : /\ PathFrom(u, g, h)
                /\ g = e \/ Between(e, g)
<1>1. u \in Seq(Part) /\ Len(u) \in Nat
  BY DEF PathFrom
<1>2. PICK G : Path(u, G) /\ G[1] = e /\ G[Len(u) + 1] = f
  BY DEF PathFrom
<1>3. CASE Len(u) = 0
  <2>1. u = <<>> /\ e = f
    BY <1>1, <1>2, <1>3
  <2>2. PathFrom(u, h, h)
    BY <2>1, PathEmpty
  <2>. QED  BY <2>1, <2>2
<1>4. CASE Len(u) # 0
  <2> DEFINE K == [i \in 1..(Len(u) + 1) |-> IF i <= Len(u) THEN G[i] ELSE h]
  <2>1. (\A i \in 1..Len(u) : K[i] = G[i]) /\ K[Len(u) + 1] = h /\ 1 \in 1..Len(u)
    BY <1>1, <1>4
  <2> HIDE DEF K
  <2>2. ASSUME NEW i \in 1..Len(u)
        PROVE  /\ Coming(K[i]) /\ Says(u[i], K[i]) /\ Follows(K[i], K[i + 1])
               /\ K[i].bad => K[Len(u) + 1].bad
    <3>1. /\ Coming(G[i]) /\ Says(u[i], G[i]) /\ Follows(G[i], G[i + 1]) /\ ~G[i].bad
          /\ K[i] = G[i]
      BY <1>2, <2>1 DEF Path
    <3>2. CASE i = Len(u)
      <4>1. Follows(G[i], f) /\ f.stage = "basic" /\ G[i] \in Stand
        BY <1>2, <3>1, <3>2 DEF Between, Coming, StandOK
      <4>2. G[i].stage = "payload"
        <5>1. ASSUME G[i].stage # "payload"  PROVE FALSE
          <6>1. NextStage(G[i]) \in {"ext_basic", "header", "time", "payload", "over"}
            BY <4>1, NextStages
          <6>2. f.stage = NextStage(G[i])
            BY <4>1, <5>1 DEF Follows, Stand
          <6>. QED  BY <4>1, <6>1, <6>2
        <5>. QED  BY <5>1
      <4>3. Follows(G[i], h)
        BY <4>1, <4>2 DEF Follows, Between
      <4>. QED  BY <2>1, <3>1, <3>2, <4>3
    <3>3. CASE i # Len(u)
      <4>1. i + 1 \in 1..Len(u)
        BY <1>1, <3>3
      <4>. QED  BY <2>1, <3>1, <4>1
    <3>. QED  BY <3>2, <3>3
  <2>3. Path(u, K)
    BY <2>1, <2>2 DEF Path
  <2>4. PathFrom(u, e, h)
    BY <1>1, <1>2, <2>1, <2>3 DEF PathFrom
  <2>. QED  BY <2>4
<1>. QED  BY <1>3, <1>4

-----------------------------------------------------------------------------
(* Sizes. *)

\* A chunk size that is accepted divides the size of a bucket or is divided by it.
LEMMA SizeDivides ==
  ASSUME NEW size \in Nat, SizeOK(size)
  PROVE  /\ size # 0
         /\ size > DEFAULT_CHUNK_BUCKET_SIZE =>
              \E k \in Nat : size = k * DEFAULT_CHUNK_BUCKET_SIZE
         /\ size <= DEFAULT_CHUNK_BUCKET_SIZE =>
              \E k \in Nat : DEFAULT_CHUNK_BUCKET_SIZE = k * size
<1> DEFINE B == DEFAULT_CHUNK_BUCKET_SIZE
<1>1. B \in Nat \ {0} /\ size # 0
  BY Sizes DEF SizeOK
<1>2. \A x \in Nat, s \in Nat \ {0} : x % s = 0 => \E k \in Nat : x = k * s
  OBVIOUS
<1>3. size > B => size % B = 0
  BY <1>1 DEF SizeOK
<1>4. size < B => B % size = 0
  BY <1>1 DEF SizeOK
<1>5. B = size => B = 1 * size
  BY <1>1
<1>6. size > B => \E k \in Nat : size = k * B
  BY <1>1, <1>2, <1>3
<1>7. size <= B => \E k \in Nat : B = k * size
  <2>1. size <= B => size < B \/ B = size
    BY <1>1
  <2>. QED  BY <1>1, <1>2, <1>4, <1>5, <2>1
<1>. QED  BY <1>1, <1>6, <1>7

\* Multiples that are less than one apart.
LEMMA NoneBetween ==
  ASSUME NEW a \in Nat, NEW k \in Nat, NEW s \in Nat \ {0}, a * s <= k * s,
         k * s - a * s < s
  PROVE  a * s = k * s
<1>1. CASE a < k
  <2>1. PICK d \in Nat : k = a + 1 + d
    <3>1. k - a - 1 \in Nat /\ k = a + 1 + (k - a - 1)
      BY <1>1
    <3>. QED  BY <3>1
  <2>2. k * s = a * s + s + d * s /\ d * s \in Nat
    BY <2>1
  <2>. QED  BY <2>2
<1>2. CASE a = k
  BY <1>2
<1>3. CASE a > k
  <2>1. PICK d \in Nat : a = k + 1 + d
    <3>1. a - k - 1 \in Nat /\ a = k + 1 + (a - k - 1)
      BY <1>3
    <3>. QED  BY <3>1
  <2>2. a * s = k * s + s + d * s /\ d * s \in Nat
    BY <2>1
  <2>. QED  BY <2>2
<1>. QED  BY <1>1, <1>2, <1>3

\* Multiples that are apart are at least one apart.
LEMMA OneBetween ==
  ASSUME NEW a \in Nat, NEW k \in Nat, NEW s \in Nat \ {0}, a * s < k * s
  PROVE  k * s - a * s >= s
<1>1. k * s \in Nat /\ a * s \in Nat
  OBVIOUS
<1>2. k * s - a * s < s => a * s = k * s
  BY <1>1, NoneBetween
<1>. QED  BY <1>1, <1>2

\* The rest of a division.
LEMMA Remainder ==
  ASSUME NEW q \in Nat, NEW d \in Nat, NEW s \in Nat \ {0}, d < s
  PROVE  (q * s + d) % s = d
  OBVIOUS

-----------------------------------------------------------------------------
(* What the peer sends. *)

\* The stand after chunk g.
RestAfter(g) == IF Ends(g) THEN [g.rest EXCEPT ![g.c] = Tail(@)] ELSE g.rest
AfterChunk(g) ==
  [g EXCEPT !.stage = "basic", !.peer = PeerAfter(g), !.size = SizeAfter(g),
            !.rest = RestAfter(g)]

\* After a chunk that follows the format the peer still does.
LEMMA AfterOK ==
  ASSUME NEW g, StandOK(g), GoodChunk(g), Ends(g) => g.rest[g.c] # <<>>
  PROVE  /\ StandOK(AfterChunk(g))
         /\ AfterChunk(g).stage = "basic" /\ AfterChunk(g).peer = PeerAfter(g)
         /\ AfterChunk(g).size = SizeAfter(g) /\ AfterChunk(g).bad = g.bad
         /\ AfterChunk(g).rest = RestAfter(g)
<1> DEFINE P == PeerAfter(g)
           S == SizeAfter(g)
           R == RestAfter(g)
<1>1. /\ g \in Stand /\ g.size \in Nat \ {0} /\ g.left \in Nat \ {0} /\ g.c \in Channel
      /\ g.size \in PeerSizes \cup {DEFAULT_CHUNK_SIZE} /\ SizeOK(g.size)
      /\ g.m \in Message /\ g.m.len \in Nat \ {0} /\ g.left <= g.m.len
      /\ g.peer \in [Channel -> [last : Message \cup {None}, msg : Message \cup {None},
                                 left : Nat]]
      /\ g.rest \in [Channel -> Seq(Message)]
  <2>1. /\ g \in Stand /\ g.size \in PeerSizes \cup {DEFAULT_CHUNK_SIZE} /\ SizeOK(g.size)
    BY DEF StandOK
  <2>2. /\ g.left \in Nat /\ g.c \in Channel
        /\ g.peer \in [Channel -> [last : Message \cup {None}, msg : Message \cup {None},
                                   left : Nat]]
        /\ g.rest \in [Channel -> Seq(Message)]
    BY <2>1 DEF Stand
  <2>3. g.size \in Nat /\ g.size # 0
    BY <2>1, Sizes DEF SizeOK
  <2>4. g.m \in Message /\ g.left \in 1..g.m.len
    BY DEF GoodChunk
  <2>5. g.m.len \in Nat \ {0}
    BY <2>4, Sizes
  <2>. QED  BY <2>1, <2>2, <2>3, <2>4, <2>5
<1>2. /\ ChunkLen(g) \in Nat /\ ChunkLen(g) <= g.left
      /\ Ends(g) => ChunkLen(g) = g.left
      /\ ~Ends(g) => ChunkLen(g) = g.size /\ g.left - g.size \in Nat
  BY <1>1 DEF ChunkLen, Least, Ends
<1>3. /\ P \in [Channel -> [last : Message \cup {None}, msg : Message \cup {None},
                            left : Nat]]
      /\ P[g.c] = [last |-> g.m, msg |-> IF Ends(g) THEN None ELSE g.m,
                   left |-> g.left - ChunkLen(g)]
      /\ \A d \in Channel \ {g.c} : P[d] = g.peer[d]
  <2>1. g.left - ChunkLen(g) \in Nat
    BY <1>1, <1>2
  <2>. QED  BY <1>1, <2>1 DEF PeerAfter
<1>4. R \in [Channel -> Seq(Message)]
  <2>1. Ends(g) => Tail(g.rest[g.c]) \in Seq(Message)
    BY <1>1
  <2>. QED  BY <1>1, <2>1 DEF RestAfter
<1>5. /\ S \in PeerSizes \cup {DEFAULT_CHUNK_SIZE} /\ SizeOK(S) /\ S \in Nat
      /\ S # g.size => Resizes(g)
      /\ Resizes(g) => Ends(g)
  <2>1. CASE Resizes(g)
    <3>1. S = g.m.val /\ g.m.val \in PeerSizes
      BY <1>1, <2>1, Sizes DEF SizeAfter, Resizes
    <3>. QED  BY <2>1, <3>1, Sizes DEF Resizes
  <2>2. CASE ~Resizes(g)
    <3>1. S = g.size
      BY <2>2 DEF SizeAfter
    <3>. QED  BY <1>1, <2>2, <3>1
  <2>. QED  BY <2>1, <2>2
<1>6. ASSUME NEW d \in Channel  PROVE SentRight(d, P[d], S)
  <2>1. CASE d # g.c
    <3>1. SentRight(d, g.peer[d], g.size) /\ P[d] = g.peer[d]
      BY <1>3, <2>1 DEF StandOK
    <3>2. S # g.size => g.peer[d].left = 0
      BY <1>5, <2>1 DEF GoodChunk
    <3>. QED  BY <3>1, <3>2 DEF SentRight
  <2>2. CASE d = g.c /\ Ends(g)
    <3>1. P[d].left = 0 /\ P[d].last = g.m
      BY <1>1, <1>2, <1>3, <2>2
    <3>. QED  BY <2>2, <3>1 DEF SentRight, GoodChunk
  <2>3. CASE d = g.c /\ ~Ends(g)
    <3>1. /\ P[d].left = g.left - g.size /\ P[d].last = g.m /\ P[d].msg = g.m
          /\ S = g.size /\ g.m # None
      BY <1>1, <1>2, <1>3, <1>5, <2>3, ChannelAssumption
    <3>2. PICK q \in Nat : g.m.len - g.left = q * g.size
      <4>1. CASE g.peer[g.c].left = 0
        <5>1. g.m.len - g.left = 0 * g.size
          BY <1>1, <4>1 DEF GoodChunk
        <5>. QED  BY <5>1
      <4>2. CASE g.peer[g.c].left # 0
        <5>1. g.left = g.peer[g.c].left /\ g.m = g.peer[g.c].last
          BY <4>2 DEF GoodChunk
        <5>2. \E q \in Nat : g.peer[g.c].last.len - g.peer[g.c].left = q * g.size
          BY <1>1, <4>2 DEF StandOK, SentRight
        <5>. QED  BY <5>1, <5>2
      <4>. QED  BY <4>1, <4>2
    <3>3. g.m.len - (g.left - g.size) = (q + 1) * g.size /\ q + 1 \in Nat
      <4>1. \A x, y \in Nat : (x + 1) * y = x * y + y /\ x * y \in Nat
        OBVIOUS
      <4>2. (q + 1) * g.size = q * g.size + g.size /\ q * g.size \in Nat
        BY <1>1, <4>1
      <4>3. g.m.len \in Nat /\ g.left \in Nat /\ g.size \in Nat
        BY <1>1
      <4>4. PICK x, y \in Nat : x = q * g.size /\ y = (q + 1) * g.size
        BY <4>2, <4>3
      <4>5. g.m.len - g.left = x /\ y = x + g.size
        BY <3>2, <4>2, <4>4, Zenon
      <4>6. g.m.len - (g.left - g.size) = y
        BY <4>3, <4>5
      <4>. QED  BY <4>4, <4>6
    <3>4. g.left - g.size < g.m.len
      BY <1>1
    <3>. QED  BY <2>3, <3>1, <3>3, <3>4 DEF SentRight, GoodChunk
  <2>. QED  BY <2>1, <2>2, <2>3
<1>7. AfterChunk(g) = [g EXCEPT !.stage = "basic", !.peer = P, !.size = S, !.rest = R]
  BY DEF AfterChunk
<1>8. S \in Nat
  BY <1>5
<1> HIDE DEF P, S, R
<1>9. /\ AfterChunk(g) \in Stand
      /\ AfterChunk(g).stage = "basic" /\ AfterChunk(g).peer = P
      /\ AfterChunk(g).size = S /\ AfterChunk(g).rest = R /\ AfterChunk(g).bad = g.bad
  <2>1. [g EXCEPT !.stage = "basic", !.peer = P, !.size = S, !.rest = R] \in Stand
    BY <1>1, <1>3, <1>4, <1>8 DEF Stand
  <2>. QED  BY <1>1, <1>7, <2>1 DEF Stand
<1>10. StandOK(AfterChunk(g))
  BY <1>5, <1>6, <1>9 DEF StandOK
<1>. QED  BY <1>9, <1>10 DEF P, S, R

\* Another stage of the same chunk.
At(g, s) == [g EXCEPT !.stage = s]

\* Another stage of a chunk leaves the chunk itself, and all that is read off it, as it is.
LEMMA AtFields ==
  ASSUME NEW g, StandOK(g),
         NEW s \in {"basic", "ext_basic", "header", "time", "payload", "over"}
  PROVE  LET r == At(g, s) IN
         /\ StandOK(r) /\ g \in Stand /\ r \in Stand
         /\ r.stage = s /\ r.c = g.c /\ r.fmt = g.fmt /\ r.m = g.m /\ r.step = g.step
         /\ r.left = g.left /\ r.n = g.n /\ r.bad = g.bad /\ r.peer = g.peer
         /\ r.size = g.size /\ r.rest = g.rest
         /\ ChunkLen(r) = ChunkLen(g) /\ HeaderTime(r) = HeaderTime(g)
         /\ AfterCid(r) = AfterCid(g) /\ (Ends(r) <=> Ends(g))
         /\ \A t : At(r, t) = At(g, t)
         /\ At(g, g.stage) = g
<1> DEFINE r == At(g, s)
<1>1. g \in Stand
  BY DEF StandOK
<1>2. /\ r \in Stand
      /\ r.stage = s /\ r.c = g.c /\ r.fmt = g.fmt /\ r.m = g.m /\ r.step = g.step
      /\ r.left = g.left /\ r.n = g.n /\ r.bad = g.bad /\ r.peer = g.peer
      /\ r.size = g.size /\ r.rest = g.rest
  BY <1>1, Restage DEF At
<1>3. (\A t : At(r, t) = At(g, t)) /\ At(g, g.stage) = g
  BY <1>1 DEF At, Stand
<1> HIDE DEF r
<1>4. StandOK(r)
  BY <1>2 DEF StandOK
<1>5. /\ ChunkLen(r) = ChunkLen(g) /\ HeaderTime(r) = HeaderTime(g)
      /\ AfterCid(r) = AfterCid(g) /\ (Ends(r) <=> Ends(g))
  BY <1>2 DEF ChunkLen, HeaderTime, AfterCid, Ends
<1>. QED  BY <1>1, <1>2, <1>3, <1>4, <1>5 DEF r

\* A chunk that is fine is fine at every stage it has.
LEMMA AtGood ==
  ASSUME NEW g, StandOK(g), GoodChunk(g), g.n = ChunkLen(g),
         NEW s \in {"basic", "ext_basic", "header", "time", "payload"},
         s = "ext_basic" => g.c \in ExtendedCid,
         s \in {"header", "time"} => g.fmt # 3,
         s = "time" => HeaderTime(g) >= RTMP_CHUNK_EXTENDED_TIMESTAMP
  PROVE  GoodChunk(At(g, s))
<1>1. PICK r : r = At(g, s)
  OBVIOUS
<1>2. /\ r.stage = s /\ r.c = g.c /\ r.fmt = g.fmt /\ r.m = g.m /\ r.step = g.step
      /\ r.left = g.left /\ r.n = g.n /\ r.peer = g.peer /\ r.size = g.size
      /\ ChunkLen(r) = ChunkLen(g) /\ HeaderTime(r) = HeaderTime(g)
  BY <1>1, AtFields
<1>3. Resizes(r) <=> Resizes(g)
  BY <1>2 DEF Resizes, Ends
<1>4. GoodChunk(r)
  BY <1>2, <1>3 DEF GoodChunk
<1>. QED  BY <1>1, <1>4

\* The same for a chunk that breaks a rule.
LEMMA AtBad ==
  ASSUME NEW g, StandOK(g), BadChunk(g),
         NEW s \in {"basic", "ext_basic", "header", "over"},
         s = "ext_basic" => g.c \in ExtendedCid,
         s = "header" => g.fmt # 3
  PROVE  BadChunk(At(g, s))
<1>1. PICK r : r = At(g, s)
  OBVIOUS
<1>2. r.stage = s /\ r.c = g.c /\ r.fmt = g.fmt /\ r.peer = g.peer
  BY <1>1, AtFields
<1>3. BadChunk(r)
  BY <1>2 DEF BadChunk
<1>. QED  BY <1>1, <1>3

\* From part to part of a chunk.
LEMMA AtFollows ==
  ASSUME NEW g, StandOK(g), g.stage # "payload"
  PROVE  Follows(g, At(g, NextStage(g))) /\ StandOK(At(g, NextStage(g)))
<1>1. NextStage(g) \in {"ext_basic", "header", "time", "payload", "over"}
  BY NextStages DEF StandOK
<1>2. StandOK(At(g, NextStage(g)))
  BY <1>1, AtFields
<1>. QED  BY <1>2 DEF Follows, At

\* One part after another.
LEMMA PathOneMore ==
  ASSUME NEW p \in Part, NEW q \in Part, NEW e, NEW f, NEW h,
         PathFrom(<<p>>, e, f), PathFrom(<<q>>, f, h)
  PROVE  PathFrom(<<p, q>>, e, h)
<1>1. <<p>> \o <<q>> = <<p, q>>
  <2> DEFINE u == <<p>>
             v == <<q>>
             w == <<p, q>>
  <2>1. /\ u \in Seq(Part) /\ v \in Seq(Part) /\ w \in Seq(Part)
        /\ Len(u) = 1 /\ Len(v) = 1 /\ Len(w) = 2
        /\ u[1] = p /\ v[1] = q /\ w[1] = p /\ w[2] = q
    OBVIOUS
  <2> HIDE DEF u, v, w
  <2>2. /\ u \o v \in Seq(Part) /\ Len(u \o v) = 2
        /\ (u \o v)[1] = p /\ (u \o v)[2] = q
    <3>1. /\ u \o v \in Seq(Part) /\ Len(u \o v) = Len(u) + Len(v)
          /\ \A i \in 1..Len(u) : (u \o v)[i] = u[i]
          /\ \A j \in 1..Len(v) : (u \o v)[Len(u) + j] = v[j]
      BY <2>1, ConcatProperties
    <3>2. 1 \in 1..Len(u) /\ 1 \in 1..Len(v) /\ Len(u) + 1 = 2
      BY <2>1
    <3>. QED  BY <2>1, <3>1, <3>2
  <2>3. \A i \in 1..2 : (u \o v)[i] = w[i]
    BY <2>1, <2>2
  <2>4. u \o v = w
    BY <2>1, <2>2, <2>3, SeqEqual
  <2>. QED  BY <2>4 DEF u, v, w
<1>2. PathFrom(<<p>> \o <<q>>, e, h)
  BY PathGlue
<1>. QED  BY <1>1, <1>2

\* The basic header.
LEMMA BasicPath ==
  ASSUME NEW g, Coming(g), g.stage = "basic", ~g.bad => g.n = ChunkLen(g)
  PROVE  PathFrom(Basic(g.c, g.fmt), g, At(g, AfterCid(g)))
<1>1. StandOK(g) /\ g \in Stand /\ g.c \in Channel /\ g.fmt \in 0..3 /\ g.bad \in BOOLEAN
  BY DEF Coming, StandOK, Stand
<1> DEFINE x == g.c \in ExtendedCid
           p == [part |-> "basic", cid |-> IF x THEN None ELSE g.c, fmt |-> g.fmt]
           q == [part |-> "ext_basic", cid |-> g.c]
           r == At(g, NextStage(g))
<1>2. p \in Part /\ q \in Part
  BY <1>1 DEF Part
<1>3. Says(p, g)
  BY DEF Says
<1>4. Follows(g, r) /\ StandOK(r)
  BY <1>1, AtFollows
<1>5. PathFrom(<<p>>, g, r)
  BY <1>2, <1>3, <1>4, PathOne
<1>6. CASE ~x
  <2>1. r = At(g, AfterCid(g)) /\ Basic(g.c, g.fmt) = <<p>>
    BY <1>6 DEF NextStage, Basic
  <2>. QED  BY <1>5, <2>1
<1>7. CASE x
  <2>1. r = At(g, "ext_basic") /\ Basic(g.c, g.fmt) = <<p, q>>
    BY <1>7 DEF NextStage, Basic
  <2>2. /\ r.stage = "ext_basic" /\ r.c = g.c /\ r.bad = g.bad
        /\ AfterCid(r) = AfterCid(g)
        /\ \A t : At(r, t) = At(g, t)
    BY <1>1, <2>1, AtFields
  <2>3. Coming(r)
    <3>1. CASE g.bad
      <4>1. BadChunk(r)
        BY <1>1, <1>7, <2>1, <3>1, AtBad DEF Coming
      <4>. QED  BY <1>4, <2>2, <3>1, <4>1 DEF Coming
    <3>2. CASE ~g.bad
      <4>1. GoodChunk(r)
        BY <1>1, <1>7, <2>1, <3>2, AtGood DEF Coming
      <4>. QED  BY <1>4, <2>2, <3>2, <4>1 DEF Coming
    <3>. QED  BY <3>1, <3>2
  <2>4. Says(q, r)
    BY <2>2 DEF Says
  <2>5. NextStage(r) = AfterCid(g)
    BY <2>2 DEF NextStage
  <2>6. Follows(r, At(g, AfterCid(g))) /\ StandOK(At(g, AfterCid(g)))
    BY <1>4, <2>2, <2>5, AtFollows
  <2>7. PathFrom(<<q>>, r, At(g, AfterCid(g)))
    BY <1>2, <2>3, <2>4, <2>6, PathOne
  <2>. QED  BY <1>2, <1>5, <2>1, <2>7, PathOneMore
<1>. QED  BY <1>6, <1>7

\* The message header, with the time in four more bytes if it is long.
LEMMA HeaderPath ==
  ASSUME NEW g, StandOK(g), GoodChunk(g), ~g.bad, g.stage = "header"
  PROVE  PathFrom(Header(g.fmt, g.m, g.step), g, At(g, "payload"))
<1>1. /\ g \in Stand /\ g.m \in Message /\ g.m.len \in Nat /\ g.m.ts \in Nat
      /\ g.step \in Nat /\ g.fmt # 3 /\ g.m.type \in {"av", "set_chunk_size"}
  BY Sizes DEF StandOK, Stand, GoodChunk
<1>2. HeaderTime(g) \in Nat /\ RTMP_CHUNK_EXTENDED_TIMESTAMP \in Nat
  BY <1>1, Sizes DEF HeaderTime
<1> DEFINE long == HeaderTime(g) >= RTMP_CHUNK_EXTENDED_TIMESTAMP
           p == [part |-> "header", type |-> g.m.type, len |-> g.m.len,
                 time |-> Least(HeaderTime(g), RTMP_CHUNK_EXTENDED_TIMESTAMP)]
           q == [part |-> "time", time |-> HeaderTime(g)]
           r == At(g, NextStage(g))
<1>3. p \in Part /\ q \in Part
  BY <1>1, <1>2, LeastIs DEF Part, HeaderPart
<1>4. /\ Says(p, g) /\ Coming(g)
      /\ Header(g.fmt, g.m, g.step) = IF long THEN <<p, q>> ELSE <<p>>
  <2>1. Least(HeaderTime(g), RTMP_CHUNK_EXTENDED_TIMESTAMP)
          = IF long THEN RTMP_CHUNK_EXTENDED_TIMESTAMP ELSE HeaderTime(g)
    BY <1>2 DEF Least
  <2>2. Header(g.fmt, g.m, g.step) = IF long THEN <<p, q>> ELSE <<p>>
    BY <1>1, <2>1 DEF Header, HeaderTime
  <2>. QED  BY <2>2 DEF Says, Coming
<1>5. Follows(g, r) /\ StandOK(r)
  BY AtFollows
<1>6. PathFrom(<<p>>, g, r)
  BY <1>3, <1>4, <1>5, PathOne
<1>7. CASE ~long
  <2>1. r = At(g, "payload")
    BY <1>7 DEF NextStage
  <2>. QED  BY <1>4, <1>6, <1>7, <2>1
<1>8. CASE long
  <2>1. r = At(g, "time")
    BY <1>8 DEF NextStage
  <2>2. /\ r.stage = "time" /\ ~r.bad /\ HeaderTime(r) = HeaderTime(g)
        /\ At(r, "payload") = At(g, "payload")
    <3>1. StandOK(g) /\ ~g.bad
      BY <1>1
    <3>2. PICK t : t = At(g, "time")
      OBVIOUS
    <3>3. /\ t.stage = "time" /\ t.bad = g.bad /\ HeaderTime(t) = HeaderTime(g)
          /\ At(t, "payload") = At(g, "payload")
      BY <3>1, <3>2, AtFields
    <3>4. r = t
      BY <2>1, <3>2
    <3> HIDE DEF r
    <3>. QED  BY <3>1, <3>3, <3>4
  <2>3. Coming(r) /\ Says(q, r)
    <3>1. GoodChunk(r)
      BY <1>1, <1>8, <2>1, AtGood DEF GoodChunk
    <3>. QED  BY <1>5, <2>2, <3>1 DEF Coming, Says
  <2>4. NextStage(r) = "payload"
    BY <2>2 DEF NextStage
  <2>5. Follows(r, At(g, "payload")) /\ StandOK(At(g, "payload"))
    BY <1>5, <2>2, <2>4, AtFollows
  <2>6. PathFrom(<<q>>, r, At(g, "payload"))
    BY <1>3, <2>3, <2>5, PathOne
  <2>. QED  BY <1>3, <1>4, <1>6, <1>8, <2>6, PathOneMore
<1>. QED  BY <1>7, <1>8

\* A chunk takes the peer from before it to after it.
LEMMA ChunkPath ==
  ASSUME NEW g, StandOK(g), GoodChunk(g), ~g.bad, g.stage = "basic", g.size = peer_size,
         Ends(g) => g.rest[g.c] # <<>> /\ Head(g.rest[g.c]) = g.m
  PROVE  PathFrom(Chunk(g.c, g.fmt, g.m, g.step, g.left), g, AfterChunk(At(g, "payload")))
<1>1. g.n = ChunkLen(g) /\ Coming(g) /\ g \in Stand /\ g.fmt \in 0..3
  BY DEF GoodChunk, Coming, StandOK, Stand
<1> DEFINE h == At(g, AfterCid(g))
           r == At(g, "payload")
           p == [part |-> "payload", n |-> Least(g.left, peer_size), val |-> g.m.val]
<1>2. PathFrom(Basic(g.c, g.fmt), g, h)
  BY <1>1, BasicPath
<1>3. PathFrom(Header(g.fmt, g.m, g.step), h, r)
  <2>1. CASE g.fmt = 3
    <3>1. h = r /\ Header(g.fmt, g.m, g.step) = <<>>
      BY <2>1 DEF AfterCid, Header
    <3>2. StandOK(r)
      BY AtFields
    <3>. QED  BY <3>1, <3>2, PathEmpty
  <2>2. CASE g.fmt # 3
    <3>1. h = At(g, "header")
      BY <2>2 DEF AfterCid
    <3>2. /\ StandOK(h) /\ h.stage = "header" /\ ~h.bad /\ h.fmt = g.fmt /\ h.m = g.m
          /\ h.step = g.step /\ At(h, "payload") = r
      BY <3>1, AtFields
    <3>3. GoodChunk(h)
      BY <1>1, <2>2, <3>1, AtGood
    <3> HIDE DEF h, r
    <3>4. PathFrom(Header(h.fmt, h.m, h.step), h, At(h, "payload"))
      BY <3>2, <3>3, HeaderPath
    <3>. QED  BY <3>2, <3>4
  <2>. QED  BY <2>1, <2>2
<1>4. PathFrom(<<p>>, r, AfterChunk(r))
  <2>1. /\ StandOK(r) /\ r.stage = "payload" /\ ~r.bad /\ r.c = g.c /\ r.m = g.m
        /\ r.n = g.n /\ r.rest = g.rest /\ (Ends(r) <=> Ends(g)) /\ r.size = g.size
        /\ r.left = g.left
    BY AtFields
  <2>2. GoodChunk(r)
    BY <1>1, AtGood
  <2> HIDE DEF r
  <2>3. p \in Part
    <3>1. /\ g.left \in Nat /\ peer_size \in Nat /\ g.m.val \in PeerSizes \cup {None}
      BY <1>1, Sizes DEF Stand, GoodChunk
    <3>. QED  BY <3>1, LeastIs DEF Part
  <2>4. Says(p, r) /\ Coming(r)
    BY <1>1, <2>1, <2>2 DEF Says, Coming, ChunkLen
  <2>5. /\ StandOK(AfterChunk(r)) /\ AfterChunk(r).stage = "basic"
        /\ AfterChunk(r).peer = PeerAfter(r) /\ AfterChunk(r).size = SizeAfter(r)
        /\ AfterChunk(r).rest = RestAfter(r)
    BY <2>1, <2>2, AfterOK
  <2>6. Follows(r, AfterChunk(r))
    BY <2>1, <2>5 DEF Follows, RestAfter
  <2>. QED  BY <2>3, <2>4, <2>5, <2>6, PathOne
<1>5. Chunk(g.c, g.fmt, g.m, g.step, g.left)
        = (Basic(g.c, g.fmt) \o Header(g.fmt, g.m, g.step)) \o <<p>>
  BY DEF Chunk, Payload
<1> HIDE DEF h, r, p
<1>6. PathFrom(Basic(g.c, g.fmt) \o Header(g.fmt, g.m, g.step), g, r)
  BY <1>2, <1>3, PathGlue
<1>7. PathFrom((Basic(g.c, g.fmt) \o Header(g.fmt, g.m, g.step)) \o <<p>>, g, AfterChunk(r))
  BY <1>4, <1>6, PathGlue
<1>. QED  BY <1>5, <1>7 DEF r

-----------------------------------------------------------------------------
(* The payload of a chunk. *)

\* The numbers of a chunk that is fine.
LEMMA ChunkNumbers ==
  ASSUME NEW g, StandOK(g), GoodChunk(g)
  PROVE  /\ g \in Stand /\ g.c \in Channel /\ g.m \in Message
         /\ g.size \in Nat \ {0} /\ g.left \in Nat \ {0} /\ g.n \in Nat \ {0}
         /\ g.m.len \in Nat \ {0} /\ g.left <= g.m.len
         /\ ChunkLen(g) \in Nat /\ g.n <= ChunkLen(g)
         /\ ChunkLen(g) <= g.left /\ ChunkLen(g) <= g.size
         /\ Ends(g) => ChunkLen(g) = g.left
         /\ ~Ends(g) => ChunkLen(g) = g.size
<1>1. /\ g \in Stand /\ g.c \in Channel /\ g.m \in Message
      /\ g.size \in Nat /\ g.left \in Nat /\ g.n \in Nat
      /\ g.left \in 1..g.m.len /\ g.n \in 1..ChunkLen(g) /\ g.size # 0
  <2>1. g \in Stand /\ g.size # 0
    BY DEF StandOK, SizeOK
  <2>2. g.c \in Channel /\ g.size \in Nat /\ g.left \in Nat /\ g.n \in Nat
    BY <2>1 DEF Stand
  <2>3. g.m \in Message /\ g.left \in 1..g.m.len /\ g.n \in 1..ChunkLen(g)
    BY DEF GoodChunk
  <2>. QED  BY <2>1, <2>2, <2>3
<1>2. g.m.len \in Nat \ {0}
  BY <1>1, Sizes
<1>3. /\ ChunkLen(g) \in Nat /\ ChunkLen(g) <= g.left /\ ChunkLen(g) <= g.size
      /\ Ends(g) => ChunkLen(g) = g.left
      /\ ~Ends(g) => ChunkLen(g) = g.size
  <2>1. Least(g.left, g.size) = ChunkLen(g) /\ (Ends(g) <=> g.left <= g.size)
    BY DEF ChunkLen, Ends
  <2>2. ~(g.left <= g.size) => g.size <= g.left
    BY <1>1
  <2>3. /\ Least(g.left, g.size) \in Nat
        /\ Least(g.left, g.size) <= g.left /\ Least(g.left, g.size) <= g.size
        /\ g.left <= g.size => Least(g.left, g.size) = g.left
        /\ g.size <= g.left => Least(g.left, g.size) = g.size
    BY <1>1, LeastIs
  <2>. QED  BY <2>1, <2>2, <2>3
<1>. QED  BY <1>1, <1>2, <1>3

\* What read_n is asked for is there, and the bucket has room for it.  A chunk that
\* is larger than a bucket is read bucket by bucket.
LEMMA Wanted ==
  ASSUME NEW g, StandOK(g), GoodChunk(g), NEW ch, NEW b, b.fill \in Nat, Receives(ch, b, g)
  PROVE  /\ want \in 1..g.n /\ b.fill + want <= DEFAULT_CHUNK_BUCKET_SIZE
         /\ g.size <= DEFAULT_CHUNK_BUCKET_SIZE => want = g.n /\ want = ChunkLen(g)
         /\ g.size > DEFAULT_CHUNK_BUCKET_SIZE =>
              /\ want # g.n => want = DEFAULT_CHUNK_BUCKET_SIZE
              /\ ~Ends(g) => want = DEFAULT_CHUNK_BUCKET_SIZE
<1> DEFINE B == DEFAULT_CHUNK_BUCKET_SIZE
           L == ChunkLen(g)
           rem == g.m.len - ch.header.recv
<1>1. B \in Nat \ {0}
  BY Sizes
<1>2. /\ g.size \in Nat \ {0} /\ g.left \in Nat \ {0} /\ g.n \in Nat \ {0}
      /\ g.m.len \in Nat /\ L \in Nat /\ g.n <= L /\ L <= g.left /\ L <= g.size
      /\ Ends(g) => L = g.left
      /\ ~Ends(g) => L = g.size
      /\ g.left <= g.m.len
  BY ChunkNumbers
<1>3. /\ ch.header.recv = g.m.len - g.left + (L - g.n)
      /\ want = Least(Least(rem, g.size), B)
      /\ Room(b, g.size)
      /\ g.size <= B => g.n = L
      /\ g.size > B => \E j \in Nat : L - g.n = j * B
  <2>1. g.size > B => ~(g.size <= B)
    BY <1>1, <1>2
  <2>2. IF g.size <= B THEN g.n = L ELSE \E j \in Nat : L - g.n = j * B
    BY DEF Receives
  <2>3. /\ ch.header.recv = g.m.len - g.left + (L - g.n)
        /\ want = Least(Least(rem, g.size), B)
        /\ Room(b, g.size)
    BY DEF Receives
  <2>. QED  BY <2>1, <2>2, <2>3
<1>4. rem = g.left - (L - g.n) /\ rem \in Nat /\ rem >= g.n
  BY <1>2, <1>3
<1> HIDE DEF B, L, rem
<1>5. /\ Least(rem, g.size) \in Nat
      /\ Least(rem, g.size) <= rem /\ Least(rem, g.size) <= g.size
      /\ rem <= g.size => Least(rem, g.size) = rem
      /\ g.size <= rem => Least(rem, g.size) = g.size
  <2>1. g.size \in Nat /\ rem \in Nat
    BY <1>2, <1>4
  <2>. QED  BY <2>1, LeastIs
<1>6. /\ want \in Nat /\ want <= Least(rem, g.size) /\ want <= B
      /\ Least(rem, g.size) <= B => want = Least(rem, g.size)
      /\ B <= Least(rem, g.size) => want = B
  BY <1>1, <1>3, <1>5, LeastIs
<1>7. CASE g.size <= B
  <2>1. g.n = L /\ rem = g.left
    BY <1>2, <1>3, <1>4, <1>7
  <2>2. Least(rem, g.size) = L
    BY <2>1 DEF L, ChunkLen
  <2>3. want = g.n /\ want = L
    BY <1>1, <1>2, <1>5, <1>6, <1>7, <2>1, <2>2
  <2>4. b.fill + g.size <= B
    BY <1>3, <1>7 DEF Room, B
  <2>. QED  BY <1>1, <1>2, <1>7, <2>3, <2>4 DEF B, L
<1>8. CASE g.size > B
  <2>1. b.fill = 0
    BY <1>3, <1>8 DEF Room, B
  <2>2. want \in 1..B
    BY <1>1, <1>2, <1>4, <1>5, <1>6
  <2>3. CASE Ends(g)
    <3>1. rem = g.n /\ rem <= g.size
      BY <1>2, <1>4, <2>3
    <3>2. want <= g.n /\ (want # g.n => want = B)
      BY <1>1, <1>2, <1>5, <1>6, <3>1
    <3>. QED  BY <1>1, <1>2, <1>8, <2>1, <2>2, <2>3, <3>2 DEF B, L
  <2>4. CASE ~Ends(g)
    <3>1. PICK j \in Nat : L - g.n = j * B
      BY <1>3, <1>8
    <3>2. PICK k \in Nat : g.size = k * B
      BY <1>2, <1>8, SizeDivides DEF StandOK, B
    <3>3. L = k * B
      BY <1>2, <2>4, <3>2
    <3>4. j * B \in Nat /\ k * B \in Nat /\ g.n = k * B - j * B
      BY <1>1, <1>2, <3>1, <3>3
    <3>5. g.n >= B
      BY <1>1, <1>2, <3>4, OneBetween
    <3>6. want = B
      BY <1>1, <1>2, <1>4, <1>5, <1>6, <1>8, <3>5
    <3>. QED  BY <1>1, <1>2, <1>8, <2>1, <2>2, <3>5, <3>6 DEF B, L
  <2>. QED  BY <2>3, <2>4
<1>. QED  BY <1>1, <1>2, <1>7, <1>8 DEF B

\* What went before a chunk of its message is a number of whole chunks.
LEMMA Behind ==
  ASSUME NEW g, StandOK(g), GoodChunk(g)
  PROVE  \E q \in Nat : g.m.len - g.left = q * g.size
<1>1. g.size \in Nat /\ g.left \in Nat /\ g.m.len \in Nat /\ g.c \in Channel
  BY ChunkNumbers
<1>2. CASE g.peer[g.c].left = 0
  <2>1. g.m.len - g.left = 0 * g.size
    BY <1>1, <1>2 DEF GoodChunk
  <2>. QED  BY <2>1
<1>3. CASE g.peer[g.c].left # 0
  <2>1. g.left = g.peer[g.c].left /\ g.m = g.peer[g.c].last
    BY <1>3 DEF GoodChunk
  <2>2. \E q \in Nat : g.peer[g.c].last.len - g.peer[g.c].left = q * g.size
    BY <1>1, <1>3 DEF StandOK, SentRight
  <2>. QED  BY <2>1, <2>2
<1>. QED  BY <1>2, <1>3

\* How much of the message is there when the payload asked for has come: all of it after
\* the last chunk, a number of whole chunks after another chunk, and no such number in
\* the middle of a chunk, which is why expect_chunk may divide by the size.
LEMMA Received ==
  ASSUME NEW g, StandOK(g), GoodChunk(g), NEW ch, NEW b, b.fill \in Nat, Receives(ch, b, g)
  PROVE  /\ ch.header.recv \in Nat /\ want \in Nat
         /\ ch.header.recv + want <= g.m.len
         /\ ch.header.recv + want = g.m.len <=> want = g.n /\ Ends(g)
         /\ want = g.n /\ ~Ends(g) =>
              /\ ch.header.recv + want = g.m.len - (g.left - ChunkLen(g))
              /\ (ch.header.recv + want) % g.size = 0
         /\ want # g.n =>
              /\ g.size > DEFAULT_CHUNK_BUCKET_SIZE
              /\ ch.header.recv + want < g.m.len
              /\ (ch.header.recv + want) % g.size # 0
<1> DEFINE L == ChunkLen(g)
           r == ch.header.recv
<1>1. /\ g.size \in Nat \ {0} /\ g.left \in Nat \ {0} /\ g.n \in Nat \ {0}
      /\ g.m.len \in Nat /\ L \in Nat /\ g.n <= L /\ L <= g.left /\ L <= g.size
      /\ g.left <= g.m.len
      /\ Ends(g) => L = g.left
      /\ ~Ends(g) => L = g.size
  BY ChunkNumbers
<1>2. /\ want \in 1..g.n
      /\ g.size <= DEFAULT_CHUNK_BUCKET_SIZE => want = g.n
  BY Wanted
<1>3. r = g.m.len - g.left + (L - g.n)
  BY DEF Receives
<1>4. PICK q \in Nat : g.m.len - g.left = q * g.size
  BY Behind
<1>5. DEFAULT_CHUNK_BUCKET_SIZE \in Nat
  BY Sizes
<1>6. Ends(g) <=> g.left <= g.size
  BY DEF Ends
<1> HIDE DEF L, r
<1>7. r \in Nat /\ want \in Nat \ {0} /\ want <= g.n
  BY <1>1, <1>2, <1>3
<1>8. r + want = g.m.len - g.left + (L - g.n + want) /\ L - g.n + want \in Nat
      /\ L - g.n + want <= L
  BY <1>1, <1>3, <1>7
<1>9. r + want <= g.m.len
  BY <1>1, <1>8
<1>10. r + want = g.m.len <=> want = g.n /\ Ends(g)
  <2>1. ASSUME r + want = g.m.len  PROVE want = g.n /\ Ends(g)
    <3> DEFINE w == want
    <3>0. w \in Nat /\ w <= g.n /\ r + w = g.m.len - g.left + (L - g.n + w) /\ r + w = g.m.len
      BY <1>7, <1>8, <2>1
    <3> HIDE DEF w
    <3>3. \A x, l, m, n, k \in Nat :
            l <= m /\ k <= n /\ x - m + (l - n + k) = x => k = n /\ l = m
      OBVIOUS
    <3>4. w = g.n /\ L = g.left
      BY <1>1, <3>0, <3>3
    <3>1. want = g.n /\ L = g.left
      BY <3>4 DEF w
    <3>2. g.left <= g.size
      BY <1>1, <3>1
    <3>. QED  BY <1>6, <3>1, <3>2
  <2>2. ASSUME want = g.n, Ends(g)  PROVE r + want = g.m.len
    BY <1>1, <1>7, <1>8, <2>2
  <2>. QED  BY <2>1, <2>2
<1>11. ASSUME want = g.n, ~Ends(g)
       PROVE  r + want = g.m.len - (g.left - L) /\ (r + want) % g.size = 0
  <2>1. L - g.n + want = g.size
    BY <1>1, <1>11
  <2>2. r + want = q * g.size + g.size
    BY <1>4, <1>8, <2>1
  <2>3. \A x \in Nat, y \in Nat \ {0} : x * y + y = (x + 1) * y + 0
    OBVIOUS
  <2>4. r + want = (q + 1) * g.size + 0
    BY <1>1, <2>2, <2>3
  <2>5. (r + want) % g.size = 0
    BY <1>1, <2>4, Remainder
  <2>. QED  BY <1>1, <1>8, <1>11, <2>5
<1>12. ASSUME want # g.n
       PROVE  /\ g.size > DEFAULT_CHUNK_BUCKET_SIZE
              /\ r + want < g.m.len /\ (r + want) % g.size # 0
  <2> DEFINE d == L - g.n + want
  <2>1. d \in Nat \ {0} /\ d < g.size
    BY <1>1, <1>7, <1>12
  <2>2. r + want = q * g.size + d
    BY <1>4, <1>8
  <2> HIDE DEF d
  <2>3. (r + want) % g.size = d
    <3>1. (q * g.size + d) % g.size = d
      BY <1>1, <2>1, Remainder
    <3>. QED  BY <2>2, <3>1
  <2>. QED  BY <1>1, <1>2, <1>5, <1>7, <1>8, <1>10, <1>9, <1>12, <2>1, <2>3
<1>. QED  BY <1>7, <1>9, <1>10, <1>11, <1>12 DEF L, r

\* The bucket that the payload has been put into.
LEMMA BucketAfter ==
  ASSUME NEW g, StandOK(g), GoodChunk(g), NEW ch, NEW b, b.fill \in Nat, Receives(ch, b, g),
         chunk_size = g.size
  PROVE  /\ b.fill + want \in Nat
         /\ want # g.n => /\ b.fill + want = DEFAULT_CHUNK_BUCKET_SIZE
                          /\ BucketEnds(b.fill + want, FALSE)
         /\ want = g.n /\ ~Ends(g) =>
              \/ /\ b.fill + want = DEFAULT_CHUNK_BUCKET_SIZE
                 /\ BucketEnds(b.fill + want, FALSE)
              \/ /\ ~BucketEnds(b.fill + want, FALSE)
                 /\ g.size <= DEFAULT_CHUNK_BUCKET_SIZE
                 /\ b.fill + want + g.size <= DEFAULT_CHUNK_BUCKET_SIZE
                 /\ \E a \in Nat : b.fill + want = a * g.size
<1> DEFINE B == DEFAULT_CHUNK_BUCKET_SIZE
           f == b.fill + want
<1>1. B \in Nat \ {0}
  BY Sizes
<1>2. /\ g.size \in Nat \ {0} /\ g.n \in Nat \ {0}
      /\ ~Ends(g) => ChunkLen(g) = g.size
  BY ChunkNumbers
<1>3. /\ want \in 1..g.n /\ f <= B
      /\ g.size <= B => want = g.n /\ want = ChunkLen(g)
      /\ g.size > B => /\ want # g.n => want = B
                       /\ ~Ends(g) => want = B
  BY Wanted
<1>4. Room(b, g.size)
  BY DEF Receives
<1>5. BucketEnds(f, FALSE) <=> B - f < g.size
  BY DEF BucketEnds
<1>6. want \in Nat /\ f \in Nat
  BY <1>2, <1>3
<1>7. CASE g.size > B
  <2>1. b.fill = 0
    BY <1>4, <1>7 DEF Room
  <2>2. want = B => f = B /\ BucketEnds(f, FALSE)
    <3>1. want = B => f = B
      BY <1>1, <2>1
    <3>2. f = B => B - f < g.size
      BY <1>1, <1>2
    <3>. QED  BY <1>5, <3>1, <3>2
  <2>. QED  BY <1>3, <1>6, <1>7, <2>2
<1>8. CASE ~(g.size > B)
  <2>0. g.size <= B
    BY <1>1, <1>2, <1>8
  <2>1. want = g.n /\ want = ChunkLen(g)
    BY <1>3, <2>0
  <2>2. ASSUME ~Ends(g)
        PROVE  \/ f = B /\ BucketEnds(f, FALSE)
               \/ ~BucketEnds(f, FALSE) /\ f + g.size <= B /\ \E a \in Nat : f = a * g.size
    <3>1. want = g.size
      BY <1>2, <2>1, <2>2
    <3>2. PICK a \in Nat : b.fill = a * g.size
      BY <1>4, <2>0 DEF Room
    <3>3. \A x, y \in Nat : x * y + y = (x + 1) * y
      OBVIOUS
    <3>4. f = (a + 1) * g.size /\ a + 1 \in Nat
      BY <1>2, <3>1, <3>2, <3>3
    <3>5. PICK k \in Nat : B = k * g.size
      BY <1>2, <2>0, SizeDivides DEF StandOK
    <3>6. B - f < g.size => f = B
      BY <1>2, <1>3, <3>4, <3>5, NoneBetween
    <3>7. ~(B - f < g.size) => f + g.size <= B
      BY <1>1, <1>2, <1>6
    <3>. QED  BY <1>5, <3>4, <3>6, <3>7
  <2>. QED  BY <1>6, <2>0, <2>1, <2>2
<1>. QED  BY <1>7, <1>8

-----------------------------------------------------------------------------
(* The invariant. *)

\* What is on the wire leads from where the reader stands to where the peer stands, or
\* to a broken rule.
Ended(f) ==
  /\ f.stage \in {"basic", "over"}
  /\ peer_state = "sending" => Now(f)
Joins(e, f) == PathFrom(wire, e, f) /\ Reads(e) /\ e.rest = flight /\ Ended(f)
Joined ==
  state # "closed" => peer_state \in {"sending", "broken"} /\ \E e, f : Joins(e, f)

\* Both ends of a path are stands.
LEMMA PathEnds ==
  ASSUME NEW u, NEW e, NEW f, PathFrom(u, e, f)
  PROVE  StandOK(e) /\ StandOK(f) /\ (u = <<>> => e = f)
<1>1. u \in Seq(Part) /\ Len(u) \in Nat
  BY DEF PathFrom
<1>2. PICK G : Path(u, G) /\ G[1] = e /\ G[Len(u) + 1] = f
  BY DEF PathFrom
<1>3. StandOK(f)
  BY <1>2 DEF Path
<1>4. CASE Len(u) = 0
  BY <1>2, <1>3, <1>4
<1>5. CASE Len(u) # 0
  <2>1. 1 \in 1..Len(u) /\ u # <<>>
    BY <1>1, <1>5
  <2>2. Coming(e)
    BY <1>2, <2>1 DEF Path
  <2>. QED  BY <1>3, <2>1, <2>2 DEF Coming
<1>. QED  BY <1>1, <1>4, <1>5

\* The reader has gone on and the peer has not moved.
LEMMA ReaderGoes ==
  ASSUME NEW f, NEW g, Ended(f), PathFrom(wire', g, f), Reads(g)', g.rest = flight',
         UNCHANGED peerVars, peer_state \in {"sending", "broken"}
  PROVE  Joined'
<1>1. Ended(f)'
  BY DEF Ended, Now, peerVars
<1>2. peer_state' \in {"sending", "broken"}
  BY DEF peerVars
<1>. QED  BY <1>1, <1>2 DEF Joined, Joins

\* The payload of a chunk is next.
Paying(e, f) ==
  /\ Joins(e, f) /\ StandOK(e) /\ GoodChunk(e) /\ ~e.bad /\ e.stage = "payload"
  /\ wire # <<>> /\ Head(wire) = [part |-> "payload", n |-> e.n, val |-> e.m.val]
  /\ e.c \in Channel /\ current_channel = e.c /\ chunk_size = e.size
  /\ channels[e.c] \in ChannelState /\ current_chunk \in BucketState
  /\ Receives(channels[e.c], current_chunk, e)

\* When the reader waits for payload, the peer has sent payload.
LEMMA PayloadNext ==
  ASSUME NEW e, NEW f, Joins(e, f), Next_is("payload")
  PROVE  Paying(e, f)
<1>1. wire # <<>> /\ state = "payload"
  BY DEF Next_is
<1>2. Coming(e) /\ Says(Head(wire), e) /\ StandOK(e)
  BY <1>1, PathPop, PathEnds DEF Joins
<1>3. e.stage = "payload"
  BY <1>1 DEF Joins, Reads
<1>4. ~e.bad /\ GoodChunk(e)
  BY <1>2, <1>3 DEF Coming, BadChunk
<1>5. Head(wire) = [part |-> "payload", n |-> e.n, val |-> e.m.val]
  BY <1>2, <1>3 DEF Says
<1>6. e.c \in Channel
  BY <1>2 DEF StandOK, Stand
<1>7. /\ current_channel = e.c /\ chunk_size = e.size
      /\ current_chunk \in BucketState /\ Receives(channels[e.c], current_chunk, e)
  BY <1>3 DEF Joins, Reads
<1>8. channels[e.c] \in ChannelState
  BY <1>7 DEF Receives
<1>. QED  BY <1>1, <1>2, <1>3, <1>4, <1>5, <1>6, <1>7, <1>8 DEF Paying

\* A channel with the payload just read.
Put(whole) == Filled(current_chunk, want, Head(wire).val, whole)
Grown(whole) ==
  [header |-> [channels[current_channel].header EXCEPT !.recv = @ + want],
   chain |-> Append(channels[current_channel].chain, Put(whole))]

\* Its header and its buckets.
LEMMA GrownIs ==
  ASSUME TypeOK, NEW e, NEW f, Paying(e, f), NEW whole \in BOOLEAN
  PROVE  LET old == channels[e.c]
             new == Grown(whole)
             b   == Put(whole)
             n   == Len(old.chain)
         IN  /\ new \in ChannelState
             /\ new.header.type = e.m.type /\ new.header.len = e.m.len
             /\ new.header.ts = e.m.ts
             /\ new.header.recv = old.header.recv + want
             /\ new.header = [old.header EXCEPT !.recv = @ + want]
             /\ n \in Nat /\ Len(new.chain) = n + 1 /\ new.chain # <<>>
             /\ new.chain = Append(old.chain, b) /\ Last(new.chain) = b
             /\ new.chain[n + 1] = b
             /\ \A k \in 1..n : new.chain[k] = old.chain[k] /\ Whole(new.chain[k])
             /\ Head(new.chain).val = e.m.val
             /\ b.fill = current_chunk.fill + want
             /\ b.state = IF BucketEnds(b.fill, whole) THEN "end" ELSE "merge"
             /\ b.tag = IF BucketEnds(b.fill, whole) THEN publishing ELSE None
             /\ b.cid \in Channel
             /\ n * DEFAULT_CHUNK_BUCKET_SIZE + b.fill = new.header.recv
<1> DEFINE old == channels[e.c]
           new == Grown(whole)
           b   == Put(whole)
           n   == Len(old.chain)
           BS  == [cid : Channel, fmt : 0..3, fill : Nat, val : PeerSizes \cup {None},
                   tag : Name \cup {None}, state : {"end", "merge"}]
           HS  == [type : {None, "av", "set_chunk_size"}, len : Nat, recv : Nat,
                   ts : Stamp, delta : Nat]
           fill == current_chunk.fill + want
<1>1. /\ current_channel = e.c /\ old \in ChannelState /\ current_chunk \in BucketState
      /\ Receives(old, current_chunk, e) /\ Head(wire).val = e.m.val
      /\ StandOK(e) /\ GoodChunk(e) /\ chunk_size = e.size
  BY DEF Paying
<1>2. /\ old.header \in HS /\ old.chain \in Seq(BS)
  BY <1>1 DEF ChannelState
<1>3. /\ current_chunk.fill \in Nat /\ current_chunk.cid \in Channel
      /\ current_chunk.fmt \in 0..3
  BY <1>1 DEF BucketState
<1>4. old.header.recv \in Nat /\ want \in Nat /\ fill \in Nat
  BY <1>1, <1>3, Received
<1>5. e.m.val \in PeerSizes \cup {None} /\ publishing \in Name \cup {None}
  BY <1>1, Sizes DEF GoodChunk, TypeOK
<1>6. b = [current_chunk EXCEPT !.fill = fill, !.val = e.m.val,
             !.state = IF BucketEnds(fill, whole) THEN "end" ELSE "merge",
             !.tag = IF BucketEnds(fill, whole) THEN publishing ELSE None]
  BY <1>1 DEF Put, Filled, BucketState
<1>7. /\ b \in BS /\ b.fill = fill /\ b.val = e.m.val /\ b.cid = current_chunk.cid
      /\ b.state = IF BucketEnds(fill, whole) THEN "end" ELSE "merge"
      /\ b.tag = IF BucketEnds(fill, whole) THEN publishing ELSE None
  BY <1>1, <1>3, <1>4, <1>5, <1>6 DEF BucketState
<1>8. /\ new = [header |-> [old.header EXCEPT !.recv = @ + want],
                chain |-> Append(old.chain, b)]
      /\ new.header = [old.header EXCEPT !.recv = @ + want]
      /\ new.chain = Append(old.chain, b)
  BY <1>1 DEF Grown
<1> HIDE DEF b, new
<1>9. /\ new.header \in HS /\ new.header.recv = old.header.recv + want
      /\ new.header.type = old.header.type /\ new.header.len = old.header.len
      /\ new.header.ts = old.header.ts
  <2> DEFINE h == old.header
             x == h.recv + want
  <2> HIDE DEF HS
  <2>3. h \in HS
    BY <1>2
  <2>4. x \in Nat
    BY <1>4
  <2>5. new.header = [h EXCEPT !.recv = x]
    BY <1>8
  <2> HIDE DEF h, x
  <2> USE DEF HS
  <2>1. h \in HS /\ x \in Nat /\ new.header = [h EXCEPT !.recv = x]
    BY <2>3, <2>4, <2>5
  <2>2. /\ new.header \in HS /\ new.header.recv = x
        /\ new.header.type = h.type /\ new.header.len = h.len /\ new.header.ts = h.ts
    BY <2>1
  <2>. QED  BY <2>2 DEF h, x
<1>10. /\ new.chain \in Seq(BS) /\ n \in Nat /\ Len(new.chain) = n + 1 /\ new.chain # <<>>
       /\ new.chain[n + 1] = b
       /\ \A k \in 1..n : new.chain[k] = old.chain[k]
       /\ Head(new.chain) = IF old.chain = <<>> THEN b ELSE Head(old.chain)
  BY <1>2, <1>7, <1>8, AppendProperties, HeadTailAppend
<1>11. /\ new.header.type = e.m.type /\ new.header.len = e.m.len
       /\ new.header.ts = e.m.ts
       /\ \A k \in 1..n : Whole(old.chain[k])
       /\ old.chain # <<>> => Head(old.chain).val = e.m.val
       /\ n * DEFAULT_CHUNK_BUCKET_SIZE + current_chunk.fill = old.header.recv
  BY <1>1, <1>9 DEF Receives, Gathered
<1>12. new \in ChannelState
  BY <1>8, <1>9, <1>10 DEF ChannelState
<1>13. n * DEFAULT_CHUNK_BUCKET_SIZE + b.fill = new.header.recv
  <2>1. \A x, y, z, r, w \in Nat : x * y + z = w => x * y + (z + r) = w + r
    OBVIOUS
  <2>2. n \in Nat /\ DEFAULT_CHUNK_BUCKET_SIZE \in Nat
    BY <1>10, Sizes
  <2>3. current_chunk.fill \in Nat /\ want \in Nat /\ old.header.recv \in Nat
    BY <1>3, <1>4
  <2>4. /\ n * DEFAULT_CHUNK_BUCKET_SIZE + current_chunk.fill = old.header.recv
        /\ b.fill = current_chunk.fill + want
        /\ new.header.recv = old.header.recv + want
    BY <1>7, <1>9, <1>11
  <2> HIDE DEF n, old
  <2>. QED  BY <2>1, <2>2, <2>3, <2>4
<1>14. Head(new.chain).val = e.m.val
  BY <1>7, <1>10, <1>11
<1>15. Last(new.chain) = b
  BY <1>10 DEF Last
<1>16. \A k \in 1..n : new.chain[k] = old.chain[k] /\ Whole(new.chain[k])
  BY <1>10, <1>11
<1>. QED  BY <1>3, <1>7, <1>8, <1>9, <1>10, <1>11, <1>12, <1>13, <1>14, <1>15, <1>16
          DEF new, b

\* What ReadPayload leaves on the wire: the rest of the chunk, or the parts after it.
LEMMA PayloadLeaves ==
  ASSUME ReadPayload
  PROVE  wire' = (IF Head(wire).n = want THEN <<>>
                  ELSE <<[Head(wire) EXCEPT !.n = @ - want]>>) \o Tail(wire)
BY DEF ReadPayload

\* When the whole chunk is read the parts after it are left.
LEMMA WholeChunkRead ==
  ASSUME ReadPayload, Head(wire).n = want, Tail(wire) \in Seq(Part)
  PROVE  wire' = Tail(wire)
<1>1. wire' = <<>> \o Tail(wire)
  BY PayloadLeaves, Zenon
<1>. QED  BY <1>1, ConcatEmptySeq

\* What ReadPayload does in the middle of a message.
LEMMA PayloadWithin ==
  ASSUME TypeOK, NEW e, NEW f, Paying(e, f), ReadPayload, ~(want = e.n /\ Ends(e))
  PROVE  /\ channels' = [channels EXCEPT ![e.c] = Grown(FALSE)]
         /\ UNCHANGED <<history, chunk_size, current_channel, peerVars, appVars>>
         /\ ExpectChunk(Grown(FALSE), chunk_size)
<1> DEFINE old == channels[e.c]
           h == [old.header EXCEPT !.recv = @ + want]
<1>1. /\ current_channel = e.c /\ Receives(old, current_chunk, e)
      /\ StandOK(e) /\ GoodChunk(e) /\ current_chunk.fill \in Nat
  BY DEF Paying, BucketState
<1>2. h = Grown(FALSE).header /\ h.recv = old.header.recv + want /\ h.len = e.m.len
  BY <1>1, GrownIs
<1>3. ~(h.recv = h.len)
  BY <1>1, <1>2, Received
<1>4. Append(old.chain, Filled(current_chunk, want, Head(wire).val, FALSE))
        = Grown(FALSE).chain
  BY <1>1 DEF Grown, Put
<1>5. [header |-> h, chain |-> Append(old.chain,
                Filled(current_chunk, want, Head(wire).val, FALSE))] = Grown(FALSE)
  BY <1>1 DEF Grown, Put
<1> DEFINE whole == h.recv = h.len
           chain == Append(old.chain, Filled(current_chunk, want, Head(wire).val, whole))
           m     == Decoded(e.c, h, chain)
           left  == IF whole THEN Restarted(h) ELSE [header |-> h, chain |-> chain]
           size  == IF whole /\ h.type = "set_chunk_size" /\ SizeOK(m.msg.val)
                    THEN m.msg.val ELSE chunk_size
<1>6. /\ channels' = [channels EXCEPT ![e.c] = left]
      /\ IF whole THEN handed' = m /\ flight' = [flight EXCEPT ![e.c] = Tail(@)]
         ELSE UNCHANGED history
      /\ chunk_size' = size
      /\ IF whole /\ h.type = "set_chunk_size" /\ ~SizeOK(m.msg.val)
         THEN state' = "closed" /\ UNCHANGED <<want, current_chunk>>
         ELSE ExpectChunk(left, size)
      /\ UNCHANGED <<current_channel, peerVars, appVars>>
  BY <1>1 DEF ReadPayload
<1>7. whole = FALSE
  BY <1>3
<1>8. left = Grown(FALSE) /\ size = chunk_size
  BY <1>5, <1>7
<1> HIDE DEF whole, left, size, m
<1>. QED  BY <1>6, <1>7, <1>8

\* The stand in the middle of a chunk's payload.
Rest(e, k) == [e EXCEPT !.n = e.n - k]

\* In the middle of a payload the rest of the chunk is still to come, and leads wherever
\* the whole of it would have led.
LEMMA RestStand ==
  ASSUME NEW e, StandOK(e), GoodChunk(e), e.stage = "payload", ~e.bad,
         NEW k \in Nat, k < e.n
  PROVE  LET g == Rest(e, k) IN
         /\ Coming(g) /\ GoodChunk(g) /\ StandOK(g) /\ e.n - k \in Nat \ {0}
         /\ g.stage = "payload" /\ g.c = e.c /\ g.fmt = e.fmt /\ g.m = e.m
         /\ g.step = e.step /\ g.left = e.left /\ g.n = e.n - k /\ g.bad = FALSE
         /\ g.peer = e.peer /\ g.size = e.size /\ g.rest = e.rest
         /\ ChunkLen(g) = ChunkLen(e)
         /\ \A h : Follows(e, h) => Follows(g, h)
<1>1. PICK g : g = Rest(e, k)
  OBVIOUS
<1>2. e \in Stand /\ e.n \in Nat /\ e.n <= ChunkLen(e) /\ ChunkLen(e) \in Nat
  BY ChunkNumbers
<1>3. e.n - k \in Nat \ {0} /\ e.n - k <= ChunkLen(e)
  BY <1>2
<1>4. g = [e EXCEPT !.n = e.n - k]
  BY <1>1 DEF Rest
<1>5. /\ g \in Stand
      /\ g.stage = e.stage /\ g.c = e.c /\ g.fmt = e.fmt /\ g.m = e.m
      /\ g.step = e.step /\ g.left = e.left /\ g.n = e.n - k /\ g.bad = e.bad
      /\ g.peer = e.peer /\ g.size = e.size /\ g.rest = e.rest
  BY <1>2, <1>3, <1>4 DEF Stand
<1>6. e.bad = FALSE
  BY <1>2 DEF Stand
<1>7. ChunkLen(g) = ChunkLen(e) /\ (Ends(g) <=> Ends(e))
  BY <1>5 DEF ChunkLen, Ends
<1>8. StandOK(g)
  BY <1>5 DEF StandOK
<1>9. g.n \in 1..ChunkLen(g)
  BY <1>2, <1>3, <1>5, <1>7
<1>10. GoodChunk(g)
  <2>1. Resizes(g) <=> Resizes(e)
    BY <1>5, <1>7 DEF Resizes
  <2>2. HeaderTime(g) = HeaderTime(e)
    BY <1>5 DEF HeaderTime
  <2>. QED  BY <1>5, <1>9, <2>1, <2>2 DEF GoodChunk
<1>11. Coming(g)
  BY <1>5, <1>6, <1>8, <1>10 DEF Coming
<1>12. ASSUME NEW h, Follows(e, h)  PROVE Follows(g, h)
  <2>1. /\ h.stage = "basic" /\ h.peer = PeerAfter(e) /\ h.size = SizeAfter(e)
        /\ IF Ends(e)
           THEN /\ e.rest[e.c] # <<>> /\ Head(e.rest[e.c]) = e.m
                /\ h.rest = [e.rest EXCEPT ![e.c] = Tail(@)]
           ELSE h.rest = e.rest
    BY <1>12 DEF Follows
  <2>2. PeerAfter(g) = PeerAfter(e)
    BY <1>5, <1>7 DEF PeerAfter
  <2>3. SizeAfter(g) = SizeAfter(e)
    BY <1>5, <1>7 DEF SizeAfter, Resizes
  <2>. QED  BY <1>5, <1>7, <2>1, <2>2, <2>3 DEF Follows
<1>. QED  BY <1>1, <1>3, <1>5, <1>6, <1>7, <1>8, <1>10, <1>11, <1>12

\* A bucket is full and the chunk goes on.
LEMMA PayloadGoesOn ==
  ASSUME TypeOK, NEW e, NEW f, Paying(e, f), ReadPayload, want # e.n, ~e.bad,
         peer_state \in {"sending", "broken"}
  PROVE  Joined' /\ state' = "payload" /\ want' \in Nat
<1> DEFINE old == channels[e.c]
           B   == DEFAULT_CHUNK_BUCKET_SIZE
<1>1. /\ Joins(e, f) /\ StandOK(e) /\ GoodChunk(e) /\ e.stage = "payload"
      /\ wire # <<>> /\ Head(wire) = [part |-> "payload", n |-> e.n, val |-> e.m.val]
      /\ e.c \in Channel /\ current_channel = e.c /\ chunk_size = e.size
      /\ old \in ChannelState /\ current_chunk.fill \in Nat
      /\ Receives(old, current_chunk, e)
  BY DEF Paying, BucketState
<1>2. /\ B \in Nat \ {0} /\ e.size \in Nat \ {0} /\ e.n \in Nat /\ e.m.len \in Nat
      /\ ChunkLen(e) \in Nat /\ e.n <= ChunkLen(e) /\ e.left \in Nat /\ e.left <= e.m.len
      /\ e.m \in Message
  BY <1>1, Sizes, ChunkNumbers
<1>3. /\ old.header.recv \in Nat /\ old.header.recv + want < e.m.len
      /\ (old.header.recv + want) % e.size # 0 /\ e.size > B
  BY <1>1, Received
<1>4. want \in 1..e.n /\ want = B
  BY <1>1, <1>3, Wanted
<1>5. current_chunk.fill + want = B /\ BucketEnds(current_chunk.fill + want, FALSE)
  BY <1>1, BucketAfter
<1>6. PICK g : g = Rest(e, want)
  OBVIOUS
<1>7. /\ Coming(g) /\ StandOK(g) /\ g.stage = "payload" /\ g.c = e.c /\ g.m = e.m
      /\ g.left = e.left /\ g.n = e.n - want /\ g.bad = FALSE
      /\ g.peer = e.peer /\ g.size = e.size /\ g.rest = e.rest
      /\ ChunkLen(g) = ChunkLen(e)
      /\ \A h : Follows(e, h) => Follows(g, h)
  <2>1. want \in Nat /\ want < e.n
    BY <1>2, <1>4
  <2>. QED  BY <1>1, <1>6, <2>1, RestStand
<1>8. PICK new, b : new = Grown(FALSE) /\ b = Put(FALSE)
  OBVIOUS
<1>9. /\ new \in ChannelState /\ Last(new.chain) = b /\ b.cid \in Channel
      /\ new.header.type = e.m.type /\ new.header.len = e.m.len
      /\ new.header.ts = e.m.ts /\ new.header.recv = old.header.recv + want
      /\ Len(old.chain) \in Nat /\ Len(new.chain) = Len(old.chain) + 1
      /\ new.chain[Len(old.chain) + 1] = b
      /\ \A k \in 1..Len(old.chain) : Whole(new.chain[k])
      /\ Head(new.chain).val = e.m.val
      /\ Len(old.chain) * B + b.fill = new.header.recv
      /\ b.fill = current_chunk.fill + want
      /\ b.state = IF BucketEnds(b.fill, FALSE) THEN "end" ELSE "merge"
  BY <1>8, GrownIs
<1>10. b.fill = B /\ b.state = "end"
  BY <1>5, <1>9
<1>11. /\ channels' = [channels EXCEPT ![e.c] = new]
       /\ UNCHANGED <<history, chunk_size, current_channel, peerVars, appVars>>
       /\ ExpectChunk(new, chunk_size)
  BY <1>8, PayloadWithin
<1> DEFINE cc == Bucket(b.cid, 3)
<1>12. /\ state' = "payload" /\ want' = expect_payload_len(new.header, e.size)
       /\ current_chunk' = cc
  BY <1>1, <1>3, <1>9, <1>11 DEF ExpectChunk
<1>13. PICK h : Follows(e, h) /\ StandOK(h) /\ PathFrom(Tail(wire), h, f)
  BY <1>1, PathPop DEF Joins
<1>14. PathFrom(wire', g, f)
  <2> DEFINE p == [part |-> "payload", n |-> e.n - want, val |-> e.m.val]
  <2>1. [Head(wire) EXCEPT !.n = @ - want] = p
    BY <1>1
  <2>2. p \in Part
    <3>1. e.n - want \in Nat /\ e.m.val \in PeerSizes \cup {None}
      BY <1>2, <1>4, Sizes
    <3>. QED  BY <3>1 DEF Part
  <2>3. Head(wire).n = e.n
    BY <1>1
  <2>4. wire' = <<p>> \o Tail(wire)
    <3>1. Head(wire).n # want
      BY <2>3
    <3> HIDE DEF p
    <3>. QED  BY <2>1, <3>1, PayloadLeaves, Zenon
  <2>5. Says(p, g)
    BY <1>7 DEF Says
  <2>6. PathFrom(<<p>>, g, h)
    BY <1>7, <1>13, <2>2, <2>5, PathOne
  <2> HIDE DEF p
  <2>. QED  BY <1>13, <2>4, <2>6, PathGlue
<1>15. \A d \in Channel : channels'[d] = IF d = e.c THEN new ELSE channels[d]
  BY <1>11 DEF TypeOK
<1>16. cc \in BucketState /\ cc.fill = 0
  <2>1. cc = [cid |-> b.cid, fmt |-> 3, fill |-> 0, val |-> None, tag |-> None,
              state |-> "reading"]
    BY DEF Bucket
  <2>. QED  BY <1>9, <2>1 DEF BucketState
<1> HIDE DEF cc
<1>17. Room(cc, e.size)
  BY <1>2, <1>3, <1>16 DEF Room
<1>18. \A k \in 1..Len(new.chain) : Whole(new.chain[k])
  <2>1. Whole(b)
    BY <1>10 DEF Whole
  <2>. QED  BY <1>9, <2>1
<1>19. Len(new.chain) * B + cc.fill = new.header.recv
  <2>1. \A x, y \in Nat : (x + 1) * y + 0 = x * y + y
    OBVIOUS
  <2>. QED  BY <1>2, <1>9, <1>10, <1>16, <2>1
<1>20. PICK j \in Nat : ChunkLen(e) - e.n = j * B
  <2>1. ~(e.size <= B)
    BY <1>2, <1>3
  <2>. QED  BY <1>1, <2>1 DEF Receives
<1>21. ChunkLen(g) - g.n = (j + 1) * B /\ j + 1 \in Nat
  <2>1. \A x, y \in Nat : (x + 1) * y = x * y + y /\ x * y \in Nat
    OBVIOUS
  <2>2. (j + 1) * B = j * B + B /\ j * B \in Nat
    BY <1>2, <2>1
  <2>. QED  BY <1>2, <1>4, <1>7, <1>20, <2>2
<1>22. new.header.recv = g.m.len - g.left + (ChunkLen(g) - g.n)
  <2>1. old.header.recv = e.m.len - e.left + (ChunkLen(e) - e.n)
    BY <1>1 DEF Receives
  <2>. QED  BY <1>2, <1>4, <1>7, <1>9, <2>1
<1>23. want' = Least(Least(g.m.len - new.header.recv, g.size), B)
  BY <1>7, <1>9, <1>12 DEF expect_payload_len
<1>24. Receives(new, cc, g)'
  <2>1. Gathered(new.chain, g.m.val)
    BY <1>7, <1>9, <1>18 DEF Gathered
  <2>2. IF g.size <= B THEN g.n = ChunkLen(g)
        ELSE \E i \in Nat : ChunkLen(g) - g.n = i * B
    <3>1. ~(g.size <= B)
      BY <1>2, <1>3, <1>7
    <3>. QED  BY <1>21, <3>1
  <2>. QED  BY <1>7, <1>9, <1>17, <1>18, <1>19, <1>22, <1>23, <2>1, <2>2 DEF Receives
<1>25. Reads(g)'
  <2>1. ASSUME NEW d \in Channel, d # g.c
        PROVE  Matches(channels[d], g.peer[d], g.size)'
    <3>1. Matches(channels[d], e.peer[d], e.size)
      BY <1>1, <1>7, <2>1 DEF Joins, Reads
    <3>2. channels'[d] = channels[d]
      BY <1>7, <1>15, <2>1
    <3>. QED  BY <1>7, <3>1, <3>2
  <2>2. Receives(channels[g.c], current_chunk, g)'
    <3>1. channels'[g.c] = new /\ current_chunk' = cc
      BY <1>1, <1>7, <1>12, <1>15
    <3>. QED  BY <1>24, <3>1 DEF Receives
  <2>. QED  BY <1>1, <1>7, <1>11, <1>12, <1>16, <2>1, <2>2 DEF Reads
<1>26. g.rest = flight'
  BY <1>1, <1>7, <1>11 DEF Joins, history
<1>27. Joined'
  BY <1>1, <1>11, <1>14, <1>25, <1>26, ReaderGoes DEF Joins
<1>28. want' \in Nat
  <2>0. new.header.recv \in Nat /\ new.header.recv < e.m.len
    <3>1. want \in Nat
      BY <1>2, <1>4
    <3>. QED  BY <1>3, <1>9, <3>1
  <2>1. g.m.len - new.header.recv \in Nat
    BY <1>2, <1>7, <2>0
  <2>. QED  BY <1>2, <1>7, <1>23, <2>1, LeastIs
<1>. QED  BY <1>12, <1>27, <1>28

\* What the peer has sent of each channel when chunk g has gone.
LEMMA PeerAfterIs ==
  ASSUME NEW g, StandOK(g), GoodChunk(g)
  PROVE  /\ \A d \in Channel \ {g.c} : PeerAfter(g)[d] = g.peer[d]
         /\ PeerAfter(g)[g.c].last = g.m /\ g.m # None
         /\ PeerAfter(g)[g.c].left = g.left - ChunkLen(g)
         /\ Ends(g) => PeerAfter(g)[g.c].left = 0
         /\ ~Ends(g) => PeerAfter(g)[g.c].left # 0
<1>1. /\ g \in Stand /\ g.c \in Channel /\ g.m \in Message
      /\ g.left \in Nat /\ g.size \in Nat
      /\ Ends(g) => ChunkLen(g) = g.left
      /\ ~Ends(g) => ChunkLen(g) = g.size
  BY ChunkNumbers
<1>2. g.peer \in [Channel -> [last : Message \cup {None}, msg : Message \cup {None},
                               left : Nat]]
  BY <1>1 DEF Stand
<1>3. /\ \A d \in Channel \ {g.c} : PeerAfter(g)[d] = g.peer[d]
      /\ PeerAfter(g)[g.c] = [last |-> g.m, msg |-> IF Ends(g) THEN None ELSE g.m,
                              left |-> g.left - ChunkLen(g)]
  BY <1>1, <1>2 DEF PeerAfter
<1>4. g.m # None
  BY <1>1, ChannelAssumption
<1>5. /\ Ends(g) => g.left - ChunkLen(g) = 0
      /\ ~Ends(g) => g.left - ChunkLen(g) # 0
  BY <1>1 DEF Ends
<1>. QED  BY <1>3, <1>4, <1>5

\* A chunk ends and the message goes on.
LEMMA PayloadEndsChunk ==
  ASSUME TypeOK, NEW e, NEW f, Paying(e, f), ReadPayload, want = e.n, ~Ends(e),
         peer_state \in {"sending", "broken"}
  PROVE  Joined' /\ state' = "basic" /\ want' \in Nat
<1> DEFINE old == channels[e.c]
           B   == DEFAULT_CHUNK_BUCKET_SIZE
<1>1. /\ Joins(e, f) /\ StandOK(e) /\ GoodChunk(e) /\ e.stage = "payload"
      /\ wire # <<>> /\ Head(wire) = [part |-> "payload", n |-> e.n, val |-> e.m.val]
      /\ e.c \in Channel /\ current_channel = e.c /\ chunk_size = e.size
      /\ old \in ChannelState /\ current_chunk.fill \in Nat
      /\ Receives(old, current_chunk, e)
  BY DEF Paying, BucketState
<1>2. /\ B \in Nat \ {0} /\ e.size \in Nat \ {0} /\ ChunkLen(e) \in Nat
      /\ e.left \in Nat /\ e.m \in Message /\ e.m.len \in Nat
  BY <1>1, Sizes, ChunkNumbers
<1>3. /\ old.header.recv + want = e.m.len - (e.left - ChunkLen(e))
      /\ (old.header.recv + want) % e.size = 0
  BY <1>1, Received
<1>4. \/ /\ current_chunk.fill + want = B
         /\ BucketEnds(current_chunk.fill + want, FALSE)
      \/ /\ ~BucketEnds(current_chunk.fill + want, FALSE)
         /\ e.size <= B
         /\ current_chunk.fill + want + e.size <= B
         /\ \E a \in Nat : current_chunk.fill + want = a * e.size
  BY <1>1, BucketAfter
<1>5. PICK g : Follows(e, g) /\ StandOK(g) /\ PathFrom(Tail(wire), g, f)
  BY <1>1, PathPop DEF Joins
<1>6. /\ g.stage = "basic" /\ g.peer = PeerAfter(e) /\ g.size = e.size
      /\ g.rest = e.rest
  BY <1>1, <1>5 DEF Follows, SizeAfter, Resizes
<1>7. PICK new, b : new = Grown(FALSE) /\ b = Put(FALSE)
  OBVIOUS
<1>8. /\ new \in ChannelState /\ Last(new.chain) = b /\ new.chain # <<>>
      /\ new.header.type = e.m.type /\ new.header.len = e.m.len
      /\ new.header.ts = e.m.ts /\ new.header.recv = old.header.recv + want
      /\ Len(old.chain) \in Nat /\ Len(new.chain) = Len(old.chain) + 1
      /\ \A k \in 1..Len(old.chain) : Whole(new.chain[k])
      /\ Head(new.chain).val = e.m.val
      /\ Len(old.chain) * B + b.fill = new.header.recv
      /\ b.fill = current_chunk.fill + want
      /\ b.state = IF BucketEnds(b.fill, FALSE) THEN "end" ELSE "merge"
  BY <1>7, GrownIs
<1>9. /\ channels' = [channels EXCEPT ![e.c] = new]
      /\ UNCHANGED <<history, chunk_size, current_channel, peerVars, appVars>>
      /\ ExpectChunk(new, chunk_size)
  BY <1>7, PayloadWithin
<1>10. state' = "basic" /\ want' = 0
  BY <1>1, <1>3, <1>8, <1>9 DEF ExpectChunk
<1>11. \A d \in Channel : channels'[d] = IF d = e.c THEN new ELSE channels[d]
  BY <1>9 DEF TypeOK
<1>12. /\ \A d \in Channel \ {e.c} : g.peer[d] = e.peer[d]
       /\ g.peer[e.c].last = e.m /\ e.m # None
       /\ g.peer[e.c].left = e.left - ChunkLen(e) /\ g.peer[e.c].left # 0
  BY <1>1, <1>6, PeerAfterIs
<1>13. Whole(b) \/ (b.state = "merge" /\ e.size <= B /\ Room(b, e.size))
  <2>1. CASE b.fill = B /\ BucketEnds(b.fill, FALSE)
    BY <1>8, <2>1 DEF Whole
  <2>2. CASE ~(b.fill = B /\ BucketEnds(b.fill, FALSE))
    <3>1. /\ ~BucketEnds(b.fill, FALSE) /\ e.size <= B
          /\ b.fill + e.size <= B /\ \E a \in Nat : b.fill = a * e.size
      BY <1>4, <1>8, <2>2
    <3>2. ~(e.size > B)
      BY <1>2, <3>1
    <3>. QED  BY <1>8, <3>1, <3>2 DEF Room
  <2>. QED  BY <2>1, <2>2
<1>14. Matches(new, g.peer[e.c], g.size)
  <2>1. Gathered(new.chain, e.m.val)
    <3>1. Len(new.chain) - 1 = Len(old.chain)
      BY <1>8
    <3>. QED  BY <1>8, <3>1 DEF Gathered
  <2>2. (Len(new.chain) - 1) * B + Last(new.chain).fill = new.header.recv
    <3>1. Len(new.chain) - 1 = Len(old.chain)
      BY <1>8
    <3>. QED  BY <1>8, <3>1
  <2>3. new.header.recv = e.m.len - g.peer[e.c].left
    BY <1>3, <1>8, <1>12
  <2>. QED  BY <1>6, <1>8, <1>12, <1>13, <2>1, <2>2, <2>3 DEF Matches
<1>15. Reads(g)'
  <2>1. ASSUME NEW d \in Channel
        PROVE  Matches(channels[d], g.peer[d], g.size)'
    <3>1. CASE d = e.c
      BY <1>11, <1>14, <3>1
    <3>2. CASE d # e.c
      <4>1. Matches(channels[d], e.peer[d], e.size)
        BY <1>1, <3>2 DEF Joins, Reads
      <4>. QED  BY <1>6, <1>11, <1>12, <3>2, <4>1
    <3>. QED  BY <3>1, <3>2
  <2>. QED  BY <1>1, <1>6, <1>9, <1>10, <2>1 DEF Reads
<1>16. wire' = Tail(wire)
  <2>1. Head(wire).n = want
    BY <1>1
  <2>2. Tail(wire) \in Seq(Part)
    BY <1>5 DEF PathFrom
  <2>. QED  BY <2>1, <2>2, WholeChunkRead
<1>17. g.rest = flight'
  BY <1>1, <1>6, <1>9 DEF Joins, history
<1>18. Joined'
  BY <1>1, <1>5, <1>9, <1>15, <1>16, <1>17, ReaderGoes DEF Joins
<1>. QED  BY <1>10, <1>18

\* The message that is whole.
Whole_message(e) ==
  [cid |-> e.c, msg |-> e.m, to |-> publishing,
   fills |-> [i \in DOMAIN Grown(TRUE).chain |-> Grown(TRUE).chain[i].fill],
   tags |-> {Grown(TRUE).chain[i].tag : i \in DOMAIN Grown(TRUE).chain},
   renamed |-> e.c \in renamed]

\* What ReadPayload does at the end of a message.
LEMMA PayloadAtEnd ==
  ASSUME TypeOK, NEW e, NEW f, Paying(e, f), ReadPayload, want = e.n, Ends(e)
  PROVE  /\ channels' = [channels EXCEPT ![e.c] = Restarted(Grown(TRUE).header)]
         /\ handed' = Whole_message(e)
         /\ flight' = [flight EXCEPT ![e.c] = Tail(@)]
         /\ chunk_size' = SizeAfter(e)
         /\ IF e.m.type = "set_chunk_size" /\ ~SizeOK(e.m.val)
            THEN state' = "closed" /\ UNCHANGED want
            ELSE ExpectChunk(Restarted(Grown(TRUE).header), SizeAfter(e))
         /\ UNCHANGED <<current_channel, peerVars, appVars>>
<1> DEFINE old == channels[e.c]
           h == [old.header EXCEPT !.recv = @ + want]
           whole == h.recv = h.len
           chain == Append(old.chain, Filled(current_chunk, want, Head(wire).val, whole))
           m     == Decoded(e.c, h, chain)
           left  == IF whole THEN Restarted(h) ELSE [header |-> h, chain |-> chain]
           size  == IF whole /\ h.type = "set_chunk_size" /\ SizeOK(m.msg.val)
                    THEN m.msg.val ELSE chunk_size
<1>1. /\ current_channel = e.c /\ Receives(old, current_chunk, e) /\ chunk_size = e.size
      /\ StandOK(e) /\ GoodChunk(e) /\ current_chunk.fill \in Nat /\ e.m \in Message
      /\ Head(wire).val = e.m.val
  BY DEF Paying, BucketState, GoodChunk
<1>2. /\ h = Grown(TRUE).header /\ h.recv = old.header.recv + want /\ h.len = e.m.len
      /\ h.type = e.m.type /\ h.ts = e.m.ts /\ Head(Grown(TRUE).chain).val = e.m.val
  <2>1. LET new == Grown(TRUE) IN
        /\ new.header = [old.header EXCEPT !.recv = @ + want]
        /\ new.header.recv = old.header.recv + want /\ new.header.len = e.m.len
        /\ new.header.type = e.m.type /\ new.header.ts = e.m.ts
        /\ Head(new.chain).val = e.m.val
    BY GrownIs
  <2>. QED  BY <2>1
<1>3. whole = TRUE
  BY <1>1, <1>2, Received
<1>4. chain = Grown(TRUE).chain
  BY <1>1, <1>3 DEF Grown, Put
<1>5. e.m = [type |-> e.m.type, len |-> e.m.len, ts |-> e.m.ts, val |-> e.m.val]
  BY <1>1 DEF Message
<1>6. m.msg = e.m
  BY <1>2, <1>4, <1>5 DEF Decoded
<1>7. m = Whole_message(e)
  <2>1. PICK buckets : buckets = Grown(TRUE).chain
    OBVIOUS
  <2>2. m = Decoded(e.c, h, buckets) /\ m.msg = e.m
    BY <1>4, <1>6, <2>1
  <2> HIDE DEF m, h
  <2>3. m = [cid |-> e.c, msg |-> e.m, to |-> publishing,
             fills |-> [i \in DOMAIN buckets |-> buckets[i].fill],
             tags |-> {buckets[i].tag : i \in DOMAIN buckets},
             renamed |-> e.c \in renamed]
    BY <2>2 DEF Decoded
  <2>. QED  BY <2>1, <2>3 DEF Whole_message
<1>8. left = Restarted(Grown(TRUE).header)
  BY <1>2, <1>3
<1>9. size = SizeAfter(e)
  <2>1. size = IF h.type = "set_chunk_size" /\ SizeOK(m.msg.val) THEN m.msg.val
               ELSE chunk_size
    BY <1>3
  <2>2. h.type = e.m.type /\ m.msg.val = e.m.val /\ chunk_size = e.size
    BY <1>1, <1>2, <1>6
  <2> HIDE DEF size, h, m
  <2>. QED  BY <2>1, <2>2 DEF SizeAfter, Resizes
<1>10. /\ channels' = [channels EXCEPT ![e.c] = left]
       /\ IF whole THEN /\ handed' = m /\ renamed' = renamed \ {e.c}
                        /\ flight' = [flight EXCEPT ![e.c] = Tail(@)]
          ELSE UNCHANGED history
       /\ chunk_size' = size
       /\ IF whole /\ h.type = "set_chunk_size" /\ ~SizeOK(m.msg.val)
          THEN state' = "closed" /\ UNCHANGED <<want, current_chunk>>
          ELSE ExpectChunk(left, size)
       /\ UNCHANGED <<current_channel, peerVars, appVars>>
  BY <1>1 DEF ReadPayload
<1>11. h.type = e.m.type
  BY <1>2
<1> HIDE DEF whole, left, size, m, h
<1>. QED  BY <1>3, <1>6, <1>7, <1>8, <1>9, <1>10, <1>11

\* A message ends.
LEMMA PayloadEndsMessage ==
  ASSUME TypeOK, NEW e, NEW f, Paying(e, f), ReadPayload, want = e.n, Ends(e),
         peer_state \in {"sending", "broken"}
  PROVE  /\ Joined' /\ state' \in {"basic", "closed"} /\ want' \in Nat
         /\ Restarted(Grown(TRUE).header) \in ChannelState
         /\ flight[e.c] # <<>> /\ Head(flight[e.c]) = e.m
         /\ state' = "closed" => e.c = ControlCid /\ ~SizeOK(e.m.val)
<1>1. /\ Joins(e, f) /\ StandOK(e) /\ GoodChunk(e) /\ e.stage = "payload"
      /\ wire # <<>> /\ Head(wire) = [part |-> "payload", n |-> e.n, val |-> e.m.val]
      /\ e.c \in Channel /\ current_channel = e.c /\ chunk_size = e.size
  BY DEF Paying
<1>2. e.size \in Nat \ {0} /\ e.m \in Message
  BY <1>1, ChunkNumbers
<1>3. PICK g : Follows(e, g) /\ StandOK(g) /\ PathFrom(Tail(wire), g, f)
  BY <1>1, PathPop DEF Joins
<1>4. /\ g.stage = "basic" /\ g.peer = PeerAfter(e) /\ g.size = SizeAfter(e)
      /\ e.rest[e.c] # <<>> /\ Head(e.rest[e.c]) = e.m
      /\ g.rest = [e.rest EXCEPT ![e.c] = Tail(@)]
  BY <1>1, <1>3 DEF Follows
<1>5. PICK h : h = Grown(TRUE).header
  OBVIOUS
<1>6. /\ Grown(TRUE) \in ChannelState /\ h.type = e.m.type /\ h.len = e.m.len
      /\ h.ts = e.m.ts
  BY <1>5, GrownIs
<1>7. h \in [type : {None, "av", "set_chunk_size"}, len : Nat, recv : Nat, ts : Stamp,
             delta : Nat]
  BY <1>5, <1>6 DEF ChannelState
<1>8. PICK new : new = Restarted(h)
  OBVIOUS
<1>9. /\ new.header = [h EXCEPT !.recv = 0] /\ new.chain = <<>>
      /\ new = [header |-> [h EXCEPT !.recv = 0], chain |-> <<>>]
  BY <1>8 DEF Restarted
<1>10. /\ new \in ChannelState /\ new.header.type = e.m.type /\ new.header.len = e.m.len
       /\ new.header.ts = e.m.ts /\ new.header.recv = 0 /\ new.chain = <<>>
  BY <1>6, <1>7, <1>9 DEF ChannelState
<1>11. /\ channels' = [channels EXCEPT ![e.c] = new]
       /\ flight' = [flight EXCEPT ![e.c] = Tail(@)]
       /\ chunk_size' = SizeAfter(e)
       /\ IF e.m.type = "set_chunk_size" /\ ~SizeOK(e.m.val)
          THEN state' = "closed" /\ UNCHANGED want
          ELSE ExpectChunk(new, SizeAfter(e))
       /\ UNCHANGED <<current_channel, peerVars, appVars>>
  BY <1>5, <1>8, PayloadAtEnd
<1>12. SizeAfter(e) \in Nat \ {0} /\ (SizeAfter(e) # e.size => Resizes(e))
  <2>1. CASE Resizes(e)
    <3>1. SizeAfter(e) = e.m.val /\ e.m.val \in PeerSizes
      BY <1>1, <1>2, <2>1, Sizes DEF SizeAfter, Resizes
    <3>2. e.m.val \in Nat /\ e.m.val # 0
      BY <2>1, <3>1, Sizes DEF SizeOK, Resizes
    <3>. QED  BY <2>1, <3>1, <3>2
  <2>2. CASE ~Resizes(e)
    BY <1>2, <2>2 DEF SizeAfter
  <2>. QED  BY <2>1, <2>2
<1>13. ASSUME e.m.type = "set_chunk_size" /\ ~SizeOK(e.m.val)
       PROVE  /\ Joined' /\ state' = "closed" /\ want' \in Nat
              /\ e.c = ControlCid /\ ~SizeOK(e.m.val)
  BY <1>1, <1>11, <1>13 DEF Joined, GoodChunk, TypeOK
<1>14. ASSUME ~(e.m.type = "set_chunk_size" /\ ~SizeOK(e.m.val))
       PROVE  Joined' /\ state' = "basic" /\ want' \in Nat
  <2>1. state' = "basic" /\ want' = 0
    <3>1. 0 % SizeAfter(e) = 0
      BY <1>12
    <3>. QED  BY <1>10, <1>11, <1>14, <3>1 DEF ExpectChunk
  <2>2. \A d \in Channel : channels'[d] = IF d = e.c THEN new ELSE channels[d]
    BY <1>11 DEF TypeOK
  <2>3. /\ \A d \in Channel \ {e.c} : g.peer[d] = e.peer[d]
        /\ g.peer[e.c].last = e.m /\ e.m # None /\ g.peer[e.c].left = 0
    BY <1>1, <1>4, PeerAfterIs
  <2>4. Matches(new, g.peer[e.c], g.size)
    BY <1>10, <2>3 DEF Matches
  <2>5. Reads(g)'
    <3>1. ASSUME NEW d \in Channel
          PROVE  Matches(channels[d], g.peer[d], g.size)'
      <4>1. CASE d = e.c
        BY <2>2, <2>4, <4>1
      <4>2. CASE d # e.c
        <5>1. Matches(channels[d], e.peer[d], e.size)
          BY <1>1, <4>2 DEF Joins, Reads
        <5>2. g.size = e.size \/ e.peer[d].left = 0
          BY <1>1, <1>4, <1>12, <4>2 DEF GoodChunk
        <5>3. Matches(channels[d], e.peer[d], g.size)
          BY <5>1, <5>2 DEF Matches
        <5>. QED  BY <2>2, <2>3, <4>2, <5>3
      <4>. QED  BY <4>1, <4>2
    <3>. QED  BY <1>4, <1>11, <2>1, <3>1 DEF Reads
  <2>6. wire' = Tail(wire)
    <3>1. Head(wire).n = want
      BY <1>1
    <3>2. Tail(wire) \in Seq(Part)
      BY <1>3 DEF PathFrom
    <3>. QED  BY <3>1, <3>2, WholeChunkRead
  <2>7. g.rest = flight'
    BY <1>1, <1>4, <1>11 DEF Joins
  <2>8. Joined'
    BY <1>1, <1>3, <1>11, <2>5, <2>6, <2>7, ReaderGoes DEF Joins
  <2>. QED  BY <2>1, <2>8
<1>15. flight[e.c] # <<>> /\ Head(flight[e.c]) = e.m
  BY <1>1, <1>4 DEF Joins
<1>. QED  BY <1>5, <1>8, <1>10, <1>13, <1>14, <1>15

-----------------------------------------------------------------------------
(* The header of a chunk. *)

\* The header p of chunk e has come, or chunk e has none.
Heading(e, p) ==
  /\ StandOK(e) /\ e.stage \in {"basic", "ext_basic", "header"} /\ Coming(e)
  /\ e.fmt # 3 => e.stage = "header" /\ Says(p, e)
  /\ Reads(e)

\* The channel it is for.
Target(c) == IF channels[c] = None THEN NewChannel ELSE channels[c]

\* A channel on which the peer has sent something has a state; it is within a message
\* if and only if the peer is.
LEMMA MatchedChannel ==
  ASSUME NEW e, NEW p, Heading(e, p)
  PROVE  LET ch   == Target(e.c)
             sent == e.peer[e.c]
         IN  /\ e.c \in Channel /\ Matches(channels[e.c], sent, e.size)
             /\ chunk_size = e.size
             /\ channels[e.c] = None <=> sent.last = None
             /\ sent.last # None => channels[e.c] \in ChannelState
             /\ ch \in ChannelState
             /\ ch.header \in HeaderState
             /\ sent.last \in Message \cup {None} /\ sent.left \in Nat
             /\ sent.left # 0 => sent.last # None /\ sent.left < sent.last.len
             /\ ch.header.recv # 0 <=> sent.left # 0
             /\ sent.left = 0 => ch.header.recv = 0 /\ ch.chain = <<>>
<1> DEFINE ch   == Target(e.c)
           sent == e.peer[e.c]
<1>1. /\ e \in Stand /\ SentRight(e.c, sent, e.size) /\ e.c \in Channel
      /\ Matches(channels[e.c], sent, e.size) /\ chunk_size = e.size
  BY DEF Heading, StandOK, Stand, Reads
<1>2. sent.last \in Message \cup {None} /\ sent.left \in Nat
  BY <1>1 DEF Stand
<1>3. sent.left # 0 => sent.last # None /\ sent.left < sent.last.len
  BY <1>1 DEF SentRight
<1>4. None \notin ChannelState
  BY ChannelAssumption
<1>5. /\ channels[e.c] = None <=> sent.last = None
      /\ sent.last # None => channels[e.c] \in ChannelState
  BY <1>1, <1>4 DEF Matches
<1>6. NewChannel \in ChannelState
  <2>1. 0 \in Stamp
    BY Sizes DEF Stamp
  <2>. QED  BY <2>1 DEF NewChannel, ChannelState
<1>7. ch \in ChannelState /\ ch.header \in HeaderState
  BY <1>5, <1>6 DEF Target, ChannelState, HeaderState
<1>8. sent.left = 0 => ch.header.recv = 0 /\ ch.chain = <<>>
  <2>1. CASE sent.last = None
    BY <1>5, <2>1 DEF Target, NewChannel
  <2>2. CASE sent.last # None
    BY <1>1, <1>5, <2>2 DEF Target, Matches
  <2>. QED  BY <2>1, <2>2
<1>9. sent.left # 0 => ch.header.recv # 0
  <2>1. ASSUME sent.left # 0  PROVE ch.header.recv # 0
    <3>1. ch = channels[e.c] /\ sent.last # None
      BY <1>3, <1>5, <2>1 DEF Target
    <3>2. ch.header.recv = sent.last.len - sent.left
      BY <1>1, <2>1, <3>1 DEF Matches
    <3>3. sent.last.len \in Nat
      BY <1>2, <3>1, Sizes
    <3>. QED  BY <1>2, <1>3, <2>1, <3>2, <3>3
  <2>. QED  BY <2>1
<1>. QED  BY <1>1, <1>2, <1>3, <1>5, <1>7, <1>8, <1>9

\* A chunk that breaks a rule is found out.
LEMMA BadIsCut ==
  ASSUME NEW e, NEW p, Heading(e, p), e.bad, TakeHeader(Bucket(e.c, e.fmt), p)
  PROVE  Close
<1> DEFINE ch   == Target(e.c)
           sent == e.peer[e.c]
           b    == Bucket(e.c, e.fmt)
           h    == HeaderAfter(ch.header, e.fmt, p)
<1>1. BadChunk(e)
  BY DEF Heading, Coming
<1>2. /\ channels[e.c] = None <=> sent.last = None
      /\ sent.left # 0 => sent.last # None
      /\ ch.header.recv # 0 <=> sent.left # 0
      /\ ch.header \in HeaderState
  BY MatchedChannel
<1>3. b.cid = e.c /\ b.fmt = e.fmt
  BY DEF Bucket
<1>4. OutOfPlace(e.c, e.fmt) \/ (~MergesInto(ch, e.fmt) /\ h.len = 0)
  <2>1. CASE sent.last = None /\ e.fmt \in {2, 3}
    <3>1. channels[e.c] = None /\ e.fmt > 1
      BY <1>2, <2>1
    <3>. QED  BY <3>1 DEF OutOfPlace
  <2>2. CASE e.fmt = 0 /\ sent.left # 0
    <3>1. channels[e.c] # None /\ channels[e.c].header.recv # 0 /\ e.fmt # 3
      BY <1>2, <2>2 DEF Target
    <3>. QED  BY <3>1 DEF OutOfPlace
  <2>3. CASE e.fmt = 0 /\ sent.left = 0
    <3>1. e.stage = "header" /\ Says(p, e)
      BY <2>3 DEF Heading
    <3>2. p.len = 0
      BY <2>3, <3>1 DEF Says
    <3>3. h.len = 0
      <4> DEFINE k == ch.header
      <4>1. k \in HeaderState
        BY <1>2
      <4> HIDE DEF k
      <4>2. HeaderAfter(k, 0, p).len = 0
        BY <3>2, <4>1 DEF HeaderAfter, HeaderState
      <4>. QED  BY <2>3, <4>2 DEF k
    <3>4. ~MergesInto(ch, e.fmt)
      BY <2>3 DEF MergesInto
    <3>. QED  BY <3>3, <3>4
  <2>. QED  BY <1>1, <2>1, <2>2, <2>3 DEF BadChunk
<1>. QED  BY <1>3, <1>4 DEF TakeHeader, Target

\* The header of a message that begins.
LEMMA HeadOfNew ==
  ASSUME NEW e, NEW p, Heading(e, p), ~e.bad, e.peer[e.c].left = 0
  PROVE  LET ch   == Target(e.c)
             h    == HeaderAfter(ch.header, e.fmt, p)
             last == e.peer[e.c].last
         IN  /\ h \in HeaderState
             /\ h.type = e.m.type /\ h.len = e.m.len /\ h.recv = 0
             /\ h.ts = IF e.fmt = 0 \/ last = None THEN 0 ELSE last.ts
             /\ h.delta = IF e.fmt = 3 THEN 0
                          ELSE Least(HeaderTime(e), RTMP_CHUNK_EXTENDED_TIMESTAMP)
             /\ HeaderTime(e) \in Nat
<1> DEFINE ch   == Target(e.c)
           k    == ch.header
           h    == HeaderAfter(k, e.fmt, p)
           last == e.peer[e.c].last
           T    == Least(HeaderTime(e), RTMP_CHUNK_EXTENDED_TIMESTAMP)
<1>1. GoodChunk(e) /\ StandOK(e) /\ e.stage # "payload"
  BY DEF Heading, Coming
<1>2. /\ e.m \in Message /\ e.m.len \in Nat /\ e.m.ts \in Stamp /\ e.step \in Nat
      /\ e.m.type \in {"av", "set_chunk_size"} /\ e.fmt \in 0..3
  BY <1>1, Sizes DEF GoodChunk, StandOK, Stand, Message
<1>3. HeaderTime(e) \in Nat /\ T \in Nat /\ e.m.ts \in Nat
  <2>1. e.m.ts \in Nat
    BY <1>2, Sizes
  <2>. QED  BY <1>2, <2>1, Sizes, LeastIs DEF HeaderTime
<1>4. /\ Matches(channels[e.c], e.peer[e.c], e.size)
      /\ channels[e.c] = None <=> last = None
      /\ k \in HeaderState /\ k.recv = 0
      /\ last \in Message \cup {None}
  BY MatchedChannel
<1>5. /\ last = None => e.fmt = 0
      /\ e.fmt \in {2, 3} => e.m.type = last.type /\ e.m.len = last.len
  BY <1>1 DEF GoodChunk
<1>6. /\ last = None => k.ts = 0
      /\ last # None => k.type = last.type /\ k.len = last.len /\ k.ts = last.ts
  <2>1. CASE last = None
    BY <1>4, <2>1 DEF Target, NewChannel
  <2>2. CASE last # None
    BY <1>4, <2>2 DEF Target, Matches
  <2>. QED  BY <2>1, <2>2
<1>7. e.fmt # 3 => p.type = e.m.type /\ p.len = e.m.len /\ p.time = T
  <2>1. ASSUME e.fmt # 3  PROVE p.type = e.m.type /\ p.len = e.m.len /\ p.time = T
    <3>1. e.stage = "header" /\ Says(p, e)
      BY <2>1 DEF Heading
    <3>. QED  BY <3>1 DEF Says
  <2>. QED  BY <2>1
<1>8. 0 \in Stamp
  BY Sizes DEF Stamp
<1> HIDE DEF k, last, T
<1>9. CASE e.fmt = 0
  <2>1. h = [k EXCEPT !.type = p.type, !.len = p.len, !.ts = 0, !.delta = p.time]
    BY <1>4, <1>9 DEF HeaderAfter, HeaderState
  <2> HIDE DEF h
  <2>0. p.type = e.m.type /\ p.len = e.m.len /\ p.time = T
    BY <1>7, <1>9
  <2>2. h = [k EXCEPT !.type = e.m.type, !.len = e.m.len, !.ts = 0, !.delta = T]
    BY <2>0, <2>1
  <2>3. h \in HeaderState
    BY <1>2, <1>3, <1>4, <1>8, <2>2 DEF HeaderState
  <2>4. h.type = e.m.type /\ h.len = e.m.len /\ h.recv = 0 /\ h.ts = 0 /\ h.delta = T
    BY <1>4, <2>2 DEF HeaderState
  <2>. QED  BY <1>3, <1>9, <2>3, <2>4 DEF h, k, last, T
<1>10. CASE e.fmt = 1
  <2>1. h = [k EXCEPT !.type = p.type, !.len = p.len, !.delta = p.time]
    <3>1. h = [[k EXCEPT !.type = p.type, !.len = p.len] EXCEPT !.delta = p.time]
      BY <1>10 DEF HeaderAfter
    <3> HIDE DEF h
    <3>. QED  BY <1>4, <3>1 DEF HeaderState
  <2> HIDE DEF h
  <2>0. p.type = e.m.type /\ p.len = e.m.len /\ p.time = T
    BY <1>7, <1>10
  <2>2. h = [k EXCEPT !.type = e.m.type, !.len = e.m.len, !.delta = T]
    BY <2>0, <2>1
  <2>3. h \in HeaderState
    BY <1>2, <1>3, <1>4, <2>2 DEF HeaderState
  <2>4. /\ h.type = e.m.type /\ h.len = e.m.len /\ h.recv = 0 /\ h.ts = k.ts
        /\ h.delta = T
    BY <1>4, <2>2 DEF HeaderState
  <2>. QED  BY <1>3, <1>5, <1>6, <1>10, <2>3, <2>4 DEF h, k, last, T
<1>11. CASE e.fmt = 2
  <2>1. h = [k EXCEPT !.delta = p.time]
    <3>1. e.fmt = 2 /\ ~(e.fmt <= 1) /\ e.fmt # 0 /\ e.fmt # 3
      BY <1>11
    <3>. QED  BY <3>1 DEF HeaderAfter
  <2> HIDE DEF h
  <2>0. p.type = e.m.type /\ p.len = e.m.len /\ p.time = T
    BY <1>7, <1>11
  <2>2. h = [k EXCEPT !.delta = T]
    BY <2>0, <2>1
  <2>3. h \in HeaderState
    BY <1>3, <1>4, <2>2 DEF HeaderState
  <2>4. /\ h.type = k.type /\ h.len = k.len /\ h.recv = 0 /\ h.ts = k.ts /\ h.delta = T
    BY <1>4, <2>2 DEF HeaderState
  <2>. QED  BY <1>3, <1>5, <1>6, <1>11, <2>3, <2>4 DEF h, k, last, T
<1>12. CASE e.fmt = 3
  <2>1. h = [k EXCEPT !.delta = 0]
    BY <1>4, <1>12 DEF HeaderAfter, HeaderState
  <2> HIDE DEF h
  <2>2. h \in HeaderState
    BY <1>4, <2>1 DEF HeaderState
  <2>3. /\ h.type = k.type /\ h.len = k.len /\ h.recv = 0 /\ h.ts = k.ts /\ h.delta = 0
    BY <1>4, <2>1 DEF HeaderState
  <2>. QED  BY <1>3, <1>5, <1>6, <1>12, <2>2, <2>3 DEF h, k, last, T
<1>. QED  BY <1>2, <1>9, <1>10, <1>11, <1>12

\* The time of a message comes out as the peer gave it.
LEMMA TimeOfNew ==
  ASSUME NEW e, StandOK(e), GoodChunk(e), e.peer[e.c].left = 0
  PROVE  LET last == e.peer[e.c].last
             base == IF e.fmt = 0 \/ last = None THEN 0 ELSE last.ts
         IN  (base + IF e.fmt = 3 THEN 0 ELSE HeaderTime(e)) % Modulus = e.m.ts
<1> DEFINE last == e.peer[e.c].last
           base == IF e.fmt = 0 \/ last = None THEN 0 ELSE last.ts
<1>2. /\ e.m.ts = ((IF last = None THEN 0 ELSE last.ts) + e.step) % Modulus
      /\ last = None => e.fmt = 0
      /\ e.fmt = 3 => e.step = 0
      /\ e.m \in Message
  BY DEF GoodChunk
<1>3. e.m.ts \in Nat /\ e.m.ts < Modulus /\ Modulus \in Nat \ {0}
  BY <1>2, Sizes
<1>4. CASE e.fmt = 0
  <2>1. \A x \in Nat, y \in Nat \ {0} : x < y => (0 + x) % y = x
    OBVIOUS
  <2>. QED  BY <1>3, <1>4, <2>1 DEF HeaderTime
<1>5. CASE e.fmt # 0
  BY <1>2, <1>5 DEF HeaderTime
<1>. QED  BY <1>4, <1>5

\* A chunk that is fine before its header has come.
LEMMA HeadingIsGood ==
  ASSUME NEW e, NEW p, Heading(e, p), ~e.bad
  PROVE  StandOK(e) /\ GoodChunk(e) /\ e.stage # "payload" /\ Reads(e)
BY DEF Heading, Coming

\* The payload of chunk e is asked for.
LEMMA AsksPayload ==
  ASSUME TypeOK, NEW e, StandOK(e), GoodChunk(e), e.stage # "payload", Reads(e),
         NEW new, NEW b,
         new \in ChannelState, b \in BucketState, b.fill \in Nat,
         new.header.type = e.m.type, new.header.len = e.m.len, new.header.ts = e.m.ts,
         new.header.recv = e.m.len - e.left,
         new.chain # <<>> => Head(new.chain).val = e.m.val,
         \A k \in 1..Len(new.chain) : Whole(new.chain[k]),
         Len(new.chain) * DEFAULT_CHUNK_BUCKET_SIZE + b.fill = new.header.recv,
         Room(b, e.size),
         state' = "payload", current_channel' = e.c, current_chunk' = b,
         want' = expect_payload_len(new.header, chunk_size),
         channels' = [channels EXCEPT ![e.c] = new], UNCHANGED chunk_size
  PROVE  Reads(At(e, "payload"))' /\ want' \in Nat
<1> DEFINE B == DEFAULT_CHUNK_BUCKET_SIZE
<1>1. GoodChunk(e) /\ StandOK(e) /\ e.stage # "payload" /\ Reads(e)
  OBVIOUS
<1>2. PICK g : g = At(e, "payload")
  OBVIOUS
<1>3. /\ g.stage = "payload" /\ g.c = e.c /\ g.m = e.m /\ g.left = e.left
      /\ g.n = e.n /\ g.peer = e.peer /\ g.size = e.size /\ ChunkLen(g) = ChunkLen(e)
  BY <1>1, <1>2, AtFields
<1>4. /\ e.c \in Channel /\ e.n = ChunkLen(e) /\ ChunkLen(e) \in Nat
      /\ e.left \in Nat /\ e.m.len \in Nat /\ e.left <= e.m.len /\ e.size \in Nat
      /\ B \in Nat
  BY <1>1, ChunkNumbers, Sizes DEF GoodChunk
<1>5. chunk_size = e.size
  BY <1>1 DEF Reads
<1>6. \A d \in Channel : channels'[d] = IF d = e.c THEN new ELSE channels[d]
  BY <1>4 DEF TypeOK
<1>7. ChunkLen(g) - g.n = 0 * B /\ g.n = ChunkLen(g)
  BY <1>3, <1>4
<1>8. want' = Least(Least(g.m.len - new.header.recv, g.size), B)
  BY <1>3, <1>5 DEF expect_payload_len
<1>9. Receives(new, b, g)'
  <2>1. Gathered(new.chain, g.m.val)
    <3>1. new.chain \in Seq([cid : Channel, fmt : 0..3, fill : Nat,
                             val : PeerSizes \cup {None}, tag : Name \cup {None},
                             state : {"end", "merge"}])
      BY DEF ChannelState
    <3>2. Len(new.chain) \in Nat
      BY <3>1
    <3>. QED  BY <1>3, <3>2 DEF Gathered
  <2>2. new.header.recv = g.m.len - g.left + (ChunkLen(g) - g.n)
    BY <1>3, <1>4
  <2>3. IF g.size <= B THEN g.n = ChunkLen(g)
        ELSE \E i \in Nat : ChunkLen(g) - g.n = i * B
    BY <1>7
  <2>. QED  BY <1>3, <1>8, <2>1, <2>2, <2>3 DEF Receives
<1>10. ASSUME NEW d \in Channel, d # g.c
       PROVE  Matches(channels[d], g.peer[d], g.size)'
  <2>1. Matches(channels[d], e.peer[d], e.size)
    BY <1>1, <1>3, <1>10 DEF Reads
  <2>. QED  BY <1>3, <1>6, <1>10, <2>1
<1>11. Receives(channels[g.c], current_chunk, g)'
  <2>1. channels'[g.c] = new /\ current_chunk' = b
    BY <1>3, <1>4, <1>6
  <2>. QED  BY <1>9, <2>1 DEF Receives
<1>12. Reads(g)'
  BY <1>3, <1>5, <1>10, <1>11 DEF Reads
<1>13. want' \in Nat
  <2>1. \A x, y \in Nat : x - (x - y) = y
    OBVIOUS
  <2>2. g.m.len - new.header.recv = e.left
    <3>1. g.m.len = e.m.len /\ new.header.recv = e.m.len - e.left
      BY <1>3
    <3>2. e.m.len \in Nat /\ e.left \in Nat
      BY <1>4
    <3>. QED  BY <2>1, <3>1, <3>2
  <2>3. Least(g.m.len - new.header.recv, g.size) \in Nat
    BY <1>3, <1>4, <2>2, LeastIs
  <2>. QED  BY <1>4, <1>8, <2>3, LeastIs
<1>. QED  BY <1>2, <1>12, <1>13

\* The buckets of a message that goes on.
LEMMA GoingOn ==
  ASSUME NEW e, NEW p, Heading(e, p), ~e.bad, e.peer[e.c].left # 0
  PROVE  LET ch == channels[e.c] IN
         /\ e.fmt = 3 /\ ch # None /\ ch \in ChannelState /\ Target(e.c) = ch
         /\ ch.header.type = e.m.type /\ ch.header.len = e.m.len
         /\ ch.header.ts = e.m.ts /\ ch.header.recv = e.m.len - e.left
         /\ e.m.ts \in Nat /\ e.m.ts < Modulus /\ e.m.len # 0
         /\ ch.chain # <<>> /\ Gathered(ch.chain, e.m.val)
         /\ (Len(ch.chain) - 1) * DEFAULT_CHUNK_BUCKET_SIZE + Last(ch.chain).fill
              = ch.header.recv
         /\ Whole(Last(ch.chain)) \/ (Last(ch.chain).state = "merge"
                                       /\ e.size <= DEFAULT_CHUNK_BUCKET_SIZE
                                       /\ Room(Last(ch.chain), e.size))
<1>1. GoodChunk(e)
  BY DEF Heading, Coming
<1>2. /\ e.fmt = 3 /\ e.left = e.peer[e.c].left /\ e.m = e.peer[e.c].last /\ e.m \in Message
  BY <1>1 DEF GoodChunk
<1>3. /\ Matches(channels[e.c], e.peer[e.c], e.size) /\ e.peer[e.c].last # None
      /\ channels[e.c] # None
  BY MatchedChannel
<1>4. e.m.ts \in Nat /\ e.m.ts < Modulus /\ e.m.len # 0
  BY <1>2, Sizes
<1>. QED  BY <1>2, <1>3, <1>4 DEF Matches, Target

\* The chunk goes on in the bucket of the one before.
LEMMA MergesOn ==
  ASSUME TypeOK, NEW e, NEW p, Heading(e, p), ~e.bad, e.peer[e.c].left # 0,
         TakeHeader(Bucket(e.c, e.fmt), p), UNCHANGED chunk_size,
         MergesInto(channels[e.c], 3)
  PROVE  /\ Reads(At(e, "payload"))' /\ want' \in Nat /\ state' = "payload"
<1> DEFINE B  == DEFAULT_CHUNK_BUCKET_SIZE
           BS == [cid : Channel, fmt : 0..3, fill : Nat, val : PeerSizes \cup {None},
                  tag : Name \cup {None}, state : {"end", "merge"}]
<1>1. PICK ch : ch = channels[e.c]
  OBVIOUS
<1>2. /\ e.fmt = 3 /\ ch # None /\ ch \in ChannelState /\ Target(e.c) = ch
      /\ ch.header.type = e.m.type /\ ch.header.len = e.m.len
      /\ ch.header.ts = e.m.ts /\ ch.header.recv = e.m.len - e.left
      /\ ch.chain # <<>> /\ Gathered(ch.chain, e.m.val)
      /\ (Len(ch.chain) - 1) * B + Last(ch.chain).fill = ch.header.recv
      /\ Whole(Last(ch.chain)) \/ (Last(ch.chain).state = "merge"
                                    /\ e.size <= B /\ Room(Last(ch.chain), e.size))
  BY <1>1, GoingOn
<1>3. Last(ch.chain).state = "merge" /\ ~Whole(Last(ch.chain))
  BY <1>1 DEF MergesInto, Whole
<1>4. e.c \in Channel /\ Reads(e) /\ chunk_size = e.size
  BY DEF Heading, StandOK, Stand, Reads
<1>5. ch.chain \in Seq(BS) /\ ch.header \in HeaderState
  BY <1>2 DEF ChannelState, HeaderState
<1> HIDE DEF BS
<1>6. /\ Last(ch.chain) \in BS /\ Len(ch.chain) \in Nat \ {0}
      /\ Last(ch.chain) = ch.chain[Len(ch.chain)]
  BY <1>2, <1>5 DEF Last
<1>7. /\ Front(ch.chain) \in Seq(BS) /\ Len(Front(ch.chain)) = Len(ch.chain) - 1
      /\ \A k \in 1..(Len(ch.chain) - 1) : Front(ch.chain)[k] = ch.chain[k]
  <2>1. \A k \in 1..(Len(ch.chain) - 1) : ch.chain[k] \in BS
    BY <1>5
  <2>2. 1 \in Int /\ Len(ch.chain) - 1 \in Int
    BY <1>6
  <2>3. /\ SubSeq(ch.chain, 1, Len(ch.chain) - 1) \in Seq(BS)
        /\ Len(SubSeq(ch.chain, 1, Len(ch.chain) - 1))
             = IF 1 <= Len(ch.chain) - 1 THEN Len(ch.chain) - 1 - 1 + 1 ELSE 0
        /\ \A i \in 1..(Len(ch.chain) - 1 - 1 + 1) :
             SubSeq(ch.chain, 1, Len(ch.chain) - 1)[i] = ch.chain[1 + i - 1]
    BY <2>1, <2>2, SubSeqProperties
  <2>. QED  BY <1>6, <2>3 DEF Front
<1> USE DEF BS
<1>8. PICK new, b : /\ new = [ch EXCEPT !.chain = Front(@)]
                    /\ b = [Last(ch.chain) EXCEPT !.state = "reading"]
  OBVIOUS
<1>9. new.header = ch.header /\ new.chain = Front(ch.chain) /\ new \in ChannelState
  BY <1>2, <1>5, <1>7, <1>8 DEF ChannelState
<1>10. b \in BucketState /\ b.fill = Last(ch.chain).fill /\ b.fill \in Nat
  BY <1>6, <1>8 DEF BucketState
<1>11. /\ state' = "payload" /\ current_channel' = e.c /\ current_chunk' = b
       /\ want' = expect_payload_len(new.header, chunk_size)
       /\ channels' = [channels EXCEPT ![e.c] = new]
  <2> DEFINE h == HeaderAfter(ch.header, e.fmt, p)
  <2>1. /\ Bucket(e.c, e.fmt).cid = e.c /\ Bucket(e.c, e.fmt).fmt = e.fmt
        /\ MergesInto(ch, e.fmt)
    BY <1>1, <1>2 DEF Bucket
  <2>2. ~OutOfPlace(e.c, e.fmt)
    BY <1>1, <1>2 DEF OutOfPlace
  <2>3. /\ current_channel' = e.c
        /\ AskPayload(ch, b)
        /\ channels' = [channels EXCEPT ![e.c].chain = Front(@)]
    BY <1>1, <1>2, <1>8, <2>1, <2>2 DEF TakeHeader
  <2>4. channels' = [channels EXCEPT ![e.c] = new]
    BY <1>1, <1>8, <2>3
  <2>. QED  BY <1>9, <2>3, <2>4 DEF AskPayload
<1>12. \A k \in 1..Len(new.chain) : Whole(new.chain[k])
  BY <1>2, <1>7, <1>9 DEF Gathered
<1>13. new.chain # <<>> => Head(new.chain).val = e.m.val
  <2>1. ASSUME new.chain # <<>>  PROVE Head(new.chain).val = e.m.val
    <3>1. Len(new.chain) # 0
      BY <1>7, <1>9, <2>1
    <3>2. 1 \in 1..(Len(ch.chain) - 1) /\ Head(ch.chain) = ch.chain[1]
          /\ Head(new.chain) = new.chain[1]
      BY <1>5, <1>6, <1>7, <1>9, <3>1
    <3>. QED  BY <1>2, <1>7, <1>9, <3>2 DEF Gathered
  <2>. QED  BY <2>1
<1>14. Reads(At(e, "payload"))' /\ want' \in Nat
  <2>1. Len(new.chain) * B + b.fill = new.header.recv
    BY <1>2, <1>7, <1>9, <1>10
  <2>2. Room(b, e.size)
    BY <1>2, <1>3, <1>10 DEF Room
  <2>. QED  BY <1>2, <1>9, <1>10, <1>11, <1>12, <1>13, <2>1, <2>2, HeadingIsGood, AsksPayload
<1>. QED  BY <1>11, <1>14

\* An empty bucket has room.
LEMMA EmptyBucket ==
  ASSUME NEW c \in Channel, NEW fmt \in 0..3, NEW size \in Nat
  PROVE  LET b == Bucket(c, fmt) IN
         b \in BucketState /\ b.fill = 0 /\ Room(b, size) /\ b.cid = c /\ b.fmt = fmt
<1>1. Bucket(c, fmt) = [cid |-> c, fmt |-> fmt, fill |-> 0, val |-> None, tag |-> None,
                        state |-> "reading"]
  BY DEF Bucket
<1>2. Bucket(c, fmt) \in BucketState
  BY <1>1 DEF BucketState
<1>3. 0 = 0 * size /\ 0 + size = size
  OBVIOUS
<1>. QED  BY <1>1, <1>2, <1>3 DEF Room

\* A chunk that is in its place, gets a bucket of its own and has no extended time goes on
\* to its payload.
LEMMA HeaderDone ==
  ASSUME NEW b, NEW p, TakeHeader(b, p), NEW ch, NEW h,
         ch = (IF channels[b.cid] = None THEN NewChannel ELSE channels[b.cid]),
         h = HeaderAfter(ch.header, b.fmt, p), ~OutOfPlace(b.cid, b.fmt),
         ~MergesInto(ch, b.fmt), h.len # 0, h.delta # RTMP_CHUNK_EXTENDED_TIMESTAMP
  PROVE  /\ current_channel' = b.cid
         /\ AskPayload([ch EXCEPT !.header = AddDelta(h)], b)
         /\ channels' = [channels EXCEPT ![b.cid] = [ch EXCEPT !.header = AddDelta(h)]]
BY DEF TakeHeader

\* A chunk goes on with the message in a bucket of its own.
LEMMA OpensBucket ==
  ASSUME TypeOK, NEW e, NEW p, Heading(e, p), ~e.bad, e.peer[e.c].left # 0,
         TakeHeader(Bucket(e.c, e.fmt), p), UNCHANGED chunk_size,
         ~MergesInto(channels[e.c], 3)
  PROVE  /\ Reads(At(e, "payload"))' /\ want' \in Nat /\ state' = "payload"
<1> DEFINE B == DEFAULT_CHUNK_BUCKET_SIZE
           b == Bucket(e.c, e.fmt)
<1>1. PICK ch : ch = channels[e.c]
  OBVIOUS
<1>2. /\ e.fmt = 3 /\ ch # None /\ ch \in ChannelState /\ Target(e.c) = ch
      /\ ch.header.type = e.m.type /\ ch.header.len = e.m.len
      /\ ch.header.ts = e.m.ts /\ ch.header.recv = e.m.len - e.left
      /\ e.m.ts \in Nat /\ e.m.ts < Modulus /\ e.m.len # 0
      /\ ch.chain # <<>> /\ Gathered(ch.chain, e.m.val)
      /\ (Len(ch.chain) - 1) * B + Last(ch.chain).fill = ch.header.recv
      /\ Whole(Last(ch.chain)) \/ Last(ch.chain).state = "merge"
  BY <1>1, GoingOn
<1>3. Whole(Last(ch.chain))
  BY <1>1, <1>2 DEF MergesInto
<1>4. /\ e.c \in Channel /\ e.fmt \in 0..3 /\ e.size \in Nat
      /\ B \in Nat \ {0} /\ RTMP_CHUNK_EXTENDED_TIMESTAMP # 0
  BY Sizes DEF Heading, StandOK, Stand
<1>5. ch.chain \in Seq([cid : Channel, fmt : 0..3, fill : Nat, val : PeerSizes \cup {None},
                        tag : Name \cup {None}, state : {"end", "merge"}])
      /\ ch.header \in HeaderState
  BY <1>2 DEF ChannelState, HeaderState
<1>6. Len(ch.chain) \in Nat \ {0} /\ Last(ch.chain) = ch.chain[Len(ch.chain)]
  BY <1>2, <1>5 DEF Last
<1>7. PICK h : h = HeaderAfter(ch.header, e.fmt, p)
  OBVIOUS
<1>8. h = [ch.header EXCEPT !.delta = 0]
  BY <1>2, <1>7 DEF HeaderAfter
<1>9. /\ h \in HeaderState /\ h.type = ch.header.type /\ h.len = ch.header.len
      /\ h.recv = ch.header.recv /\ h.ts = ch.header.ts /\ h.delta = 0
  BY <1>5, <1>8 DEF HeaderState
<1>10. AddDelta(h) = h
  <2>1. \A x, y \in Nat : x < y => (x + 0) % y = x
    OBVIOUS
  <2>2. (h.ts + h.delta) % Modulus = h.ts
    BY <1>2, <1>9, <2>1, Sizes
  <2>3. AddDelta(h) = [h EXCEPT !.ts = h.ts]
    BY <2>2 DEF AddDelta
  <2>. QED  BY <1>9, <2>3 DEF HeaderState
<1>11. PICK new : new = [ch EXCEPT !.header = h]
  OBVIOUS
<1>12. new.header = h /\ new.chain = ch.chain /\ new \in ChannelState
  BY <1>2, <1>9, <1>11 DEF ChannelState, HeaderState
<1>13. b \in BucketState /\ b.fill = 0 /\ Room(b, e.size) /\ b.cid = e.c /\ b.fmt = e.fmt
  BY <1>4, EmptyBucket
<1> HIDE DEF b
<1>14. /\ state' = "payload" /\ current_channel' = e.c /\ current_chunk' = b
       /\ want' = expect_payload_len(new.header, chunk_size)
       /\ channels' = [channels EXCEPT ![e.c] = new]
  <2>1. ~MergesInto(ch, b.fmt) /\ ~OutOfPlace(b.cid, b.fmt)
    BY <1>1, <1>2, <1>13 DEF OutOfPlace
  <2>2. h.len # 0 /\ h.delta # RTMP_CHUNK_EXTENDED_TIMESTAMP
    BY <1>2, <1>4, <1>9
  <2>3. TakeHeader(b, p)
    BY DEF b
  <2>4. /\ current_channel' = e.c
        /\ AskPayload([ch EXCEPT !.header = h], b)
        /\ channels' = [channels EXCEPT ![e.c] = [ch EXCEPT !.header = h]]
    <3>1. /\ b.cid = e.c /\ HeaderAfter(ch.header, b.fmt, p) = h
          /\ (IF channels[e.c] = None THEN NewChannel ELSE channels[e.c]) = ch
      BY <1>1, <1>2, <1>7, <1>13
    <3>2. ch = (IF channels[b.cid] = None THEN NewChannel ELSE channels[b.cid])
      BY <3>1
    <3>3. /\ current_channel' = b.cid
          /\ AskPayload([ch EXCEPT !.header = AddDelta(h)], b)
          /\ channels' = [channels EXCEPT ![b.cid] = [ch EXCEPT !.header = AddDelta(h)]]
      BY <2>1, <2>2, <2>3, <3>1, <3>2, HeaderDone
    <3>. QED  BY <1>10, <3>1, <3>3
  <2>. QED  BY <1>11, <2>4 DEF AskPayload
<1>15. /\ \A k \in 1..Len(new.chain) : Whole(new.chain[k])
       /\ Len(new.chain) * B + b.fill = new.header.recv
  <2>1. \A k \in 1..(Len(ch.chain) - 1) : Whole(ch.chain[k])
    BY <1>2 DEF Gathered
  <2>2. Last(ch.chain).fill = B
    BY <1>3 DEF Whole
  <2>3. \A x, y \in Nat : x # 0 => (x - 1) * y + y = x * y
    <3>1. ASSUME NEW x \in Nat, NEW y \in Nat, x # 0  PROVE (x - 1) * y + y = x * y
      <4>1. PICK z \in Nat : x = z + 1
        <5>1. x - 1 \in Nat /\ x = (x - 1) + 1
          BY <3>1
        <5>. QED  BY <5>1
      <4>2. x - 1 = z /\ (z + 1) * y = z * y + y
        BY <4>1
      <4>. QED  BY <4>1, <4>2
    <3>. QED  BY <3>1
  <2>4. (Len(ch.chain) - 1) * B + B = Len(ch.chain) * B
    BY <1>4, <1>6, <2>3
  <2>5. Len(ch.chain) * B \in Nat
    BY <1>4, <1>6
  <2>6. \A k \in 1..Len(ch.chain) : Whole(ch.chain[k])
    <3>1. \A k \in 1..Len(ch.chain) : k \in 1..(Len(ch.chain) - 1) \/ k = Len(ch.chain)
      BY <1>6
    <3>. QED  BY <1>3, <1>6, <2>1, <3>1
  <2>7. Len(ch.chain) * B + 0 = ch.header.recv
    BY <1>2, <2>2, <2>4, <2>5
  <2>. QED  BY <1>9, <1>12, <1>13, <2>6, <2>7
<1>16. Reads(At(e, "payload"))' /\ want' \in Nat
  <2>1. Head(new.chain).val = e.m.val
    BY <1>2, <1>12 DEF Gathered
  <2>2. StandOK(e) /\ GoodChunk(e) /\ e.stage # "payload" /\ Reads(e)
    BY HeadingIsGood
  <2>3. /\ new.header.type = e.m.type /\ new.header.len = e.m.len
        /\ new.header.ts = e.m.ts /\ new.header.recv = e.m.len - e.left
    BY <1>2, <1>9, <1>12
  <2>4. new \in ChannelState /\ (new.chain # <<>> => Head(new.chain).val = e.m.val)
        /\ b \in BucketState /\ b.fill \in Nat /\ Room(b, e.size)
    BY <1>12, <1>13, <2>1
  <2>. QED  BY <1>14, <1>15, <2>2, <2>3, <2>4, AsksPayload
<1>. QED  BY <1>14, <1>16

\* The time of the message that begins is added to what the header left.
LEMMA TimeAdded ==
  ASSUME NEW e, StandOK(e), GoodChunk(e), e.peer[e.c].left = 0, NEW h \in HeaderState,
         h.ts = (IF e.fmt = 0 \/ e.peer[e.c].last = None THEN 0 ELSE e.peer[e.c].last.ts),
         h.delta = (IF e.fmt = 3 THEN 0 ELSE HeaderTime(e))
  PROVE  LET k == AddDelta(h) IN
         /\ k \in HeaderState /\ k.ts = e.m.ts /\ k.type = h.type /\ k.len = h.len
         /\ k.recv = h.recv
<1>1. (h.ts + h.delta) % Modulus = e.m.ts
  BY TimeOfNew
<1>2. e.m.ts \in Stamp
  BY DEF GoodChunk, Message
<1>3. AddDelta(h) = [h EXCEPT !.ts = e.m.ts]
  BY <1>1 DEF AddDelta
<1>. QED  BY <1>2, <1>3 DEF HeaderState

\* The stage after the header of a chunk that is fine.
AfterHeader(e) ==
  IF e.fmt # 3 /\ HeaderTime(e) >= RTMP_CHUNK_EXTENDED_TIMESTAMP THEN "time" ELSE "payload"

\* A message begins.
LEMMA BeginsMessage ==
  ASSUME TypeOK, NEW e, NEW p, Heading(e, p), ~e.bad, e.peer[e.c].left = 0,
         TakeHeader(Bucket(e.c, e.fmt), p), UNCHANGED chunk_size
  PROVE  /\ Reads(At(e, AfterHeader(e)))' /\ want' \in Nat /\ state' = AfterHeader(e)
<1> DEFINE b    == Bucket(e.c, e.fmt)
           last == e.peer[e.c].last
           T    == HeaderTime(e)
           X    == RTMP_CHUNK_EXTENDED_TIMESTAMP
<1>1. PICK ch : ch = Target(e.c)
  OBVIOUS
<1>2. /\ e.c \in Channel /\ ch \in ChannelState /\ ch.header.recv = 0 /\ ch.chain = <<>>
      /\ channels[e.c] = None <=> last = None
      /\ chunk_size = e.size /\ ch.header \in HeaderState
  BY <1>1, MatchedChannel
<1>3. PICK h : h = HeaderAfter(ch.header, e.fmt, p)
  OBVIOUS
<1>4. /\ h \in HeaderState /\ h.type = e.m.type /\ h.len = e.m.len /\ h.recv = 0
      /\ h.ts = (IF e.fmt = 0 \/ last = None THEN 0 ELSE last.ts)
      /\ h.delta = IF e.fmt = 3 THEN 0 ELSE Least(T, X)
      /\ T \in Nat
  BY <1>1, <1>3, HeadOfNew
<1>5. GoodChunk(e) /\ StandOK(e) /\ e.stage # "payload" /\ Reads(e)
  BY DEF Heading, Coming
<1>6. /\ e.fmt \in 0..3 /\ e.size \in Nat /\ X \in Nat \ {0} /\ e.m.len \in Nat \ {0}
      /\ e.left = e.m.len /\ (last = None => e.fmt = 0)
  BY <1>5, Sizes DEF StandOK, Stand, GoodChunk
<1>7. b \in BucketState /\ b.fill = 0 /\ Room(b, e.size) /\ b.cid = e.c /\ b.fmt = e.fmt
  BY <1>2, <1>6, EmptyBucket
<1> HIDE DEF b
<1>8. ~OutOfPlace(e.c, e.fmt) /\ ~MergesInto(ch, e.fmt)
  <2>1. CASE channels[e.c] = None
    <3>1. e.fmt = 0
      BY <1>2, <1>6, <2>1
    <3>. QED  BY <2>1, <3>1 DEF OutOfPlace, MergesInto
  <2>2. CASE channels[e.c] # None
    <3>1. channels[e.c] = ch
      BY <1>1, <2>2 DEF Target
    <3>. QED  BY <1>2, <2>2, <3>1 DEF OutOfPlace, MergesInto
  <2>. QED  BY <2>1, <2>2
<1>9. /\ current_channel' = e.c
      /\ IF h.delta = X
         THEN /\ state' = "time" /\ current_chunk' = b
              /\ channels' = [channels EXCEPT ![e.c] = [ch EXCEPT !.header = h]]
              /\ UNCHANGED want
         ELSE /\ AskPayload([ch EXCEPT !.header = AddDelta(h)], b)
              /\ channels' = [channels EXCEPT ![e.c] = [ch EXCEPT !.header = AddDelta(h)]]
  <2>1. TakeHeader(b, p)
    BY DEF b
  <2>2. h.len # 0
    BY <1>4, <1>6
  <2>. QED  BY <1>1, <1>3, <1>7, <1>8, <2>1, <2>2 DEF TakeHeader, Target
<1>10. h.delta = X <=> AfterHeader(e) = "time"
  <2>1. Least(T, X) = X <=> T >= X
    BY <1>4, <1>6 DEF Least
  <2>. QED  BY <1>4, <1>6, <2>1 DEF AfterHeader
<1>11. CASE h.delta = X
  <2>1. PICK new : new = [ch EXCEPT !.header = h]
    OBVIOUS
  <2>2. new.header = h /\ new.chain = <<>> /\ new \in ChannelState
    BY <1>2, <1>4, <2>1 DEF ChannelState, HeaderState
  <2>3. \A d \in Channel : channels'[d] = IF d = e.c THEN new ELSE channels[d]
    BY <1>9, <1>11, <2>1 DEF TypeOK
  <2>4. PICK g : g = At(e, "time")
    OBVIOUS
  <2>5. /\ g.stage = "time" /\ g.c = e.c /\ g.m = e.m /\ g.fmt = e.fmt
        /\ g.peer = e.peer /\ g.size = e.size
    BY <1>5, <2>4, AtFields
  <2>6. ASSUME NEW d \in Channel, d # g.c
        PROVE  Matches(channels[d], g.peer[d], g.size)'
    <3>1. Matches(channels[d], e.peer[d], e.size)
      BY <1>5, <2>5, <2>6 DEF Reads, Heading
    <3>. QED  BY <2>3, <2>5, <2>6, <3>1
  <2>7. /\ state' = "time" /\ current_chunk' = b /\ current_channel' = e.c
        /\ UNCHANGED want /\ channels'[g.c] = new
    BY <1>2, <1>9, <1>11, <2>3, <2>5
  <2>8. Reads(g)'
    <3>1. b = Bucket(g.c, g.fmt)
      BY <2>5 DEF b
    <3>2. /\ h.type = g.m.type /\ h.len = g.m.len /\ h.recv = 0
          /\ h.ts = IF g.fmt = 0 \/ g.peer[g.c].last = None THEN 0 ELSE g.peer[g.c].last.ts
      BY <1>4, <2>5
    <3>. QED  BY <1>2, <1>7, <2>2, <2>5, <2>6, <2>7, <3>1, <3>2 DEF Reads
  <2>9. want' \in Nat
    BY <2>7 DEF TypeOK
  <2>. QED  BY <1>10, <1>11, <2>4, <2>7, <2>8, <2>9
<1>12. CASE h.delta # X
  <2>1. PICK new : new = [ch EXCEPT !.header = AddDelta(h)]
    OBVIOUS
  <2>2. h.delta = IF e.fmt = 3 THEN 0 ELSE T
    BY <1>4, <1>6, <1>12 DEF Least
  <2>3. /\ AddDelta(h) \in HeaderState /\ AddDelta(h).ts = e.m.ts
        /\ AddDelta(h).type = h.type /\ AddDelta(h).len = h.len /\ AddDelta(h).recv = h.recv
    BY <1>4, <1>5, <2>2, TimeAdded
  <2>4. new.header = AddDelta(h) /\ new.chain = <<>> /\ new \in ChannelState
    BY <1>2, <2>1, <2>3 DEF ChannelState, HeaderState
  <2>5. /\ state' = "payload" /\ current_chunk' = b /\ current_channel' = e.c
        /\ want' = expect_payload_len(new.header, chunk_size)
        /\ channels' = [channels EXCEPT ![e.c] = new]
    BY <1>9, <1>12, <2>1 DEF AskPayload
  <2>6. Reads(At(e, "payload"))' /\ want' \in Nat
    <3>1. /\ Len(new.chain) = 0 /\ \A k \in 1..Len(new.chain) : Whole(new.chain[k])
          /\ Len(new.chain) * DEFAULT_CHUNK_BUCKET_SIZE + b.fill = new.header.recv
      <4>1. Len(new.chain) = 0
        BY <2>4
      <4>2. new.header.recv = 0 /\ 0 * DEFAULT_CHUNK_BUCKET_SIZE + 0 = 0
        BY <1>4, <2>3, <2>4, Sizes
      <4>. QED  BY <1>7, <4>1, <4>2
    <3>2. new.header.recv = e.m.len - e.left
      BY <1>4, <1>6, <2>3, <2>4
    <3>3. /\ new.header.type = e.m.type /\ new.header.len = e.m.len
          /\ new.header.ts = e.m.ts
      BY <1>4, <2>3, <2>4
    <3>4. new \in ChannelState /\ (new.chain # <<>> => Head(new.chain).val = e.m.val)
          /\ b \in BucketState /\ b.fill \in Nat /\ Room(b, e.size)
      BY <1>7, <2>4
    <3>. QED  BY <2>5, <3>1, <3>2, <3>3, <3>4, HeadingIsGood, AsksPayload
  <2>7. AfterHeader(e) = "payload"
    BY <1>10, <1>12 DEF AfterHeader
  <2>. QED  BY <2>5, <2>6, <2>7
<1>. QED  BY <1>11, <1>12

\* A header that is fine, or none where none is due.
LEMMA GoodIsTaken ==
  ASSUME TypeOK, NEW e, NEW p, Heading(e, p), ~e.bad,
         TakeHeader(Bucket(e.c, e.fmt), p), UNCHANGED chunk_size
  PROVE  /\ Reads(At(e, AfterHeader(e)))' /\ want' \in Nat /\ state' = AfterHeader(e)
<1>1. CASE e.peer[e.c].left = 0
  BY <1>1, BeginsMessage
<1>2. CASE e.peer[e.c].left # 0
  <2>1. AfterHeader(e) = "payload"
    BY <1>2, GoingOn DEF AfterHeader
  <2>2. CASE MergesInto(channels[e.c], 3)
    BY <1>2, <2>1, <2>2, MergesOn
  <2>3. CASE ~MergesInto(channels[e.c], 3)
    BY <1>2, <2>1, <2>3, OpensBucket
  <2>. QED  BY <2>2, <2>3
<1>. QED  BY <1>1, <1>2

-----------------------------------------------------------------------------
(* The steps of the reader. *)

\* Nothing has been added to a message.
OnlyHeader ==
  /\ state' = "closed" => peer_state = "broken"
  /\ UNCHANGED history

\* The reader takes a step to the next part of a chunk.
LEMMA NextPart ==
  ASSUME NEW e, NEW f, Joins(e, f), wire # <<>>, e.stage # "payload", wire' = Tail(wire),
         Reads(At(e, NextStage(e)))', UNCHANGED <<peerVars, history>>,
         peer_state \in {"sending", "broken"}
  PROVE  Joined'
<1>1. PICK g : Follows(e, g) /\ PathFrom(Tail(wire), g, f)
  BY PathPop DEF Joins
<1>2. g = At(e, NextStage(e))
  BY <1>1 DEF Follows, At
<1>3. StandOK(e)
  BY PathEnds DEF Joins
<1>4. g.rest = e.rest
  BY <1>2, <1>3 DEF At, StandOK, Stand
<1>5. g.rest = flight'
  BY <1>4 DEF Joins, history
<1>. QED  BY <1>1, <1>2, <1>5, ReaderGoes DEF Joins

\* A header has come, or the basic header of a chunk without one.
LEMMA HeaderTaken ==
  ASSUME TypeOK, NEW e, NEW f, NEW p, Joins(e, f), Heading(e, p), wire # <<>>,
         ~e.bad => NextStage(e) = AfterHeader(e), wire' = Tail(wire),
         TakeHeader(Bucket(e.c, e.fmt), p),
         UNCHANGED <<chunk_size, peerVars, appVars, history>>,
         peer_state \in {"sending", "broken"}
  PROVE  Joined' /\ OnlyHeader
<1>1. CASE e.bad
  <2>1. Close
    BY <1>1, BadIsCut
  <2>2. /\ state' = "closed" /\ UNCHANGED want /\ channels' = [d \in Channel |-> None]
    BY <2>1 DEF Close
  <2>3. f.bad
    BY <1>1, PathPop DEF Joins
  <2>4. peer_state = "broken"
    BY <2>3 DEF Joins, Ended, Now
  <2>. QED  BY <2>2, <2>4 DEF OnlyHeader, Joined
<1>2. CASE ~e.bad
  <2>1. /\ Reads(At(e, AfterHeader(e)))' /\ want' \in Nat /\ state' = AfterHeader(e)
    BY <1>2, GoodIsTaken
  <2>2. state' \in {"time", "payload"}
    BY <2>1 DEF AfterHeader
  <2>3. Reads(At(e, NextStage(e)))'
    BY <1>2, <2>1
  <2>4. e.stage # "payload"
    BY DEF Heading
  <2>5. Joined'
    BY <2>3, <2>4, NextPart
  <2>. QED  BY <2>2, <2>5 DEF OnlyHeader
<1>. QED  BY <1>1, <1>2

\* The next part, as the stand tells it.
LEMMA PartNext ==
  ASSUME NEW e, NEW f, Joins(e, f), wire # <<>>
  PROVE  /\ Coming(e) /\ Says(Head(wire), e) /\ StandOK(e) /\ state = e.stage
         /\ e.stage # "over" /\ Reads(e) /\ e.c \in Channel /\ e.c # None
         /\ e.fmt \in 0..3 /\ e.bad \in BOOLEAN
<1>1. Coming(e) /\ Says(Head(wire), e) /\ StandOK(e)
  BY PathPop, PathEnds DEF Joins
<1>2. e.c \in Channel /\ e.fmt \in 0..3 /\ e.bad \in BOOLEAN
  BY <1>1 DEF StandOK, Stand
<1>. QED  BY <1>1, <1>2, ChannelAssumption DEF Joins, Reads

\* The cid is known and a header follows, or the rest of the cid.
LEMMA CidRead ==
  ASSUME NEW e, NEW f, Joins(e, f), wire # <<>>, e.stage \in {"basic", "ext_basic"},
         NEW s \in {"ext_basic", "header"}, NextStage(e) = s, state' = s,
         current_chunk' = Bucket(IF s = "header" THEN e.c ELSE None, e.fmt),
         UNCHANGED <<channels, chunk_size>>
  PROVE  Reads(At(e, NextStage(e)))'
<1>1. PICK g : g = At(e, s)
  OBVIOUS
<1>2. StandOK(e) /\ Reads(e)
  BY PartNext
<1>3. /\ g.stage = s /\ g.c = e.c /\ g.fmt = e.fmt /\ g.peer = e.peer /\ g.size = e.size
  BY <1>1, <1>2, AtFields
<1>4. \A d \in Channel : Matches(channels[d], e.peer[d], e.size)
  BY <1>2 DEF Reads
<1>5. \A d \in Channel : Matches(channels[d], g.peer[d], g.size)'
  BY <1>3, <1>4
<1>6. chunk_size = e.size
  BY <1>2 DEF Reads
<1>7. Reads(g)'
  BY <1>3, <1>5, <1>6 DEF Reads
<1>. QED  BY <1>1, <1>7

\* Reading a basic header keeps the reader on the path, and touches no bucket.
LEMMA ReadBasicKeeps ==
  ASSUME TypeOK, Joined, ReadBasic
  PROVE  Joined' /\ OnlyHeader
<1>1. /\ wire # <<>> /\ state = "basic" /\ wire' = Tail(wire)
      /\ UNCHANGED <<chunk_size, peerVars, appVars, history>>
  BY DEF ReadBasic, Next_is
<1>2. PICK e, f : Joins(e, f)
  BY <1>1 DEF Joined
<1>3. peer_state \in {"sending", "broken"}
  BY <1>1 DEF Joined
<1>4. /\ Coming(e) /\ Says(Head(wire), e) /\ StandOK(e) /\ e.stage = "basic"
      /\ Reads(e) /\ e.c \in Channel /\ e.c # None /\ e.fmt \in 0..3 /\ e.bad \in BOOLEAN
  BY <1>1, <1>2, PartNext
<1>5. Head(wire) = [part |-> "basic", cid |-> IF e.c \in ExtendedCid THEN None ELSE e.c,
                    fmt |-> e.fmt]
  BY <1>4 DEF Says
<1>6. CASE e.c \notin ExtendedCid /\ e.fmt = 3
  <2>1. TakeHeader(Bucket(e.c, e.fmt), None)
    BY <1>4, <1>5, <1>6 DEF ReadBasic
  <2>2. Heading(e, None)
    BY <1>4, <1>6 DEF Heading
  <2>3. ~e.bad => NextStage(e) = AfterHeader(e)
    BY <1>4, <1>6 DEF NextStage, AfterHeader, AfterCid
  <2>. QED  BY <1>1, <1>2, <1>3, <2>1, <2>2, <2>3, HeaderTaken
<1>7. CASE ~(e.c \notin ExtendedCid /\ e.fmt = 3)
  <2> DEFINE s == IF e.c \in ExtendedCid THEN "ext_basic" ELSE "header"
  <2>1. NextStage(e) = s
    BY <1>4, <1>7 DEF NextStage, AfterCid
  <2>2. /\ state' = s
        /\ current_chunk' = Bucket(IF s = "header" THEN e.c ELSE None, e.fmt)
        /\ UNCHANGED <<want, current_channel, channels>>
    BY <1>4, <1>5, <1>7 DEF ReadBasic
  <2>3. s \in {"ext_basic", "header"}
    OBVIOUS
  <2> HIDE DEF s
  <2>4. Reads(At(e, NextStage(e)))'
    BY <1>1, <1>2, <1>4, <2>1, <2>2, <2>3, CidRead
  <2>5. Joined'
    BY <1>1, <1>2, <1>3, <1>4, <2>4, NextPart
  <2>6. state' # "closed"
    BY <2>2, <2>3
  <2>. QED  BY <1>1, <2>5, <2>6 DEF OnlyHeader
<1>. QED  BY <1>6, <1>7

\* Reading the second part of an extended id does the same.
LEMMA ReadExtBasicKeeps ==
  ASSUME TypeOK, Joined, ReadExtBasic
  PROVE  Joined' /\ OnlyHeader
<1>1. /\ wire # <<>> /\ state = "ext_basic" /\ wire' = Tail(wire)
      /\ UNCHANGED <<chunk_size, peerVars, appVars, history>>
  BY DEF ReadExtBasic, Next_is
<1>2. PICK e, f : Joins(e, f)
  BY <1>1 DEF Joined
<1>3. peer_state \in {"sending", "broken"}
  BY <1>1 DEF Joined
<1>4. /\ Coming(e) /\ Says(Head(wire), e) /\ StandOK(e) /\ e.stage = "ext_basic"
      /\ Reads(e) /\ e.c \in Channel /\ e.fmt \in 0..3 /\ e.bad \in BOOLEAN
  BY <1>1, <1>2, PartNext
<1>5. Head(wire).cid = e.c /\ current_chunk = Bucket(None, e.fmt)
  BY <1>4 DEF Says, Reads
<1>6. [current_chunk EXCEPT !.cid = Head(wire).cid] = Bucket(e.c, e.fmt)
      /\ Bucket(e.c, e.fmt).fmt = e.fmt
  BY <1>5 DEF Bucket
<1>7. CASE e.fmt = 3
  <2>1. TakeHeader(Bucket(e.c, e.fmt), None)
    BY <1>6, <1>7 DEF ReadExtBasic
  <2>2. Heading(e, None)
    BY <1>4, <1>7 DEF Heading
  <2>3. ~e.bad => NextStage(e) = AfterHeader(e)
    BY <1>4, <1>7 DEF NextStage, AfterHeader, AfterCid
  <2>. QED  BY <1>1, <1>2, <1>3, <2>1, <2>2, <2>3, HeaderTaken
<1>8. CASE e.fmt # 3
  <2>1. NextStage(e) = "header"
    BY <1>4, <1>8 DEF NextStage, AfterCid
  <2>2. /\ state' = "header" /\ current_chunk' = Bucket(e.c, e.fmt)
        /\ UNCHANGED <<want, current_channel, channels>>
    BY <1>6, <1>8 DEF ReadExtBasic
  <2>3. Reads(At(e, NextStage(e)))'
    BY <1>1, <1>2, <1>4, <2>1, <2>2, CidRead
  <2>4. Joined'
    BY <1>1, <1>2, <1>3, <1>4, <2>3, NextPart
  <2>. QED  BY <1>1, <2>2, <2>4 DEF OnlyHeader
<1>. QED  BY <1>7, <1>8

\* So does reading a message header.
LEMMA ReadHeaderKeeps ==
  ASSUME TypeOK, Joined, ReadHeader
  PROVE  Joined' /\ OnlyHeader
<1>1. /\ wire # <<>> /\ state = "header" /\ wire' = Tail(wire)
      /\ UNCHANGED <<chunk_size, peerVars, appVars, history>>
      /\ TakeHeader(current_chunk, Head(wire))
  BY DEF ReadHeader, Next_is
<1>2. PICK e, f : Joins(e, f)
  BY <1>1 DEF Joined
<1>3. peer_state \in {"sending", "broken"}
  BY <1>1 DEF Joined
<1>4. /\ Coming(e) /\ Says(Head(wire), e) /\ StandOK(e) /\ e.stage = "header"
      /\ Reads(e) /\ e.c \in Channel /\ e.fmt \in 0..3 /\ e.bad \in BOOLEAN
  BY <1>1, <1>2, PartNext
<1>5. TakeHeader(Bucket(e.c, e.fmt), Head(wire))
  BY <1>1, <1>4 DEF Reads
<1>6. e.fmt # 3
  BY <1>4 DEF Coming, GoodChunk, BadChunk
<1>7. Heading(e, Head(wire))
  BY <1>4, <1>6 DEF Heading
<1>8. ~e.bad => NextStage(e) = AfterHeader(e)
  BY <1>4, <1>6 DEF NextStage, AfterHeader
<1>. QED  BY <1>1, <1>2, <1>3, <1>5, <1>7, <1>8, HeaderTaken

\* So does reading an extended timestamp.
LEMMA ReadTimeKeeps ==
  ASSUME TypeOK, Joined, ReadTime
  PROVE  Joined' /\ OnlyHeader
<1>1. /\ wire # <<>> /\ state = "time" /\ wire' = Tail(wire)
      /\ UNCHANGED <<current_channel, chunk_size, peerVars, appVars, history>>
  BY DEF ReadTime, Next_is
<1>2. PICK e, f : Joins(e, f)
  BY <1>1 DEF Joined
<1>3. peer_state \in {"sending", "broken"}
  BY <1>1 DEF Joined
<1>4. /\ Coming(e) /\ Says(Head(wire), e) /\ StandOK(e) /\ e.stage = "time"
      /\ Reads(e) /\ e.c \in Channel /\ e.fmt \in 0..3 /\ e.bad \in BOOLEAN
  BY <1>1, <1>2, PartNext
<1>5. GoodChunk(e) /\ ~e.bad
  BY <1>4 DEF Coming, BadChunk
<1>6. PICK ch : ch = channels[e.c]
  OBVIOUS
<1>7. /\ ch \in ChannelState /\ ch.chain = <<>>
      /\ current_chunk = Bucket(e.c, e.fmt) /\ current_channel = e.c
      /\ ch.header.type = e.m.type /\ ch.header.len = e.m.len /\ ch.header.recv = 0
      /\ ch.header.ts = IF e.fmt = 0 \/ e.peer[e.c].last = None THEN 0
                        ELSE e.peer[e.c].last.ts
  BY <1>4, <1>6 DEF Reads
<1>8. e.fmt # 3 /\ Head(wire).time = HeaderTime(e)
  BY <1>4, <1>5 DEF GoodChunk, Says
<1>9. e.peer[e.c].left = 0 /\ e.left = e.m.len
  BY <1>5, <1>8 DEF GoodChunk
<1>10. HeaderTime(e) \in Nat /\ e.size \in Nat /\ e.m.len \in Nat
  <2>1. e.step \in Nat /\ e.size \in Nat /\ e.m \in Message
    BY <1>4, <1>5 DEF StandOK, Stand, GoodChunk
  <2>2. e.m.ts \in Nat /\ e.m.len \in Nat
    BY <2>1, Sizes
  <2>. QED  BY <2>1, <2>2 DEF HeaderTime
<1>11. ch.header \in HeaderState
  BY <1>7 DEF ChannelState, HeaderState
<1>12. PICK h : h = [ch.header EXCEPT !.delta = HeaderTime(e)]
  OBVIOUS
<1>13. /\ h \in HeaderState /\ h.type = e.m.type /\ h.len = e.m.len /\ h.recv = 0
       /\ h.ts = ch.header.ts /\ h.delta = HeaderTime(e)
  BY <1>7, <1>10, <1>11, <1>12 DEF HeaderState
<1>14. PICK k : k = AddDelta(h)
  OBVIOUS
<1>15. /\ k \in HeaderState /\ k.ts = e.m.ts /\ k.type = h.type /\ k.len = h.len
       /\ k.recv = h.recv
  BY <1>4, <1>5, <1>7, <1>8, <1>9, <1>13, <1>14, TimeAdded
<1>16. PICK new : new = [ch EXCEPT !.header = k]
  OBVIOUS
<1>17. new.header = k /\ new.chain = <<>> /\ new \in ChannelState
  BY <1>7, <1>15, <1>16 DEF ChannelState, HeaderState
<1> DEFINE b == Bucket(e.c, e.fmt)
<1>18. /\ state' = "payload" /\ current_channel' = e.c /\ current_chunk' = b
       /\ want' = expect_payload_len(new.header, chunk_size)
       /\ channels' = [channels EXCEPT ![e.c] = new]
  <2>1. AddDelta([ch.header EXCEPT !.delta = Head(wire).time]) = k
    BY <1>8, <1>12, <1>14
  <2>2. AskPayload(new, current_chunk) /\ channels' = [channels EXCEPT ![e.c] = new]
    BY <1>6, <1>7, <1>16, <2>1 DEF ReadTime
  <2>. QED  BY <1>1, <1>7, <2>2 DEF AskPayload
<1>19. b \in BucketState /\ b.fill = 0 /\ Room(b, e.size)
  BY <1>4, <1>10, EmptyBucket
<1> HIDE DEF b
<1>20. Reads(At(e, "payload"))' /\ want' \in Nat
  <2>1. new.header.recv = 0 /\ e.m.len - e.left = 0 /\ Len(new.chain) = 0
    BY <1>9, <1>10, <1>13, <1>15, <1>17
  <2>2. 0 * DEFAULT_CHUNK_BUCKET_SIZE + 0 = 0
    BY Sizes
  <2>3. /\ \A i \in 1..Len(new.chain) : Whole(new.chain[i])
        /\ Len(new.chain) * DEFAULT_CHUNK_BUCKET_SIZE + b.fill = new.header.recv
        /\ new.header.recv = e.m.len - e.left
        /\ b.fill \in Nat /\ (new.chain # <<>> => Head(new.chain).val = e.m.val)
    BY <1>17, <1>19, <2>1, <2>2
  <2>4. /\ new.header.type = e.m.type /\ new.header.len = e.m.len
        /\ new.header.ts = e.m.ts /\ new \in ChannelState
    BY <1>13, <1>15, <1>17
  <2>5. e.stage # "payload"
    BY <1>4
  <2>. QED  BY <1>1, <1>4, <1>5, <1>18, <1>19, <2>3, <2>4, <2>5, AsksPayload
<1>21. Joined'
  <2>1. NextStage(e) = "payload" /\ e.stage # "payload"
    BY <1>4 DEF NextStage
  <2>. QED  BY <1>1, <1>2, <1>3, <1>20, <2>1, NextPart
<1>. QED  BY <1>1, <1>18, <1>21 DEF OnlyHeader

\* A payload that does not end its message, and one that does.
GoesOn(e) ==
  /\ channels' = [channels EXCEPT ![e.c] = Grown(FALSE)]
  /\ state' # "closed" /\ UNCHANGED history
Delivers(e) ==
  /\ want = e.n /\ Ends(e)
  /\ channels' = [channels EXCEPT ![e.c] = Restarted(Grown(TRUE).header)]
  /\ handed' = Whole_message(e) /\ flight' = [flight EXCEPT ![e.c] = Tail(@)]
  /\ flight[e.c] # <<>> /\ Head(flight[e.c]) = e.m
  /\ state' = "closed" => e.c = ControlCid /\ ~SizeOK(e.m.val)

\* case CHUNK_STATE_READ_MESSAGE_DATA.
LEMMA ReadPayloadKeeps ==
  ASSUME TypeOK, Joined, ReadPayload
  PROVE  \E e, f : /\ Paying(e, f)
                   /\ GoesOn(e) \/ Delivers(e)
                   /\ Joined'
<1>1. state = "payload" /\ Next_is("payload")
  BY DEF ReadPayload, Next_is
<1>2. PICK e, f : Joins(e, f)
  BY <1>1 DEF Joined
<1>3. peer_state \in {"sending", "broken"}
  BY <1>1 DEF Joined
<1>4. Paying(e, f)
  BY <1>1, <1>2, PayloadNext
<1>5. ~e.bad /\ StandOK(e) /\ GoodChunk(e) /\ e.c \in Channel /\ e.m \in Message
  BY <1>4 DEF Paying, GoodChunk
<1>6. CASE ~(want = e.n /\ Ends(e))
  <2>1. Joined' /\ state' \in {"payload", "basic"} /\ want' \in Nat
    <3>1. CASE want # e.n
      BY <1>3, <1>4, <1>5, <3>1, PayloadGoesOn
    <3>2. CASE want = e.n
      BY <1>3, <1>4, <1>6, <3>2, PayloadEndsChunk
    <3>. QED  BY <3>1, <3>2
  <2>2. /\ channels' = [channels EXCEPT ![e.c] = Grown(FALSE)]
        /\ UNCHANGED <<history, chunk_size>>
    BY <1>4, <1>6, PayloadWithin
  <2>3. GoesOn(e)
    BY <2>1, <2>2 DEF GoesOn
  <2>. QED  BY <1>4, <2>1, <2>3
<1>7. CASE want = e.n /\ Ends(e)
  <2>1. /\ Joined' /\ state' \in {"basic", "closed"} /\ want' \in Nat
        /\ Restarted(Grown(TRUE).header) \in ChannelState
        /\ flight[e.c] # <<>> /\ Head(flight[e.c]) = e.m
        /\ state' = "closed" => e.c = ControlCid /\ ~SizeOK(e.m.val)
    BY <1>3, <1>4, <1>7, PayloadEndsMessage
  <2>2. /\ channels' = [channels EXCEPT ![e.c] = Restarted(Grown(TRUE).header)]
        /\ handed' = Whole_message(e)
        /\ flight' = [flight EXCEPT ![e.c] = Tail(@)]
        /\ chunk_size' = SizeAfter(e)
    BY <1>4, <1>7, PayloadAtEnd
  <2>3. Delivers(e)
    BY <1>7, <2>1, <2>2 DEF Delivers
  <2>. QED  BY <1>4, <2>1, <2>3
<1>. QED  BY <1>6, <1>7

-----------------------------------------------------------------------------
(* The steps of the peer. *)

\* Where the reader stands does not depend on what is to be finished later.
LEMMA ReadsSame ==
  ASSUME NEW e, NEW g, Reads(e), UNCHANGED readVars,
         \/ Between(e, g)
         \/ /\ g.stage = e.stage /\ g.c = e.c /\ g.fmt = e.fmt /\ g.m = e.m
            /\ g.left = e.left /\ g.n = e.n /\ g.peer = e.peer /\ g.size = e.size
  PROVE  Reads(g)'
<1>1. Reads(g)
  <2>1. CASE Between(e, g)
    BY <2>1 DEF Between, Reads
  <2>2. CASE /\ g.stage = e.stage /\ g.c = e.c /\ g.fmt = e.fmt /\ g.m = e.m
             /\ g.left = e.left /\ g.n = e.n /\ g.peer = e.peer /\ g.size = e.size
    <3>1. ChunkLen(g) = ChunkLen(e)
      BY <2>2 DEF ChunkLen
    <3>. QED  BY <2>2, <3>1 DEF Reads, Receives
  <2>. QED  BY <2>1, <2>2
<1>. QED  BY <1>1 DEF Reads, Receives, readVars

\* When the peer is sending, it stands where the wire ends.
LEMMA PeerNow ==
  ASSUME NEW e, NEW f, Joins(e, f), peer_state = "sending"
  PROVE  /\ Now(f) /\ StandOK(e) /\ StandOK(f) /\ f \in Stand /\ e \in Stand
         /\ peer \in [Channel -> [last : Message \cup {None}, msg : Message \cup {None},
                                  left : Nat]]
         /\ peer_size \in PeerSizes \cup {DEFAULT_CHUNK_SIZE} /\ SizeOK(peer_size)
         /\ peer_size \in Nat \ {0}
         /\ \A d \in Channel : SentRight(d, peer[d], peer_size)
         /\ flight \in [Channel -> Seq(Message)]
<1>1. Now(f) /\ StandOK(e) /\ StandOK(f)
  BY PathEnds DEF Joins, Ended
<1>2. f \in Stand /\ e \in Stand /\ e.rest = flight
  BY <1>1 DEF StandOK, Joins
<1>3. /\ f.peer \in [Channel -> [last : Message \cup {None}, msg : Message \cup {None},
                                 left : Nat]]
      /\ e.rest \in [Channel -> Seq(Message)]
  BY <1>2 DEF Stand
<1>4. f.peer = peer /\ f.size = peer_size
  BY <1>1 DEF Now
<1>5. /\ peer_size \in PeerSizes \cup {DEFAULT_CHUNK_SIZE} /\ SizeOK(peer_size)
      /\ \A d \in Channel : SentRight(d, peer[d], peer_size)
  BY <1>1, <1>4 DEF StandOK
<1>6. peer_size \in Nat \ {0}
  BY <1>5, Sizes DEF SizeOK
<1>. QED  BY <1>1, <1>2, <1>3, <1>4, <1>5, <1>6

\* The stand before a chunk that the peer is about to send.
NewChunk(c, fmt, m, step, left, bad, rest) ==
  [stage |-> "basic", c |-> c, fmt |-> fmt, m |-> m, step |-> step, left |-> left,
   n |-> Least(left, peer_size), bad |-> bad, peer |-> peer, size |-> peer_size,
   rest |-> rest]

\* It is a stand, and what is on the wire leads there.
LEMMA WireToChunk ==
  ASSUME NEW e, NEW f, PathFrom(wire, e, f), Reads(e), Now(f), f \in Stand,
         UNCHANGED readVars,
         NEW g, StandOK(g), g.stage = "basic", g.peer = peer, g.size = peer_size,
         g.rest = f.rest
  PROVE  \E h : PathFrom(wire, h, g) /\ Reads(h)' /\ h.rest = e.rest
<1>1. Between(f, g) /\ ~f.bad
  BY DEF Between, Now
<1>2. PICK h : PathFrom(wire, h, g) /\ (h = e \/ Between(e, h))
  BY <1>1, PathRetarget
<1>3. Reads(h)'
  BY <1>2, ReadsSame
<1>4. h.rest = e.rest
  BY <1>2 DEF Between
<1>. QED  BY <1>2, <1>3, <1>4

\* What a chunk lets the reader finish.
Finishes(c, m, left) ==
  [d \in Channel |-> IF left <= peer_size /\ d = c THEN <<m>> ELSE <<>>]

\* The fields of the stand before a chunk.
LEMMA NewChunkIs ==
  ASSUME NEW e, NEW f, Joins(e, f), peer_state = "sending",
         NEW c \in Channel, NEW fmt \in 0..3, NEW m \in Message \cup {None}, NEW step \in Nat,
         NEW left \in Nat, NEW bad \in BOOLEAN, NEW rest \in [Channel -> Seq(Message)]
  PROVE  LET g == NewChunk(c, fmt, m, step, left, bad, rest) IN
         /\ StandOK(g) /\ g.stage = "basic" /\ g.c = c /\ g.fmt = fmt /\ g.m = m
         /\ g.step = step /\ g.left = left /\ g.n = Least(left, peer_size)
         /\ g.bad = bad /\ g.peer = peer /\ g.size = peer_size /\ g.rest = rest
         /\ ChunkLen(g) = Least(left, peer_size) /\ (Ends(g) <=> left <= peer_size)
<1> DEFINE g == NewChunk(c, fmt, m, step, left, bad, rest)
<1>1. /\ g.stage = "basic" /\ g.c = c /\ g.fmt = fmt /\ g.m = m
      /\ g.step = step /\ g.left = left /\ g.n = Least(left, peer_size)
      /\ g.bad = bad /\ g.peer = peer /\ g.size = peer_size /\ g.rest = rest
  BY DEF NewChunk
<1>2. /\ peer \in [Channel -> [last : Message \cup {None}, msg : Message \cup {None},
                               left : Nat]]
      /\ peer_size \in PeerSizes \cup {DEFAULT_CHUNK_SIZE} /\ SizeOK(peer_size)
      /\ peer_size \in Nat \ {0}
      /\ \A d \in Channel : SentRight(d, peer[d], peer_size)
  BY PeerNow
<1>3. Least(left, peer_size) \in Nat
  BY <1>2, LeastIs
<1>4. g \in Stand
  BY <1>2, <1>3 DEF NewChunk, Stand
<1> HIDE DEF g
<1>5. StandOK(g)
  BY <1>1, <1>2, <1>4 DEF StandOK
<1>6. ChunkLen(g) = Least(left, peer_size) /\ (Ends(g) <=> left <= peer_size)
  BY <1>1 DEF ChunkLen, Ends
<1>. QED  BY <1>1, <1>5, <1>6 DEF g

\* What is used of it for a chunk of any kind.
LEMMA NewChunkStands ==
  ASSUME NEW e, NEW f, Joins(e, f), peer_state = "sending",
         NEW c \in Channel, NEW fmt \in 0..3, NEW m \in Message \cup {None}, NEW step \in Nat,
         NEW left \in Nat, NEW bad \in BOOLEAN, NEW rest \in [Channel -> Seq(Message)]
  PROVE  StandOK(NewChunk(c, fmt, m, step, left, bad, rest))
BY NewChunkIs

\* The peer has sent a chunk that follows the format.
LEMMA ChunkSent ==
  ASSUME TypeOK, NEW e, NEW f, Joins(e, f), peer_state = "sending",
         NEW c \in Channel, NEW fmt \in 0..3, NEW m \in Message, NEW step \in Nat,
         NEW left \in Nat,
         GoodChunk(NewChunk(c, fmt, m, step, left, FALSE, Finishes(c, m, left))),
         wire' = wire \o Chunk(c, fmt, m, step, left), Sent(c, m, left, FALSE),
         UNCHANGED <<peer_state, readVars>>
  PROVE  Joined'
<1> DEFINE ends == left <= peer_size
<1>1. PICK rest : rest = Finishes(c, m, left)
  OBVIOUS
<1>2. PICK g : g = NewChunk(c, fmt, m, step, left, FALSE, rest)
  OBVIOUS
<1>3. rest \in [Channel -> Seq(Message)]
  <2>1. <<m>> \in Seq(Message) /\ <<>> \in Seq(Message)
    OBVIOUS
  <2>. QED  BY <1>1, <2>1 DEF Finishes
<1>4. /\ StandOK(g) /\ g.stage = "basic" /\ g.c = c /\ g.fmt = fmt /\ g.m = m
      /\ g.step = step /\ g.left = left /\ g.n = Least(left, peer_size)
      /\ g.bad = FALSE /\ g.peer = peer /\ g.size = peer_size /\ g.rest = rest
      /\ ChunkLen(g) = Least(left, peer_size) /\ (Ends(g) <=> ends)
  <2>1. PICK no \in BOOLEAN : no = FALSE
    OBVIOUS
  <2>2. m \in Message \cup {None} /\ g = NewChunk(c, fmt, m, step, left, no, rest)
    BY <1>2, <2>1
  <2>3. /\ StandOK(g) /\ g.stage = "basic" /\ g.c = c /\ g.fmt = fmt /\ g.m = m
        /\ g.step = step /\ g.left = left /\ g.n = Least(left, peer_size)
        /\ g.bad = no /\ g.peer = peer /\ g.size = peer_size /\ g.rest = rest
        /\ ChunkLen(g) = Least(left, peer_size) /\ (Ends(g) <=> left <= peer_size)
    BY <1>3, <2>2, NewChunkIs
  <2>. QED  BY <2>1, <2>3
<1>5. GoodChunk(g)
  BY <1>1, <1>2
<1>6. /\ Now(f) /\ StandOK(e) /\ StandOK(f) /\ f \in Stand /\ e \in Stand
      /\ peer \in [Channel -> [last : Message \cup {None}, msg : Message \cup {None},
                               left : Nat]]
      /\ peer_size \in Nat \ {0} /\ flight \in [Channel -> Seq(Message)]
  BY PeerNow
<1>7. PathFrom(wire, e, f) /\ Reads(e) /\ e.rest = flight /\ UNCHANGED readVars
  BY DEF Joins
<1>8. left - Least(left, peer_size) = 0 <=> ends
  BY <1>6 DEF Least
<1>9. \E h : PathFrom(wire, h, g) /\ Reads(h)' /\ h.rest = flight'
  <2>1. CASE ends
    <3>1. PICK e1, f1 : e1 = AddRest(e, c, m) /\ f1 = AddRest(f, c, m)
      OBVIOUS
    <3>2. PathFrom(wire, e1, f1)
      BY <1>7, <3>1, PathRest
    <3>3. /\ f1 \in Stand /\ f1.stage = f.stage /\ f1.peer = f.peer /\ f1.size = f.size
          /\ f1.bad = f.bad /\ f1.rest = [f.rest EXCEPT ![c] = Append(@, m)]
      <4>1. f \in Stand
        BY <1>6
      <4>. QED  BY <3>1, <4>1, AddRestFields
    <3>4. /\ e1.stage = e.stage /\ e1.c = e.c /\ e1.fmt = e.fmt /\ e1.m = e.m
          /\ e1.left = e.left /\ e1.n = e.n /\ e1.peer = e.peer /\ e1.size = e.size
          /\ e1.rest = [e.rest EXCEPT ![c] = Append(@, m)]
      <4>1. e \in Stand
        BY <1>6
      <4>2. LET r == AddRest(e, c, m) IN
            /\ r.stage = e.stage /\ r.c = e.c /\ r.fmt = e.fmt /\ r.m = e.m
            /\ r.left = e.left /\ r.n = e.n /\ r.peer = e.peer /\ r.size = e.size
            /\ r.rest = [e.rest EXCEPT ![c] = Append(@, m)]
        BY <4>1, AddRestFields, SMTT(30)
      <4>. QED  BY <3>1, <4>2, Zenon
    <3>5. f1.rest = rest
      <4>1. Append(<<>>, m) = <<m>>
        OBVIOUS
      <4>2. f.rest = [d \in Channel |-> <<>>]
        BY <1>6 DEF Now
      <4>. QED  BY <1>1, <2>1, <3>3, <4>1, <4>2 DEF Finishes
    <3>6. e1.rest = flight'
      BY <1>7, <1>8, <2>1, <3>4 DEF Sent
    <3>7. Reads(e1)
      <4>1. ChunkLen(e1) = ChunkLen(e)
        BY <3>4 DEF ChunkLen
      <4>. QED  BY <1>7, <3>4, <4>1 DEF Reads, Receives
    <3>8. Between(f1, g) /\ ~f1.bad
      BY <1>4, <1>6, <3>3, <3>5 DEF Between, Now
    <3>9. PICK h : PathFrom(wire, h, g) /\ (h = e1 \/ Between(e1, h))
      BY <1>4, <3>2, <3>8, PathRetarget
    <3>10. h.rest = e1.rest
      BY <3>9 DEF Between
    <3>11. Reads(h)'
      BY <1>7, <3>7, <3>9, ReadsSame
    <3>. QED  BY <3>6, <3>9, <3>10, <3>11
  <2>2. CASE ~ends
    <3>1. f.rest = rest
      BY <1>1, <1>6, <2>2 DEF Finishes, Now
    <3>2. flight' = flight
      BY <1>8, <2>2 DEF Sent
    <3>3. Now(f) /\ f \in Stand /\ e.rest = flight' /\ g.rest = f.rest
      BY <1>4, <1>6, <1>7, <3>1, <3>2
    <3>4. \E h : PathFrom(wire, h, g) /\ Reads(h)' /\ h.rest = e.rest
      BY <1>4, <1>7, <3>3, WireToChunk
    <3>. QED  BY <3>3, <3>4
  <2>. QED  BY <2>1, <2>2
<1>10. PICK h : PathFrom(wire, h, g) /\ Reads(h)' /\ h.rest = flight'
  BY <1>9
<1>11. PICK r, z : r = At(g, "payload") /\ z = AfterChunk(r)
  OBVIOUS
<1>12. Ends(g) => g.rest[g.c] # <<>> /\ Head(g.rest[g.c]) = g.m
  BY <1>1, <1>4 DEF Finishes
<1>13. PathFrom(Chunk(c, fmt, m, step, left), g, z)
  <2>1. PathFrom(Chunk(g.c, g.fmt, g.m, g.step, g.left), g, AfterChunk(At(g, "payload")))
    BY <1>4, <1>5, <1>12, ChunkPath
  <2>. QED  BY <1>4, <1>11, <2>1
<1>14. PathFrom(wire', h, z)
  BY <1>10, <1>13, PathGlue
<1>15. /\ StandOK(r) /\ r.c = c /\ r.m = m /\ r.left = left /\ r.bad = FALSE
       /\ r.peer = peer /\ r.size = peer_size /\ r.rest = rest
       /\ ChunkLen(r) = Least(left, peer_size) /\ (Ends(r) <=> ends)
  BY <1>4, <1>11, AtFields
<1>16. GoodChunk(r)
  BY <1>4, <1>5, <1>11, AtGood
<1>17. /\ StandOK(z) /\ z.stage = "basic" /\ z.peer = PeerAfter(r)
       /\ z.size = SizeAfter(r) /\ z.bad = FALSE /\ z.rest = RestAfter(r)
  <2>1. Ends(r) => r.rest[r.c] # <<>>
    BY <1>4, <1>12, <1>15
  <2>. QED  BY <1>11, <1>15, <1>16, <2>1, AfterOK
<1>18. z.peer = peer'
  BY <1>8, <1>15, <1>17 DEF PeerAfter, Sent
<1>19. z.size = peer_size'
  BY <1>8, <1>15, <1>17 DEF SizeAfter, Resizes, Sent
<1>20. z.rest = [d \in Channel |-> <<>>]
  <2>1. CASE ends
    <3>1. z.rest = [rest EXCEPT ![c] = Tail(@)]
      BY <1>15, <1>17, <2>1 DEF RestAfter
    <3>2. Tail(<<m>>) = <<>>
      OBVIOUS
    <3>. QED  BY <1>1, <2>1, <3>1, <3>2 DEF Finishes
  <2>2. CASE ~ends
    BY <1>1, <1>15, <1>17, <2>2 DEF RestAfter, Finishes
  <2>. QED  BY <2>1, <2>2
<1>21. Now(z)'
  BY <1>17, <1>18, <1>19, <1>20 DEF Now
<1>22. Joins(h, z)'
  BY <1>10, <1>14, <1>17, <1>21 DEF Joins, Ended
<1>. QED  BY <1>22 DEF Joined

\* The numbers of the next chunk.
LEMMA NextLength ==
  ASSUME NEW left \in Nat \ {0}, NEW size \in Nat \ {0}
  PROVE  Least(left, size) \in 1..Least(left, size)
<1>1. Least(left, size) \in Nat /\ Least(left, size) # 0
  BY LeastIs DEF Least
<1>. QED  BY <1>1

\* A header without type and length is of a message like the last.
LEMMA LikeLast ==
  ASSUME NEW m \in Message, NEW last \in Message,
         [m EXCEPT !.ts = last.ts, !.val = last.val] = last
  PROVE  m.type = last.type /\ m.len = last.len
<1> DEFINE r == [m EXCEPT !.ts = last.ts, !.val = last.val]
<1>1. r.type = m.type /\ r.len = m.len
  BY DEF Message
<1>. QED  BY <1>1

\* A chunk that does nothing unforeseen repeats no timestamp, and announces a chunk
\* size only while no other message is under way.
LEMMA NothingUnforeseen ==
  ASSUME NEW c \in Channel, NEW fmt, NEW m, NEW step, NEW left,
         SendsChunk(c, fmt, m, step, left), ~unforeseen'
  PROVE  /\ peer_state = "sending" /\ state # "closed"
         /\ wire' = wire \o Chunk(c, fmt, m, step, left)
         /\ Sent(c, m, left, FALSE)
         /\ left - Least(left, peer_size) = 0 /\ m.type = "set_chunk_size" /\ SizeOK(m.val)
              => \A d \in Channel \ {c} : peer[d].left = 0
<1>1. ~Sent(c, m, left, TRUE)
  BY DEF Sent
<1>2. PeerSends(Chunk(c, fmt, m, step, left)) /\ Sent(c, m, left, FALSE)
  BY <1>1 DEF SendsChunk
<1>. QED  BY <1>2 DEF PeerSends, Sent, Idle

\* The peer begins a message.
LEMMA BeginKeeps ==
  ASSUME TypeOK, Joined, NEW c \in Channel, Begin(c), ~unforeseen'
  PROVE  Joined' /\ peer_state' = peer_state
<1>1. PICK m \in Message, step \in Steps :
        /\ c = ControlCid <=> m.type = "set_chunk_size"
        /\ Idle(c)
        /\ m.ts = ((IF peer[c].last = None THEN 0 ELSE peer[c].last.ts) + step) % Modulus
        /\ \E fmt \in Formats(c, m, step) : SendsChunk(c, fmt, m, step, m.len)
        /\ UNCHANGED <<peer_state, readVars, appVars, handed>>
  BY DEF Begin
<1>2. PICK fmt \in Formats(c, m, step) : SendsChunk(c, fmt, m, step, m.len)
  BY <1>1
<1>3. /\ peer_state = "sending" /\ state # "closed"
      /\ wire' = wire \o Chunk(c, fmt, m, step, m.len) /\ Sent(c, m, m.len, FALSE)
  BY <1>2, NothingUnforeseen
<1>4. PICK e, f : Joins(e, f)
  BY <1>3 DEF Joined
<1>5. /\ peer_size \in Nat \ {0}
      /\ peer \in [Channel -> [last : Message \cup {None}, msg : Message \cup {None},
                               left : Nat]]
  BY <1>3, <1>4, PeerNow
<1>6. m.len \in Nat \ {0} /\ step \in Nat /\ m.type \in {"av", "set_chunk_size"}
  BY Sizes, TimeAssumption
<1>7. peer[c].left = 0
  BY <1>1 DEF Idle
<1>8. m.len <= peer_size /\ m.type = "set_chunk_size" /\ SizeOK(m.val) =>
        \A d \in Channel \ {c} : peer[d].left = 0
  <2>1. m.len <= peer_size => m.len - Least(m.len, peer_size) = 0
    BY <1>5, <1>6 DEF Least
  <2>. QED  BY <1>2, <2>1, NothingUnforeseen
<1> DEFINE last == peer[c].last
<1>10. /\ fmt \in 0..3
       /\ last = None => fmt = 0
       /\ fmt \in {2, 3} => /\ last # None
                            /\ [m EXCEPT !.ts = last.ts, !.val = last.val] = last
       /\ fmt = 3 => step = 0
  BY DEF Formats
<1>11. fmt \in {2, 3} => m.type = last.type /\ m.len = last.len
  <2>1. last # None => last \in Message
    BY <1>5
  <2>. QED  BY <1>10, <2>1, LikeLast
<1>12. PICK g : g = NewChunk(c, fmt, m, step, m.len, FALSE, Finishes(c, m, m.len))
  OBVIOUS
<1>13. /\ g.stage = "basic" /\ g.c = c /\ g.fmt = fmt /\ g.m = m /\ g.step = step
       /\ g.left = m.len /\ g.n = Least(m.len, peer_size) /\ g.peer = peer
       /\ g.size = peer_size
  BY <1>12 DEF NewChunk
<1>14. ChunkLen(g) = g.n /\ g.n \in 1..g.n /\ g.left \in 1..g.m.len
  BY <1>5, <1>6, <1>13, NextLength DEF ChunkLen
<1>15. GoodChunk(g)
  <2>1. Resizes(g) => \A d \in Channel \ {g.c} : g.peer[d].left = 0
    BY <1>8, <1>13 DEF Resizes, Ends
  <2>. QED  BY <1>1, <1>7, <1>10, <1>11, <1>13, <1>14, <2>1 DEF GoodChunk
<1>16. Joined'
  BY <1>1, <1>3, <1>4, <1>6, <1>10, <1>12, <1>15, ChunkSent
<1>. QED  BY <1>1, <1>16

\* The peer goes on with a message.
LEMMA ContinueKeeps ==
  ASSUME TypeOK, Joined, NEW c \in Channel, Continue(c), ~unforeseen'
  PROVE  Joined' /\ peer_state' = peer_state
<1> DEFINE m == peer[c].msg
           left == peer[c].left
<1>1. /\ left # 0 /\ SendsChunk(c, 3, m, 0, left)
      /\ UNCHANGED <<peer_state, begun, readVars, appVars, handed>>
  BY DEF Continue, Idle
<1>2. /\ peer_state = "sending" /\ state # "closed"
      /\ wire' = wire \o Chunk(c, 3, m, 0, left) /\ Sent(c, m, left, FALSE)
      /\ left - Least(left, peer_size) = 0 /\ m.type = "set_chunk_size" /\ SizeOK(m.val)
           => \A d \in Channel \ {c} : peer[d].left = 0
  BY <1>1, NothingUnforeseen
<1>3. PICK e, f : Joins(e, f)
  BY <1>2 DEF Joined
<1>4. /\ peer_size \in Nat \ {0} /\ SentRight(c, peer[c], peer_size)
      /\ peer \in [Channel -> [last : Message \cup {None}, msg : Message \cup {None},
                               left : Nat]]
  BY <1>2, <1>3, PeerNow
<1>5. /\ m = peer[c].last /\ m # None /\ m \in Message /\ left \in Nat \ {0}
      /\ left < m.len /\ (c = ControlCid <=> m.type = "set_chunk_size")
  BY <1>1, <1>4 DEF SentRight
<1>6. m.len \in Nat
  BY <1>5, Sizes
<1>7. left <= peer_size => left - Least(left, peer_size) = 0
  BY <1>4, <1>5 DEF Least
<1>9. PICK g : g = NewChunk(c, 3, m, 0, left, FALSE, Finishes(c, m, left))
  OBVIOUS
<1>10. /\ g.stage = "basic" /\ g.c = c /\ g.fmt = 3 /\ g.m = m /\ g.step = 0
       /\ g.left = left /\ g.n = Least(left, peer_size) /\ g.peer = peer
       /\ g.size = peer_size
  BY <1>9 DEF NewChunk
<1>11. ChunkLen(g) = g.n /\ g.n \in 1..g.n /\ g.left \in 1..g.m.len
  BY <1>4, <1>5, <1>6, <1>10, NextLength DEF ChunkLen
<1>12. GoodChunk(g)
  <2>1. Resizes(g) => \A d \in Channel \ {g.c} : g.peer[d].left = 0
    BY <1>2, <1>7, <1>10 DEF Resizes, Ends
  <2>. QED  BY <1>1, <1>5, <1>10, <1>11, <2>1 DEF GoodChunk
<1>13. PICK msg \in Message, rest \in Nat, fmt \in 0..3, step \in Nat :
         msg = m /\ rest = left /\ fmt = 3 /\ step = 0
  BY <1>5
<1>14. /\ GoodChunk(NewChunk(c, fmt, msg, step, rest, FALSE, Finishes(c, msg, rest)))
       /\ wire' = wire \o Chunk(c, fmt, msg, step, rest) /\ Sent(c, msg, rest, FALSE)
  BY <1>1, <1>2, <1>9, <1>12, <1>13
<1> HIDE DEF m, left
<1>15. Joined'
  BY <1>1, <1>2, <1>3, <1>14, ChunkSent
<1>. QED  BY <1>1, <1>15

\* The parts of a chunk that breaks a rule, and any part after them.
LEMMA BadHeaderPath ==
  ASSUME NEW g, StandOK(g), BadChunk(g), g.bad = TRUE, g.fmt # 3, NEW p \in Part,
         p.part = "header", g.fmt = 0 /\ g.peer[g.c].left = 0 => p.len = 0
  PROVE  /\ PathFrom(<<p>>, At(g, "header"), At(g, "over"))
         /\ \A q \in Part : PathFrom(<<p, q>>, At(g, "header"), At(g, "over"))
<1>1. PICK r, z : r = At(g, "header") /\ z = At(g, "over")
  OBVIOUS
<1>2. /\ StandOK(r) /\ r.stage = "header" /\ r.c = g.c /\ r.fmt = g.fmt /\ r.bad = TRUE
      /\ r.peer = g.peer /\ At(r, "over") = z
  BY <1>1, AtFields
<1>3. /\ StandOK(z) /\ z.stage = "over" /\ z.bad = TRUE /\ At(z, "over") = z
  BY <1>1, AtFields
<1>4. BadChunk(r) /\ BadChunk(z)
  BY <1>1, AtBad
<1>5. Coming(r) /\ Coming(z)
  BY <1>2, <1>3, <1>4 DEF Coming
<1>6. NextStage(r) = "over" /\ NextStage(z) = "over"
  BY <1>2, <1>3 DEF NextStage
<1>7. Follows(r, z) /\ Follows(z, z)
  BY <1>2, <1>3, <1>6, AtFollows
<1>8. Says(p, r)
  BY <1>2 DEF Says
<1>9. PathFrom(<<p>>, r, z)
  BY <1>3, <1>5, <1>7, <1>8, PathOne
<1>10. ASSUME NEW q \in Part  PROVE PathFrom(<<p, q>>, r, z)
  <2>1. Says(q, z)
    BY <1>3 DEF Says
  <2>2. PathFrom(<<q>>, z, z)
    BY <1>3, <1>5, <1>7, <2>1, PathOne
  <2>. QED  BY <1>9, <2>2, PathOneMore
<1>. QED  BY <1>1, <1>9, <1>10

\* The parts the peer sends when it breaks a rule.
BreaksWith(c, fmt, tail) ==
  \/ fmt = 3 /\ tail = <<>>
  \/ /\ fmt # 3
     /\ \E p \in Part : /\ p.part = "header"
                        /\ fmt = 0 /\ peer[c].left = 0 => p.len = 0
                        /\ tail = <<p>> \/ \E q \in Part : tail = <<p, q>>

\* What a peer that breaks the format writes: a header that asks for the message before it
\* where there is none, a new message in the middle of one, or an empty message.
LEMMA BreakIs ==
  ASSUME Joined, NEW c \in Channel, Break(c)
  PROVE  \E fmt \in {0, 2, 3} : \E tail :
           /\ BreaksWith(c, fmt, tail) /\ PeerSends(Basic(c, fmt) \o tail)
           /\ fmt # 0 => peer[c].last = None
<1>1. /\ \/ /\ peer[c].last = None
            /\ \E fmt \in {2, 3} : PeerSends(Basic(c, fmt) \o
                 IF fmt = 3 THEN <<>>
                 ELSE <<[part |-> "header", type |-> "av", len |-> 0, time |-> 0]>>)
         \/ /\ ~Idle(c)
            /\ PeerSends(Basic(c, 0) \o Header(0, peer[c].msg, 0))
         \/ /\ Idle(c)
            /\ PeerSends(Basic(c, 0) \o
                 <<[part |-> "header", type |-> "av", len |-> 0, time |-> 0]>>)
  BY DEF Break
<1>2. CASE /\ peer[c].last = None
           /\ \E fmt \in {2, 3} : PeerSends(Basic(c, fmt) \o
                IF fmt = 3 THEN <<>>
                 ELSE <<[part |-> "header", type |-> "av", len |-> 0, time |-> 0]>>)
  <2>1. PICK fmt \in {2, 3} : PeerSends(Basic(c, fmt) \o
                IF fmt = 3 THEN <<>>
                 ELSE <<[part |-> "header", type |-> "av", len |-> 0, time |-> 0]>>)
    BY <1>2
  <2> DEFINE p == [part |-> "header", type |-> "av", len |-> 0, time |-> 0]
             tail == IF fmt = 3 THEN <<>> ELSE <<p>>
  <2>2. p \in Part /\ p.part = "header"
    BY DEF Part, HeaderPart
  <2> HIDE DEF p
  <2>3. BreaksWith(c, fmt, tail)
    BY <2>2 DEF BreaksWith
  <2>. QED  BY <1>2, <2>1, <2>3 DEF p
<1>3. CASE /\ ~Idle(c)
           /\ PeerSends(Basic(c, 0) \o Header(0, peer[c].msg, 0))
  <2> DEFINE m == peer[c].msg
             long == m.ts >= RTMP_CHUNK_EXTENDED_TIMESTAMP
             p == [part |-> "header", type |-> m.type, len |-> m.len,
                   time |-> IF long THEN RTMP_CHUNK_EXTENDED_TIMESTAMP ELSE m.ts]
             q == [part |-> "time", time |-> m.ts]
  <2>1. peer_state = "sending" /\ state # "closed"
    BY <1>3 DEF PeerSends
  <2>2. m \in Message
    <3>1. PICK e, f : Joins(e, f)
      BY <2>1 DEF Joined
    <3>2. /\ SentRight(c, peer[c], peer_size)
          /\ peer \in [Channel -> [last : Message \cup {None}, msg : Message \cup {None},
                                   left : Nat]]
      BY <2>1, <3>1, PeerNow
    <3>. QED  BY <1>3, <3>2 DEF SentRight, Idle
  <2>3. /\ m.ts \in Nat /\ m.len \in Nat /\ m.type \in {"av", "set_chunk_size"}
        /\ RTMP_CHUNK_EXTENDED_TIMESTAMP \in Nat
    BY <2>2, Sizes
  <2>4. p \in Part /\ q \in Part /\ p.part = "header"
    <3>1. (IF long THEN RTMP_CHUNK_EXTENDED_TIMESTAMP ELSE m.ts) \in Nat
      BY <2>3
    <3>. QED  BY <2>3, <3>1 DEF Part, HeaderPart
  <2>5. Header(0, m, 0) = IF long THEN <<p, q>> ELSE <<p>>
    BY DEF Header
  <2> HIDE DEF p, q, long, m
  <2>6. peer[c].left # 0 /\ PeerSends(Basic(c, 0) \o Header(0, m, 0))
    BY <1>3 DEF Idle, m
  <2>7. BreaksWith(c, 0, Header(0, m, 0))
    BY <2>4, <2>5, <2>6 DEF BreaksWith
  <2>. QED  BY <2>6, <2>7
<1>4. CASE /\ Idle(c)
           /\ PeerSends(Basic(c, 0) \o
                <<[part |-> "header", type |-> "av", len |-> 0, time |-> 0]>>)
  <2> DEFINE p == [part |-> "header", type |-> "av", len |-> 0, time |-> 0]
  <2>1. p \in Part /\ p.part = "header" /\ p.len = 0
    BY DEF Part, HeaderPart
  <2> HIDE DEF p
  <2>2. BreaksWith(c, 0, <<p>>)
    BY <2>1 DEF BreaksWith
  <2>. QED  BY <1>4, <2>2 DEF p
<1>. QED  BY <1>1, <1>2, <1>3, <1>4

\* The peer breaks a rule.
LEMMA BreakKeeps ==
  ASSUME TypeOK, Joined, NEW c \in Channel, Break(c)
  PROVE  Joined' /\ peer_state' = "broken"
<1>1. PICK fmt \in {0, 2, 3} : \E tail :
        /\ BreaksWith(c, fmt, tail) /\ PeerSends(Basic(c, fmt) \o tail)
        /\ fmt # 0 => peer[c].last = None
  BY BreakIs
<1>2. PICK tail :
        /\ BreaksWith(c, fmt, tail) /\ PeerSends(Basic(c, fmt) \o tail)
        /\ fmt # 0 => peer[c].last = None
  BY <1>1
<1>3. /\ peer_state = "sending" /\ state # "closed"
      /\ wire' = wire \o (Basic(c, fmt) \o tail)
  BY <1>2 DEF PeerSends
<1>4. /\ peer_state' = "broken"
      /\ UNCHANGED <<peer, peer_size, begun, readVars, appVars, history>>
  BY DEF Break
<1>5. PICK e, f : Joins(e, f)
  BY <1>3 DEF Joined
<1>6. Now(f) /\ f \in Stand /\ f.rest \in [Channel -> Seq(Message)]
  <2>1. Now(f) /\ f \in Stand
    BY <1>3, <1>5, PeerNow
  <2>. QED  BY <2>1 DEF Stand
<1>7. PICK yes \in BOOLEAN : yes = TRUE
  OBVIOUS
<1>8. PICK m \in Message \cup {None}, step \in Nat, left \in Nat : TRUE
  <2>1. None \in Message \cup {None} /\ 0 \in Nat
    OBVIOUS
  <2>. QED  BY <2>1
<1>9. PICK g : g = NewChunk(c, fmt, m, step, left, yes, f.rest)
  OBVIOUS
<1>10. /\ StandOK(g) /\ g.stage = "basic" /\ g.c = c /\ g.fmt = fmt /\ g.bad = yes
      /\ g.peer = peer /\ g.size = peer_size /\ g.rest = f.rest
  <2>1. PICK k \in 0..3 : k = fmt
    OBVIOUS
  <2>2. PICK rest \in [Channel -> Seq(Message)] : rest = f.rest
    BY <1>6
  <2>3. Joins(e, f) /\ peer_state = "sending"
    BY <1>3, <1>5
  <2>4. StandOK(NewChunk(c, k, m, step, left, yes, rest))
    BY <2>3, NewChunkStands
  <2>. QED  BY <1>9, <2>1, <2>2, <2>4 DEF NewChunk
<1>11. BadChunk(g) /\ Coming(g)
  <2>1. (g.peer[g.c].last = None /\ g.fmt \in {2, 3}) \/ g.fmt = 0
    <3>1. fmt = 0 \/ (fmt \in {2, 3} /\ peer[c].last = None)
      BY <1>2
    <3>. QED  BY <1>10, <3>1
  <2>2. BadChunk(g)
    BY <1>10, <2>1 DEF BadChunk
  <2>3. g.bad = TRUE
    BY <1>7, <1>10
  <2>. QED  BY <1>10, <2>2, <2>3 DEF Coming
<1>12. PathFrom(Basic(c, fmt), g, At(g, AfterCid(g)))
  BY <1>7, <1>10, <1>11, BasicPath
<1>13. PathFrom(tail, At(g, AfterCid(g)), At(g, "over"))
  <2>1. CASE fmt = 3
    <3>1. AfterCid(g) = "over" /\ tail = <<>>
      BY <1>2, <1>7, <1>10, <2>1 DEF AfterCid, BreaksWith
    <3>2. StandOK(At(g, "over"))
      BY <1>10, AtFields
    <3>. QED  BY <3>1, <3>2, PathEmpty
  <2>2. CASE fmt # 3
    <3>1. AfterCid(g) = "header"
      BY <1>10, <2>2 DEF AfterCid
    <3>2. PICK p \in Part : /\ p.part = "header"
                            /\ fmt = 0 /\ peer[c].left = 0 => p.len = 0
                            /\ tail = <<p>> \/ \E q \in Part : tail = <<p, q>>
      BY <1>2, <2>2 DEF BreaksWith
    <3>3. /\ PathFrom(<<p>>, At(g, "header"), At(g, "over"))
          /\ \A q \in Part : PathFrom(<<p, q>>, At(g, "header"), At(g, "over"))
      BY <1>7, <1>10, <1>11, <2>2, <3>2, BadHeaderPath
    <3>. QED  BY <3>1, <3>2, <3>3
  <2>. QED  BY <2>1, <2>2
<1>14. PathFrom(Basic(c, fmt) \o tail, g, At(g, "over"))
  BY <1>12, <1>13, PathGlue
<1>15. PICK h : PathFrom(wire, h, g) /\ Reads(h)' /\ h.rest = flight
  <2>1. PathFrom(wire, e, f) /\ Reads(e) /\ e.rest = flight /\ UNCHANGED readVars
    BY <1>4, <1>5 DEF Joins
  <2>2. \E h : PathFrom(wire, h, g) /\ Reads(h)' /\ h.rest = e.rest
    BY <1>6, <1>10, <2>1, WireToChunk
  <2>. QED  BY <2>1, <2>2
<1>16. PathFrom(wire', h, At(g, "over"))
  BY <1>3, <1>14, <1>15, PathGlue
<1>17. Ended(At(g, "over"))'
  <2>1. At(g, "over").stage = "over"
    BY <1>10, AtFields
  <2>. QED  BY <1>4, <2>1 DEF Ended
<1>18. h.rest = flight'
  BY <1>4, <1>15 DEF history
<1>19. Joins(h, At(g, "over"))'
  BY <1>15, <1>16, <1>17, <1>18 DEF Joins
<1>. QED  BY <1>4, <1>19 DEF Joined

-----------------------------------------------------------------------------
(* What is handed on. *)

\* The buckets of a message are full but for the last, and hold the message.
Full(h) ==
  /\ \A k \in 1..(Len(h.fills) - 1) : h.fills[k] = DEFAULT_CHUNK_BUCKET_SIZE
  /\ (Len(h.fills) - 1) * DEFAULT_CHUNK_BUCKET_SIZE + Last(h.fills) = h.msg.len

\* The buckets of the message that ends.
LEMMA WholeIs ==
  ASSUME TypeOK, NEW e, NEW f, Paying(e, f), want = e.n, Ends(e)
  PROVE  Whole_message(e) \in Handed /\ Full(Whole_message(e))
<1> DEFINE B == DEFAULT_CHUNK_BUCKET_SIZE
           BS == [cid : Channel, fmt : 0..3, fill : Nat, val : PeerSizes \cup {None},
                  tag : Name \cup {None}, state : {"end", "merge"}]
<1>1. PICK old, new, b, n : /\ old = channels[e.c] /\ new = Grown(TRUE)
                            /\ b = Put(TRUE) /\ n = Len(channels[e.c].chain)
  OBVIOUS
<1>2. /\ new \in ChannelState /\ n \in Nat /\ Len(new.chain) = n + 1
      /\ new.chain[n + 1] = b /\ \A k \in 1..n : Whole(new.chain[k])
      /\ n * B + b.fill = new.header.recv
      /\ new.header.recv = old.header.recv + want
  BY <1>1, GrownIs
<1>3. /\ StandOK(e) /\ GoodChunk(e) /\ current_chunk.fill \in Nat
      /\ Receives(old, current_chunk, e) /\ e.c \in Channel /\ e.m \in Message
  BY <1>1 DEF Paying, BucketState, GoodChunk
<1>4. old.header.recv + want = e.m.len
  BY <1>3, Received
<1>5. new.chain \in Seq(BS)
  BY <1>2 DEF ChannelState
<1>6. PICK chain : chain = new.chain
  OBVIOUS
<1> HIDE DEF BS
<1>7. /\ DOMAIN chain = 1..(n + 1)
      /\ \A k \in 1..(n + 1) : chain[k] \in BS
  <2>1. chain \in Seq(BS) /\ Len(chain) = n + 1
    BY <1>2, <1>5, <1>6
  <2>. QED  BY <2>1
<1> USE DEF BS
<1>8. \A k \in 1..(n + 1) : chain[k].fill \in Nat /\ chain[k].tag \in Name \cup {None}
  BY <1>7
<1> HIDE DEF BS
<1>9. PICK h : h = Whole_message(e)
  OBVIOUS
<1>10. /\ h = [cid |-> e.c, msg |-> e.m, to |-> publishing,
               fills |-> [i \in DOMAIN chain |-> chain[i].fill],
               tags |-> {chain[i].tag : i \in DOMAIN chain},
               renamed |-> e.c \in renamed]
  BY <1>1, <1>6, <1>9 DEF Whole_message
<1>11. PICK fills : fills = [i \in 1..(n + 1) |-> chain[i].fill]
  OBVIOUS
<1>12. h.fills = fills /\ h.msg = e.m
  BY <1>7, <1>10, <1>11
<1>13. fills \in [1..(n + 1) -> Nat]
  BY <1>8, <1>11
<1>14. fills \in Seq(Nat) /\ Len(fills) = n + 1 /\ n + 1 \in Nat
  BY <1>2, <1>13
<1>15. h \in Handed
  <2>1. {chain[i].tag : i \in DOMAIN chain} \subseteq Name \cup {None}
    BY <1>7, <1>8
  <2>2. publishing \in Name \cup {None}
    BY DEF TypeOK
  <2>3. e.m \in [type : {"av", "set_chunk_size"}, len : Nat, ts : Nat,
                 val : PeerSizes \cup {None}]
    BY <1>3, Sizes DEF Message
  <2>4. (e.c \in renamed) \in BOOLEAN
    OBVIOUS
  <2>. QED  BY <1>3, <1>7, <1>10, <1>11, <1>14, <2>1, <2>2, <2>3, <2>4 DEF Handed
<1>16. \A k \in 1..n : fills[k] = B
  <2>1. ASSUME NEW k \in 1..n  PROVE fills[k] = B
    <3>1. k \in 1..(n + 1)
      BY <1>2
    <3>2. chain[k].fill = B
      BY <1>2, <1>6 DEF Whole
    <3>. QED  BY <1>11, <3>1, <3>2
  <2>. QED  BY <2>1
<1>17. Last(fills) = b.fill
  <2>1. n + 1 \in 1..(n + 1)
    BY <1>2
  <2>2. fills[n + 1] = b.fill
    BY <1>2, <1>6, <1>11, <2>1
  <2>. QED  BY <1>14, <2>2 DEF Last
<1>18. Full(h)
  <2>1. Len(h.fills) - 1 = n
    BY <1>2, <1>12, <1>14
  <2>. QED  BY <1>2, <1>4, <1>12, <1>16, <1>17, <2>1 DEF Full
<1>. QED  BY <1>9, <1>15, <1>18

-----------------------------------------------------------------------------
(* The invariant is kept until the peer does something unforeseen. *)

ReaderInv ==
  /\ Joined /\ OnlyCulpritsCut
  /\ handed # None => Full(handed)

\* A step that reads all of a chunk but its payload.
LEMMA HeaderStep ==
  ASSUME TypeOK, ReaderInv, ReadBasic \/ ReadExtBasic \/ ReadHeader \/ ReadTime
  PROVE  ReaderInv'
<1>1. Joined' /\ OnlyHeader
  BY ReadBasicKeeps, ReadExtBasicKeeps, ReadHeaderKeeps, ReadTimeKeeps DEF ReaderInv
<1>2. UNCHANGED <<chunk_size, peerVars, appVars, history>>
  BY DEF ReadBasic, ReadExtBasic, ReadHeader, ReadTime
<1>3. OnlyCulpritsCut'
  BY <1>1, <1>2 DEF OnlyHeader, OnlyCulpritsCut, peerVars
<1>4. (handed # None => Full(handed))'
  BY <1>2 DEF ReaderInv, history
<1>. QED  BY <1>1, <1>3, <1>4 DEF ReaderInv

\* A step that reads payload.
LEMMA PayloadStep ==
  ASSUME TypeOK, ReaderInv, ReadPayload
  PROVE  ReaderInv'
<1>1. PICK e, f : /\ Paying(e, f)
                  /\ GoesOn(e) \/ Delivers(e)
                  /\ Joined'
  BY ReadPayloadKeeps DEF ReaderInv
<1>2. /\ handed' # None => Full(handed')
      /\ state' = "closed" => handed' # None /\ handed'.cid = ControlCid
                              /\ ~SizeOK(handed'.msg.val)
  <2>1. CASE GoesOn(e)
    BY <2>1 DEF GoesOn, ReaderInv, history
  <2>2. CASE Delivers(e)
    <3>1. handed' = Whole_message(e) /\ want = e.n /\ Ends(e)
          /\ (state' = "closed" => e.c = ControlCid /\ ~SizeOK(e.m.val))
      BY <2>2 DEF Delivers
    <3>2. Whole_message(e) \in Handed /\ Full(Whole_message(e))
      BY <1>1, <3>1, WholeIs
    <3>3. Whole_message(e).cid = e.c /\ Whole_message(e).msg = e.m
      BY DEF Whole_message
    <3>. QED  BY <3>1, <3>2, <3>3, ChannelAssumption
  <2>. QED  BY <1>1, <2>1, <2>2
<1>3. OnlyCulpritsCut'
  BY <1>2 DEF OnlyCulpritsCut
<1>4. Joined'
  BY <1>1
<1>5. (handed # None => Full(handed))'
  BY <1>2 DEF Full
<1>. QED  BY <1>3, <1>4, <1>5 DEF ReaderInv

\* What the reader asks for is next in the socket, and there is room for it.
LEMMA JoinedAligned ==
  ASSUME Joined
  PROVE  Aligned /\ RoomForChunk
<1>1. ASSUME state # "closed", wire # <<>>
      PROVE  Head(wire).part = state /\ (state = "payload" => want \in 1..Head(wire).n)
  <2>1. PICK e, f : Joins(e, f)
    BY <1>1 DEF Joined
  <2>2. Coming(e) /\ Says(Head(wire), e) /\ state = e.stage /\ e.stage # "over"
    BY <1>1, <2>1, PartNext
  <2>3. Head(wire).part = state
    BY <2>2 DEF Says
  <2>4. ASSUME state = "payload"  PROVE want \in 1..Head(wire).n
    <3>1. Next_is("payload")
      BY <1>1, <2>3, <2>4 DEF Next_is
    <3>2. Paying(e, f)
      BY <2>1, <3>1, PayloadNext
    <3>3. /\ StandOK(e) /\ GoodChunk(e) /\ current_chunk.fill \in Nat
          /\ Receives(channels[e.c], current_chunk, e) /\ Head(wire).n = e.n
      BY <3>2 DEF Paying, BucketState
    <3>. QED  BY <3>3, Wanted
  <2>. QED  BY <2>3, <2>4
<1>2. ASSUME state = "payload"
      PROVE  current_chunk.fill + want <= DEFAULT_CHUNK_BUCKET_SIZE
  <2>1. PICK e, f : Joins(e, f)
    BY <1>2 DEF Joined
  <2>2. e.stage = "payload"
    BY <1>2, <2>1 DEF Joins, Reads
  <2>3. wire # <<>>
    <3>1. wire = <<>> => e = f
      BY <2>1, PathEnds DEF Joins
    <3>. QED  BY <2>1, <2>2, <3>1 DEF Joins, Ended
  <2>4. Coming(e) /\ StandOK(e)
    BY <2>1, <2>3, PartNext
  <2>5. GoodChunk(e)
    BY <2>2, <2>4 DEF Coming, BadChunk
  <2>6. current_chunk.fill \in Nat /\ Receives(channels[e.c], current_chunk, e)
    BY <2>1, <2>2 DEF Joins, Reads, BucketState
  <2>. QED  BY <2>4, <2>5, <2>6, Wanted
<1>. QED  BY <1>1, <1>2 DEF Aligned, RoomForChunk, HasRoom

\* So it misreads nothing.
LEMMA NothingMisread ==
  ASSUME TypeOK, Sound, ReaderInv
  PROVE  state # "lost" /\ ~Misread
<1>1. state # "lost"
  <2>1. ASSUME state = "lost"  PROVE FALSE
    <3>1. PICK e, f : Joins(e, f)
      BY <2>1 DEF ReaderInv, Joined
    <3>2. e \in Stand /\ state = e.stage
      BY <3>1, PathEnds DEF Joins, Reads, StandOK
    <3>. QED  BY <2>1, <3>2 DEF Stand
  <2>. QED  BY <2>1
<1>2. Aligned /\ RoomForChunk
  BY JoinedAligned DEF ReaderInv
<1>3. ASSUME Misread  PROVE FALSE
  <2>1. wire # <<>> /\ state # "closed"
    BY <1>3 DEF Misread
  <2>2. /\ Head(wire).part = state
        /\ state = "payload" => want \in 1..Head(wire).n /\ HasRoom
    BY <1>2, <2>1 DEF Aligned, RoomForChunk
  <2>3. state = "payload" /\ (Head(wire).n < want \/ ~HasRoom)
    BY <1>3, <2>2 DEF Misread
  <2>4. Head(wire).n \in Nat
    <3>1. Head(wire) \in Part /\ Head(wire).part = "payload"
      BY <2>1, <2>2, <2>3 DEF Sound, SoundPeer
    <3>. QED  BY <3>1 DEF Part, HeaderPart
  <2>. QED  BY <2>2, <2>3, <2>4
<1>. QED  BY <1>1, <1>3

\* A step of the peer.
LEMMA PeerStep ==
  ASSUME TypeOK, ReaderInv, ~unforeseen', NEW c \in Channel, Begin(c) \/ Continue(c) \/ Break(c)
  PROVE  ReaderInv'
<1>1. Joined'
  BY BeginKeeps, ContinueKeeps, BreakKeeps DEF ReaderInv
<1>2. UNCHANGED <<readVars, appVars, handed>>
  BY DEF Begin, Continue, Break, history
<1>3. state # "closed"
  BY DEF Begin, Continue, Break, SendsChunk, PeerSends
<1>4. OnlyCulpritsCut'
  BY <1>2, <1>3 DEF OnlyCulpritsCut, readVars
<1>5. (handed # None => Full(handed))'
  BY <1>2 DEF ReaderInv
<1>. QED  BY <1>1, <1>4, <1>5 DEF ReaderInv

\* The connection fails.
LEMMA FailStep ==
  ASSUME ReaderInv, ReadFails
  PROVE  ReaderInv'
<1>1. state' = "closed" /\ peer_state' = "left" /\ UNCHANGED handed
  BY DEF ReadFails, Close, history
<1>. QED  BY <1>1 DEF ReaderInv, OnlyCulpritsCut, Joined

\* What the application does, or nothing at all, does not move the reader or the peer.
LEMMA AppStep ==
  ASSUME ReaderInv, UNCHANGED <<wire, peerVars, readVars, flight, handed>>
  PROVE  ReaderInv'
<1>1. Joined'
  <2>1. CASE state = "closed"
    BY <2>1 DEF Joined, readVars
  <2>2. CASE state # "closed"
    <3>1. PICK e, f : Joins(e, f)
      BY <2>2 DEF ReaderInv, Joined
    <3>2. peer_state \in {"sending", "broken"}
      BY <2>2 DEF ReaderInv, Joined
    <3>3. Reads(e)'
      BY <3>1, ReadsSame DEF Joins
    <3>4. PathFrom(wire', e, f) /\ e.rest = flight' /\ Ended(f)
      BY <3>1 DEF Joins
    <3>. QED  BY <3>2, <3>3, <3>4, ReaderGoes
  <2>. QED  BY <2>1, <2>2
<1>2. OnlyCulpritsCut'
  BY DEF ReaderInv, OnlyCulpritsCut, peerVars, readVars
<1>3. (handed # None => Full(handed))'
  BY DEF ReaderInv
<1>. QED  BY <1>1, <1>2, <1>3 DEF ReaderInv

\* A connection begins with nothing sent and nothing read.
LEMMA InitJoined ==
  ASSUME Init
  PROVE  ReaderInv
<1> DEFINE none == [d \in Channel |-> <<>>]
           silent == [d \in Channel |-> Silent]
           g == [stage |-> "basic", c |-> ControlCid, fmt |-> 0, m |-> None, step |-> 0,
                 left |-> 0, n |-> 0, bad |-> FALSE, peer |-> silent,
                 size |-> DEFAULT_CHUNK_SIZE, rest |-> none]
<1>1. DEFAULT_CHUNK_SIZE \in Nat /\ SizeOK(DEFAULT_CHUNK_SIZE) /\ ControlCid \in Channel
  BY Sizes, ChannelAssumption
<1>3. none \in [Channel -> Seq(Message)]
  <2>1. <<>> \in Seq(Message)
    OBVIOUS
  <2>. QED  BY <2>1
<1>4. silent \in [Channel -> [last : Message \cup {None}, msg : Message \cup {None},
                              left : Nat]]
  BY DEF Silent
<1>5. \A d \in Channel : silent[d] = Silent
  OBVIOUS
<1> HIDE DEF none, silent
<1>6. g \in Stand
  BY <1>1, <1>3, <1>4 DEF Stand
<1>7. StandOK(g)
  <2>1. \A d \in Channel : SentRight(d, silent[d], DEFAULT_CHUNK_SIZE)
    BY <1>5 DEF SentRight, Silent
  <2>. QED  BY <1>1, <1>6, <2>1 DEF StandOK
<1>8. PathFrom(wire, g, g)
  BY <1>7, PathEmpty DEF Init
<1>9. Reads(g)
  <2>1. \A d \in Channel : Matches(channels[d], silent[d], DEFAULT_CHUNK_SIZE)
    BY <1>5 DEF Init, Matches, Silent
  <2>. QED  BY <2>1 DEF Init, Reads
<1>10. Ended(g) /\ g.rest = flight
  <2>1. peer = silent /\ flight = none
    BY DEF Init, silent, none
  <2>. QED  BY <2>1 DEF Ended, Now, Init, none
<1>11. Joined
  BY <1>8, <1>9, <1>10 DEF Joined, Joins, Init
<1>12. OnlyCulpritsCut /\ handed = None
  BY DEF Init, OnlyCulpritsCut
<1>. QED  BY <1>11, <1>12 DEF ReaderInv

\* What is unforeseen stays so.
LEMMA Foreseen ==
  ASSUME [Next]_vars, ~unforeseen'
  PROVE  ~unforeseen
<1>1. CASE Peer
  <2>1. PICK c \in Channel : Begin(c) \/ Continue(c) \/ Break(c)
    BY <1>1 DEF Peer
  <2>2. ASSUME NEW fmt, NEW m, NEW step, NEW left, SendsChunk(c, fmt, m, step, left)
        PROVE  ~unforeseen
    BY <2>2 DEF SendsChunk, Sent
  <2>. QED  BY <2>1, <2>2 DEF Begin, Continue, Break
<1>2. CASE Read \/ ReadFails \/ App \/ UNCHANGED vars
  BY <1>2 DEF Read, ReadBasic, ReadExtBasic, ReadHeader, ReadTime, ReadPayload, Misread,
              Wander, ReadFails, App, Publish, Unpublish, vars, peerVars
<1>. QED  BY <1>1, <1>2 DEF Next

\* Every step keeps the invariant.
LEMMA StepKeeps ==
  ASSUME TypeOK, Sound, ReaderInv, [Next]_vars, ~unforeseen'
  PROVE  ReaderInv'
<1>1. CASE App
  BY <1>1, AppStep DEF App, Publish, Unpublish, history
<1>2. CASE UNCHANGED vars
  BY <1>2, AppStep DEF vars, history
<1>3. CASE Peer
  BY <1>3, PeerStep DEF Peer
<1>4. CASE Read
  <2>1. ~Misread /\ ~Wander
    BY NothingMisread DEF Wander
  <2>. QED  BY <1>4, <2>1, HeaderStep, PayloadStep DEF Read
<1>5. CASE ReadFails
  BY <1>5, FailStep
<1>. QED  BY <1>1, <1>2, <1>3, <1>4, <1>5 DEF Next

\* As long as the peer does nothing unforeseen, the reader and it are joined by what is on
\* the wire.
THEOREM ReaderInvariant == Spec => [](~unforeseen => ReaderInv)
<1>1. Init => ReaderInv
  BY InitJoined
<1>2. /\ TypeOK /\ Sound /\ (~unforeseen => ReaderInv) /\ [Next]_vars
      => (~unforeseen => ReaderInv)'
  <2> SUFFICES ASSUME TypeOK, Sound, ~unforeseen => ReaderInv, [Next]_vars, ~unforeseen'
               PROVE  ReaderInv'
    OBVIOUS
  <2>1. ~unforeseen
    BY Foreseen
  <2>. QED  BY <2>1, StepKeeps
<1>. QED  BY <1>1, <1>2, ReaderSound, PTL DEF Spec

\* The part the reader waits for is the part that is next in the socket, and no chunk
\* has fewer bytes left than read_n is asked for.
THEOREM ReaderInStep == Spec => []InStep
<1>1. (~unforeseen => ReaderInv) => InStep
  BY JoinedAligned DEF InStep, ReaderInv
<1>. QED  BY <1>1, ReaderInvariant, PTL

\* No bucket is filled beyond its size, and all buckets of a message but its last are
\* full when the message is handed on.
THEOREM BucketsFull == Spec => []FullBuckets
<1>1. (~unforeseen => ReaderInv) => FullBuckets
  BY JoinedAligned DEF FullBuckets, ReaderInv, Full
<1>. QED  BY <1>1, ReaderInvariant, PTL

\* The reader hangs up on a peer that breaks a rule, asks for a chunk size it does not
\* support or does something unforeseen, and on no other.
THEOREM CulpritsOnly == Spec => []OnlyCulpritsCut
<1>1. (~unforeseen => ReaderInv) => OnlyCulpritsCut
  BY DEF ReaderInv, OnlyCulpritsCut
<1>. QED  BY <1>1, ReaderInvariant, PTL

-----------------------------------------------------------------------------
(* The reader keeps the promise of MessageChannels. *)

\* What the peer sends on a channel is sent in MessageChannels with its last byte.
LEMMA SendMaps ==
  ASSUME ~unforeseen, ReaderInv, NEW c \in Channel, Begin(c) \/ Continue(c) \/ Break(c)
  PROVE  [Channels!Next]_(Channels!vars)
<1>1. UNCHANGED <<state, handed>> /\ state # "closed"
  BY DEF Begin, Continue, Break, SendsChunk, PeerSends, history, readVars
<1>2. Channels!Sent(c) \/ UNCHANGED flight
  <2>1. ASSUME NEW m \in Message, NEW fmt, NEW step, NEW left,
               SendsChunk(c, fmt, m, step, left)
        PROVE  Channels!Sent(c) \/ UNCHANGED flight
    BY <2>1 DEF SendsChunk, Sent, Channels!Sent
  <2>2. CASE Begin(c)
    BY <2>1, <2>2 DEF Begin
  <2>3. CASE Continue(c)
    <3>1. PICK m : m = peer[c].msg
      OBVIOUS
    <3>2. peer_state = "sending" /\ state # "closed" /\ SendsChunk(c, 3, m, 0, peer[c].left)
      BY <2>3, <3>1 DEF Continue, SendsChunk, PeerSends
    <3>3. PICK e, f : Joins(e, f)
      BY <3>2 DEF ReaderInv, Joined
    <3>4. m \in Message
      <4>1. /\ SentRight(c, peer[c], peer_size)
            /\ peer \in [Channel -> [last : Message \cup {None}, msg : Message \cup {None},
                                     left : Nat]]
        BY <3>2, <3>3, PeerNow
      <4>. QED  BY <2>3, <3>1, <4>1 DEF Continue, Idle, SentRight
    <3>. QED  BY <2>1, <3>2, <3>4
  <2>4. CASE Break(c)
    BY <2>4 DEF Break, history
  <2>. QED  BY <2>2, <2>3, <2>4
<1>3. CASE unforeseen'
  <2>1. Channels!HangUp
    BY <1>1, <1>2, <1>3 DEF Channels!HangUp
  <2>. QED  BY <2>1 DEF Channels!Next
<1>4. CASE ~unforeseen'
  <2>1. Channels!Send(c) \/ UNCHANGED Channels!vars
    BY <1>1, <1>2, <1>4 DEF Channels!Send, Channels!vars
  <2>. QED  BY <2>1 DEF Channels!Next
<1>. QED  BY <1>3, <1>4

\* What is read to the last byte is delivered; the rest only moves, or ends, the
\* connection.
LEMMA ReadMaps ==
  ASSUME TypeOK, Sound, ~unforeseen, ReaderInv, Read \/ ReadFails
  PROVE  [Channels!Next]_(Channels!vars)
<1>1. state # "closed"
  BY DEF Read, ReadFails, ReadBasic, ReadExtBasic, ReadHeader, ReadTime, ReadPayload,
         Misread, Wander, Next_is
<1>2. UNCHANGED unforeseen
  BY DEF Read, ReadFails, ReadBasic, ReadExtBasic, ReadHeader, ReadTime, ReadPayload,
         Misread, Wander, peerVars
<1>3. CASE UNCHANGED history
  <2>1. CASE state' = "closed"
    <3>1. Channels!HangUp
      BY <1>1, <1>2, <1>3, <2>1 DEF Channels!HangUp, history
    <3>. QED  BY <3>1 DEF Channels!Next
  <2>2. CASE state' # "closed"
    BY <1>1, <1>2, <1>3, <2>2 DEF Channels!vars, history
  <2>. QED  BY <2>1, <2>2
<1>4. CASE ReadPayload
  <2>1. PICK e, f : Paying(e, f) /\ (GoesOn(e) \/ Delivers(e))
    BY <1>4, ReadPayloadKeeps DEF ReaderInv
  <2>2. CASE GoesOn(e)
    BY <1>3, <2>2 DEF GoesOn
  <2>3. CASE Delivers(e)
    <3>1. /\ handed' = Whole_message(e) /\ want = e.n /\ Ends(e)
          /\ flight' = [flight EXCEPT ![e.c] = Tail(@)]
          /\ flight[e.c] # <<>> /\ Head(flight[e.c]) = e.m
      BY <2>3 DEF Delivers
    <3>2. handed' # None
      BY <2>1, <3>1, WholeIs, ChannelAssumption
    <3>3. handed'.cid = e.c /\ handed'.msg = e.m
      BY <3>1 DEF Whole_message
    <3>4. Channels!Deliver(e.c)
      BY <1>1, <1>2, <3>1, <3>2, <3>3 DEF Channels!Deliver
    <3>5. e.c \in Channel
      BY <2>1 DEF Paying
    <3>. QED  BY <3>4, <3>5 DEF Channels!Next
  <2>. QED  BY <2>1, <2>2, <2>3
<1>5. CASE ReadBasic \/ ReadExtBasic \/ ReadHeader \/ ReadTime \/ Misread \/ Wander
           \/ ReadFails
  BY <1>3, <1>5 DEF ReadBasic, ReadExtBasic, ReadHeader, ReadTime, Misread, Wander, ReadFails
<1>. QED  BY <1>4, <1>5 DEF Read

\* Messages arrive whole, once and in order on each channel, with the time the peer gave
\* them, until it does something unforeseen: but for its fairness, the reader implements
\* MessageChannels.
THEOREM ReaderKeepsPromise ==
  Spec => Channels!Init /\ [][Channels!Next]_(Channels!vars)
<1>1. Init => Channels!Init
  BY DEF Init, Channels!Init
<1>2. /\ TypeOK /\ Sound /\ (~unforeseen => ReaderInv) /\ [Next]_vars
      => [Channels!Next]_(Channels!vars)
  <2> SUFFICES ASSUME TypeOK, Sound, ~unforeseen => ReaderInv, [Next]_vars
               PROVE  [Channels!Next]_(Channels!vars)
    OBVIOUS
  <2>1. CASE unforeseen
    <3>1. unforeseen'
      BY <2>1, Foreseen
    <3>2. Channels!Down
      BY <2>1, <3>1 DEF Channels!Down
    <3>. QED  BY <3>2 DEF Channels!Next
  <2>2. CASE ~unforeseen /\ Peer
    BY <2>2, SendMaps DEF Peer
  <2>3. CASE ~unforeseen /\ (Read \/ ReadFails)
    BY <2>3, ReadMaps
  <2>4. CASE App \/ UNCHANGED vars
    <3>1. UNCHANGED <<state, unforeseen, flight, handed>>
      BY <2>4 DEF App, Publish, Unpublish, vars, readVars, peerVars, history
    <3>. QED  BY <3>1 DEF Channels!vars
  <2>. QED  BY <2>1, <2>2, <2>3, <2>4 DEF Next
<1>. QED  BY <1>1, <1>2, ReaderSound, ReaderInvariant, PTL DEF Spec
=============================================================================
