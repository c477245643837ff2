--------------------------- MODULE PlayerFlowProofs ---------------------------
(***************************************************************************)
(* Proofs about PlayerFlow, for buffers, groups and messages of any size,  *)
(* any heads and any replays: what the counter of a player is, how large   *)
(* its backlog, and what it gets: whole messages, the metadata first, and  *)
(* after a gap no picture before the next key frame.                       *)
(***************************************************************************)
EXTENDS PlayerFlow, TLAPS

\* The control part of the type invariant, the part the counter depends on.
FlowOK ==
  /\ state \in ConsumerState \cup {None}
  /\ own \in Nat /\ own <= MaxPending
  /\ stale \in Nat /\ stale <= MaxPending
  /\ inherited \in Nat /\ inherited <= MaxPending
  /\ unchecked \in Nat

\* A number of chunks in an unsigned counter, from one lap below zero.
Wrapped(n) == IF n >= 0 THEN n ELSE n + Modulus

\* Without a consumer no write is its own and no queue has it; a consumer counts its
\* writes, and the callbacks of what it inherited against them.
Counted ==
  /\ state = None => own = 0 /\ ~fed
  /\ state # None => stale <= inherited /\ chunk_in_buffer_num = Wrapped(own - Foreign)

\* How much a consumer may have waiting, by its state: a state that can still send a
\* head that is not counted has one message less.
Backlog ==
  state # None =>
    /\ state = "WAIT_METADATA" => own = 0
    /\ state \in {"WAIT_AUDIO_SH", "WAIT_VIDEO_SH"} =>
         own <= MAX_CHUNK_BUFFER_LEN + MaxChunks + Foreign + unchecked
    /\ own <= MAX_CHUNK_BUFFER_LEN + 2 * MaxChunks - 1 + Foreign + unchecked

FlowInv == FlowOK /\ Counted /\ Backlog

\* The numbers of the model, as far as the proofs need them.
LEMMA Numbers ==
  /\ MAX_CHUNK_BUFFER_LEN \in Nat /\ MAX_CHUNK_BUFFER_LEN > 0
  /\ MaxChunks \in Nat /\ MaxChunks > 0
  /\ MaxPending \in Nat /\ Modulus \in Nat /\ Modulus > MaxPending
BY BufferAssumption

\* The remainder on the lap below zero, on the first lap and on the second.
LEMMA Laps ==
  ASSUME NEW n \in Int, -Modulus <= n, n < 2 * Modulus
  PROVE  n % Modulus = IF n < 0 THEN n + Modulus ELSE IF n < Modulus THEN n ELSE n - Modulus
<1>1. Modulus \in Nat /\ Modulus > 0
  BY Numbers
<1> DEFINE q == n \div Modulus
           r == n % Modulus
<1>2. q \in Int /\ r \in 0..(Modulus - 1) /\ n = Modulus * q + r
  BY <1>1
<1>3. q \in {-1, 0, 1}
  <2>1. CASE q >= 2
    <3>1. Modulus * q >= Modulus * 2
      BY <1>1, <1>2, <2>1
    <3> QED
      BY <1>1, <1>2, <3>1
  <2>2. CASE q <= -2
    <3>1. Modulus * q <= Modulus * (-2)
      BY <1>1, <1>2, <2>2
    <3> QED
      BY <1>1, <1>2, <3>1
  <2> QED
    BY <1>2, <2>1, <2>2
<1>4. CASE q = 0
  BY <1>1, <1>2, <1>4
<1>5. CASE q = 1
  BY <1>1, <1>2, <1>5
<1>6. CASE q = -1
  BY <1>1, <1>2, <1>6
<1> QED
  BY <1>3, <1>4, <1>5, <1>6

\* A step by i of a counter that stands for a number between -MaxPending and MaxPending
\* makes it stand for the number after the step.
LEMMA CountOn ==
  ASSUME NEW n \in Int, NEW i \in Int,
         -MaxPending <= n, n <= MaxPending, -MaxPending <= n + i, n + i <= MaxPending
  PROVE  (Wrapped(n) + i) % Modulus = Wrapped(n + i)
<1>1. MaxPending \in Nat /\ Modulus \in Nat /\ Modulus > MaxPending
  BY Numbers
<1> DEFINE w == Wrapped(n) + i
<1>2. w \in Int /\ -Modulus <= w /\ w < 2 * Modulus
  BY <1>1 DEF Wrapped
<1>3. w % Modulus = IF w < 0 THEN w + Modulus ELSE IF w < Modulus THEN w ELSE w - Modulus
  <2> HIDE DEF w
  <2> QED
    BY <1>2, Laps
<1> QED
  BY <1>1, <1>3 DEF Wrapped

\* What a message that was handled leaves behind, as far as the counter goes.
LEMMA HandledFacts ==
  ASSUME FlowOK, Counted, state # None, NEW type, NEW kind, NEW m \in 1..MaxChunks,
         NEW new \in ConsumerState, NEW headers, NEW head, NEW tracked \in {0, 1},
         Handled(type, kind, m, new, headers, head, tracked),
         UNCHANGED <<stale, inherited>>
  PROVE  LET more == tracked + (IF new \in Forwards(type) THEN m - 1 ELSE 0)
         IN /\ FlowOK' /\ Counted'
            /\ state' = new /\ Foreign' = Foreign
            /\ own' \in Nat /\ own' = own + more
            /\ unchecked' \in Nat
            /\ kind = "type3" => unchecked' \in {unchecked + more, own'}
            /\ kind # "type3" => unchecked' = IF tracked = 1 THEN 0 ELSE unchecked
<1> DEFINE rest == IF new \in Forwards(type) THEN m - 1 ELSE 0
<1>1. m \in Nat /\ m >= 1 /\ rest \in Nat
  BY Numbers
<1>2. /\ own + tracked + rest <= MaxPending
      /\ state' = new
      /\ own' = own + tracked + rest
      /\ chunk_in_buffer_num' = (chunk_in_buffer_num + tracked + rest) % Modulus
      /\ unchecked' = Unchecked(kind, tracked, rest)
  BY DEF Handled
<1>3. own + tracked + rest \in Nat
  BY <1>1 DEF FlowOK
<1>4. new # None
  BY StateAssumption
<1>5. /\ Foreign \in Nat /\ Foreign <= MaxPending /\ Foreign' = Foreign
      /\ chunk_in_buffer_num = Wrapped(own - Foreign)
  BY Numbers DEF Foreign, FlowOK, Counted
<1>6. chunk_in_buffer_num' = Wrapped(own' - Foreign')
  <2>1. (Wrapped(own - Foreign) + (tracked + rest)) % Modulus
          = Wrapped((own - Foreign) + (tracked + rest))
    BY <1>1, <1>2, <1>3, <1>5, CountOn, Numbers DEF FlowOK
  <2>2. /\ Wrapped(own - Foreign) \in Int
        /\ (own - Foreign) + (tracked + rest) = (own + tracked + rest) - Foreign
        /\ chunk_in_buffer_num + tracked + rest = Wrapped(own - Foreign) + (tracked + rest)
    BY <1>1, <1>5, Numbers DEF FlowOK, Wrapped
  <2>3. own' = own + tracked + rest /\ Foreign' = Foreign
    BY <1>2, <1>5
  <2>4. chunk_in_buffer_num' = Wrapped((own + tracked + rest) - Foreign)
    BY <1>2, <1>5, <2>1, <2>2
  <2> HIDE DEF rest
  <2> QED
    BY <2>3, <2>4, Zenon
<1>7. /\ unchecked' \in Nat
      /\ kind = "type3" => unchecked' \in {unchecked + (tracked + rest), own'}
      /\ kind # "type3" => unchecked' = IF tracked = 1 THEN 0 ELSE unchecked
  BY <1>1, <1>2, <1>3 DEF Unchecked, FlowOK
<1>8. FlowOK'
  BY <1>2, <1>3, <1>7 DEF FlowOK
<1>9. Counted'
  BY <1>2, <1>4, <1>6 DEF Counted
<1>10. own' = own + (tracked + rest) /\ own' \in Nat
  BY <1>1, <1>2, <1>3 DEF FlowOK
<1>. QED  BY <1>2, <1>5, <1>7, <1>8, <1>9, <1>10

\* A head that was let pass found at most the limit waiting, foreign callbacks aside.
LEMMA RoomFound ==
  ASSUME FlowOK, Counted, state # None, chunk_in_buffer_num <= MAX_CHUNK_BUFFER_LEN
  PROVE  own <= MAX_CHUNK_BUFFER_LEN + Foreign
BY Numbers DEF FlowOK, Counted, Foreign, Wrapped

\* The ways a message is handled keep the invariant: nothing is sent, ...
LEMMA NothingSent ==
  ASSUME FlowInv, state # None, NEW type \in {"video", "audio"}, NEW kind,
         NEW m \in 1..MaxChunks, NEW new \in ConsumerState, new \notin Forwards(type),
         new = state \/ new \in Slow,
         Handled(type, kind, m, new, {}, 0, 0), UNCHANGED <<stale, inherited>>
  PROVE  FlowInv'
<1>1. FlowOK /\ Counted /\ Backlog /\ 0 \in {0, 1}
  BY DEF FlowInv
<1>2. /\ FlowOK' /\ Counted' /\ state' = new /\ Foreign' = Foreign /\ own' = own + 0
      /\ kind = "type3" => unchecked' \in {unchecked + 0, own'}
      /\ kind # "type3" => unchecked' = unchecked
  <2>1. 0 + 0 = 0
    OBVIOUS
  <2> HIDE DEF FlowOK, Counted
  <2> QED
    BY <1>1, <2>1, HandledFacts
<1>3. own \in Nat /\ unchecked \in Nat /\ Foreign \in Nat
  BY <1>1, StateAssumption DEF FlowOK, Counted, Foreign
<1>4. Backlog'
  BY <1>1, <1>2, <1>3, Numbers DEF Backlog, Slow
<1> QED
  BY <1>2, <1>4 DEF FlowInv

\* ... it is sent because there is room, or because the code does not look at its head, ...
LEMMA RoomSent ==
  ASSUME FlowInv, state # None, NEW type \in {"video", "audio"}, NEW kind,
         NEW m \in 1..MaxChunks, NEW new \in ConsumerState, new \in Forwards(type),
         new = state \/ new = "RUN",
         kind # "type3" => chunk_in_buffer_num <= MAX_CHUNK_BUFFER_LEN,
         kind = "type3" => new = state,
         Handled(type, kind, m, new, {}, 1, 1), UNCHANGED <<stale, inherited>>
  PROVE  FlowInv'
<1>1. FlowOK /\ Counted /\ Backlog /\ 1 \in {0, 1}
  BY DEF FlowInv
<1>2. /\ FlowOK' /\ Counted' /\ state' = new /\ Foreign' = Foreign /\ own' = own + (1 + (m - 1))
      /\ unchecked' \in Nat
      /\ kind = "type3" => unchecked' \in {unchecked + (1 + (m - 1)), own'}
      /\ kind # "type3" => unchecked' = 0
  BY <1>1, HandledFacts
<1>3. own \in Nat /\ unchecked \in Nat /\ Foreign \in Nat /\ m \in Nat /\ m <= MaxChunks
  BY <1>1, Numbers DEF FlowOK, Counted, Foreign
<1>4. kind # "type3" => own <= MAX_CHUNK_BUFFER_LEN + Foreign
  BY <1>1, RoomFound
<1>5. new # "WAIT_METADATA"
  BY DEF Forwards
<1>6. own' = own + m
  BY <1>2, <1>3
<1>7. CASE kind # "type3"
  <2>1. /\ own + m <= MAX_CHUNK_BUFFER_LEN + MaxChunks + Foreign + 0
        /\ own + m <= MAX_CHUNK_BUFFER_LEN + 2 * MaxChunks - 1 + Foreign + 0
    BY <1>3, <1>4, <1>7, Numbers
  <2> QED
    BY <1>2, <1>5, <1>6, <1>7, <2>1 DEF FlowInv, Backlog
<1>8. CASE kind = "type3" /\ unchecked' = own'
  <2>1. /\ own + m <= MAX_CHUNK_BUFFER_LEN + MaxChunks + Foreign + (own + m)
        /\ own + m <= MAX_CHUNK_BUFFER_LEN + 2 * MaxChunks - 1 + Foreign + (own + m)
    BY <1>3, Numbers
  <2> QED
    BY <1>2, <1>5, <1>6, <1>8, <2>1 DEF FlowInv, Backlog
<1>9. CASE kind = "type3" /\ unchecked' = unchecked + m
  <2>1. /\ state \in {"WAIT_AUDIO_SH", "WAIT_VIDEO_SH"} =>
             own + m <= MAX_CHUNK_BUFFER_LEN + MaxChunks + Foreign + (unchecked + m)
        /\ own + m <= MAX_CHUNK_BUFFER_LEN + 2 * MaxChunks - 1 + Foreign + (unchecked + m)
    BY <1>1, <1>3, Numbers DEF Backlog
  <2> QED
    BY <1>2, <1>5, <1>6, <1>9, <2>1 DEF FlowInv, Backlog
<1>10. kind = "type3" => unchecked' \in {unchecked + m, own'}
  BY <1>2, <1>3
<1> QED
  BY <1>7, <1>8, <1>9, <1>10

\* ... or its head goes out uncounted with the headers.
LEMMA HeadersSent ==
  ASSUME FlowInv, state # None, NEW type \in {"video", "audio"}, NEW kind,
         NEW m \in 1..MaxChunks, NEW new \in ConsumerState, NEW headers,
         new \in Forwards(type),
         \/ state = "WAIT_METADATA" /\ new \in {"WAIT_AUDIO_SH", "WAIT_VIDEO_SH"}
         \/ state \in {"WAIT_AUDIO_SH", "WAIT_VIDEO_SH"} /\ new = "RUN",
         Handled(type, kind, m, new, headers, 1, 0), UNCHANGED <<stale, inherited>>
  PROVE  FlowInv'
<1>1. FlowOK /\ Counted /\ Backlog /\ 0 \in {0, 1}
  BY DEF FlowInv
<1>2. /\ FlowOK' /\ Counted' /\ state' = new /\ Foreign' = Foreign /\ own' = own + (0 + (m - 1))
      /\ unchecked' \in Nat
      /\ kind = "type3" => unchecked' \in {unchecked + (0 + (m - 1)), own'}
      /\ kind # "type3" => unchecked' = unchecked
  BY <1>1, HandledFacts
<1>3. own \in Nat /\ unchecked \in Nat /\ Foreign \in Nat /\ m \in Nat /\ m <= MaxChunks
      /\ m >= 1
  BY <1>1, Numbers DEF FlowOK, Counted, Foreign
<1>4. own' = own + (m - 1)
      /\ unchecked' \in {unchecked, unchecked + (m - 1), own + (m - 1)}
  BY <1>2, <1>3
<1>5. ASSUME NEW limit \in Nat, own + (m - 1) <= limit + Foreign + unchecked
      PROVE  own' <= limit + Foreign' + unchecked'
  <2>1. /\ own + (m - 1) <= limit + Foreign + (unchecked + (m - 1))
        /\ own + (m - 1) <= limit + Foreign + (own + (m - 1))
    BY <1>3, <1>5
  <2> QED
    BY <1>2, <1>4, <1>5, <2>1
<1>6. CASE state = "WAIT_METADATA"
  <2>1. /\ MAX_CHUNK_BUFFER_LEN + MaxChunks \in Nat
        /\ MAX_CHUNK_BUFFER_LEN + 2 * MaxChunks - 1 \in Nat
        /\ own + (m - 1) <= MAX_CHUNK_BUFFER_LEN + MaxChunks + Foreign + unchecked
        /\ own + (m - 1) <= MAX_CHUNK_BUFFER_LEN + 2 * MaxChunks - 1 + Foreign + unchecked
    BY <1>1, <1>3, <1>6, Numbers DEF Backlog
  <2> QED
    BY <1>2, <1>5, <1>6, <2>1 DEF FlowInv, Backlog
<1>7. CASE state \in {"WAIT_AUDIO_SH", "WAIT_VIDEO_SH"}
  <2>1. /\ MAX_CHUNK_BUFFER_LEN + 2 * MaxChunks - 1 \in Nat
        /\ own + (m - 1) <= MAX_CHUNK_BUFFER_LEN + 2 * MaxChunks - 1 + Foreign + unchecked
    BY <1>1, <1>3, <1>7, Numbers DEF Backlog
  <2> QED
    BY <1>2, <1>5, <1>7, <2>1 DEF FlowInv, Backlog
<1> QED
  BY <1>6, <1>7

\* A video message keeps the invariant, whatever its head.
LEMMA SendVideoStep ==
  ASSUME FlowInv, state # None, NEW kind \in VideoKind, NEW m \in 1..MaxChunks,
         SendVideo(kind, m), UNCHANGED <<stale, inherited>>
  PROVE  FlowInv'
<1>0. state \in ConsumerState /\ "video" \in {"video", "audio"}
      /\ {"RUN", "WAIT_AUDIO_SH", "WAIT_VIDEO_SLOW_SPEED"} \subseteq ConsumerState
      /\ chunk_in_buffer_num \in Int /\ MAX_CHUNK_BUFFER_LEN \in Nat
  BY Numbers DEF FlowInv, FlowOK, Counted, Foreign, Wrapped, ConsumerState, Slow
<1>1. CASE state \in Forwards("video") /\ TooMany(kind)
  BY <1>0, <1>1, NothingSent DEF SendVideo, Forwards, Slow
<1>2. CASE state \in Forwards("video") /\ ~TooMany(kind)
  <2>1. Handled("video", kind, m, state, {}, 1, 1)
    BY <1>2 DEF SendVideo, Forwards
  <2>2. kind # "type3" => chunk_in_buffer_num <= MAX_CHUNK_BUFFER_LEN
    BY <1>0, <1>2 DEF TooMany
  <2>. QED  BY <1>0, <1>2, <2>1, <2>2, RoomSent
<1>3. CASE state = "WAIT_METADATA"
           /\ Handled("video", kind, m, "WAIT_AUDIO_SH", {"metadata", "video_sh"}, 1, 0)
  BY <1>0, <1>3, HeadersSent DEF Forwards
<1>4. CASE state = "WAIT_VIDEO_SH" /\ Handled("video", kind, m, "RUN", {"video_sh"}, 1, 0)
  BY <1>0, <1>4, HeadersSent DEF Forwards
<1>5. CASE Resumes(kind \in {"key", "sh"}) /\ Handled("video", kind, m, "RUN", {}, 1, 1)
  <2>1. kind # "type3" /\ chunk_in_buffer_num <= MAX_CHUNK_BUFFER_LEN
    BY <1>0, <1>5 DEF Resumes
  <2>. QED  BY <1>0, <1>5, <2>1, RoomSent DEF Forwards
<1>6. CASE state \notin Forwards("video") /\ Handled("video", kind, m, state, {}, 0, 0)
  BY <1>0, <1>6, NothingSent
<1>. QED  BY <1>1, <1>2, <1>3, <1>4, <1>5, <1>6 DEF SendVideo

\* So does an audio message.
LEMMA SendAudioStep ==
  ASSUME FlowInv, state # None, NEW kind \in AudioKind, NEW m \in 1..MaxChunks,
         SendAudio(kind, m), UNCHANGED <<stale, inherited>>
  PROVE  FlowInv'
<1> DEFINE audio_sh == {"audio_sh"} \cap cached
           slow == IF state = "RUN" THEN "WAIT_VIDEO_SLOW_SPEED" ELSE "WAIT_AUDIO_SLOW_SPEED"
<1>0. state \in ConsumerState /\ "audio" \in {"video", "audio"}
      /\ {"RUN", "WAIT_VIDEO_SH", slow} \subseteq ConsumerState /\ slow \in Slow
      /\ chunk_in_buffer_num \in Int /\ MAX_CHUNK_BUFFER_LEN \in Nat
  BY Numbers DEF FlowInv, FlowOK, Counted, Foreign, Wrapped, ConsumerState, Slow
<1>1. CASE state \in Forwards("audio") /\ TooMany(kind)
  <2>1. Handled("audio", kind, m, slow, {}, 0, 0) /\ slow \notin Forwards("audio")
    BY <1>1 DEF SendAudio, Forwards
  <2>. QED  BY <1>0, <2>1, NothingSent
<1>2. CASE state \in Forwards("audio") /\ ~TooMany(kind)
  <2>1. Handled("audio", kind, m, state, {}, 1, 1)
    BY <1>2 DEF SendAudio, Forwards
  <2>2. kind # "type3" => chunk_in_buffer_num <= MAX_CHUNK_BUFFER_LEN
    BY <1>0, <1>2 DEF TooMany
  <2>. QED  BY <1>0, <1>2, <2>1, <2>2, RoomSent
<1>3. CASE state = "WAIT_METADATA"
           /\ Handled("audio", kind, m, "WAIT_VIDEO_SH", {"metadata"} \cup audio_sh, 1, 0)
  BY <1>0, <1>3, HeadersSent DEF Forwards
<1>4. CASE state = "WAIT_AUDIO_SH" /\ Handled("audio", kind, m, "RUN", audio_sh, 1, 0)
  BY <1>0, <1>4, HeadersSent DEF Forwards
<1>5. CASE Resumes(kind # "type3") /\ Handled("audio", kind, m, "RUN", {}, 1, 1)
  <2>1. kind # "type3" /\ chunk_in_buffer_num <= MAX_CHUNK_BUFFER_LEN
    BY <1>0, <1>5 DEF Resumes
  <2>. QED  BY <1>0, <1>5, <2>1, RoomSent DEF Forwards
<1>6. CASE state \notin Forwards("audio") /\ Handled("audio", kind, m, state, {}, 0, 0)
  BY <1>0, <1>6, NothingSent
<1>. QED  BY <1>1, <1>2, <1>3, <1>4, <1>5, <1>6 DEF SendAudio

\* A write callback counts down one of the consumer's own, or one foreign to it more.
LEMMA WriteDoneStep ==
  ASSUME FlowInv, WriteDone
  PROVE  FlowInv'
<1>0. FlowOK /\ Counted /\ Backlog /\ own \in Nat /\ stale \in Nat /\ inherited \in Nat
      /\ UNCHANGED <<state, inherited, unchecked, fed>>
  BY DEF FlowInv, FlowOK, WriteDone, historyVars
<1>1. CASE state = None
  <2>1. own = 0 /\ stale > 0
    BY <1>0, <1>1 DEF Counted, WriteDone
  <2>2. own' = 0 /\ stale' \in Nat
    BY <1>0, <2>1 DEF WriteDone
  <2>3. FlowOK'
    <3>1. stale' = stale - 1 /\ stale - 1 <= MaxPending /\ own' = own
      BY <1>0, <2>1, Numbers DEF WriteDone, FlowOK
    <3> QED
      BY <1>0, <2>2, <3>1 DEF FlowOK
  <2>. QED  BY <1>0, <1>1, <2>2, <2>3 DEF FlowInv, Counted, Backlog
<1>2. CASE state # None
  <2>1. /\ stale <= inherited /\ Foreign \in Nat /\ Foreign <= MaxPending
        /\ own <= MaxPending /\ inherited <= MaxPending
        /\ chunk_in_buffer_num = Wrapped(own - Foreign)
    BY <1>0, <1>2, Numbers DEF FlowOK, Counted, Foreign
  <2>2. \/ stale > 0 /\ stale' = stale - 1 /\ own' = own /\ Foreign' = Foreign + 1
        \/ stale = 0 /\ stale' = 0 /\ own > 0 /\ own' = own - 1 /\ Foreign' = Foreign
    BY <1>0, <2>1 DEF WriteDone, Foreign
  <2> DEFINE n == own - Foreign
  <2>3. /\ n \in Int /\ -1 \in Int /\ -MaxPending <= n /\ n <= MaxPending
        /\ -MaxPending <= n + (-1) /\ n + (-1) <= MaxPending
    BY <1>0, <2>1, <2>2, Numbers DEF Foreign
  <2>4. own' - Foreign' = n + (-1)
    <3>1. own - (Foreign + 1) = n + (-1) /\ own - 1 - Foreign = n + (-1)
      BY <1>0, <2>1
    <3> QED
      BY <2>2, <3>1
  <2>5. chunk_in_buffer_num' = Wrapped(own' - Foreign')
    <3>1. (Wrapped(n) + (-1)) % Modulus = Wrapped(n + (-1))
      <4> HIDE DEF n
      <4> QED
        BY <2>3, CountOn
    <3>2. chunk_in_buffer_num' = (chunk_in_buffer_num - 1) % Modulus
      BY <1>2 DEF WriteDone
    <3>3. Wrapped(n) \in Int /\ Wrapped(n) - 1 = Wrapped(n) + (-1)
      BY <2>3, Numbers DEF Wrapped
    <3> QED
      BY <2>1, <2>4, <3>1, <3>2, <3>3
  <2>6. FlowOK'
    <3>1. /\ stale > 0 => stale - 1 \in Nat /\ stale - 1 <= MaxPending
          /\ own > 0 => own - 1 \in Nat /\ own - 1 <= MaxPending
      BY <1>0, <2>1, Numbers DEF FlowOK
    <3> QED
      BY <1>0, <2>2, <3>1 DEF FlowOK
  <2>7. Counted'
    <3>1. stale > 0 => stale - 1 <= inherited
      BY <1>0, <2>1
    <3> QED
      BY <1>0, <1>2, <2>1, <2>2, <2>5, <3>1 DEF Counted
  <2>8. Backlog'
    <3>1. unchecked \in Nat
      BY <1>0 DEF FlowOK
    <3>2. ASSUME NEW limit \in Int, own <= limit + Foreign + unchecked
          PROVE  own' <= limit + Foreign' + unchecked'
      <4>1. own <= limit + (Foreign + 1) + unchecked /\ own - 1 <= limit + Foreign + unchecked
        BY <1>0, <2>1, <3>1, <3>2
      <4> QED
        BY <1>0, <2>2, <4>1
    <3>3. /\ MAX_CHUNK_BUFFER_LEN + MaxChunks \in Int
          /\ MAX_CHUNK_BUFFER_LEN + 2 * MaxChunks - 1 \in Int
      BY Numbers
    <3>4. state = "WAIT_METADATA" => own' = 0
      BY <1>0, <1>2, <2>2 DEF Backlog
    <3> QED
      BY <1>0, <1>2, <3>2, <3>3, <3>4 DEF Backlog
  <2>. QED  BY <2>6, <2>7, <2>8 DEF FlowInv
<1>. QED  BY <1>1, <1>2

\* Coming, going and being closed: the count starts at zero, with all the writes of
\* earlier consumers to come.
LEMMA PlayerStep ==
  ASSUME FlowInv, Play \/ Unplay \/ Close \/ Deleted
  PROVE  FlowInv'
<1> USE Numbers, StateAssumption
    DEF FlowInv, FlowOK, Counted, Backlog, ConsumerState, Slow, Foreign, Wrapped
<1>1. CASE Play
  <2>1. own = 0 /\ own' = 0 /\ stale' = stale /\ inherited' = stale
        /\ unchecked' = 0 /\ chunk_in_buffer_num' = 0
    BY <1>1 DEF Play
  <2>2. state' \in {"RUN", "WAIT_AUDIO_SH", "WAIT_METADATA"}
    BY <1>1 DEF Play
  <2>. QED  BY <2>1, <2>2
<1>2. CASE Unplay
  <2>1. own' = 0 /\ stale' \in Nat /\ stale' <= MaxPending /\ inherited' = 0
        /\ unchecked' = 0 /\ state' = None /\ fed' = FALSE
    BY <1>2 DEF Unplay
  <2>. QED  BY <2>1
<1>3. CASE Close
  <2>1. own' = own /\ stale' = stale /\ inherited' = inherited /\ unchecked' = unchecked
        /\ chunk_in_buffer_num' = chunk_in_buffer_num
        /\ fed' = fed /\ state' = IF state = None THEN None ELSE "END"
    BY <1>3 DEF Close, historyVars
  <2>. QED  BY <2>1
<1>4. CASE Deleted
  <2>1. own' = 0 /\ stale' = 0 /\ inherited' = 0 /\ unchecked' = 0 /\ state' = None
        /\ fed' = FALSE
    BY <1>4 DEF Deleted
  <2>. QED  BY <2>1
<1>. QED  BY <1>1, <1>2, <1>3, <1>4

\* Every step keeps the invariant.
LEMMA FlowStep ==
  ASSUME FlowInv, [Next]_vars
  PROVE  FlowInv'
<1>1. CASE \E m \in 1..MaxChunks, kind \in VideoKind : VideoMsg(kind, m)
  <2>1. PICK m \in 1..MaxChunks, kind \in VideoKind : VideoMsg(kind, m)
    BY <1>1
  <2>2. UNCHANGED <<stale, inherited, fed>>
    BY <2>1 DEF VideoMsg
  <2>3. CASE NotFed
    BY <2>2, <2>3 DEF NotFed, historyVars, FlowInv, FlowOK, Counted, Backlog, Foreign
  <2>4. CASE fed /\ SendVideo(kind, m)
    <3>1. state # None
      BY <2>4 DEF FlowInv, Counted
    <3>. QED  BY <2>2, <2>4, <3>1, SendVideoStep
  <2>. QED  BY <2>1, <2>3, <2>4 DEF VideoMsg
<1>2. CASE \E m \in 1..MaxChunks, kind \in AudioKind : AudioMsg(kind, m)
  <2>1. PICK m \in 1..MaxChunks, kind \in AudioKind : AudioMsg(kind, m)
    BY <1>2
  <2>2. UNCHANGED <<stale, inherited, fed>>
    BY <2>1 DEF AudioMsg
  <2>3. CASE NotFed
    BY <2>2, <2>3 DEF NotFed, historyVars, FlowInv, FlowOK, Counted, Backlog, Foreign
  <2>4. CASE fed /\ SendAudio(kind, m)
    <3>1. state # None
      BY <2>4 DEF FlowInv, Counted
    <3>. QED  BY <2>2, <2>4, <3>1, SendAudioStep
  <2>. QED  BY <2>1, <2>3, <2>4 DEF AudioMsg
<1>3. CASE Publish \/ Unpublish \/ Metadata \/ UNCHANGED vars
  <2>1. /\ UNCHANGED <<own, stale, inherited, unchecked, state, chunk_in_buffer_num>>
        /\ fed' => fed
    BY <1>3 DEF Publish, Unpublish, Metadata, vars, socketVars, historyVars
  <2>. QED  BY <2>1 DEF FlowInv, FlowOK, Counted, Backlog, Foreign
<1>4. CASE WriteDone
  BY <1>4, WriteDoneStep
<1>5. CASE Play \/ Unplay \/ Close \/ Deleted
  BY <1>5, PlayerStep
<1>. QED  BY <1>1, <1>2, <1>3, <1>4, <1>5 DEF Next, Publisher, Player

\* The invariant holds throughout.
LEMMA FlowInvariant == Spec => []FlowInv
<1>1. Init => FlowInv
  BY Numbers, StateAssumption DEF Init, FlowInv, FlowOK, Counted, Backlog
<1>2. FlowInv /\ [Next]_vars => FlowInv'
  BY FlowStep
<1>. QED  BY <1>1, <1>2, PTL DEF Spec

\* The counter of a consumer is the number of its own chunks in the socket less the
\* callbacks that came for consumers before it, round the unsigned counter if they are
\* more: whatever it is sent, however the writes end and however the client replays.
THEOREM CountIsExact == Spec => []BufferCounted
<1>1. FlowInv => BufferCounted
  <2> SUFFICES ASSUME FlowInv, state # None
               PROVE  chunk_in_buffer_num = (own - Foreign) % Modulus
    BY DEF BufferCounted
  <2>1. /\ own - Foreign \in Int /\ -Modulus <= own - Foreign /\ own - Foreign < Modulus
        /\ chunk_in_buffer_num = Wrapped(own - Foreign)
        /\ Modulus \in Nat
    BY Numbers DEF FlowInv, FlowOK, Counted, Foreign
  <2>. QED  BY <2>1, Laps DEF Wrapped
<1>. QED  BY <1>1, FlowInvariant, PTL

\* No player ever has more waiting than MAX_CHUNK_BUFFER_LEN and two messages, what
\* foreign callbacks hide and what begins with type 3 aside.
THEOREM BacklogAlwaysBounded == Spec => []BacklogBounded
<1>1. FlowInv => BacklogBounded
  BY DEF FlowInv, Backlog, BacklogBounded
<1>. QED  BY <1>1, FlowInvariant, PTL

-----------------------------------------------------------------------------
(* What a player gets.  Nothing is assumed of replays and type 3 heads here. *)

Headers == {"metadata", "video_sh", "audio_sh"}

\* How a message of m chunks may leave the consumer: it is forwarded whole, by a
\* consumer that has been sent the metadata, or not at all.
Outcome(type, new, headers, head, tracked) ==
  /\ new \in ConsumerState \cup {None} /\ headers \in SUBSET Headers
  /\ tracked \in {0, head}
  /\ \/ head = 1 /\ new \in Forwards(type)
     \/ head = 0 /\ new \notin Forwards(type) /\ headers = {}
  /\ state = "WAIT_METADATA" /\ new # state => "metadata" \in headers
  /\ new = state \/ state \in Forwards("video") \cup Forwards("audio") \cup Slow
       \/ state = "WAIT_METADATA"

\* Every way through consumer_send_video is such an outcome.
LEMMA VideoOutcome ==
  ASSUME TypeOK, NEW kind, NEW m, SendVideo(kind, m)
  PROVE  \E new, headers, head, tracked :
           /\ Handled("video", kind, m, new, headers, head, tracked)
           /\ Outcome("video", new, headers, head, tracked)
<1> DEFINE Out(new, headers, head, tracked) ==
             /\ Handled("video", kind, m, new, headers, head, tracked)
             /\ Outcome("video", new, headers, head, tracked)
           key == kind \in {"key", "sh"}
<1> SUFFICES \E new, headers, head, tracked : Out(new, headers, head, tracked)
  OBVIOUS
<1> USE DEF TypeOK, ConsumerState, Slow, Forwards, Outcome, Headers
<1>1. CASE state \in Forwards("video") /\ TooMany(kind)
  <2>1. Out("WAIT_VIDEO_SLOW_SPEED", {}, 0, 0)
    BY <1>1 DEF SendVideo
  <2>. QED  BY <2>1
<1>2. CASE state \in Forwards("video") /\ ~TooMany(kind)
  <2>1. Out(state, {}, 1, 1)
    BY <1>2 DEF SendVideo
  <2>. QED  BY <2>1
<1>3. CASE state = "WAIT_METADATA" /\ key /\ {"metadata", "video_sh"} \subseteq cached
  <2>1. Out("WAIT_AUDIO_SH", {"metadata", "video_sh"}, 1, 0)
    BY <1>3 DEF SendVideo
  <2>. QED  BY <2>1
<1>4. CASE state = "WAIT_VIDEO_SH" /\ key /\ "video_sh" \in cached
  <2>1. Out("RUN", {"video_sh"}, 1, 0)
    BY <1>4 DEF SendVideo
  <2>. QED  BY <2>1
<1>5. CASE state = "WAIT_VIDEO_SLOW_SPEED" /\ Resumes(key)
  <2>1. Out("RUN", {}, 1, 1)
    BY <1>5 DEF SendVideo
  <2>. QED  BY <2>1
<1>6. CASE state \notin Forwards("video") /\ Handled("video", kind, m, state, {}, 0, 0)
  <2>1. Out(state, {}, 0, 0)
    BY <1>6
  <2>. QED  BY <2>1
<1>. QED  BY <1>1, <1>2, <1>3, <1>4, <1>5, <1>6 DEF SendVideo

\* And so is every way through consumer_send_audio.
LEMMA AudioOutcome ==
  ASSUME TypeOK, NEW kind, NEW m, SendAudio(kind, m)
  PROVE  \E new, headers, head, tracked :
           /\ Handled("audio", kind, m, new, headers, head, tracked)
           /\ Outcome("audio", new, headers, head, tracked)
<1> DEFINE Out(new, headers, head, tracked) ==
             /\ Handled("audio", kind, m, new, headers, head, tracked)
             /\ Outcome("audio", new, headers, head, tracked)
           audio_sh == {"audio_sh"} \cap cached
           slow == IF state = "RUN" THEN "WAIT_VIDEO_SLOW_SPEED" ELSE "WAIT_AUDIO_SLOW_SPEED"
           first == kind # "type3"
           start == first /\ "metadata" \in cached /\ "video_sh" \notin cached
<1> SUFFICES \E new, headers, head, tracked : Out(new, headers, head, tracked)
  OBVIOUS
<1> USE DEF TypeOK, ConsumerState, Slow, Forwards, Outcome, Headers
<1>1. CASE state \in Forwards("audio") /\ TooMany(kind)
  <2>1. Out(slow, {}, 0, 0)
    BY <1>1 DEF SendAudio
  <2>. QED  BY <2>1
<1>2. CASE state \in Forwards("audio") /\ ~TooMany(kind)
  <2>1. Out(state, {}, 1, 1)
    BY <1>2 DEF SendAudio
  <2>. QED  BY <2>1
<1>3. CASE state = "WAIT_METADATA" /\ start
  <2>1. Out("WAIT_VIDEO_SH", {"metadata"} \cup audio_sh, 1, 0)
    BY <1>3 DEF SendAudio
  <2>. QED  BY <2>1
<1>4. CASE state = "WAIT_AUDIO_SH" /\ audio_sh # {}
  <2>1. Out("RUN", audio_sh, 1, 0)
    BY <1>4 DEF SendAudio
  <2>. QED  BY <2>1
<1>5. CASE state = "WAIT_AUDIO_SLOW_SPEED" /\ Resumes(first)
  <2>1. Out("RUN", {}, 1, 1)
    BY <1>5 DEF SendAudio
  <2>. QED  BY <2>1
<1>6. CASE state \notin Forwards("audio") /\ Handled("audio", kind, m, state, {}, 0, 0)
  <2>1. Out(state, {}, 0, 0)
    BY <1>6
  <2>. QED  BY <2>1
<1>. QED  BY <1>1, <1>2, <1>3, <1>4, <1>5, <1>6 DEF SendAudio

\* Whatever the counter is taken modulo is in its range.
LEMMA InRange ==
  ASSUME NEW n \in Int
  PROVE  n % Modulus \in 0..(Modulus - 1)
  BY BufferAssumption

\* What a message that was handled leaves behind, as far as its player can tell.
LEMMA HandledTypes ==
  ASSUME TypeOK, NEW type \in {"video", "audio"}, NEW kind \in VideoKind \cup AudioKind,
         NEW m \in 1..MaxChunks, NEW new, NEW headers, NEW head, NEW tracked,
         Handled(type, kind, m, new, headers, head, tracked),
         Outcome(type, new, headers, head, tracked)
  PROVE  /\ state' = new /\ state' \in ConsumerState \cup {None}
         /\ own' \in 0..MaxPending
         /\ chunk_in_buffer_num' \in 0..(Modulus - 1)
         /\ sent' \in SUBSET Headers /\ sent \cup headers \subseteq sent'
         /\ unchecked' \in 0..MaxPending
         /\ gap' \in Gap
         /\ last' \in Message
         /\ last'.inter = (type = "video" /\ kind = "inter") /\ last'.before = gap
         /\ last'.got = (IF new \in Forwards(type) THEN "all" ELSE "none")
         /\ type = "audio" => gap' = gap
         /\ type = "video" /\ new \in Forwards(type) =>
              gap' = IF kind \in {"key", "sh"} THEN "none" ELSE gap
<1> DEFINE rest == IF new \in Forwards(type) THEN m - 1 ELSE 0
<1>1. m \in Nat /\ m >= 1 /\ m <= MaxChunks /\ rest \in Nat /\ MaxChunks \in Nat
  BY BufferAssumption
<1>2. head \in {0, 1} /\ tracked \in {0, 1} /\ new \in ConsumerState \cup {None}
      /\ headers \in SUBSET Headers
  BY DEF Outcome
<1>3. head + rest = IF new \in Forwards(type) THEN m ELSE 0
  BY <1>1, <1>2 DEF Outcome
<1>4. /\ own + tracked + rest <= MaxPending
      /\ state' = new
      /\ own' = own + tracked + rest
      /\ chunk_in_buffer_num' = (chunk_in_buffer_num + tracked + rest) % Modulus
      /\ sent' = sent \cup headers
                   \cup (IF kind = "sh" /\ head + rest > 0 THEN {Header(type)} ELSE {})
      /\ unchecked' = Unchecked(kind, tracked, rest)
      /\ gap' = IF type = "video" THEN GapAfter(kind, head + rest) ELSE gap
      /\ last' = [inter |-> type = "video" /\ kind = "inter", before |-> gap,
                  got |-> IF head + rest = 0 THEN "none"
                          ELSE IF head + rest = m THEN "all" ELSE "part"]
  BY DEF Handled
<1>5. own' \in 0..MaxPending
  BY <1>1, <1>2, <1>4 DEF TypeOK
<1>6. chunk_in_buffer_num + tracked + rest \in Int
  BY <1>1, <1>2, BufferAssumption DEF TypeOK
<1>7. chunk_in_buffer_num' \in 0..(Modulus - 1)
  BY <1>4, <1>6, InRange
<1>8. sent' \in SUBSET Headers /\ sent \cup headers \subseteq sent'
  BY <1>2, <1>4 DEF TypeOK, Header, Headers
<1>9. /\ last' \in Message
      /\ last'.inter = (type = "video" /\ kind = "inter") /\ last'.before = gap
      /\ last'.got = (IF new \in Forwards(type) THEN "all" ELSE "none")
  <2>1. last' = [inter |-> type = "video" /\ kind = "inter", before |-> gap,
                 got |-> IF new \in Forwards(type) THEN "all" ELSE "none"]
    BY <1>1, <1>3, <1>4
  <2>. QED  BY <2>1 DEF Message, TypeOK
<1>10. /\ gap' \in Gap
       /\ type = "audio" => gap' = gap
       /\ type = "video" /\ new \in Forwards(type) =>
            gap' = IF kind \in {"key", "sh"} THEN "none" ELSE gap
  <2>1. head + rest = 0 <=> new \notin Forwards(type)
    BY <1>1, <1>3
  <2>. QED  BY <1>4, <2>1 DEF TypeOK, GapAfter, Gap
<1>11. unchecked' \in 0..MaxPending
  <2>1. /\ own + tracked + rest \in 0..MaxPending
        /\ unchecked \in 0..MaxPending /\ 0 \in 0..MaxPending
        /\ unchecked + tracked + rest <= own + tracked + rest =>
             unchecked + tracked + rest \in 0..MaxPending
    BY <1>1, <1>2, <1>4, BufferAssumption DEF TypeOK
  <2> QED
    BY <1>4, <2>1 DEF Unchecked
<1>. QED  BY <1>2, <1>3, <1>4, <1>5, <1>7, <1>8, <1>9, <1>10, <1>11

\* The key cache keeps its type, and with video that began at the start a message
\* never takes the video's sequence header away.
LEMMA CacheTypes ==
  ASSUME TypeOK, NEW kind, NEW sh \in {"video_sh", "audio_sh"}, CacheAfter(kind, sh)
  PROVE  /\ cached' \in SUBSET {"metadata", "video_sh", "audio_sh", "gop"}
         /\ gop_counter' \in 0..MAX_GOP_LEN
         /\ key_led' \in BOOLEAN
         /\ "video_sh" \in cached => "video_sh" \in cached'
<1>1. gop_counter \in 0..MAX_GOP_LEN /\ MAX_GOP_LEN \in Nat /\ key_led \in BOOLEAN
      /\ cached \in SUBSET {"metadata", "video_sh", "audio_sh", "gop"}
  BY BufferAssumption DEF TypeOK
<1>2. PICK new \in SUBSET {"video_sh", "audio_sh"}, key \in BOOLEAN :
        StartGop(new, key) \/ JoinGop(new)
  <2>1. {} \in SUBSET {"video_sh", "audio_sh"} /\ {sh} \in SUBSET {"video_sh", "audio_sh"}
    OBVIOUS
  <2>. QED  BY <2>1 DEF CacheAfter
<1>3. CASE StartGop(new, key)
  BY <1>1, <1>3 DEF StartGop
<1>4. CASE JoinGop(new) /\ "gop" \in cached /\ gop_counter = MAX_GOP_LEN
  <2>1. cached' = (cached \ {"gop"}) \cup new /\ gop_counter' = 0 /\ key_led' = FALSE
    BY <1>4 DEF JoinGop
  <2>2. gop_counter' \in 0..MAX_GOP_LEN
    BY <1>1, <2>1
  <2>. QED  BY <1>1, <2>1, <2>2
<1>5. CASE JoinGop(new) /\ ~("gop" \in cached /\ gop_counter = MAX_GOP_LEN)
  <2>1. cached' = cached \cup new /\ key_led' = key_led
        /\ gop_counter' = IF "gop" \in cached THEN gop_counter + 1 ELSE gop_counter
    BY <1>5 DEF JoinGop
  <2>2. gop_counter' \in 0..MAX_GOP_LEN
    BY <1>1, <1>5, <2>1
  <2>. QED  BY <1>1, <2>1, <2>2
<1>. QED  BY <1>2, <1>3, <1>4, <1>5

\* What the player has got: whole messages; the metadata before it is in a state that
\* forwards anything; and with video from the start no state in which it forwards
\* pictures after a gap.
Got == /\ TypeOK /\ WholeMessages /\ MetadataFirst
       /\ StreamKind = "both" =>
            /\ state \notin {"WAIT_VIDEO_SH", "WAIT_AUDIO_SLOW_SPEED"}
            /\ state \in Forwards("video") => gap # "missed"
            /\ GapEndsAtKeyframe

\* No message is the record that stands for none.
LEMMA NotNoMessage == \A r \in Message : r # NoMessage
  BY DEF Message, NoMessage

\* The state a handled message leaves.
LEMMA HandledTo ==
  \A type, kind, m, new, headers, head, tracked :
    Handled(type, kind, m, new, headers, head, tracked) => state' = new
  BY DEF Handled

\* A video message keeps it.
LEMMA VideoGot ==
  ASSUME Got, NEW kind \in VideoKind, NEW m \in 1..MaxChunks, VideoMsg(kind, m)
  PROVE  Got'
<1>1. /\ UNCHANGED <<publishing, open, stale, plays, inherited, fed>>
      /\ cached' \in SUBSET {"metadata", "video_sh", "audio_sh", "gop"}
      /\ gop_counter' \in 0..MAX_GOP_LEN /\ key_led' \in BOOLEAN
  BY CacheTypes DEF VideoMsg, Got
<1>2. CASE NotFed
  BY <1>1, <1>2 DEF NotFed, historyVars, Got, TypeOK, WholeMessages, MetadataFirst,
                    GapEndsAtKeyframe
<1>3. CASE SendVideo(kind, m)
  <2>1. PICK new, headers, head, tracked :
          /\ Handled("video", kind, m, new, headers, head, tracked)
          /\ Outcome("video", new, headers, head, tracked)
    BY <1>3, VideoOutcome DEF Got
  <2>2. /\ state' = new /\ state' \in ConsumerState \cup {None}
        /\ own' \in 0..MaxPending
        /\ chunk_in_buffer_num' \in 0..(Modulus - 1)
        /\ unchecked' \in 0..MaxPending
        /\ sent' \in SUBSET Headers /\ sent \cup headers \subseteq sent'
        /\ gap' \in Gap
        /\ last' \in Message
        /\ last'.inter = (kind = "inter") /\ last'.before = gap
        /\ last'.got = (IF new \in Forwards("video") THEN "all" ELSE "none")
        /\ new \in Forwards("video") => gap' = IF kind \in {"key", "sh"} THEN "none" ELSE gap
    BY <2>1, HandledTypes DEF Got
  <2>3. TypeOK'
    BY <1>1, <2>2 DEF Got, TypeOK, Headers
  <2>4. WholeMessages'
    BY <2>2 DEF WholeMessages
  <2>5. MetadataFirst'
    <3>1. state = "WAIT_METADATA" /\ new # state => "metadata" \in sent'
      BY <2>1, <2>2 DEF Outcome
    <3>2. new \in Forwards("video") \cup Forwards("audio") \cup Slow => "metadata" \in sent'
      BY <2>1, <2>2, <3>1 DEF Outcome, Got, MetadataFirst, Forwards, Slow
    <3>3. last'.got # "none" => new \in Forwards("video")
      BY <2>2
    <3>. QED  BY <2>2, <3>2, <3>3 DEF MetadataFirst
  <2>6. ASSUME StreamKind = "both"
        PROVE  /\ state' \notin {"WAIT_VIDEO_SH", "WAIT_AUDIO_SLOW_SPEED"}
               /\ state' \in Forwards("video") => gap' # "missed"
               /\ GapEndsAtKeyframe'
    <3>1. state \notin {"WAIT_VIDEO_SH", "WAIT_AUDIO_SLOW_SPEED"}
          /\ (state \in Forwards("video") => gap # "missed")
      BY <2>6 DEF Got
    <3>2. /\ state' \notin {"WAIT_VIDEO_SH", "WAIT_AUDIO_SLOW_SPEED"}
          /\ kind \notin {"key", "sh"} /\ state \notin Forwards("video") =>
               new \notin Forwards("video")
      BY <1>3, <2>2, <3>1, HandledTo DEF SendVideo, Forwards, Resumes
    <3>3. state' \in Forwards("video") => gap' # "missed"
      BY <2>2, <3>1, <3>2
    <3>4. GapEndsAtKeyframe'
      <4>1. kind = "inter" /\ new \in Forwards("video") => gap # "missed"
        BY <3>1, <3>2
      <4>2. last'.got # "none" => new \in Forwards("video")
        BY <2>2
      <4>. QED  BY <2>2, <4>1, <4>2 DEF GapEndsAtKeyframe
    <3>. QED  BY <3>2, <3>3, <3>4
  <2>. QED  BY <2>3, <2>4, <2>5, <2>6 DEF Got
<1>. QED  BY <1>2, <1>3 DEF VideoMsg

\* An audio message keeps it: with video from the start it finds the video's sequence
\* header in the cache, so that no player starts with it.
LEMMA AudioGot ==
  ASSUME Got, NEW kind \in AudioKind, NEW m \in 1..MaxChunks, AudioMsg(kind, m)
  PROVE  Got'
<1>1. /\ UNCHANGED <<publishing, open, stale, plays, inherited, fed>>
      /\ cached' \in SUBSET {"metadata", "video_sh", "audio_sh", "gop"}
      /\ gop_counter' \in 0..MAX_GOP_LEN /\ key_led' \in BOOLEAN
  BY CacheTypes DEF AudioMsg, Got
<1>2. CASE NotFed
  BY <1>1, <1>2 DEF NotFed, historyVars, Got, TypeOK, WholeMessages, MetadataFirst,
                    GapEndsAtKeyframe
<1>3. CASE SendAudio(kind, m)
  <2>1. PICK new, headers, head, tracked :
          /\ Handled("audio", kind, m, new, headers, head, tracked)
          /\ Outcome("audio", new, headers, head, tracked)
    BY <1>3, AudioOutcome DEF Got
  <2>2. /\ state' = new /\ state' \in ConsumerState \cup {None}
        /\ own' \in 0..MaxPending
        /\ chunk_in_buffer_num' \in 0..(Modulus - 1)
        /\ unchecked' \in 0..MaxPending
        /\ sent' \in SUBSET Headers /\ sent \cup headers \subseteq sent'
        /\ gap' \in Gap
        /\ last' \in Message
        /\ ~last'.inter
        /\ last'.got = (IF new \in Forwards("audio") THEN "all" ELSE "none")
        /\ gap' = gap
    BY <2>1, HandledTypes DEF Got
  <2>3. TypeOK'
    BY <1>1, <2>2 DEF Got, TypeOK, Headers
  <2>4. WholeMessages'
    BY <2>2 DEF WholeMessages
  <2>5. MetadataFirst'
    <3>1. state = "WAIT_METADATA" /\ new # state => "metadata" \in sent'
      BY <2>1, <2>2 DEF Outcome
    <3>2. new \in Forwards("video") \cup Forwards("audio") \cup Slow => "metadata" \in sent'
      BY <2>1, <2>2, <3>1 DEF Outcome, Got, MetadataFirst, Forwards, Slow
    <3>3. last'.got # "none" => new \in Forwards("audio")
      BY <2>2
    <3>. QED  BY <2>2, <3>2, <3>3 DEF MetadataFirst
  <2>6. ASSUME StreamKind = "both"
        PROVE  /\ state' \notin {"WAIT_VIDEO_SH", "WAIT_AUDIO_SLOW_SPEED"}
               /\ state' \in Forwards("video") => gap' # "missed"
               /\ GapEndsAtKeyframe'
    <3>1. state \notin {"WAIT_VIDEO_SH", "WAIT_AUDIO_SLOW_SPEED"}
          /\ (state \in Forwards("video") => gap # "missed") /\ "video_sh" \in cached
      BY <2>6 DEF Got, AudioMsg
    <3>2. state' \notin {"WAIT_VIDEO_SH", "WAIT_AUDIO_SLOW_SPEED"}
          /\ (state' \in Forwards("video") => state \in Forwards("video"))
      BY <1>3, <2>2, <3>1, HandledTo DEF SendAudio, Forwards, Resumes
    <3>3. GapEndsAtKeyframe'
      BY <2>2 DEF GapEndsAtKeyframe
    <3>. QED  BY <2>2, <3>1, <3>2, <3>3
  <2>. QED  BY <2>3, <2>4, <2>5, <2>6 DEF Got
<1>. QED  BY <1>2, <1>3 DEF AudioMsg

\* The player comes, goes, is closed, and its socket drains.
LEMMA PlayerGot ==
  ASSUME Got, Player
  PROVE  Got'
<1> USE DEF WholeMessages, MetadataFirst, GapEndsAtKeyframe, Forwards, Slow
<1>0. /\ TypeOK /\ 0 \in 0..(Modulus - 1)
      /\ MaxPending \in Nat /\ MaxPlays \in Nat
      /\ \A x \in Forwards("video") \cup Forwards("audio") \cup Slow : None # x
  BY BufferAssumption, StateAssumption DEF Got, ConsumerState
<1>1. CASE Play
  <2>1. plays' \in 0..MaxPlays
    BY <1>0, <1>1 DEF Play, TypeOK
  <2>2. state' \in ConsumerState /\ gap' \in Gap
        /\ sent' \in SUBSET {"metadata", "video_sh", "audio_sh"}
    BY <1>0, <1>1 DEF Play, TypeOK, ConsumerState, Gap
  <2>3. TypeOK'
    BY <1>0, <1>1, <2>1, <2>2 DEF Play, TypeOK, sourceVars
  <2>4. /\ state' \in {"RUN", "WAIT_AUDIO_SH"} /\ "metadata" \in sent' /\ gap' # "missed"
        \/ state' = "WAIT_METADATA"
    BY <1>1 DEF Play, GroupCached
  <2>5. last' = NoMessage
    BY <1>1 DEF Play
  <2>. QED  BY <2>3, <2>4, <2>5 DEF Got
<1>2. CASE Unplay
  <2>1. stale' \in 0..MaxPending /\ own' \in 0..MaxPending
        /\ chunk_in_buffer_num' \in 0..(Modulus - 1)
    BY <1>0, <1>2 DEF Unplay, TypeOK
  <2>2. TypeOK'
    BY <1>0, <1>2, <2>1 DEF Unplay, TypeOK, sourceVars
  <2>3. state' = None /\ last' = NoMessage
    BY <1>2 DEF Unplay
  <2>. QED  BY <1>0, <2>2, <2>3, StateAssumption DEF Got, ConsumerState
<1>3. CASE Close
  <2>1. TypeOK'
    BY <1>0, <1>3 DEF Close, TypeOK, ConsumerState, sourceVars, historyVars
  <2>2. state' \in {None, "END"} /\ UNCHANGED historyVars
    BY <1>3 DEF Close
  <2>. QED  BY <1>0, <2>1, <2>2, StateAssumption DEF Got, ConsumerState, historyVars
<1>4. CASE Deleted
  <2>0. 0 \in 0..MaxPlays
    BY <1>0
  <2>1. TypeOK'
    BY <1>0, <1>4, <2>0 DEF Deleted, TypeOK, sourceVars, Gap
  <2>2. state' = None /\ last' = NoMessage
    BY <1>4 DEF Deleted
  <2>. QED  BY <1>0, <2>1, <2>2, StateAssumption DEF Got, ConsumerState
<1>5. CASE WriteDone
  <2>1. stale' \in 0..MaxPending /\ own' \in 0..MaxPending
    BY <1>0, <1>5 DEF WriteDone, TypeOK
  <2>2. chunk_in_buffer_num' \in 0..(Modulus - 1)
    <3>1. chunk_in_buffer_num - 1 \in Int
      BY <1>0, BufferAssumption DEF TypeOK
    <3>. QED  BY <1>0, <1>5, <3>1, InRange DEF WriteDone
  <2>3. TypeOK'
    BY <1>0, <1>5, <2>1, <2>2 DEF WriteDone, TypeOK, sourceVars, historyVars
  <2>4. UNCHANGED <<state, historyVars>>
    BY <1>5 DEF WriteDone
  <2>. QED  BY <2>3, <2>4 DEF Got, historyVars
<1>. QED  BY <1>1, <1>2, <1>3, <1>4, <1>5 DEF Player

\* Publishing, ending and the metadata touch only the source.
LEMMA SourceGot ==
  ASSUME Got, Publish \/ Unpublish \/ Metadata \/ UNCHANGED vars
  PROVE  Got'
<1>1. UNCHANGED <<socketVars, state, chunk_in_buffer_num, historyVars>>
  BY DEF Publish, Unpublish, Metadata, vars
<1>2. /\ publishing' \in BOOLEAN /\ fed' \in BOOLEAN /\ key_led' \in BOOLEAN
      /\ cached' \in SUBSET {"metadata", "video_sh", "audio_sh", "gop"}
  BY DEF Got, TypeOK, Publish, Unpublish, Metadata, vars, sourceVars
<1>3. gop_counter' \in 0..MAX_GOP_LEN
  BY BufferAssumption DEF Got, TypeOK, Publish, Unpublish, Metadata, vars, sourceVars
<1>4. TypeOK'
  BY <1>1, <1>2, <1>3 DEF Got, TypeOK, socketVars, historyVars
<1>. QED  BY <1>1, <1>4 DEF Got, WholeMessages, MetadataFirst, GapEndsAtKeyframe, historyVars

\* What the player has got is right throughout.
LEMMA GotInvariant == Spec => []Got
<1>1. Init => Got
  <2> SUFFICES ASSUME Init PROVE Got
    OBVIOUS
  <2>0. /\ 0 \in 0..MAX_GOP_LEN /\ 0 \in 0..(Modulus - 1)
        /\ 0 \in 0..MaxPending /\ 0 \in 0..MaxPlays
    BY BufferAssumption
  <2>1. TypeOK
    BY <2>0 DEF Init, TypeOK, Gap
  <2>2. state = None /\ last = NoMessage
    BY DEF Init
  <2>. QED  BY <2>1, <2>2, StateAssumption
            DEF Got, WholeMessages, MetadataFirst, GapEndsAtKeyframe, Forwards, Slow, ConsumerState
<1>2. Got /\ [Next]_vars => Got'
  <2> SUFFICES ASSUME Got, [Next]_vars PROVE Got'
    OBVIOUS
  <2>1. ASSUME NEW m \in 1..MaxChunks, NEW kind \in VideoKind, VideoMsg(kind, m) PROVE Got'
    BY <2>1, VideoGot
  <2>2. ASSUME NEW m \in 1..MaxChunks, NEW kind \in AudioKind, AudioMsg(kind, m) PROVE Got'
    BY <2>2, AudioGot
  <2>. QED  BY <2>1, <2>2, PlayerGot, SourceGot DEF Next, Publisher
<1>. QED  BY <1>1, <1>2, PTL DEF Spec

\* The variables of PlayerFlow keep their types, for every kind of stream and player.
THEOREM FlowTypes == Spec => []TypeOK
<1>1. Got => TypeOK
  BY DEF Got
<1>. QED  BY <1>1, GotInvariant, PTL

\* consumer_send_video and consumer_send_audio never cut a message in two: all its
\* chunks reach the player or none, type 3 heads included.
THEOREM MessagesAreWhole == Spec => []WholeMessages
<1>1. Got => WholeMessages
  BY DEF Got
<1>. QED  BY <1>1, GotInvariant, PTL

\* Nothing reaches a player before the metadata of the stream.
THEOREM MetadataComesFirst == Spec => []MetadataFirst
<1>1. Got => MetadataFirst
  BY DEF Got
<1>. QED  BY <1>1, GotInvariant, PTL

\* In a stream with video from the start, a player that has missed a picture gets no
\* inter frame before the next key frame, however it slows down, resumes and replays.
THEOREM GapsEndAtKeyframes ==
  ASSUME StreamKind = "both"
  PROVE  Spec => []GapEndsAtKeyframe
<1>1. Got => GapEndsAtKeyframe
  BY DEF Got
<1>. QED  BY <1>1, GotInvariant, PTL
=============================================================================
