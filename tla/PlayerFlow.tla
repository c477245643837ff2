------------------------------ MODULE PlayerFlow ------------------------------
(***************************************************************************)
(* What one player gets of a stream: the state machine of its consumer     *)
(* (consumer_send_video, consumer_send_audio), the key cache of the source *)
(* it is fed from (av_buffer_t) and the count of chunks that wait in its   *)
(* socket (chunk_in_buffer_num), which the write callbacks bring down.     *)
(*                                                                         *)
(* A message is dispatched chunk by chunk within one event of the loop, so *)
(* it is one action here; between two of them the socket drains, the       *)
(* player comes, goes or is closed, and the publisher starts over.         *)
(***************************************************************************)
EXTENDS Integers

CONSTANTS
  None,                  \* no consumer
  MAX_CHUNK_BUFFER_LEN,  \* 400 in the code
  MAX_GOP_LEN,           \* 1000 in the code
  Modulus,               \* 2^32: chunk_in_buffer_num is a uint32_t
  MaxChunks,             \* bound on the chunks of a message
  MaxPending,            \* bound on the chunks written and not yet called back
  MaxPlays,              \* bound on how often one connection plays
  StreamKind,            \* "both": video from the start; "audio": no video;
                         \* "any": the video may come later
  StrayKey,              \* what chunk_is_keyframe may say of an empty chain, whose
                         \* head is whatever memory lies there
  Type3Heads             \* the publisher may begin a message with a type 3 chunk

ASSUME BufferAssumption ==
  /\ MAX_CHUNK_BUFFER_LEN \in Nat \ {0}
  /\ MAX_GOP_LEN \in Nat
  /\ MaxChunks \in Nat \ {0}
  /\ MaxPending \in Nat
  /\ MaxPlays \in Nat \ {0}
  /\ Modulus \in Nat
  /\ Modulus > MaxPending /\ Modulus > MAX_CHUNK_BUFFER_LEN
ASSUME StreamAssumption ==
  /\ StreamKind \in {"both", "audio", "any"}
  /\ StrayKey \in SUBSET BOOLEAN
  /\ Type3Heads \in BOOLEAN

VARIABLES
  publishing,           \* the source carries the stream
  cached,               \* what key_cache holds
  gop_counter,
  open,                 \* the player's uv_client is not NULL
  state,                \* the consumer's state; None without a play_consumer
  fed,                  \* the consumer is in consumer_queue
  chunk_in_buffer_num,
  own,                  \* writes with consumer_write_chunk_cb of this consumer in
                        \* the socket
  stale,                \* and those of the consumers the client had before
  plays,                \* how often this connection has played
  key_led,              \* history: the cached group begins with a key frame
  inherited,            \* history: the stale writes when the present consumer came
  unchecked,            \* history: its chunks of messages that began with type 3,
                        \* since it let a message pass for there was room
  sent,                 \* history: the headers the player has got
  gap,                  \* history: what the next inter frame builds on is there
                        \* ("none"), was missed ("missed"), or was not in the group
                        \* the player was started with ("headless")
  last                  \* history: what happened to the last message

sourceVars  == <<publishing, cached, gop_counter, key_led>>
socketVars  == <<open, own, stale, plays, inherited>>
historyVars == <<unchecked, sent, gap, last>>
vars == <<sourceVars, socketVars, state, fed, chunk_in_buffer_num, historyVars>>

Slow == {"WAIT_VIDEO_SLOW_SPEED", "WAIT_AUDIO_SLOW_SPEED"}

ConsumerState == {"WAIT_METADATA", "WAIT_AUDIO_SH", "WAIT_VIDEO_SH", "RUN", "END"} \cup Slow

ASSUME StateAssumption == None \notin ConsumerState

\* The messages, by what the code can tell from the first chunk of each: a message
\* that begins with a type 3 chunk is neither a key frame nor a sequence header, and
\* ADPCM sound has the bits of a key frame.
VideoKind == {"sh", "key", "inter"} \cup (IF Type3Heads THEN {"type3"} ELSE {})
AudioKind == {"sh", "raw", "adpcm"} \cup (IF Type3Heads THEN {"type3"} ELSE {})

Gap == {"none", "missed", "headless"}

\* What the history keeps of a message: is it an inter frame, how much of it did the
\* player get, and the gap before it.
Message == [inter : BOOLEAN, got : {"none", "part", "all"}, before : Gap]
NoMessage == [got |-> "nothing"]

TypeOK ==
  /\ publishing \in BOOLEAN
  /\ cached \in SUBSET {"metadata", "video_sh", "audio_sh", "gop"}
  /\ gop_counter \in 0..MAX_GOP_LEN
  /\ open \in BOOLEAN
  /\ state \in ConsumerState \cup {None}
  /\ fed \in BOOLEAN
  /\ chunk_in_buffer_num \in 0..(Modulus - 1)
  /\ own \in 0..MaxPending
  /\ stale \in 0..MaxPending
  /\ plays \in 0..MaxPlays
  /\ key_led \in BOOLEAN
  /\ inherited \in 0..MaxPending
  /\ unchecked \in 0..MaxPending
  /\ sent \in SUBSET {"metadata", "video_sh", "audio_sh"}
  /\ gap \in Gap
  /\ last \in Message \cup {NoMessage}

Init ==
  /\ publishing = FALSE
  /\ cached = {}
  /\ gop_counter = 0
  /\ open = TRUE
  /\ state = None
  /\ fed = FALSE
  /\ chunk_in_buffer_num = 0
  /\ own = 0
  /\ stale = 0
  /\ plays = 0
  /\ key_led = FALSE
  /\ inherited = 0
  /\ unchecked = 0
  /\ sent = {}
  /\ gap = "missed"
  /\ last = NoMessage

-----------------------------------------------------------------------------
(* The key cache of the source. *)

\* Mutant: a message joins the group however long it is.
JoinGopUnlimited(new) ==
  /\ cached' = cached \cup new
  /\ gop_counter' = IF "gop" \in cached THEN gop_counter + 1 ELSE gop_counter
  /\ key_led' = key_led

\* A message joins the group of pictures, if there is one, until it is too long.
JoinGop(new) ==
  IF "gop" \in cached /\ gop_counter = MAX_GOP_LEN
  THEN cached' = (cached \ {"gop"}) \cup new /\ gop_counter' = 0 /\ key_led' = FALSE
  ELSE /\ cached' = cached \cup new
       /\ gop_counter' = IF "gop" \in cached THEN gop_counter + 1 ELSE gop_counter
       /\ key_led' = key_led

\* What looks like a key frame starts the group anew; `key' says whether it is one.
StartGop(new, key) ==
  /\ cached' = cached \cup {"gop"} \cup new
  /\ gop_counter' = 0
  /\ key_led' = key

\* on_video_msg and on_audio_msg: a sequence header is cached, which takes its chunks
\* away before add_msg_to_gop looks at the first of them, in sound and pictures alike.
CacheAfter(kind, sh) ==
  \/ kind = "key" /\ StartGop({}, TRUE)
  \/ kind = "adpcm" /\ StartGop({}, FALSE)
  \/ kind \notin {"key", "adpcm", "sh"} /\ JoinGop({})
  \/ kind = "sh" /\ TRUE \in StrayKey /\ StartGop({sh}, FALSE)
  \/ kind = "sh" /\ FALSE \in StrayKey /\ JoinGop({sh})

-----------------------------------------------------------------------------
(* One message at the consumer. *)

\* The states in which a chunk of the message is forwarded as it is.
\* Mutant: the two waiting states mixed up.
ForwardsSwapped(type) == {"RUN", IF type = "audio" THEN "WAIT_AUDIO_SH" ELSE "WAIT_VIDEO_SH"}

Forwards(type) == {"RUN", IF type = "video" THEN "WAIT_AUDIO_SH" ELSE "WAIT_VIDEO_SH"}

Header(type) == IF type = "video" THEN "video_sh" ELSE "audio_sh"

\* The chunks that got past TooMany because it does not look at a type 3 head; no more
\* of them count than there are writes, and a message that was let pass is a new start.
Unchecked(kind, tracked, rest) ==
  LET more == unchecked + tracked + rest IN
  IF kind = "type3" THEN IF more <= own + tracked + rest THEN more ELSE own + tracked + rest
  ELSE IF tracked = 1 THEN 0 ELSE unchecked

\* A video message that was not sent is missed; one with the bits of a key frame ends a
\* gap, a sequence header included.
GapAfter(kind, got) ==
  IF got = 0 THEN "missed" ELSE IF kind \in {"key", "sh"} THEN "none" ELSE gap

\* The head of a message of m chunks has been handled: the consumer is in `new', it
\* was sent `headers', and `head' chunks of which `tracked' with the callback that
\* counts.  The type 3 chunks that follow go out if `new' forwards them.
Handled(type, kind, m, new, headers, head, tracked) ==
  LET rest == IF new \in Forwards(type) THEN m - 1 ELSE 0
      got == head + rest
  IN /\ own + tracked + rest <= MaxPending
     /\ state' = new
     /\ own' = own + tracked + rest
     /\ chunk_in_buffer_num' = (chunk_in_buffer_num + tracked + rest) % Modulus
     /\ sent' = sent \cup headers
                  \cup (IF kind = "sh" /\ got > 0 THEN {Header(type)} ELSE {})
     /\ unchecked' = Unchecked(kind, tracked, rest)
     /\ gap' = IF type = "video" THEN GapAfter(kind, got) ELSE gap
     /\ last' = [inter |-> type = "video" /\ kind = "inter", before |-> gap,
                 got |-> IF got = 0 THEN "none" ELSE IF got = m THEN "all" ELSE "part"]

\* The chunk is not type 3, and more chunks than allowed wait already.
\* Mutant: one too late.
TooManyLate(kind) == kind # "type3" /\ chunk_in_buffer_num > MAX_CHUNK_BUFFER_LEN + 1

TooMany(kind) == kind # "type3" /\ chunk_in_buffer_num > MAX_CHUNK_BUFFER_LEN

\* Few enough chunks wait and the message can be begun with.
\* Mutant: any message will do.
ResumesAnywhere(good) == chunk_in_buffer_num < MAX_CHUNK_BUFFER_LEN

Resumes(good) == good /\ chunk_in_buffer_num < MAX_CHUNK_BUFFER_LEN

\* consumer_send_video for the chunks of one message; a sequence header is a key
\* frame to chunk_is_keyframe.
SendVideo(kind, m) ==
  LET key == kind \in {"key", "sh"} IN
  \/ /\ state \in Forwards("video")
     /\ IF TooMany(kind) THEN Handled("video", kind, m, "WAIT_VIDEO_SLOW_SPEED", {}, 0, 0)
        ELSE Handled("video", kind, m, state, {}, 1, 1)
  \/ /\ state = "WAIT_METADATA" /\ key /\ {"metadata", "video_sh"} \subseteq cached
     /\ Handled("video", kind, m, "WAIT_AUDIO_SH", {"metadata", "video_sh"}, 1, 0)
  \/ /\ state = "WAIT_VIDEO_SH" /\ key /\ "video_sh" \in cached
     /\ Handled("video", kind, m, "RUN", {"video_sh"}, 1, 0)
  \/ /\ state = "WAIT_VIDEO_SLOW_SPEED" /\ Resumes(key)
     /\ Handled("video", kind, m, "RUN", {}, 1, 1)
  \/ /\ state \notin Forwards("video")
     /\ state = "WAIT_METADATA" => ~(key /\ {"metadata", "video_sh"} \subseteq cached)
     /\ state = "WAIT_VIDEO_SH" => ~(key /\ "video_sh" \in cached)
     /\ state = "WAIT_VIDEO_SLOW_SPEED" => ~Resumes(key)
     /\ Handled("video", kind, m, state, {}, 0, 0)

\* consumer_send_audio for the chunks of one message.
SendAudio(kind, m) ==
  LET head == kind # "type3"
      start == head /\ "metadata" \in cached /\ "video_sh" \notin cached
      audio_sh == {"audio_sh"} \cap cached
  IN
  \/ /\ state \in Forwards("audio")
     /\ IF TooMany(kind)
        THEN Handled("audio", kind, m,
                     IF state = "RUN" THEN "WAIT_VIDEO_SLOW_SPEED"
                     ELSE "WAIT_AUDIO_SLOW_SPEED", {}, 0, 0)
        ELSE Handled("audio", kind, m, state, {}, 1, 1)
  \/ /\ state = "WAIT_METADATA" /\ start
     /\ Handled("audio", kind, m, "WAIT_VIDEO_SH", {"metadata"} \cup audio_sh, 1, 0)
  \/ /\ state = "WAIT_AUDIO_SH" /\ audio_sh # {}
     /\ Handled("audio", kind, m, "RUN", audio_sh, 1, 0)
  \/ /\ state = "WAIT_AUDIO_SLOW_SPEED" /\ Resumes(head)
     /\ Handled("audio", kind, m, "RUN", {}, 1, 1)
  \/ /\ state \notin Forwards("audio")
     /\ state = "WAIT_METADATA" => ~start
     /\ state = "WAIT_AUDIO_SH" => audio_sh = {}
     /\ state = "WAIT_AUDIO_SLOW_SPEED" => ~Resumes(head)
     /\ Handled("audio", kind, m, state, {}, 0, 0)

\* A consumer that is in no queue is not reached.
NotFed == ~fed /\ UNCHANGED <<state, own, chunk_in_buffer_num, historyVars>>

-----------------------------------------------------------------------------
(* The publisher. *)

Publish ==
  /\ ~publishing
  /\ publishing' = TRUE
  /\ UNCHANGED <<cached, gop_counter, key_led, socketVars, state, fed, chunk_in_buffer_num,
                 historyVars>>

\* collect_source: clear_consumer lets the player go and empties the cache.
Unpublish ==
  /\ publishing
  /\ publishing' = FALSE
  /\ cached' = {}
  /\ gop_counter' = 0
  /\ key_led' = FALSE
  /\ fed' = FALSE
  /\ UNCHANGED <<socketVars, state, chunk_in_buffer_num, historyVars>>

\* on_metadata: metadata is cached, and sent when a player starts.
Metadata ==
  /\ publishing
  /\ cached' = cached \cup {"metadata"}
  /\ UNCHANGED <<publishing, gop_counter, key_led, socketVars, state, fed, chunk_in_buffer_num,
                 historyVars>>

\* msg_video_decode: every chunk to every consumer, then the message to the cache.
VideoMsg(kind, m) ==
  /\ publishing
  /\ StreamKind # "audio"
  /\ NotFed \/ (fed /\ SendVideo(kind, m))
  /\ CacheAfter(kind, "video_sh")
  /\ UNCHANGED <<publishing, open, stale, plays, inherited, fed>>

\* msg_audio_decode.
AudioMsg(kind, m) ==
  /\ publishing
  /\ StreamKind = "both" => "video_sh" \in cached
  /\ NotFed \/ (fed /\ SendAudio(kind, m))
  /\ CacheAfter(kind, "audio_sh")
  /\ UNCHANGED <<publishing, open, stale, plays, inherited, fed>>

-----------------------------------------------------------------------------
(* The player. *)

\* add_consumer can start the player at once.  Mutant: the metadata is not looked at.
GroupCachedNoMetadata == {"gop", "video_sh"} \subseteq cached

GroupCached == {"gop", "metadata", "video_sh"} \subseteq cached

\* play_stream of a published stream: init_consumer, then add_consumer, which sends
\* the cached headers and the group of pictures when it has them all.
Play ==
  /\ open /\ publishing /\ state = None
  /\ plays < MaxPlays
  /\ plays' = plays + 1
  /\ fed' = TRUE
  /\ chunk_in_buffer_num' = 0
  /\ inherited' = stale
  /\ unchecked' = 0
  /\ IF GroupCached
     THEN /\ state' = IF "audio_sh" \in cached THEN "RUN" ELSE "WAIT_AUDIO_SH"
          /\ sent' = cached \ {"gop"}
          /\ gap' = IF key_led THEN "none" ELSE "headless"
     ELSE /\ state' = "WAIT_METADATA"
          /\ sent' = {}
          /\ gap' = "missed"
  /\ last' = NoMessage
  /\ UNCHANGED <<sourceVars, open, own, stale>>

\* unplay_stream: free_consumer; its writes stay in the socket.
Unplay ==
  /\ open /\ state # None
  /\ own + stale <= MaxPending
  /\ state' = None
  /\ fed' = FALSE
  /\ stale' = stale + own
  /\ own' = 0
  /\ chunk_in_buffer_num' = 0
  /\ inherited' = 0
  /\ unchecked' = 0
  /\ last' = NoMessage
  /\ UNCHANGED <<sourceVars, open, plays, sent, gap>>

\* RtmpClient::close.
Close ==
  /\ open
  /\ open' = FALSE
  /\ state' = IF state = None THEN None ELSE "END"
  /\ UNCHANGED <<sourceVars, own, stale, plays, inherited, fed, chunk_in_buffer_num,
                 historyVars>>

\* The close callback, after the callbacks of all writes: free_consumer, and another
\* connection takes the place of this one.
Deleted ==
  /\ ~open
  /\ own = 0 /\ stale = 0
  /\ open' = TRUE
  /\ state' = None
  /\ fed' = FALSE
  /\ chunk_in_buffer_num' = 0
  /\ plays' = 0
  /\ inherited' = 0
  /\ unchecked' = 0
  /\ sent' = {}
  /\ gap' = "missed"
  /\ last' = NoMessage
  /\ UNCHANGED <<sourceVars, own, stale>>

\* Mutant: the consumer is not counted down while it is slow.
WriteDoneUnlessSlow ==
  /\ own + stale > 0
  /\ IF stale > 0 THEN stale' = stale - 1 /\ own' = own
     ELSE own' = own - 1 /\ stale' = stale
  /\ chunk_in_buffer_num' =
       IF state = None THEN 0
       ELSE IF state \in Slow THEN chunk_in_buffer_num
       ELSE (chunk_in_buffer_num - 1) % Modulus
  /\ UNCHANGED <<sourceVars, open, plays, inherited, state, fed, historyVars>>

\* consumer_write_chunk_cb, in the order of the writes: it counts down whatever
\* consumer the client has now.
WriteDone ==
  /\ own + stale > 0
  /\ IF stale > 0 THEN stale' = stale - 1 /\ own' = own
     ELSE own' = own - 1 /\ stale' = stale
  /\ chunk_in_buffer_num' =
       IF state = None THEN 0 ELSE (chunk_in_buffer_num - 1) % Modulus
  /\ UNCHANGED <<sourceVars, open, plays, inherited, state, fed, historyVars>>

-----------------------------------------------------------------------------

Publisher ==
  \/ Publish \/ Unpublish \/ Metadata
  \/ \E m \in 1..MaxChunks :
       \/ \E kind \in VideoKind : VideoMsg(kind, m)
       \/ \E kind \in AudioKind : AudioMsg(kind, m)

Player == Play \/ Unplay \/ Close \/ Deleted \/ WriteDone

Next == Publisher \/ Player

Spec == Init /\ [][Next]_vars

\* The peer reads what it is sent and the publisher goes on sending: key frames if it
\* has video, sound in any case.
Fairness ==
  /\ WF_vars(WriteDone)
  /\ WF_vars(VideoMsg("key", 1))
  /\ WF_vars(AudioMsg("raw", 1))

FairSpec == Spec /\ Fairness

-----------------------------------------------------------------------------
(* Properties. *)

\* A player gets all the chunks of a message or none: the state never changes in a
\* way that cuts one in two.
WholeMessages == last # NoMessage => last.got # "part"

\* Nothing is forwarded before the metadata, and the player is never in a forwarding
\* state without having got it.
MetadataFirst ==
  /\ last # NoMessage /\ last.got # "none" => "metadata" \in sent
  /\ state \in Forwards("video") \cup Forwards("audio") \cup Slow => "metadata" \in sent

\* A player that has missed a video message gets no inter frame before the next key
\* frame or sequence header (the reason of CONSUMER_WAIT_VIDEO_SLOW_SPEED).
GapEndsAtKeyframe ==
  last # NoMessage => ~(last.inter /\ last.got # "none" /\ last.before = "missed")

\* Nor does one that was started from the key cache: its group begins with a key frame
\* (RtmpChunkPool.h on chunk_is_keyframe: "the first chunk of a video key frame").
KeyframesFirst ==
  last # NoMessage => ~(last.inter /\ last.got # "none" /\ last.before # "none")

\* The callbacks of earlier consumers that have come since this one did.
Foreign == inherited - stale

\* The counter is the number of the consumer's own chunks in the socket, less the
\* callbacks that were not its own; it is unsigned, so that these may take it round.
BufferCounted == state # None => chunk_in_buffer_num = (own - Foreign) % Modulus

\* A player has at most MAX_CHUNK_BUFFER_LEN chunks waiting, the message that was
\* under the limit when it began included, and the one whose head is not counted;
\* beyond that only as many as foreign callbacks were counted for its own, and those
\* of messages at whose head the code does not look.
BacklogBounded ==
  state # None => own <= MAX_CHUNK_BUFFER_LEN + 2 * MaxChunks - 1 + Foreign + unchecked

\* The same without these exceptions, as BlsConsumer.h:20 has it: a player with too many
\* chunks waiting gets no new ones.
BacklogWithinLimit == own <= MAX_CHUNK_BUFFER_LEN + 2 * MaxChunks - 1

\* A player is declared slow only when the socket really holds that many chunks.
DeclaredSlow ==
  state \notin Slow /\ state' \in Slow => own + stale > MAX_CHUNK_BUFFER_LEN

SlowOnlyWhenFull == [][DeclaredSlow]_vars

\* A slow player that reads on is fed again, if the count was its own from the start.
SlowPlayersResume ==
  (fed /\ state \in Slow /\ inherited = 0) ~> ~(fed /\ state \in Slow)
=============================================================================
