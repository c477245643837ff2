----------------------------- MODULE StreamClock -----------------------------
(***************************************************************************)
(* The time a player sees.  A source sends every message with the time     *)
(* since the message of its kind before it (video_time, audio_time); a     *)
(* player starts each kind at 0 with the first message it gets, from the   *)
(* key cache or live, and adds up.  Whoever joins late, or misses messages *)
(* while its socket is full, has clocks that differ from the publisher's.  *)
(* The metadata tells it the time of day its video starts at: the source   *)
(* writes it into the cached metadata at time_index, in place.             *)
(*                                                                         *)
(* The states are those of PlayerFlow; whether the socket is too full is a *)
(* choice here, and a message is its first chunk.  Times are those of the  *)
(* publisher, in units of which Interval bounds the pause of a kind.       *)
(***************************************************************************)
EXTENDS Integers

CONSTANTS
  None,
  Interval,     \* longest pause between messages of one kind
  Starts,       \* times at which the clock of a publisher may begin
  MaxTime,      \* bound on the publisher's clock
  MAX_GOP_LEN,  \* 1000 in the code
  MaxGaps,      \* bound on how often the player's socket is too full
  MaxSlips,     \* bound on how often the publisher's time goes back
  MaxPlays,     \* bound on how often the client plays
  Places,       \* where the metadata of a publisher has absRecordTime (0: nowhere)
  AbsTimes      \* times of day in the metadata

ASSUME ClockAssumption ==
  /\ Interval \in Nat \ {0} /\ MaxTime \in Nat /\ MAX_GOP_LEN \in Nat
  /\ Starts \subseteq 0..MaxTime /\ AbsTimes \subseteq Nat /\ Places \subseteq Nat
  /\ MaxGaps \in Nat /\ MaxSlips \in Nat /\ MaxPlays \in Nat

Kind == {"video", "audio"}

Slow == {"WAIT_VIDEO_SLOW_SPEED", "WAIT_AUDIO_SLOW_SPEED"}

ASSUME NoneAssumption ==
  None \notin Nat \cup Kind \cup Slow
                \cup {"WAIT_METADATA", "WAIT_VIDEO_SH", "WAIT_AUDIO_SH", "RUN"}

VARIABLES
  publishing,
  now,              \* the publisher's clock
  at,               \* at[k]: time of its last message of kind k
  keyed,            \* it has sent a key frame
  time,             \* video_time and audio_time of the source
  sh,               \* sh[k]: key_cache.video_sh and key_cache.audio_sh are there
  gop,              \* None, or the time of the cached key frame, the steps of each
                    \* kind cached after it, and gop_counter
  metadata,         \* None, or where absRecordTime is in metadata_buf
  abs_record_time,
  time_index,
  spoilt,           \* history: metadata_buf was written where its time is not
  state,            \* the consumer's state; None without a consumer
  clock,            \* clock[k]: the time the player has for kind k, None before
  lead,             \* history: the kind the player got first
  told,             \* history: time of day and abs_record_time at the start
  gaps, slips, plays

pubVars    == <<publishing, now, at, keyed, slips>>
cacheVars  == <<time, sh, gop>>
metaVars   == <<metadata, abs_record_time, time_index, spoilt>>
playerVars == <<state, clock, lead, told, gaps, plays>>
vars == <<pubVars, cacheVars, metaVars, playerVars>>

Nothing == [k \in Kind |-> None]

-----------------------------------------------------------------------------
(* The source. *)

\* Mutant: one time for both kinds.
StepOfEither(k, ts) ==
  LET last == IF time["video"] > time["audio"] THEN time["video"] ELSE time["audio"]
  IN  IF ts > last THEN ts - last ELSE 0

\* on_av_chunk: the step a message goes out with.
Step(k, ts) == IF ts > time[k] THEN ts - time[k] ELSE 0

\* update_abs_record_time, which the start of a player calls.
UpdateAbsRecordTime ==
  /\ spoilt' = (spoilt \/ (time_index # 0 /\ time_index # metadata))
  /\ UNCHANGED <<metadata, abs_record_time, time_index>>

\* Mutants: a group one message too long; the step of the key frame counts.
GopAfterLong(k, kind, ts, step) ==
  IF kind = "key" THEN [ts |-> ts, steps |-> [j \in Kind |-> 0], count |-> 0]
  ELSE IF gop = None \/ gop.count > MAX_GOP_LEN THEN None
  ELSE [gop EXCEPT !.steps[k] = IF kind \in {"video_sh", "audio_sh"} THEN @ ELSE @ + step,
                   !.count = @ + 1]
GopAfterKeyStep(k, kind, ts, step) ==
  IF kind = "key"
    THEN [ts |-> ts, steps |-> [j \in Kind |-> IF j = k THEN step ELSE 0], count |-> 0]
  ELSE IF gop = None \/ gop.count = MAX_GOP_LEN THEN None
  ELSE [gop EXCEPT !.steps[k] = IF kind \in {"video_sh", "audio_sh"} THEN @ ELSE @ + step,
                   !.count = @ + 1]

\* add_msg_to_gop.  A sequence header is cached elsewhere: its step is lost to the
\* group, which only counts it.  (PlayerFlow has what chunk_is_keyframe may make of
\* the chain it leaves empty.)
GopAfter(k, kind, ts, step) ==
  IF kind = "key" THEN [ts |-> ts, steps |-> [j \in Kind |-> 0], count |-> 0]
  ELSE IF gop = None \/ gop.count = MAX_GOP_LEN THEN None
  ELSE [gop EXCEPT !.steps[k] = IF kind \in {"video_sh", "audio_sh"} THEN @ ELSE @ + step,
                   !.count = @ + 1]

Cache(k, kind, ts) ==
  /\ time' = [time EXCEPT ![k] = ts]
  /\ sh' = IF kind \in {"video_sh", "audio_sh"} THEN [sh EXCEPT ![k] = TRUE] ELSE sh
  /\ gop' = GopAfter(k, kind, ts, Step(k, ts))

-----------------------------------------------------------------------------
(* The player. *)

\* The message goes out as it is: the player's clock takes its step.  (A kind
\* the player has no sequence header of it cannot play.)
Forward(k, ts) ==
  /\ clock' = IF clock[k] = None THEN clock
              ELSE [clock EXCEPT ![k] = @ + Step(k, ts)]
  /\ UNCHANGED <<lead, told>>

\* The message goes out with the header the consumer keeps for its start.
StartAtZero(k) == clock' = [clock EXCEPT ![k] = 0]

\* ... after the metadata, which says what time of day that is.
Open(k, ts) ==
  /\ StartAtZero(k)
  /\ lead' = k
  /\ told' = [day |-> ts + abs_record_time, abs |-> abs_record_time]
  /\ UpdateAbsRecordTime

NotSent == UNCHANGED <<clock, lead, told>>

Enter(s) == state' = s /\ UNCHANGED gaps
Lag(s)   == /\ gaps < MaxGaps
            /\ gaps' = gaps + 1
            /\ state' = s

SendVideo(kind, ts) ==
  LET key == kind \in {"key", "video_sh"}
  IN  \/ /\ state \in {"RUN", "WAIT_AUDIO_SH"}
         /\ \/ Enter(state) /\ Forward("video", ts)
            \/ Lag("WAIT_VIDEO_SLOW_SPEED") /\ NotSent
         /\ UNCHANGED metaVars
      \/ /\ state = "WAIT_METADATA"
         /\ IF key /\ metadata # None /\ sh["video"]
            THEN Enter("WAIT_AUDIO_SH") /\ Open("video", ts)
            ELSE Enter(state) /\ NotSent /\ UNCHANGED metaVars
      \/ /\ state = "WAIT_VIDEO_SH"
         /\ IF key /\ sh["video"]
            THEN /\ Enter("RUN") /\ StartAtZero("video")
                 /\ UNCHANGED <<lead, told>>
            ELSE Enter(state) /\ NotSent
         /\ UNCHANGED metaVars
      \/ /\ state = "WAIT_VIDEO_SLOW_SPEED"
         /\ \/ key /\ Enter("RUN") /\ Forward("video", ts)
            \/ Enter(state) /\ NotSent
         /\ UNCHANGED metaVars
      \/ /\ state \in {None, "WAIT_AUDIO_SLOW_SPEED"}
         /\ Enter(state) /\ NotSent /\ UNCHANGED metaVars

SendAudio(ts) ==
  \/ /\ state \in {"RUN", "WAIT_VIDEO_SH"}
     /\ \/ Enter(state) /\ Forward("audio", ts)
        \/ /\ Lag(IF state = "RUN" THEN "WAIT_VIDEO_SLOW_SPEED"
                  ELSE "WAIT_AUDIO_SLOW_SPEED")
           /\ NotSent
     /\ UNCHANGED metaVars
  \/ /\ state = "WAIT_METADATA"
     /\ IF metadata # None /\ ~sh["video"]
        THEN Enter("WAIT_VIDEO_SH") /\ Open("audio", ts)
        ELSE Enter(state) /\ NotSent /\ UNCHANGED metaVars
  \/ /\ state = "WAIT_AUDIO_SH"
     /\ IF sh["audio"]
        THEN /\ Enter("RUN") /\ StartAtZero("audio")
             /\ UNCHANGED <<lead, told>>
        ELSE Enter(state) /\ NotSent
     /\ UNCHANGED metaVars
  \/ /\ state = "WAIT_AUDIO_SLOW_SPEED"
     /\ \/ Enter("RUN") /\ Forward("audio", ts)
        \/ Enter(state) /\ NotSent
     /\ UNCHANGED metaVars
  \/ /\ state \in {None, "WAIT_VIDEO_SLOW_SPEED"}
     /\ Enter(state) /\ NotSent /\ UNCHANGED metaVars

-----------------------------------------------------------------------------
(* The publisher.  Its messages of either kind come at least every Interval,  *)
(* and it starts its video with the sequence header and a key frame.          *)

Publish ==
  /\ ~publishing
  /\ publishing' = TRUE
  /\ now' \in Starts
  /\ at' = [k \in Kind |-> now']
  /\ keyed' = FALSE
  /\ UNCHANGED <<slips, cacheVars, metaVars, playerVars>>

Tick ==
  /\ publishing
  /\ now < MaxTime
  /\ \A k \in Kind : now + 1 - at[k] <= Interval
  /\ now' = now + 1
  /\ UNCHANGED <<publishing, at, keyed, slips, cacheVars, metaVars, playerVars>>

\* A message has the time of the clock or, when the clock slips, an earlier one.
Stamp(k, ts) ==
  /\ publishing
  /\ ts \in {now, now - 1}
  /\ ts >= at[k] - 1 /\ ts >= 0
  /\ slips' = slips + IF ts < at[k] THEN 1 ELSE 0
  /\ slips' <= MaxSlips
  /\ at' = [at EXCEPT ![k] = ts]
  /\ UNCHANGED <<publishing, now>>

VideoMsg(kind, ts) ==
  /\ kind = "video_sh" <=> ~sh["video"]
  /\ kind = "inter" => keyed
  /\ Stamp("video", ts)
  /\ keyed' = (keyed \/ kind = "key")
  /\ SendVideo(kind, ts)
  /\ Cache("video", kind, ts)
  /\ UNCHANGED plays

AudioMsg(kind, ts) ==
  /\ kind = "audio_sh" <=> ~sh["audio"]
  /\ Stamp("audio", ts)
  /\ SendAudio(ts)
  /\ Cache("audio", kind, ts)
  /\ UNCHANGED <<keyed, plays>>

\* on_metadata and find_abs_time_in_metadata.
Metadata(place, abs) ==
  /\ publishing
  /\ metadata' = place
  /\ IF place # 0 THEN time_index' = place /\ abs_record_time' = abs
     ELSE UNCHANGED <<time_index, abs_record_time>>
  /\ UNCHANGED <<spoilt, pubVars, cacheVars, playerVars>>

\* add_consumer, with the key cache if it is complete.
Play ==
  /\ state = None
  /\ plays < MaxPlays
  /\ plays' = plays + 1
  /\ gaps' = 0
  /\ publishing
  /\ IF gop # None /\ metadata # None /\ sh["video"]
     THEN /\ state' = IF sh["audio"] THEN "RUN" ELSE "WAIT_AUDIO_SH"
          /\ clock' = [video |-> gop.steps["video"],
                       audio |-> IF sh["audio"] THEN gop.steps["audio"] ELSE None]
          /\ lead' = "video"
          /\ told' = [day |-> gop.ts + abs_record_time, abs |-> abs_record_time]
          /\ UpdateAbsRecordTime
     ELSE /\ state' = "WAIT_METADATA"
          /\ clock' = Nothing /\ lead' = None /\ told' = None
          /\ UNCHANGED metaVars
  /\ UNCHANGED <<pubVars, cacheVars>>

StopPlay ==
  /\ state # None
  /\ state' = None
  /\ clock' = Nothing /\ lead' = None /\ told' = None
  /\ UNCHANGED <<gaps, plays, pubVars, cacheVars, metaVars>>

\* clear_consumer: the players are told, and the source forgets the stream.
Unpublish ==
  /\ publishing
  /\ publishing' = FALSE
  /\ state' = None
  /\ clock' = Nothing /\ lead' = None /\ told' = None
  /\ time' = [k \in Kind |-> 0]
  /\ sh' = [k \in Kind |-> FALSE]
  /\ gop' = None
  /\ metadata' = None
  /\ abs_record_time' = 0
  /\ UNCHANGED <<now, at, keyed, slips, gaps, plays, time_index, spoilt>>

-----------------------------------------------------------------------------
Init ==
  /\ publishing = FALSE /\ now = 0 /\ keyed = FALSE /\ slips = 0
  /\ at = [k \in Kind |-> 0]
  /\ time = [k \in Kind |-> 0]
  /\ sh = [k \in Kind |-> FALSE]
  /\ gop = None
  /\ metadata = None /\ abs_record_time = 0 /\ time_index = 0 /\ spoilt = FALSE
  /\ state = None /\ clock = Nothing /\ lead = None /\ told = None
  /\ gaps = 0 /\ plays = 0

Next ==
  \/ Publish \/ Tick \/ Play \/ StopPlay \/ Unpublish
  \/ \E ts \in {now, now - 1} :
       \/ \E kind \in {"video_sh", "key", "inter"} : VideoMsg(kind, ts)
       \/ \E kind \in {"audio_sh", "audio"} : AudioMsg(kind, ts)
  \/ \E place \in Places, abs \in AbsTimes : Metadata(place, abs)

Spec == Init /\ [][Next]_vars

-----------------------------------------------------------------------------
(* Properties. *)

Dist(a, b) == IF a > b THEN a - b ELSE b - a

\* The types of the variables: times are natural numbers, a group of pictures
\* holds at most MAX_GOP_LEN messages after its key frame.
TypeOK ==
  /\ publishing \in BOOLEAN /\ keyed \in BOOLEAN /\ spoilt \in BOOLEAN
  /\ now \in 0..MaxTime
  /\ at \in [Kind -> 0..MaxTime] /\ time \in [Kind -> 0..MaxTime]
  /\ sh \in [Kind -> BOOLEAN]
  /\ gop \in [ts : 0..MaxTime, steps : [Kind -> Nat], count : 0..MAX_GOP_LEN] \cup {None}
  /\ metadata \in Places \cup {None}
  /\ abs_record_time \in AbsTimes \cup {0} /\ time_index \in Places \cup {0}
  /\ state \in {None, "WAIT_METADATA", "WAIT_VIDEO_SH", "WAIT_AUDIO_SH", "RUN"} \cup Slow
  /\ clock \in [Kind -> Nat \cup {None}]
  /\ lead \in Kind \cup {None}
  /\ gaps \in 0..MaxGaps /\ slips \in 0..MaxSlips /\ plays \in 0..MaxPlays

\* How far the player's clock of kind k is behind the publisher's.
Shift(k) == time[k] - clock[k]

\* Sound and picture stay together: the player's two clocks are behind the
\* publisher's by about the same, whether it started live or from the key cache;
\* each time its socket was full costs them at most two more intervals.
InSync ==
  state = "RUN" /\ (\A k \in Kind : clock[k] # None) =>
    Dist(Shift("video"), Shift("audio")) <= 2 * (1 + gaps) * Interval + slips

\* What the metadata says of the time of day is right for the kind the player
\* got first, until it misses something.
ToldRight ==
  told # None /\ gaps = 0 /\ slips = 0 => told.day = told.abs + Shift(lead)

\* The time of day goes where the metadata has absRecordTime and nowhere else:
\* the rest of the metadata reaches the players as the publisher sent it.
MetadataIntact == ~spoilt
=============================================================================
