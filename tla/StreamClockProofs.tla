-------------------------- MODULE StreamClockProofs --------------------------
(***************************************************************************)
(* Proofs about StreamClock: a player's sound and picture stay together,   *)
(* however often its socket is full and the publisher's time goes back.    *)
(***************************************************************************)
EXTENDS StreamClock, TLAPS

-----------------------------------------------------------------------------
(* The invariant. *)

Other(k) == IF k = "video" THEN "audio" ELSE "video"

\* The player got its first message of the other kind, and waits for a header of kind k.
Waits(k) == state = IF k = "video" THEN "WAIT_VIDEO_SH" ELSE "WAIT_AUDIO_SH"

Within(x, y, d) == x - y <= d /\ y - x <= d

\* What the clocks may differ by: half of InSync's bound.
Slack == (1 + gaps) * Interval

\* The publisher: each kind was heard of at most an Interval ago.  Until the first
\* message of a kind, `at' is when the stream began, and no other kind is before that
\* unless its time went back.
PublisherInv ==
  /\ publishing => \A k \in Kind :
       /\ at[k] <= now /\ now <= at[k] + Interval
       /\ sh[k] => time[k] = at[k]
       /\ ~sh[k] => at[Other(k)] >= at[k] - slips
  /\ publishing /\ keyed => sh["video"]
  /\ ~publishing => /\ state = None /\ gop = None
                    /\ \A k \in Kind : ~sh[k]

\* What the cached group stands for: the steps of a kind, taken off its time, lead back
\* to the key frame.
GopInv ==
  gop # None =>
    /\ sh["video"]
    /\ slips = 0 => time["video"] - gop.steps["video"] = gop.ts
    /\ sh["audio"] => Within(time["video"] - gop.steps["video"],
                             time["audio"] - gop.steps["audio"], 2 * Interval + slips)
    /\ ~sh["audio"] => /\ gop.steps["audio"] = 0
                       /\ time["video"] - gop.steps["video"] >= at["audio"] - slips

\* A player that has one kind only started with it less than two intervals ago.
WaitInv ==
  /\ \A k \in Kind : Waits(k) =>
       /\ clock[k] = None /\ clock[Other(k)] # None /\ lead = Other(k)
       /\ Shift(Other(k)) <= now
       /\ Shift(Other(k)) >= at[k] - slips - (IF sh[k] THEN Interval ELSE 0)
  /\ Waits("video") => ~keyed

\* While its socket is too full both clocks stand still.
ClockInv ==
  /\ state \in {None, "WAIT_METADATA"} => clock = Nothing /\ told = None
  /\ \A k \in Kind : clock[k] # None => sh[k]
  /\ state \in Slow => gaps > 0
  /\ state \in Slow /\ (\A k \in Kind : clock[k] # None) =>
       Within(clock["video"], clock["audio"], 2 * Slack - Interval + slips)
  /\ state = "RUN" /\ (\A k \in Kind : clock[k] # None) =>
       Within(Shift("video"), Shift("audio"), 2 * Slack + slips)

ToldInv ==
  told # None => /\ lead \in Kind /\ clock[lead] # None
                 /\ gaps = 0 /\ slips = 0 => told.day = told.abs + Shift(lead)

IInv == TypeOK /\ PublisherInv /\ GopInv /\ WaitInv /\ ClockInv /\ ToldInv

-----------------------------------------------------------------------------
(* What a message brings. *)

\* The bound of InSync is twice the slack, and a gap adds an Interval to it.
LEMMA SlackFacts ==
  ASSUME TypeOK
  PROVE  /\ Interval \in Nat \ {0} /\ Slack \in Nat /\ Slack >= Interval
         /\ gaps = 0 => Slack = Interval
         /\ 2 * (1 + gaps) * Interval = 2 * Slack
         /\ gaps' = gaps => Slack' = Slack
         /\ gaps' = gaps + 1 => Slack' = Slack + Interval
         /\ gaps' = 0 => Slack' = Interval
<1>1. Interval \in Nat \ {0} /\ gaps \in Nat
  BY ClockAssumption DEF TypeOK
<1>2. /\ (1 + gaps) * Interval = Interval + gaps * Interval
      /\ gaps * Interval \in Nat
      /\ 2 * (1 + gaps) * Interval = 2 * ((1 + gaps) * Interval)
      /\ (1 + (gaps + 1)) * Interval = (1 + gaps) * Interval + Interval
      /\ (1 + 0) * Interval = Interval
  BY <1>1
<1>. QED  BY <1>1, <1>2 DEF Slack

\* There are two kinds.
LEMMA Kinds ==
  ASSUME NEW k \in Kind
  PROVE  /\ Other(k) \in Kind /\ Other(k) # k /\ Other(Other(k)) = k
         /\ \A j \in Kind : j = k \/ j = Other(k)
         /\ "video" \in Kind /\ "audio" \in Kind
         /\ k = "video" => Other(k) = "audio"
         /\ k = "audio" => Other(k) = "video"
         /\ k \in {"video", "audio"}
  BY DEF Kind, Other

\* A message of kind k with time ts has been stamped and cached.
Heard(k, ts) ==
  /\ ts \in 0..MaxTime /\ ts <= now /\ now <= ts + 1
  /\ at[k] - 1 <= ts /\ ts <= at[k] + Interval
  /\ publishing /\ publishing' /\ now' = now
  /\ at'[k] = ts /\ at'[Other(k)] = at[Other(k)]
  /\ time'[k] = ts /\ time'[Other(k)] = time[Other(k)]
  /\ sh'[k] /\ sh'[Other(k)] = sh[Other(k)]
  /\ slips' \in 0..MaxSlips
  /\ \/ slips' = slips /\ ts >= at[k]
     \/ slips' = slips + 1 /\ ts = at[k] - 1
  /\ keyed' \in BOOLEAN /\ (keyed' => keyed \/ (k = "video" /\ sh[k]))
  /\ at' \in [Kind -> 0..MaxTime] /\ time' \in [Kind -> 0..MaxTime]
  /\ sh' \in [Kind -> BOOLEAN]

\* Its step.
LEMMA StepIs ==
  ASSUME IInv, NEW k \in Kind, NEW ts, Heard(k, ts)
  PROVE  /\ Step(k, ts) \in Nat
         /\ sh[k] => /\ time[k] = at[k]
                     /\ time'[k] - Step(k, ts) = time[k] - (slips' - slips)
<1>1. time[k] \in Nat /\ at[k] \in Nat /\ ts \in Nat
  BY DEF IInv, TypeOK, Heard
<1>2. sh[k] => time[k] = at[k]
  BY DEF IInv, PublisherInv, Heard
<1>3. slips \in Nat
  BY DEF IInv, TypeOK
<1>. QED  BY <1>1, <1>2, <1>3 DEF Step, Heard

\* Stamp and Cache are what is heard.
LEMMA HeardIs ==
  ASSUME IInv, NEW k \in Kind, NEW kind, NEW ts \in {now, now - 1},
         Stamp(k, ts), Cache(k, kind, ts), kind \in {"video_sh", "audio_sh"} <=> ~sh[k],
         keyed' \in BOOLEAN, keyed' => keyed \/ (k = "video" /\ sh[k])
  PROVE  Heard(k, ts)
<1>1. /\ now \in 0..MaxTime /\ at \in [Kind -> 0..MaxTime] /\ time \in [Kind -> 0..MaxTime]
      /\ sh \in [Kind -> BOOLEAN] /\ slips \in 0..MaxSlips
      /\ MaxTime \in Nat /\ MaxSlips \in Nat /\ Interval \in Nat \ {0}
  BY ClockAssumption DEF IInv, TypeOK
<1>2. Other(k) \in Kind /\ Other(k) # k
  BY Kinds
<1>3. /\ publishing /\ ts >= at[k] - 1 /\ ts >= 0
      /\ slips' = slips + (IF ts < at[k] THEN 1 ELSE 0) /\ slips' <= MaxSlips
      /\ at' = [at EXCEPT ![k] = ts] /\ publishing' = publishing /\ now' = now
  BY DEF Stamp
<1>4. /\ time' = [time EXCEPT ![k] = ts]
      /\ sh' = IF kind \in {"video_sh", "audio_sh"} THEN [sh EXCEPT ![k] = TRUE] ELSE sh
  BY DEF Cache
<1>5. ts \in 0..MaxTime /\ ts <= now /\ now <= ts + 1
  BY <1>1, <1>3
<1>6. at[k] <= now /\ now <= at[k] + Interval
  BY <1>3 DEF IInv, PublisherInv
<1>7. /\ at'[k] = ts /\ at'[Other(k)] = at[Other(k)] /\ at' \in [Kind -> 0..MaxTime]
      /\ time'[k] = ts /\ time'[Other(k)] = time[Other(k)] /\ time' \in [Kind -> 0..MaxTime]
  BY <1>1, <1>2, <1>3, <1>4, <1>5
<1>8. sh'[k] /\ sh'[Other(k)] = sh[Other(k)] /\ sh' \in [Kind -> BOOLEAN]
  <2>1. CASE kind \in {"video_sh", "audio_sh"}
    BY <1>1, <1>2, <1>4, <2>1
  <2>2. CASE kind \notin {"video_sh", "audio_sh"}
    BY <1>1, <1>2, <1>4, <2>2
  <2>. QED  BY <2>1, <2>2
<1>9. /\ slips' \in 0..MaxSlips
      /\ \/ slips' = slips /\ ts >= at[k]
         \/ slips' = slips + 1 /\ ts = at[k] - 1
  BY <1>1, <1>3, <1>5
<1>10. publishing /\ publishing' /\ now' = now /\ at[k] - 1 <= ts /\ ts <= at[k] + Interval
  BY <1>1, <1>3, <1>5, <1>6
<1>. QED  BY <1>5, <1>7, <1>8, <1>9, <1>10 DEF Heard

\* What the publisher has done by then.
LEMMA PublisherStep ==
  ASSUME IInv, NEW k \in Kind, NEW ts, Heard(k, ts)
  PROVE  PublisherInv'
<1> DEFINE j == Other(k)
<1>1. /\ j \in Kind /\ Other(j) = k /\ \A i \in Kind : i = k \/ i = j
      /\ "video" \in Kind
  BY Kinds
<1>2. /\ now \in Nat /\ at[j] \in Nat /\ at[k] \in Nat /\ slips \in Nat /\ slips' \in Nat
      /\ ts \in Nat /\ Interval \in Nat \ {0}
  BY <1>1, ClockAssumption DEF IInv, TypeOK, Heard
<1> HIDE DEF j
<1>3. Heard(k, ts) /\ at'[j] = at[j] /\ time'[j] = time[j] /\ sh'[j] = sh[j]
  BY DEF Heard, j
<1>4. /\ at[j] <= now /\ now <= at[j] + Interval
      /\ sh[j] => time[j] = at[j]
      /\ ~sh[j] => at[k] >= at[j] - slips
  BY <1>1, <1>3 DEF Heard, IInv, PublisherInv
<1>5. /\ at'[k] <= now' /\ now' <= at'[k] + Interval
      /\ sh'[k] /\ time'[k] = at'[k]
  BY <1>2, <1>3 DEF Heard
<1>6. /\ at'[j] <= now' /\ now' <= at'[j] + Interval
      /\ sh'[j] => time'[j] = at'[j]
      /\ ~sh'[j] => at'[k] >= at'[j] - slips'
  BY <1>2, <1>3, <1>4 DEF Heard
<1>7. \A i \in Kind : /\ at'[i] <= now' /\ now' <= at'[i] + Interval
                      /\ sh'[i] => time'[i] = at'[i]
                      /\ ~sh'[i] => at'[Other(i)] >= at'[i] - slips'
  BY <1>1, <1>5, <1>6
<1>8. publishing' /\ (keyed' => sh'["video"])
  <2>1. publishing /\ (keyed => sh["video"])
    BY DEF Heard, IInv, PublisherInv
  <2>2. sh["video"] => sh'["video"]
    BY <1>1, <1>3, <1>5
  <2>. QED  BY <1>5, <2>1, <2>2 DEF Heard
<1>. QED  BY <1>7, <1>8 DEF PublisherInv

\* What is cached by then.
LEMMA GopStep ==
  ASSUME IInv, NEW k \in Kind, NEW kind, NEW ts, Heard(k, ts), PublisherInv',
         kind \in {"video_sh", "audio_sh"} <=> ~sh[k],
         kind = "key" => k = "video",
         gop' = GopAfter(k, kind, ts, Step(k, ts))
  PROVE  /\ GopInv'
         /\ gop' \in [ts : 0..MaxTime, steps : [Kind -> Nat], count : 0..MAX_GOP_LEN]
                       \cup {None}
<1> USE DEF IInv
<1> DEFINE v == "video"
           a == "audio"
           step == Step(k, ts)
<1>1. /\ slips \in Nat /\ slips' \in Nat /\ ts \in 0..MaxTime /\ now \in Nat
      /\ Interval \in Nat \ {0} /\ MAX_GOP_LEN \in Nat /\ MaxTime \in Nat
      /\ v \in Kind /\ a \in Kind /\ k \in {v, a}
      /\ time[v] \in Nat /\ time[a] \in Nat /\ at[v] \in Nat /\ at[a] \in Nat
      /\ Other(v) = a /\ Other(a) = v
  BY ClockAssumption, Kinds DEF TypeOK, Heard
<1>2. /\ step \in Nat
      /\ sh[k] => time[k] = at[k] /\ time'[k] - step = time[k] - (slips' - slips)
  BY StepIs
<1> HIDE DEF step
<1>3. CASE gop' = None
  BY <1>3 DEF GopInv
<1>4. CASE kind = "key"
  <2>1. gop' = [ts |-> ts, steps |-> [j \in Kind |-> 0], count |-> 0]
    BY <1>4 DEF GopAfter
  <2>2. k = v /\ sh[v] /\ sh'[v] /\ time'[v] = ts /\ time'[a] = time[a] /\ sh'[a] = sh[a]
    BY <1>1, <1>4 DEF Heard
  <2>3. /\ gop'.ts = ts /\ gop'.steps[v] = 0 /\ gop'.steps[a] = 0
        /\ gop' \in [ts : 0..MaxTime, steps : [Kind -> Nat], count : 0..MAX_GOP_LEN]
    BY <1>1, <2>1
  <2>4. sh[a] => time[a] = at[a] /\ at[a] <= now /\ now <= at[a] + Interval
    BY <1>1 DEF Heard, PublisherInv
  <2>5. sh'[a] => Within(time'[v] - gop'.steps[v], time'[a] - gop'.steps[a],
                         2 * Interval + slips')
    BY <1>1, <2>2, <2>3, <2>4 DEF Within, Heard
  <2>6. ~sh'[a] => time'[v] - gop'.steps[v] >= at'[a] - slips'
    <3>1. ~sh'[a] => at'[v] >= at'[a] - slips'
      BY <1>1 DEF PublisherInv, Heard
    <3>. QED  BY <1>1, <2>2, <2>3, <3>1 DEF Heard
  <2>. QED  BY <1>1, <2>2, <2>3, <2>5, <2>6 DEF GopInv
<1>5. CASE kind # "key" /\ gop # None /\ gop.count # MAX_GOP_LEN
  <2>0. /\ gop \in [ts : 0..MaxTime, steps : [Kind -> Nat], count : 0..MAX_GOP_LEN]
        /\ sh[v]
    BY <1>5 DEF TypeOK, GopInv
  <2>1. gop' = [gop EXCEPT !.steps[k] = IF kind \in {"video_sh", "audio_sh"} THEN @
                                        ELSE @ + step,
                           !.count = @ + 1]
    BY <1>5 DEF GopAfter, step
  <2>2. /\ gop'.ts = gop.ts
        /\ gop'.steps[k] = IF ~sh[k] THEN gop.steps[k] ELSE gop.steps[k] + step
        /\ \A j \in Kind : j # k => gop'.steps[j] = gop.steps[j]
    BY <2>0, <2>1
  <2>3. gop' \in [ts : 0..MaxTime, steps : [Kind -> Nat], count : 0..MAX_GOP_LEN]
    <3>1. gop.count + 1 \in 0..MAX_GOP_LEN
      BY <1>1, <1>5, <2>0
    <3> DEFINE next == [gop.steps EXCEPT ![k] = IF kind \in {"video_sh", "audio_sh"} THEN @
                                                ELSE @ + step]
    <3>2. gop' = [gop EXCEPT !.steps = next, !.count = gop.count + 1]
      BY <2>0, <2>1
    <3>3. next \in [Kind -> Nat]
      <4>1. gop.steps \in [Kind -> Nat] /\ gop.steps[k] + step \in Nat
        BY <1>1, <1>2, <2>0
      <4>. QED  BY <4>1
    <3> HIDE DEF next
    <3>. QED  BY <2>0, <3>1, <3>2, <3>3
  <2>4. gop.steps[v] \in Nat /\ gop.steps[a] \in Nat /\ gop.ts \in Nat
    BY <1>1, <2>0
  <2>5. /\ slips = 0 => time[v] - gop.steps[v] = gop.ts
        /\ sh[a] => Within(time[v] - gop.steps[v], time[a] - gop.steps[a],
                           2 * Interval + slips)
        /\ ~sh[a] => gop.steps[a] = 0 /\ time[v] - gop.steps[v] >= at[a] - slips
    BY <1>5 DEF GopInv
  <2>6. CASE k = v
    <3>1. /\ gop'.steps[v] = gop.steps[v] + step /\ gop'.steps[a] = gop.steps[a]
          /\ time'[v] - step = time[v] - (slips' - slips) /\ time'[v] \in Nat
          /\ time'[a] = time[a] /\ at'[a] = at[a] /\ sh'[a] = sh[a] /\ sh'[v]
      BY <1>1, <1>2, <2>0, <2>2, <2>6 DEF Heard
    <3>2. slips' = slips \/ slips' = slips + 1
      BY DEF Heard
    <3>3. time'[v] - gop'.steps[v] = time[v] - gop.steps[v] - (slips' - slips)
      BY <1>1, <1>2, <2>4, <3>1
    <3>. QED  BY <1>1, <2>2, <2>3, <2>4, <2>5, <3>1, <3>2, <3>3 DEF GopInv, Within
  <2>7. CASE k = a /\ sh[a]
    <3>1. /\ gop'.steps[a] = gop.steps[a] + step /\ gop'.steps[v] = gop.steps[v]
          /\ time'[a] - step = time[a] - (slips' - slips) /\ time'[a] \in Nat
          /\ time'[v] = time[v] /\ sh'[v] /\ sh'[a]
      BY <1>1, <1>2, <2>0, <2>2, <2>7 DEF Heard
    <3>2. slips' = slips \/ slips' = slips + 1
      BY DEF Heard
    <3>3. time'[a] - gop'.steps[a] = time[a] - gop.steps[a] - (slips' - slips)
      BY <1>1, <1>2, <2>4, <3>1
    <3>. QED  BY <1>1, <2>2, <2>3, <2>4, <2>5, <2>7, <3>1, <3>2, <3>3 DEF GopInv, Within
  <2>8. CASE k = a /\ ~sh[a]
    <3>1. /\ gop'.steps[a] = 0 /\ gop'.steps[v] = gop.steps[v]
          /\ time'[a] = ts /\ time'[v] = time[v] /\ sh'[v] /\ sh'[a]
          /\ ts <= at[a] + Interval /\ now <= ts + 1
          /\ slips' = slips \/ slips' = slips + 1
      BY <1>1, <2>0, <2>2, <2>5, <2>8 DEF Heard
    <3>2. time[v] <= now
      BY <1>1, <2>0 DEF PublisherInv, Heard
    <3>. QED  BY <1>1, <2>2, <2>3, <2>4, <2>5, <2>8, <3>1, <3>2 DEF GopInv, Within
  <2>. QED  BY <1>1, <2>6, <2>7, <2>8
<1>. QED  BY <1>3, <1>4, <1>5 DEF GopAfter

-----------------------------------------------------------------------------
(* What a message does to the player. *)

\* The states in which kind k is sent.
Takes(k) == state = "RUN" \/ Waits(Other(k))

\* The message goes out as it is.
Forwards(k, ts) ==
  /\ Forward(k, ts) /\ gaps' = gaps
  /\ \/ Takes(k) /\ state' = state
     \/ state \in Slow /\ state' = "RUN"

\* It does not: nobody waits for it, or the socket is too full.
Misses(k) ==
  /\ NotSent
  /\ \/ /\ ~Takes(k) /\ (Waits(k) => ~sh[k])
        /\ state' = state /\ gaps' = gaps
     \/ Takes(k) /\ state' \in Slow /\ gaps < MaxGaps /\ gaps' = gaps + 1

\* It is the first the player gets.
Opens(k, ts) ==
  /\ state = "WAIT_METADATA"
  /\ StartAtZero(k) /\ lead' = k /\ gaps' = gaps
  /\ told' = [day |-> ts + abs_record_time, abs |-> abs_record_time]
  /\ state' = IF k = "video" THEN "WAIT_AUDIO_SH" ELSE "WAIT_VIDEO_SH"
  /\ k = "audio" => ~sh["video"]

\* It is the first of its kind.
Joins(k) ==
  /\ Waits(k) /\ sh[k]
  /\ StartAtZero(k) /\ UNCHANGED <<lead, told, gaps>>
  /\ state' = "RUN"

Moves(k, ts) == Forwards(k, ts) \/ Misses(k) \/ Opens(k, ts) \/ Joins(k)

\* send_av to a consumer is one of these, whatever its state.
LEMMA SendVideoMoves ==
  ASSUME IInv, NEW kind \in {"video_sh", "key", "inter"}, NEW ts, SendVideo(kind, ts),
         kind = "video_sh" <=> ~sh["video"], kind = "inter" => keyed
  PROVE  /\ Moves("video", ts)
         /\ spoilt' \in BOOLEAN /\ UNCHANGED <<metadata, abs_record_time, time_index>>
<1>1. /\ spoilt \in BOOLEAN
      /\ state \in {None, "WAIT_METADATA", "WAIT_VIDEO_SH", "WAIT_AUDIO_SH", "RUN"} \cup Slow
  BY DEF IInv, TypeOK
<1>2. spoilt' \in BOOLEAN /\ UNCHANGED <<metadata, abs_record_time, time_index>>
  BY <1>1 DEF SendVideo, metaVars, Open, UpdateAbsRecordTime
<1>3. state = "WAIT_VIDEO_SH" => ~keyed
  BY DEF IInv, WaitInv, Waits
<1>4. Moves("video", ts)
  <2> USE NoneAssumption DEF Slow, Waits, Other
  <2>1. CASE state \in {"RUN", "WAIT_AUDIO_SH"}
    BY <2>1 DEF SendVideo, Moves, Forwards, Misses, Enter, Lag, Takes
  <2>2. CASE state = "WAIT_METADATA"
    BY <2>2 DEF SendVideo, Moves, Opens, Misses, Enter, Takes, Open
  <2>3. CASE state = "WAIT_VIDEO_SH"
    BY <1>3, <2>3 DEF SendVideo, Moves, Joins, Misses, Enter, Takes
  <2>4. CASE state = "WAIT_VIDEO_SLOW_SPEED"
    BY <2>4 DEF SendVideo, Moves, Forwards, Misses, Enter, Takes
  <2>5. CASE state \in {None, "WAIT_AUDIO_SLOW_SPEED"}
    BY <2>5 DEF SendVideo, Moves, Misses, Enter, Takes
  <2>. QED  BY <1>1, <2>1, <2>2, <2>3, <2>4, <2>5
<1>. QED  BY <1>2, <1>4

\* The same for sound.
LEMMA SendAudioMoves ==
  ASSUME IInv, NEW ts, SendAudio(ts)
  PROVE  /\ Moves("audio", ts)
         /\ spoilt' \in BOOLEAN /\ UNCHANGED <<metadata, abs_record_time, time_index>>
<1>1. /\ spoilt \in BOOLEAN
      /\ state \in {None, "WAIT_METADATA", "WAIT_VIDEO_SH", "WAIT_AUDIO_SH", "RUN"} \cup Slow
  BY DEF IInv, TypeOK
<1>2. spoilt' \in BOOLEAN /\ UNCHANGED <<metadata, abs_record_time, time_index>>
  BY <1>1 DEF SendAudio, metaVars, Open, UpdateAbsRecordTime
<1>3. Moves("audio", ts)
  <2> USE NoneAssumption DEF Slow, Waits, Other
  <2>1. CASE state \in {"RUN", "WAIT_VIDEO_SH"}
    BY <2>1 DEF SendAudio, Moves, Forwards, Misses, Enter, Lag, Takes
  <2>2. CASE state = "WAIT_METADATA"
    BY <1>1, <2>2 DEF SendAudio, Moves, Opens, Misses, Enter, Takes, Open
  <2>3. CASE state = "WAIT_AUDIO_SH"
    BY <2>3 DEF SendAudio, Moves, Joins, Misses, Enter, Takes
  <2>4. CASE state = "WAIT_AUDIO_SLOW_SPEED"
    BY <2>4 DEF SendAudio, Moves, Forwards, Misses, Enter, Takes
  <2>5. CASE state \in {None, "WAIT_VIDEO_SLOW_SPEED"}
    BY <2>5 DEF SendAudio, Moves, Misses, Enter, Takes
  <2>. QED  BY <1>1, <2>1, <2>2, <2>3, <2>4, <2>5
<1>. QED  BY <1>2, <1>3

\* What is known of the player when a message of kind k arrives; j is the other kind.
LEMMA PlayerFacts ==
  ASSUME IInv, NEW k \in Kind, NEW ts, Heard(k, ts)
  PROVE  LET j == Other(k) IN
         /\ clock \in [Kind -> Nat \cup {None}] /\ None \notin Nat
         /\ clock[k] \in Nat \cup {None} /\ clock[j] \in Nat \cup {None}
         /\ time[k] \in Nat /\ time[j] \in Nat /\ at[k] \in Nat /\ at[j] \in Nat
         /\ now \in Nat /\ slips \in Nat /\ slips' \in Nat /\ ts \in Nat
         /\ Interval \in Nat \ {0} /\ Slack \in Nat /\ Slack >= Interval
         /\ at[j] <= now /\ now <= at[j] + Interval
         /\ sh[j] => time[j] = at[j]
         /\ clock[k] # None => sh[k]
         /\ clock[j] # None => sh[j]
<1>1. Other(k) \in Kind
  BY Kinds
<1>2. /\ Interval \in Nat \ {0} /\ Slack \in Nat /\ Slack >= Interval
  BY SlackFacts DEF IInv
<1>3. /\ clock \in [Kind -> Nat \cup {None}] /\ at \in [Kind -> 0..MaxTime]
      /\ time \in [Kind -> 0..MaxTime] /\ now \in Nat /\ slips \in Nat
  BY DEF IInv, TypeOK
<1>4. slips' \in Nat /\ ts \in Nat /\ publishing
  BY DEF Heard
<1>5. \A i \in Kind : /\ at[i] <= now /\ now <= at[i] + Interval
                      /\ sh[i] => time[i] = at[i]
                      /\ clock[i] # None => sh[i]
  BY <1>4 DEF IInv, PublisherInv, ClockInv
<1>. QED  BY <1>1, <1>2, <1>3, <1>4, <1>5, NoneAssumption

\* The parts of the invariant that are about the player, for kinds k and j.
WaitsFor(k, j) ==
  Waits(k) => /\ clock[k] = None /\ clock[j] # None /\ lead = j
              /\ Shift(j) <= now
              /\ Shift(j) >= at[k] - slips - (IF sh[k] THEN Interval ELSE 0)

\* They make up the invariant of the next state.
LEMMA PlayerInvNext ==
  ASSUME NEW k \in Kind, NEW j, j = Other(k),
         WaitsFor(k, j)', WaitsFor(j, k)', Waits("video")' => ~keyed',
         state' \in {None, "WAIT_METADATA"} => clock' = Nothing /\ told' = None,
         clock'[k] # None => sh'[k],
         clock'[j] # None => sh'[j],
         state' \in Slow => gaps' > 0,
         state' \in Slow /\ clock'[k] # None /\ clock'[j] # None =>
           Within(clock'["video"], clock'["audio"], 2 * Slack' - Interval + slips'),
         state' = "RUN" /\ clock'[k] # None /\ clock'[j] # None =>
           Within(Shift("video")', Shift("audio")', 2 * Slack' + slips')
  PROVE  WaitInv' /\ ClockInv'
<1>1. /\ j \in Kind /\ Other(j) = k /\ \A i \in Kind : i = k \/ i = j
  BY Kinds
<1>2. \A i \in Kind : WaitsFor(i, Other(i))'
  <2>1. WaitsFor(k, Other(k))' /\ WaitsFor(j, Other(j))'
    BY <1>1
  <2>. QED  BY <1>1, <2>1
<1>3. WaitInv'
  BY <1>2 DEF WaitInv, WaitsFor
<1>4. (\A i \in Kind : clock'[i] # None) => clock'[k] # None /\ clock'[j] # None
  BY <1>1
<1>5. \A i \in Kind : clock'[i] # None => sh'[i]
  BY <1>1
<1>6. ClockInv'
  BY <1>4, <1>5 DEF ClockInv
<1>. QED  BY <1>3, <1>6

\* A clock that takes every step stays behind the publisher's by as much as before,
\* unless its time goes back.
LEMMA ForwardsStep ==
  ASSUME IInv, NEW k \in Kind, NEW ts, Heard(k, ts), Forwards(k, ts),
         UNCHANGED abs_record_time
  PROVE  WaitInv' /\ ClockInv' /\ ToldInv' /\ clock' \in [Kind -> Nat \cup {None}]
<1> DEFINE j == Other(k)
<1>1. /\ j \in Kind /\ j # k /\ Other(j) = k /\ k \in {"video", "audio"}
      /\ \A i \in Kind : i = k \/ i = j
      /\ k = "video" => j = "audio"
      /\ k = "audio" => j = "video"
  BY Kinds
<1>2. /\ clock \in [Kind -> Nat \cup {None}] /\ None \notin Nat
      /\ clock[k] \in Nat \cup {None} /\ clock[j] \in Nat \cup {None}
      /\ time[k] \in Nat /\ time[j] \in Nat /\ at[k] \in Nat /\ at[j] \in Nat
      /\ now \in Nat /\ slips \in Nat /\ slips' \in Nat /\ ts \in Nat
      /\ Interval \in Nat \ {0} /\ Slack \in Nat /\ Slack >= Interval
      /\ at[j] <= now /\ now <= at[j] + Interval
      /\ sh[j] => time[j] = at[j]
      /\ clock[k] # None => sh[k]
      /\ clock[j] # None => sh[j]
  BY PlayerFacts
<1>3. /\ Step(k, ts) \in Nat
      /\ sh[k] => time[k] = at[k] /\ time'[k] - Step(k, ts) = time[k] - (slips' - slips)
  BY StepIs
<1> HIDE DEF j
<1>4. /\ time'[k] \in Nat /\ time'[j] = time[j] /\ at'[j] = at[j] /\ now' = now
      /\ sh'[k] /\ sh'[j] = sh[j]
      /\ slips' = slips \/ slips' = slips + 1
      /\ at[k] - 1 <= ts /\ at[k] <= now /\ now <= at[k] + Interval
  BY <1>2 DEF Heard, j, IInv, PublisherInv
<1>5. /\ lead' = lead /\ told' = told /\ gaps' = gaps /\ Slack' = Slack
      /\ clock' = IF clock[k] = None THEN clock
                  ELSE [clock EXCEPT ![k] = @ + Step(k, ts)]
  BY SlackFacts DEF Forwards, Forward, IInv
<1>6. /\ clock' \in [Kind -> Nat \cup {None}]
      /\ clock'[j] = clock[j]
      /\ clock'[k] = None <=> clock[k] = None
      /\ clock[k] # None => clock'[k] = clock[k] + Step(k, ts)
  <2>1. CASE clock[k] = None
    BY <1>2, <1>5, <2>1
  <2>2. CASE clock[k] # None
    <3>1. clock[k] + Step(k, ts) \in Nat
      BY <1>2, <1>3, <2>2
    <3>. QED  BY <1>1, <1>2, <1>5, <2>2, <3>1
  <2>. QED  BY <2>1, <2>2
<1>7. /\ clock[j] # None => Shift(j)' = Shift(j)
      /\ clock[k] # None => Shift(k)' = Shift(k) - (slips' - slips)
  BY <1>2, <1>3, <1>4, <1>6 DEF Shift
<1>8. /\ clock[k] # None => Shift(k) \in Int
      /\ clock[j] # None => Shift(j) \in Int
  BY <1>2 DEF Shift
<1>9. ASSUME state' = "RUN" /\ clock'[k] # None /\ clock'[j] # None
      PROVE  Within(Shift("video")', Shift("audio")', 2 * Slack' + slips')
  <2>1. clock[k] # None /\ clock[j] # None
    BY <1>6, <1>9
  <2>2. Within(Shift("video"), Shift("audio"), 2 * Slack + slips)
    <3>1. \A i \in Kind : clock[i] # None
      BY <1>1, <2>1
    <3>2. CASE state = "RUN"
      BY <3>1, <3>2 DEF IInv, ClockInv
    <3>3. CASE state \in Slow
      <4>1. Within(clock["video"], clock["audio"], 2 * Slack - Interval + slips)
        BY <3>1, <3>3 DEF IInv, ClockInv
      <4>. QED  BY <1>1, <1>2, <1>3, <1>4, <2>1, <4>1 DEF Shift, Within
    <3>. QED  BY <1>9, <3>2, <3>3 DEF Forwards
  <2>. QED  BY <1>1, <1>2, <1>4, <1>5, <1>7, <1>8, <2>1, <2>2 DEF Within
<1>10. state' = state \/ state' = "RUN"
  BY DEF Forwards
<1>11. WaitsFor(k, j)'
  <2>1. ~Waits(k)'
    BY <1>1 DEF Forwards, Takes, Waits, j
  <2>. QED  BY <2>1 DEF WaitsFor
<1>12. WaitsFor(j, k)' /\ (Waits("video")' => ~keyed')
  <2>1. SUFFICES ASSUME state' = state, Takes(k)
                 PROVE  WaitsFor(j, k)' /\ (Waits("video")' => ~keyed')
    BY DEF Forwards, WaitsFor, Waits
  <2>2. WaitsFor(j, k) /\ (Waits("video") => ~keyed)
    BY <1>1 DEF IInv, WaitInv, WaitsFor
  <2>3. Waits(j)' <=> Waits(j)
    BY <2>1 DEF Waits
  <2>4. ASSUME Waits(j)  PROVE WaitsFor(j, k)'
    <3>1. /\ clock[j] = None /\ clock[k] # None /\ lead = k /\ Shift(k) <= now
          /\ Shift(k) >= at[j] - slips - (IF sh[j] THEN Interval ELSE 0)
      BY <2>2, <2>4 DEF WaitsFor
    <3>2. /\ clock'[j] = None /\ clock'[k] # None /\ lead' = k
      BY <1>5, <1>6, <3>1
    <3>3. Shift(k)' = Shift(k) - (slips' - slips) /\ Shift(k) \in Int
      BY <1>2, <1>7, <3>1 DEF Shift
    <3>4. /\ Shift(k)' <= now'
          /\ Shift(k)' >= at'[j] - slips' - (IF sh'[j] THEN Interval ELSE 0)
      BY <1>2, <1>4, <3>1, <3>3
    <3>. QED  BY <3>2, <3>4 DEF WaitsFor
  <2>5. Waits("video")' => ~keyed'
    <3>1. ASSUME Waits("video")  PROVE ~keyed /\ k = "audio"
      BY <1>1, <2>1, <2>2, <3>1 DEF Takes, Waits, Other
    <3>2. keyed' => keyed \/ k = "video"
      BY DEF Heard
    <3>. QED  BY <2>1, <3>1, <3>2 DEF Waits
  <2>. QED  BY <2>3, <2>4, <2>5 DEF WaitsFor
<1>13. WaitInv' /\ ClockInv'
  <2>1. state' \notin {None, "WAIT_METADATA"}
    BY <1>1, NoneAssumption DEF Forwards, Takes, Waits, Slow
  <2>2. state' \notin Slow
    BY <1>1 DEF Forwards, Takes, Waits, Slow
  <2>3. j = Other(k)
    BY DEF j
  <2>. QED  BY <1>2, <1>4, <1>6, <1>9, <1>11, <1>12, <2>1, <2>2, <2>3, PlayerInvNext
<1>14. ToldInv'
  <2>1. SUFFICES ASSUME told # None
                 PROVE  /\ lead \in Kind /\ clock'[lead] # None
                        /\ gaps = 0 /\ slips' = 0 => told.day = told.abs + Shift(lead)'
    BY <1>5 DEF ToldInv, Shift
  <2>2. /\ lead \in Kind /\ clock[lead] # None
        /\ gaps = 0 /\ slips = 0 => told.day = told.abs + Shift(lead)
    BY <2>1 DEF IInv, ToldInv
  <2>3. slips' = 0 => slips = 0 /\ Shift(lead)' = Shift(lead)
    <3>1. slips' = 0 => slips = 0
      BY <1>2, <1>4
    <3>2. CASE lead = k
      <4>1. Shift(lead)' = Shift(k)'
        BY <1>5, <3>2 DEF Shift
      <4>. QED  BY <1>7, <1>8, <2>2, <3>1, <3>2, <4>1
    <3>3. CASE lead = j
      <4>1. Shift(lead)' = Shift(j)'
        BY <1>5, <3>3 DEF Shift
      <4>. QED  BY <1>7, <2>2, <3>1, <3>3, <4>1
    <3>. QED  BY <1>1, <2>2, <3>1, <3>2, <3>3
  <2>. QED  BY <1>1, <1>6, <2>2, <2>3
<1>. QED  BY <1>6, <1>13, <1>14

\* A message that is not sent leaves the player's clocks where they are.
LEMMA MissesStep ==
  ASSUME IInv, NEW k \in Kind, NEW ts, Heard(k, ts), Misses(k), UNCHANGED abs_record_time
  PROVE  WaitInv' /\ ClockInv' /\ ToldInv'
<1> DEFINE j == Other(k)
<1>1. /\ j \in Kind /\ j # k /\ Other(j) = k /\ k \in {"video", "audio"}
      /\ \A i \in Kind : i = k \/ i = j
      /\ k = "video" => j = "audio"
      /\ k = "audio" => j = "video"
      /\ j = Other(k)
  BY Kinds
<1>2. /\ None \notin Nat
      /\ clock[k] \in Nat \cup {None} /\ clock[j] \in Nat \cup {None}
      /\ time[k] \in Nat /\ time[j] \in Nat /\ at[k] \in Nat /\ at[j] \in Nat
      /\ now \in Nat /\ slips \in Nat /\ slips' \in Nat /\ ts \in Nat
      /\ Interval \in Nat \ {0} /\ Slack \in Nat /\ Slack >= Interval
      /\ at[j] <= now /\ now <= at[j] + Interval
      /\ sh[j] => time[j] = at[j]
      /\ clock[k] # None => sh[k]
      /\ clock[j] # None => sh[j]
  BY PlayerFacts
<1> HIDE DEF j
<1>3. /\ time'[k] = ts /\ time'[j] = time[j] /\ at'[k] = ts /\ at'[j] = at[j] /\ now' = now
      /\ sh'[k] /\ sh'[j] = sh[j] /\ slips' >= slips
      /\ at[k] - 1 <= ts /\ ts <= at[k] + Interval /\ ts <= now /\ now <= ts + 1
      /\ at[k] <= now /\ now <= at[k] + Interval
      /\ sh[k] => time[k] = at[k]
  BY <1>1, <1>2 DEF Heard, IInv, PublisherInv
<1>4. clock' = clock /\ lead' = lead /\ told' = told
  BY DEF Misses, NotSent
<1>5. /\ WaitsFor(k, j) /\ WaitsFor(j, k) /\ (Waits("video") => ~keyed)
  BY <1>1 DEF IInv, WaitInv, WaitsFor
<1>6. /\ clock[j] # None => Shift(j)' = Shift(j) /\ Shift(j) \in Int
  BY <1>2, <1>3, <1>4 DEF Shift
<1>7. told # None => lead \in Kind /\ clock[lead] # None
  BY DEF IInv, ToldInv
<1>8. CASE ~Takes(k) /\ (Waits(k) => ~sh[k]) /\ state' = state /\ gaps' = gaps
  <2>1. WaitsFor(k, j)'
    <3>1. SUFFICES ASSUME Waits(k)
                   PROVE  /\ clock[k] = None /\ clock[j] # None /\ lead = j
                          /\ Shift(j)' <= now'
                          /\ Shift(j)' >= at'[k] - slips' - Interval
      BY <1>3, <1>4, <1>8 DEF WaitsFor, Waits
    <3>2. /\ clock[k] = None /\ clock[j] # None /\ lead = j /\ Shift(j) <= now
          /\ Shift(j) >= at[k] - slips
      BY <1>2, <1>5, <1>8, <3>1 DEF WaitsFor
    <3>. QED  BY <1>2, <1>3, <1>6, <3>2
  <2>2. WaitsFor(j, k)'
    BY <1>8 DEF WaitsFor, Takes, Waits, j
  <2>3. Waits("video")' => ~keyed'
    <3>1. ASSUME Waits("video")  PROVE ~keyed'
      <4>1. k = "video"
        BY <1>1, <1>8, <3>1 DEF Takes, Other
      <4>2. ~keyed /\ ~sh[k]
        BY <1>5, <1>8, <3>1, <4>1
      <4>. QED  BY <4>2 DEF Heard
    <3>. QED  BY <1>8, <3>1 DEF Waits
  <2>4. /\ state' \in {None, "WAIT_METADATA"} => clock' = Nothing /\ told' = None
        /\ state' \in Slow => gaps' > 0
    BY <1>4, <1>8 DEF IInv, ClockInv
  <2>5. state' \in Slow /\ clock'[k] # None /\ clock'[j] # None =>
          Within(clock'["video"], clock'["audio"], 2 * Slack' - Interval + slips')
    <3>1. SUFFICES ASSUME state \in Slow, clock[k] # None, clock[j] # None
                   PROVE  Within(clock["video"], clock["audio"], 2 * Slack - Interval + slips')
      BY <1>4, <1>8, SlackFacts DEF IInv
    <3>2. \A i \in Kind : clock[i] # None
      BY <1>1, <3>1
    <3>3. Within(clock["video"], clock["audio"], 2 * Slack - Interval + slips)
      BY <3>1, <3>2 DEF IInv, ClockInv
    <3>. QED  BY <1>1, <1>2, <1>3, <3>1, <3>3 DEF Within
  <2>6. state' # "RUN"
    BY <1>8 DEF Takes
  <2>7. WaitInv' /\ ClockInv'
    BY <1>1, <1>2, <1>3, <1>4, <2>1, <2>2, <2>3, <2>4, <2>5, <2>6, PlayerInvNext
  <2>8. ToldInv'
    <3>1. SUFFICES ASSUME told # None, gaps = 0, slips' = 0
                   PROVE  told.day = told.abs + Shift(lead)'
      BY <1>4, <1>7, <1>8 DEF ToldInv, Shift
    <3>2. slips = 0 /\ told.day = told.abs + Shift(lead)
      BY <1>2, <1>3, <3>1 DEF IInv, ToldInv
    <3>3. Waits(k)
      <4>1. state \notin Slow /\ state \notin {None, "WAIT_METADATA"}
        BY <3>1 DEF IInv, ClockInv
      <4>. QED  BY <1>1, <1>8, <4>1 DEF IInv, TypeOK, Takes, Waits, j
    <3>4. lead = j /\ clock[j] # None
      BY <1>5, <3>3 DEF WaitsFor
    <3>5. Shift(lead)' = Shift(j)'
      BY <1>4, <3>4 DEF Shift
    <3>. QED  BY <1>6, <3>2, <3>4, <3>5
  <2>. QED  BY <2>7, <2>8
<1>9. CASE Takes(k) /\ state' \in Slow /\ gaps < MaxGaps /\ gaps' = gaps + 1
  <2>0. gaps \in Nat /\ Slack' = Slack + Interval
    BY <1>9, SlackFacts DEF IInv, TypeOK
  <2>1. ~Waits(k)' /\ ~Waits(j)' /\ ~Waits("video")'
    BY <1>9 DEF Waits, Slow
  <2>2. WaitsFor(k, j)' /\ WaitsFor(j, k)' /\ (Waits("video")' => ~keyed')
    BY <2>1 DEF WaitsFor
  <2>3. /\ state' \notin {None, "WAIT_METADATA"} /\ state' # "RUN" /\ gaps' > 0
    BY <1>9, <2>0, NoneAssumption DEF Slow
  <2>4. clock'[k] # None /\ clock'[j] # None =>
          Within(clock'["video"], clock'["audio"], 2 * Slack' - Interval + slips')
    <3>1. SUFFICES ASSUME clock[k] # None, clock[j] # None
                   PROVE  Within(clock["video"], clock["audio"], 2 * Slack + Interval + slips')
      <4>1. 2 * (Slack + Interval) - Interval = 2 * Slack + Interval
        BY <1>2
      <4>. QED  BY <1>4, <2>0, <4>1
    <3>2. state = "RUN"
      BY <1>5, <1>9, <3>1 DEF Takes, WaitsFor, j
    <3>3. \A i \in Kind : clock[i] # None
      BY <1>1, <3>1
    <3>4. Within(Shift("video"), Shift("audio"), 2 * Slack + slips)
      BY <3>2, <3>3 DEF IInv, ClockInv
    <3>. QED  BY <1>1, <1>2, <1>3, <3>1, <3>4 DEF Within, Shift
  <2>5. WaitInv' /\ ClockInv'
    BY <1>1, <1>2, <1>3, <1>4, <2>2, <2>3, <2>4, PlayerInvNext
  <2>6. ToldInv'
    BY <1>4, <1>7, <2>3 DEF ToldInv
  <2>. QED  BY <2>5, <2>6
<1>. QED  BY <1>8, <1>9 DEF Misses

\* The first message a player gets starts its clock, and the time it is told is right.
LEMMA OpensStep ==
  ASSUME IInv, NEW k \in Kind, NEW ts, Heard(k, ts), PublisherInv', Opens(k, ts)
  PROVE  WaitInv' /\ ClockInv' /\ ToldInv' /\ clock' \in [Kind -> Nat \cup {None}]
<1> DEFINE j == Other(k)
<1>1. /\ j \in Kind /\ j # k /\ Other(j) = k /\ k \in {"video", "audio"}
      /\ \A i \in Kind : i = k \/ i = j
      /\ k = "video" => j = "audio"
      /\ k = "audio" => j = "video"
      /\ j = Other(k)
  BY Kinds
<1>2. /\ clock \in [Kind -> Nat \cup {None}] /\ None \notin Nat
      /\ at[k] \in Nat /\ at[j] \in Nat
      /\ now \in Nat /\ slips \in Nat /\ slips' \in Nat /\ ts \in Nat
      /\ Interval \in Nat \ {0}
      /\ at[j] <= now /\ now <= at[j] + Interval
  BY PlayerFacts
<1> HIDE DEF j
<1>3. clock = Nothing
  BY DEF Opens, IInv, ClockInv
<1>4. /\ clock' = [clock EXCEPT ![k] = 0] /\ lead' = k /\ gaps' = gaps
      /\ told' = [day |-> ts + abs_record_time, abs |-> abs_record_time]
      /\ state' = IF k = "video" THEN "WAIT_AUDIO_SH" ELSE "WAIT_VIDEO_SH"
      /\ k = "audio" => ~sh["video"]
  BY DEF Opens, StartAtZero
<1>5. clock'[k] = 0 /\ clock'[j] = None /\ clock' \in [Kind -> Nat \cup {None}]
  BY <1>1, <1>2, <1>3, <1>4 DEF Nothing
<1>6. /\ time'[k] = ts /\ at'[k] = ts /\ at'[j] = at[j] /\ now' = now
      /\ sh'[k] /\ sh'[j] = sh[j]
      /\ ts <= now /\ now <= ts + 1 /\ publishing /\ publishing'
  BY <1>1 DEF Heard
<1>7. Shift(k)' = ts
  BY <1>2, <1>5, <1>6 DEF Shift
<1>8. Waits(j)' /\ ~Waits(k)'
  BY <1>1, <1>4 DEF Waits
<1>9. WaitsFor(j, k)'
  <2>1. ~sh'[j] => ts >= at'[j] - slips'
    BY <1>1, <1>6 DEF PublisherInv
  <2>2. Shift(k)' <= now' /\ Shift(k)' >= at'[j] - slips' - (IF sh'[j] THEN Interval ELSE 0)
    BY <1>2, <1>6, <1>7, <2>1
  <2>. QED  BY <1>2, <1>4, <1>5, <2>2 DEF WaitsFor
<1>10. WaitsFor(k, j)'
  BY <1>8 DEF WaitsFor
<1>11. Waits("video")' => ~keyed'
  <2>1. ASSUME Waits("video")'  PROVE ~keyed'
    <3>1. k = "audio" /\ ~sh["video"]
      BY <1>1, <1>4, <2>1 DEF Waits
    <3>2. ~keyed
      BY <1>6, <3>1 DEF IInv, PublisherInv
    <3>. QED  BY <3>1, <3>2 DEF Heard
  <2>. QED  BY <2>1
<1>12. /\ state' \notin {None, "WAIT_METADATA"} /\ state' \notin Slow /\ state' # "RUN"
  BY <1>4, NoneAssumption DEF Slow
<1>13. WaitInv' /\ ClockInv'
  BY <1>1, <1>5, <1>6, <1>9, <1>10, <1>11, <1>12, PlayerInvNext
<1>14. ToldInv'
  <2>1. told'.day = ts + abs_record_time /\ told'.abs = abs_record_time
    BY <1>4
  <2>2. lead' \in Kind /\ clock'[lead'] # None /\ Shift(lead)' = ts
    BY <1>2, <1>4, <1>5, <1>7 DEF Shift
  <2>3. abs_record_time \in Nat
    BY ClockAssumption DEF IInv, TypeOK
  <2>. QED  BY <1>2, <2>1, <2>2, <2>3 DEF ToldInv
<1>. QED  BY <1>5, <1>13, <1>14

\* The second kind starts, less than two intervals after the first.
LEMMA JoinsStep ==
  ASSUME IInv, NEW k \in Kind, NEW ts, Heard(k, ts), Joins(k), UNCHANGED abs_record_time
  PROVE  WaitInv' /\ ClockInv' /\ ToldInv' /\ clock' \in [Kind -> Nat \cup {None}]
<1> DEFINE j == Other(k)
<1>1. /\ j \in Kind /\ j # k /\ Other(j) = k /\ k \in {"video", "audio"}
      /\ \A i \in Kind : i = k \/ i = j
      /\ k = "video" => j = "audio"
      /\ k = "audio" => j = "video"
      /\ j = Other(k)
  BY Kinds
<1>2. /\ clock \in [Kind -> Nat \cup {None}] /\ None \notin Nat
      /\ clock[j] \in Nat \cup {None}
      /\ time[j] \in Nat /\ at[k] \in Nat
      /\ now \in Nat /\ slips \in Nat /\ slips' \in Nat /\ ts \in Nat
      /\ Interval \in Nat \ {0} /\ Slack \in Nat /\ Slack >= Interval
      /\ clock[j] # None => sh[j]
  BY PlayerFacts
<1> HIDE DEF j
<1>3. /\ state' = "RUN" /\ clock' = [clock EXCEPT ![k] = 0]
      /\ lead' = lead /\ told' = told /\ gaps' = gaps /\ Slack' = Slack
      /\ sh[k]
  BY SlackFacts DEF Joins, StartAtZero, IInv
<1>4. clock'[k] = 0 /\ clock'[j] = clock[j] /\ clock' \in [Kind -> Nat \cup {None}]
  BY <1>1, <1>2, <1>3
<1>5. /\ clock[j] # None /\ lead = j
      /\ Shift(j) <= now /\ Shift(j) >= at[k] - slips - Interval
  BY <1>1, <1>3 DEF Joins, IInv, WaitInv
<1>6. /\ time'[k] = ts /\ time'[j] = time[j] /\ sh'[k] /\ sh'[j] = sh[j]
      /\ ts <= at[k] + Interval /\ now <= ts + 1 /\ slips' >= slips
  BY <1>1, <1>2 DEF Heard
<1>7. Shift(k)' = ts /\ Shift(j)' = Shift(j) /\ Shift(j) \in Int
  BY <1>2, <1>4, <1>5, <1>6 DEF Shift
<1>8. Within(Shift("video")', Shift("audio")', 2 * Slack' + slips')
  BY <1>1, <1>2, <1>3, <1>5, <1>6, <1>7 DEF Within
<1>9. WaitsFor(k, j)' /\ WaitsFor(j, k)' /\ (Waits("video")' => ~keyed')
  BY <1>3 DEF WaitsFor, Waits
<1>10. state' \notin {None, "WAIT_METADATA"} /\ state' \notin Slow
  BY <1>3, NoneAssumption DEF Slow
<1>11. WaitInv' /\ ClockInv'
  BY <1>1, <1>2, <1>4, <1>5, <1>6, <1>8, <1>9, <1>10, PlayerInvNext
<1>12. ToldInv'
  <2>1. SUFFICES ASSUME told # None
                 PROVE  gaps = 0 /\ slips' = 0 => told.day = told.abs + Shift(lead)'
    BY <1>1, <1>3, <1>4, <1>5 DEF ToldInv, Shift
  <2>2. Shift(lead)' = Shift(lead)
    BY <1>3, <1>4, <1>5, <1>6 DEF Shift
  <2>3. slips' = 0 => slips = 0
    BY <1>2, <1>6
  <2>. QED  BY <2>1, <2>2, <2>3 DEF IInv, ToldInv
<1>. QED  BY <1>4, <1>11, <1>12

\* Whatever the message does to the player.
LEMMA PlayerStep ==
  ASSUME IInv, NEW k \in Kind, NEW ts, Heard(k, ts), PublisherInv', Moves(k, ts),
         UNCHANGED abs_record_time
  PROVE  /\ WaitInv' /\ ClockInv' /\ ToldInv'
         /\ clock' \in [Kind -> Nat \cup {None}]
         /\ lead' \in Kind \cup {None} /\ gaps' \in 0..MaxGaps
         /\ state' \in {None, "WAIT_METADATA", "WAIT_VIDEO_SH", "WAIT_AUDIO_SH", "RUN"}
                         \cup Slow
<1>1. /\ lead \in Kind \cup {None} /\ gaps \in 0..MaxGaps /\ MaxGaps \in Nat
      /\ clock \in [Kind -> Nat \cup {None}]
      /\ state \in {None, "WAIT_METADATA", "WAIT_VIDEO_SH", "WAIT_AUDIO_SH", "RUN"} \cup Slow
  BY ClockAssumption DEF IInv, TypeOK
<1>2. CASE Forwards(k, ts)
  BY <1>1, <1>2, ForwardsStep DEF Forwards, Forward
<1>3. CASE Misses(k)
  <2>1. gaps' \in 0..MaxGaps
    BY <1>1, <1>3 DEF Misses
  <2>. QED  BY <1>1, <1>3, <2>1, MissesStep DEF Misses, NotSent
<1>4. CASE Opens(k, ts)
  BY <1>1, <1>4, OpensStep DEF Opens
<1>5. CASE Joins(k)
  BY <1>1, <1>5, JoinsStep DEF Joins
<1>. QED  BY <1>2, <1>3, <1>4, <1>5 DEF Moves

-----------------------------------------------------------------------------
(* The steps. *)

\* A message of either kind.
LEMMA MessageStep ==
  ASSUME IInv, NEW k \in Kind, NEW kind, NEW ts \in {now, now - 1},
         Stamp(k, ts), Cache(k, kind, ts), kind \in {"video_sh", "audio_sh"} <=> ~sh[k],
         kind = "key" => k = "video",
         keyed' \in BOOLEAN, keyed' => keyed \/ (k = "video" /\ sh[k]),
         Moves(k, ts), spoilt' \in BOOLEAN,
         UNCHANGED <<metadata, abs_record_time, time_index, plays>>
  PROVE  IInv'
<1>1. Heard(k, ts)
  BY HeardIs
<1>2. PublisherInv'
  BY <1>1, PublisherStep
<1>3. /\ GopInv'
      /\ gop' \in [ts : 0..MaxTime, steps : [Kind -> Nat], count : 0..MAX_GOP_LEN]
                    \cup {None}
  BY <1>1, <1>2, GopStep DEF Cache
<1>4. /\ WaitInv' /\ ClockInv' /\ ToldInv'
      /\ clock' \in [Kind -> Nat \cup {None}]
      /\ lead' \in Kind \cup {None} /\ gaps' \in 0..MaxGaps
      /\ state' \in {None, "WAIT_METADATA", "WAIT_VIDEO_SH", "WAIT_AUDIO_SH", "RUN"} \cup Slow
  BY <1>1, <1>2, PlayerStep
<1>5. TypeOK'
  BY <1>1, <1>3, <1>4 DEF Heard, TypeOK, IInv
<1>. QED  BY <1>2, <1>3, <1>4, <1>5 DEF IInv

\* Pictures.
LEMMA VideoMsgStep ==
  ASSUME IInv, NEW kind \in {"video_sh", "key", "inter"}, NEW ts \in {now, now - 1},
         VideoMsg(kind, ts)
  PROVE  IInv'
<1>1. /\ kind = "video_sh" <=> ~sh["video"]
      /\ kind = "inter" => keyed
      /\ Stamp("video", ts) /\ keyed' = (keyed \/ kind = "key") /\ SendVideo(kind, ts)
      /\ Cache("video", kind, ts) /\ UNCHANGED plays
  BY DEF VideoMsg
<1>2. /\ Moves("video", ts)
      /\ spoilt' \in BOOLEAN /\ UNCHANGED <<metadata, abs_record_time, time_index>>
  BY <1>1, SendVideoMoves
<1>3. "video" \in Kind
  BY DEF Kind
<1>4. kind \in {"video_sh", "audio_sh"} <=> ~sh["video"]
  BY <1>1
<1>5. keyed' \in BOOLEAN /\ (keyed' => keyed \/ sh["video"])
  BY <1>1 DEF IInv, TypeOK
<1>. QED  BY <1>1, <1>2, <1>3, <1>4, <1>5, MessageStep

\* Sound.
LEMMA AudioMsgStep ==
  ASSUME IInv, NEW kind \in {"audio_sh", "audio"}, NEW ts \in {now, now - 1},
         AudioMsg(kind, ts)
  PROVE  IInv'
<1>1. /\ kind = "audio_sh" <=> ~sh["audio"]
      /\ Stamp("audio", ts) /\ SendAudio(ts)
      /\ Cache("audio", kind, ts) /\ UNCHANGED <<keyed, plays>>
  BY DEF AudioMsg
<1>2. /\ Moves("audio", ts)
      /\ spoilt' \in BOOLEAN /\ UNCHANGED <<metadata, abs_record_time, time_index>>
  BY <1>1, SendAudioMoves
<1>3. "audio" \in Kind /\ kind # "key"
  BY DEF Kind
<1>4. kind \in {"video_sh", "audio_sh"} <=> ~sh["audio"]
  BY <1>1
<1>5. keyed' \in BOOLEAN /\ (keyed' => keyed)
  BY <1>1 DEF IInv, TypeOK
<1>. QED  BY <1>1, <1>2, <1>3, <1>4, <1>5, MessageStep

\* The parts that only the player's variables and the publisher's clock are in.
LEMMA NoPlayerNext ==
  ASSUME state' \in {None, "WAIT_METADATA"}, clock' = Nothing, told' = None
  PROVE  WaitInv' /\ ClockInv' /\ ToldInv'
<1>1. state' \notin Slow /\ state' # "RUN" /\ \A k \in Kind : ~Waits(k)'
  BY NoneAssumption DEF Slow, Waits, Kind
<1>2. ~Waits("video")' /\ \A k \in Kind : clock'[k] = None
  BY <1>1 DEF Kind, Nothing
<1>. QED  BY <1>1, <1>2 DEF WaitInv, ClockInv, ToldInv

\* A stream begins without a player, and nothing has been heard of either kind.
LEMMA PublishStep ==
  ASSUME IInv, Publish
  PROVE  IInv'
<1>1. /\ ~publishing /\ publishing' /\ publishing' \in BOOLEAN /\ now' \in Starts
      /\ at' = [k \in Kind |-> now'] /\ keyed' = FALSE
      /\ slips' = slips /\ time' = time /\ sh' = sh /\ gop' = gop /\ metadata' = metadata
      /\ abs_record_time' = abs_record_time /\ time_index' = time_index /\ spoilt' = spoilt
      /\ state' = state /\ clock' = clock /\ lead' = lead /\ told' = told
      /\ gaps' = gaps /\ plays' = plays
  BY DEF Publish, cacheVars, metaVars, playerVars
<1>2. /\ state = None /\ gop = None /\ \A k \in Kind : ~sh[k]
      /\ clock = Nothing /\ told = None
  BY <1>1 DEF IInv, PublisherInv, ClockInv
<1>3. now' \in 0..MaxTime /\ now' \in Nat /\ Interval \in Nat /\ slips \in Nat
  BY <1>1, ClockAssumption DEF IInv, TypeOK
<1>4. TypeOK'
  <2>1. at' \in [Kind -> 0..MaxTime]
    BY <1>1, <1>3
  <2>. QED  BY <1>1, <1>3, <2>1 DEF IInv, TypeOK
<1>5. PublisherInv'
  <2>1. \A k \in Kind : at'[k] = now' /\ Other(k) \in Kind
    BY <1>1, Kinds
  <2>2. \A k \in Kind : at'[k] = now' /\ at'[Other(k)] = now'
    BY <2>1
  <2>3. now' <= now' + Interval /\ now' >= now' - slips' /\ now' <= now'
    <3>1. now' \in Nat /\ Interval \in Nat /\ slips' \in Nat
      BY <1>1, <1>3
    <3>2. \A n, i, d \in Nat : n <= n + i /\ n >= n - d /\ n <= n
      OBVIOUS
    <3>. QED  BY <3>1, <3>2
  <2>. QED  BY <1>1, <1>2, <2>2, <2>3 DEF PublisherInv
<1>6. GopInv'
  BY <1>1, <1>2 DEF GopInv
<1>. QED  BY <1>1, <1>2, <1>4, <1>5, <1>6, NoPlayerNext DEF IInv

\* The clock waits for the kinds it has to hear of.
LEMMA TickStep ==
  ASSUME IInv, Tick
  PROVE  IInv'
<1>1. /\ publishing /\ now < MaxTime
      /\ \A k \in Kind : now + 1 - at[k] <= Interval
      /\ now' = now + 1
      /\ publishing' = publishing /\ at' = at /\ keyed' = keyed
      /\ slips' = slips /\ time' = time /\ sh' = sh /\ gop' = gop /\ metadata' = metadata
      /\ abs_record_time' = abs_record_time /\ time_index' = time_index /\ spoilt' = spoilt
      /\ state' = state /\ clock' = clock /\ lead' = lead /\ told' = told
      /\ gaps' = gaps /\ plays' = plays
  BY DEF Tick, cacheVars, metaVars, playerVars
<1>2. /\ now \in 0..MaxTime /\ MaxTime \in Nat /\ at \in [Kind -> 0..MaxTime]
      /\ Interval \in Nat /\ time \in [Kind -> 0..MaxTime]
      /\ clock \in [Kind -> Nat \cup {None}]
  BY ClockAssumption DEF IInv, TypeOK
<1>3. TypeOK'
  <2>1. now' \in 0..MaxTime
    BY <1>1, <1>2
  <2>. QED  BY <1>1, <2>1 DEF IInv, TypeOK
<1>4. PublisherInv'
  <2>1. \A k \in Kind : at[k] <= now /\ (sh[k] => time[k] = at[k])
                        /\ (~sh[k] => at[Other(k)] >= at[k] - slips)
    BY <1>1 DEF IInv, PublisherInv
  <2>2. \A k \in Kind : at'[k] <= now' /\ now' <= at'[k] + Interval
    BY <1>1, <1>2, <2>1
  <2>3. keyed' => sh'["video"]
    BY <1>1 DEF IInv, PublisherInv
  <2>. QED  BY <1>1, <2>1, <2>2, <2>3 DEF PublisherInv
<1>5. GopInv'
  BY <1>1 DEF IInv, GopInv
<1>6. WaitInv'
  <2>1. \A k \in Kind : Shift(k)' = Shift(k) /\ (Waits(k)' <=> Waits(k))
    BY <1>1 DEF Shift, Waits
  <2>2. ASSUME NEW k \in Kind, Waits(k)
        PROVE  /\ clock'[k] = None /\ clock'[Other(k)] # None /\ lead' = Other(k)
               /\ Shift(Other(k))' <= now'
               /\ Shift(Other(k))' >= at'[k] - slips' - (IF sh'[k] THEN Interval ELSE 0)
    <3>1. /\ clock[k] = None /\ clock[Other(k)] # None /\ lead = Other(k)
          /\ Shift(Other(k)) <= now
          /\ Shift(Other(k)) >= at[k] - slips - (IF sh[k] THEN Interval ELSE 0)
      BY <2>2 DEF IInv, WaitInv
    <3>2. Other(k) \in Kind
      BY Kinds
    <3>3. Shift(Other(k)) \in Int
      BY <1>2, <3>1, <3>2 DEF Shift
    <3>4. Shift(Other(k))' = Shift(Other(k))
      BY <2>1, <3>2
    <3>. QED  BY <1>1, <1>2, <3>1, <3>3, <3>4
  <2>3. Waits("video")' => ~keyed'
    BY <1>1 DEF IInv, WaitInv, Waits
  <2>. QED  BY <2>1, <2>2, <2>3 DEF WaitInv
<1>7. ClockInv' /\ ToldInv'
  <2>1. Shift(lead)' = Shift(lead) /\ \A k \in Kind : Shift(k)' = Shift(k)
    BY <1>1 DEF Shift
  <2>2. Slack' = Slack /\ "video" \in Kind /\ "audio" \in Kind
    BY <1>1, SlackFacts DEF IInv, Kind
  <2>. QED  BY <1>1, <2>1, <2>2 DEF IInv, ClockInv, ToldInv
<1>. QED  BY <1>3, <1>4, <1>5, <1>6, <1>7 DEF IInv

\* Metadata changes none of the times.
LEMMA MetadataStep ==
  ASSUME IInv, NEW place \in Places, NEW abs \in AbsTimes, Metadata(place, abs)
  PROVE  IInv'
<1>1. /\ metadata' = place /\ spoilt' = spoilt
      /\ publishing' = publishing /\ now' = now /\ at' = at /\ keyed' = keyed
      /\ slips' = slips /\ time' = time /\ sh' = sh /\ gop' = gop
      /\ state' = state /\ clock' = clock /\ lead' = lead /\ told' = told
      /\ gaps' = gaps /\ plays' = plays
      /\ abs_record_time' \in AbsTimes \cup {0} /\ time_index' \in Places \cup {0}
  BY DEF Metadata, pubVars, cacheVars, playerVars, IInv, TypeOK
<1>2. TypeOK'
  BY <1>1 DEF IInv, TypeOK
<1>3. PublisherInv' /\ GopInv'
  BY <1>1 DEF IInv, PublisherInv, GopInv
<1>4. /\ \A k \in Kind : Shift(k)' = Shift(k) /\ (Waits(k)' <=> Waits(k))
      /\ Waits("video")' <=> Waits("video")
      /\ Shift(lead)' = Shift(lead) /\ Slack' = Slack
      /\ Shift("video")' = Shift("video") /\ Shift("audio")' = Shift("audio")
  BY <1>1, SlackFacts DEF Shift, Waits, IInv
<1>5. WaitInv'
  <2>1. \A k \in Kind : Shift(Other(k))' = Shift(Other(k))
    BY <1>4, Kinds
  <2>. QED  BY <1>1, <1>4, <2>1 DEF IInv, WaitInv
<1>6. ClockInv' /\ ToldInv'
  BY <1>1, <1>4 DEF IInv, ClockInv, ToldInv
<1>. QED  BY <1>2, <1>3, <1>5, <1>6 DEF IInv

\* A player joins.  From the key cache it starts with the steps of the group.
LEMMA PlayStep ==
  ASSUME IInv, Play
  PROVE  IInv'
<1>1. /\ publishing /\ state = None /\ gaps' = 0 /\ plays' = plays + 1 /\ plays < MaxPlays
      /\ publishing' = publishing /\ now' = now /\ at' = at /\ keyed' = keyed
      /\ slips' = slips /\ time' = time /\ sh' = sh /\ gop' = gop
      /\ metadata' = metadata /\ abs_record_time' = abs_record_time
      /\ time_index' = time_index
  BY DEF Play, pubVars, cacheVars, metaVars, UpdateAbsRecordTime
<1>2. /\ at \in [Kind -> 0..MaxTime] /\ time \in [Kind -> 0..MaxTime]
      /\ now \in Nat /\ slips \in Nat /\ abs_record_time \in Nat
      /\ Interval \in Nat \ {0} /\ MaxPlays \in Nat /\ MaxGaps \in Nat
      /\ plays \in Nat /\ spoilt \in BOOLEAN
      /\ gop \in [ts : 0..MaxTime, steps : [Kind -> Nat], count : 0..MAX_GOP_LEN]
                   \cup {None}
      /\ "video" \in Kind /\ "audio" \in Kind
      /\ Other("video") = "audio" /\ Other("audio") = "video"
  BY ClockAssumption DEF IInv, TypeOK, Kind, Other
<1>3. plays' \in 0..MaxPlays /\ gaps' \in 0..MaxGaps /\ spoilt' \in BOOLEAN
  <2>1. plays' \in 0..MaxPlays /\ gaps' \in 0..MaxGaps
    BY <1>1, <1>2
  <2>2. spoilt' = (spoilt \/ (time_index # 0 /\ time_index # metadata)) \/ spoilt' = spoilt
    BY DEF Play, UpdateAbsRecordTime, metaVars
  <2>3. spoilt' \in BOOLEAN
    BY <1>2, <2>2
  <2>. QED  BY <2>1, <2>3
<1>4. PublisherInv'
  <2>1. \A k \in Kind : /\ at[k] <= now /\ now <= at[k] + Interval
                        /\ sh[k] => time[k] = at[k]
                        /\ ~sh[k] => at[Other(k)] >= at[k] - slips
    BY <1>1 DEF IInv, PublisherInv
  <2>2. keyed => sh["video"]
    BY <1>1 DEF IInv, PublisherInv
  <2>. QED  BY <1>1, <2>1, <2>2 DEF PublisherInv
<1>5. GopInv'
  BY <1>1 DEF IInv, GopInv
<1>6. CASE gop # None /\ metadata # None /\ sh["video"]
  <2>1. /\ state' = IF sh["audio"] THEN "RUN" ELSE "WAIT_AUDIO_SH"
        /\ clock' = [video |-> gop.steps["video"],
                     audio |-> IF sh["audio"] THEN gop.steps["audio"] ELSE None]
        /\ lead' = "video"
        /\ told' = [day |-> gop.ts + abs_record_time, abs |-> abs_record_time]
    BY <1>6 DEF Play
  <2>2. /\ gop.steps["video"] \in Nat /\ gop.steps["audio"] \in Nat /\ gop.ts \in Nat
        /\ time["video"] \in Nat /\ time["audio"] \in Nat /\ at["audio"] \in Nat
    BY <1>2, <1>6, ClockAssumption
  <2>3. /\ clock'["video"] = gop.steps["video"]
        /\ clock'["audio"] = IF sh["audio"] THEN gop.steps["audio"] ELSE None
        /\ clock' \in [Kind -> Nat \cup {None}]
    <3>1. DOMAIN clock' = Kind
      BY <2>1 DEF Kind
    <3>2. /\ clock'["video"] = gop.steps["video"]
          /\ clock'["audio"] = IF sh["audio"] THEN gop.steps["audio"] ELSE None
      BY <2>1
    <3>3. clock' = [k \in Kind |-> clock'[k]]
      BY <2>1, <3>1
    <3>4. \A k \in Kind : clock'[k] \in Nat \cup {None}
      BY <2>2, <3>2 DEF Kind
    <3>. QED  BY <3>2, <3>3, <3>4
  <2>4. Shift("video")' = time["video"] - gop.steps["video"]
    BY <1>1, <2>3 DEF Shift
  <2>5. /\ slips = 0 => time["video"] - gop.steps["video"] = gop.ts
        /\ sh["audio"] => Within(time["video"] - gop.steps["video"],
                                 time["audio"] - gop.steps["audio"], 2 * Interval + slips)
        /\ ~sh["audio"] => time["video"] - gop.steps["video"] >= at["audio"] - slips
    BY <1>6 DEF IInv, GopInv
  <2>6. time["video"] <= now
    BY <1>1, <1>2, <1>6 DEF IInv, PublisherInv
  <2>7. None \notin Nat /\ None # "WAIT_AUDIO_SH" /\ None # "RUN"
    BY NoneAssumption
  <2>8. TypeOK'
    BY <1>1, <1>2, <1>3, <2>1, <2>3 DEF IInv, TypeOK
  <2>9. WaitsFor("video", "audio")' /\ WaitsFor("audio", "video")'
        /\ (Waits("video")' => ~keyed')
    <3>1. ~Waits("video")' /\ (Waits("audio")' => ~sh["audio"])
      BY <2>1 DEF Waits
    <3>2. ~sh["audio"] => /\ clock'["audio"] = None /\ clock'["video"] # None
                          /\ lead' = "video" /\ Shift("video")' <= now'
                          /\ Shift("video")' >= at'["audio"] - slips'
      BY <1>1, <1>2, <2>1, <2>2, <2>3, <2>4, <2>5, <2>6, <2>7
    <3>3. ~sh["audio"] => at'["audio"] - slips' - 0 = at'["audio"] - slips'
      BY <1>1, <1>2, <2>2
    <3>. QED  BY <1>1, <3>1, <3>2, <3>3 DEF WaitsFor
  <2>10. state' = "RUN" /\ clock'["video"] # None /\ clock'["audio"] # None =>
           Within(Shift("video")', Shift("audio")', 2 * Slack' + slips')
    <3>1. SUFFICES ASSUME sh["audio"]
                   PROVE  Within(Shift("video")', Shift("audio")', 2 * Slack' + slips')
      BY <2>3
    <3>2. Slack' = Interval
      BY <1>1, SlackFacts DEF IInv
    <3>3. Shift("audio")' = time["audio"] - gop.steps["audio"]
      BY <1>1, <2>3, <3>1 DEF Shift
    <3>. QED  BY <1>1, <2>4, <2>5, <3>1, <3>2, <3>3
  <2>11. state' \notin {None, "WAIT_METADATA"} /\ state' \notin Slow
    BY <2>1, <2>7 DEF Slow
  <2>12. /\ clock'["video"] # None => sh'["video"]
         /\ clock'["audio"] # None => sh'["audio"]
    BY <1>1, <1>6, <2>3
  <2>13. WaitInv' /\ ClockInv'
    BY <1>2, <2>9, <2>10, <2>11, <2>12, PlayerInvNext
  <2>14. ToldInv'
    <3>1. told'.day = gop.ts + abs_record_time /\ told'.abs = abs_record_time
      BY <2>1
    <3>2. lead' \in Kind /\ clock'[lead'] # None
      BY <1>2, <2>1, <2>2, <2>3, <2>7
    <3>3. Shift(lead)' = time["video"] - gop.steps["video"]
      BY <1>1, <2>1, <2>3 DEF Shift
    <3>. QED  BY <1>1, <1>2, <2>2, <2>5, <3>1, <3>2, <3>3 DEF ToldInv
  <2>. QED  BY <1>4, <1>5, <2>8, <2>13, <2>14 DEF IInv
<1>7. CASE ~(gop # None /\ metadata # None /\ sh["video"])
  <2>1. state' = "WAIT_METADATA" /\ clock' = Nothing /\ lead' = None /\ told' = None
    BY <1>7 DEF Play
  <2>2. TypeOK'
    BY <1>1, <1>3, <2>1 DEF IInv, TypeOK, Nothing
  <2>. QED  BY <1>4, <1>5, <2>1, <2>2, NoPlayerNext DEF IInv
<1>. QED  BY <1>6, <1>7

\* A player leaves.
LEMMA StopPlayStep ==
  ASSUME IInv, StopPlay
  PROVE  IInv'
<1>1. /\ state' = None /\ clock' = Nothing /\ lead' = None /\ told' = None
      /\ publishing' = publishing /\ now' = now /\ at' = at /\ keyed' = keyed
      /\ slips' = slips /\ time' = time /\ sh' = sh /\ gop' = gop
      /\ metadata' = metadata /\ abs_record_time' = abs_record_time
      /\ time_index' = time_index /\ spoilt' = spoilt /\ gaps' = gaps /\ plays' = plays
  BY DEF StopPlay, pubVars, cacheVars, metaVars
<1>2. TypeOK'
  BY <1>1 DEF IInv, TypeOK, Nothing
<1>3. PublisherInv' /\ GopInv'
  BY <1>1 DEF IInv, PublisherInv, GopInv
<1>. QED  BY <1>1, <1>2, <1>3, NoPlayerNext DEF IInv

\* The stream ends, and everything is forgotten but the place of the time of day.
LEMMA UnpublishStep ==
  ASSUME IInv, Unpublish
  PROVE  IInv'
<1>1. /\ publishing' = FALSE /\ state' = None /\ clock' = Nothing /\ lead' = None
      /\ told' = None /\ time' = [k \in Kind |-> 0] /\ sh' = [k \in Kind |-> FALSE]
      /\ gop' = None /\ metadata' = None /\ abs_record_time' = 0
      /\ now' = now /\ at' = at /\ keyed' = keyed /\ slips' = slips
      /\ gaps' = gaps /\ plays' = plays /\ time_index' = time_index /\ spoilt' = spoilt
  BY DEF Unpublish
<1>2. TypeOK'
  <2>1. time' \in [Kind -> 0..MaxTime] /\ sh' \in [Kind -> BOOLEAN]
    BY <1>1, ClockAssumption
  <2>. QED  BY <1>1, <2>1 DEF IInv, TypeOK, Nothing
<1>3. PublisherInv' /\ GopInv'
  BY <1>1 DEF PublisherInv, GopInv
<1>. QED  BY <1>1, <1>2, <1>3, NoPlayerNext DEF IInv

-----------------------------------------------------------------------------
(* The theorems. *)

\* The invariant holds initially.
LEMMA InitIInv == Init => IInv
<1> SUFFICES ASSUME Init PROVE IInv
  OBVIOUS
<1>1. TypeOK
  <2>1. now \in 0..MaxTime /\ gaps \in 0..MaxGaps /\ slips \in 0..MaxSlips
        /\ plays \in 0..MaxPlays
    BY ClockAssumption DEF Init
  <2>2. /\ at \in [Kind -> 0..MaxTime] /\ time \in [Kind -> 0..MaxTime]
        /\ sh \in [Kind -> BOOLEAN] /\ clock \in [Kind -> Nat \cup {None}]
    <3>1. 0 \in 0..MaxTime
      BY ClockAssumption
    <3>. QED  BY <3>1 DEF Init, Nothing
  <2>. QED  BY <2>1, <2>2 DEF Init, TypeOK
<1>2. PublisherInv /\ GopInv
  BY DEF Init, PublisherInv, GopInv
<1>3. state = None /\ state \notin Slow /\ state # "RUN" /\ \A k \in Kind : ~Waits(k)
  BY NoneAssumption DEF Init, Slow, Waits, Kind
<1>4. ~Waits("video") /\ \A k \in Kind : clock[k] = None
  BY <1>3 DEF Init, Kind, Nothing
<1>5. WaitInv /\ ClockInv /\ ToldInv
  BY <1>3, <1>4 DEF Init, WaitInv, ClockInv, ToldInv
<1>. QED  BY <1>1, <1>2, <1>5 DEF IInv

\* Every step keeps it.
LEMMA StepIInv == IInv /\ [Next]_vars => IInv'
<1> SUFFICES ASSUME IInv, [Next]_vars PROVE IInv'
  OBVIOUS
<1>1. CASE Publish
  BY <1>1, PublishStep
<1>2. CASE Tick
  BY <1>2, TickStep
<1>3. CASE Play
  BY <1>3, PlayStep
<1>4. CASE StopPlay
  BY <1>4, StopPlayStep
<1>5. CASE Unpublish
  BY <1>5, UnpublishStep
<1>6. ASSUME NEW ts \in {now, now - 1}, NEW kind \in {"video_sh", "key", "inter"},
             VideoMsg(kind, ts)
      PROVE  IInv'
  BY <1>6, VideoMsgStep
<1>7. ASSUME NEW ts \in {now, now - 1}, NEW kind \in {"audio_sh", "audio"},
             AudioMsg(kind, ts)
      PROVE  IInv'
  BY <1>7, AudioMsgStep
<1>8. ASSUME NEW place \in Places, NEW abs \in AbsTimes, Metadata(place, abs)
      PROVE  IInv'
  BY <1>8, MetadataStep
<1>9. CASE UNCHANGED vars
  <2>1. /\ publishing' = publishing /\ now' = now /\ at' = at /\ keyed' = keyed
        /\ slips' = slips /\ time' = time /\ sh' = sh /\ gop' = gop
        /\ metadata' = metadata /\ abs_record_time' = abs_record_time
        /\ time_index' = time_index /\ spoilt' = spoilt
        /\ state' = state /\ clock' = clock /\ lead' = lead /\ told' = told
        /\ gaps' = gaps /\ plays' = plays
    BY <1>9 DEF vars, pubVars, cacheVars, metaVars, playerVars
  <2>. QED  BY <2>1 DEF IInv, TypeOK, PublisherInv, GopInv, WaitInv, ClockInv, ToldInv,
                        Waits, Shift, Slack, Other, Within
<1>. QED  BY <1>1, <1>2, <1>3, <1>4, <1>5, <1>6, <1>7, <1>8, <1>9 DEF Next

\* It is an invariant.
LEMMA Invariant == Spec => []IInv
  BY InitIInv, StepIInv, PTL DEF Spec

\* The variables have their types: no group of pictures grows beyond MAX_GOP_LEN.
THEOREM ClockTypes == Spec => []TypeOK
<1>1. IInv => TypeOK
  BY DEF IInv
<1>. QED  BY <1>1, Invariant, PTL

\* A player's sound and picture stay together, for every pause between messages, however
\* often its socket was too full, the publisher's time went back and the stream began
\* again (on_av_chunk, add_consumer and the states of the consumer).
THEOREM AlwaysInSync == Spec => []InSync
<1>1. IInv => InSync
  <2>1. SUFFICES ASSUME IInv, state = "RUN", \A k \in Kind : clock[k] # None
                 PROVE  Dist(Shift("video"), Shift("audio"))
                          <= 2 * (1 + gaps) * Interval + slips
    BY DEF InSync
  <2>2. "video" \in Kind /\ "audio" \in Kind
    BY DEF Kind
  <2>3. Within(Shift("video"), Shift("audio"), 2 * Slack + slips)
    BY <2>1 DEF IInv, ClockInv
  <2>4. Shift("video") \in Int /\ Shift("audio") \in Int /\ slips \in Nat /\ Slack \in Nat
    BY <2>1, <2>2, SlackFacts DEF IInv, TypeOK, Shift
  <2>5. 2 * (1 + gaps) * Interval = 2 * Slack
    BY <2>1, SlackFacts DEF IInv
  <2>. QED  BY <2>3, <2>4, <2>5 DEF Dist, Within
<1>. QED  BY <1>1, Invariant, PTL

\* The time of day in the metadata is right for the kind the player got first, whether it
\* began live or with the cached key frame (update_abs_record_time).
THEOREM ToldRightAlways == Spec => []ToldRight
<1>1. IInv => ToldRight
  BY DEF IInv, ToldInv, ToldRight
<1>. QED  BY <1>1, Invariant, PTL
=============================================================================
