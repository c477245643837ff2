----------------------------- MODULE RelayProofs -----------------------------
(***************************************************************************)
(* Proofs about RelaySession: for any number of transaction ids, callbacks *)
(* get the answers to their own calls, as long as the application keeps no *)
(* more calls than there are ids from the oldest unanswered one on; the    *)
(* variables have their types whatever the application does; the two ends  *)
(* agree on the streams they relay until createStream gives an id twice;   *)
(* and it does not up to the second deletion of a session, as long as no   *)
(* stream is deleted while another one is being created.                   *)
(***************************************************************************)
EXTENDS RelaySession, SequenceTheorems, TLAPS

Ids == MaxTransId + 2 - FirstTransId   \* how many ids call() has
CallNo == 1 .. MaxCalls

\* What travels: commands, requests among them with the call they were made by.
RequestName == {"connect", "custom", "createStream"}
Request_ == [cmd : RequestName, id : TransId, call : CallNo, stream : {0}]
Notice == [cmd : {"deleteStream", "play", "publish"}, id : {0}, call : {0}, stream : Int]
FarMsg == Request_ \cup Notice
NearMsg == [cmd : {"_result"}, id : TransId, call : CallNo, stream : Int]
Msg == FarMsg \cup NearMsg

Msgs(s) == {s[i] : i \in 1 .. Len(s)}
CallsIn(S) == {m.call : m \in S} \ {0}

\* No two messages of a sequence belong to one call.
Single(s) ==
  \A i, j \in 1 .. Len(s) : i # j /\ s[i].call # 0 => s[i].call # s[j].call

Types ==
  /\ connect_state \in [End -> {"WAIT_ACCEPT", "ACCEPT", "CLOSE"}]
  /\ transid_flag \in FirstTransId .. MaxTransId + 1
  /\ transid_cb \in [TransId -> CallNo \cup {None}]
  /\ calls \in Seq({"connect", "custom", "edge", "push"}) /\ Len(calls) <= MaxCalls
  /\ got \in [CallNo -> CallNo \cup {None}]
  /\ held \in [Relay -> Int]
  /\ stream_id_flag \in Int /\ play_stream_id \in Int /\ publish_stream_id \in Int
  /\ wire = [e \in End |-> wire[e]]

\* The id a call of the near end was given, from the calls made since.
IdOf(k) ==
  LET back == transid_flag - (Len(calls) + 1) + k
  IN  IF k = 1 THEN 1 ELSE IF back >= FirstTransId THEN back ELSE back + Ids

\* A message on its way belongs to a pending call, whose callback waits for it.
Awaited(m) ==
  m.call # 0 => /\ m.call \in Pending
                /\ m.id = IdOf(m.call)
                /\ transid_cb[m.id] = m.call

\* The messages to the far end, those its application is to answer, and those to
\* the near end: a call has one of them at most.
All(f, a, n) == Msgs(f) \cup a \cup Msgs(n)
Net(f, a, n) ==
  /\ f \in Seq(FarMsg) /\ a \subseteq Request_ /\ n \in Seq(NearMsg)
  /\ Single(f) /\ Single(n)
  /\ \A x, y \in a : x.call = y.call => x = y
  /\ CallsIn(Msgs(f)) \cap CallsIn(a) = {}
  /\ CallsIn(Msgs(f)) \cap CallsIn(Msgs(n)) = {}
  /\ CallsIn(a) \cap CallsIn(Msgs(n)) = {}

SpanKept == \A k \in Pending : Len(calls) + 1 - k <= Ids
NotAhead == \A k \in CallNo : k > Len(calls) => got[k] = None
Begun == connect_state["near"] = "ACCEPT" => calls # <<>>
AllAwaited == \A m \in All(wire["far"], asked, wire["near"]) : Awaited(m)

SessionInv ==
  /\ Types /\ Begun /\ NotAhead /\ SpanKept /\ AllAwaited /\ AnswersMatch
  /\ Net(wire["far"], asked, wire["near"])

-----------------------------------------------------------------------------
(* Sequences of messages. *)

\* The fields of a message.
LEMMA MsgFacts ==
  ASSUME NEW m \in Msg
  PROVE  /\ m.call \in CallNo \cup {0}
         /\ m.id \in TransId \cup {0}
         /\ m.stream \in Int
BY DEF Msg, FarMsg, NearMsg, Request_, Notice

\* Taking the first message leaves no other of its call.
LEMMA TailFacts ==
  ASSUME NEW S, S \subseteq Msg, NEW s \in Seq(S), s # <<>>, Single(s)
  PROVE  /\ Tail(s) \in Seq(S)
         /\ Single(Tail(s))
         /\ Head(s) \in Msgs(s)
         /\ Head(s) \in S
         /\ Msgs(Tail(s)) \subseteq Msgs(s)
         /\ Head(s).call \notin CallsIn(Msgs(Tail(s)))
<1>1. /\ Head(s) \in S /\ Tail(s) \in Seq(S) /\ Len(Tail(s)) = Len(s) - 1
      /\ \A i \in 1 .. Len(Tail(s)) : Tail(s)[i] = s[i + 1]
  BY HeadTailProperties
<1>2. Len(s) \in Nat /\ Len(s) # 0 /\ Head(s) = s[1]
  BY EmptySeq, LenProperties
<1>3. Single(Tail(s))
  BY <1>1, <1>2 DEF Single
<1>4. Msgs(Tail(s)) \subseteq Msgs(s) /\ Head(s) \in Msgs(s)
  BY <1>1, <1>2 DEF Msgs
<1>5. ASSUME NEW m \in Msgs(Tail(s)), m.call # 0 PROVE m.call # Head(s).call
  BY <1>1, <1>2, <1>5 DEF Msgs, Single
<1> QED
  BY <1>1, <1>3, <1>4, <1>5 DEF CallsIn

\* A message of a new call keeps the calls apart.
LEMMA AppendFacts ==
  ASSUME NEW S, S \subseteq Msg, NEW s \in Seq(S), NEW m \in S, Single(s),
         m.call \notin CallsIn(Msgs(s))
  PROVE  /\ s \o <<m>> \in Seq(S)
         /\ Single(s \o <<m>>)
         /\ Msgs(s \o <<m>>) = Msgs(s) \cup {m}
<1>1. <<m>> \in Seq(S) /\ Len(<<m>>) = 1 /\ <<m>>[1] = m
  OBVIOUS
<1> DEFINE t == s \o <<m>>
<1>2. /\ t \in Seq(S) /\ Len(t) = Len(s) + 1
      /\ \A i \in 1 .. Len(s) + 1 : t[i] = IF i <= Len(s) THEN s[i] ELSE m
  <2>1. /\ t \in Seq(S) /\ Len(t) = Len(s) + Len(<<m>>)
        /\ \A i \in 1 .. Len(s) + Len(<<m>>) :
             t[i] = IF i <= Len(s) THEN s[i] ELSE <<m>>[i - Len(s)]
    BY <1>1, ConcatProperties
  <2>2. Len(s) \in Nat
    BY LenProperties
  <2> QED
    BY <1>1, <2>1, <2>2
<1> HIDE DEF t
<1>3. Len(s) \in Nat
  BY LenProperties
<1>4. Msgs(t) = Msgs(s) \cup {m}
  <2>1. ASSUME NEW x \in Msgs(t) PROVE x \in Msgs(s) \cup {m}
    BY <1>2, <1>3 DEF Msgs
  <2>2. ASSUME NEW x \in Msgs(s) PROVE x \in Msgs(t)
    BY <1>2, <1>3 DEF Msgs
  <2>3. m \in Msgs(t)
    <3>1. Len(s) + 1 \in 1 .. Len(t) /\ t[Len(s) + 1] = m
      BY <1>2, <1>3
    <3> QED
      BY <3>1 DEF Msgs
  <2> QED
    BY <2>1, <2>2, <2>3
<1>5. Single(t)
  <2> SUFFICES ASSUME NEW i \in 1 .. Len(t), NEW j \in 1 .. Len(t), i # j, t[i].call # 0
               PROVE  t[i].call # t[j].call
    BY DEF Single
  <2>1. CASE i <= Len(s) /\ j <= Len(s)
    BY <1>2, <1>3, <2>1 DEF Single
  <2>2. CASE i <= Len(s) /\ j = Len(s) + 1
    <3>1. t[i] \in Msgs(s) /\ t[j] = m
      BY <1>2, <1>3, <2>2 DEF Msgs
    <3> QED
      BY <3>1 DEF CallsIn
  <2>3. CASE i = Len(s) + 1 /\ j <= Len(s)
    <3>1. t[j] \in Msgs(s) /\ t[i] = m
      BY <1>2, <1>3, <2>3 DEF Msgs
    <3> QED
      BY <3>1 DEF CallsIn
  <2> QED
    BY <1>2, <1>3, <2>1, <2>2, <2>3
<1> QED
  BY <1>2, <1>4, <1>5 DEF t

\* Writing some messages and one more is writing them, then the one.
LEMMA AppendLast ==
  ASSUME NEW s \in Seq(FarMsg), NEW t \in Seq(FarMsg), NEW m \in FarMsg
  PROVE  s \o Append(t, m) = (s \o t) \o <<m>>
<1> DEFINE lhs == s \o Append(t, m)
           rhs == (s \o t) \o <<m>>
<1>1. lhs \in Seq(FarMsg) /\ rhs \in Seq(FarMsg)
  OBVIOUS
<1>2. Len(lhs) = Len(rhs)
  OBVIOUS
<1>3. \A i \in 1 .. Len(lhs) : lhs[i] = rhs[i]
  OBVIOUS
<1> QED
  BY <1>1, <1>2, <1>3, SeqEqual, Zenon

\* The far end reads a message.
LEMMA NetFarTail ==
  ASSUME NEW f, NEW a, NEW n, Net(f, a, n), f # <<>>
  PROVE  /\ Net(Tail(f), a, n)
         /\ All(Tail(f), a, n) \subseteq All(f, a, n)
         /\ Head(f) \in FarMsg /\ Head(f) \in All(f, a, n)
         /\ Head(f).call \notin CallsIn(All(Tail(f), a, n))
<1>1. /\ Tail(f) \in Seq(FarMsg) /\ Single(Tail(f))
      /\ Head(f) \in Msgs(f) /\ Head(f) \in FarMsg
      /\ Msgs(Tail(f)) \subseteq Msgs(f)
      /\ Head(f).call \notin CallsIn(Msgs(Tail(f)))
  BY TailFacts DEF Net, Msg
<1> QED
  BY <1>1 DEF Net, All, CallsIn

\* The near end reads a message.
LEMMA NetNearTail ==
  ASSUME NEW f, NEW a, NEW n, Net(f, a, n), n # <<>>
  PROVE  /\ Net(f, a, Tail(n))
         /\ All(f, a, Tail(n)) \subseteq All(f, a, n)
         /\ Head(n) \in NearMsg /\ Head(n) \in All(f, a, n)
         /\ Head(n).call \notin CallsIn(All(f, a, Tail(n)))
<1>1. /\ Tail(n) \in Seq(NearMsg) /\ Single(Tail(n))
      /\ Head(n) \in Msgs(n) /\ Head(n) \in NearMsg
      /\ Msgs(Tail(n)) \subseteq Msgs(n)
      /\ Head(n).call \notin CallsIn(Msgs(Tail(n)))
  BY TailFacts DEF Net, Msg
<1> QED
  BY <1>1 DEF Net, All, CallsIn

\* A message of a new call is written to the far end.
LEMMA NetFarPost ==
  ASSUME NEW f, NEW a, NEW n, Net(f, a, n), NEW m \in FarMsg,
         m.call \notin CallsIn(All(f, a, n))
  PROVE  /\ Net(f \o <<m>>, a, n)
         /\ All(f \o <<m>>, a, n) = All(f, a, n) \cup {m}
<1>1. /\ f \o <<m>> \in Seq(FarMsg) /\ Single(f \o <<m>>)
      /\ Msgs(f \o <<m>>) = Msgs(f) \cup {m}
  <2>1. m.call \notin CallsIn(Msgs(f))
    BY DEF CallsIn, All
  <2> QED
    BY <2>1, AppendFacts DEF Net, Msg
<1> QED
  BY <1>1 DEF Net, All, CallsIn

\* A message of a call that has none on its way is written to the near end.
LEMMA NetNearPost ==
  ASSUME NEW f, NEW a, NEW n, Net(f, a, n), NEW m \in NearMsg,
         m.call \notin CallsIn(All(f, a, n))
  PROVE  /\ Net(f, a, n \o <<m>>)
         /\ All(f, a, n \o <<m>>) = All(f, a, n) \cup {m}
<1>1. /\ n \o <<m>> \in Seq(NearMsg) /\ Single(n \o <<m>>)
      /\ Msgs(n \o <<m>>) = Msgs(n) \cup {m}
  <2>1. m.call \notin CallsIn(Msgs(n))
    BY DEF CallsIn, All
  <2> QED
    BY <2>1, AppendFacts DEF Net, Msg
<1> QED
  BY <1>1 DEF Net, All, CallsIn

\* A message of a call that has none on its way is put before the application.
LEMMA NetAsk ==
  ASSUME NEW f, NEW a, NEW n, Net(f, a, n), NEW m \in Request_,
         m.call \notin CallsIn(All(f, a, n)), NEW b, b = a \cup {m}
  PROVE  /\ Net(f, b, n)
         /\ All(f, b, n) = All(f, a, n) \cup {m}
<1>1. m.call # 0
  BY DEF Request_, CallNo
<1>2. All(f, a \cup {m}, n) = All(f, a, n) \cup {m}
  BY DEF All
<1>3. CallsIn(a \cup {m}) = CallsIn(a) \cup {m.call}
  BY <1>1 DEF CallsIn
<1>4. /\ m.call \notin CallsIn(Msgs(f))
      /\ m.call \notin CallsIn(Msgs(n))
      /\ \A x \in a : x.call # m.call
  BY <1>1 DEF CallsIn, All
<1>5. \A x, y \in a \cup {m} : x.call = y.call => x = y
  BY <1>4 DEF Net
<1>6. a \cup {m} \subseteq Request_
  BY DEF Net
<1>7. /\ CallsIn(Msgs(f)) \cap CallsIn(a \cup {m}) = {}
      /\ CallsIn(a \cup {m}) \cap CallsIn(Msgs(n)) = {}
  BY <1>3, <1>4 DEF Net
<1>8. Net(f, a \cup {m}, n)
  BY <1>5, <1>6, <1>7 DEF Net
<1> QED
  BY <1>2, <1>8

\* The application takes a message up.
LEMMA NetAnswer ==
  ASSUME NEW f, NEW a, NEW n, Net(f, a, n), NEW m \in a
  PROVE  /\ Net(f, a \ {m}, n)
         /\ All(f, a \ {m}, n) \subseteq All(f, a, n)
         /\ m \in All(f, a, n)
         /\ m.call \notin CallsIn(All(f, a \ {m}, n))
<1>1. m.call # 0
  BY DEF Net, Request_, CallNo
<1> QED
  BY <1>1 DEF Net, All, CallsIn

\* An end closes: what was on its way there is gone.
LEMMA NetClose ==
  ASSUME NEW f, NEW a, NEW n, Net(f, a, n)
  PROVE  /\ Net(<<>>, a, n) /\ Net(f, a, <<>>)
         /\ All(<<>>, a, n) \subseteq All(f, a, n)
         /\ All(f, a, <<>>) \subseteq All(f, a, n)
<1>1. Msgs(<<>>) = {} /\ Single(<<>>) /\ <<>> \in Seq(FarMsg) /\ <<>> \in Seq(NearMsg)
  BY EmptySeq DEF Msgs, Single
<1> QED
  BY <1>1 DEF Net, All, CallsIn
-----------------------------------------------------------------------------
(* The steps that leave the calls of the near end alone. *)

\* What an answer may be taken from stays as it is; what is on its way gets less, or is
\* answered under the same id.
LEMMA QuietStep ==
  ASSUME SessionInv,
         UNCHANGED <<transid_flag, transid_cb, calls, got>>,
         connect_state' \in [End -> {"WAIT_ACCEPT", "ACCEPT", "CLOSE"}],
         connect_state'["near"] = "ACCEPT" => connect_state["near"] = "ACCEPT",
         held' \in [Relay -> Int],
         stream_id_flag' \in Int, play_stream_id' \in Int, publish_stream_id' \in Int,
         wire' = [e \in End |-> wire'[e]],
         Net(wire'["far"], asked', wire'["near"]),
         \A x \in All(wire'["far"], asked', wire'["near"]) :
           \/ x.call = 0
           \/ \E y \in All(wire["far"], asked, wire["near"]) :
                x.call = y.call /\ x.id = y.id
  PROVE  SessionInv'
<1>1. Types'
  BY DEF SessionInv, Types
<1>2. Begun' /\ NotAhead' /\ SpanKept' /\ AnswersMatch'
  BY DEF SessionInv, Begun, NotAhead, SpanKept, AnswersMatch, Pending
<1>3. AllAwaited'
  <2> SUFFICES ASSUME NEW x \in All(wire'["far"], asked', wire'["near"]), x.call # 0
               PROVE  Awaited(x)'
    BY DEF AllAwaited, Awaited
  <2>1. PICK y \in All(wire["far"], asked, wire["near"]) : x.call = y.call /\ x.id = y.id
    OBVIOUS
  <2>2. Awaited(y)
    BY <2>1 DEF SessionInv, AllAwaited
  <2> QED
    BY <2>1, <2>2 DEF Awaited, Pending, IdOf
<1> QED
  BY <1>1, <1>2, <1>3 DEF SessionInv

\* deleteStream carries no call.
LEMMA DeleteKeeps ==
  ASSUME SessionAssumption, SessionInv, NEW r \in Relay, DeleteStream(r)
  PROVE  SessionInv'
<1> DEFINE m == Command("deleteStream", 0, 0, held[r])
<1>1. m \in FarMsg /\ m.call = 0
  BY DEF Command, FarMsg, Notice, SessionInv, Types
<1>2. 0 \notin CallsIn(All(wire["far"], asked, wire["near"]))
  BY DEF CallsIn
<1>3. wire' = Posted("far", wire, <<m>>)
  BY DEF DeleteStream
<1> HIDE DEF m
<1>4. /\ wire' = [e \in End |-> wire'[e]] /\ wire'["near"] = wire["near"]
      /\ wire'["far"] = IF Open("far") THEN wire["far"] \o <<m>> ELSE wire["far"]
  BY <1>3 DEF Posted, End, SessionInv, Types
<1>5. /\ Net(wire'["far"], asked, wire'["near"])
      /\ All(wire'["far"], asked, wire'["near"])
           \subseteq All(wire["far"], asked, wire["near"]) \cup {m}
  <2>1. CASE Open("far")
    BY <1>1, <1>2, <1>4, <2>1, NetFarPost DEF SessionInv
  <2>2. CASE ~Open("far")
    BY <1>4, <2>2 DEF SessionInv
  <2> QED
    BY <2>1, <2>2
<1>6. /\ UNCHANGED <<connect_state, transid_flag, transid_cb, calls, got, asked,
                     stream_id_flag, play_stream_id, publish_stream_id>>
      /\ held' \in [Relay -> Int]
  BY DEF DeleteStream, far_vars, SessionInv, Types
<1> QED
  BY <1>1, <1>4, <1>5, <1>6, QuietStep DEF SessionInv, Types

\* Closing only loses messages.
LEMMA CloseKeeps ==
  ASSUME SessionInv, NEW e \in End, Close(e)
  PROVE  SessionInv'
<1>1. /\ wire' = [x \in End |-> wire'[x]] /\ wire'[e] = <<>>
      /\ \A x \in End \ {e} : wire'[x] = wire[x]
  BY DEF Close, SessionInv, Types
<1>2. UNCHANGED <<near_vars, far_vars>>
  BY DEF Close
<1>3. /\ Net(wire'["far"], asked, wire'["near"])
      /\ All(wire'["far"], asked, wire'["near"])
           \subseteq All(wire["far"], asked, wire["near"])
  <2>1. CASE e = "far"
    BY <1>1, <2>1, NetClose DEF SessionInv, End
  <2>2. CASE e = "near"
    BY <1>1, <2>2, NetClose DEF SessionInv, End
  <2> QED
    BY <2>1, <2>2 DEF End
<1>4. /\ connect_state' \in [End -> {"WAIT_ACCEPT", "ACCEPT", "CLOSE"}]
      /\ connect_state'["near"] = "ACCEPT" => connect_state["near"] = "ACCEPT"
  BY DEF Close, SessionInv, Types, End
<1> QED
  BY <1>1, <1>2, <1>3, <1>4, QuietStep DEF SessionInv, Types, near_vars, far_vars

\* asked, createStream, deleteStream, play and publish at the far end.
LEMMA HandledKeeps ==
  ASSUME SessionAssumption, SessionInv, Handled
  PROVE  SessionInv'
<1> DEFINE f == wire["far"]
           n == wire["near"]
           m == Head(f)
<1>1. /\ f # <<>>
      /\ Asked(m) \/ CreateStream(m) \/ DeleteFar(m) \/ Play(m) \/ Publish(m)
  BY DEF Handled
<1>2. /\ Net(Tail(f), asked, n)
      /\ All(Tail(f), asked, n) \subseteq All(f, asked, n)
      /\ m \in FarMsg /\ m \in All(f, asked, n)
      /\ m.call \notin CallsIn(All(Tail(f), asked, n))
  BY <1>1, NetFarTail DEF SessionInv
<1>3. m.stream \in Int
  BY <1>2, MsgFacts DEF Msg
<1>4. /\ wire = [e \in End |-> wire[e]]
      /\ connect_state \in [End -> {"WAIT_ACCEPT", "ACCEPT", "CLOSE"}]
      /\ held \in [Relay -> Int]
      /\ stream_id_flag \in Int /\ play_stream_id \in Int /\ publish_stream_id \in Int
  BY DEF SessionInv, Types
<1> HIDE DEF f, n, m
<1>5. ASSUME wire' = Received("far")
      PROVE  /\ wire' = [e \in End |-> wire'[e]]
             /\ wire'["far"] = Tail(f) /\ wire'["near"] = n
  BY <1>4, <1>5 DEF Received, End, f, n
<1>6. ASSUME Asked(m) PROVE SessionInv'
  <2>1. m \in Request_
    BY <1>2, <1>6 DEF Asked, FarMsg, Notice
  <2>2. /\ Net(Tail(f), asked', n)
        /\ All(Tail(f), asked', n) = All(Tail(f), asked, n) \cup {m}
    <3>1. asked' = asked \cup {m}
      BY <1>6 DEF Asked
    <3> QED
      BY <1>2, <2>1, <3>1, NetAsk
  <2>3. /\ wire' = [e \in End |-> wire'[e]]
        /\ wire'["far"] = Tail(f) /\ wire'["near"] = n
        /\ asked' = asked \cup {m}
    BY <1>5, <1>6 DEF Asked
  <2>4. UNCHANGED <<connect_state, transid_flag, transid_cb, calls, got, held,
                    stream_id_flag, play_stream_id, publish_stream_id>>
    BY <1>6 DEF Asked, near_vars
  <2>5. \A x \in All(wire'["far"], asked', wire'["near"]) : x \in All(f, asked, n)
    BY <1>2, <2>2, <2>3
  <2> QED
    BY <1>4, <2>2, <2>3, <2>4, <2>5, QuietStep DEF f, n
<1>7. ASSUME CreateStream(m) PROVE SessionInv'
  <2> DEFINE r == Result(m, stream_id_flag')
  <2>1. /\ stream_id_flag' \in Int
        /\ UNCHANGED <<connect_state, transid_flag, transid_cb, calls, got, held, asked,
                       play_stream_id, publish_stream_id>>
    BY <1>4, <1>7 DEF CreateStream, FreeFrom, Skipped, SessionAssumption, near_vars
  <2>2. m \in Request_
    BY <1>2, <1>7 DEF CreateStream, FarMsg, Notice
  <2>3. r \in NearMsg /\ r.call = m.call /\ r.id = m.id
    BY <2>1, <2>2 DEF Result, Command, Request_, NearMsg
  <2>4. wire' = Posted("near", Received("far"), <<r>>)
    BY <1>7 DEF CreateStream
  <2> HIDE DEF r
  <2>5. /\ wire' = [e \in End |-> wire'[e]] /\ wire'["far"] = Tail(f)
        /\ wire'["near"] = IF Open("near") THEN n \o <<r>> ELSE n
    BY <1>4, <2>4 DEF Posted, Received, End, f, n
  <2>6. /\ Net(wire'["far"], asked, wire'["near"])
        /\ All(wire'["far"], asked, wire'["near"]) \subseteq All(Tail(f), asked, n) \cup {r}
    <3>1. CASE Open("near")
      BY <1>2, <2>3, <2>5, <3>1, NetNearPost
    <3>2. CASE ~Open("near")
      BY <1>2, <2>5, <3>2
    <3> QED
      BY <3>1, <3>2
  <2>7. \A x \in All(wire'["far"], asked', wire'["near"]) :
          \E y \in All(f, asked, n) : x.call = y.call /\ x.id = y.id
    BY <1>2, <2>1, <2>3, <2>6
  <2> QED
    BY <1>4, <2>1, <2>5, <2>6, <2>7, QuietStep DEF f, n
<1>8. ASSUME DeleteFar(m) \/ Play(m) \/ Publish(m) PROVE SessionInv'
  <2>1. /\ wire' = Received("far")
        /\ UNCHANGED <<connect_state, transid_flag, transid_cb, calls, got, held, asked>>
    BY <1>8 DEF DeleteFar, Play, Publish, near_vars
  <2>2. stream_id_flag' \in Int /\ play_stream_id' \in Int /\ publish_stream_id' \in Int
    BY <1>3, <1>4, <1>8 DEF DeleteFar, Play, Publish
  <2>3. /\ wire' = [e \in End |-> wire'[e]]
        /\ wire'["far"] = Tail(f) /\ wire'["near"] = n
    BY <1>5, <2>1
  <2>4. /\ Net(wire'["far"], asked', wire'["near"])
        /\ \A x \in All(wire'["far"], asked', wire'["near"]) : x \in All(f, asked, n)
    BY <1>2, <2>1, <2>3
  <2> QED
    BY <1>4, <2>1, <2>2, <2>3, <2>4, QuietStep DEF f, n
<1> QED
  BY <1>1, <1>6, <1>7, <1>8

\* The far application answers: accept(true) or result().
LEMMA AnswerKeeps ==
  ASSUME SessionInv, NEW m \in asked, Answer(m)
  PROVE  SessionInv'
<1> DEFINE f == wire["far"]
           n == wire["near"]
           a == asked \ {m}
           r == Result(m, 0)
<1>1. /\ Net(f, a, n) /\ All(f, a, n) \subseteq All(f, asked, n)
      /\ m \in All(f, asked, n) /\ m.call \notin CallsIn(All(f, a, n))
  BY NetAnswer DEF SessionInv
<1>2. m \in Request_
  BY DEF SessionInv, Net
<1>3. r \in NearMsg /\ r.call = m.call /\ r.id = m.id
  BY <1>2 DEF Result, Command, Request_, NearMsg
<1>4. wire' = Posted("near", wire, <<r>>) /\ asked' = a
  BY DEF Answer
<1>5. UNCHANGED <<transid_flag, transid_cb, calls, got, held,
                  stream_id_flag, play_stream_id, publish_stream_id>>
  BY DEF Answer, near_vars
<1>6. /\ connect_state' \in [End -> {"WAIT_ACCEPT", "ACCEPT", "CLOSE"}]
      /\ connect_state'["near"] = connect_state["near"]
  BY DEF Answer, Accept, Answers, SessionInv, Types, End
<1> HIDE DEF f, n, a, r
<1>7. /\ wire' = [e \in End |-> wire'[e]] /\ wire'["far"] = f
      /\ wire'["near"] = IF Open("near") THEN n \o <<r>> ELSE n
  BY <1>4 DEF Posted, End, SessionInv, Types, f, n
<1>8. /\ Net(wire'["far"], a, wire'["near"])
      /\ All(wire'["far"], a, wire'["near"]) \subseteq All(f, a, n) \cup {r}
  <2>1. CASE Open("near")
    BY <1>1, <1>3, <1>7, <2>1, NetNearPost
  <2>2. CASE ~Open("near")
    BY <1>1, <1>7, <2>2
  <2> QED
    BY <2>1, <2>2
<1>9. \A x \in All(wire'["far"], asked', wire'["near"]) :
        \E y \in All(f, asked, n) : x.call = y.call /\ x.id = y.id
  BY <1>1, <1>3, <1>4, <1>8
<1>10. held' \in [Relay -> Int] /\ stream_id_flag' \in Int
       /\ play_stream_id' \in Int /\ publish_stream_id' \in Int
  BY <1>5 DEF SessionInv, Types
<1> QED
  BY <1>4, <1>5, <1>6, <1>7, <1>8, <1>9, <1>10, QuietStep DEF f, n
-----------------------------------------------------------------------------
(* The steps that call or are called back. *)

\* What an answer or a request of another call is, for the calls that wait.
LEMMA IdFacts ==
  ASSUME SessionAssumption, SessionInv, MaxSpan <= Ids, calls # <<>>,
         \A k \in Pending : Len(calls) + 1 - k < MaxSpan,
         NEW kind \in {"connect", "custom", "edge", "push"}, calls' = Append(calls, kind),
         transid_flag' = NextTransId(transid_flag),
         NEW CONSTANT new, new = Len(calls) + 1
  PROVE  /\ calls' \in Seq({"connect", "custom", "edge", "push"})
         /\ Len(calls') = new /\ new > 1 /\ new \in Nat
         /\ transid_flag' \in FirstTransId .. MaxTransId + 1
         /\ IdOf(new)' = transid_flag
         /\ \A k \in Pending : /\ IdOf(k)' = IdOf(k) /\ IdOf(k) # transid_flag
                                /\ Len(calls') + 1 - k <= Ids
<1>1. /\ calls' \in Seq({"connect", "custom", "edge", "push"})
      /\ Len(calls') = Len(calls) + 1
  BY AppendProperties DEF SessionInv, Types
<1>2. Len(calls) \in Nat /\ Len(calls) # 0
  BY EmptySeq, LenProperties DEF SessionInv, Types
<1>3. /\ FirstTransId \in Nat /\ MaxTransId \in Nat /\ MaxSpan \in Nat
      /\ 1 < FirstTransId /\ FirstTransId <= MaxTransId
      /\ transid_flag \in FirstTransId .. MaxTransId + 1
  BY DEF SessionAssumption, SessionInv, Types
<1>4. transid_flag' = IF transid_flag > MaxTransId THEN FirstTransId ELSE transid_flag + 1
  BY DEF NextTransId
<1>5. transid_flag' \in FirstTransId .. MaxTransId + 1
  BY <1>3, <1>4
<1>6. IdOf(new)' = transid_flag
  <2>1. new \in Nat /\ new # 1 /\ Len(calls') \in Nat /\ Len(calls') = new
    BY <1>1, <1>2
  <2>2. CASE transid_flag > MaxTransId
    BY <1>3, <1>4, <2>1, <2>2 DEF IdOf, Ids
  <2>3. CASE ~(transid_flag > MaxTransId)
    BY <1>3, <1>4, <2>1, <2>3 DEF IdOf, Ids
  <2> QED
    BY <2>2, <2>3
<1>7. ASSUME NEW k \in Pending
      PROVE  /\ IdOf(k)' = IdOf(k) /\ IdOf(k) # transid_flag
             /\ Len(calls') + 1 - k <= Ids
  <2>1. k \in 1 .. Len(calls) /\ Len(calls) + 1 - k < MaxSpan
    BY DEF Pending
  <2>2. Len(calls') + 1 - k <= Ids
    BY <1>1, <1>2, <1>3, <2>1 DEF Ids
  <2>3. IdOf(k) # transid_flag
    BY <1>2, <1>3, <2>1 DEF IdOf, Ids
  <2>4. IdOf(k)' = IdOf(k)
    <3>1. k \in Nat /\ Ids \in Nat /\ Len(calls') \in Nat /\ Len(calls) + 1 - k < Ids
      BY <1>1, <1>2, <1>3, <2>1 DEF Ids
    <3>2. CASE transid_flag > MaxTransId
      <4> DEFINE back == transid_flag - (Len(calls) + 1) + k
                 next == transid_flag' - (Len(calls') + 1) + k
      <4>1. transid_flag = MaxTransId + 1 /\ transid_flag' = FirstTransId
        BY <1>3, <1>4, <3>2
      <4>2. back \in Int /\ next \in Int /\ back >= FirstTransId
        BY <1>1, <1>2, <1>3, <3>1, <4>1 DEF Ids
      <4>3. next + Ids = back
        BY <1>1, <1>2, <1>3, <2>1, <4>1 DEF Ids
      <4>4. ~(next >= FirstTransId)
        BY <1>1, <1>2, <1>3, <2>1, <4>1
      <4>5. /\ IdOf(k) = (IF k = 1 THEN 1 ELSE IF back >= FirstTransId THEN back ELSE back + Ids)
            /\ IdOf(k)' = (IF k = 1 THEN 1 ELSE IF next >= FirstTransId THEN next ELSE next + Ids)
        BY DEF IdOf, Ids
      <4> QED
        BY <4>2, <4>3, <4>4, <4>5
    <3>3. CASE ~(transid_flag > MaxTransId)
      BY <1>1, <1>2, <1>3, <1>4, <2>1, <3>1, <3>3 DEF IdOf, Ids
    <3> QED
      BY <3>2, <3>3
  <2> QED
    BY <2>2, <2>3, <2>4
<1> QED
  BY <1>1, <1>2, <1>5, <1>6, <1>7

\* A request with an id of its own joins the messages on their way.
LEMMA RequestJoins ==
  ASSUME NEW f, NEW a, NEW n, Net(f, a, n),
         NEW q \in Request_, q.call \in Pending', q.id = IdOf(q.call)',
         (transid_cb[q.id])' = q.call, q.call \notin Pending,
         \A x \in All(f, a, n) : x.call # 0 => x.call \in Pending /\ Awaited(x)',
         wire'["far"] \in {f, f \o <<q>>}, asked' = a, wire'["near"] = n
  PROVE  AllAwaited' /\ Net(wire'["far"], asked', wire'["near"])
<1>1. q.call \notin CallsIn(All(f, a, n)) /\ q \in FarMsg
  BY DEF CallsIn, FarMsg
<1>2. Awaited(q)'
  BY DEF Awaited
<1>3. Net(f \o <<q>>, a, n) /\ All(f \o <<q>>, a, n) = All(f, a, n) \cup {q}
  BY <1>1, NetFarPost
<1>4. \A x \in All(f, a, n) : Awaited(x)'
  BY DEF Awaited
<1>5. /\ Net(wire'["far"], asked', wire'["near"])
      /\ \A x \in All(wire'["far"], asked', wire'["near"]) : x \in All(f, a, n) \cup {q}
  <2>1. CASE wire'["far"] = f
    BY <2>1
  <2>2. CASE wire'["far"] = f \o <<q>>
    BY <1>3, <2>2
  <2> QED
    BY <2>1, <2>2
<1> QED
  BY <1>2, <1>4, <1>5 DEF AllAwaited

\* connect is the first call; its id is never given out by call().
LEMMA ConnectKeeps ==
  ASSUME SessionAssumption, SessionInv, Connect
  PROVE  SessionInv'
<1> DEFINE f == wire["far"]
           n == wire["near"]
           q == Request("connect", 1, 1)
<1>1. /\ MaxCalls \in Nat /\ 1 \in CallNo /\ 1 \in TransId /\ Ids >= 1
  BY DEF SessionAssumption, CallNo, TransId, Ids
<1>2. q \in Request_ /\ q.call = 1 /\ q.id = 1
  BY <1>1 DEF Request, Relay, Command, Request_, RequestName
<1>3. calls = <<>> /\ calls' = <<"connect">> /\ Len(calls) = 0 /\ Len(calls') = 1
  BY DEF Connect
<1>4. Pending = {} /\ Pending' = {1}
  <2>1. got[1] = None /\ got' = got
    BY <1>1, <1>3 DEF SessionInv, NotAhead, Connect
  <2> QED
    BY <1>3, <2>1 DEF Pending
<1>5. /\ UNCHANGED <<connect_state, transid_flag, got, held, asked,
                     stream_id_flag, play_stream_id, publish_stream_id>>
      /\ transid_cb' = [transid_cb EXCEPT ![1] = 1]
      /\ wire' = Posted("far", wire, <<q>>)
  BY DEF Connect, far_vars
<1> HIDE DEF f, n, q
<1>6. /\ wire' = [e \in End |-> wire'[e]] /\ wire'["near"] = n
      /\ wire'["far"] \in {f, f \o <<q>>}
  BY <1>5 DEF Posted, End, SessionInv, Types, f, n
<1>7. Types'
  <2>1. calls' \in Seq({"connect", "custom", "edge", "push"}) /\ Len(calls') <= MaxCalls
    BY <1>1, <1>3 DEF CallNo
  <2>2. transid_cb' \in [TransId -> CallNo \cup {None}]
    BY <1>1, <1>5 DEF SessionInv, Types
  <2> QED
    BY <1>5, <1>6, <2>1, <2>2 DEF SessionInv, Types
<1>8. \A x \in All(f, asked, n) : x.call = 0
  BY <1>4 DEF SessionInv, AllAwaited, Awaited, f, n
<1>9. Net(f, asked, n)
  BY DEF SessionInv, f, n
<1>10. q.id = IdOf(q.call)' /\ (transid_cb[q.id])' = q.call
  BY <1>1, <1>2, <1>5 DEF IdOf, SessionInv, Types
<1>11. AllAwaited' /\ Net(wire'["far"], asked', wire'["near"])
  <2>1. PICK r : r = q
    OBVIOUS
  <2>2. /\ r \in Request_ /\ r.call \in Pending' /\ r.call \notin Pending
        /\ r.id = IdOf(r.call)' /\ (transid_cb[r.id])' = r.call
    BY <1>2, <1>4, <1>10, <2>1
  <2>3. wire'["far"] \in {f, f \o <<r>>} /\ asked' = asked /\ wire'["near"] = n
    BY <1>5, <1>6, <2>1
  <2> QED
    BY <1>8, <1>9, <2>2, <2>3, RequestJoins
<1>12. Begun' /\ NotAhead' /\ AnswersMatch' /\ SpanKept'
  <2>1. Begun' /\ AnswersMatch'
    BY <1>3, <1>5 DEF Begun, AnswersMatch, SessionInv
  <2>2. NotAhead'
    BY <1>3, <1>5 DEF NotAhead, SessionInv, CallNo
  <2>3. SpanKept'
    BY <1>1, <1>3, <1>4 DEF SpanKept, Ids, SessionAssumption
  <2> QED
    BY <2>1, <2>2, <2>3
<1> QED
  BY <1>7, <1>11, <1>12 DEF SessionInv

\* call() gives an id that no waiting call has.
LEMMA CallKeeps ==
  ASSUME SessionAssumption, MaxSpan <= Ids, SessionInv,
         NEW kind \in {"custom", "edge", "push"}, Call(kind)
  PROVE  SessionInv'
<1> DEFINE f == wire["far"]
           n == wire["near"]
           new == Len(calls) + 1
           q == Request(kind, transid_flag, new)
<1>1. /\ calls # <<>> /\ Len(calls) < MaxCalls
      /\ \A k \in Pending : Len(calls) + 1 - k < MaxSpan
  BY DEF Call, MayCall, SessionInv, Begun
<1>2. /\ UNCHANGED <<connect_state, got, held, asked,
                     stream_id_flag, play_stream_id, publish_stream_id>>
      /\ transid_cb' = [transid_cb EXCEPT ![transid_flag] = new]
      /\ wire' = Posted("far", wire, <<q>>)
      /\ calls' = Append(calls, kind) /\ transid_flag' = NextTransId(transid_flag)
  BY DEF Call, far_vars
<1>3. transid_flag \in TransId /\ Len(calls) \in Nat /\ MaxCalls \in Nat
  BY LenProperties DEF SessionInv, Types, TransId, SessionAssumption
<1>4. new \in CallNo
  BY <1>1, <1>3 DEF CallNo
<1>5. q \in Request_ /\ q.call = new /\ q.id = transid_flag
  BY <1>3, <1>4 DEF Request, Relay, Command, Request_, RequestName
<1>6. PICK c : c = new
  OBVIOUS
<1> HIDE DEF f, n, new, q
<1>7. /\ calls' \in Seq({"connect", "custom", "edge", "push"})
      /\ Len(calls') = c /\ c > 1 /\ c \in Nat
      /\ transid_flag' \in FirstTransId .. MaxTransId + 1
      /\ IdOf(c)' = transid_flag
      /\ \A k \in Pending : /\ IdOf(k)' = IdOf(k) /\ IdOf(k) # transid_flag
                             /\ Len(calls') + 1 - k <= Ids
  BY <1>1, <1>2, <1>6, IdFacts DEF new
<1>8. Pending' = Pending \cup {c} /\ c \notin Pending
  <2>1. got[c] = None
    BY <1>3, <1>4, <1>6 DEF SessionInv, NotAhead, new
  <2> QED
    BY <1>2, <1>3, <1>6, <1>7, <2>1 DEF Pending, new
<1>9. /\ wire' = [e \in End |-> wire'[e]] /\ wire'["near"] = n
      /\ wire'["far"] \in {f, f \o <<q>>}
  BY <1>2 DEF Posted, End, SessionInv, Types, f, n
<1>10. Types'
  <2>1. Len(calls') <= MaxCalls
    BY <1>1, <1>3, <1>6, <1>7 DEF new
  <2>2. transid_cb' \in [TransId -> CallNo \cup {None}]
    BY <1>2, <1>3, <1>4 DEF SessionInv, Types
  <2> QED
    BY <1>2, <1>7, <1>9, <2>1, <2>2 DEF SessionInv, Types
<1>11. \A x \in All(f, asked, n) : x.call # 0 => x.call \in Pending /\ Awaited(x)'
  <2> SUFFICES ASSUME NEW x \in All(f, asked, n), x.call # 0
               PROVE  x.call \in Pending /\ Awaited(x)'
    OBVIOUS
  <2>1. x.call \in Pending /\ x.id = IdOf(x.call) /\ transid_cb[x.id] = x.call
    BY DEF SessionInv, AllAwaited, Awaited, f, n
  <2>2. x.id # transid_flag /\ x.id = IdOf(x.call)' /\ x.call \in Pending'
    BY <1>7, <1>8, <2>1
  <2>3. (transid_cb[x.id])' = x.call
    BY <1>2, <2>1, <2>2 DEF SessionInv, Types
  <2> QED
    BY <2>1, <2>2, <2>3 DEF Awaited
<1>12. Net(f, asked, n)
  BY DEF SessionInv, f, n
<1>13. PICK r : r = q
  OBVIOUS
<1>14. AllAwaited' /\ Net(wire'["far"], asked', wire'["near"])
  <2>1. r \in Request_ /\ r.call = c /\ r.id = transid_flag
    BY <1>5, <1>6, <1>13
  <2>2. r.call \in Pending' /\ r.call \notin Pending
    BY <1>8, <2>1
  <2>3. r.id = IdOf(r.call)'
    BY <1>7, <2>1
  <2>4. (transid_cb[r.id])' = r.call
    BY <1>2, <1>3, <1>6, <2>1 DEF SessionInv, Types
  <2> QED
    BY <1>2, <1>9, <1>11, <1>12, <1>13, <2>1, <2>2, <2>3, <2>4, RequestJoins
<1>15. Begun' /\ NotAhead' /\ AnswersMatch' /\ SpanKept'
  <2>1. Begun' /\ AnswersMatch'
    BY <1>2, <1>7 DEF Begun, AnswersMatch, SessionInv
  <2>2. NotAhead'
    BY <1>2, <1>3, <1>6, <1>7 DEF NotAhead, SessionInv, CallNo, new
  <2>3. SpanKept'
    BY <1>7, <1>8 DEF SpanKept, Ids, SessionAssumption
  <2> QED
    BY <2>1, <2>2, <2>3
<1> QED
  BY <1>10, <1>14, <1>15 DEF SessionInv

\* What an answer finds: its callback, or nobody.
LEMMA AnswerFacts ==
  ASSUME SessionAssumption, SessionInv, wire["near"] # <<>>,
         NEW m, m = Head(wire["near"]), transid_cb[m.id] # None
  PROVE  /\ m \in NearMsg /\ m.stream \in Int /\ m.id \in TransId
         /\ m.call \in CallNo /\ m.call \in Pending /\ transid_cb[m.id] = m.call
         /\ m.call # None /\ m.id = IdOf(m.call)
         /\ Net(wire["far"], asked, Tail(wire["near"]))
         /\ \A x \in All(wire["far"], asked, Tail(wire["near"])) :
              x.call # 0 => /\ x.call \in Pending /\ x.call # m.call
                            /\ x.id = IdOf(x.call) /\ x.id # m.id
                            /\ x.id \in TransId /\ transid_cb[x.id] = x.call
<1> DEFINE f == wire["far"]
           n == wire["near"]
<1>1. /\ Net(f, asked, Tail(n))
      /\ All(f, asked, Tail(n)) \subseteq All(f, asked, n)
      /\ m \in NearMsg /\ m \in All(f, asked, n)
      /\ m.call \notin CallsIn(All(f, asked, Tail(n)))
  BY NetNearTail DEF SessionInv
<1>2. /\ m.id \in TransId /\ m.call \in CallNo /\ m.stream \in Int /\ m.call # 0
      /\ m.call # None
  BY <1>1 DEF NearMsg, CallNo, SessionAssumption
<1>3. \A x \in All(f, asked, n) : Awaited(x)
  BY DEF SessionInv, AllAwaited
<1>4. m.call \in Pending /\ transid_cb[m.id] = m.call /\ m.id = IdOf(m.call)
  BY <1>1, <1>2, <1>3 DEF Awaited
<1>5. ASSUME NEW x \in All(f, asked, Tail(n)), x.call # 0
      PROVE  /\ x.call \in Pending /\ x.call # m.call
             /\ x.id = IdOf(x.call) /\ x.id # m.id
             /\ x.id \in TransId /\ transid_cb[x.id] = x.call
  <2>1. x.call # m.call
    BY <1>1, <1>5 DEF CallsIn
  <2>2. x.call \in Pending /\ x.id = IdOf(x.call) /\ transid_cb[x.id] = x.call
    BY <1>1, <1>3, <1>5 DEF Awaited
  <2>3. x \in Request_ \cup NearMsg
    <3>1. x \in FarMsg \cup NearMsg
      <4>1. f \in Seq(FarMsg) /\ asked \subseteq FarMsg /\ Tail(n) \in Seq(NearMsg)
        BY <1>1 DEF Net, FarMsg
      <4>2. Msgs(f) \subseteq FarMsg
        BY <4>1 DEF Msgs
      <4>3. Msgs(Tail(n)) \subseteq NearMsg
        BY <4>1 DEF Msgs
      <4> QED
        BY <4>1, <4>2, <4>3 DEF All
    <3> QED
      BY <1>5, <3>1 DEF FarMsg, Notice
  <2>4. x.id \in TransId
    BY <2>3 DEF Request_, NearMsg
  <2> QED
    BY <1>4, <2>1, <2>2, <2>4
<1> QED
  BY <1>1, <1>2, <1>4, <1>5

\* Only the call of the answer is answered, with its own answer.
LEMMA GotFacts ==
  ASSUME SessionAssumption, SessionInv, NEW k \in CallNo, k \in Pending,
         got' = [got EXCEPT ![k] = k]
  PROVE  /\ got' \in [CallNo -> CallNo \cup {None}]
         /\ AnswersMatch'
         /\ \A j \in CallNo : got'[j] = None <=> got[j] = None /\ j # k
<1>1. k # None
  BY DEF CallNo, SessionAssumption
<1> QED
  BY <1>1 DEF SessionInv, Types, AnswersMatch, CallNo

\* The callback of edge runs, and closes the client.
LEMMA EdgeFailsKeeps ==
  ASSUME SessionAssumption, SessionInv, wire["near"] # <<>>,
         NEW m, m = Head(wire["near"]), transid_cb[m.id] # None,
         EdgeFails(m, transid_cb[m.id])
  PROVE  SessionInv'
<1> DEFINE f == wire["far"]
           n == wire["near"]
<1>1. /\ m.call \in CallNo /\ m.call \in Pending /\ transid_cb[m.id] = m.call
      /\ m.id \in TransId
      /\ Net(f, asked, Tail(n))
      /\ \A x \in All(f, asked, Tail(n)) :
           x.call # 0 => /\ x.call \in Pending /\ x.call # m.call
                         /\ x.id = IdOf(x.call) /\ x.id # m.id
                         /\ transid_cb[x.id] = x.call
  BY AnswerFacts
<1>2. /\ got' = [got EXCEPT ![m.call] = m.call]
      /\ transid_cb' = [transid_cb EXCEPT ![m.id] = None]
      /\ connect_state' = [connect_state EXCEPT !["near"] = "CLOSE"]
      /\ wire' = [wire EXCEPT !["near"] = <<>>]
      /\ UNCHANGED <<transid_flag, calls, held, asked,
                     stream_id_flag, play_stream_id, publish_stream_id>>
  BY <1>1 DEF EdgeFails, far_vars
<1>3. /\ got' \in [CallNo -> CallNo \cup {None}] /\ AnswersMatch'
      /\ \A j \in CallNo : got'[j] = None <=> got[j] = None /\ j # m.call
  BY <1>1, <1>2, GotFacts
<1> HIDE DEF f, n
<1>4. Pending' = Pending \ {m.call}
  <2>1. 1 .. Len(calls) \subseteq CallNo
    BY LenProperties DEF SessionInv, Types, CallNo, SessionAssumption
  <2> QED
    BY <1>2, <1>3, <2>1 DEF Pending
<1>5. /\ wire' = [e \in End |-> wire'[e]] /\ wire'["near"] = <<>> /\ wire'["far"] = f
  BY <1>2 DEF SessionInv, Types, End, f
<1>6. /\ connect_state' \in [End -> {"WAIT_ACCEPT", "ACCEPT", "CLOSE"}]
      /\ connect_state'["near"] # "ACCEPT"
      /\ transid_cb' \in [TransId -> CallNo \cup {None}]
  BY <1>2 DEF SessionInv, Types, End
<1>7. /\ Net(f, asked, <<>>)
      /\ All(f, asked, <<>>) \subseteq All(f, asked, Tail(n))
  BY <1>1, NetClose
<1>8. AllAwaited'
  <2> SUFFICES ASSUME NEW x \in All(f, asked, <<>>), x.call # 0
               PROVE  Awaited(x)'
    BY <1>2, <1>5 DEF AllAwaited, Awaited
  <2>1. /\ x.call \in Pending' /\ x.id = IdOf(x.call) /\ x.id # m.id
        /\ transid_cb[x.id] = x.call
    BY <1>1, <1>4, <1>7
  <2>2. (transid_cb[x.id])' = x.call
    BY <1>2, <2>1 DEF SessionInv, Types
  <2>3. x.id = IdOf(x.call)'
    BY <1>2, <2>1 DEF IdOf
  <2> QED
    BY <2>1, <2>2, <2>3 DEF Awaited
<1>9. Types'
  BY <1>2, <1>3, <1>5, <1>6 DEF SessionInv, Types
<1>10. Begun' /\ NotAhead' /\ SpanKept'
  <2>1. Begun' /\ SpanKept'
    BY <1>2, <1>4, <1>6 DEF SessionInv, Begun, SpanKept
  <2>2. NotAhead'
    <3>1. ~(m.call > Len(calls))
      <4>1. m.call \in 1 .. Len(calls)
        BY <1>1 DEF Pending
      <4>2. Len(calls) \in Nat
        BY LenProperties DEF SessionInv, Types
      <4> QED
        BY <4>1, <4>2
    <3> QED
      BY <1>2, <1>3, <3>1 DEF SessionInv, NotAhead
  <2> QED
    BY <2>1, <2>2
<1>11. Net(wire'["far"], asked', wire'["near"])
  BY <1>2, <1>5, <1>7
<1> QED
  BY <1>3, <1>8, <1>9, <1>10, <1>11 DEF SessionInv

\* A callback runs; edge and push write play or publish, and the application may
\* call again before the entry is deleted.
LEMMA CallbackKeeps ==
  ASSUME SessionAssumption, MaxSpan <= Ids, SessionInv, wire["near"] # <<>>,
         NEW m, m = Head(wire["near"]), transid_cb[m.id] # None,
         NEW again \in {None, "custom", "edge", "push"},
         RunCallback(m, transid_cb[m.id], again)
  PROVE  SessionInv'
<1> DEFINE g == wire["far"]
           n == Tail(wire["near"])
           kind == calls[m.call]
           relayed == IF kind \in Relay THEN <<Started(kind, m.stream)>> ELSE <<>>
           f == IF Open("far") THEN g \o relayed ELSE g
           new == Len(calls) + 1
           q == Request(again, transid_flag, new)
<1>1. /\ m.call \in CallNo /\ m.call \in Pending /\ transid_cb[m.id] = m.call
      /\ m.id \in TransId /\ m.stream \in Int /\ m.id = IdOf(m.call)
      /\ Net(g, asked, n)
      /\ \A x \in All(g, asked, n) :
           x.call # 0 => /\ x.call \in Pending /\ x.call # m.call
                         /\ x.id = IdOf(x.call) /\ x.id # m.id
                         /\ x.id \in TransId /\ transid_cb[x.id] = x.call
  BY AnswerFacts
<1>2. /\ got' = [got EXCEPT ![m.call] = m.call]
      /\ connect_state' = [connect_state EXCEPT !["near"] = "ACCEPT"]
      /\ held' = IF kind \in Relay THEN [held EXCEPT ![kind] = m.stream] ELSE held
      /\ UNCHANGED <<asked, stream_id_flag, play_stream_id, publish_stream_id>>
  BY <1>1 DEF RunCallback, far_vars
<1>3. \/ /\ transid_cb' = [transid_cb EXCEPT ![m.id] = None]
         /\ wire' = Posted("far", Received("near"), relayed)
         /\ UNCHANGED <<transid_flag, calls>>
      \/ /\ again # None /\ MayCall(again)
         /\ calls' = Append(calls, again)
         /\ transid_cb' = [transid_cb EXCEPT ![transid_flag] = new, ![m.id] = None]
         /\ transid_flag' = NextTransId(transid_flag)
         /\ wire' = Posted("far", Received("near"), Append(relayed, q))
  BY <1>1 DEF RunCallback
<1>4. /\ got' \in [CallNo -> CallNo \cup {None}] /\ AnswersMatch'
      /\ \A j \in CallNo : got'[j] = None <=> got[j] = None /\ j # m.call
  BY <1>1, <1>2, GotFacts
<1>5. /\ Len(calls) \in Nat /\ MaxCalls \in Nat /\ Len(calls) <= MaxCalls
      /\ m.call \in 1 .. Len(calls)
  BY <1>1, LenProperties DEF SessionInv, Types, SessionAssumption, Pending
<1>6. /\ connect_state' \in [End -> {"WAIT_ACCEPT", "ACCEPT", "CLOSE"}]
      /\ held' \in [Relay -> Int]
  BY <1>1, <1>2 DEF SessionInv, Types
<1>7. calls # <<>>
  BY <1>5
<1>8. /\ wire = [e \in End |-> wire[e]] /\ g \in Seq(FarMsg)
  BY <1>1 DEF SessionInv, Types, Net
<1>9. \/ relayed = <<>>
      \/ \E s \in FarMsg : s.call = 0 /\ relayed = <<s>>
  <2>1. CASE kind \in Relay
    <3>1. Started(kind, m.stream) \in FarMsg /\ Started(kind, m.stream).call = 0
      <4>1. m.stream % Modulus \in Int
        BY <1>1 DEF SessionAssumption
      <4> QED
        BY <4>1 DEF Started, Command, FarMsg, Notice
    <3> QED
      BY <2>1, <3>1
  <2>2. CASE kind \notin Relay
    BY <2>2
  <2> QED
    BY <2>1, <2>2
<1>10. /\ Net(f, asked, n)
       /\ \A x \in All(f, asked, n) : x.call # 0 => x \in All(g, asked, n)
  <2>1. CASE f = g
    BY <1>1, <2>1
  <2>2. CASE Open("far") /\ \E s \in FarMsg : s.call = 0 /\ relayed = <<s>>
    <3>1. PICK s \in FarMsg : s.call = 0 /\ relayed = <<s>>
      BY <2>2
    <3>2. s.call \notin CallsIn(All(g, asked, n)) /\ f = g \o <<s>>
      BY <2>2, <3>1 DEF CallsIn
    <3>3. Net(g \o <<s>>, asked, n) /\ All(g \o <<s>>, asked, n) = All(g, asked, n) \cup {s}
      BY <1>1, <3>2, NetFarPost
    <3> QED
      BY <3>1, <3>2, <3>3
  <2>3. CASE relayed = <<>>
    <3>1. f = g
      BY <1>8, <2>3, ConcatEmptySeq
    <3> QED
      BY <2>1, <3>1
  <2> QED
    BY <1>9, <2>1, <2>2, <2>3
<1> HIDE DEF g, n, kind, relayed, f, new, q
<1>11. ASSUME transid_cb' = [transid_cb EXCEPT ![m.id] = None],
              wire' = Posted("far", Received("near"), relayed),
              UNCHANGED <<transid_flag, calls>>
       PROVE  SessionInv'
  <2>1. Pending' = Pending \ {m.call}
    <3>1. 1 .. Len(calls) \subseteq CallNo
      BY <1>5 DEF CallNo
    <3> QED
      BY <1>4, <1>11, <3>1 DEF Pending
  <2>2. /\ wire' = [e \in End |-> wire'[e]] /\ wire'["near"] = n /\ wire'["far"] = f
    BY <1>8, <1>11 DEF Posted, Received, End, f, g, n
  <2>3. AllAwaited'
    <3> SUFFICES ASSUME NEW x \in All(f, asked, n), x.call # 0
                 PROVE  Awaited(x)'
      BY <1>2, <2>2 DEF AllAwaited, Awaited
    <3>1. /\ x.call \in Pending' /\ x.id = IdOf(x.call) /\ x.id # m.id
          /\ transid_cb[x.id] = x.call
      BY <1>1, <1>10, <2>1
    <3>2. (transid_cb[x.id])' = x.call
      BY <1>11, <3>1 DEF SessionInv, Types
    <3>3. x.id = IdOf(x.call)'
      BY <1>11, <3>1 DEF IdOf
    <3> QED
      BY <3>1, <3>2, <3>3 DEF Awaited
  <2>4. transid_cb' \in [TransId -> CallNo \cup {None}]
    BY <1>11 DEF SessionInv, Types
  <2>5. Types'
    BY <1>2, <1>4, <1>6, <1>11, <2>2, <2>4 DEF SessionInv, Types
  <2>6. Begun' /\ SpanKept'
    BY <1>7, <1>11, <2>1 DEF SessionInv, Begun, SpanKept
  <2>7. NotAhead'
    BY <1>4, <1>5, <1>11 DEF SessionInv, NotAhead
  <2>8. Net(wire'["far"], asked', wire'["near"])
    BY <1>2, <1>10, <2>2
  <2> QED
    BY <1>4, <2>3, <2>5, <2>6, <2>7, <2>8 DEF SessionInv
<1>12. ASSUME again # None, MayCall(again), calls' = Append(calls, again),
              transid_cb' = [transid_cb EXCEPT ![transid_flag] = new, ![m.id] = None],
              transid_flag' = NextTransId(transid_flag),
              wire' = Posted("far", Received("near"), Append(relayed, q))
       PROVE  SessionInv'
  <2>1. again \in {"custom", "edge", "push"}
    BY <1>12
  <2>2. /\ Len(calls) < MaxCalls
        /\ \A k \in Pending : Len(calls) + 1 - k < MaxSpan
    BY <1>12 DEF MayCall
  <2>3. PICK c : c = new
    OBVIOUS
  <2>4. /\ calls' \in Seq({"connect", "custom", "edge", "push"})
        /\ Len(calls') = c /\ c > 1 /\ c \in Nat
        /\ transid_flag' \in FirstTransId .. MaxTransId + 1
        /\ IdOf(c)' = transid_flag
        /\ \A k \in Pending : /\ IdOf(k)' = IdOf(k) /\ IdOf(k) # transid_flag
                               /\ Len(calls') + 1 - k <= Ids
    BY <1>7, <1>12, <2>1, <2>2, <2>3, IdFacts DEF new
  <2>5. c \in CallNo /\ new \in CallNo /\ c # m.call /\ c \notin Pending
    BY <1>5, <2>2, <2>3 DEF CallNo, new, Pending
  <2>6. Pending' = (Pending \ {m.call}) \cup {c}
    <3>1. got[c] = None
      BY <1>5, <2>3, <2>5 DEF SessionInv, NotAhead, new
    <3>2. 1 .. Len(calls') = 1 .. Len(calls) \cup {c}
      BY <1>5, <2>3, <2>4 DEF new
    <3>3. 1 .. Len(calls) \subseteq CallNo
      BY <1>5 DEF CallNo
    <3> QED
      BY <1>4, <2>5, <3>1, <3>2, <3>3 DEF Pending
  <2>7. transid_flag \in TransId
    BY DEF SessionInv, Types, TransId
  <2>8. transid_flag # m.id
    BY <1>1, <2>4
  <2>9. PICK r : r = q
    OBVIOUS
  <2>10. r \in Request_ /\ r.call = c /\ r.id = transid_flag
    BY <2>1, <2>3, <2>5, <2>7, <2>9 DEF q, Request, Relay, Command, Request_, RequestName
  <2>11. /\ wire' = [e \in End |-> wire'[e]] /\ wire'["near"] = n
         /\ wire'["far"] = IF Open("far") THEN g \o Append(relayed, r) ELSE g
    BY <1>8, <1>12, <2>9 DEF Posted, Received, End, g, n
  <2>12. wire'["far"] \in {f, f \o <<r>>}
    <3>1. relayed \in Seq(FarMsg) /\ r \in FarMsg
      <4>1. r \in FarMsg
        BY <2>10 DEF FarMsg
      <4>2. CASE relayed = <<>>
        BY <4>1, <4>2
      <4>3. ASSUME NEW s \in FarMsg, relayed = <<s>> PROVE relayed \in Seq(FarMsg)
        BY <4>3
      <4> QED
        BY <1>9, <4>1, <4>2, <4>3
    <3>2. PICK t : t = relayed
      OBVIOUS
    <3>3. t \in Seq(FarMsg) /\ g \in Seq(FarMsg) /\ r \in FarMsg
      BY <1>8, <3>1, <3>2
    <3>4. g \o Append(t, r) = (g \o t) \o <<r>>
      BY <3>3, AppendLast
    <3> QED
      BY <2>11, <3>2, <3>4 DEF f
  <2>13. \A x \in All(f, asked, n) : x.call # 0 => x.call \in Pending /\ Awaited(x)'
    <3> SUFFICES ASSUME NEW x \in All(f, asked, n), x.call # 0
                 PROVE  x.call \in Pending /\ Awaited(x)'
      OBVIOUS
    <3>1. /\ x.call \in Pending /\ x.call # m.call
          /\ x.id = IdOf(x.call) /\ x.id # m.id
          /\ x.id \in TransId /\ transid_cb[x.id] = x.call
      BY <1>1, <1>10
    <3>2. x.id # transid_flag /\ x.id = IdOf(x.call)' /\ x.call \in Pending'
      BY <2>4, <2>6, <3>1
    <3>3. (transid_cb[x.id])' = x.call
      BY <1>12, <3>1, <3>2 DEF SessionInv, Types
    <3> QED
      BY <3>1, <3>2, <3>3 DEF Awaited
  <2>14. r.call \in Pending' /\ r.call \notin Pending /\ r.id = IdOf(r.call)'
    BY <2>4, <2>5, <2>6, <2>10
  <2>15. (transid_cb[r.id])' = r.call
    BY <1>12, <2>3, <2>7, <2>8, <2>10 DEF SessionInv, Types
  <2>16. AllAwaited' /\ Net(wire'["far"], asked', wire'["near"])
    BY <1>2, <1>10, <2>10, <2>11, <2>12, <2>13, <2>14, <2>15, RequestJoins
  <2>17. transid_cb' \in [TransId -> CallNo \cup {None}]
    BY <1>12, <2>5, <2>7 DEF SessionInv, Types
  <2>18. Len(calls') <= MaxCalls
    BY <1>5, <2>2, <2>3, <2>4 DEF new
  <2>19. Types'
    BY <1>2, <1>4, <1>6, <2>4, <2>11, <2>17, <2>18 DEF SessionInv, Types
  <2>20. Begun'
    BY <2>4 DEF Begun
  <2>21. SpanKept'
    <3>1. Len(calls') + 1 - c <= Ids
      BY <2>4 DEF Ids, SessionAssumption
    <3> QED
      BY <2>4, <2>6, <3>1 DEF SpanKept, Ids
  <2>22. NotAhead'
    <3> SUFFICES ASSUME NEW k \in CallNo, k > Len(calls') PROVE got'[k] = None
      BY DEF NotAhead
    <3>1. k > Len(calls) /\ k # m.call
      BY <1>5, <2>3, <2>4 DEF new, CallNo
    <3> QED
      BY <1>4, <3>1 DEF SessionInv, NotAhead
  <2> QED
    BY <1>4, <2>16, <2>19, <2>20, <2>21, <2>22 DEF SessionInv
<1> QED
  BY <1>3, <1>11, <1>12

\* An answer is dropped or runs its callback.
LEMMA AnsweredKeeps ==
  ASSUME SessionAssumption, MaxSpan <= Ids, SessionInv, Answered
  PROVE  SessionInv'
<1> DEFINE f == wire["far"]
           n == wire["near"]
           m == Head(n)
<1>1. n # <<>>
  BY DEF Answered
<1>2. CASE wire' = Received("near") /\ UNCHANGED <<connect_state, near_vars, far_vars>>
  <2>1. /\ Net(f, asked, Tail(n)) /\ All(f, asked, Tail(n)) \subseteq All(f, asked, n)
    BY <1>1, NetNearTail DEF SessionInv
  <2>2. /\ wire' = [e \in End |-> wire'[e]] /\ wire'["near"] = Tail(n) /\ wire'["far"] = f
    BY <1>2 DEF Received, End, SessionInv, Types
  <2>3. /\ UNCHANGED <<connect_state, transid_flag, transid_cb, calls, got, held, asked,
                       stream_id_flag, play_stream_id, publish_stream_id>>
    BY <1>2 DEF near_vars, far_vars
  <2>4. /\ connect_state \in [End -> {"WAIT_ACCEPT", "ACCEPT", "CLOSE"}]
        /\ held \in [Relay -> Int]
        /\ stream_id_flag \in Int /\ play_stream_id \in Int /\ publish_stream_id \in Int
    BY DEF SessionInv, Types
  <2> HIDE DEF f, n
  <2>5. /\ Net(wire'["far"], asked', wire'["near"])
        /\ \A x \in All(wire'["far"], asked', wire'["near"]) : x \in All(f, asked, n)
    BY <2>1, <2>2, <2>3
  <2> QED
    BY <2>2, <2>3, <2>4, <2>5, QuietStep DEF f, n
<1>3. CASE transid_cb[m.id] # None /\ \E again \in {None, "custom", "edge", "push"} :
             RunCallback(m, transid_cb[m.id], again)
  <2>1. PICK again \in {None, "custom", "edge", "push"} :
          RunCallback(m, transid_cb[m.id], again)
    BY <1>3
  <2> QED
    BY <1>1, <1>3, <2>1, CallbackKeeps
<1>4. CASE transid_cb[m.id] # None /\ EdgeFails(m, transid_cb[m.id])
  BY <1>1, <1>4, EdgeFailsKeeps
<1> QED
  BY <1>2, <1>3, <1>4 DEF Answered

-----------------------------------------------------------------------------
\* Nothing is called or on its way at the start.
LEMMA SessionStarts ==
  ASSUME SessionAssumption, Init
  PROVE  SessionInv
<1>1. calls = <<>> /\ Len(calls) = 0 /\ Pending = {}
  BY DEF Init, Pending
<1>2. Types
  BY <1>1 DEF Init, Types, TransId, Relay, End, CallNo, SessionAssumption
<1>3. Msgs(<<>>) = {} /\ Single(<<>>) /\ <<>> \in Seq(FarMsg) /\ <<>> \in Seq(NearMsg)
  BY EmptySeq DEF Msgs, Single
<1>4. wire["far"] = <<>> /\ wire["near"] = <<>> /\ asked = {}
  BY DEF Init, End
<1>5. Net(wire["far"], asked, wire["near"]) /\ AllAwaited
  BY <1>3, <1>4 DEF Net, CallsIn, All, AllAwaited
<1>6. Begun /\ NotAhead /\ SpanKept /\ AnswersMatch
  BY <1>1 DEF Init, Begun, NotAhead, SpanKept, AnswersMatch, End, CallNo
<1> QED
  BY <1>2, <1>5, <1>6 DEF SessionInv

\* Every step keeps the invariant.
LEMMA SessionStep ==
  ASSUME SessionAssumption, MaxSpan <= Ids, SessionInv, [Next]_vars
  PROVE  SessionInv'
<1>1. CASE Connect
  BY <1>1, ConnectKeeps
<1>2. ASSUME NEW kind \in {"custom", "edge", "push"}, Call(kind) PROVE SessionInv'
  BY <1>2, CallKeeps
<1>3. ASSUME NEW r \in Relay, DeleteStream(r) PROVE SessionInv'
  BY <1>3, DeleteKeeps
<1>4. CASE Answered
  BY <1>4, AnsweredKeeps
<1>5. CASE Handled
  BY <1>5, HandledKeeps
<1>6. ASSUME NEW m \in asked, Answer(m) PROVE SessionInv'
  BY <1>6, AnswerKeeps
<1>7. ASSUME NEW e \in End, Close(e) PROVE SessionInv'
  BY <1>7, CloseKeeps
<1>8. CASE UNCHANGED vars
  BY <1>8 DEF vars, near_vars, far_vars, SessionInv, Types, Begun, NotAhead, SpanKept,
              AllAwaited, Awaited, AnswersMatch, Pending, IdOf
<1> QED
  BY <1>1, <1>2, <1>3, <1>4, <1>5, <1>6, <1>7, <1>8 DEF Next

\* A callback given to call() gets the answer to its own command: for any number of
\* ids, as long as the application keeps no more calls than there are ids from the
\* oldest unanswered one on, whatever the order of the answers.
THEOREM AnswersAlwaysMatch ==
  ASSUME MaxSpan <= Ids
  PROVE  Spec => []AnswersMatch
<1>1. Init => SessionInv
  BY SessionAssumption, SessionStarts
<1>2. SessionInv /\ [Next]_vars => SessionInv'
  BY SessionAssumption, SessionStep
<1>3. SessionInv => AnswersMatch
  BY DEF SessionInv
<1> QED
  BY <1>1, <1>2, <1>3, PTL DEF Spec
-----------------------------------------------------------------------------
(* The types of the variables, whatever the application does. *)

Start == {"play", "publish"}
Number == 0 .. Modulus - 1   \* a stream id on the wire

\* What is written to the far end: the stream of play and publish has 32 bits.
Sent == {m \in FarMsg : m.cmd \in Start => m.stream \in Number}

WireOK(w) ==
  /\ w = [e \in End |-> w[e]]
  /\ w["far"] \in Seq(Sent) /\ w["near"] \in Seq(NearMsg)

TypeInv ==
  /\ Types /\ deletes \in 0 .. MaxDeletes
  /\ play_stream_id \in Number /\ publish_stream_id \in Number
  /\ WireOK(wire)
  /\ asked \subseteq {m \in Request_ : m.cmd # "createStream"}

\* What is written to the far end joins what is on its way there, or goes nowhere.
LEMMA FarWritten ==
  ASSUME NEW w, WireOK(w), NEW msgs \in Seq(Sent)
  PROVE  WireOK(Posted("far", w, msgs))
<1>1. w["far"] \o msgs \in Seq(Sent)
  BY ConcatProperties DEF WireOK
<1> QED
  BY <1>1 DEF WireOK, Posted, End

\* What is written to the near end, likewise.
LEMMA NearWritten ==
  ASSUME NEW w, WireOK(w), NEW msgs \in Seq(NearMsg)
  PROVE  WireOK(Posted("near", w, msgs))
<1>1. w["near"] \o msgs \in Seq(NearMsg)
  BY ConcatProperties DEF WireOK
<1> QED
  BY <1>1 DEF WireOK, Posted, End

\* A message is taken from the wire.
LEMMA MessageTaken ==
  ASSUME WireOK(wire), NEW e \in End, wire[e] # <<>>
  PROVE  WireOK(Received(e))
<1>1. CASE e = "far"
  <2>1. Tail(wire["far"]) \in Seq(Sent)
    BY <1>1, HeadTailProperties DEF WireOK
  <2> QED
    BY <1>1, <2>1 DEF WireOK, Received, End
<1>2. CASE e = "near"
  <2>1. Tail(wire["near"]) \in Seq(NearMsg)
    BY <1>2, HeadTailProperties DEF WireOK
  <2> QED
    BY <1>2, <2>1 DEF WireOK, Received, End
<1> QED
  BY <1>1, <1>2 DEF End

\* A command of a new call, and what else is kept by the calls that are made.
LEMMA NewCallTypes ==
  ASSUME SessionAssumption, TypeInv, Len(calls) < MaxCalls,
         NEW kind \in {"custom", "edge", "push"}
  PROVE  /\ Append(calls, kind) \in Seq({"connect", "custom", "edge", "push"})
         /\ Len(Append(calls, kind)) <= MaxCalls
         /\ Len(calls) + 1 \in CallNo
         /\ transid_flag \in TransId
         /\ NextTransId(transid_flag) \in FirstTransId .. MaxTransId + 1
         /\ Request(kind, transid_flag, Len(calls) + 1) \in Sent
<1>1. /\ calls \in Seq({"connect", "custom", "edge", "push"}) /\ Len(calls) \in Nat
      /\ transid_flag \in FirstTransId .. MaxTransId + 1
      /\ FirstTransId \in Nat /\ MaxTransId \in Nat /\ FirstTransId <= MaxTransId
      /\ MaxCalls \in Nat
  BY LenProperties DEF TypeInv, Types, SessionAssumption
<1>2. /\ Append(calls, kind) \in Seq({"connect", "custom", "edge", "push"})
      /\ Len(Append(calls, kind)) = Len(calls) + 1
  BY <1>1, AppendProperties
<1>3. Len(calls) + 1 \in CallNo /\ transid_flag \in TransId
  BY <1>1 DEF CallNo, TransId
<1>4. NextTransId(transid_flag) \in FirstTransId .. MaxTransId + 1
  BY <1>1 DEF NextTransId
<1>5. Request(kind, transid_flag, Len(calls) + 1) \in Request_
  BY <1>3 DEF Request, Relay, Command, Request_, RequestName
<1>6. Request(kind, transid_flag, Len(calls) + 1).cmd \notin Start
  BY <1>5 DEF Request_, RequestName, Start
<1> QED
  BY <1>1, <1>2, <1>3, <1>4, <1>5, <1>6 DEF Sent, FarMsg

\* A callback takes the answer and writes what it has to.
LEMMA CallbackTypes ==
  ASSUME SessionAssumption, TypeInv, wire["near"] # <<>>,
         NEW m, m = Head(wire["near"]),
         NEW k, k = transid_cb[m.id], k # None,
         NEW again \in {None, "custom", "edge", "push"},
         RunCallback(m, k, again)
  PROVE  TypeInv'
<1> DEFINE relayed == IF calls[k] \in Relay THEN <<Started(calls[k], m.stream)>> ELSE <<>>
           q == Request(again, transid_flag, Len(calls) + 1)
<1>1. m \in NearMsg /\ m.id \in TransId /\ m.call \in CallNo /\ m.stream \in Int
  <2>1. m \in NearMsg
    BY HeadTailProperties DEF TypeInv, WireOK
  <2> QED
    BY <2>1 DEF NearMsg
<1>2. k \in CallNo
  BY <1>1 DEF TypeInv, Types
<1>3. /\ got' = [got EXCEPT ![k] = m.call]
      /\ connect_state' = [connect_state EXCEPT !["near"] = "ACCEPT"]
      /\ held' = IF calls[k] \in Relay THEN [held EXCEPT ![calls[k]] = m.stream] ELSE held
      /\ UNCHANGED <<deletes, asked, stream_id_flag, play_stream_id, publish_stream_id>>
  BY DEF RunCallback, far_vars
<1>4. \/ /\ transid_cb' = [transid_cb EXCEPT ![m.id] = None]
         /\ wire' = Posted("far", Received("near"), relayed)
         /\ UNCHANGED <<transid_flag, calls>>
      \/ /\ again # None /\ MayCall(again)
         /\ calls' = Append(calls, again)
         /\ transid_cb' = [transid_cb EXCEPT ![transid_flag] = Len(calls) + 1, ![m.id] = None]
         /\ transid_flag' = NextTransId(transid_flag)
         /\ wire' = Posted("far", Received("near"), Append(relayed, q))
  BY DEF RunCallback
<1>5. relayed \in Seq(Sent)
  <2>1. CASE calls[k] \in Relay
    <3>1. m.stream % Modulus \in Number
      BY <1>1 DEF Number, SessionAssumption
    <3>2. Started(calls[k], m.stream) \in Sent
      BY <1>1, <3>1, SessionAssumption DEF Started, Command, Sent, FarMsg, Notice, Number
    <3> QED
      BY <2>1, <3>2
  <2>2. CASE calls[k] \notin Relay
    BY <2>2
  <2> QED
    BY <2>1, <2>2
<1> HIDE DEF relayed, q
<1>5a. WireOK(Received("near"))
  BY MessageTaken DEF TypeInv, End
<1>6. /\ connect_state' \in [End -> {"WAIT_ACCEPT", "ACCEPT", "CLOSE"}]
      /\ got' \in [CallNo -> CallNo \cup {None}]
      /\ held' \in [Relay -> Int]
  BY <1>1, <1>2, <1>3 DEF TypeInv, Types
<1>7. CASE /\ transid_cb' = [transid_cb EXCEPT ![m.id] = None]
           /\ wire' = Posted("far", Received("near"), relayed)
           /\ UNCHANGED <<transid_flag, calls>>
  <2>1. WireOK(wire')
    BY <1>5, <1>5a, <1>7, FarWritten
  <2>2. transid_cb' \in [TransId -> CallNo \cup {None}]
    BY <1>7 DEF TypeInv, Types
  <2>3. Types'
    BY <1>3, <1>6, <1>7, <2>1, <2>2 DEF TypeInv, Types, WireOK
  <2> QED
    BY <1>3, <2>1, <2>3 DEF TypeInv
<1>8. CASE /\ again # None /\ MayCall(again)
           /\ calls' = Append(calls, again)
           /\ transid_cb' = [transid_cb EXCEPT ![transid_flag] = Len(calls) + 1, ![m.id] = None]
           /\ transid_flag' = NextTransId(transid_flag)
           /\ wire' = Posted("far", Received("near"), Append(relayed, q))
  <2>1. again \in {"custom", "edge", "push"} /\ Len(calls) < MaxCalls
    BY <1>8 DEF MayCall
  <2>2. /\ calls' \in Seq({"connect", "custom", "edge", "push"}) /\ Len(calls') <= MaxCalls
        /\ Len(calls) + 1 \in CallNo /\ transid_flag \in TransId
        /\ transid_flag' \in FirstTransId .. MaxTransId + 1
        /\ q \in Sent
    BY <1>8, <2>1, NewCallTypes DEF q
  <2>3. Append(relayed, q) \in Seq(Sent)
    BY <1>5, <2>2, AppendProperties
  <2>4. WireOK(wire')
    BY <1>5a, <1>8, <2>3, FarWritten
  <2>5. transid_cb' \in [TransId -> CallNo \cup {None}]
    BY <1>8, <2>2 DEF TypeInv, Types
  <2>6. Types'
    BY <1>3, <1>6, <2>2, <2>4, <2>5 DEF TypeInv, Types, WireOK
  <2> QED
    BY <1>3, <2>4, <2>6 DEF TypeInv
<1> QED
  BY <1>4, <1>7, <1>8

\* The far end takes a message and does what it says.
LEMMA HandledTypes ==
  ASSUME SessionAssumption, TypeInv, Handled
  PROVE  TypeInv'
<1> DEFINE m == Head(wire["far"])
<1>1. /\ wire["far"] # <<>>
      /\ Asked(m) \/ CreateStream(m) \/ DeleteFar(m) \/ Play(m) \/ Publish(m)
  BY DEF Handled
<1>2. m \in Sent /\ m \in FarMsg /\ m.stream \in Int
  <2>1. m \in Sent
    BY <1>1, HeadTailProperties DEF TypeInv, WireOK
  <2> QED
    BY <2>1, MsgFacts DEF Sent, Msg
<1> HIDE DEF m
<1>3. ASSUME Asked(m) PROVE TypeInv'
  <2>1. m \in {x \in Request_ : x.cmd # "createStream"}
    BY <1>2, <1>3 DEF Asked, FarMsg, Notice
  <2>2. WireOK(wire')
    BY <1>1, <1>3, MessageTaken DEF Asked, End, TypeInv
  <2>3. Types' /\ UNCHANGED <<deletes, play_stream_id, publish_stream_id>>
    BY <1>3, <2>2 DEF Asked, TypeInv, Types, near_vars, WireOK
  <2> QED
    BY <1>3, <2>1, <2>2, <2>3 DEF Asked, TypeInv
<1>4. ASSUME CreateStream(m) PROVE TypeInv'
  <2>1. m \in Request_
    BY <1>2, <1>4 DEF CreateStream, FarMsg, Notice
  <2>2. stream_id_flag' \in Int
    <3>1. /\ stream_id_flag \in Int /\ play_stream_id \in Int /\ publish_stream_id \in Int
          /\ MaxStreamId \in Nat /\ stream_id_flag' = FreeFrom(stream_id_flag + 1)
      BY <1>4 DEF CreateStream, SessionAssumption, TypeInv, Types
    <3> QED
      BY <3>1 DEF FreeFrom, Skipped
  <2>3. Result(m, stream_id_flag') \in NearMsg
    BY <2>1, <2>2 DEF Result, Command, Request_, NearMsg
  <2>4. /\ wire' = Posted("near", Received("far"), <<Result(m, stream_id_flag')>>)
        /\ UNCHANGED <<connect_state, near_vars, asked, play_stream_id, publish_stream_id>>
    BY <1>4 DEF CreateStream
  <2>5. <<Result(m, stream_id_flag')>> \in Seq(NearMsg)
    BY <2>3
  <2>6. WireOK(wire')
    <3>1. WireOK(Received("far"))
      BY <1>1, MessageTaken DEF End, TypeInv
    <3> QED
      BY <2>4, <2>5, <3>1, NearWritten
  <2>7. Types'
    BY <2>2, <2>4, <2>6 DEF TypeInv, Types, near_vars, WireOK
  <2> QED
    BY <2>4, <2>6, <2>7 DEF TypeInv, near_vars
<1>5. ASSUME DeleteFar(m) \/ Play(m) \/ Publish(m) PROVE TypeInv'
  <2>1. /\ wire' = Received("far")
        /\ UNCHANGED <<connect_state, near_vars, asked>>
    BY <1>5 DEF DeleteFar, Play, Publish
  <2>2. WireOK(wire')
    BY <1>1, <2>1, MessageTaken DEF End, TypeInv
  <2>3. stream_id_flag' \in Int /\ play_stream_id' \in Number /\ publish_stream_id' \in Number
    <3>1. 0 \in Number /\ Number \subseteq Int
      BY DEF Number, SessionAssumption
    <3>2. m.cmd \in Start => m.stream \in Number
      BY <1>2 DEF Sent
    <3>3. stream_id_flag \in Int /\ play_stream_id \in Number /\ publish_stream_id \in Number
      BY DEF TypeInv, Types
    <3> QED
      BY <1>2, <1>5, <3>1, <3>2, <3>3 DEF DeleteFar, Play, Publish, Start
  <2>4. play_stream_id' \in Int /\ publish_stream_id' \in Int
    BY <2>3 DEF Number, SessionAssumption
  <2>5. Types'
    BY <2>1, <2>2, <2>3, <2>4 DEF TypeInv, Types, near_vars, WireOK
  <2> QED
    BY <2>1, <2>2, <2>3, <2>5 DEF TypeInv, near_vars
<1> QED
  BY <1>1, <1>3, <1>4, <1>5

\* What deletions and ids have been like.
HistoryInv == {overlapped, clashed} \subseteq BOOLEAN

LEMMA HistoryStep ==
  ASSUME HistoryInv, [Next]_vars
  PROVE  HistoryInv'
<1>1. CASE \E r \in Relay : DeleteStream(r)
  BY <1>1 DEF DeleteStream, HistoryInv
<1>2. CASE Handled
  <2>1. overlapped' = overlapped /\ (clashed' = clashed \/ CreateStream(Head(wire["far"])))
    BY <1>2, Zenon DEF Handled, Asked, CreateStream, DeleteFar, Play, Publish, history
  <2>2. CASE CreateStream(Head(wire["far"]))
    BY <2>1, <2>2 DEF CreateStream, HistoryInv
  <2> QED
    BY <2>1, <2>2 DEF HistoryInv
<1>3. CASE UNCHANGED history
  BY <1>3 DEF HistoryInv, history
<1>4. Answered => UNCHANGED history
  BY Zenon DEF Answered, RunCallback, EdgeFails
<1>5. Connect \/ (\E kind \in {"custom", "edge", "push"} : Call(kind)) => UNCHANGED history
  BY Zenon DEF Connect, Call
<1>6. (\E m \in asked : Answer(m)) \/ (\E e \in End : Close(e)) => UNCHANGED history
  BY Zenon DEF Answer, Close
<1>7. UNCHANGED vars => UNCHANGED history
  BY DEF vars, history
<1> QED
  BY <1>1, <1>2, <1>3, <1>4, <1>5, <1>6, <1>7 DEF Next

\* The types of all variables, for all values of the constants: whatever ids are used
\* twice and whatever the flag of the far end has come to, a callback that runs is one of
\* those that were stored, ids of calls stay among the ids, and what the far end plays
\* and publishes is a stream id that fits the wire.
THEOREM RelayTypes == Spec => []TypeOK
<1> USE SessionAssumption
<1>1. Init => TypeInv
  <2> SUFFICES ASSUME Init PROVE TypeInv
    OBVIOUS
  <2>1. calls = <<>> /\ Len(calls) = 0
    BY DEF Init
  <2>2. Types
    BY <2>1 DEF Init, Types, TransId, Relay, End, CallNo, SessionAssumption
  <2>3. asked = {}
    BY DEF Init
  <2>4. WireOK(wire)
    BY EmptySeq DEF Init, WireOK, End
  <2>5. deletes = 0 /\ play_stream_id = 0 /\ publish_stream_id = 0 /\ 0 \in Number
    BY DEF Init, Number, SessionAssumption
  <2> QED
    BY <2>2, <2>3, <2>4, <2>5 DEF TypeInv, SessionAssumption
<1>2. TypeInv /\ [Next]_vars => TypeInv'
  <2> SUFFICES ASSUME TypeInv, [Next]_vars PROVE TypeInv'
    OBVIOUS
  <2>1. CASE Connect
    <3>1. /\ UNCHANGED <<connect_state, transid_flag, got, held, deletes, far_vars>>
          /\ calls' = <<"connect">> /\ transid_cb' = [transid_cb EXCEPT ![1] = 1]
          /\ wire' = Posted("far", wire, <<Request("connect", 1, 1)>>)
      BY <2>1 DEF Connect
    <3>2. 1 \in CallNo /\ 1 \in TransId /\ MaxCalls \in Nat
      BY DEF CallNo, TransId, SessionAssumption
    <3>3. Request("connect", 1, 1) \in Sent
      BY <3>2 DEF Request, Relay, Command, Request_, RequestName, Sent, FarMsg, Start
    <3>4. <<Request("connect", 1, 1)>> \in Seq(Sent)
      BY <3>3
    <3>5. WireOK(wire')
      BY <3>1, <3>4, FarWritten DEF TypeInv
    <3>6. calls' \in Seq({"connect", "custom", "edge", "push"}) /\ Len(calls') <= MaxCalls
      BY <3>1, <3>2 DEF CallNo
    <3>7. transid_cb' \in [TransId -> CallNo \cup {None}]
      BY <3>1, <3>2 DEF TypeInv, Types
    <3>8. Types'
      BY <3>1, <3>5, <3>6, <3>7 DEF TypeInv, Types, far_vars, WireOK
    <3> QED
      BY <3>1, <3>5, <3>8 DEF TypeInv, far_vars
  <2>2. ASSUME NEW kind \in {"custom", "edge", "push"}, Call(kind) PROVE TypeInv'
    <3> DEFINE q == Request(kind, transid_flag, Len(calls) + 1)
    <3>1. /\ Len(calls) < MaxCalls
          /\ UNCHANGED <<connect_state, got, held, deletes, far_vars>>
          /\ calls' = Append(calls, kind) /\ transid_flag' = NextTransId(transid_flag)
          /\ transid_cb' = [transid_cb EXCEPT ![transid_flag] = Len(calls) + 1]
          /\ wire' = Posted("far", wire, <<q>>)
      BY <2>2 DEF Call, MayCall
    <3>2. /\ calls' \in Seq({"connect", "custom", "edge", "push"}) /\ Len(calls') <= MaxCalls
          /\ Len(calls) + 1 \in CallNo /\ transid_flag \in TransId
          /\ transid_flag' \in FirstTransId .. MaxTransId + 1
          /\ q \in Sent
      BY <3>1, NewCallTypes
    <3> HIDE DEF q
    <3>3. <<q>> \in Seq(Sent)
      BY <3>2
    <3>4. WireOK(wire')
      BY <3>1, <3>3, FarWritten DEF TypeInv
    <3>5. transid_cb' \in [TransId -> CallNo \cup {None}]
      BY <3>1, <3>2 DEF TypeInv, Types
    <3>6. Types'
      BY <3>1, <3>2, <3>4, <3>5 DEF TypeInv, Types, far_vars, WireOK
    <3> QED
      BY <3>1, <3>4, <3>6 DEF TypeInv, far_vars
  <2>3. ASSUME NEW r \in Relay, DeleteStream(r) PROVE TypeInv'
    <3>1. /\ UNCHANGED <<connect_state, transid_flag, transid_cb, calls, got, far_vars>>
          /\ held' = [held EXCEPT ![r] = 0] /\ deletes' = deletes + 1 /\ deletes < MaxDeletes
          /\ wire' = Posted("far", wire, <<Command("deleteStream", 0, 0, held[r])>>)
      BY <2>3 DEF DeleteStream
    <3>2. Command("deleteStream", 0, 0, held[r]) \in Sent
      BY DEF Command, Sent, FarMsg, Notice, Start, TypeInv, Types
    <3>3. <<Command("deleteStream", 0, 0, held[r])>> \in Seq(Sent)
      BY <3>2
    <3>4. WireOK(wire')
      BY <3>1, <3>3, FarWritten DEF TypeInv
    <3>5. held' \in [Relay -> Int] /\ deletes' \in 0 .. MaxDeletes
      <4>1. held' \in [Relay -> Int]
        BY <3>1 DEF TypeInv, Types
      <4>2. deletes' \in 0 .. MaxDeletes
        BY <3>1 DEF TypeInv, SessionAssumption
      <4> QED
        BY <4>1, <4>2
    <3>6. Types'
      BY <3>1, <3>4, <3>5 DEF TypeInv, Types, far_vars, WireOK
    <3> QED
      BY <3>1, <3>4, <3>5, <3>6 DEF TypeInv, far_vars
  <2>4. CASE Answered
    <3> DEFINE m == Head(wire["near"])
               k == transid_cb[m.id]
    <3>1. wire["near"] # <<>>
      BY <2>4 DEF Answered
    <3>2. CASE wire' = Received("near") /\ UNCHANGED <<connect_state, near_vars, far_vars>>
      <4>1. WireOK(wire')
        BY <3>1, <3>2, MessageTaken DEF End, TypeInv
      <4>2. Types'
        BY <3>2, <4>1 DEF TypeInv, Types, near_vars, far_vars, WireOK
      <4> QED
        BY <3>2, <4>1, <4>2 DEF TypeInv, near_vars, far_vars
    <3>3. ASSUME k # None, NEW again \in {None, "custom", "edge", "push"},
                 RunCallback(m, k, again)
          PROVE  TypeInv'
      BY <3>1, <3>3, CallbackTypes
    <3>4. CASE k # None /\ EdgeFails(m, k)
      <4>1. m \in NearMsg
        BY <3>1, HeadTailProperties DEF TypeInv, WireOK
      <4>2. m.id \in TransId /\ m.call \in CallNo /\ k \in CallNo
        BY <3>4, <4>1 DEF NearMsg, TypeInv, Types
      <4>3. /\ got' = [got EXCEPT ![k] = m.call]
            /\ transid_cb' = [transid_cb EXCEPT ![m.id] = None]
            /\ connect_state' = [connect_state EXCEPT !["near"] = "CLOSE"]
            /\ wire' = [wire EXCEPT !["near"] = <<>>]
            /\ UNCHANGED <<transid_flag, calls, held, deletes, far_vars>>
        BY <3>4 DEF EdgeFails
      <4> HIDE DEF m, k
      <4>4. WireOK(wire')
        BY <4>3, EmptySeq DEF TypeInv, WireOK, End
      <4>5. /\ connect_state' \in [End -> {"WAIT_ACCEPT", "ACCEPT", "CLOSE"}]
            /\ got' \in [CallNo -> CallNo \cup {None}]
            /\ transid_cb' \in [TransId -> CallNo \cup {None}]
        BY <4>2, <4>3 DEF TypeInv, Types
      <4>6. Types'
        BY <4>3, <4>4, <4>5 DEF TypeInv, Types, far_vars, WireOK
      <4> QED
        BY <4>3, <4>4, <4>6 DEF TypeInv, far_vars
    <3> QED
      BY <2>4, <3>2, <3>3, <3>4 DEF Answered
  <2>5. CASE Handled
    BY <2>5, HandledTypes
  <2>6. ASSUME NEW m \in asked, Answer(m) PROVE TypeInv'
    <3>1. /\ wire' = Posted("near", wire, <<Result(m, 0)>>) /\ asked' = asked \ {m}
          /\ UNCHANGED <<near_vars, stream_id_flag, play_stream_id, publish_stream_id>>
      BY <2>6 DEF Answer
    <3>2. Result(m, 0) \in NearMsg
      BY DEF TypeInv, Result, Command, Request_, NearMsg
    <3>3. <<Result(m, 0)>> \in Seq(NearMsg)
      BY <3>2
    <3>4. WireOK(wire')
      BY <3>1, <3>3, NearWritten DEF TypeInv
    <3>5. connect_state' \in [End -> {"WAIT_ACCEPT", "ACCEPT", "CLOSE"}]
      BY <2>6 DEF Answer, Accept, Answers, TypeInv, Types
    <3>6. Types'
      BY <3>1, <3>4, <3>5 DEF TypeInv, Types, near_vars, WireOK
    <3> QED
      BY <3>1, <3>4, <3>6 DEF TypeInv, near_vars
  <2>7. ASSUME NEW e \in End, Close(e) PROVE TypeInv'
    <3>1. /\ connect_state' = [connect_state EXCEPT ![e] = "CLOSE"]
          /\ wire' = [wire EXCEPT ![e] = <<>>]
          /\ UNCHANGED <<near_vars, far_vars>>
      BY <2>7 DEF Close
    <3>2. WireOK(wire')
      BY <3>1, EmptySeq DEF TypeInv, WireOK, End
    <3>3. Types'
      BY <3>1, <3>2 DEF TypeInv, Types, near_vars, far_vars, WireOK
    <3> QED
      BY <3>1, <3>2, <3>3 DEF TypeInv, near_vars, far_vars
  <2>8. CASE UNCHANGED vars
    BY <2>8 DEF vars, near_vars, far_vars, TypeInv, Types
  <2> QED
    BY <2>1, <2>2, <2>3, <2>4, <2>5, <2>6, <2>7, <2>8 DEF Next
<1>3. TypeInv /\ HistoryInv => TypeOK
  <2> SUFFICES ASSUME TypeInv, HistoryInv PROVE TypeOK
    OBVIOUS
  <2>1. \A m \in asked : m.cmd \in {"connect", "custom"} /\ m.id \in TransId
    BY DEF TypeInv, Request_, RequestName
  <2>2. transid_flag \in TransId \ {1}
    BY DEF TypeInv, Types, TransId, SessionAssumption
  <2> QED
    BY <2>1, <2>2 DEF TypeInv, HistoryInv, Types, TypeOK, CallNo, Number
<1>4. Init => HistoryInv
  BY DEF Init, HistoryInv
<1>5. HistoryInv /\ [Next]_vars => HistoryInv'
  BY HistoryStep
<1> QED
  BY <1>1, <1>2, <1>3, <1>4, <1>5, PTL DEF Spec
-----------------------------------------------------------------------------
(* What the two ends make of the streams that edge and push relay. *)

Other(r) == IF r = "edge" THEN "push" ELSE "edge"
StartCmd(r) == IF r = "edge" THEN "play" ELSE "publish"
Far(r) == IF r = "edge" THEN play_stream_id ELSE publish_stream_id

\* The order of what is on its way to the far end: a stream is deleted once and is not
\* started any more; one stream of a kind is started, each on an id of its own.
MayFollow(a, b) ==
  /\ a.cmd = "deleteStream" /\ b.cmd \in Start \cup {"deleteStream"} => b.stream # a.stream
  /\ a.cmd \in Start => b.cmd # a.cmd
  /\ a.cmd \in Start /\ b.cmd \in Start => b.stream # a.stream

\* When no stream is deleted while one is created, deletions come before what creates the
\* next stream, and starts before deletions.
InTurnWith(a, b) ==
  /\ a.cmd = "createStream" => b.cmd # "deleteStream"
  /\ a.cmd = "deleteStream" => b.cmd \notin Start

\* The stream of a kind that is due is deleted before another one of the kind is created.
NotAfter(a, b, due, c) ==
  a.cmd = "createStream" /\ b.cmd = "deleteStream" => b.stream # due[c[a.call]]

Ordered(s, R) == \A i, j \in 1 .. Len(s) : i < j => <<s[i], s[j]>> \in R
Pairs == FarMsg \X FarMsg
InOrder(s) == Ordered(s, {p \in Pairs : MayFollow(p[1], p[2])})
InTurn(s) == Ordered(s, {p \in Pairs : InTurnWith(p[1], p[2])})
Behind(s, due, c) == Ordered(s, {p \in Pairs : NotAfter(p[1], p[2], due, c)})

\* createStream is written for edge and push only.
KindsKept(f, a, c) ==
  /\ \A m \in Msgs(f) : m.cmd = "createStream" => c[m.call] \in Relay
  /\ \A m \in Msgs(f) \cup a : m.cmd \in {"connect", "custom"} => c[m.call] \notin Relay

\* A stream of a kind is created while the near end has none, by one call.
OneOfAKind ==
  \A k \in Pending :
    calls[k] \in Relay => /\ held[calls[k]] = 0
                          /\ \A j \in Pending : calls[j] = calls[k] => j = k

\* The far end does not play where it publishes, and will not.
Apart(f) ==
  /\ play_stream_id # 0 => play_stream_id # publish_stream_id
  /\ \A m \in Msgs(f), r \in Relay :
       m.cmd = StartCmd(r) => m.stream # 0 /\ m.stream # Far(Other(r))

\* The streams to start and to delete on the way to the far end, and those created on
\* the way back.
Starts(f, r) == {m.stream : m \in {x \in Msgs(f) : x.cmd = StartCmd(r)}}
Undone(f) == {m.stream : m \in {x \in Msgs(f) : x.cmd = "deleteStream"}}
Made(n, c, r) == {m.stream : m \in {x \in Msgs(n) : c[x.call] = r}}

One(b) == IF b THEN 1 ELSE 0

\* The ids in use (0: none) and the flag after d deletions at the far end.
Level(e, p, flag, d) ==
  LET left == flag + 2 * (One(e = 0) + One(p = 0)) IN
  /\ d \in 0 .. 2
  /\ e # 0 => e # p
  /\ d = 0 => flag >= 0 /\ e <= flag /\ p <= flag /\ flag + One(e = 0) + One(p = 0) <= 2
  /\ d = 1 => flag >= 0 /\ e <= flag + 1 /\ p <= flag + 1 /\ left <= 4
  /\ d = 2 => flag >= -1 /\ left <= 5

\* With the streams of both kinds, those the near end holds and its deletions: the far
\* end has not come to the deletions of what is due but not held any more.
LevelOf(due, new, holds, n, flag) ==
  Level(due["edge"] + new["edge"], due["push"] + new["push"], flag,
        n - One(holds["edge"] # due["edge"]) - One(holds["push"] # due["push"]))

\* With streams created and deleted in turn, two of them deleted at most, and ids for
\* those: the streams are below the flag of createStream.
Few == MaxStreamId >= 4 /\ deletes <= 2 /\ ~overlapped
Below(due, new) ==
  /\ InTurn(wire["far"])
  /\ \A r \in Relay :
       /\ Far(r) # due[r] => due[r] <= stream_id_flag
       /\ new[r] # 0 => new[r] <= stream_id_flag /\ Undone(wire["far"]) = {}
  /\ LevelOf(due, new, held, deletes, stream_id_flag)

\* due: the stream of each kind that the far end has, or is told to start.  new: the
\* stream of each kind that was created and whose answer is on its way.  The near end
\* holds what is due, unless it has told the far end to delete it.
View(due, new) ==
  LET f == wire["far"]
      n == wire["near"]
  IN
  /\ \A r \in Relay :
       /\ Far(r) \in {0, due[r]} /\ held[r] \in {0, due[r]}
       /\ due[r] = 0 \/ new[r] = 0
       /\ new[r] < Modulus
       /\ due[r] + new[r] # 0 => due[r] + new[r] # due[Other(r)] + new[Other(r)]
       /\ Starts(f, r) = IF Far(r) # due[r] THEN {due[r]} ELSE {}
       /\ Made(n, calls, r) = IF new[r] # 0 THEN {new[r]} ELSE {}
  /\ Undone(f) = {due[r] : r \in {x \in Relay : held[x] # due[x]}}
  /\ Behind(f, due, calls)
  /\ Few => Below(due, new)

Linked ==
  Open("near") /\ Open("far") => \E due, new \in [Relay -> Nat] : View(due, new)

RelayInv ==
  /\ InOrder(wire["far"]) /\ KindsKept(wire["far"], asked, calls)
  /\ OneOfAKind /\ Apart(wire["far"]) /\ Linked

\* A sequence is its first message and the rest.
LEMMA TailMsgs ==
  ASSUME NEW S, NEW s \in Seq(S), s # <<>>
  PROVE  Msgs(s) = Msgs(Tail(s)) \cup {Head(s)}
<1> DEFINE t == Tail(s)
<1>1. /\ Head(s) = s[1] /\ Len(s) \in Nat /\ Len(s) # 0 /\ Len(t) = Len(s) - 1
      /\ \A i \in 1 .. Len(t) : t[i] = s[i + 1]
  BY HeadTailProperties, EmptySeq, LenProperties
<1> HIDE DEF t
<1>2. ASSUME NEW x \in Msgs(t) PROVE x \in Msgs(s)
  BY <1>1 DEF Msgs
<1>3. ASSUME NEW x \in Msgs(s) PROVE x = Head(s) \/ x \in Msgs(t)
  <2>1. PICK i \in 1 .. Len(s) : x = s[i]
    BY DEF Msgs
  <2>2. CASE i = 1
    BY <1>1, <2>1, <2>2
  <2>3. CASE i # 1
    <3>1. i - 1 \in 1 .. Len(t) /\ t[i - 1] = s[(i - 1) + 1] /\ (i - 1) + 1 = i
      BY <1>1, <2>3
    <3> QED
      BY <2>1, <3>1 DEF Msgs
  <2> QED
    BY <2>2, <2>3
<1>4. Head(s) \in Msgs(s)
  <2>1. 1 \in 1 .. Len(s)
    BY <1>1
  <2> QED
    BY <1>1, <2>1 DEF Msgs
<1> QED
  BY <1>2, <1>3, <1>4 DEF t

\* A message is written.
LEMMA WrittenMsgs ==
  ASSUME NEW f \in Seq(FarMsg), NEW m \in FarMsg
  PROVE  /\ f \o <<m>> \in Seq(FarMsg)
         /\ Msgs(f \o <<m>>) = Msgs(f) \cup {m}
<1> DEFINE t == f \o <<m>>
<1>1. <<m>> \in Seq(FarMsg) /\ Len(<<m>>) = 1 /\ <<m>>[1] = m
  OBVIOUS
<1>2. /\ t \in Seq(FarMsg) /\ Len(t) = Len(f) + 1 /\ Len(f) \in Nat
      /\ \A i \in 1 .. Len(f) + 1 : t[i] = IF i <= Len(f) THEN f[i] ELSE m
  <2>1. /\ t \in Seq(FarMsg) /\ Len(t) = Len(f) + Len(<<m>>)
        /\ \A i \in 1 .. Len(f) + Len(<<m>>) :
             t[i] = IF i <= Len(f) THEN f[i] ELSE <<m>>[i - Len(f)]
    BY <1>1, ConcatProperties
  <2>2. Len(f) \in Nat
    BY LenProperties
  <2> QED
    BY <1>1, <2>1, <2>2
<1> HIDE DEF t
<1>3. ASSUME NEW x \in Msgs(t) PROVE x \in Msgs(f) \cup {m}
  BY <1>2 DEF Msgs
<1>4. ASSUME NEW x \in Msgs(f) PROVE x \in Msgs(t)
  BY <1>2 DEF Msgs
<1>5. Len(f) + 1 \in 1 .. Len(t) /\ t[Len(f) + 1] = m
  BY <1>2
<1>6. m \in Msgs(t)
  BY <1>5 DEF Msgs
<1> QED
  BY <1>2, <1>3, <1>4, <1>6 DEF t

\* What is ordered stays so when the first message is taken.
LEMMA TailOrdered ==
  ASSUME NEW f \in Seq(FarMsg), f # <<>>, NEW R, Ordered(f, R)
  PROVE  /\ Ordered(Tail(f), R)
         /\ \A x \in Msgs(Tail(f)) : <<Head(f), x>> \in R
<1> DEFINE t == Tail(f)
<1>1. /\ Head(f) = f[1] /\ Len(f) \in Nat /\ Len(f) # 0
      /\ Len(t) = Len(f) - 1
      /\ \A i \in 1 .. Len(t) : t[i] = f[i + 1]
  BY HeadTailProperties, EmptySeq, LenProperties
<1> HIDE DEF t
<1>2. Ordered(t, R)
  <2> SUFFICES ASSUME NEW i \in 1 .. Len(t), NEW j \in 1 .. Len(t), i < j
               PROVE  <<t[i], t[j]>> \in R
    BY DEF Ordered
  <2>1. i + 1 \in 1 .. Len(f) /\ j + 1 \in 1 .. Len(f) /\ i + 1 < j + 1
    BY <1>1
  <2> QED
    BY <1>1, <2>1 DEF Ordered
<1>3. ASSUME NEW x \in Msgs(t) PROVE <<Head(f), x>> \in R
  <2>1. PICK i \in 1 .. Len(t) : x = t[i]
    BY DEF Msgs
  <2>2. 1 \in 1 .. Len(f) /\ i + 1 \in 1 .. Len(f) /\ 1 < i + 1 /\ x = f[i + 1]
    BY <1>1, <2>1
  <2> QED
    BY <1>1, <2>2 DEF Ordered
<1> QED
  BY <1>2, <1>3 DEF t

\* A message is written that may stand behind all others.
LEMMA AppendOrdered ==
  ASSUME NEW f \in Seq(FarMsg), NEW m \in FarMsg, NEW R, Ordered(f, R),
         \A x \in Msgs(f) : <<x, m>> \in R
  PROVE  Ordered(f \o <<m>>, R)
<1> DEFINE t == f \o <<m>>
<1>1. <<m>> \in Seq(FarMsg) /\ Len(<<m>>) = 1 /\ <<m>>[1] = m
  OBVIOUS
<1>2. /\ Len(t) = Len(f) + 1 /\ Len(f) \in Nat
      /\ \A i \in 1 .. Len(f) + 1 : t[i] = IF i <= Len(f) THEN f[i] ELSE m
  <2>1. /\ Len(t) = Len(f) + Len(<<m>>)
        /\ \A i \in 1 .. Len(f) + Len(<<m>>) :
             t[i] = IF i <= Len(f) THEN f[i] ELSE <<m>>[i - Len(f)]
    BY <1>1, ConcatProperties
  <2>2. Len(f) \in Nat
    BY LenProperties
  <2> QED
    BY <1>1, <2>1, <2>2
<1> HIDE DEF t
<1>3. ASSUME NEW i \in 1 .. Len(t), NEW j \in 1 .. Len(t), i < j
      PROVE  <<t[i], t[j]>> \in R
  <2>1. i \in 1 .. Len(f) /\ t[i] = f[i] /\ f[i] \in Msgs(f)
    BY <1>2, <1>3 DEF Msgs
  <2>2. CASE j <= Len(f)
    BY <1>2, <1>3, <2>1, <2>2 DEF Ordered
  <2>3. CASE j = Len(f) + 1
    BY <1>2, <2>1, <2>3
  <2> QED
    BY <1>2, <2>2, <2>3
<1>4. Ordered(t, R)
  BY <1>3 DEF Ordered
<1> QED
  BY <1>4 DEF t

\* What is ordered one way is ordered another way, if its messages allow it.
LEMMA Reordered ==
  ASSUME NEW f \in Seq(FarMsg), NEW R, NEW S, Ordered(f, R),
         \A x, y \in Msgs(f) : <<x, y>> \in R => <<x, y>> \in S
  PROVE  Ordered(f, S)
<1> SUFFICES ASSUME NEW i \in 1 .. Len(f), NEW j \in 1 .. Len(f), i < j
             PROVE  <<f[i], f[j]>> \in S
  BY DEF Ordered
<1>1. f[i] \in Msgs(f) /\ f[j] \in Msgs(f) /\ <<f[i], f[j]>> \in R
  BY DEF Ordered, Msgs
<1> QED
  BY <1>1

\* The messages of a sequence are messages.
LEMMA MsgsOf ==
  ASSUME NEW f \in Seq(FarMsg)
  PROVE  \A x \in Msgs(f) : x \in FarMsg
BY DEF Msgs

\* The first message is taken.
LEMMA TailInOrder ==
  ASSUME NEW f \in Seq(FarMsg), f # <<>>, InOrder(f)
  PROVE  /\ InOrder(Tail(f))
         /\ \A x \in Msgs(Tail(f)) : MayFollow(Head(f), x)
         /\ Msgs(f) = Msgs(Tail(f)) \cup {Head(f)}
         /\ Head(f) \in FarMsg
<1>1. Head(f) \in FarMsg /\ Tail(f) \in Seq(FarMsg)
  BY HeadTailProperties
<1> DEFINE R == {p \in Pairs : MayFollow(p[1], p[2])}
<1>2. Ordered(f, R)
  BY DEF InOrder
<1> HIDE DEF R
<1>3. Ordered(Tail(f), R) /\ \A x \in Msgs(Tail(f)) : <<Head(f), x>> \in R
  BY <1>2, TailOrdered
<1>4. InOrder(Tail(f))
  BY <1>3 DEF InOrder, R
<1>5. \A x \in Msgs(Tail(f)) : MayFollow(Head(f), x)
  BY <1>3 DEF R
<1> QED
  BY <1>1, <1>4, <1>5, TailMsgs

LEMMA TailInTurn ==
  ASSUME NEW f \in Seq(FarMsg), f # <<>>, InTurn(f)
  PROVE  /\ InTurn(Tail(f))
         /\ \A x \in Msgs(Tail(f)) : InTurnWith(Head(f), x)
<1> DEFINE R == {p \in Pairs : InTurnWith(p[1], p[2])}
<1>2. Ordered(f, R)
  BY DEF InTurn
<1> HIDE DEF R
<1>3. Ordered(Tail(f), R) /\ \A x \in Msgs(Tail(f)) : <<Head(f), x>> \in R
  BY <1>2, TailOrdered
<1>4. InTurn(Tail(f))
  BY <1>3 DEF InTurn, R
<1>5. \A x \in Msgs(Tail(f)) : InTurnWith(Head(f), x)
  BY <1>3 DEF R
<1> QED
  BY <1>4, <1>5

LEMMA TailBehind ==
  ASSUME NEW f \in Seq(FarMsg), f # <<>>, NEW due, NEW c, Behind(f, due, c)
  PROVE  /\ Behind(Tail(f), due, c)
         /\ \A x \in Msgs(Tail(f)) : NotAfter(Head(f), x, due, c)
<1> DEFINE R == {p \in Pairs : NotAfter(p[1], p[2], due, c)}
<1>2. Ordered(f, R)
  BY DEF Behind
<1> HIDE DEF R
<1>3. Ordered(Tail(f), R) /\ \A x \in Msgs(Tail(f)) : <<Head(f), x>> \in R
  BY <1>2, TailOrdered
<1>4. Behind(Tail(f), due, c)
  BY <1>3 DEF Behind, R
<1>5. \A x \in Msgs(Tail(f)) : NotAfter(Head(f), x, due, c)
  BY <1>3 DEF R
<1> QED
  BY <1>4, <1>5

\* A message that may follow all others is written.
LEMMA AppendInOrder ==
  ASSUME NEW f \in Seq(FarMsg), NEW m \in FarMsg, InOrder(f),
         \A x \in Msgs(f) : MayFollow(x, m)
  PROVE  /\ InOrder(f \o <<m>>)
         /\ Msgs(f \o <<m>>) = Msgs(f) \cup {m}
         /\ f \o <<m>> \in Seq(FarMsg)
<1> DEFINE R == {p \in Pairs : MayFollow(p[1], p[2])}
<1>1. Ordered(f, R) /\ \A x \in Msgs(f) : <<x, m>> \in R
  BY MsgsOf DEF InOrder, Pairs
<1> HIDE DEF R
<1>2. Ordered(f \o <<m>>, R)
  BY <1>1, AppendOrdered
<1>3. InOrder(f \o <<m>>)
  BY <1>2 DEF InOrder, R
<1> QED
  BY <1>3, WrittenMsgs

LEMMA AppendInTurn ==
  ASSUME NEW f \in Seq(FarMsg), NEW m \in FarMsg, InTurn(f),
         \A x \in Msgs(f) : InTurnWith(x, m)
  PROVE  InTurn(f \o <<m>>)
<1> DEFINE R == {p \in Pairs : InTurnWith(p[1], p[2])}
<1>1. Ordered(f, R) /\ \A x \in Msgs(f) : <<x, m>> \in R
  BY MsgsOf DEF InTurn, Pairs
<1> HIDE DEF R
<1>2. Ordered(f \o <<m>>, R)
  BY <1>1, AppendOrdered
<1> QED
  BY <1>2 DEF InTurn, R

LEMMA AppendBehind ==
  ASSUME NEW f \in Seq(FarMsg), NEW m \in FarMsg, NEW due, NEW c, Behind(f, due, c),
         \A x \in Msgs(f) : NotAfter(x, m, due, c)
  PROVE  Behind(f \o <<m>>, due, c)
<1> DEFINE R == {p \in Pairs : NotAfter(p[1], p[2], due, c)}
<1>1. Ordered(f, R) /\ \A x \in Msgs(f) : <<x, m>> \in R
  BY MsgsOf DEF Behind, Pairs
<1> HIDE DEF R
<1>2. Ordered(f \o <<m>>, R)
  BY <1>1, AppendOrdered
<1> QED
  BY <1>2 DEF Behind, R

\* No deletion on its way becomes one of a stream that is due where it was not.
NoneDue(f, due, c, due2, c2) ==
  \A x, y \in Msgs(f) :
    x.cmd = "createStream" /\ y.cmd = "deleteStream" /\ y.stream # due[c[x.call]]
      => y.stream # due2[c2[x.call]]

\* Behind is about what is due when a stream of a kind on its way was asked for.
LEMMA BehindKept ==
  ASSUME NEW f \in Seq(FarMsg), NEW due, NEW c, NEW due2, NEW c2, Behind(f, due, c),
         NoneDue(f, due, c, due2, c2)
  PROVE  Behind(f, due2, c2)
<1> DEFINE R == {p \in Pairs : NotAfter(p[1], p[2], due, c)}
           S == {p \in Pairs : NotAfter(p[1], p[2], due2, c2)}
<1>1. \A x, y \in Msgs(f) : <<x, y>> \in R => <<x, y>> \in S
  <2> SUFFICES ASSUME NEW x \in Msgs(f), NEW y \in Msgs(f), NotAfter(x, y, due, c)
               PROVE  NotAfter(x, y, due2, c2)
    OBVIOUS
  <2> QED
    BY DEF NotAfter, NoneDue
<1>2. Ordered(f, R)
  BY DEF Behind
<1> HIDE DEF R, S
<1>3. Ordered(f, S)
  BY <1>1, <1>2, Reordered
<1> QED
  BY <1>3 DEF Behind, S

\* What taking a message does to the streams on their way to the far end.
LEMMA TailStreams ==
  ASSUME NEW f \in Seq(FarMsg), f # <<>>, InOrder(f), NEW m, m = Head(f)
  PROVE  /\ m.cmd = "deleteStream" =>
              /\ m.stream \in Undone(f) /\ Undone(Tail(f)) = Undone(f) \ {m.stream}
              /\ \A r \in Relay : m.stream \notin Starts(f, r)
         /\ m.cmd # "deleteStream" => Undone(Tail(f)) = Undone(f)
         /\ \A r \in Relay :
              IF m.cmd = StartCmd(r)
              THEN Starts(f, r) = {m.stream} /\ Starts(Tail(f), r) = {}
              ELSE Starts(Tail(f), r) = Starts(f, r)
<1>1. /\ \A x \in Msgs(Tail(f)) : MayFollow(m, x)
      /\ Msgs(f) = Msgs(Tail(f)) \cup {m}
  BY TailInOrder
<1>2. \A r \in Relay : StartCmd(r) \in Start /\ StartCmd(r) # "deleteStream"
  BY DEF StartCmd, Start
<1>4. ASSUME m.cmd = "deleteStream"
      PROVE  /\ m.stream \in Undone(f) /\ Undone(Tail(f)) = Undone(f) \ {m.stream}
             /\ \A r \in Relay : m.stream \notin Starts(f, r)
  <2>1. \A x \in Msgs(Tail(f)) : x.cmd \in Start => x.stream # m.stream
    BY <1>1, <1>4 DEF MayFollow
  <2>2. \A x \in Msgs(Tail(f)) : x.cmd = "deleteStream" => x.stream # m.stream
    BY <1>1, <1>4 DEF MayFollow
  <2>3. \A r \in Relay : m.stream \notin Starts(f, r)
    BY <1>1, <1>2, <1>4, <2>1 DEF Starts
  <2>4. m.stream \in Undone(f) /\ Undone(Tail(f)) = Undone(f) \ {m.stream}
    BY <1>1, <1>4, <2>2 DEF Undone
  <2> QED
    BY <2>3, <2>4
<1>5. m.cmd # "deleteStream" => Undone(Tail(f)) = Undone(f)
  BY <1>1 DEF Undone
<1>6. ASSUME NEW r \in Relay
      PROVE  IF m.cmd = StartCmd(r)
             THEN Starts(f, r) = {m.stream} /\ Starts(Tail(f), r) = {}
             ELSE Starts(Tail(f), r) = Starts(f, r)
  <2>1. CASE m.cmd = StartCmd(r)
    <3>1. \A x \in Msgs(Tail(f)) : x.cmd # StartCmd(r)
      BY <1>1, <1>2, <2>1 DEF MayFollow
    <3> QED
      BY <1>1, <2>1, <3>1 DEF Starts
  <2>2. CASE m.cmd # StartCmd(r)
    BY <1>1, <2>2 DEF Starts
  <2> QED
    BY <2>1, <2>2
<1> QED
  BY <1>4, <1>5, <1>6

\* What it says of them when streams are created and deleted in turn.
LEMMA TurnStreams ==
  ASSUME NEW f \in Seq(FarMsg), f # <<>>, InTurn(f), NEW m, m = Head(f)
  PROVE  /\ m.cmd = "createStream" => Undone(f) = {}
         /\ m.cmd = "deleteStream" => \A r \in Relay : Starts(f, r) = {}
<1>1. /\ \A x \in Msgs(Tail(f)) : InTurnWith(m, x)
      /\ Msgs(f) = Msgs(Tail(f)) \cup {m}
  BY TailInTurn, TailMsgs
<1>2. \A r \in Relay : StartCmd(r) \in Start /\ StartCmd(r) # "deleteStream"
  BY DEF StartCmd, Start
<1>3. m.cmd = "createStream" => Undone(f) = {}
  BY <1>1 DEF Undone, InTurnWith
<1>4. ASSUME m.cmd = "deleteStream", NEW r \in Relay PROVE Starts(f, r) = {}
  BY <1>1, <1>2, <1>4 DEF Starts, InTurnWith
<1> QED
  BY <1>3, <1>4

\* What writing a message does to them.
LEMMA AppendStreams ==
  ASSUME NEW f, NEW t, NEW m, Msgs(t) = Msgs(f) \cup {m}
  PROVE  /\ m.cmd = "deleteStream" => Undone(t) = Undone(f) \cup {m.stream}
         /\ m.cmd # "deleteStream" => Undone(t) = Undone(f)
         /\ \A r \in Relay :
              /\ m.cmd = StartCmd(r) => Starts(t, r) = Starts(f, r) \cup {m.stream}
              /\ m.cmd # StartCmd(r) => Starts(t, r) = Starts(f, r)
<1>1. m.cmd = "deleteStream" => Undone(t) = Undone(f) \cup {m.stream}
  BY DEF Undone
<1>2. m.cmd # "deleteStream" => Undone(t) = Undone(f)
  BY DEF Undone
<1>3. ASSUME NEW r \in Relay
      PROVE  /\ m.cmd = StartCmd(r) => Starts(t, r) = Starts(f, r) \cup {m.stream}
             /\ m.cmd # StartCmd(r) => Starts(t, r) = Starts(f, r)
  BY DEF Starts
<1> QED
  BY <1>1, <1>2, <1>3

\* Level says the same of both kinds.
LEMMA LevelAt ==
  ASSUME NEW r \in Relay, NEW due \in [Relay -> Nat], NEW new \in [Relay -> Nat],
         NEW holds \in [Relay -> Int], NEW n \in Int, NEW flag \in Int
  PROVE  LevelOf(due, new, holds, n, flag) <=>
           Level(due[r] + new[r], due[Other(r)] + new[Other(r)], flag,
                 n - One(holds[r] # due[r]) - One(holds[Other(r)] # due[Other(r)]))
<1>1. CASE r = "edge"
  BY <1>1 DEF LevelOf, Other
<1>2. CASE r = "push"
  <2>1. /\ due["edge"] \in Nat /\ due["push"] \in Nat
        /\ new["edge"] \in Nat /\ new["push"] \in Nat
    BY DEF Relay
  <2> DEFINE e == due["edge"] + new["edge"]
             p == due["push"] + new["push"]
             x == One(holds["edge"] # due["edge"])
             y == One(holds["push"] # due["push"])
  <2>2. e \in Nat /\ p \in Nat /\ x \in Nat /\ y \in Nat
    BY <2>1 DEF One
  <2> HIDE DEF e, p, x, y
  <2>3. n - x - y = n - y - x
    BY <2>2
  <2>4. Level(e, p, flag, n - x - y) <=> Level(p, e, flag, n - x - y)
    BY <2>2 DEF Level, One
  <2> QED
    BY <1>2, <2>3, <2>4 DEF LevelOf, Other, e, p, x, y
<1> QED
  BY <1>1, <1>2 DEF Relay

\* createStream answers an id that is not in use, created or due, above all that were
\* created and not started yet.
LEMMA LevelCreate ==
  ASSUME SessionAssumption, MaxStreamId >= 4, NEW p \in Nat, NEW flag \in Int, NEW d,
         Level(0, p, flag, d), NEW u \in {0, p}, u = p \/ p <= flag,
         \A id : InUse(id) <=> id \in {0, u},
         NEW i, i = FreeFrom(flag + 1)
  PROVE  i \in Nat /\ i # 0 /\ i > flag /\ i <= 5 /\ i # p /\ Level(i, p, i, d)
<1>1. /\ d \in 0 .. 2 /\ flag >= -1
      /\ flag + 2 + 2 * One(p = 0) <= 5
      /\ d # 2 => flag >= 0
  BY DEF Level, One
<1>2. flag + 1 \in 0 .. 4 /\ MaxStreamId \in Int
  BY <1>1 DEF One, SessionAssumption
<1>3. Skipped(flag + 1) = IF flag + 1 \in {0, u} THEN flag + 2 ELSE flag + 1
  BY <1>2 DEF Skipped
<1>4. i = IF flag = -1 THEN IF u = 1 THEN 2 ELSE 1
          ELSE IF flag + 1 = u THEN flag + 2 ELSE flag + 1
  <2>1. i = Skipped(Skipped(flag + 1))
    BY DEF FreeFrom
  <2>2. CASE flag = -1
    <3>1. Skipped(flag + 1) = 1
      BY <1>3, <2>2
    <3>2. Skipped(1) = IF u = 1 THEN 2 ELSE 1
      BY <1>2 DEF Skipped
    <3> QED
      BY <2>1, <2>2, <3>1, <3>2
  <2>3. CASE flag # -1 /\ flag + 1 = u
    <3>1. Skipped(flag + 1) = flag + 2
      BY <1>3, <2>3
    <3>2. flag + 2 \notin {0, u}
      BY <1>2, <2>3
    <3>3. Skipped(flag + 2) = flag + 2
      BY <3>2 DEF Skipped
    <3> QED
      BY <2>1, <2>3, <3>1, <3>3
  <2>4. CASE flag # -1 /\ flag + 1 # u
    <3>1. flag + 1 \notin {0, u}
      BY <1>2, <2>4
    <3>2. Skipped(flag + 1) = flag + 1
      BY <3>1 DEF Skipped
    <3> QED
      BY <2>1, <2>4, <3>2
  <2> QED
    BY <2>2, <2>3, <2>4
<1>5. i \in Nat /\ i # 0 /\ i > flag /\ i <= 5
  BY <1>2, <1>4
<1>6. i # p
  BY <1>2, <1>4
<1>7. Level(i, p, i, d)
  <2>1. CASE d = 0
    BY <1>2, <1>4, <1>5, <1>6, <2>1 DEF Level, One
  <2>2. CASE d = 1
    BY <1>2, <1>4, <1>5, <1>6, <2>2 DEF Level, One
  <2>3. CASE d = 2
    BY <1>2, <1>4, <1>5, <1>6, <2>3 DEF Level, One
  <2> QED
    BY <1>1, <2>1, <2>2, <2>3
<1> QED
  BY <1>5, <1>6, <1>7

\* A deletion takes the id off the flag.
LEMMA LevelDelete ==
  ASSUME NEW s \in Nat, s # 0, NEW p \in Nat, NEW flag \in Int, NEW d, d # 2,
         Level(s, p, flag, d)
  PROVE  Level(0, p, flag - s, d + 1)
<1>1. d \in {0, 1}
  BY DEF Level
<1>2. CASE d = 0
  BY <1>2 DEF Level, One
<1>3. CASE d = 1
  BY <1>3 DEF Level, One
<1> QED
  BY <1>1, <1>2, <1>3

\* What a step that concerns no stream leaves as it is.
StreamsKept ==
  /\ UNCHANGED <<held, deletes, overlapped, stream_id_flag, play_stream_id,
                 publish_stream_id>>
  /\ Undone(wire'["far"]) = Undone(wire["far"])
  /\ \A r \in Relay :
       /\ Starts(wire'["far"], r) = Starts(wire["far"], r)
       /\ Made(wire'["near"], calls', r) = Made(wire["near"], calls, r)
  /\ InTurn(wire["far"]) => InTurn(wire'["far"])
  /\ \A due \in [Relay -> Nat] :
       Behind(wire["far"], due, calls) => Behind(wire'["far"], due, calls')

LEMMA ViewKept ==
  ASSUME NEW due \in [Relay -> Nat], NEW new \in [Relay -> Nat], View(due, new), StreamsKept
  PROVE  View(due, new)'
<1>1. \A r \in Relay : Far(r)' = Far(r)
  BY DEF StreamsKept, Far
<1>2. Few' => Below(due, new)'
  <2>1. Few' => Few
    BY DEF Few, StreamsKept
  <2> SUFFICES ASSUME Below(due, new) PROVE Below(due, new)'
    BY <2>1 DEF View
  <2> QED
    BY <1>1 DEF Below, StreamsKept
<1> QED
  BY <1>1, <1>2 DEF View, StreamsKept

\* The two kinds.
LEMMA BothKinds ==
  ASSUME NEW r \in Relay
  PROVE  /\ Other(r) \in Relay /\ Other(r) # r /\ Other(Other(r)) = r
         /\ Relay = {r, Other(r)}
         /\ StartCmd(r) # StartCmd(Other(r))
         /\ StartCmd(r) \in Start
BY DEF Relay, Other, StartCmd, Start

\* The streams of the two kinds are different ones.
LEMMA KindsDiffer ==
  ASSUME NEW due, NEW new, View(due, new), NEW r \in Relay, due[r] + new[r] # 0
  PROVE  due[r] + new[r] # due[Other(r)] + new[Other(r)]
BY Zenon DEF View

\* What a deletion that is on its way shows: the stream is due, and not held any more.
LEMMA UndoneDue ==
  ASSUME NEW due \in [Relay -> Nat], NEW new \in [Relay -> Nat], View(due, new),
         NEW r \in Relay
  PROVE  held[r] # due[r] <=> due[r] \in Undone(wire["far"]) /\ due[r] # 0
<1>1. \A x \in Relay : held[x] \in {0, due[x]}
  BY DEF View
<1>2. Undone(wire["far"]) = {due[x] : x \in {y \in Relay : held[y] # due[y]}}
  BY DEF View
<1>3. held[r] # due[r] => due[r] \in Undone(wire["far"]) /\ due[r] # 0
  BY <1>1, <1>2
<1>4. ASSUME due[r] \in Undone(wire["far"]), due[r] # 0 PROVE held[r] # due[r]
  <2>1. PICK x \in Relay : held[x] # due[x] /\ due[x] = due[r]
    BY <1>2, <1>4
  <2>2. CASE x = r
    BY <2>1, <2>2
  <2>3. CASE x # r
    <3>1. x = Other(r)
      BY <2>3, BothKinds
    <3>2. PICK a, b, c, d : a = due[r] /\ b = new[r] /\ c = due[x] /\ d = new[x]
      OBVIOUS
    <3>3. a + b # 0 => a + b # c + d
      BY <3>1, <3>2 DEF View
    <3>4. a \in Nat /\ a # 0 /\ a = c /\ b = 0 /\ d = 0
      BY <1>4, <2>1, <3>2 DEF View
    <3> QED
      BY <3>3, <3>4
  <2> QED
    BY <2>2, <2>3
<1> QED
  BY <1>3, <1>4

\* In turn, createStream answers an id that no stream of the session has.
LEMMA NewId ==
  ASSUME SessionAssumption, SessionInv, deletes \in Int,
         NEW due \in [Relay -> Nat], NEW new \in [Relay -> Nat], View(due, new),
         NEW r \in Relay, due[r] = 0, new[r] = 0, Undone(wire["far"]) = {}, Few,
         NEW i, i = FreeFrom(stream_id_flag + 1)
  PROVE  /\ i \in Nat /\ i # 0 /\ i > stream_id_flag /\ i <= 5
         /\ i # due[Other(r)] + new[Other(r)]
         /\ Level(i, due[Other(r)] + new[Other(r)], i,
                  deletes - One(held[r] # due[r]) - One(held[Other(r)] # due[Other(r)]))
<1> DEFINE o == Other(r)
<1>1. o \in Relay /\ o # r /\ Relay = {r, o}
  BY BothKinds
<1>2. Far(r) = 0 /\ held \in [Relay -> Int] /\ stream_id_flag \in Int
  BY DEF View, SessionInv, Types
<1>3. /\ Far(o) \in {0, due[o]} /\ due[o] \in Nat /\ new[o] \in Nat
      /\ due[o] = 0 \/ new[o] = 0
      /\ Far(o) # due[o] => due[o] <= stream_id_flag
      /\ new[o] # 0 => new[o] <= stream_id_flag
  BY <1>1 DEF View, Below
<1> DEFINE p == due[o] + new[o]
           d == deletes - One(held[r] # due[r]) - One(held[o] # due[o])
<1>4. Level(0, p, stream_id_flag, d)
  <2>1. LevelOf(due, new, held, deletes, stream_id_flag)
    BY DEF View, Below
  <2>2. Level(due[r] + new[r], p, stream_id_flag, d)
    BY <1>2, <2>1, LevelAt
  <2>3. due[r] + new[r] = 0
    OBVIOUS
  <2> QED
    BY <2>2, <2>3
<1>5. p \in Nat /\ Far(o) \in {0, p} /\ (Far(o) = p \/ p <= stream_id_flag)
  <2>1. CASE due[o] = 0
    BY <1>3, <2>1
  <2>2. CASE due[o] # 0
    BY <1>3, <2>2
  <2> QED
    BY <2>1, <2>2
<1>6. \A id : InUse(id) <=> id \in {0, Far(o)}
  <2>1. CASE r = "edge"
    BY <1>2, <2>1 DEF InUse, Far, Other
  <2>2. CASE r = "push"
    BY <1>2, <2>2 DEF InUse, Far, Other
  <2> QED
    BY <2>1, <2>2 DEF Relay
<1>7. MaxStreamId >= 4
  BY DEF Few
<1> HIDE DEF o, p, d
<1>8. i \in Nat /\ i # 0 /\ i > stream_id_flag /\ i <= 5 /\ i # p /\ Level(i, p, i, d)
  BY <1>2, <1>4, <1>5, <1>6, <1>7, LevelCreate
<1> QED
  BY <1>8 DEF o, p, d

\* createStream of kind r is handled, and its answer is a new id.
LEMMA ViewCreate ==
  ASSUME SessionAssumption, SessionInv, deletes \in Int,
         NEW due \in [Relay -> Nat], NEW new \in [Relay -> Nat], View(due, new),
         NEW r \in Relay, due[r] = 0, new[r] = 0, Few => Undone(wire["far"]) = {},
         UNCHANGED <<held, deletes, overlapped, play_stream_id, publish_stream_id>>,
         stream_id_flag' = FreeFrom(stream_id_flag + 1),
         stream_id_flag' \in 1 .. Modulus - 1,
         stream_id_flag' # due[Other(r)] + new[Other(r)],
         Undone(wire'["far"]) = Undone(wire["far"]),
         \A x \in Relay : Starts(wire'["far"], x) = Starts(wire["far"], x),
         Made(wire'["near"], calls', r) = {stream_id_flag'},
         Made(wire'["near"], calls', Other(r)) = Made(wire["near"], calls, Other(r)),
         InTurn(wire["far"]) => InTurn(wire'["far"]),
         Behind(wire'["far"], due, calls')
  PROVE  \E new2 \in [Relay -> Nat] : View(due, new2)'
<1> DEFINE o == Other(r)
<1>1. o \in Relay /\ o # r /\ Relay = {r, o} /\ Other(o) = r
  BY BothKinds
<1>2. PICK i : i = stream_id_flag'
  OBVIOUS
<1>3. /\ i \in Nat /\ i # 0 /\ i < Modulus /\ i # due[o] + new[o]
      /\ due[o] \in Nat /\ new[o] \in Nat
  BY <1>1, <1>2 DEF SessionAssumption
<1> HIDE DEF o
<1> DEFINE new2 == [new EXCEPT ![r] = i]
<1>4. new2 \in [Relay -> Nat] /\ new2[r] = i /\ new2[o] = new[o]
  BY <1>1, <1>3
<1> HIDE DEF new2
<1>5. \A x \in Relay : Far(x)' = Far(x)
  BY DEF Far
<1>6. Far(r) = 0 /\ held[r] = 0
  BY DEF View
<1> DEFINE Fits(x) ==
             /\ Far(x)' \in {0, due[x]} /\ held'[x] \in {0, due[x]}
             /\ due[x] = 0 \/ new2[x] = 0
             /\ new2[x] < Modulus
             /\ due[x] + new2[x] # 0 => due[x] + new2[x] # due[Other(x)] + new2[Other(x)]
             /\ Starts(wire'["far"], x) = IF Far(x)' # due[x] THEN {due[x]} ELSE {}
             /\ Made(wire'["near"], calls', x) = IF new2[x] # 0 THEN {new2[x]} ELSE {}
<1>7. \A x \in Relay : Fits(x)
  <2>1. Fits(r)
    <3>1. Starts(wire'["far"], r) = {}
      BY <1>6 DEF View
    <3>2. due[r] + new2[r] = i /\ due[o] + new2[o] = due[o] + new[o]
      BY <1>3, <1>4
    <3> QED
      BY <1>1, <1>2, <1>3, <1>4, <1>5, <1>6, <3>1, <3>2 DEF o
  <2>2. Fits(o)
    <3>1. /\ held'[o] \in {0, due[o]} /\ Far(o)' \in {0, due[o]}
          /\ due[o] = 0 \/ new2[o] = 0
          /\ new2[o] < Modulus
          /\ Starts(wire'["far"], o) = IF Far(o)' # due[o] THEN {due[o]} ELSE {}
      BY <1>1, <1>4, <1>5 DEF View
    <3>2. Made(wire'["near"], calls', o) = IF new2[o] # 0 THEN {new2[o]} ELSE {}
      BY <1>1, <1>4 DEF View, o
    <3>3. due[o] + new2[o] # due[r] + new2[r]
      BY <1>3, <1>4
    <3> QED
      BY <1>1, <3>1, <3>2, <3>3
  <2> HIDE DEF Fits
  <2> QED
    BY <1>1, <2>1, <2>2
<1>8. Undone(wire'["far"]) = {due[x] : x \in {y \in Relay : held'[y] # due[y]}}
  BY DEF View
<1>9. ASSUME Few' PROVE Below(due, new2)'
  <2>1. Few /\ Undone(wire["far"]) = {}
    BY <1>9 DEF Few
  <2>2. /\ i > stream_id_flag /\ held \in [Relay -> Int] /\ stream_id_flag \in Int
        /\ Level(i, due[o] + new[o], i,
                 deletes - One(held[r] # due[r]) - One(held[o] # due[o]))
    <3>1. held \in [Relay -> Int] /\ stream_id_flag \in Int
      BY DEF SessionInv, Types
    <3> QED
      BY <1>2, <2>1, <3>1, NewId DEF o
  <2>3. LevelOf(due, new2, held', deletes', stream_id_flag')
    <3>1. Level(due[r] + new2[r], due[o] + new2[o], i,
                deletes - One(held[r] # due[r]) - One(held[o] # due[o]))
      <4>1. due[r] + new2[r] = i /\ due[o] + new2[o] = due[o] + new[o]
        BY <1>3, <1>4
      <4> QED
        BY <2>2, <4>1
    <3>2. LevelOf(due, new2, held, deletes, i)
      BY <1>3, <1>4, <2>2, <3>1, LevelAt DEF o
    <3> QED
      BY <1>2, <3>2
  <2>4. ASSUME NEW x \in Relay
        PROVE  /\ Far(x)' # due[x] => due[x] <= stream_id_flag'
               /\ new2[x] # 0 => new2[x] <= stream_id_flag' /\ Undone(wire'["far"]) = {}
    <3>1. /\ Far(x) # due[x] => due[x] <= stream_id_flag
          /\ new[x] # 0 => new[x] <= stream_id_flag
          /\ due[x] \in Nat /\ new[x] \in Nat
      BY <2>1 DEF View, Below
    <3>2. new2[x] = new[x] \/ new2[x] = i
      BY <1>1, <1>4
    <3> QED
      BY <1>2, <1>3, <1>5, <2>1, <2>2, <3>1, <3>2
  <2>5. InTurn(wire'["far"])
    BY <2>1 DEF View, Below
  <2> QED
    BY <2>3, <2>4, <2>5 DEF Below
<1>10. View(due, new2)'
  BY <1>7, <1>8, <1>9 DEF View
<1> QED
  BY <1>4, <1>10

\* deleteStream of stream s is handled.
LEMMA ViewDelete ==
  ASSUME held \in [Relay -> Int], stream_id_flag \in Int, deletes \in Int,
         NEW due \in [Relay -> Nat], NEW new \in [Relay -> Nat], View(due, new),
         NEW s, s \in Undone(wire["far"]), Undone(wire'["far"]) = Undone(wire["far"]) \ {s},
         \A x \in Relay : s \notin Starts(wire["far"], x),
         UNCHANGED <<held, deletes, overlapped>>,
         play_stream_id' = IF s = play_stream_id THEN 0 ELSE play_stream_id,
         publish_stream_id' = IF s = publish_stream_id THEN 0 ELSE publish_stream_id,
         stream_id_flag' = stream_id_flag - (IF s = play_stream_id THEN s ELSE 0)
                                          - (IF s = publish_stream_id THEN s ELSE 0),
         \A x \in Relay : /\ Starts(wire'["far"], x) = Starts(wire["far"], x)
                          /\ Made(wire'["near"], calls', x) = Made(wire["near"], calls, x),
         InTurn(wire["far"]) =>
           InTurn(wire'["far"]) /\ \A x \in Relay : Starts(wire["far"], x) = {},
         \A d \in [Relay -> Nat] :
           (\A x \in Relay : d[x] \in {0, due[x]}) => Behind(wire'["far"], d, calls')
  PROVE  \E due2 \in [Relay -> Nat] : View(due2, new)'
<1>1. PICK r \in Relay : held[r] # due[r] /\ s = due[r]
  BY DEF View
<1> DEFINE o == Other(r)
<1>2. o \in Relay /\ o # r /\ Relay = {r, o} /\ Other(o) = r
  BY BothKinds
<1>3. /\ s \in Nat /\ s # 0 /\ held[r] = 0
      /\ due[o] \in Nat /\ new[o] \in Nat /\ \A x \in Relay : held[x] \in {0, due[x]}
  BY <1>1, <1>2 DEF View
<1>4. new[r] = 0 /\ s # due[o] + new[o] /\ (due[o] = 0 \/ new[o] = 0)
  <2>1. new[r] = 0 /\ due[r] + new[r] = s
    <3>1. new[r] = 0
      BY <1>1, <1>3 DEF View
    <3> QED
      BY <1>1, <1>3, <3>1
  <2>2. due[r] + new[r] # 0 => due[r] + new[r] # due[o] + new[o]
    BY KindsDiffer
  <2>3. due[o] = 0 \/ new[o] = 0
    BY <1>2 DEF View
  <2> QED
    BY <1>3, <2>1, <2>2, <2>3
<1>5. /\ Far(r) = s /\ Far(o) \in {0, due[o]} /\ due[o] # s
      /\ stream_id_flag' = stream_id_flag - s
      /\ Far(r)' = 0 /\ Far(o)' = Far(o)
  <2>1. Far(r) = s /\ Far(o) \in {0, due[o]}
    <3>1. s \notin Starts(wire["far"], r)
      OBVIOUS
    <3> QED
      BY <1>1, <1>2, <3>1 DEF View
  <2>2. due[o] # s
    BY <1>3, <1>4
  <2>3. CASE r = "edge"
    <3>1. play_stream_id = s /\ publish_stream_id # s
      BY <1>3, <2>1, <2>2, <2>3 DEF Far, Other
    <3> QED
      BY <1>3, <2>1, <2>2, <2>3, <3>1 DEF Far, Other
  <2>4. CASE r = "push"
    <3>1. publish_stream_id = s /\ play_stream_id # s
      BY <1>3, <2>1, <2>2, <2>4 DEF Far, Other
    <3> QED
      BY <1>3, <2>1, <2>2, <2>4, <3>1 DEF Far, Other
  <2> QED
    BY <2>3, <2>4 DEF Relay
<1> HIDE DEF o
<1> DEFINE due2 == [due EXCEPT ![r] = 0]
<1>6. due2 \in [Relay -> Nat] /\ due2[r] = 0 /\ due2[o] = due[o]
  BY <1>1, <1>2
<1>7. Behind(wire'["far"], due2, calls')
  BY <1>2, <1>6
<1> HIDE DEF due2
<1> DEFINE Fits(x) ==
             /\ Far(x)' \in {0, due2[x]} /\ held'[x] \in {0, due2[x]}
             /\ due2[x] = 0 \/ new[x] = 0
             /\ new[x] < Modulus
             /\ due2[x] + new[x] # 0 => due2[x] + new[x] # due2[Other(x)] + new[Other(x)]
             /\ Starts(wire'["far"], x) = IF Far(x)' # due2[x] THEN {due2[x]} ELSE {}
             /\ Made(wire'["near"], calls', x) = IF new[x] # 0 THEN {new[x]} ELSE {}
<1>8. \A x \in Relay : Fits(x)
  <2>1. Fits(r)
    <3>1. Starts(wire'["far"], r) = {}
      BY <1>1, <1>5 DEF View
    <3>2. Made(wire'["near"], calls', r) = {} /\ new[r] < Modulus
      BY <1>4 DEF View
    <3>3. due2[r] + new[r] = 0
      BY <1>4, <1>6
    <3> QED
      BY <1>3, <1>4, <1>5, <1>6, <3>1, <3>2, <3>3
  <2>2. Fits(o)
    <3>1. /\ held'[o] \in {0, due[o]} /\ new[o] < Modulus
          /\ Starts(wire'["far"], o) = IF Far(o)' # due[o] THEN {due[o]} ELSE {}
          /\ Made(wire'["near"], calls', o) = IF new[o] # 0 THEN {new[o]} ELSE {}
      BY <1>2, <1>5 DEF View
    <3>2. due2[r] + new[r] = 0 /\ due2[o] + new[o] = due[o] + new[o]
      BY <1>4, <1>6
    <3> QED
      BY <1>2, <1>4, <1>5, <1>6, <3>1, <3>2
  <2> HIDE DEF Fits
  <2> QED
    BY <1>2, <2>1, <2>2
<1>9. Undone(wire'["far"]) = {due2[x] : x \in {y \in Relay : held'[y] # due2[y]}}
  <2>1. Undone(wire["far"]) = {due[x] : x \in {y \in Relay : held[y] # due[y]}}
    BY DEF View
  <2>2. \A x \in Relay : held'[x] # due2[x] <=> x = o /\ held[o] # due[o]
    BY <1>2, <1>3, <1>6
  <2>3. ASSUME NEW z \in Undone(wire'["far"])
        PROVE  z \in {due2[x] : x \in {y \in Relay : held'[y] # due2[y]}}
    <3>1. PICK x \in Relay : held[x] # due[x] /\ z = due[x]
      BY <2>1
    <3>2. x = o
      BY <1>1, <1>2, <3>1
    <3> QED
      BY <1>2, <1>6, <2>2, <3>1, <3>2
  <2>4. ASSUME NEW z \in {due2[x] : x \in {y \in Relay : held'[y] # due2[y]}}
        PROVE  z \in Undone(wire'["far"])
    <3>1. z = due[o] /\ held[o] # due[o]
      BY <1>6, <2>2
    <3> QED
      BY <1>2, <1>5, <2>1, <3>1
  <2> QED
    BY <2>3, <2>4
<1>10. ASSUME Few' PROVE Below(due2, new)'
  <2>1. Few /\ Below(due, new)
    BY <1>10 DEF Few, View
  <2>2. /\ \A x \in Relay : Starts(wire["far"], x) = {}
        /\ \A x \in Relay : new[x] = 0
        /\ InTurn(wire'["far"])
    BY <2>1 DEF Below
  <2> DEFINE d == deletes - One(held[r] # due[r]) - One(held[o] # due[o])
  <2>3. Level(s, due[o], stream_id_flag, d)
    <3>1. LevelOf(due, new, held, deletes, stream_id_flag)
      BY <2>1 DEF Below
    <3>2. Level(due[r] + new[r], due[o] + new[o], stream_id_flag, d)
      BY <3>1, LevelAt DEF o
    <3>3. due[r] + new[r] = s /\ due[o] + new[o] = due[o]
      BY <1>1, <1>2, <1>3, <2>2
    <3> QED
      BY <3>2, <3>3
  <2>4. d \in Int /\ d # 2 /\ d + 1 = deletes - One(held[o] # due[o])
    <3>1. deletes <= 2
      BY <2>1 DEF Few
    <3> QED
      BY <1>1, <3>1 DEF One
  <2>5. Level(0, due[o], stream_id_flag - s, d + 1)
    <3> HIDE DEF d
    <3> QED
      BY <1>3, <2>3, <2>4, LevelDelete
  <2> HIDE DEF d
  <2>6. LevelOf(due2, new, held', deletes', stream_id_flag')
    <3>1. /\ due2[r] + new[r] = 0 /\ due2[o] + new[o] = due[o]
          /\ deletes - One(held[r] # due2[r]) - One(held[o] # due2[o]) = d + 1
      BY <1>1, <1>2, <1>3, <1>6, <2>2, <2>4 DEF One
    <3>2. stream_id_flag - s \in Int
      BY <1>3
    <3>3. LevelOf(due2, new, held, deletes, stream_id_flag - s)
      BY <1>6, <2>5, <3>1, <3>2, LevelAt DEF o
    <3> QED
      BY <1>5, <3>3
  <2>7. ASSUME NEW x \in Relay PROVE Far(x)' = due2[x]
    <3>1. Far(o) = due[o]
      BY <1>2, <2>2 DEF View
    <3> QED
      BY <1>2, <1>5, <1>6, <3>1
  <2> QED
    BY <2>2, <2>6, <2>7 DEF Below
<1>11. View(due2, new)'
  BY <1>7, <1>8, <1>9, <1>10 DEF View
<1> QED
  BY <1>6, <1>11

\* play or publish of kind r is handled: the far end comes to what is due.
LEMMA ViewStart ==
  ASSUME NEW due \in [Relay -> Nat], NEW new \in [Relay -> Nat], View(due, new),
         NEW r \in Relay, NEW s, Starts(wire["far"], r) = {s},
         UNCHANGED <<held, deletes, overlapped, stream_id_flag>>,
         Far(r)' = IF Far(r) = 0 THEN s ELSE Far(r), Far(Other(r))' = Far(Other(r)),
         Undone(wire'["far"]) = Undone(wire["far"]),
         Starts(wire'["far"], r) = {},
         Starts(wire'["far"], Other(r)) = Starts(wire["far"], Other(r)),
         \A x \in Relay : Made(wire'["near"], calls', x) = Made(wire["near"], calls, x),
         InTurn(wire["far"]) => InTurn(wire'["far"]),
         Behind(wire'["far"], due, calls')
  PROVE  View(due, new)'
<1>1. Relay = {r, Other(r)} /\ Other(r) \in Relay
  BY BothKinds
<1>2. Far(r) = 0 /\ s = due[r] /\ Far(r)' = due[r]
  BY DEF View
<1>3. ASSUME NEW x \in Relay
      PROVE  /\ Far(x)' \in {0, due[x]}
             /\ Starts(wire'["far"], x) = IF Far(x)' # due[x] THEN {due[x]} ELSE {}
             /\ Far(x)' # due[x] => Far(x) # due[x]
  <2>1. CASE x = r
    BY <1>2, <2>1
  <2>2. CASE x = Other(r)
    BY <1>1, <2>2 DEF View
  <2> QED
    BY <1>1, <2>1, <2>2
<1>4. \A x \in Relay :
        /\ held'[x] \in {0, due[x]} /\ (due[x] = 0 \/ new[x] = 0)
        /\ new[x] < Modulus
        /\ due[x] + new[x] # 0 => due[x] + new[x] # due[Other(x)] + new[Other(x)]
        /\ Made(wire'["near"], calls', x) = IF new[x] # 0 THEN {new[x]} ELSE {}
  BY DEF View
<1>5. Undone(wire'["far"]) = {due[x] : x \in {y \in Relay : held'[y] # due[y]}}
  BY DEF View
<1>6. Few' => Below(due, new)'
  <2>1. Few' => Below(due, new)
    BY DEF Few, View
  <2> SUFFICES ASSUME Below(due, new) PROVE Below(due, new)'
    BY <2>1
  <2> QED
    BY <1>3 DEF Below
<1> QED
  BY <1>3, <1>4, <1>5, <1>6 DEF View

\* The near end deletes the stream of kind r.
LEMMA ViewDeleteStream ==
  ASSUME held \in [Relay -> Int], stream_id_flag \in Int, deletes \in Int,
         NEW due \in [Relay -> Nat], NEW new \in [Relay -> Nat], View(due, new),
         NEW r \in Relay, held[r] # 0, held' = [held EXCEPT ![r] = 0],
         deletes' = deletes + 1,
         UNCHANGED <<stream_id_flag, play_stream_id, publish_stream_id>>,
         Undone(wire'["far"]) = Undone(wire["far"]) \cup {held[r]},
         \A x \in Relay : /\ Starts(wire'["far"], x) = Starts(wire["far"], x)
                          /\ Made(wire'["near"], calls', x) = Made(wire["near"], calls, x),
         ~overlapped' => /\ ~overlapped
                         /\ \A x \in Relay : Made(wire["near"], calls, x) = {}
                         /\ InTurn(wire["far"]) => InTurn(wire'["far"]),
         Behind(wire'["far"], due, calls')
  PROVE  View(due, new)'
<1> DEFINE o == Other(r)
<1>1. o \in Relay /\ o # r /\ Relay = {r, o}
  BY BothKinds
<1>2. held[r] = due[r] /\ held'[r] = 0 /\ held'[o] = held[o] /\ due[r] # 0
  BY <1>1 DEF View
<1> HIDE DEF o
<1>3. \A x \in Relay : Far(x)' = Far(x)
  BY DEF Far
<1>4. \A x \in Relay :
        /\ Far(x)' \in {0, due[x]} /\ (due[x] = 0 \/ new[x] = 0)
        /\ new[x] < Modulus
        /\ due[x] + new[x] # 0 => due[x] + new[x] # due[Other(x)] + new[Other(x)]
        /\ Starts(wire'["far"], x) = IF Far(x)' # due[x] THEN {due[x]} ELSE {}
        /\ Made(wire'["near"], calls', x) = IF new[x] # 0 THEN {new[x]} ELSE {}
  BY <1>3 DEF View
<1>5. \A x \in Relay : held'[x] \in {0, due[x]}
  BY <1>1, <1>2 DEF View
<1>6. Undone(wire'["far"]) = {due[x] : x \in {y \in Relay : held'[y] # due[y]}}
  <2>1. Undone(wire["far"]) = {due[x] : x \in {y \in Relay : held[y] # due[y]}}
    BY DEF View
  <2>2. \A x \in Relay : held'[x] # due[x] <=> x = r \/ held[x] # due[x]
    BY <1>1, <1>2
  <2> QED
    BY <1>2, <2>1, <2>2
<1>7. ASSUME Few' PROVE Below(due, new)'
  <2>1. Few /\ Below(due, new) /\ ~overlapped'
    BY <1>7 DEF Few, View
  <2>2. \A x \in Relay : new[x] = 0
    BY <2>1 DEF View
  <2>3. LevelOf(due, new, held', deletes', stream_id_flag')
    <3>1. LevelOf(due, new, held, deletes, stream_id_flag)
      BY <2>1 DEF Below
    <3>2. Level(due[r] + new[r], due[o] + new[o], stream_id_flag,
                deletes - One(held[r] # due[r]) - One(held[o] # due[o]))
      BY <3>1, LevelAt DEF o
    <3>3. /\ deletes' - One(held'[r] # due[r]) - One(held'[o] # due[o])
               = deletes - One(held[r] # due[r]) - One(held[o] # due[o])
          /\ held' \in [Relay -> Int] /\ deletes' \in Int
      BY <1>1, <1>2 DEF One
    <3>4. Level(due[r] + new[r], due[o] + new[o], stream_id_flag,
                deletes' - One(held'[r] # due[r]) - One(held'[o] # due[o]))
      BY <3>2, <3>3
    <3>5. LevelOf(due, new, held', deletes', stream_id_flag)
      BY <3>3, <3>4, LevelAt DEF o
    <3> QED
      BY <3>5
  <2>4. InTurn(wire'["far"])
    BY <2>1 DEF Below
  <2>5. \A x \in Relay : Far(x)' # due[x] => due[x] <= stream_id_flag'
    BY <1>3, <2>1 DEF Below
  <2> QED
    BY <2>2, <2>3, <2>4, <2>5 DEF Below
<1> QED
  BY <1>4, <1>5, <1>6, <1>7 DEF View

\* The near end is given the stream of kind r, holds it and has it started.
LEMMA ViewStarted ==
  ASSUME held \in [Relay -> Int], stream_id_flag \in Int, deletes \in Int,
         NEW due \in [Relay -> Nat], NEW new \in [Relay -> Nat], View(due, new),
         NEW r \in Relay, NEW s, s \in Made(wire["near"], calls, r),
         held' = [held EXCEPT ![r] = s],
         UNCHANGED <<deletes, overlapped, stream_id_flag, play_stream_id, publish_stream_id>>,
         Undone(wire'["far"]) = Undone(wire["far"]),
         Starts(wire'["far"], r) = Starts(wire["far"], r) \cup {s},
         Starts(wire'["far"], Other(r)) = Starts(wire["far"], Other(r)),
         Made(wire'["near"], calls', r) = {},
         Made(wire'["near"], calls', Other(r)) = Made(wire["near"], calls, Other(r)),
         InTurn(wire["far"]) /\ Undone(wire["far"]) = {} => InTurn(wire'["far"]),
         Behind(wire'["far"], [due EXCEPT ![r] = s], calls')
  PROVE  \E due2, new2 \in [Relay -> Nat] : View(due2, new2)'
<1> DEFINE o == Other(r)
<1>1. o \in Relay /\ o # r /\ Relay = {r, o} /\ Other(o) = r
  BY BothKinds
<1>2. new[r] = s /\ s \in Nat /\ s # 0 /\ s < Modulus /\ due[r] = 0
  <2>1. Made(wire["near"], calls, r) = IF new[r] # 0 THEN {new[r]} ELSE {}
    BY DEF View
  <2>2. new[r] = s /\ s # 0
    BY <2>1
  <2>3. (due[r] = 0 \/ new[r] = 0) /\ new[r] < Modulus
    BY DEF View
  <2> QED
    BY <2>2, <2>3
<1>3. Far(r) = 0 /\ Starts(wire["far"], r) = {} /\ held[r] = 0
  BY <1>2 DEF View
<1> DEFINE due2 == [due EXCEPT ![r] = s]
           new2 == [new EXCEPT ![r] = 0]
<1>4. /\ due2 \in [Relay -> Nat] /\ due2[r] = s /\ due2[o] = due[o]
      /\ new2 \in [Relay -> Nat] /\ new2[r] = 0 /\ new2[o] = new[o]
      /\ held' \in [Relay -> Int] /\ held'[r] = s /\ held'[o] = held[o]
      /\ due[o] \in Nat /\ new[o] \in Nat
  BY <1>1, <1>2
<1>5. Behind(wire'["far"], due2, calls')
  OBVIOUS
<1> HIDE DEF o, due2, new2
<1>6. \A x \in Relay : Far(x)' = Far(x)
  BY DEF Far
<1>7. due2[r] + new2[r] = due[r] + new[r] /\ due2[o] + new2[o] = due[o] + new[o]
  BY <1>2, <1>4
<1> DEFINE Fits(x) ==
             /\ Far(x)' \in {0, due2[x]} /\ held'[x] \in {0, due2[x]}
             /\ due2[x] = 0 \/ new2[x] = 0
             /\ new2[x] < Modulus
             /\ due2[x] + new2[x] # 0 => due2[x] + new2[x] # due2[Other(x)] + new2[Other(x)]
             /\ Starts(wire'["far"], x) = IF Far(x)' # due2[x] THEN {due2[x]} ELSE {}
             /\ Made(wire'["near"], calls', x) = IF new2[x] # 0 THEN {new2[x]} ELSE {}
<1>8. \A x \in Relay : Fits(x)
  <2>1. Fits(r)
    <3>1. new2[r] < Modulus
      BY <1>2, <1>4, SessionAssumption DEF SessionAssumption
    <3>2. due2[r] + new2[r] # 0 => due2[r] + new2[r] # due2[o] + new2[o]
      <4>1. due[r] + new[r] # 0 => due[r] + new[r] # due[o] + new[o]
        BY KindsDiffer DEF o
      <4> QED
        BY <1>7, <4>1
    <3> QED
      BY <1>2, <1>3, <1>4, <1>6, <3>1, <3>2 DEF o
  <2>2. Fits(o)
    <3>1. /\ Far(o)' \in {0, due2[o]} /\ held'[o] \in {0, due2[o]}
          /\ due2[o] = 0 \/ new2[o] = 0
          /\ new2[o] < Modulus
          /\ Made(wire'["near"], calls', o) = IF new2[o] # 0 THEN {new2[o]} ELSE {}
      BY <1>1, <1>4, <1>6 DEF View, o
    <3>2. Starts(wire'["far"], o) = IF Far(o)' # due2[o] THEN {due2[o]} ELSE {}
      BY <1>1, <1>4, <1>6 DEF View, o
    <3>3. due2[o] + new2[o] # 0 => due2[o] + new2[o] # due2[r] + new2[r]
      BY <1>1, <1>7 DEF View
    <3> QED
      BY <1>1, <3>1, <3>2, <3>3
  <2> HIDE DEF Fits
  <2> QED
    BY <1>1, <2>1, <2>2
<1>9. Undone(wire'["far"]) = {due2[x] : x \in {y \in Relay : held'[y] # due2[y]}}
  <2>1. Undone(wire["far"]) = {due[x] : x \in {y \in Relay : held[y] # due[y]}}
    BY DEF View
  <2>2. \A x \in Relay : /\ held'[x] # due2[x] <=> held[x] # due[x]
                         /\ held[x] # due[x] => due2[x] = due[x]
    BY <1>1, <1>2, <1>3, <1>4
  <2> QED
    BY <2>1, <2>2
<1>10. ASSUME Few' PROVE Below(due2, new2)'
  <2>1. Few /\ Below(due, new)
    BY <1>10 DEF Few, View
  <2>2. s <= stream_id_flag /\ Undone(wire["far"]) = {}
    BY <1>2, <2>1 DEF Below
  <2>3. LevelOf(due2, new2, held', deletes', stream_id_flag')
    <3>1. LevelOf(due, new, held, deletes, stream_id_flag)
      BY <2>1 DEF Below
    <3>2. Level(due[r] + new[r], due[o] + new[o], stream_id_flag,
                deletes - One(held[r] # due[r]) - One(held[o] # due[o]))
      BY <3>1, LevelAt DEF o
    <3>3. /\ One(held'[r] # due2[r]) = One(held[r] # due[r])
          /\ One(held'[o] # due2[o]) = One(held[o] # due[o])
      BY <1>2, <1>3, <1>4 DEF One
    <3>4. LevelOf(due2, new2, held', deletes, stream_id_flag)
      BY <1>4, <1>7, <3>2, <3>3, LevelAt DEF o
    <3> QED
      BY <3>4
  <2>4. ASSUME NEW x \in Relay
        PROVE  /\ Far(x)' # due2[x] => due2[x] <= stream_id_flag'
               /\ new2[x] # 0 => new2[x] <= stream_id_flag' /\ Undone(wire'["far"]) = {}
    BY <1>1, <1>4, <1>6, <2>1, <2>2 DEF Below
  <2>5. InTurn(wire'["far"])
    BY <2>1, <2>2 DEF Below
  <2> QED
    BY <2>3, <2>4, <2>5 DEF Below
<1>11. View(due2, new2)'
  BY <1>5, <1>8, <1>9, <1>10 DEF View
<1> QED
  BY <1>4, <1>11
-----------------------------------------------------------------------------
(* The steps, and what they do to the streams on their way. *)

\* A pending call is one of those that were made.
LEMMA PendingCalls ==
  ASSUME Types, NEW k \in Pending
  PROVE  /\ k \in 1 .. Len(calls) /\ Len(calls) \in Nat /\ k # Len(calls) + 1
         /\ \A kind \in {"connect", "custom", "edge", "push"} :
              Append(calls, kind)[k] = calls[k]
<1>1. k \in 1 .. Len(calls) /\ Len(calls) \in Nat
  BY LenProperties DEF Types, Pending
<1> QED
  BY <1>1, AppendProperties DEF Types

\* What is on its way belongs to a pending call or to none.
LEMMA OnItsWay ==
  ASSUME SessionInv, NEW m \in All(wire["far"], asked, wire["near"]), m.call # 0
  PROVE  m.call \in Pending
BY DEF SessionInv, AllAwaited, Awaited

\* The steps that make no calls, answer none, and leave the streams of both ends.
LEMMA QuietRelay ==
  ASSUME RelayInv,
         UNCHANGED <<calls, got, held, deletes, stream_id_flag, play_stream_id,
                     publish_stream_id>>,
         InOrder(wire'["far"]), Msgs(wire'["far"]) \subseteq Msgs(wire["far"]),
         asked' \subseteq Msgs(wire["far"]) \cup asked,
         Open("near")' /\ Open("far")' => Open("near") /\ Open("far") /\ StreamsKept
  PROVE  RelayInv'
<1>1. KindsKept(wire'["far"], asked', calls')
  BY DEF RelayInv, KindsKept
<1>2. OneOfAKind'
  BY DEF RelayInv, OneOfAKind, Pending
<1>3. Apart(wire["far"])'
  <2>1. \A r \in Relay : Far(Other(r))' = Far(Other(r))
    BY DEF Far
  <2> QED
    BY <2>1 DEF RelayInv, Apart
<1>4. Linked'
  <2> SUFFICES ASSUME Open("near")', Open("far")'
               PROVE  \E due, new \in [Relay -> Nat] : View(due, new)'
    BY DEF Linked
  <2>1. PICK due \in [Relay -> Nat], new \in [Relay -> Nat] : View(due, new)
    BY DEF RelayInv, Linked
  <2>2. View(due, new)'
    BY <2>1, ViewKept
  <2> QED
    BY <2>2
<1> QED
  BY <1>1, <1>2, <1>3, <1>4 DEF RelayInv

\* An end closes.
LEMMA CloseRelay ==
  ASSUME SessionInv, RelayInv, NEW e \in End, Close(e)
  PROVE  RelayInv'
<1>1. /\ wire' = [wire EXCEPT ![e] = <<>>] /\ ~Open(e)'
      /\ UNCHANGED <<near_vars, far_vars>>
  BY DEF Close, Open, SessionInv, Types, End
<1>2. wire'["far"] = <<>> \/ wire'["far"] = wire["far"]
  BY <1>1 DEF SessionInv, Types, End
<1>3. InOrder(<<>>) /\ Msgs(<<>>) = {}
  BY EmptySeq DEF InOrder, Ordered, Msgs
<1>4. InOrder(wire'["far"]) /\ Msgs(wire'["far"]) \subseteq Msgs(wire["far"])
  BY <1>2, <1>3 DEF RelayInv
<1> QED
  BY <1>1, <1>4, QuietRelay DEF near_vars, far_vars, End

\* The far application answers connect or a custom command.
LEMMA AnswerRelay ==
  ASSUME SessionInv, RelayInv, NEW m \in asked, Answer(m)
  PROVE  RelayInv'
<1> DEFINE x == Result(m, 0)
<1>1. /\ wire' = Posted("near", wire, <<x>>) /\ asked' = asked \ {m}
      /\ UNCHANGED <<near_vars, stream_id_flag, play_stream_id, publish_stream_id, history>>
      /\ m.cmd \in {"connect", "custom"}
  BY DEF Answer, Accept, Answers
<1>2. m \in Request_ /\ x \in NearMsg /\ x.call = m.call
  BY DEF SessionInv, Net, Result, Command, Request_, NearMsg
<1>3. calls[x.call] \notin Relay
  BY <1>1, <1>2 DEF RelayInv, KindsKept
<1>4. /\ Open("near")' => Open("near")
      /\ Open("far")' => Open("far")
  BY DEF Answer, Accept, Answers, Open, SessionInv, Types, End
<1> HIDE DEF x
<1>5. /\ wire'["far"] = wire["far"]
      /\ wire'["near"] = IF Open("near") THEN wire["near"] \o <<x>> ELSE wire["near"]
  BY <1>1 DEF Posted, End, SessionInv, Types
<1>6. Msgs(wire["near"] \o <<x>>) = Msgs(wire["near"]) \cup {x}
  <2>1. x.call \notin CallsIn(Msgs(wire["near"]))
    BY <1>2 DEF SessionInv, Net, CallsIn, Request_, CallNo
  <2> QED
    BY <1>2, <2>1, AppendFacts DEF SessionInv, Net, Msg
<1>7. \A r \in Relay : Made(wire'["near"], calls, r) = Made(wire["near"], calls, r)
  BY <1>3, <1>5, <1>6 DEF Made
<1>8. StreamsKept
  BY <1>1, <1>5, <1>7 DEF StreamsKept, near_vars, history
<1> QED
  BY <1>1, <1>4, <1>5, <1>8, QuietRelay DEF RelayInv, near_vars

\* createStream at the far end: in turn it answers a new id, and a new id does no harm.
LEMMA CreateRelay ==
  ASSUME SessionAssumption, SessionInv, RelayInv, deletes \in Int, Open("far"),
         wire["far"] # <<>>, NEW m, m = Head(wire["far"]), CreateStream(m)
  PROVE  /\ Few /\ Open("near") => IsNew(stream_id_flag')
         /\ (Open("near") => IsNew(stream_id_flag')) => RelayInv'
<1> DEFINE f == wire["far"]
           n == wire["near"]
           r == calls[m.call]
           x == Result(m, stream_id_flag')
<1>1. /\ f \in Seq(FarMsg) /\ n \in Seq(NearMsg) /\ Single(n)
      /\ CallsIn(Msgs(f)) \cap CallsIn(Msgs(n)) = {}
      /\ InOrder(f)
  BY DEF SessionInv, Net, RelayInv
<1>2. /\ m.cmd = "createStream" /\ stream_id_flag' = FreeFrom(stream_id_flag + 1)
      /\ wire' = Posted("near", Received("far"), <<x>>)
      /\ UNCHANGED <<connect_state, near_vars, asked, play_stream_id, publish_stream_id,
                     overlapped>>
  BY DEF CreateStream
<1>3. /\ InOrder(Tail(f)) /\ Msgs(f) = Msgs(Tail(f)) \cup {m} /\ m \in FarMsg
  BY <1>1, TailInOrder
<1>4. /\ Undone(Tail(f)) = Undone(f)
      /\ \A y \in Relay : Starts(Tail(f), y) = Starts(f, y)
      /\ InTurn(f) => Undone(f) = {} /\ InTurn(Tail(f))
  <2>1. \A y \in Relay : m.cmd # StartCmd(y)
    BY <1>2 DEF StartCmd
  <2> QED
    BY <1>1, <1>2, <2>1, TailStreams, TurnStreams, TailInTurn
<1>5. /\ m \in Request_ /\ m.call \in CallNo /\ m.call # 0 /\ m.call \in Pending
      /\ r \in Relay /\ held[r] = 0
  <2>1. m \in Request_ /\ m.call \in CallNo /\ m.call # 0
    BY <1>2, <1>3 DEF FarMsg, Notice, Request_, CallNo
  <2>2. m.call \in Pending
    BY <1>3, <2>1, OnItsWay DEF All
  <2>3. r \in Relay
    BY <1>2, <1>3 DEF RelayInv, KindsKept
  <2> QED
    BY <2>1, <2>2, <2>3 DEF RelayInv, OneOfAKind
<1>6. Made(n, calls, r) = {}
  <2> SUFFICES ASSUME NEW y \in Msgs(n), calls[y.call] = r PROVE FALSE
    BY DEF Made
  <2>1. y \in NearMsg
    BY <1>1 DEF Msgs
  <2>2. y.call # 0 /\ y.call \in Pending
    BY <2>1, OnItsWay DEF NearMsg, CallNo, All
  <2>3. y.call = m.call
    BY <1>5, <2>2 DEF RelayInv, OneOfAKind
  <2> QED
    BY <1>1, <1>3, <2>2, <2>3 DEF CallsIn
<1>7. /\ stream_id_flag \in Int /\ held \in [Relay -> Int] /\ stream_id_flag' \in Int
  <2>1. /\ stream_id_flag \in Int /\ held \in [Relay -> Int]
        /\ play_stream_id \in Int /\ publish_stream_id \in Int /\ MaxStreamId \in Int
    BY DEF SessionInv, Types, SessionAssumption
  <2> QED
    BY <1>2, <2>1 DEF FreeFrom, Skipped
<1>8. x \in NearMsg /\ x.call = m.call /\ x.stream = stream_id_flag'
  BY <1>5, <1>7 DEF Result, Command, Request_, NearMsg
<1> HIDE DEF f, n, x
<1>9. /\ wire'["far"] = Tail(f)
      /\ wire'["near"] = IF Open("near") THEN n \o <<x>> ELSE n
  BY <1>2 DEF Posted, Received, Open, End, SessionInv, Types, f, n
<1>10. Msgs(n \o <<x>>) = Msgs(n) \cup {x}
  <2>1. x.call \notin CallsIn(Msgs(n))
    BY <1>1, <1>3, <1>5, <1>8 DEF CallsIn
  <2> QED
    BY <1>1, <1>8, <2>1, AppendFacts DEF Msg
<1>11. /\ InOrder(wire'["far"]) /\ KindsKept(wire'["far"], asked', calls')
       /\ OneOfAKind' /\ Apart(wire["far"])'
  <2>1. KindsKept(wire'["far"], asked', calls')
    BY <1>2, <1>3, <1>9 DEF RelayInv, KindsKept, near_vars, f
  <2>2. OneOfAKind'
    BY <1>2 DEF RelayInv, OneOfAKind, Pending, near_vars
  <2>3. \A y \in Relay : Far(Other(y))' = Far(Other(y))
    BY <1>2 DEF Far
  <2>4. Apart(wire["far"])'
    BY <1>2, <1>3, <1>9, <2>3 DEF RelayInv, Apart, f
  <2> QED
    BY <1>3, <1>9, <2>1, <2>2, <2>4
<1>12. ASSUME NEW due \in [Relay -> Nat], NEW new \in [Relay -> Nat], View(due, new)
       PROVE  /\ due[r] = 0 /\ new[r] = 0 /\ Behind(Tail(f), due, calls)
              /\ Few => Undone(f) = {}
  <2>1. Behind(Tail(f), due, calls) /\ \A y \in Msgs(Tail(f)) : NotAfter(m, y, due, calls)
    BY <1>1, <1>12, TailBehind DEF View, f
  <2>2. due[r] \notin Undone(f)
    <3> SUFFICES ASSUME NEW y \in Msgs(f), y.cmd = "deleteStream", y.stream = due[r]
                 PROVE  FALSE
      BY DEF Undone
    <3>1. y \in Msgs(Tail(f))
      BY <1>2, <1>3
    <3> QED
      BY <1>2, <2>1, <3>1 DEF NotAfter
  <2>3. due[r] = 0
    <3>1. held[r] = due[r]
      BY <1>5, <1>12, <2>2, UndoneDue DEF f
    <3> QED
      BY <1>5, <3>1
  <2>4. new[r] = 0
    BY <1>5, <1>6, <1>12 DEF View, n
  <2>5. Few => Undone(f) = {}
    BY <1>4, <1>12 DEF View, Below, f
  <2> QED
    BY <2>1, <2>3, <2>4, <2>5
<1>13. ASSUME Open("near"), Few PROVE IsNew(stream_id_flag')
  <2>1. PICK due \in [Relay -> Nat], new \in [Relay -> Nat] : View(due, new)
    BY <1>13 DEF RelayInv, Linked
  <2>2. PICK k \in Relay : k = r
    BY <1>5
  <2>3. PICK o : o = Other(k)
    OBVIOUS
  <2>4. due[k] = 0 /\ new[k] = 0 /\ Undone(f) = {}
    BY <1>12, <1>13, <2>1, <2>2
  <2>5. PICK i : i = stream_id_flag'
    OBVIOUS
  <2>6. i \in Nat /\ i # 0 /\ i <= 5 /\ i # due[o] + new[o]
    BY <1>2, <1>13, <2>1, <2>3, <2>4, <2>5, NewId DEF f
  <2>7. /\ o \in Relay /\ Relay = {k, o} /\ due[o] \in Nat /\ new[o] \in Nat
        /\ due[o] = 0 \/ new[o] = 0
    BY <2>1, <2>3, BothKinds DEF View
  <2>8. i # due[o] /\ i # new[o]
    BY <2>6, <2>7
  <2>9. ASSUME NEW z \in TakenIds PROVE z \in {0, due[o], new[o]}
    <3>1. \A w \in Relay : Far(w) \in {0, due[o]} /\ held[w] \in {0, due[o]}
      BY <2>1, <2>4, <2>7 DEF View
    <3>2. \A w \in Msgs(f) : w.stream \in {0, due[o]}
      <4> SUFFICES ASSUME NEW w \in Msgs(f) PROVE w.stream \in {0, due[o]}
        OBVIOUS
      <4>1. w \in FarMsg
        BY <1>1, MsgsOf
      <4>2. CASE w \in Request_
        BY <4>2 DEF Request_
      <4>3. CASE w.cmd = "deleteStream"
        BY <2>4, <4>3 DEF Undone
      <4>4. ASSUME NEW y \in Relay, w.cmd = StartCmd(y) PROVE w.stream \in {0, due[o]}
        <5>1. w.stream \in Starts(f, y)
          BY <4>4 DEF Starts
        <5>2. w.stream = due[y]
          BY <2>1, <5>1 DEF View, f
        <5> QED
          BY <2>4, <2>7, <5>2
      <4> QED
        BY <4>1, <4>2, <4>3, <4>4 DEF FarMsg, Notice, StartCmd, Relay
    <3>3. \A w \in Msgs(n) : calls[w.call] \in Relay => w.stream \in {0, new[o]}
      <4> SUFFICES ASSUME NEW w \in Msgs(n), calls[w.call] \in Relay
                   PROVE  w.stream \in {0, new[o]}
        OBVIOUS
      <4>1. PICK y \in Relay : y = calls[w.call]
        OBVIOUS
      <4>2. w.stream \in Made(n, calls, y)
        BY <4>1 DEF Made
      <4>3. w.stream = new[y]
        BY <2>1, <4>2 DEF View, n
      <4> QED
        BY <2>4, <2>7, <4>3
    <3>4. Range(f) = Msgs(f) /\ Range(n) = Msgs(n)
      BY <1>1 DEF Range, Msgs
    <3>5. \/ z \in {0, Far("edge"), Far("push")} \cup {held[w] : w \in Relay}
          \/ \E w \in Msgs(f) : z = w.stream
          \/ \E w \in Msgs(n) : calls[w.call] \in Relay /\ z = w.stream
      <4>1. z \in {0, Far("edge"), Far("push")} \cup {held[w] : w \in Relay}
                    \cup {w.stream : w \in Msgs(f)}
                    \cup {w.stream : w \in {y \in Msgs(n) : calls[y.call] \in Relay}}
        BY <2>9, <3>4 DEF TakenIds, Far, f, n
      <4> QED
        BY <4>1
    <3> QED
      BY <3>1, <3>2, <3>3, <3>5 DEF Relay
  <2>10. i \in 1 .. Modulus - 1
    BY <1>13, <2>6, SessionAssumption DEF Few, SessionAssumption
  <2> QED
    BY <2>5, <2>6, <2>8, <2>9, <2>10 DEF IsNew
<1>14. ASSUME Open("near") => IsNew(stream_id_flag') PROVE Linked'
  <2> SUFFICES ASSUME Open("near")', Open("far")'
               PROVE  \E due, new \in [Relay -> Nat] : View(due, new)'
    BY DEF Linked
  <2>1. Open("near") /\ wire'["near"] = n \o <<x>>
    BY <1>2, <1>9 DEF Open
  <2>2. PICK due \in [Relay -> Nat], new \in [Relay -> Nat] : View(due, new)
    BY <2>1 DEF RelayInv, Linked
  <2>3. /\ Made(wire'["near"], calls, r) = {stream_id_flag'}
        /\ Made(wire'["near"], calls, Other(r)) = Made(n, calls, Other(r))
    <3>1. Other(r) # r
      BY <1>5, BothKinds
    <3>2. PICK y : y = x
      OBVIOUS
    <3>3. PICK s, t : s = n /\ t = n \o <<x>>
      OBVIOUS
    <3>4. Msgs(t) = Msgs(s) \cup {y} /\ calls[y.call] = r
      BY <1>8, <1>10, <3>2, <3>3
    <3>5. /\ Made(t, calls, r) = Made(s, calls, r) \cup {y.stream}
          /\ Made(t, calls, Other(r)) = Made(s, calls, Other(r))
      <4>1. PICK k, o, c : k = r /\ o = Other(r) /\ c = calls
        OBVIOUS
      <4>2. Msgs(t) = Msgs(s) \cup {y} /\ c[y.call] = k /\ o # k
        BY <3>1, <3>4, <4>1
      <4>3. Made(t, c, k) = Made(s, c, k) \cup {y.stream}
        BY <4>2 DEF Made
      <4>4. Made(t, c, o) = Made(s, c, o)
        BY <4>2 DEF Made
      <4> QED
        BY <4>1, <4>3, <4>4
    <3>6. Made(wire'["near"], calls, r) = Made(n, calls, r) \cup {x.stream}
      BY <2>1, <3>2, <3>3, <3>5
    <3>7. Made(wire'["near"], calls, Other(r)) = Made(n, calls, Other(r))
      BY <2>1, <3>3, <3>5
    <3> QED
      BY <1>6, <1>8, <3>6, <3>7
  <2>4. IsNew(stream_id_flag')
    BY <1>14, <2>1
  <2>5. PICK c \in Relay : c = r
    BY <1>5
  <2>6. /\ due[c] = 0 /\ new[c] = 0 /\ Behind(Tail(f), due, calls)
        /\ Few => Undone(f) = {}
    BY <1>12, <2>2, <2>5
  <2>7. stream_id_flag' # due[Other(c)] + new[Other(c)] /\ stream_id_flag' \in 1 .. Modulus - 1
    <3>1. PICK o : o = Other(c)
      OBVIOUS
    <3>2. /\ o \in Relay /\ due[o] \in Nat /\ new[o] \in Nat
          /\ due[o] = 0 \/ new[o] = 0
      BY <2>2, <3>1, BothKinds DEF View
    <3>3. due[o] \in TakenIds
      <4>1. Far(o) \in TakenIds /\ 0 \in TakenIds
        BY DEF Far, TakenIds
      <4>2. CASE Far(o) = due[o]
        BY <4>1, <4>2
      <4>3. CASE Far(o) # due[o]
        <5>1. due[o] \in Starts(f, o)
          BY <2>2, <3>2, <4>3 DEF View, f
        <5>2. PICK y \in Msgs(f) : y.stream = due[o]
          BY <5>1 DEF Starts
        <5>3. y \in Range(f)
          BY <1>1 DEF Range, Msgs
        <5> QED
          BY <5>2, <5>3 DEF TakenIds, f
      <4> QED
        BY <4>2, <4>3
    <3>4. new[o] \in TakenIds
      <4>1. CASE new[o] = 0
        BY <4>1 DEF TakenIds
      <4>2. CASE new[o] # 0
        <5>1. new[o] \in Made(n, calls, o)
          BY <2>2, <3>2, <4>2 DEF View, n
        <5>2. PICK y \in Msgs(n) : y.stream = new[o] /\ calls[y.call] = o
          BY <5>1 DEF Made
        <5>3. y \in Range(n)
          BY <1>1 DEF Range, Msgs
        <5> QED
          BY <3>2, <5>2, <5>3 DEF TakenIds, n
      <4> QED
        BY <4>1, <4>2
    <3>5. due[o] + new[o] \in {due[o], new[o]}
      BY <3>2
    <3> QED
      BY <2>4, <3>1, <3>3, <3>4, <3>5 DEF IsNew
  <2> HIDE DEF r
  <2>8. \E new2 \in [Relay -> Nat] : View(due, new2)'
    <3>1. UNCHANGED <<held, deletes, overlapped, play_stream_id, publish_stream_id, calls>>
      BY <1>2 DEF near_vars
    <3>2. /\ Made(wire'["near"], calls', c) = {stream_id_flag'}
          /\ Made(wire'["near"], calls', Other(c)) = Made(wire["near"], calls, Other(c))
      BY <2>3, <2>5, <3>1 DEF n
    <3>3. /\ Undone(wire'["far"]) = Undone(wire["far"])
          /\ \A y \in Relay : Starts(wire'["far"], y) = Starts(wire["far"], y)
          /\ InTurn(wire["far"]) => InTurn(wire'["far"])
          /\ Behind(wire'["far"], due, calls')
          /\ Few => Undone(wire["far"]) = {}
      BY <1>4, <1>9, <2>6, <3>1 DEF f
    <3> QED
      BY <1>2, <2>2, <2>6, <2>7, <3>1, <3>2, <3>3, ViewCreate
  <2> QED
    BY <2>8
<1> QED
  BY <1>11, <1>13, <1>14 DEF RelayInv

\* deleteStream at the far end.
LEMMA DeleteFarRelay ==
  ASSUME SessionInv, RelayInv, deletes \in Int,
         wire["far"] # <<>>, NEW m, m = Head(wire["far"]), DeleteFar(m)
  PROVE  RelayInv'
<1> DEFINE f == wire["far"]
<1>1. f \in Seq(FarMsg) /\ f # <<>> /\ InOrder(f)
  BY DEF SessionInv, Net, RelayInv
<1>2. /\ m.cmd = "deleteStream" /\ wire' = Received("far")
      /\ UNCHANGED <<connect_state, near_vars, asked, history>>
      /\ play_stream_id' = IF m.stream = play_stream_id THEN 0 ELSE play_stream_id
      /\ publish_stream_id' = IF m.stream = publish_stream_id THEN 0 ELSE publish_stream_id
      /\ stream_id_flag' = stream_id_flag - (IF m.stream = play_stream_id THEN m.stream ELSE 0)
                             - (IF m.stream = publish_stream_id THEN m.stream ELSE 0)
  BY DEF DeleteFar
<1>3. InOrder(Tail(f)) /\ Msgs(f) = Msgs(Tail(f)) \cup {m}
  BY <1>1, TailInOrder
<1>4. /\ m.stream \in Undone(f) /\ Undone(Tail(f)) = Undone(f) \ {m.stream}
      /\ \A y \in Relay : m.stream \notin Starts(f, y) /\ Starts(Tail(f), y) = Starts(f, y)
      /\ InTurn(f) => InTurn(Tail(f)) /\ \A y \in Relay : Starts(f, y) = {}
  <2>1. \A y \in Relay : m.cmd # StartCmd(y)
    BY <1>2 DEF StartCmd
  <2> QED
    BY <1>1, <1>2, <2>1, TailStreams, TurnStreams, TailInTurn
<1> HIDE DEF f
<1>5. wire'["far"] = Tail(f) /\ wire'["near"] = wire["near"]
  BY <1>2 DEF Received, End, SessionInv, Types, f
<1>6. KindsKept(wire'["far"], asked', calls')
  BY <1>2, <1>3, <1>5 DEF RelayInv, KindsKept, near_vars, f
<1>7. OneOfAKind'
  BY <1>2 DEF RelayInv, OneOfAKind, Pending, near_vars
<1>8. Apart(wire["far"])'
  <2>1. \A y \in Relay : Far(Other(y))' \in {0, Far(Other(y))}
    BY <1>2 DEF Far
  <2>2. \A x \in Msgs(Tail(f)), y \in Relay :
          x.cmd = StartCmd(y) => x.stream # 0 /\ x.stream # Far(Other(y))
    BY <1>3 DEF RelayInv, Apart, f
  <2>3. play_stream_id' # 0 => play_stream_id' # publish_stream_id'
    BY <1>2 DEF RelayInv, Apart
  <2> QED
    BY <1>5, <2>1, <2>2, <2>3 DEF Apart
<1>9. Linked'
  <2> SUFFICES ASSUME Open("near")', Open("far")'
               PROVE  \E due, new \in [Relay -> Nat] : View(due, new)'
    BY DEF Linked
  <2>1. Open("near") /\ Open("far")
    BY <1>2 DEF Open
  <2>2. PICK due \in [Relay -> Nat], new \in [Relay -> Nat] : View(due, new)
    BY <2>1 DEF RelayInv, Linked
  <2>3. /\ UNCHANGED <<held, deletes, calls, overlapped>>
        /\ held \in [Relay -> Int] /\ stream_id_flag \in Int
    BY <1>2 DEF near_vars, history, SessionInv, Types
  <2>4. ASSUME NEW d \in [Relay -> Nat], \A x \in Relay : d[x] \in {0, due[x]}
        PROVE  Behind(Tail(f), d, calls)
    <3>1. Behind(Tail(f), due, calls) /\ Tail(f) \in Seq(FarMsg)
      BY <1>1, <2>2, TailBehind DEF View, f
    <3>2. NoneDue(Tail(f), due, calls, d, calls)
      <4> SUFFICES ASSUME NEW x \in Msgs(Tail(f)), NEW y \in Msgs(Tail(f)),
                          x.cmd = "createStream", y.cmd = "deleteStream",
                          y.stream # due[calls[x.call]]
                   PROVE  y.stream # d[calls[x.call]]
        BY DEF NoneDue
      <4>1. calls[x.call] \in Relay
        BY <1>3 DEF RelayInv, KindsKept, f
      <4>2. y.stream # 0
        <5>1. y.stream \in Undone(f)
          BY <1>3 DEF Undone
        <5>2. PICK z \in Relay : held[z] # due[z] /\ y.stream = due[z]
          BY <2>2, <5>1 DEF View, f
        <5> QED
          BY <2>2, <5>2 DEF View
      <4> QED
        BY <2>4, <4>1, <4>2
    <3> QED
      BY <3>1, <3>2, BehindKept
  <2>5. \E due2 \in [Relay -> Nat] : View(due2, new)'
    <3>1. PICK s : s = m.stream
      OBVIOUS
    <3>2. /\ s \in Undone(wire["far"]) /\ Undone(wire'["far"]) = Undone(wire["far"]) \ {s}
          /\ \A x \in Relay : s \notin Starts(wire["far"], x)
          /\ \A x \in Relay :
               /\ Starts(wire'["far"], x) = Starts(wire["far"], x)
               /\ Made(wire'["near"], calls', x) = Made(wire["near"], calls, x)
          /\ InTurn(wire["far"]) =>
               InTurn(wire'["far"]) /\ \A x \in Relay : Starts(wire["far"], x) = {}
      BY <1>4, <1>5, <2>3, <3>1 DEF f
    <3>3. \A d \in [Relay -> Nat] :
            (\A x \in Relay : d[x] \in {0, due[x]}) => Behind(wire'["far"], d, calls')
      BY <1>5, <2>3, <2>4
    <3> QED
      BY <1>2, <2>2, <2>3, <3>1, <3>2, <3>3, ViewDelete
  <2> QED
    BY <2>5
<1> QED
  BY <1>3, <1>5, <1>6, <1>7, <1>8, <1>9 DEF RelayInv

\* play and publish at the far end.
LEMMA StartRelay ==
  ASSUME SessionInv, RelayInv,
         wire["far"] # <<>>, NEW m, m = Head(wire["far"]), Play(m) \/ Publish(m)
  PROVE  RelayInv'
<1> DEFINE f == wire["far"]
<1>1. f \in Seq(FarMsg) /\ f # <<>> /\ InOrder(f)
  BY DEF SessionInv, Net, RelayInv
<1>2. /\ wire' = Received("far")
      /\ UNCHANGED <<connect_state, near_vars, asked, stream_id_flag, history>>
  BY DEF Play, Publish
<1>3. PICK r \in Relay : /\ m.cmd = StartCmd(r)
                         /\ Far(r)' = IF Far(r) = 0 THEN m.stream ELSE Far(r)
                         /\ Far(Other(r))' = Far(Other(r))
  <2>1. CASE Play(m)
    BY <2>1 DEF Play, StartCmd, Far, Other, Relay
  <2>2. CASE Publish(m)
    BY <2>2 DEF Publish, StartCmd, Far, Other, Relay
  <2> QED
    BY <2>1, <2>2
<1> DEFINE o == Other(r)
<1>4. /\ o \in Relay /\ o # r /\ Relay = {r, o} /\ Other(o) = r
      /\ StartCmd(r) # StartCmd(o) /\ StartCmd(r) \in Start /\ StartCmd(o) \in Start
  BY BothKinds
<1>5. /\ InOrder(Tail(f)) /\ Msgs(f) = Msgs(Tail(f)) \cup {m}
      /\ \A x \in Msgs(Tail(f)) : MayFollow(m, x)
  BY <1>1, TailInOrder
<1>6. /\ Undone(Tail(f)) = Undone(f)
      /\ Starts(f, r) = {m.stream} /\ Starts(Tail(f), r) = {}
      /\ Starts(Tail(f), o) = Starts(f, o)
  <2>1. m.cmd # "deleteStream" /\ m.cmd # StartCmd(o)
    BY <1>3, <1>4 DEF StartCmd
  <2> QED
    BY <1>1, <1>3, <1>4, <2>1, TailStreams
<1> HIDE DEF f, o
<1>7. wire'["far"] = Tail(f) /\ wire'["near"] = wire["near"]
  BY <1>2 DEF Received, End, SessionInv, Types, f
<1>8. KindsKept(wire'["far"], asked', calls')
  BY <1>2, <1>5, <1>7 DEF RelayInv, KindsKept, near_vars, f
<1>9. OneOfAKind'
  BY <1>2 DEF RelayInv, OneOfAKind, Pending, near_vars
<1>10. Apart(wire["far"])'
  <2>1. /\ m.stream # 0 /\ m.stream # Far(o)
        /\ \A x \in Msgs(Tail(f)) : x.cmd = StartCmd(o) => x.stream # 0 /\ x.stream # Far(r)
    BY <1>3, <1>4, <1>5 DEF RelayInv, Apart, f, o
  <2>2. Far("edge") # 0 => Far("edge") # Far("push")
    BY DEF RelayInv, Apart, Far
  <2>3. Far(r) # 0 => Far(r) # Far(o)
    BY <1>4, <2>2 DEF Relay, Other, o
  <2>4. Far(r)' # 0 /\ Far(r)' # Far(o)'
    BY <1>3, <2>1, <2>3 DEF o
  <2>5. Far("edge")' # 0 => Far("edge")' # Far("push")'
    BY <1>4, <2>4 DEF Relay, Other, o
  <2>6. ASSUME NEW x \in Msgs(Tail(f)), NEW y \in Relay, x.cmd = StartCmd(y)
        PROVE  x.stream # 0 /\ x.stream # Far(Other(y))'
    <3>1. x.cmd # m.cmd
      BY <1>3, <1>4, <1>5 DEF MayFollow
    <3>2. y = o
      BY <1>3, <1>4, <2>6, <3>1
    <3>3. x.stream # m.stream
      BY <1>3, <1>4, <1>5, <2>6, <3>2 DEF MayFollow
    <3> QED
      BY <1>3, <1>4, <2>1, <2>6, <3>2, <3>3 DEF o
  <2> QED
    BY <1>7, <2>5, <2>6 DEF Apart, Far
<1>11. Linked'
  <2> SUFFICES ASSUME Open("near")', Open("far")'
               PROVE  \E due, new \in [Relay -> Nat] : View(due, new)'
    BY DEF Linked
  <2>1. Open("near") /\ Open("far")
    BY <1>2 DEF Open
  <2>2. PICK due \in [Relay -> Nat], new \in [Relay -> Nat] : View(due, new)
    BY <2>1 DEF RelayInv, Linked
  <2>3. /\ UNCHANGED <<held, deletes, stream_id_flag, calls, overlapped>>
        /\ InTurn(f) => InTurn(Tail(f))
        /\ Behind(Tail(f), due, calls)
    BY <1>1, <1>2, <2>2, TailInTurn, TailBehind DEF near_vars, history, View, f
  <2>4. PICK s : s = m.stream
    OBVIOUS
  <2>5. View(due, new)'
    BY <1>3, <1>6, <1>7, <2>2, <2>3, <2>4, ViewStart DEF f, o
  <2> QED
    BY <2>5
<1> QED
  BY <1>5, <1>7, <1>8, <1>9, <1>10, <1>11 DEF RelayInv

\* The far end takes a message.
LEMMA HandledRelay ==
  ASSUME SessionAssumption, SessionInv, RelayInv, deletes \in Int, Handled, ~clashed'
  PROVE  RelayInv'
<1> DEFINE f == wire["far"]
           m == Head(f)
<1>1. /\ f # <<>> /\ Open("far")
      /\ Asked(m) \/ CreateStream(m) \/ DeleteFar(m) \/ Play(m) \/ Publish(m)
  BY DEF Handled
<1>2. ASSUME Asked(m) PROVE RelayInv'
  <2>1. f \in Seq(FarMsg) /\ InOrder(f)
    BY DEF SessionInv, Net, RelayInv
  <2>2. /\ m.cmd \in {"connect", "custom"} /\ asked' = asked \cup {m}
        /\ wire' = Received("far")
        /\ UNCHANGED <<connect_state, near_vars, stream_id_flag, play_stream_id,
                       publish_stream_id, history>>
    BY <1>2 DEF Asked
  <2>3. InOrder(Tail(f)) /\ Msgs(f) = Msgs(Tail(f)) \cup {m}
    BY <1>1, <2>1, TailInOrder
  <2>4. /\ Undone(Tail(f)) = Undone(f)
        /\ \A y \in Relay : Starts(Tail(f), y) = Starts(f, y)
    <3>1. m.cmd # "deleteStream" /\ \A y \in Relay : m.cmd # StartCmd(y)
      BY <2>2 DEF StartCmd
    <3> QED
      BY <1>1, <2>1, <3>1, TailStreams
  <2>a. /\ InTurn(f) => InTurn(Tail(f))
        /\ \A due, c : Behind(f, due, c) => Behind(Tail(f), due, c)
    BY <1>1, <2>1, TailInTurn, TailBehind
  <2> HIDE DEF f, m
  <2>5. wire'["far"] = Tail(f) /\ wire'["near"] = wire["near"]
    BY <2>2 DEF Received, End, SessionInv, Types, f
  <2>6. StreamsKept
    BY <2>2, <2>4, <2>a, <2>5 DEF StreamsKept, near_vars, history, f
  <2>7. /\ Msgs(wire'["far"]) \subseteq Msgs(wire["far"])
        /\ asked' \subseteq Msgs(wire["far"]) \cup asked
    BY <2>2, <2>3, <2>5 DEF f
  <2> QED
    BY <2>2, <2>3, <2>5, <2>6, <2>7, QuietRelay DEF near_vars, Open
<1>3. ASSUME CreateStream(m) PROVE RelayInv'
  <2>1. Open("near") => IsNew(stream_id_flag')
    BY <1>3 DEF CreateStream
  <2> QED
    BY <1>1, <1>3, <2>1, CreateRelay
<1>4. ASSUME DeleteFar(m) PROVE RelayInv'
  BY <1>1, <1>4, DeleteFarRelay
<1>5. ASSUME Play(m) \/ Publish(m) PROVE RelayInv'
  BY <1>1, <1>5, StartRelay
<1> QED
  BY <1>1, <1>2, <1>3, <1>4, <1>5

\* In turn, the ids the far end gives are new ones.
LEMMA HandledIds ==
  ASSUME SessionAssumption, SessionInv, RelayInv, deletes \in Int, Handled, Few, ~clashed
  PROVE  ~clashed'
<1> PICK m : m = Head(wire["far"])
  OBVIOUS
<1>1. /\ wire["far"] # <<>> /\ Open("far")
      /\ Asked(m) \/ CreateStream(m) \/ DeleteFar(m) \/ Play(m) \/ Publish(m)
  BY DEF Handled
<1>2. ASSUME CreateStream(m) PROVE ~clashed'
  <2>1. Open("near") => IsNew(stream_id_flag')
    BY <1>1, <1>2, CreateRelay
  <2>2. clashed' <=> (clashed \/ (Open("near") /\ ~IsNew(stream_id_flag')))
    BY <1>2, Zenon DEF CreateStream
  <2> QED
    BY <2>1, <2>2
<1>3. CASE Asked(m) \/ DeleteFar(m) \/ Play(m) \/ Publish(m)
  <2>1. clashed' = clashed
    BY <1>3 DEF Asked, DeleteFar, Play, Publish, history
  <2> QED
    BY <2>1
<1> QED
  BY <1>1, <1>2, <1>3

\* A deletion is written.
LEMMA DeleteStreamRelay ==
  ASSUME SessionInv, RelayInv, deletes \in Int, NEW r \in Relay, DeleteStream(r)
  PROVE  RelayInv'
<1> DEFINE f == wire["far"]
           n == wire["near"]
           m == Command("deleteStream", 0, 0, held[r])
<1>1. /\ connect_state["near"] = "ACCEPT" /\ held[r] # 0
      /\ ~overlapped' => ~overlapped /\ \A k \in Pending : calls[k] \notin Relay
      /\ held' = [held EXCEPT ![r] = 0] /\ deletes' = deletes + 1
      /\ wire' = Posted("far", wire, <<m>>)
      /\ UNCHANGED <<connect_state, transid_flag, transid_cb, calls, got, far_vars>>
  BY DEF DeleteStream
<1>2. m \in FarMsg /\ m.cmd = "deleteStream" /\ m.stream = held[r]
  BY DEF Command, FarMsg, Notice, SessionInv, Types
<1>3. f \in Seq(FarMsg) /\ n \in Seq(NearMsg) /\ InOrder(f) /\ held \in [Relay -> Int]
  BY DEF SessionInv, Net, RelayInv, Types
<1>4. ~overlapped' => /\ \A x \in Relay : Made(n, calls, x) = {}
                      /\ \A x \in Msgs(f) : x.cmd # "createStream"
  <2> HAVE ~overlapped'
  <2>1. ASSUME NEW x \in Msgs(n) PROVE calls[x.call] \notin Relay
    <3>1. x \in NearMsg
      BY <1>3 DEF Msgs
    <3>2. x.call \in Pending
      BY <3>1, OnItsWay DEF NearMsg, CallNo, All
    <3> QED
      BY <1>1, <3>2
  <2>2. ASSUME NEW x \in Msgs(f), x.cmd = "createStream" PROVE FALSE
    <3>1. x \in FarMsg
      BY <1>3 DEF Msgs
    <3>2. x.call # 0
      BY <2>2, <3>1 DEF FarMsg, Request_, Notice, CallNo
    <3>3. x.call \in Pending
      BY <3>2, OnItsWay DEF All
    <3> QED
      BY <1>1, <2>2, <3>3 DEF RelayInv, KindsKept
  <2> QED
    BY <2>1, <2>2 DEF Made
<1> HIDE DEF f, n, m
<1>5. /\ wire'["near"] = n
      /\ wire'["far"] = IF Open("far") THEN f \o <<m>> ELSE f
  BY <1>1 DEF Posted, End, SessionInv, Types, f, n
<1>6. \A x \in Relay : Far(x)' = Far(x)
  BY <1>1 DEF Far, far_vars
<1>7. OneOfAKind'
  BY <1>1, <1>3 DEF RelayInv, OneOfAKind, Pending
<1>8. CASE ~Open("far")
  <2>1. KindsKept(wire'["far"], asked', calls')
    BY <1>1, <1>5, <1>8 DEF RelayInv, far_vars, f
  <2>2. Apart(wire["far"])'
    BY <1>1, <1>5, <1>6, <1>8, BothKinds DEF RelayInv, Apart, far_vars, f
  <2>3. Linked'
    BY <1>1, <1>8 DEF Linked, Open
  <2> QED
    BY <1>3, <1>5, <1>7, <1>8, <2>1, <2>2, <2>3 DEF RelayInv
<1>9. CASE Open("far")
  <2>1. PICK due \in [Relay -> Nat], new \in [Relay -> Nat] : View(due, new)
    BY <1>1, <1>9 DEF RelayInv, Linked, Open
  <2>2. Other(r) \in Relay /\ Relay = {r, Other(r)}
    BY BothKinds
  <2>3. held[r] = due[r] /\ due[r] # 0
    BY <1>1, <2>1 DEF View
  <2>4. held[r] \notin Undone(f)
    BY <2>1, <2>3, UndoneDue DEF f
  <2>5. \A x \in Msgs(f) : MayFollow(x, m)
    <3> SUFFICES ASSUME NEW x \in Msgs(f) PROVE MayFollow(x, m)
      OBVIOUS
    <3>1. x.cmd = "deleteStream" => x.stream # m.stream
      BY <1>2, <2>4 DEF Undone
    <3> QED
      BY <1>2, <3>1 DEF MayFollow, Start
  <2>6. /\ InOrder(f \o <<m>>) /\ Msgs(f \o <<m>>) = Msgs(f) \cup {m}
    BY <1>2, <1>3, <2>5, AppendInOrder
  <2>7. wire'["far"] = f \o <<m>>
    BY <1>5, <1>9
  <2>8. /\ Undone(wire'["far"]) = Undone(f) \cup {held[r]}
        /\ \A x \in Relay : Starts(wire'["far"], x) = Starts(f, x)
    <3>1. \A x \in Relay : m.cmd # StartCmd(x)
      BY <1>2 DEF StartCmd
    <3>2. /\ Undone(f \o <<m>>) = Undone(f) \cup {m.stream}
          /\ \A x \in Relay : Starts(f \o <<m>>, x) = Starts(f, x)
      BY <1>2, <2>6, <3>1, AppendStreams
    <3> QED
      BY <1>2, <2>7, <3>2
  <2>9. KindsKept(wire'["far"], asked', calls')
    BY <1>1, <1>2, <2>6, <2>7 DEF RelayInv, KindsKept, far_vars, f
  <2>10. Apart(wire["far"])'
    <3>1. \A x \in Relay : m.cmd # StartCmd(x) /\ Far(Other(x))' = Far(Other(x))
      BY <1>2, <1>6, BothKinds DEF StartCmd
    <3> QED
      BY <1>1, <2>6, <2>7, <3>1 DEF RelayInv, Apart, far_vars, f
  <2>11. ~overlapped' => /\ ~overlapped
                         /\ \A x \in Relay : Made(n, calls, x) = {}
                         /\ InTurn(f) => InTurn(wire'["far"])
    <3> SUFFICES ASSUME ~overlapped', InTurn(f) PROVE InTurn(wire'["far"])
      BY <1>1, <1>4
    <3>1. \A x \in Msgs(f) : InTurnWith(x, m)
      BY <1>2, <1>4 DEF InTurnWith, Start
    <3> QED
      BY <1>2, <1>3, <2>7, <3>1, AppendInTurn
  <2>12. Behind(wire'["far"], due, calls)
    <3>1. ASSUME NEW x \in Msgs(f) PROVE NotAfter(x, m, due, calls)
      <4> SUFFICES ASSUME x.cmd = "createStream" PROVE held[r] # due[calls[x.call]]
        BY <1>2 DEF NotAfter
      <4>1. x \in Request_
        BY <1>3, MsgsOf DEF FarMsg, Notice
      <4>2. x.call \in Pending
        BY <4>1, OnItsWay DEF All, f, Request_, CallNo
      <4>3. PICK c \in Relay : c = calls[x.call]
        BY DEF RelayInv, KindsKept, f
      <4>4. held[c] = 0
        BY <4>2, <4>3 DEF RelayInv, OneOfAKind
      <4>5. c = Other(r)
        BY <1>1, <2>2, <4>4
      <4>6. held[r] # due[c]
        <5>1. due[r] \in Nat /\ due[c] \in Nat /\ new[r] \in Nat /\ new[c] \in Nat
              /\ (due[r] = 0 \/ new[r] = 0) /\ (due[c] = 0 \/ new[c] = 0)
          BY <2>1, <2>2, <4>5 DEF View
        <5>2. due[r] + new[r] # 0
          BY <2>3, <5>1
        <5>3. due[r] + new[r] # due[c] + new[c]
          BY <2>1, <4>5, <5>2, KindsDiffer
        <5> QED
          BY <2>3, <5>1, <5>3
      <4> QED
        BY <4>3, <4>6
    <3>2. Behind(f, due, calls)
      BY <2>1 DEF View, f
    <3> QED
      BY <1>2, <1>3, <2>7, <3>1, <3>2, AppendBehind
  <2>13. View(due, new)'
    <3>1. UNCHANGED <<stream_id_flag, play_stream_id, publish_stream_id, calls>>
      BY <1>1 DEF far_vars
    <3>2. stream_id_flag \in Int
      BY DEF SessionInv, Types
    <3>3. /\ Undone(wire'["far"]) = Undone(wire["far"]) \cup {held[r]}
          /\ \A x \in Relay :
               /\ Starts(wire'["far"], x) = Starts(wire["far"], x)
               /\ Made(wire'["near"], calls', x) = Made(wire["near"], calls, x)
          /\ ~overlapped' => /\ ~overlapped
                             /\ \A x \in Relay : Made(wire["near"], calls, x) = {}
                             /\ InTurn(wire["far"]) => InTurn(wire'["far"])
          /\ Behind(wire'["far"], due, calls')
      BY <1>5, <2>8, <2>11, <2>12, <3>1 DEF f, n
    <3> QED
      BY <1>1, <1>3, <2>1, <3>1, <3>2, <3>3, ViewDeleteStream
  <2>14. Linked'
    BY <2>13 DEF Linked
  <2> QED
    BY <1>7, <2>6, <2>7, <2>9, <2>10, <2>14 DEF RelayInv
<1> QED
  BY <1>8, <1>9

\* A request is written behind what is on its way.
LEMMA RequestWritten ==
  ASSUME NEW f \in Seq(FarMsg), InOrder(f), NEW q \in Request_
  PROVE  /\ f \o <<q>> \in Seq(FarMsg) /\ InOrder(f \o <<q>>)
         /\ Msgs(f \o <<q>>) = Msgs(f) \cup {q}
         /\ Undone(f \o <<q>>) = Undone(f)
         /\ \A r \in Relay : Starts(f \o <<q>>, r) = Starts(f, r)
         /\ InTurn(f) => InTurn(f \o <<q>>)
         /\ \A due, c : Behind(f, due, c) => Behind(f \o <<q>>, due, c)
<1>1. q \in FarMsg /\ q.cmd \in RequestName
  BY DEF FarMsg, Request_
<1>2. \A x \in Msgs(f) : MayFollow(x, q)
  BY <1>1 DEF MayFollow, RequestName, Start
<1>3. /\ f \o <<q>> \in Seq(FarMsg) /\ InOrder(f \o <<q>>)
      /\ Msgs(f \o <<q>>) = Msgs(f) \cup {q}
  BY <1>1, <1>2, AppendInOrder
<1>4. q.cmd # "deleteStream" /\ \A r \in Relay : q.cmd # StartCmd(r)
  BY <1>1 DEF RequestName, StartCmd
<1>5. /\ Undone(f \o <<q>>) = Undone(f)
      /\ \A r \in Relay : Starts(f \o <<q>>, r) = Starts(f, r)
  BY <1>3, <1>4, AppendStreams
<1>6. InTurn(f) => InTurn(f \o <<q>>)
  <2>1. \A x \in Msgs(f) : InTurnWith(x, q)
    BY <1>1 DEF InTurnWith, RequestName, Start
  <2> QED
    BY <1>1, <2>1, AppendInTurn
<1>7. ASSUME NEW due, NEW c, Behind(f, due, c) PROVE Behind(f \o <<q>>, due, c)
  <2>1. \A x \in Msgs(f) : NotAfter(x, q, due, c)
    BY <1>4 DEF NotAfter
  <2> QED
    BY <1>1, <1>7, <2>1, AppendBehind
<1> QED
  BY <1>3, <1>5, <1>6, <1>7

\* The calls of the requests on their way are known, also while another one is made.
LEMMA BehindCalls ==
  ASSUME SessionInv, \A j \in Pending : calls'[j] = calls[j],
         NEW due, Behind(wire["far"], due, calls)
  PROVE  Behind(wire["far"], due, calls')
<1> PICK f, c, c2 : f = wire["far"] /\ c = calls /\ c2 = calls'
  OBVIOUS
<1>1. f \in Seq(FarMsg) /\ Behind(f, due, c)
  BY DEF SessionInv, Net
<1>2. \A x \in Msgs(f) : x.cmd = "createStream" => c2[x.call] = c[x.call]
  <2> SUFFICES ASSUME NEW x \in Msgs(f), x.cmd = "createStream" PROVE c2[x.call] = c[x.call]
    OBVIOUS
  <2>1. x.call # 0
    BY <1>1, MsgsOf DEF FarMsg, Request_, Notice, CallNo
  <2> QED
    BY <2>1, OnItsWay DEF All
<1>3. NoneDue(f, due, c, due, c2)
  BY <1>2 DEF NoneDue
<1>4. Behind(f, due, c2)
  BY <1>1, <1>3, BehindKept
<1> QED
  BY <1>4

\* A call that is made is the only pending one of its kind.
LEMMA CallOfAKind ==
  ASSUME OneOfAKind, NEW kind, NEW c, c \notin Pending,
         Pending' \subseteq Pending \cup {c},
         \A j \in Pending : calls'[j] = calls[j],
         calls'[c] = kind,
         kind \in Relay => held'[kind] = 0 /\ \A j \in Pending : calls[j] # kind,
         \A j \in Pending \cap Pending' :
           calls[j] \in Relay => held'[calls[j]] = held[calls[j]]
  PROVE  OneOfAKind'
<1> SUFFICES ASSUME NEW k \in Pending', calls'[k] \in Relay
             PROVE  /\ held'[calls'[k]] = 0
                    /\ \A j \in Pending' : calls'[j] = calls'[k] => j = k
  BY DEF OneOfAKind
<1>1. CASE k = c
  BY <1>1
<1>2. CASE k # c
  <2>1. k \in Pending /\ calls'[k] = calls[k]
    BY <1>2
  <2>2. held'[calls'[k]] = 0
    BY <2>1 DEF OneOfAKind
  <2>3. ASSUME NEW j \in Pending', calls'[j] = calls'[k] PROVE j = k
    <3>1. j # c
      BY <2>1, <2>3
    <3>2. j \in Pending /\ calls[j] = calls[k]
      BY <2>1, <2>3, <3>1
    <3> QED
      BY <2>1, <3>2 DEF OneOfAKind
  <2> QED
    BY <2>2, <2>3
<1> QED
  BY <1>1, <1>2

\* The messages of other calls are of the kinds they were, the new one of its own.
LEMMA KindsGrow ==
  ASSUME SessionInv, RelayInv, NEW kind \in {"connect", "custom", "edge", "push"},
         NEW c \in CallNo, NEW q \in Request_, q.call = c,
         q.cmd = IF kind \in Relay THEN "createStream" ELSE kind,
         \A j \in Pending : calls'[j] = calls[j],
         calls'[c] = kind,
         NEW f, \A x \in Msgs(f) : x \in Msgs(wire["far"]) \/ x = q \/ x.cmd \in Start
  PROVE  KindsKept(f, asked, calls')
<1>1. ASSUME NEW x \in Msgs(wire["far"]) \cup asked, x.cmd \in RequestName
      PROVE  calls'[x.call] = calls[x.call]
  <2>1. x \in FarMsg
    BY DEF SessionInv, Net, Msgs, FarMsg
  <2>2. x.call # 0
    BY <1>1, <2>1 DEF FarMsg, Request_, Notice, RequestName, CallNo
  <2>3. x.call \in Pending
    BY <2>2, OnItsWay DEF All
  <2> QED
    BY <2>3
<1>2. ASSUME NEW x \in Msgs(f), x.cmd = "createStream" PROVE calls'[x.call] \in Relay
  <2>1. CASE x = q
    BY <1>2, <2>1 DEF Relay
  <2>2. CASE x \in Msgs(wire["far"])
    BY <1>1, <1>2, <2>2 DEF RelayInv, KindsKept, RequestName
  <2> QED
    BY <1>2, <2>1, <2>2 DEF Start
<1>3. ASSUME NEW x \in Msgs(f) \cup asked, x.cmd \in {"connect", "custom"}
      PROVE  calls'[x.call] \notin Relay
  <2>1. CASE x = q
    BY <1>3, <2>1 DEF Relay
  <2>2. CASE x \in Msgs(wire["far"]) \cup asked
    BY <1>1, <1>3, <2>2 DEF RelayInv, KindsKept, RequestName
  <2> QED
    BY <1>3, <2>1, <2>2 DEF Start
<1> QED
  BY <1>2, <1>3 DEF KindsKept

\* connect and call.
LEMMA RequestRelay ==
  ASSUME SessionInv, RelayInv, NEW kind \in {"connect", "custom", "edge", "push"},
         NEW c \in CallNo, c \notin Pending, NEW q \in Request_, q.call = c,
         q.cmd = IF kind \in Relay THEN "createStream" ELSE kind,
         Pending' \subseteq Pending \cup {c},
         \A j \in Pending : calls'[j] = calls[j],
         calls'[c] = kind,
         kind \in Relay => held[kind] = 0 /\ \A j \in Pending : calls[j] # kind,
         wire' = Posted("far", wire, <<q>>),
         UNCHANGED <<connect_state, held, deletes, far_vars, overlapped>>
  PROVE  RelayInv'
<1> DEFINE f == wire["far"]
           n == wire["near"]
<1>1. f \in Seq(FarMsg) /\ InOrder(f) /\ n \in Seq(NearMsg)
  BY DEF SessionInv, Net, RelayInv
<1>2. /\ f \o <<q>> \in Seq(FarMsg) /\ InOrder(f \o <<q>>)
      /\ Msgs(f \o <<q>>) = Msgs(f) \cup {q}
      /\ Undone(f \o <<q>>) = Undone(f)
      /\ \A r \in Relay : Starts(f \o <<q>>, r) = Starts(f, r)
      /\ InTurn(f) => InTurn(f \o <<q>>)
      /\ \A due, k : Behind(f, due, k) => Behind(f \o <<q>>, due, k)
  BY <1>1, RequestWritten
<1> HIDE DEF f, n
<1>3. wire'["near"] = n /\ wire'["far"] \in {f, f \o <<q>>}
  BY DEF Posted, End, SessionInv, Types, f, n
<1>4. /\ InOrder(wire'["far"]) /\ Undone(wire'["far"]) = Undone(f)
      /\ \A r \in Relay : Starts(wire'["far"], r) = Starts(f, r)
      /\ \A x \in Msgs(wire'["far"]) : x \in Msgs(f) \/ x = q
      /\ InTurn(f) => InTurn(wire'["far"])
      /\ \A due, k : Behind(f, due, k) => Behind(wire'["far"], due, k)
  BY <1>1, <1>2, <1>3
<1>5. KindsKept(wire'["far"], asked', calls')
  <2>1. KindsKept(wire'["far"], asked, calls')
    BY <1>4, KindsGrow DEF f
  <2> QED
    BY <2>1 DEF far_vars
<1>6. OneOfAKind'
  BY CallOfAKind DEF RelayInv
<1>7. Apart(wire["far"])'
  <2>1. \A r \in Relay : Far(Other(r))' = Far(Other(r)) /\ q.cmd # StartCmd(r)
    BY DEF Far, StartCmd, far_vars, Request_, RequestName
  <2> QED
    BY <1>4, <2>1 DEF RelayInv, Apart, far_vars, f
<1>8. Linked'
  <2> SUFFICES ASSUME Open("near")', Open("far")'
               PROVE  \E due, new \in [Relay -> Nat] : View(due, new)'
    BY DEF Linked
  <2>1. PICK due \in [Relay -> Nat], new \in [Relay -> Nat] : View(due, new)
    BY DEF RelayInv, Linked, Open
  <2>2. \A x \in Msgs(n) : calls'[x.call] = calls[x.call]
    <3> SUFFICES ASSUME NEW x \in Msgs(n) PROVE calls'[x.call] = calls[x.call]
      OBVIOUS
    <3>1. x \in NearMsg
      BY <1>1 DEF Msgs
    <3>2. x.call \in Pending
      BY <3>1, OnItsWay DEF NearMsg, CallNo, All, n
    <3> QED
      BY <3>2
  <2>3. \A r \in Relay : Made(wire'["near"], calls', r) = Made(n, calls, r)
    <3>1. \A r \in Relay : Made(n, calls', r) = Made(n, calls, r)
      BY <2>2 DEF Made
    <3> QED
      BY <1>3, <3>1
  <2>4. StreamsKept
    <3>1. \A due2 : Behind(f, due2, calls) => Behind(f, due2, calls')
      BY BehindCalls DEF f
    <3> QED
      BY <1>4, <2>3, <3>1 DEF StreamsKept, far_vars, f, n
  <2>5. View(due, new)'
    BY <2>1, <2>4, ViewKept
  <2> QED
    BY <2>5
<1> QED
  BY <1>4, <1>5, <1>6, <1>7, <1>8 DEF RelayInv

\* play or publish of stream s joins what is on its way to the far end.
StartJoins(r, s) ==
  \E f, x :
    /\ f = wire["far"] \o <<Started(r, s)>>
    /\ InOrder(f) /\ Msgs(f) = Msgs(wire["far"]) \cup {x}
    /\ x.cmd = StartCmd(r) /\ x.stream # 0 /\ x.stream # Far(Other(r))
    /\ Undone(f) = Undone(wire["far"])
    /\ Starts(f, r) = Starts(wire["far"], r) \cup {s}
    /\ Starts(f, Other(r)) = Starts(wire["far"], Other(r))
    /\ InTurn(wire["far"]) /\ Undone(wire["far"]) = {} => InTurn(f)
    /\ \A due, c : Behind(wire["far"], due, c) => Behind(f, due, c)

\* A stream that was created and answered has 32 bits, and nothing at the far end or on
\* the way to it concerns it: play or publish of it may be written.
LEMMA StartWritten ==
  ASSUME SessionAssumption, SessionInv, RelayInv,
         NEW due \in [Relay -> Nat], NEW new \in [Relay -> Nat], View(due, new),
         NEW r \in Relay, NEW s, s \in Made(wire["near"], calls, r)
  PROVE  StartJoins(r, s)
<1>a. PICK f : f = wire["far"]
  OBVIOUS
<1>b. PICK x : x = Started(r, s)
  OBVIOUS
<1> DEFINE o == Other(r)
<1>1. o \in Relay /\ o # r /\ Relay = {r, o} /\ StartCmd(r) # StartCmd(o)
  BY BothKinds
<1>2. new[r] = s /\ s \in Nat /\ s # 0 /\ due[r] = 0 /\ s < Modulus
  <2>1. Made(wire["near"], calls, r) = IF new[r] # 0 THEN {new[r]} ELSE {}
    BY DEF View
  <2>2. new[r] = s /\ s # 0
    BY <2>1
  <2>3. (due[r] = 0 \/ new[r] = 0) /\ new[r] < Modulus
    BY DEF View
  <2> QED
    BY <2>2, <2>3
<1>3. Starts(f, r) = {}
  BY <1>a, <1>2 DEF View
<1>4. s # due[o]
  <2>1. due[r] + new[r] # 0
    BY <1>2
  <2>2. due[r] + new[r] # due[o] + new[o]
    BY <2>1, KindsDiffer
  <2>3. due[o] = 0 \/ new[o] = 0
    BY <1>1 DEF View
  <2> QED
    BY <1>1, <1>2, <2>2, <2>3
<1>5. Far(o) \in {0, due[o]} /\ Starts(f, o) \subseteq {due[o]}
  BY <1>a, <1>1 DEF View
<1>6. s \notin Undone(f)
  <2> SUFFICES ASSUME NEW z \in Relay, held[z] # due[z], s = due[z] PROVE FALSE
    BY <1>a DEF View
  <2>1. z = r
    BY <1>1, <1>4
  <2> QED
    BY <1>2, <2>1
<1>7. s % Modulus = s
  BY <1>2, SessionAssumption DEF SessionAssumption
<1>8. x.cmd = StartCmd(r) /\ x.stream = s /\ x \in Notice
  BY <1>b, <1>2, <1>7 DEF Started, Command, StartCmd, Notice
<1>9. f \in Seq(FarMsg) /\ InOrder(f) /\ x \in FarMsg
  BY <1>a, <1>8 DEF SessionInv, Net, RelayInv, FarMsg
<1> HIDE DEF o
<1>10. \A y \in Msgs(f) : MayFollow(y, x)
  <2> SUFFICES ASSUME NEW y \in Msgs(f) PROVE MayFollow(y, x)
    OBVIOUS
  <2>1. y.cmd = "deleteStream" => y.stream # x.stream
    BY <1>6, <1>8 DEF Undone
  <2>2. x.cmd \in Start /\ x.cmd # "deleteStream"
    BY <1>8 DEF StartCmd, Start
  <2>3. y.cmd # StartCmd(r)
    BY <1>3 DEF Starts
  <2>4. y.cmd \in Start => y.stream # x.stream
    <3>1. y.cmd \in Start => y.cmd = StartCmd(o)
      BY <1>1, <2>3 DEF StartCmd, Start, Relay
    <3>2. y.cmd = StartCmd(o) => y.stream \in Starts(f, o)
      BY DEF Starts
    <3> QED
      BY <1>4, <1>5, <1>8, <3>1, <3>2
  <2> QED
    BY <1>8, <2>1, <2>2, <2>3, <2>4 DEF MayFollow
<1>11. InOrder(f \o <<x>>) /\ Msgs(f \o <<x>>) = Msgs(f) \cup {x}
  BY <1>9, <1>10, AppendInOrder
<1>12. /\ Undone(f \o <<x>>) = Undone(f)
       /\ Starts(f \o <<x>>, r) = Starts(f, r) \cup {s}
       /\ Starts(f \o <<x>>, o) = Starts(f, o)
  <2>1. x.cmd # "deleteStream" /\ x.cmd # StartCmd(o)
    BY <1>1, <1>8 DEF StartCmd
  <2> QED
    BY <1>1, <1>8, <1>11, <2>1, AppendStreams
<1>13. InTurn(f) /\ Undone(f) = {} => InTurn(f \o <<x>>)
  <2> SUFFICES ASSUME InTurn(f), Undone(f) = {} PROVE InTurn(f \o <<x>>)
    OBVIOUS
  <2>1. \A y \in Msgs(f) : InTurnWith(y, x)
    BY <1>8 DEF InTurnWith, Undone, StartCmd
  <2> QED
    BY <1>9, <2>1, AppendInTurn
<1>14. ASSUME NEW due2, NEW c, Behind(f, due2, c) PROVE Behind(f \o <<x>>, due2, c)
  <2>1. \A y \in Msgs(f) : NotAfter(y, x, due2, c)
    BY <1>8 DEF NotAfter, StartCmd
  <2> QED
    BY <1>9, <1>14, <2>1, AppendBehind
<1> QED
  <2>1. s # 0 /\ s # Far(o)
    BY <1>2, <1>4, <1>5
  <2>2. PICK t : t = f \o <<x>>
    OBVIOUS
  <2> QED
    BY <1>a, <1>b, <1>8, <1>11, <1>12, <1>13, <1>14, <2>1, <2>2 DEF o, StartJoins

\* What is on its way to the far end after edge or push were given stream s.
WithStart(r, s) ==
  IF Open("far") /\ r \in Relay THEN wire["far"] \o <<Started(r, s)>> ELSE wire["far"]

\* What a callback leaves on the wires: play or publish is written, then the command of
\* the application.
LEMMA CallbackWire ==
  ASSUME SessionAssumption, SessionInv, wire["near"] # <<>>,
         NEW m, m = Head(wire["near"]), transid_cb[m.id] # None,
         NEW again \in {None, "custom", "edge", "push"},
         RunCallback(m, transid_cb[m.id], again)
  PROVE  /\ WithStart(calls[m.call], m.stream) \in Seq(FarMsg)
         /\ wire'["near"] = Tail(wire["near"])
         /\ \/ wire'["far"] = WithStart(calls[m.call], m.stream) /\ calls' = calls
            \/ /\ again # None /\ MayCall(again) /\ calls' = Append(calls, again)
               /\ \E q \in Request_ :
                    /\ q.call = Len(calls) + 1
                    /\ q.cmd = IF again \in Relay THEN "createStream" ELSE again
                    /\ wire'["far"] \in {WithStart(calls[m.call], m.stream),
                                        WithStart(calls[m.call], m.stream) \o <<q>>}
<1>a. PICK r : r = calls[m.call]
  OBVIOUS
<1>b. PICK f : f = WithStart(r, m.stream)
  OBVIOUS
<1> DEFINE g == wire["far"]
           relayed == IF r \in Relay THEN <<Started(r, m.stream)>> ELSE <<>>
           q == Request(again, transid_flag, Len(calls) + 1)
<1>1. m.stream \in Int /\ transid_cb[m.id] = m.call /\ g \in Seq(FarMsg)
  BY AnswerFacts DEF SessionInv, Net
<1>2. \/ wire' = Posted("far", Received("near"), relayed) /\ calls' = calls
      \/ /\ again # None /\ MayCall(again) /\ calls' = Append(calls, again)
         /\ wire' = Posted("far", Received("near"), Append(relayed, q))
  BY <1>a, <1>1 DEF RunCallback
<1>3. relayed \in Seq(FarMsg)
  <2>1. CASE r \in Relay
    <3>1. m.stream % Modulus \in Int
      BY <1>1 DEF SessionAssumption
    <3>2. Started(r, m.stream) \in FarMsg
      BY <3>1 DEF Started, Command, FarMsg, Notice
    <3> QED
      BY <2>1, <3>2
  <2>2. CASE r \notin Relay
    BY <2>2
  <2> QED
    BY <2>1, <2>2
<1>4. f = IF Open("far") THEN g \o relayed ELSE g
  <2>1. CASE r \in Relay
    BY <1>b, <2>1 DEF WithStart
  <2>2. CASE r \notin Relay
    BY <1>b, <1>1, <2>2, ConcatEmptySeq DEF WithStart
  <2> QED
    BY <2>1, <2>2
<1>5. f \in Seq(FarMsg)
  <2>1. g \o relayed \in Seq(FarMsg)
    BY <1>1, <1>3, ConcatProperties
  <2> QED
    BY <1>1, <1>4, <2>1
<1> HIDE DEF g, relayed, q
<1>6. CASE wire' = Posted("far", Received("near"), relayed) /\ calls' = calls
  <2>1. wire'["near"] = Tail(wire["near"]) /\ wire'["far"] = f
    BY <1>4, <1>6 DEF SessionInv, Types, Posted, Received, End, g
  <2> QED
    BY <1>a, <1>b, <1>5, <1>6, <2>1
<1>7. CASE /\ again # None /\ MayCall(again) /\ calls' = Append(calls, again)
           /\ wire' = Posted("far", Received("near"), Append(relayed, q))
  <2>1. /\ q \in Request_ /\ q.call = Len(calls) + 1
        /\ q.cmd = IF again \in Relay THEN "createStream" ELSE again
    <3>1. Len(calls) + 1 \in CallNo /\ transid_flag \in TransId
      BY <1>7, LenProperties DEF MayCall, CallNo, SessionInv, Types, TransId, SessionAssumption
    <3> QED
      BY <1>7, <3>1 DEF q, Request, Relay, Command, Request_, RequestName
  <2>2. /\ wire'["near"] = Tail(wire["near"])
        /\ wire'["far"] = IF Open("far") THEN g \o Append(relayed, q) ELSE g
    BY <1>7 DEF SessionInv, Types, Posted, Received, End, g
  <2>3. g \o Append(relayed, q) = (g \o relayed) \o <<q>>
    <3>1. PICK p : p = q
      OBVIOUS
    <3>2. p \in FarMsg
      BY <2>1, <3>1 DEF FarMsg
    <3>3. PICK t : t = relayed
      OBVIOUS
    <3>4. t \in Seq(FarMsg) /\ g \in Seq(FarMsg)
      BY <1>1, <1>3, <3>3
    <3>5. g \o Append(t, p) = (g \o t) \o <<p>>
      BY <3>2, <3>4, AppendLast
    <3> QED
      BY <3>1, <3>3, <3>5
  <2>4. wire'["far"] \in {f, f \o <<q>>}
    BY <1>4, <2>2, <2>3
  <2> QED
    BY <1>a, <1>b, <1>5, <1>7, <2>1, <2>2, <2>4
<1> QED
  BY <1>2, <1>6, <1>7

\* What a callback does to the calls that are not answered: its own is, and the one it
\* makes is not.
LEMMA CallbackCalls ==
  ASSUME SessionAssumption, SessionInv, wire["near"] # <<>>,
         NEW m, m = Head(wire["near"]), transid_cb[m.id] # None,
         got' = [got EXCEPT ![m.call] = m.call],
         calls' = calls \/ \E kind \in {"custom", "edge", "push"} : calls' = Append(calls, kind)
  PROVE  /\ Pending' \subseteq (Pending \ {m.call}) \cup ((1 .. Len(calls')) \ (1 .. Len(calls)))
         /\ m.call \in Pending
         /\ \A j \in Pending : calls'[j] = calls[j]
<1>1. m.call \in CallNo /\ m.call \in Pending
  BY AnswerFacts
<1>2. \A j \in CallNo : got'[j] = None <=> got[j] = None /\ j # m.call
  BY <1>1, GotFacts
<1>3. Len(calls) \in Nat /\ Len(calls) <= MaxCalls /\ MaxCalls \in Nat
  BY LenProperties DEF SessionInv, Types, SessionAssumption
<1>4. ASSUME NEW j \in Pending', j \in 1 .. Len(calls) PROVE j \in Pending \ {m.call}
  <2>1. j \in CallNo /\ got'[j] = None
    BY <1>3, <1>4 DEF Pending, CallNo
  <2> QED
    BY <1>2, <1>4, <2>1 DEF Pending
<1>5. \A j \in Pending' : j \in 1 .. Len(calls')
  BY DEF Pending
<1>6. \A j \in Pending : calls'[j] = calls[j]
  <2>1. CASE calls' = calls
    BY <2>1
  <2>2. ASSUME NEW kind \in {"custom", "edge", "push"}, calls' = Append(calls, kind)
        PROVE  \A j \in Pending : calls'[j] = calls[j]
    BY <2>2, PendingCalls DEF SessionInv
  <2> QED
    BY <2>1, <2>2
<1> QED
  BY <1>1, <1>4, <1>5, <1>6

\* The rest of the answers holds no stream of a kind that was answered.
LEMMA RestMade ==
  ASSUME SessionAssumption, SessionInv, RelayInv, wire["near"] # <<>>,
         NEW m, m = Head(wire["near"]), transid_cb[m.id] # None,
         \A j \in Pending : calls'[j] = calls[j]
  PROVE  /\ \A y \in Relay :
              y # calls[m.call] =>
                Made(Tail(wire["near"]), calls', y) = Made(wire["near"], calls, y)
         /\ calls[m.call] \in Relay =>
              /\ Made(Tail(wire["near"]), calls', calls[m.call]) = {}
              /\ m.stream \in Made(wire["near"], calls, calls[m.call])
<1>a. PICK r : r = calls[m.call]
  OBVIOUS
<1>b. PICK n : n = Tail(wire["near"])
  OBVIOUS
<1>1. m.call \in Pending
  BY AnswerFacts
<1>2. Msgs(wire["near"]) = Msgs(n) \cup {m}
  BY <1>b, TailMsgs DEF SessionInv, Net
<1>3. ASSUME NEW x \in Msgs(n)
      PROVE  calls'[x.call] = calls[x.call] /\ (r \in Relay => calls[x.call] # r)
  <2>1. x \in NearMsg /\ x \in All(wire["far"], asked, n)
    <3>1. x \in Msgs(wire["near"])
      BY <1>2
    <3>2. \A y \in Msgs(wire["near"]) : y \in NearMsg
      BY DEF SessionInv, Net, Msgs
    <3> QED
      BY <3>1, <3>2 DEF All
  <2>2. x.call # 0
    BY <2>1 DEF NearMsg, CallNo
  <2>3. x.call \in Pending /\ x.call # m.call
    BY <1>b, <2>1, <2>2, AnswerFacts
  <2> QED
    BY <1>a, <1>1, <2>3 DEF RelayInv, OneOfAKind
<1>4. ASSUME NEW y \in Relay, y # r PROVE Made(n, calls', y) = Made(wire["near"], calls, y)
  BY <1>a, <1>2, <1>3, <1>4 DEF Made
<1>5. ASSUME r \in Relay
      PROVE  Made(n, calls', r) = {} /\ m.stream \in Made(wire["near"], calls, r)
  BY <1>a, <1>2, <1>3, <1>5 DEF Made
<1> QED
  BY <1>a, <1>b, <1>4, <1>5

\* The requests on their way are of the other kind than the stream that was answered.
LEMMA BehindOthers ==
  ASSUME SessionAssumption, SessionInv, RelayInv, wire["near"] # <<>>,
         NEW m, m = Head(wire["near"]), transid_cb[m.id] # None,
         \A j \in Pending : calls'[j] = calls[j],
         NEW r \in Relay, r = calls[m.call], NEW s,
         NEW due \in [Relay -> Nat], Behind(wire["far"], due, calls)
  PROVE  Behind(wire["far"], [due EXCEPT ![r] = s], calls')
<1> PICK f, c, c2, due2 :
      f = wire["far"] /\ c = calls /\ c2 = calls' /\ due2 = [due EXCEPT ![r] = s]
  OBVIOUS
<1>1. f \in Seq(FarMsg) /\ Behind(f, due, c)
  BY DEF SessionInv, Net
<1>2. ASSUME NEW x \in Msgs(f), x.cmd = "createStream"
      PROVE  due2[c2[x.call]] = due[c[x.call]]
  <2>1. x.call # 0
    BY <1>1, <1>2, MsgsOf DEF FarMsg, Request_, Notice, CallNo
  <2>2. x.call \in Pending /\ c2[x.call] = c[x.call]
    BY <2>1, OnItsWay DEF All
  <2>3. PICK y \in Relay : y = c[x.call]
    BY <1>2 DEF RelayInv, KindsKept
  <2>4. x.call # m.call /\ m.call \in Pending
    BY <2>1, AnswerFacts DEF CallsIn, All
  <2>5. y # r
    BY <2>2, <2>3, <2>4 DEF RelayInv, OneOfAKind
  <2> QED
    BY <2>2, <2>3, <2>5
<1>3. NoneDue(f, due, c, due2, c2)
  BY <1>2 DEF NoneDue
<1>4. Behind(f, due2, c2)
  BY <1>1, <1>3, BehindKept
<1> QED
  BY <1>4

\* A callback runs: with a stream for edge or push, the near end holds it and has it
\* started; the application may call again.
LEMMA CallbackRelay ==
  ASSUME SessionAssumption, SessionInv, RelayInv, deletes \in Int,
         wire["near"] # <<>>, Open("near"),
         NEW m, m = Head(wire["near"]), transid_cb[m.id] # None,
         NEW again \in {None, "custom", "edge", "push"},
         RunCallback(m, transid_cb[m.id], again)
  PROVE  RelayInv'
<1>1. PICK r : r = calls[m.call]
  OBVIOUS
<1>2. PICK g : g = wire["far"]
  OBVIOUS
<1>3. PICK f : f = WithStart(r, m.stream)
  OBVIOUS
<1>4. PICK w : w = wire'["far"]
  OBVIOUS
<1>5. transid_cb[m.id] = m.call /\ m.call \in Pending /\ g \in Seq(FarMsg) /\ InOrder(g)
  BY <1>2, AnswerFacts DEF SessionInv, Net, RelayInv
<1>6. /\ got' = [got EXCEPT ![m.call] = m.call]
      /\ connect_state' = [connect_state EXCEPT !["near"] = "ACCEPT"]
      /\ held' = IF r \in Relay THEN [held EXCEPT ![r] = m.stream] ELSE held
      /\ UNCHANGED <<deletes, asked, stream_id_flag, play_stream_id, publish_stream_id,
                     overlapped>>
  BY <1>1, <1>5 DEF RunCallback, far_vars, history
<1>7. /\ f \in Seq(FarMsg)
      /\ wire'["near"] = Tail(wire["near"])
      /\ \/ w = f /\ calls' = calls
         \/ /\ again # None /\ MayCall(again) /\ calls' = Append(calls, again)
            /\ \E q \in Request_ :
                 /\ q.call = Len(calls) + 1
                 /\ q.cmd = IF again \in Relay THEN "createStream" ELSE again
                 /\ w \in {f, f \o <<q>>}
  BY <1>1, <1>3, <1>4, CallbackWire
<1>8. calls' = calls \/ \E kind \in {"custom", "edge", "push"} : calls' = Append(calls, kind)
  BY <1>7
<1>9. /\ Pending' \subseteq (Pending \ {m.call}) \cup ((1 .. Len(calls')) \ (1 .. Len(calls)))
      /\ \A j \in Pending : calls'[j] = calls[j]
  BY <1>6, <1>8, CallbackCalls
<1>10. Open("far")' <=> Open("far")
  BY <1>6 DEF Open, SessionInv, Types, End
<1>11. \A y \in Relay : Far(y)' = Far(y) /\ Far(Other(y))' = Far(Other(y))
  BY <1>6 DEF Far
<1>12. ASSUME NEW j \in Pending, j # m.call, calls[j] \in Relay
       PROVE  held'[calls[j]] = held[calls[j]]
  <2>1. r \in Relay => calls[j] # r
    BY <1>1, <1>5, <1>12 DEF RelayInv, OneOfAKind
  <2> QED
    BY <1>6, <1>12, <2>1 DEF SessionInv, Types
<1>13. ASSUME r \in Relay, Open("far"),
              NEW due \in [Relay -> Nat], NEW new \in [Relay -> Nat], View(due, new)
       PROVE  /\ InOrder(f) /\ Undone(f) = Undone(g)
              /\ Starts(f, r) = Starts(g, r) \cup {m.stream}
              /\ Starts(f, Other(r)) = Starts(g, Other(r))
              /\ InTurn(g) /\ Undone(g) = {} => InTurn(f)
              /\ \A due2, c : Behind(g, due2, c) => Behind(f, due2, c)
              /\ \E x : /\ Msgs(f) = Msgs(g) \cup {x} /\ x.cmd = StartCmd(r)
                        /\ x.stream # 0 /\ x.stream # Far(Other(r))
  <2>1. m.stream \in Made(wire["near"], calls, r)
    BY <1>1, <1>9, <1>13, RestMade
  <2>2. f = g \o <<Started(r, m.stream)>>
    BY <1>2, <1>3, <1>13 DEF WithStart
  <2>3. PICK s : s = m.stream
    OBVIOUS
  <2>4. StartJoins(r, s)
    <3>1. s \in Made(wire["near"], calls, r)
      BY <2>1, <2>3
    <3>2. r \in Relay /\ View(due, new)
      BY <1>13
    <3> QED
      BY <3>1, <3>2, StartWritten
  <2>5. \E e, x :
          /\ e = f
          /\ InOrder(e) /\ Msgs(e) = Msgs(g) \cup {x}
          /\ x.cmd = StartCmd(r) /\ x.stream # 0 /\ x.stream # Far(Other(r))
          /\ Undone(e) = Undone(g)
          /\ Starts(e, r) = Starts(g, r) \cup {s}
          /\ Starts(e, Other(r)) = Starts(g, Other(r))
          /\ InTurn(g) /\ Undone(g) = {} => InTurn(e)
          /\ \A due2, c : Behind(g, due2, c) => Behind(e, due2, c)
    BY <1>2, <2>2, <2>3, <2>4, Zenon DEF StartJoins
  <2> QED
    BY <2>3, <2>5
<1>14. ~(r \in Relay /\ Open("far")) => f = g
  BY <1>2, <1>3 DEF WithStart
<1>15. r \in Relay /\ Open("far") =>
         \E due, new \in [Relay -> Nat] : View(due, new)
  BY DEF RelayInv, Linked
<1>16. /\ InOrder(f)
       /\ \A x \in Msgs(f) : x \in Msgs(g) \/ x.cmd \in Start
       /\ \A x \in Msgs(f), y \in Relay :
            x.cmd = StartCmd(y) => x.stream # 0 /\ x.stream # Far(Other(y))
  <2>1. \A x \in Msgs(g), y \in Relay :
          x.cmd = StartCmd(y) => x.stream # 0 /\ x.stream # Far(Other(y))
    BY <1>2 DEF RelayInv, Apart
  <2>2. CASE ~(r \in Relay /\ Open("far"))
    BY <1>5, <1>14, <2>1, <2>2
  <2>3. CASE r \in Relay /\ Open("far")
    <3>1. PICK x : /\ InOrder(f) /\ Msgs(f) = Msgs(g) \cup {x} /\ x.cmd = StartCmd(r)
                   /\ x.stream # 0 /\ x.stream # Far(Other(r))
      BY <1>13, <1>15, <2>3
    <3>2. \A y \in Relay : x.cmd = StartCmd(y) => y = r
      BY <2>3, <3>1 DEF StartCmd, Relay
    <3>3. x.cmd \in Start
      BY <2>3, <3>1, BothKinds
    <3> QED
      BY <2>1, <3>1, <3>2, <3>3
  <2> QED
    BY <2>2, <2>3
<1>17. /\ InOrder(w) /\ Undone(w) = Undone(f)
       /\ \A y \in Relay : Starts(w, y) = Starts(f, y)
       /\ InTurn(f) => InTurn(w)
       /\ \A due2, c : Behind(f, due2, c) => Behind(w, due2, c)
       /\ \A x \in Msgs(w) : x \in Msgs(f) \/ x.cmd \in RequestName
  <2>1. CASE w = f
    BY <1>16, <2>1
  <2>2. ASSUME NEW q \in Request_, w = f \o <<q>>
        PROVE  /\ InOrder(w) /\ Undone(w) = Undone(f)
               /\ \A y \in Relay : Starts(w, y) = Starts(f, y)
               /\ InTurn(f) => InTurn(w)
               /\ \A due2, c : Behind(f, due2, c) => Behind(w, due2, c)
               /\ \A x \in Msgs(w) : x \in Msgs(f) \/ x.cmd \in RequestName
    <3>1. q.cmd \in RequestName
      BY DEF Request_
    <3> QED
      BY <1>7, <1>16, <2>2, <3>1, RequestWritten
  <2> QED
    BY <1>7, <2>1, <2>2
<1>18. Apart(wire["far"])'
  <2>1. \A y \in Relay : StartCmd(y) \notin RequestName
    BY DEF StartCmd, RequestName
  <2> QED
    BY <1>4, <1>6, <1>11, <1>16, <1>17, <2>1 DEF RelayInv, Apart
<1>19. KindsKept(w, asked', calls') /\ OneOfAKind'
  <2>1. CASE w = f /\ calls' = calls
    <3>1. KindsKept(w, asked', calls')
      BY <1>2, <1>6, <1>16, <2>1 DEF RelayInv, KindsKept, Start
    <3>2. \A j \in Pending' : j \in Pending /\ j # m.call
      BY <1>9, <2>1
    <3>3. OneOfAKind'
      BY <1>12, <2>1, <3>2 DEF RelayInv, OneOfAKind
    <3> QED
      BY <3>1, <3>3
  <2>2. ASSUME again # None, MayCall(again), calls' = Append(calls, again),
               NEW q \in Request_, q.call = Len(calls) + 1,
               q.cmd = IF again \in Relay THEN "createStream" ELSE again,
               w \in {f, f \o <<q>>}
        PROVE  KindsKept(w, asked', calls') /\ OneOfAKind'
    <3>1. PICK c : c = Len(calls) + 1
      OBVIOUS
    <3>2. /\ again \in {"custom", "edge", "push"} /\ Len(calls) \in Nat
          /\ Len(calls') = c /\ calls'[c] = again
      BY <2>2, <3>1, LenProperties, AppendProperties DEF SessionInv, Types
    <3>3. c \in CallNo /\ c \notin Pending /\ (1 .. Len(calls')) \ (1 .. Len(calls)) = {c}
      BY <2>2, <3>1, <3>2 DEF MayCall, CallNo, Pending, SessionAssumption
    <3>4. Pending' \subseteq (Pending \ {m.call}) \cup {c}
      BY <1>9, <3>3
    <3>5. \A x \in Msgs(w) : x \in Msgs(wire["far"]) \/ x = q \/ x.cmd \in Start
      <4>1. Msgs(f \o <<q>>) = Msgs(f) \cup {q}
        BY <1>7, <1>16, RequestWritten
      <4>2. \A x \in Msgs(w) : x \in Msgs(f) \/ x = q
        BY <2>2, <4>1
      <4> QED
        BY <1>2, <1>16, <4>2
    <3>6. KindsKept(w, asked, calls')
      <4>1. q.call = c /\ calls'[c] = again /\ \A j \in Pending : calls'[j] = calls[j]
        BY <1>9, <2>2, <3>1, <3>2
      <4>2. q.cmd = IF again \in Relay THEN "createStream" ELSE again
        BY <2>2
      <4>3. again \in {"connect", "custom", "edge", "push"}
        BY <3>2
      <4> QED
        BY <3>3, <3>5, <4>1, <4>2, <4>3, KindsGrow
    <3>7. again \in Relay => held[again] = 0 /\ \A j \in Pending : calls[j] # again
      BY <2>2 DEF MayCall
    <3>8. again \in Relay => held'[again] = 0
      <4>1. again \in Relay => again # r
        BY <1>1, <1>5, <3>7
      <4> QED
        BY <1>6, <3>7, <4>1 DEF SessionInv, Types
    <3>9. \A j \in Pending \cap Pending' :
            calls[j] \in Relay => held'[calls[j]] = held[calls[j]]
      BY <1>12, <3>3, <3>4
    <3>10. OneOfAKind'
      BY <1>9, <3>2, <3>3, <3>4, <3>7, <3>8, <3>9, CallOfAKind DEF RelayInv
    <3> QED
      BY <1>6, <3>6, <3>10
  <2> QED
    BY <1>7, <2>1, <2>2
<1>20. Linked'
  <2> SUFFICES ASSUME Open("near")', Open("far")'
               PROVE  \E due, new \in [Relay -> Nat] : View(due, new)'
    BY DEF Linked
  <2>1. PICK due \in [Relay -> Nat], new \in [Relay -> Nat] : View(due, new)
    BY <1>10 DEF RelayInv, Linked
  <2>2. /\ \A y \in Relay : y # r => Made(wire'["near"], calls', y) = Made(wire["near"], calls, y)
        /\ r \in Relay => /\ Made(wire'["near"], calls', r) = {}
                          /\ m.stream \in Made(wire["near"], calls, r)
    BY <1>1, <1>7, <1>9, RestMade
  <2>3. CASE r \in Relay
    <3>1. /\ Undone(wire'["far"]) = Undone(wire["far"])
          /\ Starts(wire'["far"], r) = Starts(wire["far"], r) \cup {m.stream}
          /\ Starts(wire'["far"], Other(r)) = Starts(wire["far"], Other(r))
      BY <1>2, <1>4, <1>10, <1>13, <1>17, <2>1, <2>3, BothKinds
    <3>2. held \in [Relay -> Int] /\ stream_id_flag \in Int
      BY DEF SessionInv, Types
    <3>3. Made(wire'["near"], calls', Other(r)) = Made(wire["near"], calls, Other(r))
      BY <2>2, <2>3, BothKinds
    <3>4. PICK s : s = m.stream
      OBVIOUS
    <3>5. held' = [held EXCEPT ![r] = s]
      BY <1>6, <2>3, <3>4
    <3>6. UNCHANGED <<deletes, overlapped, stream_id_flag, play_stream_id, publish_stream_id>>
      BY <1>6
    <3>7. InTurn(wire["far"]) /\ Undone(wire["far"]) = {} => InTurn(wire'["far"])
      BY <1>2, <1>4, <1>10, <1>13, <1>17, <2>1, <2>3
    <3>8. Behind(wire'["far"], [due EXCEPT ![r] = s], calls')
      <4>1. Behind(g, [due EXCEPT ![r] = s], calls')
        BY <1>1, <1>2, <1>9, <2>1, <2>3, BehindOthers DEF View
      <4> QED
        BY <1>4, <1>10, <1>13, <1>17, <2>1, <2>3, <4>1
    <3> QED
      BY <2>1, <2>2, <2>3, <3>1, <3>2, <3>3, <3>4, <3>5, <3>6, <3>7, <3>8, ViewStarted
  <2>4. CASE r \notin Relay
    <3>1. StreamsKept
      <4>1. \A due2 : Behind(g, due2, calls) => Behind(w, due2, calls')
        BY <1>2, <1>9, <1>14, <1>17, <2>4, BehindCalls
      <4> QED
        BY <1>2, <1>4, <1>6, <1>14, <1>17, <2>2, <2>4, <4>1 DEF StreamsKept
    <3>2. View(due, new)'
      BY <2>1, <3>1, ViewKept
    <3> QED
      BY <3>2
  <2> QED
    BY <2>3, <2>4
<1> QED
  BY <1>4, <1>17, <1>18, <1>19, <1>20 DEF RelayInv

\* The callback of edge runs and closes the client.
LEMMA EdgeFailsRelay ==
  ASSUME SessionAssumption, SessionInv, RelayInv, wire["near"] # <<>>,
         NEW m, m = Head(wire["near"]), transid_cb[m.id] # None,
         EdgeFails(m, transid_cb[m.id])
  PROVE  RelayInv'
<1>1. transid_cb[m.id] = m.call
  BY AnswerFacts
<1>2. /\ got' = [got EXCEPT ![m.call] = m.call]
      /\ connect_state' = [connect_state EXCEPT !["near"] = "CLOSE"]
      /\ wire' = [wire EXCEPT !["near"] = <<>>]
      /\ UNCHANGED <<calls, held, asked, play_stream_id, publish_stream_id>>
  BY <1>1 DEF EdgeFails, far_vars
<1>3. \A j \in Pending' : j \in Pending
  <2>1. Pending' \subseteq (Pending \ {m.call}) \cup ((1 .. Len(calls')) \ (1 .. Len(calls)))
    BY <1>2, CallbackCalls
  <2> QED
    BY <1>2, <2>1
<1>4. wire'["far"] = wire["far"] /\ ~Open("near")'
  BY <1>2 DEF SessionInv, Types, End, Open
<1>5. OneOfAKind'
  BY <1>2, <1>3 DEF RelayInv, OneOfAKind
<1>6. KindsKept(wire'["far"], asked', calls')
  BY <1>2, <1>4 DEF RelayInv
<1>7. Apart(wire["far"])'
  <2>1. \A y \in Relay : Far(Other(y))' = Far(Other(y))
    BY <1>2 DEF Far
  <2> QED
    BY <1>2, <1>4, <2>1 DEF RelayInv, Apart
<1>8. Linked'
  BY <1>4 DEF Linked
<1> QED
  BY <1>4, <1>5, <1>6, <1>7, <1>8 DEF RelayInv

\* An answer always finds its callback, which runs.
LEMMA AnsweredRelay ==
  ASSUME SessionAssumption, SessionInv, RelayInv, deletes \in Int, Answered
  PROVE  RelayInv'
<1>1. PICK m : m = Head(wire["near"])
  OBVIOUS
<1>2. wire["near"] # <<>> /\ Open("near")
  BY DEF Answered
<1>3. transid_cb[m.id] # None
  <2>1. m \in NearMsg /\ m \in All(wire["far"], asked, wire["near"])
    BY <1>1, <1>2, NetNearTail DEF SessionInv
  <2>2. m.call # 0 /\ m.call # None
    BY <2>1 DEF NearMsg, CallNo, SessionAssumption
  <2> QED
    BY <2>1, <2>2 DEF SessionInv, AllAwaited, Awaited
<1>4. ASSUME NEW again \in {None, "custom", "edge", "push"},
             RunCallback(m, transid_cb[m.id], again)
      PROVE  RelayInv'
  BY <1>1, <1>2, <1>3, <1>4, CallbackRelay
<1>5. CASE EdgeFails(m, transid_cb[m.id])
  BY <1>1, <1>2, <1>3, <1>5, EdgeFailsRelay
<1> QED
  BY <1>1, <1>3, <1>4, <1>5 DEF Answered
-----------------------------------------------------------------------------
\* No stream is held, started or on its way at the start.
LEMMA RelayStarts ==
  ASSUME Init
  PROVE  RelayInv
<1>1. /\ wire["far"] = <<>> /\ wire["near"] = <<>> /\ asked = {} /\ calls = <<>>
      /\ \A r \in Relay : held[r] = 0
      /\ stream_id_flag = 0 /\ play_stream_id = 0 /\ publish_stream_id = 0 /\ deletes = 0
  BY DEF Init, End
<1>2. Msgs(<<>>) = {} /\ InOrder(<<>>) /\ InTurn(<<>>) /\ \A due, c : Behind(<<>>, due, c)
  BY EmptySeq DEF Msgs, InOrder, InTurn, Behind, Ordered
<1>3. Pending = {}
  BY <1>1 DEF Pending
<1>4. KindsKept(wire["far"], asked, calls) /\ OneOfAKind /\ Apart(wire["far"])
  BY <1>1, <1>2, <1>3 DEF KindsKept, OneOfAKind, Apart
<1>5. PICK none : none = [r \in Relay |-> 0]
  OBVIOUS
<1>6. none \in [Relay -> Nat] /\ \A r \in Relay : none[r] = 0
  BY <1>5
<1>7. View(none, none)
  <2>1. /\ Undone(wire["far"]) = {}
        /\ \A r \in Relay : Starts(wire["far"], r) = {} /\ Made(wire["near"], calls, r) = {}
    BY <1>1, <1>2 DEF Undone, Starts, Made
  <2>2. \A r \in Relay : Far(r) = 0
    BY <1>1 DEF Far
  <2>3. LevelOf(none, none, held, deletes, stream_id_flag)
    BY <1>1, <1>6 DEF LevelOf, Level, One, Relay
  <2>4. {none[r] : r \in {x \in Relay : held[x] # none[x]}} = {}
    BY <1>1, <1>6
  <2>5. Below(none, none)
    BY <1>1, <1>2, <1>6, <2>1, <2>2, <2>3 DEF Below
  <2>6. /\ \A r \in Relay : /\ none[r] = 0 /\ held[r] = 0 /\ none[r] + none[r] = 0
                            /\ 0 < Modulus
        /\ Behind(wire["far"], none, calls)
    BY <1>1, <1>2, <1>6, SessionAssumption DEF SessionAssumption
  <2> QED
    BY <2>1, <2>2, <2>4, <2>5, <2>6 DEF View
<1>8. Linked
  BY <1>6, <1>7 DEF Linked
<1> QED
  BY <1>1, <1>2, <1>4, <1>8 DEF RelayInv

\* The ids are new ones as long as streams are created and deleted in turn, and the two
\* ends agree as long as they are.
IdsInv == (Few => ~clashed) /\ (~clashed => RelayInv)

\* The steps of the near end and the answers of the far application.
LEMMA OtherStep ==
  ASSUME SessionAssumption, SessionInv, RelayInv, deletes \in Int, [Next]_vars, ~Handled
  PROVE  RelayInv'
<1>1. CASE Connect
  <2>1. PICK q : q = Request("connect", 1, 1)
    OBVIOUS
  <2>2. /\ calls = <<>> /\ calls' = <<"connect">> /\ wire' = Posted("far", wire, <<q>>)
        /\ UNCHANGED <<connect_state, got, held, deletes, far_vars, overlapped>>
    BY <1>1, <2>1 DEF Connect, history
  <2>3. 1 \in CallNo /\ 1 \in TransId
    BY DEF CallNo, TransId, SessionAssumption
  <2>4. q \in Request_ /\ q.call = 1 /\ q.cmd = "connect"
    BY <2>1, <2>3 DEF Request, Relay, Command, Request_, RequestName
  <2>5. Pending = {} /\ Pending' \subseteq {1} /\ calls'[1] = "connect"
    BY <2>2 DEF Pending
  <2>6. "connect" \notin Relay /\ "connect" \in {"connect", "custom", "edge", "push"}
    BY DEF Relay
  <2> QED
    BY <2>2, <2>3, <2>4, <2>5, <2>6, RequestRelay
<1>2. ASSUME NEW kind \in {"custom", "edge", "push"}, Call(kind) PROVE RelayInv'
  <2>1. PICK c : c = Len(calls) + 1
    OBVIOUS
  <2>2. PICK q : q = Request(kind, transid_flag, c)
    OBVIOUS
  <2>3. /\ MayCall(kind) /\ calls' = Append(calls, kind)
        /\ wire' = Posted("far", wire, <<q>>)
        /\ UNCHANGED <<connect_state, got, held, deletes, far_vars, overlapped>>
    BY <1>2, <2>1, <2>2 DEF Call, history
  <2>4. /\ Len(calls) \in Nat /\ Len(calls') = c /\ calls'[c] = kind
        /\ Len(calls) < MaxCalls /\ MaxCalls \in Nat
    <3>1. calls \in Seq({"connect", "custom", "edge", "push"})
      BY DEF SessionInv, Types
    <3>2. Len(calls) \in Nat /\ Len(calls') = c /\ calls'[c] = kind
      BY <2>1, <2>3, <3>1, LenProperties, AppendProperties
    <3>3. Len(calls) < MaxCalls /\ MaxCalls \in Nat
      BY <2>3 DEF MayCall, SessionAssumption
    <3> QED
      BY <3>2, <3>3
  <2>5. c \in CallNo /\ c \notin Pending /\ transid_flag \in TransId
    <3>1. c \in CallNo /\ c \notin Pending
      BY <2>1, <2>4 DEF CallNo, Pending
    <3>2. transid_flag \in TransId
      BY DEF SessionInv, Types, TransId
    <3> QED
      BY <3>1, <3>2
  <2>6. /\ q \in Request_ /\ q.call = c
        /\ q.cmd = IF kind \in Relay THEN "createStream" ELSE kind
    BY <2>2, <2>5 DEF Request, Relay, Command, Request_, RequestName
  <2>7. Pending' \subseteq Pending \cup {c}
    BY <2>1, <2>3, <2>4 DEF Pending
  <2>8. \A j \in Pending : calls'[j] = calls[j]
    BY <2>3, PendingCalls DEF SessionInv
  <2>9. kind \in Relay => held[kind] = 0 /\ \A j \in Pending : calls[j] # kind
    BY <2>3 DEF MayCall
  <2>10. kind \in {"connect", "custom", "edge", "push"}
    OBVIOUS
  <2> QED
    BY <2>3, <2>4, <2>5, <2>6, <2>7, <2>8, <2>9, <2>10, RequestRelay
<1>3. ASSUME NEW r \in Relay, DeleteStream(r) PROVE RelayInv'
  BY <1>3, DeleteStreamRelay
<1>4. CASE Answered
  BY <1>4, AnsweredRelay
<1>6. ASSUME NEW m \in asked, Answer(m) PROVE RelayInv'
  BY <1>6, AnswerRelay
<1>7. ASSUME NEW e \in End, Close(e) PROVE RelayInv'
  BY <1>7, CloseRelay
<1>8. CASE UNCHANGED vars
  <2>1. UNCHANGED <<calls, got, held, deletes, stream_id_flag, play_stream_id,
                    publish_stream_id, connect_state, asked, wire, overlapped>>
    BY <1>8 DEF vars, near_vars, far_vars, history
  <2>2. StreamsKept
    BY <2>1 DEF StreamsKept
  <2>3. InOrder(wire'["far"]) /\ (Open("near")' /\ Open("far")' => Open("near") /\ Open("far"))
    BY <2>1 DEF RelayInv, Open
  <2> QED
    BY <2>1, <2>2, <2>3, QuietRelay
<1> QED
  BY <1>1, <1>2, <1>3, <1>4, <1>6, <1>7, <1>8 DEF Next

\* Every step.
LEMMA RelayStep ==
  ASSUME SessionAssumption, SessionInv, IdsInv, deletes \in Int,
         {overlapped, clashed} \subseteq BOOLEAN, [Next]_vars
  PROVE  IdsInv'
<1>1. deletes' \in {deletes, deletes + 1} /\ (overlapped => overlapped')
  <2>1. ASSUME NEW r \in Relay, DeleteStream(r)
        PROVE  deletes' \in {deletes, deletes + 1} /\ (overlapped => overlapped')
    BY <2>1 DEF DeleteStream
  <2>2. \/ UNCHANGED <<deletes, overlapped>>
        \/ \E r \in Relay : DeleteStream(r)
    <3>1. CASE Answered
      BY <3>1, Zenon DEF Answered, RunCallback, EdgeFails, near_vars, history
    <3>2. CASE Handled
      BY <3>2, Zenon DEF Handled, Asked, CreateStream, DeleteFar, Play, Publish, near_vars,
                         history
    <3>3. CASE Connect \/ \E kind \in {"custom", "edge", "push"} : Call(kind)
      BY <3>3, Zenon DEF Connect, Call, history
    <3>4. CASE (\E m \in asked : Answer(m)) \/ \E e \in End : Close(e)
      BY <3>4, Zenon DEF Answer, Close, near_vars, history
    <3>5. CASE UNCHANGED vars
      BY <3>5, Zenon DEF vars, near_vars, history
    <3> QED
      BY <3>1, <3>2, <3>3, <3>4, <3>5 DEF Next
  <2> QED
    BY <2>1, <2>2
<1>2. Few' => Few
  BY <1>1 DEF Few
<1>3. CASE Handled
  <2>1. clashed => clashed'
    BY <1>3 DEF Handled, Asked, CreateStream, DeleteFar, Play, Publish, history
  <2>2. Few' => ~clashed'
    BY <1>2, <1>3, HandledIds DEF IdsInv
  <2>3. ~clashed' => RelayInv'
    BY <1>3, <2>1, HandledRelay DEF IdsInv
  <2> QED
    BY <2>2, <2>3 DEF IdsInv
<1>4. CASE ~Handled
  <2>1. clashed' = clashed
    BY <1>4 DEF Next, vars, near_vars, history, Connect, Call, DeleteStream, Answered,
                RunCallback, EdgeFails, Answer, Close
  <2>2. RelayInv => RelayInv'
    BY <1>4, OtherStep
  <2> QED
    BY <1>2, <2>1, <2>2 DEF IdsInv
<1> QED
  BY <1>3, <1>4

\* What holds in all states of a session, from which the two theorems follow.
LEMMA IdsInvariant ==
  ASSUME MaxSpan <= Ids
  PROVE  Spec => [](TypeOK /\ IdsInv)
<1>1. Init => SessionInv /\ IdsInv
  <2> SUFFICES ASSUME Init PROVE SessionInv /\ IdsInv
    OBVIOUS
  <2>1. SessionInv /\ RelayInv
    BY SessionAssumption, SessionStarts, RelayStarts
  <2> QED
    BY <2>1 DEF Init, IdsInv
<1>2. TypeOK /\ SessionInv /\ IdsInv /\ [Next]_vars => SessionInv' /\ IdsInv'
  <2> SUFFICES ASSUME TypeOK, SessionInv, IdsInv, [Next]_vars
               PROVE  SessionInv' /\ IdsInv'
    OBVIOUS
  <2>1. deletes \in Int /\ {overlapped, clashed} \subseteq BOOLEAN
    BY SessionAssumption DEF TypeOK, SessionAssumption
  <2>2. SessionInv'
    BY SessionAssumption, SessionStep
  <2>3. IdsInv'
    BY <2>1, SessionAssumption, RelayStep
  <2> QED
    BY <2>2, <2>3
<1> QED
  BY <1>1, <1>2, RelayTypes, PTL DEF Spec

\* createStream gives new ids up to the second deletion of a session, for any number of
\* calls and whatever is on the way, as long as no stream is deleted while another one
\* is being created: RelaySession's runs show that the third deletion and a deletion
\* meanwhile break it.  The far end has ids for two streams and two deletions.
THEOREM IdsAlwaysNew ==
  ASSUME MaxSpan <= Ids, MaxStreamId >= 4
  PROVE  Spec => []IdsNew
<1>1. TypeOK /\ IdsInv => IdsNew
  <2> SUFFICES ASSUME TypeOK, IdsInv, deletes <= 2, ~overlapped PROVE ~clashed
    BY DEF IdsNew
  <2> QED
    BY DEF IdsInv, Few
<1> QED
  BY <1>1, IdsInvariant, PTL

\* The far end never plays and publishes on one stream, and when nothing is on the way
\* to it, it plays and publishes on the streams that edge and push of the near end hold,
\* until an id is given twice: for any number of calls and deletions, made at any time.
THEOREM RelayAlwaysAgrees ==
  ASSUME MaxSpan <= Ids
  PROVE  Spec => []RelayAgrees
<1>1. TypeOK /\ IdsInv => RelayAgrees
  <2> SUFFICES ASSUME RelayInv PROVE StreamsAgree
    BY DEF IdsInv, RelayAgrees
  <2>1. play_stream_id # 0 => play_stream_id # publish_stream_id
    BY DEF RelayInv, Apart
  <2>2. ASSUME Open("near"), Open("far"), wire["far"] = <<>>
        PROVE  play_stream_id = held["edge"] /\ publish_stream_id = held["push"]
    <3>1. PICK due \in [Relay -> Nat], new \in [Relay -> Nat] : View(due, new)
      BY <2>2 DEF RelayInv, Linked
    <3>2. /\ Undone(wire["far"]) = {}
          /\ \A r \in Relay : Starts(wire["far"], r) = {}
      <4>1. Msgs(<<>>) = {}
        BY EmptySeq DEF Msgs
      <4> QED
        BY <2>2, <4>1 DEF Undone, Starts
    <3>3. \A r \in Relay : Far(r) = due[r]
      BY <3>1, <3>2 DEF View
    <3>4. \A r \in Relay : held[r] = due[r]
      <4>1. ASSUME NEW r \in Relay, held[r] # due[r] PROVE due[r] \in Undone(wire["far"])
        BY <3>1, <4>1 DEF View
      <4> QED
        BY <3>2, <4>1
    <3> QED
      BY <3>3, <3>4 DEF Far, Relay
  <2> QED
    BY <2>1, <2>2 DEF StreamsAgree
<1> QED
  BY <1>1, IdsInvariant, PTL
=============================================================================
