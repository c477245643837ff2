---------------------------- MODULE RelaySession ----------------------------
(***************************************************************************)
(* The commands of a BlsClient made by remote_connect (src/bls.js): call   *)
(* and the callbacks of its answers, connect, edge, push, and on the other *)
(* side of the connection createStream, deleteStream, play and publish of  *)
(* the BlsClient of the server that was connected to ("far").              *)
(*                                                                         *)
(* The two ends and their applications run at the same time; the commands  *)
(* travel in order and are lost only when an end closes.                   *)
(***************************************************************************)
EXTENDS Integers, Sequences, Functions

CONSTANTS
  None,          \* no callback
  FirstTransId,  \* 6: the first id of call()
  MaxTransId,    \* 30: the id from which transid_flag goes back to the first
  MaxStreamId,   \* 10: the id from which a search for a free stream id restarts
  Modulus,       \* 2^32: stream ids on the wire
  MaxSpan,       \* the application keeps this many calls at most from the oldest unanswered one on
  MaxCalls,      \* bound: calls in a session
  MaxDeletes     \* bound: deleteStream commands in a session

ASSUME SessionAssumption ==
  /\ {FirstTransId, MaxTransId, MaxStreamId, Modulus, MaxSpan, MaxCalls} \subseteq Nat
  /\ MaxDeletes \in Nat /\ None \notin Nat /\ MaxCalls > 0
  /\ 1 < FirstTransId /\ FirstTransId <= MaxTransId
  /\ MaxStreamId + 2 < Modulus

VARIABLES
  connect_state,      \* [End -> state]
  transid_flag,       \* near: the id of the next call
  transid_cb,         \* near: id -> the call whose callback waits for it
  calls,              \* near: what was called, in order
  got,                \* near: call -> the call whose answer its callback was given
  held,               \* near: the streams edge and push have been given
  deletes,            \* near: how many streams were deleted
  asked,              \* far: commands the application has not answered
  stream_id_flag,     \* far
  play_stream_id,     \* far
  publish_stream_id,  \* far
  wire,               \* [End -> Seq of messages]: on the way to this end
  overlapped,         \* history: a stream was deleted while another one was being created
  clashed             \* history: the near end was answered an id that is none or not a new one

near_vars == <<transid_flag, transid_cb, calls, got, held, deletes>>
far_vars == <<asked, stream_id_flag, play_stream_id, publish_stream_id>>
history == <<overlapped, clashed>>
vars == <<connect_state, near_vars, far_vars, wire, history>>

End == {"near", "far"}
Relay == {"edge", "push"}
TransId == {1} \cup FirstTransId .. MaxTransId + 1

Open(e) == connect_state[e] # "CLOSE"
Pending == {k \in 1 .. Len(calls) : got[k] = None}

\* A message written to an end that is closed goes nowhere.
Posted(e, w, msgs) == IF Open(e) THEN [w EXCEPT ![e] = @ \o msgs] ELSE w
Received(e) == [wire EXCEPT ![e] = Tail(@)]

-----------------------------------------------------------------------------
Init ==
  /\ connect_state = [e \in End |-> "WAIT_ACCEPT"]
  /\ transid_flag = FirstTransId
  /\ transid_cb = [i \in TransId |-> None]
  /\ calls = <<>>
  /\ got = [k \in 1 .. MaxCalls |-> None]
  /\ held = [r \in Relay |-> 0]
  /\ deletes = 0
  /\ asked = {}
  /\ stream_id_flag = 0
  /\ play_stream_id = 0
  /\ publish_stream_id = 0
  /\ wire = [e \in End |-> <<>>]
  /\ overlapped = FALSE
  /\ clashed = FALSE

(***************************************************************************)
(* The near end.                                                           *)
(***************************************************************************)

\* Mutants: ids that never start again, start again too early, or stay.
NextTransIdUnbounded(id) == id + 1
NextTransIdEarly(id) == IF id >= MaxTransId THEN FirstTransId ELSE id + 1
NextTransIdKept(id) == id

\* call(): the ids run from FirstTransId to MaxTransId + 1 and start again.
NextTransId(id) == IF id > MaxTransId THEN FirstTransId ELSE id + 1

\* A command: its transaction id, the call it was made by (0: without a callback)
\* and the stream it is about.  edge and push create a stream first; "custom" is a
\* command of the application.
Command(cmd, id, k, stream) == [cmd |-> cmd, id |-> id, call |-> k, stream |-> stream]
Request(kind, id, k) ==
  Command(IF kind \in Relay THEN "createStream" ELSE kind, id, k, 0)

\* What the application calls: a bounded number of calls, not too many behind
\* the oldest one that waits for its answer, one stream of each kind at a time.
MayCall(kind) ==
  /\ Len(calls) < MaxCalls
  /\ \A k \in Pending : Len(calls) + 1 - k < MaxSpan
  /\ kind \in Relay => /\ held[kind] = 0
                       /\ \A k \in Pending : calls[k] # kind

\* connect(): id 1, and no look at the state.
Connect ==
  /\ calls = <<>> /\ Open("near")
  /\ calls' = <<"connect">>
  /\ transid_cb' = [transid_cb EXCEPT ![1] = 1]
  /\ wire' = Posted("far", wire, <<Request("connect", 1, 1)>>)
  /\ UNCHANGED <<connect_state, transid_flag, got, held, deletes, far_vars, history>>

\* call(): the callback is stored under transid_flag, whatever is there.
Call(kind) ==
  /\ connect_state["near"] = "ACCEPT"
  /\ MayCall(kind)
  /\ calls' = Append(calls, kind)
  /\ transid_cb' = [transid_cb EXCEPT ![transid_flag] = Len(calls) + 1]
  /\ transid_flag' = NextTransId(transid_flag)
  /\ wire' = Posted("far", wire, <<Request(kind, transid_flag, Len(calls) + 1)>>)
  /\ UNCHANGED <<connect_state, got, held, deletes, far_vars, history>>

\* call("deleteStream", [null, id]) without a callback, of a stream that is relayed.
DeleteStream(r) ==
  /\ connect_state["near"] = "ACCEPT"
  /\ held[r] # 0 /\ deletes < MaxDeletes
  /\ held' = [held EXCEPT ![r] = 0]
  /\ deletes' = deletes + 1
  /\ overlapped' = (overlapped \/ \E k \in Pending : calls[k] \in Relay)
  /\ wire' = Posted("far", wire, <<Command("deleteStream", 0, 0, held[r])>>)
  /\ UNCHANGED <<connect_state, transid_flag, transid_cb, calls, got, far_vars, clashed>>

\* close(): what is on the way to the end is not read any more; what it wrote
\* may still arrive. The other end finds out at some time.
Close(e) ==
  /\ Open(e)
  /\ connect_state' = [connect_state EXCEPT ![e] = "CLOSE"]
  /\ wire' = [wire EXCEPT ![e] = <<>>]
  /\ UNCHANGED <<near_vars, far_vars, history>>

PeerGone(e) == (\E o \in End \ {e} : ~Open(o)) /\ Close(e)

\* The callbacks of edge and push go on with the stream they were given, whose
\* id is a 32-bit number in the header of the message.
Started(r, id) ==
  Command(IF r = "edge" THEN "play" ELSE "publish", 0, 0, id % Modulus)

\* "_result" or "_error": the callback runs, then the entry is deleted. In the
\* callback the application may call again.
RunCallback(m, k, again) ==
  LET r == calls[k]
      relayed == IF r \in Relay THEN <<Started(r, m.stream)>> ELSE <<>>
      n == Len(calls) + 1
  IN
  /\ got' = [got EXCEPT ![k] = m.call]
  /\ connect_state' = [connect_state EXCEPT !["near"] = "ACCEPT"]
  /\ held' = IF r \in Relay THEN [held EXCEPT ![r] = m.stream] ELSE held
  /\ \/ /\ again = None
        /\ transid_cb' = [transid_cb EXCEPT ![m.id] = None]
        /\ wire' = Posted("far", Received("near"), relayed)
        /\ UNCHANGED <<transid_flag, calls>>
     \/ /\ again # None /\ MayCall(again)
        /\ calls' = Append(calls, again)
        /\ transid_cb' = [transid_cb EXCEPT ![transid_flag] = n, ![m.id] = None]
        /\ transid_flag' = NextTransId(transid_flag)
        /\ wire' = Posted("far", Received("near"),
                          Append(relayed, Request(again, transid_flag, n)))
  /\ UNCHANGED <<deletes, far_vars, history>>

\* edge(): the stream cannot be published here, because its name is taken.
EdgeFails(m, k) ==
  /\ calls[k] = "edge"
  /\ got' = [got EXCEPT ![k] = m.call]
  /\ transid_cb' = [transid_cb EXCEPT ![m.id] = None]
  /\ connect_state' = [connect_state EXCEPT !["near"] = "CLOSE"]
  /\ wire' = [wire EXCEPT !["near"] = <<>>]
  /\ UNCHANGED <<transid_flag, calls, held, deletes, far_vars, history>>

Answered ==
  /\ Open("near") /\ wire["near"] # <<>>
  /\ LET m == Head(wire["near"])
         k == transid_cb[m.id]
     IN \/ /\ k = None
           /\ wire' = Received("near")
           /\ UNCHANGED <<connect_state, near_vars, far_vars, history>>
        \/ k # None /\ \E again \in {None, "custom", "edge", "push"} : RunCallback(m, k, again)
        \/ k # None /\ EdgeFails(m, k)

(***************************************************************************)
(* The far end.                                                            *)
(***************************************************************************)

Result(m, stream) == Command("_result", m.id, m.call, stream)

\* connect and the application's commands are events; the answer is its affair.
Asked(m) ==
  /\ m.cmd \in {"connect", "custom"}
  /\ asked' = asked \cup {m}
  /\ wire' = Received("far")
  /\ UNCHANGED <<connect_state, near_vars, stream_id_flag, play_stream_id, publish_stream_id,
                 history>>

\* Mutant: an id that is published on is given again.
InUsePlayed(id) == id = play_stream_id

\* createStream: the next id that is neither played nor published on.
InUse(id) == id \in {play_stream_id, publish_stream_id}
Skipped(id) ==
  IF InUse(id) THEN (IF id > MaxStreamId THEN 0 ELSE id) + 1 ELSE id
FreeFrom(id) == Skipped(Skipped(id))

\* The ids that streams of the session have, at either end or on the way to it; 0 is none.
TakenIds ==
  {0, play_stream_id, publish_stream_id} \cup {held[r] : r \in Relay}
    \cup {m.stream : m \in Range(wire["far"])}
    \cup {m.stream : m \in {x \in Range(wire["near"]) : calls[x.call] \in Relay}}
IsNew(id) == id \in 1 .. Modulus - 1 /\ id \notin TakenIds

CreateStream(m) ==
  /\ m.cmd = "createStream"
  /\ stream_id_flag' = FreeFrom(stream_id_flag + 1)
  /\ clashed' = (clashed \/ (Open("near") /\ ~IsNew(stream_id_flag')))
  /\ wire' = Posted("near", Received("far"), <<Result(m, stream_id_flag')>>)
  /\ UNCHANGED <<connect_state, near_vars, asked, play_stream_id, publish_stream_id,
                 overlapped>>

\* Mutant: only a played stream is deleted.
DeleteFarPlayed(m) ==
  /\ m.cmd = "deleteStream"
  /\ play_stream_id' = IF m.stream = play_stream_id THEN 0 ELSE play_stream_id
  /\ stream_id_flag' = stream_id_flag - m.stream
  /\ wire' = Received("far")
  /\ UNCHANGED <<connect_state, near_vars, asked, publish_stream_id, history>>

\* deleteStream: the id is compared with both, and taken off the flag for each.
DeleteFar(m) ==
  LET played == m.stream = play_stream_id
      published == m.stream = publish_stream_id
      Off(b) == IF b THEN m.stream ELSE 0
  IN
  /\ m.cmd = "deleteStream"
  /\ play_stream_id' = IF played THEN 0 ELSE play_stream_id
  /\ publish_stream_id' = IF published THEN 0 ELSE publish_stream_id
  /\ stream_id_flag' = stream_id_flag - Off(played) - Off(published)
  /\ wire' = Received("far")
  /\ UNCHANGED <<connect_state, near_vars, asked, history>>

\* play and publish: the first one of each kind counts.
Play(m) ==
  /\ m.cmd = "play"
  /\ play_stream_id' = IF play_stream_id = 0 THEN m.stream ELSE play_stream_id
  /\ wire' = Received("far")
  /\ UNCHANGED <<connect_state, near_vars, asked, stream_id_flag, publish_stream_id, history>>

Publish(m) ==
  /\ m.cmd = "publish"
  /\ publish_stream_id' = IF publish_stream_id = 0 THEN m.stream ELSE publish_stream_id
  /\ wire' = Received("far")
  /\ UNCHANGED <<connect_state, near_vars, asked, stream_id_flag, play_stream_id, history>>

Handled ==
  /\ Open("far") /\ wire["far"] # <<>>
  /\ LET m == Head(wire["far"]) IN
       Asked(m) \/ CreateStream(m) \/ DeleteFar(m) \/ Play(m) \/ Publish(m)

\* accept(true): a client that waits becomes an accepted one and is told.
Accept(m) ==
  /\ m.cmd = "connect" /\ connect_state["far"] = "WAIT_ACCEPT"
  /\ connect_state' = [connect_state EXCEPT !["far"] = "ACCEPT"]

\* result(): answers nobody unless the client is accepted.
Answers(m) ==
  /\ m.cmd = "custom" /\ connect_state["far"] = "ACCEPT"
  /\ UNCHANGED connect_state

\* The application answers in any order.
Answer(m) ==
  /\ m \in asked
  /\ Accept(m) \/ Answers(m)
  /\ asked' = asked \ {m}
  /\ wire' = Posted("near", wire, <<Result(m, 0)>>)
  /\ UNCHANGED <<near_vars, stream_id_flag, play_stream_id, publish_stream_id, history>>
-----------------------------------------------------------------------------
Next ==
  \/ Connect
  \/ \E kind \in {"custom", "edge", "push"} : Call(kind)
  \/ \E r \in Relay : DeleteStream(r)
  \/ Answered
  \/ Handled
  \/ \E m \in asked : Answer(m)
  \/ \E e \in End : Close(e)

Spec == Init /\ [][Next]_vars

\* Messages on a connection arrive or the connection breaks, the break is
\* noticed, and the far application answers every command in the end.
FairSpec ==
  /\ Spec
  /\ WF_vars(Answered)
  /\ WF_vars(Handled)
  /\ \A k \in 1 .. MaxCalls : WF_vars(\E m \in asked : m.call = k /\ Answer(m))
  /\ \A e \in End : WF_vars(PeerGone(e))
-----------------------------------------------------------------------------
\* The types of the variables. The flag of the far end, and with it the stream that
\* createStream answers, may be any whole number: deleteStream takes the id off it. What
\* is played and published comes from the wire and has 32 bits.
TypeOK ==
  /\ connect_state \in [End -> {"WAIT_ACCEPT", "ACCEPT", "CLOSE"}]
  /\ transid_flag \in TransId \ {1}
  /\ transid_cb \in [TransId -> 1 .. MaxCalls \cup {None}]
  /\ calls \in Seq({"connect", "custom", "edge", "push"}) /\ Len(calls) <= MaxCalls
  /\ got \in [1 .. MaxCalls -> 1 .. MaxCalls \cup {None}]
  /\ held \in [Relay -> Int]
  /\ deletes \in 0 .. MaxDeletes /\ {overlapped, clashed} \subseteq BOOLEAN
  /\ \A m \in asked : m.cmd \in {"connect", "custom"} /\ m.id \in TransId
  /\ stream_id_flag \in Int
  /\ play_stream_id \in 0 .. Modulus - 1
  /\ publish_stream_id \in 0 .. Modulus - 1

\* A callback given to call() gets the answer to its own command, although
\* ids are used again and the far application answers in any order.
AnswersMatch == \A k \in 1 .. MaxCalls : got[k] \in {None, k}

\* The far end never plays and publishes on one stream, and when nothing is on the way to
\* it, it plays and publishes on the very streams that edge and push of the near end
\* believe in: so unplay and unpublish are emitted for the streams that were stopped and
\* for no others. The ids of createStream break it (violated).
StreamsAgree ==
  /\ play_stream_id # 0 => play_stream_id # publish_stream_id
  /\ Open("near") /\ Open("far") /\ wire["far"] = <<>>
       => play_stream_id = held["edge"] /\ publish_stream_id = held["push"]

\* The same for an application that deletes no stream while it creates one: a third
\* deletion breaks it too (violated).
InTurnAgree == ~overlapped => StreamsAgree

\* Nothing but an id given twice makes the two ends disagree, in whatever order streams
\* are created, started and deleted, and whatever is on the way meanwhile.
RelayAgrees == ~clashed => StreamsAgree

\* createStream gives new ids up to the second deletion of a session, as long as no
\* stream is deleted while another one is being created.
IdsNew == deletes <= 2 /\ ~overlapped => ~clashed

\* Every call gets its answer, or the connection is closed.
CallsAnswered ==
  \A k \in 1 .. MaxCalls :
    k \in Pending ~> (k \notin Pending \/ ~Open("near"))
=============================================================================
