--------------------------- MODULE LifecycleProofs ---------------------------
(***************************************************************************)
(* Proofs about ClientLifecycle: the server's counter is exact and bounded,*)
(* data always tells the close callback what to delete, the ping timer is  *)
(* stopped before the client goes, and a closed client stays closed.       *)
(***************************************************************************)
EXTENDS ClientLifecycle, FiniteSetTheorems, TLAPS

\* The clients the server should count.
Held == {c \in Client : handle[c] = "open" /\ inbound[c]}

\* A client that is CLOSE has a closed socket or was refused; a refused one waits for
\* no answer that could make it ACCEPT.  Only the application's own connections connect.
Refused ==
  \A c \in Client :
    /\ handle[c] = "connecting" => ~inbound[c]
    /\ inbound[c] /\ connect_state[c] = "WAIT_ACCEPT" => ~asked[c]
    /\ connect_state[c] = "CLOSE" =>
         handle[c] = "closing" \/ (refused[c] /\ inbound[c] /\ ~asked[c])

\* The part of the invariant that speaks of one client at a time.
EachClient == DataFits /\ TimerNeverDangles /\ Refused

IInv == TypeOK /\ CountExact /\ EachClient

-----------------------------------------------------------------------------
(* The counter. *)

\* Nothing is counted and nobody comes or goes.
LEMMA CountKept ==
  ASSUME CountExact, client_count' = client_count, Held' = Held
  PROVE  CountExact'
BY DEF CountExact, Held

\* One more client and one more counted.
LEMMA CountUp ==
  ASSUME TypeOK, CountExact, NEW c \in Client, c \notin Held,
         Held' = Held \cup {c}, client_count' = client_count + 1
  PROVE  CountExact' /\ client_count' \in Nat
<1>1. IsFiniteSet(Held)
  BY ClientAssumption, FS_Subset DEF Held
<1>2. Cardinality(Held \cup {c}) = Cardinality(Held) + 1
  BY <1>1, FS_AddElement
<1>3. client_count = Cardinality(Held)
  BY DEF CountExact, Held
<1>4. client_count' = Cardinality(Held')
  BY <1>2, <1>3
<1> QED
  BY <1>4 DEF TypeOK, CountExact, Held

\* One client less and one less counted; the counter is not 0 before.
LEMMA CountDown ==
  ASSUME TypeOK, CountExact, NEW c \in Client, c \in Held,
         Held' = Held \ {c}, client_count' = client_count - 1
  PROVE  CountExact' /\ client_count' \in Nat
<1>1. IsFiniteSet(Held)
  BY ClientAssumption, FS_Subset DEF Held
<1>2. IsFiniteSet(Held \ {c}) /\ Cardinality(Held \ {c}) = Cardinality(Held) - 1
  BY <1>1, FS_RemoveElement
<1>3. client_count = Cardinality(Held)
  BY DEF CountExact, Held
<1>4. client_count' = Cardinality(Held')
  BY <1>2, <1>3
<1>5. Cardinality(Held') \in Nat
  BY <1>2, FS_CardinalityType
<1> QED
  BY <1>4, <1>5 DEF CountExact, Held

\* RtmpClient::close keeps the counter exact, whoever calls it.
LEMMA CloseCounts ==
  ASSUME TypeOK, CountExact, NEW c \in Client, handle[c] = "open",
         CloseSocket(c), inbound' = inbound
  PROVE  CountExact' /\ client_count' \in Nat
<1>1. CASE inbound[c]
  <2>1. c \in Held /\ Held' = Held \ {c}
    BY <1>1 DEF TypeOK, CloseSocket, Held
  <2>2. client_count' = client_count - 1
    BY <1>1 DEF CloseSocket
  <2> QED
    BY <2>1, <2>2, CountDown
<1>2. CASE ~inbound[c]
  <2>1. Held' = Held
    BY <1>2 DEF TypeOK, CloseSocket, Held
  <2>2. client_count' = client_count
    BY <1>2 DEF CloseSocket
  <2> QED
    BY <2>1, <2>2, CountKept DEF TypeOK
<1> QED
  BY <1>1, <1>2

\* And so does BlsClient.close().
LEMMA JsCloseCounts ==
  ASSUME TypeOK, CountExact, NEW c \in Client, CloseBlsClient(c), inbound' = inbound
  PROVE  CountExact' /\ client_count' \in Nat
<1>1. CASE handle[c] = "open" /\ connect_state[c] # "CLOSE"
  BY <1>1, CloseCounts DEF CloseBlsClient, Close
<1>2. CASE ~(handle[c] = "open" /\ connect_state[c] # "CLOSE")
  <2>1. client_count' = client_count /\ handle' = handle
    BY <1>2 DEF CloseBlsClient, Close
  <2> QED
    BY <2>1, CountKept DEF Held, TypeOK
<1> QED
  BY <1>1, <1>2

-----------------------------------------------------------------------------
(* The invariant. *)

\* It holds at the start.
LEMMA InitInv == Init => IInv
<1> SUFFICES ASSUME Init PROVE IInv
  OBVIOUS
<1>1. {c \in Client : handle[c] = "open" /\ inbound[c]} = {}
  BY DEF Init
<1>2. CountExact
  BY <1>1, FS_EmptySet DEF Init, CountExact
<1>3. TypeOK
  BY DEF Init, TypeOK
<1>4. EachClient
  BY DEF Init, EachClient, DataFits, TimerNeverDangles, Refused
<1> QED
  BY <1>2, <1>3, <1>4 DEF IInv

\* A connection comes: accepted and counted, refused, or made by the application.
LEMMA ComeInv ==
  ASSUME IInv, NEW c \in Client, Come(c)
  PROVE  IInv'
<1> USE DEF IInv
<1>1. CASE AcceptClient(c)
  <2>1. Held' = Held \cup {c} /\ c \notin Held
    BY <1>1 DEF TypeOK, AcceptClient, Held
  <2>2. CountExact' /\ client_count' \in Nat
    BY <1>1, <2>1, CountUp DEF AcceptClient
  <2>3. TypeOK'
    BY <1>1, <2>2 DEF TypeOK, AcceptClient, jsVars
  <2>4. EachClient'
    BY <1>1 DEF TypeOK, AcceptClient, jsVars, EachClient, DataFits, TimerNeverDangles,
                Refused
  <2> QED
    BY <2>2, <2>3, <2>4
<1>2. CASE RejectClient(c)
  <2>1. Held' = Held /\ client_count' = client_count
    BY <1>2, LeftoverAssumption DEF TypeOK, EachClient, Refused, RejectClient, Held
  <2>2. TypeOK'
    BY <1>2, LeftoverAssumption DEF TypeOK, RejectClient, vars, nativeVars, jsVars
  <2>3. EachClient'
    BY <1>2, LeftoverAssumption
    DEF TypeOK, RejectClient, vars, nativeVars, jsVars, EachClient, DataFits,
        TimerNeverDangles, Refused
  <2> QED
    BY <2>1, <2>2, <2>3, CountKept
<1>3. CASE RemoteConnect(c)
  <2>1. Held' = Held /\ client_count' = client_count
    BY <1>3, LeftoverAssumption DEF TypeOK, EachClient, Refused, RemoteConnect, Held
  <2>2. TypeOK'
    BY <1>3, LeftoverAssumption DEF TypeOK, RemoteConnect, vars, nativeVars, jsVars
  <2>3. EachClient'
    BY <1>3, LeftoverAssumption
    DEF TypeOK, RemoteConnect, vars, nativeVars, jsVars, EachClient, DataFits,
        TimerNeverDangles, Refused
  <2> QED
    BY <2>1, <2>2, <2>3, CountKept
<1>4. CASE RemoteConnected(c)
  <2>1. Held' = Held /\ client_count' = client_count
    BY <1>4 DEF TypeOK, EachClient, Refused, RemoteConnected, StartSession, Held
  <2>2. TypeOK'
    BY <1>4 DEF TypeOK, RemoteConnected, StartSession, vars, nativeVars, jsVars
  <2>3. EachClient'
    BY <1>4
    DEF TypeOK, RemoteConnected, StartSession, vars, nativeVars, jsVars, EachClient, DataFits,
        TimerNeverDangles, Refused
  <2> QED
    BY <2>1, <2>2, <2>3, CountKept
<1>5. CASE RemoteFailed(c)
  <2>1. Held' = Held /\ client_count' = client_count
    BY <1>5 DEF TypeOK, EachClient, Refused, RemoteFailed, Held
  <2>2. TypeOK'
    BY <1>5 DEF TypeOK, RemoteFailed, vars, nativeVars, jsVars
  <2>3. EachClient'
    BY <1>5
    DEF TypeOK, RemoteFailed, vars, nativeVars, jsVars, EachClient, DataFits,
        TimerNeverDangles, Refused
  <2> QED
    BY <2>1, <2>2, <2>3, CountKept
<1> QED
  BY <1>1, <1>2, <1>3, <1>4, <1>5 DEF Come

\* The handshake goes on, ends or fails.
LEMMA HandshakeInv ==
  ASSUME IInv, NEW c \in Client, Handshake(c)
  PROVE  IInv'
<1> USE DEF IInv
<1>1. CASE HandshakeAnswer(c)
  <2>1. Held' = Held /\ client_count' = client_count
    BY <1>1 DEF TypeOK, EachClient, Refused, HandshakeAnswer, Heard, Held
  <2>2. TypeOK'
    BY <1>1 DEF TypeOK, HandshakeAnswer, Heard, vars, nativeVars, jsVars
  <2>3. EachClient'
    BY <1>1
    DEF TypeOK, HandshakeAnswer, Heard, vars, nativeVars, jsVars, EachClient, DataFits,
        TimerNeverDangles, Refused
  <2> QED
    BY <2>1, <2>2, <2>3, CountKept
<1>2. CASE HandshakeWritten(c)
  <2>1. Held' = Held /\ client_count' = client_count
    BY <1>2 DEF TypeOK, EachClient, Refused, HandshakeWritten, Held
  <2>2. TypeOK'
    BY <1>2 DEF TypeOK, HandshakeWritten, vars, nativeVars, jsVars
  <2>3. EachClient'
    BY <1>2
    DEF TypeOK, HandshakeWritten, vars, nativeVars, jsVars, EachClient, DataFits,
        TimerNeverDangles, Refused
  <2> QED
    BY <2>1, <2>2, <2>3, CountKept
<1>3. CASE HandshakeFinish(c)
  <2>1. Held' = Held /\ client_count' = client_count
    BY <1>3 DEF TypeOK, EachClient, Refused, HandshakeFinish, Heard, StartSession, Held
  <2>2. TypeOK'
    BY <1>3 DEF TypeOK, HandshakeFinish, Heard, StartSession, vars, nativeVars, jsVars
  <2>3. EachClient'
    BY <1>3
    DEF TypeOK, HandshakeFinish, Heard, StartSession, vars, nativeVars, jsVars, EachClient, DataFits,
        TimerNeverDangles, Refused
  <2> QED
    BY <2>1, <2>2, <2>3, CountKept
<1>4. CASE HandshakeFail(c)
  <2>1. CountExact' /\ client_count' \in Nat
    BY <1>4, CloseCounts DEF HandshakeFail
  <2>2. TypeOK'
    BY <1>4, <2>1 DEF TypeOK, HandshakeFail, CloseSocket, jsVars
  <2>3. EachClient'
    BY <1>4 DEF TypeOK, HandshakeFail, CloseSocket, jsVars, EachClient, DataFits, TimerNeverDangles,
                Refused
  <2> QED
    BY <2>1, <2>2, <2>3
<1> QED
  BY <1>1, <1>2, <1>3, <1>4 DEF Handshake

\* The peer speaks or leaves, the timer ticks.
LEMMA SessionInv ==
  ASSUME IInv, NEW c \in Client, Session(c)
  PROVE  IInv'
<1> USE DEF IInv
<1>1. CASE PeerLeaves(c)
  <2>1. CountExact' /\ client_count' \in Nat
    BY <1>1, CloseCounts DEF PeerLeaves
  <2>2. TypeOK'
    BY <1>1, <2>1 DEF TypeOK, PeerLeaves, CloseSocket, jsVars
  <2>3. EachClient'
    BY <1>1 DEF TypeOK, PeerLeaves, CloseSocket, jsVars, EachClient, DataFits, TimerNeverDangles,
                Refused
  <2> QED
    BY <2>1, <2>2, <2>3
<1>2. CASE Pong(c)
  <2>1. Held' = Held /\ client_count' = client_count
    BY <1>2 DEF Pong, nativeVars, Held
  <2>2. TypeOK'
    BY <1>2 DEF TypeOK, Pong, Heard, vars, nativeVars, jsVars
  <2>3. EachClient'
    BY <1>2
    DEF TypeOK, Pong, Heard, vars, nativeVars, jsVars, EachClient, DataFits,
        TimerNeverDangles, Refused
  <2> QED
    BY <2>1, <2>2, <2>3, CountKept
<1>3. CASE Result(c)
  <2>1. Held' = Held /\ client_count' = client_count
    BY <1>3 DEF Result, nativeVars, Held
  <2>2. TypeOK'
    BY <1>3 DEF TypeOK, Result, Heard, vars, nativeVars, jsVars
  <2>3. EachClient'
    BY <1>3
    DEF TypeOK, Result, Heard, vars, nativeVars, jsVars, EachClient, DataFits,
        TimerNeverDangles, Refused
  <2> QED
    BY <2>1, <2>2, <2>3, CountKept
<1>4. CASE TimerTick(c) /\ recv_pong_flag[c]
  <2>1. Held' = Held /\ client_count' = client_count
    BY <1>4 DEF TimerTick, Held
  <2>2. TypeOK'
    BY <1>4 DEF TypeOK, TimerTick
  <2>3. EachClient'
    BY <1>4 DEF TimerTick, EachClient, DataFits, TimerNeverDangles, Refused
  <2> QED
    BY <2>1, <2>2, <2>3, CountKept
<1>5. CASE TimerTick(c) /\ ~recv_pong_flag[c]
  <2>1. CountExact' /\ client_count' \in Nat
    BY <1>5, JsCloseCounts DEF TimerTick
  <2>2. TypeOK'
    BY <1>5, <2>1 DEF TypeOK, TimerTick, CloseBlsClient, Close, CloseSocket
  <2>3. EachClient'
    BY <1>5 DEF TypeOK, TimerTick, CloseBlsClient, Close, CloseSocket, EachClient,
                DataFits, TimerNeverDangles, Refused
  <2> QED
    BY <2>1, <2>2, <2>3
<1>6. CASE FallSilent(c)
  <2>1. Held' = Held /\ client_count' = client_count
    BY <1>6 DEF FallSilent, nativeVars, Held
  <2>2. TypeOK'
    BY <1>6 DEF TypeOK, FallSilent, vars, nativeVars, jsVars
  <2>3. EachClient'
    BY <1>6
    DEF TypeOK, FallSilent, vars, nativeVars, jsVars, EachClient, DataFits,
        TimerNeverDangles, Refused
  <2> QED
    BY <2>1, <2>2, <2>3, CountKept
<1> QED
  BY <1>1, <1>2, <1>3, <1>4, <1>5, <1>6 DEF Session

\* The application accepts, refuses, calls or closes.
LEMMA ApplicationInv ==
  ASSUME IInv, NEW c \in Client, Application(c)
  PROVE  IInv'
<1> USE DEF IInv
<1>1. ASSUME NEW allow \in BOOLEAN, Accept(c, allow) PROVE IInv'
  <2>1. Held' = Held /\ client_count' = client_count
    BY <1>1 DEF Accept, nativeVars, Held
  <2>2. TypeOK'
    BY <1>1 DEF TypeOK, Accept, nativeVars
  <2>3. EachClient'
    BY <1>1 DEF TypeOK, Accept, nativeVars, EachClient, DataFits, TimerNeverDangles,
                Refused
  <2> QED
    BY <2>1, <2>2, <2>3, CountKept
<1>2. CASE Call(c)
  <2>1. Held' = Held /\ client_count' = client_count
    BY <1>2 DEF Call, nativeVars, Held
  <2>2. TypeOK'
    BY <1>2 DEF TypeOK, Call, vars, nativeVars, jsVars
  <2>3. EachClient'
    BY <1>2
    DEF TypeOK, Call, vars, nativeVars, jsVars, EachClient, DataFits,
        TimerNeverDangles, Refused
  <2> QED
    BY <2>1, <2>2, <2>3, CountKept
<1>3. CASE JsClose(c)
  <2>1. CountExact' /\ client_count' \in Nat
    BY <1>3, JsCloseCounts DEF JsClose
  <2>2. TypeOK'
    BY <1>3, <2>1 DEF TypeOK, JsClose, CloseBlsClient, Close, CloseSocket, jsVars
  <2>3. EachClient'
    BY <1>3 DEF TypeOK, JsClose, CloseBlsClient, Close, CloseSocket, jsVars, EachClient, DataFits, TimerNeverDangles,
                Refused
  <2> QED
    BY <2>1, <2>2, <2>3
<1> QED
  BY <1>1, <1>2, <1>3 DEF Application

\* bls_close_tcp_cb.
LEMMA CloseCallbackInv ==
  ASSUME IInv, NEW c \in Client, CloseCallback(c)
  PROVE  IInv'
<1> USE DEF IInv
<1>1. CASE CloseSession(c)
  <2>1. Held' = Held /\ client_count' = client_count
    BY <1>1 DEF TypeOK, EachClient, Refused, CloseSession, Held
  <2>2. TypeOK'
    BY <1>1 DEF TypeOK, CloseSession, vars, nativeVars, jsVars
  <2>3. EachClient'
    BY <1>1
    DEF TypeOK, CloseSession, vars, nativeVars, jsVars, EachClient, DataFits,
        TimerNeverDangles, Refused
  <2> QED
    BY <2>1, <2>2, <2>3, CountKept
<1>2. CASE CloseHandle(c)
  <2>1. Held' = Held /\ client_count' = client_count
    BY <1>2 DEF TypeOK, EachClient, Refused, CloseHandle, Held
  <2>2. TypeOK'
    BY <1>2 DEF TypeOK, CloseHandle, vars, nativeVars, jsVars
  <2>3. EachClient'
    BY <1>2
    DEF TypeOK, CloseHandle, vars, nativeVars, jsVars, EachClient, DataFits,
        TimerNeverDangles, Refused
  <2> QED
    BY <2>1, <2>2, <2>3, CountKept
<1>3. CASE CloseStale(c)
  <2>1. Held' = Held /\ client_count' = client_count
    BY <1>3 DEF CloseStale, nativeVars, Held
  <2>2. TypeOK'
    BY <1>3 DEF TypeOK, CloseStale, vars, nativeVars, jsVars
  <2>3. EachClient'
    BY <1>3
    DEF TypeOK, CloseStale, vars, nativeVars, jsVars, EachClient, DataFits,
        TimerNeverDangles, Refused
  <2> QED
    BY <2>1, <2>2, <2>3, CountKept
<1> QED
  BY <1>1, <1>2, <1>3 DEF CloseCallback

\* A step that changes nothing.
LEMMA StutterInv == IInv /\ UNCHANGED vars => IInv'
<1> SUFFICES ASSUME IInv, UNCHANGED vars PROVE IInv'
  OBVIOUS
<1>1. TypeOK' /\ EachClient'
  BY DEF IInv, TypeOK, EachClient, DataFits, TimerNeverDangles, Refused, vars,
         nativeVars, jsVars
<1>2. Held' = Held /\ client_count' = client_count
  BY DEF Held, vars, nativeVars
<1> QED
  BY <1>1, <1>2, CountKept DEF IInv

\* What is true of every reachable state.
THEOREM LifecycleInvariant == Spec => []IInv
<1>1. Init => IInv
  BY InitInv
<1>2. IInv /\ [Next]_vars => IInv'
  BY ComeInv, HandshakeInv, SessionInv, ApplicationInv, CloseCallbackInv, StutterInv
  DEF Next
<1> QED
  BY <1>1, <1>2, PTL DEF Spec

\* The types of the variables.
THEOREM LifecycleTypes == Spec => []TypeOK
<1>1. IInv => TypeOK
  BY DEF IInv
<1> QED
  BY <1>1, LifecycleInvariant, PTL

\* RtmpServer::client_count is the number of open connections that were accepted.
THEOREM CounterIsExact == Spec => []CountExact
<1>1. IInv => CountExact
  BY DEF IInv
<1> QED
  BY <1>1, LifecycleInvariant, PTL

\* The close callback deletes the protocol of a closed session, and nothing else.
THEOREM DataAlwaysFits == Spec => []DataFits
<1>1. IInv => DataFits
  BY DEF IInv, EachClient
<1> QED
  BY <1>1, LifecycleInvariant, PTL

\* The ping timer is stopped before the client it pings is deleted.
THEOREM TimerStopsInTime == Spec => []TimerNeverDangles
<1>1. IInv => TimerNeverDangles
  BY DEF IInv, EachClient
<1> QED
  BY <1>1, LifecycleInvariant, PTL

\* The server holds at most max_client_num + 1 clients, however they come and go.
THEOREM AtMostOneTooMany == Spec => []CountBounded
<1>1. Init => CountBounded
  BY MaxAssumption DEF Init, CountBounded
<1>2. TypeOK /\ CountBounded /\ [Next]_vars => CountBounded'
  <2> SUFFICES ASSUME TypeOK, CountBounded, [Next]_vars PROVE CountBounded'
    OBVIOUS
  <2> DEFINE Counted == \/ client_count' \in {client_count, client_count - 1}
                        \/ HasRoom /\ client_count' = client_count + 1
  <2>1. Counted
    <3>1. CASE UNCHANGED vars
      BY <3>1 DEF vars
    <3>2. ASSUME NEW c \in Client, Come(c) \/ Handshake(c) PROVE Counted
      BY <3>2
      DEF Come, Handshake, AcceptClient, RejectClient, RemoteConnect, RemoteConnected,
          RemoteFailed, HandshakeAnswer, HandshakeWritten, HandshakeFinish, HandshakeFail,
          CloseSocket
    <3>3. ASSUME NEW c \in Client, Session(c) \/ Application(c) \/ CloseCallback(c)
          PROVE Counted
      BY <3>3
      DEF Session, Application, CloseCallback, PeerLeaves, Pong, Result, TimerTick,
          FallSilent, Accept, Call, JsClose, CloseSession, CloseHandle, CloseStale,
          CloseBlsClient, Close, CloseSocket
    <3> QED
      BY <3>1, <3>2, <3>3 DEF Next
  <2> QED
    BY <2>1, MaxAssumption DEF TypeOK, CountBounded, HasRoom
<1> QED
  BY <1>1, <1>2, LifecycleTypes, PTL DEF Spec

\* A closed client is never accepted again.
THEOREM ClosedStaysClosed == Spec => ClosedIsFinal
<1> DEFINE Final == \A c \in Client :
                      connect_state[c] = "CLOSE" => connect_state'[c] \in {"CLOSE", "none"}
<1>1. IInv /\ [Next]_vars => [Final]_vars
  <2> SUFFICES ASSUME IInv, Next PROVE Final
    OBVIOUS
  <2>1. PICK c \in Client :
          Come(c) \/ Handshake(c) \/ Session(c) \/ Application(c) \/ CloseCallback(c)
    BY DEF Next
  <2>2. CASE Come(c) \/ Handshake(c)
    BY <2>2
    DEF IInv, TypeOK, EachClient, DataFits, TimerNeverDangles, Come, Handshake,
        AcceptClient, RejectClient, RemoteConnect, RemoteConnected, RemoteFailed,
        HandshakeAnswer, HandshakeWritten, HandshakeFinish, HandshakeFail, StartSession,
        Heard, jsVars
  <2>3. CASE Session(c)
    BY <2>3
    DEF IInv, TypeOK, EachClient, Refused, Session, PeerLeaves, Pong, Result, TimerTick,
        FallSilent, CloseBlsClient, Heard, jsVars
  <2>4. CASE Application(c) \/ CloseCallback(c)
    BY <2>4
    DEF IInv, TypeOK, Application, Accept, Call, JsClose, CloseBlsClient, CloseCallback,
        CloseSession, CloseHandle, CloseStale, jsVars
  <2> QED
    BY <2>1, <2>2, <2>3, <2>4
<1> QED
  BY <1>1, LifecycleInvariant, PTL DEF Spec, ClosedIsFinal

\* is_closed() is true only of clients whose socket is closed or that were refused.
THEOREM ClosedIsClosed == Spec => []ClosedMeansClosed
<1>1. IInv => ClosedMeansClosed
  BY DEF IInv, EachClient, Refused, ClosedMeansClosed
<1> QED
  BY <1>1, LifecycleInvariant, PTL
=============================================================================
