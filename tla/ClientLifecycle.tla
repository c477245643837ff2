--------------------------- MODULE ClientLifecycle ---------------------------
(***************************************************************************)
(* A connection from accept to bls_close_tcp_cb: the uv_tcp_t and what its *)
(* data field points to, the handshake, the native objects (RtmpClient,    *)
(* bls_handshake_t, RtmpProtocol), the number of clients the server counts *)
(* and the BlsClient with its ping timer.  uv_close answers later, so that *)
(* a connection is refused, fails its handshake or is closed in one event  *)
(* of the loop and is freed in another, in which only data tells the       *)
(* callback what there is to delete.                                       *)
(***************************************************************************)
EXTENDS Naturals, FiniteSets

CONSTANTS
  Client,          \* slots for connections, each used again and again
  max_client_num,
  Leftover         \* what data of a new uv_tcp_t may hold: malloc does not clear it

ASSUME ClientAssumption == IsFiniteSet(Client)
ASSUME MaxAssumption == max_client_num \in Nat
ASSUME LeftoverAssumption == Leftover \subseteq {"NULL", "stale"} /\ Leftover # {}

VARIABLES
  handle,          \* the uv_tcp_t: "none", "connecting", "open" or "closing"
  data,            \* uv_tcp_t::data: "NULL", "hs", "read_info", "protocol", or
                   \* "stale", a pointer to something that was freed
  hs,              \* which part of the handshake bls_handshake_t waits for:
                   \* "C0C1", the write of "S", "C2", or "none" without one
  protocol,        \* the RtmpProtocol exists
  inbound,         \* RtmpClient::rtmp_server is not NULL
  client_count,
  connect_state,   \* of the BlsClient; "none" before it is made and after "close"
  ping_pong_timer, \* the interval timer of the BlsClient runs
  recv_pong_flag,
  asked,           \* transid_cb holds a callback of connect() or call()
  refused,         \* history: the application answered "connect" with accept(false)
  silent,          \* the peer has stopped answering, its TCP connection stays up
  aborted          \* something was deleted twice

nativeVars == <<handle, data, hs, protocol, inbound>>
jsVars == <<connect_state, ping_pong_timer, recv_pong_flag, asked, refused>>
vars == <<nativeVars, client_count, jsVars, silent, aborted>>

TypeOK ==
  /\ handle \in [Client -> {"none", "connecting", "open", "closing"}]
  /\ data \in [Client -> {"NULL", "hs", "read_info", "protocol", "stale"}]
  /\ hs \in [Client -> {"none", "C0C1", "S", "C2"}]
  /\ protocol \in [Client -> BOOLEAN]
  /\ inbound \in [Client -> BOOLEAN]
  /\ client_count \in Nat
  /\ connect_state \in [Client -> {"none", "WAIT_ACCEPT", "ACCEPT", "CLOSE"}]
  /\ ping_pong_timer \in [Client -> BOOLEAN]
  /\ recv_pong_flag \in [Client -> BOOLEAN]
  /\ asked \in [Client -> BOOLEAN]
  /\ refused \in [Client -> BOOLEAN]
  /\ silent \in [Client -> BOOLEAN]
  /\ aborted \in BOOLEAN

Init ==
  /\ handle = [c \in Client |-> "none"]
  /\ data = [c \in Client |-> "NULL"]
  /\ hs = [c \in Client |-> "none"]
  /\ protocol = [c \in Client |-> FALSE]
  /\ inbound = [c \in Client |-> FALSE]
  /\ client_count = 0
  /\ connect_state = [c \in Client |-> "none"]
  /\ ping_pong_timer = [c \in Client |-> FALSE]
  /\ recv_pong_flag = [c \in Client |-> FALSE]
  /\ asked = [c \in Client |-> FALSE]
  /\ refused = [c \in Client |-> FALSE]
  /\ silent = [c \in Client |-> FALSE]
  /\ aborted = FALSE

-----------------------------------------------------------------------------
(* Helpers. *)

\* The peer sends something.
Heard(c) == handle[c] = "open" /\ ~silent[c]

\* Mutant: data is left as the session set it.
CloseSocketReading(c) ==
  /\ handle' = [handle EXCEPT ![c] = "closing"]
  /\ client_count' = IF inbound[c] THEN client_count - 1 ELSE client_count
  /\ UNCHANGED data

\* RtmpClient::close of an open client: the protocol, if there is one, is handed to
\* the close callback.
CloseSocket(c) ==
  /\ handle' = [handle EXCEPT ![c] = "closing"]
  /\ data' = [data EXCEPT ![c] = IF protocol[c] THEN "protocol" ELSE "NULL"]
  /\ client_count' = IF inbound[c] THEN client_count - 1 ELSE client_count

\* Mutant: a closed client is closed, and counted, again.
CloseAgain(c) == CloseSocket(c)

\* RtmpClient::close: nothing happens when uv_client is NULL already.
Close(c) == IF handle[c] = "open" THEN CloseSocket(c)
            ELSE UNCHANGED <<handle, data, client_count>>

\* The handshake is over, or there is none: a new RtmpProtocol reads the first chunk
\* header, and the connect callback makes a BlsClient.
StartSession(c) ==
  /\ protocol' = [protocol EXCEPT ![c] = TRUE]
  /\ data' = [data EXCEPT ![c] = "read_info"]
  /\ hs' = [hs EXCEPT ![c] = "none"]
  /\ connect_state' = [connect_state EXCEPT ![c] = "WAIT_ACCEPT"]
  /\ ping_pong_timer' = [ping_pong_timer EXCEPT ![c] = TRUE]
  /\ recv_pong_flag' = [recv_pong_flag EXCEPT ![c] = TRUE]
  /\ asked' = [asked EXCEPT ![c] = FALSE]
  /\ refused' = [refused EXCEPT ![c] = FALSE]

\* Mutant: only the state changes.
CloseBlsClientInName(c) ==
  /\ connect_state' = [connect_state EXCEPT ![c] = "CLOSE"]
  /\ UNCHANGED <<handle, data, client_count>>

\* BlsClient.close().
CloseBlsClient(c) ==
  IF connect_state[c] = "CLOSE" THEN UNCHANGED <<handle, data, client_count, connect_state>>
  ELSE Close(c) /\ connect_state' = [connect_state EXCEPT ![c] = "CLOSE"]

\* The server takes one more client: the comparison is with >.
HasRoom == client_count <= max_client_num

-----------------------------------------------------------------------------
(* Coming. *)

\* on_new_connection with room: counted, and the handshake begins.
AcceptClient(c) ==
  /\ handle[c] = "none"
  /\ HasRoom
  /\ handle' = [handle EXCEPT ![c] = "open"]
  /\ data' = [data EXCEPT ![c] = "hs"]
  /\ hs' = [hs EXCEPT ![c] = "C0C1"]
  /\ inbound' = [inbound EXCEPT ![c] = TRUE]
  /\ client_count' = client_count + 1
  /\ silent' = [silent EXCEPT ![c] = FALSE]
  /\ UNCHANGED <<protocol, jsVars, aborted>>

\* Without room, or with room when uv_accept fails: the handle is closed as malloc and
\* uv_accept left it.
RejectClient(c) ==
  /\ handle[c] = "none"
  /\ handle' = [handle EXCEPT ![c] = "closing"]
  /\ \E d \in Leftover : data' = [data EXCEPT ![c] = d]
  /\ UNCHANGED <<hs, protocol, inbound, client_count, jsVars, silent, aborted>>

\* remote_connect().
RemoteConnect(c) ==
  /\ handle[c] = "none"
  /\ handle' = [handle EXCEPT ![c] = "connecting"]
  /\ \E d \in Leftover : data' = [data EXCEPT ![c] = d]
  /\ inbound' = [inbound EXCEPT ![c] = FALSE]
  /\ silent' = [silent EXCEPT ![c] = FALSE]
  /\ UNCHANGED <<hs, protocol, client_count, jsVars, aborted>>

\* _remote_connect_cb: with the private signature there is no handshake to wait for;
\* rtmp_server is NULL, so the client is not counted.
RemoteConnected(c) ==
  /\ handle[c] = "connecting"
  /\ handle' = [handle EXCEPT ![c] = "open"]
  /\ StartSession(c)
  /\ UNCHANGED <<inbound, client_count, silent, aborted>>

RemoteFailed(c) ==
  /\ handle[c] = "connecting"
  /\ handle' = [handle EXCEPT ![c] = "closing"]
  /\ data' = [data EXCEPT ![c] = "NULL"]
  /\ UNCHANGED <<hs, protocol, inbound, client_count, jsVars, silent, aborted>>

-----------------------------------------------------------------------------
(* The handshake. *)

\* hs_read_buffer has C0 and C1, and answers: reading stops until that is written.
HandshakeAnswer(c) ==
  /\ Heard(c) /\ hs[c] = "C0C1"
  /\ hs' = [hs EXCEPT ![c] = "S"]
  /\ UNCHANGED <<handle, data, protocol, inbound, client_count, jsVars, silent, aborted>>

\* send_hs_server_response_cb.
HandshakeWritten(c) ==
  /\ handle[c] = "open" /\ hs[c] = "S"
  /\ hs' = [hs EXCEPT ![c] = "C2"]
  /\ UNCHANGED <<handle, data, protocol, inbound, client_count, jsVars, silent, aborted>>

\* C2, or the private signature of another server in place of C0 and C1.
HandshakeFinish(c) ==
  /\ Heard(c) /\ hs[c] \in {"C0C1", "C2"}
  /\ StartSession(c)
  /\ UNCHANGED <<handle, inbound, client_count, silent, aborted>>

\* Mutant: the client is deleted, its handle closed, and nobody tells the server.
HandshakeFailUncounted(c) ==
  /\ handle[c] = "open" /\ hs[c] # "none"
  /\ handle' = [handle EXCEPT ![c] = "closing"]
  /\ data' = [data EXCEPT ![c] = "NULL"]
  /\ hs' = [hs EXCEPT ![c] = "none"]
  /\ UNCHANGED <<protocol, inbound, client_count, jsVars, silent, aborted>>

\* HAND_SHAKE_FAIL, after a failed read or write or bad data: the RtmpClient and the
\* bls_handshake_t are deleted at once.
HandshakeFail(c) ==
  /\ handle[c] = "open" /\ hs[c] # "none"
  /\ CloseSocket(c)
  /\ hs' = [hs EXCEPT ![c] = "none"]
  /\ UNCHANGED <<protocol, inbound, jsVars, silent, aborted>>

-----------------------------------------------------------------------------
(* The session. *)

\* chunk_state_machine: a failed read or a malformed message.
PeerLeaves(c) ==
  /\ handle[c] = "open" /\ protocol[c]
  /\ CloseSocket(c)
  /\ UNCHANGED <<hs, protocol, inbound, jsVars, silent, aborted>>

\* The peer answers a ping.
Pong(c) ==
  /\ Heard(c) /\ protocol[c]
  /\ recv_pong_flag' = [recv_pong_flag EXCEPT ![c] = TRUE]
  /\ UNCHANGED <<nativeVars, client_count, connect_state, ping_pong_timer, asked,
                 refused, silent, aborted>>

\* Mutant: any "_result" counts.
ResultUnasked(c) ==
  /\ Heard(c) /\ protocol[c]
  /\ connect_state' = [connect_state EXCEPT ![c] = "ACCEPT"]
  /\ asked' = [asked EXCEPT ![c] = FALSE]
  /\ UNCHANGED <<nativeVars, client_count, ping_pong_timer, recv_pong_flag, refused,
                 silent, aborted>>

\* "_result" or "_error" to a call whose callback is kept.
Result(c) ==
  /\ Heard(c) /\ protocol[c]
  /\ asked[c]
  /\ connect_state' = [connect_state EXCEPT ![c] = "ACCEPT"]
  /\ asked' = [asked EXCEPT ![c] = FALSE]
  /\ UNCHANGED <<nativeVars, client_count, ping_pong_timer, recv_pong_flag, refused,
                 silent, aborted>>

\* Mutant: the flag is not reset with the ping.
TimerTickForgetful(c) ==
  /\ ping_pong_timer[c]
  /\ IF recv_pong_flag[c] THEN UNCHANGED <<handle, data, client_count, connect_state>>
     ELSE CloseBlsClient(c)
  /\ UNCHANGED <<hs, protocol, inbound, ping_pong_timer, recv_pong_flag, asked, refused,
                 silent, aborted>>

\* The ping timer: a ping, or the end of a client that did not answer the last one.
TimerTick(c) ==
  /\ ping_pong_timer[c]
  /\ IF recv_pong_flag[c]
     THEN /\ recv_pong_flag' = [recv_pong_flag EXCEPT ![c] = FALSE]
          /\ UNCHANGED <<handle, data, client_count, connect_state>>
     ELSE CloseBlsClient(c) /\ UNCHANGED recv_pong_flag
  /\ UNCHANGED <<hs, protocol, inbound, ping_pong_timer, asked, refused, silent,
                 aborted>>

-----------------------------------------------------------------------------
(* The application. *)

\* accept(), the answer to the command "connect" of the peer.  A client that is refused
\* is CLOSE, its socket stays open.
Accept(c, allow) ==
  /\ connect_state[c] = "WAIT_ACCEPT" /\ inbound[c]
  /\ refused' = [refused EXCEPT ![c] = ~allow]
  /\ connect_state' = [connect_state EXCEPT ![c] = IF allow THEN "ACCEPT" ELSE "CLOSE"]
  /\ UNCHANGED <<nativeVars, client_count, ping_pong_timer, recv_pong_flag, asked,
                 silent, aborted>>

\* call() with a callback, of an accepted client; connect(), of a client the
\* application has connected, whatever its state.
Call(c) ==
  /\ connect_state[c] = "ACCEPT" \/ (connect_state[c] # "none" /\ ~inbound[c])
  /\ asked' = [asked EXCEPT ![c] = TRUE]
  /\ UNCHANGED <<nativeVars, client_count, connect_state, ping_pong_timer,
                 recv_pong_flag, refused, silent, aborted>>

JsClose(c) ==
  /\ connect_state[c] # "none"
  /\ CloseBlsClient(c)
  /\ UNCHANGED <<hs, protocol, inbound, ping_pong_timer, recv_pong_flag, asked, refused,
                 silent, aborted>>

-----------------------------------------------------------------------------
(* Going. *)

\* Mutant: the timer is not cleared.
CloseSessionTicking(c) ==
  /\ handle[c] = "closing" /\ data[c] = "protocol"
  /\ handle' = [handle EXCEPT ![c] = "none"]
  /\ data' = [data EXCEPT ![c] = "NULL"]
  /\ protocol' = [protocol EXCEPT ![c] = FALSE]
  /\ connect_state' = [connect_state EXCEPT ![c] = "none"]
  /\ asked' = [asked EXCEPT ![c] = FALSE]
  /\ refused' = [refused EXCEPT ![c] = FALSE]
  /\ UNCHANGED <<hs, inbound, client_count, ping_pong_timer, recv_pong_flag, silent, aborted>>

\* bls_close_tcp_cb with a protocol: its destructor gives "close" to the application,
\* which stops the timer, and deletes the RtmpClient.
CloseSession(c) ==
  /\ handle[c] = "closing" /\ data[c] = "protocol"
  /\ handle' = [handle EXCEPT ![c] = "none"]
  /\ data' = [data EXCEPT ![c] = "NULL"]
  /\ protocol' = [protocol EXCEPT ![c] = FALSE]
  /\ connect_state' = [connect_state EXCEPT ![c] = "none"]
  /\ ping_pong_timer' = [ping_pong_timer EXCEPT ![c] = FALSE]
  /\ asked' = [asked EXCEPT ![c] = FALSE]
  /\ refused' = [refused EXCEPT ![c] = FALSE]
  /\ UNCHANGED <<hs, inbound, client_count, recv_pong_flag, silent, aborted>>

\* bls_close_tcp_cb without one.
CloseHandle(c) ==
  /\ handle[c] = "closing" /\ data[c] = "NULL"
  /\ handle' = [handle EXCEPT ![c] = "none"]
  /\ UNCHANGED <<data, hs, protocol, inbound, client_count, jsVars, silent, aborted>>

\* bls_close_tcp_cb with a pointer nobody set: it is deleted all the same.
CloseStale(c) ==
  /\ handle[c] = "closing" /\ data[c] = "stale"
  /\ aborted' = TRUE
  /\ UNCHANGED <<nativeVars, client_count, jsVars, silent>>

CloseCallback(c) == CloseSession(c) \/ CloseHandle(c) \/ CloseStale(c)

\* The environment: a peer stops answering and does not hang up.
FallSilent(c) ==
  /\ handle[c] = "open" /\ ~silent[c]
  /\ silent' = [silent EXCEPT ![c] = TRUE]
  /\ UNCHANGED <<nativeVars, client_count, jsVars, aborted>>

-----------------------------------------------------------------------------

Come(c) == AcceptClient(c) \/ RejectClient(c) \/ RemoteConnect(c) \/ RemoteConnected(c)
           \/ RemoteFailed(c)

Handshake(c) == HandshakeAnswer(c) \/ HandshakeWritten(c) \/ HandshakeFinish(c)
                \/ HandshakeFail(c)

Session(c) == PeerLeaves(c) \/ Pong(c) \/ Result(c) \/ TimerTick(c) \/ FallSilent(c)

Application(c) == (\E allow \in BOOLEAN : Accept(c, allow)) \/ Call(c) \/ JsClose(c)

Next ==
  /\ ~aborted
  /\ \E c \in Client :
       Come(c) \/ Handshake(c) \/ Session(c) \/ Application(c) \/ CloseCallback(c)

Spec == Init /\ [][Next]_vars

\* The interval timer of node fires while it is armed, and libuv looks at its closing
\* handles in every iteration of a loop that runs.
Fairness ==
  \A c \in Client :
    WF_vars(~aborted /\ TimerTick(c)) /\ WF_vars(~aborted /\ CloseCallback(c))

FairSpec == Spec /\ Fairness

-----------------------------------------------------------------------------
(* Properties. *)

\* The counter of the server is the number of its open connections: a close that
\* counts twice, or a failed handshake that does not count, moves it for good
\* (RtmpServer::accept_client, RtmpClient::close, HAND_SHAKE_FAIL).
CountExact == client_count = Cardinality({c \in Client : handle[c] = "open" /\ inbound[c]})

\* The limit as README.md states it: "the maximum number of clients connect to server
\* concurrently" (RtmpServer::accept_client compares with >).
WithinLimit == client_count <= max_client_num

\* The limit the server keeps: one client more.
CountBounded == client_count <= max_client_num + 1

\* The callbacks of a handle cast its data: to the handshake while there is one, to
\* read_info in a session, to the protocol or NULL when it closes, and the one object
\* nobody else would delete is never left out.
DataFits ==
  \A c \in Client :
    /\ handle[c] = "open" => data[c] = IF protocol[c] THEN "read_info" ELSE "hs"
    /\ handle[c] = "open" => (hs[c] = "none" <=> protocol[c])
    /\ handle[c] = "closing" => (data[c] = "protocol" <=> protocol[c])
    /\ handle[c] # "open" => hs[c] = "none"
    /\ protocol[c] => handle[c] \in {"open", "closing"}

\* The ping timer and the application reach the native client through a pointer that
\* is good as long as there is a protocol: no timer outlives it, and a BlsClient that
\* does not say it is closed always has one.
TimerNeverDangles ==
  \A c \in Client :
    /\ ping_pong_timer[c] => protocol[c]
    /\ connect_state[c] # "none" <=> protocol[c]

\* is_closed() is true only of a client whose socket is closed (README.md: "return
\* True if client is not alive"), or that the application has refused: accept(false)
\* says CLOSE and leaves the socket open, and close() then returns early.
ClosedMeansClosed ==
  \A c \in Client : connect_state[c] = "CLOSE" /\ ~refused[c] => handle[c] = "closing"

\* A closed client is never taken for an accepted one again, late answers to its calls
\* included.
ClosedIsFinal ==
  [][\A c \in Client : connect_state[c] = "CLOSE" => connect_state'[c] \in {"CLOSE", "none"}]_vars

\* A connection that is refused is just refused.
RefusedQuietly == ~aborted

\* The ping finds out whether a client is alive: a session whose peer is silent ends,
\* and whatever is closed is freed.  It does not end the session of a client that was
\* refused (close() does nothing for CLOSE), nor anything after a double deletion.
SilentSessionsEnd ==
  \A c \in Client :
    /\ (silent[c] /\ protocol[c]) ~> (~protocol[c] \/ refused[c] \/ aborted)
    /\ (handle[c] = "closing") ~> (handle[c] = "none" \/ aborted)
=============================================================================
