--------------------------- MODULE MessageChannels ---------------------------
(***************************************************************************)
(* What an RTMP connection promises about the messages of one direction,   *)
(* whatever chunks they travel in: each channel (chunk stream) delivers    *)
(* the messages that were sent on it, each once, whole and in order, until *)
(* the connection ends or can no longer be relied on.  From then on        *)
(* nothing is promised, not even that it recovers.  ChunkReader shows that *)
(* the reader of RtmpProtocol keeps this promise.                          *)
(***************************************************************************)
EXTENDS Sequences

CONSTANTS None, Channel, Message

VARIABLES
  flight,   \* flight[c]: the messages of which the last byte has been sent on c
            \* and which are not delivered yet
  handed,   \* the last message delivered, with its channel, or None
  up        \* the connection stands and can be relied on

vars == <<flight, handed, up>>

Init ==
  /\ flight = [c \in Channel |-> <<>>]
  /\ handed = None
  /\ up = TRUE

Sent(c) == \E m \in Message : flight' = [flight EXCEPT ![c] = Append(@, m)]

Send(c) ==
  /\ Sent(c)
  /\ UNCHANGED <<handed, up>>

\* A message may be one that makes the receiver hang up.
Deliver(c) ==
  /\ up
  /\ flight[c] # <<>>
  /\ handed' = <<c, Head(flight[c])>>
  /\ flight' = [flight EXCEPT ![c] = Tail(@)]
  /\ up' \in BOOLEAN

\* It may be the last message sent that makes the connection unreliable.
HangUp ==
  /\ up
  /\ up' = FALSE
  /\ flight' = flight \/ \E c \in Channel : Sent(c)
  /\ UNCHANGED handed

Down == ~up /\ ~up'

Next ==
  \/ \E c \in Channel : Send(c) \/ Deliver(c)
  \/ HangUp
  \/ Down

Spec == Init /\ [][Next]_vars /\ \A c \in Channel : WF_vars(Deliver(c))
=============================================================================
