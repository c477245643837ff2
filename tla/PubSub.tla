------------------------------- MODULE PubSub -------------------------------
(***************************************************************************)
(* What the server promises about live streams, without saying how: a name *)
(* has at most one publisher, a client publishes at most one name and      *)
(* listens to at most one, and a stream ends only after every member of    *)
(* its audience has been told.  StreamHub shows that the source pool, the  *)
(* source map and the consumer queues keep this promise.                   *)
(***************************************************************************)
CONSTANTS Client, Name, None

VARIABLES
  publisher,   \* publisher[n]: the client publishing n, or None
  audience,    \* audience[n]: the clients that get what is published on n
  told         \* told[n]: the part of the audience that knows n is ending

vars == <<publisher, audience, told>>

TypeOK ==
  /\ publisher \in [Name -> Client \cup {None}]
  /\ audience \in [Name -> SUBSET Client]
  /\ told \in [Name -> SUBSET Client]

Init ==
  /\ publisher = [n \in Name |-> None]
  /\ audience = [n \in Name |-> {}]
  /\ told = [n \in Name |-> {}]

Start(c, n) ==
  /\ publisher[n] = None
  /\ \A m \in Name : publisher[m] # c
  /\ publisher' = [publisher EXCEPT ![n] = c]
  /\ UNCHANGED <<audience, told>>

\* A client may still join a stream that is ending: it is told like the others.
Join(c, n) ==
  /\ publisher[n] # None
  /\ \A m \in Name : c \notin audience[m]
  /\ audience' = [audience EXCEPT ![n] = @ \cup {c}]
  /\ UNCHANGED <<publisher, told>>

\* A client leaves on its own account: before the stream has begun to end.
Leave(c, n) ==
  /\ c \in audience[n] \ told[n]
  /\ audience' = [audience EXCEPT ![n] = @ \ {c}]
  /\ UNCHANGED <<publisher, told>>

Tell(c, n) ==
  /\ c \in audience[n] \ told[n]
  /\ told' = [told EXCEPT ![n] = @ \cup {c}]
  /\ UNCHANGED <<publisher, audience>>

Finish(n) ==
  /\ publisher[n] # None
  /\ told[n] = audience[n]
  /\ publisher' = [publisher EXCEPT ![n] = None]
  /\ audience' = [audience EXCEPT ![n] = {}]
  /\ told' = [told EXCEPT ![n] = {}]

Next ==
  \E n \in Name :
    \/ \E c \in Client : Start(c, n) \/ Join(c, n) \/ Leave(c, n) \/ Tell(c, n)
    \/ Finish(n)

Spec == Init /\ [][Next]_vars
=============================================================================
