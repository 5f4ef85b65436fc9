------------------------ MODULE RequestResponseDesign ------------------------
(***************************************************************************)
(* What RequestResponseChannel::transact promises its callers: the server  *)
(* answers one call at a time, and what a call returns is the answer to    *)
(* the request that call made.                                             *)
(***************************************************************************)
CONSTANTS
  Clients,   \* the tasks that call transact
  Requests   \* the requests they make

VARIABLES
  pending,   \* per client: the request not answered yet, as a set
  answered,  \* per client: the request answered but not returned, as a set
  returned   \* per client: the request its last call got the answer to, as a set

vars == <<pending, answered, returned>>

Nothing == [c \in Clients |-> {}]

Init ==
  /\ pending = Nothing
  /\ answered = Nothing
  /\ returned = Nothing

Ask(c, r) ==
  /\ pending[c] = {}
  /\ answered[c] = {}
  /\ pending' = [pending EXCEPT ![c] = {r}]
  /\ UNCHANGED <<answered, returned>>

\* An answer nobody has taken yet keeps the server from answering another call.
Answer(c) ==
  /\ pending[c] # {}
  /\ answered = Nothing
  /\ answered' = [answered EXCEPT ![c] = pending[c]]
  /\ pending' = [pending EXCEPT ![c] = {}]
  /\ UNCHANGED returned

Return(c) ==
  /\ answered[c] # {}
  /\ returned' = [returned EXCEPT ![c] = answered[c]]
  /\ answered' = [answered EXCEPT ![c] = {}]
  /\ UNCHANGED pending

Next ==
  \E c \in Clients :
    \/ \E r \in Requests : Ask(c, r)
    \/ Answer(c)
    \/ Return(c)

Spec == Init /\ [][Next]_vars
=============================================================================
