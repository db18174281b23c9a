-------------------------------- MODULE Dkg --------------------------------
(***************************************************************************)
(* The session driver of src/dkg.rs over the DkgRound transport, for one   *)
(* session id: broadcast, barrier, next round.  form_cluster retries the   *)
(* genesis under the same id, and a failed attempt leaves its messages in  *)
(* the buffers of its peers, so messages of different attempts can meet.   *)
(*                                                                         *)
(* gennaro-dkg is external and modelled by what the driver relies on: the  *)
(* polynomial is the sum of the secrets committed to in round 1, so it is  *)
(* named by the attempts whose round-1 messages were used (a view); round  *)
(* 5 accepts only if the last broadcast of every peer names the same one;  *)
(* a message of the rounds between may be rejected if it is of another     *)
(* attempt than the round-1 message of its sender.                         *)
(***************************************************************************)
EXTENDS Naturals, FiniteSets

CONSTANTS
    Node,        \* the members of the session
    LastRound,   \* the last round with a broadcast: 4 in the code
    None,        \* nothing received
    MaxAttempts, \* bound on the attempts of each node
    MaxLosses,   \* bound on sends that fail
    MaxCrashes   \* bound on crashes

ASSUME RoundAssumption == LastRound \in Nat /\ LastRound >= 2 /\ MaxAttempts \in Nat

VARIABLES
    attempt, \* how many participants each node has created so far
    round,   \* the round it is in, 0 outside a session, LastRound + 1 when done
    pending, \* the peers it is still sending its message of this round to
    buf,     \* dkg_sessions: buffered tag by receiver, round and sender, 0 if none
    echo,    \* dkg_sessions, last round: the view named in the broadcast
    view,    \* the round-1 messages used by each attempt (old attempts: history)
    losses, crashes

vars == <<attempt, round, pending, buf, echo, view, losses, crashes>>

Peers(n) == Node \ {n}
Attempts == 1..MaxAttempts
View     == [Node -> Attempts]
Tags     == [1..(LastRound - 1) -> [Node -> 0..MaxAttempts]]
Echoes   == [Node -> View \cup {None}]
Views    == [Attempts -> View \cup {None}]
NoTags   == [r \in 1..(LastRound - 1) |-> [m \in Node |-> 0]]
NoEchoes == [m \in Node |-> None]
Current(n) == view[n][attempt[n]]
Done(n)    == round[n] = LastRound + 1

ASSUME NoneAssumption == None \notin View

TypeOK ==
    /\ attempt \in [Node -> 0..MaxAttempts]
    /\ round \in [Node -> 0..(LastRound + 1)]
    /\ pending \in [Node -> SUBSET Node]
    /\ buf \in [Node -> Tags]
    /\ echo \in [Node -> Echoes]
    /\ view \in [Node -> Views]
    /\ losses \in Nat /\ crashes \in Nat

Init ==
    /\ attempt = [n \in Node |-> 0]
    /\ round = [n \in Node |-> 0]
    /\ pending = [n \in Node |-> {}]
    /\ buf = [n \in Node |-> NoTags]
    /\ echo = [n \in Node |-> NoEchoes]
    /\ view = [n \in Node |-> [k \in Attempts |-> None]]
    /\ losses = 0 /\ crashes = 0

----------------------------------------------------------------------------
(* run_session begins: a fresh participant, round 1 goes out.  Buffers left by
   an earlier attempt stay. *)
Start(n) ==
    /\ round[n] = 0 /\ attempt[n] < MaxAttempts
    /\ attempt' = [attempt EXCEPT ![n] = @ + 1]
    /\ round' = [round EXCEPT ![n] = 1]
    /\ pending' = [pending EXCEPT ![n] = Peers(n)]
    /\ UNCHANGED <<buf, echo, view, losses, crashes>>

(* send_dkg_round, and dkg_round at m: the message replaces one buffered for
   the same round and sender. *)
Send(n, m) ==
    /\ m \in pending[n]
    /\ pending' = [pending EXCEPT ![n] = @ \ {m}]
    /\ IF round[n] < LastRound
       THEN /\ buf' = [buf EXCEPT ![m][round[n]][n] = attempt[n]]
            /\ UNCHANGED echo
       ELSE /\ echo' = [echo EXCEPT ![m][n] = Current(n)]
            /\ UNCHANGED buf
    /\ UNCHANGED <<attempt, round, view, losses, crashes>>

(* A failed send is only logged. *)
SendFails(n, m) ==
    /\ m \in pending[n]
    /\ losses < MaxLosses
    /\ losses' = losses + 1
    /\ pending' = [pending EXCEPT ![n] = @ \ {m}]
    /\ UNCHANGED <<attempt, round, buf, echo, view, crashes>>

(* All sends are over: await_round. *)
Awaiting(n) == round[n] \in 1..LastRound /\ pending[n] = {}

(* Every peer's message is there, of whichever attempt. *)
Barrier(n) ==
    /\ Awaiting(n)
    /\ \A m \in Peers(n) : IF round[n] < LastRound THEN buf[n][round[n]][m] # 0
                                                   ELSE echo[n][m] # None

(* Mutant: a peer's slot is used for the own message. *)
SeenWithoutSelf(n) == buf[n][1]

(* The round-1 messages used, the own one included. *)
Seen(n) == [m \in Node |-> IF m = n THEN attempt[n] ELSE buf[n][1][m]]

(* participant.round2 to round4 accept; the next message goes out. *)
Advance(n) ==
    /\ Barrier(n) /\ round[n] < LastRound
    /\ round' = [round EXCEPT ![n] = @ + 1]
    /\ pending' = [pending EXCEPT ![n] = Peers(n)]
    /\ view' = IF round[n] = 1 THEN [view EXCEPT ![n][attempt[n]] = Seen(n)] ELSE view
    /\ UNCHANGED <<attempt, buf, echo, losses, crashes>>

(* Mutant: the driver stops before round 5. *)
EchoesAgreeUnchecked(n) == TRUE

(* participant.round5: every peer names the polynomial we have a share of. *)
EchoesAgree(n) == \A m \in Peers(n) : echo[n][m] = Current(n)

(* A message of a middle round is not of its sender's round-1 attempt. *)
TagMismatch(n) == \E m \in Peers(n) : buf[n][round[n]][m] # Current(n)[m]

(* Success: the buffers of the session are dropped. *)
Finish(n) ==
    /\ Barrier(n) /\ round[n] = LastRound
    /\ EchoesAgree(n)
    /\ round' = [round EXCEPT ![n] = LastRound + 1]
    /\ buf' = [buf EXCEPT ![n] = NoTags]
    /\ echo' = [echo EXCEPT ![n] = NoEchoes]
    /\ UNCHANGED <<attempt, pending, view, losses, crashes>>

(* Failure of a participant call: the buffers stay. *)
Reject(n) ==
    /\ Barrier(n)
    /\ \/ round[n] = LastRound /\ ~EchoesAgree(n)
       \/ round[n] \in 2..(LastRound - 1) /\ TagMismatch(n)
    /\ round' = [round EXCEPT ![n] = 0]
    /\ UNCHANGED <<attempt, pending, buf, echo, view, losses, crashes>>

(* await_round gives up: the buffers stay. *)
TimeOut(n) ==
    /\ Awaiting(n) /\ ~Barrier(n)
    /\ round' = [round EXCEPT ![n] = 0]
    /\ UNCHANGED <<attempt, pending, buf, echo, view, losses, crashes>>

(* The process dies before it has a share, and starts again. *)
Crash(n) ==
    /\ crashes < MaxCrashes /\ ~Done(n)
    /\ crashes' = crashes + 1
    /\ round' = [round EXCEPT ![n] = 0]
    /\ pending' = [pending EXCEPT ![n] = {}]
    /\ buf' = [buf EXCEPT ![n] = NoTags]
    /\ echo' = [echo EXCEPT ![n] = NoEchoes]
    /\ UNCHANGED <<attempt, view, losses>>

Next ==
    \E n \in Node :
       \/ Start(n) \/ Advance(n) \/ Finish(n) \/ Reject(n) \/ TimeOut(n) \/ Crash(n)
       \/ \E m \in Node : Send(n, m) \/ SendFails(n, m)

Spec == Init /\ [][Next]_vars

----------------------------------------------------------------------------
(* Properties *)

(* All nodes that complete a session id hold shares of one polynomial, however
   the attempts of the members and their leftover messages interleave. *)
Agreement ==
    \A n, m \in Node : Done(n) /\ Done(m) => Current(n) = Current(m)

Joined == {n \in Node : attempt[n] > 0}
Result == [n \in Node |-> IF Done(n) THEN Current(n) ELSE None]

Outcome == INSTANCE SessionOutcome WITH Poly <- View, joined <- Joined, result <- Result

(* The driver keeps the promise that module Reshare is built on. *)
KeepsPromise == Outcome!Spec
=============================================================================
