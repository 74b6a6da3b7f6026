------------------------------ MODULE Delivery ------------------------------
(***************************************************************************)
(* What slurm_send_slurmdbd_msg promises its callers: an accepted message  *)
(* waits in line until SlurmDBD has processed it, or is given up and known *)
(* to be.  Messages are numbered as they are accepted.  The agent of       *)
(* DbdAgent, with its queue, file, socket and retries, implements this.    *)
(***************************************************************************)
EXTENDS SeqOps

VARIABLES
  accepted,   \* how many messages were accepted
  pending,    \* those waiting, oldest first
  done,       \* those SlurmDBD has processed
  given_up    \* those given up: purged, not saved, or lost with the process

dvars == <<accepted, pending, done, given_up>>

Init == accepted = 0 /\ pending = <<>> /\ done = {} /\ given_up = {}

\* Some of the messages that wait are given up.
Drop(s) ==
  \E G \in SUBSET Elems(s) : pending' = Without(s, G) /\ given_up' = given_up \cup G

Accept ==
  /\ accepted' = accepted + 1
  /\ Drop(Append(pending, accepted + 1))
  /\ UNCHANGED done

GiveUp == Drop(pending) /\ UNCHANGED <<accepted, done>>

\* SlurmDBD processes the oldest message, or one given up while under way, for
\* the first time: never one that is older than what it has seen.
Process(m) ==
  /\ IF pending = <<>> THEN m \in given_up ELSE m \in given_up \cup {Head(pending)}
  /\ \A n \in done : n < m
  /\ done' = done \cup {m}
  /\ UNCHANGED <<accepted, pending, given_up>>

\* The oldest message leaves the line: it has been processed.
Confirm ==
  /\ pending # <<>> /\ Head(pending) \in done
  /\ pending' = Tail(pending)
  /\ UNCHANGED <<accepted, done, given_up>>

Next == Accept \/ GiveUp \/ Confirm \/ \E m \in 1..accepted : Process(m)

Spec == Init /\ [][Next]_dvars
=============================================================================
