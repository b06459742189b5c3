------------------------ MODULE SharedExclusiveLock ------------------------
(***************************************************************************)
(* What AsyncLock promises to its clients: requests queue up in the order  *)
(* they are made, the one at the front gets the lock when its mode is      *)
(* compatible with the requests that hold it, and nobody overtakes.        *)
(***************************************************************************)
EXTENDS Naturals, Sequences, SequencesExt

CONSTANTS Ids, LockModes

VARIABLES
  queue,    \* requests that wait, oldest first
  holders   \* requests that hold the lock

Ticket == [id : Ids, mode : LockModes]

Waiting == {queue[i] : i \in DOMAIN queue}

Compatible(ticket, held) ==
  \/ held = {}
  \/ ticket.mode = "shared" /\ \A h \in held : h.mode = "shared"

(* Every step may also let the front request in. *)
AndGrant(q, held) ==
  \/ queue' = q /\ holders' = held
  \/ /\ q # <<>> /\ Compatible(Head(q), held)
     /\ queue' = Tail(q) /\ holders' = held \cup {Head(q)}

Join(ticket) ==
  /\ \A other \in Waiting \cup holders : other.id # ticket.id
  /\ AndGrant(Append(queue, ticket), holders)

Leave(ticket) == ticket \in holders /\ AndGrant(queue, holders \ {ticket})

Withdraw(i) == i \in DOMAIN queue /\ AndGrant(RemoveAt(queue, i), holders)

Serve == AndGrant(queue, holders)

SharedExclusiveInit == queue = <<>> /\ holders = {}

SharedExclusiveNext ==
  \/ \E ticket \in Ticket : Join(ticket)
  \/ \E ticket \in holders : Leave(ticket)
  \/ \E i \in DOMAIN queue : Withdraw(i)
  \/ Serve

SharedExclusiveSpec ==
  SharedExclusiveInit /\ [][SharedExclusiveNext]_<<queue, holders>>

(* The lock is exclusive: a holder in exclusive mode is alone. *)
Exclusion ==
  \A g, h \in holders : g # h => g.mode = "shared" /\ h.mode = "shared"
=============================================================================
