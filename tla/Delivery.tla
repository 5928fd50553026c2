------------------------------ MODULE Delivery -------------------------------
(***************************************************************************)
(* What the outbox promises of each event, with no dispatcher, lock or     *)
(* retry schedule in sight: an event that was written is taken by one      *)
(* dispatcher at a time, is sent a bounded number of times and never after *)
(* its receiver confirmed it, and is given up only when it was confirmed,  *)
(* cannot be sent, or was sent as often as configured - or when a fault    *)
(* got in the way.  WebhookDispatcher implements this.                     *)
(***************************************************************************)
EXTENDS Naturals

CONSTANTS
  Events,       \* the events there may be
  MaxPosts      \* how often each may be sent

VARIABLES
  events,       \* the stage of each event, how often it was sent, and whether
                \* it can be sent to anybody and was confirmed
  troubled      \* a node or a statement failed before

Unwritten == [stage |-> "absent", posts |-> 0, sendable |-> FALSE, confirmed |-> FALSE]

Written(k) ==
  /\ events[k] = Unwritten
  /\ \E s \in BOOLEAN :
       events'[k] = [stage |-> "due", posts |-> 0, sendable |-> s, confirmed |-> FALSE]

Moves(k, from, to) ==
  /\ events[k].stage = from
  /\ events'[k] = [events[k] EXCEPT !.stage = to]

Taken(k) == Moves(k, "due", "taken")

Sent(k) ==
  /\ events[k].stage = "taken"
  /\ events[k].sendable /\ ~events[k].confirmed
  /\ events[k].posts < MaxPosts
  /\ \E c \in BOOLEAN :
       events'[k] = [stage |-> "taken", posts |-> events[k].posts + 1, sendable |-> TRUE,
                     confirmed |-> c]

PutBack(k) == ~events[k].confirmed /\ Moves(k, "taken", "due")

Settled(e) == e.confirmed \/ ~e.sendable \/ e.posts = MaxPosts

GivenUp(k) == Settled(events[k]) /\ Moves(k, "taken", "settled")

Dropped(k) == troubled' /\ (Moves(k, "taken", "settled") \/ Moves(k, "due", "settled"))

Init ==
  /\ events = [k \in Events |-> Unwritten]
  /\ troubled = FALSE

(* A statement may move several events at once.                            *)
Next ==
  /\ troubled => troubled'
  /\ DOMAIN events' = Events
  /\ \A k \in Events :
       \/ events'[k] = events[k]
       \/ Written(k) \/ Taken(k) \/ Sent(k) \/ PutBack(k) \/ GivenUp(k) \/ Dropped(k)

vars == <<events, troubled>>

Spec == Init /\ [][Next]_vars
=============================================================================
