---------------------------- MODULE ItemLifecycle ---------------------------
(***************************************************************************)
(* What the middleware promises of each item of a batch, with no worker,   *)
(* lock or table in sight: it is taken up when it is pending, every try is *)
(* counted exactly once, it is given up only when its retries are used up, *)
(* it is cancelled only while nobody works on it, and once it is done,     *)
(* failed or cancelled it never changes.  WorkerPool implements this.      *)
(***************************************************************************)
EXTENDS Naturals

CONSTANTS
  Items,        \* the items
  MaxRetries    \* the retries each is entitled to

VARIABLE items  \* the status of each item and the number of its tries

Becomes(i, from, to, tries) ==
  /\ items[i].status = from
  /\ items'[i] = [status |-> to, retry |-> items[i].retry + tries]

Submitted(i) == Becomes(i, "absent", "pending", 0)

TakenUp(i) == Becomes(i, "pending", "processing", 0)

Cancelled(i) == Becomes(i, "pending", "cancelled", 0)

TriedInVain(i) == Becomes(i, "processing", "pending", 1)

Done(i) == Becomes(i, "processing", "done", 1)

GivenUp(i) ==
  /\ items[i].retry >= MaxRetries
  /\ Becomes(i, "processing", "failed", 1)

Init == items = [i \in Items |-> [status |-> "absent", retry |-> 0]]

(* A statement may move several items at once, each along its own life.    *)
Next ==
  /\ DOMAIN items' = Items
  /\ \A i \in Items :
       \/ items'[i] = items[i]
       \/ Submitted(i) \/ TakenUp(i) \/ Cancelled(i)
       \/ TriedInVain(i) \/ Done(i) \/ GivenUp(i)

Spec == Init /\ [][Next]_items
=============================================================================
