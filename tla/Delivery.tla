------------------------------ MODULE Delivery ------------------------------
(***************************************************************************)
(* What the capture queue promises to the rest of Spark, whatever files    *)
(* and locks it is made of: the fate of an event is decided when it        *)
(* arrives.  Either it is lost there and then, or it waits until the       *)
(* pipeline has learned from it: it cannot disappear after that.           *)
(***************************************************************************)
CONSTANT Event

VARIABLES pending, delivered, lost

Known == pending \cup delivered \cup lost

Init == pending = {} /\ delivered = {} /\ lost = {}

Arrive(e) ==
  /\ e \notin Known
  /\ pending' = pending \cup {e}
  /\ UNCHANGED <<delivered, lost>>

Lose(e) ==
  /\ e \notin Known
  /\ lost' = lost \cup {e}
  /\ UNCHANGED <<pending, delivered>>

Deliver(S) ==
  /\ pending' = pending \ S
  /\ delivered' = delivered \cup S
  /\ UNCHANGED lost

Next ==
  \/ \E e \in Event : Arrive(e) \/ Lose(e)
  \/ \E S \in SUBSET pending : Deliver(S)

Spec == Init /\ [][Next]_<<pending, delivered, lost>>
=============================================================================
