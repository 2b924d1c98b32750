------------------------------ MODULE Delivery ------------------------------
(***************************************************************************)
(* What a consumer group promises about a log, whatever the client does in *)
(* between: records are published in order, a record may be delivered any  *)
(* number of times while it is not settled and never once it is, and a     *)
(* prefix is settled only when each of its records was delivered or was    *)
(* visibly given up.                                                       *)
(***************************************************************************)
EXTENDS Integers

VARIABLES
  published,  (* number of records in the log                     *)
  settled,    (* number of leading records nobody will see again  *)
  delivered,  (* offsets delivered at least once                  *)
  dropped     (* offsets given up                                 *)

vars == <<published, settled, delivered, dropped>>

Init == published = 0 /\ settled = 0 /\ delivered = {} /\ dropped = {}

Publish ==
  /\ published' = published + 1
  /\ UNCHANGED <<settled, delivered, dropped>>

Deliver(o) ==
  /\ settled <= o /\ o < published
  /\ delivered' = delivered \cup {o}
  /\ UNCHANGED <<published, settled, dropped>>

(* A client gives up a run of unsettled records. *)
Drop(from, to) ==
  /\ settled <= from /\ to < published
  /\ dropped' = dropped \cup from .. to
  /\ UNCHANGED <<published, settled, delivered>>

Settle(n) ==
  /\ settled < n /\ n <= published
  /\ 0 .. n - 1 \subseteq delivered \cup dropped
  /\ settled' = n
  /\ UNCHANGED <<published, delivered, dropped>>

Next ==
  \/ Publish
  \/ \E o \in 0 .. published - 1 : Deliver(o)
  \/ \E from, to \in 0 .. published - 1 : Drop(from, to)
  \/ \E n \in 0 .. published : Settle(n)

Spec == Init /\ [][Next]_vars
=============================================================================
