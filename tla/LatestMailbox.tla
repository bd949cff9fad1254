---------------------------- MODULE LatestMailbox ----------------------------
(***************************************************************************)
(* What a latest-only hand-over promises (docs/project-spec.md: every      *)
(* hand-over between the services is a queue of one that keeps the latest  *)
(* item).  A producer offers items under increasing identifiers, at most   *)
(* one item waits, a newer offer replaces it, a consumer takes the waiting *)
(* item and then delivers or loses it.  Whatever happens, every accepted   *)
(* item is delivered, dropped, waiting or taken: none is counted twice and *)
(* none disappears, and items are delivered in the order of their offers.  *)
(***************************************************************************)
EXTENDS Naturals

VARIABLES
  offered,    (* how many items were accepted                              *)
  delivered,  (* how many items reached the other side                     *)
  dropped,    (* how many items were replaced, lost or abandoned           *)
  waiting,    (* the identifier of the item that waits, 0 for none         *)
  taken,      (* the identifier of the item the consumer holds, 0 for none *)
  last,       (* the identifier of the last item delivered, 0 for none     *)
  shut        (* no item is accepted any more                              *)

vars == <<offered, delivered, dropped, waiting, taken, last, shut>>

Init ==
  /\ offered = 0 /\ delivered = 0 /\ dropped = 0
  /\ waiting = 0 /\ taken = 0 /\ last = 0
  /\ shut = FALSE

(* One for an item that is held, zero for none. *)
Count(id) == IF id = 0 THEN 0 ELSE 1

Offer ==
  /\ ~shut
  /\ waiting' \in Nat
  /\ waiting' > waiting /\ waiting' > taken /\ waiting' > last
  /\ offered' = offered + 1
  /\ dropped' = dropped + Count(waiting)
  /\ UNCHANGED <<delivered, taken, last, shut>>

Take ==
  /\ waiting # 0 /\ taken = 0
  /\ taken' = waiting
  /\ waiting' = 0
  /\ UNCHANGED <<offered, delivered, dropped, last, shut>>

Deliver ==
  /\ taken > last
  /\ delivered' = delivered + 1
  /\ last' = taken
  /\ taken' = 0
  /\ UNCHANGED <<offered, dropped, waiting, shut>>

Lose ==
  /\ taken # 0
  /\ dropped' = dropped + 1
  /\ taken' = 0
  /\ UNCHANGED <<offered, delivered, waiting, last, shut>>

Shut ==
  /\ ~shut
  /\ shut' = TRUE
  /\ dropped' = dropped + Count(waiting)
  /\ waiting' = 0
  /\ UNCHANGED <<offered, delivered, taken, last>>

Next == Offer \/ Take \/ Deliver \/ Lose \/ Shut

Spec == Init /\ [][Next]_vars
=============================================================================
