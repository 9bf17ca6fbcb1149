------------------------------- MODULE Slots -------------------------------
(***************************************************************************)
(* What the mempool promises, whatever its checks, counts and callers: a   *)
(* board with one place per sender and nonce.  An offer is put on a free   *)
(* place; it gives way to a better one, by at least 10% on both fees; or   *)
(* offers are withdrawn, any number at a time and nothing put in their     *)
(* stead.                                                                  *)
(***************************************************************************)
EXTENDS Integers

CONSTANT Offer     \* records with a sender, a nonce, a tip and a fee

VARIABLE board     \* the offers that stand

SamePlace(o1, o2) == o1.sender = o2.sender /\ o1.nonce = o2.nonce

Better(o, than) == 10 * o.tip >= 11 * than.tip /\ 10 * o.fee >= 11 * than.fee

Init == board = {}

Place(o) ==
  /\ \A x \in board : ~SamePlace(x, o)
  /\ board' = board \cup {o}

Outbid(x, o) ==
  /\ SamePlace(x, o)
  /\ Better(o, x)
  /\ board' = (board \ {x}) \cup {o}

Withdraw == board' \subseteq board

Next ==
  \/ \E o \in Offer : Place(o) \/ \E x \in board : Outbid(x, o)
  \/ Withdraw

Spec == Init /\ [][Next]_board
=============================================================================
