--------------------------- MODULE MCResourceSlot ---------------------------
(* Two reservations of the same owner, so that a stale release names the   *)
(* right owner and only the token id tells it apart; bob owns nothing and  *)
(* releases by mistake.  r1 can expire within MaxClock, r2 cannot.         *)
EXTENDS ResourceSlot

CONSTANTS p1, p2, r1, r2, alice, bob

MCOwnerOf == [r \in Reservations |-> alice]
MCExpiryOf == [r \in Reservations |-> IF r = r1 THEN 1 ELSE 2]
=============================================================================
