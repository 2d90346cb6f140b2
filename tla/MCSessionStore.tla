--------------------------- MODULE MCSessionStore ---------------------------
(* A small instance of SessionStore: ids padded to one digit in base 3, so   *)
(* that the third has two and comes before the second as text, fractions of  *)
(* one bit, and times that span two seconds.                                 *)
EXTENDS SessionStore

SomeLimits == {-1, 5}
=============================================================================
