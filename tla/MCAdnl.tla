------------------------------- MODULE MCAdnl -------------------------------
(* The ADNL connection on a small instance: a two-byte prefix so that a      *)
(* prefix can be half read, bodies of one or two bytes, two frames a query.  *)
EXTENDS AdnlConnection

MCMessages == {1, 2}
=============================================================================
