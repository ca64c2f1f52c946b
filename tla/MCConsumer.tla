----------------------------- MODULE MCConsumer -----------------------------
(* A small instance of Consumer for TLC. *)
EXTENDS Consumer

CONSTANTS e1, e2

TwoEvents == {e1, e2}
=============================================================================
