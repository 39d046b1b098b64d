---------------------------- MODULE MCDelivery ----------------------------
(* Instances of Delivery for TLC. *)
EXTENDS Delivery

\* A unit of three bytes, then one that starts over at its first byte (the
\* second pass over a page), then one elsewhere in the source.
MCUnits == <<[at |-> 0, len |-> 3], [at |-> 0, len |-> 2], [at |-> 4, len |-> 1]>>

\* A page decoded to its terminator and the header of the page after it.
MCDecodeUnits == <<[at |-> 0, len |-> 3], [at |-> 5, len |-> 1]>>
=============================================================================
