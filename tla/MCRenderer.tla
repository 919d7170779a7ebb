----------------------------- MODULE MCRenderer -----------------------------
(* Small instances of Renderer for TLC. *)
EXTENDS Renderer, FiniteSets

(* Bound of the AVTransport runs: at most this many fields away from their   *)
(* initial value, and at most this many flags up at the same time.           *)
CONSTANT MaxChanged

FewChanged == /\ Cardinality({f \in AvtField : Avt[f] # Initial}) <= MaxChanged
              /\ Cardinality(AVTChangedFlags) <= MaxChanged

MCVolume == {0, 1}
=============================================================================
