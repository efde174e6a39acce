--------------------------- MODULE MCSymbolication ---------------------------
(***************************************************************************)
(* An instance of Symbolication for TLC: an event that a source map and a  *)
(* native file fit, and a release besides the event's.                     *)
(***************************************************************************)
EXTENDS Symbolication, TLC

CONSTANTS e1, fm, fn, v1, v2, w1, w2, a1

MCReleaseOf == [e \in Events |-> v1]
MCFits == [e \in Events |-> Files]

WorkerSymmetry == Permutations(Workers)

=============================================================================
