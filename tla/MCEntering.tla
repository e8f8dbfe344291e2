----------------------------- MODULE MCEntering -----------------------------
(* Entering for TLC: three containers, so that one can be given the device   *)
(* that a second has left while the third, too, is after it; and a marker    *)
(* that, like "_sqmagic_", ends with the byte it begins with, in programs of *)
(* up to four bytes, in one with a second marker and in one with the         *)
(* beginning of a marker before it.                                          *)
EXTENDS Entering, TLC

MCBytes == {"_", "s", "0"}
MCMarker == <<"_", "s", "_">>
Passed == <<"_">> \o MCMarker
MCPrograms ==
  UNION {[1 .. n -> MCBytes] : n \in 0 .. 4}
    \cup {Passed \o <<"0">> \o MCMarker, <<"_", "s", "s">> \o MCMarker}
MCShipped == {<<"0">> \o MCMarker}
Symmetry == Permutations(Enters \ {Machine}) \cup Permutations(Devices)
              \cup Permutations(Regular)
=============================================================================
