--------------------------- MODULE MCStreamServer ---------------------------
(* Instances of StreamServer for TLC.                                      *)
EXTENDS StreamServer, TLC

\* std::stoi lets negative numbers through.
SkipValues == {-1, 0, 1}

Symmetry == Permutations(Conns) \cup Permutations(Addr)
=============================================================================
