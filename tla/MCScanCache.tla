----------------------------- MODULE MCScanCache -----------------------------
(* ScanCache for TLC: the calls of scan_file() are interchangeable. *)
EXTENDS ScanCache, TLC

Symmetry == Permutations(Scans)

=============================================================================
