------------------------ MODULE MCInstallTransaction ------------------------
(* The installation with its downloads, for TLC.                           *)
EXTENDS RangeDownload, TLC

\* Installers differ in nothing but their names, nor do sources.
Symmetry == Permutations(Installers) \cup Permutations(Sources)
=============================================================================
