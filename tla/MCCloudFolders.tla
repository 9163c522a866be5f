--------------------------- MODULE MCCloudFolders ---------------------------
(* Small instances of the cloud's folders for TLC. *)
EXTENDS CloudFolders, TLC
CONSTANTS ana, bia, box, nAna, nBia, nBox, nNew
Nick3 == (ana :> nAna) @@ (bia :> nBia) @@ (box :> nBox)
\* Two accounts are interchangeable, together with their first names.
Symmetry ==
    {p \in Permutations({ana, bia, nAna, nBia}) :
        \A u \in {ana, bia} : p[u] \in {ana, bia} /\ p[Nick3[u]] = Nick3[p[u]]}
=============================================================================
