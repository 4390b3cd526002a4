---------------------------- MODULE MCBlobUpload ----------------------------
(* Small instances of BlobUpload for TLC.                                  *)
EXTENDS BlobUpload, TLC

CONSTANTS c1, r1, r2, n1, n2, n3, p1, p2, input, log

\* A one-chunk blob, and a two-chunk blob that the first is a prefix of.
MCBlobs == {<<c1>>, <<c1, c1>>}
MCOneBlob == {<<c1>>}
\* A kind that holds either blob and one that only holds the shorter.
MCCap == (input :> 2) @@ (log :> 1)
MCCapOne == (input :> 1)

Symmetry == Permutations({r1, r2}) \cup Permutations({p1, p2})
            \cup Permutations({n1, n2, n3})
=============================================================================
