------------------------ MODULE MCExternalDelivery ------------------------
EXTENDS ExternalDelivery, TLC
CONSTANTS r1, r2, r3, r4, w1, w2, k1, k2, e1, e2, b1, b2, b3
\* r2 repeats r1, r4 has its key and another body, and r3 names the same
\* delivery under another key.
Keying == r1 :> k1 @@ r2 :> k1 @@ r3 :> k2 @@ r4 :> k1
Naming == r1 :> e1 @@ r2 :> e1 @@ r3 :> e1 @@ r4 :> e2
Bodies == r1 :> b1 @@ r2 :> b1 @@ r3 :> b3 @@ r4 :> b2
=============================================================================
