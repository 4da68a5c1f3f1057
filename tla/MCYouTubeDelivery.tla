------------------------- MODULE MCYouTubeDelivery -------------------------
EXTENDS YouTubeDelivery, TLC
CONSTANTS p1, p2, s1, s2, d1, d2
\* One goroutine each of two processes, configured with different ceilings.
TwoProcs == s1 :> p1 @@ s2 :> p2
Ceilings == p1 :> 1 @@ p2 :> 2
=============================================================================
