--------------------------- MODULE MCAccessTokens ---------------------------
(* An instance of AccessTokens for TLC: two trucks, one of which lacks the  *)
(* second camera.                                                           *)
EXTENDS AccessTokens

CONSTANTS t1, t2, c1, c2

MCCameras == {<<t1, c1>>, <<t1, c2>>, <<t2, c1>>}
MCStarts == {0, 1}
MCDurations == {0, 1, 3, 4}
=============================================================================
