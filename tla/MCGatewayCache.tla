---------------------------- MODULE MCGatewayCache ----------------------------
(* Message lengths for checking GatewayCache: growing and shrinking messages, *)
(* one that just fits, and ones the cache refuses.                          *)
EXTENDS GatewayCache

MixedLengths == <<2, 0, 1, 4, 3>>
TwoLengths   == <<2, 3>>
=============================================================================
