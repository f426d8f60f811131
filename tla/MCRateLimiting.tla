--------------------------- MODULE MCRateLimiting ---------------------------
(***************************************************************************)
(* An instance of RateLimiting for TLC: a bucket for the server, a global  *)
(* one, and two windows for the client, a short one and a longer one that  *)
(* allows more.                                                            *)
(***************************************************************************)
EXTENDS RateLimiting, TLC

CONSTANTS global, minute, hour, server

MCKeyOf == [b \in Buckets |-> IF b = hour THEN minute ELSE b]
MCLimit == (global :> 2) @@ (minute :> 1) @@ (hour :> 2) @@ (server :> 1)
MCWindow == (global :> 0) @@ (minute :> 0) @@ (hour :> 1) @@ (server :> 0)
MCClient == [r \in Requests |-> <<global, minute, hour>>]
MCServer == [r \in Requests |-> <<server>>]
MCResets == {{global, minute, hour}, Buckets}
=============================================================================
