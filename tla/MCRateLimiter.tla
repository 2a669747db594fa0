--------------------------- MODULE MCRateLimiter ---------------------------
(***************************************************************************)
(* Instances of RateLimiter for TLC.                                       *)
(***************************************************************************)
EXTENDS RateLimiter

CONSTANTS k1, k2

\* One client connects by itself, the other through a proxy that says so.
MCRequests ==
  {[peer |-> k1, addr |-> k1, private |-> FALSE, forwarded |-> "", real |-> ""],
   [peer |-> k1, addr |-> k1, private |-> TRUE, forwarded |-> k2, real |-> ""]}

\* The three units, each with its number of requests.
MCSpecs ==
  {[valid |-> TRUE, n |-> 1, unit |-> "second"],
   [valid |-> TRUE, n |-> 2, unit |-> "minute"],
   [valid |-> TRUE, n |-> 2, unit |-> "hour"]}
=============================================================================
