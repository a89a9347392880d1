------------------------------- MODULE MCRoot -------------------------------
(* Small instances of root for TLC *)
EXTENDS Root

CONSTANTS net, web

\* An anonymous service, one with a name that the first may ask for meanwhile,
\* and another anonymous one
Boot == <<[typ |-> "spawn", name |-> web], [typ |-> "unique", name |-> net],
          [typ |-> "spawn", name |-> web]>>
=============================================================================
