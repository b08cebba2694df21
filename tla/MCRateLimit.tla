-------------------------- MODULE MCRateLimit --------------------------
(***************************************************************************)
(* Two clients of one site: the limiter of the clients, then that of the   *)
(* sites, with half seconds for ticks and a minute of one second.          *)
(***************************************************************************)
EXTENDS RateLimit

Allowances == <<1, 2>>
KeysOfTwo == [r \in Callers |-> <<r, "site">>]
AllKeys == Callers \cup {"site"}

=============================================================================
