---------------------------- MODULE MCRateLimit ----------------------------
(***************************************************************************)
(* Two accounts behind one address, which only the last entry of the       *)
(* proxy's header tells.                                                   *)
(***************************************************************************)
EXTENDS RateLimit, TLC

From(account, peer, forwarded) ==
  [account |-> account, peer |-> peer, forwarded |-> forwarded]

Callers == {From("ann", "proxy", <<"home">>), From("bob", "proxy", <<"other", "home">>)}
Limits  == "writes" :> 2 @@ "join" :> 1
Windows == "writes" :> 2 @@ "join" :> 3
=============================================================================
