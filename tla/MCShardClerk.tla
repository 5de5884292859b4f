---------------------------- MODULE MCShardClerk ----------------------------
(* Instances of ShardClerk for TLC.                                        *)
EXTENDS ShardClerk, TLC

TwoGroups == (100 :> <<"a", "b">>) @@ (101 :> <<"c">>)
SecondLeads == (100 :> "b") @@ (101 :> "c")

Reconfiguration ==
  <<[kind |-> "Join", gids |-> {100, 101}],
    [kind |-> "Move", gid |-> 101, shard |-> 1],
    [kind |-> "Leave", gids |-> {100}]>>

\* "10": the shard is that of the first byte
OneKey == {<<49, 48>>}
=============================================================================
