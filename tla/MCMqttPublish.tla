--------------------------- MODULE MCMqttPublish ---------------------------
(* A small instance of MqttPublish: the default prefix and pattern. *)
EXTENDS MqttPublish, TLC

MCPrefix == <<"flora">>
MCPattern == DefaultSubscribeTopic(MCPrefix)

MCTopics == {
    <<"">>,
    <<"", "">>,
    <<"flora">>,
    <<"flora", "", "d1">>,
    <<"", "d1", "commands">>,
    <<"flora", "d1", "heartbeat">>,
    <<"d1", "heartbeat">>,
    <<"flora", "flora", "heartbeat">>}

\* Nothing here depends on the parent of a device.
MCNext == Next /\ (\A r \in DOMAIN dev : dev[r].parent = None)'
MCSpec == Init /\ [][MCNext]_vars

Symmetry == Permutations(User) \cup Permutations(Env) \cup Permutations(Row)

=============================================================================
