---------------------------- MODULE MCAddresses ----------------------------
(* Values for the model checker: two connections, two configurations. *)
EXTENDS Addresses

TwoKinds == [c \in {"push", "media"} |-> c]

Secret(ip) == [ip |-> ip, static |-> FALSE, secret |-> TRUE]
StaticOne(ip) == [ip |-> ip, static |-> TRUE, secret |-> FALSE]
Config(v4, v6, v4d) == [l \in Stored |-> CASE l = "v4" -> v4 [] l = "v6" -> v6
                                          [] l = "v4d" -> v4d [] OTHER -> <<>>]

TwoConfigs == {Config(<<Plain("a"), Plain("b")>>, <<>>, <<>>),
               Config(<<StaticOne("s"), Plain("a")>>, <<Plain("x"), Plain("y")>>, <<Secret("a")>>)}
OneTemp == {<<Secret("t"), Plain("b")>>}
SomeEndpoints == {<<"a", "a">>, <<"b", "2045">>, <<"x", "2045">>}
ThreeModes == {<<FALSE, FALSE>>, <<TRUE, FALSE>>, <<FALSE, TRUE>>}
OneRetry == {1}
=============================================================================
