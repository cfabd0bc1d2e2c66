----------------------------- MODULE MCConnection ---------------------------
(* The kinds of connection and the addresses of the runs of Connection. *)
EXTENDS Connection

Direct == [useProxy |-> FALSE, proxyCheck |-> FALSE, auto |-> TRUE]
Upload == [useProxy |-> FALSE, proxyCheck |-> FALSE, auto |-> FALSE]
CheckProxy == [useProxy |-> TRUE, proxyCheck |-> TRUE, auto |-> FALSE]

KindsChecked == {Direct, Upload, CheckProxy}
SecondLive == {1}
=============================================================================
