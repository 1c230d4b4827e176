--------------------------- MODULE MCBrokerAdapters ---------------------------
(* Instances of BrokerAdapters for TLC.                                    *)
EXTENDS BrokerAdapters
=============================================================================
