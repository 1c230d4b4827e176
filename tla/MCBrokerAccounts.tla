--------------------------- MODULE MCBrokerAccounts ---------------------------
(* Instances of BrokerAccounts for TLC.                                    *)
EXTENDS BrokerAccounts
=============================================================================
