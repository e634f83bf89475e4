--------------------------- MODULE MCRelayNetwork ---------------------------
(***************************************************************************)
(* Every choice of options up to four relays, three instances, three      *)
(* service names and a kValue of five: kValue below, equal to and above    *)
(* the number of relays, absent and zero options, an absent, empty or     *)
(* repeating serviceNames.                                                  *)
(***************************************************************************)
EXTENDS RelayNetwork

MCMaxRelays == 4
MCMaxInstances == 3
MCMaxServices == 3
MCMaxK == 5
MCNames == {"alice", "bob", "charlie"}
MCDefaultServiceNames == <<"alice", "bob", "charlie">>
====
