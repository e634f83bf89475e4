---------------------------- MODULE RelayNetwork ----------------------------
(***************************************************************************)
(* The relay test network of src/test/lib/relay_network.js: the options   *)
(* the RelayNetwork constructor reads, how setCluster hands out the        *)
(* cluster's channels, the relay topology it computes (which kValue relays *)
(* are exits for each service), what each relay's FakeEgressNodes answer,  *)
(* which service instances each relay registers as peers, the peers each   *)
(* service subchannel is given, and the connections connectServices plans. *)
(*                                                                         *)
(* Relays and channels are numbered from 0 as in the code, and a relay's   *)
(* hostPort is its number (the cluster gives every channel its own port).  *)
(* Services are the indexes of serviceNames; names may repeat, and the     *)
(* objects setCluster keys by name keep the last service of a name.        *)
(* The options never change, so the behaviour is one state per choice of   *)
(* options and the properties are checked on every choice.                 *)
(***************************************************************************)
EXTENDS Integers, Sequences, SequencesExt

CONSTANTS
    MaxRelays,            \* largest numRelays option tried
    MaxInstances,         \* largest numInstancesPerService option tried
    MaxServices,          \* longest serviceNames option tried
    MaxK,                 \* largest kValue option tried
    Names,                \* service names a test may pass
    DefaultServiceNames   \* ['alice', 'bob', 'charlie']

ASSUME {MaxRelays, MaxInstances, MaxServices, MaxK} \subseteq Nat

VARIABLE options   \* what the test passed to RelayNetwork(options)

(* A number option that is absent is given as 0: `options.x || d` uses the *)
(* default for both.  serviceNames is used as given when namesGiven, even  *)
(* an empty array being truthy; absent, it is <<>> here.                   *)
Options ==
    {o \in [numRelays : 0..MaxRelays, numInstancesPerService : 0..MaxInstances,
           namesGiven : BOOLEAN,
           serviceNames : UNION {[1..n -> Names] : n \in 0..MaxServices},
           kValue : 0..MaxK] :
        ~o.namesGiven => o.serviceNames = <<>>}

-----------------------------------------------------------------------------
(* The RelayNetwork constructor's defaults.                                *)
NumRelays    == IF options.numRelays = 0 THEN 3 ELSE options.numRelays
NumInstances == IF options.numInstancesPerService = 0 THEN 3
                ELSE options.numInstancesPerService
ServiceNames == IF options.namesGiven THEN options.serviceNames
                ELSE DefaultServiceNames
NumServices  == Len(ServiceNames)
KValue       == IF options.kValue = 0 THEN 2 ELSE options.kValue

NumPeersUndefaulted ==
    options.numRelays + NumServices * options.numInstancesPerService

(* numPeers, the size of the cluster the constructor asks allocCluster for. *)
NumPeers == NumRelays + NumServices * NumInstances

Services == 0..(NumServices - 1)
Relays == 0..(NumRelays - 1)

(* setCluster: relayChannels take the first channels, then each service    *)
(* takes numInstancesPerService consecutive ones, in serviceNames order.   *)
RelayChannel(r) == r
ServiceChannel(s, i) == NumRelays + s * NumInstances + i
ServiceChannels(s) == {ServiceChannel(s, i) : i \in 0..(NumInstances - 1)}

(* setCluster's kIndex loop for the service at index s: the relay at       *)
(* (s + kIndex) % relayChannels.length is appended unless already listed.  *)
RECURSIVE ExitLoopNoDedup(_, _, _)
ExitLoopNoDedup(s, kIndex, acc) ==
    IF kIndex >= KValue THEN acc
    ELSE ExitLoopNoDedup(s, kIndex + 1, Append(acc, (s + kIndex) % NumRelays))

RECURSIVE ExitLoop(_, _, _)
ExitLoop(s, kIndex, acc) ==
    IF kIndex >= KValue THEN acc
    ELSE LET hostPort == (s + kIndex) % NumRelays IN
         ExitLoop(s, kIndex + 1,
                  IF hostPort \in ToSet(acc) THEN acc ELSE Append(acc, hostPort))

(* setCluster walks serviceChannels by index and assigns                   *)
(* topology[serviceName] (line 154), as it assigned                        *)
(* serviceChannelsByName[serviceName] (line 136): of services sharing a     *)
(* name, the last one's value is the one kept.                              *)
NameOf(s) == ServiceNames[s + 1]
Keys == ToSet(ServiceNames)
LastIndexOf(n) ==
    CHOOSE s \in Services : NameOf(s) = n /\ \A t \in Services : NameOf(t) = n => t <= s

Topology == [n \in Keys |-> ExitLoop(LastIndexOf(n), 0, <<>>)]
ServiceChannelsByName == [n \in Keys |-> ServiceChannels(LastIndexOf(n))]

(* FakeEgressNodes.isExitFor, asked of the relay whose hostPort is r:      *)
(* topology[serviceName].indexOf(hostPort) >= 0.                           *)
IsExitFor(r, n) == \E j \in DOMAIN Topology[n] : Topology[n][j] = r

(* The relay handlers' artificial advertisement, by index: each relay      *)
(* calls getServicePeer(serviceName, hostPort) for every channel of        *)
(* serviceChannels[index] whose serviceName it is an exit for.              *)
ServicePeers(r) ==
    UNION {{<<NameOf(s), c>> : c \in ServiceChannels(s)} :
              s \in {y \in Services : IsExitFor(r, NameOf(y))}}

(* connectServices, by name: for each relay and each serviceName it is an  *)
(* exit for, a plan connecting the relay's channel to                      *)
(* serviceChannelsByName[serviceName].                                     *)
Plans == UNION {{<<RelayChannel(r), ServiceChannelsByName[n]>> :
                    n \in {m \in Keys : IsExitFor(r, m)}} : r \in Relays}

Init == options \in Options

Next == UNCHANGED options

Spec == Init /\ [][Next]_options

-----------------------------------------------------------------------------
(* Constructor and setCluster agree: the channels setCluster takes are all *)
(* within the numPeers channels the cluster was allocated, and no channel  *)
(* is taken twice.                                                          *)
ChannelsFitCluster ==
    LET taken == {RelayChannel(r) : r \in Relays}
                 \cup UNION {ServiceChannels(s) : s \in Services}
    IN /\ taken \subseteq 0..(NumPeers - 1)
       /\ \A s, t \in Services : s # t => ServiceChannels(s) \cap ServiceChannels(t) = {}
       /\ \A s \in Services : ServiceChannels(s) \cap {RelayChannel(r) : r \in Relays} = {}

(* The kIndex loop builds, without repeats, exactly the relays             *)
(* s, s+1, ..., s+kValue-1 modulo the number of relays, the first being    *)
(* the service's own relay s % numRelays: min(kValue, numRelays) exits,    *)
(* for the last service s of each name.                                     *)
TopologyMatchesReference ==
    \A n \in Keys :
        LET s == LastIndexOf(n)
            reference == {(s + k) % NumRelays : k \in 0..(KValue - 1)} IN
        /\ ToSet(Topology[n]) = reference
        /\ Len(Topology[n]) = IF KValue < NumRelays THEN KValue ELSE NumRelays
        /\ Topology[n][1] = s % NumRelays

(* The setCluster comment "Create and connect service channels" and the     *)
(* artificial advertisement: every service instance a relay registers as   *)
(* a peer (getServicePeer, by index) is one of the channels connectServices *)
(* connects that relay to (by name).                                        *)
AdvertisedPeersConnected ==
    \A r \in Relays : \A p \in ServicePeers(r) :
        \E plan \in Plans : plan[1] = RelayChannel(r) /\ p[2] \in plan[2]
====
