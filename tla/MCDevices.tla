------------------------------ MODULE MCDevices ------------------------------
(* Devices on machines with up to three functions on the root bus, each a device  *)
(* or a bridge with up to two behind it, another bridge among them.  Requests are *)
(* made on one machine, whose disk and entropy device share an interrupt line as  *)
(* those that the Makefile asks for do.                                           *)
EXTENDS Devices

PciDevice(driver, bars, caps) ==
    [kind |-> "device", driver |-> driver, bars |-> bars, caps |-> caps]
Bridge == [kind |-> "bridge"]
Other == [kind |-> "other"]
Full == <<"other", "notify", "device", "isr", "common", "other">>

Kinds == {PciDevice("gpu", <<0, 2>>, Full), PciDevice("input", <<1, 4>>, Full),
          PciDevice("none", <<8>>, <<>>), PciDevice("input", <<1>>, Front(Full)),
          PciDevice("gpu", <<2>>, <<"common", "unknown", "isr", "other">>)}

\* What may be in a slot of the root bus: its places, from the slot down.
Slot(s) ==
    {<<>>} \cup {(<<s>> :> k) : k \in Kinds}
    \cup {(<<s>> :> Bridge)}
    \cup {(<<s>> :> Bridge) @@ (<<s, 0>> :> k) : k \in Kinds}
    \cup {(<<s>> :> Bridge) @@ (<<s, 0>> :> k) @@ (<<s, 3>> :> l) : k, l \in Kinds \cup {Bridge}}

SmallMachines ==
    {m \in {a @@ b @@ c : a \in Slot(1), b \in Slot(2), c \in {<<>>} \cup Slot(3)} :
        Cardinality(DOMAIN m) <= 6}

Disk0 == <<2, 1>>
Rng == <<1, 2>>
DiskMachine ==
    (<<1>> :> Bridge) @@ (<<2>> :> Bridge) @@ (Rng :> PciDevice("rng", <<1, 4>>, Full))
    @@ (Disk0 :> PciDevice("block", <<0, 2>>, Full))
\* With a function that is neither, or a device with an I/O BAR, behind another device.
OddMachines ==
    {(<<1>> :> Bridge) @@ (<<1, 0>> :> PciDevice("gpu", <<2>>, Full)) @@ (<<1, 1>> :> odd) :
        odd \in {Other, PciDevice("none", <<1, NULL, 2>>, <<>>)}}
SomeMachines == {DiskMachine} \cup SmallMachines \cup OddMachines

SomeCalls ==
    {[op |-> "read", disk |-> Disk0, addr |-> a, data |-> [k \in 1 .. n |-> 0]] :
        a \in 1 .. 2, n \in {1, 3}}
    \cup {[op |-> "write", disk |-> Disk0, addr |-> a, data |-> d] :
             a \in {0, 1, 3}, d \in {<<1>>, <<2, 1>>}}
    \cup {[op |-> "random", disk |-> Rng, addr |-> 0, data |-> <<>>]}
SixBytes == {<<1, 2, 1, 2, 2, 1>>}
=============================================================================
