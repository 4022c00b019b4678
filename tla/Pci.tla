--------------------------------- MODULE Pci ---------------------------------
(* The start of the devices: pci_discover of src/src/pci.c numbers the buses,     *)
(* gives every device its memory and every bridge its window, and runs the virtio *)
(* drivers (src/src/virtio.c) of the devices it knows.  Hart 0 does it alone; a   *)
(* step is one slot in which a function answers.                                  *)
(*                                                                                *)
(* A machine is a function from places to what is there.  A place is the          *)
(* sequence of slots from the root bus down.  Addresses are in a unit of which a  *)
(* bridge's window registers count BRIDGE_UNIT (64 KiB).                          *)
EXTENDS SequencesExt, FiniteSetsExt, Integers, TLC

CONSTANTS
    Machines,               \* what may be in the slots at power-on
    PCI_NUM_BUSES, PCI_NUM_SLOTS, PCI_MMIO_DEVICE_BASE, PCI_BRIDGE_MEMORY_ALIGNMENT,
    BRIDGE_UNIT,
    U64, U64_BITS           \* sizeof(u64) and the bits in one: 8 and 64

ASSUME PciAssumption ==
    /\ {PCI_NUM_BUSES, PCI_NUM_SLOTS, PCI_BRIDGE_MEMORY_ALIGNMENT, BRIDGE_UNIT, U64, U64_BITS}
           \subseteq Nat \ {0}
    /\ PCI_MMIO_DEVICE_BASE \in Nat
    /\ PCI_MMIO_DEVICE_BASE % PCI_BRIDGE_MEMORY_ALIGNMENT = 0
    /\ PCI_BRIDGE_MEMORY_ALIGNMENT % BRIDGE_UNIT = 0

VARIABLES
    machine,            \* place -> what is there
    ecam,               \* place -> the registers that pci_discover writes
    boot,               \* its locals, and where it is
    device_head         \* the virtio devices that handlers are found in, newest first
pci_vars == <<machine, ecam, boot, device_head>>

NULL == -1
Drivers == {"rng", "block", "gpu", "input"}     \* pci_init_drivers
Common == {"common", "notify", "isr", "device"}

\* At reset a bridge leads nowhere and its window registers are uninitialised.
Reset(what) ==
    IF what.kind = "bridge"
    THEN [secondary |-> 0, subordinate |-> 0, base |-> NULL, limit |-> NULL]
    ELSE IF what.kind = "device" THEN [bar |-> [k \in DOMAIN what.bars |-> NULL]]
    ELSE [bar |-> <<>>]

PciInit ==
    /\ machine \in Machines
    /\ ecam = [p \in DOMAIN machine |-> Reset(machine[p])]
    /\ boot = [at |-> "scan", bus |-> 0, slot |-> 0, free_bus_no |-> 0,
               memory_base |-> PCI_MMIO_DEVICE_BASE, used |-> {}, bridge |-> <<>>]
    /\ device_head = <<>>

Bridges == {p \in DOMAIN machine : machine[p].kind = "bridge"}

\* A configuration access to a bus passes every bridge whose numbers include it.
Answers(p, bus) ==
    IF Len(p) = 1 THEN bus = 0
    ELSE /\ ecam[Front(p)].secondary = bus /\ bus # 0
         /\ \A k \in 1 .. Len(p) - 2 :
                bus \in ecam[SubSeq(p, 1, k)].secondary .. ecam[SubSeq(p, 1, k)].subordinate
On(bus) == {p \in DOMAIN machine : Answers(p, bus)}

\* pci_bitset_insert and _find count sizeof(u64) values to a word: the words of the bitset
\* end before the buses do.
InBitset(val) == val \div U64 < PCI_NUM_BUSES \div U64_BITS

Stop(at) == boot' = [boot EXCEPT !.at = at]

\* The first loop.  Bridges lead nowhere yet.
FindUsedBuses ==
    /\ boot.at = "scan"
    /\ boot' = [boot EXCEPT !.at = "setup",
                            !.used = {b \in 0 .. PCI_NUM_BUSES - 1 : On(b) # {}}]
    /\ UNCHANGED <<machine, ecam, device_head>>

-----------------------------------------------------------------------------
(* The virtio capabilities. *)

\* What virtio_device_driver sets up: it leaves at the first capability that is not
\* supported, or whose device rejects its reset or its acknowledgement ("unknown"), and at
\* the last one of the list before it looks at it.
SetUp(caps) ==
    SubSeq(caps, 1, Min({Len(caps)} \cup {k \in DOMAIN caps : caps[k] = "unknown"}) - 1)
Fails(p) == \E k \in 1 .. Len(machine[p].caps) - 1 : machine[p].caps[k] = "unknown"

Irq_OfSlot(bus, slot) == slot % 4
Irq(bus, slot) == (bus + slot) % 4

\* A driver reads the queue's size through device->cfg, which stays NULL when no common
\* capability was set up.
Runs(p) == "common" \in Range(SetUp(machine[p].caps))

virtio_device_driver(p) ==
    [place |-> p, driver |-> machine[p].driver, irq |-> Irq(boot.bus, Last(p)),
     caps |-> Range(SetUp(machine[p].caps)) \cap Common]

-----------------------------------------------------------------------------
(* One function. *)

RoundUp(n, size) == IF size = 0 THEN n ELSE ((n + size - 1) \div size) * size

\* The loop over the BARs, from memory_base on.
SetupBars_Unaligned(bars, memory_base) ==
    LET add(done, size) == [at |-> Append(done.at, done.next), next |-> done.next + size]
    IN  FoldLeft(add, [at |-> <<>>, next |-> memory_base], bars)
SetupBars(bars, memory_base) ==
    LET add(done, size) == [at |-> Append(done.at, RoundUp(done.next, size)),
                            next |-> RoundUp(done.next, size) + size]
    IN  FoldLeft(add, [at |-> <<>>, next |-> memory_base], bars)

BridgeOf(bus) == IF bus \in DOMAIN boot.bridge THEN {boot.bridge[bus]} ELSE {}

\* Where the BARs of a device begin: the first one behind a bridge is aligned for its window.
BarsStart ==
    IF \E b \in BridgeOf(boot.bus) : ecam[b].base = NULL
    THEN RoundUp(boot.memory_base, PCI_BRIDGE_MEMORY_ALIGNMENT) ELSE boot.memory_base

\* The bridge's registers after the device at bars was set up behind it.
Window(reg, bars) ==
    [reg EXCEPT !.base = IF @ = NULL THEN Head(bars.at) \div BRIDGE_UNIT ELSE @,
                !.limit = (bars.next - 1) \div BRIDGE_UNIT]

pci_setup_device(p) ==
    LET what  == machine[p]
        above == BridgeOf(boot.bus)
        bars  == SetupBars(what.bars, BarsStart)
    IN  /\ what.kind = "device" /\ NULL \notin Range(what.bars)
        /\ ecam' = [q \in DOMAIN ecam |->
                        IF q = p THEN [bar |-> bars.at]
                        ELSE IF q \in above THEN Window(ecam[q], bars) ELSE ecam[q]]
        /\ IF what.driver \in Drivers /\ ~Runs(p)
           THEN Stop("fault") /\ UNCHANGED device_head
           ELSE IF what.driver \in Drivers /\ Fails(p)
           THEN Stop("failed") /\ UNCHANGED device_head
           ELSE /\ boot' = [boot EXCEPT !.memory_base = bars.next, !.slot = Last(p) + 1]
                /\ device_head' = IF what.driver \in Drivers
                                  THEN <<virtio_device_driver(p)>> \o device_head
                                  ELSE device_head

\* A device with a BAR that is not memory, whose size is NULL, gets the ones before it; a
\* function that is neither a device nor a bridge gets none.
pci_unsupported(p) ==
    LET kept  == IF machine[p].kind = "device" THEN machine[p].bars ELSE <<NULL>>
        first == Min({k \in DOMAIN kept : kept[k] = NULL})
    IN  /\ machine[p].kind # "bridge" /\ NULL \in Range(kept)
        /\ ecam' = [ecam EXCEPT ![p].bar = SetupBars(SubSeq(kept, 1, first - 1), BarsStart).at
                                             \o SubSeq(@, first, Len(@))]
        /\ Stop("failed") /\ UNCHANGED device_head

\* The search looks up the bus numbers from one after the bridge's bus to the one it takes.
pci_setup_bridge(p) ==
    LET from   == Max({boot.free_bus_no, boot.bus + 1})
        bus    == Min({PCI_NUM_BUSES} \cup {b \in from .. PCI_NUM_BUSES - 1 : b \notin boot.used})
    IN  /\ machine[p].kind = "bridge"
        /\ IF \E b \in from .. Min({bus, PCI_NUM_BUSES - 1}) : ~InBitset(b)
           THEN Stop("wild") /\ UNCHANGED ecam
           ELSE IF bus = PCI_NUM_BUSES THEN Stop("failed") /\ UNCHANGED ecam
           ELSE /\ boot' = [boot EXCEPT !.free_bus_no = bus + 1, !.slot = Last(p) + 1,
                                        !.used = @ \cup {bus}, !.bridge = (bus :> p) @@ @]
                /\ ecam' = [ecam EXCEPT ![p].secondary = bus, ![p].subordinate = bus]
        /\ UNCHANGED device_head

\* The next function of the bus that answers.
NextOn(p) == /\ p \in On(boot.bus) /\ Last(p) >= boot.slot
             /\ \A q \in On(boot.bus) : Last(q) < boot.slot \/ Last(p) <= Last(q)

Visit ==
    /\ boot.at = "setup"
    /\ \E p \in DOMAIN machine :
         /\ NextOn(p)
         /\ pci_setup_device(p) \/ pci_setup_bridge(p) \/ pci_unsupported(p)
    /\ UNCHANGED machine

NextBus ==
    /\ boot.at = "setup" /\ \A p \in On(boot.bus) : Last(p) < boot.slot
    /\ boot' = [boot EXCEPT !.bus = @ + 1, !.slot = 0,
                            !.at = IF boot.bus + 1 = PCI_NUM_BUSES THEN "ready" ELSE @]
    /\ UNCHANGED <<machine, ecam, device_head>>

PciNext == FindUsedBuses \/ Visit \/ NextBus

-----------------------------------------------------------------------------
(* Properties. *)

Registers(p) ==
    IF p \in Bridges
    THEN [secondary : 0 .. PCI_NUM_BUSES - 1, subordinate : 0 .. PCI_NUM_BUSES - 1,
          base : Nat \cup {NULL}, limit : Nat \cup {NULL}]
    ELSE [bar : Seq(Nat \cup {NULL})]

\* The bitset is left only when there are more bridges than it has bits in use.
PciTypeOK ==
    /\ \A p \in DOMAIN machine : ecam[p] \in Registers(p)
    /\ boot.at \in {"scan", "setup", "ready", "failed", "fault", "wild"}
    /\ boot.used \subseteq 0 .. PCI_NUM_BUSES - 1 /\ boot.bus \in 0 .. PCI_NUM_BUSES
    /\ \A d \in Range(device_head) : d.irq \in 0 .. 3 /\ d.caps \subseteq Common
    /\ boot.at = "wild" =>
           Cardinality(Bridges) >= U64 * (PCI_NUM_BUSES \div U64_BITS)

Devices == {p \in DOMAIN machine : machine[p].kind = "device"}
Assigned(p) == \A k \in DOMAIN ecam[p].bar : ecam[p].bar[k] # NULL
Bars == {<<p, k>> \in Devices \X (1 .. 6) :
             k \in DOMAIN ecam[p].bar /\ Assigned(p) /\ machine[p].bars[k] > 0}
BarRange(b) == ecam[b[1]].bar[b[2]] .. ecam[b[1]].bar[b[2]] + machine[b[1]].bars[b[2]] - 1

\* What a bridge forwards: its window registers count in units of the alignment.
Forwards(p) ==
    IF ecam[p].base = NULL THEN {}
    ELSE LET first(n) == (n * BRIDGE_UNIT) - ((n * BRIDGE_UNIT) % PCI_BRIDGE_MEMORY_ALIGNMENT)
         IN  first(ecam[p].base) .. first(ecam[p].limit) + PCI_BRIDGE_MEMORY_ALIGNMENT - 1

\* Every BAR is aligned to its size and overlaps no other; it is inside the window of the
\* bridge it is behind, and inside no other window, so that an access to it reaches it.
ResourcesDisjoint ==
    /\ \A b \in Bars : ecam[b[1]].bar[b[2]] % machine[b[1]].bars[b[2]] = 0
    /\ \A b, c \in Bars : b # c => BarRange(b) \cap BarRange(c) = {}
    /\ \A b \in Bars : \A p \in Bridges :
           IF p = Front(b[1]) THEN BarRange(b) \subseteq Forwards(p)
                              ELSE BarRange(b) \cap Forwards(p) = {}

\* The line INTA of a device raises: each bridge adds its slot.
Swizzled(p) == FoldLeft(LAMBDA n, slot : n + slot, 0, p) % 4

\* Once discovered, every device that has a driver, on the root bus or right behind a
\* bridge of it, is in the list of devices once, with all four virtio capabilities when
\* another one ends the list, and with the line it raises when the bridges stand in
\* the slots from 1 on, as those the Makefile asks for do.
AllAttached ==
    boot.at = "ready" =>
        /\ \A p \in Devices : machine[p].driver \in Drivers /\ Len(p) <= 2 =>
               Cardinality({k \in DOMAIN device_head : device_head[k].place = p}) = 1
        /\ \A d \in Range(device_head) :
               /\ Last(machine[d.place].caps) \notin Common => d.caps = Common
               /\ (\A b \in Bridges : Len(b) = 1 => \A s \in 1 .. b[1] : <<s>> \in Bridges)
                      => d.irq = Swizzled(d.place)
=============================================================================
