# Verification of the DFL FPGA drivers

TLA+ models of the run-time core of the Intel Device Feature List (DFL) FPGA
drivers in this repository and of the FPGA framework they come with: how a card
is enumerated and its features bound, who owns a port, what is pinned and bound
for user space, how an image is uploaded, how the MAX10 BMC is updated, how a
port is reset and reconfigured, how managers, bridges and regions program an
FPGA, and how registers are reached over the buses. TLC checks small instances,
TLAPS proves all safety invariants but one for every instance.

## The system

A PCIe card exposes a *device feature list*. Enumeration (`dfl.c`, `dfl-pci.c`)
turns it into one FME (FPGA management engine) and several *ports*, each a
platform device with a character device. An accelerator (AFU) sits behind each
port.

| Component | State | Operations | Interacts with |
|---|---|---|---|
| Port ownership (`dfl.h`, `dfl.c`, `dfl-afu-main.c`, `dfl-pci.c`) | `fdata->dev`, `open_count`, `excl_open`, `private`; `released_port_num`; access mode; VFs | open, close, bind, unbind, PORT_RELEASE, PORT_ASSIGN, SR-IOV configure | user space, PCI core |
| Image load framework (`fpga-image-load.c`) | `opened`, `progress`, `err_*`, `remaining_size`, `data`, `finished`, the work item | open, WRITE, STATUS, CANCEL, close, unregister, worker | lower-level driver by `fw_upload_ops`, work queue, eventfd |
| Secure update (`intel-m10-bmc-sec-update.c`) | `cancel_request`, the firmware state, the flash lock | prepare, write, poll_complete, cancel, cleanup, retimer load | framework, BMC through the doorbell, PMCI flash |
| PMCI flash (`intel-m10-bmc-pmci.c`) | `flash_mutex`, `flash_busy`, the mux | lock, unlock, write, read | secure update, readers |
| Reset and PR (`dfl-afu-main.c`, `dfl-afu-error.c`, `dfl-fme-pr.c`, `dfl-fme-{br,mgr,region}.c`, `fpga-{region,bridge,mgr}.c`) | `disable_count`, reset bit, FME, region, manager and bridge locks, bridge list | reset, error clear, PR ioctl | user space, hardware, other users of the manager |
| AFU DMA regions (`dfl-afu-dma-region.c`) | region tree, pinned pages, `locked_vm` | map, unmap, destroy | port ownership, IOMMU, several threads |
| Interrupt triggers (`dfl.c`) | `irq_ctx[]`, eventfd references | set triggers, rollback, unbind at close | port ownership, interrupt handlers |
| Enumeration (`dfl.c`, `dfl-pci.c`, `dfl-platform.c`) | `build_feature_devs_info`, feature devices, region, vectors | find lists, parse, commit, remove | all drivers |
| DFL bus (`dfl.c`, `dfl-priv-feat-main.c`, `dfl-fme-main.c`, `dfl-afu-main.c`) | features, DFL devices, drivers, port operations | feature init and uninit, add, match, bind, module unload | enumeration, FME bridges |
| Managers (`fpga-mgr.c` and its drivers) | state, lock, references, the load | register, get, lock, load, unregister | regions, service layers, DMA engines, devices |
| Regions and bridges (`of-fpga-region.c`, `fpga-region.c`, `fpga-bridge.c` and the bridge drivers) | bridge lists, locks, image info | overlay apply and remove, program, register, unregister | managers, device tree |
| CXL cache (`dfl-cxl-cache.c`) | buffer tree, pins, CSRs, class | map, unmap, open, close, probe, remove | user space |
| SVA (`dfl-pci-sva.c`) | devices, bindings, two mutexes | open, bind, unbind, close, removal | IOMMU, misc devices |
| FME performance (`dfl-fme-perf.c`) | `fab_users`, `fab_port_id`, CPU, control register | event init, start, read, stop, CPU offline | perf core |
| Register buses (`regmap-spi-avmm.c`, `regmap-indirect-register.c`, `spi-altera-core.c`) | transfer buffers, mailbox | encode, decode, handshake | BMC and NIOS drivers |
| NIOS (`dfl-n3000-nios.c`), QSFP (`qsfp-mem-core.c`) | firmware handshake; presence and polling | probe, hot plug work, remove | firmware, modules |

Hard in this code are: state read outside the lock that protects it (`afu_open`,
the eventfd of the worker); counts taken in one call and given back in another
(release and assign, disable and enable); error paths that must give back what
was taken (prepare, PR); a cancel that races the step it is to cancel; an
external firmware that answers late or not at all; two actors that share one
variable (retimer load and update); hardware that goes on by itself after a
timeout (service layer, DMA queue, mailbox); and coding in which every byte may
mean something else. `PROJECT.json` lists each at its line.

## Modules

| Module | Models | Composition |
|---|---|---|
| `PortDev` | port ownership | |
| `ImageLoad` | image load framework over any lower-level driver | |
| `UploadSpec` | what the framework promises its user | implemented by `ImageLoad` |
| `SecUpdate` | secure update driver, BMC, retimer load, flash reader | extends `ImageLoad` and composes its worker with the driver |
| `PortReconfig` | port reset and partial reconfiguration | |
| `DmaRegions` | DMA regions of an AFU | |
| `IrqTriggers` | interrupts and their eventfds | |
| `CxlCache`, `PciSva` | CXL cache buffers; shared virtual addressing | |
| `FmePerf` | performance events of the FME | |
| `SpiAvmm`, `IndirectRegs` | register access over SPI and through a mailbox | |
| `StagingFlash` | the bytes of an image on the way to and from the flash | |
| `QsfpHotplug`, `NiosInit` | hot plug work; start of the N3000 firmware | |
| `DflEnum`, `DflBus` | enumeration; binding of features and DFL drivers | |
| `FpgaMgr` | the manager framework over any driver | |
| `SerialManagers`, `Stratix10Mgr`, `ZynqMgr`, `SocfpgaMgr`, `CreditManagers` | the manager drivers | extend `FpgaMgr`: their operations are conjoined with the framework's steps |
| `OverlayRegions` | device tree regions, region programming, bridges and their drivers | |
| `PortDev_proofs`, `PortReconfig_proofs`, `ImageLoad_proofs` | theorems about the module of that name | each extends its module |
| `FpgaMgr_proofs` | theorems about the manager framework and five groups of drivers in it | extends `SerialManagers`, `CreditManagers`, `SocfpgaMgr`, `ZynqMgr`, `Stratix10Mgr` |
| `SecUpdate_proofs` | theorems about the driver in the framework | extends `SecUpdate` and `ImageLoad_proofs` |
| `UserResources_proofs` | theorems about what is pinned and bound for user space | extends `DmaRegions`, `CxlCache`, `PciSva`, `IrqTriggers` |
| `BoardDrivers_proofs` | theorems about five drivers without common state | extends `QsfpHotplug`, `NiosInit`, `IndirectRegs`, `FmePerf`, `StagingFlash` |
| `Platform_proofs` | theorems about enumeration, binding and programming by overlays | extends `DflEnum`, `DflBus`, `OverlayRegions` |
| `MC*` | the instances TLC checks; `MCDrivers` and `MCProgramming` hold several modules without common state and exercise one per behaviour | |

Each module defines next to an operation its *faults* (`operation_Fault`):
plausible bugs of that code, used to show that each property can fail. A module's
properties are named parts, each stated by itself, and one conjunction of them
that the run checks (`DmaRegionsExact`, `MgrLoadTrue`, `UploadTrue`, ...).

**PortDev.** A function per field of `struct dfl_feature_dev_data`, over the
ports. What the code does under `fdata->lock` is one step. Release and assign
hold `cdev->lock` throughout; the variable `ctl` is that lock with how far its
holder is, so that opens and unbinds interleave with the unregistration
(`release_port`, `release_unregister`, `release_done`) and registration
(`assign_port`, then `assign_add` or `assign_fail`, `assign_done`). `afu_open`
is three steps: the character device is found, `fdata->dev` is read, the lock is
taken. Generations tell platform devices of one port apart. A NULL device or
NULL private data is an oops: no action of that file follows.

**ImageLoad.** An ioctl is one step, because it runs under `fwlp->lock`; the
worker is a program counter that stops before each lock and each operation.
`flush_work` waits for the instance queued or running when it was called. A
NULL eventfd makes the worker die, with the lock (`stuck`) or without (`oops`).
`Client` says how careful the user is: starts an upload at `any` time, `waits`
for the eventfd of the last, or is `quiesced`: the worker has also returned.
The unit of sizes is the write block.

**SecUpdate.** `sop` is where the current operation is; each step makes one
access to the doorbell or one wait for it. A wait expires when the BMC has
nothing left to do, and with the fault `slow` at any time; with `rw` accesses
fail. BUSY stands for the three progress values that only mean busy. The BMC is
external: it clears the request, erases, follows the host status, programs or
rejects, and times out an update the host abandoned. `late` records that a
cancel came after the last look at `cancel_request`.

**PortReconfig.** A port is its `disable_count`, the reset bit and its
acknowledgement. `afu_port_disable` and `afu_port_enable` return the set of
possible outcomes; callers hold the port's lock, so a reset is one step. The PR
ioctl is a program counter from the FME lock to the final put. A port whose
header has revision 2 or more is never reset by the driver and is left out.

**DmaRegions.** Each thread's ioctl is a program counter that stops where the
lock of the port is taken or dropped: charging `locked_vm`, pinning (which may
get fewer pages than asked for), the check for contiguous frames, the device
mapping, the insertion, and each step of undoing them. `dma_iommu` tells whether
the device address is one the IOMMU chose or the page frame. The last close
destroys what is in the tree. `Legacy` selects the code for kernels before 5.3.

**IrqTriggers.** One call at a time walks its range; an interrupt may be
delivered between any two steps. `fd_refs` counts references to each eventfd.

**CxlCache.** One call at a time. The search by containment depends on which
buffers are above which, and that on the rotations of the kernel's red-black tree.
The tree is kept as the depth of each buffer; an insertion or a removal leads to any
red-black tree of the buffers (`RedBlackTrees`), and a search meets the nodes that are
shallower than all between them and what is searched (`Path`). **PciSva.** Open runs under the mutex of the misc devices and
takes the device's mutex, removal takes them in the other order; both are holders
in the state.

**FmePerf.** A read of a counter is a selection, a poll and a read without a
lock; `fab_users` changes under its lock. `own` and `want` are history: whether
the value belongs to the event that asked for it, and what it should have counted.

**SpiAvmm.** Bytes have their real values. `br_pkt_phy_tx_prepare` is escaping
and padding as functions on sequences; the slave's bridge is external: it decodes
what it is sent, answers at any time with idle bytes in between, or not at all.
**IndirectRegs** and **NiosInit** are the handshakes with a device that is late.
**StagingFlash** numbers the bytes, so that a byte in the wrong place shows.
**QsfpHotplug** is the self-requeuing work against modules that come and go and
against removal.

**DflEnum.** A board is its BARs, each a sequence of headers with the distance
to the next. `en` is the build info with the window (`base`, `len`) that moves at
every FIU. A good board is one that follows the format (`FollowsFormat`): its
lists are found, start with a device, and what their headers describe lies inside
of them. **DflBus.** A feature device's probe is a program counter over its
features; DFL drivers come and go at any time. `pops` is the module of the port
driver with the users of its operations. The code modelled is the one for kernels
from 5.4: before, `dfl_priv_feat_probe` adds its attribute groups itself
(`dfl-priv-feat-main.c:91`), and when that fails it ends without undoing the features
it has initialised.

**FpgaMgr.** A load is parse, write_init, write and write_complete, each with any
result; fragments, mapping, header size and `data_size` decide what is handed
over. An image is the places where its fragments end and what its header
declares; `MgrHeaders` are the header sizes drivers ask for. Driver modules replace "any result" by their operation and their hardware:
`Stratix10Mgr` has the thread of the service layer with its queue and callback,
`ZynqMgr` the DMA queue and its interrupt handler, `SocfpgaMgr` the monitor
interrupt and Arria 10 partial reconfiguration, `CreditManagers` the wrapping
credit register of CvP and the countdown of the FME manager, `SerialManagers` the
ones whose operations are one step. The PR engine of the FME changes its status
bit `PR_STS` and finds errors at any time while it runs (`pre_device`). The driver
reads and clears `FME_PR_ERR` only while that bit is set
(`fme_mgr_pr_error_handle`), so an error of an earlier load may still be there when the next
one starts, and one without the bit is not seen; `FmeErrorSeen` promises no more than
that a load does not succeed over an error shown by the bit. The service layer of
the Stratix 10 may run out of buffers before all slots are filled
(`s10_init_alloc`).

**OverlayRegions.** A notification is a program counter over taking bridges,
locking the manager, disabling, loading, enabling and every error label.
`remap.l3` is the write-only register two bridges share. The probe of
`altera-fpga2sdram.c` takes two steps, because it registers the bridge (line 124)
before it sets it (line 139) without the bridge's mutex; in between a region can take
the bridge. `late` marks a bridge that its probe has touched while a region held it,
until the region sets it again or puts it: that bridge may pass traffic while its region is
loaded, or none while its overlay is applied, and `RegLoadIsolated` and
`RegAppliedUp` except it and no other. When that probe fails, the bridge a region
holds loses its driver, and what the region does with it next may be an oops
(`bridge_oops`). A second probe of the same device while a region holds the bridge of
the first would make another `struct fpga_bridge` and is left out.

## Runs

Passing runs, and why their bounds are enough:

| Run | Shows | Bounds |
|---|---|---|
| `port_ownership` | use counts and the released count are exact, released ports are clean, only released ports change mode | 2 ports, 2 files, 2 device generations, 2 VFs: a port is released, assigned and opened again while another is in any state |
| `upload_framework` | references, offsets, errors and completion of each upload; close and remove wait and return; every upload is signalled; `UploadSpec` is implemented | 3 uploads of 1 or 3 blocks with any result from the driver, quiesced user |
| `secure_update_n6000` | readers and updates exclude each other, error paths release flash and firmware state, success means programmed, cancels count, only whole images are programmed; the driver with its BMC implements `ImageLoad`, liveness included | 2 uploads of 2 or 3 blocks into a staging area of 2, faults `rw` and `slow`, 2 reads: the second upload meets what a failed first one left in the doorbell |
| `secure_update_n3000` | the same safety with a retimer load, and the framework's references and close, for a user who only waits for the eventfd | as above, 1 retimer load |
| `port_reset` | count and reset bit agree, the count never wraps, loads happen in reset, locks are released, every PR ends | 2 ports, 2 callers, 2 PR ioctls, any number of resets, with timeouts and failing loads |
| `drivers` | pins, charges and mappings are exact in every interleaving of maps and unmaps; what is bound is unbound once; accesses over both register buses return what the device holds or an error, and an answer that is there at the deadline is taken; whole words reach the flash in order; modules are noticed and polled; fabric counters are read in the mode of their event; the firmware has let go of the SPI bus before it is used | see below |
| `programming` | enumeration stays inside of its memory, groups every feature, accepts every good board and cleans up after every failure; features are served once and unwound in order; a region is isolated while it is loaded and up when its overlay is applied; "operating" is true for every driver but MachXO2; no buffer is freed while hardware uses it; no FIFO overruns | see below |

`drivers`: 2 threads of 2 processes over 3 pages of which two have neighbouring
frames, 2 regions (two maps and unmaps of overlapping memory and one address); up
to 4 CXL buffers over 4 pages (four make trees of more than one shape and of three levels, so that
a buffer is searched past one that is not above it); 2 files and 2 lifetimes of an SVA
device; 3 interrupts, 2 eventfds (a failure between a bound one and one still to
bind); 2 registers whose addresses and a value made of bytes that need escaping,
1 idle byte anywhere in an answer; 2 events of three kinds on 2 CPUs;
transfers of 1 to 40 bytes with 4-byte words, 16-byte blocks, a FIFO of 2 words
and read blocks of 12: below, at and above every boundary, and several blocks; 3
probes of the firmware versions 0, 2 and 3.

`programming`: images of 1 to 3 fragments whose header ends inside, at the end of
and behind a fragment; 2 users of the manager for the framework and the serial
drivers, 1 for those with a concurrency of their own; 2 slots, 3 buffers and a
queue of 2 for the service layer (while no buffer is known to either side one
choice of the first two stands for all: buffers are only compared for equality);
a DMA queue of 2 for lists of 3; credits modulo 3; 2 regions over 5 bridges, one
of each driver, with a parent bridge and nested lists, and in behaviours of their own
(`own`) one region over the two bridges no other has, one of which is set by its probe at any
time; 17 named boards, 5 of them
good, and every list of three headers of nine kinds in memory that ends before,
in and behind the last (485 of the 2203 boards follow the format); one feature device of each kind with up to 3 features and
2 DFL drivers.

Violation runs; each is a finding in `PROJECT.json` with the text it contradicts:

| Run | What the code does |
|---|---|
| `upload_eventfd` | the old worker drops the eventfd of the next upload |
| `secure_update_retimer` | a refused retimer load ends the protection of an update |
| `port_reset_recover` | after a failed load a reset succeeds and leaves the port in reset |
| `staging_remainder` | bytes behind the last whole word are dropped (N6000) or taken from the wrong place (N3000) |
| `perf_count` | reading an event twice counts the first interval twice |

Deadlock is checked where the system never stops (`port_ownership`,
`port_reset`). An image load device that was unregistered and closed has
nothing left to do, and `drivers` and `programming` have transfers and probes
that end, so those runs allow the end.

**Fairness.** The worker runs, and its operations return: the work queue is
`system_long_wq` and every wait of the driver has a timeout; `ImplementsImageLoad`
discharges the second half. `flush_work` returns after the work. The BMC acts on
a request it has seen, though never within a given time, and the retimer load
and a flash read run to their end. A thread in the PR ioctl runs on and gets the
mutex it waits for; resets, acknowledgements and user actions are not assumed.
`drivers` and `programming` check safety only and assume no fairness.

## Proofs

Every theorem holds for all values of the constants its `ASSUME`s admit: finite
sets, distinct model values, natural bounds. An invariant a run checks is seldom
inductive; each module of proofs names the parts that make it so, shows with one
lemma per operation that a step keeps them, and derives the property.

| Module | Theorem | States | Of |
|---|---|---|---|
| `PortDev_proofs` | `UseCountCorrect`, `ReleasedCountCorrect`, `ReleasedPortIsClean`, `UnusedPortIsClean`, `ModeChange` | `UseCountExact`, `ExclusiveUserAlone`, `ReleasedCountExact`, `ReleasedPortClean`, `UnusedPortClean`, `ModeChangesOnlyWhenReleased` | any ports, files, generations, VFs |
| `PortReconfig_proofs` | `ResetIsCounted`, `LoadKeepsReset`, `ReleasesLocks` | `CountIsReset`, `HeldInReset`, `LocksReleased` | any ports and callers, every timeout and failure |
| `ImageLoad_proofs` | `ReferencesBalance`, `UploadIsTrue`, `CloseIsLast` | `RefsBalanced`, `UploadTrue`, `CloseWaits` | any driver, sizes, number of uploads; user waits for the eventfd |
| | `StopsAreLast`, `EventfdIsOwn`, `ImplementsUploads` | `StopsWait`, `EventfdInstalled`, the safety part of `UploadSpec` | as above; quiesced user |
| `SecUpdate_proofs` | `ImplementsFramework`, `StateIsReleased` | the safety part of `ImageLoad`, `UpdateStateReleased` | any user, board, sizes and faults |
| | `EraseIsProtected` | `EraseWriteProtected` | as above, no retimer load |
| | `OutcomeIsTrue`, `WholeImageProgrammed`, `SecUpdateIsTrue` | `OutcomeTrue`, `ProgramsWholeImage`, `SecUpdateTrue` | any board, sizes and faults; user waits for the eventfd |
| `UserResources_proofs` | `DmaIsExact` | `DmaRegionsExact` | any threads, processes, pages and regions; kernels from 5.3 |
| | `CxlIsExact` | `CxlBuffersExact` | any pages, any number of buffers, any tree of them |
| | `SvaIsOwned` | `SvaOwnership` | any files, processes, lifetimes of the device |
| | `BindingsAreExact`, `FailureUnbinds` | `IrqBindingsExact`, `IrqFailedUnbinds` | any interrupts and eventfds |
| `BoardDrivers_proofs` | `QsfpIsFollowed`, `NiosIsSafe`, `IndirectIsTrue`, `PerfIsIsolated`, `StagingIsTrue` | `QsfpFollowsCage`, `NiosHandshakeSafe`, `IndirectAccessTrue`, `PerfEventsIsolated`, `StagingTransferTrue` | any registers and values; events, CPUs and kinds; sizes of words, blocks, FIFO and transfers |
| `Platform_proofs` | `EnumIsSound` | `EnumSound` | any boards, BARs and header lists |
| | `BusIsSound` | `BusSound` | any feature devices, features and drivers |
| | `RegionsAreIsolated` | `RegionIsolation` | any regions, bridges and overlays |
| `FpgaMgr_proofs` | `MgrLoadIsTrue` | `MgrLoadTrue` | any users, images, header sizes and results of the driver |
| | `SerialIsTrue`, `CreditIsTrue`, `SocIsTrue`, `ZynqIsTrue`, `S10IsSafe` | `SerialLoadTrue`, `CreditLoadTrue`, `SocLoadTrue`, `ZynqLoadTrue`, `S10BuffersSafe`, each with `MgrLoadTrue` | any users and images, credits and wrap of their register, length of the DMA queue, slots and buffers of the service layer |

Some theorems have a hypothesis, which the code needs. The write ioctl accepts
an upload while the last one is still running and overwrites the data of the
worker, hence `Client # "any"`; and what concerns the eventfd needs a user who
lets the worker return, since otherwise `upload_eventfd` loses it. `NoRetimer`
(no retimer load on an N3000) is the hypothesis of `EraseIsProtected`, whose
failure with one is `secure_update_retimer`. `ImagesFilled` (no image is empty) is
the one of `SerialIsTrue`: ZynqMP and Versal have no `write_complete`, so that the
framework would call them operating after a load without a write; and of
`S10IsSafe`: it is a write that waits for the buffers to come back. The images of
`programming` all have data. `DmaIsExact` is about the code for kernels from 5.3
(`~Legacy`). `ListsLead` is the hypothesis of `EnumIsSound`: the type of a list's
first FIU is read from the list's first header, so that a list which starts with
an interface, or with a header of no known type, must not name a device there. TLC
checks it of the boards of `programming` (`MCBoardsAssumption`).

The constants' own assumptions are few. Sets of pages and processes are finite.
The blocks of the flash controller are whole words (`StagingAssumption`). Pages are
numbers, and how many CXL buffers are mapped at a time is any number (`CxlAssumption`).
The headers of a list are
all there up to its end and an interface has a distance to the next header
(`EnumAssumption`); what the code does without is among the behaviours at the end.

**The arguments.**

- `PortDev`: `IInv` adds `CtlPhase` (`cdev->lock` is held exactly while a
  registered port is being worked on, and `released_port_num` is ahead by one
  while an assign is under way) and `NothingLeft` (resources exist only under
  open files, so that a release, which needs the count to be zero, finds nothing).
- `PortReconfig`: whoever is inside the region code holds the FME's lock
  (`Serial`), and a load in progress has its port counted (`LoadCounted`), so that
  a reset in the middle of a load nests. For `LocksReleased` a second invariant
  says for each place of the ioctl which locks its caller holds.
- `ImageLoad`: for each place of the worker, the progress shown
  (`ProgressMatches`), how much of the image is left (`ImageMatches`) and, once the
  result is known, that it fits (`OutcomeSettled`); at most one upload is under way
  (`OneUpload`), and a close waits for the work that was there when it began
  (`ReleaseWaits`). `QInv` is what a quiesced user adds: the uploads signalled are
  all but the one under way, which is also the refinement mapping's
  `Cardinality(signalled)`.
- `SecUpdate`: the step lemmas first show that a step of the composition is a step
  of `ImageLoad` or leaves its variables alone, so that `IInv` carries over
  (`ImplementsFramework`). `LockInv` then says at which places of an operation the
  flash is locked and the firmware state set; `BmcInv` couples driver and BMC:
  whose request the doorbell shows (`DoorbellOwned`), how much of which image is
  staged (`StagedMatches`, `SentMatches`), that a cancel was seen or came late
  (`CancelSeen`), and that a success still pending is the BMC's
  (`SuccessSettled`). The difficulty is what a failed upload leaves in the doorbell
  for the next one; `DoorbellSound` and `DoorbellOwned` say that it is not taken
  for an answer to it.
- `DmaRegions` (`DmaIInv`): the regions are numbered apart (`DmaIds`) and each is in
  the tree or with one ioctl, never both (`DmaApart`), so that the pins of a page
  and the charges are a cardinality and a sum over disjoint parts, and a step moves
  one region from one part to another. `CxlCache` (`CxlIInv`): what is in the tree is
  what is pinned (`CxlCounted`), and every buffer in it has a depth (`CxlTree`,
  kept by `TreesAre` whatever the tree). A search for a buffer of the tree finds one:
  the buffer itself is on its own path, so if none above it contains what is
  searched the search ends there (`FindsOne`).
- `IrqTriggers`: during a call the references are those of the bindings plus the
  one about to be bound (`RefsMatch`), a handler is missing only at the interrupt
  being freed (`HandlersMatch`), and rollback and close have unbound what they
  passed.
- `PciSva`: a live device is listed or being removed (`LiveMatches`), and an open
  or a handle needs it live (`DevicesServe`): removal takes the handles and waits
  for the open before the function goes.
- `QsfpHotplug`, `NiosInit`, `IndirectRegs`: what a half-finished pass, probe or
  access has already established. For the mailbox, the command that is still being
  carried out is the access's own unless the mailbox was not clear when it began.
- `FmePerf`: all fabric events in use are in one mode (`PerfOneMode`), open events
  are on one CPU or a migration is under way, and a counter that was selected
  belongs to its event (`PerfUnmixed`). The exact `fab_users` is a cardinality.
- `StagingFlash` (`StIInv`): what was moved so far are the first bytes by whole words,
  inside of the transfer, and the words about to be put fit into the room the FIFO
  was read to have (`StRoom`, `StInside`, `StWritten`, `StReadSoFar`).
- `OverlayRegions` (`RegIInv`): what each place of a notification has done to the
  bridges it has passed and still has to do (`RegPhase`, `RegTodo`), that a
  bridge is held exactly by the region that lists it (`RegHeldListed`), that only
  `fpga2sdram` is set behind its registration and a region can only so hold a bridge that is
  not registered (`RegLate`), and that the
  shadow of the remap register is what was written to it (`HpsShadow`).
- `DflBus` (`BusIInv`): for each place of a probe and of its unwinding which features
  are served, by whom, and what is bound on top of them; the module of the port
  driver is there while it has users.
- `DflEnum` (`EnIInv`): where the walk is and that its window is a part of the list
  (`EnHere`); features belong to a list that was begun and to their device (`EnDevs`,
  `EnPending`); devices are told apart by list and first header, in order
  (`EnApart`, `EnOrder`); every header that was passed is a feature somewhere
  (`EnCovered`, `EnKept`). That a good board is accepted follows header by header
  from `Fits`. The lemmas about offsets, port lists and the last FIU need induction
  over the place in a list: they take the smallest place where the claim fails
  (`LeastNumber`, from the well-foundedness of the naturals).
- `FpgaMgr`: between two writes the driver has everything from the start of the
  data to the position (`MgrSends`). A fragment's end is the least end behind the
  position (`FragEndIs`, by well-foundedness of the naturals), so that no
  induction over fragments is needed. The lemmas about the framework's steps are
  stated for any operations of a driver.
- The drivers in the framework: `FrameworkFrame`, `WriteInitFrame`, `WriteFrame` and
  `WriteCompleteFrame` say what of the framework a driver sees change, and each
  driver adds its own part to `MgrIInv`. Serial: an image that is done was confirmed
  (`SmConfirmed`). Credits: what was sent never exceeds what was granted, since a
  register that differs modulo the wrap differs; and the PR engine has stopped when a
  load is done, so that no error comes after the last look (`CredMatches`). Cyclone V: the wait for the
  interrupt is a part of `write_complete` (`SocMatches`). Zynq: what the engine took,
  followed by what is queued, is the beginning of the list in its order, whoever
  queued it, and the queue is empty once the handler stopped or the engine halted
  (`ZynqOrder`, `ZynqWaits`). Stratix 10: who holds each buffer, which slots are
  locked for it, and which messages in the queue are about it (`S10Inv`).

Only model-checked, because they are out of the prover's reach: liveness
(`FlushReturns`, `PrEnds`) and the fairness of the two implementation relations
(`ImplementsUploadSpec`, `ImplementsImageLoad`, whose safety parts are proved); and
`AvmmAccessTrue`, since the slave of `SpiAvmm` decodes a stream of bytes by a
RECURSIVE operator and what escaping and decoding do to every stream is an
induction over data.

## Plan

The core of the system is modelled, and every safety invariant and action property a
passing run checks is proved except `AvmmAccessTrue`. To prove that one, `SlaveWords` and the
escaping of `SpiAvmm` would have to be written as recursive functions and shown to
be inverse to each other by smallest counterexample. What could be modelled next
is listed below.

## Not modelled

- *Sensors, power, thermal and error attributes, the BMC log* (`hwmon`,
  `dfl-fme-main.c`, `dfl-fme-error.c`): each call reads or writes registers under
  one mutex and formats the result.
- *The rest of the secure update driver*: the other image load triggers, the SDM
  work, the power-on image and the read-only attributes.
- *UIO, serial, EMIF, PTP, Ethernet and PHY drivers*: glue to other frameworks and
  straight register sequences.
- *Compatibility headers, host tools, packaging*: not run-time code.

Behaviours met on the way that no run states:

- `afu_open` reads `fdata->dev` without the lock, so that a file can be open with a
  device that is NULL or gone. Unbinding the AFU driver drops the private data
  under open files, which `PortDev` treats as the end of those files. A port may be
  assigned while VFs exist and then keeps VF access mode.
- A second WRITE during an upload is accepted, where the documentation promises
  EBUSY; an upload can start after unregister returned; and prepare forgets a
  cancel that came before it.
- `del_dfl_mdev` and an open of the SVA device take two mutexes in opposite order.
- A CXL unmap may find another buffer than the one it names; MachXO2 and Stratix 10
  have paths on which an error or a late answer is not seen.
- The end of the AFU a port names is checked as an unsigned difference, so that an AFU
  behind the end of the window is accepted (`dfl.c:1311`); `EnumInside` excepts it. An
  interface header without a distance and without the end mark would keep
  `feature_size` reading it for ever.
- A list of private features inherits the feature count of the list before it, and
  the reference to the FME device is kept when enumeration fails later.
- A region that meets a busy bridge leaves its own image info in it.
- `fme_mgr_write_init` announces "check and clear previous PR error"
  (`dfl-fme-mgr.c:149`) after a poll that has just seen `PR_STS` clear; unless the bit
  comes back in between, nothing is checked or cleared there. A `write_complete` sees no
  error without the bit either.
- The probe of `altera-fpga2sdram.c` can enable the bridge of a region that is being
  loaded, disable the one of an applied region, and, when it fails, unregister a bridge
  a region holds, whose driver data is then freed.
