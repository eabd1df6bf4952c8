------------------------------ MODULE LinuxVM ------------------------------
(***************************************************************************)
(* The Linux VM a Windows or macOS host keeps for its Linux jobs           *)
(* (pkg/vm/linuxvm_windows.go, linuxvm_darwin.go, hcs_windows.go and the   *)
(* goroutine of cmd/ephemerd/runtime_windows.go that starts it): assets    *)
(* and root disk are brought up to date on disk, the VM is created and     *)
(* booted, found by its address and probed until its dispatch server       *)
(* answers; cleanup waits for that goroutine and then stops the VM.  The   *)
(* daemon may be killed between any two steps and started again, by the    *)
(* same binary or by a newer one.                                          *)
(***************************************************************************)
EXTENDS Naturals

CONSTANTS
  MaxSchema,     \* layouts of the root disk; rootVHDXSchemaVersion of a binary is one of them
  MaxVmKills     \* a bound on killed daemons

ASSUME LinuxVMAssumption == MaxSchema \in Nat \ {0} /\ MaxVmKills \in Nat

VARIABLES
  vmHost,      \* the platform
  vmAt,        \* where StartLinuxVM, Stop or cleanup is; "off": no VM, "down": no daemon
  vmWant,      \* rootVHDXSchemaVersion of the running binary
  onDisk,      \* the assets' copies; a "twin" is an older one of the same size
  bootInitrd,  \* the binary appended to the initrd that boots
  vhdx,        \* the root disk's layout; 0: no disk
  schemaMark,  \* root.vhdx.schema; 0: none
  vmGuest,       \* the VM
  vmNic,       \* its endpoint on the Default Switch
  vmIPSent,    \* ipCh
  watcher,     \* monitorVM; "over": l.done is closed
  vmClient,    \* l.client: nil, one that never answered, one that did
  quitting,    \* the daemon shuts down
  lastEnd,     \* how the daemon before this one ended
  vmKills

vmFiles == <<onDisk, bootInitrd, vhdx, schemaMark>>
vmRun == <<vmGuest, vmNic, vmIPSent, watcher, vmClient>>
linuxVMVars == <<vmHost, vmAt, vmWant, vmFiles, vmRun, quitting, lastEnd, vmKills>>

Assets == {"binary", "rootfs"}
Unsized == MaxSchema + 1      \* disk.img, created but not truncated to its size
OnHyperV == vmHost = "windows"
Starting == {"stale", "binary", "writeBinary", "rootfs", "writeRootfs", "initrd", "disk", "unmark",
             "newDisk", "mark", "nic", "create", "boot", "ip", "containerd", "dispatch"}
Halting == {"halt", "kill", "unplug"}

VmTypeOK ==
  /\ vmHost \in {"windows", "darwin"} /\ vmAt \in {"down", "ready", "off"} \cup Starting \cup Halting
  /\ vmWant \in 1..MaxSchema /\ onDisk \in [Assets -> {"none", "torn", "old", "twin", "cur"}]
  /\ bootInitrd \in {"none", "old", "cur"} /\ vhdx \in 0..Unsized /\ schemaMark \in 0..MaxSchema
  /\ vmGuest \in {"none", "stray", "created", "running", "exited"} /\ vmNic \in {"none", "own", "leaked"}
  /\ vmIPSent \in BOOLEAN /\ watcher \in {"none", "on", "over"}
  /\ vmClient \in {"none", "silent", "answered"} /\ quitting \in BOOLEAN
  /\ lastEnd \in {"clean", "killed"} /\ vmKills \in 0..MaxVmKills

LinuxVMInit ==
  /\ vmHost \in {"windows", "darwin"} /\ vmAt = "down" /\ vmWant = 1
  /\ onDisk = [a \in Assets |-> "none"] /\ bootInitrd = "none" /\ vhdx = 0 /\ schemaMark = 0
  /\ vmGuest = "none" /\ vmNic = "none" /\ vmIPSent = FALSE /\ watcher = "none" /\ vmClient = "none"
  /\ quitting = FALSE /\ lastEnd = "clean" /\ vmKills = 0

VmTo(from, to) == vmAt = from /\ vmAt' = to
VmSame == UNCHANGED <<vmHost, vmWant, quitting, lastEnd, vmKills>>

(* startContainerRuntime: a goroutine starts the VM. *)
StartLinuxVM ==
  /\ VmTo("down", IF OnHyperV THEN "stale" ELSE "binary")
  /\ vmIPSent' = FALSE /\ watcher' = "none" /\ vmClient' = "none" /\ quitting' = FALSE
  /\ UNCHANGED <<vmHost, vmWant, vmFiles, vmGuest, vmNic, lastEnd, vmKills>>

(* cleanupStaleVMs: every compute system owned by "ephemerd" is terminated, *)
(* unless the enumeration or the termination fails.                         *)
cleanupStaleVMs ==
  /\ VmTo("stale", "binary")
  /\ vmGuest' \in {vmGuest, "none"}
  /\ UNCHANGED <<vmFiles, vmNic, vmIPSent, watcher, vmClient>> /\ VmSame

Upto(a) ==
  \/ onDisk[a] = "cur"
  \/ ~OnHyperV /\ a = "rootfs" /\ onDisk[a] = "twin"     \* compared by size only

(* extractAssets, ensureAssets: a copy that is up to date is kept.  A file  *)
(* that is being written is torn; a failed write ends the start.            *)
SyncAsset(a, at, writing, next) ==
  /\ \/ Upto(a) /\ VmTo(at, next) /\ UNCHANGED onDisk
     \/ ~Upto(a) /\ VmTo(at, writing) /\ onDisk' = [onDisk EXCEPT ![a] = "torn"]
     \/ VmTo(writing, next) /\ onDisk' = [onDisk EXCEPT ![a] = "cur"]
     \/ VmTo(writing, "off") /\ UNCHANGED onDisk
  /\ UNCHANGED <<bootInitrd, vhdx, schemaMark, vmRun>> /\ VmSame

extractAssets ==
  \/ SyncAsset("binary", "binary", "writeBinary", "rootfs")
  \/ SyncAsset("rootfs", "rootfs", "writeRootfs", "initrd")

(* buildBootInitrd: the base initrd with the binary appended, at every start. *)
(* macOS boots the synced initrd and mounts the binary from the share.        *)
buildBootInitrd ==
  /\ \/ VmTo("initrd", "disk") /\ bootInitrd' = onDisk["binary"]
     \/ OnHyperV /\ VmTo("initrd", "off") /\ UNCHANGED bootInitrd
  /\ UNCHANGED <<onDisk, vhdx, schemaMark, vmRun>> /\ VmSame

(* A missing marker reads as 0, which is no binary's schema. *)
schemaMatches == schemaMark = vmWant

(* ensureRootVHDX: a disk whose marker is this binary's schema is kept; any *)
(* other is removed, then its marker, then the disk is made, then marked.   *)
ensureRootVHDX ==
  /\ OnHyperV
  /\ \/ vhdx # 0 /\ schemaMatches /\ VmTo("disk", "nic") /\ UNCHANGED <<vhdx, schemaMark>>
     \/ vhdx # 0 /\ ~schemaMatches /\ VmTo("disk", "unmark") /\ vhdx' = 0 /\ UNCHANGED schemaMark
     \/ vhdx = 0 /\ VmTo("disk", "newDisk") /\ UNCHANGED <<vhdx, schemaMark>>
     \/ VmTo("unmark", "newDisk") /\ schemaMark' = 0 /\ UNCHANGED vhdx
     \/ VmTo("newDisk", "mark") /\ vhdx' = vmWant /\ UNCHANGED schemaMark
     \/ VmTo("mark", "nic") /\ schemaMark' = vmWant /\ UNCHANGED vhdx
     \/ vmAt \in {"disk", "unmark", "newDisk", "mark"} /\ vmAt' = "off" /\ UNCHANGED <<vhdx, schemaMark>>
  /\ UNCHANGED <<onDisk, bootInitrd, vmRun>> /\ VmSame

(* ensureAssets: disk.img is created when there is none, then sized. *)
ensureDiskImage ==
  /\ ~OnHyperV
  /\ \/ vhdx # 0 /\ VmTo("disk", "create") /\ UNCHANGED vhdx
     \/ vhdx = 0 /\ VmTo("disk", "newDisk") /\ vhdx' = Unsized
     \/ VmTo("newDisk", "create") /\ vhdx' = vmWant
     \/ vmAt \in {"disk", "newDisk"} /\ vmAt' = "off" /\ UNCHANGED vhdx
  /\ UNCHANGED <<onDisk, bootInitrd, schemaMark, vmRun>> /\ VmSame

(* createNetworkEndpoint *)
createNetworkEndpoint ==
  /\ \/ VmTo("nic", "create") /\ vmNic' = "own"
     \/ VmTo("nic", "halt") /\ UNCHANGED vmNic
  /\ UNCHANGED <<vmFiles, vmGuest, vmIPSent, watcher, vmClient>> /\ VmSame

(* Refused while another VM holds the disk. *)
hcsCreate == vmGuest = "none" /\ vmGuest' = "created"

(* createAndBootVM: the compute system is described and created. *)
createVM ==
  /\ OnHyperV
  /\ \/ hcsCreate /\ VmTo("create", "boot")
     \/ VmTo("create", "halt") /\ UNCHANGED vmGuest
  /\ UNCHANGED <<vmFiles, vmNic, vmIPSent, watcher, vmClient>> /\ VmSame

(* hcsStart, and the monitor.  A failed start closes the handle. *)
hcsStart ==
  /\ OnHyperV
  /\ \/ VmTo("boot", "ip") /\ vmGuest' = "running" /\ watcher' = "on"
     \/ VmTo("boot", "halt") /\ vmGuest' = "none" /\ UNCHANGED watcher
  /\ UNCHANGED <<vmFiles, vmNic, vmIPSent, vmClient>> /\ VmSame

(* boot, on macOS: create, start and watch.  A disk without a size is       *)
(* refused, and a failed boot needs no Stop.                                *)
boot ==
  /\ ~OnHyperV
  /\ \/ vhdx # Unsized /\ VmTo("create", "containerd") /\ vmGuest' = "running" /\ watcher' = "on"
     \/ VmTo("create", "off") /\ UNCHANGED <<vmGuest, watcher>>
  /\ UNCHANGED <<vmFiles, vmNic, vmIPSent, vmClient>> /\ VmSame

(* The guest prints its address on the console (readConsole), or exits. *)
readConsole ==
  /\ OnHyperV /\ vmGuest = "running" /\ ~vmIPSent /\ vmIPSent' = TRUE
  /\ UNCHANGED <<vmAt, vmFiles, vmGuest, vmNic, watcher, vmClient>> /\ VmSame

GuestExits ==
  /\ vmGuest = "running" /\ vmGuest' = "exited"
  /\ UNCHANGED <<vmAt, vmFiles, vmNic, vmIPSent, watcher, vmClient>> /\ VmSame

(* monitorVM: closes l.done when the VM is gone. *)
monitorVM ==
  /\ watcher = "on" /\ vmGuest # "running" /\ watcher' = "over"
  /\ UNCHANGED <<vmAt, vmFiles, vmGuest, vmNic, vmIPSent, vmClient>> /\ VmSame

discoverIP_Forever ==
  /\ \/ vmIPSent /\ VmTo("ip", "containerd")
     \/ watcher = "over" /\ VmTo("ip", "halt")
  /\ UNCHANGED <<vmFiles, vmRun>> /\ VmSame

(* discoverIP: the address, the VM's end, or 60 seconds. *)
discoverIP ==
  /\ \/ vmIPSent /\ VmTo("ip", "containerd")
     \/ VmTo("ip", "halt")
  /\ UNCHANGED <<vmFiles, vmRun>> /\ VmSame

(* An attempt at containerd: a client is made and kept whether it answers  *)
(* or not; after the last attempt only a nil client is an error.           *)
ProbeContainerd ==
  \/ vmGuest = "running" /\ vmClient' = "silent" /\ UNCHANGED vmAt
  \/ vmGuest = "running" /\ vmClient' = "answered" /\ vmAt' = "dispatch"
  \/ vmClient # "none" /\ vmAt' = "dispatch" /\ UNCHANGED vmClient
  \/ vmClient = "none" /\ vmAt' = "halt" /\ UNCHANGED vmClient

(* waitForContainerd: Windows also gives up when the VM has exited. *)
waitForContainerd ==
  /\ OnHyperV /\ vmAt = "containerd"
  /\ ProbeContainerd \/ (watcher = "over" /\ vmAt' = "halt" /\ UNCHANGED vmClient)
  /\ UNCHANGED <<vmFiles, vmGuest, vmNic, vmIPSent, watcher>> /\ VmSame

(* waitForContainerd on macOS, the ARP table first; it never looks at l.done. *)
waitForContainerdVz ==
  /\ ~OnHyperV /\ vmAt = "containerd"
  /\ ProbeContainerd
  /\ UNCHANGED <<vmFiles, vmGuest, vmNic, vmIPSent, watcher>> /\ VmSame

(* waitForContainerd, the dispatch server's port. *)
waitForDispatch ==
  /\ \/ vmGuest = "running" /\ VmTo("dispatch", "ready")
     \/ VmTo("dispatch", "halt")
  /\ UNCHANGED <<vmFiles, vmRun>> /\ VmSame

(* The daemon is told to stop. *)
Quit ==
  /\ vmAt # "down" /\ ~quitting /\ quitting' = TRUE
  /\ UNCHANGED <<vmHost, vmAt, vmWant, vmFiles, vmRun, lastEnd, vmKills>>

(* cleanup: waits for the starter (<-linuxVMDone), stops the VM if there is one. *)
cleanup ==
  /\ quitting
  /\ \/ VmTo("ready", "halt") /\ UNCHANGED lastEnd
     \/ VmTo("off", "down") /\ lastEnd' = "clean"
  /\ UNCHANGED <<vmHost, vmWant, vmFiles, vmRun, quitting, vmKills>>

(* Stop: close the client and cancel the monitor; wait for it, ten seconds  *)
(* at most; terminate the VM and close its handle; delete the endpoint.     *)
StopHyperV ==
  /\ OnHyperV
  /\ \/ VmTo("halt", "kill") /\ vmClient' = "none" /\ watcher' \in {watcher, "over"}
        /\ UNCHANGED <<vmGuest, vmNic>>
     \/ VmTo("kill", "unplug") /\ vmGuest' = (IF vmGuest = "stray" THEN vmGuest ELSE "none")
        /\ UNCHANGED <<vmNic, vmClient, watcher>>
     \/ \E left \in {"none", "leaked"} :                                 \* leaked: Delete fails
          /\ VmTo("unplug", "off") /\ vmNic' = (IF vmNic = "own" THEN left ELSE vmNic)
          /\ UNCHANGED <<vmGuest, vmClient, watcher>>
  /\ UNCHANGED <<vmFiles, vmIPSent>> /\ VmSame

(* Stop on macOS: ask the guest, force it after ten seconds, cancel the monitor. *)
StopVz ==
  /\ ~OnHyperV
  /\ \/ VmTo("halt", "kill") /\ vmClient' = "none" /\ UNCHANGED <<vmGuest, watcher>>
     \/ VmTo("kill", "off") /\ vmGuest' = "none"
        /\ watcher' = (IF watcher = "on" THEN "over" ELSE watcher) /\ UNCHANGED vmClient
  /\ UNCHANGED <<vmFiles, vmNic, vmIPSent>> /\ VmSame

(* The daemon is killed.  The VM ends with its last handle, or HCS still    *)
(* lists it; the endpoint has no such rule.  On macOS the VM is in the      *)
(* daemon's process.                                                        *)
KillDaemon ==
  /\ vmAt # "down" /\ vmKills < MaxVmKills /\ vmKills' = vmKills + 1
  /\ vmAt' = "down" /\ lastEnd' = "killed" /\ watcher' = "none"
  /\ vmGuest' \in (IF OnHyperV /\ vmGuest # "none" THEN {"none", "stray"} ELSE {"none"})
  /\ vmNic' = (IF vmNic = "own" THEN "leaked" ELSE vmNic)
  /\ UNCHANGED <<vmHost, vmWant, vmFiles, vmIPSent, vmClient, quitting>>

(* A newer binary is installed: its assets differ, and its disk layout may. *)
NewBinary ==
  /\ vmAt = "down" /\ vmWant < MaxSchema /\ vmWant' \in {vmWant, vmWant + 1}
  /\ \E older \in {"old", "twin"} :
       onDisk' = [a \in Assets |-> IF onDisk[a] # "cur" THEN onDisk[a]
                                   ELSE IF a = "rootfs" THEN older ELSE "old"]
  /\ bootInitrd' = (IF bootInitrd = "cur" THEN "old" ELSE bootInitrd)
  /\ UNCHANGED <<vmHost, vmAt, vhdx, schemaMark, vmRun, quitting, lastEnd, vmKills>>

VmStep ==
  \/ cleanupStaleVMs \/ extractAssets \/ buildBootInitrd \/ ensureRootVHDX \/ ensureDiskImage
  \/ createNetworkEndpoint \/ createVM \/ hcsStart \/ boot \/ discoverIP
  \/ ((waitForContainerd \/ waitForContainerdVz) /\ vmAt' # "containerd")
  \/ waitForDispatch \/ StopHyperV \/ StopVz \/ cleanup

LinuxVMNext ==
  \/ StartLinuxVM \/ cleanupStaleVMs \/ extractAssets \/ buildBootInitrd \/ ensureRootVHDX
  \/ ensureDiskImage \/ createNetworkEndpoint \/ createVM \/ hcsStart \/ boot \/ readConsole
  \/ GuestExits \/ monitorVM \/ discoverIP \/ waitForContainerd \/ waitForContainerdVz
  \/ waitForDispatch \/ Quit \/ cleanup \/ StopHyperV \/ StopVz \/ KillDaemon \/ NewBinary

(* Every wait of the starter, of Stop and of cleanup is bounded. *)
LinuxVMFairness == WF_linuxVMVars(VmStep) /\ WF_linuxVMVars(monitorVM)
LinuxVMSpec == LinuxVMInit /\ [][LinuxVMNext]_linuxVMVars /\ LinuxVMFairness

(* The VM this daemon booted runs this binary and not an older one, from    *)
(* files that were written to their end and from a root disk of the layout  *)
(* the binary expects (linuxvm_windows.go:336), whatever step an earlier    *)
(* daemon was killed at.                                                    *)
BootsWhole ==
  vmGuest = "running" =>
    /\ onDisk["binary"] = "cur" /\ bootInitrd = "cur" /\ onDisk["rootfs"] \in {"cur", "twin"}
    /\ vhdx = (IF OnHyperV THEN vmWant ELSE vhdx) /\ vhdx \notin {0, Unsized}

(* A daemon that ends in order leaves no VM of its own behind and has tried *)
(* to remove its endpoint, also when it is told to stop while the VM is     *)
(* still booting (runtime_windows.go:94).                                   *)
CleanupLeavesNothing ==
  vmAt = "down" /\ lastEnd = "clean" => vmGuest \in {"none", "stray"} /\ vmNic # "own"

(* Starting the VM ends, and so does stopping it, also when the guest hangs *)
(* or dies without a word; a daemon told to stop does.                      *)
VmSettles ==
  /\ (vmAt \in Starting \cup Halting) ~> (vmAt \in {"ready", "off", "down"})
  /\ quitting ~> (vmAt = "down" \/ ~quitting)
============================================================================
