--------------------------- MODULE BpfDeviceFilter ---------------------------
(***************************************************************************)
(* The cgroup v2 device filter of CgroupManager.cpp (CRANE_ENABLE_BPF).    *)
(* One BPF object (program + pinned map) is shared by every job cgroup:    *)
(* BpfRuntimeInfo loads it when its cgroup_count_ leaves 0 and closes it  *)
(* when the count returns to 0, both under bpf_mtx_.  Each CgroupV2 takes *)
(* a reference in its constructor, writes one DENY entry per device the   *)
(* job was not allocated, keyed (cgroup inode, major, minor), attaches    *)
(* the program, and in its destructor removes the directory, deletes its  *)
(* entries and drops its reference.                                       *)
(*                                                                         *)
(* Every job cgroup is an actor: constructions run on launcher threads,   *)
(* destructions on the JobManager loop thread, in any interleaving.  The  *)
(* map is pinned, so its entries outlive a close of the object and a      *)
(* Craned restart; a recovered job's entries are in it at start-up.       *)
(***************************************************************************)
EXTENDS Integers, FiniteSets

CONSTANTS
  Cgroups,         \* job cgroups (their inode numbers) on this node
  Recovered,       \* the jobs Craned recovers after its restart
  NumDenied,       \* devices of the node a job was not allocated
  InitMayFail,     \* a load step of InitializeBpfObj may fail
  SyscallMayFail,  \* a cgroup file write, open, map update or attach may fail
  RmdirMayFail     \* rmdir of the job cgroup may fail (processes left)

ASSUME Recovered \subseteq Cgroups
ASSUME NumDenied \in Nat \ {0}
ASSUME {InitMayFail, SyscallMayFail, RmdirMayFail} \subseteq BOOLEAN

(* The i-th element of m_cgroup_bpf_devices is device i: SetDeviceAccess *)
(* and RecoverFromCgSpec push them in the order of g_this_node_device.    *)
Devices == 1..NumDenied
EntriesOf(c, k) == {<<c, i>> : i \in 1..k}

Pcs == {"absent", "recover", "alloc", "sda", "sdaLocked", "running",
        "destroy", "erase", "eraseLocked", "close", "gone"}

VARIABLES
  loaded,      \* the BPF object is open and loaded: BpfRuntimeInfo::Valid()
  count,       \* cgroup_count_
  devmap,      \* the DENY entries of the pinned map (the logging key aside)
  pc,          \* the step each job cgroup is at
  bpfDevices,  \* the length of its m_cgroup_bpf_devices
  attached,    \* its m_bpf_attached_
  dir,         \* its Crane_Task_<id> directory exists
  held,        \* its InitializeBpfObj returned true and it has not closed
  denyOk       \* the devices it denies are all in the map, program attached

vars == <<loaded, count, devmap, pc, bpfDevices, attached, dir, held, denyOk>>

(* Valid() is declared in a header the repository does not contain; the  *)
(* model reads it as "the object, its program and its map are loaded",    *)
(* which is what every caller needs before BpfDevMap() or BpfProgFd().    *)
Valid == loaded

-----------------------------------------------------------------------------
(* BpfRuntimeInfo::InitializeBpfObj, under bpf_mtx_.  At count 0 it opens *)
(* and loads the object: "fail" is any failure up to finding the map      *)
(* (the object is closed and false returned); "logfail" is the failure of *)
(* the logging-key update, which returns false with the object left       *)
(* loaded.  A failed reload leaves bpf_prog_ and dev_map_ of an object a *)
(* logging-key failure leaked where they were.  Otherwise it returns      *)
(* ++cgroup_count_ >= 1.                                                  *)
InitOutcomes == IF InitMayFail THEN {"ok", "fail", "logfail"} ELSE {"ok"}

InitializeBpfObj(c) ==
  \E r \in IF count = 0 THEN InitOutcomes ELSE {"ok"} :
    /\ loaded' = (loaded \/ r \in {"ok", "logfail"})
    /\ count' = IF r = "ok" THEN count + 1 ELSE count
    /\ held' = [held EXCEPT ![c] = r = "ok" /\ count + 1 >= 1]

(* Fault variant: "cgroup_count_-- == 0" tests the count before the     *)
(* decrement, so the last CgroupV2 leaves the object loaded.               *)
CloseBpfObjPostDec(c) ==
  /\ count' = IF Valid THEN count - 1 ELSE count
  /\ loaded' = (Valid /\ count # 0)
  /\ held' = [held EXCEPT ![c] = FALSE]

(* BpfRuntimeInfo::CloseBpfObj, under bpf_mtx_: if Valid() and the       *)
(* decremented count is 0, close the program fd and the object.           *)
CloseBpfObj(c) ==
  /\ count' = IF Valid THEN count - 1 ELSE count
  /\ loaded' = (Valid /\ count - 1 # 0)
  /\ held' = [held EXCEPT ![c] = FALSE]

-----------------------------------------------------------------------------
(* CreateOrOpen_ makes a CgroupV2 for a new job's directory; its          *)
(* constructor calls InitializeBpfObj and only logs the result.           *)
CgroupV2(c) ==
  /\ pc[c] = "absent" /\ c \notin Recovered
  /\ InitializeBpfObj(c)
  /\ dir' = [dir EXCEPT ![c] = TRUE]
  /\ pc' = [pc EXCEPT ![c] = "alloc"]
  /\ UNCHANGED <<devmap, bpfDevices, attached, denyOk>>

(* AllocateAndGetJobCgroup with recovered set: CreateOrOpen_ reopens the  *)
(* directory and constructs the CgroupV2 the same way.                     *)
CgroupV2Recovered(c) ==
  /\ pc[c] = "recover"
  /\ InitializeBpfObj(c)
  /\ pc' = [pc EXCEPT ![c] = "alloc"]
  /\ UNCHANGED <<devmap, bpfDevices, attached, dir, denyOk>>

(* CgroupV2::RecoverFromCgSpec: without Valid(), or when the open of the *)
(* cgroup directory fails, it returns false with the vector empty and     *)
(* m_bpf_attached_ unset; otherwise it rebuilds m_cgroup_bpf_devices from *)
(* the job's spec and sets m_bpf_attached_, touching neither map nor      *)
(* program.  AllocateAndGetJobCgroup ignores the result.                  *)
RecoverFromCgSpec(c) ==
  /\ pc[c] = "alloc" /\ c \in Recovered
  /\ \E openOk \in IF SyscallMayFail THEN BOOLEAN ELSE {TRUE} :
       /\ bpfDevices' = [bpfDevices EXCEPT ![c] = IF Valid /\ openOk THEN NumDenied ELSE 0]
       /\ attached' = [attached EXCEPT ![c] = Valid /\ openOk]
  /\ pc' = [pc EXCEPT ![c] = "running"]
  /\ UNCHANGED <<loaded, count, devmap, dir, held, denyOk>>

(* AllocatableResourceAllocator::Allocate: the cpu and memory writes;    *)
(* when either fails AllocateAndGetJobCgroup returns nullptr and the      *)
(* unique_ptr destroys the CgroupV2 at once.                              *)
AllocatableAllocate(c) ==
  /\ pc[c] = "alloc" /\ c \notin Recovered
  /\ \E ok \in IF SyscallMayFail THEN BOOLEAN ELSE {TRUE} :
       pc' = [pc EXCEPT ![c] = IF ok THEN "sda" ELSE "destroy"]
  /\ UNCHANGED <<loaded, count, devmap, bpfDevices, attached, dir, held, denyOk>>

(* DedicatedResourceAllocator::Allocate logs a failed SetDeviceAccess     *)
(* and returns true: the job runs either way.                              *)
DedicatedResourceAllocatorAllocate(c) == pc' = [pc EXCEPT ![c] = "running"]

(* CgroupV2::SetDeviceAccess up to the lock: it checks Valid() and opens  *)
(* the cgroup directory, returning false if either fails, then pushes a   *)
(* DENY element per device not allocated.                                  *)
SetDeviceAccess(c) ==
  /\ pc[c] = "sda"
  /\ \E openOk \in IF SyscallMayFail THEN BOOLEAN ELSE {TRUE} :
       IF Valid /\ openOk
       THEN /\ bpfDevices' = [bpfDevices EXCEPT ![c] = @ + NumDenied]
            /\ pc' = [pc EXCEPT ![c] = "sdaLocked"]
       ELSE /\ DedicatedResourceAllocatorAllocate(c)
            /\ UNCHANGED bpfDevices
  /\ UNCHANGED <<loaded, count, devmap, attached, dir, held, denyOk>>

(* Fault variant: the update loop runs to i <= bpf_devices.size().       *)
SetDeviceAccessLockedPastEnd(c) ==
  /\ pc[c] = "sdaLocked"
  /\ devmap' = devmap \cup EntriesOf(c, NumDenied + 1)
  /\ attached' = [attached EXCEPT ![c] = TRUE]
  /\ denyOk' = [denyOk EXCEPT ![c] = TRUE]
  /\ DedicatedResourceAllocatorAllocate(c)
  /\ UNCHANGED <<loaded, count, bpfDevices, dir, held>>

(* Under bpf_mtx_: bpf_map__update_elem per element in order, returning  *)
(* false at the first failure; then bpf_prog_attach unless attached.      *)
(* BpfDevMap() is whatever the runtime holds now, Valid() or not.         *)
SetDeviceAccessLocked(c) ==
  /\ pc[c] = "sdaLocked"
  /\ \E k \in IF SyscallMayFail THEN 0..NumDenied ELSE {NumDenied},
        attachOk \in IF SyscallMayFail THEN BOOLEAN ELSE {TRUE} :
       /\ devmap' = devmap \cup EntriesOf(c, k)
       /\ attached' = [attached EXCEPT ![c] = @ \/ (k = NumDenied /\ attachOk)]
       /\ denyOk' = [denyOk EXCEPT ![c] = k = NumDenied /\ attached'[c]]
  /\ DedicatedResourceAllocatorAllocate(c)
  /\ UNCHANGED <<loaded, count, bpfDevices, dir, held>>

-----------------------------------------------------------------------------
(* Fault variant: the destructor erases the entries only when             *)
(* m_bpf_attached_ is set instead of when the vector is not empty.        *)
DestroyCgroupInfoAttachedOnly(c) ==
  /\ pc[c] \in {"running", "destroy"}
  /\ dir' = [dir EXCEPT ![c] = FALSE]
  /\ pc' = [pc EXCEPT ![c] = IF attached[c] THEN "erase" ELSE "close"]
  /\ UNCHANGED <<loaded, count, devmap, bpfDevices, attached, held, denyOk>>

(* ~CgroupV2 first destroys m_cgroup_info_: Cgroup::~Cgroup deletes the   *)
(* directory with CGFLAG_DELETE_EMPTY_ONLY and only logs a failure.  It   *)
(* runs when the job's TaskInstance goes, or at once after a failed       *)
(* allocation.  Then EraseBpfDeviceMap if the vector is not empty.         *)
DestroyCgroupInfo(c) ==
  /\ pc[c] \in {"running", "destroy"}
  /\ \E removed \in IF RmdirMayFail THEN BOOLEAN ELSE {TRUE} :
       dir' = [dir EXCEPT ![c] = ~removed]
  /\ pc' = [pc EXCEPT ![c] = IF bpfDevices[c] > 0 THEN "erase" ELSE "close"]
  /\ UNCHANGED <<loaded, count, devmap, bpfDevices, attached, held, denyOk>>

(* CgroupV2::EraseBpfDeviceMap checks Valid() before taking the lock and  *)
(* returns false without it.                                               *)
EraseBpfDeviceMap(c) ==
  /\ pc[c] = "erase"
  /\ pc' = [pc EXCEPT ![c] = IF Valid THEN "eraseLocked" ELSE "close"]
  /\ UNCHANGED <<loaded, count, devmap, bpfDevices, attached, dir, held, denyOk>>

(* Under bpf_mtx_: bpf_map__delete_elem per element in order, returning  *)
(* false at the first that fails, i.e. the first one not in the map.      *)
FirstMissing(c) ==
  LET missing == {i \in 1..bpfDevices[c] : <<c, i>> \notin devmap}
  IN IF missing = {} THEN bpfDevices[c] + 1
     ELSE CHOOSE i \in missing : \A j \in missing : i <= j

EraseBpfDeviceMapLocked(c) ==
  /\ pc[c] = "eraseLocked"
  /\ devmap' = devmap \ EntriesOf(c, FirstMissing(c) - 1)
  /\ pc' = [pc EXCEPT ![c] = "close"]
  /\ UNCHANGED <<loaded, count, bpfDevices, attached, dir, held, denyOk>>

(* The last statement of ~CgroupV2; the member destructor of             *)
(* m_cgroup_info_ that follows finds m_cgroup_ null and does nothing.     *)
CgroupV2Close(c) ==
  /\ pc[c] = "close"
  /\ CloseBpfObj(c)
  /\ pc' = [pc EXCEPT ![c] = "gone"]
  /\ UNCHANGED <<devmap, bpfDevices, attached, dir, denyOk>>

-----------------------------------------------------------------------------
(* Craned has just started: nothing is loaded; the pinned map holds what  *)
(* the previous Craned wrote for the jobs it recovers, a prefix of their  *)
(* DENY list when its SetDeviceAccess failed part-way.                     *)
Init ==
  /\ loaded = FALSE /\ count = 0
  /\ pc = [c \in Cgroups |-> IF c \in Recovered THEN "recover" ELSE "absent"]
  /\ \E k \in [Recovered -> 0..NumDenied] :
       /\ devmap = UNION {EntriesOf(c, k[c]) : c \in Recovered}
       /\ denyOk = [c \in Cgroups |-> c \in Recovered /\ k[c] = NumDenied]
  /\ dir = [c \in Cgroups |-> c \in Recovered]
  /\ bpfDevices = [c \in Cgroups |-> 0]
  /\ attached = [c \in Cgroups |-> FALSE]
  /\ held = [c \in Cgroups |-> FALSE]

Next ==
  \E c \in Cgroups :
    \/ CgroupV2(c) \/ CgroupV2Recovered(c) \/ RecoverFromCgSpec(c)
    \/ AllocatableAllocate(c) \/ SetDeviceAccess(c) \/ SetDeviceAccessLocked(c)
    \/ DestroyCgroupInfo(c) \/ EraseBpfDeviceMap(c) \/ EraseBpfDeviceMapLocked(c)
    \/ CgroupV2Close(c)

Spec == Init /\ [][Next]_vars

-----------------------------------------------------------------------------
(* Properties. *)

TypeOK ==
  /\ loaded \in BOOLEAN
  /\ count \in -Cardinality(Cgroups)..Cardinality(Cgroups)
  /\ devmap \subseteq Cgroups \X Devices
  /\ pc \in [Cgroups -> Pcs]
  /\ bpfDevices \in [Cgroups -> 0..NumDenied]
  /\ attached \in [Cgroups -> BOOLEAN] /\ dir \in [Cgroups -> BOOLEAN]
  /\ held \in [Cgroups -> BOOLEAN] /\ denyOk \in [Cgroups -> BOOLEAN]

(* The reference count of BpfRuntimeInfo: cgroup_count_ is the number of *)
(* CgroupV2 objects whose InitializeBpfObj succeeded and which have not   *)
(* called CloseBpfObj yet, and the object is loaded exactly while that    *)
(* number is positive (load on the first job, unload on the last).        *)
RefCountExact ==
  /\ count = Cardinality({c \in Cgroups : held[c]})
  /\ Valid <=> count > 0

(* The map holds entries of a cgroup only while its CgroupV2 exists: the  *)
(* destructor of every job cgroup removes all the entries the job wrote   *)
(* or recovered (spec: an entry exists only while the job is alive).      *)
NoStaleEntries ==
  \A e \in devmap : pc[e[1]] # "gone"

(* The same for the jobs this Craned started: whatever prefix of its DENY *)
(* entries a job's SetDeviceAccess wrote before an update or the attach   *)
(* failed, and whichever other jobs load and close the object meanwhile,  *)
(* ~CgroupV2 deletes all of them.  (A recovered job's pre-restart entries *)
(* are not covered: RecoverFromCgSpec's failed open leaves its vector     *)
(* empty and nothing deletes them.)                                        *)
NewJobEntriesErased ==
  \A e \in devmap : pc[e[1]] = "gone" => e[1] \in Recovered

(* While a job cgroup whose device filter was fully installed still       *)
(* exists, every device the job was not allocated stays denied (spec: an  *)
(* entry exists while the cgroup has a live attached program).  ~CgroupV2 *)
(* removes the directory first but deletes the entries even when that    *)
(* rmdir failed, so this holds only while every rmdir succeeds.           *)
DenialWhileCgroupExists ==
  \A c \in Cgroups : dir[c] /\ denyOk[c] => EntriesOf(c, NumDenied) \subseteq devmap

====
