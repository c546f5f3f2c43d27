----------------------------- MODULE DeviceNode -----------------------------
(***************************************************************************)
(* device_node.rs, with check_kernel_mod, the versions and                 *)
(* ensure_logs_setup of lib.rs: finding, adding and opening evdi device    *)
(* nodes, by several threads, while nodes come and go and the kernel       *)
(* module is loaded and unloaded by others.                                *)
(*                                                                         *)
(* What the calls look at changes under them, so a call is as many steps   *)
(* as it has looks.  A thread is at one of:                                *)
(*   a label of AfterLogs   in ensure_logs_setup                           *)
(*   "readDir", "reading"   before read_dir, between two of its entries    *)
(*   "sort"                 after the filter of list_available             *)
(*   "modFile"              about to read /sys/devices/evdi/version        *)
(*   "compare"              with the versions of the module and the library *)
(*   "removeAll"            about to write /sys/devices/evdi/remove_all    *)
(*   a label of Ffi         about to call libevdi                          *)
(*   "idle", "done"         outside; "done" keeps the last call's result   *)
(*                                                                         *)
(* Abstracted: patch levels, names in /dev/dri that are not cards, and why *)
(* a version file cannot be used (absent, unreadable, no x.y.z in it),     *)
(* which the code does not tell apart.  Where it cannot be used the module *)
(* may be installed all the same, and have evdi nodes.                     *)
(***************************************************************************)
EXTENDS Naturals, Sequences, Functions, TLC

CONSTANTS
  Threads,      \* threads of the process
  Calls,        \* bound of the model: the public functions each of them calls
  Ids,          \* numbers a card may have
  NoId,         \* no card
  Versions,     \* versions the kernel module may have
  NoVersion,    \* no usable version file
  CompatMajor, CompatMinor,   \* EVDI_MODULE_COMPATIBILITY_VERSION_*
  MaxChanges    \* bound of the model: changes to the nodes or the module

Functions == {"list", "get", "open", "status", "check_kernel_mod", "add", "remove_all"}

\* Those whose result is compared with the world.
Observers == {"list", "get", "open"}

ASSUME DeviceNodeAssumption ==
  /\ Ids \subseteq Nat
  /\ NoId \notin Ids
  /\ Versions \subseteq [major : Nat, minor : Nat]
  /\ NoVersion \notin Versions
  /\ CompatMajor \in Nat /\ CompatMinor \in Nat
  /\ MaxChanges \in Nat
  /\ Calls \in [Threads -> SUBSET Functions]
  /\ Threads \cap {"new", "done"} = {}

VARIABLES
  node,       \* each card: "absent", "foreign", or "evdi"
  modVersion, \* what the module's version file says
  changes,    \* changes so far, see MaxChanges
  once,       \* LOGS_SETUP: "new", the thread that runs the closure, or "done"
  pc,
  call,       \* the public function the thread has called
  target,     \* the card open is called on; the card get returns
  unread,     \* cards read_dir has still to return
  devices,    \* list_available: cards found and not yet filtered
  available,  \* list_available: its result
  version,    \* check_kernel_mod: the module version read
  result,     \* of open, of add, and of the list_available in list and get
  during      \* history: the worlds there have been since a call of an
              \* observer began

world == <<node, modVersion, changes>>
local == <<call, target, unread, devices, available, version, result>>
vars  == <<world, once, pc, local, during>>

AfterLogs == [ listStatus |-> "evdi_check_device",
               open       |-> "modFile",
               libVersion |-> "evdi_get_lib_version",
               openStatus |-> "evdi_check_device",
               add        |-> "evdi_add_device" ]

Ffi == {"evdi_check_device", "evdi_get_lib_version", "evdi_open", "evdi_add_device"}

Label == {"idle", "done", "readDir", "reading", "sort", "modFile", "compare", "removeAll"}
           \cup DOMAIN AfterLogs \cup Ffi

OpenErrors == {"KernelModuleNotInstalled", "KernelModuleOutdated",
               "NonexistentDevice", "NotEvdiDevice", "Unknown"}

DeviceNodeStatus == {"Available", "Unrecognized", "NotPresent"}

World == [version |-> modVersion, node |-> node]
Worlds == [version : Versions \cup {NoVersion}, node : [Ids -> {"absent", "foreign", "evdi"}]]

Active(t) == pc[t] \notin {"idle", "done"}

TypeOK ==
  /\ World \in Worlds
  /\ changes \in 0..MaxChanges
  /\ once \in {"new", "done"} \cup Threads
  /\ pc \in [Threads -> Label]
  /\ call \in [Threads -> Functions \cup {"none"}]
  /\ target \in [Threads -> Ids \cup {NoId}]
  /\ unread \in [Threads -> SUBSET Ids]
  /\ devices \in [Threads -> Seq(Ids)]
  /\ available \in [Threads -> Seq(Ids)]
  /\ version \in [Threads -> Versions \cup {NoVersion}]
  /\ result \in [Threads -> {"none", "Ok", "Err"} \cup OpenErrors \cup DeviceNodeStatus]
  /\ during \in [Threads -> SUBSET Worlds]

Init ==
  /\ node \in [Ids -> {"absent", "foreign", "evdi"}]
  /\ modVersion \in Versions \cup {NoVersion}
  /\ changes = 0
  /\ once = "new"
  /\ pc = [t \in Threads |-> "idle"]
  /\ call = [t \in Threads |-> "none"]
  /\ target = [t \in Threads |-> NoId]
  /\ unread = [t \in Threads |-> {}]
  /\ devices = [t \in Threads |-> <<>>]
  /\ available = [t \in Threads |-> <<>>]
  /\ version = [t \in Threads |-> NoVersion]
  /\ result = [t \in Threads |-> "none"]
  /\ during = [t \in Threads |-> {}]

-----------------------------------------------------------------------------
(* External: the nodes of /dev/dri and the module, as other processes, the *)
(* kernel and the code's own add and remove_all change them.               *)

\* A card that appears while a directory is being read may be returned or not;
\* one that disappears is not.
Change(newNode, newVersion) ==
  /\ changes < MaxChanges
  /\ changes' = changes + 1
  /\ node' = newNode
  /\ modVersion' = newVersion
  /\ during' = [t \in Threads |->
                  IF Active(t) /\ call[t] \in Observers
                  THEN during[t] \cup {World'} ELSE during[t]]
  /\ \E noticing \in SUBSET {t \in Threads : pc[t] = "reading"} :
       unread' = [t \in Threads |->
          {i \in Ids : /\ newNode[i] # "absent"
                       /\ \/ i \in unread[t]
                          \/ t \in noticing /\ node[i] = "absent"}]

NoEvdi == [i \in Ids |-> IF node[i] = "evdi" THEN "absent" ELSE node[i]]

Plug(i) ==
  /\ node[i] = "absent"
  /\ \E kind \in {"foreign", "evdi"} : Change([node EXCEPT ![i] = kind], modVersion)

Unplug(i) == node[i] # "absent" /\ Change([node EXCEPT ![i] = "absent"], modVersion)

Load(v) == modVersion = NoVersion /\ Change(node, v)

\* Without the module there are no evdi nodes.
Unload == modVersion # NoVersion /\ Change(NoEvdi, NoVersion)

Environment ==
  /\ \/ \E i \in Ids : Plug(i) \/ Unplug(i)
     \/ \E v \in Versions : Load(v)
     \/ Unload
  /\ UNCHANGED <<once, pc, call, target, devices, available, version, result>>

-----------------------------------------------------------------------------
(* Steps common to the calls.                                              *)

Goto(t, label) == pc' = [pc EXCEPT ![t] = label]

Begin(t, name, i, label) ==
  /\ ~Active(t) /\ name \in Calls[t]
  /\ call' = [call EXCEPT ![t] = name]
  /\ target' = [target EXCEPT ![t] = i]
  /\ result' = [result EXCEPT ![t] = "none"]
  /\ during' = [during EXCEPT ![t] = IF name \in Observers THEN {World} ELSE {}]
  /\ devices' = [devices EXCEPT ![t] = <<>>]
  /\ available' = [available EXCEPT ![t] = <<>>]
  /\ version' = [version EXCEPT ![t] = NoVersion]
  /\ Goto(t, label)
  /\ UNCHANGED <<world, once, unread>>

Return(t, r) ==
  /\ Goto(t, "done")
  /\ result' = [result EXCEPT ![t] = r]

\* The end of the closure is not recorded.
EnsureLogsSetupStuck(t) ==
  /\ pc[t] \in DOMAIN AfterLogs
  /\ \/ once = "new" /\ once' = t /\ UNCHANGED pc
     \/ once = t /\ UNCHANGED once /\ Goto(t, AfterLogs[pc[t]])
  /\ UNCHANGED <<world, local, during>>

\* A flag in place of the Once: a second caller goes on at once.
EnsureLogsSetupFlag(t) ==
  /\ pc[t] \in DOMAIN AfterLogs
  /\ \/ once = "new" /\ once' = t /\ UNCHANGED pc
     \/ once = t /\ once' = "done" /\ Goto(t, AfterLogs[pc[t]])
     \/ once \notin {"new", t} /\ UNCHANGED once /\ Goto(t, AfterLogs[pc[t]])
  /\ UNCHANGED <<world, local, during>>

\* The first caller runs the closure, the others wait until it has ended.
EnsureLogsSetup(t) ==
  /\ pc[t] \in DOMAIN AfterLogs
  /\ \/ once = "new" /\ once' = t /\ UNCHANGED pc
     \/ once \in {t, "done"} /\ once' = "done" /\ Goto(t, AfterLogs[pc[t]])
  /\ UNCHANGED <<world, local, during>>

\* evdi_check_device, and DeviceNodeStatus::from, which panics on a number that
\* evdi_device_status does not have; libevdi is taken to return none.
Status(i) == [evdi |-> "Available", foreign |-> "Unrecognized", absent |-> "NotPresent"][node[i]]

-----------------------------------------------------------------------------
(* DeviceNode::list_available and DeviceNode::get.                         *)

ListCall(t) == \E name \in {"list", "get"} : Begin(t, name, NoId, "readDir")

\* /dev/dri exists as long as there is a card.
ReadDir(t) ==
  /\ pc[t] = "readDir"
  /\ IF \A i \in Ids : node[i] = "absent"
     THEN Return(t, "Err") /\ UNCHANGED unread
     ELSE /\ Goto(t, "reading")
          /\ unread' = [unread EXCEPT ![t] = {i \in Ids : node[i] # "absent"}]
          /\ UNCHANGED result
  /\ UNCHANGED <<world, once, call, target, devices, available, version, during>>

\* A name that is no card's is given a number too, in place of being left out.
ReadEntryAnyName(t) ==
  /\ pc[t] = "reading"
  /\ \E i \in unread[t] \cup {NoId} :
       /\ unread' = [unread EXCEPT ![t] = @ \ {i}]
       /\ devices' = [devices EXCEPT ![t] = Append(@, i)]
  /\ UNCHANGED <<world, once, pc, call, target, available, version, result, during>>

ReadEntry(t) ==
  /\ pc[t] = "reading"
  /\ \E i \in unread[t] :
       /\ unread' = [unread EXCEPT ![t] = @ \ {i}]
       /\ devices' = [devices EXCEPT ![t] = Append(@, i)]
  /\ UNCHANGED <<world, once, pc, call, target, available, version, result, during>>

\* entry? : one entry that cannot be read ends the whole call.
ReadEntryFails(t) ==
  /\ pc[t] = "reading"
  /\ Return(t, "Err")
  /\ unread' = [unread EXCEPT ![t] = {}]
  /\ UNCHANGED <<world, once, call, target, devices, available, version, during>>

\* Where the filter stands when these devices are left.
Filter(left) == IF left = <<>> THEN "sort" ELSE "listStatus"

ReadEnd(t) ==
  /\ pc[t] = "reading" /\ unread[t] = {}
  /\ Goto(t, Filter(devices[t]))
  /\ UNCHANGED <<world, once, local, during>>

\* The filter without the status.
FilterDeviceAll(t) ==
  /\ pc[t] = "evdi_check_device" /\ call[t] \in {"list", "get"}
  /\ available' = [available EXCEPT ![t] = Append(@, Head(devices[t]))]
  /\ devices' = [devices EXCEPT ![t] = Tail(@)]
  /\ Goto(t, Filter(Tail(devices[t])))
  /\ UNCHANGED <<world, once, call, target, unread, version, result, during>>

FilterDevice(t) ==
  /\ pc[t] = "evdi_check_device" /\ call[t] \in {"list", "get"}
  /\ LET i == Head(devices[t]) IN
       available' = [available EXCEPT ![t] =
                       IF Status(i) = "Available" THEN Append(@, i) ELSE @]
  /\ devices' = [devices EXCEPT ![t] = Tail(@)]
  /\ Goto(t, Filter(Tail(devices[t])))
  /\ UNCHANGED <<world, once, call, target, unread, version, result, during>>

\* In the order of the directory.
SortedNot(s) == s

\* The entries of s in the order of their numbers.
Sorted(s) ==
  LET order == CHOOSE p \in Bijection(DOMAIN s, DOMAIN s) :
                 \A m, n \in DOMAIN s : m < n => s[p[m]] <= s[p[n]]
  IN  [n \in DOMAIN s |-> s[order[n]]]

\* list_available returns; get pops the last of its result.
Sort(t) ==
  /\ pc[t] = "sort"
  /\ LET s == Sorted(available[t]) IN
       /\ available' = [available EXCEPT ![t] = s]
       /\ target' = [target EXCEPT ![t] =
                       IF call[t] = "get" /\ s # <<>> THEN s[Len(s)] ELSE @]
  /\ Return(t, "Ok")
  /\ UNCHANGED <<world, once, call, unread, devices, version, during>>

-----------------------------------------------------------------------------
(* DeviceNode::open and DeviceNode::status, check_kernel_mod.              *)

OpenCall(t) == \E i \in Ids : Begin(t, "open", i, "open")

CheckKernelModCall(t) == Begin(t, "check_kernel_mod", NoId, "modFile")

StatusCall(t) == \E i \in Ids : Begin(t, "status", i, "openStatus")

GetStatus(t) ==
  /\ pc[t] = "evdi_check_device" /\ call[t] = "status"
  /\ Return(t, Status(target[t]))
  /\ UNCHANGED <<world, once, call, target, unread, devices, available, version, during>>

\* KernelModVersion::get, and "NotInstalled" for whatever keeps it from a version.
GetModVersion(t) ==
  /\ pc[t] = "modFile"
  /\ version' = [version EXCEPT ![t] = modVersion]
  /\ IF modVersion = NoVersion
     THEN Return(t, "KernelModuleNotInstalled")
     ELSE Goto(t, "libVersion") /\ UNCHANGED result
  /\ UNCHANGED <<world, once, call, target, unread, devices, available, during>>

\* Without the minor version.
IsCompatibleMajor(v) == v.major = CompatMajor

IsCompatible(v) == v.major = CompatMajor /\ v.minor >= CompatMinor

\* LibVersion::get.  Its assertions ask that libevdi has filled in the numbers,
\* which it is taken to do; the module is compared with constants of the build.
GetLibVersion(t) ==
  /\ pc[t] = "evdi_get_lib_version"
  /\ Goto(t, "compare")
  /\ UNCHANGED <<world, once, local, during>>

CheckKernelMod(t) ==
  /\ pc[t] = "compare"
  /\ IF IsCompatible(version[t])
     THEN \/ call[t] = "open" /\ Goto(t, "openStatus") /\ UNCHANGED result
          \/ call[t] = "check_kernel_mod" /\ Return(t, "Ok")
     ELSE Return(t, "KernelModuleOutdated")
  /\ UNCHANGED <<world, once, call, target, unread, devices, available, version, during>>

OpenStatus(t) ==
  /\ pc[t] = "evdi_check_device" /\ call[t] = "open"
  /\ LET status == Status(target[t]) IN
       \/ status = "Unrecognized" /\ Return(t, "NotEvdiDevice")
       \/ status = "NotPresent" /\ Return(t, "NonexistentDevice")
       \/ status = "Available" /\ Goto(t, "evdi_open") /\ UNCHANGED result
  /\ UNCHANGED <<world, once, call, target, unread, devices, available, version, during>>

\* External: evdi_open gives a handle for an evdi node of a compatible module, and
\* null otherwise (is_compatible_with is "Based on the private function
\* is_evdi_compatible").  It asks the module and not the version file, so where
\* that cannot be used it may do either.
Compatible(w) == w.version.major = CompatMajor /\ w.version.minor >= CompatMinor

Openable(w, i) == w.node[i] = "evdi" /\ (w.version # NoVersion => Compatible(w))

Refusable(w, i) == w.version = NoVersion \/ ~Openable(w, i)

EvdiOpen(t) ==
  /\ pc[t] = "evdi_open"
  /\ \/ Openable(World, target[t]) /\ Return(t, "Ok")
     \/ Refusable(World, target[t]) /\ Return(t, "Unknown")
  /\ UNCHANGED <<world, once, call, target, unread, devices, available, version, during>>

-----------------------------------------------------------------------------
(* DeviceNode::add and DeviceNode::remove_all, which need the superuser.   *)

AddCall(t) == Begin(t, "add", NoId, "add")

\* External: a new evdi node, or a failure.
AddDevice(t) ==
  /\ pc[t] = "evdi_add_device"
  /\ \/ /\ \E i \in Ids : node[i] = "absent" /\ Change([node EXCEPT ![i] = "evdi"], modVersion)
        /\ Return(t, "Ok")
     \/ /\ Return(t, "Err")
        /\ UNCHANGED <<world, unread, during>>
  /\ UNCHANGED <<once, call, target, devices, available, version>>

\* Opening the file fails without the module, or without the permission.
RemoveAllCall(t) == Begin(t, "remove_all", NoId, "removeAll")

RemoveAll(t) ==
  /\ pc[t] = "removeAll"
  /\ \/ /\ Change(NoEvdi, modVersion)
        /\ Return(t, "Ok")
     \/ /\ Return(t, "Err")
        /\ UNCHANGED <<world, unread, during>>
  /\ UNCHANGED <<once, call, target, devices, available, version>>

-----------------------------------------------------------------------------
Call(t) ==
  \/ ListCall(t) \/ OpenCall(t) \/ CheckKernelModCall(t) \/ StatusCall(t)
  \/ AddCall(t) \/ RemoveAllCall(t)

Continue(t) ==
  \/ EnsureLogsSetup(t)
  \/ ReadDir(t) \/ ReadEntry(t) \/ ReadEntryFails(t) \/ ReadEnd(t)
  \/ FilterDevice(t) \/ Sort(t)
  \/ GetModVersion(t) \/ GetLibVersion(t) \/ CheckKernelMod(t) \/ OpenStatus(t) \/ EvdiOpen(t)
  \/ GetStatus(t)
  \/ AddDevice(t) \/ RemoveAll(t)

Next == Environment \/ \E t \in Threads : Call(t) \/ Continue(t)

\* A thread inside a call is scheduled again.
Spec == Init /\ [][Next]_vars /\ \A t \in Threads : WF_vars(Continue(t))

-----------------------------------------------------------------------------
Done(t, name) == pc[t] = "done" /\ call[t] = name

\* Cards that were evdi nodes all through the call, or at some time in it.
Steady(t) == {i \in Ids : \A w \in during[t] : w.node[i] = "evdi"}
Sighted(t) == {i \in Ids : \E w \in during[t] : w.node[i] = "evdi"}

\* No thread is inside libevdi before its log callback is installed, whichever
\* thread gets there first and by whichever call ("We must ensure we setup logs
\* before we call any ffi", at the head of impl DeviceNode).
LogsFirst == \A t \in Threads : pc[t] \in Ffi => once = "done"

\* list_available, while nodes come and go: in order, every node that was
\* available all through the call exactly once, and no card that never was.
ListFaithful ==
  \A t \in Threads : Done(t, "list") /\ result[t] = "Ok" =>
    LET s == available[t] IN
    /\ \A m, n \in DOMAIN s : m < n => s[m] <= s[n]
    /\ \A n \in DOMAIN s : s[n] \in Sighted(t)
    /\ \A i \in Steady(t) : \E n \in DOMAIN s : \A m \in DOMAIN s : s[m] = i <=> m = n

\* get returns None only if the list failed or no node was available all
\* through the call, and otherwise none that is below an available one.
GetFaithful ==
  \A t \in Threads : Done(t, "get") =>
    /\ target[t] = NoId => result[t] = "Err" \/ Steady(t) = {}
    /\ target[t] # NoId => /\ target[t] \in Sighted(t)
                           /\ \A i \in Steady(t) : i <= target[t]

\* What each result of open says of a world.  NotInstalled says no more than the
\* code knows: that no version could be read, be the module there or not.
Explains(r, w, i) ==
  \/ r = "KernelModuleNotInstalled" /\ w.version = NoVersion
  \/ /\ r = "KernelModuleOutdated" /\ w.version # NoVersion
     /\ w.version.major # CompatMajor \/ w.version.minor < CompatMinor
  \/ r = "NonexistentDevice" /\ w.node[i] = "absent"
  \/ r = "NotEvdiDevice" /\ w.node[i] = "foreign"
  \/ r = "Ok" /\ Openable(w, i)

\* open looks at the module, then at the node, then opens.  What it reports was
\* so at some time during the call, and Unknown ("Provide helpful info if the
\* call would have failed with Unknown") is left for a change in between.
OpenExplains ==
  \A t \in Threads : Done(t, "open") =>
    \/ \E w \in during[t] : Explains(result[t], w, target[t])
    \/ result[t] = "Unknown" /\ \E w, x \in during[t] : w # x

\* Every call returns, also the one that finds another thread setting up the logs.
CallsReturn == \A t \in Threads : Active(t) ~> ~Active(t)
=============================================================================
