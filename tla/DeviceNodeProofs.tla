-------------------------- MODULE DeviceNodeProofs --------------------------
(* Theorems about DeviceNode, for any number of threads, cards, versions of  *)
(* the module and changes made by others while the calls run.                *)
EXTENDS DeviceNode, TLAPS

-----------------------------------------------------------------------------
(* The log callback.                                                       *)

LogsInv ==
  /\ pc \in [Threads -> Label]
  /\ LogsFirst

LEMMA LabelFacts ==
  /\ \A label \in DOMAIN AfterLogs : AfterLogs[label] \in Label
  /\ Ffi \cap DOMAIN AfterLogs = {}
  /\ Ffi \cap {"idle", "done", "readDir", "reading", "sort", "modFile", "compare", "removeAll"} = {}
  /\ \A s : Filter(s) \in {"sort", "listStatus"}
BY DEF AfterLogs, Label, Ffi, Filter

LEMMA LogsNext == LogsInv /\ [Next]_vars => LogsInv'
<1> SUFFICES ASSUME LogsInv, [Next]_vars PROVE LogsInv'
  OBVIOUS
<1>1. CASE Environment \/ UNCHANGED vars
  BY <1>1 DEF Environment, vars, LogsInv, LogsFirst
<1>2. ASSUME NEW t \in Threads, Call(t) PROVE LogsInv'
  <2>1. /\ UNCHANGED once
        /\ \E label \in {"readDir", "open", "modFile", "openStatus", "add", "removeAll"} :
             pc' = [pc EXCEPT ![t] = label]
    BY <1>2 DEF Call, ListCall, OpenCall, CheckKernelModCall, StatusCall, AddCall,
       RemoveAllCall, Begin, Goto
  <2> QED
    BY <2>1 DEF LogsInv, LogsFirst, Label, AfterLogs, Ffi
<1>3. ASSUME NEW t \in Threads, EnsureLogsSetup(t) PROVE LogsInv'
  <2>1. CASE once = "new" /\ once' = t /\ UNCHANGED pc
    BY <1>3, <2>1, DeviceNodeAssumption DEF LogsInv, LogsFirst, DeviceNodeAssumption
  <2>2. CASE once \in {t, "done"} /\ once' = "done" /\ Goto(t, AfterLogs[pc[t]])
    BY <1>3, <2>2, LabelFacts DEF EnsureLogsSetup, Goto, LogsInv, LogsFirst
  <2> QED
    BY <1>3, <2>1, <2>2 DEF EnsureLogsSetup
<1>4. ASSUME NEW t \in Threads, Continue(t), ~EnsureLogsSetup(t) PROVE LogsInv'
  <2>1. /\ UNCHANGED once
        /\ \/ UNCHANGED pc
           \/ \E label \in {"reading", "sort", "listStatus", "libVersion", "compare",
                            "openStatus", "done"} : pc' = [pc EXCEPT ![t] = label]
           \/ pc[t] \in Ffi /\ pc' = [pc EXCEPT ![t] = "evdi_open"]
    BY <1>4, LabelFacts DEF Continue, ReadDir, ReadEntry, ReadEntryFails, ReadEnd, FilterDevice,
       Sort, GetModVersion, GetLibVersion, CheckKernelMod, OpenStatus, EvdiOpen, GetStatus,
       AddDevice, RemoveAll, Return, Goto, Ffi
  <2> QED
    BY <2>1 DEF LogsInv, LogsFirst, Label, AfterLogs, Ffi
<1> QED
  BY <1>1, <1>2, <1>3, <1>4 DEF Next

\* No thread is inside libevdi before its log callback is installed, whichever
\* threads and calls come first.
THEOREM LogsCorrect == Spec => []LogsFirst
<1>1. Init => LogsInv
  BY DEF Init, LogsInv, LogsFirst, Label, Ffi
<1>2. LogsInv => LogsFirst
  BY DEF LogsInv
<1> QED
  BY <1>1, <1>2, LogsNext, PTL DEF Spec

-----------------------------------------------------------------------------
(* What open reports.                                                      *)

\* Where a call of open may be.
OpenLabels == {"open", "modFile", "libVersion", "evdi_get_lib_version", "compare",
               "openStatus", "evdi_check_device", "evdi_open"}

Opens(t) == call[t] = "open" /\ Active(t)

\* check_kernel_mod accepts a module of this version.
Accepted(v) == v # NoVersion /\ IsCompatible(v)

\* What a call of open knows where it is: each of its looks saw a world there
\* was during the call.
Knows(t) ==
  /\ pc[t] \in OpenLabels
  /\ target[t] \in Ids
  /\ World \in during[t]
  /\ pc[t] \in {"libVersion", "evdi_get_lib_version", "compare"} =>
       version[t] \in Versions /\ \E w \in during[t] : w.version = version[t]
  /\ pc[t] \in {"openStatus", "evdi_check_device", "evdi_open"} =>
       \E w \in during[t] : Accepted(w.version)
  /\ pc[t] = "evdi_open" => \E w \in during[t] : w.node[target[t]] = "evdi"

Told(t) ==
  \/ \E w \in during[t] : Explains(result[t], w, target[t])
  \/ result[t] = "Unknown" /\ \E w, x \in during[t] : w # x

OpenInv ==
  /\ node \in [Ids -> {"absent", "foreign", "evdi"}]
  /\ modVersion \in Versions \cup {NoVersion}
  /\ pc \in [Threads -> Label]
  /\ call \in [Threads -> Functions \cup {"none"}]
  /\ DOMAIN target = Threads /\ DOMAIN during = Threads
  /\ DOMAIN version = Threads /\ DOMAIN result = Threads
  /\ \A t \in Threads : /\ Opens(t) => Knows(t)
                        /\ Done(t, "open") => Told(t)

\* What the invariant looks at of one thread, but for the worlds of its call.
ownVars(t) == <<pc[t], call[t], target[t], version[t], result[t]>>

\* A change of the world becomes one more world of the calls under way.
LEMMA ChangeKeeps ==
  ASSUME OpenInv, NEW newNode \in [Ids -> {"absent", "foreign", "evdi"}],
         NEW newVersion \in Versions \cup {NoVersion}, Change(newNode, newVersion),
         NEW t \in Threads, ownVars(t)' = ownVars(t)
  PROVE  /\ Opens(t)' => Knows(t)'
         /\ Done(t, "open")' => Told(t)'
<1>1. during'[t] = IF Active(t) /\ call[t] \in Observers THEN during[t] \cup {World'}
                   ELSE during[t]
  BY DEF Change
<1>2. /\ pc'[t] = pc[t] /\ call'[t] = call[t] /\ target'[t] = target[t]
      /\ version'[t] = version[t] /\ result'[t] = result[t]
  BY DEF ownVars
<1>3. ASSUME Opens(t)' PROVE Knows(t)'
  <2>1. Opens(t) /\ during'[t] = during[t] \cup {World'}
    BY <1>1, <1>2, <1>3 DEF Opens, Active, Observers
  <2>2. Knows(t)
    BY <2>1 DEF OpenInv
  <2>3. World' \in during'[t] /\ \A w \in during[t] : w \in during'[t]
    BY <2>1
  <2> QED
    BY <1>2, <2>2, <2>3 DEF Knows
<1>4. ASSUME Done(t, "open")' PROVE Told(t)'
  <2>1. Done(t, "open") /\ during'[t] = during[t]
    BY <1>1, <1>2, <1>4 DEF Done, Active
  <2>2. Told(t)
    BY <2>1 DEF OpenInv
  <2> QED
    BY <1>2, <2>1, <2>2 DEF Told
<1> QED
  BY <1>3, <1>4

\* Nothing that the invariant says of a thread has changed.
LEMMA QuietKeeps ==
  ASSUME OpenInv, UNCHANGED <<node, modVersion>>,
         NEW t \in Threads, ownVars(t)' = ownVars(t), during'[t] = during[t]
  PROVE  /\ Opens(t)' => Knows(t)'
         /\ Done(t, "open")' => Told(t)'
<1>1. /\ pc'[t] = pc[t] /\ call'[t] = call[t] /\ target'[t] = target[t]
      /\ version'[t] = version[t] /\ result'[t] = result[t]
  BY DEF ownVars
<1>2. World' = World
  BY DEF World
<1>3. Opens(t)' = Opens(t) /\ Done(t, "open")' = Done(t, "open")
  BY <1>1 DEF Opens, Active, Done
<1>4. Knows(t) => Knows(t)'
  BY <1>1, <1>2 DEF Knows
<1>5. Told(t) => Told(t)'
  BY <1>1 DEF Told
<1> QED
  BY <1>3, <1>4, <1>5 DEF OpenInv

\* A step of thread u: the others see at most a change of the world.
LEMMA Others ==
  ASSUME OpenInv, NEW u \in Threads,
         \/ UNCHANGED <<node, modVersion, during>>
         \/ \E newNode \in [Ids -> {"absent", "foreign", "evdi"}],
            newVersion \in Versions \cup {NoVersion} : Change(newNode, newVersion),
         NEW t \in Threads, ownVars(t)' = ownVars(t)
  PROVE  /\ Opens(t)' => Knows(t)'
         /\ Done(t, "open")' => Told(t)'
BY ChangeKeeps, QuietKeeps

LEMMA OpenInit == Init => OpenInv
BY DEF Init, OpenInv, Opens, Active, Done, Label

LEMMA EnvironmentInv == ASSUME OpenInv, Environment PROVE OpenInv'
<1>1. PICK newNode \in [Ids -> {"absent", "foreign", "evdi"}],
     newVersion \in Versions \cup {NoVersion} : Change(newNode, newVersion)
  BY DEF Environment, Plug, Unplug, Load, Unload, NoEvdi, OpenInv
<1>2. UNCHANGED <<pc, call, target, version, result>>
  BY DEF Environment
<1>3. \A t \in Threads : ownVars(t)' = ownVars(t)
  BY <1>2 DEF ownVars
<1>4. /\ node' \in [Ids -> {"absent", "foreign", "evdi"}]
      /\ modVersion' \in Versions \cup {NoVersion} /\ DOMAIN during' = Threads
  BY <1>1 DEF Change
<1> QED
  BY <1>1, <1>2, <1>3, <1>4, ChangeKeeps DEF OpenInv

\* The beginning of a call.
LEMMA CallInv == ASSUME OpenInv, NEW t \in Threads, Call(t) PROVE OpenInv'
<1>1. PICK name \in Functions, i \in Ids \cup {NoId},
           label \in {"readDir", "open", "modFile", "openStatus", "add", "removeAll"} :
        Begin(t, name, i, label) /\ (name = "open" => label = "open" /\ i \in Ids)
  BY DEF Call, ListCall, OpenCall, CheckKernelModCall, StatusCall, AddCall, RemoveAllCall, Functions
<1>2. /\ UNCHANGED <<node, modVersion>> /\ ~Active(t)
      /\ pc' = [pc EXCEPT ![t] = label]
      /\ call' = [call EXCEPT ![t] = name]
      /\ target' = [target EXCEPT ![t] = i]
      /\ version' = [version EXCEPT ![t] = NoVersion]
      /\ result' = [result EXCEPT ![t] = "none"]
      /\ during' = [during EXCEPT ![t] = IF name \in Observers THEN {World} ELSE {}]
  BY <1>1 DEF Begin, Goto, world
<1>3. label \in Label
  BY DEF Label, AfterLogs
<1>4. ASSUME NEW u \in Threads
      PROVE  (Opens(u)' => Knows(u)') /\ (Done(u, "open")' => Told(u)')
  <2>1. CASE u = t
    <3>1. World' = World
      BY <1>2 DEF World
    <3>2. /\ pc'[t] = label /\ call'[t] = name /\ target'[t] = i
          /\ name \in Observers => during'[t] = {World}
      BY <1>2 DEF OpenInv
    <3> QED
      BY <1>1, <2>1, <3>1, <3>2 DEF Opens, Knows, Done, OpenLabels, Observers
  <2>2. CASE u # t
    <3>1. ownVars(u)' = ownVars(u) /\ during'[u] = during[u]
      BY <1>2, <2>2 DEF ownVars
    <3> QED
      BY <1>2, <3>1, QuietKeeps
  <2> QED
    BY <2>1, <2>2
<1> QED
  BY <1>2, <1>3, <1>4 DEF OpenInv

\* The steps of calls other than open.
LEMMA OtherCallInv ==
  ASSUME OpenInv, NEW t \in Threads, Continue(t), call[t] # "open"
  PROVE  OpenInv'
<1>1. /\ \/ UNCHANGED <<node, modVersion, during>>
         \/ \E newNode \in [Ids -> {"absent", "foreign", "evdi"}],
            newVersion \in Versions \cup {NoVersion} : Change(newNode, newVersion)
      /\ \/ UNCHANGED pc
         \/ \E label \in Label : pc' = [pc EXCEPT ![t] = label]
      /\ UNCHANGED call
      /\ \/ UNCHANGED target
         \/ \E i : target' = [target EXCEPT ![t] = i]
      /\ \/ UNCHANGED version
         \/ \E v : version' = [version EXCEPT ![t] = v]
      /\ \/ UNCHANGED result
         \/ \E r : result' = [result EXCEPT ![t] = r]
  <2>1. CASE EnsureLogsSetup(t)
    BY <2>1, LabelFacts DEF EnsureLogsSetup, Goto, world, local
  <2>2. CASE ReadDir(t) \/ ReadEntry(t) \/ ReadEntryFails(t) \/ ReadEnd(t)
    BY <2>2, LabelFacts DEF ReadDir, ReadEntry, ReadEntryFails, ReadEnd, Goto, Return, world, local,
       Label, AfterLogs
  <2>3. CASE FilterDevice(t) \/ Sort(t)
    BY <2>3, LabelFacts DEF FilterDevice, Sort, Goto, Return, world, Label, AfterLogs
  <2>4. CASE GetModVersion(t) \/ GetLibVersion(t) \/ CheckKernelMod(t) \/ OpenStatus(t)
             \/ EvdiOpen(t) \/ GetStatus(t)
    BY <2>4 DEF GetModVersion, GetLibVersion, CheckKernelMod, OpenStatus, EvdiOpen, GetStatus, Goto,
       Return, world, local, Label, AfterLogs, Ffi
  <2>5. CASE AddDevice(t) \/ RemoveAll(t)
    BY <2>5 DEF AddDevice, RemoveAll, NoEvdi, Goto, Return, world, Label, OpenInv
  <2> QED
    BY <2>1, <2>2, <2>3, <2>4, <2>5 DEF Continue
<1>2. ASSUME NEW u \in Threads, u # t PROVE ownVars(u)' = ownVars(u)
  BY <1>1, <1>2 DEF ownVars, OpenInv
<1>3. call'[t] # "open"
  BY <1>1
<1>4. /\ node' \in [Ids -> {"absent", "foreign", "evdi"}]
      /\ modVersion' \in Versions \cup {NoVersion} /\ DOMAIN during' = Threads
  BY <1>1 DEF Change, OpenInv
<1>5. ASSUME NEW u \in Threads
      PROVE  (Opens(u)' => Knows(u)') /\ (Done(u, "open")' => Told(u)')
  <2>1. CASE u = t
    BY <1>3, <2>1 DEF Opens, Done
  <2>2. CASE u # t
    BY <1>1, <1>2, <2>2, Others
  <2> QED
    BY <2>1, <2>2
<1> QED
  BY <1>1, <1>4, <1>5 DEF OpenInv

\* The steps of open up to the call of evdi_open, which record what was seen.
LEMMA OpenStepInv ==
  ASSUME OpenInv, NEW t \in Threads, Opens(t), ~EvdiOpen(t), Continue(t)
  PROVE  OpenInv'
<1>1. Knows(t) /\ call[t] = "open" /\ pc[t] \in OpenLabels
  BY DEF OpenInv, Opens, Knows
<1>2. UNCHANGED <<node, modVersion, during, call, target>>
  BY <1>1 DEF Continue, EnsureLogsSetup, ReadDir, ReadEntry, ReadEntryFails, ReadEnd, FilterDevice,
     Sort, GetModVersion, GetLibVersion, CheckKernelMod, OpenStatus, GetStatus, AddDevice,
     RemoveAll, OpenLabels, world, local
<1>3. World' = World
  BY <1>2 DEF World
<1>4. ASSUME NEW u \in Threads, u # t, ownVars(u)' = ownVars(u)
      PROVE  (Opens(u)' => Knows(u)') /\ (Done(u, "open")' => Told(u)')
  BY <1>2, <1>4, QuietKeeps
<1> DEFINE Good == (Opens(t)' => Knows(t)') /\ (Done(t, "open")' => Told(t)')
<1>5. ASSUME NEW label, pc' = [pc EXCEPT ![t] = label], UNCHANGED <<version, result>>,
             label \in OpenLabels, Good
      PROVE  OpenInv'
  <2>1. \A u \in Threads : u # t => ownVars(u)' = ownVars(u)
    BY <1>2, <1>5 DEF ownVars, OpenInv
  <2>2. label \in Label
    BY <1>5 DEF OpenLabels, Label, AfterLogs, Ffi
  <2> QED
    BY <1>2, <1>4, <1>5, <2>1, <2>2 DEF OpenInv
<1>6. ASSUME NEW r, pc' = [pc EXCEPT ![t] = "done"], result' = [result EXCEPT ![t] = r],
             version' = version \/ \E v : version' = [version EXCEPT ![t] = v],
             \E w \in during[t] : Explains(r, w, target[t])
      PROVE  OpenInv'
  <2>1. \A u \in Threads : u # t => ownVars(u)' = ownVars(u)
    BY <1>2, <1>6 DEF ownVars, OpenInv
  <2>2. Good
    BY <1>2, <1>6 DEF OpenInv, Opens, Active, Told
  <2> QED
    BY <1>2, <1>4, <1>6, <2>1, <2>2 DEF OpenInv, Label
<1>7. CASE EnsureLogsSetup(t)
  <2>1. UNCHANGED local
    BY <1>7 DEF EnsureLogsSetup
  <2>2. CASE UNCHANGED pc
    <3>1. UNCHANGED <<pc, version, result, during, call, target, node, modVersion>>
      BY <1>2, <2>1, <2>2 DEF local
    <3>2. \A u \in Threads : ownVars(u)' = ownVars(u)
      BY <3>1 DEF ownVars
    <3> QED
      BY <3>1, <3>2, QuietKeeps DEF OpenInv
  <2>3. CASE pc' = [pc EXCEPT ![t] = AfterLogs[pc[t]]]
    <3>1. \/ pc[t] = "open" /\ AfterLogs[pc[t]] = "modFile"
          \/ pc[t] = "libVersion" /\ AfterLogs[pc[t]] = "evdi_get_lib_version"
          \/ pc[t] = "openStatus" /\ AfterLogs[pc[t]] = "evdi_check_device"
      BY <1>1, <1>7 DEF EnsureLogsSetup, AfterLogs, OpenLabels
    <3>2. AfterLogs[pc[t]] \in OpenLabels /\ UNCHANGED <<version, result>>
      BY <2>1, <3>1 DEF OpenLabels, local
    <3>3. Good
      BY <1>1, <1>2, <1>3, <2>3, <3>1, <3>2 DEF Opens, Active, Done, Knows, OpenInv
    <3> HIDE DEF Good
    <3> QED
      BY <1>5, <2>3, <3>2, <3>3
  <2> QED
    BY <1>7, <2>2, <2>3 DEF EnsureLogsSetup, Goto
<1>8. CASE GetModVersion(t)
  <2>1. CASE modVersion = NoVersion
    <3>1. Explains("KernelModuleNotInstalled", World, target[t]) /\ World \in during[t]
      BY <1>1, <2>1 DEF Explains, World, Knows
    <3> QED
      BY <1>6, <1>8, <2>1, <3>1 DEF GetModVersion, Return, Goto
  <2>2. CASE modVersion # NoVersion
    <3>1. /\ pc' = [pc EXCEPT ![t] = "libVersion"]
          /\ version' = [version EXCEPT ![t] = modVersion] /\ UNCHANGED result
      BY <1>8, <2>2 DEF GetModVersion, Goto
    <3>2. World.version = modVersion
      BY DEF World
    <3>3. Good
      BY <1>1, <1>2, <1>3, <2>2, <3>1, <3>2 DEF Opens, Active, Done, Knows, OpenInv, OpenLabels
    <3>4. \A u \in Threads : u # t => ownVars(u)' = ownVars(u)
      BY <1>2, <3>1 DEF ownVars, OpenInv
    <3> QED
      BY <1>2, <1>4, <3>1, <3>3, <3>4 DEF OpenInv, Label, AfterLogs
  <2> QED
    BY <2>1, <2>2
<1>9. CASE GetLibVersion(t)
  <2>1. /\ pc[t] = "evdi_get_lib_version" /\ pc' = [pc EXCEPT ![t] = "compare"]
        /\ UNCHANGED <<version, result>>
    BY <1>9 DEF GetLibVersion, Goto, local
  <2>2. Good
    BY <1>1, <1>2, <1>3, <2>1 DEF Opens, Active, Done, Knows, OpenInv, OpenLabels
  <2> HIDE DEF Good
  <2> QED
    BY <1>5, <2>1, <2>2 DEF OpenLabels
<1>10. CASE CheckKernelMod(t)
  <2>1. PICK w \in during[t] : w.version = version[t]
    BY <1>1, <1>10 DEF CheckKernelMod, Knows
  <2>2. pc[t] = "compare" /\ version[t] # NoVersion /\ version[t] \in Versions
    BY <1>1, <1>10, DeviceNodeAssumption DEF CheckKernelMod, Knows, DeviceNodeAssumption
  <2>3. CASE IsCompatible(version[t])
    <3>1. pc' = [pc EXCEPT ![t] = "openStatus"] /\ UNCHANGED <<version, result>>
      BY <1>1, <1>10, <2>3 DEF CheckKernelMod, Goto
    <3>2. Accepted(w.version)
      BY <2>1, <2>2, <2>3 DEF Accepted
    <3>3. Good
      BY <1>1, <1>2, <1>3, <3>1, <3>2 DEF Opens, Active, Done, Knows, OpenInv, OpenLabels
    <3> HIDE DEF Good
    <3> QED
      BY <1>5, <3>1, <3>3 DEF OpenLabels
  <2>4. CASE ~IsCompatible(version[t])
    <3>1. Explains("KernelModuleOutdated", w, target[t])
      <4>1. version[t].minor \in Nat /\ CompatMinor \in Nat
        BY <2>2, DeviceNodeAssumption DEF DeviceNodeAssumption
      <4> QED
        BY <2>1, <2>2, <2>4, <4>1 DEF Explains, IsCompatible
    <3> QED
      BY <1>6, <1>10, <2>4, <3>1 DEF CheckKernelMod, Return, Goto
  <2> QED
    BY <2>3, <2>4
<1>11. CASE OpenStatus(t)
  <2>1. /\ World \in during[t] /\ World.node = node /\ target[t] \in Ids
        /\ Status(target[t]) \in {"Available", "Unrecognized", "NotPresent"}
        /\ Status(target[t]) = "Available" => node[target[t]] = "evdi"
        /\ Status(target[t]) = "Unrecognized" => node[target[t]] = "foreign"
        /\ Status(target[t]) = "NotPresent" => node[target[t]] = "absent"
    <3>1. World \in during[t] /\ World.node = node /\ target[t] \in Ids
      BY <1>1 DEF Knows, World
    <3>2. node[target[t]] \in {"absent", "foreign", "evdi"}
      BY <3>1 DEF OpenInv
    <3> QED
      BY <3>1, <3>2 DEF Status
  <2>2. CASE Status(target[t]) = "Unrecognized"
    <3>1. Explains("NotEvdiDevice", World, target[t])
      BY <2>1, <2>2 DEF Explains
    <3> QED
      BY <1>6, <1>11, <2>1, <2>2, <3>1 DEF OpenStatus, Return, Goto
  <2>3. CASE Status(target[t]) = "NotPresent"
    <3>1. Explains("NonexistentDevice", World, target[t])
      BY <2>1, <2>3 DEF Explains
    <3> QED
      BY <1>6, <1>11, <2>1, <2>3, <3>1 DEF OpenStatus, Return, Goto
  <2>4. CASE Status(target[t]) = "Available"
    <3>1. /\ pc[t] = "evdi_check_device" /\ pc' = [pc EXCEPT ![t] = "evdi_open"]
          /\ UNCHANGED <<version, result>>
      BY <1>11, <2>4 DEF OpenStatus, Goto
    <3>2. Good
      BY <1>1, <1>2, <1>3, <2>1, <2>4, <3>1 DEF Opens, Active, Done, Knows, OpenInv, OpenLabels
    <3> HIDE DEF Good
    <3> QED
      BY <1>5, <3>1, <3>2 DEF OpenLabels
  <2> QED
    BY <2>1, <2>2, <2>3, <2>4
<1> QED
  BY <1>1, <1>7, <1>8, <1>9, <1>10, <1>11 DEF Continue, ReadDir, ReadEntry, ReadEntryFails, ReadEnd,
     FilterDevice, Sort, GetStatus, AddDevice, RemoveAll, OpenLabels

\* evdi_open: that it fails, after a module and a node that were in order were
\* seen, means that there has been more than one world.
LEMMA EvdiOpenInv ==
  ASSUME OpenInv, NEW t \in Threads, Opens(t), EvdiOpen(t)
  PROVE  OpenInv'
<1>1. Knows(t) /\ pc[t] = "evdi_open"
  BY DEF OpenInv, EvdiOpen
<1>2. /\ UNCHANGED <<node, modVersion, during, call, target, version>>
      /\ pc' = [pc EXCEPT ![t] = "done"]
      /\ \/ Openable(World, target[t]) /\ result' = [result EXCEPT ![t] = "Ok"]
         \/ Refusable(World, target[t]) /\ result' = [result EXCEPT ![t] = "Unknown"]
  BY DEF EvdiOpen, Return, Goto, world
<1>3. Told(t)'
  <2>1. CASE Openable(World, target[t]) /\ result' = [result EXCEPT ![t] = "Ok"]
    <3>1. Explains("Ok", World, target[t]) /\ World \in during[t]
      BY <1>1, <2>1 DEF Explains, Knows
    <3> QED
      BY <1>2, <2>1, <3>1 DEF Told, OpenInv
  <2>2. CASE Refusable(World, target[t]) /\ result' = [result EXCEPT ![t] = "Unknown"]
    <3>1. World \in during[t]
      BY <1>1 DEF Knows
    <3>2. PICK v \in during[t] : Accepted(v.version)
      BY <1>1 DEF Knows
    <3>3. PICK w \in during[t] : w.node[target[t]] = "evdi"
      BY <1>1 DEF Knows
    <3>4. ~(World = v /\ World = w)
      BY <2>2, <3>2, <3>3 DEF Refusable, Openable, Compatible, Accepted, IsCompatible
    <3>5. result'[t] = "Unknown" /\ during'[t] = during[t]
      BY <1>2, <2>2 DEF OpenInv
    <3> QED
      BY <3>1, <3>2, <3>3, <3>4, <3>5 DEF Told
  <2> QED
    BY <1>2, <2>1, <2>2
<1>4. ASSUME NEW u \in Threads, u # t
      PROVE  (Opens(u)' => Knows(u)') /\ (Done(u, "open")' => Told(u)')
  <2>1. ownVars(u)' = ownVars(u)
    BY <1>2, <1>4 DEF ownVars, OpenInv
  <2> QED
    BY <1>2, <2>1, QuietKeeps
<1>5. ~Opens(t)'
  BY <1>2 DEF Opens, Active, OpenInv
<1> QED
  BY <1>2, <1>3, <1>4, <1>5 DEF OpenInv, Label

LEMMA OpenNext == OpenInv /\ [Next]_vars => OpenInv'
<1> SUFFICES ASSUME OpenInv, [Next]_vars PROVE OpenInv'
  OBVIOUS
<1>1. CASE UNCHANGED vars
  <2>1. UNCHANGED <<node, modVersion, pc, call, target, version, result, during>>
    BY <1>1 DEF vars, world, local
  <2>2. \A t \in Threads : ownVars(t)' = ownVars(t)
    BY <2>1 DEF ownVars
  <2> QED
    BY <2>1, <2>2, QuietKeeps DEF OpenInv
<1>2. ASSUME NEW t \in Threads, Continue(t), call[t] = "open" PROVE Opens(t)
  BY <1>2 DEF Continue, EnsureLogsSetup, ReadDir, ReadEntry, ReadEntryFails, ReadEnd, FilterDevice,
     Sort, GetModVersion, GetLibVersion, CheckKernelMod, OpenStatus, EvdiOpen, GetStatus, AddDevice,
     RemoveAll, Opens, Active, AfterLogs
<1> QED
  BY <1>1, <1>2, EnvironmentInv, CallInv, OtherCallInv, OpenStepInv, EvdiOpenInv DEF Next

\* What open reports was so at some time during the call, and Unknown is left
\* for a change in the midst of it: for every order of its looks and of what
\* other threads, other processes and the kernel do to the nodes and the module.
THEOREM OpenExplained == Spec => []OpenExplains
<1>1. OpenInv => OpenExplains
  BY DEF OpenInv, OpenExplains, Told
<1> QED
  BY <1>1, OpenInit, OpenNext, PTL DEF Spec
=============================================================================
