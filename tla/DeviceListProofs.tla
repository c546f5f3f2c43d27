-------------------------- MODULE DeviceListProofs --------------------------
(* Theorems about DeviceNode, continued: its types, and what list_available  *)
(* and get return, for any number of threads, cards, versions of the module  *)
(* and changes made by others while the directory is read and filtered.      *)
EXTENDS DeviceNodeProofs, FiniteSetTheorems, FunctionTheorems

-----------------------------------------------------------------------------
(* Types.  The filter takes the head of the devices it has left: that there  *)
(* is one is known from where the thread stands.                             *)

ListLabels == {"readDir", "reading", "sort", "listStatus", "evdi_check_device"}

Lists(t) == call[t] \in {"list", "get"} /\ Active(t)

\* Where a thread may be in a call, and what it has in hand there.
Flow(t) ==
  /\ Lists(t) => pc[t] \in ListLabels
  /\ pc[t] = "openStatus" => call[t] \in {"open", "status"}
  /\ pc[t] = "listStatus" => devices[t] # <<>>
  /\ pc[t] = "evdi_check_device" /\ call[t] \in {"list", "get"} => devices[t] # <<>>
  /\ call[t] = "status" => target[t] \in Ids

TypeInv == TypeOK /\ \A t \in Threads : Flow(t)

\* What Flow looks at.
flowVars(t) == <<pc[t], call[t], target[t], devices[t]>>

LEMMA FlowQuiet ==
  ASSUME NEW t \in Threads, Flow(t), flowVars(t)' = flowVars(t)
  PROVE  Flow(t)'
BY DEF Flow, Lists, Active, flowVars

\* A change of the world is one among the worlds the model knows.
LEMMA ChangeType ==
  ASSUME TypeOK, NEW newNode \in [Ids -> {"absent", "foreign", "evdi"}],
         NEW newVersion \in Versions \cup {NoVersion}, Change(newNode, newVersion)
  PROVE  /\ World' \in Worlds /\ changes' \in 0..MaxChanges
         /\ unread' \in [Threads -> SUBSET Ids]
         /\ during' \in [Threads -> SUBSET Worlds]
<1>1. World' \in Worlds
  BY DEF Change, World, Worlds
<1>2. changes' \in 0..MaxChanges
  BY DeviceNodeAssumption DEF Change, TypeOK, DeviceNodeAssumption
<1>3. unread' \in [Threads -> SUBSET Ids]
  BY DEF Change
<1>4. during' \in [Threads -> SUBSET Worlds]
  <2>1. /\ during \in [Threads -> SUBSET Worlds]
        /\ during' = [t \in Threads |->
                        IF Active(t) /\ call[t] \in Observers
                        THEN during[t] \cup {World'} ELSE during[t]]
    BY DEF TypeOK, Change
  <2> QED
    BY <1>1, <2>1
<1> QED
  BY <1>1, <1>2, <1>3, <1>4

LEMMA WorldType ==
  ASSUME TypeOK
  PROVE  /\ node \in [Ids -> {"absent", "foreign", "evdi"}]
         /\ modVersion \in Versions \cup {NoVersion}
BY DEF TypeOK, World, Worlds

LEMMA StatusType ==
  ASSUME TypeOK, NEW i \in Ids
  PROVE  /\ Status(i) \in DeviceNodeStatus
         /\ Status(i) = "Available" <=> node[i] = "evdi"
<1>1. node[i] \in {"absent", "foreign", "evdi"}
  BY WorldType
<1> QED
  BY <1>1 DEF Status, DeviceNodeStatus

LEMMA TypeInit == Init => TypeInv
<1> SUFFICES ASSUME Init PROVE TypeInv
  OBVIOUS
<1>1. World \in Worlds
  BY DEF Init, World, Worlds
<1>2. TypeOK
  BY <1>1, DeviceNodeAssumption DEF Init, TypeOK, Label, DeviceNodeAssumption
<1> QED
  BY <1>2 DEF Init, TypeInv, Flow, Lists, Active

LEMMA EnvironmentType == ASSUME TypeInv, Environment PROVE TypeInv'
<1>1. TypeOK
  BY DEF TypeInv
<1>2. PICK newNode \in [Ids -> {"absent", "foreign", "evdi"}],
     newVersion \in Versions \cup {NoVersion} : Change(newNode, newVersion)
  BY <1>1, WorldType DEF Environment, Plug, Unplug, Load, Unload, NoEvdi
<1>3. UNCHANGED <<once, pc, call, target, devices, available, version, result>>
  BY DEF Environment
<1>4. TypeOK'
  BY <1>1, <1>2, <1>3, ChangeType DEF TypeOK
<1>5. \A t \in Threads : flowVars(t)' = flowVars(t)
  BY <1>3 DEF flowVars
<1> QED
  BY <1>4, <1>5, FlowQuiet DEF TypeInv

LEMMA CallType == ASSUME TypeInv, NEW t \in Threads, Call(t) PROVE TypeInv'
<1>1. PICK name \in Functions, i \in Ids \cup {NoId},
           label \in {"readDir", "open", "modFile", "openStatus", "add", "removeAll"} :
        /\ Begin(t, name, i, label)
        /\ name \in {"list", "get"} => label = "readDir"
        /\ label = "openStatus" => name = "status"
        /\ name = "status" => i \in Ids
  BY DEF Call, ListCall, OpenCall, CheckKernelModCall, StatusCall, AddCall, RemoveAllCall, Functions
<1>2. TypeOK /\ label \in Label /\ World' = World
  BY <1>1 DEF TypeInv, Label, AfterLogs, Begin, world, World
<1>3. (IF name \in Observers THEN {World} ELSE {}) \in SUBSET Worlds
  BY <1>2 DEF TypeOK
<1>4. TypeOK'
  BY <1>1, <1>2, <1>3 DEF TypeOK, Begin, Goto, world
<1>5. Flow(t)'
  BY <1>1, <1>2 DEF Flow, Lists, Active, ListLabels, Begin, Goto, TypeOK
<1>6. ASSUME NEW u \in Threads, u # t PROVE flowVars(u)' = flowVars(u)
  BY <1>1, <1>2, <1>6 DEF flowVars, Begin, Goto, TypeOK
<1> QED
  BY <1>4, <1>5, <1>6, FlowQuiet DEF TypeInv

\* A step of t leaves the others where they are.
LEMMA OthersFlow ==
  ASSUME TypeInv, NEW t \in Threads, Continue(t), NEW u \in Threads, u # t
  PROVE  flowVars(u)' = flowVars(u)
<1>1. TypeOK
  BY DEF TypeInv
<1>2. CASE EnsureLogsSetup(t)
  BY <1>1, <1>2 DEF EnsureLogsSetup, Goto, flowVars, TypeOK, local
<1>3. CASE ReadDir(t) \/ ReadEntry(t) \/ ReadEntryFails(t) \/ ReadEnd(t)
  BY <1>1, <1>3 DEF ReadDir, ReadEntry, ReadEntryFails, ReadEnd, Goto, Return, flowVars, TypeOK, local
<1>4. CASE FilterDevice(t) \/ Sort(t)
  BY <1>1, <1>4 DEF FilterDevice, Sort, Goto, Return, flowVars, TypeOK
<1>5. CASE GetModVersion(t) \/ GetLibVersion(t) \/ CheckKernelMod(t) \/ OpenStatus(t)
           \/ EvdiOpen(t) \/ GetStatus(t)
  BY <1>1, <1>5 DEF GetModVersion, GetLibVersion, CheckKernelMod, OpenStatus, EvdiOpen, GetStatus,
     Goto, Return, flowVars, TypeOK, local
<1>6. CASE AddDevice(t) \/ RemoveAll(t)
  BY <1>1, <1>6 DEF AddDevice, RemoveAll, Goto, Return, flowVars, TypeOK
<1> QED
  BY <1>2, <1>3, <1>4, <1>5, <1>6 DEF Continue

-----------------------------------------------------------------------------
(* Sorting, and what becomes of an entry when a sequence is appended to, cut *)
(* or sorted.                                                              *)

\* In the order of the values, and then of the places.
Before(s, i, j) == s[i] < s[j] \/ (s[i] = s[j] /\ i <= j)

UpTo(s, j) == {i \in DOMAIN s : Before(s, i, j)}

\* Every sequence of numbers can be sorted: the place of an entry is the number
\* of entries up to it.
LEMMA CanBeSorted ==
  ASSUME NEW n \in Nat, NEW s \in [1..n -> Nat]
  PROVE  \E p \in Bijection(1..n, 1..n) :
           \A i, j \in 1..n : i < j => s[p[i]] <= s[p[j]]
<1> DEFINE rank == [j \in 1..n |-> Cardinality(UpTo(s, j))]
<1>1. IsFiniteSet(1..n) /\ Cardinality(1..n) = n
  BY FS_Interval
<1>2. ASSUME NEW j \in 1..n
      PROVE  UpTo(s, j) \in SUBSET (1..n) /\ j \in UpTo(s, j) /\ IsFiniteSet(UpTo(s, j))
  <2>1. UpTo(s, j) \in SUBSET (1..n) /\ j \in UpTo(s, j)
    BY DEF UpTo, Before
  <2> QED
    BY <1>1, <2>1, FS_Subset
<1>3. ASSUME NEW j \in 1..n PROVE rank[j] \in 1..n
  <2>1. Cardinality(UpTo(s, j)) \in Nat /\ Cardinality(UpTo(s, j)) <= n
    BY <1>1, <1>2, FS_Subset, FS_CardinalityType
  <2>2. Cardinality(UpTo(s, j)) # 0
    BY <1>2, FS_EmptySet
  <2> QED
    BY <2>1, <2>2
<1>4. ASSUME NEW i \in 1..n, NEW j \in 1..n, ~Before(s, j, i)
      PROVE  rank[i] < rank[j]
  <2>1. Before(s, i, j)
    BY <1>4 DEF Before
  <2>2. UpTo(s, i) \subseteq UpTo(s, j)
    BY <2>1 DEF UpTo, Before
  <2>3. j \notin UpTo(s, i)
    BY <1>4 DEF UpTo
  <2>4. UpTo(s, i) # UpTo(s, j)
    BY <1>2, <2>3
  <2>5. /\ Cardinality(UpTo(s, i)) <= Cardinality(UpTo(s, j))
        /\ Cardinality(UpTo(s, j)) # Cardinality(UpTo(s, i))
    BY <1>2, <2>2, <2>4, FS_Subset
  <2> QED
    BY <1>3, <2>5
<1>5. rank \in [1..n -> 1..n]
  BY <1>3
<1> HIDE DEF rank
<1>6. \A i, j \in 1..n : rank[i] = rank[j] => i = j
  <2> SUFFICES ASSUME NEW i \in 1..n, NEW j \in 1..n, rank[i] = rank[j] PROVE i = j
    OBVIOUS
  <2>1. Before(s, i, j) /\ Before(s, j, i)
    <3>1. rank[i] \in 1..n /\ rank[j] \in 1..n
      BY <1>5
    <3>2. ~(rank[i] < rank[j]) /\ ~(rank[j] < rank[i])
      BY <3>1
    <3> QED
      BY <1>4, <3>2
  <2> QED
    BY <2>1 DEF Before
<1>7. rank \in Injection(1..n, 1..n)
  BY <1>5, <1>6, Fun_IsInj
<1>8. rank \in Bijection(1..n, 1..n)
  BY <1>1, <1>7, FS_Injection DEF Bijection
<1>9. PICK p : p \in Bijection(1..n, 1..n) /\ \A i \in 1..n : rank[p[i]] = i
  <2> DEFINE q == Inverse(rank, 1..n, 1..n)
  <2>1. q \in Bijection(1..n, 1..n) /\ \A j \in 1..n : q[rank[j]] = j
    BY <1>8, Fun_BijInverse
  <2>2. ASSUME NEW i \in 1..n PROVE rank[q[i]] = i
    <3>1. PICK j \in 1..n : rank[j] = i
      BY <1>8 DEF Bijection, Surjection
    <3> HIDE DEF q
    <3> QED
      BY <2>1, <3>1
  <2> HIDE DEF q
  <2> QED
    BY <2>1, <2>2
<1>10. p \in [1..n -> 1..n]
  BY <1>9, Fun_BijectionProperties
<1>11. ASSUME NEW i \in 1..n, NEW j \in 1..n, i < j PROVE s[p[i]] <= s[p[j]]
  <2>1. rank[p[i]] = i /\ rank[p[j]] = j
    BY <1>9
  <2>2. p[i] \in 1..n /\ p[j] \in 1..n
    BY <1>10
  <2>3. ~(rank[p[j]] < rank[p[i]])
    BY <1>11, <2>1
  <2>4. Before(s, p[i], p[j])
    BY <1>4, <2>2, <2>3
  <2> QED
    BY <2>2, <2>4 DEF Before
<1> QED
  BY <1>9, <1>11

Once(i, s) == \E n \in DOMAIN s : \A m \in DOMAIN s : s[m] = i <=> m = n
Never(i, s) == \A n \in DOMAIN s : s[n] # i

LEMMA AppendEntries ==
  ASSUME NEW S, NEW s \in Seq(S), NEW e \in S, NEW i \in S
  PROVE  /\ Append(s, e) \in Seq(S)
         /\ e = i /\ Never(i, s) => Once(i, Append(s, e))
         /\ e # i => /\ Once(i, s) => Once(i, Append(s, e))
                     /\ Never(i, s) => Never(i, Append(s, e))
         /\ \A n \in DOMAIN Append(s, e) : Append(s, e)[n] = e \/ (n \in DOMAIN s /\ Append(s, e)[n] = s[n])
<1> DEFINE a == Append(s, e)
<1>1. /\ a \in Seq(S) /\ DOMAIN s = 1..Len(s) /\ DOMAIN a = 1..(Len(s) + 1)
      /\ Len(s) \in Nat /\ a[Len(s) + 1] = e
      /\ \A n \in 1..Len(s) : a[n] = s[n]
  OBVIOUS
<1> HIDE DEF a
<1>2. ASSUME e = i, Never(i, s) PROVE Once(i, a)
  <2>1. \A m \in DOMAIN a : a[m] = i <=> m = Len(s) + 1
    BY <1>1, <1>2 DEF Never
  <2> QED
    BY <1>1, <2>1 DEF Once
<1>3. ASSUME e # i, Once(i, s) PROVE Once(i, a)
  <2>1. PICK n \in DOMAIN s : \A m \in DOMAIN s : s[m] = i <=> m = n
    BY <1>3 DEF Once
  <2>2. n \in DOMAIN a /\ \A m \in DOMAIN a : a[m] = i <=> m = n
    BY <1>1, <1>3, <2>1
  <2> QED
    BY <2>2 DEF Once
<1>4. ASSUME e # i, Never(i, s) PROVE Never(i, a)
  BY <1>1, <1>4 DEF Never
<1>5. ASSUME NEW n \in DOMAIN a PROVE a[n] = e \/ (n \in DOMAIN s /\ a[n] = s[n])
  <2>1. CASE n = Len(s) + 1
    BY <1>1, <2>1
  <2>2. CASE n \in 1..Len(s)
    BY <1>1, <2>2
  <2> QED
    BY <1>1, <2>1, <2>2
<1> QED
  BY <1>1, <1>2, <1>3, <1>4, <1>5 DEF a

LEMMA TailEntries ==
  ASSUME NEW S, NEW s \in Seq(S), s # <<>>, NEW i \in S
  PROVE  /\ Head(s) \in S /\ Tail(s) \in Seq(S)
         /\ Head(s) = i /\ Once(i, s) => Never(i, Tail(s))
         /\ Head(s) # i /\ Once(i, s) => Once(i, Tail(s))
         /\ Never(i, s) => Never(i, Tail(s)) /\ Head(s) # i
<1> DEFINE a == Tail(s)
<1>1. /\ a \in Seq(S) /\ DOMAIN s = 1..Len(s) /\ DOMAIN a = 1..(Len(s) - 1)
      /\ Len(s) \in Nat \ {0} /\ Head(s) = s[1] /\ Head(s) \in S
      /\ \A n \in 1..(Len(s) - 1) : a[n] = s[n + 1]
  OBVIOUS
<1> HIDE DEF a
<1>2. ASSUME Head(s) = i, Once(i, s) PROVE Never(i, a)
  BY <1>1, <1>2 DEF Once, Never
<1>3. ASSUME Head(s) # i, Once(i, s) PROVE Once(i, a)
  <2>1. PICK n \in DOMAIN s : \A m \in DOMAIN s : s[m] = i <=> m = n
    BY <1>3 DEF Once
  <2>2. n - 1 \in DOMAIN a
    BY <1>1, <1>3, <2>1
  <2>3. ASSUME NEW m \in DOMAIN a PROVE a[m] = i <=> m = n - 1
    <3>1. m \in Nat /\ m + 1 \in DOMAIN s /\ a[m] = s[m + 1]
      BY <1>1
    <3>2. s[m + 1] = i <=> m + 1 = n
      BY <2>1, <3>1
    <3>3. n \in Nat
      BY <1>1, <2>1
    <3> QED
      BY <3>1, <3>2, <3>3
  <2> QED
    BY <2>2, <2>3 DEF Once
<1>4. ASSUME Never(i, s) PROVE Never(i, a) /\ Head(s) # i
  BY <1>1, <1>4 DEF Never
<1> QED
  BY <1>1, <1>2, <1>3, <1>4 DEF a

\* Sorted puts the entries in order, and neither loses nor adds one.
LEMMA SortedEntries ==
  ASSUME NEW S \in SUBSET Nat, NEW s \in Seq(S)
  PROVE  /\ Sorted(s) \in Seq(S) /\ Len(Sorted(s)) = Len(s)
         /\ \A m, n \in DOMAIN Sorted(s) : m < n => Sorted(s)[m] <= Sorted(s)[n]
         /\ \A n \in DOMAIN Sorted(s) : \E m \in DOMAIN s : Sorted(s)[n] = s[m]
         /\ \A i : Once(i, s) => Once(i, Sorted(s))
<1> DEFINE N == Len(s)
           Orders(p) == \A m, n \in DOMAIN s : m < n => s[p[m]] <= s[p[n]]
           order == CHOOSE p \in Bijection(DOMAIN s, DOMAIN s) : Orders(p)
<1>1. N \in Nat /\ DOMAIN s = 1..N /\ s \in [1..N -> Nat] /\ s \in [1..N -> S]
  <2>1. N \in Nat /\ DOMAIN s = 1..N /\ s \in [1..N -> S]
    OBVIOUS
  <2> HIDE DEF N
  <2> QED
    BY <2>1
<1>2. \E p \in Bijection(DOMAIN s, DOMAIN s) : Orders(p)
  <2> HIDE DEF N
  <2> QED
    BY <1>1, CanBeSorted
<1>3. order \in Bijection(DOMAIN s, DOMAIN s) /\ Orders(order)
  <2> HIDE DEF Orders
  <2> QED
    BY <1>2
<1>4. Sorted(s) = [n \in DOMAIN s |-> s[order[n]]]
  BY DEF Sorted
<1> HIDE DEF order, N, Orders
<1>5. /\ order \in [1..N -> 1..N]
      /\ \A m, n \in 1..N : order[m] = order[n] => m = n
      /\ \A m \in 1..N : \E n \in 1..N : order[n] = m
  <2>1. order \in Bijection(1..N, 1..N)
    BY <1>1, <1>3
  <2> QED
    <3>1. order \in [1..N -> 1..N] /\ \A m \in 1..N : \E n \in 1..N : order[n] = m
      BY <2>1 DEF Bijection, Surjection
    <3>2. \A m, n \in 1..N : order[m] = order[n] => m = n
      BY <2>1, Fun_BijectionProperties
    <3> QED
      BY <3>1, <3>2
<1>6. /\ Sorted(s) \in Seq(S) /\ Len(Sorted(s)) = N /\ DOMAIN Sorted(s) = 1..N
      /\ \A n \in 1..N : Sorted(s)[n] = s[order[n]]
  BY <1>1, <1>4, <1>5
<1>7. \A m, n \in DOMAIN Sorted(s) : m < n => Sorted(s)[m] <= Sorted(s)[n]
  BY <1>1, <1>3, <1>6 DEF Orders
<1>8. \A n \in DOMAIN Sorted(s) : \E m \in DOMAIN s : Sorted(s)[n] = s[m]
  BY <1>1, <1>5, <1>6
<1>9. ASSUME NEW i, Once(i, s) PROVE Once(i, Sorted(s))
  <2>1. PICK n \in 1..N : \A m \in 1..N : s[m] = i <=> m = n
    <3>1. PICK n \in DOMAIN s : \A m \in DOMAIN s : s[m] = i <=> m = n
      BY <1>9 DEF Once
    <3>2. n \in 1..N /\ \A m \in 1..N : s[m] = i <=> m = n
      BY <1>1, <3>1
    <3> QED
      BY <3>2
  <2>2. PICK k \in 1..N : order[k] = n
    BY <1>5
  <2>3. ASSUME NEW m \in 1..N PROVE Sorted(s)[m] = i <=> m = k
    <3>1. Sorted(s)[m] = s[order[m]] /\ order[m] \in 1..N
      BY <1>5, <1>6
    <3>2. s[order[m]] = i <=> order[m] = n
      BY <2>1, <3>1
    <3> QED
      BY <1>5, <2>2, <3>1, <3>2
  <2> QED
    <3>1. k \in DOMAIN Sorted(s) /\ \A m \in DOMAIN Sorted(s) : Sorted(s)[m] = i <=> m = k
      BY <1>6, <2>2, <2>3
    <3> QED
      BY <3>1 DEF Once
<1> QED
  BY <1>6, <1>7, <1>8, <1>9 DEF N

-----------------------------------------------------------------------------
(* Types, continued: the steps of a call.                                  *)

LEMMA FilterFacts ==
  \A s : /\ Filter(s) \in Label /\ Filter(s) \in {"sort", "listStatus"}
         /\ Filter(s) = "listStatus" <=> s # <<>>
BY DEF Filter, Label, AfterLogs

LEMMA LogsType == ASSUME TypeInv, NEW t \in Threads, EnsureLogsSetup(t) PROVE TypeOK' /\ Flow(t)'
<1>1. TypeOK /\ Flow(t) /\ pc[t] \in DOMAIN AfterLogs
  BY DEF TypeInv, EnsureLogsSetup
<1>2. UNCHANGED <<node, modVersion, changes, call, target, unread, devices, available, version,
                  result, during>>
  BY DEF EnsureLogsSetup, world, local
<1>3. World' = World
  BY <1>2 DEF World
<1>4. CASE UNCHANGED pc
  BY <1>1, <1>2, <1>3, <1>4 DEF EnsureLogsSetup, TypeOK, Flow, Lists, Active
<1>5. CASE once' = "done" /\ Goto(t, AfterLogs[pc[t]])
  <2>1. AfterLogs[pc[t]] \in Label
    BY <1>1, LabelFacts
  <2>2. TypeOK'
    BY <1>1, <1>2, <1>3, <1>5, <2>1 DEF Goto, TypeOK
  <2>3. pc'[t] = AfterLogs[pc[t]]
    BY <1>1, <1>5 DEF Goto, TypeOK
  <2>4. \/ pc[t] = "listStatus" /\ pc'[t] = "evdi_check_device"
        \/ pc[t] = "openStatus" /\ pc'[t] = "evdi_check_device"
        \/ pc[t] \in {"open", "libVersion", "add"}
             /\ pc'[t] \in {"modFile", "evdi_get_lib_version", "evdi_add_device"}
    BY <1>1, <2>3 DEF AfterLogs
  <2> QED
    BY <1>1, <1>2, <2>2, <2>4 DEF Flow, Lists, Active, ListLabels
<1> QED
  BY <1>4, <1>5 DEF EnsureLogsSetup

LEMMA ReadType ==
  ASSUME TypeInv, NEW t \in Threads,
         ReadDir(t) \/ ReadEntry(t) \/ ReadEntryFails(t) \/ ReadEnd(t)
  PROVE  TypeOK' /\ Flow(t)'
<1>1. TypeOK /\ Flow(t) /\ World' = World
  BY DEF TypeInv, ReadDir, ReadEntry, ReadEntryFails, ReadEnd, World, world
<1>2. CASE ReadDir(t)
  BY <1>1, <1>2 DEF ReadDir, Return, Goto, TypeOK, Label, world, Flow, Lists, Active, ListLabels
<1>3. CASE ReadEntry(t)
  <2>1. PICK i \in unread[t] :
          /\ unread' = [unread EXCEPT ![t] = @ \ {i}]
          /\ devices' = [devices EXCEPT ![t] = Append(@, i)]
    BY <1>3 DEF ReadEntry
  <2>2. UNCHANGED <<node, modVersion, changes, once, pc, call, target, available, version, result, during>>
    BY <1>3 DEF ReadEntry, world
  <2>3. devices[t] \in Seq(Ids) /\ i \in Ids
    BY <1>1, <2>1 DEF TypeOK
  <2>4. Append(devices[t], i) \in Seq(Ids)
    BY <2>3
  <2>5. TypeOK'
    BY <1>1, <2>1, <2>2, <2>4 DEF TypeOK
  <2> QED
    BY <1>1, <1>3, <2>2, <2>5 DEF ReadEntry, Flow, Lists, Active, ListLabels
<1>4. CASE ReadEntryFails(t)
  BY <1>1, <1>4 DEF ReadEntryFails, Return, Goto, TypeOK, Label, world, Flow, Lists, Active
<1>5. CASE ReadEnd(t)
  BY <1>1, <1>5, FilterFacts DEF ReadEnd, Goto, TypeOK, world, local, Flow, Lists, Active, ListLabels
<1> QED
  BY <1>2, <1>3, <1>4, <1>5

LEMMA FilterType == ASSUME TypeInv, NEW t \in Threads, FilterDevice(t) PROVE TypeOK' /\ Flow(t)'
<1>1. TypeOK /\ Flow(t) /\ World' = World
  BY DEF TypeInv, FilterDevice, World, world
<1>2. devices[t] \in Seq(Ids) /\ devices[t] # <<>> /\ available[t] \in Seq(Ids)
  BY <1>1 DEF Flow, FilterDevice, TypeOK
<1> DEFINE i == Head(devices[t])
           a == IF Status(i) = "Available" THEN Append(available[t], i) ELSE available[t]
<1>3. i \in Ids /\ Tail(devices[t]) \in Seq(Ids)
  BY <1>2
<1>4. a \in Seq(Ids)
  BY <1>2, <1>3
<1>5. /\ available' = [available EXCEPT ![t] = a]
      /\ devices' = [devices EXCEPT ![t] = Tail(devices[t])]
      /\ pc' = [pc EXCEPT ![t] = Filter(Tail(devices[t]))]
      /\ UNCHANGED <<node, modVersion, changes, once, call, target, unread, version, result, during>>
  BY <1>1 DEF FilterDevice, TypeOK, Goto, world
<1> HIDE DEF a, i
<1>6. TypeOK'
  BY <1>1, <1>3, <1>4, <1>5, FilterFacts DEF TypeOK
<1> QED
  BY <1>1, <1>5, <1>6, FilterFacts DEF Flow, Lists, Active, ListLabels, TypeOK

LEMMA SortType == ASSUME TypeInv, NEW t \in Threads, Sort(t) PROVE TypeOK' /\ Flow(t)'
<1>1. TypeOK /\ Flow(t) /\ World' = World
  BY DEF TypeInv, Sort, World, world
<1> DEFINE s == Sorted(available[t])
<1>2. s \in Seq(Ids)
  <2>1. Ids \in SUBSET Nat /\ available[t] \in Seq(Ids)
    BY <1>1, DeviceNodeAssumption DEF TypeOK, DeviceNodeAssumption
  <2> QED
    BY <2>1, SortedEntries
<1>3. PICK i \in Ids \cup {NoId} :
        /\ target' = [target EXCEPT ![t] = i]
        /\ i # target[t] => i \in Ids
  <2>1. s # <<>> => s[Len(s)] \in Ids
    BY <1>2
  <2> QED
    BY <1>1, <2>1 DEF Sort, TypeOK
<1>4. /\ available' = [available EXCEPT ![t] = s]
      /\ pc' = [pc EXCEPT ![t] = "done"]
      /\ result' = [result EXCEPT ![t] = "Ok"]
      /\ UNCHANGED <<node, modVersion, changes, once, call, unread, devices, version, during>>
  BY DEF Sort, Return, Goto, world
<1> HIDE DEF s
<1>5. TypeOK'
  BY <1>1, <1>2, <1>3, <1>4 DEF TypeOK, Label
<1> QED
  BY <1>1, <1>3, <1>4, <1>5 DEF Flow, Lists, Active, TypeOK

LEMMA OpenType ==
  ASSUME TypeInv, NEW t \in Threads,
         \/ GetModVersion(t) \/ GetLibVersion(t) \/ CheckKernelMod(t) \/ OpenStatus(t)
         \/ EvdiOpen(t) \/ GetStatus(t)
  PROVE  TypeOK' /\ Flow(t)'
<1>1. TypeOK /\ Flow(t) /\ World' = World
  BY DEF TypeInv, GetModVersion, GetLibVersion, CheckKernelMod, OpenStatus, EvdiOpen, GetStatus,
     World, world
<1>2. CASE GetModVersion(t)
  BY <1>1, <1>2, WorldType DEF GetModVersion, Return, Goto, TypeOK, Label, AfterLogs, OpenErrors,
     world, Flow, Lists, Active, ListLabels
<1>3. CASE GetLibVersion(t)
  BY <1>1, <1>3 DEF GetLibVersion, Goto, TypeOK, Label, world, local, Flow, Lists, Active, ListLabels
<1>4. CASE CheckKernelMod(t)
  BY <1>1, <1>4 DEF CheckKernelMod, Return, Goto, TypeOK, Label, AfterLogs, OpenErrors, world, Flow,
     Lists, Active, ListLabels
<1>5. CASE OpenStatus(t)
  BY <1>1, <1>5 DEF OpenStatus, Return, Goto, TypeOK, Label, Ffi, OpenErrors, world, Flow, Lists,
     Active, ListLabels
<1>6. CASE EvdiOpen(t)
  BY <1>1, <1>6 DEF EvdiOpen, Return, Goto, TypeOK, Label, OpenErrors, world, Flow, Lists, Active
<1>7. CASE GetStatus(t)
  <2>1. Status(target[t]) \in DeviceNodeStatus
    BY <1>1, <1>7, StatusType DEF GetStatus, Flow
  <2> QED
    BY <1>1, <1>7, <2>1 DEF GetStatus, Return, Goto, TypeOK, Label, world, Flow, Lists, Active
<1> QED
  BY <1>2, <1>3, <1>4, <1>5, <1>6, <1>7

LEMMA AddType ==
  ASSUME TypeInv, NEW t \in Threads, AddDevice(t) \/ RemoveAll(t)
  PROVE  TypeOK' /\ Flow(t)'
<1>1. TypeOK /\ Flow(t)
  BY DEF TypeInv
<1>2. PICK r \in {"Ok", "Err"} : Return(t, r)
  BY DEF AddDevice, RemoveAll
<1>3. UNCHANGED <<once, call, target, devices, available, version>>
  BY DEF AddDevice, RemoveAll
<1>4. /\ World' \in Worlds /\ changes' \in 0..MaxChanges
      /\ unread' \in [Threads -> SUBSET Ids] /\ during' \in [Threads -> SUBSET Worlds]
  <2>1. CASE UNCHANGED <<world, unread, during>>
    BY <1>1, <2>1 DEF TypeOK, World, world
  <2>2. CASE \E newNode \in [Ids -> {"absent", "foreign", "evdi"}] : Change(newNode, modVersion)
    BY <1>1, <2>2, ChangeType, WorldType
  <2> QED
    BY <1>1, <2>1, <2>2, WorldType DEF AddDevice, RemoveAll, NoEvdi
<1>5. TypeOK'
  BY <1>1, <1>2, <1>3, <1>4 DEF TypeOK, Return, Goto, Label
<1> QED
  BY <1>1, <1>2, <1>3, <1>5 DEF Flow, Lists, Active, Return, Goto, TypeOK

LEMMA TypeNext == TypeInv /\ [Next]_vars => TypeInv'
<1> SUFFICES ASSUME TypeInv, [Next]_vars PROVE TypeInv'
  OBVIOUS
<1>1. CASE UNCHANGED vars
  <2>1. World' = World /\ UNCHANGED <<changes, once, pc, call, target, unread, devices, available,
                                      version, result, during>>
    BY <1>1 DEF vars, world, local, World
  <2> QED
    BY <2>1 DEF TypeInv, TypeOK, Flow, Lists, Active
<1>2. ASSUME NEW t \in Threads, Continue(t) PROVE TypeInv'
  <2>1. TypeOK' /\ Flow(t)'
    BY <1>2, LogsType, ReadType, FilterType, SortType, OpenType, AddType DEF Continue
  <2> QED
    BY <1>2, <2>1, OthersFlow, FlowQuiet DEF TypeInv
<1> QED
  BY <1>1, <1>2, EnvironmentType, CallType DEF Next

\* Every variable of DeviceNode keeps its type; in particular the filter of
\* list_available never looks at a device of an empty list.
THEOREM DeviceTypeCorrect == Spec => []TypeOK
<1>1. TypeInv => TypeOK
  BY DEF TypeInv
<1> QED
  BY <1>1, TypeInit, TypeNext, PTL DEF Spec

-----------------------------------------------------------------------------
(* What list_available returns.                                            *)

\* What a call of list or get knows where it is.  The calls under way know the
\* present world, so a card that is steady is an evdi node now: the directory
\* has it, and its status is Available.
Found(t) ==
  /\ World \in during[t]
  /\ target[t] = NoId
  /\ \A n \in DOMAIN available[t] : available[t][n] \in Sighted(t)
  /\ pc[t] = "readDir" => devices[t] = <<>> /\ available[t] = <<>>
  /\ pc[t] = "reading" =>
       /\ available[t] = <<>>
       /\ \A i \in Steady(t) : /\ i \in unread[t] => Never(i, devices[t])
                               /\ i \notin unread[t] => Once(i, devices[t])
  /\ pc[t] \in {"listStatus", "evdi_check_device", "sort"} =>
       \A i \in Steady(t) : \/ Once(i, devices[t]) /\ Never(i, available[t])
                            \/ Never(i, devices[t]) /\ Once(i, available[t])
  /\ pc[t] = "sort" => devices[t] = <<>>

ListTold(t) ==
  Done(t, "list") /\ result[t] = "Ok" =>
    LET s == available[t] IN
    /\ \A m, n \in DOMAIN s : m < n => s[m] <= s[n]
    /\ \A n \in DOMAIN s : s[n] \in Sighted(t)
    /\ \A i \in Steady(t) : Once(i, s)

GetTold(t) ==
  Done(t, "get") =>
    /\ target[t] = NoId => result[t] = "Err" \/ Steady(t) = {}
    /\ target[t] # NoId => /\ target[t] \in Sighted(t)
                           /\ \A i \in Steady(t) : i <= target[t]

Listed(t) == (Lists(t) => Found(t)) /\ ListTold(t) /\ GetTold(t)

ListInv == \A t \in Threads : Listed(t)

\* What Listed looks at of one thread, but for the worlds of its call and what
\* it has still to read.
listVars(t) == <<pc[t], call[t], target[t], devices[t], available[t], result[t]>>

LEMMA ListQuiet ==
  ASSUME NEW t \in Threads, Listed(t), UNCHANGED <<node, modVersion>>,
         listVars(t)' = listVars(t), unread'[t] = unread[t], during'[t] = during[t]
  PROVE  Listed(t)'
<1>1. /\ pc'[t] = pc[t] /\ call'[t] = call[t] /\ target'[t] = target[t]
      /\ devices'[t] = devices[t] /\ available'[t] = available[t] /\ result'[t] = result[t]
      /\ World' = World
  BY DEF listVars, World
<1>2. Steady(t)' = Steady(t) /\ Sighted(t)' = Sighted(t)
  BY DEF Steady, Sighted
<1>3. Lists(t)' = Lists(t) /\ Done(t, "list")' = Done(t, "list") /\ Done(t, "get")' = Done(t, "get")
  BY <1>1 DEF Lists, Active, Done
<1>4. Found(t) => Found(t)'
  BY <1>1, <1>2 DEF Found
<1> QED
  BY <1>1, <1>2, <1>3, <1>4 DEF Listed, ListTold, GetTold

\* A change of the world: a call under way has one world more, so fewer cards
\* are steady and more have been sighted.  A card that is still steady was an
\* evdi node before the change and is one after it: no call reads it anew, and
\* none that has still to read it loses it.
LEMMA ListChange ==
  ASSUME TypeOK, NEW newNode \in [Ids -> {"absent", "foreign", "evdi"}],
         NEW newVersion \in Versions \cup {NoVersion}, Change(newNode, newVersion),
         NEW t \in Threads, Listed(t), listVars(t)' = listVars(t)
  PROVE  Listed(t)'
<1>1. /\ pc'[t] = pc[t] /\ call'[t] = call[t] /\ target'[t] = target[t]
      /\ devices'[t] = devices[t] /\ available'[t] = available[t] /\ result'[t] = result[t]
  BY DEF listVars
<1>2. /\ during'[t] = IF Active(t) /\ call[t] \in Observers THEN during[t] \cup {World'}
                      ELSE during[t]
      /\ node' = newNode
  BY DEF Change
<1>3. Lists(t)' = Lists(t) /\ Done(t, "list")' = Done(t, "list") /\ Done(t, "get")' = Done(t, "get")
  BY <1>1 DEF Lists, Active, Done
<1>4. CASE Lists(t)
  <2>1. during'[t] = during[t] \cup {World'} /\ World \in during[t] /\ Found(t)
    BY <1>2, <1>4 DEF Lists, Observers, Listed, Found
  <2>2. Sighted(t) \subseteq Sighted(t)' /\ Steady(t)' \subseteq Steady(t)
    BY <2>1 DEF Sighted, Steady
  <2>3. ASSUME NEW i \in Steady(t)' PROVE i \in unread'[t] <=> i \in unread[t]
    <3>1. i \in Ids /\ node[i] = "evdi" /\ newNode[i] = "evdi"
      <4>1. i \in Ids /\ \A w \in during'[t] : w.node[i] = "evdi"
        BY DEF Steady
      <4>2. World.node = node /\ World'.node = newNode
        BY <1>2 DEF World
      <4> QED
        BY <2>1, <4>1, <4>2
    <3> QED
      BY <3>1 DEF Change
  <2>4. Found(t)'
    BY <1>1, <2>1, <2>2, <2>3 DEF Found
  <2>5. ~Done(t, "list")' /\ ~Done(t, "get")'
    BY <1>3, <1>4 DEF Lists, Active, Done
  <2> QED
    BY <2>4, <2>5 DEF Listed, ListTold, GetTold
<1>5. CASE ~Lists(t)
  <2>1. Done(t, "list") \/ Done(t, "get") => during'[t] = during[t]
    BY <1>2 DEF Done, Active
  <2>2. Done(t, "list") \/ Done(t, "get") => Steady(t)' = Steady(t) /\ Sighted(t)' = Sighted(t)
    BY <2>1 DEF Steady, Sighted
  <2> QED
    BY <1>1, <1>3, <1>5, <2>2 DEF Listed, ListTold, GetTold
<1> QED
  BY <1>4, <1>5

LEMMA ListInit == Init => ListInv
BY DEF Init, ListInv, Listed, ListTold, GetTold, Lists, Active, Done

LEMMA ListEnvironment == ASSUME TypeInv, ListInv, Environment PROVE ListInv'
<1>1. TypeOK
  BY DEF TypeInv
<1>2. PICK newNode \in [Ids -> {"absent", "foreign", "evdi"}],
     newVersion \in Versions \cup {NoVersion} : Change(newNode, newVersion)
  BY <1>1, WorldType DEF Environment, Plug, Unplug, Load, Unload, NoEvdi
<1>3. \A t \in Threads : listVars(t)' = listVars(t)
  BY DEF Environment, listVars
<1> QED
  BY <1>1, <1>2, <1>3, ListChange DEF ListInv

LEMMA ListCallInv == ASSUME TypeInv, ListInv, NEW t \in Threads, Call(t) PROVE ListInv'
<1>1. PICK name \in Functions, i \in Ids \cup {NoId},
           label \in {"readDir", "open", "modFile", "openStatus", "add", "removeAll"} :
        /\ Begin(t, name, i, label)
        /\ name \in {"list", "get"} => label = "readDir" /\ i = NoId
  BY DEF Call, ListCall, OpenCall, CheckKernelModCall, StatusCall, AddCall, RemoveAllCall, Functions
<1>2. TypeOK /\ World' = World /\ UNCHANGED <<node, modVersion, unread>>
  BY <1>1 DEF TypeInv, Begin, world, World
<1>3. Listed(t)'
  <2>1. /\ pc'[t] = label /\ call'[t] = name /\ target'[t] = i
        /\ devices'[t] = <<>> /\ available'[t] = <<>>
        /\ name \in Observers => during'[t] = {World}
    BY <1>1, <1>2 DEF Begin, Goto, TypeOK
  <2>2. ~Done(t, "list")' /\ ~Done(t, "get")'
    BY <2>1 DEF Done
  <2>3. ASSUME Lists(t)' PROVE Found(t)'
    BY <1>1, <1>2, <2>1, <2>3 DEF Lists, Found, Observers
  <2> QED
    BY <2>2, <2>3 DEF Listed, ListTold, GetTold
<1>4. ASSUME NEW u \in Threads, u # t PROVE Listed(u)'
  <2>1. listVars(u)' = listVars(u) /\ unread'[u] = unread[u] /\ during'[u] = during[u]
    BY <1>1, <1>2, <1>4 DEF Begin, Goto, TypeOK, listVars
  <2> QED
    BY <1>2, <2>1, ListQuiet DEF ListInv
<1> QED
  BY <1>3, <1>4 DEF ListInv

\* A step of t: the others see at most a change of the world.
LEMMA ListOthers ==
  ASSUME TypeInv, ListInv, NEW t \in Threads, Continue(t), NEW u \in Threads, u # t
  PROVE  Listed(u)'
<1>1. TypeOK
  BY DEF TypeInv
<1>2. CASE EnsureLogsSetup(t)
  <2>1. /\ UNCHANGED <<node, modVersion>> /\ listVars(u)' = listVars(u)
        /\ unread'[u] = unread[u] /\ during'[u] = during[u]
    BY <1>1, <1>2 DEF EnsureLogsSetup, Goto, listVars, TypeOK, local, world
  <2> QED
    BY <2>1, ListQuiet DEF ListInv
<1>3. CASE ReadDir(t) \/ ReadEntry(t) \/ ReadEntryFails(t) \/ ReadEnd(t)
  <2>1. /\ UNCHANGED <<node, modVersion>> /\ listVars(u)' = listVars(u)
        /\ unread'[u] = unread[u] /\ during'[u] = during[u]
    BY <1>1, <1>3 DEF ReadDir, ReadEntry, ReadEntryFails, ReadEnd, Goto, Return, listVars, TypeOK,
       local, world
  <2> QED
    BY <2>1, ListQuiet DEF ListInv
<1>4. CASE FilterDevice(t) \/ Sort(t)
  <2>1. /\ UNCHANGED <<node, modVersion>> /\ listVars(u)' = listVars(u)
        /\ unread'[u] = unread[u] /\ during'[u] = during[u]
    BY <1>1, <1>4 DEF FilterDevice, Sort, Goto, Return, listVars, TypeOK, world
  <2> QED
    BY <2>1, ListQuiet DEF ListInv
<1>5. CASE GetModVersion(t) \/ GetLibVersion(t) \/ CheckKernelMod(t) \/ OpenStatus(t)
           \/ EvdiOpen(t) \/ GetStatus(t)
  <2>1. /\ UNCHANGED <<node, modVersion>> /\ listVars(u)' = listVars(u)
        /\ unread'[u] = unread[u] /\ during'[u] = during[u]
    BY <1>1, <1>5 DEF GetModVersion, GetLibVersion, CheckKernelMod, OpenStatus, EvdiOpen, GetStatus,
       Goto, Return, listVars, TypeOK, local, world
  <2> QED
    BY <2>1, ListQuiet DEF ListInv
<1>6. CASE AddDevice(t) \/ RemoveAll(t)
  <2>1. listVars(u)' = listVars(u)
    BY <1>1, <1>6 DEF AddDevice, RemoveAll, Goto, Return, listVars, TypeOK
  <2>2. CASE UNCHANGED <<world, unread, during>>
    BY <2>1, <2>2, ListQuiet DEF ListInv, world
  <2>3. CASE \E newNode \in [Ids -> {"absent", "foreign", "evdi"}] : Change(newNode, modVersion)
    BY <1>1, <2>1, <2>3, ListChange, WorldType DEF ListInv
  <2> QED
    BY <1>1, <1>6, <2>2, <2>3, WorldType DEF AddDevice, RemoveAll, NoEvdi
<1> QED
  BY <1>2, <1>3, <1>4, <1>5, <1>6 DEF Continue

\* The step of a list or a get is the only one that has to be looked at.
LEMMA ListStep ==
  ASSUME TypeInv, ListInv, NEW t \in Threads, Continue(t)
  PROVE  /\ UNCHANGED call
         /\ Lists(t) => /\ pc[t] \in ListLabels /\ Found(t)
                        /\ \/ EnsureLogsSetup(t) /\ pc[t] = "listStatus"
                           \/ ReadDir(t) \/ ReadEntry(t) \/ ReadEntryFails(t) \/ ReadEnd(t)
                           \/ FilterDevice(t) \/ Sort(t)
         /\ ~Lists(t) => call[t] \notin {"list", "get"}
<1>1. UNCHANGED call /\ Active(t)
  BY DEF Continue, EnsureLogsSetup, ReadDir, ReadEntry, ReadEntryFails, ReadEnd, FilterDevice, Sort,
     GetModVersion, GetLibVersion, CheckKernelMod, OpenStatus, EvdiOpen, GetStatus, AddDevice,
     RemoveAll, local, Active, AfterLogs
<1>2. Lists(t) => pc[t] \in ListLabels /\ Found(t)
  BY DEF TypeInv, Flow, ListInv, Listed
<1>3. ASSUME Lists(t)
      PROVE  \/ EnsureLogsSetup(t) /\ pc[t] = "listStatus"
             \/ ReadDir(t) \/ ReadEntry(t) \/ ReadEntryFails(t) \/ ReadEnd(t)
             \/ FilterDevice(t) \/ Sort(t)
  BY <1>2, <1>3 DEF Continue, EnsureLogsSetup, GetModVersion, GetLibVersion, CheckKernelMod,
     OpenStatus, EvdiOpen, GetStatus, AddDevice, RemoveAll, ListLabels, Lists, AfterLogs
<1> QED
  BY <1>1, <1>2, <1>3 DEF Lists

\* Nothing is known of a call that has failed, but that get returns None.
LEMMA ListFailed ==
  ASSUME NEW t, ~Lists(t)', target'[t] = NoId, result'[t] = "Err"
  PROVE  Listed(t)'
BY DEF Listed, ListTold, GetTold

\* The worlds of a call are the same after a step that is not a change.
LEMMA SameWorlds ==
  ASSUME NEW t, UNCHANGED <<node, modVersion, during>>
  PROVE  World' = World /\ Steady(t)' = Steady(t) /\ Sighted(t)' = Sighted(t)
BY DEF World, Steady, Sighted

LEMMA ListReads ==
  ASSUME TypeInv, NEW t \in Threads, Lists(t), Found(t),
         ReadDir(t) \/ ReadEntry(t) \/ ReadEntryFails(t) \/ ReadEnd(t)
  PROVE  Listed(t)'
<1>1. TypeOK /\ UNCHANGED <<node, modVersion, during, call, target>>
  BY DEF TypeInv, ReadDir, ReadEntry, ReadEntryFails, ReadEnd, world, local
<1>2. World' = World /\ Steady(t)' = Steady(t) /\ Sighted(t)' = Sighted(t)
  BY <1>1, SameWorlds
<1>3. target[t] = NoId /\ target'[t] = NoId
  BY <1>1 DEF Found
<1>4. CASE ReadDir(t)
  <2>1. CASE \A i \in Ids : node[i] = "absent"
    BY <1>1, <1>3, <1>4, <2>1, ListFailed DEF ReadDir, Return, Goto, TypeOK, Lists, Active
  <2>2. CASE ~\A i \in Ids : node[i] = "absent"
    <3>1. /\ pc'[t] = "reading" /\ unread'[t] = {i \in Ids : node[i] # "absent"}
          /\ devices'[t] = <<>> /\ available'[t] = <<>>
      BY <1>1, <1>4, <2>2 DEF ReadDir, Goto, TypeOK, Found
    <3>2. ASSUME NEW i \in Steady(t) PROVE i \in unread'[t] /\ Never(i, devices'[t])
      <4>1. i \in Ids /\ node[i] = "evdi"
        BY DEF Steady, Found, World
      <4> QED
        BY <3>1, <4>1 DEF Never
    <3>3. Found(t)'
      BY <1>1, <1>2, <1>3, <3>1, <3>2 DEF Found
    <3> QED
      BY <3>1, <3>3 DEF Listed, ListTold, GetTold, Done
  <2> QED
    BY <2>1, <2>2
<1>5. CASE ReadEntry(t)
  <2>1. PICK i \in unread[t] :
          /\ unread' = [unread EXCEPT ![t] = @ \ {i}]
          /\ devices' = [devices EXCEPT ![t] = Append(@, i)]
    BY <1>5 DEF ReadEntry
  <2>2. /\ pc[t] = "reading" /\ UNCHANGED <<pc, available>>
        /\ unread'[t] = unread[t] \ {i} /\ devices'[t] = Append(devices[t], i)
    BY <1>1, <1>5, <2>1 DEF ReadEntry, TypeOK
  <2>3. devices[t] \in Seq(Ids) /\ i \in Ids
    BY <1>1, <2>1 DEF TypeOK
  <2>4. ASSUME NEW k \in Steady(t)
        PROVE  /\ k \in unread'[t] => Never(k, devices'[t])
               /\ k \notin unread'[t] => Once(k, devices'[t])
    <3>1. k \in Ids
      BY DEF Steady
    <3>2. /\ k \in unread[t] => Never(k, devices[t])
          /\ k \notin unread[t] => Once(k, devices[t])
      BY <2>2 DEF Found
    <3>3. /\ i = k /\ Never(k, devices[t]) => Once(k, devices'[t])
          /\ i # k => /\ Once(k, devices[t]) => Once(k, devices'[t])
                      /\ Never(k, devices[t]) => Never(k, devices'[t])
      BY <2>2, <2>3, <3>1, AppendEntries
    <3> QED
      BY <2>1, <2>2, <3>2, <3>3
  <2>5. Found(t)'
    BY <1>1, <1>2, <1>3, <2>2, <2>4 DEF Found
  <2> QED
    BY <2>2, <2>5 DEF Listed, ListTold, GetTold, Done
<1>6. CASE ReadEntryFails(t)
  BY <1>1, <1>3, <1>6, ListFailed DEF ReadEntryFails, Return, Goto, TypeOK, Lists, Active
<1>7. CASE ReadEnd(t)
  <2>1. /\ pc[t] = "reading" /\ unread[t] = {} /\ UNCHANGED <<devices, available>>
        /\ pc'[t] = Filter(devices[t])
    BY <1>1, <1>7 DEF ReadEnd, Goto, TypeOK, local
  <2>2. available[t] = <<>> /\ \A i \in Steady(t) : Once(i, devices[t]) /\ Never(i, available[t])
    BY <2>1 DEF Found, Never
  <2>3. Found(t)'
    BY <1>1, <1>2, <1>3, <2>1, <2>2, FilterFacts DEF Found
  <2> QED
    BY <2>1, <2>3, FilterFacts DEF Listed, ListTold, GetTold, Done
<1> QED
  BY <1>4, <1>5, <1>6, <1>7

\* The filter takes one device and keeps it if its status is Available, as that
\* of a steady card is, and as only that of a card in sight is.
LEMMA ListFilter ==
  ASSUME TypeInv, NEW t \in Threads, Lists(t), Found(t), FilterDevice(t)
  PROVE  Listed(t)'
<1> DEFINE d == devices[t]
           a == available[t]
           i == Head(d)
<1>1. /\ TypeOK /\ pc[t] = "evdi_check_device"
      /\ UNCHANGED <<node, modVersion, during, call, target>>
      /\ pc'[t] = Filter(Tail(d)) /\ devices'[t] = Tail(d)
      /\ available'[t] = IF Status(i) = "Available" THEN Append(a, i) ELSE a
  BY DEF TypeInv, FilterDevice, TypeOK, Goto, world
<1>2. World' = World /\ Steady(t)' = Steady(t) /\ Sighted(t)' = Sighted(t)
  BY <1>1, SameWorlds
<1>3. d \in Seq(Ids) /\ d # <<>> /\ a \in Seq(Ids)
  BY <1>1 DEF TypeInv, Flow, FilterDevice, TypeOK
<1>4. i \in Ids
  BY <1>3
<1>5. World \in during[t] /\ World.node = node
  BY DEF Found, World
<1> HIDE DEF i
<1>6. Status(i) = "Available" => i \in Sighted(t)
  BY <1>1, <1>4, <1>5, StatusType DEF Sighted
<1>7. i \in Steady(t) => Status(i) = "Available"
  BY <1>1, <1>4, <1>5, StatusType DEF Steady
<1>8. \A n \in DOMAIN available'[t] : available'[t][n] \in Sighted(t)
  <2>1. CASE Status(i) = "Available"
    <3>1. available'[t] = Append(a, i)
      BY <1>1, <2>1 DEF i
    <3>2. ASSUME NEW n \in DOMAIN Append(a, i) PROVE Append(a, i)[n] \in Sighted(t)
      <4>1. Append(a, i)[n] = i \/ (n \in DOMAIN a /\ Append(a, i)[n] = a[n])
        BY <1>3, <1>4, AppendEntries
      <4> QED
        BY <1>6, <2>1, <4>1 DEF Found
    <3> QED
      BY <3>1, <3>2
  <2>2. CASE Status(i) # "Available"
    BY <1>1, <2>2 DEF Found, i
  <2> QED
    BY <2>1, <2>2
<1>9. ASSUME NEW k \in Steady(t)
      PROVE  \/ Once(k, devices'[t]) /\ Never(k, available'[t])
             \/ Never(k, devices'[t]) /\ Once(k, available'[t])
  <2>1. k \in Ids
    BY DEF Steady
  <2>2. \/ Once(k, d) /\ Never(k, a)
        \/ Never(k, d) /\ Once(k, a)
    BY <1>1 DEF Found
  <2>3. /\ i = k /\ Once(k, d) => Never(k, Tail(d))
        /\ i # k /\ Once(k, d) => Once(k, Tail(d))
        /\ Never(k, d) => Never(k, Tail(d)) /\ i # k
    BY <1>3, <2>1, TailEntries DEF i
  <2>4. /\ i = k /\ Never(k, a) => Once(k, Append(a, i))
        /\ i # k => /\ Once(k, a) => Once(k, Append(a, i))
                    /\ Never(k, a) => Never(k, Append(a, i))
    BY <1>3, <1>4, <2>1, AppendEntries
  <2>5. available'[t] = IF Status(i) = "Available" THEN Append(a, i) ELSE a
    BY <1>1 DEF i
  <2>6. CASE i = k
    BY <1>1, <1>7, <2>2, <2>3, <2>4, <2>5, <2>6
  <2>7. CASE i # k
    BY <1>1, <2>2, <2>3, <2>4, <2>5, <2>7
  <2> QED
    BY <2>6, <2>7
<1>10. Found(t)'
  <2>1. target'[t] = NoId /\ (pc'[t] = "sort" => devices'[t] = <<>>)
    BY <1>1, FilterFacts DEF Found
  <2>2. pc'[t] \in {"sort", "listStatus"}
    BY <1>1, FilterFacts
  <2> QED
    BY <1>1, <1>2, <1>5, <1>8, <1>9, <2>1, <2>2 DEF Found
<1> QED
  BY <1>1, <1>10, FilterFacts DEF Listed, ListTold, GetTold, Done

\* The end of the list, and of a get, which takes the last of it.
LEMMA ListSort ==
  ASSUME TypeInv, NEW t \in Threads, Lists(t), Found(t), Sort(t)
  PROVE  Listed(t)'
<1> DEFINE a == available[t]
           s == Sorted(a)
<1>1. /\ TypeOK /\ pc[t] = "sort" /\ devices[t] = <<>> /\ target[t] = NoId
      /\ UNCHANGED <<node, modVersion, during, call>>
      /\ pc'[t] = "done" /\ available'[t] = s
      /\ target'[t] = IF call[t] = "get" /\ s # <<>> THEN s[Len(s)] ELSE NoId
  BY DEF TypeInv, Sort, TypeOK, Return, Goto, world, Found
<1>2. Steady(t)' = Steady(t) /\ Sighted(t)' = Sighted(t)
  BY <1>1, SameWorlds
<1>3. Ids \in SUBSET Nat /\ NoId \notin Ids /\ a \in Seq(Ids)
  BY <1>1, DeviceNodeAssumption DEF TypeOK, DeviceNodeAssumption
<1>4. /\ s \in Seq(Ids)
      /\ \A m, n \in DOMAIN s : m < n => s[m] <= s[n]
      /\ \A n \in DOMAIN s : \E m \in DOMAIN a : s[n] = a[m]
      /\ \A i : Once(i, a) => Once(i, s)
  BY <1>3, SortedEntries
<1> HIDE DEF s
<1>5. \A n \in DOMAIN s : s[n] \in Sighted(t)
  BY <1>4 DEF Found
<1>6. \A i \in Steady(t) : Once(i, s)
  <2>1. \A i \in Steady(t) : Once(i, a)
    BY <1>1 DEF Found, Once
  <2> QED
    BY <1>4, <2>1
<1>7. ListTold(t)'
  BY <1>1, <1>2, <1>4, <1>5, <1>6 DEF ListTold
<1>8. GetTold(t)'
  <2> SUFFICES ASSUME call[t] = "get"
               PROVE  /\ target'[t] = NoId => Steady(t) = {}
                      /\ target'[t] # NoId => /\ target'[t] \in Sighted(t)
                                              /\ \A i \in Steady(t) : i <= target'[t]
    BY <1>1, <1>2 DEF GetTold, Done
  <2>1. CASE s = <<>>
    BY <1>1, <1>6, <2>1 DEF Once
  <2>2. CASE s # <<>>
    <3>1. Len(s) \in DOMAIN s /\ s[Len(s)] \in Ids /\ DOMAIN s = 1..Len(s) /\ Len(s) \in Nat
      BY <1>4, <2>2
    <3>2. target'[t] = s[Len(s)]
      BY <1>1, <2>2
    <3>3. ASSUME NEW i \in Steady(t) PROVE i <= s[Len(s)]
      <4>1. PICK n \in DOMAIN s : s[n] = i
        BY <1>6 DEF Once
      <4>2. n = Len(s) \/ n < Len(s)
        BY <3>1, <4>1
      <4>3. s[n] \in Nat
        <5>1. s[n] \in Ids
          BY <1>4, <4>1
        <5> QED
          BY <1>3, <5>1
      <4> QED
        BY <1>4, <3>1, <4>1, <4>2, <4>3
    <3> QED
      BY <1>3, <1>5, <3>1, <3>2, <3>3
  <2> QED
    BY <2>1, <2>2
<1>9. ~Lists(t)'
  BY <1>1 DEF Lists, Active
<1> QED
  BY <1>7, <1>8, <1>9 DEF Listed

LEMMA ListContinue == ASSUME TypeInv, ListInv, NEW t \in Threads, Continue(t) PROVE ListInv'
<1>1. CASE ~Lists(t)
  <2>1. call'[t] \notin {"list", "get"}
    BY <1>1, ListStep
  <2> QED
    BY <2>1, ListOthers DEF ListInv, Listed, Lists, ListTold, GetTold, Done
<1>2. CASE Lists(t)
  <2>1. CASE EnsureLogsSetup(t) /\ pc[t] = "listStatus"
    <3>1. /\ TypeOK /\ pc'[t] \in {"listStatus", "evdi_check_device"}
          /\ UNCHANGED <<node, modVersion, during, call, target, devices, available>>
      BY <2>1 DEF TypeInv, EnsureLogsSetup, Goto, AfterLogs, TypeOK, world, local
    <3>2. World' = World /\ Steady(t)' = Steady(t) /\ Sighted(t)' = Sighted(t)
      BY <3>1, SameWorlds
    <3>3. Found(t)
      BY <1>2, ListStep
    <3>4. Found(t)'
      BY <2>1, <3>1, <3>2, <3>3 DEF Found
    <3>5. Listed(t)'
      BY <3>1, <3>4 DEF Listed, ListTold, GetTold, Done
    <3> QED
      BY <3>5, ListOthers DEF ListInv
  <2>2. CASE ~(EnsureLogsSetup(t) /\ pc[t] = "listStatus")
    <3>1. Listed(t)'
      BY <1>2, <2>2, ListStep, ListReads, ListFilter, ListSort
    <3> QED
      BY <3>1, ListOthers DEF ListInv
  <2> QED
    BY <2>1, <2>2
<1> QED
  BY <1>1, <1>2

LEMMA ListNext == TypeInv /\ ListInv /\ [Next]_vars => ListInv'
<1> SUFFICES ASSUME TypeInv, ListInv, [Next]_vars PROVE ListInv'
  OBVIOUS
<1>1. CASE UNCHANGED vars
  <2>1. \A t \in Threads : /\ UNCHANGED <<node, modVersion>> /\ listVars(t)' = listVars(t)
                           /\ unread'[t] = unread[t] /\ during'[t] = during[t]
    BY <1>1 DEF vars, world, local, listVars
  <2> QED
    BY <2>1, ListQuiet DEF ListInv
<1> QED
  BY <1>1, ListEnvironment, ListCallInv, ListContinue DEF Next

\* list_available, while nodes come and go: in order, every node that was
\* available all through the call exactly once, and no card that never was.
THEOREM ListCorrect == Spec => []ListFaithful
<1>1. ListInv => ListFaithful
  BY DEF ListInv, Listed, ListTold, ListFaithful, Once
<1> QED
  BY <1>1, ListInit, ListNext, TypeInit, TypeNext, PTL DEF Spec

\* get, while nodes come and go: None only if the list failed or no node was
\* available all through the call, and otherwise none below an available one.
THEOREM GetCorrect == Spec => []GetFaithful
<1>1. ListInv => GetFaithful
  BY DEF ListInv, Listed, GetTold, GetFaithful
<1> QED
  BY <1>1, ListInit, ListNext, TypeInit, TypeNext, PTL DEF Spec
=============================================================================
