--------------------------- MODULE LifecycleProofs ---------------------------
(***************************************************************************)
(* Those who start and stop the rest tell the truth.  The manager: what it *)
(* says of its pipelines, and a StartAll that fails is undone, for any set *)
(* of names.  The system: what a process may rely on of InitializeSystem   *)
(* and ShutdownSystem, for any threads, devices and sets of modules, on    *)
(* either platform.                                                        *)
(***************************************************************************)
EXTENDS PipelineManager, AxSystem, TLAPS

-----------------------------------------------------------------------------
(* PipelineManager.                                                        *)

(***************************************************************************)
(* The inductive invariant.  ManagerTruthful speaks of the end of a        *)
(* StartAll only; UnderWay is what holds in the middle of one: what this   *)
(* call has started is flagged and did not run before, and, unless the     *)
(* application interferes, nothing else has changed.                       *)
(***************************************************************************)
UnderWay ==
  /\ startAll \in {"idle", "on"}
  /\ startAll = "idle" => left = {} /\ started_entries = {}
  /\ startAll = "on" => outcome = "none"
  /\ left \subseteq pipelines
  /\ started_entries \subseteq flags
  /\ startAll = "on" /\ ~meanwhile =>
       alive = before \cup started_entries /\ before \cap started_entries = {}

ManagerInv == ManagerTruthful /\ UnderWay

(* The calls about all pipelines.                                          *)
LEMMA ManagerInvAll ==
  ASSUME ManagerInv, StopAll \/ Clear \/ StartAllBegins \/ StartAllDone
  PROVE  ManagerInv'
<1> USE DEF ManagerInv, ManagerTruthful, FlagsAgree, StartAllUndone, UnderWay, startAllVars, Free
<1>1. CASE StopAll
  BY <1>1 DEF StopAll, StopEntries
<1>2. CASE Clear
  BY <1>2 DEF Clear, RemovePipelines, CloseEntries
<1>3. CASE StartAllBegins
  BY <1>3 DEF StartAllBegins
<1>4. CASE StartAllDone
  BY <1>4 DEF StartAllDone
<1> QED
  BY <1>1, <1>2, <1>3, <1>4

(* The calls about one pipeline.                                           *)
LEMMA ManagerInvOne ==
  ASSUME ManagerInv, NEW n \in Names,
         AddPipeline(n) \/ RemovePipeline(n) \/ StartPipeline(n) \/ StopPipeline(n)
  PROVE  ManagerInv'
<1> USE DEF ManagerInv, ManagerTruthful, FlagsAgree, StartAllUndone, UnderWay, startAllVars, Free
<1>1. CASE AddPipeline(n)
  BY <1>1 DEF AddPipeline
<1>2. CASE RemovePipeline(n)
  BY <1>2 DEF RemovePipeline, RemovePipelines, CloseEntries
<1>3. CASE StartPipeline(n)
  BY <1>3 DEF StartPipeline
<1>4. CASE StopPipeline(n)
  BY <1>4 DEF StopPipeline, StopEntries
<1> QED
  BY <1>1, <1>2, <1>3, <1>4

(* The steps of a StartAll.                                                *)
LEMMA ManagerInvStartAll ==
  ASSUME ManagerInv, NEW n \in Names, StartAllSkips(n) \/ StartAllStarts(n) \/ StartAllFails(n)
  PROVE  ManagerInv'
<1> USE DEF ManagerInv, ManagerTruthful, FlagsAgree, StartAllUndone, UnderWay
<1>1. CASE StartAllSkips(n)
  BY <1>1 DEF StartAllSkips
<1>2. CASE StartAllStarts(n)
  <2>1. startAll = "on" /\ n \in pipelines /\ n \notin alive
    BY <1>2 DEF StartAllStarts
  <2>2. FlagsAgree'
    BY <1>2, <2>1 DEF StartAllStarts
  <2>3. StartAllUndone' /\ UnderWay'
    BY <1>2, <2>1 DEF StartAllStarts
  <2> QED
    BY <2>2, <2>3
<1>3. CASE StartAllFails(n)
  <2>1. startAll = "on"
    BY <1>3 DEF StartAllFails
  <2>2. FlagsAgree'
    BY <1>3 DEF StartAllFails, RollBack
  <2>3. ~meanwhile => alive' = before
    BY <1>3, <2>1 DEF StartAllFails, RollBack
  <2>4. StartAllUndone'
    BY <1>3, <2>3 DEF StartAllFails
  <2>5. UnderWay'
    BY <1>3 DEF StartAllFails, RollBack
  <2> QED
    BY <2>2, <2>4, <2>5
<1> QED
  BY <1>1, <1>2, <1>3

(* The application with a pipeline of its own.                             *)
LEMMA ManagerInvDirect ==
  ASSUME ManagerInv, NEW n \in Names, DirectStart(n) \/ DirectStop(n)
  PROVE  ManagerInv'
BY DEF ManagerInv, ManagerTruthful, FlagsAgree, StartAllUndone, UnderWay, DirectStart, DirectStop, startAllVars

(* In every reachable state the flag of a pipeline that only the manager   *)
(* starts and stops says whether it runs, no pipeline outlives its entry,  *)
(* and a StartAll that failed has left running exactly what ran before.    *)
THEOREM ManagerSaysTruth == ManagerSpec => []ManagerTruthful
<1>1. ManagerInit => ManagerInv
  BY DEF ManagerInit, ManagerInv, ManagerTruthful, FlagsAgree, StartAllUndone, UnderWay
<1>2. ManagerInv /\ [ManagerNext]_managerVars => ManagerInv'
  <2> SUFFICES ASSUME ManagerInv, [ManagerNext]_managerVars
               PROVE  ManagerInv'
    OBVIOUS
  <2>1. CASE StopAll \/ Clear \/ StartAllBegins \/ StartAllDone
    BY <2>1, ManagerInvAll
  <2>2. ASSUME NEW n \in Names,
               AddPipeline(n) \/ RemovePipeline(n) \/ StartPipeline(n) \/ StopPipeline(n)
        PROVE  ManagerInv'
    BY <2>2, ManagerInvOne
  <2>3. ASSUME NEW n \in Names, StartAllSkips(n) \/ StartAllStarts(n) \/ StartAllFails(n)
        PROVE  ManagerInv'
    BY <2>3, ManagerInvStartAll
  <2>4. ASSUME NEW n \in Names, DirectStart(n) \/ DirectStop(n)
        PROVE  ManagerInv'
    BY <2>4, ManagerInvDirect
  <2>5. CASE UNCHANGED managerVars
    BY <2>5 DEF managerVars, ManagerInv, ManagerTruthful, FlagsAgree, StartAllUndone, UnderWay
  <2> QED
    BY <2>1, <2>2, <2>3, <2>4, <2>5 DEF ManagerNext
<1> QED
  BY <1>1, <1>2, PTL DEF ManagerSpec, ManagerInv

-----------------------------------------------------------------------------
(* AxSystem.                                                               *)

(***************************************************************************)
(* The inductive invariant.                                                *)
(***************************************************************************)
Modules == {"sys", "vdec", "venc", "ivps"}

SystemTypes ==
  /\ ref_count \in Nat
  /\ DOMAIN devices \subseteq DeviceIds
  /\ context \in [Threads -> DeviceIds \cup {-1}]
  /\ stale \subseteq Threads
  /\ hardware \in [DeviceIds -> SUBSET Modules]
  /\ granted \in [DeviceIds -> SUBSET Modules]
  /\ disturbed \in BOOLEAN

(* The modules a device's entry names are those the driver has.            *)
EntriesTrue == \A d \in DeviceIds : hardware[d] = DeviceModules(d)

(* Before the first InitializeSystem and after the last ShutdownSystem.    *)
Unused ==
  ref_count = 0 =>
    /\ \A d \in DeviceIds : hardware[d] = {} /\ granted[d] = {}
    /\ \A u \in Threads : context[u] = -1
    /\ ~disturbed

(* A context is on a device a successful call has initialised, so a call   *)
(* that resets a device nobody holds ends no context.                      *)
ContextsHeld ==
  /\ \A u \in Threads : context[u] # -1 => granted[context[u]] # {}
  /\ \A u \in stale : context[u] # -1

Held ==
  ~disturbed =>
    /\ \A d \in DeviceIds : granted[d] \subseteq hardware[d]
    /\ stale = {}

SystemInv == SystemTypes /\ EntriesTrue /\ Unused /\ ContextsHeld /\ Held

LEMMA InvImpliesTruthful == SystemInv => SystemTruthful
BY DEF SystemInv, SystemTypes, EntriesTrue, Unused, Held, SystemTruthful, HoldersServed, NothingLeftBehind

-----------------------------------------------------------------------------
(* What KeepDevice and ForgetDevice leave in the map of devices.           *)

LEMMA NothingKnown == DOMAIN <<>> = {}
OBVIOUS

LEMMA KeepDeviceModules ==
  ASSUME NEW d \in DeviceIds, NEW modules, DOMAIN devices \subseteq DeviceIds, KeepDevice(d, modules)
  PROVE  /\ DOMAIN devices' \subseteq DeviceIds
         /\ \A e \in DeviceIds : DeviceModules(e)' = IF e = d THEN modules ELSE DeviceModules(e)
<1>1. DOMAIN devices' = DOMAIN devices \cup {d}
  BY DEF KeepDevice
<1>2. devices'[d] = modules
  BY DEF KeepDevice
<1>3. ASSUME NEW e \in DOMAIN devices, e # d
      PROVE  devices'[e] = devices[e]
  BY <1>3 DEF KeepDevice
<1> QED
  BY <1>1, <1>2, <1>3 DEF DeviceModules

LEMMA ForgetDeviceModules ==
  ASSUME NEW d \in DeviceIds, DOMAIN devices \subseteq DeviceIds,
         devices' = [e \in DOMAIN devices \ {d} |-> devices[e]]
  PROVE  /\ DOMAIN devices' \subseteq DeviceIds
         /\ \A e \in DeviceIds : DeviceModules(e)' = IF e = d THEN {} ELSE DeviceModules(e)
BY DEF DeviceModules

LEMMA MissingModules ==
  ASSUME SystemInv, NEW d \in DeviceIds, NEW want \in Wants
  PROVE  /\ want \subseteq Modules
         /\ Missing(d, want) \subseteq Modules
         /\ Missing(d, want) \cap DeviceModules(d) = {}
         /\ {"sys"} \cup want \subseteq DeviceModules(d) \cup Missing(d, want)
BY SystemAssumption DEF SystemAssumption, Missing, Modules

(* A context bound on a device that is held keeps the invariant's parts    *)
(* about contexts, as long as what is granted only grows.                  *)
LEMMA TakeContextInv ==
  ASSUME SystemInv, NEW t \in Threads, NEW d \in DeviceIds, TakeContext(t, d),
         granted' \in [DeviceIds -> SUBSET Modules], granted'[d] # {},
         \A e \in DeviceIds : granted[e] \subseteq granted'[e]
  PROVE  /\ context' \in [Threads -> DeviceIds \cup {-1}]
         /\ stale' \subseteq stale
         /\ ContextsHeld'
<1> USE DEF SystemInv, SystemTypes, ContextsHeld
<1>1. context' \in [Threads -> DeviceIds \cup {-1}]
  BY DEF TakeContext
<1>2. stale' \subseteq stale
  BY DEF TakeContext
<1>3. d # -1
  BY SystemAssumption DEF SystemAssumption
<1>4. ASSUME NEW u \in Threads, context'[u] # -1
      PROVE  granted'[context'[u]] # {}
  BY <1>4 DEF TakeContext
<1>5. ASSUME NEW u \in stale'
      PROVE  context'[u] # -1
  BY <1>2, <1>3, <1>5 DEF TakeContext
<1> QED
  BY <1>1, <1>2, <1>4, <1>5

(* A context given up, and those that end with reset devices.              *)
LEMMA DropContextInv ==
  ASSUME SystemInv, NEW t \in Threads, NEW reset \in SUBSET DeviceIds, DropContext(t, reset)
  PROVE  /\ context' \in [Threads -> DeviceIds \cup {-1}]
         /\ stale' \subseteq Threads
         /\ \A u \in Threads : context'[u] # -1 => context'[u] = context[u]
         /\ \A u \in stale' : context'[u] # -1
         /\ ref_count = 0 => \A u \in Threads : context'[u] = -1
         /\ \A u \in stale' \ stale : u \in Threads /\ context[u] \in reset
<1> USE DEF SystemInv, SystemTypes, ContextsHeld, Unused
<1>1. -1 \notin reset
  BY SystemAssumption DEF SystemAssumption
<1> QED
  BY <1>1 DEF DropContext

-----------------------------------------------------------------------------
(* The steps.                                                              *)

LEMMA InitializeInv ==
  ASSUME SystemInv, NEW t \in Threads, NEW d \in DeviceIds, NEW want \in Wants, Initialize(t, d, want)
  PROVE  SystemInv'
<1> DEFINE new == Missing(d, want)
<1> USE DEF SystemInv, SystemTypes
<1>1. /\ want \subseteq Modules /\ new \subseteq Modules
      /\ {"sys"} \cup want \subseteq DeviceModules(d) \cup new
  BY MissingModules
<1>2. /\ KeepDevice(d, DeviceModules(d) \cup new)
      /\ ref_count' = ref_count + 1
      /\ hardware' = [hardware EXCEPT ![d] = @ \cup new]
      /\ granted' = [granted EXCEPT ![d] = @ \cup {"sys"} \cup want]
      /\ disturbed' = disturbed
      /\ TakeContext(t, d) \/ UNCHANGED <<context, stale>>
  BY DEF Initialize
<1>3. /\ granted' \in [DeviceIds -> SUBSET Modules] /\ granted'[d] # {}
      /\ \A e \in DeviceIds : granted[e] \subseteq granted'[e]
  BY <1>1, <1>2 DEF Modules
<1>4. /\ context' \in [Threads -> DeviceIds \cup {-1}]
      /\ stale' \subseteq stale
      /\ ContextsHeld'
  <2>1. CASE TakeContext(t, d)
    BY <1>3, <2>1, TakeContextInv
  <2>2. CASE UNCHANGED <<context, stale>>
    BY <1>3, <2>2 DEF ContextsHeld
  <2> QED
    BY <1>2, <2>1, <2>2
<1>5. SystemTypes'
  BY <1>1, <1>2, <1>3, <1>4, KeepDeviceModules
<1>6. EntriesTrue'
  <2>1. \A e \in DeviceIds : DeviceModules(e)' = IF e = d THEN DeviceModules(d) \cup new ELSE DeviceModules(e)
    BY <1>2, KeepDeviceModules
  <2> QED
    BY <1>2, <2>1 DEF EntriesTrue
<1>7. Unused'
  BY <1>2 DEF Unused
<1>8. Held'
  BY <1>1, <1>2, <1>4 DEF Held, EntriesTrue
<1> QED
  BY <1>4, <1>5, <1>6, <1>7, <1>8

(* A failed call on AXCL: if nobody holds the device, no context was on it.*)
LEMMA ForgetDeviceInv ==
  ASSUME SystemInv, NEW t \in Threads, NEW d \in DeviceIds, ForgetDevice(t, d),
         UNCHANGED <<ref_count, granted>>
  PROVE  SystemInv'
<1> USE DEF SystemInv, SystemTypes
<1>1. /\ devices' = [e \in DOMAIN devices \ {d} |-> devices[e]]
      /\ hardware' = [hardware EXCEPT ![d] = {}]
      /\ DropContext(t, {d})
      /\ disturbed' = (disturbed \/ granted[d] # {})
  BY DEF ForgetDevice
<1>2. /\ context' \in [Threads -> DeviceIds \cup {-1}]
      /\ stale' \subseteq Threads
      /\ \A u \in Threads : context'[u] # -1 => context'[u] = context[u]
      /\ \A u \in stale' : context'[u] # -1
      /\ ref_count = 0 => \A u \in Threads : context'[u] = -1
      /\ \A u \in stale' \ stale : u \in Threads /\ context[u] = d
  <2>1. {d} \in SUBSET DeviceIds
    OBVIOUS
  <2> QED
    BY <1>1, <2>1, DropContextInv
<1>3. disturbed' \in BOOLEAN
  <2>1. (disturbed \/ granted[d] # {}) \in BOOLEAN
    OBVIOUS
  <2> QED
    BY <1>1, <2>1
<1>4. SystemTypes'
  BY <1>1, <1>2, <1>3, ForgetDeviceModules
<1>5. EntriesTrue'
  BY <1>1, ForgetDeviceModules DEF EntriesTrue
<1>6. Unused'
  BY <1>1, <1>2 DEF Unused
<1>7. ContextsHeld'
  BY <1>2 DEF ContextsHeld
<1>8. Held'
  <2> SUFFICES ASSUME ~disturbed'
               PROVE  /\ \A e \in DeviceIds : granted'[e] \subseteq hardware'[e]
                      /\ stale' = {}
    BY DEF Held
  <2>1. ~disturbed /\ granted[d] = {}
    BY <1>1
  <2>2. \A e \in DeviceIds : granted'[e] \subseteq hardware'[e]
    BY <1>1, <2>1 DEF Held
  <2>3. stale' = {}
    <3>1. \A u \in Threads : context[u] # d
      BY <2>1, SystemAssumption DEF ContextsHeld, SystemAssumption
    <3> QED
      BY <1>2, <2>1, <3>1 DEF Held
  <2> QED
    BY <2>2, <2>3
<1> QED
  BY <1>4, <1>5, <1>6, <1>7, <1>8

(* A failed call on the MSP: what it takes back is what it has initialised,*)
(* none of which the device had before.                                    *)
LEMMA RollBackInv ==
  ASSUME SystemInv, NEW d \in DeviceIds, NEW done, done \cap DeviceModules(d) = {},
         RollBackModules(d, done), UNCHANGED <<ref_count, granted, context, stale, disturbed>>
  PROVE  SystemInv'
<1> USE DEF SystemInv, SystemTypes
<1>1. hardware' = hardware
  BY DEF RollBackModules, EntriesTrue
<1>2. /\ DOMAIN devices' \subseteq DeviceIds
      /\ \A e \in DeviceIds : DeviceModules(e)' = DeviceModules(e)
  <2>1. KeepDevice(d, DeviceModules(d))
    <3>1. (DeviceModules(d) \cup done) \ done = DeviceModules(d)
      OBVIOUS
    <3> QED
      BY <3>1 DEF RollBackModules
  <2> QED
    BY <2>1, KeepDeviceModules
<1> QED
  BY <1>1, <1>2 DEF EntriesTrue, Unused, ContextsHeld, Held

LEMMA InitializeFailsInv ==
  ASSUME SystemInv, NEW t \in Threads, NEW d \in DeviceIds,
         \/ SetDeviceFails(d) \/ InitializeFailsToBind(t, d)
         \/ \E want \in Wants : InitializeFails(t, d, want)
  PROVE  SystemInv'
<1>1. CASE SetDeviceFails(d)
  <2>1. /\ DOMAIN devices' \subseteq DeviceIds
        /\ \A e \in DeviceIds : DeviceModules(e)' = DeviceModules(e)
    BY <1>1, KeepDeviceModules DEF SetDeviceFails, SystemInv, SystemTypes
  <2> QED
    BY <1>1, <2>1 DEF SetDeviceFails, SystemInv, SystemTypes, EntriesTrue, Unused, ContextsHeld, Held
<1>2. CASE InitializeFailsToBind(t, d)
  BY <1>2, ForgetDeviceInv DEF InitializeFailsToBind
<1>3. ASSUME NEW want \in Wants, InitializeFails(t, d, want)
      PROVE  SystemInv'
  <2>1. CASE ForgetDevice(t, d)
    BY <1>3, <2>1, ForgetDeviceInv DEF InitializeFails
  <2>2. CASE ~ForgetDevice(t, d)
    <3>1. PICK m \in Missing(d, want) :
            /\ RollBackModules(d, Missing(d, want) \cap Earlier(m))
            /\ UNCHANGED <<context, stale, disturbed>>
      BY <1>3, <2>2 DEF InitializeFails
    <3>2. (Missing(d, want) \cap Earlier(m)) \cap DeviceModules(d) = {}
      BY MissingModules
    <3>3. UNCHANGED <<ref_count, granted>>
      BY <1>3 DEF InitializeFails
    <3> QED
      BY <3>1, <3>2, <3>3, RollBackInv
  <2> QED
    BY <2>1, <2>2
<1> QED
  BY <1>1, <1>2, <1>3

LEMMA ShutdownInv ==
  ASSUME SystemInv, Shutdown \/ \E t \in Threads : ShutdownLast(t)
  PROVE  SystemInv'
<1> USE DEF SystemInv, SystemTypes
<1>1. CASE Shutdown
  <2>1. ref_count' \in Nat /\ ref_count' # 0
    BY <1>1 DEF Shutdown
  <2> QED
    BY <1>1, <2>1 DEF Shutdown, EntriesTrue, DeviceModules, Unused, ContextsHeld, Held
<1>2. ASSUME NEW t \in Threads, ShutdownLast(t)
      PROVE  SystemInv'
  <2>1. /\ ref_count' = 0 /\ devices' = <<>> /\ disturbed' = FALSE
        /\ hardware' = [d \in DeviceIds |-> IF d \in DOMAIN devices THEN {} ELSE hardware[d]]
        /\ granted' = [d \in DeviceIds |-> {}]
        /\ \A u \in Threads \ {t} : context[u] = -1
        /\ DropContext(t, DeviceIds)
    BY <1>2 DEF ShutdownLast, DeinitializeDevices
  <2>2. \A d \in DeviceIds : hardware'[d] = {} /\ DeviceModules(d)' = {}
    BY <2>1 DEF EntriesTrue, DeviceModules
  <2>3. hardware' \in [DeviceIds -> SUBSET Modules]
    BY <2>1
  <2>4. context' = [u \in Threads |-> -1]
    BY <2>1 DEF DropContext
  <2>5. stale' = {}
    BY <2>1, SystemAssumption DEF DropContext, ContextsHeld, SystemAssumption
  <2>6. SystemTypes'
    BY <2>1, <2>3, <2>4, <2>5, NothingKnown
  <2> QED
    BY <2>1, <2>2, <2>4, <2>5, <2>6 DEF EntriesTrue, Unused, ContextsHeld, Held
<1> QED
  BY <1>1, <1>2

LEMMA ContextInv ==
  ASSUME SystemInv, NEW t \in Threads,
         \/ \E d \in DeviceIds \cup {-1} : BindContext(t, d) \/ BindContextFails(t, d)
         \/ ThreadEnds(t)
  PROVE  SystemInv'
<1> USE DEF SystemInv, SystemTypes
<1>1. UNCHANGED stateVars
  BY DEF BindContext, BindContextFails, ThreadEnds
<1>2. SystemTypes' /\ EntriesTrue' /\ ref_count' = ref_count /\ granted' = granted /\ disturbed' = disturbed
      /\ hardware' = hardware
   <=> context' \in [Threads -> DeviceIds \cup {-1}] /\ stale' \subseteq Threads
  BY <1>1 DEF stateVars, EntriesTrue, DeviceModules
<1>3. CASE \E d \in DeviceIds \cup {-1} : BindContext(t, d)
  <2>1. PICK d : MayBind(t, d) /\ TakeContext(t, ResolvedDevice(t, d))
    BY <1>3 DEF BindContext
  <2> DEFINE e == ResolvedDevice(t, d)
  <2>2. e \in DeviceIds /\ granted[e] # {}
    BY <2>1 DEF MayBind
  <2> HIDE DEF e
  <2>3. TakeContext(t, e)
    BY <2>1 DEF e
  <2>4. /\ granted' \in [DeviceIds -> SUBSET Modules] /\ granted'[e] # {}
        /\ \A f \in DeviceIds : granted[f] \subseteq granted'[f]
    BY <1>1, <2>2 DEF stateVars
  <2>5. /\ context' \in [Threads -> DeviceIds \cup {-1}]
        /\ stale' \subseteq stale
        /\ ContextsHeld'
    BY <2>2, <2>3, <2>4, TakeContextInv
  <2>6. ref_count # 0
    BY <2>2 DEF Unused
  <2> QED
    BY <1>1, <1>2, <2>5, <2>6 DEF stateVars, Unused, Held
<1>4. CASE (\E d \in DeviceIds \cup {-1} : BindContextFails(t, d)) \/ ThreadEnds(t)
  <2>1. DropContext(t, {})
    BY <1>4 DEF BindContextFails, ThreadEnds
  <2>2. /\ context' \in [Threads -> DeviceIds \cup {-1}]
        /\ stale' \subseteq Threads
        /\ \A u \in Threads : context'[u] # -1 => context'[u] = context[u]
        /\ \A u \in stale' : context'[u] # -1
        /\ ref_count = 0 => \A u \in Threads : context'[u] = -1
        /\ stale' \subseteq stale
    BY <2>1, DropContextInv
  <2> QED
    BY <1>1, <1>2, <2>2 DEF stateVars, Unused, ContextsHeld, Held
<1> QED
  BY <1>3, <1>4

-----------------------------------------------------------------------------
(* In every reachable state what successful InitializeSystem calls asked   *)
(* for is initialised, unless a failed AXCL call has reset a device in use;*)
(* the system's flags say what the hardware has, and nothing is left when  *)
(* nobody holds the system.                                                *)
THEOREM SystemStaysTruthful == SystemSpec => []SystemTruthful
<1>1. SystemInit => SystemInv
  <2> SUFFICES ASSUME SystemInit
               PROVE  SystemInv
    OBVIOUS
  <2>1. SystemTypes
    BY NothingKnown DEF SystemInit, SystemTypes
  <2>2. EntriesTrue
    BY NothingKnown DEF SystemInit, EntriesTrue, DeviceModules
  <2> QED
    BY <2>1, <2>2 DEF SystemInit, SystemInv, Unused, ContextsHeld, Held
<1>2. SystemInv /\ [SystemNext]_systemVars => SystemInv'
  <2> SUFFICES ASSUME SystemInv, [SystemNext]_systemVars
               PROVE  SystemInv'
    OBVIOUS
  <2>1. ASSUME NEW t \in Threads, NEW d \in DeviceIds,
               \/ \E want \in Wants : Initialize(t, d, want) \/ InitializeFails(t, d, want)
               \/ InitializeFailsToBind(t, d) \/ SetDeviceFails(d)
        PROVE  SystemInv'
    BY <2>1, InitializeInv, InitializeFailsInv
  <2>2. ASSUME NEW t \in Threads,
               \/ \E d \in DeviceIds \cup {-1} : BindContext(t, d) \/ BindContextFails(t, d)
               \/ ThreadEnds(t) \/ ShutdownLast(t)
        PROVE  SystemInv'
    BY <2>2, ContextInv, ShutdownInv
  <2>3. CASE Shutdown
    BY <2>3, ShutdownInv
  <2>4. CASE UNCHANGED systemVars
    BY <2>4 DEF systemVars, SystemInv, SystemTypes, EntriesTrue, DeviceModules, Unused, ContextsHeld, Held
  <2>5. \A d \in IF axcl THEN DeviceIds ELSE {0} : d \in DeviceIds
    BY SystemAssumption DEF SystemAssumption
  <2> QED
    BY <2>1, <2>2, <2>3, <2>4, <2>5 DEF SystemNext
<1> QED
  BY <1>1, <1>2, InvImpliesTruthful, PTL DEF SystemSpec
==============================================================================
