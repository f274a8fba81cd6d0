------------------------------- MODULE AxSystem -------------------------------
(***************************************************************************)
(* InitializeSystem, ShutdownSystem and the AXCL contexts of threads       *)
(* (src/src/common/ax_system.cpp).                                         *)
(*                                                                         *)
(* The two calls hold the system's mutex and are one step each.  A context *)
(* is bound by EnsureAxclThreadContext, which every codec and image call   *)
(* makes first; it reads the system's state without the mutex, and the     *)
(* model takes what it reads as it is at that moment.                      *)
(***************************************************************************)
EXTENDS Integers

CONSTANTS
  Threads,
  DeviceIds,  \* of the AXCL devices; the MSP has device 0 only
  Wants,      \* the sets of modules a call may enable
  MaxRefs     \* bound: InitializeSystem calls not yet undone

ASSUME SystemAssumption ==
  /\ DeviceIds \subseteq Nat /\ 0 \in DeviceIds
  /\ Wants \subseteq SUBSET {"vdec", "venc", "ivps"}
  /\ MaxRefs \in Nat

VARIABLES
  axcl,              \* the build's platform: AXCL or MSP
  axcl_initialized, backend, active_device_id, ref_count,
  devices,           \* modules of each known device; its ref_count is never read
  context,           \* the device of each thread's AXCL context, -1 for none
  stale,             \* threads whose context ended when its device was reset
  hardware,          \* what the driver has initialised on each device
  granted,           \* ghost: what successful calls asked for on each device
  disturbed          \* ghost: a failed call has reset a device others used

systemVars == <<axcl, axcl_initialized, backend, active_device_id, ref_count, devices, context, stale,
                hardware, granted, disturbed>>
stateVars == <<axcl, axcl_initialized, backend, active_device_id, ref_count, devices, hardware, granted,
               disturbed>>

DeviceModules(d) == IF d \in DOMAIN devices THEN devices[d] ELSE {}
KeepDevice(d, modules) ==
  devices' = [e \in DOMAIN devices \cup {d} |-> IF e = d THEN modules ELSE devices[e]]

-----------------------------------------------------------------------------
(* EnsureAxclThreadContext and ReleaseAxclThreadContext.                   *)

ResolvedDevice(t, d) ==
  IF d >= 0 THEN d ELSE IF context[t] >= 0 THEN context[t] ELSE active_device_id

(* The client uses the devices it has initialised.                         *)
MayBind(t, d) ==
  /\ axcl_initialized
  /\ ResolvedDevice(t, d) \in DOMAIN devices
  /\ granted[ResolvedDevice(t, d)] # {}

(* A context for the same device is bound again, whatever became of it.    *)
TakeContext(t, d) ==
  /\ context' = [context EXCEPT ![t] = d]
  /\ stale' = IF context[t] = d THEN stale ELSE stale \ {t}

(* The thread gives up its context, and those on reset devices end.        *)
DropContext(t, reset) ==
  /\ context' = [context EXCEPT ![t] = -1]
  /\ stale' = (stale \cup {u \in Threads : context[u] \in reset}) \ {t}

BindContext(t, d) ==
  /\ MayBind(t, d)
  /\ TakeContext(t, ResolvedDevice(t, d))
  /\ UNCHANGED stateVars

(* No new context can be had; the old one is gone.                         *)
BindContextFails(t, d) ==
  /\ MayBind(t, d)
  /\ context[t] # ResolvedDevice(t, d)
  /\ DropContext(t, {})
  /\ UNCHANGED stateVars

ThreadEnds(t) ==  \* ~ThreadAxclContext
  /\ context[t] # -1
  /\ DropContext(t, {})
  /\ UNCHANGED stateVars

-----------------------------------------------------------------------------
(* InitializeSystem.  One that fails in axclInit or finds no device leaves *)
(* everything as it was; the first call takes axclInit back when it fails, *)
(* so that axcl_initialized stays FALSE.                                   *)

Missing(d, want) == ({"sys"} \cup want) \ DeviceModules(d)
SetActiveDevice(d) == active_device_id' = IF active_device_id < 0 THEN d ELSE active_device_id

Initialize(t, d, want) ==
  LET new == Missing(d, want)
  IN  /\ ref_count < MaxRefs
      /\ axcl_initialized' = axcl
      /\ SetActiveDevice(d)
      /\ backend' = IF "sys" \notin new THEN backend ELSE IF axcl THEN "kAxcl" ELSE "kAxMsp"
      /\ KeepDevice(d, DeviceModules(d) \cup new)
      /\ ref_count' = ref_count + 1
      /\ hardware' = [hardware EXCEPT ![d] = @ \cup new]
      /\ IF axcl THEN TakeContext(t, d) ELSE UNCHANGED <<context, stale>>
      /\ granted' = [granted EXCEPT ![d] = @ \cup {"sys"} \cup want]
      /\ UNCHANGED <<axcl, disturbed>>

(* axclrtSetDevice fails: the entry made for the device stays, and so does *)
(* the active device.                                                      *)
SetDeviceFails(d) ==
  /\ axcl
  /\ SetActiveDevice(d)
  /\ KeepDevice(d, DeviceModules(d))
  /\ UNCHANGED <<axcl, axcl_initialized, backend, ref_count, context, stale, hardware, granted, disturbed>>

(* AXCL: the device is reset and forgotten, even if an earlier call had    *)
(* initialised it.                                                         *)
ForgetDevice(t, d) ==
  /\ devices' = [e \in DOMAIN devices \ {d} |-> devices[e]]
  /\ hardware' = [hardware EXCEPT ![d] = {}]
  /\ DropContext(t, {d})
  /\ disturbed' = (disturbed \/ granted[d] # {})

InitializeFailsToBind(t, d) ==
  /\ axcl
  /\ context[t] # d
  /\ ForgetDevice(t, d)
  /\ SetActiveDevice(d)
  /\ UNCHANGED <<axcl, axcl_initialized, backend, ref_count, granted>>

(* MSP: the modules this call has initialised are taken back.              *)
RollBackNothing(d, done) ==                                        \* A plausible error.
  /\ KeepDevice(d, DeviceModules(d) \cup done)
  /\ hardware' = [hardware EXCEPT ![d] = @ \cup done]

RollBackEverything(d, done) ==                                     \* A plausible error.
  KeepDevice(d, {}) /\ hardware' = [hardware EXCEPT ![d] = {}]

RollBackModules(d, done) ==
  /\ KeepDevice(d, (DeviceModules(d) \cup done) \ done)
  /\ hardware' = [hardware EXCEPT ![d] = (@ \cup done) \ done]

(* Module m does not initialise.  It is reached after those it stands      *)
(* behind: sys, vdec, venc, ivps.                                          *)
Earlier(m) ==
  CASE m = "sys" -> {} [] m = "vdec" -> {"sys"} [] m = "venc" -> {"sys", "vdec"}
    [] m = "ivps" -> {"sys", "vdec", "venc"}

InitializeFails(t, d, want) ==
  /\ \E m \in Missing(d, want) :
       LET done == Missing(d, want) \cap Earlier(m)
       IN  /\ backend' = IF "sys" \in done THEN "kAuto" ELSE backend
           /\ \/ axcl /\ ForgetDevice(t, d)
              \/ ~axcl /\ RollBackModules(d, done) /\ UNCHANGED <<context, stale, disturbed>>
  /\ SetActiveDevice(d)
  /\ UNCHANGED <<axcl, axcl_initialized, ref_count, granted>>

-----------------------------------------------------------------------------
(* ShutdownSystem.                                                         *)

Shutdown ==
  /\ ref_count > 1
  /\ ref_count' = ref_count - 1
  /\ UNCHANGED <<axcl, axcl_initialized, backend, active_device_id, devices, context, stale, hardware,
                 granted, disturbed>>

(* Every module of every known device; a device no context can be bound to *)
(* loses its modules when it is reset.                                     *)
DeinitializeDevices == hardware' = [d \in DeviceIds |-> IF d \in DOMAIN devices THEN {} ELSE hardware[d]]

(* Threads have ended, or not begun, when the system is shut down: a       *)
(* context that outlives it would be bound again as if it were still good. *)
ShutdownLast(t) ==
  /\ ref_count = 1
  /\ \A u \in Threads \ {t} : context[u] = -1
  /\ ref_count' = 0
  /\ DeinitializeDevices
  /\ DropContext(t, DeviceIds)
  /\ devices' = <<>>
  /\ active_device_id' = -1
  /\ axcl_initialized' = FALSE
  /\ backend' = "kAuto"
  /\ granted' = [d \in DeviceIds |-> {}]
  /\ disturbed' = FALSE
  /\ UNCHANGED axcl

-----------------------------------------------------------------------------
SystemInit ==
  /\ axcl \in BOOLEAN
  /\ axcl_initialized = FALSE /\ backend = "kAuto" /\ active_device_id = -1 /\ ref_count = 0
  /\ devices = <<>>
  /\ context = [t \in Threads |-> -1] /\ stale = {}
  /\ hardware = [d \in DeviceIds |-> {}]
  /\ granted = [d \in DeviceIds |-> {}]
  /\ disturbed = FALSE

SystemNext ==
  \/ \E t \in Threads, d \in IF axcl THEN DeviceIds ELSE {0} :
       \/ \E want \in Wants : Initialize(t, d, want) \/ InitializeFails(t, d, want)
       \/ InitializeFailsToBind(t, d) \/ SetDeviceFails(d)
  \/ \E t \in Threads :
       \/ \E d \in DeviceIds \cup {-1} : BindContext(t, d) \/ BindContextFails(t, d)
       \/ ThreadEnds(t) \/ ShutdownLast(t)
  \/ Shutdown

SystemSpec == SystemInit /\ [][SystemNext]_systemVars

-----------------------------------------------------------------------------
(* Properties.                                                             *)

(* What a successful InitializeSystem asked for stays initialised until the*)
(* last ShutdownSystem, and no thread is left with a context that has      *)
(* ended, whatever other calls do and wherever they fail; unless one fails *)
(* on AXCL on a device in use, which that call resets.                     *)
HoldersServed ==
  ref_count > 0 /\ ~disturbed =>
    /\ \A d \in DeviceIds : granted[d] \subseteq hardware[d] /\ granted[d] \subseteq DeviceModules(d)
    /\ stale = {}

(* The system's flags say what the hardware has, whichever step of which   *)
(* call failed: nothing is initialised twice, and nothing stays initialised*)
(* when nobody holds the system any more.                                  *)
NothingLeftBehind ==
  /\ \A d \in DeviceIds : hardware[d] = DeviceModules(d)
  /\ ref_count = 0 => \A d \in DeviceIds : hardware[d] = {}

(* Both, as one invariant.                                                 *)
SystemTruthful == HoldersServed /\ NothingLeftBehind
=============================================================================
