--------------------------- MODULE PipelineManager ---------------------------
(***************************************************************************)
(* AxPipelineManager (src/src/pipeline/ax_pipeline_manager.cpp).           *)
(*                                                                         *)
(* Every call holds the manager's mutex from beginning to end and is one   *)
(* step, but for StartAll, which starts one pipeline after the other.      *)
(* GetPipeline hands out the pipeline itself: the application may start and*)
(* stop it without the manager, in the middle of a StartAll too.           *)
(***************************************************************************)
EXTENDS FiniteSets

CONSTANT Names  \* of pipelines

VARIABLES
  pipelines,     \* names in the manager's map
  flags,         \* names whose entry.running is set
  alive,         \* names whose Pipeline runs
  startAll,      \* "idle", or "on" while a StartAll holds the mutex
  left,          \* pipelines the StartAll has not come to yet
  started_entries,
  outcome,       \* how the latest call ended: "none", or "failed" for a StartAll
  before,        \* ghost: alive when the latest StartAll began
  touched,       \* ghost: names the application has started or stopped itself
  meanwhile      \* ghost: it did so since the latest StartAll began

managerVars == <<pipelines, flags, alive, startAll, left, started_entries, outcome, before, touched, meanwhile>>
startAllVars == <<startAll, left, started_entries, before>>

Free == startAll = "idle"

-----------------------------------------------------------------------------
(* Pipeline::Start fails on a pipeline that runs, and may fail otherwise.  *)

AddPipeline(n) ==  \* CreatePipeline and Open have succeeded.
  /\ Free
  /\ n \notin pipelines
  /\ pipelines' = pipelines \cup {n}
  /\ outcome' = "none"
  /\ UNCHANGED <<flags, alive, startAllVars, touched, meanwhile>>

StartPipeline(n) ==
  /\ Free
  /\ n \in pipelines \ flags
  /\ n \notin alive
  /\ flags' = flags \cup {n}
  /\ alive' = alive \cup {n}
  /\ outcome' = "none"
  /\ UNCHANGED <<pipelines, startAllVars, touched, meanwhile>>

(* StopEntry: nothing is stopped whose flag is not set.                    *)
StopEntries(entries) ==
  /\ flags' = flags \ entries
  /\ alive' = alive \ (entries \cap flags)

StopPipeline(n) ==
  /\ Free
  /\ n \in pipelines
  /\ StopEntries({n})
  /\ outcome' = "none"
  /\ UNCHANGED <<pipelines, startAllVars, touched, meanwhile>>

StopAll ==
  /\ Free
  /\ StopEntries(pipelines)
  /\ outcome' = "none"
  /\ UNCHANGED <<pipelines, startAllVars, touched, meanwhile>>

(* CloseEntry: Pipeline::Close stops the pipeline whatever the flag says.  *)
CloseEntriesByFlag(entries) == StopEntries(entries)  \* A plausible error.

CloseEntries(entries) == flags' = flags \ entries /\ alive' = alive \ entries

RemovePipelines(entries) ==
  /\ CloseEntries(entries)
  /\ pipelines' = pipelines \ entries
  /\ touched' = touched \ entries
  /\ outcome' = "none"
  /\ UNCHANGED <<startAllVars, meanwhile>>

RemovePipeline(n) == Free /\ n \in pipelines /\ RemovePipelines({n})

Clear == Free /\ RemovePipelines(pipelines)

-----------------------------------------------------------------------------
StartAllBegins ==
  /\ Free
  /\ startAll' = "on"
  /\ left' = pipelines
  /\ started_entries' = {}
  /\ before' = alive
  /\ outcome' = "none"
  /\ meanwhile' = FALSE
  /\ UNCHANGED <<pipelines, flags, alive, touched>>

StartAllSkips(n) ==
  /\ n \in left \cap flags
  /\ left' = left \ {n}
  /\ UNCHANGED <<pipelines, flags, alive, startAll, started_entries, outcome, before, touched, meanwhile>>

StartAllStarts(n) ==
  /\ n \in left \ flags
  /\ n \notin alive
  /\ left' = left \ {n}
  /\ flags' = flags \cup {n}
  /\ alive' = alive \cup {n}
  /\ started_entries' = started_entries \cup {n}
  /\ UNCHANGED <<pipelines, startAll, outcome, before, touched, meanwhile>>

RollBackAll ==  \* A plausible error: what ran before is stopped too.
  flags' = {} /\ alive' = alive \ flags

RollBack == flags' = flags \ started_entries /\ alive' = alive \ started_entries

(* A pipeline does not start: those this call started are stopped again.   *)
StartAllFails(n) ==
  /\ n \in left \ flags
  /\ RollBack
  /\ startAll' = "idle"
  /\ left' = {} /\ started_entries' = {}
  /\ outcome' = "failed"
  /\ UNCHANGED <<pipelines, before, touched, meanwhile>>

StartAllDone ==
  /\ startAll = "on"
  /\ left = {}
  /\ startAll' = "idle"
  /\ started_entries' = {}
  /\ UNCHANGED <<pipelines, flags, alive, left, outcome, before, touched, meanwhile>>

-----------------------------------------------------------------------------
(* The application, with what GetPipeline returned.                        *)

DirectStart(n) ==
  /\ n \in pipelines \ alive
  /\ alive' = alive \cup {n}
  /\ touched' = touched \cup {n}
  /\ meanwhile' = TRUE
  /\ UNCHANGED <<pipelines, flags, startAllVars, outcome>>

DirectStop(n) ==
  /\ n \in pipelines \cap alive
  /\ alive' = alive \ {n}
  /\ touched' = touched \cup {n}
  /\ meanwhile' = TRUE
  /\ UNCHANGED <<pipelines, flags, startAllVars, outcome>>

-----------------------------------------------------------------------------
ManagerInit ==
  /\ pipelines = {} /\ flags = {} /\ alive = {}
  /\ startAll = "idle" /\ left = {} /\ started_entries = {}
  /\ outcome = "none" /\ before = {} /\ touched = {} /\ meanwhile = FALSE

ManagerNext ==
  \/ \E n \in Names :
       \/ AddPipeline(n) \/ RemovePipeline(n) \/ StartPipeline(n) \/ StopPipeline(n)
       \/ StartAllSkips(n) \/ StartAllStarts(n) \/ StartAllFails(n)
       \/ DirectStart(n) \/ DirectStop(n)
  \/ StopAll \/ Clear \/ StartAllBegins \/ StartAllDone

ManagerSpec == ManagerInit /\ [][ManagerNext]_managerVars

-----------------------------------------------------------------------------
(* Properties.                                                             *)

(* What the manager says of a pipeline is true, as long as the application *)
(* has not started or stopped it behind the manager's back; and no pipeline*)
(* outlives its entry, however it was started.                             *)
FlagsAgree ==
  /\ \A n \in pipelines \ touched : n \in flags <=> n \in alive
  /\ flags \subseteq pipelines
  /\ alive \subseteq pipelines

(* A StartAll that fails leaves running what ran before, no more, no less, *)
(* the pipelines the application had started itself included.              *)
StartAllUndone ==
  outcome = "failed" /\ ~meanwhile => alive = before

(* Both, as one invariant.                                                 *)
ManagerTruthful == FlagsAgree /\ StartAllUndone
=============================================================================
