--------------------------- MODULE LocalEngines ---------------------------
(***************************************************************************)
(* Executors that simulate in this process, in threads of                  *)
(* asyncio.to_thread: CUDA-Q (executors/cudaq.py), whose target, seed and  *)
(* IQM_TOKEN are global to the process; PennyLane Lightning (lightning.py),*)
(* which qualifies a device once before it runs user circuits on it; and   *)
(* QiliSDK (qilisdk.py), which runs seeded calls on a simulator of their   *)
(* own.  A caller that is cancelled leaves its thread running.             *)
(*                                                                         *)
(* A random generator is a pair: the seed it was given and the number of   *)
(* samples drawn since.  A component to be composed, as RemoteCall;        *)
(* Mistaken... operators are wrong versions of the definition after them.  *)
(***************************************************************************)
EXTENDS Naturals

CONSTANTS
    Jobs,           \* concurrent execute() calls
    Engines,        \* subset of {"cudaq", "lightning", "qilisdk"}
    Settings,       \* records with fields target, token, seed and device
    UserToken,      \* IQM_TOKEN as the user's environment has it
    Nothing         \* no token, no seed, nobody

ASSUME SettingsAssumption ==
    \A s \in Settings : DOMAIN s = {"target", "token", "seed", "device"}
ASSUME NothingAssumption == Nothing \notin Jobs

VARIABLES
    engine,
    gpu,        \* whether a GPU is there
    setting,    \* the config and the seed a job runs with
    thread,     \* where the thread of a job is
    caller,     \* "awaiting", "cancelled" or "answered"
    lock,       \* who holds _EXECUTION_LOCK or _qualify_lock
    token,      \* os.environ["IQM_TOKEN"]
    saved,      \* the token a thread found there
    target,     \* CUDA-Q's global target
    rng,        \* the shared generator: CUDA-Q's, or the unseeded QiliSim's
    qualified,  \* LightningExecutor._qualified: device -> "passed" or "failed"
    probes,     \* probes of a device that came to a result
    saw         \* target, token and generator a job's circuit ran with

engines == <<engine, gpu, setting, thread, caller, lock, token, saved, target, rng,
             qualified, probes, saw>>

Devices == {s.device : s \in Settings}

EnginesInit ==
    /\ engine \in Engines /\ gpu \in BOOLEAN
    /\ setting \in [Jobs -> Settings]
    /\ thread = [j \in Jobs |-> "idle"]
    /\ caller = [j \in Jobs |-> "awaiting"]
    /\ lock = Nothing
    /\ token = UserToken
    /\ saved = [j \in Jobs |-> Nothing]
    /\ target = "default"
    /\ rng = <<Nothing, 0>>
    /\ qualified = [d \in Devices |-> "unknown"]
    /\ probes = [d \in Devices |-> 0]
    /\ saw = [j \in Jobs |-> Nothing]

Goes(j, place) == thread' = [thread EXCEPT ![j] = place]

---------------------------------------------------------------------------
(* The caller.                                                             *)

\* execute() up to its thread.  A call that it refuses for its arguments is one
\* that never starts: nothing has changed.
Starts(j, place) ==
    /\ thread[j] = "idle" /\ caller[j] = "awaiting"
    /\ Goes(j, place)
    /\ UNCHANGED <<engine, gpu, setting, caller, lock, token, saved, target, rng,
                   qualified, probes, saw>>

StartCudaq(j) == engine = "cudaq" /\ Starts(j, "blocked")

\* The call's seed, else the config's, is the setting's; none if one is generated.
StartLightning(j) == engine = "lightning" /\ Starts(j, "blocked")

\* The simulator is chosen before the thread starts, and no lock is taken.
StartQiliSDK(j) == engine = "qilisdk" /\ Starts(j, "prepared")

StartJob(j) == StartCudaq(j) \/ StartLightning(j) \/ StartQiliSDK(j)

\* Cancelling the caller does not stop the thread, nor take its lock away.
CancelJob(j) ==
    /\ thread[j] # "idle" /\ caller[j] = "awaiting"
    /\ caller' = [caller EXCEPT ![j] = "cancelled"]
    /\ UNCHANGED <<engine, gpu, setting, thread, lock, token, saved, target, rng,
                   qualified, probes, saw>>

Answered(j) ==
    /\ thread[j] = "over" /\ caller[j] = "awaiting"
    /\ caller' = [caller EXCEPT ![j] = "answered"]
    /\ UNCHANGED <<engine, gpu, setting, thread, lock, token, saved, target, rng,
                   qualified, probes, saw>>

---------------------------------------------------------------------------
(* CUDA-Q: one thread at a time, from the target to the sample.            *)

Overrides(j) == setting[j].target = "iqm" /\ setting[j].token # Nothing

MayEnter(j) == thread[j] = "blocked" /\ lock = Nothing

EnterCudaq(j) ==
    /\ engine = "cudaq" /\ MayEnter(j)
    /\ lock' = j
    /\ saved' = [saved EXCEPT ![j] = token]
    /\ token' = IF Overrides(j) THEN setting[j].token ELSE token
    /\ Goes(j, "locked")
    /\ UNCHANGED <<engine, gpu, setting, caller, target, rng, qualified, probes, saw>>

\* A GPU target falls back to the CPU when there is no GPU.
Resolved(j) ==
    IF setting[j].target = "nvidia" /\ ~gpu THEN "qpp-cpu" ELSE setting[j].target

SelectTarget(j) ==
    /\ engine = "cudaq" /\ thread[j] = "locked"
    /\ \/ target' = Resolved(j) /\ Goes(j, "targeted")
       \/ target' = target /\ Goes(j, "failed")
    /\ UNCHANGED <<engine, gpu, setting, caller, lock, token, saved, rng, qualified,
                   probes, saw>>

SetSeed(j) ==
    /\ engine = "cudaq" /\ thread[j] = "targeted"
    /\ rng' = IF setting[j].seed = Nothing THEN rng ELSE <<setting[j].seed, 0>>
    /\ Goes(j, "prepared")
    /\ UNCHANGED <<engine, gpu, setting, caller, lock, token, saved, target, qualified,
                   probes, saw>>

\* The kernel is built and sampled, or fails.
SampleCudaq(j) ==
    /\ engine = "cudaq" /\ thread[j] = "prepared"
    /\ saw' = [saw EXCEPT ![j] = [target |-> target, token |-> token, rng |-> rng]]
    /\ rng' = <<rng[1], rng[2] + 1>>
    /\ \/ Goes(j, "sampled") \/ Goes(j, "failed")
    /\ UNCHANGED <<engine, gpu, setting, caller, lock, token, saved, target, qualified, probes>>

\* The finally of _run_sync: the token goes back to what was found there.
MistakenLeaveCudaq(j) ==
    /\ engine = "cudaq" /\ thread[j] \in {"sampled", "failed"}
    /\ token' = IF Overrides(j) /\ thread[j] = "sampled" THEN saved[j] ELSE token
    /\ lock' = Nothing
    /\ Goes(j, "over")
    /\ UNCHANGED <<engine, gpu, setting, caller, saved, target, rng, qualified, probes, saw>>
LeaveCudaq(j) ==
    /\ engine = "cudaq" /\ thread[j] \in {"sampled", "failed"}
    /\ token' = IF Overrides(j) THEN saved[j] ELSE token
    /\ lock' = Nothing
    /\ Goes(j, "over")
    /\ UNCHANGED <<engine, gpu, setting, caller, saved, target, rng, qualified, probes, saw>>

---------------------------------------------------------------------------
(* Lightning: one probe for each device and precision of the process.      *)

Device(j) == setting[j].device

EnterProbe(j) ==
    /\ engine = "lightning" /\ MayEnter(j)
    /\ lock' = j
    /\ Goes(j, "locked")
    /\ UNCHANGED <<engine, gpu, setting, caller, token, saved, target, rng, qualified,
                   probes, saw>>

\* A result is stored under the lock; a probe that raises stores none, so the
\* next call tries again.
MistakenProbe(j, result) ==
    /\ engine = "lightning" /\ thread[j] = "locked"
    /\ \/ /\ qualified[Device(j)] \in {"passed", "failed"}
          /\ Goes(j, IF qualified[Device(j)] = "passed" THEN "prepared" ELSE "over")
          /\ UNCHANGED <<qualified, probes>>
       \/ /\ qualified[Device(j)] = "unknown"
          /\ qualified' = IF result = "raised" THEN qualified
                          ELSE [qualified EXCEPT ![Device(j)] = result]
          /\ probes' = IF result = "raised" THEN probes
                       ELSE [probes EXCEPT ![Device(j)] = @ + 1]
          /\ Goes(j, IF result = "raised" THEN "over" ELSE "prepared")
    /\ lock' = Nothing
    /\ UNCHANGED <<engine, gpu, setting, caller, token, saved, target, rng, saw>>
Probe(j, result) ==
    /\ engine = "lightning" /\ thread[j] = "locked"
    /\ \/ /\ qualified[Device(j)] \in {"passed", "failed"}
          /\ Goes(j, IF qualified[Device(j)] = "passed" THEN "prepared" ELSE "over")
          /\ UNCHANGED <<qualified, probes>>
       \/ /\ qualified[Device(j)] = "unknown"
          /\ qualified' = IF result = "raised" THEN qualified
                          ELSE [qualified EXCEPT ![Device(j)] = result]
          /\ probes' = IF result = "raised" THEN probes
                       ELSE [probes EXCEPT ![Device(j)] = @ + 1]
          /\ Goes(j, IF result = "passed" THEN "prepared" ELSE "over")
    /\ lock' = Nothing
    /\ UNCHANGED <<engine, gpu, setting, caller, token, saved, target, rng, saw>>

---------------------------------------------------------------------------
(* Lightning makes a device for each sample, QiliSDK a simulator for each  *)
(* seeded call; an unseeded QiliSDK call shares the executor's simulator.  *)

OwnGenerator(j) == engine = "lightning" \/ setting[j].seed # Nothing

SampleAlone(j) ==
    /\ engine \in {"lightning", "qilisdk"} /\ thread[j] = "prepared"
    /\ LET generator == IF OwnGenerator(j) THEN <<setting[j].seed, 0>> ELSE rng
       IN  saw' = [saw EXCEPT ![j] = [target |-> engine, token |-> token, rng |-> generator]]
    /\ rng' = IF OwnGenerator(j) THEN rng ELSE <<rng[1], rng[2] + 1>>
    /\ Goes(j, "over")
    /\ UNCHANGED <<engine, gpu, setting, caller, lock, token, saved, target, qualified, probes>>

EnginesNext ==
    \E j \in Jobs :
        \/ StartJob(j) \/ CancelJob(j) \/ Answered(j)
        \/ EnterCudaq(j) \/ SelectTarget(j) \/ SetSeed(j) \/ SampleCudaq(j) \/ LeaveCudaq(j)
        \/ EnterProbe(j) \/ \E result \in {"passed", "failed", "raised"} : Probe(j, result)
        \/ SampleAlone(j)

EnginesSpec == EnginesInit /\ [][EnginesNext]_engines
---------------------------------------------------------------------------
(* Properties.                                                             *)

\* A circuit runs with the target, the token and the seed of its own config,
\* whichever calls run beside it, failed, or were cancelled before it; and the
\* user's IQM_TOKEN is back in the environment when no CUDA-Q call is in progress.
RunsAsConfigured ==
    /\ lock = Nothing => token = UserToken
    /\ \A j \in Jobs : saw[j] # Nothing =>
        /\ setting[j].seed # Nothing => saw[j].rng = <<setting[j].seed, 0>>
        /\ engine = "cudaq" =>
             /\ saw[j].target = Resolved(j)
             /\ saw[j].token = IF Overrides(j) THEN setting[j].token ELSE UserToken

\* No user circuit runs on a Lightning device that has not passed its probe,
\* and no device is probed to a result twice, however the calls overlap.
QualifiedOnce ==
    engine = "lightning" =>
        /\ \A d \in Devices : probes[d] <= 1
        /\ \A j \in Jobs : saw[j] # Nothing => qualified[Device(j)] = "passed"
=============================================================================
