---------------------------- MODULE ModelRegistry ----------------------------
(***************************************************************************)
(* MistralRs (lib.rs): the engines that are loaded, the models that can be *)
(* loaded on demand, and the calls of many threads on them.                *)
(*                                                                         *)
(* Every critical section of one lock is a step, and a step that keeps its *)
(* lock beyond that records it in `holds`.  The device's memory belongs to *)
(* others too, so whether a model fits is decided anew at every query.     *)
(* Which idle engine is evicted first, and by which alias a model is       *)
(* called, is left open.  There is one device, every model has a loader    *)
(* configuration and is of the category text, and calls come from threads  *)
(* that may block.                                                         *)
(***************************************************************************)
EXTENDS Naturals, FiniteSets

CONSTANTS
    Thread, Model,
    Ops,                \* the operations that clients call
    InitEngines,        \* the models loaded at the start
    InitUnloaded,       \* the models registered as unloaded at the start
    AutoEvict,          \* RouterPolicy.auto_evict
    MayDie,             \* whether an engine thread may panic
    MayTimeOut,         \* whether load_wait_timeout ever elapses
    MaxCalls            \* bound on the calls of a behaviour

NoModel == "none"

ASSUME RegistryAssumption ==
    /\ InitEngines \subseteq Model /\ InitUnloaded \subseteq Model \ InitEngines
    /\ NoModel \notin Model
    /\ Ops \subseteq {"send", "send_default", "unload", "reload", "remove", "set_default",
                      "add", "add_unloaded"}
    /\ {AutoEvict, MayDie, MayTimeOut} \subseteq BOOLEAN /\ MaxCalls \in Nat

VARIABLES
    engines,            \* the loaded models
    dead,               \* of these, the ones whose thread has ended
    queued,             \* of these, the ones with requests in their channel
    busy,               \* of these, the ones with logger.num_running() > 0
    overtaken,          \* history: the models whose last engine was taken from the
                        \* map before the load that had put it there ended
    removed,            \* history: the models whose last engine remove_model took
    unloaded,           \* unloaded_models
    reloading,          \* reloading_models
    default,            \* default_engine_id
    th,                 \* the call of each thread
    holds,              \* the locks that a thread keeps between two steps
    calls               \* calls still to come

engineVars == <<engines, dead, queued, busy, overtaken, removed>>

vars == <<engineVars, unloaded, reloading, default, th, holds, calls>>

Init ==
    /\ engines = InitEngines /\ unloaded = InitUnloaded
    /\ dead = {} /\ queued = {} /\ busy = {} /\ reloading = {} /\ overtaken = {} /\ removed = {}
    /\ default \in IF InitEngines = {} THEN {NoModel} ELSE InitEngines
    /\ th = [t \in Thread |-> [op |-> "none", pc |-> "idle", model |-> NoModel, victim |-> NoModel,
                               back |-> "idle", stale |-> {}, skipped |-> {}, result |-> "ok"]]
    /\ holds = [t \in Thread |-> {}]
    /\ calls = MaxCalls

-----------------------------------------------------------------------------
(* Locks. *)

\* The lock that the step at pc takes; the other locks are never kept.
Needs(pc) ==
    CASE pc \in {"is_loaded", "engine_dead", "reboot", "pick", "dispatch", "evict_idle", "evict",
                 "refit", "insert", "unload_take", "remove_take", "set_check", "set_mirror",
                 "add_engines", "add_insert"} -> {"engines"}
      [] pc \in {"resolve", "resolve_again", "load_default", "remove_default", "set_default",
                 "add_default"} -> {"default"}
      [] OTHER -> {}

\* u keeps a lock that the next step of t needs.
Blocks(u, t) == u # t /\ Needs(th[t].pc) \cap holds[u] # {}

At(t, pc) == th[t].pc = pc /\ \A u \in Thread : ~Blocks(u, t)

Go(t, pc) == th' = [th EXCEPT ![t].pc = pc]

Return(t, result) == th' = [th EXCEPT ![t].pc = "idle", ![t].result = result]

-----------------------------------------------------------------------------
(* Clients and engine threads. *)

FirstStep == [send |-> "is_loaded", send_default |-> "resolve", unload |-> "unload_check",
              reload |-> "reload_check", remove |-> "remove_take", set_default |-> "set_check",
              add |-> "add_reloading", add_unloaded |-> "add_reloading"]

Call(t) ==
    /\ th[t].pc = "idle" /\ calls > 0
    /\ \E op \in Ops, m \in Model :
          th' = [th EXCEPT ![t] = [op |-> op, pc |-> FirstStep[op], model |-> m, victim |-> m,
                                   back |-> "idle", stale |-> {}, skipped |-> {}, result |-> "ok"]]
    /\ calls' = calls - 1
    /\ UNCHANGED <<engineVars, unloaded, reloading, default, holds>>

\* An engine admits the requests in its channel, becomes idle again, or panics.
EngineStep ==
    /\ \E m \in engines \ dead :
          \/ m \in queued /\ queued' = queued \ {m} /\ busy' = busy \cup {m} /\ UNCHANGED dead
          \/ m \in busy /\ busy' = busy \ {m} /\ UNCHANGED <<queued, dead>>
          \/ MayDie /\ dead' = dead \cup {m} /\ UNCHANGED <<queued, busy>>
    /\ UNCHANGED <<engines, overtaken, removed, unloaded, reloading, default, th, holds, calls>>

\* A new engine of m is put into the map.
Put(m) ==
    /\ engines' = engines \cup {m}
    /\ dead' = dead \ {m} /\ queued' = queued \ {m} /\ busy' = busy \ {m}
    /\ overtaken' = overtaken \ {m} /\ removed' = removed \ {m}

\* t has put its engine of m into the map, and m is still unloaded as well.
Finishes(t, m) == th[t].model = m /\ th[t].pc \in {"load_default", "load_done"}

\* The engine of m is taken from the map, to be unloaded or for good.
Take(m, forGood) ==
    /\ engines' = engines \ {m}
    /\ dead' = dead \ {m} /\ queued' = queued \ {m} /\ busy' = busy \ {m}
    /\ overtaken' = overtaken \cup IF \E t \in Thread : Finishes(t, m) THEN {m} ELSE {}
    /\ removed' = removed \cup IF forGood THEN {m} ELSE {}

-----------------------------------------------------------------------------
(* get_sender *)

\* resolve_alias_or_default without a model id, then on to pc.  The maps are
\* read only when there is no default, and a default is never cleared.
ResolveDefault(t, pc) ==
    LET found == IF default # NoModel THEN {default}
                 ELSE IF engines # {} THEN engines ELSE unloaded
    IN  IF found = {} THEN Return(t, "not_found")
        ELSE \E m \in found : th' = [th EXCEPT ![t].pc = pc, ![t].model = m]

Resolve(t) ==
    /\ At(t, "resolve")
    /\ ResolveDefault(t, "is_loaded")
    /\ UNCHANGED <<engineVars, unloaded, reloading, default, holds, calls>>

IsLoaded(t) ==
    /\ At(t, "is_loaded")
    /\ Go(t, IF th[t].model \in engines THEN "engine_dead" ELSE "is_unloaded")
    /\ UNCHANGED <<engineVars, unloaded, reloading, default, holds, calls>>

EngineDead(t) ==
    /\ At(t, "engine_dead")
    /\ IF th[t].model \notin engines THEN Return(t, "poisoned")
       ELSE Go(t, IF th[t].model \in dead THEN "reboot" ELSE "pick")
    /\ UNCHANGED <<engineVars, unloaded, reloading, default, holds, calls>>

\* reboot_engine
Reboot(t) ==
    /\ At(t, "reboot")
    /\ IF th[t].model \notin engines THEN Return(t, "poisoned") ELSE Go(t, "pick")
    /\ IF th[t].model \in dead THEN Put(th[t].model) ELSE UNCHANGED engineVars
    /\ UNCHANGED <<unloaded, reloading, default, holds, calls>>

Pick(t) ==
    /\ At(t, "pick")
    /\ Go(t, IF th[t].model \notin engines THEN "is_unloaded"
             ELSE IF th[t].op = "send_default" THEN "resolve_again" ELSE "dispatch")
    /\ UNCHANGED <<engineVars, unloaded, reloading, default, holds, calls>>

IsUnloaded(t) ==
    /\ th[t].pc = "is_unloaded"
    /\ Go(t, IF th[t].model \in unloaded THEN "claim" ELSE "is_reloading")
    /\ UNCHANGED <<engineVars, unloaded, reloading, default, holds, calls>>

IsReloading(t) ==
    /\ th[t].pc = "is_reloading"
    /\ Return(t, IF th[t].model \in reloading THEN "reloading" ELSE "not_found")
    /\ UNCHANGED <<engineVars, unloaded, reloading, default, holds, calls>>

\* Mutant: the marker of another thread is not looked for.
ClaimUnchecked(t) ==
    /\ th[t].pc = "claim"
    /\ reloading' = reloading \cup {th[t].model}
    /\ Go(t, IF AutoEvict THEN "evict_idle" ELSE "reload_get")
    /\ UNCHANGED <<engineVars, unloaded, default, holds, calls>>

Claim(t) ==
    /\ th[t].pc = "claim"
    /\ reloading' = reloading \cup {th[t].model}
    /\ Go(t, IF th[t].model \in reloading THEN "wait" ELSE
             IF AutoEvict THEN "evict_idle" ELSE "reload_get")
    /\ UNCHANGED <<engineVars, unloaded, default, holds, calls>>

\* Mutant: the marker is not read again once the mutex of reload_cv is taken.
WaitUnconditionally(t) ==
    /\ th[t].pc = "wait"
    /\ Go(t, "asleep")
    /\ UNCHANGED <<engineVars, unloaded, reloading, default, holds, calls>>

\* wait_for_reload: sleep while the marker is there and nobody has bumped.
WaitForReload(t) ==
    /\ th[t].pc = "wait"
    /\ Go(t, IF th[t].model \in reloading THEN "asleep" ELSE "is_loaded")
    /\ UNCHANGED <<engineVars, unloaded, reloading, default, holds, calls>>

TimeOut(t) ==
    /\ MayTimeOut /\ th[t].pc = "asleep"
    /\ IF th[t].model \in reloading THEN Return(t, "failed") ELSE Go(t, "is_loaded")
    /\ UNCHANGED <<engineVars, unloaded, reloading, default, holds, calls>>

\* prepare_request_dispatch resolves a second time.
ResolveAgain(t) ==
    /\ At(t, "resolve_again")
    /\ ResolveDefault(t, "dispatch")
    /\ UNCHANGED <<engineVars, unloaded, reloading, default, holds, calls>>

\* The request goes into the channel of the engine that is there now.
Dispatch(t) ==
    /\ At(t, "dispatch")
    /\ IF th[t].model \in engines
         THEN Return(t, "ok") /\ queued' = queued \cup {th[t].model}
         ELSE Return(t, "not_found") /\ UNCHANGED queued
    /\ UNCHANGED <<engines, dead, busy, overtaken, removed, unloaded, reloading, default, holds, calls>>

-----------------------------------------------------------------------------
(* evict_for_request, with the marker claimed *)

\* lru_idle_pick
Idle(m) == engines \ (busy \cup {m})

\* unload_model, to come back to pc afterwards.
Unload(t, m, pc) ==
    th' = [th EXCEPT ![t].pc = "unload_check", ![t].victim = m, ![t].back = pc]

\* evict_idle finds the engines that have been idle for too long.
EvictIdle(t) ==
    /\ At(t, "evict_idle")
    /\ \E stale \in SUBSET Idle(th[t].model) :
          th' = [th EXCEPT ![t].pc = "evict_stale", ![t].stale = stale]
    /\ UNCHANGED <<engineVars, unloaded, reloading, default, holds, calls>>

EvictStale(t) ==
    /\ th[t].pc = "evict_stale"
    /\ \/ \E m \in th[t].stale :
             th' = [th EXCEPT ![t].pc = "unload_check", ![t].victim = m, ![t].back = "evict_stale",
                              ![t].stale = @ \ {m}]
       \/ th[t].stale = {} /\ Go(t, "estimate")
    /\ UNCHANGED <<engineVars, unloaded, reloading, default, holds, calls>>

\* The footprint comes from the unloaded state, or is unknown; the query of
\* the device's memory may fail.
Estimate(t) ==
    /\ th[t].pc = "estimate"
    /\ IF th[t].model \in unloaded
         THEN \/ \E pc \in {"evict", "reload_get"} : Go(t, pc)
              \/ th' = [th EXCEPT ![t].pc = "unmark", ![t].result = "failed"]
         ELSE th' = [th EXCEPT ![t].pc = "unmark", ![t].result = "not_found"]
    /\ UNCHANGED <<engineVars, unloaded, reloading, default, holds, calls>>

\* It fits; or an idle engine goes; or there is none in time, or the query of
\* the device's memory fails.
Evict(t) ==
    /\ At(t, "evict")
    /\ \/ Go(t, "reload_get")
       \/ \E m \in Idle(th[t].model) \ th[t].skipped : Unload(t, m, "evict")
       \/ th' = [th EXCEPT ![t].pc = "unmark", ![t].result = "failed"]
    /\ UNCHANGED <<engineVars, unloaded, reloading, default, holds, calls>>

-----------------------------------------------------------------------------
(* reload_model, reload_claimed and do_reload_model *)

ReloadCheck(t) ==
    /\ th[t].pc = "reload_check"
    /\ IF th[t].model \in reloading THEN Return(t, "reloading") ELSE Go(t, "reload_mark")
    /\ UNCHANGED <<engineVars, unloaded, reloading, default, holds, calls>>

ReloadMark(t) ==
    /\ th[t].pc = "reload_mark"
    /\ reloading' = reloading \cup {th[t].model}
    /\ Go(t, "reload_get")
    /\ UNCHANGED <<engineVars, unloaded, default, holds, calls>>

\* Mutant: the state is moved out of the map instead of cloned.
ReloadTakes(t) ==
    /\ th[t].pc = "reload_get"
    /\ IF th[t].model \in unloaded THEN Go(t, "load") ELSE Return(t, "not_found")
    /\ unloaded' = unloaded \ {th[t].model}
    /\ UNCHANGED <<engineVars, reloading, default, holds, calls>>

\* Without an unloaded state the call returns and leaves its marker.
ReloadGet(t) ==
    /\ th[t].pc = "reload_get"
    /\ IF th[t].model \in unloaded
         THEN th' = [th EXCEPT ![t].pc = "load", ![t].back = "idle", ![t].skipped = {}]
         ELSE Return(t, "not_found")
    /\ UNCHANGED <<engineVars, unloaded, reloading, default, holds, calls>>

\* The loader succeeds, fails, or finds that the model does not fit.
Load(t) ==
    /\ th[t].pc = "load"
    /\ \/ Go(t, "insert")
       \/ th' = [th EXCEPT ![t].pc = "unmark", ![t].result = "failed"]
       \/ Go(t, "refit")
    /\ UNCHANGED <<engineVars, unloaded, reloading, default, holds, calls>>

\* evict_lru_idle_on_device, and the load is tried again.  With nobody left to
\* evict, or while the memory of the last one is reclaimed, time may run out.
Refit(t) ==
    /\ At(t, "refit")
    /\ LET candidates == Idle(th[t].model) \ th[t].skipped
       IN  \/ AutoEvict /\ \E m \in candidates : Unload(t, m, "refit")
           \/ /\ ~AutoEvict \/ candidates = {} \/ th[t].back = "refit"
              /\ th' = [th EXCEPT ![t].pc = "unmark", ![t].result = "failed"]
    /\ UNCHANGED <<engineVars, unloaded, reloading, default, holds, calls>>

\* Mutant: the default slot is locked before the map of the engines.
InsertDefaultFirst(t) ==
    /\ At(t, "insert")
    /\ IF holds[t] = {}
         THEN /\ \A u \in Thread : "default" \notin holds[u]
              /\ holds' = [holds EXCEPT ![t] = {"default"}]
              /\ UNCHANGED <<engineVars, th>>
         ELSE /\ holds' = [holds EXCEPT ![t] = {}]
              /\ Put(th[t].model) /\ Go(t, "load_default")
    /\ UNCHANGED <<unloaded, reloading, default, calls>>

Insert(t) ==
    /\ At(t, "insert")
    /\ Put(th[t].model)
    /\ Go(t, "load_default")
    /\ UNCHANGED <<unloaded, reloading, default, holds, calls>>

LoadDefault(t) ==
    /\ At(t, "load_default")
    /\ default' = IF default = NoModel THEN th[t].model ELSE default
    /\ Go(t, "load_done")
    /\ UNCHANGED <<engineVars, unloaded, reloading, holds, calls>>

LoadDone(t) ==
    /\ th[t].pc = "load_done"
    /\ unloaded' = unloaded \ {th[t].model}
    /\ Go(t, "unmark")
    /\ UNCHANGED <<engineVars, reloading, default, holds, calls>>

\* The end of reload_claimed, and release_reload_claim.
Unmark(t) ==
    /\ th[t].pc = "unmark"
    /\ reloading' = reloading \ {th[t].model}
    /\ Go(t, "bump")
    /\ UNCHANGED <<engineVars, unloaded, default, holds, calls>>

IsRequest(t) == th[t].op \in {"send", "send_default"}

\* Mutant: a request tries again when its load has failed.
AfterLoadRetries(t) == IF IsRequest(t) THEN "is_loaded" ELSE "idle"

\* A request goes on to its engine once the load has succeeded.
AfterLoad(t) == IF IsRequest(t) /\ th[t].result = "ok" THEN "is_loaded" ELSE "idle"

\* bump_reload_cv wakes every waiter.
Bump(t) ==
    /\ th[t].pc = "bump"
    /\ th' = [u \in Thread |->
                 IF u = t THEN [th[u] EXCEPT !.pc = AfterLoad(t)]
                 ELSE IF th[u].pc = "asleep" THEN [th[u] EXCEPT !.pc = "is_loaded"]
                 ELSE th[u]]
    /\ UNCHANGED <<engineVars, unloaded, reloading, default, holds, calls>>

-----------------------------------------------------------------------------
(* unload_model, of th[t].victim *)

\* An eviction that fails goes on with another engine.
UnloadFails(t, result) ==
    IF th[t].back = "idle" THEN Return(t, result)
    ELSE th' = [th EXCEPT ![t].pc = th[t].back,
                          ![t].skipped = IF th[t].back = "evict_stale" THEN @ ELSE @ \cup {th[t].victim}]

UnloadCheck(t) ==
    /\ th[t].pc = "unload_check"
    /\ IF th[t].victim \in unloaded THEN UnloadFails(t, "already_unloaded") ELSE Go(t, "unload_take")
    /\ UNCHANGED <<engineVars, unloaded, reloading, default, holds, calls>>

\* Mutant: the model can be loaded again before its engine has ended.
UnloadTakeStores(t) ==
    /\ At(t, "unload_take")
    /\ IF th[t].victim \in engines
         THEN /\ Take(th[t].victim, FALSE) /\ Go(t, "unload_store")
              /\ unloaded' = unloaded \cup {th[t].victim}
         ELSE UnloadFails(t, "not_found") /\ UNCHANGED <<engineVars, unloaded>>
    /\ UNCHANGED <<reloading, default, holds, calls>>

UnloadTake(t) ==
    /\ At(t, "unload_take")
    /\ IF th[t].victim \in engines
         THEN Take(th[t].victim, FALSE) /\ Go(t, "unload_store")
         ELSE UnloadFails(t, "not_found") /\ UNCHANGED engineVars
    /\ UNCHANGED <<unloaded, reloading, default, holds, calls>>

\* The engine's thread has ended and its memory is free.
UnloadStore(t) ==
    /\ th[t].pc = "unload_store"
    /\ unloaded' = unloaded \cup {th[t].victim}
    /\ Go(t, IF th[t].back = "refit" THEN "load" ELSE th[t].back)
    /\ UNCHANGED <<engineVars, reloading, default, holds, calls>>

-----------------------------------------------------------------------------
(* remove_model, set_default_model_id, add_model and add_unloaded_model *)

RemoveTake(t) ==
    /\ At(t, "remove_take")
    /\ IF Cardinality(engines) > 1 /\ th[t].model \in engines
         THEN /\ Take(th[t].model, TRUE)
              /\ holds' = [holds EXCEPT ![t] = {"engines"}]
              /\ Go(t, "remove_default")
         ELSE Return(t, "not_found") /\ UNCHANGED <<engineVars, holds>>
    /\ UNCHANGED <<unloaded, reloading, default, calls>>

RemoveDefault(t) ==
    /\ At(t, "remove_default")
    /\ IF default = th[t].model THEN default' \in engines ELSE UNCHANGED default
    /\ holds' = [holds EXCEPT ![t] = {}]
    /\ Return(t, "ok")
    /\ UNCHANGED <<engineVars, unloaded, reloading, calls>>

SetCheck(t) ==
    /\ At(t, "set_check")
    /\ IF th[t].model \in engines \cup unloaded THEN Go(t, "set_default") ELSE Return(t, "not_found")
    /\ UNCHANGED <<engineVars, unloaded, reloading, default, holds, calls>>

SetDefault(t) ==
    /\ At(t, "set_default")
    /\ default' = th[t].model
    /\ holds' = [holds EXCEPT ![t] = {"default"}]
    /\ Go(t, "set_mirror")
    /\ UNCHANGED <<engineVars, unloaded, reloading, calls>>

\* The category of the engine is read while the default is still locked.
SetMirror(t) ==
    /\ At(t, "set_mirror")
    /\ holds' = [holds EXCEPT ![t] = {}]
    /\ Return(t, "ok")
    /\ UNCHANGED <<engineVars, unloaded, reloading, default, calls>>

AddCheckReloading(t) ==
    /\ th[t].pc = "add_reloading"
    /\ IF th[t].model \in reloading THEN Return(t, "exists") ELSE Go(t, "add_engines")
    /\ UNCHANGED <<engineVars, unloaded, reloading, default, holds, calls>>

AddCheckEngines(t) ==
    /\ At(t, "add_engines")
    /\ IF th[t].model \in engines THEN Return(t, "exists") ELSE Go(t, "add_check")
    /\ UNCHANGED <<engineVars, unloaded, reloading, default, holds, calls>>

AddCheckUnloaded(t) ==
    /\ th[t].pc = "add_check"
    /\ IF th[t].model \in unloaded THEN Return(t, "exists")
       ELSE Go(t, IF th[t].op = "add" THEN "add_insert" ELSE "add_store")
    /\ UNCHANGED <<engineVars, unloaded, reloading, default, holds, calls>>

AddStore(t) ==
    /\ th[t].pc = "add_store"
    /\ unloaded' = unloaded \cup {th[t].model}
    /\ Return(t, "ok")
    /\ UNCHANGED <<engineVars, reloading, default, holds, calls>>

\* Mutant: the map of the engines is released before the default is set.
AddInsertUnlocked(t) ==
    /\ At(t, "add_insert")
    /\ Put(th[t].model)
    /\ Go(t, "add_default")
    /\ UNCHANGED <<unloaded, reloading, default, holds, calls>>

AddInsert(t) ==
    /\ At(t, "add_insert")
    /\ Put(th[t].model)
    /\ holds' = [holds EXCEPT ![t] = {"engines"}]
    /\ Go(t, "add_default")
    /\ UNCHANGED <<unloaded, reloading, default, calls>>

AddDefault(t) ==
    /\ At(t, "add_default")
    /\ default' = IF default = NoModel THEN th[t].model ELSE default
    /\ holds' = [holds EXCEPT ![t] = {}]
    /\ Return(t, "ok")
    /\ UNCHANGED <<engineVars, unloaded, reloading, calls>>

-----------------------------------------------------------------------------

GetSender(t) ==
    \/ Resolve(t) \/ IsLoaded(t) \/ EngineDead(t) \/ Reboot(t) \/ Pick(t) \/ IsUnloaded(t)
    \/ IsReloading(t) \/ Claim(t) \/ WaitForReload(t) \/ ResolveAgain(t) \/ Dispatch(t)

EvictForRequest(t) == EvictIdle(t) \/ EvictStale(t) \/ Estimate(t) \/ Evict(t)

Reload(t) ==
    \/ ReloadCheck(t) \/ ReloadMark(t) \/ ReloadGet(t) \/ Load(t) \/ Refit(t) \/ Insert(t)
    \/ LoadDefault(t) \/ LoadDone(t) \/ Unmark(t) \/ Bump(t)

UnloadModel(t) == UnloadCheck(t) \/ UnloadTake(t) \/ UnloadStore(t)

Administer(t) ==
    \/ RemoveTake(t) \/ RemoveDefault(t) \/ SetCheck(t) \/ SetDefault(t) \/ SetMirror(t)
    \/ AddCheckReloading(t) \/ AddCheckEngines(t) \/ AddCheckUnloaded(t) \/ AddStore(t)
    \/ AddInsert(t) \/ AddDefault(t)

Step(t) == GetSender(t) \/ EvictForRequest(t) \/ Reload(t) \/ UnloadModel(t) \/ Administer(t)

Next == (\E t \in Thread : Call(t) \/ Step(t) \/ TimeOut(t)) \/ EngineStep

Spec == Init /\ [][Next]_vars

\* A thread inside a call goes on, a load ends, and a wait that may time out
\* does; nothing is assumed of clients.
FairSpec == Spec /\ \A t \in Thread : WF_vars(Step(t)) /\ WF_vars(TimeOut(t))

-----------------------------------------------------------------------------

\* The thread is evicting other engines for a load of its own.
Evicting(t) == th[t].back # "idle" /\ th[t].pc \in {"unload_check", "unload_take", "unload_store"}

\* t holds the marker of m: it has claimed the load of m and not yet released it.
Claims(t, m) ==
    /\ th[t].model = m
    /\ \/ Evicting(t)
       \/ th[t].pc \in {"evict_idle", "evict_stale", "estimate", "evict", "reload_get", "load", "refit",
                        "insert", "load_default", "load_done", "unmark"}

\* reloading_models prevents concurrent reloads: a model in it is being loaded
\* by exactly one thread, and a model not in it by none.  A marker that nobody
\* owns would make the model unavailable for good.
MarkersOwned ==
    \A m \in Model : Cardinality({t \in Thread : Claims(t, m)}) = IF m \in reloading THEN 1 ELSE 0

\* No wake-up is lost: behind every request that sleeps on reload_cv there is a
\* thread that loads its model or is about to bump, so it need not time out.
SleepersWillWake ==
    \A t \in Thread : th[t].pc = "asleep" =>
        \E u \in Thread : Claims(u, th[t].model) \/ th[u].pc = "bump"

\* A model has one instance: it is not loaded again while an engine of it is
\* there, or has been taken from the map and not yet ended.
OneInstance ==
    \A m \in Model :
        LET loading == {t \in Thread : th[t].model = m /\ th[t].pc \in {"load", "refit", "insert"}}
            ending  == {t \in Thread : th[t].victim = m /\ th[t].pc = "unload_store"}
        IN  Cardinality(loading) + Cardinality(ending) + (IF m \in engines THEN 1 ELSE 0) <= 1

\* t unloads m: it has taken the engine from the map and will store m as unloaded.
Ends(t, m) == th[t].victim = m /\ th[t].pc = "unload_store"

\* m is loaded, unloaded, or in the hands of a thread that unloads it.
Registered(m) == m \in engines \cup unloaded \/ \E t \in Thread : Ends(t, m)

\* "The model stays lazily reloadable" (unload_model, lib.rs:3426): what was
\* registered at the start and never removed is never in neither map for good.
NoModelLost == \A m \in (InitEngines \cup InitUnloaded) \ removed : Registered(m)

\* However requests, loads, evictions, unloads, removals and registrations
\* interleave, and whatever of them fails, a model is lost in one way only: its
\* engine was taken from the map while the load that had put it there had yet to
\* drop the unloaded state.
OnlyOvertakenLost ==
    \A m \in (InitEngines \cup InitUnloaded) \ (removed \cup overtaken) : Registered(m)

\* The default names a registered model or, under the lock of the engines, one
\* that remove_model is about to replace, unless its load was overtaken: also when
\* loads and registrations set an empty default while models are removed.
DefaultRegistered ==
    \/ default = NoModel \/ Registered(default) \/ default \in overtaken
    \/ \E t \in Thread : th[t].pc = "remove_default" /\ th[t].model = default

\* No two threads wait for each other's lock, and none keeps one past its call.
NoCircularWait ==
    /\ \A t, u \in Thread : ~(Blocks(t, u) /\ Blocks(u, t))
    /\ \A t \in Thread : th[t].pc = "idle" => holds[t] = {}

\* Every call returns.
EveryCallReturns == \A t \in Thread : th[t].pc # "idle" ~> th[t].pc = "idle"

-----------------------------------------------------------------------------
(* Inductive invariants. *)

SenderSteps == {"resolve", "is_loaded", "engine_dead", "reboot", "pick", "is_unloaded",
                "is_reloading", "claim", "wait", "asleep", "resolve_again", "dispatch"}
EvictSteps  == {"evict_idle", "evict_stale", "estimate", "evict"}
LoadSteps   == {"reload_get", "load", "refit", "insert", "load_default", "load_done", "unmark",
                "bump"}
UnloadSteps == {"unload_check", "unload_take", "unload_store"}
OtherSteps  == {"reload_check", "reload_mark", "remove_take", "remove_default", "set_check",
                "set_default", "set_mirror", "add_reloading", "add_engines", "add_check",
                "add_insert", "add_default", "add_store"}
Steps       == SenderSteps \cup EvictSteps \cup LoadSteps \cup UnloadSteps \cup OtherSteps

\* Where a call of op may be.
Places(op) ==
    CASE op \in {"send", "send_default"} ->
            SenderSteps \cup LoadSteps \cup IF AutoEvict THEN EvictSteps \cup UnloadSteps ELSE {}
      [] op = "reload" ->
            {"reload_check", "reload_mark"} \cup LoadSteps \cup IF AutoEvict THEN UnloadSteps ELSE {}
      [] op = "unload"       -> UnloadSteps
      [] op = "remove"       -> {"remove_take", "remove_default"}
      [] op = "set_default"  -> {"set_check", "set_default", "set_mirror"}
      [] op = "add"          -> {"add_reloading", "add_engines", "add_check", "add_insert",
                                 "add_default"}
      [] op = "add_unloaded" -> {"add_reloading", "add_engines", "add_check", "add_store"}
      [] OTHER               -> {}

\* What an unload that is part of a call of op comes back to.
Backs(op) ==
    CASE op \in {"send", "send_default"} -> {"evict_stale", "evict", "refit"}
      [] op = "reload" -> {"refit"}
      [] OTHER -> {"idle"}

Results == {"ok", "failed", "not_found", "poisoned", "reloading", "exists", "already_unloaded"}

CallState == [op : Ops \cup {"none"}, pc : Steps \cup {"idle"}, model : Model \cup {NoModel},
              victim : Model \cup {NoModel}, back : {"idle", "evict_stale", "evict", "refit"},
              stale : SUBSET Model, skipped : SUBSET Model, result : Results]

WellFormed(c) ==
    /\ c \in CallState
    /\ c.pc # "idle" => c.pc \in Places(c.op) /\ c.model \in Model /\ c.victim \in Model
    /\ c.pc \in UnloadSteps => c.back \in Backs(c.op)

MapsOK ==
    /\ engines \subseteq Model /\ unloaded \subseteq Model /\ reloading \subseteq Model
    /\ dead \subseteq engines /\ default \in Model \cup {NoModel}

CallsOK == th \in [Thread -> CallState] /\ \A t \in Thread : WellFormed(th[t])

TypeOK == MapsOK /\ CallsOK

\* The locks that a call at pc keeps.
Keeps(pc) ==
    CASE pc \in {"remove_default", "add_default"} -> {"engines"}
      [] pc = "set_mirror" -> {"default"}
      [] OTHER -> {}

LocksKept == holds = [t \in Thread |-> Keeps(th[t].pc)]

\* The markers and the calls that load agree.
MarkersHeld ==
    /\ \A m \in Model : m \in reloading <=> \E t \in Thread : Claims(t, m)
    /\ \A m \in Model : \A t, u \in Thread : Claims(t, m) /\ Claims(u, m) => t = u

\* A call that has decided to load its model has found the unloaded state, which
\* stays until the load is done.
Loads(t) ==
    \/ th[t].pc \in {"evict", "reload_get", "load", "refit", "insert", "load_default", "load_done"}
    \/ Evicting(t) /\ th[t].back \in {"evict", "refit"}

LoadsFromUnloaded == \A t \in Thread : Loads(t) => th[t].model \in unloaded

\* An engine is ended by one thread; a model with an engine is not unloaded, but
\* for the end of its load.
InstancesApart ==
    \A m \in Model :
        /\ \A t \in Thread : Ends(t, m) => m \notin engines
        /\ \A t, u \in Thread : Ends(t, m) /\ Ends(u, m) => t = u
        /\ m \in unloaded /\ (m \in engines \/ \E t \in Thread : Ends(t, m)) =>
            \E u \in Thread : Finishes(u, m)

RequestInv == TypeOK /\ MarkersHeld /\ LoadsFromUnloaded /\ InstancesApart /\ SleepersWillWake

\* What is still to be dropped from the unloaded states is loaded, unless overtaken.
FinishesKnown ==
    \A t \in Thread : th[t].pc \in {"load_default", "load_done"} => th[t].model \in engines \cup overtaken

\* m is registered, or it is overtaken.
Known(m) == Registered(m) \/ m \in overtaken

ModelsInv ==
    FinishesKnown /\ \A m \in (InitEngines \cup InitUnloaded) \ removed : Known(m)

\* One thread at a time keeps the map of the engines locked; what it has added is
\* there, and something is left to become the default when it has removed.
EnginesKept ==
    /\ \A t, u \in Thread : "engines" \in Keeps(th[t].pc) \cap Keeps(th[u].pc) => t = u
    /\ \A t \in Thread : /\ th[t].pc = "add_default" => th[t].model \in engines
                         /\ th[t].pc = "remove_default" => engines # {}

\* What set_default_model_id has found registered still is.
ChosenKnown == \A t \in Thread : th[t].pc = "set_default" => Known(th[t].model)

DefaultInv == FinishesKnown /\ EnginesKept /\ ChosenKnown /\ DefaultRegistered

=============================================================================
