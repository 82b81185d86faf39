------------------------ MODULE ModelRegistryProofs ------------------------
(***************************************************************************)
(* Proofs about ModelRegistry, for any number of threads, models and calls.*)
(***************************************************************************)
EXTENDS ModelRegistry, FiniteSetTheorems, TLAPS

-----------------------------------------------------------------------------
(* Where a call may be. *)

\* The operations whose calls take a step at pc.
LEMMA WhoIsAt ==
  ASSUME NEW op, NEW pc, pc \in Places(op)
  PROVE  /\ pc \in SenderSteps => op \in {"send", "send_default"}
         /\ pc \in EvictSteps => op \in {"send", "send_default"} /\ AutoEvict
         /\ pc \in LoadSteps => op \in {"send", "send_default", "reload"}
         /\ pc \in UnloadSteps => /\ op \in {"unload", "send", "send_default", "reload"}
                                  /\ op # "unload" => AutoEvict
         /\ pc \in {"reload_check", "reload_mark"} => op = "reload"
         /\ pc \in {"remove_take", "remove_default"} => op = "remove"
         /\ pc \in {"set_check", "set_default", "set_mirror"} => op = "set_default"
         /\ pc \in {"add_insert", "add_default"} => op = "add"
         /\ pc = "add_store" => op = "add_unloaded"
         /\ pc \in {"add_reloading", "add_engines", "add_check"} => op \in {"add", "add_unloaded"}
BY DEF Places, SenderSteps, EvictSteps, LoadSteps, UnloadSteps

\* The steps of a call of op.
LEMMA StepsOf ==
  ASSUME NEW op
  PROVE  /\ op \in {"send", "send_default"} =>
              /\ SenderSteps \cup LoadSteps \subseteq Places(op)
              /\ AutoEvict => EvictSteps \cup UnloadSteps \subseteq Places(op)
              /\ Backs(op) = {"evict_stale", "evict", "refit"}
         /\ op = "reload" =>
              /\ {"reload_check", "reload_mark"} \cup LoadSteps \subseteq Places(op)
              /\ AutoEvict => UnloadSteps \subseteq Places(op)
              /\ Backs(op) = {"refit"}
         /\ op = "unload" => Places(op) = UnloadSteps /\ Backs(op) = {"idle"}
         /\ op = "remove" => Places(op) = {"remove_take", "remove_default"}
         /\ op = "set_default" => Places(op) = {"set_check", "set_default", "set_mirror"}
         /\ op = "add" =>
              Places(op) = {"add_reloading", "add_engines", "add_check", "add_insert", "add_default"}
         /\ op = "add_unloaded" =>
              Places(op) = {"add_reloading", "add_engines", "add_check", "add_store"}
BY DEF Places, Backs

\* A place is one of the steps.
LEMMA StepsTyped ==
  ASSUME NEW op PROVE Places(op) \subseteq Steps
BY DEF Places, Steps, SenderSteps, EvictSteps, LoadSteps, UnloadSteps, OtherSteps

\* A call that changes into a well-formed one.
LEMMA CallMoves ==
  ASSUME CallsOK, NEW t \in Thread, NEW c, c \in CallState, c.op = th[t].op,
         \/ c.pc = "idle"
         \/ c.pc \in Places(c.op) /\ c.model \in Model /\ c.victim \in Model,
         c.pc \in UnloadSteps => c.back \in Backs(c.op),
         th' = [th EXCEPT ![t] = c]
  PROVE  CallsOK'
<1>1. WellFormed(c)
  BY DEF WellFormed
<1> QED
  BY <1>1 DEF CallsOK

\* A call that goes elsewhere, perhaps with another result.
LEMMA GoType ==
  ASSUME CallsOK, NEW t \in Thread, NEW pc, NEW r \in Results, th[t].pc # "idle",
         Go(t, pc) \/ th' = [th EXCEPT ![t].pc = pc, ![t].result = r],
         pc = "idle" \/ pc \in Places(th[t].op) \ UnloadSteps \/
           (pc \in Places(th[t].op) /\ th[t].pc \in UnloadSteps)
  PROVE  CallsOK'
<1> DEFINE old == th[t]
           c == [old EXCEPT !.pc = pc]
           d == [c EXCEPT !.result = r]
<1>0. pc \in Steps \cup {"idle"}
  BY StepsTyped
<1>1. old \in CallState /\ WellFormed(old) /\ old.pc # "idle"
  BY DEF CallsOK
<1>2. th' = [th EXCEPT ![t] = c] \/ th' = [th EXCEPT ![t] = d]
  BY DEF Go, CallsOK
<1> HIDE DEF old
<1>3. /\ c \in CallState /\ c.pc = pc /\ c.op = old.op /\ c.back = old.back
      /\ c.model = old.model /\ c.victim = old.victim
  BY <1>0, <1>1 DEF CallState
<1>4. /\ d \in CallState /\ d.pc = pc /\ d.op = old.op /\ d.back = old.back
      /\ d.model = old.model /\ d.victim = old.victim
  BY <1>0, <1>1 DEF CallState
<1>5. /\ old.model \in Model /\ old.victim \in Model
      /\ old.pc \in UnloadSteps => old.back \in Backs(old.op)
  BY <1>1 DEF WellFormed
<1> HIDE DEF c, d
<1>6. pc \in UnloadSteps => old.back \in Backs(old.op)
  <2>1. pc # "idle" \/ pc \notin UnloadSteps
    BY DEF UnloadSteps
  <2> QED
    BY <1>5, <2>1 DEF old
<1> QED
  BY <1>2, <1>3, <1>4, <1>5, <1>6, CallMoves DEF old

\* A call that returns.
LEMMA ReturnType ==
  ASSUME CallsOK, NEW t \in Thread, NEW r \in Results, Return(t, r), th[t].pc # "idle"
  PROVE  CallsOK'
<1>1. th' = [th EXCEPT ![t].pc = "idle", ![t].result = r]
  BY DEF Return
<1> QED
  BY <1>1, GoType

\* A call that unloads v and comes back to b.
LEMMA UnloadType ==
  ASSUME CallsOK, NEW t \in Thread, NEW v \in Model, NEW b \in Backs(th[t].op), Unload(t, v, b),
         th[t].pc # "idle", "unload_check" \in Places(th[t].op)
  PROVE  CallsOK'
<1> DEFINE old == th[t]
           c == [old EXCEPT !.pc = "unload_check", !.victim = v, !.back = b]
<1>1. old \in CallState /\ WellFormed(old) /\ old.pc # "idle"
  BY DEF CallsOK
<1>2. th' = [th EXCEPT ![t] = c]
  BY DEF Unload, CallsOK
<1>3. b \in {"idle", "evict_stale", "evict", "refit"} /\ "unload_check" \in Steps
  BY DEF Backs, Steps, UnloadSteps
<1> HIDE DEF old
<1>4. /\ c \in CallState /\ c.pc = "unload_check" /\ c.op = old.op /\ c.back = b
      /\ c.model = old.model /\ c.victim = v
  BY <1>1, <1>3 DEF CallState
<1>5. old.model \in Model
  BY <1>1 DEF WellFormed
<1> HIDE DEF c
<1> QED
  BY <1>2, <1>4, <1>5, CallMoves DEF old

\* A request that finds the default model m and goes on to pc.
LEMMA ResolveType ==
  ASSUME CallsOK, NEW t \in Thread, NEW m \in Model, NEW pc \in SenderSteps,
         th' = [th EXCEPT ![t].pc = pc, ![t].model = m],
         th[t].pc # "idle", pc \in Places(th[t].op)
  PROVE  CallsOK'
<1> DEFINE old == th[t]
           c == [old EXCEPT !.pc = pc, !.model = m]
<1>1. old \in CallState /\ WellFormed(old) /\ old.pc # "idle"
  BY DEF CallsOK
<1>2. th' = [th EXCEPT ![t] = c]
  BY DEF CallsOK
<1>3. pc \in Steps /\ pc \notin UnloadSteps
  BY DEF Steps, SenderSteps, UnloadSteps
<1> HIDE DEF old
<1>4. /\ c \in CallState /\ c.pc = pc /\ c.op = old.op
      /\ c.model = m /\ c.victim = old.victim
  BY <1>1, <1>3 DEF CallState
<1>5. old.victim \in Model
  BY <1>1 DEF WellFormed
<1> HIDE DEF c
<1> QED
  BY <1>2, <1>3, <1>4, <1>5, CallMoves DEF old

\* A request notes the engines to evict.
LEMMA EvictIdleType ==
  ASSUME TypeOK, NEW t \in Thread, EvictIdle(t)
  PROVE  CallsOK'
<1> DEFINE old == th[t]
<1>1. old \in CallState /\ WellFormed(old) /\ old.pc = "evict_idle"
  BY DEF TypeOK, CallsOK, EvictIdle, At
<1>2. PICK s \in SUBSET Idle(old.model) :
        th' = [th EXCEPT ![t].pc = "evict_stale", ![t].stale = s]
  BY DEF EvictIdle
<1> DEFINE c == [old EXCEPT !.pc = "evict_stale", !.stale = s]
<1>3. th' = [th EXCEPT ![t] = c] /\ s \subseteq Model
  BY <1>2 DEF TypeOK, MapsOK, CallsOK, Idle
<1>4. old.op \in {"send", "send_default"} /\ AutoEvict /\ old.model \in Model /\ old.victim \in Model
  BY <1>1, WhoIsAt DEF WellFormed, EvictSteps
<1> HIDE DEF old
<1>5. "evict_stale" \in Places(old.op) \ UnloadSteps
  BY <1>4, StepsOf DEF EvictSteps, UnloadSteps
<1>6. /\ c \in CallState /\ c.pc = "evict_stale" /\ c.op = old.op
      /\ c.model = old.model /\ c.victim = old.victim
  BY <1>1, <1>3, <1>5, StepsTyped DEF CallState
<1> HIDE DEF c
<1> QED
  BY <1>3, <1>4, <1>5, <1>6, CallMoves DEF old, TypeOK

\* A request evicts one of them, or goes on.
LEMMA EvictStaleType ==
  ASSUME TypeOK, NEW t \in Thread, EvictStale(t)
  PROVE  CallsOK'
<1> DEFINE old == th[t]
<1>1. old \in CallState /\ WellFormed(old) /\ old.pc = "evict_stale"
  BY DEF TypeOK, CallsOK, EvictStale
<1>2. old.op \in {"send", "send_default"} /\ AutoEvict /\ old.model \in Model /\ old.stale \subseteq Model
  BY <1>1, WhoIsAt DEF WellFormed, EvictSteps, CallState
<1>3. /\ "unload_check" \in Places(old.op) /\ "evict_stale" \in Backs(old.op)
      /\ "estimate" \in Places(old.op) \ UnloadSteps
  <2> HIDE DEF old
  <2> QED
    BY <1>2, StepsOf DEF EvictSteps, UnloadSteps
<1>4. ASSUME NEW m \in old.stale,
             th' = [th EXCEPT ![t].pc = "unload_check", ![t].victim = m, ![t].back = "evict_stale",
                              ![t].stale = @ \ {m}]
      PROVE  CallsOK'
  <2> DEFINE c == [old EXCEPT !.pc = "unload_check", !.victim = m, !.back = "evict_stale",
                              !.stale = old.stale \ {m}]
  <2>1. th' = [th EXCEPT ![t] = c]
    BY <1>4 DEF TypeOK, CallsOK
  <2> HIDE DEF old
  <2>2. /\ c \in CallState /\ c.pc = "unload_check" /\ c.op = old.op /\ c.back = "evict_stale"
        /\ c.model = old.model /\ c.victim = m
    BY <1>1, <1>2, <1>3, StepsTyped DEF CallState
  <2> HIDE DEF c
  <2> QED
    BY <1>2, <1>3, <2>1, <2>2, CallMoves DEF old, TypeOK
<1>5. CASE Go(t, "estimate")
  BY <1>1, <1>3, <1>5, GoType DEF TypeOK, Results
<1> QED
  BY <1>4, <1>5 DEF EvictStale

\* A load finds the unloaded state, or returns.
LEMMA ReloadGetType ==
  ASSUME TypeOK, NEW t \in Thread, ReloadGet(t)
  PROVE  CallsOK'
<1> DEFINE old == th[t]
           c == [old EXCEPT !.pc = "load", !.back = "idle", !.skipped = {}]
<1>1. old \in CallState /\ WellFormed(old) /\ old.pc = "reload_get"
  BY DEF TypeOK, CallsOK, ReloadGet
<1>2. old.op \in {"send", "send_default", "reload"} /\ old.model \in Model /\ old.victim \in Model
  BY <1>1, WhoIsAt DEF WellFormed, LoadSteps
<1>3. "load" \in Places(old.op) \ UnloadSteps
  <2> HIDE DEF old
  <2> QED
    BY <1>2, StepsOf DEF LoadSteps, UnloadSteps
<1>4. CASE th' = [th EXCEPT ![t].pc = "load", ![t].back = "idle", ![t].skipped = {}]
  <2>1. th' = [th EXCEPT ![t] = c]
    BY <1>4 DEF TypeOK, CallsOK
  <2> HIDE DEF old
  <2>2. /\ c \in CallState /\ c.pc = "load" /\ c.op = old.op
        /\ c.model = old.model /\ c.victim = old.victim
    BY <1>1, <1>3, StepsTyped DEF CallState
  <2> HIDE DEF c
  <2> QED
    BY <1>2, <1>3, <2>1, <2>2, CallMoves DEF old, TypeOK
<1>5. CASE Return(t, "not_found")
  BY <1>1, <1>5, ReturnType DEF TypeOK, Results
<1> QED
  BY <1>4, <1>5 DEF ReloadGet

\* Where an unload comes back to.
LEMMA BackType ==
  ASSUME TypeOK, NEW t \in Thread, th[t].pc \in UnloadSteps
  PROVE  /\ th[t].back = "idle" \/ th[t].back \in Places(th[t].op) \ UnloadSteps
         /\ th[t].back = "refit" => "load" \in Places(th[t].op) \ UnloadSteps
         /\ UnloadSteps \subseteq Places(th[t].op) /\ th[t].pc # "idle"
<1> DEFINE old == th[t]
<1>1. /\ old.pc \in Places(old.op) /\ old.back \in Backs(old.op) /\ old.pc \in UnloadSteps
      /\ old.pc # "idle"
  BY DEF TypeOK, CallsOK, WellFormed, UnloadSteps
<1> HIDE DEF old
<1>2. /\ old.op \in {"unload", "send", "send_default", "reload"}
      /\ old.op # "unload" => AutoEvict
  BY <1>1, WhoIsAt
<1> QED
  BY <1>1, <1>2, StepsOf DEF old, EvictSteps, LoadSteps, UnloadSteps

\* An eviction that fails.
LEMMA UnloadFailsType ==
  ASSUME TypeOK, NEW t \in Thread, NEW r \in Results, UnloadFails(t, r), th[t].pc \in UnloadSteps
  PROVE  CallsOK'
<1> DEFINE old == th[t]
           k == IF old.back = "evict_stale" THEN old.skipped ELSE old.skipped \cup {old.victim}
           c == [old EXCEPT !.pc = old.back, !.skipped = k]
<1>1. /\ old \in CallState /\ WellFormed(old) /\ old.pc # "idle"
      /\ old.model \in Model /\ old.victim \in Model /\ old.skipped \subseteq Model
  BY DEF TypeOK, CallsOK, WellFormed, CallState, UnloadSteps
<1>2. old.back = "idle" \/ old.back \in Places(old.op) \ UnloadSteps
  BY BackType
<1>3. CASE old.back # "idle"
  <2>1. th' = [th EXCEPT ![t] = c]
    BY <1>3 DEF TypeOK, CallsOK, UnloadFails
  <2> HIDE DEF old
  <2>2. /\ c \in CallState /\ c.pc = old.back /\ c.op = old.op
        /\ c.model = old.model /\ c.victim = old.victim
    BY <1>1, <1>2, <1>3, StepsTyped DEF CallState
  <2> HIDE DEF c
  <2> QED
    BY <1>1, <1>2, <1>3, <2>1, <2>2, CallMoves DEF old, TypeOK
<1>4. CASE old.back = "idle"
  BY <1>1, <1>4, ReturnType DEF TypeOK, UnloadFails
<1> QED
  BY <1>3, <1>4

\* A call inside op is at one of its steps.
LEMMA InsideType ==
  ASSUME CallsOK, NEW t \in Thread, th[t].pc # "idle"
  PROVE  /\ th[t].pc \in Places(th[t].op) /\ th[t].model \in Model /\ th[t].victim \in Model
         /\ th[t] \in CallState
BY DEF CallsOK, WellFormed

\* The steps of get_sender and of the dispatch.
LEMMA GetSenderType ==
  ASSUME TypeOK, NEW t \in Thread, GetSender(t) \/ TimeOut(t)
  PROVE  CallsOK'
<1>1. th[t].pc \in SenderSteps /\ th[t].pc # "idle"
  BY DEF GetSender, Resolve, IsLoaded, EngineDead, Reboot, Pick, IsUnloaded, IsReloading, Claim,
         WaitForReload, ResolveAgain, Dispatch, TimeOut, At, SenderSteps
<1>2. /\ SenderSteps \cup {"reload_get"} \subseteq Places(th[t].op) \ UnloadSteps
      /\ AutoEvict => "evict_idle" \in Places(th[t].op) \ UnloadSteps
  <2>1. th[t].op \in {"send", "send_default"}
    BY <1>1, InsideType, WhoIsAt DEF TypeOK
  <2> QED
    BY <2>1, StepsOf DEF SenderSteps, LoadSteps, EvictSteps, UnloadSteps
<1>3. \A pc : Go(t, pc) /\ (pc \in SenderSteps \cup {"reload_get"} \/ (AutoEvict /\ pc = "evict_idle"))
                => CallsOK'
  BY <1>1, <1>2, GoType DEF TypeOK, Results
<1>4. \A r \in Results : Return(t, r) => CallsOK'
  BY <1>1, ReturnType DEF TypeOK
<1>5. ASSUME NEW pc \in SenderSteps, ResolveDefault(t, pc)
      PROVE  CallsOK'
  <2>1. CASE Return(t, "not_found")
    BY <1>4, <2>1 DEF Results
  <2>2. ASSUME NEW m \in Model, th' = [th EXCEPT ![t].pc = pc, ![t].model = m]
        PROVE  CallsOK'
    BY <1>1, <1>2, <2>2, ResolveType DEF TypeOK
  <2> QED
    BY <1>5, <2>1, <2>2 DEF ResolveDefault, TypeOK, MapsOK
<1>6. CASE Resolve(t) \/ ResolveAgain(t)
  BY <1>5, <1>6 DEF Resolve, ResolveAgain, SenderSteps
<1>7. CASE IsLoaded(t) \/ Pick(t) \/ IsUnloaded(t) \/ Claim(t) \/ WaitForReload(t)
  BY <1>3, <1>7 DEF IsLoaded, Pick, IsUnloaded, Claim, WaitForReload, SenderSteps
<1>8. CASE EngineDead(t) \/ Reboot(t) \/ IsReloading(t) \/ Dispatch(t) \/ TimeOut(t)
  BY <1>3, <1>4, <1>8 DEF EngineDead, Reboot, IsReloading, Dispatch, TimeOut, SenderSteps, Results
<1> QED
  BY <1>6, <1>7, <1>8 DEF GetSender

\* The steps of evict_for_request.
LEMMA EvictForRequestType ==
  ASSUME TypeOK, NEW t \in Thread, EvictForRequest(t)
  PROVE  CallsOK'
<1>1. th[t].pc \in EvictSteps /\ th[t].pc # "idle"
  BY DEF EvictForRequest, EvictIdle, EvictStale, Estimate, Evict, At, EvictSteps
<1>2. /\ {"evict", "reload_get", "unmark"} \subseteq Places(th[t].op) \ UnloadSteps
      /\ "unload_check" \in Places(th[t].op) /\ "evict" \in Backs(th[t].op)
  <2>1. th[t].op \in {"send", "send_default"} /\ AutoEvict
    BY <1>1, InsideType, WhoIsAt DEF TypeOK
  <2> QED
    BY <2>1, StepsOf DEF LoadSteps, EvictSteps, UnloadSteps
<1>3. ASSUME NEW pc \in {"evict", "reload_get", "unmark"}, NEW r \in {"failed", "not_found"},
             Go(t, pc) \/ th' = [th EXCEPT ![t].pc = pc, ![t].result = r]
      PROVE  CallsOK'
  BY <1>1, <1>2, <1>3, GoType DEF TypeOK, Results
<1>4. CASE Estimate(t)
  BY <1>3, <1>4 DEF Estimate
<1>5. ASSUME NEW m \in Idle(th[t].model), Unload(t, m, "evict")
      PROVE  CallsOK'
  BY <1>1, <1>2, <1>5, UnloadType DEF TypeOK, MapsOK, Idle
<1>6. CASE Evict(t)
  BY <1>3, <1>5, <1>6 DEF Evict
<1> QED
  BY <1>4, <1>6, EvictIdleType, EvictStaleType DEF EvictForRequest

\* The steps of a load but the last.
LEMMA ReloadType ==
  ASSUME TypeOK, NEW t \in Thread, Reload(t), ~Bump(t)
  PROVE  CallsOK'
<1>1. th[t].pc \in LoadSteps \cup {"reload_check", "reload_mark"} /\ th[t].pc # "idle"
  BY DEF Reload, ReloadCheck, ReloadMark, ReloadGet, Load, Refit, Insert, LoadDefault, LoadDone,
         Unmark, At, LoadSteps
<1>2. /\ LoadSteps \subseteq Places(th[t].op) \ UnloadSteps
      /\ AutoEvict => "unload_check" \in Places(th[t].op)
      /\ th[t].pc \in {"reload_check", "reload_mark"} => "reload_mark" \in Places(th[t].op) \ UnloadSteps
      /\ "refit" \in Backs(th[t].op)
  <2>1. /\ th[t].op \in {"send", "send_default", "reload"}
        /\ th[t].pc \in {"reload_check", "reload_mark"} => th[t].op = "reload"
    BY <1>1, InsideType, WhoIsAt DEF TypeOK
  <2> QED
    BY <2>1, StepsOf DEF LoadSteps, UnloadSteps
<1>3. ASSUME NEW pc \in LoadSteps, NEW r \in Results,
             Go(t, pc) \/ th' = [th EXCEPT ![t].pc = pc, ![t].result = r]
      PROVE  CallsOK'
  BY <1>1, <1>2, <1>3, GoType DEF TypeOK
<1>4. CASE ReloadCheck(t)
  <2>1. CASE Return(t, "reloading")
    BY <1>1, <2>1, ReturnType DEF TypeOK, Results
  <2>2. CASE Go(t, "reload_mark")
    BY <1>1, <1>2, <1>4, <2>2, GoType DEF ReloadCheck, TypeOK, Results
  <2> QED
    BY <1>4, <2>1, <2>2 DEF ReloadCheck
<1>5. CASE ReloadMark(t) \/ Load(t) \/ Insert(t) \/ LoadDefault(t) \/ LoadDone(t) \/ Unmark(t)
  BY <1>3, <1>5 DEF ReloadMark, Load, Insert, LoadDefault, LoadDone, Unmark, LoadSteps, Results
<1>6. ASSUME NEW m \in Idle(th[t].model), Unload(t, m, "refit"), AutoEvict
      PROVE  CallsOK'
  BY <1>1, <1>2, <1>6, UnloadType DEF TypeOK, MapsOK, Idle
<1>7. CASE Refit(t)
  BY <1>3, <1>6, <1>7 DEF Refit, LoadSteps, Results
<1> QED
  BY <1>4, <1>5, <1>7, ReloadGetType DEF Reload

\* The last step of a load, which wakes the others.
LEMMA BumpType ==
  ASSUME TypeOK, NEW t \in Thread, Bump(t)
  PROVE  CallsOK'
<1>1. th[t].pc = "bump" /\ AfterLoad(t) \in {"is_loaded", "idle"}
  BY DEF Bump, AfterLoad
<1>2. AfterLoad(t) = "is_loaded" => IsRequest(t)
  BY DEF AfterLoad
<1>3. ASSUME NEW c \in CallState, WellFormed(c), NEW pc \in {"is_loaded", "idle"},
             pc = "is_loaded" => c.op \in {"send", "send_default"}, c.pc # "idle"
      PROVE  [c EXCEPT !.pc = pc] \in CallState /\ WellFormed([c EXCEPT !.pc = pc])
  <2> DEFINE d == [c EXCEPT !.pc = pc]
  <2>1. pc = "idle" \/ (pc \in Places(c.op) /\ c.model \in Model /\ c.victim \in Model)
    BY <1>3, StepsOf DEF SenderSteps, WellFormed
  <2>2. pc \in Steps \cup {"idle"} /\ pc \notin UnloadSteps
    BY DEF Steps, SenderSteps, UnloadSteps
  <2>3. d \in CallState /\ d.pc = pc /\ d.op = c.op /\ d.model = c.model /\ d.victim = c.victim
    BY <2>2 DEF CallState
  <2> HIDE DEF d
  <2>4. WellFormed(d)
    BY <2>1, <2>2, <2>3 DEF WellFormed
  <2> QED
    BY <2>3, <2>4 DEF d
<1>4. ASSUME NEW u \in Thread
      PROVE  th'[u] \in CallState /\ WellFormed(th'[u])
  <2>1. th[u] \in CallState /\ WellFormed(th[u])
    BY DEF TypeOK, CallsOK
  <2>2. CASE u = t
    BY <1>1, <1>2, <1>3, <2>1, <2>2 DEF Bump, IsRequest
  <2>3. CASE u # t /\ th[u].pc = "asleep"
    <3>1. th[u].op \in {"send", "send_default"}
      BY <2>3, InsideType, WhoIsAt DEF TypeOK, SenderSteps
    <3> QED
      BY <1>3, <2>1, <2>3, <3>1 DEF Bump
  <2>4. CASE u # t /\ th[u].pc # "asleep"
    BY <2>1, <2>4 DEF Bump
  <2> QED
    BY <2>2, <2>3, <2>4
<1>5. th' = [u \in Thread |-> th'[u]]
  BY DEF Bump
<1> QED
  BY <1>4, <1>5 DEF CallsOK

\* The steps of an unload.
LEMMA UnloadModelType ==
  ASSUME TypeOK, NEW t \in Thread, UnloadModel(t)
  PROVE  CallsOK'
<1>1. th[t].pc \in UnloadSteps /\ th[t].pc # "idle"
  BY DEF UnloadModel, UnloadCheck, UnloadTake, UnloadStore, At, UnloadSteps
<1>2. /\ th[t].back = "idle" \/ th[t].back \in Places(th[t].op) \ UnloadSteps
      /\ th[t].back = "refit" => "load" \in Places(th[t].op) \ UnloadSteps
      /\ UnloadSteps \subseteq Places(th[t].op)
  BY <1>1, BackType
<1>3. \A pc \in UnloadSteps : Go(t, pc) => CallsOK'
  BY <1>1, <1>2, GoType DEF TypeOK, Results
<1>4. \A r \in Results : UnloadFails(t, r) => CallsOK'
  BY <1>1, UnloadFailsType
<1>5. CASE UnloadCheck(t) \/ UnloadTake(t)
  BY <1>3, <1>4, <1>5 DEF UnloadCheck, UnloadTake, UnloadSteps, Results
<1>6. CASE UnloadStore(t)
  <2> DEFINE pc == IF th[t].back = "refit" THEN "load" ELSE th[t].back
  <2>1. Go(t, pc) /\ (pc = "idle" \/ pc \in Places(th[t].op) \ UnloadSteps)
    BY <1>2, <1>6 DEF UnloadStore
  <2> HIDE DEF pc
  <2> QED
    BY <1>1, <2>1, GoType DEF TypeOK, Results
<1> QED
  BY <1>5, <1>6 DEF UnloadModel

\* The steps of the other operations.
LEMMA AdministerType ==
  ASSUME TypeOK, NEW t \in Thread, Administer(t)
  PROVE  CallsOK'
<1>1. th[t].pc # "idle"
  BY DEF Administer, RemoveTake, RemoveDefault, SetCheck, SetDefault, SetMirror, AddCheckReloading,
         AddCheckEngines, AddCheckUnloaded, AddStore, AddInsert, AddDefault, At
<1>2. th[t].pc \in Places(th[t].op)
  BY <1>1, InsideType DEF TypeOK
<1>3. ASSUME NEW pc, Go(t, pc), pc \in Places(th[t].op) \ UnloadSteps
      PROVE  CallsOK'
  BY <1>1, <1>3, GoType DEF TypeOK, Results
<1>4. \A r \in Results : Return(t, r) => CallsOK'
  BY <1>1, ReturnType DEF TypeOK
<1>5. CASE RemoveTake(t) \/ RemoveDefault(t)
  <2>0. th[t].pc \in {"remove_take", "remove_default"}
    BY <1>5 DEF RemoveTake, RemoveDefault, At
  <2>1. th[t].op = "remove"
    BY <1>2, <2>0, WhoIsAt
  <2>2. "remove_default" \in Places(th[t].op) \ UnloadSteps
    BY <2>1, StepsOf DEF UnloadSteps
  <2> QED
    BY <1>3, <1>4, <1>5, <2>2 DEF RemoveTake, RemoveDefault, Results
<1>6. CASE SetCheck(t) \/ SetDefault(t) \/ SetMirror(t)
  <2>1. th[t].op = "set_default"
    BY <1>2, <1>6, WhoIsAt DEF SetCheck, SetDefault, SetMirror, At
  <2>2. {"set_default", "set_mirror"} \subseteq Places(th[t].op) \ UnloadSteps
    BY <2>1, StepsOf DEF UnloadSteps
  <2> QED
    BY <1>3, <1>4, <1>6, <2>2 DEF SetCheck, SetDefault, SetMirror, Results
<1>7. CASE AddCheckReloading(t) \/ AddCheckEngines(t) \/ AddCheckUnloaded(t)
  <2>1. th[t].op \in {"add", "add_unloaded"}
    BY <1>2, <1>7, WhoIsAt DEF AddCheckReloading, AddCheckEngines, AddCheckUnloaded, At
  <2>2. /\ {"add_engines", "add_check"} \subseteq Places(th[t].op) \ UnloadSteps
        /\ th[t].op = "add" => "add_insert" \in Places(th[t].op) \ UnloadSteps
        /\ th[t].op # "add" => "add_store" \in Places(th[t].op) \ UnloadSteps
    BY <2>1, StepsOf DEF UnloadSteps
  <2> QED
    BY <1>3, <1>4, <1>7, <2>2 DEF AddCheckReloading, AddCheckEngines, AddCheckUnloaded, Results
<1>8. CASE AddStore(t) \/ AddInsert(t) \/ AddDefault(t)
  <2>1. AddInsert(t) => "add_default" \in Places(th[t].op) \ UnloadSteps
    <3>1. AddInsert(t) => th[t].op = "add"
      BY <1>2, WhoIsAt DEF AddInsert, At
    <3> QED
      BY <3>1, StepsOf DEF UnloadSteps
  <2> QED
    BY <1>3, <1>4, <1>8, <2>1 DEF AddStore, AddInsert, AddDefault, Results
<1> QED
  BY <1>5, <1>6, <1>7, <1>8 DEF Administer

\* A call begins with the first step of its operation.
LEMMA CallType ==
  ASSUME TypeOK, NEW t \in Thread, Call(t)
  PROVE  CallsOK'
<1>1. PICK op \in Ops, m \in Model :
        th' = [th EXCEPT ![t] = [op |-> op, pc |-> FirstStep[op], model |-> m, victim |-> m,
                                 back |-> "idle", stale |-> {}, skipped |-> {}, result |-> "ok"]]
  BY DEF Call
<1> DEFINE pc == FirstStep[op]
           c == [op |-> op, pc |-> pc, model |-> m, victim |-> m,
                 back |-> "idle", stale |-> {}, skipped |-> {}, result |-> "ok"]
<1>2. op \in {"send", "send_default", "unload", "reload", "remove", "set_default", "add",
              "add_unloaded"}
  BY RegistryAssumption
<1>3. pc \in Places(op) /\ (pc \in UnloadSteps => op = "unload")
  BY <1>2 DEF FirstStep, Places, SenderSteps, LoadSteps, UnloadSteps
<1> HIDE DEF pc
<1>4. /\ c \in CallState /\ c.op = op /\ c.pc = pc /\ c.model \in Model /\ c.victim \in Model
      /\ c.back = "idle"
  BY <1>3, StepsTyped DEF CallState, Results
<1> HIDE DEF c
<1>5. WellFormed(c)
  BY <1>3, <1>4, StepsOf DEF WellFormed
<1> QED
  BY <1>1, <1>4, <1>5 DEF TypeOK, CallsOK, c, pc

\* The maps keep to the models, and a dead engine is in its map.
LEMMA MapsType ==
  ASSUME TypeOK, [Next]_vars
  PROVE  MapsOK'
<1>1. ASSUME NEW t \in Thread, Step(t)
      PROVE  MapsOK'
  <2>1. th[t].pc # "idle" => th[t].model \in Model /\ th[t].victim \in Model
    BY InsideType DEF TypeOK
  <2>2. CASE GetSender(t) \/ EvictForRequest(t)
    BY <2>1, <2>2 DEF GetSender, EvictForRequest, Resolve, IsLoaded, EngineDead, Reboot, Pick,
       IsUnloaded, IsReloading, Claim, WaitForReload, ResolveAgain, Dispatch, EvictIdle, EvictStale,
       Estimate, Evict, At, Put, engineVars, TypeOK, MapsOK
  <2>3. CASE Reload(t) \/ UnloadModel(t)
    BY <2>1, <2>3 DEF Reload, UnloadModel, ReloadCheck, ReloadMark, ReloadGet, Load, Refit, Insert,
       LoadDefault, LoadDone, Unmark, Bump, UnloadCheck, UnloadTake, UnloadStore, At, Put, Take,
       engineVars, TypeOK, MapsOK
  <2>4. CASE Administer(t) /\ ~RemoveTake(t)
    BY <2>1, <2>4 DEF Administer, RemoveDefault, SetCheck, SetDefault, SetMirror,
       AddCheckReloading, AddCheckEngines, AddCheckUnloaded, AddStore, AddInsert, AddDefault, At,
       Put, engineVars, TypeOK, MapsOK
  <2>5. CASE RemoveTake(t)
    <3>1. UNCHANGED <<unloaded, reloading, default>> /\ (Take(th[t].model, TRUE) \/ UNCHANGED engineVars)
      BY <2>5 DEF RemoveTake
    <3> QED
      BY <3>1 DEF Take, engineVars, TypeOK, MapsOK
  <2> QED
    BY <1>1, <2>2, <2>3, <2>4, <2>5 DEF Step
<1>2. ASSUME NEW t \in Thread, Call(t) \/ TimeOut(t)
      PROVE  MapsOK'
  BY <1>2 DEF Call, TimeOut, engineVars, TypeOK, MapsOK
<1>3. CASE EngineStep
  BY <1>3 DEF EngineStep, TypeOK, MapsOK
<1>4. CASE UNCHANGED vars
  BY <1>4 DEF vars, engineVars, TypeOK, MapsOK
<1> QED
  BY <1>1, <1>2, <1>3, <1>4 DEF Next

\* At the start nobody calls.
LEMMA InitType ==
  ASSUME Init PROVE TypeOK
<1>1. MapsOK
  BY RegistryAssumption DEF Init, MapsOK
<1> DEFINE c == [op |-> "none", pc |-> "idle", model |-> NoModel, victim |-> NoModel,
                 back |-> "idle", stale |-> {}, skipped |-> {}, result |-> "ok"]
<1>2. c \in CallState /\ c.pc = "idle"
  BY DEF CallState, Results
<1> HIDE DEF c
<1>3. WellFormed(c)
  BY <1>2 DEF WellFormed, UnloadSteps
<1>4. th = [t \in Thread |-> c]
  BY DEF Init, c
<1> QED
  BY <1>1, <1>2, <1>3, <1>4 DEF TypeOK, CallsOK

\* Every step keeps the types.
LEMMA NextType ==
  ASSUME TypeOK, [Next]_vars PROVE TypeOK'
<1>1. ASSUME NEW t \in Thread, Call(t) \/ Step(t) \/ TimeOut(t)
      PROVE  CallsOK'
  BY <1>1, CallType, GetSenderType, EvictForRequestType, ReloadType, BumpType, UnloadModelType,
     AdministerType DEF Step
<1>2. CASE EngineStep \/ UNCHANGED vars
  <2>1. th' = th
    BY <1>2 DEF EngineStep, vars
  <2> QED
    BY <2>1, MapsType DEF TypeOK, CallsOK
<1> QED
  BY <1>1, <1>2, MapsType DEF Next, TypeOK

\* Every call of MistralRs is at a step of its own operation, and comes back
\* from an eviction to where it left off, whatever the other threads call.
THEOREM CallsWellFormed == Spec => []TypeOK
<1>1. Init => TypeOK
  BY InitType
<1>2. TypeOK /\ [Next]_vars => TypeOK'
  BY NextType
<1> QED
  BY <1>1, <1>2, PTL DEF Spec

-----------------------------------------------------------------------------
(* What a step leaves alone. *)

\* The call of t, and no other, goes to pc with model m, victim v and back b.
Becomes(t, pc, m, v, b) ==
    /\ \A u \in Thread \ {t} : th'[u] = th[u]
    /\ th'[t].op = th[t].op /\ th'[t].pc = pc
    /\ th'[t].model = m /\ th'[t].victim = v /\ th'[t].back = b

Stays(t, pc) == Becomes(t, pc, th[t].model, th[t].victim, th[t].back)

\* A call only goes elsewhere, with another result, list of engines to evict or
\* to skip.
LEMMA GoStays ==
  ASSUME CallsOK, NEW t \in Thread, NEW pc, NEW x,
         \/ Go(t, pc) \/ th' = [th EXCEPT ![t].pc = pc, ![t].result = x]
         \/ th' = [th EXCEPT ![t].pc = pc, ![t].stale = x]
         \/ th' = [th EXCEPT ![t].pc = pc, ![t].skipped = x]
  PROVE  Stays(t, pc)
<1>1. th \in [Thread -> CallState] /\ th[t] \in CallState
  BY DEF CallsOK
<1>2. CASE Go(t, pc)
  BY <1>1, <1>2 DEF Go, Stays, Becomes, CallState
<1>3. CASE th' = [th EXCEPT ![t].pc = pc, ![t].result = x]
  BY <1>1, <1>3 DEF Stays, Becomes, CallState
<1>4. CASE th' = [th EXCEPT ![t].pc = pc, ![t].stale = x]
  BY <1>1, <1>4 DEF Stays, Becomes, CallState
<1>5. CASE th' = [th EXCEPT ![t].pc = pc, ![t].skipped = x]
  BY <1>1, <1>5 DEF Stays, Becomes, CallState
<1> QED
  BY <1>2, <1>3, <1>4, <1>5

\* A call that returns.
LEMMA ReturnStays ==
  ASSUME CallsOK, NEW t \in Thread, NEW r, Return(t, r)
  PROVE  Stays(t, "idle")
<1>1. th' = [th EXCEPT ![t].pc = "idle", ![t].result = r]
  BY DEF Return
<1> QED
  BY <1>1, GoStays

\* A call that unloads v.
LEMMA UnloadBecomes ==
  ASSUME CallsOK, NEW t \in Thread, NEW v, NEW b, Unload(t, v, b)
  PROVE  Becomes(t, "unload_check", th[t].model, v, b)
BY DEF CallsOK, Unload, Becomes, CallState

\* An eviction that fails.
LEMMA UnloadFailsStays ==
  ASSUME CallsOK, NEW t \in Thread, NEW r, UnloadFails(t, r)
  PROVE  Stays(t, th[t].back)
<1>1. CASE th[t].back = "idle"
  BY <1>1, ReturnStays DEF UnloadFails
<1>2. CASE th[t].back # "idle"
  <2> DEFINE k == IF th[t].back = "evict_stale" THEN th[t].skipped
                  ELSE th[t].skipped \cup {th[t].victim}
  <2>1. th' = [th EXCEPT ![t].pc = th[t].back, ![t].skipped = k]
    BY <1>2 DEF UnloadFails, CallsOK
  <2> HIDE DEF k
  <2> QED
    BY <2>1, GoStays
<1> QED
  BY <1>1, <1>2

\* A request that finds the default, or none.
LEMMA ResolveBecomes ==
  ASSUME TypeOK, NEW t \in Thread, NEW pc, ResolveDefault(t, pc)
  PROVE  \/ Stays(t, "idle")
         \/ \E m \in Model : Becomes(t, pc, m, th[t].victim, th[t].back)
<1>1. CASE Return(t, "not_found")
  BY <1>1, ReturnStays DEF TypeOK
<1>2. ASSUME NEW m \in Model, th' = [th EXCEPT ![t].pc = pc, ![t].model = m]
      PROVE  Becomes(t, pc, m, th[t].victim, th[t].back)
  BY <1>2 DEF TypeOK, CallsOK, Becomes, CallState
<1> QED
  BY <1>1, <1>2 DEF ResolveDefault, TypeOK, MapsOK

\* A request that evicts one of the engines that it has noted.
LEMMA EvictStaleBecomes ==
  ASSUME TypeOK, NEW t \in Thread, EvictStale(t)
  PROVE  \/ Stays(t, "estimate")
         \/ \E v \in Model : Becomes(t, "unload_check", th[t].model, v, "evict_stale")
<1>1. CASE Go(t, "estimate")
  BY <1>1, GoStays DEF TypeOK
<1>2. ASSUME NEW m \in th[t].stale,
             th' = [th EXCEPT ![t].pc = "unload_check", ![t].victim = m, ![t].back = "evict_stale",
                              ![t].stale = @ \ {m}]
      PROVE  m \in Model /\ Becomes(t, "unload_check", th[t].model, m, "evict_stale")
  BY <1>2 DEF TypeOK, CallsOK, Becomes, CallState
<1> QED
  BY <1>1, <1>2 DEF EvictStale

\* A load that finds the unloaded state, or none.
LEMMA ReloadGetBecomes ==
  ASSUME TypeOK, NEW t \in Thread, ReloadGet(t)
  PROVE  IF th[t].model \in unloaded THEN Becomes(t, "load", th[t].model, th[t].victim, "idle")
         ELSE Stays(t, "idle")
<1>1. CASE th[t].model \in unloaded
  BY <1>1 DEF ReloadGet, TypeOK, CallsOK, Becomes, CallState
<1>2. CASE th[t].model \notin unloaded
  BY <1>2, ReturnStays DEF ReloadGet, TypeOK
<1> QED
  BY <1>1, <1>2

\* A step of t changes the call of t only, and not its operation.
LEMMA StepFrame ==
  ASSUME TypeOK, NEW t \in Thread,
         \/ GetSender(t) \/ TimeOut(t) \/ EvictForRequest(t) \/ UnloadModel(t)
         \/ Reload(t) /\ ~Bump(t)
  PROVE  (\A u \in Thread \ {t} : th'[u] = th[u]) /\ th'[t].op = th[t].op
<1> DEFINE Framed == (\A u \in Thread \ {t} : th'[u] = th[u]) /\ th'[t].op = th[t].op
<1>1. \A pc, m, v, b : Becomes(t, pc, m, v, b) => Framed
  BY DEF Becomes
<1>2. \A pc : Stays(t, pc) => Framed
  BY <1>1 DEF Stays
<1> SUFFICES Framed
  OBVIOUS
<1> HIDE DEF Framed
<1>3. \A pc : Go(t, pc) => Framed
  BY <1>2, GoStays DEF TypeOK
<1>4. \A r : Return(t, r) => Framed
  BY <1>2, ReturnStays DEF TypeOK
<1>5. /\ th' = [th EXCEPT ![t].pc = "unmark", ![t].result = "failed"] => Framed
      /\ th' = [th EXCEPT ![t].pc = "unmark", ![t].result = "not_found"] => Framed
  BY <1>2, GoStays DEF TypeOK
<1>6. \A v, b : Unload(t, v, b) => Framed
  BY <1>1, UnloadBecomes DEF TypeOK
<1>7. \A r : UnloadFails(t, r) => Framed
  BY <1>2, UnloadFailsStays DEF TypeOK
<1>8. CASE GetSender(t) \/ TimeOut(t)
  <2>1. \A pc : ResolveDefault(t, pc) => Framed
    BY <1>1, <1>2, ResolveBecomes
  <2>2. CASE Resolve(t) \/ ResolveAgain(t)
    BY <2>1, <2>2 DEF Resolve, ResolveAgain
  <2>3. CASE IsLoaded(t) \/ EngineDead(t) \/ Reboot(t) \/ Pick(t) \/ IsUnloaded(t)
    BY <1>3, <1>4, <2>3 DEF IsLoaded, EngineDead, Reboot, Pick, IsUnloaded
  <2>4. CASE IsReloading(t) \/ Claim(t) \/ WaitForReload(t) \/ Dispatch(t) \/ TimeOut(t)
    BY <1>3, <1>4, <2>4 DEF IsReloading, Claim, WaitForReload, Dispatch, TimeOut
  <2> QED
    BY <1>8, <2>2, <2>3, <2>4 DEF GetSender
<1>9. CASE EvictForRequest(t)
  <2>1. CASE EvictStale(t)
    BY <1>1, <1>2, <2>1, EvictStaleBecomes
  <2>2. CASE EvictIdle(t)
    <3>1. PICK s : th' = [th EXCEPT ![t].pc = "evict_stale", ![t].stale = s]
      BY <2>2 DEF EvictIdle
    <3> QED
      BY <1>2, <3>1, GoStays DEF TypeOK
  <2>3. CASE Estimate(t) \/ Evict(t)
    BY <1>3, <1>5, <1>6, <2>3 DEF Estimate, Evict
  <2> QED
    BY <1>9, <2>1, <2>2, <2>3 DEF EvictForRequest
<1>10. CASE Reload(t) /\ ~Bump(t)
  <2>1. CASE ReloadGet(t)
    BY <1>1, <1>2, <2>1, ReloadGetBecomes
  <2>2. CASE ReloadCheck(t) \/ ReloadMark(t) \/ Load(t) \/ Refit(t)
    BY <1>3, <1>4, <1>5, <1>6, <2>2 DEF ReloadCheck, ReloadMark, Load, Refit
  <2>3. CASE Insert(t) \/ LoadDefault(t) \/ LoadDone(t) \/ Unmark(t)
    BY <1>3, <2>3 DEF Insert, LoadDefault, LoadDone, Unmark
  <2> QED
    BY <1>10, <2>1, <2>2, <2>3 DEF Reload
<1>11. CASE UnloadModel(t)
  <2>1. CASE UnloadCheck(t) \/ UnloadTake(t) \/ UnloadStore(t)
    BY <1>3, <1>7, <2>1 DEF UnloadCheck, UnloadTake, UnloadStore
  <2> QED
    BY <1>11, <2>1 DEF UnloadModel
<1> QED
  BY <1>8, <1>9, <1>10, <1>11

-----------------------------------------------------------------------------
(* Locks. *)

\* Requests, loads and unloads keep no lock from one step to the next.
LEMMA KeepsNone ==
  ASSUME NEW op \in {"send", "send_default", "reload", "unload"}, NEW pc,
         pc = "idle" \/ pc \in Places(op)
  PROVE  Keeps(pc) = {}
BY DEF Keeps, Places, SenderSteps, EvictSteps, LoadSteps, UnloadSteps

\* What t keeps is what it keeps at its new place.
LEMMA LocksStep ==
  ASSUME TypeOK, LocksKept, NEW t \in Thread, \A u \in Thread \ {t} : th'[u] = th[u],
         \/ holds' = holds /\ Keeps(th'[t].pc) = Keeps(th[t].pc)
         \/ holds' = [holds EXCEPT ![t] = Keeps(th'[t].pc)]
  PROVE  LocksKept'
<1>1. \A u \in Thread : holds'[u] = Keeps(th'[u].pc)
  BY DEF LocksKept
<1>2. holds' = [u \in Thread |-> holds'[u]]
  BY DEF LocksKept
<1> QED
  BY <1>1, <1>2 DEF LocksKept

\* A step of a request, a load or an unload keeps no lock, leaves a default
\* alone, and takes no engine away unless it unloads.
LEMMA PlainStep ==
  ASSUME TypeOK, CallsOK', NEW t \in Thread,
         \/ GetSender(t) \/ TimeOut(t) \/ EvictForRequest(t) \/ UnloadModel(t)
         \/ Reload(t) /\ ~Bump(t)
  PROVE  /\ \A u \in Thread \ {t} : th'[u] = th[u]
         /\ Keeps(th[t].pc) = {} /\ Keeps(th'[t].pc) = {} /\ holds' = holds
         /\ default # NoModel => default' = default
         /\ UnloadModel(t) \/ engines \subseteq engines'
<1>1. (\A u \in Thread \ {t} : th'[u] = th[u]) /\ th'[t].op = th[t].op
  BY StepFrame
<1>2. th[t].pc \in SenderSteps \cup EvictSteps \cup LoadSteps \cup UnloadSteps
                    \cup {"reload_check", "reload_mark"}
  <2>1. GetSender(t) \/ TimeOut(t) => th[t].pc \in SenderSteps
    BY ZenonT(30) DEF GetSender, Resolve, IsLoaded, EngineDead, Reboot, Pick, IsUnloaded,
       IsReloading, Claim, WaitForReload, ResolveAgain, Dispatch, TimeOut, At, SenderSteps
  <2>2. EvictForRequest(t) => th[t].pc \in EvictSteps
    BY DEF EvictForRequest, EvictIdle, EvictStale, Estimate, Evict, At, EvictSteps
  <2>3. UnloadModel(t) => th[t].pc \in UnloadSteps
    BY DEF UnloadModel, UnloadCheck, UnloadTake, UnloadStore, At, UnloadSteps
  <2>4. Reload(t) /\ ~Bump(t) => th[t].pc \in LoadSteps \cup {"reload_check", "reload_mark"}
    BY DEF Reload, ReloadCheck, ReloadMark, ReloadGet, Load, Refit, Insert, LoadDefault, LoadDone,
       Unmark, At, LoadSteps
  <2> QED
    BY <2>1, <2>2, <2>3, <2>4
<1>3. th[t].pc # "idle"
  BY <1>2 DEF SenderSteps, EvictSteps, LoadSteps, UnloadSteps
<1>4. /\ holds' = holds
      /\ UnloadModel(t) \/ engines \subseteq engines'
      /\ default # NoModel => default' = default
  <2>1. CASE GetSender(t) \/ TimeOut(t)
    <3>1. CASE Reboot(t)
      BY <3>1 DEF Reboot, Put, engineVars
    <3>2. CASE Resolve(t) \/ IsLoaded(t) \/ EngineDead(t) \/ Pick(t) \/ IsUnloaded(t)
               \/ IsReloading(t)
      BY <3>2 DEF Resolve, IsLoaded, EngineDead, Pick, IsUnloaded, IsReloading, engineVars
    <3>3. CASE Claim(t) \/ WaitForReload(t) \/ ResolveAgain(t) \/ Dispatch(t) \/ TimeOut(t)
      BY <3>3, SMTT(40) DEF Claim, WaitForReload, ResolveAgain, Dispatch, TimeOut, engineVars
    <3> QED
      BY <2>1, <3>1, <3>2, <3>3 DEF GetSender
  <2>2. CASE EvictForRequest(t) \/ UnloadModel(t)
    BY <2>2 DEF EvictForRequest, EvictIdle, EvictStale, Estimate, Evict, UnloadModel, UnloadCheck,
       UnloadTake, UnloadStore, engineVars
  <2>3. CASE ReloadCheck(t) \/ ReloadMark(t) \/ ReloadGet(t) \/ Load(t) \/ Refit(t) \/ Unmark(t)
    BY <2>3 DEF ReloadCheck, ReloadMark, ReloadGet, Load, Refit, Unmark, engineVars
  <2>4. CASE Insert(t) \/ LoadDefault(t) \/ LoadDone(t)
    BY <2>4 DEF Insert, LoadDefault, LoadDone, Put, engineVars
  <2> QED
    BY <2>1, <2>2, <2>3, <2>4 DEF Reload
<1>5. th[t].pc \in Places(th[t].op) /\ th[t].op \in Ops \cup {"none"}
  BY <1>3, InsideType DEF TypeOK, CallState
<1>6. th[t].op \in {"send", "send_default", "reload", "unload"}
  BY <1>2, <1>5, WhoIsAt
<1>7. th'[t].pc = "idle" \/ th'[t].pc \in Places(th[t].op)
  BY <1>1 DEF CallsOK, WellFormed
<1>8. Keeps(th[t].pc) = {} /\ Keeps(th'[t].pc) = {}
  BY <1>5, <1>6, <1>7, KeepsNone
<1> QED
  BY <1>1, <1>4, <1>8

\* Every step keeps the locks that its place says.
LEMMA LocksNext ==
  ASSUME TypeOK, LocksKept, [Next]_vars
  PROVE  LocksKept'
<1>0. CallsOK'
  BY NextType DEF TypeOK
<1>1. ASSUME NEW t \in Thread,
             \/ GetSender(t) \/ TimeOut(t) \/ EvictForRequest(t) \/ UnloadModel(t)
             \/ Reload(t) /\ ~Bump(t)
      PROVE  LocksKept'
  <2>1. /\ \A u \in Thread \ {t} : th'[u] = th[u]
        /\ Keeps(th[t].pc) = {} /\ Keeps(th'[t].pc) = {} /\ holds' = holds
    BY <1>0, <1>1, PlainStep
  <2> QED
    BY <2>1, LocksStep
<1>2. ASSUME NEW t \in Thread, Bump(t)
      PROVE  LocksKept'
  <2>1. \A u \in Thread : Keeps(th'[u].pc) = Keeps(th[u].pc)
    <3>1. \A u \in Thread : \/ th'[u].pc = th[u].pc
                            \/ /\ th[u].pc \in {"asleep", "bump"}
                               /\ th'[u].pc \in {"is_loaded", "idle"}
      BY <1>2 DEF Bump, AfterLoad, TypeOK, CallsOK, CallState
    <3> QED
      BY <3>1 DEF Keeps
  <2> QED
    BY <1>2, <2>1 DEF LocksKept, Bump
<1>3. ASSUME NEW t \in Thread, Administer(t)
      PROVE  LocksKept'
  <2>1. ASSUME NEW pc, Stays(t, pc),
               \/ holds' = holds /\ Keeps(pc) = Keeps(th[t].pc)
               \/ holds' = [holds EXCEPT ![t] = Keeps(pc)]
        PROVE  LocksKept'
    BY <2>1, LocksStep DEF Stays, Becomes
  <2>2. \A pc : Go(t, pc) => Stays(t, pc)
    BY GoStays DEF TypeOK
  <2>3. \A r : Return(t, r) => Stays(t, "idle")
    BY ReturnStays DEF TypeOK
  <2>4. CASE RemoveTake(t)
    <3>1. th[t].pc = "remove_take"
      BY <2>4 DEF RemoveTake, At
    <3>2. \/ Go(t, "remove_default") /\ holds' = [holds EXCEPT ![t] = {"engines"}]
          \/ Return(t, "not_found") /\ holds' = holds
      BY <2>4 DEF RemoveTake
    <3> QED
      BY <2>1, <2>2, <2>3, <3>1, <3>2 DEF Keeps
  <2>5. CASE SetCheck(t) \/ AddCheckReloading(t) \/ AddCheckEngines(t) \/ AddCheckUnloaded(t)
             \/ AddStore(t)
    <3>1. /\ th[t].pc \in {"set_check", "add_reloading", "add_engines", "add_check", "add_store"}
          /\ holds' = holds
          /\ \/ \E pc \in {"set_default", "add_engines", "add_check", "add_insert", "add_store"} :
                  Go(t, pc)
             \/ \E r : Return(t, r)
      BY <2>5 DEF SetCheck, AddCheckReloading, AddCheckEngines, AddCheckUnloaded, AddStore, At
    <3> QED
      BY <2>1, <2>2, <2>3, <3>1 DEF Keeps
  <2>6. CASE RemoveDefault(t) \/ SetMirror(t) \/ AddDefault(t)
    <3>1. holds' = [holds EXCEPT ![t] = {}] /\ \E r : Return(t, r)
      BY <2>6 DEF RemoveDefault, SetMirror, AddDefault
    <3> QED
      BY <2>1, <2>3, <3>1 DEF Keeps
  <2>7. CASE SetDefault(t) \/ AddInsert(t)
    <3>1. \/ holds' = [holds EXCEPT ![t] = {"default"}] /\ Go(t, "set_mirror")
          \/ holds' = [holds EXCEPT ![t] = {"engines"}] /\ Go(t, "add_default")
      BY <2>7 DEF SetDefault, AddInsert
    <3> QED
      BY <2>1, <2>2, <3>1 DEF Keeps
  <2> QED
    BY <1>3, <2>4, <2>5, <2>6, <2>7 DEF Administer
<1>4. ASSUME NEW t \in Thread, Call(t)
      PROVE  LocksKept'
  <2>1. PICK op \in Ops, m \in Model :
          th' = [th EXCEPT ![t] = [op |-> op, pc |-> FirstStep[op], model |-> m, victim |-> m,
                                   back |-> "idle", stale |-> {}, skipped |-> {}, result |-> "ok"]]
    BY <1>4 DEF Call
  <2>2. (\A u \in Thread \ {t} : th'[u] = th[u]) /\ th'[t].pc = FirstStep[op]
    BY <2>1 DEF TypeOK, CallsOK
  <2>3. Keeps(FirstStep[op]) = {}
    BY RegistryAssumption DEF FirstStep, Keeps
  <2>4. Keeps(th[t].pc) = {} /\ holds' = holds
    BY <1>4 DEF Call, Keeps
  <2> QED
    BY <2>2, <2>3, <2>4, LocksStep
<1>5. CASE EngineStep \/ UNCHANGED vars
  <2>1. th' = th /\ holds' = holds
    BY <1>5 DEF EngineStep, vars
  <2> QED
    BY <2>1 DEF LocksKept
<1> QED
  BY <1>1, <1>2, <1>3, <1>4, <1>5 DEF Next, Step

\* A call keeps the map of the engines locked only between its removal or
\* insertion and the default, and the default only while set_default_model_id
\* reads the engine's category.
THEOREM LocksAreKept == Spec => [](TypeOK /\ LocksKept)
<1>1. Init => TypeOK /\ LocksKept
  <2>1. Init => LocksKept
    BY DEF Init, LocksKept, Keeps
  <2> QED
    BY <2>1, InitType
<1>2. TypeOK /\ LocksKept /\ [Next]_vars => (TypeOK /\ LocksKept)'
  BY NextType, LocksNext
<1> QED
  BY <1>1, <1>2, PTL DEF Spec

\* Without set_default_model_id beside remove_model or add_model no two threads
\* wait for each other's lock, and a call that returns keeps none.
THEOREM LocksInOrder ==
  ASSUME "set_default" \notin Ops \/ Ops \cap {"remove", "add"} = {}
  PROVE  Spec => []NoCircularWait
<1>1. TypeOK /\ LocksKept => NoCircularWait
  <2> SUFFICES ASSUME TypeOK, LocksKept PROVE NoCircularWait
    OBVIOUS
  <2>1. \A t \in Thread : holds[t] = Keeps(th[t].pc)
    BY DEF LocksKept
  <2>2. \A t \in Thread : /\ th[t].pc = "set_mirror" => "set_default" \in Ops
                          /\ th[t].pc \in {"remove_default", "add_default"} =>
                               "remove" \in Ops \/ "add" \in Ops
    <3> SUFFICES ASSUME NEW t \in Thread
                 PROVE  /\ th[t].pc = "set_mirror" => "set_default" \in Ops
                        /\ th[t].pc \in {"remove_default", "add_default"} =>
                             "remove" \in Ops \/ "add" \in Ops
      OBVIOUS
    <3>1. th[t].pc # "idle" => th[t].pc \in Places(th[t].op) /\ th[t].op \in Ops \cup {"none"}
      BY InsideType DEF TypeOK, CallState
    <3>2. /\ th[t].pc = "set_mirror" => th[t].op = "set_default"
          /\ th[t].pc = "remove_default" => th[t].op = "remove"
          /\ th[t].pc = "add_default" => th[t].op = "add"
      BY <3>1, WhoIsAt
    <3> QED
      BY <3>1, <3>2
  <2>3. ASSUME NEW t \in Thread, NEW u \in Thread, Blocks(t, u), Blocks(u, t)
        PROVE  FALSE
    <3>1. /\ Needs(th[u].pc) \cap Keeps(th[t].pc) # {}
          /\ Needs(th[t].pc) \cap Keeps(th[u].pc) # {}
      BY <2>1, <2>3 DEF Blocks
    <3>2. \/ /\ th[t].pc = "set_mirror" /\ th[u].pc \in {"remove_default", "add_default"}
          \/ /\ th[u].pc = "set_mirror" /\ th[t].pc \in {"remove_default", "add_default"}
      BY <3>1 DEF Needs, Keeps
    <3> QED
      BY <2>2, <3>2
  <2>4. \A t \in Thread : th[t].pc = "idle" => holds[t] = {}
    BY <2>1 DEF Keeps
  <2> QED
    BY <2>3, <2>4 DEF NoCircularWait
<1> QED
  BY <1>1, LocksAreKept, PTL

-----------------------------------------------------------------------------
(* Models that stay registered. *)

\* Where a step of get_sender or of the dispatch leads.
LEMMA SenderLeads ==
  ASSUME TypeOK, NEW t \in Thread, GetSender(t) \/ TimeOut(t)
  PROVE  th'[t].pc \in SenderSteps \cup {"evict_idle", "reload_get", "idle"}
<1>1. \A pc, m, v, b : Becomes(t, pc, m, v, b) => th'[t].pc = pc
  BY DEF Becomes
<1>2. \A pc : Go(t, pc) => th'[t].pc = pc
  BY <1>1, GoStays DEF TypeOK, Stays
<1>3. \A r : Return(t, r) => th'[t].pc = "idle"
  BY <1>1, ReturnStays DEF TypeOK, Stays
<1>4. \A pc : ResolveDefault(t, pc) => th'[t].pc \in {pc, "idle"}
  BY <1>1, ResolveBecomes DEF Stays
<1>5. CASE Resolve(t) \/ ResolveAgain(t)
  BY <1>4, <1>5 DEF Resolve, ResolveAgain, SenderSteps
<1>6. CASE IsLoaded(t) \/ EngineDead(t) \/ Reboot(t) \/ Pick(t) \/ IsUnloaded(t)
  BY <1>2, <1>3, <1>6 DEF IsLoaded, EngineDead, Reboot, Pick, IsUnloaded, SenderSteps
<1>7. CASE IsReloading(t) \/ Claim(t) \/ WaitForReload(t) \/ Dispatch(t) \/ TimeOut(t)
  BY <1>2, <1>3, <1>7 DEF IsReloading, Claim, WaitForReload, Dispatch, TimeOut, SenderSteps
<1> QED
  BY <1>5, <1>6, <1>7 DEF GetSender

\* A step in which remove_model takes the engine of m for good.
Removes(m) ==
    /\ m \in removed'
    /\ \E t \in Thread : /\ RemoveTake(t) /\ th[t].pc = "remove_take"
                         /\ th'[t].pc = "remove_default" /\ th'[t].model = m

\* What every step does to the registered models: they stay known, but for one
\* that is removed; and an unloaded state is dropped only with its model loaded
\* or overtaken.
ModelsNext ==
    /\ FinishesKnown'
    /\ \A m : Known(m) => Known(m)' \/ Removes(m)
    /\ removed \subseteq removed' \cup engines'

\* A step that takes nothing from the maps.
LEMMA NothingTaken ==
  ASSUME FinishesKnown, engines \subseteq engines', unloaded \subseteq unloaded',
         overtaken \subseteq overtaken' \cup engines', removed \subseteq removed' \cup engines',
         \A u \in Thread :
            /\ \/ th'[u].pc \notin {"load_default", "load_done"}
               \/ th'[u].model \in engines'
               \/ th[u].pc \in {"load_default", "load_done"} /\ th'[u].model = th[u].model
            /\ \/ th[u].pc # "unload_store"
               \/ th'[u].pc = "unload_store" /\ th'[u].victim = th[u].victim
  PROVE  ModelsNext
<1>1. FinishesKnown'
  BY DEF FinishesKnown
<1>2. ASSUME NEW m, NEW t \in Thread, Ends(t, m)
      PROVE  Ends(t, m)'
  BY <1>2 DEF Ends
<1>3. ASSUME NEW m, Registered(m)
      PROVE  Registered(m)'
  BY <1>2, <1>3 DEF Registered
<1>4. ASSUME NEW m, Known(m)
      PROVE  Known(m)'
  <2>1. m \in engines' => Registered(m)'
    BY DEF Registered
  <2> QED
    BY <1>3, <1>4, <2>1 DEF Known
<1> QED
  BY <1>1, <1>4 DEF ModelsNext

\* A step of t alone that takes nothing from the maps.
LEMMA NothingTakenBy ==
  ASSUME FinishesKnown, NEW t \in Thread, NEW pc, NEW m, NEW v, NEW b, Becomes(t, pc, m, v, b),
         engines \subseteq engines', unloaded \subseteq unloaded',
         overtaken \subseteq overtaken' \cup engines', removed \subseteq removed' \cup engines',
         th[t].pc # "unload_store",
         \/ pc \notin {"load_default", "load_done"} \/ m \in engines'
         \/ th[t].pc \in {"load_default", "load_done"} /\ m = th[t].model
  PROVE  ModelsNext
<1>1. \A u \in Thread : u = t \/ th'[u] = th[u]
  BY DEF Becomes
<1>2. th'[t].pc = pc /\ th'[t].model = m
  BY DEF Becomes
<1> QED
  BY <1>1, <1>2, NothingTaken

\* A step of a request.
LEMMA SenderKeeps ==
  ASSUME TypeOK, FinishesKnown, NEW t \in Thread, GetSender(t) \/ TimeOut(t)
  PROVE  ModelsNext
<1>1. th'[t].pc \notin {"load_default", "load_done"}
  BY SenderLeads DEF SenderSteps
<1>2. \A u \in Thread \ {t} : th'[u] = th[u]
  BY StepFrame
<1>3. /\ th[t].pc # "unload_store" /\ unloaded' = unloaded /\ engines \subseteq engines'
      /\ overtaken \subseteq overtaken' \cup engines' /\ removed \subseteq removed' \cup engines'
  BY DEF GetSender, Resolve, IsLoaded, EngineDead, Reboot, Pick, IsUnloaded, IsReloading, Claim,
     WaitForReload, ResolveAgain, Dispatch, TimeOut, At, Put, engineVars
<1> QED
  BY <1>1, <1>2, <1>3, NothingTaken

\* A step of evict_for_request.
LEMMA EvictKeeps ==
  ASSUME TypeOK, FinishesKnown, NEW t \in Thread, EvictForRequest(t)
  PROVE  ModelsNext
<1> DEFINE Done == {"load_default", "load_done"}
<1>1. /\ th[t].pc \in EvictSteps /\ engines' = engines /\ unloaded' = unloaded
      /\ overtaken' = overtaken /\ removed' = removed
  BY DEF EvictForRequest, EvictIdle, EvictStale, Estimate, Evict, At, EvictSteps, engineVars
<1>2. th[t].pc # "unload_store"
  BY <1>1 DEF EvictSteps
<1>3. ASSUME NEW pc, NEW v, NEW b, Becomes(t, pc, th[t].model, v, b), pc \notin Done
      PROVE  ModelsNext
  BY <1>1, <1>2, <1>3, NothingTakenBy
<1>4. ASSUME NEW pc, Stays(t, pc), pc \notin Done
      PROVE  ModelsNext
  BY <1>3, <1>4 DEF Stays
<1>5. CASE EvictStale(t)
  BY <1>3, <1>4, <1>5, EvictStaleBecomes
<1>6. CASE EvictIdle(t)
  <2>1. PICK s : th' = [th EXCEPT ![t].pc = "evict_stale", ![t].stale = s]
    BY <1>6 DEF EvictIdle
  <2> QED
    BY <1>4, <2>1, GoStays DEF TypeOK
<1>7. CASE Estimate(t) \/ Evict(t)
  <2>1. \/ \E pc \in {"evict", "reload_get"} : Go(t, pc)
        \/ \E r : th' = [th EXCEPT ![t].pc = "unmark", ![t].result = r]
        \/ \E m : Unload(t, m, "evict")
    BY <1>7 DEF Estimate, Evict
  <2>2. ASSUME NEW pc \in {"evict", "reload_get"}, Go(t, pc)
        PROVE  ModelsNext
    BY <1>4, <2>2, GoStays DEF TypeOK
  <2>3. ASSUME NEW r, th' = [th EXCEPT ![t].pc = "unmark", ![t].result = r]
        PROVE  ModelsNext
    BY <1>4, <2>3, GoStays DEF TypeOK
  <2>4. ASSUME NEW m, Unload(t, m, "evict")
        PROVE  ModelsNext
    BY <1>3, <2>4, UnloadBecomes DEF TypeOK
  <2> QED
    BY <2>1, <2>2, <2>3, <2>4
<1> QED
  BY <1>5, <1>6, <1>7 DEF EvictForRequest

\* A step of a load.  Its end drops the unloaded state of a model that is loaded,
\* or overtaken.
LEMMA LoadKeeps ==
  ASSUME TypeOK, FinishesKnown, NEW t \in Thread, Reload(t)
  PROVE  ModelsNext
<1> DEFINE Done == {"load_default", "load_done"}
<1>1. \A pc : Go(t, pc) => Stays(t, pc)
  BY GoStays DEF TypeOK
<1>2. \A r : Return(t, r) => Stays(t, "idle")
  BY ReturnStays DEF TypeOK
<1>3. ASSUME NEW pc, Stays(t, pc), pc \notin Done \/ th[t].pc \in Done, th[t].pc # "unload_store",
             engines' = engines, unloaded' = unloaded, overtaken' = overtaken, removed' = removed
      PROVE  ModelsNext
  BY <1>3, NothingTakenBy DEF Stays
<1>4. CASE ReloadCheck(t) \/ ReloadMark(t) \/ Load(t) \/ Refit(t) \/ Unmark(t)
  <2>1. /\ th[t].pc # "unload_store" /\ engines' = engines /\ unloaded' = unloaded
        /\ overtaken' = overtaken /\ removed' = removed
        /\ \/ \E pc \in {"reload_mark", "reload_get", "insert", "refit", "bump"} : Go(t, pc)
           \/ \E r : Return(t, r)
           \/ th' = [th EXCEPT ![t].pc = "unmark", ![t].result = "failed"]
           \/ \E m : Unload(t, m, "refit")
    BY <1>4 DEF ReloadCheck, ReloadMark, Load, Refit, Unmark, At, engineVars
  <2>2. ASSUME NEW pc \in {"reload_mark", "reload_get", "insert", "refit", "bump"}, Go(t, pc)
        PROVE  ModelsNext
    BY <1>1, <1>3, <2>1, <2>2
  <2>3. ASSUME NEW r, Return(t, r)
        PROVE  ModelsNext
    BY <1>2, <1>3, <2>1, <2>3
  <2>4. CASE th' = [th EXCEPT ![t].pc = "unmark", ![t].result = "failed"]
    BY <1>3, <2>1, <2>4, GoStays DEF TypeOK
  <2>5. ASSUME NEW m, Unload(t, m, "refit")
        PROVE  ModelsNext
    <3>1. Becomes(t, "unload_check", th[t].model, m, "refit")
      BY <2>5, UnloadBecomes DEF TypeOK
    <3> QED
      BY <2>1, <3>1, NothingTakenBy
  <2> QED
    BY <2>1, <2>2, <2>3, <2>4, <2>5
<1>5. CASE ReloadGet(t)
  <2>1. /\ th[t].pc # "unload_store" /\ engines' = engines /\ unloaded' = unloaded
        /\ overtaken' = overtaken /\ removed' = removed
    BY <1>5 DEF ReloadGet, engineVars
  <2>2. Becomes(t, "load", th[t].model, th[t].victim, "idle") \/ Stays(t, "idle")
    BY <1>5, ReloadGetBecomes
  <2>3. CASE Becomes(t, "load", th[t].model, th[t].victim, "idle")
    BY <2>1, <2>3, NothingTakenBy
  <2> QED
    BY <1>3, <2>1, <2>2, <2>3
<1>6. CASE Insert(t)
  <2>1. /\ Stays(t, "load_default") /\ engines' = engines \cup {th[t].model} /\ unloaded' = unloaded
        /\ overtaken' = overtaken \ {th[t].model} /\ removed' = removed \ {th[t].model}
        /\ th[t].pc # "unload_store"
    BY <1>1, <1>6 DEF Insert, Put, At
  <2>2. /\ engines \subseteq engines' /\ unloaded \subseteq unloaded' /\ th[t].model \in engines'
        /\ overtaken \subseteq overtaken' \cup engines' /\ removed \subseteq removed' \cup engines'
    BY <2>1
  <2> QED
    BY <2>1, <2>2, NothingTakenBy DEF Stays
<1>7. CASE LoadDefault(t)
  <2>1. /\ Stays(t, "load_done") /\ engines' = engines /\ unloaded' = unloaded
        /\ overtaken' = overtaken /\ removed' = removed
        /\ th[t].pc \in Done /\ th[t].pc # "unload_store"
    BY <1>1, <1>7 DEF LoadDefault, At, engineVars
  <2> QED
    BY <1>3, <2>1
<1>8. CASE LoadDone(t)
  <2>1. /\ Stays(t, "unmark") /\ engines' = engines /\ unloaded' = unloaded \ {th[t].model}
        /\ overtaken' = overtaken /\ removed' = removed /\ th[t].pc = "load_done"
    BY <1>1, <1>8 DEF LoadDone, engineVars
  <2>2. /\ \A u \in Thread : u = t \/ th'[u] = th[u]
        /\ th'[t].pc = "unmark"
    BY <2>1 DEF Stays, Becomes
  <2>3. th[t].model \in engines \cup overtaken
    BY <2>1 DEF FinishesKnown
  <2>4. FinishesKnown'
    BY <2>1, <2>2 DEF FinishesKnown
  <2>5. ASSUME NEW m, NEW u \in Thread, Ends(u, m)
        PROVE  Ends(u, m)'
    BY <2>1, <2>2, <2>5 DEF Ends
  <2>6. ASSUME NEW m, Known(m)
        PROVE  Known(m)'
    BY <2>1, <2>3, <2>5, <2>6 DEF Known, Registered
  <2> QED
    BY <2>1, <2>4, <2>6 DEF ModelsNext
<1>9. CASE Bump(t)
  <2>1. \A u \in Thread : \/ th'[u] = th[u]
                          \/ /\ th[u].pc \in {"asleep", "bump"}
                             /\ th'[u].pc \in {"is_loaded", "idle"}
    BY <1>9 DEF Bump, AfterLoad, TypeOK, CallsOK, CallState
  <2>2. /\ engines' = engines /\ unloaded' = unloaded
        /\ overtaken' = overtaken /\ removed' = removed
    BY <1>9 DEF Bump, engineVars
  <2>3. \A u \in Thread : /\ \/ th'[u].pc \notin Done
                             \/ th[u].pc \in Done /\ th'[u].model = th[u].model
                          /\ th[u].pc # "unload_store" \/ th'[u] = th[u]
    BY <2>1
  <2> QED
    BY <2>2, <2>3, NothingTaken
<1> QED
  BY <1>4, <1>5, <1>6, <1>7, <1>8, <1>9 DEF Reload

\* A step of an unload.  What it takes it has in its hands until it is stored.
LEMMA UnloadKeeps ==
  ASSUME TypeOK, FinishesKnown, NEW t \in Thread, UnloadModel(t)
  PROVE  ModelsNext
<1>1. th[t].back \in {"idle", "evict_stale", "evict", "refit"}
  BY DEF TypeOK, CallsOK, CallState
<1>2. \A pc : Go(t, pc) => Stays(t, pc)
  BY GoStays DEF TypeOK
<1>3. \A r : UnloadFails(t, r) => Stays(t, th[t].back)
  BY UnloadFailsStays DEF TypeOK
<1>4. CASE UnloadCheck(t) \/ (UnloadTake(t) /\ th[t].victim \notin engines)
  <2>1. /\ th[t].pc # "unload_store" /\ engines' = engines /\ unloaded' = unloaded
        /\ overtaken' = overtaken /\ removed' = removed
        /\ Stays(t, "unload_take") \/ Stays(t, th[t].back)
    BY <1>2, <1>3, <1>4 DEF UnloadCheck, UnloadTake, At, engineVars
  <2>2. PICK pc \in {"unload_take", "idle", "evict_stale", "evict", "refit"} : Stays(t, pc)
    BY <1>1, <2>1
  <2> QED
    BY <2>1, <2>2, NothingTakenBy DEF Stays
<1>5. CASE UnloadTake(t) /\ th[t].victim \in engines
  <2> DEFINE v == th[t].victim
  <2>1. /\ th[t].pc = "unload_take" /\ Stays(t, "unload_store") /\ unloaded' = unloaded
        /\ Take(v, FALSE)
    BY <1>2, <1>5 DEF UnloadTake, At
  <2>2. /\ \A u \in Thread \ {t} : th'[u] = th[u]
        /\ th'[t].pc = "unload_store" /\ th'[t].victim = v
    BY <2>1 DEF Stays, Becomes
  <2>3. /\ engines' = engines \ {v} /\ overtaken \subseteq overtaken' /\ removed \subseteq removed'
        /\ (\E u \in Thread : Finishes(u, v)) => v \in overtaken'
    BY <2>1 DEF Take
  <2>4. FinishesKnown'
    <3> SUFFICES ASSUME NEW u \in Thread, th'[u].pc \in {"load_default", "load_done"}
                 PROVE  th'[u].model \in engines' \cup overtaken'
      BY DEF FinishesKnown
    <3>1. th'[u] = th[u]
      BY <2>2
    <3>2. th[u].model \in engines \cup overtaken
      BY <3>1 DEF FinishesKnown
    <3>3. th[u].model = v => v \in overtaken'
      BY <2>3, <3>1 DEF Finishes
    <3> QED
      BY <2>3, <3>1, <3>2, <3>3
  <2>5. ASSUME NEW m, m = v
        PROVE  Ends(t, m)'
    BY <2>2, <2>5 DEF Ends
  <2>6. ASSUME NEW m, NEW u \in Thread, Ends(u, m)
        PROVE  Ends(u, m)'
    BY <2>1, <2>2, <2>6 DEF Ends
  <2>7. ASSUME NEW m, Known(m)
        PROVE  Known(m)'
    <3> HIDE DEF v
    <3> QED
      BY <2>1, <2>3, <2>5, <2>6, <2>7 DEF Known, Registered
  <2> QED
    BY <2>3, <2>4, <2>7 DEF ModelsNext
<1>6. CASE UnloadStore(t)
  <2> DEFINE v == th[t].victim
             pc == IF th[t].back = "refit" THEN "load" ELSE th[t].back
  <2>1. /\ th[t].pc = "unload_store" /\ Stays(t, pc) /\ engines' = engines
        /\ unloaded' = unloaded \cup {v} /\ overtaken' = overtaken /\ removed' = removed
    BY <1>2, <1>6 DEF UnloadStore, engineVars
  <2>2. pc \notin {"load_default", "load_done"}
    BY <1>1
  <2>3. (\A u \in Thread : u = t \/ th'[u] = th[u]) /\ th'[t].pc = pc
    BY <2>1 DEF Stays, Becomes
  <2> HIDE DEF pc
  <2>4. FinishesKnown'
    BY <2>1, <2>2, <2>3 DEF FinishesKnown
  <2>5. ASSUME NEW m, NEW u \in Thread, Ends(u, m)
        PROVE  m \in unloaded' \/ Ends(u, m)'
    BY <2>1, <2>3, <2>5 DEF Ends
  <2> HIDE DEF v
  <2>6. ASSUME NEW m, Known(m)
        PROVE  Known(m)'
    BY <2>1, <2>5, <2>6 DEF Known, Registered
  <2> QED
    BY <2>1, <2>4, <2>6 DEF ModelsNext
<1> QED
  BY <1>4, <1>5, <1>6 DEF UnloadModel

\* A step of remove_model, set_default_model_id or a registration.
LEMMA AdminKeeps ==
  ASSUME TypeOK, FinishesKnown, NEW t \in Thread, Administer(t)
  PROVE  ModelsNext
<1> DEFINE Done == {"load_default", "load_done"}
<1>1. \A pc : Go(t, pc) => Stays(t, pc)
  BY GoStays DEF TypeOK
<1>2. \A r : Return(t, r) => Stays(t, "idle")
  BY ReturnStays DEF TypeOK
<1>3. ASSUME NEW pc, Stays(t, pc), pc \notin Done, th[t].pc # "unload_store",
             engines \subseteq engines', unloaded \subseteq unloaded',
             overtaken \subseteq overtaken' \cup engines', removed \subseteq removed' \cup engines'
      PROVE  ModelsNext
  BY <1>3, NothingTakenBy DEF Stays
<1>4. CASE ~RemoveTake(t)
  <2>1. /\ th[t].pc # "unload_store" /\ engines \subseteq engines' /\ unloaded \subseteq unloaded'
        /\ overtaken \subseteq overtaken' \cup engines' /\ removed \subseteq removed' \cup engines'
        /\ \/ \E pc \in {"set_default", "set_mirror", "add_engines", "add_check", "add_insert",
                         "add_store", "add_default"} : Go(t, pc)
           \/ \E r : Return(t, r)
    BY <1>4 DEF Administer, RemoveDefault, SetCheck, SetDefault, SetMirror, AddCheckReloading,
       AddCheckEngines, AddCheckUnloaded, AddStore, AddInsert, AddDefault, At, Put, engineVars
  <2> QED
    BY <1>1, <1>2, <1>3, <2>1
<1>5. CASE RemoveTake(t) /\ UNCHANGED engineVars /\ Return(t, "not_found")
  <2>1. /\ th[t].pc # "unload_store" /\ engines' = engines /\ unloaded' = unloaded
        /\ overtaken' = overtaken /\ removed' = removed
    BY <1>5 DEF RemoveTake, At, engineVars
  <2> QED
    BY <1>2, <1>3, <1>5, <2>1
<1>6. CASE RemoveTake(t) /\ Take(th[t].model, TRUE) /\ Go(t, "remove_default")
  <2> DEFINE v == th[t].model
  <2>1. /\ th[t].pc = "remove_take" /\ Stays(t, "remove_default") /\ unloaded' = unloaded
        /\ Take(v, TRUE)
    BY <1>1, <1>6 DEF RemoveTake, At
  <2>2. /\ \A u \in Thread \ {t} : th'[u] = th[u]
        /\ th'[t].pc = "remove_default" /\ th'[t].model = v
    BY <2>1 DEF Stays, Becomes
  <2>3. /\ engines' = engines \ {v} /\ overtaken \subseteq overtaken' /\ removed' = removed \cup {v}
        /\ (\E u \in Thread : Finishes(u, v)) => v \in overtaken'
    BY <2>1 DEF Take
  <2>4. FinishesKnown'
    <3> SUFFICES ASSUME NEW u \in Thread, th'[u].pc \in {"load_default", "load_done"}
                 PROVE  th'[u].model \in engines' \cup overtaken'
      BY DEF FinishesKnown
    <3>1. th'[u] = th[u]
      BY <2>2
    <3>2. th[u].model \in engines \cup overtaken
      BY <3>1 DEF FinishesKnown
    <3>3. th[u].model = v => v \in overtaken'
      BY <2>3, <3>1 DEF Finishes
    <3> QED
      BY <2>3, <3>1, <3>2, <3>3
  <2>5. Removes(v)
    BY <1>6, <2>1, <2>2, <2>3 DEF Removes
  <2>6. ASSUME NEW m, NEW u \in Thread, Ends(u, m)
        PROVE  Ends(u, m)'
    BY <2>1, <2>2, <2>6 DEF Ends
  <2>7. ASSUME NEW m, Known(m)
        PROVE  Known(m)' \/ Removes(m)
    <3> HIDE DEF v
    <3> QED
      BY <2>1, <2>3, <2>5, <2>6, <2>7 DEF Known, Registered
  <2> QED
    BY <2>3, <2>4, <2>7 DEF ModelsNext
<1> QED
  BY <1>4, <1>5, <1>6 DEF RemoveTake

\* Every step keeps what is known, but for what it removes.
LEMMA KnownNext ==
  ASSUME TypeOK, FinishesKnown, [Next]_vars
  PROVE  ModelsNext
<1>1. ASSUME NEW t \in Thread, Call(t)
      PROVE  ModelsNext
  <2>1. PICK op \in Ops, m \in Model :
          th' = [th EXCEPT ![t] = [op |-> op, pc |-> FirstStep[op], model |-> m, victim |-> m,
                                   back |-> "idle", stale |-> {}, skipped |-> {}, result |-> "ok"]]
    BY <1>1 DEF Call
  <2>2. (\A u \in Thread : u = t \/ th'[u] = th[u]) /\ th'[t].pc = FirstStep[op]
    BY <2>1 DEF TypeOK, CallsOK
  <2>3. FirstStep[op] \notin {"load_default", "load_done"}
    BY RegistryAssumption DEF FirstStep
  <2>4. /\ th[t].pc # "unload_store" /\ engines' = engines /\ unloaded' = unloaded
        /\ overtaken' = overtaken /\ removed' = removed
    BY <1>1 DEF Call, engineVars
  <2> QED
    BY <2>2, <2>3, <2>4, NothingTaken
<1>2. ASSUME EngineStep \/ UNCHANGED vars
      PROVE  ModelsNext
  <2>1. /\ th' = th /\ engines' = engines /\ unloaded' = unloaded
        /\ overtaken' = overtaken /\ removed' = removed
    BY <1>2 DEF EngineStep, vars, engineVars
  <2> QED
    BY <2>1, NothingTaken
<1> QED
  BY <1>1, <1>2, SenderKeeps, EvictKeeps, LoadKeeps, UnloadKeeps, AdminKeeps DEF Next, Step

\* Whatever clients call and however the calls interleave, a model that was
\* registered at the start and not removed since is loaded, unloaded, or held by
\* the thread that unloads it, unless the engine was taken before the load that had
\* put it into the map dropped the unloaded state.
THEOREM ModelsStay == Spec => []OnlyOvertakenLost
<1>1. Init => ModelsInv
  <2> SUFFICES ASSUME Init PROVE ModelsInv
    OBVIOUS
  <2>1. FinishesKnown
    BY DEF Init, FinishesKnown
  <2>2. \A m \in InitEngines \cup InitUnloaded : Known(m)
    BY DEF Init, Known, Registered
  <2> QED
    BY <2>1, <2>2 DEF ModelsInv
<1>2. TypeOK /\ ModelsInv /\ [Next]_vars => ModelsInv'
  <2> SUFFICES ASSUME TypeOK, ModelsInv, [Next]_vars PROVE ModelsInv'
    OBVIOUS
  <2>1. ModelsNext
    BY KnownNext DEF ModelsInv
  <2>2. ASSUME NEW m \in InitEngines \cup InitUnloaded, m \notin removed'
        PROVE  Known(m)'
    <3>1. CASE m \in removed
      <4>1. m \in engines'
        BY <2>1, <2>2, <3>1 DEF ModelsNext
      <4> QED
        BY <4>1 DEF Known, Registered
    <3>2. CASE m \notin removed
      <4>1. Known(m) /\ ~Removes(m)
        BY <2>2, <3>2 DEF ModelsInv, Removes
      <4> QED
        BY <2>1, <4>1 DEF ModelsNext
    <3> QED
      BY <3>1, <3>2
  <2> QED
    BY <2>1, <2>2 DEF ModelsInv, ModelsNext
<1>3. ModelsInv => OnlyOvertakenLost
  BY DEF ModelsInv, Known, OnlyOvertakenLost
<1> QED
  BY <1>1, <1>2, <1>3, CallsWellFormed, PTL DEF Spec

-----------------------------------------------------------------------------
(* The default. *)

\* While a call keeps the map of the engines locked nobody else gets it.
LEMMA EnginesBlocked ==
  ASSUME TypeOK, LocksKept, NEW t \in Thread, NEW u \in Thread, u # t,
         At(t, "remove_take") \/ At(t, "add_insert") \/ At(t, "unload_take")
  PROVE  th[u].pc \notin {"remove_default", "add_default"}
<1>1. ~Blocks(u, t) /\ "engines" \in Needs(th[t].pc)
  BY DEF At, Needs
<1>2. holds[u] = Keeps(th[u].pc)
  BY DEF LocksKept
<1> QED
  BY <1>1, <1>2 DEF Blocks, Keeps

\* The part of EnginesKept that does not speak of locks.
LEMMA EnginesKeptAs ==
  EnginesKept <=>
    /\ \A t, u \in Thread :
          {th[t].pc, th[u].pc} \subseteq {"remove_default", "add_default"} => t = u
    /\ \A t \in Thread : /\ th[t].pc = "add_default" => th[t].model \in engines
                         /\ th[t].pc = "remove_default" => engines # {}
BY DEF EnginesKept, Keeps

LEMMA EnginesKeptNext ==
  ASSUME \A t, u \in Thread :
            {th'[t].pc, th'[u].pc} \subseteq {"remove_default", "add_default"} => t = u,
         \A t \in Thread : /\ th'[t].pc = "add_default" => th'[t].model \in engines'
                           /\ th'[t].pc = "remove_default" => engines' # {}
  PROVE  EnginesKept'
BY DEF EnginesKept, Keeps

\* A step by which nobody comes to keep the map, and that takes no engine.
LEMMA NobodyKeeps ==
  ASSUME EnginesKept, engines \subseteq engines',
         \A u \in Thread : \/ th'[u].pc \notin {"remove_default", "add_default"}
                           \/ th'[u].pc = th[u].pc /\ th'[u].model = th[u].model
  PROVE  EnginesKept'
<1>1. \A t, u \in Thread :
        {th'[t].pc, th'[u].pc} \subseteq {"remove_default", "add_default"} => t = u
  BY EnginesKeptAs
<1>2. ASSUME NEW t \in Thread
      PROVE  /\ th'[t].pc = "add_default" => th'[t].model \in engines'
             /\ th'[t].pc = "remove_default" => engines' # {}
  <2>1. /\ th[t].pc = "add_default" => th[t].model \in engines
        /\ th[t].pc = "remove_default" => engines # {}
    BY EnginesKeptAs
  <2> QED
    BY <2>1
<1> QED
  BY <1>1, <1>2, EnginesKeptNext

\* Every step keeps the map of the engines with the call that has it.
LEMMA KeptNext ==
  ASSUME TypeOK, LocksKept, EnginesKept, [Next]_vars
  PROVE  EnginesKept'
<1> DEFINE Holds(u) == th[u].pc \in {"remove_default", "add_default"}
<1>0. CallsOK'
  BY NextType DEF TypeOK
<1>1. ASSUME NEW t \in Thread,
             \/ GetSender(t) \/ TimeOut(t) \/ EvictForRequest(t) \/ UnloadModel(t)
             \/ Reload(t) /\ ~Bump(t)
      PROVE  EnginesKept'
  <2>1. /\ \A u \in Thread : u = t \/ th'[u] = th[u]
        /\ Keeps(th[t].pc) = {} /\ Keeps(th'[t].pc) = {}
        /\ UnloadModel(t) \/ engines \subseteq engines'
    BY <1>0, <1>1, PlainStep
  <2>2. th'[t].pc \notin {"remove_default", "add_default"} /\ ~Holds(t)
    BY <2>1 DEF Keeps
  <2>3. CASE engines \subseteq engines'
    BY <2>1, <2>2, <2>3, NobodyKeeps
  <2>4. CASE ~(engines \subseteq engines')
    <3>1. At(t, "unload_take")
      <4>1. UnloadCheck(t) \/ UnloadTake(t) \/ UnloadStore(t)
        BY <2>1, <2>4 DEF UnloadModel
      <4>2. ~UnloadCheck(t) /\ ~UnloadStore(t)
        BY <2>4 DEF UnloadCheck, UnloadStore, engineVars
      <4> QED
        BY <4>1, <4>2 DEF UnloadTake
    <3>2. \A u \in Thread : th'[u].pc \notin {"remove_default", "add_default"}
      BY <2>1, <2>2, <3>1, EnginesBlocked
    <3> QED
      BY <3>2, EnginesKeptNext
  <2> QED
    BY <2>3, <2>4
<1>2. ASSUME NEW t \in Thread, Bump(t)
      PROVE  EnginesKept'
  <2>1. \A u \in Thread : th'[u] = th[u] \/ th'[u].pc \in {"is_loaded", "idle"}
    BY <1>2 DEF Bump, AfterLoad, TypeOK, CallsOK, CallState
  <2>2. engines' = engines
    BY <1>2 DEF Bump, engineVars
  <2> QED
    BY <2>1, <2>2, NobodyKeeps
<1>3. ASSUME NEW t \in Thread, Call(t)
      PROVE  EnginesKept'
  <2>1. PICK op \in Ops, m \in Model :
          th' = [th EXCEPT ![t] = [op |-> op, pc |-> FirstStep[op], model |-> m, victim |-> m,
                                   back |-> "idle", stale |-> {}, skipped |-> {}, result |-> "ok"]]
    BY <1>3 DEF Call
  <2>2. (\A u \in Thread : u = t \/ th'[u] = th[u]) /\ th'[t].pc = FirstStep[op]
    BY <2>1 DEF TypeOK, CallsOK
  <2>3. FirstStep[op] \notin {"remove_default", "add_default"}
    BY RegistryAssumption DEF FirstStep
  <2>4. engines' = engines
    BY <1>3 DEF Call, engineVars
  <2> QED
    BY <2>2, <2>3, <2>4, NobodyKeeps
<1>4. CASE EngineStep \/ UNCHANGED vars
  <2>1. th' = th /\ engines' = engines
    BY <1>4 DEF EngineStep, vars, engineVars
  <2> QED
    BY <2>1, NobodyKeeps
<1>5. ASSUME NEW t \in Thread, Administer(t)
      PROVE  EnginesKept'
  <2>1. \A pc : Go(t, pc) => Stays(t, pc)
    BY GoStays DEF TypeOK
  <2>2. \A r : Return(t, r) => Stays(t, "idle")
    BY ReturnStays DEF TypeOK
  <2>3. \A pc : Stays(t, pc) =>
          /\ \A u \in Thread : u = t \/ th'[u] = th[u]
          /\ th'[t].pc = pc /\ th'[t].model = th[t].model
    BY DEF Stays, Becomes
  <2>4. CASE RemoveTake(t) /\ Take(th[t].model, TRUE) /\ Go(t, "remove_default")
             /\ Cardinality(engines) > 1
    <3>1. At(t, "remove_take") /\ engines' = engines \ {th[t].model}
      BY <2>4 DEF RemoveTake, Take
    <3>2. engines' # {}
      <4>1. engines' = {} => engines = {} \/ engines = {th[t].model}
        BY <3>1
      <4>2. Cardinality({}) = 0 /\ Cardinality({th[t].model}) = 1
        BY FS_EmptySet, FS_Singleton
      <4>3. engines # {} /\ engines # {th[t].model}
        BY <2>4, <4>2
      <4> QED
        BY <4>1, <4>3
    <3>3. (\A u \in Thread : u = t \/ th'[u] = th[u]) /\ th'[t].pc = "remove_default"
      BY <2>1, <2>3, <2>4
    <3>4. \A u \in Thread : u = t \/ th'[u].pc \notin {"remove_default", "add_default"}
      BY <3>1, <3>3, EnginesBlocked
    <3> QED
      BY <3>2, <3>3, <3>4, EnginesKeptNext
  <2>5. CASE RemoveTake(t) /\ Return(t, "not_found") /\ UNCHANGED engineVars
    <3>1. engines' = engines
      BY <2>5 DEF engineVars
    <3> QED
      BY <2>2, <2>3, <2>5, <3>1, NobodyKeeps
  <2>6. CASE AddInsert(t)
    <3>1. /\ At(t, "add_insert") /\ engines' = engines \cup {th[t].model}
          /\ Go(t, "add_default")
      BY <2>6 DEF AddInsert, Put
    <3>2. /\ \A u \in Thread : u = t \/ th'[u] = th[u]
          /\ th'[t].pc = "add_default" /\ th'[t].model = th[t].model
      BY <2>1, <2>3, <3>1
    <3>3. \A u \in Thread : u = t \/ th'[u].pc \notin {"remove_default", "add_default"}
      BY <3>1, <3>2, EnginesBlocked
    <3> QED
      BY <3>1, <3>2, <3>3, EnginesKeptNext
  <2>7. CASE \/ RemoveDefault(t) \/ SetCheck(t) \/ SetDefault(t) \/ SetMirror(t)
             \/ AddCheckReloading(t) \/ AddCheckEngines(t) \/ AddCheckUnloaded(t) \/ AddStore(t)
             \/ AddDefault(t)
    <3>1. /\ engines' = engines
          /\ \/ \E pc \in {"set_default", "set_mirror", "add_engines", "add_check", "add_insert",
                           "add_store"} : Go(t, pc)
             \/ \E r : Return(t, r)
      BY <2>7 DEF RemoveDefault, SetCheck, SetDefault, SetMirror, AddCheckReloading,
         AddCheckEngines, AddCheckUnloaded, AddStore, AddDefault, engineVars
    <3>2. /\ \A u \in Thread : u = t \/ th'[u] = th[u]
          /\ th'[t].pc \in {"set_default", "set_mirror", "add_engines", "add_check", "add_insert",
                            "add_store", "idle"}
      BY <2>1, <2>2, <2>3, <3>1
    <3> QED
      BY <3>1, <3>2, NobodyKeeps
  <2> QED
    BY <1>5, <2>4, <2>5, <2>6, <2>7 DEF Administer, RemoveTake
<1> QED
  BY <1>1, <1>2, <1>3, <1>4, <1>5 DEF Next, Step

\* Who sets the default, and to what: a load or a registration an empty one, to
\* the model of its call; remove_model the one that it has removed, to one of the
\* engines; set_default_model_id any, to the model of its call.
LEMMA WhoSetsDefault ==
  ASSUME TypeOK, [Next]_vars, default' # default
  PROVE  \E t \in Thread :
            \/ LoadDefault(t) /\ default' = th[t].model
            \/ AddDefault(t) /\ default' = th[t].model
            \/ RemoveDefault(t) /\ default' \in engines
            \/ SetDefault(t) /\ default' = th[t].model
<1>1. ~EngineStep /\ ~UNCHANGED vars
  BY DEF EngineStep, vars
<1>2. PICK t \in Thread : Call(t) \/ Step(t) \/ TimeOut(t)
  BY <1>1 DEF Next
<1>3. ~Call(t) /\ ~TimeOut(t) /\ ~GetSender(t)
  BY DEF Call, TimeOut, GetSender, Resolve, IsLoaded, EngineDead, Reboot, Pick, IsUnloaded,
     IsReloading, Claim, WaitForReload, ResolveAgain, Dispatch
<1>4. ~EvictForRequest(t) /\ ~UnloadModel(t)
  BY DEF EvictForRequest, EvictIdle, EvictStale, Estimate, Evict, UnloadModel, UnloadCheck,
     UnloadTake, UnloadStore
<1>5. Reload(t) => LoadDefault(t)
  BY DEF Reload, ReloadCheck, ReloadMark, ReloadGet, Load, Refit, Insert, LoadDone, Unmark, Bump
<1>6. Administer(t) => RemoveDefault(t) \/ SetDefault(t) \/ AddDefault(t)
  BY DEF Administer, RemoveTake, SetCheck, SetMirror, AddCheckReloading, AddCheckEngines,
     AddCheckUnloaded, AddStore, AddInsert
<1>7. LoadDefault(t) \/ RemoveDefault(t) \/ SetDefault(t) \/ AddDefault(t)
  BY <1>2, <1>3, <1>4, <1>5, <1>6 DEF Step
<1> QED
  BY <1>7 DEF LoadDefault, RemoveDefault, SetDefault, AddDefault

\* A call that removes stays where it is until its own next step.
LEMMA RemoverWaits ==
  ASSUME TypeOK, [Next]_vars, NEW t \in Thread, th[t].pc = "remove_default"
  PROVE  th'[t] = th[t] \/ RemoveDefault(t)
<1>1. CASE EngineStep \/ UNCHANGED vars
  BY <1>1 DEF EngineStep, vars
<1>2. ASSUME NEW u \in Thread, u # t, Call(u) \/ Step(u) \/ TimeOut(u)
      PROVE  th'[t] = th[t]
  <2>1. CASE Call(u)
    <3>1. PICK c : th' = [th EXCEPT ![u] = c]
      BY <2>1 DEF Call
    <3> QED
      BY <1>2, <3>1 DEF TypeOK, CallsOK
  <2>2. CASE \/ GetSender(u) \/ TimeOut(u) \/ EvictForRequest(u) \/ UnloadModel(u)
             \/ Reload(u) /\ ~Bump(u)
    BY <1>2, <2>2, StepFrame
  <2>3. CASE Bump(u)
    BY <1>2, <2>3 DEF Bump, TypeOK, CallsOK
  <2>4. CASE Administer(u)
    <3>1. (\E pc : Go(u, pc)) \/ (\E r : Return(u, r))
      BY <2>4 DEF Administer, RemoveTake, RemoveDefault, SetCheck, SetDefault, SetMirror,
         AddCheckReloading, AddCheckEngines, AddCheckUnloaded, AddStore, AddInsert, AddDefault
    <3>2. \E pc : Stays(u, pc)
      BY <3>1, GoStays, ReturnStays DEF TypeOK
    <3> QED
      BY <1>2, <3>2 DEF Stays, Becomes
  <2> QED
    BY <1>2, <2>1, <2>2, <2>3, <2>4 DEF Step
<1>3. CASE Call(t) \/ Step(t) \/ TimeOut(t)
  <2>1. ~Call(t) /\ ~TimeOut(t) /\ ~GetSender(t)
    BY DEF Call, TimeOut, GetSender, Resolve, IsLoaded, EngineDead, Reboot, Pick, IsUnloaded,
       IsReloading, Claim, WaitForReload, ResolveAgain, Dispatch, At
  <2>2. ~EvictForRequest(t) /\ ~UnloadModel(t)
    BY DEF EvictForRequest, EvictIdle, EvictStale, Estimate, Evict, UnloadModel, UnloadCheck,
       UnloadTake, UnloadStore, At
  <2>3. ~Reload(t)
    BY DEF Reload, ReloadCheck, ReloadMark, ReloadGet, Load, Refit, Insert, LoadDefault, LoadDone,
       Unmark, Bump, At
  <2>4. Administer(t) => RemoveDefault(t)
    BY DEF Administer, RemoveTake, SetCheck, SetDefault, SetMirror, AddCheckReloading,
       AddCheckEngines, AddCheckUnloaded, AddStore, AddInsert, AddDefault, At
  <2> QED
    BY <1>3, <2>1, <2>2, <2>3, <2>4 DEF Step
<1> QED
  BY <1>1, <1>2, <1>3 DEF Next

\* What is about to be made the default was found registered.
LEMMA WhoChooses ==
  ASSUME TypeOK, [Next]_vars, NEW u \in Thread, th'[u].pc = "set_default"
  PROVE  th'[u].model = th[u].model /\
           (th[u].pc = "set_default" \/ (SetCheck(u) /\ th[u].model \in engines \cup unloaded))
<1> DEFINE Chooses(w) == th'[w].model = th[w].model /\
             (th[w].pc = "set_default" \/ (SetCheck(w) /\ th[w].model \in engines \cup unloaded))
<1>0. CallsOK'
  BY NextType DEF TypeOK
<1>1. th'[u] = th[u] => Chooses(u)
  OBVIOUS
<1>2. th[u].op = "set_default" \/ th'[u].op # th[u].op
  <2>1. th'[u].op = "set_default"
    <3>1. th'[u].pc \in Places(th'[u].op)
      BY <1>0 DEF CallsOK, WellFormed
    <3> QED
      BY <3>1, WhoIsAt
  <2> QED
    BY <2>1
<1>3. ASSUME NEW t \in Thread, GetSender(t) \/ TimeOut(t) \/ EvictForRequest(t) \/ UnloadModel(t)
                               \/ (Reload(t) /\ ~Bump(t))
      PROVE  th'[u] = th[u]
  <2>1. (\A w \in Thread : w = t \/ th'[w] = th[w]) /\ th'[t].op = th[t].op
    BY <1>3, StepFrame
  <2>2. th[t].pc \in SenderSteps \cup EvictSteps \cup LoadSteps \cup UnloadSteps
                     \cup {"reload_check", "reload_mark"}
    <3>1. GetSender(t) \/ TimeOut(t) => th[t].pc \in SenderSteps
      BY DEF GetSender, Resolve, IsLoaded, EngineDead, Reboot, Pick, IsUnloaded, IsReloading,
         Claim, WaitForReload, ResolveAgain, Dispatch, TimeOut, At, SenderSteps
    <3>2. EvictForRequest(t) \/ UnloadModel(t) => th[t].pc \in EvictSteps \cup UnloadSteps
      BY DEF EvictForRequest, EvictIdle, EvictStale, Estimate, Evict, UnloadModel, UnloadCheck,
         UnloadTake, UnloadStore, At, EvictSteps, UnloadSteps
    <3>3. Reload(t) /\ ~Bump(t) => th[t].pc \in LoadSteps \cup {"reload_check", "reload_mark"}
      BY DEF Reload, ReloadCheck, ReloadMark, ReloadGet, Load, Refit, Insert, LoadDefault,
         LoadDone, Unmark, At, LoadSteps
    <3> QED
      BY <1>3, <3>1, <3>2, <3>3
  <2>3. th[t].op # "set_default"
    <3>1. th[t].pc \in Places(th[t].op)
      BY <2>2, InsideType DEF TypeOK, SenderSteps, EvictSteps, LoadSteps, UnloadSteps
    <3> QED
      BY <2>2, <3>1, WhoIsAt
  <2> QED
    BY <1>2, <2>1, <2>3
<1>4. ASSUME NEW t \in Thread, Bump(t)
      PROVE  Chooses(u)
  <2>1. th'[u] = th[u] \/ th'[u].pc \in {"is_loaded", "idle"}
    BY <1>4 DEF Bump, AfterLoad, TypeOK, CallsOK, CallState
  <2> QED
    BY <1>1, <2>1
<1>5. ASSUME NEW t \in Thread, Call(t)
      PROVE  th'[u] = th[u]
  <2>1. PICK op \in Ops, m \in Model :
          th' = [th EXCEPT ![t] = [op |-> op, pc |-> FirstStep[op], model |-> m, victim |-> m,
                                   back |-> "idle", stale |-> {}, skipped |-> {}, result |-> "ok"]]
    BY <1>5 DEF Call
  <2>2. (\A w \in Thread : w = t \/ th'[w] = th[w]) /\ th'[t].pc = FirstStep[op]
    BY <2>1 DEF TypeOK, CallsOK
  <2>3. FirstStep[op] # "set_default"
    BY RegistryAssumption DEF FirstStep
  <2> QED
    BY <2>2, <2>3
<1>6. ASSUME NEW t \in Thread, Administer(t)
      PROVE  Chooses(u)
  <2>1. \A pc : Go(t, pc) => Stays(t, pc)
    BY GoStays DEF TypeOK
  <2>2. \A r : Return(t, r) => Stays(t, "idle")
    BY ReturnStays DEF TypeOK
  <2>3. \A pc : Stays(t, pc) =>
          /\ \A w \in Thread : w = t \/ th'[w] = th[w]
          /\ th'[t].pc = pc /\ th'[t].model = th[t].model
    BY DEF Stays, Becomes
  <2>4. CASE SetCheck(t)
    <3>1. \/ Go(t, "set_default") /\ th[t].model \in engines \cup unloaded
          \/ Return(t, "not_found")
      BY <2>4 DEF SetCheck
    <3> QED
      BY <1>1, <2>1, <2>2, <2>3, <2>4, <3>1
  <2>5. CASE ~SetCheck(t)
    <3>1. \/ \E pc \in {"remove_default", "set_mirror", "add_engines", "add_check", "add_insert",
                        "add_store", "add_default"} : Go(t, pc)
          \/ \E r : Return(t, r)
      BY <1>6, <2>5 DEF Administer, RemoveTake, RemoveDefault, SetDefault, SetMirror,
         AddCheckReloading, AddCheckEngines, AddCheckUnloaded, AddStore, AddInsert, AddDefault
    <3>2. (\A w \in Thread : w = t \/ th'[w] = th[w]) /\ th'[t].pc # "set_default"
      BY <2>1, <2>2, <2>3, <3>1
    <3> QED
      BY <1>1, <3>2
  <2> QED
    BY <2>4, <2>5
<1>7. CASE EngineStep \/ UNCHANGED vars
  BY <1>1, <1>7 DEF EngineStep, vars
<1> QED
  BY <1>1, <1>3, <1>4, <1>5, <1>6, <1>7 DEF Next, Step

\* Every step keeps the default registered, or about to be replaced.
LEMMA DefaultNext ==
  ASSUME TypeOK, LocksKept, DefaultInv, [Next]_vars, ~({"remove", "set_default"} \subseteq Ops)
  PROVE  DefaultInv'
<1>1. TypeOK' /\ EnginesKept' /\ ModelsNext
  BY NextType, KeptNext, KnownNext DEF DefaultInv
<1>2. \A t \in Thread : /\ th[t].pc = "remove_take" => "remove" \in Ops
                        /\ th'[t].pc = "set_default" => "set_default" \in Ops
  <2> SUFFICES ASSUME NEW t \in Thread
               PROVE  /\ th[t].pc = "remove_take" => "remove" \in Ops
                      /\ th'[t].pc = "set_default" => "set_default" \in Ops
    OBVIOUS
  <2>1. th[t].pc # "idle" => th[t].pc \in Places(th[t].op) /\ th[t].op \in Ops \cup {"none"}
    BY InsideType DEF TypeOK, CallState
  <2>2. th'[t].pc # "idle" => th'[t].pc \in Places(th'[t].op) /\ th'[t].op \in Ops \cup {"none"}
    BY <1>1 DEF TypeOK, CallsOK, WellFormed, CallState
  <2>3. /\ th[t].pc = "remove_take" => th[t].op = "remove"
        /\ th'[t].pc = "set_default" => th'[t].op = "set_default"
    BY <2>1, <2>2, WhoIsAt
  <2> QED
    BY <2>1, <2>2, <2>3
<1>3. ChosenKnown'
  <2> SUFFICES ASSUME NEW u \in Thread, th'[u].pc = "set_default"
               PROVE  \A m : m = th'[u].model => Known(m)'
    BY DEF ChosenKnown
  <2>1. Known(th[u].model) /\ th'[u].model = th[u].model
    BY WhoChooses DEF DefaultInv, ChosenKnown, Known, Registered
  <2>2. \A m : ~Removes(m)
    BY <1>2 DEF Removes
  <2> QED
    BY <1>1, <2>1, <2>2 DEF ModelsNext
<1>4. \A m : Removes(m) => \E t \in Thread : th'[t].pc = "remove_default" /\ th'[t].model = m
  BY DEF Removes
<1>5. ASSUME NEW m, m = default', Known(m)' \/ Removes(m) \/ m = NoModel
      PROVE  DefaultRegistered'
  BY <1>4, <1>5 DEF DefaultRegistered, Known
<1>6. ASSUME default' = default
      PROVE  DefaultRegistered'
  <2>1. ASSUME default = NoModel \/ Known(default)
        PROVE  DefaultRegistered'
    <3>1. PICK m : m = default
      OBVIOUS
    <3>2. Known(m) \/ m = NoModel
      BY <2>1, <3>1 DEF Known, Registered, Ends
    <3> QED
      BY <1>1, <1>5, <1>6, <3>1, <3>2 DEF ModelsNext
  <2>2. ASSUME NEW t \in Thread, th[t].pc = "remove_default", th[t].model = default
        PROVE  DefaultRegistered'
    <3>1. CASE th'[t] = th[t]
      BY <1>6, <2>2, <3>1 DEF DefaultRegistered
    <3>2. CASE RemoveDefault(t)
      <4>1. default' \in engines
        BY <2>2, <3>2 DEF RemoveDefault
      <4>2. Known(default)
        BY <1>6, <4>1 DEF Known, Registered
      <4> QED
        BY <2>1, <4>2
    <3> QED
      BY <2>2, <3>1, <3>2, RemoverWaits
  <2> QED
    BY <2>1, <2>2 DEF DefaultInv, DefaultRegistered, Known
<1>7. ASSUME default' # default
      PROVE  DefaultRegistered'
  <2>1. PICK t \in Thread :
           \/ LoadDefault(t) /\ default' = th[t].model
           \/ AddDefault(t) /\ default' = th[t].model
           \/ RemoveDefault(t) /\ default' \in engines
           \/ SetDefault(t) /\ default' = th[t].model
    BY <1>7, WhoSetsDefault
  <2>2. PICK m : m = default'
    OBVIOUS
  <2>3. CASE LoadDefault(t) /\ default' = th[t].model
    <3>1. m \in engines \cup overtaken
      BY <2>2, <2>3 DEF LoadDefault, At, DefaultInv, FinishesKnown
    <3> QED
      BY <1>1, <1>5, <2>2, <3>1 DEF ModelsNext, Known, Registered
  <2>4. CASE AddDefault(t) /\ default' = th[t].model
    <3>1. m \in engines
      BY <2>2, <2>4, EnginesKeptAs DEF AddDefault, At, DefaultInv
    <3> QED
      BY <1>1, <1>5, <2>2, <3>1 DEF ModelsNext, Known, Registered
  <2>5. CASE RemoveDefault(t) /\ default' \in engines
    BY <1>1, <1>5, <2>2, <2>5 DEF ModelsNext, Known, Registered
  <2>6. CASE SetDefault(t) /\ default' = th[t].model
    <3>1. Known(th[t].model) /\ th[t].model = m
      BY <2>2, <2>6 DEF SetDefault, At, DefaultInv, ChosenKnown
    <3>2. Known(m)
      BY <3>1 DEF Known, Registered, Ends
    <3> QED
      BY <1>1, <1>5, <2>2, <3>2 DEF ModelsNext
  <2> QED
    BY <2>1, <2>3, <2>4, <2>5, <2>6
<1> QED
  BY <1>1, <1>3, <1>6, <1>7 DEF DefaultInv, ModelsNext

\* Whatever is loaded at the start, and whatever is sent to, loaded, evicted,
\* unloaded, added and removed, the default names a registered model, but for the
\* moment in which remove_model replaces it under the lock of the engines and for a
\* model whose load was overtaken; set_default_model_id must not run beside
\* remove_model, as its check is no longer true when it writes.
THEOREM DefaultIsRegistered ==
  ASSUME ~({"remove", "set_default"} \subseteq Ops)
  PROVE  Spec => []DefaultRegistered
<1>1. Init => DefaultInv
  <2> SUFFICES ASSUME Init PROVE DefaultInv
    OBVIOUS
  <2>1. \A t \in Thread : th[t].pc = "idle"
    BY DEF Init
  <2>2. FinishesKnown /\ EnginesKept /\ ChosenKnown
    BY <2>1, EnginesKeptAs DEF FinishesKnown, ChosenKnown
  <2>3. DefaultRegistered
    BY DEF Init, DefaultRegistered, Registered
  <2> QED
    BY <2>2, <2>3 DEF DefaultInv
<1>2. TypeOK /\ LocksKept /\ DefaultInv /\ [Next]_vars => DefaultInv'
  BY DefaultNext
<1>3. DefaultInv => DefaultRegistered
  BY DEF DefaultInv
<1> QED
  BY <1>1, <1>2, <1>3, LocksAreKept, PTL DEF Spec

-----------------------------------------------------------------------------
(* Requests, and the evictions and loads that they start. *)

\* What Claims, Loads, Ends and Finishes say of a call by itself.
ClaimSteps  == EvictSteps \cup (LoadSteps \ {"bump"})
ClaimsAt(c) == c.pc \in ClaimSteps \/ (c.back # "idle" /\ c.pc \in UnloadSteps)
LoadsAt(c)  == \/ c.pc \in {"evict", "reload_get", "load", "refit", "insert", "load_default",
                            "load_done"}
               \/ c.back \in {"evict", "refit"} /\ c.pc \in UnloadSteps
EndsAt(c)   == c.pc = "unload_store"
DoneAt(c)   == c.pc \in {"load_default", "load_done"}

LEMMA AtCalls ==
  ASSUME NEW t, NEW m
  PROVE  /\ Claims(t, m) <=> th[t].model = m /\ ClaimsAt(th[t])
         /\ Loads(t) <=> LoadsAt(th[t])
         /\ Ends(t, m) <=> th[t].victim = m /\ EndsAt(th[t])
         /\ Finishes(t, m) <=> th[t].model = m /\ DoneAt(th[t])
         /\ Claims(t, m)' <=> th'[t].model = m /\ ClaimsAt(th'[t])
         /\ Loads(t)' <=> LoadsAt(th'[t])
         /\ Ends(t, m)' <=> th'[t].victim = m /\ EndsAt(th'[t])
         /\ Finishes(t, m)' <=> th'[t].model = m /\ DoneAt(th'[t])
BY DEF Claims, Evicting, Loads, Ends, Finishes, ClaimsAt, ClaimSteps, LoadsAt, EndsAt, DoneAt,
       EvictSteps, LoadSteps, UnloadSteps

\* A call that loads, or has loaded, has claimed its model.
LEMMA LoadersClaim ==
  ASSUME NEW c PROVE LoadsAt(c) \/ DoneAt(c) => ClaimsAt(c)
BY DEF LoadsAt, DoneAt, ClaimsAt, ClaimSteps, EvictSteps, LoadSteps, UnloadSteps

\* The invariant of the requests, call by call.
RequestFacts(f, E, U, R) ==
    /\ \A m \in Model : m \in R <=> \E t \in Thread : f[t].model = m /\ ClaimsAt(f[t])
    /\ \A t, u \in Thread : ClaimsAt(f[t]) /\ ClaimsAt(f[u]) /\ f[t].model = f[u].model => t = u
    /\ \A t \in Thread : LoadsAt(f[t]) => f[t].model \in U
    /\ \A t \in Thread : EndsAt(f[t]) => f[t].victim \notin E
    /\ \A t, u \in Thread : EndsAt(f[t]) /\ EndsAt(f[u]) /\ f[t].victim = f[u].victim => t = u
    /\ \A m \in U \cap E : \E w \in Thread : DoneAt(f[w]) /\ f[w].model = m
    /\ \A t \in Thread : EndsAt(f[t]) /\ f[t].victim \in U =>
         \E w \in Thread : DoneAt(f[w]) /\ f[w].model = f[t].victim
    /\ \A t \in Thread : f[t].pc = "asleep" =>
         \E u \in Thread : (f[u].model = f[t].model /\ ClaimsAt(f[u])) \/ f[u].pc = "bump"

\* A call that claims or ends an engine is about a model.
LEMMA AboutModels ==
  ASSUME TypeOK, NEW t \in Thread, ClaimsAt(th[t]) \/ EndsAt(th[t]) \/ DoneAt(th[t])
  PROVE  th[t].model \in Model /\ th[t].victim \in Model
<1>1. th[t].pc # "idle"
  BY DEF ClaimsAt, EndsAt, DoneAt, ClaimSteps, EvictSteps, LoadSteps, UnloadSteps
<1> QED
  BY <1>1, InsideType DEF TypeOK

LEMMA FactsOf ==
  ASSUME TypeOK, MarkersHeld, LoadsFromUnloaded, InstancesApart, SleepersWillWake
  PROVE  RequestFacts(th, engines, unloaded, reloading)
<1>1. \A t \in Thread : ClaimsAt(th[t]) \/ EndsAt(th[t]) =>
        th[t].model \in Model /\ th[t].victim \in Model
  BY AboutModels
<1>2. \A t, u \in Thread : ClaimsAt(th[t]) /\ ClaimsAt(th[u]) /\ th[t].model = th[u].model => t = u
  BY <1>1, AtCalls DEF MarkersHeld
<1>3. \A m \in Model : m \in reloading <=> \E t \in Thread : th[t].model = m /\ ClaimsAt(th[t])
  BY AtCalls DEF MarkersHeld
<1>4. \A t \in Thread : LoadsAt(th[t]) => th[t].model \in unloaded
  BY AtCalls DEF LoadsFromUnloaded
<1>5. /\ \A t \in Thread : EndsAt(th[t]) => th[t].victim \notin engines
      /\ \A t, u \in Thread : EndsAt(th[t]) /\ EndsAt(th[u]) /\ th[t].victim = th[u].victim => t = u
  BY <1>1, AtCalls DEF InstancesApart
<1>6. \A m \in Model : m \in unloaded /\ (m \in engines \/ \E t \in Thread : Ends(t, m)) =>
        \E w \in Thread : DoneAt(th[w]) /\ th[w].model = m
  BY AtCalls DEF InstancesApart
<1>7. \A m \in unloaded \cap engines : \E w \in Thread : DoneAt(th[w]) /\ th[w].model = m
  BY <1>6 DEF TypeOK, MapsOK
<1>8. \A t \in Thread : EndsAt(th[t]) /\ th[t].victim \in unloaded =>
         \E w \in Thread : DoneAt(th[w]) /\ th[w].model = th[t].victim
  BY <1>1, <1>6, AtCalls
<1>9. \A t \in Thread : th[t].pc = "asleep" =>
         \E u \in Thread : (th[u].model = th[t].model /\ ClaimsAt(th[u])) \/ th[u].pc = "bump"
  BY AtCalls DEF SleepersWillWake
<1> QED
  BY <1>2, <1>3, <1>4, <1>5, <1>7, <1>8, <1>9 DEF RequestFacts

LEMMA FactsOfNext ==
  ASSUME TypeOK', RequestFacts(th', engines', unloaded', reloading')
  PROVE  RequestInv'
<1>1. MarkersHeld'
  BY AtCalls DEF MarkersHeld, RequestFacts
<1>2. LoadsFromUnloaded'
  BY AtCalls DEF LoadsFromUnloaded, RequestFacts
<1>3. InstancesApart'
  BY AtCalls DEF InstancesApart, RequestFacts
<1>4. SleepersWillWake'
  BY AtCalls DEF SleepersWillWake, RequestFacts
<1> QED
  BY <1>1, <1>2, <1>3, <1>4 DEF RequestInv

\* A step of t that leaves the maps alone, and neither claims nor releases,
\* begins to load an unloaded model only, and sleeps behind a marker only.
LEMMA FactsMove ==
  ASSUME NEW f, NEW g, NEW E, NEW U, NEW R, NEW t \in Thread,
         RequestFacts(f, E, U, R), \A u \in Thread \ {t} : g[u] = f[u],
         ClaimsAt(g[t]) <=> ClaimsAt(f[t]),
         ClaimsAt(f[t]) => g[t].model = f[t].model,
         LoadsAt(g[t]) => g[t].model \in U,
         ~EndsAt(f[t]), ~EndsAt(g[t]), DoneAt(f[t]) => DoneAt(g[t]),
         f[t].pc # "bump", g[t].pc = "asleep" => g[t].model \in R \cap Model
  PROVE  RequestFacts(g, E, U, R)
<1>0. DoneAt(f[t]) => g[t].model = f[t].model
  BY LoadersClaim
<1>1. \A u \in Thread : /\ ClaimsAt(g[u]) <=> ClaimsAt(f[u])
                        /\ ClaimsAt(f[u]) => g[u].model = f[u].model
                        /\ LoadsAt(g[u]) => g[u].model \in U
                        /\ EndsAt(g[u]) => EndsAt(f[u]) /\ g[u].victim = f[u].victim
                        /\ DoneAt(f[u]) => DoneAt(g[u]) /\ g[u].model = f[u].model
  BY <1>0 DEF RequestFacts
<1>2. /\ \A m \in Model : m \in R <=> \E u \in Thread : g[u].model = m /\ ClaimsAt(g[u])
      /\ \A u, w \in Thread : ClaimsAt(g[u]) /\ ClaimsAt(g[w]) /\ g[u].model = g[w].model => u = w
  BY <1>1 DEF RequestFacts
<1>3. /\ \A u \in Thread : EndsAt(g[u]) => g[u].victim \notin E
      /\ \A u, w \in Thread : EndsAt(g[u]) /\ EndsAt(g[w]) /\ g[u].victim = g[w].victim => u = w
  BY <1>1 DEF RequestFacts
<1>4. /\ \A m \in U \cap E : \E w \in Thread : DoneAt(g[w]) /\ g[w].model = m
      /\ \A u \in Thread : EndsAt(g[u]) /\ g[u].victim \in U =>
           \E w \in Thread : DoneAt(g[w]) /\ g[w].model = g[u].victim
  BY <1>1 DEF RequestFacts
<1>5. ASSUME NEW u \in Thread, g[u].pc = "asleep"
      PROVE  \E w \in Thread : (g[w].model = g[u].model /\ ClaimsAt(g[w])) \/ g[w].pc = "bump"
  <2>1. CASE u = t
    BY <1>2, <1>5, <2>1
  <2>2. CASE u # t
    <3>1. PICK w \in Thread : (f[w].model = f[u].model /\ ClaimsAt(f[w])) \/ f[w].pc = "bump"
      BY <1>5, <2>2 DEF RequestFacts
    <3> QED
      BY <1>1, <2>2, <3>1
  <2> QED
    BY <2>1, <2>2
<1> QED
  BY <1>1, <1>2, <1>3, <1>4, <1>5 DEF RequestFacts

\* A request claims a model that nobody has claimed.
LEMMA FactsClaim ==
  ASSUME NEW f, NEW g, NEW E, NEW U, NEW R, NEW t \in Thread,
         RequestFacts(f, E, U, R), \A u \in Thread \ {t} : g[u] = f[u],
         f[t].pc = "claim", g[t].pc = "evict_idle", g[t].model = f[t].model,
         f[t].model \in Model \ R
  PROVE  RequestFacts(g, E, U, R \cup {f[t].model})
<1>1. /\ ~ClaimsAt(f[t]) /\ ~EndsAt(f[t]) /\ ~DoneAt(f[t])
      /\ ClaimsAt(g[t]) /\ ~LoadsAt(g[t]) /\ ~EndsAt(g[t]) /\ ~DoneAt(g[t])
  BY DEF ClaimsAt, ClaimSteps, LoadsAt, EndsAt, DoneAt, EvictSteps, LoadSteps, UnloadSteps
<1>2. \A u \in Thread : ~(ClaimsAt(f[u]) /\ f[u].model = f[t].model)
  BY DEF RequestFacts
<1>3. /\ \A m \in Model : m \in R \cup {f[t].model} <=>
           \E u \in Thread : g[u].model = m /\ ClaimsAt(g[u])
      /\ \A u, w \in Thread : ClaimsAt(g[u]) /\ ClaimsAt(g[w]) /\ g[u].model = g[w].model => u = w
  BY <1>1, <1>2 DEF RequestFacts
<1>4. /\ \A u \in Thread : LoadsAt(g[u]) => g[u].model \in U
      /\ \A u \in Thread : EndsAt(g[u]) => g[u].victim \notin E
      /\ \A u, w \in Thread : EndsAt(g[u]) /\ EndsAt(g[w]) /\ g[u].victim = g[w].victim => u = w
  BY <1>1 DEF RequestFacts
<1>5. /\ \A m \in U \cap E : \E w \in Thread : DoneAt(g[w]) /\ g[w].model = m
      /\ \A u \in Thread : EndsAt(g[u]) /\ g[u].victim \in U =>
           \E w \in Thread : DoneAt(g[w]) /\ g[w].model = g[u].victim
  BY <1>1 DEF RequestFacts
<1>6. \A u \in Thread : g[u].pc = "asleep" =>
         \E w \in Thread : (g[w].model = g[u].model /\ ClaimsAt(g[w])) \/ g[w].pc = "bump"
  BY <1>1 DEF RequestFacts
<1> QED
  BY <1>3, <1>4, <1>5, <1>6 DEF RequestFacts

\* A load puts its engine into the map: no thread is ending an older one, for
\* the model is unloaded, and would then be at the end of another load.
LEMMA FactsInsert ==
  ASSUME NEW f, NEW g, NEW E, NEW U, NEW R, NEW t \in Thread,
         RequestFacts(f, E, U, R), \A u \in Thread \ {t} : g[u] = f[u],
         f[t].pc = "insert", g[t].pc = "load_default", g[t].model = f[t].model
  PROVE  RequestFacts(g, E \cup {f[t].model}, U, R)
<1>1. /\ ClaimsAt(f[t]) /\ LoadsAt(f[t]) /\ ~EndsAt(f[t]) /\ ~DoneAt(f[t])
      /\ ClaimsAt(g[t]) /\ LoadsAt(g[t]) /\ ~EndsAt(g[t]) /\ DoneAt(g[t])
  BY DEF ClaimsAt, ClaimSteps, LoadsAt, EndsAt, DoneAt, EvictSteps, LoadSteps, UnloadSteps
<1>2. ASSUME NEW u \in Thread, EndsAt(f[u]), f[u].victim = f[t].model
      PROVE  FALSE
  <2>1. f[u].victim \in U
    BY <1>1, <1>2 DEF RequestFacts
  <2>2. PICK w \in Thread : DoneAt(f[w]) /\ f[w].model = f[t].model
    BY <1>2, <2>1 DEF RequestFacts
  <2>3. w = t
    BY <1>1, <2>2, LoadersClaim DEF RequestFacts
  <2> QED
    BY <1>1, <2>2, <2>3
<1>3. /\ \A m \in Model : m \in R <=> \E u \in Thread : g[u].model = m /\ ClaimsAt(g[u])
      /\ \A u, w \in Thread : ClaimsAt(g[u]) /\ ClaimsAt(g[w]) /\ g[u].model = g[w].model => u = w
  BY <1>1 DEF RequestFacts
<1>4. /\ \A u \in Thread : LoadsAt(g[u]) => g[u].model \in U
      /\ \A u \in Thread : EndsAt(g[u]) => g[u].victim \notin E \cup {f[t].model}
      /\ \A u, w \in Thread : EndsAt(g[u]) /\ EndsAt(g[w]) /\ g[u].victim = g[w].victim => u = w
  BY <1>1, <1>2 DEF RequestFacts
<1>5. /\ \A m \in U \cap (E \cup {f[t].model}) : \E w \in Thread : DoneAt(g[w]) /\ g[w].model = m
      /\ \A u \in Thread : EndsAt(g[u]) /\ g[u].victim \in U =>
           \E w \in Thread : DoneAt(g[w]) /\ g[w].model = g[u].victim
  BY <1>1 DEF RequestFacts
<1>6. \A u \in Thread : g[u].pc = "asleep" =>
         \E w \in Thread : (g[w].model = g[u].model /\ ClaimsAt(g[w])) \/ g[w].pc = "bump"
  BY <1>1 DEF RequestFacts
<1> QED
  BY <1>3, <1>4, <1>5, <1>6 DEF RequestFacts

\* A load that is done takes the unloaded state away, which nobody else needs.
LEMMA FactsDone ==
  ASSUME NEW f, NEW g, NEW E, NEW U, NEW R, NEW t \in Thread,
         RequestFacts(f, E, U, R), \A u \in Thread \ {t} : g[u] = f[u],
         f[t].pc = "load_done", g[t].pc = "unmark", g[t].model = f[t].model
  PROVE  RequestFacts(g, E, U \ {f[t].model}, R)
<1>1. /\ ClaimsAt(f[t]) /\ LoadsAt(f[t]) /\ ~EndsAt(f[t]) /\ DoneAt(f[t])
      /\ ClaimsAt(g[t]) /\ ~LoadsAt(g[t]) /\ ~EndsAt(g[t]) /\ ~DoneAt(g[t])
  BY DEF ClaimsAt, ClaimSteps, LoadsAt, EndsAt, DoneAt, EvictSteps, LoadSteps, UnloadSteps
<1>2. /\ \A m \in Model : m \in R <=> \E u \in Thread : g[u].model = m /\ ClaimsAt(g[u])
      /\ \A u, w \in Thread : ClaimsAt(g[u]) /\ ClaimsAt(g[w]) /\ g[u].model = g[w].model => u = w
  BY <1>1 DEF RequestFacts
<1>3. \A u \in Thread : LoadsAt(g[u]) => g[u].model \in U \ {f[t].model}
  <2>1. \A u \in Thread \ {t} : LoadsAt(f[u]) => f[u].model # f[t].model
    BY <1>1, LoadersClaim DEF RequestFacts
  <2> QED
    BY <1>1, <2>1 DEF RequestFacts
<1>4. /\ \A u \in Thread : EndsAt(g[u]) => g[u].victim \notin E
      /\ \A u, w \in Thread : EndsAt(g[u]) /\ EndsAt(g[w]) /\ g[u].victim = g[w].victim => u = w
  BY <1>1 DEF RequestFacts
<1>5. /\ \A m \in (U \ {f[t].model}) \cap E : \E w \in Thread : DoneAt(g[w]) /\ g[w].model = m
      /\ \A u \in Thread : EndsAt(g[u]) /\ g[u].victim \in U \ {f[t].model} =>
           \E w \in Thread : DoneAt(g[w]) /\ g[w].model = g[u].victim
  BY <1>1 DEF RequestFacts
<1>6. \A u \in Thread : g[u].pc = "asleep" =>
         \E w \in Thread : (g[w].model = g[u].model /\ ClaimsAt(g[w])) \/ g[w].pc = "bump"
  BY <1>1 DEF RequestFacts
<1> QED
  BY <1>2, <1>3, <1>4, <1>5, <1>6 DEF RequestFacts

\* The marker goes, and the bump is still to come.
LEMMA FactsUnmark ==
  ASSUME NEW f, NEW g, NEW E, NEW U, NEW R, NEW t \in Thread,
         RequestFacts(f, E, U, R), \A u \in Thread \ {t} : g[u] = f[u],
         f[t].pc = "unmark", g[t].pc = "bump", g[t].model = f[t].model
  PROVE  RequestFacts(g, E, U, R \ {f[t].model})
<1>1. /\ ClaimsAt(f[t]) /\ ~EndsAt(f[t]) /\ ~DoneAt(f[t])
      /\ ~ClaimsAt(g[t]) /\ ~LoadsAt(g[t]) /\ ~EndsAt(g[t]) /\ ~DoneAt(g[t])
  BY DEF ClaimsAt, ClaimSteps, LoadsAt, EndsAt, DoneAt, EvictSteps, LoadSteps, UnloadSteps
<1>2. /\ \A m \in Model : m \in R \ {f[t].model} <=>
           \E u \in Thread : g[u].model = m /\ ClaimsAt(g[u])
      /\ \A u, w \in Thread : ClaimsAt(g[u]) /\ ClaimsAt(g[w]) /\ g[u].model = g[w].model => u = w
  BY <1>1 DEF RequestFacts
<1>3. /\ \A u \in Thread : LoadsAt(g[u]) => g[u].model \in U
      /\ \A u \in Thread : EndsAt(g[u]) => g[u].victim \notin E
      /\ \A u, w \in Thread : EndsAt(g[u]) /\ EndsAt(g[w]) /\ g[u].victim = g[w].victim => u = w
  BY <1>1 DEF RequestFacts
<1>4. /\ \A m \in U \cap E : \E w \in Thread : DoneAt(g[w]) /\ g[w].model = m
      /\ \A u \in Thread : EndsAt(g[u]) /\ g[u].victim \in U =>
           \E w \in Thread : DoneAt(g[w]) /\ g[w].model = g[u].victim
  BY <1>1 DEF RequestFacts
<1>5. \A u \in Thread : g[u].pc = "asleep" =>
         \E w \in Thread : (g[w].model = g[u].model /\ ClaimsAt(g[w])) \/ g[w].pc = "bump"
  OBVIOUS
<1> QED
  BY <1>2, <1>3, <1>4, <1>5 DEF RequestFacts

\* An unload takes an engine from the map: nobody else is ending one of the model.
LEMMA FactsTake ==
  ASSUME NEW f, NEW g, NEW E, NEW U, NEW R, NEW t \in Thread,
         RequestFacts(f, E, U, R), \A u \in Thread \ {t} : g[u] = f[u],
         f[t].pc = "unload_take", g[t].pc = "unload_store", g[t].model = f[t].model,
         g[t].victim = f[t].victim, g[t].back = f[t].back, f[t].victim \in E
  PROVE  RequestFacts(g, E \ {f[t].victim}, U, R)
<1>1. /\ ~EndsAt(f[t]) /\ ~DoneAt(f[t]) /\ EndsAt(g[t]) /\ ~DoneAt(g[t])
      /\ ClaimsAt(g[t]) <=> ClaimsAt(f[t])
      /\ LoadsAt(g[t]) <=> LoadsAt(f[t])
  BY DEF ClaimsAt, ClaimSteps, LoadsAt, EndsAt, DoneAt, EvictSteps, LoadSteps, UnloadSteps
<1>2. /\ \A m \in Model : m \in R <=> \E u \in Thread : g[u].model = m /\ ClaimsAt(g[u])
      /\ \A u, w \in Thread : ClaimsAt(g[u]) /\ ClaimsAt(g[w]) /\ g[u].model = g[w].model => u = w
  BY <1>1 DEF RequestFacts
<1>3. /\ \A u \in Thread : LoadsAt(g[u]) => g[u].model \in U
      /\ \A u \in Thread : EndsAt(g[u]) => g[u].victim \notin E \ {f[t].victim}
      /\ \A u, w \in Thread : EndsAt(g[u]) /\ EndsAt(g[w]) /\ g[u].victim = g[w].victim => u = w
  BY <1>1 DEF RequestFacts
<1>4. \A m : (\E w \in Thread : DoneAt(f[w]) /\ f[w].model = m) =>
               \E w \in Thread : DoneAt(g[w]) /\ g[w].model = m
  BY <1>1
<1>5. /\ \A m \in U \cap (E \ {f[t].victim}) : \E w \in Thread : DoneAt(g[w]) /\ g[w].model = m
      /\ \A u \in Thread : EndsAt(g[u]) /\ g[u].victim \in U =>
           \E w \in Thread : DoneAt(g[w]) /\ g[w].model = g[u].victim
  BY <1>1, <1>4 DEF RequestFacts
<1>6. \A u \in Thread : g[u].pc = "asleep" =>
         \E w \in Thread : (g[w].model = g[u].model /\ ClaimsAt(g[w])) \/ g[w].pc = "bump"
  BY <1>1 DEF RequestFacts
<1> QED
  BY <1>2, <1>3, <1>5, <1>6 DEF RequestFacts

\* An unload ends, and its model can be loaded again.
LEMMA FactsStore ==
  ASSUME NEW f, NEW g, NEW E, NEW U, NEW R, NEW t \in Thread,
         RequestFacts(f, E, U, R), \A u \in Thread \ {t} : g[u] = f[u],
         f[t].pc = "unload_store", g[t].pc = IF f[t].back = "refit" THEN "load" ELSE f[t].back,
         f[t].back \in {"idle", "evict_stale", "evict", "refit"},
         g[t].model = f[t].model, g[t].victim = f[t].victim, g[t].back = f[t].back
  PROVE  RequestFacts(g, E, U \cup {f[t].victim}, R)
<1>1. /\ EndsAt(f[t]) /\ ~DoneAt(f[t]) /\ ~EndsAt(g[t]) /\ ~DoneAt(g[t])
      /\ ClaimsAt(g[t]) <=> ClaimsAt(f[t])
      /\ LoadsAt(g[t]) => LoadsAt(f[t])
      /\ g[t].pc # "asleep"
  BY DEF ClaimsAt, ClaimSteps, LoadsAt, EndsAt, DoneAt, EvictSteps, LoadSteps, UnloadSteps
<1>2. /\ \A m \in Model : m \in R <=> \E u \in Thread : g[u].model = m /\ ClaimsAt(g[u])
      /\ \A u, w \in Thread : ClaimsAt(g[u]) /\ ClaimsAt(g[w]) /\ g[u].model = g[w].model => u = w
  BY <1>1 DEF RequestFacts
<1>3. /\ \A u \in Thread : LoadsAt(g[u]) => g[u].model \in U \cup {f[t].victim}
      /\ \A u \in Thread : EndsAt(g[u]) => g[u].victim \notin E
      /\ \A u, w \in Thread : EndsAt(g[u]) /\ EndsAt(g[w]) /\ g[u].victim = g[w].victim => u = w
  BY <1>1 DEF RequestFacts
<1>4. \A m : (\E w \in Thread : DoneAt(f[w]) /\ f[w].model = m) =>
               \E w \in Thread : DoneAt(g[w]) /\ g[w].model = m
  BY <1>1
<1>5. \A u \in Thread : EndsAt(g[u]) => g[u].victim # f[t].victim /\ u # t
  BY <1>1 DEF RequestFacts
<1>6. f[t].victim \notin E
  BY <1>1 DEF RequestFacts
<1>7. /\ \A m \in (U \cup {f[t].victim}) \cap E : \E w \in Thread : DoneAt(g[w]) /\ g[w].model = m
      /\ \A u \in Thread : EndsAt(g[u]) /\ g[u].victim \in U \cup {f[t].victim} =>
           \E w \in Thread : DoneAt(g[w]) /\ g[w].model = g[u].victim
  BY <1>1, <1>4, <1>5, <1>6 DEF RequestFacts
<1>8. \A u \in Thread : g[u].pc = "asleep" =>
         \E w \in Thread : (g[w].model = g[u].model /\ ClaimsAt(g[w])) \/ g[w].pc = "bump"
  BY <1>1 DEF RequestFacts
<1> QED
  BY <1>2, <1>3, <1>7, <1>8 DEF RequestFacts

\* After a bump nobody sleeps.
LEMMA FactsBump ==
  ASSUME NEW f, NEW g, NEW E, NEW U, NEW R, RequestFacts(f, E, U, R),
         \A u \in Thread : \/ g[u] = f[u] /\ f[u].pc # "asleep"
                           \/ /\ f[u].pc \in {"asleep", "bump"}
                              /\ g[u].pc \in {"is_loaded", "idle"}
  PROVE  RequestFacts(g, E, U, R)
<1>1. \A u \in Thread :
        \/ g[u] = f[u]
        \/ /\ ~ClaimsAt(f[u]) /\ ~EndsAt(f[u]) /\ ~DoneAt(f[u])
           /\ ~ClaimsAt(g[u]) /\ ~LoadsAt(g[u]) /\ ~EndsAt(g[u]) /\ ~DoneAt(g[u])
  BY DEF ClaimsAt, ClaimSteps, LoadsAt, EndsAt, DoneAt, EvictSteps, LoadSteps, UnloadSteps
<1>2. /\ \A m \in Model : m \in R <=> \E u \in Thread : g[u].model = m /\ ClaimsAt(g[u])
      /\ \A u, w \in Thread : ClaimsAt(g[u]) /\ ClaimsAt(g[w]) /\ g[u].model = g[w].model => u = w
  BY <1>1 DEF RequestFacts
<1>3. /\ \A u \in Thread : LoadsAt(g[u]) => g[u].model \in U
      /\ \A u \in Thread : EndsAt(g[u]) => g[u].victim \notin E
      /\ \A u, w \in Thread : EndsAt(g[u]) /\ EndsAt(g[w]) /\ g[u].victim = g[w].victim => u = w
  BY <1>1 DEF RequestFacts
<1>4. /\ \A m \in U \cap E : \E w \in Thread : DoneAt(g[w]) /\ g[w].model = m
      /\ \A u \in Thread : EndsAt(g[u]) /\ g[u].victim \in U =>
           \E w \in Thread : DoneAt(g[w]) /\ g[w].model = g[u].victim
  BY <1>1 DEF RequestFacts
<1>5. \A u \in Thread : g[u].pc # "asleep"
  OBVIOUS
<1> QED
  BY <1>2, <1>3, <1>4, <1>5 DEF RequestFacts

\* The invariant of the requests, before a step and after it.
Facts     == RequestFacts(th, engines, unloaded, reloading)
FactsNext == RequestFacts(th', engines', unloaded', reloading')

\* A step of get_sender or of the dispatch.
LEMMA SenderFacts ==
  ASSUME TypeOK, Facts, AutoEvict, NEW t \in Thread, GetSender(t) \/ TimeOut(t)
  PROVE  FactsNext
<1>1. th[t].pc \in SenderSteps /\ th[t].model \in Model
  <2>1. th[t].pc \in SenderSteps /\ th[t].pc # "idle"
    BY DEF GetSender, Resolve, IsLoaded, EngineDead, Reboot, Pick, IsUnloaded, IsReloading, Claim,
           WaitForReload, ResolveAgain, Dispatch, TimeOut, At, SenderSteps
  <2> QED
    BY <2>1, InsideType DEF TypeOK
<1>2. ASSUME engines' = engines, unloaded' = unloaded, reloading' = reloading,
             NEW pc \in SenderSteps \cup {"idle"}, NEW m, Becomes(t, pc, m, th[t].victim, th[t].back),
             pc = "asleep" => m \in reloading \cap Model
      PROVE  FactsNext
  <2>1. (\A u \in Thread \ {t} : th'[u] = th[u]) /\ th'[t].pc = pc /\ th'[t].model = m
    BY <1>2 DEF Becomes
  <2>2. /\ ~ClaimsAt(th[t]) /\ ~EndsAt(th[t]) /\ ~DoneAt(th[t]) /\ th[t].pc # "bump"
        /\ ~ClaimsAt(th'[t]) /\ ~LoadsAt(th'[t]) /\ ~EndsAt(th'[t])
    BY <1>1, <2>1 DEF SenderSteps, ClaimsAt, ClaimSteps, LoadsAt, EndsAt, DoneAt, EvictSteps,
                      LoadSteps, UnloadSteps
  <2>3. RequestFacts(th', engines, unloaded, reloading)
    BY <1>2, <2>1, <2>2, FactsMove DEF Facts
  <2> QED
    BY <1>2, <2>3 DEF FactsNext
<1>3. \A pc : Go(t, pc) => Becomes(t, pc, th[t].model, th[t].victim, th[t].back)
  BY GoStays DEF TypeOK, Stays
<1>4. \A r : Return(t, r) => Becomes(t, "idle", th[t].model, th[t].victim, th[t].back)
  BY ReturnStays DEF TypeOK, Stays
<1>5. CASE Resolve(t) \/ ResolveAgain(t)
  <2>1. engines' = engines /\ unloaded' = unloaded /\ reloading' = reloading
    BY <1>5 DEF Resolve, ResolveAgain, engineVars
  <2>2. PICK pc \in {"is_loaded", "dispatch"} : ResolveDefault(t, pc)
    BY <1>5 DEF Resolve, ResolveAgain
  <2>3. \E q \in {pc, "idle"} : \E m : Becomes(t, q, m, th[t].victim, th[t].back)
    BY <2>2, ResolveBecomes DEF Stays
  <2> QED
    BY <1>2, <2>1, <2>3 DEF SenderSteps
<1>6. CASE IsLoaded(t) \/ EngineDead(t) \/ Pick(t) \/ IsUnloaded(t) \/ IsReloading(t) \/ Dispatch(t)
           \/ TimeOut(t)
  <2>1. engines' = engines /\ unloaded' = unloaded /\ reloading' = reloading
    BY <1>6 DEF IsLoaded, EngineDead, Pick, IsUnloaded, IsReloading, Dispatch, TimeOut, engineVars
  <2>2. \/ \E pc \in {"engine_dead", "is_unloaded", "reboot", "pick", "resolve_again", "dispatch",
                      "claim", "is_reloading", "is_loaded"} : Go(t, pc)
        \/ \E r : Return(t, r)
    BY <1>6 DEF IsLoaded, EngineDead, Pick, IsUnloaded, IsReloading, Dispatch, TimeOut
  <2> QED
    BY <1>2, <1>3, <1>4, <2>1, <2>2 DEF SenderSteps
<1>7. CASE Reboot(t)
  <2>1. unloaded' = unloaded /\ reloading' = reloading
    BY <1>7 DEF Reboot
  <2>2. engines' = engines
    BY <1>7 DEF Reboot, Put, engineVars, TypeOK, MapsOK
  <2>3. Go(t, "pick") \/ Return(t, "poisoned")
    BY <1>7 DEF Reboot
  <2> QED
    BY <1>2, <1>3, <1>4, <2>1, <2>2, <2>3 DEF SenderSteps
<1>8. CASE WaitForReload(t)
  <2>1. engines' = engines /\ unloaded' = unloaded /\ reloading' = reloading
    BY <1>8 DEF WaitForReload, engineVars
  <2>2. Go(t, "is_loaded") \/ (Go(t, "asleep") /\ th[t].model \in reloading)
    BY <1>8 DEF WaitForReload
  <2> QED
    BY <1>1, <1>2, <1>3, <2>1, <2>2 DEF SenderSteps
<1>9. CASE Claim(t) /\ th[t].model \in reloading
  <2>1. /\ engines' = engines /\ unloaded' = unloaded /\ reloading' = reloading
        /\ Go(t, "wait")
    BY <1>9 DEF Claim, engineVars
  <2> QED
    BY <1>2, <1>3, <2>1 DEF SenderSteps
<1>10. CASE Claim(t) /\ th[t].model \notin reloading
  <2>1. /\ engines' = engines /\ unloaded' = unloaded /\ reloading' = reloading \cup {th[t].model}
        /\ Go(t, "evict_idle") /\ th[t].pc = "claim"
    BY <1>10 DEF Claim, engineVars
  <2>2. /\ \A u \in Thread \ {t} : th'[u] = th[u]
        /\ th'[t].pc = "evict_idle" /\ th'[t].model = th[t].model
    BY <1>3, <2>1 DEF Becomes
  <2>3. RequestFacts(th', engines, unloaded, reloading \cup {th[t].model})
    BY <1>1, <1>10, <2>1, <2>2, FactsClaim DEF Facts
  <2> QED
    BY <2>1, <2>3 DEF FactsNext
<1> QED
  BY <1>5, <1>6, <1>7, <1>8, <1>9, <1>10 DEF GetSender

\* A call that goes on with what it has claimed.
LEMMA ClaimerFacts ==
  ASSUME TypeOK, Facts, NEW t \in Thread,
         engines' = engines, unloaded' = unloaded, reloading' = reloading,
         NEW pc, NEW v, NEW b, Becomes(t, pc, th[t].model, v, b),
         ClaimsAt(th[t]), ~EndsAt(th[t]),
         pc \in ClaimSteps \/ (pc \in {"unload_check", "unload_take"} /\ b # "idle"),
         DoneAt(th[t]) => pc \in {"load_default", "load_done"},
         \/ LoadsAt(th[t]) \/ th[t].model \in unloaded
         \/ pc \in {"evict_idle", "evict_stale", "estimate", "unmark"}
         \/ pc \in UnloadSteps /\ b = "evict_stale"
  PROVE  FactsNext
<1>1. /\ \A u \in Thread \ {t} : th'[u] = th[u]
      /\ th'[t].pc = pc /\ th'[t].model = th[t].model /\ th'[t].back = b
  BY DEF Becomes
<1>2. /\ ClaimsAt(th'[t]) /\ ~EndsAt(th'[t]) /\ th[t].pc # "bump" /\ th'[t].pc # "asleep"
      /\ DoneAt(th[t]) => DoneAt(th'[t])
  BY <1>1 DEF ClaimsAt, ClaimSteps, EndsAt, DoneAt, EvictSteps, LoadSteps, UnloadSteps
<1>3. LoadsAt(th'[t]) => LoadsAt(th[t]) \/ th[t].model \in unloaded
  BY <1>1 DEF LoadsAt, UnloadSteps
<1>4. LoadsAt(th[t]) => th[t].model \in unloaded
  BY DEF Facts, RequestFacts
<1>5. RequestFacts(th', engines, unloaded, reloading)
  BY <1>1, <1>2, <1>3, <1>4, FactsMove DEF Facts
<1> QED
  BY <1>5 DEF FactsNext

\* A step of evict_for_request.
LEMMA EvictFacts ==
  ASSUME TypeOK, Facts, NEW t \in Thread, EvictForRequest(t)
  PROVE  FactsNext
<1>1. /\ engines' = engines /\ unloaded' = unloaded /\ reloading' = reloading
      /\ th[t].pc \in EvictSteps
  BY DEF EvictForRequest, EvictIdle, EvictStale, Estimate, Evict, At, engineVars, EvictSteps
<1>2. ClaimsAt(th[t]) /\ ~EndsAt(th[t]) /\ ~DoneAt(th[t])
  BY <1>1 DEF ClaimsAt, ClaimSteps, EndsAt, DoneAt, EvictSteps
<1>3. ASSUME NEW pc \in {"evict_stale", "estimate", "unmark"}, NEW b, NEW v,
             Becomes(t, pc, th[t].model, v, b)
      PROVE  FactsNext
  BY <1>1, <1>2, <1>3, ClaimerFacts DEF ClaimSteps, EvictSteps, LoadSteps
<1>4. /\ th' = [th EXCEPT ![t].pc = "unmark", ![t].result = "failed"] => FactsNext
      /\ th' = [th EXCEPT ![t].pc = "unmark", ![t].result = "not_found"] => FactsNext
  BY <1>3, GoStays DEF TypeOK, Stays
<1>5. CASE EvictIdle(t)
  <2>1. PICK s : th' = [th EXCEPT ![t].pc = "evict_stale", ![t].stale = s]
    BY <1>5 DEF EvictIdle
  <2> QED
    BY <1>3, <2>1, GoStays DEF TypeOK, Stays
<1>6. CASE EvictStale(t)
  <2>1. CASE Stays(t, "estimate")
    BY <1>3, <2>1 DEF Stays
  <2>2. ASSUME NEW v \in Model, Becomes(t, "unload_check", th[t].model, v, "evict_stale")
        PROVE  FactsNext
    BY <1>1, <1>2, <2>2, ClaimerFacts DEF UnloadSteps
  <2> QED
    BY <1>6, <2>1, <2>2, EvictStaleBecomes
<1>7. CASE Estimate(t)
  <2>1. ASSUME NEW pc \in {"evict", "reload_get"}, Go(t, pc), th[t].model \in unloaded
        PROVE  FactsNext
    <3>1. Becomes(t, pc, th[t].model, th[t].victim, th[t].back)
      BY <2>1, GoStays DEF TypeOK, Stays
    <3> QED
      BY <1>1, <1>2, <2>1, <3>1, ClaimerFacts DEF ClaimSteps, EvictSteps, LoadSteps
  <2> QED
    BY <1>4, <1>7, <2>1 DEF Estimate
<1>8. CASE Evict(t)
  <2>1. LoadsAt(th[t])
    BY <1>8 DEF Evict, At, LoadsAt
  <2>2. CASE Go(t, "reload_get")
    <3>1. Becomes(t, "reload_get", th[t].model, th[t].victim, th[t].back)
      BY <2>2, GoStays DEF TypeOK, Stays
    <3> QED
      BY <1>1, <1>2, <2>1, <3>1, ClaimerFacts DEF ClaimSteps, LoadSteps
  <2>3. ASSUME NEW m, Unload(t, m, "evict")
        PROVE  FactsNext
    <3>1. Becomes(t, "unload_check", th[t].model, m, "evict")
      BY <2>3, UnloadBecomes DEF TypeOK
    <3> QED
      BY <1>1, <1>2, <2>1, <3>1, ClaimerFacts
  <2> QED
    BY <1>4, <1>8, <2>2, <2>3 DEF Evict
<1> QED
  BY <1>5, <1>6, <1>7, <1>8 DEF EvictForRequest

\* A step of a load.
LEMMA LoadFacts ==
  ASSUME TypeOK, Facts, "reload" \notin Ops, NEW t \in Thread, Reload(t)
  PROVE  FactsNext
<1>1. ~ReloadCheck(t) /\ ~ReloadMark(t)
  <2>1. ASSUME ReloadCheck(t) \/ ReloadMark(t) PROVE FALSE
    <3>1. th[t].pc \in {"reload_check", "reload_mark"} /\ th[t].pc # "idle"
      BY <2>1 DEF ReloadCheck, ReloadMark
    <3>2. th[t].pc \in Places(th[t].op) /\ th[t].op \in Ops \cup {"none"}
      BY <3>1, InsideType DEF TypeOK, CallState
    <3> QED
      BY <3>1, <3>2, WhoIsAt
  <2> QED
    BY <2>1
<1>2. \A pc : Go(t, pc) => Becomes(t, pc, th[t].model, th[t].victim, th[t].back)
  BY GoStays DEF TypeOK, Stays
<1>3. \A pc, v, b : Becomes(t, pc, th[t].model, v, b) =>
        /\ \A u \in Thread \ {t} : th'[u] = th[u]
        /\ th'[t].pc = pc /\ th'[t].model = th[t].model
  BY DEF Becomes
<1>4. CASE ReloadGet(t) \/ Load(t) \/ Refit(t)
  <2>1. /\ engines' = engines /\ unloaded' = unloaded /\ reloading' = reloading
        /\ th[t].pc \in {"reload_get", "load", "refit"}
    BY <1>4 DEF ReloadGet, Load, Refit, At, engineVars
  <2>2. ClaimsAt(th[t]) /\ ~EndsAt(th[t]) /\ ~DoneAt(th[t]) /\ LoadsAt(th[t])
    BY <2>1 DEF ClaimsAt, ClaimSteps, EndsAt, DoneAt, LoadsAt, EvictSteps, LoadSteps
  <2>3. th[t].model \in unloaded
    BY <2>2 DEF Facts, RequestFacts
  <2>4. \/ \E pc \in {"load", "insert", "refit", "unmark"} : \E b :
             Becomes(t, pc, th[t].model, th[t].victim, b)
        \/ \E v : Becomes(t, "unload_check", th[t].model, v, "refit")
    <3>1. th' = [th EXCEPT ![t].pc = "unmark", ![t].result = "failed"] =>
            Becomes(t, "unmark", th[t].model, th[t].victim, th[t].back)
      BY GoStays DEF TypeOK, Stays
    <3>2. \A v : Unload(t, v, "refit") => Becomes(t, "unload_check", th[t].model, v, "refit")
      BY UnloadBecomes DEF TypeOK
    <3>3. CASE ReloadGet(t)
      BY <2>3, <3>3, ReloadGetBecomes
    <3>4. CASE Load(t)
      BY <1>2, <3>1, <3>4 DEF Load
    <3>5. CASE Refit(t)
      BY <3>1, <3>2, <3>5 DEF Refit
    <3> QED
      BY <1>4, <3>3, <3>4, <3>5
  <2>5. ASSUME NEW pc \in {"load", "insert", "refit", "unmark"}, NEW b,
               Becomes(t, pc, th[t].model, th[t].victim, b)
        PROVE  FactsNext
    BY <2>1, <2>2, <2>5, ClaimerFacts DEF ClaimSteps, LoadSteps
  <2>6. ASSUME NEW v, Becomes(t, "unload_check", th[t].model, v, "refit")
        PROVE  FactsNext
    BY <2>1, <2>2, <2>6, ClaimerFacts
  <2> QED
    BY <2>4, <2>5, <2>6
<1>5. CASE LoadDefault(t)
  <2>1. /\ engines' = engines /\ unloaded' = unloaded /\ reloading' = reloading
        /\ th[t].pc = "load_default"
        /\ Becomes(t, "load_done", th[t].model, th[t].victim, th[t].back)
    BY <1>2, <1>5 DEF LoadDefault, At, engineVars
  <2>2. ClaimsAt(th[t]) /\ ~EndsAt(th[t]) /\ LoadsAt(th[t])
    BY <2>1 DEF ClaimsAt, ClaimSteps, EndsAt, LoadsAt, EvictSteps, LoadSteps
  <2> QED
    BY <2>1, <2>2, ClaimerFacts DEF ClaimSteps, LoadSteps
<1>6. CASE Insert(t)
  <2>1. /\ engines' = engines \cup {th[t].model} /\ unloaded' = unloaded /\ reloading' = reloading
        /\ th[t].pc = "insert" /\ Becomes(t, "load_default", th[t].model, th[t].victim, th[t].back)
    BY <1>2, <1>6 DEF Insert, At, Put
  <2>2. RequestFacts(th', engines \cup {th[t].model}, unloaded, reloading)
    BY <1>3, <2>1, FactsInsert DEF Facts
  <2> QED
    BY <2>1, <2>2 DEF FactsNext
<1>7. CASE LoadDone(t)
  <2>1. /\ engines' = engines /\ unloaded' = unloaded \ {th[t].model} /\ reloading' = reloading
        /\ th[t].pc = "load_done" /\ Becomes(t, "unmark", th[t].model, th[t].victim, th[t].back)
    BY <1>2, <1>7 DEF LoadDone, engineVars
  <2>2. RequestFacts(th', engines, unloaded \ {th[t].model}, reloading)
    BY <1>3, <2>1, FactsDone DEF Facts
  <2> QED
    BY <2>1, <2>2 DEF FactsNext
<1>8. CASE Unmark(t)
  <2>1. /\ engines' = engines /\ unloaded' = unloaded /\ reloading' = reloading \ {th[t].model}
        /\ th[t].pc = "unmark" /\ Becomes(t, "bump", th[t].model, th[t].victim, th[t].back)
    BY <1>2, <1>8 DEF Unmark, engineVars
  <2>2. RequestFacts(th', engines, unloaded, reloading \ {th[t].model})
    BY <1>3, <2>1, FactsUnmark DEF Facts
  <2> QED
    BY <2>1, <2>2 DEF FactsNext
<1>9. CASE Bump(t)
  <2>1. \A u \in Thread : \/ th'[u] = th[u] /\ th[u].pc # "asleep"
                          \/ /\ th[u].pc \in {"asleep", "bump"}
                             /\ th'[u].pc \in {"is_loaded", "idle"}
    BY <1>9 DEF Bump, AfterLoad, TypeOK, CallsOK, CallState
  <2>2. engines' = engines /\ unloaded' = unloaded /\ reloading' = reloading
    BY <1>9 DEF Bump, engineVars
  <2>3. RequestFacts(th', engines, unloaded, reloading)
    BY <2>1, FactsBump DEF Facts
  <2> QED
    BY <2>2, <2>3 DEF FactsNext
<1> QED
  BY <1>1, <1>4, <1>5, <1>6, <1>7, <1>8, <1>9 DEF Reload

\* A step of an unload, of a client or of a request that evicts.
LEMMA UnloadFacts ==
  ASSUME TypeOK, Facts, NEW t \in Thread, UnloadModel(t)
  PROVE  FactsNext
<1>1. th[t].pc \in UnloadSteps /\ reloading' = reloading
  BY DEF UnloadModel, UnloadCheck, UnloadTake, UnloadStore, At, UnloadSteps
<1>2. th[t].back \in {"idle", "evict_stale", "evict", "refit"}
  BY DEF TypeOK, CallsOK, CallState
<1>3. \A pc : Go(t, pc) => Stays(t, pc)
  BY GoStays DEF TypeOK
<1>4. \A r : UnloadFails(t, r) => Stays(t, th[t].back)
  BY UnloadFailsStays DEF TypeOK
<1>5. \A pc : Stays(t, pc) =>
        /\ \A u \in Thread \ {t} : th'[u] = th[u]
        /\ th'[t].pc = pc /\ th'[t].model = th[t].model /\ th'[t].victim = th[t].victim
        /\ th'[t].back = th[t].back
  BY DEF Stays, Becomes
<1>6. ASSUME NEW pc \in {"unload_take", th[t].back}, Stays(t, pc), th[t].pc # "unload_store",
             engines' = engines, unloaded' = unloaded
      PROVE  FactsNext
  <2>1. /\ \A u \in Thread \ {t} : th'[u] = th[u]
        /\ th'[t].pc = pc /\ th'[t].model = th[t].model /\ th'[t].back = th[t].back
    BY <1>5, <1>6
  <2>2. /\ ClaimsAt(th'[t]) <=> ClaimsAt(th[t])
        /\ LoadsAt(th'[t]) => LoadsAt(th[t])
        /\ ~EndsAt(th[t]) /\ ~EndsAt(th'[t]) /\ ~DoneAt(th[t])
        /\ th[t].pc # "bump" /\ th'[t].pc # "asleep"
    BY <1>1, <1>2, <1>6, <2>1 DEF ClaimsAt, ClaimSteps, LoadsAt, EndsAt, DoneAt, EvictSteps,
                                  LoadSteps, UnloadSteps
  <2>3. LoadsAt(th[t]) => th[t].model \in unloaded
    BY DEF Facts, RequestFacts
  <2>4. RequestFacts(th', engines, unloaded, reloading)
    BY <2>1, <2>2, <2>3, FactsMove DEF Facts
  <2> QED
    BY <1>1, <1>6, <2>4 DEF FactsNext
<1>7. CASE UnloadCheck(t)
  <2>1. /\ engines' = engines /\ unloaded' = unloaded /\ th[t].pc # "unload_store"
        /\ Stays(t, "unload_take") \/ Stays(t, th[t].back)
    BY <1>3, <1>4, <1>7 DEF UnloadCheck, engineVars
  <2> QED
    BY <1>6, <2>1
<1>8. CASE UnloadTake(t) /\ th[t].victim \notin engines
  <2>1. /\ engines' = engines /\ unloaded' = unloaded /\ th[t].pc # "unload_store"
        /\ Stays(t, th[t].back)
    BY <1>4, <1>8 DEF UnloadTake, At, engineVars
  <2> QED
    BY <1>6, <2>1
<1>9. CASE UnloadTake(t) /\ th[t].victim \in engines
  <2>1. /\ engines' = engines \ {th[t].victim} /\ unloaded' = unloaded /\ th[t].pc = "unload_take"
        /\ Stays(t, "unload_store")
    BY <1>3, <1>9 DEF UnloadTake, At, Take
  <2>2. RequestFacts(th', engines \ {th[t].victim}, unloaded, reloading)
    BY <1>5, <1>9, <2>1, FactsTake DEF Facts
  <2> QED
    BY <1>1, <2>1, <2>2 DEF FactsNext
<1>10. CASE UnloadStore(t)
  <2> DEFINE pc == IF th[t].back = "refit" THEN "load" ELSE th[t].back
  <2>1. /\ engines' = engines /\ unloaded' = unloaded \cup {th[t].victim}
        /\ th[t].pc = "unload_store" /\ Stays(t, pc)
    BY <1>3, <1>10 DEF UnloadStore, engineVars
  <2>2. RequestFacts(th', engines, unloaded \cup {th[t].victim}, reloading)
    BY <1>2, <1>5, <2>1, FactsStore DEF Facts
  <2> QED
    BY <1>1, <2>1, <2>2 DEF FactsNext
<1> QED
  BY <1>7, <1>8, <1>9, <1>10 DEF UnloadModel

\* A call begins without a claim.
LEMMA CallFacts ==
  ASSUME TypeOK, Facts, Ops \subseteq {"send", "send_default", "unload"}, NEW t \in Thread, Call(t)
  PROVE  FactsNext
<1>1. PICK op \in Ops, m \in Model :
        th' = [th EXCEPT ![t] = [op |-> op, pc |-> FirstStep[op], model |-> m, victim |-> m,
                                 back |-> "idle", stale |-> {}, skipped |-> {}, result |-> "ok"]]
  BY DEF Call
<1>2. /\ \A u \in Thread \ {t} : th'[u] = th[u]
      /\ th'[t].pc = FirstStep[op] /\ th'[t].back = "idle"
  BY <1>1 DEF TypeOK, CallsOK
<1>3. FirstStep[op] \in {"is_loaded", "resolve", "unload_check"}
  BY DEF FirstStep
<1>4. /\ th[t].pc = "idle"
      /\ engines' = engines /\ unloaded' = unloaded /\ reloading' = reloading
  BY DEF Call, engineVars
<1>5. /\ ~ClaimsAt(th[t]) /\ ~EndsAt(th[t]) /\ ~DoneAt(th[t])
      /\ ~ClaimsAt(th'[t]) /\ ~LoadsAt(th'[t]) /\ ~EndsAt(th'[t]) /\ th'[t].pc # "asleep"
  BY <1>2, <1>3, <1>4 DEF ClaimsAt, ClaimSteps, LoadsAt, EndsAt, DoneAt, EvictSteps, LoadSteps,
                          UnloadSteps
<1>6. RequestFacts(th', engines, unloaded, reloading)
  BY <1>2, <1>4, <1>5, FactsMove DEF Facts
<1> QED
  BY <1>4, <1>6 DEF FactsNext

\* Every step of requests and unloads keeps the invariant.
LEMMA RequestNext ==
  ASSUME RequestInv, [Next]_vars, AutoEvict, Ops \subseteq {"send", "send_default", "unload"}
  PROVE  RequestInv'
<1>1. TypeOK /\ TypeOK' /\ Facts
  BY NextType, FactsOf DEF RequestInv, Facts
<1>2. ASSUME NEW t \in Thread, Administer(t) PROVE FALSE
  <2>1. th[t].pc \in {"remove_take", "remove_default", "set_check", "set_default", "set_mirror",
                      "add_reloading", "add_engines", "add_check", "add_insert", "add_default",
                      "add_store"}
    BY <1>2 DEF Administer, RemoveTake, RemoveDefault, SetCheck, SetDefault, SetMirror,
       AddCheckReloading, AddCheckEngines, AddCheckUnloaded, AddStore, AddInsert, AddDefault, At
  <2>2. th[t].pc \in Places(th[t].op) /\ th[t].op \in Ops \cup {"none"}
    BY <1>1, <2>1, InsideType DEF TypeOK, CallState
  <2>3. th[t].op \in {"remove", "set_default", "add", "add_unloaded"}
    BY <2>1, <2>2, WhoIsAt
  <2> QED
    BY <2>2, <2>3
<1>3. ASSUME NEW t \in Thread, Call(t) \/ Step(t) \/ TimeOut(t)
      PROVE  FactsNext
  BY <1>1, <1>2, <1>3, CallFacts, SenderFacts, EvictFacts, LoadFacts, UnloadFacts DEF Step
<1>4. ASSUME EngineStep \/ UNCHANGED vars
      PROVE  FactsNext
  <2>1. th' = th /\ engines' = engines /\ unloaded' = unloaded /\ reloading' = reloading
    BY <1>4 DEF EngineStep, vars, engineVars
  <2> QED
    BY <1>1, <2>1 DEF Facts, FactsNext
<1>5. FactsNext
  BY <1>3, <1>4 DEF Next
<1> QED
  BY <1>1, <1>5, FactsOfNext DEF FactsNext

\* With requests that load their models on demand and evict others for it, and
\* clients that unload, the markers, the loads and the unloads agree.
THEOREM RequestsAgree ==
  ASSUME AutoEvict, Ops \subseteq {"send", "send_default", "unload"}
  PROVE  Spec => []RequestInv
<1>1. Init => RequestInv
  <2> SUFFICES ASSUME Init PROVE RequestInv
    OBVIOUS
  <2>1. TypeOK
    BY InitType
  <2>2. \A t \in Thread : th[t].pc = "idle"
    BY DEF Init
  <2>3. reloading = {} /\ unloaded \cap engines = {}
    BY RegistryAssumption DEF Init
  <2>4. \A t \in Thread : \A m : ~Claims(t, m) /\ ~Loads(t) /\ ~Ends(t, m)
    BY <2>2 DEF Claims, Loads, Ends, Evicting
  <2>5. MarkersHeld /\ LoadsFromUnloaded /\ InstancesApart /\ SleepersWillWake
    BY <2>2, <2>3, <2>4 DEF MarkersHeld, LoadsFromUnloaded, InstancesApart, SleepersWillWake
  <2> QED
    BY <2>1, <2>5 DEF RequestInv
<1>2. RequestInv /\ [Next]_vars => RequestInv'
  BY RequestNext
<1> QED
  BY <1>1, <1>2, PTL DEF Spec

\* reloading_models holds a model exactly while one request loads it: no two
\* requests load the same model, and no marker outlives its load.
THEOREM MarkersAreOwned ==
  ASSUME AutoEvict, Ops \subseteq {"send", "send_default", "unload"}
  PROVE  Spec => []MarkersOwned
<1>1. RequestInv => MarkersOwned
  <2> SUFFICES ASSUME RequestInv, NEW m \in Model
               PROVE  Cardinality({t \in Thread : Claims(t, m)}) = IF m \in reloading THEN 1 ELSE 0
    BY DEF MarkersOwned
  <2>1. CASE m \in reloading
    <3>1. PICK t \in Thread : Claims(t, m)
      BY <2>1 DEF RequestInv, MarkersHeld
    <3>2. {u \in Thread : Claims(u, m)} = {t}
      BY <3>1 DEF RequestInv, MarkersHeld
    <3>3. Cardinality({t}) = 1
      BY FS_Singleton
    <3> QED
      BY <2>1, <3>2, <3>3
  <2>2. CASE m \notin reloading
    <3>1. {u \in Thread : Claims(u, m)} = {}
      BY <2>2 DEF RequestInv, MarkersHeld
    <3>2. Cardinality({}) = 0
      BY FS_EmptySet
    <3> QED
      BY <2>2, <3>1, <3>2
  <2> QED
    BY <2>1, <2>2
<1> QED
  BY <1>1, RequestsAgree, PTL

\* Behind every request that sleeps in wait_for_reload there is a thread that
\* loads its model or is about to bump reload_cv.
THEOREM NoWakeUpIsLost ==
  ASSUME AutoEvict, Ops \subseteq {"send", "send_default", "unload"}
  PROVE  Spec => []SleepersWillWake
<1>1. RequestInv => SleepersWillWake
  BY DEF RequestInv
<1> QED
  BY <1>1, RequestsAgree, PTL

\* However requests, evictions and unloads interleave, no model is loaded a
\* second time while an engine of it is in the map or has not yet ended.
THEOREM ModelsHaveOneInstance ==
  ASSUME AutoEvict, Ops \subseteq {"send", "send_default", "unload"}
  PROVE  Spec => []OneInstance
<1>1. RequestInv => OneInstance
  <2> SUFFICES ASSUME RequestInv, NEW m \in Model
               PROVE  LET loading == {t \in Thread : th[t].model = m
                                                     /\ th[t].pc \in {"load", "refit", "insert"}}
                          ending  == {t \in Thread : th[t].victim = m /\ th[t].pc = "unload_store"}
                      IN  Cardinality(loading) + Cardinality(ending)
                            + (IF m \in engines THEN 1 ELSE 0) <= 1
    BY DEF OneInstance
  <2> DEFINE loading == {t \in Thread : th[t].model = m /\ th[t].pc \in {"load", "refit", "insert"}}
             ending  == {t \in Thread : th[t].victim = m /\ th[t].pc = "unload_store"}
  <2>1. Facts
    BY FactsOf DEF RequestInv, Facts
  <2>2. \A t \in loading : /\ ClaimsAt(th[t]) /\ LoadsAt(th[t]) /\ ~DoneAt(th[t])
                           /\ t \in Thread /\ th[t].model = m
    BY DEF ClaimsAt, ClaimSteps, LoadsAt, DoneAt, LoadSteps
  <2>3. \A t \in ending : EndsAt(th[t]) /\ t \in Thread /\ th[t].victim = m
    BY DEF EndsAt
  <2> HIDE DEF loading, ending
  <2>4. \A t, u \in loading : t = u
    BY <2>1, <2>2 DEF Facts, RequestFacts
  <2>5. \A t, u \in ending : t = u
    BY <2>1, <2>3 DEF Facts, RequestFacts
  <2>6. ending # {} => m \notin engines
    BY <2>1, <2>3 DEF Facts, RequestFacts
  <2>7. ASSUME NEW t \in loading, ending # {} \/ m \in engines
        PROVE  FALSE
    <3>1. m \in unloaded
      BY <2>1, <2>2 DEF Facts, RequestFacts
    <3>2. PICK w \in Thread : DoneAt(th[w]) /\ th[w].model = m
      BY <2>1, <2>3, <2>7, <3>1 DEF Facts, RequestFacts
    <3>3. w = t
      BY <2>1, <2>2, <3>2, LoadersClaim DEF Facts, RequestFacts
    <3> QED
      BY <2>2, <3>2, <3>3
  <2>8. /\ loading = {} => Cardinality(loading) = 0
        /\ loading # {} => Cardinality(loading) = 1
    <3>1. loading # {} => \E t : loading = {t}
      BY <2>4
    <3> QED
      BY <3>1, FS_EmptySet, FS_Singleton
  <2>9. /\ ending = {} => Cardinality(ending) = 0
        /\ ending # {} => Cardinality(ending) = 1
    <3>1. ending # {} => \E t : ending = {t}
      BY <2>5
    <3> QED
      BY <3>1, FS_EmptySet, FS_Singleton
  <2>10. Cardinality(loading) + Cardinality(ending) + (IF m \in engines THEN 1 ELSE 0) <= 1
    BY <2>6, <2>7, <2>8, <2>9
  <2> QED
    BY <2>10 DEF loading, ending
<1> QED
  BY <1>1, RequestsAgree, PTL

=============================================================================
