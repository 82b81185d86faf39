-------------------------- MODULE AdapterRegistry --------------------------
(***************************************************************************)
(* Dynamic LoRA adapters (adapter/registry.rs, adapter/runtime.rs): the    *)
(* loads and unloads of a running model, and the requests that pin what    *)
(* they select.                                                            *)
(*                                                                         *)
(* A resident adapter is an Arc: it lives while an alias, the table of     *)
(* generations, a lease or a load refers to it, and the table of slots     *)
(* only has a Weak reference.  Its memory and its share of the budget are  *)
(* given back by whoever drops the last reference.  Objects stand for the  *)
(* allocations; an object may be used again once it is dropped.            *)
(*                                                                         *)
(* The staging lock is left out: only the one holder of the load permit    *)
(* ever takes it.  Loads at startup end before the runtime is shared.      *)
(***************************************************************************)
EXTENDS Integers, FiniteSets

CONSTANTS
    Loader,             \* callers of load_lora_adapter
    Alias, Generation,
    Request,            \* requests that select an adapter
    Object,             \* allocations of a ResidentAdapterGeneration
    Bytes,              \* the size of each generation
    MaxAdapters, MaxBytes,
    None

ASSUME AdapterAssumption ==
    /\ Bytes \in [Generation -> Nat]
    /\ MaxAdapters \in Nat \ {0} /\ MaxBytes \in Nat
    /\ None \notin Object \cup Generation \cup Loader

VARIABLES
    aliases,            \* alias -> the object it is bound to
    generations,        \* generation -> its object
    slots,              \* slot -> its object, None when the Weak is dead
    nextSlot,
    object,             \* the generation and slot of every object
    adapters, bytes,    \* ResidentBudgetState
    mutation,           \* who holds mutation_lock
    permit,             \* who holds the load permit
    pc, call, held,     \* of a load: where it is, its arguments, its reference
    lease,              \* request -> the object that it pinned
    dropping            \* objects whose last reference is gone, not yet released

registry == <<aliases, generations, slots, nextSlot, object>>
budget   == <<adapters, bytes>>
loads    == <<mutation, permit, pc, call, held>>
vars     == <<registry, budget, loads, lease, dropping>>

\* What may be registered under an alias before a load: LoraAdapterLoadPolicy
\* Create, Upsert and CompareAndSwap.
Policies == {{None}, Generation \cup {None}} \cup {{g} : g \in Generation}

Calls == [alias : Alias, generation : Generation, policy : Policies]

Init ==
    /\ aliases = [a \in Alias |-> None] /\ generations = [g \in Generation |-> None]
    /\ slots = << >> /\ nextSlot = 0 /\ object = << >>
    /\ adapters = 0 /\ bytes = 0
    /\ mutation = None /\ permit = None
    /\ pc = [t \in Loader |-> "idle"] /\ call = [t \in Loader |-> None]
    /\ held = [t \in Loader |-> None]
    /\ lease = [r \in Request |-> None] /\ dropping = {}

-----------------------------------------------------------------------------
(* References. *)

Live == DOMAIN object \ dropping

\* The generation under an alias, None for an alias that is not registered.
Current(a) == IF aliases[a] = None THEN None ELSE object[aliases[a]].generation

Registered == {a \in Alias : aliases[a] # None}

\* validate_registration.
AliasFits(a) == a \in Registered \/ Cardinality(Registered) < MaxAdapters

\* Mutant: a generation without alias is not found.
ResolvedByTable(g) == {generations[g]} \ {None}

\* resolve_generation: by the table, else what a Weak still reaches.
Resolved(g) ==
    IF generations[g] # None THEN {generations[g]}
    ELSE {o \in Live : \E s \in DOMAIN slots : slots[s] = o /\ object[o].generation = g}

\* Whether o is still referred to, given the references that remain.
Referred(o, als, gens, hold, leases) ==
    \/ \E a \in Alias : als[a] = o
    \/ \E g \in Generation : gens[g] = o
    \/ \E t \in Loader : hold[t] = o
    \/ \E r \in Request : leases[r] = o

\* still_aliased: an alias in als is bound to generation g.
Kept(g, als) == \E a \in Alias : als[a] # None /\ object[als[a]].generation = g

\* The slots after the objects of dead are gone.
Without(s, dead) == [i \in DOMAIN s |-> IF s[i] \in dead THEN None ELSE s[i]]

\* A thread under mutation_lock drops the references to o that the next state
\* lacks, and releases it at once when they were the last: nobody else reads
\* the budget before the lock is released.
DropInLock(o, table) ==
    IF o # None /\ ~Referred(o, aliases', generations', held', lease)
    THEN /\ object' = [x \in DOMAIN object \ {o} |-> object[x]]
         /\ slots' = Without(table, {o})
         /\ adapters' = adapters - 1 /\ bytes' = bytes - Bytes[object[o].generation]
    ELSE UNCHANGED <<object, adapters, bytes>> /\ slots' = table

-----------------------------------------------------------------------------
(* Loads: load_lora_adapter_with_policy and load_from_files_with_policy. *)

Goto(t, place) == pc' = [pc EXCEPT ![t] = place]

\* The load ends, with its guards.
Return(t) ==
    /\ Goto(t, "idle")
    /\ call' = [call EXCEPT ![t] = None]
    /\ mutation' = IF mutation = t THEN None ELSE mutation
    /\ permit' = None

\* Mutant: loads do not exclude each other.
BeginWithoutPermit(t) ==
    /\ pc[t] = "idle"
    /\ \E c \in Calls : call' = [call EXCEPT ![t] = c]
    /\ Goto(t, "validate")
    /\ UNCHANGED <<registry, budget, mutation, permit, held, lease, dropping>>

\* The permit, or LoadBusy.
Begin(t) ==
    /\ pc[t] = "idle" /\ permit = None
    /\ \E c \in Calls : call' = [call EXCEPT ![t] = c]
    /\ permit' = t
    /\ Goto(t, "validate")
    /\ UNCHANGED <<registry, budget, mutation, held, lease, dropping>>

Validate(t) ==
    /\ pc[t] = "validate"
    /\ IF AliasFits(call[t].alias)
       THEN Goto(t, "check") /\ UNCHANGED <<call, mutation, permit>>
       ELSE Return(t)
    /\ UNCHANGED <<registry, budget, held, lease, dropping>>

\* validate_load_policy, and the files, which may turn out to be unusable.
Check(t) ==
    /\ pc[t] = "check"
    /\ \/ /\ Current(call[t].alias) \in call[t].policy
          /\ Goto(t, "lock") /\ UNCHANGED <<call, mutation, permit>>
       \/ Return(t)
    /\ UNCHANGED <<registry, budget, held, lease, dropping>>

\* Mutant: the policy is not checked again.
LockUnchecked(t) ==
    /\ pc[t] = "lock" /\ mutation = None
    /\ mutation' = t /\ Goto(t, "resolve")
    /\ UNCHANGED <<registry, budget, call, permit, held, lease, dropping>>

\* The mutation lock, and the policy once more.
Lock(t) ==
    /\ pc[t] = "lock" /\ mutation = None
    /\ IF Current(call[t].alias) \in call[t].policy
       THEN mutation' = t /\ Goto(t, "resolve") /\ UNCHANGED <<call, permit>>
       ELSE Return(t)
    /\ UNCHANGED <<registry, budget, held, lease, dropping>>

\* install_inner: a generation that is still resident is used again, else room
\* is reserved for it.
Resolve(t) ==
    LET g == call[t].generation
    IN  /\ pc[t] = "resolve"
        /\ \/ /\ \E o \in Resolved(g) : held' = [held EXCEPT ![t] = o]
              /\ Goto(t, "register") /\ UNCHANGED <<call, mutation, permit, budget>>
           \/ /\ Resolved(g) = {} /\ UNCHANGED held
              /\ IF adapters + 1 <= MaxAdapters /\ bytes + Bytes[g] <= MaxBytes
                 THEN /\ adapters' = adapters + 1 /\ bytes' = bytes + Bytes[g]
                      /\ Goto(t, "load") /\ UNCHANGED <<call, mutation, permit>>
                 ELSE Return(t) /\ UNCHANGED budget
        /\ UNCHANGED <<registry, lease, dropping>>

\* Mutant: the reservation is kept.
LoadFailsKeepsReservation(t) ==
    /\ pc[t] = "load"
    /\ Return(t)
    /\ UNCHANGED <<registry, budget, held, lease, dropping>>

\* The weights cannot be loaded: the reservation is dropped.
LoadFails(t) ==
    /\ pc[t] = "load"
    /\ adapters' = adapters - 1 /\ bytes' = bytes - Bytes[call[t].generation]
    /\ Return(t)
    /\ UNCHANGED <<registry, held, lease, dropping>>

\* allocate_slot: a slot whose adapter is gone, else a new one; the resident
\* takes over the reservation.
Install(t) ==
    LET dead == {s \in DOMAIN slots : slots[s] = None}
    IN  /\ pc[t] = "load"
        /\ \E s \in IF dead # {} THEN dead ELSE {nextSlot}, o \in Object \ DOMAIN object :
             /\ slots' = [i \in DOMAIN slots \ {s} |-> slots[i]]
             /\ nextSlot' = IF dead # {} THEN nextSlot ELSE nextSlot + 1
             /\ object' = [x \in DOMAIN object \cup {o} |->
                            IF x = o THEN [generation |-> call[t].generation, slot |-> s]
                                     ELSE object[x]]
             /\ held' = [held EXCEPT ![t] = o]
        /\ Goto(t, "register")
        /\ UNCHANGED <<aliases, generations, budget, call, mutation, permit, lease, dropping>>

\* register: an alias too many or another object of the generation is refused,
\* else the alias is bound, and a generation without alias is retired.
Register(t) ==
    LET o   == held[t]
        a   == call[t].alias
        g   == object[o].generation
        old == aliases[a]
    IN  /\ pc[t] = "register"
        /\ held' = [held EXCEPT ![t] = None]
        /\ IF AliasFits(a) /\ generations[g] \in {None, o}
           THEN /\ aliases' = [aliases EXCEPT ![a] = o]
                /\ LET with == [generations EXCEPT ![g] = o]
                   IN  generations' = IF old = None \/ Kept(object[old].generation, aliases')
                                      THEN with
                                      ELSE [with EXCEPT ![object[old].generation] = None]
                /\ DropInLock(old, [s \in DOMAIN slots \cup {object[o].slot} |->
                                      IF s = object[o].slot THEN o ELSE slots[s]])
           ELSE UNCHANGED <<aliases, generations>> /\ DropInLock(o, slots)
        /\ Return(t)
        /\ UNCHANGED <<nextSlot, lease, dropping>>

-----------------------------------------------------------------------------
(* Unloads and requests. *)

\* unload_if_generation, under mutation_lock; expected is any generation or one.
Unload(a, expected) ==
    /\ mutation = None /\ Current(a) \in expected
    /\ LET o == aliases[a]
       IN  /\ aliases' = [aliases EXCEPT ![a] = None]
           /\ generations' =
                IF Kept(Current(a), aliases') THEN generations
                ELSE [generations EXCEPT ![Current(a)] = None]
           /\ held' = held
           /\ DropInLock(o, slots)
    /\ UNCHANGED <<nextSlot, mutation, permit, pc, call, lease, dropping>>

\* AdapterSelection::pin by alias or by generation.
Pin(r) ==
    /\ lease[r] = None
    /\ \E o \in {aliases[a] : a \in Registered} \cup UNION {Resolved(g) : g \in Generation} :
         lease' = [lease EXCEPT ![r] = o]
    /\ UNCHANGED <<registry, budget, loads, dropping>>

\* A request ends and drops its lease.  The last reference to a resident kills
\* its Weak, and the budget follows (Release).
Unpin(r) ==
    LET o == lease[r]
    IN  /\ o # None
        /\ lease' = [lease EXCEPT ![r] = None]
        /\ LET dead == IF Referred(o, aliases, generations, held, lease') THEN {} ELSE {o}
           IN  /\ dropping' = dropping \cup dead
               /\ slots' = Without(slots, dead)
        /\ UNCHANGED <<aliases, generations, nextSlot, object, budget, loads>>

Release(o) ==
    /\ o \in dropping
    /\ dropping' = dropping \ {o}
    /\ adapters' = adapters - 1 /\ bytes' = bytes - Bytes[object[o].generation]
    /\ object' = [x \in DOMAIN object \ {o} |-> object[x]]
    /\ UNCHANGED <<aliases, generations, slots, nextSlot, loads, lease>>

Next ==
    \/ \E t \in Loader :
        \/ Begin(t) \/ Validate(t) \/ Check(t) \/ Lock(t) \/ Resolve(t)
        \/ LoadFails(t) \/ Install(t) \/ Register(t)
    \/ \E a \in Alias : Unload(a, Generation) \/ \E g \in Generation : Unload(a, {g})
    \/ \E r \in Request : Pin(r) \/ Unpin(r)
    \/ \E o \in Object : Release(o)

Spec == Init /\ [][Next]_vars

-----------------------------------------------------------------------------
(* Properties. *)

\* No two adapters that may run at the same time share a slot, by which an
\* execution finds its weights, and no generation is resident twice; what an
\* alias names can be found by its generation too.
DistinctResidents ==
    /\ \A o, p \in Live : o # p =>
        /\ object[o].slot # object[p].slot
        /\ object[o].generation # object[p].generation
    /\ \A a \in Registered : Resolved(Current(a)) = {aliases[a]}

Reserved == {t \in Loader : pc[t] = "load"}

\* One pair for each byte of what is resident, and of what is reserved.
ResidentBytes == UNION {{o} \X (1 .. Bytes[object[o].generation]) : o \in DOMAIN object}
ReservedBytes == UNION {{t} \X (1 .. Bytes[call[t].generation]) : t \in Reserved}

\* The budget counts exactly what is resident, what is being dropped and what
\* is reserved, and is never exceeded.
BudgetExact ==
    /\ adapters = Cardinality(DOMAIN object) + Cardinality(Reserved)
    /\ bytes = Cardinality(ResidentBytes) + Cardinality(ReservedBytes)
    /\ adapters <= MaxAdapters /\ bytes <= MaxBytes

\* A load that has gone to the cost of loading weights is not refused its alias
\* afterwards, and the numbers of slots stay as small as the adapters are few.
NothingWasted ==
    /\ \A t \in Loader : pc[t] \in {"load", "register"} => AliasFits(call[t].alias)
    /\ nextSlot <= MaxAdapters

\* What a load replaces is what its policy allows, although it checks this long
\* before it registers.
PolicyHonoured ==
    [][\A t \in Loader : pc[t] = "register" /\ pc'[t] = "idle" =>
            Current(call[t].alias) \in call[t].policy]_vars

-----------------------------------------------------------------------------
(* The inductive invariant. *)

\* Whatever is referred to is live.
TypeOK ==
    /\ DOMAIN object \subseteq Object /\ dropping \subseteq DOMAIN object
    /\ object \in [DOMAIN object -> [generation : Generation, slot : Nat]]
    /\ aliases \in [Alias -> Live \cup {None}]
    /\ generations \in [Generation -> Live \cup {None}]
    /\ DOMAIN slots \subseteq Nat /\ slots \in [DOMAIN slots -> Live \cup {None}]
    /\ held \in [Loader -> Live \cup {None}] /\ lease \in [Request -> Live \cup {None}]
    /\ nextSlot \in Nat /\ adapters \in Nat /\ bytes \in Nat
    /\ mutation \in Loader \cup {None} /\ permit \in Loader \cup {None}
    /\ pc \in [Loader -> {"idle", "validate", "check", "lock", "resolve", "load", "register"}]
    /\ call \in [Loader -> Calls \cup {None}]

\* There is one load at a time, which keeps the mutation lock from its last
\* look at the policy on, and a reference only while it registers.
LoadsExclude ==
    \A t \in Loader :
        /\ pc[t] # "idle" => permit = t /\ call[t] \in Calls
        /\ pc[t] \in {"resolve", "load", "register"} <=> mutation = t
        /\ held[t] # None <=> pc[t] = "register"

\* What a load has found out is still so.
LoadsInformed ==
    \A t \in Loader :
        /\ pc[t] \in {"check", "lock", "resolve", "load", "register"} => AliasFits(call[t].alias)
        /\ pc[t] \in {"resolve", "load", "register"} =>
            Current(call[t].alias) \in call[t].policy
        /\ pc[t] = "load" => \A o \in Live : object[o].generation # call[t].generation

\* The table of slots and the residents agree, but for one resident that is
\* being registered; there is no slot beyond.
SlotsAgree ==
    /\ \A s \in DOMAIN slots : slots[s] # None => object[slots[s]].slot = s
    /\ \A o \in Live :
        IF object[o].slot \in DOMAIN slots THEN slots[object[o].slot] = o
        ELSE \E t \in Loader : held[t] = o
    /\ DOMAIN slots \cup {object[o].slot : o \in Live} = 0 .. nextSlot - 1

\* The table of generations, the residents and the aliases agree.
GenerationsAgree ==
    /\ \A o, p \in Live : o # p => object[o].generation # object[p].generation
    /\ \A g \in Generation : generations[g] # None => object[generations[g]].generation = g
    /\ \A a \in Registered : generations[Current(a)] = aliases[a]

CountsFinite ==
    /\ IsFiniteSet(DOMAIN object) /\ IsFiniteSet(Reserved)
    /\ IsFiniteSet(ResidentBytes) /\ IsFiniteSet(ReservedBytes)
    /\ IsFiniteSet(Registered) /\ Cardinality(Registered) <= MaxAdapters

AdapterInv ==
    /\ TypeOK /\ LoadsExclude /\ LoadsInformed /\ SlotsAgree /\ GenerationsAgree
    /\ CountsFinite /\ BudgetExact /\ nextSlot <= MaxAdapters

=============================================================================
