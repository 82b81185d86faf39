------------------------ MODULE AdapterRegistryProofs ------------------------
(***************************************************************************)
(* Proofs about AdapterRegistry, for any number of loaders, requests,      *)
(* aliases and generations of any size.                                    *)
(***************************************************************************)
EXTENDS AdapterRegistry, FiniteSetTheorems, TLAPS

-----------------------------------------------------------------------------
(* Counting bytes. *)

\* One pair for each unit of the size of each element.
Pairs(D, size) == UNION {{x} \X (1 .. size[x]) : x \in D}

\* An element has as many pairs as its size.
LEMMA PairsOne ==
  ASSUME NEW x, NEW n \in Nat
  PROVE  IsFiniteSet({x} \X (1 .. n)) /\ Cardinality({x} \X (1 .. n)) = n
<1> DEFINE f == [i \in 1 .. n |-> <<x, i>>]
<1>1. f \in Bijection(1 .. n, {x} \X (1 .. n))
  <2>1. f \in [1 .. n -> {x} \X (1 .. n)] /\ \A i, j \in 1 .. n : f[i] = f[j] => i = j
    OBVIOUS
  <2>2. \A p \in {x} \X (1 .. n) : \E i \in 1 .. n : f[i] = p
    OBVIOUS
  <2> QED
    BY <2>1, <2>2 DEF Bijection, Injection, Surjection, IsInjective
<1>2. IsFiniteSet(1 .. n) /\ Cardinality(1 .. n) = n
  BY FS_Interval
<1> QED
  BY <1>1, <1>2, FS_Bijection DEF ExistsBijection

\* Adding or taking away one element changes the count by its size.
LEMMA PairsSplit ==
  ASSUME NEW D, NEW x, x \notin D, NEW size, size[x] \in Nat,
         IsFiniteSet(Pairs(D, size)) \/ IsFiniteSet(Pairs(D \cup {x}, size))
  PROVE  /\ IsFiniteSet(Pairs(D, size)) /\ IsFiniteSet(Pairs(D \cup {x}, size))
         /\ Cardinality(Pairs(D, size)) \in Nat
         /\ Cardinality(Pairs(D \cup {x}, size)) = Cardinality(Pairs(D, size)) + size[x]
<1> DEFINE P == Pairs(D, size)
           Q == {x} \X (1 .. size[x])
<1>1. Pairs(D \cup {x}, size) = P \cup Q /\ P \cap Q = {}
  BY DEF Pairs
<1>2. IsFiniteSet(Q) /\ Cardinality(Q) = size[x]
  BY PairsOne
<1> HIDE DEF P, Q
<1>3. IsFiniteSet(P)
  BY <1>1, FS_Subset DEF P
<1>4. /\ IsFiniteSet(P \cup Q)
      /\ Cardinality(P \cup Q) = Cardinality(P) + Cardinality(Q) - Cardinality(P \cap Q)
  BY <1>2, <1>3, FS_Union
<1>5. Cardinality(P) \in Nat /\ Cardinality({}) = 0
  BY <1>3, FS_CardinalityType, FS_EmptySet
<1> QED
  <2>1. Cardinality(P \cap Q) = 0
    BY <1>1, <1>5
  <2>2. Cardinality(P \cup Q) = Cardinality(P) + size[x]
    BY <1>2, <1>4, <1>5, <2>1
  <2> QED
    BY <1>1, <1>3, <1>4, <1>5, <2>2 DEF P

\* Only the sizes of the elements count.
LEMMA PairsSame ==
  ASSUME NEW D, NEW size, NEW other, \A x \in D : size[x] = other[x]
  PROVE  Pairs(D, size) = Pairs(D, other)
BY DEF Pairs

-----------------------------------------------------------------------------
(* Residents and reservations. *)

\* The bytes of the residents obj.
Sizes(obj) == [o \in DOMAIN obj |-> Bytes[obj[o].generation]]

\* One more resident.
LEMMA ResidentAdded ==
  ASSUME TypeOK, CountsFinite, NEW o, o \notin DOMAIN object, NEW r \in [generation : Generation, slot : Nat],
         object' = [x \in DOMAIN object \cup {o} |-> IF x = o THEN r ELSE object[x]]
  PROVE  /\ IsFiniteSet(DOMAIN object') /\ IsFiniteSet(ResidentBytes')
         /\ Cardinality(DOMAIN object) \in Nat /\ Cardinality(ResidentBytes) \in Nat
         /\ Cardinality(DOMAIN object') = Cardinality(DOMAIN object) + 1
         /\ Cardinality(ResidentBytes') = Cardinality(ResidentBytes) + Bytes[r.generation]
<1> DEFINE D == DOMAIN object
           new == Sizes(object')
<1>1. DOMAIN object' = D \cup {o} /\ new[o] = Bytes[r.generation] /\ new[o] \in Nat
  BY AdapterAssumption DEF Sizes
<1>2. ResidentBytes' = Pairs(D \cup {o}, new)
  BY DEF ResidentBytes, Pairs, Sizes
<1>3. ResidentBytes = Pairs(D, new)
  <2>1. \A x \in D : new[x] = Bytes[object[x].generation]
    BY DEF Sizes
  <2> HIDE DEF new
  <2> QED
    BY <2>1 DEF ResidentBytes, Pairs
<1> HIDE DEF new
<1>4. IsFiniteSet(Pairs(D, new)) /\ IsFiniteSet(D)
  BY <1>3 DEF CountsFinite
<1>5. /\ IsFiniteSet(D \cup {o}) /\ Cardinality(D \cup {o}) = Cardinality(D) + 1
      /\ Cardinality(D) \in Nat
  BY <1>4, FS_AddElement, FS_CardinalityType
<1>6. /\ IsFiniteSet(Pairs(D \cup {o}, new)) /\ Cardinality(Pairs(D, new)) \in Nat
      /\ Cardinality(Pairs(D \cup {o}, new)) = Cardinality(Pairs(D, new)) + new[o]
  BY <1>1, <1>4, PairsSplit
<1> QED
  BY <1>1, <1>2, <1>3, <1>5, <1>6

\* One resident less.
LEMMA ResidentDropped ==
  ASSUME TypeOK, CountsFinite, NEW o \in DOMAIN object,
         object' = [x \in DOMAIN object \ {o} |-> object[x]]
  PROVE  /\ IsFiniteSet(DOMAIN object') /\ IsFiniteSet(ResidentBytes')
         /\ Cardinality(DOMAIN object') \in Nat /\ Cardinality(ResidentBytes') \in Nat
         /\ Bytes[object[o].generation] \in Nat
         /\ Cardinality(DOMAIN object) = Cardinality(DOMAIN object') + 1
         /\ Cardinality(ResidentBytes) = Cardinality(ResidentBytes') + Bytes[object[o].generation]
<1> DEFINE D == DOMAIN object \ {o}
           old == Sizes(object)
<1>1. /\ DOMAIN object' = D /\ DOMAIN object = D \cup {o} /\ o \notin D
      /\ old[o] = Bytes[object[o].generation] /\ old[o] \in Nat
  <2>1. DOMAIN object' = D /\ DOMAIN object = D \cup {o} /\ o \notin D
    OBVIOUS
  <2>2. object[o].generation \in Generation
    BY DEF TypeOK
  <2> QED
    BY <2>1, <2>2, AdapterAssumption DEF Sizes
<1>2. ResidentBytes = Pairs(D \cup {o}, old)
  <2>1. ResidentBytes = Pairs(DOMAIN object, old)
    BY DEF ResidentBytes, Pairs, Sizes
  <2> QED
    BY <1>1, <2>1
<1>3. ResidentBytes' = Pairs(D, old)
  <2>1. \A x \in D : old[x] = Bytes[object'[x].generation]
    BY DEF Sizes
  <2> HIDE DEF old
  <2> QED
    BY <1>1, <2>1 DEF ResidentBytes, Pairs
<1> HIDE DEF old, D
<1>4. IsFiniteSet(Pairs(D \cup {o}, old)) /\ IsFiniteSet(D \cup {o})
  BY <1>1, <1>2 DEF CountsFinite
<1>5. /\ IsFiniteSet(D) /\ Cardinality(D \cup {o}) = Cardinality(D) + 1
      /\ Cardinality(D) \in Nat
  <2>1. IsFiniteSet(D)
    BY <1>4, FS_Subset
  <2> QED
    BY <1>1, <2>1, FS_AddElement, FS_CardinalityType
<1>6. /\ IsFiniteSet(Pairs(D, old)) /\ Cardinality(Pairs(D, old)) \in Nat
      /\ Cardinality(Pairs(D \cup {o}, old)) = Cardinality(Pairs(D, old)) + old[o]
  BY <1>1, <1>4, PairsSplit
<1> QED
  BY <1>1, <1>2, <1>3, <1>5, <1>6

\* The loads with a reservation, and its bytes, when loads are at p with calls c.
Reserving(p) == {u \in Loader : p[u] = "load"}
ReservingBytes(p, c) == UNION {{u} \X (1 .. Bytes[c[u].generation]) : u \in Reserving(p)}

\* At most one load has a reservation, that of t.
LEMMA ReservedBy ==
  ASSUME NEW t \in Loader, NEW p, NEW c, \A u \in Loader \ {t} : p[u] # "load",
         p[t] = "load" => c[t] \in Calls
  PROVE  /\ IsFiniteSet(Reserving(p)) /\ IsFiniteSet(ReservingBytes(p, c))
         /\ p[t] = "load" => /\ Cardinality(Reserving(p)) = 1
                             /\ Cardinality(ReservingBytes(p, c)) = Bytes[c[t].generation]
         /\ p[t] # "load" => /\ Cardinality(Reserving(p)) = 0
                             /\ Cardinality(ReservingBytes(p, c)) = 0
<1> DEFINE R == Reserving(p)
           B == ReservingBytes(p, c)
<1> USE DEF Reserving, ReservingBytes
<1>1. CASE p[t] = "load"
  <2>0. R = {t}
    BY <1>1
  <2>1. B = {t} \X (1 .. Bytes[c[t].generation])
    BY <2>0
  <2>2. Bytes[c[t].generation] \in Nat
    BY <1>1, AdapterAssumption DEF Calls
  <2>3. IsFiniteSet({t}) /\ Cardinality({t}) = 1
    BY FS_Singleton
  <2>4. LET Q == {t} \X (1 .. Bytes[c[t].generation])
        IN  IsFiniteSet(Q) /\ Cardinality(Q) = Bytes[c[t].generation]
    BY <2>2, PairsOne
  <2> HIDE DEF R, B, Reserving, ReservingBytes
  <2>5. IsFiniteSet(R) /\ IsFiniteSet(B) /\ Cardinality(R) = 1 /\ Cardinality(B) = Bytes[c[t].generation]
    BY <2>0, <2>1, <2>3, <2>4
  <2> QED
    BY <1>1, <2>5 DEF R, B
<1>2. CASE p[t] # "load"
  <2>1. R = {} /\ B = {}
    BY <1>2
  <2> QED
    BY <1>2, <2>1, FS_EmptySet
<1> QED
  BY <1>1, <1>2

-----------------------------------------------------------------------------
(* Loads. *)

\* While t loads nobody else does.
LEMMA OthersIdle ==
  ASSUME AdapterInv, NEW t \in Loader, pc[t] # "idle"
  PROVE  /\ permit = t /\ call[t] \in Calls
         /\ \A u \in Loader \ {t} : pc[u] = "idle" /\ held[u] = None /\ mutation # u
BY AdapterAssumption DEF AdapterInv, TypeOK, LoadsExclude

\* What a step that leaves the registry alone leaves alone.
LEMMA RegistrySame ==
  ASSUME UNCHANGED <<registry, dropping>>
  PROVE  /\ Live' = Live /\ Registered' = Registered /\ ResidentBytes' = ResidentBytes
         /\ \A a : Current(a)' = Current(a) /\ AliasFits(a)' = AliasFits(a)
         /\ GenerationsAgree' = GenerationsAgree
<1>1. Live' = Live /\ Registered' = Registered /\ \A a : Current(a)' = Current(a)
  BY DEF registry, Live, Registered, Current
<1>2. ResidentBytes' = ResidentBytes
  BY DEF registry, ResidentBytes
<1>3. \A a : AliasFits(a)' = AliasFits(a)
  BY <1>1 DEF AliasFits
<1>4. GenerationsAgree' = GenerationsAgree
  BY <1>1 DEF registry, GenerationsAgree
<1> QED
  BY <1>1, <1>2, <1>3, <1>4

\* A step of a load that neither reserves nor registers.
LEMMA ControlStep ==
  ASSUME AdapterInv, NEW t \in Loader, NEW place, pc[t] # "load", place # "load",
         pc' = [pc EXCEPT ![t] = place], \A u \in Loader \ {t} : call'[u] = call[u],
         UNCHANGED <<registry, budget, held, lease, dropping>>,
         TypeOK', LoadsExclude', LoadsInformed'
  PROVE  AdapterInv'
<1>1. /\ Live' = Live /\ Registered' = Registered /\ ResidentBytes' = ResidentBytes
      /\ GenerationsAgree'
  BY RegistrySame DEF AdapterInv
<1>2. SlotsAgree'
  BY <1>1 DEF AdapterInv, SlotsAgree, registry
<1>3. Reserved' = Reserved
  BY DEF AdapterInv, TypeOK, Reserved
<1>4. ReservedBytes' = ReservedBytes
  <2>1. t \notin Reserved
    BY DEF Reserved
  <2>2. \A u \in Reserved : call'[u] = call[u]
    BY <2>1 DEF Reserved
  <2> QED
    BY <1>3, <2>2 DEF ReservedBytes
<1>5. CountsFinite' /\ BudgetExact' /\ (nextSlot <= MaxAdapters)'
  BY <1>1, <1>3, <1>4 DEF AdapterInv, CountsFinite, BudgetExact, registry, budget
<1> QED
  BY <1>1, <1>2, <1>5 DEF AdapterInv

\* A load begins with the permit.
LEMMA BeginInv ==
  ASSUME AdapterInv, NEW t \in Loader, Begin(t)
  PROVE  AdapterInv'
<1> USE DEF Begin, Goto
<1>1. Live' = Live /\ \A a : Current(a)' = Current(a) /\ AliasFits(a)' = AliasFits(a)
  BY RegistrySame
<1>2. PICK c \in Calls : call' = [call EXCEPT ![t] = c]
  OBVIOUS
<1>3. /\ pc' = [pc EXCEPT ![t] = "validate"] /\ permit' = t /\ permit = None /\ pc[t] = "idle"
      /\ UNCHANGED <<registry, budget, mutation, held, lease, dropping>>
  OBVIOUS
<1> HIDE DEF Begin
<1>4. \A u \in Loader \ {t} : pc[u] = "idle"
  BY <1>3, AdapterAssumption DEF AdapterInv, LoadsExclude
<1>5. TypeOK'
  BY <1>1, <1>2, <1>3 DEF AdapterInv, TypeOK, registry, budget
<1>6. LoadsExclude'
  BY <1>2, <1>3, <1>4 DEF AdapterInv, TypeOK, LoadsExclude
<1>7. LoadsInformed'
  BY <1>3, <1>4 DEF AdapterInv, TypeOK, LoadsInformed
<1> QED
  BY <1>2, <1>3, <1>5, <1>6, <1>7, ControlStep DEF AdapterInv, TypeOK

\* A load that ends before it has reserved or registered anything.
LEMMA ReturnInv ==
  ASSUME AdapterInv, NEW t \in Loader, Return(t), pc[t] \in {"validate", "check", "lock", "resolve"},
         UNCHANGED <<registry, budget, held, lease, dropping>>
  PROVE  AdapterInv'
<1> USE DEF Return, Goto
<1>1. Live' = Live /\ \A a : Current(a)' = Current(a) /\ AliasFits(a)' = AliasFits(a)
  BY RegistrySame
<1>2. permit = t /\ \A u \in Loader \ {t} : pc[u] = "idle" /\ held[u] = None /\ mutation # u
  BY OthersIdle
<1>3. TypeOK'
  BY <1>1 DEF AdapterInv, TypeOK, registry, budget
<1>4. LoadsExclude'
  BY <1>2, AdapterAssumption DEF AdapterInv, TypeOK, LoadsExclude
<1>5. LoadsInformed'
  BY <1>2 DEF AdapterInv, TypeOK, LoadsInformed
<1> QED
  BY <1>3, <1>4, <1>5, ControlStep DEF AdapterInv, TypeOK

\* A load that goes on to place, with the facts that it needs there.
LEMMA GoOnInv ==
  ASSUME AdapterInv, NEW t \in Loader, NEW place \in {"check", "lock", "resolve"},
         pc[t] \in {"validate", "check", "lock"}, Goto(t, place),
         UNCHANGED <<registry, budget, call, permit, held, lease, dropping>>,
         IF place = "resolve" THEN mutation = None /\ mutation' = t ELSE mutation' = mutation,
         AliasFits(call[t].alias),
         place = "resolve" => Current(call[t].alias) \in call[t].policy
  PROVE  AdapterInv'
<1> USE DEF Goto
<1>1. Live' = Live /\ \A a : Current(a)' = Current(a) /\ AliasFits(a)' = AliasFits(a)
  BY RegistrySame
<1>2. permit = t /\ \A u \in Loader \ {t} : pc[u] = "idle" /\ held[u] = None /\ mutation # u
  BY OthersIdle
<1>3. TypeOK'
  BY <1>1 DEF AdapterInv, TypeOK, registry, budget
<1>4. LoadsExclude'
  BY <1>2, AdapterAssumption DEF AdapterInv, TypeOK, LoadsExclude
<1>5. LoadsInformed'
  BY <1>1, <1>2 DEF AdapterInv, TypeOK, LoadsInformed
<1> QED
  BY <1>3, <1>4, <1>5, ControlStep DEF AdapterInv, TypeOK

\* The alias fits, or the load ends.
LEMMA ValidateInv ==
  ASSUME AdapterInv, NEW t \in Loader, Validate(t)
  PROVE  AdapterInv'
BY GoOnInv, ReturnInv DEF Validate

\* The policy allows it and the files are good, or the load ends.
LEMMA CheckInv ==
  ASSUME AdapterInv, NEW t \in Loader, Check(t)
  PROVE  AdapterInv'
<1>1. AliasFits(call[t].alias)
  BY DEF AdapterInv, LoadsInformed, Check
<1> QED
  BY <1>1, GoOnInv, ReturnInv DEF Check

\* The policy still allows it, or the load ends.
LEMMA LockInv ==
  ASSUME AdapterInv, NEW t \in Loader, Lock(t)
  PROVE  AdapterInv'
<1>1. AliasFits(call[t].alias)
  BY DEF AdapterInv, LoadsInformed, Lock
<1> QED
  BY <1>1, GoOnInv, ReturnInv DEF Lock

-----------------------------------------------------------------------------
(* Residents that come. *)

\* What the budget counts while t is not loading weights, and while it is.
LEMMA ReservedCounts ==
  ASSUME AdapterInv, NEW t \in Loader, pc[t] # "idle"
  PROVE  /\ pc[t] = "load" => Cardinality(Reserved) = 1
                              /\ Cardinality(ReservedBytes) = Bytes[call[t].generation]
         /\ pc[t] # "load" => Cardinality(Reserved) = 0 /\ Cardinality(ReservedBytes) = 0
<1>1. \A u \in Loader \ {t} : pc[u] # "load"
  BY OthersIdle
<1>2. pc[t] = "load" => call[t] \in Calls
  BY OthersIdle
<1> QED
  <2>1. Reserved = Reserving(pc) /\ ReservedBytes = ReservingBytes(pc, call)
    BY DEF Reserved, ReservedBytes, Reserving, ReservingBytes
  <2> QED
    BY <1>1, <1>2, <2>1, ReservedBy

\* The same of the next state.
LEMMA ReservedCountsNext ==
  ASSUME NEW t \in Loader, \A u \in Loader \ {t} : pc'[u] = "idle", pc'[t] = "load" => call'[t] \in Calls
  PROVE  /\ IsFiniteSet(Reserved') /\ IsFiniteSet(ReservedBytes')
         /\ pc'[t] = "load" => Cardinality(Reserved') = 1
                               /\ Cardinality(ReservedBytes') = Bytes[call'[t].generation]
         /\ pc'[t] # "load" => Cardinality(Reserved') = 0 /\ Cardinality(ReservedBytes') = 0
<1>1. Reserved' = Reserving(pc') /\ ReservedBytes' = ReservingBytes(pc', call')
  BY DEF Reserved, ReservedBytes, Reserving, ReservingBytes
<1>2. \A u \in Loader \ {t} : pc'[u] # "load"
  OBVIOUS
<1> QED
  BY <1>1, <1>2, ReservedBy

\* While no load registers, every resident is in the table of slots.
LEMMA AllInSlots ==
  ASSUME AdapterInv, \A u \in Loader : held[u] = None, NEW o \in Live
  PROVE  object[o].slot \in DOMAIN slots /\ slots[object[o].slot] = o
<1>1. o # None
  BY AdapterAssumption DEF AdapterInv, TypeOK, Live
<1> QED
  BY <1>1 DEF AdapterInv, SlotsAgree

\* A resident of the generation is used again, or there is none and room for it
\* is reserved, or there is no room.
LEMMA ResolveInv ==
  ASSUME AdapterInv, NEW t \in Loader, Resolve(t)
  PROVE  AdapterInv'
<1> DEFINE g == call[t].generation
<1>1. /\ permit = t /\ call[t] \in Calls /\ pc[t] = "resolve"
      /\ \A u \in Loader \ {t} : pc[u] = "idle" /\ held[u] = None /\ mutation # u
  BY OthersIdle DEF Resolve
<1>2. mutation = t /\ held[t] = None /\ g \in Generation
  BY <1>1 DEF AdapterInv, LoadsExclude, Calls
<1>3. AliasFits(call[t].alias) /\ Current(call[t].alias) \in call[t].policy
  BY <1>1 DEF AdapterInv, LoadsInformed
<1>4. UNCHANGED <<registry, lease, dropping>>
  BY DEF Resolve
<1>5. /\ Live' = Live /\ Registered' = Registered /\ ResidentBytes' = ResidentBytes
      /\ \A a : Current(a)' = Current(a) /\ AliasFits(a)' = AliasFits(a)
      /\ GenerationsAgree'
  BY <1>4, RegistrySame DEF AdapterInv
<1>6. ASSUME NEW o \in Live \cup {None}, held' = [held EXCEPT ![t] = o] \/ held' = held
      PROVE  SlotsAgree'
  <2>1. \A p \in Live : object[p].slot \in DOMAIN slots /\ slots[object[p].slot] = p
    BY <1>1, <1>2, AllInSlots
  <2> QED
    BY <1>4, <1>5, <2>1 DEF AdapterInv, SlotsAgree, registry
<1>7. CASE /\ \E o \in Resolved(g) : held' = [held EXCEPT ![t] = o]
           /\ Goto(t, "register") /\ UNCHANGED <<call, mutation, permit, budget>>
  <2>1. PICK o \in Resolved(g) : held' = [held EXCEPT ![t] = o]
    BY <1>7
  <2>2. o \in Live /\ o # None
    BY <1>2, AdapterAssumption DEF Resolved, AdapterInv, TypeOK, Live
  <2>3. pc' = [pc EXCEPT ![t] = "register"] /\ UNCHANGED <<call, mutation, permit, budget>>
    BY <1>7 DEF Goto
  <2>4. TypeOK'
    BY <1>4, <1>5, <2>1, <2>2, <2>3 DEF AdapterInv, TypeOK, registry, budget
  <2>5. LoadsExclude'
    BY <1>1, <1>2, <2>1, <2>2, <2>3 DEF AdapterInv, TypeOK, LoadsExclude
  <2>6. LoadsInformed'
    BY <1>1, <1>3, <1>5, <2>3 DEF AdapterInv, TypeOK, LoadsInformed
  <2>7. Reserved' = Reserved
    BY <1>1, <2>3 DEF AdapterInv, TypeOK, Reserved
  <2>8. ReservedBytes' = ReservedBytes
    BY <2>3, <2>7 DEF ReservedBytes
  <2>9. CountsFinite' /\ BudgetExact' /\ (nextSlot <= MaxAdapters)'
    BY <1>4, <1>5, <2>3, <2>7, <2>8 DEF AdapterInv, CountsFinite, BudgetExact, registry, budget
  <2> QED
    BY <1>5, <1>6, <2>1, <2>2, <2>4, <2>5, <2>6, <2>9 DEF AdapterInv
<1>8. CASE /\ Resolved(g) = {} /\ UNCHANGED held
           /\ adapters + 1 <= MaxAdapters /\ bytes + Bytes[g] <= MaxBytes
           /\ adapters' = adapters + 1 /\ bytes' = bytes + Bytes[g]
           /\ Goto(t, "load") /\ UNCHANGED <<call, mutation, permit>>
  <2>1. /\ pc' = [pc EXCEPT ![t] = "load"] /\ UNCHANGED <<call, mutation, permit, held>>
        /\ pc'[t] = "load" /\ \A u \in Loader \ {t} : pc'[u] = "idle"
    BY <1>1, <1>8 DEF Goto, AdapterInv, TypeOK
  <2>2. Bytes[g] \in Nat
    BY <1>2, AdapterAssumption
  <2>3. TypeOK'
    BY <1>4, <1>5, <1>8, <2>1, <2>2 DEF AdapterInv, TypeOK, registry
  <2>4. LoadsExclude'
    BY <1>1, <1>2, <2>1 DEF AdapterInv, TypeOK, LoadsExclude
  <2>5. \A o \in Live : object[o].generation # g
    <3>1. \A p \in Live : object[p].slot \in DOMAIN slots /\ slots[object[p].slot] = p
      BY <1>1, <1>2, AllInSlots
    <3> QED
      BY <1>8, <3>1 DEF Resolved
  <2>6. LoadsInformed'
    BY <1>1, <1>3, <1>4, <1>5, <2>1, <2>5 DEF LoadsInformed, registry
  <2>7. Cardinality(Reserved) = 0 /\ Cardinality(ReservedBytes) = 0
    BY <1>1, ReservedCounts
  <2>8. /\ IsFiniteSet(Reserved') /\ IsFiniteSet(ReservedBytes')
        /\ Cardinality(Reserved') = 1 /\ Cardinality(ReservedBytes') = Bytes[g]
    BY <1>1, <2>1, ReservedCountsNext
  <2>9. CountsFinite' /\ (nextSlot <= MaxAdapters)'
    BY <1>4, <1>5, <2>8 DEF AdapterInv, CountsFinite, registry
  <2>10. Cardinality(DOMAIN object) \in Nat /\ Cardinality(ResidentBytes) \in Nat
    BY FS_CardinalityType DEF AdapterInv, CountsFinite
  <2>11. BudgetExact'
    BY <1>4, <1>5, <1>8, <2>2, <2>7, <2>8, <2>10 DEF AdapterInv, BudgetExact, registry
  <2> QED
    BY <1>5, <1>6, <2>1, <2>3, <2>4, <2>6, <2>9, <2>11 DEF AdapterInv
<1>9. CASE Return(t) /\ UNCHANGED budget /\ UNCHANGED held
  BY <1>1, <1>4, <1>9, ReturnInv
<1> QED
  BY <1>7, <1>8, <1>9 DEF Resolve

\* The reservation of a load that fails is given back.
LEMMA LoadFailsInv ==
  ASSUME AdapterInv, NEW t \in Loader, LoadFails(t)
  PROVE  AdapterInv'
<1>1. /\ permit = t /\ call[t] \in Calls /\ pc[t] = "load"
      /\ \A u \in Loader \ {t} : pc[u] = "idle" /\ held[u] = None /\ mutation # u
  BY OthersIdle DEF LoadFails
<1>2. held[t] = None
  BY <1>1 DEF AdapterInv, LoadsExclude
<1>3. /\ UNCHANGED <<registry, held, lease, dropping>>
      /\ pc' = [pc EXCEPT ![t] = "idle"] /\ call' = [call EXCEPT ![t] = None] /\ permit' = None
      /\ mutation' = IF mutation = t THEN None ELSE mutation
      /\ adapters' = adapters - 1 /\ bytes' = bytes - Bytes[call[t].generation]
  BY DEF LoadFails, Return, Goto
<1>4. /\ Live' = Live /\ Registered' = Registered /\ ResidentBytes' = ResidentBytes
      /\ \A a : Current(a)' = Current(a) /\ AliasFits(a)' = AliasFits(a)
      /\ GenerationsAgree'
  BY <1>3, RegistrySame DEF AdapterInv
<1>5. pc'[t] = "idle" /\ \A u \in Loader \ {t} : pc'[u] = "idle"
  BY <1>1, <1>3 DEF AdapterInv, TypeOK
<1>6. LoadsExclude'
  BY <1>1, <1>2, <1>3, <1>5, AdapterAssumption DEF AdapterInv, TypeOK, LoadsExclude
<1>7. LoadsInformed'
  BY <1>5 DEF LoadsInformed
<1>8. SlotsAgree'
  BY <1>3, <1>4 DEF AdapterInv, SlotsAgree, registry
<1>9. Cardinality(Reserved) = 1 /\ Cardinality(ReservedBytes) = Bytes[call[t].generation]
  BY <1>1, ReservedCounts
<1>10. /\ IsFiniteSet(Reserved') /\ IsFiniteSet(ReservedBytes')
       /\ Cardinality(Reserved') = 0 /\ Cardinality(ReservedBytes') = 0
  BY <1>5, ReservedCountsNext
<1>11. CountsFinite' /\ (nextSlot <= MaxAdapters)'
  BY <1>3, <1>4, <1>10 DEF AdapterInv, CountsFinite, registry
<1>12. /\ Cardinality(DOMAIN object) \in Nat /\ Cardinality(ResidentBytes) \in Nat
       /\ Bytes[call[t].generation] \in Nat
  BY <1>1, FS_CardinalityType, AdapterAssumption DEF AdapterInv, CountsFinite, Calls
<1>13. adapters' \in Nat /\ bytes' \in Nat /\ BudgetExact'
  BY <1>3, <1>4, <1>9, <1>10, <1>12, AdapterAssumption DEF AdapterInv, BudgetExact, registry
<1>14. TypeOK'
  BY <1>3, <1>4, <1>13 DEF AdapterInv, TypeOK, registry
<1> QED
  BY <1>4, <1>6, <1>7, <1>8, <1>11, <1>13, <1>14 DEF AdapterInv

\* When no slot is free there are no more slots than residents.
LEMMA SlotsFew ==
  ASSUME AdapterInv, \A u \in Loader : held[u] = None, \A s \in DOMAIN slots : slots[s] # None
  PROVE  nextSlot <= Cardinality(DOMAIN object)
<1>1. \A o \in Live : object[o].slot \in DOMAIN slots
  BY AllInSlots
<1>2. DOMAIN slots = 0 .. nextSlot - 1
  <2>1. DOMAIN slots \cup {object[o].slot : o \in Live} = 0 .. nextSlot - 1
    BY DEF AdapterInv, SlotsAgree
  <2>2. {object[o].slot : o \in Live} \subseteq DOMAIN slots
    BY <1>1
  <2> QED
    BY <2>1, <2>2
<1>3. slots \in Injection(0 .. nextSlot - 1, DOMAIN object)
  <2>1. slots \in [0 .. nextSlot - 1 -> DOMAIN object]
    BY <1>2 DEF AdapterInv, TypeOK, Live
  <2>2. \A i, j \in 0 .. nextSlot - 1 : slots[i] = slots[j] => i = j
    BY <1>2 DEF AdapterInv, SlotsAgree
  <2> QED
    BY <2>1, <2>2 DEF Injection, IsInjective
<1>4. IsFiniteSet(DOMAIN object) /\ nextSlot \in Nat
  BY DEF AdapterInv, CountsFinite, TypeOK
<1>5. Cardinality(0 .. nextSlot - 1) <= Cardinality(DOMAIN object)
  BY <1>3, <1>4, FS_Injection
<1>6. Cardinality(0 .. nextSlot - 1) = nextSlot
  <2>1. Cardinality(0 .. nextSlot - 1) = IF 0 > nextSlot - 1 THEN 0 ELSE nextSlot - 1 - 0 + 1
    BY <1>4, FS_Interval
  <2> QED
    BY <1>4, <2>1
<1> QED
  BY <1>5, <1>6

\* What is loaded takes over the reservation and a slot that nobody has.
LEMMA InstallInv ==
  ASSUME AdapterInv, NEW t \in Loader, Install(t)
  PROVE  AdapterInv'
<1> DEFINE dead == {i \in DOMAIN slots : slots[i] = None}
           g == call[t].generation
<1>1. /\ permit = t /\ call[t] \in Calls /\ pc[t] = "load"
      /\ \A u \in Loader \ {t} : pc[u] = "idle" /\ held[u] = None /\ mutation # u
  BY OthersIdle DEF Install
<1>2. held[t] = None /\ mutation = t /\ g \in Generation /\ Bytes[g] \in Nat
  BY <1>1, AdapterAssumption DEF AdapterInv, LoadsExclude, Calls
<1>3. /\ AliasFits(call[t].alias) /\ Current(call[t].alias) \in call[t].policy
      /\ \A p \in Live : object[p].generation # g
  BY <1>1 DEF AdapterInv, LoadsInformed
<1>4. \A p \in Live : object[p].slot \in DOMAIN slots /\ slots[object[p].slot] = p /\ p # None
  <2>1. \A u \in Loader : held[u] = None
    BY <1>1, <1>2
  <2>2. \A p \in Live : p # None
    BY AdapterAssumption DEF AdapterInv, TypeOK, Live
  <2> QED
    BY <2>1, <2>2, AllInSlots
<1>5. PICK s \in IF dead # {} THEN dead ELSE {nextSlot}, o \in Object \ DOMAIN object :
        /\ slots' = [i \in DOMAIN slots \ {s} |-> slots[i]]
        /\ nextSlot' = IF dead # {} THEN nextSlot ELSE nextSlot + 1
        /\ object' = [x \in DOMAIN object \cup {o} |->
                        IF x = o THEN [generation |-> g, slot |-> s] ELSE object[x]]
        /\ held' = [held EXCEPT ![t] = o]
  BY DEF Install
<1>6. /\ UNCHANGED <<aliases, generations, budget, call, mutation, permit, lease, dropping>>
      /\ pc' = [pc EXCEPT ![t] = "register"]
  BY DEF Install, Goto
<1>7. pc'[t] = "register" /\ \A u \in Loader \ {t} : pc'[u] = "idle"
  BY <1>1, <1>6 DEF AdapterInv, TypeOK
<1>8. s \in Nat /\ nextSlot' \in Nat /\ nextSlot <= nextSlot'
  BY <1>5 DEF AdapterInv, TypeOK
<1>9. Live' = Live \cup {o} /\ o \notin Live /\ o # None
  BY <1>5, <1>6, AdapterAssumption DEF AdapterInv, TypeOK, Live
<1>10. object'[o] = [generation |-> g, slot |-> s] /\ \A p \in Live : object'[p] = object[p]
  BY <1>5, <1>9 DEF Live
<1>11. s \notin DOMAIN slots \/ slots[s] = None
  BY <1>5 DEF AdapterInv, TypeOK, SlotsAgree
<1>12. \A p \in Live : object[p].slot # s
  BY <1>4, <1>11
<1>13. Registered' = Registered /\ \A a \in Alias : Current(a)' = Current(a)
  <2>1. Registered' = Registered
    BY <1>6 DEF Registered
  <2>2. \A a \in Alias : aliases[a] \in Live \cup {None}
    BY DEF AdapterInv, TypeOK
  <2> QED
    BY <1>6, <1>10, <2>1, <2>2 DEF Current
<1>14. \A a : AliasFits(a)' = AliasFits(a)
  BY <1>13 DEF AliasFits
<1>15. SlotsAgree'
  <2>1. DOMAIN slots' = DOMAIN slots \ {s} /\ \A i \in DOMAIN slots' : slots'[i] = slots[i]
    BY <1>5
  <2>2. \A i \in DOMAIN slots' : slots'[i] # None => object'[slots'[i]].slot = i
    BY <1>10, <2>1 DEF AdapterInv, TypeOK, SlotsAgree
  <2>3. held'[t] = o /\ \A u \in Loader : held[u] = None
    BY <1>1, <1>2, <1>5 DEF AdapterInv, TypeOK
  <2>4. \A p \in Live' :
          IF object'[p].slot \in DOMAIN slots' THEN slots'[object'[p].slot] = p
          ELSE \E u \in Loader : held'[u] = p
    BY <1>4, <1>9, <1>10, <1>12, <2>1, <2>3
  <2>5. {object'[p].slot : p \in Live'} = {object[p].slot : p \in Live} \cup {s}
    BY <1>9, <1>10
  <2>6. DOMAIN slots \cup {object[p].slot : p \in Live} \cup {s} = 0 .. nextSlot' - 1
    <3>1. DOMAIN slots \cup {object[p].slot : p \in Live} = 0 .. nextSlot - 1
      BY DEF AdapterInv, SlotsAgree
    <3>2. nextSlot \in Nat
      BY DEF AdapterInv, TypeOK
    <3>3. CASE dead # {}
      BY <1>5, <3>1, <3>3
    <3>4. CASE dead = {}
      <4>1. s = nextSlot /\ nextSlot' = nextSlot + 1
        BY <1>5, <3>4
      <4>2. 0 .. (nextSlot + 1) - 1 = (0 .. nextSlot - 1) \cup {nextSlot}
        BY <3>2
      <4> QED
        BY <3>1, <4>1, <4>2
    <3> QED
      BY <3>3, <3>4
  <2>7. DOMAIN slots' \cup {object'[p].slot : p \in Live'} = 0 .. nextSlot' - 1
    BY <2>1, <2>5, <2>6
  <2> QED
    BY <2>2, <2>4, <2>7 DEF SlotsAgree
<1>16. GenerationsAgree'
  <2>1. \A p, q \in Live' : p # q => object'[p].generation # object'[q].generation
    BY <1>3, <1>9, <1>10 DEF AdapterInv, GenerationsAgree
  <2>2. \A h \in Generation : generations'[h] # None => object'[generations'[h]].generation = h
    BY <1>6, <1>10 DEF AdapterInv, TypeOK, GenerationsAgree
  <2>3. \A a \in Registered' : generations'[Current(a)'] = aliases'[a]
    BY <1>6, <1>13 DEF AdapterInv, GenerationsAgree, Registered
  <2> QED
    BY <2>1, <2>2, <2>3 DEF GenerationsAgree
<1>17. LoadsExclude'
  BY <1>1, <1>2, <1>5, <1>6, <1>7, <1>9 DEF AdapterInv, TypeOK, LoadsExclude
<1>18. LoadsInformed'
  <2>1. call[t].alias \in Alias
    BY <1>1 DEF Calls
  <2> QED
    BY <1>3, <1>6, <1>7, <1>13, <1>14, <2>1 DEF LoadsInformed
<1>19. TypeOK'
  <2>1. object' \in [DOMAIN object' -> [generation : Generation, slot : Nat]]
    BY <1>2, <1>5, <1>8 DEF AdapterInv, TypeOK
  <2>2. DOMAIN object' \subseteq Object /\ dropping' \subseteq DOMAIN object'
    BY <1>5, <1>6 DEF AdapterInv, TypeOK
  <2>3. DOMAIN slots' \subseteq Nat /\ slots' \in [DOMAIN slots' -> Live' \cup {None}]
    BY <1>5, <1>9 DEF AdapterInv, TypeOK
  <2>4. /\ aliases' \in [Alias -> Live' \cup {None}]
        /\ generations' \in [Generation -> Live' \cup {None}]
        /\ held' \in [Loader -> Live' \cup {None}] /\ lease' \in [Request -> Live' \cup {None}]
    BY <1>5, <1>6, <1>9 DEF AdapterInv, TypeOK
  <2>5. /\ adapters' \in Nat /\ bytes' \in Nat
        /\ mutation' \in Loader \cup {None} /\ permit' \in Loader \cup {None}
        /\ pc' \in [Loader -> {"idle", "validate", "check", "lock", "resolve", "load", "register"}]
        /\ call' \in [Loader -> Calls \cup {None}]
    BY <1>6 DEF AdapterInv, TypeOK, budget
  <2> QED
    BY <1>8, <2>1, <2>2, <2>3, <2>4, <2>5 DEF TypeOK
<1>20. Cardinality(Reserved) = 1 /\ Cardinality(ReservedBytes) = Bytes[g]
  BY <1>1, ReservedCounts
<1>21. /\ IsFiniteSet(Reserved') /\ IsFiniteSet(ReservedBytes')
       /\ Cardinality(Reserved') = 0 /\ Cardinality(ReservedBytes') = 0
  BY <1>7, ReservedCountsNext
<1>22. /\ IsFiniteSet(DOMAIN object') /\ IsFiniteSet(ResidentBytes')
       /\ Cardinality(DOMAIN object) \in Nat /\ Cardinality(ResidentBytes) \in Nat
       /\ Cardinality(DOMAIN object') = Cardinality(DOMAIN object) + 1
       /\ Cardinality(ResidentBytes') = Cardinality(ResidentBytes) + Bytes[g]
  <2>1. /\ o \notin DOMAIN object
        /\ [generation |-> g, slot |-> s] \in [generation : Generation, slot : Nat]
        /\ [generation |-> g, slot |-> s].generation = g
    BY <1>2, <1>5, <1>8
  <2> QED
    BY <1>5, <2>1, ResidentAdded DEF AdapterInv
<1>23. CountsFinite'
  BY <1>13, <1>21, <1>22 DEF AdapterInv, CountsFinite
<1>24. BudgetExact'
  BY <1>2, <1>6, <1>20, <1>21, <1>22 DEF AdapterInv, BudgetExact, budget
<1>25. nextSlot' <= MaxAdapters
  <2>1. CASE dead # {}
    BY <1>5, <2>1 DEF AdapterInv
  <2>2. CASE dead = {}
    <3>1. nextSlot <= Cardinality(DOMAIN object)
      BY <1>1, <1>2, <2>2, SlotsFew
    <3>2. /\ nextSlot' = nextSlot + 1 /\ nextSlot \in Nat
          /\ adapters = Cardinality(DOMAIN object) + 1 /\ adapters <= MaxAdapters
      BY <1>5, <1>20, <2>2 DEF AdapterInv, TypeOK, BudgetExact
    <3> QED
      BY <1>22, <3>1, <3>2, AdapterAssumption
  <2> QED
    BY <2>1, <2>2
<1> QED
  BY <1>15, <1>16, <1>17, <1>18, <1>19, <1>23, <1>24, <1>25 DEF AdapterInv

-----------------------------------------------------------------------------
(* Residents that go. *)

\* Under the mutation lock either o keeps a reference and nothing happens, or it
\* loses its last one and goes with its share of the budget: the objects of D.
LEMMA DropInLockEffect ==
  ASSUME AdapterInv, NEW o \in Live \cup {None}, NEW table,
         table \in [DOMAIN table -> Live \cup {None}],
         DropInLock(o, table), dropping' = dropping, Reserved = {}, Reserved' = {}
  PROVE  /\ \E D \in SUBSET Live :
              /\ \A x \in D : ~Referred(x, aliases', generations', held', lease)
              /\ Live' = Live \ D /\ DOMAIN object' = DOMAIN object \ D
              /\ \A x \in DOMAIN object' : object'[x] = object[x]
              /\ DOMAIN slots' = DOMAIN table
              /\ \A i \in DOMAIN table : slots'[i] = IF table[i] \in D THEN None ELSE table[i]
         /\ object' \in [DOMAIN object' -> [generation : Generation, slot : Nat]]
         /\ slots' \in [DOMAIN slots' -> Live' \cup {None}]
         /\ DOMAIN object' \subseteq Object /\ dropping' \subseteq DOMAIN object'
         /\ IsFiniteSet(DOMAIN object') /\ IsFiniteSet(ResidentBytes')
         /\ adapters' \in Nat /\ bytes' \in Nat /\ BudgetExact'
<1>1. /\ Cardinality(Reserved) = 0 /\ Cardinality(Reserved') = 0
      /\ Cardinality(ReservedBytes) = 0 /\ Cardinality(ReservedBytes') = 0
  <2>1. ReservedBytes = {} /\ ReservedBytes' = {}
    BY DEF ReservedBytes
  <2> QED
    BY <2>1, FS_EmptySet
<1>2. /\ DOMAIN object \subseteq Object /\ dropping \subseteq DOMAIN object
      /\ object \in [DOMAIN object -> [generation : Generation, slot : Nat]]
      /\ Cardinality(DOMAIN object) \in Nat /\ Cardinality(ResidentBytes) \in Nat
      /\ adapters = Cardinality(DOMAIN object) /\ bytes = Cardinality(ResidentBytes)
      /\ adapters <= MaxAdapters /\ bytes <= MaxBytes
  BY <1>1, FS_CardinalityType DEF AdapterInv, TypeOK, CountsFinite, BudgetExact
<1>3. CASE o # None /\ ~Referred(o, aliases', generations', held', lease)
  <2>1. /\ object' = [x \in DOMAIN object \ {o} |-> object[x]]
        /\ slots' = Without(table, {o})
        /\ adapters' = adapters - 1 /\ bytes' = bytes - Bytes[object[o].generation]
    BY <1>3 DEF DropInLock
  <2>2. o \in Live /\ o \in DOMAIN object /\ Live' = Live \ {o}
    BY <1>3, <2>1 DEF Live
  <2>3. /\ DOMAIN object' = DOMAIN object \ {o}
        /\ \A x \in DOMAIN object' : object'[x] = object[x]
        /\ DOMAIN slots' = DOMAIN table
        /\ \A i \in DOMAIN table : slots'[i] = IF table[i] \in {o} THEN None ELSE table[i]
    BY <2>1 DEF Without
  <2>4. /\ IsFiniteSet(DOMAIN object') /\ IsFiniteSet(ResidentBytes')
        /\ Cardinality(DOMAIN object') \in Nat /\ Cardinality(ResidentBytes') \in Nat
        /\ Bytes[object[o].generation] \in Nat
        /\ Cardinality(DOMAIN object) = Cardinality(DOMAIN object') + 1
        /\ Cardinality(ResidentBytes) = Cardinality(ResidentBytes') + Bytes[object[o].generation]
    BY <2>1, <2>2, ResidentDropped DEF AdapterInv
  <2>5. adapters' \in Nat /\ bytes' \in Nat /\ BudgetExact'
    BY <1>1, <1>2, <2>1, <2>4, AdapterAssumption DEF BudgetExact
  <2>6. slots' \in [DOMAIN slots' -> Live' \cup {None}]
    BY <2>1, <2>2 DEF Without
  <2>7. /\ object' \in [DOMAIN object' -> [generation : Generation, slot : Nat]]
        /\ DOMAIN object' \subseteq Object /\ dropping' \subseteq DOMAIN object'
    BY <1>2, <2>1, <2>2 DEF Live
  <2>8. {o} \in SUBSET Live /\ \A x \in {o} : ~Referred(x, aliases', generations', held', lease)
    BY <1>3, <2>2
  <2> QED
    BY <2>2, <2>3, <2>4, <2>5, <2>6, <2>7, <2>8
<1>4. CASE ~(o # None /\ ~Referred(o, aliases', generations', held', lease))
  <2>1. UNCHANGED <<object, adapters, bytes>> /\ slots' = table
    BY <1>4 DEF DropInLock
  <2>2. Live' = Live /\ ResidentBytes' = ResidentBytes
    BY <2>1 DEF Live, ResidentBytes
  <2>3. /\ IsFiniteSet(DOMAIN object') /\ IsFiniteSet(ResidentBytes') /\ BudgetExact'
        /\ adapters' \in Nat /\ bytes' \in Nat
    BY <1>1, <1>2, <2>1, <2>2 DEF AdapterInv, CountsFinite, BudgetExact
  <2>4. \E D \in SUBSET Live :
          /\ \A x \in D : ~Referred(x, aliases', generations', held', lease)
          /\ Live' = Live \ D /\ DOMAIN object' = DOMAIN object \ D
          /\ \A x \in DOMAIN object' : object'[x] = object[x]
          /\ DOMAIN slots' = DOMAIN table
          /\ \A i \in DOMAIN table : slots'[i] = IF table[i] \in D THEN None ELSE table[i]
    <3> WITNESS {} \in SUBSET Live
    <3> QED
      BY <2>1, <2>2
  <2>5. /\ object' \in [DOMAIN object' -> [generation : Generation, slot : Nat]]
        /\ slots' \in [DOMAIN slots' -> Live' \cup {None}]
        /\ DOMAIN object' \subseteq Object /\ dropping' \subseteq DOMAIN object'
    BY <1>2, <2>1, <2>2
  <2> QED
    BY <2>3, <2>4, <2>5
<1> QED
  BY <1>3, <1>4

\* A load that registers finds its alias free or bound, and no other resident
\* of its generation.
LEMMA RegisterFits ==
  ASSUME AdapterInv, NEW t \in Loader, Register(t)
  PROVE  LET o == held[t]
             g == object[o].generation
             a == call[t].alias
         IN  /\ o \in Live /\ o # None /\ a \in Alias /\ g \in Generation
             /\ AliasFits(a) /\ generations[g] \in {None, o}
<1>1. call[t] \in Calls /\ pc[t] = "register"
  BY OthersIdle DEF Register
<1>2. held[t] \in Live /\ held[t] # None
  BY <1>1 DEF AdapterInv, TypeOK, LoadsExclude
<1>3. call[t].alias \in Alias /\ object[held[t]].generation \in Generation
  BY <1>1, <1>2 DEF Calls, AdapterInv, TypeOK, Live
<1>4. AliasFits(call[t].alias)
  BY <1>1 DEF AdapterInv, LoadsInformed
<1>5. generations[object[held[t]].generation] \in {None, held[t]}
  BY <1>2, <1>3 DEF AdapterInv, TypeOK, GenerationsAgree
<1> QED
  BY <1>2, <1>3, <1>4, <1>5

\* The alias is bound, and the generation that it had before is retired when no
\* other alias names it.
LEMMA RegisterInv ==
  ASSUME AdapterInv, NEW t \in Loader, Register(t)
  PROVE  AdapterInv'
<1> DEFINE o == held[t]
           a == call[t].alias
           g == object[o].generation
           k == object[o].slot
           old == aliases[a]
           h == object[old].generation
           table == [s \in DOMAIN slots \cup {k} |-> IF s = k THEN o ELSE slots[s]]
<1>1. /\ permit = t /\ call[t] \in Calls /\ pc[t] = "register"
      /\ \A u \in Loader \ {t} : pc[u] = "idle" /\ held[u] = None /\ mutation # u
  BY OthersIdle DEF Register
<1>2. /\ o \in Live /\ o # None /\ a \in Alias /\ g \in Generation
      /\ AliasFits(a) /\ generations[g] \in {None, o}
  BY RegisterFits
<1>3. old \in Live \cup {None} /\ k \in Nat /\ mutation = t
  BY <1>1, <1>2 DEF AdapterInv, TypeOK, Live, LoadsExclude
<1>4. /\ held' = [held EXCEPT ![t] = None]
      /\ aliases' = [aliases EXCEPT ![a] = o]
      /\ generations' = IF old = None \/ Kept(h, aliases') THEN [generations EXCEPT ![g] = o]
                        ELSE [[generations EXCEPT ![g] = o] EXCEPT ![h] = None]
      /\ DropInLock(old, table)
      /\ pc' = [pc EXCEPT ![t] = "idle"] /\ call' = [call EXCEPT ![t] = None] /\ permit' = None
      /\ mutation' = None
      /\ UNCHANGED <<nextSlot, lease, dropping>>
  BY <1>2, <1>3 DEF Register, Return, Goto
<1>5. pc'[t] = "idle" /\ \A u \in Loader \ {t} : pc'[u] = "idle"
  BY <1>1, <1>4 DEF AdapterInv, TypeOK
<1>6. Reserved = {} /\ Reserved' = {}
  BY <1>1, <1>5 DEF Reserved
<1>7. table \in [DOMAIN table -> Live \cup {None}] /\ DOMAIN table = DOMAIN slots \cup {k}
  BY <1>2 DEF AdapterInv, TypeOK
<1> HIDE DEF table
<1>8. /\ \E D \in SUBSET Live :
              /\ \A x \in D : ~Referred(x, aliases', generations', held', lease)
              /\ Live' = Live \ D /\ DOMAIN object' = DOMAIN object \ D
              /\ \A x \in DOMAIN object' : object'[x] = object[x]
              /\ DOMAIN slots' = DOMAIN table
              /\ \A i \in DOMAIN table : slots'[i] = IF table[i] \in D THEN None ELSE table[i]
      /\ object' \in [DOMAIN object' -> [generation : Generation, slot : Nat]]
      /\ slots' \in [DOMAIN slots' -> Live' \cup {None}]
      /\ DOMAIN object' \subseteq Object /\ dropping' \subseteq DOMAIN object'
      /\ IsFiniteSet(DOMAIN object') /\ IsFiniteSet(ResidentBytes')
      /\ adapters' \in Nat /\ bytes' \in Nat /\ BudgetExact'
  BY <1>3, <1>4, <1>6, <1>7, DropInLockEffect
<1>9. PICK D \in SUBSET Live :
        /\ \A x \in D : ~Referred(x, aliases', generations', held', lease)
        /\ Live' = Live \ D /\ DOMAIN object' = DOMAIN object \ D
        /\ \A x \in DOMAIN object' : object'[x] = object[x]
        /\ DOMAIN slots' = DOMAIN table
        /\ \A i \in DOMAIN table : slots'[i] = IF table[i] \in D THEN None ELSE table[i]
  BY <1>8
<1>10. aliases'[a] = o /\ \A b \in Alias \ {a} : aliases'[b] = aliases[b]
  BY <1>2, <1>4 DEF AdapterInv, TypeOK
<1>11. o \notin D /\ o \in Live' /\ \A p \in Live' : p \in Live /\ object'[p] = object[p]
  BY <1>2, <1>9, <1>10 DEF Referred, Live
<1>12. /\ generations'[g] = o
       /\ \A x \in Generation \ {g} :
            \/ generations'[x] = generations[x]
            \/ generations'[x] = None /\ ~Kept(x, aliases')
  <2>1. Kept(g, aliases')
    BY <1>2, <1>10 DEF Kept
  <2>2. generations \in [Generation -> Live \cup {None}]
    BY DEF AdapterInv, TypeOK
  <2>3. CASE old = None \/ Kept(h, aliases')
    BY <1>2, <1>4, <2>2, <2>3
  <2>4. CASE ~(old = None \/ Kept(h, aliases'))
    <3>1. h # g
      BY <2>1, <2>4
    <3> QED
      BY <1>2, <1>4, <2>2, <2>4, <3>1
  <2> QED
    BY <2>3, <2>4
<1>13. /\ aliases' \in [Alias -> Live' \cup {None}]
       /\ generations' \in [Generation -> Live' \cup {None}]
       /\ held' \in [Loader -> Live' \cup {None}] /\ lease' \in [Request -> Live' \cup {None}]
  <2>1. /\ aliases' \in [Alias -> Live \cup {None}]
        /\ generations' \in [Generation -> Live \cup {None}]
        /\ held' \in [Loader -> Live \cup {None}] /\ lease' \in [Request -> Live \cup {None}]
    BY <1>2, <1>4 DEF AdapterInv, TypeOK
  <2>2. \A x \in D : ~Referred(x, aliases', generations', held', lease')
    BY <1>4, <1>9
  <2> QED
    BY <1>9, <2>1, <2>2 DEF Referred
<1>14. TypeOK'
  <2>1. DOMAIN slots' \subseteq Nat
    BY <1>3, <1>7, <1>9 DEF AdapterInv, TypeOK
  <2>2. /\ nextSlot' \in Nat /\ mutation' \in Loader \cup {None} /\ permit' \in Loader \cup {None}
        /\ pc' \in [Loader -> {"idle", "validate", "check", "lock", "resolve", "load", "register"}]
        /\ call' \in [Loader -> Calls \cup {None}]
    BY <1>4 DEF AdapterInv, TypeOK
  <2> QED
    BY <1>8, <1>13, <2>1, <2>2 DEF TypeOK
<1>15. LoadsExclude' /\ LoadsInformed'
  <2>1. \A u \in Loader : held'[u] = None
    BY <1>1, <1>4 DEF AdapterInv, TypeOK
  <2>2. LoadsExclude'
    BY <1>4, <1>5, <2>1, AdapterAssumption DEF LoadsExclude
  <2>3. LoadsInformed'
    BY <1>5 DEF LoadsInformed
  <2> QED
    BY <2>2, <2>3
<1>16. SlotsAgree'
  <2>1. \A i \in DOMAIN slots' :
          slots'[i] = IF i = k THEN o ELSE IF slots[i] \in D THEN None ELSE slots[i]
    BY <1>9, <1>11 DEF table
  <2>2. DOMAIN slots' = DOMAIN slots \cup {k}
    BY <1>7, <1>9
  <2>3. \A i \in DOMAIN slots' : slots'[i] # None => object'[slots'[i]].slot = i
    <3>1. \A i \in DOMAIN slots : slots[i] \in Live \cup {None}
      BY DEF AdapterInv, TypeOK
    <3> QED
      BY <1>8, <1>9, <1>11, <2>1, <2>2, <3>1 DEF AdapterInv, SlotsAgree
  <2>4. \A p \in Live \ {o} : object[p].slot \in DOMAIN slots /\ slots[object[p].slot] = p
    <3>1. \A p \in Live \ {o} : \A u \in Loader : held[u] # p
      BY <1>1, <1>2, AdapterAssumption DEF AdapterInv, TypeOK, Live
    <3> QED
      BY <3>1 DEF AdapterInv, SlotsAgree
  <2>5. k \in DOMAIN slots => slots[k] = o
    BY <1>2 DEF AdapterInv, SlotsAgree
  <2>6. \A p \in Live' : object'[p].slot \in DOMAIN slots' /\ slots'[object'[p].slot] = p
    BY <1>2, <1>9, <1>11, <2>1, <2>2, <2>4, <2>5
  <2>7. DOMAIN slots' \cup {object'[p].slot : p \in Live'}
          = DOMAIN slots \cup {object[p].slot : p \in Live}
    <3>1. {object'[p].slot : p \in Live'} \subseteq DOMAIN slots'
      BY <2>6
    <3>2. {object[p].slot : p \in Live} \subseteq DOMAIN slots \cup {k}
      BY <2>4
    <3>3. k \in {object[p].slot : p \in Live}
      BY <1>2
    <3> QED
      BY <2>2, <3>1, <3>2, <3>3
  <2>8. DOMAIN slots' \cup {object'[p].slot : p \in Live'} = 0 .. nextSlot' - 1
    BY <1>4, <2>7 DEF AdapterInv, SlotsAgree
  <2> QED
    BY <2>3, <2>6, <2>8 DEF SlotsAgree
<1>17. GenerationsAgree'
  <2>1. \A p, q \in Live' : p # q => object'[p].generation # object'[q].generation
    BY <1>11 DEF AdapterInv, GenerationsAgree
  <2>2. \A x \in Generation : generations'[x] # None => object'[generations'[x]].generation = x
    BY <1>11, <1>12, <1>13 DEF AdapterInv, GenerationsAgree
  <2>3. ASSUME NEW b \in Registered'
        PROVE  generations'[Current(b)'] = aliases'[b]
    <3>1. b \in Alias /\ aliases'[b] # None /\ aliases'[b] \in Live'
      BY <1>13 DEF Registered
    <3>2. Current(b)' = object[aliases'[b]].generation
      BY <1>11, <3>1 DEF Current
    <3>3. CASE aliases'[b] = o
      BY <1>12, <3>2, <3>3
    <3>4. CASE aliases'[b] # o
      <4>1. aliases'[b] = aliases[b] /\ b \in Registered
        BY <1>10, <3>1, <3>4 DEF Registered
      <4>2. generations[Current(b)'] = aliases[b]
        BY <3>1, <3>2, <4>1 DEF AdapterInv, GenerationsAgree, Current
      <4>3. Current(b)' # g /\ Current(b)' \in Generation
        BY <1>2, <1>11, <3>1, <3>2, <3>4 DEF AdapterInv, GenerationsAgree, TypeOK, Live
      <4>4. Kept(Current(b)', aliases')
        BY <3>1, <3>2 DEF Kept
      <4> QED
        BY <1>12, <4>1, <4>2, <4>3, <4>4
    <3> QED
      BY <3>3, <3>4
  <2> QED
    BY <2>1, <2>2, <2>3 DEF GenerationsAgree
<1>18. CountsFinite'
  <2>1. Registered' = Registered \cup {a}
    BY <1>2, <1>10 DEF Registered
  <2>2. IsFiniteSet(Registered) /\ Cardinality(Registered) <= MaxAdapters
    BY DEF AdapterInv, CountsFinite
  <2>3. /\ IsFiniteSet(Registered \cup {a}) /\ Cardinality(Registered) \in Nat
        /\ Cardinality(Registered \cup {a}) =
             IF a \in Registered THEN Cardinality(Registered) ELSE Cardinality(Registered) + 1
    BY <2>2, FS_AddElement, FS_CardinalityType
  <2>4. Cardinality(Registered') <= MaxAdapters
    BY <1>2, <2>1, <2>2, <2>3, AdapterAssumption DEF AliasFits
  <2>5. IsFiniteSet(Reserved') /\ IsFiniteSet(ReservedBytes')
    BY <1>5, ReservedCountsNext
  <2> QED
    BY <1>8, <2>1, <2>3, <2>4, <2>5 DEF CountsFinite
<1> QED
  BY <1>4, <1>8, <1>14, <1>15, <1>16, <1>17, <1>18 DEF AdapterInv

\* An unload never takes place while a load is past its last look at the policy.
LEMMA UnloadInv ==
  ASSUME AdapterInv, NEW a \in Alias, NEW expected \in SUBSET Generation, Unload(a, expected)
  PROVE  AdapterInv'
<1> DEFINE o == aliases[a]
           g == Current(a)
<1>1. o \in Live /\ o # None /\ g \in Generation /\ g = object[o].generation /\ a \in Registered
  <2>1. g \in Generation /\ aliases[a] \in Live \cup {None}
    BY DEF Unload, AdapterInv, TypeOK
  <2> QED
    BY <2>1, AdapterAssumption DEF Current, Registered
<1>2. /\ aliases' = [aliases EXCEPT ![a] = None]
      /\ generations' = IF Kept(g, aliases') THEN generations ELSE [generations EXCEPT ![g] = None]
      /\ DropInLock(o, slots)
      /\ UNCHANGED <<nextSlot, mutation, permit, pc, call, held, lease, dropping>>
      /\ mutation = None
  BY DEF Unload
<1>3. \A u \in Loader : pc[u] \notin {"resolve", "load", "register"} /\ held[u] = None
  BY <1>2, AdapterAssumption DEF AdapterInv, LoadsExclude
<1>4. Reserved = {} /\ Reserved' = {}
  BY <1>2, <1>3 DEF Reserved
<1>5. slots \in [DOMAIN slots -> Live \cup {None}]
  BY DEF AdapterInv, TypeOK
<1>6. /\ \E D \in SUBSET Live :
              /\ \A x \in D : ~Referred(x, aliases', generations', held', lease)
              /\ Live' = Live \ D /\ DOMAIN object' = DOMAIN object \ D
              /\ \A x \in DOMAIN object' : object'[x] = object[x]
              /\ DOMAIN slots' = DOMAIN slots
              /\ \A i \in DOMAIN slots : slots'[i] = IF slots[i] \in D THEN None ELSE slots[i]
      /\ object' \in [DOMAIN object' -> [generation : Generation, slot : Nat]]
      /\ slots' \in [DOMAIN slots' -> Live' \cup {None}]
      /\ DOMAIN object' \subseteq Object /\ dropping' \subseteq DOMAIN object'
      /\ IsFiniteSet(DOMAIN object') /\ IsFiniteSet(ResidentBytes')
      /\ adapters' \in Nat /\ bytes' \in Nat /\ BudgetExact'
  BY <1>1, <1>2, <1>4, <1>5, DropInLockEffect
<1>7. PICK D \in SUBSET Live :
        /\ \A x \in D : ~Referred(x, aliases', generations', held', lease)
        /\ Live' = Live \ D /\ DOMAIN object' = DOMAIN object \ D
        /\ \A x \in DOMAIN object' : object'[x] = object[x]
        /\ DOMAIN slots' = DOMAIN slots
        /\ \A i \in DOMAIN slots : slots'[i] = IF slots[i] \in D THEN None ELSE slots[i]
  BY <1>6
<1>8. aliases'[a] = None /\ \A b \in Alias \ {a} : aliases'[b] = aliases[b]
  BY <1>2 DEF AdapterInv, TypeOK
<1>9. \A p \in Live' : p \in Live /\ object'[p] = object[p]
  BY <1>7 DEF Live
<1>10. \A x \in Generation :
         \/ generations'[x] = generations[x]
         \/ generations'[x] = None /\ ~Kept(x, aliases')
  <2>1. generations \in [Generation -> Live \cup {None}]
    BY DEF AdapterInv, TypeOK
  <2>2. CASE Kept(g, aliases')
    BY <1>2, <2>2
  <2>3. CASE ~Kept(g, aliases')
    BY <1>1, <1>2, <2>1, <2>3
  <2> QED
    BY <2>2, <2>3
<1>11. /\ aliases' \in [Alias -> Live' \cup {None}]
       /\ generations' \in [Generation -> Live' \cup {None}]
       /\ held' \in [Loader -> Live' \cup {None}] /\ lease' \in [Request -> Live' \cup {None}]
  <2>1. /\ aliases' \in [Alias -> Live \cup {None}]
        /\ generations' \in [Generation -> Live \cup {None}]
        /\ held' \in [Loader -> Live \cup {None}] /\ lease' \in [Request -> Live \cup {None}]
    BY <1>1, <1>2 DEF AdapterInv, TypeOK
  <2>2. \A x \in D : ~Referred(x, aliases', generations', held', lease')
    BY <1>2, <1>7
  <2> QED
    BY <1>7, <2>1, <2>2 DEF Referred
<1>12. TypeOK'
  <2>1. DOMAIN slots' \subseteq Nat
    BY <1>7 DEF AdapterInv, TypeOK
  <2>2. /\ nextSlot' \in Nat /\ mutation' \in Loader \cup {None} /\ permit' \in Loader \cup {None}
        /\ pc' \in [Loader -> {"idle", "validate", "check", "lock", "resolve", "load", "register"}]
        /\ call' \in [Loader -> Calls \cup {None}]
    BY <1>2 DEF AdapterInv, TypeOK
  <2> QED
    BY <1>6, <1>11, <2>1, <2>2 DEF TypeOK
<1>13. /\ Registered' = Registered \ {a} /\ IsFiniteSet(Registered')
       /\ Cardinality(Registered') < MaxAdapters
  <2>1. Registered' = Registered \ {a}
    BY <1>8 DEF Registered
  <2>2. IsFiniteSet(Registered) /\ Cardinality(Registered) <= MaxAdapters
    BY DEF AdapterInv, CountsFinite
  <2>3. /\ IsFiniteSet(Registered \ {a}) /\ Cardinality(Registered) \in Nat
        /\ Cardinality(Registered \ {a}) = Cardinality(Registered) - 1
    BY <1>1, <2>2, FS_RemoveElement, FS_CardinalityType
  <2> QED
    BY <2>1, <2>2, <2>3, AdapterAssumption
<1>14. LoadsExclude'
  BY <1>2 DEF AdapterInv, LoadsExclude
<1>15. LoadsInformed'
  <2>1. \A b : AliasFits(b)'
    BY <1>13 DEF AliasFits
  <2> QED
    BY <1>2, <1>3, <2>1 DEF LoadsInformed
<1>16. SlotsAgree'
  <2>1. \A p \in Live : object[p].slot \in DOMAIN slots /\ slots[object[p].slot] = p
    BY <1>3, AllInSlots
  <2>2. \A i \in DOMAIN slots' : slots'[i] # None => object'[slots'[i]].slot = i
    BY <1>5, <1>6, <1>7, <1>9 DEF AdapterInv, SlotsAgree
  <2>3. \A p \in Live' : object'[p].slot \in DOMAIN slots' /\ slots'[object'[p].slot] = p
    BY <1>7, <1>9, <2>1
  <2>4. DOMAIN slots' \cup {object'[p].slot : p \in Live'}
          = DOMAIN slots \cup {object[p].slot : p \in Live}
    <3>1. {object'[p].slot : p \in Live'} \subseteq DOMAIN slots'
      BY <2>3
    <3>2. {object[p].slot : p \in Live} \subseteq DOMAIN slots
      BY <2>1
    <3> QED
      BY <1>7, <3>1, <3>2
  <2>5. DOMAIN slots' \cup {object'[p].slot : p \in Live'} = 0 .. nextSlot' - 1
    BY <1>2, <2>4 DEF AdapterInv, SlotsAgree
  <2> QED
    BY <2>2, <2>3, <2>5 DEF SlotsAgree
<1>17. GenerationsAgree'
  <2>1. \A p, q \in Live' : p # q => object'[p].generation # object'[q].generation
    BY <1>9 DEF AdapterInv, GenerationsAgree
  <2>2. \A x \in Generation : generations'[x] # None => object'[generations'[x]].generation = x
    BY <1>9, <1>10, <1>11 DEF AdapterInv, GenerationsAgree
  <2>3. ASSUME NEW b \in Registered'
        PROVE  generations'[Current(b)'] = aliases'[b]
    <3>1. b \in Alias /\ b \in Registered /\ aliases'[b] = aliases[b]
          /\ aliases[b] # None /\ aliases'[b] \in Live'
      BY <1>8, <1>11 DEF Registered
    <3>2. Current(b)' = Current(b) /\ Current(b) = object[aliases'[b]].generation
      BY <1>9, <3>1 DEF Current
    <3>3. generations[Current(b)] = aliases[b] /\ Current(b) \in Generation
      BY <1>9, <3>1, <3>2 DEF AdapterInv, GenerationsAgree, TypeOK, Live
    <3>4. Kept(Current(b), aliases')
      BY <3>1, <3>2 DEF Kept
    <3> QED
      BY <1>10, <3>1, <3>2, <3>3, <3>4
  <2> QED
    BY <2>1, <2>2, <2>3 DEF GenerationsAgree
<1>18. CountsFinite'
  <2>1. ReservedBytes' = {}
    BY <1>4 DEF ReservedBytes
  <2>2. IsFiniteSet({})
    BY FS_EmptySet
  <2>3. Cardinality(Registered') <= MaxAdapters
    BY <1>13, FS_CardinalityType, AdapterAssumption
  <2> QED
    BY <1>4, <1>6, <1>13, <2>1, <2>2, <2>3 DEF CountsFinite
<1> QED
  BY <1>2, <1>6, <1>12, <1>14, <1>15, <1>16, <1>17, <1>18 DEF AdapterInv

\* A request pins what is live.
LEMMA PinInv ==
  ASSUME AdapterInv, NEW r \in Request, Pin(r)
  PROVE  AdapterInv'
<1>1. PICK o \in {aliases[a] : a \in Registered} \cup UNION {Resolved(g) : g \in Generation} :
        lease' = [lease EXCEPT ![r] = o]
  BY DEF Pin
<1>2. o \in Live
  <2>1. \A a \in Registered : aliases[a] \in Live
    BY DEF Registered, AdapterInv, TypeOK
  <2>2. \A g \in Generation : Resolved(g) \subseteq Live
    BY DEF Resolved, AdapterInv, TypeOK
  <2> QED
    BY <2>1, <2>2
<1>3. UNCHANGED <<registry, budget, loads, dropping>>
  BY DEF Pin
<1>4. /\ Live' = Live /\ Registered' = Registered /\ ResidentBytes' = ResidentBytes
      /\ \A a : Current(a)' = Current(a) /\ AliasFits(a)' = AliasFits(a)
      /\ GenerationsAgree'
  BY <1>3, RegistrySame DEF AdapterInv
<1>5. TypeOK'
  BY <1>1, <1>2, <1>3, <1>4 DEF AdapterInv, TypeOK, registry, budget, loads
<1>6. LoadsExclude' /\ LoadsInformed' /\ SlotsAgree'
  BY <1>3, <1>4 DEF AdapterInv, LoadsExclude, LoadsInformed, SlotsAgree, registry, loads
<1>7. Reserved' = Reserved /\ ReservedBytes' = ReservedBytes
  BY <1>3 DEF Reserved, ReservedBytes, loads
<1>8. CountsFinite' /\ BudgetExact' /\ (nextSlot <= MaxAdapters)'
  BY <1>3, <1>4, <1>7 DEF AdapterInv, CountsFinite, BudgetExact, registry, budget
<1> QED
  BY <1>4, <1>5, <1>6, <1>8 DEF AdapterInv

\* A lease that was the last reference leaves an object to be released.
LEMMA UnpinInv ==
  ASSUME AdapterInv, NEW r \in Request, Unpin(r)
  PROVE  AdapterInv'
<1> DEFINE o == lease[r]
           dead == IF Referred(o, aliases, generations, held, lease') THEN {} ELSE {o}
<1>1. /\ o # None /\ lease' = [lease EXCEPT ![r] = None] /\ dropping' = dropping \cup dead
      /\ slots' = Without(slots, dead)
      /\ UNCHANGED <<aliases, generations, nextSlot, object, budget, loads>>
  BY DEF Unpin
<1>2. o \in Live /\ dead \subseteq Live
  BY <1>1 DEF AdapterInv, TypeOK
<1>3. \A x \in dead : ~Referred(x, aliases, generations, held, lease')
  OBVIOUS
<1> HIDE DEF dead
<1>4. Live' = Live \ dead
  BY <1>1 DEF Live
<1>5. /\ DOMAIN slots' = DOMAIN slots
      /\ \A i \in DOMAIN slots : slots'[i] = IF slots[i] \in dead THEN None ELSE slots[i]
  BY <1>1 DEF Without
<1>6. TypeOK'
  <2>1. /\ aliases \in [Alias -> Live \cup {None}]
        /\ generations \in [Generation -> Live \cup {None}]
        /\ held \in [Loader -> Live \cup {None}] /\ lease' \in [Request -> Live \cup {None}]
    BY <1>1 DEF AdapterInv, TypeOK
  <2>2. /\ aliases \in [Alias -> Live' \cup {None}]
        /\ generations \in [Generation -> Live' \cup {None}]
        /\ held \in [Loader -> Live' \cup {None}] /\ lease' \in [Request -> Live' \cup {None}]
    BY <1>3, <1>4, <2>1 DEF Referred
  <2>3. DOMAIN slots' \subseteq Nat /\ slots' \in [DOMAIN slots' -> Live' \cup {None}]
    BY <1>1, <1>4 DEF AdapterInv, TypeOK, Without
  <2>4. dropping' \subseteq DOMAIN object'
    BY <1>1, <1>2 DEF AdapterInv, TypeOK, Live
  <2> QED
    BY <1>1, <2>2, <2>3, <2>4 DEF AdapterInv, TypeOK, budget, loads
<1>7. Registered' = Registered /\ \A a : Current(a)' = Current(a) /\ AliasFits(a)' = AliasFits(a)
  <2>1. Registered' = Registered /\ \A a : Current(a)' = Current(a)
    BY <1>1 DEF Registered, Current
  <2> QED
    BY <2>1 DEF AliasFits
<1>8. LoadsExclude' /\ LoadsInformed'
  BY <1>1, <1>4, <1>7 DEF AdapterInv, LoadsExclude, LoadsInformed, loads
<1>9. SlotsAgree'
  <2>1. \A p \in dead : object[p].slot \in DOMAIN slots
    BY <1>2, <1>3 DEF AdapterInv, SlotsAgree, Referred
  <2>2. \A i \in DOMAIN slots' : slots'[i] # None => object'[slots'[i]].slot = i
    BY <1>1, <1>5 DEF AdapterInv, SlotsAgree
  <2>3. \A p \in Live' :
          IF object'[p].slot \in DOMAIN slots' THEN slots'[object'[p].slot] = p
          ELSE \E t \in Loader : held'[t] = p
    BY <1>1, <1>4, <1>5 DEF AdapterInv, SlotsAgree, loads
  <2>4. DOMAIN slots' \cup {object'[p].slot : p \in Live'}
          = DOMAIN slots \cup {object[p].slot : p \in Live}
    <3>1. {object'[p].slot : p \in Live'} \subseteq {object[p].slot : p \in Live}
      BY <1>1, <1>4
    <3>2. {object[p].slot : p \in Live} \subseteq DOMAIN slots \cup {object'[p].slot : p \in Live'}
      BY <1>1, <1>4, <2>1
    <3> QED
      BY <1>5, <3>1, <3>2
  <2>5. DOMAIN slots' \cup {object'[p].slot : p \in Live'} = 0 .. nextSlot' - 1
    BY <1>1, <2>4 DEF AdapterInv, SlotsAgree
  <2> QED
    BY <2>2, <2>3, <2>5 DEF SlotsAgree
<1>10. GenerationsAgree'
  BY <1>1, <1>4, <1>7 DEF AdapterInv, GenerationsAgree
<1>11. Reserved' = Reserved /\ ReservedBytes' = ReservedBytes /\ ResidentBytes' = ResidentBytes
  BY <1>1 DEF Reserved, ReservedBytes, ResidentBytes, loads
<1>12. CountsFinite' /\ BudgetExact' /\ (nextSlot <= MaxAdapters)'
  BY <1>1, <1>7, <1>11 DEF AdapterInv, CountsFinite, BudgetExact, budget
<1> QED
  BY <1>6, <1>8, <1>9, <1>10, <1>12 DEF AdapterInv

\* The share of the budget follows.
LEMMA ReleaseInv ==
  ASSUME AdapterInv, NEW o, Release(o)
  PROVE  AdapterInv'
<1>1. /\ o \in dropping /\ dropping' = dropping \ {o}
      /\ adapters' = adapters - 1 /\ bytes' = bytes - Bytes[object[o].generation]
      /\ object' = [x \in DOMAIN object \ {o} |-> object[x]]
      /\ UNCHANGED <<aliases, generations, slots, nextSlot, loads, lease>>
  BY DEF Release
<1>2. o \in DOMAIN object /\ o \notin Live
  BY <1>1 DEF AdapterInv, TypeOK, Live
<1>3. Live' = Live /\ \A p \in Live : object'[p] = object[p]
  BY <1>1, <1>2 DEF Live
<1>4. /\ IsFiniteSet(DOMAIN object') /\ IsFiniteSet(ResidentBytes')
      /\ Cardinality(DOMAIN object') \in Nat /\ Cardinality(ResidentBytes') \in Nat
      /\ Bytes[object[o].generation] \in Nat
      /\ Cardinality(DOMAIN object) = Cardinality(DOMAIN object') + 1
      /\ Cardinality(ResidentBytes) = Cardinality(ResidentBytes') + Bytes[object[o].generation]
  BY <1>1, <1>2, ResidentDropped DEF AdapterInv
<1>5. /\ Reserved' = Reserved /\ ReservedBytes' = ReservedBytes
      /\ Cardinality(Reserved) \in Nat /\ Cardinality(ReservedBytes) \in Nat
  <2>1. Reserved' = Reserved /\ ReservedBytes' = ReservedBytes
    BY <1>1 DEF Reserved, ReservedBytes, loads
  <2> QED
    BY <2>1, FS_CardinalityType DEF AdapterInv, CountsFinite
<1>6. adapters' \in Nat /\ bytes' \in Nat /\ BudgetExact'
  BY <1>1, <1>4, <1>5, AdapterAssumption DEF AdapterInv, BudgetExact
<1>7. TypeOK'
  <2>1. /\ object' \in [DOMAIN object' -> [generation : Generation, slot : Nat]]
        /\ DOMAIN object' \subseteq Object /\ dropping' \subseteq DOMAIN object'
    BY <1>1 DEF AdapterInv, TypeOK
  <2> QED
    BY <1>1, <1>3, <1>6, <2>1 DEF AdapterInv, TypeOK, loads
<1>8. Registered' = Registered /\ \A a \in Alias : Current(a)' = Current(a)
  <2>1. \A a \in Alias : aliases[a] \in Live \cup {None}
    BY DEF AdapterInv, TypeOK
  <2> QED
    BY <1>1, <1>3, <2>1 DEF Registered, Current
<1>9. \A a : AliasFits(a)' = AliasFits(a)
  BY <1>8 DEF AliasFits
<1>10. LoadsExclude'
  BY <1>1 DEF AdapterInv, LoadsExclude, loads
<1>11. LoadsInformed'
  <2>1. \A t \in Loader : pc[t] # "idle" => call[t].alias \in Alias
    BY DEF AdapterInv, LoadsExclude, Calls
  <2> QED
    BY <1>1, <1>3, <1>8, <1>9, <2>1 DEF AdapterInv, LoadsInformed, loads
<1>12. SlotsAgree'
  <2>1. \A s \in DOMAIN slots : slots[s] \in Live \cup {None}
    BY DEF AdapterInv, TypeOK
  <2>2. {object'[p].slot : p \in Live'} = {object[p].slot : p \in Live}
    BY <1>3
  <2>3. UNCHANGED <<slots, nextSlot, held>>
    BY <1>1 DEF loads
  <2>4. \A s \in DOMAIN slots' : slots'[s] # None => object'[slots'[s]].slot = s
    BY <1>3, <2>1, <2>3 DEF AdapterInv, SlotsAgree
  <2>5. \A p \in Live' :
          IF object'[p].slot \in DOMAIN slots' THEN slots'[object'[p].slot] = p
          ELSE \E t \in Loader : held'[t] = p
    BY <1>3, <2>3 DEF AdapterInv, SlotsAgree
  <2>6. DOMAIN slots' \cup {object'[p].slot : p \in Live'} = 0 .. nextSlot' - 1
    BY <2>2, <2>3 DEF AdapterInv, SlotsAgree
  <2> QED
    BY <2>4, <2>5, <2>6 DEF SlotsAgree
<1>13. GenerationsAgree'
  <2>1. \A p, q \in Live' : p # q => object'[p].generation # object'[q].generation
    BY <1>3 DEF AdapterInv, GenerationsAgree
  <2>2. \A x \in Generation : generations'[x] # None => object'[generations'[x]].generation = x
    <3>1. generations' = generations /\ \A x \in Generation : generations[x] \in Live \cup {None}
      BY <1>1 DEF AdapterInv, TypeOK
    <3> QED
      BY <1>3, <3>1 DEF AdapterInv, GenerationsAgree
  <2>3. \A a \in Registered' : generations'[Current(a)'] = aliases'[a]
    BY <1>1, <1>8 DEF AdapterInv, GenerationsAgree, Registered
  <2> QED
    BY <2>1, <2>2, <2>3 DEF GenerationsAgree
<1>14. CountsFinite' /\ (nextSlot <= MaxAdapters)'
  BY <1>1, <1>4, <1>5, <1>8 DEF AdapterInv, CountsFinite
<1> QED
  BY <1>6, <1>7, <1>10, <1>11, <1>12, <1>13, <1>14 DEF AdapterInv

-----------------------------------------------------------------------------
(* The invariant. *)

\* An empty registry.
LEMMA InitInv ==
  ASSUME Init PROVE AdapterInv
<1> USE DEF Init
<1>1. DOMAIN object = {} /\ DOMAIN slots = {} /\ Live = {} /\ Registered = {} /\ Reserved = {}
  <2>1. DOMAIN << >> = {}
    OBVIOUS
  <2> QED
    BY <2>1 DEF Live, Registered, Reserved
<1>2. ResidentBytes = {} /\ ReservedBytes = {}
  BY <1>1 DEF ResidentBytes, ReservedBytes
<1>3. IsFiniteSet({}) /\ Cardinality({}) = 0
  BY FS_EmptySet
<1>4. TypeOK
  <2>1. \A S : object \in [{} -> S] /\ slots \in [{} -> S]
    OBVIOUS
  <2> QED
    BY <1>1, <2>1 DEF TypeOK
<1>5. LoadsExclude /\ LoadsInformed
  BY AdapterAssumption DEF LoadsExclude, LoadsInformed
<1>6. SlotsAgree /\ GenerationsAgree
  <2>1. 0 .. nextSlot - 1 = {}
    OBVIOUS
  <2>2. {object[o].slot : o \in Live} = {}
    BY <1>1
  <2> QED
    BY <1>1, <2>1, <2>2 DEF SlotsAgree, GenerationsAgree
<1>7. CountsFinite /\ BudgetExact /\ nextSlot <= MaxAdapters
  BY <1>1, <1>2, <1>3, AdapterAssumption DEF CountsFinite, BudgetExact
<1> QED
  BY <1>4, <1>5, <1>6, <1>7 DEF AdapterInv

\* Every step keeps the invariant.
LEMMA NextInv ==
  ASSUME AdapterInv, [Next]_vars PROVE AdapterInv'
<1>1. ASSUME NEW t \in Loader,
             \/ Begin(t) \/ Validate(t) \/ Check(t) \/ Lock(t) \/ Resolve(t)
             \/ LoadFails(t) \/ Install(t) \/ Register(t)
      PROVE  AdapterInv'
  BY <1>1, BeginInv, ValidateInv, CheckInv, LockInv, ResolveInv, LoadFailsInv, InstallInv,
     RegisterInv
<1>2. ASSUME NEW a \in Alias, Unload(a, Generation) \/ \E g \in Generation : Unload(a, {g})
      PROVE  AdapterInv'
  BY <1>2, UnloadInv
<1>3. ASSUME NEW r \in Request, Pin(r) \/ Unpin(r)
      PROVE  AdapterInv'
  BY <1>3, PinInv, UnpinInv
<1>4. ASSUME NEW o \in Object, Release(o)
      PROVE  AdapterInv'
  BY <1>4, ReleaseInv
<1>5. CASE UNCHANGED vars
  <2>1. UNCHANGED <<registry, budget, loads, lease, dropping>>
    BY <1>5 DEF vars
  <2>2. /\ Live' = Live /\ Registered' = Registered /\ ResidentBytes' = ResidentBytes
        /\ \A a : Current(a)' = Current(a) /\ AliasFits(a)' = AliasFits(a)
        /\ GenerationsAgree'
    BY <2>1, RegistrySame DEF AdapterInv
  <2>3. TypeOK' /\ SlotsAgree'
    BY <2>1, <2>2 DEF AdapterInv, TypeOK, SlotsAgree, registry, budget, loads
  <2>4. LoadsExclude' /\ LoadsInformed'
    BY <2>1, <2>2 DEF AdapterInv, LoadsExclude, LoadsInformed, registry, loads
  <2>5. Reserved' = Reserved /\ ReservedBytes' = ReservedBytes
    BY <2>1 DEF Reserved, ReservedBytes, loads
  <2>6. CountsFinite' /\ BudgetExact' /\ (nextSlot <= MaxAdapters)'
    BY <2>1, <2>2, <2>5 DEF AdapterInv, CountsFinite, BudgetExact, registry, budget
  <2> QED
    BY <2>2, <2>3, <2>4, <2>6 DEF AdapterInv
<1> QED
  BY <1>1, <1>2, <1>3, <1>4, <1>5 DEF Next

\* The invariant holds in every state: loads exclude each other, and what a load
\* has found out before it loads weights stays so until it registers, although
\* unloads and requests come in between.
THEOREM AdapterInvariant == Spec => []AdapterInv
<1>1. Init => AdapterInv
  BY InitInv
<1>2. AdapterInv /\ [Next]_vars => AdapterInv'
  BY NextInv
<1> QED
  BY <1>1, <1>2, PTL DEF Spec

\* Two residents that may run at the same time never share a slot or a
\* generation, and resolve_generation finds exactly what an alias names.
THEOREM ResidentsDistinct == Spec => []DistinctResidents
<1>1. AdapterInv => DistinctResidents
  <2> SUFFICES ASSUME AdapterInv PROVE DistinctResidents
    OBVIOUS
  <2>1. ASSUME NEW o \in Live, NEW p \in Live, o # p
        PROVE  object[o].slot # object[p].slot /\ object[o].generation # object[p].generation
    <3>1. object[o].generation # object[p].generation
      BY <2>1 DEF AdapterInv, GenerationsAgree
    <3>2. \A q \in Live : object[q].slot \notin DOMAIN slots =>
            \E t \in Loader : held[t] = q /\ permit = t
      BY AdapterAssumption DEF AdapterInv, SlotsAgree, LoadsExclude, TypeOK, Live
    <3>3. \A q \in Live : object[q].slot \in DOMAIN slots => slots[object[q].slot] = q
      BY DEF AdapterInv, SlotsAgree
    <3> QED
      BY <2>1, <3>1, <3>2, <3>3
  <2>2. ASSUME NEW a \in Registered
        PROVE  Resolved(Current(a)) = {aliases[a]}
    BY <2>2 DEF AdapterInv, GenerationsAgree, Resolved, Registered
  <2> QED
    BY <2>1, <2>2 DEF DistinctResidents
<1> QED
  BY <1>1, AdapterInvariant, PTL

\* ResidentBudget counts exactly the residents, the dropped ones that are not
\* released yet and the reservation of a load, and keeps its limits.
THEOREM BudgetIsExact == Spec => []BudgetExact
<1>1. AdapterInv => BudgetExact
  BY DEF AdapterInv
<1> QED
  BY <1>1, AdapterInvariant, PTL

\* register never refuses what a load has loaded, and allocate_slot never needs
\* more slots than max_adapters.
THEOREM LoadsNotWasted == Spec => []NothingWasted
<1>1. AdapterInv => NothingWasted
  BY DEF AdapterInv, LoadsInformed, NothingWasted
<1> QED
  BY <1>1, AdapterInvariant, PTL

\* What register replaces is what the policy allows, although the policy was
\* checked for the last time before the weights were loaded.
THEOREM PolicyIsHonoured == Spec => PolicyHonoured
<1>1. AdapterInv => \A t \in Loader : pc[t] = "register" /\ pc'[t] = "idle" =>
                      Current(call[t].alias) \in call[t].policy
  BY DEF AdapterInv, LoadsInformed
<1> QED
  BY <1>1, AdapterInvariant, PTL DEF PolicyHonoured

=============================================================================
