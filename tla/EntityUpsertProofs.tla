------------------------- MODULE EntityUpsertProofs -------------------------
(***************************************************************************)
(* Proofs about EntityUpsert, for any set of callers and any number of     *)
(* foreign creates, deletions and abandoned requests.                      *)
(***************************************************************************)
EXTENDS EntityUpsert, TLAPS

PcTyped(f) == f \in [Callers -> {"idle", "missed", "wait", "find", "post", "refetch"}]

LEMMA CloseType ==
    ASSUME TypeOK, NEW c \in Callers, Close(c)
    PROVE  flight' \in SUBSET Callers /\ PcTyped(pc')
  BY DEF Close, TypeOK, PcTyped

LEMMA ResolveType ==
    ASSUME TypeOK, NEW c \in Callers, NEW id \in Nat, id # 0, Resolve(c, id),
           NEW n \in Nat, nextId <= n, id < n
    PROVE  cache' \in 0..(n - 1) /\ used' \in SUBSET (1..(n - 1))
           /\ everUsed' \in SUBSET (1..(n - 1))
<1>1. nextId \in Nat
  BY DEF TypeOK
<1>2. id \in 1..(n - 1)
  OBVIOUS
<1>3. \A i \in 1..(nextId - 1) : i \in 1..(n - 1)
  BY <1>1
<1>4. used' \in SUBSET (1..(n - 1)) /\ everUsed' \in SUBSET (1..(n - 1))
  BY <1>2, <1>3 DEF Resolve, Return, TypeOK
<1>5. cache' = id /\ id \in 0..(n - 1)
  BY <1>2 DEF Resolve
<1> QED BY <1>4, <1>5

LEMMA TypeStep == TypeOK /\ [Next]_vars => TypeOK'
<1> SUFFICES ASSUME TypeOK, [Next]_vars PROVE TypeOK'
  OBVIOUS
<1> USE BoundsAssumption
<1> USE DEF frostVars, processVars, historyVars
<1>a. ASSUME NEW c \in Callers, Abort(c), UNCHANGED nextId
      PROVE  /\ cache' \in 0..(nextId' - 1) /\ flight' \in SUBSET Callers /\ PcTyped(pc')
             /\ used' \in SUBSET (1..(nextId' - 1)) /\ everUsed' \in SUBSET (1..(nextId' - 1))
  BY <1>a, CloseType DEF Abort, TypeOK
<1>r. ASSUME NEW c \in Callers, NEW id \in entities, Resolve(c, id), UNCHANGED nextId
      PROVE  /\ cache' \in 0..(nextId' - 1) /\ flight' \in SUBSET Callers /\ PcTyped(pc')
             /\ used' \in SUBSET (1..(nextId' - 1)) /\ everUsed' \in SUBSET (1..(nextId' - 1))
  <2>1. id \in Nat /\ id # 0 /\ id < nextId' /\ nextId' \in Nat /\ nextId <= nextId'
    BY <1>r DEF TypeOK
  <2> QED BY <1>r, <2>1, CloseType, ResolveType DEF Resolve
<1>h. ASSUME cache # 0, Return(cache)
      PROVE  used' \in SUBSET (1..(nextId - 1)) /\ everUsed' \in SUBSET (1..(nextId - 1))
  <2>1. cache \in 1..(nextId - 1)
    BY <1>h DEF TypeOK
  <2> QED BY <1>h, <2>1 DEF Return, TypeOK
<1>1. ASSUME NEW c \in Callers, Call(c) PROVE TypeOK'
  <2>1. used' \in SUBSET (1..(nextId - 1)) /\ everUsed' \in SUBSET (1..(nextId - 1))
    BY <1>1, <1>h DEF Call, TypeOK
  <2> QED BY <1>1, <2>1 DEF Call, TypeOK
<1>2. ASSUME NEW c \in Callers, Join(c) PROVE TypeOK'
  <2>1. used' \in SUBSET (1..(nextId - 1)) /\ everUsed' \in SUBSET (1..(nextId - 1))
    BY <1>2, <1>h DEF Join, RecheckHits, TypeOK
  <2>2. flight' \in SUBSET Callers /\ PcTyped(pc')
    BY <1>2 DEF Join, TypeOK, PcTyped
  <2> QED BY <1>2, <2>1, <2>2 DEF Join, TypeOK, PcTyped
<1>3. ASSUME NEW c \in Callers, Find(c) PROVE TypeOK'
  <2>1. CASE Matches = {} /\ pc' = [pc EXCEPT ![c] = "post"]
             /\ UNCHANGED <<cache, flight, used, everUsed>>
    BY <1>3, <2>1 DEF Find, TypeOK
  <2>2. CASE Abort(c)
    BY <1>3, <2>2, <1>a DEF Find, TypeOK, PcTyped
  <2>3. ASSUME NEW id \in entities, Resolve(c, id) PROVE TypeOK'
    BY <1>3, <2>3, <1>r DEF Find, TypeOK, PcTyped
  <2> QED BY <1>3, <2>1, <2>2, <2>3 DEF Find, Matches
<1>4. ASSUME NEW c \in Callers, Post(c) PROVE TypeOK'
  <2>1. CASE Created /\ own' = own \cup {nextId} /\ Resolve(c, nextId)
             /\ UNCHANGED <<onWire, late>>
    <3>1. /\ nextId' = nextId + 1 /\ nextId' \in Nat /\ nextId <= nextId'
          /\ nextId \in Nat /\ nextId # 0 /\ nextId < nextId'
      BY <2>1 DEF Created, TypeOK
    <3>2. /\ cache' \in 0..(nextId' - 1) /\ used' \in SUBSET (1..(nextId' - 1))
          /\ everUsed' \in SUBSET (1..(nextId' - 1))
      BY <2>1, <3>1, ResolveType
    <3>3. flight' \in SUBSET Callers /\ PcTyped(pc')
      BY <2>1, CloseType DEF Resolve
    <3> QED BY <1>4, <2>1, <3>1, <3>2, <3>3 DEF Post, Created, TypeOK, PcTyped
  <2>2. CASE Created /\ own' = own \cup {nextId} /\ Abort(c)
             /\ UNCHANGED <<onWire, late>>
    <3>1. flight' \in SUBSET Callers /\ PcTyped(pc')
      BY <2>2, CloseType DEF Abort
    <3> QED BY <1>4, <2>2, <3>1 DEF Post, Created, Abort, TypeOK, PcTyped
  <2>3. CASE pc' = [pc EXCEPT ![c] = "refetch"]
             /\ UNCHANGED <<frostVars, cache, flight, own, used, everUsed, late>>
    BY <1>4, <2>3 DEF Post, TypeOK
  <2>4. CASE Abort(c) /\ UNCHANGED <<frostVars, own, late>>
    BY <1>4, <2>4, <1>a DEF Post, TypeOK, PcTyped
  <2>5. CASE /\ late < MaxLate /\ late' = late + 1 /\ onWire' = onWire + 1
             /\ Abort(c) /\ UNCHANGED <<entities, nextId, own>>
    BY <1>4, <2>5, <1>a DEF Post, TypeOK, PcTyped
  <2> QED BY <1>4, <2>1, <2>2, <2>3, <2>4, <2>5 DEF Post
<1>5. ASSUME NEW c \in Callers, Refetch(c) PROVE TypeOK'
  <2>1. CASE Abort(c)
    BY <1>5, <2>1, <1>a DEF Refetch, TypeOK, PcTyped
  <2>2. ASSUME NEW id \in entities, Resolve(c, id) PROVE TypeOK'
    BY <1>5, <2>2, <1>r DEF Refetch, TypeOK, PcTyped
  <2> QED BY <1>5, <2>1, <2>2 DEF Refetch, Matches
<1>6. CASE Restart
  BY <1>6 DEF Restart, TypeOK
<1>7. CASE Arrive
  BY <1>7 DEF Arrive, Created, TypeOK
<1>8. CASE ForeignCreate
  BY <1>8 DEF ForeignCreate, Created, TypeOK
<1>9. CASE Delete
  BY <1>9 DEF Delete, TypeOK
<1>10. CASE UNCHANGED vars
  BY <1>10 DEF vars, TypeOK
<1> QED
  BY <1>1, <1>2, <1>3, <1>4, <1>5, <1>6, <1>7, <1>8, <1>9, <1>10, Zenon
     DEF Next, CallerStep

(* Every variable stays in its type.                                       *)
THEOREM TypeCorrect == Spec => []TypeOK
<1>1. Init => TypeOK
  BY BoundsAssumption DEF Init, TypeOK
<1> QED BY <1>1, TypeStep, PTL DEF Spec

-----------------------------------------------------------------------------
(* At most one caller is inside the find-then-create algorithm.            *)
LEMMA FlightStep == TypeOK /\ IInv /\ [Next]_vars => OneFlight'
<1> SUFFICES ASSUME TypeOK, IInv, [Next]_vars PROVE OneFlight'
  OBVIOUS
<1> USE DEF frostVars, processVars, historyVars
<1>i. OneFlight /\ PcTyped(pc)
  BY DEF IInv, TypeOK, PcTyped
<1>c. ASSUME NEW c \in Callers, pc[c] \in {"find", "post", "refetch"}, Close(c)
      PROVE  OneFlight'
  BY <1>c, <1>i DEF OneFlight, Close, Landed, PcTyped
<1>u. ASSUME UNCHANGED processVars PROVE OneFlight'
  BY <1>u, <1>i DEF OneFlight
<1>m. ASSUME NEW c \in Callers, pc[c] \in {"find", "post", "refetch"},
             NEW to \in {"find", "post", "refetch"},
             pc' = [pc EXCEPT ![c] = to], UNCHANGED <<cache, flight>>
      PROVE  OneFlight'
  BY <1>m, <1>i DEF OneFlight, PcTyped
<1>1. ASSUME NEW c \in Callers, Call(c) PROVE OneFlight'
  BY <1>1, <1>i DEF Call, OneFlight, PcTyped
<1>2. ASSUME NEW c \in Callers, Join(c) PROVE OneFlight'
  BY <1>2, <1>i, BoundsAssumption DEF Join, OneFlight, PcTyped, FlightOpen, RecheckHits, TypeOK
<1>3. ASSUME NEW c \in Callers, Find(c) \/ Post(c) \/ Refetch(c) PROVE OneFlight'
  BY <1>3, <1>c, <1>m DEF Find, Post, Refetch, Resolve, Abort
<1>4. CASE Restart
  BY <1>4 DEF Restart, OneFlight
<1>5. CASE Arrive \/ ForeignCreate \/ Delete \/ UNCHANGED vars
  BY <1>5, <1>u, Zenon DEF Arrive, ForeignCreate, Delete, vars
<1> QED
  BY <1>1, <1>2, <1>3, <1>4, <1>5, Zenon DEF Next, CallerStep

(* How a step changes the entities the process created and still lives     *)
(* with.                                                                   *)
LEMMA OwnSteps ==
    ASSUME TypeOK, [Next]_vars
    PROVE  \/ own' \cap entities' \subseteq own \cap entities
           \/ \E c \in Callers : pc[c] = "post" /\ own' = own \cup {nextId}
                                 /\ entities' = entities \cup {nextId} /\ Close(c)
<1> USE DEF frostVars, processVars, historyVars
<1>1. ASSUME NEW c \in Callers, CallerStep(c)
      PROVE  \/ UNCHANGED <<own, entities>>
             \/ pc[c] = "post" /\ own' = own \cup {nextId}
                /\ entities' = entities \cup {nextId} /\ Close(c)
  BY <1>1 DEF CallerStep, Call, Join, Find, Post, Refetch, Created, Resolve, Abort
<1>2. CASE Restart \/ UNCHANGED vars
  BY <1>2 DEF Restart, vars
<1>3. CASE Arrive \/ ForeignCreate
  BY <1>3 DEF Arrive, ForeignCreate, Created, TypeOK
<1>4. CASE Delete
  BY <1>4 DEF Delete
<1> QED BY <1>1, <1>2, <1>3, <1>4 DEF Next

LEMMA DuplicateStep == TypeOK /\ IInv /\ [Next]_vars => NoOwnDuplicate'
  BY OwnSteps DEF IInv, NoOwnDuplicate, NothingOwnBeforePost

LEMMA BeforePostStep == TypeOK /\ IInv /\ [Next]_vars => NothingOwnBeforePost'
<1> SUFFICES ASSUME TypeOK, IInv, [Next]_vars, NEW c \in Callers, pc'[c] = "post"
             PROVE  own' \cap entities' = {}
  BY DEF NothingOwnBeforePost
<1> USE DEF frostVars, processVars, historyVars
<1>i. PcTyped(pc)
  BY DEF TypeOK, PcTyped
<1>1. CASE pc[c] = "post"
  <2>1. own \cap entities = {} /\ flight = {c}
    BY <1>1 DEF IInv, NothingOwnBeforePost, OneFlight
  <2>2. ASSUME NEW d \in Callers, pc[d] = "post", Close(d) PROVE FALSE
    <3>1. d = c
      BY <2>1, <2>2 DEF IInv, OneFlight
    <3> QED BY <1>i, <2>2, <3>1 DEF Close, Landed, PcTyped
  <2> QED BY <2>1, <2>2, OwnSteps
<1>2. CASE pc[c] # "post"
  <2>1. ASSUME NEW d \in Callers, CallerStep(d)
        PROVE  Matches = {} /\ UNCHANGED <<own, entities>>
    BY <1>2, <1>i, <2>1
       DEF CallerStep, Call, Join, Find, Post, Refetch, Resolve, Abort, Close, PcTyped
  <2>2. ~Restart /\ ~UNCHANGED pc
    BY <1>2 DEF Restart
  <2> QED BY <2>1, <2>2 DEF Next, Arrive, ForeignCreate, Delete, vars, Matches
<1> QED BY <1>1, <1>2

LEMMA AnswerStep == TypeOK /\ IInv /\ [Next]_vars => CacheIsTheAnswer'
<1> SUFFICES ASSUME TypeOK, IInv, [Next]_vars PROVE CacheIsTheAnswer'
  OBVIOUS
<1> USE DEF frostVars, processVars, historyVars
<1>i. CacheIsTheAnswer /\ OneFlight
  BY DEF IInv
<1>u. ASSUME UNCHANGED <<cache, used>> PROVE CacheIsTheAnswer'
  BY <1>u, <1>i DEF CacheIsTheAnswer
<1>h. ASSUME UNCHANGED cache, cache # 0, Return(cache) PROVE CacheIsTheAnswer'
  BY <1>h, <1>i DEF CacheIsTheAnswer, Return
<1>r. ASSUME NEW c \in Callers, pc[c] \in {"find", "post", "refetch"},
             NEW id, id # 0, Resolve(c, id)
      PROVE  CacheIsTheAnswer'
  <2>1. used = {}
    BY <1>r, <1>i DEF OneFlight, CacheIsTheAnswer
  <2> QED BY <1>r, <2>1 DEF Resolve, Return, CacheIsTheAnswer
<1>1. ASSUME NEW c \in Callers, Call(c) \/ Join(c) PROVE CacheIsTheAnswer'
  BY <1>1, <1>u, <1>h DEF Call, Join, RecheckHits
<1>2. ASSUME NEW c \in Callers, Find(c) \/ Refetch(c) PROVE CacheIsTheAnswer'
  <2>1. \A id \in Matches : id # 0
    BY DEF Matches, TypeOK
  <2> QED BY <1>2, <2>1, <1>u, <1>r DEF Find, Refetch, Abort
<1>3. ASSUME NEW c \in Callers, Post(c) PROVE CacheIsTheAnswer'
  <2>1. nextId # 0
    BY DEF TypeOK
  <2> QED BY <1>3, <2>1, <1>u, <1>r DEF Post, Abort
<1>4. CASE Restart
  BY <1>4 DEF Restart, CacheIsTheAnswer
<1>5. CASE Arrive \/ ForeignCreate \/ Delete \/ UNCHANGED vars
  BY <1>5, <1>u, Zenon DEF Arrive, ForeignCreate, Delete, vars
<1> QED
  BY <1>1, <1>2, <1>3, <1>4, <1>5, Zenon DEF Next, CallerStep

LEMMA UndisturbedStep == TypeOK /\ IInv /\ [Next]_vars => UndisturbedIsOwn'
<1> SUFFICES ASSUME TypeOK, IInv, [Next]_vars,
                    foreign' = 0, late' = 0, deletes' = 0
             PROVE  own' = entities' /\ everUsed' \subseteq own' /\ cache' \in own' \cup {0}
  BY DEF UndisturbedIsOwn
<1> USE BoundsAssumption
<1> USE DEF frostVars, processVars, historyVars
<1>b. ASSUME foreign = 0, late = 0, deletes = 0
      PROVE  own = entities /\ everUsed \subseteq own /\ cache \in own \cup {0}
  BY <1>b DEF IInv, UndisturbedIsOwn
<1>1. ASSUME NEW c \in Callers, Call(c) \/ Join(c)
      PROVE  own' = entities' /\ everUsed' \subseteq own' /\ cache' \in own' \cup {0}
  BY <1>1, <1>b DEF Call, Join, Return, RecheckHits
<1>2. ASSUME NEW c \in Callers, Find(c) \/ Refetch(c)
      PROVE  own' = entities' /\ everUsed' \subseteq own' /\ cache' \in own' \cup {0}
  BY <1>2, <1>b DEF Find, Refetch, Matches, Resolve, Return, Abort
<1>3. ASSUME NEW c \in Callers, Post(c)
      PROVE  own' = entities' /\ everUsed' \subseteq own' /\ cache' \in own' \cup {0}
  <2>1. late = 0
    BY <1>3 DEF Post, TypeOK
  <2> QED BY <1>3, <1>b, <2>1 DEF Post, Created, Resolve, Return, Abort, TypeOK
<1>4. CASE Restart
  <2>1. late = 0 /\ foreign = 0 /\ deletes = 0
    BY <1>4 DEF Restart, TypeOK
  <2> QED BY <1>4, <1>b, <2>1 DEF Restart
<1>5. ~Arrive /\ ~ForeignCreate /\ ~Delete
  BY DEF Arrive, ForeignCreate, Delete, TypeOK
<1>6. CASE UNCHANGED vars
  BY <1>6, <1>b DEF vars
<1> QED
  BY <1>1, <1>2, <1>3, <1>4, <1>5, <1>6, Zenon DEF Next, CallerStep

(* Every part of the inductive invariant always holds.                     *)
THEOREM InductiveInvariant == Spec => []IInv
<1>1. Init => TypeOK /\ IInv
  <2>1. Init => TypeOK
    BY BoundsAssumption DEF Init, TypeOK
  <2> QED BY <2>1 DEF Init, IInv, NoOwnDuplicate, OneFlight, NothingOwnBeforePost,
             CacheIsTheAnswer, UndisturbedIsOwn
<1>2. TypeOK /\ IInv /\ [Next]_vars => (TypeOK /\ IInv)'
  BY TypeStep, FlightStep, DuplicateStep, BeforePostStep, AnswerStep,
     UndisturbedStep DEF IInv
<1> QED BY <1>1, <1>2, PTL DEF Spec

(* However many callers race and however often the process restarts, it    *)
(* never holds two live entities it created under one name.                *)
THEOREM SingleCreate == Spec => []NoOwnDuplicate
<1>1. IInv => NoOwnDuplicate
  BY DEF IInv
<1> QED BY <1>1, InductiveInvariant, PTL

(* All callers of one process lifetime get the same id.                    *)
THEOREM Agreement == Spec => []AgreedId
<1>1. IInv => AgreedId
  BY DEF IInv, CacheIsTheAnswer, AgreedId
<1> QED BY <1>1, InductiveInvariant, PTL

(* Undisturbed, that id survives restarts.                                 *)
THEOREM StableIdentity == Spec => []IdentityOutlivesRestarts
<1>1. IInv => IdentityOutlivesRestarts
  BY DEF IInv, NoOwnDuplicate, UndisturbedIsOwn, IdentityOutlivesRestarts
<1> QED BY <1>1, InductiveInvariant, PTL
=============================================================================
