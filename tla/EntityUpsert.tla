---------------------------- MODULE EntityUpsert ----------------------------
(***************************************************************************)
(* frost.Writer.GetOrCreate for one (entity, name) key on one FROST        *)
(* target: the cache, the singleflight group around the find-then-create   *)
(* algorithm, the 409 refetch, and the failures a call can meet.  Keys do  *)
(* not interact, so one key stands for each link of the entity chain that  *)
(* ingest.resolveChain walks; the callers are the goroutines resolving     *)
(* streams that share the entity.                                          *)
(*                                                                         *)
(* FROST does not reject duplicate names, so only the writer stands        *)
(* between two callers and two entities.  An operator, or the previous     *)
(* pod during a rollout, can create the same name or delete an entity.     *)
(***************************************************************************)
EXTENDS Naturals, FiniteSets

CONSTANTS
    Callers,      \* goroutines of the process that use the Writer
    MaxForeign,   \* bound: entities of that name created by others
    MaxLate,      \* bound: abandoned POSTs that FROST may still carry out
    MaxDeletes    \* bound: deletions of such an entity in FROST

ASSUME BoundsAssumption ==
    MaxForeign \in Nat /\ MaxLate \in Nat /\ MaxDeletes \in Nat

VARIABLES
    \* FROST
    entities,   \* @iot.ids of the live entities with this name
    nextId,     \* the id the next create gets
    onWire,     \* abandoned POSTs FROST has not dealt with
    \* the process
    cache,      \* the cached id, 0 when absent
    flight,     \* the caller leading the open flight, {} when none is open
    pc,         \* where each caller is in GetOrCreate
    \* history
    own,        \* ids created by POSTs the process waited for
    used,       \* ids GetOrCreate returned since the process started
    everUsed,   \* ids GetOrCreate ever returned
    foreign, late, deletes   \* what the environment has done so far

frostVars   == <<entities, nextId, onWire>>
processVars == <<cache, flight, pc>>
historyVars == <<own, used, everUsed, foreign, late, deletes>>
vars == <<frostVars, processVars, historyVars>>

Init ==
    /\ entities = {} /\ nextId = 1 /\ onWire = 0
    /\ cache = 0 /\ flight = {}
    /\ pc = [c \in Callers |-> "idle"]
    /\ own = {} /\ used = {} /\ everUsed = {}
    /\ foreign = 0 /\ late = 0 /\ deletes = 0

-----------------------------------------------------------------------------
(* "Slip*" operators are plausible slips of the definition that follows    *)
(* them; no specification uses them.                                       *)

(* The flight ends: singleflight hands the leader's result to every caller *)
(* that waited for it and forgets the flight, under one lock.              *)
SlipLanded(c) == {c}

Landed(c) == {c} \cup {w \in Callers : pc[w] = "wait"}

Close(c) ==
    /\ flight' = {}
    /\ pc' = [w \in Callers |-> IF w \in Landed(c) THEN "idle" ELSE pc[w]]

(* The leader failed, or its own context was cancelled: so do its waiters. *)
Abort(c) == Close(c) /\ UNCHANGED <<cache, used, everUsed>>

Return(id) == used' = used \cup {id} /\ everUsed' = everUsed \cup {id}

(* Cache.Put, then the flight ends with the id.                            *)
Resolve(c, id) == Close(c) /\ cache' = id /\ Return(id)

(* GetOrCreate is called and misses or hits the cache.                     *)
Call(c) ==
    /\ pc[c] = "idle"
    /\ \/ cache # 0 /\ Return(cache) /\ UNCHANGED pc
       \/ /\ cache = 0
          /\ pc' = [pc EXCEPT ![c] = "missed"]
          /\ UNCHANGED <<used, everUsed>>
    /\ UNCHANGED <<frostVars, cache, flight, own, foreign, late, deletes>>

SlipRecheckHits == FALSE

(* The cache looked up again, under the flight.                            *)
RecheckHits == cache # 0

SlipFlightOpen == FALSE

FlightOpen == flight # {}

(* sf.Do: wait for the open flight, or open one and look again.  A flight  *)
(* whose second look hits ends at once, so it is part of the step.         *)
Join(c) ==
    /\ pc[c] = "missed"
    /\ \/ /\ FlightOpen
          /\ pc' = [pc EXCEPT ![c] = "wait"]
          /\ UNCHANGED <<flight, used, everUsed>>
       \/ /\ ~FlightOpen /\ RecheckHits
          /\ pc' = [pc EXCEPT ![c] = "idle"]
          /\ Return(cache)
          /\ UNCHANGED flight
       \/ /\ ~FlightOpen /\ ~RecheckHits
          /\ flight' = {c}
          /\ pc' = [pc EXCEPT ![c] = "find"]
          /\ UNCHANGED <<used, everUsed>>
    /\ UNCHANGED <<frostVars, cache, own, foreign, late, deletes>>

SlipMatches == {}

(* What the name filter finds.                                             *)
Matches == entities

IsLowest(id, ids) == id \in ids /\ \A other \in ids : id <= other

(* FindByName: the only match, or the lowest of several with a warning.    *)
Find(c) ==
    /\ pc[c] = "find"
    /\ \/ /\ Matches = {}
          /\ pc' = [pc EXCEPT ![c] = "post"]
          /\ UNCHANGED <<cache, flight, used, everUsed>>
       \/ \E id \in Matches : IsLowest(id, Matches) /\ Resolve(c, id)
       \/ Abort(c)
    /\ UNCHANGED <<frostVars, own, foreign, late, deletes>>

Created ==
    /\ entities' = entities \cup {nextId}
    /\ nextId' = nextId + 1

(* Post: 201; 409 when FROST found the name taken; a failure, which may    *)
(* come after FROST created the entity (the answer is lost, or carries no  *)
(* readable id); or a timeout or cancelled context that leaves the request *)
(* on the wire.                                                            *)
Post(c) ==
    /\ pc[c] = "post"
    /\ \/ /\ Created /\ own' = own \cup {nextId}
          /\ Resolve(c, nextId)
          /\ UNCHANGED <<onWire, late>>
       \/ /\ Created /\ own' = own \cup {nextId}
          /\ Abort(c)
          /\ UNCHANGED <<onWire, late>>
       \/ /\ entities # {}
          /\ pc' = [pc EXCEPT ![c] = "refetch"]
          /\ UNCHANGED <<frostVars, cache, flight, own, used, everUsed, late>>
       \/ Abort(c) /\ UNCHANGED <<frostVars, own, late>>
       \/ /\ late < MaxLate
          /\ late' = late + 1 /\ onWire' = onWire + 1
          /\ Abort(c)
          /\ UNCHANGED <<entities, nextId, own>>
    /\ UNCHANGED <<foreign, deletes>>

SlipRefetch(c) ==
    /\ pc[c] = "refetch"
    /\ \/ \E id \in Matches : Matches = {id} /\ Resolve(c, id)
       \/ Matches = {} /\ Resolve(c, 0)
       \/ Abort(c)
    /\ UNCHANGED <<frostVars, own, foreign, late, deletes>>

(* The refetch after a 409.  Unlike the first lookup it treats several     *)
(* matches as an error, as it does none.                                   *)
Refetch(c) ==
    /\ pc[c] = "refetch"
    /\ \/ \E id \in Matches : Matches = {id} /\ Resolve(c, id)
       \/ Abort(c)
    /\ UNCHANGED <<frostVars, own, foreign, late, deletes>>

CallerStep(c) == Call(c) \/ Join(c) \/ Find(c) \/ Post(c) \/ Refetch(c)

-----------------------------------------------------------------------------
(* The environment.                                                        *)

(* The process dies and starts again with an empty cache; a POST on its    *)
(* way may still arrive.                                                   *)
Restart ==
    /\ cache' = 0 /\ flight' = {}
    /\ pc' = [c \in Callers |-> "idle"]
    /\ used' = {}
    /\ \/ UNCHANGED <<onWire, late>>
       \/ /\ \E c \in Callers : pc[c] = "post"
          /\ late < MaxLate
          /\ late' = late + 1 /\ onWire' = onWire + 1
    /\ UNCHANGED <<entities, nextId, own, everUsed, foreign, deletes>>

Arrive ==
    /\ onWire > 0 /\ onWire' = onWire - 1
    /\ Created
    /\ UNCHANGED <<processVars, historyVars>>

ForeignCreate ==
    /\ foreign < MaxForeign /\ foreign' = foreign + 1
    /\ Created
    /\ UNCHANGED <<onWire, processVars, own, used, everUsed, late, deletes>>

Delete ==
    /\ deletes < MaxDeletes /\ deletes' = deletes + 1
    /\ \E id \in entities : entities' = entities \ {id}
    /\ UNCHANGED <<nextId, onWire, processVars, own, used, everUsed, foreign, late>>

Next ==
    \/ \E c \in Callers : CallerStep(c)
    \/ Restart \/ Arrive \/ ForeignCreate \/ Delete

Spec == Init /\ [][Next]_vars

(* The Go scheduler runs every goroutine, and a request returns or times   *)
(* out (frost.NewClient sets an HTTP timeout).                             *)
FairSpec == Spec /\ \A c \in Callers : WF_vars(CallerStep(c))

-----------------------------------------------------------------------------
TypeOK ==
    /\ entities \in SUBSET (1..(nextId - 1)) /\ nextId \in Nat \ {0}
    /\ onWire \in 0..late
    /\ cache \in 0..(nextId - 1) /\ flight \in SUBSET Callers
    /\ pc \in [Callers -> {"idle", "missed", "wait", "find", "post", "refetch"}]
    /\ own \in SUBSET (1..(nextId - 1))
    /\ used \in SUBSET (1..(nextId - 1)) /\ everUsed \in SUBSET (1..(nextId - 1))
    /\ foreign \in 0..MaxForeign /\ late \in 0..MaxLate /\ deletes \in 0..MaxDeletes

(* Concurrent first sights, retries after a lost answer and restarts never *)
(* create the entity twice (writer.go:71-75, 119-121): of the entities the *)
(* process created and waited for, at most one is alive.                   *)
NoOwnDuplicate == \A i, j \in own \cap entities : i = j

(* Within one life of the process every caller gets the same id, whatever  *)
(* others create or delete meanwhile: streams that share an entity link to *)
(* one entity.                                                             *)
AgreedId == \A i, j \in used : i = j

(* Undisturbed by others and by late requests, the id is the same over     *)
(* restarts too, so a Datastream's history is never split.                 *)
IdentityOutlivesRestarts ==
    (foreign = 0 /\ late = 0 /\ deletes = 0) => \A i, j \in everUsed : i = j

(* A caller waiting for another caller's flight is always released.        *)
WaitersAreReleased == \A c \in Callers : pc[c] = "wait" ~> pc[c] # "wait"

-----------------------------------------------------------------------------
(* The inductive strengthening.                                            *)

(* Only the leader of the open flight is past the join, and it works with  *)
(* an empty cache.                                                         *)
OneFlight ==
    /\ \A c \in Callers : pc[c] \in {"find", "post", "refetch"} <=> flight = {c}
    /\ flight # {} => cache = 0 /\ \E c \in Callers : flight = {c}
    /\ flight = {} => \A c \in Callers : pc[c] # "wait"

(* A leader that is about to create has seen no entity of its own.         *)
NothingOwnBeforePost ==
    \A c \in Callers : pc[c] = "post" => own \cap entities = {}

(* The cache holds the one id this process hands out.                      *)
CacheIsTheAnswer == used \subseteq {cache} \ {0}

(* While nobody interferes, everything handed out is what was created.     *)
UndisturbedIsOwn ==
    (foreign = 0 /\ late = 0 /\ deletes = 0) =>
        own = entities /\ everUsed \subseteq own /\ cache \in own \cup {0}

IInv == NoOwnDuplicate /\ OneFlight /\ NothingOwnBeforePost /\ CacheIsTheAnswer
        /\ UndisturbedIsOwn
=============================================================================
