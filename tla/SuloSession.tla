---------------------------- MODULE SuloSession -----------------------------
(***************************************************************************)
(* The REEN session of the SULO client: session, invalidate, login and the *)
(* retry loop of get, shared by the goroutines polling streams.  The mutex *)
(* guards the cached token and its generation and is held across the login *)
(* request; the GET itself runs without it, so its 401 may be about a      *)
(* token another goroutine has replaced meanwhile.                         *)
(*                                                                         *)
(* REEN issues tokens 1, 2, 3, ...  A token stops working when REEN says   *)
(* so (expiry, revocation).                                                *)
(***************************************************************************)
EXTENDS Naturals

CONSTANTS
    Workers,   \* goroutines calling get
    MaxTokens  \* bound: tokens REEN issues

ASSUME TokensAssumption == MaxTokens \in Nat

VARIABLES
    \* REEN
    issued,   \* tokens issued so far
    valid,    \* tokens REEN still accepts
    lost,     \* tokens whose login answer never arrived
    \* the client
    token,    \* the cached token, 0 when there is none
    gen,      \* its generation
    holder,   \* the worker holding mu during its login, {} when mu is free
    \* the workers
    pc,
    using,    \* the token of the request in hand
    usingGen, \* and the generation session returned with it
    attempt,  \* 0 or 1
    outcome   \* how the last get ended: "none", "ok", "transient", "permanent"

serverVars == <<issued, valid, lost>>
clientVars == <<token, gen, holder>>
workerVars == <<pc, using, usingGen, attempt, outcome>>
vars == <<serverVars, clientVars, workerVars>>

Init ==
    /\ issued = 0 /\ valid = {} /\ lost = {}
    /\ token = 0 /\ gen = 0 /\ holder = {}
    /\ pc = [w \in Workers |-> "idle"]
    /\ using = [w \in Workers |-> 0]
    /\ usingGen = [w \in Workers |-> 0]
    /\ attempt = [w \in Workers |-> 0]
    /\ outcome = [w \in Workers |-> "none"]

-----------------------------------------------------------------------------
(* "Slip*" operators are plausible slips of the definition that follows    *)
(* them; no specification uses them.                                       *)

(* get returns; the worker may call it again.                              *)
Return(w, how) ==
    /\ pc' = [pc EXCEPT ![w] = "idle"]
    /\ using' = [using EXCEPT ![w] = 0]
    /\ usingGen' = [usingGen EXCEPT ![w] = 0]
    /\ attempt' = [attempt EXCEPT ![w] = 0]
    /\ outcome' = [outcome EXCEPT ![w] = how]

Begin(w) ==
    /\ pc[w] = "idle"
    /\ pc' = [pc EXCEPT ![w] = "session"]
    /\ outcome' = [outcome EXCEPT ![w] = "none"]
    /\ UNCHANGED <<serverVars, clientVars, using, usingGen, attempt>>

(* session found or obtained token t of generation g.                      *)
Take(w, t, g) ==
    /\ pc' = [pc EXCEPT ![w] = "request"]
    /\ using' = [using EXCEPT ![w] = t]
    /\ usingGen' = [usingGen EXCEPT ![w] = g]
    /\ UNCHANGED <<attempt, outcome>>

MutexFree == holder = {}

(* session: under the mutex, use the cached token or keep the mutex and    *)
(* log in.                                                                 *)
Session(w) ==
    /\ pc[w] = "session" /\ MutexFree
    /\ \/ /\ token # 0
          /\ Take(w, token, gen)
          /\ UNCHANGED holder
       \/ /\ token = 0
          /\ holder' = {w}
          /\ pc' = [pc EXCEPT ![w] = "login"]
          /\ UNCHANGED <<using, usingGen, attempt, outcome>>
    /\ UNCHANGED <<serverVars, token, gen>>

Issue ==
    /\ issued < MaxTokens
    /\ issued' = issued + 1
    /\ valid' = valid \cup {issued + 1}

Generation == gen + 1

SlipRelease(gotToken) == holder' = IF gotToken THEN {} ELSE holder

(* The deferred Unlock runs whether or not the login succeeded.            *)
Release(gotToken) == holder' = {}

(* login returns and the mutex is released: a new token and generation; an *)
(* error, permanent when the credentials are refused; or an error after    *)
(* REEN has issued a token the client never sees.                          *)
Login(w) ==
    /\ pc[w] = "login"
    /\ \/ /\ Release(TRUE)
          /\ Issue /\ UNCHANGED lost
          /\ token' = issued' /\ gen' = Generation
          /\ Take(w, token', gen')
       \/ /\ Release(FALSE)
          /\ \/ UNCHANGED serverVars
             \/ Issue /\ lost' = lost \cup {issued'}
          /\ \E how \in {"transient", "permanent"} : Return(w, how)
          /\ UNCHANGED <<token, gen>>

(* A 401 is retried once.                                                  *)
Retries(w) == attempt[w] = 0

(* do, then the status: REEN answers 401 to a token it no longer accepts.  *)
Request(w) ==
    /\ pc[w] = "request"
    /\ \/ /\ using[w] \notin valid /\ Retries(w)
          /\ pc' = [pc EXCEPT ![w] = "invalidate"]
          /\ UNCHANGED <<using, usingGen, attempt, outcome>>
       \/ /\ using[w] \notin valid /\ ~Retries(w)
          /\ Return(w, "permanent")
       \/ /\ using[w] \in valid
          /\ \E how \in {"ok", "permanent"} : Return(w, how)
       \/ Return(w, "transient")
    /\ UNCHANGED <<serverVars, clientVars>>

SlipStillOurs(w) == TRUE

(* The cached token is still the one w's request was made with.            *)
StillOurs(w) == gen = usingGen[w]

(* invalidate, then the second attempt.                                    *)
Invalidate(w) ==
    /\ pc[w] = "invalidate" /\ MutexFree
    /\ token' = IF StillOurs(w) THEN 0 ELSE token
    /\ pc' = [pc EXCEPT ![w] = "session"]
    /\ using' = [using EXCEPT ![w] = 0]
    /\ usingGen' = [usingGen EXCEPT ![w] = 0]
    /\ attempt' = [attempt EXCEPT ![w] = @ + 1]
    /\ UNCHANGED <<serverVars, gen, holder, outcome>>

Locked(w) == Session(w) \/ Invalidate(w)

Work(w) == Begin(w) \/ Locked(w) \/ Login(w) \/ Request(w)

(* REEN stops accepting a token.                                           *)
Expire ==
    /\ \E t \in valid : valid' = valid \ {t}
    /\ UNCHANGED <<issued, lost, clientVars, workerVars>>

Next == (\E w \in Workers : Work(w)) \/ Expire

Spec == Init /\ [][Next]_vars

(* Goroutines run and requests return or time out (the http.Client has a   *)
(* timeout).  A goroutine waiting for the mutex gets it although others    *)
(* keep taking it: sync.Mutex hands itself to a waiter that has starved    *)
(* for a millisecond.                                                      *)
FairSpec == Spec /\ \A w \in Workers :
                       /\ WF_vars(Begin(w) \/ Login(w) \/ Request(w))
                       /\ SF_vars(Locked(w))

-----------------------------------------------------------------------------
TypeOK ==
    /\ issued \in 0..MaxTokens
    /\ valid \in SUBSET (1..issued) /\ lost \in SUBSET (1..issued)
    /\ token \in 0..issued /\ gen \in 0..issued /\ holder \in SUBSET Workers
    /\ pc \in [Workers -> {"idle", "session", "login", "request", "invalidate"}]
    /\ using \in [Workers -> 0..issued] /\ usingGen \in [Workers -> 0..issued]
    /\ attempt \in [Workers -> 0..1]
    /\ outcome \in [Workers -> {"none", "ok", "transient", "permanent"}]

(* No working session is thrown away: however many goroutines come back    *)
(* with 401s for an old token, and in whatever order, the client only logs *)
(* in again when the token it holds is dead, so REEN never keeps a live    *)
(* session the client has forgotten (client.go:57-60, 133-134).            *)
NoLiveTokenDropped == valid \ lost \subseteq {token}

(* The generation names the token: a worker whose generation is current    *)
(* made its request with the cached token, if there is one.                *)
GenerationNamesToken ==
    \A w \in Workers :
        (pc[w] \in {"request", "invalidate"} /\ usingGen[w] = gen /\ token # 0)
            => using[w] = token

(* A goroutine inside get always comes back: no deadlock on the mutex held *)
(* over the login, no endless re-login.                                    *)
GetReturns == \A w \in Workers : pc[w] = "session" ~> pc[w] = "idle"

-----------------------------------------------------------------------------
(* The inductive strengthening.                                            *)

(* The mutex is held exactly by the worker that is logging in, and only    *)
(* while there is no token.                                                *)
LoginHoldsMutex ==
    /\ \A w \in Workers : pc[w] = "login" <=> w \in holder
    /\ \A v, w \in holder : v = w
    /\ holder # {} => token = 0

(* Generations count the tokens the client received; a worker never knows  *)
(* a later one than the client.  What is about to be invalidated is dead,  *)
(* and only a first attempt gets there.                                    *)
Generations ==
    /\ \A w \in Workers : usingGen[w] <= gen
    /\ \A w \in Workers : pc[w] = "invalidate" => using[w] \notin valid /\ attempt[w] = 0

IInv == NoLiveTokenDropped /\ GenerationNamesToken /\ LoginHoldsMutex /\ Generations
=============================================================================
