----------------------- MODULE CollaborallReaderProofs -----------------------
(***************************************************************************)
(* Proofs about CollaborallReader, for any streams, rows, windows, page    *)
(* and chunk sizes.                                                        *)
(***************************************************************************)
EXTENDS CollaborallReader, FiniteSetTheorems, TLAPS

-----------------------------------------------------------------------------
(* Type correctness.                                                       *)

LEMMA InitTyped == Init => TypeOK
<1> SUFFICES ASSUME Init PROVE TypeOK
  OBVIOUS
<1>1. calm \in BOOLEAN
  BY DEF Init
<1>2. 0 \in 0..MaxTime /\ 1 \in Times
  BY ConstantsAssumption DEF Times
<1> QED BY <1>1, <1>2 DEF Init, TypeOK

LEMMA PageTyped ==
    ASSUME NEW s \in Streams
    PROVE  Page(s) \subseteq Times /\ Usable(s) \subseteq Page(s)
  BY DEF Page, Usable

LEMMA NextStreamTyped ==
    ASSUME TypeOK, NextStream
    PROVE  /\ pc' \in {"idle", "stream"} /\ left' \subseteq Streams
           /\ st' = {} /\ obs' = {} /\ todo' = {}
  BY DEF NextStream, TypeOK

LEMMA TypeStep == TypeOK /\ [Next]_vars => TypeOK'
<1> SUFFICES ASSUME TypeOK, [Next]_vars PROVE TypeOK'
  OBVIOUS
<1> USE ConstantsAssumption
<1> USE DEF sourceVars, cycleVars, resultVars
<1> DEFINE CycleTyped ==
      /\ pc' \in {"idle", "stream", "post", "advance"}
      /\ left' \in SUBSET Streams /\ st' \in SUBSET Streams
      /\ obs' \in SUBSET Times /\ todo' \in SUBSET obs'
<1>n. NextStream => CycleTyped
  BY NextStreamTyped
<1>1. CASE Discover
  BY <1>1 DEF Discover, TypeOK
<1>2. ASSUME NEW s \in Streams, Fetch(s) PROVE TypeOK'
  <2>1. CycleTyped
    BY <1>2, PageTyped DEF Fetch, Skip, TypeOK
  <2>2. fetched' \subseteq Streams \X Times /\ aged' \subseteq Streams \X Times
    BY <1>2, PageTyped DEF Fetch, TypeOK
  <2> QED BY <1>2, <2>1, <2>2 DEF Fetch, TypeOK
<1>3. ASSUME NEW s \in Streams, Post(s) PROVE TypeOK'
  <2>1. PICK c \in SUBSET todo :
          \/ /\ delivered' = delivered \cup ({s} \X (c \ InFuture(c)))
             /\ refused' = refused \cup ({s} \X InFuture(c))
             /\ todo' = todo \ c
             /\ pc' = IF c = todo THEN "advance" ELSE "post"
             /\ UNCHANGED <<left, st, obs>>
          \/ /\ NextStream /\ UNCHANGED refused
             /\ \E part \in SUBSET (c \ InFuture(c)) :
                   delivered' = delivered \cup ({s} \X part)
          \/ NextStream /\ UNCHANGED <<delivered, refused>>
    BY <1>3 DEF Post, PostFails
  <2>2. c \subseteq Times /\ InFuture(c) \subseteq c
    BY DEF TypeOK, InFuture
  <2>3. CycleTyped
    BY <1>n, <2>1 DEF TypeOK
  <2>4. delivered' \subseteq Streams \X Times /\ refused' \subseteq Streams \X Times
    BY <2>1, <2>2 DEF TypeOK
  <2> QED BY <1>3, <2>3, <2>4 DEF Post, TypeOK
<1>4. ASSUME NEW s \in Streams, Advance(s) PROVE TypeOK'
  <2>1. CycleTyped
    BY <1>n, <1>4 DEF Advance
  <2>2. mem' \in [Streams -> 0..MaxTime]
    BY <1>4 DEF Advance, TypeOK, Times
  <2>3. file' \in [Streams -> 0..MaxTime]
    BY <1>4, <2>2 DEF Advance, Persisted, TypeOK
  <2> QED BY <1>4, <2>1, <2>2, <2>3 DEF Advance, TypeOK
<1>5. CASE Restart
  BY <1>5 DEF Restart, TypeOK
<1>6. ASSUME NEW s \in Streams, NEW t \in Times, NEW kind \in Kinds, Publish(s, t, kind)
      PROVE  TypeOK'
  BY <1>6 DEF Publish, TypeOK
<1>7. CASE Tick
  BY <1>7 DEF Tick, TypeOK, Times
<1>8. CASE CalmDown
  BY <1>8 DEF CalmDown, TypeOK
<1>9. CASE UNCHANGED vars
  BY <1>9 DEF vars, TypeOK
<1> QED BY <1>1, <1>2, <1>3, <1>4, <1>5, <1>6, <1>7, <1>8, <1>9
        DEF Next, RunOnce, StreamStep

(* Cursors, pages and what is known of the readings keep to their types.   *)
THEOREM TypeCorrect == Spec => []TypeOK
  BY InitTyped, TypeStep, PTL DEF Spec
-----------------------------------------------------------------------------
(* Facts about pages.                                                      *)

(* A page leaves no row of the window out below one that it has.           *)
LEMMA PageIsAPrefix ==
    ASSUME TypeOK, NEW s \in Streams, NEW u \in Page(s), NEW t \in Times,
           t < u, Since(s) < t, row[s][t] # "none"
    PROVE  t \in Page(s)
<1> DEFINE rows == {x \in Times : row[s][x] # "none" /\ x > Since(s)}
           older(x) == {y \in rows : y < x}
<1>1. IsFiniteSet(Times)
  BY FS_Interval, ConstantsAssumption DEF Times
<1>2. IsFiniteSet(older(u)) /\ older(u) \subseteq Times
  BY <1>1, FS_Subset
<1>3. older(t) \subseteq older(u)
  BY ConstantsAssumption DEF Page, Times
<1>4. Cardinality(older(t)) <= Cardinality(older(u))
      /\ Cardinality(older(t)) \in Nat /\ Cardinality(older(u)) \in Nat
  BY <1>2, <1>3, FS_Subset, FS_CardinalityType
<1>5. Cardinality(older(u)) < PageLimit
  BY DEF Page
<1>6. t \in rows
  BY DEF TypeOK, Since, Times
<1> QED BY <1>4, <1>5, <1>6, ConstantsAssumption DEF Page

LEMMA CursorsTyped ==
    ASSUME TypeOK, NEW s \in Streams
    PROVE  mem[s] \in Nat /\ file[s] \in Nat
<1>1. mem \in [Streams -> 0..MaxTime] /\ file \in [Streams -> 0..MaxTime]
  BY DEF TypeOK
<1> QED BY <1>1, ConstantsAssumption

LEMMA SinceTyped ==
    ASSUME TypeOK, NEW s \in Streams
    PROVE  Since(s) \in Nat /\ (mem[s] # 0 => Since(s) = mem[s])
  BY ConstantsAssumption DEF Since, TypeOK, Times

-----------------------------------------------------------------------------
(* The inductive invariant.                                                *)

LEMMA InitIInv == Init => IInv
  BY DEF Init, IInv, PageHasStream, SentIsSettled, FetchedStays, PageHasNoGap,
         CursorWasFetched, FileIsAPast, CursorIsBacked

(* Steps that touch neither cursors nor results keep what concerns them.   *)
LEMMA CursorsKept ==
    ASSUME IInv, UNCHANGED <<mem, file, fetched, aged>>,
           delivered \cup refused \subseteq delivered' \cup refused'
    PROVE  CursorWasFetched' /\ FileIsAPast' /\ CursorIsBacked'
  BY DEF IInv, CursorWasFetched, FileIsAPast, CursorIsBacked

LEMMA EmptyHanded ==
    ASSUME pc' \in {"idle", "stream"}, st' = {}, obs' = {}, todo' = {}
    PROVE  PageHasStream' /\ SentIsSettled' /\ PageHasNoGap'
  BY DEF PageHasStream, SentIsSettled, PageHasNoGap

LEMMA FetchStep ==
    ASSUME TypeOK, IInv, NEW s \in Streams, Fetch(s)
    PROVE  IInv'
<1> USE DEF sourceVars, cycleVars, resultVars
<1>0. /\ pc = "stream" /\ st = {} /\ obs = {} /\ todo = {}
      /\ UNCHANGED <<row, now, mem, file, delivered, refused>>
      /\ fetched \subseteq fetched' /\ aged \subseteq aged'
  BY DEF Fetch, IInv, PageHasStream
<1>1. CASE /\ Usable(s) # {} /\ pc' = "post" /\ st' = {s} /\ obs' = Usable(s)
           /\ todo' = Usable(s) /\ fetched' = fetched \cup ({s} \X Usable(s))
  <2>1. PageHasStream' /\ SentIsSettled'
    BY <1>1 DEF PageHasStream, SentIsSettled
  <2>2. \A t \in Usable(s) : t \in Times /\ t > Since(s) /\ row[s][t] \in {"good", "big"}
    BY DEF Usable, Page, TypeOK, Kinds
  <2>3. FetchedStays'
    BY <1>0, <1>1, <2>2 DEF IInv, FetchedStays
  <2>4. PageHasNoGap'
    <3> SUFFICES ASSUME NEW p \in fetched' \ aged', p[1] = s, mem[s] < p[2],
                        NEW t \in Usable(s), p[2] <= t
                 PROVE  p[2] \in Usable(s)
      BY <1>0, <1>1 DEF PageHasNoGap
    <3>1. CASE p \in {s} \X Usable(s)
      BY <3>1
    <3>2. CASE p \in fetched
      <4>1. p[2] \in Times /\ row[s][p[2]] \in {"good", "big"}
        BY <3>2 DEF TypeOK, IInv, FetchedStays
      <4>2. ~(p[2] <= Since(s))
        BY <3>2 DEF Fetch
      <4>3. p[2] \in Page(s)
        BY <2>2, <4>1, <4>2, PageIsAPrefix, PageTyped, SinceTyped DEF Times
      <4> QED BY <4>1, <4>3 DEF Usable
    <3> QED BY <1>1, <3>1, <3>2
  <2>5. CursorWasFetched' /\ FileIsAPast'
    BY <1>0 DEF IInv, CursorWasFetched, FileIsAPast
  <2>6. CursorIsBacked'
    <3> SUFFICES ASSUME NEW p \in fetched' \ aged', p[2] <= mem[p[1]] \/ p[2] <= file[p[1]]
                 PROVE  p \in delivered \cup refused
      BY <1>0 DEF CursorIsBacked
    <3>1. CASE p \in fetched
      BY <1>0, <3>1 DEF IInv, CursorIsBacked
    <3>2. CASE p \in {s} \X Usable(s)
      <4>1. file[s] <= mem[s] /\ mem[s] \in Nat /\ file[s] \in Nat
        BY CursorsTyped DEF IInv, FileIsAPast
      <4>2. p[2] \in Times /\ p[2] > Since(s) /\ p[1] = s
        BY <2>2, <3>2
      <4>3. mem[s] <= Since(s)
        BY <4>1, SinceTyped
      <4> QED BY <4>1, <4>2, <4>3, SinceTyped DEF Times
    <3> QED BY <1>1, <3>1, <3>2
  <2> QED BY <2>1, <2>3, <2>4, <2>5, <2>6 DEF IInv
<1>2. CASE Skip(s) /\ UNCHANGED fetched
  <2>1. PageHasStream' /\ SentIsSettled' /\ PageHasNoGap'
    BY <1>0, <1>2, EmptyHanded DEF Skip
  <2>2. FetchedStays' /\ CursorWasFetched' /\ FileIsAPast' /\ CursorIsBacked'
    BY <1>0, <1>2 DEF IInv, FetchedStays, CursorWasFetched, FileIsAPast, CursorIsBacked
  <2> QED BY <2>1, <2>2 DEF IInv
<1> QED BY <1>1, <1>2 DEF Fetch

LEMMA PostStep ==
    ASSUME TypeOK, IInv, NEW s \in Streams, Post(s)
    PROVE  IInv'
<1> USE DEF sourceVars, cycleVars, resultVars
<1>0. /\ pc = "post" /\ st = {s} /\ UNCHANGED <<row, mem, file, fetched, aged>>
      /\ delivered \cup refused \subseteq delivered' \cup refused'
  BY DEF Post, IInv, PageHasStream
<1>1. FetchedStays' /\ CursorWasFetched' /\ FileIsAPast' /\ CursorIsBacked'
  BY <1>0, CursorsKept DEF IInv, FetchedStays
<1>2. CASE NextStream
  BY <1>1, <1>2, EmptyHanded, NextStreamTyped DEF IInv
<1>3. ASSUME NEW c \in SUBSET todo,
             delivered' = delivered \cup ({s} \X (c \ InFuture(c))),
             refused' = refused \cup ({s} \X InFuture(c)),
             todo' = todo \ c, pc' = IF c = todo THEN "advance" ELSE "post",
             UNCHANGED <<left, st, obs>>
      PROVE  IInv'
  <2>1. PageHasStream'
    BY <1>0, <1>3 DEF IInv, PageHasStream
  <2>2. SentIsSettled'
    BY <1>0, <1>3 DEF IInv, SentIsSettled, InFuture
  <2>3. PageHasNoGap'
    BY <1>0, <1>3 DEF IInv, PageHasNoGap
  <2> QED BY <1>1, <2>1, <2>2, <2>3 DEF IInv
<1> QED BY <1>2, <1>3 DEF Post, PostFails

LEMMA AdvanceStep ==
    ASSUME TypeOK, IInv, NEW s \in Streams, Advance(s)
    PROVE  IInv'
<1> USE DEF sourceVars, cycleVars, resultVars
<1>0. /\ pc = "advance" /\ st = {s} /\ todo = {} /\ NextStream
      /\ UNCHANGED <<row, delivered, refused, fetched, aged>>
  BY DEF Advance, IInv, PageHasStream
<1>1. PICK m \in obs : (\A t \in obs : t <= m)
                       /\ mem' = [mem EXCEPT ![s] = IF @ < m THEN m ELSE @]
  BY DEF Advance
<1>2. file' = file \/ file' = mem'
  BY DEF Advance, Persisted
<1>3. m \in Times /\ mem \in [Streams -> 0..MaxTime] /\ file \in [Streams -> 0..MaxTime]
  BY DEF TypeOK
<1>4. \A x \in Streams : mem[x] <= mem'[x] /\ (x # s => mem'[x] = mem[x])
  BY <1>1, <1>3, ConstantsAssumption DEF Times
<1>5. mem'[s] = (IF mem[s] < m THEN m ELSE mem[s])
  BY <1>1, <1>3
<1>6. PageHasStream' /\ SentIsSettled' /\ PageHasNoGap' /\ FetchedStays'
  BY <1>0, EmptyHanded, NextStreamTyped DEF IInv, FetchedStays
<1>7. CursorWasFetched'
  <2>1. <<s, m>> \in fetched
    BY <1>0 DEF IInv, SentIsSettled
  <2> QED BY <1>0, <1>4, <1>5, <2>1 DEF IInv, CursorWasFetched
<1>8. FileIsAPast'
  <2>1. ASSUME NEW x \in Streams
        PROVE  /\ mem[x] \in Nat /\ mem'[x] \in Nat /\ file[x] \in Nat /\ file[x] <= mem[x]
               /\ file[x] # 0 => <<x, file[x]>> \in fetched
    <3>1. m \in Nat
      BY <1>3, ConstantsAssumption DEF Times
    <3> QED BY <1>4, <1>5, <3>1, CursorsTyped DEF IInv, FileIsAPast
  <2>2. CASE file' = mem'
    <3>1. \A x \in Streams : file'[x] <= mem'[x]
      <4> SUFFICES ASSUME NEW x \in Streams PROVE file'[x] <= mem'[x]
        OBVIOUS
      <4>1. mem'[x] \in Nat
        BY <2>1
      <4> QED BY <2>2, <4>1
    <3> QED BY <1>7, <2>2, <3>1 DEF FileIsAPast, CursorWasFetched
  <2>3. CASE file' = file
    <3>1. \A x \in Streams : file'[x] <= mem'[x]
      <4> SUFFICES ASSUME NEW x \in Streams PROVE file'[x] <= mem'[x]
        OBVIOUS
      <4>1. mem[x] \in Nat /\ mem'[x] \in Nat /\ file[x] \in Nat /\ file[x] <= mem[x]
        BY <2>1
      <4> QED BY <1>4, <2>3, <4>1
    <3> QED BY <1>0, <2>1, <2>3, <3>1 DEF FileIsAPast
  <2> QED BY <1>2, <2>2, <2>3
<1>9. \A p \in fetched \ aged : p[2] <= mem'[p[1]] => p \in delivered \cup refused
  <2> SUFFICES ASSUME NEW p \in fetched \ aged, p[2] <= mem'[p[1]]
               PROVE  p \in delivered \cup refused
    OBVIOUS
  <2>0. p[1] \in Streams /\ p[2] \in Times /\ p = <<p[1], p[2]>>
    BY DEF TypeOK
  <2>1. CASE p[2] <= mem[p[1]]
    BY <2>1 DEF IInv, CursorIsBacked
  <2>2. CASE ~(p[2] <= mem[p[1]])
    <3>1. p[1] = s /\ p[2] <= m /\ mem[s] < p[2]
      BY <1>3, <1>4, <1>5, <2>0, <2>2, ConstantsAssumption DEF Times
    <3>2. p[2] \in obs
      BY <1>0, <3>1 DEF IInv, PageHasNoGap
    <3> QED BY <1>0, <2>0, <3>1, <3>2 DEF IInv, SentIsSettled
  <2> QED BY <2>1, <2>2
<1>10. CursorIsBacked'
  <2> SUFFICES ASSUME NEW p \in fetched \ aged, p[2] <= mem'[p[1]] \/ p[2] <= file'[p[1]]
               PROVE  p \in delivered \cup refused
    BY <1>0 DEF CursorIsBacked
  <2>1. p[1] \in Streams /\ p[2] \in Times
    BY DEF TypeOK
  <2>2. CASE file' = file /\ p[2] <= file[p[1]]
    BY <2>2 DEF IInv, CursorIsBacked
  <2> QED BY <1>2, <1>9, <2>2
<1> QED BY <1>6, <1>7, <1>8, <1>10 DEF IInv

LEMMA InvStep == TypeOK /\ IInv /\ [Next]_vars => IInv'
<1> SUFFICES ASSUME TypeOK, IInv, [Next]_vars PROVE IInv'
  OBVIOUS
<1> USE DEF sourceVars, cycleVars, resultVars
<1>1. CASE Discover
  <2>1. pc' \in {"idle", "stream"} /\ st' = {} /\ obs' = {} /\ todo' = {}
    BY <1>1 DEF Discover, IInv, PageHasStream
  <2>2. FetchedStays' /\ CursorWasFetched' /\ FileIsAPast' /\ CursorIsBacked'
    BY <1>1, CursorsKept DEF Discover, IInv, FetchedStays
  <2> QED BY <2>1, <2>2, EmptyHanded DEF IInv
<1>2. ASSUME NEW s \in Streams, StreamStep(s) PROVE IInv'
  BY <1>2, FetchStep, PostStep, AdvanceStep DEF StreamStep
<1>3. CASE Restart
  <2>1. PageHasStream' /\ SentIsSettled' /\ PageHasNoGap' /\ FetchedStays'
    BY <1>3, EmptyHanded DEF Restart, IInv, FetchedStays
  <2>2. CursorWasFetched' /\ FileIsAPast'
    BY <1>3, ConstantsAssumption DEF Restart, IInv, CursorWasFetched, FileIsAPast, TypeOK
  <2>3. CursorIsBacked'
    BY <1>3 DEF Restart, IInv, CursorIsBacked
  <2> QED BY <2>1, <2>2, <2>3 DEF IInv
<1>4. ASSUME NEW s \in Streams, NEW t \in Times, NEW kind \in Kinds, Publish(s, t, kind)
      PROVE  IInv'
  <2>1. FetchedStays'
    <3>1. \A p \in fetched : p # <<s, t>> /\ p = <<p[1], p[2]>>
      BY <1>4 DEF Publish, IInv, FetchedStays, TypeOK
    <3>2. \A p \in fetched : row'[p[1]][p[2]] = row[p[1]][p[2]]
      BY <1>4, <3>1 DEF Publish, TypeOK
    <3> QED BY <1>4, <3>2 DEF Publish, IInv, FetchedStays
  <2>2. PageHasStream' /\ SentIsSettled' /\ PageHasNoGap'
    BY <1>4 DEF Publish, IInv, PageHasStream, SentIsSettled, PageHasNoGap
  <2> QED BY <1>4, <2>1, <2>2, CursorsKept DEF Publish, IInv
<1>5. CASE Tick \/ CalmDown \/ UNCHANGED vars
  <2>1. UNCHANGED <<row, mem, file, cycleVars, resultVars>>
    BY <1>5 DEF Tick, CalmDown, vars
  <2>2. PageHasStream' /\ SentIsSettled' /\ PageHasNoGap' /\ FetchedStays'
    BY <2>1 DEF IInv, PageHasStream, SentIsSettled, PageHasNoGap, FetchedStays
  <2> QED BY <2>1, <2>2, CursorsKept DEF IInv
<1> QED BY <1>1, <1>2, <1>3, <1>4, <1>5 DEF Next, RunOnce

(* Page, cursors and readings fit together in every reachable state.       *)
THEOREM InductiveInvariant == Spec => []IInv
  BY InitIInv, InvStep, TypeCorrect, PTL DEF Spec

(* Neither cursor, in memory or on disk, passes a fetched reading that the *)
(* service has not taken in or rejected.                                   *)
THEOREM CursorRule == Spec => []CursorIsBacked
<1>1. IInv => CursorIsBacked
  BY DEF IInv
<1> QED BY <1>1, InductiveInvariant, PTL

(* A restart resumes from a past of the cursors.                           *)
THEOREM FileIsSafe == Spec => []FileIsAPast
<1>1. IInv => FileIsAPast
  BY DEF IInv
<1> QED BY <1>1, InductiveInvariant, PTL
=============================================================================
