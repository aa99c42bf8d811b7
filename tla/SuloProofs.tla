----------------------------- MODULE SuloProofs -----------------------------
(***************************************************************************)
(* Proofs about SuloSession, for any set of workers and number of tokens,  *)
(* and about SuloFetch, for any list, page size, page cap and limits.      *)
(***************************************************************************)
EXTENDS SuloFetch, SequenceTheorems, TLAPS

LEMMA InitIInv == Init => TypeOK /\ IInv
  BY TokensAssumption DEF Init, TypeOK, IInv, NoLiveTokenDropped,
     GenerationNamesToken, LoginHoldsMutex, Generations

(* gen never exceeds the number of issued tokens: each success issues one. *)
LEMMA TypeStep == TypeOK /\ IInv /\ [Next]_vars => TypeOK'
<1> SUFFICES ASSUME TypeOK, IInv, [Next]_vars PROVE TypeOK'
  OBVIOUS
<1> USE TokensAssumption
<1> USE DEF serverVars, clientVars, workerVars
<1>1. ASSUME NEW w \in Workers, Begin(w) PROVE TypeOK'
  BY <1>1 DEF Begin, TypeOK
<1>2. ASSUME NEW w \in Workers, Session(w) PROVE TypeOK'
  BY <1>2 DEF Session, Take, TypeOK
<1>3. ASSUME NEW w \in Workers, Login(w) PROVE TypeOK'
  <2>1. CASE Issue /\ UNCHANGED lost /\ token' = issued' /\ gen' = Generation
             /\ Take(w, token', gen') /\ Release(TRUE)
    BY <2>1 DEF Issue, Generation, Take, Release, TypeOK
  <2>2. CASE UNCHANGED <<issued, valid, lost, token, gen>> /\ Release(FALSE)
             /\ \E how \in {"transient", "permanent"} : Return(w, how)
    BY <2>2 DEF Return, Release, TypeOK
  <2>3. CASE Issue /\ lost' = lost \cup {issued'} /\ UNCHANGED <<token, gen>>
             /\ Release(FALSE) /\ \E how \in {"transient", "permanent"} : Return(w, how)
    BY <2>3 DEF Issue, Return, Release, TypeOK
  <2> QED BY <1>3, <2>1, <2>2, <2>3 DEF Login
<1>4. ASSUME NEW w \in Workers, Request(w) PROVE TypeOK'
  BY <1>4 DEF Request, Return, TypeOK
<1>5. ASSUME NEW w \in Workers, Invalidate(w) PROVE TypeOK'
  <2>1. attempt[w] = 0
    BY <1>5 DEF Invalidate, IInv, Generations
  <2> QED BY <1>5, <2>1 DEF Invalidate, StillOurs, TypeOK
<1>6. CASE Expire
  BY <1>6 DEF Expire, TypeOK
<1>7. CASE UNCHANGED vars
  BY <1>7 DEF vars, TypeOK
<1> QED BY <1>1, <1>2, <1>3, <1>4, <1>5, <1>6, <1>7 DEF Next, Work, Locked

LEMMA InvStep == TypeOK /\ IInv /\ [Next]_vars => IInv'
<1> SUFFICES ASSUME TypeOK, IInv, [Next]_vars PROVE IInv'
  OBVIOUS
<1> USE TokensAssumption
<1> USE DEF serverVars, clientVars, workerVars, TypeOK, IInv, NoLiveTokenDropped,
            GenerationNamesToken, LoginHoldsMutex, Generations
<1>1. ASSUME NEW w \in Workers, Begin(w) PROVE IInv'
  BY <1>1 DEF Begin
<1>2. ASSUME NEW w \in Workers, Session(w) PROVE IInv'
  <2>1. CASE token # 0 /\ Take(w, token, gen) /\ UNCHANGED holder
    BY <1>2, <2>1 DEF Session, Take, MutexFree
  <2>2. CASE token = 0 /\ holder' = {w} /\ pc' = [pc EXCEPT ![w] = "login"]
             /\ UNCHANGED <<using, usingGen, attempt, outcome>>
    BY <1>2, <2>2 DEF Session, MutexFree
  <2> QED BY <1>2, <2>1, <2>2 DEF Session
<1>3. ASSUME NEW w \in Workers, Login(w) PROVE IInv'
  <2>0. token = 0 /\ holder = {w} /\ pc[w] = "login"
    BY <1>3 DEF Login
  <2>1. CASE Issue /\ UNCHANGED lost /\ token' = issued' /\ gen' = gen + 1
             /\ Take(w, token', gen') /\ holder' = {}
    <3>1. NoLiveTokenDropped'
      BY <2>0, <2>1 DEF Issue
    <3>2. GenerationNamesToken'
      BY <2>0, <2>1 DEF Take, Issue
    <3>3. LoginHoldsMutex'
      BY <2>0, <2>1 DEF Take
    <3>4. Generations'
      BY <2>0, <2>1 DEF Take, Issue
    <3> QED BY <3>1, <3>2, <3>3, <3>4
  <2>2. CASE /\ UNCHANGED serverVars \/ (Issue /\ lost' = lost \cup {issued'})
             /\ \E how \in {"transient", "permanent"} : Return(w, how)
             /\ UNCHANGED <<token, gen>> /\ holder' = {}
    <3>1. NoLiveTokenDropped'
      BY <2>0, <2>2 DEF Issue
    <3>2. GenerationNamesToken' /\ LoginHoldsMutex'
      BY <2>0, <2>2 DEF Return
    <3>3. Generations'
      BY <2>0, <2>2 DEF Return, Issue
    <3> QED BY <3>1, <3>2, <3>3
  <2> QED BY <1>3, <2>1, <2>2 DEF Login, Release, Generation
<1>4. ASSUME NEW w \in Workers, Request(w) PROVE IInv'
  BY <1>4 DEF Request, Return, Retries
<1>5. ASSUME NEW w \in Workers, Invalidate(w) PROVE IInv'
  <2>1. NoLiveTokenDropped'
    BY <1>5 DEF Invalidate, StillOurs
  <2>2. GenerationNamesToken' /\ LoginHoldsMutex' /\ Generations'
    BY <1>5 DEF Invalidate, StillOurs, MutexFree
  <2> QED BY <2>1, <2>2
<1>6. CASE Expire
  BY <1>6 DEF Expire
<1>7. CASE UNCHANGED vars
  BY <1>7 DEF vars
<1> QED BY <1>1, <1>2, <1>3, <1>4, <1>5, <1>6, <1>7 DEF Next, Work, Locked

(* The types and the inductive invariant hold together.                    *)
THEOREM InductiveInvariant == Spec => [](TypeOK /\ IInv)
<1>1. TypeOK /\ IInv /\ [Next]_vars => (TypeOK /\ IInv)'
  BY TypeStep, InvStep
<1> QED BY <1>1, InitIInv, PTL DEF Spec

(* However many goroutines race over a stale token, no live session is     *)
(* ever discarded.                                                         *)
THEOREM LiveSessionKept == Spec => []NoLiveTokenDropped
<1>1. IInv => NoLiveTokenDropped
  BY DEF IInv
<1> QED BY <1>1, InductiveInvariant, PTL

(* A current generation means the cached token.                            *)
THEOREM GenerationIsIdentity == Spec => []GenerationNamesToken
<1>1. IInv => GenerationNamesToken
  BY DEF IInv
<1> QED BY <1>1, InductiveInvariant, PTL
-----------------------------------------------------------------------------
(* Sequences: what InsertAt, RemoveAt and a page of a list hold.           *)

(* z is s with e put in at place i.                                        *)
Inserted(z, S, s, i, e) ==
  /\ z \in Seq(S) /\ Len(z) = Len(s) + 1
  /\ \A k \in 1..(Len(s) + 1) :
        z[k] = IF k < i THEN s[k] ELSE IF k = i THEN e ELSE s[k - 1]

(* z is s without the element at place i.                                  *)
Removed(z, S, s, i) ==
  /\ z \in Seq(S) /\ Len(z) = Len(s) - 1
  /\ \A k \in 1..(Len(s) - 1) : z[k] = IF k < i THEN s[k] ELSE s[k + 1]

LEMMA InsertAtProperties ==
  ASSUME NEW S, NEW s \in Seq(S), NEW i \in 1..(Len(s) + 1), NEW e \in S
  PROVE  Inserted(InsertAt(s, i, e), S, s, i, e)
<1> DEFINE front == SubSeq(s, 1, i - 1)
           back  == SubSeq(s, i, Len(s))
           one   == <<e>>
           head  == front \o one
<1>1. Len(s) \in Nat /\ i \in Int /\ i - 1 \in Int /\ Len(s) \in Int
  BY LenProperties
<1>2. \A k \in 1..Len(s) : s[k] \in S
  BY ElementOfSeq
<1>3. /\ front \in Seq(S) /\ Len(front) = i - 1
      /\ \A k \in 1..(i - 1) : front[k] = s[k]
  <2>1. \A k \in 1..(i - 1) : s[k] \in S
    BY <1>1, <1>2
  <2>2. /\ front \in Seq(S) /\ Len(front) = IF 1 <= i - 1 THEN (i - 1) - 1 + 1 ELSE 0
        /\ \A k \in 1..((i - 1) - 1 + 1) : front[k] = s[1 + k - 1]
    BY <1>1, <2>1, SubSeqProperties
  <2> QED BY <1>1, <2>2
<1>4. /\ back \in Seq(S) /\ Len(back) = Len(s) - i + 1
      /\ \A k \in 1..(Len(s) - i + 1) : back[k] = s[i + k - 1]
  <2>1. \A k \in i..Len(s) : s[k] \in S
    BY <1>1, <1>2
  <2>2. /\ back \in Seq(S) /\ Len(back) = IF i <= Len(s) THEN Len(s) - i + 1 ELSE 0
        /\ \A k \in 1..(Len(s) - i + 1) : back[k] = s[i + k - 1]
    BY <1>1, <2>1, SubSeqProperties
  <2> QED BY <1>1, <2>2
<1>5. one \in Seq(S) /\ Len(one) = 1 /\ one[1] = e
  OBVIOUS
<1> HIDE DEF front, back, one
<1>6. /\ head \in Seq(S) /\ Len(head) = i
      /\ \A k \in 1..i : head[k] = IF k < i THEN s[k] ELSE e
  <2>0. /\ front \o one \in Seq(S) /\ Len(front \o one) = Len(front) + Len(one)
        /\ \A k \in 1..(Len(front) + Len(one)) : (front \o one)[k] =
              IF k <= Len(front) THEN front[k] ELSE one[k - Len(front)]
    BY <1>3, <1>5, ConcatProperties
  <2>1. /\ head \in Seq(S) /\ Len(head) = Len(front) + 1
        /\ \A k \in 1..(Len(front) + 1) : head[k] =
              IF k <= Len(front) THEN front[k] ELSE one[k - Len(front)]
    BY <1>5, <2>0 DEF head
  <2>2. (i - 1) + 1 = i /\ Len(head) = i
    BY <1>1, <1>3, <2>1
  <2>3. ASSUME NEW k \in 1..i PROVE head[k] = IF k < i THEN s[k] ELSE e
    <3>1. CASE k < i
      <4>1. k <= i - 1 /\ k \in 1..(i - 1)
        BY <1>1, <3>1
      <4> QED BY <1>3, <2>1, <2>2, <3>1, <4>1
    <3>2. CASE ~(k < i)
      <4>1. k = i /\ ~(k <= i - 1) /\ k - (i - 1) = 1
        BY <1>1, <2>3, <3>2
      <4>2. head[k] = one[1]
        BY <1>3, <2>1, <2>2, <4>1
      <4> QED BY <1>5, <3>2, <4>2
    <3> QED BY <3>1, <3>2
  <2> QED BY <2>1, <2>2, <2>3
<1> HIDE DEF head
<1>7. /\ head \o back \in Seq(S)
      /\ Len(head \o back) = i + (Len(s) - i + 1)
      /\ \A k \in 1..(i + (Len(s) - i + 1)) : (head \o back)[k] =
            IF k <= i THEN head[k] ELSE back[k - i]
  <2>1. /\ head \o back \in Seq(S)
        /\ Len(head \o back) = Len(head) + Len(back)
        /\ \A k \in 1..(Len(head) + Len(back)) : (head \o back)[k] =
              IF k <= Len(head) THEN head[k]
              ELSE back[k - Len(head)]
    BY <1>4, <1>6, ConcatProperties
  <2> QED BY <1>4, <1>6, <2>1
<1>8. InsertAt(s, i, e) = head \o back
  BY DEF InsertAt, head, one, front, back
<1>9. ASSUME NEW k \in 1..(Len(s) + 1)
      PROVE  (head \o back)[k] =
               IF k < i THEN s[k] ELSE IF k = i THEN e ELSE s[k - 1]
  <2>1. CASE k <= i
    BY <1>1, <1>6, <1>7, <2>1
  <2>2. CASE ~(k <= i)
    <3>1. k - i \in 1..(Len(s) - i + 1) /\ i + (k - i) - 1 = k - 1
      BY <1>1, <2>2
    <3> QED BY <1>1, <1>4, <1>7, <2>2, <3>1
  <2> QED BY <1>1, <1>9, <2>1, <2>2
<1> QED BY <1>1, <1>7, <1>8, <1>9 DEF Inserted

LEMMA RemoveAtProperties ==
  ASSUME NEW S, NEW s \in Seq(S), NEW i \in 1..Len(s)
  PROVE  Removed(RemoveAt(s, i), S, s, i)
<1> DEFINE front == SubSeq(s, 1, i - 1)
           back  == SubSeq(s, i + 1, Len(s))
<1>1. Len(s) \in Nat /\ i \in Int /\ i - 1 \in Int /\ i + 1 \in Int /\ Len(s) \in Int
  BY LenProperties
<1>2. \A k \in 1..Len(s) : s[k] \in S
  BY ElementOfSeq
<1>3. /\ front \in Seq(S) /\ Len(front) = i - 1
      /\ \A k \in 1..(i - 1) : front[k] = s[k]
  <2>1. \A k \in 1..(i - 1) : s[k] \in S
    BY <1>1, <1>2
  <2>2. /\ front \in Seq(S) /\ Len(front) = IF 1 <= i - 1 THEN (i - 1) - 1 + 1 ELSE 0
        /\ \A k \in 1..((i - 1) - 1 + 1) : front[k] = s[1 + k - 1]
    BY <1>1, <2>1, SubSeqProperties
  <2> QED BY <1>1, <2>2
<1>4. /\ back \in Seq(S) /\ Len(back) = Len(s) - i
      /\ \A k \in 1..(Len(s) - i) : back[k] = s[i + k]
  <2>1. \A k \in (i + 1)..Len(s) : s[k] \in S
    BY <1>1, <1>2
  <2>2. /\ back \in Seq(S)
        /\ Len(back) = IF i + 1 <= Len(s) THEN Len(s) - (i + 1) + 1 ELSE 0
        /\ \A k \in 1..(Len(s) - (i + 1) + 1) : back[k] = s[(i + 1) + k - 1]
    BY <1>1, <2>1, SubSeqProperties
  <2>3. \A k \in 1..(Len(s) - i) : (i + 1) + k - 1 = i + k
    BY <1>1
  <2> QED BY <1>1, <2>2, <2>3
<1> HIDE DEF front, back
<1>5. /\ front \o back \in Seq(S) /\ Len(front \o back) = Len(front) + Len(back)
      /\ \A k \in 1..(Len(front) + Len(back)) : (front \o back)[k] =
            IF k <= Len(front) THEN front[k] ELSE back[k - Len(front)]
  BY <1>3, <1>4, ConcatProperties
<1>6. RemoveAt(s, i) = front \o back
  BY DEF RemoveAt, front, back
<1>7. ASSUME NEW k \in 1..(Len(s) - 1)
      PROVE  (front \o back)[k] = IF k < i THEN s[k] ELSE s[k + 1]
  <2>1. CASE k < i
    BY <1>1, <1>3, <1>4, <1>5, <2>1
  <2>2. CASE ~(k < i)
    <3>1. k - (i - 1) \in 1..(Len(s) - i) /\ i + (k - (i - 1)) = k + 1
      BY <1>1, <1>7, <2>2
    <3>2. ~(k <= i - 1) /\ k \in 1..((i - 1) + (Len(s) - i))
      BY <1>1, <1>7, <2>2
    <3>3. (front \o back)[k] = back[k - (i - 1)]
      BY <1>3, <1>4, <1>5, <3>2
    <3> QED BY <1>4, <2>2, <3>1, <3>3
  <2> QED BY <1>1, <2>1, <2>2
<1> QED BY <1>1, <1>3, <1>4, <1>5, <1>6, <1>7 DEF Removed

LEMMA InRange ==
  ASSUME NEW S, NEW s \in Seq(S), NEW r
  PROVE  r \in Range(s) <=> \E k \in 1..Len(s) : s[k] = r
  BY RangeEquality

(* The stretch of n elements behind the first t, cut at the end of s.      *)
LEMMA StretchProperties ==
  ASSUME NEW S, NEW s \in Seq(S), NEW t \in Nat, NEW n \in Nat, NEW last \in Nat,
         last <= Len(s), last <= t + n, last < t + n => last = Len(s),
         NEW page, page = SubSeq(s, t + 1, last)
  PROVE  /\ page \in Seq(S) /\ Len(page) \in 0..n
         /\ \A k \in 1..Len(page) : t + k \in 1..Len(s) /\ page[k] = s[t + k]
         /\ Len(page) < n => Len(s) <= t + Len(page)
<1>1. Len(s) \in Nat
  BY LenProperties
<1>2. last \in Int /\ t + 1 \in Int
  OBVIOUS
<1>5. ASSUME NEW k \in (t + 1)..last PROVE s[k] \in S
  <2>1. k \in 1..Len(s)
    BY <1>1, <1>2, <1>5
  <2> QED BY <2>1, ElementOfSeq
<1>6. /\ page \in Seq(S)
      /\ Len(page) = IF t + 1 <= last THEN last - (t + 1) + 1 ELSE 0
      /\ \A k \in 1..(last - (t + 1) + 1) : page[k] = s[(t + 1) + k - 1]
  BY <1>2, <1>5, SubSeqProperties
<1>7. Len(page) = IF t + 1 <= last THEN last - t ELSE 0
  BY <1>2, <1>6
<1>8. Len(page) \in 0..n
  BY <1>1, <1>2, <1>7
<1>9. Len(page) < n => Len(s) <= t + Len(page)
  BY <1>1, <1>2, <1>7
<1>10. ASSUME NEW k \in 1..Len(page)
       PROVE  t + k \in 1..Len(s) /\ page[k] = s[t + k]
  <2>1. k \in 1..(last - (t + 1) + 1) /\ (t + 1) + k - 1 = t + k
    BY <1>2, <1>7, <1>10
  <2>2. t + k \in 1..Len(s)
    BY <1>1, <1>2, <2>1
  <2> QED BY <1>6, <2>1, <2>2
<1> QED BY <1>6, <1>8, <1>9, <1>10

-----------------------------------------------------------------------------
(* The fetch.                                                              *)

(* Below cap and limit a page asks for at least one row, and for no more   *)
(* than the limit leaves.                                                  *)
LEMMA SizeProperties ==
  ASSUME FetchTypeOK, ~LimitReached
  PROVE  /\ total \in Nat /\ Size \in Nat \ {0}
         /\ max # 0 => total + Size <= max
<1>1. total \in Nat
  BY LenProperties DEF FetchTypeOK
<1>2. max \in Nat /\ PageSize \in Nat \ {0}
  BY FetchAssumption DEF FetchTypeOK
<1> QED BY <1>1, <1>2 DEF Size, LimitReached, FetchTypeOK

(* A page is the stretch of the list behind what was read; it is shorter   *)
(* than asked for only at the end of the list.                             *)
LEMMA PageProperties ==
  ASSUME FetchTypeOK, ~LimitReached
  PROVE  /\ Rows \in Seq(0..MaxRow) /\ Len(Rows) \in 0..Size
         /\ \A k \in 1..Len(Rows) : total + k \in 1..Len(list) /\ Rows[k] = list[total + k]
         /\ Len(Rows) < Size => Len(list) <= total + Len(Rows)
<1> DEFINE S == 0..MaxRow
<1>1. total \in Nat /\ Size \in Nat \ {0}
  BY SizeProperties
<1>2. list \in Seq(S)
  BY DEF FetchTypeOK
<1> HIDE DEF S
<1>3. Len(list) \in Nat
  BY <1>2, LenProperties
<1>4. PICK last \in Nat :
         /\ last <= Len(list) /\ last <= total + Size
         /\ last < total + Size => last = Len(list)
         /\ Rows = SubSeq(list, total + 1, last)
  <2>1. CASE total + Size < Len(list)
    BY <1>1, <2>1 DEF Rows, Offset
  <2>2. CASE ~(total + Size < Len(list))
    BY <1>1, <1>3, <2>2 DEF Rows, Offset
  <2> QED BY <2>1, <2>2
<1>5. /\ Rows \in Seq(S) /\ Len(Rows) \in 0..Size
      /\ \A k \in 1..Len(Rows) : total + k \in 1..Len(list) /\ Rows[k] = list[total + k]
      /\ Len(Rows) < Size => Len(list) <= total + Len(Rows)
  BY <1>1, <1>2, <1>4, StretchProperties
<1> QED BY <1>5 DEF S

LEMMA RowsAreNumbers ==
  ASSUME NEW s \in Seq(0..MaxRow)
  PROVE  /\ Len(s) \in Nat /\ DOMAIN s = 1..Len(s)
         /\ \A k \in 1..Len(s) : s[k] \in Range(s)
         /\ Range(s) \subseteq 0..MaxRow /\ Range(s) \subseteq Nat
<1> DEFINE S == 0..MaxRow
<1>1. s \in Seq(S) /\ S \subseteq Nat
  BY FetchAssumption
<1> HIDE DEF S
<1>2. Len(s) \in Nat /\ DOMAIN s = 1..Len(s) /\ Range(s) \in SUBSET S
  BY <1>1, LenProperties, RangeOfSeq
<1>3. \A k \in 1..Len(s) : s[k] \in Range(s)
  BY <1>1, InRange
<1>4. Range(s) \subseteq S /\ Range(s) \subseteq Nat
  BY <1>1, <1>2
<1> QED BY <1>2, <1>3, <1>4 DEF S

LEMMA FetchInitInv == FetchInit => FetchTypeOK /\ FetchIInv
<1> SUFFICES ASSUME FetchInit PROVE FetchTypeOK /\ FetchIInv
  OBVIOUS
<1>1. TypeOK /\ IInv
  BY InitIInv DEF FetchInit
<1>2. list \in Seq(0..MaxRow) /\ \A i, j \in DOMAIN list : list[i] = list[j] => i = j
  BY FetchAssumption DEF FetchInit
<1>3. Range(list) \subseteq 0..MaxRow
  BY <1>2, RowsAreNumbers
<1>4. added \in 0..MaxRow /\ \A r \in Range(list) : r <= added
  BY <1>3, FetchAssumption DEF FetchInit
<1>5. got = <<>> /\ Range(got) = {} /\ Len(got) = 0 /\ got \in Seq(0..MaxRow)
  BY DEF FetchInit, Range
<1>6. FetchTypeOK
  <2>1. shrunk \in BOOLEAN /\ grown \in BOOLEAN /\ stable \subseteq 0..MaxRow
    BY DEF FetchInit
  <2>2. fetch \in {"idle", "paging", "complete", "limited", "capped", "failed"}
    BY DEF FetchInit
  <2>3. max \in RowLimits \cup {0} /\ max = 0 /\ pages \in 0..MaxPages /\ total = Len(got)
    BY <1>5, FetchAssumption DEF FetchInit
  <2> QED BY <1>1, <1>2, <1>4, <1>5, <2>1, <2>2, <2>3 DEF FetchTypeOK
<1>7. RequestHasRoom
  BY <1>5, FetchAssumption DEF FetchInit, Init, RequestHasRoom
<1>8. RowsAreDistinct
  BY <1>2, <1>4, <1>5 DEF FetchInit, RowsAreDistinct
<1>9. ReadIsReturned /\ NewestComeFirst /\ CompleteIsAll /\ UnreadIsNew
  BY <1>5 DEF FetchInit, ReadIsReturned, NewestComeFirst, CompleteIsAll, UnreadIsNew
<1>10. RepeatsNeedAnInsertion
  BY <1>5 DEF RepeatsNeedAnInsertion
<1> QED BY <1>1, <1>6, <1>7, <1>8, <1>9, <1>10 DEF FetchIInv, PagingInvariant

(* Every step of the fetch is a step of the session, or leaves it alone.   *)
LEMMA SessionStep == [FetchNext]_allVars => [Next]_vars
<1> SUFFICES ASSUME [FetchNext]_allVars PROVE Next \/ UNCHANGED vars
  BY DEF vars
<1>1. CASE StartFetch
  BY <1>1 DEF StartFetch
<1>2. CASE NextPage
  BY <1>2, FetchAssumption DEF NextPage, Next, Work
<1>3. CASE FetcherGets
  BY <1>3, FetchAssumption DEF FetcherGets, Next, Work
<1>4. CASE OthersGet
  BY <1>4 DEF OthersGet, Next
<1>5. CASE Expire
  BY <1>5 DEF Next
<1>6. CASE RowAdded \/ RowGone
  BY <1>6 DEF RowAdded, RowGone
<1>7. CASE UNCHANGED allVars
  BY <1>7 DEF allVars
<1> QED BY <1>1, <1>2, <1>3, <1>4, <1>5, <1>6, <1>7 DEF FetchNext

(* A row comes or goes: every other row of the new list has an old place,  *)
(* and the order of the places is the same.                                *)
LEMMA RowsMove ==
  ASSUME FetchTypeOK, PagingInvariant, fetch = "paging",
         list' \in Seq(0..MaxRow), added' \in Nat, added <= added',
         UNCHANGED <<fetch, total, got>>,
         NEW fresh \in SUBSET (1..Len(list)'),
         NEW old \in [1..Len(list)' -> Int],
         \A k \in (1..Len(list)') \ fresh :
            old[k] \in 1..Len(list) /\ list'[k] = list[old[k]],
         \A j, k \in (1..Len(list)') \ fresh : j < k => old[j] < old[k],
         \A k \in fresh : list'[k] = added' /\ added' = added + 1,
         \A j, k \in fresh : j = k,
         stable' \subseteq stable, stable' \subseteq Range(list'),
         ~shrunk' => ~shrunk /\ \A k \in (1..Len(list)') \ fresh : k <= total => old[k] <= total,
         ~grown' => ~grown /\ \A k \in (1..Len(list)') \ fresh : k > total => old[k] > total
  PROVE  PagingInvariant'
<1> DEFINE places == (1..Len(list)') \ fresh
<1>1. /\ list \in Seq(0..MaxRow) /\ Len(list) \in Nat /\ DOMAIN list = 1..Len(list)
      /\ got \in Seq(0..MaxRow) /\ total \in Nat /\ added \in Nat
  BY LenProperties DEF FetchTypeOK
<1>2. Len(list)' \in Nat /\ DOMAIN list' = 1..Len(list)'
  BY LenProperties
<1>3. /\ \A i, j \in 1..Len(list) : list[i] = list[j] => i = j
      /\ \A r \in Range(list) : r <= added
      /\ \A r \in Range(got) : r <= added
      /\ stable \subseteq Range(list)
  BY <1>1 DEF PagingInvariant, RowsAreDistinct
<1>4. \A k \in 1..Len(list) : list[k] \in Range(list) /\ list[k] \in Nat
  BY <1>1, RowsAreNumbers
<1>5. ASSUME NEW r \in Range(got) PROVE r \in Nat
  BY <1>1, <1>5, RowsAreNumbers
<1>6. ASSUME NEW k \in fresh
      PROVE  list'[k] \notin Range(list) /\ list'[k] \notin Range(got)
  BY <1>1, <1>3, <1>6
<1>7. ASSUME NEW j \in places, NEW k \in places, old[j] = old[k] PROVE j = k
  BY <1>2, <1>7
<1>8. RowsAreDistinct'
  <2>1. ASSUME NEW j \in 1..Len(list)', NEW k \in 1..Len(list)', list'[j] = list'[k]
        PROVE  j = k
    <3>1. CASE j \in fresh /\ k \in fresh
      BY <3>1
    <3>2. CASE j \in fresh /\ k \notin fresh
      BY <1>4, <1>6, <2>1, <3>2
    <3>3. CASE j \notin fresh /\ k \in fresh
      BY <1>4, <1>6, <2>1, <3>3
    <3>4. CASE j \notin fresh /\ k \notin fresh
      BY <1>3, <1>7, <2>1, <3>4
    <3> QED BY <3>1, <3>2, <3>3, <3>4
  <2>2. ASSUME NEW r \in Range(list') PROVE r <= added'
    <3>1. PICK k \in 1..Len(list)' : list'[k] = r
      BY <2>2, InRange
    <3>2. CASE k \in fresh
      BY <1>1, <3>1, <3>2
    <3>3. CASE k \notin fresh
      <4>1. r = list[old[k]] /\ old[k] \in 1..Len(list)
        BY <3>1, <3>3
      <4>2. r \in Nat /\ r <= added
        BY <1>3, <1>4, <4>1
      <4> QED BY <1>1, <4>2
    <3> QED BY <3>2, <3>3
  <2>3. ASSUME NEW r \in Range(got) PROVE r <= added'
    BY <1>1, <1>3, <1>5, <2>3
  <2> QED BY <1>2, <2>1, <2>2, <2>3 DEF RowsAreDistinct
<1>9. ASSUME NEW k \in 1..Len(list)', list'[k] \in stable' PROVE k \in places
  BY <1>3, <1>6, <1>9
<1>10. ReadIsReturned'
  <2> SUFFICES ASSUME ~shrunk', NEW k \in 1..Len(list)', k <= total, list'[k] \in stable'
               PROVE  list'[k] \in Range(got)
    BY <1>2 DEF ReadIsReturned
  <2>1. k \in places
    BY <1>9
  <2>2. old[k] \in 1..Len(list) /\ list'[k] = list[old[k]] /\ old[k] <= total /\ ~shrunk
    BY <2>1
  <2>3. list[old[k]] \in stable
    BY <2>2
  <2> QED BY <1>1, <2>2, <2>3 DEF PagingInvariant, ReadIsReturned
<1>11. NewestComeFirst'
  <2> SUFFICES ASSUME ~shrunk', NEW i \in 1..Len(list)', NEW j \in 1..Len(list)', i < j,
                      list'[i] \in stable', list'[j] \in stable', list'[j] \in Range(got)
               PROVE  list'[i] \in Range(got)
    BY <1>2 DEF NewestComeFirst
  <2>1. i \in places /\ j \in places
    BY <1>9
  <2>2. /\ old[i] \in 1..Len(list) /\ list'[i] = list[old[i]]
        /\ old[j] \in 1..Len(list) /\ list'[j] = list[old[j]]
        /\ old[i] < old[j] /\ ~shrunk
    BY <2>1
  <2>3. list[old[i]] \in stable /\ list[old[j]] \in stable /\ list[old[j]] \in Range(got)
    BY <2>2
  <2> QED BY <1>1, <2>2, <2>3 DEF PagingInvariant, NewestComeFirst
<1>12. CompleteIsAll'
  BY DEF CompleteIsAll
<1>13. UnreadIsNew'
  <2> SUFFICES ASSUME ~grown', NEW k \in 1..Len(list)', k > total
               PROVE  list'[k] \notin Range(got)
    BY <1>2 DEF UnreadIsNew
  <2>1. CASE k \in fresh
    BY <1>6, <2>1
  <2>2. CASE k \notin fresh
    <3>1. old[k] \in 1..Len(list) /\ list'[k] = list[old[k]] /\ old[k] > total /\ ~grown
      BY <2>2
    <3> QED BY <1>1, <3>1 DEF PagingInvariant, UnreadIsNew
  <2> QED BY <2>1, <2>2
<1>14. RepeatsNeedAnInsertion'
  BY DEF PagingInvariant, RepeatsNeedAnInsertion
<1> QED BY <1>8, <1>10, <1>11, <1>12, <1>13, <1>14 DEF PagingInvariant

(* A page is read: what was unread and is new goes behind what was read.   *)
LEMMA PageIsRead ==
  ASSUME FetchTypeOK, PagingInvariant, fetch = "paging", pages < MaxPages, ~LimitReached,
         UNCHANGED <<listVars, max, stable, shrunk, grown>>,
         got' = got \o Rows, total' = total + Len(Rows), pages' = pages + 1,
         fetch' = IF Ends(Len(Rows)) THEN "complete" ELSE "paging"
  PROVE  /\ got' \in Seq(0..MaxRow) /\ total' = Len(got)' /\ (max' # 0 => total' <= max')
         /\ PagingInvariant'
<1> DEFINE n == Len(Rows)
<1>1. /\ list \in Seq(0..MaxRow) /\ got \in Seq(0..MaxRow) /\ total = Len(got)
      /\ max \in Nat
  BY FetchAssumption DEF FetchTypeOK
<1>2. Len(list) \in Nat /\ DOMAIN list = 1..Len(list)
  BY <1>1, RowsAreNumbers
<1>3. total \in Nat /\ DOMAIN got = 1..total
  BY <1>1, RowsAreNumbers
<1>4. total \in Nat /\ Size \in Nat \ {0} /\ (max # 0 => total + Size <= max)
  BY SizeProperties
<1>5. /\ Rows \in Seq(0..MaxRow) /\ n \in 0..Size
      /\ \A k \in 1..n : total + k \in 1..Len(list) /\ Rows[k] = list[total + k]
      /\ n < Size => Len(list) <= total + n
  BY PageProperties
<1>6. n \in Nat
  BY <1>4, <1>5
<1>7. /\ got' \in Seq(0..MaxRow) /\ Len(got') = total + n
      /\ \A k \in 1..(total + n) : got'[k] = IF k <= total THEN got[k] ELSE Rows[k - total]
      /\ Range(got') = Range(got) \cup Range(Rows)
  <2> DEFINE S == 0..MaxRow
  <2>1. got \in Seq(S) /\ Rows \in Seq(S)
    BY <1>1, <1>5
  <2> HIDE DEF S
  <2>2. /\ got \o Rows \in Seq(S) /\ Len(got \o Rows) = Len(got) + Len(Rows)
        /\ \A k \in 1..(Len(got) + Len(Rows)) : (got \o Rows)[k] =
              IF k <= Len(got) THEN got[k] ELSE Rows[k - Len(got)]
    BY <2>1, ConcatProperties
  <2>3. Range(got \o Rows) = Range(got) \cup Range(Rows)
    BY <2>1, RangeConcatenation
  <2> QED BY <1>1, <2>2, <2>3 DEF S
<1> HIDE DEF n
<1>8. total' = total + n /\ DOMAIN got' = 1..(total + n)
  BY <1>7, RowsAreNumbers DEF n
<1>9. /\ \A i, j \in 1..Len(list) : list[i] = list[j] => i = j
      /\ \A r \in Range(list) \cup Range(got) : r <= added
      /\ stable \subseteq Range(list)
  BY <1>2 DEF PagingInvariant, RowsAreDistinct
<1>10. \A k \in 1..Len(list) : list[k] \in Range(list)
  BY <1>1, RowsAreNumbers
<1>11. ASSUME NEW k \in 1..Len(list), total < k, k <= total + n
       PROVE  list[k] \in Range(Rows)
  <2>1. k - total \in 1..n /\ total + (k - total) = k
    BY <1>4, <1>6, <1>11
  <2>2. Rows[k - total] = list[k]
    BY <1>5, <2>1
  <2> QED BY <1>5, <2>1, <2>2, RowsAreNumbers DEF n
<1>12. ASSUME NEW k \in 1..Len(list), list[k] \in Range(Rows)
       PROVE  total < k /\ k <= total + n
  <2>1. PICK m \in 1..n : Rows[m] = list[k]
    BY <1>5, <1>12, InRange DEF n
  <2>2. total + m \in 1..Len(list) /\ list[total + m] = list[k]
    BY <1>5, <2>1
  <2>3. total + m = k
    BY <1>9, <2>2
  <2> QED BY <1>4, <1>6, <2>3
<1>13. ASSUME NEW r \in Range(Rows) PROVE r \in Range(list)
  <2>1. PICK m \in 1..n : Rows[m] = r
    BY <1>5, InRange DEF n
  <2> QED BY <1>5, <1>10, <2>1
<1>14. RowsAreDistinct'
  BY <1>2, <1>7, <1>9, <1>13 DEF RowsAreDistinct, listVars
<1>15. ReadIsReturned'
  <2> SUFFICES ASSUME ~shrunk, NEW k \in 1..Len(list), k <= total + n, list[k] \in stable
               PROVE  list[k] \in Range(got')
    BY <1>2, <1>8 DEF ReadIsReturned, listVars
  <2>1. CASE k <= total
    BY <1>2, <1>7, <2>1 DEF PagingInvariant, ReadIsReturned
  <2>2. CASE ~(k <= total)
    BY <1>4, <1>7, <1>11, <2>2
  <2> QED BY <2>1, <2>2
<1>16. NewestComeFirst'
  <2> SUFFICES ASSUME ~shrunk, NEW i \in 1..Len(list), NEW j \in 1..Len(list), i < j,
                      list[i] \in stable, list[j] \in stable, list[j] \in Range(got')
               PROVE  list[i] \in Range(got')
    BY <1>2 DEF NewestComeFirst, listVars
  <2>1. CASE list[j] \in Range(got)
    BY <1>2, <1>7, <2>1 DEF PagingInvariant, NewestComeFirst
  <2>2. CASE list[j] \in Range(Rows)
    <3>1. i <= total + n
      BY <1>4, <1>6, <1>12, <2>2
    <3> QED BY <1>2, <1>8, <1>15, <3>1 DEF ReadIsReturned, listVars
  <2> QED BY <1>7, <2>1, <2>2
<1>17. CompleteIsAll'
  <2> SUFFICES ASSUME fetch' = "complete", ~shrunk, NEW r \in stable
               PROVE  r \in Range(got')
    BY DEF CompleteIsAll
  <2>1. n < Size
    BY DEF Ends, n
  <2>2. PICK k \in 1..Len(list) : list[k] = r
    BY <1>1, <1>9, InRange
  <2>3. k <= total + n
    BY <1>2, <1>4, <1>5, <1>6, <2>1
  <2> QED BY <1>2, <1>8, <1>15, <2>2, <2>3 DEF ReadIsReturned, listVars
<1>18. UnreadIsNew'
  <2> SUFFICES ASSUME ~grown, NEW k \in 1..Len(list), k > total + n
               PROVE  list[k] \notin Range(got')
    BY <1>2, <1>8 DEF UnreadIsNew, listVars
  <2>1. list[k] \notin Range(got)
    BY <1>2, <1>4, <1>6 DEF PagingInvariant, UnreadIsNew
  <2>2. list[k] \notin Range(Rows)
    BY <1>4, <1>6, <1>12
  <2> QED BY <1>7, <2>1, <2>2
<1>19. RepeatsNeedAnInsertion'
  <2> SUFFICES ASSUME ~grown, NEW i \in 1..(total + n), NEW j \in 1..(total + n),
                      i < j, got'[i] = got'[j]
               PROVE  FALSE
    <3>1. SUFFICES ASSUME ~grown, NEW i \in 1..(total + n), NEW j \in 1..(total + n),
                          got'[i] = got'[j], i # j
                   PROVE  FALSE
      BY <1>8 DEF RepeatsNeedAnInsertion
    <3>2. i < j \/ j < i
      BY <1>4, <1>6, <3>1
    <3> QED BY <3>1, <3>2
  <2>1. CASE j <= total
    <3>1. i \in 1..total /\ j \in 1..total /\ got[i] = got[j]
      BY <1>4, <1>6, <1>7, <2>1
    <3> QED BY <1>3, <3>1 DEF PagingInvariant, RepeatsNeedAnInsertion
  <2>2. CASE ~(j <= total)
    <3>1. /\ j - total \in 1..n /\ total + (j - total) = j
          /\ got'[j] = Rows[j - total]
      BY <1>4, <1>6, <1>7, <2>2, SMTT(30)
    <3>2. j \in 1..Len(list) /\ got'[j] = list[j]
      BY <1>5, <3>1
    <3>3. CASE i <= total
      <4>1. i \in 1..total /\ got'[i] = got[i]
        BY <1>4, <1>6, <1>7, <3>3
      <4>2. got[i] \in Range(got)
        BY <1>1, <4>1, RowsAreNumbers
      <4>3. list[j] \notin Range(got)
        BY <1>2, <1>4, <2>2, <3>2 DEF PagingInvariant, UnreadIsNew
      <4> QED BY <3>2, <4>1, <4>2, <4>3
    <3>4. CASE ~(i <= total)
      <4>1. /\ i - total \in 1..n /\ total + (i - total) = i
            /\ got'[i] = Rows[i - total]
        BY <1>4, <1>6, <1>7, <3>4, SMTT(30)
      <4>2. i \in 1..Len(list) /\ got'[i] = list[i]
        BY <1>5, <4>1
      <4>3. i = j
        BY <1>9, <3>2, <4>2
      <4> QED BY <1>4, <1>6, <4>3
    <3> QED BY <3>3, <3>4
  <2> QED BY <2>1, <2>2
<1>20. max' # 0 => total' <= max'
  BY <1>1, <1>4, <1>5, <1>6, <1>8
<1> QED BY <1>1, <1>7, <1>8, <1>14, <1>15, <1>16, <1>17, <1>18, <1>19, <1>20
        DEF PagingInvariant

(* The steps of the fetch one by one, over a correct session.              *)
LEMMA RowAddedStep ==
  ASSUME FetchTypeOK, FetchIInv, TypeOK', IInv', RowAdded
  PROVE  FetchTypeOK' /\ FetchIInv'
<1>1. /\ list \in Seq(0..MaxRow) /\ added \in Nat /\ stable \subseteq Range(list)
      /\ total \in Nat
  BY RowsAreNumbers, LenProperties
     DEF FetchTypeOK, FetchIInv, PagingInvariant, RowsAreDistinct
<1>2. Len(list) \in Nat /\ DOMAIN list = 1..Len(list)
  BY <1>1, RowsAreNumbers
<1>3. /\ fetch = "paging" /\ added' = added + 1 /\ added' \in 0..MaxRow
      /\ UNCHANGED <<vars, fetch, max, pages, total, got, stable, shrunk>>
  BY <1>1, FetchAssumption DEF RowAdded
<1>4. PICK i \in 1..(Len(list) + 1) :
         list' = InsertAt(list, i, added') /\ grown' = (grown \/ i <= total)
  BY DEF RowAdded
<1>5. /\ list' \in Seq(0..MaxRow) /\ Len(list') = Len(list) + 1
      /\ \A k \in 1..(Len(list) + 1) :
            list'[k] = IF k < i THEN list[k] ELSE IF k = i THEN added' ELSE list[k - 1]
  <2>1. list \in Seq(0..MaxRow) /\ added' \in 0..MaxRow
    BY <1>1, <1>3
  <2>2. Inserted(InsertAt(list, i, added'), 0..MaxRow, list, i, added')
    BY <2>1, InsertAtProperties, Zenon
  <2>3. Inserted(list', 0..MaxRow, list, i, added')
    BY <1>4, <2>2, Zenon
  <2> QED BY <2>3, Zenon DEF Inserted
<1>6. PagingInvariant'
  <2> DEFINE old == [k \in 1..Len(list)' |-> IF k < i THEN k ELSE k - 1]
             places == (1..Len(list)') \ {i}
  <2>1. old \in [1..Len(list)' -> Int] /\ {i} \in SUBSET (1..Len(list)')
    BY <1>2, <1>5
  <2>2. \A k \in places : old[k] \in 1..Len(list) /\ list'[k] = list[old[k]]
    BY <1>2, <1>5
  <2>3. \A j, k \in places : j < k => old[j] < old[k]
    BY <1>2, <1>5
  <2>4. \A k \in {i} : list'[k] = added' /\ added' = added + 1
    BY <1>2, <1>3, <1>5
  <2>5. ASSUME NEW r \in stable' PROVE r \in Range(list')
    <3>1. PICK k \in 1..Len(list) : list[k] = r
      BY <1>1, <1>3, InRange
    <3>2. CASE k < i
      <4>1. k \in 1..Len(list') /\ list'[k] = r
        BY <1>2, <1>5, <3>1, <3>2
      <4> QED BY <1>5, <4>1, RowsAreNumbers
    <3>3. CASE ~(k < i)
      <4>1. k + 1 \in 1..Len(list') /\ list'[k + 1] = r
        BY <1>2, <1>5, <3>1, <3>3
      <4> QED BY <1>5, <4>1, RowsAreNumbers
    <3> QED BY <3>2, <3>3
  <2>6. \A k \in places : k <= total => old[k] <= total
    BY <1>1, <1>2, <1>5
  <2>7. ~grown' => ~grown /\ \A k \in places : k > total => old[k] > total
    <3>1. ~(i <= total) => \A k \in places : k > total => old[k] > total
      BY <1>1, <1>2, <1>5
    <3> HIDE DEF old, places
    <3> QED BY <1>4, <3>1, Zenon
  <2>8. PagingInvariant /\ added' \in Nat /\ added <= added'
    BY <1>1, <1>3 DEF FetchIInv
  <2> HIDE DEF old
  <2> QED BY <1>3, <1>5, <2>1, <2>2, <2>3, <2>4, <2>5, <2>6, <2>7, <2>8, RowsMove
<1>7. FetchTypeOK'
  <2>1. grown' \in BOOLEAN
    BY <1>4 DEF FetchTypeOK
  <2> QED BY <1>3, <1>5, <2>1 DEF FetchTypeOK
<1>8. RequestHasRoom'
  BY <1>3 DEF FetchIInv, RequestHasRoom, LimitReached, vars, workerVars
<1> QED BY <1>6, <1>7, <1>8 DEF FetchIInv

LEMMA RowGoneStep ==
  ASSUME FetchTypeOK, FetchIInv, TypeOK', IInv', RowGone
  PROVE  FetchTypeOK' /\ FetchIInv'
<1>1. /\ list \in Seq(0..MaxRow) /\ added \in Nat /\ stable \subseteq Range(list)
      /\ total \in Nat
  BY RowsAreNumbers, LenProperties
     DEF FetchTypeOK, FetchIInv, PagingInvariant, RowsAreDistinct
<1>2. Len(list) \in Nat /\ DOMAIN list = 1..Len(list)
  BY <1>1, RowsAreNumbers
<1>3. /\ fetch = "paging"
      /\ UNCHANGED <<vars, added, fetch, max, pages, total, got, grown>>
  BY DEF RowGone
<1>4. PICK i \in 1..Len(list) :
         /\ list' = RemoveAt(list, i) /\ stable' = stable \ {list[i]}
         /\ shrunk' = (shrunk \/ i <= total)
  BY <1>2 DEF RowGone
<1>5. /\ list' \in Seq(0..MaxRow) /\ Len(list') = Len(list) - 1
      /\ \A k \in 1..(Len(list) - 1) :
            list'[k] = IF k < i THEN list[k] ELSE list[k + 1]
  <2>1. list \in Seq(0..MaxRow)
    BY <1>1
  <2>2. Removed(RemoveAt(list, i), 0..MaxRow, list, i)
    BY <2>1, RemoveAtProperties, Zenon
  <2>3. Removed(list', 0..MaxRow, list, i)
    BY <1>4, <2>2, Zenon
  <2> QED BY <2>3, Zenon DEF Removed
<1>6. PagingInvariant'
  <2> DEFINE old == [k \in 1..Len(list)' |-> IF k < i THEN k ELSE k + 1]
             places == (1..Len(list)') \ {}
  <2>1. old \in [1..Len(list)' -> Int] /\ {} \in SUBSET (1..Len(list)')
    BY <1>2, <1>5
  <2>2. \A k \in places : old[k] \in 1..Len(list) /\ list'[k] = list[old[k]]
    BY <1>2, <1>5
  <2>3. \A j, k \in places : j < k => old[j] < old[k]
    BY <1>2, <1>5
  <2>5. ASSUME NEW r \in stable' PROVE r \in Range(list')
    <3>1. PICK k \in 1..Len(list) : list[k] = r
      BY <1>1, <1>4, InRange
    <3>2. k # i
      BY <1>4, <3>1
    <3>3. CASE k < i
      <4>1. k \in 1..Len(list') /\ list'[k] = r
        BY <1>2, <1>5, <3>1, <3>3
      <4> QED BY <1>5, <4>1, RowsAreNumbers
    <3>4. CASE ~(k < i)
      <4>1. k - 1 \in 1..Len(list') /\ list'[k - 1] = r
        BY <1>2, <1>5, <3>1, <3>2, <3>4
      <4> QED BY <1>5, <4>1, RowsAreNumbers
    <3> QED BY <3>3, <3>4
  <2>6. ~shrunk' => ~shrunk /\ \A k \in places : k <= total => old[k] <= total
    <3>1. ~(i <= total) => \A k \in places : k <= total => old[k] <= total
      BY <1>1, <1>2, <1>5
    <3> HIDE DEF old, places
    <3> QED BY <1>4, <3>1, Zenon
  <2>7. \A k \in places : k > total => old[k] > total
    BY <1>1, <1>2, <1>5
  <2>8. PagingInvariant /\ added' \in Nat /\ added <= added' /\ stable' \subseteq stable
    BY <1>1, <1>3, <1>4 DEF FetchIInv
  <2> HIDE DEF old
  <2> QED BY <1>3, <1>5, <2>1, <2>2, <2>3, <2>5, <2>6, <2>7, <2>8, RowsMove
<1>7. FetchTypeOK'
  <2>1. shrunk' \in BOOLEAN /\ stable' \subseteq 0..MaxRow
    BY <1>4 DEF FetchTypeOK
  <2> QED BY <1>3, <1>5, <2>1 DEF FetchTypeOK
<1>8. RequestHasRoom'
  BY <1>3 DEF FetchIInv, RequestHasRoom, LimitReached, vars, workerVars
<1> QED BY <1>6, <1>7, <1>8 DEF FetchIInv

LEMMA ReadStep ==
  ASSUME FetchTypeOK, FetchIInv, TypeOK', IInv', FetcherGets
  PROVE  FetchTypeOK' /\ FetchIInv'
<1>1. /\ pc[Fetcher] # "idle"
      /\ UNCHANGED <<listVars, max, stable, shrunk, grown>> /\ Answered
  BY DEF FetcherGets, Locked, Session, Invalidate, Login, Request
<1>2. fetch = "paging" /\ pages < MaxPages /\ ~LimitReached
  BY <1>1 DEF FetchIInv, RequestHasRoom
<1>3. got \in Seq(0..MaxRow) /\ total = Len(got) /\ pages \in 0..MaxPages
  BY DEF FetchTypeOK
<1>4. CASE pc'[Fetcher] # "idle" /\ UNCHANGED <<fetch, pages, total, got>>
  <2>1. UNCHANGED <<list, added, fetch, max, pages, total, got, stable, shrunk, grown>>
    BY <1>1, <1>4 DEF listVars
  <2>2. FetchTypeOK'
    BY <2>1 DEF FetchTypeOK
  <2>3. PagingInvariant'
    BY <2>1 DEF FetchIInv, PagingInvariant, RowsAreDistinct, ReadIsReturned,
       NewestComeFirst, CompleteIsAll, UnreadIsNew, RepeatsNeedAnInsertion
  <2>4. RequestHasRoom'
    BY <1>2, <2>1 DEF RequestHasRoom, LimitReached
  <2> QED BY <2>2, <2>3, <2>4 DEF FetchIInv
<1>5. CASE pc'[Fetcher] = "idle" /\ fetch' = "failed" /\ UNCHANGED <<pages, total, got>>
  <2>1. /\ UNCHANGED <<list, added, max, pages, total, got, stable, shrunk, grown>>
        /\ fetch' = "failed"
    BY <1>1, <1>5 DEF listVars
  <2>2. FetchTypeOK'
    BY <2>1 DEF FetchTypeOK
  <2>3. PagingInvariant'
    BY <2>1 DEF FetchIInv, PagingInvariant, RowsAreDistinct, ReadIsReturned,
       NewestComeFirst, CompleteIsAll, UnreadIsNew, RepeatsNeedAnInsertion
  <2>4. RequestHasRoom'
    BY <1>5 DEF RequestHasRoom
  <2> QED BY <2>2, <2>3, <2>4 DEF FetchIInv
<1>6. CASE /\ pc'[Fetcher] = "idle" /\ got' = got \o Rows /\ total' = total + Len(Rows)
           /\ pages' = pages + 1
           /\ fetch' = IF Ends(Len(Rows)) THEN "complete" ELSE "paging"
  <2>1. /\ got' \in Seq(0..MaxRow) /\ total' = Len(got') /\ (max' # 0 => total' <= max')
        /\ PagingInvariant'
    BY <1>1, <1>2, <1>6, PageIsRead DEF FetchIInv
  <2>2. pages' \in 0..MaxPages /\ fetch' \in {"complete", "paging"}
    BY <1>2, <1>3, <1>6, FetchAssumption
  <2>3. UNCHANGED <<list, added, max, stable, shrunk, grown>>
    BY <1>1 DEF listVars
  <2>4. FetchTypeOK'
    BY <2>1, <2>2, <2>3 DEF FetchTypeOK
  <2>5. RequestHasRoom'
    BY <1>6, <2>2 DEF RequestHasRoom
  <2> QED BY <2>1, <2>4, <2>5 DEF FetchIInv
<1> QED BY <1>1, <1>4, <1>5, <1>6 DEF Answered, ReadPage

LEMMA OtherSteps ==
  ASSUME FetchTypeOK, FetchIInv, TypeOK', IInv',
         \/ StartFetch \/ NextPage \/ OthersGet
         \/ Expire /\ UNCHANGED <<listVars, fetchVars>>
         \/ UNCHANGED allVars
  PROVE  FetchTypeOK' /\ FetchIInv'
<1>1. TypeOK /\ Fetcher \in Workers
  BY FetchAssumption DEF FetchTypeOK
<1>2. CASE StartFetch
  <2>1. /\ fetch = "idle" /\ fetch' = "paging" /\ max' \in RowLimits
        /\ stable' = Range(list) /\ pc' = pc /\ pc[Fetcher] = "idle"
        /\ UNCHANGED <<list, added, pages, total, got, shrunk, grown>>
    BY <1>2 DEF StartFetch, listVars, vars, workerVars
  <2>2. got = <<>> /\ list \in Seq(0..MaxRow)
    BY <2>1 DEF FetchIInv, RequestHasRoom, FetchTypeOK
  <2>3. total = 0 /\ Range(got) = {}
    BY <2>2 DEF FetchTypeOK, Range
  <2>4. Range(list) \subseteq 0..MaxRow /\ DOMAIN list = 1..Len(list) /\ Len(list) \in Nat
    BY <2>2, RowsAreNumbers
  <2>5. FetchTypeOK'
    BY <2>1, <2>3, <2>4, FetchAssumption DEF FetchTypeOK
  <2>6. RowsAreDistinct'
    BY <2>1 DEF RowsAreDistinct, FetchIInv, PagingInvariant
  <2>7. ReadIsReturned' /\ NewestComeFirst' /\ CompleteIsAll'
    BY <2>1, <2>3, <2>4 DEF ReadIsReturned, NewestComeFirst, CompleteIsAll
  <2>8. UnreadIsNew' /\ RepeatsNeedAnInsertion'
    BY <2>1 DEF UnreadIsNew, RepeatsNeedAnInsertion, FetchIInv, PagingInvariant
  <2>9. RequestHasRoom'
    BY <2>1 DEF RequestHasRoom
  <2> QED BY <2>5, <2>6, <2>7, <2>8, <2>9 DEF FetchIInv, PagingInvariant
<1>3. ASSUME UNCHANGED <<list, added, max, pages, total, got, stable, shrunk, grown>>,
             fetch' \in {fetch, "capped", "limited"}, RequestHasRoom'
      PROVE  FetchTypeOK' /\ FetchIInv'
  <2>1. FetchTypeOK'
    BY <1>3 DEF FetchTypeOK
  <2>2. PagingInvariant'
    BY <1>3 DEF FetchIInv, PagingInvariant, RowsAreDistinct, ReadIsReturned,
       NewestComeFirst, CompleteIsAll, UnreadIsNew, RepeatsNeedAnInsertion
  <2> QED BY <1>3, <2>1, <2>2 DEF FetchIInv
<1>4. CASE NextPage
  <2>1. /\ UNCHANGED <<list, added, max, pages, total, got, stable, shrunk, grown>>
        /\ fetch = "paging" /\ pc[Fetcher] = "idle"
    BY <1>4 DEF NextPage, listVars
  <2>2. CASE fetch' \in {"capped", "limited"} /\ UNCHANGED vars
    <3>1. RequestHasRoom'
      BY <2>1, <2>2 DEF RequestHasRoom, vars, workerVars
    <3> QED BY <1>3, <2>1, <2>2, <3>1
  <2>3. CASE pages < MaxPages /\ ~LimitReached /\ UNCHANGED fetch
    <3>1. RequestHasRoom'
      BY <2>1, <2>3 DEF RequestHasRoom, LimitReached
    <3> QED BY <1>3, <2>1, <2>3, <3>1
  <2> QED BY <1>4, <2>2, <2>3 DEF NextPage
<1>5. CASE UNCHANGED <<listVars, fetchVars>> /\ pc'[Fetcher] = pc[Fetcher]
  <2>1. UNCHANGED <<list, added, fetch, max, pages, total, got, stable, shrunk, grown>>
    BY <1>5 DEF listVars, fetchVars
  <2>2. RequestHasRoom'
    BY <1>5, <2>1 DEF FetchIInv, RequestHasRoom, LimitReached
  <2> QED BY <1>3, <2>1, <2>2
<1>6. CASE OthersGet
  <2>1. PICK w \in Workers \ {Fetcher} : Work(w)
    BY <1>6 DEF OthersGet
  <2>2. pc \in [Workers -> {"idle", "session", "login", "request", "invalidate"}]
    BY <1>1 DEF TypeOK
  <2>3. \E to : pc' = [pc EXCEPT ![w] = to]
    BY <2>1 DEF Work, Begin, Locked, Session, Invalidate, Login, Request, Take, Return
  <2>4. pc'[Fetcher] = pc[Fetcher]
    BY <1>1, <2>1, <2>2, <2>3
  <2> QED BY <1>5, <1>6, <2>4 DEF OthersGet
<1>7. CASE Expire /\ UNCHANGED <<listVars, fetchVars>>
  BY <1>5, <1>7 DEF Expire, workerVars
<1>8. CASE UNCHANGED allVars
  BY <1>5, <1>8 DEF allVars, vars, workerVars
<1> QED BY <1>2, <1>4, <1>6, <1>7, <1>8

LEMMA FetchStep ==
  FetchTypeOK /\ FetchIInv /\ [FetchNext]_allVars => (FetchTypeOK /\ FetchIInv)'
<1> SUFFICES ASSUME FetchTypeOK, FetchIInv, [FetchNext]_allVars
             PROVE  (FetchTypeOK /\ FetchIInv)'
  OBVIOUS
<1>1. TypeOK' /\ IInv'
  BY SessionStep, TypeStep, InvStep DEF FetchTypeOK, FetchIInv
<1> QED BY <1>1, ReadStep, RowAddedStep, RowGoneStep, OtherSteps DEF FetchNext

(* The fetch keeps its types and its invariant, whatever happens to the    *)
(* list and to the session between two pages.                              *)
THEOREM FetchInductiveInvariant == FetchSpec => [](FetchTypeOK /\ FetchIInv)
  BY FetchInitInv, FetchStep, PTL DEF FetchSpec

THEOREM FetchTypeCorrect == FetchSpec => []FetchTypeOK
  BY FetchInductiveInvariant, PTL

(* Unless a row disappears from the part already read, a complete fetch    *)
(* returns every row that stayed, and one that was cut misses only rows    *)
(* older than all it returns, for any list, limit, page size and cap.      *)
THEOREM PagingLosesNothing == FetchSpec => []NothingSkipped
<1>1. FetchIInv => NothingSkipped
  BY DEF FetchIInv, PagingInvariant, CompleteIsAll, NewestComeFirst, NothingSkipped
<1> QED BY <1>1, FetchInductiveInvariant, PTL

(* A row comes twice only after an insertion in front of it.               *)
THEOREM RepeatsAreExplained == FetchSpec => []RepeatsNeedAnInsertion
<1>1. FetchIInv => RepeatsNeedAnInsertion
  BY DEF FetchIInv, PagingInvariant
<1> QED BY <1>1, FetchInductiveInvariant, PTL

(* Paging keeps the promise of the session it uses.                        *)
THEOREM LiveSessionKeptByFetch == FetchSpec => []NoLiveTokenDropped
<1>1. FetchIInv => NoLiveTokenDropped
  BY DEF FetchIInv, IInv
<1> QED BY <1>1, FetchInductiveInvariant, PTL
=============================================================================
