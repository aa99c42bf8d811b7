------------------------------ MODULE SuloFetch ------------------------------
(***************************************************************************)
(* Offset paging over live REEN data: paged of the SULO client, as         *)
(* FetchObservations (with a limit) and discovery (without) use it.  Every *)
(* page is one get of SuloSession, which other goroutines use too, so      *)
(* tokens die and logins happen between two pages, and so do changes of    *)
(* the list being paged: a row is added, a forecast is replaced, a slot is *)
(* deleted, and the rows behind it shift.                                  *)
(***************************************************************************)
EXTENDS SuloSession, Sequences, SequencesExt

CONSTANTS
    Fetcher,       \* the goroutine that pages; the others use the session
    InitialLists,  \* lists the vendor may start with, newest row first
    Undecodable,   \* the row whose page does not decode
    MaxRow,        \* bound: the last row the vendor adds
    PageSize,
    MaxPages,      \* the page cap of the client
    RowLimits      \* FetchObservations' limits; 0 for discovery, which has none

ASSUME FetchAssumption ==
    /\ Fetcher \in Workers
    /\ InitialLists \subseteq Seq(0..MaxRow)
    /\ \A l \in InitialLists : \A i, j \in DOMAIN l : l[i] = l[j] => i = j
    /\ Undecodable \in 0..MaxRow
    /\ MaxRow \in Nat /\ PageSize \in Nat \ {0} /\ MaxPages \in Nat \ {0} /\ RowLimits \subseteq Nat

VARIABLES
    list,    \* the vendor's rows, newest first
    added,   \* the last row it added; no number is used twice
    fetch,   \* "idle", "paging", or how it ended: "complete" (a short page),
             \* "limited", "capped", "failed"
    max,     \* the limit of this fetch
    pages, total, got,
    \* history
    stable,  \* rows that have been in the list since the fetch began
    shrunk,  \* meanwhile a row was removed from the part already read
    grown    \* meanwhile a row was inserted into the part already read

fetchVars == <<fetch, max, pages, total, got, stable, shrunk, grown>>
listVars  == <<list, added>>
allVars   == <<vars, listVars, fetchVars>>

FetchInit ==
    /\ Init
    /\ list \in InitialLists
    /\ added \in {0} \cup Range(list) /\ \A r \in Range(list) : r <= added
    /\ fetch = "idle" /\ max = 0 /\ pages = 0 /\ total = 0 /\ got = <<>>
    /\ stable = {} /\ shrunk = FALSE /\ grown = FALSE

-----------------------------------------------------------------------------
(* paged.                                                                  *)

StartFetch ==
    /\ fetch = "idle" /\ pc[Fetcher] = "idle"
    /\ fetch' = "paging" /\ max' \in RowLimits
    /\ stable' = Range(list)
    /\ UNCHANGED <<vars, listVars, pages, total, got, shrunk, grown>>

SlipSize == PageSize

(* The page size, or what is left up to the limit.                         *)
Size == IF max = 0 \/ PageSize < max - total THEN PageSize ELSE max - total

LimitReached == max # 0 /\ total >= max

(* The head of the loop: the cap, the limit, or another get.               *)
NextPage ==
    /\ fetch = "paging" /\ pc[Fetcher] = "idle"
    /\ \/ /\ pages = MaxPages
          /\ fetch' = "capped" /\ UNCHANGED vars
       \/ /\ pages < MaxPages /\ LimitReached
          /\ fetch' = "limited" /\ UNCHANGED vars
       \/ /\ pages < MaxPages /\ ~LimitReached
          /\ Begin(Fetcher) /\ UNCHANGED fetch
    /\ UNCHANGED <<listVars, max, pages, total, got, stable, shrunk, grown>>

SlipOffset == total - (IF total > 1 THEN 1 ELSE 0)

(* Rows already received are skipped.                                      *)
Offset == total

Rows == SubSeq(list, Offset + 1, IF Offset + Size < Len(list) THEN Offset + Size ELSE Len(list))

SlipEnds(n) == n <= Size

(* A page shorter than asked for is the last one.                          *)
Ends(n) == n < Size

(* The rows the vendor answers with, and decode: one bad row fails all.    *)
ReadPage ==
    IF Undecodable \in Range(Rows)
    THEN fetch' = "failed" /\ UNCHANGED <<pages, total, got>>
    ELSE /\ got' = got \o Rows
         /\ total' = total + Len(Rows)
         /\ pages' = pages + 1
         /\ fetch' = IF Ends(Len(Rows)) THEN "complete" ELSE "paging"

(* get returned, if it did; an error of it ends the fetch.                 *)
Answered ==
    \/ pc'[Fetcher] # "idle" /\ UNCHANGED <<fetch, pages, total, got>>
    \/ pc'[Fetcher] = "idle" /\ outcome'[Fetcher] = "ok" /\ ReadPage
    \/ /\ pc'[Fetcher] = "idle" /\ outcome'[Fetcher] # "ok"
       /\ fetch' = "failed" /\ UNCHANGED <<pages, total, got>>

FetcherGets ==
    /\ Locked(Fetcher) \/ Login(Fetcher) \/ Request(Fetcher)
    /\ Answered
    /\ UNCHANGED <<listVars, max, stable, shrunk, grown>>

OthersGet ==
    /\ \E w \in Workers \ {Fetcher} : Work(w)
    /\ UNCHANGED <<listVars, fetchVars>>

-----------------------------------------------------------------------------
(* The vendor's list: rows come and go anywhere in it (what happens to it  *)
(* before the fetch is another initial list).                              *)

RowAdded ==
    /\ fetch = "paging"
    /\ added < MaxRow /\ added' = added + 1
    /\ \E i \in 1..(Len(list) + 1) :
          /\ list' = InsertAt(list, i, added')
          /\ grown' = (grown \/ i <= total)
    /\ UNCHANGED <<vars, fetch, max, pages, total, got, stable, shrunk>>

RowGone ==
    /\ fetch = "paging"
    /\ \E i \in DOMAIN list :
          /\ list' = RemoveAt(list, i)
          /\ stable' = stable \ {list[i]}
          /\ shrunk' = (shrunk \/ i <= total)
    /\ UNCHANGED <<vars, added, fetch, max, pages, total, got, grown>>

FetchNext ==
    \/ StartFetch \/ NextPage \/ FetcherGets \/ OthersGet
    \/ Expire /\ UNCHANGED <<listVars, fetchVars>>
    \/ RowAdded \/ RowGone

FetchSpec == FetchInit /\ [][FetchNext]_allVars

(* As in SuloSession, for the composed steps.                              *)
FetchFairSpec ==
    /\ FetchSpec
    /\ WF_allVars(NextPage)
    /\ \A w \in Workers :
          /\ WF_allVars(FetchNext /\ (Begin(w) \/ Login(w) \/ Request(w)))
          /\ SF_allVars(FetchNext /\ Locked(w))

-----------------------------------------------------------------------------
FetchTypeOK ==
    /\ TypeOK
    /\ list \in Seq(0..MaxRow) /\ added \in 0..MaxRow
    /\ fetch \in {"idle", "paging", "complete", "limited", "capped", "failed"}
    /\ max \in RowLimits \cup {0} /\ pages \in 0..MaxPages
    /\ got \in Seq(0..MaxRow) /\ total = Len(got)
    /\ max # 0 => total <= max
    /\ stable \subseteq 0..MaxRow /\ shrunk \in BOOLEAN /\ grown \in BOOLEAN

(* Paging over live data loses nothing: unless a row disappeared from the  *)
(* part already read, every row that was there throughout is returned when *)
(* the last page was short, and when limit or cap cut the fetch, what is   *)
(* missing is older than all that is returned.  So PollIngest may take the *)
(* fetch for one page, and one row that cannot be decoded keeps every      *)
(* fetch that reaches it from completing (client.go:275-321, sulo.go:277). *)
NothingSkipped ==
    (fetch \in {"complete", "limited", "capped"} /\ ~shrunk) =>
        /\ fetch = "complete" => stable \subseteq Range(got)
        /\ \A i, j \in DOMAIN list :
              (i < j /\ {list[i], list[j]} \subseteq stable /\ list[j] \in Range(got))
                  => list[i] \in Range(got)

(* A row is returned twice only if the list grew in the part already read; *)
(* toObservations drops such repeats, ListThings does not, and its caller  *)
(* then polls one Datastream twice at a time (sulo.go:247-249, :174).      *)
RepeatsNeedAnInsertion ==
    ~grown => \A i, j \in DOMAIN got : got[i] = got[j] => i = j

-----------------------------------------------------------------------------
(* The inductive strengthening.                                            *)

(* A row has one place in the list, and a row still to come is a new one.  *)
RowsAreDistinct ==
    /\ \A i, j \in DOMAIN list : list[i] = list[j] => i = j
    /\ \A r \in Range(list) \cup Range(got) : r <= added
    /\ stable \subseteq Range(list)

(* A page is asked for only during the fetch, below its cap and limit.     *)
RequestHasRoom ==
    /\ fetch = "idle" => got = <<>>
    /\ pc[Fetcher] # "idle" => fetch = "paging" /\ pages < MaxPages /\ ~LimitReached

(* Of the rows that stay, those in the part already read are returned, and *)
(* none is returned before a newer one.                                    *)
ReadIsReturned ==
    ~shrunk => \A i \in DOMAIN list :
        (i <= total /\ list[i] \in stable) => list[i] \in Range(got)

NewestComeFirst ==
    ~shrunk => \A i, j \in DOMAIN list :
        (i < j /\ {list[i], list[j]} \subseteq stable /\ list[j] \in Range(got))
            => list[i] \in Range(got)

CompleteIsAll == (fetch = "complete" /\ ~shrunk) => stable \subseteq Range(got)

(* What lies behind the part already read has not been returned.           *)
UnreadIsNew ==
    ~grown => \A j \in DOMAIN list : j > total => list[j] \notin Range(got)

PagingInvariant ==
    /\ RowsAreDistinct /\ ReadIsReturned /\ NewestComeFirst /\ CompleteIsAll
    /\ UnreadIsNew /\ RepeatsNeedAnInsertion

FetchIInv == IInv /\ RequestHasRoom /\ PagingInvariant
=============================================================================
