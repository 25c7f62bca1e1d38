----------------------------- MODULE Pagination -----------------------------
(***************************************************************************)
(* One iteration over a paginated list of the server while other clients,  *)
(* or the consumer of the iterator itself, create and delete items:        *)
(* BaseClient._iter_paginated (client/base.py) over the admin server and   *)
(* DataMasqueIfmClient._iter_ifm_paginated (client/ifm.py) over IFM.       *)
(*                                                                         *)
(* Both iterators are generators: between two pages the consumer runs for  *)
(* as long as it likes.  The admin iterator follows the link `next' of the *)
(* answer, which carries the server's offset; the IFM iterator computes    *)
(* its own offset from the items it received.                              *)
(***************************************************************************)
EXTENDS Naturals, Sequences, FiniteSets

CONSTANTS Item,       \* the items that may be in the list
          PageSize,   \* page_size, the limit the client asks for
          ServerMax,  \* the server serves no more items than this in a page
          MaxChanges  \* bound on the changes made during one iteration

ASSUME PaginationAssumption ==
    /\ PageSize \in Nat \ {0}
    /\ ServerMax \in Nat \ {0}
    /\ MaxChanges \in Nat

VARIABLES api,      \* "admin" or "ifm"
          list,     \* server: the items in the order of the endpoint
          pc,       \* "idle", "fetch" between pages, "done", "failed"
          offset,   \* the offset of the page to fetch next
          yielded,  \* what the iterator has yielded
          stayed,   \* history: items listed since the iteration began
          inserts,  \* history: items created since then
          deletes   \* history: items deleted since then

iterVars == <<api, pc, offset, yielded>>
vars == <<api, list, pc, offset, yielded, stayed, inserts, deletes>>

Elements(s) == {s[i] : i \in DOMAIN s}
IsSet(s) == \A i, j \in DOMAIN s : s[i] = s[j] => i = j
Least(a, b) == IF a < b THEN a ELSE b

(* Types, and that the offset counts the items already yielded             *)
(* (_iter_ifm_paginated: offset += len(page.items)).                       *)
TypeOK ==
    /\ api \in {"admin", "ifm"}
    /\ list \in Seq(Item) /\ IsSet(list)
    /\ pc \in {"idle", "fetch", "done", "failed"}
    /\ yielded \in Seq(Item)
    /\ stayed \subseteq Elements(list)
    /\ inserts \in 0..MaxChanges
    /\ deletes \in 0..MaxChanges
    /\ offset \in Nat
    /\ pc = "fetch" => offset = Len(yielded)

(* The list may hold any of the items at first, in any order.              *)
Lists == {s \in UNION {[1..n -> Item] : n \in 0..Cardinality(Item)} : IsSet(s)}

Init ==
    /\ api \in {"admin", "ifm"}
    /\ list \in Lists
    /\ pc = "idle"
    /\ offset = 0
    /\ yielded = <<>>
    /\ stayed = {}
    /\ inserts = 0
    /\ deletes = 0

-----------------------------------------------------------------------------
(* The iterators.                                                          *)

Begin ==
    /\ pc # "fetch"
    /\ pc' = "fetch"
    /\ offset' = 0
    /\ yielded' = <<>>
    /\ stayed' = Elements(list)
    /\ inserts' = 0
    /\ deletes' = 0
    /\ UNCHANGED <<api, list>>

(* The server's answer to the request for a page.                          *)
Limit == Least(PageSize, ServerMax)
Page == SubSeq(list, offset + 1, Least(offset + Limit, Len(list)))

(* The operators named M_... are faults a change of this code could bring  *)
(* in; each property is shown to notice one of them.                       *)
M_AdvanceByPageSize == offset + PageSize

(* The offset in the server's `next' link, or the client's own count.      *)
NextOffset == IF api = "admin" THEN offset + Limit ELSE offset + Len(Page)

M_StopAtShortPage == Len(Page) < PageSize
M_StopBeyondTotal == NextOffset > Len(list)

(* There is no `next' link; or the page is empty, or reaches the total.    *)
LastPage ==
    IF api = "admin" THEN NextOffset >= Len(list)
    ELSE Page = <<>> \/ NextOffset >= Len(list)

FetchPage ==
    /\ pc = "fetch"
    /\ yielded' = yielded \o Page
    /\ IF LastPage THEN pc' = "done" /\ UNCHANGED offset
       ELSE offset' = NextOffset /\ UNCHANGED pc
    /\ UNCHANGED <<api, list, stayed, inserts, deletes>>

(* A request of the iterator raises, and the iterator with it.             *)
FetchFails ==
    /\ pc = "fetch"
    /\ pc' = "failed"
    /\ UNCHANGED <<api, list, offset, yielded, stayed, inserts, deletes>>

-----------------------------------------------------------------------------
(* Everybody else.                                                         *)

Insert(x, i) ==
    /\ pc = "fetch"
    /\ inserts + deletes < MaxChanges
    /\ x \notin Elements(list)
    /\ list' = SubSeq(list, 1, i) \o <<x>> \o SubSeq(list, i + 1, Len(list))
    /\ inserts' = inserts + 1
    /\ UNCHANGED <<iterVars, stayed, deletes>>

Delete(i) ==
    /\ pc = "fetch"
    /\ inserts + deletes < MaxChanges
    /\ list' = SubSeq(list, 1, i - 1) \o SubSeq(list, i + 1, Len(list))
    /\ stayed' = stayed \ {list[i]}
    /\ deletes' = deletes + 1
    /\ UNCHANGED <<iterVars, inserts>>

-----------------------------------------------------------------------------
Next ==
    \/ Begin
    \/ FetchPage
    \/ FetchFails
    \/ \E x \in Item, i \in 0..Len(list) : Insert(x, i)
    \/ \E i \in 1..Len(list) : Delete(i)

Spec == Init /\ [][Next]_vars

(* The consumer goes on asking for items, and requests are answered; one   *)
(* that fails ends the iteration too, but nothing here relies on that.     *)
FairSpec == Spec /\ WF_vars(FetchPage)

-----------------------------------------------------------------------------
(* A list that nobody changes is yielded exactly as it is, whatever the    *)
(* page sizes: no item twice, none left out, in order (_iter_paginated,    *)
(* _iter_ifm_paginated).                                                   *)
QuietIterationExact ==
    pc = "done" /\ inserts + deletes = 0 => yielded = list

(* Offsets shift when the list changes during an iteration: every deletion *)
(* hides at most one item from it that was listed all along, and every     *)
(* creation makes it repeat at most one (_iter_paginated,                  *)
(* _iter_ifm_paginated).                                                   *)
EachChangeCostsOneItem ==
    /\ pc = "done" => Cardinality(stayed \ Elements(yielded)) <= deletes
    /\ Len(yielded) - Cardinality(Elements(yielded)) <= inserts

(* An iteration ends, by exhausting the list or by an exception.           *)
IterationEnds == pc = "fetch" ~> pc \in {"done", "failed"}
=============================================================================
