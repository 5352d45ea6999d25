----------------------------- MODULE ListPaging ------------------------------
(***************************************************************************)
(* ListVolumes and ListSnapshots, page by page.                            *)
(*                                                                         *)
(* The driver keeps nothing between two pages.  Each request lists all     *)
(* DSMs anew, sorts what it finds, and starts at the item that the token   *)
(* names: the first that the page before had no room for.  Between two     *)
(* pages, and between the listings of two DSMs, items are made and deleted *)
(* by others.                                                              *)
(*                                                                         *)
(* An operator whose comment begins with "Mutation" is not part of the     *)
(* model: it is a plausible bug of the operator after it.                  *)
(***************************************************************************)
EXTENDS Integers, SequencesExt, FiniteSets

CONSTANTS
    N,          \* volumes or snapshots there may be
    Servers,    \* the DSMs
    HomeOf,     \* HomeOf[i]: the DSM of item i
    ParentOf,   \* ParentOf[i]: the volume that snapshot i is of
    Twice,      \* the items of LUNs that are mapped to two targets
    Limits,     \* the values of max_entries in use; 0 is no limit
    Wants,      \* the snapshot ids asked for; 0 is all
    Sources,    \* the source volumes asked for; None is all
    None,       \* no volume
    MaxFaults,  \* bound on the listings that fail
    MaxChanges  \* bound on the items made and deleted

\* An item is its rank in the order of sorting: by volume id, or by the parent's
\* id and the snapshot's.
Items == 1..N
NoToken == 0

ASSUME NNat == N \in Nat
ASSUME HomeOfTyped == HomeOf \in [Items -> Servers]
ASSUME TwiceTyped == Twice \subseteq Items
ASSUME LimitsTyped == Limits \subseteq Nat /\ Wants \subseteq Items \cup {NoToken}
ASSUME RequestsAny == Limits # {} /\ Wants # {} /\ Sources # {}
ASSUME BoundsNat == MaxFaults \in Nat /\ MaxChanges \in Nat

VARIABLES
    exists,     \* the items that exist
    req,        \* the request being answered, or the one to send next
    got,        \* what the pages of this walk have held
    since,      \* the items that have existed all the time since the walk began
    faults, changes

vars == <<exists, req, got, since, faults, changes>>

-----------------------------------------------------------------------------
\* A walk: its parameters, its next token, and, while a request is answered, the
\* DSMs still to list and what was listed.
ReqType == [pc : {"idle", "send", "list", "done"}, token : Items \cup {NoToken},
            max : Limits, want : Wants, source : Sources,
            todo : SUBSET Servers, seen : SUBSET Items]

At(p) == req.pc = p

\* Mutation: in the order of the DSMs, as they were listed.
SortedByHome(seen) ==
    FlattenSeq([s \in 1..Cardinality(Servers) |->
        SetToSortSeq({i \in seen : HomeOf[i] = SetToSeq(Servers)[s]}, LAMBDA i, j : i < j)])

\* sort.Sort; an item listed twice is there twice.
Sorted(seen) ==
    FlattenSeq([i \in Items |-> IF i \notin seen THEN <<>>
                                ELSE IF i \in Twice THEN <<i, i>> ELSE <<i>>])

Begin ==
    /\ At("idle")
    /\ \E max \in Limits, want \in Wants, source \in Sources :
         req' = [req EXCEPT !.pc = "send", !.max = max, !.want = want, !.source = source]
    /\ got' = <<>> /\ since' = exists
    /\ UNCHANGED <<exists, faults, changes>>

Send ==
    /\ At("send")
    /\ req' = [req EXCEPT !.pc = "list", !.todo = Servers, !.seen = {}]
    /\ UNCHANGED <<exists, got, since, faults, changes>>

\* The items of one DSM; a DSM whose listing fails is left out.
ListDsm ==
    /\ At("list") /\ req.source = None
    /\ \E s \in req.todo :
         \/ /\ req' = [req EXCEPT !.todo = @ \ {s}, !.seen = @ \cup {i \in exists : HomeOf[i] = s}]
            /\ UNCHANGED faults
         \/ /\ faults < MaxFaults /\ faults' = faults + 1
            /\ req' = [req EXCEPT !.todo = @ \ {s}]
    /\ UNCHANGED <<exists, got, since, changes>>

\* DsmService.ListSnapshots: the snapshots of one volume, read at its DSM alone.
\* A volume that is not found and a listing that fails have none.
ListSource ==
    /\ At("list") /\ req.source # None /\ req.todo # {}
    /\ \/ /\ req' = [req EXCEPT !.todo = {}, !.seen = {i \in exists : ParentOf[i] = req.source}]
          /\ UNCHANGED faults
       \/ /\ faults < MaxFaults /\ faults' = faults + 1
          /\ req' = [req EXCEPT !.todo = {}]
    /\ UNCHANGED <<exists, got, since, changes>>

\* The entries from this index on that the request asks for.
Fit(list, start) ==
    FlattenSeq([k \in DOMAIN list |-> IF k >= start /\ req.want \in {NoToken, list[k]}
                                     THEN <<list[k]>> ELSE <<>>])

\* Mutation: the page is full one entry too early.
PageShort(list, start) ==
    LET fit == Fit(list, start)
        cut == req.max > 0 /\ Len(fit) >= req.max
    IN  [entries |-> IF cut THEN SubSeq(fit, 1, req.max - 1) ELSE fit,
         next |-> IF cut THEN fit[req.max] ELSE NoToken]

\* Mutation: entries that are filtered out take up room on the page.
PageCountsAll(list, start) ==
    LET rest == SubSeq(list, start, Len(list))
        cut == req.max > 0 /\ Len(rest) > req.max
        room == IF cut THEN SubSeq(rest, 1, req.max) ELSE rest
    IN  [entries |-> SelectSeq(room, LAMBDA i : req.want \in {NoToken, i}), next |-> NoToken]

\* The entries of a page that starts at this index, and the token of the next:
\* the first entry that found no room.  Entries filtered out do not count.
Page(list, start) ==
    LET fit == Fit(list, start)
        cut == req.max > 0 /\ Len(fit) > req.max
    IN  [entries |-> IF cut THEN SubSeq(fit, 1, req.max) ELSE fit,
         next |-> IF cut THEN fit[req.max + 1] ELSE NoToken]

\* A token whose item is not listed any more aborts the request, and the caller
\* starts again from the first page.
Answer ==
    LET list == Sorted(req.seen)
        hits == {k \in DOMAIN list : list[k] = req.token}
        start == IF hits = {} THEN 1 ELSE CHOOSE k \in hits : \A m \in hits : k <= m
        page == Page(list, start)
    IN  /\ At("list") /\ req.todo = {}
        /\ IF req.token # NoToken /\ hits = {}
             THEN /\ req' = [req EXCEPT !.pc = "send", !.token = NoToken, !.seen = {}]
                  /\ got' = <<>> /\ since' = exists
             ELSE /\ req' = [req EXCEPT !.pc = IF page.next = NoToken THEN "done" ELSE "send",
                                        !.token = page.next, !.seen = {}]
                  /\ got' = got \o page.entries /\ UNCHANGED since
        /\ UNCHANGED <<exists, faults, changes>>

Again ==
    /\ At("done") /\ req' = [req EXCEPT !.pc = "idle"]
    /\ UNCHANGED <<exists, got, since, faults, changes>>

\* Others make and delete items.
Change ==
    /\ changes < MaxChanges /\ changes' = changes + 1
    /\ \E i \in Items : exists' = IF i \in exists THEN exists \ {i} ELSE exists \cup {i}
    /\ since' = since \cap exists'
    /\ UNCHANGED <<req, got, faults>>

-----------------------------------------------------------------------------
Init ==
    /\ exists \in SUBSET Items
    /\ req \in [pc : {"idle"}, token : {NoToken}, max : {CHOOSE m \in Limits : TRUE},
                want : {CHOOSE w \in Wants : TRUE}, source : {CHOOSE s \in Sources : TRUE},
                todo : {{}}, seen : {{}}]
    /\ got = <<>> /\ since = {} /\ faults = 0 /\ changes = 0

Next == Begin \/ Send \/ ListDsm \/ ListSource \/ Answer \/ Again \/ Change

Spec == Init /\ [][Next]_vars

\* Handlers are scheduled, listings return, and the caller asks for the next page.
Fairness == WF_vars(Begin) /\ WF_vars(Send) /\ WF_vars(ListDsm) /\ WF_vars(ListSource)
            /\ WF_vars(Answer)
FairSpec == Spec /\ Fairness

-----------------------------------------------------------------------------
(* Properties.                                                             *)

Asked(i) == req.want \in {NoToken, i} /\ req.source \in {None, ParentOf[i]}

\* The shape of the state: every variable has its type.
TypeOK ==
    /\ exists \subseteq Items /\ since \subseteq exists
    /\ req \in ReqType
    /\ got \in Seq(Items)
    /\ faults \in 0..MaxFaults /\ changes \in 0..MaxChanges

\* The pages of a walk run through the order once: no item comes twice or after a
\* later one, although each page is cut from a listing of its own and items come
\* and go, also when a listing fails.
Ordered ==
    ~At("idle") => \A k \in 1..(Len(got) - 1) : got[k] < got[k + 1]

\* Where no listing fails, a walk that ends has shown every item asked for that
\* existed all the time, although the item that a token named may have gone.
ListedAll ==
    At("done") /\ faults = 0 => \A i \in since : Asked(i) => Contains(got, i)

\* A walk ends.
EventuallyDone == At("send") ~> At("done")

=============================================================================
