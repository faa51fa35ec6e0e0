-------------------------------- MODULE Feed --------------------------------
(***************************************************************************)
(* storage/keyset over ids of sortid: a client walks a list page by page,  *)
(* newest first, while writers mint ids and commit rows under them and     *)
(* others delete rows.                                                     *)
(*                                                                         *)
(* A writer mints the id of its row and commits the row later, so rows     *)
(* become visible in another order than their ids.  Each page is one       *)
(* request: Pager.Query reads its texts, the service's query reads a       *)
(* snapshot of the table, and Page checks the rows it returned.  The query *)
(* is the service's: one that breaks its contract is modelled too, since   *)
(* refusing it is what Page's checks are for.                              *)
(***************************************************************************)
EXTENDS Minter, FiniteSets, Sequences, SequencesExt

CONSTANTS Sizes,     \* page sizes a request may name: 1 .. largest
          Alien      \* the id of a row another version wrote

ASSUME FeedAssumption ==
    /\ Sizes \subseteq Nat \ {0}
    /\ Alien \in Nat
    /\ ~IsMinted(Alien)

VARIABLES table,     \* the ids of the rows a query would see
          committed, \* the calls whose rows were committed
          walk,      \* what the client is doing
          bound,     \* the cursor it holds, or Above
          pages,     \* the ids of the pages it was served, in order
          cut        \* auxiliary: the rows the walk owes, the calls that had minted at
                     \* the first page's moment, and whether every page it was served
                     \* came of a query that is what it was asked for

feedVars == <<table, committed, walk, bound, pages, cut>>
vars     == <<clock, phase, at, last, ts, id, table, committed, walk, bound, pages, cut>>

\* The bound of a first page: above every id.
Above == 16 * Span

\* Query reads the cursor: none, or a text Parse accepts.
IsCursor(b) == b = Above \/ IsMinted(b)

\* What Page answers for rows it refuses.
Refusal == [ok |-> FALSE, page |-> <<>>, next |-> Above]

-----------------------------------------------------------------------------
(***************************************************************************)
(* The service's query, and Page.                                          *)
(***************************************************************************)
Descending(S) ==
    CHOOSE s \in [1 .. Cardinality(S) -> S] : \A i, j \in DOMAIN s : i < j => s[i] > s[j]

\* WHERE id < $bound ORDER BY id DESC LIMIT $limit
Select(b, limit) ==
    LET below == Descending({i \in table : i < b})
    IN  SubSeq(below, 1, IF Len(below) < limit THEN Len(below) ELSE limit)

\* A check that compares each row with the bound and not with its neighbour.
IsContractOfBound(b, limit, rows) ==
    /\ Len(rows) <= limit
    /\ \A i \in DOMAIN rows : rows[i] < b /\ IsMinted(rows[i])

\* Rows of any version.
IsContractOfAnyVersion(b, limit, rows) ==
    /\ Len(rows) <= limit
    /\ \A i \in DOMAIN rows : rows[i] < IF i = 1 THEN b ELSE rows[i - 1]

\* The checks of Page: within the limit, each below the bound or the row
\* before it, each of version 7.
IsContract(b, limit, rows) ==
    /\ Len(rows) <= limit
    /\ \A i \in DOMAIN rows :
        /\ rows[i] < IF i = 1 THEN b ELSE rows[i - 1]
        /\ IsMinted(rows[i])

\* The next cursor read off the extra row instead of the page's last.
PageOfExtra(b, limit, rows) ==
    IF ~IsContract(b, limit, rows) THEN Refusal
    ELSE IF Len(rows) <= limit - 1 THEN [ok |-> TRUE, page |-> rows, next |-> Above]
    ELSE [ok |-> TRUE, page |-> SubSeq(rows, 1, limit - 1), next |-> rows[limit]]

\* The page, and the next cursor: the id of the page's last row when the
\* extra row came, and none on the last page.
Page(b, limit, rows) ==
    IF ~IsContract(b, limit, rows) THEN Refusal
    ELSE IF Len(rows) <= limit - 1 THEN [ok |-> TRUE, page |-> rows, next |-> Above]
    ELSE [ok |-> TRUE, page |-> SubSeq(rows, 1, limit - 1), next |-> rows[limit - 1]]

-----------------------------------------------------------------------------
Init ==
    /\ MinterInit
    /\ table = {}
    /\ committed = {}
    /\ walk = "idle"
    /\ bound = Above
    /\ pages = <<>>
    /\ cut = [rows |-> {}, minted |-> {}, honest |-> TRUE]

\* A writer commits the row it minted an id for.  One that sorts below the
\* cursor of a walk is still ahead of it.
Commit(c) ==
    /\ phase[c] = "minted"
    /\ c \notin committed
    /\ committed' = committed \cup {c}
    /\ table' = table \cup {id[c]}
    /\ cut' = IF walk = "walking" /\ id[c] < bound THEN [cut EXCEPT !.rows = @ \cup {id[c]}] ELSE cut
    /\ UNCHANGED <<minterVars, walk, bound, pages>>

\* A row is deleted: the cursor's own, perhaps.
Delete(i) ==
    /\ i \in table
    /\ table' = table \ {i}
    /\ cut' = [cut EXCEPT !.rows = @ \ {i}]
    /\ UNCHANGED <<minterVars, committed, walk, bound, pages>>

\* A request for a page of size n, answered from the rows the query returned:
\* the first of the walk, or the one after the cursor the client holds.  A
\* refused one leaves the client where it was.
Serve(n, rows) ==
    LET answer == Page(bound, n + 1, rows)
    IN  /\ walk # "done"
        /\ IsCursor(bound)
        /\ pages' = pages \o answer.page
        /\ bound' = IF answer.ok THEN answer.next ELSE bound
        /\ walk' = IF ~answer.ok THEN walk
                   ELSE IF answer.next = Above THEN "done" ELSE "walking"

\* The first page's moment is the walk's; a later page keeps it.
Moment == IF walk = "idle" THEN [cut EXCEPT !.rows = table, !.minted = Minted] ELSE cut

\* The query returns what it was asked for.
Fetch(n) ==
    /\ Serve(n, Select(bound, n + 1))
    /\ cut' = Moment
    /\ UNCHANGED <<minterVars, table, committed>>

\* The query returns something else: past the limit, above the bound, out of
\* order, of another version, which Page refuses, or short of rows it should
\* hold, which Page cannot see.
FetchBroken(n, rows) ==
    /\ Serve(n, rows)
    /\ cut' = [Moment EXCEPT !.honest = @ /\ ~IsContract(bound, n + 1, rows)]
    /\ UNCHANGED <<minterVars, table, committed>>

Next ==
    \/ MinterNext /\ UNCHANGED feedVars
    \/ \E c \in Calls : Commit(c)
    \/ \E i \in table : Delete(i)
    \/ \E n \in Sizes : Fetch(n)
    \/ \E n \in Sizes : \E rows \in SeqOf(table \cup {Alien}, n + 2) : FetchBroken(n, rows)

Spec == Init /\ [][Next]_vars

-----------------------------------------------------------------------------
Ids == {id[c] : c \in Minted}

FeedTypeOK ==
    /\ table \subseteq Ids
    /\ committed \subseteq Minted
    /\ walk \in {"idle", "walking", "done"}
    /\ bound \in Nat
    /\ pages \in Seq(Nat)
    /\ cut \in [rows : SUBSET table, minted : SUBSET Minted, honest : BOOLEAN]

\* No row is served twice, and rows come newest first, over all the pages of a
\* walk and whatever the service's query returned (keyset.go:149-151).
NoRepeat == \A i, j \in DOMAIN pages : i < j => pages[i] > pages[j]

\* The cursor a client was handed is one the next request is accepted on
\* (keyset.go:169-171), whatever the service's query returned.
CursorAccepted == IsCursor(bound)

\* A row that was there when the walk began, or was committed since below its
\* cursor, and still is, has been served once the walk has passed its place: no
\* row is lost between two pages, their sizes and the deletions between them
\* whatever they are, the cursor's own row's among them, nor by a page that was
\* refused.  Lost are only rows committed above the cursor.
NoneLost ==
    (walk # "idle" /\ cut.honest) =>
        \A i \in cut.rows : (walk = "done" \/ i >= bound) => i \in Range(pages)

\* A walk serves no row minted after it began (README.md:793): ids minted
\* later sort above every cursor, whatever the clock does, so a list that
\* grows at its head does not keep a walk from ending.
NothingNewer ==
    Unwrapped => Range(pages) \subseteq {id[c] : c \in cut.minted}

=============================================================================
