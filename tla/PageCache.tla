------------------------------ MODULE PageCache ------------------------------
(***************************************************************************)
(* The sorted array behind one page cache of memory.c: binary search,       *)
(* eviction and the reordering of the array after a slot was refilled.      *)
(* Paging treats a cache as a set of slots; this module justifies that: in  *)
(* every reachable array a page is found exactly when a slot holds it, a    *)
(* free slot is evicted first, and reordering moves pages without mixing    *)
(* them up.  The exchange that refills a slot is one step here: it          *)
(* succeeds, or it fails having already overwritten the slot's address and  *)
(* data (stream_request_page sets them before it verifies anything).        *)
(***************************************************************************)
EXTENDS Integers, FiniteSets

CONSTANTS
    NPAGE,              \* number of slots
    Addrs,              \* page addresses the app uses
    DrawFailureIgnored  \* ECALL_BAGL_DRAW drops the result of the system call

ASSUME PageCacheAssumption ==
    /\ NPAGE \in Nat \ {0}
    /\ Addrs \subseteq Nat \ {0}
    /\ DrawFailureIgnored \in BOOLEAN

VARIABLES
    pages,              \* slot -> [addr, of]; of: the page whose data it holds
    current_page,       \* cache->current_page, or NULL
    ret,                \* the page get_page or get_code_page returned, or NULL
    app_running

cacheVars == <<pages, current_page, ret, app_running>>

Slots == 0 .. (NPAGE - 1)
NULL  == -1
Free  == [addr |-> 0, of |-> 0]
Unverified == -1        \* data that failed the verification

\* The bounds l and r of the part of the array that binary_search still looks at.
Bounds == (0 .. NPAGE) \X (-1 .. (NPAGE - 1))

\* The loop of binary_search, as a function of its bounds.
SearchFrom(p, addr, last) ==
    LET search[b \in Bounds] ==
            LET l == b[1]
                r == b[2]
                m == l + (r - l) \div 2
            IN  IF l > r THEN NULL
                ELSE IF p[m].addr = addr THEN m
                ELSE IF p[m].addr < addr THEN search[<<m + 1, r>>]
                ELSE search[<<l, m - 1>>]
    IN  search[<<0, last>>]

\* Faulty variant: the last slot is left out.
binary_search_short(p, addr) == SearchFrom(p, addr, NPAGE - 2)

binary_search(p, addr) == SearchFrom(p, addr, NPAGE - 1)

\* Move slot n to slot i, shifting the slots between them (memmove).
Moved(p, n, i) ==
    [j \in Slots |-> IF j = i THEN p[n]
                     ELSE IF i < j /\ j =< n THEN p[j - 1]
                     ELSE IF n =< j /\ j < i THEN p[j + 1]
                     ELSE p[j]]

\* Faulty variant: pages only move towards the beginning.
PositionDown(p, n) ==
    IF \E i \in 0 .. (n - 1) : p[n].addr < p[i].addr
    THEN CHOOSE i \in 0 .. (n - 1) :
            /\ p[n].addr < p[i].addr
            /\ \A j \in 0 .. (i - 1) : ~(p[n].addr < p[j].addr)
    ELSE n

\* The slot reorder_pages moves slot n to.
Position(p, n) ==
    LET addr == p[n].addr
    IN  IF n > 0 /\ addr < p[n - 1].addr
        THEN CHOOSE i \in 0 .. (n - 1) :
                /\ addr < p[i].addr
                /\ \A j \in 0 .. (i - 1) : ~(addr < p[j].addr)
        ELSE IF n < NPAGE - 1 /\ addr > p[n + 1].addr
        THEN CHOOSE i \in (n + 1) .. (NPAGE - 1) :
                /\ addr > p[i].addr
                /\ \A j \in (i + 1) .. (NPAGE - 1) : ~(addr > p[j].addr)
        ELSE n

reorder_pages(p, n) == Moved(p, n, Position(p, n))

find_page(a) == binary_search(pages, a)

\* Faulty variant: free slots are not looked for.
evict_page_any == Slots

\* lfsr_get_random() % npage may be any slot.
evict_page == IF pages[0].addr = 0 THEN {0} ELSE Slots

\* Faulty variant: the pointer is taken before the reordering.
RefillStalePointer(n, a) ==
    /\ pages' = reorder_pages([pages EXCEPT ![n] = [addr |-> a, of |-> a]], n)
    /\ ret' = n

\* A slot is refilled: stream_request_page, or the zero page of create_page.
Refill(n, a) ==
    LET p == [pages EXCEPT ![n] = [addr |-> a, of |-> a]]
    IN  /\ pages' = reorder_pages(p, n)
        /\ ret' = Position(p, n)

\* The refill fails, before or after the slot was overwritten.
RefillFails(n, a) ==
    /\ \E p \in {pages[n], [addr |-> a, of |-> Unverified]} :
            pages' = [pages EXCEPT ![n] = p]
    /\ ret' = NULL
    /\ UNCHANGED current_page

\* get_page.  A failure stops the app, unless it happens in ECALL_BAGL_DRAW.
GetPage(a) ==
    /\ app_running
    /\ \/ /\ find_page(a) # NULL
          /\ ret' = find_page(a)
          /\ UNCHANGED <<pages, current_page, app_running>>
       \/ /\ find_page(a) = NULL
          /\ \E n \in evict_page :
               \/ Refill(n, a) /\ UNCHANGED <<current_page, app_running>>
               \/ RefillFails(n, a) /\ app_running' = DrawFailureIgnored

\* get_code_page.  stream_run_app calls fatal() on a failure.
GetCodePage(a) ==
    /\ app_running
    /\ \/ /\ current_page # NULL /\ pages[current_page].addr = a
          /\ ret' = current_page
          /\ UNCHANGED <<pages, current_page, app_running>>
       \/ /\ ~(current_page # NULL /\ pages[current_page].addr = a)
          /\ \/ /\ find_page(a) # NULL
                /\ ret' = find_page(a)
                /\ UNCHANGED <<pages, current_page, app_running>>
             \/ /\ find_page(a) = NULL
                /\ \E n \in evict_page :
                     \/ Refill(n, a) /\ current_page' = ret' /\ UNCHANGED app_running
                     \/ RefillFails(n, a) /\ app_running' = FALSE

\* The app was stopped.
Stopped == ~app_running /\ UNCHANGED cacheVars

CacheInit ==
    /\ pages = [n \in Slots |-> Free]
    /\ current_page = NULL
    /\ ret = NULL
    /\ app_running = TRUE

CacheNext == (\E a \in Addrs : GetPage(a) \/ GetCodePage(a)) \/ Stopped

CacheSpec == CacheInit /\ [][CacheNext]_cacheVars
-----------------------------------------------------------------------------
Holds(a) == {n \in Slots : pages[n].addr = a}

\* "pages are sorted by their addresses, free pages are the first array entries"
\* (evict_page): binary_search and reorder_pages depend on it.
PagesSorted ==
    app_running => \A i, j \in Slots : i < j => pages[i].addr =< pages[j].addr

\* binary_search misses no page of the cache, no page is there twice (a miss on a page
\* that is in a slot would load a second, older copy of it), and reordering moved whole
\* pages: the data found with an address is that of the address.
FindsEveryPage ==
    app_running =>
        \A a \in Addrs : /\ find_page(a) = NULL <=> Holds(a) = {}
                        /\ Cardinality(Holds(a)) =< 1
                        /\ \A n \in Holds(a) : pages[n].of = a

\* The pointer that is returned points, after the reordering, to the page asked
\* for: the step found it there or put it there.
ReturnsThePage ==
    [][\A a \in Addrs : GetPage(a) \/ GetCodePage(a) =>
            ret' = NULL \/ (pages'[ret'].addr = a /\ pages'[ret'].of = a)]_cacheVars

\* One page at most leaves the cache in a step, and none while a slot is free.
EvictsOnlyTheVictim ==
    [][LET before == {pages[n].addr : n \in Slots} \ {0}
           after  == {pages'[n].addr : n \in Slots}
       IN  app_running' => Cardinality(before \ after) =<
                            IF 0 \in {pages[n].addr : n \in Slots} THEN 0 ELSE 1]_cacheVars
=============================================================================
