------------------------------ MODULE Resolver ------------------------------
(***************************************************************************)
(* Resolving a channel's queries against Jellyfin: _resolve_pools          *)
(* (orchestrator.py), QueryResolver (jellyfin/resolver.py) and the paged   *)
(* requests of JellyfinClient (jellyfin/client.py).                        *)
(*                                                                         *)
(* Every request is an await.  Between two of them, and between two pages  *)
(* of one listing, Jellyfin may take an item in or lose one: a page is cut *)
(* out of what the listing is at that moment.                              *)
(***************************************************************************)
EXTENDS Query

CONSTANTS
    Items,           \* what Jellyfin may hold
    Atoms,           \* the atoms that occur in queries
    PageSize,        \* Limit: 500
    MaxChanges       \* bound: items that come or go

\* None is no list, and the atoms of a text are those that occur in queries.
ASSUME ResolverAssumption ==
    /\ PageSize \in Nat \ {0} /\ MaxChanges \in Nat
    /\ NoList \notin Seq(Items)
    /\ \A text \in Texts :
          /\ text \in Seq(ToSet(text))
          /\ \A n \in DOMAIN text : IsAtom(text[n]) => text[n] \in Atoms

VARIABLES
    shelf,           \* Jellyfin's items in the order it lists them
    fits,            \* atom: the items it is true of
    counts,          \* whether answers carry TotalRecordCount
    come, gone,      \* items taken in, and lost, since the run began
    queries,         \* the texts to resolve, collections before fillers
    pools,           \* the items found for the first of them
    cache,           \* expression: the items found for it
    frames,          \* the calls of _eval under way, the innermost first
    found,           \* what the last call to return has found
    page,            \* the listing being fetched
    resolving,       \* where _resolve_pools is
    misled           \* a lookup was refused and taken for "no such name"

jellyfin == <<shelf, fits, counts, come, gone>>
request  == <<frames, found, page>>
resolverVars == <<jellyfin, queries, pools, cache, request, resolving, misled>>

-----------------------------------------------------------------------------
NoPage == [asking |-> "nothing", start |-> 0, got |-> <<>>]
Lookup == [asking |-> "id", start |-> 0, got |-> <<>>]

\* Slip: positions are counted from one.
Page_FromOne(start, got) == [asking |-> "items", start |-> start - 1, got |-> got]

Page(start, got) == [asking |-> "items", start |-> start, got |-> got]

Expression == ParseQuery(queries[Len(pools) + 1])

\* A call of _eval: `near` are the bounding atoms beside it it has still to
\* ask for, `left` what the left side has found.
Frame(e, bound) == [expr |-> e, bound |-> bound, near |-> NearBounds(e), left |-> NoList]

\* The request that opens the listing of an atom.
Opening(atom) == IF atom.field \in LookupFields THEN Lookup ELSE Page(0, <<>>)

\* Slip: nothing is kept.
Cached_Never(e) == FALSE

Cached(e) == e \in DOMAIN cache

\* The next query: parsed, checked, looked up in the cache, or begun.
NextQuery ==
    /\ resolving = "between" /\ Len(pools) < Len(queries)
    /\ LET text == queries[Len(pools) + 1] IN
       IF ~WellFormed(text) \/ ~BoundedNot(text)
       THEN resolving' = "refused" /\ UNCHANGED <<pools, frames>>
       ELSE IF Cached(Expression)
       THEN pools' = Append(pools, cache[Expression]) /\ UNCHANGED <<frames, resolving>>
       ELSE /\ frames' = <<Frame(Expression, NoList)>> /\ resolving' = "calling"
            /\ UNCHANGED pools
    /\ UNCHANGED <<jellyfin, queries, cache, found, page, misled>>

\* All queries are resolved: build_resolved_pools.
HandOver ==
    /\ resolving = "between" /\ Len(pools) = Len(queries)
    /\ resolving' = "done"
    /\ UNCHANGED <<jellyfin, queries, pools, cache, request, misled>>

-----------------------------------------------------------------------------
(* _eval, a call of itself at a time.                                      *)

Top == Head(frames)

\* The atom the call asks for: one beside it that bounds, else its own.
Asked == IF Top.near # <<>> THEN Head(Top.near).atom ELSE Top.expr.atom

AskForAtom ==
    /\ resolving = "calling" /\ (Top.near # <<>> \/ Top.expr.op = "atom")
    /\ IF Asked.valid
       THEN page' = Opening(Asked) /\ resolving' = "asking"
       ELSE resolving' = "value" /\ UNCHANGED page
    /\ UNCHANGED <<jellyfin, queries, pools, cache, frames, found, misled>>

Within(items, bound) == IF bound = NoList THEN items ELSE Kept(items, ToSet(bound))

Return(items) ==
    /\ frames' = Tail(frames) /\ found' = items /\ resolving' = "returning"

\* An atom is answered: its items narrow the bound of the AND beside it, or
\* are what its own call returns.
Answered(items) ==
    /\ page' = NoPage
    /\ IF Top.near # <<>>
       THEN /\ frames' = Cons([Top EXCEPT !.near = Tail(@),
                                          !.bound = IF @ = NoList THEN items
                                                    ELSE Kept(@, ToSet(items))],
                              Tail(frames))
            /\ resolving' = "calling" /\ UNCHANGED found
       ELSE Return(Within(items, Top.bound))
    /\ UNCHANGED <<queries, pools, cache>>

Calls(rest, e) ==
    /\ frames' = Cons(Frame(e, Top.bound), rest)
    /\ resolving' = "calling"
    /\ UNCHANGED <<jellyfin, queries, pools, cache, found, page, misled>>

EvalLeft ==
    /\ resolving = "calling" /\ Top.near = <<>> /\ Top.expr.op \in {"and", "or"}
    /\ Calls(frames, Top.expr.left)

EvalRight ==
    /\ resolving = "returning" /\ frames # <<>>
    /\ Top.expr.op \in {"and", "or"} /\ Top.left = NoList
    /\ Calls(Cons([Top EXCEPT !.left = found], Tail(frames)), Top.expr.right)

EvalNot ==
    /\ resolving = "calling" /\ Top.expr.op = "not" /\ Top.bound # NoList
    /\ Calls(frames, Top.expr.expr)

\* A NOT with nothing to take it from raises.
UnboundedNot ==
    /\ resolving = "calling" /\ Top.expr.op = "not" /\ Top.bound = NoList
    /\ resolving' = "unbounded"
    /\ UNCHANGED <<jellyfin, queries, pools, cache, request, misled>>

\* What a call makes of what the calls in it have found.
Combine ==
    /\ resolving = "returning" /\ frames # <<>>
    /\ \/ Top.expr.op = "not" /\ Return(Kept(Top.bound, ToSet(Top.bound) \ ToSet(found)))
       \/ /\ Top.expr.op = "and" /\ Top.left # NoList
          /\ Return(Kept(Top.left, ToSet(found)))
       \/ /\ Top.expr.op = "or" /\ Top.left # NoList
          /\ Return(Once(Top.left \o found))
    /\ UNCHANGED <<jellyfin, queries, pools, cache, page, misled>>

\* The outermost call returns: its items are cached and are the query's pool.
Resolved ==
    /\ resolving = "returning" /\ frames = <<>>
    /\ pools' = Append(pools, found)
    /\ cache' = [e \in DOMAIN cache \cup {Expression} |->
                     IF e = Expression THEN found ELSE cache[e]]
    /\ found' = <<>> /\ resolving' = "between"
    /\ UNCHANGED <<jellyfin, queries, frames, page, misled>>

-----------------------------------------------------------------------------
(* The requests for an atom.                                               *)

\* resolve_*_id: the first exact name, else the first hit, is the container
\* whose items `fits` holds; an unknown name has none.
FindId ==
    /\ resolving = "asking" /\ page.asking = "id"
    /\ page' = Page(0, <<>>)
    /\ UNCHANGED <<jellyfin, queries, pools, cache, frames, found, resolving, misled>>

\* No hit, or an answer other than 200: the atom is true of nothing.
FindNoId ==
    /\ resolving = "asking" /\ page.asking = "id"
    /\ \E refused \in BOOLEAN :
          /\ refused \/ fits[Asked] = {}
          /\ misled' = (misled \/ refused)
    /\ Answered(<<>>)
    /\ UNCHANGED jellyfin

\* What Jellyfin lists for the request: a rating is compared only here, by
\* the client, so all items are asked for.
Listing(atom) ==
    IF atom.field = "rating" THEN shelf
    ELSE Kept(shelf, fits[atom])

Answer(atom, got) ==
    IF atom.field = "rating" THEN Kept(got, fits[atom]) ELSE got

Cut(listing, start) ==
    SubSeq(listing, start + 1,
           IF start + PageSize < Len(listing) THEN start + PageSize ELSE Len(listing))

\* Slip: an answer without a count is taken for the last.
LastPage_Uncounted(items, start, total) ==
    items = <<>> \/ start + Len(items) >= total

\* Slip: an empty page does not end the listing.
LastPage_GoesOn(items, start, total) == total # 0 /\ start + Len(items) >= total

\* Whether items() stops at an answer: nothing on the page, or all counted.
LastPage(items, start, total) ==
    items = <<>> \/ (total # 0 /\ start + Len(items) >= total)

FetchPage ==
    /\ resolving = "asking" /\ page.asking = "items"
    /\ LET listing == Listing(Asked)
           items   == Cut(listing, page.start)
           total   == IF counts THEN Len(listing) ELSE 0
           got     == page.got \o items
       IN  IF LastPage(items, page.start, total)
           THEN Answered(Answer(Asked, got))
           ELSE /\ page' = Page(page.start + Len(items), got)
                /\ UNCHANGED <<queries, pools, cache, frames, found, resolving>>
    /\ UNCHANGED <<jellyfin, misled>>

\* The request times out, or /Items answers other than 200: what is raised
\* ends the resolution of the channel.
RequestFails ==
    /\ resolving = "asking"
    /\ resolving' = "failed"
    /\ UNCHANGED <<jellyfin, queries, pools, cache, request, misled>>

-----------------------------------------------------------------------------
Changes == Cardinality(come) + Cardinality(gone)

ItemComes ==
    /\ resolving = "asking" /\ Changes < MaxChanges
    /\ \E i \in Items \ (ToSet(shelf) \cup gone), at \in 1..(Len(shelf) + 1) :
          /\ shelf' = InsertAt(shelf, at, i)
          /\ come' = come \cup {i}
    /\ UNCHANGED <<fits, counts, gone, queries, pools, cache, request, resolving, misled>>

ItemGoes ==
    /\ resolving = "asking" /\ Changes < MaxChanges
    /\ \E at \in DOMAIN shelf :
          /\ shelf' = RemoveAt(shelf, at)
          /\ gone' = gone \cup {shelf[at]}
    /\ UNCHANGED <<fits, counts, come, queries, pools, cache, request, resolving, misled>>

ResolverInit(held, meaning, counted) ==
    /\ shelf = held /\ fits = meaning /\ counts = counted
    /\ come = {} /\ gone = {}
    /\ queries = <<>> /\ pools = <<>> /\ cache = <<>>
    /\ frames = <<>> /\ found = <<>> /\ page = NoPage
    /\ resolving = "idle" /\ misled = FALSE

\* What _resolve_pools does by itself and with the answers it gets.
GoesOn ==
    \/ NextQuery \/ HandOver
    \/ AskForAtom \/ EvalLeft \/ EvalRight \/ EvalNot \/ UnboundedNot \/ Combine \/ Resolved
    \/ FindId \/ FindNoId \/ FetchPage

=============================================================================
