----------------------------- MODULE MCChannel ------------------------------
(***************************************************************************)
(* Scripts of two queries and one schedule: each of the queries below and  *)
(* one of two more under a default block, and every schedule below over    *)
(* two plain queries from every weekday on.  Jellyfin holds up to three    *)
(* items, listed one to a page.                                            *)
(***************************************************************************)
EXTENDS Channel

CONSTANTS a, b, c

MCItems == {a, b, c}

Shows  == AtomOf("library", "shows", TRUE)
Saga   == AtomOf("series", "saga", TRUE)
Odd    == AtomOf("tag", "odd", TRUE)
Rock   == AtomOf("genre", "rock", TRUE)
Known  == AtomOf("tag", "notable", TRUE)
Liked  == AtomOf("rating", ">7", TRUE)
NoYear == AtomOf("year", "soon", FALSE)

MCAtoms == {Shows, Saga, Odd, Rock, Known, Liked, NoYear}
MCNotWords == {"notable"}

Shelves == {<<a, b, c>>, <<c, a>>}

True(shows, saga, odd, rock) ==
    [x \in MCAtoms |-> CASE x = Shows -> shows [] x = Saga -> saga [] x = Odd -> odd
                         [] x = Rock -> rock [] OTHER -> {a, b}]
Meanings == {True({a, b, c}, {b, c}, {b}, {a, b}), True({a, b}, {}, {a, c}, {c})}

AND == Keyword("AND")
OR  == Keyword("OR")
NOT == Keyword("NOT")
Open  == Keyword("(")
Close == Keyword(")")

Simple == <<Shows>>
Bare   == <<Odd>>

MCTexts ==
    {Simple, Bare,
     <<Open, Shows, Close>>,
     <<Shows, AND, NOT, Odd>>,
     <<NOT, Saga, AND, Shows>>,
     <<Shows, AND, Rock, AND, NOT, Odd>>,
     <<Odd, OR, Rock, AND, Shows>>,
     <<Open, Odd, OR, Rock, Close, AND, Saga>>,
     <<Shows, AND, NOT, Open, Odd, AND, NOT, Rock, Close>>,
     <<NOT, Odd>>,
     <<Known, OR, Liked>>,
     <<Liked, OR, Odd>>,
     <<Odd, AND, NoYear>>,
     <<Odd, AND>>}

Named(verb, name, text) == [verb |-> verb, name |-> name, text |-> text, sound |-> TRUE]
Collection(name, text) == Named("collection", name, text)
Filler(name, text) == Named("filler", name, text)
LocalFiller(name) == Named("filler", name, <<>>)
Layout(name) == Named("layout", name, <<>>)
Malformed(statement) == [statement EXCEPT !.sound = FALSE]
TheChannel == [verb |-> "channel", sound |-> TRUE]
End == [verb |-> "end"]

Eight == [h |-> 8, m |-> 0, s |-> 0]
Midnight == [h |-> 0, m |-> 0, s |-> 0]
TwentyFour == [h |-> 24, m |-> 0, s |-> 0]

On(type, value, rank) == [type |-> type, value |-> value, rank |-> rank]
Weekdays == On("symbol", "weekdays", 2)
Weekends == On("symbol", "weekends", 3)
Monday == On("symbol", "monday", 1)
MonSat == On("list", {"mon", "sat"}, 1)

Varied(at, on, collection, variants, selector) ==
    [verb |-> "block", at |-> at, on |-> on, collection |-> collection, layout |-> "l",
     sound |-> TRUE, varies |-> selector # NoSelector, variants |-> variants, selector |-> selector]
Plain(at, on, collection) == Varied(at, on, collection, <<>>, NoSelector)
Strange(statement) == [statement EXCEPT !.layout = "nothing"]
Default(collection) == [verb |-> "default_block", collection |-> collection, layout |-> "l"]

Two == [one |-> [collection |-> "d", layout |-> ""],
        two |-> [collection |-> "", layout |-> "k"]]
Lost == [one |-> [collection |-> "d", layout |-> "nothing"]]
MCVariantNames == {"one", "two", "three"}

Schedules ==
    {<<Plain(Eight, Weekends, "c"), Plain(Eight, Weekdays, "d"), Default("c")>>,
     <<Plain(Eight, Always, "c"), Plain(Eight, Monday, "d")>>,
     <<Plain(Eight, Always, "c"), Plain(Eight, Always, "d")>>,
     <<Plain(Eight, MonSat, "c"), Plain(Midnight, Weekends, "d")>>,
     <<Plain(TwentyFour, Always, "c")>>,
     <<Malformed(Plain(Eight, Always, "c"))>>,
     <<Plain(Eight, On("hash", "", 1), "c")>>,
     <<Plain(Eight, Always, "nowhere")>>,
     <<Default("c"), Default("d")>>,
     <<Default("c"), End, Default("c")>>,
     <<Strange(Plain(Midnight, Weekends, "c")), Default("c")>>,
     <<Plain(Eight, Always, "c"), Strange(Default("c"))>>,
     <<Varied(Midnight, Always, "c", Lost, DowSelector([sun |-> "one", default |-> "one"]))>>,
     <<Default("nowhere")>>,
     <<Varied(Eight, Always, "c", Two, DowSelector([weekdays |-> "one"]))>>,
     <<Varied(Eight, Always, "c", Two,
              DowSelector([fri |-> "one", sat |-> "two", weekends |-> "one", weekdays |-> "two"]))>>,
     <<Varied(Eight, Always, "c", Two, DowSelector([sat |-> "one", default |-> "two"]))>>,
     <<Varied(Midnight, Always, "c", Two, DowSelector([default |-> "three"]))>>,
     <<Varied(Midnight, Always, "c", Two, DowSelector([someday |-> "one"]))>>,
     <<Varied(Midnight, Weekends, "c", Two, ProcSelector), Default("c")>>,
     <<Varied(Midnight, Always, "c", <<>>, DowSelector(<<>>))>>}

Prelude == <<TheChannel, Layout("l"), Layout("k")>>

QueryScripts ==
    {Prelude \o <<Collection("c", p), Collection("d", q), Default("c"), End>> :
        p \in MCTexts, q \in {<<Open, Shows, Close>>, <<Shows, AND, NOT, Odd>>}}

PlainQueries ==
    Prelude \o <<Collection("c", Simple), Filler("fallback", Bare), LocalFiller("slug"),
                 Collection("d", Bare)>>

\* Scripts that leave something out, or say it twice, or wrongly.
OddScripts ==
    {<<Layout("l"), Collection("c", Simple), Default("c"), End>>,
     <<TheChannel, Collection("c", Simple)>>,
     <<TheChannel, TheChannel>>,
     <<Malformed(TheChannel)>>,
     <<TheChannel, Layout("l"), Layout("l")>>,
     <<TheChannel, Malformed(Layout("l"))>>,
     <<TheChannel, Collection("c", Simple), Collection("c", Bare)>>,
     <<TheChannel, Malformed(Collection("c", Simple))>>,
     <<TheChannel, LocalFiller("slug"), Filler("slug", Bare)>>,
     <<TheChannel, Malformed(LocalFiller("slug"))>>}

ScheduleScripts == {PlainQueries \o s \o <<End>> : s \in Schedules} \cup OddScripts

Start(statements, day, held, meaning, counted) ==
    [script |-> statements, day |-> day, shelf |-> held, fits |-> meaning, counts |-> counted]

MCStarts ==
    {Start(s, 0, held, meaning, counted) :
        s \in QueryScripts, held \in Shelves, meaning \in Meanings, counted \in BOOLEAN}
    \cup {Start(s, day, <<a, b>>, meaning, TRUE) :
        s \in ScheduleScripts, day \in 0..6, meaning \in Meanings}

=============================================================================
