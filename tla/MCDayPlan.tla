----------------------------- MODULE MCDayPlan ------------------------------
(***************************************************************************)
(* Small plans for DayPlan: a day of three hours of four microseconds.     *)
(* Two nanoseconds make a microsecond, so odd durations lose one to every  *)
(* placement, and two microseconds make a millisecond.                     *)
(***************************************************************************)
EXTENDS DayPlan

MCCollections == {"shows", "films"}
MCKinds == {"pre_roll", "post_roll", "mid_roll", "to_mid", "slug", "fallback"}

NoMid == [every |-> "none", interval |-> 0, auto |-> FALSE, target |-> 0,
          wrap |-> << >>]
Mid(every, interval, auto, wrap) ==
    [every |-> every, interval |-> interval, auto |-> auto, target |-> 0,
     wrap |-> wrap]

MCLayout(pre, post, mid, slug, fill, gran) ==
    [pre |-> pre, post |-> post, mid |-> mid, slug |-> slug,
     fills |-> fill # << >>, fill |-> fill, gran |-> gran]

MCLayouts ==
    { MCLayout(0, 0, NoMid, 0, << >>, "per_item"),
      MCLayout(0, 0, NoMid, 3, <<"fallback">>, "per_item"),
      MCLayout(1, 1, Mid("chapter", 0, TRUE, <<"to_mid">>), 0,
               <<"mid_roll", "fallback">>, "per_item"),
      MCLayout(0, 0, Mid("minutes", 4, FALSE, << >>), 0,
               <<"fallback", "slug">>, "per_block"),
      MCLayout(0, 0, Mid("minutes", 3, TRUE, << >>), 0, << >>, "per_item"),
      MCLayout(2, 0, Mid("minutes", 0, TRUE, << >>), 0, << >>, "per_block") }

MCBlock(at, count, align, coll, layout) ==
    [at |-> at, count |-> count, align |-> align, coll |-> coll,
     known |-> TRUE, layout |-> layout]

OneBlock == { <<MCBlock(at, count, align, coll, layout)>> :
                at \in {2, 8}, count \in {0, 2}, align \in {3, 5}, coll \in MCCollections,
                layout \in MCLayouts }

TwoBlocks == { <<MCBlock(1, NoCount, a, coll, l), MCBlock(at, 1, 3, "shows", m)>> :
                 a \in {0, 4}, at \in {1, 5, 10}, coll \in MCCollections,
                 l \in MCLayouts, m \in MCLayouts }

Broken == { << [MCBlock(0, 1, 0, "shows", l) EXCEPT !.known = FALSE] >> : l \in MCLayouts }

Default(coll, known, gran) ==
    [on |-> TRUE, coll |-> coll, known |-> known, gran |-> gran]

MCDefaults == { [Default("shows", TRUE, "per_item") EXCEPT !.on = FALSE],
                Default("shows", TRUE, "per_item"),
                Default("films", TRUE, "per_block") }

\* _resolve_pools gives every local filler the stub duration.
File == [local |-> TRUE, ticks |-> <<StubNanos>>]
Query(durations) == [local |-> FALSE, ticks |-> durations]

MCFillers ==
    { [pre_roll |-> File, post_roll |-> Query(<<1>>),
       mid_roll |-> Query(<<5, 2>>), to_mid |-> File,
       slug |-> Query(<<3>>), fallback |-> Query(<<3, 7, 2>>)],
      [pre_roll |-> Query(<< >>), post_roll |-> File,
       mid_roll |-> Query(<<1, 4, 1>>), to_mid |-> Query(<< >>),
       slug |-> Query(<< >>), fallback |-> Query(<<3>>)],
      [pre_roll |-> Query(<<2>>), post_roll |-> Query(<< >>),
       mid_roll |-> File, to_mid |-> Query(<<2>>),
       slug |-> File, fallback |-> Query(<< >>)] }

MCPools == { [shows |-> <<6, 9>>, films |-> <<13>>],
             [shows |-> <<5, 0, 4>>, films |-> << >>] }

MCPlan(a, d, f, p, m) ==
    [active |-> a, deflt |-> d, filler |-> f, pool |-> p, mode |-> m]

MCPlans ==
    { MCPlan(a, d, f, p, [shows |-> m, films |-> "walk"]) :
        a \in OneBlock \cup Broken \cup {<< >>}, d \in MCDefaults, f \in MCFillers,
        p \in MCPools, m \in {"walk", "memory"} }
    \cup
    { MCPlan(a, d, f, p, [shows |-> "walk", films |-> "walk"]) :
        a \in TwoBlocks, d \in MCDefaults, f \in MCFillers, p \in MCPools }
    \cup
    { MCPlan(<< >>, Default("films", known, "per_item"), f,
             [shows |-> <<5>>], [shows |-> "any", films |-> "any"]) :
        known \in BOOLEAN, f \in MCFillers }

=============================================================================
