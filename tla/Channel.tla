------------------------------ MODULE Channel -------------------------------
(***************************************************************************)
(* A channel's run up to the expansion of its days (_run_channel,          *)
(* orchestrator.py): its script is evaluated in Ruby, the queries it       *)
(* declares are resolved against Jellyfin, and the blocks of every day of  *)
(* the window are chosen.  An exception anywhere is the channel's error.   *)
(*                                                                         *)
(* What is done with the blocks of a day is module DayPlan; which days a   *)
(* run skips because they have a file, what it writes, and in which order, *)
(* is module RollingWindow: here every day of the window is planned.       *)
(***************************************************************************)
EXTENDS Schedule, Resolver

CONSTANTS
    Starts,          \* what a run may begin with: its script, the weekday,
                     \* and what Jellyfin holds
    NotWords,        \* values whose spelling contains "not"
    WindowDays       \* days a run plans: 3

\* Jellyfin lists an item once.  In a script, blocks are inside a schedule,
\* which has an end.
ASSUME ChannelAssumption ==
    /\ WindowDays \in Nat
    /\ {Own, Raises} \cap VariantNames = {}
    /\ \A start \in Starts :
          /\ start.day \in 0..6 /\ start.counts \in BOOLEAN
          /\ start.shelf \in Seq(Items) /\ IsInjective(start.shelf)
          /\ start.fits \in [Atoms -> SUBSET Items]
          /\ start.script \in Seq(ToSet(start.script))
          /\ \A i \in DOMAIN start.script :
                /\ start.script[i].verb = "collection" => start.script[i].text \in Texts
                /\ start.script[i].verb = "filler" => start.script[i].text \in Texts \cup {<<>>}
                /\ start.script[i].verb = "block" =>
                      /\ DOMAIN start.script[i].variants \subseteq VariantNames
                      /\ \E j \in i + 1..Len(start.script) : start.script[j].verb = "end"

VARIABLES
    script,          \* statements still to run
    plan,            \* what Plan.current holds
    loading,         \* where the evaluation of the script is
    first,           \* weekday the window begins on
    slots,           \* day of the window: what its blocks air
    outcome          \* how planning the window ends

channelVars == <<script, plan, loading, first, slots, outcome>>
vars == <<channelVars, resolverVars>>

-----------------------------------------------------------------------------
(* The script.                                                             *)

\* What no `default_block` comes to.
NoDefault == [collection |-> "", layout |-> ""]

EmptyPlan == [channel |-> FALSE, collections |-> <<>>, fillers |-> <<>>, layouts |-> {},
              blocks |-> <<>>, default |-> NoDefault, scheduled |-> FALSE]

Names(declared) == {declared[i].name : i \in DOMAIN declared}
TextsOf(declared) == [i \in DOMAIN declared |-> declared[i].text]

\* validate_bounded_not! looks for "not" in the text, whatever it is part of.
NotInText(text) ==
    \E i \in DOMAIN text :
        text[i].kind = "NOT" \/ (IsAtom(text[i]) /\ text[i].value \in NotWords)
BoundInText(text) == \E i \in DOMAIN text : BoundAtom(text[i])
TextOK(text) == NotInText(text) => BoundInText(text)

\* A verb whose checks pass changes the plan, any other ends the script.
Runs(verb, checks, newPlan) ==
    /\ loading = "running" /\ script # <<>> /\ Head(script).verb = verb
    /\ IF checks
       THEN plan' = newPlan /\ script' = Tail(script) /\ UNCHANGED loading
       ELSE loading' = "refused" /\ UNCHANGED <<plan, script>>
    /\ UNCHANGED <<first, slots, outcome, resolverVars>>

Statement == Head(script)

\* In each, `sound` stands for the checks of the arguments' form.
DeclareChannel ==
    Runs("channel", ~plan.channel /\ Statement.sound, [plan EXCEPT !.channel = TRUE])

DeclareCollection ==
    Runs("collection",
         Statement.sound /\ TextOK(Statement.text) /\ Statement.name \notin Names(plan.collections),
         [plan EXCEPT !.collections = Append(@, Statement)])

\* A filler is taken from Jellyfin, or is a local file and has no text.
DeclareFiller ==
    Runs("filler",
         Statement.sound /\ TextOK(Statement.text) /\ Statement.name \notin Names(plan.fillers),
         [plan EXCEPT !.fillers = Append(@, Statement)])

DeclareLayout ==
    Runs("layout", Statement.sound /\ Statement.name \notin plan.layouts,
         [plan EXCEPT !.layouts = @ \cup {Statement.name}])

DeclareBlock ==
    Runs("block", BlockOK(Statement),
         [plan EXCEPT !.blocks = Append(@, Statement)])

DeclareDefaultBlock ==
    Runs("default_block", plan.default = NoDefault,
         [plan EXCEPT !.default = [collection |-> Statement.collection,
                                   layout |-> Statement.layout]])

\* The end of `schedule do ... end`: its blocks are checked and sorted.  A
\* script has one schedule.
EndOfSchedule ==
    Runs("end", NoDuplicates(plan.blocks) /\ ~plan.scheduled,
         [plan EXCEPT !.blocks = Sorted(@), !.scheduled = TRUE])

\* The end of the script: the plan is handed over as JSON, and its queries
\* are what there is to resolve.  Whether the layouts and collections that
\* blocks name exist is not asked.
EndOfScript ==
    /\ loading = "running" /\ script = <<>>
    /\ IF plan.channel /\ plan.scheduled
       THEN /\ loading' = "loaded"
            /\ queries' = TextsOf(plan.collections)
                            \o Kept(TextsOf(plan.fillers), ToSet(TextsOf(plan.fillers)) \ {<<>>})
            /\ resolving' = "between"
       ELSE loading' = "refused" /\ UNCHANGED <<queries, resolving>>
    /\ UNCHANGED <<script, plan, first, slots, outcome, jellyfin, pools, cache, request, misled>>

\* invoke_plan: Ruby stops with an error or is out of time, or what it says
\* is no JSON or no plan.
EvaluationFails ==
    /\ loading = "running"
    /\ loading' = "refused"
    /\ UNCHANGED <<script, plan, first, slots, outcome, resolverVars>>

-----------------------------------------------------------------------------
(* The window.                                                             *)

Day(d) == (first + d - 1) % 7

PoolOf(name) ==
    LET i == CHOOSE i \in DOMAIN plan.collections : plan.collections[i].name = name
    IN  IF name \in Names(plan.collections) THEN pools[i] ELSE <<>>

DefaultIsMissing ==
    /\ plan.default # NoDefault
    /\ \/ plan.default.collection \notin Names(plan.collections)
       \/ plan.default.layout \notin plan.layouts

\* What expand_day makes of the blocks of a day whose variants come to
\* `keys`, when its walk reaches `reached` of them and, if gap, has a gap to
\* fill.
DayFails(active, keys, reached, gap) ==
    \/ \E i \in DOMAIN active : keys[i] = Raises
    \/ active = <<>> /\ plan.default = NoDefault
    \/ \E i \in 1..reached : \/ LaidOut(active[i], keys[i]) \notin plan.layouts
                            \/ PoolOf(Airs(active[i], keys[i])) = <<>>
    \/ gap /\ DefaultIsMissing

PlanDay ==
    LET day    == Day(Len(slots) + 1)
        active == Active(plan.blocks, day) IN
    /\ resolving = "done" /\ outcome = "planning" /\ Len(slots) < WindowDays
    /\ \E keys \in [DOMAIN active -> VariantNames \cup {Own, Raises}],
          reached \in 0..Len(active), gap \in BOOLEAN :
          /\ \A i \in DOMAIN active : keys[i] \in Keys(active[i], day)
          \* The first block is always reached; what comes before it is a gap.
          /\ active # <<>> => reached > 0
          /\ active = <<>> \/ AtSeconds(active[1].at) > 0 => gap
          /\ IF DayFails(active, keys, reached, gap)
             THEN outcome' = "error" /\ UNCHANGED slots
             ELSE /\ slots' = Append(slots, [i \in DOMAIN active |->
                                  [block |-> active[i], key |-> keys[i],
                                   collection |-> Airs(active[i], keys[i])]])
                  /\ UNCHANGED outcome
    /\ UNCHANGED <<script, plan, loading, first, resolverVars>>

Finish ==
    /\ resolving = "done" /\ outcome = "planning" /\ Len(slots) = WindowDays
    /\ outcome' = "ok"
    /\ UNCHANGED <<script, plan, loading, first, slots, resolverVars>>

-----------------------------------------------------------------------------
Init ==
    \E start \in Starts :
       /\ script = start.script /\ plan = EmptyPlan /\ loading = "running"
       /\ first = start.day /\ slots = <<>> /\ outcome = "planning"
       /\ ResolverInit(start.shelf, start.fits, start.counts)

Load == \/ DeclareChannel \/ DeclareCollection \/ DeclareFiller \/ DeclareLayout
        \/ DeclareBlock \/ DeclareDefaultBlock \/ EndOfSchedule \/ EndOfScript

Resolve == GoesOn /\ UNCHANGED channelVars
RequestIsLost == RequestFails /\ UNCHANGED channelVars
LibraryChanges == (ItemComes \/ ItemGoes) /\ UNCHANGED channelVars

Ended == loading = "refused" \/ outcome # "planning"
            \/ resolving \in {"refused", "failed", "unbounded", "value"}

Next == Load \/ EvaluationFails \/ Resolve \/ RequestIsLost \/ LibraryChanges \/ PlanDay \/ Finish

Spec == Init /\ [][Next]_vars

\* The evaluation of the script, every request and every selector has a
\* time limit, so a run goes on.  No request need fail and Jellyfin need not
\* change: a run ends because it comes to an end.
FairSpec == Spec /\ WF_vars(Load) /\ WF_vars(Resolve) /\ WF_vars(PlanDay \/ Finish)

-----------------------------------------------------------------------------
(* Properties.                                                             *)

ResolvingStates ==
    {"idle", "between", "calling", "asking", "returning", "done", "refused", "failed",
     "unbounded", "value"}

IsList(list) == list = NoList \/ list \in Seq(Items)

\* Every variable keeps its type.
TypeOK ==
    /\ loading \in {"running", "loaded", "refused"}
    /\ outcome \in {"planning", "ok", "error"} /\ first \in 0..6
    /\ Len(slots) <= WindowDays
    /\ shelf \in Seq(Items) /\ fits \in [Atoms -> SUBSET Items] /\ counts \in BOOLEAN
    /\ come \cup gone \subseteq Items
    /\ pools \in Seq(Seq(Items)) /\ Len(pools) <= Len(queries)
    /\ \A e \in DOMAIN cache : cache[e] \in Seq(Items)
    /\ found \in Seq(Items)
    /\ \A n \in DOMAIN frames : IsList(frames[n].bound) /\ IsList(frames[n].left)
    /\ page.asking \in {"nothing", "id", "items"}
    /\ page.start \in Nat /\ page.got \in Seq(Items)
    /\ resolving \in ResolvingStates /\ misled \in BOOLEAN

\* What atoms are true of an item.
TrueOf(item) == {a \in Atoms : item \in fits[a]}

\* However a query is written, and whatever Jellyfin takes in meanwhile, an
\* item that was there all along is in the pool exactly when the text says
\* so: parsing, the order of requests, paging and the evaluation of AND, OR
\* and NOT agree.  Not so when an item has gone, for the pages after it
\* then begin one item too late, nor when a refused lookup was taken for an
\* unknown name.
PoolsFollowTheText ==
    gone = {} /\ ~misled =>
        \A k \in DOMAIN pools, i \in ToSet(shelf) \ come :
            Contains(pools[k], i) <=> Says(queries[k], TrueOf(i))

\* An item is in a pool once, even where several parts of the query name
\* it; only an item that comes between two pages makes the next page
\* repeat one.
NothingTwice ==
    come = {} => \A k \in DOMAIN pools : IsInjective(pools[k])

\* Two queries that parse to the same expression get the same pool in a
\* run, whatever happens in Jellyfin between the two (the resolver's cache).
SameQuerySamePool ==
    \A j, k \in DOMAIN pools :
        ParseQuery(queries[j]) = ParseQuery(queries[k]) => pools[j] = pools[k]

\* A script that has been accepted never selects an undeclared variant by a
\* day-of-week table: what the builder checks is what the planner needs.
TablesNameVariants ==
    \A d \in DOMAIN slots : \A i \in DOMAIN slots[d] :
        LET slot == slots[d][i] IN
        slot.block.selector.type = "dow" /\ slot.key # Own =>
            slot.key \in DOMAIN slot.block.variants

Restricted(b, word) == b.on.type = "symbol" /\ b.on.value = word

\* A time of day that a script splits into weekdays and weekends is served
\* by exactly one of the two blocks every day.
SplitSlotsAirOnce ==
    \A d \in DOMAIN slots : \A b, c \in ToSet(plan.blocks) :
        /\ Restricted(b, "weekdays") /\ Restricted(c, "weekends")
        /\ AtSeconds(b.at) = AtSeconds(c.at)
        => Cardinality({i \in DOMAIN slots[d] : slots[d][i].block \in {b, c}}) = 1

\* The words a table may answer a day with, the most special first.
WordsFor(day) == {DayName[day], IF day >= 5 THEN "weekends" ELSE "weekdays", "default"}

\* Planning fails only for a reason the script or Jellyfin gives: on that
\* day there is no block and no default, or a block whose table has no word
\* for the day, whose selector is a Proc, or one of whose collections or
\* layouts, or the default's, is undeclared or has nothing in it.
FailuresHaveAReason ==
    outcome = "error" =>
        LET day == Day(Len(slots) + 1)
            today == {b \in ToSet(plan.blocks) : AppliesToday(b.on, day)}
            named(b, part) == {Chosen(b, k, part) : k \in DOMAIN b.variants \cup {Own}}
        IN  \/ today = {} /\ plan.default = NoDefault
            \/ DefaultIsMissing
            \/ \E b \in today :
                  \/ b.selector.type = "proc"
                  \/ b.selector.type = "dow" /\ DOMAIN b.selector.table \cap WordsFor(day) = {}
                  \/ \E c \in named(b, "collection") : PoolOf(c) = <<>>
                  \/ \E l \in named(b, "layout") : l \notin plan.layouts

\* A run of a channel ends: loaded or refused, resolved or not, planned or
\* in error.
ChannelEnds == <>Ended

\* What the grammar's page says: a library or collection atom anywhere in
\* the expression is enough for its NOTs.
BoundAnywhereSuffices ==
    resolving = "unbounded" => ~BoundInText(queries[Len(pools) + 1])

=============================================================================
