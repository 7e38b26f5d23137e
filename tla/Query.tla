------------------------------- MODULE Query --------------------------------
(***************************************************************************)
(* The expressions that name what a collection holds (jellyfin/query.py):  *)
(* how a text is parsed, which expressions are refused, and what a text    *)
(* says of an item.                                                        *)
(*                                                                         *)
(* A text is a sequence of tokens: the keywords, the parentheses, and      *)
(* atoms such as library:"Cartoons", whose spelling is left out.  An atom  *)
(* has a field, a value, and tells whether the value is of a form its      *)
(* field takes (year:abc is not).                                          *)
(***************************************************************************)
EXTENDS Lists

CONSTANTS
    Texts,           \* the texts there may be
    NoList           \* Python's None in the place of a list

Keyword(k) == [kind |-> k]
AtomOf(field, value, valid) ==
    [kind |-> "atom", field |-> field, value |-> value, valid |-> valid]

BoundFields == {"library", "collection"}
LookupFields == {"series", "collection", "library", "person"}

IsAtom(token) == token.kind = "atom"
BoundAtom(token) == IsAtom(token) /\ token.field \in BoundFields

\* And and Or, told apart by `op`.
Pair(op, l, r) == [op |-> op, left |-> l, right |-> r]
Not(e)  == [op |-> "not", expr |-> e]
Leaf(a) == [op |-> "atom", atom |-> a]

-----------------------------------------------------------------------------
(* parse_query: recursive descent, NOT over AND over OR, left to right.    *)
(* A parse is the tree read so far and the position behind it; where the   *)
(* code raises, the position is Stuck, at which no token is found.         *)

Stuck == 0
KindAt(text, at) == IF at \in DOMAIN text THEN text[at].kind ELSE "end"
Parsed(tree, at) == [tree |-> tree, at |-> at]

Nothing == Parsed([op |-> "nothing"], Stuck)

\* Where something may be read: at a token, or behind the last.
Positions(text) == 1..(Len(text) + 1)

\* Word is what joins the operands of a level.
Word == [or |-> "OR", and |-> "AND"]

\* _parse_term and _parse_not.  `later` is what the calls in them read.
ParseTerm(text, later, at) ==
    LET inner == later.or[at + 1]
    IN  CASE KindAt(text, at) = "(" ->
               Parsed(inner.tree,
                      IF KindAt(text, inner.at) = ")" THEN inner.at + 1 ELSE Stuck)
          [] KindAt(text, at) = "atom" -> Parsed(Leaf(text[at]), at + 1)
          [] OTHER -> Nothing

ParseNot(text, later, at) ==
    LET negated == later.not[at + 1]
    IN  IF KindAt(text, at) = "NOT" THEN Parsed(Not(negated.tree), negated.at)
        ELSE ParseTerm(text, later, at)

\* The loop of _parse_and and _parse_or: `left` after n rounds.  What the next
\* operand is, `operands` has for every place.
Chain(text, op, operands, at) ==
    LET left[n \in 0..Len(text)] ==
            IF n = 0 THEN operands[at]
            ELSE LET had   == left[n - 1]
                     right == operands[had.at + 1]
                 IN  IF KindAt(text, had.at) = Word[op]
                     THEN Parsed(Pair(op, had.tree, right.tree), right.at)
                     ELSE had
    IN  left[Len(text)]

\* What _parse_not and _parse_or read from every place on, and what they read
\* when at most n calls are nested: no text nests more calls than it has tokens.
Reads(text, later) ==
    LET nots == [at \in Positions(text) |-> ParseNot(text, later, at)]
        ands == [at \in Positions(text) |-> Chain(text, "and", nots, at)]
    IN  [not |-> nots, or |-> [at \in Positions(text) |-> Chain(text, "or", ands, at)]]

Parse(text) ==
    LET nothing == [at \in Positions(text) |-> Nothing]
        read[n \in 0..Len(text)] ==
            IF n = 0 THEN [not |-> nothing, or |-> nothing] ELSE Reads(text, read[n - 1])
    IN  read[Len(text)].or[1]

Parses == [text \in Texts |-> Parse(text)]

WellFormed(text) == Parses[text].at = Len(text) + 1
ParseQuery(text) == Parses[text].tree

\* An expression and the expressions in it, to a depth no text of that length
\* can go beyond.
Parts(e, depth) ==
    LET Operands(p) == CASE p.op = "not" -> {p.expr}
                         [] p.op \in {"and", "or"} -> {p.left, p.right}
                         [] OTHER -> {}
        level[n \in 0..depth] ==
            IF n = 0 THEN {e} ELSE UNION {Operands(p) : p \in level[n - 1]}
    IN  UNION {level[n] : n \in 0..depth}

CollectFields(parts) == {p.atom.field : p \in {q \in parts : q.op = "atom"}}
HasNot(parts) == \E p \in parts : p.op = "not"

\* _enforce_bounded_not: somewhere in the expression something bounds.
BoundedNot(text) ==
    LET parts == Parts(ParseQuery(text), Len(text))
    IN  HasNot(parts) => CollectFields(parts) \cap BoundFields # {}

\* The atoms beside an AND that bound: they are asked for before its sides.
NearBounds(e) ==
    IF e.op = "and"
    THEN Kept(<<e.left, e.right>>,
              {p \in {e.left, e.right} : p.op = "atom" /\ BoundAtom(p.atom)})
    ELSE <<>>

-----------------------------------------------------------------------------
(* What a text says of an item, read off the text alone: split at an OR    *)
(* outside parentheses, else at an AND, else take the NOT away, else the   *)
(* parentheses.  `true` is the set of the atoms true of the item.           *)

\* How many parentheses are open behind the n-th token.
Nesting(text) ==
    LET open[n \in 0..Len(text)] ==
            IF n = 0 THEN 0
            ELSE CASE text[n].kind = "(" -> open[n - 1] + 1
                   [] text[n].kind = ")" -> open[n - 1] - 1
                   [] OTHER -> open[n - 1]
    IN  open

\* Where the tokens from lo to hi have the word outside all parentheses.
SplitsAt(text, lo, hi, word) ==
    {i \in lo..hi : text[i].kind = word /\ Nesting(text)[i] = Nesting(text)[lo - 1]}

\* `parts` has it of all shorter parts of the text.
SaysFrom(text, true, parts, lo, hi) ==
    LET ors  == SplitsAt(text, lo, hi, "OR")
        ands == SplitsAt(text, lo, hi, "AND")
    IN  CASE ors # {} -> parts[lo][Max(ors) - 1] \/ parts[Max(ors) + 1][hi]
          [] ors = {} /\ ands # {} -> parts[lo][Max(ands) - 1] /\ parts[Max(ands) + 1][hi]
          [] OTHER -> CASE text[lo].kind = "NOT" -> ~parts[lo + 1][hi]
                        [] text[lo].kind = "(" -> parts[lo + 1][hi - 1]
                        [] OTHER -> text[lo] \in true

Says(text, true) ==
    LET places == DOMAIN text
        says[n \in 0..Len(text)] ==
            IF n = 0 THEN [lo \in places |-> [hi \in places |-> FALSE]]
            ELSE LET parts == says[n - 1]
                 IN  [lo \in places |-> [hi \in places |-> SaysFrom(text, true, parts, lo, hi)]]
    IN  says[Len(text)][1][Len(text)]

=============================================================================
