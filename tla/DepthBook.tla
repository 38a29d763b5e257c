------------------------------ MODULE DepthBook ------------------------------
(***************************************************************************)
(* From an exchange's messages to the levels on display, for one pair.     *)
(* MEXC sends changes, which apply_depth merges into two maps; Gate sends  *)
(* its best levels, best first; BingX and LBank send levels in any order.  *)
(* Changing the pair, and frames of another pair, are in SymbolSwitch.     *)
(***************************************************************************)
EXTENDS Naturals, Sequences, FiniteSets, SequencesExt

CONSTANTS
    Prices,     \* a set of numbers
    QtyMax,     \* quantities on a level are 1 .. QtyMax
    Depth,      \* levels on display: 5
    ChangesMax, \* levels that change from one message to the next
    WireMax     \* messages on their way

ASSUME DepthAssumption ==
    /\ Prices \subseteq Nat /\ IsFiniteSet(Prices)
    /\ {QtyMax, Depth, ChangesMax, WireMax} \subseteq Nat \ {0}

VARIABLES
    handler,    \* whose messages they are
    market,     \* the exchange's book
    wire,
    book,       \* bids_book and asks_book
    shown,      \* the last update that was published
    known,      \* history: prices of which the handler has been told
    seen        \* history: the exchange's book as of the last message handled

vars == <<handler, market, wire, book, shown, known, seen>>

Sides == {"bids", "asks"}
Handlers == {"mexc", "gate", "sorting"}

\* A side of a book: the quantity at every price, 0 where there is no level.
Side   == [Prices -> 0 .. QtyMax]
Levels == Prices \X (1 .. QtyMax)
PricesOf(side) == {p \in DOMAIN side : side[p] > 0}
LevelsOf(side) == {<<p, side[p]>> : p \in PricesOf(side)}
NoLevels == [p \in Prices |-> 0]

Crossed(b) == \E p \in PricesOf(b.bids), q \in PricesOf(b.asks) : p >= q
Books == {b \in [Sides -> Side] : ~Crossed(b)}

\* Best first: the highest bid, the lowest ask.  First(n, l): what is shown of a list.
Better(s, x, y) == IF s = "bids" THEN x[1] > y[1] ELSE x[1] < y[1]
Sorted(s, S) == CHOOSE l \in SetToSeqs(S) : \A i, j \in DOMAIN l : i < j => Better(s, l[i], l[j])
First(n, levels) == SubSeq(levels, 1, IF n < Len(levels) THEN n ELSE Len(levels))

\* A message, and with it the exchange's book at that moment.
Changes == UNION {[ps -> 0 .. QtyMax] : ps \in SUBSET Prices}
Lists(h) == IF h = "mexc" THEN Changes ELSE Seq(Levels)
Messages(h) == [bids : Lists(h), asks : Lists(h), market : Books]

TypeOK ==
    /\ handler \in Handlers
    /\ market \in Books /\ seen \in Books
    /\ wire \in Seq(Messages(handler)) /\ Len(wire) <= WireMax
    /\ book \in [Sides -> Side]
    /\ shown \in [Sides -> Seq(Levels)] /\ \A s \in Sides : Len(shown[s]) <= Depth
    /\ known \in [Sides -> SUBSET Prices]

Init ==
    /\ handler \in Handlers
    /\ market \in Books
    /\ wire = <<>>
    /\ book = [s \in Sides |-> NoLevels]
    /\ shown = [s \in Sides |-> <<>>]
    /\ known = [s \in Sides |-> {}]
    /\ seen = [s \in Sides |-> NoLevels]

-----------------------------------------------------------------------------
(* The exchange (external).  A message to MEXC's handler tells what became   *)
(* of the prices that changed; to the others, everything.                    *)

Changed(s, b) == {p \in Prices : b[s][p] # market[s][p]}

Told(s, b) ==
    CASE handler = "mexc"    -> {[p \in Changed(s, b) |-> b[s][p]]}
      [] handler = "gate"    -> {Sorted(s, LevelsOf(b[s]))}
      [] handler = "sorting" -> SetToSeqs(LevelsOf(b[s]))

Send ==
    /\ Len(wire) < WireMax
    /\ \E b \in Books :
         /\ Cardinality(Changed("bids", b)) + Cardinality(Changed("asks", b)) <= ChangesMax
         /\ \E bids \in Told("bids", b), asks \in Told("asks", b) :
              wire' = Append(wire, [bids |-> bids, asks |-> asks, market |-> b])
         /\ market' = b
    /\ UNCHANGED <<handler, book, shown, known, seen>>

-----------------------------------------------------------------------------
(* on_message *)

\* Faulty variants: an emptied level stays; a level is set once; no limit.
MergeKeepsEmptied(s, m) ==
    [p \in Prices |-> IF p \in DOMAIN m[s] /\ m[s][p] > 0 THEN m[s][p] ELSE book[s][p]]
MergeInserts(s, m) ==
    [p \in Prices |-> IF p \in DOMAIN m[s] /\ (m[s][p] = 0 \/ book[s][p] = 0)
                      THEN m[s][p] ELSE book[s][p]]
WholeMap(s, side) == Sorted(s, LevelsOf(side))

\* apply_depth(): a quantity of 0 erases the level.
Merge(s, m) == [p \in Prices |-> IF p \in DOMAIN m[s] THEN m[s][p] ELSE book[s][p]]

\* The maps are sorted, best first.
TopOfMap(s, side) == First(Depth, Sorted(s, LevelsOf(side)))

\* parse_snapshot() of BingX and LBank, and of Gate.
TopOfSnapshot(s, m) == First(Depth, Sorted(s, Range(m[s])))
FirstOfSnapshot(s, m) == First(Depth, m[s])

\* An update without any level is not published.
Publish(update) == shown' = IF \A s \in Sides : update[s] = <<>> THEN shown ELSE update

ApplyDepth(m) ==
    /\ handler = "mexc"
    /\ book' = [s \in Sides |-> Merge(s, m)]
    /\ Publish([s \in Sides |-> TopOfMap(s, book'[s])])
    /\ known' = [s \in Sides |-> known[s] \cup DOMAIN m[s]]

ParseSorted(m) ==
    /\ handler = "gate"
    /\ Publish([s \in Sides |-> FirstOfSnapshot(s, m)])
    /\ known' = [s \in Sides |-> Prices]
    /\ book' = book

ParseAny(m) ==
    /\ handler = "sorting"
    /\ Publish([s \in Sides |-> TopOfSnapshot(s, m)])
    /\ known' = [s \in Sides |-> Prices]
    /\ book' = book

OnMessage ==
    /\ wire # <<>>
    /\ ApplyDepth(Head(wire)) \/ ParseSorted(Head(wire)) \/ ParseAny(Head(wire))
    /\ seen' = Head(wire).market
    /\ wire' = Tail(wire)
    /\ UNCHANGED <<handler, market>>

-----------------------------------------------------------------------------
Next == Send \/ OnMessage

Spec == Init /\ [][Next]_vars

-----------------------------------------------------------------------------
(* Properties *)

\* Best first, without repetition, these levels and no worse ones in place of better ones.
IsTopOf(s, levels, S) ==
    /\ \A i \in 1 .. Len(levels) - 1 : Better(s, levels[i], levels[i + 1])
    /\ Range(levels) \subseteq S
    /\ \A x \in S \ Range(levels) : Len(levels) = Depth /\ Better(s, levels[Depth], x)

Known(s) == {x \in LevelsOf(seen[s]) : x[1] \in known[s]}

\* What is on display is the top of the exchange's book at one moment, that of the last
\* message, on both sides: of the whole book where messages are snapshots, and of the prices
\* some message was about where they are changes (MEXC is asked for no snapshot to start
\* from, mexc_handler.cpp:124).  Excepted is a book with no known level: it is not published,
\* and the levels shown before stay.
ShownIsTopOfKnown ==
    Known("bids") \cup Known("asks") # {} =>
        \A s \in Sides : IsTopOf(s, shown[s], Known(s))

\* The fat-finger check takes the middle of the best bid and the best ask: the levels on
\* display never cross, although a level that moved to the other side is two changes.
NeverCrossed ==
    shown.bids # <<>> /\ shown.asks # <<>> => shown.bids[1][1] < shown.asks[1][1]

=============================================================================
