------------------------------ MODULE EraDeck ------------------------------
(***************************************************************************)
(* The era deck (_runner/era.py, era/): a whole archive of dated           *)
(* directories is planned, frozen and folded day by day into one reducer,  *)
(* and ten cards are drawn from it.  The archive may change meanwhile.     *)
(*                                                                         *)
(* A source is [state, files]: what the inventory says of the family that  *)
(* day, and its files, each a sequence of rows.  A time is a minute; Never *)
(* is a time, a duration or a size that is not a number.  A query names a  *)
(* domain (a number), or is excluded, or the suffix list is not there.     *)
(***************************************************************************)
EXTENDS Integers, FiniteSets, SequencesExt

CONSTANTS
    EraArchives,    \* [days, conn, dns, bytes, asked, unstable]
    Week, Enough,   \* days of a week, and how many of them must be usable
    Span,           \* weeks that the long cards ask for
    Side,           \* weeks on each side of a shift
    Floor,          \* port-443 records of a week that speaks
    Instances,      \* days of a weekday that has a shape
    BurnIn, Cohort, Late,   \* weeks before arrivals count, of a cohort, to its late part
    FollowUp,       \* of a span: weeks that make a domain mature
    AddressCap, DomainCap, ByteLimit,
    MinutesADay

ASSUME EraAssumption ==
    /\ {Week, Enough, Span, Side, Floor, Instances, BurnIn, Cohort, Late, AddressCap, DomainCap,
        ByteLimit, MinutesADay} \subseteq Nat \ {0}
    /\ Enough <= Week

VARIABLES
    tape,       \* the archive
    changed,    \* what changed since it was frozen: <<day, family>>
    reducer, census,
    folding,    \* what is left to load, in order
    cards,
    eraStep     \* "plan", "freeze", "fold", "done", "stopped", "raised"

eraVars == <<tape, changed, reducer, census, folding, cards, eraStep>>

Never == -1
Excluded == 0
Unlisted == -1
EraFamilies == <<"conn", "dns">>
DayOf(t) == t \div MinutesADay
WeekOf(day) == day \div Week
Minutes == UNION {(MinutesADay * d)..(MinutesADay * (d + 1) - 1) : d \in tape.days}
AllWeeks == {WeekOf(d) : d \in tape.days}
InOrder(S) == [k \in 1..Cardinality(S) |->
                 CHOOSE n \in S : Cardinality({m \in S : m < n}) = k - 1]
Source(day, f) == IF f = "conn" THEN tape.conn[day] ELSE tape.dns[day]
-----------------------------------------------------------------------------
(* The reducer: totals, and the first of the largest. *)
NoWinner == <<Never, Never>>
Zero == [conn |-> 0, dns |-> 0,
         minutes |-> [t \in Minutes |-> 0], longest |-> NoWinner, timed |-> 0,
         outbound |-> NoWinner, directed |-> 0, unclear |-> FALSE,
         addresses |-> {}, reason |-> "none",
         ports |-> [w \in AllWeeks |-> [udp |-> 0, tcp |-> 0]],
         seen |-> [f \in ToSet(EraFamilies) |-> [d \in {} |-> <<FALSE, FALSE>>]],
         domains |-> [n \in {} |-> {}], capped |-> FALSE, psl |-> TRUE]

Counted(value) == IF value = Never THEN 0 ELSE 1
Larger(incumbent, value, t) == IF value > incumbent[1] THEN <<value, t>> ELSE incumbent
Address(r, to) ==
    CASE to = "unclear" -> [r EXCEPT !.reason = IF @ = "none" THEN "unclassifiable" ELSE @]
      [] to = "home" \/ r.reason # "none" -> r
      [] OTHER -> [r EXCEPT !.addresses = @ \cup {to},
                            !.reason = IF Cardinality(r.addresses \cup {to}) > AddressCap
                                       THEN "cap" ELSE @]
Direction(r, row) ==
    CASE "unclear" \in {row.from, row.to} -> [r EXCEPT !.unclear = TRUE]
      [] row.from = "home" /\ row.to # "home" ->
            [r EXCEPT !.outbound = Larger(@, row.sent, row.t), !.directed = @ + Counted(row.sent)]
      [] OTHER -> r
AddConn(r, row) ==
    LET week == WeekOf(DayOf(row.t))
        counted == [r EXCEPT !.conn = @ + 1, !.minutes[row.t] = @ + 1,
                             !.longest = Larger(@, row.duration, row.t),
                             !.timed = @ + Counted(row.duration)]
        ported == IF row.via = "none" THEN counted
                  ELSE [counted EXCEPT !.ports[week] = [@ EXCEPT ![row.via] = @ + 1]]
    IN  Direction(Address(ported, row.to), row)

Remember(domains, name, weeks) ==
    [n \in DOMAIN domains \cup {name} |->
        (IF n \in DOMAIN domains THEN domains[n] ELSE {}) \cup (IF n = name THEN weeks ELSE {})]
AddDns(r, row) ==
    LET told == [r EXCEPT !.dns = @ + 1] IN
    CASE row.name = Unlisted -> [told EXCEPT !.psl = FALSE]
      [] row.name = Excluded -> told
      [] row.name \notin DOMAIN r.domains /\ Cardinality(DOMAIN r.domains) >= DomainCap ->
            [told EXCEPT !.capped = TRUE]
      [] OTHER -> [told EXCEPT !.domains = Remember(@, row.name, {WeekOf(DayOf(row.t))})]

(* Two reducers: of equal winners the earlier. *)
Better(a, b) == IF b[1] > a[1] \/ (b[1] = a[1] /\ b[2] < a[2]) THEN b ELSE a
(* A mutant: the union of two sets below the cap is not measured again. *)
MergeUncapped(a, b) ==
    [conn |-> a.conn + b.conn, dns |-> a.dns + b.dns,
     minutes |-> [t \in DOMAIN a.minutes |-> a.minutes[t] + b.minutes[t]],
     longest |-> Better(a.longest, b.longest), timed |-> a.timed + b.timed,
     outbound |-> Better(a.outbound, b.outbound), directed |-> a.directed + b.directed,
     unclear |-> a.unclear \/ b.unclear, addresses |-> a.addresses \cup b.addresses,
     reason |-> IF a.reason = "none" THEN b.reason ELSE a.reason,
     ports |-> [w \in AllWeeks |-> [v \in {"udp", "tcp"} |-> a.ports[w][v] + b.ports[w][v]]],
     seen |-> [f \in ToSet(EraFamilies) |-> [d \in DOMAIN a.seen[f] \cup DOMAIN b.seen[f] |->
                  IF d \in DOMAIN b.seen[f] THEN b.seen[f][d] ELSE a.seen[f][d]]],
     domains |-> LET all == DOMAIN a.domains \cup DOMAIN b.domains
                     first == {n \in all : Cardinality({m \in all : m < n}) < DomainCap}
                 IN  [n \in first |-> UNION {r.domains[n] : r \in {s \in {a, b} : n \in DOMAIN s.domains}}],
     capped |-> a.capped \/ b.capped
                \/ Cardinality(DOMAIN a.domains \cup DOMAIN b.domains) > DomainCap,
     psl |-> a.psl /\ b.psl]
Merge(a, b) ==
    LET both == MergeUncapped(a, b) IN
    IF Cardinality(both.addresses) > AddressCap THEN [both EXCEPT !.reason = "cap"] ELSE both

(* One family of one day: the rows of the day, a reducer for every file. *)
Dated(day, file) == SelectSeq(file, LAMBDA row : row.t # Never /\ DayOf(row.t) = day)
FoldFile(day, f, file) ==
    FoldLeft(LAMBDA r, row : IF f = "conn" THEN AddConn(r, row) ELSE AddDns(r, row),
             Zero, Dated(day, file))
FoldDay(day, f) == FoldLeft(Merge, Zero, [i \in DOMAIN Source(day, f).files |->
                                             FoldFile(day, f, Source(day, f).files[i])])
Observed(r, day, f) ==
    LET present == Source(day, f).state = "present"
        rows == IF f = "conn" THEN r.conn ELSE r.dns
    IN  [r EXCEPT !.seen[f] = [d \in {day} |-> <<present, present /\ rows > 0>>]]
-----------------------------------------------------------------------------
(* The cards. *)
Usable(r, f, d) == d \in DOMAIN r.seen[f] /\ r.seen[f][d] = <<TRUE, TRUE>>
DaysOf(w) == {d \in tape.days : WeekOf(d) = w}
FullWeeks == {w \in AllWeeks : Cardinality(DaysOf(w)) = Week}
UsableDays(r, f, w) == {d \in DaysOf(w) : Usable(r, f, d)}
EligibleWeeks(r, f) ==
    InOrder({w \in FullWeeks : Cardinality(UsableDays(r, f, w)) >= Enough})
StartsOf(r, d) == LET of == {t \in DOMAIN r.minutes : DayOf(t) = d}
                  IN  FoldFunctionOnSet(+, 0, r.minutes, of)
Twice(values) ==        \* the median of a bag, times two
    LET s == SortSeq(values, <)  n == Len(values) IN s[(n + 1) \div 2] + s[(n + 2) \div 2]

(* Of candidates in order, the first of the largest, and the runner-up. *)
Rank(seq, Above(_, _)) ==
    LET best == {i \in DOMAIN seq : \A j \in DOMAIN seq : ~ Above(seq[j], seq[i])} IN
    CHOOSE i \in best : \A j \in best : i <= j

BusiestMinute(r) ==
    LET some == {t \in DOMAIN r.minutes : r.minutes[t] > 0}
        top == CHOOSE t \in some : \A u \in some : \/ r.minutes[t] > r.minutes[u]
                                                   \/ r.minutes[t] = r.minutes[u] /\ t <= u
    IN  IF some = {} THEN <<>>
        ELSE <<[minute |-> top, count |-> r.minutes[top],
                tie |-> \E t \in some \ {top} : r.minutes[t] = r.minutes[top]]>>
WeekShape(r) ==
    LET of(k) == {d \in tape.days : d % Week = k /\ StartsOf(r, d) > 0 /\ Usable(r, "conn", d)}
    IN  {<<k, Cardinality(of(k))>> : k \in {j \in 0..(Week - 1) : Cardinality(of(j)) >= Instances}}

Speaking(r) == SelectSeq(EligibleWeeks(r, "conn"), LAMBDA w : r.ports[w].udp + r.ports[w].tcp >= Floor)
Moved(r, v, w) ==       \* of two shares, as a fraction
    LET total(x) == r.ports[x].udp + r.ports[x].tcp
        cross == r.ports[w].udp * total(v) - r.ports[v].udp * total(w)
    IN  <<IF cross < 0 THEN - cross ELSE cross, total(v) * total(w)>>
AboveFraction(a, b) == a[1] * b[2] > b[1] * a[2]
TransportShare(r) ==
    LET s == Speaking(r)
        moves == [i \in 1..(Len(s) - 1) |-> Moved(r, s[i], s[i + 1])]
        top == Rank(moves, AboveFraction)
    IN  IF Len(s) < 2 THEN <<>> ELSE <<[from |-> s[top], to |-> s[top + 1], by |-> moves[top]]>>

(* A shift needs a level on both sides; a week has one on the days with    *)
(* records, and a boundary with an unusable day near it is refused.        *)
LevelWeeks(r) ==
    InOrder({w \in FullWeeks : Cardinality({d \in DaysOf(w) : StartsOf(r, d) > 0}) >= Enough})
Level(r, w) ==
    LET days == InOrder({d \in DaysOf(w) : StartsOf(r, d) > 0})
    IN  Twice([i \in DOMAIN days |-> StartsOf(r, days[i])])
Nearby(weeks, i) == SubSeq(weeks, i - Side, i + Side - 1)
Disturbed(r, weeks, i) ==
    \E w \in ToSet(Nearby(weeks, i)) : \E d \in DaysOf(w) : ~ Usable(r, "conn", d)
Apart(a, b) == IF a > b THEN <<a, b>> ELSE <<b, a>>
Around(r, weeks, i) ==
    LET level == [k \in DOMAIN weeks |-> Level(r, weeks[k])]
        before == Twice(SubSeq(level, i - Side, i - 1))
        after == Twice(SubSeq(level, i, i + Side - 1))
    IN  [at |-> weeks[i], near |-> ToSet(Nearby(weeks, i)), score |-> Apart(before, after)]
SustainedShift(r) ==
    LET weeks == LevelWeeks(r)
        inner == SelectSeq([k \in DOMAIN weeks |-> k],
                           LAMBDA i : Side < i /\ i <= Len(weeks) - Side /\ ~ Disturbed(r, weeks, i))
        found == [k \in DOMAIN inner |-> Around(r, weeks, inner[k])]
    IN  IF Len(weeks) < Span \/ inner = <<>> THEN <<>>
        ELSE <<found[Rank(found, LAMBDA a, b : AboveFraction(a.score, b.score))]>>

DomainArrivals(r) ==
    LET weeks == EligibleWeeks(r, "dns")
        first(n) == CHOOSE i \in DOMAIN weeks : /\ weeks[i] \in r.domains[n]
                                                /\ \A j \in 1..(i - 1) : weeks[j] \notin r.domains[n]
        known == {n \in DOMAIN r.domains : ToSet(weeks) \cap r.domains[n] # {}}
        later(n) == SubSeq(weeks, first(n) + 1, Len(weeks))
        arrived == {n \in known : first(n) > BurnIn}
        mature == {n \in arrived : Len(later(n)) >= FollowUp[Len(weeks)]}
        cohort == {n \in arrived : Len(later(n)) >= Cohort}
    IN  CASE ~ r.psl -> [why |-> "psl"]
          [] r.capped -> [why |-> "cap"]
          [] Len(weeks) < Span -> [why |-> "span"]
          [] OTHER ->
                [why |-> "none", early |-> Cardinality(known \ arrived),
                 arrivals |-> [w \in {weeks[i] : i \in (BurnIn + 1)..Len(weeks)} |->
                                  Cardinality({n \in arrived : weeks[first(n)] = w})],
                 once |-> Cardinality({n \in mature : ToSet(later(n)) \cap r.domains[n] = {}}),
                 again |-> Cardinality({n \in mature : ToSet(later(n)) \cap r.domains[n] # {}}),
                 late |-> Cardinality({n \in cohort :
                     ToSet(SubSeq(later(n), Late, Len(later(n)))) \cap r.domains[n] # {}})]
(* The masthead names the cards that the span keeps silent. *)
Silenced(r) == {c \in {9, 10} : Len(EligibleWeeks(r, IF c = 9 THEN "conn" ELSE "dns")) < Span}
Deck(r) ==
    [conn |-> r.conn, dns |-> r.dns,
     external |-> IF r.reason = "none" THEN <<Cardinality(r.addresses)>> ELSE <<>>, why |-> r.reason,
     busiest |-> BusiestMinute(r), longest |-> r.longest, timed |-> r.timed,
     unclear |-> r.unclear, outbound |-> r.outbound, directed |-> r.directed,
     shape |-> WeekShape(r), transport |-> TransportShare(r),
     shift |-> SustainedShift(r), domains |-> DomainArrivals(r), horizon |-> Silenced(r)]
-----------------------------------------------------------------------------
(* The run. *)
PlanEra ==
    /\ eraStep = "plan"
    /\ eraStep' = CASE tape.days = {} -> "raised"
                    [] tape.asked = "dry" -> "stopped"
                    [] tape.bytes >= ByteLimit /\ tape.asked = "no" -> "stopped"
                    [] OTHER -> "freeze"
    /\ UNCHANGED <<tape, changed, reducer, census, folding, cards>>
(* Every file is hashed before the first is read; one that is gone raises. *)
Freeze ==
    /\ eraStep = "freeze"
    /\ IF changed # {} THEN eraStep' = "raised" /\ UNCHANGED <<reducer, folding, changed>>
       ELSE /\ eraStep' = "fold" /\ reducer' = Zero /\ UNCHANGED changed
            /\ folding' = LET days == InOrder(tape.days) IN
                  [k \in 1..(2 * Len(days)) |-> <<days[(k + 1) \div 2], EraFamilies[2 - (k % 2)]>>]
    /\ UNCHANGED <<tape, census, cards>>
(* A source that changed is dropped whole and told; its day is then there  *)
(* but not usable. *)
LoadDay ==
    /\ eraStep = "fold" /\ folding # <<>>
    /\ LET day == Head(folding)[1]
           f == Head(folding)[2]
           kept == <<day, f>> \notin changed
       IN  /\ reducer' = Merge(reducer, Observed(IF kept THEN FoldDay(day, f) ELSE Zero, day, f))
           /\ census' = IF kept THEN census ELSE census \cup {<<day, f>>}
    /\ folding' = Tail(folding)
    /\ UNCHANGED <<tape, changed, cards, eraStep>>
DrawDeck ==
    /\ eraStep = "fold" /\ folding = <<>> /\ eraStep' = "done"
    /\ cards' = Deck(reducer)
    /\ UNCHANGED <<tape, changed, reducer, census, folding>>
(* Somebody changes a source: removed before it is frozen, or touched.     *)
ChangeSource ==
    /\ eraStep \in {"freeze", "fold"} /\ changed = {}
    /\ changed' \in {{s} : s \in tape.unstable}
    /\ UNCHANGED <<tape, reducer, census, folding, cards, eraStep>>

EraInit ==
    /\ tape \in EraArchives /\ changed = {} /\ census = {} /\ folding = <<>> /\ cards = <<>>
    /\ reducer = <<>> /\ eraStep = "plan"
EraNext == PlanEra \/ Freeze \/ LoadDay \/ DrawDeck \/ ChangeSource
EraSpec == EraInit /\ [][EraNext]_eraVars

-----------------------------------------------------------------------------
(* The rows the deck is about: those of the planned days, in the directory *)
(* of their own day, of the sources that held still.                       *)
Kept(f) ==
    UNION {{<<e[1], e[2], k>> : k \in {j \in DOMAIN Source(e[1], f).files[e[2]] :
                LET t == Source(e[1], f).files[e[2]][j].t IN t # Never /\ DayOf(t) = e[1]}} :
              e \in UNION {{d} \X DOMAIN Source(d, f).files :
                             d \in {g \in tape.days : <<g, f>> \notin census}}}
RowAt(f, x) == Source(x[1], f).files[x[2]][x[3]]
InTime == \A d \in tape.days : \A file \in ToSet(tape.conn[d].files) :
             \A i, j \in DOMAIN file : i < j => file[i].t <= file[j].t
(* The largest of what some rows say, and when: the earliest, if the files *)
(* are in the order of time. *)
IsLargest(winner, pairs) ==
    IF pairs = {} THEN winner = NoWinner
    ELSE /\ winner \in pairs /\ \A p \in pairs : p[1] <= winner[1]
         /\ InTime => \A p \in pairs : p[1] = winner[1] => winner[2] <= p[2]
Whole(w, f) == /\ Cardinality(DaysOf(w)) = Week
               /\ Enough <= Cardinality({d \in DaysOf(w) : /\ Source(d, f).state = "present"
                                                           /\ \E x \in Kept(f) : x[1] = d})

(* The deck says what the archive holds, however the rows are spread over  *)
(* files and days: its totals count every kept row once, its winners are   *)
(* the largest, an exact number is exact and a refusal has its cause, the  *)
(* long cards speak of whole weeks only, a shift is between days that were *)
(* all read, and every domain is counted once.  A card that the masthead   *)
(* calls silent is silent, unless a day that could not be listed whole     *)
(* still gave rows: card 9 counts those days and the masthead does not.    *)
DeckIsTheArchive ==
    eraStep = "done" =>
        LET conns == Kept("conn")
            here == {RowAt("conn", x) : x \in conns}
            names == {RowAt("dns", x).name : x \in Kept("dns")}
            abroad == {row.to : row \in here} \ {"home", "unclear"}
            between(v, w) == {u \in AllWeeks : v < u /\ u < w}
            starts(t) == Cardinality({x \in conns : RowAt("conn", x).t = t})
            ports(w) == Cardinality({x \in conns : /\ RowAt("conn", x).via # "none"
                                                   /\ WeekOf(x[1]) = w})
            speaks(w) == Whole(w, "conn") /\ ports(w) >= Floor
        IN  /\ census \subseteq changed
            /\ cards.conn = Cardinality(conns) /\ cards.dns = Cardinality(Kept("dns"))
            /\ IF conns = {} THEN cards.busiest = <<>>
               ELSE LET b == cards.busiest[1] IN
                    /\ b.count = starts(b.minute) /\ b.count > 0
                    /\ \A t \in Minutes : starts(t) < b.count \/ (starts(t) = b.count /\ b.minute <= t)
                    /\ b.tie <=> \E t \in Minutes \ {b.minute} : starts(t) = b.count
            /\ IsLargest(cards.longest,
                         {<<row.duration, row.t>> : row \in {r \in here : r.duration # Never}})
            /\ cards.unclear <=> \E row \in here : "unclear" \in {row.from, row.to}
            /\ ~ cards.unclear => IsLargest(cards.outbound, {<<row.sent, row.t>> : row \in
                  {r \in here : r.from = "home" /\ r.to # "home" /\ r.sent # Never}})
            /\ CASE cards.why = "none" -> /\ cards.external = <<Cardinality(abroad)>>
                                          /\ Cardinality(abroad) <= AddressCap
                                          /\ \A row \in here : row.to # "unclear"
                 [] cards.why = "cap" -> Cardinality(abroad) > AddressCap
                 [] OTHER -> \E row \in here : row.to = "unclear"
            /\ cards.transport # <<>> =>
                  LET m == cards.transport[1] IN
                  speaks(m.from) /\ speaks(m.to) /\ \A u \in between(m.from, m.to) : ~ speaks(u)
            /\ cards.shift # <<>> => \A w \in cards.shift[1].near : \A d \in DaysOf(w) :
                  tape.conn[d].state = "present" /\ \E x \in conns : x[1] = d
            /\ CASE cards.domains.why = "psl" -> Unlisted \in names
                 [] cards.domains.why = "cap" -> Cardinality(names \ {Excluded}) > DomainCap
                 [] cards.domains.why = "none" ->
                       /\ Cardinality(names \ {Excluded}) <= DomainCap
                       /\ cards.domains.early
                            + FoldFunctionOnSet(+, 0, cards.domains.arrivals, DOMAIN cards.domains.arrivals)
                          = Cardinality({n \in names \ {Excluded} : \E x \in Kept("dns") :
                               RowAt("dns", x).name = n /\ Whole(WeekOf(x[1]), "dns")})
                 [] OTHER -> ~ (Span <= Cardinality({w \in AllWeeks : Whole(w, "dns")}))
            /\ 10 \in cards.horizon => cards.domains.why # "none"
            /\ (9 \in cards.horizon /\ cards.shift # <<>>) =>
                  \E d \in tape.days : tape.conn[d].state # "present" /\ \E x \in conns : x[1] = d
=============================================================================
