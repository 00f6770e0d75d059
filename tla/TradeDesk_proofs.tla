--------------------------- MODULE TradeDesk_proofs ---------------------------
(***************************************************************************)
(* The invariants of TradeDesk, for any number of calls, symbols, readings *)
(* and answers of the ports.  DeskInv says what each call finds: which     *)
(* orders are out while the cycle works, whence a portfolio comes and how  *)
(* far it may stand from the broker's own book, and what the report of a   *)
(* poll was derived from.                                                  *)
(***************************************************************************)
EXTENDS DeskProperties, LeastAndSums, FunctionTheorems

------------------------------------------------------------------------------
(* The inductive invariant, in five parts.                                 *)

(* The orders.  Nothing is filled of an order that was not sent, only sent *)
(* orders are followed, and while a cycle works its own order is not out.  *)
OrdersInv ==
  /\ TypeOKOrders
  /\ TypeOKMonitor
  /\ cycle \in 0 .. MaxCalls
  /\ DOMAIN sent = Orders
  /\ filled \in [Orders -> Nat]
  /\ \A o \in Sent :
       /\ sent[o].symbol \in Symbols
       /\ sent[o].side \in {"buy", "sell"}
       /\ sent[o].qty \in Nat
       /\ filled[o] <= sent[o].qty
  /\ \A o \in Orders \ Sent : filled[o] = 0
  /\ Sent \subseteq 1 .. cycle
  /\ Tracked \subseteq Sent
  /\ asking \subseteq Sent

Reads == {"account", "positions", "open_orders"}
CycleWorks == pc \in {"choose", "plan", "submit"} \/ (pc \in Reads /\ purpose = "cycle")

FlowInv ==
  /\ pc \in Reads \cup {"idle", "choose", "plan", "submit", "poll", "review"}
  /\ purpose \in {"cycle", "review"}
  /\ stepping \in BOOLEAN
  /\ CycleWorks => cycle > 0 /\ sent[cycle] = NoOrder
  /\ DOMAIN state = {"market", "portfolio", "opportunities", "degraded"}
  /\ DOMAIN report = {"orders", "reviews", "proposals", "basis", "degraded"}
  /\ DOMAIN reading = {"account", "positions"}
  /\ pc \in Reads => IF purpose = "cycle" THEN state.portfolio = Nothing
                     ELSE stepping => state.portfolio = Nothing
  /\ pc = "poll" => purpose = "review"
  /\ pc = "review" =>
       /\ report.basis # Nothing
       /\ stepping /\ state.portfolio # Nothing => report.basis = state.portfolio
  /\ pc # "idle" => report.reviews = {} /\ report.proposals = {}

(* What was chosen is the choice among what was found and built, and the   *)
(* plan to submit is one that the planner lets through.                    *)
ChoiceInv ==
  /\ choice.found \in Seq(Opportunities)
  /\ choice.built \in Seq(StrategyCandidates)
  /\ choice.found # <<>> => choice.symbol = SelectSymbol(choice.found, TRUE, <<>>)
  /\ choice.strategy = SelectStrategy(choice.built, DefaultIds)
  /\ choice.strategy # Nothing => choice.symbol # Nothing /\ choice.symbol[1] \in Symbols
  /\ plan # Nothing <=> pc = "submit"
  /\ plan # Nothing =>
       /\ plan[1].symbol \in Symbols
       /\ plan[1].action \in Irreversible
       /\ plan[1].quantity \in Nat

(* A portfolio has at most one position on a symbol, none of nothing.      *)
PositionsRead(positions) ==
  /\ IsFiniteSet(positions)
  /\ \A p \in positions :
       /\ p.symbol \in Symbols
       /\ p.quantity \in Int \ {0}
       /\ p.entry = Entry
       /\ p.unrealized_pnl # Nothing => p.unrealized_pnl[1] \in Int
       /\ p.updated_at \in 0 .. cycle
  /\ \A p, q \in positions : p.symbol = q.symbol => p = q

PortfolioRead(portfolio) ==
  /\ PositionsRead(portfolio.positions)
  /\ \A s \in Symbols, side \in {"BUY", "SELL"} : OpenOn(portfolio, s, side) \in Int

Optional(read) == read = Nothing \/ read = <<read[1]>>

(* How far what was read may stand from what is held and done by now.      *)
DoneOn(s, side) == SumFunctionOnSet(filled, OrdersToward(s, side))
WithinWhatIsDone(positions) ==
  \A s \in Symbols :
    /\ PositionOn([positions |-> positions], s) <= Held[s] + DoneOn(s, "buy")
    /\ PositionOn([positions |-> positions], s) >= Held[s] - DoneOn(s, "sell")

(* A portfolio read before the cycle's own order knows nothing of it.      *)
WithoutOwnOrder(positions) ==
  \A p \in positions : OrdersOn(p.symbol) \subseteq {cycle} => p.quantity = Held[p.symbol]

PortfolioInv ==
  /\ PositionsRead(reading.positions)
  /\ Optional(state.portfolio) /\ Optional(report.basis)
  /\ \A p \in Portfolios : PortfolioRead(p)
  /\ pc = "open_orders" => WithinWhatIsDone(reading.positions)
  /\ NothingCountedTwice
  /\ pc = "open_orders" /\ purpose = "cycle" => WithoutOwnOrder(reading.positions)
  /\ \A p \in Range(state.portfolio) : WithoutOwnOrder(p.positions)

(* The reviews are those of the portfolio that the report names, and the   *)
(* proposals those of the reviews.                                         *)
ReportInv ==
  /\ report.reviews # {} /\ stepping =>
       report.basis # Nothing /\ report.reviews = Reviews(report.basis[1], <<state>>)
  /\ report.reviews # {} /\ stepping /\ state.portfolio # Nothing =>
       report.basis = state.portfolio
  /\ report.proposals # {} =>
       stepping /\ report.proposals = ProposalsFrom(report.reviews, state)

DeskInv == OrdersInv /\ FlowInv /\ ChoiceInv /\ PortfolioInv /\ ReportInv

------------------------------------------------------------------------------
(* The choice.  Earlier orders the keys of one length strictly and totally. *)

SameMembers(m, seq, other) ==
  /\ \A j \in 1 .. m : \E i \in 1 .. m : other[j] = seq[i]
  /\ \A i \in 1 .. m : \E j \in 1 .. m : other[j] = seq[i]

KeyOf(n, k) == DOMAIN k = 1 .. n /\ \A i \in 1 .. n : k[i] \in Int

(* Keys are compared component by component: transitively,                 *)
LEMMA EarlierTransitive ==
  ASSUME NEW n \in Nat, NEW k, NEW l, NEW m, KeyOf(n, k), KeyOf(n, l), KeyOf(n, m),
         Earlier(k, l), Earlier(l, m)
  PROVE  Earlier(k, m)
<1>1. PICK i \in 1 .. n : k[i] < l[i] /\ \A j \in 1 .. i - 1 : k[j] = l[j]
  BY DEF Earlier, KeyOf
<1>2. PICK h \in 1 .. n : l[h] < m[h] /\ \A j \in 1 .. h - 1 : l[j] = m[j]
  BY DEF Earlier, KeyOf
<1>3. \A j \in 1 .. n : k[j] \in Int /\ l[j] \in Int /\ m[j] \in Int
  BY DEF KeyOf
<1>4. CASE i <= h
  <2>1. \A j \in 1 .. i - 1 : j \in 1 .. h - 1
    BY <1>4
  <2>2. \A j \in 1 .. i - 1 : k[j] = m[j]
    BY <1>1, <1>2, <2>1
  <2>3. l[i] <= m[i]
    BY <1>2, <1>3, <1>4
  <2>4. k[i] < m[i]
    BY <1>1, <1>3, <2>3
  <2> QED BY <2>2, <2>4 DEF Earlier, KeyOf
<1>5. CASE h < i
  <2>1. k[h] = l[h] /\ \A j \in 1 .. h - 1 : j \in 1 .. i - 1
    BY <1>1, <1>5
  <2>2. \A j \in 1 .. h - 1 : k[j] = m[j]
    BY <1>1, <1>2, <2>1
  <2>3. k[h] < m[h]
    BY <1>2, <2>1
  <2> QED BY <2>2, <2>3 DEF Earlier, KeyOf
<1> QED BY <1>4, <1>5

(* never a key before itself,                                              *)
LEMMA EarlierIsStrict ==
  ASSUME NEW n \in Nat, NEW k, KeyOf(n, k)
  PROVE  ~ Earlier(k, k)
  BY DEF Earlier, KeyOf

(* and two keys neither of which is before the other are equal.            *)
LEMMA EarlierIsTotal ==
  ASSUME NEW n \in Nat, NEW k, NEW l, KeyOf(n, k), KeyOf(n, l),
         ~ Earlier(k, l), ~ Earlier(l, k)
  PROVE  \A i \in 1 .. n : k[i] = l[i]
<1> DEFINE Apart == {i \in 1 .. n : k[i] # l[i]}
<1>1. SUFFICES ASSUME Apart # {} PROVE FALSE
  OBVIOUS
<1>2. \E i \in Apart : \A j \in Apart : i <= j
  <2>1. Apart \subseteq Nat
    OBVIOUS
  <2> HIDE DEF Apart
  <2> QED BY <1>1, <2>1, LeastNumber
<1>3. PICK i \in Apart : \A j \in Apart : i <= j
  BY <1>2
<1>4. \A j \in 1 .. i - 1 : k[j] = l[j] /\ l[j] = k[j]
  BY <1>3
<1>5. k[i] < l[i] \/ l[i] < k[i]
  BY DEF KeyOf
<1> QED BY <1>3, <1>4, <1>5 DEF Earlier, KeyOf

(* sorted(...)[0] exists: the first of the keys that none is earlier than. *)
LEMMA FirstByIsSmallest ==
  ASSUME NEW n \in Nat, NEW m \in Nat \ {0}, NEW keys, DOMAIN keys = 1 .. m,
         \A j \in 1 .. m : KeyOf(n, keys[j])
  PROVE  /\ FirstBy(keys) \in 1 .. m
         /\ \A j \in 1 .. m : ~ Earlier(keys[j], keys[FirstBy(keys)])
<1> DEFINE Places == 1 .. m
<1> DEFINE Before(i) == {j \in Places : Earlier(keys[j], keys[i])}
<1> DEFINE Smallest == {i \in Places : Before(i) = {}}
<1>1. Smallest # {}
  <2> DEFINE Initial == {Before(i) : i \in Places}
  <2>1. Initial \subseteq SUBSET Places /\ Initial # {} /\ IsFiniteSet(Places)
    <3>1. 1 \in Places
      OBVIOUS
    <3>2. IsFiniteSet(Places)
      BY FS_Interval
    <3> HIDE DEF Before, Places
    <3>3. Initial \subseteq SUBSET Places
      BY DEF Before
    <3> QED BY <3>1, <3>2, <3>3
  <2>2. \E z \in Initial : \A y \in Initial : ~ (y \subseteq z /\ y # z)
    <3> HIDE DEF Initial, Places
    <3> QED BY <2>1, SmallestSet
  <2>3. PICK i \in Places : \A y \in Initial : ~ (y \subseteq Before(i) /\ y # Before(i))
    BY <2>2
  <2>4. ASSUME NEW j \in Before(i) PROVE FALSE
    <3>1. j \in Places /\ Earlier(keys[j], keys[i])
      OBVIOUS
    <3>2. ~ Earlier(keys[j], keys[j])
      BY <3>1, EarlierIsStrict
    <3>3. j \notin Before(j)
      BY <3>2
    <3>4. \A h \in Before(j) : h \in Before(i)
      BY <3>1, EarlierTransitive
    <3>5. Before(j) \in Initial
      BY <3>1
    <3> HIDE DEF Before, Initial
    <3> QED BY <2>3, <2>4, <3>3, <3>4, <3>5
  <2> QED BY <2>3, <2>4
<1>2. \E i \in Smallest : \A j \in Smallest : i <= j
  <2>1. Smallest \subseteq Nat
    OBVIOUS
  <2> HIDE DEF Smallest
  <2> QED BY <1>1, <2>1, LeastNumber
<1>3. PICK i \in Smallest : \A j \in Smallest : i <= j
  BY <1>2
<1>4. ASSUME NEW j \in 1 .. i - 1 PROVE Earlier(keys[i], keys[j])
  <2>1. i \in Places /\ j \in Places /\ j \notin Smallest
    BY <1>3, <1>4
  <2>2. PICK h \in Places : Earlier(keys[h], keys[j])
    BY <2>1
  <2>3. ~ Earlier(keys[h], keys[i])
    BY <1>3
  <2>4. KeyOf(n, keys[h]) /\ KeyOf(n, keys[i]) /\ KeyOf(n, keys[j])
    BY <2>1
  <2>5. CASE Earlier(keys[i], keys[h])
    BY <2>2, <2>4, <2>5, EarlierTransitive
  <2>6. CASE ~ Earlier(keys[i], keys[h])
    <3> DEFINE k == keys[i]
    <3> DEFINE l == keys[h]
    <3>6. KeyOf(n, k) /\ KeyOf(n, l) /\ ~ Earlier(k, l) /\ ~ Earlier(l, k)
      BY <2>3, <2>4, <2>6
    <3> HIDE DEF k, l
    <3>7. \A x \in 1 .. n : k[x] = l[x]
      BY <3>6, EarlierIsTotal
    <3>1. \A x \in 1 .. n : keys[i][x] = keys[h][x]
      BY <3>7 DEF k, l
    <3>2. PICK x \in 1 .. n : /\ keys[h][x] < keys[j][x]
                              /\ \A y \in 1 .. x - 1 : keys[h][y] = keys[j][y]
      BY <2>2, <2>4 DEF Earlier, KeyOf
    <3>3. \A y \in 1 .. x - 1 : keys[i][y] = keys[j][y]
      BY <3>1, <3>2
    <3>4. keys[i][x] < keys[j][x]
      BY <3>1, <3>2
    <3>5. x \in DOMAIN keys[i]
      BY <2>4 DEF KeyOf
    <3> QED BY <3>3, <3>4, <3>5 DEF Earlier
  <2> QED BY <2>5, <2>6
<1>5. /\ i \in DOMAIN keys
      /\ \A j \in DOMAIN keys : ~ Earlier(keys[j], keys[i])
      /\ \A j \in 1 .. i - 1 : Earlier(keys[i], keys[j])
  BY <1>3, <1>4
<1> HIDE DEF Smallest, Before, Places
<1> QED BY <1>5 DEF FirstBy

(* So the smallest key does not depend on the places of the keys.          *)
LEMMA SmallestKeyIsOne ==
  ASSUME NEW n \in Nat, NEW m \in Nat \ {0},
         NEW keys, DOMAIN keys = 1 .. m, \A j \in 1 .. m : KeyOf(n, keys[j]),
         NEW others, DOMAIN others = 1 .. m, SameMembers(m, keys, others)
  PROVE  \A x \in 1 .. n : keys[FirstBy(keys)][x] = others[FirstBy(others)][x]
<1>1. \A j \in 1 .. m : KeyOf(n, others[j])
  <2>1. TAKE j \in 1 .. m
  <2>2. PICK i \in 1 .. m : others[j] = keys[i]
    BY DEF SameMembers
  <2> QED BY <2>2
<1>2. /\ FirstBy(keys) \in 1 .. m
      /\ \A j \in 1 .. m : ~ Earlier(keys[j], keys[FirstBy(keys)])
  BY FirstByIsSmallest
<1>3. /\ FirstBy(others) \in 1 .. m
      /\ \A j \in 1 .. m : ~ Earlier(others[j], others[FirstBy(others)])
  BY <1>1, FirstByIsSmallest
<1>4. PICK i \in 1 .. m : others[FirstBy(others)] = keys[i]
  BY <1>3 DEF SameMembers
<1>5. PICK j \in 1 .. m : others[j] = keys[FirstBy(keys)]
  BY <1>2 DEF SameMembers
<1>6. /\ ~ Earlier(keys[FirstBy(keys)], others[FirstBy(others)])
      /\ ~ Earlier(others[FirstBy(others)], keys[FirstBy(keys)])
  BY <1>2, <1>3, <1>4, <1>5
<1>7. KeyOf(n, keys[FirstBy(keys)]) /\ KeyOf(n, others[FirstBy(others)])
  BY <1>1, <1>2, <1>3
<1> DEFINE k == keys[FirstBy(keys)]
<1> DEFINE l == others[FirstBy(others)]
<1>8. KeyOf(n, k) /\ KeyOf(n, l) /\ ~ Earlier(k, l) /\ ~ Earlier(l, k)
  BY <1>6, <1>7
<1> HIDE DEF k, l
<1>9. \A y \in 1 .. n : k[y] = l[y]
  BY <1>8, EarlierIsTotal
<1> QED BY <1>9 DEF k, l

(* A status has a rank, known or not.                                      *)
LEMMA RankIsNumber ==
  ASSUME NEW statuses, DOMAIN statuses \subseteq Int, NEW status
  PROVE  Ranked(statuses, status) \in Int
<1>1. CASE \E i \in DOMAIN statuses : statuses[i] = status
  <2>1. PICK i \in DOMAIN statuses : statuses[i] = status
    BY <1>1
  <2>2. (CHOOSE j \in DOMAIN statuses : statuses[j] = status) \in DOMAIN statuses
    BY <2>1
  <2> QED BY <1>1, <2>2 DEF Ranked
<1>2. CASE ~ \E i \in DOMAIN statuses : statuses[i] = status
  BY <1>2 DEF Ranked
<1> QED BY <1>1, <1>2

(* The key by which opportunities are sorted.                              *)
LEMMA OpportunityKeyOf ==
  ASSUME NEW o \in Opportunities
  PROVE  KeyOf(4, OpportunityKey(o)) /\ OpportunityKey(o)[3] = o.symbol
<1>1. OpportunityRank(o) \in Int
  <2> DEFINE statuses == <<"VALID", "CONFLICTED", "WEAK", "DEGRADED">>
  <2>1. DOMAIN statuses \subseteq Int /\ OpportunityRank(o) = Ranked(statuses, o.status)
    BY DEF OpportunityRank
  <2> HIDE DEF statuses
  <2> QED BY <2>1, RankIsNumber
<1>2. o.score \in Int /\ o.symbol \in Nat /\ o.id \in Nat
  BY DEF Opportunities
<1> QED BY <1>1, <1>2 DEF KeyOf, OpportunityKey

(* The key by which strategy candidates are sorted.                        *)
LEMMA CandidateKeyOf ==
  ASSUME NEW c \in StrategyCandidates
  PROVE  /\ KeyOf(3, CandidateKey(c, DefaultIds))
         /\ CandidateKey(c, DefaultIds)[3] = StrategyId(c, DefaultIds)
<1>1. StrategyRank(c) \in Int
  <2> DEFINE statuses == <<"VALID", "CONFLICTED", "WEAK", "INCOMPATIBLE">>
  <2>1. DOMAIN statuses \subseteq Int /\ StrategyRank(c) = Ranked(statuses, c.status)
    BY DEF StrategyRank
  <2> HIDE DEF statuses
  <2> QED BY <2>1, RankIsNumber
<1>2. c.confidence \in Int /\ c.id \in Nat /\ c.action \in Actions
  BY DEF StrategyCandidates
<1>3. StrategyId(c, DefaultIds) \in Int
  BY <1>2, PortsAssumption DEF StrategyId
<1> QED BY <1>1, <1>2, <1>3 DEF KeyOf, CandidateKey

(* A reordering lists the same members in the same number of places.       *)
LEMMA Reordered ==
  ASSUME NEW S, NEW seq \in Seq(S), NEW other \in Reorderings(seq)
  PROVE  /\ Len(seq) \in Nat
         /\ DOMAIN seq = 1 .. Len(seq) /\ DOMAIN other = 1 .. Len(seq)
         /\ SameMembers(Len(seq), seq, other)
         /\ \A i \in 1 .. Len(seq) : seq[i] \in S /\ other[i] \in S
<1>1. DOMAIN seq = 1 .. Len(seq) /\ Len(seq) \in Nat
  OBVIOUS
<1>2. PICK perm \in [DOMAIN seq -> DOMAIN seq] :
        Range(perm) = DOMAIN seq /\ other = [i \in DOMAIN seq |-> seq[perm[i]]]
  BY DEF Reorderings
<1>3. \A i \in DOMAIN seq : seq[i] \in S
  OBVIOUS
<1>4. \A j \in DOMAIN seq : perm[j] \in DOMAIN seq /\ other[j] = seq[perm[j]]
  BY <1>2
<1>5. \A i \in DOMAIN seq : \E j \in DOMAIN seq : perm[j] = i
  BY <1>2 DEF Range
<1>6. DOMAIN other = DOMAIN seq
  BY <1>2
<1>7. \A i \in DOMAIN seq : \E j \in DOMAIN seq : other[j] = seq[i]
  <2>1. TAKE i \in DOMAIN seq
  <2>2. PICK j \in DOMAIN seq : perm[j] = i
    BY <1>5
  <2> QED BY <2>2, <1>4
<1>8. SameMembers(Len(seq), seq, other)
  BY <1>1, <1>4, <1>7 DEF SameMembers
<1> QED BY <1>1, <1>3, <1>4, <1>6, <1>8

(* CycleEngine._select_symbol does not depend on the order of discovery.   *)
LEMMA SymbolIgnoresOrder ==
  ASSUME NEW found \in Seq(Opportunities), found # <<>>,
         NEW other \in Reorderings(found)
  PROVE  other # <<>> /\ SelectSymbol(other, TRUE, <<>>) = SelectSymbol(found, TRUE, <<>>)
<1> DEFINE m == Len(found)
<1> DEFINE keys == OpportunityKeys(found)
<1> DEFINE others == OpportunityKeys(other)
<1>1. /\ m \in Nat \ {0}
      /\ DOMAIN found = 1 .. m /\ DOMAIN other = 1 .. m
      /\ SameMembers(m, found, other)
      /\ \A i \in 1 .. m : found[i] \in Opportunities /\ other[i] \in Opportunities
  BY Reordered
<1> HIDE DEF m
<1>2. /\ DOMAIN keys = 1 .. m /\ \A i \in 1 .. m : keys[i] = OpportunityKey(found[i])
      /\ DOMAIN others = 1 .. m /\ \A i \in 1 .. m : others[i] = OpportunityKey(other[i])
  BY <1>1 DEF OpportunityKeys
<1> HIDE DEF keys, others
<1>3. /\ \A j \in 1 .. m : KeyOf(4, keys[j])
      /\ \A j \in 1 .. m : KeyOf(4, others[j])
  BY <1>1, <1>2, OpportunityKeyOf
<1>4. SameMembers(m, keys, others)
  <2>1. ASSUME NEW j \in 1 .. m PROVE \E i \in 1 .. m : others[j] = keys[i]
    <3>1. PICK i \in 1 .. m : other[j] = found[i]
      BY <1>1 DEF SameMembers
    <3> QED BY <1>2, <3>1
  <2>2. ASSUME NEW i \in 1 .. m PROVE \E j \in 1 .. m : others[j] = keys[i]
    <3>1. PICK j \in 1 .. m : other[j] = found[i]
      BY <1>1 DEF SameMembers
    <3> QED BY <1>2, <3>1
  <2> QED BY <2>1, <2>2 DEF SameMembers
<1>5. FirstBy(keys) \in 1 .. m /\ FirstBy(others) \in 1 .. m
  BY <1>1, <1>2, <1>3, FirstByIsSmallest
<1>6. \A x \in 1 .. 4 : keys[FirstBy(keys)][x] = others[FirstBy(others)][x]
  BY <1>1, <1>2, <1>3, <1>4, SmallestKeyIsOne
<1>7. found[FirstBy(keys)].symbol = other[FirstBy(others)].symbol
  <2>1. keys[FirstBy(keys)][3] = others[FirstBy(others)][3]
    BY <1>6
  <2>2. /\ keys[FirstBy(keys)][3] = found[FirstBy(keys)].symbol
        /\ others[FirstBy(others)][3] = other[FirstBy(others)].symbol
    BY <1>1, <1>2, <1>5, OpportunityKeyOf
  <2> QED BY <2>1, <2>2
<1>8. other # <<>>
  BY <1>1
<1> QED BY <1>7, <1>8 DEF SelectSymbol, keys, others

(* CycleEngine._select_strategy gives candidates of one identifier.        *)
LEMMA StrategyIgnoresOrder ==
  ASSUME NEW built \in Seq(StrategyCandidates), built # <<>>,
         NEW other \in Reorderings(built)
  PROVE  StrategyId(SelectStrategy(other, DefaultIds)[1], DefaultIds)
           = StrategyId(SelectStrategy(built, DefaultIds)[1], DefaultIds)
<1> DEFINE m == Len(built)
<1> DEFINE keys == CandidateKeys(built, DefaultIds)
<1> DEFINE others == CandidateKeys(other, DefaultIds)
<1>1. /\ m \in Nat \ {0}
      /\ DOMAIN built = 1 .. m /\ DOMAIN other = 1 .. m
      /\ SameMembers(m, built, other)
      /\ \A i \in 1 .. m : built[i] \in StrategyCandidates /\ other[i] \in StrategyCandidates
  BY Reordered
<1> HIDE DEF m
<1>2. /\ DOMAIN keys = 1 .. m
      /\ \A i \in 1 .. m : keys[i] = CandidateKey(built[i], DefaultIds)
      /\ DOMAIN others = 1 .. m
      /\ \A i \in 1 .. m : others[i] = CandidateKey(other[i], DefaultIds)
  BY <1>1 DEF CandidateKeys
<1> HIDE DEF keys, others
<1>3. /\ \A j \in 1 .. m : KeyOf(3, keys[j])
      /\ \A j \in 1 .. m : KeyOf(3, others[j])
  BY <1>1, <1>2, CandidateKeyOf
<1>4. SameMembers(m, keys, others)
  <2>1. ASSUME NEW j \in 1 .. m PROVE \E i \in 1 .. m : others[j] = keys[i]
    <3>1. PICK i \in 1 .. m : other[j] = built[i]
      BY <1>1 DEF SameMembers
    <3> QED BY <1>2, <3>1
  <2>2. ASSUME NEW i \in 1 .. m PROVE \E j \in 1 .. m : others[j] = keys[i]
    <3>1. PICK j \in 1 .. m : other[j] = built[i]
      BY <1>1 DEF SameMembers
    <3> QED BY <1>2, <3>1
  <2> QED BY <2>1, <2>2 DEF SameMembers
<1>5. FirstBy(keys) \in 1 .. m /\ FirstBy(others) \in 1 .. m
  BY <1>1, <1>2, <1>3, FirstByIsSmallest
<1>6. \A x \in 1 .. 3 : keys[FirstBy(keys)][x] = others[FirstBy(others)][x]
  BY <1>1, <1>2, <1>3, <1>4, SmallestKeyIsOne
<1>7. StrategyId(built[FirstBy(keys)], DefaultIds)
        = StrategyId(other[FirstBy(others)], DefaultIds)
  <2>1. keys[FirstBy(keys)][3] = others[FirstBy(others)][3]
    BY <1>6
  <2>2. /\ keys[FirstBy(keys)][3] = StrategyId(built[FirstBy(keys)], DefaultIds)
        /\ others[FirstBy(others)][3] = StrategyId(other[FirstBy(others)], DefaultIds)
    BY <1>1, <1>2, <1>5, CandidateKeyOf
  <2> QED BY <2>1, <2>2
<1>8. other # <<>>
  BY <1>1
<1> QED BY <1>7, <1>8 DEF SelectStrategy, keys, others

(* So a choice derived as ChoiceInv says ignores the ports' order.         *)
LEMMA ChoiceHolds ==
  ASSUME ChoiceInv
  PROVE  ChoiceIgnoresOrder
<1>1. ASSUME NEW found \in Reorderings(choice.found), found # <<>>
      PROVE  SelectSymbol(found, TRUE, <<>>) = choice.symbol
  <2>1. choice.found # <<>>
    BY <1>1, Reordered DEF ChoiceInv
  <2> QED BY <1>1, <2>1, SymbolIgnoresOrder DEF ChoiceInv
<1>2. ASSUME NEW built \in Reorderings(choice.built)
      PROVE  LET other == SelectStrategy(built, DefaultIds)
             IN \/ other = choice.strategy
                \/ StrategyId(other[1], DefaultIds)
                     = StrategyId(choice.strategy[1], DefaultIds)
  <2>1. CASE choice.built = <<>>
    <3>1. built = <<>>
      BY <2>1 DEF Reorderings
    <3> QED BY <2>1, <3>1 DEF ChoiceInv, SelectStrategy
  <2>2. CASE choice.built # <<>>
    BY <2>2, StrategyIgnoresOrder DEF ChoiceInv
  <2> QED BY <2>1, <2>2
<1> QED BY <1>1, <1>2 DEF ChoiceIgnoresOrder

------------------------------------------------------------------------------
(* The reviews and the proposals.                                          *)

(* A set onto which a finite one maps is finite, and no larger.            *)
LEMMA ImageOf ==
  ASSUME NEW S, IsFiniteSet(S), NEW T, NEW f \in [S -> T],
         \A t \in T : \E s \in S : f[s] = t
  PROVE  /\ IsFiniteSet(T)
         /\ (\A a, b \in S : f[a] = f[b] => a = b) => Cardinality(T) = Cardinality(S)
<1>1. f \in Surjection(S, T)
  BY Fun_IsSurj
<1>2. (\A a, b \in S : f[a] = f[b] => a = b) => f \in Injection(S, T)
  BY Fun_IsInj
<1> QED BY <1>1, <1>2, FS_Surjection

(* ExecutionMonitor._review: it suggests to close or reduce only on a      *)
(* known profit or loss outside the nominal range, on data not stale.      *)
LEMMA SuggestionRests ==
  ASSUME NEW portfolio, NEW snapshot, NEW p,
         p.quantity \in Int \ {0}, p.entry = Entry,
         p.unrealized_pnl # Nothing => p.unrealized_pnl[1] \in Int
  PROVE  LET action == Review(p, portfolio, snapshot).action
             pct == UnrealizedPct(p)
         IN /\ action \in {"KEEP", "NO_ACTION", "CLOSE", "REDUCE"}
            /\ action \in {"CLOSE", "REDUCE"} =>
                 /\ pct # Nothing
                 /\ AtMost(pct, -5) \/ AtLeast(pct, 6)
                 /\ snapshot # Nothing => snapshot[1].provenance.quality # "STALE"
<1> DEFINE pct == UnrealizedPct(p)
<1> DEFINE trigger == Trigger(p, snapshot)
<1> DEFINE degraded == /\ snapshot # Nothing
                       /\ snapshot[1].provenance.quality \in {"STALE", "MISSING"}
<1>1. Review(p, portfolio, snapshot).action = SuggestedAction(trigger)
  BY DEF Review
<1>2. SuggestedAction(trigger) \in {"KEEP", "NO_ACTION", "CLOSE", "REDUCE"}
  BY DEF SuggestedAction
<1>3. pct # Nothing /\ AtLeast(pct, 10) => AtLeast(pct, 6)
  <2> SUFFICES ASSUME pct # Nothing, AtLeast(pct, 10) PROVE AtLeast(pct, 6)
    OBVIOUS
  <2>1. CostBasis(p) \in Int
    <3>1. Entry \in Nat /\ Magnitude(p.quantity) \in Nat
      BY TradeDeskAssumption DEF Magnitude
    <3> QED BY <3>1 DEF CostBasis
  <2>2. /\ p.unrealized_pnl # Nothing /\ ~ (CostBasis(p) <= 0)
        /\ pct = <<p.unrealized_pnl[1], CostBasis(p)>>
    BY DEF UnrealizedPct
  <2>3. /\ pct[1] \in Int
        /\ pct[2] \in Int /\ pct[2] > 0
    BY <2>1, <2>2
  <2> HIDE DEF pct
  <2> QED BY <2>3 DEF AtLeast
<1>4. SuggestedAction(trigger) \in {"CLOSE", "REDUCE"} =>
        trigger \in {"stop_loss", "take_profit", "profit_protect"}
  BY DEF SuggestedAction
<1>5. trigger \in {"stop_loss", "take_profit", "profit_protect"} =>
        /\ ~ degraded /\ pct # Nothing
        /\ AtMost(pct, -5) \/ AtLeast(pct, 10) \/ AtLeast(pct, 6)
  BY DEF Trigger, take_profit_pct, stop_loss_pct, reduce_above_pct
<1> HIDE DEF trigger, pct
<1>6. ~ degraded /\ snapshot # Nothing => snapshot[1].provenance.quality # "STALE"
  OBVIOUS
<1> HIDE DEF degraded
<1> QED BY <1>1, <1>2, <1>3, <1>4, <1>5, <1>6 DEF pct

(* PositionReevaluationEngine: what is proposed fits the position.         *)
LEMMA ProposalFits ==
  ASSUME NEW portfolio, NEW p, p.quantity \in Int \ {0}, p.entry = Entry,
         p.unrealized_pnl # Nothing => p.unrealized_pnl[1] \in Int,
         NEW r, r = Review(p, portfolio, state.market[p.symbol]),
         NEW pr, pr = ProposalFrom(r, state)
  PROVE  LET pct == UnrealizedPct(p)
             snapshot == state.market[p.symbol]
         IN /\ pr.symbol = p.symbol /\ r.symbol = p.symbol
            /\ pr.action \in Actions /\ pr.halves \in Nat
            /\ pr.halves <= 2 * Magnitude(p.quantity)
            /\ pr.action = "REDUCE" => pr.halves = 2 * Magnitude(p.quantity) - pr.halves
            /\ pr.action = "CLOSE" => pr.halves = 2 * Magnitude(p.quantity)
            /\ pr.halves > 0 <=> pr.action \in Irreversible
            /\ pr.action \in Irreversible =>
                 /\ pct # Nothing
                 /\ AtMost(pct, -5) \/ AtLeast(pct, 6)
                 /\ snapshot # Nothing => snapshot[1].provenance.quality # "STALE"
<1> DEFINE action == r.action
<1> DEFINE size == Magnitude(p.quantity)
<1>1. r.symbol = p.symbol /\ r.quantity = p.quantity
  BY DEF Review
<1>2. /\ pr.symbol = p.symbol
      /\ pr.action = (IF action = "KEEP" THEN "NO_ACTION" ELSE action)
      /\ pr.halves = QuantityFor(pr.action, r)
  BY <1>1 DEF ProposalFrom
<1>3. /\ action \in {"KEEP", "NO_ACTION", "CLOSE", "REDUCE"}
      /\ action \in {"CLOSE", "REDUCE"} =>
           LET pct == UnrealizedPct(p)
               snapshot == state.market[p.symbol]
           IN /\ pct # Nothing
              /\ AtMost(pct, -5) \/ AtLeast(pct, 6)
              /\ snapshot # Nothing => snapshot[1].provenance.quality # "STALE"
  BY SuggestionRests
<1>4. size \in Nat \ {0}
  BY DEF Magnitude
<1> HIDE DEF action, size
<1>5. pr.halves = CASE pr.action = "CLOSE" -> 2 * size
                    [] pr.action = "REDUCE" -> size
                    [] OTHER -> 0
  BY <1>1, <1>2, <1>3 DEF QuantityFor, size
<1>6. CASE action = "CLOSE"
  BY <1>1, <1>2, <1>3, <1>4, <1>5, <1>6 DEF size, Irreversible, Actions
<1>7. CASE action = "REDUCE"
  BY <1>1, <1>2, <1>3, <1>4, <1>5, <1>7 DEF size, Irreversible, Actions
<1>8. CASE action \in {"KEEP", "NO_ACTION"}
  BY <1>1, <1>2, <1>4, <1>5, <1>8 DEF size, Irreversible, Actions
<1> QED BY <1>3, <1>6, <1>7, <1>8

(* Every review is that of a position, on the snapshot of its symbol.      *)
LEMMA ReviewsOf ==
  ASSUME NEW portfolio, PositionsRead(portfolio.positions)
  PROVE  LET reviews == Reviews(portfolio, <<state>>)
         IN /\ IsFiniteSet(reviews)
            /\ \A r \in reviews : \E p \in portfolio.positions :
                 r = Review(p, portfolio, state.market[p.symbol])
<1> DEFINE f == [p \in portfolio.positions |-> Review(p, portfolio, state.market[p.symbol])]
<1> DEFINE reviews == Reviews(portfolio, <<state>>)
<1>1. \A p \in portfolio.positions : SnapshotIn(<<state>>, p.symbol) = state.market[p.symbol]
  BY DEF SnapshotIn, Nothing
<1>2. \A r \in reviews : \E p \in portfolio.positions :
        r = Review(p, portfolio, state.market[p.symbol])
  BY <1>1 DEF Reviews
<1>3. \A p \in portfolio.positions : f[p] \in reviews
  BY <1>1 DEF Reviews
<1>4. f \in [portfolio.positions -> reviews]
  BY <1>3
<1>5. \A r \in reviews : \E p \in portfolio.positions : f[p] = r
  BY <1>2
<1> HIDE DEF f, reviews
<1>6. IsFiniteSet(portfolio.positions)
  BY DEF PositionsRead
<1>7. IsFiniteSet(reviews)
  BY <1>4, <1>5, <1>6, ImageOf
<1> QED BY <1>2, <1>7 DEF reviews

(* What a field that may be absent holds.                                  *)
LEMMA OptionalRange ==
  ASSUME NEW read, Optional(read)
  PROVE  Range(read) = IF read = Nothing THEN {} ELSE {read[1]}
  BY DEF Optional, Range, Nothing

(* A report derived as ReportInv says fits the positions.                  *)
LEMMA ProposalsHold ==
  ASSUME OrdersInv, PortfolioInv, ReportInv
  PROVE  /\ ProposalsFitThePosition
         /\ \A pr \in report.proposals : pr.action \in Actions /\ pr.halves \in Nat
<1> SUFFICES ASSUME report.proposals # {}
             PROVE  /\ ProposalsFitThePosition
                    /\ \A pr \in report.proposals : pr.action \in Actions /\ pr.halves \in Nat
  BY DEF ProposalsFitThePosition
<1> DEFINE portfolio == report.basis[1]
<1> DEFINE positions == portfolio.positions
<1>1. stepping /\ report.proposals = ProposalsFrom(report.reviews, state)
  BY DEF ReportInv
<1>2. report.reviews # {}
  BY <1>1 DEF ProposalsFrom
<1>3. report.basis # Nothing /\ report.reviews = Reviews(portfolio, <<state>>)
  BY <1>1, <1>2 DEF ReportInv
<1>4. PositionsRead(positions)
  <2>1. portfolio \in Portfolios
    BY <1>3, OptionalRange DEF PortfolioInv, Portfolios
  <2> QED BY <2>1 DEF PortfolioInv, PortfolioRead
<1>5. /\ IsFiniteSet(report.reviews)
      /\ \A r \in report.reviews : \E p \in positions :
           r = Review(p, portfolio, state.market[p.symbol])
  BY <1>3, <1>4, ReviewsOf
<1>6. /\ \A p \in positions :
           /\ p.quantity \in Int \ {0}
           /\ p.entry = Entry
           /\ p.unrealized_pnl # Nothing => p.unrealized_pnl[1] \in Int
      /\ \A p, q \in positions : p.symbol = q.symbol => p = q
  BY <1>4 DEF PositionsRead
<1>7. \A pr \in report.proposals : \E r \in report.reviews : pr = ProposalFrom(r, state)
  BY <1>1 DEF ProposalsFrom
<1> DEFINE f == [r \in report.reviews |-> ProposalFrom(r, state)]
<1>8. Cardinality(report.proposals) = Cardinality(report.reviews)
  <2>1. f \in [report.reviews -> report.proposals]
    BY <1>1 DEF ProposalsFrom
  <2>2. \A pr \in report.proposals : \E r \in report.reviews : f[r] = pr
    BY <1>7
  <2>3. ASSUME NEW a \in report.reviews, NEW b \in report.reviews, f[a] = f[b]
        PROVE  a = b
    <3>1. PICK p \in positions : a = Review(p, portfolio, state.market[p.symbol])
      BY <1>5
    <3>2. PICK q \in positions : b = Review(q, portfolio, state.market[q.symbol])
      BY <1>5
    <3>3. f[a] = ProposalFrom(a, state) /\ f[b] = ProposalFrom(b, state)
      OBVIOUS
    <3> HIDE DEF f, portfolio, positions
    <3>4. f[a].symbol = p.symbol /\ f[b].symbol = q.symbol
      BY <1>6, <3>1, <3>2, <3>3, ProposalFits
    <3> QED BY <1>6, <2>3, <3>1, <3>2, <3>4
  <2> HIDE DEF f
  <2> QED BY <1>5, <2>1, <2>2, <2>3, ImageOf
<1> HIDE DEF f, portfolio, positions
<1>9. ASSUME NEW pr \in report.proposals
      PROVE  /\ pr.action \in Actions /\ pr.halves \in Nat
             /\ LET p == CHOOSE q \in positions : q.symbol = pr.symbol
                    pct == UnrealizedPct(p)
                    snapshot == state.market[pr.symbol]
                IN /\ pr.halves <= 2 * Magnitude(p.quantity)
                   /\ pr.action = "REDUCE" =>
                        pr.halves = 2 * Magnitude(p.quantity) - pr.halves
                   /\ pr.action = "CLOSE" => pr.halves = 2 * Magnitude(p.quantity)
                   /\ pr.halves > 0 <=> pr.action \in Irreversible
                   /\ pr.action \in Irreversible =>
                        /\ pct # Nothing
                        /\ AtMost(pct, -5) \/ AtLeast(pct, 6)
                        /\ snapshot # Nothing => snapshot[1].provenance.quality # "STALE"
  <2>1. PICK r \in report.reviews : pr = ProposalFrom(r, state)
    BY <1>7
  <2>2. PICK p \in positions : r = Review(p, portfolio, state.market[p.symbol])
    BY <1>5
  <2>3. pr.symbol = p.symbol
    BY <1>6, <2>1, <2>2, ProposalFits
  <2>4. (CHOOSE q \in positions : q.symbol = pr.symbol) = p
    BY <1>6, <2>3
  <2> QED BY <1>6, <2>1, <2>2, <2>3, <2>4, ProposalFits
<1> QED BY <1>8, <1>9 DEF ProposalsFitThePosition, portfolio, positions

(* Reviews of a portfolio without the own order ignore that order.         *)
LEMMA OwnOrderHolds ==
  ASSUME PortfolioInv, ReportInv
  PROVE  ReviewsIgnoreTheOwnOrder
<1> SUFFICES ASSUME report.reviews # {}, stepping, state.portfolio # Nothing,
                    sent[cycle] # NoOrder,
                    NEW r \in report.reviews, OrdersOn(r.symbol) = {cycle}
             PROVE  r.quantity = Held[r.symbol]
  BY DEF ReviewsIgnoreTheOwnOrder
<1> DEFINE portfolio == state.portfolio[1]
<1>1. report.reviews = Reviews(portfolio, <<state>>)
  BY DEF ReportInv
<1>2. PositionsRead(portfolio.positions) /\ WithoutOwnOrder(portfolio.positions)
  <2>1. portfolio \in Range(state.portfolio) /\ portfolio \in Portfolios
    BY OptionalRange DEF PortfolioInv, Portfolios
  <2> HIDE DEF portfolio
  <2> QED BY <2>1 DEF PortfolioInv, PortfolioRead
<1> HIDE DEF portfolio
<1>3. PICK p \in portfolio.positions : r = Review(p, portfolio, state.market[p.symbol])
  BY <1>1, <1>2, ReviewsOf
<1>4. r.symbol = p.symbol /\ r.quantity = p.quantity
  BY <1>3 DEF Review
<1> QED BY <1>2, <1>4 DEF WithoutOwnOrder

------------------------------------------------------------------------------
(* The book, the positions and the open orders.                            *)

(* There are finitely many orders on a symbol, on each side.               *)
LEMMA OrdersAreFinite ==
  /\ IsFiniteSet(Orders)
  /\ \A s : OrdersOn(s) \subseteq Orders /\ IsFiniteSet(OrdersOn(s))
  /\ \A s, side : /\ OrdersToward(s, side) \subseteq OrdersOn(s)
                  /\ IsFiniteSet(OrdersToward(s, side))
<1>1. IsFiniteSet(Orders)
  BY BrokerOrdersAssumption, FS_Interval DEF Orders
<1>2. \A s : OrdersOn(s) \subseteq Orders
  BY DEF OrdersOn, Sent
<1>3. \A s, side : OrdersToward(s, side) \subseteq OrdersOn(s)
  BY DEF OrdersToward
<1>4. \A s : IsFiniteSet(OrdersOn(s))
  BY <1>1, <1>2, FS_Subset
<1> QED BY <1>1, <1>2, <1>3, <1>4, FS_Subset

(* No more is done on a symbol than was sent.                              *)
LEMMA WhatIsDone ==
  ASSUME OrdersInv, NEW s, NEW side
  PROVE  /\ DoneOn(s, side) \in Nat
         /\ SentOn(s, side) \in Nat
         /\ DoneOn(s, side) <= SentOn(s, side)
<1> DEFINE S == OrdersToward(s, side)
<1> DEFINE qty == [o \in Orders |-> sent[o].qty]
<1>1. IsFiniteSet(S) /\ S \subseteq Sent /\ S \subseteq Orders
  <2>1. IsFiniteSet(S) /\ S \subseteq OrdersOn(s)
    BY OrdersAreFinite
  <2>2. OrdersOn(s) \subseteq Sent /\ Sent \subseteq Orders
    BY DEF OrdersOn, Sent
  <2> HIDE DEF S
  <2> QED BY <2>1, <2>2
<1>2. \A o \in S : filled[o] \in Nat /\ qty[o] \in Nat /\ filled[o] <= qty[o]
  BY <1>1 DEF OrdersInv
<1> DEFINE same == [o \in S |-> o]
<1>7. \A o \in S : same[o] = o
  OBVIOUS
<1> HIDE DEF S, qty, same
<1>3. Numbers(filled, S) /\ Numbers(qty, S)
  BY <1>2 DEF Numbers
<1>4. /\ \A o \in S \ S : filled[o] <= 0
      /\ \A o \in S \cap S : same[o] \in S /\ filled[o] <= qty[same[o]]
      /\ \A o, p \in S \cap S : same[o] = same[p] => o = p
  BY <1>2, <1>7
<1>5. SumFunctionOnSet(filled, S) <= SumFunctionOnSet(qty, S)
  BY <1>1, <1>2, <1>3, <1>4, SumWithin
<1>6. SumFunctionOnSet(filled, S) \in Nat /\ SumFunctionOnSet(qty, S) \in Nat
  BY <1>1, <1>2, SumNotNegative
<1> QED BY <1>5, <1>6 DEF S, qty, DoneOn, SentOn

(* What the broker holds differs from the start by what is done.           *)
LEMMA BookWithin ==
  ASSUME OrdersInv, NEW s \in Symbols
  PROVE  /\ Book(s) \in Int
         /\ Book(s) <= Held[s] + DoneOn(s, "buy")
         /\ Book(s) >= Held[s] - DoneOn(s, "sell")
         /\ OrdersOn(s) = {} => Book(s) = Held[s]
<1> DEFINE T == OrdersOn(s)
<1> DEFINE B == OrdersToward(s, "buy")
<1> DEFINE S == OrdersToward(s, "sell")
<1> DEFINE moved == [o \in Orders |-> Signed(o) * filled[o]]
<1> DEFINE back == [o \in Orders |-> - moved[o]]
<1> DEFINE same == [o \in Orders |-> o]
<1>1. /\ IsFiniteSet(T) /\ T \subseteq Orders
      /\ IsFiniteSet(B) /\ B \subseteq T
      /\ IsFiniteSet(S) /\ S \subseteq T
  BY OrdersAreFinite
<1>2. \A o \in T : filled[o] \in Nat /\ sent[o].side \in {"buy", "sell"}
  BY DEF OrdersInv, OrdersOn, Sent
<1>3. /\ \A o \in T : o \in B <=> sent[o].side = "buy"
      /\ \A o \in T : o \in S <=> sent[o].side = "sell"
  BY DEF OrdersToward
<1>4. /\ \A o \in B : moved[o] = filled[o]
      /\ \A o \in S : moved[o] = - filled[o]
      /\ \A o \in T : o \in B \/ o \in S
      /\ \A o \in T : moved[o] \in Int /\ back[o] = - moved[o]
  <2>1. ASSUME NEW o \in T PROVE moved[o] = IF sent[o].side = "buy" THEN filled[o] ELSE - filled[o]
    BY <1>1, <1>2 DEF Signed
  <2>2. \A o \in T : back[o] = - moved[o]
    BY <1>1
  <2> HIDE DEF moved, back, T, B, S
  <2> QED BY <1>1, <1>2, <1>3, <2>1, <2>2
<1>5. \A o \in Orders : same[o] = o
  OBVIOUS
<1> HIDE DEF moved, back, T, B, S, same
<1>6. Numbers(moved, T) /\ Numbers(back, T)
  BY <1>4 DEF Numbers
<1>7. SumFunctionOnSet(moved, T) <= SumFunctionOnSet(filled, B)
  <2>1. /\ \A o \in T \ B : moved[o] <= 0
        /\ \A o \in T \cap B : same[o] \in B /\ moved[o] <= filled[same[o]]
        /\ \A o, p \in T \cap B : same[o] = same[p] => o = p
        /\ \A o \in B : filled[o] \in Nat
    BY <1>1, <1>2, <1>4, <1>5
  <2> QED BY <1>1, <1>6, <2>1, SumWithin
<1>8. SumFunctionOnSet(back, T) <= SumFunctionOnSet(filled, S)
  <2>1. /\ \A o \in T \ S : back[o] <= 0
        /\ \A o \in T \cap S : same[o] \in S /\ back[o] <= filled[same[o]]
        /\ \A o, p \in T \cap S : same[o] = same[p] => o = p
        /\ \A o \in S : filled[o] \in Nat
    BY <1>1, <1>2, <1>4, <1>5
  <2> QED BY <1>1, <1>6, <2>1, SumWithin
<1>9. SumFunctionOnSet(back, T) = - SumFunctionOnSet(moved, T)
  BY <1>1, <1>4, <1>6, SumNegated
<1>10. SumFunctionOnSet(moved, T) \in Int
  BY <1>1, <1>6, SumRemove
<1>11. T = {} => SumFunctionOnSet(moved, T) = 0
  BY SumOfNone
<1>12. /\ Book(s) = Held[s] + SumFunctionOnSet(moved, T)
       /\ DoneOn(s, "buy") = SumFunctionOnSet(filled, B)
       /\ DoneOn(s, "sell") = SumFunctionOnSet(filled, S)
       /\ T = OrdersOn(s)
  BY DEF Book, DoneOn, moved, T, B, S
<1>13. DoneOn(s, "buy") \in Nat /\ DoneOn(s, "sell") \in Nat
  BY WhatIsDone
<1>14. Held[s] \in Int
  BY TradeDeskAssumption
<1> DEFINE m == SumFunctionOnSet(moved, T)
<1> DEFINE b == DoneOn(s, "buy")
<1> DEFINE d == DoneOn(s, "sell")
<1>15. /\ m \in Int /\ b \in Nat /\ d \in Nat
       /\ m <= b /\ - m <= d
       /\ Book(s) = Held[s] + m
       /\ T = {} => m = 0
  BY <1>7, <1>8, <1>9, <1>10, <1>11, <1>12, <1>13
<1> HIDE DEF m, b, d
<1>16. /\ Book(s) \in Int
       /\ Book(s) <= Held[s] + b
       /\ Book(s) >= Held[s] - d
       /\ T = {} => Book(s) = Held[s]
  BY <1>14, <1>15
<1> QED BY <1>12, <1>16 DEF b, d

(* What ReadPositions finds.                                               *)
PositionOf(s, marks) == PositionFrom(PositionPayload(s, marks[s]), cycle)
PositionsNow(marks) == {PositionOf(s, marks) : s \in {s \in Symbols : Book(s) # 0}}

(* A position read is what the broker holds of its symbol.                 *)
LEMMA PositionOfSymbol ==
  ASSUME OrdersInv, NEW marks \in Marks, NEW s \in Symbols
  PROVE  LET p == PositionOf(s, marks)
         IN /\ p.symbol = s
            /\ p.quantity = Book(s)
            /\ p.entry = Entry
            /\ p.unrealized_pnl # Nothing => p.unrealized_pnl[1] \in Int
            /\ p.updated_at = cycle
<1> DEFINE payload == PositionPayload(s, marks[s])
<1>1. Book(s) \in Int /\ marks[s].price \in Int /\ Entry \in Int
  BY BookWithin, PortsAssumption, TradeDeskAssumption
<1>2. /\ payload.symbol = s /\ payload.qty = Book(s)
      /\ payload.side = (IF Book(s) < 0 THEN "short" ELSE "long")
      /\ payload.avg_entry_price = Entry
      /\ payload.unrealized_pl = IF marks[s].known THEN <<(marks[s].price - Entry) * Book(s)>>
                                 ELSE Nothing
  BY DEF PositionPayload
<1> HIDE DEF payload
<1>3. SignedQuantity(payload) = Book(s)
  BY <1>1, <1>2 DEF SignedQuantity, Magnitude
<1>4. payload.unrealized_pl # Nothing => payload.unrealized_pl[1] \in Int
  <2>1. (marks[s].price - Entry) * Book(s) \in Int
    BY <1>1
  <2> QED BY <1>2, <2>1
<1> QED BY <1>2, <1>3, <1>4 DEF PositionOf, PositionFrom, payload

(* The positions read are the book, at the moment they are read.           *)
LEMMA PositionsAreRead ==
  ASSUME OrdersInv, NEW marks \in Marks
  PROVE  /\ PositionsRead(PositionsNow(marks))
         /\ WithinWhatIsDone(PositionsNow(marks))
         /\ sent[cycle] = NoOrder => WithoutOwnOrder(PositionsNow(marks))
<1> DEFINE held == {s \in Symbols : Book(s) # 0}
<1> DEFINE positions == PositionsNow(marks)
<1> DEFINE f == [s \in held |-> PositionOf(s, marks)]
<1>1. IsFiniteSet(held)
  BY TradeDeskAssumption, FS_Subset
<1>2. /\ f \in [held -> positions]
      /\ \A p \in positions : \E s \in held : f[s] = p
  BY DEF PositionsNow
<1>3. IsFiniteSet(positions)
  <2> HIDE DEF f, positions, held
  <2> QED BY <1>1, <1>2, ImageOf
<1>4. ASSUME NEW p \in positions
      PROVE  /\ p.symbol \in Symbols /\ Book(p.symbol) # 0
             /\ p = PositionOf(p.symbol, marks)
             /\ p.quantity = Book(p.symbol)
             /\ p.entry = Entry
             /\ p.unrealized_pnl # Nothing => p.unrealized_pnl[1] \in Int
             /\ p.updated_at = cycle
  <2>1. PICK s \in Symbols : Book(s) # 0 /\ p = PositionOf(s, marks)
    BY DEF PositionsNow
  <2> QED BY <2>1, PositionOfSymbol
<1>5. \A s \in Symbols : Book(s) \in Int
  BY BookWithin
<1>6. cycle \in 0 .. cycle
  BY DEF OrdersInv
<1>7. ASSUME NEW s \in Symbols PROVE PositionOn([positions |-> positions], s) = Book(s)
  <2> DEFINE q == [p \in positions |-> p.quantity]
  <2> DEFINE on == {p \in positions : p.symbol = s}
  <2>1. PositionOn([positions |-> positions], s) = SumFunctionOnSet(q, on)
    BY DEF PositionOn
  <2>2. CASE Book(s) = 0
    <3>1. on = {}
      BY <1>4, <2>2
    <3> HIDE DEF on, q, positions
    <3> QED BY <2>1, <2>2, <3>1, SumOfNone
  <2>3. CASE Book(s) # 0
    <3> DEFINE p == PositionOf(s, marks)
    <3>1. p \in positions /\ p.symbol = s /\ p.quantity = Book(s)
      BY <2>3, PositionOfSymbol DEF PositionsNow
    <3>2. on = {p}
      BY <1>4, <3>1
    <3>3. q[p] = Book(s) /\ q[p] \in Int
      BY <1>5, <3>1
    <3> HIDE DEF on, q, positions, p
    <3> QED BY <2>1, <3>2, <3>3, SumOfOne
  <2> QED BY <2>2, <2>3
<1> HIDE DEF positions, held, f
<1>8. PositionsRead(positions)
  BY <1>3, <1>4, <1>5, <1>6 DEF PositionsRead
<1>9. WithinWhatIsDone(positions)
  BY <1>7, BookWithin DEF WithinWhatIsDone
<1>10. ASSUME sent[cycle] = NoOrder PROVE WithoutOwnOrder(positions)
  <2>1. ASSUME NEW p \in positions, OrdersOn(p.symbol) \subseteq {cycle}
        PROVE  p.quantity = Held[p.symbol]
    <3>1. OrdersOn(p.symbol) = {}
      BY <1>10, <2>1 DEF OrdersOn, Sent
    <3> QED BY <1>4, <3>1, BookWithin
  <2> QED BY <2>1 DEF WithoutOwnOrder
<1> QED BY <1>8, <1>9, <1>10 DEF positions

(* What ReadOpenOrders finds.                                              *)
OpenNow == {OrderFrom(StatusPayload(o), cycle) : o \in {o \in Sent : IsOpen(o)}}
Word(side) == IF side = "buy" THEN "BUY" ELSE "SELL"

(* What is open still and what is done make at most what was sent.         *)
LEMMA OpenOrdersWithin ==
  ASSUME OrdersInv, NEW portfolio, portfolio.open_orders = OpenNow,
         NEW s, NEW side \in {"buy", "sell"}
  PROVE  /\ OpenOn(portfolio, s, Word(side)) \in Int
         /\ OpenOn(portfolio, s, Word(side)) + DoneOn(s, side) <= SentOn(s, side)
<1> DEFINE open == portfolio.open_orders
<1> DEFINE T == {r \in open : r.symbol = s /\ r.side = Word(side)}
<1> DEFINE S == OrdersToward(s, side)
<1> DEFINE remaining == [r \in open |-> RemainingQuantity(r)]
<1> DEFINE qty == [o \in Orders |-> sent[o].qty]
<1> DEFINE rest == [o \in Orders |-> sent[o].qty - filled[o]]
<1> DEFINE to == [r \in open |-> r.id]
<1>1. /\ IsFiniteSet(S) /\ S \subseteq OrdersOn(s) /\ OrdersOn(s) \subseteq Sent
      /\ Sent \subseteq Orders
  BY OrdersAreFinite DEF OrdersOn, Sent
<1>2. \A o \in Sent : /\ sent[o].qty \in Nat /\ filled[o] \in Nat
                      /\ filled[o] <= sent[o].qty
                      /\ sent[o].side \in {"buy", "sell"}
  BY <1>1 DEF OrdersInv
<1>3. \A r \in open : \E o \in Sent :
        /\ r = OrderFrom(StatusPayload(o), cycle)
        /\ r.id = o /\ r.symbol = sent[o].symbol /\ r.side = Word(sent[o].side)
        /\ r.quantity = sent[o].qty /\ r.filled = filled[o]
  <2> SUFFICES ASSUME NEW r \in open
               PROVE  \E o \in Sent :
                        /\ r = OrderFrom(StatusPayload(o), cycle)
                        /\ r.id = o /\ r.symbol = sent[o].symbol
                        /\ r.side = Word(sent[o].side)
                        /\ r.quantity = sent[o].qty /\ r.filled = filled[o]
    OBVIOUS
  <2>1. PICK o \in Sent : r = OrderFrom(StatusPayload(o), cycle)
    BY DEF OpenNow
  <2>2. /\ r.id = o /\ r.symbol = sent[o].symbol /\ r.side = Word(sent[o].side)
        /\ r.quantity = sent[o].qty /\ r.filled = filled[o]
    BY <2>1 DEF OrderFrom, StatusPayload, Word
  <2> QED BY <2>1, <2>2
<1>4. ASSUME NEW r \in T
      PROVE  /\ to[r] \in S
             /\ remaining[r] = rest[to[r]]
             /\ r = OrderFrom(StatusPayload(to[r]), cycle)
  <2>1. PICK o \in Sent :
          /\ r = OrderFrom(StatusPayload(o), cycle)
          /\ r.id = o /\ r.symbol = sent[o].symbol /\ r.side = Word(sent[o].side)
          /\ r.quantity = sent[o].qty /\ r.filled = filled[o]
    BY <1>3
  <2>2. sent[o].side = side
    BY <1>2, <2>1 DEF Word
  <2>3. o \in S
    BY <2>1, <2>2 DEF OrdersToward, OrdersOn
  <2>4. RemainingQuantity(r) = sent[o].qty - filled[o]
    BY <1>2, <2>1 DEF RemainingQuantity, NotBelow0
  <2>5. to[r] = o /\ remaining[r] = RemainingQuantity(r) /\ o \in Orders
    BY <1>1, <2>1
  <2> HIDE DEF to, remaining, S, T
  <2> QED BY <2>1, <2>3, <2>4, <2>5
<1>5. \A o \in S : /\ filled[o] \in Nat /\ rest[o] \in Nat /\ qty[o] \in Nat
                   /\ qty[o] = filled[o] + rest[o]
  <2>1. \A o \in S : o \in Sent /\ o \in Orders
    BY <1>1
  <2>2. \A o \in S : rest[o] = sent[o].qty - filled[o] /\ qty[o] = sent[o].qty
    BY <2>1
  <2> HIDE DEF rest, qty, S
  <2> QED BY <1>2, <2>1, <2>2
<1>6. /\ OpenOn(portfolio, s, Word(side)) = SumFunctionOnSet(remaining, T)
      /\ DoneOn(s, side) = SumFunctionOnSet(filled, S)
      /\ SentOn(s, side) = SumFunctionOnSet(qty, S)
  BY DEF OpenOn, DoneOn, SentOn
<1> HIDE DEF open, T, S, remaining, qty, rest, to
<1>7. IsFiniteSet(T)
  <2> DEFINE ids == {to[r] : r \in T}
  <2> DEFINE g == [o \in ids |-> OrderFrom(StatusPayload(o), cycle)]
  <2>1. IsFiniteSet(ids)
    <3>1. ids \subseteq S
      BY <1>4
    <3> QED BY <1>1, <3>1, FS_Subset
  <2>2. \A r \in T : g[to[r]] = r /\ to[r] \in ids
    BY <1>4
  <2>3. \A o \in ids : g[o] \in T
    BY <2>2
  <2>4. g \in [ids -> T]
    BY <2>3
  <2>5. \A r \in T : \E o \in ids : g[o] = r
    BY <2>2
  <2> HIDE DEF ids, g
  <2> QED BY <2>1, <2>4, <2>5, ImageOf
<1>8. /\ Numbers(remaining, T) /\ Numbers(filled, S) /\ Numbers(rest, S)
      /\ \A o \in S : rest[o] \in Nat
      /\ \A r \in T \ T : remaining[r] <= 0
      /\ \A r \in T \cap T : to[r] \in S /\ remaining[r] <= rest[to[r]]
      /\ \A r, q \in T \cap T : to[r] = to[q] => r = q
  BY <1>4, <1>5 DEF Numbers
<1>9. SumFunctionOnSet(remaining, T) <= SumFunctionOnSet(rest, S)
  BY <1>1, <1>7, <1>8, SumWithin
<1>10. SumFunctionOnSet(qty, S) = SumFunctionOnSet(filled, S) + SumFunctionOnSet(rest, S)
  BY <1>1, <1>5, <1>8, SumPlus
<1>11. /\ SumFunctionOnSet(remaining, T) \in Int /\ SumFunctionOnSet(filled, S) \in Int
       /\ SumFunctionOnSet(rest, S) \in Int
  BY <1>1, <1>7, <1>8, SumRemove
<1> QED BY <1>6, <1>9, <1>10, <1>11

------------------------------------------------------------------------------
(* The orders, step by step: what was sent stays, and nothing is undone.   *)

Kept == \A o \in Sent : o \in Sent' /\ sent'[o] = sent[o] /\ filled[o] <= filled'[o]

(* A list that is not empty has an oldest order.                           *)
LEMMA OldestAsked ==
  ASSUME OrdersInv, asking # {}
  PROVE  Min(asking) \in asking
<1>1. asking \subseteq Nat
  BY DEF OrdersInv, Sent, Orders
<1>2. PICK o \in asking : \A p \in asking : o <= p
  BY <1>1, LeastNumber
<1> QED BY <1>2 DEF Min

(* Nothing is out at the start.                                            *)
LEMMA InitOrdersInv == Init => OrdersInv
<1> SUFFICES ASSUME Init PROVE OrdersInv
  OBVIOUS
<1>1. Sent = {} /\ Tracked = {} /\ asking = {}
  BY DEF Init, Sent, InitMonitor, Tracked
<1>2. TypeOKOrders /\ TypeOKMonitor
  BY DEF Init, InitOrders, InitMonitor, TypeOKOrders, TypeOKMonitor, RawStatuses
<1>3. /\ cycle \in 0 .. MaxCalls /\ DOMAIN sent = Orders
      /\ filled \in [Orders -> Nat] /\ \A o \in Orders : filled[o] = 0
  BY BrokerOrdersAssumption DEF Init
<1> QED BY <1>1, <1>2, <1>3 DEF OrdersInv

(* The broker fills at most what was sent and takes nothing back.          *)
LEMMA WorksOrders ==
  ASSUME OrdersInv, NEW o \in Sent, Works(o)
  PROVE  OrdersInv' /\ Kept
<1>1. PICK to \in RawStatuses : raw' = [raw EXCEPT ![o] = to]
  BY DEF Works, BrokerMoves
<1>2. PICK done \in filled[o] .. sent[o].qty : filled' = [filled EXCEPT ![o] = done]
  BY DEF Works
<1>3. UNCHANGED <<tracked, sent, cycle, asking>>
  BY DEF Works
<1>4. o \in Orders /\ Sent' = Sent /\ Tracked' = Tracked
  BY <1>3 DEF Sent, Tracked
<1>5. TypeOKOrders' /\ TypeOKMonitor'
  BY <1>1, <1>3, <1>4 DEF OrdersInv, TypeOKOrders, TypeOKMonitor
<1>6. filled[o] \in Nat /\ sent[o].qty \in Nat /\ done \in Nat
  <2>1. filled[o] \in Nat /\ sent[o].qty \in Nat
    BY <1>4 DEF OrdersInv
  <2> QED BY <2>1
<1>7. /\ filled' \in [Orders -> Nat]
      /\ filled'[o] = done
      /\ \A p \in Orders \ {o} : filled'[p] = filled[p]
  BY <1>2, <1>4, <1>6 DEF OrdersInv
<1>8. \A p \in Sent : p \in Orders
  BY DEF Sent
<1>9. \A p \in Sent : filled[p] <= filled'[p] /\ filled'[p] <= sent[p].qty
  BY <1>2, <1>6, <1>7, <1>8 DEF OrdersInv
<1> QED BY <1>3, <1>4, <1>5, <1>7, <1>8, <1>9 DEF OrdersInv, Kept

(* Only the cycle, the poll's list or what is followed may change.         *)
LEMMA OrdersStay ==
  ASSUME OrdersInv, UNCHANGED <<raw, sent, filled>>,
         cycle' \in cycle .. MaxCalls, TypeOKMonitor', Tracked' \subseteq Sent,
         asking' \subseteq asking \/ asking' \subseteq Tracked'
  PROVE  OrdersInv' /\ Kept
<1>1. Sent' = Sent /\ asking' \subseteq Sent /\ Tracked' \subseteq Sent
  BY DEF Sent, OrdersInv
<1>2. cycle' \in 0 .. MaxCalls /\ 1 .. cycle \subseteq 1 .. cycle'
  BY BrokerOrdersAssumption DEF OrdersInv
<1>3. \A o \in Sent : filled[o] <= filled[o]
  BY DEF OrdersInv, Sent
<1> QED BY <1>1, <1>2, <1>3 DEF OrdersInv, Kept, TypeOKOrders

(* A poll asks about the orders that are followed.                         *)
LEMMA BeginPollAsks ==
  ASSUME NEW step, BeginPoll(step)
  PROVE  asking' = Tracked'
  BY DEF BeginPoll, Tracked

(* A submission takes the number of its cycle, which is free.              *)
LEMMA SubmitOrders ==
  ASSUME DeskInv, Submit
  PROVE  OrdersInv' /\ Kept
<1> USE DEF DeskInv
<1>1. cycle > 0 /\ sent[cycle] = NoOrder /\ plan # Nothing /\ pc = "submit"
  BY DEF Submit, FlowInv, CycleWorks, ChoiceInv
<1>2. cycle \in Orders /\ cycle \notin Sent
  BY <1>1, BrokerOrdersAssumption DEF OrdersInv, Orders, Sent
<1> DEFINE order == OrderPayload(plan[1])
<1>3. /\ sent' = [sent EXCEPT ![cycle] = order]
      /\ raw' = [raw EXCEPT ![cycle] = "new"]
      /\ tracked' = [tracked EXCEPT ![cycle] = "ACCEPTED"]
      /\ UNCHANGED <<filled, cycle>>
      /\ asking' = Tracked'
  <2>1. cycle # NoId
    BY <1>1 DEF NoId
  <2> QED BY <1>1, <2>1, BeginPollAsks DEF Submit, Track, ExecutionFrom, Status
<1>4. /\ order.symbol \in Symbols /\ order.side \in {"buy", "sell"} /\ order.qty \in Nat
      /\ order # NoOrder
  <2>1. /\ order.symbol = plan[1].symbol /\ order.qty = plan[1].quantity
        /\ order.side \in {"buy", "sell"}
    BY DEF OrderPayload
  <2>2. NoOrder.side = "none"
    BY DEF NoOrder
  <2> HIDE DEF order
  <2> QED BY <1>1, <2>1, <2>2 DEF ChoiceInv
<1> HIDE DEF order
<1>5. /\ DOMAIN sent' = Orders /\ sent'[cycle] = order
      /\ \A o \in Orders \ {cycle} : sent'[o] = sent[o]
  BY <1>2, <1>3 DEF OrdersInv
<1>6. Sent' = Sent \cup {cycle}
  BY <1>2, <1>4, <1>5 DEF Sent
<1>7. TypeOKOrders' /\ TypeOKMonitor' /\ Tracked' \subseteq Tracked \cup {cycle}
  BY <1>2, <1>3 DEF OrdersInv, TypeOKOrders, TypeOKMonitor, RawStatuses, OrderStatuses, Tracked
<1>8. filled[cycle] = 0 /\ \A o \in Sent : o \in Orders \ {cycle} /\ filled[o] <= filled[o]
  BY <1>2 DEF OrdersInv, Sent
<1>9. \A o \in Sent' :
        /\ sent'[o].symbol \in Symbols
        /\ sent'[o].side \in {"buy", "sell"}
        /\ sent'[o].qty \in Nat
        /\ filled'[o] <= sent'[o].qty
  BY <1>3, <1>4, <1>5, <1>6, <1>8 DEF OrdersInv
<1>10. Sent' \subseteq 1 .. cycle'
  BY <1>1, <1>3, <1>6 DEF OrdersInv
<1> QED BY <1>3, <1>5, <1>6, <1>7, <1>8, <1>9, <1>10 DEF OrdersInv, Kept

(* The part of DeskInv on the orders, and Kept, over every step.           *)
LEMMA OrdersStep == DeskInv /\ [Next]_vars => OrdersInv' /\ Kept
<1> SUFFICES ASSUME DeskInv, [Next]_vars PROVE OrdersInv' /\ Kept
  OBVIOUS
<1>1. OrdersInv /\ TypeOKMonitor /\ cycle \in cycle .. MaxCalls
  BY BrokerOrdersAssumption DEF DeskInv, OrdersInv
<1>2. UNCHANGED tracked => TypeOKMonitor' /\ Tracked' \subseteq Sent
  BY <1>1 DEF TypeOKMonitor, Tracked, OrdersInv
<1>3. UNCHANGED <<raw, sent, filled, tracked, cycle, asking>> => OrdersInv' /\ Kept
  <2> SUFFICES ASSUME UNCHANGED <<raw, sent, filled, tracked, cycle, asking>>
               PROVE  OrdersInv' /\ Kept
    OBVIOUS
  <2> QED BY <1>1, <1>2, OrdersStay
<1>4. ASSUME NEW step, BeginPoll(step), UNCHANGED <<raw, sent, filled, tracked, cycle>>
      PROVE  OrdersInv' /\ Kept
  BY <1>1, <1>2, <1>4, BeginPollAsks, OrdersStay
<1>5. ASSUME NEW o \in Sent, Works(o) PROVE OrdersInv' /\ Kept
  BY <1>1, <1>5, WorksOrders
<1>6. ASSUME NEW read \in MarketReads, StartCycle(read) PROVE OrdersInv' /\ Kept
  <2>1. cycle' \in cycle .. MaxCalls /\ UNCHANGED <<raw, sent, filled, tracked, asking>>
    BY <1>1, <1>6, BrokerOrdersAssumption DEF StartCycle, OrdersInv
  <2> QED BY <1>1, <1>2, <2>1, OrdersStay
<1>7. ASSUME NEW payload \in AccountReadings,
             ReadAccount(payload) \/ AccountUnreadable(payload)
      PROVE  OrdersInv' /\ Kept
  BY <1>3, <1>7 DEF ReadAccount, AccountUnreadable, WithoutPortfolio
<1>8. ASSUME NEW marks \in Marks, ReadPositions(marks) PROVE OrdersInv' /\ Kept
  BY <1>3, <1>8 DEF ReadPositions
<1>9. CASE ReadOpenOrders \/ PortfolioUnavailable \/ OrdersAsked \/ ReviewPositions
  BY <1>3, <1>9 DEF ReadOpenOrders, PortfolioUnavailable, WithoutPortfolio, OrdersAsked,
                    ReviewPositions
<1>10. ASSUME NEW found \in Discoveries, NEW discovers \in BOOLEAN, NEW built \in Candidates,
              Choose(found, discovers, built)
       PROVE  OrdersInv' /\ Kept
  BY <1>3, <1>10 DEF Choose
<1>11. ASSUME NEW size \in Sizes, NEW authority \in {"ACT", "HOLD", "BLOCK"},
              Decide(size, authority)
       PROVE  OrdersInv' /\ Kept
  <2>1. UNCHANGED <<raw, sent, filled, tracked, cycle>>
    BY <1>11 DEF Decide
  <2>2. BeginPoll(TRUE) \/ UNCHANGED asking
    BY <1>11 DEF Decide
  <2> QED BY <1>3, <1>4, <2>1, <2>2
<1>12. CASE Submit
  BY <1>12, SubmitOrders
<1>13. CASE SubmissionRefused
  <2>1. UNCHANGED <<raw, sent, filled, tracked, cycle>> /\ BeginPoll(TRUE)
    BY <1>13 DEF SubmissionRefused, Track, Refused
  <2> QED BY <1>4, <2>1
<1>14. CASE StartMonitor
  BY <1>4, <1>14 DEF StartMonitor
<1>15. ASSUME NEW o \in Orders, AskAbout(o) PROVE OrdersInv' /\ Kept
  <2>1. UNCHANGED <<raw, sent, filled, cycle>> /\ asking' \subseteq asking
    BY <1>15 DEF AskAbout
  <2>2. o \in asking
    BY <1>1, <1>15, OldestAsked DEF AskAbout
  <2>3. o \in Sent
    BY <1>1, <2>2 DEF OrdersInv
  <2>4. \/ UNCHANGED tracked
        \/ \E status \in OrderStatuses \cup {"untracked"} :
             tracked' = [tracked EXCEPT ![o] = status]
    <3>1. Status(raw[o]) \in OrderStatuses
      BY DEF Status, OrderStatuses
    <3> QED BY <1>15, <3>1
        DEF AskAbout, StatusKnown, StatusUnavailable, StatusUnknown, Untrack
  <2>5. TypeOKMonitor' /\ Tracked' \subseteq Sent
    <3>1. CASE UNCHANGED tracked
      BY <1>2, <3>1
    <3>2. ASSUME NEW status \in OrderStatuses \cup {"untracked"},
                 tracked' = [tracked EXCEPT ![o] = status]
          PROVE  TypeOKMonitor' /\ Tracked' \subseteq Sent
      BY <1>1, <3>2, <2>3 DEF TypeOKMonitor, Tracked, OrdersInv
    <3> QED BY <2>4, <3>1, <3>2
  <2> QED BY <1>1, <2>1, <2>5, OrdersStay
<1>16. CASE UNCHANGED vars
  BY <1>3, <1>16 DEF vars, deskVars
<1> QED BY <1>5, <1>6, <1>7, <1>8, <1>9, <1>10, <1>11, <1>12, <1>13, <1>14, <1>15, <1>16
    DEF Next

------------------------------------------------------------------------------
(* The flow of the calls.                                                  *)

Flow == <<pc, purpose, stepping, state, report, reading, sent, cycle>>

(* Nothing flows at the start.                                             *)
LEMMA InitFlow == Init => FlowInv
  BY DEF Init, FlowInv, CycleWorks, Reads, Unobserved, Observed, NoReport, NoReading

(* The three calls that read a portfolio.                                  *)
LEMMA FlowOfReading ==
  ASSUME OrdersInv, FlowInv,
         \/ \E payload \in AccountReadings : ReadAccount(payload) \/ AccountUnreadable(payload)
         \/ \E marks \in Marks : ReadPositions(marks)
         \/ ReadOpenOrders
         \/ PortfolioUnavailable
  PROVE  FlowInv'
<1>1. UNCHANGED <<sent, cycle, purpose, stepping>>
  BY DEF ReadAccount, AccountUnreadable, ReadPositions, ReadOpenOrders,
         PortfolioUnavailable, WithoutPortfolio
<1>2. pc \in Reads /\ report.reviews = {} /\ report.proposals = {}
  BY DEF FlowInv, ReadAccount, AccountUnreadable, ReadPositions, ReadOpenOrders,
         PortfolioUnavailable, Reads
<1>3. ASSUME NEW payload, ReadAccount(payload) PROVE FlowInv'
  BY <1>1, <1>2, <1>3 DEF ReadAccount, FlowInv, CycleWorks, Reads
<1>4. ASSUME NEW marks, ReadPositions(marks) PROVE FlowInv'
  <2>1. DOMAIN reading' = DOMAIN reading
    BY <1>4 DEF ReadPositions
  <2> QED BY <1>1, <1>2, <1>4, <2>1 DEF ReadPositions, FlowInv, CycleWorks, Reads
<1>5. CASE WithoutPortfolio
  <2>1. CASE purpose = "cycle"
    <3>1. /\ pc' = "choose" /\ UNCHANGED report
          /\ state' = [state EXCEPT !.degraded = @ \cup {0}]
          /\ reading' = NoReading
      BY <1>5, <2>1 DEF WithoutPortfolio
    <3>2. DOMAIN state' = DOMAIN state /\ DOMAIN reading' = {"account", "positions"}
      BY <3>1 DEF NoReading
    <3> QED BY <1>1, <1>2, <2>1, <3>1, <3>2 DEF FlowInv, CycleWorks, Reads
  <2>2. CASE purpose # "cycle"
    <3>1. /\ pc' = "idle" /\ UNCHANGED state
          /\ report' = [report EXCEPT !.degraded = @ + 1]
          /\ reading' = NoReading
      BY <1>5, <2>2 DEF WithoutPortfolio
    <3>2. DOMAIN report' = DOMAIN report /\ DOMAIN reading' = {"account", "positions"}
      BY <3>1 DEF NoReading
    <3> QED BY <1>1, <1>2, <2>2, <3>1, <3>2 DEF FlowInv, CycleWorks, Reads
  <2> QED BY <2>1, <2>2
<1>6. CASE ReadOpenOrders
  <2> DEFINE portfolio == PortfolioFrom(reading.account[1], reading.positions, OpenNow)
  <2>1. WithPortfolio(portfolio) /\ reading' = NoReading
    BY <1>6 DEF ReadOpenOrders, OpenNow
  <2> HIDE DEF portfolio
  <2>2. DOMAIN reading' = {"account", "positions"}
    BY <2>1 DEF NoReading
  <2>3. CASE purpose = "cycle"
    <3>1. /\ pc' = "choose" /\ UNCHANGED report
          /\ state' = [state EXCEPT !.portfolio = <<portfolio>>]
      BY <2>1, <2>3 DEF WithPortfolio
    <3>2. DOMAIN state' = DOMAIN state
      BY <3>1
    <3> QED BY <1>1, <1>2, <2>2, <2>3, <3>1, <3>2 DEF FlowInv, CycleWorks, Reads
  <2>4. CASE purpose # "cycle"
    <3>1. /\ pc' = "review" /\ UNCHANGED state
          /\ report' = [report EXCEPT !.basis = <<portfolio>>]
      BY <2>1, <2>4 DEF WithPortfolio
    <3>2. /\ DOMAIN report' = DOMAIN report
          /\ report'.basis = <<portfolio>> /\ report'.basis # Nothing
          /\ report'.reviews = {} /\ report'.proposals = {}
      BY <1>2, <3>1 DEF FlowInv, Nothing
    <3>3. stepping => state.portfolio = Nothing
      BY <1>2, <2>4 DEF FlowInv
    <3> QED BY <1>1, <1>2, <2>2, <2>4, <3>1, <3>2, <3>3 DEF FlowInv, CycleWorks, Reads
  <2> QED BY <2>3, <2>4
<1> QED BY <1>3, <1>4, <1>5, <1>6 DEF AccountUnreadable, PortfolioUnavailable

(* The part of DeskInv on the flow, over every step.                       *)
LEMMA FlowStep == DeskInv /\ [Next]_vars => FlowInv'
<1> SUFFICES ASSUME DeskInv, [Next]_vars PROVE FlowInv'
  OBVIOUS
<1>1. OrdersInv /\ FlowInv
  BY DEF DeskInv
<1>2. UNCHANGED Flow => FlowInv'
  BY <1>1 DEF Flow, FlowInv, CycleWorks
<1>3. ASSUME NEW o \in Sent, Works(o) PROVE FlowInv'
  BY <1>2, <1>3 DEF Works, Flow
<1>4. ASSUME NEW read \in MarketReads, StartCycle(read) PROVE FlowInv'
  <2>1. cycle' > 0 /\ sent'[cycle'] = NoOrder
    <3>1. cycle' \in Orders /\ cycle' \notin 1 .. cycle /\ cycle' > 0
      BY <1>1, <1>4, BrokerOrdersAssumption DEF StartCycle, OrdersInv, Orders
    <3>2. cycle' \notin Sent
      BY <1>1, <3>1 DEF OrdersInv
    <3> QED BY <1>4, <3>1, <3>2 DEF StartCycle, Sent
  <2>2. /\ state'.portfolio = Nothing
        /\ DOMAIN state' = {"market", "portfolio", "opportunities", "degraded"}
    BY <1>4 DEF StartCycle, Observed
  <2>3. /\ pc' = "account" /\ purpose' = "cycle" /\ stepping' = TRUE
        /\ reading' = NoReading /\ report' = NoReport
    BY <1>4 DEF StartCycle
  <2> QED BY <2>1, <2>2, <2>3 DEF FlowInv, CycleWorks, Reads, NoReading, NoReport
<1>5. CASE \/ \E payload \in AccountReadings :
                ReadAccount(payload) \/ AccountUnreadable(payload)
           \/ \E marks \in Marks : ReadPositions(marks)
           \/ ReadOpenOrders
           \/ PortfolioUnavailable
  BY <1>1, <1>5, FlowOfReading
<1>6. ASSUME NEW found \in Discoveries, NEW discovers \in BOOLEAN, NEW built \in Candidates,
              Choose(found, discovers, built)
      PROVE  FlowInv'
  <2>1. /\ pc = "choose" /\ pc' = "plan"
        /\ state' = [state EXCEPT !.opportunities = found]
        /\ UNCHANGED <<sent, cycle, purpose, stepping, reading, report>>
    BY <1>6 DEF Choose
  <2>2. DOMAIN state' = DOMAIN state
    BY <2>1
  <2> QED BY <1>1, <2>1, <2>2 DEF FlowInv, CycleWorks, Reads
<1>7. ASSUME NEW step \in BOOLEAN, BeginPoll(step), pc \in {"plan", "submit", "idle"},
             UNCHANGED <<cycle, reading>>,
             UNCHANGED <<state, report>> \/ (state' = Unobserved /\ report' = NoReport),
             pc = "idle" => report' = NoReport
      PROVE  FlowInv'
  <2>1. pc' = "poll" /\ purpose' = "review" /\ stepping' = step
    BY <1>7 DEF BeginPoll
  <2>2. /\ DOMAIN state' = {"market", "portfolio", "opportunities", "degraded"}
        /\ DOMAIN report' = {"orders", "reviews", "proposals", "basis", "degraded"}
        /\ report'.reviews = {} /\ report'.proposals = {}
    BY <1>1, <1>7 DEF FlowInv, Unobserved, Observed, NoReport
  <2> QED BY <1>1, <1>7, <2>1, <2>2 DEF FlowInv, CycleWorks, Reads
<1>8. ASSUME NEW size \in Sizes, NEW authority \in {"ACT", "HOLD", "BLOCK"},
              Decide(size, authority)
      PROVE  FlowInv'
  <2>1. pc = "plan" /\ UNCHANGED <<sent, cycle, reading, state, report>>
    BY <1>8 DEF Decide
  <2>2. \/ BeginPoll(TRUE)
        \/ pc' \in {"submit", "idle"} /\ UNCHANGED <<purpose, stepping>>
    BY <1>8 DEF Decide
  <2>3. CASE BeginPoll(TRUE)
    BY <1>7, <2>1, <2>3
  <2>4. CASE pc' \in {"submit", "idle"} /\ UNCHANGED <<purpose, stepping>>
    BY <1>1, <2>1, <2>4 DEF FlowInv, CycleWorks, Reads
  <2> QED BY <2>2, <2>3, <2>4
<1>9. CASE Submit
  BY <1>7, <1>9 DEF Submit
<1>10. CASE SubmissionRefused
  BY <1>7, <1>10 DEF SubmissionRefused
<1>11. CASE StartMonitor
  BY <1>7, <1>11 DEF StartMonitor
<1>12. ASSUME NEW o \in Orders, AskAbout(o) PROVE FlowInv'
  <2>1. /\ pc = "poll"
        /\ UNCHANGED <<pc, purpose, stepping, state, reading, sent, cycle>>
        /\ \/ \E told : report' = [report EXCEPT !.orders = told]
           \/ \E count : report' = [report EXCEPT !.degraded = count]
    BY <1>12 DEF AskAbout
  <2>2. DOMAIN report' = DOMAIN report /\ report'.reviews = {} /\ report'.proposals = {}
    BY <1>1, <2>1 DEF FlowInv
  <2> QED BY <1>1, <2>1, <2>2 DEF FlowInv, CycleWorks, Reads
<1>13. CASE OrdersAsked
  <2>1. pc = "poll" /\ UNCHANGED <<purpose, stepping, state, reading, sent, cycle>>
    BY <1>13 DEF OrdersAsked
  <2>2. CASE stepping /\ state.portfolio # Nothing
    <3>1. pc' = "review" /\ report' = [report EXCEPT !.basis = state.portfolio]
      BY <1>13, <2>2 DEF OrdersAsked
    <3>2. /\ DOMAIN report' = DOMAIN report
          /\ report'.basis = state.portfolio /\ report'.reviews = {} /\ report'.proposals = {}
      BY <1>1, <2>1, <3>1 DEF FlowInv
    <3> QED BY <1>1, <2>1, <2>2, <3>1, <3>2 DEF FlowInv, CycleWorks, Reads
  <2>3. CASE ~ (stepping /\ state.portfolio # Nothing)
    <3>1. pc' = "account" /\ UNCHANGED report
      BY <1>13, <2>3 DEF OrdersAsked
    <3> QED BY <1>1, <2>1, <2>3, <3>1 DEF FlowInv, CycleWorks, Reads
  <2> QED BY <2>2, <2>3
<1>14. CASE ReviewPositions
  <2>1. /\ pc' = "idle"
        /\ UNCHANGED <<purpose, stepping, state, reading, sent, cycle>>
        /\ \E reviews, proposals : report' =
             [report EXCEPT !.reviews = reviews, !.proposals = proposals]
    BY <1>14 DEF ReviewPositions
  <2>2. DOMAIN report' = DOMAIN report
    BY <2>1
  <2> QED BY <1>1, <2>1, <2>2 DEF FlowInv, CycleWorks, Reads
<1>15. CASE UNCHANGED vars
  BY <1>2, <1>15 DEF vars, deskVars, Flow
<1> QED BY <1>3, <1>4, <1>5, <1>6, <1>8, <1>9, <1>10, <1>11, <1>12, <1>13, <1>14, <1>15
    DEF Next

------------------------------------------------------------------------------
(* The choice and the plan.                                                *)

(* No choice is a choice among nothing.                                    *)
LEMMA NothingChosen ==
  /\ NoChoice.found \in Seq(Opportunities) /\ NoChoice.found = <<>>
  /\ NoChoice.built \in Seq(StrategyCandidates)
  /\ NoChoice.strategy = Nothing
  /\ NoChoice.strategy = SelectStrategy(NoChoice.built, DefaultIds)
  BY DEF NoChoice, SelectStrategy

(* Nothing is chosen at the start.                                         *)
LEMMA InitChoice == Init => ChoiceInv
  BY NothingChosen DEF Init, ChoiceInv, Nothing

(* What Choose keeps is what the selections return.                        *)
LEMMA ChooseChoice ==
  ASSUME ChoiceInv, NEW found \in Discoveries, NEW discovers \in BOOLEAN,
         NEW built \in Candidates, Choose(found, discovers, built)
  PROVE  ChoiceInv'
<1> DEFINE symbol == SelectSymbol(found, discovers, SetToSortSeq(Symbols, <))
<1> DEFINE observable == /\ symbol # Nothing
                         /\ symbol[1] \in Symbols
                         /\ state.market[symbol[1]] # Nothing
<1>1. /\ pc = "choose" /\ pc' = "plan" /\ UNCHANGED plan
      /\ choice' =
           IF observable
           THEN [found |-> found, built |-> built, symbol |-> symbol,
                 strategy |-> SelectStrategy(built, DefaultIds),
                 opportunity |-> AttachedOpportunity(found, symbol[1])]
           ELSE [NoChoice EXCEPT !.found = found, !.symbol = symbol]
  BY DEF Choose
<1>2. found \in Seq(Opportunities) /\ built \in Seq(StrategyCandidates)
  BY PortsAssumption
<1>3. found # <<>> => symbol = SelectSymbol(found, TRUE, <<>>)
  BY DEF SelectSymbol
<1>4. plan = Nothing
  BY <1>1 DEF ChoiceInv
<1>5. CASE observable
  <2>1. /\ choice'.found = found /\ choice'.built = built /\ choice'.symbol = symbol
        /\ choice'.strategy = SelectStrategy(built, DefaultIds)
    BY <1>1, <1>5
  <2>2. symbol # Nothing /\ symbol[1] \in Symbols
    BY <1>5
  <2> HIDE DEF symbol, observable
  <2> QED BY <1>1, <1>2, <1>3, <1>4, <2>1, <2>2 DEF ChoiceInv
<1>6. CASE ~ observable
  <2>1. choice' = [NoChoice EXCEPT !.found = found, !.symbol = symbol]
    BY <1>1, <1>6
  <2> HIDE DEF symbol, observable
  <2>2. /\ choice'.found = found /\ choice'.symbol = symbol
        /\ choice'.built = NoChoice.built /\ choice'.strategy = NoChoice.strategy
    BY <2>1 DEF NoChoice
  <2> QED BY <1>1, <1>2, <1>3, <1>4, <2>2, NothingChosen DEF ChoiceInv
<1> QED BY <1>5, <1>6

(* A plan to submit follows a strategy on a followed symbol.               *)
LEMMA DecideChoice ==
  ASSUME ChoiceInv, NEW size \in Sizes, NEW authority, Decide(size, authority)
  PROVE  ChoiceInv'
<1> DEFINE planned == Planned(size, authority)
<1>1. pc = "plan" /\ choice' = NoChoice /\ plan = Nothing
  BY DEF Decide, ChoiceInv
<1>2. \/ pc' # "submit" /\ UNCHANGED plan
      \/ pc' = "submit" /\ plan' = planned /\ planned # Nothing
  BY DEF Decide, BeginPoll
<1>3. ASSUME planned # Nothing
      PROVE  /\ planned[1].symbol \in Symbols
             /\ planned[1].action \in Irreversible
             /\ planned[1].quantity \in Nat
  <2>1. /\ choice.strategy # Nothing
        /\ planned = Plan(Proposed(size), authority, state, Mode, cycle)
    BY <1>3 DEF Planned
  <2>2. /\ Proposed(size).action \in Irreversible
        /\ ~ (Proposed(size).sizing.quantity <= 0)
        /\ planned[1].symbol = Proposed(size).symbol
        /\ planned[1].action = Proposed(size).action
        /\ planned[1].quantity = Proposed(size).sizing.quantity
    <3> HIDE DEF planned
    <3> QED BY <1>3, <2>1 DEF Plan
  <2>3. Proposed(size).symbol = choice.symbol[1] /\ Proposed(size).sizing = size
    BY DEF Proposed
  <2>4. choice.symbol[1] \in Symbols /\ size.quantity \in Int
    BY <2>1, PortsAssumption DEF ChoiceInv
  <2> HIDE DEF planned
  <2> QED BY <2>2, <2>3, <2>4
<1> HIDE DEF planned
<1>4. CASE pc' # "submit" /\ UNCHANGED plan
  BY <1>1, <1>4, NothingChosen DEF ChoiceInv
<1>5. CASE pc' = "submit" /\ plan' = planned /\ planned # Nothing
  BY <1>1, <1>3, <1>5, NothingChosen DEF ChoiceInv
<1> QED BY <1>2, <1>4, <1>5

(* The part of DeskInv on the choice, over every step.                     *)
LEMMA ChoiceStep == DeskInv /\ [Next]_vars => ChoiceInv'
<1> SUFFICES ASSUME DeskInv, [Next]_vars PROVE ChoiceInv'
  OBVIOUS
<1>1. ChoiceInv
  BY DEF DeskInv
<1>2. ASSUME UNCHANGED <<choice, plan>>, (pc # "submit" /\ pc' # "submit") \/ pc' = pc
      PROVE  ChoiceInv'
  BY <1>1, <1>2 DEF ChoiceInv
<1>3. ASSUME UNCHANGED choice, plan' = Nothing, pc' # "submit"
      PROVE  ChoiceInv'
  BY <1>1, <1>3 DEF ChoiceInv
<1>4. ASSUME NEW o \in Sent, Works(o) PROVE ChoiceInv'
  BY <1>2, <1>4 DEF Works
<1>5. ASSUME NEW read \in MarketReads, StartCycle(read) PROVE ChoiceInv'
  BY <1>2, <1>5 DEF StartCycle
<1>6. ASSUME NEW payload \in AccountReadings,
             ReadAccount(payload) \/ AccountUnreadable(payload)
      PROVE  ChoiceInv'
  BY <1>2, <1>6 DEF ReadAccount, AccountUnreadable, WithoutPortfolio
<1>7. ASSUME NEW marks \in Marks, ReadPositions(marks) PROVE ChoiceInv'
  BY <1>2, <1>7 DEF ReadPositions
<1>8. CASE ReadOpenOrders \/ PortfolioUnavailable
  BY <1>2, <1>8 DEF ReadOpenOrders, WithPortfolio, PortfolioUnavailable, WithoutPortfolio
<1>9. CASE OrdersAsked \/ ReviewPositions
  BY <1>2, <1>9 DEF OrdersAsked, ReviewPositions
<1>10. ASSUME NEW found \in Discoveries, NEW discovers \in BOOLEAN, NEW built \in Candidates,
              Choose(found, discovers, built)
       PROVE  ChoiceInv'
  BY <1>1, <1>10, ChooseChoice
<1>11. ASSUME NEW size \in Sizes, NEW authority \in {"ACT", "HOLD", "BLOCK"},
              Decide(size, authority)
       PROVE  ChoiceInv'
  BY <1>1, <1>11, DecideChoice
<1>12. CASE Submit
  BY <1>3, <1>12 DEF Submit, BeginPoll
<1>13. CASE SubmissionRefused
  BY <1>3, <1>13 DEF SubmissionRefused, BeginPoll
<1>14. CASE StartMonitor
  BY <1>2, <1>14 DEF StartMonitor, BeginPoll
<1>15. ASSUME NEW o \in Orders, AskAbout(o) PROVE ChoiceInv'
  BY <1>2, <1>15 DEF AskAbout
<1>16. CASE UNCHANGED vars
  BY <1>2, <1>16 DEF vars, deskVars
<1> QED BY <1>4, <1>5, <1>6, <1>7, <1>8, <1>9, <1>10, <1>11, <1>12, <1>13, <1>14, <1>15, <1>16
    DEF Next

------------------------------------------------------------------------------
(* What was read stays within what was ordered.                            *)

Counted(p) ==
  \A s \in Symbols :
    /\ PositionOn(p, s) + OpenOn(p, s, "BUY") <= Held[s] + SentOn(s, "buy")
    /\ PositionOn(p, s) - OpenOn(p, s, "SELL") >= Held[s] - SentOn(s, "sell")

(* The position on a symbol is a number.                                   *)
LEMMA PositionIsNumber ==
  ASSUME NEW p, PositionsRead(p.positions), NEW s
  PROVE  PositionOn(p, s) \in Int
<1> DEFINE on == {q \in p.positions : q.symbol = s}
<1> DEFINE quantity == [q \in p.positions |-> q.quantity]
<1>1. IsFiniteSet(on)
  BY FS_Subset DEF PositionsRead
<1>2. Numbers(quantity, on)
  BY DEF PositionsRead, Numbers
<1>3. PositionOn(p, s) = SumFunctionOnSet(quantity, on)
  BY DEF PositionOn
<1> HIDE DEF on, quantity
<1> QED BY <1>1, <1>2, <1>3, SumRemove

(* What is sent and what is done on a symbol never shrinks.                *)
LEMMA AmountsGrow ==
  ASSUME OrdersInv, OrdersInv', Kept, NEW CONSTANT s, NEW CONSTANT side
  PROVE  /\ DoneOn(s, side) \in Nat /\ DoneOn(s, side)' \in Nat
         /\ SentOn(s, side) \in Nat /\ SentOn(s, side)' \in Nat
         /\ DoneOn(s, side) <= DoneOn(s, side)'
         /\ SentOn(s, side) <= SentOn(s, side)'
<1> DEFINE S == OrdersToward(s, side)
<1> DEFINE T == OrdersToward(s, side)'
<1> DEFINE qty == [o \in Orders |-> sent[o].qty]
<1> DEFINE qtyNext == [o \in Orders |-> sent'[o].qty]
<1> DEFINE same == [o \in Orders |-> o]
<1>1. IsFiniteSet(Orders) /\ Sent \subseteq Orders /\ Sent' \subseteq Orders
  BY OrdersAreFinite DEF Sent
<1>2. S \subseteq Sent /\ T \subseteq Sent' /\ S \subseteq T
  BY DEF Kept, OrdersToward, OrdersOn
<1>3. /\ \A o \in S : filled[o] \in Nat /\ qty[o] \in Nat
      /\ \A o \in T : filled'[o] \in Nat /\ qtyNext[o] \in Nat
      /\ \A o \in S : filled[o] <= filled'[o] /\ qty[o] <= qtyNext[o] /\ same[o] = o
  <2>1. \A o \in S : o \in Orders /\ o \in Sent /\ o \in T
    BY <1>1, <1>2
  <2>2. \A o \in T : o \in Orders /\ o \in Sent'
    BY <1>1, <1>2
  <2>3. \A o \in Orders : qty[o] = sent[o].qty /\ qtyNext[o] = sent'[o].qty /\ same[o] = o
    OBVIOUS
  <2> HIDE DEF S, T, qty, qtyNext, same
  <2>4. \A o \in S : filled[o] \in Nat /\ qty[o] \in Nat
    BY <2>1, <2>3 DEF OrdersInv
  <2>5. \A o \in T : filled'[o] \in Nat /\ qtyNext[o] \in Nat
    BY <2>2, <2>3 DEF OrdersInv
  <2> QED BY <2>1, <2>3, <2>4, <2>5 DEF Kept
<1>4. /\ DoneOn(s, side) = SumFunctionOnSet(filled, S)
      /\ DoneOn(s, side)' = SumFunctionOnSet(filled', T)
      /\ SentOn(s, side) = SumFunctionOnSet(qty, S)
      /\ SentOn(s, side)' = SumFunctionOnSet(qtyNext, T)
  BY DEF DoneOn, SentOn
<1> HIDE DEF S, T, qty, qtyNext, same
<1>5. IsFiniteSet(S) /\ IsFiniteSet(T)
  <2>1. S \subseteq Orders /\ T \subseteq Orders
    BY <1>1, <1>2
  <2> QED BY <1>1, <2>1, FS_Subset
<1>6. Numbers(filled, S) /\ Numbers(qty, S)
  BY <1>3 DEF Numbers
<1>7. /\ \A o \in S \ S : filled[o] <= 0 /\ qty[o] <= 0
      /\ \A o \in S \cap S : /\ same[o] \in T /\ filled[o] <= filled'[same[o]]
                             /\ qty[o] <= qtyNext[same[o]]
      /\ \A o, p \in S \cap S : same[o] = same[p] => o = p
  BY <1>2, <1>3
<1>8. SumFunctionOnSet(filled, S) <= SumFunctionOnSet(filled', T)
  BY <1>3, <1>5, <1>6, <1>7, SumWithin
<1>9. SumFunctionOnSet(qty, S) <= SumFunctionOnSet(qtyNext, T)
  BY <1>3, <1>5, <1>6, <1>7, SumWithin
<1>10. /\ SumFunctionOnSet(filled, S) \in Nat /\ SumFunctionOnSet(filled', T) \in Nat
       /\ SumFunctionOnSet(qty, S) \in Nat /\ SumFunctionOnSet(qtyNext, T) \in Nat
  BY <1>3, <1>5, SumNotNegative
<1> QED BY <1>4, <1>8, <1>9, <1>10

(* What stood within the orders stands within them after a step.           *)
LEMMA PositionsStay ==
  ASSUME OrdersInv, OrdersInv', cycle <= cycle', NEW CONSTANT positions,
         PositionsRead(positions)
  PROVE  PositionsRead(positions)'
<1>1. \A at \in 0 .. cycle : at \in 0 .. cycle'
  BY DEF OrdersInv
<1> QED BY <1>1 DEF PositionsRead

(* Positions within what is done stay so as more is done.                  *)
LEMMA DoneStays ==
  ASSUME OrdersInv, OrdersInv', Kept, NEW CONSTANT positions,
         PositionsRead(positions), WithinWhatIsDone(positions)
  PROVE  WithinWhatIsDone(positions)'
<1>1. ASSUME NEW s \in Symbols
      PROVE  /\ PositionOn([positions |-> positions], s) <= Held[s] + DoneOn(s, "buy")'
             /\ PositionOn([positions |-> positions], s) >= Held[s] - DoneOn(s, "sell")'
  <2>1. PositionOn([positions |-> positions], s) \in Int
    BY PositionIsNumber
  <2>2. /\ PositionOn([positions |-> positions], s) <= Held[s] + DoneOn(s, "buy")
        /\ PositionOn([positions |-> positions], s) >= Held[s] - DoneOn(s, "sell")
    BY DEF WithinWhatIsDone
  <2>3. Held[s] \in Int
    BY TradeDeskAssumption
  <2>4. /\ DoneOn(s, "buy") \in Nat /\ DoneOn(s, "buy")' \in Nat
        /\ DoneOn(s, "sell") \in Nat /\ DoneOn(s, "sell")' \in Nat
        /\ DoneOn(s, "buy") <= DoneOn(s, "buy")' /\ DoneOn(s, "sell") <= DoneOn(s, "sell")'
    BY AmountsGrow
  <2> QED BY <2>1, <2>2, <2>3, <2>4
<1> QED BY <1>1 DEF WithinWhatIsDone

(* A portfolio within what was ordered stays so as more is ordered.        *)
LEMMA CountedStays ==
  ASSUME OrdersInv, OrdersInv', Kept, NEW CONSTANT p, PortfolioRead(p), Counted(p)
  PROVE  Counted(p)'
<1>1. ASSUME NEW s \in Symbols
      PROVE  /\ PositionOn(p, s) + OpenOn(p, s, "BUY") <= Held[s] + SentOn(s, "buy")'
             /\ PositionOn(p, s) - OpenOn(p, s, "SELL") >= Held[s] - SentOn(s, "sell")'
  <2>1. /\ PositionOn(p, s) \in Int
        /\ OpenOn(p, s, "BUY") \in Int /\ OpenOn(p, s, "SELL") \in Int
    BY PositionIsNumber DEF PortfolioRead
  <2>2. /\ PositionOn(p, s) + OpenOn(p, s, "BUY") <= Held[s] + SentOn(s, "buy")
        /\ PositionOn(p, s) - OpenOn(p, s, "SELL") >= Held[s] - SentOn(s, "sell")
    BY DEF Counted
  <2>3. Held[s] \in Int
    BY TradeDeskAssumption
  <2>4. /\ SentOn(s, "buy") \in Nat /\ SentOn(s, "buy")' \in Nat
        /\ SentOn(s, "sell") \in Nat /\ SentOn(s, "sell")' \in Nat
        /\ SentOn(s, "buy") <= SentOn(s, "buy")' /\ SentOn(s, "sell") <= SentOn(s, "sell")'
    BY AmountsGrow
  <2> QED BY <2>1, <2>2, <2>3, <2>4
<1> QED BY <1>1 DEF Counted

(* A portfolio that was read stays as it was and within bounds.            *)
LEMMA PortfolioStays ==
  ASSUME OrdersInv, OrdersInv', Kept, cycle <= cycle',
         NEW CONSTANT p, PortfolioRead(p), Counted(p)
  PROVE  PortfolioRead(p)' /\ Counted(p)'
<1>1. PositionsRead(p.positions)'
  BY PositionsStay DEF PortfolioRead
<1>2. Counted(p)'
  BY CountedStays
<1> QED BY <1>1, <1>2 DEF PortfolioRead

(* A portfolio without the own order knows nothing of it later.            *)
LEMMA OwnStays ==
  ASSUME OrdersInv, Kept, cycle' = cycle, NEW CONSTANT positions,
         WithoutOwnOrder(positions)
  PROVE  WithoutOwnOrder(positions)'
<1>1. ASSUME NEW s, OrdersOn(s)' \subseteq {cycle} PROVE OrdersOn(s) \subseteq {cycle}
  BY <1>1 DEF Kept, OrdersOn
<1> QED BY <1>1 DEF WithoutOwnOrder

(* What ReadOpenOrders puts together.                                      *)
LEMMA PortfolioIsRead ==
  ASSUME OrdersInv, NEW account, NEW positions,
         PositionsRead(positions), WithinWhatIsDone(positions)
  PROVE  LET p == PortfolioFrom(account, positions, OpenNow)
         IN PortfolioRead(p) /\ Counted(p) /\ p.positions = positions
<1> DEFINE p == PortfolioFrom(account, positions, OpenNow)
<1>1. p.positions = positions /\ p.open_orders = OpenNow
  BY DEF PortfolioFrom
<1> HIDE DEF p
<1>2. ASSUME NEW s \in Symbols
      PROVE  /\ OpenOn(p, s, "BUY") \in Int /\ OpenOn(p, s, "SELL") \in Int
             /\ PositionOn(p, s) + OpenOn(p, s, "BUY") <= Held[s] + SentOn(s, "buy")
             /\ PositionOn(p, s) - OpenOn(p, s, "SELL") >= Held[s] - SentOn(s, "sell")
  <2>1. PositionOn(p, s) = PositionOn([positions |-> positions], s)
    BY <1>1 DEF PositionOn
  <2>2. /\ PositionOn(p, s) \in Int
        /\ PositionOn(p, s) <= Held[s] + DoneOn(s, "buy")
        /\ PositionOn(p, s) >= Held[s] - DoneOn(s, "sell")
    BY <1>1, <2>1, PositionIsNumber DEF WithinWhatIsDone
  <2>3. /\ OpenOn(p, s, "BUY") \in Int
        /\ OpenOn(p, s, "BUY") + DoneOn(s, "buy") <= SentOn(s, "buy")
    BY <1>1, OpenOrdersWithin DEF Word
  <2>4. /\ OpenOn(p, s, "SELL") \in Int
        /\ OpenOn(p, s, "SELL") + DoneOn(s, "sell") <= SentOn(s, "sell")
    <3>1. Word("sell") = "SELL" /\ "sell" \in {"buy", "sell"}
      BY DEF Word
    <3> QED BY <1>1, <3>1, OpenOrdersWithin
  <2>5. Held[s] \in Int
    BY TradeDeskAssumption
  <2>6. /\ DoneOn(s, "buy") \in Nat /\ SentOn(s, "buy") \in Nat
        /\ DoneOn(s, "sell") \in Nat /\ SentOn(s, "sell") \in Nat
    BY WhatIsDone
  <2> QED BY <2>2, <2>3, <2>4, <2>5, <2>6
<1>3. PortfolioRead(p) /\ Counted(p)
  BY <1>1, <1>2 DEF PortfolioRead, Counted
<1> QED BY <1>1, <1>3 DEF p

(* The portfolios kept stay as they were and within bounds.                *)
LEMMA PortfoliosStay ==
  ASSUME OrdersInv, OrdersInv', Kept, cycle <= cycle', PortfolioInv
  PROVE  \A p \in Portfolios : PortfolioRead(p)' /\ Counted(p)'
<1> SUFFICES ASSUME NEW CONSTANT p, p \in Portfolios PROVE PortfolioRead(p)' /\ Counted(p)'
  OBVIOUS
<1>1. PortfolioRead(p) /\ Counted(p)
  BY DEF PortfolioInv, NothingCountedTwice, Counted
<1> QED BY <1>1, PortfolioStays

(* An empty reading is a reading.                                          *)
LEMMA NoPositions ==
  PositionsRead({})
  BY FS_EmptySet DEF PositionsRead

(* A step that reads nothing new.                                          *)
LEMMA PortfolioKept ==
  ASSUME OrdersInv, OrdersInv', Kept, PortfolioInv, cycle <= cycle',
         cycle' = cycle \/ (pc' # "open_orders" /\ state'.portfolio = Nothing),
         state'.portfolio \in {state.portfolio, Nothing},
         report'.basis \in {report.basis, state.portfolio, Nothing},
         \/ pc' # "open_orders" /\ reading'.positions \in {reading.positions, {}}
         \/ pc = "open_orders" /\ UNCHANGED <<purpose, reading>>
  PROVE  PortfolioInv'
<1>1. Optional(state.portfolio) /\ Optional(report.basis) /\ Optional(Nothing)
  BY DEF PortfolioInv, Optional
<1>2. Optional(state'.portfolio) /\ Optional(report'.basis)
  BY <1>1
<1>3. Range(Nothing) = {}
  BY <1>1, OptionalRange
<1>4. Portfolios' \subseteq Portfolios
  <2>1. Range(state'.portfolio) \subseteq Portfolios
    BY <1>3 DEF Portfolios
  <2>2. Range(report'.basis) \subseteq Portfolios
    BY <1>3 DEF Portfolios
  <2> QED BY <2>1, <2>2 DEF Portfolios
<1>5. \A p \in Portfolios' : PortfolioRead(p)' /\ Counted(p)'
  BY <1>4, PortfoliosStay
<1>6. \A positions : PositionsRead(positions) => PositionsRead(positions)'
  BY PositionsStay
<1>7. PositionsRead(reading.positions) /\ PositionsRead({})
  BY NoPositions DEF PortfolioInv
<1>8. PICK positions : positions = reading'.positions
  OBVIOUS
<1>9. PositionsRead(positions)'
  BY <1>6, <1>7, <1>8
<1>10. pc' = "open_orders" => WithinWhatIsDone(positions)'
  <2> SUFFICES ASSUME pc' = "open_orders" PROVE WithinWhatIsDone(positions)'
    OBVIOUS
  <2>1. PositionsRead(positions) /\ WithinWhatIsDone(positions)
    BY <1>7, <1>8 DEF PortfolioInv
  <2> QED BY <2>1, DoneStays
<1>11. pc' = "open_orders" /\ purpose' = "cycle" => WithoutOwnOrder(positions)'
  <2> SUFFICES ASSUME pc' = "open_orders", purpose' = "cycle"
               PROVE  WithoutOwnOrder(positions)'
    OBVIOUS
  <2>1. WithoutOwnOrder(positions) /\ cycle' = cycle
    BY <1>8 DEF PortfolioInv
  <2> QED BY <2>1, OwnStays
<1>12. \A p \in Range(state'.portfolio) : WithoutOwnOrder(p.positions)'
  <2> SUFFICES ASSUME NEW CONSTANT p, p \in Range(state'.portfolio)
               PROVE  WithoutOwnOrder(p.positions)'
    OBVIOUS
  <2>1. p \in Range(state.portfolio) /\ cycle' = cycle
    BY <1>3
  <2>2. WithoutOwnOrder(p.positions)
    BY <2>1 DEF PortfolioInv
  <2> QED BY <2>1, <2>2, OwnStays
<1>13. PositionsRead(reading.positions)'
  BY <1>8, <1>9
<1>14. (pc = "open_orders" => WithinWhatIsDone(reading.positions))'
  BY <1>8, <1>10
<1>15. (pc = "open_orders" /\ purpose = "cycle" => WithoutOwnOrder(reading.positions))'
  BY <1>8, <1>11
<1>16. NothingCountedTwice'
  BY <1>5 DEF NothingCountedTwice, Counted
<1>17. (\A p \in Range(state.portfolio) : WithoutOwnOrder(p.positions))'
  BY <1>12
<1>18. (Optional(state.portfolio) /\ Optional(report.basis))'
  BY <1>2 DEF Optional
<1>19. (\A p \in Portfolios : PortfolioRead(p))'
  BY <1>5
<1> QED BY <1>13, <1>14, <1>15, <1>16, <1>17, <1>18, <1>19 DEF PortfolioInv

(* No portfolio was read at the start.                                     *)
LEMMA InitPortfolio == Init => PortfolioInv
<1> SUFFICES ASSUME Init PROVE PortfolioInv
  OBVIOUS
<1>1. /\ reading.positions = {} /\ state.portfolio = Nothing /\ report.basis = Nothing
      /\ pc = "idle"
  BY DEF Init, NoReading, Unobserved, Observed, NoReport
<1>2. Optional(Nothing) /\ Range(Nothing) = {}
  BY OptionalRange DEF Optional
<1>3. Portfolios = {}
  BY <1>1, <1>2 DEF Portfolios
<1> QED BY <1>1, <1>2, <1>3, NoPositions DEF PortfolioInv, NothingCountedTwice

(* The second call: the positions are the book of this moment.             *)
LEMMA ReadPositionsPortfolio ==
  ASSUME DeskInv, OrdersInv', Kept, NEW marks \in Marks, ReadPositions(marks)
  PROVE  PortfolioInv'
<1>1. /\ pc = "positions" /\ pc' = "open_orders"
      /\ reading' = [reading EXCEPT !.positions = PositionsNow(marks)]
      /\ UNCHANGED <<sent, filled, cycle, purpose, state, report>>
  BY DEF ReadPositions, PositionsNow, PositionOf
<1>2. OrdersInv /\ FlowInv /\ PortfolioInv
  BY DEF DeskInv
<1>3. PICK positions : positions = PositionsNow(marks)
  OBVIOUS
<1>4. reading'.positions = positions
  BY <1>1, <1>2, <1>3 DEF FlowInv
<1>5. /\ PositionsRead(positions)
      /\ WithinWhatIsDone(positions)
      /\ sent[cycle] = NoOrder => WithoutOwnOrder(positions)
  BY <1>2, <1>3, PositionsAreRead
<1>6. purpose = "cycle" => WithoutOwnOrder(positions)
  BY <1>1, <1>2, <1>5 DEF FlowInv, CycleWorks, Reads
<1>7. cycle <= cycle'
  BY <1>1, <1>2 DEF OrdersInv
<1>8. PositionsRead(positions)' /\ WithinWhatIsDone(positions)'
  BY <1>2, <1>5, <1>7, PositionsStay, DoneStays
<1>9. purpose' = "cycle" => WithoutOwnOrder(positions)'
  BY <1>1, <1>2, <1>6, OwnStays
<1>10. Portfolios' = Portfolios
  BY <1>1 DEF Portfolios
<1>11. \A p \in Portfolios' : PortfolioRead(p)' /\ Counted(p)'
  BY <1>2, <1>7, <1>10, PortfoliosStay
<1>12. NothingCountedTwice'
  BY <1>11 DEF NothingCountedTwice, Counted
<1>13. (\A p \in Range(state.portfolio) : WithoutOwnOrder(p.positions))'
  <2> SUFFICES ASSUME NEW CONSTANT p, p \in Range(state'.portfolio)
               PROVE  WithoutOwnOrder(p.positions)'
    OBVIOUS
  <2>1. WithoutOwnOrder(p.positions)
    BY <1>1, <1>2 DEF PortfolioInv
  <2> QED BY <1>1, <1>2, <2>1, OwnStays
<1>14. (Optional(state.portfolio) /\ Optional(report.basis))'
  BY <1>1, <1>2 DEF PortfolioInv, Optional
<1>15. (PositionsRead(reading.positions) /\ WithinWhatIsDone(reading.positions))'
  BY <1>4, <1>8
<1>16. (purpose = "cycle" => WithoutOwnOrder(reading.positions))'
  BY <1>4, <1>9
<1>17. (\A p \in Portfolios : PortfolioRead(p))'
  BY <1>11
<1> QED BY <1>12, <1>13, <1>14, <1>15, <1>16, <1>17 DEF PortfolioInv

(* The third call: the open orders leave room for what was done.           *)
LEMMA ReadOpenOrdersPortfolio ==
  ASSUME DeskInv, OrdersInv', Kept, ReadOpenOrders
  PROVE  PortfolioInv'
<1>1. OrdersInv /\ FlowInv /\ PortfolioInv /\ pc = "open_orders"
  BY DEF DeskInv, ReadOpenOrders
<1>2. PICK positions : positions = reading.positions
  OBVIOUS
<1>3. PICK new : new = PortfolioFrom(reading.account[1], positions, OpenNow)
  OBVIOUS
<1>4. WithPortfolio(new) /\ reading' = NoReading /\ UNCHANGED <<sent, filled, cycle, purpose>>
  BY <1>2, <1>3 DEF ReadOpenOrders, OpenNow
<1>5. PositionsRead(positions) /\ WithinWhatIsDone(positions)
  BY <1>1, <1>2 DEF PortfolioInv
<1>6. PortfolioRead(new) /\ Counted(new) /\ new.positions = positions
  BY <1>1, <1>3, <1>5, PortfolioIsRead
<1>7. purpose = "cycle" => WithoutOwnOrder(new.positions)
  BY <1>1, <1>2, <1>6 DEF PortfolioInv
<1>8. cycle <= cycle' /\ cycle' = cycle
  BY <1>1, <1>4 DEF OrdersInv
<1>9. PortfolioRead(new)' /\ Counted(new)'
  BY <1>1, <1>6, <1>8, PortfolioStays
<1>10. \A p \in Portfolios : PortfolioRead(p)' /\ Counted(p)'
  BY <1>1, <1>8, PortfoliosStay
<1>11. /\ pc' \in {"choose", "review"}
       /\ \/ state'.portfolio = <<new>> /\ report'.basis = report.basis /\ purpose = "cycle"
          \/ state'.portfolio = state.portfolio /\ report'.basis = <<new>>
  BY <1>1, <1>4 DEF WithPortfolio, FlowInv
<1>12. Optional(<<new>>) /\ Range(<<new>>) = {new}
  <2>1. Optional(<<new>>) /\ <<new>> # Nothing
    BY DEF Optional, Nothing
  <2> QED BY <2>1, OptionalRange
<1>13. Portfolios' \subseteq Portfolios \cup {new}
  BY <1>11, <1>12 DEF Portfolios
<1>14. \A p \in Portfolios' : PortfolioRead(p)' /\ Counted(p)'
  BY <1>9, <1>10, <1>13
<1>15. NothingCountedTwice'
  BY <1>14 DEF NothingCountedTwice, Counted
<1>16. (\A p \in Range(state.portfolio) : WithoutOwnOrder(p.positions))'
  <2> SUFFICES ASSUME NEW CONSTANT p, p \in Range(state'.portfolio)
               PROVE  WithoutOwnOrder(p.positions)'
    OBVIOUS
  <2>1. WithoutOwnOrder(p.positions)
    BY <1>1, <1>7, <1>11, <1>12 DEF PortfolioInv
  <2> QED BY <1>1, <1>8, <2>1, OwnStays
<1>17. (Optional(state.portfolio) /\ Optional(report.basis))'
  BY <1>1, <1>11, <1>12 DEF PortfolioInv, Optional
<1>18. PositionsRead(reading.positions)'
  <2>1. PositionsRead({})'
    BY NoPositions, FS_EmptySet DEF PositionsRead
  <2> QED BY <1>4, <2>1 DEF NoReading
<1>19. (\A p \in Portfolios : PortfolioRead(p))'
  BY <1>14
<1>20. pc' # "open_orders"
  BY <1>11
<1> QED BY <1>15, <1>16, <1>17, <1>18, <1>19, <1>20 DEF PortfolioInv

(* The part of DeskInv on the portfolios, over every step.                 *)
LEMMA PortfolioStep == DeskInv /\ OrdersInv' /\ Kept /\ [Next]_vars => PortfolioInv'
<1> SUFFICES ASSUME DeskInv, OrdersInv', Kept, [Next]_vars PROVE PortfolioInv'
  OBVIOUS
<1>1. OrdersInv /\ FlowInv /\ PortfolioInv /\ cycle <= cycle
  BY DEF DeskInv, OrdersInv
<1>2. ASSUME UNCHANGED <<cycle, purpose, reading>>, pc' = "open_orders" => pc = "open_orders",
             state'.portfolio \in {state.portfolio, Nothing},
             report'.basis \in {report.basis, state.portfolio, Nothing}
      PROVE  PortfolioInv'
  <2>1. cycle' = cycle /\ cycle <= cycle'
    BY <1>1, <1>2
  <2>2. \/ pc' # "open_orders" /\ reading'.positions \in {reading.positions, {}}
        \/ pc = "open_orders" /\ UNCHANGED <<purpose, reading>>
    BY <1>2
  <2> QED BY <1>1, <1>2, <2>1, <2>2, PortfolioKept
<1>3. ASSUME UNCHANGED cycle, pc' # "open_orders",
             reading'.positions \in {reading.positions, {}},
             state'.portfolio \in {state.portfolio, Nothing},
             report'.basis \in {report.basis, state.portfolio, Nothing}
      PROVE  PortfolioInv'
  <2>1. cycle' = cycle /\ cycle <= cycle'
    BY <1>1, <1>3
  <2> QED BY <1>1, <1>3, <2>1, PortfolioKept
<1>4. ASSUME NEW o \in Sent, Works(o) PROVE PortfolioInv'
  BY <1>2, <1>4 DEF Works
<1>5. ASSUME NEW read \in MarketReads, StartCycle(read) PROVE PortfolioInv'
  <2>1. /\ state'.portfolio = Nothing /\ report'.basis = Nothing
        /\ reading'.positions = {} /\ pc' = "account"
    BY <1>5 DEF StartCycle, Observed, NoReport, NoReading
  <2>2. cycle <= cycle'
    BY <1>1, <1>5 DEF StartCycle, OrdersInv
  <2> QED BY <1>1, <2>1, <2>2, PortfolioKept
<1>6. ASSUME NEW payload \in AccountReadings, ReadAccount(payload) PROVE PortfolioInv'
  <2>1. reading'.positions = {} /\ pc' = "positions" /\ UNCHANGED <<cycle, state, report>>
    BY <1>6 DEF ReadAccount
  <2> QED BY <1>3, <2>1
<1>7. CASE WithoutPortfolio
  <2>1. reading'.positions = {} /\ pc' \in {"choose", "idle"} /\ UNCHANGED cycle
    BY <1>7 DEF WithoutPortfolio, NoReading
  <2>2. state'.portfolio = state.portfolio /\ report'.basis = report.basis
    BY <1>1, <1>7 DEF WithoutPortfolio, FlowInv
  <2> QED BY <1>3, <2>1, <2>2
<1>8. ASSUME NEW marks \in Marks, ReadPositions(marks) PROVE PortfolioInv'
  BY <1>8, ReadPositionsPortfolio
<1>9. CASE ReadOpenOrders
  BY <1>9, ReadOpenOrdersPortfolio
<1>10. ASSUME NEW found \in Discoveries, NEW discovers \in BOOLEAN, NEW built \in Candidates,
              Choose(found, discovers, built)
       PROVE  PortfolioInv'
  <2>1. state'.portfolio = state.portfolio /\ pc' = "plan"
        /\ UNCHANGED <<cycle, reading, report>>
    BY <1>1, <1>10 DEF Choose, FlowInv
  <2> QED BY <1>3, <2>1
<1>11. ASSUME NEW size \in Sizes, NEW authority \in {"ACT", "HOLD", "BLOCK"},
              Decide(size, authority)
       PROVE  PortfolioInv'
  <2>1. pc' \in {"poll", "submit", "idle"} /\ UNCHANGED <<cycle, reading, state, report>>
    BY <1>11 DEF Decide, BeginPoll
  <2> QED BY <1>3, <2>1
<1>12. CASE Submit \/ SubmissionRefused
  <2>1. pc' = "poll" /\ UNCHANGED <<cycle, reading, state, report>>
    BY <1>12 DEF Submit, SubmissionRefused, BeginPoll
  <2> QED BY <1>3, <2>1
<1>13. CASE StartMonitor
  <2>1. /\ pc' = "poll" /\ UNCHANGED <<cycle, reading>>
        /\ state'.portfolio = Nothing /\ report'.basis = Nothing
    BY <1>13 DEF StartMonitor, BeginPoll, Unobserved, Observed, NoReport
  <2> QED BY <1>3, <2>1
<1>14. ASSUME NEW o \in Orders, AskAbout(o) PROVE PortfolioInv'
  <2>1. UNCHANGED <<cycle, purpose, reading, state, pc>> /\ report'.basis = report.basis
    BY <1>1, <1>14 DEF AskAbout, FlowInv
  <2> QED BY <1>2, <2>1
<1>15. CASE OrdersAsked
  <2>1. /\ UNCHANGED <<cycle, reading, state>> /\ pc' \in {"review", "account"}
        /\ report'.basis \in {report.basis, state.portfolio}
    BY <1>1, <1>15 DEF OrdersAsked, FlowInv
  <2> QED BY <1>3, <2>1
<1>16. CASE ReviewPositions
  <2>1. UNCHANGED <<cycle, reading, state>> /\ pc' = "idle" /\ report'.basis = report.basis
    BY <1>16 DEF ReviewPositions
  <2> QED BY <1>3, <2>1
<1>17. CASE UNCHANGED vars
  BY <1>2, <1>17 DEF vars, deskVars
<1> QED BY <1>4, <1>5, <1>6, <1>7, <1>8, <1>9, <1>10, <1>11, <1>12, <1>13, <1>14, <1>15,
           <1>16, <1>17
    DEF Next, AccountUnreadable, PortfolioUnavailable

------------------------------------------------------------------------------
(* The report.                                                             *)

(* Nothing is reported at the start.                                       *)
LEMMA InitReport == Init => ReportInv
  BY DEF Init, ReportInv, NoReport

(* The reviews are those of the portfolio that the report names.           *)
LEMMA ReviewReport ==
  ASSUME FlowInv, ReviewPositions
  PROVE  ReportInv'
<1> DEFINE given == IF stepping THEN <<state>> ELSE Nothing
<1> DEFINE reviews == Reviews(report.basis[1], given)
<1> DEFINE proposals == IF stepping THEN ProposalsFrom(reviews, state) ELSE {}
<1>1. /\ pc = "review" /\ UNCHANGED <<stepping, state>>
      /\ report' = [report EXCEPT !.reviews = reviews, !.proposals = proposals]
  BY DEF ReviewPositions
<1>2. /\ report'.reviews = reviews /\ report'.proposals = proposals
      /\ report'.basis = report.basis
  BY <1>1 DEF FlowInv
<1>3. stepping => reviews = Reviews(report.basis[1], <<state>>)
  OBVIOUS
<1>4. proposals # {} => stepping /\ proposals = ProposalsFrom(reviews, state)
  OBVIOUS
<1> HIDE DEF given, reviews, proposals
<1>5. /\ report.basis # Nothing
      /\ stepping /\ state.portfolio # Nothing => report.basis = state.portfolio
  BY <1>1 DEF FlowInv
<1> QED BY <1>1, <1>2, <1>3, <1>4, <1>5 DEF ReportInv

(* The part of DeskInv on the report, over every step.                     *)
LEMMA ReportStep == DeskInv /\ FlowInv' /\ [Next]_vars => ReportInv'
<1> SUFFICES ASSUME DeskInv, FlowInv', [Next]_vars PROVE ReportInv'
  OBVIOUS
<1>1. FlowInv /\ ReportInv
  BY DEF DeskInv
<1>2. ASSUME UNCHANGED <<report, stepping, state>> PROVE ReportInv'
  BY <1>1, <1>2 DEF ReportInv
<1>3. ASSUME report'.reviews = {}, report'.proposals = {} PROVE ReportInv'
  BY <1>3 DEF ReportInv
<1>4. ASSUME pc' # "idle" PROVE ReportInv'
  BY <1>3, <1>4 DEF FlowInv
<1>5. ASSUME NEW o \in Sent, Works(o) PROVE ReportInv'
  BY <1>2, <1>5 DEF Works
<1>6. ASSUME NEW read \in MarketReads, StartCycle(read) PROVE ReportInv'
  BY <1>4, <1>6 DEF StartCycle
<1>7. ASSUME NEW payload \in AccountReadings, ReadAccount(payload) PROVE ReportInv'
  BY <1>4, <1>7 DEF ReadAccount
<1>8. CASE WithoutPortfolio /\ pc # "idle"
  <2>1. report'.reviews = report.reviews /\ report'.proposals = report.proposals
    BY <1>1, <1>8 DEF WithoutPortfolio, FlowInv
  <2> QED BY <1>1, <1>3, <1>8, <2>1 DEF FlowInv
<1>9. ASSUME NEW marks \in Marks, ReadPositions(marks) PROVE ReportInv'
  BY <1>4, <1>9 DEF ReadPositions
<1>10. CASE ReadOpenOrders
  BY <1>4, <1>10 DEF ReadOpenOrders, WithPortfolio
<1>11. ASSUME NEW found \in Discoveries, NEW discovers \in BOOLEAN, NEW built \in Candidates,
              Choose(found, discovers, built)
       PROVE  ReportInv'
  BY <1>4, <1>11 DEF Choose
<1>12. ASSUME NEW size \in Sizes, NEW authority \in {"ACT", "HOLD", "BLOCK"},
              Decide(size, authority)
       PROVE  ReportInv'
  <2>1. report'.reviews = {} /\ report'.proposals = {}
    BY <1>1, <1>12 DEF Decide, FlowInv
  <2> QED BY <1>3, <2>1
<1>13. CASE Submit \/ SubmissionRefused \/ StartMonitor
  BY <1>4, <1>13 DEF Submit, SubmissionRefused, StartMonitor, BeginPoll
<1>14. ASSUME NEW o \in Orders, AskAbout(o) PROVE ReportInv'
  BY <1>4, <1>14 DEF AskAbout
<1>15. CASE OrdersAsked
  BY <1>4, <1>15 DEF OrdersAsked
<1>16. CASE ReviewPositions
  BY <1>1, <1>16, ReviewReport
<1>17. CASE UNCHANGED vars
  BY <1>2, <1>17 DEF vars, deskVars
<1> QED BY <1>5, <1>6, <1>7, <1>8, <1>9, <1>10, <1>11, <1>12, <1>13, <1>14, <1>15,
           <1>16, <1>17
    DEF Next, AccountUnreadable, PortfolioUnavailable

------------------------------------------------------------------------------
(* The theorems.                                                           *)

(* DeskInv holds throughout: every step keeps each of its parts.           *)
LEMMA DeskInvariant == Spec => []DeskInv
<1>1. Init => DeskInv
  BY InitOrdersInv, InitFlow, InitChoice, InitPortfolio, InitReport DEF DeskInv
<1>2. DeskInv /\ [Next]_vars => DeskInv'
  <2> SUFFICES ASSUME DeskInv, [Next]_vars PROVE DeskInv'
    OBVIOUS
  <2>1. OrdersInv' /\ Kept
    BY OrdersStep
  <2>2. FlowInv'
    BY FlowStep
  <2>3. ChoiceInv'
    BY ChoiceStep
  <2>4. PortfolioInv'
    BY <2>1, PortfolioStep
  <2>5. ReportInv'
    BY <2>2, ReportStep
  <2> QED BY <2>1, <2>2, <2>3, <2>4, <2>5 DEF DeskInv
<1> QED BY <1>1, <1>2, PTL DEF Spec

(* TypeOK: the state has the shape the code gives it, whatever the ports   *)
(* and the broker answer.                                                  *)
THEOREM DeskTypes == Spec => []TypeOK
<1>1. DeskInv => TypeOK
  <2> SUFFICES ASSUME DeskInv PROVE TypeOK
    OBVIOUS
  <2>1. OrdersInv /\ FlowInv /\ ChoiceInv /\ PortfolioInv /\ ReportInv
    BY DEF DeskInv
  <2>2. \A o \in Orders : sent[o] # NoOrder =>
          /\ sent[o].symbol \in Symbols
          /\ sent[o].side \in {"buy", "sell"}
          /\ filled[o] \in 0 .. sent[o].qty
    <3> SUFFICES ASSUME NEW o \in Orders, o \in Sent
                 PROVE  /\ sent[o].symbol \in Symbols
                        /\ sent[o].side \in {"buy", "sell"}
                        /\ filled[o] \in 0 .. sent[o].qty
      BY DEF Sent
    <3>1. filled[o] \in Nat /\ sent[o].qty \in Nat /\ filled[o] <= sent[o].qty
      BY <2>1 DEF OrdersInv
    <3> QED BY <2>1, <3>1 DEF OrdersInv
  <2>3. \A p \in Portfolios :
          \A q \in p.positions : q.symbol \in Symbols /\ q.updated_at \in 0 .. cycle
    BY <2>1 DEF PortfolioInv, PortfolioRead, PositionsRead
  <2>4. \A pr \in report.proposals : pr.action \in Actions /\ pr.halves \in Nat
    BY <2>1, ProposalsHold
  <2>5. pc \in {"idle", "account", "positions", "open_orders", "choose", "plan",
                "submit", "poll", "review"}
    BY <2>1 DEF FlowInv, Reads
  <2>6. plan # Nothing => plan[1].action \in Irreversible
    BY <2>1 DEF ChoiceInv
  <2> QED BY <2>1, <2>2, <2>3, <2>4, <2>5, <2>6 DEF TypeOK, OrdersInv
<1> QED BY <1>1, DeskInvariant, PTL

(* NothingCountedTwice: a portfolio read in three calls while the orders   *)
(* move never counts a fill as held and as still to come.                  *)
THEOREM FillsAreCountedOnce == Spec => []NothingCountedTwice
<1>1. DeskInv => NothingCountedTwice
  BY DEF DeskInv, PortfolioInv
<1> QED BY <1>1, DeskInvariant, PTL

(* ChoiceIgnoresOrder: the symbol and the strategy of a cycle do not       *)
(* depend on the order in which the ports list what they found.            *)
THEOREM ChoicesIgnoreOrder == Spec => []ChoiceIgnoresOrder
<1>1. DeskInv => ChoiceIgnoresOrder
  BY ChoiceHolds DEF DeskInv
<1> QED BY <1>1, DeskInvariant, PTL

(* ProposalsFitThePosition: one proposal for each position reviewed, never *)
(* for more than the position, and none to trade on a profit or loss that  *)
(* is not known or on stale data.                                          *)
THEOREM ProposalsFit == Spec => []ProposalsFitThePosition
<1>1. DeskInv => ProposalsFitThePosition
  BY ProposalsHold DEF DeskInv
<1> QED BY <1>1, DeskInvariant, PTL

(* ReviewsIgnoreTheOwnOrder: the reviews that follow a cycle describe the  *)
(* position as it was before the cycle's own order.                        *)
THEOREM ReviewsPrecedeTheOrder == Spec => []ReviewsIgnoreTheOwnOrder
<1>1. DeskInv => ReviewsIgnoreTheOwnOrder
  BY OwnOrderHolds DEF DeskInv
<1> QED BY <1>1, DeskInvariant, PTL
==============================================================================
