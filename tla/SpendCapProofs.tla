--------------------------- MODULE SpendCapProofs ---------------------------
(***************************************************************************)
(* What holds of the spend cap for any number of messages, raters, rates   *)
(* and months: the counters are the sums of the ledger, headroom binds, no *)
(* charge is booked twice and none is forgotten.  The first needs a few    *)
(* facts about sums over a finite set, each by a least counterexample.     *)
(***************************************************************************)
EXTENDS SpendCap, FiniteSetTheorems, WellFoundedInduction, TLAPS

Entry == [currency : Currencies, month : 1 .. Months, amount : Rates]
Closing == [kind : {"release", "settle"}, amount : Nat]
CostRow == [state : {"free", "unrated", "rated", "duplicate"}, amount : Nat]
RaterType == [pc : {"idle", "rate", "duplicate", "reinsert", "settle", "book", "release"},
              msg : Messages \cup {NoMessage}, cur : Currencies \cup {NoCurrency}, amount : Rates \cup {0}]

BooksTyped ==
  /\ limit \in [Currencies -> Nat \cup {NoCap}]
  /\ reserved \in [Periods -> Int] /\ actual \in [Periods -> Int]
  /\ overshoot \in [Periods -> Nat] /\ highest \in [Currencies -> Nat]
RowsTyped ==
  /\ reserve \in [Messages -> Entry \cup {Null}] /\ close \in [Messages -> Closing \cup {Null}]
  /\ unreserved \in [Messages -> Entry \cup {Null}] /\ cost \in [Messages -> CostRow \cup {Null}]
  /\ sent \in [Messages -> {"new", "held", "capped", "accepted", "refused", "unknown", "failed"}]
  /\ billable \in [Messages -> {"null", "yes", "no"}] /\ prices \in [Messages -> SUBSET Rates]
WorldTyped ==
  /\ wabaCurrency \in Currencies \cup {NoCurrency} /\ rate \in Rates \cup {NoRate} /\ month \in 1 .. Months
  /\ rater \in [Raters -> RaterType]

(* Headroom: the limit is no higher than the highest, and binds. *)
Headroom == (\A c \in Currencies : limit[c] <= highest[c]) /\ WithinGrantedHeadroom

(* A message that is priced was sent; its entries fit together. *)
Consistent(m) ==
  /\ sent[m] = "new" => reserve[m] = Null
  /\ billable[m] # "null" => sent[m] = "accepted"
  /\ cost[m] # Null => billable[m] # "null"
  /\ cost[m] # Null => (cost[m].state \in {"rated", "unrated"} => billable[m] = "yes")
  /\ close[m] # Null => reserve[m] # Null /\ (close[m].kind = "release" => close[m].amount = 0)

(* Its charge may be booked apart. *)
Apart(m) ==
  sent[m] = "accepted" /\ (reserve[m] = Null \/ (close[m] # Null /\ close[m].amount = 0))

(* What a rater is about to do is sound. *)
Sound(r) ==
  LET m == rater[r].msg
      pc == rater[r].pc
      amount == rater[r].amount
  IN
  /\ pc = "idle" => rater[r] = Idle
  /\ pc # "idle" => m \in Messages
  /\ pc \in {"rate", "duplicate", "reinsert", "settle", "book"} => billable[m] # "null"
  /\ pc = "release" => sent[m] \in {"accepted", "refused", "unknown", "failed"}
  /\ pc = "reinsert" => amount \in Rates /\ billable[m] = "yes" /\ rater[r].cur # NoCurrency
  /\ pc \in {"settle", "book"} /\ amount # 0 => rater[r].cur # NoCurrency
  /\ pc = "book" => amount # 0 /\ Apart(m)

Base ==
  /\ BooksTyped /\ RowsTyped /\ WorldTyped /\ Headroom
  /\ \A m \in Messages : Consistent(m) /\ (unreserved[m] # Null => Apart(m))
  /\ \A r \in Raters : Sound(r)

(* What no step undoes. *)
Keeps ==
  \A m \in Messages :
    /\ billable[m] # "null" => billable'[m] = billable[m]
    /\ sent[m] = "accepted" => sent'[m] = "accepted"
    /\ sent[m] \in {"accepted", "refused", "unknown", "failed"} =>
         sent'[m] \in {"accepted", "refused", "unknown", "failed"}
    /\ sent[m] # "new" => reserve'[m] = reserve[m]
    /\ close[m] # Null => close'[m] = close[m]
    /\ unreserved[m] # Null => unreserved'[m] = unreserved[m]

-----------------------------------------------------------------------------
(* A set of numbers that has 0, and n + 1 whenever it has n, has them all. *)
LEMMA Counting ==
  ASSUME NEW A, 0 \in A, \A n \in Nat : n \in A => n + 1 \in A
  PROVE  Nat \subseteq A
<1> DEFINE R == {p \in Nat \X Nat : p[1] < p[2]}
           T == Nat \ A
<1>1. IsWellFoundedOn(R, Nat)
  BY NatLessThanWellFounded DEF OpToRel
<1>2. SUFFICES ASSUME T # {} PROVE FALSE
  OBVIOUS
<1>3. PICK m \in T : \A n \in T : ~(<<n, m>> \in R)
  <2>1. T \subseteq Nat
    OBVIOUS
  <2> HIDE DEF R, T
  <2> QED BY <1>1, <1>2, <2>1, WFMin
<1>4. m \in Nat /\ m # 0
  OBVIOUS
<1>5. m - 1 \in Nat /\ m - 1 < m
  BY <1>4
<1>6. m - 1 \in A
  <2>1. <<m - 1, m>> \in R
    BY <1>4, <1>5
  <2> QED BY <1>3, <1>5, <2>1
<1>7. (m - 1) + 1 \in A
  BY <1>5, <1>6
<1> QED BY <1>4, <1>7

Chosen(s) == CHOOSE x \in s : TRUE

(* g sums f over the subsets of S, one chosen element after the other. *)
Sums(f, g, S) ==
  g = [s \in SUBSET S |-> IF s = {} THEN 0 ELSE f[Chosen(s)] + g[s \ {Chosen(s)}]]

LEMMA SumUnfolds ==
  ASSUME NEW S, NEW f \in [S -> Int]
  PROVE  SumFunction(f) = (CHOOSE g : Sums(f, g, S))[S]
BY DEF SumFunction, SumFunctionOnSet, FoldFunctionOnSet, MapThenFoldSet, Sums, Chosen

LEMMA ChosenIn == ASSUME NEW s, s # {} PROVE Chosen(s) \in s
BY DEF Chosen

LEMMA SumsExist ==
  ASSUME NEW S, IsFiniteSet(S), NEW f \in [S -> Int]
  PROVE  \E g : g \in [SUBSET S -> Int] /\ Sums(f, g, S)
<1> DEFINE Onward(g) == [s \in SUBSET S |-> IF s = {} THEN 0 ELSE f[Chosen(s)] + g[s \ {Chosen(s)}]]
           UpTo(n, g) == \A s \in SUBSET S : Cardinality(s) <= n => g[s] = Onward(g)[s]
           A == {n \in Nat : \E g \in [SUBSET S -> Int] : UpTo(n, g)}
<1>1. \A s \in SUBSET S : /\ IsFiniteSet(s) /\ Cardinality(s) \in Nat
                          /\ s # {} => /\ Chosen(s) \in s
                                       /\ Cardinality(s) # 0
                                       /\ Cardinality(s \ {Chosen(s)}) = Cardinality(s) - 1
  BY FS_Subset, FS_CardinalityType, FS_RemoveElement, FS_EmptySet, ChosenIn
<1>2. \A g \in [SUBSET S -> Int] : Onward(g) \in [SUBSET S -> Int]
  <2> SUFFICES ASSUME NEW g \in [SUBSET S -> Int], NEW s \in SUBSET S, s # {}
               PROVE  f[Chosen(s)] + g[s \ {Chosen(s)}] \in Int
    OBVIOUS
  <2>1. f[Chosen(s)] \in Int /\ g[s \ {Chosen(s)}] \in Int
    BY <1>1
  <2> QED BY <2>1
<1>3. 0 \in A
  <2> DEFINE g == [s \in SUBSET S |-> 0]
  <2>1. ASSUME NEW s \in SUBSET S, Cardinality(s) <= 0 PROVE g[s] = Onward(g)[s]
    <3> HIDE DEF Onward, UpTo, A, g
    <3>1. Cardinality(s) = 0
      <4>1. Cardinality(s) \in Nat
        BY <1>1
      <4> QED BY <2>1, <4>1
    <3>2. s = {}
      BY <1>1, <3>1
    <3> QED BY <3>2 DEF Onward, g
  <2>2. g \in [SUBSET S -> Int]
    OBVIOUS
  <2>3. UpTo(0, g)
    BY <2>1
  <2> HIDE DEF UpTo, g
  <2> QED BY <2>2, <2>3
<1>4. ASSUME NEW n \in Nat, n \in A PROVE n + 1 \in A
  <2>1. PICK g \in [SUBSET S -> Int] : UpTo(n, g)
    BY <1>4
  <2> DEFINE h == Onward(g)
  <2>2. h \in [SUBSET S -> Int]
    BY <1>2
  <2>3. ASSUME NEW s \in SUBSET S, Cardinality(s) <= n + 1 PROVE h[s] = Onward(h)[s]
    <3>1. CASE s = {}
      BY <3>1
    <3>2. CASE s # {}
      <4> DEFINE t == s \ {Chosen(s)}
      <4>1. t \in SUBSET S /\ Cardinality(t) <= n
        BY <1>1, <2>3, <3>2
      <4>2. h[t] = g[t]
        BY <2>1, <4>1
      <4> QED BY <3>2, <4>2
    <3> QED BY <3>1, <3>2
  <2>4. UpTo(n + 1, h)
    BY <2>3
  <2> HIDE DEF UpTo, h
  <2> QED BY <2>2, <2>4
<1>5. Cardinality(S) \in A
  <2> HIDE DEF A
  <2> QED BY <1>1, <1>3, <1>4, Counting
<1>6. PICK g \in [SUBSET S -> Int] : UpTo(Cardinality(S), g)
  BY <1>5
<1>7. \A s \in SUBSET S : g[s] = Onward(g)[s]
  BY <1>6, FS_Subset
<1>8. g = Onward(g)
  BY <1>7
<1> QED BY <1>8 DEF Sums

(* What f sums to over a set depends on f within that set only. *)
LEMMA SameSums ==
  ASSUME NEW S, IsFiniteSet(S), NEW f \in [S -> Int], NEW h \in [S -> Int],
         NEW g, Sums(f, g, S), NEW k, Sums(h, k, S),
         NEW s \in SUBSET S, \A x \in s : f[x] = h[x]
  PROVE  g[s] = k[s]
<1> DEFINE Agree(t) == (\A x \in t : f[x] = h[x]) => g[t] = k[t]
           A == {n \in Nat : \A t \in SUBSET S : Cardinality(t) <= n => Agree(t)}
<1>1. \A t \in SUBSET S : IsFiniteSet(t) /\ Cardinality(t) \in Nat
  BY FS_Subset, FS_CardinalityType
<1>2. 0 \in A
  <2>1. ASSUME NEW t \in SUBSET S, Cardinality(t) <= 0 PROVE Agree(t)
    <3>1. t = {}
      BY <1>1, <2>1, FS_EmptySet
    <3> QED BY <3>1 DEF Sums
  <2> HIDE DEF Agree
  <2> QED BY <2>1
<1>3. ASSUME NEW n \in Nat, n \in A PROVE n + 1 \in A
  <2>1. ASSUME NEW t \in SUBSET S, Cardinality(t) <= n + 1, \A x \in t : f[x] = h[x]
        PROVE  g[t] = k[t]
    <3>1. CASE t = {}
      BY <3>1 DEF Sums
    <3>2. CASE t # {}
      <4> DEFINE c == Chosen(t)
                 u == t \ {c}
      <4>1. c \in t
        BY <3>2, ChosenIn
      <4>2. g[t] = f[c] + g[u] /\ k[t] = h[c] + k[u]
        BY <3>2 DEF Sums
      <4> HIDE DEF c
      <4>3. Cardinality(u) = Cardinality(t) - 1 /\ Cardinality(t) \in Nat
        BY <1>1, <4>1, FS_RemoveElement
      <4>4. g[u] = k[u]
        BY <1>3, <2>1, <4>3
      <4> QED BY <2>1, <4>1, <4>2, <4>4
    <3> QED BY <3>1, <3>2
  <2> QED BY <2>1
<1>4. Cardinality(s) \in A
  <2> HIDE DEF A
  <2> QED BY <1>1, <1>2, <1>3, Counting
<1> QED BY <1>1, <1>4

LEMMA SumsTyped ==
  ASSUME NEW S, IsFiniteSet(S), NEW f \in [S -> Int], NEW g, Sums(f, g, S)
  PROVE  g \in [SUBSET S -> Int]
<1>1. PICK k : k \in [SUBSET S -> Int] /\ Sums(f, k, S)
  BY SumsExist
<1>2. \A s \in SUBSET S : g[s] = k[s]
  BY <1>1, SameSums
<1>3. g = [s \in SUBSET S |-> g[s]]
  BY DEF Sums
<1> QED BY <1>1, <1>2, <1>3

(* The order does not matter: any element may come off first. *)
AnyOneFirst(f, g, S) == \A s \in SUBSET S : \A a \in s : g[s] = f[a] + g[s \ {a}]

LEMMA AnyFirst ==
  ASSUME NEW S, IsFiniteSet(S), NEW f \in [S -> Int], NEW g, Sums(f, g, S)
  PROVE  AnyOneFirst(f, g, S)
<1>0. g \in [SUBSET S -> Int]
  BY SumsTyped
<1> DEFINE Holds(t) == \A b \in t : g[t] = f[b] + g[t \ {b}]
           A == {n \in Nat : \A t \in SUBSET S : Cardinality(t) <= n => Holds(t)}
<1>1. \A t \in SUBSET S : IsFiniteSet(t) /\ Cardinality(t) \in Nat
  BY FS_Subset, FS_CardinalityType
<1>2. 0 \in A
  BY <1>1, FS_EmptySet
<1>3. ASSUME NEW n \in Nat, n \in A PROVE n + 1 \in A
  <2>1. ASSUME NEW t \in SUBSET S, Cardinality(t) <= n + 1, NEW b \in t
        PROVE  g[t] = f[b] + g[t \ {b}]
    <3> DEFINE c == Chosen(t)
    <3>1. c \in t
      BY ChosenIn
    <3>2. g[t] = f[c] + g[t \ {c}]
      BY DEF Sums
    <3>3. CASE b = c
      BY <3>2, <3>3
    <3>4. CASE b # c
      <4> HIDE DEF c
      <4>1. /\ t \ {b} \in SUBSET S /\ Cardinality(t \ {b}) <= n /\ c \in t \ {b}
            /\ t \ {c} \in SUBSET S /\ Cardinality(t \ {c}) <= n /\ b \in t \ {c}
        <5>1. Cardinality(t \ {b}) = Cardinality(t) - 1 /\ Cardinality(t \ {c}) = Cardinality(t) - 1
          BY <1>1, <3>1, FS_RemoveElement
        <5>2. Cardinality(t) \in Nat
          BY <1>1
        <5> QED BY <2>1, <3>1, <3>4, <5>1, <5>2
      <4>2. Holds(t \ {b}) /\ Holds(t \ {c})
        BY <1>3, <4>1
      <4>3. g[t \ {b}] = f[c] + g[(t \ {b}) \ {c}] /\ g[t \ {c}] = f[b] + g[(t \ {c}) \ {b}]
        BY <4>1, <4>2
      <4>4. (t \ {b}) \ {c} = (t \ {c}) \ {b}
        OBVIOUS
      <4>5. f[b] \in Int /\ f[c] \in Int /\ g[(t \ {b}) \ {c}] \in Int
        <5>1. b \in S /\ c \in S /\ (t \ {b}) \ {c} \in SUBSET S
          BY <3>1
        <5> QED BY <1>0, <5>1
      <4>6. g[(t \ {c}) \ {b}] = g[(t \ {b}) \ {c}]
        BY <4>4
      <4> QED BY <3>2, <4>3, <4>5, <4>6
    <3> QED BY <3>3, <3>4
  <2> QED BY <2>1
<1>4. ASSUME NEW s \in SUBSET S PROVE Holds(s)
  <2>1. Cardinality(s) \in A
    <3> HIDE DEF A
    <3> QED BY <1>1, <1>2, <1>3, Counting
  <2> QED BY <1>1, <2>1
<1> QED BY <1>4 DEF AnyOneFirst

(* A sum over a finite set is a number, and follows a change of one of its *)
(* terms.                                                                  *)
LEMMA SumMoves ==
  ASSUME NEW S, IsFiniteSet(S), NEW f \in [S -> Int], NEW h \in [S -> Int], NEW a \in S,
         \A x \in S \ {a} : f[x] = h[x]
  PROVE  SumFunction(f) \in Int /\ SumFunction(h) = SumFunction(f) - f[a] + h[a]
<1> DEFINE g == CHOOSE x : Sums(f, x, S)
           k == CHOOSE x : Sums(h, x, S)
<1>1. Sums(f, g, S) /\ Sums(h, k, S)
  BY SumsExist
<1>2. SumFunction(f) = g[S] /\ SumFunction(h) = k[S]
  BY SumUnfolds
<1> HIDE DEF g, k
<1>3. g \in [SUBSET S -> Int] /\ k \in [SUBSET S -> Int]
  BY <1>1, SumsTyped
<1>4. g[S] = f[a] + g[S \ {a}] /\ k[S] = h[a] + k[S \ {a}]
  <2>1. S \in SUBSET S
    OBVIOUS
  <2>2. AnyOneFirst(f, g, S) /\ AnyOneFirst(h, k, S)
    BY <1>1, AnyFirst
  <2> QED BY <2>1, <2>2 DEF AnyOneFirst
<1>5. g[S \ {a}] = k[S \ {a}]
  BY <1>1, SameSums
<1>6. f[a] \in Int /\ h[a] \in Int /\ g[S] \in Int /\ g[S \ {a}] \in Int
  BY <1>3
<1> QED BY <1>2, <1>4, <1>5, <1>6

LEMMA SumOfNone ==
  ASSUME NEW S, IsFiniteSet(S)
  PROVE  SumFunction([x \in S |-> 0]) = 0
<1> DEFINE f == [x \in S |-> 0]
           g == CHOOSE x : Sums(f, x, S)
           none == [s \in SUBSET S |-> 0]
<1>1. f \in [S -> Int]
  OBVIOUS
<1>2. Sums(f, none, S)
  <2>1. ASSUME NEW s \in SUBSET S, s # {} PROVE f[Chosen(s)] + none[s \ {Chosen(s)}] = 0
    BY <2>1, ChosenIn
  <2> QED BY <2>1 DEF Sums
<1>3. SumFunction(f) = g[S]
  BY <1>1, SumUnfolds
<1>4. Sums(f, g, S)
  BY <1>2
<1> HIDE DEF f, g
<1>5. g[S] = none[S]
  BY <1>1, <1>2, <1>4, SameSums
<1> QED BY <1>3, <1>5 DEF f

(* A sum of natural numbers is one. *)
LEMMA SumOfNaturals ==
  ASSUME NEW S, IsFiniteSet(S), NEW f \in [S -> Nat]
  PROVE  SumFunction(f) \in Nat
<1> DEFINE g == CHOOSE x : Sums(f, x, S)
           A == {n \in Nat : \A t \in SUBSET S : Cardinality(t) <= n => g[t] \in Nat}
<1>1. f \in [S -> Int]
  OBVIOUS
<1>2. Sums(f, g, S)
  BY <1>1, SumsExist
<1>3. SumFunction(f) = g[S]
  BY <1>1, SumUnfolds
<1> HIDE DEF g
<1>4. \A t \in SUBSET S : IsFiniteSet(t) /\ Cardinality(t) \in Nat
  BY FS_Subset, FS_CardinalityType
<1>5. 0 \in A
  <2>1. ASSUME NEW t \in SUBSET S, Cardinality(t) <= 0 PROVE g[t] \in Nat
    <3>1. t = {}
      BY <1>4, <2>1, FS_EmptySet
    <3> QED BY <1>2, <3>1 DEF Sums
  <2> QED BY <2>1
<1>6. ASSUME NEW n \in Nat, n \in A PROVE n + 1 \in A
  <2>1. ASSUME NEW t \in SUBSET S, Cardinality(t) <= n + 1 PROVE g[t] \in Nat
    <3>1. CASE t = {}
      BY <1>2, <3>1 DEF Sums
    <3>2. CASE t # {}
      <4> DEFINE c == Chosen(t)
                 u == t \ {c}
      <4>1. c \in t
        BY <3>2, ChosenIn
      <4>2. g[t] = f[c] + g[u]
        BY <1>2, <3>2 DEF Sums
      <4> HIDE DEF c
      <4>3. Cardinality(u) = Cardinality(t) - 1 /\ Cardinality(t) \in Nat
        BY <1>4, <4>1, FS_RemoveElement
      <4>4. g[u] \in Nat
        BY <1>6, <2>1, <4>3
      <4> QED BY <4>1, <4>2, <4>4
    <3> QED BY <3>1, <3>2
  <2> QED BY <2>1
<1>7. Cardinality(S) \in A
  <2> HIDE DEF A
  <2> QED BY <1>4, <1>5, <1>6, Counting
<1> QED BY <1>3, <1>4, <1>7

-----------------------------------------------------------------------------
LEMMA AmountsNatural == Rates \subseteq Nat /\ \A x \in Rates \cup {0} : x \in Nat
BY SpendCapAssumption

(* What a close does to the counters: the held falls, and what is charged  *)
(* beyond the hold is overshoot.                                           *)
LEMMA CloseCounters ==
  ASSUME Base, NEW m \in Messages, Open(m), NEW kind \in {"release", "settle"}, NEW amount \in Nat, NEW cur,
         CloseOpen(m, kind, amount, cur), UNCHANGED <<limit, highest>>
  PROVE  BooksTyped' /\ Headroom'
<1> DEFINE charge == IF kind = "settle" /\ ~OtherCurrency(m, kind, cur) THEN amount ELSE 0
           hold == reserve[m].amount
           over == charge - hold
<1>1. reserve[m] \in Entry
  BY DEF Open, Base, RowsTyped
<1>p. PICK p \in Periods : p = PeriodOf(m)
  BY <1>1 DEF PeriodOf, Entry, Periods
<1>2. charge \in Nat /\ hold \in Nat
  BY <1>1, AmountsNatural DEF Entry
<1>3. /\ reserved' = [reserved EXCEPT ![p] = @ - hold]
      /\ actual' = [actual EXCEPT ![p] = @ + charge]
      /\ overshoot' = [overshoot EXCEPT ![p] = IF over > 0 THEN @ + over ELSE @]
  BY <1>p DEF CloseOpen, Held
<1>4. BooksTyped
  BY DEF Base
<1> HIDE DEF charge, hold
<1>5. BooksTyped'
  BY <1>2, <1>3, <1>4 DEF BooksTyped
<1>6. ASSUME NEW q \in Periods PROVE reserved'[q] + actual'[q] <= highest'[q[1]] + overshoot'[q]
  <2>0. /\ reserved[q] \in Int /\ actual[q] \in Int /\ overshoot[q] \in Nat /\ highest[q[1]] \in Nat
        /\ reserved[q] + actual[q] <= highest[q[1]] + overshoot[q]
    BY <1>4 DEF BooksTyped, Base, Headroom, WithinGrantedHeadroom, Periods
  <2>1. CASE q = p
    <3>1. reserved'[q] = reserved[q] - hold /\ actual'[q] = actual[q] + charge
          /\ overshoot'[q] = IF over > 0 THEN overshoot[q] + over ELSE overshoot[q]
      BY <2>1, <1>3, <1>4 DEF BooksTyped
    <3> QED BY <1>2, <2>0, <3>1
  <2>2. CASE q # p
    <3>1. reserved'[q] = reserved[q] /\ actual'[q] = actual[q] /\ overshoot'[q] = overshoot[q]
      BY <2>2, <1>3, <1>4 DEF BooksTyped
    <3> QED BY <2>0, <3>1
  <2> QED BY <2>1, <2>2
<1> QED BY <1>5, <1>6 DEF Headroom, WithinGrantedHeadroom, Base

(* Headroom binds: only a reservation takes any, and it looks first. *)
LEMMA HeadroomStep ==
  ASSUME Base, [Next]_vars
  PROVE  BooksTyped' /\ Headroom'
<1> USE DEF books, messages, world, history
<1>0. BooksTyped /\ RowsTyped /\ WorldTyped /\ Headroom
  BY DEF Base
<1>1. ASSUME UNCHANGED <<limit, reserved, actual, overshoot, highest>> PROVE BooksTyped' /\ Headroom'
  BY <1>0, <1>1 DEF BooksTyped, Headroom, WithinGrantedHeadroom
<1>2. ASSUME NEW c \in Currencies, NEW l \in Limits, SetCap(c, l) PROVE BooksTyped' /\ Headroom'
  <2>1. l \in Nat
    BY SpendCapAssumption
  <2>2. /\ limit' = [limit EXCEPT ![c] = l]
        /\ highest' = [highest EXCEPT ![c] = IF l > @ THEN l ELSE @]
        /\ UNCHANGED <<reserved, actual, overshoot>>
    BY <1>2 DEF SetCap
  <2>3. BooksTyped'
    BY <1>0, <2>1, <2>2 DEF BooksTyped
  <2>4. \A d \in Currencies : /\ limit[d] \in Nat \cup {NoCap} /\ limit'[d] \in Nat \cup {NoCap}
                             /\ highest[d] \in Nat /\ highest'[d] \in Nat /\ highest[d] <= highest'[d]
                             /\ limit'[d] <= highest'[d]
    BY <1>0, <2>1, <2>2 DEF BooksTyped, Headroom, NoCap
  <2>5. ASSUME NEW q \in Periods PROVE reserved'[q] + actual'[q] <= highest'[q[1]] + overshoot'[q]
    <3>1. /\ reserved[q] \in Int /\ actual[q] \in Int /\ overshoot[q] \in Nat /\ q[1] \in Currencies
          /\ reserved[q] + actual[q] <= highest[q[1]] + overshoot[q]
      BY <1>0 DEF BooksTyped, Headroom, WithinGrantedHeadroom, Periods
    <3> QED BY <2>2, <2>4, <3>1
  <2> QED BY <2>3, <2>4, <2>5 DEF Headroom, WithinGrantedHeadroom
<1>3. ASSUME NEW m \in Messages, Reserve(m) PROVE BooksTyped' /\ Headroom'
  <2>p. PICK p \in Periods : p = <<wabaCurrency, month>> /\ p[1] = wabaCurrency
    BY <1>0, <1>3 DEF Reserve, WorldTyped, Periods
  <2>1. rate \in Nat
    BY <1>0, <1>3, AmountsNatural DEF Reserve, WorldTyped
  <2>2. CASE HasRoom(p, rate)
    <3>1. reserved' = [reserved EXCEPT ![p] = @ + rate] /\ UNCHANGED <<limit, actual, overshoot, highest>>
      BY <1>3, <2>p, <2>2 DEF Reserve
    <3>2. BooksTyped'
      BY <1>0, <2>1, <3>1 DEF BooksTyped
    <3>3. ASSUME NEW q \in Periods PROVE reserved'[q] + actual'[q] <= highest'[q[1]] + overshoot'[q]
      <4>1. /\ reserved[q] \in Int /\ actual[q] \in Int /\ overshoot[q] \in Nat /\ highest[q[1]] \in Nat
            /\ limit[q[1]] \in Nat \cup {NoCap} /\ limit[q[1]] <= highest[q[1]]
            /\ reserved[q] + actual[q] <= highest[q[1]] + overshoot[q]
        BY <1>0 DEF BooksTyped, Headroom, WithinGrantedHeadroom, Periods
      <4>2. CASE q = p
        <5>1. reserved'[q] = reserved[q] + rate /\ reserved[q] + actual[q] + rate <= limit[q[1]]
          BY <1>0, <2>2, <3>1, <4>2 DEF HasRoom, BooksTyped
        <5> QED BY <2>1, <3>1, <4>1, <5>1 DEF NoCap
      <4>3. CASE q # p
        BY <1>0, <3>1, <4>1, <4>3 DEF BooksTyped
      <4> QED BY <4>2, <4>3
    <3> QED BY <1>0, <3>1, <3>2, <3>3 DEF Headroom, WithinGrantedHeadroom
  <2>3. CASE ~HasRoom(p, rate)
    BY <1>1, <1>3, <2>p, <2>3 DEF Reserve
  <2> QED BY <2>2, <2>3
<1>4. ASSUME NEW m \in Messages, ReleaseRefused(m) PROVE BooksTyped' /\ Headroom'
  BY <1>1, <1>4, CloseCounters DEF ReleaseRefused
<1>5. ASSUME NEW r \in Raters, Settle(r) \/ ReleaseStale(r) PROVE BooksTyped' /\ Headroom'
  <2>1. rater[r].msg \in Messages /\ rater[r].amount \in Nat
    <3>1. Sound(r) /\ rater[r] \in RaterType
      BY <1>0 DEF Base, WorldTyped
    <3>2. rater[r].pc # "idle"
      BY <1>5 DEF Settle, ReleaseStale
    <3>3. rater[r].msg \in Messages
      BY <3>1, <3>2 DEF Sound
    <3>4. rater[r].amount \in Rates \cup {0}
      BY <3>1 DEF RaterType
    <3>5. rater[r].amount \in Nat
      BY <3>4, AmountsNatural
    <3> QED BY <3>3, <3>5
  <2> QED BY <1>1, <1>5, <2>1, CloseCounters DEF Settle, ReleaseStale
<1>6. ASSUME NEW r \in Raters, Book(r) PROVE BooksTyped' /\ Headroom'
  <2> DEFINE m == rater[r].msg
             amount == rater[r].amount
  <2>1. amount \in Nat /\ rater[r].cur \in Currencies
    <3>1. Sound(r) /\ rater[r] \in RaterType
      BY <1>0 DEF Base, WorldTyped
    <3> QED BY <1>6, <3>1, AmountsNatural DEF Book, Sound, RaterType
  <2>p. PICK p \in Periods : p = <<rater[r].cur, month>>
    BY <1>0, <2>1 DEF WorldTyped, Periods
  <2>2. CASE unreserved[m] = Null
    <3>1. /\ actual' = [actual EXCEPT ![p] = @ + amount]
          /\ overshoot' = [overshoot EXCEPT ![p] = @ + amount]
          /\ UNCHANGED <<limit, reserved, highest>>
      BY <1>6, <2>p, <2>2 DEF Book
    <3> HIDE DEF amount
    <3>2. BooksTyped'
      BY <1>0, <2>1, <3>1 DEF BooksTyped
    <3>3. ASSUME NEW q \in Periods PROVE reserved'[q] + actual'[q] <= highest'[q[1]] + overshoot'[q]
      <4>1. /\ reserved[q] \in Int /\ actual[q] \in Int /\ overshoot[q] \in Nat /\ highest[q[1]] \in Nat
            /\ reserved[q] + actual[q] <= highest[q[1]] + overshoot[q]
        BY <1>0 DEF BooksTyped, Headroom, WithinGrantedHeadroom, Periods
      <4>2. \/ actual'[q] = actual[q] + amount /\ overshoot'[q] = overshoot[q] + amount
            \/ actual'[q] = actual[q] /\ overshoot'[q] = overshoot[q]
        BY <1>0, <3>1 DEF BooksTyped
      <4> QED BY <2>1, <3>1, <4>1, <4>2
    <3> QED BY <1>0, <3>1, <3>2, <3>3 DEF Headroom, WithinGrantedHeadroom
  <2>3. CASE unreserved[m] # Null
    BY <1>1, <1>6, <2>3 DEF Book
  <2> QED BY <2>2, <2>3
<1>7. CASE UNCHANGED vars
  BY <1>1, <1>7 DEF vars
<1>8. CASE WorldChanges
  BY <1>1, <1>8 DEF WorldChanges
<1>9. ASSUME NEW m \in Messages, Reply(m) \/ Answer(m) PROVE BooksTyped' /\ Headroom'
  BY <1>1, <1>9 DEF Reply, Answer
<1>10. ASSUME NEW r \in Raters, NEW m \in Messages, Receipt(r, m) \/ Backfill(r, m) \/ ReRate(r, m) \/ FindStale(r, m)
       PROVE  BooksTyped' /\ Headroom'
  BY <1>1, <1>10 DEF Receipt, Backfill, ReRate, FindStale
<1>11. ASSUME NEW r \in Raters, Rate(r) \/ WriteDuplicate(r) \/ Reinsert(r) \/ Die(r)
       PROVE  BooksTyped' /\ Headroom'
  BY <1>1, <1>11 DEF Rate, WriteDuplicate, Reinsert, Die
<1> QED BY <1>2, <1>3, <1>4, <1>5, <1>6, <1>7, <1>8, <1>9, <1>10, <1>11 DEF Next, Step

-----------------------------------------------------------------------------
(* What the acts on the rows of a message have in common. *)
LEMMA KeepsStep ==
  ASSUME Base, [Next]_vars
  PROVE  Keeps
<1> USE DEF books, messages, world, history
<1>0. RowsTyped
  BY DEF Base
<1>1. ASSUME UNCHANGED <<sent, billable, reserve, close, unreserved>> PROVE Keeps
  BY <1>1 DEF Keeps
<1>2. ASSUME NEW m \in Messages, Reply(m) \/ Answer(m) \/ Reserve(m) PROVE Keeps
  <2>1. UNCHANGED <<billable, close, unreserved>>
    BY <1>2 DEF Reply, Answer, Reserve
  <2>2. /\ sent[m] \in {"new", "held"} /\ \A n \in Messages \ {m} : sent'[n] = sent[n] /\ reserve'[n] = reserve[n]
        /\ sent[m] # "new" => reserve'[m] = reserve[m]
    BY <1>0, <1>2 DEF Reply, Answer, Reserve, RowsTyped
  <2> QED BY <2>1, <2>2 DEF Keeps
<1>3. ASSUME NEW m \in Messages, Open(m), NEW kind, NEW amount, NEW cur, CloseOpen(m, kind, amount, cur),
             UNCHANGED <<billable, reserve, unreserved>>,
             sent' = sent \/ (sent[m] = "refused" /\ sent' = [sent EXCEPT ![m] = "failed"])
      PROVE  Keeps
  <2>1. \A n \in Messages : close[n] # Null => close'[n] = close[n]
    BY <1>0, <1>3 DEF Open, CloseOpen, RowsTyped
  <2>2. \A n \in Messages : sent'[n] = sent[n] \/ (sent[n] = "refused" /\ sent'[n] = "failed")
    BY <1>0, <1>3 DEF RowsTyped
  <2> QED BY <1>3, <2>1, <2>2 DEF Keeps
<1>4. ASSUME NEW m \in Messages, ReleaseRefused(m) PROVE Keeps
  <2>1. CASE Open(m)
    BY <1>3, <1>4, <2>1 DEF ReleaseRefused
  <2>2. CASE ~Open(m)
    <3>1. UNCHANGED <<billable, reserve, close, unreserved>>
      BY <1>4, <2>2 DEF ReleaseRefused
    <3>2. \A n \in Messages : sent'[n] = sent[n] \/ (sent[n] = "refused" /\ sent'[n] = "failed")
      BY <1>0, <1>4 DEF ReleaseRefused, RowsTyped
    <3> QED BY <3>1, <3>2 DEF Keeps
  <2> QED BY <2>1, <2>2
<1>5. ASSUME NEW r \in Raters, Settle(r) \/ ReleaseStale(r) PROVE Keeps
  <2>1. rater[r].msg \in Messages
    <3>1. rater[r].pc # "idle" /\ Sound(r)
      BY <1>5 DEF Settle, ReleaseStale, Base
    <3> QED BY <3>1 DEF Sound
  <2>2. CASE Open(rater[r].msg)
    BY <1>3, <1>5, <2>1, <2>2 DEF Settle, ReleaseStale
  <2>3. CASE ~Open(rater[r].msg)
    BY <1>1, <1>5, <2>3 DEF Settle, ReleaseStale
  <2> QED BY <2>2, <2>3
<1>6. ASSUME NEW r \in Raters, Book(r) PROVE Keeps
  <2>1. UNCHANGED <<sent, billable, reserve, close>>
    BY <1>6 DEF Book
  <2>2. \A n \in Messages : unreserved[n] # Null => unreserved'[n] = unreserved[n]
    BY <1>0, <1>6 DEF Book, RowsTyped
  <2> QED BY <2>1, <2>2 DEF Keeps
<1>7. ASSUME NEW r \in Raters, NEW m \in Messages, Receipt(r, m) PROVE Keeps
  <2>1. UNCHANGED <<sent, reserve, close, unreserved>>
    BY <1>7 DEF Receipt
  <2>2. PICK b \in {"yes", "no"} : billable[m] \in {"null", b} /\ billable' = [billable EXCEPT ![m] = b]
    BY <1>7 DEF Receipt
  <2>3. \A n \in Messages : billable[n] # "null" => billable'[n] = billable[n]
    BY <1>0, <2>2 DEF RowsTyped
  <2> QED BY <2>1, <2>3 DEF Keeps
<1>8. CASE UNCHANGED vars
  BY <1>1, <1>8 DEF vars
<1>9. CASE WorldChanges \/ \E c \in Currencies, l \in Limits : SetCap(c, l)
  BY <1>1, <1>9 DEF WorldChanges, SetCap
<1>10. ASSUME NEW r \in Raters, NEW m \in Messages, Backfill(r, m) \/ ReRate(r, m) \/ FindStale(r, m)
       PROVE  Keeps
  BY <1>1, <1>10 DEF Backfill, ReRate, FindStale
<1>11. ASSUME NEW r \in Raters, Rate(r) \/ WriteDuplicate(r) \/ Reinsert(r) \/ Die(r) PROVE Keeps
  BY <1>1, <1>11 DEF Rate, WriteDuplicate, Reinsert, Die
<1> QED BY <1>2, <1>4, <1>5, <1>6, <1>7, <1>8, <1>9, <1>10, <1>11 DEF Next, Step

(* What was said of a message stays so. *)
LEMMA KeptFacts ==
  ASSUME Base, Keeps, NEW m \in Messages
  PROVE  /\ Apart(m) => Apart(m)'
         /\ billable[m] # "null" => billable'[m] # "null"
         /\ billable[m] = "yes" => billable'[m] = "yes"
         /\ billable[m] = "no" => billable'[m] = "no"
BY DEF Keeps, Apart

(* A rater another does not touch stays sound. *)
LEMMA OthersSound ==
  ASSUME Base, Keeps, NEW q \in Raters, rater'[q] = rater[q]
  PROVE  Sound(q)'
<1>1. Sound(q)
  BY DEF Base
<1>2. CASE rater[q].pc = "idle"
  BY <1>1, <1>2 DEF Sound
<1>3. CASE rater[q].pc # "idle"
  <2>1. PICK m \in Messages : m = rater[q].msg
    BY <1>1, <1>3 DEF Sound
  <2>2. sent[m] \in {"accepted", "refused", "unknown", "failed"} =>
          sent'[m] \in {"accepted", "refused", "unknown", "failed"}
    BY DEF Keeps
  <2> QED BY <1>1, <1>3, <2>1, <2>2, KeptFacts DEF Sound
<1> QED BY <1>2, <1>3

-----------------------------------------------------------------------------
(* A rater is set to a message of the table, at an amount of a card. *)
LEMMA BusyTyped ==
  ASSUME Base, NEW r \in Raters, NEW m \in Messages, NEW cur \in Currencies \cup {NoCurrency},
         NEW amount \in Rates \cup {0},
         NEW pc \in {"rate", "duplicate", "reinsert", "settle", "book", "release"}, Busy(r, pc, m, cur, amount)
  PROVE  /\ rater' \in [Raters -> RaterType]
         /\ rater'[r] = [pc |-> pc, msg |-> m, cur |-> cur, amount |-> amount]
         /\ \A q \in Raters \ {r} : rater'[q] = rater[q]
<1>1. rater \in [Raters -> RaterType]
  BY DEF Base, WorldTyped
<1>2. [pc |-> pc, msg |-> m, cur |-> cur, amount |-> amount] \in RaterType
  BY DEF RaterType
<1> QED BY <1>1, <1>2 DEF Busy

LEMMA IdleTyped ==
  ASSUME Base, NEW r \in Raters, rater' = [rater EXCEPT ![r] = Idle]
  PROVE  /\ rater' \in [Raters -> RaterType] /\ rater'[r] = Idle
         /\ \A q \in Raters \ {r} : rater'[q] = rater[q]
<1>1. rater \in [Raters -> RaterType]
  BY DEF Base, WorldTyped
<1>2. Idle \in RaterType
  BY DEF RaterType, Idle
<1> QED BY <1>1, <1>2

(* A rater at work is one of a message with a receipt, or a stale hold. *)
LEMMA AtWork ==
  ASSUME Base, NEW r \in Raters, rater[r].pc # "idle"
  PROVE  /\ rater[r].msg \in Messages /\ rater[r].cur \in Currencies \cup {NoCurrency}
         /\ rater[r].amount \in Rates \cup {0}
         /\ rater[r].pc # "release" => billable[rater[r].msg] # "null"
<1>1. Sound(r) /\ rater[r] \in RaterType
  BY DEF Base, WorldTyped
<1>2. rater[r].cur \in Currencies \cup {NoCurrency} /\ rater[r].amount \in Rates \cup {0}
  BY <1>1 DEF RaterType
<1>3. rater[r].pc \in {"rate", "duplicate", "reinsert", "settle", "book", "release"}
  BY <1>1 DEF RaterType
<1> QED BY <1>1, <1>2, <1>3 DEF Sound

(* A row of the cost table. *)
LEMMA CostTyped ==
  ASSUME Base, NEW m \in Messages, NEW state \in {"free", "unrated", "rated", "duplicate"},
         NEW amount \in Rates \cup {0},
         cost' = IF cost[m] = Null THEN [cost EXCEPT ![m] = [state |-> state, amount |-> amount]] ELSE cost
  PROVE  /\ cost' \in [Messages -> CostRow \cup {Null}]
         /\ cost'[m] = IF cost[m] = Null THEN [state |-> state, amount |-> amount] ELSE cost[m]
         /\ \A n \in Messages \ {m} : cost'[n] = cost[n]
<1>1. cost \in [Messages -> CostRow \cup {Null}]
  BY DEF Base, RowsTyped
<1>2. amount \in Nat
  BY AmountsNatural
<1>3. [state |-> state, amount |-> amount] \in CostRow
  BY <1>2 DEF CostRow
<1> QED BY <1>1, <1>3

(* The closing entry: its kind is the one asked for, its amount is zero    *)
(* for a release and for another currency.                                 *)
LEMMA CloseTyped ==
  ASSUME Base, NEW m \in Messages, NEW kind \in {"release", "settle"}, NEW amount \in Rates \cup {0}, NEW cur,
         CloseOpen(m, kind, amount, cur)
  PROVE  /\ close' \in [Messages -> Closing \cup {Null}]
         /\ close'[m] = [kind |-> kind,
                         amount |-> IF kind = "settle" /\ ~OtherCurrency(m, kind, cur) THEN amount ELSE 0]
         /\ \A n \in Messages \ {m} : close'[n] = close[n]
<1>0. PICK charge : charge = IF kind = "settle" /\ ~OtherCurrency(m, kind, cur) THEN amount ELSE 0
  OBVIOUS
<1>1. close \in [Messages -> Closing \cup {Null}]
  BY DEF Base, RowsTyped
<1>2. charge \in Rates \cup {0}
  BY <1>0
<1>3. charge \in Nat
  BY <1>2, AmountsNatural
<1>4. [kind |-> kind, amount |-> charge] \in Closing
  BY <1>3 DEF Closing
<1>5. close' = [close EXCEPT ![m] = [kind |-> kind, amount |-> charge]]
  BY <1>0 DEF CloseOpen
<1> QED BY <1>0, <1>1, <1>4, <1>5

LEMMA EntryTyped ==
  ASSUME NEW c \in Currencies, NEW p \in 1 .. Months, NEW x \in Rates
  PROVE  [currency |-> c, month |-> p, amount |-> x] \in Entry
BY DEF Entry

LEMMA TypeStep ==
  ASSUME Base, [Next]_vars
  PROVE  RowsTyped' /\ WorldTyped'
<1> USE DEF books, messages, world, history
<1>0. RowsTyped /\ WorldTyped
  BY DEF Base
<1>1. ASSUME UNCHANGED <<sent, billable, reserve, close, unreserved, cost, prices, wabaCurrency, rate, month, rater>>
      PROVE RowsTyped' /\ WorldTyped'
  BY <1>0, <1>1 DEF RowsTyped, WorldTyped
<1>2. CASE UNCHANGED vars
  BY <1>1, <1>2 DEF vars
<1>3. CASE \E c \in Currencies, l \in Limits : SetCap(c, l)
  BY <1>1, <1>3 DEF SetCap
<1>4. CASE WorldChanges
  <2>1. UNCHANGED <<books, messages, prices, rater>>
    BY <1>4 DEF WorldChanges
  <2>2. wabaCurrency' \in Currencies \cup {NoCurrency} /\ rate' \in Rates \cup {NoRate}
    BY <1>0, <1>4 DEF WorldChanges, WorldTyped
  <2>3. month' = month \/ (month < Months /\ month' = month + 1)
    BY <1>4 DEF WorldChanges
  <2>4. month' \in 1 .. Months
    BY <1>0, <2>3, SpendCapAssumption DEF WorldTyped
  <2> QED BY <1>0, <2>1, <2>2, <2>4 DEF RowsTyped, WorldTyped
<1>5. ASSUME NEW m \in Messages, Reply(m) \/ Answer(m) PROVE RowsTyped' /\ WorldTyped'
  <2>1. \E a \in {"accepted", "refused", "unknown"} : sent' = [sent EXCEPT ![m] = a]
    BY <1>5 DEF Reply, Answer
  <2>2. UNCHANGED <<billable, reserve, close, unreserved, cost, prices, world, rater>>
    BY <1>5 DEF Reply, Answer
  <2> QED BY <1>0, <2>1, <2>2 DEF RowsTyped, WorldTyped
<1>6. ASSUME NEW m \in Messages, Reserve(m) PROVE RowsTyped' /\ WorldTyped'
  <2>1. [currency |-> wabaCurrency, month |-> month, amount |-> rate] \in Entry
    BY <1>0, <1>6, EntryTyped DEF Reserve, WorldTyped
  <2>2. \/ reserve' = [reserve EXCEPT ![m] = [currency |-> wabaCurrency, month |-> month, amount |-> rate]]
        \/ reserve' = reserve
    BY <1>6 DEF Reserve
  <2>3. \E a \in {"held", "capped"} : sent' = [sent EXCEPT ![m] = a]
    BY <1>6 DEF Reserve
  <2>4. UNCHANGED <<billable, close, unreserved, cost, prices, world, rater>>
    BY <1>6 DEF Reserve
  <2>5. reserve' \in [Messages -> Entry \cup {Null}]
    BY <1>0, <2>1, <2>2 DEF RowsTyped
  <2> QED BY <1>0, <2>3, <2>4, <2>5 DEF RowsTyped, WorldTyped
<1>7. ASSUME NEW m \in Messages, ReleaseRefused(m) PROVE RowsTyped' /\ WorldTyped'
  <2>1. close' \in [Messages -> Closing \cup {Null}]
    BY <1>0, <1>7, CloseTyped DEF ReleaseRefused, RowsTyped
  <2>2. sent' = [sent EXCEPT ![m] = "failed"] /\ UNCHANGED <<billable, reserve, unreserved, cost, prices, world, rater>>
    BY <1>7 DEF ReleaseRefused
  <2> QED BY <1>0, <2>1, <2>2 DEF RowsTyped, WorldTyped
<1>8. ASSUME NEW r \in Raters, NEW m \in Messages, Receipt(r, m) PROVE RowsTyped' /\ WorldTyped'
  <2>1. \E b \in {"yes", "no"} : billable' = [billable EXCEPT ![m] = b]
    BY <1>8 DEF Receipt
  <2>2. UNCHANGED <<sent, reserve, close, unreserved, cost, prices, world>> /\ Busy(r, "rate", m, wabaCurrency, 0)
    BY <1>8 DEF Receipt
  <2>3. rater' \in [Raters -> RaterType]
    BY <1>0, <2>2, BusyTyped DEF WorldTyped
  <2> QED BY <1>0, <2>1, <2>2, <2>3 DEF RowsTyped, WorldTyped
<1>9. ASSUME NEW r \in Raters, NEW m \in Messages, Backfill(r, m) \/ FindStale(r, m)
      PROVE  RowsTyped' /\ WorldTyped'
  <2>1. UNCHANGED <<messages, books, prices, world>>
    BY <1>9 DEF Backfill, FindStale
  <2>2. Busy(r, "rate", m, wabaCurrency, 0) \/ Busy(r, "release", m, NoCurrency, 0)
    BY <1>9 DEF Backfill, FindStale
  <2>3. rater' \in [Raters -> RaterType]
    BY <1>0, <2>2, BusyTyped DEF WorldTyped
  <2> QED BY <1>0, <2>1, <2>3 DEF RowsTyped, WorldTyped
<1>10. ASSUME NEW r \in Raters, NEW m \in Messages, ReRate(r, m) PROVE RowsTyped' /\ WorldTyped'
  <2>1. UNCHANGED <<books, sent, billable, prices, world>> /\ cost' = [cost EXCEPT ![m] = Null]
    BY <1>10 DEF ReRate
  <2>2. rater' \in [Raters -> RaterType]
    BY <1>0, <1>10, BusyTyped DEF ReRate, WorldTyped
  <2> QED BY <1>0, <2>1, <2>2 DEF RowsTyped, WorldTyped
<1>11. ASSUME NEW r \in Raters, Rate(r) \/ WriteDuplicate(r) \/ Reinsert(r) PROVE RowsTyped' /\ WorldTyped'
  <2>1. PICK m \in Messages, cur \in Currencies \cup {NoCurrency}, amount \in Rates \cup {0} :
          m = rater[r].msg /\ cur = rater[r].cur /\ amount = rater[r].amount
    BY <1>11, AtWork DEF Rate, WriteDuplicate, Reinsert
  <2>2. UNCHANGED <<books, sent, billable, world>>
    BY <1>11 DEF Rate, WriteDuplicate, Reinsert
  <2>3. \/ UNCHANGED cost
        \/ \E state \in {"free", "unrated", "rated", "duplicate"}, x \in Rates \cup {0} :
             cost' = IF cost[m] = Null THEN [cost EXCEPT ![m] = [state |-> state, amount |-> x]] ELSE cost
    <3>1. CASE Rate(r)
      BY <1>0, <2>1, <3>1 DEF Rate, WorldTyped
    <3>2. CASE WriteDuplicate(r)
      BY <2>1, <3>2 DEF WriteDuplicate
    <3>3. CASE Reinsert(r)
      BY <2>1, <3>3 DEF Reinsert
    <3> QED BY <1>11, <3>1, <3>2, <3>3
  <2>4. cost' \in [Messages -> CostRow \cup {Null}]
    BY <1>0, <2>3, CostTyped DEF RowsTyped
  <2>5. \/ rater' = [rater EXCEPT ![r] = Idle]
        \/ \E pc \in {"settle", "duplicate"}, x \in Rates \cup {0} : Busy(r, pc, m, cur, x)
    <3>1. CASE Rate(r)
      BY <1>0, <2>1, <3>1 DEF Rate, WorldTyped
    <3>2. CASE WriteDuplicate(r)
      BY <2>1, <3>2 DEF WriteDuplicate
    <3>3. CASE Reinsert(r)
      BY <2>1, <3>3 DEF Reinsert
    <3> QED BY <1>11, <3>1, <3>2, <3>3
  <2>6. rater' \in [Raters -> RaterType]
    BY <2>5, IdleTyped, BusyTyped
  <2>7. UNCHANGED prices \/ \E x \in Rates : prices' = [prices EXCEPT ![m] = @ \cup {x}]
    <3>1. CASE Rate(r)
      BY <1>0, <2>1, <3>1 DEF Rate, Prices, WorldTyped
    <3>2. CASE WriteDuplicate(r)
      BY <3>2 DEF WriteDuplicate
    <3>3. CASE Reinsert(r)
      <4>1. Sound(r) /\ rater[r].pc = "reinsert"
        BY <3>3 DEF Base, Reinsert
      <4> QED BY <2>1, <3>3, <4>1 DEF Reinsert, Prices, Sound
    <3> QED BY <1>11, <3>1, <3>2, <3>3
  <2>8. prices' \in [Messages -> SUBSET Rates]
    BY <1>0, <2>1, <2>7 DEF RowsTyped
  <2> QED BY <1>0, <2>2, <2>4, <2>6, <2>8 DEF RowsTyped, WorldTyped
<1>12. ASSUME NEW r \in Raters, Settle(r) PROVE RowsTyped' /\ WorldTyped'
  <2>1. PICK m \in Messages, cur \in Currencies \cup {NoCurrency}, amount \in Rates \cup {0} :
          m = rater[r].msg /\ cur = rater[r].cur /\ amount = rater[r].amount
    BY <1>12, AtWork DEF Settle
  <2>2. close' \in [Messages -> Closing \cup {Null}]
    BY <1>0, <1>12, <2>1, CloseTyped DEF Settle, RowsTyped
  <2>3. rater' \in [Raters -> RaterType]
    BY <1>12, <2>1, IdleTyped, BusyTyped DEF Settle
  <2>4. UNCHANGED <<reserve, unreserved, messages, prices, world>>
    BY <1>12 DEF Settle
  <2> QED BY <1>0, <2>2, <2>3, <2>4 DEF RowsTyped, WorldTyped
<1>13. ASSUME NEW r \in Raters, Book(r) PROVE RowsTyped' /\ WorldTyped'
  <2>1. PICK m \in Messages, cur \in Currencies \cup {NoCurrency}, amount \in Rates \cup {0} :
          m = rater[r].msg /\ cur = rater[r].cur /\ amount = rater[r].amount
    BY <1>13, AtWork DEF Book
  <2>2. cur # NoCurrency /\ amount # 0
    <3>1. Sound(r) /\ rater[r].pc = "book"
      BY <1>13 DEF Base, Book
    <3> QED BY <2>1, <3>1 DEF Sound
  <2>3. [currency |-> cur, month |-> month, amount |-> amount] \in Entry
    BY <1>0, <2>2, EntryTyped DEF WorldTyped
  <2>4. \/ unreserved' = unreserved
        \/ unreserved' = [unreserved EXCEPT ![m] = [currency |-> cur, month |-> month, amount |-> amount]]
    BY <1>13, <2>1 DEF Book
  <2>5. rater' \in [Raters -> RaterType]
    BY <1>13, IdleTyped DEF Book
  <2>6. UNCHANGED <<reserve, close, messages, prices, world>>
    BY <1>13 DEF Book
  <2>7. unreserved' \in [Messages -> Entry \cup {Null}]
    BY <1>0, <2>3, <2>4 DEF RowsTyped
  <2> QED BY <1>0, <2>5, <2>6, <2>7 DEF RowsTyped, WorldTyped
<1>14. ASSUME NEW r \in Raters, ReleaseStale(r) PROVE RowsTyped' /\ WorldTyped'
  <2>1. PICK m \in Messages : m = rater[r].msg
    BY <1>14, AtWork DEF ReleaseStale
  <2>2. close' \in [Messages -> Closing \cup {Null}]
    BY <1>0, <1>14, <2>1, CloseTyped DEF ReleaseStale, RowsTyped
  <2>3. rater' \in [Raters -> RaterType]
    BY <1>14, IdleTyped DEF ReleaseStale
  <2>4. UNCHANGED <<reserve, unreserved, messages, prices, world>>
    BY <1>14 DEF ReleaseStale
  <2> QED BY <1>0, <2>2, <2>3, <2>4 DEF RowsTyped, WorldTyped
<1>15. ASSUME NEW r \in Raters, Die(r) PROVE RowsTyped' /\ WorldTyped'
  <2>1. rater' \in [Raters -> RaterType] /\ UNCHANGED <<books, messages, prices, world>>
    BY <1>15, IdleTyped DEF Die
  <2> QED BY <1>0, <2>1 DEF RowsTyped, WorldTyped
<1> QED BY <1>2, <1>3, <1>4, <1>5, <1>6, <1>7, <1>8, <1>9, <1>10, <1>11, <1>12, <1>13, <1>14, <1>15 DEF Next, Step

-----------------------------------------------------------------------------
(* What a message's rows say of one another. *)
Entries(m) == Consistent(m) /\ (unreserved[m] # Null => Apart(m))

(* A close adds an entry of its own kind, at zero if it is a release. *)
LEMMA CloseEntries ==
  ASSUME Base, Keeps, NEW m \in Messages, Open(m), NEW kind \in {"release", "settle"},
         NEW amount \in Rates \cup {0}, NEW cur, CloseOpen(m, kind, amount, cur),
         UNCHANGED <<reserve, unreserved, billable, cost>>,
         sent' = sent \/ (sent[m] = "refused" /\ sent' = [sent EXCEPT ![m] = "failed"]),
         NEW n \in Messages
  PROVE  Entries(n)'
<1>1. Consistent(n) /\ (unreserved[n] # Null => Apart(n))
  BY DEF Base
<1>2. sent'[n] = sent[n] \/ (sent[n] = "refused" /\ sent'[n] = "failed")
  BY DEF Base, RowsTyped
<1>3. unreserved'[n] # Null => Apart(n)'
  BY <1>1, KeptFacts
<1>4. close'[n] # Null => reserve'[n] # Null /\ (close'[n].kind = "release" => close'[n].amount = 0)
  <2>1. CASE n = m
    <3>1. close'[m] = [kind |-> kind,
                       amount |-> IF kind = "settle" /\ ~OtherCurrency(m, kind, cur) THEN amount ELSE 0]
      BY CloseTyped
    <3>2. close'[m].kind = kind /\ (kind = "release" => close'[m].amount = 0)
      BY <3>1
    <3> QED BY <2>1, <3>2 DEF Open
  <2>2. CASE n # m
    BY <1>1, <2>2, CloseTyped DEF Consistent
  <2> QED BY <2>1, <2>2
<1> QED BY <1>1, <1>2, <1>3, <1>4 DEF Entries, Consistent

LEMMA EntriesStep ==
  ASSUME Base, [Next]_vars, Keeps, NEW n \in Messages
  PROVE  Entries(n)'
<1> USE DEF books, messages, world, history
<1>0. RowsTyped /\ WorldTyped /\ Consistent(n) /\ (unreserved[n] # Null => Apart(n))
  BY DEF Base
<1>k. Apart(n) => Apart(n)'
  BY KeptFacts
<1>1. ASSUME sent'[n] = sent[n], billable'[n] = billable[n], reserve'[n] = reserve[n],
             close'[n] = close[n], unreserved'[n] = unreserved[n], cost'[n] = cost[n]
      PROVE  Entries(n)'
  BY <1>0, <1>k, <1>1 DEF Entries, Consistent
<1>2. CASE UNCHANGED vars
  BY <1>1, <1>2 DEF vars
<1>3. CASE WorldChanges \/ \E c \in Currencies, l \in Limits : SetCap(c, l)
  BY <1>1, <1>3 DEF WorldChanges, SetCap
<1>4. ASSUME NEW m \in Messages, Reply(m) \/ Answer(m) PROVE Entries(n)'
  <2>1. UNCHANGED <<billable, reserve, close, unreserved, cost>>
    BY <1>4 DEF Reply, Answer
  <2>2. sent'[n] = sent[n] \/ (sent[n] \in {"new", "held"} /\ sent'[n] # "new")
    BY <1>0, <1>4 DEF Reply, Answer, RowsTyped
  <2> QED BY <1>0, <1>k, <2>1, <2>2 DEF Entries, Consistent
<1>5. ASSUME NEW m \in Messages, Reserve(m) PROVE Entries(n)'
  <2>1. UNCHANGED <<billable, close, unreserved, cost>>
    BY <1>5 DEF Reserve
  <2>2. CASE n = m
    <3>1. sent[n] = "new" /\ sent'[n] # "new"
      BY <1>0, <1>5, <2>2 DEF Reserve, RowsTyped
    <3>2. billable[n] = "null" /\ close[n] = Null /\ reserve[n] = Null
      BY <1>0, <3>1 DEF Consistent
    <3> QED BY <1>0, <1>k, <2>1, <3>1, <3>2 DEF Entries, Consistent
  <2>3. CASE n # m
    <3>1. sent'[n] = sent[n] /\ reserve'[n] = reserve[n]
      BY <1>0, <1>5, <2>3 DEF Reserve, RowsTyped
    <3> QED BY <1>1, <2>1, <3>1
  <2> QED BY <2>2, <2>3
<1>6. ASSUME NEW m \in Messages, ReleaseRefused(m) PROVE Entries(n)'
  <2>1. CASE Open(m)
    BY <1>6, <2>1, CloseEntries DEF ReleaseRefused
  <2>2. CASE ~Open(m)
    <3>1. UNCHANGED <<billable, reserve, close, unreserved, cost>>
      BY <1>6, <2>2 DEF ReleaseRefused
    <3>2. sent'[n] = sent[n] \/ (sent[n] = "refused" /\ sent'[n] = "failed")
      BY <1>0, <1>6 DEF ReleaseRefused, RowsTyped
    <3> QED BY <1>0, <1>k, <3>1, <3>2 DEF Entries, Consistent
  <2> QED BY <2>1, <2>2
<1>7. ASSUME NEW r \in Raters, NEW m \in Messages, Receipt(r, m) PROVE Entries(n)'
  <2>1. UNCHANGED <<sent, reserve, close, unreserved, cost>> /\ sent[m] = "accepted"
    BY <1>7 DEF Receipt
  <2>2. PICK b \in {"yes", "no"} : billable[m] \in {"null", b} /\ billable' = [billable EXCEPT ![m] = b]
    BY <1>7 DEF Receipt
  <2>3. CASE n = m
    <3>1. billable'[n] \in {"yes", "no"}
      BY <1>0, <2>2, <2>3 DEF RowsTyped
    <3>2. billable[n] # "null" => billable'[n] = billable[n]
      BY DEF Keeps
    <3> QED BY <1>0, <1>k, <2>1, <2>3, <3>1, <3>2 DEF Entries, Consistent
  <2>4. CASE n # m
    <3>1. billable'[n] = billable[n]
      BY <1>0, <2>2, <2>4 DEF RowsTyped
    <3> QED BY <1>1, <2>1, <3>1
  <2> QED BY <2>3, <2>4
<1>8. ASSUME NEW r \in Raters, NEW m \in Messages, Backfill(r, m) \/ FindStale(r, m) PROVE Entries(n)'
  BY <1>1, <1>8 DEF Backfill, FindStale
<1>9. ASSUME NEW r \in Raters, NEW m \in Messages, ReRate(r, m) PROVE Entries(n)'
  <2>1. UNCHANGED <<sent, billable, reserve, close, unreserved>> /\ cost' = [cost EXCEPT ![m] = Null]
    BY <1>9 DEF ReRate
  <2>2. cost'[n] = cost[n] \/ cost'[n] = Null
    BY <1>0, <2>1 DEF RowsTyped
  <2> QED BY <1>0, <1>k, <2>1, <2>2 DEF Entries, Consistent
<1>10. ASSUME NEW r \in Raters, NEW state \in {"free", "unrated", "rated", "duplicate"}, NEW x \in Rates \cup {0},
              NEW m \in Messages, billable[m] # "null", state \in {"rated", "unrated"} => billable[m] = "yes",
              cost' = IF cost[m] = Null THEN [cost EXCEPT ![m] = [state |-> state, amount |-> x]] ELSE cost,
              UNCHANGED <<books, sent, billable>>
       PROVE  Entries(n)'
  <2>1. cost'[n] = cost[n] \/ (n = m /\ cost'[n] = [state |-> state, amount |-> x])
    BY <1>10, CostTyped
  <2> QED BY <1>0, <1>k, <1>10, <2>1 DEF Entries, Consistent
<1>11. ASSUME NEW r \in Raters, Rate(r) \/ WriteDuplicate(r) \/ Reinsert(r) PROVE Entries(n)'
  <2>1. PICK m \in Messages, cur \in Currencies \cup {NoCurrency}, amount \in Rates \cup {0} :
          /\ m = rater[r].msg /\ cur = rater[r].cur /\ amount = rater[r].amount
          /\ billable[m] # "null" /\ (rater[r].pc = "reinsert" => billable[m] = "yes")
    <3>1. rater[r].pc \in {"rate", "duplicate", "reinsert"} /\ Sound(r)
      BY <1>11 DEF Rate, WriteDuplicate, Reinsert, Base
    <3>2. billable[rater[r].msg] # "null" /\ (rater[r].pc = "reinsert" => billable[rater[r].msg] = "yes")
      BY <3>1 DEF Sound
    <3> QED BY <3>1, <3>2, AtWork
  <2>2. UNCHANGED <<books, sent, billable>>
    BY <1>11 DEF Rate, WriteDuplicate, Reinsert
  <2>3. \/ UNCHANGED cost
        \/ \E state \in {"free", "unrated", "rated", "duplicate"}, x \in Rates \cup {0} :
             /\ state \in {"rated", "unrated"} => billable[m] = "yes"
             /\ cost' = IF cost[m] = Null THEN [cost EXCEPT ![m] = [state |-> state, amount |-> x]] ELSE cost
    <3>1. CASE Rate(r)
      BY <1>0, <2>1, <3>1 DEF Rate, WorldTyped
    <3>2. CASE WriteDuplicate(r)
      BY <2>1, <3>2 DEF WriteDuplicate
    <3>3. CASE Reinsert(r)
      BY <2>1, <3>3 DEF Reinsert
    <3> QED BY <1>11, <3>1, <3>2, <3>3
  <2>4. CASE UNCHANGED cost
    BY <1>1, <2>2, <2>4
  <2> QED BY <1>10, <2>1, <2>2, <2>3, <2>4
<1>12. ASSUME NEW r \in Raters, Settle(r) \/ ReleaseStale(r) PROVE Entries(n)'
  <2>1. PICK m \in Messages, amount \in Rates \cup {0} : m = rater[r].msg /\ amount = rater[r].amount
    BY <1>12, AtWork DEF Settle, ReleaseStale
  <2>2. CASE Open(m)
    BY <1>12, <2>1, <2>2, CloseEntries DEF Settle, ReleaseStale
  <2>3. CASE ~Open(m)
    BY <1>1, <1>12, <2>1, <2>3 DEF Settle, ReleaseStale
  <2> QED BY <2>2, <2>3
<1>13. ASSUME NEW r \in Raters, Book(r) PROVE Entries(n)'
  <2>1. PICK m \in Messages : m = rater[r].msg /\ Apart(m)
    <3>1. Sound(r) /\ rater[r].pc = "book"
      BY <1>13 DEF Base, Book
    <3> QED BY <3>1, AtWork DEF Sound
  <2>2. UNCHANGED <<sent, billable, reserve, close, cost>>
    BY <1>13 DEF Book
  <2>3. CASE n = m
    BY <1>0, <1>k, <2>1, <2>2, <2>3 DEF Entries, Consistent
  <2>4. CASE n # m
    <3>1. unreserved'[n] = unreserved[n]
      BY <1>0, <1>13, <2>1, <2>4 DEF Book, RowsTyped
    <3> QED BY <1>1, <2>2, <3>1
  <2> QED BY <2>3, <2>4
<1>14. ASSUME NEW r \in Raters, Die(r) PROVE Entries(n)'
  BY <1>1, <1>14 DEF Die
<1> QED BY <1>2, <1>3, <1>4, <1>5, <1>6, <1>7, <1>8, <1>9, <1>11, <1>12, <1>13, <1>14 DEF Next, Step

-----------------------------------------------------------------------------
(* A rater sets out on nothing it may not do. *)
LEMMA SoundStep ==
  ASSUME Base, [Next]_vars, Keeps, NEW q \in Raters
  PROVE  Sound(q)'
<1> USE DEF books, messages, world, history
<1>0. RowsTyped /\ WorldTyped /\ WorldTyped' /\ RowsTyped'
  BY TypeStep DEF Base
<1>i. ASSUME rater'[q] = Idle PROVE Sound(q)'
  BY <1>i DEF Sound, Idle
<1>1. CASE UNCHANGED rater
  BY <1>1, OthersSound
<1>2. ASSUME NEW r \in Raters, r # q, \A p \in Raters \ {r} : rater'[p] = rater[p] PROVE Sound(q)'
  BY <1>2, OthersSound
<1>3. ASSUME NEW m \in Messages, NEW cur, NEW amount, NEW pc,
             rater'[q] = [pc |-> pc, msg |-> m, cur |-> cur, amount |-> amount],
             pc \in {"rate", "duplicate", "reinsert", "settle", "book"}, billable'[m] # "null",
             pc = "reinsert" => amount \in Rates /\ billable'[m] = "yes" /\ cur # NoCurrency,
             pc \in {"settle", "book"} /\ amount # 0 => cur # NoCurrency,
             pc = "book" => amount # 0 /\ Apart(m)'
      PROVE  Sound(q)'
  BY <1>3 DEF Sound
<1>4. CASE WorldChanges \/ \E c \in Currencies, l \in Limits : SetCap(c, l)
  BY <1>1, <1>4 DEF WorldChanges, SetCap
<1>5. ASSUME NEW m \in Messages, Reply(m) \/ Answer(m) \/ Reserve(m) \/ ReleaseRefused(m) PROVE Sound(q)'
  BY <1>1, <1>5 DEF Reply, Answer, Reserve, ReleaseRefused
<1>6. ASSUME NEW r \in Raters, NEW m \in Messages, Receipt(r, m) \/ Backfill(r, m) PROVE Sound(q)'
  <2>1. /\ rater'[r] = [pc |-> "rate", msg |-> m, cur |-> wabaCurrency, amount |-> 0]
        /\ \A p \in Raters \ {r} : rater'[p] = rater[p]
    BY <1>0, <1>6, BusyTyped DEF Receipt, Backfill, WorldTyped
  <2>2. billable'[m] # "null"
    BY <1>0, <1>6 DEF Receipt, Backfill, AwaitingRating, RowsTyped
  <2> QED BY <1>2, <1>3, <2>1, <2>2
<1>7. ASSUME NEW r \in Raters, NEW m \in Messages, ReRate(r, m) PROVE Sound(q)'
  <2>1. PICK cur \in Currencies, amount \in Rates : cur = wabaCurrency /\ amount = rate
    BY <1>0, <1>7 DEF ReRate, WorldTyped
  <2>2. /\ rater'[r] = [pc |-> "reinsert", msg |-> m, cur |-> cur, amount |-> amount]
        /\ \A p \in Raters \ {r} : rater'[p] = rater[p]
    <3>1. Busy(r, "reinsert", m, cur, amount) /\ cur \in Currencies \cup {NoCurrency} /\ amount \in Rates \cup {0}
      BY <1>7, <2>1 DEF ReRate
    <3> QED BY <3>1, BusyTyped
  <2>3. cur # NoCurrency
    BY <1>7, <2>1 DEF ReRate
  <2>4. billable[m] = "yes" /\ UNCHANGED billable
    BY <1>7 DEF ReRate, Base, Consistent
  <2> QED BY <1>2, <1>3, <2>2, <2>3, <2>4
<1>8. ASSUME NEW r \in Raters, NEW m \in Messages, FindStale(r, m) PROVE Sound(q)'
  <2>1. /\ rater'[r] = [pc |-> "release", msg |-> m, cur |-> NoCurrency, amount |-> 0]
        /\ \A p \in Raters \ {r} : rater'[p] = rater[p]
    <3>1. Busy(r, "release", m, NoCurrency, 0)
      BY <1>8 DEF FindStale
    <3> QED BY <1>0, <3>1 DEF Busy, WorldTyped
  <2>2. sent'[m] \in {"accepted", "refused", "unknown"}
    BY <1>8 DEF FindStale
  <2>3. CASE q = r
    BY <2>1, <2>2, <2>3 DEF Sound
  <2> QED BY <1>2, <2>1, <2>3
<1>9. ASSUME NEW r \in Raters, rater' = [rater EXCEPT ![r] = Idle] PROVE Sound(q)'
  BY <1>2, <1>9, <1>i, IdleTyped
<1>10. ASSUME NEW r \in Raters, Rate(r) \/ WriteDuplicate(r) \/ Reinsert(r) PROVE Sound(q)'
  <2>1. PICK m \in Messages, cur \in Currencies \cup {NoCurrency}, amount \in Rates \cup {0} :
          m = rater[r].msg /\ cur = rater[r].cur /\ amount = rater[r].amount
    BY <1>10, AtWork DEF Rate, WriteDuplicate, Reinsert
  <2>2. billable[m] # "null" /\ UNCHANGED billable /\ (rater[r].pc = "reinsert" => cur # NoCurrency)
    <3>1. rater[r].pc \in {"rate", "duplicate", "reinsert"} /\ Sound(r)
      BY <1>10 DEF Rate, WriteDuplicate, Reinsert, Base
    <3>2. UNCHANGED billable
      BY <1>10 DEF Rate, WriteDuplicate, Reinsert
    <3> QED BY <2>1, <3>1, <3>2 DEF Sound
  <2>3. \/ rater' = [rater EXCEPT ![r] = Idle]
        \/ \E pc \in {"settle", "duplicate"}, x \in Rates \cup {0} :
             Busy(r, pc, m, cur, x) /\ (pc = "settle" /\ x # 0 => cur # NoCurrency)
    <3>1. CASE Rate(r)
      BY <1>0, <2>1, <3>1 DEF Rate, WorldTyped
    <3>2. CASE WriteDuplicate(r)
      BY <2>1, <3>2 DEF WriteDuplicate
    <3>3. CASE Reinsert(r)
      BY <2>1, <2>2, <3>3 DEF Reinsert
    <3> QED BY <1>10, <3>1, <3>2, <3>3
  <2>4. ASSUME NEW pc \in {"settle", "duplicate"}, NEW x \in Rates \cup {0},
               Busy(r, pc, m, cur, x), pc = "settle" /\ x # 0 => cur # NoCurrency
        PROVE  Sound(q)'
    <3>1. /\ rater'[r] = [pc |-> pc, msg |-> m, cur |-> cur, amount |-> x]
          /\ \A p \in Raters \ {r} : rater'[p] = rater[p]
      BY <1>0, <2>4 DEF Busy, WorldTyped
    <3> QED BY <1>2, <1>3, <2>2, <2>4, <3>1
  <2> QED BY <1>9, <2>3, <2>4
<1>11. ASSUME NEW r \in Raters, Settle(r) PROVE Sound(q)'
  <2>1. PICK m \in Messages, cur \in Currencies \cup {NoCurrency}, amount \in Rates \cup {0} :
          m = rater[r].msg /\ cur = rater[r].cur /\ amount = rater[r].amount
    BY <1>11, AtWork DEF Settle
  <2>2. billable[m] # "null" /\ UNCHANGED <<billable, sent, reserve>>
    BY <1>11, <2>1, AtWork DEF Settle
  <2>3. CASE rater' = [rater EXCEPT ![r] = Idle]
    BY <1>9, <2>3
  <2>4. CASE LeavesChargeUnbooked(CloseResult(m, "settle", cur)) /\ amount > 0 /\ cur # NoCurrency
             /\ Busy(r, "book", m, cur, amount)
    <3>1. /\ rater'[r] = [pc |-> "book", msg |-> m, cur |-> cur, amount |-> amount]
          /\ \A p \in Raters \ {r} : rater'[p] = rater[p]
      BY <2>4, BusyTyped
    <3>2. sent[m] = "accepted" /\ Consistent(m)
      BY <2>2 DEF Base, Consistent
    <3>3. Apart(m)'
      <4>1. CASE reserve[m] = Null
        BY <2>2, <3>2, <4>1 DEF Apart
      <4>2. CASE Open(m)
        <5>1. OtherCurrency(m, "settle", cur)
          BY <2>4, <4>2 DEF CloseResult, LeavesChargeUnbooked, Open
        <5>2. CloseOpen(m, "settle", amount, cur)
          BY <1>11, <2>1, <4>2 DEF Settle
        <5>3. close'[m] = [kind |-> "settle", amount |-> 0]
          BY <2>1, <5>1, <5>2, CloseTyped
        <5>4. close'[m] # Null
          BY <5>3, SpendCapAssumption
        <5> QED BY <2>2, <3>2, <5>3, <5>4 DEF Apart
      <4>3. CASE reserve[m] # Null /\ ~Open(m)
        <5>1. close[m] # Null /\ close[m] \in Closing
          BY <1>0, <4>3 DEF Open, RowsTyped
        <5>2. close[m].kind = "release"
          BY <2>4, <4>3, <5>1 DEF CloseResult, LeavesChargeUnbooked, Closing
        <5>3. Apart(m)
          BY <3>2, <5>1, <5>2 DEF Apart, Consistent
        <5> QED BY <5>3, KeptFacts
      <4> QED BY <4>1, <4>2, <4>3
    <3>4. amount # 0
      BY <2>4
    <3> QED BY <1>2, <1>3, <2>2, <2>4, <3>1, <3>3, <3>4
  <2> QED BY <1>11, <2>1, <2>3, <2>4 DEF Settle
<1>12. ASSUME NEW r \in Raters, Book(r) \/ ReleaseStale(r) \/ Die(r) PROVE Sound(q)'
  BY <1>9, <1>12 DEF Book, ReleaseStale, Die
<1>13. CASE UNCHANGED vars
  BY <1>1, <1>13 DEF vars
<1> QED BY <1>4, <1>5, <1>6, <1>7, <1>8, <1>10, <1>11, <1>12, <1>13 DEF Next, Step

LEMMA BaseStep == Base /\ [Next]_vars => Base'
<1> SUFFICES ASSUME Base, [Next]_vars PROVE Base'
  OBVIOUS
<1>1. Keeps
  BY KeepsStep
<1>2. BooksTyped' /\ Headroom'
  BY HeadroomStep
<1>3. RowsTyped' /\ WorldTyped'
  BY TypeStep
<1>4. \A m \in Messages : Entries(m)'
  BY <1>1, EntriesStep
<1>5. \A r \in Raters : Sound(r)'
  BY <1>1, SoundStep
<1> QED BY <1>2, <1>3, <1>4, <1>5 DEF Base, Entries

LEMMA BaseInit == Init => Base
<1> SUFFICES ASSUME Init PROVE Base
  OBVIOUS
<1>1. BooksTyped
  BY DEF Init, BooksTyped, NoCap
<1>2. RowsTyped
  BY DEF Init, RowsTyped
<1>3. WorldTyped
  <2>1. Idle \in RaterType
    BY DEF Idle, RaterType
  <2>2. 1 \in 1 .. Months
    BY SpendCapAssumption
  <2> QED BY <2>1, <2>2 DEF Init, WorldTyped
<1>4. Headroom
  <2>1. \A p \in Periods : p[1] \in Currencies /\ reserved[p] = 0 /\ actual[p] = 0 /\ overshoot[p] = 0
    BY DEF Init, Periods
  <2>2. \A c \in Currencies : highest[c] = 0 /\ limit[c] = -1
    BY DEF Init, NoCap
  <2> QED BY <2>1, <2>2 DEF Headroom, WithinGrantedHeadroom
<1>5. \A m \in Messages : Consistent(m) /\ (unreserved[m] # Null => Apart(m))
  BY DEF Init, Consistent
<1>6. \A r \in Raters : Sound(r)
  BY DEF Init, Sound, Idle
<1> QED BY <1>1, <1>2, <1>3, <1>4, <1>5, <1>6 DEF Base

LEMMA BaseAlways == Spec => []Base
BY BaseInit, BaseStep, PTL DEF Spec

(* Headroom binds, however many messages, raters and months there are:     *)
(* only a reservation takes any, and it looks before it does; what is      *)
(* charged above it is overshoot (reserveSpend and its WHERE clause).      *)
THEOREM HeadroomBinds == Spec => []WithinGrantedHeadroom
<1>1. Base => WithinGrantedHeadroom
  BY DEF Base, Headroom
<1> QED BY <1>1, BaseAlways, PTL

(* A charge booked apart never had a hold that closed at a price: whatever *)
(* receipts, backfills and refusals race for the close (closeReservation,  *)
(* recordUnreservedActual).                                                *)
THEOREM BookedOnce == Spec => []NeverBookedTwice
<1>1. Base => NeverBookedTwice
  BY DEF Base, NeverBookedTwice, Apart
<1> QED BY <1>1, BaseAlways, PTL

-----------------------------------------------------------------------------
(* A message's part in the books of a month. *)
PartsTyped == \A p \in Periods :
  HeldIn(p) \in [Messages -> Nat] /\ ClosedIn(p) \in [Messages -> Nat] /\ ApartIn(p) \in [Messages -> Nat]

LEMMA PartsNow == Base => PartsTyped
<1> SUFFICES ASSUME Base, NEW p \in Periods, NEW m \in Messages
             PROVE  /\ reserve[m] # Null => reserve[m].amount \in Nat
                    /\ close[m] # Null => close[m].amount \in Nat
                    /\ unreserved[m] # Null => unreserved[m].amount \in Nat
  BY DEF PartsTyped, HeldIn, ClosedIn, ApartIn, Entered
<1>1. /\ reserve[m] # Null => reserve[m].amount \in Rates
      /\ close[m] # Null => close[m].amount \in Nat
      /\ unreserved[m] # Null => unreserved[m].amount \in Rates
  BY DEF Base, RowsTyped, Entry, Closing
<1> QED BY <1>1, AmountsNatural

LEMMA PartsNext == Base' => PartsTyped'
BY PartsNow, PTL

(* One message's part of a sum changes, and the counter with it. *)
LEMMA OneTermMoves ==
  ASSUME NEW f \in [Messages -> Nat], NEW h \in [Messages -> Nat], NEW m \in Messages,
         \A n \in Messages \ {m} : h[n] = f[n]
  PROVE  /\ SumFunction(f) \in Int /\ SumFunction(h) \in Int
         /\ SumFunction(h) = SumFunction(f) - f[m] + h[m]
<1>1. IsFiniteSet(Messages) /\ f \in [Messages -> Int] /\ h \in [Messages -> Int]
  BY SpendCapAssumption
<1> QED BY <1>1, SumMoves

LEMMA LedgerInit == Init => CountersMatchLedger
<1> SUFFICES ASSUME Init, NEW p \in Periods
             PROVE  /\ reserved[p] = SumFunction(HeldIn(p))
                    /\ actual[p] = SumFunction(ClosedIn(p)) + SumFunction(ApartIn(p))
  BY DEF CountersMatchLedger
<1> DEFINE none == [m \in Messages |-> 0]
<1>1. HeldIn(p) = none /\ ClosedIn(p) = none /\ ApartIn(p) = none
  BY DEF Init, HeldIn, ClosedIn, ApartIn, Entered
<1>2. SumFunction(none) = 0
  BY SumOfNone, SpendCapAssumption
<1>3. reserved[p] = 0 /\ actual[p] = 0
  BY DEF Init
<1> QED BY <1>1, <1>2, <1>3

(* A send holds its price: one message's part of the held counter. *)
LEMMA ReserveLedger ==
  ASSUME Base, Base', CountersMatchLedger, NEW m \in Messages, Reserve(m)
  PROVE  CountersMatchLedger'
<1>0. RowsTyped /\ BooksTyped /\ WorldTyped
  BY DEF Base
<1>1. reserve[m] = Null /\ close[m] = Null
  BY DEF Base, Consistent, Reserve
<1>2. UNCHANGED <<actual, close, unreserved>>
  BY DEF Reserve
<1>3. CASE UNCHANGED <<reserved, reserve>>
  BY <1>2, <1>3 DEF CountersMatchLedger, HeldIn, ClosedIn, ApartIn, Entered
<1>4. CASE ~UNCHANGED <<reserved, reserve>>
  <2>1. PICK p \in Periods : p = <<wabaCurrency, month>>
    BY <1>0 DEF Reserve, WorldTyped, Periods
  <2>2. /\ reserved' = [reserved EXCEPT ![p] = @ + rate]
        /\ reserve' = [reserve EXCEPT ![m] = [currency |-> wabaCurrency, month |-> month, amount |-> rate]]
    BY <1>4, <2>1 DEF Reserve
  <2>3. reserve'[m] = [currency |-> wabaCurrency, month |-> month, amount |-> rate]
    BY <1>0, <2>2 DEF RowsTyped
  <2>4. rate \in Nat /\ reserve'[m] # Null
    <3>1. rate \in Rates /\ wabaCurrency \in Currencies /\ month \in 1 .. Months
      BY <1>0 DEF Reserve, WorldTyped
    <3>2. [currency |-> wabaCurrency, month |-> month, amount |-> rate] \in Entry
      BY <3>1 DEF Entry
    <3> QED BY <2>3, <3>1, <3>2, AmountsNatural, SpendCapAssumption DEF Entry
  <2>5. ASSUME NEW q \in Periods
        PROVE  /\ reserved'[q] = SumFunction(HeldIn(q)')
               /\ actual'[q] = SumFunction(ClosedIn(q)') + SumFunction(ApartIn(q)')
    <3>1. ApartIn(q)' = ApartIn(q)
      BY <1>2 DEF ApartIn, Entered
    <3>2. ClosedIn(q)' = ClosedIn(q)
      <4>1. \A n \in Messages : close[n] # Null => reserve'[n] = reserve[n]
        BY <1>0, <1>1, <2>2 DEF RowsTyped
      <4> QED BY <1>2, <4>1 DEF ClosedIn, Entered
    <3>3. /\ HeldIn(q)'[m] = IF q = p THEN rate ELSE 0
          /\ HeldIn(q)[m] = 0
          /\ \A n \in Messages \ {m} : HeldIn(q)'[n] = HeldIn(q)[n]
      <4>1. Entered(reserve'[m], q) <=> q = p
        BY <2>1, <2>3, <2>4 DEF Entered, Periods
      <4>2. \A n \in Messages \ {m} : reserve'[n] = reserve[n]
        BY <1>0, <2>2 DEF RowsTyped
      <4> QED BY <1>1, <1>2, <2>3, <4>1, <4>2 DEF HeldIn, Entered
    <3>4. HeldIn(q) \in [Messages -> Nat] /\ HeldIn(q)' \in [Messages -> Nat]
      BY PartsNow, PartsNext DEF PartsTyped
    <3>5. SumFunction(HeldIn(q)') = SumFunction(HeldIn(q)) + (IF q = p THEN rate ELSE 0)
          /\ SumFunction(HeldIn(q)) \in Int
      BY <2>4, <3>3, <3>4, OneTermMoves
    <3>6. reserved'[q] = reserved[q] + (IF q = p THEN rate ELSE 0)
      BY <1>0, <2>2, <2>4 DEF BooksTyped
    <3> QED BY <1>2, <3>1, <3>2, <3>5, <3>6 DEF CountersMatchLedger
  <2> QED BY <2>5 DEF CountersMatchLedger
<1> QED BY <1>3, <1>4

(* A close moves one message's part from the held counter to the charged.  *)
LEMMA CloseLedger ==
  ASSUME Base, Base', CountersMatchLedger, NEW m \in Messages, Open(m), NEW kind \in {"release", "settle"},
         NEW amount \in Rates \cup {0}, NEW cur, CloseOpen(m, kind, amount, cur),
         UNCHANGED <<reserve, unreserved>>
  PROVE  CountersMatchLedger'
<1>0. RowsTyped /\ BooksTyped
  BY DEF Base
<1>1. reserve[m] \in Entry /\ reserve[m] # Null /\ close[m] = Null
  BY <1>0 DEF Open, RowsTyped
<1>2. PICK p \in Periods : p = PeriodOf(m)
  BY <1>1 DEF PeriodOf, Entry, Periods
<1>3. PICK charge : charge = IF kind = "settle" /\ ~OtherCurrency(m, kind, cur) THEN amount ELSE 0
  OBVIOUS
<1>4. PICK hold : hold = reserve[m].amount
  OBVIOUS
<1>5. charge \in Nat /\ hold \in Nat
  <2>1. charge \in Rates \cup {0} /\ hold \in Rates
    BY <1>1, <1>3, <1>4 DEF Entry
  <2> QED BY <2>1, AmountsNatural
<1>6. close' = [close EXCEPT ![m] = [kind |-> kind, amount |-> charge]]
  BY <1>3 DEF CloseOpen
<1>7. close'[m].amount = charge /\ close'[m] # Null
  <2>1. [kind |-> kind, amount |-> charge] # Null
    BY <1>5, SpendCapAssumption
  <2> QED BY <1>0, <1>6, <2>1 DEF RowsTyped
<1>8. \A n \in Messages \ {m} : close'[n] = close[n]
  BY <1>0, <1>6 DEF RowsTyped
<1>9. ASSUME NEW q \in Periods
      PROVE  /\ reserved'[q] = SumFunction(HeldIn(q)')
             /\ actual'[q] = SumFunction(ClosedIn(q)') + SumFunction(ApartIn(q)')
  <2> DEFINE own(x) == IF q = p THEN x ELSE 0
  <2>1. Entered(reserve[m], q) <=> q = p
    BY <1>1, <1>2 DEF Entered, PeriodOf, Periods
  <2>2. HeldIn(q)'[m] = 0 /\ HeldIn(q)[m] = own(hold) /\ ClosedIn(q)'[m] = own(charge) /\ ClosedIn(q)[m] = 0
    BY <1>1, <1>4, <1>7, <2>1 DEF HeldIn, ClosedIn, Entered
  <2>3. \A n \in Messages \ {m} : HeldIn(q)'[n] = HeldIn(q)[n] /\ ClosedIn(q)'[n] = ClosedIn(q)[n]
    BY <1>8 DEF HeldIn, ClosedIn, Entered
  <2>4. /\ HeldIn(q) \in [Messages -> Nat] /\ HeldIn(q)' \in [Messages -> Nat]
        /\ ClosedIn(q) \in [Messages -> Nat] /\ ClosedIn(q)' \in [Messages -> Nat]
        /\ ApartIn(q) \in [Messages -> Nat]
    BY PartsNow, PartsNext DEF PartsTyped
  <2>5. SumFunction(HeldIn(q)') = SumFunction(HeldIn(q)) - own(hold) /\ SumFunction(HeldIn(q)) \in Int
    BY <1>5, <2>2, <2>3, <2>4, OneTermMoves
  <2>6. SumFunction(ClosedIn(q)') = SumFunction(ClosedIn(q)) + own(charge) /\ SumFunction(ClosedIn(q)) \in Int
    BY <1>5, <2>2, <2>3, <2>4, OneTermMoves
  <2>7. ApartIn(q)' = ApartIn(q)
    BY DEF ApartIn, Entered
  <2>8. SumFunction(ApartIn(q)) \in Int
    BY <2>4, OneTermMoves
  <2>9. reserved'[q] = reserved[q] - own(hold) /\ actual'[q] = actual[q] + own(charge)
    <3>1. /\ reserved' = [reserved EXCEPT ![p] = @ - hold]
          /\ actual' = [actual EXCEPT ![p] = @ + charge]
      BY <1>2, <1>3, <1>4 DEF CloseOpen, Held
    <3>2. reserved[q] \in Int /\ actual[q] \in Int
      BY <1>0 DEF BooksTyped
    <3> QED BY <1>0, <1>5, <3>1, <3>2 DEF BooksTyped
  <2> HIDE DEF own
  <2>10. own(charge) \in Int
    BY <1>5 DEF own
  <2> QED BY <2>5, <2>6, <2>7, <2>8, <2>9, <2>10 DEF CountersMatchLedger
<1> QED BY <1>9 DEF CountersMatchLedger

(* A charge booked apart is one message's part of the charged counter. *)
LEMMA BookLedger ==
  ASSUME Base, Base', CountersMatchLedger, NEW r \in Raters, Book(r)
  PROVE  CountersMatchLedger'
<1>0. RowsTyped /\ BooksTyped /\ WorldTyped
  BY DEF Base
<1>1. PICK m \in Messages, c \in Currencies, amount \in Rates :
        m = rater[r].msg /\ c = rater[r].cur /\ amount = rater[r].amount
  <2>1. Sound(r)
    BY DEF Base
  <2>2. rater[r].amount # 0 /\ rater[r].cur # NoCurrency
    BY <2>1 DEF Sound, Book
  <2> QED BY <2>2, AtWork DEF Book
<1>2. UNCHANGED <<reserved, reserve, close>>
  BY DEF Book
<1>3. CASE unreserved[m] # Null
  <2>1. UNCHANGED <<actual, unreserved>>
    BY <1>1, <1>3 DEF Book
  <2> QED BY <1>2, <2>1 DEF CountersMatchLedger, HeldIn, ClosedIn, ApartIn, Entered
<1>4. CASE unreserved[m] = Null
  <2>1. PICK p \in Periods : p = <<c, month>>
    BY <1>0 DEF WorldTyped, Periods
  <2>2. /\ unreserved' = [unreserved EXCEPT ![m] = [currency |-> c, month |-> month, amount |-> amount]]
        /\ actual' = [actual EXCEPT ![p] = @ + amount]
    BY <1>1, <1>4, <2>1 DEF Book
  <2>3. unreserved'[m] = [currency |-> c, month |-> month, amount |-> amount]
        /\ \A n \in Messages \ {m} : unreserved'[n] = unreserved[n]
    BY <1>0, <2>2 DEF RowsTyped
  <2>4. unreserved'[m] # Null /\ amount \in Nat
    BY <1>0, <2>3, EntryTyped, AmountsNatural, SpendCapAssumption DEF WorldTyped, Entry
  <2>5. ASSUME NEW q \in Periods
        PROVE  /\ reserved'[q] = SumFunction(HeldIn(q)')
               /\ actual'[q] = SumFunction(ClosedIn(q)') + SumFunction(ApartIn(q)')
    <3>1. HeldIn(q)' = HeldIn(q) /\ ClosedIn(q)' = ClosedIn(q)
      BY <1>2 DEF HeldIn, ClosedIn, Entered
    <3>2. Entered(unreserved'[m], q) <=> q = p
      BY <2>1, <2>3, <2>4 DEF Entered, Periods
    <3>3. /\ ApartIn(q)'[m] = IF q = p THEN amount ELSE 0
          /\ ApartIn(q)[m] = 0
          /\ \A n \in Messages \ {m} : ApartIn(q)'[n] = ApartIn(q)[n]
      BY <1>4, <2>3, <3>2 DEF ApartIn, Entered
    <3>4. /\ ApartIn(q) \in [Messages -> Nat] /\ ApartIn(q)' \in [Messages -> Nat]
          /\ ClosedIn(q) \in [Messages -> Nat]
      BY PartsNow, PartsNext DEF PartsTyped
    <3>5. SumFunction(ApartIn(q)') = SumFunction(ApartIn(q)) + (IF q = p THEN amount ELSE 0)
          /\ SumFunction(ApartIn(q)) \in Int
      BY <2>4, <3>3, <3>4, OneTermMoves
    <3>6. SumFunction(ClosedIn(q)) \in Int
      BY <3>4, OneTermMoves
    <3>7. actual'[q] = actual[q] + (IF q = p THEN amount ELSE 0)
      BY <1>0, <2>2, <2>4 DEF BooksTyped
    <3> QED BY <1>2, <2>4, <3>1, <3>5, <3>6, <3>7 DEF CountersMatchLedger
  <2> QED BY <2>5 DEF CountersMatchLedger
<1> QED BY <1>3, <1>4

LEMMA LedgerStep ==
  ASSUME Base, Base', CountersMatchLedger, [Next]_vars
  PROVE  CountersMatchLedger'
<1> USE DEF books, messages, world, history
<1>1. ASSUME UNCHANGED <<reserved, actual, reserve, close, unreserved>> PROVE CountersMatchLedger'
  BY <1>1 DEF CountersMatchLedger, HeldIn, ClosedIn, ApartIn, Entered
<1>2. ASSUME NEW m \in Messages, ReleaseRefused(m) PROVE CountersMatchLedger'
  BY <1>1, <1>2, CloseLedger DEF ReleaseRefused
<1>3. ASSUME NEW r \in Raters, Settle(r) \/ ReleaseStale(r) PROVE CountersMatchLedger'
  <2>1. rater[r].pc # "idle"
    BY <1>3 DEF Settle, ReleaseStale
  <2>2. PICK m \in Messages, amount \in Rates \cup {0} : m = rater[r].msg /\ amount = rater[r].amount
    BY <2>1, AtWork
  <2>3. CASE Open(m)
    <3>1. /\ \/ CloseOpen(m, "settle", amount, rater[r].cur)
             \/ CloseOpen(m, "release", 0, NoCurrency)
          /\ UNCHANGED <<reserve, unreserved>>
      BY <1>3, <2>2, <2>3 DEF Settle, ReleaseStale
    <3> QED BY <2>2, <2>3, <3>1, CloseLedger
  <2>4. CASE ~Open(m)
    BY <1>1, <1>3, <2>2, <2>4 DEF Settle, ReleaseStale
  <2> QED BY <2>3, <2>4
<1>4. CASE UNCHANGED vars
  BY <1>1, <1>4 DEF vars
<1>5. CASE WorldChanges \/ \E c \in Currencies, l \in Limits : SetCap(c, l)
  BY <1>1, <1>5 DEF WorldChanges, SetCap
<1>6. ASSUME NEW m \in Messages, Reply(m) \/ Answer(m) PROVE CountersMatchLedger'
  BY <1>1, <1>6 DEF Reply, Answer
<1>7. ASSUME NEW r \in Raters, NEW m \in Messages, Receipt(r, m) \/ Backfill(r, m) \/ ReRate(r, m) \/ FindStale(r, m)
      PROVE  CountersMatchLedger'
  BY <1>1, <1>7 DEF Receipt, Backfill, ReRate, FindStale
<1>8. ASSUME NEW r \in Raters, Rate(r) \/ WriteDuplicate(r) \/ Reinsert(r) \/ Die(r) PROVE CountersMatchLedger'
  BY <1>1, <1>8 DEF Rate, WriteDuplicate, Reinsert, Die
<1> QED BY <1>2, <1>3, <1>4, <1>5, <1>6, <1>7, <1>8, ReserveLedger, BookLedger DEF Next, Step

LEMMA LedgerAlways == Spec => [](Base /\ CountersMatchLedger)
<1>1. Base /\ CountersMatchLedger /\ [Next]_vars => Base' /\ CountersMatchLedger'
  BY BaseStep, LedgerStep
<1> QED BY <1>1, BaseInit, LedgerInit, PTL DEF Spec

(* The counters of a month are what the ledger says, to the micro: for any *)
(* number of messages, raters, currencies and months, and receipts that    *)
(* land twice, late or in another month (closeReservation,                 *)
(* recordUnreservedActual).                                                *)
THEOREM LedgerMatches == Spec => []CountersMatchLedger
BY LedgerAlways, PTL

(* The rows are well formed, and the counters, being sums of what messages *)
(* hold and were charged, never go below zero (migration 052's checks).    *)
THEOREM TypeCorrect == Spec => []TypeOK
<1>1. ASSUME Base, CountersMatchLedger PROVE TypeOK
  <2>1. ASSUME NEW p \in Periods PROVE reserved[p] \in Nat /\ actual[p] \in Nat
    <3>1. HeldIn(p) \in [Messages -> Nat] /\ ClosedIn(p) \in [Messages -> Nat] /\ ApartIn(p) \in [Messages -> Nat]
      BY <1>1, PartsNow DEF PartsTyped
    <3>2. SumFunction(HeldIn(p)) \in Nat /\ SumFunction(ClosedIn(p)) \in Nat /\ SumFunction(ApartIn(p)) \in Nat
      BY <3>1, SumOfNaturals, SpendCapAssumption
    <3> QED BY <1>1, <3>2 DEF CountersMatchLedger
  <2>2. reserved \in [Periods -> Nat] /\ actual \in [Periods -> Nat]
    BY <1>1, <2>1 DEF Base, BooksTyped
  <2> QED BY <1>1, <2>2 DEF TypeOK, Base, BooksTyped, RowsTyped, Entry, Closing, CostRow
<1> QED BY <1>1, LedgerAlways, PTL

-----------------------------------------------------------------------------
(* No charge is forgotten.  A message rated at a price is on the books at  *)
(* the price of one of its receipts, or a rater is on its way there, or    *)
(* one died on the way and no receipt has mended it.                       *)
Rated(m) == cost[m] # Null /\ cost[m].state = "rated"

(* It will not be rated at a price. *)
Never(m) ==
  \/ billable[m] = "no"
  \/ \E n \in Messages : n # m /\ Conversation[n] = Conversation[m] /\ Rated(n)

Accounted(m) == OnBooks(m) \in prices[m]
Booking(m) == \E r \in Raters : rater[r].msg = m /\ rater[r].pc = "book"
Settling(m) == \E r \in Raters : rater[r].msg = m /\ rater[r].pc = "settle" /\ rater[r].amount \in prices[m]

Standing(m) == Accounted(m) \/ Booking(m) \/ m \in cut \/ Never(m)

(* A close that says "settle" hides no charge. *)
SettledSound(m) == close[m] # Null /\ close[m].kind = "settle" => Standing(m)

OnItsWay(m) == Rated(m) => Standing(m) \/ Settling(m)

UnreservedQuoted(m) == unreserved[m] # Null => unreserved[m].amount \in prices[m]

OneRated ==
  \A m, n \in Messages : Rated(m) /\ Rated(n) /\ Conversation[m] = Conversation[n] => m = n

(* A rater settles at a price it rated the message at, or at zero what     *)
(* will never have one.                                                    *)
Quoted(r) ==
  LET m == rater[r].msg IN
  /\ rater[r].pc = "duplicate" => Never(m)
  /\ rater[r].pc = "settle" => rater[r].amount \in prices[m] \/ (rater[r].amount = 0 /\ Never(m))
  /\ rater[r].pc = "book" => rater[r].amount \in prices[m]

Due ==
  /\ OneRated
  /\ \A m \in Messages : SettledSound(m) /\ OnItsWay(m) /\ UnreservedQuoted(m)
  /\ \A r \in Raters : Quoted(r)

(* A message rated at a price stays so: what reRateMessage deletes is a    *)
(* row without one.                                                        *)
RatedStays == \A m \in Messages : (Rated(m) => Rated(m)') /\ (Never(m) => Never(m)')

LEMMA RatedStaysStep ==
  ASSUME Base, [Next]_vars, Keeps
  PROVE  RatedStays
<1> USE DEF books, messages, world, history
<1>0. cost \in [Messages -> CostRow \cup {Null}]
  BY DEF Base, RowsTyped
<1>1. ASSUME \A m \in Messages : Rated(m) => Rated(m)' PROVE RatedStays
  BY <1>1, KeptFacts DEF Never, RatedStays
<1>3. \/ UNCHANGED cost
      \/ \E r \in Raters : Rate(r) \/ WriteDuplicate(r) \/ Reinsert(r) \/ \E m \in Messages : ReRate(r, m)
  BY DEF Next, Step, vars, SetCap, WorldChanges, Reply, Answer, Reserve, ReleaseRefused, Receipt, Backfill,
         FindStale, Settle, Book, ReleaseStale, Die
<1>4. CASE UNCHANGED cost
  BY <1>1, <1>4 DEF Rated
<1>5. ASSUME NEW r \in Raters, NEW m \in Messages, ReRate(r, m) PROVE RatedStays
  <2>1. cost[m].state = "unrated" /\ cost' = [cost EXCEPT ![m] = Null]
    BY <1>5 DEF ReRate
  <2>2. \A n \in Messages : Rated(n) => n # m /\ cost'[n] = cost[n]
    BY <1>0, <2>1 DEF Rated
  <2> QED BY <1>1, <2>2 DEF Rated
<1>6. ASSUME NEW r \in Raters, Rate(r) \/ WriteDuplicate(r) \/ Reinsert(r) PROVE RatedStays
  <2>1. cost' = cost \/ \E one : cost[rater[r].msg] = Null /\ cost' = [cost EXCEPT ![rater[r].msg] = one]
    BY <1>6 DEF Rate, WriteDuplicate, Reinsert
  <2>2. \A n \in Messages : cost[n] # Null => cost'[n] = cost[n]
    BY <1>0, <2>1
  <2> QED BY <1>1, <2>2 DEF Rated
<1> QED BY <1>3, <1>4, <1>5, <1>6

-----------------------------------------------------------------------------
(* What the ledger says a message was charged. *)
LEMMA ChargedApart ==
  ASSUME Base, NEW m \in Messages, unreserved[m] # Null
  PROVE  OnBooks(m) = unreserved[m].amount
<1>1. unreserved[m] \in Entry /\ (close[m] # Null => close[m].amount = 0)
  BY DEF Base, RowsTyped, Apart, Consistent
<1>2. unreserved[m].amount \in Nat
  BY <1>1, AmountsNatural DEF Entry
<1> QED BY <1>1, <1>2 DEF OnBooks

LEMMA ChargedClosed ==
  ASSUME Base, NEW m \in Messages, unreserved[m] = Null
  PROVE  OnBooks(m) = IF close[m] # Null /\ close[m].kind = "settle" THEN close[m].amount ELSE 0
<1>1. close[m] # Null => close[m].amount \in Nat
  BY DEF Base, RowsTyped, Closing
<1> QED BY <1>1 DEF OnBooks

(* A hold that is open hides no charge booked apart. *)
LEMMA OpenUncharged ==
  ASSUME Base, NEW m \in Messages, Open(m)
  PROVE  unreserved[m] = Null /\ OnBooks(m) = 0
<1>1. unreserved[m] = Null
  BY DEF Base, Apart, Open
<1> QED BY <1>1, ChargedClosed DEF Open

LEMMA ClosedCharged ==
  ASSUME Base, Base', NEW m \in Messages, Open(m), NEW kind \in {"release", "settle"},
         NEW amount \in Rates \cup {0}, NEW cur, CloseOpen(m, kind, amount, cur), UNCHANGED unreserved
  PROVE  /\ OnBooks(m)' = IF kind = "settle" /\ ~OtherCurrency(m, kind, cur) THEN amount ELSE 0
         /\ \A n \in Messages \ {m} : OnBooks(n)' = OnBooks(n)
<1>1. /\ close'[m] = [kind |-> kind,
                      amount |-> IF kind = "settle" /\ ~OtherCurrency(m, kind, cur) THEN amount ELSE 0]
      /\ \A n \in Messages \ {m} : close'[n] = close[n]
  BY CloseTyped
<1>2. PICK charge \in Rates \cup {0} : /\ charge = IF kind = "settle" /\ ~OtherCurrency(m, kind, cur) THEN amount ELSE 0
                                       /\ close'[m] = [kind |-> kind, amount |-> charge]
  BY <1>1
<1>3. close'[m] # Null /\ close'[m].kind = kind /\ close'[m].amount = charge
  <2>1. close'[m] \in Closing
    BY <1>2, AmountsNatural DEF Closing
  <2> QED BY <1>2, <2>1, SpendCapAssumption DEF Closing
<1>4. unreserved'[m] = Null
  BY OpenUncharged
<1>5. OnBooks(m)' = IF kind = "settle" THEN charge ELSE 0
  <2>1. OnBooks(m)' = IF close'[m] # Null /\ close'[m].kind = "settle" THEN close'[m].amount ELSE 0
    <3>1. charge \in Nat
      BY AmountsNatural
    <3> QED BY <1>3, <1>4, <3>1 DEF OnBooks
  <2> QED BY <1>3, <2>1
<1>6. \A n \in Messages \ {m} : OnBooks(n)' = OnBooks(n)
  BY <1>1 DEF OnBooks
<1> QED BY <1>2, <1>5, <1>6

(* Books that stay, for what is accounted for. *)
BooksStay == \A m \in Messages : Accounted(m) => Accounted(m)'

LEMMA SameBooks ==
  ASSUME UNCHANGED <<close, unreserved>>, \A m \in Messages : prices[m] \subseteq prices'[m]
  PROVE  BooksStay
BY DEF BooksStay, Accounted, OnBooks

(* An open hold that closes leaves what was accounted for at zero: its     *)
(* charge is zero, or one of the prices.                                   *)
LEMMA ClosingKeeps ==
  ASSUME Base, Base', NEW m \in Messages, Open(m), NEW kind \in {"release", "settle"},
         NEW amount \in Rates \cup {0}, NEW cur, CloseOpen(m, kind, amount, cur), UNCHANGED <<unreserved, prices>>,
         kind = "settle" => amount \in prices[m] \/ amount = 0
  PROVE  BooksStay
<1>1. OnBooks(m) = 0
  BY OpenUncharged
<1>2. OnBooks(m)' = 0 \/ OnBooks(m)' \in prices[m]
  BY ClosedCharged
<1>3. \A n \in Messages \ {m} : OnBooks(n)' = OnBooks(n)
  BY ClosedCharged
<1> QED BY <1>1, <1>2, <1>3 DEF BooksStay, Accounted

-----------------------------------------------------------------------------
(* What a step has to show of the raters: one at work on the books of n    *)
(* goes on, or leaves n standing.                                          *)
Carried(n) ==
  /\ Booking(n) => Booking(n)' \/ Standing(n)'
  /\ n \in cut => Standing(n)'
  /\ Settling(n) => Settling(n)' \/ Standing(n)'
  /\ Rated(n)' => Rated(n) \/ Settling(n)'
  /\ close'[n] = close[n] \/ close'[n].kind # "settle" \/ Standing(n)'

LEMMA AccountKept ==
  ASSUME Due, RatedStays, BooksStay, NEW n \in Messages, Carried(n)
  PROVE  SettledSound(n)' /\ OnItsWay(n)'
<1>1. SettledSound(n) /\ OnItsWay(n)
  BY DEF Due
<1>2. Standing(n) => Standing(n)'
  BY DEF RatedStays, BooksStay, Carried, Standing
<1>3. SettledSound(n)'
  BY <1>1, <1>2 DEF SettledSound, Carried
<1>4. OnItsWay(n)'
  BY <1>1, <1>2 DEF OnItsWay, Carried
<1> QED BY <1>3, <1>4

LEMMA OthersQuoted ==
  ASSUME Base, Due, RatedStays, NEW q \in Raters, rater'[q] = rater[q],
         \A m \in Messages : prices[m] \subseteq prices'[m]
  PROVE  Quoted(q)'
<1>1. CASE rater[q].pc \in {"duplicate", "settle", "book"}
  <2>1. PICK m \in Messages : m = rater[q].msg
    BY <1>1, AtWork
  <2>2. Quoted(q) /\ (Never(m) => Never(m)') /\ prices[m] \subseteq prices'[m]
    BY DEF Due, RatedStays
  <2> QED BY <2>1, <2>2 DEF Quoted
<1>2. CASE rater[q].pc \notin {"duplicate", "settle", "book"}
  BY <1>2 DEF Quoted
<1> QED BY <1>1, <1>2

(* Another rater's way goes on. *)
LEMMA WayKept ==
  ASSUME NEW r \in Raters, \A p \in Raters \ {r} : rater'[p] = rater[p], NEW n \in Messages,
         prices[n] \subseteq prices'[n]
  PROVE  /\ Booking(n) => Booking(n)' \/ (rater[r].msg = n /\ rater[r].pc = "book")
         /\ Settling(n) =>
              Settling(n)' \/ (rater[r].msg = n /\ rater[r].pc = "settle" /\ rater[r].amount \in prices[n])
BY DEF Booking, Settling

(* A step of no rater, that settles no hold. *)
LEMMA QuietStep ==
  ASSUME Base, Due, RatedStays, BooksStay, UNCHANGED <<rater, cost, prices, unreserved, cut>>,
         \A n \in Messages : close'[n] = close[n] \/ close'[n].kind = "release"
  PROVE  Due'
<1>1. OneRated'
  BY DEF Due, OneRated, Rated
<1>2. ASSUME NEW q \in Raters PROVE Quoted(q)'
  BY OthersQuoted
<1>3. ASSUME NEW n \in Messages PROVE SettledSound(n)' /\ OnItsWay(n)'
  <2>1. Booking(n) => Booking(n)'
    BY DEF Booking
  <2>2. Settling(n) => Settling(n)'
    BY DEF Settling
  <2>3. Rated(n)' => Rated(n)
    BY DEF Rated
  <2>4. n \in cut => Standing(n)'
    BY DEF Standing
  <2>5. Carried(n)
    BY <2>1, <2>2, <2>3, <2>4 DEF Carried
  <2> QED BY <2>5, AccountKept
<1>4. ASSUME NEW n \in Messages PROVE UnreservedQuoted(n)'
  BY DEF Due, UnreservedQuoted
<1> QED BY <1>1, <1>2, <1>3, <1>4 DEF Due

(* A step of one rater: what it has to show. *)
LEMMA RaterStep ==
  ASSUME Base, Due, RatedStays, BooksStay, NEW r \in Raters, \A p \in Raters \ {r} : rater'[p] = rater[p],
         \A n \in Messages : prices[n] \subseteq prices'[n],
         OneRated', Quoted(r)', \A n \in Messages : UnreservedQuoted(n)',
         \A n \in Messages :
           /\ rater[r].msg = n /\ rater[r].pc = "book" => Standing(n)'
           /\ rater[r].msg = n /\ rater[r].pc = "settle" => Standing(n)'
           /\ n \in cut => Standing(n)'
           /\ Rated(n)' => Rated(n) \/ Settling(n)'
           /\ close'[n] = close[n] \/ close'[n].kind # "settle" \/ Standing(n)'
  PROVE  Due'
<1>1. ASSUME NEW q \in Raters PROVE Quoted(q)'
  BY OthersQuoted
<1>2. ASSUME NEW n \in Messages PROVE SettledSound(n)' /\ OnItsWay(n)'
  <2>1. Booking(n) => Booking(n)' \/ Standing(n)'
    BY WayKept
  <2>2. Settling(n) => Settling(n)' \/ Standing(n)'
    BY WayKept
  <2>3. Carried(n)
    BY <2>1, <2>2 DEF Carried
  <2> QED BY <2>3, AccountKept
<1> QED BY <1>1, <1>2 DEF Due

(* Rate, WriteDuplicate, Reinsert, the moves to them: no entry is written. *)
LEMMA RatingStep ==
  ASSUME Base, Due, RatedStays, NEW r \in Raters, \A p \in Raters \ {r} : rater'[p] = rater[p],
         \A n \in Messages : prices[n] \subseteq prices'[n],
         rater[r].pc \notin {"book", "settle"}, UNCHANGED <<close, unreserved, cut>>, Quoted(r)',
         \/ \A n \in Messages : Rated(n)' => Rated(n)
         \/ \E m \in Messages : /\ ~Charged(Conversation[m]) /\ Settling(m)'
                               /\ \A n \in Messages \ {m} : Rated(n)' => Rated(n)
  PROVE  Due'
<1>0. BooksStay
  BY SameBooks
<1>q. \A n \in Messages : UnreservedQuoted(n)' /\ (n \in cut => Standing(n)')
  BY DEF Due, UnreservedQuoted, Standing
<1>1. CASE \A n \in Messages : Rated(n)' => Rated(n)
  <2>1. OneRated'
    BY <1>1 DEF Due, OneRated
  <2> QED BY <1>0, <1>q, <1>1, <2>1, RaterStep
<1>2. ASSUME NEW m \in Messages, ~Charged(Conversation[m]), Settling(m)',
             \A n \in Messages \ {m} : Rated(n)' => Rated(n)
      PROVE  Due'
  <2>1. \A n \in Messages \ {m} : Rated(n)' => Conversation[n] # Conversation[m]
    BY <1>2 DEF Charged, Rated
  <2>2. OneRated'
    BY <1>2, <2>1 DEF Due, OneRated
  <2>3. \A n \in Messages : Rated(n)' => Rated(n) \/ Settling(n)'
    BY <1>2
  <2> QED BY <1>0, <1>q, <2>2, <2>3, RaterStep
<1> QED BY <1>1, <1>2

(* A message whose conversation is charged already is never rated itself. *)
LEMMA ChargedNever ==
  ASSUME RatedStays, NEW m \in Messages, cost[m] = Null, Charged(Conversation[m])
  PROVE  Never(m)'
<1>1. PICK n \in Messages : Conversation[n] = Conversation[m] /\ Rated(n)
  BY DEF Charged, Rated
<1>2. n # m
  BY <1>1 DEF Rated
<1> QED BY <1>1, <1>2 DEF RatedStays, Never

(* The ladder of rateMessage: a price is written only if the conversation  *)
(* has none, and then the rater goes on to settle it.                      *)
LEMMA DueRate ==
  ASSUME Base, Due, RatedStays, NEW r \in Raters, Rate(r) \/ WriteDuplicate(r) \/ Reinsert(r)
  PROVE  Due'
<1>0. PICK m \in Messages, cur \in Currencies \cup {NoCurrency}, amount \in Rates \cup {0} :
        m = rater[r].msg /\ cur = rater[r].cur /\ amount = rater[r].amount
  BY AtWork DEF Rate, WriteDuplicate, Reinsert
<1>1. RowsTyped /\ WorldTyped /\ Sound(r) /\ Quoted(r)
  BY DEF Base, Due
<1>2. rater[r].pc \in {"rate", "duplicate", "reinsert"} /\ UNCHANGED <<close, unreserved, billable, cut>>
  BY DEF Rate, WriteDuplicate, Reinsert, books, messages, history
<1>3. ASSUME NEW pc \in {"settle", "duplicate"}, NEW x \in Rates \cup {0}, Busy(r, pc, m, cur, x)
      PROVE  /\ rater'[r] = [pc |-> pc, msg |-> m, cur |-> cur, amount |-> x]
             /\ \A p \in Raters \ {r} : rater'[p] = rater[p]
  BY <1>1, <1>3 DEF Busy, WorldTyped
<1>4. ASSUME NEW pc \in {"settle", "duplicate"}, Busy(r, pc, m, cur, 0), UNCHANGED prices, Never(m)',
             \A n \in Messages : Rated(n)' => Rated(n)
      PROVE  Due'
  <2>0. /\ rater'[r] = [pc |-> pc, msg |-> m, cur |-> cur, amount |-> 0]
        /\ \A p \in Raters \ {r} : rater'[p] = rater[p]
    BY <1>1, <1>4 DEF Busy, WorldTyped
  <2>1. Quoted(r)'
    BY <1>4, <2>0 DEF Quoted
  <2> QED BY <1>2, <1>4, <2>0, <2>1, RatingStep
<1>5. ASSUME NEW state \in {"free", "unrated", "duplicate"},
             cost' = IF cost[m] = Null THEN [cost EXCEPT ![m] = [state |-> state, amount |-> 0]] ELSE cost
      PROVE  \A n \in Messages : Rated(n)' => Rated(n)
  <2>1. cost \in [Messages -> CostRow \cup {Null}]
    BY <1>1 DEF RowsTyped
  <2>2. \A n \in Messages : cost'[n] = cost[n] \/ cost'[n].state = state
    BY <1>5, <2>1
  <2>3. state # "rated"
    BY <1>5
  <2> QED BY <2>2, <2>3 DEF Rated
<1>6. ASSUME NEW x \in Rates, Busy(r, "settle", m, cur, x), cost[m] # Null \/ ~Charged(Conversation[m]),
             Prices(m, x),
             cost' = IF cost[m] = Null THEN [cost EXCEPT ![m] = [state |-> "rated", amount |-> x]] ELSE cost
      PROVE  Due'
  <2>0. /\ rater'[r] = [pc |-> "settle", msg |-> m, cur |-> cur, amount |-> x]
        /\ \A p \in Raters \ {r} : rater'[p] = rater[p]
    BY <1>1, <1>6 DEF Busy, WorldTyped
  <2>1. x \in prices'[m] /\ \A n \in Messages : prices[n] \subseteq prices'[n]
    BY <1>1, <1>6 DEF Prices, RowsTyped
  <2>2. Quoted(r)' /\ Settling(m)'
    BY <2>0, <2>1 DEF Quoted, Settling
  <2>3. CASE cost[m] # Null
    <3>1. \A n \in Messages : Rated(n)' => Rated(n)
      BY <1>6, <2>3 DEF Rated
    <3> QED BY <1>2, <2>0, <2>1, <2>2, <3>1, RatingStep
  <2>4. CASE cost[m] = Null /\ ~Charged(Conversation[m])
    <3>2. \A n \in Messages \ {m} : cost'[n] = cost[n]
      BY <1>1, <1>6 DEF RowsTyped
    <3>3. \A n \in Messages \ {m} : Rated(n)' => Rated(n)
      BY <3>2 DEF Rated
    <3> QED BY <1>2, <2>0, <2>1, <2>2, <2>4, <3>3, RatingStep
  <2> QED BY <1>6, <2>3, <2>4
<1>7. CASE Rate(r)
  <2>1. CASE billable[m] = "no"
    <3>1. cost' = (IF cost[m] = Null THEN [cost EXCEPT ![m] = [state |-> "free", amount |-> 0]] ELSE cost)
          /\ Busy(r, "settle", m, cur, 0) /\ UNCHANGED prices
      BY <1>0, <1>7, <2>1 DEF Rate
    <3>2. \A n \in Messages : Rated(n)' => Rated(n)
      BY <1>5, <3>1
    <3>4. Never(m)'
      BY <1>2, <2>1 DEF Never
    <3> QED BY <1>4, <3>1, <3>2, <3>4
  <2>2. CASE /\ cost' = IF cost[m] = Null THEN [cost EXCEPT ![m] = [state |-> "unrated", amount |-> 0]] ELSE cost
             /\ rater' = [rater EXCEPT ![r] = Idle] /\ UNCHANGED prices
    <3>1. \A n \in Messages : Rated(n)' => Rated(n)
      BY <1>5, <2>2
    <3>2. rater'[r] = Idle /\ \A p \in Raters \ {r} : rater'[p] = rater[p]
      BY <2>2, IdleTyped
    <3>3. Quoted(r)'
      BY <3>2 DEF Quoted, Idle
    <3> QED BY <1>2, <2>2, <3>1, <3>2, <3>3, RatingStep
  <2>3. CASE /\ rate # NoRate /\ Prices(m, rate)
             /\ cost[m] # Null \/ ~Charged(Conversation[m])
             /\ cost' = IF cost[m] = Null THEN [cost EXCEPT ![m] = [state |-> "rated", amount |-> rate]] ELSE cost
             /\ Busy(r, "settle", m, cur, rate)
    <3>1. rate \in Rates
      BY <1>1, <2>3 DEF WorldTyped
    <3> QED BY <1>6, <2>3, <3>1
  <2>4. CASE /\ cost[m] = Null /\ Charged(Conversation[m]) /\ Busy(r, "duplicate", m, cur, 0)
             /\ UNCHANGED <<cost, prices>>
    BY <1>4, <2>4, ChargedNever DEF Rated
  <2> QED BY <1>0, <1>7, <2>1, <2>2, <2>3, <2>4 DEF Rate
<1>8. CASE WriteDuplicate(r)
  <2>1. cost' = (IF cost[m] = Null THEN [cost EXCEPT ![m] = [state |-> "duplicate", amount |-> 0]] ELSE cost)
        /\ Busy(r, "settle", m, cur, 0) /\ UNCHANGED prices
    BY <1>0, <1>8 DEF WriteDuplicate, history
  <2>2. \A n \in Messages : Rated(n)' => Rated(n)
    BY <1>5, <2>1
  <2>4. Never(m)'
    BY <1>0, <1>1, <1>8 DEF WriteDuplicate, Quoted, RatedStays
  <2> QED BY <1>4, <2>1, <2>2, <2>4
<1>9. CASE Reinsert(r)
  <2>1. amount \in Rates
    BY <1>0, <1>1, <1>9 DEF Reinsert, Sound
  <2>2. CASE cost[m] = Null /\ Charged(Conversation[m])
    <3>1. Busy(r, "duplicate", m, cur, 0) /\ UNCHANGED <<cost, prices>>
      BY <1>0, <1>9, <2>2 DEF Reinsert
    <3> QED BY <1>4, <2>2, <3>1, ChargedNever DEF Rated
  <2>3. CASE ~(cost[m] = Null /\ Charged(Conversation[m]))
    BY <1>0, <1>6, <1>9, <2>1, <2>3 DEF Reinsert
  <2> QED BY <2>2, <2>3
<1> QED BY <1>7, <1>8, <1>9

(* settleFromRating at a price: the close takes the charge to the books,   *)
(* or the rater goes on to book it apart, or a settle was there before.    *)
LEMMA SettleEnds ==
  ASSUME Base, Base', Due, NEW r \in Raters, Settle(r), NEW m \in Messages, m = rater[r].msg,
         rater[r].amount \in prices[m]
  PROVE  \/ Accounted(m)' \/ Booking(m)'
         \/ close[m] # Null /\ close[m].kind = "settle" /\ UNCHANGED <<close, unreserved, cut>>
<1>0. PICK cur \in Currencies \cup {NoCurrency}, amount \in Rates \cup {0} :
        cur = rater[r].cur /\ amount = rater[r].amount
  BY AtWork DEF Settle
<1>1. RowsTyped /\ WorldTyped /\ Sound(r) /\ Consistent(m) /\ UnreservedQuoted(m)
  BY DEF Base, Due
<1>2. amount \in Nat /\ amount \in prices[m] /\ UNCHANGED <<prices, unreserved, reserve>>
  BY <1>0, AmountsNatural DEF Settle
<1>4. amount # 0 => cur # NoCurrency
  BY <1>0, <1>1 DEF Sound, Settle
<1>6. ASSUME LeavesChargeUnbooked(CloseResult(m, "settle", cur)), amount # 0 PROVE Booking(m)'
  <2>1. amount > 0
    BY <1>2, <1>6
  <2>2. Busy(r, "book", m, cur, amount)
    BY <1>0, <1>4, <1>6, <2>1 DEF Settle
  <2>3. rater'[r] = [pc |-> "book", msg |-> m, cur |-> cur, amount |-> amount]
    BY <1>1, <2>2 DEF Busy, WorldTyped
  <2> QED BY <2>3 DEF Booking
<1>9. CASE Open(m)
  <2>1. CloseOpen(m, "settle", amount, cur)
    BY <1>0, <1>9 DEF Settle
  <2>2. OnBooks(m)' = IF ~OtherCurrency(m, "settle", cur) THEN amount ELSE 0
    BY <1>2, <1>9, <2>1, ClosedCharged
  <2>3. CASE ~OtherCurrency(m, "settle", cur) \/ amount = 0
    BY <1>2, <2>2, <2>3 DEF Accounted
  <2>4. CASE OtherCurrency(m, "settle", cur) /\ amount # 0
    BY <1>6, <1>9, <2>4 DEF CloseResult, LeavesChargeUnbooked, Open
  <2> QED BY <2>3, <2>4
<1>10. CASE ~Open(m)
  <2>1. UNCHANGED close
    BY <1>0, <1>10 DEF Settle
  <2>2. OnBooks(m)' = OnBooks(m)
    BY <1>2, <2>1 DEF OnBooks
  <2>3. CASE reserve[m] = Null \/ (close[m] # Null /\ close[m].kind = "release")
    <3>1. CASE amount # 0
      <4>1. CloseResult(m, "settle", cur) \in {"no_reservation", "already_released"}
        BY <1>10, <2>3 DEF CloseResult, Open
      <4> QED BY <1>6, <3>1, <4>1 DEF LeavesChargeUnbooked
    <3>2. CASE amount = 0
      <4>1. CASE unreserved[m] = Null
        <5>1. OnBooks(m) = 0
          BY <1>1, <2>3, <4>1, ChargedClosed DEF Consistent
        <5> QED BY <1>2, <2>2, <3>2, <5>1 DEF Accounted
      <4>2. CASE unreserved[m] # Null
        BY <1>1, <1>2, <2>2, <4>2, ChargedApart DEF Accounted, UnreservedQuoted
      <4> QED BY <4>1, <4>2
    <3> QED BY <3>1, <3>2
  <2>4. CASE reserve[m] # Null /\ ~(close[m] # Null /\ close[m].kind = "release")
    <3>1. close[m] # Null /\ close[m].kind = "settle"
      <4>1. close[m] # Null
        BY <1>10, <2>4 DEF Open
      <4>2. close[m] \in Closing
        BY <1>1, <4>1 DEF RowsTyped
      <4> QED BY <2>4, <4>1, <4>2 DEF Closing
    <3>2. CloseResult(m, "settle", cur) = "already_settled"
      BY <1>10, <2>4, <3>1 DEF CloseResult
    <3>3. UNCHANGED cut
      BY <1>0, <3>2 DEF Settle
    <3> QED BY <1>2, <2>1, <3>1, <3>3
  <2> QED BY <2>3, <2>4
<1> QED BY <1>9, <1>10

LEMMA DueSettle ==
  ASSUME Base, Base', Due, RatedStays, NEW r \in Raters, Settle(r)
  PROVE  Due'
<1>0. PICK m \in Messages, cur \in Currencies \cup {NoCurrency}, amount \in Rates \cup {0} :
        m = rater[r].msg /\ cur = rater[r].cur /\ amount = rater[r].amount
  BY AtWork DEF Settle
<1>1. RowsTyped /\ WorldTyped /\ Sound(r) /\ Quoted(r) /\ rater[r].pc = "settle"
  BY DEF Base, Due, Settle
<1>2. UNCHANGED <<cost, unreserved, prices, billable>>
  BY DEF Settle, messages
<1>3. amount \in prices[m] \/ (amount = 0 /\ Never(m))
  BY <1>0, <1>1 DEF Quoted
<1>5. /\ \A p \in Raters \ {r} : rater'[p] = rater[p]
      /\ rater'[r] = Idle \/ (rater'[r] = [pc |-> "book", msg |-> m, cur |-> cur, amount |-> amount] /\ amount # 0)
  <2>1. CASE rater' = [rater EXCEPT ![r] = Idle]
    BY <2>1, IdleTyped
  <2>2. CASE Busy(r, "book", m, cur, amount) /\ amount > 0
    <3>1. rater'[r] = [pc |-> "book", msg |-> m, cur |-> cur, amount |-> amount]
          /\ \A p \in Raters \ {r} : rater'[p] = rater[p]
      BY <2>2, BusyTyped
    <3> QED BY <2>2, <3>1
  <2> QED BY <1>0, <2>1, <2>2 DEF Settle
<1>6. Quoted(r)'
  BY <1>2, <1>3, <1>5 DEF Quoted, Idle, Base, OneRated
<1>8. OneRated' /\ \A n \in Messages : Rated(n)' => Rated(n)
  BY <1>2 DEF Due, OneRated, Rated
<1>9. BooksStay /\ \A n \in Messages \ {m} : close'[n] = close[n]
  <2>1. CASE Open(m)
    <3>1. CloseOpen(m, "settle", amount, cur)
      BY <1>0, <2>1 DEF Settle
    <3>2. \A n \in Messages \ {m} : close'[n] = close[n]
      BY <2>1, <3>1, CloseTyped
    <3> QED BY <1>2, <1>3, <2>1, <3>1, <3>2, ClosingKeeps
  <2>2. CASE ~Open(m)
    <3>1. UNCHANGED close
      BY <1>0, <2>2 DEF Settle
    <3> QED BY <1>2, <3>1, SameBooks
  <2> QED BY <2>1, <2>2
<1>10. Standing(m)'
  <2>1. CASE Never(m)
    BY <2>1 DEF RatedStays, Standing
  <2>2. CASE amount \in prices[m]
    <3>1. CASE Accounted(m)' \/ Booking(m)'
      BY <3>1 DEF Standing
    <3>2. CASE close[m] # Null /\ close[m].kind = "settle" /\ UNCHANGED <<close, unreserved, cut>>
      <4>1. Standing(m)
        BY <3>2 DEF Due, SettledSound
      <4>2. Booking(m) => Booking(m)'
        BY <1>1, <1>2, <1>5, WayKept
      <4> QED BY <1>9, <3>2, <4>1, <4>2 DEF Standing, BooksStay, RatedStays
    <3> QED BY <1>0, <2>2, <3>1, <3>2, SettleEnds
  <2> QED BY <1>3, <2>1, <2>2
<1>11. \A n \in Messages \ {m} : n \in cut => Standing(n)'
  <2>1. cut \ {m} \subseteq cut'
    BY <1>0 DEF Settle
  <2> QED BY <2>1 DEF Standing
<1>12. \A n \in Messages : UnreservedQuoted(n)'
  BY <1>2 DEF Due, UnreservedQuoted
<1>13. \A n \in Messages : rater[r].msg = n => n = m
  BY <1>0
<1> QED BY <1>1, <1>2, <1>5, <1>6, <1>8, <1>9, <1>10, <1>11, <1>12, <1>13, RaterStep

(* recordUnreservedActual books the charge apart, or finds it booked. *)
LEMMA DueBook ==
  ASSUME Base, Base', Due, RatedStays, NEW r \in Raters, Book(r)
  PROVE  Due'
<1>0. PICK m \in Messages, cur \in Currencies \cup {NoCurrency}, amount \in Rates \cup {0} :
        m = rater[r].msg /\ cur = rater[r].cur /\ amount = rater[r].amount
  BY AtWork DEF Book
<1>1. RowsTyped /\ WorldTyped /\ Sound(r) /\ Quoted(r) /\ rater[r].pc = "book"
  BY DEF Base, Due, Book
<1>2. UNCHANGED <<cost, close, reserve, prices, billable>> /\ cut' = cut \ {m}
  BY <1>0 DEF Book, messages
<1>3. amount \in prices[m] /\ cur \in Currencies /\ amount \in Rates
  BY <1>0, <1>1 DEF Quoted, Sound
<1>4. rater'[r] = Idle /\ \A p \in Raters \ {r} : rater'[p] = rater[p]
  BY IdleTyped DEF Book
<1>5. Quoted(r)' /\ OneRated' /\ \A n \in Messages : Rated(n)' => Rated(n)
  BY <1>2, <1>4 DEF Quoted, Idle, Due, OneRated, Rated
<1>6. /\ \A n \in Messages \ {m} : unreserved'[n] = unreserved[n]
      /\ unreserved'[m] # Null /\ UnreservedQuoted(m)'
  <2>1. CASE unreserved[m] = Null
    <3>1. PICK one \in Entry : one = [currency |-> cur, month |-> month, amount |-> amount]
      BY <1>1, <1>3, EntryTyped DEF WorldTyped
    <3>2. unreserved' = [unreserved EXCEPT ![m] = one]
      BY <1>0, <2>1, <3>1 DEF Book
    <3>3. unreserved'[m] = one /\ one # Null /\ one.amount = amount
      BY <1>1, <3>1, <3>2, SpendCapAssumption DEF RowsTyped, Entry
    <3> QED BY <1>1, <1>2, <1>3, <3>2, <3>3 DEF RowsTyped, UnreservedQuoted
  <2>2. CASE unreserved[m] # Null
    BY <1>0, <1>2, <2>2 DEF Book, Due, UnreservedQuoted
  <2> QED BY <2>1, <2>2
<1>7. Accounted(m)'
  <2>1. unreserved'[m].amount \in prices'[m]
    BY <1>6 DEF UnreservedQuoted
  <2>2. OnBooks(m)' = unreserved'[m].amount
    <3>1. unreserved'[m] \in Entry /\ (close'[m] # Null => close'[m].amount = 0)
      BY <1>6 DEF Base, RowsTyped, Apart, Consistent
    <3>2. unreserved'[m].amount \in Nat
      BY <3>1, AmountsNatural DEF Entry
    <3> QED BY <1>6, <3>1, <3>2 DEF OnBooks
  <2> QED BY <2>1, <2>2 DEF Accounted
<1>8. BooksStay
  <2>1. \A n \in Messages \ {m} : Accounted(n) => Accounted(n)'
    BY <1>2, <1>6 DEF Accounted, OnBooks
  <2> QED BY <1>7, <2>1 DEF BooksStay
<1>9. \A n \in Messages : UnreservedQuoted(n)' /\ (n \in cut => Standing(n)')
  BY <1>2, <1>6, <1>7 DEF Due, UnreservedQuoted, Standing
<1>10. Standing(m)' /\ \A n \in Messages : rater[r].msg = n => n = m
  BY <1>0, <1>7 DEF Standing
<1> QED BY <1>1, <1>2, <1>4, <1>5, <1>8, <1>9, <1>10, RaterStep

LEMMA DueStep ==
  ASSUME Base, Base', Due, [Next]_vars, RatedStays
  PROVE  Due'
<1> USE DEF books, messages, world, history
<1>0. RowsTyped /\ WorldTyped
  BY DEF Base
<1>1. CASE \/ UNCHANGED vars \/ WorldChanges \/ \E c \in Currencies, l \in Limits : SetCap(c, l)
           \/ \E m \in Messages : Reply(m) \/ Reserve(m) \/ Answer(m)
  <2>1. UNCHANGED <<rater, cost, close, unreserved, prices, cut>>
    BY <1>1 DEF vars, WorldChanges, SetCap, Reply, Reserve, Answer
  <2> QED BY <2>1, QuietStep, SameBooks
<1>2. ASSUME NEW m \in Messages, ReleaseRefused(m) PROVE Due'
  <2>1. UNCHANGED <<rater, cost, unreserved, prices, cut>>
    BY <1>2 DEF ReleaseRefused
  <2>2. \A n \in Messages : close'[n] = close[n] \/ close'[n].kind = "release"
    BY <1>2, CloseTyped DEF ReleaseRefused
  <2>3. BooksStay
    BY <1>2, <2>1, ClosingKeeps, SameBooks DEF ReleaseRefused
  <2> QED BY <2>1, <2>2, <2>3, QuietStep
<1>3. ASSUME NEW r \in Raters, NEW m \in Messages, Receipt(r, m) \/ Backfill(r, m) \/ FindStale(r, m) \/ ReRate(r, m)
      PROVE  Due'
  <2>1. /\ rater'[r].pc \in {"rate", "release", "reinsert"}
        /\ \A p \in Raters \ {r} : rater'[p] = rater[p]
    BY <1>0, <1>3 DEF Receipt, Backfill, FindStale, ReRate, Busy, WorldTyped
  <2>2. rater[r].pc = "idle" /\ UNCHANGED <<close, unreserved, prices, cut>>
    BY <1>3 DEF Receipt, Backfill, FindStale, ReRate, Idle
  <2>3. cost' = cost \/ cost' = [cost EXCEPT ![m] = Null]
    BY <1>3 DEF Receipt, Backfill, FindStale, ReRate
  <2>4. \A n \in Messages : cost'[n] = cost[n] \/ cost'[n] = Null
    BY <1>0, <2>3 DEF RowsTyped
  <2>5. \A n \in Messages : Rated(n)' => Rated(n)
    BY <2>4 DEF Rated
  <2>6. Quoted(r)'
    BY <2>1 DEF Quoted
  <2> QED BY <2>1, <2>2, <2>5, <2>6, RatingStep
<1>4. ASSUME NEW r \in Raters, ReleaseStale(r) \/ Die(r) PROVE Due'
  <2>1. rater'[r] = Idle /\ \A p \in Raters \ {r} : rater'[p] = rater[p]
    BY <1>4, IdleTyped DEF ReleaseStale, Die
  <2>3. UNCHANGED <<cost, unreserved, prices>>
    BY <1>4 DEF ReleaseStale, Die
  <2>2. Quoted(r)' /\ \A n \in Messages : UnreservedQuoted(n)'
    BY <2>1, <2>3 DEF Quoted, Idle, Due, UnreservedQuoted
  <2>4. OneRated' /\ \A n \in Messages : Rated(n)' => Rated(n)
    BY <2>3 DEF Due, OneRated, Rated
  <2>5. PICK m \in Messages : m = rater[r].msg
    <3>1. rater[r].pc # "idle"
      BY <1>4 DEF ReleaseStale, Die, Base, Sound
    <3> QED BY <3>1, AtWork
  <2>6. BooksStay /\ \A n \in Messages : close'[n] = close[n] \/ close'[n].kind = "release"
    <3>1. CASE ReleaseStale(r)
      BY <2>3, <2>5, <3>1, CloseTyped, ClosingKeeps, SameBooks DEF ReleaseStale
    <3>2. CASE Die(r)
      BY <2>3, <3>2, SameBooks DEF Die
    <3> QED BY <1>4, <3>1, <3>2
  <2>7. /\ rater[r].pc \in {"book", "settle"} => Standing(m)'
        /\ \A n \in Messages : n \in cut => Standing(n)'
    BY <1>4, <2>5 DEF ReleaseStale, Die, Standing
  <2>8. \A n \in Messages : rater[r].msg = n => n = m
    BY <2>5
  <2> QED BY <2>1, <2>2, <2>3, <2>4, <2>6, <2>7, <2>8, RaterStep
<1> QED BY <1>1, <1>2, <1>3, <1>4, DueRate, DueSettle, DueBook DEF Next, Step

LEMMA DueInit == Init => Due
BY DEF Init, Due, OneRated, SettledSound, OnItsWay, UnreservedQuoted, Rated, Quoted, Idle

LEMMA DueAlways == Spec => [](Base /\ Due)
<1>1. Base /\ Due /\ [Next]_vars => Base' /\ Due'
  BY KeepsStep, BaseStep, RatedStaysStep, DueStep
<1> QED BY <1>1, BaseInit, DueInit, PTL DEF Spec

(* A rated message is on the books at a price one of its receipts was      *)
(* rated at once its raters are through, for any number of receipts,       *)
(* backfill passes, prices (zero among them) and conversations, and though *)
(* raters die between the cost row and the ledger: unless no receipt came  *)
(* after that, or the dead rater had closed the hold in another currency   *)
(* (settleFromRating, closeReservation, recordUnreservedActual).           *)
THEOREM RatedBooked == Spec => []RatedIsBooked
<1>1. ASSUME Base, Due PROVE RatedIsBooked
  <2>1. SUFFICES ASSUME NEW m \in Messages, Rated(m), m \notin cut, \A r \in Raters : rater[r].msg # m
                 PROVE  OnBooks(m) \in prices[m]
    BY DEF RatedIsBooked, Rated
  <2>2. ~Never(m)
    BY <1>1, <2>1 DEF Base, Due, Consistent, OneRated, Rated, Never
  <2> QED BY <1>1, <2>1, <2>2 DEF Due, OnItsWay, Settling, Standing, Booking, Accounted
<1> QED BY <1>1, DueAlways, PTL
=============================================================================
