--------------------------- MODULE CfbFileProofs ----------------------------
(***************************************************************************)
(* Theorems about module CfbFile for every geometry, every length of the   *)
(* streams and every package, hence every number of FAT and DIFAT sectors. *)
(*                                                                         *)
(* The argument follows the phases of makeLayout and then those of the     *)
(* constructor of CompoundFile.  Each phase adds a conjunct "once pc is    *)
(* past it, ..." to the invariant FileInv: what the writer has placed,     *)
(* counted and tabled (WriterInv), which contents are in the file          *)
(* (Written), and then, of the reader, that the list of FAT sectors, the   *)
(* header, the two tables, the entries, the mini stream and the contents   *)
(* are the writer's.  A phase is entered by one step only and left for     *)
(* later ones (Flow), and no step changes what an earlier phase made.      *)
(*                                                                         *)
(* What the recursive functions of the model compute (ChainBegin, Chain,   *)
(* MiniPos, SectorCounts, Keep) is shown by induction over a set of        *)
(* naturals (NatSetInduction): such a set is closed under +1, or its least *)
(* missing element is a contradiction.                                     *)
(*                                                                         *)
(* That the writer never gives up needs one thing more: detectSectorNum's  *)
(* loop must come to a round that changes nothing.  A round that moves the *)
(* pair by at most 2 * Farther(e) sectors moves it by at most 2 * e the    *)
(* next time (NarrowsTotal), so a content of at most Reach sectors moves   *)
(* it by two sectors at most in the eighth, and two rounds later nothing   *)
(* changes (Settles, CountsSettle); then the FAT has a word for every      *)
(* sector (CountsFit).                                                     *)
(***************************************************************************)
EXTENDS CfbFile, WellFoundedInduction, SequenceTheorems, FiniteSetTheorems, TLAPS

-----------------------------------------------------------------------------
(* Naturals *)

LEMMA NatSetInduction ==
    ASSUME NEW S, 0 \in S, \A n \in Nat : n \in S => n + 1 \in S
    PROVE  Nat \subseteq S
  <1> DEFINE R == OpToRel(<, Nat)
             T == Nat \ S
  <1>1. IsWellFoundedOn(R, Nat)
    BY NatLessThanWellFounded
  <1>2. \A x, y \in Nat : y < x => <<y, x>> \in R
    BY DEF OpToRel
  <1>3. CASE T # {}
    <2>1. PICK x \in T : \A y \in T : ~ (<<y, x>> \in R)
      <3>1. T \subseteq Nat
        OBVIOUS
      <3> HIDE DEF R, T
      <3> QED
        BY <1>1, <1>3, <3>1, WFMin
    <2>2. x \in Nat /\ x # 0 /\ x - 1 \in Nat /\ x - 1 < x
      OBVIOUS
    <2>3. x - 1 \in T
      BY <2>2
    <2> QED
      BY <1>2, <2>1, <2>2, <2>3
  <1> QED
    BY <1>3

LEMMA DivMod ==
    ASSUME NEW n \in Nat, NEW b \in Nat, b > 0
    PROVE  /\ n \div b \in Nat /\ n % b \in Nat /\ n % b < b
           /\ n = ((n \div b) * b) + (n % b)
  OBVIOUS

LEMMA Times ==
    ASSUME NEW s \in Nat, NEW t \in Nat, NEW b \in Nat
    PROVE  /\ s * b \in Nat
           /\ (s + 1) * b = s * b + b
           /\ s < t => s * b + b <= t * b
  <1>1. s * b \in Nat /\ (s + 1) * b = s * b + b
    OBVIOUS
  <1>2. ASSUME s < t PROVE (s + 1) * b <= t * b
    <2>1. s + 1 <= t
      BY <1>2
    <2> QED
      BY <2>1
  <1> QED
    BY <1>1, <1>2

\* getBlockNum rounds up.
LEMMA BlockNumFacts ==
    ASSUME NEW n \in Nat, NEW b \in Nat, b > 0
    PROVE  /\ BlockNum(n, b) \in Nat /\ BlockNum(n, b) * b \in Nat
           /\ n <= BlockNum(n, b) * b
           /\ n > 0 => BlockNum(n, b) > 0
  <1>1. n + b - 1 \in Nat
    OBVIOUS
  <1> DEFINE q == (n + b - 1) \div b
  <1>2. q \in Nat /\ (n + b - 1) % b \in Nat /\ (n + b - 1) % b < b /\ n + b - 1 = (q * b) + ((n + b - 1) % b)
    BY <1>1, DivMod
  <1>3. q = BlockNum(n, b)
    BY DEF BlockNum
  <1> HIDE DEF q
  <1>4. q * b \in Nat
    BY <1>2, Times
  <1>5. n <= q * b
    BY <1>2, <1>4
  <1>6. n > 0 => q > 0
    BY <1>2, <1>5
  <1> QED
    BY <1>2, <1>3, <1>4, <1>5, <1>6

-----------------------------------------------------------------------------
(* Chains *)

\* The function that Chain chooses, on the sectors from m on.
ChainsFrom(c, t, m, n) ==
    c = [x \in m .. n - 1 |->
            IF t[x] \in DOMAIN t /\ t[x] > x THEN <<x>> \o c[t[x]] ELSE <<x>>]

\* A table of n words has one: its chains ascend.
LEMMA ChainUnfolds ==
    ASSUME NEW n \in Nat, NEW t, DOMAIN t = 0 .. n - 1, NEW s \in 0 .. n - 1
    PROVE  \E c : ChainsFrom(c, t, 0, n) /\ Chain(t, s) = c[s]
  <1> DEFINE S == {k \in Nat : k <= n => \E c : ChainsFrom(c, t, n - k, n)}
  <1>1. 0 \in S
    <2> DEFINE c == [x \in n .. n - 1 |-> <<>>]
    <2>1. ChainsFrom(c, t, n - 0, n)
      BY DEF ChainsFrom
    <2> QED
      BY <2>1
  <1>2. ASSUME NEW k \in Nat, k \in S PROVE k + 1 \in S
    <2> SUFFICES ASSUME k + 1 <= n PROVE \E c : ChainsFrom(c, t, n - (k + 1), n)
      OBVIOUS
    <2>1. PICK c : ChainsFrom(c, t, n - k, n)
      BY <1>2
    <2> DEFINE m == n - (k + 1)
               d == [x \in m .. n - 1 |->
                        IF t[x] \in DOMAIN t /\ t[x] > x THEN <<x>> \o c[t[x]] ELSE <<x>>]
    <2>2. m \in Nat /\ n - k = m + 1
      OBVIOUS
    <2>3. \A x \in m + 1 .. n - 1 : d[x] = c[x]
      <3>1. \A x \in n - k .. n - 1 :
               c[x] = IF t[x] \in DOMAIN t /\ t[x] > x THEN <<x>> \o c[t[x]] ELSE <<x>>
        BY <2>1 DEF ChainsFrom
      <3>2. \A x \in m .. n - 1 :
               d[x] = IF t[x] \in DOMAIN t /\ t[x] > x THEN <<x>> \o c[t[x]] ELSE <<x>>
        OBVIOUS
      <3> HIDE DEF d, m
      <3>3. \A x \in m + 1 .. n - 1 : x \in m .. n - 1 /\ x \in n - k .. n - 1
        BY <2>2
      <3> QED
        BY <3>1, <3>2, <3>3, Zenon
    <2>4. \A x \in m .. n - 1 :
             d[x] = IF t[x] \in DOMAIN t /\ t[x] > x THEN <<x>> \o d[t[x]] ELSE <<x>>
      <3> SUFFICES ASSUME NEW x \in m .. n - 1
                   PROVE  d[x] = IF t[x] \in DOMAIN t /\ t[x] > x THEN <<x>> \o d[t[x]] ELSE <<x>>
        OBVIOUS
      <3>1. d[x] = IF t[x] \in DOMAIN t /\ t[x] > x THEN <<x>> \o c[t[x]] ELSE <<x>>
        OBVIOUS
      <3> HIDE DEF d
      <3>2. CASE t[x] \in DOMAIN t /\ t[x] > x
        <4>1. t[x] \in m + 1 .. n - 1
          BY <2>2, <3>2
        <4>2. d[t[x]] = c[t[x]]
          BY <2>3, <4>1
        <4> QED
          BY <3>1, <3>2, <4>2
      <3>3. CASE ~ (t[x] \in DOMAIN t /\ t[x] > x)
        BY <3>1, <3>3
      <3> QED
        BY <3>2, <3>3
    <2>5. d = [x \in m .. n - 1 |-> d[x]]
      OBVIOUS
    <2> HIDE DEF d
    <2>6. ChainsFrom(d, t, m, n)
      BY <2>4, <2>5 DEF ChainsFrom
    <2> QED
      BY <2>6
  <1>3. n \in S
    <2> HIDE DEF S
    <2>1. Nat \subseteq S
      BY <1>1, <1>2, NatSetInduction
    <2> QED
      BY <2>1
  <1> DEFINE Chosen == CHOOSE c : ChainsFrom(c, t, 0, n)
  <1>4. ChainsFrom(Chosen, t, 0, n)
    BY <1>3
  <1>5. Chain(t, s) = Chosen[s]
    BY DEF Chain, ChainsFrom
  <1> QED
    BY <1>4, <1>5

\* A run of the table: every word but the last leads to the next sector.
IsRun(t, p, l) ==
    /\ \A x \in p .. p + l - 2 : t[x] = x + 1
    /\ t[p + l - 1] = ENDOFCHAIN
\* Its chain.
RunFrom(p, l) == [k \in 1 .. l |-> p + k - 1]

LEMMA RunFacts ==
    ASSUME NEW p \in Nat, NEW l \in Nat
    PROVE  /\ RunFrom(p, l) \in Seq(Nat) /\ Len(RunFrom(p, l)) = l
           /\ DOMAIN RunFrom(p, l) = 1 .. l
           /\ \A k \in 1 .. l : RunFrom(p, l)[k] = p + k - 1
  BY DEF RunFrom

LEMMA RunGrows ==
    ASSUME NEW p \in Nat, NEW l \in Nat
    PROVE  <<p>> \o RunFrom(p + 1, l) = RunFrom(p, l + 1)
  <1>1. RunFrom(p + 1, l) \in Seq(Nat) /\ Len(RunFrom(p + 1, l)) = l
        /\ \A k \in 1 .. l : RunFrom(p + 1, l)[k] = (p + 1) + k - 1
    BY RunFacts
  <1>2. RunFrom(p, l + 1) \in Seq(Nat) /\ Len(RunFrom(p, l + 1)) = l + 1
        /\ \A k \in 1 .. l + 1 : RunFrom(p, l + 1)[k] = p + k - 1
    BY RunFacts
  <1> DEFINE a == RunFrom(p + 1, l)
             b == RunFrom(p, l + 1)
  <1> HIDE DEF a, b
  <1>3. a \in Seq(Nat) /\ Len(a) = l /\ \A k \in 1 .. l : a[k] = p + k
    BY <1>1 DEF a
  <1>4. b \in Seq(Nat) /\ Len(b) = l + 1 /\ \A k \in 1 .. l + 1 : b[k] = p + k - 1
    BY <1>2 DEF b
  <1>5. <<p>> \o a \in Seq(Nat) /\ Len(<<p>> \o a) = l + 1
    BY <1>3
  <1>6. \A k \in 1 .. l + 1 : (<<p>> \o a)[k] = b[k]
    BY <1>3, <1>4
  <1>7. <<p>> \o a = b
    <2> DEFINE ab == <<p>> \o a
    <2> HIDE DEF ab
    <2>1. ab \in Seq(Nat) /\ Len(ab) = l + 1 /\ \A k \in 1 .. l + 1 : ab[k] = b[k]
      BY <1>5, <1>6 DEF ab
    <2>2. ab = b
      BY <1>4, <2>1
    <2> QED
      BY <2>2 DEF ab
  <1> QED
    BY <1>7 DEF a, b

LEMMA RunsJoin ==
    ASSUME NEW p \in Nat, NEW m \in Nat, NEW l \in Nat
    PROVE  RunFrom(p, m) \o RunFrom(p + m, l) = RunFrom(p, m + l)
  <1> DEFINE a == RunFrom(p, m)
             b == RunFrom(p + m, l)
             c == RunFrom(p, m + l)
  <1>1. a \in Seq(Nat) /\ Len(a) = m /\ \A k \in 1 .. m : a[k] = p + k - 1
    BY RunFacts
  <1>2. b \in Seq(Nat) /\ Len(b) = l /\ \A k \in 1 .. l : b[k] = (p + m) + k - 1
    <2>1. p + m \in Nat
      OBVIOUS
    <2> QED
      BY <2>1, RunFacts
  <1>3. c \in Seq(Nat) /\ Len(c) = m + l /\ \A k \in 1 .. m + l : c[k] = p + k - 1
    <2>1. m + l \in Nat
      OBVIOUS
    <2> QED
      BY <2>1, RunFacts
  <1> HIDE DEF a, b, c
  <1> DEFINE ab == a \o b
  <1>0. a \in Seq(Nat) /\ b \in Seq(Nat) /\ Len(a) = m /\ Len(b) = l
    BY <1>1, <1>2
  <1>4. ab \in Seq(Nat) /\ Len(ab) = m + l
    <2>1. ab \in Seq(Nat)
      BY <1>0, ConcatProperties, Zenon
    <2>2. Len(ab) = Len(a) + Len(b)
      BY <1>0, ConcatProperties, Zenon
    <2> QED
      BY <1>0, <2>1, <2>2
  <1>5. \A k \in 1 .. m + l : ab[k] = IF k <= m THEN a[k] ELSE b[k - m]
    <2>1. \A k \in 1 .. Len(a) + Len(b) : ab[k] = IF k <= Len(a) THEN a[k] ELSE b[k - Len(a)]
      BY <1>0, ConcatProperties, Zenon
    <2> QED
      BY <1>0, <2>1
  <1> HIDE DEF ab
  <1>6. \A k \in 1 .. m + l : ab[k] = c[k]
    <2> SUFFICES ASSUME NEW k \in 1 .. m + l PROVE ab[k] = c[k]
      OBVIOUS
    <2>1. CASE k <= m
      <3>1. k \in 1 .. m
        BY <2>1
      <3> QED
        BY <1>1, <1>3, <1>5, <2>1, <3>1
    <2>2. CASE ~(k <= m)
      <3>1. k - m \in 1 .. l
        BY <2>2
      <3>2. ab[k] = b[k - m] /\ b[k - m] = (p + m) + (k - m) - 1 /\ c[k] = p + k - 1
        BY <1>2, <1>3, <1>5, <2>2, <3>1
      <3> QED
        BY <3>2
    <2> QED
      BY <2>1, <2>2
  <1>7. ab = c
    BY <1>3, <1>4, <1>6
  <1> QED
    BY <1>7 DEF ab, a, b, c

LEMMA ChainOfRun ==
    ASSUME NEW n \in Nat, NEW t, DOMAIN t = 0 .. n - 1,
           NEW p \in Nat, NEW l \in Nat, l > 0, p + l <= n, IsRun(t, p, l)
    PROVE  Chain(t, p) = RunFrom(p, l)
  <1>1. PICK c : ChainsFrom(c, t, 0, n) /\ Chain(t, p) = c[p]
    BY ChainUnfolds
  <1>2. \A x \in 0 .. n - 1 :
           c[x] = IF t[x] \in DOMAIN t /\ t[x] > x THEN <<x>> \o c[t[x]] ELSE <<x>>
    BY <1>1 DEF ChainsFrom
  <1> DEFINE S == {k \in Nat : k < l => c[p + l - 1 - k] = RunFrom(p + l - 1 - k, k + 1)}
  <1>3. 0 \in S
    <2>1. c[p + l - 1] = <<p + l - 1>>
      <3> DEFINE x == p + l - 1
      <3>1. x \in 0 .. n - 1
        OBVIOUS
      <3>2. t[x] = -2
        BY DEF IsRun, ENDOFCHAIN
      <3> HIDE DEF x
      <3>3. ~ (t[x] \in DOMAIN t /\ t[x] > x)
        BY <3>1, <3>2
      <3>4. c[x] = <<x>>
        BY <1>2, <3>1, <3>3
      <3> QED
        BY <3>4 DEF x
    <2>2. RunFrom(p + l - 1, 1) = <<p + l - 1>>
      <3> DEFINE q == p + l - 1
      <3>1. q \in Nat
        OBVIOUS
      <3> HIDE DEF q
      <3>2. RunFrom(q, 1) = [k \in 1 .. 1 |-> q]
        BY <3>1 DEF RunFrom
      <3>3. RunFrom(q, 1) = <<q>>
        BY <3>1, <3>2
      <3> QED
        BY <3>3 DEF q
    <2> QED
      BY <2>1, <2>2
  <1>4. ASSUME NEW k \in Nat, k \in S PROVE k + 1 \in S
    <2> SUFFICES ASSUME k + 1 < l
                 PROVE  c[p + l - 1 - (k + 1)] = RunFrom(p + l - 1 - (k + 1), (k + 1) + 1)
      OBVIOUS
    <2> DEFINE x == p + l - 1 - (k + 1)
    <2>1. x \in Nat /\ x \in 0 .. n - 1 /\ x \in p .. p + l - 2 /\ x + 1 = p + l - 1 - k /\ x + 1 \in 0 .. n - 1
      OBVIOUS
    <2>2. c[x + 1] = RunFrom(x + 1, k + 1)
      BY <1>4, <2>1
    <2> HIDE DEF x
    <2>3. t[x] = x + 1
      BY <2>1 DEF IsRun
    <2>4. c[x] = <<x>> \o c[x + 1]
      <3>1. t[x] \in DOMAIN t /\ t[x] > x
        BY <2>1, <2>3
      <3>2. c[x] = <<x>> \o c[t[x]]
        BY <1>2, <2>1, <3>1
      <3> QED
        BY <2>3, <3>2
    <2>5. c[x] = RunFrom(x, (k + 1) + 1)
      <3>1. k + 1 \in Nat
        OBVIOUS
      <3>2. <<x>> \o RunFrom(x + 1, k + 1) = RunFrom(x, (k + 1) + 1)
        BY <2>1, <3>1, RunGrows
      <3> QED
        BY <2>2, <2>4, <3>2
    <2> QED
      BY <2>5 DEF x
  <1>5. Nat \subseteq S
    <2> HIDE DEF S
    <2> QED
      BY <1>3, <1>4, NatSetInduction
  <1>6. l - 1 \in S
    BY <1>5
  <1>7. c[p] = RunFrom(p, l)
    <2>1. p + l - 1 - (l - 1) = p /\ (l - 1) + 1 = l
      OBVIOUS
    <2> QED
      BY <1>6, <2>1
  <1> QED
    BY <1>1, <1>7
-----------------------------------------------------------------------------
(* Lists of which the first elements are kept *)

Prefix(list, m) == [x \in 1 .. m |-> list[x]]

LEMMA PrefixGrows ==
    ASSUME NEW list, NEW m \in Nat
    PROVE  /\ Append(Prefix(list, m), list[m + 1]) = Prefix(list, m + 1)
           /\ Len(Prefix(list, m)) = m
  <1> DEFINE S == {list[x] : x \in 1 .. m + 1}
             a == Prefix(list, m)
             b == Prefix(list, m + 1)
  <1>1. \A x \in 1 .. m + 1 : list[x] \in S
    OBVIOUS
  <1> HIDE DEF S
  <1>2. a \in Seq(S) /\ Len(a) = m /\ \A x \in 1 .. m : a[x] = list[x]
    BY <1>1 DEF Prefix
  <1>3. b \in Seq(S) /\ Len(b) = m + 1 /\ \A x \in 1 .. m + 1 : b[x] = list[x]
    BY <1>1 DEF Prefix
  <1> HIDE DEF a, b
  <1> DEFINE ab == Append(a, list[m + 1])
  <1>4. ab \in Seq(S) /\ Len(ab) = m + 1 /\ \A x \in 1 .. m + 1 : ab[x] = list[x]
    BY <1>1, <1>2
  <1> HIDE DEF ab
  <1>5. ab = b
    BY <1>3, <1>4
  <1> QED
    BY <1>2, <1>5 DEF a, b, ab

\* The function that Keep chooses.
Keeps(k, list, places, l) ==
    k = [n \in 0 .. l |->
            IF n = 0 THEN << >>
            ELSE IF n \in places THEN Append(k[n - 1], list[n]) ELSE k[n - 1]]
LEMMA KeepFirst ==
    ASSUME NEW l \in Nat, NEW list, Len(list) = l, NEW m \in 0 .. l, NEW places,
           \A n \in 1 .. l : n \in places <=> n <= m
    PROVE  Keep(list, places) = Prefix(list, m)
  <1> DEFINE Upto(n) == Prefix(list, IF n <= m THEN n ELSE m)
             K == [n \in 0 .. l |-> Upto(n)]
  <1>0. Upto(0) = << >>
    BY DEF Prefix
  <1>1. ASSUME NEW n \in 1 .. l
        PROVE  Upto(n) = IF n \in places THEN Append(Upto(n - 1), list[n]) ELSE Upto(n - 1)
    <2>1. CASE n <= m
      <3>1. n - 1 \in Nat /\ (n - 1) + 1 = n /\ n - 1 <= m
        BY <2>1
      <3>2. Append(Prefix(list, n - 1), list[n]) = Prefix(list, n)
        BY <3>1, PrefixGrows
      <3> QED
        BY <2>1, <3>1, <3>2
    <2>2. CASE ~ (n <= m)
      <3>1. n \notin places
        BY <2>2
      <3>2. (IF n - 1 <= m THEN n - 1 ELSE m) = m
        BY <2>2
      <3> QED
        BY <2>2, <3>1, <3>2
    <2> QED
      BY <2>1, <2>2
  <1>2. Keeps(K, list, places, l)
    <2> HIDE DEF Upto
    <2>1. \A n \in 0 .. l : K[n] = IF n = 0 THEN << >>
                                  ELSE IF n \in places THEN Append(K[n - 1], list[n]) ELSE K[n - 1]
      <3> SUFFICES ASSUME NEW n \in 0 .. l
                   PROVE  K[n] = IF n = 0 THEN << >>
                                 ELSE IF n \in places THEN Append(K[n - 1], list[n]) ELSE K[n - 1]
        OBVIOUS
      <3>1. CASE n = 0
        BY <1>0, <3>1
      <3>2. CASE n # 0
        <4>1. n \in 1 .. l /\ n - 1 \in 0 .. l
          BY <3>2
        <4>2. K[n] = Upto(n) /\ K[n - 1] = Upto(n - 1)
          BY <4>1
        <4> QED
          BY <1>1, <3>2, <4>1, <4>2
      <3> QED
        BY <3>1, <3>2
    <2>2. K = [n \in 0 .. l |-> K[n]]
      OBVIOUS
    <2> HIDE DEF K
    <2> QED
      BY <2>1, <2>2 DEF Keeps
  <1> DEFINE C == CHOOSE k : Keeps(k, list, places, l)
  <1>3. Keeps(C, list, places, l)
    <2> HIDE DEF K
    <2> QED
      BY <1>2
  <1>4. Keep(list, places) = C[l]
    BY DEF Keep, Keeps
  <1> HIDE DEF C, K
  <1>5. \A n \in 0 .. l : C[n] = IF n = 0 THEN << >>
                                ELSE IF n \in places THEN Append(C[n - 1], list[n]) ELSE C[n - 1]
    BY <1>3 DEF Keeps
  <1> DEFINE S == {n \in Nat : n <= l => C[n] = Upto(n)}
  <1>6. 0 \in S
    <2> HIDE DEF Upto
    <2> QED
      BY <1>0, <1>5
  <1>7. ASSUME NEW n \in Nat, n \in S PROVE n + 1 \in S
    <2> HIDE DEF Upto
    <2> SUFFICES ASSUME n + 1 <= l PROVE C[n + 1] = Upto(n + 1)
      OBVIOUS
    <2>1. C[n] = Upto(n)
      BY <1>7
    <2>2. n + 1 \in 1 .. l /\ n + 1 \in 0 .. l /\ (n + 1) - 1 = n /\ n + 1 # 0
      OBVIOUS
    <2> HIDE DEF S
    <2>3. C[n + 1] = IF n + 1 \in places THEN Append(C[n], list[n + 1]) ELSE C[n]
      BY <1>5, <2>2
    <2>4. Upto(n + 1) = IF n + 1 \in places THEN Append(Upto(n), list[n + 1]) ELSE Upto(n)
      BY <1>1, <2>2
    <2> QED
      BY <2>1, <2>3, <2>4
  <1>8. Nat \subseteq S
    <2> HIDE DEF S
    <2> QED
      BY <1>6, <1>7, NatSetInduction
  <1>9. C[l] = Upto(l)
    BY <1>8
  <1>10. (IF l <= m THEN l ELSE m) = m
    OBVIOUS
  <1> QED
    BY <1>4, <1>9, <1>10
-----------------------------------------------------------------------------
(* Tables *)

\* The function that ChainBegin chooses.
Begins(b, first, lengths, n) ==
    b = [e \in 1 .. n + 1 |->
            IF e = 1 THEN first
            ELSE b[e - 1] + (IF lengths[e - 1] = 0 THEN 1 ELSE lengths[e - 1])]

\* Lengths none of which is 0.
IsLengths(lengths, n) ==
    /\ Len(lengths) = n
    /\ \A e \in 1 .. n : lengths[e] \in Nat /\ lengths[e] > 0

LEMMA ChainBeginUnfolds ==
    ASSUME NEW n \in Nat, NEW lengths, Len(lengths) = n, NEW first
    PROVE  Begins(ChainBegin(first, lengths), first, lengths, n)
  <1> DEFINE S == {k \in Nat : \E b : Begins(b, first, lengths, k)}
  <1>1. 0 \in S
    <2> DEFINE b == [e \in 1 .. 1 |-> first]
    <2>1. Begins(b, first, lengths, 0)
      BY DEF Begins
    <2> QED
      BY <2>1
  <1>2. ASSUME NEW k \in Nat, k \in S PROVE k + 1 \in S
    <2>1. PICK b : Begins(b, first, lengths, k)
      BY <1>2
    <2> DEFINE step(e) == IF lengths[e] = 0 THEN 1 ELSE lengths[e]
               c == [e \in 1 .. (k + 1) + 1 |-> IF e = 1 THEN first ELSE b[e - 1] + step(e - 1)]
    <2>2. \A e \in 1 .. k + 1 : c[e] = b[e]
      <3>1. \A e \in 1 .. k + 1 : b[e] = IF e = 1 THEN first ELSE b[e - 1] + step(e - 1)
        BY <2>1 DEF Begins
      <3>2. \A e \in 1 .. (k + 1) + 1 : c[e] = IF e = 1 THEN first ELSE b[e - 1] + step(e - 1)
        OBVIOUS
      <3> HIDE DEF c, step
      <3>3. \A e \in 1 .. k + 1 : e \in 1 .. (k + 1) + 1
        OBVIOUS
      <3> QED
        BY <3>1, <3>2, <3>3
    <2>3. \A e \in 1 .. (k + 1) + 1 : c[e] = IF e = 1 THEN first ELSE c[e - 1] + step(e - 1)
      <3> SUFFICES ASSUME NEW e \in 1 .. (k + 1) + 1
                   PROVE  c[e] = IF e = 1 THEN first ELSE c[e - 1] + step(e - 1)
        OBVIOUS
      <3>1. c[e] = IF e = 1 THEN first ELSE b[e - 1] + step(e - 1)
        OBVIOUS
      <3> HIDE DEF c, step
      <3>2. CASE e = 1
        BY <3>1, <3>2
      <3>3. CASE e # 1
        <4>1. e - 1 \in 1 .. k + 1
          BY <3>3
        <4>2. c[e - 1] = b[e - 1]
          BY <2>2, <4>1
        <4> QED
          BY <3>1, <3>3, <4>2
      <3> QED
        BY <3>2, <3>3
    <2>4. c = [e \in 1 .. (k + 1) + 1 |-> c[e]]
      OBVIOUS
    <2> HIDE DEF c
    <2>5. Begins(c, first, lengths, k + 1)
      BY <2>3, <2>4 DEF Begins
    <2> QED
      BY <2>5
  <1>3. n \in S
    <2> HIDE DEF S
    <2>1. Nat \subseteq S
      BY <1>1, <1>2, NatSetInduction
    <2> QED
      BY <2>1
  <1>4. \E b : Begins(b, first, lengths, n)
    BY <1>3
  <1>5. ChainBegin(first, lengths) = CHOOSE b : Begins(b, first, lengths, n)
    BY DEF ChainBegin, Begins
  <1> QED
    BY <1>4, <1>5

\* The chains follow each other.
LEMMA ChainBeginFacts ==
    ASSUME NEW n \in Nat, NEW lengths, IsLengths(lengths, n), NEW first \in Nat
    PROVE  LET b == ChainBegin(first, lengths)
           IN  /\ b[1] = first
               /\ \A e \in 1 .. n + 1 : b[e] \in Nat
               /\ \A e \in 1 .. n : b[e + 1] = b[e] + lengths[e]
               /\ \A e, g \in 1 .. n + 1 : e <= g => b[e] <= b[g]
  <1> DEFINE b == ChainBegin(first, lengths)
  <1>0. Begins(b, first, lengths, n)
    BY ChainBeginUnfolds DEF IsLengths
  <1> HIDE DEF b
  <1>1. \A e \in 1 .. n + 1 :
           b[e] = IF e = 1 THEN first
                  ELSE b[e - 1] + (IF lengths[e - 1] = 0 THEN 1 ELSE lengths[e - 1])
    BY <1>0 DEF Begins
  <1>2. b[1] = first
    <2>1. 1 \in 1 .. n + 1
      OBVIOUS
    <2> QED
      BY <1>1, <2>1
  <1>3. \A e \in 1 .. n : b[e + 1] = b[e] + lengths[e]
    <2> SUFFICES ASSUME NEW e \in 1 .. n PROVE b[e + 1] = b[e] + lengths[e]
      OBVIOUS
    <2>1. e + 1 \in 1 .. n + 1 /\ e + 1 # 1 /\ (e + 1) - 1 = e
      OBVIOUS
    <2>2. b[e + 1] = b[e] + (IF lengths[e] = 0 THEN 1 ELSE lengths[e])
      BY <1>1, <2>1
    <2>3. lengths[e] # 0
      BY DEF IsLengths
    <2> QED
      BY <2>2, <2>3
  <1> DEFINE S == {k \in Nat : k <= n => /\ b[k + 1] \in Nat
                                         /\ \A e \in 1 .. k + 1 : b[e] \in Nat /\ b[e] <= b[k + 1]}
  <1>4. 0 \in S
    BY <1>2
  <1>5. ASSUME NEW k \in Nat, k \in S PROVE k + 1 \in S
    <2> SUFFICES ASSUME k + 1 <= n
                 PROVE  /\ b[(k + 1) + 1] \in Nat
                        /\ \A e \in 1 .. (k + 1) + 1 : b[e] \in Nat /\ b[e] <= b[(k + 1) + 1]
      OBVIOUS
    <2>1. b[k + 1] \in Nat /\ \A e \in 1 .. k + 1 : b[e] \in Nat /\ b[e] <= b[k + 1]
      BY <1>5
    <2>2. b[(k + 1) + 1] = b[k + 1] + lengths[k + 1] /\ lengths[k + 1] \in Nat
      BY <1>3 DEF IsLengths
    <2>3. b[(k + 1) + 1] \in Nat /\ b[k + 1] <= b[(k + 1) + 1]
      BY <2>1, <2>2
    <2>4. ASSUME NEW e \in 1 .. (k + 1) + 1 PROVE b[e] \in Nat /\ b[e] <= b[(k + 1) + 1]
      <3>1. CASE e = (k + 1) + 1
        BY <2>3, <3>1
      <3>2. CASE e # (k + 1) + 1
        <4>1. e \in 1 .. k + 1
          BY <3>2
        <4>2. b[e] \in Nat /\ b[e] <= b[k + 1]
          BY <2>1, <4>1
        <4> QED
          BY <2>1, <2>3, <4>2
      <3> QED
        BY <3>1, <3>2
    <2> QED
      BY <2>3, <2>4
  <1>6. Nat \subseteq S
    <2> HIDE DEF S
    <2> QED
      BY <1>4, <1>5, NatSetInduction
  <1>7. \A e \in 1 .. n + 1 : b[e] \in Nat
    <2> SUFFICES ASSUME NEW e \in 1 .. n + 1 PROVE b[e] \in Nat
      OBVIOUS
    <2>1. e - 1 \in Nat /\ e - 1 <= n /\ (e - 1) + 1 = e
      OBVIOUS
    <2>2. e - 1 \in S
      BY <1>6, <2>1
    <2> QED
      BY <2>1, <2>2
  <1>8. \A e, g \in 1 .. n + 1 : e <= g => b[e] <= b[g]
    <2> SUFFICES ASSUME NEW e \in 1 .. n + 1, NEW g \in 1 .. n + 1, e <= g PROVE b[e] <= b[g]
      OBVIOUS
    <2>1. g - 1 \in Nat /\ g - 1 <= n /\ (g - 1) + 1 = g /\ e \in 1 .. g
      OBVIOUS
    <2>2. g - 1 \in S
      BY <1>6, <2>1
    <2> QED
      BY <2>1, <2>2
  <1> QED
    BY <1>2, <1>3, <1>7, <1>8 DEF b

\* What makeFat makes of markers that are no sector's number.
IsTable(t, markers, first, lengths, n, words) ==
    /\ t = [w \in 0 .. words - 1 |-> t[w]]
    /\ \A w \in 0 .. first - 1 : t[w] = markers[w + 1]
    /\ \A e \in 1 .. n : IsRun(t, ChainBegin(first, lengths)[e], lengths[e])
    /\ \A e \in 1 .. n : HasChain(t, ChainBegin(first, lengths)[e])
    /\ \A w \in 0 .. words - 1 : t[w] = FREESECT <=> w >= ChainBegin(first, lengths)[n + 1]

\* Where a run of l words from x on is, before y.
LEMMA RunPlaces ==
    ASSUME NEW words \in Nat, NEW first \in Nat, NEW x \in Nat, NEW y \in Nat, NEW top \in Nat,
           NEW l \in Nat, l > 0, y = x + l, first <= x, y <= top, top <= words
    PROVE  /\ x \in 0 .. words - 1 /\ x < top
           /\ x + l - 1 = y - 1 /\ y - 1 \in 0 .. words - 1
           /\ \A u \in x .. x + l - 2 :
                u \in 0 .. words - 1 /\ u >= x /\ u >= first /\ u < y - 1 /\ u < top
  OBVIOUS

LEMMA MakeFatFacts ==
    ASSUME NEW n \in Nat, NEW lengths, IsLengths(lengths, n),
           NEW first \in Nat, NEW markers, Len(markers) = first,
           \A x \in 1 .. first : markers[x] \in {FATSECT, DIFSECT},
           NEW words \in Nat, ChainBegin(first, lengths)[n + 1] <= words
    PROVE  IsTable(MakeFat(markers, lengths, words), markers, first, lengths, n, words)
  <1> DEFINE b == ChainBegin(first, lengths)
             last == {b[e] - 1 : e \in 2 .. n + 1}
             t == MakeFat(markers, lengths, words)
  <1>1. /\ b[1] = first
        /\ \A e \in 1 .. n + 1 : b[e] \in Nat
        /\ \A e \in 1 .. n : b[e + 1] = b[e] + lengths[e]
        /\ \A e, g \in 1 .. n + 1 : e <= g => b[e] <= b[g]
    BY ChainBeginFacts
  <1>2. t = [w \in 0 .. words - 1 |->
                CASE w < first -> markers[w + 1]
                  [] w >= first /\ w \in last -> ENDOFCHAIN
                  [] w >= first /\ w \notin last /\ w < b[n + 1] -> w + 1
                  [] w >= b[n + 1] -> FREESECT]
    BY DEF MakeFat, IsLengths, LastWord
  <1>3. b[n + 1] <= words
    OBVIOUS
  <1>4. \A w \in last : \E e \in 2 .. n + 1 : w = b[e] - 1
    OBVIOUS
  <1>5. \A e \in 2 .. n + 1 : b[e] - 1 \in last
    OBVIOUS
  <1>6. \A e \in 1 .. n : lengths[e] \in Nat /\ lengths[e] > 0
    BY DEF IsLengths
  <1> HIDE DEF b, last, t
  <1>7. first <= b[n + 1] /\ b[n + 1] \in Nat
    <2>1. 1 \in 1 .. n + 1 /\ n + 1 \in 1 .. n + 1 /\ 1 <= n + 1
      OBVIOUS
    <2> QED
      BY <1>1, <2>1
  <1>8. \A w \in last : w >= first /\ w < b[n + 1]
    <2> SUFFICES ASSUME NEW e \in 2 .. n + 1 PROVE b[e] - 1 >= first /\ b[e] - 1 < b[n + 1]
      BY <1>4
    <2>1. e - 1 \in 1 .. n /\ (e - 1) + 1 = e /\ e \in 1 .. n + 1 /\ n + 1 \in 1 .. n + 1 /\ e <= n + 1
          /\ 1 <= e - 1 /\ 1 \in 1 .. n + 1 /\ e - 1 \in 1 .. n + 1
      OBVIOUS
    <2>2. b[e] = b[e - 1] + lengths[e - 1] /\ b[1] <= b[e - 1] /\ b[e] <= b[n + 1] /\ b[e - 1] \in Nat
      BY <1>1, <2>1
    <2>3. lengths[e - 1] \in Nat /\ lengths[e - 1] > 0
      BY <1>6, <2>1
    <2> QED
      BY <1>1, <1>7, <2>2, <2>3, SMTT(30)
  <1>9. /\ t = [w \in 0 .. words - 1 |-> t[w]] /\ DOMAIN t = 0 .. words - 1
        /\ \A w \in 0 .. words - 1 : w < first => t[w] = markers[w + 1]
        /\ \A w \in 0 .. words - 1 : w \in last => t[w] = -2
        /\ \A w \in 0 .. words - 1 : w >= first /\ w \notin last /\ w < b[n + 1] => t[w] = w + 1
        /\ \A w \in 0 .. words - 1 : w >= b[n + 1] => t[w] = -1
    <2>1. t = [w \in 0 .. words - 1 |-> t[w]] /\ DOMAIN t = 0 .. words - 1
      <3> DEFINE body(w) ==
                    CASE w < first -> markers[w + 1]
                      [] w >= first /\ w \in last -> ENDOFCHAIN
                      [] w >= first /\ w \notin last /\ w < b[n + 1] -> w + 1
                      [] w >= b[n + 1] -> FREESECT
      <3>1. t = [w \in 0 .. words - 1 |-> body(w)]
        BY <1>2
      <3> HIDE DEF body
      <3> QED
        BY <3>1
    <2>2. ASSUME NEW w \in 0 .. words - 1
          PROVE  t[w] = CASE w < first -> markers[w + 1]
                  [] w >= first /\ w \in last -> ENDOFCHAIN
                  [] w >= first /\ w \notin last /\ w < b[n + 1] -> w + 1
                  [] w >= b[n + 1] -> FREESECT
      BY <1>2
    <2>3. ASSUME NEW w \in 0 .. words - 1, w < first PROVE t[w] = markers[w + 1]
      BY <1>7, <1>8, <2>2, <2>3
    <2>4. ASSUME NEW w \in 0 .. words - 1, w \in last PROVE t[w] = -2
      BY <1>7, <1>8, <2>2, <2>4 DEF ENDOFCHAIN
    <2>5. ASSUME NEW w \in 0 .. words - 1, w >= first, w \notin last, w < b[n + 1] PROVE t[w] = w + 1
      BY <1>7, <1>8, <2>2, <2>5
    <2>6. ASSUME NEW w \in 0 .. words - 1, w >= b[n + 1] PROVE t[w] = -1
      BY <1>7, <1>8, <2>2, <2>6 DEF FREESECT
    <2> QED
      BY <2>1, <2>3, <2>4, <2>5, <2>6
  <1>10. \A w \in 0 .. first - 1 : t[w] = markers[w + 1] /\ t[w] \in {-3, -4}
    <2> SUFFICES ASSUME NEW w \in 0 .. first - 1
                 PROVE  t[w] = markers[w + 1] /\ t[w] \in {-3, -4}
      OBVIOUS
    <2>1. w \in 0 .. words - 1 /\ w < first /\ w + 1 \in 1 .. first
      BY <1>3, <1>7
    <2>2. t[w] = markers[w + 1]
      BY <1>9, <2>1
    <2>3. markers[w + 1] \in {FATSECT, DIFSECT}
      BY <2>1
    <2> QED
      BY <2>2, <2>3 DEF FATSECT, DIFSECT
  <1>11. ASSUME NEW e \in 1 .. n PROVE IsRun(t, b[e], lengths[e])
    <2>1. e \in 1 .. n + 1 /\ e + 1 \in 1 .. n + 1 /\ e + 1 \in 2 .. n + 1
          /\ 1 \in 1 .. n + 1 /\ n + 1 \in 1 .. n + 1 /\ 1 <= e /\ e + 1 <= n + 1
      OBVIOUS
    <2>2. b[e] \in Nat /\ b[e + 1] \in Nat /\ b[1] <= b[e] /\ b[e + 1] <= b[n + 1]
      BY <1>1, <2>1
    <2>3. b[e + 1] = b[e] + lengths[e] /\ lengths[e] \in Nat /\ lengths[e] > 0
      BY <1>1, <1>6
    <2>4. b[e + 1] - 1 \in last
      BY <1>5, <2>1
    <2> DEFINE x == b[e]
               y == b[e + 1]
               l == lengths[e]
               top == b[n + 1]
    <2>8. /\ x + l - 1 = y - 1 /\ y - 1 \in 0 .. words - 1
               /\ \A u \in x .. x + l - 2 :
                    u \in 0 .. words - 1 /\ u >= x /\ u >= first /\ u < y - 1 /\ u < top
      <3>1. /\ x \in Nat /\ y \in Nat /\ l \in Nat /\ top \in Nat
            /\ l > 0 /\ y = x + l /\ first <= x /\ y <= top /\ top <= words
        BY <1>1, <1>3, <1>7, <2>2, <2>3
      <3> HIDE DEF x, y, l, top
      <3> QED
        BY <3>1, RunPlaces
    <2>5. b[e] + lengths[e] - 1 \in 0 .. words - 1 /\ b[e] + lengths[e] - 1 \in last
      <3> HIDE DEF x, y, l, top
      <3>1. x + l - 1 \in 0 .. words - 1 /\ (y - 1 \in last => x + l - 1 \in last)
        BY <2>8
      <3> QED
        BY <2>4, <3>1 DEF x, y, l
    <2>6. t[b[e] + lengths[e] - 1] = -2
      BY <1>9, <2>5
    <2>7. ASSUME NEW u \in b[e] .. b[e] + lengths[e] - 2 PROVE t[u] = u + 1
      <3>1. u \in Nat /\ u >= b[e] /\ u < b[e + 1] - 1
        BY <2>8
      <3>2. u \in 0 .. words - 1 /\ u >= first /\ u < b[n + 1]
        BY <2>8
      <3>3. u \notin last
        <4> SUFFICES ASSUME NEW g \in 2 .. n + 1, u = b[g] - 1 PROVE FALSE
          BY <1>4
        <4>1. g \in 1 .. n + 1 /\ (g <= e \/ e + 1 <= g)
          OBVIOUS
        <4>2. b[g] \in Nat /\ (b[g] <= b[e] \/ b[e + 1] <= b[g])
          BY <1>1, <2>1, <4>1
        <4> QED
          BY <2>2, <3>1, <4>2, SMTT(30)
      <3> QED
        BY <1>9, <3>2, <3>3
    <2> QED
      BY <2>6, <2>7 DEF IsRun, ENDOFCHAIN
  <1>12. ASSUME NEW e \in 1 .. n PROVE HasChain(t, b[e])
    <2>1. e \in 1 .. n + 1 /\ e + 1 \in 1 .. n + 1
          /\ 1 \in 1 .. n + 1 /\ n + 1 \in 1 .. n + 1 /\ 1 <= e /\ e + 1 <= n + 1
      OBVIOUS
    <2>2. b[e] \in Nat /\ b[e + 1] \in Nat /\ b[1] <= b[e] /\ b[e + 1] <= b[n + 1]
      BY <1>1, <2>1
    <2>3. b[e + 1] = b[e] + lengths[e] /\ lengths[e] \in Nat /\ lengths[e] > 0
      BY <1>1, <1>6
    <2>4. b[e] \in 0 .. words - 1 /\ b[e] >= first /\ b[e] < b[n + 1]
      <3> DEFINE x == b[e]
                 y == b[e + 1]
                 l == lengths[e]
                 top == b[n + 1]
      <3>1. /\ x \in Nat /\ y \in Nat /\ l \in Nat /\ top \in Nat
            /\ l > 0 /\ y = x + l /\ first <= x /\ y <= top /\ top <= words
        BY <1>1, <1>3, <1>7, <2>2, <2>3
      <3> HIDE DEF x, y, l, top
      <3>2. x \in 0 .. words - 1 /\ x >= first /\ x < top
        BY <3>1, RunPlaces
      <3> QED
        BY <3>2 DEF x, top
    <2>5. t[b[e]] = -2 \/ t[b[e]] = b[e] + 1
      BY <1>9, <2>4
    <2>6. ASSUME NEW u \in 0 .. words - 1 PROVE t[u] # b[e]
      <3>1. CASE u < first
        <4>1. u \in 0 .. first - 1
          BY <3>1
        <4>2. t[u] \in {-3, -4}
          BY <1>10, <4>1
        <4> QED
          BY <2>2, <4>2
      <3>2. CASE u \in last
        BY <1>9, <2>2, <3>2
      <3>3. CASE u >= first /\ u \notin last /\ u < b[n + 1]
        <4>1. t[u] = u + 1
          BY <1>9, <3>3
        <4>2. CASE e = 1
          BY <1>1, <3>3, <4>1, <4>2
        <4>3. CASE e # 1
          <5>1. e \in 2 .. n + 1
            BY <4>3
          <5>2. b[e] - 1 \in last
            BY <1>5, <5>1
          <5> QED
            BY <2>2, <3>3, <4>1, <5>2
        <4> QED
          BY <4>2, <4>3
      <3>4. CASE u >= b[n + 1]
        BY <1>9, <2>2, <3>4
      <3> QED
        BY <1>7, <3>1, <3>2, <3>3, <3>4
    <2> QED
      BY <1>9, <2>2, <2>4, <2>5, <2>6 DEF HasChain, FREESECT, FATSECT, DIFSECT
  <1>13. ASSUME NEW w \in 0 .. words - 1 PROVE t[w] = -1 <=> w >= b[n + 1]
    <2>1. CASE w < first
      BY <1>7, <1>10, <2>1
    <2>2. CASE w \in last
      BY <1>7, <1>8, <1>9, <2>2
    <2>3. CASE w >= first /\ w \notin last /\ w < b[n + 1]
      BY <1>7, <1>9, <2>3
    <2>4. CASE w >= b[n + 1]
      BY <1>9, <2>4
    <2> QED
      BY <1>7, <2>1, <2>2, <2>3, <2>4
  <1> QED
    BY <1>9, <1>10, <1>11, <1>12, <1>13 DEF IsTable, b, t, FREESECT
-----------------------------------------------------------------------------
(* The counts of the two tables' sectors *)

LEMMA Entries == EntriesPerSector \in Nat /\ EntriesPerSector >= 2 /\ HeaderSlots \in Nat
  BY EntriesAssumption, SlotsAssumption

LEMMA DifatForFacts ==
    ASSUME NEW f \in Nat
    PROVE  DifatFor(f) \in Nat /\ (DifatFor(f) = 0 <=> f <= HeaderSlots)
  <1>1. CASE f <= HeaderSlots
    BY <1>1 DEF DifatFor
  <1>2. CASE ~ (f <= HeaderSlots)
    <2> DEFINE g == f - HeaderSlots
               b == EntriesPerSector - 1
    <2>1. g \in Nat /\ g > 0 /\ b \in Nat /\ b > 0
      BY <1>2, Entries
    <2>2. DifatFor(f) = BlockNum(g, b)
      BY <1>2 DEF DifatFor
    <2> HIDE DEF g, b
    <2>3. BlockNum(g, b) \in Nat /\ BlockNum(g, b) > 0
      BY <2>1, BlockNumFacts
    <2> QED
      BY <1>2, <2>2, <2>3
  <1> QED
    BY <1>1, <1>2

LEMMA FatForFacts ==
    ASSUME NEW d \in Nat, NEW f \in Nat, NEW m \in Nat
    PROVE  FatFor(d, f, m) \in Nat
  <1>1. d + f + m \in Nat
    OBVIOUS
  <1> QED
    BY <1>1, Entries, BlockNumFacts DEF FatFor

\* The function that SectorCounts chooses.
Round(p, m) == LET a == FatFor(p.d, p.f, m) IN [d |-> DifatFor(a), f |-> a]
Rounds(r, m, n) ==
    r = [c \in 0 .. n |-> IF c = 0 THEN [d |-> 0, f |-> 0]
                          ELSE LET a == FatFor(r[c - 1].d, r[c - 1].f, m)
                               IN  [d |-> DifatFor(a), f |-> a]]
IsPair(p) == p.d \in Nat /\ p.f \in Nat /\ p.d = DifatFor(p.f)

LEMMA RoundFacts ==
    ASSUME NEW m \in Nat, NEW p, IsPair(p)
    PROVE  IsPair(Round(p, m))
  <1>1. FatFor(p.d, p.f, m) \in Nat
    BY FatForFacts DEF IsPair
  <1> DEFINE a == FatFor(p.d, p.f, m)
  <1>2. DifatFor(a) \in Nat
    BY <1>1, DifatForFacts
  <1>3. Round(p, m) = [d |-> DifatFor(a), f |-> a]
    BY DEF Round
  <1> HIDE DEF a
  <1> QED
    BY <1>1, <1>2, <1>3 DEF IsPair, a

\* C holds the pairs of ten rounds, and all of them are pairs.
TenRounds(C, m) ==
    /\ C[0] = [d |-> 0, f |-> 0]
    /\ \A c \in 0 .. 9 : C[c + 1] = Round(C[c], m)
    /\ \A c \in 0 .. 10 : IsPair(C[c])

\* The pairs among them after which a round changed nothing.
Fixed(C) == {C[c] : c \in {c \in 1 .. 10 : C[c] = C[c - 1]}}

LEMMA SectorCountsUnfold ==
    ASSUME NEW m \in Nat
    PROVE  \E C : TenRounds(C, m) /\ SectorCounts(m) = Fixed(C)
  <1> DEFINE Start == [d |-> 0, f |-> 0]
             S == {n \in Nat : \E r : Rounds(r, m, n) /\ IsPair(r[n])}
  <1>1. 0 \in S
    <2> DEFINE r == [c \in 0 .. 0 |-> Start]
    <2>1. Rounds(r, m, 0)
      BY DEF Rounds
    <2>2. DifatFor(0) = 0
      BY Entries, DifatForFacts
    <2>3. IsPair(r[0])
      BY <2>2 DEF IsPair
    <2> HIDE DEF r
    <2> QED
      BY <2>1, <2>3
  <1>2. ASSUME NEW n \in Nat, n \in S PROVE n + 1 \in S
    <2>1. PICK r : Rounds(r, m, n) /\ IsPair(r[n])
      BY <1>2
    <2> DEFINE q == [c \in 0 .. n + 1 |-> IF c = 0 THEN Start ELSE Round(r[c - 1], m)]
    <2>2. \A c \in 0 .. n + 1 : q[c] = IF c = 0 THEN Start ELSE Round(r[c - 1], m)
      OBVIOUS
    <2>3. \A c \in 0 .. n : r[c] = IF c = 0 THEN Start ELSE Round(r[c - 1], m)
      BY <2>1 DEF Rounds, Round
    <2>4. q = [c \in 0 .. n + 1 |-> q[c]]
      OBVIOUS
    <2> HIDE DEF q
    <2>5. \A c \in 0 .. n : q[c] = r[c]
      <3>1. \A c \in 0 .. n : c \in 0 .. n + 1
        OBVIOUS
      <3> QED
        BY <2>2, <2>3, <3>1, Zenon
    <2>6. \A c \in 0 .. n + 1 : q[c] = IF c = 0 THEN Start ELSE Round(q[c - 1], m)
      <3> SUFFICES ASSUME NEW c \in 0 .. n + 1
                   PROVE  q[c] = IF c = 0 THEN Start ELSE Round(q[c - 1], m)
        OBVIOUS
      <3> HIDE DEF Start
      <3>1. CASE c = 0
        BY <2>2, <3>1
      <3>2. CASE c # 0
        <4>1. c - 1 \in 0 .. n
          BY <3>2
        <4>2. q[c - 1] = r[c - 1]
          BY <2>5, <4>1
        <4> QED
          BY <2>2, <3>2, <4>2
      <3> QED
        BY <3>1, <3>2
    <2>7. Rounds(q, m, n + 1)
      BY <2>4, <2>6 DEF Rounds, Round
    <2>8. IsPair(q[n + 1])
      <3>1. n + 1 \in 0 .. n + 1 /\ n + 1 # 0 /\ (n + 1) - 1 = n /\ n \in 0 .. n
        OBVIOUS
      <3>2. q[n + 1] = Round(r[n], m)
        BY <2>2, <3>1
      <3> QED
        BY <2>1, <3>2, RoundFacts
    <2> QED
      BY <2>7, <2>8
  <1>3. 10 \in S
    <2> HIDE DEF S
    <2>1. Nat \subseteq S
      BY <1>1, <1>2, NatSetInduction
    <2> QED
      BY <2>1
  <1>4. SectorCounts(m) = Fixed(CHOOSE r : Rounds(r, m, 10))
    BY DEF SectorCounts, Rounds, Fixed, MaxRounds
  <1> DEFINE C == CHOOSE r : Rounds(r, m, 10)
  <1>5. Rounds(C, m, 10)
    BY <1>3
  <1> HIDE DEF C
  <1>6. \A c \in 0 .. 10 : C[c] = IF c = 0 THEN Start ELSE Round(C[c - 1], m)
    BY <1>5 DEF Rounds, Round
  <1> DEFINE T == {n \in Nat : n <= 10 => IsPair(C[n])}
  <1>7. 0 \in T
    <2>1. C[0] = Start
      BY <1>6
    <2>2. DifatFor(0) = 0
      BY Entries, DifatForFacts
    <2> QED
      BY <2>1, <2>2 DEF IsPair
  <1>8. ASSUME NEW n \in Nat, n \in T PROVE n + 1 \in T
    <2> SUFFICES ASSUME n + 1 <= 10 PROVE IsPair(C[n + 1])
      OBVIOUS
    <2>1. n + 1 \in 0 .. 10 /\ n + 1 # 0 /\ (n + 1) - 1 = n
      OBVIOUS
    <2>2. C[n + 1] = Round(C[n], m)
      BY <1>6, <2>1
    <2>3. IsPair(C[n])
      BY <1>8
    <2> QED
      BY <2>2, <2>3, RoundFacts
  <1>9. Nat \subseteq T
    <2> HIDE DEF T
    <2> QED
      BY <1>7, <1>8, NatSetInduction
  <1>10. \A c \in 0 .. 10 : IsPair(C[c])
    <2> SUFFICES ASSUME NEW c \in 0 .. 10 PROVE IsPair(C[c])
      OBVIOUS
    <2>1. c \in T /\ c <= 10
      BY <1>9
    <2> QED
      BY <2>1
  <1>11. C[0] = Start
    BY <1>6
  <1>12. ASSUME NEW c \in 0 .. 9 PROVE C[c + 1] = Round(C[c], m)
    <2>1. c + 1 \in 0 .. 10 /\ c + 1 # 0 /\ (c + 1) - 1 = c
      OBVIOUS
    <2> QED
      BY <1>6, <2>1
  <1>13. TenRounds(C, m)
    BY <1>10, <1>11, <1>12 DEF TenRounds
  <1> QED
    BY <1>4, <1>13, Zenon DEF C

LEMMA SectorCountsFacts ==
    ASSUME NEW m \in Nat, NEW p \in SectorCounts(m)
    PROVE  IsPair(p) /\ Round(p, m) = p
  <1>1. PICK C : TenRounds(C, m) /\ SectorCounts(m) = Fixed(C)
    BY SectorCountsUnfold
  <1>2. PICK c \in 1 .. 10 : C[c] = C[c - 1] /\ p = C[c]
    BY <1>1 DEF Fixed
  <1>3. c - 1 \in 0 .. 9 /\ (c - 1) + 1 = c /\ c \in 0 .. 10
    OBVIOUS
  <1>4. C[c] = Round(C[c - 1], m)
    BY <1>1, <1>3 DEF TenRounds
  <1> QED
    BY <1>1, <1>2, <1>3, <1>4 DEF TenRounds

-----------------------------------------------------------------------------
(* The directory of makeDataSpace *)

LEMMA DirNumIs == DirNum = 11
  BY DEF DirNum, DirNames

LEMMA DirNamesAre ==
    /\ DirNames[1] = "Root Entry" /\ DirNames[2] = "EncryptedPackage" /\ DirNames[3] = "~DataSpaces"
    /\ DirNames[4] = "Version" /\ DirNames[5] = "DataSpaceMap" /\ DirNames[6] = "DataSpaceInfo"
    /\ DirNames[7] = "StrongEncryptionDataSpace" /\ DirNames[8] = "TransformInfo"
    /\ DirNames[9] = "StrongEncryptionTransform" /\ DirNames[10] = "~Primary"
    /\ DirNames[11] = "EncryptionInfo"
  BY DEF DirNames, Root, Package

LEMMA DirNamesDiffer == \A x, y \in 1 .. 11 : DirNames[x] = DirNames[y] => x = y
  <1>1. \A x \in 1 .. 11 : \/ x = 1 \/ x = 2 \/ x = 3 \/ x = 4 \/ x = 5 \/ x = 6
                           \/ x = 7 \/ x = 8 \/ x = 9 \/ x = 10 \/ x = 11
    OBVIOUS
  <1>2. \A y \in 1 .. 11 : DirNames[y] = DirNames[1] => y = 1
    BY <1>1, DirNamesAre
  <1>3. \A y \in 1 .. 11 : DirNames[y] = DirNames[2] => y = 2
    BY <1>1, DirNamesAre
  <1>4. \A y \in 1 .. 11 : DirNames[y] = DirNames[3] => y = 3
    BY <1>1, DirNamesAre
  <1>5. \A y \in 1 .. 11 : DirNames[y] = DirNames[4] => y = 4
    BY <1>1, DirNamesAre
  <1>6. \A y \in 1 .. 11 : DirNames[y] = DirNames[5] => y = 5
    BY <1>1, DirNamesAre
  <1>7. \A y \in 1 .. 11 : DirNames[y] = DirNames[6] => y = 6
    BY <1>1, DirNamesAre
  <1>8. \A y \in 1 .. 11 : DirNames[y] = DirNames[7] => y = 7
    BY <1>1, DirNamesAre
  <1>9. \A y \in 1 .. 11 : DirNames[y] = DirNames[8] => y = 8
    BY <1>1, DirNamesAre
  <1>10. \A y \in 1 .. 11 : DirNames[y] = DirNames[9] => y = 9
    BY <1>1, DirNamesAre
  <1>11. \A y \in 1 .. 11 : DirNames[y] = DirNames[10] => y = 10
    BY <1>1, DirNamesAre
  <1>12. \A y \in 1 .. 11 : DirNames[y] = DirNames[11] => y = 11
    BY <1>1, DirNamesAre
  <1> QED
    BY <1>1, <1>2, <1>3, <1>4, <1>5, <1>6, <1>7, <1>8, <1>9, <1>10, <1>11, <1>12

\* The index of a name is its place in the list.
LEMMA IdOf ==
    ASSUME NEW x \in 1 .. 11
    PROVE  Id(DirNames[x]) + 1 = x
  <1>1. \A y \in 1 .. 11 : DirNames[y] = DirNames[x] => y = x
    BY DirNamesDiffer
  <1> DEFINE c == CHOOSE y \in 1 .. DirNum : DirNames[y] = DirNames[x]
  <1>2. c \in 1 .. 11 /\ DirNames[c] = DirNames[x]
    BY DirNumIs
  <1>3. Id(DirNames[x]) = c - 1
    BY DEF Id
  <1> HIDE DEF c
  <1>4. c = x
    BY <1>1, <1>2
  <1> QED
    BY <1>3, <1>4

\* The entries of the small streams, in the order of the mini stream.
MiniAt == <<4, 5, 7, 10, 11>>

LEMMA MiniStreamsAre ==
    /\ Len(MiniStreams) = 5
    /\ \A k \in 1 .. 5 : MiniAt[k] \in {4, 5, 7, 10, 11} /\ MiniStreams[k] = DirNames[MiniAt[k]]
    /\ \A k, l \in 1 .. 5 : k < l => MiniAt[k] < MiniAt[l]
  <1>1. Len(MiniStreams) = 5
    BY DEF MiniStreams
  <1>2. /\ MiniStreams[1] = DirNames[4] /\ MiniStreams[2] = DirNames[5] /\ MiniStreams[3] = DirNames[7]
        /\ MiniStreams[4] = DirNames[10] /\ MiniStreams[5] = DirNames[11]
    BY DirNamesAre DEF MiniStreams
  <1>3. MiniAt[1] = 4 /\ MiniAt[2] = 5 /\ MiniAt[3] = 7 /\ MiniAt[4] = 10 /\ MiniAt[5] = 11
    BY DEF MiniAt
  <1>4. \A k \in 1 .. 5 : k = 1 \/ k = 2 \/ k = 3 \/ k = 4 \/ k = 5
    OBVIOUS
  <1>5. \A k \in 1 .. 5 : MiniAt[k] \in {4, 5, 7, 10, 11}
    BY <1>3, <1>4
  <1>6. \A k \in 1 .. 5 : MiniStreams[k] = DirNames[MiniAt[k]]
    BY <1>2, <1>3, <1>4
  <1>7. \A k, l \in 1 .. 5 : k < l => MiniAt[k] < MiniAt[l]
    BY <1>3, <1>4
  <1> QED
    BY <1>1, <1>5, <1>6, <1>7

\* Which entries have a stream.
HasStream == {2, 4, 5, 7, 10, 11}

LEMMA StreamsAre ==
    /\ Streams = {DirNames[x] : x \in HasStream}
    /\ \A x \in 1 .. 11 : DirNames[x] \in Streams <=> x \in HasStream
    /\ \A s \in Streams \ {Package} : \E k \in 1 .. 5 : s = DirNames[MiniAt[k]]
    /\ Package = DirNames[2]
    /\ Id(Package) + 1 = 2
  <1>1. Package = DirNames[2]
    BY DirNamesAre DEF Package
  <1>2. Id(Package) + 1 = 2
    BY <1>1, IdOf
  <1>3. Streams = {Package} \cup {MiniStreams[x] : x \in 1 .. 5}
    BY MiniStreamsAre DEF Streams
  <1>4. \A s \in Streams \ {Package} : \E k \in 1 .. 5 : s = DirNames[MiniAt[k]]
    <2> SUFFICES ASSUME NEW s \in Streams, s # Package
                 PROVE  \E k \in 1 .. 5 : s = DirNames[MiniAt[k]]
      OBVIOUS
    <2>1. PICK k \in 1 .. 5 : s = MiniStreams[k]
      BY <1>3
    <2>2. MiniStreams[k] = DirNames[MiniAt[k]]
      BY MiniStreamsAre
    <2> QED
      BY <2>1, <2>2
  <1>5. \A x \in HasStream : x = 2 \/ \E k \in 1 .. 5 : x = MiniAt[k]
    <2>1. MiniAt[1] = 4 /\ MiniAt[2] = 5 /\ MiniAt[3] = 7 /\ MiniAt[4] = 10 /\ MiniAt[5] = 11
      BY DEF MiniAt
    <2> QED
      BY <2>1 DEF HasStream
  <1>6. \A x \in HasStream : DirNames[x] \in Streams
    <2> SUFFICES ASSUME NEW k \in 1 .. 5 PROVE DirNames[MiniAt[k]] \in Streams
      BY <1>1, <1>3, <1>5
    <2>1. MiniStreams[k] = DirNames[MiniAt[k]]
      BY MiniStreamsAre
    <2> QED
      BY <1>3, <2>1
  <1>7. \A s \in Streams : \E x \in HasStream : s = DirNames[x]
    BY <1>1, <1>4, MiniStreamsAre DEF HasStream
  <1>8. ASSUME NEW x \in 1 .. 11, DirNames[x] \in Streams PROVE x \in HasStream
    <2>1. PICK y \in HasStream : DirNames[x] = DirNames[y]
      BY <1>7, <1>8
    <2>2. y \in 1 .. 11
      BY DEF HasStream
    <2> QED
      BY <2>1, <2>2, DirNamesDiffer
  <1>9. Streams = {DirNames[x] : x \in HasStream}
    BY <1>6, <1>7
  <1> QED
    BY <1>1, <1>2, <1>4, <1>6, <1>8, <1>9
-----------------------------------------------------------------------------
(* Records of bytes *)

\* The fields of a table have places of their own in a record of so many bytes.
IsTableOfFields(table, bytes) ==
    /\ \A f \in DOMAIN table :
         /\ table[f][1] \in Nat /\ table[f][2] \in Nat /\ table[f][2] > 0
         /\ table[f][1] + table[f][2] <= bytes
    /\ \A f, g \in DOMAIN table :
         f # g => \/ table[f][1] + table[f][2] <= table[g][1]
                  \/ table[g][1] + table[g][2] <= table[f][1]

\* The bytes of a record that hold a value.
Holds(record, pos, width, value) == \A a \in 0 .. width - 1 : record[pos + a] = <<value, a>>

LEMMA GetFacts ==
    ASSUME NEW record, NEW pos \in Nat, NEW width \in Nat, width > 0, NEW value,
           Holds(record, pos, width, value)
    PROVE  Get(record, pos, width) = value
  <1>1. \A a \in 0 .. width - 1 : record[pos + a] = <<value, a>>
    BY DEF Holds
  <1>2. record[pos] = <<value, 0>>
    <2>1. 0 \in 0 .. width - 1 /\ pos + 0 = pos
      OBVIOUS
    <2> QED
      BY <1>1, <2>1
  <1>3. record[pos][1] = value
    BY <1>2
  <1> QED
    BY <1>1, <1>3 DEF Get

LEMMA FieldsAtFacts ==
    ASSUME NEW table, NEW bytes \in Nat, IsTableOfFields(table, bytes),
           NEW f \in DOMAIN table, NEW a \in 0 .. table[f][2] - 1
    PROVE  /\ table[f][1] + a \in 0 .. bytes - 1
           /\ FieldsAt(table, bytes)[table[f][1] + a] = {f}
  <1>1. table[f][1] \in Nat /\ table[f][2] \in Nat /\ table[f][1] + table[f][2] <= bytes
    BY DEF IsTableOfFields
  <1>2. table[f][1] + a \in 0 .. bytes - 1
    BY <1>1
  <1> DEFINE p == table[f][1] + a
  <1>3. p \in table[f][1] .. table[f][1] + table[f][2] - 1
    BY <1>1
  <1>4. FieldsAt(table, bytes)[p] =
            {g \in DOMAIN table : p \in table[g][1] .. table[g][1] + table[g][2] - 1}
    BY <1>2 DEF FieldsAt
  <1> HIDE DEF p
  <1>5. ASSUME NEW g \in DOMAIN table, g # f
        PROVE  p \notin table[g][1] .. table[g][1] + table[g][2] - 1
    <2>1. table[g][1] \in Nat /\ table[g][2] \in Nat
      BY DEF IsTableOfFields
    <2>2. \/ table[f][1] + table[f][2] <= table[g][1]
          \/ table[g][1] + table[g][2] <= table[f][1]
      BY <1>5 DEF IsTableOfFields
    <2> QED
      BY <1>1, <1>3, <2>1, <2>2
  <1>6. FieldsAt(table, bytes)[p] = {f}
    BY <1>3, <1>4, <1>5
  <1> QED
    BY <1>2, <1>6 DEF p

\* What a record has at the places of its fields.
HasFields(record, value, table, bytes) ==
    \A a \in 0 .. bytes - 1 :
        FieldsAt(table, bytes)[a] # {} =>
            record[a] = Byte(value, table, CHOOSE f \in FieldsAt(table, bytes)[a] : TRUE, a)

LEMMA ReadFieldsFacts ==
    ASSUME NEW table, NEW bytes \in Nat, IsTableOfFields(table, bytes),
           NEW value, NEW record, HasFields(record, value, table, bytes)
    PROVE  \A f \in DOMAIN table : Get(record, table[f][1], table[f][2]) = value[f]
  <1> SUFFICES ASSUME NEW f \in DOMAIN table
               PROVE  Get(record, table[f][1], table[f][2]) = value[f]
    OBVIOUS
  <1>1. table[f][1] \in Nat /\ table[f][2] \in Nat /\ table[f][2] > 0
    BY DEF IsTableOfFields
  <1>2. Holds(record, table[f][1], table[f][2], value[f])
    <2> SUFFICES ASSUME NEW a \in 0 .. table[f][2] - 1
                 PROVE  record[table[f][1] + a] = <<value[f], a>>
      BY DEF Holds
    <2> DEFINE p == table[f][1] + a
    <2>1. p \in 0 .. bytes - 1 /\ FieldsAt(table, bytes)[p] = {f}
      BY FieldsAtFacts
    <2>2. (CHOOSE g \in {f} : TRUE) = f
      OBVIOUS
    <2>3. p - table[f][1] = a
      BY <1>1
    <2> HIDE DEF p
    <2>4. record[p] = Byte(value, table, CHOOSE g \in {f} : TRUE, p)
      <3>1. FieldsAt(table, bytes)[p] # {}
        BY <2>1
      <3>2. record[p] = Byte(value, table, CHOOSE g \in FieldsAt(table, bytes)[p] : TRUE, p)
        BY <2>1, <3>1 DEF HasFields
      <3> QED
        BY <2>1, <3>2
    <2>5. record[p] = Byte(value, table, f, p)
      BY <2>2, <2>4
    <2>6. record[p] = <<value[f], a>>
      BY <2>3, <2>5 DEF Byte
    <2> QED
      BY <2>6 DEF p
  <1> QED
    BY <1>1, <1>2, GetFacts
-----------------------------------------------------------------------------
(* Entries *)

EntryFields == {"type", "color", "left", "right", "child", "stateBits", "creationTime",
                "modifiedTime", "start", "size"}

LEMMA EntryPlaces ==
    /\ DOMAIN EntryWritten = EntryFields
    /\ EntryWritten["type"] = <<66, 1>> /\ EntryWritten["color"] = <<67, 1>>
    /\ EntryWritten["left"] = <<68, 4>> /\ EntryWritten["right"] = <<72, 4>>
    /\ EntryWritten["child"] = <<76, 4>> /\ EntryWritten["stateBits"] = <<96, 4>>
    /\ EntryWritten["creationTime"] = <<100, 8>> /\ EntryWritten["modifiedTime"] = <<108, 8>>
    /\ EntryWritten["start"] = <<116, 4>> /\ EntryWritten["size"] = <<120, 8>>
  BY DEF EntryWritten, EntryFields

LEMMA EntryTable ==
    /\ IsTableOfFields(EntryWritten, EntryBytes)
    /\ \A f \in EntryFields : EntryWritten[f][1] >= 66
    /\ EntryRead = EntryWritten
  <1>1. \A f \in EntryFields :
            \/ f = "type" \/ f = "color" \/ f = "left" \/ f = "right" \/ f = "child"
            \/ f = "stateBits" \/ f = "creationTime" \/ f = "modifiedTime" \/ f = "start"
            \/ f = "size"
    BY DEF EntryFields
  <1>2. \A f \in EntryFields :
            /\ EntryWritten[f][1] \in Nat /\ EntryWritten[f][2] \in Nat /\ EntryWritten[f][2] > 0
            /\ EntryWritten[f][1] + EntryWritten[f][2] <= 128
            /\ EntryWritten[f][1] >= 66
    BY <1>1, EntryPlaces
  <1> DEFINE Apart(f) == \A g \in EntryFields :
                f # g => \/ EntryWritten[f][1] + EntryWritten[f][2] <= EntryWritten[g][1]
                         \/ EntryWritten[g][1] + EntryWritten[g][2] <= EntryWritten[f][1]
  <1>3. Apart("type") /\ Apart("color") /\ Apart("left")
    BY <1>1, EntryPlaces
  <1>4. Apart("right") /\ Apart("child") /\ Apart("stateBits")
    BY <1>1, EntryPlaces
  <1>5. Apart("creationTime") /\ Apart("modifiedTime")
    BY <1>1, EntryPlaces
  <1>6. Apart("start") /\ Apart("size")
    BY <1>1, EntryPlaces
  <1>7. \A f \in EntryFields : Apart(f)
    <2> HIDE DEF Apart
    <2> QED
      BY <1>1, <1>3, <1>4, <1>5, <1>6
  <1>8. EntryRead = EntryWritten
    BY DEF EntryRead, EntryWritten
  <1> QED
    BY <1>2, <1>7, <1>8, EntryPlaces DEF IsTableOfFields, EntryBytes

DirRecord ==
    [type : Int, color : Int, left : Int, right : Int, child : Int, name : Seq(Nat),
     stateBits : Int, creationTime : Int, modifiedTime : Int, start : Int, size : Int]

\* A name that fits into an entry.
IsShortName(name) == name \in Seq(Nat) /\ name # <<>> /\ Len(name) <= 31

LEMMA EntryFieldsBack ==
    ASSUME NEW e
    PROVE  \A f \in EntryFields : Get(WriteEntry(e), EntryRead[f][1], EntryRead[f][2]) = e[f]
  <1>1. HasFields(WriteEntry(e), e, EntryWritten, EntryBytes)
    <2> SUFFICES ASSUME NEW a \in 0 .. EntryBytes - 1, FieldsAt(EntryWritten, EntryBytes)[a] # {}
                 PROVE  WriteEntry(e)[a] =
                            Byte(e, EntryWritten,
                                 CHOOSE f \in FieldsAt(EntryWritten, EntryBytes)[a] : TRUE, a)
      BY DEF HasFields
    <2>1. PICK f \in EntryFields : a \in EntryWritten[f][1] .. EntryWritten[f][1] + EntryWritten[f][2] - 1
      BY EntryPlaces DEF FieldsAt
    <2>2. a >= 66
      BY <2>1, EntryTable, EntryPlaces DEF IsTableOfFields
    <2>3. EntryFieldsAt = FieldsAt(EntryWritten, EntryBytes)
      BY DEF EntryFieldsAt
    <2> DEFINE F == FieldsAt(EntryWritten, EntryBytes)
    <2> HIDE DEF F
    <2>4. ~ (a < NameBytes) /\ a \notin {64, 65}
      BY <2>2 DEF NameBytes
    <2>5. WriteEntry(e)[a] = IF EntryFieldsAt[a] = {} THEN ZeroByte
                             ELSE Byte(e, EntryWritten, CHOOSE g \in EntryFieldsAt[a] : TRUE, a)
      BY <2>4 DEF WriteEntry
    <2> QED
      BY <2>3, <2>5
  <1>2. EntryBytes \in Nat
    BY DEF EntryBytes
  <1> QED
    BY <1>1, <1>2, EntryTable, EntryPlaces, ReadFieldsFacts

LEMMA NameBack ==
    ASSUME NEW e, IsShortName(e.name)
    PROVE  ReadName(WriteEntry(e)) = e.name
  <1> DEFINE w == WriteEntry(e)
             name == e.name
             l == Len(name)
  <1>1. name \in Seq(Nat) /\ l \in Nat /\ l <= 31 /\ l > 0 /\ name # << >>
    BY DEF IsShortName
  <1> DEFINE rest(a) == IF EntryFieldsAt[a] = {} THEN ZeroByte
                        ELSE Byte(e, EntryWritten, CHOOSE f \in EntryFieldsAt[a] : TRUE, a)
  <1>0. w = [a \in 0 .. 127 |->
                IF a < 64 THEN IF a \div 2 < l THEN <<name[(a \div 2) + 1], a % 2>> ELSE ZeroByte
                ELSE IF a \in {64, 65} THEN <<NameLength(name), a - 64>> ELSE rest(a)]
    BY DEF WriteEntry, EntryBytes, NameBytes
  <1> HIDE DEF w, l, name, rest
  <1>2. \A a \in 0 .. 127 : a < 64 /\ a \div 2 < l => w[a] = <<name[(a \div 2) + 1], a % 2>>
    BY <1>0
  <1>3. \A a \in {64, 65} : w[a] = <<NameLength(name), a - 64>>
    BY <1>0
  <1>4. NameLength(name) = 2 * (l + 1)
    BY <1>1 DEF NameLength, l
  <1>5. Get(w, 64, 2) = 2 * (l + 1)
    <2>1. Holds(w, 64, 2, 2 * (l + 1))
      BY <1>3, <1>4 DEF Holds
    <2> QED
      BY <2>1, GetFacts
  <1>6. ASSUME NEW n \in 1 .. l PROVE Get(w, 2 * (n - 1), 2) = name[n]
    <2> DEFINE p == 2 * (n - 1)
    <2>1. p \in 0 .. 127 /\ p + 1 \in 0 .. 127 /\ p + 1 < 64 /\ p < 64
      BY <1>1
    <2>2. p \div 2 = n - 1 /\ p % 2 = 0 /\ (p + 1) \div 2 = n - 1 /\ (p + 1) % 2 = 1
      BY <1>1
    <2>3. n - 1 < l /\ (n - 1) + 1 = n
      BY <1>1
    <2> HIDE DEF p
    <2>4. w[p] = <<name[n], 0>> /\ w[p + 1] = <<name[n], 1>>
      BY <1>2, <2>1, <2>2, <2>3
    <2>5. Holds(w, p, 2, name[n])
      <3>1. \A a \in 0 .. 2 - 1 : a = 0 \/ a = 1
        OBVIOUS
      <3>2. p + 0 = p
        BY <2>1
      <3> QED
        BY <2>4, <3>1, <3>2 DEF Holds
    <2>6. p \in Nat
      BY <2>1
    <2>7. Get(w, p, 2) = name[n]
      BY <2>5, <2>6, GetFacts
    <2> QED
      BY <2>7 DEF p
  <1>7. (2 * (l + 1) - 2) \div 2 = l
    BY <1>1
  <1>8. ReadName(w) = [n \in 1 .. l |-> Get(w, 2 * (n - 1), 2)]
    BY <1>5, <1>7 DEF ReadName, ReadNameLength, NameBytes
  <1>9. ReadName(w) = [n \in 1 .. l |-> name[n]]
    BY <1>6, <1>8
  <1>10. name = [n \in 1 .. l |-> name[n]]
    BY <1>1 DEF l
  <1> QED
    BY <1>9, <1>10 DEF w, name

\* What was written is read back.
LEMMA EntryBack ==
    ASSUME NEW e \in DirRecord, IsShortName(e.name)
    PROVE  ReadEntry(WriteEntry(e)) = e
  <1> DEFINE r == ReadEntry(WriteEntry(e))
             Fields == EntryFields \cup {"name"}
  <1>1. r = [f \in Fields |-> IF f = "name" THEN ReadName(WriteEntry(e))
                              ELSE ReadFields(WriteEntry(e), EntryRead)[f]]
    BY EntryTable, EntryPlaces DEF ReadEntry
  <1>2. \A f \in EntryFields : ReadFields(WriteEntry(e), EntryRead)[f] = e[f]
    BY EntryFieldsBack, EntryTable, EntryPlaces DEF ReadFields
  <1>3. ReadName(WriteEntry(e)) = e["name"]
    BY NameBack
  <1>4. r = [f \in Fields |-> e[f]]
    BY <1>1, <1>2, <1>3
  <1>5. e = [f \in Fields |-> e[f]]
    <2>1. DOMAIN e = {"type", "color", "left", "right", "child", "name", "stateBits",
                      "creationTime", "modifiedTime", "start", "size"}
      BY DEF DirRecord
    <2>2. DOMAIN e = Fields
      BY <2>1 DEF EntryFields
    <2>3. e = [f \in DOMAIN e |-> e[f]]
      BY DEF DirRecord
    <2> QED
      BY <2>2, <2>3
  <1> QED
    BY <1>4, <1>5

\* Where nothing was written there is no name.
LEMMA NoName == ReadName(NoEntry) = << >>
  <1>1. \A a \in 0 .. 127 : NoEntry[a] = <<0, 0>>
    BY DEF NoEntry, ZeroByte, EntryBytes
  <1>2. Get(NoEntry, 64, 2) = 0
    <2>1. NoEntry[64] = <<0, 0>> /\ NoEntry[64][1] = 0
      BY <1>1
    <2>2. \A a \in 0 .. 2 - 1 : NoEntry[64 + a][1] = 0
      BY <1>1
    <2> QED
      BY <2>1, <2>2 DEF Get
  <1>3. (0 - 2) \div 2 = -1
    OBVIOUS
  <1>4. ReadName(NoEntry) = [n \in 1 .. -1 |-> Get(NoEntry, 2 * (n - 1), 2)]
    BY <1>2, <1>3 DEF ReadName, ReadNameLength, NameBytes
  <1>5. 1 .. -1 = {}
    OBVIOUS
  <1> QED
    BY <1>4, <1>5
-----------------------------------------------------------------------------
(* The header *)

HeaderFields ==
    {"signature", "minorVersion", "majorVersion", "byteOrder", "sectorShift", "miniSectorShift",
     "numDirectorySectors", "numFatSectors", "firstDirectorySectorLocation",
     "transactionSignatureNumber", "miniStreamCutoffSize", "firstMiniFatSectorLocation",
     "numMiniFatSectors", "firstDifatSectorLocation", "numDifatSectors"}

LEMMA HeaderPlaces ==
    /\ DOMAIN HeaderWritten = HeaderFields
    /\ HeaderWritten["signature"] = <<0, 8>> /\ HeaderWritten["minorVersion"] = <<24, 2>>
    /\ HeaderWritten["majorVersion"] = <<26, 2>> /\ HeaderWritten["byteOrder"] = <<28, 2>>
    /\ HeaderWritten["sectorShift"] = <<30, 2>> /\ HeaderWritten["miniSectorShift"] = <<32, 2>>
    /\ HeaderWritten["numDirectorySectors"] = <<40, 4>> /\ HeaderWritten["numFatSectors"] = <<44, 4>>
    /\ HeaderWritten["firstDirectorySectorLocation"] = <<48, 4>>
    /\ HeaderWritten["transactionSignatureNumber"] = <<52, 4>>
    /\ HeaderWritten["miniStreamCutoffSize"] = <<56, 4>>
    /\ HeaderWritten["firstMiniFatSectorLocation"] = <<60, 4>>
    /\ HeaderWritten["numMiniFatSectors"] = <<64, 4>>
    /\ HeaderWritten["firstDifatSectorLocation"] = <<68, 4>>
    /\ HeaderWritten["numDifatSectors"] = <<72, 4>>
  BY DEF HeaderWritten, HeaderFields

LEMMA HeaderTable ==
    /\ IsTableOfFields(HeaderWritten, DifatBytes)
    /\ HeaderRead = HeaderWritten
  <1>1. \A f \in HeaderFields :
            \/ f = "signature" \/ f = "minorVersion" \/ f = "majorVersion" \/ f = "byteOrder"
            \/ f = "sectorShift" \/ f = "miniSectorShift" \/ f = "numDirectorySectors"
            \/ f = "numFatSectors" \/ f = "firstDirectorySectorLocation"
            \/ f = "transactionSignatureNumber" \/ f = "miniStreamCutoffSize"
            \/ f = "firstMiniFatSectorLocation" \/ f = "numMiniFatSectors"
            \/ f = "firstDifatSectorLocation" \/ f = "numDifatSectors"
    BY DEF HeaderFields
  <1>2. \A f \in HeaderFields :
            /\ HeaderWritten[f][1] \in Nat /\ HeaderWritten[f][2] \in Nat /\ HeaderWritten[f][2] > 0
            /\ HeaderWritten[f][1] + HeaderWritten[f][2] <= 76
    BY <1>1, HeaderPlaces
  <1> DEFINE Apart(f) == \A g \in HeaderFields :
                f # g => \/ HeaderWritten[f][1] + HeaderWritten[f][2] <= HeaderWritten[g][1]
                         \/ HeaderWritten[g][1] + HeaderWritten[g][2] <= HeaderWritten[f][1]
  <1>3. \A f \in HeaderFields : Apart(f)
    <2>1. Apart("signature")
      BY <1>1, HeaderPlaces
    <2>2. Apart("minorVersion")
      BY <1>1, HeaderPlaces
    <2>3. Apart("majorVersion")
      BY <1>1, HeaderPlaces
    <2>4. Apart("byteOrder")
      BY <1>1, HeaderPlaces
    <2>5. Apart("sectorShift")
      BY <1>1, HeaderPlaces
    <2>6. Apart("miniSectorShift")
      BY <1>1, HeaderPlaces
    <2>7. Apart("numDirectorySectors")
      BY <1>1, HeaderPlaces
    <2>8. Apart("numFatSectors")
      BY <1>1, HeaderPlaces
    <2>9. Apart("firstDirectorySectorLocation")
      BY <1>1, HeaderPlaces
    <2>10. Apart("transactionSignatureNumber")
      BY <1>1, HeaderPlaces
    <2>11. Apart("miniStreamCutoffSize")
      BY <1>1, HeaderPlaces
    <2>12. Apart("firstMiniFatSectorLocation")
      BY <1>1, HeaderPlaces
    <2>13. Apart("numMiniFatSectors")
      BY <1>1, HeaderPlaces
    <2>14. Apart("firstDifatSectorLocation")
      BY <1>1, HeaderPlaces
    <2>15. Apart("numDifatSectors")
      BY <1>1, HeaderPlaces
    <2> HIDE DEF Apart
    <2> QED
      BY <1>1, <2>1, <2>2, <2>3, <2>4, <2>5, <2>6, <2>7, <2>8, <2>9, <2>10, <2>11, <2>12, <2>13, <2>14, <2>15
  <1>4. HeaderRead = HeaderWritten
    BY DEF HeaderRead, HeaderWritten
  <1> QED
    BY <1>2, <1>3, <1>4, HeaderPlaces DEF IsTableOfFields, DifatBytes

LEMMA HeaderFieldsBack ==
    ASSUME NEW h
    PROVE  /\ DOMAIN ReadHeaderRecord(WriteHeader(h)) = HeaderFields
           /\ \A f \in HeaderFields : ReadHeaderRecord(WriteHeader(h))[f] = h[f]
  <1>1. HasFields(WriteHeader(h), h, HeaderWritten, DifatBytes)
    <2> SUFFICES ASSUME NEW a \in 0 .. DifatBytes - 1, FieldsAt(HeaderWritten, DifatBytes)[a] # {}
                 PROVE  WriteHeader(h)[a] =
                            Byte(h, HeaderWritten,
                                 CHOOSE f \in FieldsAt(HeaderWritten, DifatBytes)[a] : TRUE, a)
      BY DEF HasFields
    <2>1. a \in 0 .. HeaderBytes - 1 /\ ~ (a >= DifatBytes)
      BY Entries DEF DifatBytes, HeaderBytes
    <2>2. HeaderFieldsAt = FieldsAt(HeaderWritten, DifatBytes)
      BY DEF HeaderFieldsAt
    <2>3. WriteHeader(h)[a] = IF HeaderFieldsAt[a] = {} THEN ZeroByte
                              ELSE Byte(h, HeaderWritten, CHOOSE g \in HeaderFieldsAt[a] : TRUE, a)
      BY <2>1 DEF WriteHeader
    <2> QED
      BY <2>2, <2>3
  <1>2. DifatBytes \in Nat
    BY DEF DifatBytes
  <1>3. \A f \in HeaderFields :
           Get(WriteHeader(h), HeaderWritten[f][1], HeaderWritten[f][2]) = h[f]
    BY <1>1, <1>2, HeaderTable, HeaderPlaces, ReadFieldsFacts
  <1>4. ReadHeaderRecord(WriteHeader(h)) =
            [f \in HeaderFields |-> Get(WriteHeader(h), HeaderWritten[f][1], HeaderWritten[f][2])]
    BY HeaderTable, HeaderPlaces DEF ReadHeaderRecord, ReadFields
  <1> QED
    BY <1>3, <1>4

\* The list in the header's slots.
LEMMA AddDifatBack ==
    ASSUME NEW h, NEW m \in 0 .. HeaderSlots, h.difat = [x \in 1 .. m |-> h.difat[x]],
           \A x \in 1 .. m : h.difat[x] \in Nat
    PROVE  AddDifat(WriteHeader(h)) = h.difat
  <1> DEFINE w == WriteHeader(h)
             l == h.difat
             slots == [x \in 1 .. HeaderSlots |-> Get(w, DifatBytes + (4 * (x - 1)), 4)]
             places == {x \in 1 .. HeaderSlots : slots[x] # FREESECT}
             Word(x) == IF x <= m THEN l[x] ELSE FREESECT
  <1>1. Len(l) = m
    <2>1. m \in Nat
      BY Entries
    <2> QED
      BY <2>1
  <1>2. ASSUME NEW a \in 0 .. HeaderBytes - 1, a >= 76
        PROVE  w[a] = <<SlotWord(h, (a - 76) \div 4), (a - 76) % 4>>
    <2> DEFINE rest(b) == IF HeaderFieldsAt[b] = {} THEN ZeroByte
                          ELSE Byte(h, HeaderWritten, CHOOSE f \in HeaderFieldsAt[b] : TRUE, b)
               slot(b) == <<SlotWord(h, (b - 76) \div 4), (b - 76) % 4>>
    <2>1. w = [b \in 0 .. HeaderBytes - 1 |-> IF b >= 76 THEN slot(b) ELSE rest(b)]
      BY DEF WriteHeader, DifatBytes
    <2>2. w[a] = slot(a)
      <3> HIDE DEF w, slot, rest
      <3> QED
        BY <1>2, <2>1
    <2> QED
      BY <2>2
  <1>3. ASSUME NEW x \in 1 .. HeaderSlots
        PROVE  Get(w, DifatBytes + (4 * (x - 1)), 4) = Word(x)
    <2> DEFINE p == 76 + (4 * (x - 1))
    <2>1. p \in Nat /\ p >= 76 /\ p + 3 <= HeaderBytes - 1
      BY Entries DEF HeaderBytes, DifatBytes
    <2>2. x - 1 \in Nat /\ (x - 1) + 1 = x
      BY Entries
    <2>3. SlotWord(h, x - 1) = Word(x)
      <3>1. x - 1 < m <=> x <= m
        BY Entries
      <3> QED
        BY <1>1, <2>2, <3>1 DEF SlotWord
    <2>4. ASSUME NEW a \in 0 .. 3 PROVE w[p + a] = <<Word(x), a>>
      <3>1. (p + a) - 76 = ((x - 1) * 4) + a
        BY <2>2
      <3>2. (((x - 1) * 4) + a) \div 4 = x - 1 /\ (((x - 1) * 4) + a) % 4 = a
        BY <2>2
      <3>3. p + a \in 0 .. HeaderBytes - 1 /\ p + a >= 76
        BY <2>1, Entries DEF HeaderBytes, DifatBytes
      <3> HIDE DEF p, w, Word
      <3>4. w[p + a] = <<SlotWord(h, ((p + a) - 76) \div 4), ((p + a) - 76) % 4>>
        BY <1>2, <3>3
      <3> QED
        BY <2>3, <3>1, <3>2, <3>4
    <2> HIDE DEF w, Word
    <2>5. Holds(w, p, 4, Word(x))
      <3>1. 4 - 1 = 3
        OBVIOUS
      <3> HIDE DEF p
      <3> QED
        BY <2>4, <3>1 DEF Holds
    <2>6. Get(w, p, 4) = Word(x)
      <3> HIDE DEF p
      <3> QED
        BY <2>1, <2>5, GetFacts
    <2> QED
      BY <2>6 DEF DifatBytes
  <1> HIDE DEF w
  <1>4. slots = [x \in 1 .. HeaderSlots |-> Word(x)]
    BY <1>3
  <1>5. Len(slots) = HeaderSlots
    BY Entries
  <1>6. AddDifat(w) = Keep(slots, places)
    BY DEF AddDifat
  <1>7. \A x \in 1 .. HeaderSlots : x \in places <=> x <= m
    <2> SUFFICES ASSUME NEW x \in 1 .. HeaderSlots PROVE slots[x] # FREESECT <=> x <= m
      OBVIOUS
    <2>1. slots[x] = Word(x)
      BY <1>4
    <2>2. x <= m => x \in 1 .. m
      BY Entries
    <2> HIDE DEF slots, l
    <2> QED
      BY <2>1, <2>2 DEF FREESECT, l
  <1> HIDE DEF slots, places
  <1>8. Keep(slots, places) = Prefix(slots, m)
    BY <1>5, <1>7, Entries, KeepFirst
  <1>9. Prefix(slots, m) = [x \in 1 .. m |-> l[x]]
    <2>1. \A x \in 1 .. m : slots[x] = l[x]
      <3> SUFFICES ASSUME NEW x \in 1 .. m PROVE slots[x] = l[x]
        OBVIOUS
      <3>1. x \in 1 .. HeaderSlots /\ x <= m
        BY Entries
      <3> HIDE DEF l
      <3> QED
        BY <1>4, <3>1
    <2> HIDE DEF l
    <2> QED
      BY <2>1 DEF Prefix
  <1> QED
    BY <1>6, <1>8, <1>9 DEF w
-----------------------------------------------------------------------------
(* The steps *)

\* What has been done when pc is in such a set: nothing else leads there.
AfterEntries == {"streams", "done"}
AfterMiniFat == {"entries"} \cup AfterEntries
AfterFat == {"mini fat"} \cup AfterMiniFat
AfterHeader == {"tables to read"} \cup AfterFat
AfterContents == {"header"} \cup AfterHeader
AfterDirectory == {"contents"} \cup AfterContents
AfterTables == {"directory"} \cup AfterDirectory
AfterCount == {"tables"} \cup AfterTables
AfterPlace == {"layout"} \cup AfterCount

LEMMA WriterSteps ==
    /\ PlaceMiniStreams => /\ pc = "ministreams" /\ pc' \in {"writer refused", "layout"}
                           /\ UNCHANGED <<size, image, next, reader>>
    /\ CountSectors => /\ pc = "layout" /\ pc' = "tables"
                       /\ UNCHANGED <<size, miniFatNum, next, reader>>
    /\ WriteTables => /\ pc = "tables" /\ pc' \in {"writer refused", "directory"}
                      /\ UNCHANGED <<writer, next, reader>>
    /\ WriteDirectory => /\ pc = "directory" /\ pc' = "contents"
                         /\ UNCHANGED <<writer, next, reader>>
    /\ WriteContents => /\ pc = "contents" /\ pc' \in {"contents", "header"}
                        /\ UNCHANGED <<writer, reader>>
  <1>1. PlaceMiniStreams => /\ pc = "ministreams" /\ pc' \in {"writer refused", "layout"}
                            /\ UNCHANGED <<size, image, next, reader>>
    BY DEF PlaceMiniStreams
  <1>2. CountSectors => /\ pc = "layout" /\ pc' = "tables"
                        /\ UNCHANGED <<size, miniFatNum, next, reader>>
    BY DEF CountSectors
  <1>3. WriteTables => /\ pc = "tables" /\ pc' \in {"writer refused", "directory"}
                       /\ UNCHANGED <<writer, next, reader>>
    BY DEF WriteTables
  <1>4. WriteDirectory => /\ pc = "directory" /\ pc' = "contents"
                          /\ UNCHANGED <<writer, next, reader>>
    BY DEF WriteDirectory
  <1>5. WriteContents => /\ pc = "contents" /\ pc' \in {"contents", "header"}
                         /\ UNCHANGED <<writer, reader>>
    BY DEF WriteContents
  <1> QED
    BY <1>1, <1>2, <1>3, <1>4, <1>5

LEMMA ReaderSteps ==
    /\ ReadHeader => /\ pc = "header" /\ pc' \in {"reader refused", "tables to read"}
                     /\ UNCHANGED <<writer, image, next, fats, miniFats, entries, miniData, loaded>>
    /\ ReadFat => /\ pc = "tables to read" /\ pc' \in {"reader refused", "mini fat"}
                  /\ UNCHANGED <<writer, image, next, header, miniFats, entries, miniData, loaded>>
    /\ ReadMiniFat => /\ pc = "mini fat" /\ pc' \in {"reader refused", "entries"}
                      /\ UNCHANGED <<writer, image, next, header, fats, entries, miniData, loaded>>
    /\ ReadEntries => /\ pc = "entries" /\ pc' \in {"reader refused", "streams"}
                      /\ UNCHANGED <<writer, image, next, tables, miniData>>
    /\ LoadMiniData => /\ pc = "streams" /\ pc' \in {"reader refused", "streams", "done"}
                       /\ UNCHANGED <<writer, image, tables, entries, loaded>>
    /\ SkipStorage => /\ pc = "streams" /\ pc' \in {"streams", "done"}
                      /\ UNCHANGED <<writer, image, reader>>
    /\ LoadContent => /\ pc = "streams" /\ pc' \in {"reader refused", "streams", "done"}
                      /\ UNCHANGED <<writer, image, tables, entries, miniData>>
    /\ Stop => UNCHANGED vars
  <1>1. ReadHeader => /\ pc = "header" /\ pc' \in {"reader refused", "tables to read"}
                      /\ UNCHANGED <<writer, image, next, fats, miniFats, entries, miniData, loaded>>
    BY DEF ReadHeader, Refuse
  <1>2. ReadFat => /\ pc = "tables to read" /\ pc' \in {"reader refused", "mini fat"}
                   /\ UNCHANGED <<writer, image, next, header, miniFats, entries, miniData, loaded>>
    BY DEF ReadFat, Refuse
  <1>3. ReadMiniFat => /\ pc = "mini fat" /\ pc' \in {"reader refused", "entries"}
                       /\ UNCHANGED <<writer, image, next, header, fats, entries, miniData, loaded>>
    BY DEF ReadMiniFat, Refuse
  <1>4. ReadEntries => /\ pc = "entries" /\ pc' \in {"reader refused", "streams"}
                       /\ UNCHANGED <<writer, image, next, tables, miniData>>
    BY DEF ReadEntries, Refuse
  <1>5. LoadMiniData => /\ pc = "streams" /\ pc' \in {"reader refused", "streams", "done"}
                        /\ UNCHANGED <<writer, image, tables, entries, loaded>>
    BY DEF LoadMiniData, Refuse, NextEntry
  <1>6. SkipStorage => /\ pc = "streams" /\ pc' \in {"streams", "done"}
                       /\ UNCHANGED <<writer, image, reader>>
    BY DEF SkipStorage, NextEntry
  <1>7. LoadContent => /\ pc = "streams" /\ pc' \in {"reader refused", "streams", "done"}
                       /\ UNCHANGED <<writer, image, tables, entries, miniData>>
    BY DEF LoadContent, Refuse, NextEntry
  <1>8. Stop => UNCHANGED vars
    BY DEF Stop
  <1> QED
    BY <1>1, <1>2, <1>3, <1>4, <1>5, <1>6, <1>7, <1>8

\* Which step leads to a phase, and what every other leaves alone.
LEMMA Flow ==
    ASSUME [Next]_vars
    PROVE  /\ size' = size
           /\ pc' # "writer refused" => pc # "writer refused"
           /\ pc' \in AfterPlace => PlaceMiniStreams \/ pc \in AfterPlace
           /\ pc' \in AfterCount => CountSectors \/ (pc \in AfterCount /\ UNCHANGED writer)
           /\ pc' \in AfterTables => WriteTables \/ (pc \in AfterTables /\ UNCHANGED writer)
           /\ pc' \in AfterDirectory => WriteDirectory \/ (pc \in AfterDirectory /\ UNCHANGED writer)
           /\ pc' \in AfterContents =>
                WriteContents \/ (pc \in AfterContents /\ UNCHANGED <<writer, image>>)
           /\ pc' \in AfterHeader =>
                ReadHeader \/ (pc \in AfterHeader /\ UNCHANGED <<writer, image, header>>)
           /\ pc' \in AfterFat =>
                ReadFat \/ (pc \in AfterFat /\ UNCHANGED <<writer, image, header, fats>>)
           /\ pc' \in AfterMiniFat =>
                ReadMiniFat \/ (pc \in AfterMiniFat /\ UNCHANGED <<writer, image, header, fats, miniFats>>)
           /\ pc' \in AfterEntries =>
                ReadEntries \/ (pc \in AfterEntries /\ UNCHANGED <<writer, image, tables, entries>>)
  <1> DEFINE Goal ==
        /\ size' = size
        /\ pc' # "writer refused" => pc # "writer refused"
        /\ pc' \in AfterPlace => PlaceMiniStreams \/ pc \in AfterPlace
        /\ pc' \in AfterCount => CountSectors \/ (pc \in AfterCount /\ UNCHANGED writer)
        /\ pc' \in AfterTables => WriteTables \/ (pc \in AfterTables /\ UNCHANGED writer)
        /\ pc' \in AfterDirectory => WriteDirectory \/ (pc \in AfterDirectory /\ UNCHANGED writer)
        /\ pc' \in AfterContents =>
             WriteContents \/ (pc \in AfterContents /\ UNCHANGED <<writer, image>>)
        /\ pc' \in AfterHeader =>
             ReadHeader \/ (pc \in AfterHeader /\ UNCHANGED <<writer, image, header>>)
        /\ pc' \in AfterFat =>
             ReadFat \/ (pc \in AfterFat /\ UNCHANGED <<writer, image, header, fats>>)
        /\ pc' \in AfterMiniFat =>
             ReadMiniFat \/ (pc \in AfterMiniFat /\ UNCHANGED <<writer, image, header, fats, miniFats>>)
        /\ pc' \in AfterEntries =>
             ReadEntries \/ (pc \in AfterEntries /\ UNCHANGED <<writer, image, tables, entries>>)
  <1> USE DEF AfterPlace, AfterCount, AfterTables, AfterDirectory, AfterContents, AfterHeader,
              AfterFat, AfterMiniFat, AfterEntries, writer, reader, tables
  <1>1. CASE PlaceMiniStreams
    BY <1>1, WriterSteps
  <1>2. CASE CountSectors
    BY <1>2, WriterSteps
  <1>3. CASE WriteTables
    BY <1>3, WriterSteps
  <1>4. CASE WriteDirectory
    BY <1>4, WriterSteps
  <1>5. CASE WriteContents
    BY <1>5, WriterSteps
  <1>6. CASE ReadHeader
    BY <1>6, ReaderSteps
  <1>7. CASE ReadFat
    BY <1>7, ReaderSteps
  <1>8. CASE ReadMiniFat
    BY <1>8, ReaderSteps
  <1>9. CASE ReadEntries
    BY <1>9, ReaderSteps
  <1>10. CASE LoadMiniData
    BY <1>10, ReaderSteps
  <1>11. CASE SkipStorage
    BY <1>11, ReaderSteps
  <1>12. CASE LoadContent
    BY <1>12, ReaderSteps
  <1>13. CASE UNCHANGED vars
    BY <1>13 DEF vars
  <1>14. CASE Stop
    BY <1>13, <1>14, ReaderSteps
  <1> QED
    BY <1>1, <1>2, <1>3, <1>4, <1>5, <1>6, <1>7, <1>8, <1>9, <1>10, <1>11, <1>12, <1>13, <1>14 DEF Next
-----------------------------------------------------------------------------
(* The writer's directory *)

LEMMA Geometry ==
    /\ MiniSize \in Nat /\ MiniSize > 0 /\ MinisPerSector \in Nat /\ MinisPerSector > 0
    /\ DirsPerSector \in Nat /\ DirsPerSector > 0 /\ Cutoff \in Nat
    /\ SectorSize \in Nat /\ SectorSize > 0 /\ SectorSize = MiniSize * MinisPerSector
  <1>1. /\ MiniSize \in Nat /\ MiniSize > 0 /\ MinisPerSector \in Nat /\ MinisPerSector > 0
        /\ DirsPerSector \in Nat /\ DirsPerSector > 0 /\ Cutoff \in Nat
    BY GeometryAssumption
  <1>2. MiniSize * MinisPerSector \in Nat
    BY <1>1, Times
  <1>3. 0 * MinisPerSector + MinisPerSector <= MiniSize * MinisPerSector
    BY <1>1, Times
  <1>4. MiniSize * MinisPerSector > 0
    BY <1>1, <1>2, <1>3
  <1> QED
    BY <1>1, <1>2, <1>4 DEF SectorSize

LEMMA DocumentFacts ==
    ASSUME NEW z \in Documents
    PROVE  /\ z = [s \in Streams |-> z[s]]
           /\ z[Package] \in Nat /\ z[Package] > 0
           /\ \A k \in 1 .. 5 : z[MiniStreams[k]] \in 1 .. Cutoff - 1
  <1>1. PICK info \in InfoSizes, package \in PackageSizes :
            z = [s \in Streams |-> CASE s = Package -> package
                                     [] s = "EncryptionInfo" -> info
                                     [] OTHER -> FixedSizes[s]]
    BY DEF Documents
  <1>2. info \in 1 .. Cutoff - 1 /\ package \in Nat /\ package > 0
    BY SizesAssumption
  <1> DEFINE body(s) == CASE s = Package -> package
                          [] s = "EncryptionInfo" -> info
                          [] OTHER -> FixedSizes[s]
  <1>3. z = [s \in Streams |-> z[s]] /\ \A s \in Streams : z[s] = body(s)
    <2>1. z = [s \in Streams |-> body(s)]
      BY <1>1
    <2> HIDE DEF body
    <2> QED
      BY <2>1
  <1>4. Package = "EncryptedPackage" /\ Package \in Streams
    BY DEF Package, Streams
  <1>5. z[Package] = package
    <2>1. body(Package) = package
      BY <1>4
    <2> QED
      BY <1>3, <1>4, <2>1
  <1>6. \A k \in 1 .. 5 : MiniStreams[k] \in Streams /\ MiniStreams[k] # Package
    <2>1. \A k \in 1 .. 5 : MiniStreams[k] \in Streams
      BY MiniStreamsAre DEF Streams
    <2>2. \A k \in 1 .. 5 : MiniStreams[k] # Package
      <3>1. \A k \in 1 .. 5 : MiniAt[k] \in 1 .. 11 /\ MiniAt[k] # 2
        BY MiniStreamsAre
      <3> QED
        BY <3>1, MiniStreamsAre, DirNamesDiffer, StreamsAre
    <2> QED
      BY <2>1, <2>2
  <1>7. ASSUME NEW s \in Streams, s # Package PROVE z[s] \in 1 .. Cutoff - 1
    <2>1. z[s] = body(s)
      BY <1>3
    <2>2. CASE s = "EncryptionInfo"
      <3>1. body(s) = info
        BY <1>7, <2>2
      <3> HIDE DEF body
      <3> QED
        BY <1>2, <2>1, <3>1
    <2>3. CASE s # "EncryptionInfo"
      <3>1. body(s) = FixedSizes[s]
        BY <1>7, <2>3
      <3>2. s \in Streams \ {Package, "EncryptionInfo"}
        BY <1>7, <2>3
      <3>3. FixedSizes[s] \in 1 .. Cutoff - 1
        BY <3>2, SizesAssumption
      <3> HIDE DEF body
      <3> QED
        BY <2>1, <3>1, <3>3
    <2> QED
      BY <2>2, <2>3
  <1> HIDE DEF body
  <1> QED
    BY <1>2, <1>3, <1>5, <1>6, <1>7

InfoRecord == [type : Int, color : {Red, Black}, left : Int, right : Int, child : Int]

IsInfo(record, t) == record \in InfoRecord /\ record.type = t

LEMMA InfoFacts ==
    ASSUME NEW t \in Int, NEW c \in {Red, Black}, NEW l \in Int, NEW r \in Int, NEW h \in Int
    PROVE  IsInfo(Info(t, c, l, r, h), t)
  BY DEF Info, InfoRecord, IsInfo

LEMMA IdIsInt == \A x \in 1 .. 11 : Id(DirNames[x]) \in Int
  <1> SUFFICES ASSUME NEW x \in 1 .. 11 PROVE Id(DirNames[x]) \in Int
    OBVIOUS
  <1> DEFINE c == CHOOSE y \in 1 .. DirNum : DirNames[y] = DirNames[x]
  <1>1. c \in 1 .. 11
    BY DirNumIs
  <1>2. Id(DirNames[x]) = c - 1
    BY DEF Id
  <1> HIDE DEF c
  <1> QED
    BY <1>1, <1>2

LEMMA InfoTblFacts ==
    \A x \in 1 .. 11 :
        /\ InfoTbl[x] \in InfoRecord
        /\ InfoTbl[x].type = IF x = 1 THEN RootStorageObject
                             ELSE IF x \in HasStream THEN StreamObject ELSE StorageObject
  <1>1. /\ NOSTREAM \in Int /\ Red \in {Red, Black} /\ Black \in {Red, Black}
        /\ RootStorageObject \in Int /\ StreamObject \in Int /\ StorageObject \in Int
    BY DEF NOSTREAM, FREESECT, Red, Black, RootStorageObject, StreamObject, StorageObject
  <1>2. /\ Id("EncryptionInfo") \in Int /\ Id("DataSpaceMap") \in Int /\ Id("Version") \in Int
        /\ Id("DataSpaceInfo") \in Int /\ Id("TransformInfo") \in Int
        /\ Id("StrongEncryptionDataSpace") \in Int /\ Id("StrongEncryptionTransform") \in Int
        /\ Id("~Primary") \in Int /\ Id("~DataSpaces") \in Int /\ Id(Package) \in Int
    <2>1. /\ Id(DirNames[11]) \in Int /\ Id(DirNames[5]) \in Int /\ Id(DirNames[4]) \in Int
          /\ Id(DirNames[6]) \in Int /\ Id(DirNames[8]) \in Int /\ Id(DirNames[7]) \in Int
          /\ Id(DirNames[9]) \in Int /\ Id(DirNames[10]) \in Int /\ Id(DirNames[3]) \in Int
          /\ Id(DirNames[2]) \in Int
      BY IdIsInt
    <2> QED
      BY <2>1, DirNamesAre DEF Package
  <1>3. /\ InfoTbl[1] = Info(RootStorageObject, Red, NOSTREAM, NOSTREAM, Id("EncryptionInfo"))
        /\ InfoTbl[2] = Info(StreamObject, Red, NOSTREAM, NOSTREAM, NOSTREAM)
        /\ InfoTbl[3] = Info(StorageObject, Red, NOSTREAM, NOSTREAM, Id("DataSpaceMap"))
        /\ InfoTbl[4] = Info(StreamObject, Black, NOSTREAM, NOSTREAM, NOSTREAM)
        /\ InfoTbl[5] = Info(StreamObject, Black, Id("Version"), Id("DataSpaceInfo"), NOSTREAM)
        /\ InfoTbl[6] = Info(StorageObject, Black, NOSTREAM, Id("TransformInfo"),
                             Id("StrongEncryptionDataSpace"))
        /\ InfoTbl[7] = Info(StreamObject, Black, NOSTREAM, NOSTREAM, NOSTREAM)
        /\ InfoTbl[8] = Info(StorageObject, Red, NOSTREAM, NOSTREAM, Id("StrongEncryptionTransform"))
        /\ InfoTbl[9] = Info(StorageObject, Black, NOSTREAM, NOSTREAM, Id("~Primary"))
        /\ InfoTbl[10] = Info(StreamObject, Black, NOSTREAM, NOSTREAM, NOSTREAM)
        /\ InfoTbl[11] = Info(StreamObject, Black, Id("~DataSpaces"), Id(Package), NOSTREAM)
    BY DEF InfoTbl
  <1>4. IsInfo(InfoTbl[1], RootStorageObject)
    <2>1. IsInfo(Info(RootStorageObject, Red, NOSTREAM, NOSTREAM, Id("EncryptionInfo")),
                 RootStorageObject)
      BY <1>1, <1>2, InfoFacts
    <2> QED
      BY <1>3, <2>1
  <1>5. IsInfo(InfoTbl[2], StreamObject)
    <2>1. IsInfo(Info(StreamObject, Red, NOSTREAM, NOSTREAM, NOSTREAM), StreamObject)
      BY <1>1, InfoFacts
    <2> QED
      BY <1>3, <2>1
  <1>6. IsInfo(InfoTbl[3], StorageObject)
    <2>1. IsInfo(Info(StorageObject, Red, NOSTREAM, NOSTREAM, Id("DataSpaceMap")),
                 StorageObject)
      BY <1>1, <1>2, InfoFacts
    <2> QED
      BY <1>3, <2>1
  <1>7. IsInfo(InfoTbl[4], StreamObject)
    <2>1. IsInfo(Info(StreamObject, Black, NOSTREAM, NOSTREAM, NOSTREAM), StreamObject)
      BY <1>1, InfoFacts
    <2> QED
      BY <1>3, <2>1
  <1>8. IsInfo(InfoTbl[5], StreamObject)
    <2>1. IsInfo(Info(StreamObject, Black, Id("Version"), Id("DataSpaceInfo"), NOSTREAM),
                 StreamObject)
      BY <1>1, <1>2, InfoFacts
    <2> QED
      BY <1>3, <2>1
  <1>9. IsInfo(InfoTbl[6], StorageObject)
    <2>1. IsInfo(Info(StorageObject, Black, NOSTREAM, Id("TransformInfo"), Id("StrongEncryptionDataSpace")),
                 StorageObject)
      BY <1>1, <1>2, InfoFacts
    <2> QED
      BY <1>3, <2>1
  <1>10. IsInfo(InfoTbl[7], StreamObject)
    <2>1. IsInfo(Info(StreamObject, Black, NOSTREAM, NOSTREAM, NOSTREAM), StreamObject)
      BY <1>1, InfoFacts
    <2> QED
      BY <1>3, <2>1
  <1>11. IsInfo(InfoTbl[8], StorageObject)
    <2>1. IsInfo(Info(StorageObject, Red, NOSTREAM, NOSTREAM, Id("StrongEncryptionTransform")),
                 StorageObject)
      BY <1>1, <1>2, InfoFacts
    <2> QED
      BY <1>3, <2>1
  <1>12. IsInfo(InfoTbl[9], StorageObject)
    <2>1. IsInfo(Info(StorageObject, Black, NOSTREAM, NOSTREAM, Id("~Primary")),
                 StorageObject)
      BY <1>1, <1>2, InfoFacts
    <2> QED
      BY <1>3, <2>1
  <1>13. IsInfo(InfoTbl[10], StreamObject)
    <2>1. IsInfo(Info(StreamObject, Black, NOSTREAM, NOSTREAM, NOSTREAM), StreamObject)
      BY <1>1, InfoFacts
    <2> QED
      BY <1>3, <2>1
  <1>14. IsInfo(InfoTbl[11], StreamObject)
    <2>1. IsInfo(Info(StreamObject, Black, Id("~DataSpaces"), Id(Package), NOSTREAM),
                 StreamObject)
      BY <1>1, <1>2, InfoFacts
    <2> QED
      BY <1>3, <2>1
  <1> DEFINE Type(x) == IF x = 1 THEN RootStorageObject
                        ELSE IF x \in HasStream THEN StreamObject ELSE StorageObject
  <1> SUFFICES ASSUME NEW x \in 1 .. 11
               PROVE  InfoTbl[x] \in InfoRecord /\ InfoTbl[x].type = Type(x)
    OBVIOUS
  <1>15. \/ x = 1 \/ x = 2 \/ x = 3 \/ x = 4 \/ x = 5 \/ x = 6
         \/ x = 7 \/ x = 8 \/ x = 9 \/ x = 10 \/ x = 11
    OBVIOUS
  <1>16. CASE x = 1
    BY <1>4, <1>16 DEF IsInfo
  <1>17. CASE x \in HasStream
    <2>1. IsInfo(InfoTbl[x], StreamObject)
      BY <1>5, <1>7, <1>8, <1>10, <1>13, <1>14, <1>17 DEF HasStream
    <2>2. x # 1
      BY <1>17 DEF HasStream
    <2> QED
      BY <1>17, <2>1, <2>2 DEF IsInfo
  <1>18. CASE x # 1 /\ x \notin HasStream
    <2>1. IsInfo(InfoTbl[x], StorageObject)
      BY <1>6, <1>9, <1>11, <1>12, <1>15, <1>18 DEF HasStream
    <2> QED
      BY <1>18, <2>1 DEF IsInfo
  <1> QED
    BY <1>16, <1>17, <1>18

\* The same colour and the same siblings and child.
SameIds(j, e) ==
    /\ j.color = e.color /\ j.left = e.left /\ j.right = e.right /\ j.child = e.child

LEMMA SameIdsJoin ==
    ASSUME NEW j, NEW e, NEW i, SameIds(j, e), SameIds(e, i)
    PROVE  SameIds(j, i)
  BY DEF SameIds

\* Entries of the document z: the layout decides only where they start, and how
\* long the mini stream is.
IsEntries(z, d) ==
    /\ d \in [1 .. 11 -> DirRecord]
    /\ \A x \in 1 .. 11 : SameIds(d[x], InfoTbl[x])
    /\ \A x \in 1 .. 11 : d[x].name = WideNames[x] /\ d[x].type = InfoTbl[x].type
    /\ \A x \in 2 .. 11 : d[x].size = IF x \in HasStream THEN z[DirNames[x]] ELSE 0

LEMMA StreamSize ==
    ASSUME NEW z \in Documents, NEW x \in HasStream
    PROVE  z[DirNames[x]] \in Nat /\ z[DirNames[x]] > 0
  <1>1. CASE x = 2
    BY <1>1, DocumentFacts, StreamsAre
  <1>2. CASE x # 2
    <2>1. \E k \in 1 .. 5 : x = MiniAt[k]
      <3>1. MiniAt[1] = 4 /\ MiniAt[2] = 5 /\ MiniAt[3] = 7 /\ MiniAt[4] = 10 /\ MiniAt[5] = 11
        BY DEF MiniAt
      <3> QED
        BY <1>2, <3>1 DEF HasStream
    <2>2. PICK k \in 1 .. 5 : DirNames[x] = MiniStreams[k]
      BY <2>1, MiniStreamsAre
    <2>3. z[MiniStreams[k]] \in 1 .. Cutoff - 1
      BY DocumentFacts
    <2> QED
      BY <2>2, <2>3, Geometry
  <1> QED
    BY <1>1, <1>2

LEMMA MakeDataSpaceFacts ==
    ASSUME NEW z \in Documents
    PROVE  IsEntries(z, MakeDataSpace(z))
  <1> DEFINE Rec(x) ==
        [type |-> InfoTbl[x].type, color |-> InfoTbl[x].color, left |-> InfoTbl[x].left,
         right |-> InfoTbl[x].right, child |-> InfoTbl[x].child, name |-> WideNames[x],
         stateBits |-> 0, creationTime |-> FileTime, modifiedTime |-> FileTime, start |-> 0,
         size |-> IF DirNames[x] \in Streams THEN z[DirNames[x]] ELSE 0]
  <1>1. MakeDataSpace(z) = [x \in 1 .. 11 |-> Rec(x)]
    BY DirNumIs DEF MakeDataSpace
  <1>2. ASSUME NEW x \in 1 .. 11
        PROVE  /\ Rec(x) \in DirRecord
               /\ Rec(x).name = WideNames[x] /\ Rec(x).type = InfoTbl[x].type
               /\ SameIds(Rec(x), InfoTbl[x])
               /\ Rec(x).size = IF x \in HasStream THEN z[DirNames[x]] ELSE 0
    <2> DEFINE sz == IF DirNames[x] \in Streams THEN z[DirNames[x]] ELSE 0
    <2>1. sz = (IF x \in HasStream THEN z[DirNames[x]] ELSE 0) /\ sz \in Int
      BY StreamsAre, StreamSize
    <2>2. InfoTbl[x].type \in Int /\ InfoTbl[x].color \in Int /\ InfoTbl[x].left \in Int
          /\ InfoTbl[x].right \in Int /\ InfoTbl[x].child \in Int
      BY InfoTblFacts DEF InfoRecord, Red, Black
    <2>3. WideNames[x] \in Seq(Nat)
      BY NamesAssumption, DirNumIs
    <2>4. FileTime \in Int
      BY DEF FileTime
    <2> HIDE DEF sz
    <2>5. Rec(x) = [type |-> InfoTbl[x].type, color |-> InfoTbl[x].color, left |-> InfoTbl[x].left,
                    right |-> InfoTbl[x].right, child |-> InfoTbl[x].child, name |-> WideNames[x],
                    stateBits |-> 0, creationTime |-> FileTime, modifiedTime |-> FileTime,
                    start |-> 0, size |-> sz]
      BY DEF sz
    <2> HIDE DEF Rec
    <2>6. Rec(x) \in DirRecord
      BY <2>1, <2>2, <2>3, <2>4, <2>5 DEF DirRecord
    <2>7. Rec(x).name = WideNames[x] /\ Rec(x).type = InfoTbl[x].type /\ Rec(x).size = sz
      BY <2>5
    <2>8. SameIds(Rec(x), InfoTbl[x])
      BY <2>5 DEF SameIds
    <2> QED
      BY <2>1, <2>6, <2>7, <2>8
  <1> HIDE DEF Rec
  <1>3. \A x \in 1 .. 11 : MakeDataSpace(z)[x] = Rec(x)
    BY <1>1
  <1>4. MakeDataSpace(z) \in [1 .. 11 -> DirRecord]
    BY <1>1, <1>2
  <1>5. \A x \in 2 .. 11 : x \in 1 .. 11
    OBVIOUS
  <1> QED
    BY <1>2, <1>3, <1>4, <1>5 DEF IsEntries

\* Changed where it starts, or in its length, an entry is the same otherwise.
LEMMA EntryChanges ==
    ASSUME NEW e \in DirRecord, NEW v \in Int
    PROVE  /\ [e EXCEPT !.start = v] \in DirRecord
           /\ [e EXCEPT !.start = v].start = v
           /\ [e EXCEPT !.start = v].name = e.name
           /\ [e EXCEPT !.start = v].type = e.type
           /\ [e EXCEPT !.start = v].size = e.size
           /\ SameIds([e EXCEPT !.start = v], e)
           /\ [e EXCEPT !.size = v] \in DirRecord
           /\ [e EXCEPT !.size = v].start = e.start
           /\ [e EXCEPT !.size = v].name = e.name
           /\ [e EXCEPT !.size = v].type = e.type
           /\ [e EXCEPT !.size = v].size = v
           /\ SameIds([e EXCEPT !.size = v], e)
  BY DEF DirRecord, SameIds
-----------------------------------------------------------------------------
(* The image of the file *)

IsImage(i) ==
    i = [header |-> i.header, fat |-> i.fat, miniFat |-> i.miniFat, directory |-> i.directory,
         data |-> i.data]

LEMMA ImageOf ==
    ASSUME NEW h, NEW f, NEW m, NEW d, NEW a, NEW j,
           j = [header |-> h, fat |-> f, miniFat |-> m, directory |-> d, data |-> a]
    PROVE  /\ IsImage(j)
           /\ j.header = h /\ j.fat = f /\ j.miniFat = m /\ j.directory = d /\ j.data = a
  BY DEF IsImage

LEMMA NewImage ==
    ASSUME NEW i, IsImage(i), NEW v, NEW w, NEW j, j = [i EXCEPT !.data = v, !.header = w]
    PROVE  IsImage(j) /\ j.data = v /\ j.header = w
  <1> DEFINE h == i.header
             f == i.fat
             m == i.miniFat
             d == i.directory
             a == i.data
  <1>1. i = [header |-> h, fat |-> f, miniFat |-> m, directory |-> d, data |-> a]
    BY DEF IsImage
  <1> HIDE DEF h, f, m, d, a
  <1>2. j = [header |-> w, fat |-> f, miniFat |-> m, directory |-> d, data |-> v]
    BY <1>1
  <1> QED
    BY <1>2, ImageOf DEF h, f, m, d, a

LEMMA NewDirectory ==
    ASSUME NEW i, IsImage(i), NEW v, NEW j, j = [i EXCEPT !.directory = v]
    PROVE  /\ IsImage(j) /\ j.directory = v
           /\ j.header = i.header /\ j.data = i.data /\ j.fat = i.fat /\ j.miniFat = i.miniFat
  <1> DEFINE h == i.header
             f == i.fat
             m == i.miniFat
             d == i.directory
             a == i.data
  <1>1. i = [header |-> h, fat |-> f, miniFat |-> m, directory |-> d, data |-> a]
    BY DEF IsImage
  <1> HIDE DEF h, f, m, d, a
  <1>2. j = [header |-> h, fat |-> f, miniFat |-> m, directory |-> v, data |-> a]
    BY <1>1
  <1> QED
    BY <1>2, ImageOf DEF h, f, m, d, a

LEMMA NewData ==
    ASSUME NEW i, IsImage(i), NEW v, NEW j, j = [i EXCEPT !.data = v]
    PROVE  /\ IsImage(j) /\ j.data = v
           /\ j.header = i.header /\ j.directory = i.directory
           /\ j.fat = i.fat /\ j.miniFat = i.miniFat
  <1> DEFINE h == i.header
             f == i.fat
             m == i.miniFat
             d == i.directory
             a == i.data
  <1>1. i = [header |-> h, fat |-> f, miniFat |-> m, directory |-> d, data |-> a]
    BY DEF IsImage
  <1> HIDE DEF h, f, m, d, a
  <1>2. j = [header |-> h, fat |-> f, miniFat |-> m, directory |-> d, data |-> v]
    BY <1>1
  <1> QED
    BY <1>2, ImageOf DEF h, f, m, d, a

\* What a step leaves of the image.
LEMMA ImageFlow ==
    ASSUME IsImage(image), [Next]_vars
    PROVE  /\ IsImage(image')
           /\ pc' \in AfterCount => \/ CountSectors
                                    \/ /\ image'.header = image.header
                                       /\ DOMAIN image'.data = DOMAIN image.data
           /\ pc' \in AfterTables => WriteTables \/ (image'.fat = image.fat /\ image'.miniFat = image.miniFat)
           /\ pc' \in AfterDirectory => WriteDirectory \/ image'.directory = image.directory
  <1> USE DEF AfterPlace, AfterCount, AfterTables, AfterDirectory, AfterContents, AfterHeader,
              AfterFat, AfterMiniFat, AfterEntries
  <1>1. CASE CountSectors
    <2>1. PICK v, w : image' = [image EXCEPT !.data = v, !.header = w]
      BY <1>1, Zenon DEF CountSectors
    <2>2. pc' = "tables"
      BY <1>1, WriterSteps
    <2>3. IsImage(image')
      BY <2>1, NewImage
    <2> QED
      BY <1>1, <2>2, <2>3
  <1>2. CASE WriteTables
    <2>1. image' = image \/ \E v, w : image' = [image EXCEPT !.fat = v, !.miniFat = w]
      BY <1>2, Zenon DEF WriteTables
    <2>2. IsImage(image') /\ image'.header = image.header /\ image'.data = image.data
      <3>1. CASE image' = image
        BY <3>1
      <3>2. CASE image' # image
        <4>1. PICK v, w : image' = [image EXCEPT !.fat = v, !.miniFat = w]
          BY <2>1, <3>2
        <4> DEFINE h == image.header
                   f == image.fat
                   m == image.miniFat
                   d == image.directory
                   a == image.data
        <4>2. image = [header |-> h, fat |-> f, miniFat |-> m, directory |-> d, data |-> a]
          BY DEF IsImage
        <4> HIDE DEF h, f, m, d, a
        <4>3. image' = [header |-> h, fat |-> v, miniFat |-> w, directory |-> d, data |-> a]
          BY <4>1, <4>2
        <4> QED
          BY <4>3, ImageOf DEF h, a
      <3> QED
        BY <3>1, <3>2
    <2>3. pc' = "directory" \/ pc' = "writer refused"
      BY <1>2, WriterSteps
    <2> QED
      BY <1>2, <2>2, <2>3
  <1>3. CASE WriteDirectory
    <2>1. PICK v : image' = [image EXCEPT !.directory = v]
      BY <1>3, Zenon DEF WriteDirectory
    <2>2. /\ IsImage(image') /\ image'.header = image.header /\ image'.data = image.data
          /\ image'.fat = image.fat /\ image'.miniFat = image.miniFat
      BY <2>1, NewDirectory
    <2> QED
      BY <1>3, <2>2
  <1>4. CASE WriteContents
    <2>1. \/ image' = image
          \/ \E v : image' = [image EXCEPT !.data = v] /\ DOMAIN v = DOMAIN image.data
      <3> DEFINE e == dirs[next]
                 v == [a \in DOMAIN image.data |->
                                IF a \in WriteAt(e) .. WriteAt(e) + e.size - 1
                                THEN <<DirNames[next], a - WriteAt(e) + 1>> ELSE image.data[a]]
      <3>1. image' = image \/ image' = [image EXCEPT !.data = v]
        BY <1>4, Zenon DEF WriteContents
      <3>2. DOMAIN v = DOMAIN image.data
        OBVIOUS
      <3> HIDE DEF v
      <3> QED
        BY <3>1, <3>2
    <2>2. CASE image' = image
      BY <2>2
    <2>3. CASE image' # image
      <3>1. PICK v : image' = [image EXCEPT !.data = v] /\ DOMAIN v = DOMAIN image.data
        BY <2>1, <2>3
      <3>2. /\ IsImage(image') /\ image'.data = v /\ image'.header = image.header
            /\ image'.fat = image.fat /\ image'.miniFat = image.miniFat
            /\ image'.directory = image.directory
        BY <3>1, NewData
      <3> QED
        BY <3>1, <3>2
    <2> QED
      BY <2>2, <2>3
  <1>5. CASE UNCHANGED image
    BY <1>5
  <1>6. \/ CountSectors \/ WriteTables \/ WriteDirectory \/ WriteContents \/ UNCHANGED image
    BY WriterSteps, ReaderSteps DEF Next, vars
  <1> QED
    BY <1>1, <1>2, <1>3, <1>4, <1>5, <1>6
-----------------------------------------------------------------------------
(* The mini stream *)

MiniLengths(z) == [x \in 1 .. 5 |-> BlockNum(z[MiniStreams[x]], MiniSize)]

\* Where the k-th of the small streams starts; the 6th place is the end.
Place(z, k) == ChainBegin(0, MiniLengths(z))[k]

LEMMA MiniLengthsFacts ==
    ASSUME NEW z \in Documents
    PROVE  /\ IsLengths(MiniLengths(z), 5)
           /\ \A k \in 1 .. 5 : z[MiniStreams[k]] <= MiniLengths(z)[k] * MiniSize
  <1>1. \A k \in 1 .. 5 : z[MiniStreams[k]] \in Nat /\ z[MiniStreams[k]] > 0
    BY DocumentFacts, Geometry
  <1>2. \A k \in 1 .. 5 : MiniLengths(z)[k] = BlockNum(z[MiniStreams[k]], MiniSize)
    BY DEF MiniLengths
  <1>3. Len(MiniLengths(z)) = 5
    BY DEF MiniLengths
  <1>4. ASSUME NEW k \in 1 .. 5
        PROVE  /\ MiniLengths(z)[k] \in Nat /\ MiniLengths(z)[k] > 0
               /\ z[MiniStreams[k]] <= MiniLengths(z)[k] * MiniSize
    <2> DEFINE n == z[MiniStreams[k]]
    <2>1. n \in Nat /\ n > 0
      BY <1>1
    <2>2. MiniLengths(z)[k] = BlockNum(n, MiniSize)
      BY <1>2
    <2> HIDE DEF n
    <2>3. BlockNum(n, MiniSize) \in Nat /\ BlockNum(n, MiniSize) > 0
          /\ n <= BlockNum(n, MiniSize) * MiniSize
      BY <2>1, Geometry, BlockNumFacts
    <2>4. MiniLengths(z)[k] \in Nat /\ MiniLengths(z)[k] > 0 /\ n <= MiniLengths(z)[k] * MiniSize
      BY <2>2, <2>3
    <2> QED
      BY <2>4 DEF n
  <1> QED
    BY <1>3, <1>4 DEF IsLengths

LEMMA PlaceFacts ==
    ASSUME NEW z \in Documents
    PROVE  /\ Place(z, 1) = 0
           /\ \A k \in 1 .. 6 : Place(z, k) \in Nat
           /\ \A k \in 1 .. 5 : Place(z, k + 1) = Place(z, k) + MiniLengths(z)[k]
           /\ \A k, l \in 1 .. 6 : k <= l => Place(z, k) <= Place(z, l)
           /\ Place(z, 6) > 0
  <1> DEFINE L == MiniLengths(z)
             b == ChainBegin(0, L)
  <1>1. IsLengths(L, 5)
    BY MiniLengthsFacts
  <1> HIDE DEF L
  <1>2. /\ b[1] = 0
        /\ \A e \in 1 .. 5 + 1 : b[e] \in Nat
        /\ \A e \in 1 .. 5 : b[e + 1] = b[e] + L[e]
        /\ \A e, g \in 1 .. 5 + 1 : e <= g => b[e] <= b[g]
    BY <1>1, ChainBeginFacts
  <1> HIDE DEF b
  <1>3. \A k \in 1 .. 6 : k \in 1 .. 5 + 1
    OBVIOUS
  <1>4. \A k : Place(z, k) = b[k]
    BY DEF Place, b, L
  <1>5. b[6] > 0
    <2>1. b[2] = b[1] + L[1] /\ L[1] > 0 /\ L[1] \in Nat
      BY <1>1, <1>2 DEF IsLengths
    <2>2. b[2] <= b[6] /\ b[6] \in Nat
      BY <1>2
    <2> QED
      BY <1>2, <2>1, <2>2
  <1> QED
    BY <1>2, <1>3, <1>4, <1>5 DEF L

\* An entry by its name.
LEMMA EntryOf ==
    ASSUME NEW x \in 1 .. 11
    PROVE  Entry(DirNames[x]) = dirs[x]
  BY IdOf DEF Entry

LEMMA EntrySizes ==
    ASSUME size \in Documents, IsEntries(size, dirs)
    PROVE  /\ \A k \in 1 .. 5 : dirs[MiniAt[k]].size = size[MiniStreams[k]]
           /\ Entry(Package).size = size[Package] /\ dirs[2].size = size[Package]
           /\ \A k \in 1 .. 5 : MinisOf(MiniStreams[k]) = MiniLengths(size)[k]
           /\ MiniFatLengths = MiniLengths(size)
           /\ PackageSectors = BlockNum(size[Package], SectorSize)
  <1>1. \A k \in 1 .. 5 : dirs[MiniAt[k]].size = size[MiniStreams[k]]
    <2> SUFFICES ASSUME NEW k \in 1 .. 5 PROVE dirs[MiniAt[k]].size = size[MiniStreams[k]]
      OBVIOUS
    <2>1. MiniAt[k] \in 2 .. 11 /\ MiniAt[k] \in HasStream /\ MiniStreams[k] = DirNames[MiniAt[k]]
      BY MiniStreamsAre DEF HasStream
    <2> QED
      BY <2>1 DEF IsEntries
  <1>2. dirs[2].size = size[Package]
    BY StreamsAre DEF IsEntries, HasStream
  <1>3. Entry(Package).size = size[Package]
    BY <1>2, StreamsAre, EntryOf
  <1>4. \A k \in 1 .. 5 : MinisOf(MiniStreams[k]) = MiniLengths(size)[k]
    <2> SUFFICES ASSUME NEW k \in 1 .. 5 PROVE MinisOf(MiniStreams[k]) = MiniLengths(size)[k]
      OBVIOUS
    <2>1. MiniAt[k] \in 1 .. 11 /\ MiniStreams[k] = DirNames[MiniAt[k]]
      BY MiniStreamsAre
    <2>2. Entry(MiniStreams[k]) = dirs[MiniAt[k]]
      BY <2>1, EntryOf
    <2> QED
      BY <1>1, <2>2 DEF MinisOf, MiniLengths
  <1>5. MiniFatLengths = MiniLengths(size)
    <2>1. MiniFatLengths = [x \in 1 .. 5 |-> MinisOf(MiniStreams[x])]
      BY MiniStreamsAre DEF MiniFatLengths
    <2>2. MiniLengths(size) = [x \in 1 .. 5 |-> MiniLengths(size)[x]]
      BY DEF MiniLengths
    <2> QED
      BY <1>4, <2>1, <2>2
  <1>6. PackageSectors = BlockNum(size[Package], SectorSize)
    BY <1>3 DEF PackageSectors
  <1> QED
    BY <1>1, <1>2, <1>3, <1>4, <1>5, <1>6

\* The function that MiniPos chooses.
IsMiniPos(p) ==
    p = [x \in 1 .. Len(MiniStreams) + 1 |->
            IF x = 1 THEN 0 ELSE p[x - 1] + MinisOf(MiniStreams[x - 1])]

LEMMA MiniPosFacts ==
    ASSUME size \in Documents, IsEntries(size, dirs)
    PROVE  \A k \in 1 .. 6 : MiniPos[k] = Place(size, k)
  <1> DEFINE L == MiniLengths(size)
             b == ChainBegin(0, L)
             p == MiniPos
  <1>1. \A k \in 1 .. 5 : MinisOf(MiniStreams[k]) = L[k]
    BY EntrySizes
  <1>2. IsLengths(L, 5)
    BY MiniLengthsFacts
  <1>3. Begins(b, 0, L, 5)
    BY <1>2, ChainBeginUnfolds DEF IsLengths
  <1>4. Len(MiniStreams) + 1 = 6
    BY MiniStreamsAre
  <1> HIDE DEF L, b
  <1>5. \A e \in 1 .. 6 : b[e] = IF e = 1 THEN 0 ELSE b[e - 1] + MinisOf(MiniStreams[e - 1])
    <2> SUFFICES ASSUME NEW e \in 1 .. 6
                 PROVE  b[e] = IF e = 1 THEN 0 ELSE b[e - 1] + MinisOf(MiniStreams[e - 1])
      OBVIOUS
    <2>1. \A g \in 1 .. 5 + 1 : b[g] = IF g = 1 THEN 0 ELSE b[g - 1] + (IF L[g - 1] = 0 THEN 1 ELSE L[g - 1])
      BY <1>3 DEF Begins
    <2>2. e \in 1 .. 5 + 1
      OBVIOUS
    <2>3. b[e] = IF e = 1 THEN 0 ELSE b[e - 1] + (IF L[e - 1] = 0 THEN 1 ELSE L[e - 1])
      BY <2>1, <2>2
    <2>4. CASE e = 1
      BY <2>3, <2>4
    <2>5. CASE e # 1
      <3>1. e - 1 \in 1 .. 5
        BY <2>5
      <3>2. L[e - 1] # 0 /\ MinisOf(MiniStreams[e - 1]) = L[e - 1]
        BY <1>1, <1>2, <3>1 DEF IsLengths
      <3> QED
        BY <2>3, <2>5, <3>2
    <2> QED
      BY <2>4, <2>5
  <1>6. b = [e \in 1 .. 6 |-> b[e]]
    <2> DEFINE body(e) == IF e = 1 THEN 0 ELSE b[e - 1] + (IF L[e - 1] = 0 THEN 1 ELSE L[e - 1])
    <2>1. b = [e \in 1 .. 5 + 1 |-> body(e)]
      BY <1>3 DEF Begins
    <2> HIDE DEF body
    <2> QED
      BY <2>1
  <1>7. IsMiniPos(b)
    BY <1>4, <1>5, <1>6 DEF IsMiniPos
  <1>8. p = CHOOSE q : IsMiniPos(q)
    BY DEF MiniPos, IsMiniPos
  <1>9. IsMiniPos(p)
    BY <1>7, <1>8
  <1> HIDE DEF p
  <1>10. \A e \in 1 .. 6 : p[e] = IF e = 1 THEN 0 ELSE p[e - 1] + MinisOf(MiniStreams[e - 1])
    BY <1>4, <1>9 DEF IsMiniPos
  <1> DEFINE S == {k \in Nat : k < 6 => p[k + 1] = b[k + 1]}
  <1>11. 0 \in S
    BY <1>5, <1>10
  <1>12. ASSUME NEW k \in Nat, k \in S PROVE k + 1 \in S
    <2> SUFFICES ASSUME k + 1 < 6 PROVE p[(k + 1) + 1] = b[(k + 1) + 1]
      OBVIOUS
    <2> DEFINE e == (k + 1) + 1
    <2>1. e \in 1 .. 6 /\ e # 1 /\ e - 1 = k + 1
      OBVIOUS
    <2>2. p[k + 1] = b[k + 1]
      BY <1>12
    <2> HIDE DEF e
    <2>3. p[e] = p[k + 1] + MinisOf(MiniStreams[k + 1]) /\ b[e] = b[k + 1] + MinisOf(MiniStreams[k + 1])
      BY <1>5, <1>10, <2>1
    <2> QED
      BY <2>2, <2>3 DEF e
  <1>13. Nat \subseteq S
    <2> HIDE DEF S
    <2> QED
      BY <1>11, <1>12, NatSetInduction
  <1>14. ASSUME NEW k \in 1 .. 6 PROVE p[k] = b[k]
    <2>1. k - 1 \in Nat /\ k - 1 < 6 /\ (k - 1) + 1 = k
      OBVIOUS
    <2>2. k - 1 \in S
      BY <1>13, <2>1
    <2> QED
      BY <2>1, <2>2
  <1> QED
    BY <1>14 DEF Place, p, b, L

\* An entry with another start, another size.
Restarted(j, e, v) ==
    /\ j \in DirRecord /\ j.start = v
    /\ j.name = e.name /\ j.type = e.type /\ j.size = e.size /\ SameIds(j, e)
Resized(j, e, v) ==
    /\ j \in DirRecord /\ j.size = v
    /\ j.name = e.name /\ j.type = e.type /\ j.start = e.start /\ SameIds(j, e)

LEMMA Restart ==
    ASSUME NEW e \in DirRecord, NEW v \in Int
    PROVE  Restarted([e EXCEPT !.start = v], e, v)
  BY EntryChanges DEF Restarted

LEMMA Resize ==
    ASSUME NEW e \in DirRecord, NEW v \in Int
    PROVE  Resized([e EXCEPT !.size = v], e, v)
  BY EntryChanges DEF Resized

LEMMA Placing ==
    ASSUME size \in Documents, IsEntries(size, dirs), PlaceMiniStreams
    PROVE  /\ IsEntries(size, dirs')
           /\ \A k \in 1 .. 5 : dirs'[MiniAt[k]].start = Place(size, k)
           /\ miniFatNum' = Place(size, 6)
  <1> DEFINE IsMini(i, x) == MiniStreams[x] = DirNames[i]
             Chosen(i) == CHOOSE x \in 1 .. Len(MiniStreams) : IsMini(i, x)
             Placed(i) == IF \E x \in 1 .. Len(MiniStreams) : IsMini(i, x)
                          THEN [dirs[i] EXCEPT !.start = MiniPos[Chosen(i)]]
                          ELSE dirs[i]
  <1>1. dirs' = [i \in 1 .. DirNum |-> Placed(i)] /\ miniFatNum' = MiniPos[Len(MiniStreams) + 1]
    BY Zenon DEF PlaceMiniStreams
  <1>2. \A i \in 1 .. 11 : (Chosen(i) \in 1 .. 5 /\ IsMini(i, Chosen(i))) \/ Placed(i) = dirs[i]
    BY MiniStreamsAre
  <1>3. \A k \in 1 .. 5 : Chosen(MiniAt[k]) = k
    <2> SUFFICES ASSUME NEW k \in 1 .. 5 PROVE Chosen(MiniAt[k]) = k
      OBVIOUS
    <2>1. \A x \in 1 .. 5 : IsMini(MiniAt[k], x) => x = k
      <3> SUFFICES ASSUME NEW x \in 1 .. 5, IsMini(MiniAt[k], x) PROVE x = k
        OBVIOUS
      <3>1. MiniAt[x] \in 1 .. 11 /\ MiniAt[k] \in 1 .. 11
        BY MiniStreamsAre
      <3>2. DirNames[MiniAt[x]] = DirNames[MiniAt[k]]
        BY MiniStreamsAre
      <3>3. MiniAt[x] = MiniAt[k]
        BY <3>1, <3>2, DirNamesDiffer
      <3>4. ~ (x < k) /\ ~ (k < x)
        BY <3>1, <3>3, MiniStreamsAre
      <3> QED
        BY <3>4
    <2>2. IsMini(MiniAt[k], k) /\ Len(MiniStreams) = 5
      BY MiniStreamsAre
    <2> QED
      BY <2>1, <2>2
  <1>4. \A k \in 1 .. 5 : Placed(MiniAt[k]) = [dirs[MiniAt[k]] EXCEPT !.start = MiniPos[k]]
    <2> SUFFICES ASSUME NEW k \in 1 .. 5
                 PROVE  Placed(MiniAt[k]) = [dirs[MiniAt[k]] EXCEPT !.start = MiniPos[k]]
      OBVIOUS
    <2>1. IsMini(MiniAt[k], k) /\ k \in 1 .. Len(MiniStreams)
      BY MiniStreamsAre
    <2> HIDE DEF IsMini, Chosen
    <2> QED
      BY <1>3, <2>1
  <1>5. \A i \in 1 .. 11 : Placed(i) = dirs[i] \/ \E k \in 1 .. 5 : Placed(i) = [dirs[i] EXCEPT !.start = MiniPos[k]]
    <2> HIDE DEF IsMini, Chosen
    <2> SUFFICES ASSUME NEW i \in 1 .. 11, Placed(i) # dirs[i]
                 PROVE  \E k \in 1 .. 5 : Placed(i) = [dirs[i] EXCEPT !.start = MiniPos[k]]
      OBVIOUS
    <2>1. Chosen(i) \in 1 .. 5
      BY <1>2
    <2>2. Placed(i) = [dirs[i] EXCEPT !.start = MiniPos[Chosen(i)]]
      OBVIOUS
    <2> QED
      BY <2>1, <2>2
  <1> HIDE DEF Placed
  <1>6. dirs' = [i \in 1 .. 11 |-> Placed(i)]
    BY <1>1, DirNumIs
  <1>7. \A k \in 1 .. 6 : MiniPos[k] = Place(size, k) /\ Place(size, k) \in Nat
    BY MiniPosFacts, PlaceFacts
  <1>8. \A i \in 1 .. 11 : /\ dirs'[i] \in DirRecord /\ dirs'[i].name = dirs[i].name
                           /\ dirs'[i].type = dirs[i].type /\ dirs'[i].size = dirs[i].size
                 /\ SameIds(dirs'[i], dirs[i])
    <2> SUFFICES ASSUME NEW i \in 1 .. 11
                 PROVE  /\ dirs'[i] \in DirRecord /\ dirs'[i].name = dirs[i].name
                        /\ dirs'[i].type = dirs[i].type /\ dirs'[i].size = dirs[i].size
                 /\ SameIds(dirs'[i], dirs[i])
      OBVIOUS
    <2>1. dirs[i] \in DirRecord
      BY DEF IsEntries
    <2>2. dirs'[i] = Placed(i)
      BY <1>6
    <2>3. CASE Placed(i) = dirs[i]
      BY <2>1, <2>2, <2>3 DEF SameIds
    <2>4. CASE Placed(i) # dirs[i]
      <3>1. PICK k \in 1 .. 5 : Placed(i) = [dirs[i] EXCEPT !.start = MiniPos[k]]
        BY <1>5, <2>4
      <3> DEFINE v == MiniPos[k]
      <3>2. v \in Int
        BY <1>7
      <3> HIDE DEF v
      <3>3. Placed(i) = [dirs[i] EXCEPT !.start = v]
        BY <3>1 DEF v
      <3>4. Restarted(dirs'[i], dirs[i], v)
        BY <2>1, <2>2, <3>2, <3>3, Restart
      <3> QED
        BY <3>4 DEF Restarted
    <2> QED
      BY <2>3, <2>4
  <1>9. IsEntries(size, dirs')
    BY <1>6, <1>8, SameIdsJoin DEF IsEntries
  <1>10. ASSUME NEW k \in 1 .. 5 PROVE dirs'[MiniAt[k]].start = Place(size, k)
    <2>1. MiniAt[k] \in 1 .. 11
      BY MiniStreamsAre
    <2>2. dirs'[MiniAt[k]] = [dirs[MiniAt[k]] EXCEPT !.start = MiniPos[k]]
      BY <1>4, <1>6, <2>1
    <2>3. dirs[MiniAt[k]] \in DirRecord
      BY <2>1 DEF IsEntries
    <2>4. MiniPos[k] \in Int /\ MiniPos[k] = Place(size, k)
      BY <1>7
    <2> QED
      BY <2>2, <2>3, <2>4, EntryChanges
  <1>11. miniFatNum' = Place(size, 6)
    BY <1>1, <1>7, MiniStreamsAre
  <1> QED
    BY <1>9, <1>10, <1>11

LEMMA Counting ==
    ASSUME size \in Documents, IsEntries(size, dirs), CountSectors, MiniDataPos' \in Int,
           PackagePos' \in Int, MiniSize * miniFatNum \in Int
    PROVE  /\ IsEntries(size, dirs')
           /\ \A x \in 3 .. 11 : dirs'[x] = dirs[x]
           /\ dirs'[1].start = MiniDataPos' /\ dirs'[1].size = MiniSize * miniFatNum
           /\ dirs'[2].start = PackagePos'
  <1> DEFINE v == MiniDataPos'
             w == PackagePos'
             m == MiniSize * miniFatNum
  <1>1. dirs' = [dirs EXCEPT ![1].start = v, ![1].size = m, ![2].start = w]
    BY Zenon DEF CountSectors
  <1>2. v \in Int /\ w \in Int /\ m \in Int
    OBVIOUS
  <1> HIDE DEF v, w, m
  <1> DEFINE e == [dirs[1] EXCEPT !.start = v]
             f == [e EXCEPT !.size = m]
             g == [dirs[2] EXCEPT !.start = w]
  <1>3. dirs \in [1 .. 11 -> DirRecord]
    BY DEF IsEntries
  <1>4. dirs' = [x \in 1 .. 11 |-> IF x = 1 THEN f ELSE IF x = 2 THEN g ELSE dirs[x]]
    <2> DEFINE a == [dirs EXCEPT ![1].start = v]
               b == [a EXCEPT ![1].size = m]
               c == [b EXCEPT ![2].start = w]
    <2>1. dirs' = c
      BY <1>1
    <2>2. a = [dirs EXCEPT ![1] = e]
      OBVIOUS
    <2>3. a = [x \in 1 .. 11 |-> IF x = 1 THEN e ELSE dirs[x]]
      <3> HIDE DEF e, a
      <3> QED
        BY <1>3, <2>2
    <2>4. b = [a EXCEPT ![1] = f]
      <3>1. a[1] = e
        <4> HIDE DEF e, a
        <4> QED
          BY <2>3
      <3>2. b = [a EXCEPT ![1] = [a[1] EXCEPT !.size = m]]
        <4> HIDE DEF e, a
        <4> QED
          OBVIOUS
      <3> HIDE DEF e, a, b
      <3> QED
        BY <3>1, <3>2
    <2>5. b = [x \in 1 .. 11 |-> IF x = 1 THEN f ELSE dirs[x]]
      <3> HIDE DEF e, a, b, f
      <3> QED
        BY <2>3, <2>4
    <2>6. c = [b EXCEPT ![2] = g]
      <3>1. b[2] = dirs[2]
        <4> HIDE DEF e, a, b, f
        <4> QED
          BY <2>5
      <3>2. c = [b EXCEPT ![2] = [b[2] EXCEPT !.start = w]]
        <4> HIDE DEF e, a, b, f
        <4> QED
          OBVIOUS
      <3> HIDE DEF e, a, b, f, c
      <3> QED
        BY <3>1, <3>2
    <2> HIDE DEF a, b, c, e, f, g
    <2>7. dirs' = [x \in 1 .. 11 |-> IF x = 2 THEN g ELSE b[x]]
      BY <2>1, <2>5, <2>6
    <2>8. \A x \in 1 .. 11 : b[x] = IF x = 1 THEN f ELSE dirs[x]
      BY <2>5
    <2>9. \A x \in 1 .. 11 :
            (IF x = 2 THEN g ELSE b[x]) = IF x = 1 THEN f ELSE IF x = 2 THEN g ELSE dirs[x]
      BY <2>8
    <2> QED
      BY <2>7, <2>9
  <1>5. Restarted(e, dirs[1], v)
    BY <1>2, <1>3, Restart
  <1>6. Restarted(g, dirs[2], w)
    BY <1>2, <1>3, Restart
  <1> HIDE DEF e, g
  <1>7. Resized(f, e, m)
    BY <1>2, <1>5, Resize DEF Restarted
  <1> USE DEF Restarted, Resized
  <1> HIDE DEF f
  <1>8. dirs'[1] = f /\ dirs'[2] = g /\ \A x \in 3 .. 11 : dirs'[x] = dirs[x]
    BY <1>4
  <1>9. \A x \in 1 .. 11 : x = 1 \/ x = 2 \/ x \in 3 .. 11
    OBVIOUS
  <1>10. dirs' \in [1 .. 11 -> DirRecord]
    <2>1. \A x \in 1 .. 11 : dirs'[x] \in DirRecord
      BY <1>3, <1>6, <1>7, <1>8, <1>9
    <2> QED
      BY <1>4, <2>1
  <1>11. \A x \in 1 .. 11 : dirs'[x].name = dirs[x].name /\ dirs'[x].type = dirs[x].type
    BY <1>5, <1>6, <1>7, <1>8, <1>9
  <1>14. \A x \in 1 .. 11 : SameIds(dirs'[x], InfoTbl[x])
    <2>1. SameIds(f, dirs[1]) /\ SameIds(g, dirs[2])
      BY <1>5, <1>6, <1>7, SameIdsJoin
    <2>2. \A x \in 1 .. 11 : SameIds(dirs[x], InfoTbl[x])
      BY DEF IsEntries
    <2> QED
      BY <1>8, <1>9, <2>1, <2>2, SameIdsJoin
  <1>12. \A x \in 2 .. 11 : dirs'[x].size = dirs[x].size
    BY <1>6, <1>8, <1>9
  <1>13. IsEntries(size, dirs')
    BY <1>10, <1>11, <1>12, <1>14 DEF IsEntries
  <1> QED
    BY <1>5, <1>6, <1>7, <1>8, <1>13 DEF v, w, m
-----------------------------------------------------------------------------
(* The layout *)

LEMMA LayoutFacts ==
    ASSUME size \in Documents, IsEntries(size, dirs), miniFatNum \in Nat, miniFatNum > 0
    PROVE  /\ DirSectors \in Nat /\ DirSectors > 0 /\ 11 <= DirSectors * DirsPerSector
           /\ MiniDataSectors \in Nat /\ MiniDataSectors > 0
           /\ miniFatNum <= MiniDataSectors * MinisPerSector
           /\ PackageSectors \in Nat /\ PackageSectors > 0
           /\ size[Package] <= PackageSectors * SectorSize
           /\ ContentSectors = 1 + DirSectors + MiniDataSectors + PackageSectors
           /\ ContentSectors \in Nat
  <1>1. DirSectors \in Nat /\ DirSectors > 0 /\ 11 <= DirSectors * DirsPerSector
    <2>1. DirSectors = BlockNum(11, DirsPerSector)
      BY DirNumIs DEF DirSectors
    <2>2. 11 \in Nat /\ 11 > 0
      OBVIOUS
    <2> QED
      BY <2>1, <2>2, Geometry, BlockNumFacts
  <1>2. MiniDataSectors \in Nat /\ MiniDataSectors > 0
        /\ miniFatNum <= MiniDataSectors * MinisPerSector
    BY Geometry, BlockNumFacts DEF MiniDataSectors
  <1>3. PackageSectors \in Nat /\ PackageSectors > 0
        /\ size[Package] <= PackageSectors * SectorSize
    <2>1. PackageSectors = BlockNum(size[Package], SectorSize)
      BY EntrySizes
    <2>2. size[Package] \in Nat /\ size[Package] > 0
      BY DocumentFacts
    <2> QED
      BY <2>1, <2>2, Geometry, BlockNumFacts
  <1>4. ContentSectors = 1 + DirSectors + MiniDataSectors + PackageSectors
    BY DEF ContentSectors, NumMiniFatSectors
  <1> QED
    BY <1>1, <1>2, <1>3, <1>4

\* With the writer's state the layout stays.
LEMMA LayoutStays ==
    ASSUME UNCHANGED writer
    PROVE  /\ FatPos' = FatPos /\ MiniFatPos' = MiniFatPos /\ DirPos' = DirPos
           /\ MiniDataPos' = MiniDataPos /\ PackagePos' = PackagePos /\ AllSectors' = AllSectors
           /\ Header' = Header /\ TableMarkers' = TableMarkers /\ FatLengths' = FatLengths
           /\ MiniDataSectors' = MiniDataSectors /\ PackageSectors' = PackageSectors
  <1> USE DEF FatPos, MiniFatPos, DirPos, MiniDataPos, PackagePos, AllSectors, ContentSectors,
              MiniDataSectors, PackageSectors, Entry, writer
  <1>1. /\ FatPos' = FatPos /\ MiniFatPos' = MiniFatPos /\ DirPos' = DirPos
        /\ MiniDataPos' = MiniDataPos /\ PackagePos' = PackagePos /\ AllSectors' = AllSectors
        /\ MiniDataSectors' = MiniDataSectors /\ PackageSectors' = PackageSectors
    OBVIOUS
  <1>2. Header' = Header
    BY DEF Header
  <1>3. TableMarkers' = TableMarkers
    BY DEF TableMarkers
  <1>4. FatLengths' = FatLengths
    BY DEF FatLengths
  <1> QED
    BY <1>1, <1>2, <1>3, <1>4
-----------------------------------------------------------------------------
(* The writer up to the tables *)

\* The documents, the shapes of the file and of the directory.
Base ==
    /\ size \in Documents
    /\ IsImage(image)
    /\ IsEntries(size, dirs)
    /\ pc # "writer refused" => \A x \in 1 .. 11 : IsShortName(WideNames[x])

\* The small streams have their places in the mini stream.
Placed ==
    pc \in AfterPlace =>
        /\ \A k \in 1 .. 5 : dirs[MiniAt[k]].start = Place(size, k)
        /\ miniFatNum = Place(size, 6)

\* The counts fit each other, the header and the directory have the positions.
Counted ==
    pc \in AfterCount =>
        /\ difatSectorNum \in Nat /\ fatSectorNum \in Nat
        /\ difatSectorNum = DifatFor(fatSectorNum)
        /\ dirs[1].start = MiniDataPos /\ dirs[1].size = MiniSize * miniFatNum
        /\ dirs[2].start = PackagePos
        /\ image.header = WriteHeader(Header)
        /\ DOMAIN image.data = 0 .. AllSectors * SectorSize - 1

LEMMA BaseInit == Init => Base
  <1> SUFFICES ASSUME Init PROVE Base
    OBVIOUS
  <1>1. size \in Documents /\ dirs = MakeDataSpace(size)
    BY DEF Init
  <1>2. IsImage(image)
    <2>1. image = [header |-> <<>>, fat |-> <<>>, miniFat |-> <<>>, directory |-> <<>>, data |-> <<>>]
      BY DEF Init
    <2> QED
      BY <2>1, ImageOf
  <1>3. IsEntries(size, dirs)
    BY <1>1, MakeDataSpaceFacts
  <1>4. pc = IF \A x \in 1 .. DirNum : IsSettable(dirs[x]) THEN "ministreams" ELSE "writer refused"
    BY DEF Init
  <1>5. ASSUME pc # "writer refused", NEW x \in 1 .. 11 PROVE IsShortName(WideNames[x])
    <2>1. IsSettable(dirs[x])
      BY <1>4, <1>5, DirNumIs
    <2>2. dirs[x].name = WideNames[x]
      BY <1>3 DEF IsEntries
    <2>3. WideNames[x] \in Seq(Nat) /\ WideNames[x] # <<>>
      BY NamesAssumption, DirNumIs
    <2> QED
      BY <2>1, <2>2, <2>3 DEF IsSettable, IsShortName, MaxNameLength
  <1> QED
    BY <1>1, <1>2, <1>3, <1>5 DEF Base

LEMMA WriterFlow ==
    ASSUME [Next]_vars
    PROVE  PlaceMiniStreams \/ CountSectors \/ UNCHANGED writer
  BY WriterSteps, ReaderSteps DEF Next, vars, writer

\* What CountSectors does.
LEMMA CountDone ==
    ASSUME Base, Placed, CountSectors
    PROVE  /\ IsEntries(size', dirs')
           /\ \A x \in 3 .. 11 : dirs'[x] = dirs[x]
           /\ size' = size /\ miniFatNum' = miniFatNum
           /\ difatSectorNum' \in Nat /\ fatSectorNum' \in Nat
           /\ difatSectorNum' = DifatFor(fatSectorNum')
           /\ dirs'[1].start = MiniDataPos' /\ dirs'[1].size = MiniSize * miniFatNum'
           /\ dirs'[2].start = PackagePos'
           /\ image'.header = WriteHeader(Header')
           /\ DOMAIN image'.data = 0 .. AllSectors' * SectorSize - 1
  <1>1. size' = size /\ miniFatNum' = miniFatNum /\ pc \in AfterPlace
    BY WriterSteps DEF AfterPlace, AfterCount
  <1>2. miniFatNum \in Nat /\ miniFatNum > 0
    <2>1. miniFatNum = Place(size, 6)
      BY <1>1 DEF Placed
    <2>2. size \in Documents
      BY DEF Base
    <2>3. Place(size, 6) \in Nat /\ Place(size, 6) > 0
      BY <2>2, PlaceFacts
    <2> QED
      BY <2>1, <2>3
  <1>3. ContentSectors \in Nat /\ DirSectors \in Nat /\ MiniDataSectors \in Nat
    BY <1>2, LayoutFacts DEF Base
  <1>4. difatSectorNum' \in Nat /\ fatSectorNum' \in Nat /\ difatSectorNum' = DifatFor(fatSectorNum')
    <2>1. PICK c \in SectorCounts(ContentSectors) : difatSectorNum' = c.d /\ fatSectorNum' = c.f
      BY Zenon DEF CountSectors
    <2>2. IsPair(c)
      BY <1>3, SectorCountsFacts
    <2> QED
      BY <2>1, <2>2 DEF IsPair
  <1>5. MiniDataPos' = difatSectorNum' + fatSectorNum' + 1 + DirSectors
    BY DEF MiniDataPos, DirPos, MiniFatPos, FatPos, NumMiniFatSectors, DirSectors
  <1>6. PackagePos' = MiniDataPos' + MiniDataSectors
    BY <1>1 DEF PackagePos, MiniDataSectors
  <1>7. MiniDataPos' \in Int /\ PackagePos' \in Int /\ MiniSize * miniFatNum \in Int
    BY <1>2, <1>3, <1>4, <1>5, <1>6, Geometry
  <1>8. /\ IsEntries(size, dirs')
        /\ \A x \in 3 .. 11 : dirs'[x] = dirs[x]
        /\ dirs'[1].start = MiniDataPos' /\ dirs'[1].size = MiniSize * miniFatNum
        /\ dirs'[2].start = PackagePos'
    BY <1>7, Counting DEF Base
  <1>9. image'.header = WriteHeader(Header') /\ DOMAIN image'.data = 0 .. AllSectors' * SectorSize - 1
    <2> DEFINE D == 0 .. AllSectors' * SectorSize - 1
               W == WriteHeader(Header')
    <2>1. \E v, w : /\ image' = [image EXCEPT !.data = v, !.header = w]
                   /\ v = [a \in D |-> Zero] /\ w = W
      BY Zenon DEF CountSectors
    <2> HIDE DEF D, W
    <2>2. PICK v, w : /\ image' = [image EXCEPT !.data = v, !.header = w]
                      /\ v = [a \in D |-> Zero] /\ w = W
      BY <2>1
    <2>3. IsImage(image)
      BY DEF Base
    <2>4. image'.data = v /\ image'.header = w
      <3> DEFINE h == image.header
                 f == image.fat
                 m == image.miniFat
                 d == image.directory
                 a == image.data
      <3>1. image = [header |-> h, fat |-> f, miniFat |-> m, directory |-> d, data |-> a]
        BY <2>3 DEF IsImage
      <3>2. image' = [image EXCEPT !.data = v, !.header = w]
        BY <2>2
      <3> HIDE DEF h, f, m, d, a
      <3>3. image' = [header |-> w, fat |-> f, miniFat |-> m, directory |-> d, data |-> v]
        BY <3>1, <3>2
      <3> QED
        BY <3>3, ImageOf
    <2>5. DOMAIN v = D
      BY <2>2
    <2> QED
      BY <2>2, <2>4, <2>5 DEF D, W
  <1> QED
    BY <1>1, <1>4, <1>8, <1>9

LEMMA BaseStep ==
    ASSUME Base, Placed, [Next]_vars
    PROVE  Base'
  <1>1. size' = size
    BY Flow
  <1>2. IsImage(image')
    BY ImageFlow DEF Base
  <1>3. IsEntries(size, dirs')
    <2>1. CASE PlaceMiniStreams
      BY <2>1, Placing DEF Base
    <2>2. CASE CountSectors
      BY <1>1, <2>2, CountDone
    <2>3. CASE UNCHANGED writer
      BY <2>3 DEF Base, writer
    <2> QED
      BY <2>1, <2>2, <2>3, WriterFlow
  <1>4. pc' # "writer refused" => pc # "writer refused"
    BY Flow
  <1> QED
    BY <1>1, <1>2, <1>3, <1>4 DEF Base, IsEntries

LEMMA PlacedStep ==
    ASSUME Base, Placed, [Next]_vars
    PROVE  Placed'
  <1> SUFFICES ASSUME pc' \in AfterPlace
               PROVE  /\ \A k \in 1 .. 5 : dirs'[MiniAt[k]].start = Place(size, k)
                      /\ miniFatNum' = Place(size, 6)
    BY Flow DEF Placed
  <1>1. CASE PlaceMiniStreams
    BY <1>1, Placing DEF Base
  <1>2. CASE CountSectors
    <2>1. /\ \A x \in 3 .. 11 : dirs'[x] = dirs[x]
          /\ miniFatNum' = miniFatNum
      BY <1>2, CountDone
    <2>2. pc \in AfterPlace
      BY <1>2, WriterSteps DEF AfterPlace
    <2>3. \A k \in 1 .. 5 : MiniAt[k] \in 3 .. 11
      BY MiniStreamsAre
    <2> QED
      BY <2>1, <2>2, <2>3 DEF Placed
  <1>3. CASE UNCHANGED writer /\ ~PlaceMiniStreams
    BY <1>3, Flow DEF Placed, writer
  <1> QED
    BY <1>1, <1>2, <1>3, WriterFlow

LEMMA CountedStep ==
    ASSUME Base, Placed, Counted, [Next]_vars
    PROVE  Counted'
  <1> SUFFICES ASSUME pc' \in AfterCount PROVE Counted'
    BY DEF Counted
  <1>1. CASE CountSectors
    BY <1>1, CountDone DEF Counted
  <1>2. CASE ~CountSectors
    <2>1. pc \in AfterCount /\ UNCHANGED writer
      BY <1>2, Flow
    <2>2. image'.header = image.header /\ DOMAIN image'.data = DOMAIN image.data
      BY <1>2, ImageFlow DEF Base
    <2>3. Header' = Header /\ MiniDataPos' = MiniDataPos /\ PackagePos' = PackagePos
          /\ AllSectors' = AllSectors
      BY <2>1, LayoutStays
    <2>4. /\ difatSectorNum' = difatSectorNum /\ fatSectorNum' = fatSectorNum
          /\ dirs' = dirs /\ miniFatNum' = miniFatNum
      BY <2>1 DEF writer
    <2> QED
      BY <2>1, <2>2, <2>3, <2>4 DEF Counted
  <1> QED
    BY <1>1, <1>2
-----------------------------------------------------------------------------
(* The tables *)

\* The FAT's first word and the lengths of its chains.
LEMMA FatPlaces ==
    ASSUME Base, Placed, Counted, pc \in AfterCount
    PROVE  /\ FatPos \in Nat /\ MiniFatPos \in Nat /\ DirPos \in Nat /\ MiniDataPos \in Nat
           /\ PackagePos \in Nat /\ AllSectors \in Nat
           /\ FatPos = difatSectorNum /\ MiniFatPos = difatSectorNum + fatSectorNum
           /\ DirPos = MiniFatPos + 1 /\ MiniDataPos = DirPos + DirSectors
           /\ PackagePos = MiniDataPos + MiniDataSectors /\ AllSectors = PackagePos + PackageSectors
           /\ DirSectors \in Nat /\ MiniDataSectors \in Nat /\ PackageSectors \in Nat
           /\ DirSectors > 0 /\ MiniDataSectors > 0 /\ PackageSectors > 0
  <1>1. size \in Documents /\ IsEntries(size, dirs)
    BY DEF Base
  <1>2. miniFatNum \in Nat /\ miniFatNum > 0
    <2>1. pc \in AfterPlace
      BY DEF AfterPlace
    <2>2. miniFatNum = Place(size, 6)
      BY <2>1 DEF Placed
    <2> QED
      BY <1>1, <2>2, PlaceFacts
  <1>3. /\ DirSectors \in Nat /\ MiniDataSectors \in Nat /\ PackageSectors \in Nat
        /\ DirSectors > 0 /\ MiniDataSectors > 0 /\ PackageSectors > 0
        /\ ContentSectors = 1 + DirSectors + MiniDataSectors + PackageSectors
    BY <1>1, <1>2, LayoutFacts
  <1>4. difatSectorNum \in Nat /\ fatSectorNum \in Nat
    BY DEF Counted
  <1>5. FatPos = difatSectorNum /\ MiniFatPos = difatSectorNum + fatSectorNum
    BY DEF FatPos, MiniFatPos
  <1>6. DirPos = MiniFatPos + 1 /\ MiniDataPos = DirPos + DirSectors
        /\ PackagePos = MiniDataPos + MiniDataSectors
    BY DEF DirPos, NumMiniFatSectors, MiniDataPos, PackagePos
  <1>7. AllSectors = difatSectorNum + fatSectorNum + ContentSectors
    BY DEF AllSectors
  <1> QED
    BY <1>3, <1>4, <1>5, <1>6, <1>7

LEMMA FatBegins ==
    ASSUME Base, Placed, Counted, pc \in AfterCount
    PROVE  /\ IsLengths(FatLengths, 4)
           /\ FatLengths[1] = 1 /\ FatLengths[2] = DirSectors
           /\ FatLengths[3] = MiniDataSectors /\ FatLengths[4] = PackageSectors
           /\ ChainBegin(MiniFatPos, FatLengths)[1] = MiniFatPos
           /\ ChainBegin(MiniFatPos, FatLengths)[2] = DirPos
           /\ ChainBegin(MiniFatPos, FatLengths)[3] = MiniDataPos
           /\ ChainBegin(MiniFatPos, FatLengths)[4] = PackagePos
           /\ ChainBegin(MiniFatPos, FatLengths)[4 + 1] = AllSectors
  <1>1. /\ FatLengths[1] = 1 /\ FatLengths[2] = DirSectors /\ Len(FatLengths) = 4
        /\ FatLengths[3] = MiniDataSectors /\ FatLengths[4] = PackageSectors
    BY DEF FatLengths, NumMiniFatSectors
  <1>2. IsLengths(FatLengths, 4)
    BY <1>1, FatPlaces DEF IsLengths
  <1> DEFINE b == ChainBegin(MiniFatPos, FatLengths)
  <1>3. MiniFatPos \in Nat
    BY FatPlaces
  <1>4. b[1] = MiniFatPos /\ \A e \in 1 .. 4 : b[e + 1] = b[e] + FatLengths[e]
    BY <1>2, <1>3, ChainBeginFacts
  <1> HIDE DEF b
  <1>5. b[2] = b[1] + FatLengths[1] /\ b[3] = b[2] + FatLengths[2]
        /\ b[4] = b[3] + FatLengths[3] /\ b[4 + 1] = b[4] + FatLengths[4]
    <2>1. 1 \in 1 .. 4 /\ 2 \in 1 .. 4 /\ 3 \in 1 .. 4 /\ 4 \in 1 .. 4 /\ 1 + 1 = 2 /\ 2 + 1 = 3 /\ 3 + 1 = 4
      OBVIOUS
    <2> QED
      BY <1>4, <2>1
  <1>6. b[1] = MiniFatPos /\ b[2] = DirPos /\ b[3] = MiniDataPos /\ b[4] = PackagePos
        /\ b[4 + 1] = AllSectors
    BY <1>1, <1>4, <1>5, FatPlaces
  <1> QED
    BY <1>1, <1>2, <1>6 DEF b

LEMMA MarkersAre ==
    ASSUME difatSectorNum \in Nat, fatSectorNum \in Nat
    PROVE  /\ Len(TableMarkers) = difatSectorNum + fatSectorNum
           /\ \A x \in 1 .. difatSectorNum + fatSectorNum : TableMarkers[x] \in {FATSECT, DIFSECT}
  <1>1. difatSectorNum + fatSectorNum \in Nat
    OBVIOUS
  <1>2. Len(TableMarkers) = difatSectorNum + fatSectorNum
    BY <1>1 DEF TableMarkers
  <1>3. \A x \in 1 .. difatSectorNum + fatSectorNum : TableMarkers[x] \in {FATSECT, DIFSECT}
    BY DEF TableMarkers
  <1> QED
    BY <1>2, <1>3

\* The FAT and the mini FAT, with room for their chains.
Tabled ==
    pc \in AfterTables =>
        /\ IsTable(image.fat, TableMarkers, MiniFatPos, FatLengths, 4,
                   fatSectorNum * EntriesPerSector)
        /\ IsTable(image.miniFat, <<>>, 0, MiniLengths(size), 5, EntriesPerSector)
        /\ AllSectors <= fatSectorNum * EntriesPerSector
        /\ Place(size, 6) <= EntriesPerSector

LEMMA WritesFat ==
    ASSUME Base, Placed, Counted, pc \in AfterCount,
           ~Overflows(TableMarkers, FatLengths, fatSectorNum * EntriesPerSector)
    PROVE  /\ IsTable(MakeFat(TableMarkers, FatLengths, fatSectorNum * EntriesPerSector),
                      TableMarkers, MiniFatPos, FatLengths, 4, fatSectorNum * EntriesPerSector)
           /\ AllSectors <= fatSectorNum * EntriesPerSector
  <1>1. difatSectorNum \in Nat /\ fatSectorNum \in Nat
    BY DEF Counted
  <1>2. Len(TableMarkers) = MiniFatPos /\ \A x \in 1 .. MiniFatPos : TableMarkers[x] \in {FATSECT, DIFSECT}
    BY <1>1, FatPlaces, MarkersAre
  <1>3. fatSectorNum * EntriesPerSector \in Nat
    BY <1>1, Entries
  <1>4. Len(FatLengths) = 4 /\ IsLengths(FatLengths, 4)
    BY FatBegins DEF IsLengths
  <1>5. ChainBegin(MiniFatPos, FatLengths)[4 + 1] = AllSectors /\ AllSectors \in Nat
        /\ MiniFatPos \in Nat
    BY FatBegins, FatPlaces
  <1>6. AllSectors <= fatSectorNum * EntriesPerSector
    BY <1>2, <1>3, <1>4, <1>5 DEF Overflows
  <1> QED
    BY <1>2, <1>3, <1>4, <1>5, <1>6, MakeFatFacts

LEMMA WritesMiniFat ==
    ASSUME Base, ~Overflows(<<>>, MiniFatLengths, EntriesPerSector)
    PROVE  /\ IsTable(MakeFat(<<>>, MiniFatLengths, EntriesPerSector),
                      <<>>, 0, MiniLengths(size), 5, EntriesPerSector)
           /\ Place(size, 6) <= EntriesPerSector
  <1>1. MiniFatLengths = MiniLengths(size)
    BY EntrySizes DEF Base
  <1> DEFINE L == MiniLengths(size)
  <1>0. size \in Documents
    BY DEF Base
  <1>2. IsLengths(L, 5) /\ Len(L) = 5
    BY <1>0, MiniLengthsFacts DEF IsLengths
  <1>3. Place(size, 6) = ChainBegin(0, L)[6] /\ Place(size, 6) \in Nat
    <2>1. \A k \in 1 .. 6 : Place(size, k) \in Nat
      BY <1>0, PlaceFacts
    <2>2. 6 \in 1 .. 6
      OBVIOUS
    <2> QED
      BY <2>1, <2>2 DEF Place
  <1>4. Len(<<>>) = 0 /\ 5 + 1 = 6
    OBVIOUS
  <1>5. ~(ChainBegin(Len(<<>>), L)[Len(L) + 1] > EntriesPerSector)
    BY <1>1 DEF Overflows
  <1> HIDE DEF L
  <1>6. Place(size, 6) <= EntriesPerSector
    BY <1>2, <1>3, <1>4, <1>5, Entries
  <1>7. ChainBegin(0, L)[5 + 1] <= EntriesPerSector
    BY <1>3, <1>4, <1>6
  <1>8. \A x \in 1 .. 0 : <<>>[x] \in {FATSECT, DIFSECT}
    OBVIOUS
  <1>9. EntriesPerSector \in Nat /\ 0 \in Nat /\ 5 \in Nat
    BY Entries
  <1>10. IsTable(MakeFat(<<>>, L, EntriesPerSector), <<>>, 0, L, 5, EntriesPerSector)
    BY <1>2, <1>4, <1>7, <1>8, <1>9, MakeFatFacts
  <1> QED
    BY <1>1, <1>6, <1>10 DEF L

LEMMA TabledStep ==
    ASSUME Base, Placed, Counted, Tabled, [Next]_vars
    PROVE  Tabled'
  <1> SUFFICES ASSUME pc' \in AfterTables PROVE Tabled'
    BY DEF Tabled
  <1>1. CASE WriteTables
    <2>1. pc \in AfterCount /\ UNCHANGED writer /\ pc' # "writer refused"
      BY <1>1, WriterSteps DEF AfterCount, AfterTables, AfterDirectory, AfterContents, AfterHeader,
              AfterFat, AfterMiniFat, AfterEntries
    <2> DEFINE v == MakeFat(TableMarkers, FatLengths, fatSectorNum * EntriesPerSector)
               w == MakeFat(<<>>, MiniFatLengths, EntriesPerSector)
    <2>2. NumMiniFatSectors * EntriesPerSector = EntriesPerSector
      BY Entries DEF NumMiniFatSectors
    <2>3. /\ ~Overflows(TableMarkers, FatLengths, fatSectorNum * EntriesPerSector)
          /\ ~Overflows(<<>>, MiniFatLengths, NumMiniFatSectors * EntriesPerSector)
          /\ image' = [image EXCEPT !.fat = v,
                         !.miniFat = MakeFat(<<>>, MiniFatLengths, NumMiniFatSectors * EntriesPerSector)]
      BY <1>1, <2>1, Zenon DEF WriteTables
    <2>4. ~Overflows(<<>>, MiniFatLengths, EntriesPerSector) /\ image' = [image EXCEPT !.fat = v, !.miniFat = w]
      BY <2>2, <2>3, Zenon
    <2>5. /\ IsTable(v, TableMarkers, MiniFatPos, FatLengths, 4, fatSectorNum * EntriesPerSector)
          /\ AllSectors <= fatSectorNum * EntriesPerSector
      BY <2>1, <2>3, WritesFat
    <2>6. /\ IsTable(w, <<>>, 0, MiniLengths(size), 5, EntriesPerSector)
          /\ Place(size, 6) <= EntriesPerSector
      BY <2>4, WritesMiniFat
    <2> HIDE DEF v, w
    <2>7. image'.fat = v /\ image'.miniFat = w
      <3> DEFINE h == image.header
                 f == image.fat
                 m == image.miniFat
                 d == image.directory
                 a == image.data
      <3>1. image = [header |-> h, fat |-> f, miniFat |-> m, directory |-> d, data |-> a]
        BY DEF Base, IsImage
      <3> HIDE DEF h, f, m, d, a
      <3>2. image' = [header |-> h, fat |-> v, miniFat |-> w, directory |-> d, data |-> a]
        BY <3>1, <2>4
      <3> QED
        BY <3>2, ImageOf
    <2>8. /\ TableMarkers' = TableMarkers /\ MiniFatPos' = MiniFatPos /\ FatLengths' = FatLengths
          /\ AllSectors' = AllSectors
      BY <2>1, LayoutStays
    <2>9. size' = size /\ fatSectorNum' = fatSectorNum
      BY <2>1 DEF writer
    <2> QED
      BY <2>5, <2>6, <2>7, <2>8, <2>9 DEF Tabled
  <1>2. CASE ~WriteTables
    <2>1. pc \in AfterTables /\ UNCHANGED writer
      BY <1>2, Flow
    <2>2. image'.fat = image.fat /\ image'.miniFat = image.miniFat
      BY <1>2, ImageFlow DEF Base
    <2>3. /\ TableMarkers' = TableMarkers /\ MiniFatPos' = MiniFatPos /\ FatLengths' = FatLengths
          /\ AllSectors' = AllSectors
      BY <2>1, LayoutStays
    <2>4. size' = size /\ fatSectorNum' = fatSectorNum
      BY <2>1 DEF writer
    <2> QED
      BY <2>1, <2>2, <2>3, <2>4 DEF Tabled
  <1> QED
    BY <1>1, <1>2
-----------------------------------------------------------------------------
(* Every sector is accounted for *)

\* The chain of one of the FAT's four runs.
LEMMA FatChain ==
    ASSUME Base, Placed, Counted, Tabled, pc \in AfterTables, NEW e \in 1 .. 4,
           NEW p, p = ChainBegin(MiniFatPos, FatLengths)[e], NEW l, l = FatLengths[e]
    PROVE  /\ HasChain(image.fat, p) /\ Chain(image.fat, p) = RunFrom(p, l)
           /\ p \in Nat /\ l \in Nat /\ l > 0 /\ p + l <= AllSectors
  <1>1. pc \in AfterCount
    BY DEF AfterCount
  <1> DEFINE t == image.fat
             b == ChainBegin(MiniFatPos, FatLengths)
             n == fatSectorNum * EntriesPerSector
  <1>2. IsTable(t, TableMarkers, MiniFatPos, FatLengths, 4, n) /\ AllSectors <= n
    BY DEF Tabled
  <1>3. IsRun(t, p, l) /\ HasChain(t, p) /\ t = [w \in 0 .. n - 1 |-> t[w]]
    <2> HIDE DEF t, n
    <2> QED
      BY <1>2 DEF IsTable
  <1>4. n \in Nat /\ AllSectors \in Nat
    <2>1. fatSectorNum \in Nat
      BY <1>1 DEF Counted
    <2>2. AllSectors \in Nat
      BY <1>1, FatPlaces
    <2> QED
      BY <2>1, <2>2, Entries
  <1>5. IsLengths(FatLengths, 4) /\ b[4 + 1] = AllSectors /\ MiniFatPos \in Nat
    BY <1>1, FatBegins, FatPlaces
  <1>6. /\ \A g \in 1 .. 4 + 1 : b[g] \in Nat
        /\ \A g \in 1 .. 4 : b[g + 1] = b[g] + FatLengths[g]
        /\ \A g, h \in 1 .. 4 + 1 : g <= h => b[g] <= b[h]
    <2> HIDE DEF b
    <2> USE DEF b
    <2> QED
      BY <1>5, ChainBeginFacts
  <1> HIDE DEF b, t, n
  <1>7. p = b[e]
    BY DEF b
  <1>8. l \in Nat /\ l > 0
    BY <1>5 DEF IsLengths
  <1>9. p \in Nat /\ p + l <= AllSectors
    <2>1. e \in 1 .. 4 + 1 /\ e + 1 \in 1 .. 4 + 1 /\ 4 + 1 \in 1 .. 4 + 1 /\ e + 1 <= 4 + 1
      OBVIOUS
    <2>2. b[e] \in Nat /\ b[e + 1] = b[e] + l /\ b[e + 1] <= b[4 + 1]
      BY <1>6, <2>1
    <2> QED
      BY <1>5, <1>7, <2>2
  <1>10. p + l <= n
    BY <1>2, <1>4, <1>8, <1>9
  <1>11. DOMAIN t = 0 .. n - 1
    BY <1>3
  <1>12. Chain(t, p) = RunFrom(p, l)
    BY <1>3, <1>4, <1>8, <1>9, <1>10, <1>11, ChainOfRun
  <1> QED
    BY <1>3, <1>8, <1>9, <1>12 DEF t

\* The four by the names of their first sectors.
LEMMA FatChains4 ==
    ASSUME Base, Placed, Counted, Tabled, pc \in AfterTables
    PROVE  /\ HasChain(image.fat, MiniFatPos) /\ Chain(image.fat, MiniFatPos) = RunFrom(MiniFatPos, 1)
           /\ HasChain(image.fat, DirPos) /\ Chain(image.fat, DirPos) = RunFrom(DirPos, DirSectors)
           /\ HasChain(image.fat, MiniDataPos)
           /\ Chain(image.fat, MiniDataPos) = RunFrom(MiniDataPos, MiniDataSectors)
           /\ HasChain(image.fat, PackagePos)
           /\ Chain(image.fat, PackagePos) = RunFrom(PackagePos, PackageSectors)
  <1>1. pc \in AfterCount
    BY DEF AfterCount
  <1>2. 1 \in 1 .. 4 /\ 2 \in 1 .. 4 /\ 3 \in 1 .. 4 /\ 4 \in 1 .. 4
    OBVIOUS
  <1>3. /\ FatLengths[1] = 1 /\ FatLengths[2] = DirSectors
        /\ FatLengths[3] = MiniDataSectors /\ FatLengths[4] = PackageSectors
        /\ ChainBegin(MiniFatPos, FatLengths)[1] = MiniFatPos
        /\ ChainBegin(MiniFatPos, FatLengths)[2] = DirPos
        /\ ChainBegin(MiniFatPos, FatLengths)[3] = MiniDataPos
        /\ ChainBegin(MiniFatPos, FatLengths)[4] = PackagePos
    BY <1>1, FatBegins
  <1>4. HasChain(image.fat, MiniFatPos) /\ Chain(image.fat, MiniFatPos) = RunFrom(MiniFatPos, 1)
    BY <1>2, <1>3, FatChain
  <1>5. HasChain(image.fat, DirPos) /\ Chain(image.fat, DirPos) = RunFrom(DirPos, DirSectors)
    BY <1>2, <1>3, FatChain
  <1>6. HasChain(image.fat, MiniDataPos)
        /\ Chain(image.fat, MiniDataPos) = RunFrom(MiniDataPos, MiniDataSectors)
    BY <1>2, <1>3, FatChain
  <1>7. HasChain(image.fat, PackagePos)
        /\ Chain(image.fat, PackagePos) = RunFrom(PackagePos, PackageSectors)
    BY <1>2, <1>3, FatChain
  <1> QED
    BY <1>4, <1>5, <1>6, <1>7

LEMMA RangeOfRun ==
    ASSUME NEW p \in Nat, NEW l \in Nat
    PROVE  Range(RunFrom(p, l)) = p .. p + l - 1
  <1> DEFINE r == RunFrom(p, l)
  <1>1. DOMAIN r = 1 .. l /\ \A k \in 1 .. l : r[k] = p + k - 1
    BY RunFacts
  <1>2. Range(r) = {r[k] : k \in 1 .. l}
    BY <1>1 DEF Range
  <1> HIDE DEF r
  <1>3. ASSUME NEW s \in p .. p + l - 1 PROVE s \in {r[k] : k \in 1 .. l}
    <2>1. s - p + 1 \in 1 .. l /\ p + (s - p + 1) - 1 = s
      OBVIOUS
    <2>2. r[s - p + 1] = s
      BY <1>1, <2>1
    <2> QED
      BY <2>1, <2>2
  <1>4. ASSUME NEW k \in 1 .. l PROVE r[k] \in p .. p + l - 1
    BY <1>1
  <1> QED
    BY <1>2, <1>3, <1>4 DEF r

LEMMA Accounts ==
    ASSUME Base, Placed, Counted, Tabled
    PROVE  Accounted
  <1> SUFFICES ASSUME pc = "contents" PROVE Accounted
    BY DEF Accounted
  <1> DEFINE fat == image.fat
             firsts == {MiniFatPos, DirPos, MiniDataPos, PackagePos}
             Sectors(p) == Range(Chain(fat, p))
  <1>1. pc \in AfterTables /\ pc \in AfterCount
    BY DEF AfterCount, AfterTables, AfterDirectory
  <1>2. \A s \in DOMAIN fat : fat[s] = FREESECT <=> s >= AllSectors
    <2> DEFINE n == fatSectorNum * EntriesPerSector
    <2>1. IsTable(fat, TableMarkers, MiniFatPos, FatLengths, 4, n)
      BY <1>1 DEF Tabled
    <2>2. ChainBegin(MiniFatPos, FatLengths)[4 + 1] = AllSectors
      BY <1>1, FatBegins
    <2> HIDE DEF n, fat
    <2>3. fat = [w \in 0 .. n - 1 |-> fat[w]]
      BY <2>1 DEF IsTable
    <2>4. \A w \in 0 .. n - 1 : fat[w] = FREESECT <=> w >= ChainBegin(MiniFatPos, FatLengths)[4 + 1]
      BY <2>1 DEF IsTable
    <2>5. DOMAIN fat = 0 .. n - 1
      BY <2>3
    <2> QED
      BY <2>2, <2>4, <2>5
  <1>3. \A p \in firsts : HasChain(fat, p)
    BY <1>1, FatChains4
  <1>4. /\ MiniFatPos \in Nat /\ DirSectors \in Nat /\ MiniDataSectors \in Nat /\ PackageSectors \in Nat
        /\ DirPos = MiniFatPos + 1 /\ MiniDataPos = DirPos + DirSectors
        /\ PackagePos = MiniDataPos + MiniDataSectors /\ AllSectors = PackagePos + PackageSectors
        /\ DirPos \in Nat /\ MiniDataPos \in Nat /\ PackagePos \in Nat
    BY <1>1, FatPlaces
  <1>5. /\ Sectors(MiniFatPos) = MiniFatPos .. DirPos - 1
        /\ Sectors(DirPos) = DirPos .. MiniDataPos - 1
        /\ Sectors(MiniDataPos) = MiniDataPos .. PackagePos - 1
        /\ Sectors(PackagePos) = PackagePos .. AllSectors - 1
    <2>1. Sectors(MiniFatPos) = MiniFatPos .. MiniFatPos + 1 - 1
      BY <1>1, <1>4, FatChains4, RangeOfRun
    <2>2. Sectors(DirPos) = DirPos .. DirPos + DirSectors - 1
      BY <1>1, <1>4, FatChains4, RangeOfRun
    <2>3. Sectors(MiniDataPos) = MiniDataPos .. MiniDataPos + MiniDataSectors - 1
      BY <1>1, <1>4, FatChains4, RangeOfRun
    <2>4. Sectors(PackagePos) = PackagePos .. PackagePos + PackageSectors - 1
      BY <1>1, <1>4, FatChains4, RangeOfRun
    <2> QED
      BY <1>4, <2>1, <2>2, <2>3, <2>4
  <1> HIDE DEF Sectors
  <1>6. ASSUME NEW s
        PROVE  (\E p \in firsts : s \in Sectors(p)) <=> s \in MiniFatPos .. AllSectors - 1
    <2>1. (\E p \in firsts : s \in Sectors(p)) <=>
             \/ s \in Sectors(MiniFatPos) \/ s \in Sectors(DirPos)
             \/ s \in Sectors(MiniDataPos) \/ s \in Sectors(PackagePos)
      BY Zenon
    <2> QED
      BY <1>4, <1>5, <2>1
  <1>7. ASSUME NEW p \in firsts, NEW q \in firsts, NEW s, s \in Sectors(p), s \in Sectors(q)
        PROVE  p = q
    <2>1. p = MiniFatPos \/ p = DirPos \/ p = MiniDataPos \/ p = PackagePos
      OBVIOUS
    <2>2. q = MiniFatPos \/ q = DirPos \/ q = MiniDataPos \/ q = PackagePos
      OBVIOUS
    <2> HIDE DEF firsts
    <2>3. s \in Int
      BY <1>4, <1>5, <1>7, <2>1
    <2>4. CASE p = MiniFatPos
      BY <1>4, <1>5, <1>7, <2>2, <2>3, <2>4
    <2>5. CASE p = DirPos
      BY <1>4, <1>5, <1>7, <2>2, <2>3, <2>5
    <2>6. CASE p = MiniDataPos
      BY <1>4, <1>5, <1>7, <2>2, <2>3, <2>6
    <2>7. CASE p = PackagePos
      BY <1>4, <1>5, <1>7, <2>2, <2>3, <2>7
    <2> QED
      BY <2>1, <2>4, <2>5, <2>6, <2>7
  <1> DEFINE sectors == [p \in firsts |-> Range(Chain(fat, p))]
  <1>8. \A p \in firsts : sectors[p] = Sectors(p)
    BY DEF Sectors
  <1> HIDE DEF sectors, firsts
  <1>9. UNION {sectors[p] : p \in firsts} = MiniFatPos .. AllSectors - 1
    <2>1. \A s : s \in UNION {sectors[p] : p \in firsts} <=> \E p \in firsts : s \in sectors[p]
      BY Zenon
    <2>2. \A s : s \in UNION {sectors[p] : p \in firsts} <=> s \in MiniFatPos .. AllSectors - 1
      BY <1>6, <1>8, <2>1, Zenon
    <2> DEFINE u == UNION {sectors[p] : p \in firsts}
               v == MiniFatPos .. AllSectors - 1
    <2>3. \A s : s \in u <=> s \in v
      BY <2>2
    <2> HIDE DEF u, v
    <2>4. u = v
      BY <2>3
    <2> QED
      BY <2>4 DEF u, v
  <1>10. \A p, q \in firsts : p # q => sectors[p] \cap sectors[q] = {}
    BY <1>7, <1>8, Zenon
  <1> USE DEF sectors, firsts
  <1> QED
    BY <1>2, <1>3, <1>9, <1>10 DEF Accounted

\* What the writer has done up to each phase.
WriterInv == Base /\ Placed /\ Counted /\ Tabled

LEMMA WriterInit == Init => WriterInv
  <1> SUFFICES ASSUME Init PROVE WriterInv
    OBVIOUS
  <1>1. pc \in {"ministreams", "writer refused"}
    BY DEF Init
  <1>2. pc \notin AfterPlace /\ pc \notin AfterCount /\ pc \notin AfterTables
    BY <1>1 DEF AfterPlace, AfterCount, AfterTables, AfterDirectory, AfterContents, AfterHeader,
              AfterFat, AfterMiniFat, AfterEntries
  <1> QED
    BY <1>2, BaseInit DEF WriterInv, Placed, Counted, Tabled

LEMMA WriterStep == WriterInv /\ [Next]_vars => WriterInv'
  BY BaseStep, PlacedStep, CountedStep, TabledStep DEF WriterInv

\* The tables makeLayout writes tell of every sector: the four chains that begin
\* at the positions in the header and the directory (mini FAT, directory, mini
\* stream, package) partition the sectors after the FAT's own, and no sector of
\* the file is marked free.
THEOREM AccountedAlways == Spec => []Accounted
  <1>1. WriterInv => Accounted
    BY Accounts DEF WriterInv
  <1> QED
    BY <1>1, WriterInit, WriterStep, PTL DEF Spec
-----------------------------------------------------------------------------
(* Where the contents lie *)

LEMMA Monotone ==
    ASSUME NEW s \in Nat, NEW t \in Nat, NEW b \in Nat, s <= t
    PROVE  s * b \in Nat /\ t * b \in Nat /\ s * b <= t * b
  <1>1. CASE s = t
    BY <1>1, Times
  <1>2. CASE s < t
    BY <1>2, Times
  <1> QED
    BY <1>1, <1>2

\* Where the k-th of the small streams lies, and a package above the cutoff.
MiniAreaAt(k) == MiniDataPos * SectorSize + Place(size, k) * MiniSize
PackageAreaAt == PackagePos * SectorSize
MiniLength(k) == size[MiniStreams[k]]

LEMMA Areas ==
    ASSUME Base, Placed, Counted, pc \in AfterCount
    PROVE  /\ \A k \in 1 .. 5 : MiniAreaAt(k) \in Nat /\ MiniLength(k) \in Nat
           /\ \A k, l \in 1 .. 5 : k < l => MiniAreaAt(k) + MiniLength(k) <= MiniAreaAt(l)
           /\ \A k \in 1 .. 5 : MiniAreaAt(k) + MiniLength(k) <= PackageAreaAt
           /\ PackageAreaAt \in Nat /\ size[Package] \in Nat
           /\ PackageAreaAt + size[Package] <= AllSectors * SectorSize
  <1>1. size \in Documents /\ IsEntries(size, dirs)
    BY DEF Base
  <1>2. /\ \A k \in 1 .. 6 : Place(size, k) \in Nat
        /\ \A k \in 1 .. 5 : Place(size, k + 1) = Place(size, k) + MiniLengths(size)[k]
        /\ \A k, l \in 1 .. 6 : k <= l => Place(size, k) <= Place(size, l)
        /\ Place(size, 6) > 0
    BY <1>1, PlaceFacts
  <1>3. \A k \in 1 .. 5 : /\ MiniLengths(size)[k] \in Nat
                          /\ MiniLength(k) <= MiniLengths(size)[k] * MiniSize
    BY <1>1, MiniLengthsFacts DEF IsLengths, MiniLength
  <1>4. \A k \in 1 .. 5 : MiniLength(k) \in Nat
    BY <1>1, DocumentFacts, Geometry DEF MiniLength
  <1>5. /\ MiniDataPos \in Nat /\ PackagePos \in Nat /\ AllSectors \in Nat /\ MiniDataSectors \in Nat
        /\ PackageSectors \in Nat
        /\ PackagePos = MiniDataPos + MiniDataSectors /\ AllSectors = PackagePos + PackageSectors
    BY FatPlaces
  <1> DEFINE base == MiniDataPos * SectorSize
             At(k) == Place(size, k) * MiniSize
  <1>6. base \in Nat
    BY <1>5, Geometry, Times
  <1>7. \A k \in 1 .. 6 : At(k) \in Nat
    BY <1>2, Geometry, Times
  <1>8. \A k \in 1 .. 5 : At(k) + MiniLength(k) <= At(k + 1)
    <2> SUFFICES ASSUME NEW k \in 1 .. 5 PROVE At(k) + MiniLength(k) <= At(k + 1)
      OBVIOUS
    <2> DEFINE a == Place(size, k)
               l == MiniLengths(size)[k]
               m == MiniLength(k)
    <2>1. a \in Nat /\ l \in Nat /\ m \in Nat /\ m <= l * MiniSize
      BY <1>2, <1>3, <1>4
    <2>2. Place(size, k + 1) = a + l
      BY <1>2
    <2> HIDE DEF a, l, m
    <2>3. (a + l) * MiniSize = a * MiniSize + l * MiniSize /\ a * MiniSize \in Nat /\ l * MiniSize \in Nat
      BY <2>1, Geometry
    <2>4. a * MiniSize + m <= (a + l) * MiniSize
      BY <2>1, <2>3
    <2> QED
      BY <2>2, <2>4 DEF a, m
  <1>9. \A k, l \in 1 .. 6 : k <= l => At(k) <= At(l)
    <2> SUFFICES ASSUME NEW k \in 1 .. 6, NEW l \in 1 .. 6, k <= l PROVE At(k) <= At(l)
      OBVIOUS
    <2>1. Place(size, k) \in Nat /\ Place(size, l) \in Nat /\ Place(size, k) <= Place(size, l)
      BY <1>2
    <2> QED
      BY <2>1, Geometry, Monotone
  <1>10. base + At(6) <= PackageAreaAt /\ PackageAreaAt \in Nat
    <2> DEFINE p == Place(size, 6)
    <2>1. pc \in AfterPlace
      BY DEF AfterPlace
    <2>2. p = miniFatNum /\ p \in Nat /\ p > 0
      BY <1>2, <2>1 DEF Placed
    <2>3. p <= MiniDataSectors * MinisPerSector
      BY <1>1, <2>2, LayoutFacts
    <2>4. MiniDataSectors * MinisPerSector \in Nat
      BY <1>5, Geometry, Times
    <2> HIDE DEF p
    <2>5. p * MiniSize <= (MiniDataSectors * MinisPerSector) * MiniSize
      BY <2>2, <2>3, <2>4, Geometry, Monotone
    <2>6. (MiniDataSectors * MinisPerSector) * MiniSize = MiniDataSectors * SectorSize
      BY <1>5, Geometry
    <2>7. (MiniDataPos + MiniDataSectors) * SectorSize = MiniDataPos * SectorSize + MiniDataSectors * SectorSize
      BY <1>5, Geometry
    <2>8. MiniDataSectors * SectorSize \in Nat /\ PackagePos * SectorSize \in Nat
      BY <1>5, Geometry, Times
    <2>9. p * MiniSize \in Nat
      BY <2>2, Geometry, Times
    <2> QED
      BY <1>5, <1>6, <2>5, <2>6, <2>7, <2>8, <2>9 DEF p, PackageAreaAt
  <1>11. size[Package] \in Nat /\ PackageAreaAt + size[Package] <= AllSectors * SectorSize
    <2>1. size[Package] <= PackageSectors * SectorSize /\ size[Package] \in Nat
      <3>1. pc \in AfterPlace
        BY DEF AfterPlace
      <3>2. miniFatNum \in Nat /\ miniFatNum > 0
        BY <1>2, <3>1 DEF Placed
      <3> QED
        BY <1>1, <3>2, LayoutFacts, DocumentFacts
    <2>2. (PackagePos + PackageSectors) * SectorSize = PackagePos * SectorSize + PackageSectors * SectorSize
      BY <1>5, Geometry
    <2>3. PackagePos * SectorSize \in Nat /\ PackageSectors * SectorSize \in Nat
      BY <1>5, Geometry, Times
    <2> QED
      BY <1>5, <2>1, <2>2, <2>3 DEF PackageAreaAt
  <1>12. \A k : MiniAreaAt(k) = base + At(k)
    BY DEF MiniAreaAt
  <1> HIDE DEF base, At
  <1>13. ASSUME NEW k \in 1 .. 5, NEW l \in 1 .. 5, k < l
         PROVE  MiniAreaAt(k) + MiniLength(k) <= MiniAreaAt(l)
    <2>1. k \in 1 .. 6 /\ k + 1 \in 1 .. 6 /\ l \in 1 .. 6 /\ k + 1 <= l
      BY <1>13
    <2>2. At(k) + MiniLength(k) <= At(k + 1) /\ At(k + 1) <= At(l)
      BY <1>8, <1>9, <2>1
    <2>3. At(k) \in Nat /\ At(k + 1) \in Nat /\ At(l) \in Nat /\ MiniLength(k) \in Nat
      BY <1>4, <1>7, <2>1
    <2> QED
      BY <1>6, <1>12, <2>2, <2>3
  <1>14. ASSUME NEW k \in 1 .. 5
         PROVE  MiniAreaAt(k) + MiniLength(k) <= PackageAreaAt /\ MiniAreaAt(k) \in Nat
    <2>1. k \in 1 .. 6 /\ k + 1 \in 1 .. 6 /\ 6 \in 1 .. 6 /\ k + 1 <= 6
      OBVIOUS
    <2>2. At(k) + MiniLength(k) <= At(k + 1) /\ At(k + 1) <= At(6)
      BY <1>8, <1>9, <2>1
    <2>3. At(k) \in Nat /\ At(k + 1) \in Nat /\ At(6) \in Nat /\ MiniLength(k) \in Nat
      BY <1>4, <1>7, <2>1
    <2> QED
      BY <1>6, <1>10, <1>12, <2>2, <2>3
  <1> QED
    BY <1>4, <1>10, <1>11, <1>13, <1>14

\* An entry that starts at the place of the area it is written to.
LEMMA AreaOf ==
    ASSUME Base, Placed, Counted, pc \in AfterCount
    PROVE  /\ \A k \in 1 .. 5 : /\ WriteAt(dirs[MiniAt[k]]) = MiniAreaAt(k)
                                /\ dirs[MiniAt[k]].size = MiniLength(k)
                                /\ dirs[MiniAt[k]].start = Place(size, k)
                                /\ MiniLength(k) < Cutoff
           /\ dirs[2].size = size[Package]
           /\ size[Package] > Cutoff => WriteAt(dirs[2]) = PackageAreaAt
  <1>1. size \in Documents /\ IsEntries(size, dirs) /\ pc \in AfterPlace
    BY DEF Base, AfterPlace
  <1>2. ASSUME NEW k \in 1 .. 5
        PROVE  /\ WriteAt(dirs[MiniAt[k]]) = MiniAreaAt(k)
               /\ dirs[MiniAt[k]].size = MiniLength(k)
               /\ dirs[MiniAt[k]].start = Place(size, k)
               /\ MiniLength(k) < Cutoff
    <2>1. dirs[MiniAt[k]].size = MiniLength(k)
      BY <1>1, EntrySizes DEF MiniLength
    <2>2. dirs[MiniAt[k]].start = Place(size, k)
      BY <1>1 DEF Placed
    <2>3. MiniLength(k) \in Nat /\ MiniLength(k) < Cutoff
      BY <1>1, DocumentFacts, Geometry DEF MiniLength
    <2> QED
      BY <2>1, <2>2, <2>3, Geometry DEF WriteAt, MiniAreaAt
  <1>3. dirs[2].size = size[Package]
    BY <1>1, EntrySizes
  <1>4. ASSUME size[Package] > Cutoff PROVE WriteAt(dirs[2]) = PackageAreaAt
    <2>1. dirs[2].start = PackagePos
      BY DEF Counted
    <2>2. size[Package] \in Nat
      BY <1>1, DocumentFacts
    <2> QED
      BY <1>3, <1>4, <2>1, <2>2, Geometry DEF WriteAt, PackageAreaAt
  <1> QED
    BY <1>2, <1>3, <1>4
-----------------------------------------------------------------------------
(* The contents in the file *)

HasTokens(data, at, s, n) == \A o \in 1 .. n : data[at + o - 1] = <<s, o>>

\* The units from `at` on get the tokens of s.
Filled(data, at, s, n) ==
    [a \in DOMAIN data |-> IF a \in at .. at + n - 1 THEN <<s, a - at + 1>> ELSE data[a]]

LEMMA FillWrites ==
    ASSUME NEW data, NEW m \in Nat, DOMAIN data = 0 .. m - 1, NEW s,
           NEW at \in Nat, NEW n \in Nat, at + n <= m
    PROVE  HasTokens(Filled(data, at, s, n), at, s, n)
  <1> SUFFICES ASSUME NEW o \in 1 .. n
               PROVE  Filled(data, at, s, n)[at + o - 1] = <<s, o>>
    BY DEF HasTokens
  <1>1. at + o - 1 \in 0 .. m - 1 /\ at + o - 1 \in at .. at + n - 1 /\ (at + o - 1) - at + 1 = o
    OBVIOUS
  <1> QED
    BY <1>1 DEF Filled

LEMMA FillKeeps ==
    ASSUME NEW data, NEW m \in Nat, DOMAIN data = 0 .. m - 1, NEW s,
           NEW at \in Nat, NEW n \in Nat, NEW r, NEW b \in Nat, NEW l \in Nat, b + l <= m,
           b + l <= at \/ at + n <= b, HasTokens(data, b, r, l)
    PROVE  HasTokens(Filled(data, at, s, n), b, r, l)
  <1> SUFFICES ASSUME NEW o \in 1 .. l
               PROVE  Filled(data, at, s, n)[b + o - 1] = <<r, o>>
    BY DEF HasTokens
  <1>1. b + o - 1 \in 0 .. m - 1 /\ b + o - 1 \notin at .. at + n - 1
    OBVIOUS
  <1>2. data[b + o - 1] = <<r, o>>
    BY DEF HasTokens
  <1> QED
    BY <1>1, <1>2 DEF Filled

\* The index of the loops: 1 outside of them.
Straight ==
    {"ministreams", "layout", "tables", "directory", "header", "tables to read", "mini fat", "entries"}
LoopIndex == next \in 1 .. 11 /\ (pc \in Straight => next = 1)

\* The entries WriteContents is past.
IsDone(x) == (pc = "contents" /\ x < next) \/ pc \in AfterContents

Written ==
    /\ \A k \in 1 .. 5 :
         IsDone(MiniAt[k]) => HasTokens(image.data, MiniAreaAt(k), MiniStreams[k], MiniLength(k))
    /\ size[Package] > Cutoff /\ IsDone(2) =>
         HasTokens(image.data, PackageAreaAt, Package, size[Package])

LEMMA ToContents ==
    ASSUME [Next]_vars, pc' = "contents"
    PROVE  WriteDirectory \/ WriteContents \/ UNCHANGED vars
  BY WriterSteps, ReaderSteps DEF Next

\* What a round of the loop makes of the data.
LEMMA WriteRound ==
    ASSUME Base, Placed, Counted, LoopIndex, WriteContents
    PROVE  /\ next \in HasStream =>
                image'.data = Filled(image.data, WriteAt(dirs[next]), DirNames[next], dirs[next].size)
           /\ next \notin HasStream => image'.data = image.data
           /\ pc = "contents" /\ UNCHANGED writer
           /\ \/ pc' = "contents" /\ next' = next + 1 /\ next < 11
              \/ pc' = "header" /\ next' = 1 /\ next = 11
  <1>1. pc = "contents" /\ UNCHANGED writer
    BY WriterSteps
  <1>2. next \in 1 .. 11
    BY DEF LoopIndex
  <1>3. IF next < DirNum THEN next' = next + 1 /\ UNCHANGED pc ELSE next' = 1 /\ pc' = "header"
    BY Zenon DEF WriteContents
  <1>4. \/ pc' = "contents" /\ next' = next + 1 /\ next < 11
        \/ pc' = "header" /\ next' = 1 /\ next = 11
    BY <1>1, <1>2, <1>3, DirNumIs
  <1> DEFINE v == Filled(image.data, WriteAt(dirs[next]), DirNames[next], dirs[next].size)
  <1>5. IF DirNames[next] \in Streams THEN image' = [image EXCEPT !.data = v] ELSE image' = image
    BY Zenon DEF WriteContents, Filled
  <1>6. DirNames[next] \in Streams <=> next \in HasStream
    BY <1>2, StreamsAre
  <1> HIDE DEF v
  <1>7. CASE next \in HasStream
    <2>1. image' = [image EXCEPT !.data = v]
      BY <1>5, <1>6, <1>7
    <2>2. IsImage(image)
      BY DEF Base
    <2>3. image'.data = v
      <3> DEFINE h == image.header
                 f == image.fat
                 m == image.miniFat
                 d == image.directory
                 a == image.data
      <3>1. image = [header |-> h, fat |-> f, miniFat |-> m, directory |-> d, data |-> a]
        BY <2>2 DEF IsImage
      <3> HIDE DEF h, f, m, d, a
      <3>2. image' = [header |-> h, fat |-> f, miniFat |-> m, directory |-> d, data |-> v]
        BY <2>1, <3>1
      <3> QED
        BY <3>2, ImageOf
    <2> QED
      BY <1>1, <1>4, <1>7, <2>3 DEF v
  <1>8. CASE next \notin HasStream
    BY <1>1, <1>4, <1>5, <1>6, <1>8
  <1> QED
    BY <1>7, <1>8

\* The areas with the writer's state.
LEMMA AreasStay ==
    ASSUME UNCHANGED writer
    PROVE  /\ \A k : MiniAreaAt(k)' = MiniAreaAt(k) /\ MiniLength(k)' = MiniLength(k)
           /\ PackageAreaAt' = PackageAreaAt
           /\ size' = size /\ dirs' = dirs
  <1>1. size' = size /\ dirs' = dirs
    BY DEF writer
  <1> QED
    BY <1>1, LayoutStays DEF MiniAreaAt, MiniLength, PackageAreaAt

LEMMA WriteRoundKeeps ==
    ASSUME Base, Placed, Counted, LoopIndex, Written, WriteContents
    PROVE  /\ \A k \in 1 .. 5 : MiniAt[k] <= next =>
                HasTokens(image'.data, MiniAreaAt(k), MiniStreams[k], MiniLength(k))
           /\ size[Package] > Cutoff /\ 2 <= next =>
                HasTokens(image'.data, PackageAreaAt, Package, size[Package])
  <1> DEFINE m == AllSectors * SectorSize
             d == image.data
             e == image'.data
  <1>1. pc = "contents" /\ pc \in AfterCount /\ next \in 1 .. 11
    BY WriterSteps DEF AfterCount, AfterTables, AfterDirectory, LoopIndex
  <1>2. DOMAIN d = 0 .. m - 1 /\ m \in Nat
    <2>1. DOMAIN d = 0 .. m - 1
      BY <1>1 DEF Counted
    <2>2. AllSectors \in Nat
      BY <1>1, FatPlaces
    <2> QED
      BY <2>1, <2>2, Geometry, Times
  <1>3. /\ \A k \in 1 .. 5 : MiniAreaAt(k) \in Nat /\ MiniLength(k) \in Nat
        /\ \A k, l \in 1 .. 5 : k < l => MiniAreaAt(k) + MiniLength(k) <= MiniAreaAt(l)
        /\ \A k \in 1 .. 5 : MiniAreaAt(k) + MiniLength(k) <= PackageAreaAt
        /\ PackageAreaAt \in Nat /\ size[Package] \in Nat
        /\ PackageAreaAt + size[Package] <= m
    BY <1>1, Areas
  <1>4. /\ \A k \in 1 .. 5 : /\ WriteAt(dirs[MiniAt[k]]) = MiniAreaAt(k)
                             /\ dirs[MiniAt[k]].size = MiniLength(k)
        /\ dirs[2].size = size[Package]
        /\ size[Package] > Cutoff => WriteAt(dirs[2]) = PackageAreaAt
    BY <1>1, AreaOf
  <1>5. /\ next \in HasStream => e = Filled(d, WriteAt(dirs[next]), DirNames[next], dirs[next].size)
        /\ next \notin HasStream => e = d
    BY WriteRound
  <1>6. /\ \A k \in 1 .. 5 : MiniAt[k] < next => HasTokens(d, MiniAreaAt(k), MiniStreams[k], MiniLength(k))
        /\ size[Package] > Cutoff /\ 2 < next => HasTokens(d, PackageAreaAt, Package, size[Package])
    BY <1>1 DEF Written, IsDone
  <1>7. /\ \A k \in 1 .. 5 : MiniAt[k] \in 3 .. 11 /\ MiniStreams[k] = DirNames[MiniAt[k]]
        /\ Package = DirNames[2]
    BY MiniStreamsAre, StreamsAre
  <1>8. next \in HasStream => next = 2 \/ \E l \in 1 .. 5 : next = MiniAt[l]
    <2>1. MiniAt[1] = 4 /\ MiniAt[2] = 5 /\ MiniAt[3] = 7 /\ MiniAt[4] = 10 /\ MiniAt[5] = 11
      BY DEF MiniAt
    <2>2. 1 \in 1 .. 5 /\ 2 \in 1 .. 5 /\ 3 \in 1 .. 5 /\ 4 \in 1 .. 5 /\ 5 \in 1 .. 5
      OBVIOUS
    <2> QED
      BY <2>1, <2>2 DEF HasStream
  <1> HIDE DEF m, d, e
  <1>9. ASSUME NEW k \in 1 .. 5, MiniAt[k] <= next
        PROVE  HasTokens(e, MiniAreaAt(k), MiniStreams[k], MiniLength(k))
    <2> DEFINE a == MiniAreaAt(k)
               n == MiniLength(k)
    <2>1. a \in Nat /\ n \in Nat /\ a + n <= PackageAreaAt /\ a + n <= m
      <3>1. a \in Nat /\ n \in Nat /\ a + n <= PackageAreaAt
        BY <1>3
      <3>2. PackageAreaAt \in Nat /\ size[Package] \in Nat /\ PackageAreaAt + size[Package] <= m
        BY <1>3
      <3> HIDE DEF a, n
      <3> QED
        BY <1>2, <3>1, <3>2
    <2>2. CASE next = MiniAt[k]
      <3>1. next \in HasStream
        BY <2>2, MiniStreamsAre DEF HasStream
      <3>2. e = Filled(d, a, MiniStreams[k], n)
        BY <1>4, <1>5, <1>7, <2>2, <3>1
      <3> HIDE DEF a, n
      <3>3. HasTokens(e, a, MiniStreams[k], n)
        BY <1>2, <2>1, <3>2, FillWrites
      <3> QED
        BY <3>3 DEF a, n
    <2>3. CASE next # MiniAt[k] /\ next \in HasStream
      <3>1. MiniAt[k] \in 3 .. 11 /\ MiniAt[k] < next
        BY <1>1, <1>7, <1>9, <2>3
      <3>2. PICK l \in 1 .. 5 : next = MiniAt[l]
        BY <1>8, <2>3, <3>1
      <3>3. k # l
        BY <2>3, <3>2
      <3> DEFINE b == MiniAreaAt(l)
                 i == MiniLength(l)
      <3>4. b \in Nat /\ i \in Nat /\ (a + n <= b \/ b + i <= a)
        <4>1. k < l \/ l < k
          BY <3>3
        <4> QED
          BY <1>3, <4>1
      <3>5. e = Filled(d, b, DirNames[next], i)
        BY <1>4, <1>5, <2>3, <3>2
      <3>6. HasTokens(d, a, MiniStreams[k], n)
        BY <1>6, <3>1
      <3> HIDE DEF a, n, b, i
      <3>7. HasTokens(e, a, MiniStreams[k], n)
        BY <1>2, <2>1, <3>4, <3>5, <3>6, FillKeeps
      <3> QED
        BY <3>7 DEF a, n
    <2>4. CASE next # MiniAt[k] /\ next \notin HasStream
      <3>1. MiniAt[k] < next
        BY <1>1, <1>7, <1>9, <2>4
      <3> QED
        BY <1>5, <1>6, <2>4, <3>1
    <2> QED
      BY <2>2, <2>3, <2>4
  <1>10. ASSUME size[Package] > Cutoff, 2 <= next
         PROVE  HasTokens(e, PackageAreaAt, Package, size[Package])
    <2>1. CASE next = 2
      <3>1. next \in HasStream
        BY <2>1 DEF HasStream
      <3>2. e = Filled(d, PackageAreaAt, Package, size[Package])
        BY <1>4, <1>5, <1>7, <1>10, <2>1, <3>1
      <3> QED
        BY <1>2, <1>3, <3>2, FillWrites
    <2>2. CASE next # 2 /\ next \in HasStream
      <3>1. PICK l \in 1 .. 5 : next = MiniAt[l]
        BY <1>8, <2>2
      <3> DEFINE b == MiniAreaAt(l)
                 i == MiniLength(l)
      <3>2. b \in Nat /\ i \in Nat /\ b + i <= PackageAreaAt
        BY <1>3
      <3>3. e = Filled(d, b, DirNames[next], i)
        BY <1>4, <1>5, <2>2, <3>1
      <3>4. HasTokens(d, PackageAreaAt, Package, size[Package])
        BY <1>1, <1>6, <1>10, <2>2
      <3> HIDE DEF b, i
      <3> QED
        BY <1>2, <1>3, <3>2, <3>3, <3>4, FillKeeps
    <2>3. CASE next # 2 /\ next \notin HasStream
      BY <1>1, <1>5, <1>6, <1>10, <2>3
    <2> QED
      BY <2>1, <2>2, <2>3
  <1> QED
    BY <1>9, <1>10 DEF e

LEMMA WrittenStep ==
    ASSUME Base, Placed, Counted, LoopIndex, Written, [Next]_vars
    PROVE  Written'
  <1>1. CASE WriteContents
    <2>1. /\ \A k \in 1 .. 5 : MiniAt[k] <= next =>
                HasTokens(image'.data, MiniAreaAt(k), MiniStreams[k], MiniLength(k))
          /\ size[Package] > Cutoff /\ 2 <= next =>
                HasTokens(image'.data, PackageAreaAt, Package, size[Package])
      BY <1>1, WriteRoundKeeps
    <2>2. /\ UNCHANGED writer /\ next \in 1 .. 11
          /\ \/ pc' = "contents" /\ next' = next + 1
             \/ pc' = "header" /\ next = 11
      BY <1>1, WriteRound DEF LoopIndex
    <2>3. \A x \in 1 .. 11 : IsDone(x)' => x <= next
      <3>1. CASE pc' = "contents" /\ next' = next + 1
        <4>1. pc' \notin AfterContents
          BY <3>1 DEF AfterContents, AfterHeader, AfterFat, AfterMiniFat, AfterEntries
        <4> QED
          BY <2>2, <3>1, <4>1 DEF IsDone
      <3>2. CASE next = 11
        BY <3>2
      <3> QED
        BY <2>2, <3>1, <3>2
    <2>4. 2 \in 1 .. 11 /\ \A k \in 1 .. 5 : MiniAt[k] \in 1 .. 11
      BY MiniStreamsAre
    <2> QED
      BY <2>1, <2>2, <2>3, <2>4, AreasStay DEF Written
  <1>2. CASE ~WriteContents /\ pc' \in AfterContents
    <2>1. pc \in AfterContents /\ UNCHANGED <<writer, image>>
      BY <1>2, Flow
    <2>2. \A x : IsDone(x)
      BY <2>1 DEF IsDone
    <2> QED
      BY <2>1, <2>2, AreasStay DEF Written
  <1>3. CASE ~WriteContents /\ pc' \notin AfterContents
    <2>1. CASE pc' = "contents"
      <3>1. CASE WriteDirectory
        <4>1. next' = 1
          BY <3>1, WriterSteps DEF LoopIndex, Straight
        <4>2. \A x \in 1 .. 11 : ~IsDone(x)'
          BY <1>3, <4>1 DEF IsDone
        <4>3. 2 \in 1 .. 11 /\ \A k \in 1 .. 5 : MiniAt[k] \in 1 .. 11
          BY MiniStreamsAre
        <4> QED
          BY <4>2, <4>3 DEF Written
      <3>2. CASE UNCHANGED vars
        <4>1. pc' = pc /\ next' = next /\ image' = image /\ UNCHANGED writer
          BY <3>2 DEF vars
        <4>2. \A x : IsDone(x)' <=> IsDone(x)
          BY <4>1 DEF IsDone
        <4> QED
          BY <4>1, <4>2, AreasStay DEF Written
      <3> QED
        BY <1>3, <2>1, <3>1, <3>2, ToContents
    <2>2. CASE pc' # "contents"
      <3>1. \A x : ~IsDone(x)'
        BY <1>3, <2>2 DEF IsDone
      <3> QED
        BY <3>1 DEF Written
    <2> QED
      BY <2>1, <2>2
  <1> QED
    BY <1>1, <1>2, <1>3
-----------------------------------------------------------------------------
(* What the reader has of the header *)

LEMMA HeaderIs ==
    /\ Header.firstDirectorySectorLocation = DirPos
    /\ Header.firstMiniFatSectorLocation = MiniFatPos
    /\ Header.numMiniFatSectors = 1
    /\ Header.firstDifatSectorLocation = IF difatSectorNum > 0 THEN 0 ELSE ENDOFCHAIN
    /\ Header.difat = [x \in 1 .. Min({fatSectorNum, HeaderSlots}) |-> FatPos + x - 1]
    /\ Header.signature = Magic /\ Header.minorVersion = 62 /\ Header.majorVersion = 3
    /\ Header.byteOrder = ByteOrder /\ Header.sectorShift = 9
    /\ Header.miniSectorShift = MiniSectorShift /\ Header.numDirectorySectors = 0
    /\ Header.miniStreamCutoffSize = MiniStreamCutoffSize
  <1> DEFINE a == DirPos
             b == MiniFatPos
             c == IF difatSectorNum > 0 THEN 0 ELSE ENDOFCHAIN
             d == [x \in 1 .. Min({fatSectorNum, HeaderSlots}) |-> FatPos + x - 1]
  <1>1. Header = [NewHeader EXCEPT
                    !.firstDirectorySectorLocation = a,
                    !.firstMiniFatSectorLocation = b,
                    !.numMiniFatSectors = NumMiniFatSectors,
                    !.numFatSectors = fatSectorNum,
                    !.numDifatSectors = difatSectorNum,
                    !.firstDifatSectorLocation = c,
                    !.difat = d]
    BY DEF Header
  <1> HIDE DEF a, b, c, d
  <1>2. Header =
          [signature |-> Magic, minorVersion |-> 62, majorVersion |-> 3, byteOrder |-> ByteOrder,
           sectorShift |-> 9, miniSectorShift |-> MiniSectorShift, numDirectorySectors |-> 0,
           numFatSectors |-> fatSectorNum, firstDirectorySectorLocation |-> a,
           transactionSignatureNumber |-> 0, miniStreamCutoffSize |-> MiniStreamCutoffSize,
           firstMiniFatSectorLocation |-> b, numMiniFatSectors |-> NumMiniFatSectors,
           firstDifatSectorLocation |-> c, numDifatSectors |-> difatSectorNum, difat |-> d]
    BY <1>1 DEF NewHeader
  <1> QED
    BY <1>2 DEF a, b, c, d, NumMiniFatSectors

LEMMA MinOfTwo ==
    ASSUME NEW a \in Nat, NEW b \in Nat
    PROVE  /\ Min({a, b}) \in Nat /\ Min({a, b}) <= a /\ Min({a, b}) <= b
           /\ a <= b => Min({a, b}) = a
           /\ b <= a => Min({a, b}) = b
  <1> DEFINE m == IF a <= b THEN a ELSE b
  <1>1. m \in {a, b} /\ \A x \in {a, b} : m <= x
    OBVIOUS
  <1>2. Min({a, b}) = CHOOSE x \in {a, b} : \A y \in {a, b} : x <= y
    BY DEF Min
  <1>3. Min({a, b}) \in {a, b} /\ \A x \in {a, b} : Min({a, b}) <= x
    <2> HIDE DEF m
    <2> QED
      BY <1>1, <1>2
  <1> DEFINE k == Min({a, b})
  <1>4. (k = a \/ k = b) /\ k <= a /\ k <= b
    BY <1>3
  <1> HIDE DEF k
  <1> QED
    BY <1>4 DEF k

HeaderKnown ==
    pc \in AfterHeader =>
        /\ header.firstDirectorySectorLocation = DirPos
        /\ header.firstMiniFatSectorLocation = MiniFatPos
        /\ header.numMiniFatSectors = 1
        /\ header.majorVersion = 3
        /\ header.difat = RunFrom(FatPos, fatSectorNum)

\* The list of the FAT's sectors is complete, whether the header had room or not.
LEMMA DifatIsRun ==
    ASSUME Base, Placed, Counted, pc \in AfterCount, NEW h,
           h = ReadHeaderRecord(image.header)
    PROVE  /\ AddDifat(image.header) \o ExtraDifat(h) = RunFrom(FatPos, fatSectorNum)
           /\ DOMAIN h = HeaderFields
           /\ h.firstDirectorySectorLocation = DirPos
           /\ h.firstMiniFatSectorLocation = MiniFatPos
           /\ h.numMiniFatSectors = 1
           /\ h.majorVersion = 3
  <1> DEFINE f == fatSectorNum
             m == Min({f, HeaderSlots})
  <1>1. f \in Nat /\ HeaderSlots \in Nat /\ FatPos \in Nat /\ difatSectorNum \in Nat
        /\ (difatSectorNum = 0 <=> f <= HeaderSlots)
    BY Entries, FatPlaces, DifatForFacts DEF Counted
  <1>2. m \in 0 .. HeaderSlots /\ (f <= HeaderSlots => m = f) /\ (HeaderSlots <= f => m = HeaderSlots)
    BY <1>1, MinOfTwo
  <1>3. image.header = WriteHeader(Header)
    BY DEF Counted
  <1>4. Header.difat = [x \in 1 .. m |-> FatPos + x - 1]
    BY HeaderIs
  <1> HIDE DEF f, m
  <1>5. Header.difat = [x \in 1 .. m |-> Header.difat[x]] /\ \A x \in 1 .. m : Header.difat[x] = FatPos + x - 1
    BY <1>4
  <1>6. \A x \in 1 .. m : Header.difat[x] \in Nat
    BY <1>1, <1>2, <1>5
  <1>7. AddDifat(image.header) = Header.difat
    BY <1>2, <1>3, <1>5, <1>6, AddDifatBack
  <1>8. AddDifat(image.header) = RunFrom(FatPos, m)
    BY <1>4, <1>7 DEF RunFrom
  <1>9. DOMAIN h = HeaderFields /\ \A g \in HeaderFields : h[g] = Header[g]
    BY <1>3, HeaderFieldsBack
  <1>10. /\ h.firstDirectorySectorLocation = DirPos
         /\ h.firstMiniFatSectorLocation = MiniFatPos
         /\ h.numMiniFatSectors = 1
         /\ h.majorVersion = 3
         /\ h.firstDifatSectorLocation = IF difatSectorNum > 0 THEN 0 ELSE ENDOFCHAIN
    BY <1>9, HeaderIs DEF HeaderFields
  <1>11. RunFrom(FatPos, m) \o ExtraDifat(h) = RunFrom(FatPos, f)
    <2>1. CASE f <= HeaderSlots
      <3>1. h.firstDifatSectorLocation = ENDOFCHAIN
        BY <1>1, <1>10, <2>1
      <3>2. ExtraDifat(h) = << >>
        BY <3>1 DEF ExtraDifat
      <3>3. m = f /\ RunFrom(FatPos, f) \in Seq(Nat)
        BY <1>1, <1>2, <2>1, RunFacts
      <3> QED
        BY <3>2, <3>3
    <2>2. CASE ~(f <= HeaderSlots)
      <3>1. h.firstDifatSectorLocation = 0 /\ difatSectorNum > 0
        BY <1>1, <1>10, <2>2
      <3> DEFINE l == f - HeaderSlots
                 p == FatPos + HeaderSlots
      <3>2. ExtraDifat(h) = [x \in 1 .. l |-> p + x - 1]
        BY <3>1 DEF ExtraDifat, ENDOFCHAIN, f
      <3>3. l \in Nat /\ p \in Nat /\ m = HeaderSlots
        BY <1>1, <1>2, <2>2
      <3>4. ExtraDifat(h) = RunFrom(p, l)
        BY <3>2 DEF RunFrom
      <3>5. f = m + l /\ p = FatPos + m /\ m \in Nat
        BY <1>1, <3>3
      <3> HIDE DEF l, p
      <3>6. RunFrom(FatPos, m) \o RunFrom(FatPos + m, l) = RunFrom(FatPos, m + l)
        <4>1. FatPos \in Nat /\ m \in Nat /\ l \in Nat
          BY <1>1, <3>3, <3>5
        <4> QED
          BY <4>1, RunsJoin, Zenon
      <3>7. RunFrom(FatPos, m) \o RunFrom(p, l) = RunFrom(FatPos, f)
        BY <3>5, <3>6
      <3> QED
        BY <3>4, <3>7 DEF l, p
    <2> QED
      BY <2>1, <2>2
  <1> QED
    BY <1>8, <1>9, <1>10, <1>11 DEF f

LEMMA HeaderKnownStep ==
    ASSUME Base, Placed, Counted, HeaderKnown, [Next]_vars
    PROVE  HeaderKnown'
  <1> SUFFICES ASSUME pc' \in AfterHeader PROVE HeaderKnown'
    BY DEF HeaderKnown
  <1>1. CASE ReadHeader
    <2>1. pc \in AfterCount /\ pc' # "reader refused" /\ UNCHANGED writer
      BY <1>1, ReaderSteps DEF AfterCount, AfterTables, AfterDirectory, AfterContents, AfterHeader,
              AfterFat, AfterMiniFat, AfterEntries
    <2> DEFINE h == ReadHeaderRecord(image.header)
               A == AddDifat(image.header) \o ExtraDifat(h)
    <2>2. header' = [g \in DOMAIN h \cup {"difat"} |-> IF g = "difat" THEN A ELSE h[g]]
      BY <1>1, <2>1, Zenon DEF ReadHeader, Refuse
    <2> HIDE DEF h, A
    <2>3. /\ A = RunFrom(FatPos, fatSectorNum)
          /\ DOMAIN h = HeaderFields
          /\ h.firstDirectorySectorLocation = DirPos
          /\ h.firstMiniFatSectorLocation = MiniFatPos
          /\ h.numMiniFatSectors = 1
          /\ h.majorVersion = 3
      BY <2>1, DifatIsRun DEF h, A
    <2>4. /\ header'.firstDirectorySectorLocation = DirPos
          /\ header'.firstMiniFatSectorLocation = MiniFatPos
          /\ header'.numMiniFatSectors = 1
          /\ header'.majorVersion = 3
          /\ header'.difat = RunFrom(FatPos, fatSectorNum)
      <3>1. header'.difat = A
        BY <2>2
      <3>2. header'.firstDirectorySectorLocation = h.firstDirectorySectorLocation
        BY <2>2, <2>3 DEF HeaderFields
      <3>3. header'.firstMiniFatSectorLocation = h.firstMiniFatSectorLocation
        BY <2>2, <2>3 DEF HeaderFields
      <3>4. header'.numMiniFatSectors = h.numMiniFatSectors
        BY <2>2, <2>3 DEF HeaderFields
      <3>5. header'.majorVersion = h.majorVersion
        BY <2>2, <2>3 DEF HeaderFields
      <3> QED
        BY <2>3, <3>1, <3>2, <3>3, <3>4, <3>5
    <2>5. DirPos' = DirPos /\ MiniFatPos' = MiniFatPos /\ FatPos' = FatPos /\ fatSectorNum' = fatSectorNum
      BY <2>1, LayoutStays DEF writer
    <2> QED
      BY <2>4, <2>5 DEF HeaderKnown
  <1>2. CASE ~ReadHeader
    <2>1. pc \in AfterHeader /\ UNCHANGED <<writer, image, header>>
      BY <1>2, Flow
    <2>2. DirPos' = DirPos /\ MiniFatPos' = MiniFatPos /\ FatPos' = FatPos /\ fatSectorNum' = fatSectorNum
      BY <2>1, LayoutStays DEF writer
    <2> QED
      BY <2>1, <2>2 DEF HeaderKnown
  <1> QED
    BY <1>1, <1>2
-----------------------------------------------------------------------------
(* What the reader has of the tables *)

FatKnown == pc \in AfterFat => fats = image.fat
MiniFatKnown == pc \in AfterMiniFat => miniFats = image.miniFat

\* A number below a whole number of blocks is in one of them.
LEMMA BlockOf ==
    ASSUME NEW w \in Nat, NEW m \in Nat, NEW b \in Nat, b > 0, w < m * b
    PROVE  /\ w \div b \in Nat /\ w \div b < m
           /\ w % b \in Nat /\ w % b < b
           /\ ((w \div b) * b) + (w % b) = w
  <1> DEFINE q == w \div b
             r == w % b
  <1>1. q \in Nat /\ r \in Nat /\ r < b /\ w = (q * b) + r
    BY DivMod
  <1> HIDE DEF q, r
  <1>2. q < m
    <2> SUFFICES ASSUME m <= q PROVE FALSE
      BY <1>1
    <2>1. m * b <= q * b /\ m * b \in Nat /\ q * b \in Nat
      BY <1>1, Monotone
    <2> QED
      BY <1>1, <2>1
  <1>3. (q * b) + r = w
    BY <1>1
  <1> QED
    BY <1>1, <1>2, <1>3 DEF q, r

LEMMA FatBack ==
    ASSUME Base, Placed, Counted, Tabled, pc \in AfterTables
    PROVE  MakeFatIdx(RunFrom(FatPos, fatSectorNum)) = image.fat
  <1> DEFINE f == fatSectorNum
             n == f * EntriesPerSector
             r == RunFrom(FatPos, f)
             t == image.fat
             Word(w) == TableWord(r[(w \div EntriesPerSector) + 1], w % EntriesPerSector)
  <1>1. pc \in AfterCount
    BY DEF AfterCount
  <1>2. f \in Nat /\ FatPos \in Nat /\ MiniFatPos = FatPos + f
    BY <1>1, FatPlaces DEF Counted
  <1>3. IsTable(t, TableMarkers, MiniFatPos, FatLengths, 4, n)
    BY DEF Tabled
  <1>4. t = [w \in 0 .. n - 1 |-> t[w]]
    <2> HIDE DEF t, n
    <2> QED
      BY <1>3 DEF IsTable
  <1>5. Len(r) = f /\ \A k \in 1 .. f : r[k] = FatPos + k - 1
    BY <1>2, RunFacts
  <1>6. MakeFatIdx(r) = [w \in 0 .. Len(r) * EntriesPerSector - 1 |-> Word(w)]
    BY DEF MakeFatIdx
  <1>7. ASSUME NEW w \in 0 .. n - 1 PROVE Word(w) = t[w]
    <2> DEFINE q == w \div EntriesPerSector
               x == w % EntriesPerSector
               s == r[q + 1]
    <2>1. n \in Nat /\ w \in Nat /\ w < n
      BY <1>2, Entries
    <2>2. /\ q \in Nat /\ q < f /\ x \in Nat /\ x < EntriesPerSector
          /\ q * EntriesPerSector + x = w
      BY <1>2, <2>1, Entries, BlockOf
    <2> HIDE DEF q, x
    <2>3. s = FatPos + q
      <3>1. q + 1 \in 1 .. f
        BY <1>2, <2>2
      <3> QED
        BY <1>2, <1>5, <2>2, <3>1
    <2>4. s \in FatPos .. MiniFatPos - 1 /\ s # MiniFatPos /\ s \in FatPos .. MiniFatPos
      BY <1>2, <2>2, <2>3
    <2>5. s - FatPos = q
      BY <1>2, <2>2, <2>3
    <2> HIDE DEF s
    <2>6. TableWord(s, x) = t[((s - FatPos) * EntriesPerSector) + x]
      BY <2>4, Zenon DEF TableWord
    <2> QED
      BY <2>2, <2>5, <2>6 DEF q, x, s
  <1> HIDE DEF f, n, r, t, Word
  <1>8. MakeFatIdx(r) = [w \in 0 .. n - 1 |-> Word(w)]
    BY <1>5, <1>6 DEF n
  <1>9. MakeFatIdx(r) = t
    BY <1>4, <1>7, <1>8
  <1> QED
    BY <1>9 DEF r, f, t

LEMMA MiniFatBack ==
    ASSUME Base, Placed, Counted, Tabled, pc \in AfterTables
    PROVE  MakeFatIdx(RunFrom(MiniFatPos, 1)) = image.miniFat
  <1> DEFINE r == RunFrom(MiniFatPos, 1)
             t == image.miniFat
             E == EntriesPerSector
             Word(w) == TableWord(r[(w \div E) + 1], w % E)
  <1>1. pc \in AfterCount
    BY DEF AfterCount
  <1>2. FatPos \in Nat /\ MiniFatPos \in Nat /\ FatPos <= MiniFatPos
    BY <1>1, FatPlaces DEF Counted
  <1>3. IsTable(t, <<>>, 0, MiniLengths(size), 5, E)
    BY DEF Tabled
  <1>4. t = [w \in 0 .. E - 1 |-> t[w]]
    <2> HIDE DEF t, E
    <2> QED
      BY <1>3 DEF IsTable
  <1>5. Len(r) = 1 /\ r[1] = MiniFatPos
    <2>1. 1 \in Nat /\ 1 \in 1 .. 1
      OBVIOUS
    <2>2. Len(r) = 1 /\ r[1] = MiniFatPos + 1 - 1
      BY <1>2, <2>1, RunFacts
    <2> QED
      BY <1>2, <2>2
  <1>6. MakeFatIdx(r) = [w \in 0 .. Len(r) * E - 1 |-> Word(w)]
    BY DEF MakeFatIdx
  <1>7. ASSUME NEW w \in 0 .. E - 1 PROVE Word(w) = t[w]
    <2> DEFINE q == w \div E
               x == w % E
               s == r[q + 1]
    <2>1. w \in Nat /\ w < 1 * E /\ E \in Nat /\ E > 0
      BY Entries
    <2> HIDE DEF E
    <2>2. /\ q \in Nat /\ q < 1 /\ x \in Nat /\ x < E
          /\ q * E + x = w
      BY <2>1, BlockOf
    <2> HIDE DEF q, x
    <2>3. q = 0
      BY <2>2
    <2>4. s = MiniFatPos /\ x = w
      BY <1>5, <2>1, <2>2, <2>3
    <2>5. s \notin FatPos .. MiniFatPos - 1 /\ s \in FatPos .. MiniFatPos
      BY <1>2, <2>4
    <2> HIDE DEF s
    <2>6. TableWord(s, x) = t[x]
      BY <2>4, <2>5, Zenon DEF TableWord
    <2> QED
      BY <2>4, <2>6 DEF q, x, s
  <1> HIDE DEF r, t, Word
  <1>8. MakeFatIdx(r) = [w \in 0 .. E - 1 |-> Word(w)]
    BY <1>5, <1>6, Entries
  <1>9. MakeFatIdx(r) = t
    BY <1>4, <1>7, <1>8
  <1> QED
    BY <1>9 DEF r, t

LEMMA FatKnownStep ==
    ASSUME Base, Placed, Counted, Tabled, HeaderKnown, FatKnown, [Next]_vars
    PROVE  FatKnown'
  <1> SUFFICES ASSUME pc' \in AfterFat PROVE fats' = image'.fat
    BY DEF FatKnown
  <1>1. CASE ReadFat
    <2>1. pc = "tables to read" /\ pc' # "reader refused" /\ image' = image
      BY <1>1, ReaderSteps DEF AfterFat, AfterMiniFat, AfterEntries
    <2>2. pc \in AfterHeader /\ pc \in AfterTables
      BY <2>1 DEF AfterTables, AfterDirectory, AfterContents, AfterHeader
    <2>3. fats' = MakeFatIdx(header.difat)
      BY <1>1, <2>1, Zenon DEF ReadFat, Refuse
    <2>4. header.difat = RunFrom(FatPos, fatSectorNum)
      BY <2>2 DEF HeaderKnown
    <2> QED
      BY <2>1, <2>2, <2>3, <2>4, FatBack
  <1>2. CASE ~ReadFat
    BY <1>2, Flow DEF FatKnown
  <1> QED
    BY <1>1, <1>2

LEMMA MiniFatKnownStep ==
    ASSUME Base, Placed, Counted, Tabled, HeaderKnown, FatKnown, MiniFatKnown, [Next]_vars
    PROVE  MiniFatKnown'
  <1> SUFFICES ASSUME pc' \in AfterMiniFat PROVE miniFats' = image'.miniFat
    BY DEF MiniFatKnown
  <1>1. CASE ReadMiniFat
    <2>1. pc = "mini fat" /\ pc' # "reader refused" /\ image' = image
      BY <1>1, ReaderSteps DEF AfterMiniFat, AfterEntries
    <2>2. pc \in AfterHeader /\ pc \in AfterTables /\ pc \in AfterFat
      BY <2>1 DEF AfterTables, AfterDirectory, AfterContents, AfterHeader, AfterFat
    <2>3. header.firstMiniFatSectorLocation = MiniFatPos /\ header.numMiniFatSectors = 1
      BY <2>2 DEF HeaderKnown
    <2>4. header.numMiniFatSectors # 0
      BY <2>3
    <2>5. miniFats' = MakeFatIdx(Chain(fats, header.firstMiniFatSectorLocation))
      BY <1>1, <2>1, <2>4, Zenon DEF ReadMiniFat, Refuse
    <2>6. Chain(fats, header.firstMiniFatSectorLocation) = RunFrom(MiniFatPos, 1)
      BY <2>2, <2>3, FatChains4 DEF FatKnown
    <2> QED
      BY <2>1, <2>2, <2>5, <2>6, MiniFatBack
  <1>2. CASE ~ReadMiniFat
    BY <1>2, Flow DEF MiniFatKnown
  <1> QED
    BY <1>1, <1>2
-----------------------------------------------------------------------------
(* What the reader has of the directory *)

SlotOf(d, x) == IF x <= 11 THEN WriteEntry(d[x]) ELSE NoEntry

\* The sectors of the directory.
Directory(d, first, sectors) ==
    [s \in first .. first + sectors - 1 |->
        [j \in 1 .. DirsPerSector |-> SlotOf(d, ((s - first) * DirsPerSector) + j)]]

Listed == pc \in AfterDirectory => image.directory = Directory(dirs, DirPos, DirSectors)

LEMMA ListedStep ==
    ASSUME Base, Placed, Counted, Listed, [Next]_vars
    PROVE  Listed'
  <1> SUFFICES ASSUME pc' \in AfterDirectory
               PROVE  image'.directory = Directory(dirs', DirPos', DirSectors')
    BY DEF Listed
  <1>1. CASE WriteDirectory
    <2>1. UNCHANGED writer
      BY <1>1, WriterSteps
    <2>2. dirs' = dirs /\ DirPos' = DirPos /\ DirSectors' = DirSectors
      BY <2>1, LayoutStays DEF writer, DirSectors
    <2> DEFINE Slot(s, j) == ((s - DirPos) * DirsPerSector) + j
               u == [s \in DirPos .. DirPos + DirSectors - 1 |->
                        [j \in 1 .. DirsPerSector |->
                            IF Slot(s, j) <= DirNum THEN WriteEntry(dirs[Slot(s, j)]) ELSE NoEntry]]
    <2>3. image' = [image EXCEPT !.directory = u]
      BY <1>1, Zenon DEF WriteDirectory
    <2>4. u = Directory(dirs, DirPos, DirSectors)
      BY DirNumIs DEF Directory, SlotOf
    <2> HIDE DEF u
    <2>5. PICK v : image' = [image EXCEPT !.directory = v] /\ v = u
      BY <2>3
    <2>6. image'.directory = v
      <3>1. IsImage(image)
        BY DEF Base
      <3> DEFINE h == image.header
                 f == image.fat
                 m == image.miniFat
                 d == image.directory
                 a == image.data
      <3>2. image = [header |-> h, fat |-> f, miniFat |-> m, directory |-> d, data |-> a]
        BY <3>1 DEF IsImage
      <3> HIDE DEF h, f, m, d, a
      <3>3. image' = [header |-> h, fat |-> f, miniFat |-> m, directory |-> v, data |-> a]
        BY <2>5, <3>2
      <3> QED
        BY <3>3, ImageOf
    <2> QED
      BY <2>2, <2>4, <2>5, <2>6
  <1>2. CASE ~WriteDirectory
    <2>1. pc \in AfterDirectory /\ UNCHANGED writer
      BY <1>2, Flow
    <2>2. image'.directory = image.directory
      BY <1>2, ImageFlow DEF Base
    <2>3. dirs' = dirs /\ DirPos' = DirPos /\ DirSectors' = DirSectors
      BY <2>1, LayoutStays DEF writer, DirSectors
    <2> QED
      BY <2>1, <2>2, <2>3 DEF Listed
  <1> QED
    BY <1>1, <1>2

\* The slots of the sectors in the directory's chain are the entries in order.
LEMMA SlotsBack ==
    ASSUME Base, Placed, Counted, Listed, pc \in AfterDirectory,
           NEW x \in 1 .. DirSectors * DirsPerSector
    PROVE  SlotAt(RunFrom(DirPos, DirSectors)[((x - 1) \div DirsPerSector) + 1],
                  ((x - 1) % DirsPerSector) + 1) = SlotOf(dirs, x)
  <1> DEFINE q == (x - 1) \div DirsPerSector
             r == (x - 1) % DirsPerSector
             s == RunFrom(DirPos, DirSectors)[q + 1]
  <1>1. pc \in AfterCount
    BY DEF AfterCount, AfterTables
  <1>2. DirPos \in Nat /\ DirSectors \in Nat /\ DirsPerSector \in Nat /\ DirsPerSector > 0
    BY <1>1, FatPlaces, Geometry
  <1>3. x \in Nat /\ x - 1 \in Nat /\ x - 1 < DirSectors * DirsPerSector
    <2>1. DirSectors * DirsPerSector \in Nat
      BY <1>2, Times
    <2> QED
      BY <2>1
  <1>4. /\ q \in Nat /\ q < DirSectors /\ r \in Nat /\ r < DirsPerSector
        /\ (q * DirsPerSector) + r = x - 1
    BY <1>2, <1>3, BlockOf
  <1> HIDE DEF q, r
  <1>5. s = DirPos + q
    <2>1. q + 1 \in 1 .. DirSectors
      BY <1>2, <1>4
    <2>2. s = DirPos + (q + 1) - 1
      BY <1>2, <2>1, RunFacts
    <2> QED
      BY <1>2, <1>4, <2>2
  <1> HIDE DEF s
  <1>6. s \in DirPos .. DirPos + DirSectors - 1 /\ s - DirPos = q /\ r + 1 \in 1 .. DirsPerSector
    BY <1>2, <1>4, <1>5
  <1>7. image.directory = Directory(dirs, DirPos, DirSectors)
    BY DEF Listed
  <1>8. s \in DOMAIN image.directory
    BY <1>6, <1>7 DEF Directory
  <1>9. SlotAt(s, r + 1) = image.directory[s][r + 1]
    BY <1>8 DEF SlotAt
  <1>10. image.directory[s][r + 1] = SlotOf(dirs, ((s - DirPos) * DirsPerSector) + (r + 1))
    BY <1>6, <1>7 DEF Directory
  <1>11. q * DirsPerSector \in Nat
    BY <1>2, <1>4, Times
  <1>12. ((s - DirPos) * DirsPerSector) + (r + 1) = x
    BY <1>3, <1>4, <1>6, <1>11
  <1> QED
    BY <1>9, <1>10, <1>12 DEF q, r, s

\* A document that is read has short names.
LEMMA NamesShort ==
    ASSUME Base, pc \in AfterPlace
    PROVE  \A x \in 1 .. 11 : IsShortName(WideNames[x])
  <1>1. pc # "writer refused"
    BY DEF AfterPlace, AfterCount, AfterTables, AfterDirectory, AfterContents, AfterHeader,
              AfterFat, AfterMiniFat, AfterEntries
  <1> QED
    BY <1>1, Zenon DEF Base

\* The slots with a name are the entries'.
LEMMA NamedSlots ==
    ASSUME Base, \A x \in 1 .. 11 : IsShortName(WideNames[x]), NEW x \in Nat, x > 0
    PROVE  ReadName(SlotOf(dirs, x)) # <<>> <=> x <= 11
  <1>1. CASE x <= 11
    <2>1. x \in 1 .. 11
      BY <1>1
    <2>2. dirs[x].name = WideNames[x] /\ IsShortName(WideNames[x])
      <3>1. IsEntries(size, dirs)
        BY Zenon DEF Base
      <3> QED
        BY <2>1, <3>1 DEF IsEntries
    <2>3. ReadName(WriteEntry(dirs[x])) = dirs[x].name
      BY <2>2, NameBack
    <2> QED
      BY <1>1, <2>2, <2>3 DEF SlotOf, IsShortName
  <1>2. CASE ~(x <= 11)
    BY <1>2, NoName DEF SlotOf
  <1> QED
    BY <1>1, <1>2

\* The directory read is the one written, and nothing has been loaded yet.
LEMMA DirectoryBack ==
    ASSUME Base, Placed, Counted, Tabled, Listed, HeaderKnown, FatKnown,
           ReadEntries, pc' \in AfterEntries
    PROVE  entries' = dirs /\ loaded' = [x \in 1 .. 11 |-> <<>>]
  <1>1. pc = "entries"
    BY ReaderSteps
  <1>2. /\ pc \in AfterHeader /\ pc \in AfterFat /\ pc \in AfterTables /\ pc \in AfterCount
        /\ pc \in AfterDirectory /\ pc \in AfterPlace
    BY <1>1 DEF AfterPlace, AfterCount, AfterTables, AfterDirectory, AfterContents, AfterHeader,
              AfterFat, AfterMiniFat, AfterEntries
  <1> DEFINE first == header.firstDirectorySectorLocation
             chain == IF HasChain(fats, first) THEN Chain(fats, first) ELSE <<>>
             slots == [x \in 1 .. Len(chain) * DirsPerSector |->
                         SlotAt(chain[((x - 1) \div DirsPerSector) + 1], ((x - 1) % DirsPerSector) + 1)]
             named == Keep(slots, {x \in DOMAIN slots : ReadName(slots[x]) # <<>>})
  <1>3. entries' = [x \in DOMAIN named |-> ReadEntry(named[x])] /\ loaded' = [x \in DOMAIN named |-> <<>>]
    <2>1. pc' # "reader refused"
      BY DEF AfterEntries
    <2> QED
      BY <1>1, <2>1, Zenon DEF ReadEntries, Refuse
  <1>4. chain = RunFrom(DirPos, DirSectors)
    <2>1. fats = image.fat /\ first = DirPos
      BY <1>2 DEF FatKnown, HeaderKnown
    <2>2. HasChain(image.fat, DirPos) /\ Chain(image.fat, DirPos) = RunFrom(DirPos, DirSectors)
      BY <1>2, FatChains4
    <2> HIDE DEF first
    <2> QED
      BY <2>1, <2>2
  <1> DEFINE N == DirSectors * DirsPerSector
  <1> HIDE DEF chain
  <1>5. Len(chain) = DirSectors
    <2>1. DirPos \in Nat /\ DirSectors \in Nat
      BY <1>2, FatPlaces
    <2> QED
      BY <1>4, <2>1, RunFacts
  <1> DEFINE body(x) == SlotAt(chain[((x - 1) \div DirsPerSector) + 1], ((x - 1) % DirsPerSector) + 1)
  <1>6. slots = [x \in 1 .. N |-> body(x)]
    BY <1>5
  <1>7. \A x \in 1 .. N : body(x) = SlotOf(dirs, x)
    BY <1>2, <1>4, SlotsBack
  <1> HIDE DEF body, slots
  <1>8. slots = [x \in 1 .. N |-> SlotOf(dirs, x)]
    BY <1>6, <1>7
  <1>9. N \in Nat /\ 11 <= N
    <2>1. miniFatNum \in Nat /\ miniFatNum > 0 /\ size \in Documents /\ IsEntries(size, dirs)
      <3>1. size \in Documents /\ pc \in AfterPlace
        BY <1>2 DEF Base, AfterPlace
      <3>2. miniFatNum = Place(size, 6)
        BY <3>1 DEF Placed
      <3>3. Place(size, 6) \in Nat /\ Place(size, 6) > 0
        BY <3>1, PlaceFacts
      <3> QED
        BY <3>1, <3>2, <3>3 DEF Base
    <2> QED
      BY <2>1, LayoutFacts, Geometry, Times
  <1> HIDE DEF N
  <1>10. Len(slots) = N /\ DOMAIN slots = 1 .. N
    BY <1>8, <1>9
  <1> DEFINE places == {x \in DOMAIN slots : ReadName(slots[x]) # <<>>}
  <1>11. ASSUME NEW x \in 1 .. N PROVE x \in places <=> x <= 11
    <2>1. slots[x] = SlotOf(dirs, x) /\ x \in DOMAIN slots
      BY <1>8, <1>10
    <2>2. x \in Nat /\ x > 0
      BY <1>9
    <2>3. ReadName(SlotOf(dirs, x)) # <<>> <=> x <= 11
      BY <1>2, <2>2, NamesShort, NamedSlots
    <2> QED
      BY <2>1, <2>3
  <1>12. named = Keep(slots, places)
    OBVIOUS
  <1> HIDE DEF named, places
  <1>13. named = Prefix(slots, 11)
    <2>1. 11 \in 0 .. N
      BY <1>9
    <2> QED
      BY <1>9, <1>10, <1>11, <1>12, <2>1, KeepFirst
  <1>14. DOMAIN named = 1 .. 11 /\ \A x \in 1 .. 11 : named[x] = WriteEntry(dirs[x])
    <2>1. DOMAIN named = 1 .. 11 /\ \A x \in 1 .. 11 : named[x] = slots[x]
      BY <1>13 DEF Prefix
    <2>2. \A x \in 1 .. 11 : x \in 1 .. N /\ x <= 11
      BY <1>9
    <2>3. \A x \in 1 .. 11 : slots[x] = SlotOf(dirs, x)
      BY <1>8, <2>2
    <2> QED
      BY <2>1, <2>2, <2>3 DEF SlotOf
  <1>15. ASSUME NEW x \in 1 .. 11 PROVE ReadEntry(WriteEntry(dirs[x])) = dirs[x]
    <2>1. dirs[x] \in DirRecord /\ dirs[x].name = WideNames[x] /\ IsShortName(WideNames[x])
      <3>1. IsEntries(size, dirs)
        BY Zenon DEF Base
      <3> QED
        BY <1>2, <3>1, NamesShort DEF IsEntries
    <2> QED
      BY <2>1, EntryBack
  <1>16. dirs = [x \in 1 .. 11 |-> dirs[x]]
    BY DEF Base, IsEntries
  <1>17. entries' = [x \in 1 .. 11 |-> dirs[x]]
    BY <1>3, <1>14, <1>15
  <1> QED
    BY <1>3, <1>14, <1>16, <1>17

EntriesKnown ==
    pc \in AfterEntries => entries = dirs /\ DOMAIN loaded = 1 .. 11

\* The contents read so far keep their places.
LEMMA LoadedFlow ==
    ASSUME [Next]_vars, ~ReadEntries
    PROVE  DOMAIN loaded' = DOMAIN loaded
  <1>1. CASE LoadContent
    <2>1. loaded' = loaded \/ \E v : loaded' = [loaded EXCEPT ![next] = v]
      BY <1>1, Zenon DEF LoadContent
    <2> QED
      BY <2>1
  <1>2. UNCHANGED loaded \/ LoadContent
    BY WriterSteps, ReaderSteps DEF Next, vars, reader
  <1> QED
    BY <1>1, <1>2

LEMMA EntriesKnownStep ==
    ASSUME Base, Placed, Counted, Tabled, Listed, HeaderKnown, FatKnown, EntriesKnown, [Next]_vars
    PROVE  EntriesKnown'
  <1> SUFFICES ASSUME pc' \in AfterEntries PROVE entries' = dirs' /\ DOMAIN loaded' = 1 .. 11
    BY DEF EntriesKnown
  <1>1. CASE ReadEntries
    <2>1. dirs' = dirs
      BY <1>1, ReaderSteps DEF writer
    <2>2. entries' = dirs /\ loaded' = [x \in 1 .. 11 |-> <<>>]
      BY <1>1, DirectoryBack
    <2> QED
      BY <2>1, <2>2
  <1>2. CASE ~ReadEntries
    <2>1. pc \in AfterEntries /\ UNCHANGED <<writer, entries>>
      BY <1>2, Flow
    <2>2. entries = dirs /\ DOMAIN loaded = 1 .. 11 /\ dirs' = dirs
      BY <2>1 DEF EntriesKnown, writer
    <2>3. DOMAIN loaded' = DOMAIN loaded
      BY <1>2, LoadedFlow
    <2> QED
      BY <2>1, <2>2, <2>3
  <1> QED
    BY <1>1, <1>2
-----------------------------------------------------------------------------
(* The contents that are read *)

\* A round of the reader's loop that goes on.
NextRound ==
    \/ pc' = "streams" /\ next' = next + 1 /\ next < 11
    \/ pc' = "done" /\ next' = next /\ next = 11

\* The loop over the entries, and what kind each of them is.
LEMMA ReadRound ==
    ASSUME Base, EntriesKnown, LoopIndex, LoadMiniData \/ SkipStorage \/ LoadContent
    PROVE  /\ pc = "streams" /\ pc \in AfterEntries /\ next \in 1 .. 11 /\ next' \in 1 .. 11
           /\ entries = dirs /\ DOMAIN loaded = 1 .. 11
           /\ pc' \in AfterEntries => NextRound
           /\ LoadMiniData <=> next = 1
           /\ LoadContent <=> next \in HasStream
  <1>1. pc = "streams"
    BY ReaderSteps
  <1>2. pc \in AfterEntries
    BY <1>1 DEF AfterEntries
  <1>3. entries = dirs /\ DOMAIN loaded = 1 .. 11 /\ next \in 1 .. 11
    BY <1>2, Zenon DEF EntriesKnown, LoopIndex
  <1>4. IsEntries(size, dirs)
    BY Zenon DEF Base
  <1>5. Len(entries) = 11
    <2>1. dirs = [x \in 1 .. 11 |-> dirs[x]] /\ DOMAIN dirs = 1 .. 11
      BY <1>4 DEF IsEntries
    <2> DEFINE d == dirs
    <2>2. d = [x \in 1 .. 11 |-> d[x]]
      BY <2>1
    <2> HIDE DEF d
    <2>3. Len(d) = 11
      BY <2>2
    <2> QED
      BY <1>3, <2>3 DEF d
  <1>6. \/ NextEntry
        \/ pc' = "reader refused" /\ next' = next
    BY Zenon DEF LoadMiniData, SkipStorage, LoadContent, Refuse
  <1>7. pc' = "reader refused" => pc' \notin AfterEntries
    BY DEF AfterEntries
  <1> DEFINE refused == pc' = "reader refused"
  <1>8. NextEntry \/ (refused /\ next' = next)
    BY <1>6
  <1>9. refused => pc' \notin AfterEntries
    BY <1>7
  <1> HIDE DEF refused
  <1>10. NextEntry => NextRound
    BY <1>1, <1>3, <1>5 DEF NextEntry, NextRound
  <1>11. (pc' \in AfterEntries => NextRound) /\ next' \in 1 .. 11
    BY <1>3, <1>8, <1>9, <1>10 DEF NextRound
  <1>12. entries[next].type = IF next = 1 THEN RootStorageObject
                              ELSE IF next \in HasStream THEN StreamObject ELSE StorageObject
    BY <1>3, <1>4, InfoTblFacts DEF IsEntries
  <1> DEFINE kind == entries[next].type
  <1>13. /\ LoadMiniData => kind = RootStorageObject
         /\ SkipStorage => kind \in {StorageObject, Unallocated}
         /\ LoadContent => kind = StreamObject
    BY Zenon DEF LoadMiniData, SkipStorage, LoadContent
  <1>14. 1 \notin HasStream
    BY DEF HasStream
  <1> HIDE DEF kind
  <1>15. kind = IF next = 1 THEN RootStorageObject
                ELSE IF next \in HasStream THEN StreamObject ELSE StorageObject
    BY <1>12 DEF kind
  <1>16. (LoadMiniData <=> next = 1) /\ (LoadContent <=> next \in HasStream)
    BY <1>13, <1>14, <1>15 DEF RootStorageObject, StreamObject, StorageObject, Unallocated
  <1> QED
    BY <1>1, <1>2, <1>3, <1>11, <1>16

LEMMA RoundsStep ==
    ASSUME Base, Placed, Counted, EntriesKnown, LoopIndex, [Next]_vars
    PROVE  LoopIndex'
  <1>1. CASE WriteContents
    <2>1. next \in 1 .. 11
      BY Zenon DEF LoopIndex
    <2>2. \/ pc' = "contents" /\ next' = next + 1 /\ next < 11
          \/ pc' = "header" /\ next' = 1
      BY <1>1, WriteRound
    <2>3. "contents" \notin Straight
      BY DEF Straight
    <2>4. next' \in 1 .. 11 /\ (pc' \in Straight => next' = 1)
      BY <2>1, <2>2, <2>3
    <2> QED
      BY <2>4 DEF LoopIndex
  <1>2. CASE LoadMiniData \/ SkipStorage \/ LoadContent
    <2>1. next' \in 1 .. 11
      BY <1>2, ReadRound
    <2>2. pc' \in {"reader refused", "streams", "done"}
      BY <1>2, ReaderSteps
    <2>3. pc' \notin Straight
      BY <2>2 DEF Straight
    <2> QED
      BY <2>1, <2>3 DEF LoopIndex
  <1>3. CASE ~WriteContents /\ ~LoadMiniData /\ ~SkipStorage /\ ~LoadContent
    <2>1. next' = next
      BY <1>3, WriterSteps, ReaderSteps, Zenon DEF Next, vars
    <2>2. pc' \in Straight => pc \in Straight
      <3>1. CASE UNCHANGED pc
        BY <3>1
      <3>2. \/ pc \in Straight \/ UNCHANGED pc
        BY <1>3, WriterSteps, ReaderSteps DEF Next, vars, Straight
      <3> QED
        BY <3>1, <3>2
    <2> QED
      BY <2>1, <2>2, Zenon DEF LoopIndex
  <1> QED
    BY <1>1, <1>2, <1>3

\* The blocks of a run one after the other.
LEMMA LoadRun ==
    ASSUME NEW p \in Nat, NEW l \in Nat, NEW block \in Nat, block > 0,
           NEW n \in Nat, n <= l * block, NEW source
    PROVE  Load(source, RunFrom(p, l), block, n) = [o \in 1 .. n |-> source[(p * block) + (o - 1)]]
  <1> DEFINE r == RunFrom(p, l)
  <1>1. \A k \in 1 .. l : r[k] = p + k - 1
    BY RunFacts
  <1> HIDE DEF r
  <1>2. ASSUME NEW o \in 1 .. n
        PROVE  (r[((o - 1) \div block) + 1] * block) + ((o - 1) % block) = (p * block) + (o - 1)
    <2> DEFINE q == (o - 1) \div block
               x == (o - 1) % block
    <2>1. o - 1 \in Nat /\ l * block \in Nat /\ o - 1 < l * block
      BY Times
    <2>2. q \in Nat /\ q < l /\ x \in Nat /\ x < block /\ (q * block) + x = o - 1
      BY <2>1, BlockOf
    <2> HIDE DEF q, x
    <2>3. r[q + 1] = p + q
      <3>1. q + 1 \in 1 .. l
        BY <2>2
      <3>2. r[q + 1] = p + (q + 1) - 1
        BY <1>1, <3>1
      <3> QED
        BY <2>2, <3>2
    <2>4. (p + q) * block = (p * block) + (q * block) /\ p * block \in Nat /\ q * block \in Nat
      BY <2>2
    <2>5. (r[q + 1] * block) + x = (p * block) + (o - 1)
      BY <2>1, <2>2, <2>3, <2>4
    <2> QED
      BY <2>5 DEF q, x
  <1>3. Load(source, r, block, n) =
          [o \in 1 .. n |-> source[(r[((o - 1) \div block) + 1] * block) + ((o - 1) % block)]]
    BY DEF Load
  <1> QED
    BY <1>2, <1>3 DEF r

\* The chain of the k-th small stream in the mini FAT.
LEMMA MiniChain ==
    ASSUME Base, Tabled, pc \in AfterTables, NEW k \in 1 .. 5
    PROVE  /\ HasChain(image.miniFat, Place(size, k))
           /\ Chain(image.miniFat, Place(size, k)) = RunFrom(Place(size, k), MiniLengths(size)[k])
           /\ Place(size, k) \in Nat /\ MiniLengths(size)[k] \in Nat
           /\ Place(size, k) + MiniLengths(size)[k] <= Place(size, 6) /\ Place(size, 6) \in Nat
           /\ MiniLength(k) <= MiniLengths(size)[k] * MiniSize
  <1> DEFINE t == image.miniFat
             L == MiniLengths(size)
             p == Place(size, k)
             l == L[k]
  <1>1. size \in Documents
    BY Zenon DEF Base
  <1>2. IsTable(t, <<>>, 0, L, 5, EntriesPerSector) /\ Place(size, 6) <= EntriesPerSector
    BY Zenon DEF Tabled
  <1>3. p = ChainBegin(0, L)[k]
    BY DEF Place
  <1>4. IsRun(t, p, l) /\ HasChain(t, p) /\ t = [w \in 0 .. EntriesPerSector - 1 |-> t[w]]
    <2> HIDE DEF t, L, p
    <2> QED
      BY <1>2, <1>3 DEF IsTable
  <1>5. l \in Nat /\ l > 0 /\ MiniLength(k) <= l * MiniSize
    BY <1>1, MiniLengthsFacts DEF IsLengths, MiniLength
  <1>6. p \in Nat /\ Place(size, 6) \in Nat /\ p + l <= Place(size, 6)
    <2>1. k \in 1 .. 6 /\ k + 1 \in 1 .. 6 /\ 6 \in 1 .. 6 /\ k + 1 <= 6
      OBVIOUS
    <2>2. Place(size, k + 1) = p + l /\ Place(size, k + 1) <= Place(size, 6)
      BY <1>1, <2>1, PlaceFacts
    <2>3. p \in Nat /\ Place(size, 6) \in Nat
      BY <1>1, <2>1, PlaceFacts
    <2> QED
      BY <2>2, <2>3
  <1> HIDE DEF t, p, l
  <1>7. EntriesPerSector \in Nat /\ p + l <= EntriesPerSector /\ DOMAIN t = 0 .. EntriesPerSector - 1
    <2>1. DOMAIN t = 0 .. EntriesPerSector - 1
      BY <1>4
    <2> QED
      BY <1>2, <1>5, <1>6, <2>1, Entries
  <1>8. Chain(t, p) = RunFrom(p, l)
    BY <1>4, <1>5, <1>6, <1>7, ChainOfRun
  <1> QED
    BY <1>4, <1>5, <1>6, <1>8 DEF t, p, l

\* The entries the loop of the reader is past.
IsLoaded(x) == (pc = "streams" /\ x < next) \/ pc = "done"

\* The reader's copy of the mini stream.
MiniKnown ==
    IsLoaded(1) => \A a \in 0 .. (MiniSize * miniFatNum) - 1 :
                      miniData[a] = image.data[(MiniDataPos * SectorSize) + a]

ContentsKnown ==
    /\ \A k \in 1 .. 5 : IsLoaded(MiniAt[k]) => loaded[MiniAt[k]] = ContentOf(size, MiniStreams[k])
    /\ size[Package] > Cutoff /\ IsLoaded(2) => loaded[2] = ContentOf(size, Package)

ReaderRound == LoadMiniData \/ SkipStorage \/ LoadContent

\* A step that leaves an entry loaded loads it or leaves it alone.
LeavesLoaded(x) ==
    /\ IsLoaded(x) /\ loaded'[x] = loaded[x]
    /\ x = 1 => miniData' = miniData

LEMMA LoadedBefore ==
    ASSUME Base, EntriesKnown, LoopIndex, [Next]_vars, NEW x \in 1 .. 11, IsLoaded(x)'
    PROVE  /\ pc \in AfterEntries /\ pc' \in AfterEntries /\ UNCHANGED <<writer, image>>
           /\ LeavesLoaded(x) \/ (x = next /\ pc = "streams" /\ ReaderRound)
  <1>1. pc' \in AfterEntries
    BY DEF IsLoaded, AfterEntries
  <1>2. ~ReadEntries
    <2> SUFFICES ASSUME ReadEntries PROVE FALSE
      OBVIOUS
    <2>1. pc = "entries" /\ pc' \in {"reader refused", "streams"} /\ next' = next
      BY ReaderSteps
    <2>2. pc \in Straight
      BY <2>1, Zenon DEF Straight
    <2>3. next = 1
      BY <2>2, Zenon DEF LoopIndex
    <2>4. pc' # "done"
      BY <2>1
    <2>5. next' = 1
      BY <2>1, <2>3, Zenon
    <2>6. x \in 1 .. 11 /\ ((pc' = "streams" /\ x < next') \/ pc' = "done")
      BY DEF IsLoaded
    <2> QED
      BY <2>4, <2>5, <2>6
  <1>3. pc \in AfterEntries /\ UNCHANGED <<writer, image>>
    BY <1>1, <1>2, Flow
  <1>4. DOMAIN loaded = 1 .. 11
    BY <1>3, Zenon DEF EntriesKnown
  <1>5. CASE ReaderRound
    <2>1. LoadMiniData \/ SkipStorage \/ LoadContent
      BY <1>5 DEF ReaderRound
    <2>2. /\ pc = "streams" /\ next \in 1 .. 11 /\ NextRound
          /\ LoadMiniData <=> next = 1
      BY <1>1, <2>1, ReadRound
    <2>3. x < next \/ x = next
      BY <2>2 DEF NextRound, IsLoaded
    <2>4. CASE x < next
      <3>1. ~LoadMiniData
        BY <2>2, <2>4
      <3>2. miniData' = miniData
        BY <2>1, <3>1, ReaderSteps DEF reader
      <3>3. loaded' = loaded \/ \E v : loaded' = [loaded EXCEPT ![next] = v]
        <4>1. CASE SkipStorage
          BY <4>1, ReaderSteps DEF reader
        <4>2. CASE LoadContent
          BY <4>2, Zenon DEF LoadContent
        <4> QED
          BY <2>1, <3>1, <4>1, <4>2
      <3>4. loaded'[x] = loaded[x]
        BY <1>4, <2>2, <2>4, <3>3
      <3>5. IsLoaded(x)
        BY <2>2, <2>4 DEF IsLoaded
      <3>6. LeavesLoaded(x)
        BY <3>2, <3>4, <3>5 DEF LeavesLoaded
      <3> QED
        BY <1>1, <1>3, <3>6
    <2>5. CASE x = next
      BY <1>1, <1>3, <1>5, <2>2, <2>5
    <2> QED
      BY <2>3, <2>4, <2>5
  <1>6. CASE ~ReaderRound
    <2>1. UNCHANGED vars
      <3>1. CASE Stop
        BY <3>1, ReaderSteps
      <3>2. CASE ~Stop
        <4>1. pc' \notin AfterEntries \/ UNCHANGED vars
          BY <1>2, <1>6, <3>2, WriterSteps, ReaderSteps DEF Next, ReaderRound, AfterEntries
        <4> QED
          BY <1>1, <4>1
      <3> QED
        BY <3>1, <3>2
    <2>2. IsLoaded(x) /\ loaded' = loaded /\ miniData' = miniData
      BY <2>1 DEF IsLoaded, vars, reader
    <2>3. LeavesLoaded(x)
      BY <2>2 DEF LeavesLoaded
    <2> QED
      BY <1>1, <1>3, <2>3
  <1> QED
    BY <1>5, <1>6

\* The phases before the loop.
LEMMA LoadPhases ==
    ASSUME pc \in AfterEntries
    PROVE  /\ pc \in AfterCount /\ pc \in AfterTables /\ pc \in AfterFat /\ pc \in AfterMiniFat
           /\ \A x : IsDone(x)
  <1>1. /\ pc \in AfterMiniFat /\ pc \in AfterFat
    BY DEF AfterMiniFat, AfterFat
  <1>2. pc \in AfterContents
    BY <1>1 DEF AfterContents, AfterHeader
  <1>3. pc \in AfterTables /\ pc \in AfterCount
    BY <1>2 DEF AfterCount, AfterTables, AfterDirectory
  <1> QED
    BY <1>1, <1>2, <1>3 DEF IsDone

LEMMA MiniDataRead ==
    ASSUME Base, Placed, Counted, Tabled, FatKnown, EntriesKnown, LoopIndex, LoadMiniData,
           pc' \in AfterEntries
    PROVE  \A a \in 0 .. (MiniSize * miniFatNum) - 1 :
                miniData'[a] = image.data[(MiniDataPos * SectorSize) + a]
  <1>1. pc \in AfterEntries /\ entries = dirs /\ next = 1
    BY ReadRound
  <1>2. pc \in AfterCount /\ pc \in AfterTables /\ pc \in AfterFat
    BY <1>1, LoadPhases
  <1>3. entries[next].start = MiniDataPos /\ entries[next].size = MiniSize * miniFatNum
    BY <1>1, <1>2 DEF Counted
  <1>4. fats = image.fat
    BY <1>2 DEF FatKnown
  <1>5. /\ HasChain(fats, MiniDataPos) /\ Chain(fats, MiniDataPos) = RunFrom(MiniDataPos, MiniDataSectors)
        /\ MiniDataPos \in Nat /\ MiniDataSectors \in Nat
    BY <1>2, <1>4, FatChains4, FatPlaces
  <1>6. MiniSize * miniFatNum \in Nat
    <2>1. size \in Documents /\ pc \in AfterPlace
      BY <1>2, Zenon DEF Base, AfterPlace
    <2>2. miniFatNum = Place(size, 6)
      BY <2>1 DEF Placed
    <2>3. Place(size, 6) \in Nat
      BY <2>1, PlaceFacts
    <2> QED
      BY <2>2, <2>3, Geometry, Times
  <1> DEFINE n == MiniSize * miniFatNum
             c == RunFrom(MiniDataPos, MiniDataSectors)
             r == Load(image.data, c, SectorSize, n)
  <1>7. BlocksHold(c, SectorSize, n) /\ miniData' = [o \in 0 .. n - 1 |-> r[o + 1]]
    <2> DEFINE refused == pc' = "reader refused"
    <2>1. refused => pc' \notin AfterEntries
      BY DEF AfterEntries
    <2>2. ~(Refuse /\ UNCHANGED <<next, miniData>>)
      BY <2>1, Zenon DEF Refuse
    <2>3. IF ~HasChain(fats, entries[next].start) THEN NextEntry /\ UNCHANGED miniData
          ELSE IF ~BlocksHold(Chain(fats, entries[next].start), SectorSize, entries[next].size)
          THEN Refuse /\ UNCHANGED <<next, miniData>>
          ELSE /\ miniData' = [o \in 0 .. entries[next].size - 1 |->
                    Load(image.data, Chain(fats, entries[next].start), SectorSize, entries[next].size)[o + 1]]
               /\ NextEntry
      BY Zenon DEF LoadMiniData
    <2> QED
      BY <1>3, <1>5, <2>2, <2>3, Zenon
  <1>8. n <= MiniDataSectors * SectorSize
    <2>1. Len(c) = MiniDataSectors
      BY <1>5, RunFacts
    <2>2. Len(c) * SectorSize >= n
      BY <1>7 DEF BlocksHold
    <2>3. MiniDataSectors * SectorSize \in Nat /\ MiniDataSectors * SectorSize >= n
      BY <1>5, <2>1, <2>2, Geometry, Times
    <2> QED
      BY <1>6, <2>3
  <1>9. r = [o \in 1 .. n |-> image.data[(MiniDataPos * SectorSize) + (o - 1)]]
    <2> HIDE DEF n
    <2>1. n \in Nat
      BY <1>6 DEF n
    <2> QED
      BY <1>5, <1>8, <2>1, Geometry, LoadRun, SMTT(30)
  <1>10. n \in Nat
    BY <1>6
  <1> HIDE DEF n, r
  <1>11. ASSUME NEW a \in 0 .. n - 1
         PROVE  miniData'[a] = image.data[(MiniDataPos * SectorSize) + a]
    <2>1. a + 1 \in 1 .. n /\ (a + 1) - 1 = a
      BY <1>10
    <2>2. miniData'[a] = r[a + 1]
      BY <1>7
    <2> QED
      BY <1>9, <2>1, <2>2
  <1> QED
    BY <1>11 DEF n

\* Whichever table the reader takes, the content is its chain's blocks.
LEMMA ContentRead ==
    ASSUME EntriesKnown, LoopIndex, Base, LoadContent, pc' \in AfterEntries,
           NEW e, e = dirs[next], NEW v, v = loaded'[next]
    PROVE  /\ ReadsMini(e) => /\ BlocksHold(Chain(miniFats, e.start), MiniSize, e.size)
                              /\ v = Load(miniData, Chain(miniFats, e.start), MiniSize, e.size)
           /\ ~ReadsMini(e) => /\ BlocksHold(Chain(fats, e.start), SectorSize, e.size)
                               /\ v = Load(image.data, Chain(fats, e.start), SectorSize, e.size)
  <1>1. entries[next] = e /\ DOMAIN loaded = 1 .. 11 /\ next \in 1 .. 11
    BY ReadRound
  <1> DEFINE t == IF ReadsMini(e) THEN miniFats ELSE fats
             source == IF ReadsMini(e) THEN miniData ELSE image.data
             block == IF ReadsMini(e) THEN MiniSize ELSE SectorSize
             w == Load(source, Chain(t, e.start), block, e.size)
  <1>2. ~(Refuse /\ UNCHANGED <<loaded, next>>)
    <2>1. pc' = "reader refused" => pc' \notin AfterEntries
      BY DEF AfterEntries
    <2> QED
      BY <2>1, Zenon DEF Refuse
  <1>3. BlocksHold(Chain(t, e.start), block, e.size) /\ loaded' = [loaded EXCEPT ![next] = w]
    <2>1. IF HasChain(t, e.start) /\ BlocksHold(Chain(t, e.start), block, e.size)
          THEN loaded' = [loaded EXCEPT ![next] = w] /\ NextEntry
          ELSE Refuse /\ UNCHANGED <<loaded, next>>
      BY <1>1, Zenon DEF LoadContent
    <2> QED
      BY <1>2, <2>1, Zenon
  <1> HIDE DEF w
  <1>4. v = w
    BY <1>1, <1>3
  <1> QED
    BY <1>3, <1>4, Zenon DEF w

\* A small stream comes out of the mini stream as the writer got it.
LEMMA MiniContentRead ==
    ASSUME Base, Placed, Counted, Tabled, MiniFatKnown, EntriesKnown, LoopIndex, Written, MiniKnown,
           LoadContent, pc' \in AfterEntries, NEW k \in 1 .. 5, next = MiniAt[k]
    PROVE  loaded'[next] = ContentOf(size, MiniStreams[k])
  <1>1. pc \in AfterEntries /\ pc = "streams"
    BY ReadRound
  <1>2. pc \in AfterCount /\ pc \in AfterTables /\ pc \in AfterMiniFat /\ IsDone(MiniAt[k])
    BY <1>1, LoadPhases
  <1> DEFINE e == dirs[MiniAt[k]]
             p == Place(size, k)
             l == MiniLengths(size)[k]
             n == MiniLength(k)
             m == Place(size, 6)
             base == MiniDataPos * SectorSize
  <1>3. e.start = p /\ e.size = n /\ n < Cutoff
    BY <1>2, AreaOf
  <1>4. miniFats = image.miniFat
    BY <1>2 DEF MiniFatKnown
  <1>5. /\ HasChain(miniFats, p) /\ Chain(miniFats, p) = RunFrom(p, l)
        /\ p \in Nat /\ l \in Nat /\ p + l <= m /\ m \in Nat /\ n <= l * MiniSize
    BY <1>2, <1>4, MiniChain
  <1>6. n \in Nat /\ base \in Nat
    BY <1>2, Areas, FatPlaces, Geometry, Times
  <1>7. ReadsMini(e)
    BY <1>3, <1>5 DEF ReadsMini
  <1>8. loaded'[next] = Load(miniData, RunFrom(p, l), MiniSize, n)
    <2> HIDE DEF e, p, l, n
    <2>1. e = dirs[next]
      BY DEF e
    <2> QED
      BY <1>3, <1>5, <1>7, <2>1, ContentRead
  <1>9. loaded'[next] = [o \in 1 .. n |-> miniData[(p * MiniSize) + (o - 1)]]
    <2> HIDE DEF p, l, n
    <2> QED
      BY <1>5, <1>6, <1>8, Geometry, LoadRun, SMTT(30)
  <1>10. \A a \in 0 .. (MiniSize * m) - 1 : miniData[a] = image.data[base + a]
    <2>1. IsLoaded(1)
      <3>1. next > 1
        BY MiniStreamsAre
      <3> QED
        BY <1>1, <3>1 DEF IsLoaded
    <2>2. miniFatNum = m
      <3>1. pc \in AfterPlace
        BY <1>2 DEF AfterPlace
      <3> QED
        BY <3>1 DEF Placed
    <2> QED
      BY <2>1, <2>2 DEF MiniKnown
  <1>11. HasTokens(image.data, MiniAreaAt(k), MiniStreams[k], n)
    BY <1>2 DEF Written
  <1>12. MiniAreaAt(k) = base + (p * MiniSize)
    BY DEF MiniAreaAt
  <1>13. p * MiniSize \in Nat /\ (p * MiniSize) + n <= MiniSize * m
    <2> HIDE DEF p, l, n, m
    <2>1. p * MiniSize \in Nat /\ l * MiniSize \in Nat /\ (p + l) * MiniSize = (p * MiniSize) + (l * MiniSize)
      BY <1>5, Geometry
    <2>2. p + l \in Nat
      BY <1>5
    <2>3. (p + l) * MiniSize <= m * MiniSize /\ m * MiniSize \in Nat
      BY <1>5, <2>2, Geometry, Monotone
    <2>4. m * MiniSize = MiniSize * m
      BY <1>5, Geometry
    <2> QED
      BY <1>5, <1>6, <2>1, <2>3, <2>4
  <1>14. MiniSize * m \in Nat
    BY <1>5, Geometry, Times
  <1> DEFINE a == p * MiniSize
             z == MiniSize * m
  <1>15. a \in Nat /\ z \in Nat /\ a + n <= z
    BY <1>13, <1>14
  <1>16. \A b \in 0 .. z - 1 : miniData[b] = image.data[base + b]
    BY <1>10
  <1>17. HasTokens(image.data, base + a, MiniStreams[k], n)
    BY <1>11, <1>12
  <1> HIDE DEF a, z, n, base
  <1>18. ASSUME NEW o \in 1 .. n PROVE miniData[a + (o - 1)] = <<MiniStreams[k], o>>
    <2>1. a + (o - 1) \in 0 .. z - 1 /\ base + (a + (o - 1)) = (base + a) + o - 1
      BY <1>6, <1>15
    <2>2. image.data[(base + a) + o - 1] = <<MiniStreams[k], o>>
      BY <1>17 DEF HasTokens
    <2> QED
      BY <1>16, <2>1, <2>2
  <1>19. loaded'[next] = [o \in 1 .. n |-> <<MiniStreams[k], o>>]
    BY <1>9, <1>18 DEF a
  <1>20. size[MiniStreams[k]] = n
    BY DEF MiniLength, n
  <1> QED
    BY <1>19, <1>20, Zenon DEF ContentOf

\* A package above the cutoff comes out of its sectors as the writer got it.
LEMMA PackageRead ==
    ASSUME Base, Placed, Counted, Tabled, FatKnown, EntriesKnown, LoopIndex, Written,
           LoadContent, pc' \in AfterEntries, next = 2, size[Package] > Cutoff
    PROVE  loaded'[next] = ContentOf(size, Package)
  <1>1. pc \in AfterEntries
    BY ReadRound
  <1>2. pc \in AfterCount /\ pc \in AfterTables /\ pc \in AfterFat /\ IsDone(2)
    BY <1>1, LoadPhases
  <1> DEFINE e == dirs[2]
             p == PackagePos
             l == PackageSectors
             n == size[Package]
  <1>3. e.start = p /\ e.size = n
    <2>1. e.size = n
      BY <1>2, AreaOf
    <2>2. e.start = p
      BY <1>2 DEF Counted
    <2> QED
      BY <2>1, <2>2
  <1>4. fats = image.fat
    BY <1>2 DEF FatKnown
  <1>5. /\ Chain(fats, p) = RunFrom(p, l) /\ p \in Nat /\ l \in Nat
    BY <1>2, <1>4, FatChains4, FatPlaces
  <1>6. n \in Nat /\ PackageAreaAt = p * SectorSize /\ p * SectorSize \in Nat
    BY <1>2, Areas DEF PackageAreaAt
  <1>7. ~ReadsMini(e)
    BY <1>3, <1>6, Geometry DEF ReadsMini
  <1> HIDE DEF n
  <1>8. BlocksHold(RunFrom(p, l), SectorSize, n) /\ loaded'[next] = Load(image.data, RunFrom(p, l), SectorSize, n)
    <2> HIDE DEF e, p, l
    <2>1. e = dirs[next]
      BY DEF e
    <2> QED
      BY <1>3, <1>5, <1>7, <2>1, ContentRead
  <1>9. n <= l * SectorSize
    <2> HIDE DEF p, l
    <2>1. Len(RunFrom(p, l)) = l /\ l * SectorSize \in Nat
      BY <1>5, RunFacts, Geometry, Times
    <2>2. Len(RunFrom(p, l)) * SectorSize >= n
      BY <1>8 DEF BlocksHold
    <2> QED
      BY <1>6, <2>1, <2>2
  <1> DEFINE a == p * SectorSize
  <1>10. loaded'[next] = [o \in 1 .. n |-> image.data[a + (o - 1)]]
    <2> HIDE DEF p, l
    <2> QED
      BY <1>5, <1>6, <1>8, <1>9, Geometry, LoadRun, SMTT(30)
  <1>11. HasTokens(image.data, a, Package, n)
    BY <1>2, <1>6 DEF Written, n
  <1>12. a \in Nat
    BY <1>6
  <1> HIDE DEF a
  <1>13. ASSUME NEW o \in 1 .. n PROVE image.data[a + (o - 1)] = <<Package, o>>
    <2>1. a + (o - 1) = a + o - 1
      BY <1>6, <1>12
    <2> QED
      BY <1>11, <2>1 DEF HasTokens
  <1>14. loaded'[next] = [o \in 1 .. n |-> <<Package, o>>]
    BY <1>10, <1>13
  <1> QED
    BY <1>14, Zenon DEF ContentOf, n

LEMMA MiniKnownStep ==
    ASSUME Base, Placed, Counted, Tabled, FatKnown, EntriesKnown, LoopIndex, MiniKnown, [Next]_vars
    PROVE  MiniKnown'
  <1> SUFFICES ASSUME IsLoaded(1)'
               PROVE  \A a \in 0 .. (MiniSize * miniFatNum') - 1 :
                        miniData'[a] = image'.data[(MiniDataPos' * SectorSize) + a]
    BY DEF MiniKnown, SectorSize
  <1>1. 1 \in 1 .. 11
    OBVIOUS
  <1>2. /\ pc' \in AfterEntries /\ UNCHANGED <<writer, image>>
        /\ LeavesLoaded(1) \/ (1 = next /\ pc = "streams" /\ ReaderRound)
    BY <1>1, LoadedBefore
  <1>3. miniFatNum' = miniFatNum /\ MiniDataPos' = MiniDataPos /\ image' = image
    BY <1>2, LayoutStays DEF writer
  <1>4. \A a \in 0 .. (MiniSize * miniFatNum) - 1 :
            miniData'[a] = image.data[(MiniDataPos * SectorSize) + a]
    <2>1. CASE LeavesLoaded(1)
      BY <2>1 DEF LeavesLoaded, MiniKnown
    <2>2. CASE 1 = next /\ ReaderRound
      <3>1. LoadMiniData
        BY <2>2, ReadRound DEF ReaderRound
      <3> QED
        BY <1>2, <3>1, MiniDataRead
    <2> QED
      BY <1>2, <2>1, <2>2
  <1> QED
    BY <1>3, <1>4

LEMMA ContentsKnownStep ==
    ASSUME Base, Placed, Counted, Tabled, FatKnown, MiniFatKnown, EntriesKnown, LoopIndex, Written,
           MiniKnown, ContentsKnown, [Next]_vars
    PROVE  ContentsKnown'
  <1>1. ASSUME NEW k \in 1 .. 5, IsLoaded(MiniAt[k])'
        PROVE  loaded'[MiniAt[k]] = ContentOf(size', MiniStreams[k])
    <2>1. MiniAt[k] \in 1 .. 11 /\ MiniAt[k] \in HasStream
      BY MiniStreamsAre DEF HasStream
    <2>2. /\ pc' \in AfterEntries /\ UNCHANGED <<writer, image>>
          /\ LeavesLoaded(MiniAt[k]) \/ (MiniAt[k] = next /\ pc = "streams" /\ ReaderRound)
      BY <1>1, <2>1, LoadedBefore
    <2>3. size' = size
      BY <2>2 DEF writer
    <2>4. CASE LeavesLoaded(MiniAt[k])
      BY <2>3, <2>4 DEF LeavesLoaded, ContentsKnown
    <2>5. CASE MiniAt[k] = next /\ ReaderRound
      <3>1. LoadContent
        BY <2>1, <2>5, ReadRound DEF ReaderRound
      <3>2. loaded'[next] = ContentOf(size, MiniStreams[k])
        BY <2>2, <2>5, <3>1, MiniContentRead
      <3> QED
        BY <2>3, <2>5, <3>2
    <2> QED
      BY <2>2, <2>4, <2>5
  <1>2. ASSUME size'[Package] > Cutoff, IsLoaded(2)'
        PROVE  loaded'[2] = ContentOf(size', Package)
    <2>1. 2 \in 1 .. 11 /\ 2 \in HasStream
      BY DEF HasStream
    <2>2. /\ pc' \in AfterEntries /\ UNCHANGED <<writer, image>>
          /\ LeavesLoaded(2) \/ (2 = next /\ pc = "streams" /\ ReaderRound)
      BY <1>2, <2>1, LoadedBefore
    <2>3. size' = size
      BY <2>2 DEF writer
    <2>4. CASE LeavesLoaded(2)
      BY <1>2, <2>3, <2>4 DEF LeavesLoaded, ContentsKnown
    <2>5. CASE 2 = next /\ ReaderRound
      <3>1. LoadContent
        BY <2>1, <2>5, ReadRound DEF ReaderRound
      <3>2. loaded'[next] = ContentOf(size, Package)
        BY <1>2, <2>2, <2>3, <2>5, <3>1, PackageRead
      <3> QED
        BY <2>3, <2>5, <3>2
    <2> QED
      BY <2>2, <2>4, <2>5
  <1> QED
    BY <1>1, <1>2 DEF ContentsKnown
-----------------------------------------------------------------------------
(* The file as a store of streams *)

\* What is known of the file at each phase.
FileInv ==
    /\ WriterInv /\ LoopIndex /\ Written /\ Listed /\ HeaderKnown /\ FatKnown /\ MiniFatKnown
    /\ EntriesKnown /\ MiniKnown /\ ContentsKnown

LEMMA FileInit == Init => FileInv
  <1> SUFFICES ASSUME Init PROVE FileInv
    OBVIOUS
  <1>1. pc \in {"ministreams", "writer refused"} /\ next = 1
    BY DEF Init
  <1> USE DEF AfterEntries, AfterMiniFat, AfterFat, AfterHeader, AfterContents, AfterDirectory
  <1>2. /\ pc \notin AfterEntries /\ pc \notin AfterMiniFat /\ pc \notin AfterFat
        /\ pc \notin AfterHeader /\ pc \notin AfterContents /\ pc \notin AfterDirectory
    BY <1>1
  <1>3. \A x : ~IsLoaded(x) /\ ~IsDone(x)
    <2>1. pc # "streams" /\ pc # "done" /\ pc # "contents"
      BY <1>1, Zenon
    <2> QED
      BY <1>2, <2>1, Zenon DEF IsLoaded, IsDone
  <1>4. LoopIndex
    <2>1. 1 \in 1 .. 11
      OBVIOUS
    <2> QED
      BY <1>1, <2>1, Zenon DEF LoopIndex
  <1>5. Listed /\ HeaderKnown /\ FatKnown /\ MiniFatKnown /\ EntriesKnown
    BY <1>2, Zenon DEF Listed, HeaderKnown, FatKnown, MiniFatKnown, EntriesKnown
  <1>6. Written /\ MiniKnown /\ ContentsKnown
    BY <1>3 DEF Written, MiniKnown, ContentsKnown
  <1> QED
    BY <1>4, <1>5, <1>6, WriterInit DEF FileInv

LEMMA FileStep == FileInv /\ [Next]_vars => FileInv'
  <1> SUFFICES ASSUME FileInv, [Next]_vars PROVE FileInv'
    OBVIOUS
  <1>1. /\ Base /\ Placed /\ Counted /\ Tabled /\ LoopIndex /\ Written /\ Listed /\ HeaderKnown
        /\ FatKnown /\ MiniFatKnown /\ EntriesKnown /\ MiniKnown /\ ContentsKnown
    BY DEF FileInv, WriterInv
  <1>2. WriterInv'
    BY WriterStep DEF FileInv
  <1>3. LoopIndex' /\ Written'
    BY <1>1, RoundsStep, WrittenStep
  <1>4. Listed' /\ HeaderKnown' /\ FatKnown' /\ MiniFatKnown' /\ EntriesKnown'
    BY <1>1, ListedStep, HeaderKnownStep, FatKnownStep, MiniFatKnownStep, EntriesKnownStep
  <1>5. MiniKnown' /\ ContentsKnown'
    BY <1>1, MiniKnownStep, ContentsKnownStep
  <1> QED
    BY <1>2, <1>3, <1>4, <1>5 DEF FileInv

LEMMA FileInvAlways == Spec => []FileInv
  BY FileInit, FileStep, PTL DEF Spec

\* Every name finds its entry, and no two names the same one.
LEMMA FoundByName ==
    ASSUME Base, entries = dirs, NEW x \in 1 .. 11
    PROVE  GetContensByName(DirNames[x]) = loaded[x]
  <1>1. \A y \in 1 .. 11 : entries[y].name = WideNames[y]
    BY DEF Base, IsEntries
  <1>2. DOMAIN entries = 1 .. 11
    BY DEF Base, IsEntries
  <1>3. WideNames[Id(DirNames[x]) + 1] = WideNames[x]
    BY IdOf
  <1>4. \A y \in 1 .. 11 : WideNames[y] = WideNames[x] => y = x
    BY NamesAssumption, DirNumIs
  <1> DEFINE found == {y \in DOMAIN entries : entries[y].name = WideNames[Id(DirNames[x]) + 1]}
  <1>5. found = {x}
    BY <1>1, <1>2, <1>3, <1>4
  <1>6. Min({x, x}) = x
    BY MinOfTwo
  <1>7. {x, x} = {x} /\ {x} # {}
    OBVIOUS
  <1>8. GetContensByName(DirNames[x]) = IF found = {} THEN NotFound ELSE loaded[Min(found)]
    BY DEF GetContensByName
  <1> QED
    BY <1>5, <1>6, <1>7, <1>8

LEMMA Survivors ==
    ASSUME FileInv, pc = "done"
    PROVE  /\ \A s \in Streams \ {Package} : GetContensByName(s) = Content(s)
           /\ ~SmallPackage => \A s \in Streams : GetContensByName(s) = Content(s)
  <1>1. Base /\ EntriesKnown /\ ContentsKnown
    BY DEF FileInv, WriterInv
  <1>2. entries = dirs
    BY <1>1 DEF EntriesKnown, AfterEntries
  <1>3. \A x : IsLoaded(x)
    BY DEF IsLoaded
  <1>4. ASSUME NEW s \in Streams \ {Package} PROVE GetContensByName(s) = Content(s)
    <2>1. PICK k \in 1 .. 5 : s = DirNames[MiniAt[k]]
      BY StreamsAre
    <2>2. MiniAt[k] \in 1 .. 11 /\ s = MiniStreams[k]
      BY <2>1, MiniStreamsAre
    <2>3. GetContensByName(s) = loaded[MiniAt[k]]
      BY <1>1, <1>2, <2>1, <2>2, FoundByName
    <2>4. loaded[MiniAt[k]] = ContentOf(size, MiniStreams[k])
      BY <1>1, <1>3 DEF ContentsKnown
    <2> QED
      BY <2>2, <2>3, <2>4 DEF Content
  <1>5. ASSUME ~SmallPackage PROVE GetContensByName(Package) = Content(Package)
    <2>1. Package = DirNames[2] /\ 2 \in 1 .. 11
      BY StreamsAre
    <2>2. GetContensByName(Package) = loaded[2]
      BY <1>1, <1>2, <2>1, FoundByName
    <2>3. size[Package] > Cutoff
      <3>1. size[Package] \in Nat
        BY <1>1, DocumentFacts DEF Base
      <3> QED
        BY <1>5, <3>1, Geometry DEF SmallPackage
    <2>4. loaded[2] = ContentOf(size, Package)
      BY <1>1, <1>3, <2>3 DEF ContentsKnown
    <2> QED
      BY <2>2, <2>4 DEF Content
  <1> QED
    BY <1>4, <1>5

\* Every stream encode hands to makeLayout, but for the package, is handed out
\* unchanged by GetContensByName, once CompoundFile has read the file; a package
\* that is not above the cutoff, which makeLayout puts into the wrong place,
\* overwrites none of them.
THEOREM OthersAlwaysSurvive == Spec => []OtherStreamsSurvive
  <1>1. FileInv => OtherStreamsSurvive
    BY Survivors DEF OtherStreamsSurvive
  <1> QED
    BY <1>1, FileInvAlways, PTL

LEMMA DoneStays ==
    ASSUME [Next]_vars, pc = "done"
    PROVE  UNCHANGED vars
  BY WriterSteps, ReaderSteps DEF Next

\* With a package above the cutoff makeLayout and CompoundFile together are the
\* store of module StreamStore: one step, the end of the reader's loop over the
\* entries, makes every stream available as it was given, and every other step
\* of either is invisible.
THEOREM FileIsStreamStore == Spec => IsStreamStore
  <1> DEFINE stored == [s \in Streams |-> Content(s)]
             retrieved == IF pc = "done" THEN [s \in Streams |-> GetContensByName(s)] ELSE Empty
             A == ~SmallPackage => [Store!Retrieve]_Store!vars
  <1>1. Init => Store!Init
    <2> SUFFICES ASSUME Init PROVE Store!Init
      OBVIOUS
    <2>1. size \in Documents
      BY DEF Init
    <2>2. stored \in {[s \in Streams |-> ContentOf(d, s)] : d \in Documents}
      BY <2>1 DEF Content
    <2>3. pc \in {"ministreams", "writer refused"}
      BY DEF Init
    <2>4. pc # "done"
      BY <2>3
    <2>5. retrieved = Empty
      BY <2>4
    <2> QED
      BY <2>2, <2>5 DEF Store!Init
  <1>2. FileInv /\ FileInv' /\ [Next]_vars => [A]_vars
    <2> SUFFICES ASSUME FileInv, FileInv', [Next]_vars, ~SmallPackage, ~UNCHANGED vars
                 PROVE  Store!Retrieve \/ UNCHANGED <<stored, retrieved>>
      BY DEF Store!vars
    <2>1. size' = size
      BY Flow
    <2>2. stored' = stored
      BY <2>1 DEF Content
    <2>3. pc # "done"
      BY DoneStays
    <2>4. retrieved = Empty
      BY <2>3
    <2>5. CASE pc' = "done"
      <3>1. ~SmallPackage'
        BY <2>1 DEF SmallPackage
      <3>2. \A s \in Streams : GetContensByName(s)' = Content(s)'
        <4>1. FileInv /\ pc = "done" =>
                (~SmallPackage => \A s \in Streams : GetContensByName(s) = Content(s))
          BY Survivors
        <4>2. (FileInv /\ pc = "done" =>
                (~SmallPackage => \A s \in Streams : GetContensByName(s) = Content(s)))'
          BY Survivors, PTL
        <4> QED
          BY <2>5, <3>1, <4>2
      <3>3. retrieved' = [s \in Streams |-> GetContensByName(s)']
        BY <2>5
      <3>4. stored' = [s \in Streams |-> Content(s)']
        OBVIOUS
      <3>5. retrieved' = stored'
        BY <3>2, <3>3, <3>4
      <3> HIDE DEF stored, retrieved
      <3>6. retrieved = Empty /\ retrieved' = stored /\ stored' = stored
        BY <2>2, <2>4, <3>5
      <3> USE DEF stored, retrieved
      <3> QED
        BY <3>6 DEF Store!Retrieve
    <2>6. CASE pc' # "done"
      <3>1. retrieved' = Empty
        BY <2>6 DEF Empty
      <3> QED
        BY <2>2, <2>4, <3>1
    <2> QED
      BY <2>5, <2>6
  <1>3. Init /\ [][Next]_vars => [][A]_vars
    <2> HIDE DEF A
    <2> QED
      BY <1>2, FileInvAlways, PTL DEF Spec
  <1> QED
    BY <1>1, <1>3, PTL DEF Spec, IsStreamStore
-----------------------------------------------------------------------------
(* What the reader refuses *)

\* The entries, as the writer makes them, pass what the reader asserts.
AllSettable ==
    \A x \in 1 .. 11 :
        /\ IsValidName(WideNames[x])
        /\ IsValidId(InfoTbl[x].left) /\ IsValidId(InfoTbl[x].right) /\ IsValidId(InfoTbl[x].child)

Settable == pc # "writer refused" => AllSettable

LEMMA SettableInit == Init => Settable
  <1> SUFFICES ASSUME Init, pc # "writer refused", NEW x \in 1 .. 11
               PROVE  /\ IsValidName(WideNames[x])
                      /\ IsValidId(InfoTbl[x].left) /\ IsValidId(InfoTbl[x].right)
                      /\ IsValidId(InfoTbl[x].child)
    BY DEF Settable, AllSettable
  <1>1. size \in Documents /\ dirs = MakeDataSpace(size)
    BY DEF Init
  <1>2. IsSettable(dirs[x])
    <2>1. pc = IF \A y \in 1 .. DirNum : IsSettable(dirs[y]) THEN "ministreams" ELSE "writer refused"
      BY Zenon DEF Init
    <2> QED
      BY <2>1, DirNumIs, Zenon
  <1>3. dirs[x].name = WideNames[x] /\ SameIds(dirs[x], InfoTbl[x])
    BY <1>1, MakeDataSpaceFacts DEF IsEntries
  <1> QED
    BY <1>2, <1>3 DEF IsSettable, SameIds

LEMMA SettableStep == Settable /\ [Next]_vars => Settable'
  <1> SUFFICES ASSUME Settable, [Next]_vars PROVE Settable'
    OBVIOUS
  <1>1. pc' # "writer refused" => pc # "writer refused"
    BY Flow
  <1>2. AllSettable' = AllSettable
    BY DEF AllSettable
  <1> QED
    BY <1>1, <1>2, Zenon DEF Settable

\* The bytes after the name.
LEMMA NameEnds ==
    ASSUME NEW e, IsShortName(e.name)
    PROVE  /\ ReadNameLength(WriteEntry(e)) = 2 * (Len(e.name) + 1)
           /\ Get(WriteEntry(e), 2 * Len(e.name), 2) = 0
  <1> DEFINE w == WriteEntry(e)
             name == e.name
             l == Len(name)
             rest(a) == IF EntryFieldsAt[a] = {} THEN ZeroByte
                        ELSE Byte(e, EntryWritten, CHOOSE f \in EntryFieldsAt[a] : TRUE, a)
  <1>1. l \in Nat /\ l <= 31 /\ l > 0 /\ name # << >>
    BY DEF IsShortName
  <1>2. w = [a \in 0 .. 127 |->
                IF a < 64 THEN IF a \div 2 < l THEN <<name[(a \div 2) + 1], a % 2>> ELSE ZeroByte
                ELSE IF a \in {64, 65} THEN <<NameLength(name), a - 64>> ELSE rest(a)]
    BY DEF WriteEntry, EntryBytes, NameBytes
  <1> HIDE DEF w, l, name, rest
  <1>3. NameLength(name) = 2 * (l + 1)
    BY <1>1 DEF NameLength, l
  <1>4. Get(w, 64, 2) = 2 * (l + 1)
    <2>1. \A a \in {64, 65} : w[a] = <<NameLength(name), a - 64>>
      BY <1>2
    <2>2. Holds(w, 64, 2, 2 * (l + 1))
      BY <1>3, <2>1 DEF Holds
    <2> QED
      BY <2>2, GetFacts
  <1>5. \A a \in 0 .. 127 : a < 64 /\ ~(a \div 2 < l) => w[a] = <<0, 0>>
    BY <1>2 DEF ZeroByte
  <1> DEFINE p == 2 * l
  <1>6. p \in 0 .. 127 /\ p + 1 \in 0 .. 127 /\ p < 64 /\ p + 1 < 64
    BY <1>1
  <1>7. p \div 2 = l /\ (p + 1) \div 2 = l
    BY <1>1
  <1> HIDE DEF p
  <1>8. w[p] = <<0, 0>> /\ w[p + 1] = <<0, 0>>
    <2>1. ~(p \div 2 < l) /\ ~((p + 1) \div 2 < l)
      BY <1>1, <1>7
    <2> DEFINE q == p + 1
    <2>2. q \in 0 .. 127 /\ q < 64 /\ ~(q \div 2 < l)
      BY <1>6, <2>1
    <2> HIDE DEF q
    <2>3. w[p] = <<0, 0>> /\ w[q] = <<0, 0>>
      BY <1>5, <1>6, <2>1, <2>2, Zenon
    <2> QED
      BY <2>3 DEF q
  <1>9. Get(w, p, 2) = 0
    <2>1. w[p][1] = 0 /\ w[p + 1][1] = 0
      BY <1>8
    <2>2. \A a \in 0 .. 2 - 1 : a = 0 \/ a = 1
      OBVIOUS
    <2>3. p + 0 = p
      BY <1>6
    <2>4. \A a \in 0 .. 2 - 1 : w[p + a][1] = 0
      BY <2>1, <2>2, <2>3
    <2> QED
      BY <2>1, <2>4 DEF Get
  <1> QED
    BY <1>4, <1>9 DEF ReadNameLength, NameBytes, w, l, name, p

LEMMA EntryAccepted ==
    ASSUME AllSettable, IsEntries(size, dirs), NEW x \in 1 .. 11, IsShortName(WideNames[x])
    PROVE  IsEntry(WriteEntry(dirs[x]))
  <1> DEFINE e == dirs[x]
             r == WriteEntry(e)
             f == ReadFields(r, EntryRead)
             l == Len(e.name)
  <1>1. e.name = WideNames[x] /\ e.type = InfoTbl[x].type /\ SameIds(e, InfoTbl[x])
    BY DEF IsEntries
  <1>2. IsShortName(e.name) /\ IsValidName(e.name)
    BY <1>1 DEF AllSettable
  <1>3. IsValidId(e.left) /\ IsValidId(e.right) /\ IsValidId(e.child)
    BY <1>1 DEF AllSettable, SameIds
  <1>4. /\ e.color \in {Red, Black}
        /\ e.type \in {Unallocated, StorageObject, StreamObject, RootStorageObject}
    <2>1. InfoTbl[x] \in InfoRecord
      BY InfoTblFacts
    <2>2. InfoTbl[x].color \in {Red, Black}
      BY <2>1 DEF InfoRecord
    <2>3. InfoTbl[x].type \in {StorageObject, StreamObject, RootStorageObject}
      BY InfoTblFacts
    <2> QED
      BY <1>1, <2>2, <2>3 DEF SameIds
  <1>5. \A g \in EntryFields : f[g] = e[g]
    <2>1. f = [g \in EntryFields |-> Get(r, EntryRead[g][1], EntryRead[g][2])]
      BY EntryTable, EntryPlaces DEF ReadFields
    <2>2. \A g \in EntryFields : Get(r, EntryRead[g][1], EntryRead[g][2]) = e[g]
      BY EntryFieldsBack
    <2> HIDE DEF f, r, e
    <2> QED
      BY <2>1, <2>2
  <1>6. ReadNameLength(r) = 2 * (l + 1) /\ Get(r, 2 * l, 2) = 0 /\ ReadName(r) = e.name
    BY <1>2, NameEnds, NameBack
  <1>7. l \in Nat /\ l <= 31
    BY <1>2 DEF IsShortName
  <1> HIDE DEF e, r, f, l
  <1>8. f.type = e.type /\ f.color = e.color /\ f.left = e.left /\ f.right = e.right /\ f.child = e.child
    BY <1>5 DEF EntryFields
  <1> DEFINE length == ReadNameLength(r)
  <1>9. length = 2 * (l + 1)
    BY <1>6
  <1> HIDE DEF length
  <1>10. IsNameLength(length)
    BY <1>7, <1>9 DEF IsNameLength
  <1>11. length - 2 = 2 * l
    BY <1>7, <1>9
  <1>12. IsValidName(ReadName(r)) /\ Get(r, length - 2, 2) = 0
    BY <1>2, <1>6, <1>11
  <1>13. IsEntry(r)
    BY <1>3, <1>4, <1>8, <1>10, <1>12, Zenon DEF IsEntry, length, f
  <1> QED
    BY <1>13 DEF r, e

LEMMA NoEntryAccepted == IsEntry(NoEntry)
  <1>1. \A a \in 0 .. 127 : NoEntry[a] = <<0, 0>>
    BY DEF NoEntry, ZeroByte, EntryBytes
  <1>2. ASSUME NEW p \in Nat, NEW width \in Nat, p + width <= 128, width > 0
        PROVE  Get(NoEntry, p, width) = 0
    <2>1. p \in 0 .. 127 /\ \A a \in 0 .. width - 1 : p + a \in 0 .. 127
      BY <1>2
    <2>2. NoEntry[p][1] = 0 /\ \A a \in 0 .. width - 1 : NoEntry[p + a][1] = 0
      <3>1. ASSUME NEW b \in 0 .. 127 PROVE NoEntry[b][1] = 0
        <4>1. NoEntry[b] = <<0, 0>>
          BY <1>1, Zenon
        <4> QED
          BY <4>1
      <3> QED
        BY <2>1, <3>1, Zenon
    <2> QED
      BY <2>2 DEF Get
  <1> DEFINE f == ReadFields(NoEntry, EntryRead)
             length == ReadNameLength(NoEntry)
  <1>3. \A g \in EntryFields : f[g] = 0
    <2>1. f = [g \in EntryFields |-> Get(NoEntry, EntryRead[g][1], EntryRead[g][2])]
      BY EntryTable, EntryPlaces DEF ReadFields
    <2>2. ASSUME NEW g \in EntryFields PROVE Get(NoEntry, EntryRead[g][1], EntryRead[g][2]) = 0
      <3>1. /\ EntryRead[g][1] \in Nat /\ EntryRead[g][2] \in Nat /\ EntryRead[g][2] > 0
            /\ EntryRead[g][1] + EntryRead[g][2] <= 128
        BY EntryTable, EntryPlaces DEF IsTableOfFields, EntryBytes
      <3> QED
        BY <1>2, <3>1
    <2> HIDE DEF f
    <2> QED
      BY <2>1, <2>2
  <1>4. length = 0
    BY <1>2 DEF ReadNameLength, NameBytes
  <1> HIDE DEF f, length
  <1>5. f.type = 0 /\ f.color = 0 /\ f.left = 0 /\ f.right = 0 /\ f.child = 0
    BY <1>3 DEF EntryFields
  <1>6. IsNameLength(length)
    BY <1>4 DEF IsNameLength
  <1>7. /\ f.type \in {Unallocated, StorageObject, StreamObject, RootStorageObject}
        /\ f.color \in {Red, Black}
        /\ IsValidId(f.left) /\ IsValidId(f.right) /\ IsValidId(f.child)
    BY <1>5 DEF Unallocated, Red, IsValidId
  <1> QED
    BY <1>4, <1>6, <1>7, Zenon DEF IsEntry, f, length

\* The bytes no field is in.
LEMMA HeaderGaps ==
    ASSUME NEW h, NEW a, a \in 8 .. 23 \/ a \in 34 .. 39
    PROVE  WriteHeader(h)[a][1] = 0
  <1>1. a \in 0 .. HeaderBytes - 1 /\ a \in 0 .. DifatBytes - 1 /\ ~(a >= DifatBytes)
    BY Entries DEF HeaderBytes, DifatBytes
  <1>2. \A f \in HeaderFields :
            \/ f = "signature" \/ f = "minorVersion" \/ f = "majorVersion" \/ f = "byteOrder"
            \/ f = "sectorShift" \/ f = "miniSectorShift" \/ f = "numDirectorySectors"
            \/ f = "numFatSectors" \/ f = "firstDirectorySectorLocation"
            \/ f = "transactionSignatureNumber" \/ f = "miniStreamCutoffSize"
            \/ f = "firstMiniFatSectorLocation" \/ f = "numMiniFatSectors"
            \/ f = "firstDifatSectorLocation" \/ f = "numDifatSectors"
    BY DEF HeaderFields
  <1>3. \A f \in HeaderFields :
            a \notin HeaderWritten[f][1] .. HeaderWritten[f][1] + HeaderWritten[f][2] - 1
    BY <1>2, HeaderPlaces
  <1>4. HeaderFieldsAt[a] = {}
    BY <1>1, <1>3, HeaderPlaces DEF HeaderFieldsAt, FieldsAt
  <1>5. WriteHeader(h)[a] = <<0, 0>>
    BY <1>1, <1>4 DEF WriteHeader, ZeroByte
  <1> QED
    BY <1>5

LEMMA HeaderAccepted == IsHeader(WriteHeader(Header))
  <1> DEFINE r == WriteHeader(Header)
             h == ReadHeaderRecord(r)
  <1>1. \A f \in HeaderFields : h[f] = Header[f]
    BY HeaderFieldsBack
  <1>2. IsZero(r, 8, 16) /\ IsZero(r, 34, 6)
    <2>1. \A a \in 8 .. 8 + 16 - 1 : a \in 8 .. 23
      OBVIOUS
    <2>2. \A a \in 34 .. 34 + 6 - 1 : a \in 34 .. 39
      OBVIOUS
    <2> QED
      BY <2>1, <2>2, HeaderGaps, Zenon DEF IsZero
  <1> HIDE DEF r, h
  <1>3. /\ h.signature = Magic /\ h.minorVersion = 62 /\ h.majorVersion = 3
        /\ h.byteOrder = ByteOrder /\ h.sectorShift = 9
        /\ h.miniSectorShift = MiniSectorShift /\ h.numDirectorySectors = 0
        /\ h.miniStreamCutoffSize = MiniStreamCutoffSize
    BY <1>1, HeaderIs DEF HeaderFields
  <1>4. h.minorVersion \in {62, 59} /\ <<h.majorVersion, h.sectorShift>> \in {<<3, 9>>, <<4, 12>>}
    BY <1>3
  <1>5. IsHeader(r)
    BY <1>2, <1>3, <1>4, Zenon DEF IsHeader, h
  <1> QED
    BY <1>5 DEF r

LEMMA FileSectors ==
    ASSUME Base, Placed, Counted, pc \in AfterCount
    PROVE  SectorsOfFile = AllSectors + 1
  <1> DEFINE m == AllSectors * SectorSize
  <1>1. AllSectors \in Nat /\ SectorSize \in Nat /\ SectorSize > 0 /\ m \in Nat
    BY FatPlaces, Geometry, Times
  <1>2. DOMAIN image.data = 0 .. m - 1
    BY DEF Counted
  <1> HIDE DEF m
  <1>3. Cardinality(0 .. m - 1) = m
    <2>1. 0 \in Int /\ m - 1 \in Int
      BY <1>1
    <2>2. Cardinality(0 .. m - 1) = IF 0 > m - 1 THEN 0 ELSE (m - 1) - 0 + 1
      BY <2>1, FS_Interval
    <2> QED
      BY <1>1, <2>2
  <1>4. m \div SectorSize = AllSectors
    BY <1>1, DivMod, Monotone DEF m
  <1> QED
    BY <1>2, <1>3, <1>4 DEF SectorsOfFile

\* Who refuses, and what is wrong then.
LEMMA RefusedBy ==
    ASSUME [Next]_vars, Refuse
    PROVE  \/ UNCHANGED vars
           \/ ReadHeader \/ ReadFat \/ ReadMiniFat \/ ReadEntries \/ LoadMiniData \/ LoadContent
  BY WriterSteps, ReaderSteps, Zenon DEF Next, Refuse

LEMMA HeaderRefuses ==
    ASSUME Base, Placed, Counted, ReadHeader, Refuse
    PROVE  ExactFit
  <1>1. pc = "header"
    BY ReaderSteps
  <1>2. pc \in AfterCount
    BY <1>1 DEF AfterCount, AfterTables, AfterDirectory, AfterContents
  <1>3. IsHeader(image.header)
    BY <1>2, HeaderAccepted DEF Counted
  <1>4. ExactFit \/ ~IsHeader(image.header)
    BY Zenon DEF ReadHeader, Refuse
  <1> QED
    BY <1>3, <1>4

LEMMA FatNeverRefuses ==
    ASSUME Base, Placed, Counted, HeaderKnown, ReadFat, Refuse
    PROVE  FALSE
  <1>1. pc = "tables to read"
    BY ReaderSteps
  <1>2. pc \in AfterCount /\ pc \in AfterHeader
    BY <1>1 DEF AfterCount, AfterTables, AfterDirectory, AfterContents, AfterHeader
  <1>3. header.majorVersion = 3 /\ header.firstDirectorySectorLocation = DirPos
    BY <1>2 DEF HeaderKnown
  <1>4. header.majorVersion # 3 \/ header.firstDirectorySectorLocation >= SectorsOfFile
    BY Zenon DEF ReadFat, Refuse
  <1>5. SectorsOfFile = AllSectors + 1
    BY <1>2, FileSectors
  <1>6. DirPos \in Nat /\ AllSectors \in Nat /\ DirPos < AllSectors
    BY <1>2, FatPlaces
  <1> QED
    BY <1>3, <1>4, <1>5, <1>6

LEMMA MiniFatNeverRefuses ==
    ASSUME Base, Placed, Counted, Tabled, HeaderKnown, FatKnown, ReadMiniFat, Refuse
    PROVE  FALSE
  <1>1. pc = "mini fat"
    BY ReaderSteps
  <1>2. pc \in AfterCount /\ pc \in AfterHeader /\ pc \in AfterTables /\ pc \in AfterFat
    BY <1>1 DEF AfterCount, AfterTables, AfterDirectory, AfterContents, AfterHeader, AfterFat
  <1> DEFINE first == header.firstMiniFatSectorLocation
             sectors == Chain(fats, first)
  <1>3. header.numMiniFatSectors = 1 /\ first = MiniFatPos
    BY <1>2 DEF HeaderKnown
  <1>4. HasChain(fats, first) /\ sectors = RunFrom(MiniFatPos, 1)
    BY <1>2, <1>3, FatChains4 DEF FatKnown
  <1>5. \/ ~HasChain(fats, first) \/ Len(sectors) # header.numMiniFatSectors
        \/ \E x \in DOMAIN sectors : sectors[x] + 1 >= SectorsOfFile
    <2>1. header.numMiniFatSectors # 0
      BY <1>3
    <2> QED
      BY <2>1, Zenon DEF ReadMiniFat, Refuse
  <1>6. SectorsOfFile = AllSectors + 1
    BY <1>2, FileSectors
  <1>7. MiniFatPos \in Nat /\ AllSectors \in Nat /\ MiniFatPos < AllSectors
    BY <1>2, FatPlaces
  <1>8. Len(sectors) = 1 /\ DOMAIN sectors = 1 .. 1 /\ \A x \in 1 .. 1 : sectors[x] = MiniFatPos + x - 1
    <2>1. 1 \in Nat
      OBVIOUS
    <2> HIDE DEF sectors
    <2> QED
      BY <1>4, <1>7, <2>1, RunFacts
  <1> HIDE DEF sectors, first
  <1>9. \A x \in DOMAIN sectors : sectors[x] + 1 < SectorsOfFile
    BY <1>6, <1>7, <1>8
  <1>10. SectorsOfFile \in Int /\ \A x \in DOMAIN sectors : sectors[x] \in Int
    BY <1>6, <1>7, <1>8
  <1> QED
    BY <1>3, <1>4, <1>5, <1>8, <1>9, <1>10

LEMMA EntriesNeverRefuse ==
    ASSUME Base, Placed, Counted, Tabled, Listed, HeaderKnown, FatKnown, Settable,
           ReadEntries, Refuse
    PROVE  FALSE
  <1>1. pc = "entries"
    BY ReaderSteps
  <1>2. /\ pc \in AfterHeader /\ pc \in AfterFat /\ pc \in AfterTables /\ pc \in AfterCount
        /\ pc \in AfterDirectory /\ pc \in AfterPlace
    BY <1>1 DEF AfterPlace, AfterCount, AfterTables, AfterDirectory, AfterContents, AfterHeader,
              AfterFat, AfterMiniFat, AfterEntries
  <1> DEFINE first == header.firstDirectorySectorLocation
             chain == IF HasChain(fats, first) THEN Chain(fats, first) ELSE <<>>
             body(x) == SlotAt(chain[((x - 1) \div DirsPerSector) + 1], ((x - 1) % DirsPerSector) + 1)
             slots == [x \in 1 .. Len(chain) * DirsPerSector |-> body(x)]
  <1>3. \E x \in DOMAIN slots : ~IsEntry(slots[x])
    BY Zenon DEF ReadEntries, Refuse
  <1>4. chain = RunFrom(DirPos, DirSectors)
    <2>1. fats = image.fat /\ first = DirPos
      BY <1>2 DEF FatKnown, HeaderKnown
    <2>2. HasChain(image.fat, DirPos) /\ Chain(image.fat, DirPos) = RunFrom(DirPos, DirSectors)
      BY <1>2, FatChains4
    <2> HIDE DEF first
    <2> QED
      BY <2>1, <2>2
  <1> DEFINE N == DirSectors * DirsPerSector
  <1> HIDE DEF chain
  <1>5. Len(chain) = DirSectors
    <2>1. DirPos \in Nat /\ DirSectors \in Nat
      BY <1>2, FatPlaces
    <2> QED
      BY <1>4, <2>1, RunFacts
  <1>6. slots = [x \in 1 .. N |-> body(x)]
    BY <1>5
  <1>7. \A x \in 1 .. N : body(x) = SlotOf(dirs, x)
    BY <1>2, <1>4, SlotsBack
  <1>8. N \in Nat
    BY <1>2, FatPlaces, Geometry, Times
  <1> HIDE DEF body, slots, N
  <1>9. \A x \in DOMAIN slots : x \in 1 .. N /\ slots[x] = SlotOf(dirs, x)
    BY <1>6, <1>7
  <1>10. ASSUME NEW x \in 1 .. N PROVE IsEntry(SlotOf(dirs, x))
    <2>1. CASE x <= 11
      <3>1. x \in 1 .. 11 /\ SlotOf(dirs, x) = WriteEntry(dirs[x])
        BY <1>8, <2>1 DEF SlotOf
      <3>2. AllSettable
        <4>1. pc # "writer refused"
          BY <1>1
        <4> QED
          BY <4>1, Zenon DEF Settable
      <3>3. IsEntries(size, dirs)
        BY Zenon DEF Base
      <3>4. IsShortName(WideNames[x])
        BY <1>2, <3>1, NamesShort
      <3> QED
        BY <3>1, <3>2, <3>3, <3>4, EntryAccepted
    <2>2. CASE ~(x <= 11)
      BY <2>2, NoEntryAccepted DEF SlotOf
    <2> QED
      BY <2>1, <2>2
  <1> QED
    BY <1>3, <1>9, <1>10

LEMMA MiniDataNeverRefused ==
    ASSUME Base, Placed, Counted, Tabled, FatKnown, EntriesKnown, LoopIndex, LoadMiniData, Refuse
    PROVE  FALSE
  <1>1. pc \in AfterEntries /\ entries = dirs /\ next = 1 /\ pc = "streams"
    BY ReadRound
  <1>2. pc \in AfterCount /\ pc \in AfterTables /\ pc \in AfterFat /\ pc \in AfterPlace
    BY <1>1, LoadPhases DEF AfterPlace
  <1> DEFINE n == MiniSize * miniFatNum
             l == MiniDataSectors
             c == RunFrom(MiniDataPos, l)
  <1>3. entries[next].start = MiniDataPos /\ entries[next].size = n
    BY <1>1, <1>2 DEF Counted
  <1>4. fats = image.fat
    BY <1>2 DEF FatKnown
  <1>5. /\ HasChain(fats, MiniDataPos) /\ Chain(fats, MiniDataPos) = c
        /\ MiniDataPos \in Nat /\ l \in Nat
    BY <1>2, <1>4, FatChains4, FatPlaces
  <1>6. ~BlocksHold(c, SectorSize, n)
    <2>1. ~NextEntry
      BY <1>1, Zenon DEF Refuse, NextEntry
    <2> QED
      BY <1>3, <1>5, <2>1, Zenon DEF LoadMiniData
  <1>7. miniFatNum \in Nat /\ miniFatNum > 0 /\ size \in Documents /\ IsEntries(size, dirs)
    <2>1. size \in Documents /\ IsEntries(size, dirs)
      BY Zenon DEF Base
    <2>2. miniFatNum = Place(size, 6)
      BY <1>2 DEF Placed
    <2>3. Place(size, 6) \in Nat /\ Place(size, 6) > 0
      BY <2>1, PlaceFacts
    <2> QED
      BY <2>1, <2>2, <2>3
  <1>8. miniFatNum <= l * MinisPerSector
    BY <1>7, LayoutFacts
  <1>9. n <= l * SectorSize /\ n \in Nat
    <2> HIDE DEF l
    <2>1. l * MinisPerSector \in Nat
      BY <1>5, Geometry, Times
    <2>2. miniFatNum * MiniSize <= (l * MinisPerSector) * MiniSize
      BY <1>7, <1>8, <2>1, Geometry, Monotone
    <2>3. (l * MinisPerSector) * MiniSize = l * SectorSize
      BY <1>5, Geometry
    <2>4. miniFatNum * MiniSize = n /\ n \in Nat
      BY <1>7, Geometry, Times
    <2> QED
      BY <2>2, <2>3, <2>4
  <1> HIDE DEF n, l
  <1>10. Len(c) = l
    BY <1>5, RunFacts
  <1>11. l * SectorSize \in Nat
    BY <1>5, Geometry, Times
  <1> QED
    BY <1>6, <1>9, <1>10, <1>11 DEF BlocksHold

LEMMA ContentRefused ==
    ASSUME Base, Placed, Counted, Tabled, FatKnown, MiniFatKnown, EntriesKnown, LoopIndex,
           LoadContent, Refuse
    PROVE  SmallPackage
  <1>1. /\ pc \in AfterEntries /\ entries = dirs /\ next \in HasStream /\ pc = "streams"
    BY ReadRound
  <1>2. /\ pc \in AfterCount /\ pc \in AfterTables /\ pc \in AfterFat /\ pc \in AfterMiniFat
        /\ pc \in AfterPlace
    BY <1>1, LoadPhases DEF AfterPlace
  <1>3. fats = image.fat /\ miniFats = image.miniFat
    BY <1>2 DEF FatKnown, MiniFatKnown
  <1>4. size \in Documents /\ IsEntries(size, dirs)
    BY Zenon DEF Base
  <1> DEFINE e == dirs[next]
             t == IF ReadsMini(e) THEN miniFats ELSE fats
             block == IF ReadsMini(e) THEN MiniSize ELSE SectorSize
  <1>5. ~(HasChain(t, e.start) /\ BlocksHold(Chain(t, e.start), block, e.size))
    <2>1. ~NextEntry
      BY <1>1, Zenon DEF Refuse, NextEntry
    <2> QED
      BY <1>1, <2>1, Zenon DEF LoadContent
  <1>6. next = 2 \/ \E k \in 1 .. 5 : next = MiniAt[k]
    <2>1. MiniAt[1] = 4 /\ MiniAt[2] = 5 /\ MiniAt[3] = 7 /\ MiniAt[4] = 10 /\ MiniAt[5] = 11
      BY DEF MiniAt
    <2> QED
      BY <1>1, <2>1 DEF HasStream
  <1>7. ASSUME NEW k \in 1 .. 5, next = MiniAt[k] PROVE FALSE
    <2> DEFINE p == Place(size, k)
               l == MiniLengths(size)[k]
               n == MiniLength(k)
    <2>1. e.start = p /\ e.size = n /\ n < Cutoff
      BY <1>2, <1>7, AreaOf
    <2>2. /\ HasChain(miniFats, p) /\ Chain(miniFats, p) = RunFrom(p, l)
          /\ p \in Nat /\ l \in Nat /\ n <= l * MiniSize
      BY <1>2, <1>3, MiniChain
    <2>3. n \in Nat
      BY <1>2, Areas
    <2> HIDE DEF e, p, l, n
    <2>4. ReadsMini(e)
      BY <2>1, <2>2 DEF ReadsMini
    <2>5. ~BlocksHold(RunFrom(p, l), MiniSize, n)
      BY <1>5, <2>1, <2>2, <2>4, Zenon
    <2>6. Len(RunFrom(p, l)) = l /\ l * MiniSize \in Nat
      BY <2>2, RunFacts, Geometry, Times
    <2> QED
      BY <2>2, <2>3, <2>5, <2>6 DEF BlocksHold
  <1>8. ASSUME next = 2, ~SmallPackage PROVE FALSE
    <2> DEFINE p == PackagePos
               l == PackageSectors
               n == size[Package]
    <2>1. e.size = n /\ e.start = p
      BY <1>2, <1>8, AreaOf DEF Counted
    <2>2. n \in Nat /\ n > Cutoff
      BY <1>4, <1>8, DocumentFacts, Geometry DEF SmallPackage
    <2>3. /\ HasChain(fats, p) /\ Chain(fats, p) = RunFrom(p, l) /\ p \in Nat /\ l \in Nat
      BY <1>2, <1>3, FatChains4, FatPlaces
    <2>4. n <= l * SectorSize
      <3>1. miniFatNum = Place(size, 6)
        BY <1>2 DEF Placed
      <3>2. Place(size, 6) \in Nat /\ Place(size, 6) > 0
        BY <1>4, PlaceFacts
      <3> QED
        BY <1>4, <3>1, <3>2, LayoutFacts
    <2> HIDE DEF e, p, l, n
    <2>5. ~ReadsMini(e)
      BY <2>1, <2>2, Geometry DEF ReadsMini
    <2>6. ~BlocksHold(RunFrom(p, l), SectorSize, n)
      BY <1>5, <2>1, <2>3, <2>5, Zenon
    <2>7. Len(RunFrom(p, l)) = l /\ l * SectorSize \in Nat
      BY <2>3, RunFacts, Geometry, Times
    <2> QED
      BY <2>2, <2>4, <2>6, <2>7 DEF BlocksHold
  <1> QED
    BY <1>6, <1>7, <1>8

LEMMA RefusalStep ==
    ASSUME FileInv, Settable, ReaderRefusesOnly, [Next]_vars
    PROVE  ReaderRefusesOnly'
  <1> SUFFICES ASSUME Refuse PROVE ExactFit' \/ SmallPackage'
    BY Zenon DEF ReaderRefusesOnly, Refuse
  <1>1. /\ Base /\ Placed /\ Counted /\ Tabled /\ LoopIndex /\ Listed /\ HeaderKnown
        /\ FatKnown /\ MiniFatKnown /\ EntriesKnown
    BY DEF FileInv, WriterInv
  <1>2. CASE UNCHANGED vars
    <2>1. pc' = pc /\ difatSectorNum' = difatSectorNum /\ fatSectorNum' = fatSectorNum /\ size' = size
      BY <1>2 DEF vars, writer
    <2>2. ExactFit \/ SmallPackage
      BY <2>1, Zenon DEF ReaderRefusesOnly, Refuse
    <2> QED
      BY <2>1, <2>2 DEF ExactFit, SmallPackage
  <1>3. CASE ReadHeader \/ ReadFat \/ ReadMiniFat \/ ReadEntries \/ LoadMiniData \/ LoadContent
    <2>1. UNCHANGED writer
      BY <1>3, ReaderSteps
    <2>2. ExactFit \/ SmallPackage
      BY <1>1, <1>3, HeaderRefuses, FatNeverRefuses, MiniFatNeverRefuses, EntriesNeverRefuse,
         MiniDataNeverRefused, ContentRefused
    <2> QED
      BY <2>1, <2>2 DEF ExactFit, SmallPackage, writer
  <1> QED
    BY <1>2, <1>3, RefusedBy

\* CompoundFile throws at a file makeLayout wrote for two reasons only: the FAT
\* exactly fills the last DIFAT sector, which makeDifat leaves without an end, or
\* the package is not above the cutoff.  None of its other checks (the header's
\* fields, the entries' names, ids and types, the chains and their lengths) fails.
THEOREM ReaderAccepts == Spec => []ReaderRefusesOnly
  <1>1. Init => ReaderRefusesOnly
    <2> SUFFICES ASSUME Init PROVE pc # "reader refused"
      BY Zenon DEF ReaderRefusesOnly
    <2>1. pc \in {"ministreams", "writer refused"}
      BY Zenon DEF Init
    <2> QED
      BY <2>1, Zenon
  <1>2. FileInv /\ Settable /\ ReaderRefusesOnly /\ [Next]_vars => ReaderRefusesOnly'
    BY RefusalStep
  <1> QED
    BY <1>1, <1>2, FileInvAlways, SettableInit, SettableStep, PTL DEF Spec
-----------------------------------------------------------------------------
(* Ten rounds of detectSectorNum leave room *)

\* It rounds up no farther than it must.
LEMMA BlockNumLeast ==
    ASSUME NEW n \in Nat, NEW c \in Nat, NEW b \in Nat, b > 0, n <= c * b
    PROVE  BlockNum(n, b) <= c
  <1> SUFFICES ASSUME c < BlockNum(n, b) PROVE FALSE
    BY BlockNumFacts
  <1> DEFINE a == BlockNum(n, b)
  <1>1. n + b - 1 \in Nat /\ a = (n + b - 1) \div b
    BY DEF BlockNum
  <1>2. a \in Nat /\ (n + b - 1) % b \in Nat /\ n + b - 1 = (a * b) + ((n + b - 1) % b)
    BY <1>1, DivMod
  <1>3. c * b \in Nat /\ c * b + b <= a * b /\ a * b \in Nat
    BY <1>2, Times
  <1> HIDE DEF a
  <1> QED
    BY <1>2, <1>3

LEMMA BlockNumStep ==
    ASSUME NEW x \in Nat, NEW y \in Nat, NEW q \in Nat, NEW b \in Nat, b > 0,
           x <= y, y <= x + q * b
    PROVE  /\ BlockNum(x, b) <= BlockNum(y, b)
           /\ BlockNum(y, b) <= BlockNum(x, b) + q
  <1> DEFINE r == BlockNum(x, b)
             s == BlockNum(y, b)
  <1>1. /\ r \in Nat /\ s \in Nat /\ r * b \in Nat /\ s * b \in Nat
        /\ x <= r * b /\ y <= s * b
    BY BlockNumFacts
  <1>2. \A n \in Nat, c \in Nat : n <= c * b => BlockNum(n, b) <= c
    BY BlockNumLeast
  <1> HIDE DEF r, s
  <1>3. r <= s
    BY <1>1, <1>2 DEF r
  <1>4. r + q \in Nat /\ (r + q) * b = r * b + q * b
    BY <1>1
  <1>5. q * b \in Nat
    OBVIOUS
  <1>6. y <= (r + q) * b
    BY <1>1, <1>4, <1>5
  <1>7. s <= r + q
    BY <1>2, <1>4, <1>6 DEF s
  <1> QED
    BY <1>3, <1>7 DEF r, s

LEMMA DifatStep ==
    ASSUME NEW f \in Nat, NEW g \in Nat, NEW q \in Nat, f <= g, g <= f + q
    PROVE  DifatFor(f) <= DifatFor(g) /\ DifatFor(g) <= DifatFor(f) + q
  <1> DEFINE b == EntriesPerSector - 1
             u == f - HeaderSlots
             v == g - HeaderSlots
  <1>1. b \in Nat /\ b > 0 /\ u \in Int /\ v \in Int /\ u <= v /\ v <= u + q
    BY Entries
  <1>2. DifatFor(f) = (IF u <= 0 THEN 0 ELSE BlockNum(u, b)) /\ DifatFor(g) = (IF v <= 0 THEN 0 ELSE BlockNum(v, b))
    BY Entries DEF DifatFor
  <1>3. DifatFor(f) \in Nat /\ DifatFor(g) \in Nat
    BY DifatForFacts
  <1> HIDE DEF b, u, v
  <1>4. q * b \in Nat /\ q <= q * b
    <2>1. q * b \in Nat
      BY <1>1
    <2>2. 1 * q <= b * q
      <3>1. 1 < b \/ 1 = b
        BY <1>1
      <3>2. 1 < b => 1 * q + q <= b * q
        BY <1>1, Times
      <3> QED
        BY <1>1, <3>1, <3>2
    <2>3. b * q = q * b /\ 1 * q = q
      BY <1>1
    <2> QED
      BY <2>1, <2>2, <2>3
  <1>5. CASE v <= 0
    BY <1>1, <1>2, <1>5
  <1>6. CASE v > 0 /\ u <= 0
    <2>1. v \in Nat /\ 0 \in Nat /\ 0 <= v /\ v <= 0 + q * b
      BY <1>1, <1>4, <1>6
    <2>2. BlockNum(v, b) <= BlockNum(0, b) + q
      BY <1>1, <2>1, BlockNumStep
    <2>3. BlockNum(0, b) = 0
      <3>1. 0 \div b = 0 /\ (0 + b - 1) \div b = 0
        BY <1>1
      <3> QED
        BY <3>1 DEF BlockNum
    <2> QED
      BY <1>2, <1>3, <1>6, <2>2, <2>3
  <1>7. CASE u > 0
    <2>1. v \in Nat /\ u \in Nat /\ v <= u + q * b
      BY <1>1, <1>4, <1>7
    <2>2. BlockNum(u, b) <= BlockNum(v, b) /\ BlockNum(v, b) <= BlockNum(u, b) + q
      BY <1>1, <2>1, BlockNumStep
    <2>3. v > 0
      BY <1>1, <1>7
    <2> QED
      BY <1>1, <1>2, <1>7, <2>2, <2>3
  <1> QED
    BY <1>1, <1>5, <1>6, <1>7

\* The sectors a pair of counts takes for the two tables.
Total(p) == p.d + p.f

LEMMA HalfTimes ==
    ASSUME NEW b \in Nat, NEW K \in Nat, NEW e \in Nat, 2 * K <= b
    PROVE  2 * (e * K) <= e * b /\ e * b \in Nat /\ 2 * (e * K) \in Nat
  <1>1. 2 * (e * K) = (2 * K) * e
    OBVIOUS
  <1>2. (2 * K) * e <= b * e
    <2>1. 2 * K \in Nat
      OBVIOUS
    <2>2. 2 * K < b => (2 * K) * e + e <= b * e
      BY <2>1, Times
    <2>3. (2 * K) * e \in Nat /\ b * e \in Nat
      BY <2>1, Times
    <2> QED
      BY <2>1, <2>2, <2>3
  <1>3. b * e = e * b
    OBVIOUS
  <1>4. e * b \in Nat /\ (2 * K) * e \in Nat
    OBVIOUS
  <1> QED
    BY <1>1, <1>2, <1>3, <1>4

\* If a round moves the pair by no more than 2 * e * Half, the next moves each
\* count by no more than e.
LEMMA Narrows ==
    ASSUME NEW m \in Nat, NEW p, NEW q, IsPair(p), IsPair(q), NEW e \in Nat,
           Total(p) <= Total(q), Total(q) <= Total(p) + 2 * Farther(e)
    PROVE  /\ Round(p, m).f <= Round(q, m).f /\ Round(q, m).f <= Round(p, m).f + e
           /\ Round(p, m).d <= Round(q, m).d /\ Round(q, m).d <= Round(p, m).d + e
  <1> DEFINE b == EntriesPerSector
             K == EntriesPerSector \div 2
             x == p.d + p.f + m
             y == q.d + q.f + m
  <1>1. b \in Nat /\ b > 0 /\ K \in Nat /\ 2 * K <= b
    BY Entries
  <1>2. x \in Nat /\ y \in Nat /\ x <= y /\ y <= x + 2 * (e * K)
    BY <1>1 DEF Total, IsPair, Farther
  <1>3. Round(p, m).f = BlockNum(x, b) /\ Round(q, m).f = BlockNum(y, b)
    BY DEF Round, FatFor
  <1>4. /\ Round(p, m).d = DifatFor(Round(p, m).f) /\ Round(p, m).f \in Nat
        /\ Round(q, m).d = DifatFor(Round(q, m).f) /\ Round(q, m).f \in Nat
    BY RoundFacts DEF IsPair
  <1> HIDE DEF b, K, x, y
  <1>5. 2 * (e * K) <= e * b /\ e * b \in Nat /\ 2 * (e * K) \in Nat
    BY <1>1, HalfTimes
  <1>6. y <= x + e * b
    BY <1>2, <1>5
  <1>7. BlockNum(x, b) <= BlockNum(y, b) /\ BlockNum(y, b) <= BlockNum(x, b) + e
    BY <1>1, <1>2, <1>6, BlockNumStep
  <1>8. Round(p, m).f <= Round(q, m).f /\ Round(q, m).f <= Round(p, m).f + e
    BY <1>3, <1>7
  <1> QED
    BY <1>4, <1>8, DifatStep

\* So does the pair.
LEMMA NarrowsTotal ==
    ASSUME NEW m \in Nat, NEW p, NEW q, IsPair(p), IsPair(q), NEW e \in Nat,
           Total(p) <= Total(q), Total(q) <= Total(p) + 2 * Farther(e)
    PROVE  /\ Total(Round(p, m)) <= Total(Round(q, m))
           /\ Total(Round(q, m)) <= Total(Round(p, m)) + 2 * e
  <1> DEFINE a == Round(p, m)
             b == Round(q, m)
  <1>1. a.f <= b.f /\ b.f <= a.f + e /\ a.d <= b.d /\ b.d <= a.d + e
    BY Narrows
  <1>2. a.f \in Nat /\ b.f \in Nat /\ a.d \in Nat /\ b.d \in Nat
    BY RoundFacts DEF IsPair
  <1> HIDE DEF a, b
  <1>3. Total(a) <= Total(b) /\ Total(b) <= Total(a) + 2 * e
    BY <1>1, <1>2 DEF Total
  <1> QED
    BY <1>3 DEF a, b

\* A round leaves room for the pair before it, and takes no sector too many.
LEMMA RoundRoom ==
    ASSUME NEW m \in Nat, NEW p, IsPair(p)
    PROVE  /\ Total(p) + m <= Round(p, m).f * EntriesPerSector
           /\ \A c \in Nat : Total(p) + m <= c * EntriesPerSector => Round(p, m).f <= c
  <1> DEFINE x == p.d + p.f + m
  <1>1. x \in Nat /\ x = Total(p) + m
    BY DEF IsPair, Total
  <1>2. Round(p, m).f = BlockNum(x, EntriesPerSector)
    BY DEF Round, FatFor
  <1> HIDE DEF x
  <1>3. x <= BlockNum(x, EntriesPerSector) * EntriesPerSector
    BY <1>1, Entries, BlockNumFacts
  <1>4. \A c \in Nat : x <= c * EntriesPerSector => BlockNum(x, EntriesPerSector) <= c
    BY <1>1, Entries, BlockNumLeast
  <1> QED
    BY <1>1, <1>2, <1>3, <1>4

\* Two rounds after one that moves the pair by two at most, nothing changes.
LEMMA Settles ==
    ASSUME NEW m \in Nat, NEW p, IsPair(p), NEW q, q = Round(p, m), NEW r, r = Round(q, m),
           NEW s, s = Round(r, m), EntriesPerSector >= 4,
           Total(p) <= Total(q), Total(q) <= Total(p) + 2
    PROVE  s = r
  <1> DEFINE E == EntriesPerSector
  <1>1. IsPair(q) /\ IsPair(r) /\ IsPair(s)
    BY RoundFacts
  <1>2. E \in Nat /\ E >= 4 /\ 2 <= 2 * Farther(1)
    BY Entries DEF Farther
  <1> HIDE DEF E
  <1>3. /\ p.d \in Nat /\ p.f \in Nat /\ q.d \in Nat /\ q.f \in Nat /\ r.d \in Nat /\ r.f \in Nat
        /\ s.d \in Nat /\ s.f \in Nat
        /\ q.d = DifatFor(q.f) /\ r.d = DifatFor(r.f) /\ s.d = DifatFor(s.f)
    BY <1>1 DEF IsPair
  <1>4. /\ Total(p) = p.d + p.f /\ Total(q) = q.d + q.f /\ Total(r) = r.d + r.f
        /\ Total(s) = s.d + s.f
    BY DEF Total
  <1>5. Farther(1) \in Nat
    BY Entries DEF Farther
  <1>6. Total(q) <= Total(p) + 2 * Farther(1)
    BY <1>2, <1>3, <1>4, <1>5
  <1>7. q.f <= r.f /\ r.f <= q.f + 1 /\ q.d <= r.d /\ r.d <= q.d + 1
    BY <1>1, <1>6, Narrows
  <1>8. Total(q) <= Total(r) /\ Total(r) <= Total(q) + 2
    BY <1>3, <1>4, <1>7
  <1>9. Total(r) <= Total(q) + 2 * Farther(1)
    BY <1>2, <1>3, <1>4, <1>5, <1>8
  <1>10. r.f <= s.f
    BY <1>1, <1>8, <1>9, Narrows
  <1>11. /\ Total(p) + m <= q.f * E /\ Total(r) + m <= s.f * E
         /\ \A c \in Nat : Total(r) + m <= c * E => s.f <= c
    BY <1>1, RoundRoom DEF E
  <1>12. s.f = r.f \/ r.f # q.f
    <2> SUFFICES ASSUME r.f = q.f PROVE s.f = r.f
      OBVIOUS
    <2>1. r.d = q.d /\ Total(r) = Total(q)
      BY <1>3, <1>4
    <2>2. s.f = r.f
      <3>1. s.f = FatFor(r.d, r.f, m) /\ r.f = FatFor(q.d, q.f, m)
        BY DEF Round
      <3> QED
        BY <2>1, <3>1
    <2> QED
      BY <2>2
  <1>13. s.f = r.f \/ r.f # q.f + 1
    <2> SUFFICES ASSUME r.f = q.f + 1 PROVE s.f = r.f
      OBVIOUS
    <2>1. q.f * E \in Nat /\ (q.f + 1) * E = q.f * E + E
      BY <1>2, <1>3
    <2>2. Total(r) + m <= q.f * E + 4
      BY <1>3, <1>4, <1>8, <1>11, <2>1
    <2>3. Total(r) + m <= r.f * E
      BY <1>2, <1>3, <1>4, <2>1, <2>2
    <2>4. s.f = r.f
      BY <1>3, <1>10, <1>11, <2>3
    <2> QED
      BY <2>4
  <1>14. s.f = r.f
    BY <1>3, <1>7, <1>12, <1>13
  <1>15. s = [d |-> DifatFor(s.f), f |-> s.f] /\ r = [d |-> DifatFor(r.f), f |-> r.f]
    BY DEF Round
  <1> QED
    BY <1>14, <1>15

LEMMA FartherNat ==
    ASSUME NEW e \in Nat
    PROVE  Farther(e) \in Nat
  <1>1. EntriesPerSector \div 2 \in Nat
    BY Entries
  <1> QED
    BY <1>1 DEF Farther

\* The first round.
LEMMA FirstRound ==
    ASSUME NEW m \in Nat, NEW e \in Nat, m <= 2 * Farther(e), NEW p, p = [d |-> 0, f |-> 0]
    PROVE  Total(p) <= Total(Round(p, m)) /\ Total(Round(p, m)) <= Total(p) + 2 * e
  <1> DEFINE q == Round(p, m)
  <1>1. Farther(e) \in Nat
    BY FartherNat
  <1>2. DifatFor(0) = 0
    BY Entries, DifatForFacts
  <1>3. IsPair(p) /\ Total(p) = 0
    BY <1>2 DEF IsPair, Total
  <1>4. q.f \in Nat /\ q.d \in Nat /\ q.d = DifatFor(q.f)
    BY <1>3, RoundFacts DEF IsPair
  <1>5. q.f <= e
    <2>1. q.f = BlockNum(m, EntriesPerSector)
      BY DEF Round, FatFor
    <2>2. m <= e * EntriesPerSector
      <3>1. 2 * Farther(e) <= e * EntriesPerSector /\ e * EntriesPerSector \in Nat
        <4> DEFINE K == EntriesPerSector \div 2
                   b == EntriesPerSector
        <4>1. K \in Nat /\ b \in Nat /\ 2 * K <= b
          BY Entries
        <4>2. Farther(e) = e * K
          BY DEF Farther
        <4> HIDE DEF K, b
        <4>3. 2 * (e * K) <= e * b /\ e * b \in Nat
          BY <4>1, HalfTimes
        <4> QED
          BY <4>2, <4>3 DEF b
      <3> QED
        BY <1>1, <3>1
    <2> QED
      BY <2>1, <2>2, Entries, BlockNumLeast
  <1>6. q.d <= q.f
    BY <1>2, <1>4, DifatStep
  <1> HIDE DEF q
  <1>7. Total(q) = q.d + q.f
    BY DEF Total
  <1> QED
    BY <1>3, <1>4, <1>5, <1>6, <1>7 DEF q

\* A pair that settles leaves room for every sector.
LEMMA CountsFit ==
    ASSUME NEW m \in Nat, NEW p \in SectorCounts(m)
    PROVE  p.d + p.f + m <= p.f * EntriesPerSector
  <1>1. IsPair(p) /\ Round(p, m) = p
    BY SectorCountsFacts
  <1>2. Total(p) + m <= p.f * EntriesPerSector
    BY <1>1, RoundRoom
  <1> QED
    BY <1>2 DEF Total

\* detectSectorNum's loop settles on a pair, within ten rounds, for up to Reach
\* sectors: the exception that is built after ten rounds and not thrown would
\* have nothing to stop (make_dataspace.hpp:174).
THEOREM CountsSettle ==
    ASSUME NEW m \in Nat, m <= Reach
    PROVE  SectorCounts(m) # {}
  <1> DEFINE e1 == Farther(1)
             e2 == Farther(e1)
             e3 == Farther(e2)
             e4 == Farther(e3)
             e5 == Farther(e4)
             e6 == Farther(e5)
             e7 == Farther(e6)
  <1>1. e1 \in Nat /\ e2 \in Nat /\ e3 \in Nat /\ e4 \in Nat /\ e5 \in Nat /\ e6 \in Nat /\ e7 \in Nat
    BY FartherNat
  <1>2. m <= 2 * Farther(e7)
    BY DEF Reach
  <1>3. PICK C : TenRounds(C, m) /\ SectorCounts(m) = Fixed(C)
    BY SectorCountsUnfold
  <1> DEFINE Moves(c, e) == Total(C[c]) <= Total(C[c + 1]) /\ Total(C[c + 1]) <= Total(C[c]) + 2 * e
  <1>4. Moves(0, e7)
    BY <1>1, <1>2, <1>3, FirstRound DEF TenRounds
  <1>5. ASSUME NEW c \in 0 .. 8, NEW e \in Nat, Moves(c, Farther(e)) PROVE Moves(c + 1, e)
    <2>1. /\ IsPair(C[c]) /\ IsPair(C[c + 1])
          /\ C[c + 1] = Round(C[c], m) /\ C[(c + 1) + 1] = Round(C[c + 1], m)
      BY <1>3 DEF TenRounds
    <2>2. Total(C[c]) <= Total(C[c + 1]) /\ Total(C[c + 1]) <= Total(C[c]) + 2 * Farther(e)
      BY <1>5
    <2> QED
      BY <2>1, <2>2, NarrowsTotal
  <1> HIDE DEF Moves
  <1>6. Moves(7, 1)
    <2>1. Moves(1, e6)
      BY <1>1, <1>4, <1>5
    <2>2. Moves(2, e5)
      BY <1>1, <1>5, <2>1
    <2>3. Moves(3, e4)
      BY <1>1, <1>5, <2>2
    <2>4. Moves(4, e3)
      BY <1>1, <1>5, <2>3
    <2>5. Moves(5, e2)
      BY <1>1, <1>5, <2>4
    <2>6. Moves(6, e1)
      BY <1>1, <1>5, <2>5
    <2> QED
      BY <1>5, <2>6
  <1>7. Total(C[7]) <= Total(C[8]) /\ Total(C[8]) <= Total(C[7]) + 2
    BY <1>6 DEF Moves
  <1>8. C[8] = Round(C[7], m) /\ C[9] = Round(C[8], m) /\ C[10] = Round(C[9], m) /\ IsPair(C[7])
    <2>1. 7 \in 0 .. 9 /\ 8 \in 0 .. 9 /\ 9 \in 0 .. 9 /\ 7 + 1 = 8 /\ 8 + 1 = 9 /\ 9 + 1 = 10 /\ 7 \in 0 .. 10
      OBVIOUS
    <2> QED
      BY <1>3, <2>1 DEF TenRounds
  <1>9. EntriesPerSector >= 4
    BY ReachAssumption
  <1>10. C[10] = C[9]
    BY <1>7, <1>8, <1>9, Settles
  <1>11. 10 \in 1 .. 10 /\ 10 - 1 = 9
    OBVIOUS
  <1>12. C[10] \in Fixed(C)
    BY <1>10, <1>11 DEF Fixed
  <1> QED
    BY <1>3, <1>12
-----------------------------------------------------------------------------
(* What the writer refuses *)

\* The ids of the entries infoTbl names.
LEMMA IdsAre ==
    /\ Id("EncryptionInfo") = 10 /\ Id("DataSpaceMap") = 4 /\ Id("Version") = 3
    /\ Id("DataSpaceInfo") = 5 /\ Id("TransformInfo") = 7
    /\ Id("StrongEncryptionDataSpace") = 6 /\ Id("StrongEncryptionTransform") = 8
    /\ Id("~Primary") = 9 /\ Id("~DataSpaces") = 2 /\ Id(Package) = 1 /\ Id(Root) = 0
  <1>1. \A x \in 1 .. 11 : Id(DirNames[x]) = x - 1
    <2> SUFFICES ASSUME NEW x \in 1 .. 11 PROVE Id(DirNames[x]) = x - 1
      OBVIOUS
    <2>1. Id(DirNames[x]) + 1 = x /\ Id(DirNames[x]) \in Int
      BY IdOf, IdIsInt
    <2> QED
      BY <2>1
  <1>2. /\ Id(DirNames[1]) = 0 /\ Id(DirNames[2]) = 1 /\ Id(DirNames[3]) = 2 /\ Id(DirNames[4]) = 3
        /\ Id(DirNames[5]) = 4 /\ Id(DirNames[6]) = 5 /\ Id(DirNames[7]) = 6 /\ Id(DirNames[8]) = 7
        /\ Id(DirNames[9]) = 8 /\ Id(DirNames[10]) = 9 /\ Id(DirNames[11]) = 10
    BY <1>1
  <1> QED
    BY <1>2, DirNamesAre, Zenon DEF Package, Root

\* The entry with colour c, siblings l and r and child h.
Joins(record, c, l, r, h) ==
    /\ record.color = c /\ record.left = l /\ record.right = r /\ record.child = h

LEMMA InfoJoins ==
    ASSUME NEW t, NEW c, NEW l, NEW r, NEW h
    PROVE  Joins(Info(t, c, l, r, h), c, l, r, h)
  BY DEF Info, Joins

LEMMA InfoTblIs ==
    /\ Joins(InfoTbl[1], Red, NOSTREAM, NOSTREAM, 10)
    /\ Joins(InfoTbl[2], Red, NOSTREAM, NOSTREAM, NOSTREAM)
    /\ Joins(InfoTbl[3], Red, NOSTREAM, NOSTREAM, 4)
    /\ Joins(InfoTbl[4], Black, NOSTREAM, NOSTREAM, NOSTREAM)
    /\ Joins(InfoTbl[5], Black, 3, 5, NOSTREAM)
    /\ Joins(InfoTbl[6], Black, NOSTREAM, 7, 6)
    /\ Joins(InfoTbl[7], Black, NOSTREAM, NOSTREAM, NOSTREAM)
    /\ Joins(InfoTbl[8], Red, NOSTREAM, NOSTREAM, 8)
    /\ Joins(InfoTbl[9], Black, NOSTREAM, NOSTREAM, 9)
    /\ Joins(InfoTbl[10], Black, NOSTREAM, NOSTREAM, NOSTREAM)
    /\ Joins(InfoTbl[11], Black, 2, 1, NOSTREAM)
  <1>1. /\ InfoTbl[1] = Info(RootStorageObject, Red, NOSTREAM, NOSTREAM, Id("EncryptionInfo"))
        /\ InfoTbl[2] = Info(StreamObject, Red, NOSTREAM, NOSTREAM, NOSTREAM)
        /\ InfoTbl[3] = Info(StorageObject, Red, NOSTREAM, NOSTREAM, Id("DataSpaceMap"))
        /\ InfoTbl[4] = Info(StreamObject, Black, NOSTREAM, NOSTREAM, NOSTREAM)
        /\ InfoTbl[5] = Info(StreamObject, Black, Id("Version"), Id("DataSpaceInfo"), NOSTREAM)
        /\ InfoTbl[6] = Info(StorageObject, Black, NOSTREAM, Id("TransformInfo"),
                             Id("StrongEncryptionDataSpace"))
        /\ InfoTbl[7] = Info(StreamObject, Black, NOSTREAM, NOSTREAM, NOSTREAM)
        /\ InfoTbl[8] = Info(StorageObject, Red, NOSTREAM, NOSTREAM, Id("StrongEncryptionTransform"))
        /\ InfoTbl[9] = Info(StorageObject, Black, NOSTREAM, NOSTREAM, Id("~Primary"))
        /\ InfoTbl[10] = Info(StreamObject, Black, NOSTREAM, NOSTREAM, NOSTREAM)
        /\ InfoTbl[11] = Info(StreamObject, Black, Id("~DataSpaces"), Id(Package), NOSTREAM)
    BY DEF InfoTbl
  <1>2. /\ InfoTbl[1] = Info(RootStorageObject, Red, NOSTREAM, NOSTREAM, 10)
        /\ InfoTbl[3] = Info(StorageObject, Red, NOSTREAM, NOSTREAM, 4)
        /\ InfoTbl[5] = Info(StreamObject, Black, 3, 5, NOSTREAM)
        /\ InfoTbl[6] = Info(StorageObject, Black, NOSTREAM, 7, 6)
        /\ InfoTbl[8] = Info(StorageObject, Red, NOSTREAM, NOSTREAM, 8)
        /\ InfoTbl[9] = Info(StorageObject, Black, NOSTREAM, NOSTREAM, 9)
        /\ InfoTbl[11] = Info(StreamObject, Black, 2, 1, NOSTREAM)
    BY <1>1, IdsAre, Zenon
  <1> QED
    BY <1>1, <1>2, InfoJoins, Zenon

\* Every id of infoTbl is one that DirectoryEntry::set takes.
LEMMA IdsValid ==
    \A x \in 1 .. 11 : /\ IsValidId(InfoTbl[x].left) /\ IsValidId(InfoTbl[x].right)
                       /\ IsValidId(InfoTbl[x].child)
  <1>1. IsValidId(NOSTREAM) /\ \A i \in 0 .. 10 : IsValidId(i)
    BY DEF IsValidId
  <1> DEFINE Fine(t) == IsValidId(t.left) /\ IsValidId(t.right) /\ IsValidId(t.child)
  <1>2. ASSUME NEW t, NEW c, NEW l \in 0 .. 10 \cup {NOSTREAM}, NEW r \in 0 .. 10 \cup {NOSTREAM},
               NEW h \in 0 .. 10 \cup {NOSTREAM}, Joins(t, c, l, r, h)
        PROVE  Fine(t)
    BY <1>1, <1>2 DEF Joins
  <1>3. NOSTREAM \in 0 .. 10 \cup {NOSTREAM} /\ \A i \in 0 .. 10 : i \in 0 .. 10 \cup {NOSTREAM}
    OBVIOUS
  <1>4. /\ 1 \in 0 .. 10 /\ 2 \in 0 .. 10 /\ 3 \in 0 .. 10 /\ 4 \in 0 .. 10 /\ 5 \in 0 .. 10
        /\ 6 \in 0 .. 10 /\ 7 \in 0 .. 10 /\ 8 \in 0 .. 10 /\ 9 \in 0 .. 10 /\ 10 \in 0 .. 10
    OBVIOUS
  <1> HIDE DEF Fine
  <1>5. /\ Fine(InfoTbl[1]) /\ Fine(InfoTbl[2]) /\ Fine(InfoTbl[3]) /\ Fine(InfoTbl[4])
        /\ Fine(InfoTbl[5]) /\ Fine(InfoTbl[6]) /\ Fine(InfoTbl[7]) /\ Fine(InfoTbl[8])
        /\ Fine(InfoTbl[9]) /\ Fine(InfoTbl[10]) /\ Fine(InfoTbl[11])
    <2>1. Fine(InfoTbl[1]) /\ Fine(InfoTbl[2]) /\ Fine(InfoTbl[3]) /\ Fine(InfoTbl[4])
      BY <1>2, <1>3, <1>4, InfoTblIs
    <2>2. Fine(InfoTbl[5]) /\ Fine(InfoTbl[6]) /\ Fine(InfoTbl[7]) /\ Fine(InfoTbl[8])
      BY <1>2, <1>3, <1>4, InfoTblIs
    <2>3. Fine(InfoTbl[9]) /\ Fine(InfoTbl[10]) /\ Fine(InfoTbl[11])
      BY <1>2, <1>3, <1>4, InfoTblIs
    <2> QED
      BY <2>1, <2>2, <2>3
  <1> SUFFICES ASSUME NEW x \in 1 .. 11 PROVE Fine(InfoTbl[x])
    BY DEF Fine
  <1>6. \/ x = 1 \/ x = 2 \/ x = 3 \/ x = 4 \/ x = 5 \/ x = 6
        \/ x = 7 \/ x = 8 \/ x = 9 \/ x = 10 \/ x = 11
    OBVIOUS
  <1> QED
    BY <1>5, <1>6

\* The names are no longer than an entry has room for.
LEMMA NamesFit == \A x \in 1 .. 11 : Len(WideNames[x]) <= 31 /\ IsValidName(WideNames[x])
  <1> DEFINE L == <<10, 16, 11, 7, 12, 13, 25, 13, 25, 8, 14>>
  <1>1. \A x \in 1 .. 11 : L[x] <= 31
    OBVIOUS
  <1>2. \A x \in 1 .. 11 : Len(WideNames[x]) = L[x] /\ IsValidName(WideNames[x])
    BY NamesAssumption, DirNumIs
  <1> HIDE DEF L
  <1> QED
    BY <1>1, <1>2

LEMMA InitSettable ==
    Init => pc = "ministreams"
  <1> SUFFICES ASSUME Init PROVE pc = "ministreams"
    OBVIOUS
  <1>1. size \in Documents /\ dirs = MakeDataSpace(size)
    BY DEF Init
  <1>2. IsEntries(size, dirs)
    BY <1>1, MakeDataSpaceFacts
  <1>3. ASSUME NEW x \in 1 .. 11 PROVE IsSettable(dirs[x])
    <2>1. dirs[x].name = WideNames[x] /\ SameIds(dirs[x], InfoTbl[x])
      BY <1>2 DEF IsEntries
    <2> QED
      BY <2>1, NamesFit, IdsValid DEF IsSettable, MaxNameLength, SameIds
  <1>4. pc = IF \A x \in 1 .. DirNum : IsSettable(dirs[x]) THEN "ministreams" ELSE "writer refused"
    BY Zenon DEF Init
  <1> QED
    BY <1>3, <1>4, DirNumIs, Zenon

\* The five small streams share the one sector of the mini FAT.
LEMMA MiniRoom ==
    ASSUME NEW z \in Documents
    PROVE  Place(z, 6) <= EntriesPerSector
  <1>1. PICK info \in InfoSizes, package \in PackageSizes :
            z = [s \in Streams |-> CASE s = Package -> package
                                     [] s = "EncryptionInfo" -> info
                                     [] OTHER -> FixedSizes[s]]
    BY DEF Documents
  <1> DEFINE L == MiniLengths(z)
  <1>2. /\ MiniStreams[1] = "Version" /\ MiniStreams[2] = "DataSpaceMap"
        /\ MiniStreams[3] = "StrongEncryptionDataSpace" /\ MiniStreams[4] = "~Primary"
        /\ MiniStreams[5] = "EncryptionInfo"
    BY DEF MiniStreams
  <1>3. \A k \in 1 .. 5 : MiniStreams[k] \in Streams
    BY MiniStreamsAre DEF Streams
  <1>4. /\ z["Version"] = FixedSizes["Version"] /\ z["DataSpaceMap"] = FixedSizes["DataSpaceMap"]
        /\ z["StrongEncryptionDataSpace"] = FixedSizes["StrongEncryptionDataSpace"]
        /\ z["~Primary"] = FixedSizes["~Primary"] /\ z["EncryptionInfo"] = info
    <2>1. /\ "Version" \in Streams /\ "DataSpaceMap" \in Streams /\ "EncryptionInfo" \in Streams
          /\ "StrongEncryptionDataSpace" \in Streams /\ "~Primary" \in Streams
      BY <1>2, <1>3
    <2>2. \A s \in Streams : s # Package /\ s # "EncryptionInfo" => z[s] = FixedSizes[s]
      BY <1>1, Zenon
    <2>3. "EncryptionInfo" # Package => z["EncryptionInfo"] = info
      BY <1>1, <2>1, Zenon
    <2> QED
      BY <2>1, <2>2, <2>3 DEF Package
  <1>5. /\ L[1] = BlockNum(FixedSizes["Version"], MiniSize)
        /\ L[2] = BlockNum(FixedSizes["DataSpaceMap"], MiniSize)
        /\ L[3] = BlockNum(FixedSizes["StrongEncryptionDataSpace"], MiniSize)
        /\ L[4] = BlockNum(FixedSizes["~Primary"], MiniSize)
        /\ L[5] = BlockNum(info, MiniSize)
    <2>1. \A k \in 1 .. 5 : L[k] = BlockNum(z[MiniStreams[k]], MiniSize)
      BY DEF MiniLengths
    <2> HIDE DEF L
    <2>2. 1 \in 1 .. 5 /\ 2 \in 1 .. 5 /\ 3 \in 1 .. 5 /\ 4 \in 1 .. 5 /\ 5 \in 1 .. 5
      OBVIOUS
    <2> QED
      BY <1>2, <1>4, <2>1, <2>2, Zenon
  <1> HIDE DEF L
  <1>6. L[1] + L[2] + L[3] + L[4] + L[5] <= EntriesPerSector
    BY <1>5, MiniFatAssumption, Entries DEF NumMiniFatSectors
  <1>7. \A k \in 1 .. 5 : L[k] \in Nat
    BY MiniLengthsFacts DEF L, IsLengths
  <1> DEFINE P(k) == Place(z, k)
  <1>8. P(1) = 0 /\ \A k \in 1 .. 5 : P(k + 1) = P(k) + L[k]
    BY PlaceFacts DEF L
  <1> HIDE DEF P
  <1>9. P(2) = L[1] /\ P(3) = P(2) + L[2] /\ P(4) = P(3) + L[3] /\ P(5) = P(4) + L[4]
        /\ P(6) = P(5) + L[5]
    <2>1. /\ 1 \in 1 .. 5 /\ 2 \in 1 .. 5 /\ 3 \in 1 .. 5 /\ 4 \in 1 .. 5 /\ 5 \in 1 .. 5
          /\ 1 + 1 = 2 /\ 2 + 1 = 3 /\ 3 + 1 = 4 /\ 4 + 1 = 5 /\ 5 + 1 = 6
      OBVIOUS
    <2> QED
      BY <1>7, <1>8, <2>1
  <1>10. P(6) <= EntriesPerSector
    <2>1. L[1] \in Nat /\ L[2] \in Nat /\ L[3] \in Nat /\ L[4] \in Nat /\ L[5] \in Nat
      BY <1>7
    <2> QED
      BY <1>6, <1>9, <2>1
  <1> QED
    BY <1>10 DEF P

\* How many sectors the mini stream takes at most.
LEMMA FewMiniSectors ==
    ASSUME NEW n \in Nat, n <= EntriesPerSector
    PROVE  /\ BlockNum(n, MinisPerSector) \in Nat /\ BlockNum(n, MinisPerSector) <= EntriesPerSector
           /\ BlockNum(BlockNum(n, MinisPerSector), EntriesPerSector) <= 1
  <1> DEFINE a == BlockNum(n, MinisPerSector)
  <1>0. MinisPerSector \in Nat /\ MinisPerSector > 0 /\ EntriesPerSector \in Nat /\ EntriesPerSector > 0
    BY Geometry, Entries
  <1>1. n <= n * MinisPerSector
    <2>1. 1 * n <= MinisPerSector * n
      BY <1>0, Times
    <2> QED
      BY <1>0, <2>1
  <1>2. a <= n
    BY <1>0, <1>1, BlockNumLeast
  <1>3. a \in Nat
    <2>1. CASE n > 0
      BY <1>0, <2>1, BlockNumFacts
    <2>2. CASE n = 0
      BY <1>0, <2>2, BlockNumFacts
    <2> QED
      BY <2>1, <2>2
  <1> HIDE DEF a
  <1>4. a <= 1 * EntriesPerSector
    BY <1>0, <1>2, <1>3
  <1>5. BlockNum(a, EntriesPerSector) <= 1
    BY <1>0, <1>3, <1>4, BlockNumLeast
  <1> QED
    BY <1>0, <1>2, <1>3, <1>5 DEF a

\* The counts leave room for every sector of the file.
Roomy ==
    /\ pc # "writer refused"
    /\ pc \in AfterCount => AllSectors <= fatSectorNum * EntriesPerSector

LEMMA PlacingFits ==
    ASSUME Base, PlaceMiniStreams
    PROVE  pc' = "layout"
  <1>1. MiniPos[Len(MiniStreams) + 1] = Place(size, 6)
    <2>1. Len(MiniStreams) + 1 = 6 /\ 6 \in 1 .. 6
      BY MiniStreamsAre
    <2>2. \A k \in 1 .. 6 : MiniPos[k] = Place(size, k)
      BY MiniPosFacts DEF Base
    <2> QED
      BY <2>1, <2>2
  <1>2. Place(size, 6) \in Nat /\ Place(size, 6) <= EntriesPerSector
    <2>1. size \in Documents
      BY DEF Base
    <2>2. \A k \in 1 .. 6 : Place(size, k) \in Nat
      BY <2>1, PlaceFacts
    <2>3. 6 \in 1 .. 6
      OBVIOUS
    <2> QED
      BY <2>1, <2>2, <2>3, MiniRoom
  <1>3. pc' = IF BlockNum(BlockNum(Place(size, 6), MinisPerSector), EntriesPerSector) > NumMiniFatSectors
              THEN "writer refused" ELSE "layout"
    BY <1>1, Zenon DEF PlaceMiniStreams
  <1> DEFINE a == BlockNum(Place(size, 6), MinisPerSector)
             b == BlockNum(a, EntriesPerSector)
  <1>4. b <= 1 /\ b \in Int
    <2>1. a \in Nat /\ b <= 1
      BY <1>2, FewMiniSectors
    <2> HIDE DEF a
    <2>2. EntriesPerSector \in Nat /\ EntriesPerSector > 0
      BY Entries
    <2>3. b \in Nat
      BY <2>1, <2>2, BlockNumFacts, Zenon
    <2> QED
      BY <2>1, <2>3
  <1> HIDE DEF a, b
  <1>5. ~(b > NumMiniFatSectors)
    BY <1>4 DEF NumMiniFatSectors
  <1> QED
    BY <1>3, <1>5, Zenon DEF a, b

\* What there is to count stays within Reach sectors.
LEMMA ContentReach ==
    ASSUME Base, Placed, pc = "layout"
    PROVE  ContentSectors \in Nat /\ ContentSectors <= Reach
  <1>1. pc \in AfterPlace
    BY DEF AfterPlace, AfterCount
  <1>2. size \in Documents /\ IsEntries(size, dirs)
    BY DEF Base
  <1>3. miniFatNum \in Nat /\ miniFatNum > 0 /\ miniFatNum <= EntriesPerSector
    <2>1. miniFatNum = Place(size, 6)
      BY <1>1 DEF Placed
    <2>2. (\A k \in 1 .. 6 : Place(size, k) \in Nat) /\ Place(size, 6) > 0 /\ 6 \in 1 .. 6
      BY <1>2, PlaceFacts
    <2>3. Place(size, 6) <= EntriesPerSector
      BY <1>2, MiniRoom
    <2> QED
      BY <2>1, <2>2, <2>3
  <1>4. /\ DirSectors \in Nat /\ MiniDataSectors \in Nat /\ PackageSectors \in Nat
        /\ ContentSectors = 1 + DirSectors + MiniDataSectors + PackageSectors
        /\ ContentSectors \in Nat
    BY <1>2, <1>3, LayoutFacts
  <1>5. MiniDataSectors <= EntriesPerSector
    BY <1>3, FewMiniSectors DEF MiniDataSectors
  <1>6. ContentSectors <= Reach
    <2>1. PICK package \in PackageSizes : size[Package] = package
      <3>1. PICK info \in InfoSizes, package \in PackageSizes :
               size = [s \in Streams |-> CASE s = Package -> package
                                           [] s = "EncryptionInfo" -> info
                                           [] OTHER -> FixedSizes[s]]
        BY <1>2 DEF Documents
      <3>2. Package \in Streams /\ Package # "EncryptionInfo"
        BY DEF Streams, Package
      <3>3. size[Package] = package
        BY <3>1, <3>2
      <3> QED
        BY <3>3
    <2>2. PackageSectors = BlockNum(package, SectorSize)
      BY <1>2, <2>1, EntrySizes
    <2>3. DirSectors = BlockNum(DirNum, DirsPerSector)
      BY DEF DirSectors
    <2>4. 1 + DirSectors + EntriesPerSector + PackageSectors <= Reach
      BY <2>2, <2>3, ReachAssumption DEF NumMiniFatSectors
    <2>5. Reach \in Int /\ EntriesPerSector \in Nat
      <3>1. Farther(1) \in Nat
        BY FartherNat
      <3> DEFINE a == Farther(1)
      <3>2. Farther(Farther(Farther(a))) \in Nat
        BY <3>1, FartherNat
      <3> DEFINE b == Farther(Farther(Farther(a)))
      <3>3. Farther(Farther(Farther(Farther(b)))) \in Nat
        <4> HIDE DEF b
        <4>1. b \in Nat
          BY <3>2 DEF b
        <4> QED
          BY <4>1, FartherNat
      <3>4. Reach = 2 * Farther(Farther(Farther(Farther(b))))
        BY DEF Reach
      <3> HIDE DEF a, b
      <3> QED
        BY <3>3, <3>4, Entries
    <2> QED
      BY <1>4, <1>5, <2>4, <2>5
  <1> QED
    BY <1>4, <1>6

LEMMA CountingFits ==
    ASSUME Base, Placed, CountSectors
    PROVE  AllSectors' <= fatSectorNum' * EntriesPerSector
  <1>1. size' = size /\ miniFatNum' = miniFatNum /\ pc = "layout"
    BY WriterSteps DEF CountSectors
  <1>2. size \in Documents /\ IsEntries(size, dirs)
    BY DEF Base
  <1>3. ContentSectors \in Nat
    BY <1>1, ContentReach
  <1>4. PICK c \in SectorCounts(ContentSectors) : difatSectorNum' = c.d /\ fatSectorNum' = c.f
    BY Zenon DEF CountSectors
  <1>8. difatSectorNum' + fatSectorNum' + ContentSectors <= fatSectorNum' * EntriesPerSector
    BY <1>3, <1>4, CountsFit
  <1>10. ContentSectors' = ContentSectors
    <2>1. /\ IsEntries(size', dirs') /\ size' = size /\ miniFatNum' = miniFatNum
      BY CountDone
    <2>2. MiniDataSectors' = MiniDataSectors
      BY <2>1 DEF MiniDataSectors
    <2>3. PackageSectors' = PackageSectors
      <3>1. Entry(Package) = dirs[2] /\ Entry(Package)' = dirs'[2]
        BY StreamsAre DEF Entry
      <3>2. dirs[2].size = dirs'[2].size
        BY <1>2, <2>1 DEF IsEntries
      <3> QED
        BY <3>1, <3>2 DEF PackageSectors
    <2> QED
      BY <2>2, <2>3 DEF ContentSectors
  <1> QED
    BY <1>8, <1>10 DEF AllSectors

LEMMA WritingFits ==
    ASSUME Base, Placed, Counted, Roomy, WriteTables
    PROVE  pc' = "directory"
  <1>1. pc \in AfterCount /\ AllSectors <= fatSectorNum * EntriesPerSector
    BY WriterSteps DEF AfterCount, Roomy
  <1>2. size \in Documents /\ IsEntries(size, dirs)
    BY DEF Base
  <1>3. ~Overflows(TableMarkers, FatLengths, fatSectorNum * EntriesPerSector)
    <2>1. difatSectorNum \in Nat /\ fatSectorNum \in Nat
      BY <1>1 DEF Counted
    <2>2. Len(TableMarkers) = MiniFatPos
      BY <1>1, <2>1, FatPlaces, MarkersAre
    <2>3. Len(FatLengths) = 4 /\ ChainBegin(MiniFatPos, FatLengths)[4 + 1] = AllSectors /\ AllSectors \in Nat
      BY <1>1, FatBegins, FatPlaces DEF IsLengths
    <2>4. fatSectorNum * EntriesPerSector \in Nat
      BY <2>1, Entries
    <2>5. ~(AllSectors > fatSectorNum * EntriesPerSector)
      BY <1>1, <2>3, <2>4
    <2> QED
      BY <2>2, <2>3, <2>5, Zenon DEF Overflows
  <1>4. ~Overflows(<<>>, MiniFatLengths, NumMiniFatSectors * EntriesPerSector)
    <2> DEFINE L == MiniLengths(size)
    <2>1. MiniFatLengths = L /\ Len(L) = 5
      BY <1>2, EntrySizes, MiniLengthsFacts DEF IsLengths
    <2>2. Place(size, 6) = ChainBegin(0, L)[6]
      BY DEF Place
    <2>3. Place(size, 6) <= EntriesPerSector /\ Place(size, 6) \in Nat
      <3>1. \A k \in 1 .. 6 : Place(size, k) \in Nat
        BY <1>2, PlaceFacts
      <3>2. 6 \in 1 .. 6
        OBVIOUS
      <3> QED
        BY <1>2, <3>1, <3>2, MiniRoom
    <2> HIDE DEF L
    <2>4. NumMiniFatSectors * EntriesPerSector = EntriesPerSector
      BY Entries DEF NumMiniFatSectors
    <2>5. Len(<<>>) = 0 /\ 5 + 1 = 6
      OBVIOUS
    <2>6. ~(Place(size, 6) > EntriesPerSector)
      BY <2>3, Entries
    <2> QED
      BY <2>1, <2>2, <2>4, <2>5, <2>6, Zenon DEF Overflows
  <1> QED
    BY <1>3, <1>4, Zenon DEF WriteTables

LEMMA RoomyStep ==
    ASSUME Base, Placed, Counted, Roomy, [Next]_vars
    PROVE  Roomy'
  <1>1. pc' # "writer refused"
    <2>1. CASE PlaceMiniStreams
      BY <2>1, PlacingFits
    <2>2. CASE WriteTables
      BY <2>2, WritingFits
    <2>3. CASE ~PlaceMiniStreams /\ ~WriteTables
      BY <2>3, WriterSteps, ReaderSteps DEF Next, vars, Roomy
    <2> QED
      BY <2>1, <2>2, <2>3
  <1>2. ASSUME pc' \in AfterCount PROVE AllSectors' <= fatSectorNum' * EntriesPerSector
    <2>1. CASE CountSectors
      BY <2>1, CountingFits
    <2>2. CASE ~CountSectors
      <3>1. pc \in AfterCount /\ UNCHANGED writer
        BY <1>2, <2>2, Flow
      <3>2. AllSectors' = AllSectors /\ fatSectorNum' = fatSectorNum
        BY <3>1, LayoutStays DEF writer
      <3> QED
        BY <3>1, <3>2 DEF Roomy
    <2> QED
      BY <2>1, <2>2
  <1> QED
    BY <1>1, <1>2 DEF Roomy

\* What detectSectorNum is given to count with settles.
CountSettles == pc = "layout" => SectorCounts(ContentSectors) # {}

\* makeLayout never gives up (an entry that set refuses, a mini FAT of more than
\* one sector, err1 or err2 of makeFat) and never stays in detectSectorNum's loop,
\* and CompoundFile refuses what it wrote for an exact DIFAT or a package not above
\* the cutoff only.
THEOREM RefusesNothingElse == Spec => [](RefusesOnly /\ CountSettles)
  <1>1. Init => Roomy
    <2> SUFFICES ASSUME Init PROVE Roomy
      OBVIOUS
    <2>1. pc = "ministreams"
      BY InitSettable
    <2> QED
      BY <2>1 DEF Roomy, AfterCount, AfterTables, AfterDirectory, AfterContents, AfterHeader,
                  AfterFat, AfterMiniFat, AfterEntries
  <1>2. WriterInv /\ Roomy /\ [Next]_vars => Roomy'
    BY RoomyStep DEF WriterInv
  <1>3. Roomy /\ ReaderRefusesOnly => RefusesOnly
    BY DEF Roomy, RefusesOnly
  <1>4. FileInv => WriterInv
    BY DEF FileInv
  <1>5. WriterInv => CountSettles
    <2> SUFFICES ASSUME WriterInv, pc = "layout" PROVE SectorCounts(ContentSectors) # {}
      BY DEF CountSettles
    <2>1. Base /\ Placed
      BY DEF WriterInv
    <2> QED
      BY <2>1, ContentReach, CountsSettle
  <1> QED
    BY <1>1, <1>2, <1>3, <1>4, <1>5, FileInvAlways, ReaderAccepts, PTL DEF Spec
-----------------------------------------------------------------------------
(* The directory as a tree *)

\* The entries' ids, and no entry.
Ids == {NOSTREAM} \cup (0 .. DirNum)

\* Where the look-up goes on from the entry e.
Turn(name, e) == IF Precedes(name, e.name) THEN e.left ELSE e.right

\* The function that LookUp chooses, for at most n steps.
LooksUp(c, name, n) ==
    c = [steps \in 0 .. n |->
            [id \in Ids |->
                IF id + 1 \notin DOMAIN entries \/ steps = 0 THEN NOSTREAM
                ELSE IF entries[id + 1].name = name THEN id
                     ELSE c[steps - 1][Turn(name, entries[id + 1])]]]

LEMMA LookUpUnfolds ==
    ASSUME NEW name
    PROVE  \E c : LooksUp(c, name, 11) /\ \A from : LookUp(from, name) = c[11][from]
  <1> DEFINE Row(c, steps) ==
                [id \in Ids |->
                    IF id + 1 \notin DOMAIN entries \/ steps = 0 THEN NOSTREAM
                    ELSE IF entries[id + 1].name = name THEN id
                         ELSE c[steps - 1][Turn(name, entries[id + 1])]]
             S == {n \in Nat : \E c : c = [steps \in 0 .. n |-> Row(c, steps)]}
  <1>1. ASSUME NEW c, NEW d, NEW steps, steps = 0 \/ c[steps - 1] = d[steps - 1]
        PROVE  Row(c, steps) = Row(d, steps)
    BY <1>1
  <1>2. \A c, n : LooksUp(c, name, n) <=> c = [steps \in 0 .. n |-> Row(c, steps)]
    BY DEF LooksUp
  <1>3. \A from : LookUp(from, name) =
            (CHOOSE c : c = [steps \in 0 .. 11 |-> Row(c, steps)])[11][from]
    BY DirNumIs DEF LookUp, Ids, Turn
  <1> HIDE DEF Row
  <1>4. 0 \in S
    <2> DEFINE c == [steps \in 0 .. 0 |-> Row(<<>>, 0)]
    <2>1. \A steps \in 0 .. 0 : steps = 0 /\ c[steps] = Row(<<>>, 0)
      OBVIOUS
    <2>2. c = [steps \in 0 .. 0 |-> c[steps]]
      OBVIOUS
    <2> HIDE DEF c
    <2>3. \A steps \in 0 .. 0 : c[steps] = Row(c, steps)
      BY <1>1, <2>1
    <2>4. c = [steps \in 0 .. 0 |-> Row(c, steps)]
      BY <2>2, <2>3
    <2> QED
      BY <2>4
  <1>5. ASSUME NEW n \in Nat, n \in S PROVE n + 1 \in S
    <2>1. PICK c : c = [steps \in 0 .. n |-> Row(c, steps)]
      BY <1>5
    <2> DEFINE d == [steps \in 0 .. n + 1 |-> Row(c, steps)]
    <2>2. \A steps \in 0 .. n + 1 : d[steps] = Row(c, steps)
      OBVIOUS
    <2>3. d = [steps \in 0 .. n + 1 |-> d[steps]]
      OBVIOUS
    <2>4. \A steps \in 0 .. n : c[steps] = Row(c, steps)
      BY <2>1
    <2> HIDE DEF d
    <2>5. \A steps \in 0 .. n + 1 : steps = 0 \/ steps - 1 \in 0 .. n
      OBVIOUS
    <2>6. \A steps \in 0 .. n : steps \in 0 .. n + 1
      OBVIOUS
    <2>7. \A steps \in 0 .. n + 1 : steps = 0 \/ c[steps - 1] = d[steps - 1]
      BY <2>2, <2>4, <2>5, <2>6
    <2>8. \A steps \in 0 .. n + 1 : d[steps] = Row(d, steps)
      BY <1>1, <2>2, <2>7
    <2>9. d = [steps \in 0 .. n + 1 |-> Row(d, steps)]
      BY <2>3, <2>8
    <2> QED
      BY <2>9
  <1>6. 11 \in S
    <2> HIDE DEF S
    <2>1. Nat \subseteq S
      BY <1>4, <1>5, NatSetInduction
    <2> QED
      BY <2>1
  <1>7. PICK c : c = [steps \in 0 .. 11 |-> Row(c, steps)]
    BY <1>6
  <1> DEFINE C == CHOOSE d : d = [steps \in 0 .. 11 |-> Row(d, steps)]
  <1>8. C = [steps \in 0 .. 11 |-> Row(C, steps)]
    BY <1>7
  <1>9. \A from : LookUp(from, name) = C[11][from]
    BY <1>3
  <1> HIDE DEF C
  <1> QED
    BY <1>2, <1>8, <1>9

\* Where the look-up of the entry y's name turns to at the entry x.
TurnAt(x, y) == IF Precedes(WideNames[y], WideNames[x]) THEN InfoTbl[x].left ELSE InfoTbl[x].right

\* A step of the look-up.
LEMMA LookUpStep ==
    ASSUME Base, entries = dirs, NEW y \in 1 .. 11, NEW c, LooksUp(c, WideNames[y], 11),
           NEW steps \in 1 .. 11
    PROVE  /\ c[steps][y - 1] = y - 1
           /\ \A x \in 1 .. 11 : x # y => c[steps][x - 1] = c[steps - 1][TurnAt(x, y)]
  <1>1. /\ DOMAIN entries = 1 .. 11
        /\ \A x \in 1 .. 11 : entries[x].name = WideNames[x] /\ SameIds(entries[x], InfoTbl[x])
    BY DEF Base, IsEntries
  <1>2. ASSUME NEW x \in 1 .. 11
        PROVE  c[steps][x - 1] = IF WideNames[x] = WideNames[y] THEN x - 1
                                 ELSE c[steps - 1][TurnAt(x, y)]
    <2> DEFINE id == x - 1
    <2>1. id \in Ids /\ id + 1 = x
      BY DirNumIs DEF Ids
    <2>2. steps \in 0 .. 11 /\ steps # 0
      OBVIOUS
    <2>3. Turn(WideNames[y], entries[x]) = TurnAt(x, y)
      BY <1>1 DEF Turn, TurnAt, SameIds
    <2> HIDE DEF id
    <2>4. c[steps] = [i \in Ids |->
                IF i + 1 \notin DOMAIN entries \/ steps = 0 THEN NOSTREAM
                ELSE IF entries[i + 1].name = WideNames[y] THEN i
                     ELSE c[steps - 1][Turn(WideNames[y], entries[i + 1])]]
      BY <2>2 DEF LooksUp
    <2>5. c[steps][id] =
                IF id + 1 \notin DOMAIN entries \/ steps = 0 THEN NOSTREAM
                ELSE IF entries[id + 1].name = WideNames[y] THEN id
                     ELSE c[steps - 1][Turn(WideNames[y], entries[id + 1])]
      BY <2>1, <2>4
    <2>6. c[steps][id] = IF WideNames[x] = WideNames[y] THEN id ELSE c[steps - 1][TurnAt(x, y)]
      BY <1>1, <2>1, <2>2, <2>3, <2>5
    <2> QED
      BY <2>6 DEF id
  <1>3. \A x \in 1 .. 11 : WideNames[x] = WideNames[y] => x = y
    BY NamesAssumption, DirNumIs
  <1> QED
    BY <1>2, <1>3

\* A name is found at its own entry, and behind one turn, and behind two.
LEMMA FoundBehind ==
    ASSUME Base, entries = dirs, NEW y \in 1 .. 11
    PROVE  /\ LookUp(y - 1, WideNames[y]) = y - 1
           /\ \A x \in 1 .. 11 : TurnAt(x, y) = y - 1 => LookUp(x - 1, WideNames[y]) = y - 1
           /\ \A x, z \in 1 .. 11 : TurnAt(x, y) = z - 1 /\ TurnAt(z, y) = y - 1
                                    => LookUp(x - 1, WideNames[y]) = y - 1
  <1>1. PICK c : /\ LooksUp(c, WideNames[y], 11)
                 /\ \A from : LookUp(from, WideNames[y]) = c[11][from]
    BY LookUpUnfolds
  <1>2. \A steps \in 1 .. 11 :
          /\ c[steps][y - 1] = y - 1
          /\ \A x \in 1 .. 11 : x # y => c[steps][x - 1] = c[steps - 1][TurnAt(x, y)]
    <2> SUFFICES ASSUME NEW steps \in 1 .. 11
                 PROVE  /\ c[steps][y - 1] = y - 1
                        /\ \A x \in 1 .. 11 : x # y => c[steps][x - 1] = c[steps - 1][TurnAt(x, y)]
      OBVIOUS
    <2>1. LooksUp(c, WideNames[y], 11)
      BY <1>1
    <2> QED
      BY <2>1, LookUpStep
  <1>3. 11 \in 1 .. 11 /\ 10 \in 1 .. 11 /\ 9 \in 1 .. 11 /\ 11 - 1 = 10 /\ 10 - 1 = 9
    OBVIOUS
  <1>4. c[11][y - 1] = y - 1 /\ c[10][y - 1] = y - 1 /\ c[9][y - 1] = y - 1
    BY <1>2, <1>3
  <1>5. \A x \in 1 .. 11 : x # y => /\ c[11][x - 1] = c[10][TurnAt(x, y)]
                                    /\ c[10][x - 1] = c[9][TurnAt(x, y)]
    BY <1>2, <1>3
  <1>6. ASSUME NEW x \in 1 .. 11, TurnAt(x, y) = y - 1
        PROVE  c[11][x - 1] = y - 1 /\ c[10][x - 1] = y - 1
    <2>1. CASE x = y
      BY <1>4, <2>1
    <2>2. CASE x # y
      BY <1>4, <1>5, <1>6, <2>2
    <2> QED
      BY <2>1, <2>2
  <1>7. ASSUME NEW x \in 1 .. 11, NEW z \in 1 .. 11, TurnAt(x, y) = z - 1, TurnAt(z, y) = y - 1
        PROVE  c[11][x - 1] = y - 1
    <2>1. CASE x = y
      BY <1>4, <2>1
    <2>2. CASE x # y
      BY <1>5, <1>6, <1>7, <2>2
    <2> QED
      BY <2>1, <2>2
  <1> QED
    BY <1>1, <1>4, <1>6, <1>7

LEMMA NameLengths ==
    /\ Len(WideNames[2]) = 16 /\ Len(WideNames[3]) = 11 /\ Len(WideNames[4]) = 7
    /\ Len(WideNames[5]) = 12 /\ Len(WideNames[6]) = 13 /\ Len(WideNames[8]) = 13
    /\ Len(WideNames[11]) = 14
  <1> DEFINE L == <<10, 16, 11, 7, 12, 13, 25, 13, 25, 8, 14>>
  <1>1. \A x \in 1 .. 11 : Len(WideNames[x]) = L[x]
    BY NamesAssumption, DirNumIs
  <1>2. L[2] = 16 /\ L[3] = 11 /\ L[4] = 7 /\ L[5] = 12 /\ L[6] = 13 /\ L[8] = 13 /\ L[11] = 14
    OBVIOUS
  <1>3. /\ 2 \in 1 .. 11 /\ 3 \in 1 .. 11 /\ 4 \in 1 .. 11 /\ 5 \in 1 .. 11 /\ 6 \in 1 .. 11
        /\ 8 \in 1 .. 11 /\ 11 \in 1 .. 11
    OBVIOUS
  <1> HIDE DEF L
  <1> QED
    BY <1>1, <1>2, <1>3, Zenon

\* Of two names of different lengths the shorter one precedes.
LEMMA ShorterPrecedes ==
    ASSUME NEW m, NEW n, Len(m) \in Nat, Len(n) \in Nat
    PROVE  /\ Len(m) < Len(n) => Precedes(m, n)
           /\ Len(m) > Len(n) => ~Precedes(m, n)
  BY DEF Precedes

\* DataSpaceInfo and TransformInfo are of the same length and differ in the first character.
LEMMA TransformAfterData == ~Precedes(WideNames[8], WideNames[6])
  <1> DEFINE m == WideNames[8]
             n == WideNames[6]
  <1>1. Len(m) = 13 /\ Len(n) = 13
    BY NameLengths
  <1>2. m[1] \in Nat /\ n[1] \in Nat
    <2>1. m \in Seq(Nat) /\ n \in Seq(Nat)
      <3>1. \A x \in 1 .. 11 : WideNames[x] \in Seq(Nat)
        BY NamesAssumption, DirNumIs
      <3>2. 6 \in 1 .. 11 /\ 8 \in 1 .. 11
        OBVIOUS
      <3> QED
        BY <3>1, <3>2, Zenon
    <2> HIDE DEF m, n
    <2> QED
      BY <1>1, <2>1
  <1>3. ToUpper(n[1]) < ToUpper(m[1])
    BY NamesAssumption
  <1> HIDE DEF m, n
  <1>4. ToUpper(m[1]) \in Int /\ ToUpper(n[1]) \in Int
    BY <1>2 DEF ToUpper
  <1>5. ASSUME NEW x \in 1 .. 13, ToUpper(m[x]) < ToUpper(n[x]),
               \A y \in 1 .. x - 1 : ToUpper(m[y]) = ToUpper(n[y])
        PROVE  FALSE
    <2>1. CASE x = 1
      BY <1>3, <1>4, <1>5, <2>1
    <2>2. CASE x # 1
      <3>1. 1 \in 1 .. x - 1
        BY <2>2
      <3> QED
        BY <1>3, <1>4, <1>5, <3>1
    <2> QED
      BY <2>1, <2>2
  <1> QED
    BY <1>1, <1>5 DEF Precedes, m, n

\* The turns at the entries with siblings.
LEMMA Turns ==
    /\ TurnAt(11, 2) = 1 /\ TurnAt(11, 3) = 2
    /\ TurnAt(5, 4) = 3 /\ TurnAt(5, 6) = 5 /\ TurnAt(5, 8) = 5 /\ TurnAt(6, 8) = 7
  <1>1. /\ ~Precedes(WideNames[2], WideNames[11]) /\ Precedes(WideNames[3], WideNames[11])
        /\ Precedes(WideNames[4], WideNames[5]) /\ ~Precedes(WideNames[6], WideNames[5])
        /\ ~Precedes(WideNames[8], WideNames[5])
    <2>1. ASSUME NEW m, NEW n, NEW i \in Nat, NEW j \in Nat, Len(m) = i, Len(n) = j
          PROVE  (i < j => Precedes(m, n)) /\ (i > j => ~Precedes(m, n))
      BY <2>1, ShorterPrecedes
    <2>0. /\ 7 \in Nat /\ 11 \in Nat /\ 12 \in Nat /\ 13 \in Nat /\ 14 \in Nat /\ 16 \in Nat
          /\ 16 > 14 /\ 11 < 14 /\ 7 < 12 /\ 13 > 12
      OBVIOUS
    <2>2. ~Precedes(WideNames[2], WideNames[11])
      BY <2>0, <2>1, NameLengths, Zenon
    <2>3. Precedes(WideNames[3], WideNames[11])
      BY <2>0, <2>1, NameLengths, Zenon
    <2>4. Precedes(WideNames[4], WideNames[5])
      BY <2>0, <2>1, NameLengths, Zenon
    <2>5. ~Precedes(WideNames[6], WideNames[5])
      BY <2>0, <2>1, NameLengths, Zenon
    <2>6. ~Precedes(WideNames[8], WideNames[5])
      BY <2>0, <2>1, NameLengths, Zenon
    <2> QED
      BY <2>2, <2>3, <2>4, <2>5, <2>6
  <1>2. /\ InfoTbl[11].left = 2 /\ InfoTbl[11].right = 1
        /\ InfoTbl[5].left = 3 /\ InfoTbl[5].right = 5 /\ InfoTbl[6].right = 7
    BY InfoTblIs DEF Joins
  <1> QED
    BY <1>1, <1>2, TransformAfterData, Zenon DEF TurnAt

\* The look-up of each name in its storage.
LEMMA EachFound ==
    ASSUME Base, entries = dirs
    PROVE  /\ LookUp(10, WideNames[2]) = 1 /\ LookUp(10, WideNames[11]) = 10
           /\ LookUp(10, WideNames[3]) = 2
           /\ LookUp(4, WideNames[4]) = 3 /\ LookUp(4, WideNames[5]) = 4
           /\ LookUp(4, WideNames[6]) = 5 /\ LookUp(4, WideNames[8]) = 7
           /\ LookUp(6, WideNames[7]) = 6 /\ LookUp(8, WideNames[9]) = 8
           /\ LookUp(9, WideNames[10]) = 9
  <1> DEFINE F(y) == /\ LookUp(y - 1, WideNames[y]) = y - 1
                     /\ \A x \in 1 .. 11 : TurnAt(x, y) = y - 1 => LookUp(x - 1, WideNames[y]) = y - 1
                     /\ \A x, z \in 1 .. 11 : TurnAt(x, y) = z - 1 /\ TurnAt(z, y) = y - 1
                                              => LookUp(x - 1, WideNames[y]) = y - 1
  <1>1. \A y \in 1 .. 11 : F(y)
    BY FoundBehind
  <1>2. /\ 2 - 1 = 1 /\ 3 - 1 = 2 /\ 4 - 1 = 3 /\ 5 - 1 = 4 /\ 6 - 1 = 5 /\ 7 - 1 = 6
        /\ 8 - 1 = 7 /\ 9 - 1 = 8 /\ 10 - 1 = 9 /\ 11 - 1 = 10
        /\ 2 \in 1 .. 11 /\ 3 \in 1 .. 11 /\ 4 \in 1 .. 11 /\ 5 \in 1 .. 11 /\ 6 \in 1 .. 11
        /\ 7 \in 1 .. 11 /\ 8 \in 1 .. 11 /\ 9 \in 1 .. 11 /\ 10 \in 1 .. 11 /\ 11 \in 1 .. 11
    OBVIOUS
  <1>3. /\ LookUp(10, WideNames[11]) = 10 /\ LookUp(4, WideNames[5]) = 4
        /\ LookUp(6, WideNames[7]) = 6 /\ LookUp(8, WideNames[9]) = 8 /\ LookUp(9, WideNames[10]) = 9
    <2>1. F(11) /\ F(5) /\ F(7) /\ F(9) /\ F(10)
      BY <1>1, <1>2
    <2> QED
      BY <1>2, <2>1
  <1>4. LookUp(10, WideNames[2]) = 1 /\ LookUp(10, WideNames[3]) = 2
    <2>1. F(2) /\ F(3)
      BY <1>1, <1>2
    <2> QED
      BY <1>2, <2>1, Turns
  <1>5. LookUp(4, WideNames[4]) = 3 /\ LookUp(4, WideNames[6]) = 5
    <2>1. F(4) /\ F(6)
      BY <1>1, <1>2
    <2> QED
      BY <1>2, <2>1, Turns
  <1>6. LookUp(4, WideNames[8]) = 7
    <2>1. F(8)
      BY <1>1, <1>2
    <2>2. TurnAt(5, 8) = 6 - 1 /\ TurnAt(6, 8) = 8 - 1
      BY <1>2, Turns
    <2>3. LookUp(5 - 1, WideNames[8]) = 8 - 1
      BY <1>2, <2>1, <2>2
    <2> QED
      BY <1>2, <2>3
  <1> QED
    BY <1>3, <1>4, <1>5, <1>6

\* Each storage's tree has the names the comment of makeDataSpace puts there.
LEMMA StoragesFound ==
    ASSUME Base, entries = dirs, NEW storage \in DOMAIN Children, NEW name \in Children[storage]
    PROVE  LookUp(entries[Id(storage) + 1].child, WideNames[Id(name) + 1]) = Id(name)
  <1>1. /\ entries[1].child = 10 /\ entries[3].child = 4 /\ entries[6].child = 6
        /\ entries[8].child = 8 /\ entries[9].child = 9
    <2>1. \A x \in 1 .. 11 : entries[x].child = InfoTbl[x].child
      BY DEF Base, IsEntries, SameIds
    <2>2. 1 \in 1 .. 11 /\ 3 \in 1 .. 11 /\ 6 \in 1 .. 11 /\ 8 \in 1 .. 11 /\ 9 \in 1 .. 11
      OBVIOUS
    <2>3. /\ InfoTbl[1].child = 10 /\ InfoTbl[3].child = 4 /\ InfoTbl[6].child = 6
          /\ InfoTbl[8].child = 8 /\ InfoTbl[9].child = 9
      BY InfoTblIs, Zenon DEF Joins
    <2> QED
      BY <2>1, <2>2, <2>3
  <1>2. /\ 0 + 1 = 1 /\ 1 + 1 = 2 /\ 2 + 1 = 3 /\ 3 + 1 = 4 /\ 4 + 1 = 5 /\ 5 + 1 = 6
        /\ 6 + 1 = 7 /\ 7 + 1 = 8 /\ 8 + 1 = 9 /\ 9 + 1 = 10 /\ 10 + 1 = 11
    OBVIOUS
  <1>3. storage \in {Root, "~DataSpaces", "DataSpaceInfo", "TransformInfo", "StrongEncryptionTransform"}
    BY Zenon DEF Children
  <1>4. CASE storage = Root
    <2>1. name \in {Package, "EncryptionInfo", "~DataSpaces"}
      BY <1>3, <1>4, Zenon DEF Children, Root
    <2>2. entries[Id(storage) + 1].child = 10
      BY <1>1, <1>2, <1>4, IdsAre, Zenon
    <2>3. CASE name = Package
      BY <1>2, <2>2, <2>3, IdsAre, EachFound, Zenon
    <2>4. CASE name = "EncryptionInfo"
      BY <1>2, <2>2, <2>4, IdsAre, EachFound, Zenon
    <2>5. CASE name = "~DataSpaces"
      BY <1>2, <2>2, <2>5, IdsAre, EachFound, Zenon
    <2> QED
      BY <2>1, <2>3, <2>4, <2>5
  <1>5. CASE storage = "~DataSpaces"
    <2>1. name \in {"Version", "DataSpaceMap", "DataSpaceInfo", "TransformInfo"}
      BY <1>3, <1>5 DEF Children, Root
    <2>2. entries[Id(storage) + 1].child = 4
      BY <1>1, <1>2, <1>5, IdsAre, Zenon
    <2>3. CASE name = "Version"
      BY <1>2, <2>2, <2>3, IdsAre, EachFound, Zenon
    <2>4. CASE name = "DataSpaceMap"
      BY <1>2, <2>2, <2>4, IdsAre, EachFound, Zenon
    <2>5. CASE name = "DataSpaceInfo"
      BY <1>2, <2>2, <2>5, IdsAre, EachFound, Zenon
    <2>6. CASE name = "TransformInfo"
      BY <1>2, <2>2, <2>6, IdsAre, EachFound, Zenon
    <2> QED
      BY <2>1, <2>3, <2>4, <2>5, <2>6
  <1>6. CASE storage = "DataSpaceInfo"
    <2>1. name = "StrongEncryptionDataSpace"
      BY <1>3, <1>6 DEF Children, Root
    <2>2. Id(storage) + 1 = 6 /\ Id(name) = 6 /\ Id(name) + 1 = 7
      BY <1>2, <1>6, <2>1, IdsAre
    <2>3. entries[Id(storage) + 1].child = 6
      BY <1>1, <2>2
    <2>4. LookUp(6, WideNames[7]) = 6
      BY EachFound
    <2> QED
      BY <2>2, <2>3, <2>4
  <1>7. CASE storage = "TransformInfo"
    <2>1. name = "StrongEncryptionTransform"
      BY <1>3, <1>7 DEF Children, Root
    <2>2. Id(storage) + 1 = 8 /\ Id(name) = 8 /\ Id(name) + 1 = 9
      BY <1>2, <1>7, <2>1, IdsAre
    <2>3. entries[Id(storage) + 1].child = 8
      BY <1>1, <2>2
    <2>4. LookUp(8, WideNames[9]) = 8
      BY EachFound
    <2> QED
      BY <2>2, <2>3, <2>4
  <1>8. CASE storage = "StrongEncryptionTransform"
    <2>1. name = "~Primary"
      BY <1>3, <1>8 DEF Children, Root
    <2>2. Id(storage) + 1 = 9 /\ Id(name) = 9 /\ Id(name) + 1 = 10
      BY <1>2, <1>8, <2>1, IdsAre
    <2>3. entries[Id(storage) + 1].child = 9
      BY <1>1, <2>2
    <2>4. LookUp(9, WideNames[10]) = 9
      BY EachFound
    <2> QED
      BY <2>2, <2>3, <2>4
  <1> QED
    BY <1>3, <1>4, <1>5, <1>6, <1>7, <1>8

\* Only black entries have siblings below them.
LEMMA RedAlone ==
    \A x \in 1 .. 11 : InfoTbl[x].color = Red => InfoTbl[x].left = NOSTREAM /\ InfoTbl[x].right = NOSTREAM
  <1> DEFINE Fine(t) == t.color = Red => t.left = NOSTREAM /\ t.right = NOSTREAM
  <1>1. Red # Black
    BY DEF Red, Black
  <1>2. ASSUME NEW t, NEW l, NEW r, NEW h, Joins(t, Black, l, r, h) PROVE Fine(t)
    BY <1>1, <1>2 DEF Joins
  <1>3. ASSUME NEW t, NEW c, NEW h, Joins(t, c, NOSTREAM, NOSTREAM, h) PROVE Fine(t)
    BY <1>3 DEF Joins
  <1> HIDE DEF Fine
  <1>4. /\ Fine(InfoTbl[1]) /\ Fine(InfoTbl[2]) /\ Fine(InfoTbl[3]) /\ Fine(InfoTbl[4])
        /\ Fine(InfoTbl[5]) /\ Fine(InfoTbl[6]) /\ Fine(InfoTbl[7]) /\ Fine(InfoTbl[8])
        /\ Fine(InfoTbl[9]) /\ Fine(InfoTbl[10]) /\ Fine(InfoTbl[11])
    BY <1>2, <1>3, InfoTblIs
  <1> SUFFICES ASSUME NEW x \in 1 .. 11 PROVE Fine(InfoTbl[x])
    BY DEF Fine
  <1>5. \/ x = 1 \/ x = 2 \/ x = 3 \/ x = 4 \/ x = 5 \/ x = 6
        \/ x = 7 \/ x = 8 \/ x = 9 \/ x = 10 \/ x = 11
    OBVIOUS
  <1> QED
    BY <1>4, <1>5

\* What CompoundFile reads of a directory is what makeDataSpace made, and its
\* siblings are search trees in the order of the format: descending from the
\* root by that order finds each name in the storage makeDataSpace's comment
\* puts it into; no red entry has a red sibling below it.
THEOREM DirectoryIsAlwaysTree == Spec => []DirectoryIsTree
  <1>1. FileInv => DirectoryIsTree
    <2> SUFFICES ASSUME FileInv, pc = "done"
                 PROVE  /\ entries = dirs
                        /\ \A storage \in DOMAIN Children : \A name \in Children[storage] :
                              LookUp(entries[Id(storage) + 1].child, WideNames[Id(name) + 1]) = Id(name)
                        /\ \A x \in DOMAIN entries :
                              \A id \in {entries[x].left, entries[x].right} \ {NOSTREAM} :
                                 entries[x].color = Red => entries[id + 1].color = Black
      BY DEF DirectoryIsTree
    <2>1. Base /\ entries = dirs
      BY DEF FileInv, WriterInv, EntriesKnown, AfterEntries
    <2>2. \A storage \in DOMAIN Children : \A name \in Children[storage] :
             LookUp(entries[Id(storage) + 1].child, WideNames[Id(name) + 1]) = Id(name)
      BY <2>1, StoragesFound
    <2>3. ASSUME NEW x \in DOMAIN entries, NEW id \in {entries[x].left, entries[x].right} \ {NOSTREAM},
                 entries[x].color = Red
          PROVE  FALSE
      <3>1. x \in 1 .. 11 /\ SameIds(entries[x], InfoTbl[x])
        BY <2>1 DEF Base, IsEntries
      <3> QED
        BY <2>3, <3>1, RedAlone DEF SameIds
    <2> QED
      BY <2>1, <2>2, <2>3
  <1> QED
    BY <1>1, FileInvAlways, PTL
=============================================================================
