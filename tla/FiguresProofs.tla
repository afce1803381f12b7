---------------------------- MODULE FiguresProofs ----------------------------
(***************************************************************************)
(* Theorems about Figures, for any readings of the host's counters, any    *)
(* SLA parameters and query results, any interfaces, any devices of any    *)
(* vendor, and any samples.                                                *)
(***************************************************************************)
EXTENDS Figures, FiniteSetTheorems, SequenceTheorems, WellFoundedInduction, TLAPS

-----------------------------------------------------------------------------
(* The load of the host.                                                   *)

Stat == [busy : Nat, idle : Nat, iowait : Nat, guest : Nat]

\* The load between two readings is a share, if no counter went back.
LEMMA CpuFacts ==
  ASSUME NEW s \in Stat, NEW t \in Stat, Monotone(s, t)
  PROVE  LET cpu == CpuBetween(ReadCpuSample(s), ReadCpuSample(t))
             idled == Grew(s, t, "idle") \/ Grew(s, t, "iowait")
             worked == Grew(s, t, "busy") \/ Grew(s, t, "guest")
         IN /\ 0 <= cpu[1] /\ cpu[1] <= cpu[2]
            /\ ~worked => cpu[1] = 0
            /\ worked /\ ~idled => cpu[1] = cpu[2]
            /\ t.guest = s.guest => cpu[1] * (t.busy + t.idle + t.iowait - s.busy - s.idle - s.iowait)
                                    = (t.busy - s.busy) * cpu[2]
  <1> DEFINE total == t.busy + t.idle + t.iowait + t.guest - (s.busy + s.idle + s.iowait + s.guest)
             idle  == t.idle + t.iowait - (s.idle + s.iowait)
             cpu   == CpuBetween(ReadCpuSample(s), ReadCpuSample(t))
  <1>1. /\ s.busy \in Nat /\ s.idle \in Nat /\ s.iowait \in Nat /\ s.guest \in Nat
        /\ t.busy \in Nat /\ t.idle \in Nat /\ t.iowait \in Nat /\ t.guest \in Nat
    BY DEF Stat
  <1>2. t.busy >= s.busy /\ t.idle >= s.idle /\ t.iowait >= s.iowait /\ t.guest >= s.guest
    BY DEF Stat, Monotone
  <1>3. cpu = IF total > 0 THEN <<total - idle, total>> ELSE <<0, 1>>
    <2> DEFINE a == ReadCpuSample(s)
               b == ReadCpuSample(t)
    <2>1. /\ a.total = s.busy + s.idle + s.iowait + s.guest /\ a.idle = s.idle + s.iowait
          /\ b.total = t.busy + t.idle + t.iowait + t.guest /\ b.idle = t.idle + t.iowait
      BY DEF ReadCpuSample
    <2>2. cpu = IF b.total - a.total > 0 THEN <<(b.total - a.total) - (b.idle - a.idle), b.total - a.total>>
                ELSE <<0, 1>>
      BY DEF CpuBetween
    <2> HIDE DEF a, b, cpu
    <2> QED
      BY <1>1, <2>1, <2>2
  <1>4. /\ Grew(s, t, "busy") <=> t.busy > s.busy
        /\ Grew(s, t, "idle") <=> t.idle > s.idle
        /\ Grew(s, t, "iowait") <=> t.iowait > s.iowait
        /\ Grew(s, t, "guest") <=> t.guest > s.guest
    BY DEF Grew, Stat
  <1> HIDE DEF cpu
  <1>5. CASE total > 0
    <2>1. cpu[1] = total - idle /\ cpu[2] = total
      BY <1>3, <1>5
    <2> QED
      BY <1>1, <1>2, <1>4, <2>1 DEF cpu
  <1>6. CASE ~(total > 0)
    <2>1. cpu[1] = 0 /\ cpu[2] = 1
      BY <1>3, <1>6
    <2> QED
      BY <1>1, <1>2, <1>4, <1>6, <2>1 DEF cpu
  <1> QED
    BY <1>5, <1>6

-----------------------------------------------------------------------------
(* The interfaces of a device.                                             *)

\* Two sets make up a finite third one.
LEMMA TwoParts ==
  ASSUME NEW A, NEW B, IsFiniteSet(A \cup B), A \cap B = {}
  PROVE  /\ IsFiniteSet(A) /\ IsFiniteSet(B)
         /\ Cardinality(A) \in Nat /\ Cardinality(B) \in Nat
         /\ Cardinality(A \cup B) = Cardinality(A) + Cardinality(B)
  <1>1. A \in SUBSET (A \cup B) /\ B \in SUBSET (A \cup B)
    OBVIOUS
  <1>2. IsFiniteSet(A) /\ IsFiniteSet(B)
    BY <1>1, FS_Subset
  <1>3. Cardinality(A) \in Nat /\ Cardinality(B) \in Nat /\ Cardinality(A \cap B) = 0
    BY <1>2, FS_CardinalityType, FS_EmptySet
  <1>4. Cardinality(A \cup B) = Cardinality(A) + Cardinality(B) - Cardinality(A \cap B)
    BY <1>2, FS_Union
  <1> QED
    BY <1>2, <1>3, <1>4

\* The figures are those of the lists, and add up.
LEMMA ViewFacts ==
  ASSUME NEW rows \in SUBSET Rows, NEW q
  PROVE  LET sum == GetSummary(rows)
             Listed(status) == Cardinality(GetInterfaces(rows, "", status))
             Found(status)  == GetInterfaces(rows, q, status)
         IN /\ sum.up = Listed("up") /\ sum.errorDown = Listed("down")
            /\ sum.adminDown = Listed("admin-down") /\ sum.total = Listed("")
            /\ sum.warn = Listed("warn") + Cardinality(Unlisted(rows))
            /\ sum.total = sum.up + sum.errorDown + sum.adminDown + sum.warn
            /\ \A s, t \in {"up", "down", "warn", "admin-down"} : s # t => Found(s) \cap Found(t) = {}
  <1> DEFINE A == {r \in rows : r.admin = "up" /\ r.status = "up"}
             B == {r \in rows : r.admin = "up" /\ r.status = "down"}
             C == {r \in rows : r.admin = "down"}
             D == {r \in rows : r.admin = "up" /\ r.status \notin {"up", "down"}}
             W == {r \in rows : r.admin = "up" /\ r.status = "warn"}
             sum == GetSummary(rows)
  <1>1. IsFiniteSet(rows) /\ \A r \in rows : r.admin \in {"up", "down"}
    BY FiguresAssumption, FS_Subset
  <1>2. /\ sum.total = Cardinality(rows) /\ sum.up = Cardinality(A)
        /\ sum.errorDown = Cardinality(B) /\ sum.adminDown = Cardinality(C)
        /\ sum.warn = Cardinality(D)
    BY DEF GetSummary
  <1>3. /\ GetInterfaces(rows, "", "up") = A /\ GetInterfaces(rows, "", "down") = B
        /\ GetInterfaces(rows, "", "admin-down") = C /\ GetInterfaces(rows, "", "warn") = W
        /\ GetInterfaces(rows, "", "") = rows
    BY DEF GetInterfaces, OfStatus, Matches
  <1>4. \A s, t \in {"up", "down", "warn", "admin-down"} :
          s # t => GetInterfaces(rows, q, s) \cap GetInterfaces(rows, q, t) = {}
    BY DEF GetInterfaces, OfStatus
  <1> HIDE DEF sum
  <1>5. Cardinality(D) = Cardinality(W) + Cardinality(Unlisted(rows))
    <2>1. IsFiniteSet(D)
      BY <1>1, FS_Subset
    <2>2. PICK U : U = Unlisted(rows)
      OBVIOUS
    <2>3. D = W \cup U /\ W \cap U = {}
      BY <2>2 DEF Unlisted
    <2> HIDE DEF W, D
    <2> QED
      BY <2>1, <2>2, <2>3, TwoParts
  <1>6. Cardinality(rows) = Cardinality(A) + Cardinality(B) + Cardinality(C) + Cardinality(D)
    <2>1. rows = A \cup (B \cup (C \cup D)) /\ A \cap (B \cup (C \cup D)) = {}
      BY <1>1
    <2>2. B \cap (C \cup D) = {} /\ C \cap D = {}
      OBVIOUS
    <2> HIDE DEF A, B, C, D
    <2>3. /\ IsFiniteSet(B \cup (C \cup D))
          /\ Cardinality(A) \in Nat /\ Cardinality(B \cup (C \cup D)) \in Nat
          /\ Cardinality(rows) = Cardinality(A) + Cardinality(B \cup (C \cup D))
      BY <1>1, <2>1, TwoParts
    <2>4. /\ IsFiniteSet(C \cup D) /\ Cardinality(B) \in Nat /\ Cardinality(C \cup D) \in Nat
          /\ Cardinality(B \cup (C \cup D)) = Cardinality(B) + Cardinality(C \cup D)
      BY <2>2, <2>3, TwoParts
    <2>5. /\ Cardinality(C) \in Nat /\ Cardinality(D) \in Nat
          /\ Cardinality(C \cup D) = Cardinality(C) + Cardinality(D)
      BY <2>2, <2>4, TwoParts
    <2> QED
      BY <2>3, <2>4, <2>5
  <1> HIDE DEF A, B, C, D, W
  <1>7. sum.warn = Cardinality(GetInterfaces(rows, "", "warn")) + Cardinality(Unlisted(rows))
    BY <1>2, <1>3, <1>5
  <1>8. sum.total = sum.up + sum.errorDown + sum.adminDown + sum.warn
    BY <1>2, <1>6
  <1> QED
    BY <1>2, <1>3, <1>4, <1>7, <1>8 DEF sum

-----------------------------------------------------------------------------
(* SLA compliance.                                                         *)

\* A quotient, rounded down, and what is left.
LEMMA Division ==
  ASSUME NEW a \in Nat, NEW b \in Nat \ {0}
  PROVE  /\ a \div b \in Nat /\ a % b \in Nat
         /\ b * (a \div b) <= a /\ a < b * (a \div b) + b
         /\ a % b = 0 => a = b * (a \div b)
  OBVIOUS

LEMMA Products ==
  ASSUME NEW a \in Nat, NEW b \in Nat, NEW c \in Nat, b <= c
  PROVE  a * b \in Nat /\ a * c \in Nat /\ a * b <= a * c
  OBVIOUS

\* Half a unit more than 1000 times met / total, in twentieths of a unit: what
\* Pct rounds down, and that the result may be one less only on a boundary.
LEMMA Rounded ==
  ASSUME NEW met \in Nat, NEW total \in Nat \ {0}, NEW pct \in Pct(met, total)
  PROVE  LET x == 2000 * met + total
             up == x \div (2 * total)
         IN /\ up \in Nat /\ (2 * total) * up <= x /\ x < (2 * total) * up + 2 * total
            /\ pct = up \/ (pct = up - 1 /\ x = (2 * total) * up)
  <1> DEFINE x == 2000 * met + total
             b == 2 * total
             up == x \div b
  <1>1. x \in Nat /\ b \in Nat \ {0}
    OBVIOUS
  <1>2. pct = up \/ (pct = up - 1 /\ x % b = 0)
    BY DEF Pct
  <1> HIDE DEF x, b
  <1>3. up \in Nat /\ b * up <= x /\ x < b * up + b /\ (x % b = 0 => x = b * up)
    BY <1>1, Division
  <1> QED
    BY <1>2, <1>3 DEF x, b

\* All are met exactly if the figure is 100.0, below 2000; none exactly if it is
\* 0.0; and fewer than half exactly if it is less than 50.0, below 1000.
LEMMA PctFacts ==
  ASSUME NEW met \in Nat, NEW total \in Nat \ {0}, met <= total, NEW pct \in Pct(met, total)
  PROVE  /\ met = total => pct = 1000
         /\ total < 2000 /\ met < total => pct < 1000
         /\ total < 2000 => (pct = 0 <=> met = 0)
         /\ total < 1000 /\ met < total => (pct < 500 <=> 2 * met < total)
  <1> DEFINE x == 2000 * met + total
             up == x \div (2 * total)
  <1>1. /\ up \in Nat /\ (2 * total) * up <= x /\ x < (2 * total) * up + 2 * total
        /\ pct = up \/ (pct = up - 1 /\ x = (2 * total) * up)
    BY Rounded
  <1> HIDE DEF up
  <1>2. pct \in Int
    BY <1>1
  \* The products with the bounds of up that matter.
  <1>m. \A k \in Nat : /\ k <= up => (2 * total) * k <= (2 * total) * up
                       /\ up <= k => (2 * total) * up <= (2 * total) * k
    BY <1>1, Products
  <1>3. met = total => pct = 1000
    <2> HAVE met = total
    <2>1. x = 2001 * total
      OBVIOUS
    <2>2. up <= 1000
      <3>1. CASE 1001 <= up
        BY <1>1, <1>m, <2>1, <3>1
      <3> QED
        BY <1>1, <3>1
    <2>3. 1000 <= up
      <3>1. CASE up <= 999
        BY <1>1, <1>m, <2>1, <3>1
      <3> QED
        BY <1>1, <3>1
    <2>4. up = 1000
      BY <1>1, <2>2, <2>3
    <2> QED
      BY <1>1, <2>1, <2>4
  <1>4. total < 2000 /\ met < total => pct < 1000
    <2> HAVE total < 2000 /\ met < total
    <2>1. x <= 2001 * total - 2000
      OBVIOUS
    <2>2. CASE 1000 <= up
      BY <1>1, <1>m, <2>1, <2>2
    <2> QED
      BY <1>1, <1>2, <2>2
  <1>5. total < 2000 => (pct = 0 <=> met = 0)
    <2> HAVE total < 2000
    <2>1. CASE met = 0
      <3>1. x = total
        BY <2>1
      <3>2. CASE 1 <= up
        BY <1>1, <1>m, <3>1, <3>2
      <3>3. CASE up = 0
        BY <1>1, <2>1, <3>1, <3>3
      <3> QED
        BY <1>1, <3>2, <3>3
    <2>2. CASE met # 0
      <3>1. x >= 2000 + total
        BY <2>2
      <3>2. CASE up = 0
        BY <1>1, <3>1, <3>2
      <3>3. CASE up = 1
        BY <1>1, <2>2, <3>1, <3>3
      <3>4. CASE up > 1
        BY <1>1, <2>2, <3>4
      <3> QED
        BY <1>1, <3>2, <3>3, <3>4
    <2> QED
      BY <2>1, <2>2
  <1>6. total < 1000 /\ met < total => (pct < 500 <=> 2 * met < total)
    <2> HAVE total < 1000 /\ met < total
    <2>1. CASE 2 * met < total
      <3>1. x <= 1001 * total - 1000
        BY <2>1
      <3>2. CASE 500 <= up
        BY <1>1, <1>m, <3>1, <3>2
      <3> QED
        BY <1>1, <2>1, <3>2
    <2>2. CASE ~(2 * met < total)
      <3>1. x >= 1001 * total
        BY <2>2
      <3>2. CASE up <= 499
        BY <1>1, <1>m, <3>1, <3>2
      <3>3. CASE up = 500
        BY <1>1, <2>2, <3>1, <3>3
      <3>4. CASE up > 500
        BY <1>1, <2>2, <3>4
      <3> QED
        BY <1>1, <3>2, <3>3, <3>4
    <2> QED
      BY <2>1, <2>2
  <1> QED
    BY <1>3, <1>4, <1>5, <1>6

\* A service all of whose devices are up meets an availability of at most 100 %.
LEMMA AllUp ==
  ASSUME NEW p \in Parameter, NEW db, db.up \in Nat, db.total \in Nat, NEW failed,
         p.metric = "availability", p.operator = ">=", p.target <= 100 * Unit,
         db.up = db.total, "availability" \notin failed,
         NEW w \in Verdicts(p, CurrentValue(p, db, failed))
  PROVE  w = "met"
  <1> DEFINE v    == CurrentValue(p, db, failed)
             over == v[1] - p.target * v[2]
  <1>1. p.target \in Int
    BY DEF Parameter
  <1>2. v = IF db.total = 0 THEN <<100 * Unit, 1>> ELSE <<100 * Unit * db.up, db.total>>
    <2>1. CurrentValue(p, db, failed) = Availability(db)
      BY DEF CurrentValue
    <2> QED
      BY <2>1 DEF Availability
  <1>3. v[2] \in Nat \ {0} /\ v[1] = 100 * Unit * v[2]
    <2> HIDE DEF v
    <2>1. CASE db.total = 0
      BY <1>2, <2>1 DEF Unit
    <2>2. CASE db.total # 0
      BY <1>2, <2>2 DEF Unit
    <2> QED
      BY <2>1, <2>2
  <1> HIDE DEF v
  <1>4. over = (100 * Unit - p.target) * v[2]
    BY <1>1, <1>3 DEF Unit
  <1>5. over \in Nat
    <2>1. 100 * Unit - p.target \in Nat
      BY <1>1 DEF Unit
    <2> QED
      BY <1>3, <1>4, <2>1
  <1>6. w \in Verdicts(p, v)
    BY DEF v
  <1>7. CASE over = 0
    BY <1>3, <1>6, <1>7 DEF Verdicts, Exact
  <1>8. CASE over # 0
    <2>1. -over < 0
      BY <1>5, <1>8
    <2>2. Verdicts(p, v) = Below(-over, 0)
      BY <1>3, <1>8 DEF Verdicts
    <2> HIDE DEF over
    <2>3. Below(-over, 0) = {"met"}
      BY <2>1 DEF Below
    <2> QED
      BY <1>6, <2>2, <2>3
  <1> QED
    BY <1>7, <1>8

\* Three parts that are apart.
LEMMA ThreeParts ==
  ASSUME NEW M, NEW B, NEW N,
         IsFiniteSet(M \cup (B \cup N)), M \cap (B \cup N) = {}, B \cap N = {}
  PROVE  /\ IsFiniteSet(B) /\ Cardinality(M) \in Nat /\ Cardinality(B) \in Nat
         /\ Cardinality(N) \in Nat
         /\ Cardinality(M \cup (B \cup N)) = Cardinality(M) + Cardinality(B) + Cardinality(N)
  <1>1. /\ IsFiniteSet(B \cup N) /\ Cardinality(M) \in Nat /\ Cardinality(B \cup N) \in Nat
        /\ Cardinality(M \cup (B \cup N)) = Cardinality(M) + Cardinality(B \cup N)
    BY TwoParts
  <1>2. /\ IsFiniteSet(B) /\ Cardinality(B) \in Nat /\ Cardinality(N) \in Nat
        /\ Cardinality(B \cup N) = Cardinality(B) + Cardinality(N)
    BY <1>1, TwoParts
  <1> QED
    BY <1>1, <1>2

\* The parameters of each verdict, few enough to be counted.
LEMMA StatusCounts ==
  ASSUME NEW params \in Params, NEW s, DOMAIN s = Enabled(params)
  PROVE  LET sum == Summary(s) IN
         /\ sum.met \in Nat /\ sum.total \in Nat /\ sum.met <= sum.total /\ sum.total < 2000
         /\ sum.met = sum.total <=> \A k \in DOMAIN s : s[k] # "breached"
  <1> DEFINE D == DOMAIN s
             M == {k \in D : s[k] = "met"}
             B == {k \in D : s[k] = "breached"}
             N == {k \in D : s[k] \notin {"met", "breached"}}
  <1>1. params \in Seq(Parameter) /\ Len(params) < 2000
    BY FiguresAssumption
  <1>2. Len(params) \in Nat /\ D \in SUBSET (1..Len(params))
    BY <1>1 DEF Enabled
  <1>3. IsFiniteSet(1..Len(params)) /\ Cardinality(1..Len(params)) = Len(params)
    <2>1. 1 \in Int /\ Len(params) \in Int
      BY <1>2
    <2>2. /\ IsFiniteSet(1..Len(params))
          /\ Cardinality(1..Len(params)) = IF 1 > Len(params) THEN 0 ELSE Len(params) - 1 + 1
      BY <2>1, FS_Interval
    <2> QED
      BY <1>2, <2>2
  <1> HIDE DEF D
  <1>4. IsFiniteSet(D) /\ Cardinality(D) \in Nat /\ Cardinality(D) < 2000
    <2>1. IsFiniteSet(D) /\ Cardinality(D) <= Len(params)
      BY <1>2, <1>3, FS_Subset
    <2>2. Cardinality(D) \in Nat
      BY <2>1, FS_CardinalityType
    <2> QED
      BY <1>1, <1>2, <2>1, <2>2
  <1>5. D = M \cup (B \cup N) /\ M \cap (B \cup N) = {} /\ B \cap N = {}
    BY SMT
  <1>6. Count(s, "met") = Cardinality(M) /\ Count(s, "breached") = Cardinality(B)
    BY DEF Count, D
  <1>7. (\A k \in D : s[k] # "breached") <=> B = {}
    OBVIOUS
  <1> HIDE DEF M, B, N
  <1>9. /\ IsFiniteSet(B) /\ Cardinality(M) \in Nat /\ Cardinality(B) \in Nat
        /\ Cardinality(N) \in Nat
        /\ Cardinality(D) = Cardinality(M) + Cardinality(B) + Cardinality(N)
    BY <1>4, <1>5, ThreeParts
  <1>10. Cardinality(B) = 0 <=> B = {}
    BY <1>9, FS_EmptySet
  <1>11. /\ Summary(s).met = Cardinality(M)
         /\ Summary(s).total = Cardinality(M) + Cardinality(B)
    BY <1>6 DEF Summary
  <1>12. (\A k \in DOMAIN s : s[k] # "breached") <=> B = {}
    BY <1>7 DEF D
  <1> QED
    BY <1>4, <1>9, <1>10, <1>11, <1>12

-----------------------------------------------------------------------------
(* Computations step by step.  What is computed exists, and two            *)
(* computations that take the same steps agree.                            *)

\* Induction over the naturals, for a set of them.
LEMMA SetInduction ==
  ASSUME NEW S \in SUBSET Nat, 0 \in S, \A n \in S : n + 1 \in S
  PROVE  Nat \subseteq S
  <1> DEFINE T == Nat \ S
             R == OpToRel(<, Nat)
  <1>1. SUFFICES ASSUME T # {} PROVE FALSE
    OBVIOUS
  <1>2. PICK x \in T : \A y \in T : ~(<<y, x>> \in R)
    <2>1. IsWellFoundedOn(R, Nat)
      BY NatLessThanWellFounded
    <2>2. T \subseteq Nat
      OBVIOUS
    <2> HIDE DEF R, T
    <2> QED
      BY <1>1, <2>1, <2>2, WFMin
  <1>3. x \in Nat /\ x # 0
    OBVIOUS
  <1>4. x - 1 \in Nat /\ <<x - 1, x>> \in R
    BY <1>3 DEF OpToRel
  <1>5. x - 1 \in S
    BY <1>2, <1>4
  <1> QED
    BY <1>3, <1>5

\* g is computed step by step: a step takes the number of the place and the
\* value before it to the value there.
Computes(g, n, base, step) ==
  g[0] = base /\ \A i \in 1..n : g[i] = step[<<i, g[i - 1]>>]

\* What is computed step by step exists.
LEMMA Recursion ==
  ASSUME NEW T, NEW base \in T, NEW n \in Nat, NEW step \in [(1..n) \X T -> T]
  PROVE  \E g \in [0..n -> T] : Computes(g, n, base, step)
  <1> DEFINE Good(m, g) == g[0] = base /\ \A i \in 1..m : g[i] = step[<<i, g[i - 1]>>]
             S == {m \in Nat : m <= n => \E g \in [0..m -> T] : Good(m, g)}
  <1>1. 0 \in S
    <2>1. [i \in 0..0 |-> base] \in [0..0 -> T] /\ Good(0, [i \in 0..0 |-> base])
      OBVIOUS
    <2> QED
      BY <2>1
  <1>2. ASSUME NEW m \in S PROVE m + 1 \in S
    <2>1. SUFFICES ASSUME m + 1 <= n
                   PROVE  \E h \in [0..(m + 1) -> T] : Good(m + 1, h)
      OBVIOUS
    <2>2. PICK g \in [0..m -> T] : Good(m, g)
      BY <2>1
    <2> DEFINE h == [i \in 0..(m + 1) |-> IF i <= m THEN g[i] ELSE step[<<m + 1, g[m]>>]]
    <2>3. step[<<m + 1, g[m]>>] \in T
      BY <2>1
    <2>4. h \in [0..(m + 1) -> T]
      BY <2>3
    <2>5. ASSUME NEW i \in 1..(m + 1) PROVE h[i] = step[<<i, h[i - 1]>>]
      <3>1. m \in Nat /\ i \in 0..(m + 1) /\ i - 1 \in 0..(m + 1) /\ i - 1 <= m
        OBVIOUS
      <3>2. h[i - 1] = g[i - 1]
        BY <3>1
      <3>3. CASE i <= m
        <4>1. h[i] = g[i]
          BY <3>1, <3>3
        <4>2. i \in 1..m
          BY <3>1, <3>3
        <4> QED
          BY <2>2, <3>2, <4>1, <4>2
      <3>4. CASE i = m + 1
        BY <3>1, <3>2, <3>4
      <3> QED
        BY <3>1, <3>3, <3>4
    <2>6. Good(m + 1, h)
      <3>1. h[0] = base
        BY <2>2
      <3> QED
        BY <2>5, <3>1
    <2> QED
      BY <2>4, <2>6
  <1>3. Nat \subseteq S
    <2> HIDE DEF S
    <2> QED
      BY <1>1, <1>2, SetInduction DEF S
  <1> QED
    BY <1>3 DEF Computes

\* Two computations that take the same steps agree.
LEMMA Agreement ==
  ASSUME NEW n \in Nat, NEW g, NEW h, g[0] = h[0],
         \A i \in 1..n : g[i - 1] = h[i - 1] => g[i] = h[i]
  PROVE  \A i \in 0..n : g[i] = h[i]
  <1> DEFINE S == {m \in Nat : m <= n => g[m] = h[m]}
  <1>1. 0 \in S
    OBVIOUS
  <1>2. ASSUME NEW m \in S PROVE m + 1 \in S
    OBVIOUS
  <1>3. Nat \subseteq S
    <2> HIDE DEF S
    <2> QED
      BY <1>1, <1>2, SetInduction DEF S
  <1> QED
    BY <1>3

-----------------------------------------------------------------------------
(* Sequences: filters, and texts that are made of blocks.                  *)

\* Induction over sequences, from the left.
LEMMA SeqInduction ==
  ASSUME NEW T, NEW S \in SUBSET Seq(T), <<>> \in S,
         \A s \in S, x \in T : Append(s, x) \in S
  PROVE  Seq(T) \subseteq S
  <1> DEFINE N == {n \in Nat : \A s \in Seq(T) : Len(s) = n => s \in S}
  <1>1. 0 \in N
    OBVIOUS
  <1>2. ASSUME NEW n \in N PROVE n + 1 \in N
    <2>1. SUFFICES ASSUME NEW s \in Seq(T), Len(s) = n + 1 PROVE s \in S
      OBVIOUS
    <2> DEFINE front == [i \in 1..n |-> s[i]]
    <2>2. front \in Seq(T) /\ Len(front) = n
      BY <2>1
    <2>3. s[n + 1] \in T
      BY <2>1
    <2>4. s = Append(front, s[n + 1])
      BY <2>1, <2>2, <2>3
    <2>5. front \in S
      BY <2>2
    <2> HIDE DEF front
    <2> QED
      BY <2>3, <2>4, <2>5
  <1>3. Nat \subseteq N
    <2> HIDE DEF N
    <2> QED
      BY <1>1, <1>2, SetInduction DEF N
  <1> QED
    BY <1>3

\* How FlattenSeq is computed.
LEMMA FlattenSteps ==
  ASSUME NEW T, NEW ss \in Seq(Seq(T))
  PROVE  \E g \in [0..Len(ss) -> Seq(T)] :
           /\ g[0] = <<>>
           /\ \A i \in 1..Len(ss) : g[i] = g[i - 1] \o ss[i]
           /\ FlattenSeq(ss) = g[Len(ss)]
  <1> DEFINE n == Len(ss)
             step == [p \in (1..n) \X Seq(T) |-> p[2] \o ss[p[1]]]
  <1>1. n \in Nat
    OBVIOUS
  <1>2. \A i \in 1..n : ss[i] \in Seq(T)
    OBVIOUS
  <1>3. step \in [(1..n) \X Seq(T) -> Seq(T)]
    BY <1>2
  <1>4. <<>> \in Seq(T)
    OBVIOUS
  <1>5. PICK g \in [0..n -> Seq(T)] : g[0] = <<>> /\ \A i \in 1..n : g[i] = step[<<i, g[i - 1]>>]
    <2> DEFINE Q == Seq(T)
               e == <<>>
    <2>1. e \in Q /\ step \in [(1..n) \X Q -> Q]
      BY <1>3, <1>4
    <2> HIDE DEF step, n, Q, e
    <2>2. \E g \in [0..n -> Q] : Computes(g, n, e, step)
      BY <1>1, <2>1, Recursion
    <2> QED
      BY <2>2 DEF Q, e, Computes
  <1>6. \A i \in 1..n : g[i] = g[i - 1] \o ss[i]
    <2> SUFFICES ASSUME NEW i \in 1..n PROVE g[i] = g[i - 1] \o ss[i]
      OBVIOUS
    <2>1. i - 1 \in 0..n
      BY <1>1
    <2>2. g[i - 1] \in Seq(T)
      BY <2>1
    <2>3. step[<<i, g[i - 1]>>] = g[i - 1] \o ss[i]
      BY <2>2
    <2> QED
      BY <1>5, <2>3
  <1>7. CASE n = 0
    <2>1. FlattenSeq(ss) = ss
      BY <1>7 DEF FlattenSeq
    <2>2. ss = <<>>
      BY <1>7
    <2> QED
      BY <1>5, <1>6, <1>7, <2>1, <2>2
  <1>8. CASE n # 0
    <2> DEFINE Fix(f) == f = [i \in 1..n |-> IF i = 1 THEN ss[i] ELSE f[i - 1] \o ss[i]]
               flat == CHOOSE f : Fix(f)
    <2>1. FlattenSeq(ss) = flat[n]
      BY <1>8 DEF FlattenSeq
    <2>2. \E f : Fix(f)
      <3> DEFINE f == [i \in 1..n |-> g[i]]
      <3>1. ASSUME NEW i \in 1..n
            PROVE  g[i] = IF i = 1 THEN ss[i] ELSE f[i - 1] \o ss[i]
        <4>1. CASE i = 1
          <5>1. <<>> \o ss[1] = ss[1]
            BY <1>2, <4>1
          <5>2. g[i] = g[i - 1] \o ss[i]
            BY <1>6
          <5>3. i - 1 = 0
            BY <4>1
          <5> QED
            BY <1>5, <4>1, <5>1, <5>2, <5>3
        <4>2. CASE i # 1
          <5>1. i - 1 \in 1..n
            BY <1>1, <4>2
          <5> QED
            BY <1>6, <4>2, <5>1
        <4> QED
          BY <4>1, <4>2
      <3>2. Fix(f)
        BY <3>1
      <3> QED
        BY <3>2
    <2>3. Fix(flat)
      BY <2>2
    <2> HIDE DEF flat
    <2> DEFINE h == [i \in 0..n |-> IF i = 0 THEN <<>> ELSE flat[i]]
    <2>4. ASSUME NEW i \in 1..n, g[i - 1] = h[i - 1] PROVE g[i] = h[i]
      <3>0. i \in 0..n /\ i - 1 \in 0..n
        BY <1>1
      <3>1. g[i] = g[i - 1] \o ss[i] /\ i \in 0..n /\ i - 1 \in 0..n
        BY <1>6, <3>0
      <3>2. CASE i = 1
        <4>1. <<>> \o ss[1] = ss[1]
          BY <1>2, <3>2
        <4>2. flat[1] = ss[1]
          BY <2>3, <3>2
        <4> QED
          BY <1>5, <3>1, <3>2, <4>1, <4>2
      <3>3. CASE i # 1
        <4>1. flat[i] = flat[i - 1] \o ss[i]
          BY <2>3, <3>3
        <4>2. h[i] = flat[i] /\ h[i - 1] = flat[i - 1]
          BY <3>1, <3>3
        <4> QED
          BY <2>4, <3>1, <4>1, <4>2
      <3> QED
        BY <3>2, <3>3
    <2>5. \A i \in 0..n : g[i] = h[i]
      <3>1. g[0] = h[0]
        BY <1>1, <1>5
      <3> HIDE DEF h, n
      <3> QED
        BY <1>1, <2>4, <3>1, Agreement, ZenonT(40)
    <2>6. g[n] = flat[n]
      BY <1>1, <1>8, <2>5
    <2> QED
      BY <1>5, <1>6, <2>1, <2>6
  <1> QED
    BY <1>7, <1>8

\* The parts, then one more.
LEMMA FlattenFacts ==
  ASSUME NEW T
  PROVE  /\ FlattenSeq(<<>>) = <<>>
         /\ \A ss \in Seq(Seq(T)) : FlattenSeq(ss) \in Seq(T)
         /\ \A ss \in Seq(Seq(T)), s \in Seq(T) :
              FlattenSeq(Append(ss, s)) = FlattenSeq(ss) \o s
  <1>1. FlattenSeq(<<>>) = <<>>
    BY DEF FlattenSeq
  <1>2. ASSUME NEW ss \in Seq(Seq(T)) PROVE FlattenSeq(ss) \in Seq(T)
    <2>1. PICK g \in [0..Len(ss) -> Seq(T)] : FlattenSeq(ss) = g[Len(ss)]
      BY FlattenSteps
    <2>2. Len(ss) \in 0..Len(ss)
      OBVIOUS
    <2> QED
      BY <2>1, <2>2
  <1>3. ASSUME NEW ss \in Seq(Seq(T)), NEW s \in Seq(T)
        PROVE  FlattenSeq(Append(ss, s)) = FlattenSeq(ss) \o s
    <2> DEFINE n == Len(ss)
               tt == Append(ss, s)
    <2>1. /\ n \in Nat /\ tt \in Seq(Seq(T)) /\ Len(tt) = n + 1 /\ tt[n + 1] = s
          /\ \A i \in 1..n : tt[i] = ss[i]
      OBVIOUS
    <2>2. PICK g :
            /\ g[0] = <<>> /\ \A i \in 1..n : g[i] = g[i - 1] \o ss[i]
            /\ FlattenSeq(ss) = g[n]
      BY FlattenSteps
    <2> HIDE DEF tt
    <2>3. PICK h :
            /\ h[0] = <<>> /\ \A i \in 1..Len(tt) : h[i] = h[i - 1] \o tt[i]
            /\ FlattenSeq(tt) = h[Len(tt)]
      BY <2>1, FlattenSteps
    <2> HIDE DEF n
    <2>4. \A i \in 0..n : g[i] = h[i]
      <3>1. g[0] = h[0]
        BY <2>2, <2>3
      <3>2. ASSUME NEW i \in 1..n, g[i - 1] = h[i - 1] PROVE g[i] = h[i]
        <4>1. i \in 1..Len(tt) /\ tt[i] = ss[i]
          BY <2>1
        <4>2. g[i] = g[i - 1] \o ss[i]
          BY <2>2
        <4>3. h[i] = h[i - 1] \o tt[i]
          BY <2>3, <4>1
        <4> QED
          BY <3>2, <4>1, <4>2, <4>3
      <3>3. n \in Nat
        BY <2>1
      <3>4. \A i \in 1..n : g[i - 1] = h[i - 1] => g[i] = h[i]
        BY <3>2
      <3> QED
        BY <3>1, <3>3, <3>4, Agreement
    <2>5. h[n + 1] = h[n] \o s
      <3>1. n + 1 \in 1..Len(tt) /\ tt[n + 1] = s /\ (n + 1) - 1 = n
        BY <2>1
      <3>2. h[n + 1] = h[(n + 1) - 1] \o tt[n + 1]
        BY <2>3, <3>1
      <3> QED
        BY <3>1, <3>2
    <2>6. n \in 0..n /\ Len(tt) = n + 1
      BY <2>1
    <2>7. g[n] = h[n]
      BY <2>4, <2>6
    <2>8. FlattenSeq(tt) = FlattenSeq(ss) \o s
      BY <2>2, <2>3, <2>5, <2>6, <2>7
    <2> QED
      BY <2>8 DEF tt
  <1> QED
    BY <1>1, <1>2, <1>3

\* A sequence is empty or has a last element.
LEMMA FrontAndLast ==
  ASSUME NEW T, NEW s \in Seq(T), s # <<>>
  PROVE  \E t \in Seq(T), x \in T : s = Append(t, x)
  <1>1. ASSUME NEW n \in Nat, Len(s) = n + 1
        PROVE  \E t \in Seq(T), x \in T : s = Append(t, x)
    <2> DEFINE f == [i \in 1..n |-> s[i]]
    <2>1. f \in Seq(T) /\ Len(f) = n
      BY <1>1
    <2>2. s[n + 1] \in T /\ s = Append(f, s[n + 1])
      BY <1>1, <2>1
    <2>3. \A g \in Seq(T) : g = f => \E t \in Seq(T), x \in T : s = Append(t, x)
      BY <2>2
    <2> QED
      BY <2>1, <2>3
  <1>2. Len(s) - 1 \in Nat /\ Len(s) = (Len(s) - 1) + 1
    OBVIOUS
  <1> DEFINE m == Len(s) - 1
  <1>3. m \in Nat /\ Len(s) = m + 1
    BY <1>2
  <1> HIDE DEF m
  <1> QED
    BY <1>1, <1>3

\* An item appended to the second of two texts is appended to both.
LEMMA AppendConcat ==
  ASSUME NEW T, NEW s \in Seq(T), NEW t \in Seq(T), NEW x \in T
  PROVE  s \o Append(t, x) = Append(s \o t, x)
  OBVIOUS

\* A filter by a set of values.
Singly(s, M) == [k \in DOMAIN s |-> IF s[k] \in M THEN <<s[k]>> ELSE <<>>]
Picked(s, M) == FlattenSeq(Singly(s, M))

\* A filter looks at the items one at a time.
LEMMA SinglyType ==
  ASSUME NEW T, NEW M, NEW s \in Seq(T)
  PROVE  Singly(s, M) \in Seq(Seq(T)) /\ Len(Singly(s, M)) = Len(s)
  <1>1. DOMAIN s = 1..Len(s) /\ Len(s) \in Nat
    OBVIOUS
  <1>2. ASSUME NEW k \in 1..Len(s)
        PROVE  (IF s[k] \in M THEN <<s[k]>> ELSE <<>>) \in Seq(T)
    OBVIOUS
  <1>3. Singly(s, M) \in [1..Len(s) -> Seq(T)]
    BY <1>1, <1>2 DEF Singly
  <1> QED
    BY <1>1, <1>3

\* Of nothing nothing is picked, of a text items of it.
LEMMA PickedFacts ==
  ASSUME NEW T, NEW M
  PROVE  /\ Picked(<<>>, M) = <<>>
         /\ \A s \in Seq(T) : Picked(s, M) \in Seq(T)
  <1>1. Singly(<<>>, M) = <<>>
    BY DEF Singly
  <1> QED
    BY <1>1, SinglyType, FlattenFacts DEF Picked

\* One more value comes last, if it passes.
LEMMA PickedAppend ==
  ASSUME NEW T, NEW M, NEW s \in Seq(T), NEW x \in T
  PROVE  /\ Picked(s, M) \in Seq(T)
         /\ x \in M => Picked(Append(s, x), M) = Append(Picked(s, M), x)
         /\ x \notin M => Picked(Append(s, x), M) = Picked(s, M)
  <1> DEFINE y == IF x \in M THEN <<x>> ELSE <<>>
             u == Append(s, x)
  <1>1. y \in Seq(T) /\ u \in Seq(T) /\ Len(u) = Len(s) + 1 /\ Len(s) \in Nat
    OBVIOUS
  <1>2. Singly(u, M) = Append(Singly(s, M), y)
    <2>1. Singly(u, M) \in Seq(Seq(T)) /\ Len(Singly(u, M)) = Len(s) + 1
      BY <1>1, SinglyType
    <2>2. Singly(s, M) \in Seq(Seq(T)) /\ Len(Singly(s, M)) = Len(s)
      BY SinglyType
    <2>3. Append(Singly(s, M), y) \in Seq(Seq(T)) /\ Len(Append(Singly(s, M), y)) = Len(s) + 1
      BY <1>1, <2>2
    <2>4. ASSUME NEW k \in 1..(Len(s) + 1)
          PROVE  Singly(u, M)[k] = Append(Singly(s, M), y)[k]
      <3>1. CASE k = Len(s) + 1
        <4>1. Append(Singly(s, M), y)[k] = y
          BY <1>1, <2>2, <3>1
        <4>2. u[k] = x
          BY <3>1
        <4>3. Singly(u, M)[k] = IF u[k] \in M THEN <<u[k]>> ELSE <<>>
          BY <1>1 DEF Singly
        <4> QED
          BY <4>1, <4>2, <4>3
      <3>2. CASE k \in 1..Len(s)
        <4>1. Append(Singly(s, M), y)[k] = Singly(s, M)[k]
          BY <1>1, <2>2, <3>2
        <4>2. u[k] = s[k]
          BY <3>2
        <4>3. Singly(u, M)[k] = IF u[k] \in M THEN <<u[k]>> ELSE <<>>
          BY <1>1 DEF Singly
        <4>4. Singly(s, M)[k] = IF s[k] \in M THEN <<s[k]>> ELSE <<>>
          BY <3>2 DEF Singly
        <4> QED
          BY <4>1, <4>2, <4>3, <4>4
      <3>3. k = Len(s) + 1 \/ k \in 1..Len(s)
        BY <1>1
      <3> QED
        BY <3>1, <3>2, <3>3
    <2> HIDE DEF u, y
    <2> QED
      BY <2>1, <2>3, <2>4, SeqEqual
  <1>3. Picked(s, M) \in Seq(T)
    BY PickedFacts
  <1>4. Picked(u, M) = Picked(s, M) \o y
    <2>1. FlattenSeq(Append(Singly(s, M), y)) = FlattenSeq(Singly(s, M)) \o y
      <3>1. Singly(s, M) \in Seq(Seq(T))
        BY SinglyType
      <3>2. y \in Seq(T)
        BY <1>1
      <3> HIDE DEF y
      <3> QED
        BY <3>1, <3>2, FlattenFacts
    <2> QED
      BY <1>2, <2>1 DEF Picked
  <1>5. CASE x \in M
    <2>1. Picked(s, M) \o <<x>> = Append(Picked(s, M), x)
      BY <1>3
    <2> QED
      BY <1>3, <1>4, <1>5, <2>1
  <1>6. CASE x \notin M
    <2>1. Picked(s, M) \o <<>> = Picked(s, M)
      BY <1>3
    <2> QED
      BY <1>3, <1>4, <1>6, <2>1
  <1> QED
    BY <1>5, <1>6

\* A filter filters each part.
LEMMA PickedConcat ==
  ASSUME NEW T, NEW M, NEW s \in Seq(T), NEW t \in Seq(T)
  PROVE  Picked(s \o t, M) = Picked(s, M) \o Picked(t, M)
  <1> DEFINE S == {u \in Seq(T) : Picked(s \o u, M) = Picked(s, M) \o Picked(u, M)}
  <1>1. <<>> \in S
    <2>1. Picked(s, M) \in Seq(T) /\ Picked(<<>>, M) = <<>>
      BY PickedFacts
    <2>2. s \o <<>> = s /\ Picked(s, M) \o <<>> = Picked(s, M) /\ <<>> \in Seq(T)
      BY <2>1
    <2> QED
      BY <2>1, <2>2
  <1>2. ASSUME NEW u \in S, NEW x \in T PROVE Append(u, x) \in S
    <2>1. /\ Append(u, x) \in Seq(T) /\ s \o Append(u, x) = Append(s \o u, x)
      BY AppendConcat
    <2>00. s \o u \in Seq(T)
      OBVIOUS
    <2>0. PICK w \in Seq(T) : w = s \o u
      BY <2>00
    <2>2. PICK a \in Seq(T), b \in Seq(T) : a = Picked(s, M) /\ b = Picked(u, M)
      BY PickedFacts
    <2>3. Picked(w, M) = a \o b
      BY <2>0, <2>2
    <2>4. CASE x \in M
      <3>1. Picked(Append(w, x), M) = Append(Picked(w, M), x)
        BY <2>4, PickedAppend
      <3>2. Picked(Append(u, x), M) = Append(b, x)
        BY <2>2, <2>4, PickedAppend
      <3>3. a \o Append(b, x) = Append(a \o b, x)
        BY AppendConcat
      <3> QED
        BY <2>0, <2>1, <2>2, <2>3, <3>1, <3>2, <3>3
    <2>5. CASE x \notin M
      <3>1. Picked(Append(w, x), M) = Picked(w, M)
        BY <2>5, PickedAppend
      <3>2. Picked(Append(u, x), M) = b
        BY <2>2, <2>5, PickedAppend
      <3> QED
        BY <2>0, <2>1, <2>2, <2>3, <3>1, <3>2
    <2> QED
      BY <2>4, <2>5
  <1>3. Seq(T) \subseteq S
    <2>1. S \subseteq Seq(T)
      OBVIOUS
    <2> HIDE DEF S
    <2> QED
      BY <1>1, <1>2, <2>1, SeqInduction
  <1> QED
    BY <1>3

\* What passes a filter.
LEMMA PickedRange ==
  ASSUME NEW T, NEW M, NEW s \in Seq(T)
  PROVE  ToSet(Picked(s, M)) = ToSet(s) \cap M
  <1> DEFINE S == {u \in Seq(T) : ToSet(Picked(u, M)) = ToSet(u) \cap M}
  <1>1. <<>> \in S
    <2>1. ToSet(<<>>) = {}
      BY DEF ToSet
    <2> QED
      BY <2>1, PickedFacts
  <1>2. ASSUME NEW u \in Seq(T), NEW x \in T PROVE ToSet(Append(u, x)) = ToSet(u) \cup {x}
    <2> DEFINE v == Append(u, x)
    <2>1. DOMAIN v = 1..(Len(u) + 1) /\ DOMAIN u = 1..Len(u) /\ v[Len(u) + 1] = x
      OBVIOUS
    <2>2. \A i \in 1..Len(u) : v[i] = u[i]
      OBVIOUS
    <2> HIDE DEF v
    <2>3. \A i \in 1..(Len(u) + 1) : i \in 1..Len(u) \/ i = Len(u) + 1
      OBVIOUS
    <2>4. Len(u) + 1 \in 1..(Len(u) + 1) /\ 1..Len(u) \subseteq 1..(Len(u) + 1)
      OBVIOUS
    <2>5. ToSet(v) = ToSet(u) \cup {x}
      BY <2>1, <2>2, <2>3, <2>4 DEF ToSet
    <2> QED
      BY <2>5 DEF v
  <1>3. ASSUME NEW u \in S, NEW x \in T PROVE Append(u, x) \in S
    <2>1. Picked(u, M) \in Seq(T)
      BY PickedFacts
    <2>2. ToSet(Append(u, x)) = ToSet(u) \cup {x} /\ ToSet(Append(Picked(u, M), x)) = ToSet(Picked(u, M)) \cup {x}
      BY <1>2, <2>1
    <2>3. /\ x \in M => Picked(Append(u, x), M) = Append(Picked(u, M), x)
          /\ x \notin M => Picked(Append(u, x), M) = Picked(u, M)
      BY PickedAppend
    <2>4. ToSet(Picked(Append(u, x), M)) = ToSet(Append(u, x)) \cap M
      <3>1. ToSet(Picked(u, M)) = ToSet(u) \cap M
        OBVIOUS
      <3> QED
        BY <2>2, <2>3, <3>1
    <2>5. Append(u, x) \in Seq(T)
      OBVIOUS
    <2> QED
      BY <2>4, <2>5
  <1>4. Seq(T) \subseteq S
    <2>1. S \subseteq Seq(T)
      OBVIOUS
    <2> HIDE DEF S
    <2> QED
      BY <1>1, <1>3, <2>1, SeqInduction
  <1> QED
    BY <1>4

\* Two texts one after the other: the items of the first, then those of the second.
LEMMA ConcatFacts ==
  ASSUME NEW T, NEW s \in Seq(T), NEW t \in Seq(T)
  PROVE  /\ s \o t \in Seq(T) /\ Len(s \o t) = Len(s) + Len(t)
         /\ Len(s) \in Nat /\ Len(t) \in Nat
         /\ \A i \in 1..Len(s) : (s \o t)[i] = s[i]
         /\ \A i \in 1..Len(t) : (s \o t)[Len(s) + i] = t[i]
  OBVIOUS

\* A part of a text.
LEMMA SubSeqFacts ==
  ASSUME NEW T, NEW text \in Seq(T), NEW a \in 1..(Len(text) + 1), NEW k \in 0..Len(text), a <= k + 1
  PROVE  /\ SubSeq(text, a, k) \in Seq(T) /\ Len(SubSeq(text, a, k)) = k - a + 1
         /\ \A i \in 1..(k - a + 1) : SubSeq(text, a, k)[i] = text[a + i - 1]
  <1>1. Len(text) \in Nat
    OBVIOUS
  <1>2. ASSUME NEW i \in 1..(k - a + 1) PROVE text[a + i - 1] \in T
    <2>1. a + i - 1 \in 1..Len(text)
      BY <1>1
    <2> QED
      BY <2>1
  <1>3. SubSeq(text, a, k) = [i \in 1..(k - a + 1) |-> text[a + i - 1]]
    BY <1>1
  <1>4. k - a + 1 \in Nat
    BY <1>1
  <1> QED
    BY <1>2, <1>3, <1>4

\* A text without its beginning.
LEMMA DropFront ==
  ASSUME NEW T, NEW p \in Seq(T), NEW s \in Seq(T)
  PROVE  SubSeq(p \o s, Len(p) + 1, Len(p \o s)) = s
  <1>1. PICK t \in Seq(T) : t = p \o s
    BY ConcatFacts
  <1>2. /\ Len(t) = Len(p) + Len(s) /\ Len(p) \in Nat /\ Len(s) \in Nat
        /\ \A i \in 1..Len(s) : t[Len(p) + i] = s[i]
    BY <1>1, ConcatFacts
  <1>3. Len(p) + 1 \in 1..(Len(t) + 1) /\ Len(t) \in 0..Len(t) /\ Len(p) + 1 <= Len(t) + 1
    BY <1>2
  <1>4. PICK a \in 1..(Len(t) + 1), k \in 0..Len(t) : a = Len(p) + 1 /\ k = Len(t) /\ a <= k + 1
    BY <1>3
  <1>5. PICK r \in Seq(T) : /\ r = SubSeq(t, a, k) /\ Len(r) = k - a + 1
                            /\ \A i \in 1..(k - a + 1) : r[i] = t[a + i - 1]
    <2>1. a <= k + 1
      BY <1>4
    <2>2. /\ SubSeq(t, a, k) \in Seq(T) /\ Len(SubSeq(t, a, k)) = k - a + 1
          /\ \A i \in 1..(k - a + 1) : SubSeq(t, a, k)[i] = t[a + i - 1]
      BY <2>1, SubSeqFacts
    <2> QED
      BY <2>2
  <1>6. Len(r) = Len(s) /\ \A i \in 1..Len(r) : r[i] = s[i]
    <2>1. k - a + 1 = Len(s)
      BY <1>2, <1>4
    <2>2. \A i \in 1..Len(s) : a + i - 1 = Len(p) + i
      BY <1>2, <1>4
    <2> QED
      BY <1>2, <1>5, <2>1, <2>2
  <1>7. r = s
    BY <1>6, SeqEqual
  <1> QED
    BY <1>1, <1>4, <1>5, <1>7

\* Texts that begin, or end, with parts of one length.
LEMMA CancelLeft ==
  ASSUME NEW T, NEW p \in Seq(T), NEW q \in Seq(T), NEW s \in Seq(T), NEW t \in Seq(T)
  PROVE  Len(p) = Len(q) /\ p \o s = q \o t => p = q /\ s = t
  <1>0. SUFFICES ASSUME Len(p) = Len(q), p \o s = q \o t PROVE p = q /\ s = t
    OBVIOUS
  <1>1. /\ Len(p \o s) = Len(p) + Len(s) /\ Len(p) \in Nat /\ Len(s) \in Nat
        /\ \A i \in 1..Len(p) : (p \o s)[i] = p[i]
        /\ \A i \in 1..Len(s) : (p \o s)[Len(p) + i] = s[i]
    BY ConcatFacts
  <1>2. /\ Len(q \o t) = Len(q) + Len(t) /\ Len(q) \in Nat /\ Len(t) \in Nat
        /\ \A i \in 1..Len(q) : (q \o t)[i] = q[i]
        /\ \A i \in 1..Len(t) : (q \o t)[Len(q) + i] = t[i]
    BY ConcatFacts
  <1>3. Len(s) = Len(t)
    BY <1>0, <1>1, <1>2
  <1>4. p = q
    <2>1. \A i \in 1..Len(p) : p[i] = q[i]
      BY <1>0, <1>1, <1>2
    <2> QED
      BY <1>0, <2>1, SeqEqual
  <1>5. s = t
    <2>1. \A i \in 1..Len(s) : s[i] = t[i]
      BY <1>0, <1>1, <1>2, <1>3
    <2> QED
      BY <1>3, <2>1, SeqEqual
  <1> QED
    BY <1>4, <1>5

\* The same with the ends of one length.
LEMMA CancelRight ==
  ASSUME NEW T, NEW p \in Seq(T), NEW q \in Seq(T), NEW s \in Seq(T), NEW t \in Seq(T)
  PROVE  Len(s) = Len(t) /\ p \o s = q \o t => p = q /\ s = t
  <1>0. SUFFICES ASSUME Len(s) = Len(t), p \o s = q \o t PROVE p = q /\ s = t
    OBVIOUS
  <1>1. Len(p \o s) = Len(p) + Len(s) /\ Len(q \o t) = Len(q) + Len(t)
    BY ConcatFacts
  <1>2. Len(p) \in Nat /\ Len(q) \in Nat /\ Len(s) \in Nat
    OBVIOUS
  <1>3. Len(p) = Len(q)
    BY <1>0, <1>1, <1>2
  <1> QED
    BY <1>0, <1>3, CancelLeft

\* The blocks over T that begin with a value of M, and have no other one.
BlocksOf(T, M) == {b \in Seq(T) : b # <<>> /\ b[1] \in M /\ \A i \in 2..Len(b) : b[i] \notin M}

\* Nothing is picked of a text without a mark.
LEMMA PickedQuiet ==
  ASSUME NEW T, NEW M, NEW s \in Seq(T), \A i \in 1..Len(s) : s[i] \notin M
  PROVE  Picked(s, M) = <<>>
  <1>1. PICK p \in Seq(T) : p = Picked(s, M)
    BY PickedFacts
  <1>2. ToSet(p) = {}
    <2>1. ToSet(p) = ToSet(s) \cap M
      BY <1>1, PickedRange
    <2>2. ToSet(s) \cap M = {}
      BY DEF ToSet
    <2> QED
      BY <2>1, <2>2
  <1>3. DOMAIN p = {}
    BY <1>2 DEF ToSet
  <1> QED
    BY <1>1, <1>3

\* The first item is picked of a block, and nothing else.
LEMMA PickedBlock ==
  ASSUME NEW T, NEW M, NEW b \in BlocksOf(T, M)
  PROVE  Picked(b, M) = <<b[1]>>
  <1>1. b \in Seq(T) /\ b # <<>> /\ b[1] \in M /\ \A i \in 2..Len(b) : b[i] \notin M
    BY DEF BlocksOf
  <1>2. b[1] \in T /\ Tail(b) \in Seq(T) /\ Len(Tail(b)) = Len(b) - 1 /\ Len(b) \in Nat \ {0}
    BY <1>1
  <1>3. b = <<b[1]>> \o Tail(b)
    BY <1>1, <1>2
  <1>4. Picked(Tail(b), M) = <<>>
    <2>1. \A i \in 1..Len(Tail(b)) : Tail(b)[i] = b[i + 1] /\ i + 1 \in 2..Len(b)
      BY <1>1, <1>2
    <2>2. PICK t \in Seq(T) : t = Tail(b)
      BY <1>2
    <2>3. \A i \in 1..Len(t) : t[i] \notin M
      BY <1>1, <2>1, <2>2
    <2> QED
      BY <2>2, <2>3, PickedQuiet
  <1>5. Picked(<<b[1]>>, M) = <<b[1]>>
    <2>1. PICK x \in T : x = b[1]
      BY <1>2
    <2>2. <<>> \in Seq(T) /\ Append(<<>>, x) = <<x>>
      OBVIOUS
    <2>3. PICK e \in Seq(T) : e = <<>>
      BY <2>2
    <2>4. Picked(e, M) = e
      BY <2>3, PickedFacts
    <2>5. Picked(Append(e, x), M) = Append(Picked(e, M), x)
      BY <1>1, <2>1, PickedAppend
    <2> QED
      BY <2>1, <2>2, <2>3, <2>4, <2>5
  <1>60. <<b[1]>> \in Seq(T)
    BY <1>2
  <1>61. PICK h \in Seq(T) : h = <<b[1]>>
    BY <1>60
  <1>6. PICK t \in Seq(T) : t = Tail(b)
    BY <1>2
  <1>7. Picked(h \o t, M) = Picked(h, M) \o Picked(t, M)
    BY PickedConcat
  <1>8. h \o <<>> = h
    OBVIOUS
  <1> QED
    BY <1>3, <1>4, <1>5, <1>6, <1>61, <1>7, <1>8

\* Blocks make a text.
LEMMA BlocksType ==
  ASSUME NEW T, NEW M, NEW bs \in Seq(BlocksOf(T, M))
  PROVE  bs \in Seq(Seq(T)) /\ FlattenSeq(bs) \in Seq(T)
  <1>1. BlocksOf(T, M) \subseteq Seq(T)
    BY DEF BlocksOf
  <1>2. bs \in Seq(Seq(T))
    BY <1>1
  <1> QED
    BY <1>2, FlattenFacts

\* The first values of the blocks of a text.
LEMMA PickedBlocks ==
  ASSUME NEW T, NEW M, NEW bs \in Seq(BlocksOf(T, M))
  PROVE  Picked(FlattenSeq(bs), M) = [k \in 1..Len(bs) |-> bs[k][1]]
  <1> DEFINE B == BlocksOf(T, M)
             S == {u \in Seq(B) : Picked(FlattenSeq(u), M) = [k \in 1..Len(u) |-> u[k][1]]}
  <1>1. <<>> \in S
    <2>1. [k \in 1..0 |-> <<>>[k][1]] = <<>>
      OBVIOUS
    <2>2. Picked(FlattenSeq(<<>>), M) = <<>>
      BY FlattenFacts, PickedFacts
    <2>3. <<>> \in Seq(B) /\ Len(<<>>) = 0
      OBVIOUS
    <2>4. Picked(FlattenSeq(<<>>), M) = [k \in 1..Len(<<>>) |-> <<>>[k][1]]
      BY <2>1, <2>2, <2>3
    <2> QED
      BY <2>3, <2>4
  <1>2. ASSUME NEW u \in S, NEW b \in B PROVE Append(u, b) \in S
    <2>1. u \in Seq(B) /\ Append(u, b) \in Seq(B)
      OBVIOUS
    <2>2. PICK f \in Seq(T) : f = FlattenSeq(u)
      BY <2>1, BlocksType
    <2>3. b \in Seq(T) /\ b[1] \in T
      BY DEF BlocksOf
    <2>4. FlattenSeq(Append(u, b)) = f \o b
      <3>1. u \in Seq(Seq(T))
        BY <2>1, BlocksType
      <3> QED
        BY <2>2, <2>3, <3>1, FlattenFacts
    <2>5. Picked(f \o b, M) = Picked(f, M) \o Picked(b, M)
      BY <2>3, PickedConcat
    <2>6. Picked(b, M) = <<b[1]>>
      BY PickedBlock
    <2>7. [k \in 1..Len(u) |-> u[k][1]] \o <<b[1]>>
            = [k \in 1..Len(Append(u, b)) |-> Append(u, b)[k][1]]
      <3> DEFINE g == [k \in 1..Len(u) |-> u[k][1]]
                 h == [k \in 1..Len(Append(u, b)) |-> Append(u, b)[k][1]]
      <3>1. \A k \in 1..Len(u) : u[k][1] \in T
        BY <2>1 DEF BlocksOf
      <3>2. Len(u) \in Nat /\ Len(Append(u, b)) = Len(u) + 1 /\ Append(u, b)[Len(u) + 1] = b
        BY <2>1
      <3>3. \A k \in 1..Len(u) : Append(u, b)[k] = u[k]
        BY <2>1
      <3>4. g \in Seq(T) /\ Len(g) = Len(u)
        BY <3>1, <3>2
      <3>5. h \in Seq(T) /\ Len(h) = Len(u) + 1
        <4>1. \A k \in 1..(Len(u) + 1) : Append(u, b)[k][1] \in T
          <5>1. \A k \in 1..(Len(u) + 1) : k \in 1..Len(u) \/ k = Len(u) + 1
            BY <3>2
          <5> QED
            BY <2>3, <3>1, <3>2, <3>3, <5>1
        <4> QED
          BY <3>2, <4>1
      <3>6. g \o <<b[1]>> \in Seq(T) /\ Len(g \o <<b[1]>>) = Len(u) + 1
        BY <2>3, <3>2, <3>4
      <3>7. ASSUME NEW k \in 1..(Len(u) + 1) PROVE (g \o <<b[1]>>)[k] = h[k]
        <4>0. h[k] = Append(u, b)[k][1]
          BY <3>2
        <4>1. CASE k \in 1..Len(u)
          <5>1. (g \o <<b[1]>>)[k] = g[k]
            BY <2>3, <3>4, <4>1
          <5> QED
            BY <3>3, <4>0, <4>1, <5>1
        <4>2. CASE k = Len(u) + 1
          <5>1. (g \o <<b[1]>>)[k] = b[1]
            BY <2>3, <3>2, <3>4, <4>2
          <5> QED
            BY <3>2, <4>0, <4>2, <5>1
        <4>3. k \in 1..Len(u) \/ k = Len(u) + 1
          BY <3>2
        <4> QED
          BY <4>1, <4>2, <4>3
      <3> HIDE DEF g, h
      <3> DEFINE w == g \o <<b[1]>>
      <3>8. w \in Seq(T) /\ Len(w) = Len(h) /\ \A k \in 1..Len(w) : w[k] = h[k]
        BY <3>5, <3>6, <3>7
      <3> HIDE DEF w
      <3>9. w = h
        BY <3>5, <3>8, SeqEqual
      <3> QED
        BY <3>9 DEF w, g, h
    <2>8. Picked(f, M) = [k \in 1..Len(u) |-> u[k][1]]
      BY <2>2
    <2>9. Picked(FlattenSeq(Append(u, b)), M) = [k \in 1..Len(Append(u, b)) |-> Append(u, b)[k][1]]
      BY <2>4, <2>5, <2>6, <2>7, <2>8
    <2> QED
      BY <2>1, <2>9
  <1>3. Seq(B) \subseteq S
    <2>1. S \subseteq Seq(B)
      OBVIOUS
    <2> HIDE DEF S, B
    <2> QED
      BY <1>1, <1>2, <2>1, SeqInduction
  <1> QED
    BY <1>3

\* The last block of a text is where its last first value is.
LEMMA LastBlock ==
  ASSUME NEW T, NEW M, NEW p \in Seq(T), NEW q \in Seq(T),
         NEW b \in BlocksOf(T, M), NEW d \in BlocksOf(T, M)
  PROVE  p \o b = q \o d => p = q /\ b = d
  <1>0. SUFFICES ASSUME p \o b = q \o d PROVE p = q /\ b = d
    OBVIOUS
  <1>1. b \in Seq(T) /\ b # <<>> /\ b[1] \in M /\ \A i \in 2..Len(b) : b[i] \notin M
    BY DEF BlocksOf
  <1>2. d \in Seq(T) /\ d # <<>> /\ d[1] \in M /\ \A i \in 2..Len(d) : d[i] \notin M
    BY DEF BlocksOf
  <1>3. /\ Len(p \o b) = Len(p) + Len(b)
        /\ \A i \in 1..Len(b) : (p \o b)[Len(p) + i] = b[i]
    BY <1>1, ConcatFacts
  <1>4. /\ Len(q \o d) = Len(q) + Len(d)
        /\ \A i \in 1..Len(d) : (q \o d)[Len(q) + i] = d[i]
    BY <1>2, ConcatFacts
  <1>5. Len(p) \in Nat /\ Len(q) \in Nat /\ Len(b) \in Nat \ {0} /\ Len(d) \in Nat \ {0}
    BY <1>1, <1>2
  <1>6. Len(p) + Len(b) = Len(q) + Len(d)
    BY <1>0, <1>3, <1>4
  <1>7. ASSUME Len(b) < Len(d) PROVE FALSE
    <2>1. PICK i \in 2..Len(d) : Len(q) + i = Len(p) + 1
      <3>1. Len(d) - Len(b) + 1 \in 2..Len(d) /\ Len(q) + (Len(d) - Len(b) + 1) = Len(p) + 1
        BY <1>5, <1>6, <1>7
      <3> QED
        BY <3>1
    <2>2. i \in 1..Len(d) /\ 1 \in 1..Len(b)
      BY <1>5
    <2>3. (p \o b)[Len(p) + 1] = b[1]
      BY <1>3, <2>2
    <2>4. (q \o d)[Len(q) + i] = d[i]
      BY <1>4, <2>2
    <2>5. b[1] = d[i]
      BY <1>0, <2>1, <2>3, <2>4
    <2> QED
      BY <1>1, <1>2, <2>5
  <1>8. ASSUME Len(d) < Len(b) PROVE FALSE
    <2>1. PICK i \in 2..Len(b) : Len(p) + i = Len(q) + 1
      <3>1. Len(b) - Len(d) + 1 \in 2..Len(b) /\ Len(p) + (Len(b) - Len(d) + 1) = Len(q) + 1
        BY <1>5, <1>6, <1>8
      <3> QED
        BY <3>1
    <2>2. i \in 1..Len(b) /\ 1 \in 1..Len(d)
      BY <1>5
    <2>3. (q \o d)[Len(q) + 1] = d[1]
      BY <1>4, <2>2
    <2>4. (p \o b)[Len(p) + i] = b[i]
      BY <1>3, <2>2
    <2>5. d[1] = b[i]
      BY <1>0, <2>1, <2>3, <2>4
    <2> QED
      BY <1>1, <1>2, <2>5
  <1>9. Len(b) = Len(d)
    BY <1>5, <1>7, <1>8
  <1>10. \A s, t \in Seq(T) : Len(s) = Len(t) /\ p \o s = q \o t => p = q /\ s = t
    BY CancelRight
  <1> QED
    BY <1>0, <1>1, <1>2, <1>9, <1>10

\* A text is of one list of blocks only.
LEMMA Parse ==
  ASSUME NEW T, NEW M, NEW bs \in Seq(BlocksOf(T, M)), NEW cs \in Seq(BlocksOf(T, M)),
         FlattenSeq(bs) = FlattenSeq(cs)
  PROVE  bs = cs
  <1> DEFINE B == BlocksOf(T, M)
             S == {u \in Seq(B) : \A v \in Seq(B) : FlattenSeq(u) = FlattenSeq(v) => u = v}
  <1>1. \A u \in Seq(B) : FlattenSeq(u) \in Seq(T)
    BY BlocksType
  <1>2. ASSUME NEW u \in Seq(B), NEW b \in B
        PROVE  /\ FlattenSeq(Append(u, b)) = FlattenSeq(u) \o b
               /\ FlattenSeq(Append(u, b)) # <<>>
    <2>1. u \in Seq(Seq(T)) /\ b \in Seq(T) /\ b # <<>>
      BY BlocksType DEF BlocksOf
    <2>2. PICK f \in Seq(T) : f = FlattenSeq(u)
      BY <1>1
    <2>3. FlattenSeq(Append(u, b)) = FlattenSeq(u) \o b
      BY <2>1, FlattenFacts
    <2>4. f \o b # <<>>
      BY <2>1
    <2> QED
      BY <2>2, <2>3, <2>4
  <1>3. <<>> \in S
    <2>1. ASSUME NEW v \in Seq(B), FlattenSeq(<<>>) = FlattenSeq(v) PROVE <<>> = v
      <3>1. ASSUME v # <<>> PROVE FALSE
        <4>1. PICK w \in Seq(B), b \in B : v = Append(w, b)
          <5> HIDE DEF B
          <5> QED
            BY <3>1, FrontAndLast
        <4>2. FlattenSeq(v) # <<>>
          BY <1>2, <4>1
        <4> QED
          BY <2>1, <4>2, FlattenFacts
      <3> QED
        BY <3>1
    <2> QED
      BY <2>1
  <1>4. ASSUME NEW u \in S, NEW b \in B PROVE Append(u, b) \in S
    <2>1. ASSUME NEW v \in Seq(B), FlattenSeq(Append(u, b)) = FlattenSeq(v)
          PROVE  Append(u, b) = v
      <3>1. v # <<>>
        BY <1>2, <2>1, FlattenFacts
      <3>2. PICK w \in Seq(B), d \in B : v = Append(w, d)
        <4> HIDE DEF B
        <4> QED
          BY <3>1, FrontAndLast
      <3>3. FlattenSeq(u) \o b = FlattenSeq(w) \o d
        BY <1>2, <2>1, <3>2
      <3>4. PICK p \in Seq(T), q \in Seq(T) : p = FlattenSeq(u) /\ q = FlattenSeq(w)
        BY <1>1
      <3>5. p = q /\ b = d
        <4>1. \A x, y \in BlocksOf(T, M) : p \o x = q \o y => p = q /\ x = y
          BY LastBlock
        <4> QED
          BY <3>3, <3>4, <4>1
      <3>6. u = w
        BY <3>4, <3>5
      <3> QED
        BY <3>2, <3>5, <3>6
    <2>2. Append(u, b) \in Seq(B)
      OBVIOUS
    <2> QED
      BY <2>1, <2>2
  <1>5. Seq(B) \subseteq S
    <2>1. S \subseteq Seq(B)
      OBVIOUS
    <2> HIDE DEF S, B
    <2> QED
      BY <1>3, <1>4, <2>1, SeqInduction
  <1> QED
    BY <1>5

\* The items of a text that another one is appended to.
LEMMA RangeAppend ==
  ASSUME NEW T, NEW s \in Seq(T), NEW x \in T
  PROVE  ToSet(Append(s, x)) = ToSet(s) \cup {x}
  <1> DEFINE v == Append(s, x)
  <1>1. DOMAIN v = 1..(Len(s) + 1) /\ DOMAIN s = 1..Len(s) /\ v[Len(s) + 1] = x
    OBVIOUS
  <1>2. \A i \in 1..Len(s) : v[i] = s[i]
    OBVIOUS
  <1> HIDE DEF v
  <1>3. \A i \in 1..(Len(s) + 1) : i \in 1..Len(s) \/ i = Len(s) + 1
    OBVIOUS
  <1>4. Len(s) + 1 \in 1..(Len(s) + 1) /\ 1..Len(s) \subseteq 1..(Len(s) + 1)
    OBVIOUS
  <1>5. ToSet(v) = ToSet(s) \cup {x}
    BY <1>1, <1>2, <1>3, <1>4 DEF ToSet
  <1> QED
    BY <1>5 DEF v

\* The items of two texts.
LEMMA RangeConcat ==
  ASSUME NEW T, NEW s \in Seq(T), NEW t \in Seq(T)
  PROVE  ToSet(s \o t) = ToSet(s) \cup ToSet(t)
  <1>1. PICK w \in Seq(T) : w = s \o t
    BY ConcatFacts
  <1>2. /\ Len(w) = Len(s) + Len(t) /\ Len(s) \in Nat /\ Len(t) \in Nat
        /\ \A i \in 1..Len(s) : w[i] = s[i]
        /\ \A i \in 1..Len(t) : w[Len(s) + i] = t[i]
    BY <1>1, ConcatFacts
  <1>3. DOMAIN w = 1..Len(w) /\ DOMAIN s = 1..Len(s) /\ DOMAIN t = 1..Len(t)
    OBVIOUS
  <1>4. ASSUME NEW i \in 1..Len(w) PROVE w[i] \in ToSet(s) \cup ToSet(t)
    <2>1. CASE i \in 1..Len(s)
      BY <1>2, <1>3, <2>1 DEF ToSet
    <2>2. CASE i \notin 1..Len(s)
      <3>1. PICK j \in 1..Len(t) : i = Len(s) + j
        <4>1. i - Len(s) \in 1..Len(t) /\ i = Len(s) + (i - Len(s))
          BY <1>2, <2>2
        <4> QED
          BY <4>1
      <3>2. w[i] = t[j]
        BY <1>2, <3>1
      <3> QED
        BY <1>3, <3>2 DEF ToSet
    <2> QED
      BY <2>1, <2>2
  <1>5. ASSUME NEW i \in 1..Len(s) PROVE s[i] \in ToSet(w)
    <2>1. i \in 1..Len(w)
      BY <1>2
    <2> QED
      BY <1>2, <1>3, <2>1 DEF ToSet
  <1>6. ASSUME NEW i \in 1..Len(t) PROVE t[i] \in ToSet(w)
    <2>1. Len(s) + i \in 1..Len(w)
      BY <1>2
    <2> QED
      BY <1>2, <1>3, <2>1 DEF ToSet
  <1>7. ToSet(w) = ToSet(s) \cup ToSet(t)
    BY <1>3, <1>4, <1>5, <1>6 DEF ToSet
  <1> QED
    BY <1>1, <1>7

\* What is in a text is in one of its parts.
LEMMA FlattenRange ==
  ASSUME NEW T, NEW ss \in Seq(Seq(T))
  PROVE  ToSet(FlattenSeq(ss)) = UNION {ToSet(ss[k]) : k \in 1..Len(ss)}
  <1> DEFINE Q == Seq(T)
             All(u) == UNION {ToSet(x) : x \in ToSet(u)}
             S == {u \in Seq(Q) : ToSet(FlattenSeq(u)) = All(u)}
  <1>1. <<>> \in S
    <2>1. ToSet(<<>>) = {}
      BY DEF ToSet
    <2> QED
      BY <2>1, FlattenFacts
  <1>2. ASSUME NEW u \in S, NEW x \in Q PROVE Append(u, x) \in S
    <2>1. u \in Seq(Seq(T)) /\ x \in Seq(T) /\ Append(u, x) \in Seq(Q)
      OBVIOUS
    <2>2. PICK f \in Seq(T) : f = FlattenSeq(u)
      BY <2>1, FlattenFacts
    <2>3. FlattenSeq(Append(u, x)) = f \o x
      BY <2>1, <2>2, FlattenFacts
    <2>4. ToSet(f \o x) = ToSet(f) \cup ToSet(x)
      BY <2>1, RangeConcat
    <2>5. ToSet(Append(u, x)) = ToSet(u) \cup {x}
      <3> HIDE DEF Q
      <3>1. u \in Seq(Q)
        BY <2>1 DEF Q
      <3> QED
        BY <3>1, RangeAppend
    <2>6. All(Append(u, x)) = All(u) \cup ToSet(x)
      BY <2>5
    <2>7. ToSet(f) = All(u)
      BY <2>2
    <2>8. ToSet(FlattenSeq(Append(u, x))) = All(Append(u, x))
      BY <2>3, <2>4, <2>6, <2>7
    <2> QED
      BY <2>1, <2>8
  <1>3. Seq(Q) \subseteq S
    <2>1. S \subseteq Seq(Q)
      OBVIOUS
    <2> HIDE DEF S, Q
    <2> QED
      BY <1>1, <1>2, <2>1, SeqInduction
  <1>4. ToSet(FlattenSeq(ss)) = All(ss)
    BY <1>3
  <1>5. DOMAIN ss = 1..Len(ss)
    OBVIOUS
  <1>6. All(ss) = UNION {ToSet(ss[k]) : k \in 1..Len(ss)}
    BY <1>5 DEF ToSet
  <1> QED
    BY <1>4, <1>6

\* A block, from its parts.
LEMMA MakeBlock ==
  ASSUME NEW T, NEW M, NEW x \in T \cap M, NEW s \in Seq(T \ M)
  PROVE  <<x>> \o s \in BlocksOf(T, M) /\ (<<x>> \o s)[1] = x
  <1>1. s \in Seq(T) /\ <<x>> \in Seq(T) /\ Len(<<x>>) = 1 /\ <<x>>[1] = x
    OBVIOUS
  <1>2. PICK h \in Seq(T) : h = <<x>>
    BY <1>1
  <1>3. PICK b \in Seq(T) : b = h \o s
    BY <1>1, ConcatFacts
  <1>4. /\ Len(b) = 1 + Len(s) /\ Len(s) \in Nat
        /\ b[1] = x
        /\ \A i \in 1..Len(s) : b[1 + i] = s[i]
    BY <1>1, <1>2, <1>3, ConcatFacts
  <1>5. ASSUME NEW i \in 2..Len(b) PROVE b[i] \notin M
    <2>1. PICK j \in 1..Len(s) : i = 1 + j
      <3>1. i - 1 \in 1..Len(s) /\ i = 1 + (i - 1)
        BY <1>4
      <3> QED
        BY <3>1
    <2>2. b[i] = s[j]
      BY <1>4, <2>1
    <2> QED
      BY <2>2
  <1>6. b # <<>>
    BY <1>4
  <1>7. b \in BlocksOf(T, M)
    BY <1>4, <1>5, <1>6 DEF BlocksOf
  <1> QED
    BY <1>2, <1>3, <1>4, <1>7

\* What is left of a block without its first value.
LEMMA SameBlock ==
  ASSUME NEW T, NEW x \in T, NEW y \in T, NEW s \in Seq(T), NEW t \in Seq(T)
  PROVE  <<x>> \o s = <<y>> \o t <=> x = y /\ s = t
  <1>1. <<x>> \in Seq(T) /\ <<y>> \in Seq(T) /\ Len(<<x>>) = Len(<<y>>)
    OBVIOUS
  <1>2. <<x>> \o s = <<y>> \o t => <<x>> = <<y>> /\ s = t
    BY <1>1, CancelLeft
  <1>3. <<x>> = <<y>> => x = y
    OBVIOUS
  <1> QED
    BY <1>2, <1>3

-----------------------------------------------------------------------------
(* The lines of a configuration, and the blocks of the formats.            *)

\* What lines are made of: strings, among them those that the formats bring in,
\* and the fixed words of a line.
Chars == STRING \cup {"te", "gi", "et-0/0/", "ge-0/0/", " ", "ethernet", "1/1", "1/2", "1/3",
                      "no description"}
Data  == Seq(Chars) \cup Seq(Nat)
Phrases ==
  {"", "IP", "NVRAM config last updated", "admin-state disable", "admin-state enable", "comment",
   "description", "disable", "duplex full",
   "family inet address dhcp", "group IBGP-CORE local-address", "host-name", "hostname",
   "interface-mode access; vlan members", "interface-mode trunk",
   "ip access-list extended ACL-MGMT", "ip address dhcp", "ip-address", "last changed",
   "last configuration change", "layer3 ip",
   "lo0 address", "mode access", "mode hybrid", "name", "no shutdown", "no switchport",
   "router bgp 65000", "router bgp router-id", "router ospf router-id", "router-id",
   "security rules ALLOW-OUTBOUND from TRUST to UNTRUST", "shutdown", "snmp location",
   "snmp-server location", "speed 1000", "speed 10000", "speed 10g", "speed 1g", "speed auto",
   "switchport access vlan", "switchport mode access", "switchport mode trunk", "vprn address",
   "wireless management interface Vlan50", "zone TRUST", "zone UNTRUST"}

\* The lines, those that head the block of an interface, and the others.
Texts   == [words : Phrases \cup {"interface"}, data : Data]
Heading == {l \in Texts : l.words = "interface"}
Others  == Texts \ Heading

\* A line tells its words and its data.
LEMMA SameLine ==
  ASSUME NEW w, NEW v, NEW x, NEW y
  PROVE  Line(w, x) = Line(v, y) <=> w = v /\ x = y
  <1>1. Line(w, x).words = w /\ Line(w, x).data = x
    BY DEF Line
  <1>2. Line(v, y).words = v /\ Line(v, y).data = y
    BY DEF Line
  <1> QED
    BY <1>1, <1>2

\* What can be the data of a line.
LEMMA DataTypes ==
  /\ \A x \in Chars : <<x>> \in Data
  /\ \A x, y \in Chars : <<x, y>> \in Data
  /\ \A x, y, z \in Chars : <<x, y, z>> \in Data
  /\ \A x \in Nat : <<x>> \in Data
  /\ \A x, y \in Nat : <<x, y>> \in Data
  /\ <<>> \in Data
  /\ Seq(Chars) \subseteq Data
  BY DEF Data

\* The strings that the formats bring in.
LEMMA SomeChars ==
  /\ "te" \in Chars /\ "gi" \in Chars /\ "et-0/0/" \in Chars /\ "ge-0/0/" \in Chars
  /\ " " \in Chars /\ "ethernet" \in Chars /\ "1/1" \in Chars /\ "1/2" \in Chars
  /\ "1/3" \in Chars /\ "no description" \in Chars
  BY DEF Chars

\* The strings of an interface.
LEMMA InterfaceTypes ==
  ASSUME NEW i \in Interface
  PROVE  /\ i.name \in Seq(Chars) /\ i.desc \in Chars /\ i.vlan \in Chars /\ i.status \in Chars
         /\ i.fast \in BOOLEAN
  <1>1. \A S, T : S \subseteq T => Seq(S) \subseteq Seq(T)
    OBVIOUS
  <1>2. STRING \subseteq Chars
    BY DEF Chars
  <1>3. Seq(STRING) \subseteq Seq(Chars)
    BY <1>1, <1>2
  <1> QED
    BY <1>2, <1>3 DEF Interface

\* The strings of a device.
LEMMA DeviceTypes ==
  ASSUME NEW d \in Device
  PROVE  d.name \in Chars /\ d.ip \in Chars
  <1>2. STRING \subseteq Chars
    BY DEF Chars
  <1> QED
    BY <1>2 DEF Device

\* The first line of a block.
LEMMA HeadLine ==
  ASSUME NEW x \in Data
  PROVE  Line("interface", x) \in Texts \cap Heading
  <1>1. Line("interface", x) \in Texts
    BY DEF Line, Texts
  <1>2. Line("interface", x).words = "interface"
    BY DEF Line
  <1> QED
    BY <1>1, <1>2 DEF Heading

\* Any other line.
LEMMA OtherLine ==
  ASSUME NEW w \in Phrases, NEW x \in Data
  PROVE  Line(w, x) \in Others /\ <<Line(w, x)>> \in Seq(Others)
  <1>1. Line(w, x) \in Texts
    BY DEF Line, Texts
  <1>2. Line(w, x).words = w
    BY DEF Line
  <1>3. w # "interface"
    BY DEF Phrases
  <1>4. Line(w, x) \in Others
    BY <1>1, <1>2, <1>3 DEF Heading, Others
  <1> QED
    BY <1>4

\* A line without data.
LEMMA PlainLine ==
  ASSUME NEW w \in Phrases
  PROVE  Plain(w) \in Seq(Others) /\ Len(Plain(w)) >= 1 /\ Plain(w)[1] = Line(w, <<>>)
  <1>1. <<>> \in Data
    BY DataTypes
  <1>2. <<Line(w, <<>>)>> \in Seq(Others)
    BY <1>1, OtherLine
  <1> QED
    BY <1>2 DEF Plain

\* Lines that head no block are lines.
LEMMA OthersAreTexts == Seq(Others) \subseteq Seq(Texts)
  <1>1. Others \subseteq Texts
    BY DEF Others
  <1> QED
    BY <1>1

\* Three texts in a row are joined in either order.
LEMMA Regroup ==
  ASSUME NEW T, NEW p \in Seq(T), NEW q \in Seq(T), NEW r \in Seq(T)
  PROVE  (p \o q) \o r = p \o (q \o r) /\ p \o q \in Seq(T) /\ q \o r \in Seq(T)
         /\ p \o (q \o r) \in Seq(T)
  OBVIOUS

\* A part of one line, that begins a rest of lines.
LEMMA FirstOfTwo ==
  ASSUME NEW T, NEW s \in Seq(T), NEW t \in Seq(T), Len(s) >= 1
  PROVE  s \o t \in Seq(T) /\ Len(s \o t) >= 1 /\ (s \o t)[1] = s[1]
  OBVIOUS

\* w is p, which is not empty, and then s.
Cut(T, p, s, w) == p \in Seq(T) /\ s \in Seq(T) /\ Len(p) >= 1 /\ w = p \o s

\* Two cuts of a text: the parts begin alike, and what follows equal parts is equal.
LEMMA CutOnce ==
  ASSUME NEW T, NEW w, NEW p, NEW s, NEW q, NEW t, Cut(T, p, s, w), Cut(T, q, t, w)
  PROVE  p[1] = q[1] /\ (p = q => s = t)
  <1>1. /\ p \in Seq(T) /\ s \in Seq(T) /\ Len(p) >= 1 /\ w = p \o s
        /\ q \in Seq(T) /\ t \in Seq(T) /\ Len(q) >= 1 /\ w = q \o t
    BY DEF Cut
  <1>2. (p \o s)[1] = p[1]
    <2>1. p \in Seq(T) /\ s \in Seq(T) /\ Len(p) >= 1
      BY <1>1
    <2> QED
      BY <2>1, FirstOfTwo
  <1>3. (q \o t)[1] = q[1]
    <2>1. q \in Seq(T) /\ t \in Seq(T) /\ Len(q) >= 1
      BY <1>1
    <2> QED
      BY <2>1, FirstOfTwo
  <1>4. p = q => s = t
    BY <1>1, CancelLeft
  <1> QED
    BY <1>1, <1>2, <1>3, <1>4

\* The mode of a port of Cisco's is one line or more, the first of them by its VLAN.
LEMMA CiscoModeFacts ==
  ASSUME NEW i \in Interface
  PROVE  /\ CiscoMode(i) \in Seq(Others) /\ Len(CiscoMode(i)) >= 1
         /\ CiscoMode(i)[1] = IF i.vlan = "trunk" THEN Line("switchport mode trunk", <<>>)
                              ELSE IF i.vlan = "wan-100" THEN Line("no switchport", <<>>)
                              ELSE IF i.vlan = "" THEN Line("switchport mode access", <<>>)
                              ELSE Line("switchport access vlan", <<i.vlan>>)
  <1>0. \A s, t \in Seq(Others) : Len(s) >= 1 =>
          s \o t \in Seq(Others) /\ Len(s \o t) >= 1 /\ (s \o t)[1] = s[1]
    BY FirstOfTwo
  <1>1. <<i.vlan>> \in Data
    BY InterfaceTypes, DataTypes
  <1>2. CASE i.vlan = "trunk"
    <2>1. CiscoMode(i) = Plain("switchport mode trunk")
      BY <1>2 DEF CiscoMode
    <2>2. Plain("switchport mode trunk") \in Seq(Others) /\ Len(Plain("switchport mode trunk")) >= 1
          /\ Plain("switchport mode trunk")[1] = Line("switchport mode trunk", <<>>)
      BY PlainLine DEF Phrases
    <2> QED
      BY <1>2, <2>1, <2>2
  <1>3. CASE i.vlan = "wan-100"
    <2>1. CiscoMode(i) = Plain("no switchport") \o Plain("ip address dhcp")
      BY <1>3 DEF CiscoMode
    <2>2. Plain("no switchport") \in Seq(Others) /\ Len(Plain("no switchport")) >= 1
          /\ Plain("no switchport")[1] = Line("no switchport", <<>>)
      BY PlainLine DEF Phrases
    <2>3. Plain("ip address dhcp") \in Seq(Others)
      BY PlainLine DEF Phrases
    <2>4. /\ CiscoMode(i) \in Seq(Others) /\ Len(CiscoMode(i)) >= 1
          /\ CiscoMode(i)[1] = Plain("no switchport")[1]
      BY <2>1, <2>2, <2>3, <1>0
    <2> QED
      BY <1>3, <2>2, <2>4
  <1>4. CASE i.vlan = ""
    <2>1. CiscoMode(i) = Plain("switchport mode access")
      BY <1>4 DEF CiscoMode
    <2>2. Plain("switchport mode access") \in Seq(Others) /\ Len(Plain("switchport mode access")) >= 1
          /\ Plain("switchport mode access")[1] = Line("switchport mode access", <<>>)
      BY PlainLine DEF Phrases
    <2> QED
      BY <1>4, <2>1, <2>2
  <1>5. CASE i.vlan \notin {"trunk", "wan-100", ""}
    <2> DEFINE l == Line("switchport access vlan", <<i.vlan>>)
    <2>1. CiscoMode(i) = <<l>> \o Plain("switchport mode access")
      BY <1>5 DEF CiscoMode
    <2>2. <<l>> \in Seq(Others)
      BY <1>1, OtherLine DEF Phrases
    <2>3. Plain("switchport mode access") \in Seq(Others)
      BY PlainLine DEF Phrases
    <2> HIDE DEF l
    <2>4. Len(<<l>>) >= 1 /\ <<l>>[1] = l
      OBVIOUS
    <2>5. /\ CiscoMode(i) \in Seq(Others) /\ Len(CiscoMode(i)) >= 1
          /\ CiscoMode(i)[1] = <<l>>[1]
      BY <2>1, <2>2, <2>3, <2>4, <1>0
    <2> QED
      BY <1>5, <2>4, <2>5 DEF l
  <1> QED
    BY <1>2, <1>3, <1>4, <1>5

\* That line tells the VLAN.
LEMMA CiscoModeSays ==
  ASSUME NEW i \in Interface, NEW j \in Interface
  PROVE  /\ CiscoMode(i)[1] = CiscoMode(j)[1] => i.vlan = j.vlan
         /\ i.vlan = j.vlan => CiscoMode(i) = CiscoMode(j)
  <1> DEFINE words(v) == IF v = "trunk" THEN "switchport mode trunk"
                         ELSE IF v = "wan-100" THEN "no switchport"
                         ELSE IF v = "" THEN "switchport mode access"
                         ELSE "switchport access vlan"
             data(v) == IF v \in {"trunk", "wan-100", ""} THEN <<>> ELSE <<v>>
  <1>1. ASSUME NEW k \in Interface PROVE CiscoMode(k)[1] = Line(words(k.vlan), data(k.vlan))
    BY CiscoModeFacts
  <1>2. ASSUME NEW v, NEW u, words(v) = words(u), data(v) = data(u) PROVE v = u
    <2>1. <<v>> = <<u>> => v = u
      OBVIOUS
    <2> QED
      BY <1>2, <2>1
  <1>3. CiscoMode(i)[1] = CiscoMode(j)[1] => i.vlan = j.vlan
    <2> HIDE DEF words, data
    <2> QED
      BY <1>1, <1>2, SameLine
  <1>4. i.vlan = j.vlan => CiscoMode(i) = CiscoMode(j)
    BY DEF CiscoMode
  <1> QED
    BY <1>3, <1>4

\* A block of Cisco's is headed by the name, and says what Shown says.
CiscoRest(k) ==
  <<Line("description", <<Described(k)>>)>>
  \o (CiscoMode(k) \o (Plain(IF k.status = "down" THEN "shutdown" ELSE "no shutdown")
       \o (IF k.fast THEN Plain("speed 10000") \o Plain("duplex full") ELSE <<>>)))

\* The other parts of a block of Cisco's.
LEMMA CiscoParts ==
  ASSUME NEW k \in Interface
  PROVE  LET desc == <<Line("description", <<Described(k)>>)>>
             state == Plain(IF k.status = "down" THEN "shutdown" ELSE "no shutdown")
             speed == IF k.fast THEN Plain("speed 10000") \o Plain("duplex full") ELSE <<>>
         IN /\ desc \in Seq(Others) /\ Len(desc) >= 1 /\ desc[1] = Line("description", <<Described(k)>>)
            /\ state \in Seq(Others) /\ Len(state) >= 1
            /\ state[1] = Line(IF k.status = "down" THEN "shutdown" ELSE "no shutdown", <<>>)
            /\ speed \in Seq(Others) /\ (speed = <<>> <=> ~k.fast)
  <1> DEFINE desc == <<Line("description", <<Described(k)>>)>>
             state == Plain(IF k.status = "down" THEN "shutdown" ELSE "no shutdown")
             speed == IF k.fast THEN Plain("speed 10000") \o Plain("duplex full") ELSE <<>>
  <1>1. Described(k) \in Chars
    BY InterfaceTypes, SomeChars DEF Described
  <1>2. desc \in Seq(Others) /\ Len(desc) >= 1 /\ desc[1] = Line("description", <<Described(k)>>)
    <2>1. desc \in Seq(Others)
      BY <1>1, DataTypes, OtherLine DEF Phrases
    <2> QED
      BY <2>1
  <1>3. /\ state \in Seq(Others) /\ Len(state) >= 1
        /\ state[1] = Line(IF k.status = "down" THEN "shutdown" ELSE "no shutdown", <<>>)
    <2>1. (IF k.status = "down" THEN "shutdown" ELSE "no shutdown") \in Phrases
      BY DEF Phrases
    <2> QED
      BY <2>1, PlainLine
  <1>4. speed \in Seq(Others) /\ (speed = <<>> <=> ~k.fast)
    <2>1. Plain("speed 10000") \in Seq(Others) /\ Len(Plain("speed 10000")) >= 1
      BY PlainLine DEF Phrases
    <2>2. Plain("duplex full") \in Seq(Others)
      BY PlainLine DEF Phrases
    <2>3. \A s, t \in Seq(Others) : Len(s) >= 1 => s \o t \in Seq(Others) /\ s \o t # <<>>
      OBVIOUS
    <2>4. k.fast \in BOOLEAN /\ <<>> \in Seq(Others)
      BY InterfaceTypes
    <2> QED
      BY <2>1, <2>2, <2>3, <2>4
  <1> QED
    BY <1>2, <1>3, <1>4

\* What follows the heading tells the rest of what Shown says.
LEMMA CiscoRestSays ==
  ASSUME NEW i \in Interface, NEW j \in Interface
  PROVE  CiscoRest(i) = CiscoRest(j) =>
           /\ Described(i) = Described(j) /\ i.vlan = j.vlan
           /\ i.status = "down" <=> j.status = "down"
           /\ i.fast = j.fast
  <1>0. SUFFICES ASSUME CiscoRest(i) = CiscoRest(j)
                 PROVE  /\ Described(i) = Described(j) /\ i.vlan = j.vlan
                        /\ i.status = "down" <=> j.status = "down"
                        /\ i.fast = j.fast
    OBVIOUS
  <1> DEFINE desc(k) == <<Line("description", <<Described(k)>>)>>
             state(k) == Plain(IF k.status = "down" THEN "shutdown" ELSE "no shutdown")
             speed(k) == IF k.fast THEN Plain("speed 10000") \o Plain("duplex full") ELSE <<>>
  <1>1. ASSUME NEW k \in Interface
        PROVE  /\ desc(k) \in Seq(Others) /\ Len(desc(k)) >= 1 /\ desc(k)[1] = Line("description", <<Described(k)>>)
               /\ state(k) \in Seq(Others) /\ Len(state(k)) >= 1
               /\ state(k)[1] = Line(IF k.status = "down" THEN "shutdown" ELSE "no shutdown", <<>>)
               /\ speed(k) \in Seq(Others) /\ (speed(k) = <<>> <=> ~k.fast) /\ k.fast \in BOOLEAN
               /\ CiscoMode(k) \in Seq(Others) /\ Len(CiscoMode(k)) >= 1
    BY CiscoParts, CiscoModeFacts, InterfaceTypes
  <1>2. CiscoRest(i) = desc(i) \o (CiscoMode(i) \o (state(i) \o speed(i)))
        /\ CiscoRest(j) = desc(j) \o (CiscoMode(j) \o (state(j) \o speed(j)))
    BY DEF CiscoRest
  <1>3. Described(i) = Described(j) => desc(i) = desc(j)
    OBVIOUS
  <1>4. (i.status = "down" <=> j.status = "down") => state(i) = state(j)
    OBVIOUS
  <1> HIDE DEF desc, state, speed
  <1>6. \A s, t \in Seq(Others) : s \o t \in Seq(Others)
    OBVIOUS
  <1>7. PICK di \in Seq(Others), mi \in Seq(Others), si \in Seq(Others), fi \in Seq(Others) :
          di = desc(i) /\ mi = CiscoMode(i) /\ si = state(i) /\ fi = speed(i)
    BY <1>1
  <1>8. PICK dj \in Seq(Others), mj \in Seq(Others), sj \in Seq(Others), fj \in Seq(Others) :
          dj = desc(j) /\ mj = CiscoMode(j) /\ sj = state(j) /\ fj = speed(j)
    BY <1>1
  <1>9. PICK yi \in Seq(Others), yj \in Seq(Others) : yi = si \o fi /\ yj = sj \o fj
    BY <1>6
  <1>10. PICK xi \in Seq(Others), xj \in Seq(Others) : xi = mi \o yi /\ xj = mj \o yj
    BY <1>6
  <1>11. di[1] = dj[1] /\ (di = dj => xi = xj)
    <2>1. di \o xi = dj \o xj
      BY <1>0, <1>2, <1>7, <1>8, <1>9, <1>10
    <2>2. Len(di) >= 1 /\ Len(dj) >= 1
      BY <1>1, <1>7, <1>8
    <2>3. Cut(Others, di, xi, di \o xi) /\ Cut(Others, dj, xj, di \o xi)
      BY <2>1, <2>2 DEF Cut
    <2> QED
      BY <2>3, CutOnce
  <1>12. Described(i) = Described(j)
    <2>1. Line("description", <<Described(i)>>) = Line("description", <<Described(j)>>)
      BY <1>1, <1>7, <1>8, <1>11
    <2>2. <<Described(i)>> = <<Described(j)>>
      BY <2>1, SameLine
    <2> QED
      BY <2>2
  <1>13. mi[1] = mj[1] /\ (mi = mj => yi = yj)
    <2>1. mi \o yi = mj \o yj
      BY <1>3, <1>7, <1>8, <1>10, <1>11, <1>12
    <2>2. Len(mi) >= 1 /\ Len(mj) >= 1
      BY <1>1, <1>7, <1>8
    <2>3. Cut(Others, mi, yi, mi \o yi) /\ Cut(Others, mj, yj, mi \o yi)
      BY <2>1, <2>2 DEF Cut
    <2> QED
      BY <2>3, CutOnce
  <1>14. i.vlan = j.vlan /\ mi = mj
    BY <1>7, <1>8, <1>13, CiscoModeSays
  <1>15. si[1] = sj[1] /\ (si = sj => fi = fj)
    <2>1. si \o fi = sj \o fj
      BY <1>9, <1>13, <1>14
    <2>2. Len(si) >= 1 /\ Len(sj) >= 1
      BY <1>1, <1>7, <1>8
    <2>3. Cut(Others, si, fi, si \o fi) /\ Cut(Others, sj, fj, si \o fi)
      BY <2>1, <2>2 DEF Cut
    <2> QED
      BY <2>3, CutOnce
  <1>16. i.status = "down" <=> j.status = "down"
    <2>1. Line(IF i.status = "down" THEN "shutdown" ELSE "no shutdown", <<>>)
            = Line(IF j.status = "down" THEN "shutdown" ELSE "no shutdown", <<>>)
      BY <1>1, <1>7, <1>8, <1>15
    <2>2. (IF i.status = "down" THEN "shutdown" ELSE "no shutdown")
            = (IF j.status = "down" THEN "shutdown" ELSE "no shutdown")
      <3>1. PICK u, v : /\ u = (IF i.status = "down" THEN "shutdown" ELSE "no shutdown")
                        /\ v = (IF j.status = "down" THEN "shutdown" ELSE "no shutdown")
        OBVIOUS
      <3>2. Line(u, <<>>) = Line(v, <<>>)
        BY <2>1, <3>1
      <3>3. u = v
        BY <3>2, SameLine
      <3> QED
        BY <3>1, <3>3
    <2> QED
      BY <2>2
  <1>17. fi = fj
    BY <1>4, <1>7, <1>8, <1>15, <1>16
  <1>18. i.fast = j.fast
    BY <1>1, <1>7, <1>8, <1>17
  <1> QED
    BY <1>12, <1>14, <1>16, <1>18

\* The lines of a block, taken apart one part at a time.
LEMMA TwoLines ==
  ASSUME NEW T, NEW h \in T, NEW d \in T
  PROVE  <<h>> \o <<d>> = <<h, d>>
  <1> DEFINE u == <<h>> \o <<d>>
             v == <<h, d>>
  <1>1. u \in Seq(T) /\ Len(u) = 2 /\ u[1] = h /\ u[2] = d
    BY ConcatFacts
  <1>2. v \in Seq(T) /\ Len(v) = 2 /\ v[1] = h /\ v[2] = d
    OBVIOUS
  <1> HIDE DEF u, v
  <1>3. \A i \in 1..Len(u) : u[i] = v[i]
    <2>1. \A i \in 1..2 : i = 1 \/ i = 2
      OBVIOUS
    <2> QED
      BY <1>1, <1>2, <2>1
  <1>4. u = v
    BY <1>1, <1>2, <1>3, SeqEqual
  <1> QED
    BY <1>4 DEF u, v

\* b is a block: a first line with x, and then s.
IsBlock(b, x, s) == x \in Data /\ s \in Seq(Others) /\ b = <<Line("interface", x)>> \o s

\* A block is one of the blocks of a text, with its heading first.
LEMMA Headed ==
  ASSUME NEW b, NEW x, NEW s, IsBlock(b, x, s)
  PROVE  b \in BlocksOf(Texts, Heading) /\ b[1] = Line("interface", x)
  <1>1. Line("interface", x) \in Texts \cap Heading
    BY HeadLine DEF IsBlock
  <1>2. s \in Seq(Texts \ Heading)
    BY DEF Others, IsBlock
  <1> QED
    BY <1>1, <1>2, MakeBlock DEF IsBlock

\* Blocks are the same exactly if heading and rest are.
LEMMA SameHeaded ==
  ASSUME NEW b, NEW c, NEW x, NEW y, NEW s, NEW t, IsBlock(b, x, s), IsBlock(c, y, t)
  PROVE  b = c <=> x = y /\ s = t
  <1>1. PICK l \in Texts, m \in Texts : l = Line("interface", x) /\ m = Line("interface", y)
    BY HeadLine DEF IsBlock
  <1>2. s \in Seq(Texts) /\ t \in Seq(Texts)
    BY OthersAreTexts DEF IsBlock
  <1>3. <<l>> \o s = <<m>> \o t <=> l = m /\ s = t
    BY <1>2, SameBlock
  <1>4. l = m <=> x = y
    BY <1>1, SameLine
  <1> QED
    BY <1>1, <1>3, <1>4 DEF IsBlock

\* The first two lines apart.
LEMMA FirstTwo ==
  ASSUME NEW T, NEW h \in T, NEW d \in T, NEW r \in Seq(T)
  PROVE  <<h, d>> \o r = <<h>> \o (<<d>> \o r)
  <1>1. \A p, q \in Seq(T) : (p \o q) \o r = p \o (q \o r)
    BY Regroup
  <1>2. <<h>> \in Seq(T) /\ <<d>> \in Seq(T)
    OBVIOUS
  <1>3. (<<h>> \o <<d>>) \o r = <<h>> \o (<<d>> \o r)
    BY <1>1, <1>2
  <1> QED
    BY <1>3, TwoLines

\* The parts of a block, joined as the formats join them, are a heading and a rest.
LEMMA BlockParts ==
  ASSUME NEW x \in Data, NEW d \in Others,
         NEW m \in Seq(Others), NEW s \in Seq(Others), NEW f \in Seq(Others)
  PROVE  /\ IsBlock(((<<Line("interface", x), d>> \o m) \o s) \o f, x, <<d>> \o (m \o (s \o f)))
         /\ IsBlock((<<Line("interface", x), d>> \o m) \o s, x, <<d>> \o (m \o s))
  <1>1. PICK h \in Texts : h = Line("interface", x)
    BY HeadLine
  <1>2. m \in Seq(Texts) /\ s \in Seq(Texts) /\ f \in Seq(Texts) /\ d \in Texts
    BY OthersAreTexts DEF Others
  <1>4. \A p, a, b \in Seq(Texts) : (p \o a) \o b = p \o (a \o b)
    BY Regroup
  <1>5. \A y, z \in Texts, r \in Seq(Texts) : <<y, z>> \o r = <<y>> \o (<<z>> \o r)
    BY FirstTwo
  <1>6. <<h, d>> \in Seq(Texts) /\ <<d>> \in Seq(Others)
    BY <1>2
  <1>7. PICK w \in Seq(Texts) : w = <<h, d>>
    BY <1>6
  <1>8. \A a, b \in Seq(Others) : a \o b \in Seq(Others)
    BY ConcatFacts
  <1>9. PICK u \in Seq(Others), v \in Seq(Others) : u = m \o (s \o f) /\ v = m \o s
    BY <1>8
  <1>10. u \in Seq(Texts) /\ v \in Seq(Texts)
    BY OthersAreTexts
  <1>11. <<h, d>> \o u = <<h>> \o (<<d>> \o u) /\ <<h, d>> \o v = <<h>> \o (<<d>> \o v)
    BY <1>2, <1>5, <1>10
  <1>12. <<d>> \o u \in Seq(Others) /\ <<d>> \o v \in Seq(Others)
    BY <1>6, <1>8
  <1>13. ((w \o m) \o s) \o f = w \o u
    <2>1. PICK y \in Seq(Texts), z \in Seq(Texts) : y = w \o m /\ z = s \o f
      BY <1>2, ConcatFacts
    <2>2. (y \o s) \o f = y \o (s \o f)
      BY <1>2, <1>4
    <2>3. (w \o m) \o z = w \o (m \o z)
      BY <1>2, <1>4
    <2> QED
      BY <1>9, <2>1, <2>2, <2>3
  <1>14. (w \o m) \o s = w \o v
    BY <1>2, <1>4, <1>9
  <1> QED
    BY <1>1, <1>7, <1>9, <1>11, <1>12, <1>13, <1>14 DEF IsBlock

\* A block of Cisco's is headed by the name, and says what Shown says.
LEMMA CiscoBlocks ==
  ASSUME NEW i \in Interface, NEW j \in Interface
  PROVE  /\ CiscoBlock(i) \in BlocksOf(Texts, Heading)
         /\ CiscoBlock(i)[1] = Line("interface", i.name)
         /\ CiscoBlock(i) = CiscoBlock(j) <=> Shown("cisco", i) = Shown("cisco", j)
  <1>1. ASSUME NEW k \in Interface
        PROVE  IsBlock(CiscoBlock(k), k.name, CiscoRest(k))
    <2> DEFINE d == Line("description", <<Described(k)>>)
               state == Plain(IF k.status = "down" THEN "shutdown" ELSE "no shutdown")
               speed == IF k.fast THEN Plain("speed 10000") \o Plain("duplex full") ELSE <<>>
    <2>1. k.name \in Data
      BY InterfaceTypes, DataTypes
    <2>2. <<d>> \in Seq(Others) /\ state \in Seq(Others) /\ speed \in Seq(Others) /\ CiscoMode(k) \in Seq(Others)
      BY CiscoParts, CiscoModeFacts
    <2>4. CiscoBlock(k) = ((<<Line("interface", k.name), d>> \o CiscoMode(k)) \o state) \o speed
      BY DEF CiscoBlock
    <2>5. CiscoRest(k) = <<d>> \o (CiscoMode(k) \o (state \o speed))
      BY DEF CiscoRest
    <2> HIDE DEF d, state, speed
    <2>3. d \in Others
      <3>1. \A e : <<e>> \in Seq(Others) => <<e>>[1] \in Others /\ <<e>>[1] = e
        OBVIOUS
      <3> QED
        BY <2>2, <3>1
    <2>6. IsBlock(((<<Line("interface", k.name), d>> \o CiscoMode(k)) \o state) \o speed, k.name,
                  <<d>> \o (CiscoMode(k) \o (state \o speed)))
      BY <2>1, <2>2, <2>3, BlockParts
    <2> QED
      BY <2>4, <2>5, <2>6
  <1>2. CiscoBlock(i) \in BlocksOf(Texts, Heading) /\ CiscoBlock(i)[1] = Line("interface", i.name)
    BY <1>1, Headed
  <1>3. CiscoBlock(i) = CiscoBlock(j) <=> i.name = j.name /\ CiscoRest(i) = CiscoRest(j)
    BY <1>1, SameHeaded
  <1>4. Shown("cisco", i) = Shown("cisco", j) <=>
          /\ i.name = j.name /\ Described(i) = Described(j) /\ i.vlan = j.vlan
          /\ i.status = "down" <=> j.status = "down"
          /\ i.fast = j.fast
    BY DEF Shown
  <1>5. Described(i) = Described(j) /\ i.vlan = j.vlan /\ (i.status = "down" <=> j.status = "down")
        /\ i.fast = j.fast => CiscoRest(i) = CiscoRest(j)
    BY CiscoModeSays DEF CiscoRest
  <1> QED
    BY <1>2, <1>3, <1>4, <1>5, CiscoRestSays

\* A part of one line.
LEMMA OneLine ==
  ASSUME NEW w \in Phrases, NEW x \in Data
  PROVE  <<Line(w, x)>> \in Seq(Others) /\ Len(<<Line(w, x)>>) >= 1 /\ <<Line(w, x)>>[1] = Line(w, x)
  <1>1. <<Line(w, x)>> \in Seq(Others)
    BY OtherLine
  <1> HIDE DEF Line
  <1>2. Len(<<Line(w, x)>>) >= 1 /\ <<Line(w, x)>>[1] = Line(w, x)
    OBVIOUS
  <1> QED
    BY <1>1, <1>2

\* A part may be empty.
LEMMA EmptyRest == <<>> \in Seq(Others)
  OBVIOUS

\* Parts that are not empty, and are the same if their first lines are.
Known(p, q) == /\ p \in Seq(Others) /\ q \in Seq(Others) /\ Len(p) >= 1 /\ Len(q) >= 1
               /\ p[1] = q[1] => p = q

One(w, p, s)         == s \in Seq(Others) /\ w = p \o s
Two(w, p, q, s)      == s \in Seq(Others) /\ w = p \o (q \o s)
Three(w, p, q, r, s) == s \in Seq(Others) /\ w = p \o (q \o (r \o s))

\* Parts, the first of which tells itself by its first line, are the same if the texts are.
LEMMA OnePeel ==
  ASSUME NEW w, NEW p, NEW q, Known(p, q), NEW s, NEW t, One(w, p, s), One(w, q, t)
  PROVE  p = q /\ s = t
  <1>1. Cut(Others, p, s, w) /\ Cut(Others, q, t, w)
    BY DEF Cut, Known, One
  <1>2. p[1] = q[1] /\ (p = q => s = t)
    BY <1>1, CutOnce
  <1> QED
    BY <1>2 DEF Known

\* The same of two parts.
LEMMA TwoPeel ==
  ASSUME NEW w, NEW p, NEW p2, NEW q, NEW q2, Known(p, p2), Known(q, q2),
         NEW s, NEW s2, Two(w, p, q, s), Two(w, p2, q2, s2)
  PROVE  p = p2 /\ q = q2 /\ s = s2
  <1>1. /\ q \in Seq(Others) /\ q2 \in Seq(Others) /\ s \in Seq(Others) /\ s2 \in Seq(Others)
        /\ w = p \o (q \o s) /\ w = p2 \o (q2 \o s2)
    BY DEF Known, Two
  <1>2. PICK x \in Seq(Others) : x = q \o s
    BY <1>1, ConcatFacts
  <1>3. PICK y \in Seq(Others) : y = q2 \o s2
    BY <1>1, ConcatFacts
  <1>4. One(w, p, x) /\ One(w, p2, y)
    BY <1>1, <1>2, <1>3 DEF One
  <1>5. p = p2 /\ x = y
    BY <1>4, OnePeel
  <1>6. One(x, q, s) /\ One(x, q2, s2)
    BY <1>1, <1>2, <1>3, <1>5 DEF One
  <1>7. q = q2 /\ s = s2
    BY <1>6, OnePeel
  <1> QED
    BY <1>5, <1>7

\* The same of three.
LEMMA ThreePeel ==
  ASSUME NEW w, NEW p, NEW p2, NEW q, NEW q2, NEW r, NEW r2, Known(p, p2), Known(q, q2), Known(r, r2),
         NEW s, NEW s2, Three(w, p, q, r, s), Three(w, p2, q2, r2, s2)
  PROVE  p = p2 /\ q = q2 /\ r = r2 /\ s = s2
  <1>1. /\ r \in Seq(Others) /\ r2 \in Seq(Others) /\ s \in Seq(Others) /\ s2 \in Seq(Others)
        /\ w = p \o (q \o (r \o s)) /\ w = p2 \o (q2 \o (r2 \o s2))
    BY DEF Known, Three
  <1>2. PICK x \in Seq(Others) : x = r \o s
    BY <1>1, ConcatFacts
  <1>3. PICK y \in Seq(Others) : y = r2 \o s2
    BY <1>1, ConcatFacts
  <1>4. Two(w, p, q, x) /\ Two(w, p2, q2, y)
    BY <1>1, <1>2, <1>3 DEF Two
  <1>5. p = p2 /\ q = q2 /\ x = y
    BY <1>4, TwoPeel
  <1>6. One(x, r, s) /\ One(x, r2, s2)
    BY <1>1, <1>2, <1>3, <1>5 DEF One
  <1>7. r = r2 /\ s = s2
    BY <1>6, OnePeel
  <1> QED
    BY <1>5, <1>7

\* A line that may be left out.
LEMMA MayBe ==
  ASSUME NEW c \in BOOLEAN, NEW w \in Phrases
  PROVE  LET s == IF c THEN Plain(w) ELSE <<>> IN s \in Seq(Others) /\ (s = <<>> <=> ~c)
  <1>1. Plain(w) \in Seq(Others) /\ Len(Plain(w)) >= 1
    BY PlainLine
  <1>2. Plain(w) # <<>>
    BY <1>1
  <1> QED
    BY <1>1, <1>2, EmptyRest

\* First and Lower replace parts.
LEMMA JunosType ==
  ASSUME NEW n \in Seq(Chars)
  PROVE  /\ Lowered(n) \in Seq(Chars) /\ JunosName(n) \in Seq(Chars)
         /\ DOMAIN JunosName(n) = DOMAIN n /\ DOMAIN Lowered(n) = DOMAIN n
  <1>1. DOMAIN n = 1..Len(n) /\ Len(n) \in Nat
    OBVIOUS
  <1>2. \A k \in DOMAIN n : Lower(n[k]) \in Chars
    <2>1. \A k \in DOMAIN n : n[k] \in Chars
      OBVIOUS
    <2> QED
      BY <2>1, SomeChars DEF Lower
  <1>3. Lowered(n) \in [1..Len(n) -> Chars]
    BY <1>1, <1>2 DEF Lowered
  <1>4. ASSUME NEW m \in [1..Len(n) -> Chars], NEW part, NEW by \in Chars
        PROVE  First(m, part, by) \in [1..Len(n) -> Chars]
    BY DEF First
  <1>5. JunosName(n) \in [1..Len(n) -> Chars]
    BY <1>3, <1>4, SomeChars DEF JunosName
  <1> QED
    BY <1>1, <1>3, <1>5

JunosRest(k) ==
  <<Line("description", <<k.desc>>)>>
  \o (Plain(IF k.fast THEN "speed 10g" ELSE "speed 1g")
      \o (JunosUnit(k) \o (IF k.status = "down" THEN Plain("disable") ELSE <<>>)))

\* The parts of a block of Juniper's.
LEMMA JunosParts ==
  ASSUME NEW k \in Interface
  PROVE  LET desc  == <<Line("description", <<k.desc>>)>>
             speed == Plain(IF k.fast THEN "speed 10g" ELSE "speed 1g")
             unit  == Line(IF k.vlan = "trunk" THEN "interface-mode trunk"
                           ELSE IF k.vlan = "" THEN "family inet address dhcp"
                           ELSE "interface-mode access; vlan members",
                           IF k.vlan \in {"trunk", ""} THEN <<>> ELSE <<k.vlan>>)
             down  == IF k.status = "down" THEN Plain("disable") ELSE <<>>
         IN /\ desc \in Seq(Others) /\ Len(desc) >= 1 /\ desc[1] = Line("description", <<k.desc>>)
            /\ speed \in Seq(Others) /\ Len(speed) >= 1
            /\ speed[1] = Line(IF k.fast THEN "speed 10g" ELSE "speed 1g", <<>>)
            /\ JunosUnit(k) \in Seq(Others) /\ Len(JunosUnit(k)) >= 1 /\ JunosUnit(k)[1] = unit
            /\ down \in Seq(Others) /\ (down = <<>> <=> k.status # "down")
            /\ IsBlock(JunosBlock(k), JunosName(k.name), JunosRest(k))
  <1> DEFINE d     == Line("description", <<k.desc>>)
             sp    == IF k.fast THEN "speed 10g" ELSE "speed 1g"
             words == IF k.vlan = "trunk" THEN "interface-mode trunk"
                      ELSE IF k.vlan = "" THEN "family inet address dhcp"
                      ELSE "interface-mode access; vlan members"
             data  == IF k.vlan \in {"trunk", ""} THEN <<>> ELSE <<k.vlan>>
             down  == IF k.status = "down" THEN Plain("disable") ELSE <<>>
  <1>1. <<d>> \in Seq(Others) /\ Len(<<d>>) >= 1 /\ <<d>>[1] = d /\ d \in Others
    <2>1. <<k.desc>> \in Data
      BY InterfaceTypes, DataTypes
    <2> QED
      BY <2>1, OneLine, OtherLine DEF Phrases
  <1>2. Plain(sp) \in Seq(Others) /\ Len(Plain(sp)) >= 1 /\ Plain(sp)[1] = Line(sp, <<>>)
    <2>1. sp \in Phrases
      BY DEF Phrases
    <2> QED
      BY <2>1, PlainLine
  <1>3. JunosUnit(k) \in Seq(Others) /\ Len(JunosUnit(k)) >= 1 /\ JunosUnit(k)[1] = Line(words, data)
    <2>1. words \in Phrases
      BY DEF Phrases
    <2>2. data \in Data
      BY InterfaceTypes, DataTypes
    <2>3. JunosUnit(k) = <<Line(words, data)>>
      <3>1. CASE k.vlan = "trunk"
        BY <3>1 DEF JunosUnit, Plain
      <3>2. CASE k.vlan = ""
        BY <3>2 DEF JunosUnit, Plain
      <3>3. CASE k.vlan \notin {"trunk", ""}
        BY <3>3 DEF JunosUnit, Plain
      <3> QED
        BY <3>1, <3>2, <3>3
    <2> HIDE DEF words, data
    <2> QED
      BY <2>1, <2>2, <2>3, OneLine
  <1>4. down \in Seq(Others) /\ (down = <<>> <=> k.status # "down")
    <2>1. PICK c \in BOOLEAN : c = (k.status = "down")
      OBVIOUS
    <2>2. "disable" \in Phrases
      BY DEF Phrases
    <2> QED
      BY <2>1, <2>2, MayBe
  <1>5. JunosName(k.name) \in Data
    BY InterfaceTypes, JunosType, DataTypes
  <1>6. JunosBlock(k) = ((<<Line("interface", JunosName(k.name)), d>> \o Plain(sp)) \o JunosUnit(k)) \o down
    BY DEF JunosBlock
  <1>7. JunosRest(k) = <<d>> \o (Plain(sp) \o (JunosUnit(k) \o down))
    BY DEF JunosRest
  <1>8. IsBlock(JunosBlock(k), JunosName(k.name), JunosRest(k))
    <2> HIDE DEF d, sp, down
    <2> QED
      BY <1>1, <1>2, <1>3, <1>4, <1>5, <1>6, <1>7, BlockParts
  <1> QED
    BY <1>1, <1>2, <1>3, <1>4, <1>8

\* A text of one line tells it.
LEMMA SameText == ASSUME NEW x, NEW y PROVE <<x>> = <<y>> => x = y
  OBVIOUS

\* A block of Juniper's is headed by the JunOS name, and says what Shown says.
LEMMA JunosBlocks ==
  ASSUME NEW i \in Interface, NEW j \in Interface
  PROVE  /\ JunosBlock(i) \in BlocksOf(Texts, Heading)
         /\ JunosBlock(i)[1] = Line("interface", JunosName(i.name))
         /\ JunosBlock(i) = JunosBlock(j) <=> Shown("juniper", i) = Shown("juniper", j)
  <1> DEFINE desc(k)  == <<Line("description", <<k.desc>>)>>
             sp(k)    == IF k.fast THEN "speed 10g" ELSE "speed 1g"
             words(k) == IF k.vlan = "trunk" THEN "interface-mode trunk"
                         ELSE IF k.vlan = "" THEN "family inet address dhcp"
                         ELSE "interface-mode access; vlan members"
             data(k)  == IF k.vlan \in {"trunk", ""} THEN <<>> ELSE <<k.vlan>>
             down(k)  == IF k.status = "down" THEN Plain("disable") ELSE <<>>
             same     == /\ i.desc = j.desc /\ i.vlan = j.vlan /\ i.fast = j.fast
                         /\ i.status = "down" <=> j.status = "down"
  <1>1. ASSUME NEW k \in Interface
        PROVE  /\ desc(k) \in Seq(Others) /\ Len(desc(k)) >= 1 /\ desc(k)[1] = Line("description", <<k.desc>>)
               /\ Plain(sp(k)) \in Seq(Others) /\ Len(Plain(sp(k))) >= 1
               /\ Plain(sp(k))[1] = Line(sp(k), <<>>)
               /\ JunosUnit(k) \in Seq(Others) /\ Len(JunosUnit(k)) >= 1
               /\ JunosUnit(k)[1] = Line(words(k), data(k))
               /\ down(k) \in Seq(Others) /\ (down(k) = <<>> <=> k.status # "down")
               /\ IsBlock(JunosBlock(k), JunosName(k.name), JunosRest(k))
               /\ k.fast \in BOOLEAN
    BY JunosParts, InterfaceTypes
  <1>2. same => JunosRest(i) = JunosRest(j)
    BY DEF JunosRest, JunosUnit
  <1>3. Shown("juniper", i) = Shown("juniper", j) <=> JunosName(i.name) = JunosName(j.name) /\ same
    BY DEF Shown
  <1>4. /\ JunosRest(i) = desc(i) \o (Plain(sp(i)) \o (JunosUnit(i) \o down(i)))
        /\ JunosRest(j) = desc(j) \o (Plain(sp(j)) \o (JunosUnit(j) \o down(j)))
    BY DEF JunosRest
  <1>5. sp(i) = sp(j) => i.fast = j.fast
    BY <1>1
  <1>6. words(i) = words(j) /\ data(i) = data(j) => i.vlan = j.vlan
    BY SameText
  <1>7. /\ i.desc = j.desc => desc(i) = desc(j)
        /\ i.fast = j.fast => Plain(sp(i)) = Plain(sp(j))
        /\ i.vlan = j.vlan => JunosUnit(i) = JunosUnit(j)
    BY DEF JunosUnit
  <1> HIDE DEF desc, sp, words, data, down
  <1>8. Known(desc(i), desc(j)) /\ (desc(i) = desc(j) => i.desc = j.desc)
    <2>1. Line("description", <<i.desc>>) = Line("description", <<j.desc>>) => i.desc = j.desc
      BY SameLine, SameText
    <2> QED
      BY <1>1, <1>7, <2>1 DEF Known
  <1>9. Known(Plain(sp(i)), Plain(sp(j))) /\ (Plain(sp(i)) = Plain(sp(j)) => i.fast = j.fast)
    <2>1. Line(sp(i), <<>>) = Line(sp(j), <<>>) => i.fast = j.fast
      BY <1>5, SameLine
    <2> QED
      BY <1>1, <1>7, <2>1 DEF Known
  <1>10. Known(JunosUnit(i), JunosUnit(j)) /\ (JunosUnit(i) = JunosUnit(j) => i.vlan = j.vlan)
    <2>1. Line(words(i), data(i)) = Line(words(j), data(j)) => i.vlan = j.vlan
      BY <1>6, SameLine
    <2> QED
      BY <1>1, <1>7, <2>1 DEF Known
  <1>11. JunosRest(i) = JunosRest(j) =>
           desc(i) = desc(j) /\ Plain(sp(i)) = Plain(sp(j)) /\ JunosUnit(i) = JunosUnit(j) /\ down(i) = down(j)
    <2>1. SUFFICES ASSUME JunosRest(i) = JunosRest(j)
                   PROVE  desc(i) = desc(j) /\ Plain(sp(i)) = Plain(sp(j)) /\ JunosUnit(i) = JunosUnit(j)
                          /\ down(i) = down(j)
      OBVIOUS
    <2>2. /\ Three(JunosRest(i), desc(i), Plain(sp(i)), JunosUnit(i), down(i))
          /\ Three(JunosRest(i), desc(j), Plain(sp(j)), JunosUnit(j), down(j))
      BY <1>1, <1>4, <2>1 DEF Three
    <2> QED
      BY <1>8, <1>9, <1>10, <2>2, ThreePeel
  <1>12. JunosRest(i) = JunosRest(j) => same
    BY <1>1, <1>8, <1>9, <1>10, <1>11
  <1> HIDE DEF same
  <1>13. JunosBlock(i) \in BlocksOf(Texts, Heading) /\ JunosBlock(i)[1] = Line("interface", JunosName(i.name))
    BY <1>1, Headed
  <1>14. JunosBlock(i) = JunosBlock(j) <=> JunosName(i.name) = JunosName(j.name) /\ JunosRest(i) = JunosRest(j)
    <2>1. /\ IsBlock(JunosBlock(i), JunosName(i.name), JunosRest(i))
          /\ IsBlock(JunosBlock(j), JunosName(j.name), JunosRest(j))
      BY <1>1
    <2> QED
      BY <2>1, SameHeaded
  <1> QED
    BY <1>2, <1>3, <1>12, <1>13, <1>14

AristaRest(k) ==
  <<Line("description", <<k.desc>>)>>
  \o (AristaMode(k) \o (IF k.status = "down" THEN Plain("shutdown") ELSE <<>>))

\* A block of Arista's is headed by the name, and says what Shown says.
LEMMA AristaBlocks ==
  ASSUME NEW i \in Interface, NEW j \in Interface
  PROVE  /\ AristaBlock(i) \in BlocksOf(Texts, Heading)
         /\ AristaBlock(i)[1] = Line("interface", i.name)
         /\ AristaBlock(i) = AristaBlock(j) <=> Shown("arista", i) = Shown("arista", j)
  <1> DEFINE d(k)     == Line("description", <<k.desc>>)
             desc(k)  == <<d(k)>>
             words(k) == IF k.vlan = "trunk" THEN "switchport mode trunk"
                         ELSE IF k.vlan = "" THEN "no switchport"
                         ELSE "switchport access vlan"
             data(k)  == IF k.vlan \in {"trunk", ""} THEN <<>> ELSE <<k.vlan>>
             down(k)  == IF k.status = "down" THEN Plain("shutdown") ELSE <<>>
             same     == /\ i.desc = j.desc /\ i.vlan = j.vlan
                         /\ i.status = "down" <=> j.status = "down"
  <1>1. ASSUME NEW k \in Interface
        PROVE  /\ desc(k) \in Seq(Others) /\ Len(desc(k)) >= 1 /\ desc(k)[1] = d(k)
               /\ AristaMode(k) \in Seq(Others) /\ Len(AristaMode(k)) >= 1
               /\ AristaMode(k)[1] = Line(words(k), data(k))
               /\ down(k) \in Seq(Others) /\ (down(k) = <<>> <=> k.status # "down")
               /\ IsBlock(AristaBlock(k), k.name, AristaRest(k))
    <2>1. desc(k) \in Seq(Others) /\ Len(desc(k)) >= 1 /\ desc(k)[1] = d(k) /\ d(k) \in Others
      <3>1. <<k.desc>> \in Data
        BY InterfaceTypes, DataTypes
      <3> QED
        BY <3>1, OneLine, OtherLine DEF Phrases
    <2>2. AristaMode(k) \in Seq(Others) /\ Len(AristaMode(k)) >= 1 /\ AristaMode(k)[1] = Line(words(k), data(k))
      <3>1. words(k) \in Phrases
        BY DEF Phrases
      <3>2. data(k) \in Data
        BY InterfaceTypes, DataTypes
      <3>3. AristaMode(k) = <<Line(words(k), data(k))>>
        <4>1. CASE k.vlan = "trunk"
          BY <4>1 DEF AristaMode, Plain
        <4>2. CASE k.vlan = ""
          BY <4>2 DEF AristaMode, Plain
        <4>3. CASE k.vlan \notin {"trunk", ""}
          BY <4>3 DEF AristaMode, Plain
        <4> QED
          BY <4>1, <4>2, <4>3
      <3> HIDE DEF words, data
      <3> QED
        BY <3>1, <3>2, <3>3, OneLine
    <2>3. down(k) \in Seq(Others) /\ (down(k) = <<>> <=> k.status # "down")
      <3>1. PICK c \in BOOLEAN : c = (k.status = "down")
        OBVIOUS
      <3>2. "shutdown" \in Phrases
        BY DEF Phrases
      <3> QED
        BY <3>1, <3>2, MayBe
    <2>4. k.name \in Data
      BY InterfaceTypes, DataTypes
    <2>5. AristaBlock(k) = (<<Line("interface", k.name), d(k)>> \o AristaMode(k)) \o down(k)
      BY DEF AristaBlock
    <2>6. AristaRest(k) = <<d(k)>> \o (AristaMode(k) \o down(k))
      BY DEF AristaRest
    <2>7. IsBlock(AristaBlock(k), k.name, AristaRest(k))
      <3> HIDE DEF d, down
      <3>1. IsBlock((<<Line("interface", k.name), d(k)>> \o AristaMode(k)) \o down(k), k.name,
                    <<d(k)>> \o (AristaMode(k) \o down(k)))
        BY <2>1, <2>2, <2>3, <2>4, BlockParts
      <3> QED
        BY <2>5, <2>6, <3>1
    <2> QED
      BY <2>1, <2>2, <2>3, <2>7
  <1>2. same => AristaRest(i) = AristaRest(j)
    BY DEF AristaRest, AristaMode
  <1>3. Shown("arista", i) = Shown("arista", j) <=> i.name = j.name /\ same
    BY DEF Shown
  <1>4. /\ AristaRest(i) = desc(i) \o (AristaMode(i) \o down(i))
        /\ AristaRest(j) = desc(j) \o (AristaMode(j) \o down(j))
    BY DEF AristaRest
  <1>5. words(i) = words(j) /\ data(i) = data(j) => i.vlan = j.vlan
    BY SameText
  <1>6. /\ i.desc = j.desc => desc(i) = desc(j)
        /\ i.vlan = j.vlan => AristaMode(i) = AristaMode(j)
    BY DEF AristaMode
  <1>7. d(i) = d(j) => i.desc = j.desc
    BY SameLine, SameText
  <1> HIDE DEF d, desc, words, data, down
  <1>8. Known(desc(i), desc(j)) /\ (desc(i) = desc(j) => i.desc = j.desc)
    BY <1>1, <1>6, <1>7 DEF Known
  <1>9. Known(AristaMode(i), AristaMode(j)) /\ (AristaMode(i) = AristaMode(j) => i.vlan = j.vlan)
    <2>1. Line(words(i), data(i)) = Line(words(j), data(j)) => i.vlan = j.vlan
      BY <1>5, SameLine
    <2> QED
      BY <1>1, <1>6, <2>1 DEF Known
  <1>10. AristaRest(i) = AristaRest(j) => same
    <2>1. SUFFICES ASSUME AristaRest(i) = AristaRest(j) PROVE same
      OBVIOUS
    <2>2. /\ Two(AristaRest(i), desc(i), AristaMode(i), down(i))
          /\ Two(AristaRest(i), desc(j), AristaMode(j), down(j))
      BY <1>1, <1>4, <2>1 DEF Two
    <2>3. desc(i) = desc(j) /\ AristaMode(i) = AristaMode(j) /\ down(i) = down(j)
      BY <1>8, <1>9, <2>2, TwoPeel
    <2> QED
      BY <1>1, <1>8, <1>9, <2>3
  <1> HIDE DEF same
  <1>11. /\ IsBlock(AristaBlock(i), i.name, AristaRest(i))
         /\ IsBlock(AristaBlock(j), j.name, AristaRest(j))
    BY <1>1
  <1>12. AristaBlock(i) \in BlocksOf(Texts, Heading) /\ AristaBlock(i)[1] = Line("interface", i.name)
    BY <1>11, Headed
  <1>13. AristaBlock(i) = AristaBlock(j) <=> i.name = j.name /\ AristaRest(i) = AristaRest(j)
    BY <1>11, SameHeaded
  <1> QED
    BY <1>2, <1>3, <1>10, <1>12, <1>13

\* Blocks of a fixed number of lines.
LEMMA ShortBlock ==
  ASSUME NEW x \in Data, NEW d \in Others, NEW e \in Others
  PROVE  /\ IsBlock(<<Line("interface", x), d>>, x, <<d>>)
         /\ IsBlock(<<Line("interface", x), d, e>>, x, <<d, e>>)
  <1>1. PICK h \in Texts : h = Line("interface", x)
    BY HeadLine
  <1>2. d \in Texts /\ e \in Texts
    BY DEF Others
  <1>3. <<d>> \in Seq(Others) /\ <<d, e>> \in Seq(Others)
    OBVIOUS
  <1>4. <<h>> \o <<d>> = <<h, d>>
    BY <1>2, TwoLines
  <1>5. <<h>> \o <<d, e>> = <<h, d, e>>
    <2> DEFINE u == <<h>> \o <<d, e>>
               v == <<h, d, e>>
    <2>1. u \in Seq(Texts) /\ Len(u) = 3 /\ u[1] = h /\ u[2] = d /\ u[3] = e
      <3>1. <<h>> \in Seq(Texts) /\ <<d, e>> \in Seq(Texts)
        BY <1>2
      <3> QED
        BY <1>2, <3>1, ConcatFacts
    <2>2. v \in Seq(Texts) /\ Len(v) = 3 /\ v[1] = h /\ v[2] = d /\ v[3] = e
      BY <1>2
    <2> HIDE DEF u, v
    <2>3. \A i \in 1..Len(u) : u[i] = v[i]
      <3>1. \A i \in 1..3 : i = 1 \/ i = 2 \/ i = 3
        OBVIOUS
      <3> QED
        BY <2>1, <2>2, <3>1
    <2>4. u = v
      BY <2>1, <2>2, <2>3, SeqEqual
    <2> QED
      BY <2>4 DEF u, v
  <1> QED
    BY <1>1, <1>3, <1>4, <1>5 DEF IsBlock

\* So does one of any other vendor's.
LEMMA GenericBlocks ==
  ASSUME NEW i \in Interface, NEW j \in Interface
  PROVE  /\ GenericBlock(i) \in BlocksOf(Texts, Heading)
         /\ GenericBlock(i)[1] = Line("interface", i.name)
         /\ \A b : b \notin {"cisco", "juniper", "arista", "palo", "nokia"} =>
              (GenericBlock(i) = GenericBlock(j) <=> Shown(b, i) = Shown(b, j))
  <1> DEFINE d(k) == Line("", <<k.desc, k.status, k.vlan>>)
  <1>1. ASSUME NEW k \in Interface PROVE IsBlock(GenericBlock(k), k.name, <<d(k)>>)
    <2>1. k.name \in Data /\ <<k.desc, k.status, k.vlan>> \in Data
      BY InterfaceTypes, DataTypes
    <2>2. d(k) \in Others
      BY <2>1, OtherLine DEF Phrases
    <2> QED
      BY <2>1, <2>2, ShortBlock DEF GenericBlock
  <1>2. d(i) = d(j) <=> i.desc = j.desc /\ i.status = j.status /\ i.vlan = j.vlan
    <2>1. <<i.desc, i.status, i.vlan>> = <<j.desc, j.status, j.vlan>>
            <=> i.desc = j.desc /\ i.status = j.status /\ i.vlan = j.vlan
      OBVIOUS
    <2>2. PICK w : \A k : d(k) = Line(w, <<k.desc, k.status, k.vlan>>)
      OBVIOUS
    <2> HIDE DEF d
    <2>3. d(i) = d(j) <=> Line(w, <<i.desc, i.status, i.vlan>>) = Line(w, <<j.desc, j.status, j.vlan>>)
      BY <2>2
    <2>4. \A x, y : Line(w, x) = Line(w, y) <=> x = y
      BY SameLine
    <2> QED
      BY <2>1, <2>3, <2>4
  <1>3. ASSUME NEW b, b \notin {"cisco", "juniper", "arista", "palo", "nokia"}
        PROVE  Shown(b, i) = Shown(b, j) <=>
                 i.name = j.name /\ i.desc = j.desc /\ i.status = j.status /\ i.vlan = j.vlan
    BY <1>3 DEF Shown
  <1> HIDE DEF d
  <1>4. IsBlock(GenericBlock(i), i.name, <<d(i)>>) /\ IsBlock(GenericBlock(j), j.name, <<d(j)>>)
    BY <1>1
  <1>5. GenericBlock(i) \in BlocksOf(Texts, Heading) /\ GenericBlock(i)[1] = Line("interface", i.name)
    BY <1>4, Headed
  <1>6. GenericBlock(i) = GenericBlock(j) <=> i.name = j.name /\ <<d(i)>> = <<d(j)>>
    BY <1>4, SameHeaded
  <1>7. <<d(i)>> = <<d(j)>> <=> d(i) = d(j)
    BY SameText
  <1> QED
    BY <1>2, <1>3, <1>5, <1>6, <1>7

\* A block of the firewall's shows a name in small letters, and the description.
LEMMA PanosBlocks ==
  ASSUME NEW d \in Device, NEW i \in Interface, NEW j \in Interface
  PROVE  /\ PanosBlock(d, i) \in BlocksOf(Texts, Heading)
         /\ PanosBlock(d, i)[1] = Line("interface", Lowered(i.name))
         /\ PanosBlock(d, i) = PanosBlock(d, j) <=> Lowered(i.name) = Lowered(j.name) /\ i.desc = j.desc
  <1> DEFINE ip == Line("layer3 ip", <<d.ip>>)
             c(k) == Line("comment", <<k.desc>>)
  <1>1. ASSUME NEW k \in Interface PROVE IsBlock(PanosBlock(d, k), Lowered(k.name), <<ip, c(k)>>)
    <2>1. Lowered(k.name) \in Data /\ <<k.desc>> \in Data /\ <<d.ip>> \in Data
      BY InterfaceTypes, DeviceTypes, JunosType, DataTypes
    <2>2. ip \in Others /\ c(k) \in Others
      BY <2>1, OtherLine DEF Phrases
    <2> QED
      BY <2>1, <2>2, ShortBlock DEF PanosBlock
  <1>2. c(i) = c(j) <=> i.desc = j.desc
    BY SameLine, SameText
  <1> HIDE DEF ip, c
  <1>3. IsBlock(PanosBlock(d, i), Lowered(i.name), <<ip, c(i)>>) /\ IsBlock(PanosBlock(d, j), Lowered(j.name), <<ip, c(j)>>)
    BY <1>1
  <1>4. PanosBlock(d, i) \in BlocksOf(Texts, Heading) /\ PanosBlock(d, i)[1] = Line("interface", Lowered(i.name))
    BY <1>3, Headed
  <1>5. PanosBlock(d, i) = PanosBlock(d, j) <=> Lowered(i.name) = Lowered(j.name) /\ <<ip, c(i)>> = <<ip, c(j)>>
    BY <1>3, SameHeaded
  <1>6. <<ip, c(i)>> = <<ip, c(j)>> <=> c(i) = c(j)
    OBVIOUS
  <1> QED
    BY <1>2, <1>4, <1>5, <1>6

NokiaRest(i) ==
  <<Line("description", <<i.desc>>)>>
  \o (Plain(IF i.status = "down" THEN "admin-state disable" ELSE "admin-state enable")
      \o (Plain(IF i.vlan = "trunk" THEN "mode hybrid" ELSE "mode access")
          \o Plain(IF i.fast THEN "speed auto" ELSE "speed 1000")))

\* Two words for two cases tell them apart.
LEMMA TwoWords ==
  ASSUME NEW u \in Phrases, NEW v \in Phrases, u # v, NEW a \in BOOLEAN, NEW b \in BOOLEAN
  PROVE  LET s == Plain(IF a THEN u ELSE v)
             t == Plain(IF b THEN u ELSE v)
         IN /\ s \in Seq(Others) /\ Known(s, t) /\ (s = t <=> a = b)
  <1>1. PICK x \in Phrases, y \in Phrases : x = (IF a THEN u ELSE v) /\ y = (IF b THEN u ELSE v)
    OBVIOUS
  <1>2. Plain(x) \in Seq(Others) /\ Len(Plain(x)) >= 1 /\ Plain(x)[1] = Line(x, <<>>)
    BY PlainLine
  <1>3. Plain(y) \in Seq(Others) /\ Len(Plain(y)) >= 1 /\ Plain(y)[1] = Line(y, <<>>)
    BY PlainLine
  <1>4. Line(x, <<>>) = Line(y, <<>>) => x = y
    BY SameLine
  <1>5. x = y <=> a = b
    BY <1>1
  <1>6. Known(Plain(x), Plain(y)) /\ (Plain(x) = Plain(y) <=> a = b)
    BY <1>2, <1>3, <1>4, <1>5 DEF Known
  <1> QED
    BY <1>1, <1>2, <1>6

\* The ports of two lists, at one place or at two.
LEMMA NokiaBlocks ==
  ASSUME NEW ifs \in Seq(Interface), NEW k \in 1..Len(ifs)
  PROVE  /\ NokiaPort(ifs, k) \in BlocksOf(Texts, Heading)
         /\ NokiaPort(ifs, k)[1] = Line("interface", <<k, k>>)
         /\ \A after \in Seq(Interface) : k \in 1..Len(after) =>
              (NokiaPort(ifs, k) = NokiaPort(after, k) <=> Shown("nokia", ifs[k]) = Shown("nokia", after[k]))
  <1> DEFINE d(i) == Line("description", <<i.desc>>)
             desc(i) == <<d(i)>>
             adm(i) == Plain(IF i.status = "down" THEN "admin-state disable" ELSE "admin-state enable")
             mode(i) == Plain(IF i.vlan = "trunk" THEN "mode hybrid" ELSE "mode access")
             fast(i) == Plain(IF i.fast THEN "speed auto" ELSE "speed 1000")
  <1>1. ASSUME NEW s \in Seq(Interface), k \in 1..Len(s) PROVE s[k] \in Interface
    BY <1>1
  <1>2. ASSUME NEW i \in Interface, NEW j \in Interface
        PROVE  /\ adm(i) \in Seq(Others) /\ Known(adm(i), adm(j))
               /\ adm(i) = adm(j) <=> (i.status = "down" <=> j.status = "down")
               /\ mode(i) \in Seq(Others) /\ Known(mode(i), mode(j))
               /\ mode(i) = mode(j) <=> (i.vlan = "trunk" <=> j.vlan = "trunk")
               /\ fast(i) \in Seq(Others)
               /\ fast(i) = fast(j) <=> i.fast = j.fast
    <2>1. PICK a \in BOOLEAN, b \in BOOLEAN : a = (i.status = "down") /\ b = (j.status = "down")
      OBVIOUS
    <2>2. PICK e \in BOOLEAN, f \in BOOLEAN : e = (i.vlan = "trunk") /\ f = (j.vlan = "trunk")
      OBVIOUS
    <2>3. i.fast \in BOOLEAN /\ j.fast \in BOOLEAN
      BY InterfaceTypes
    <2>4. {"admin-state disable", "admin-state enable", "mode hybrid", "mode access", "speed auto", "speed 1000"}
            \subseteq Phrases
      BY DEF Phrases
    <2>5. adm(i) \in Seq(Others) /\ Known(adm(i), adm(j)) /\ (adm(i) = adm(j) <=> a = b)
      BY <2>1, <2>4, TwoWords
    <2>6. mode(i) \in Seq(Others) /\ Known(mode(i), mode(j)) /\ (mode(i) = mode(j) <=> e = f)
      BY <2>2, <2>4, TwoWords
    <2>7. fast(i) \in Seq(Others) /\ (fast(i) = fast(j) <=> i.fast = j.fast)
      BY <2>3, <2>4, TwoWords
    <2> HIDE DEF adm, mode, fast
    <2> QED
      BY <2>1, <2>2, <2>5, <2>6, <2>7
  <1>3. ASSUME NEW i \in Interface PROVE d(i) \in Others /\ desc(i) \in Seq(Others)
        /\ Len(desc(i)) >= 1 /\ desc(i)[1] = d(i)
    <2>1. <<i.desc>> \in Data
      BY InterfaceTypes, DataTypes
    <2> QED
      BY <2>1, OtherLine, OneLine DEF Phrases
  <1>4. ASSUME NEW i, NEW j PROVE d(i) = d(j) <=> i.desc = j.desc
    BY SameLine, SameText
  <1>5. ASSUME NEW s \in Seq(Interface), k \in 1..Len(s)
        PROVE  IsBlock(NokiaPort(s, k), <<k, k>>, NokiaRest(s[k]))
    <2>1. <<k, k>> \in Data
      BY DataTypes
    <2>2. NokiaPort(s, k) = ((<<Line("interface", <<k, k>>), d(s[k])>> \o adm(s[k])) \o mode(s[k])) \o fast(s[k])
      BY DEF NokiaPort
    <2>3. NokiaRest(s[k]) = <<d(s[k])>> \o (adm(s[k]) \o (mode(s[k]) \o fast(s[k])))
      BY DEF NokiaRest
    <2>4. s[k] \in Interface
      BY <1>1, <1>5
    <2> HIDE DEF d, desc, adm, mode, fast
    <2>5. /\ d(s[k]) \in Others /\ adm(s[k]) \in Seq(Others) /\ mode(s[k]) \in Seq(Others)
          /\ fast(s[k]) \in Seq(Others)
      BY <1>2, <1>3, <2>4
    <2>6. IsBlock(((<<Line("interface", <<k, k>>), d(s[k])>> \o adm(s[k])) \o mode(s[k])) \o fast(s[k]), <<k, k>>,
                  <<d(s[k])>> \o (adm(s[k]) \o (mode(s[k]) \o fast(s[k]))))
      <3>1. PICK x \in Data : x = <<k, k>>
        BY <2>1
      <3>2. IsBlock(((<<Line("interface", x), d(s[k])>> \o adm(s[k])) \o mode(s[k])) \o fast(s[k]), x,
                    <<d(s[k])>> \o (adm(s[k]) \o (mode(s[k]) \o fast(s[k]))))
        BY <2>5, BlockParts
      <3> QED
        BY <3>1, <3>2
    <2> QED
      BY <2>2, <2>3, <2>6
  <1>6. NokiaPort(ifs, k) \in BlocksOf(Texts, Heading) /\ NokiaPort(ifs, k)[1] = Line("interface", <<k, k>>)
    BY <1>5, Headed
  <1>7. ASSUME NEW after \in Seq(Interface), k \in 1..Len(after)
        PROVE  NokiaPort(ifs, k) = NokiaPort(after, k) <=> Shown("nokia", ifs[k]) = Shown("nokia", after[k])
    <2>1. PICK i \in Interface, j \in Interface : i = ifs[k] /\ j = after[k]
      BY <1>1, <1>7
    <2>2. IsBlock(NokiaPort(ifs, k), <<k, k>>, NokiaRest(i)) /\ IsBlock(NokiaPort(after, k), <<k, k>>, NokiaRest(j))
      BY <1>5, <1>7, <2>1
    <2>3. NokiaPort(ifs, k) = NokiaPort(after, k) <=> NokiaRest(i) = NokiaRest(j)
      BY <2>2, SameHeaded
    <2>4. Shown("nokia", i) = Shown("nokia", j) <=>
            /\ i.desc = j.desc /\ (i.status = "down" <=> j.status = "down")
            /\ (i.vlan = "trunk" <=> j.vlan = "trunk") /\ i.fast = j.fast
      BY DEF Shown
    <2>5. /\ NokiaRest(i) = desc(i) \o (adm(i) \o (mode(i) \o fast(i)))
          /\ NokiaRest(j) = desc(j) \o (adm(j) \o (mode(j) \o fast(j)))
      BY DEF NokiaRest
    <2>6. d(i) = d(j) => desc(i) = desc(j)
      OBVIOUS
    <2> HIDE DEF d, desc, adm, mode, fast
    <2>7. Known(desc(i), desc(j)) /\ (desc(i) = desc(j) <=> i.desc = j.desc)
      BY <1>3, <1>4, <2>6 DEF Known
    <2>8. ASSUME NokiaRest(i) = NokiaRest(j)
          PROVE  desc(i) = desc(j) /\ adm(i) = adm(j) /\ mode(i) = mode(j) /\ fast(i) = fast(j)
      <3>1. /\ Three(NokiaRest(i), desc(i), adm(i), mode(i), fast(i))
            /\ Three(NokiaRest(i), desc(j), adm(j), mode(j), fast(j))
        BY <1>2, <2>5, <2>8 DEF Three
      <3>2. Known(adm(i), adm(j)) /\ Known(mode(i), mode(j))
        BY <1>2
      <3> QED
        BY <2>7, <3>1, <3>2, ThreePeel
    <2>9. desc(i) = desc(j) /\ adm(i) = adm(j) /\ mode(i) = mode(j) /\ fast(i) = fast(j) => NokiaRest(i) = NokiaRest(j)
      BY <2>5
    <2>10. /\ adm(i) = adm(j) <=> (i.status = "down" <=> j.status = "down")
           /\ mode(i) = mode(j) <=> (i.vlan = "trunk" <=> j.vlan = "trunk")
           /\ fast(i) = fast(j) <=> i.fast = j.fast
      BY <1>2
    <2> QED
      BY <2>1, <2>3, <2>4, <2>7, <2>8, <2>9, <2>10
  <1> QED
    BY <1>6, <1>7

-----------------------------------------------------------------------------
(* The zones of the firewall.                                              *)

\* The names of the interfaces that are in a set, and what they are.
Wans == {i \in Interface : Wan(i)}
Lans == {i \in Interface : Lan(i)}
Named(ifs, M) == [k \in DOMAIN ifs |-> IF ifs[k] \in M THEN <<ifs[k].name>> ELSE <<>>]

\* The names are those of the interfaces in the set, and of no others.
LEMMA NamedFacts ==
  ASSUME NEW ifs \in Seq(Interface), NEW M
  PROVE  /\ Named(ifs, M) \in Seq(Seq(Seq(Chars)))
         /\ FlattenSeq(Named(ifs, M)) \in Seq(Seq(Chars))
         /\ \A x : x \in ToSet(FlattenSeq(Named(ifs, M)))
                     <=> \E k \in DOMAIN ifs : ifs[k] \in M /\ ifs[k].name = x
  <1> DEFINE Names == Seq(Chars)
             N == Named(ifs, M)
  <1>1. ASSUME NEW k \in DOMAIN ifs PROVE ifs[k].name \in Names
    BY InterfaceTypes
  <1> HIDE DEF Names
  <1>2. ASSUME NEW k \in DOMAIN ifs
        PROVE  (IF ifs[k] \in M THEN <<ifs[k].name>> ELSE <<>>) \in Seq(Names)
    BY <1>1
  <1>3. N \in Seq(Seq(Names)) /\ Len(N) = Len(ifs)
    <2>1. PICK Q : Q = Seq(Names)
      OBVIOUS
    <2>2. N = [k \in 1..Len(ifs) |-> IF ifs[k] \in M THEN <<ifs[k].name>> ELSE <<>>]
      BY DEF Named
    <2>3. N \in [1..Len(ifs) -> Q]
      BY <1>2, <2>1, <2>2
    <2>4. N \in Seq(Q) /\ Len(N) = Len(ifs)
      BY <2>3
    <2> QED
      BY <2>1, <2>4
  <1>4. \A k \in 1..Len(N) : N[k] = IF ifs[k] \in M THEN <<ifs[k].name>> ELSE <<>>
    BY <1>3 DEF Named
  <1>5. 1..Len(N) = DOMAIN ifs
    BY <1>3
  <1> HIDE DEF N
  <1>6. FlattenSeq(N) \in Seq(Names)
    BY <1>3, FlattenFacts
  <1>7. ToSet(FlattenSeq(N)) = UNION {ToSet(N[k]) : k \in 1..Len(N)}
    BY <1>3, FlattenRange
  <1>8. \A x : ToSet(<<x>>) = {x}
    BY DEF ToSet
  <1>9. ToSet(<<>>) = {}
    BY DEF ToSet
  <1>10. \A x : x \in ToSet(FlattenSeq(N)) <=> \E k \in DOMAIN ifs : ifs[k] \in M /\ ifs[k].name = x
    <2>1. ASSUME NEW k \in DOMAIN ifs PROVE ToSet(N[k]) = IF ifs[k] \in M THEN {ifs[k].name} ELSE {}
      BY <1>4, <1>5, <1>8, <1>9
    <2>2. DOMAIN ifs = 1..Len(N)
      BY <1>5
    <2> HIDE DEF Names
    <2>3. ToSet(FlattenSeq(N)) = UNION {IF ifs[k] \in M THEN {ifs[k].name} ELSE {} : k \in 1..Len(N)}
      BY <1>7, <2>1, <2>2
    <2> QED
      BY <2>2, <2>3
  <1> QED
    BY <1>3, <1>6, <1>10 DEF N, Names

\* The zones of a list: names, of interfaces unless they are made up.
LEMMA MadeUpNames ==
  /\ Untrust(<<>>) = <<<<"ethernet", "1/1">>>>
  /\ Trust(<<>>) = <<<<"ethernet", "1/2">>, <<"ethernet", "1/3">>>>
  /\ <<"ethernet", "1/1">> \in MadeUp /\ <<"ethernet", "1/2">> \in MadeUp
  /\ <<"ethernet", "1/3">> \in MadeUp /\ <<>> \in MadeUp
  <1>1. FlattenSeq(<<>>) = <<>>
    BY FlattenFacts
  <1>2. NamesOf(<<>>, Wan) = <<>> /\ NamesOf(<<>>, Lan) = <<>>
    BY <1>1 DEF NamesOf
  <1>3. Untrust(<<>>) = <<<<"ethernet", "1/1">>>>
    BY <1>2 DEF Untrust, OrElse
  <1>4. Trust(<<>>) = <<<<"ethernet", "1/2">>, <<"ethernet", "1/3">>>>
    BY <1>2 DEF Trust, OrElse
  <1>5. \A x : ToSet(<<x>>) = {x}
    BY DEF ToSet
  <1>6. \A x, y : ToSet(<<x, y>>) = {x, y}
    BY DEF ToSet
  <1>7. /\ ToSet(Untrust(<<>>)) = {<<"ethernet", "1/1">>}
        /\ ToSet(Trust(<<>>)) = {<<"ethernet", "1/2">>, <<"ethernet", "1/3">>}
    BY <1>3, <1>4, <1>5, <1>6
  <1> QED
    BY <1>3, <1>4, <1>7 DEF MadeUp

\* The filters of the firewall's zones are by sets.
LEMMA NamesOfFacts ==
  ASSUME NEW ifs \in Seq(Interface)
  PROVE  NamesOf(ifs, Wan) = FlattenSeq(Named(ifs, Wans)) /\ NamesOf(ifs, Lan) = FlattenSeq(Named(ifs, Lans))
  <1>1. ASSUME NEW k \in DOMAIN ifs
        PROVE  (Wan(ifs[k]) <=> ifs[k] \in Wans) /\ (Lan(ifs[k]) <=> ifs[k] \in Lans)
    BY DEF Wans, Lans
  <1>2. [k \in DOMAIN ifs |-> IF Wan(ifs[k]) THEN <<ifs[k].name>> ELSE <<>>] = Named(ifs, Wans)
    BY <1>1 DEF Named
  <1>3. [k \in DOMAIN ifs |-> IF Lan(ifs[k]) THEN <<ifs[k].name>> ELSE <<>>] = Named(ifs, Lans)
    BY <1>1 DEF Named
  <1> QED
    BY <1>2, <1>3 DEF NamesOf

\* Made-up names take the place of none, and of the empty one.
LEMMA OrElseFacts ==
  ASSUME NEW names, NEW made, names \in Seq(Seq(Chars)), made \in Seq(Seq(Chars))
  PROVE  /\ OrElse(names, made) \in Seq(Seq(Chars))
         /\ \A x : x # <<>> /\ x \notin ToSet(made) =>
              (x \in ToSet(OrElse(names, made)) <=> x \in ToSet(names))
         /\ \A x : x \in ToSet(OrElse(names, made)) => x \in ToSet(names) \/ x \in ToSet(made)
  <1>1. ToSet(<<>>) = {} /\ ToSet(<<<<>>>>) = {<<>>}
    BY DEF ToSet
  <1> QED
    BY <1>1 DEF OrElse

\* A name that is not made up is in a zone exactly if an interface of the zone has it.
LEMMA ZoneFacts ==
  ASSUME NEW ifs \in Seq(Interface)
  PROVE  /\ Untrust(ifs) \in Seq(Seq(Chars)) /\ Trust(ifs) \in Seq(Seq(Chars))
         /\ \A x : x \notin MadeUp =>
              /\ x \in ToSet(Untrust(ifs)) <=> \E k \in DOMAIN ifs : Wan(ifs[k]) /\ ifs[k].name = x
              /\ x \in ToSet(Trust(ifs)) <=> \E k \in DOMAIN ifs : Lan(ifs[k]) /\ ifs[k].name = x
         /\ \A x \in ToSet(Untrust(ifs)) \cup ToSet(Trust(ifs)) :
              x \in MadeUp \ {<<>>} \/ \E k \in DOMAIN ifs : ifs[k].name = x
  <1> DEFINE u == NamesOf(ifs, Wan)
             t == NamesOf(ifs, Lan)
             mu == <<<<"ethernet", "1/1">>>>
             mt == <<<<"ethernet", "1/2">>, <<"ethernet", "1/3">>>>
  <1>1. u \in Seq(Seq(Chars)) /\ t \in Seq(Seq(Chars))
    BY NamesOfFacts, NamedFacts
  <1>2. mu \in Seq(Seq(Chars)) /\ mt \in Seq(Seq(Chars))
    <2>1. \A x, y \in Chars : <<x, y>> \in Seq(Chars)
      OBVIOUS
    <2>2. PICK a, b, c \in Seq(Chars) : a = <<"ethernet", "1/1">> /\ b = <<"ethernet", "1/2">> /\ c = <<"ethernet", "1/3">>
      BY <2>1, SomeChars
    <2>3. \A Q, x : x \in Q => <<x>> \in Seq(Q)
      OBVIOUS
    <2>4. \A Q, x, y : x \in Q /\ y \in Q => <<x, y>> \in Seq(Q)
      OBVIOUS
    <2> QED
      BY <2>2, <2>3, <2>4
  <1>3. /\ \A x : x \in ToSet(u) <=> \E k \in DOMAIN ifs : ifs[k] \in Wans /\ ifs[k].name = x
        /\ \A x : x \in ToSet(t) <=> \E k \in DOMAIN ifs : ifs[k] \in Lans /\ ifs[k].name = x
    BY NamesOfFacts, NamedFacts
  <1>4. \A k \in DOMAIN ifs : (Wan(ifs[k]) <=> ifs[k] \in Wans) /\ (Lan(ifs[k]) <=> ifs[k] \in Lans)
    BY DEF Wans, Lans
  <1>5. /\ ToSet(mu) \subseteq MadeUp \ {<<>>} /\ ToSet(mt) \subseteq MadeUp \ {<<>>}
        /\ <<>> \in MadeUp
    <2>1. \A x : ToSet(<<x>>) = {x}
      BY DEF ToSet
    <2>2. \A x, y : ToSet(<<x, y>>) = {x, y}
      BY DEF ToSet
    <2>3. ToSet(mu) = {<<"ethernet", "1/1">>} /\ ToSet(mt) = {<<"ethernet", "1/2">>, <<"ethernet", "1/3">>}
      BY <2>1, <2>2
    <2>4. <<"ethernet", "1/1">> # <<>> /\ <<"ethernet", "1/2">> # <<>> /\ <<"ethernet", "1/3">> # <<>>
      OBVIOUS
    <2> QED
      BY <2>3, <2>4, MadeUpNames
  <1>6. Untrust(ifs) = OrElse(u, mu) /\ Trust(ifs) = OrElse(t, mt)
    BY DEF Untrust, Trust
  <1> HIDE DEF u, t, mu, mt
  <1>7. /\ OrElse(u, mu) \in Seq(Seq(Chars))
        /\ \A x : x # <<>> /\ x \notin ToSet(mu) => (x \in ToSet(OrElse(u, mu)) <=> x \in ToSet(u))
        /\ \A x : x \in ToSet(OrElse(u, mu)) => x \in ToSet(u) \/ x \in ToSet(mu)
    BY <1>1, <1>2, OrElseFacts
  <1>8. /\ OrElse(t, mt) \in Seq(Seq(Chars))
        /\ \A x : x # <<>> /\ x \notin ToSet(mt) => (x \in ToSet(OrElse(t, mt)) <=> x \in ToSet(t))
        /\ \A x : x \in ToSet(OrElse(t, mt)) => x \in ToSet(t) \/ x \in ToSet(mt)
    BY <1>1, <1>2, OrElseFacts
  <1>9. Untrust(ifs) \in Seq(Seq(Chars)) /\ Trust(ifs) \in Seq(Seq(Chars))
    BY <1>6, <1>7, <1>8
  <1>10. ASSUME NEW x, x \notin MadeUp
         PROVE  /\ x \in ToSet(Untrust(ifs)) <=> \E k \in DOMAIN ifs : Wan(ifs[k]) /\ ifs[k].name = x
                /\ x \in ToSet(Trust(ifs)) <=> \E k \in DOMAIN ifs : Lan(ifs[k]) /\ ifs[k].name = x
    <2>1. x # <<>> /\ x \notin ToSet(mu) /\ x \notin ToSet(mt)
      BY <1>5, <1>10
    <2>2. (x \in ToSet(Untrust(ifs)) <=> x \in ToSet(u)) /\ (x \in ToSet(Trust(ifs)) <=> x \in ToSet(t))
      BY <1>6, <1>7, <1>8, <2>1
    <2> QED
      BY <1>3, <1>4, <2>2
  <1>11. ASSUME NEW x \in ToSet(Untrust(ifs)) \cup ToSet(Trust(ifs))
         PROVE  x \in MadeUp \ {<<>>} \/ \E k \in DOMAIN ifs : ifs[k].name = x
    <2>1. x \in ToSet(u) \/ x \in ToSet(t) \/ x \in ToSet(mu) \/ x \in ToSet(mt)
      BY <1>6, <1>7, <1>8
    <2> QED
      BY <1>3, <1>5, <2>1
  <1> QED
    BY <1>9, <1>10, <1>11

\* The items of a sequence, and of one by a definition.
LEMMA Retyped ==
  ASSUME NEW S, NEW T, NEW s \in Seq(S), \A i \in 1..Len(s) : s[i] \in T
  PROVE  s \in Seq(T)
  OBVIOUS

\* A sequence by a definition of its items.
LEMMA Typed ==
  ASSUME NEW T, NEW n \in Nat, NEW s \in [1..n -> T]
  PROVE  s \in Seq(T) /\ Len(s) = n
  OBVIOUS

\* Names without a space can be told from their join.
Spaced(names) == [k \in DOMAIN names |-> <<" ">> \o names[k]]

\* Each name with a space before it: their join is data of a line.
LEMMA SpacedFacts ==
  ASSUME NEW names \in Seq(Seq(Chars))
  PROVE  /\ Spaced(names) \in Seq(Seq(Chars)) /\ Len(Spaced(names)) = Len(names)
         /\ \A k \in 1..Len(names) : Spaced(names)[k] = <<" ">> \o names[k]
         /\ Joined(names) \in Data
  <1> DEFINE sp == Spaced(names)
  <1>1. ASSUME NEW k \in 1..Len(names) PROVE <<" ">> \o names[k] \in Seq(Chars)
    <2>1. \A x \in Chars, s \in Seq(Chars) : <<x>> \o s \in Seq(Chars)
      OBVIOUS
    <2>2. PICK c \in Chars : c = " "
      BY SomeChars
    <2>3. PICK Q : Q = Seq(Chars)
      OBVIOUS
    <2>4. names[k] \in Q
      BY <2>3
    <2>5. PICK s \in Seq(Chars) : s = names[k]
      BY <2>3, <2>4
    <2>6. <<c>> \o s \in Seq(Chars)
      BY <2>1
    <2> QED
      BY <2>2, <2>5, <2>6
  <1>2. sp = [k \in 1..Len(names) |-> <<" ">> \o names[k]]
    BY DEF Spaced
  <1>3. sp \in [1..Len(names) -> Seq(Chars)]
    BY <1>1, <1>2
  <1>4. sp \in Seq(Seq(Chars)) /\ Len(sp) = Len(names)
    <2>1. PICK Q, x : Q = Seq(Chars) /\ x = sp
      OBVIOUS
    <2>2. x \in [1..Len(names) -> Q]
      BY <1>3, <2>1
    <2>4. Len(names) \in Nat
      OBVIOUS
    <2>3. x \in Seq(Q) /\ Len(x) = Len(names)
      BY <2>2, <2>4, Typed
    <2> QED
      BY <2>1, <2>3
  <1>5. \A k \in 1..Len(names) : sp[k] = <<" ">> \o names[k]
    BY <1>2
  <1>6. Joined(names) = FlattenSeq(sp)
    BY DEF Joined, Spaced
  <1> HIDE DEF sp
  <1>7. FlattenSeq(sp) \in Seq(Chars)
    BY <1>4, FlattenFacts
  <1> QED
    BY <1>4, <1>5, <1>6, <1>7, DataTypes DEF sp

Spaceless(names) == \A k \in 1..Len(names) : " " \notin ToSet(names[k])

\* Names without a space are blocks of the join, each of which begins with one.
LEMMA SpacedBlocks ==
  ASSUME NEW names \in Seq(Seq(Chars)), Spaceless(names)
  PROVE  Spaced(names) \in Seq(BlocksOf(Chars, {" "}))
  <1>0. PICK c \in Chars : c = " "
    BY SomeChars
  <1>1. PICK B : c = " " /\ B = BlocksOf(Chars, {c})
    BY <1>0
  <1>2. ASSUME NEW k \in 1..Len(names) PROVE Spaced(names)[k] \in B
    <2>1. PICK Q : Q = Seq(Chars)
      OBVIOUS
    <2>2. names[k] \in Q
      BY <2>1
    <2>3. PICK s \in Seq(Chars) : s = names[k]
      BY <2>1, <2>2
    <2>4. c \notin ToSet(s)
      BY <1>1, <2>3 DEF Spaceless
    <2>5. \A i \in 1..Len(s) : s[i] # c
      BY <2>4 DEF ToSet
    <2>6. s \in Seq(Chars \ {c})
      <3>1. \A i \in 1..Len(s) : s[i] \in Chars \ {c}
        BY <2>5
      <3> QED
        BY <3>1, Retyped
    <2>7. <<c>> \o s \in BlocksOf(Chars, {c})
      BY <2>6, MakeBlock
    <2>8. Spaced(names)[k] = <<" ">> \o names[k]
      BY SpacedFacts
    <2> QED
      BY <1>1, <2>3, <2>7, <2>8
  <1>3. PICK sp : sp = Spaced(names)
    OBVIOUS
  <1>4. sp \in Seq(Seq(Chars)) /\ Len(sp) = Len(names)
    BY <1>3, SpacedFacts
  <1>5. PICK Q : Q = Seq(Chars)
    OBVIOUS
  <1>6. \A k \in 1..Len(sp) : sp[k] \in B
    BY <1>2, <1>3, <1>4
  <1>7. sp \in Seq(B)
    BY <1>4, <1>6, Retyped
  <1> QED
    BY <1>1, <1>3, <1>7

\* A name with a space before it tells the name.
LEMMA SpaceTells ==
  ASSUME NEW s \in Seq(Chars), NEW t \in Seq(Chars)
  PROVE  <<" ">> \o s = <<" ">> \o t => s = t
  <1>1. PICK c \in Chars, b \in Chars : c = " " /\ b = " "
    BY SomeChars
  <1>2. <<c>> \o s = <<b>> \o t <=> c = b /\ s = t
    BY SameBlock
  <1> QED
    BY <1>1, <1>2

\* So the join of names without a space tells the names.
LEMMA JoinedTells ==
  ASSUME NEW u \in Seq(Seq(Chars)), NEW v \in Seq(Seq(Chars)), Spaceless(u), Spaceless(v),
         Joined(u) = Joined(v)
  PROVE  u = v
  <1>1. Joined(u) = FlattenSeq(Spaced(u)) /\ Joined(v) = FlattenSeq(Spaced(v))
    BY DEF Joined, Spaced
  <1>2. Spaced(u) \in Seq(BlocksOf(Chars, {" "})) /\ Spaced(v) \in Seq(BlocksOf(Chars, {" "}))
    BY SpacedBlocks
  <1>3. Spaced(u) = Spaced(v)
    BY <1>1, <1>2, Parse
  <1>4. /\ Len(Spaced(u)) = Len(u) /\ Len(Spaced(v)) = Len(v)
        /\ \A k \in 1..Len(u) : Spaced(u)[k] = <<" ">> \o u[k]
        /\ \A k \in 1..Len(v) : Spaced(v)[k] = <<" ">> \o v[k]
    BY SpacedFacts
  <1>5. Len(u) = Len(v)
    BY <1>3, <1>4
  <1>6. ASSUME NEW k \in 1..Len(u) PROVE u[k] = v[k]
    <2>1. <<" ">> \o u[k] = <<" ">> \o v[k]
      BY <1>3, <1>4, <1>5
    <2>2. PICK s \in Seq(Chars), t \in Seq(Chars) : s = u[k] /\ t = v[k]
      BY <1>5
    <2>3. <<" ">> \o s = <<" ">> \o t => s = t
      BY SpaceTells
    <2> QED
      BY <2>1, <2>2, <2>3
  <1> QED
    BY <1>5, <1>6, SeqEqual

\* The names in the zones of a list that tells its interfaces apart have no space.
LEMMA ZonesSpaceless ==
  ASSUME NEW ifs \in Seq(Interface), Telling(ifs)
  PROVE  Spaceless(Untrust(ifs)) /\ Spaceless(Trust(ifs))
  <1>1. \A x \in ToSet(Untrust(ifs)) \cup ToSet(Trust(ifs)) :
          x \in MadeUp \ {<<>>} \/ \E k \in DOMAIN ifs : ifs[k].name = x
    BY ZoneFacts
  <1>2. \A k \in DOMAIN ifs : " " \notin ToSet(ifs[k].name)
    BY DEF Telling
  <1>3. \A x \in MadeUp \ {<<>>} : " " \notin ToSet(x)
    <2>1. \A x : ToSet(<<x>>) = {x}
      BY DEF ToSet
    <2>2. \A x, y : ToSet(<<x, y>>) = {x, y}
      BY DEF ToSet
    <2>3. MadeUp = {<<>>, <<"ethernet", "1/1">>, <<"ethernet", "1/2">>, <<"ethernet", "1/3">>}
      BY <2>1, <2>2, MadeUpNames DEF MadeUp
    <2>4. " " \notin {"ethernet", "1/1", "1/2", "1/3"}
      OBVIOUS
    <2>5. /\ ToSet(<<"ethernet", "1/1">>) = {"ethernet", "1/1"}
          /\ ToSet(<<"ethernet", "1/2">>) = {"ethernet", "1/2"}
          /\ ToSet(<<"ethernet", "1/3">>) = {"ethernet", "1/3"}
      BY <2>2
    <2>6. PICK a, b, c : a = <<"ethernet", "1/1">> /\ b = <<"ethernet", "1/2">> /\ c = <<"ethernet", "1/3">>
      OBVIOUS
    <2> QED
      BY <2>3, <2>4, <2>5, <2>6
  <1>4. \A x \in ToSet(Untrust(ifs)) \cup ToSet(Trust(ifs)) : " " \notin ToSet(x)
    BY <1>1, <1>2, <1>3
  <1>5. \A names \in Seq(Seq(Chars)) : \A k \in 1..Len(names) : names[k] \in ToSet(names)
    BY DEF ToSet
  <1>6. Untrust(ifs) \in Seq(Seq(Chars)) /\ Trust(ifs) \in Seq(Seq(Chars))
    BY ZoneFacts
  <1> QED
    BY <1>4, <1>5, <1>6 DEF Spaceless

\* The zones of two lists are the same if the lists show the same.
LEMMA ShownZones ==
  ASSUME NEW ifs \in Seq(Interface), NEW after \in Seq(Interface), Len(ifs) = Len(after),
         \A k \in 1..Len(ifs) : Shown("palo", ifs[k]) = Shown("palo", after[k])
  PROVE  /\ Untrust(ifs) = Untrust(after) /\ Trust(ifs) = Trust(after)
         /\ \A k \in 1..Len(ifs) : Lowered(ifs[k].name) = Lowered(after[k].name) /\ ifs[k].desc = after[k].desc
  <1>1. ASSUME NEW k \in 1..Len(ifs)
        PROVE  /\ Zone(ifs[k]) = Zone(after[k]) /\ ifs[k].desc = after[k].desc
               /\ Zone(ifs[k]) # "none" => ifs[k].name = after[k].name
               /\ Zone(ifs[k]) = "none" => Lowered(ifs[k].name) = Lowered(after[k].name)
    <2>1. Shown("palo", ifs[k]) = Shown("palo", after[k])
      OBVIOUS
    <2>2. \A i : Shown("palo", i) = <<IF Zone(i) = "none" THEN Lowered(i.name) ELSE i.name, i.desc, Zone(i)>>
      BY DEF Shown
    <2>3. \A a, b, c, x, y, z : <<a, b, c>> = <<x, y, z>> => a = x /\ b = y /\ c = z
      OBVIOUS
    <2> QED
      BY <2>1, <2>2, <2>3
  <1>2. \A i \in Interface : (i \in Wans <=> Zone(i) = "out") /\ (i \in Lans <=> Zone(i) = "in")
    BY DEF Wans, Lans, Wan, Lan, Zone
  <1>3. DOMAIN ifs = DOMAIN after
    OBVIOUS
  <1>4. \A k \in DOMAIN ifs : ifs[k] \in Interface /\ after[k] \in Interface
    BY <1>3
  <1>5. \A k \in DOMAIN ifs : /\ ifs[k] \in Wans <=> after[k] \in Wans
                              /\ ifs[k] \in Lans <=> after[k] \in Lans
                              /\ ifs[k] \in Wans \cup Lans => ifs[k].name = after[k].name
    BY <1>1, <1>2, <1>3, <1>4
  <1>6. Named(ifs, Wans) = Named(after, Wans) /\ Named(ifs, Lans) = Named(after, Lans)
    BY <1>3, <1>5 DEF Named
  <1>7. Untrust(ifs) = Untrust(after) /\ Trust(ifs) = Trust(after)
    BY <1>6, NamesOfFacts DEF Untrust, Trust
  <1>8. \A k \in 1..Len(ifs) : Lowered(ifs[k].name) = Lowered(after[k].name)
    BY <1>1
  <1> QED
    BY <1>1, <1>7, <1>8

\* And the lists show the same if their zones and their blocks are the same and
\* they tell their interfaces apart.
LEMMA ZonesShown ==
  ASSUME NEW ifs \in Seq(Interface), NEW after \in Seq(Interface), Telling(ifs), Telling(after),
         Untrust(ifs) = Untrust(after), Trust(ifs) = Trust(after), Len(ifs) = Len(after),
         \A k \in 1..Len(ifs) : Lowered(ifs[k].name) = Lowered(after[k].name) /\ ifs[k].desc = after[k].desc,
         NEW k \in 1..Len(ifs)
  PROVE  Shown("palo", ifs[k]) = Shown("palo", after[k])
  <1>1. DOMAIN ifs = 1..Len(ifs) /\ DOMAIN after = 1..Len(ifs)
    OBVIOUS
  <1>2. \A i : /\ Zone(i) = "out" <=> Wan(i)
               /\ Zone(i) = "in" <=> Lan(i)
               /\ Zone(i) \in {"out", "in", "none"}
    BY DEF Wan, Lan, Zone
  <1>3. ASSUME NEW s \in Seq(Interface), Telling(s), DOMAIN s = 1..Len(ifs), NEW j \in 1..Len(ifs)
        PROVE  /\ Wan(s[j]) <=> s[j].name \in ToSet(Untrust(s))
               /\ Lan(s[j]) <=> s[j].name \in ToSet(Trust(s))
    <2>1. s[j].name \notin MadeUp
      BY <1>3 DEF Telling
    <2>2. \A l \in DOMAIN s : s[l].name = s[j].name => l = j
      BY <1>3 DEF Telling, Alike
    <2>3. /\ s[j].name \in ToSet(Untrust(s)) <=> \E l \in DOMAIN s : Wan(s[l]) /\ s[l].name = s[j].name
          /\ s[j].name \in ToSet(Trust(s)) <=> \E l \in DOMAIN s : Lan(s[l]) /\ s[l].name = s[j].name
      BY <2>1, ZoneFacts
    <2> QED
      BY <1>3, <2>2, <2>3
  <1>4. ASSUME NEW s \in Seq(Interface), NEW t \in Seq(Interface), Telling(s), Telling(t),
               DOMAIN s = 1..Len(ifs), DOMAIN t = 1..Len(ifs),
               Untrust(s) = Untrust(t), Trust(s) = Trust(t),
               \A j \in 1..Len(ifs) : Lowered(s[j].name) = Lowered(t[j].name),
               NEW j \in 1..Len(ifs)
        PROVE  (Wan(s[j]) => Wan(t[j]) /\ t[j].name = s[j].name) /\ (Lan(s[j]) => Lan(t[j]) /\ t[j].name = s[j].name)
    <2>1. s[j].name \notin MadeUp
      BY <1>4 DEF Telling
    <2>2. \A l \in DOMAIN t : t[l].name = s[j].name => l = j
      <3>1. ASSUME NEW l \in DOMAIN t, t[l].name = s[j].name PROVE l = j
        <4>1. Lowered(t[l].name) = Lowered(t[j].name)
          BY <1>4, <3>1
        <4> QED
          BY <1>4, <4>1 DEF Telling, Alike
      <3> QED
        BY <3>1
    <2>3. /\ s[j].name \in ToSet(Untrust(t)) => \E l \in DOMAIN t : Wan(t[l]) /\ t[l].name = s[j].name
          /\ s[j].name \in ToSet(Trust(t)) => \E l \in DOMAIN t : Lan(t[l]) /\ t[l].name = s[j].name
      BY <2>1, ZoneFacts
    <2>4. (Wan(s[j]) => s[j].name \in ToSet(Untrust(t))) /\ (Lan(s[j]) => s[j].name \in ToSet(Trust(t)))
      BY <1>3, <1>4
    <2> QED
      BY <2>2, <2>3, <2>4
  <1>5. \A j \in 1..Len(ifs) : Lowered(after[j].name) = Lowered(ifs[j].name)
    OBVIOUS
  <1>6. (Wan(ifs[k]) => Wan(after[k]) /\ after[k].name = ifs[k].name)
        /\ (Lan(ifs[k]) => Lan(after[k]) /\ after[k].name = ifs[k].name)
    BY <1>1, <1>4
  <1>7. (Wan(after[k]) => Wan(ifs[k]) /\ ifs[k].name = after[k].name)
        /\ (Lan(after[k]) => Lan(ifs[k]) /\ ifs[k].name = after[k].name)
    BY <1>1, <1>4, <1>5
  <1>8. Zone(ifs[k]) = Zone(after[k])
    BY <1>2, <1>6, <1>7
  <1>9. Zone(ifs[k]) # "none" => ifs[k].name = after[k].name
    BY <1>2, <1>6
  <1> QED
    BY <1>8, <1>9 DEF Shown

-----------------------------------------------------------------------------
(* The layout of a configuration, its headings, and what a change shows.   *)

\* A text is a front, a block for each interface, and a rear.
BlockAt(d, ifs, k) ==
  IF Brand(d) = "cisco" THEN CiscoBlock(ifs[k])
  ELSE IF Brand(d) = "juniper" THEN JunosBlock(ifs[k])
  ELSE IF Brand(d) = "arista" THEN AristaBlock(ifs[k])
  ELSE IF Brand(d) = "palo" THEN PanosBlock(d, ifs[k])
  ELSE IF Brand(d) = "nokia" THEN NokiaPort(ifs, k)
  ELSE GenericBlock(ifs[k])
Blocks(d, ifs) == [k \in DOMAIN ifs |-> BlockAt(d, ifs, k)]

HasLayout(text, p, bs, q) ==
  p \in Seq(Others) /\ q \in Seq(Others) /\ text = (p \o FlattenSeq(bs)) \o q

\* The front and the rear do not depend on the interfaces, but for the zones of
\* a firewall.
ZoneFront(d, ifs) ==
  <<Line("hostname", <<d.name>>), Line("ip-address", <<d.ip>>),
    Line("zone UNTRUST", Joined(Untrust(ifs))), Line("zone TRUST", Joined(Trust(ifs)))>>

OneLayout(d) ==
  \E p, q : \A ifs \in Seq(Interface) :
    HasLayout(Body(d, ifs), p, Blocks(d, ifs), q)

\* The format is that of the brand.
LEMMA BrandCases ==
  ASSUME NEW d, NEW ifs
  PROVE  /\ Brand(d) = "cisco"   => Body(d, ifs) = CiscoConfig(d, ifs)
         /\ Brand(d) = "juniper" => Body(d, ifs) = JuniperConfig(d, ifs)
         /\ Brand(d) = "arista"  => Body(d, ifs) = AristaConfig(d, ifs)
         /\ Brand(d) = "palo"    => Body(d, ifs) = PanosConfig(d, ifs)
         /\ Brand(d) = "nokia"   => Body(d, ifs) = NokiaConfig(d, ifs)
         /\ Brand(d) \notin {"cisco", "juniper", "arista", "palo", "nokia"}
              => Body(d, ifs) = GenericConfig(d, ifs)
  BY DEF Body

\* Some lines that head no block.
LEMMA SomeLines ==
  /\ \A x, y \in Others : <<x, y>> \in Seq(Others)
  /\ \A x, y, z \in Others : <<x, y, z>> \in Seq(Others)
  /\ \A x, y, z, u \in Others : <<x, y, z, u>> \in Seq(Others)
  /\ \A s, t \in Seq(Others) : s \o t \in Seq(Others)
  <1>1. PICK T : T = Others
    OBVIOUS
  <1>2. \A s, t \in Seq(T) : s \o t \in Seq(T)
    BY ConcatFacts
  <1> QED
    BY <1>1, <1>2

\* The lines about the device.
LEMMA DeviceLines ==
  ASSUME NEW d \in Device
  PROVE  \A w \in Phrases : /\ Line(w, <<d.name>>) \in Others /\ <<Line(w, <<d.name>>)>> \in Seq(Others)
                            /\ Line(w, <<d.ip>>) \in Others
                            /\ Line(w, <<d.name, d.ip>>) \in Others /\ <<Line(w, <<d.name, d.ip>>)>> \in Seq(Others)
  BY DeviceTypes, DataTypes, OtherLine

\* The layout of Cisco's format.
LEMMA CiscoLayout ==
  ASSUME NEW d \in Device, Brand(d) = "cisco"
  PROVE  OneLayout(d)
  <1> DEFINE p == <<Line("hostname", <<d.name>>)>>
                  \o (IF d.router THEN Plain("router bgp 65000") ELSE <<>>)
                  \o (IF d.wlc THEN Plain("wireless management interface Vlan50") ELSE <<>>)
             q1 == Plain("ip access-list extended ACL-MGMT")
             q2 == <<Line("snmp-server location", <<d.name, d.ip>>)>>
  <1>1. {"hostname", "router bgp 65000", "wireless management interface Vlan50",
         "ip access-list extended ACL-MGMT", "snmp-server location"} \subseteq Phrases
    BY DEF Phrases
  <1>2. p \in Seq(Others)
    <2>1. PICK a, b, c : /\ a = <<Line("hostname", <<d.name>>)>>
                         /\ b = (IF d.router THEN Plain("router bgp 65000") ELSE <<>>)
                         /\ c = (IF d.wlc THEN Plain("wireless management interface Vlan50") ELSE <<>>)
      OBVIOUS
    <2>2. a \in Seq(Others) /\ b \in Seq(Others) /\ c \in Seq(Others)
      <3>1. a \in Seq(Others)
        BY <1>1, <2>1, DeviceLines
      <3>2. /\ Plain("router bgp 65000") \in Seq(Others)
            /\ Plain("wireless management interface Vlan50") \in Seq(Others)
        BY <1>1, PlainLine
      <3>3. <<>> \in Seq(Others)
        OBVIOUS
      <3> QED
        BY <2>1, <3>1, <3>2, <3>3
    <2> QED
      BY <2>1, <2>2, SomeLines
  <1>3. q1 \in Seq(Others) /\ q2 \in Seq(Others)
    BY <1>1, PlainLine, DeviceLines
  <1>4. ASSUME NEW ifs \in Seq(Interface)
        PROVE  HasLayout(Body(d, ifs), p, Blocks(d, ifs), q1 \o q2)
    <2>1. Body(d, ifs) = ((p \o Lines(ifs, CiscoBlock)) \o q1) \o q2
      BY BrandCases DEF CiscoConfig
    <2>2. Lines(ifs, CiscoBlock) = FlattenSeq(Blocks(d, ifs))
      BY DEF Lines, Blocks, BlockAt
    <2>3. Blocks(d, ifs) \in Seq(Seq(Texts))
      <3>1. ASSUME NEW k \in 1..Len(ifs) PROVE CiscoBlock(ifs[k]) \in Seq(Texts)
        BY CiscoBlocks DEF BlocksOf
      <3>2. PICK Q : Q = Seq(Texts)
        OBVIOUS
      <3>3. Blocks(d, ifs) = [k \in 1..Len(ifs) |-> CiscoBlock(ifs[k])]
        BY DEF Blocks, BlockAt
      <3>4. Blocks(d, ifs) \in [1..Len(ifs) -> Q]
        BY <3>1, <3>2, <3>3
      <3> QED
        BY <3>2, <3>4, Typed
    <2>4. PICK m \in Seq(Texts) : m = FlattenSeq(Blocks(d, ifs))
      BY <2>3, FlattenFacts
    <2> HIDE DEF p, q1, q2
    <2>5. p \in Seq(Texts) /\ q1 \in Seq(Texts) /\ q2 \in Seq(Texts) /\ p \o m \in Seq(Texts)
      BY <1>2, <1>3, OthersAreTexts, ConcatFacts
    <2>6. ((p \o m) \o q1) \o q2 = (p \o m) \o (q1 \o q2)
      <3>1. PICK u \in Seq(Texts) : u = p \o m
        BY <2>5
      <3>2. (u \o q1) \o q2 = u \o (q1 \o q2)
        BY <2>5, Regroup
      <3> QED
        BY <3>1, <3>2
    <2>7. q1 \o q2 \in Seq(Others)
      BY <1>3, SomeLines
    <2> QED
      BY <1>2, <2>1, <2>2, <2>4, <2>6, <2>7 DEF HasLayout
  <1> QED
    BY <1>4 DEF OneLayout

\* The layout of Juniper's.
LEMMA JuniperLayout ==
  ASSUME NEW d \in Device, Brand(d) = "juniper"
  PROVE  OneLayout(d)
  <1> DEFINE p == <<Line("host-name", <<d.name>>)>>
             q == <<Line("lo0 address", <<d.ip>>), Line("group IBGP-CORE local-address", <<d.ip>>),
                    Line("snmp location", <<d.name, d.ip>>)>>
  <1>1. {"host-name", "lo0 address", "group IBGP-CORE local-address", "snmp location"} \subseteq Phrases
    BY DEF Phrases
  <1>2. p \in Seq(Others) /\ q \in Seq(Others)
    BY <1>1, DeviceLines, SomeLines
  <1>3. ASSUME NEW ifs \in Seq(Interface)
        PROVE  HasLayout(Body(d, ifs), p, Blocks(d, ifs), q)
    <2>1. Body(d, ifs) = (p \o Lines(ifs, JunosBlock)) \o q
      BY BrandCases DEF JuniperConfig
    <2>2. Lines(ifs, JunosBlock) = FlattenSeq(Blocks(d, ifs))
      BY DEF Lines, Blocks, BlockAt
    <2> QED
      BY <1>2, <2>1, <2>2 DEF HasLayout
  <1> QED
    BY <1>3 DEF OneLayout

\* The layout of Arista's.
LEMMA AristaLayout ==
  ASSUME NEW d \in Device, Brand(d) = "arista"
  PROVE  OneLayout(d)
  <1> DEFINE p == <<Line("hostname", <<d.name>>)>>
             q == <<Line("router ospf router-id", <<d.ip>>), Line("router bgp router-id", <<d.ip>>),
                    Line("snmp-server location", <<d.name, d.ip>>)>>
  <1>1. {"hostname", "router ospf router-id", "router bgp router-id", "snmp-server location"} \subseteq Phrases
    BY DEF Phrases
  <1>2. p \in Seq(Others) /\ q \in Seq(Others)
    BY <1>1, DeviceLines, SomeLines
  <1>3. ASSUME NEW ifs \in Seq(Interface)
        PROVE  HasLayout(Body(d, ifs), p, Blocks(d, ifs), q)
    <2>1. Body(d, ifs) = (p \o Lines(ifs, AristaBlock)) \o q
      BY BrandCases DEF AristaConfig
    <2>2. Lines(ifs, AristaBlock) = FlattenSeq(Blocks(d, ifs))
      BY DEF Lines, Blocks, BlockAt
    <2> QED
      BY <1>2, <2>1, <2>2 DEF HasLayout
  <1> QED
    BY <1>3 DEF OneLayout

\* The layout of Nokia's.
LEMMA NokiaLayout ==
  ASSUME NEW d \in Device, Brand(d) = "nokia"
  PROVE  OneLayout(d)
  <1> DEFINE p == <<Line("name", <<d.name>>)>>
             q == <<Line("router-id", <<d.ip>>), Line("vprn address", <<d.ip>>)>>
  <1>1. {"name", "router-id", "vprn address"} \subseteq Phrases
    BY DEF Phrases
  <1>2. p \in Seq(Others) /\ q \in Seq(Others)
    BY <1>1, DeviceLines, SomeLines
  <1>3. ASSUME NEW ifs \in Seq(Interface)
        PROVE  HasLayout(Body(d, ifs), p, Blocks(d, ifs), q)
    <2>1. Body(d, ifs) = (p \o FlattenSeq([k \in DOMAIN ifs |-> NokiaPort(ifs, k)])) \o q
      BY BrandCases DEF NokiaConfig
    <2>2. [k \in DOMAIN ifs |-> NokiaPort(ifs, k)] = Blocks(d, ifs)
      BY DEF Blocks, BlockAt
    <2> QED
      BY <1>2, <2>1, <2>2 DEF HasLayout
  <1> QED
    BY <1>3 DEF OneLayout

\* The layout of any other vendor's.
LEMMA GenericLayout ==
  ASSUME NEW d \in Device, Brand(d) \notin {"cisco", "juniper", "arista", "palo", "nokia"}
  PROVE  OneLayout(d)
  <1> DEFINE p == <<Line("hostname", <<d.name>>), Line("IP", <<d.ip>>)>>
  <1>1. {"hostname", "IP"} \subseteq Phrases
    BY DEF Phrases
  <1>2. p \in Seq(Others) /\ <<>> \in Seq(Others)
    <2>1. <<>> \in Seq(Others)
      OBVIOUS
    <2>2. Line("hostname", <<d.name>>) \in Others /\ Line("IP", <<d.ip>>) \in Others
      BY <1>1, DeviceLines
    <2> QED
      BY <2>1, <2>2, SomeLines
  <1>3. ASSUME NEW ifs \in Seq(Interface)
        PROVE  HasLayout(Body(d, ifs), p, Blocks(d, ifs), <<>>)
    <2>1. GenericConfig(d, ifs) = p \o FlattenSeq([k \in DOMAIN ifs |-> GenericBlock(ifs[k])])
      BY DEF GenericConfig, Lines, GenericBlock
    <2>2. [k \in DOMAIN ifs |-> GenericBlock(ifs[k])] = Blocks(d, ifs)
      BY DEF Blocks, BlockAt
    <2>3. Blocks(d, ifs) \in Seq(Seq(Texts))
      <3>1. ASSUME NEW k \in 1..Len(ifs) PROVE GenericBlock(ifs[k]) \in Seq(Texts)
        BY GenericBlocks DEF BlocksOf
      <3>2. PICK Q : Q = Seq(Texts)
        OBVIOUS
      <3>3. Blocks(d, ifs) = [k \in 1..Len(ifs) |-> GenericBlock(ifs[k])]
        BY <2>2
      <3>4. Blocks(d, ifs) \in [1..Len(ifs) -> Q]
        BY <3>1, <3>2, <3>3
      <3> QED
        BY <3>2, <3>4, Typed
    <2>4. PICK m \in Seq(Texts) : m = FlattenSeq(Blocks(d, ifs))
      BY <2>3, FlattenFacts
    <2> HIDE DEF p
    <2>5. p \o m \in Seq(Texts)
      BY <1>2, OthersAreTexts, ConcatFacts
    <2>6. (p \o m) \o <<>> = p \o m
      BY <2>5
    <2>7. Body(d, ifs) = (p \o m) \o <<>>
      BY <2>1, <2>2, <2>4, <2>6, BrandCases
    <2> QED
      BY <1>2, <2>4, <2>7 DEF HasLayout
  <1> QED
    BY <1>3 DEF OneLayout

\* The layout of the firewall's, whose front has the zones.
LEMMA PanosLayout ==
  ASSUME NEW d \in Device, Brand(d) = "palo"
  PROVE  \E q : \A ifs \in Seq(Interface) :
           HasLayout(Body(d, ifs), ZoneFront(d, ifs), Blocks(d, ifs), q)
  <1> DEFINE q == Plain("security rules ALLOW-OUTBOUND from TRUST to UNTRUST")
  <1>1. {"hostname", "ip-address", "zone UNTRUST", "zone TRUST",
         "security rules ALLOW-OUTBOUND from TRUST to UNTRUST"} \subseteq Phrases
    BY DEF Phrases
  <1>2. q \in Seq(Others)
    BY <1>1, PlainLine
  <1>3. ASSUME NEW ifs \in Seq(Interface)
        PROVE  HasLayout(Body(d, ifs), ZoneFront(d, ifs), Blocks(d, ifs), q)
    <2>1. Body(d, ifs) = (ZoneFront(d, ifs) \o FlattenSeq([k \in DOMAIN ifs |-> PanosBlock(d, ifs[k])])) \o q
      BY BrandCases DEF PanosConfig, Lines, ZoneFront
    <2>2. [k \in DOMAIN ifs |-> PanosBlock(d, ifs[k])] = Blocks(d, ifs)
      BY DEF Blocks, BlockAt
    <2>3. Joined(Untrust(ifs)) \in Data /\ Joined(Trust(ifs)) \in Data
      BY ZoneFacts, SpacedFacts
    <2>4. /\ Line("hostname", <<d.name>>) \in Others /\ Line("ip-address", <<d.ip>>) \in Others
          /\ Line("zone UNTRUST", Joined(Untrust(ifs))) \in Others /\ Line("zone TRUST", Joined(Trust(ifs))) \in Others
      BY <1>1, <2>3, DeviceLines, OtherLine
    <2>5. ZoneFront(d, ifs) \in Seq(Others)
      BY <2>4, SomeLines DEF ZoneFront
    <2> QED
      BY <1>2, <2>1, <2>2, <2>5 DEF HasLayout
  <1> QED
    BY <1>3

\* What heads the block of an interface.
HeadingAt(d, ifs, k) ==
  IF Brand(d) = "juniper" THEN JunosName(ifs[k].name)
  ELSE IF Brand(d) = "palo" THEN Lowered(ifs[k].name)
  ELSE IF Brand(d) = "nokia" THEN <<k, k>>
  ELSE ifs[k].name

\* The block of an interface, in any format.
LEMMA BlockFacts ==
  ASSUME NEW d \in Device, NEW ifs \in Seq(Interface), NEW k \in 1..Len(ifs)
  PROVE  /\ BlockAt(d, ifs, k) \in BlocksOf(Texts, Heading)
         /\ BlockAt(d, ifs, k)[1] = Line("interface", HeadingAt(d, ifs, k))
  <1>1. PICK i \in Interface : i = ifs[k]
    OBVIOUS
  <1>2. CASE Brand(d) = "cisco"
    <2>1. CiscoBlock(i) \in BlocksOf(Texts, Heading) /\ CiscoBlock(i)[1] = Line("interface", i.name)
      BY CiscoBlocks
    <2> QED
      BY <1>1, <1>2, <2>1 DEF BlockAt, HeadingAt
  <1>3. CASE Brand(d) = "juniper"
    <2>1. JunosBlock(i) \in BlocksOf(Texts, Heading) /\ JunosBlock(i)[1] = Line("interface", JunosName(i.name))
      BY JunosBlocks
    <2> QED
      BY <1>1, <1>3, <2>1 DEF BlockAt, HeadingAt
  <1>4. CASE Brand(d) = "arista"
    <2>1. AristaBlock(i) \in BlocksOf(Texts, Heading) /\ AristaBlock(i)[1] = Line("interface", i.name)
      BY AristaBlocks
    <2> QED
      BY <1>1, <1>4, <2>1 DEF BlockAt, HeadingAt
  <1>5. CASE Brand(d) = "palo"
    <2>1. PanosBlock(d, i) \in BlocksOf(Texts, Heading) /\ PanosBlock(d, i)[1] = Line("interface", Lowered(i.name))
      BY PanosBlocks
    <2> QED
      BY <1>1, <1>5, <2>1 DEF BlockAt, HeadingAt
  <1>6. CASE Brand(d) = "nokia"
    <2>1. NokiaPort(ifs, k) \in BlocksOf(Texts, Heading) /\ NokiaPort(ifs, k)[1] = Line("interface", <<k, k>>)
      BY NokiaBlocks
    <2> QED
      BY <1>6, <2>1 DEF BlockAt, HeadingAt
  <1>7. CASE Brand(d) \notin {"cisco", "juniper", "arista", "palo", "nokia"}
    <2>1. GenericBlock(i) \in BlocksOf(Texts, Heading) /\ GenericBlock(i)[1] = Line("interface", i.name)
      BY GenericBlocks
    <2> QED
      BY <1>1, <1>7, <2>1 DEF BlockAt, HeadingAt
  <1> QED
    BY <1>2, <1>3, <1>4, <1>5, <1>6, <1>7

\* The blocks of a list, in any format.
LEMMA BlocksAre ==
  ASSUME NEW d \in Device, NEW ifs \in Seq(Interface)
  PROVE  /\ Blocks(d, ifs) \in Seq(BlocksOf(Texts, Heading)) /\ Len(Blocks(d, ifs)) = Len(ifs)
         /\ \A k \in 1..Len(ifs) : Blocks(d, ifs)[k] = BlockAt(d, ifs, k)
  <1>1. PICK B : B = BlocksOf(Texts, Heading)
    OBVIOUS
  <1>2. Blocks(d, ifs) = [k \in 1..Len(ifs) |-> BlockAt(d, ifs, k)]
    BY DEF Blocks
  <1>3. \A k \in 1..Len(ifs) : BlockAt(d, ifs, k) \in B
    BY <1>1, BlockFacts
  <1>4. Blocks(d, ifs) \in [1..Len(ifs) -> B]
    BY <1>2, <1>3
  <1>5. Blocks(d, ifs) \in Seq(B) /\ Len(Blocks(d, ifs)) = Len(ifs)
    BY <1>4, Typed
  <1> QED
    BY <1>1, <1>2, <1>5

\* The headings of a text are those of its blocks.
LEMMA QuietOthers ==
  ASSUME NEW s \in Seq(Others)
  PROVE  s \in Seq(Texts) /\ Picked(s, Heading) = <<>>
  <1>1. s \in Seq(Texts)
    BY OthersAreTexts
  <1>2. \A i \in 1..Len(s) : s[i] \notin Heading
    BY DEF Others
  <1> QED
    BY <1>1, <1>2, PickedQuiet

\* The lines that head a block, picked as a set.
LEMMA HeadsPicked ==
  ASSUME NEW text \in Seq(Texts)
  PROVE  Heads(text) = Picked(text, Heading)
  <1>1. \A k \in DOMAIN text : text[k].words = "interface" <=> text[k] \in Heading
    BY DEF Heading
  <1>2. [k \in DOMAIN text |-> IF text[k].words = "interface" THEN <<text[k]>> ELSE <<>>] = Singly(text, Heading)
    BY <1>1 DEF Singly
  <1> QED
    BY <1>2 DEF Heads, Picked

\* The headings of a text with a layout are the first lines of its blocks.
LEMMA HeadsOfBlocks ==
  ASSUME NEW text, NEW p, NEW bs \in Seq(BlocksOf(Texts, Heading)), NEW q, HasLayout(text, p, bs, q)
  PROVE  Heads(text) = [k \in 1..Len(bs) |-> bs[k][1]]
  <1>1. p \in Seq(Others) /\ q \in Seq(Others) /\ text = (p \o FlattenSeq(bs)) \o q
    BY DEF HasLayout
  <1>2. p \in Seq(Texts) /\ q \in Seq(Texts) /\ Picked(p, Heading) = <<>> /\ Picked(q, Heading) = <<>>
    BY <1>1, QuietOthers
  <1>3. PICK m \in Seq(Texts) : m = FlattenSeq(bs)
    BY BlocksType
  <1>4. Picked(m, Heading) = [k \in 1..Len(bs) |-> bs[k][1]] /\ Picked(m, Heading) \in Seq(Texts)
    <2>1. Picked(FlattenSeq(bs), Heading) = [k \in 1..Len(bs) |-> bs[k][1]]
      BY PickedBlocks
    <2>2. Picked(m, Heading) \in Seq(Texts)
      BY PickedFacts
    <2> QED
      BY <1>3, <2>1, <2>2
  <1>5. PICK u \in Seq(Texts) : u = p \o m
    BY <1>2, ConcatFacts
  <1>6. Picked(u, Heading) = Picked(p, Heading) \o Picked(m, Heading)
    BY <1>2, <1>5, PickedConcat
  <1>7. Picked(u \o q, Heading) = Picked(u, Heading) \o Picked(q, Heading)
    BY <1>2, PickedConcat
  <1>8. \A s \in Seq(Texts) : <<>> \o s = s /\ s \o <<>> = s
    OBVIOUS
  <1>9. Picked(u \o q, Heading) = Picked(m, Heading)
    BY <1>2, <1>4, <1>6, <1>7, <1>8
  <1>10. text = u \o q /\ text \in Seq(Texts)
    BY <1>1, <1>2, <1>3, <1>5, ConcatFacts
  <1> QED
    BY <1>4, <1>9, <1>10, HeadsPicked

\* Whatever the brand, there is a layout.
LEMMA SomeLayout ==
  ASSUME NEW d \in Device, NEW ifs \in Seq(Interface)
  PROVE  \E p, q : HasLayout(Body(d, ifs), p, Blocks(d, ifs), q)
  <1>1. OneLayout(d) \/ Brand(d) = "palo"
    BY CiscoLayout, JuniperLayout, AristaLayout, NokiaLayout, GenericLayout
  <1>2. CASE OneLayout(d)
    BY <1>2 DEF OneLayout
  <1>3. CASE Brand(d) = "palo"
    BY <1>3, PanosLayout
  <1> QED
    BY <1>1, <1>2, <1>3

\* The headings of a text are those of the interfaces, in their order.
LEMMA HeadsAre ==
  ASSUME NEW d \in Device, NEW ifs \in Seq(Interface)
  PROVE  LET heads == Heads(Body(d, ifs))
         IN Len(heads) = Len(ifs) /\ \A k \in 1..Len(ifs) : heads[k] = Line("interface", HeadingAt(d, ifs, k))
  <1>1. PICK p, q : HasLayout(Body(d, ifs), p, Blocks(d, ifs), q)
    BY SomeLayout
  <1>2. PICK bs \in Seq(BlocksOf(Texts, Heading)) : bs = Blocks(d, ifs)
    BY BlocksAre
  <1>3. Heads(Body(d, ifs)) = [k \in 1..Len(bs) |-> bs[k][1]]
    BY <1>1, <1>2, HeadsOfBlocks
  <1>4. Len(bs) = Len(ifs) /\ \A k \in 1..Len(ifs) : bs[k][1] = Line("interface", HeadingAt(d, ifs, k))
    BY <1>2, BlocksAre, BlockFacts
  <1>5. Len(ifs) \in Nat
    OBVIOUS
  <1> QED
    BY <1>3, <1>4, <1>5

\* The JunOS name of a name that is not in its form already tells the name, but
\* for case.
LEMMA FirstFacts ==
  ASSUME NEW n, NEW part, NEW by
  PROVE  /\ DOMAIN First(n, part, by) = DOMAIN n
         /\ \A k \in DOMAIN n : First(n, part, by)[k] = n[k] \/ (n[k] = part /\ First(n, part, by)[k] = by)
  BY DEF First

\* A JunOS name tells a name without JunOS's own forms, but for case.
LEMMA JunosTells ==
  ASSUME NEW n \in Seq(Chars), NEW m \in Seq(Chars), Plainly(n), Plainly(m), JunosName(n) = JunosName(m)
  PROVE  Lowered(n) = Lowered(m)
  <1>1. ASSUME NEW x \in Seq(Chars), Plainly(x)
        PROVE  /\ DOMAIN JunosName(x) = DOMAIN x /\ DOMAIN Lowered(x) = DOMAIN x
               /\ \A k \in DOMAIN x :
                    \/ JunosName(x)[k] = "et-0/0/" /\ Lowered(x)[k] = "te"
                    \/ JunosName(x)[k] = "ge-0/0/" /\ Lowered(x)[k] = "gi"
                    \/ JunosName(x)[k] = Lowered(x)[k] /\ Lowered(x)[k] \notin {"et-0/0/", "ge-0/0/"}
    <2>1. DOMAIN Lowered(x) = DOMAIN x /\ \A k \in DOMAIN x : Lowered(x)[k] = Lower(x[k])
      BY DEF Lowered
    <2>2. \A k \in DOMAIN x : Lowered(x)[k] \notin {"et-0/0/", "ge-0/0/"}
      BY <1>1, <2>1 DEF Plainly, Lower
    <2>3. PICK l, a, b : l = Lowered(x) /\ a = First(l, "te", "et-0/0/") /\ b = First(a, "gi", "ge-0/0/")
      OBVIOUS
    <2>4. DOMAIN a = DOMAIN l /\ \A k \in DOMAIN l : a[k] = l[k] \/ (l[k] = "te" /\ a[k] = "et-0/0/")
      BY <2>3, FirstFacts
    <2>5. DOMAIN b = DOMAIN a /\ \A k \in DOMAIN a : b[k] = a[k] \/ (a[k] = "gi" /\ b[k] = "ge-0/0/")
      BY <2>3, FirstFacts
    <2>6. JunosName(x) = b
      BY <2>3 DEF JunosName
    <2> QED
      BY <2>1, <2>2, <2>3, <2>4, <2>5, <2>6
  <1>2. DOMAIN n = DOMAIN m /\ DOMAIN Lowered(n) = DOMAIN n /\ DOMAIN Lowered(m) = DOMAIN m
    BY <1>1
  <1>3. \A k \in DOMAIN n : Lowered(n)[k] = Lowered(m)[k]
    BY <1>1, <1>2
  <1> QED
    BY <1>2, <1>3 DEF Lowered

\* Names that differ otherwise than in case have different headings.
LEMMA HeadingsApart ==
  ASSUME NEW d \in Device, NEW ifs \in Seq(Interface), NEW j \in 1..Len(ifs), NEW k \in 1..Len(ifs),
         Plainly(ifs[j].name), Plainly(ifs[k].name), ~Alike(ifs[j], ifs[k])
  PROVE  HeadingAt(d, ifs, j) # HeadingAt(d, ifs, k)
  <1>1. Lowered(ifs[j].name) # Lowered(ifs[k].name) /\ ifs[j].name # ifs[k].name /\ j # k
    BY DEF Alike
  <1>2. ifs[j].name \in Seq(Chars) /\ ifs[k].name \in Seq(Chars)
    BY InterfaceTypes
  <1>3. JunosName(ifs[j].name) # JunosName(ifs[k].name)
    BY <1>1, <1>2, JunosTells
  <1>4. <<j, j>> # <<k, k>>
    BY <1>1
  <1> QED
    BY <1>1, <1>3, <1>4 DEF HeadingAt

\* What stands below the date are lines.
LEMMA BodyType ==
  ASSUME NEW d \in Device, NEW ifs \in Seq(Interface)
  PROVE  Body(d, ifs) \in Seq(Texts)
  <1>1. PICK p, q : HasLayout(Body(d, ifs), p, Blocks(d, ifs), q)
    BY SomeLayout
  <1>2. PICK bs \in Seq(BlocksOf(Texts, Heading)) : bs = Blocks(d, ifs)
    BY BlocksAre
  <1>3. p \in Seq(Texts) /\ q \in Seq(Texts) /\ Body(d, ifs) = (p \o FlattenSeq(bs)) \o q
    BY <1>1, <1>2, OthersAreTexts DEF HasLayout
  <1>4. PICK m \in Seq(Texts) : m = FlattenSeq(bs)
    BY BlocksType
  <1>5. PICK u \in Seq(Texts) : u = p \o m
    BY <1>3, ConcatFacts
  <1> QED
    BY <1>3, <1>4, <1>5, ConcatFacts

\* The date is one line or two, none of which heads a block.
LEMMA StampType ==
  ASSUME NEW d, NEW now \in Moment
  PROVE  Stamp(d, now) \in Seq(Others) /\ Len(Stamp(d, now)) = IF Brand(d) = "cisco" THEN 2 ELSE 1
  <1>1. <<now[1]>> \in Data /\ <<now[2]>> \in Data
    BY DataTypes DEF Moment
  <1>2. "last configuration change" \in Phrases /\ "NVRAM config last updated" \in Phrases
        /\ "last changed" \in Phrases
    BY DEF Phrases
  <1>3. PICK x \in Others, y \in Others, z \in Others :
          /\ x = Line("last configuration change", <<now[1]>>)
          /\ y = Line("NVRAM config last updated", <<now[2]>>)
          /\ z = Line("last changed", <<now[1]>>)
    BY <1>1, <1>2, OtherLine
  <1>4. Stamp(d, now) = IF Brand(d) = "cisco" THEN <<x, y>> ELSE <<z>>
    BY <1>3 DEF Stamp
  <1> QED
    BY <1>4

\* The lines of the date tell the part of the time that the format has.
LEMMA StampTells ==
  ASSUME NEW d, NEW now \in Moment, NEW later \in Moment
  PROVE  Stamp(d, now) = Stamp(d, later) <=> Dated(d, now) = Dated(d, later)
  <1>1. now = later <=> now[1] = later[1] /\ now[2] = later[2]
    BY DEF Moment
  <1>2. PICK a, b, e, f : a = <<now[1]>> /\ b = <<now[2]>> /\ e = <<later[1]>> /\ f = <<later[2]>>
    OBVIOUS
  <1>3. (a = e <=> now[1] = later[1]) /\ (b = f <=> now[2] = later[2])
    BY <1>2
  <1>4. \A w, x, y : Line(w, x) = Line(w, y) <=> x = y
    BY SameLine
  <1>5. CASE Brand(d) = "cisco"
    <2>1. PICK x, y, v, w : /\ x = Line("last configuration change", a)
                            /\ y = Line("NVRAM config last updated", b)
                            /\ v = Line("last configuration change", e)
                            /\ w = Line("NVRAM config last updated", f)
      OBVIOUS
    <2>2. Stamp(d, now) = <<x, y>> /\ Stamp(d, later) = <<v, w>>
      BY <1>2, <1>5, <2>1 DEF Stamp
    <2>3. (x = v <=> a = e) /\ (y = w <=> b = f)
      BY <1>4, <2>1
    <2>4. <<x, y>> = <<v, w>> <=> x = v /\ y = w
      OBVIOUS
    <2> QED
      BY <1>1, <1>3, <1>5, <2>2, <2>3, <2>4 DEF Dated
  <1>6. CASE Brand(d) # "cisco"
    <2>1. PICK x, v : x = Line("last changed", a) /\ v = Line("last changed", e)
      OBVIOUS
    <2>2. Stamp(d, now) = <<x>> /\ Stamp(d, later) = <<v>>
      BY <1>2, <1>6, <2>1 DEF Stamp
    <2>3. x = v <=> a = e
      BY <1>4, <2>1
    <2>4. <<x>> = <<v>> <=> x = v
      OBVIOUS
    <2> QED
      BY <1>3, <1>6, <2>2, <2>3, <2>4 DEF Dated
  <1> QED
    BY <1>5, <1>6

\* The headings stand below the date.
LEMMA HeadsBelow ==
  ASSUME NEW d \in Device, NEW ifs \in Seq(Interface), NEW now \in Moment
  PROVE  Heads(GenerateRunningConfig(d, ifs, now)) = Heads(Body(d, ifs))
  <1>1. PICK p \in Seq(Texts), m \in Seq(Texts) :
          p = Stamp(d, now) /\ m = Body(d, ifs) /\ Picked(p, Heading) = <<>>
    BY StampType, BodyType, QuietOthers
  <1>2. PICK u \in Seq(Texts) : u = p \o m
    BY ConcatFacts
  <1>3. Picked(u, Heading) = Picked(p, Heading) \o Picked(m, Heading)
    BY <1>2, PickedConcat
  <1>4. PICK h \in Seq(Texts) : h = Picked(m, Heading)
    BY PickedFacts
  <1>5. <<>> \o h = h
    OBVIOUS
  <1>6. Heads(u) = h /\ Heads(m) = h
    BY <1>1, <1>3, <1>4, <1>5, HeadsPicked
  <1> QED
    BY <1>1, <1>2, <1>6 DEF GenerateRunningConfig

\* Two texts, cut where the date ends: they are the same if the dates are and
\* what stands below them is.
LEMMA CutAtDate ==
  ASSUME NEW d \in Device, NEW ifs \in Seq(Interface), NEW after \in Seq(Interface),
         NEW now \in Moment, NEW later \in Moment
  PROVE  LET was == GenerateRunningConfig(d, ifs, now)
             is  == GenerateRunningConfig(d, after, later)
             n   == Len(Stamp(d, now)) + 1
         IN /\ SubSeq(was, n, Len(was)) = Body(d, ifs)
            /\ SubSeq(is, n, Len(is)) = Body(d, after)
            /\ was = is <=> Body(d, ifs) = Body(d, after) /\ Dated(d, now) = Dated(d, later)
  <1>1. PICK p \in Seq(Texts), q \in Seq(Texts), s \in Seq(Texts), t \in Seq(Texts) :
          /\ p = Stamp(d, now) /\ q = Stamp(d, later) /\ Len(p) = Len(q)
          /\ s = Body(d, ifs) /\ t = Body(d, after)
    BY StampType, BodyType, OthersAreTexts
  <1>2. PICK was, is : was = p \o s /\ is = q \o t
    OBVIOUS
  <1>3. SubSeq(was, Len(p) + 1, Len(was)) = s
    BY <1>2, DropFront
  <1>4. SubSeq(is, Len(q) + 1, Len(is)) = t
    BY <1>2, DropFront
  <1>5. was = is <=> p = q /\ s = t
    BY <1>1, <1>2, CancelLeft
  <1>6. p = q <=> Dated(d, now) = Dated(d, later)
    BY <1>1, StampTells
  <1>7. was = GenerateRunningConfig(d, ifs, now) /\ is = GenerateRunningConfig(d, after, later)
    BY <1>1, <1>2 DEF GenerateRunningConfig
  <1> QED
    BY <1>1, <1>3, <1>4, <1>5, <1>6, <1>7

\* PortsApart, for any device and any list of interfaces.
LEMMA PortsDiffer ==
  ASSUME NEW d \in Device, NEW ifs \in Seq(Interface)
  PROVE  LET heads == Heads(Body(d, ifs))
         IN /\ Len(heads) = Len(ifs)
            /\ \A j, k \in DOMAIN ifs :
                 Plainly(ifs[j].name) /\ Plainly(ifs[k].name) /\ ~Alike(ifs[j], ifs[k])
                 => heads[j] # heads[k]
  <1>1. PICK heads : heads = Heads(Body(d, ifs))
    OBVIOUS
  <1>2. Len(heads) = Len(ifs) /\ \A k \in 1..Len(ifs) : heads[k] = Line("interface", HeadingAt(d, ifs, k))
    BY <1>1, HeadsAre
  <1>3. ASSUME NEW j \in DOMAIN ifs, NEW k \in DOMAIN ifs,
               Plainly(ifs[j].name), Plainly(ifs[k].name), ~Alike(ifs[j], ifs[k])
        PROVE  heads[j] # heads[k]
    <2>1. j \in 1..Len(ifs) /\ k \in 1..Len(ifs)
      OBVIOUS
    <2>2. HeadingAt(d, ifs, j) # HeadingAt(d, ifs, k)
      BY <1>3, <2>1, HeadingsApart
    <2>3. PICK x, y : x = HeadingAt(d, ifs, j) /\ y = HeadingAt(d, ifs, k)
      OBVIOUS
    <2>4. Line("interface", x) = Line("interface", y) => x = y
      BY SameLine
    <2> QED
      BY <1>2, <2>1, <2>2, <2>3, <2>4
  <1> QED
    BY <1>1, <1>2, <1>3

\* ZonesApart, for any list of interfaces.
LEMMA ZonesDiffer ==
  ASSUME NEW ifs \in Seq(Interface)
  PROVE  LET own == {k \in DOMAIN ifs : /\ ifs[k].name \notin MadeUp
                                        /\ \A j \in DOMAIN ifs : ifs[j].name = ifs[k].name => j = k}
             ins == {k \in own : ifs[k].name \in ToSet(Trust(ifs))}
             outs == {k \in own : ifs[k].name \in ToSet(Untrust(ifs))}
         IN /\ ins \cap outs = {}
            /\ outs = {k \in own : ifs[k].vlan = "wan-100"}
            /\ ins = {k \in own : ifs[k].status = "up"} \ outs
  <1> DEFINE own == {k \in DOMAIN ifs : /\ ifs[k].name \notin MadeUp
                                        /\ \A j \in DOMAIN ifs : ifs[j].name = ifs[k].name => j = k}
  <1>1. ASSUME NEW k \in own
        PROVE  /\ ifs[k].name \in ToSet(Untrust(ifs)) <=> Wan(ifs[k])
               /\ ifs[k].name \in ToSet(Trust(ifs)) <=> Lan(ifs[k])
    <2>1. \A x : x \notin MadeUp =>
              /\ x \in ToSet(Untrust(ifs)) <=> \E j \in DOMAIN ifs : Wan(ifs[j]) /\ ifs[j].name = x
              /\ x \in ToSet(Trust(ifs)) <=> \E j \in DOMAIN ifs : Lan(ifs[j]) /\ ifs[j].name = x
      BY ZoneFacts
    <2> QED
      BY <2>1
  <1>2. \A i : (Wan(i) <=> i.vlan = "wan-100") /\ (Lan(i) <=> i.status = "up" /\ ~Wan(i))
    BY DEF Wan, Lan
  <1> HIDE DEF own
  <1>3. LET ins == {k \in own : ifs[k].name \in ToSet(Trust(ifs))}
            outs == {k \in own : ifs[k].name \in ToSet(Untrust(ifs))}
        IN /\ ins \cap outs = {}
           /\ outs = {k \in own : ifs[k].vlan = "wan-100"}
           /\ ins = {k \in own : ifs[k].status = "up"} \ outs
    BY <1>1, <1>2
  <1> QED
    BY <1>3 DEF own

\* The blocks of one place of two lists.
LEMMA BlockTells ==
  ASSUME NEW d \in Device, NEW ifs \in Seq(Interface), NEW after \in Seq(Interface),
         NEW k \in 1..Len(ifs), k \in 1..Len(after)
  PROVE  /\ Brand(d) # "palo" =>
              (BlockAt(d, ifs, k) = BlockAt(d, after, k) <=> Shown(Brand(d), ifs[k]) = Shown(Brand(d), after[k]))
         /\ Brand(d) = "palo" =>
              (BlockAt(d, ifs, k) = BlockAt(d, after, k)
                 <=> Lowered(ifs[k].name) = Lowered(after[k].name) /\ ifs[k].desc = after[k].desc)
  <1>1. PICK i \in Interface, j \in Interface : i = ifs[k] /\ j = after[k]
    OBVIOUS
  <1>2. CASE Brand(d) = "cisco"
    <2>1. CiscoBlock(i) = CiscoBlock(j) <=> Shown("cisco", i) = Shown("cisco", j)
      BY CiscoBlocks
    <2> QED
      BY <1>1, <1>2, <2>1 DEF BlockAt
  <1>3. CASE Brand(d) = "juniper"
    <2>1. JunosBlock(i) = JunosBlock(j) <=> Shown("juniper", i) = Shown("juniper", j)
      BY JunosBlocks
    <2> QED
      BY <1>1, <1>3, <2>1 DEF BlockAt
  <1>4. CASE Brand(d) = "arista"
    <2>1. AristaBlock(i) = AristaBlock(j) <=> Shown("arista", i) = Shown("arista", j)
      BY AristaBlocks
    <2> QED
      BY <1>1, <1>4, <2>1 DEF BlockAt
  <1>5. CASE Brand(d) = "palo"
    <2>1. PanosBlock(d, i) = PanosBlock(d, j) <=> Lowered(i.name) = Lowered(j.name) /\ i.desc = j.desc
      BY PanosBlocks
    <2> QED
      BY <1>1, <1>5, <2>1 DEF BlockAt
  <1>6. CASE Brand(d) = "nokia"
    <2>1. NokiaPort(ifs, k) = NokiaPort(after, k) <=> Shown("nokia", ifs[k]) = Shown("nokia", after[k])
      BY NokiaBlocks
    <2> QED
      BY <1>6, <2>1 DEF BlockAt
  <1>7. CASE Brand(d) \notin {"cisco", "juniper", "arista", "palo", "nokia"}
    <2>1. PICK b : b = Brand(d)
      OBVIOUS
    <2>2. GenericBlock(i) = GenericBlock(j) <=> Shown(b, i) = Shown(b, j)
      BY <1>7, <2>1, GenericBlocks
    <2> QED
      BY <1>1, <1>7, <2>1, <2>2 DEF BlockAt
  <1> QED
    BY <1>2, <1>3, <1>4, <1>5, <1>6, <1>7

\* Texts of one layout: the same, if the fronts have one length, exactly if
\* front and blocks are.
LEMMA LayoutTells ==
  ASSUME NEW s, NEW t, NEW p, NEW o, NEW q,
         NEW bs \in Seq(BlocksOf(Texts, Heading)), NEW cs \in Seq(BlocksOf(Texts, Heading)),
         HasLayout(s, p, bs, q), HasLayout(t, o, cs, q), Len(p) = Len(o)
  PROVE  s = t <=> p = o /\ bs = cs
  <1>1. /\ p \in Seq(Others) /\ o \in Seq(Others) /\ q \in Seq(Others)
        /\ s = (p \o FlattenSeq(bs)) \o q /\ t = (o \o FlattenSeq(cs)) \o q
    BY DEF HasLayout
  <1>2. p \in Seq(Texts) /\ o \in Seq(Texts) /\ q \in Seq(Texts)
    BY <1>1, OthersAreTexts
  <1>3. PICK m \in Seq(Texts), n \in Seq(Texts) : m = FlattenSeq(bs) /\ n = FlattenSeq(cs)
    BY BlocksType
  <1>4. PICK u \in Seq(Texts), v \in Seq(Texts) : u = p \o m /\ v = o \o n
    BY <1>2, ConcatFacts
  <1>5. u \o q = v \o q => u = v
    <2>1. PICK r \in Seq(Texts) : r = q
      BY <1>2
    <2>2. Len(q) = Len(r) /\ u \o q = v \o r => u = v /\ q = r
      BY <1>2, CancelRight
    <2> QED
      BY <2>1, <2>2
  <1>6. Len(p) = Len(o) /\ p \o m = o \o n => p = o /\ m = n
    BY <1>2, CancelLeft
  <1>7. m = n => bs = cs
    BY <1>3, Parse
  <1>8. s = t => p = o /\ bs = cs
    BY <1>1, <1>3, <1>4, <1>5, <1>6, <1>7
  <1>9. p = o /\ bs = cs => s = t
    BY <1>1
  <1> QED
    BY <1>8, <1>9

\* The blocks of two lists are the same if there are as many, and each is.
LEMMA SameBlocks ==
  ASSUME NEW d \in Device, NEW ifs \in Seq(Interface), NEW after \in Seq(Interface)
  PROVE  Blocks(d, ifs) = Blocks(d, after)
           <=> Len(ifs) = Len(after) /\ \A k \in 1..Len(ifs) : BlockAt(d, ifs, k) = BlockAt(d, after, k)
  <1>1. PICK bs \in Seq(BlocksOf(Texts, Heading)), cs \in Seq(BlocksOf(Texts, Heading)) :
          bs = Blocks(d, ifs) /\ cs = Blocks(d, after)
    BY BlocksAre
  <1>2. /\ Len(bs) = Len(ifs) /\ Len(cs) = Len(after)
        /\ \A k \in 1..Len(ifs) : bs[k] = BlockAt(d, ifs, k)
        /\ \A k \in 1..Len(after) : cs[k] = BlockAt(d, after, k)
    BY <1>1, BlocksAre
  <1>3. bs = cs => Len(ifs) = Len(after) /\ \A k \in 1..Len(ifs) : BlockAt(d, ifs, k) = BlockAt(d, after, k)
    BY <1>2
  <1>4. ASSUME Len(ifs) = Len(after), \A k \in 1..Len(ifs) : BlockAt(d, ifs, k) = BlockAt(d, after, k)
        PROVE  bs = cs
    <2>1. Len(bs) = Len(cs) /\ \A k \in 1..Len(bs) : bs[k] = cs[k]
      BY <1>2, <1>4
    <2>2. PICK B : B = BlocksOf(Texts, Heading)
      OBVIOUS
    <2>3. bs \in Seq(B) /\ cs \in Seq(B)
      BY <2>2
    <2> QED
      BY <2>1, <2>3, SeqEqual
  <1> QED
    BY <1>1, <1>3, <1>4

\* A list shows what another one shows.
SameShown(brand, ifs, after) ==
  Len(ifs) = Len(after) /\ \A k \in 1..Len(ifs) : Shown(brand, ifs[k]) = Shown(brand, after[k])

\* In any format but the firewall's, texts are the same exactly if the lists show the same.
LEMMA ShownPlainly ==
  ASSUME NEW d \in Device, Brand(d) # "palo", NEW ifs \in Seq(Interface), NEW after \in Seq(Interface)
  PROVE  Body(d, ifs) = Body(d, after) <=> SameShown(Brand(d), ifs, after)
  <1>1. OneLayout(d)
    BY CiscoLayout, JuniperLayout, AristaLayout, NokiaLayout, GenericLayout
  <1>2. PICK p, q : \A s \in Seq(Interface) : HasLayout(Body(d, s), p, Blocks(d, s), q)
    BY <1>1 DEF OneLayout
  <1>3. HasLayout(Body(d, ifs), p, Blocks(d, ifs), q)
        /\ HasLayout(Body(d, after), p, Blocks(d, after), q)
    BY <1>2
  <1>4. PICK bs \in Seq(BlocksOf(Texts, Heading)), cs \in Seq(BlocksOf(Texts, Heading)) :
          bs = Blocks(d, ifs) /\ cs = Blocks(d, after)
    BY BlocksAre
  <1>5. PICK s, t : s = Body(d, ifs) /\ t = Body(d, after)
    OBVIOUS
  <1>6. HasLayout(s, p, bs, q) /\ HasLayout(t, p, cs, q)
    BY <1>3, <1>4, <1>5
  <1>7. s = t <=> p = p /\ bs = cs
    BY <1>6, LayoutTells
  <1>8. bs = cs <=> Len(ifs) = Len(after) /\ \A k \in 1..Len(ifs) : BlockAt(d, ifs, k) = BlockAt(d, after, k)
    BY <1>4, SameBlocks
  <1>9. ASSUME Len(ifs) = Len(after), NEW k \in 1..Len(ifs)
        PROVE  BlockAt(d, ifs, k) = BlockAt(d, after, k) <=> Shown(Brand(d), ifs[k]) = Shown(Brand(d), after[k])
    <2>1. k \in 1..Len(after)
      BY <1>9
    <2> QED
      BY <2>1, BlockTells
  <1> QED
    BY <1>5, <1>7, <1>8, <1>9 DEF SameShown

\* In the firewall's, too, if the zones tell the interfaces apart.
LEMMA ShownZoned ==
  ASSUME NEW d \in Device, Brand(d) = "palo", NEW ifs \in Seq(Interface), NEW after \in Seq(Interface)
  PROVE  /\ SameShown("palo", ifs, after) => Body(d, ifs) = Body(d, after)
         /\ Body(d, ifs) = Body(d, after) /\ Telling(ifs) /\ Telling(after)
            => SameShown("palo", ifs, after)
  <1>0. \A w, u, v : Line(w, u) = Line(w, v) => u = v
    BY SameLine
  <1>1. PICK q : \A s \in Seq(Interface) :
           HasLayout(Body(d, s), ZoneFront(d, s), Blocks(d, s), q)
    BY PanosLayout
  <1>2. HasLayout(Body(d, ifs), ZoneFront(d, ifs), Blocks(d, ifs), q)
        /\ HasLayout(Body(d, after), ZoneFront(d, after), Blocks(d, after), q)
    BY <1>1
  <1>3. PICK bs \in Seq(BlocksOf(Texts, Heading)), cs \in Seq(BlocksOf(Texts, Heading)) :
          bs = Blocks(d, ifs) /\ cs = Blocks(d, after)
    BY BlocksAre
  <1>4. PICK s, t, p, o : /\ s = Body(d, ifs) /\ t = Body(d, after)
                          /\ p = ZoneFront(d, ifs) /\ o = ZoneFront(d, after)
    OBVIOUS
  <1>5. HasLayout(s, p, bs, q) /\ HasLayout(t, o, cs, q)
    BY <1>2, <1>3, <1>4
  <1>6. Len(p) = Len(o)
    BY <1>4 DEF ZoneFront
  <1>7. s = t <=> p = o /\ bs = cs
    BY <1>5, <1>6, LayoutTells
  <1>8. bs = cs <=> Len(ifs) = Len(after) /\ \A k \in 1..Len(ifs) : BlockAt(d, ifs, k) = BlockAt(d, after, k)
    BY <1>3, SameBlocks
  <1>9. ASSUME Len(ifs) = Len(after), NEW k \in 1..Len(ifs)
        PROVE  BlockAt(d, ifs, k) = BlockAt(d, after, k)
                 <=> Lowered(ifs[k].name) = Lowered(after[k].name) /\ ifs[k].desc = after[k].desc
    <2>1. k \in 1..Len(after)
      BY <1>9
    <2> QED
      BY <2>1, BlockTells
  <1>10. ASSUME SameShown("palo", ifs, after) PROVE s = t
    <2>1. Len(ifs) = Len(after) /\ \A k \in 1..Len(ifs) : Shown("palo", ifs[k]) = Shown("palo", after[k])
      BY <1>10 DEF SameShown
    <2>2. /\ Untrust(ifs) = Untrust(after) /\ Trust(ifs) = Trust(after)
          /\ \A k \in 1..Len(ifs) : Lowered(ifs[k].name) = Lowered(after[k].name) /\ ifs[k].desc = after[k].desc
      BY <2>1, ShownZones
    <2>3. p = o
      BY <1>4, <2>2 DEF ZoneFront
    <2> QED
      BY <1>7, <1>8, <1>9, <2>1, <2>2, <2>3
  <1>11. ASSUME s = t, Telling(ifs), Telling(after) PROVE SameShown("palo", ifs, after)
    <2>1. p = o /\ bs = cs
      BY <1>7, <1>11
    <2>2. Len(ifs) = Len(after)
          /\ \A k \in 1..Len(ifs) : Lowered(ifs[k].name) = Lowered(after[k].name) /\ ifs[k].desc = after[k].desc
      BY <1>8, <1>9, <2>1
    <2>3. /\ Line("zone UNTRUST", Joined(Untrust(ifs))) = Line("zone UNTRUST", Joined(Untrust(after)))
          /\ Line("zone TRUST", Joined(Trust(ifs))) = Line("zone TRUST", Joined(Trust(after)))
      <3>1. p[3] = o[3] /\ p[4] = o[4]
        BY <2>1
      <3> QED
        BY <1>4, <3>1 DEF ZoneFront
    <2>4. Joined(Untrust(ifs)) = Joined(Untrust(after)) /\ Joined(Trust(ifs)) = Joined(Trust(after))
      <3>1. PICK u, v, x, y : /\ u = Joined(Untrust(ifs)) /\ v = Joined(Untrust(after))
                              /\ x = Joined(Trust(ifs)) /\ y = Joined(Trust(after))
        OBVIOUS
      <3>2. Line("zone UNTRUST", u) = Line("zone UNTRUST", v) /\ Line("zone TRUST", x) = Line("zone TRUST", y)
        BY <2>3, <3>1
      <3> QED
        BY <1>0, <3>1, <3>2
    <2>5. PICK u \in Seq(Seq(Chars)), v \in Seq(Seq(Chars)), x \in Seq(Seq(Chars)), y \in Seq(Seq(Chars)) :
            u = Untrust(ifs) /\ v = Untrust(after) /\ x = Trust(ifs) /\ y = Trust(after)
      BY ZoneFacts
    <2>6. Spaceless(u) /\ Spaceless(v) /\ Spaceless(x) /\ Spaceless(y)
      BY <1>11, <2>5, ZonesSpaceless
    <2>7. u = v
      BY <2>4, <2>5, <2>6, JoinedTells
    <2>8. x = y
      BY <2>4, <2>5, <2>6, JoinedTells
    <2>9. \A k \in 1..Len(ifs) : Shown("palo", ifs[k]) = Shown("palo", after[k])
      BY <1>11, <2>2, <2>5, <2>7, <2>8, ZonesShown
    <2> QED
      BY <2>2, <2>9 DEF SameShown
  <1> QED
    BY <1>4, <1>10, <1>11

\* What a list shows, as ChangesShow puts it.
LEMMA ShowsAre ==
  ASSUME NEW brand, NEW ifs \in Seq(Interface), NEW after \in Seq(Interface)
  PROVE  [k \in DOMAIN ifs |-> Shown(brand, ifs[k])] = [k \in DOMAIN after |-> Shown(brand, after[k])]
           <=> SameShown(brand, ifs, after)
  <1> DEFINE f == [k \in DOMAIN ifs |-> Shown(brand, ifs[k])]
             g == [k \in DOMAIN after |-> Shown(brand, after[k])]
  <1>1. DOMAIN f = 1..Len(ifs) /\ DOMAIN g = 1..Len(after) /\ Len(ifs) \in Nat /\ Len(after) \in Nat
    OBVIOUS
  <1>2. 1..Len(ifs) = 1..Len(after) <=> Len(ifs) = Len(after)
    <2>1. \A m, n \in Nat : 1..m = 1..n => m = n
      <3>1. ASSUME NEW m \in Nat, NEW n \in Nat, 1..m = 1..n PROVE m = n
        <4>1. m <= n
          <5>1. m > 0 => m \in 1..m
            OBVIOUS
          <5> QED
            BY <3>1, <5>1
        <4>2. n <= m
          <5>1. n > 0 => n \in 1..n
            OBVIOUS
          <5> QED
            BY <3>1, <5>1
        <4> QED
          BY <4>1, <4>2
      <3> QED
        BY <3>1
    <2> QED
      BY <1>1, <2>1
  <1>3. ASSUME f = g PROVE SameShown(brand, ifs, after)
    <2>1. Len(ifs) = Len(after)
      BY <1>1, <1>2, <1>3
    <2>2. \A k \in 1..Len(ifs) : f[k] = g[k]
      BY <1>3
    <2>3. \A k \in 1..Len(ifs) : f[k] = Shown(brand, ifs[k]) /\ g[k] = Shown(brand, after[k])
      BY <2>1
    <2> QED
      BY <2>1, <2>2, <2>3 DEF SameShown
  <1>4. ASSUME SameShown(brand, ifs, after) PROVE f = g
    <2>1. DOMAIN ifs = DOMAIN after
      BY <1>1, <1>4 DEF SameShown
    <2>2. \A k \in DOMAIN ifs : Shown(brand, ifs[k]) = Shown(brand, after[k])
      BY <1>4 DEF SameShown
    <2> QED
      BY <2>1, <2>2
  <1> QED
    BY <1>3, <1>4

\* What stands below the date tells what the lists show.
LEMMA ChangesTell ==
  ASSUME NEW d \in Device, NEW ifs \in Seq(Interface), NEW after \in Seq(Interface)
  PROVE  LET brand == Brand(d)
             Shows(s) == [k \in DOMAIN s |-> Shown(brand, s[k])]
             same == Body(d, ifs) = Body(d, after)
         IN /\ Shows(ifs) = Shows(after) => same
            /\ same /\ (brand = "palo" => Telling(ifs) /\ Telling(after)) => Shows(ifs) = Shows(after)
  <1>1. PICK brand : brand = Brand(d)
    OBVIOUS
  <1>2. [k \in DOMAIN ifs |-> Shown(brand, ifs[k])] = [k \in DOMAIN after |-> Shown(brand, after[k])]
           <=> SameShown(brand, ifs, after)
    BY ShowsAre
  <1>3. CASE Brand(d) = "palo"
    BY <1>1, <1>2, <1>3, ShownZoned
  <1>4. CASE Brand(d) # "palo"
    BY <1>1, <1>2, <1>4, ShownPlainly
  <1> QED
    BY <1>3, <1>4

-----------------------------------------------------------------------------
(* Histories, sums and series.                                             *)

\* The last samples, up to MaxHistory of them.
Newest(log, k) == IF k <= MaxHistory THEN SubSeq(log, 1, k) ELSE SubSeq(log, k - MaxHistory + 1, k)

\* A part of a log, and the sample after it.
LEMMA AppendSub ==
  ASSUME NEW T, NEW log \in Seq(T), NEW k \in 1..Len(log), NEW a \in 1..k
  PROVE  Append(SubSeq(log, a, k - 1), log[k]) = SubSeq(log, a, k)
  <1>1. Len(log) \in Nat /\ log[k] \in T
    OBVIOUS
  <1>2. k - 1 \in 0..Len(log) /\ a \in 1..(Len(log) + 1) /\ a <= (k - 1) + 1 /\ k \in 0..Len(log) /\ a <= k + 1
    BY <1>1
  <1>3. PICK s : s = SubSeq(log, a, k - 1)
    OBVIOUS
  <1>4. PICK t : t = SubSeq(log, a, k)
    OBVIOUS
  <1>5. PICK j : j = k - 1
    OBVIOUS
  <1>6. s \in Seq(T) /\ Len(s) = j - a + 1 /\ \A i \in 1..(j - a + 1) : s[i] = log[a + i - 1]
    BY <1>2, <1>3, <1>5, SubSeqFacts
  <1>7. t \in Seq(T) /\ Len(t) = k - a + 1 /\ \A i \in 1..(k - a + 1) : t[i] = log[a + i - 1]
    BY <1>2, <1>4, SubSeqFacts
  <1>8. Append(s, log[k]) \in Seq(T) /\ Len(Append(s, log[k])) = Len(t)
    <2>1. s \in Seq(T) /\ log[k] \in T
      BY <1>1, <1>6
    <2>2. Append(s, log[k]) \in Seq(T) /\ Len(Append(s, log[k])) = Len(s) + 1
      BY <2>1, AppendProperties
    <2> QED
      BY <1>1, <1>5, <1>6, <1>7, <2>2
  <1>9. \A i \in 1..Len(t) : Append(s, log[k])[i] = t[i]
    <2>1. ASSUME NEW i \in 1..Len(t) PROVE Append(s, log[k])[i] = t[i]
      <3>1. CASE i = Len(t)
        <4>1. i = Len(s) + 1 /\ a + i - 1 = k
          BY <1>1, <1>5, <1>6, <1>7, <3>1
        <4> QED
          BY <1>1, <1>6, <1>7, <4>1
      <3>2. CASE i # Len(t)
        <4>1. i \in 1..Len(s) /\ i \in 1..(j - a + 1) /\ i \in 1..(k - a + 1)
          BY <1>1, <1>5, <1>6, <1>7, <3>2
        <4> QED
          BY <1>1, <1>6, <1>7, <4>1
      <3> QED
        BY <3>1, <3>2
    <2> QED
      BY <2>1
  <1>10. Append(s, log[k]) = t
    BY <1>7, <1>8, <1>9, SeqEqual
  <1> QED
    BY <1>3, <1>4, <1>10

\* A part of a log without its first sample.
LEMMA TailSub ==
  ASSUME NEW T, NEW log \in Seq(T), NEW k \in 1..Len(log), NEW a \in 1..k
  PROVE  Tail(SubSeq(log, a, k)) = SubSeq(log, a + 1, k)
  <1>1. Len(log) \in Nat
    OBVIOUS
  <1>2. a \in 1..(Len(log) + 1) /\ k \in 0..Len(log) /\ a <= k + 1
        /\ a + 1 \in 1..(Len(log) + 1) /\ a + 1 <= k + 1
    BY <1>1
  <1>3. PICK s, t, b : s = SubSeq(log, a, k) /\ b = a + 1 /\ t = SubSeq(log, b, k)
    OBVIOUS
  <1>4. s \in Seq(T) /\ Len(s) = k - a + 1 /\ \A i \in 1..(k - a + 1) : s[i] = log[a + i - 1]
    BY <1>2, <1>3, SubSeqFacts
  <1>5. t \in Seq(T) /\ Len(t) = k - b + 1 /\ \A i \in 1..(k - b + 1) : t[i] = log[b + i - 1]
    BY <1>2, <1>3, SubSeqFacts
  <1>6. Len(s) >= 1
    BY <1>1, <1>4
  <1>7. Tail(s) \in Seq(T) /\ Len(Tail(s)) = Len(s) - 1 /\ \A i \in 1..(Len(s) - 1) : Tail(s)[i] = s[i + 1]
    BY <1>4, <1>6
  <1>8. Len(Tail(s)) = Len(t)
    BY <1>1, <1>3, <1>4, <1>5, <1>7
  <1>9. ASSUME NEW i \in 1..Len(t) PROVE Tail(s)[i] = t[i]
    <2>1. /\ i \in 1..(Len(s) - 1) /\ i + 1 \in 1..(k - a + 1) /\ i \in 1..(k - b + 1)
          /\ a + (i + 1) - 1 = b + i - 1
      BY <1>1, <1>3, <1>4, <1>5, <1>8, <1>7
    <2> QED
      BY <1>4, <1>5, <1>7, <2>1
  <1>10. Tail(s) = t
    BY <1>5, <1>7, <1>8, <1>9, SeqEqual
  <1> QED
    BY <1>3, <1>10

\* A push keeps the newest samples the newest ones.
LEMMA NewestSteps ==
  ASSUME NEW T, NEW log \in Seq(T), NEW k \in 1..Len(log)
  PROVE  Push(Newest(log, k - 1), log[k]) = Newest(log, k)
  <1>1. Len(log) \in Nat /\ MaxHistory \in Nat /\ MaxHistory >= 1
    BY SeriesAssumption
  <1>2. CASE k <= MaxHistory
    <2>1. Newest(log, k - 1) = SubSeq(log, 1, k - 1) /\ Newest(log, k) = SubSeq(log, 1, k)
      BY <1>1, <1>2 DEF Newest
    <2>2. k - 1 \in 0..Len(log) /\ 1 \in 1..(Len(log) + 1) /\ 1 <= (k - 1) + 1 /\ 1 \in 1..k
      BY <1>1
    <2>3. Len(SubSeq(log, 1, k - 1)) = k - 1
      <3>1. PICK j \in 0..Len(log) : j = k - 1
        BY <2>2
      <3>2. PICK b \in 1..(Len(log) + 1) : b = 1
        BY <2>2
      <3>3. Len(SubSeq(log, b, j)) = j - b + 1
        BY <2>2, <3>1, <3>2, SubSeqFacts
      <3> QED
        BY <1>1, <3>1, <3>2, <3>3
    <2>4. Append(SubSeq(log, 1, k - 1), log[k]) = SubSeq(log, 1, k)
      BY <2>2, AppendSub
    <2>5. ~(Len(SubSeq(log, 1, k - 1)) >= MaxHistory)
      BY <1>1, <1>2, <2>3
    <2> QED
      BY <2>1, <2>4, <2>5 DEF Push
  <1>3. CASE k > MaxHistory
    <2>1. PICK j, a : j = k - 1 /\ a = k - MaxHistory
      OBVIOUS
    <2>2. j \in 1..Len(log) /\ a \in 1..j /\ a + 1 \in 1..k /\ a + 1 = k - MaxHistory + 1
          /\ a = j - MaxHistory + 1 /\ j \in 0..Len(log) /\ a \in 1..(Len(log) + 1) /\ a <= j + 1
      BY <1>1, <1>3, <2>1
    <2>3. Newest(log, j) = SubSeq(log, a, j)
      <3>1. CASE j <= MaxHistory
        <4>1. a = 1
          BY <1>1, <1>3, <2>1, <3>1
        <4> QED
          BY <3>1, <4>1 DEF Newest
      <3>2. CASE ~(j <= MaxHistory)
        BY <2>2, <3>2 DEF Newest
      <3> QED
        BY <3>1, <3>2
    <2>4. Newest(log, k) = SubSeq(log, a + 1, k)
      <3>1. ~(k <= MaxHistory)
        BY <1>1, <1>3
      <3> QED
        BY <2>2, <3>1 DEF Newest
    <2>5. Len(SubSeq(log, a, j)) = MaxHistory
      <3>1. Len(SubSeq(log, a, j)) = j - a + 1
        BY <2>2, SubSeqFacts
      <3> QED
        BY <1>1, <2>1, <3>1
    <2>6. Tail(SubSeq(log, a, j)) = SubSeq(log, a + 1, j)
      BY <2>2, TailSub
    <2>7. Append(SubSeq(log, a + 1, k - 1), log[k]) = SubSeq(log, a + 1, k)
      <3>1. PICK b \in 1..k : b = a + 1
        BY <2>2
      <3>2. Append(SubSeq(log, b, k - 1), log[k]) = SubSeq(log, b, k)
        BY AppendSub
      <3> QED
        BY <3>1, <3>2
    <2>8. Len(SubSeq(log, a, j)) >= MaxHistory
      BY <1>1, <2>5
    <2> QED
      BY <2>1, <2>3, <2>4, <2>6, <2>7, <2>8 DEF Push
  <1> QED
    BY <1>1, <1>2, <1>3

\* So a history is the end of its log.
LEMMA HistoryIs ==
  ASSUME NEW T, NEW log \in Seq(T), Len(log) >= MaxHistory
  PROVE  History(log) = SubSeq(log, Len(log) - MaxHistory + 1, Len(log))
  <1> DEFINE n == Len(log)
             Fix(h) == h = [k \in 0..n |-> IF k = 0 THEN <<>> ELSE Push(h[k - 1], log[k])]
             hist == CHOOSE h : Fix(h)
             g == [k \in 0..n |-> Newest(log, k)]
  <1>1. n \in Nat /\ MaxHistory \in Nat /\ MaxHistory >= 1 /\ n >= MaxHistory
    BY SeriesAssumption
  <1>2. History(log) = hist[n]
    BY DEF History
  <1>3. Newest(log, 0) = <<>>
    <2>1. Newest(log, 0) = SubSeq(log, 1, 0)
      BY <1>1 DEF Newest
    <2> QED
      BY <2>1
  <1>4. \A k \in 1..n : Push(Newest(log, k - 1), log[k]) = Newest(log, k)
    BY NewestSteps
  <1>5. Fix(g)
    <2>1. \A k \in 0..n : k # 0 => k \in 1..n /\ k - 1 \in 0..n
      BY <1>1
    <2>2. \A k \in 0..n : g[k] = IF k = 0 THEN <<>> ELSE Push(g[k - 1], log[k])
      BY <1>3, <1>4, <2>1
    <2> QED
      BY <2>2
  <1>6. Fix(hist)
    <2>1. \E h : Fix(h)
      BY <1>5
    <2> HIDE DEF Fix
    <2> QED
      BY <2>1
  <1>7. /\ g[0] = <<>> /\ hist[0] = <<>>
        /\ \A k \in 1..n : g[k] = Push(g[k - 1], log[k]) /\ hist[k] = Push(hist[k - 1], log[k])
    <2>1. \A h : Fix(h) => h[0] = <<>> /\ \A k \in 1..n : h[k] = Push(h[k - 1], log[k])
      BY <1>1
    <2> HIDE DEF Fix, g, hist
    <2> QED
      BY <1>5, <1>6, <2>1
  <1>8. g[n] = Newest(log, n)
    BY <1>1
  <1> HIDE DEF Fix, hist, g
  <1>9. PICK u, v : u = g /\ v = hist
    OBVIOUS
  <1>10. u[0] = v[0] /\ \A i \in 1..n : u[i - 1] = v[i - 1] => u[i] = v[i]
    BY <1>7, <1>9
  <1>11. \A i \in 0..n : u[i] = v[i]
    BY <1>1, <1>10, Agreement
  <1>12. hist[n] = Newest(log, n)
    BY <1>1, <1>8, <1>9, <1>11
  <1>13. Newest(log, n) = SubSeq(log, n - MaxHistory + 1, n)
    <2>1. CASE n <= MaxHistory
      <3>1. n - MaxHistory + 1 = 1
        BY <1>1, <2>1
      <3> QED
        BY <2>1, <3>1 DEF Newest
    <2>2. CASE ~(n <= MaxHistory)
      BY <2>2 DEF Newest
    <2> QED
      BY <2>1, <2>2
  <1> QED
    BY <1>2, <1>12, <1>13

\* A sum step by step.
AddsUp(g, t) ==
  g[0] = 0 /\ \A k \in 1..Len(Seeds) : g[k] = g[k - 1] + t[k]
Total(t) == CHOOSE v : \E g : AddsUp(g, t) /\ v = g[Len(Seeds)]

\* The terms of a sum over the devices in D.
Terms(D, w) == [k \in 1..Len(Seeds) |-> IF Seeds[k] \in D THEN w[Seeds[k]] ELSE 0]

\* What is assumed of the devices and of the numbers of points.
LEMMA SeedsFacts ==
  /\ Len(Seeds) \in Nat /\ MaxHistory \in Nat /\ MaxHistory >= 1
  /\ Spark \in Nat /\ 1 <= Spark /\ Spark <= MaxHistory
  /\ \A k \in 1..Len(Seeds) : Seeds[k] \in Devices
  /\ Edges \subseteq Devices /\ Down \subseteq Devices
  BY SeriesAssumption DEF Devices, ToSet

\* A sum is computed, device after device.
LEMMA SumExists ==
  ASSUME NEW t, \A k \in 1..Len(Seeds) : t[k] \in Int
  PROVE  \E g : g = [k \in 0..Len(Seeds) |-> IF k = 0 THEN 0 ELSE g[k - 1] + t[k]]
  <1> DEFINE n == Len(Seeds)
             step == [p \in (1..n) \X Int |-> p[2] + t[p[1]]]
  <1>1. n \in Nat /\ 0 \in Int
    BY SeedsFacts
  <1>2. step \in [(1..n) \X Int -> Int]
    OBVIOUS
  <1>3. \A i \in 1..n, v \in Int : step[<<i, v>>] = v + t[i]
    OBVIOUS
  <1> HIDE DEF step
  <1>4. PICK g \in [0..n -> Int] : Computes(g, n, 0, step)
    <2>1. PICK z \in Int : z = 0
      OBVIOUS
    <2>2. \E g \in [0..n -> Int] : Computes(g, n, z, step)
      BY <1>1, <1>2, Recursion
    <2> QED
      BY <2>1, <2>2
  <1>5. g[0] = 0 /\ \A i \in 1..n : g[i] = step[<<i, g[i - 1]>>]
    BY <1>4 DEF Computes
  <1>6. \A k \in 0..n : g[k] = IF k = 0 THEN 0 ELSE g[k - 1] + t[k]
    <2>1. \A k \in 0..n : k # 0 => k \in 1..n /\ k - 1 \in 0..n
      BY <1>1
    <2>2. \A i \in 0..n : g[i] \in Int
      BY <1>4
    <2> QED
      BY <1>3, <1>5, <2>1, <2>2
  <1>7. g = [k \in 0..n |-> g[k]]
    BY <1>4
  <1>8. g = [k \in 0..n |-> IF k = 0 THEN 0 ELSE g[k - 1] + t[k]]
    BY <1>6, <1>7
  <1> QED
    BY <1>8

\* And has one result.
LEMMA OneTotal ==
  ASSUME NEW t, NEW g, NEW h, AddsUp(g, t), AddsUp(h, t)
  PROVE  g[Len(Seeds)] = h[Len(Seeds)]
  <1>1. PICK n \in Nat : n = Len(Seeds)
    BY SeedsFacts
  <1>2. g[0] = h[0] /\ \A i \in 1..n : g[i - 1] = h[i - 1] => g[i] = h[i]
    BY <1>1 DEF AddsUp
  <1>3. \A i \in 0..n : g[i] = h[i]
    BY <1>2, Agreement
  <1> QED
    BY <1>1, <1>3

\* What is computed is the sum.
LEMMA TotalIs ==
  ASSUME NEW t, NEW g, g = [k \in 0..Len(Seeds) |-> IF k = 0 THEN 0 ELSE g[k - 1] + t[k]]
  PROVE  g[Len(Seeds)] = Total(t)
  <1> DEFINE n == Len(Seeds)
  <1>1. n \in Nat
    BY SeedsFacts
  <1>2. AddsUp(g, t)
    <2>1. 0 \in 0..n /\ \A k \in 1..n : k \in 0..n /\ k # 0
      BY <1>1
    <2> QED
      BY <2>1 DEF AddsUp
  <1>3. PICK v : v = Total(t)
    OBVIOUS
  <1>4. \E h : AddsUp(h, t) /\ v = h[n]
    <2>1. \E u : \E h : AddsUp(h, t) /\ u = h[n]
      BY <1>2
    <2> QED
      BY <1>3, <2>1 DEF Total
  <1>5. PICK h : AddsUp(h, t) /\ v = h[n]
    BY <1>4
  <1> QED
    BY <1>2, <1>3, <1>5, OneTotal

\* The sums of the series.
LEMMA SumIs ==
  ASSUME NEW D, NEW w, \A d \in Devices : w[d] \in Int
  PROVE  SumOver(D, w) = Total(Terms(D, w))
  <1> DEFINE n == Len(Seeds)
             t == Terms(D, w)
             Fix(g) == g = [k \in 0..n |-> IF k = 0 THEN 0
                              ELSE g[k - 1] + (IF Seeds[k] \in D THEN w[Seeds[k]] ELSE 0)]
             sum == CHOOSE g : Fix(g)
  <1>1. SumOver(D, w) = sum[n]
    BY DEF SumOver
  <1>2. \A k \in 1..n : t[k] = (IF Seeds[k] \in D THEN w[Seeds[k]] ELSE 0) /\ t[k] \in Int
    BY SeedsFacts DEF Terms
  <1> HIDE DEF t
  <1>3. \A k \in 0..n : k # 0 => k \in 1..n
    BY SeedsFacts
  <1>4. \A g : Fix(g) <=> g = [k \in 0..n |-> IF k = 0 THEN 0 ELSE g[k - 1] + t[k]]
    BY <1>2, <1>3
  <1>5. \E g : g = [k \in 0..n |-> IF k = 0 THEN 0 ELSE g[k - 1] + t[k]]
    BY <1>2, SumExists
  <1>6. Fix(sum)
    <2>1. \E g : Fix(g)
      BY <1>4, <1>5
    <2> HIDE DEF Fix
    <2> QED
      BY <2>1
  <1> HIDE DEF Fix, sum
  <1>7. sum = [k \in 0..n |-> IF k = 0 THEN 0 ELSE sum[k - 1] + t[k]]
    BY <1>4, <1>6
  <1>8. PICK g : g = sum
    OBVIOUS
  <1>9. g[n] = Total(t)
    BY <1>7, <1>8, TotalIs
  <1> QED
    BY <1>1, <1>8, <1>9 DEF t

\* Sums of the same terms are the same; a term that is zero may be left out.
LEMMA SameSum ==
  ASSUME NEW D, NEW E, NEW v, NEW w, E \subseteq D,
         \A d \in Devices : v[d] \in Int /\ w[d] \in Int,
         \A d \in Devices \cap E : v[d] = w[d],
         \A d \in Devices \cap (D \ E) : v[d] = 0
  PROVE  SumOver(D, v) = SumOver(E, w)
  <1>1. \A k \in 1..Len(Seeds) : Seeds[k] \in Devices
    BY SeedsFacts
  <1>2. Terms(D, v) = Terms(E, w)
    BY <1>1 DEF Terms
  <1>3. SumOver(D, v) = Total(Terms(D, v))
    BY SumIs
  <1>4. SumOver(E, w) = Total(Terms(E, w))
    BY SumIs
  <1> QED
    BY <1>2, <1>3, <1>4

\* A sum of integers is one.
LEMMA SumType ==
  ASSUME NEW D, NEW w, \A d \in Devices : w[d] \in Int
  PROVE  SumOver(D, w) \in Int
  <1> DEFINE n == Len(Seeds)
             t == Terms(D, w)
  <1>1. \A k \in 1..n : t[k] \in Int
    BY SeedsFacts DEF Terms
  <1> HIDE DEF t
  <1>2. PICK g : g = [k \in 0..n |-> IF k = 0 THEN 0 ELSE g[k - 1] + t[k]]
    BY <1>1, SumExists
  <1>3. g[n] = Total(t)
    BY <1>2, TotalIs
  <1>4. g[n] \in Int
    <2> DEFINE S == {k \in Nat : k <= n => g[k] \in Int}
    <2>1. n \in Nat
      BY SeedsFacts
    <2>2. g[0] = 0 /\ \A k \in 1..n : g[k] = g[k - 1] + t[k]
      <3>1. 0 \in 0..n /\ \A k \in 1..n : k \in 0..n /\ k # 0
        BY <2>1
      <3> QED
        BY <1>2, <3>1
    <2>3. 0 \in S
      BY <2>2
    <2>4. ASSUME NEW k \in S PROVE k + 1 \in S
      <3>1. CASE k + 1 <= n
        <4>1. k + 1 \in 1..n /\ (k + 1) - 1 = k /\ k <= n
          BY <2>1, <3>1
        <4>2. g[k + 1] = g[k] + t[k + 1]
          BY <2>2, <4>1
        <4> QED
          BY <1>1, <4>1, <4>2
      <3>2. CASE ~(k + 1 <= n)
        BY <3>2
      <3> QED
        BY <3>1, <3>2
    <2>5. Nat \subseteq S
      <3> HIDE DEF S
      <3> QED
        BY <2>3, <2>4, SetInduction DEF S
    <2> QED
      BY <2>1, <2>5
  <1>5. SumOver(D, w) = Total(t)
    BY SumIs DEF t
  <1> QED
    BY <1>3, <1>4, <1>5

\* The histories hs keep the newest of the samples of logs, N of each device.
Kept(logs, hs, N) ==
  /\ N \in Nat /\ N >= MaxHistory
  /\ \A d \in Devices : /\ logs[d] \in Seq(Int) /\ Len(logs[d]) = N
                        /\ hs[d] \in Seq(Int) /\ Len(hs[d]) = MaxHistory
                        /\ \A j \in 1..MaxHistory : hs[d][j] = logs[d][N - MaxHistory + j]
  /\ \A d \in Down : logs[d][N] = 0

\* The histories of all devices keep the newest samples.
LEMMA HistoriesAre ==
  ASSUME NEW logs \in [Devices -> Seq(Int)], NEW N \in Nat, N >= MaxHistory,
         \A d \in Devices : Len(logs[d]) = N,
         \A d \in Down : \A i \in DOMAIN logs[d] : logs[d][i] = 0
  PROVE  LET hs == [d \in Devices |-> History(logs[d])]
         IN /\ Kept(logs, hs, N)
            /\ \A d \in Devices : hs[d] = SubSeq(logs[d], Len(logs[d]) - MaxHistory + 1, Len(logs[d]))
  <1> DEFINE hs == [d \in Devices |-> History(logs[d])]
  <1>1. ASSUME NEW d \in Devices
        PROVE  /\ logs[d] \in Seq(Int) /\ Len(logs[d]) = N
               /\ hs[d] = SubSeq(logs[d], Len(logs[d]) - MaxHistory + 1, Len(logs[d]))
               /\ hs[d] \in Seq(Int) /\ Len(hs[d]) = MaxHistory
               /\ \A j \in 1..MaxHistory : hs[d][j] = logs[d][N - MaxHistory + j]
    <2>1. PICK log \in Seq(Int) : log = logs[d]
      OBVIOUS
    <2>2. Len(log) = N /\ Len(log) >= MaxHistory /\ hs[d] = History(log)
      BY <2>1
    <2>3. History(log) = SubSeq(log, Len(log) - MaxHistory + 1, Len(log))
      BY <2>2, HistoryIs
    <2>4. PICK a \in 1..(Len(log) + 1), k \in 0..Len(log) : a = N - MaxHistory + 1 /\ k = N /\ a <= k + 1
      BY <2>2, SeedsFacts
    <2>5. SubSeq(log, a, k) \in Seq(Int) /\ Len(SubSeq(log, a, k)) = k - a + 1
          /\ \A i \in 1..(k - a + 1) : SubSeq(log, a, k)[i] = log[a + i - 1]
      <3>1. a <= k + 1
        BY <2>4
      <3> QED
        BY <3>1, SubSeqFacts
    <2>6. PICK h : h = hs[d]
      OBVIOUS
    <2>7. h = SubSeq(log, a, k)
      BY <2>2, <2>3, <2>4, <2>6
    <2>8. k - a + 1 = MaxHistory /\ \A j \in Int : a + j - 1 = N - MaxHistory + j
      BY <2>4, SeedsFacts
    <2>9. h \in Seq(Int) /\ Len(h) = MaxHistory /\ \A j \in 1..MaxHistory : h[j] = log[N - MaxHistory + j]
      <3>1. h \in Seq(Int) /\ Len(h) = MaxHistory /\ \A i \in 1..MaxHistory : h[i] = log[a + i - 1]
        BY <2>5, <2>7, <2>8
      <3>2. ASSUME NEW j \in 1..MaxHistory PROVE h[j] = log[N - MaxHistory + j]
        <4>1. a + j - 1 = N - MaxHistory + j
          BY <2>4, SeedsFacts
        <4> QED
          BY <3>1, <4>1
      <3> QED
        BY <3>1, <3>2
    <2> QED
      BY <2>1, <2>2, <2>3, <2>6, <2>9
  <1>2. ASSUME NEW d \in Down PROVE logs[d][N] = 0
    <2>1. d \in Devices /\ N \in 1..N
      BY SeedsFacts
    <2>2. logs[d] \in Seq(Int) /\ Len(logs[d]) = N
      BY <1>1, <2>1
    <2>3. N \in DOMAIN logs[d]
      BY <2>1, <2>2
    <2> QED
      BY <2>3
  <1> HIDE DEF hs
  <1>3. Kept(logs, hs, N)
    BY <1>1, <1>2 DEF Kept
  <1> QED
    BY <1>1, <1>3 DEF hs

\* A sample of a history, in the log.
LEMMA AtIs ==
  ASSUME NEW logs, NEW hs, NEW N, Kept(logs, hs, N), NEW d \in Devices, NEW hi \in 0..(MaxHistory - 1)
  PROVE  At(hs[d], hi) = logs[d][N - MaxHistory + hi + 1] /\ At(hs[d], hi) \in Int
  <1>1. hi + 1 \in 1..MaxHistory /\ hi < MaxHistory
    BY SeedsFacts
  <1>2. /\ N \in Nat /\ hs[d] \in Seq(Int) /\ Len(hs[d]) = MaxHistory
        /\ hs[d][hi + 1] = logs[d][N - MaxHistory + (hi + 1)]
    BY <1>1 DEF Kept
  <1>3. At(hs[d], hi) = hs[d][hi + 1]
    BY <1>1, <1>2 DEF At
  <1>4. hs[d][hi + 1] \in Int
    BY <1>1, <1>2
  <1>5. N - MaxHistory + (hi + 1) = N - MaxHistory + hi + 1
    BY <1>2, SeedsFacts
  <1> QED
    BY <1>2, <1>3, <1>4, <1>5

\* A sample of the log that the history still has.
LEMMA BackFacts ==
  ASSUME NEW logs, NEW hs, NEW N, Kept(logs, hs, N), NEW d \in Devices, NEW far \in 0..(MaxHistory - 1)
  PROVE  logs[d][Len(logs[d]) - far] = logs[d][N - far] /\ logs[d][N - far] \in Int
  <1>1. N \in Nat /\ N >= MaxHistory /\ logs[d] \in Seq(Int) /\ Len(logs[d]) = N
    BY DEF Kept
  <1>2. N - far \in 1..N
    BY <1>1, SeedsFacts
  <1> QED
    BY <1>1, <1>2

\* A point of the series of the WAN.
LEMMA WanPoint ==
  ASSUME NEW logs, NEW hs, NEW N, Kept(logs, hs, N), NEW n \in Int, NEW i \in 1..n
  PROVE  WanSeries(hs, n)[i] = Back(logs, Edges, n - i) /\ WanSeries(hs, n)[i] \in Int
  <1> DEFINE len == IF Edges = {} THEN 0 ELSE Len(hs[CHOOSE d \in Edges : TRUE])
             hi == Index(len, n, i - 1)
             far == IF n - i < MaxHistory THEN n - i ELSE MaxHistory - 1
             v == [d \in Devices |-> At(hs[d], hi)]
             w == [d \in Devices |-> logs[d][Len(logs[d]) - far]]
  <1>1. WanSeries(hs, n)[i] = SumOver(Edges, v)
    BY DEF WanSeries, Sampled
  <1>2. Back(logs, Edges, n - i) = SumOver(Edges, w)
    BY DEF Back
  <1>3. MaxHistory \in Nat /\ MaxHistory >= 1 /\ N \in Nat /\ N >= MaxHistory
    BY SeedsFacts DEF Kept
  <1>4. Edges # {} => len = MaxHistory
    <2>1. Edges # {} => (CHOOSE d \in Edges : TRUE) \in Devices
      BY SeedsFacts
    <2> QED
      BY <2>1 DEF Kept
  <1>5. Edges = {} => len = 0
    OBVIOUS
  <1>6. far \in 0..(MaxHistory - 1)
    BY <1>3
  <1>7. hi \in 0..(MaxHistory - 1) /\ (Edges # {} => N - MaxHistory + hi + 1 = N - far)
    <2> HIDE DEF len
    <2>1. CASE Edges = {}
      <3>1. hi = 0
        BY <1>5, <2>1 DEF Index
      <3> QED
        BY <1>3, <2>1, <3>1
    <2>2. CASE Edges # {}
      <3>1. hi = IF MaxHistory - n + (i - 1) > 0 THEN MaxHistory - n + (i - 1) ELSE 0
        BY <1>4, <2>2 DEF Index
      <3> HIDE DEF hi
      <3> QED
        BY <1>3, <3>1
    <2> QED
      BY <2>1, <2>2
  <1> HIDE DEF len, hi, far
  <1>8. \A d \in Devices : v[d] = logs[d][N - MaxHistory + hi + 1] /\ v[d] \in Int
    BY <1>7, AtIs
  <1>9. \A d \in Devices : w[d] = logs[d][N - far] /\ w[d] \in Int
    BY <1>6, BackFacts
  <1> HIDE DEF v, w
  <1>10. \A d \in Devices \cap Edges : v[d] = w[d]
    BY <1>7, <1>8, <1>9
  <1>11. SumOver(Edges, v) = SumOver(Edges, w)
    BY <1>8, <1>9, <1>10, SameSum
  <1>12. SumOver(Edges, v) \in Int
    BY <1>8, SumType
  <1> QED
    BY <1>1, <1>2, <1>11, <1>12

\* The last point is the current figure, of the edge routers that are not down.
LEMMA WanLast ==
  ASSUME NEW logs, NEW hs, NEW N, Kept(logs, hs, N), NEW n \in Int, n > 0
  PROVE  Last(WanSeries(hs, n)) = WanNow(logs)
  <1> DEFINE w == [d \in Devices |-> logs[d][Len(logs[d]) - 0]]
             c == [d \in Devices |-> Current(logs[d])]
  <1>1. MaxHistory \in Nat /\ MaxHistory >= 1 /\ N \in Nat /\ N >= MaxHistory
    BY SeedsFacts DEF Kept
  <1>2. Last(WanSeries(hs, n)) = WanSeries(hs, n)[n]
    <2>1. Len(WanSeries(hs, n)) = n
      BY DEF WanSeries, Sampled
    <2> QED
      BY <2>1 DEF Last
  <1>3. WanSeries(hs, n)[n] = Back(logs, Edges, n - n)
    <2>1. n \in 1..n
      OBVIOUS
    <2> QED
      BY <2>1, WanPoint
  <1>4. Back(logs, Edges, n - n) = SumOver(Edges, w)
    <2>1. n - n = 0 /\ 0 < MaxHistory
      BY <1>1
    <2> QED
      BY <2>1 DEF Back
  <1>5. WanNow(logs) = SumOver(Active, c)
    BY DEF WanNow
  <1>6. \A d \in Devices : w[d] = logs[d][N] /\ w[d] \in Int
    <2>1. ASSUME NEW d \in Devices PROVE w[d] = logs[d][N] /\ w[d] \in Int
      <3>1. PICK far \in 0..(MaxHistory - 1) : far = 0
        BY <1>1
      <3>2. logs[d][Len(logs[d]) - far] = logs[d][N - far] /\ logs[d][N - far] \in Int
        BY BackFacts
      <3>3. N - far = N
        BY <1>1, <3>1
      <3> QED
        BY <3>1, <3>2, <3>3
    <2> QED
      BY <2>1
  <1>7. \A d \in Devices : c[d] = logs[d][N]
    BY DEF Current, Last, Kept
  <1>8. \A d \in Down : logs[d][N] = 0
    BY DEF Kept
  <1> HIDE DEF w, c
  <1>9. \A d \in Devices : w[d] \in Int /\ c[d] \in Int
    BY <1>6, <1>7
  <1>10. Active \subseteq Edges /\ \A d \in Devices \cap (Edges \ Active) : w[d] = 0
    BY <1>6, <1>8 DEF Active
  <1>11. \A d \in Devices \cap Active : w[d] = c[d]
    BY <1>6, <1>7
  <1>12. SumOver(Edges, w) = SumOver(Active, c)
    BY <1>9, <1>10, <1>11, SameSum
  <1> QED
    BY <1>2, <1>3, <1>4, <1>5, <1>12

\* So is the last point of the sparkline.
LEMMA SparkLast ==
  ASSUME NEW logs, NEW hs, NEW N, Kept(logs, hs, N)
  PROVE  Last(WanSpark(hs)) = WanNow(logs)
  <1> DEFINE len == Len(hs[CHOOSE d \in Devices : TRUE])
             hi == Index(len, Spark, Spark - 1)
             v == [d \in Devices |-> At(hs[d], hi)]
             c == [d \in Devices |-> Current(logs[d])]
  <1>1. /\ MaxHistory \in Nat /\ MaxHistory >= 1 /\ N \in Nat /\ N >= MaxHistory
        /\ Spark \in Nat /\ 1 <= Spark
    BY SeedsFacts DEF Kept
  <1>2. Last(WanSpark(hs)) = SumOver(Active, v)
    <2>1. Len(WanSpark(hs)) = Spark
      BY <1>1 DEF WanSpark, Sampled
    <2>2. Spark \in 1..Spark
      BY <1>1
    <2>3. WanSpark(hs)[Spark] = SumOver(Active, v)
      BY <2>2 DEF WanSpark, Sampled
    <2> QED
      BY <2>1, <2>3 DEF Last
  <1>3. WanNow(logs) = SumOver(Active, c)
    BY DEF WanNow
  <1>4. ASSUME NEW d \in Devices PROVE hi = MaxHistory - 1
    <2>1. (CHOOSE e \in Devices : TRUE) \in Devices
      BY <1>4
    <2>2. len = MaxHistory
      BY <2>1 DEF Kept
    <2> HIDE DEF len
    <2>3. hi = IF MaxHistory - Spark + (Spark - 1) > 0 THEN MaxHistory - Spark + (Spark - 1) ELSE 0
      BY <2>2 DEF Index
    <2> HIDE DEF hi
    <2> QED
      BY <1>1, <2>3
  <1>5. ASSUME NEW d \in Devices
        PROVE  At(hs[d], hi) = logs[d][N] /\ logs[d][N] \in Int
    <2>1. hi = MaxHistory - 1
      BY <1>4
    <2> HIDE DEF hi
    <2>2. hi \in 0..(MaxHistory - 1) /\ N - MaxHistory + hi + 1 = N
      BY <1>1, <2>1
    <2>3. At(hs[d], hi) = logs[d][N - MaxHistory + hi + 1] /\ At(hs[d], hi) \in Int
      BY <2>2, AtIs
    <2> QED
      BY <2>2, <2>3
  <1> HIDE DEF len, hi
  <1>6. \A d \in Devices : v[d] = logs[d][N] /\ v[d] \in Int
    BY <1>5
  <1>7. \A d \in Devices : c[d] = logs[d][N]
    BY DEF Current, Last, Kept
  <1> HIDE DEF v, c
  <1>8. SumOver(Active, v) = SumOver(Active, c)
    <2>1. \A d \in Devices : v[d] \in Int /\ c[d] \in Int
      BY <1>6, <1>7
    <2>2. \A d \in Devices \cap Active : v[d] = c[d]
      BY <1>6, <1>7
    <2> QED
      BY <2>1, <2>2, SameSum
  <1> QED
    BY <1>2, <1>3, <1>8

\* The series has the sums of the histories.
LEMMA WanSlice ==
  ASSUME NEW logs, NEW hs, NEW N, Kept(logs, hs, N), NEW n \in 1..MaxHistory, NEW i \in 1..n
  PROVE  WanSeries(hs, n)[i] = SumOver(Edges, [d \in Devices |-> Slice(hs[d], n)[i]])
  <1> DEFINE v == [d \in Devices |-> Slice(hs[d], n)[i]]
             w == [d \in Devices |-> logs[d][Len(logs[d]) - (n - i)]]
  <1>1. MaxHistory \in Nat /\ MaxHistory >= 1 /\ N \in Nat /\ N >= MaxHistory /\ n \in Int
    BY SeedsFacts DEF Kept
  <1>2. n - i \in 0..(MaxHistory - 1)
    BY <1>1
  <1>3. WanSeries(hs, n)[i] = SumOver(Edges, w)
    <2>1. Back(logs, Edges, n - i) = SumOver(Edges, w)
      <3>1. n - i < MaxHistory
        BY <1>1
      <3> QED
        BY <3>1 DEF Back
    <2> QED
      BY <1>1, <2>1, WanPoint
  <1>4. ASSUME NEW d \in Devices PROVE w[d] = logs[d][N - (n - i)] /\ w[d] \in Int
    <2>1. PICK far \in 0..(MaxHistory - 1) : far = n - i
      BY <1>2
    <2>2. logs[d][Len(logs[d]) - far] = logs[d][N - far] /\ logs[d][N - far] \in Int
      BY BackFacts
    <2> QED
      BY <2>1, <2>2
  <1>5. ASSUME NEW d \in Devices PROVE v[d] = logs[d][N - (n - i)]
    <2>1. PICK h \in Seq(Int) : h = hs[d]
      BY DEF Kept
    <2>2. Len(h) = MaxHistory /\ \A j \in 1..MaxHistory : h[j] = logs[d][N - MaxHistory + j]
      BY <2>1 DEF Kept
    <2>3. PICK a \in 1..(Len(h) + 1), k \in 0..Len(h) : a = MaxHistory - n + 1 /\ k = MaxHistory /\ a <= k + 1
      BY <1>1, <2>2
    <2>4. Slice(h, n) = SubSeq(h, a, k)
      <3>1. n > 0 /\ (n < Len(h) => Len(h) - n + 1 = a) /\ (~(n < Len(h)) => a = 1) /\ Len(h) = k
        BY <1>1, <2>2, <2>3
      <3> QED
        BY <3>1 DEF Slice
    <2>5. \A l \in 1..(k - a + 1) : SubSeq(h, a, k)[l] = h[a + l - 1]
      <3>1. a <= k + 1
        BY <2>3
      <3> QED
        BY <3>1, SubSeqFacts
    <2>6. i \in 1..(k - a + 1) /\ a + i - 1 \in 1..MaxHistory
          /\ N - MaxHistory + (a + i - 1) = N - (n - i)
      BY <1>1, <2>3
    <2>7. Slice(h, n)[i] = logs[d][N - MaxHistory + (a + i - 1)]
      BY <2>2, <2>4, <2>5, <2>6
    <2> QED
      BY <2>1, <2>6, <2>7
  <1> HIDE DEF v, w
  <1>6. SumOver(Edges, w) = SumOver(Edges, v)
    <2>1. \A d \in Devices : w[d] \in Int /\ v[d] \in Int
      BY <1>4, <1>5
    <2>2. \A d \in Devices \cap Edges : w[d] = v[d]
      BY <1>4, <1>5
    <2> QED
      BY <2>1, <2>2, SameSum
  <1> QED
    BY <1>3, <1>6 DEF v

-----------------------------------------------------------------------------
(* The numbers of a series in order, and the percentile.                   *)

\* The largest of some numbers.
LEMMA MaxExists ==
  ASSUME NEW n \in Nat
  PROVE  \A s \in [1..(n + 1) -> Int] : \E m \in 1..(n + 1) : \A i \in 1..(n + 1) : s[i] <= s[m]
  <1> DEFINE Has(k) == \A s \in [1..(k + 1) -> Int] : \E m \in 1..(k + 1) : \A i \in 1..(k + 1) : s[i] <= s[m]
             S == {k \in Nat : Has(k)}
  <1>1. 0 \in S
    <2>1. ASSUME NEW s \in [1..(0 + 1) -> Int]
          PROVE  \E m \in 1..(0 + 1) : \A i \in 1..(0 + 1) : s[i] <= s[m]
      <3>1. 1 \in 1..(0 + 1) /\ \A i \in 1..(0 + 1) : i = 1
        OBVIOUS
      <3>2. s[1] \in Int
        BY <3>1
      <3> QED
        BY <3>1, <3>2
    <2> QED
      BY <2>1
  <1>2. ASSUME NEW k \in S PROVE k + 1 \in S
    <2>1. ASSUME NEW s \in [1..((k + 1) + 1) -> Int]
          PROVE  \E m \in 1..((k + 1) + 1) : \A i \in 1..((k + 1) + 1) : s[i] <= s[m]
      <3> DEFINE r == [i \in 1..(k + 1) |-> s[i]]
      <3>1. r \in [1..(k + 1) -> Int]
        OBVIOUS
      <3>2. PICK m \in 1..(k + 1) : \A i \in 1..(k + 1) : r[i] <= r[m]
        BY <3>1
      <3>3. \A i \in 1..(k + 1) : s[i] <= s[m]
        BY <3>2
      <3>4. \A i \in 1..((k + 1) + 1) : s[i] \in Int /\ (i \in 1..(k + 1) \/ i = (k + 1) + 1)
        OBVIOUS
      <3>5. PICK z : z = (k + 1) + 1
        OBVIOUS
      <3>6. z \in 1..((k + 1) + 1) /\ m \in 1..((k + 1) + 1)
        BY <3>5
      <3>7. s[m] \in Int /\ s[z] \in Int
        BY <3>4, <3>6
      <3>8. CASE s[z] <= s[m]
        <4>1. \A i \in 1..((k + 1) + 1) : s[i] <= s[m]
          BY <3>3, <3>4, <3>5, <3>8
        <4> QED
          BY <3>6, <4>1
      <3>9. CASE s[m] <= s[z]
        <4>1. \A i \in 1..((k + 1) + 1) : s[i] <= s[z]
          BY <3>3, <3>4, <3>5, <3>7, <3>9
        <4> QED
          BY <3>6, <4>1
      <3>10. s[z] <= s[m] \/ s[m] <= s[z]
        BY <3>7
      <3> QED
        BY <3>8, <3>9, <3>10
    <2>2. Has(k + 1)
      BY <2>1
    <2>3. k + 1 \in Nat
      OBVIOUS
    <2> HIDE DEF Has
    <2> QED
      BY <2>2, <2>3
  <1>3. Nat \subseteq S
    <2> HIDE DEF S
    <2> QED
      BY <1>1, <1>2, SetInduction DEF S
  <1> QED
    BY <1>3

\* The order o of 1..n puts s in order.
Orders(o, s, n) ==
  /\ o \in [1..n -> 1..n]
  /\ \A i, j \in 1..n : o[i] = o[j] => i = j
  /\ \A i, j \in 1..n : i < j => s[o[i]] <= s[o[j]]

\* A largest number more: it comes last, and what was last takes its place.
LEMMA OneMore ==
  ASSUME NEW n \in Nat, NEW s \in [1..(n + 1) -> Int], NEW m \in 1..(n + 1),
         \A i \in 1..(n + 1) : s[i] <= s[m],
         NEW r \in [1..n -> Int], \A i \in 1..n : r[i] = IF i = m THEN s[n + 1] ELSE s[i],
         NEW o, Orders(o, r, n)
  PROVE  \E p : Orders(p, s, n + 1)
  <1> DEFINE p == [i \in 1..(n + 1) |-> IF i = n + 1 THEN m ELSE IF o[i] = m THEN n + 1 ELSE o[i]]
  <1>1. o \in [1..n -> 1..n]
    BY DEF Orders
  <1>2. \A i, j \in 1..n : o[i] = o[j] => i = j
    BY DEF Orders
  <1>3. \A i, j \in 1..n : i < j => r[o[i]] <= r[o[j]]
    BY DEF Orders
  <1>4. \A i \in 1..(n + 1) : i # n + 1 => i \in 1..n
    OBVIOUS
  <1>5. \A i \in 1..n : i \in 1..(n + 1) /\ i # n + 1 /\ o[i] \in 1..n /\ o[i] \in 1..(n + 1) /\ o[i] # n + 1
    BY <1>1
  <1>6. \A i \in 1..n : p[i] = IF o[i] = m THEN n + 1 ELSE o[i]
    BY <1>5
  <1>7. n + 1 \in 1..(n + 1) /\ p[n + 1] = m
    OBVIOUS
  <1>8. p \in [1..(n + 1) -> 1..(n + 1)]
    BY <1>4, <1>5, <1>7
  <1> HIDE DEF p
  <1>9. \A i \in 1..n : s[p[i]] = r[o[i]]
    BY <1>5, <1>6
  <1>10. \A i \in 1..n : p[i] # m
    BY <1>5, <1>6
  <1>11. \A i, j \in 1..n : p[i] = p[j] => i = j
    BY <1>2, <1>5, <1>6
  <1>12. \A i, j \in 1..(n + 1) : p[i] = p[j] => i = j
    BY <1>4, <1>7, <1>10, <1>11
  <1>13. ASSUME NEW i \in 1..(n + 1), NEW j \in 1..(n + 1), i < j PROVE s[p[i]] <= s[p[j]]
    <2>1. i \in 1..n
      BY <1>13
    <2>2. CASE j = n + 1
      <3>1. p[j] = m /\ p[i] \in 1..(n + 1)
        BY <1>7, <1>8, <2>2
      <3> QED
        BY <3>1
    <2>3. CASE j # n + 1
      BY <1>3, <1>4, <1>9, <1>13, <2>1, <2>3
    <2> QED
      BY <2>2, <2>3
  <1> QED
    BY <1>8, <1>12, <1>13 DEF Orders

\* Any numbers can be put in order.
LEMMA OrderExists ==
  ASSUME NEW n \in Nat
  PROVE  \A s \in [1..n -> Int] : \E p : Orders(p, s, n)
  <1> DEFINE Has(k) == \A s \in [1..k -> Int] : \E p : Orders(p, s, k)
             S == {k \in Nat : Has(k)}
  <1>1. 0 \in S
    <2>1. ASSUME NEW s \in [1..0 -> Int] PROVE \E p : Orders(p, s, 0)
      <3>1. 1..0 = {}
        OBVIOUS
      <3>2. Orders([i \in 1..0 |-> i], s, 0)
        BY <3>1 DEF Orders
      <3> QED
        BY <3>2
    <2> QED
      BY <2>1
  <1>2. ASSUME NEW k \in S PROVE k + 1 \in S
    <2>1. ASSUME NEW s \in [1..(k + 1) -> Int] PROVE \E p : Orders(p, s, k + 1)
      <3>1. PICK m \in 1..(k + 1) : \A i \in 1..(k + 1) : s[i] <= s[m]
        BY MaxExists
      <3> DEFINE f == [i \in 1..k |-> IF i = m THEN s[k + 1] ELSE s[i]]
      <3>2. f \in [1..k -> Int] /\ \A i \in 1..k : f[i] = IF i = m THEN s[k + 1] ELSE s[i]
        <4>1. k + 1 \in 1..(k + 1) /\ \A i \in 1..k : i \in 1..(k + 1)
          OBVIOUS
        <4>2. s[k + 1] \in Int /\ \A i \in 1..k : s[i] \in Int
          BY <4>1
        <4> QED
          BY <4>2
      <3> HIDE DEF f
      <3>3. PICK r \in [1..k -> Int] : \A i \in 1..k : r[i] = IF i = m THEN s[k + 1] ELSE s[i]
        BY <3>2
      <3>4. PICK o : Orders(o, r, k)
        OBVIOUS
      <3>5. k \in Nat
        OBVIOUS
      <3> HIDE DEF S
      <3> QED
        BY <3>1, <3>3, <3>4, <3>5, OneMore
    <2> QED
      BY <2>1
  <1>3. Nat \subseteq S
    <2> HIDE DEF S
    <2> QED
      BY <1>1, <1>2, SetInduction DEF S
  <1> QED
    BY <1>3

\* A sorted series has the numbers of the series, in order.
LEMMA SortedIs ==
  ASSUME NEW n \in Nat, NEW s \in [1..n -> Int]
  PROVE  \E p : Orders(p, s, n) /\ \A i \in 1..n : Sorted(s)[i] = s[p[i]]
  <1> DEFINE Rearranged == {[i \in DOMAIN s |-> s[p[i]]] : p \in Injection(DOMAIN s, DOMAIN s)}
             InOrder(t) == \A i, j \in DOMAIN s : i < j => t[i] <= t[j]
  <1>1. DOMAIN s = 1..n
    OBVIOUS
  <1>2. PICK o : Orders(o, s, n)
    BY OrderExists
  <1>3. o \in Injection(DOMAIN s, DOMAIN s)
    <2>1. o \in [DOMAIN s -> DOMAIN s]
      BY <1>1, <1>2 DEF Orders
    <2>2. DOMAIN o = 1..n
      BY <1>2 DEF Orders
    <2>3. IsInjective(o)
      BY <1>2, <2>2 DEF Orders, IsInjective
    <2> QED
      BY <2>1, <2>3 DEF Injection
  <1>4. \E t \in Rearranged : InOrder(t)
    <2>1. [i \in DOMAIN s |-> s[o[i]]] \in Rearranged
      BY <1>3
    <2>2. InOrder([i \in DOMAIN s |-> s[o[i]]])
      BY <1>1, <1>2 DEF Orders
    <2> QED
      BY <2>1, <2>2
  <1>5. Sorted(s) \in Rearranged /\ InOrder(Sorted(s))
    <2>1. Sorted(s) = CHOOSE t \in Rearranged : InOrder(t)
      BY DEF Sorted
    <2> HIDE DEF Rearranged, InOrder
    <2> QED
      BY <1>4, <2>1
  <1>6. PICK p \in Injection(DOMAIN s, DOMAIN s) : Sorted(s) = [i \in DOMAIN s |-> s[p[i]]]
    BY <1>5
  <1>7. p \in [1..n -> 1..n] /\ \A i, j \in 1..n : p[i] = p[j] => i = j
    BY <1>1, <1>6 DEF Injection, IsInjective
  <1>8. \A i \in 1..n : Sorted(s)[i] = s[p[i]]
    BY <1>1, <1>6
  <1>9. \A i, j \in 1..n : i < j => s[p[i]] <= s[p[j]]
    BY <1>1, <1>5, <1>8
  <1> QED
    BY <1>7, <1>8, <1>9 DEF Orders

\* As many numbers of a series as come before a point of it sorted, that one
\* with them, are not above it.
LEMMA NotAbove ==
  ASSUME NEW n \in Nat, NEW s \in [1..n -> Int], NEW p, Orders(p, s, n), NEW k \in 1..n
  PROVE  /\ Cardinality({i \in 1..n : s[i] <= s[p[k]]}) >= k
         /\ Cardinality({i \in 1..n : s[i] <= s[p[k]]}) \in Nat
  <1> DEFINE Low == {i \in 1..n : s[i] <= s[p[k]]}
             f == [j \in 1..k |-> p[j]]
  <1>1. p \in [1..n -> 1..n] /\ (\A i, j \in 1..n : p[i] = p[j] => i = j)
        /\ \A i, j \in 1..n : i < j => s[p[i]] <= s[p[j]]
    BY DEF Orders
  <1>2. \A j \in 1..k : j \in 1..n /\ (j < k \/ j = k)
    OBVIOUS
  <1>3. \A j \in 1..k : p[j] \in 1..n /\ s[p[j]] <= s[p[k]]
    <2>1. s[p[k]] \in Int
      BY <1>1
    <2>2. ASSUME NEW j \in 1..k PROVE p[j] \in 1..n /\ s[p[j]] <= s[p[k]]
      <3>1. j \in 1..n /\ k \in 1..n /\ (j < k \/ j = k)
        BY <1>2
      <3>2. p[j] \in 1..n
        BY <1>1, <3>1
      <3>3. j < k => s[p[j]] <= s[p[k]]
        BY <1>1, <3>1
      <3>4. j = k => s[p[j]] <= s[p[k]]
        BY <2>1
      <3> QED
        BY <3>1, <3>2, <3>3, <3>4
    <2> QED
      BY <2>2
  <1>4. f \in [1..k -> Low]
    BY <1>3
  <1>5. f \in Injection(1..k, Low)
    <2>1. IsInjective(f)
      <3>1. DOMAIN f = 1..k /\ \A j \in 1..k : f[j] = p[j]
        OBVIOUS
      <3>2. \A i, j \in 1..k : p[i] = p[j] => i = j
        BY <1>1, <1>2
      <3> HIDE DEF f
      <3>3. \A i, j \in DOMAIN f : f[i] = f[j] => i = j
        BY <3>1, <3>2
      <3> QED
        BY <3>3 DEF IsInjective
    <2> QED
      BY <1>4, <2>1 DEF Injection
  <1>6. IsFiniteSet(1..n)
    <2>1. 1 \in Int /\ n \in Int
      OBVIOUS
    <2> QED
      BY <2>1, FS_Interval
  <1>7. Low \in SUBSET (1..n)
    OBVIOUS
  <1> HIDE DEF Low, f
  <1>8. IsFiniteSet(Low)
    BY <1>6, <1>7, FS_Subset
  <1>9. Cardinality(1..k) <= Cardinality(Low)
    BY <1>5, <1>8, FS_Injection
  <1>10. Cardinality(1..k) = k
    <2>1. 1 \in Int /\ k \in Int /\ k >= 1
      OBVIOUS
    <2>2. Cardinality(1..k) = IF 1 > k THEN 0 ELSE k - 1 + 1
      BY <2>1, FS_Interval
    <2> QED
      BY <2>1, <2>2
  <1>11. Cardinality(Low) \in Nat
    BY <1>8, FS_CardinalityType
  <1> QED
    BY <1>9, <1>10, <1>11 DEF Low

\* The 95th percentile.
LEMMA PercentileIs ==
  ASSUME NEW n \in Nat, n > 0, NEW s \in [1..n -> Int]
  PROVE  /\ 100 * Cardinality({i \in 1..n : s[i] <= P95(s)}) >= 95 * n
         /\ P95(s) <= Peak(s)
  <1>1. PICK p : Orders(p, s, n) /\ \A i \in 1..n : Sorted(s)[i] = s[p[i]]
    BY SortedIs
  <1>2. s # <<>> /\ Len(s) = n
    OBVIOUS
  <1>3. PICK k : k = (95 * n) \div 100 + 1
    OBVIOUS
  <1>4. k \in 1..n /\ 100 * k >= 95 * n
    BY <1>3
  <1>5. P95(s) = s[p[k]]
    BY <1>1, <1>2, <1>3, <1>4 DEF P95
  <1>6. PICK c : c = Cardinality({i \in 1..n : s[i] <= P95(s)})
    OBVIOUS
  <1>7. c \in Nat /\ c >= k
    <2>1. /\ Cardinality({i \in 1..n : s[i] <= s[p[k]]}) >= k
          /\ Cardinality({i \in 1..n : s[i] <= s[p[k]]}) \in Nat
      BY <1>1, <1>4, NotAbove, ZenonT(40)
    <2> QED
      BY <1>5, <1>6, <2>1
  <1>8. 100 * c >= 95 * n
    BY <1>4, <1>7
  <1>9. P95(s) <= Peak(s)
    <2>1. PICK l \in Nat : n = l + 1
      <3>1. n - 1 \in Nat /\ n = (n - 1) + 1
        OBVIOUS
      <3> QED
        BY <3>1
    <2>2. PICK m \in 1..n : \A i \in 1..n : s[i] <= s[m]
      BY <2>1, MaxExists
    <2>3. ToSet(s) = {s[i] : i \in 1..n}
      BY DEF ToSet
    <2>4. s[m] \in ToSet(s) /\ \A y \in ToSet(s) : s[m] >= y
      BY <2>2, <2>3
    <2>5. Peak(s) \in ToSet(s) /\ \A y \in ToSet(s) : Peak(s) >= y
      BY <2>4 DEF Peak, Max
    <2>6. p[k] \in 1..n
      BY <1>1, <1>4 DEF Orders
    <2>7. P95(s) \in ToSet(s)
      BY <1>5, <2>3, <2>6
    <2>8. \A y \in ToSet(s) : y \in Int
      BY <2>3
    <2> QED
      BY <2>5, <2>7, <2>8
  <1> QED
    BY <1>6, <1>8, <1>9

\* The views of the samples agree.
LEMMA SeriesTell ==
  ASSUME NEW logs \in Logs, NEW n \in Points
  PROVE  LET hs  == [d \in Devices |-> History(logs[d])]
             wan == WanSeries(hs, n)
             p95 == P95(wan)
         IN /\ \A d \in Devices : hs[d] = SubSeq(logs[d], Len(logs[d]) - MaxHistory + 1, Len(logs[d]))
            /\ \A i \in DOMAIN wan : wan[i] = Back(logs, Edges, n - i)
            /\ n > 0 => /\ Last(wan) = WanNow(logs)
                        /\ Last(WanSpark(hs)) = Last(wan)
                        /\ 100 * Cardinality({i \in 1..n : wan[i] <= p95}) >= 95 * n
                        /\ p95 <= Peak(wan)
            /\ n \in 1..MaxHistory =>
                 \A i \in 1..n : wan[i] = SumOver(Edges, [d \in Devices |-> Slice(hs[d], n)[i]])
  <1>1. /\ logs \in [Devices -> Seq(Int)] /\ \A d \in Devices : Len(logs[d]) >= MaxHistory
        /\ \A d, e \in Devices : Len(logs[d]) = Len(logs[e])
        /\ \A d \in Down : \A i \in DOMAIN logs[d] : logs[d][i] = 0
        /\ n \in Int
    BY FiguresAssumption
  <1>2. PICK N \in Nat : N >= MaxHistory /\ \A d \in Devices : Len(logs[d]) = N
    <2>1. CASE Devices = {}
      BY <2>1, SeedsFacts
    <2>2. CASE Devices # {}
      <3>1. PICK d : d \in Devices
        BY <2>2
      <3>2. logs[d] \in Seq(Int)
        BY <1>1, <3>1
      <3>3. Len(logs[d]) \in Nat
        BY <3>2
      <3> QED
        BY <1>1, <3>1, <3>3
    <2> QED
      BY <2>1, <2>2
  <1>3. PICK hs : hs = [d \in Devices |-> History(logs[d])]
    OBVIOUS
  <1>4. Kept(logs, hs, N)
        /\ \A d \in Devices : hs[d] = SubSeq(logs[d], Len(logs[d]) - MaxHistory + 1, Len(logs[d]))
    BY <1>1, <1>2, <1>3, HistoriesAre
  <1>5. PICK wan : wan = WanSeries(hs, n)
    OBVIOUS
  <1>6. \A i \in 1..n : wan[i] = Back(logs, Edges, n - i) /\ wan[i] \in Int
    BY <1>1, <1>4, <1>5, WanPoint
  <1>7. DOMAIN wan = 1..n /\ wan = [i \in 1..n |-> wan[i]]
    BY <1>5 DEF WanSeries, Sampled
  <1>8. wan \in [1..n -> Int]
    BY <1>6, <1>7
  <1>9. ASSUME n > 0
        PROVE  /\ Last(wan) = WanNow(logs) /\ Last(WanSpark(hs)) = Last(wan)
               /\ 100 * Cardinality({i \in 1..n : wan[i] <= P95(wan)}) >= 95 * n
               /\ P95(wan) <= Peak(wan)
    <2>1. Last(wan) = WanNow(logs)
      BY <1>1, <1>4, <1>5, <1>9, WanLast
    <2>2. Last(WanSpark(hs)) = WanNow(logs)
      BY <1>4, SparkLast
    <2>3. n \in Nat
      BY <1>1, <1>9
    <2>4. /\ 100 * Cardinality({i \in 1..n : wan[i] <= P95(wan)}) >= 95 * n
          /\ P95(wan) <= Peak(wan)
      BY <1>8, <1>9, <2>3, PercentileIs
    <2> QED
      BY <2>1, <2>2, <2>4
  <1>10. ASSUME n \in 1..MaxHistory, NEW i \in 1..n
         PROVE  wan[i] = SumOver(Edges, [d \in Devices |-> Slice(hs[d], n)[i]])
    BY <1>4, <1>5, <1>10, WanSlice
  <1> QED
    BY <1>3, <1>4, <1>5, <1>6, <1>7, <1>9, <1>10

-----------------------------------------------------------------------------
(* What was asked.                                                         *)

\* The answer is that of the question, and the question one that can be asked.
Answers ==
  /\ Is("config") => asked.d \in Boxes /\ <<asked.ifs, asked.now>> \in Snapshots
  /\ Is("change") => /\ asked.d \in Boxes /\ <<asked.ifs, asked.now>> \in Snapshots
                     /\ <<asked.after, asked.later>> \in Snapshots
  /\ Is("series") => asked.logs \in Logs /\ asked.n \in Points
  /\ Is("cpu") => \E s1, s2, s3 \in Stats :
       /\ asked.stats = <<s1, s2, s3>>
       /\ asked.service.cachedCpu = CpuBetween(ReadCpuSample(s2), ReadCpuSample(s3))
  /\ Is("views") => asked.rows \in SUBSET Rows
  /\ Is("status") =>
       /\ asked.params \in Params /\ asked.db \in Databases
       /\ asked.status \in StatusOf(asked.params, asked.db, asked.failed)
       /\ LET sum == Summary(asked.status)
          IN \E pct \in Pct(sum.met, sum.total) : asked.card = Card(sum.met, sum.total, pct)
  /\ Is("card") =>
       /\ asked.met \in Nat /\ asked.total \in Nat /\ asked.met <= asked.total
       /\ \E pct \in Pct(asked.met, asked.total) : asked.card = Card(asked.met, asked.total, pct)

\* A snapshot is a list of interfaces and a time.
LEMMA SnapshotParts ==
  ASSUME NEW s \in Snapshots
  PROVE  s[1] \in Seq(Interface) /\ s[2] \in Moment /\ <<s[1], s[2]>> = s
  <1>1. s \in Seq(Interface) \X Moment
    BY FiguresAssumption
  <1> QED
    BY <1>1

\* What a snapshot in an answer is made of.
LEMMA SnapshotOf ==
  ASSUME NEW ifs, NEW now, <<ifs, now>> \in Snapshots
  PROVE  ifs \in Seq(Interface) /\ now \in Moment
  BY FiguresAssumption

LEMMA InitAnswers ==
  ASSUME Init
  PROVE  Answers
  BY DEF Init, Nothing, Answers, Is

LEMMA StepAnswers ==
  ASSUME Answers, [Next]_asked
  PROVE  Answers'
  <1>1. CASE UNCHANGED asked
    BY <1>1 DEF Answers, Is
  <1>2. CASE Forget
    BY <1>2 DEF Forget, Nothing, Answers, Is
  <1>3. ASSUME NEW d \in Boxes, NEW s \in Snapshots, AskConfig(d, s[1], s[2])
        PROVE  Answers'
    <2>1. asked'.kind = "config" /\ asked'.d = d /\ asked'.ifs = s[1] /\ asked'.now = s[2]
      BY <1>3 DEF AskConfig
    <2>2. <<s[1], s[2]>> = s
      BY SnapshotParts
    <2> QED
      BY <2>1, <2>2 DEF Answers, Is
  <1>8. ASSUME NEW d \in Boxes, NEW r \in Revisions, AskChange(d, r[1][1], r[1][2], r[2][1], r[2][2])
        PROVE  Answers'
    <2>1. /\ asked'.kind = "change" /\ asked'.d = d
          /\ asked'.ifs = r[1][1] /\ asked'.now = r[1][2]
          /\ asked'.after = r[2][1] /\ asked'.later = r[2][2]
      BY <1>8 DEF AskChange
    <2>2. PICK s \in Snapshots, t \in Snapshots : s = r[1] /\ t = r[2]
      BY FiguresAssumption
    <2>3. <<s[1], s[2]>> = s /\ <<t[1], t[2]>> = t
      BY SnapshotParts
    <2> QED
      BY <2>1, <2>2, <2>3 DEF Answers, Is
  <1>9. ASSUME NEW logs \in Logs, NEW n \in Points, AskSeries(logs, n)
        PROVE  Answers'
    <2>1. asked'.kind = "series" /\ asked'.logs = logs /\ asked'.n = n
      BY <1>9 DEF AskSeries
    <2> QED
      BY <2>1 DEF Answers, Is
  <1>4. ASSUME NEW ps \in Params, NEW db \in Databases, NEW failed, AskStatus(ps, db, failed)
        PROVE  Answers'
    <2>0. PICK s \in StatusOf(ps, db, failed) : \E pct \in Pct(Summary(s).met, Summary(s).total) :
            asked' = [kind |-> "status", params |-> ps, db |-> db, failed |-> failed,
                      status |-> s, card |-> Card(Summary(s).met, Summary(s).total, pct)]
      BY <1>4 DEF AskStatus
    <2>1. PICK pct \in Pct(Summary(s).met, Summary(s).total) :
            asked' = [kind |-> "status", params |-> ps, db |-> db, failed |-> failed,
                      status |-> s, card |-> Card(Summary(s).met, Summary(s).total, pct)]
      BY <2>0
    <2>2. /\ asked'.kind = "status" /\ asked'.params = ps /\ asked'.db = db
          /\ asked'.failed = failed /\ asked'.status = s
          /\ asked'.card = Card(Summary(s).met, Summary(s).total, pct)
      BY <2>1
    <2> QED
      BY <2>2 DEF Answers, Is
  <1>5. ASSUME NEW t \in Tallies, AskCard(t[1], t[2])
        PROVE  Answers'
    <2>1. t[1] \in Nat /\ t[2] \in Nat /\ t[1] <= t[2]
      BY FiguresAssumption
    <2>2. PICK pct \in Pct(t[1], t[2]) :
            asked' = [kind |-> "card", met |-> t[1], total |-> t[2], card |-> Card(t[1], t[2], pct)]
      BY <1>5 DEF AskCard
    <2>3. /\ asked'.kind = "card" /\ asked'.met = t[1] /\ asked'.total = t[2]
          /\ asked'.card = Card(t[1], t[2], pct)
      BY <2>2
    <2> QED
      BY <2>1, <2>3 DEF Answers, Is
  <1>6. ASSUME NEW s1 \in Stats, NEW s2 \in Stats, NEW s3 \in Stats, AskCpu(s1, s2, s3)
        PROVE  Answers'
    <2>1. /\ asked'.kind = "cpu" /\ asked'.stats = <<s1, s2, s3>>
          /\ asked'.service = Refreshed(Refreshed(Started(s1), s2), s3)
      BY <1>6 DEF AskCpu
    <2>2. Refreshed(Refreshed(Started(s1), s2), s3).cachedCpu
            = CpuBetween(ReadCpuSample(s2), ReadCpuSample(s3))
      BY DEF Refreshed
    <2> QED
      BY <2>1, <2>2 DEF Answers, Is
  <1>7. ASSUME NEW rows \in SUBSET Rows, NEW q, AskViews(rows, q)
        PROVE  Answers'
    <2>1. asked'.kind = "views" /\ asked'.rows = rows
      BY <1>7 DEF AskViews
    <2> QED
      BY <2>1 DEF Answers, Is
  <1> QED
    BY <1>1, <1>2, <1>3, <1>4, <1>5, <1>6, <1>7, <1>8, <1>9 DEF Next, Ask

\* The load shown is a share of the last interval, whatever the counters count.
THEOREM CpuCorrect == Spec => []CpuShare
  <1>1. Init => Answers
    BY InitAnswers
  <1>2. Answers /\ [Next]_asked => Answers'
    BY StepAnswers
  <1>3. Answers => CpuShare
    <2> SUFFICES ASSUME Answers, Is("cpu") PROVE CpuShare
      BY DEF CpuShare
    <2>1. PICK s1 \in Stats, s2 \in Stats, s3 \in Stats :
            /\ asked.stats = <<s1, s2, s3>>
            /\ asked.service.cachedCpu = CpuBetween(ReadCpuSample(s2), ReadCpuSample(s3))
      BY DEF Answers
    <2>2. s2 \in Stat /\ s3 \in Stat
      BY FiguresAssumption DEF Stat
    <2>3. asked.stats[2] = s2 /\ asked.stats[3] = s3
      BY <2>1
    <2> QED
      BY <2>1, <2>2, <2>3, CpuFacts DEF CpuShare
  <1> QED
    BY <1>1, <1>2, <1>3, PTL DEF Spec

\* FiltersAgree: the figures above the list of interfaces are those of the lists of
\* a status, but for the warnings, which count the rows of no list besides.
THEOREM ViewsCorrect == Spec => []FiltersAgree
  <1>1. Init => Answers
    BY InitAnswers
  <1>2. Answers /\ [Next]_asked => Answers'
    BY StepAnswers
  <1>3. Answers => FiltersAgree
    <2> SUFFICES ASSUME Answers, Is("views") PROVE FiltersAgree
      BY DEF FiltersAgree
    <2>1. asked.rows \in SUBSET Rows
      BY DEF Answers
    <2> QED
      BY <2>1, ViewFacts DEF FiltersAgree
  <1> QED
    BY <1>1, <1>2, <1>3, PTL DEF Spec

\* PortsApart: in the configuration of a device of any vendor every interface has
\* a block of its own, in the order of the list, and names that differ otherwise
\* than in case, and have no part in the form of JunOS, never share a heading.
THEOREM PortsCorrect == Spec => []PortsApart
  <1>1. Init => Answers
    BY InitAnswers
  <1>2. Answers /\ [Next]_asked => Answers'
    BY StepAnswers
  <1>3. Answers => PortsApart
    <2> SUFFICES ASSUME Answers, Is("config") PROVE PortsApart
      BY DEF PortsApart
    <2>1. PICK d \in Device, ifs \in Seq(Interface), now \in Moment :
            d = asked.d /\ ifs = asked.ifs /\ now = asked.now
      BY FiguresAssumption, SnapshotOf DEF Answers
    <2>2. Text(ifs, now) = GenerateRunningConfig(d, ifs, now)
      BY <2>1 DEF Text
    <2>3. Heads(Text(ifs, now)) = Heads(Body(d, ifs))
      BY <2>2, HeadsBelow
    <2> QED
      BY <2>1, <2>3, PortsDiffer DEF PortsApart
  <1> QED
    BY <1>1, <1>2, <1>3, PTL DEF Spec

\* ZonesApart: whatever interfaces a firewall has, of those whose names are not made
\* up and are theirs alone no WAN interface is in TRUST, and TRUST has every other
\* one that is up.
THEOREM ZonesCorrect == Spec => []ZonesApart
  <1>1. Init => Answers
    BY InitAnswers
  <1>2. Answers /\ [Next]_asked => Answers'
    BY StepAnswers
  <1>3. Answers => ZonesApart
    <2> SUFFICES ASSUME Answers, Is("config") PROVE ZonesApart
      BY DEF ZonesApart
    <2>1. PICK ifs \in Seq(Interface) : ifs = asked.ifs
      BY SnapshotOf DEF Answers
    <2> QED
      BY <2>1, ZonesDiffer DEF ZonesApart
  <1> QED
    BY <1>1, <1>2, <1>3, PTL DEF Spec

\* ChangesShow: two snapshots of a device are the same text only if they were made
\* within a second, and what stands below the date is the same exactly if they show
\* the same of as many interfaces, whatever changed at once.
THEOREM ChangesCorrect == Spec => []ChangesShow
  <1>1. Init => Answers
    BY InitAnswers
  <1>2. Answers /\ [Next]_asked => Answers'
    BY StepAnswers
  <1>3. Answers => ChangesShow
    <2> SUFFICES ASSUME Answers, Is("change") PROVE ChangesShow
      BY DEF ChangesShow
    <2>1. PICK d \in Device, ifs \in Seq(Interface), after \in Seq(Interface),
               now \in Moment, later \in Moment :
            d = asked.d /\ ifs = asked.ifs /\ now = asked.now /\ after = asked.after /\ later = asked.later
      BY FiguresAssumption, SnapshotOf DEF Answers
    <2>2. PICK was, is : was = Text(ifs, now) /\ is = Text(after, later)
      OBVIOUS
    <2>3. was = GenerateRunningConfig(d, ifs, now) /\ is = GenerateRunningConfig(d, after, later)
      BY <2>1, <2>2 DEF Text
    <2>4. PICK n : n = Len(Stamp(d, now)) + 1
      OBVIOUS
    <2>5. /\ SubSeq(was, n, Len(was)) = Body(d, ifs)
          /\ SubSeq(is, n, Len(is)) = Body(d, after)
          /\ was = is <=> Body(d, ifs) = Body(d, after) /\ Dated(d, now) = Dated(d, later)
      BY <2>3, <2>4, CutAtDate
    <2> QED
      BY <2>1, <2>2, <2>4, <2>5, ChangesTell DEF ChangesShow
  <1> QED
    BY <1>1, <1>2, <1>3, PTL DEF Spec

\* SeriesAgree: histories, the series of the WAN, its sparkline, its current figure
\* and its percentile agree, for any number of devices and points and any samples.
THEOREM SeriesCorrect == Spec => []SeriesAgree
  <1>1. Init => Answers
    BY InitAnswers
  <1>2. Answers /\ [Next]_asked => Answers'
    BY StepAnswers
  <1>3. Answers => SeriesAgree
    <2> SUFFICES ASSUME Answers, Is("series") PROVE SeriesAgree
      BY DEF SeriesAgree
    <2>1. PICK logs \in Logs, n \in Points : logs = asked.logs /\ n = asked.n
      BY DEF Answers
    <2> QED
      BY <2>1, SeriesTell DEF SeriesAgree
  <1> QED
    BY <1>1, <1>2, <1>3, PTL DEF Spec

\* SlaHonest: of fewer than 2000 parameters the compliance card says "met" and
\* shows 100.0 % exactly if none that could be evaluated is breached, whatever
\* queries fail and however doubles round at a boundary.
THEOREM SlaCorrect == Spec => []SlaHonest
  <1>1. Init => Answers
    BY InitAnswers
  <1>2. Answers /\ [Next]_asked => Answers'
    BY StepAnswers
  <1>3. Answers /\ Is("status") => SlaHonest
    <2> SUFFICES ASSUME Answers, Is("status") PROVE SlaHonest
      OBVIOUS
    <2> DEFINE s == asked.status
               met == Summary(s).met
               total == Summary(s).total
    <2>1. /\ asked.params \in Params /\ asked.db \in Databases
          /\ s \in StatusOf(asked.params, asked.db, asked.failed)
      BY DEF Answers
    <2>2. PICK pct \in Pct(met, total) : asked.card = Card(met, total, pct)
      BY DEF Answers
    <2>3. DOMAIN s = Enabled(asked.params)
      BY <2>1 DEF StatusOf
    <2>4. /\ met \in Nat /\ total \in Nat /\ met <= total /\ total < 2000
          /\ met = total <=> \A k \in DOMAIN s : s[k] # "breached"
      BY <2>1, <2>3, StatusCounts
    <2>5. asked.card.met = (met = total) /\ asked.card.pct = pct
      BY <2>2 DEF Card
    <2> HIDE DEF met, total
    <2>6. met = total <=> pct = 1000
      <3>1. CASE total = 0
        BY <2>4, <3>1 DEF Pct
      <3>2. CASE total # 0
        <4>1. /\ met = total => pct = 1000
              /\ total < 2000 /\ met < total => pct < 1000
          BY <2>4, <3>2, PctFacts
        <4> QED
          BY <2>4, <4>1
      <3> QED
        BY <3>1, <3>2
    <2>7. ASSUME NEW k \in Enabled(asked.params),
                 asked.params[k].metric = "availability", asked.params[k].operator = ">=",
                 asked.params[k].target <= 100 * Unit,
                 asked.db.up = asked.db.total, "availability" \notin asked.failed
          PROVE  s[k] = "met"
      <3>1. s[k] \in Verdicts(asked.params[k], CurrentValue(asked.params[k], asked.db, asked.failed))
        BY <2>1 DEF StatusOf
      <3>2. asked.params[k] \in Parameter
        BY <2>1, FiguresAssumption DEF Enabled
      <3>3. asked.db.up \in Nat /\ asked.db.total \in Nat
        BY <2>1, FiguresAssumption
      <3> HIDE DEF s
      <3> QED
        BY <2>7, <3>1, <3>2, <3>3, AllUp
    <2>8. asked.kind = "status"
      BY DEF Is
    <2>9. asked.card.met <=> met = total
      BY <2>5
    <2> QED
      BY <2>4, <2>5, <2>6, <2>7, <2>8, <2>9 DEF SlaHonest, Is
  <1>4. Answers /\ Is("card") => SlaHonest
    <2> SUFFICES ASSUME Answers, Is("card") PROVE SlaHonest
      OBVIOUS
    <2> DEFINE met == asked.met
               total == asked.total
    <2>1. met \in Nat /\ total \in Nat /\ met <= total
      BY DEF Answers
    <2>2. PICK pct \in Pct(met, total) : asked.card = Card(met, total, pct)
      BY DEF Answers
    <2>3. /\ asked.card.pct = pct
          /\ asked.card.tone = IF met = total THEN "up" ELSE IF pct >= 500 THEN "warn" ELSE "down"
      BY <2>2 DEF Card
    <2>4. asked.kind # "status"
      BY DEF Is
    <2>5. CASE total = 0
      <3>1. pct = 1000 /\ met = 0
        BY <2>1, <2>2, <2>5 DEF Pct
      <3> QED
        BY <2>3, <2>4, <2>5, <3>1 DEF SlaHonest, Is
    <2>6. CASE total # 0
      <3>1. /\ met = total => pct = 1000
            /\ total < 2000 /\ met < total => pct < 1000
            /\ total < 2000 => (pct = 0 <=> met = 0)
            /\ total < 1000 /\ met < total => (pct < 500 <=> 2 * met < total)
        BY <2>1, <2>6, PctFacts
      <3>2. pct \in Int
        BY <2>1, <2>6, Rounded
      <3> QED
        BY <2>1, <2>3, <2>4, <2>6, <3>1, <3>2 DEF SlaHonest, Is
    <2> QED
      BY <2>5, <2>6
  <1>5. ~Is("status") /\ ~Is("card") => SlaHonest
    BY DEF SlaHonest
  <1> QED
    BY <1>1, <1>2, <1>3, <1>4, <1>5, PTL DEF Spec

=============================================================================
