------------------------ MODULE UnifiedMemory_proofs ------------------------
(***************************************************************************)
(* The inductive invariant of UnifiedMemory and the proofs of Coherent,    *)
(* KernelSeesMemory, CarefulProgramSucceeds and FaultsAreHandled.          *)
(***************************************************************************)
EXTENDS UnifiedMemory, TLAPS, WellFoundedInduction

\* Memory that is allocated does not overlap, and an entry has its address to
\* itself.
AllocInv ==
  /\ \A q, r \in Allocated : q # r => Extent(q) \cap Extent(r) = {}
  /\ managed \cap plain = {}
EntryInv ==
  /\ managed \subseteq unified_devices
  /\ \A d, e \in unified_devices : Base[d] = Base[e] => d = e

\* The argument of a stub stays allocated.  What is freed is nothing else's.
ScopeInv ==
  \A t \in Busy :
    /\ pc[t] = "free" => scope[t] \in Allocated
    /\ pc[t] # "free" => scope[t] \in managed \cup {All}
    /\ pc[t] \in {"fetch", "send"} => scope[t] # All
    /\ \A u \in Busy : t # u /\ pc[t] = "free" => scope[t] # scope[u]

\* Two calls about the same region are noticed.
SoloInv ==
  \A t, u \in Busy : t # u => About(t) \cap About(u) \subseteq overlapped

\* What is the latest copy of a region in the course of a call about it.
Sees(t, r) ==
  /\ pc[t] \in {"push", "fetch"} =>
       r \in current_host /\ (Base[r] < at[t] => r \in current_dev)
  /\ pc[t] \in {"launch", "send"} => r \in current_host /\ r \in current_dev
  /\ pc[t] = "pull" =>
       r \in current_dev /\ (Base[r] < at[t] => r \in current_host)
  /\ pc[t] = "free" => r \in current_host \/ r = scope[t]
PhaseInv == \A t \in Busy : \A r \in Intact \cap About(t) : Sees(t, r)

\* What a call has copied once it can copy back, unless another call was about
\* all of its regions.
ReadyInv ==
  \A t \in Busy :
    pc[t] # "free" /\ Intact \cap About(t) # {} =>
      \A e \in unified_devices :
        /\ scope[t] \in {All, e}
        /\ pc[t] \in {"push", "fetch"} => Base[e] < at[t]
        => Copyable(e)

\* What holds until the program is careless.
CarefulInv ==
  ~untouched /\ ~freed =>
    /\ ~failed /\ ~broken
    /\ unified_devices = managed
    /\ \A r \in managed \cap written : Pages(r) \subseteq mapped
    /\ \A t \in Busy :
         IF pc[t] = "free" THEN scope[t] \in plain
         ELSE managed \cap About(t) \subseteq written

\* Memory of cudaMalloc holds what was written there last, but for an entry that
\* cudaFree left.
PlainInv ==
  \A q \in plain \ current_dev :
    \E e \in unified_devices \ managed : Extent(e) \subseteq Extent(q)

\* What holds until a fault may lead to other pages: a region has its addresses
\* to itself, among the entries too, and a large one has its pages to itself and
\* is mapped as a whole.
FaultInv ==
  ~strayed =>
    /\ \A t \in Threads : pc[t] # "spins"
    /\ \A r \in managed :
         /\ ~Unaligned(r)
         /\ \A e \in unified_devices : e # r => Extent(e) \cap Extent(r) = {}
         /\ Large(r) => \A q \in managed : q # r => Pages(q) \cap Pages(r) = {}
         /\ Large(r) /\ r \notin Freeing => Whole(r)

IInv ==
  /\ TypeOK
  /\ AllocInv
  /\ EntryInv
  /\ ScopeInv
  /\ SoloInv
  /\ PhaseInv
  /\ Coherent
  /\ ReadyInv
  /\ CarefulInv
  /\ PlainInv
  /\ FaultInv

-----------------------------------------------------------------------------
(* Numbers, and the mask of the fault handler.                             *)

\* A set of numbers that is not empty has a least element.
LEMMA LeastNumber ==
  ASSUME NEW T \in SUBSET Nat, T # {}
  PROVE  \E n \in T : \A m \in T : n <= m
  <1> DEFINE less == {p \in Nat \X Nat : p[1] < p[2]}
  <1>1. IsWellFoundedOn(less, Nat)
    BY NatLessThanWellFounded DEF OpToRel
  <1>2. PICK n \in T : \A m \in T : ~(<<m, n>> \in less)
    <2> HIDE DEF less
    <2>1. QED
      BY <1>1, WFMin
  <1>3. \A m \in T : ~(m < n)
    BY <1>2
  <1>4. QED
    BY <1>3

\* The equation that defines AndNot, and functions that satisfy it up to n.
Masked(g, x) ==
  [y \in Nat |->
     IF x = 0 THEN 0
     ELSE 2 * g[x \div 2][y \div 2]
            + IF x % 2 = 1 /\ y % 2 = 0 THEN 1 ELSE 0]
Partial(n) ==
  {g \in [0 .. n -> [Nat -> Nat]] : \A x \in 0 .. n : g[x] = Masked(g, x)}

LEMMA Halves ==
  ASSUME NEW x \in Nat
  PROVE  /\ x \div 2 \in Nat /\ x % 2 \in {0, 1} /\ x = 2 * (x \div 2) + (x % 2)
         /\ x # 0 => x \div 2 < x
  OBVIOUS

LEMMA MaskedType ==
  ASSUME NEW x \in Nat, NEW g, x # 0 => g[x \div 2] \in [Nat -> Nat]
  PROVE  Masked(g, x) \in [Nat -> Nat]
  <1>1. SUFFICES ASSUME NEW y \in Nat, x # 0
                 PROVE  2 * g[x \div 2][y \div 2]
                          + (IF x % 2 = 1 /\ y % 2 = 0 THEN 1 ELSE 0) \in Nat
    BY DEF Masked
  <1>2. g[x \div 2][y \div 2] \in Nat
    BY <1>1, Halves
  <1>3. QED
    BY <1>2

\* Two of them agree.
LEMMA PartialAgree ==
  ASSUME NEW n \in Nat, NEW m \in Nat, NEW g \in Partial(n), NEW h \in Partial(m),
         NEW x \in Nat, x <= n, x <= m
  PROVE  g[x] = h[x]
  <1> DEFINE differ == {z \in Nat : z <= n /\ z <= m /\ g[z] # h[z]}
  <1>1. SUFFICES ASSUME differ # {} PROVE FALSE
    OBVIOUS
  <1>2. PICK z \in differ : \A w \in differ : z <= w
    <2> HIDE DEF differ
    <2>1. differ \in SUBSET Nat
      BY DEF differ
    <2>2. QED
      BY <1>1, <2>1, LeastNumber
  <1>3. z \in Nat /\ z \in 0 .. n /\ z \in 0 .. m
    OBVIOUS
  <1>4. z # 0 => g[z \div 2] = h[z \div 2]
    BY <1>2, <1>3, Halves
  <1>5. Masked(g, z) = Masked(h, z)
    BY <1>4 DEF Masked
  <1>6. g[z] = Masked(g, z) /\ h[z] = Masked(h, z)
    BY <1>3 DEF Partial
  <1>7. QED
    BY <1>5, <1>6

LEMMA PartialExists ==
  ASSUME NEW n \in Nat
  PROVE  Partial(n) # {}
  <1> DEFINE without == {m \in Nat : Partial(m) = {}}
  <1>1. SUFFICES ASSUME without # {} PROVE FALSE
    OBVIOUS
  <1>2. PICK m \in without : \A k \in without : m <= k
    <2> HIDE DEF without
    <2>1. without \in SUBSET Nat
      BY DEF without
    <2>2. QED
      BY <1>1, <2>1, LeastNumber
  <1>3. m \in Nat /\ Partial(m) = {}
    OBVIOUS
  <1>4. CASE m = 0
    <2> DEFINE h == [x \in 0 .. 0 |-> [y \in Nat |-> 0]]
    <2>1. h \in [0 .. 0 -> [Nat -> Nat]]
      OBVIOUS
    <2>2. \A x \in 0 .. 0 : h[x] = Masked(h, x)
      BY DEF Masked
    <2>3. h \in Partial(0)
      BY <2>1, <2>2 DEF Partial
    <2>4. QED
      BY <1>3, <1>4, <2>3
  <1>5. CASE m # 0
    <2>1. m - 1 \in Nat /\ ~(m <= m - 1)
      BY <1>3, <1>5
    <2>2. PICK g : g \in Partial(m - 1)
      BY <1>2, <2>1
    <2>3. /\ g \in [0 .. m - 1 -> [Nat -> Nat]]
          /\ \A x \in 0 .. m - 1 : g[x] = Masked(g, x)
      BY <2>2 DEF Partial
    <2> DEFINE h == [x \in 0 .. m |-> IF x = m THEN Masked(g, m) ELSE g[x]]
    <2>4. Masked(g, m) \in [Nat -> Nat]
      <3>1. m \div 2 \in 0 .. m - 1
        BY <1>3, <1>5, Halves
      <3>2. QED
        BY <1>3, <2>3, <3>1, MaskedType
    <2>5. \A x \in 0 .. m - 1 : x \in 0 .. m /\ x # m /\ h[x] = g[x]
      BY <1>3
    <2>6. h \in [0 .. m -> [Nat -> Nat]]
      <3>1. ASSUME NEW x \in 0 .. m
            PROVE  (IF x = m THEN Masked(g, m) ELSE g[x]) \in [Nat -> Nat]
        <4>1. x = m \/ x \in 0 .. m - 1
          BY <1>3
        <4>2. QED
          BY <2>3, <2>4, <4>1
      <3>2. QED
        BY <3>1
    <2>7. ASSUME NEW x \in 0 .. m PROVE h[x] = Masked(h, x)
      <3>1. x \in Nat /\ (x = m \/ x \in 0 .. m - 1)
        BY <1>3
      <3>2. x # 0 => x \div 2 \in 0 .. m - 1
        BY <1>3, <3>1, Halves
      <3>3. x # 0 => h[x \div 2] = g[x \div 2]
        BY <2>5, <3>2
      <3>4. Masked(h, x) = Masked(g, x)
        <4> HIDE DEF h
        <4>1. QED
          BY <3>3 DEF Masked
      <3>5. h[x] = Masked(g, x)
        BY <2>3, <2>5, <3>1
      <3>6. QED
        BY <3>4, <3>5
    <2>8. h \in Partial(m)
      <3> HIDE DEF h
      <3>1. QED
        BY <2>6, <2>7 DEF Partial
    <2>9. QED
      BY <1>3, <2>8
  <1>6. QED
    BY <1>4, <1>5

\* AndNot satisfies its equation.
LEMMA AndNotDef ==
  ASSUME NEW x \in Nat
  PROVE  AndNot[x] = Masked(AndNot, x) /\ AndNot[x] \in [Nat -> Nat]
  <1> DEFINE part(n) == CHOOSE g : g \in Partial(n)
             f == [n \in Nat |-> part(n)[n]]
  <1>1. \A n \in Nat : part(n) \in Partial(n)
    BY PartialExists
  <1> HIDE DEF part
  <1>2. \A n \in Nat : part(n)[n] \in [Nat -> Nat] /\ part(n)[n] = Masked(part(n), n)
    <2> SUFFICES ASSUME NEW n \in Nat
                 PROVE  part(n)[n] \in [Nat -> Nat] /\ part(n)[n] = Masked(part(n), n)
      OBVIOUS
    <2>1. n \in 0 .. n
      OBVIOUS
    <2>2. QED
      BY <1>1, <2>1 DEF Partial
  <1>3. ASSUME NEW n \in Nat PROVE f[n] = Masked(f, n)
    <2>1. n # 0 => /\ n \div 2 \in Nat /\ n \div 2 <= n
                   /\ f[n \div 2] = part(n \div 2)[n \div 2]
      BY Halves
    <2>2. n # 0 => f[n \div 2] = part(n)[n \div 2]
      BY <1>1, <2>1, PartialAgree
    <2>3. Masked(f, n) = Masked(part(n), n)
      <3> HIDE DEF f
      <3>1. QED
        BY <2>2 DEF Masked
    <2>4. QED
      BY <1>2, <2>3
  <1>4. f = [n \in Nat |-> Masked(f, n)]
    BY <1>3
  <1>5. AndNot = [n \in Nat |-> Masked(AndNot, n)]
    <2> HIDE DEF f
    <2>1. \E g : g = [n \in Nat |-> Masked(g, n)]
      BY <1>4
    <2>2. AndNot = CHOOSE g : g = [n \in Nat |-> Masked(g, n)]
      BY DEF AndNot, Masked
    <2>3. QED
      BY <2>1, <2>2
  <1>6. \A n \in Nat : AndNot[n] = Masked(AndNot, n)
    <2>1. DOMAIN AndNot = Nat
      BY <1>5
    <2>2. QED
      BY <1>5
  <1>7. AndNot[x] \in [Nat -> Nat]
    <2> DEFINE wrong == {n \in Nat : AndNot[n] \notin [Nat -> Nat]}
    <2>1. SUFFICES ASSUME wrong # {} PROVE FALSE
      OBVIOUS
    <2>2. PICK n \in wrong : \A k \in wrong : n <= k
      <3> HIDE DEF wrong
      <3>1. wrong \in SUBSET Nat
        BY DEF wrong
      <3>2. QED
        BY <2>1, <3>1, LeastNumber
    <2>3. n \in Nat /\ AndNot[n] \notin [Nat -> Nat]
      OBVIOUS
    <2>4. n # 0 => AndNot[n \div 2] \in [Nat -> Nat]
      BY <2>2, <2>3, Halves
    <2>5. QED
      BY <1>6, <2>3, <2>4, MaskedType
  <1>8. QED
    BY <1>6, <1>7



\* Quotient and remainder.
LEMMA Euclid ==
  ASSUME NEW p \in Nat \ {0}, NEW a \in Nat
  PROVE  /\ a \div p \in Nat /\ p * (a \div p) <= a /\ a < p * (a \div p) + p
         /\ a % p \in 0 .. p - 1 /\ a = p * (a \div p) + (a % p)
  BY SMT

LEMMA Order ==
  ASSUME NEW p \in Nat \ {0}, NEW m \in Int, NEW n \in Int
  PROVE  /\ m <= n => p * m <= p * n
         /\ m < n => p * m + p <= p * n
  <1>1. p * m \in Int /\ p * n \in Int
    OBVIOUS
  <1>2. p * (n - m) = p * n - p * m
    OBVIOUS
  <1>3. m <= n => p * (n - m) >= 0
    OBVIOUS
  <1>4. m < n => p * (n - m) >= p
    <2> SUFFICES ASSUME m < n PROVE p * (n - m) >= p
      OBVIOUS
    <2>1. n - m - 1 \in Nat
      OBVIOUS
    <2>2. p * (n - m - 1) >= 0
      BY <2>1
    <2>3. p * (n - m - 1) = p * (n - m) - p
      OBVIOUS
    <2>4. QED
      BY <2>2, <2>3
  <1>5. QED
    BY <1>1, <1>2, <1>3, <1>4

LEMMA Quotient ==
  ASSUME NEW p \in Nat \ {0}, NEW a \in Nat, NEW q \in Int, p * q <= a, a < p * q + p
  PROVE  a \div p = q
  <1>1. /\ a \div p \in Int /\ p * (a \div p) <= a /\ a < p * (a \div p) + p
    BY Euclid
  <1>2. a \div p < q => p * (a \div p) + p <= p * q
    BY <1>1, Order
  <1>3. q < a \div p => p * q + p <= p * (a \div p)
    BY <1>1, Order
  <1> DEFINE d == a \div p
             x == p * q
             y == p * d
  <1>4. x \in Int /\ y \in Int /\ d \in Int
    BY <1>1
  <1> HIDE DEF d, x, y
  <1>5. QED
    BY <1>1, <1>2, <1>3, <1>4 DEF d, x, y
\* A multiple.
LEMMA Multiple ==
  ASSUME NEW p \in Nat \ {0}, NEW a \in Nat, a % p = 0
  PROVE  \E k \in Nat : a = p * k
  <1>1. a \div p \in Nat /\ a = p * (a \div p) + (a % p) /\ p * (a \div p) \in Nat
    BY Euclid
  <1>2. a = p * (a \div p)
    BY <1>1
  <1>3. QED
    BY <1>1, <1>2


LEMMA Remainder ==
  ASSUME NEW p \in Nat \ {0}, NEW k \in Nat
  PROVE  (p * k) % p = 0
  <1>1. PICK a \in Nat : a = p * k
    OBVIOUS
  <1>2. a \div p = k
    BY <1>1, Quotient
  <1>3. a % p \in 0 .. p - 1 /\ a = p * (a \div p) + (a % p)
    BY Euclid
  <1>4. a = a + (a % p)
    BY <1>1, <1>2, <1>3
  <1>5. QED
    BY <1>1, <1>3, <1>4

AndNotEquation(x, y) ==
  AndNot[x][y] =
    IF x = 0 THEN 0
    ELSE 2 * AndNot[x \div 2][y \div 2]
           + IF x % 2 = 1 /\ y % 2 = 0 THEN 1 ELSE 0

LEMMA AndNotStep ==
  ASSUME NEW x \in Nat, NEW y \in Nat
  PROVE  AndNotEquation(x, y)
  BY AndNotDef DEF Masked, AndNotEquation

\* It clears bits of x, of which y has enough.
LEMMA AndNotBounds ==
  ASSUME NEW x \in Nat, NEW y \in Nat
  PROVE  AndNot[x][y] \in Nat /\ AndNot[x][y] <= x /\ x <= AndNot[x][y] + y
  <1> DEFINE Bounded(n, m) ==
               AndNot[n][m] \in Nat /\ AndNot[n][m] <= n /\ n <= AndNot[n][m] + m
             wrong == {n \in Nat : \E m \in Nat : ~Bounded(n, m)}
  <1>1. SUFFICES ASSUME wrong # {} PROVE FALSE
    OBVIOUS
  <1>2. PICK n \in wrong : \A k \in wrong : n <= k
    <2> HIDE DEF wrong
    <2>1. wrong \in SUBSET Nat
      BY DEF wrong
    <2>2. QED
      BY <1>1, <2>1, LeastNumber
  <1>3. n \in Nat
    OBVIOUS
  <1>4. PICK m \in Nat : ~Bounded(n, m)
    OBVIOUS
  <1>5. AndNotEquation(n, m)
    BY <1>3, AndNotStep
  <1>6. CASE n = 0
    BY <1>4, <1>5, <1>6 DEF AndNotEquation
  <1>7. CASE n # 0
    <2>1. Bounded(n \div 2, m \div 2)
      BY <1>2, <1>3, <1>7, Halves
    <2>2. PICK h \in Nat, i \in Nat, b \in {0, 1}, c \in {0, 1}, z \in Nat :
            /\ h = n \div 2 /\ b = n % 2 /\ n = 2 * h + b
            /\ i = m \div 2 /\ c = m % 2 /\ m = 2 * i + c
            /\ z = AndNot[h][i] /\ z <= h /\ h <= z + i
      BY <1>3, <2>1, Halves
    <2>3. AndNot[n][m] = 2 * z + IF b = 1 /\ c = 0 THEN 1 ELSE 0
      BY <1>5, <1>7, <2>2 DEF AndNotEquation
    <2>4. QED
      BY <1>4, <2>2, <2>3
  <1>8. QED
    BY <1>6, <1>7

\* Half of a power of two is one.
LEMMA HalfOfPower ==
  ASSUME NEW p \in Nat \ {0, 1}, PowerOfTwo(p)
  PROVE  \E q \in Nat \ {0} : p = 2 * q /\ PowerOfTwo(q)
  <1>1. p % p = 0 /\ p \in 1 .. p
    OBVIOUS
  <1>2. p % 2 = 0
    BY <1>1 DEF PowerOfTwo
  <1>3. PICK q \in Nat \ {0} : p = 2 * q
    BY <1>2, Halves
  <1>4. ASSUME NEW d \in 1 .. q, q % d = 0 PROVE d = 1 \/ d % 2 = 0
    <2>1. PICK j \in Nat : q = d * j
      BY <1>4, Multiple
    <2>2. p = d * (2 * j) /\ 2 * j \in Nat
      BY <1>3, <2>1
    <2>3. p % d = 0
      BY <2>2, Remainder
    <2>4. d \in 1 .. p
      BY <1>3
    <2>5. QED
      BY <2>3, <2>4 DEF PowerOfTwo
  <1>5. QED
    BY <1>3, <1>4 DEF PowerOfTwo

\* One bit more.
LEMMA AndNotDoubles ==
  ASSUME NEW h \in Nat \ {0}, NEW x \in Nat, NEW y \in Nat,
         h * ((x \div 2) \div h) <= AndNot[x \div 2][y \div 2]
  PROVE  (2 * h) * (x \div (2 * h)) <= AndNot[x][y]
  <1>1. PICK u \in Nat, v \in Nat, b \in {0, 1} :
          u = x \div 2 /\ v = y \div 2 /\ x = 2 * u + b
    BY Halves
  <1>2. PICK k \in Nat, z \in Nat :
          /\ k = u \div h /\ z = h * k /\ z <= u /\ u < z + h
          /\ z <= AndNot[u][v]
    <2>1. u \div h \in Nat /\ h * (u \div h) <= u /\ u < h * (u \div h) + h
      BY Euclid
    <2>2. h * (u \div h) \in Nat
      BY <2>1
    <2>3. QED
      BY <1>1, <2>1, <2>2
  <1>3. PICK q \in Nat \ {0} : q = 2 * h /\ q * k = 2 * z
    <2>1. (2 * h) * k = 2 * (h * k) /\ 2 * h \in Nat \ {0}
      OBVIOUS
    <2>2. QED
      BY <1>2, <2>1
  <1>4. x \div q = k
    <2>1. q * k <= x /\ x < q * k + q
      BY <1>1, <1>2, <1>3
    <2>2. k \in Int
      OBVIOUS
    <2>3. QED
      BY <2>1, <2>2, Quotient, Zenon
  <1>5. AndNot[u][v] \in Nat /\ AndNot[x][y] \in Nat
    BY AndNotBounds
  <1>6. CASE x = 0
    BY <1>1, <1>2, <1>3, <1>4, <1>5, <1>6
  <1>7. CASE x # 0
    <2>1. AndNot[x][y] = 2 * AndNot[u][v]
                           + IF x % 2 = 1 /\ y % 2 = 0 THEN 1 ELSE 0
      BY <1>1, <1>7, AndNotStep DEF AndNotEquation
    <2>2. 2 * AndNot[u][v] <= AndNot[x][y]
      BY <1>5, <2>1
    <2>3. QED
      BY <1>2, <1>3, <1>4, <1>5, <2>2
  <1>8. QED
    BY <1>6, <1>7

\* Bits below those of a power of two leave the multiple of it.
LEMMA AndNotKeepsPage ==
  ASSUME NEW p \in Nat \ {0}, PowerOfTwo(p), NEW a \in Nat, NEW m \in Nat, m < p
  PROVE  p * (a \div p) <= AndNot[a][m]
  <1> DEFINE Keeps(q) == \A x \in Nat : \A y \in Nat :
               y < q => q * (x \div q) <= AndNot[x][y]
             wrong == {q \in Nat \ {0} : PowerOfTwo(q) /\ ~Keeps(q)}
  <1>1. SUFFICES ASSUME wrong # {} PROVE FALSE
    BY DEF PowerOfTwo
  <1>2. PICK q \in Nat \ {0} : PowerOfTwo(q) /\ ~Keeps(q) /\ \A k \in wrong : q <= k
    <2> HIDE DEF Keeps
    <2>1. wrong \in SUBSET Nat
      OBVIOUS
    <2> HIDE DEF wrong
    <2>2. PICK q \in wrong : \A k \in wrong : q <= k
      BY <1>1, <2>1, LeastNumber
    <2>3. QED
      BY <2>2 DEF wrong
  <1>3. PICK x \in Nat, y \in Nat : y < q /\ ~(q * (x \div q) <= AndNot[x][y])
    BY <1>2
  <1>4. CASE q = 1
    <2>1. y = 0 /\ q * (x \div q) = x
      BY <1>3, <1>4
    <2>2. AndNot[x][y] \in Nat /\ x <= AndNot[x][y] + y
      BY AndNotBounds
    <2>3. QED
      BY <1>3, <2>1, <2>2
  <1>5. CASE q # 1
    <2>1. PICK h \in Nat \ {0} : q = 2 * h /\ PowerOfTwo(h)
      BY <1>2, <1>5, HalfOfPower
    <2>2. Keeps(h)
      <3> HIDE DEF Keeps
      <3>1. h \notin wrong
        <4>1. ~(q <= h)
          BY <2>1
        <4>2. QED
          BY <1>2, <4>1
      <3>2. QED
        BY <2>1, <3>1
    <2>3. x \div 2 \in Nat /\ y \div 2 \in Nat /\ y \div 2 < h
      BY <1>3, <2>1, Halves
    <2>4. h * ((x \div 2) \div h) <= AndNot[x \div 2][y \div 2]
      BY <2>2, <2>3
    <2>5. (2 * h) * (x \div (2 * h)) <= AndNot[x][y]
      BY <2>4, AndNotDoubles
    <2>6. QED
      BY <1>3, <2>1, <2>5
  <1>6. QED
    BY <1>4, <1>5

-----------------------------------------------------------------------------

\* What a call may be about, and how it begins.
MayCall(s, l) ==
  \/ s = All /\ l = "push"
  \/ s \in managed \ Freeing /\ l \in {"push", "fetch"}

LEMMA OwnExtent ==
  \A r \in Regions : Base[r] \in Extent(r) /\ Base[r] \in Nat
  BY ConstantsAssumption DEF Extent

\* What the program allocates is not yet allocated, nor has it an entry's address
\* if that entry is allocated.
LEMMA FreeIsNew ==
  ASSUME TypeOK, NEW r \in Free
  PROVE  /\ r \in Regions /\ r \notin Allocated
         /\ \A q \in Allocated : Extent(r) \cap Extent(q) = {}
         /\ \A q \in Allocated : Base[q] # Base[r]
  <1>1. r \in Regions /\ \A q \in Allocated : Extent(r) \cap Extent(q) = {}
    BY DEF Free
  <1>2. \A q \in Allocated : q \in Regions
    BY DEF TypeOK, Allocated
  <1>3. QED
    BY <1>1, <1>2, OwnExtent

\* A call that returns, or is stuck, is not under way any more.
LEMMA LeaveEffect ==
  ASSUME TypeOK, NEW t \in Threads, NEW l \in {"idle", "stuck"}, Leave(t, l)
  PROVE  /\ pc' \in [Threads -> {"idle", "push", "fetch", "launch", "send",
                                  "pull", "free", "spins", "stuck"}]
         /\ scope' \in [Threads -> Regions \cup {All}]
         /\ at' \in [Threads -> Nat]
         /\ Busy' = Busy \ {t}
         /\ \A u \in Busy' :
              /\ pc'[u] = pc[u] /\ scope'[u] = scope[u] /\ at'[u] = at[u]
              /\ About(u)' = About(u)
  <1>1. /\ pc' = [pc EXCEPT ![t] = l]
        /\ scope' = [scope EXCEPT ![t] = All]
        /\ at' = [at EXCEPT ![t] = 0]
    BY DEF Leave, Goto
  <1>2. /\ pc' \in [Threads -> {"idle", "push", "fetch", "launch", "send",
                                 "pull", "free", "spins", "stuck"}]
        /\ scope' \in [Threads -> Regions \cup {All}]
        /\ at' \in [Threads -> Nat]
    BY <1>1 DEF TypeOK
  <1>3. Busy' = Busy \ {t}
    BY <1>1 DEF TypeOK, Busy
  <1>4. \A u \in Busy' :
          pc'[u] = pc[u] /\ scope'[u] = scope[u] /\ at'[u] = at[u]
    BY <1>1, <1>3 DEF TypeOK, Busy
  <1>5. QED
    BY <1>2, <1>3, <1>4 DEF About, Within

\* A call that fails, or ends its last loop, is left.
LEMMA FailLeaves ==
  ASSUME NEW t \in Threads, CopyFails(t)
  PROVE  \E l \in {"idle", "stuck"} : Leave(t, l)
  BY DEF CopyFails

\* A thread's accesses to memory are no call.
LEMMA TouchEffect ==
  ASSUME TypeOK, NEW t \in Threads, NEW r \in Regions, NEW a \in Extent(r),
         Touch(t, r, a)
  PROVE  /\ pc' \in [Threads -> {"idle", "push", "fetch", "launch", "send",
                                  "pull", "free", "spins", "stuck"}]
         /\ Busy' = Busy /\ mapped \subseteq mapped' /\ mapped' \subseteq Nat
         /\ \A u \in Busy : pc'[u] = pc[u] /\ About(u)' = About(u)
  <1>1. pc[t] = "idle" /\ scope' = scope
    BY DEF Touch, Runs
  <1>2. pc' = pc \/ pc' = [pc EXCEPT ![t] = "spins"]
    BY DEF Touch, Goto
  <1>3. Busy' = Busy
    BY <1>1, <1>2 DEF TypeOK, Busy
  <1>4. \A u \in Busy : pc'[u] = pc[u]
    BY <1>1, <1>2 DEF TypeOK, Busy
  <1>5. mapped \subseteq mapped' /\ mapped' \subseteq Nat
    <2>1. CASE UNCHANGED mapped
      BY <2>1 DEF TypeOK
    <2>2. CASE \E e \in Lowest(Owners(a)) :
                 mapped' = mapped \cup NewPages(a, e)
      <3>1. PICK e \in Lowest(Owners(a)) : mapped' = mapped \cup NewPages(a, e)
        BY <2>2
      <3>2. e \in Regions
        BY DEF Lowest, Owners, TypeOK
      <3>3. NewPages(a, e) \subseteq Nat
        <4>1. a \in Nat /\ Size[e] \in Nat \ {0}
          BY <3>2, ConstantsAssumption DEF Extent
        <4>2. Rounded(a, e) \in Nat
          BY <4>1, AndNotBounds DEF Rounded
        <4>3. Page(Rounded(a, e)) \in Nat
          BY <4>2, ConstantsAssumption DEF Page
        <4>4. QED
          BY <4>3 DEF NewPages
      <3>4. QED
        BY <3>1, <3>3 DEF TypeOK
    <2>3. QED
      BY <2>1, <2>2 DEF Touch
  <1>6. \A u \in Busy : About(u)' = About(u)
    BY <1>1, <1>4 DEF About, Within
  <1>7. QED
    BY <1>2, <1>3, <1>4, <1>5, <1>6 DEF TypeOK

\* A call goes on from one part to the next.
LEMMA GotoEffect ==
  ASSUME TypeOK, NEW t \in Busy, pc[t] # "free",
         NEW l \in {"launch", "send", "pull"}, Goto(t, l), UNCHANGED scope
  PROVE  /\ Busy' = Busy
         /\ pc' \in [Threads -> {"idle", "push", "fetch", "launch", "send",
                                  "pull", "free", "spins", "stuck"}]
         /\ pc'[t] = l /\ \A u \in Busy : u # t => pc'[u] = pc[u]
         /\ \A u \in Busy : About(u)' = About(u)
         /\ \A u \in Busy : pc'[u] = "free" <=> pc[u] = "free"
  <1>1. pc' = [pc EXCEPT ![t] = l] /\ t \in Threads
    BY DEF Goto, Busy
  <1>2. Busy' = Busy
    BY <1>1 DEF TypeOK, Busy
  <1>3. pc'[t] = l /\ \A u \in Busy : u # t => pc'[u] = pc[u]
    BY <1>1 DEF TypeOK, Busy
  <1>4. \A u \in Busy : pc'[u] = "free" <=> pc[u] = "free"
    BY <1>3
  <1>5. QED
    BY <1>1, <1>2, <1>3, <1>4 DEF About, Within, TypeOK

\* A call begins.
LEMMA BeginEffect ==
  ASSUME TypeOK, NEW t \in Threads, pc[t] = "idle", NEW s \in Regions \cup {All},
         NEW l \in {"push", "fetch", "free"}, Goto(t, l),
         scope' = [scope EXCEPT ![t] = s]
  PROVE  /\ Busy' = Busy \cup {t} /\ t \notin Busy
         /\ pc' \in [Threads -> {"idle", "push", "fetch", "launch", "send",
                                  "pull", "free", "spins", "stuck"}]
         /\ scope' \in [Threads -> Regions \cup {All}]
         /\ pc'[t] = l /\ scope'[t] = s
         /\ About(t)' = IF l = "free" THEN Regions ELSE Within(s)
         /\ \A u \in Busy : pc'[u] = pc[u] /\ scope'[u] = scope[u]
         /\ \A u \in Busy : About(u)' = About(u)
  <1>1. pc' = [pc EXCEPT ![t] = l]
    BY DEF Goto
  <1>2. Busy' = Busy \cup {t} /\ t \notin Busy
    BY <1>1 DEF TypeOK, Busy
  <1>3. pc'[t] = l /\ scope'[t] = s
    BY <1>1 DEF TypeOK
  <1>4. \A u \in Busy : pc'[u] = pc[u] /\ scope'[u] = scope[u]
    BY <1>1, <1>2 DEF TypeOK, Busy
  <1>5. QED
    BY <1>1, <1>2, <1>3, <1>4 DEF About, Within, TypeOK

LEMMA SameCalls ==
  ASSUME UNCHANGED <<pc, scope>>
  PROVE  Busy' = Busy /\ \A u \in Busy : About(u)' = About(u)
  BY DEF Busy, About, Within

\* The loop of a call passes the entries in the order of their addresses, and
\* passes each region that is managed.
LEMMA NoneSkipped ==
  ASSUME TypeOK, EntryInv, NEW t \in Threads, NEW e \in Lowest(Rest(t)),
         NEW d \in unified_devices, scope[t] \in {All, d}, Base[d] < Base[e] + 1
  PROVE  d = e \/ Base[d] < at[t]
  <1>1. /\ e \in unified_devices /\ Base[e] \in Nat /\ Base[d] \in Nat
        /\ at[t] \in Nat
    BY OwnExtent DEF Lowest, Rest, TypeOK
  <1>2. CASE at[t] <= Base[d]
    <2>1. d \in Rest(t)
      BY <1>2 DEF Rest
    <2>2. Base[e] <= Base[d]
      BY <2>1 DEF Lowest
    <2>3. QED
      BY <1>1, <2>2 DEF EntryInv
  <1>3. QED
    BY <1>1, <1>2

LEMMA AboutScope ==
  ASSUME NEW t \in Threads, pc[t] # "free", NEW q \in About(t)
  PROVE  scope[t] \in {All, q}
  BY DEF About, Within

\* A copy does not reach a managed region that the call is not about.
LEMMA OthersNotReached ==
  ASSUME TypeOK, AllocInv, ScopeInv, NEW t \in Busy, pc[t] # "free",
         NEW e \in Rest(t), NEW q \in managed \ About(t)
  PROVE  q # e /\ q \notin Reached(e)
  <1>1. scope[t] # All /\ scope[t] = e
    BY DEF About, Within, Rest, TypeOK
  <1>2. e \in managed
    BY <1>1 DEF ScopeInv
  <1>3. q # e
    BY <1>1 DEF About, Within
  <1>4. Extent(e) \cap Extent(q) = {}
    BY <1>2, <1>3 DEF AllocInv, Allocated
  <1>5. Base[e] \in Extent(e)
    BY <1>2, OwnExtent DEF TypeOK
  <1>6. QED
    BY <1>3, <1>4, <1>5 DEF Reached

\* A region that one call is about and that is intact is no other call's.
LEMMA OnlyCall ==
  ASSUME SoloInv, NEW t \in Busy, NEW u \in Busy, u # t,
         NEW q \in Intact \cap About(u)
  PROVE  q \notin About(t)
  BY DEF SoloInv, Intact

\* Types are preserved.
LEMMA TypeStep == IInv /\ [Next]_vars => TypeOK'
  <1> SUFFICES ASSUME TypeOK, [Next]_vars
               PROVE  TypeOK'
    BY DEF IInv
  <1> USE ConstantsAssumption
  <1>1. ASSUME NEW t \in Threads, NEW r \in Regions, MallocManaged(t, r)
       PROVE TypeOK'
    <2>1. at' \in [Threads -> Nat] /\ up' \in BOOLEAN
      <3>1. CASE UNCHANGED at /\ up' = FALSE
        BY <3>1 DEF TypeOK
      <3>2. CASE \E to \in {Base[q] : q \in Regions} :
                   /\ at' = [u \in Threads |->
                               IF u \in Iterating /\ at[u] < to THEN to
                               ELSE at[u]]
                   /\ UNCHANGED up
        <4>1. PICK to \in {Base[q] : q \in Regions} :
                at' = [u \in Threads |->
                         IF u \in Iterating /\ at[u] < to THEN to ELSE at[u]]
          BY <3>2
        <4>2. to \in Nat
          OBVIOUS
        <4>3. QED
          BY <3>2, <4>1, <4>2 DEF TypeOK
      <3>3. QED
        BY <1>1, <3>1, <3>2, Zenon DEF MallocManaged
    <2>2. r \in Regions /\ pc' = pc /\ scope' = scope
      BY <1>1 DEF MallocManaged
    <2>3. untouched' \in BOOLEAN /\ strayed' \in BOOLEAN
      BY <1>1, Zenon DEF MallocManaged, TypeOK
    <2>4. allocations' \in Nat
      BY <1>1 DEF MallocManaged, TypeOK
    <2>5. /\ managed' \subseteq Regions /\ plain' \subseteq Regions
          /\ unified_devices' \subseteq Regions /\ mapped' \subseteq Nat
          /\ current_host' \subseteq managed'
          /\ current_dev' \subseteq managed' \cup plain'
          /\ written' \subseteq Regions /\ harmed' \subseteq Regions
          /\ overlapped' \subseteq Regions
      BY <1>1 DEF MallocManaged, TypeOK, Allocated, WithEntry, NotesOverlap
    <2>6. broken' = broken /\ failed' = failed /\ freed' = freed
      BY <1>1 DEF MallocManaged
    <2>7. QED
      BY <2>1, <2>2, <2>3, <2>4, <2>5, <2>6 DEF TypeOK, Allocated
  <1>2. ASSUME NEW t \in Threads, NEW r \in Regions, Malloc(t, r) PROVE
       TypeOK'
    BY <1>2 DEF TypeOK, Allocated, Malloc, Runs, Free, NotesOverlap,
         threadVars
  <1>3. ASSUME NEW t \in Threads, NEW r \in Regions, NEW a \in Extent(r),
       Touch(t, r, a) PROVE TypeOK'
    BY <1>3, TouchEffect DEF TypeOK, Allocated, Touch
  <1>4. ASSUME NEW t \in Threads, NEW r \in Regions, Write(t, r) PROVE
       TypeOK'
    BY <1>4 DEF TypeOK, Allocated, Write, Runs, NotesOverlap, threadVars
  <1>5. ASSUME NEW t \in Threads, NEW r \in Regions, StartFree(t, r) PROVE
       TypeOK'
    BY <1>5 DEF TypeOK, Allocated, StartFree, Runs, Goto, NotesOverlap
  <1>6. ASSUME NEW t \in Threads, FinishFree(t) PROVE TypeOK'
    BY <1>6 DEF TypeOK, Allocated, FinishFree, Leave, Goto, historyVars
  <1>7. ASSUME NEW t \in Threads, NEW s, NEW l, MayCall(s, l), StartCall(t,
       s, l) PROVE TypeOK'
    <2>1. s \in Regions \cup {All} /\ l \in {"push", "fetch"}
      BY <1>7 DEF MayCall, TypeOK
    <2>2. /\ scope' \in [Threads -> Regions \cup {All}]
          /\ at' \in [Threads -> Nat]
      BY <1>7, <2>1 DEF StartCall, TypeOK
    <2>3. pc' \in [Threads -> {"idle", "push", "fetch", "launch", "send",
                                "pull", "free", "spins", "stuck"}]
      BY <1>7, <2>1 DEF StartCall, Goto, TypeOK
    <2>4. untouched' \in BOOLEAN
      BY <1>7, Zenon DEF StartCall, TypeOK
    <2>5. overlapped' \subseteq Regions
      BY <1>7, <2>1 DEF StartCall, NotesOverlap, Within, TypeOK
    <2>6. UNCHANGED <<memoryVars, up, broken, failed, written, harmed, freed,
                      allocations, strayed>>
      BY <1>7 DEF StartCall
    <2>7. QED
      BY <2>2, <2>3, <2>4, <2>5, <2>6 DEF TypeOK, Allocated, memoryVars
  <1>8. ASSUME NEW t \in Threads, Push(t) PROVE TypeOK'
    <2>1. PICK e \in Lowest(Rest(t)) :
            /\ current_dev' = Copied(e, current_host, current_dev)
            /\ at' = [at EXCEPT ![t] = Base[e] + 1]
      BY <1>8 DEF Push
    <2>2. e \in Regions
      BY DEF Lowest, Rest, TypeOK
    <2>3. at' \in [Threads -> Nat]
      BY <2>1, <2>2 DEF TypeOK
    <2>4. Copied(e, current_host, current_dev) \subseteq current_dev \cup (managed \cap current_host)
      BY DEF Copied
    <2>5. QED
      BY <1>8, <2>1, <2>3, <2>4 DEF TypeOK, Allocated, Push, historyVars
  <1>9. ASSUME NEW t \in Threads, Pull(t) PROVE TypeOK'
    <2>1. PICK e \in Lowest(Rest(t)) :
            /\ current_host' = Copied(e, current_dev, current_host)
            /\ at' = [at EXCEPT ![t] = Base[e] + 1]
      BY <1>9 DEF Pull
    <2>2. e \in Regions
      BY DEF Lowest, Rest, TypeOK
    <2>3. at' \in [Threads -> Nat]
      BY <2>1, <2>2 DEF TypeOK
    <2>4. Copied(e, current_dev, current_host) \subseteq current_host \cup (managed \cap current_dev)
      BY DEF Copied
    <2>5. QED
      BY <1>9, <2>1, <2>3, <2>4 DEF TypeOK, Allocated, Pull
  <1>10. ASSUME NEW t \in Threads, CopyFails(t) PROVE TypeOK'
    <2>1. PICK l \in {"idle", "stuck"} : Leave(t, l)
      BY <1>10, FailLeaves
    <2>2. QED
      BY <1>10, <2>1, LeaveEffect DEF TypeOK, Allocated, CopyFails, memoryVars,
           historyVars
  <1>11. ASSUME NEW t \in Threads, EndLoop(t) PROVE TypeOK'
    BY <1>11 DEF TypeOK, Allocated, EndLoop, Leave, Goto, memoryVars,
         historyVars
  <1>12. ASSUME NEW t \in Threads, NEW W \in SUBSET Allocated, Execute(t, W)
       PROVE TypeOK'
    BY <1>12 DEF TypeOK, Allocated, Execute, Goto, historyVars
  <1>13. ASSUME NEW t \in Threads, Send(t) PROVE TypeOK'
    BY <1>13 DEF TypeOK, Allocated, Send, Goto, memoryVars, historyVars
  <1>14. CASE UNCHANGED vars
    BY <1>14 DEF vars, memoryVars, threadVars, historyVars, TypeOK, Allocated
  <1>15. QED
    BY <1>1, <1>2, <1>3, <1>4, <1>5, <1>6, <1>7, <1>8, <1>9, <1>10, <1>11,
         <1>12, <1>13, <1>14 DEF Next, Program, Progress, LaunchKernel,
         CallWithArray, CallWithNullable, MayCall

\* Allocated memory stays disjoint.
LEMMA AllocStep == IInv /\ [Next]_vars => AllocInv'
  <1> SUFFICES ASSUME TypeOK, AllocInv, [Next]_vars
               PROVE  AllocInv'
    BY DEF IInv
  <1> USE ConstantsAssumption
  <1>1. ASSUME NEW t \in Threads, NEW r \in Regions, MallocManaged(t, r)
       PROVE AllocInv'
    <2>1. UNCHANGED <<pc, scope>>
      BY <1>1 DEF MallocManaged, threadVars
    <2>2. QED
      BY <1>1, <2>1, SameCalls, FreeIsNew DEF AllocInv, Allocated,
           MallocManaged, Runs, WithEntry, NotesOverlap
  <1>2. ASSUME NEW t \in Threads, NEW r \in Regions, Malloc(t, r) PROVE
       AllocInv'
    <2>1. UNCHANGED <<pc, scope>>
      BY <1>2 DEF Malloc, threadVars
    <2>2. QED
      BY <1>2, <2>1, SameCalls, FreeIsNew DEF AllocInv, Allocated, Malloc,
           Runs, NotesOverlap, threadVars
  <1>3. ASSUME NEW t \in Threads, NEW r \in Regions, NEW a \in Extent(r),
       Touch(t, r, a) PROVE AllocInv'
    BY <1>3 DEF AllocInv, Allocated, Touch, Runs, Goto
  <1>4. ASSUME NEW t \in Threads, NEW r \in Regions, Write(t, r) PROVE
       AllocInv'
    BY <1>4 DEF AllocInv, Allocated, Write, Runs, NotesOverlap, threadVars
  <1>5. ASSUME NEW t \in Threads, NEW r \in Regions, StartFree(t, r) PROVE
       AllocInv'
    BY <1>5 DEF AllocInv, Allocated, StartFree, Runs, Goto, NotesOverlap
  <1>6. ASSUME NEW t \in Threads, FinishFree(t) PROVE AllocInv'
    BY <1>6 DEF AllocInv, Allocated, FinishFree, Leave, Goto, historyVars
  <1>7. ASSUME NEW t \in Threads, NEW s, NEW l, MayCall(s, l), StartCall(t,
       s, l) PROVE AllocInv'
    BY <1>7 DEF AllocInv, Allocated, StartCall, MayCall, Runs, Goto,
         NotesOverlap, memoryVars
  <1>8. ASSUME NEW t \in Threads, Push(t) PROVE AllocInv'
    BY <1>8 DEF AllocInv, Allocated, Push, historyVars
  <1>9. ASSUME NEW t \in Threads, Pull(t) PROVE AllocInv'
    BY <1>9 DEF AllocInv, Allocated, Pull
  <1>10. ASSUME NEW t \in Threads, CopyFails(t) PROVE AllocInv'
    BY <1>10 DEF AllocInv, Allocated, CopyFails, Leave, Goto, memoryVars,
         historyVars
  <1>11. ASSUME NEW t \in Threads, EndLoop(t) PROVE AllocInv'
    BY <1>11 DEF AllocInv, Allocated, EndLoop, Leave, Goto, memoryVars,
         historyVars
  <1>12. ASSUME NEW t \in Threads, NEW W \in SUBSET Allocated, Execute(t, W)
       PROVE AllocInv'
    BY <1>12 DEF AllocInv, Allocated, Execute, Goto, historyVars
  <1>13. ASSUME NEW t \in Threads, Send(t) PROVE AllocInv'
    BY <1>13 DEF AllocInv, Allocated, Send, Goto, memoryVars, historyVars
  <1>14. CASE UNCHANGED vars
    BY <1>14 DEF vars, memoryVars, threadVars, historyVars, AllocInv,
         Allocated
  <1>15. QED
    BY <1>1, <1>2, <1>3, <1>4, <1>5, <1>6, <1>7, <1>8, <1>9, <1>10, <1>11,
         <1>12, <1>13, <1>14 DEF Next, Program, Progress, LaunchKernel,
         CallWithArray, CallWithNullable, MayCall

\* Every managed region keeps its entry.
LEMMA EntryStep == IInv /\ [Next]_vars => EntryInv'
  <1> SUFFICES ASSUME TypeOK, AllocInv, EntryInv, [Next]_vars
               PROVE  EntryInv'
    BY DEF IInv
  <1> USE ConstantsAssumption
  <1>1. ASSUME NEW t \in Threads, NEW r \in Regions, MallocManaged(t, r)
       PROVE EntryInv'
    <2>1. r \in Free
      BY <1>1 DEF MallocManaged
    <2>2. /\ managed' = managed \cup {r}
          /\ unified_devices' = {e \in unified_devices : Base[e] # Base[r]}
                                  \cup {r}
      BY <1>1 DEF MallocManaged, WithEntry
    <2>3. \A q \in managed : Base[q] # Base[r]
      BY <2>1, FreeIsNew DEF Allocated
    <2>4. QED
      BY <2>2, <2>3 DEF EntryInv
  <1>2. ASSUME NEW t \in Threads, NEW r \in Regions, Malloc(t, r) PROVE
       EntryInv'
    BY <1>2 DEF EntryInv, Malloc, Runs, Free, NotesOverlap, threadVars
  <1>3. ASSUME NEW t \in Threads, NEW r \in Regions, NEW a \in Extent(r),
       Touch(t, r, a) PROVE EntryInv'
    BY <1>3 DEF EntryInv, Touch, Runs, Goto
  <1>4. ASSUME NEW t \in Threads, NEW r \in Regions, Write(t, r) PROVE
       EntryInv'
    BY <1>4 DEF EntryInv, Write, Runs, NotesOverlap, threadVars
  <1>5. ASSUME NEW t \in Threads, NEW r \in Regions, StartFree(t, r) PROVE
       EntryInv'
    BY <1>5 DEF EntryInv, StartFree, Runs, Goto, NotesOverlap
  <1>6. ASSUME NEW t \in Threads, FinishFree(t) PROVE EntryInv'
    BY <1>6 DEF EntryInv, FinishFree, Leave, Goto, historyVars
  <1>7. ASSUME NEW t \in Threads, NEW s, NEW l, MayCall(s, l), StartCall(t,
       s, l) PROVE EntryInv'
    BY <1>7 DEF EntryInv, StartCall, MayCall, Runs, Goto, NotesOverlap,
         memoryVars
  <1>8. ASSUME NEW t \in Threads, Push(t) PROVE EntryInv'
    BY <1>8 DEF EntryInv, Push, historyVars
  <1>9. ASSUME NEW t \in Threads, Pull(t) PROVE EntryInv'
    BY <1>9 DEF EntryInv, Pull
  <1>10. ASSUME NEW t \in Threads, CopyFails(t) PROVE EntryInv'
    BY <1>10 DEF EntryInv, CopyFails, Leave, Goto, memoryVars, historyVars
  <1>11. ASSUME NEW t \in Threads, EndLoop(t) PROVE EntryInv'
    BY <1>11 DEF EntryInv, EndLoop, Leave, Goto, memoryVars, historyVars
  <1>12. ASSUME NEW t \in Threads, NEW W \in SUBSET Allocated, Execute(t, W)
       PROVE EntryInv'
    BY <1>12 DEF EntryInv, Execute, Goto, historyVars
  <1>13. ASSUME NEW t \in Threads, Send(t) PROVE EntryInv'
    BY <1>13 DEF EntryInv, Send, Goto, memoryVars, historyVars
  <1>14. CASE UNCHANGED vars
    BY <1>14 DEF vars, memoryVars, threadVars, historyVars, EntryInv
  <1>15. QED
    BY <1>1, <1>2, <1>3, <1>4, <1>5, <1>6, <1>7, <1>8, <1>9, <1>10, <1>11,
         <1>12, <1>13, <1>14 DEF Next, Program, Progress, LaunchKernel,
         CallWithArray, CallWithNullable, MayCall

\* The arguments of the calls under way stay allocated.
LEMMA ScopeStep == IInv /\ [Next]_vars => ScopeInv'
  <1> SUFFICES ASSUME TypeOK, ScopeInv, [Next]_vars
               PROVE  ScopeInv'
    BY DEF IInv
  <1> USE ConstantsAssumption
  <1>1. ASSUME NEW t \in Threads, NEW r \in Regions, MallocManaged(t, r)
       PROVE ScopeInv'
    BY <1>1 DEF ScopeInv, Busy, Allocated, MallocManaged, Runs, WithEntry,
         NotesOverlap, Free
  <1>2. ASSUME NEW t \in Threads, NEW r \in Regions, Malloc(t, r) PROVE
       ScopeInv'
    BY <1>2 DEF ScopeInv, Busy, Allocated, Malloc, Runs, Free, NotesOverlap,
         threadVars
  <1>3. ASSUME NEW t \in Threads, NEW r \in Regions, NEW a \in Extent(r),
       Touch(t, r, a) PROVE ScopeInv'
    BY <1>3, TouchEffect DEF ScopeInv, Allocated, Touch
  <1>4. ASSUME NEW t \in Threads, NEW r \in Regions, Write(t, r) PROVE
       ScopeInv'
    BY <1>4 DEF ScopeInv, Busy, Allocated, Write, Runs, NotesOverlap,
         threadVars
  <1>5. ASSUME NEW t \in Threads, NEW r \in Regions, StartFree(t, r) PROVE
       ScopeInv'
    <2>1. /\ pc[t] = "idle" /\ Goto(t, "free")
          /\ scope' = [scope EXCEPT ![t] = r]
          /\ UNCHANGED <<managed, plain>>
      BY <1>5 DEF StartFree, Runs
    <2>2. r \in Allocated /\ \A u \in Busy : scope[u] # r
      BY <1>5 DEF StartFree
    <2>3. /\ Busy' = Busy \cup {t} /\ t \notin Busy
          /\ pc'[t] = "free" /\ scope'[t] = r
          /\ \A u \in Busy : pc'[u] = pc[u] /\ scope'[u] = scope[u]
      BY <2>1, BeginEffect
    <2>4. QED
      BY <2>1, <2>2, <2>3 DEF ScopeInv, Allocated
  <1>6. ASSUME NEW t \in Threads, FinishFree(t) PROVE ScopeInv'
    <2>1. /\ Leave(t, "idle") /\ t \in Busy /\ pc[t] = "free"
          /\ managed' = managed \ {scope[t]} /\ plain' = plain \ {scope[t]}
      BY <1>6 DEF FinishFree, Busy
    <2>2. /\ Busy' = Busy \ {t}
          /\ \A u \in Busy' : pc'[u] = pc[u] /\ scope'[u] = scope[u]
      BY <2>1, LeaveEffect
    <2>3. \A u \in Busy' : scope[u] # scope[t]
      BY <2>1, <2>2 DEF ScopeInv
    <2>4. QED
      BY <2>1, <2>2, <2>3 DEF ScopeInv, Allocated
  <1>7. ASSUME NEW t \in Threads, NEW s, NEW l, MayCall(s, l), StartCall(t,
       s, l) PROVE ScopeInv'
    <2>1. /\ s \in Regions \cup {All} /\ l \in {"push", "fetch"}
          /\ s # All => s \in managed \ Freeing
          /\ l = "fetch" => s # All
      BY <1>7, ConstantsAssumption DEF MayCall, TypeOK
    <2>2. /\ pc[t] = "idle" /\ Goto(t, l)
          /\ scope' = [scope EXCEPT ![t] = s]
          /\ UNCHANGED <<managed, plain>>
      BY <1>7 DEF StartCall, Runs, memoryVars
    <2>3. /\ Busy' = Busy \cup {t} /\ t \notin Busy
          /\ pc'[t] = l /\ scope'[t] = s
          /\ \A u \in Busy : pc'[u] = pc[u] /\ scope'[u] = scope[u]
      BY <2>1, <2>2, BeginEffect
    <2>4. \A u \in Busy : pc[u] = "free" => scope[u] \in Freeing
      BY DEF Freeing, Busy
    <2>5. \A u \in Busy : pc[u] = "free" => scope[u] \in Regions
      BY DEF ScopeInv, Allocated, TypeOK
    <2>6. QED
      BY <2>1, <2>2, <2>3, <2>4, <2>5 DEF ScopeInv, Allocated
  <1>8. ASSUME NEW t \in Threads, Push(t) PROVE ScopeInv'
    BY <1>8 DEF ScopeInv, Busy, Allocated, Push, historyVars
  <1>9. ASSUME NEW t \in Threads, Pull(t) PROVE ScopeInv'
    BY <1>9 DEF ScopeInv, Busy, Allocated, Pull
  <1>10. ASSUME NEW t \in Threads, CopyFails(t) PROVE ScopeInv'
    <2>1. PICK l \in {"idle", "stuck"} : Leave(t, l)
      BY <1>10, FailLeaves
    <2>2. QED
      BY <1>10, <2>1, LeaveEffect DEF ScopeInv, Allocated, CopyFails,
           memoryVars, historyVars
  <1>11. ASSUME NEW t \in Threads, EndLoop(t) PROVE ScopeInv'
    <2>1. CASE pc[t] = "pull"
      <3>1. Leave(t, "idle")
        BY <1>11, <2>1 DEF EndLoop
      <3>2. QED
        BY <1>11, <3>1, <2>1, LeaveEffect DEF ScopeInv, Allocated, EndLoop,
             memoryVars, historyVars
    <2>2. CASE pc[t] \in {"push", "fetch"}
      <3>1. PICK l \in {"launch", "send"} : Goto(t, l) /\ UNCHANGED <<scope, at>>
        BY <1>11, <2>2 DEF EndLoop
      <3>2. t \in Busy
        BY <2>2 DEF Busy
      <3>3. QED
        BY <1>11, <3>1, <3>2, <2>2, GotoEffect DEF ScopeInv, Allocated, EndLoop,
             memoryVars, historyVars
    <2>3. QED
      BY <1>11, <2>1, <2>2 DEF EndLoop, Iterating
  <1>12. ASSUME NEW t \in Threads, NEW W \in SUBSET Allocated, Execute(t, W)
       PROVE ScopeInv'
    BY <1>12 DEF ScopeInv, Busy, Allocated, Execute, Goto, historyVars
  <1>13. ASSUME NEW t \in Threads, Send(t) PROVE ScopeInv'
    BY <1>13 DEF ScopeInv, Busy, Allocated, Send, Goto, memoryVars,
         historyVars
  <1>14. CASE UNCHANGED vars
    BY <1>14 DEF vars, memoryVars, threadVars, historyVars, ScopeInv, Busy,
         Allocated
  <1>15. QED
    BY <1>1, <1>2, <1>3, <1>4, <1>5, <1>6, <1>7, <1>8, <1>9, <1>10, <1>11,
         <1>12, <1>13, <1>14 DEF Next, Program, Progress, LaunchKernel,
         CallWithArray, CallWithNullable, MayCall

\* No overlap of calls goes unnoticed.
LEMMA SoloStep == IInv /\ [Next]_vars => SoloInv'
  <1> SUFFICES ASSUME TypeOK, SoloInv, [Next]_vars
               PROVE  SoloInv'
    BY DEF IInv
  <1> USE ConstantsAssumption
  <1>1. ASSUME NEW t \in Threads, NEW r \in Regions, MallocManaged(t, r)
       PROVE SoloInv'
    BY <1>1 DEF SoloInv, Busy, About, Within, MallocManaged, Runs, WithEntry,
         NotesOverlap, Free
  <1>2. ASSUME NEW t \in Threads, NEW r \in Regions, Malloc(t, r) PROVE
       SoloInv'
    BY <1>2 DEF SoloInv, Busy, About, Within, Malloc, Runs, Free,
         NotesOverlap, threadVars
  <1>3. ASSUME NEW t \in Threads, NEW r \in Regions, NEW a \in Extent(r),
       Touch(t, r, a) PROVE SoloInv'
    BY <1>3, TouchEffect DEF SoloInv, Touch
  <1>4. ASSUME NEW t \in Threads, NEW r \in Regions, Write(t, r) PROVE
       SoloInv'
    BY <1>4 DEF SoloInv, Busy, About, Within, Write, Runs, NotesOverlap,
         threadVars
  <1>5. ASSUME NEW t \in Threads, NEW r \in Regions, StartFree(t, r) PROVE
       SoloInv'
    BY <1>5 DEF SoloInv, Busy, About, Within, StartFree, Runs, Goto,
         NotesOverlap
  <1>6. ASSUME NEW t \in Threads, FinishFree(t) PROVE SoloInv'
    BY <1>6 DEF SoloInv, Busy, About, Within, FinishFree, Leave, Goto,
         historyVars
  <1>7. ASSUME NEW t \in Threads, NEW s, NEW l, MayCall(s, l), StartCall(t,
       s, l) PROVE SoloInv'
    <2>1. s \in Regions \cup {All} /\ l \in {"push", "fetch"}
      BY <1>7 DEF MayCall, TypeOK
    <2>2. /\ pc[t] = "idle" /\ Goto(t, l)
          /\ scope' = [scope EXCEPT ![t] = s]
          /\ overlapped' = overlapped \cup
                             (Within(s) \cap UNION {About(u) : u \in Busy})
      BY <1>7 DEF StartCall, Runs, NotesOverlap
    <2>3. /\ Busy' = Busy \cup {t} /\ t \notin Busy /\ About(t)' = Within(s)
          /\ \A u \in Busy : About(u)' = About(u)
      BY <2>1, <2>2, BeginEffect
    <2>4. QED
      BY <2>2, <2>3 DEF SoloInv
  <1>8. ASSUME NEW t \in Threads, Push(t) PROVE SoloInv'
    BY <1>8 DEF SoloInv, Busy, About, Within, Push, historyVars
  <1>9. ASSUME NEW t \in Threads, Pull(t) PROVE SoloInv'
    BY <1>9 DEF SoloInv, Busy, About, Within, Pull
  <1>10. ASSUME NEW t \in Threads, CopyFails(t) PROVE SoloInv'
    <2>1. PICK l \in {"idle", "stuck"} : Leave(t, l)
      BY <1>10, FailLeaves
    <2>2. QED
      BY <1>10, <2>1, LeaveEffect DEF SoloInv, CopyFails, memoryVars,
           historyVars
  <1>11. ASSUME NEW t \in Threads, EndLoop(t) PROVE SoloInv'
    <2>1. CASE pc[t] = "pull"
      <3>1. Leave(t, "idle")
        BY <1>11, <2>1 DEF EndLoop
      <3>2. QED
        BY <1>11, <3>1, <2>1, LeaveEffect DEF SoloInv, EndLoop, memoryVars,
             historyVars
    <2>2. CASE pc[t] \in {"push", "fetch"}
      <3>1. PICK l \in {"launch", "send"} : Goto(t, l) /\ UNCHANGED <<scope, at>>
        BY <1>11, <2>2 DEF EndLoop
      <3>2. t \in Busy
        BY <2>2 DEF Busy
      <3>3. QED
        BY <1>11, <3>1, <3>2, <2>2, GotoEffect DEF SoloInv, EndLoop, memoryVars,
             historyVars
    <2>3. QED
      BY <1>11, <2>1, <2>2 DEF EndLoop, Iterating
  <1>12. ASSUME NEW t \in Threads, NEW W \in SUBSET Allocated, Execute(t, W)
       PROVE SoloInv'
    BY <1>12 DEF SoloInv, Busy, About, Within, Execute, Goto, historyVars
  <1>13. ASSUME NEW t \in Threads, Send(t) PROVE SoloInv'
    BY <1>13 DEF SoloInv, Busy, About, Within, Send, Goto, memoryVars,
         historyVars
  <1>14. CASE UNCHANGED vars
    BY <1>14 DEF vars, memoryVars, threadVars, historyVars, SoloInv, Busy,
         About, Within
  <1>15. QED
    BY <1>1, <1>2, <1>3, <1>4, <1>5, <1>6, <1>7, <1>8, <1>9, <1>10, <1>11,
         <1>12, <1>13, <1>14 DEF Next, Program, Progress, LaunchKernel,
         CallWithArray, CallWithNullable, MayCall

\* Where the latest copy of an intact region is in the course of a call: the
\* host's until the device has it, the device's until the host has it back.
LEMMA PhaseStep == IInv /\ [Next]_vars => PhaseInv'
  <1> SUFFICES ASSUME TypeOK, AllocInv, EntryInv, ScopeInv, SoloInv,
       PhaseInv, Coherent, [Next]_vars
               PROVE  PhaseInv'
    BY DEF IInv
  <1> USE ConstantsAssumption
  <1>1. ASSUME NEW t \in Threads, NEW r \in Regions, MallocManaged(t, r)
       PROVE PhaseInv'
    <2>1. UNCHANGED <<pc, scope>>
      BY <1>1 DEF MallocManaged
    <2>2. Busy' = Busy /\ \A u \in Busy : About(u)' = About(u)
      BY <2>1, SameCalls
    <2>3. overlapped' = overlapped \cup
                          (Regions \cap UNION {About(u) : u \in Busy})
      BY <1>1 DEF MallocManaged, NotesOverlap
    <2>4. managed' \subseteq Regions
      BY <1>1 DEF MallocManaged, TypeOK
    <2>5. QED
      BY <2>2, <2>3, <2>4 DEF PhaseInv, Intact
  <1>2. ASSUME NEW t \in Threads, NEW r \in Regions, Malloc(t, r) PROVE
       PhaseInv'
    BY <1>2 DEF PhaseInv, Busy, About, Within, Intact, Sees, Malloc, Runs,
         Free, NotesOverlap, threadVars
  <1>3. ASSUME NEW t \in Threads, NEW r \in Regions, NEW a \in Extent(r),
       Touch(t, r, a) PROVE PhaseInv'
    BY <1>3, TouchEffect DEF PhaseInv, Intact, Sees, Touch
  <1>4. ASSUME NEW t \in Threads, NEW r \in Regions, Write(t, r) PROVE
       PhaseInv'
    BY <1>4 DEF PhaseInv, Busy, About, Within, Intact, Sees, Write, Runs,
         NotesOverlap, threadVars
  <1>5. ASSUME NEW t \in Threads, NEW r \in Regions, StartFree(t, r) PROVE
       PhaseInv'
    <2>1. /\ pc[t] = "idle" /\ Goto(t, "free")
          /\ scope' = [scope EXCEPT ![t] = r] /\ managed' = managed
          /\ overlapped' = overlapped \cup
                             (Regions \cap UNION {About(u) : u \in Busy})
          /\ \E gone \in SUBSET managed :
               /\ current_host' = current_host \ gone
               /\ harmed' = harmed \cup gone
      BY <1>5 DEF StartFree, Runs, NotesOverlap
    <2>2. /\ Busy' = Busy \cup {t} /\ t \notin Busy /\ pc'[t] = "free"
          /\ About(t)' = Regions
          /\ \A u \in Busy : About(u)' = About(u)
      BY <2>1, BeginEffect
    <2>3. managed \subseteq Regions
      BY DEF TypeOK
    <2>4. \A q \in Intact' : q \notin UNION {About(u) : u \in Busy}
      BY <2>1, <2>3 DEF Intact
    <2>5. \A q \in Intact' : q \in current_host'
      BY <2>1, <2>4 DEF Intact, Coherent
    <2>6. \A u \in Busy : Intact' \cap About(u)' = {}
      BY <2>2, <2>4
    <2>7. \A q \in Intact' : Sees(t, q)'
      BY <2>2, <2>5 DEF Sees
    <2>8. QED
      BY <2>2, <2>6, <2>7 DEF PhaseInv
  <1>6. ASSUME NEW t \in Threads, FinishFree(t) PROVE PhaseInv'
    BY <1>6 DEF PhaseInv, Busy, About, Within, Intact, Sees, FinishFree,
         Leave, Goto, historyVars
  <1>7. ASSUME NEW t \in Threads, NEW s, NEW l, MayCall(s, l), StartCall(t,
       s, l) PROVE PhaseInv'
    <2>1. s \in Regions \cup {All} /\ l \in {"push", "fetch"}
      BY <1>7 DEF MayCall, TypeOK
    <2>2. /\ pc[t] = "idle" /\ Goto(t, l)
          /\ scope' = [scope EXCEPT ![t] = s]
          /\ at' = [at EXCEPT ![t] = 0]
          /\ overlapped' = overlapped \cup
                             (Within(s) \cap UNION {About(u) : u \in Busy})
          /\ UNCHANGED <<managed, current_host, current_dev, harmed>>
      BY <1>7 DEF StartCall, Runs, NotesOverlap, memoryVars
    <2>3. /\ Busy' = Busy \cup {t} /\ t \notin Busy
          /\ pc'[t] = l /\ About(t)' = Within(s)
          /\ \A u \in Busy : pc'[u] = pc[u] /\ scope'[u] = scope[u]
          /\ \A u \in Busy : About(u)' = About(u)
      BY <2>1, <2>2, BeginEffect
    <2>4. at'[t] = 0 /\ \A u \in Busy : at'[u] = at[u]
      BY <2>2, <2>3 DEF TypeOK
    <2>5. \A q \in Intact' \cap Within(s) :
            q \in Regions /\ q \in current_host'
      BY <2>2 DEF Intact, Coherent, TypeOK
    <2>6. \A q \in Intact' \cap Within(s) : Sees(t, q)'
      BY <2>1, <2>3, <2>4, <2>5, OwnExtent DEF Sees
    <2>7. Intact' \subseteq Intact
      BY <2>2 DEF Intact
    <2>8. \A u \in Busy : \A q \in Intact \cap About(u) : Sees(u, q)'
      BY <2>2, <2>3, <2>4 DEF PhaseInv, Sees
    <2>9. QED
      BY <2>3, <2>6, <2>7, <2>8 DEF PhaseInv
  <1>8. ASSUME NEW t \in Threads, Push(t) PROVE PhaseInv'
    <2>1. /\ t \in Busy /\ t \in Iterating /\ pc[t] = "push"
          /\ UNCHANGED <<managed, harmed, overlapped, current_host, pc, scope>>
      BY <1>8 DEF Push, Busy, Iterating, historyVars
    <2>2. PICK e \in Lowest(Rest(t)) :
            /\ current_dev' = Copied(e, current_host, current_dev)
            /\ at' = [at EXCEPT ![t] = Base[e] + 1]
      BY <1>8 DEF Push
    <2>3. Busy' = Busy /\ \A u \in Busy : About(u)' = About(u)
      BY <2>1, SameCalls
    <2>4. at'[t] = Base[e] + 1 /\ \A u \in Busy : u # t => at'[u] = at[u]
      BY <2>2 DEF TypeOK, Busy
    <2>5. e \in Rest(t)
      BY DEF Lowest
    <2>6. ASSUME NEW u \in Busy, u # t, NEW q \in Intact \cap About(u)
          PROVE  Sees(u, q)'
      <3>1. q \in managed \ About(t)
        BY <2>1, <2>6, OnlyCall DEF Intact
      <3>2. q \notin Reached(e)
        BY <2>1, <2>5, <3>1, OthersNotReached
      <3>3. q \in current_dev => q \in current_dev'
        BY <2>2, <3>2 DEF Copied
      <3>4. Sees(u, q)
        BY DEF PhaseInv
      <3>5. QED
        BY <2>1, <2>4, <2>6, <3>3, <3>4 DEF Sees
    <2>7. ASSUME NEW q \in Intact \cap About(t)
          PROVE  Sees(t, q)'
      <3>1. q \in current_host /\ (Base[q] < at[t] => q \in current_dev)
        BY <2>1 DEF PhaseInv, Sees
      <3>2. q \in unified_devices /\ q \in managed
        BY DEF Intact, EntryInv
      <3>3. Base[q] < Base[e] + 1 => q = e \/ Base[q] < at[t]
        BY <2>1, <3>2, AboutScope, NoneSkipped
      <3>4. Base[q] < Base[e] + 1 => q \in current_dev'
        BY <2>2, <3>1, <3>2, <3>3 DEF Copied
      <3>5. QED
        BY <2>1, <2>4, <3>1, <3>4 DEF Sees
    <2>8. QED
      BY <2>1, <2>3, <2>6, <2>7 DEF PhaseInv, Intact
  <1>9. ASSUME NEW t \in Threads, Pull(t) PROVE PhaseInv'
    <2>1. /\ t \in Busy /\ pc[t] \in {"fetch", "pull"}
          /\ UNCHANGED <<managed, overlapped, current_dev, pc, scope>>
      BY <1>9 DEF Pull, Busy
    <2>2. PICK e \in Lowest(Rest(t)) :
            /\ current_host' = Copied(e, current_dev, current_host)
            /\ at' = [at EXCEPT ![t] = Base[e] + 1]
      BY <1>9 DEF Pull
    <2>3. Busy' = Busy /\ \A u \in Busy : About(u)' = About(u)
      BY <2>1, SameCalls
    <2>4. at'[t] = Base[e] + 1 /\ \A u \in Busy : u # t => at'[u] = at[u]
      BY <2>2 DEF TypeOK, Busy
    <2>5. e \in Rest(t)
      BY DEF Lowest
    <2>6. /\ Intact' \subseteq Intact
          /\ pc[t] = "fetch" => \A q \in Intact' : q \in current_host
                                                    => q \in current_host'
      BY <1>9, <2>1 DEF Pull, Intact
    <2>7. ASSUME NEW u \in Busy, u # t, NEW q \in Intact \cap About(u)
          PROVE  Sees(u, q)'
      <3>1. q \in managed \ About(t)
        BY <2>1, <2>7, OnlyCall DEF Intact
      <3>2. q \notin Reached(e)
        BY <2>1, <2>5, <3>1, OthersNotReached
      <3>3. q \in current_host => q \in current_host'
        BY <2>2, <3>2 DEF Copied
      <3>4. Sees(u, q)
        BY DEF PhaseInv
      <3>5. QED
        BY <2>1, <2>4, <2>7, <3>3, <3>4 DEF Sees
    <2>8. ASSUME NEW q \in Intact' \cap About(t)
          PROVE  Sees(t, q)'
      <3>1. Sees(t, q)
        BY <2>1, <2>6 DEF PhaseInv
      <3>2. q \in unified_devices /\ q \in managed
        BY <2>6 DEF Intact, EntryInv
      <3>3. Base[q] < Base[e] + 1 => q = e \/ Base[q] < at[t]
        BY <2>1, <3>2, AboutScope, NoneSkipped
      <3>4. CASE pc[t] = "pull"
        <4>1. Base[q] < Base[e] + 1 => q \in current_host'
          BY <2>2, <3>1, <3>2, <3>3, <3>4 DEF Copied, Sees
        <4>2. QED
          BY <2>1, <2>4, <3>1, <3>4, <4>1 DEF Sees
      <3>5. CASE pc[t] = "fetch"
        <4>1. q \in current_host'
          BY <2>6, <3>1, <3>5 DEF Sees
        <4>2. q = e => q \in current_dev
          <5>1. e \in managed => e \in Reached(e)
            BY DEF Reached, Allocated
          <5>2. QED
            BY <2>2, <3>2, <4>1, <5>1 DEF Copied
        <4>3. QED
          BY <2>1, <2>4, <3>1, <3>3, <3>5, <4>1, <4>2 DEF Sees
      <3>6. QED
        BY <2>1, <3>4, <3>5
    <2>9. QED
      BY <2>3, <2>6, <2>7, <2>8 DEF PhaseInv
  <1>10. ASSUME NEW t \in Threads, CopyFails(t) PROVE PhaseInv'
    <2>1. PICK l \in {"idle", "stuck"} : Leave(t, l)
      BY <1>10, FailLeaves
    <2>2. QED
      BY <1>10, <2>1, LeaveEffect DEF PhaseInv, Intact, Sees, CopyFails,
           memoryVars, historyVars
  <1>11. ASSUME NEW t \in Threads, EndLoop(t) PROVE PhaseInv'
    <2>1. /\ Rest(t) = {} /\ t \in Busy /\ t \in Threads
          /\ UNCHANGED <<managed, harmed, overlapped, current_host, current_dev>>
      BY <1>11 DEF EndLoop, Iterating, Busy, memoryVars, historyVars
    <2>2. CASE pc[t] = "pull"
      <3>1. Leave(t, "idle")
        BY <1>11, <2>2 DEF EndLoop
      <3>2. QED
        BY <2>1, <3>1, LeaveEffect DEF PhaseInv, Intact, Sees
    <2>3. CASE pc[t] \in {"push", "fetch"}
      <3>1. PICK l \in {"launch", "send"} :
              Goto(t, l) /\ UNCHANGED <<scope, at>>
        BY <1>11, <2>3 DEF EndLoop
      <3>2. /\ Busy' = Busy /\ pc'[t] = l
            /\ \A u \in Busy : u # t => pc'[u] = pc[u]
            /\ \A u \in Busy : About(u)' = About(u)
        BY <2>1, <2>3, <3>1, GotoEffect
      <3>3. \A q \in Intact \cap About(t) : Base[q] < at[t]
        <4>1. SUFFICES ASSUME NEW q \in Intact \cap About(t)
                       PROVE  Base[q] < at[t]
          OBVIOUS
        <4>2. q \in unified_devices /\ Base[q] \in Nat /\ at[t] \in Nat
          BY <2>1 DEF Intact, EntryInv, TypeOK
        <4>3. scope[t] \in {All, q}
          BY <2>3 DEF About, Within
        <4>4. QED
          BY <2>1, <4>2, <4>3 DEF Rest
      <3>4. \A q \in Intact \cap About(t) : Sees(t, q)'
        BY <2>1, <2>3, <3>1, <3>2, <3>3 DEF PhaseInv, Sees
      <3>5. \A u \in Busy : u # t =>
              \A q \in Intact \cap About(u) : Sees(u, q)'
        BY <2>1, <3>1, <3>2 DEF PhaseInv, Sees
      <3>6. QED
        BY <2>1, <3>2, <3>4, <3>5 DEF PhaseInv, Intact
    <2>4. QED
      BY <1>11, <2>2, <2>3 DEF EndLoop, Iterating
  <1>12. ASSUME NEW t \in Threads, NEW W \in SUBSET Allocated, Execute(t, W)
       PROVE PhaseInv'
    <2>1. /\ t \in Busy /\ pc[t] = "launch" /\ Goto(t, "pull")
          /\ at' = [at EXCEPT ![t] = 0]
          /\ current_dev' = current_dev \cup W
          /\ current_host' = current_host \ W
          /\ UNCHANGED <<managed, harmed, overlapped, scope>>
      BY <1>12 DEF Execute, Busy, historyVars
    <2>2. /\ Busy' = Busy /\ pc'[t] = "pull"
          /\ \A u \in Busy : u # t => pc'[u] = pc[u]
          /\ \A u \in Busy : About(u)' = About(u)
      BY <2>1, GotoEffect
    <2>3. at'[t] = 0 /\ \A u \in Busy : u # t => at'[u] = at[u]
      BY <2>1 DEF TypeOK, Busy
    <2>4. W \subseteq About(t)
      BY <1>12 DEF Execute, About, Within, Allocated, TypeOK
    <2>5. \A u \in Busy : u # t => \A q \in Intact \cap About(u) : q \notin W
      BY <2>1, <2>4 DEF SoloInv, Intact
    <2>6. \A u \in Busy : u # t => \A q \in Intact \cap About(u) : Sees(u, q)'
      BY <2>1, <2>2, <2>3, <2>5 DEF PhaseInv, Sees
    <2>7. \A q \in Intact \cap About(t) : Sees(t, q)'
      <3>1. \A q \in Intact : Base[q] \in Nat
        BY DEF Intact, TypeOK
      <3>2. QED
        BY <2>1, <2>2, <2>3, <3>1 DEF PhaseInv, Sees
    <2>8. QED
      BY <2>1, <2>2, <2>6, <2>7 DEF PhaseInv, Intact
  <1>13. ASSUME NEW t \in Threads, Send(t) PROVE PhaseInv'
    BY <1>13 DEF PhaseInv, Busy, About, Within, Intact, Sees, Send, Goto,
         memoryVars, historyVars
  <1>14. CASE UNCHANGED vars
    BY <1>14 DEF vars, memoryVars, threadVars, historyVars, PhaseInv, Busy,
         About, Within, Intact, Sees
  <1>15. QED
    BY <1>1, <1>2, <1>3, <1>4, <1>5, <1>6, <1>7, <1>8, <1>9, <1>10, <1>11,
         <1>12, <1>13, <1>14 DEF Next, Program, Progress, LaunchKernel,
         CallWithArray, CallWithNullable, MayCall

\* At rest the host has the latest copy of an intact region.
LEMMA CoherentStep == IInv /\ [Next]_vars => Coherent'
  <1> SUFFICES ASSUME TypeOK, AllocInv, EntryInv, ScopeInv, SoloInv,
       PhaseInv, Coherent, ReadyInv, [Next]_vars
               PROVE  Coherent'
    BY DEF IInv
  <1> USE ConstantsAssumption
  <1>1. ASSUME NEW t \in Threads, NEW r \in Regions, MallocManaged(t, r)
       PROVE Coherent'
    BY <1>1 DEF Coherent, Busy, About, Within, Intact, MallocManaged, Runs,
         WithEntry, NotesOverlap, Free
  <1>2. ASSUME NEW t \in Threads, NEW r \in Regions, Malloc(t, r) PROVE
       Coherent'
    BY <1>2 DEF Coherent, Busy, About, Within, Intact, Malloc, Runs, Free,
         NotesOverlap, threadVars
  <1>3. ASSUME NEW t \in Threads, NEW r \in Regions, NEW a \in Extent(r),
       Touch(t, r, a) PROVE Coherent'
    BY <1>3, TouchEffect DEF Coherent, Intact, Touch
  <1>4. ASSUME NEW t \in Threads, NEW r \in Regions, Write(t, r) PROVE
       Coherent'
    BY <1>4 DEF Coherent, Busy, About, Within, Intact, Write, Runs,
         NotesOverlap, threadVars
  <1>5. ASSUME NEW t \in Threads, NEW r \in Regions, StartFree(t, r) PROVE
       Coherent'
    BY <1>5 DEF Coherent, Busy, About, Within, Intact, StartFree, Runs, Goto,
         NotesOverlap
  <1>6. ASSUME NEW t \in Threads, FinishFree(t) PROVE Coherent'
    <2>1. /\ Leave(t, "idle") /\ t \in Busy /\ pc[t] = "free"
          /\ managed' = managed \ {scope[t]}
          /\ current_host' = current_host \ {scope[t]}
          /\ UNCHANGED <<harmed, overlapped>>
      BY <1>6 DEF FinishFree, Busy, historyVars
    <2>2. Busy' = Busy \ {t} /\ \A u \in Busy' : About(u)' = About(u)
      BY <2>1, LeaveEffect
    <2>3. About(t) = Regions /\ managed \subseteq Regions
      BY <2>1 DEF About, TypeOK
    <2>4. \A q \in Intact' : q \in Intact \cap About(t) /\ q # scope[t]
      BY <2>1, <2>3 DEF Intact
    <2>5. \A q \in Intact' : q \in current_host
      BY <2>1, <2>4 DEF PhaseInv, Sees
    <2>6. QED
      BY <2>1, <2>4, <2>5 DEF Coherent
  <1>7. ASSUME NEW t \in Threads, NEW s, NEW l, MayCall(s, l), StartCall(t,
       s, l) PROVE Coherent'
    BY <1>7 DEF Coherent, Busy, About, Within, Intact, StartCall, MayCall,
         Runs, Goto, NotesOverlap, memoryVars
  <1>8. ASSUME NEW t \in Threads, Push(t) PROVE Coherent'
    BY <1>8 DEF Coherent, Busy, About, Within, Intact, Push, historyVars
  <1>9. ASSUME NEW t \in Threads, Pull(t) PROVE Coherent'
    <2>1. /\ t \in Busy /\ pc[t] # "free"
          /\ UNCHANGED <<managed, overlapped, pc, scope>>
          /\ harmed \subseteq harmed'
      BY <1>9 DEF Pull, Busy
    <2>2. PICK e \in Lowest(Rest(t)) :
            current_host' = Copied(e, current_dev, current_host)
      BY <1>9 DEF Pull
    <2>3. Busy' = Busy /\ \A u \in Busy : About(u)' = About(u)
      BY <2>1, SameCalls
    <2>4. e \in Rest(t)
      BY DEF Lowest
    <2>5. ASSUME NEW q \in Intact' \ UNION {About(u) : u \in Busy}
          PROVE  q \in current_host'
      <3>1. q \in current_host /\ q \in managed \ About(t)
        BY <2>1 DEF Coherent, Intact
      <3>2. q \notin Reached(e)
        BY <2>1, <2>4, <3>1, OthersNotReached
      <3>3. QED
        BY <2>2, <3>1, <3>2 DEF Copied
    <2>6. {About(u)' : u \in Busy'} = {About(u) : u \in Busy}
      BY <2>3
    <2>7. QED
      BY <2>5, <2>6 DEF Coherent
  <1>10. ASSUME NEW t \in Threads, CopyFails(t) PROVE Coherent'
    <2>1. PICK l \in {"idle", "stuck"} : Leave(t, l)
      BY <1>10, FailLeaves
    <2>2. /\ t \in Busy /\ pc[t] \in {"push", "fetch", "pull"}
          /\ UNCHANGED <<managed, harmed, overlapped, current_host>>
      BY <1>10 DEF CopyFails, Busy, Iterating, memoryVars, historyVars
    <2>3. Busy' = Busy \ {t} /\ \A u \in Busy' : About(u)' = About(u)
      BY <2>1, LeaveEffect
    <2>4. ASSUME NEW q \in Intact \cap About(t)
          PROVE  q \in current_host
      <3>1. CASE pc[t] \in {"push", "fetch"}
        BY <2>2, <3>1 DEF PhaseInv, Sees
      <3>2. CASE pc[t] = "pull"
        <4>1. PICK e \in Lowest(Rest(t)) : ~Copyable(e)
          BY <1>10 DEF CopyFails
        <4>2. e \in unified_devices /\ scope[t] \in {All, e}
          BY DEF Lowest, Rest
        <4>3. Copyable(e)
          BY <2>2, <3>2, <4>2 DEF ReadyInv
        <4>4. QED
          BY <4>1, <4>3
      <3>3. QED
        BY <2>2, <3>1, <3>2
    <2>5. QED
      BY <2>2, <2>3, <2>4 DEF Coherent, Intact
  <1>11. ASSUME NEW t \in Threads, EndLoop(t) PROVE Coherent'
    <2>1. /\ Rest(t) = {} /\ t \in Busy /\ t \in Threads
          /\ UNCHANGED <<managed, harmed, overlapped, current_host>>
      BY <1>11 DEF EndLoop, Iterating, Busy, memoryVars, historyVars
    <2>2. CASE pc[t] = "pull"
      <3>1. Leave(t, "idle")
        BY <1>11, <2>2 DEF EndLoop
      <3>2. Busy' = Busy \ {t} /\ \A u \in Busy' : About(u)' = About(u)
        BY <3>1, LeaveEffect
      <3>3. ASSUME NEW q \in Intact \cap About(t)
            PROVE  q \in current_host
        <4>1. q \in unified_devices /\ Base[q] \in Nat /\ at[t] \in Nat
          BY <2>1 DEF Intact, EntryInv, TypeOK
        <4>2. scope[t] \in {All, q}
          BY <2>1, <2>2, AboutScope
        <4>3. Base[q] < at[t]
          BY <2>1, <4>1, <4>2 DEF Rest
        <4>4. QED
          BY <2>1, <2>2, <4>3 DEF PhaseInv, Sees
      <3>4. QED
        BY <2>1, <3>2, <3>3 DEF Coherent, Intact
    <2>3. CASE pc[t] \in {"push", "fetch"}
      <3>1. PICK l \in {"launch", "send"} :
              Goto(t, l) /\ UNCHANGED <<scope, at>>
        BY <1>11, <2>3 DEF EndLoop
      <3>2. Busy' = Busy /\ \A u \in Busy : About(u)' = About(u)
        BY <2>1, <2>3, <3>1, GotoEffect
      <3>3. QED
        BY <2>1, <3>2 DEF Coherent, Intact
    <2>4. QED
      BY <1>11, <2>2, <2>3 DEF EndLoop, Iterating
  <1>12. ASSUME NEW t \in Threads, NEW W \in SUBSET Allocated, Execute(t, W)
       PROVE Coherent'
    <2>1. /\ t \in Busy /\ pc[t] = "launch" /\ Goto(t, "pull")
          /\ current_host' = current_host \ W
          /\ UNCHANGED <<managed, harmed, overlapped, scope>>
      BY <1>12 DEF Execute, Busy, historyVars
    <2>2. Busy' = Busy /\ \A u \in Busy : About(u)' = About(u)
      BY <2>1, GotoEffect
    <2>3. W \subseteq About(t)
      BY <1>12 DEF Execute, About, Within, Allocated, TypeOK
    <2>4. QED
      BY <2>1, <2>2, <2>3 DEF Coherent, Intact
  <1>13. ASSUME NEW t \in Threads, Send(t) PROVE Coherent'
    BY <1>13 DEF Coherent, Busy, About, Within, Intact, Send, Goto,
         memoryVars, historyVars
  <1>14. CASE UNCHANGED vars
    BY <1>14 DEF vars, memoryVars, threadVars, historyVars, Coherent, Busy,
         About, Within, Intact
  <1>15. QED
    BY <1>1, <1>2, <1>3, <1>4, <1>5, <1>6, <1>7, <1>8, <1>9, <1>10, <1>11,
         <1>12, <1>13, <1>14 DEF Next, Program, Progress, LaunchKernel,
         CallWithArray, CallWithNullable, MayCall

\* What could be copied to the device can be copied back.
LEMMA ReadyStep == IInv /\ [Next]_vars => ReadyInv'
  <1> SUFFICES ASSUME TypeOK, AllocInv, EntryInv, ScopeInv, SoloInv,
       ReadyInv, [Next]_vars
               PROVE  ReadyInv'
    BY DEF IInv
  <1> USE ConstantsAssumption
  <1>1. ASSUME NEW t \in Threads, NEW r \in Regions, MallocManaged(t, r)
       PROVE ReadyInv'
    <2>1. UNCHANGED <<pc, scope>>
      BY <1>1 DEF MallocManaged
    <2>2. Busy' = Busy /\ \A u \in Busy : About(u)' = About(u)
      BY <2>1, SameCalls
    <2>3. overlapped' = overlapped \cup
                          (Regions \cap UNION {About(u) : u \in Busy})
      BY <1>1 DEF MallocManaged, NotesOverlap
    <2>4. managed' \subseteq Regions
      BY <1>1 DEF MallocManaged, TypeOK
    <2>5. QED
      BY <2>2, <2>3, <2>4 DEF ReadyInv, Intact
  <1>2. ASSUME NEW t \in Threads, NEW r \in Regions, Malloc(t, r) PROVE
       ReadyInv'
    BY <1>2 DEF ReadyInv, Busy, About, Within, Intact, Copyable, Reached,
         Allocated, Malloc, Runs, Free, NotesOverlap, threadVars
  <1>3. ASSUME NEW t \in Threads, NEW r \in Regions, NEW a \in Extent(r),
       Touch(t, r, a) PROVE ReadyInv'
    BY <1>3, TouchEffect DEF ReadyInv, Intact, Copyable, Reached, Allocated,
         Touch
  <1>4. ASSUME NEW t \in Threads, NEW r \in Regions, Write(t, r) PROVE
       ReadyInv'
    BY <1>4 DEF ReadyInv, Busy, About, Within, Intact, Copyable, Reached,
         Allocated, Write, Runs, NotesOverlap, threadVars
  <1>5. ASSUME NEW t \in Threads, NEW r \in Regions, StartFree(t, r) PROVE
       ReadyInv'
    BY <1>5 DEF ReadyInv, Busy, About, Within, Intact, Copyable, Reached,
         Allocated, StartFree, Runs, Goto, NotesOverlap
  <1>6. ASSUME NEW t \in Threads, FinishFree(t) PROVE ReadyInv'
    <2>1. /\ Leave(t, "idle") /\ t \in Busy /\ pc[t] = "free"
          /\ managed' \subseteq managed
          /\ UNCHANGED <<harmed, overlapped>>
      BY <1>6 DEF FinishFree, Busy, historyVars
    <2>2. Busy' = Busy \ {t} /\ \A u \in Busy' : About(u)' = About(u)
      BY <2>1, LeaveEffect
    <2>3. About(t) = Regions /\ managed \subseteq Regions
      BY <2>1 DEF About, TypeOK
    <2>4. Intact' \subseteq Intact \cap Regions
      BY <2>1, <2>3 DEF Intact
    <2>5. \A u \in Busy' : Intact' \cap About(u)' = {}
      BY <2>1, <2>2, <2>3, <2>4, OnlyCall
    <2>6. QED
      BY <2>5 DEF ReadyInv
  <1>7. ASSUME NEW t \in Threads, NEW s, NEW l, MayCall(s, l), StartCall(t,
       s, l) PROVE ReadyInv'
    <2>1. s \in Regions \cup {All} /\ l \in {"push", "fetch"}
      BY <1>7 DEF MayCall, TypeOK
    <2>2. /\ pc[t] = "idle" /\ Goto(t, l)
          /\ scope' = [scope EXCEPT ![t] = s]
          /\ at' = [at EXCEPT ![t] = 0]
          /\ overlapped \subseteq overlapped'
          /\ UNCHANGED <<managed, plain, mapped, unified_devices, harmed>>
      BY <1>7 DEF StartCall, Runs, NotesOverlap, memoryVars
    <2>3. /\ Busy' = Busy \cup {t} /\ t \notin Busy /\ pc'[t] = l
          /\ \A u \in Busy : pc'[u] = pc[u] /\ scope'[u] = scope[u]
          /\ \A u \in Busy : About(u)' = About(u)
      BY <2>1, <2>2, BeginEffect
    <2>4. at'[t] = 0 /\ \A u \in Busy : at'[u] = at[u]
      BY <2>2, <2>3 DEF TypeOK
    <2>5. /\ Intact' \subseteq Intact
          /\ \A e \in unified_devices : Copyable(e)' <=> Copyable(e)
      BY <2>2 DEF Intact, Copyable, Reached, Allocated
    <2>6. \A e \in unified_devices : ~(Base[e] < 0)
      BY OwnExtent DEF TypeOK
    <2>7. QED
      BY <2>1, <2>2, <2>3, <2>4, <2>5, <2>6 DEF ReadyInv
  <1>8. ASSUME NEW t \in Threads, Push(t) PROVE ReadyInv'
    <2>1. /\ t \in Busy /\ pc[t] = "push"
          /\ UNCHANGED <<managed, plain, mapped, unified_devices, overlapped, pc,
                         scope>>
          /\ harmed \subseteq harmed'
      BY <1>8 DEF Push, Busy, historyVars
    <2>2. PICK e \in Lowest(Rest(t)) :
            Copyable(e) /\ at' = [at EXCEPT ![t] = Base[e] + 1]
      BY <1>8 DEF Push
    <2>3. Busy' = Busy /\ \A u \in Busy : About(u)' = About(u)
      BY <2>1, SameCalls
    <2>4. at'[t] = Base[e] + 1 /\ \A u \in Busy : u # t => at'[u] = at[u]
      BY <2>2 DEF TypeOK, Busy
    <2>5. /\ Intact' \subseteq Intact
          /\ \A d \in unified_devices : Copyable(d)' <=> Copyable(d)
      BY <2>1 DEF Intact, Copyable, Reached, Allocated
    <2>6. \A d \in unified_devices :
            scope[t] \in {All, d} /\ Base[d] < Base[e] + 1
              => d = e \/ Base[d] < at[t]
      BY NoneSkipped
    <2>7. ASSUME Intact \cap About(t) # {}, NEW d \in unified_devices,
                 scope[t] \in {All, d},
                 pc[t] \in {"push", "fetch"} => Base[d] < Base[e] + 1
          PROVE  Copyable(d)
      BY <2>1, <2>2, <2>6, <2>7 DEF ReadyInv
    <2>8. ASSUME NEW u \in Busy, pc[u] # "free", Intact' \cap About(u) # {},
                 NEW d \in unified_devices, scope[u] \in {All, d},
                 pc[u] \in {"push", "fetch"} => Base[d] < at'[u]
          PROVE  Copyable(d)
      <3>1. CASE u = t
        BY <2>4, <2>5, <2>7, <2>8, <3>1
      <3>2. CASE u # t
        BY <2>4, <2>5, <2>8, <3>2 DEF ReadyInv
      <3>3. QED
        BY <3>1, <3>2
    <2>9. QED
      BY <2>1, <2>3, <2>5, <2>8 DEF ReadyInv
  <1>9. ASSUME NEW t \in Threads, Pull(t) PROVE ReadyInv'
    <2>1. /\ t \in Busy /\ pc[t] \in {"fetch", "pull"}
          /\ UNCHANGED <<managed, plain, mapped, unified_devices, overlapped, pc,
                         scope>>
          /\ harmed \subseteq harmed'
      BY <1>9 DEF Pull, Busy
    <2>2. PICK e \in Lowest(Rest(t)) :
            Copyable(e) /\ at' = [at EXCEPT ![t] = Base[e] + 1]
      BY <1>9 DEF Pull
    <2>3. Busy' = Busy /\ \A u \in Busy : About(u)' = About(u)
      BY <2>1, SameCalls
    <2>4. at'[t] = Base[e] + 1 /\ \A u \in Busy : u # t => at'[u] = at[u]
      BY <2>2 DEF TypeOK, Busy
    <2>5. /\ Intact' \subseteq Intact
          /\ \A d \in unified_devices : Copyable(d)' <=> Copyable(d)
      BY <2>1 DEF Intact, Copyable, Reached, Allocated
    <2>6. \A d \in unified_devices :
            scope[t] \in {All, d} /\ Base[d] < Base[e] + 1
              => d = e \/ Base[d] < at[t]
      BY NoneSkipped
    <2>7. ASSUME Intact \cap About(t) # {}, NEW d \in unified_devices,
                 scope[t] \in {All, d},
                 pc[t] \in {"push", "fetch"} => Base[d] < Base[e] + 1
          PROVE  Copyable(d)
      BY <2>1, <2>2, <2>6, <2>7 DEF ReadyInv
    <2>8. ASSUME NEW u \in Busy, pc[u] # "free", Intact' \cap About(u) # {},
                 NEW d \in unified_devices, scope[u] \in {All, d},
                 pc[u] \in {"push", "fetch"} => Base[d] < at'[u]
          PROVE  Copyable(d)
      <3>1. CASE u = t
        BY <2>4, <2>5, <2>7, <2>8, <3>1
      <3>2. CASE u # t
        BY <2>4, <2>5, <2>8, <3>2 DEF ReadyInv
      <3>3. QED
        BY <3>1, <3>2
    <2>9. QED
      BY <2>1, <2>3, <2>5, <2>8 DEF ReadyInv
  <1>10. ASSUME NEW t \in Threads, CopyFails(t) PROVE ReadyInv'
    <2>1. PICK l \in {"idle", "stuck"} : Leave(t, l)
      BY <1>10, FailLeaves
    <2>2. QED
      BY <1>10, <2>1, LeaveEffect DEF ReadyInv, Intact, Copyable, Reached,
           Allocated, CopyFails, memoryVars, historyVars
  <1>11. ASSUME NEW t \in Threads, EndLoop(t) PROVE ReadyInv'
    <2>1. /\ Rest(t) = {} /\ t \in Busy /\ t \in Threads
          /\ UNCHANGED <<managed, plain, mapped, unified_devices, harmed,
                         overlapped>>
      BY <1>11 DEF EndLoop, Iterating, Busy, memoryVars, historyVars
    <2>2. CASE pc[t] = "pull"
      <3>1. Leave(t, "idle")
        BY <1>11, <2>2 DEF EndLoop
      <3>2. QED
        BY <2>1, <3>1, LeaveEffect
        DEF ReadyInv, Intact, Copyable, Reached, Allocated
    <2>3. CASE pc[t] \in {"push", "fetch"}
      <3>1. PICK l \in {"launch", "send"} :
              Goto(t, l) /\ UNCHANGED <<scope, at>>
        BY <1>11, <2>3 DEF EndLoop
      <3>2. /\ Busy' = Busy /\ pc'[t] = l
            /\ \A u \in Busy : u # t => pc'[u] = pc[u]
            /\ \A u \in Busy : About(u)' = About(u)
        BY <2>1, <2>3, <3>1, GotoEffect
      <3>3. \A e \in unified_devices : scope[t] \in {All, e} => Base[e] < at[t]
        <4>1. \A e \in unified_devices : Base[e] \in Nat /\ at[t] \in Nat
          BY <2>1 DEF TypeOK
        <4>2. QED
          BY <2>1, <4>1 DEF Rest
      <3>4. Intact' = Intact /\ \A e \in unified_devices : Copyable(e)' <=> Copyable(e)
        BY <2>1 DEF Intact, Copyable, Reached, Allocated
      <3>5. ASSUME Intact \cap About(t) # {}, NEW e \in unified_devices,
                   scope[t] \in {All, e}
            PROVE  Copyable(e)
        BY <2>1, <2>3, <3>3, <3>5 DEF ReadyInv
      <3>6. QED
        BY <2>1, <3>1, <3>2, <3>4, <3>5 DEF ReadyInv
    <2>4. QED
      BY <1>11, <2>2, <2>3 DEF EndLoop, Iterating
  <1>12. ASSUME NEW t \in Threads, NEW W \in SUBSET Allocated, Execute(t, W)
       PROVE ReadyInv'
    BY <1>12 DEF ReadyInv, Busy, About, Within, Intact, Copyable, Reached,
         Allocated, Execute, Goto, historyVars
  <1>13. ASSUME NEW t \in Threads, Send(t) PROVE ReadyInv'
    BY <1>13 DEF ReadyInv, Busy, About, Within, Intact, Copyable, Reached,
         Allocated, Send, Goto, memoryVars, historyVars
  <1>14. CASE UNCHANGED vars
    BY <1>14 DEF vars, memoryVars, threadVars, historyVars, ReadyInv, Busy,
         About, Within, Intact, Copyable, Reached, Allocated
  <1>15. QED
    BY <1>1, <1>2, <1>3, <1>4, <1>5, <1>6, <1>7, <1>8, <1>9, <1>10, <1>11,
         <1>12, <1>13, <1>14 DEF Next, Program, Progress, LaunchKernel,
         CallWithArray, CallWithNullable, MayCall

\* Nothing fails as long as the program is careful.
LEMMA CarefulStep == IInv /\ [Next]_vars => CarefulInv'
  <1> SUFFICES ASSUME TypeOK, AllocInv, EntryInv, ScopeInv, SoloInv,
       CarefulInv, [Next]_vars
               PROVE  CarefulInv'
    BY DEF IInv
  <1> USE ConstantsAssumption
  <1>1. ASSUME NEW t \in Threads, NEW r \in Regions, MallocManaged(t, r)
       PROVE CarefulInv'
    <2>1. SUFFICES ASSUME ~untouched', ~freed'
                   PROVE  /\ ~failed' /\ ~broken'
                          /\ unified_devices' = managed'
                          /\ \A q \in managed' \cap written' :
                               Pages(q) \subseteq mapped'
                          /\ \A u \in Busy' :
                               IF pc'[u] = "free" THEN scope'[u] \in plain'
                               ELSE managed' \cap About(u)' \subseteq written'
      BY DEF CarefulInv
    <2>2. /\ ~untouched /\ ~freed /\ \A u \in Busy : scope[u] # All
          /\ UNCHANGED <<plain, mapped, pc, scope, broken, failed>>
          /\ r \in Free /\ managed' = managed \cup {r}
          /\ written' = written \ {r}
          /\ unified_devices' = {e \in unified_devices : Base[e] # Base[r]}
                                  \cup {r}
      BY <1>1, <2>1 DEF MallocManaged, WithEntry
    <2>3. Busy' = Busy /\ \A u \in Busy : About(u)' = About(u)
      BY <2>2, SameCalls
    <2>4. /\ ~failed /\ ~broken /\ unified_devices = managed
          /\ \A q \in managed \cap written : Pages(q) \subseteq mapped
          /\ \A u \in Busy : IF pc[u] = "free" THEN scope[u] \in plain
                             ELSE managed \cap About(u) \subseteq written
      BY <2>2 DEF CarefulInv
    <2>5. r \notin Allocated /\ \A q \in Allocated : Base[q] # Base[r]
      BY <2>2, FreeIsNew
    <2>6. unified_devices' = managed'
      BY <2>2, <2>4, <2>5 DEF Allocated
    <2>7. \A u \in Busy : pc[u] # "free" => About(u) = {scope[u]}
      BY <2>2 DEF About, Within
    <2>8. \A u \in Busy : pc[u] # "free" => scope[u] \in managed
      BY <2>2 DEF ScopeInv
    <2>9. \A u \in Busy : pc[u] # "free" => r \notin About(u)
      BY <2>5, <2>7, <2>8 DEF Allocated
    <2>10. QED
      BY <2>2, <2>3, <2>4, <2>6, <2>9
  <1>2. ASSUME NEW t \in Threads, NEW r \in Regions, Malloc(t, r) PROVE
       CarefulInv'
    BY <1>2 DEF CarefulInv, Busy, About, Within, Malloc, Runs, Free,
         NotesOverlap, threadVars
  <1>3. ASSUME NEW t \in Threads, NEW r \in Regions, NEW a \in Extent(r),
       Touch(t, r, a) PROVE CarefulInv'
    BY <1>3, TouchEffect DEF CarefulInv, Touch
  <1>4. ASSUME NEW t \in Threads, NEW r \in Regions, Write(t, r) PROVE
       CarefulInv'
    BY <1>4 DEF CarefulInv, Busy, About, Within, Write, Runs, NotesOverlap,
         threadVars
  <1>5. ASSUME NEW t \in Threads, NEW r \in Regions, StartFree(t, r) PROVE
       CarefulInv'
    <2>1. SUFFICES ASSUME ~untouched', ~freed'
                   PROVE  /\ ~failed' /\ ~broken'
                          /\ unified_devices' = managed'
                          /\ \A q \in managed' \cap written' :
                               Pages(q) \subseteq mapped'
                          /\ \A u \in Busy' :
                               IF pc'[u] = "free" THEN scope'[u] \in plain'
                               ELSE managed' \cap About(u)' \subseteq written'
      BY DEF CarefulInv
    <2>2. /\ ~untouched /\ ~freed /\ r \in Allocated /\ r \notin managed
          /\ UNCHANGED <<managed, plain, unified_devices, written, broken, failed>>
          /\ pc[t] = "idle" /\ Goto(t, "free")
          /\ scope' = [scope EXCEPT ![t] = r]
          /\ mapped' = mapped \ Unmapped(r)
      BY <1>5, <2>1 DEF StartFree, Runs
    <2>3. /\ Busy' = Busy \cup {t} /\ pc'[t] = "free" /\ scope'[t] = r
          /\ \A u \in Busy : pc'[u] = pc[u] /\ scope'[u] = scope[u]
          /\ \A u \in Busy : About(u)' = About(u)
      BY <2>2, BeginEffect
    <2>4. /\ ~failed /\ ~broken /\ unified_devices = managed
          /\ \A q \in managed \cap written : Pages(q) \subseteq mapped
          /\ \A u \in Busy : IF pc[u] = "free" THEN scope[u] \in plain
                             ELSE managed \cap About(u) \subseteq written
      BY <2>2 DEF CarefulInv
    <2>5. r \in plain
      BY <2>2 DEF Allocated
    <2>6. \A e \in managed : Base[e] # Base[r]
      <3>1. \A e \in managed : Extent(e) \cap Extent(r) = {}
        BY <2>2 DEF AllocInv, Allocated
      <3>2. \A e \in managed : Base[e] \in Extent(e) /\ Base[r] \in Extent(r)
        BY OwnExtent DEF TypeOK
      <3>3. QED
        BY <3>1, <3>2
    <2>7. Unmapped(r) = {}
      BY <2>4, <2>6 DEF Unmapped
    <2>8. QED
      BY <2>2, <2>3, <2>4, <2>5, <2>7
  <1>6. ASSUME NEW t \in Threads, FinishFree(t) PROVE CarefulInv'
    <2>1. /\ Leave(t, "idle") /\ t \in Busy /\ pc[t] = "free"
          /\ managed' = managed \ {scope[t]} /\ plain' = plain \ {scope[t]}
          /\ UNCHANGED <<unified_devices, mapped, broken, failed, written, untouched,
                         freed>>
      BY <1>6 DEF FinishFree, Busy, historyVars
    <2>2. /\ Busy' = Busy \ {t}
          /\ \A u \in Busy' : /\ pc'[u] = pc[u] /\ scope'[u] = scope[u]
                              /\ About(u)' = About(u)
      BY <2>1, LeaveEffect
    <2>3. \A u \in Busy' : scope[u] # scope[t]
      BY <2>1, <2>2 DEF ScopeInv
    <2>4. ~untouched /\ ~freed => scope[t] \notin managed
      BY <2>1 DEF CarefulInv, AllocInv
    <2>5. QED
      BY <2>1, <2>2, <2>3, <2>4 DEF CarefulInv
  <1>7. ASSUME NEW t \in Threads, NEW s, NEW l, MayCall(s, l), StartCall(t,
       s, l) PROVE CarefulInv'
    <2>1. s \in Regions \cup {All} /\ l \in {"push", "fetch"}
      BY <1>7 DEF MayCall, TypeOK
    <2>2. /\ pc[t] = "idle" /\ Goto(t, l)
          /\ scope' = [scope EXCEPT ![t] = s]
          /\ UNCHANGED <<managed, plain, unified_devices, mapped, broken, failed,
                         written, freed>>
          /\ ~untouched' => ~untouched /\ managed \cap Within(s) \subseteq written
      BY <1>7 DEF StartCall, Runs, memoryVars
    <2>3. /\ Busy' = Busy \cup {t} /\ pc'[t] = l /\ About(t)' = Within(s)
          /\ \A u \in Busy : pc'[u] = pc[u] /\ scope'[u] = scope[u]
          /\ \A u \in Busy : About(u)' = About(u)
      BY <2>1, <2>2, BeginEffect
    <2>4. QED
      BY <2>1, <2>2, <2>3 DEF CarefulInv
  <1>8. ASSUME NEW t \in Threads, Push(t) PROVE CarefulInv'
    BY <1>8 DEF CarefulInv, Busy, About, Within, Push, historyVars
  <1>9. ASSUME NEW t \in Threads, Pull(t) PROVE CarefulInv'
    BY <1>9 DEF CarefulInv, Busy, About, Within, Pull
  <1>10. ASSUME NEW t \in Threads, CopyFails(t) PROVE CarefulInv'
    <2>1. SUFFICES ASSUME ~untouched, ~freed
                   PROVE  FALSE
      BY <1>10 DEF CopyFails, CarefulInv, historyVars
    <2>2. t \in Busy /\ pc[t] \in {"push", "fetch", "pull"}
      BY <1>10 DEF CopyFails, Busy, Iterating
    <2>3. PICK e \in Lowest(Rest(t)) : ~Copyable(e)
      BY <1>10 DEF CopyFails
    <2>4. e \in managed /\ scope[t] \in {All, e}
      BY <2>1 DEF Lowest, Rest, CarefulInv
    <2>5. e \in About(t)
      BY <2>2, <2>4 DEF About, Within, TypeOK
    <2>6. Pages(e) \subseteq mapped
      BY <2>1, <2>2, <2>4, <2>5 DEF CarefulInv
    <2>7. e \in Reached(e)
      BY <2>4 DEF Reached, Allocated
    <2>8. QED
      BY <2>3, <2>6, <2>7 DEF Copyable
  <1>11. ASSUME NEW t \in Threads, EndLoop(t) PROVE CarefulInv'
    <2>1. CASE pc[t] = "pull"
      <3>1. Leave(t, "idle")
        BY <1>11, <2>1 DEF EndLoop
      <3>2. QED
        BY <1>11, <3>1, <2>1, LeaveEffect DEF CarefulInv, EndLoop, memoryVars,
             historyVars
    <2>2. CASE pc[t] \in {"push", "fetch"}
      <3>1. PICK l \in {"launch", "send"} : Goto(t, l) /\ UNCHANGED <<scope, at>>
        BY <1>11, <2>2 DEF EndLoop
      <3>2. t \in Busy
        BY <2>2 DEF Busy
      <3>3. QED
        BY <1>11, <3>1, <3>2, <2>2, GotoEffect DEF CarefulInv, EndLoop,
             memoryVars, historyVars
    <2>3. QED
      BY <1>11, <2>1, <2>2 DEF EndLoop, Iterating
  <1>12. ASSUME NEW t \in Threads, NEW W \in SUBSET Allocated, Execute(t, W)
       PROVE CarefulInv'
    BY <1>12 DEF CarefulInv, Busy, About, Within, Execute, Goto, historyVars
  <1>13. ASSUME NEW t \in Threads, Send(t) PROVE CarefulInv'
    BY <1>13 DEF CarefulInv, Busy, About, Within, Send, Goto, memoryVars,
         historyVars
  <1>14. CASE UNCHANGED vars
    BY <1>14 DEF vars, memoryVars, threadVars, historyVars, CarefulInv, Busy,
         About, Within
  <1>15. QED
    BY <1>1, <1>2, <1>3, <1>4, <1>5, <1>6, <1>7, <1>8, <1>9, <1>10, <1>11,
         <1>12, <1>13, <1>14 DEF Next, Program, Progress, LaunchKernel,
         CallWithArray, CallWithNullable, MayCall

\* Only the copy of an entry that cudaFree left overwrites memory of cudaMalloc.
LEMMA PlainStep == IInv /\ [Next]_vars => PlainInv'
  <1> SUFFICES ASSUME TypeOK, AllocInv, EntryInv, PlainInv, [Next]_vars
               PROVE  PlainInv'
    BY DEF IInv
  \* A step that leaves the entries and takes nothing from the device.
  <1>a. ASSUME unified_devices' = unified_devices, managed' \subseteq managed,
               \A q \in plain' \ current_dev' : q \in plain \ current_dev
        PROVE  PlainInv'
    BY <1>a DEF PlainInv, Extent
  <1>1. ASSUME NEW t \in Threads, NEW r \in Regions, MallocManaged(t, r)
        PROVE  PlainInv'
    <2>1. /\ managed' = managed \cup {r} /\ r \in Free /\ plain' = plain
          /\ unified_devices' = {e \in unified_devices : Base[e] # Base[r]} \cup {r}
          /\ current_dev' = current_dev \cup {r}
      BY <1>1 DEF MallocManaged, WithEntry
    <2>2. SUFFICES ASSUME NEW q \in plain \ current_dev
                   PROVE  \E e \in unified_devices' \ managed' :
                            Extent(e) \subseteq Extent(q)
      BY <2>1 DEF PlainInv, Extent
    <2>3. PICK e \in unified_devices \ managed : Extent(e) \subseteq Extent(q)
      BY DEF PlainInv
    <2>4. Extent(r) \cap Extent(q) = {}
      BY <2>1, FreeIsNew DEF Allocated
    <2>5. Base[e] # Base[r]
      BY <2>3, <2>4, OwnExtent DEF TypeOK
    <2>6. QED
      BY <2>1, <2>3, <2>5
  <1>2. ASSUME NEW t \in Threads, NEW r \in Regions, Malloc(t, r) PROVE PlainInv'
    BY <1>2, <1>a DEF Malloc
  <1>3. ASSUME NEW t \in Threads, NEW r \in Regions, NEW a \in Extent(r),
               Touch(t, r, a)
        PROVE  PlainInv'
    BY <1>3, <1>a DEF Touch
  <1>4. ASSUME NEW t \in Threads, NEW r \in Regions, Write(t, r) PROVE PlainInv'
    BY <1>4, <1>a DEF Write, AllocInv
  <1>5. ASSUME NEW t \in Threads, NEW r \in Regions, StartFree(t, r)
        PROVE  PlainInv'
    BY <1>5, <1>a DEF StartFree
  <1>6. ASSUME NEW t \in Threads, FinishFree(t) PROVE PlainInv'
    BY <1>6, <1>a DEF FinishFree
  <1>7. ASSUME NEW t \in Threads, NEW s, NEW l, MayCall(s, l), StartCall(t, s, l)
        PROVE  PlainInv'
    BY <1>7, <1>a DEF StartCall, memoryVars
  <1>8. ASSUME NEW t \in Threads, Push(t) PROVE PlainInv'
    <2>1. PICK e \in Lowest(Rest(t)) :
            current_dev' = Copied(e, current_host, current_dev)
      BY <1>8 DEF Push
    <2>2. e \in unified_devices /\ UNCHANGED <<managed, plain, unified_devices>>
      BY <1>8 DEF Push, Lowest, Rest
    <2>3. SUFFICES ASSUME NEW q \in plain, q \notin current_dev'
                   PROVE  \E d \in unified_devices \ managed :
                            Extent(d) \subseteq Extent(q)
      BY <2>2 DEF PlainInv, Extent
    <2>4. CASE q \notin current_dev
      BY <2>4 DEF PlainInv
    <2>5. CASE q \in current_dev
      <3>1. Extent(e) \subseteq Extent(q)
        BY <2>1, <2>3, <2>5 DEF Copied, Reached
      <3>2. Base[e] \in Extent(e)
        BY <2>2, OwnExtent DEF TypeOK
      <3>3. e \notin managed
        BY <3>1, <3>2 DEF AllocInv, Allocated
      <3>4. QED
        BY <2>2, <3>1, <3>3
    <2>6. QED
      BY <2>4, <2>5
  <1>9. ASSUME NEW t \in Threads, Pull(t) PROVE PlainInv'
    BY <1>9, <1>a DEF Pull
  <1>10. ASSUME NEW t \in Threads, CopyFails(t) PROVE PlainInv'
    BY <1>10, <1>a DEF CopyFails, memoryVars
  <1>11. ASSUME NEW t \in Threads, EndLoop(t) PROVE PlainInv'
    BY <1>11, <1>a DEF EndLoop, memoryVars
  <1>12. ASSUME NEW t \in Threads, NEW W \in SUBSET Allocated, Execute(t, W)
         PROVE  PlainInv'
    BY <1>12, <1>a DEF Execute
  <1>13. ASSUME NEW t \in Threads, Send(t) PROVE PlainInv'
    BY <1>13, <1>a DEF Send, memoryVars
  <1>14. CASE UNCHANGED vars
    BY <1>14, <1>a DEF vars, memoryVars
  <1>15. QED
    BY <1>1, <1>2, <1>3, <1>4, <1>5, <1>6, <1>7, <1>8, <1>9, <1>10, <1>11,
         <1>12, <1>13, <1>14 DEF Next, Program, Progress, LaunchKernel,
         CallWithArray, CallWithNullable, MayCall

-----------------------------------------------------------------------------
(* Pages.                                                                  *)

\* The pages of an extent that fills its pages.
LEMMA FilledPages ==
  ASSUME NEW p \in Nat \ {0}, NEW k \in Nat, NEW c \in Nat, NEW a \in Nat
  PROVE  p * c <= a /\ a < p * c + p * k <=> a \div p \in c .. c + k - 1
  <1>1. PICK n \in Nat : n = a \div p /\ p * n <= a /\ a < p * n + p /\ p * n \in Nat
    <2>1. /\ a \div p \in Nat /\ p * (a \div p) \in Nat
          /\ p * (a \div p) <= a /\ a < p * (a \div p) + p
      BY Euclid
    <2>2. QED
      BY <2>1
  <1>2. PICK d \in Nat : d = c + k
    OBVIOUS
  <1>3. /\ n < c => p * n + p <= p * c
        /\ c <= n => p * c <= p * n
        /\ n < d => p * n + p <= p * d
        /\ d <= n => p * d <= p * n
    BY Order
  <1>4. p * d = p * c + p * k /\ p * c \in Nat /\ p * d \in Nat
    BY <1>2
  <1>5. n \in c .. c + k - 1 <=> c <= n /\ n < d
    BY <1>2
  <1>6. p * c <= a /\ a < p * d <=> c <= n /\ n < d
    BY <1>1, <1>3, <1>4
  <1>7. QED
    BY <1>1, <1>4, <1>5, <1>6

\* A fault in a region of half a page or less leads to its page, whatever its size.
LEMMA SmallPages ==
  ASSUME NEW r \in Regions, ~Large(r), NEW a \in Extent(r)
  PROVE  NewPages(a, r) = {Page(a)}
  <1> DEFINE R == Rounded(a, r)
  <1>1. PICK s \in Nat \ {0}, p \in Nat \ {0}, m \in Nat :
          s = Size[r] /\ p = PageSize /\ m = s - 1 /\ 2 * s <= p /\ m < p
    BY ConstantsAssumption DEF Large
  <1>2. a \in Nat
    BY ConstantsAssumption DEF Extent
  <1>3. R = AndNot[a][m]
    BY <1>1 DEF Rounded
  <1>4. R \in Nat /\ R <= a /\ a <= R + m /\ p * (a \div p) <= R
    BY <1>1, <1>2, <1>3, AndNotBounds, AndNotKeepsPage, PageAssumption
  <1> HIDE DEF R
  <1>5. R \div p = a \div p
    <2>1. a \div p \in Int /\ a < p * (a \div p) + p /\ p * (a \div p) \in Nat
      <3>1. a \div p \in Nat /\ a < p * (a \div p) + p
        BY <1>2, Euclid
      <3>2. QED
        BY <3>1
    <2>2. R < p * (a \div p) + p
      BY <1>2, <1>4, <2>1
    <2>3. QED
      BY <1>4, <2>1, <2>2, Quotient, Zenon
  <1>6. PICK b \in Nat : b = s + a - R + p - 1 /\ p <= b /\ b < p + p
    BY <1>1, <1>2, <1>4
  <1>7. b \div p = 1
    <2>1. p * 1 = p
      OBVIOUS
    <2>2. QED
      BY <1>6, <2>1, Quotient
  <1>8. Page(R) = Page(a) /\ Page(a) \in Nat
    BY <1>1, <1>2, <1>5, Euclid DEF Page
  <1>9. NewPages(a, r) = Page(R) .. Page(R) + b \div p - 1
    BY <1>1, <1>6 DEF NewPages, R
  <1>10. NewPages(a, r) = Page(a) .. Page(a)
    BY <1>7, <1>8, <1>9
  <1>11. QED
    BY <1>8, <1>10

\* A fault at the first byte of a region that begins with a page leads to all of
\* its pages, where the mask leaves that address alone.
LEMMA LargePages ==
  ASSUME NEW r \in Regions, Base[r] % PageSize = 0, Rounded(Base[r], r) = Base[r]
  PROVE  NewPages(Base[r], r) = Pages(r)
  <1>1. PICK s \in Nat \ {0}, p \in Nat \ {0}, b \in Nat, c \in Nat :
          s = Size[r] /\ p = PageSize /\ b = Base[r] /\ b = p * c
    <2>1. PageSize \in Nat \ {0} /\ Base[r] \in Nat /\ Size[r] \in Nat \ {0}
      BY ConstantsAssumption
    <2>2. PICK c \in Nat : Base[r] = PageSize * c
      BY <2>1, Multiple
    <2>3. QED
      BY <2>1, <2>2
  <1>2. PICK h \in Nat : h = s + p - 1
    BY <1>1
  <1>3. PICK k \in Nat : k = h \div p /\ p * k <= h /\ h < p * k + p /\ p * k \in Nat
    <2>1. h \div p \in Nat /\ p * (h \div p) <= h /\ h < p * (h \div p) + p
      BY Euclid
    <2>2. p * (h \div p) \in Nat
      BY <2>1
    <2>3. QED
      BY <2>1, <2>2
  <1>4. Page(b) = c
    BY <1>1, Quotient DEF Page
  <1>5. NewPages(b, r) = c .. c + k - 1
    <2>1. s + b - b + p - 1 = h
      BY <1>1, <1>2
    <2>2. NewPages(b, r) = Page(b) .. Page(b) + (s + b - b + p - 1) \div p - 1
      BY <1>1 DEF NewPages
    <2>3. QED
      BY <1>3, <1>4, <2>1, <2>2
  <1>6. s <= p * k /\ p * k < s + p
    BY <1>2, <1>3
  <1>7. ASSUME NEW n \in Pages(r) PROVE n \in c .. c + k - 1
    <2>1. PICK a \in Extent(r) : n = a \div p
      BY <1>1 DEF Pages, Page
    <2>2. a \in Nat /\ p * c <= a /\ a < p * c + p * k
      BY <1>1, <1>3, <1>6 DEF Extent
    <2>3. QED
      BY <2>1, <2>2, FilledPages
  <1>8. ASSUME NEW n \in c .. c + k - 1 PROVE n \in Pages(r)
    <2>1. n \in Nat /\ p * n \in Nat
      OBVIOUS
    <2>2. Page(p * n) = n
      BY <1>1, <2>1, Quotient DEF Page
    <2>3. p * c <= p * n
      BY <2>1, Order
    <2>4. p * n + p <= p * c + p * k
      <3>1. PICK d \in Nat : d = c + k /\ n < d
        BY <2>1
      <3>2. p * n + p <= p * d
        BY <2>1, <3>1, Order
      <3>3. p * d = p * c + p * k
        BY <3>1
      <3>4. QED
        BY <3>2, <3>3
    <2>5. p * n \in Extent(r)
      <3>1. PICK y \in Nat, z \in Nat : y = p * n /\ z = p * k
        BY <1>3, <2>1
      <3>2. b <= y /\ y + p <= b + z /\ z < s + p
        BY <1>1, <1>6, <2>3, <2>4, <3>1
      <3>3. y \in b .. b + s - 1
        BY <3>2
      <3>4. QED
        BY <1>1, <3>1, <3>3 DEF Extent
    <2>6. QED
      BY <2>2, <2>5 DEF Pages
  <1>9. QED
    BY <1>1, <1>5, <1>7, <1>8

\* An address below a page's first is on a page below.
LEMMA PageBelow ==
  ASSUME NEW r \in Regions, Base[r] % PageSize = 0, NEW a \in Nat, NEW z \in Nat,
         a < Base[r], Base[r] <= z
  PROVE  Page(a) # Page(z)
  <1>1. PICK p \in Nat \ {0}, c \in Nat : p = PageSize /\ Base[r] = p * c
    <2>1. PageSize \in Nat \ {0} /\ Base[r] \in Nat
      BY ConstantsAssumption
    <2>2. QED
      BY <2>1, Multiple
  <1>2. PICK m \in Nat, n \in Nat :
          /\ m = a \div p /\ n = z \div p
          /\ p * m <= a /\ z < p * n + p
    BY Euclid
  <1>3. /\ c <= m => p * c <= p * m
        /\ n < c => p * n + p <= p * c
    BY Order
  <1>4. ~(c <= m) /\ ~(n < c)
    BY <1>1, <1>2, <1>3
  <1>5. QED
    BY <1>1, <1>2, <1>4 DEF Page

\* Two regions that begin with a page, and do not overlap, share no page.
LEMMA OwnPages ==
  ASSUME NEW r \in Regions, Base[r] % PageSize = 0,
         NEW e \in Regions, Base[e] % PageSize = 0,
         Extent(e) \cap Extent(r) = {}
  PROVE  Pages(e) \cap Pages(r) = {}
  <1> SUFFICES ASSUME NEW n \in Pages(e), n \in Pages(r) PROVE FALSE
    OBVIOUS
  <1>1. PICK a \in Extent(e), z \in Extent(r) : n = Page(a) /\ n = Page(z)
    BY DEF Pages
  <1>2. /\ Base[e] \in Nat /\ Base[r] \in Nat /\ a \in Nat /\ z \in Nat
        /\ Base[e] <= a /\ Base[r] <= z
    BY ConstantsAssumption DEF Extent
  <1>3. a < Base[r] \/ z < Base[e]
    BY ConstantsAssumption DEF Extent
  <1>4. QED
    BY <1>1, <1>2, <1>3, PageBelow

\* An access goes on after one fault.
LEMMA TouchSucceeds ==
  ASSUME TypeOK, EntryInv, FaultInv, NEW t \in Threads, NEW r \in Regions,
         NEW a \in Extent(r), Touch(t, r, a), ~strayed'
  PROVE  /\ pc' = pc /\ r \in managed
         /\ mapped' = mapped \cup IF Large(r) THEN Pages(r) ELSE {Page(a)}
  <1>1. r \in managed /\ r \notin Freeing /\ r \in unified_devices
    BY DEF Touch, EntryInv
  <1>2. ~strayed /\ (Large(r) => a = Base[r])
    BY DEF Touch
  <1>3. Owners(a) = {r}
    BY <1>1, <1>2 DEF Owners, FaultInv
  <1>4. Lowest(Owners(a)) = {r}
    <2>1. Base[r] <= Base[r]
      BY OwnExtent
    <2>2. QED
      BY <1>3, <2>1 DEF Lowest
  <1>5. Page(a) \notin mapped /\ Page(a) \in Pages(r)
    BY DEF Touch, Pages
  <1>7. NewPages(a, r) = IF Large(r) THEN Pages(r) ELSE {Page(a)}
    <2>1. CASE ~Large(r)
      <3>1. r \in Regions
        BY <1>1 DEF TypeOK
      <3>2. QED
        BY <2>1, <3>1, SmallPages
    <2>2. CASE Large(r)
      <3>1. Base[r] % PageSize = 0 /\ Rounded(Base[r], r) = Base[r]
        BY <1>1, <1>2, <2>2 DEF FaultInv, Unaligned
      <3>2. QED
        BY <1>2, <2>2, <3>1, LargePages
    <2>3. QED
      BY <2>1, <2>2
  <1>8. NewPages(a, r) \cap mapped = {}
    <2>1. CASE ~Large(r)
      BY <1>5, <1>7, <2>1
    <2>2. CASE Large(r)
      <3>1. Whole(r)
        BY <1>1, <1>2, <2>2 DEF FaultInv
      <3>2. QED
        BY <1>5, <1>7, <2>2, <3>1 DEF Whole
    <2>3. QED
      BY <2>1, <2>2
  <1>9. mapped' = mapped \cup NewPages(a, r) /\ UNCHANGED pc
    BY <1>4, <1>8 DEF Touch
  <1>10. QED
    BY <1>1, <1>7, <1>9

\* Faults are handled until one may lead to other pages.
LEMMA FaultStep == IInv /\ [Next]_vars => FaultInv'
  <1> SUFFICES ASSUME IInv, [Next]_vars, ~strayed'
               PROVE  /\ \A u \in Threads : pc'[u] # "spins"
                      /\ \A q \in managed' :
                           /\ ~Unaligned(q)
                           /\ \A e \in unified_devices' :
                                e # q => Extent(e) \cap Extent(q) = {}
                           /\ Large(q) => \A x \in managed' : x # q => Pages(x) \cap Pages(q) = {}
                           /\ Large(q) /\ q \notin Freeing' => Whole(q)'
    BY DEF FaultInv, Unaligned, Extent, Large, Rounded, Pages, Page
  <1> DEFINE Goal == /\ \A u \in Threads : pc'[u] # "spins"
                     /\ \A q \in managed' :
                          /\ ~Unaligned(q)
                          /\ \A e \in unified_devices' :
                               e # q => Extent(e) \cap Extent(q) = {}
                          /\ Large(q) => \A x \in managed' : x # q => Pages(x) \cap Pages(q) = {}
                          /\ Large(q) /\ q \notin Freeing' => Whole(q)'
  <1>a. TypeOK /\ AllocInv /\ EntryInv /\ ScopeInv /\ FaultInv
    BY DEF IInv
  <1>b. managed \subseteq Regions /\ unified_devices \subseteq Regions
        /\ pc \in [Threads -> {"idle", "push", "fetch", "launch", "send", "pull",
                               "free", "spins", "stuck"}]
        /\ scope \in [Threads -> Regions \cup {All}]
    BY <1>a DEF TypeOK
  <1>c. ~strayed =>
          /\ \A u \in Threads : pc[u] # "spins"
          /\ \A q \in managed :
               /\ ~Unaligned(q)
               /\ \A e \in unified_devices :
                    e # q => Extent(e) \cap Extent(q) = {}
               /\ Large(q) => \A x \in managed : x # q => Pages(x) \cap Pages(q) = {}
               /\ Large(q) /\ q \notin Freeing => Whole(q)
    BY <1>a DEF FaultInv
  \* A step that maps and unmaps nothing, and allocates nothing managed.
  <1>d. ASSUME managed' \subseteq managed, unified_devices' = unified_devices,
               mapped' = mapped, strayed' = strayed,
               \A u \in Threads : pc'[u] = "spins" => pc[u] = "spins",
               \A q \in managed' : q \in Freeing => q \in Freeing'
        PROVE  Goal
    BY <1>c, <1>d DEF Whole
  <1>1. ASSUME NEW t \in Threads, NEW r \in Regions, MallocManaged(t, r)
        PROVE  Goal
    <2>1. /\ ~strayed /\ ~Unaligned(r) /\ ~MeetsRemains(r) /\ r \in Free
          /\ ~SharesPages(r)
          /\ managed' = managed \cup {r}
          /\ unified_devices' = {e \in unified_devices : Base[e] # Base[r]} \cup {r}
          /\ mapped' = mapped /\ pc' = pc /\ scope' = scope
      BY <1>1 DEF MallocManaged, WithEntry
    <2>2. \A q \in managed : Extent(r) \cap Extent(q) = {}
      BY <1>a, <2>1, FreeIsNew DEF Allocated
    <2>3. /\ \A e \in unified_devices' : e # r => Extent(e) \cap Extent(r) = {}
          /\ Large(r) => Whole(r)
          /\ \A q \in managed :
               Large(q) \/ Large(r) => Pages(q) \cap Pages(r) = {}
      BY <2>1 DEF MeetsRemains, SharesPages
    <2>4. Freeing' = Freeing /\ \A q \in Regions : Whole(q)' = Whole(q)
      BY <2>1 DEF Freeing, Whole
    <2>5. QED
      BY <1>b, <1>c, <2>1, <2>2, <2>3, <2>4
  <1>2. ASSUME NEW t \in Threads, NEW r \in Regions, Malloc(t, r) PROVE Goal
    BY <1>2, <1>d DEF Malloc, threadVars, Freeing
  <1>3. ASSUME NEW t \in Threads, NEW r \in Regions, NEW a \in Extent(r),
               Touch(t, r, a)
        PROVE  Goal
    <2>1. /\ pc' = pc /\ r \in managed
          /\ mapped' = mapped
               \cup IF Large(r) THEN Pages(r) ELSE {Page(a)}
      BY <1>3, <1>a, TouchSucceeds
    <2>2. /\ ~strayed /\ managed' = managed /\ scope' = scope
          /\ unified_devices' = unified_devices
      BY <1>3 DEF Touch
    <2>3. Freeing' = Freeing
      BY <2>1, <2>2 DEF Freeing
    <2>4. ASSUME NEW q \in managed, Large(q), q \notin Freeing
          PROVE  Whole(q)'
      <3>1. Whole(q)
        BY <1>c, <2>2, <2>4
      <3>2. CASE q = r
        <4>1. Pages(r) \subseteq mapped'
          BY <2>1, <2>4, <3>2
        <4>2. QED
          BY <3>2, <4>1 DEF Whole
      <3>3. CASE q # r
        <4>2. Pages(r) \cap Pages(q) = {}
          BY <1>c, <2>1, <2>2, <2>4, <3>3
        <4>3. Page(a) \in Pages(r)
          BY DEF Pages
        <4>4. mapped \subseteq mapped' /\ mapped' \subseteq mapped \cup Pages(r)
          BY <2>1, <4>3
        <4>5. QED
          BY <3>1, <4>2, <4>4 DEF Whole
      <3>4. QED
        BY <3>2, <3>3
    <2>5. QED
      BY <1>c, <2>1, <2>2, <2>3, <2>4
  <1>4. ASSUME NEW t \in Threads, NEW r \in Regions, Write(t, r) PROVE Goal
    BY <1>4, <1>d DEF Write, threadVars, Freeing
  <1>5. ASSUME NEW t \in Threads, NEW r \in Regions, StartFree(t, r) PROVE Goal
    <2>1. /\ ~strayed /\ managed' = managed /\ unified_devices' = unified_devices
          /\ mapped' = mapped \ Unmapped(r) /\ r \in Allocated
          /\ pc' = [pc EXCEPT ![t] = "free"]
          /\ scope' = [scope EXCEPT ![t] = r]
          /\ pc[t] = "idle"
      BY <1>5 DEF StartFree, Goto, Runs
    <2>2. \A q \in Freeing : q \in Freeing'
      BY <1>b, <2>1 DEF Freeing
    <2>3. r \in Freeing'
      BY <1>b, <2>1 DEF Freeing
    <2>4. ASSUME NEW q \in managed, Large(q), q \notin Freeing'
          PROVE  Whole(q)'
      <3>1. Whole(q) /\ ~Unaligned(q) /\ q # r
        BY <1>c, <2>1, <2>2, <2>3, <2>4
      <3>2. Base[q] # Base[r]
        <4>1. Extent(q) \cap Extent(r) = {} /\ q \in Regions
          BY <1>a, <1>b, <2>1, <3>1 DEF AllocInv, Allocated
        <4>2. QED
          BY <4>1, OwnExtent
      <3>3. Unmapped(r) \cap Pages(q) = {}
        <4> SUFFICES ASSUME NEW e \in unified_devices, Base[e] = Base[r],
                            Base[e] % PageSize = 0
                     PROVE  Pages(e) \cap Pages(q) = {}
          BY DEF Unmapped
        <4>1. Extent(e) \cap Extent(q) = {}
          BY <1>c, <2>1, <3>2
        <4>2. Base[q] % PageSize = 0
          BY <2>4, <3>1 DEF Unaligned
        <4>3. QED
          BY <1>b, <4>1, <4>2, OwnPages
      <3>4. QED
        BY <2>1, <3>1, <3>3 DEF Whole
    <2>5. QED
      BY <1>b, <1>c, <2>1, <2>4
  <1>6. ASSUME NEW t \in Threads, FinishFree(t) PROVE Goal
    <2>1. /\ pc[t] = "free" /\ managed' = managed \ {scope[t]}
          /\ pc' = [pc EXCEPT ![t] = "idle"] /\ scope' = [scope EXCEPT ![t] = All]
          /\ unified_devices' = unified_devices /\ mapped' = mapped
          /\ strayed' = strayed
      BY <1>6 DEF FinishFree, Leave, Goto, historyVars
    <2>2. \A q \in managed' : q \in Freeing => q \in Freeing'
      BY <1>b, <2>1 DEF Freeing
    <2>3. QED
      BY <1>b, <1>d, <2>1, <2>2
  <1>7. ASSUME NEW t \in Threads, NEW s, NEW l, MayCall(s, l), StartCall(t, s, l)
        PROVE  Goal
    BY <1>7, <1>b, <1>d DEF StartCall, MayCall, Runs, Goto, memoryVars, Freeing
  <1>8. ASSUME NEW t \in Threads, Push(t) PROVE Goal
    BY <1>8, <1>d DEF Push, historyVars, Freeing
  <1>9. ASSUME NEW t \in Threads, Pull(t) PROVE Goal
    BY <1>9, <1>d DEF Pull, Freeing
  <1>10. ASSUME NEW t \in Threads, CopyFails(t) PROVE Goal
    <2>1. PICK l \in {"idle", "stuck"} : Leave(t, l)
      BY <1>10, FailLeaves
    <2>2. QED
      BY <1>10, <1>b, <1>d, <2>1
         DEF CopyFails, Iterating, Leave, Goto, memoryVars, historyVars, Freeing
  <1>11. ASSUME NEW t \in Threads, EndLoop(t) PROVE Goal
    BY <1>11, <1>b, <1>d
       DEF EndLoop, Iterating, Leave, Goto, memoryVars, historyVars, Freeing
  <1>12. ASSUME NEW t \in Threads, NEW W \in SUBSET Allocated, Execute(t, W)
         PROVE  Goal
    BY <1>12, <1>b, <1>d DEF Execute, Goto, historyVars, Freeing
  <1>13. ASSUME NEW t \in Threads, Send(t) PROVE Goal
    BY <1>13, <1>b, <1>d DEF Send, Goto, memoryVars, historyVars, Freeing
  <1>14. CASE UNCHANGED vars
    BY <1>14, <1>d DEF vars, memoryVars, threadVars, historyVars, Freeing
  <1>15. QED
    BY <1>1, <1>2, <1>3, <1>4, <1>5, <1>6, <1>7, <1>8, <1>9, <1>10, <1>11,
         <1>12, <1>13, <1>14 DEF Next, Program, Progress, LaunchKernel,
         CallWithArray, CallWithNullable, MayCall

-----------------------------------------------------------------------------
LEMMA InitIInv == Init => IInv
  <1> SUFFICES ASSUME Init
               PROVE  IInv
    OBVIOUS
  <1>1. TypeOK
    BY DEF Init, TypeOK, Allocated
  <1>2. Busy = {}
    BY DEF Init, Busy
  <1>3. AllocInv /\ EntryInv
    BY DEF Init, AllocInv, EntryInv, Allocated
  <1>4. ScopeInv /\ SoloInv /\ PhaseInv /\ ReadyInv
    BY <1>2 DEF ScopeInv, SoloInv, PhaseInv, ReadyInv
  <1>5. Coherent /\ CarefulInv /\ PlainInv
    BY <1>2 DEF Init, Coherent, CarefulInv, PlainInv, Intact
  <1>6. FaultInv
    BY DEF Init, FaultInv
  <1>7. QED
    BY <1>1, <1>3, <1>4, <1>5, <1>6 DEF IInv

\* The inductive invariant holds in every state of every behaviour.
THEOREM Invariance == Spec => []IInv
  <1>1. Init => IInv
    BY InitIInv
  <1>2. IInv /\ [Next]_vars => IInv'
    BY TypeStep, AllocStep, EntryStep, ScopeStep, SoloStep, PhaseStep,
       CoherentStep, ReadyStep, CarefulStep, PlainStep, FaultStep DEF IInv
  <1>3. QED
    BY <1>1, <1>2, PTL DEF Spec

\* At rest the host sees what was written last to a region that was neither
\* about two calls at a time, nor harmed by a free or a nullable argument.
THEOREM HostSeesLatest == Spec => []Coherent
  <1>1. IInv => Coherent
    BY DEF IInv
  <1>2. QED
    BY <1>1, Invariance, PTL

\* A kernel finds on the device what was written last to a managed region that
\* was neither about two calls at a time nor harmed, and to memory of cudaMalloc
\* in which cudaFree left no entry.
THEOREM DeviceSeesLatest == Spec => []KernelSeesMemory
  <1>1. IInv => KernelSeesMemory
    <2>1. SUFFICES ASSUME IInv, NEW t \in Threads, pc[t] = "launch"
                   PROVE  /\ Intact \cap About(t) \subseteq current_dev
                          /\ \A q \in plain \ current_dev :
                               \E e \in unified_devices \ managed :
                                 Extent(e) \subseteq Extent(q)
      BY DEF KernelSeesMemory
    <2>2. ASSUME NEW r \in Intact \cap About(t) PROVE r \in current_dev
      <3>1. t \in Busy
        BY <2>1 DEF Busy
      <3>2. QED
        BY <2>1, <3>1 DEF IInv, PhaseInv, Sees
    <2>3. QED
      BY <2>1, <2>2 DEF IInv, PlainInv
  <1>2. QED
    BY <1>1, Invariance, PTL

\* A careful program's calls succeed.
THEOREM CareIsEnough == Spec => []CarefulProgramSucceeds
  <1>1. IInv => CarefulProgramSucceeds
    BY DEF IInv, CarefulInv, CarefulProgramSucceeds
  <1>2. QED
    BY <1>1, Invariance, PTL

\* No access faults for ever, for sizes and addresses of any kind, until a fault
\* may have led to other pages: in a region of more than half a page that is not
\* aligned, shares a page, or is touched in its middle, or where remains of freed
\* memory are left (client.cpp:46-83).
THEOREM FaultsEnd == Spec => []FaultsAreHandled
  <1>1. IInv => FaultsAreHandled
    BY DEF IInv, FaultInv, FaultsAreHandled
  <1>2. QED
    BY <1>1, Invariance, PTL

=============================================================================
