------------------------ MODULE UvcNegotiate_proofs ------------------------
(*
The proofs about UvcNegotiate: the types of every control and answer, the
inductive invariants TransferInv (what the device is set to, the path of the
code and the buffers of a transfer agree) and AgreedInv (every control the
device committed was one of its own answers), and what follows from them.
*)
EXTENDS UvcNegotiate, FiniteSetTheorems, SequenceTheorems, WellFoundedInduction, TLAPS

-----------------------------------------------------------------------------
(* Finite sets of integers, quotients and remainders *)

\* Of the sets of what is above an element one is contained in all others.
LEMMA MaxOfFinite ==
  ASSUME NEW S \in SUBSET Int, S # {}, IsFiniteSet(S)
  PROVE  Max(S) \in S /\ \A y \in S : y <= Max(S)
<1> DEFINE Above(x) == {y \in S : y > x}
           T == {Above(x) : x \in S}
           R == StrictSubsetOrdering(S)
<1>1. IsWellFoundedOn(R, FiniteSubsetsOf(S))
  BY FS_StrictSubsetOrderingWellFounded
<1>2. T \subseteq SUBSET S /\ T # {}
  OBVIOUS
<1>3. T \subseteq FiniteSubsetsOf(S)
  BY <1>2, FS_Subset DEF FiniteSubsetsOf
<1>4. PICK A \in T : \A B \in T : ~(<<B, A>> \in R)
  <2> HIDE DEF R, T
  <2> QED BY <1>1, <1>2, <1>3, WFMin
<1>5. PICK x \in S : A = Above(x)
  OBVIOUS
<1>6. \A y \in S : y <= x
  <2> SUFFICES ASSUME NEW y \in S, ~(y <= x) PROVE FALSE
    OBVIOUS
  <2>1. y > x
    OBVIOUS
  <2>2. Above(y) \in T /\ Above(x) \in T
    OBVIOUS
  <2>3. Above(y) \subseteq Above(x)
    <3> SUFFICES ASSUME NEW z \in S, z > y PROVE z > x
      OBVIOUS
    <3>1. x \in Int /\ y \in Int /\ z \in Int
      OBVIOUS
    <3> QED BY <2>1, <3>1
  <2>4. y \in Above(x) /\ y \notin Above(y)
    <3>1. y \in Int /\ ~(y > y)
      OBVIOUS
    <3> QED BY <2>1, <3>1
  <2> QED BY <1>2, <1>4, <1>5, <2>2, <2>3, <2>4 DEF StrictSubsetOrdering
<1> QED BY <1>6 DEF Max

LEMMA MinOfFinite ==
  ASSUME NEW S \in SUBSET Int, S # {}, IsFiniteSet(S)
  PROVE  \E x \in S : \A y \in S : x <= y
<1> DEFINE N == {-x : x \in S}
<1>1. N \subseteq Int /\ N # {}
  <2>1. \A x \in S : x \in Int /\ -x \in Int
    OBVIOUS
  <2> QED BY <2>1
<1>2. IsFiniteSet(N)
  <2> DEFINE f == [x \in S |-> -x]
  <2>1. f \in Surjection(S, N)
    BY DEF Surjection
  <2> HIDE DEF f, N
  <2> QED BY <2>1, FS_Surjection
<1>3. Max(N) \in N /\ \A y \in N : y <= Max(N)
  <2> HIDE DEF N
  <2> QED BY <1>1, <1>2, MaxOfFinite
<1>4. PICK x \in S : Max(N) = -x
  BY <1>3
<1>5. ASSUME NEW y \in S PROVE x <= y
  <2>1. -y <= -x
    BY <1>3, <1>4
  <2> QED BY <2>1
<1> QED BY <1>5

LEMMA DivMod ==
  ASSUME NEW a \in Int, NEW p \in Nat \ {0}
  PROVE  a % p \in 0 .. p - 1 /\ a \div p \in Int /\ a = p * (a \div p) + (a % p)
<1>1. a % p \in 0 .. p - 1
  OBVIOUS
<1>2. a \div p \in Int
  OBVIOUS
<1>3. a = p * (a \div p) + (a % p)
  OBVIOUS
<1> QED BY <1>1, <1>2, <1>3

\* The only multiple of p between -p and p is 0.
LEMMA SmallMultiple ==
  ASSUME NEW p \in Nat \ {0}, NEW q \in Int, NEW r \in Int, p * q = r, -p < r, r < p
  PROVE  q = 0
<1>1. CASE q >= 1
  <2>1. p * q >= p
    BY <1>1
  <2> QED BY <2>1
<1>2. CASE q <= -1
  <2>1. p * q <= -p
    BY <1>2
  <2> QED BY <2>1
<1> QED BY <1>1, <1>2

LEMMA DivIs ==
  ASSUME NEW p \in Nat \ {0}, NEW q \in Int, NEW r \in 0 .. p - 1
  PROVE  (p * q + r) \div p = q /\ (p * q + r) % p = r
<1> DEFINE x == p * q + r
           k == q - (x \div p)
<1>1. x \in Int
  OBVIOUS
<1>2. x % p \in 0 .. p - 1 /\ x \div p \in Int /\ x = p * (x \div p) + (x % p)
  BY <1>1, DivMod
<1>3. k \in Int /\ p * k = (x % p) - r
  BY <1>2
<1>4. (x % p) - r \in Int /\ -p < (x % p) - r /\ (x % p) - r < p
  BY <1>2
<1>5. k = 0
  <2> HIDE DEF k
  <2> QED BY <1>3, <1>4, SmallMultiple
<1> QED BY <1>2, <1>5

\* Rounded up, a quotient of natural numbers is one.
LEMMA DivNat ==
  ASSUME NEW a \in Nat, NEW p \in Nat \ {0}
  PROVE  a \div p \in Nat /\ a \div p <= a
<1>1. a % p \in 0 .. p - 1 /\ a \div p \in Int /\ a = p * (a \div p) + (a % p)
  BY DivMod
<1>2. CASE a \div p <= -1
  <2>1. p * (a \div p) <= -p
    BY <1>1, <1>2
  <2> QED BY <1>1, <2>1
<1>3. CASE a \div p >= 0
  <2>1. p * (a \div p) >= a \div p
    BY <1>1, <1>3
  <2> QED BY <1>1, <1>3, <2>1
<1> QED BY <1>1, <1>2, <1>3

-----------------------------------------------------------------------------
(* The descriptors *)

LEMMA NamedAre ==
  ASSUME setup \in SetupType, NEW c, NEW p \in Named(c)
  PROVE  /\ p[1] \in DOMAIN Formats /\ Formats[p[1]] \in FormatType
         /\ p[2] \in DOMAIN Formats[p[1]].frames /\ FrameAt(p[1], p[2]) \in FrameType
<1>1. PICK i \in DOMAIN Formats : p \in {i} \X DOMAIN Formats[i].frames
  BY DEF Named
<1>2. Formats \in Seq(FormatType)
  BY DEF Formats, SetupType
<1>3. Formats[i] \in FormatType
  BY <1>2
<1>4. Formats[i].frames \in Seq(FrameType)
  BY <1>3 DEF FormatType
<1>5. p[1] = i /\ p[2] \in DOMAIN Formats[i].frames
  BY <1>1
<1>6. Formats[i].frames[p[2]] \in FrameType
  BY <1>4, <1>5
<1> QED BY <1>3, <1>5, <1>6 DEF FrameAt

LEMMA DescribedAre ==
  ASSUME setup \in SetupType, NEW c, Described(c)
  PROVE  /\ FrameOf(c) \in FrameType /\ CompressedOf(c) \in BOOLEAN
         /\ \E p \in Named(c) : FrameOf(c) = FrameAt(p[1], p[2])
                                /\ CompressedOf(c) = Formats[p[1]].compressed
<1> DEFINE p == CHOOSE p \in Named(c) : TRUE
<1>1. p \in Named(c)
  BY DEF Described
<1>2. FrameOf(c) = FrameAt(p[1], p[2]) /\ CompressedOf(c) = Formats[p[1]].compressed
  BY DEF FrameOf, CompressedOf
<1> HIDE DEF p
<1>3. Formats[p[1]] \in FormatType /\ FrameAt(p[1], p[2]) \in FrameType
  BY <1>1, NamedAre
<1>4. Formats[p[1]].compressed \in BOOLEAN
  BY <1>3 DEF FormatType
<1> QED BY <1>1, <1>2, <1>3, <1>4

\* What names the same format and frame has the same descriptor.
LEMMA SameNames ==
  ASSUME NEW c, NEW d, c.format = d.format, c.frame = d.frame
  PROVE  /\ Named(c) = Named(d) /\ Described(c) = Described(d)
         /\ FrameOf(c) = FrameOf(d) /\ CompressedOf(c) = CompressedOf(d)
<1>1. Named(c) = Named(d)
  BY DEF Named
<1> QED BY <1>1 DEF Described, FrameOf, CompressedOf

LEMMA MaxPsize ==
  ASSUME setup \in SetupType
  PROVE  /\ maxpsize \in 0 .. Half * Half - 1
         /\ \A i \in DOMAIN setup.alts : setup.alts[i] \in 1 .. Half * Half - 1
                                         /\ setup.alts[i] <= maxpsize
         /\ Isochronous => \E i \in DOMAIN setup.alts : setup.alts[i] = maxpsize
<1> DEFINE D == DOMAIN setup.alts
           f == [i \in D |-> setup.alts[i]]
           B == Half * Half - 1
<1>1. setup.alts \in Seq(1 .. B) /\ D = 1 .. Len(setup.alts) /\ Len(setup.alts) \in Nat
  BY DEF SetupType
<1>2. B \in Nat
  <2>1. Half \in Nat \ {0}
    BY BoundsAssumption
  <2>2. Half * Half \in Nat /\ Half * Half >= Half
    BY <2>1
  <2> QED BY <2>1, <2>2
<1>3. \A i \in D : setup.alts[i] \in 1 .. B
  <2> TAKE i \in D
  <2> HIDE DEF B, D
  <2>1. i \in 1 .. Len(setup.alts)
    BY <1>1
  <2> QED BY <1>1, <2>1, ElementOfSeq
<1>4. IsFiniteSet(Psizes)
  <2>1. IsFiniteSet(D)
    BY <1>1, FS_Interval
  <2>2. f \in Surjection(D, Psizes)
    BY DEF Psizes, Surjection
  <2> HIDE DEF f, D
  <2> QED BY <2>1, <2>2, FS_Surjection
<1>5. IsFiniteSet(Psizes \cup {0})
  BY <1>4, FS_AddElement
<1> HIDE DEF B
<1>6. Psizes \cup {0} \in SUBSET Int
  BY <1>2, <1>3 DEF Psizes
<1>7. maxpsize \in Psizes \cup {0} /\ \A y \in Psizes \cup {0} : y <= maxpsize
  BY <1>5, <1>6, MaxOfFinite DEF maxpsize
<1>8. maxpsize \in 0 .. B /\ \A i \in D : setup.alts[i] <= maxpsize
  BY <1>2, <1>3, <1>7 DEF Psizes
<1>9. ASSUME Isochronous PROVE \E i \in D : setup.alts[i] = maxpsize
  <2>1. D # {}
    BY <1>1, <1>9 DEF Isochronous
  <2>2. PICK i \in D : TRUE
    BY <2>1
  <2>3. maxpsize # 0
    BY <1>2, <1>3, <1>8, <2>2
  <2> QED BY <1>7, <2>3 DEF Psizes
<1> QED BY <1>3, <1>8, <1>9 DEF B

-----------------------------------------------------------------------------
(* Answers *)

LEMMA HalfSquared ==
  /\ Half \in Nat \ {0} /\ Half * Half \in Nat /\ Half <= Half * Half
  /\ Half * (Half - 1) = Half * Half - Half
<1>1. Half \in Nat \ {0}
  BY BoundsAssumption
<1>2. Half * Half \in Nat /\ Half * Half >= Half
  BY <1>1
<1>3. Half * (Half - 1) = Half * Half - Half
  BY <1>1
<1> QED BY <1>1, <1>2, <1>3

LEMMA SignDroppedTyped ==
  ASSUME NEW n \in 0 .. Half * Half - 1
  PROVE  SignDropped(n) \in 0 .. Half * Half - 1
<1>1. n % Half \in 0 .. Half - 1
  BY HalfSquared, DivMod
<1>2. n % Half \in 0 .. Half * Half - 1
  BY <1>1, HalfSquared
<1> QED BY <1>2 DEF SignDropped

LEMMA MaxOfTwo ==
  ASSUME NEW a \in Int, NEW b \in Int
  PROVE  Max({a, b}) \in {a, b} /\ Max({a, b}) >= a /\ Max({a, b}) >= b
<1>1. \E x \in {a, b} : \A y \in {a, b} : x >= y
  <2>1. CASE a >= b
    BY <2>1
  <2>2. CASE ~(a >= b)
    <3>1. b >= a
      BY <2>2
    <3> QED BY <3>1
  <2> QED BY <2>1, <2>2
<1> QED BY <1>1 DEF Max

LEMMA MinOfTwo ==
  ASSUME NEW a \in Int, NEW b \in Int
  PROVE  Min({a, b}) \in {a, b} /\ Min({a, b}) <= a /\ Min({a, b}) <= b
<1>1. \E x \in {a, b} : \A y \in {a, b} : x <= y
  <2>1. CASE a <= b
    BY <2>1
  <2>2. CASE ~(a <= b)
    <3>1. b <= a
      BY <2>2
    <3> QED BY <3>1
  <2> QED BY <2>1, <2>2
<1> QED BY <1>1 DEF Min

\* With an interface of alternate settings, no more than the widest of them is asked for.
LEMMA PayloadFits ==
  ASSUME setup \in SetupType, NEW c \in Controls, Described(c)
  PROVE  /\ Bandwidth(c) \in Nat
         /\ Capped(Bandwidth(c)) \in 0 .. Half * Half - 1
         /\ Isochronous => Capped(Bandwidth(c)) <= maxpsize
<1> DEFINE B == Half * Half - 1
<1>1. c.payload \in 0 .. B /\ B \in Nat
  BY HalfSquared DEF Controls
<1>2. SignDropped(c.payload) \in 0 .. B
  BY <1>1, SignDroppedTyped
<1>3. FrameOf(c).estimate \in Nat
  BY DescribedAre DEF FrameType
<1>4. Max({FrameOf(c).estimate, LowestEstimate}) \in Nat
  <2> DEFINE e == FrameOf(c).estimate
  <2>1. e \in Nat /\ LowestEstimate \in Nat
    BY <1>3, BoundsAssumption
  <2> HIDE DEF e
  <2>2. Max({e, LowestEstimate}) \in {e, LowestEstimate}
    BY <2>1, MaxOfTwo
  <2> QED BY <2>1, <2>2 DEF e
<1>5. Bandwidth(c) \in Nat /\ (~Isochronous => Bandwidth(c) \in 0 .. B)
  BY <1>1, <1>2, <1>4 DEF Bandwidth
<1>6. maxpsize \in 0 .. B
  BY MaxPsize
<1> HIDE DEF B
<1>7. CASE Isochronous
  BY <1>1, <1>5, <1>6, <1>7 DEF Capped, B
<1>8. CASE ~Isochronous
  BY <1>1, <1>5, <1>6, <1>8 DEF Capped, B
<1> QED BY <1>5, <1>7, <1>8

LEMMA CorrectedTyped ==
  ASSUME NEW c \in Controls
  PROVE  /\ CorrectedHint(c) \in Controls /\ CorrectedHint(c).quality = c.quality
         /\ CorrectedHint(c).tuning = c.tuning /\ CorrectedHint(c).frame = c.frame
         /\ CorrectedHint(c).size = c.size /\ CorrectedHint(c).payload = c.payload
<1>1. c.hint \in Nat
  BY DEF Controls
<1>2. c.hint \div 256 \in Nat
  BY <1>1, DivNat
<1> QED BY <1>2 DEF CorrectedHint, Controls

LEMMA FixedUpTyped ==
  ASSUME setup \in SetupType, NEW answer \in Controls
  PROVE  /\ FixedUp(answer) \in Controls
         /\ FixedUp(answer).format = CorrectedHint(answer).format
         /\ FixedUp(answer).frame = answer.frame
         /\ FixedUp(answer).quality = answer.quality /\ FixedUp(answer).tuning = answer.tuning
         /\ Described(CorrectedHint(answer)) =>
              /\ FixedUp(answer).size = FrameSize(CorrectedHint(answer))
              /\ FixedUp(answer).payload = Capped(Bandwidth(CorrectedHint(answer)))
              /\ Isochronous => FixedUp(answer).payload <= maxpsize
<1> DEFINE c == CorrectedHint(answer)
<1>1. /\ c \in Controls /\ c.quality = answer.quality /\ c.tuning = answer.tuning
      /\ c.frame = answer.frame
  BY CorrectedTyped
<1>2. FixedUp(answer) = IF ~Described(c) THEN c
                        ELSE [c EXCEPT !.size = FrameSize(c), !.payload = Capped(Bandwidth(c))]
  BY DEF FixedUp
<1> HIDE DEF c
<1>3. CASE ~Described(c)
  BY <1>1, <1>2, <1>3 DEF c
<1>4. CASE Described(c)
  <2>1. FrameSize(c) \in Nat
    <3>1. FrameOf(c).size \in Nat /\ c.size \in Nat
      BY <1>1, <1>4, DescribedAre DEF FrameType, Controls
    <3> QED BY <3>1 DEF FrameSize
  <2>2. Capped(Bandwidth(c)) \in 0 .. Half * Half - 1 /\ (Isochronous => Capped(Bandwidth(c)) <= maxpsize)
    BY <1>1, <1>4, PayloadFits
  <2>3. FixedUp(answer) = [c EXCEPT !.size = FrameSize(c), !.payload = Capped(Bandwidth(c))]
    BY <1>2, <1>4
  <2> DEFINE z == FrameSize(c)
             p == Capped(Bandwidth(c))
             P == 0 .. Half * Half - 1
  <2>4. z \in Nat /\ p \in P /\ FixedUp(answer) = [c EXCEPT !.size = z, !.payload = p]
    BY <2>1, <2>2, <2>3
  <2>5. c \in [hint : Nat, format : Nat, frame : Nat, quality : 0 .. MaxQuality,
               tuning : 0 .. 2, size : Nat, payload : P]
    BY <1>1 DEF Controls
  <2> HIDE DEF z, p, P
  <2>6. /\ FixedUp(answer) \in [hint : Nat, format : Nat, frame : Nat, quality : 0 .. MaxQuality,
                                tuning : 0 .. 2, size : Nat, payload : P]
        /\ FixedUp(answer).format = c.format /\ FixedUp(answer).frame = c.frame
        /\ FixedUp(answer).quality = c.quality /\ FixedUp(answer).tuning = c.tuning
        /\ FixedUp(answer).size = z /\ FixedUp(answer).payload = p
    BY <2>4, <2>5
  <2>7. FixedUp(answer) \in Controls
    BY <2>6 DEF Controls, P
  <2> QED BY <1>1, <2>2, <2>6, <2>7 DEF c, z, p
<1> QED BY <1>3, <1>4

LEMMA NeededTyped ==
  ASSUME setup \in SetupType, NEW s, s.tuning \in {1, 2}, Described(s)
  PROVE  Needed(s) \in 1 .. Half - 1 /\ FrameOf(s).size \in Nat \ {0}
<1>1. FrameOf(s) \in FrameType
  BY DescribedAre
<1>2. FrameOf(s).needs \in [1 .. 2 -> 1 .. Half - 1]
  BY <1>1 DEF FrameType
<1> QED BY <1>1, <1>2 DEF Needed, FrameType

LEMMA AskedTyped ==
  ASSUME setup \in SetupType, NEW s, s.tuning \in {1, 2}
  PROVE  Asked(s) \in 0 .. Half * Half - 1
<1>1. CASE ~Described(s)
  <2> DEFINE H == Half * Half
  <2>1. H \in Nat /\ H >= 1
    BY HalfSquared
  <2> HIDE DEF H
  <2>2. 0 \in 0 .. H - 1
    BY <2>1
  <2> QED BY <1>1, <2>2 DEF Asked, H
<1>2. CASE Described(s)
  <2> DEFINE n == Needed(s)
             H == Half * Half
             K == Half * (Half - 1)
  <2>1. n \in 1 .. Half - 1
    BY <1>2, NeededTyped
  <2>2. H \in Nat /\ Half \in Nat /\ Half <= H /\ K = H - Half
    BY HalfSquared
  <2>3. Half >= 2 /\ H >= 2 * Half
    <3>1. Half >= 2
      BY <2>1, <2>2
    <3> QED BY <2>2, <3>1
  <2>4. Asked(s) = CASE setup.asks = "huge" -> H - Half - 1
                     [] setup.asks = "extended" /\ 2 * n >= Half -> K + n
                     [] OTHER -> n
    BY <1>2 DEF Asked
  <2> HIDE DEF n, H, K
  <2>5. Asked(s) \in {H - Half - 1, K + n, n}
    BY <2>4
  <2>6. Asked(s) \in 0 .. H - 1
    BY <2>1, <2>2, <2>3, <2>5
  <2> QED BY <2>6 DEF H
<1> QED BY <1>1, <1>2

LEMMA AnswerTyped ==
  ASSUME setup \in SetupType, NEW s \in Settings, s.tuning # 0
  PROVE  /\ Answer(s) \in Controls
         /\ Answer(s).quality = s.quality /\ Answer(s).tuning = s.tuning
         /\ Answer(s).payload = Asked(s)
<1>1. s.format \in Nat /\ s.frame \in Nat /\ s.quality \in 0 .. MaxQuality /\ s.tuning \in {1, 2}
  BY DEF Settings
<1>2. Asked(s) \in 0 .. Half * Half - 1
  BY <1>1, AskedTyped
<1> DEFINE h == IF "elgato" \in setup.quirks THEN 256 * s.format ELSE 1
           f == IF setup.zeroIndex THEN 0 ELSE IF "elgato" \in setup.quirks THEN 1 ELSE s.format
           r == IF setup.zeroIndex THEN 0 ELSE s.frame
           z == IF ~Described(s) THEN 0
                ELSE CASE setup.sizes = "null" -> 0
                       [] setup.sizes = "short" -> FrameOf(s).size \div 2
                       [] setup.sizes = "right" -> FrameOf(s).size
           P == 0 .. Half * Half - 1
<1>3. z \in Nat
  <2> DEFINE n == FrameOf(s).size
  <2>1. z = IF ~Described(s) THEN 0
            ELSE CASE setup.sizes = "null" -> 0
                   [] setup.sizes = "short" -> n \div 2
                   [] setup.sizes = "right" -> n
    OBVIOUS
  <2>2. Described(s) => n \in Nat /\ n \div 2 \in Nat
    <3>1. Described(s) => n \in Nat
      BY <1>1, NeededTyped
    <3> HIDE DEF n
    <3> QED BY <3>1, DivNat
  <2>3. setup.sizes \in {"right", "null", "short"}
    BY DEF SetupType
  <2> HIDE DEF n, z
  <2> QED BY <2>1, <2>2, <2>3
<1>4. h \in Nat /\ f \in Nat /\ r \in Nat
  <2>1. 256 * s.format \in Nat
    BY <1>1
  <2> QED BY <1>1, <2>1
<1>5. Answer(s) = [hint |-> h, format |-> f, frame |-> r, quality |-> s.quality,
                   tuning |-> s.tuning, size |-> z, payload |-> Asked(s)]
  BY DEF Answer
<1> HIDE DEF h, f, r, z, P
<1>6. /\ Answer(s) \in [hint : Nat, format : Nat, frame : Nat, quality : 0 .. MaxQuality,
                        tuning : 0 .. 2, size : Nat, payload : P]
      /\ Answer(s).quality = s.quality /\ Answer(s).tuning = s.tuning
      /\ Answer(s).payload = Asked(s)
  BY <1>1, <1>2, <1>3, <1>4, <1>5 DEF P
<1> QED BY <1>6 DEF Controls, P

\* The answer that the driver corrects.
Reply(s) == FixedUp(Answer(s))

LEMMA ReplyTyped ==
  ASSUME setup \in SetupType, NEW s \in Settings, s.tuning # 0
  PROVE  Reply(s) \in Controls /\ Reply(s).quality = s.quality /\ Reply(s).tuning = s.tuning
BY AnswerTyped, FixedUpTyped DEF Reply

-----------------------------------------------------------------------------
(* What does not change *)

LEMMA DescriptorsStay ==
  ASSUME setup' = setup, NEW c
  PROVE  /\ Named(c)' = Named(c) /\ Described(c)' = Described(c)
         /\ FrameOf(c)' = FrameOf(c) /\ CompressedOf(c)' = CompressedOf(c)
         /\ Isochronous' = Isochronous /\ maxpsize' = maxpsize
<1>1. Named(c)' = Named(c)
  BY DEF Named, Formats, FrameAt
<1>2. Described(c)' = Described(c) /\ FrameOf(c)' = FrameOf(c) /\ CompressedOf(c)' = CompressedOf(c)
  BY <1>1 DEF Described, FrameOf, CompressedOf, Formats, FrameAt
<1>3. Isochronous' = Isochronous /\ maxpsize' = maxpsize
  BY DEF Isochronous, maxpsize, Psizes
<1> QED BY <1>1, <1>2, <1>3

LEMMA FixedUpStays ==
  ASSUME setup' = setup, NEW c
  PROVE  FixedUp(c)' = FixedUp(c)
<1>1. CorrectedHint(c)' = CorrectedHint(c)
  BY DEF CorrectedHint
<1>2. PICK d : d = CorrectedHint(c)
  OBVIOUS
<1>3. FrameSize(d)' = FrameSize(d)
  BY DescriptorsStay DEF FrameSize
<1>4. Bandwidth(d)' = Bandwidth(d)
  BY DescriptorsStay DEF Bandwidth
<1>5. PICK n : n = Bandwidth(d)
  OBVIOUS
<1>6. Capped(n)' = Capped(n)
  BY DescriptorsStay DEF Capped
<1>7. FixedUp(c)' = IF ~Described(d)' THEN d
                    ELSE [d EXCEPT !.size = FrameSize(d)', !.payload = Capped(n)']
  BY <1>1, <1>2, <1>4, <1>5 DEF FixedUp
<1>8. FixedUp(c) = IF ~Described(d) THEN d
                   ELSE [d EXCEPT !.size = FrameSize(d), !.payload = Capped(n)]
  BY <1>2, <1>5 DEF FixedUp
<1>9. Described(d)' = Described(d)
  BY DescriptorsStay
<1> QED BY <1>3, <1>6, <1>7, <1>8, <1>9

LEMMA ReplyStays ==
  ASSUME setup' = setup, NEW s
  PROVE  Reply(s)' = Reply(s)
<1>1. Asked(s)' = Asked(s)
  BY DescriptorsStay DEF Asked, Needed
<1>2. Answer(s)' = Answer(s)
  <2>1. Described(s)' = Described(s) /\ FrameOf(s)' = FrameOf(s)
    BY DescriptorsStay
  <2> DEFINE size == IF ~Described(s) THEN 0
                     ELSE CASE setup.sizes = "null" -> 0
                            [] setup.sizes = "short" -> FrameOf(s).size \div 2
                            [] setup.sizes = "right" -> FrameOf(s).size
  <2>2. PICK f : f = FrameOf(s)
    OBVIOUS
  <2>3. size' = size
    <3>1. CASE Described(s)
      BY <2>1, <2>2, <3>1
    <3>2. CASE ~Described(s)
      BY <2>1, <3>2
    <3> QED BY <3>1, <3>2
  <2>4. Answer(s) =
          [hint |-> IF "elgato" \in setup.quirks THEN 256 * s.format ELSE 1,
           format |-> IF setup.zeroIndex THEN 0 ELSE IF "elgato" \in setup.quirks THEN 1 ELSE s.format,
           frame |-> IF setup.zeroIndex THEN 0 ELSE s.frame,
           quality |-> s.quality, tuning |-> s.tuning, size |-> size, payload |-> Asked(s)]
    BY DEF Answer
  <2>5. Answer(s)' =
          [hint |-> IF "elgato" \in setup.quirks THEN 256 * s.format ELSE 1,
           format |-> IF setup.zeroIndex THEN 0 ELSE IF "elgato" \in setup.quirks THEN 1 ELSE s.format,
           frame |-> IF setup.zeroIndex THEN 0 ELSE s.frame,
           quality |-> s.quality, tuning |-> s.tuning, size |-> size', payload |-> Asked(s)']
    BY DEF Answer
  <2> HIDE DEF size
  <2> QED BY <1>1, <2>3, <2>4, <2>5
<1>3. PICK a : a = Answer(s)
  OBVIOUS
<1>4. FixedUp(a)' = FixedUp(a)
  BY FixedUpStays
<1> QED BY <1>2, <1>3, <1>4 DEF Reply

LEMMA DefaultStays == setup' = setup => Default' = Default
BY DEF Default, Formats, FrameAt

-----------------------------------------------------------------------------
(* The bandwidth of a transfer *)

\* A transfer is set up.
Transfers == streaming /\ ~suspended /\ pc \notin {"commit", "select", "allocate"}

\* What the size of a packet and their number are with the bandwidth of ctrl.
PsizeFor == IF Isochronous THEN setup.alts[Narrowest(WideEnough)] ELSE setup.packet
PacketsFor == Min({(TransferSize + PsizeFor - 1) \div PsizeFor, MaxPackets})

\* The transfer buffers hold n packets of that size.
Fits(n) ==
  n \in 1 .. MaxPackets /\ urb_size = n * PsizeFor /\ (faults = 0 => n = PacketsFor)

\* A probe runs on a streaming stream to try a format only, and buffers that are kept
\* are those of a stream that goes on.
PathInv ==
  /\ suspended => pc = "idle"
  /\ streaming => pc \notin {"new", "initSet", "initCur", "failed"}
  /\ streaming /\ pc \in {"setAsked", "getMin", "getMax", "set", "getCur"} => aim = "try"
  /\ ~streaming => urb_size = 0

\* The alternate setting and the buffers are those of the bandwidth of ctrl, which does
\* not change while there are any.
UrbInv ==
  /\ (pc = "allocate" \/ Transfers) /\ Isochronous
       => WideEnough # {} /\ alt = Narrowest(WideEnough)
  /\ urb_size # 0 => (Isochronous => WideEnough # {}) /\ \E n \in 1 .. MaxPackets : Fits(n)
  /\ Transfers => Fits(npackets)

TransferInv == TypeOK /\ chosen.tuning # 0 /\ PathInv /\ UrbInv

LEMMA NarrowestIs ==
  ASSUME setup \in SetupType, WideEnough # {}
  PROVE  /\ Narrowest(WideEnough) \in WideEnough
         /\ \A k \in WideEnough : setup.alts[Narrowest(WideEnough)] <= setup.alts[k]
<1> DEFINE W == WideEnough
           f == [i \in W |-> setup.alts[i]]
           S == {setup.alts[i] : i \in W}
<1>1. W \subseteq DOMAIN setup.alts
  BY DEF WideEnough
<1>2. \A i \in W : setup.alts[i] \in Int
  <2>1. \A i \in DOMAIN setup.alts : setup.alts[i] \in 1 .. Half * Half - 1
    BY MaxPsize
  <2> HIDE DEF W
  <2> QED BY <1>1, <2>1
<1>3. IsFiniteSet(S)
  <2>1. IsFiniteSet(DOMAIN setup.alts)
    <3>1. DOMAIN setup.alts = 1 .. Len(setup.alts) /\ Len(setup.alts) \in Nat
      BY DEF SetupType
    <3> QED BY <3>1, FS_Interval
  <2>2. IsFiniteSet(W)
    BY <1>1, <2>1, FS_Subset
  <2>3. f \in Surjection(W, S)
    BY DEF Surjection
  <2> HIDE DEF W, f, S
  <2> QED BY <2>2, <2>3, FS_Surjection
<1>4. S \in SUBSET Int /\ S # {}
  BY <1>2
<1>5. PICK x \in S : \A y \in S : x <= y
  <2> HIDE DEF S
  <2> QED BY <1>3, <1>4, MinOfFinite
<1>6. \E i \in W : \A k \in W : setup.alts[i] <= setup.alts[k]
  BY <1>5
<1> QED BY <1>6 DEF Narrowest

LEMMA TransferTyped ==
  ASSUME setup \in SetupType, ctrl \in Controls, Isochronous => WideEnough # {}
  PROVE  PsizeFor \in Nat \ {0} /\ PacketsFor \in 0 .. MaxPackets
<1>1. PsizeFor \in Nat \ {0}
  <2>1. CASE Isochronous
    <3>1. Narrowest(WideEnough) \in DOMAIN setup.alts
      BY <2>1, NarrowestIs DEF WideEnough
    <3>2. setup.alts[Narrowest(WideEnough)] \in 1 .. Half * Half - 1
      BY <3>1, MaxPsize
    <3> QED BY <2>1, <3>2, HalfSquared DEF PsizeFor
  <2>2. CASE ~Isochronous
    BY <2>2 DEF PsizeFor, SetupType
  <2> QED BY <2>1, <2>2
<1>2. TransferSize \in Nat
  BY HalfSquared DEF TransferSize, Controls
<1> DEFINE a == TransferSize + PsizeFor - 1
           q == a \div PsizeFor
<1>3. a \in Nat
  BY <1>1, <1>2
<1>4. q \in Nat
  <2> HIDE DEF a
  <2> QED BY <1>1, <1>3, DivNat
<1>5. MaxPackets \in Nat
  BY BoundsAssumption
<1>6. PacketsFor = Min({q, MaxPackets})
  BY DEF PacketsFor
<1> HIDE DEF q
<1>7. Min({q, MaxPackets}) \in {q, MaxPackets} /\ Min({q, MaxPackets}) <= MaxPackets
  BY <1>4, <1>5, MinOfTwo
<1>8. PacketsFor \in Nat /\ PacketsFor <= MaxPackets
  BY <1>4, <1>5, <1>6, <1>7
<1> QED BY <1>1, <1>5, <1>8

LEMMA BandwidthStays ==
  ASSUME setup' = setup, ctrl' = ctrl
  PROVE  WideEnough' = WideEnough /\ PsizeFor' = PsizeFor /\ PacketsFor' = PacketsFor
<1>1. WideEnough' = WideEnough
  BY DEF WideEnough
<1>2. PICK W : W = WideEnough
  OBVIOUS
<1>3. Narrowest(W)' = Narrowest(W)
  BY DEF Narrowest
<1>4. Isochronous' = Isochronous
  BY DEF Isochronous
<1>5. PsizeFor' = PsizeFor
  BY <1>1, <1>2, <1>3, <1>4 DEF PsizeFor
<1>6. TransferSize' = TransferSize
  BY <1>4 DEF TransferSize
<1> QED BY <1>1, <1>5, <1>6 DEF PacketsFor

LEMMA UrbsStay ==
  ASSUME UrbInv, setup' = setup, ctrl' = ctrl, alt' = alt \/ ~Transfers', urb_size' = urb_size,
         npackets' = npackets \/ ~Transfers', faults' = 0 => faults = 0,
         pc' # "allocate", Transfers' => Transfers
  PROVE  UrbInv'
<1>1. WideEnough' = WideEnough /\ PsizeFor' = PsizeFor /\ PacketsFor' = PacketsFor
  BY BandwidthStays
<1>2. Isochronous' = Isochronous
  BY DEF Isochronous
<1>3. ASSUME NEW n, Fits(n) PROVE Fits(n)'
  BY <1>1, <1>3 DEF Fits
<1>4. urb_size' # 0 => (Isochronous' => WideEnough' # {}) /\ \E n \in 1 .. MaxPackets : Fits(n)'
  BY <1>1, <1>2, <1>3 DEF UrbInv
<1>5. ASSUME Transfers' PROVE Fits(npackets)'
  <2>1. Fits(npackets) /\ npackets' = npackets
    BY <1>5 DEF UrbInv
  <2> QED BY <1>1, <2>1 DEF Fits
<1>6. ASSUME Transfers', Isochronous' PROVE WideEnough' # {} /\ alt' = Narrowest(WideEnough)'
  <2>1. WideEnough # {} /\ alt = Narrowest(WideEnough) /\ alt' = alt
    BY <1>2, <1>6 DEF UrbInv
  <2>2. PICK W : W = WideEnough
    OBVIOUS
  <2>3. Narrowest(W)' = Narrowest(W)
    BY DEF Narrowest
  <2> QED BY <1>1, <2>1, <2>2, <2>3
<1> QED BY <1>4, <1>5, <1>6 DEF UrbInv

LEMMA NoUrbs ==
  ASSUME urb_size' = 0, pc' # "allocate", ~Transfers'
  PROVE  UrbInv'
BY DEF UrbInv

-----------------------------------------------------------------------------
(* The steps of the control path *)

LEMMA AdoptedTyped ==
  ASSUME NEW c \in Controls, chosen \in Settings
  PROVE  Adopted(c) \in Settings /\ Adopted(c).tuning # 0
<1> DEFINE b == IF Described(c) THEN Setting(c) ELSE chosen
           t == IF c.tuning = 0 THEN 2 ELSE c.tuning
           Q == 0 .. MaxQuality
           T == 0 .. 2
<1>1. c.format \in Nat /\ c.frame \in Nat /\ c.quality \in Q /\ c.tuning \in T
  BY DEF Controls
<1>2. b \in [format : Nat, frame : Nat, quality : Q, tuning : T]
  <2>1. Setting(c) \in [format : Nat, frame : Nat, quality : Q, tuning : T]
    BY <1>1 DEF Setting
  <2> QED BY <2>1 DEF Settings
<1>3. t \in T /\ t # 0
  BY <1>1
<1>4. Adopted(c) = [b EXCEPT !.quality = c.quality, !.tuning = t]
  BY DEF Adopted
<1> HIDE DEF b, t, Q, T
<1>5. Adopted(c) \in [format : Nat, frame : Nat, quality : Q, tuning : T] /\ Adopted(c).tuning = t
  BY <1>1, <1>2, <1>3, <1>4
<1> QED BY <1>3, <1>5 DEF Settings, Q, T

LEMMA DefaultTyped ==
  ASSUME setup \in SetupType
  PROVE  Default \in Settings /\ Default.tuning # 0 /\ Default.quality = 1 /\ Default.tuning = 2
<1> DEFINE i == Len(Formats)
           fs == Formats[i].frames
           j == Len(fs)
           r == IF j = 0 THEN 0 ELSE FrameAt(i, j).index
<1>1. Formats \in Seq(FormatType) /\ Formats # <<>>
  BY DEF Formats, SetupType
<1>2. i \in DOMAIN Formats /\ Formats[i] \in FormatType
  <2>1. i \in 1 .. Len(Formats) /\ DOMAIN Formats = 1 .. Len(Formats)
    BY <1>1
  <2> QED BY <1>1, <2>1, ElementOfSeq
<1>3. Formats[i].index \in Nat /\ fs \in Seq(FrameType)
  BY <1>2 DEF FormatType
<1>4. r \in Nat
  <2> HIDE DEF fs
  <2>1. CASE j # 0
    <3>1. j \in 1 .. Len(fs)
      BY <1>3, <2>1
    <3>2. fs[j] \in FrameType
      BY <1>3, <3>1, ElementOfSeq
    <3>3. fs[j].index \in Nat
      BY <3>2 DEF FrameType
    <3> QED BY <3>3 DEF FrameAt, fs
  <2>2. CASE j = 0
    BY <2>2
  <2> QED BY <2>1, <2>2
<1>5. Default = [format |-> Formats[i].index, frame |-> r, quality |-> 1, tuning |-> 2]
  BY DEF Default
<1> HIDE DEF i, r
<1> QED BY <1>3, <1>4, <1>5 DEF Settings, MaxQuality

LEMMA ZeroTyped == Zero \in Controls /\ Nothing \in Settings
<1>1. 0 \in 0 .. Half * Half - 1
  BY HalfSquared
<1>2. Zero \in Controls
  BY <1>1 DEF Zero, Controls, MaxQuality
<1> QED BY <1>2 DEF Nothing, Setting, Zero, Settings, MaxQuality

LEMMA TypeNow ==
  ASSUME TransferInv
  PROVE  /\ setup \in SetupType /\ ctrl \in Controls /\ probe \in Controls
         /\ probe_min \in Controls /\ probe_max \in Controls /\ chosen \in Settings
         /\ committed \in Settings /\ answered \subseteq Settings
         /\ chosen.tuning # 0 /\ faults \in Nat /\ MaxFaults \in Nat
BY SetupsAssumption, BoundsAssumption DEF TransferInv, TypeOK

LEMMA TransferInit == Init => TransferInv
<1> SUFFICES ASSUME Init PROVE TransferInv
  OBVIOUS
<1>1. setup \in SetupType
  BY SetupsAssumption DEF Init
<1>2. Default \in Settings /\ Default.tuning # 0 /\ Zero \in Controls /\ Nothing \in Settings
  BY <1>1, DefaultTyped, ZeroTyped
<1>3. MaxFaults \in Nat /\ MaxPackets \in Nat
  BY BoundsAssumption
<1>4. TypeOK
  <2>1. [format |-> 0, frame |-> 0] \in Pairs
    BY DEF Pairs
  <2>2. {probe, probe_min, probe_max, ctrl} \subseteq Controls
    BY <1>2 DEF Init
  <2>3. {chosen, committed} \cup answered \subseteq Settings
    BY <1>2 DEF Init
  <2>4. 0 \in 0 .. MaxFaults /\ 0 \in 0 .. MaxPackets
    BY <1>3
  <2> QED BY <2>1, <2>2, <2>3, <2>4 DEF Init, TypeOK
<1> QED BY <1>2, <1>4 DEF Init, TransferInv, PathInv, UrbInv, Transfers

LEMMA FaultTyped ==
  ASSUME TransferInv, Fault \/ NoFault
  PROVE  faults' \in 0 .. MaxFaults /\ (faults' = 0 => faults = 0)
BY BoundsAssumption DEF TransferInv, TypeOK, Fault, NoFault

LEMMA InitGetDefStep ==
  ASSUME TransferInv, InitGetDef
  PROVE  TransferInv'
<1> USE DEF InitGetDef, TransferInv
<1>1. ctrl' \in Controls
  <2>1. Reply(Default) \in Controls
    BY TypeNow, DefaultTyped, ReplyTyped
  <2> QED BY <2>1 DEF Reply, TypeOK
<1>2. faults' \in 0 .. MaxFaults
  BY FaultTyped
<1>3. TypeOK'
  BY <1>1, <1>2 DEF TypeOK, local, transfer, device
<1>4. ~streaming /\ urb_size' = 0 /\ ~streaming' /\ ~suspended'
  BY DEF PathInv, transfer, TypeOK
<1>5. UrbInv'
  BY <1>4, NoUrbs DEF Transfers
<1> QED BY <1>3, <1>4, <1>5 DEF PathInv, device

LEMMA InitSetStep ==
  ASSUME TransferInv, InitSet
  PROVE  TransferInv'
<1> USE DEF InitSet, TransferInv
<1>1. chosen' \in Settings /\ chosen'.tuning # 0
  BY TypeNow, AdoptedTyped
<1>2. faults' \in 0 .. MaxFaults
  BY FaultTyped
<1>3. TypeOK'
  BY <1>1, <1>2 DEF TypeOK, local, stream, transfer
<1>4. urb_size' = 0 /\ ~streaming' /\ ~suspended'
  BY DEF PathInv, stream, transfer, TypeOK
<1>5. UrbInv'
  BY <1>4, NoUrbs DEF Transfers
<1> QED BY <1>1, <1>3, <1>4, <1>5 DEF PathInv

LEMMA PositionTyped ==
  ASSUME NEW n, NEW S, NEW d \in Seq(S), d # <<>>
  PROVE  PositionOr1(n, d) \in DOMAIN d
<1> DEFINE P == {i \in DOMAIN d : d[i].index = n}
<1>1. DOMAIN d = 1 .. Len(d) /\ Len(d) \in Nat /\ Len(d) # 0
  BY EmptySeq
<1>2. CASE P = {}
  BY <1>1, <1>2 DEF PositionOr1
<1>3. CASE P # {}
  <2>1. P \in SUBSET Int /\ IsFiniteSet(DOMAIN d) /\ P \subseteq DOMAIN d
    BY <1>1, FS_Interval
  <2>2. IsFiniteSet(P)
    BY <2>1, FS_Subset
  <2> DEFINE m == Max(P)
  <2>3. m \in P
    <3> HIDE DEF P
    <3> QED BY <1>3, <2>1, <2>2, MaxOfFinite
  <2>4. PositionOr1(n, d) = m
    BY <1>3 DEF PositionOr1
  <2> QED BY <2>3, <2>4
<1> QED BY <1>2, <1>3

\* The descriptors that uvc_video_init finds.
LEMMA FoundTyped ==
  ASSUME setup \in SetupType, NEW c
  PROVE  LET format == Formats[PositionOr1(c.format, Formats)]
             frame == format.frames[PositionOr1(c.frame, format.frames)]
         IN /\ format.index \in Nat /\ format.frames \in Seq(FrameType)
            /\ format.frames # <<>> => frame.index \in Nat
<1> DEFINE i == PositionOr1(c.format, Formats)
           fs == Formats[i].frames
           j == PositionOr1(c.frame, fs)
<1>1. Formats \in Seq(FormatType) /\ Formats # <<>>
  BY DEF Formats, SetupType
<1>2. i \in DOMAIN Formats
  BY <1>1, PositionTyped
<1> HIDE DEF i
<1>3. Formats[i] \in FormatType
  BY <1>1, <1>2
<1>4. Formats[i].index \in Nat /\ fs \in Seq(FrameType)
  BY <1>3 DEF FormatType
<1> HIDE DEF fs
<1>5. ASSUME fs # <<>> PROVE fs[j].index \in Nat
  <2>1. j \in DOMAIN fs
    BY <1>4, <1>5, PositionTyped
  <2> HIDE DEF j
  <2>2. fs[j] \in FrameType
    BY <1>4, <2>1
  <2> QED BY <2>2 DEF FrameType
<1> QED BY <1>4, <1>5 DEF i, fs, j

LEMMA AddAnswer ==
  ASSUME TransferInv, answered' = answered \cup {chosen} \/ answered' = answered,
         chosen' = chosen, committed' = committed
  PROVE  {chosen', committed'} \cup answered' \subseteq Settings
BY TypeNow

LEMMA InitGetCurStep ==
  ASSUME TransferInv, InitGetCur
  PROVE  TransferInv'
<1> USE DEF TransferInv
<1>1. Reply(chosen) \in Controls
  BY TypeNow, ReplyTyped
<1>2. PICK c \in Controls : c = Reply(chosen)
  BY <1>1
<1> DEFINE format == Formats[PositionOr1(c.format, Formats)]
           frame == format.frames[PositionOr1(c.frame, format.frames)]
<1>3. format.index \in Nat /\ (format.frames # <<>> => frame.index \in Nat)
  BY TypeNow, FoundTyped
<1> HIDE DEF format, frame
<1>4. ctrl' \in Controls /\ cur' \in Pairs /\ pc' \in {"failed", "idle"}
  <2>1. CASE /\ format.frames # <<>>
             /\ pc' = "idle" /\ ctrl' = [c EXCEPT !.format = format.index, !.frame = frame.index]
             /\ cur' = [format |-> format.index, frame |-> frame.index]
    <3>1. format.index \in Nat /\ frame.index \in Nat
      BY <1>3, <2>1
    <3>2. cur' \in Pairs
      BY <2>1, <3>1 DEF Pairs
    <3> DEFINE P == 0 .. Half * Half - 1
               Q == 0 .. MaxQuality
    <3>3. c \in [hint : Nat, format : Nat, frame : Nat, quality : Q,
                 tuning : 0 .. 2, size : Nat, payload : P]
      BY DEF Controls
    <3> HIDE DEF P, Q
    <3>4. ctrl' \in [hint : Nat, format : Nat, frame : Nat, quality : Q,
                     tuning : 0 .. 2, size : Nat, payload : P]
      BY <2>1, <3>1, <3>3
    <3> QED BY <2>1, <3>2, <3>4 DEF Controls, P, Q
  <2>2. CASE pc' = "failed" /\ ctrl' = c /\ UNCHANGED cur
    BY <2>2 DEF TypeOK
  <2>3. CASE pc' = "failed" /\ UNCHANGED ctrl /\ UNCHANGED cur
    BY <2>3, TypeNow DEF TypeOK
  <2> QED BY <1>2, <2>1, <2>2, <2>3 DEF InitGetCur, Reply, format, frame
<1>5. faults' \in 0 .. MaxFaults
  BY FaultTyped DEF InitGetCur
<1>6. {chosen', committed'} \cup answered' \subseteq Settings
  BY AddAnswer DEF InitGetCur
<1>7. TypeOK'
  BY <1>4, <1>5, <1>6 DEF InitGetCur, TypeOK, local, transfer
<1>8. urb_size' = 0 /\ ~streaming' /\ ~suspended'
  BY DEF InitGetCur, PathInv, transfer, TypeOK
<1>9. UrbInv'
  BY <1>4, <1>8, NoUrbs DEF Transfers
<1> QED BY <1>4, <1>7, <1>8, <1>9 DEF InitGetCur, PathInv

LEMMA AskFormatStep ==
  ASSUME TransferInv, AskFormat
  PROVE  TransferInv'
<1> USE DEF TransferInv
<1>0. PICK i \in DOMAIN Formats : \E j \in DOMAIN Formats[i].frames :
        /\ wanted' = [format |-> Formats[i].index, frame |-> FrameAt(i, j).index]
        /\ probe' = [Zero EXCEPT !.hint = 1, !.format = Formats[i].index,
                                 !.frame = FrameAt(i, j).index]
  BY DEF AskFormat
<1>1. PICK j \in DOMAIN Formats[i].frames :
        /\ wanted' = [format |-> Formats[i].index, frame |-> FrameAt(i, j).index]
        /\ probe' = [Zero EXCEPT !.hint = 1, !.format = Formats[i].index,
                                 !.frame = FrameAt(i, j).index]
  BY <1>0
<1>2. Formats[i].index \in Nat /\ FrameAt(i, j).index \in Nat
  <2>1. Formats \in Seq(FormatType)
    BY TypeNow DEF Formats, SetupType
  <2>2. Formats[i] \in FormatType
    BY <2>1
  <2>3. Formats[i].frames \in Seq(FrameType) /\ Formats[i].index \in Nat
    BY <2>2 DEF FormatType
  <2>4. Formats[i].frames[j] \in FrameType
    BY <2>3
  <2> QED BY <2>3, <2>4 DEF FrameAt, FrameType
<1>3. wanted' \in Pairs
  BY <1>1, <1>2 DEF Pairs
<1>4. probe' \in Controls
  <2>1. 0 \in 0 .. Half * Half - 1
    BY HalfSquared
  <2>2. probe' = [hint |-> 1, format |-> Formats[i].index, frame |-> FrameAt(i, j).index,
                  quality |-> 0, tuning |-> 0, size |-> 0, payload |-> 0]
    BY <1>1 DEF Zero
  <2> QED BY <1>2, <2>1, <2>2 DEF Controls, MaxQuality
<1>5. TypeOK'
  <2>1. {probe', probe_min', probe_max', ctrl'} \subseteq Controls
    BY <1>4, ZeroTyped, TypeNow DEF AskFormat, stream
  <2> QED BY <1>3, <2>1 DEF AskFormat, TypeOK, stream, transfer, device
<1>6. UrbInv'
  BY UrbsStay DEF AskFormat, stream, transfer, Transfers
<1>7. PathInv'
  BY DEF AskFormat, PathInv, stream, transfer
<1> QED BY <1>5, <1>6, <1>7 DEF AskFormat, device

LEMMA SetProbeStep ==
  ASSUME TransferInv, SetProbe
  PROVE  TransferInv'
<1> USE DEF TransferInv
<1>1. chosen' \in Settings /\ chosen'.tuning # 0
  BY TypeNow, AdoptedTyped DEF SetProbe
<1>2. TypeOK'
  BY <1>1 DEF SetProbe, TypeOK, local, stream, transfer
<1>3. UrbInv'
  BY UrbsStay DEF SetProbe, stream, transfer, Transfers
<1>4. PathInv'
  BY DEF SetProbe, PathInv, stream, transfer, local
<1> QED BY <1>1, <1>2, <1>3, <1>4

LEMMA SetProbeFailsStep ==
  ASSUME TransferInv, SetProbeFails
  PROVE  TransferInv'
<1> USE DEF TransferInv
<1>1. chosen' \in Settings /\ chosen'.tuning # 0
  BY TypeNow, AdoptedTyped DEF SetProbeFails
<1>2. faults' \in 0 .. MaxFaults /\ (faults' = 0 => faults = 0)
  BY FaultTyped DEF SetProbeFails
<1>3. TypeOK'
  BY <1>1, <1>2 DEF SetProbeFails, Refused, TypeOK, local, transfer
<1>4. UrbInv'
  BY <1>2, UrbsStay DEF SetProbeFails, Refused, transfer, Transfers
<1>5. PathInv'
  BY DEF SetProbeFails, Refused, PathInv, transfer, local
<1> QED BY <1>1, <1>3, <1>4, <1>5

LEMMA LimitTyped ==
  ASSUME TransferInv, NEW s \in Settings, s.tuning # 0
  PROVE  Limit(s) \in Controls
<1>1. [Zero EXCEPT !.quality = s.quality] \in Controls
  <2>1. 0 \in 0 .. Half * Half - 1
    BY HalfSquared
  <2>2. [Zero EXCEPT !.quality = s.quality]
          = [hint |-> 0, format |-> 0, frame |-> 0, quality |-> s.quality, tuning |-> 0,
             size |-> 0, payload |-> 0]
    BY DEF Zero
  <2> QED BY <2>1, <2>2 DEF Controls, Settings
<1>2. Reply(s) \in Controls
  BY TypeNow, ReplyTyped
<1> QED BY <1>1, <1>2 DEF Limit, Reply

LEMMA GetLimitsStep ==
  ASSUME TransferInv, GetLimits
  PROVE  TransferInv'
<1> USE DEF TransferInv
<1>1. /\ [chosen EXCEPT !.quality = 1, !.tuning = 1] \in Settings
      /\ [chosen EXCEPT !.quality = 1, !.tuning = 1].tuning # 0
      /\ [chosen EXCEPT !.quality = MaxQuality] \in Settings
      /\ [chosen EXCEPT !.quality = MaxQuality].tuning # 0
  <2>1. PICK c \in Settings : c = chosen /\ c.tuning # 0
    BY TypeNow
  <2>2. [c EXCEPT !.quality = 1, !.tuning = 1] \in Settings
    <3> DEFINE Q == 0 .. MaxQuality
               T == 0 .. 2
    <3>1. c \in [format : Nat, frame : Nat, quality : Q, tuning : T] /\ 1 \in Q /\ 1 \in T
      BY DEF Settings, MaxQuality
    <3> HIDE DEF Q, T
    <3>2. [c EXCEPT !.quality = 1, !.tuning = 1]
            \in [format : Nat, frame : Nat, quality : Q, tuning : T]
      BY <3>1
    <3> QED BY <3>2 DEF Settings, Q, T
  <2>3. [c EXCEPT !.quality = 1, !.tuning = 1].tuning = 1
    BY DEF Settings
  <2>4. [c EXCEPT !.quality = MaxQuality] \in Settings
    BY DEF Settings, MaxQuality
  <2>5. [c EXCEPT !.quality = MaxQuality].tuning = c.tuning
    BY DEF Settings
  <2> QED BY <2>1, <2>2, <2>3, <2>4, <2>5
<1>2. {probe', probe_min', probe_max'} \subseteq Controls
  <2>1. CASE /\ probe_min' = Limit([chosen EXCEPT !.quality = 1, !.tuning = 1])
             /\ UNCHANGED <<probe, probe_max>>
    <3>1. probe_min' \in Controls
      BY <1>1, <2>1, LimitTyped
    <3> QED BY <2>1, <3>1, TypeNow
  <2>2. CASE /\ probe_max' = Limit([chosen EXCEPT !.quality = MaxQuality])
             /\ probe' = [probe EXCEPT !.quality = probe_max'.quality]
             /\ UNCHANGED probe_min
    <3>1. probe_max' \in Controls
      BY <1>1, <2>2, LimitTyped
    <3>2. PICK q \in 0 .. MaxQuality : q = probe_max'.quality
      BY <3>1 DEF Controls
    <3>3. probe' \in Controls
      BY <2>2, <3>2, TypeNow DEF Controls
    <3> QED BY <2>2, <3>1, <3>3, TypeNow
  <2> QED BY <2>1, <2>2 DEF GetLimits
<1>3. TypeOK'
  BY <1>2, TypeNow DEF GetLimits, TypeOK, stream, transfer, device
<1>4. UrbInv'
  BY UrbsStay DEF GetLimits, stream, transfer, Transfers
<1>5. PathInv'
  BY DEF GetLimits, PathInv, stream, transfer
<1> QED BY <1>3, <1>4, <1>5 DEF GetLimits, device

LEMMA GetFailsStep ==
  ASSUME TransferInv, GetFails
  PROVE  TransferInv'
<1> USE DEF TransferInv
<1>1. faults' \in 0 .. MaxFaults /\ (faults' = 0 => faults = 0)
  BY FaultTyped DEF GetFails
<1>2. TypeOK'
  BY <1>1 DEF GetFails, Refused, TypeOK, local, transfer, device
<1>3. UrbInv'
  BY <1>1, UrbsStay DEF GetFails, Refused, transfer, Transfers
<1>4. PathInv'
  BY DEF GetFails, Refused, PathInv, transfer, local
<1> QED BY <1>2, <1>3, <1>4 DEF GetFails, device

LEMMA GetCurStep ==
  ASSUME TransferInv, GetCur
  PROVE  TransferInv'
<1> USE DEF TransferInv
<1>1. Reply(chosen) \in Controls
  BY TypeNow, ReplyTyped
<1>2. PICK c \in Controls : c = Reply(chosen)
  BY <1>1
<1>3. Lowered(c) \in Controls
  <2>1. probe_min.tuning \in 0 .. 2 /\ probe_max.quality \in 0 .. MaxQuality
    BY TypeNow DEF Controls
  <2> QED BY <2>1 DEF Lowered, Controls
<1>4. PICK d \in Controls :
        /\ probe' = d
        /\ \/ Accepted(d) /\ UNCHANGED round
           \/ Refused /\ UNCHANGED round
           \/ pc' = "set" /\ round' = 2 /\ UNCHANGED <<ctrl, cur>>
  <2>1. CASE Isochronous /\ c.payload > maxpsize /\ "minmax" \notin setup.quirks
             /\ probe' = Lowered(c)
             /\ IF round = 1
                THEN pc' = "set" /\ round' = 2 /\ UNCHANGED <<ctrl, cur>>
                ELSE Accepted(Lowered(c)) /\ UNCHANGED round
    BY <1>3, <2>1
  <2>2. CASE probe' = c /\ Accepted(c) /\ UNCHANGED round
    BY <2>2
  <2>3. CASE probe' = c /\ Refused /\ UNCHANGED round
    BY <2>3
  <2> QED BY <1>2, <2>1, <2>2, <2>3 DEF GetCur, Reply
<1>5. /\ ctrl' \in Controls /\ cur' \in Pairs /\ pc' \in {"idle", "set"} /\ round' \in {1, 2}
      /\ aim = "try" => ctrl' = ctrl
  <2>1. CASE Accepted(d) /\ UNCHANGED round
    <3>1. [format |-> d.format, frame |-> d.frame] \in Pairs
      BY DEF Controls, Pairs
    <3> QED BY <2>1, <3>1, TypeNow DEF Accepted, TypeOK
  <2>2. CASE Refused /\ UNCHANGED round
    BY <2>2, TypeNow DEF Refused, TypeOK
  <2>3. CASE pc' = "set" /\ round' = 2 /\ UNCHANGED <<ctrl, cur>>
    BY <2>3, TypeNow DEF TypeOK
  <2> QED BY <1>4, <2>1, <2>2, <2>3
<1>6. {chosen', committed'} \cup answered' \subseteq Settings
  BY AddAnswer DEF GetCur
<1>7. {probe', probe_min', probe_max', ctrl'} \subseteq Controls
  BY <1>4, <1>5, TypeNow DEF GetCur
<1>8. TypeOK'
  BY <1>5, <1>6, <1>7 DEF GetCur, TypeOK, transfer
<1>9. UrbInv'
  <2>1. CASE streaming
    <3>1. ctrl' = ctrl
      BY <1>5, <2>1 DEF GetCur, PathInv
    <3> QED BY <1>5, <3>1, UrbsStay DEF GetCur, transfer, Transfers
  <2>2. CASE ~streaming
    BY <1>5, <2>2, NoUrbs DEF GetCur, transfer, Transfers, PathInv
  <2> QED BY <2>1, <2>2
<1>10. PathInv'
  BY <1>5 DEF GetCur, PathInv, transfer
<1> QED BY <1>8, <1>9, <1>10 DEF GetCur

-----------------------------------------------------------------------------
(* The steps of a transfer *)

LEMMA StartStreamingStep ==
  ASSUME TransferInv, StartStreaming
  PROVE  TransferInv'
<1> USE DEF TransferInv
<1>1. TypeOK'
  BY DEF StartStreaming, TypeOK, local, stream, transfer, device
<1>2. UrbInv'
  BY UrbsStay DEF StartStreaming, stream, transfer, Transfers
<1>3. PathInv'
  BY DEF StartStreaming, PathInv, stream, transfer
<1> QED BY <1>1, <1>2, <1>3 DEF StartStreaming, device

LEMMA CommitStep ==
  ASSUME TransferInv, Commit
  PROVE  TransferInv'
<1> USE DEF TransferInv
<1>1. committed' \in Settings
  BY TypeNow, AdoptedTyped DEF Commit
<1>2. TypeOK'
  BY <1>1 DEF Commit, TypeOK, local, stream, transfer
<1>3. UrbInv'
  BY UrbsStay DEF Commit, stream, transfer, Transfers
<1>4. PathInv'
  BY DEF Commit, PathInv, stream, transfer
<1> QED BY <1>2, <1>3, <1>4 DEF Commit

\* Nothing is left of a start that failed.
LEMMA FailedStart ==
  ASSUME TransferInv, StartFails, setup' = setup, UNCHANGED <<local, ctrl, cur, suspended>>,
         chosen' = chosen, committed' \in Settings, answered' = answered,
         faults' \in 0 .. MaxFaults, pc \in {"commit", "select", "allocate"}
  PROVE  TransferInv'
<1> USE DEF TransferInv
<1>1. MaxPackets \in Nat
  BY BoundsAssumption
<1>2. TypeOK'
  <2>1. alt' = 0 /\ urb_size' = 0 /\ npackets' = 0 /\ streaming' = FALSE
    BY DEF StartFails, TransferStopped
  <2>2. alt' \in {0} \cup DOMAIN setup'.alts
    BY <2>1
  <2>3. urb_size' \in Nat /\ npackets' \in 0 .. MaxPackets
    BY <1>1, <2>1
  <2>4. streaming' \in BOOLEAN
    BY <2>1
  <2> QED BY <2>2, <2>3, <2>4 DEF StartFails, TransferStopped, TypeOK, local
<1>3. UrbInv'
  BY NoUrbs DEF StartFails, TransferStopped, Transfers
<1>4. PathInv'
  BY DEF StartFails, TransferStopped, PathInv
<1> QED BY <1>2, <1>3, <1>4

LEMMA CommitFailsStep ==
  ASSUME TransferInv, CommitFails
  PROVE  TransferInv'
<1>1. committed' \in Settings
  BY TypeNow, AdoptedTyped DEF CommitFails
<1>2. faults' \in 0 .. MaxFaults
  BY FaultTyped DEF CommitFails
<1> QED BY <1>1, <1>2, FailedStart DEF CommitFails

LEMMA SetupFailsStep ==
  ASSUME TransferInv, SetupFails
  PROVE  TransferInv'
<1>1. faults' \in 0 .. MaxFaults
  BY FaultTyped DEF SetupFails
<1> QED BY <1>1, TypeNow, FailedStart DEF SetupFails, device

LEMMA SelectAltStep ==
  ASSUME TransferInv, SelectAlt
  PROVE  TransferInv'
<1> USE DEF TransferInv
<1>1. CASE WideEnough = {}
  <2>1. faults' \in 0 .. MaxFaults
    BY <1>1 DEF SelectAlt, TypeOK
  <2> QED BY <1>1, <2>1, TypeNow, FailedStart DEF SelectAlt, device
<1>2. CASE WideEnough # {}
  <2>1. Narrowest(WideEnough) \in DOMAIN setup.alts
    BY <1>2, TypeNow, NarrowestIs DEF WideEnough
  <2>2. /\ alt' = Narrowest(WideEnough) /\ pc' = "allocate" /\ setup' = setup /\ ctrl' = ctrl
        /\ UNCHANGED <<streaming, suspended, urb_size, npackets, faults>>
    BY <1>2 DEF SelectAlt
  <2>3. TypeOK'
    BY <1>2, <2>1, <2>2 DEF SelectAlt, TypeOK, local, device
  <2>4. WideEnough' = WideEnough /\ PsizeFor' = PsizeFor /\ PacketsFor' = PacketsFor
    BY <2>2, BandwidthStays
  <2>5. PICK W : W = WideEnough
    OBVIOUS
  <2>6. Narrowest(W)' = Narrowest(W)
    BY <2>2 DEF Narrowest
  <2>7. \A n : Fits(n)' <=> Fits(n)
    BY <2>2, <2>4 DEF Fits
  <2>8. UrbInv'
    <3>1. ~Transfers'
      BY <2>2 DEF Transfers
    <3>2. WideEnough' # {} /\ alt' = Narrowest(WideEnough)'
      BY <1>2, <2>2, <2>4, <2>5, <2>6
    <3>3. urb_size' # 0 => \E n \in 1 .. MaxPackets : Fits(n)'
      BY <2>2, <2>7 DEF UrbInv
    <3> QED BY <3>1, <3>2, <3>3 DEF UrbInv
  <2>9. PathInv'
    BY <1>2, <2>2 DEF SelectAlt, PathInv
  <2> QED BY <2>3, <2>8, <2>9 DEF SelectAlt, device
<1> QED BY <1>1, <1>2

LEMMA SelectBulkStep ==
  ASSUME TransferInv, SelectBulk
  PROVE  TransferInv'
<1> USE DEF TransferInv
<1>1. TypeOK'
  BY DEF SelectBulk, TypeOK, local, stream, transfer, device
<1>2. /\ pc' = "allocate" /\ setup' = setup /\ ctrl' = ctrl /\ ~Isochronous
      /\ UNCHANGED <<streaming, suspended, alt, urb_size, npackets, faults>>
  BY DEF SelectBulk, stream, transfer
<1>3. WideEnough' = WideEnough /\ PsizeFor' = PsizeFor /\ PacketsFor' = PacketsFor
  BY <1>2, BandwidthStays
<1>4. ~Transfers' /\ ~Isochronous'
  BY <1>2 DEF Transfers, Isochronous
<1>5. \A n : Fits(n)' <=> Fits(n)
  BY <1>2, <1>3 DEF Fits
<1>6. UrbInv'
  BY <1>2, <1>4, <1>5 DEF UrbInv
<1>7. PathInv'
  BY <1>2 DEF SelectBulk, PathInv
<1> QED BY <1>1, <1>6, <1>7 DEF SelectBulk, device

\* At the allocation the packets are those of the bandwidth of ctrl.
LEMMA PacketsNow ==
  ASSUME TransferInv, pc = "allocate"
  PROVE  /\ Psize = PsizeFor /\ Packets = PacketsFor
         /\ PsizeFor \in Nat \ {0} /\ PacketsFor \in 0 .. MaxPackets
<1> USE DEF TransferInv
<1>1. Isochronous => WideEnough # {} /\ alt = Narrowest(WideEnough)
  BY DEF UrbInv
<1>2. Psize = PsizeFor
  BY <1>1 DEF Psize, PsizeFor
<1>3. Packets = PacketsFor
  BY <1>2 DEF Packets, PacketsFor
<1> QED BY <1>1, <1>2, <1>3, TypeNow, TransferTyped

LEMMA StartedTransfer ==
  ASSUME TransferInv, pc = "allocate", NEW n \in 1 .. MaxPackets, StartWith(n), setup' = setup,
         UNCHANGED <<local, ctrl, cur, suspended, device>>,
         faults' \in 0 .. MaxFaults, faults' = 0 => faults = 0,
         urb_size # 0 => Fits(n), urb_size = 0 /\ faults' = 0 => n = Packets
  PROVE  TransferInv'
<1> USE DEF TransferInv
<1>1. Psize = PsizeFor /\ Packets = PacketsFor /\ PsizeFor \in Nat \ {0}
  BY PacketsNow
<1>2. MaxPackets \in Nat
  BY BoundsAssumption
<1>3. /\ pc' = "idle" /\ streaming' = TRUE /\ npackets' = n /\ alt' = alt /\ ctrl' = ctrl
      /\ urb_size' = IF urb_size = 0 THEN n * PsizeFor ELSE urb_size
  BY <1>1 DEF StartWith
<1>4. n * PsizeFor \in Nat
  BY <1>1, <1>2
<1>5. TypeOK'
  BY <1>2, <1>3, <1>4 DEF TypeOK, local, device
<1>6. ~suspended
  BY DEF PathInv
<1>7. WideEnough' = WideEnough /\ PsizeFor' = PsizeFor /\ PacketsFor' = PacketsFor
  BY <1>3, BandwidthStays
<1>8. urb_size' = n * PsizeFor /\ (faults' = 0 => n = PacketsFor)
  BY <1>1, <1>3 DEF Fits
<1>9. Fits(n)'
  BY <1>7, <1>8 DEF Fits
<1>10. Isochronous' = Isochronous
  BY DEF Isochronous
<1>11. PICK W : W = WideEnough
  OBVIOUS
<1>12. Narrowest(W)' = Narrowest(W)
  BY DEF Narrowest
<1>13. Isochronous' => WideEnough' # {} /\ alt' = Narrowest(WideEnough)'
  BY <1>3, <1>7, <1>10, <1>11, <1>12 DEF UrbInv
<1>14. UrbInv'
  BY <1>3, <1>9, <1>13 DEF UrbInv
<1>15. PathInv'
  BY <1>3, <1>6 DEF PathInv
<1> QED BY <1>5, <1>14, <1>15 DEF device

LEMMA AllocateStep ==
  ASSUME TransferInv, Allocate
  PROVE  TransferInv'
<1> USE DEF TransferInv
<1>1. /\ Psize = PsizeFor /\ Packets = PacketsFor
      /\ PsizeFor \in Nat \ {0} /\ PacketsFor \in 0 .. MaxPackets
  BY PacketsNow DEF Allocate
<1> DEFINE m == IF urb_size # 0 THEN urb_size \div Psize ELSE Packets
<1>2. PICK n \in 0 .. MaxPackets :
        n = m /\ (urb_size # 0 => n # 0 /\ Fits(n)) /\ (urb_size = 0 => n = Packets)
  <2>1. CASE urb_size # 0
    <3>1. PICK n \in 1 .. MaxPackets : Fits(n)
      BY <2>1 DEF UrbInv
    <3>2. urb_size = PsizeFor * n + 0
      BY <1>1, <3>1 DEF Fits
    <3>3. (PsizeFor * n + 0) \div PsizeFor = n
      <4>1. 0 \in 0 .. PsizeFor - 1 /\ n \in Int
        BY <1>1
      <4> QED BY <1>1, <4>1, DivIs
    <3>4. m = n
      BY <1>1, <2>1, <3>2, <3>3
    <3> QED BY <2>1, <3>1, <3>4
  <2>2. CASE urb_size = 0
    BY <1>1, <2>2
  <2> QED BY <2>1, <2>2
<1> HIDE DEF m
<1>3. IF n = 0 THEN StartFails ELSE StartWith(n)
  BY <1>2 DEF Allocate, m
<1>4. faults' \in 0 .. MaxFaults /\ faults' = faults
  BY DEF Allocate, TypeOK
<1>5. CASE n = 0
  BY <1>3, <1>4, <1>5, TypeNow, FailedStart DEF Allocate, device
<1>6. CASE n # 0
  <2>1. n \in 1 .. MaxPackets
    BY <1>6
  <2> QED BY <1>2, <1>3, <1>4, <1>6, <2>1, StartedTransfer DEF Allocate
<1> QED BY <1>5, <1>6

LEMMA AllocateFewerStep ==
  ASSUME TransferInv, AllocateFewer
  PROVE  TransferInv'
<1> USE DEF TransferInv
<1>1. Packets \in 0 .. MaxPackets
  BY PacketsNow DEF AllocateFewer
<1>2. PICK n \in Halvings : IF n = 0 THEN StartFails ELSE StartWith(n)
  BY DEF AllocateFewer
<1>3. n \in 0 .. Packets
  BY <1>2, Zenon DEF Halvings
<1>4. n \in 0 .. MaxPackets
  BY <1>1, <1>3, BoundsAssumption
<1>5. faults' \in 0 .. MaxFaults /\ faults' # 0
  BY BoundsAssumption DEF AllocateFewer, Fault, TypeOK
<1>6. CASE n = 0
  BY <1>2, <1>5, <1>6, TypeNow, FailedStart DEF AllocateFewer, device
<1>7. CASE n # 0
  <2>1. n \in 1 .. MaxPackets
    BY <1>4, <1>7
  <2> QED BY <1>2, <1>5, <1>7, <2>1, StartedTransfer DEF AllocateFewer
<1> QED BY <1>6, <1>7

LEMMA StopStreamingStep ==
  ASSUME TransferInv, StopStreaming
  PROVE  TransferInv'
<1> USE DEF TransferInv
<1>1. MaxPackets \in Nat
  BY BoundsAssumption
<1>2. TypeOK'
  <2>1. alt' = 0 /\ urb_size' = 0 /\ npackets' = 0 /\ streaming' = FALSE
    BY DEF StopStreaming, TransferStopped
  <2>2. alt' \in {0} \cup DOMAIN setup'.alts
    BY <2>1
  <2>3. urb_size' \in Nat /\ npackets' \in 0 .. MaxPackets
    BY <1>1, <2>1
  <2>4. streaming' \in BOOLEAN
    BY <2>1
  <2> QED BY <2>2, <2>3, <2>4 DEF StopStreaming, TransferStopped, TypeOK, local, device
<1>3. UrbInv'
  BY NoUrbs DEF StopStreaming, TransferStopped, Transfers
<1>4. PathInv'
  BY DEF StopStreaming, TransferStopped, PathInv
<1> QED BY <1>2, <1>3, <1>4 DEF StopStreaming, device

LEMMA SuspendStep ==
  ASSUME TransferInv, Suspend
  PROVE  TransferInv'
<1> USE DEF TransferInv
<1>1. MaxPackets \in Nat
  BY BoundsAssumption
<1>2. TypeOK'
  BY <1>1 DEF Suspend, TypeOK, local, device
<1>3. UrbInv'
  BY UrbsStay DEF Suspend, Transfers
<1>4. PathInv'
  BY DEF Suspend, PathInv
<1> QED BY <1>2, <1>3, <1>4 DEF Suspend, device

LEMMA ResumeStep ==
  ASSUME TransferInv, Resume
  PROVE  TransferInv'
<1> USE DEF TransferInv
<1>1. chosen' \in Settings /\ committed' \in Settings /\ chosen'.tuning # 0
  BY TypeNow, DefaultTyped, ZeroTyped DEF Resume
<1>2. TypeOK'
  BY <1>1 DEF Resume, TypeOK, local, transfer
<1>3. pc' # "allocate" /\ ~Transfers'
  BY DEF Resume, Transfers
<1>4. UrbInv'
  BY <1>3, UrbsStay DEF Resume, transfer
<1>5. PathInv'
  BY DEF Resume, PathInv, transfer
<1> QED BY <1>1, <1>2, <1>4, <1>5

LEMMA TransferStep == TransferInv /\ [Next]_vars => TransferInv'
<1> SUFFICES ASSUME TransferInv, [Next]_vars PROVE TransferInv'
  OBVIOUS
<1>1. CASE Next
  BY <1>1, InitGetDefStep, InitSetStep, InitGetCurStep, AskFormatStep, SetProbeStep,
     SetProbeFailsStep, GetLimitsStep, GetFailsStep, GetCurStep, StartStreamingStep, CommitStep,
     CommitFailsStep, SelectAltStep, SelectBulkStep, SetupFailsStep, AllocateStep,
     AllocateFewerStep, StopStreamingStep, SuspendStep, ResumeStep DEF Next
<1>2. CASE UNCHANGED vars
  <2> USE <1>2 DEF TransferInv, vars, local, stream, transfer, device
  <2>1. TypeOK'
    BY DEF TypeOK
  <2>2. PathInv'
    BY DEF PathInv
  <2>3. UrbInv'
    <3>1. WideEnough' = WideEnough /\ PsizeFor' = PsizeFor /\ PacketsFor' = PacketsFor
      BY BandwidthStays
    <3>2. PICK W : W = WideEnough
      OBVIOUS
    <3>3. Narrowest(W)' = Narrowest(W)
      BY DEF Narrowest
    <3>4. Isochronous' = Isochronous /\ Transfers' = Transfers
      BY DEF Isochronous, Transfers
    <3>5. \A n : Fits(n)' <=> Fits(n)
      BY <3>1 DEF Fits
    <3>6. npackets' = npackets /\ urb_size' = urb_size /\ alt' = alt /\ pc' = pc
      OBVIOUS
    <3>7. Narrowest(WideEnough)' = Narrowest(WideEnough)
      BY <3>1, <3>2, <3>3
    <3>8. PICK m : m = npackets
      OBVIOUS
    <3> QED BY <3>1, <3>4, <3>5, <3>6, <3>7, <3>8 DEF UrbInv
  <2> QED BY <2>1, <2>2, <2>3
<1> QED BY <1>1, <1>2

-----------------------------------------------------------------------------
(* What is agreed on *)

\* Every device names the format and frame it answers for, and none of the devices
\* that answer with the format in place of the hint has a format 0.
NamesFormats == \A s \in Setups :
  /\ ~s.zeroIndex
  /\ "elgato" \in s.quirks => \A i \in DOMAIN s.formats : s.formats[i].index # 0

\* Settings that the device describes.
Known(s) == Described(s) /\ s.tuning \in {1, 2}

Pair(s) == [format |-> s.format, frame |-> s.frame]

\* ctrl is the answer for settings that were asked for, and they are the ones that
\* were committed to when a transfer is set up or about to be.
AgreedInv ==
  /\ committed \in answered \cup {Nothing}
  /\ pc \in {"new", "initSet", "initCur"} => chosen = Default /\ answered = {}
  /\ pc = "initSet" => ctrl = Reply(Default)
  /\ pc \notin {"new", "initSet", "initCur", "failed"} =>
       /\ Known(Default) /\ Known(chosen) /\ \A s \in answered : Known(s)
       /\ \E s \in answered : /\ ctrl = Reply(s) /\ cur = Pair(s)
                              /\ Transfers \/ pc \in {"select", "allocate"} => committed = s

LEMMA ReplyNames ==
  ASSUME setup \in Setups, NamesFormats, NEW s \in Settings, s.tuning # 0,
         NEW i \in DOMAIN Formats, s.format = Formats[i].index
  PROVE  /\ Reply(s).format = s.format /\ Reply(s).frame = s.frame
         /\ CorrectedHint(Answer(s)).format = s.format /\ CorrectedHint(Answer(s)).frame = s.frame
<1>1. setup \in SetupType /\ ~setup.zeroIndex /\ s.format \in Nat
      /\ ("elgato" \in setup.quirks => s.format # 0)
  BY SetupsAssumption DEF NamesFormats, Formats, Settings
<1>2. Answer(s) \in Controls
  BY <1>1, AnswerTyped
<1>3. Answer(s).frame = s.frame
  BY <1>1 DEF Answer
<1>4. CorrectedHint(Answer(s)).format = s.format
  <2>1. CASE "elgato" \in setup.quirks
    <3> DEFINE f == s.format
               h == 256 * f + 0
    <3>1. f \in Nat /\ f # 0
      BY <1>1, <2>1
    <3>2. Answer(s).hint = 256 * f
      BY <2>1 DEF Answer
    <3> HIDE DEF f
    <3>3. 256 * f = h /\ h > 255
      BY <3>1
    <3>4. h \div 256 = f
      <4>1. 0 \in 0 .. 256 - 1 /\ 256 \in Nat \ {0} /\ f \in Int
        BY <3>1
      <4> QED BY <4>1, DivIs
    <3> HIDE DEF h
    <3>5. Answer(s).hint = h
      BY <3>2, <3>3
    <3>6. CorrectedHint(Answer(s)) = [Answer(s) EXCEPT !.hint = 1, !.format = h \div 256]
      BY <2>1, <3>3, <3>5 DEF CorrectedHint
    <3>7. CorrectedHint(Answer(s)).format = h \div 256
      <4>1. PICK a \in Controls : a = Answer(s)
        BY <1>2
      <4> QED BY <3>6, <4>1 DEF Controls
    <3> QED BY <3>4, <3>7 DEF f
  <2>2. CASE "elgato" \notin setup.quirks
    BY <1>1, <2>2 DEF Answer, CorrectedHint
  <2> QED BY <2>1, <2>2
<1>5. CorrectedHint(Answer(s)).frame = s.frame
  BY <1>2, <1>3, CorrectedTyped
<1> QED BY <1>1, <1>2, <1>3, <1>4, <1>5, FixedUpTyped DEF Reply

LEMMA ReplyKnown ==
  ASSUME setup \in Setups, NamesFormats, NEW s \in Settings, Known(s)
  PROVE  /\ Reply(s) \in Controls
         /\ Reply(s).format = s.format /\ Reply(s).frame = s.frame
         /\ Reply(s).quality = s.quality /\ Reply(s).tuning = s.tuning
         /\ Described(Reply(s)) /\ Described(CorrectedHint(Answer(s)))
         /\ Isochronous => ~(Reply(s).payload > maxpsize)
<1>1. setup \in SetupType /\ s.tuning # 0
  BY SetupsAssumption DEF Known
<1>2. PICK p \in Named(s) : TRUE
  BY DEF Known, Described
<1>3. p[1] \in DOMAIN Formats /\ s.format = Formats[p[1]].index
  BY <1>1, <1>2, NamedAre DEF Named
<1>4. /\ Reply(s).format = s.format /\ Reply(s).frame = s.frame
      /\ CorrectedHint(Answer(s)).format = s.format /\ CorrectedHint(Answer(s)).frame = s.frame
  BY <1>1, <1>3, ReplyNames
<1>5. Described(Reply(s)) /\ Described(CorrectedHint(Answer(s)))
  BY <1>4, SameNames DEF Known
<1>6. Reply(s) \in Controls /\ Reply(s).quality = s.quality /\ Reply(s).tuning = s.tuning
  BY <1>1, ReplyTyped
<1>7. ASSUME Isochronous PROVE ~(Reply(s).payload > maxpsize)
  <2>1. Answer(s) \in Controls
    BY <1>1, AnswerTyped
  <2>2. Reply(s).payload <= maxpsize
    BY <1>1, <1>5, <1>7, <2>1, FixedUpTyped DEF Reply
  <2>3. Reply(s).payload \in Int /\ maxpsize \in Int
    BY <1>1, <1>6, HalfSquared, MaxPsize DEF Controls
  <2> QED BY <2>2, <2>3
<1> QED BY <1>4, <1>5, <1>6, <1>7

\* A commit to the answer for settings is one to these settings.
LEMMA AdoptedReply ==
  ASSUME setup \in Setups, NamesFormats, NEW s \in Settings, Known(s)
  PROVE  Adopted(Reply(s)) = s
<1>1. PICK c \in Controls : c = Reply(s)
  BY ReplyKnown
<1>2. /\ c.format = s.format /\ c.frame = s.frame /\ c.quality = s.quality
      /\ c.tuning = s.tuning /\ Described(c)
  BY <1>1, ReplyKnown
<1>3. Setting(c) = [format |-> s.format, frame |-> s.frame, quality |-> s.quality,
                    tuning |-> s.tuning]
  BY <1>2 DEF Setting
<1>4. Adopted(c) = [Setting(c) EXCEPT !.quality = s.quality, !.tuning = s.tuning]
  BY <1>2 DEF Adopted, Known
<1>5. s = [format |-> s.format, frame |-> s.frame, quality |-> s.quality, tuning |-> s.tuning]
  BY DEF Settings
<1> QED BY <1>1, <1>3, <1>4, <1>5

LEMMA AdoptedKnown ==
  ASSUME NEW c \in Controls, chosen \in Settings, Known(chosen)
  PROVE  Known(Adopted(c))
<1> DEFINE b == IF Described(c) THEN Setting(c) ELSE chosen
           t == IF c.tuning = 0 THEN 2 ELSE c.tuning
<1>1. t \in {1, 2}
  BY DEF Controls
<1>2. b.format \in Nat /\ b \in Settings /\ Described(b)
  <2>1. CASE Described(c)
    <3>1. Setting(c).format = c.format /\ Setting(c).frame = c.frame /\ Setting(c) \in Settings
      BY DEF Setting, Settings, Controls
    <3>2. Described(Setting(c))
      BY <2>1, <3>1, SameNames
    <3> QED BY <2>1, <3>1, <3>2 DEF Settings
  <2>2. CASE ~Described(c)
    BY <2>2 DEF Known, Settings
  <2> QED BY <2>1, <2>2
<1>3. Adopted(c) = [b EXCEPT !.quality = c.quality, !.tuning = t]
  BY DEF Adopted
<1> HIDE DEF b, t
<1>4. PICK r \in Settings : r = b
  BY <1>2
<1>5. Adopted(c).format = b.format /\ Adopted(c).frame = b.frame /\ Adopted(c).tuning = t
  BY <1>3, <1>4 DEF Settings
<1>6. Described(Adopted(c))
  <2>1. PICK a : a = Adopted(c)
    OBVIOUS
  <2>2. Described(a) = Described(r)
    BY <1>4, <1>5, <2>1, SameNames
  <2> QED BY <1>2, <1>4, <2>1, <2>2
<1> QED BY <1>1, <1>5, <1>6 DEF Known

LEMMA KnownStays == ASSUME setup' = setup, NEW s PROVE Known(s)' <=> Known(s)
BY DescriptorsStay DEF Known

LEMMA AgreedStays ==
  ASSUME TransferInv, AgreedInv, setup' = setup, ctrl' = ctrl, cur' = cur,
         pc \notin {"new", "initSet", "initCur", "failed"},
         pc' \notin {"new", "initSet", "initCur", "failed"},
         committed' \in answered' \cup {Nothing}, answered \subseteq answered',
         Known(chosen'), \A s \in answered' : Known(s),
         Transfers' \/ pc' \in {"select", "allocate"} =>
           committed' = committed /\ (Transfers \/ pc \in {"select", "allocate"})
  PROVE  AgreedInv'
<1>1. Default' = Default /\ Known(Default)
  BY DefaultStays DEF AgreedInv
<1>2. PICK s \in answered : /\ ctrl = Reply(s) /\ cur = Pair(s)
                            /\ Transfers \/ pc \in {"select", "allocate"} => committed = s
  BY DEF AgreedInv
<1>3. Reply(s)' = Reply(s)
  BY ReplyStays
<1>4. Known(Default)' /\ Known(chosen)'
  <2>1. PICK d : d = Default
    OBVIOUS
  <2>2. Known(d)' <=> Known(d)
    BY KnownStays
  <2>3. PICK c : c = chosen'
    OBVIOUS
  <2>4. Known(c)' <=> Known(c)
    BY KnownStays
  <2> QED BY <1>1, <2>1, <2>2, <2>3, <2>4
<1>5. \A r \in answered' : Known(r)'
  BY KnownStays
<1>6. /\ s \in answered' /\ ctrl' = Reply(s)' /\ cur' = Pair(s)
      /\ Transfers' \/ pc' \in {"select", "allocate"} => committed' = s
  BY <1>2, <1>3
<1> QED BY <1>4, <1>5, <1>6 DEF AgreedInv, Pair, Nothing, Zero, Setting

\* The index of the last descriptor is found at the last.
LEMMA LastPosition ==
  ASSUME NEW S, NEW d \in Seq(S), d # <<>>
  PROVE  PositionOr1(d[Len(d)].index, d) = Len(d)
<1> DEFINE P == {i \in DOMAIN d : d[i].index = d[Len(d)].index}
<1>1. DOMAIN d = 1 .. Len(d) /\ Len(d) \in Nat /\ Len(d) # 0
  BY EmptySeq
<1>2. Len(d) \in P /\ \A i \in P : i \in Int /\ i <= Len(d)
  BY <1>1
<1>3. Max(P) = Len(d)
  <2> HIDE DEF P
  <2>1. \E x \in P : \A y \in P : x >= y
    BY <1>1, <1>2
  <2>2. Max(P) \in P /\ \A y \in P : Max(P) >= y
    BY <2>1 DEF Max
  <2>3. Max(P) \in Int /\ Max(P) >= Len(d) /\ Max(P) <= Len(d)
    BY <1>2, <2>2
  <2> QED BY <1>1, <2>3
<1> QED BY <1>2, <1>3 DEF PositionOr1

LEMMA AdoptedDefault ==
  ASSUME setup \in Setups, NamesFormats, chosen = Default
  PROVE  Adopted(Reply(Default)) = Default
<1>1. PICK s \in Settings : s = Default /\ s.tuning = 2 /\ s.quality = 1
  BY SetupsAssumption, DefaultTyped
<1>2. CASE Described(s)
  BY <1>1, <1>2, AdoptedReply DEF Known
<1>3. CASE ~Described(s)
  <2>1. PICK c \in Controls : c = Reply(s) /\ c.quality = 1 /\ c.tuning = 2
    BY <1>1, ReplyTyped, SetupsAssumption
  <2>2. c.format = s.format /\ c.frame = s.frame
    <3> DEFINE n == Len(Formats)
    <3>1. Formats \in Seq(FormatType) /\ Formats # <<>>
      BY SetupsAssumption DEF Formats, SetupType
    <3>2. n \in DOMAIN Formats
      BY <3>1
    <3>3. s.format = Formats[n].index
      BY <1>1 DEF Default
    <3> HIDE DEF n
    <3> QED BY <1>1, <2>1, <3>2, <3>3, ReplyNames
  <2>3. ~Described(c)
    BY <1>3, <2>2, SameNames
  <2>4. Adopted(c) = [s EXCEPT !.quality = 1, !.tuning = 2]
    BY <1>1, <2>1, <2>3 DEF Adopted
  <2>5. [s EXCEPT !.quality = 1, !.tuning = 2] = s
    BY <1>1 DEF Settings
  <2> QED BY <1>1, <2>1, <2>4, <2>5
<1> QED BY <1>2, <1>3

\* The descriptors of the default settings, when there are any, are found as they are.
LEMMA DefaultFound ==
  ASSUME setup \in Setups, NEW c, c.format = Default.format, c.frame = Default.frame
  PROVE  LET format == Formats[PositionOr1(c.format, Formats)]
             frame == format.frames[PositionOr1(c.frame, format.frames)]
         IN format.frames # <<>> =>
              format.index = c.format /\ frame.index = c.frame /\ Described(Default)
<1> DEFINE n == Len(Formats)
           fs == Formats[n].frames
           j == Len(fs)
<1>1. Formats \in Seq(FormatType) /\ Formats # <<>>
  BY SetupsAssumption DEF Formats, SetupType
<1>2. n \in DOMAIN Formats /\ Default.format = Formats[n].index
  BY <1>1 DEF Default
<1>3. PositionOr1(c.format, Formats) = n
  BY <1>1, <1>2, LastPosition
<1>4. fs \in Seq(FrameType)
  <2>1. Formats[n] \in FormatType
    BY <1>1, <1>2, ElementOfSeq
  <2> QED BY <2>1 DEF FormatType
<1>5. ASSUME fs # <<>>
      PROVE  PositionOr1(c.frame, fs) = j /\ fs[j].index = c.frame /\ j \in DOMAIN fs
  <2>1. j \in DOMAIN fs /\ j # 0
    BY <1>4, <1>5, EmptySeq
  <2>2. Default.frame = fs[j].index
    BY <2>1 DEF Default, FrameAt
  <2>3. PositionOr1(fs[j].index, fs) = j
    <3> HIDE DEF fs
    <3> QED BY <1>4, <1>5, LastPosition
  <2> QED BY <2>1, <2>2, <2>3
<1>6. ASSUME fs # <<>> PROVE Described(Default)
  <2>1. fs[j].index = Default.frame /\ j \in DOMAIN fs
    BY <1>5, <1>6
  <2>2. <<n, j>> \in Named(Default)
    <3> HIDE DEF n, j
    <3>1. <<n, j>> \in {n} \X DOMAIN Formats[n].frames
      BY <2>1
    <3>2. Formats[n].index = Default.format /\ FrameAt(n, j).index = Default.frame
      BY <1>2, <2>1 DEF FrameAt
    <3> QED BY <1>2, <3>1, <3>2 DEF Named
  <2> QED BY <2>2 DEF Described
<1> QED BY <1>2, <1>3, <1>5, <1>6

LEMMA AgreedInit == ASSUME Init PROVE AgreedInv
BY DEF Init, AgreedInv

LEMMA InitAgreed ==
  ASSUME TransferInv, AgreedInv, NamesFormats, InitGetDef \/ InitSet \/ InitGetCur
  PROVE  AgreedInv'
<1>1. Default' = Default /\ setup \in Setups /\ setup' = setup
  BY DefaultStays DEF InitGetDef, InitSet, InitGetCur, TransferInv, TypeOK
<1>2. PICK d : d = Default
  OBVIOUS
<1>3. Reply(d)' = Reply(d)
  BY <1>1, ReplyStays
<1>4. chosen = Default
  BY DEF AgreedInv, InitGetDef, InitSet, InitGetCur
<1>5. CASE InitGetDef
  <2>1. pc' = "initSet" => ctrl' = Reply(Default)'
    BY <1>1, <1>2, <1>3, <1>5 DEF InitGetDef, Reply
  <2> QED BY <1>1, <1>4, <1>5, <2>1 DEF InitGetDef, AgreedInv, device
<1>6. CASE InitSet
  <2>1. chosen' = Default
    BY <1>1, <1>4, <1>6, AdoptedDefault DEF InitSet, AgreedInv
  <2> QED BY <1>1, <1>6, <2>1 DEF InitSet, AgreedInv, device
<1>7. CASE InitGetCur
  <2>1. PICK s \in Settings : s = Default /\ s.tuning = 2
    BY <1>1, SetupsAssumption, DefaultTyped
  <2>2. PICK c \in Controls : c = Reply(s)
    BY <1>1, <2>1, ReplyTyped, SetupsAssumption
  <2>3. c.format = s.format /\ c.frame = s.frame
    <3> DEFINE n == Len(Formats)
    <3>1. Formats \in Seq(FormatType) /\ Formats # <<>>
      BY <1>1, SetupsAssumption DEF Formats, SetupType
    <3>2. n \in DOMAIN Formats
      BY <3>1
    <3>3. s.format = Formats[n].index
      BY <2>1 DEF Default
    <3> HIDE DEF n
    <3> QED BY <1>1, <2>1, <2>2, <3>2, <3>3, ReplyNames
  <2> DEFINE format == Formats[PositionOr1(c.format, Formats)]
             frame == format.frames[PositionOr1(c.frame, format.frames)]
  <2>4. format.frames # <<>> =>
          format.index = c.format /\ frame.index = c.frame /\ Described(Default)
    BY <1>1, <2>1, <2>3, DefaultFound
  <2> HIDE DEF format, frame
  <2>5. /\ pc' \in {"failed", "idle"} /\ committed' = committed /\ answered \subseteq answered'
        /\ ~streaming'
    BY <1>7 DEF InitGetCur, TransferInv, PathInv
  <2>6. CASE pc' = "failed"
    BY <2>5, <2>6 DEF AgreedInv, Nothing, Zero, Setting
  <2>7. CASE pc' = "idle"
    <3>1. /\ format.frames # <<>>
          /\ ctrl' = [c EXCEPT !.format = format.index, !.frame = frame.index]
          /\ cur' = [format |-> format.index, frame |-> frame.index]
          /\ answered' = answered \cup {chosen}
      BY <1>4, <1>7, <2>1, <2>2, <2>7 DEF InitGetCur, Reply, format, frame
    <3>2. ctrl' = c
      BY <2>4, <3>1 DEF Controls
    <3>3. cur' = Pair(s)
      BY <2>3, <2>4, <3>1 DEF Pair
    <3>4. Known(Default)
      BY <2>1, <2>4, <3>1 DEF Known
    <3>5. Known(s)' /\ s = chosen' /\ s = Default' /\ Reply(s)' = Reply(s)
      <4>1. Known(s)
        BY <2>1, <3>4
      <4> QED BY <1>1, <1>4, <1>7, <2>1, <4>1, KnownStays, ReplyStays DEF InitGetCur
    <3>6. answered' = {s}
      <4>1. answered = {}
        BY <1>7 DEF InitGetCur, AgreedInv
      <4> QED BY <1>4, <2>1, <3>1, <4>1
    <3> QED BY <2>2, <2>5, <2>7, <3>2, <3>3, <3>5, <3>6 DEF AgreedInv, Transfers
  <2> QED BY <2>5, <2>6, <2>7
<1> QED BY <1>5, <1>6, <1>7

LEMMA ProbeAgreed ==
  ASSUME TransferInv, AgreedInv, NamesFormats,
         AskFormat \/ SetProbe \/ SetProbeFails \/ GetLimits \/ GetFails
  PROVE  AgreedInv'
<1>1. setup' = setup /\ answered' = answered /\ committed' = committed /\ ctrl' = ctrl /\ cur' = cur
  BY DEF AskFormat, SetProbe, SetProbeFails, GetLimits, GetFails, Refused, stream, device
<1>2. /\ pc \in {"idle", "setAsked", "getMin", "getMax", "set", "getCur"}
      /\ pc' \in {"idle", "setAsked", "getMin", "getMax", "set", "getCur"}
      /\ streaming' = streaming /\ suspended' = suspended
  BY DEF AskFormat, SetProbe, SetProbeFails, GetLimits, GetFails, Refused, stream
<1>3. Known(chosen')
  <2>1. Known(chosen) /\ chosen \in Settings /\ probe \in Controls
    BY <1>2, TypeNow DEF AgreedInv
  <2>2. Known(Adopted(probe))
    BY <2>1, AdoptedKnown
  <2>3. chosen' \in {chosen, Adopted(probe)}
    BY DEF AskFormat, SetProbe, SetProbeFails, GetLimits, GetFails, device
  <2> QED BY <2>1, <2>2, <2>3
<1>4. committed \in answered \cup {Nothing} /\ \A s \in answered : Known(s)
  BY <1>2 DEF AgreedInv
<1>5. Transfers' => Transfers
  BY <1>2 DEF Transfers
<1> QED BY <1>1, <1>2, <1>3, <1>4, <1>5, AgreedStays

LEMMA GetCurAgreed ==
  ASSUME TransferInv, AgreedInv, NamesFormats, GetCur
  PROVE  AgreedInv'
<1>1. PICK s \in Settings : s = chosen
  BY TypeNow
<1>2. /\ setup \in Setups /\ setup' = setup /\ chosen' = chosen /\ committed' = committed
      /\ answered' = answered \cup {chosen} /\ streaming' = streaming /\ suspended' = suspended
      /\ pc = "getCur"
  BY DEF GetCur, TransferInv, TypeOK
<1>3. Known(s) /\ \A r \in answered : Known(r)
  BY <1>1, <1>2 DEF AgreedInv
<1>4. PICK c \in Controls :
        /\ c = Reply(s) /\ c.format = s.format /\ c.frame = s.frame /\ Described(c)
        /\ Isochronous => ~(c.payload > maxpsize)
  BY <1>2, <1>3, ReplyKnown
<1>5. Accepted(c)
  BY <1>1, <1>4 DEF GetCur, Reply
<1>6. pc' = "idle" /\ committed \in answered \cup {Nothing}
  BY <1>5 DEF Accepted, AgreedInv
<1>7. CASE aim = "set"
  <2>1. ctrl' = c /\ cur' = Pair(s)
    BY <1>4, <1>5, <1>7 DEF Accepted, Pair
  <2>2. ~streaming'
    BY <1>2, <1>7 DEF TransferInv, PathInv
  <2>3. Reply(s)' = Reply(s) /\ Known(s)'
    BY <1>2, <1>3, ReplyStays, KnownStays
  <2>4. \A r \in answered' : Known(r)'
    BY <1>1, <1>2, <1>3, KnownStays
  <2>5. Known(Default)'
    <3>1. PICK d : d = Default
      OBVIOUS
    <3>2. Known(d)'
      BY <1>2, <3>1, KnownStays DEF AgreedInv
    <3>3. Default' = d
      BY <1>2, <3>1, DefaultStays
    <3> QED BY <3>2, <3>3
  <2> QED BY <1>1, <1>2, <1>4, <1>6, <2>1, <2>2, <2>3, <2>4, <2>5
          DEF AgreedInv, Transfers, Pair, Nothing, Zero, Setting
<1>8. CASE aim # "set"
  <2>1. ctrl' = ctrl /\ cur' = cur
    BY <1>5, <1>8 DEF Accepted
  <2>2. Transfers' => Transfers
    BY <1>2 DEF Transfers
  <2> QED BY <1>1, <1>2, <1>3, <1>6, <2>1, <2>2, AgreedStays
<1> QED BY <1>7, <1>8

LEMMA TransferAgreed ==
  ASSUME TransferInv, AgreedInv, NamesFormats,
         \/ StartStreaming \/ SelectAlt \/ SelectBulk \/ SetupFails \/ Allocate
         \/ AllocateFewer \/ StopStreaming \/ Suspend
  PROVE  AgreedInv'
<1>1. /\ setup' = setup /\ answered' = answered /\ committed' = committed /\ chosen' = chosen
      /\ ctrl' = ctrl /\ cur' = cur
  BY DEF StartStreaming, SelectAlt, SelectBulk, SetupFails, Allocate, AllocateFewer,
         StopStreaming, Suspend, stream, device
<1>2. /\ pc \in {"idle", "select", "allocate"} /\ pc' \in {"idle", "commit", "select", "allocate"}
      /\ pc' \in {"select", "allocate"} => pc = "select"
      /\ Transfers' => pc = "allocate"
  BY DEF StartStreaming, SelectAlt, SelectBulk, SetupFails, Allocate, AllocateFewer,
         StopStreaming, Suspend, StartFails, StartWith, Transfers, stream
<1>3. Known(chosen) /\ committed \in answered \cup {Nothing} /\ \A s \in answered : Known(s)
  BY <1>2 DEF AgreedInv
<1> QED BY <1>1, <1>2, <1>3, AgreedStays

LEMMA CommitAgreed ==
  ASSUME TransferInv, AgreedInv, NamesFormats, Commit \/ CommitFails
  PROVE  AgreedInv'
<1>1. /\ setup \in Setups /\ setup' = setup /\ answered' = answered /\ chosen' = chosen
      /\ ctrl' = ctrl /\ cur' = cur /\ pc = "commit" /\ pc' \in {"select", "idle"}
  BY DEF Commit, CommitFails, StartFails, stream, TransferInv, TypeOK
<1>2. PICK s \in answered : ctrl = Reply(s) /\ cur = Pair(s)
  BY <1>1 DEF AgreedInv
<1>3. Known(s) /\ s \in Settings
  BY <1>1, TypeNow DEF AgreedInv
<1>4. Adopted(ctrl) = s
  BY <1>1, <1>2, <1>3, AdoptedReply
<1>5. Known(chosen) /\ committed \in answered \cup {Nothing} /\ \A r \in answered : Known(r)
  BY <1>1 DEF AgreedInv
<1>6. CASE Commit
  <2>1. committed' = s /\ pc' = "select"
    BY <1>4, <1>6 DEF Commit
  <2>2. Reply(s)' = Reply(s) /\ \A r \in answered : Known(r)'
    BY <1>1, <1>5, ReplyStays, KnownStays
  <2>3. Known(Default)' /\ Known(chosen)'
    <3>1. PICK d, c : d = Default /\ c = chosen
      OBVIOUS
    <3>2. Known(d)' /\ Known(c)'
      BY <1>1, <1>5, <3>1, KnownStays DEF AgreedInv
    <3>3. Default' = d /\ chosen' = c
      BY <1>1, <3>1, DefaultStays
    <3> QED BY <3>2, <3>3
  <2> QED BY <1>1, <1>2, <2>1, <2>2, <2>3 DEF AgreedInv, Pair, Nothing, Zero, Setting
<1>7. CASE CommitFails
  <2>1. committed' \in answered' \cup {Nothing} /\ pc' = "idle" /\ ~streaming'
    BY <1>1, <1>4, <1>5, <1>7 DEF CommitFails, StartFails
  <2> QED BY <1>1, <1>5, <2>1, AgreedStays DEF Transfers
<1> QED BY <1>6, <1>7

LEMMA ResumeAgreed ==
  ASSUME TransferInv, AgreedInv, NamesFormats, Resume
  PROVE  AgreedInv'
<1>1. /\ setup' = setup /\ answered' = answered /\ ctrl' = ctrl /\ cur' = cur
      /\ pc = "idle" /\ pc' \in {"commit", "idle"} /\ ~Transfers'
      /\ chosen' \in {chosen, Default} /\ committed' \in {committed, Nothing}
  BY DEF Resume, Transfers
<1>2. /\ Known(chosen) /\ Known(Default) /\ committed \in answered \cup {Nothing}
      /\ \A r \in answered : Known(r)
  BY <1>1 DEF AgreedInv
<1> QED BY <1>1, <1>2, AgreedStays

LEMMA AgreedStep ==
  ASSUME TransferInv, AgreedInv, NamesFormats, [Next]_vars
  PROVE  AgreedInv'
<1>1. CASE Next
  BY <1>1, InitAgreed, ProbeAgreed, GetCurAgreed, TransferAgreed, CommitAgreed, ResumeAgreed DEF Next
<1>2. CASE UNCHANGED vars
  <2>1. /\ setup' = setup /\ answered' = answered /\ committed' = committed /\ chosen' = chosen
        /\ ctrl' = ctrl /\ cur' = cur /\ pc' = pc /\ Transfers' = Transfers
    BY <1>2 DEF vars, stream, device, Transfers
  <2>2. CASE pc \in {"new", "initSet", "initCur", "failed"}
    <3>1. PICK d : d = Default
      OBVIOUS
    <3>2. Default' = Default /\ Reply(d)' = Reply(d)
      BY <2>1, DefaultStays, ReplyStays
    <3> QED BY <2>1, <2>2, <3>1, <3>2 DEF AgreedInv, Nothing, Zero, Setting
  <2>3. CASE pc \notin {"new", "initSet", "initCur", "failed"}
    BY <2>1, <2>3, AgreedStays DEF AgreedInv
  <2> QED BY <2>2, <2>3
<1> QED BY <1>1, <1>2

-----------------------------------------------------------------------------
(* What a transfer gets *)

\* The driver computes the bandwidth itself for devices that ask for a senseless one
\* only, and its estimate is enough for their uncompressed frames.
EstimatesSuffice == \A s \in Setups : "fixBandwidth" \in s.quirks =>
  /\ s.asks = "huge"
  /\ \A i \in DOMAIN s.formats : ~s.formats[i].compressed =>
       \A j \in DOMAIN s.formats[i].frames : \A t \in {1, 2} :
         LET frame == s.formats[i].frames[j] IN
         frame.needs[t] <= frame.estimate \/ frame.needs[t] <= LowestEstimate

\* A device with a compressed format gives the size of its images, unless it is one
\* that is known to leave the field empty.
SizesAreGiven == \A s \in Setups :
  (\E i \in DOMAIN s.formats : s.formats[i].compressed) =>
    s.sizes = "right" \/ (s.sizes = "null" /\ s.old)

\* What the driver makes of what a device asks for, before the interface limits it:
\* what the device needs, or at least that.
LEMMA SignDroppedAsked ==
  ASSUME setup \in SetupType, NEW s, Described(s), s.tuning \in {1, 2}
  PROVE  /\ SignDropped(Asked(s)) \in Nat /\ SignDropped(Asked(s)) >= Needed(s)
         /\ setup.asks # "huge" => SignDropped(Asked(s)) = Needed(s)
<1>1. PICK n \in 1 .. Half - 1 : n = Needed(s)
  BY NeededTyped
<1>2. PICK h \in Nat \ {0} : h = Half
  BY BoundsAssumption
<1>3. h >= 2 /\ n \in 1 .. h - 1
  BY <1>1, <1>2
<1>4. /\ h * 0 + n = n /\ h * (h - 2) + (h - 1) = h * h - h - 1
      /\ h * (h - 2) + (h - 1) >= h - 1 /\ h * (h - 2) + (h - 1) \in Nat
  <2>1. h * (h - 2) \in Nat
    <3>1. h - 2 \in Nat
      BY <1>3
    <3> QED BY <3>1
  <2>2. h * (h - 2) = h * h - 2 * h
    OBVIOUS
  <2>3. h * h \in Int
    OBVIOUS
  <2> QED BY <1>3, <2>1, <2>2, <2>3
<1>5. n \div h = 0
  BY <1>3, <1>4, DivIs
<1>6. (h * (h - 1) + n) \div h = h - 1 /\ (h * (h - 1) + n) % h = n
  <2>1. h - 1 \in Int /\ n \in 0 .. h - 1
    BY <1>3
  <2> QED BY <2>1, DivIs
<1>7. (h * h - h - 1) \div h = h - 2
  <2>1. h - 2 \in Int /\ h - 1 \in 0 .. h - 1
    BY <1>3
  <2>2. (h * (h - 2) + (h - 1)) \div h = h - 2
    BY <2>1, DivIs
  <2> QED BY <1>4, <2>2
<1>8. Asked(s) = CASE setup.asks = "huge" -> h * h - h - 1
                   [] setup.asks = "extended" /\ 2 * n >= h -> h * (h - 1) + n
                   [] OTHER -> n
  BY <1>1, <1>2 DEF Asked
<1> DEFINE x == h * h - h - 1
           y == h * (h - 1) + n
<1>9. Asked(s) = CASE setup.asks = "huge" -> x
                   [] setup.asks = "extended" /\ 2 * n >= h -> y
                   [] OTHER -> n
  BY <1>8
<1>10. /\ x \div h = h - 2 /\ y \div h = h - 1 /\ y % h = n
       /\ x \in Nat /\ x >= h - 1
  BY <1>4, <1>6, <1>7
<1> HIDE DEF x, y
<1>11. CASE setup.asks = "huge"
  <2>1. Asked(s) = x
    BY <1>9, <1>11
  <2>2. SignDropped(x) = x
    BY <1>2, <1>3, <1>10 DEF SignDropped
  <2> QED BY <1>1, <1>3, <1>10, <1>11, <2>1, <2>2
<1>12. CASE setup.asks # "huge" /\ setup.asks = "extended" /\ 2 * n >= h
  <2>1. Asked(s) = y
    BY <1>9, <1>12
  <2>2. SignDropped(y) = n
    BY <1>2, <1>10 DEF SignDropped
  <2> QED BY <1>1, <1>3, <2>1, <2>2
<1>13. CASE setup.asks # "huge" /\ ~(setup.asks = "extended" /\ 2 * n >= h)
  <2>1. Asked(s) = n
    BY <1>9, <1>13
  <2>2. SignDropped(n) = n
    BY <1>2, <1>3, <1>5 DEF SignDropped
  <2> QED BY <1>1, <1>3, <2>1, <2>2
<1> QED BY <1>11, <1>12, <1>13

\* The bandwidth of an answer, before the interface limits it.
LEMMA BandwidthIsEnough ==
  ASSUME setup \in Setups, NamesFormats, EstimatesSuffice, NEW s \in Settings, Known(s)
  PROVE  LET b == Bandwidth(CorrectedHint(Answer(s))) IN
         /\ b \in Nat /\ b >= Needed(s)
         /\ setup.asks # "huge" => b = Needed(s)
<1>1. setup \in SetupType /\ s.tuning \in {1, 2} /\ Described(s)
  BY SetupsAssumption DEF Known
<1>2. PICK c \in Controls : /\ c = CorrectedHint(Answer(s)) /\ c.payload = Asked(s)
                            /\ Described(c) /\ c.format = s.format /\ c.frame = s.frame
  <2>1. Answer(s) \in Controls /\ Answer(s).payload = Asked(s)
    BY <1>1, AnswerTyped
  <2>2. PICK a \in Controls : a = Answer(s) /\ a.payload = Asked(s)
    BY <2>1
  <2>3. PICK p \in Named(s) : TRUE
    BY <1>1 DEF Described
  <2>4. p[1] \in DOMAIN Formats /\ s.format = Formats[p[1]].index
    BY <1>1, <2>3, NamedAre DEF Named
  <2>5. CorrectedHint(a).format = s.format /\ CorrectedHint(a).frame = s.frame
    BY <1>1, <2>2, <2>4, ReplyNames
  <2>6. Described(CorrectedHint(a))
    BY <2>2, ReplyKnown
  <2> QED BY <2>2, <2>5, <2>6, CorrectedTyped
<1>3. FrameOf(c) = FrameOf(s) /\ CompressedOf(c) = CompressedOf(s)
  BY <1>2, SameNames
<1>4. CASE ~CompressedOf(c) /\ "fixBandwidth" \in setup.quirks /\ Isochronous
  <2>1. PICK p \in Named(s) : FrameOf(s) = FrameAt(p[1], p[2])
                              /\ CompressedOf(s) = Formats[p[1]].compressed
    BY <1>1, DescribedAre
  <2>2. PICK i \in DOMAIN setup.formats : i = p[1]
    BY <1>1, <2>1, NamedAre DEF Formats
  <2>3. PICK j \in DOMAIN setup.formats[i].frames : j = p[2]
    BY <1>1, <2>1, <2>2, NamedAre DEF Formats
  <2>4. FrameOf(s) = setup.formats[i].frames[j] /\ ~setup.formats[i].compressed
    BY <1>3, <1>4, <2>1, <2>2, <2>3 DEF FrameAt, Formats
  <2>5. /\ setup.asks = "huge"
        /\ \/ FrameOf(s).needs[s.tuning] <= FrameOf(s).estimate
           \/ FrameOf(s).needs[s.tuning] <= LowestEstimate
    BY <1>1, <1>4, <2>4 DEF EstimatesSuffice
  <2>6. PICK e \in Nat : e = FrameOf(s).estimate
    BY <1>1, DescribedAre DEF FrameType
  <2>7. PICK l \in Nat : l = LowestEstimate
    BY BoundsAssumption
  <2>8. Max({e, l}) \in {e, l} /\ Max({e, l}) >= e /\ Max({e, l}) >= l
    <3>1. e \in Int /\ l \in Int
      OBVIOUS
    <3> QED BY <3>1, MaxOfTwo
  <2>9. PICK n \in Int : n = Needed(s)
    BY <1>1, NeededTyped, HalfSquared
  <2>10. n <= e \/ n <= l
    BY <2>5, <2>6, <2>7, <2>9 DEF Needed
  <2>11. Max({e, l}) \in Nat /\ Max({e, l}) >= n
    BY <2>8, <2>10
  <2>12. Bandwidth(c) = Max({e, l})
    BY <1>3, <1>4, <2>6, <2>7 DEF Bandwidth
  <2> QED BY <1>2, <2>5, <2>9, <2>11, <2>12
<1>5. CASE ~(~CompressedOf(c) /\ "fixBandwidth" \in setup.quirks /\ Isochronous)
  <2>1. Bandwidth(c) = SignDropped(Asked(s))
    BY <1>2, <1>5 DEF Bandwidth
  <2> QED BY <1>1, <1>2, <2>1, SignDroppedAsked
<1> QED BY <1>4, <1>5

\* The payload of the answer that the driver corrects.
LEMMA ReplyPayload ==
  ASSUME setup \in Setups, NamesFormats, EstimatesSuffice, NEW s \in Settings, Known(s), Isochronous
  PROVE  /\ Reply(s).payload \in Nat /\ maxpsize \in Nat /\ Reply(s).payload <= maxpsize
         /\ Needed(s) \in Nat
         /\ Reply(s).payload >= Needed(s) \/ Reply(s).payload = maxpsize
         /\ setup.asks # "huge" => Reply(s).payload = Needed(s)
                                   \/ (Reply(s).payload = maxpsize /\ maxpsize < Needed(s))
<1>1. setup \in SetupType /\ s.tuning # 0 /\ s.tuning \in {1, 2} /\ Described(s)
  BY SetupsAssumption DEF Known
<1>2. Answer(s) \in Controls /\ Described(CorrectedHint(Answer(s)))
  BY <1>1, AnswerTyped, ReplyKnown
<1>3. PICK b \in Nat : /\ b = Bandwidth(CorrectedHint(Answer(s)))
                       /\ b >= Needed(s) /\ (setup.asks # "huge" => b = Needed(s))
  BY BandwidthIsEnough
<1>4. Reply(s).payload = Capped(b)
  BY <1>1, <1>2, <1>3, FixedUpTyped DEF Reply
<1>5. PICK m \in Nat : m = maxpsize
  BY <1>1, MaxPsize
<1>6. PICK n \in Nat : n = Needed(s)
  BY <1>1, NeededTyped, HalfSquared
<1>7. Capped(b) = IF b > m THEN m ELSE b
  <2>1. b > m => Capped(b) = m
    BY <1>5 DEF Capped
  <2>2. ~(b > m) => Capped(b) = b
    BY <1>5 DEF Capped
  <2> QED BY <2>1, <2>2
<1>8. PICK r : r = Reply(s).payload
  OBVIOUS
<1>9. /\ r \in Nat /\ r <= m /\ (r >= n \/ r = m)
      /\ setup.asks # "huge" => r = n \/ (r = m /\ m < n)
  <2>1. r = IF b > m THEN m ELSE b
    BY <1>4, <1>7, <1>8
  <2>2. b >= n /\ (setup.asks # "huge" => b = n)
    BY <1>3, <1>6
  <2> QED BY <2>1, <2>2
<1>10. /\ r \in Nat /\ m \in Nat /\ r <= m /\ n \in Nat
       /\ r >= n \/ r = m
       /\ setup.asks # "huge" => r = n \/ (r = m /\ m < n)
  BY <1>9
<1> QED BY <1>5, <1>6, <1>8, <1>10, Zenon

LEMMA ReplySize ==
  ASSUME setup \in Setups, NamesFormats, SizesAreGiven, NEW s \in Settings, Known(s)
  PROVE  Reply(s).size = FrameOf(s).size
<1>1. setup \in SetupType /\ s.tuning # 0 /\ s.tuning \in {1, 2} /\ Described(s)
  BY SetupsAssumption DEF Known
<1>2. PICK a \in Controls : a = Answer(s)
  BY <1>1, AnswerTyped
<1>3. Described(CorrectedHint(a))
  BY <1>2, ReplyKnown
<1>4. CorrectedHint(a).format = s.format /\ CorrectedHint(a).frame = s.frame
  <2>1. PICK p \in Named(s) : TRUE
    BY <1>1 DEF Described
  <2>2. p[1] \in DOMAIN Formats /\ s.format = Formats[p[1]].index
    BY <1>1, <2>1, NamedAre DEF Named
  <2> QED BY <1>1, <1>2, <2>2, ReplyNames
<1>5. PICK c : c = CorrectedHint(a) /\ c.size = a.size
  BY CorrectedTyped
<1>6. FrameOf(c) = FrameOf(s) /\ CompressedOf(c) = CompressedOf(s)
  BY <1>4, <1>5, SameNames
<1>7. Reply(s).size = FrameSize(c)
  BY <1>1, <1>2, <1>3, <1>5, FixedUpTyped DEF Reply
<1>8. CASE ~CompressedOf(c)
  BY <1>6, <1>7, <1>8 DEF FrameSize
<1>9. CASE CompressedOf(c)
  <2>1. PICK p \in Named(s) : CompressedOf(s) = Formats[p[1]].compressed
    BY <1>1, DescribedAre
  <2>2. p[1] \in DOMAIN setup.formats /\ setup.formats[p[1]].compressed
    BY <1>1, <1>6, <1>9, <2>1, NamedAre DEF Formats
  <2>3. setup.sizes = "right" \/ (setup.sizes = "null" /\ setup.old)
    BY <2>2 DEF SizesAreGiven
  <2>4. a.size = CASE setup.sizes = "null" -> 0
                   [] setup.sizes = "short" -> FrameOf(s).size \div 2
                   [] setup.sizes = "right" -> FrameOf(s).size
    BY <1>1, <1>2 DEF Answer
  <2>5. setup.sizes = "null" => a.size = 0
    BY <2>4
  <2>6. setup.sizes = "right" => a.size = FrameOf(s).size
    BY <2>4
  <2> QED BY <1>5, <1>6, <1>7, <2>3, <2>5, <2>6 DEF FrameSize
<1> QED BY <1>8, <1>9

\* The alternate setting of a transfer.
LEMMA TransferGets ==
  ASSUME TransferInv, AgreedInv, NamesFormats, EstimatesSuffice, Running, Isochronous
  PROVE  BandwidthFits
<1>1. Transfers /\ pc \notin {"new", "initSet", "initCur", "failed"}
  BY DEF Running, Transfers
<1>2. setup \in Setups /\ setup \in SetupType
  BY SetupsAssumption DEF TransferInv, TypeOK
<1>3. PICK s \in answered : ctrl = Reply(s) /\ committed = s
  BY <1>1 DEF AgreedInv
<1>4. s \in Settings /\ Known(s)
  BY <1>1, TypeNow DEF AgreedInv
<1>5. /\ ctrl.payload \in Nat /\ maxpsize \in Nat /\ ctrl.payload <= maxpsize /\ Needed(s) \in Nat
      /\ ctrl.payload >= Needed(s) \/ ctrl.payload = maxpsize
      /\ setup.asks # "huge" => ctrl.payload = Needed(s)
                                \/ (ctrl.payload = maxpsize /\ maxpsize < Needed(s))
  BY <1>2, <1>3, <1>4, ReplyPayload
<1>6. alt = Narrowest(WideEnough) /\ WideEnough # {}
  BY <1>1 DEF TransferInv, UrbInv
<1>7. alt \in WideEnough /\ \A k \in WideEnough : setup.alts[alt] <= setup.alts[k]
  BY <1>2, <1>6, NarrowestIs
<1>8. alt \in DOMAIN setup.alts
      /\ \A k \in DOMAIN setup.alts : /\ setup.alts[k] \in Nat /\ setup.alts[k] >= 1
                                      /\ setup.alts[k] <= maxpsize
  <2>1. Half * Half \in Nat
    BY HalfSquared
  <2> QED BY <1>2, <1>7, <2>1, MaxPsize DEF WideEnough
<1>9. PICK b \in Nat : b = ctrl.payload
  BY <1>5
<1>10. \A k \in DOMAIN setup.alts : k \in WideEnough <=> setup.alts[k] >= b
  BY <1>8, <1>9 DEF WideEnough
<1>11. setup.alts[alt] >= b
  BY <1>7, <1>8, <1>10
<1>12. PICK m \in Nat, n \in Nat : m = maxpsize /\ n = Needed(s)
  BY <1>5
<1>13. setup.alts[alt] >= n \/ setup.alts[alt] = m
  BY <1>5, <1>8, <1>9, <1>11, <1>12
<1>14. ASSUME setup.asks # "huge", NEW p \in Psizes, p >= n PROVE p >= setup.alts[alt]
  <2>1. PICK k \in DOMAIN setup.alts : p = setup.alts[k]
    BY DEF Psizes
  <2>2. p \in Nat /\ p <= m
    BY <1>8, <1>12, <2>1
  <2>3. b = n
    BY <1>5, <1>9, <1>12, <1>14, <2>2
  <2>4. k \in WideEnough
    BY <1>10, <1>14, <2>1, <2>3
  <2> QED BY <1>7, <1>8, <2>1, <2>4
<1> QED BY <1>3, <1>12, <1>13, <1>14 DEF BandwidthFits

-----------------------------------------------------------------------------
(* The theorems *)

\* Every variable keeps its type, the payload sizes their 32 bits, and a running
\* transfer has the buffers of its alternate setting and of the bandwidth it was set up
\* for, kept over a suspend or allocated: whatever the device answers.
THEOREM TypeCorrect == Spec => [](TypeOK /\ UrbsMatchBandwidth)
<1>1. TransferInv => TypeOK /\ UrbsMatchBandwidth
  <2> SUFFICES ASSUME TransferInv PROVE TypeOK /\ UrbsMatchBandwidth
    OBVIOUS
  <2>1. ASSUME Running
        PROVE  npackets * Psize = urb_size /\ (faults = 0 => npackets = Packets)
    <3>1. Transfers
      BY <2>1 DEF Running, Transfers
    <3>2. Psize = PsizeFor
      BY <3>1 DEF TransferInv, UrbInv, Psize, PsizeFor
    <3>3. Packets = PacketsFor
      BY <3>2 DEF Packets, PacketsFor
    <3> QED BY <3>1, <3>2, <3>3 DEF TransferInv, UrbInv, Fits
  <2> QED BY <2>1 DEF TransferInv, UrbsMatchBandwidth
<1> QED BY <1>1, TransferInit, TransferStep, PTL DEF Spec

LEMMA Agreement ==
  ASSUME NamesFormats
  PROVE  Spec => [](TransferInv /\ AgreedInv)
<1>1. Init => TransferInv /\ AgreedInv
  BY TransferInit, AgreedInit
<1>2. TransferInv /\ AgreedInv /\ [Next]_vars => (TransferInv /\ AgreedInv)'
  BY TransferStep, AgreedStep
<1> QED BY <1>1, <1>2, PTL DEF Spec

\* A device commits only to settings that it has answered to a GET_CUR: however tries,
\* settings, lost requests, suspends and resets follow each other, for every device
\* that names its formats.
THEOREM OnlyAnsweredIsCommitted ==
  ASSUME NamesFormats
  PROVE  Spec => []CommitsWhatWasAnswered
<1>1. TransferInv /\ AgreedInv => CommitsWhatWasAnswered
  BY DEF AgreedInv, CommitsWhatWasAnswered
<1> QED BY <1>1, Agreement, PTL

\* A running stream delivers the format and frame the application was told, under the
\* same conditions.
THEOREM StreamKeepsItsFormat ==
  ASSUME NamesFormats
  PROVE  Spec => []StreamMatchesFormat
<1>1. TransferInv /\ AgreedInv => StreamMatchesFormat
  <2> SUFFICES ASSUME TransferInv, AgreedInv, Running
               PROVE  committed.format = cur.format /\ committed.frame = cur.frame
    BY DEF StreamMatchesFormat
  <2>1. Transfers /\ pc \notin {"new", "initSet", "initCur", "failed"}
    BY DEF Running, Transfers
  <2> QED BY <2>1 DEF AgreedInv, Pair
<1> QED BY <1>1, Agreement, PTL

\* A start finds an alternate setting, a running stream has the bandwidth the device
\* needs or the widest there is, and no more unless the device asks for a senseless one,
\* its buffers hold the device's images and its transfer buffers fit the alternate
\* setting, for every device that names its formats, whose bandwidth the quirk estimates
\* high enough where it must and that gives the sizes of compressed images.
THEOREM TransfersFit ==
  ASSUME NamesFormats, EstimatesSuffice, SizesAreGiven
  PROVE  Spec => []TransferFits
<1>1. ASSUME TransferInv, AgreedInv PROVE BandwidthFound
  <2> SUFFICES ASSUME pc = "select", Isochronous PROVE WideEnough # {}
    BY DEF BandwidthFound
  <2>1. setup \in Setups /\ setup \in SetupType
    BY <1>1, SetupsAssumption DEF TransferInv, TypeOK
  <2>2. PICK s \in answered : ctrl = Reply(s)
    BY <1>1 DEF AgreedInv
  <2>3. s \in Settings /\ Known(s)
    BY <1>1, <2>2, TypeNow DEF AgreedInv
  <2>4. ctrl.payload \in Nat /\ maxpsize \in Nat /\ ctrl.payload <= maxpsize
    BY <2>1, <2>2, <2>3, ReplyPayload
  <2>5. PICK i \in DOMAIN setup.alts : setup.alts[i] = maxpsize
    BY <2>1, MaxPsize
  <2>6. maxpsize >= 1
    <3>1. setup.alts[i] \in 1 .. Half * Half - 1
      BY <2>1, MaxPsize
    <3> QED BY <2>4, <2>5, <3>1, HalfSquared
  <2>7. i \in WideEnough
    BY <2>4, <2>5, <2>6 DEF WideEnough
  <2> QED BY <2>7
<1>2. ASSUME TransferInv, AgreedInv PROVE BandwidthFits
  BY <1>2, TransferGets DEF BandwidthFits
<1>3. ASSUME TransferInv, AgreedInv PROVE BufferHoldsFrame
  <2> SUFFICES ASSUME Running PROVE ctrl.size >= FrameOf(committed).size
    BY DEF BufferHoldsFrame
  <2>1. Transfers /\ pc \notin {"new", "initSet", "initCur", "failed"}
    BY DEF Running, Transfers
  <2>2. setup \in Setups /\ setup \in SetupType
    BY <1>3, SetupsAssumption DEF TransferInv, TypeOK
  <2>3. PICK s \in answered : ctrl = Reply(s) /\ committed = s
    BY <1>3, <2>1 DEF AgreedInv
  <2>4. s \in Settings /\ Known(s)
    BY <1>3, <2>1, TypeNow DEF AgreedInv
  <2>5. ctrl.size = FrameOf(s).size /\ FrameOf(s).size \in Nat
    BY <2>2, <2>3, <2>4, ReplySize, NeededTyped DEF Known
  <2> QED BY <2>3, <2>5
<1>4. TransferInv /\ AgreedInv => BandwidthFound /\ BandwidthFits /\ BufferHoldsFrame
  BY <1>1, <1>2, <1>3
<1>5. BandwidthFound /\ BandwidthFits /\ BufferHoldsFrame /\ TypeOK /\ UrbsMatchBandwidth
        => TransferFits
  BY DEF TransferFits
<1> QED BY <1>4, <1>5, Agreement, TypeCorrect, PTL
=============================================================================
