--------------------------- MODULE UvcChain_proofs ---------------------------
(***************************************************************************)
(* Proofs about UvcChain, for every set of devices: no list is corrupted,  *)
(* chains are closed under references, whatever the descriptors name, the  *)
(* fallback rescues every device that it can, and a device of a documented *)
(* structure is found as a whole.                                          *)
(*                                                                         *)
(* ChainInv is inductive.  Its parts: what identifiers descriptors can     *)
(* have (WellFormed), that linked marks all that is in a list (Marked),    *)
(* where in the chain the scan is (Cursor), and that each source of an     *)
(* entity in the chain is in it or Pending (Closing).                      *)
(*                                                                         *)
(* WalkInv, inductive together with it, follows the scan of a documented   *)
(* device along its main path: the level the scan is at decides which      *)
(* units, inputs and leaves are linked.                                    *)
(*                                                                         *)
(* Induction over a number is done by its least counterexample             *)
(* (LeastOf).                                                              *)
(***************************************************************************)
EXTENDS UvcChain, FiniteSetTheorems, TLAPS

-----------------------------------------------------------------------------
(* The invariant                                                           *)

\* What UVC_ENTITY_IS_ITERM takes for an input terminal.
InputTypes == {"IT", "EXT", "GPIO"}

\* What the descriptors and uvc_alloc_new_entity make of an entity: only a terminal
\* has an identifier that is not a byte, and identifiers differ unless invalid.
WellFormed ==
  \A i \in DOMAIN entities :
    /\ Type(i) \in InputTypes => Sources(i) = <<>>
    /\ Type(i) \in {"OT", "PU"} => Pins(i) = 1
    /\ entities[i].id # 0
    /\ Type(i) = "OT" => entities[i].id > 255
    /\ Type(i) = "GPIO" => entities[i].id \in {GpioId, Invalid}
    /\ Type(i) \notin {"OT", "GPIO"} => entities[i].id \in 1 .. 255 \cup {Invalid}
    /\ \A j \in DOMAIN entities : entities[i].id = entities[j].id => i = j \/ entities[i].id = Invalid

\* A chain is being built; its entity is in it.
Scanning == pc \in {"entity", "forward", "backward", "pins"}
Placed == pc \in {"forward", "backward", "pins"}

\* The lists, and where the scan is in them.
Marked ==
  /\ \A k \in DOMAIN Lists : ToSet(Lists[k]) \subseteq linked
  /\ linked \subseteq DOMAIN entities
  /\ pc # "done" => linked \cap OfType({"GPIO"}) = {}
Cursor ==
  /\ ~Scanning => chain = <<>> /\ pin = 0
  /\ Scanning => entity \in DOMAIN entities /\ pin <= Pins(entity)
  /\ pc \in {"entity", "backward"} => pin = 0
  /\ pc = "pins" \/ pin > 0 => Selector(entity)
  /\ Placed => /\ entity \in ToSet(chain) /\ Type(entity) \notin {"EXT", "GPIO"}
               /\ Type(entity) = "XU" => Pins(entity) = 1
  /\ pc = "forward" => at \in ToSet(chain) /\ (pin = 0 => at = entity)

\* A source that the scan has yet to follow.
Pending(e, k) ==
  IF pc = "entity" THEN EntityById(Sources(e)[k]) = entity ELSE Placed /\ e = entity /\ k > pin
\* All that the entities of c name is in c.
Closed(c) == \A e \in ToSet(c) : \A id \in ToSet(Sources(e)) \ {0} : EntityById(id) \in ToSet(c)
\* Each source of an entity in the chain is in it or pending, and finished chains are closed.
Closing ==
  /\ \A e \in ToSet(chain) : \A k \in DOMAIN Sources(e) :
       Sources(e)[k] = 0 \/ EntityById(Sources(e)[k]) \in ToSet(chain) \/ Pending(e, k)
  /\ ChainClosed
  /\ pc # "done" => \A c \in ToSet(chains) : Closed(c)
  /\ pc = "failed" => chains = <<>> /\ ~FallbackFits

\* The inductive invariant.
ChainInv == TypeOK /\ WellFormed /\ NeverLinkedTwice /\ Marked /\ Cursor /\ Closing

-----------------------------------------------------------------------------
(* Numbers                                                                 *)

\* A set of natural numbers has a least element, which is how the proofs do induction.
LEMMA LeastOf ==
  ASSUME NEW T \in SUBSET Nat, T # {}
  PROVE  \E x \in T : \A y \in T : x <= y
<1> DEFINE R == OpToRel(<, Nat)
<1>1. IsWellFoundedOn(R, Nat)
  BY NatLessThanWellFounded
<1>2. PICK x \in T : \A y \in T : <<y, x>> \notin R
  <2> HIDE DEF R
  <2> QED BY <1>1, WFMin
<1>3. \A y \in T : y < x => <<y, x>> \in R
  BY DEF OpToRel
<1>4. \A y \in T : x <= y
  <2> HIDE DEF R
  <2>1. \A y \in T : ~ (y < x)
    BY <1>2, <1>3
  <2> QED BY <2>1
<1> QED BY <1>4

\* It is what Min chooses.
LEMMA MinIs ==
  ASSUME NEW T \in SUBSET Nat, T # {}
  PROVE  Min(T) \in T /\ \A y \in T : Min(T) <= y
BY LeastOf DEF Min

\* A finite one has a greatest element.
LEMMA GreatestOf ==
  ASSUME NEW n \in Nat, NEW T \in SUBSET (1 .. n), T # {}
  PROVE  \E x \in T : \A y \in T : y <= x
<1> DEFINE U == {k \in Nat : n - k \in T}
<1>1. PICK t \in T : TRUE
  OBVIOUS
<1>2. n - t \in Nat /\ n - (n - t) = t
  OBVIOUS
<1>3. U # {} /\ U \in SUBSET Nat
  BY <1>1, <1>2
<1>4. PICK k \in U : \A l \in U : k <= l
  <2> HIDE DEF U
  <2> QED BY <1>3, LeastOf
<1>5. \A y \in T : n - y \in Nat /\ n - (n - y) = y
  OBVIOUS
<1>6. \A y \in T : n - y \in U
  BY <1>5
<1>7. \A y \in T : y <= n - k
  BY <1>4, <1>6
<1> QED BY <1>4, <1>7

\* The elements of a set of numbers have ranks, counted from the greatest, without a gap.
LEMMA Ranked ==
  ASSUME NEW n \in Nat, NEW S \in SUBSET (1 .. n)
  PROVE  /\ Cardinality(S) \in Nat
         /\ \A k \in 1 .. Cardinality(S) :
              \E i \in S : Cardinality({j \in S : j > i}) = k - 1
<1> DEFINE Later(i) == {j \in S : j > i}
           Fails == {k \in 1 .. Cardinality(S) : \A i \in S : Cardinality(Later(i)) # k - 1}
<1>0. S \subseteq 1 .. n /\ \A x \in S : x \in Nat /\ x >= 1
  OBVIOUS
<1>1. IsFiniteSet(S)
  <2>1. IsFiniteSet(1 .. n)
    BY FS_Interval
  <2> QED BY <1>0, <2>1, FS_Subset
<1>2. Cardinality(S) \in Nat
  BY <1>1, FS_CardinalityType
<1>3. ASSUME NEW i \in S, NEW j \in Nat, Cardinality(Later(i)) = j, j + 1 < Cardinality(S)
      PROVE  \E m \in S : Cardinality(Later(m)) = j + 1
  <2> DEFINE B == {m \in S : m < i}
  <2>1. IsFiniteSet(Later(i)) /\ IsFiniteSet(B) /\ IsFiniteSet(Later(i) \cup {i})
    BY <1>1, FS_Subset, FS_AddElement
  <2>2. Cardinality(Later(i) \cup {i}) = j + 1
    BY <2>1, <1>3, FS_AddElement
  <2>3. B # {}
    <3> SUFFICES ASSUME B = {} PROVE FALSE
      OBVIOUS
    <3>1. \A x \in S : x > i \/ x = i \/ x < i
      BY <1>0
    <3>2. S = Later(i) \cup {i}
      BY <3>1
    <3> QED BY <3>2, <2>2, <1>3
  <2>4. B \in SUBSET (1 .. n)
    OBVIOUS
  <2>5. PICK m \in B : \A y \in B : y <= m
    <3> HIDE DEF B
    <3> QED BY <2>3, <2>4, GreatestOf
  <2>6. Later(m) = Later(i) \cup {i}
    <3>1. m \in S /\ m < i /\ i \in Nat /\ m \in Nat
      BY <1>0
    <3>2. \A x \in S : x > m => x > i \/ x = i
      <4>1. \A x \in S : x < i => x <= m
        BY <2>5
      <4> QED BY <4>1, <3>1, <1>0
    <3>3. \A x \in S : x > i \/ x = i => x > m
      BY <3>1, <1>0
    <3> QED BY <3>2, <3>3
  <2> QED BY <2>5, <2>6, <2>2
<1>4. SUFFICES ASSUME Fails # {} PROVE FALSE
  <2> QED BY <1>2
<1>5. Fails \in SUBSET Nat
  OBVIOUS
<1>6. PICK k \in Fails : \A l \in Fails : k <= l
  <2> HIDE DEF Fails
  <2> QED BY <1>4, <1>5, LeastOf
<1>7. CASE k = 1
  <2>1. S # {}
    BY <1>7, <1>6, <1>1, FS_EmptySet
  <2>2. PICK i \in S : \A y \in S : y <= i
    BY <2>1, GreatestOf
  <2>3. Later(i) = {}
    <3>1. \A y \in S : ~ (y > i)
      BY <2>2, <1>0
    <3> QED BY <3>1
  <2>4. Cardinality(Later(i)) = 0
    BY <2>3, FS_EmptySet
  <2> QED BY <2>4, <1>6, <1>7
<1>8. CASE k # 1
  <2>1. k - 1 \in 1 .. Cardinality(S) /\ k - 1 \notin Fails
    BY <1>6, <1>8, <1>2
  <2>2. PICK i \in S : Cardinality(Later(i)) = k - 1 - 1
    BY <2>1
  <2>3. k - 2 \in Nat /\ Cardinality(Later(i)) = k - 2 /\ (k - 2) + 1 < Cardinality(S)
    BY <2>1, <2>2, <1>6, <1>2
  <2>4. \E m \in S : Cardinality(Later(m)) = (k - 2) + 1
    <3> HIDE DEF Later
    <3> QED BY <2>3, <1>3
  <2> QED BY <2>4, <1>6
<1> QED BY <1>7, <1>8

\* No two elements have the same rank.
LEMMA RankedOnce ==
  ASSUME NEW n \in Nat, NEW S \in SUBSET (1 .. n), NEW i \in S,
         Cardinality({j \in S : j > i}) \in Nat
  PROVE  /\ Cardinality({j \in S : j > i}) + 1 \in 1 .. Cardinality(S)
         /\ \A m \in S : Cardinality({j \in S : j > m}) = Cardinality({j \in S : j > i}) => m = i
<1> DEFINE Later(m) == {j \in S : j > m}
<1>0. S \subseteq 1 .. n /\ \A x \in S : x \in Nat /\ x >= 1
  OBVIOUS
<1>1. IsFiniteSet(S) /\ \A m \in S : IsFiniteSet(Later(m))
  <2>1. IsFiniteSet(1 .. n)
    BY FS_Interval
  <2>2. IsFiniteSet(S)
    BY <1>0, <2>1, FS_Subset
  <2>3. \A m \in S : Later(m) \subseteq S
    OBVIOUS
  <2> HIDE DEF Later
  <2> QED BY <2>2, <2>3, FS_Subset
<1>2. ASSUME NEW a \in S, NEW b \in S, a < b
      PROVE  Cardinality(Later(b)) < Cardinality(Later(a))
  <2>1. Later(b) \subseteq Later(a) /\ b \in Later(a) /\ b \notin Later(b)
    <3>1. a \in Nat /\ b \in Nat /\ b > a /\ ~ (b > b)
      BY <1>2, <1>0
    <3>2. \A y \in S : y > b => y > a
      BY <3>1, <1>0
    <3> QED BY <3>1, <3>2
  <2>2. Cardinality(Later(b)) <= Cardinality(Later(a))
        /\ (Cardinality(Later(b)) = Cardinality(Later(a)) => Later(b) = Later(a))
        /\ Cardinality(Later(b)) \in Nat /\ Cardinality(Later(a)) \in Nat
    <3> HIDE DEF Later
    <3> QED BY <2>1, <1>1, FS_Subset, FS_CardinalityType
  <2> QED BY <2>1, <2>2
<1>3. \A m \in S : Cardinality(Later(m)) \in Nat
  BY <1>1, FS_CardinalityType
<1>4. Cardinality(Later(i)) < Cardinality(S) /\ Cardinality(S) \in Nat
  <2>1. Later(i) \subseteq S /\ i \in S /\ i \notin Later(i)
    OBVIOUS
  <2>2. Cardinality(Later(i)) <= Cardinality(S)
        /\ (Cardinality(Later(i)) = Cardinality(S) => Later(i) = S)
        /\ Cardinality(S) \in Nat
    <3> HIDE DEF Later
    <3> QED BY <2>1, <1>1, FS_Subset, FS_CardinalityType
  <2> QED BY <2>1, <2>2, <1>3
<1>5. \A m \in S : Cardinality(Later(m)) = Cardinality(Later(i)) => m = i
  <2> SUFFICES ASSUME NEW m \in S, Cardinality(Later(m)) = Cardinality(Later(i)), m # i
               PROVE  FALSE
    OBVIOUS
  <2>1. m < i \/ i < m
    BY <1>0
  <2> HIDE DEF Later
  <2> QED BY <2>1, <1>2, <1>3
<1> QED BY <1>4, <1>5, <1>3

-----------------------------------------------------------------------------
(* The lists *)

\* The lists are the finished chains and the chain that is being built.
LEMMA ListsAre ==
  ASSUME TypeOK
  PROVE  /\ Len(chains) \in Nat /\ DOMAIN Lists = 1 .. Len(chains) + 1
         /\ \A k \in 1 .. Len(chains) : Lists[k] = chains[k] /\ k \in DOMAIN chains
         /\ Lists[Len(chains) + 1] = chain
         /\ DOMAIN chains = 1 .. Len(chains)
         /\ \A k \in DOMAIN chains : chains[k] \in Seq(Positions)
BY DEF Lists, TypeOK

\* So they are after a step.
LEMMA ListsAreNext ==
  ASSUME TypeOK'
  PROVE  /\ Len(chains') \in Nat /\ DOMAIN Lists' = 1 .. Len(chains') + 1
         /\ \A k \in 1 .. Len(chains') : Lists'[k] = chains'[k]
         /\ Lists'[Len(chains') + 1] = chain'
BY DEF Lists, TypeOK

\* What an append does to the elements of a list.
LEMMA Appended ==
  ASSUME NEW T, NEW s \in Seq(T), NEW e
  PROVE  /\ ToSet(Append(s, e)) = ToSet(s) \cup {e}
         /\ IsInjective(s) /\ e \notin ToSet(s) => IsInjective(Append(s, e))
<1>1. /\ Len(Append(s, e)) = Len(s) + 1 /\ Len(s) \in Nat
      /\ DOMAIN s = 1 .. Len(s) /\ DOMAIN Append(s, e) = 1 .. Len(s) + 1
      /\ \A k \in 1 .. Len(s) : Append(s, e)[k] = s[k]
      /\ Append(s, e)[Len(s) + 1] = e
  OBVIOUS
<1>2. \A k \in 1 .. Len(s) + 1 : k \in 1 .. Len(s) \/ k = Len(s) + 1
  BY <1>1
<1>3. ToSet(Append(s, e)) = ToSet(s) \cup {e}
  <2>1. ToSet(Append(s, e)) \subseteq ToSet(s) \cup {e}
    BY <1>1, <1>2 DEF ToSet
  <2>2. ToSet(s) \subseteq ToSet(Append(s, e))
    BY <1>1 DEF ToSet
  <2>3. Len(s) + 1 \in 1 .. Len(s) + 1
    BY <1>1
  <2>4. e \in ToSet(Append(s, e))
    BY <1>1, <2>3 DEF ToSet
  <2> QED BY <2>1, <2>2, <2>4
<1>4. IsInjective(s) /\ e \notin ToSet(s) => IsInjective(Append(s, e))
  <2>1. SUFFICES ASSUME IsInjective(s), e \notin ToSet(s),
                        NEW a \in 1 .. Len(s) + 1, NEW b \in 1 .. Len(s) + 1,
                        Append(s, e)[a] = Append(s, e)[b]
                 PROVE  a = b
    BY <1>1 DEF IsInjective
  <2>2. \A k \in 1 .. Len(s) : s[k] # e
    BY <2>1, <1>1 DEF ToSet
  <2>3. CASE a \in 1 .. Len(s) /\ b \in 1 .. Len(s)
    BY <2>1, <2>3, <1>1 DEF IsInjective
  <2> QED BY <2>1, <2>2, <2>3, <1>1, <1>2
<1> QED BY <1>3, <1>4

\* Nothing is in the empty list.
LEMMA EmptyList == ToSet(<<>>) = {} /\ IsInjective(<<>>) /\ \A T : <<>> \in Seq(T)
BY DEF ToSet, IsInjective

\* A new entity at the end of the chain.
LEMMA Linking ==
  ASSUME ChainInv, NEW e \in DOMAIN entities, ~InChain(e), Link(e), UNCHANGED <<entities, chains>>
  PROVE  /\ chain' \in Seq(Positions)
         /\ ToSet(chain') = ToSet(chain) \cup {e}
         /\ NeverLinkedTwice'
         /\ \A k \in DOMAIN Lists' : ToSet(Lists'[k]) \subseteq linked'
         /\ linked' \subseteq DOMAIN entities
<1> DEFINE n == Len(chains)
<1>1. TypeOK /\ Marked /\ NeverLinkedTwice
  BY DEF ChainInv
<1>2. /\ n \in Nat /\ DOMAIN Lists = 1 .. n + 1
      /\ \A k \in 1 .. n : Lists[k] = chains[k]
      /\ Lists[n + 1] = chain
  BY <1>1, ListsAre
<1>3. e \in Positions
  BY <1>1 DEF Positions, TypeOK
<1>4. chain \in Seq(Positions) /\ chain' = Append(chain, e) /\ linked' = linked \cup {e} /\ chains' = chains
  BY <1>1 DEF TypeOK, Link
<1>5. chain' \in Seq(Positions)
  BY <1>3, <1>4
<1>6. /\ DOMAIN Lists' = 1 .. n + 1
      /\ \A k \in 1 .. n : Lists'[k] = chains[k]
      /\ Lists'[n + 1] = chain'
  BY <1>1, <1>4 DEF Lists, TypeOK
<1>7. e \notin linked
  BY DEF InChain
<1>8. \A k \in 1 .. n + 1 : ToSet(Lists[k]) \subseteq linked
  BY <1>1, <1>2 DEF Marked
<1>9. n + 1 \in 1 .. n + 1 /\ \A k \in 1 .. n + 1 : k # n + 1 => k \in 1 .. n
  BY <1>2
<1>10. ToSet(chain) \subseteq linked
  BY <1>8, <1>9, <1>2
<1>11. IsInjective(chain) /\ \A k \in 1 .. n : IsInjective(chains[k])
  BY <1>1, <1>2, <1>9 DEF NeverLinkedTwice
<1>12. ToSet(chain') = ToSet(chain) \cup {e} /\ IsInjective(chain')
  BY <1>4, <1>7, <1>10, <1>11, Appended
<1>13. \A k \in 1 .. n : ToSet(chains[k]) \subseteq linked
  BY <1>8, <1>2
<1>14. NeverLinkedTwice'
  <2>1. \A k \in DOMAIN Lists' : IsInjective(Lists'[k])
    BY <1>6, <1>9, <1>11, <1>12
  <2>2. ASSUME NEW k \in 1 .. n + 1, NEW l \in 1 .. n + 1, k # l
        PROVE  ToSet(Lists'[k]) \cap ToSet(Lists'[l]) = {}
    <3>1. ToSet(Lists[k]) \cap ToSet(Lists[l]) = {}
      BY <1>1, <1>2, <2>2 DEF NeverLinkedTwice
    <3> HIDE DEF n
    <3>2. CASE k # n + 1 /\ l # n + 1
      BY <3>1, <3>2, <1>2, <1>6, <1>9
    <3>3. CASE k = n + 1
      <4>1. l \in 1 .. n /\ Lists'[l] = chains[l] /\ Lists[l] = chains[l]
        BY <3>3, <2>2, <1>9, <1>6, <1>2
      <4>2. e \notin ToSet(chains[l])
        BY <4>1, <1>13, <1>7
      <4> QED BY <4>1, <4>2, <3>1, <3>3, <1>6, <1>2, <1>12
    <3>4. CASE l = n + 1
      <4>1. k \in 1 .. n /\ Lists'[k] = chains[k] /\ Lists[k] = chains[k]
        BY <3>4, <2>2, <1>9, <1>6, <1>2
      <4>2. e \notin ToSet(chains[k])
        BY <4>1, <1>13, <1>7
      <4> QED BY <4>1, <4>2, <3>1, <3>4, <1>6, <1>2, <1>12
    <3> QED BY <3>2, <3>3, <3>4
  <2>3. \A k, l \in DOMAIN Lists' : k # l => ToSet(Lists'[k]) \cap ToSet(Lists'[l]) = {}
    BY <2>2, <1>6
  <2> QED BY <2>1, <2>3 DEF NeverLinkedTwice
<1>15. \A k \in DOMAIN Lists' : ToSet(Lists'[k]) \subseteq linked'
  BY <1>4, <1>6, <1>9, <1>10, <1>12, <1>13
<1>16. linked' \subseteq DOMAIN entities
  BY <1>1, <1>4 DEF Marked
<1> QED BY <1>5, <1>12, <1>14, <1>15, <1>16

\* The chain is given up.
LEMMA Dropping ==
  ASSUME TypeOK, NeverLinkedTwice, Marked, chain' = <<>>, UNCHANGED <<entities, linked, chains>>
  PROVE  /\ NeverLinkedTwice'
         /\ \A k \in DOMAIN Lists' : ToSet(Lists'[k]) \subseteq linked'
<1> DEFINE n == Len(chains)
<1>1. /\ n \in Nat /\ DOMAIN Lists = 1 .. n + 1
      /\ \A k \in 1 .. n : Lists[k] = chains[k]
      /\ Lists[n + 1] = chain
  BY ListsAre
<1>2. /\ DOMAIN Lists' = 1 .. n + 1
      /\ \A k \in 1 .. n : Lists'[k] = chains[k]
      /\ Lists'[n + 1] = <<>>
  BY DEF Lists, TypeOK
<1>3. \A k \in 1 .. n + 1 : k # n + 1 => k \in 1 .. n
  BY <1>1
<1>4. \A k \in 1 .. n : IsInjective(chains[k]) /\ ToSet(chains[k]) \subseteq linked
  BY <1>1 DEF NeverLinkedTwice, Marked
<1>5. \A k, l \in 1 .. n : k # l => ToSet(chains[k]) \cap ToSet(chains[l]) = {}
  BY <1>1 DEF NeverLinkedTwice
<1>6. \A k \in DOMAIN Lists' : IsInjective(Lists'[k]) /\ ToSet(Lists'[k]) \subseteq linked'
  BY <1>2, <1>3, <1>4, EmptyList
<1>7. \A k, l \in DOMAIN Lists' : k # l => ToSet(Lists'[k]) \cap ToSet(Lists'[l]) = {}
  <2> HIDE DEF n
  <2> QED BY <1>2, <1>3, <1>5, EmptyList
<1> QED BY <1>6, <1>7 DEF NeverLinkedTwice

\* The chain is found.
LEMMA Finding ==
  ASSUME TypeOK, NeverLinkedTwice, Marked, chains' = Append(chains, chain), chain' = <<>>,
         UNCHANGED <<entities, linked>>
  PROVE  /\ chains' \in Seq(Seq(Positions))
         /\ NeverLinkedTwice'
         /\ \A k \in DOMAIN Lists' : ToSet(Lists'[k]) \subseteq linked'
         /\ ToSet(chains') = ToSet(chains) \cup {chain}
<1> DEFINE n == Len(chains)
<1>1. /\ n \in Nat /\ DOMAIN Lists = 1 .. n + 1
      /\ \A k \in 1 .. n : Lists[k] = chains[k]
      /\ Lists[n + 1] = chain
  BY ListsAre
<1>2. /\ chains' = Lists /\ chains' \in Seq(Seq(Positions)) /\ Len(chains') = n + 1
  BY DEF Lists, TypeOK
<1>3. /\ DOMAIN Lists' = 1 .. n + 2
      /\ \A k \in 1 .. n + 1 : Lists'[k] = Lists[k]
      /\ Lists'[n + 2] = <<>>
  BY <1>1, <1>2 DEF Lists
<1>4. \A k \in 1 .. n + 2 : k # n + 2 => k \in 1 .. n + 1
  BY <1>1
<1>5. \A k \in DOMAIN Lists' : IsInjective(Lists'[k]) /\ ToSet(Lists'[k]) \subseteq linked'
  BY <1>1, <1>3, <1>4, EmptyList DEF NeverLinkedTwice, Marked
<1>6. \A k, l \in 1 .. n + 1 : k # l => ToSet(Lists[k]) \cap ToSet(Lists[l]) = {}
  BY <1>1 DEF NeverLinkedTwice
<1>7. \A k, l \in DOMAIN Lists' : k # l => ToSet(Lists'[k]) \cap ToSet(Lists'[l]) = {}
  <2> HIDE DEF n
  <2> QED BY <1>3, <1>4, <1>6, EmptyList
<1>8. ToSet(chains') = ToSet(chains) \cup {chain}
  BY Appended DEF TypeOK
<1> QED BY <1>2, <1>5, <1>7, <1>8 DEF NeverLinkedTwice

-----------------------------------------------------------------------------
(* Entities *)

\* What ChainInv says of an entity.
LEMMA EntityIs ==
  ASSUME TypeOK
  PROVE  /\ Len(entities) \in Nat /\ DOMAIN entities = 1 .. Len(entities)
         /\ DOMAIN entities \in SUBSET Nat /\ 0 \notin DOMAIN entities
         /\ DOMAIN entities \subseteq Positions /\ 0 \in Positions
         /\ \A i \in DOMAIN entities :
              /\ entities[i] \in Entity
              /\ Type(i) \in Types /\ entities[i].id \in 0 .. Invalid
              /\ Sources(i) \in Seq(Bytes) /\ Pins(i) \in Nat
              /\ DOMAIN Sources(i) = 1 .. Pins(i)
              /\ \A k \in DOMAIN Sources(i) : Sources(i)[k] \in Bytes
<1>1. entities \in Seq(Entity)
  BY DEF TypeOK
<1>2. /\ Len(entities) \in Nat /\ DOMAIN entities = 1 .. Len(entities)
      /\ \A i \in DOMAIN entities : entities[i] \in Entity
  BY <1>1
<1>3. /\ DOMAIN entities \in SUBSET Nat /\ 0 \notin DOMAIN entities
      /\ DOMAIN entities \subseteq Positions /\ 0 \in Positions
  BY <1>2 DEF Positions
<1>4. ASSUME NEW i \in DOMAIN entities
      PROVE  /\ Type(i) \in Types /\ entities[i].id \in 0 .. Invalid
             /\ Sources(i) \in Seq(Bytes)
  BY <1>2 DEF Entity, Type, Sources
<1>5. ASSUME NEW i \in DOMAIN entities
      PROVE  /\ Pins(i) \in Nat
             /\ DOMAIN Sources(i) = 1 .. Pins(i)
             /\ \A k \in DOMAIN Sources(i) : Sources(i)[k] \in Bytes
  BY <1>4 DEF Pins
<1> QED BY <1>2, <1>3, <1>4, <1>5

\* uvc_entity_by_id returns an entity with the identifier, and 0 only if there is none.
LEMMA ById ==
  ASSUME TypeOK, NEW id
  PROVE  /\ EntityById(id) \in Positions
         /\ EntityById(id) # 0 => /\ EntityById(id) \in DOMAIN entities
                                  /\ entities[EntityById(id)].id = id
         /\ EntityById(id) = 0 => \A i \in DOMAIN entities : entities[i].id # id
<1>1. Identified(id) \in SUBSET Nat /\ Identified(id) \subseteq DOMAIN entities /\ 0 \notin DOMAIN entities
  BY EntityIs DEF Identified
<1>2. CASE Identified(id) = {}
  <2>1. EntityById(id) = 0
    BY <1>2 DEF EntityById
  <2>2. \A i \in DOMAIN entities : entities[i].id # id
    BY <1>2 DEF Identified
  <2> QED BY <2>1, <2>2, EntityIs
<1>3. CASE Identified(id) # {}
  <2>1. EntityById(id) = Min(Identified(id))
    BY <1>3 DEF EntityById
  <2>2. Min(Identified(id)) \in Identified(id)
    BY <1>1, <1>3, MinIs
  <2>3. EntityById(id) \in DOMAIN entities /\ EntityById(id) # 0
    BY <2>1, <2>2, <1>1
  <2>4. entities[EntityById(id)].id = id
    BY <2>1, <2>2 DEF Identified
  <2> QED BY <2>3, <2>4, EntityIs
<1> QED BY <1>2, <1>3

\* A valid identifier has one entity.
LEMMA ByOwnId ==
  ASSUME TypeOK, WellFormed, NEW i \in DOMAIN entities, entities[i].id # Invalid
  PROVE  EntityById(entities[i].id) = i
<1>1. EntityById(entities[i].id) # 0
  BY ById
<1>2. /\ EntityById(entities[i].id) \in DOMAIN entities
      /\ entities[EntityById(entities[i].id)].id = entities[i].id
  BY <1>1, ById
<1> QED BY <1>2 DEF WellFormed

\* What a source refers to is not an output terminal or a privacy GPIO.
LEMMA BySource ==
  ASSUME TypeOK, WellFormed, NEW b \in Bytes, EntityById(b) # 0
  PROVE  /\ EntityById(b) \in DOMAIN entities /\ entities[EntityById(b)].id = b
         /\ Type(EntityById(b)) \notin {"OT", "GPIO"} /\ b # 0
<1> DEFINE e == EntityById(b)
<1>1. e \in DOMAIN entities /\ entities[e].id = b
  BY ById
<1>2. b \in 0 .. 255
  BY DEF Bytes
<1>3. b # 0
  BY <1>1 DEF WellFormed
<1>4. Type(e) # "OT" /\ Type(e) # "GPIO"
  <2>1. b # GpioId /\ b # Invalid /\ ~ (b > 255)
    BY <1>2 DEF GpioId, Invalid
  <2> HIDE DEF e
  <2> QED BY <1>1, <2>1 DEF WellFormed
<1> QED BY <1>1, <1>3, <1>4

\* The entities that refer to at name its identifier, a byte, as a source.
LEMMA Refers ==
  ASSUME TypeOK, WellFormed, at \in DOMAIN entities, NEW i \in Referring
  PROVE  /\ i \in DOMAIN entities /\ i # From /\ i > forward
         /\ \E k \in DOMAIN Sources(i) : Sources(i)[k] = entities[at].id
         /\ entities[at].id \in 1 .. 255
         /\ EntityById(entities[at].id) = at
         /\ Type(at) # "OT" /\ Type(i) \notin InputTypes
<1>1. i \in DOMAIN entities /\ i # From /\ i > forward /\ entities[at].id \in ToSet(Sources(i))
  BY DEF Referring
<1>2. PICK k \in DOMAIN Sources(i) : Sources(i)[k] = entities[at].id
  BY <1>1 DEF ToSet
<1>3. entities[at].id \in Bytes
  BY <1>1, <1>2, EntityIs
<1>4. entities[at].id \in 1 .. 255
  BY <1>3 DEF WellFormed, Bytes
<1>5. EntityById(entities[at].id) = at
  <2>1. entities[at].id # Invalid
    BY <1>4 DEF Invalid
  <2> QED BY <2>1, ByOwnId
<1>6. Type(at) # "OT"
  <2>1. ~ (entities[at].id > 255)
    BY <1>4
  <2> QED BY <2>1 DEF WellFormed
<1>7. Type(i) \notin InputTypes
  <2>1. k \in 1 .. Pins(i) /\ Pins(i) = Len(Sources(i))
    BY <1>1, <1>2, EntityIs DEF Pins
  <2>2. Sources(i) # <<>>
    BY <2>1
  <2> QED BY <2>2, <1>1 DEF WellFormed
<1> QED BY <1>1, <1>2, <1>4, <1>5, <1>6, <1>7

\* The source that an entity of one pin refers to at with.
LEMMA RefersBySingle ==
  ASSUME TypeOK, WellFormed, at \in DOMAIN entities, NEW i \in Referring, Pins(i) = 1
  PROVE  \A k \in DOMAIN Sources(i) : EntityById(Sources(i)[k]) = at
<1>1. i \in DOMAIN entities /\ EntityById(entities[at].id) = at
  BY Refers
<1>2. DOMAIN Sources(i) = 1 .. 1
  BY <1>1, EntityIs
<1>3. PICK k \in DOMAIN Sources(i) : Sources(i)[k] = entities[at].id
  BY Refers
<1>4. \A l \in DOMAIN Sources(i) : l = k
  BY <1>2
<1> QED BY <1>1, <1>3, <1>4

\* A definition about the entities stays when they do.
LEMMA Unchanging ==
  ASSUME TypeOK, NEW e \in DOMAIN entities, Pins(e) = 1, Type(at) # "OT"
  PROVE  Reconnected(e) = entities
<1>1. entities \in Seq(Entity) /\ entities[e] \in Entity /\ entities[e].sources \in Seq(Bytes)
      /\ 1 \in DOMAIN entities[e].sources
  BY EntityIs DEF TypeOK, Sources, Pins
<1>2. Reconnected(e) = [entities EXCEPT ![e].sources[1] = @]
  BY DEF Reconnected
<1>3. [entities[e].sources EXCEPT ![1] = entities[e].sources[1]] = entities[e].sources
  BY <1>1
<1>4. [entities[e] EXCEPT !.sources = entities[e].sources] = entities[e]
  BY <1>1 DEF Entity
<1>5. [entities EXCEPT ![e] = entities[e]] = entities
  BY <1>1
<1> QED BY <1>2, <1>3, <1>4, <1>5

\* What depends on the entities alone stays when they do.
LEMMA Same ==
  ASSUME UNCHANGED entities
  PROVE  /\ \A i : Type(i)' = Type(i) /\ Sources(i)' = Sources(i) /\ Pins(i)' = Pins(i)
                   /\ Selector(i)' = Selector(i)
         /\ \A id : EntityById(id)' = EntityById(id)
         /\ WellFormed' = WellFormed
         /\ OfType({"GPIO"})' = OfType({"GPIO"})
         /\ Positions' = Positions /\ Identifiable' = Identifiable
         /\ FallbackFits' = FallbackFits
<1>1. /\ \A i : Type(i)' = Type(i) /\ Sources(i)' = Sources(i) /\ Pins(i)' = Pins(i)
                   /\ Selector(i)' = Selector(i)
      /\ \A id : EntityById(id)' = EntityById(id)
  BY DEF Type, Sources, Pins, Selector, EntityById, Identified
<1>2. WellFormed' = WellFormed
  BY DEF WellFormed, Type, Sources, Pins
<1>3. OfType({"GPIO"})' = OfType({"GPIO"}) /\ Positions' = Positions /\ Identifiable' = Identifiable
  BY DEF OfType, Type, Positions, Identifiable
<1>4. OutputTerminals' = OutputTerminals /\ InputTerminals' = InputTerminals
  BY DEF OutputTerminals, InputTerminals, OfType, Type
<1>5. FallbackUnits' = FallbackUnits
  BY DEF FallbackUnits, TwoPads, Type, Pins, Sources
<1>6. FallbackChain' = FallbackChain
  BY <1>4, <1>5 DEF FallbackChain
<1>7. \A i, list : Acceptable(i, list)' = Acceptable(i, list)
  BY DEF Acceptable, Type, Pins, Sources, Selector
<1>8. FallbackFits' = FallbackFits
  BY <1>4, <1>6 DEF FallbackFits, OneTerminalEach, Acceptable, Type, Pins, Sources, Selector
<1> QED BY <1>1, <1>2, <1>3, <1>8

-----------------------------------------------------------------------------
(* The steps *)

\* Closed lists stay closed when the entities stay.
LEMMA ClosedSame ==
  ASSUME UNCHANGED <<entities, chains>>, \A c \in ToSet(chains) : Closed(c)
  PROVE  (\A c \in ToSet(chains) : Closed(c))' /\ ChainClosed'
<1>1. \A c : Closed(c)' = Closed(c)
  BY DEF Closed, Sources, EntityById, Identified
<1>2. ToSet(chains)' = ToSet(chains)
  BY DEF ToSet
<1>3. (\A c \in ToSet(chains) : Closed(c))'
  BY <1>1, <1>2
<1> QED BY <1>3 DEF ChainClosed, Closed

\* The finished lists stay, and are closed.
LEMMA GivesUp ==
  ASSUME ChainInv, Scanning, GiveUp
  PROVE  ChainInv'
<1>1. /\ TypeOK /\ WellFormed /\ NeverLinkedTwice /\ Marked /\ Closing
      /\ UNCHANGED <<entities, term, linked, chains>> /\ pc' = "scan"
      /\ chain' = <<>> /\ entity' = 0 /\ prev' = 0 /\ pin' = 0 /\ at' = 0 /\ forward' = 0
  BY DEF ChainInv, GiveUp
<1>2. TypeOK'
  BY <1>1, EntityIs DEF TypeOK, Positions
<1>3. WellFormed'
  BY <1>1, Same
<1>4. NeverLinkedTwice' /\ \A k \in DOMAIN Lists' : ToSet(Lists'[k]) \subseteq linked'
  BY <1>1, Dropping
<1>5. Marked'
  <2>1. pc # "done"
    BY DEF Scanning
  <2> QED BY <1>1, <1>4, <2>1, Same DEF Marked
<1>6. Cursor'
  BY <1>1 DEF Cursor, Scanning, Placed
<1>7. Closing'
  <2>1. \A c \in ToSet(chains) : Closed(c)
    BY <1>1 DEF Closing, Scanning
  <2>2. (\A c \in ToSet(chains) : Closed(c))' /\ ChainClosed'
    BY <1>1, <2>1, ClosedSame
  <2>3. ToSet(chain') = {}
    BY <1>1, EmptyList
  <2> QED BY <1>1, <2>2, <2>3 DEF Closing
<1> QED BY <1>2, <1>3, <1>4, <1>5, <1>6, <1>7 DEF ChainInv

\* A new chain is empty, and its output terminal is in none.
LEMMA StartsChain ==
  ASSUME ChainInv, StartChain
  PROVE  ChainInv'
<1>1. /\ TypeOK /\ WellFormed /\ NeverLinkedTwice /\ Marked /\ Cursor /\ Closing
      /\ UNCHANGED <<entities, pin, at, forward, linked, chains>>
      /\ pc = "scan" /\ pc' = "entity" /\ Unscanned # {}
      /\ term' = Min(Unscanned) /\ entity' = Min(Unscanned) /\ prev' = 0 /\ chain' = <<>>
  BY DEF ChainInv, StartChain
<1>2. Min(Unscanned) \in DOMAIN entities /\ DOMAIN entities \subseteq Positions /\ 0 \in Positions
  <2>1. Unscanned \in SUBSET Nat /\ Unscanned \subseteq DOMAIN entities
    BY <1>1, EntityIs DEF Unscanned
  <2> QED BY <1>1, <2>1, MinIs, EntityIs
<1>3. TypeOK'
  BY <1>1, <1>2 DEF TypeOK, Positions
<1>4. WellFormed'
  BY <1>1, Same
<1>5. NeverLinkedTwice' /\ \A k \in DOMAIN Lists' : ToSet(Lists'[k]) \subseteq linked'
  BY <1>1, Dropping
<1>6. Marked'
  BY <1>1, <1>5, Same DEF Marked
<1>7. Cursor'
  <2>1. pin = 0
    BY <1>1 DEF Cursor, Scanning
  <2>2. Pins(entity)' \in Nat
    <3>1. Pins(Min(Unscanned)) \in Nat
      BY <1>1, <1>2, EntityIs
    <3> QED BY <3>1, <1>1 DEF Pins, Sources
  <2> QED BY <1>1, <1>2, <2>1, <2>2 DEF Cursor, Scanning, Placed
<1>8. Closing'
  <2>1. \A c \in ToSet(chains) : Closed(c)
    BY <1>1 DEF Closing
  <2>2. (\A c \in ToSet(chains) : Closed(c))' /\ ChainClosed'
    BY <1>1, <2>1, ClosedSame
  <2>3. ToSet(chain') = {}
    BY <1>1, EmptyList
  <2> QED BY <1>1, <2>2, <2>3 DEF Closing
<1> QED BY <1>3, <1>4, <1>5, <1>6, <1>7, <1>8 DEF ChainInv

\* Only pc changes.
LEMMA KeepsLists ==
  ASSUME ChainInv, UNCHANGED <<entities, chain, linked, chains>>, pc # "done", pc' # "done"
  PROVE  /\ WellFormed' /\ NeverLinkedTwice' /\ Marked' /\ ChainClosed'
         /\ (\A c \in ToSet(chains) : Closed(c))'
<1>1. TypeOK /\ WellFormed /\ NeverLinkedTwice /\ Marked /\ Closing
  BY DEF ChainInv
<1>2. WellFormed'
  BY <1>1, Same
<1>3. NeverLinkedTwice'
  BY <1>1 DEF NeverLinkedTwice, Lists
<1>4. Marked'
  BY <1>1, Same DEF Marked, Lists
<1>5. (\A c \in ToSet(chains) : Closed(c))' /\ ChainClosed'
  BY <1>1, ClosedSame DEF Closing
<1> QED BY <1>2, <1>3, <1>4, <1>5

\* No memory: nothing has changed.
LEMMA RunsOutOfMemory ==
  ASSUME ChainInv, NoMemory
  PROVE  ChainInv'
<1>1. /\ TypeOK /\ Cursor /\ Closing
      /\ pc = "scan" /\ pc' = "enomem"
      /\ UNCHANGED <<entities, term, chain, entity, prev, pin, at, forward, linked, chains>>
  BY DEF ChainInv, NoMemory, scan
<1>2. TypeOK'
  BY <1>1 DEF TypeOK, Positions
<1>3. /\ WellFormed' /\ NeverLinkedTwice' /\ Marked' /\ ChainClosed'
      /\ (\A c \in ToSet(chains) : Closed(c))'
  BY <1>1, KeepsLists
<1>4. chain = <<>> /\ pin = 0
  BY <1>1 DEF Cursor, Scanning
<1>5. Cursor'
  BY <1>1, <1>4 DEF Cursor, Scanning, Placed
<1>6. Closing'
  BY <1>1, <1>3, <1>4, EmptyList DEF Closing
<1> QED BY <1>2, <1>3, <1>5, <1>6 DEF ChainInv

\* The forward scan ends.
LEMMA ForwardEnds ==
  ASSUME ChainInv, pc = "forward", UNCHANGED <<entities, scan, linked, chains>>,
         pc' = IF pin = 0 THEN "backward" ELSE "pins"
  PROVE  ChainInv'
<1>1. /\ TypeOK /\ Cursor /\ Closing
      /\ UNCHANGED <<entities, term, chain, entity, prev, pin, at, forward, linked, chains>>
      /\ pc' \in {"backward", "pins"}
  BY DEF ChainInv, scan
<1>2. TypeOK'
  BY <1>1 DEF TypeOK, Positions
<1>3. /\ WellFormed' /\ NeverLinkedTwice' /\ Marked' /\ ChainClosed'
      /\ (\A c \in ToSet(chains) : Closed(c))'
  BY <1>1, KeepsLists
<1>4. Cursor'
  BY <1>1, Same DEF Cursor, Scanning, Placed, TypeOK
<1>5. Closing'
  <2>1. \A e : \A k : Pending(e, k) = Pending(e, k)'
    BY <1>1 DEF Pending, Placed
  <2>2. ToSet(chain)' = ToSet(chain)
    BY <1>1
  <2> QED BY <1>1, <1>3, <2>1, <2>2, Same DEF Closing
<1> QED BY <1>2, <1>3, <1>4, <1>5 DEF ChainInv

\* The scan of a selector unit's pins begins.
LEMMA StartsPins ==
  ASSUME ChainInv, StartPins
  PROVE  ChainInv'
<1>1. /\ TypeOK /\ Cursor /\ Closing
      /\ pc = "backward" /\ pc' = "pins" /\ Selector(entity)
      /\ UNCHANGED <<entities, term, chain, entity, prev, pin, at, forward, linked, chains>>
  BY DEF ChainInv, StartPins, scan
<1>2. TypeOK'
  BY <1>1 DEF TypeOK, Positions
<1>3. /\ WellFormed' /\ NeverLinkedTwice' /\ Marked' /\ ChainClosed'
      /\ (\A c \in ToSet(chains) : Closed(c))'
  BY <1>1, KeepsLists
<1>4. Cursor'
  BY <1>1, Same DEF Cursor, Scanning, Placed, TypeOK
<1>5. Closing'
  <2>1. \A e : \A k : Pending(e, k) = Pending(e, k)'
    BY <1>1 DEF Pending, Placed
  <2>2. ToSet(chain)' = ToSet(chain)
    BY <1>1
  <2> QED BY <1>1, <1>3, <2>1, <2>2, Same DEF Closing
<1> QED BY <1>2, <1>3, <1>4, <1>5 DEF ChainInv

\* A link, whatever the step does besides.
LEMMA LinkKeeps ==
  ASSUME ChainInv, Scanning, NEW e \in DOMAIN entities, ~InChain(e), Link(e), Type(e) # "GPIO",
         UNCHANGED <<entities, chains>>, pc' # "done", pc' # "failed"
  PROVE  /\ chain' \in Seq(Positions) /\ linked' \subseteq Positions'
         /\ ToSet(chain') = ToSet(chain) \cup {e}
         /\ WellFormed' /\ NeverLinkedTwice' /\ Marked' /\ ChainClosed'
         /\ (\A c \in ToSet(chains) : Closed(c))'
<1>1. TypeOK /\ WellFormed /\ NeverLinkedTwice /\ Marked /\ Closing
  BY DEF ChainInv
<1>2. /\ chain' \in Seq(Positions)
      /\ ToSet(chain') = ToSet(chain) \cup {e}
      /\ NeverLinkedTwice'
      /\ \A k \in DOMAIN Lists' : ToSet(Lists'[k]) \subseteq linked'
      /\ linked' \subseteq DOMAIN entities
  BY Linking
<1>3. linked' \subseteq Positions'
  BY <1>1, <1>2, EntityIs, Same
<1>4. WellFormed'
  BY <1>1, Same
<1>5. Marked'
  <2>1. linked' \cap OfType({"GPIO"}) = {}
    BY <1>1 DEF Marked, Scanning, Link, OfType
  <2> QED BY <1>2, <2>1, Same DEF Marked
<1>6. (\A c \in ToSet(chains) : Closed(c))' /\ ChainClosed'
  BY <1>1, ClosedSame DEF Closing, Scanning
<1> QED BY <1>2, <1>3, <1>4, <1>5, <1>6

\* The entity is linked; its sources are pending now.
LEMMA ScansEntity ==
  ASSUME ChainInv, ScanEntity
  PROVE  ChainInv'
<1>1. /\ TypeOK /\ WellFormed /\ Cursor /\ Closing
      /\ pc = "entity" /\ pc' = "forward" /\ ~InChain(entity) /\ Acceptable(entity, chain)
      /\ Link(entity) /\ at' = entity /\ forward' = 0
      /\ UNCHANGED <<entities, term, entity, prev, pin, chains>>
  BY DEF ChainInv, ScanEntity
<1>2. entity \in DOMAIN entities /\ pin = 0 /\ pin <= Pins(entity) /\ Scanning
  BY <1>1 DEF Cursor, Scanning
<1>3. Type(entity) \notin {"EXT", "GPIO"} /\ (Type(entity) = "XU" => Pins(entity) = 1)
  BY <1>1 DEF Acceptable
<1>4. /\ chain' \in Seq(Positions) /\ linked' \subseteq Positions'
      /\ ToSet(chain') = ToSet(chain) \cup {entity}
      /\ WellFormed' /\ NeverLinkedTwice' /\ Marked' /\ ChainClosed'
      /\ (\A c \in ToSet(chains) : Closed(c))'
  BY <1>1, <1>2, <1>3, LinkKeeps
<1>5. TypeOK'
  BY <1>1, <1>4, EntityIs DEF TypeOK, Positions
<1>6. Cursor'
  BY <1>1, <1>2, <1>3, <1>4, Same DEF Cursor, Scanning, Placed
<1>7. Closing'
  <2>1. ASSUME NEW e \in ToSet(chain'), NEW k \in DOMAIN Sources(e)
        PROVE  Sources(e)[k] = 0 \/ EntityById(Sources(e)[k]) \in ToSet(chain') \/ Pending(e, k)'
    <3>1. CASE e \in ToSet(chain)
      <4>1. \/ Sources(e)[k] = 0 \/ EntityById(Sources(e)[k]) \in ToSet(chain)
            \/ EntityById(Sources(e)[k]) = entity
        BY <3>1, <1>1 DEF Closing, Pending
      <4> QED BY <4>1, <1>4
    <3>2. CASE e = entity
      <4>1. k \in Nat \ {0}
        BY <3>2, <1>1, <1>2, EntityIs
      <4>2. Pending(e, k)'
        BY <4>1, <3>2, <1>1, <1>2 DEF Pending, Placed
      <4> QED BY <4>2
    <3> QED BY <3>1, <3>2, <1>4
  <2>2. \A e : Sources(e)' = Sources(e)
    BY <1>1, Same
  <2>3. \A id : EntityById(id)' = EntityById(id)
    BY <1>1, Same
  <2> QED BY <1>1, <1>4, <2>1, <2>2, <2>3 DEF Closing
<1> QED BY <1>4, <1>5, <1>6, <1>7 DEF ChainInv

\* A reference is followed.  Only what is not in a list is linked, and the source of
\* an extension unit that refers to the entity at stays what it is.
LEMMA Follows ==
  ASSUME ChainInv, FollowReference
  PROVE  ChainInv'
<1> DEFINE f == Min(Referring)
<1>1. /\ TypeOK /\ WellFormed /\ Cursor /\ Closing /\ Marked
      /\ pc = "forward" /\ Referring # {}
  BY DEF ChainInv, FollowReference
<1>2. Scanning
  BY <1>1 DEF Scanning
<1>3. at \in ToSet(chain) /\ at \in DOMAIN entities
  <2>1. at \in ToSet(chain)
    BY <1>1 DEF Cursor
  <2>2. ToSet(chain) \subseteq linked
    BY <1>1, ListsAre DEF Marked
  <2> QED BY <2>1, <2>2, <1>1 DEF Marked
<1>4. f \in Referring
  <2>1. Referring \in SUBSET Nat
    BY <1>1, EntityIs DEF Referring
  <2> QED BY <2>1, <1>1, MinIs
<1>5. f \in DOMAIN entities /\ Type(at) # "OT" /\ Type(f) \notin InputTypes
  <2> HIDE DEF f
  <2> QED BY <1>1, <1>3, <1>4, Refers
<1>6. CASE InChain(f) \/ (Type(f) = "XU" /\ Pins(f) # 1)
  <2>1. ForwardFails
    BY <1>1, <1>6 DEF FollowReference
  <2>2. CASE pin = 0
    <3>1. GiveUp
      BY <2>1, <2>2 DEF ForwardFails
    <3> QED BY <3>1, <1>2, GivesUp
  <2>3. CASE pin # 0
    <3>1. UNCHANGED <<entities, scan, linked, chains>> /\ pc' = IF pin = 0 THEN "backward" ELSE "pins"
      BY <2>1, <2>3 DEF ForwardFails
    <3> QED BY <3>1, <1>1, ForwardEnds
  <2> QED BY <2>2, <2>3
<1>7. ASSUME ~ (InChain(f) \/ (Type(f) = "XU" /\ Pins(f) # 1))
      PROVE  /\ forward' = f /\ UNCHANGED <<entities, pc, term, entity, prev, pin, at, chains>>
             /\ \/ UNCHANGED <<chain, linked>>
                \/ Link(f) /\ ~InChain(f) /\ Pins(f) = 1
  <2> HIDE DEF f
  <2>1. CASE Type(f) = "XU"
    <3>1. Reconnected(f) = entities
      BY <1>1, <1>5, <1>7, <2>1, Unchanging
    <3> QED BY <1>1, <1>5, <1>7, <2>1, <3>1 DEF FollowReference, f
  <2>2. CASE Type(f) # "XU"
    <3>1. Type(f) = "OT" => Pins(f) = 1
      BY <1>1, <1>5 DEF WellFormed
    <3>2. /\ IF Type(f) = "OT" /\ Type(at) # "OT" THEN Link(f) ELSE UNCHANGED <<chain, linked>>
          /\ forward' = f
          /\ UNCHANGED <<entities, pc, term, entity, prev, pin, at, chains>>
      BY <1>7, <2>2 DEF FollowReference, f
    <3> QED BY <1>7, <3>1, <3>2
  <2> QED BY <2>1, <2>2
<1>8. ASSUME ~ (InChain(f) \/ (Type(f) = "XU" /\ Pins(f) # 1))
      PROVE  ChainInv'
  <2> HIDE DEF f
  <2>1. /\ forward' = f /\ UNCHANGED <<entities, pc, term, entity, prev, pin, at, chains>>
        /\ \/ UNCHANGED <<chain, linked>>
           \/ Link(f) /\ ~InChain(f) /\ Pins(f) = 1
    BY <1>7, <1>8
  <2>2. f \in Positions
    BY <1>1, <1>5, EntityIs
  <2>3. CASE UNCHANGED <<chain, linked>>
    <3>1. TypeOK'
      BY <1>1, <2>1, <2>2, <2>3 DEF TypeOK, Positions
    <3>2. /\ WellFormed' /\ NeverLinkedTwice' /\ Marked' /\ ChainClosed'
          /\ (\A c \in ToSet(chains) : Closed(c))'
      BY <1>1, <2>1, <2>3, KeepsLists
    <3>3. Cursor'
      BY <1>1, <2>1, <2>3, Same DEF Cursor, Scanning, Placed
    <3>4. Closing'
      <4>1. \A e : \A k : Pending(e, k)' = Pending(e, k)
        BY <1>1, <2>1 DEF Pending, Placed
      <4>2. ToSet(chain)' = ToSet(chain)
        BY <2>3
      <4> QED BY <1>1, <2>1, <3>2, <4>1, <4>2, Same DEF Closing
    <3> QED BY <3>1, <3>2, <3>3, <3>4 DEF ChainInv
  <2>4. CASE Link(f) /\ ~InChain(f) /\ Pins(f) = 1
    <3>1. Type(f) # "GPIO"
      BY <1>5 DEF InputTypes
    <3>2. /\ chain' \in Seq(Positions) /\ linked' \subseteq Positions'
          /\ ToSet(chain') = ToSet(chain) \cup {f}
          /\ WellFormed' /\ NeverLinkedTwice' /\ Marked' /\ ChainClosed'
          /\ (\A c \in ToSet(chains) : Closed(c))'
      BY <1>1, <1>2, <1>5, <2>1, <2>4, <3>1, LinkKeeps
    <3>3. TypeOK'
      BY <1>1, <2>1, <2>2, <3>2 DEF TypeOK, Positions
    <3>4. Cursor'
      BY <1>1, <2>1, <3>2, Same DEF Cursor, Scanning, Placed
    <3>5. Closing'
      <4>1. \A k \in DOMAIN Sources(f) : EntityById(Sources(f)[k]) = at
        BY <1>1, <1>3, <1>4, <2>4, RefersBySingle
      <4>2. \A e : \A k : Pending(e, k)' = Pending(e, k)
        BY <1>1, <2>1, Same DEF Pending, Placed
      <4>3. ASSUME NEW e \in ToSet(chain'), NEW k \in DOMAIN Sources(e)
            PROVE  Sources(e)[k] = 0 \/ EntityById(Sources(e)[k]) \in ToSet(chain') \/ Pending(e, k)
        <5>1. CASE e \in ToSet(chain)
          BY <5>1, <1>1, <3>2 DEF Closing
        <5>2. CASE e = f
          BY <5>2, <4>1, <1>3, <3>2
        <5> QED BY <5>1, <5>2, <3>2
      <4> QED BY <1>1, <2>1, <3>2, <4>2, <4>3, Same DEF Closing
    <3> QED BY <3>2, <3>3, <3>4, <3>5 DEF ChainInv
  <2> QED BY <2>1, <2>3, <2>4
<1> QED BY <1>6, <1>8

\* An input terminal is linked for a pin.
LEMMA FollowsPin ==
  ASSUME ChainInv, NextPin
  PROVE  ChainInv'
<1> DEFINE t == EntityById(Sources(entity)[pin + 1])
<1>1. /\ TypeOK /\ WellFormed /\ Cursor /\ Closing
      /\ pc = "pins" /\ pin < Pins(entity) /\ Scanning
      /\ IF ~Connected(t) \/ InChain(t) THEN GiveUp
         ELSE /\ Link(t)
              /\ pin' = pin + 1 /\ at' = t /\ forward' = 0 /\ pc' = "forward"
              /\ UNCHANGED <<entities, term, entity, prev, chains>>
  BY DEF ChainInv, NextPin, Scanning
<1>2. entity \in DOMAIN entities /\ Selector(entity) /\ entity \in ToSet(chain) /\ pin \in Nat
      /\ Type(entity) \notin {"EXT", "GPIO"} /\ (Type(entity) = "XU" => Pins(entity) = 1)
  BY <1>1 DEF Cursor, Scanning, Placed, TypeOK
<1>3. Pins(entity) \in Nat /\ pin + 1 \in DOMAIN Sources(entity) /\ Sources(entity)[pin + 1] \in Bytes
  BY <1>1, <1>2, EntityIs
<1>4. CASE ~Connected(t) \/ InChain(t)
  BY <1>1, <1>4, GivesUp
<1>5. CASE Connected(t) /\ ~InChain(t)
  <2>1. /\ Link(t)
        /\ pin' = pin + 1 /\ at' = t /\ forward' = 0 /\ pc' = "forward"
        /\ UNCHANGED <<entities, term, entity, prev, chains>>
    BY <1>1, <1>5
  <2>2. t \in DOMAIN entities /\ Type(t) \in InputTypes
    BY <1>5 DEF Connected, InputTerminals, OfType, InputTypes
  <2>3. Type(t) # "GPIO"
    <3>1. t # 0
      BY <1>1, <2>2, EntityIs
    <3> HIDE DEF t
    <3>2. EntityById(Sources(entity)[pin + 1]) = t
      BY DEF t
    <3> QED BY <3>1, <3>2, <1>1, <1>3, BySource
  <2>4. Sources(t) = <<>>
    BY <1>1, <2>2 DEF WellFormed
  <2> HIDE DEF t
  <2>5. /\ chain' \in Seq(Positions) /\ linked' \subseteq Positions'
        /\ ToSet(chain') = ToSet(chain) \cup {t}
        /\ WellFormed' /\ NeverLinkedTwice' /\ Marked' /\ ChainClosed'
        /\ (\A c \in ToSet(chains) : Closed(c))'
    BY <1>1, <1>5, <2>1, <2>2, <2>3, LinkKeeps
  <2>6. TypeOK'
    BY <1>1, <1>2, <2>1, <2>2, <2>5, EntityIs DEF TypeOK, Positions
  <2>7. Cursor'
    BY <1>1, <1>2, <1>3, <2>1, <2>5, Same DEF Cursor, Scanning, Placed
  <2>8. Closing'
    <3>1. ASSUME NEW e \in ToSet(chain'), NEW k \in DOMAIN Sources(e)
          PROVE  Sources(e)[k] = 0 \/ EntityById(Sources(e)[k]) \in ToSet(chain') \/ Pending(e, k)'
      <4>1. CASE e = t
        BY <4>1, <2>4
      <4>2. CASE e # t
        <5>1. e \in ToSet(chain)
          BY <4>2, <2>5
        <5>2. \/ Sources(e)[k] = 0 \/ EntityById(Sources(e)[k]) \in ToSet(chain)
              \/ (e = entity /\ k > pin)
          BY <5>1, <1>1 DEF Closing, Pending
        <5>3. ASSUME e = entity, k > pin
              PROVE  EntityById(Sources(e)[k]) = t \/ Pending(e, k)'
          <6>1. k \in Nat
            BY <5>3, <1>1, <1>2, EntityIs
          <6>2. CASE k = pin + 1
            BY <6>2, <5>3 DEF t
          <6>3. CASE k # pin + 1
            <7>1. k > pin + 1
              BY <6>1, <6>3, <5>3, <1>2
            <7> QED BY <7>1, <5>3, <2>1 DEF Pending, Placed
          <6> QED BY <6>2, <6>3
        <5> QED BY <5>2, <5>3, <2>5
      <4> QED BY <4>1, <4>2
    <3>2. \A e : Sources(e)' = Sources(e)
      BY <2>1, Same
    <3>3. \A id : EntityById(id)' = EntityById(id)
      BY <2>1, Same
    <3> QED BY <2>1, <2>5, <3>1, <3>2, <3>3 DEF Closing
  <2> QED BY <2>5, <2>6, <2>7, <2>8 DEF ChainInv
<1> QED BY <1>4, <1>5

\* A finished chain: all that it names is in it.
LEMMA Finishes ==
  ASSUME ChainInv, pc \in {"pins", "backward"}, ChainFound, pin' = 0, at' = 0, forward' = 0, prev' = 0,
         UNCHANGED <<entities, term, linked>>,
         \A k \in DOMAIN Sources(entity) : k > pin => Sources(entity)[k] = 0
  PROVE  ChainInv'
<1>1. /\ TypeOK /\ WellFormed /\ NeverLinkedTwice /\ Marked /\ Closing
      /\ pc' = "scan" /\ chains' = Append(chains, chain) /\ chain' = <<>> /\ entity' = 0
  BY DEF ChainInv, ChainFound
<1>2. /\ chains' \in Seq(Seq(Positions))
      /\ NeverLinkedTwice'
      /\ \A k \in DOMAIN Lists' : ToSet(Lists'[k]) \subseteq linked'
      /\ ToSet(chains') = ToSet(chains) \cup {chain}
  BY <1>1, Finding
<1>3. TypeOK'
  BY <1>1, <1>2, EntityIs DEF TypeOK, Positions
<1>4. WellFormed'
  BY <1>1, Same
<1>5. Marked'
  BY <1>1, <1>2, Same DEF Marked
<1>6. Cursor'
  BY <1>1 DEF Cursor, Scanning, Placed
<1>7. Closed(chain)
  <2> SUFFICES ASSUME NEW e \in ToSet(chain), NEW id \in ToSet(Sources(e)) \ {0}
               PROVE  EntityById(id) \in ToSet(chain)
    BY DEF Closed
  <2>1. PICK k \in DOMAIN Sources(e) : Sources(e)[k] = id
    BY DEF ToSet
  <2>2. EntityById(id) \in ToSet(chain) \/ (e = entity /\ k > pin)
    BY <1>1, <2>1 DEF Closing, Pending
  <2> QED BY <2>1, <2>2
<1>8. (\A c \in ToSet(chains) : Closed(c))'
  <2>1. \A c : Closed(c)' = Closed(c)
    BY <1>1 DEF Closed, Sources, EntityById, Identified
  <2>2. \A c \in ToSet(chains') : Closed(c)
    BY <1>1, <1>2, <1>7 DEF Closing
  <2> QED BY <2>1, <2>2
<1>9. Closing'
  <2>1. ChainClosed'
    BY <1>8 DEF ChainClosed, Closed
  <2>2. ToSet(chain') = {}
    BY <1>1, EmptyList
  <2> QED BY <1>1, <1>8, <2>1, <2>2 DEF Closing
<1> QED BY <1>2, <1>3, <1>4, <1>5, <1>6, <1>9 DEF ChainInv

\* The last pin ends the chain.
LEMMA EndsPins ==
  ASSUME ChainInv, PinsDone
  PROVE  ChainInv'
<1>1. /\ TypeOK /\ Cursor
      /\ pc = "pins" /\ pin = Pins(entity) /\ ChainFound
      /\ pin' = 0 /\ at' = 0 /\ forward' = 0 /\ prev' = 0 /\ UNCHANGED <<entities, term, linked>>
  BY DEF ChainInv, PinsDone
<1>2. entity \in DOMAIN entities
  BY <1>1 DEF Cursor, Scanning
<1>3. \A k \in DOMAIN Sources(entity) : ~ (k > pin)
  BY <1>1, <1>2, EntityIs
<1> QED BY <1>1, <1>3, Finishes

\* The scan goes on with the source, or the chain ends there.
LEMMA GoesBackward ==
  ASSUME ChainInv, Backward
  PROVE  ChainInv'
<1> DEFINE id == IF Pins(entity) = 0 THEN 0 ELSE Sources(entity)[1]
           e == EntityById(id)
<1>1. /\ TypeOK /\ WellFormed /\ Cursor /\ Closing
      /\ pc = "backward" /\ ~Selector(entity) /\ Scanning /\ pin = 0
      /\ entity \in DOMAIN entities /\ entity \in ToSet(chain)
      /\ Type(entity) \notin {"EXT", "GPIO"} /\ (Type(entity) = "XU" => Pins(entity) = 1)
  BY DEF ChainInv, Backward, Scanning, Cursor, Placed
<1>2. /\ Pins(entity) \in {0, 1} /\ DOMAIN Sources(entity) = 1 .. Pins(entity)
  <2>1. Type(entity) \in Types /\ DOMAIN Sources(entity) = 1 .. Pins(entity)
    BY <1>1, EntityIs
  <2>2. Type(entity) = "IT" => Pins(entity) = 0
    BY <1>1 DEF WellFormed, Pins, InputTypes
  <2>3. Type(entity) \in {"OT", "PU"} => Pins(entity) = 1
    BY <1>1 DEF WellFormed
  <2>4. Type(entity) = "SU" => Pins(entity) = 1
    BY <1>1 DEF Selector
  <2> QED BY <1>1, <2>1, <2>2, <2>3, <2>4 DEF Types
<1>3. \A k \in DOMAIN Sources(entity) : k = 1 /\ Sources(entity)[k] = id
  BY <1>2
<1>4. \/ /\ id = 0
         /\ ChainFound /\ at' = 0 /\ forward' = 0 /\ prev' = 0
         /\ UNCHANGED <<entities, term, pin, linked>>
      \/ /\ id # 0 /\ e = 0 /\ GiveUp
      \/ /\ id # 0 /\ e # 0
         /\ prev' = entity /\ entity' = e /\ pc' = "entity"
         /\ at' = 0 /\ forward' = 0
         /\ UNCHANGED <<entities, term, chain, pin, linked, chains>>
  BY DEF Backward
<1>5. CASE id = 0
  <2> HIDE DEF id
  <2>1. ChainFound /\ pin' = 0 /\ at' = 0 /\ forward' = 0 /\ prev' = 0
        /\ UNCHANGED <<entities, term, linked>>
    BY <1>1, <1>4, <1>5
  <2>2. \A k \in DOMAIN Sources(entity) : k > pin => Sources(entity)[k] = 0
    BY <1>3, <1>5
  <2> QED BY <1>1, <2>1, <2>2, Finishes
<1>6. CASE id # 0 /\ e = 0
  BY <1>1, <1>4, <1>6, GivesUp
<1>7. CASE id # 0 /\ e # 0
  <2>1. e \in DOMAIN entities /\ e \in Positions
    <3> HIDE DEF id
    <3> QED BY <1>1, <1>7, ById
  <2> HIDE DEF id
  <2>2. /\ prev' = entity /\ entity' = e /\ pc' = "entity"
        /\ at' = 0 /\ forward' = 0
        /\ UNCHANGED <<entities, term, chain, pin, linked, chains>>
    BY <1>4, <1>7
  <2>3. TypeOK'
    BY <1>1, <2>1, <2>2, EntityIs DEF TypeOK, Positions
  <2>4. /\ WellFormed' /\ NeverLinkedTwice' /\ Marked' /\ ChainClosed'
        /\ (\A c \in ToSet(chains) : Closed(c))'
    BY <1>1, <2>2, KeepsLists
  <2>5. Pins(e) \in Nat
    BY <1>1, <2>1, EntityIs
  <2>6. Cursor'
    <3>1. Pins(entity)' = Pins(e)
      BY <2>2 DEF Pins, Sources
    <3> HIDE DEF e
    <3> QED BY <1>1, <2>1, <2>2, <2>5, <3>1 DEF Cursor, Scanning, Placed
  <2>7. Closing'
    <3>1. ASSUME NEW f \in ToSet(chain), NEW k \in DOMAIN Sources(f)
          PROVE  Sources(f)[k] = 0 \/ EntityById(Sources(f)[k]) \in ToSet(chain)
                 \/ EntityById(Sources(f)[k]) = e
      <4>1. \/ Sources(f)[k] = 0 \/ EntityById(Sources(f)[k]) \in ToSet(chain)
            \/ (f = entity /\ k > pin)
        BY <1>1 DEF Closing, Pending
      <4> QED BY <4>1, <1>3
    <3> HIDE DEF e
    <3>2. \A f : Sources(f)' = Sources(f)
      BY <2>2, Same
    <3>3. \A i : EntityById(i)' = EntityById(i)
      BY <2>2, Same
    <3>4. \A f : \A k : Pending(f, k)' = (EntityById(Sources(f)[k]) = e)
      BY <2>2, <3>2, <3>3 DEF Pending
    <3>5. ToSet(chain') = ToSet(chain)
      BY <2>2
    <3> QED BY <2>2, <2>4, <3>1, <3>2, <3>3, <3>4, <3>5 DEF Closing
  <2> QED BY <2>3, <2>4, <2>6, <2>7 DEF ChainInv
<1> QED BY <1>4, <1>5, <1>6, <1>7

\* The privacy GPIO joins the first chain.
LEMMA EndsScan ==
  ASSUME ChainInv, ScanDone
  PROVE  ChainInv'
<1> DEFINE G == OfType({"GPIO"})
           g == Min(G)
           n == Len(chains)
<1>1. /\ TypeOK /\ WellFormed /\ NeverLinkedTwice /\ Marked /\ Cursor /\ Closing
      /\ pc = "scan" /\ chains # <<>> /\ pc' = "done" /\ chains' = WithGpio(chains)
      /\ linked' = linked \cup G
      /\ UNCHANGED <<entities, term, chain, entity, prev, pin, at, forward>>
  BY DEF ChainInv, ScanDone, scan
<1>2. chain = <<>> /\ pin = 0 /\ G \subseteq DOMAIN entities /\ linked \cap G = {}
  BY <1>1 DEF Cursor, Scanning, OfType, Marked
<1>3. /\ n \in Nat /\ DOMAIN Lists = 1 .. n + 1
      /\ \A k \in 1 .. n : Lists[k] = chains[k]
      /\ DOMAIN chains = 1 .. n /\ Lists[n + 1] = chain
      /\ \A k \in DOMAIN chains : chains[k] \in Seq(Positions)
  BY <1>1, ListsAre
<1>4. 1 \in 1 .. n
  BY <1>1, <1>3 DEF TypeOK
<1>5. G # {} => g \in G /\ g \in DOMAIN entities /\ g \in Positions
  <2>1. G \in SUBSET Nat
    BY <1>1, <1>2, EntityIs
  <2>2. G # {} => g \in G
    <3> HIDE DEF G
    <3> QED BY <2>1, MinIs
  <2> QED BY <2>2, <1>1, <1>2, EntityIs
<1> HIDE DEF G, g
<1>6. chains' = IF G = {} THEN chains ELSE [chains EXCEPT ![1] = Append(chains[1], g)]
  BY <1>1 DEF WithGpio, G, g
\* Each list is what it was, or the first one with the GPIO.
<1>7. ASSUME NEW k \in 1 .. n
      PROVE  chains'[k] = chains[k] \/ (k = 1 /\ G # {} /\ chains'[k] = Append(chains[k], g))
  BY <1>3, <1>4, <1>6
<1>8. DOMAIN chains' = 1 .. n /\ Len(chains') = n /\ chains' \in Seq(Seq(Positions))
  <2>1. CASE G = {}
    BY <2>1, <1>6, <1>3, <1>1 DEF TypeOK
  <2>2. CASE G # {}
    <3>1. Append(chains[1], g) \in Seq(Positions)
      BY <1>3, <1>4, <1>5, <2>2
    <3>2. chains \in Seq(Seq(Positions)) /\ chains' = [chains EXCEPT ![1] = Append(chains[1], g)]
      BY <1>1, <1>6, <2>2 DEF TypeOK
    <3> QED BY <3>1, <3>2, <1>3, <1>4
  <2> QED BY <2>1, <2>2
<1>9. TypeOK'
  <2>1. linked' \subseteq Positions
    BY <1>1, <1>2, EntityIs DEF TypeOK
  <2> QED BY <1>1, <1>8, <2>1 DEF TypeOK, Positions
<1>10. ASSUME NEW k \in 1 .. n
       PROVE  /\ ToSet(chains[k]) \subseteq linked /\ IsInjective(chains[k])
              /\ ToSet(chains'[k]) \subseteq linked' /\ IsInjective(chains'[k])
              /\ ToSet(chains'[k]) \subseteq ToSet(chains[k]) \cup G
              /\ ToSet(chains[k]) \subseteq ToSet(chains'[k])
              /\ (k # 1 => chains'[k] = chains[k])
  <2>1. ToSet(chains[k]) \subseteq linked /\ IsInjective(chains[k])
    BY <1>1, <1>3 DEF Marked, NeverLinkedTwice
  <2>2. CASE chains'[k] = chains[k]
    BY <2>1, <2>2, <1>1
  <2>3. CASE k = 1 /\ G # {} /\ chains'[k] = Append(chains[k], g)
    <3>1. g \notin ToSet(chains[k]) /\ g \in G
      BY <2>1, <2>3, <1>2, <1>5
    <3>2. ToSet(chains'[k]) = ToSet(chains[k]) \cup {g} /\ IsInjective(chains'[k])
      BY <2>1, <2>3, <3>1, <1>3, Appended
    <3> QED BY <2>1, <2>3, <3>1, <3>2, <1>1
  <2> QED BY <1>7, <2>2, <2>3
<1>11. /\ DOMAIN Lists' = 1 .. n + 1
       /\ \A k \in 1 .. n : Lists'[k] = chains'[k]
       /\ Lists'[n + 1] = <<>>
  BY <1>1, <1>2, <1>8, <1>9 DEF Lists, TypeOK
<1>12. \A k \in 1 .. n + 1 : k # n + 1 => k \in 1 .. n
  BY <1>3
<1>13. \A k \in DOMAIN Lists' : IsInjective(Lists'[k]) /\ ToSet(Lists'[k]) \subseteq linked'
  BY <1>10, <1>11, <1>12, EmptyList
<1>14. ASSUME NEW k \in 1 .. n, NEW l \in 1 .. n, k # l
       PROVE  ToSet(chains'[k]) \cap ToSet(chains'[l]) = {}
  <2>1. ToSet(chains[k]) \cap ToSet(chains[l]) = {}
    BY <1>1, <1>3, <1>14 DEF NeverLinkedTwice
  <2>2. k # 1 \/ l # 1
    BY <1>14
  <2>3. ToSet(chains[k]) \cap G = {} /\ ToSet(chains[l]) \cap G = {}
    BY <1>2, <1>10
  <2>4. /\ ToSet(chains'[k]) \subseteq ToSet(chains[k]) \cup G
        /\ ToSet(chains'[l]) \subseteq ToSet(chains[l]) \cup G
        /\ (k # 1 => ToSet(chains'[k]) = ToSet(chains[k]))
        /\ (l # 1 => ToSet(chains'[l]) = ToSet(chains[l]))
    BY <1>10
  <2> QED BY <2>1, <2>2, <2>3, <2>4
<1>15. \A k, l \in DOMAIN Lists' : k # l => ToSet(Lists'[k]) \cap ToSet(Lists'[l]) = {}
  <2> HIDE DEF n
  <2> QED BY <1>11, <1>12, <1>14, EmptyList
<1>16. NeverLinkedTwice'
  BY <1>13, <1>15 DEF NeverLinkedTwice
<1>17. WellFormed'
  BY <1>1, Same
<1>18. Marked'
  <2>1. linked' \subseteq DOMAIN entities'
    BY <1>1, <1>2 DEF Marked
  <2> QED BY <1>1, <1>13, <2>1 DEF Marked
<1>19. Cursor'
  BY <1>1, <1>2 DEF Cursor, Scanning, Placed
<1>20. (\A c \in ToSet(chains) : Closed(c))'
  <2>1. \A c : Closed(c)' = Closed(c)
    BY <1>1 DEF Closed, Sources, EntityById, Identified
  <2>2. ASSUME NEW k \in 1 .. n PROVE Closed(chains'[k])
    <3>1. Closed(chains[k])
      BY <1>1, <1>3 DEF Closing, ToSet
    <3>2. \A e \in G : ToSet(Sources(e)) = {}
      <4>1. \A e \in G : Sources(e) = <<>>
        BY <1>1 DEF WellFormed, G, OfType, InputTypes
      <4> QED BY <4>1, EmptyList
    <3> QED BY <3>1, <3>2, <1>10 DEF Closed
  <2>3. \A c \in ToSet(chains') : \E k \in 1 .. n : c = chains'[k]
    BY <1>8 DEF ToSet
  <2> QED BY <2>1, <2>2, <2>3
<1>21. Closing'
  <2>1. ChainClosed'
    BY <1>20 DEF ChainClosed, Closed
  <2>2. ToSet(chain') = {}
    BY <1>1, <1>2, EmptyList
  <2> QED BY <1>1, <2>1, <2>2 DEF Closing
<1> QED BY <1>9, <1>16, <1>17, <1>18, <1>19, <1>21 DEF ChainInv

-----------------------------------------------------------------------------
(* The chain of the fallback *)

\* The units that uvc_scan_fallback takes.
FallbackSet == {i \in DOMAIN entities : TwoPads(i)}

\* A set with one element as a sequence.
LEMMA OneOf ==
  ASSUME NEW S, IsFiniteSet(S), Cardinality(S) = 1
  PROVE  \E s : S = {s} /\ SetToSeq(S) = <<s>>
<1>1. PICK s : S = {s}
  BY FS_Singleton
<1>2. <<s>> \in [1 .. Cardinality(S) -> S] /\ IsInjective(<<s>>)
  BY <1>1 DEF IsInjective
<1>3. SetToSeq(S) \in [1 .. Cardinality(S) -> S]
  BY <1>2 DEF SetToSeq
<1>4. SetToSeq(S) \in [1 .. 1 -> {s}]
  BY <1>1, <1>3
<1>5. SetToSeq(S) = <<s>>
  BY <1>4
<1> QED BY <1>1, <1>5

\* The units of the fallback, each once.
LEMMA UnitsAre ==
  ASSUME TypeOK
  PROVE  /\ Cardinality(FallbackSet) \in Nat
         /\ FallbackUnits \in Seq(FallbackSet) /\ Len(FallbackUnits) = Cardinality(FallbackSet)
         /\ IsInjective(FallbackUnits)
         /\ \A i \in FallbackSet : \E k \in 1 .. Cardinality(FallbackSet) : FallbackUnits[k] = i
<1> DEFINE Later(i) == {j \in FallbackSet : j > i}
           m == Cardinality(FallbackSet)
           F == FallbackUnits
<1>1. FallbackSet \in SUBSET (1 .. Len(entities)) /\ Len(entities) \in Nat
  BY EntityIs DEF FallbackSet
<1>2. m \in Nat /\ \A k \in 1 .. m : \E i \in FallbackSet : Cardinality(Later(i)) = k - 1
  BY <1>1, Ranked
<1>3. F = [k \in 1 .. m |-> CHOOSE i \in FallbackSet : Cardinality(Later(i)) = k - 1]
  BY DEF FallbackUnits, FallbackSet
<1> HIDE DEF F
<1>4. ASSUME NEW k \in 1 .. m PROVE F[k] \in FallbackSet /\ Cardinality(Later(F[k])) = k - 1
  <2> DEFINE c == CHOOSE i \in FallbackSet : Cardinality(Later(i)) = k - 1
  <2>1. c \in FallbackSet /\ Cardinality(Later(c)) = k - 1
    <3> HIDE DEF Later, m
    <3> QED BY <1>2
  <2>2. F[k] = c
    BY <1>3
  <2> HIDE DEF c
  <2> QED BY <2>1, <2>2
<1>5. F \in Seq(FallbackSet) /\ Len(F) = m /\ DOMAIN F = 1 .. m
  <2> HIDE DEF Later, m
  <2>1. F \in [1 .. m -> FallbackSet]
    BY <1>3, <1>4
  <2> QED BY <2>1, <1>2
<1>6. IsInjective(F)
  <2> SUFFICES ASSUME NEW a \in 1 .. m, NEW b \in 1 .. m, F[a] = F[b] PROVE a = b
    BY <1>5 DEF IsInjective
  <2>1. a - 1 = b - 1
    BY <1>4
  <2> QED BY <2>1, <1>2
<1>7. ASSUME NEW i \in FallbackSet PROVE \E k \in 1 .. m : F[k] = i
  <2>1. IsFiniteSet(FallbackSet)
    <3>1. IsFiniteSet(1 .. Len(entities))
      BY <1>1, FS_Interval
    <3> QED BY <3>1, <1>1, FS_Subset
  <2>2. Cardinality(Later(i)) \in Nat
    <3>1. Later(i) \subseteq FallbackSet
      OBVIOUS
    <3> HIDE DEF Later
    <3> QED BY <3>1, <2>1, FS_Subset, FS_CardinalityType
  <2>3. /\ Cardinality(Later(i)) + 1 \in 1 .. m
        /\ \A j \in FallbackSet : Cardinality(Later(j)) = Cardinality(Later(i)) => j = i
    BY <1>1, <2>2, RankedOnce
  <2> DEFINE k == Cardinality(Later(i)) + 1
  <2>4. k \in 1 .. m /\ k - 1 = Cardinality(Later(i))
    BY <2>2, <2>3
  <2>5. F[k] \in FallbackSet /\ Cardinality(Later(F[k])) = Cardinality(Later(i))
    <3> HIDE DEF k
    <3> QED BY <2>4, <1>4
  <2>6. F[k] = i
    BY <2>3, <2>5
  <2> QED BY <2>4, <2>6
<1> QED BY <1>2, <1>5, <1>6, <1>7 DEF F

\* The chain of the fallback: the output terminal, the units, the input terminal, each once.
LEMMA FallbackIs ==
  ASSUME TypeOK, OneTerminalEach
  PROVE  \E o, t \in DOMAIN entities : \E m \in Nat :
           /\ OutputTerminals = {o} /\ InputTerminals = {t} /\ o # t
           /\ FallbackChain \in Seq(DOMAIN entities) /\ Len(FallbackChain) = m + 2
           /\ FallbackChain[1] = o /\ FallbackChain[m + 2] = t
           /\ \A k \in 2 .. m + 1 : FallbackChain[k] \in FallbackSet
           /\ \A i \in FallbackSet : \E k \in 2 .. m + 1 : FallbackChain[k] = i
           /\ IsInjective(FallbackChain)
<1> DEFINE F == FallbackUnits
           m == Cardinality(FallbackSet)
           L == FallbackChain
<1>1. IsFiniteSet(OutputTerminals) /\ IsFiniteSet(InputTerminals)
  <2>1. IsFiniteSet(1 .. Len(entities)) /\ DOMAIN entities = 1 .. Len(entities)
    BY EntityIs, FS_Interval
  <2>2. OutputTerminals \subseteq DOMAIN entities /\ InputTerminals \subseteq DOMAIN entities
    BY DEF OutputTerminals, InputTerminals, OfType
  <2> QED BY <2>1, <2>2, FS_Subset
<1>2. PICK o : OutputTerminals = {o} /\ SetToSeq(OutputTerminals) = <<o>>
  BY <1>1, OneOf DEF OneTerminalEach
<1>3. PICK t : InputTerminals = {t} /\ SetToSeq(InputTerminals) = <<t>>
  BY <1>1, OneOf DEF OneTerminalEach
<1>4. /\ o \in DOMAIN entities /\ t \in DOMAIN entities
      /\ Type(o) = "OT" /\ Type(t) \in InputTypes
  BY <1>2, <1>3 DEF OutputTerminals, InputTerminals, OfType, InputTypes
<1>5. o # t
  BY <1>4 DEF InputTypes
<1>6. /\ m \in Nat /\ F \in Seq(FallbackSet) /\ Len(F) = m /\ IsInjective(F)
      /\ \A i \in FallbackSet : \E k \in 1 .. m : F[k] = i
  BY UnitsAre
<1>7. \A k \in 1 .. m : F[k] \in FallbackSet
  BY <1>6
<1>8. \A i \in FallbackSet : i \in DOMAIN entities /\ i # o /\ i # t
  BY <1>4 DEF FallbackSet, TwoPads, InputTypes
<1>9. L = <<o>> \o F \o <<t>>
  BY <1>2, <1>3 DEF FallbackChain
<1> HIDE DEF F, m, L
<1>10. /\ Len(L) = m + 2 /\ L[1] = o /\ L[m + 2] = t
       /\ \A k \in 2 .. m + 1 : L[k] = F[k - 1]
       /\ DOMAIN L = 1 .. m + 2
  <2>1. F \in Seq(DOMAIN entities) /\ o \in DOMAIN entities /\ t \in DOMAIN entities
    <3>1. F \in [1 .. m -> FallbackSet] /\ m \in Nat
      BY <1>6
    <3>2. F \in [1 .. m -> DOMAIN entities]
      BY <3>1, <1>8
    <3> QED BY <3>1, <3>2, <1>4
  <2> DEFINE D == DOMAIN entities
             H == <<o>> \o F
  <2>2. /\ H \in Seq(D) /\ Len(H) = m + 1 /\ m \in Nat
        /\ H[1] = o /\ \A k \in 2 .. m + 1 : H[k] = F[k - 1]
    BY <2>1, <1>6
  <2>3. L = H \o <<t>> /\ <<t>> \in Seq(D)
    BY <2>1, <1>9
  <2> HIDE DEF H, D
  <2>4. /\ Len(L) = m + 2 /\ L[m + 2] = t /\ DOMAIN L = 1 .. m + 2
        /\ \A k \in 1 .. m + 1 : L[k] = H[k]
    BY <2>2, <2>3
  <2> QED BY <2>2, <2>4
<1>11. \A k \in 1 .. m + 2 : k = 1 \/ k = m + 2 \/ (k \in 2 .. m + 1 /\ k - 1 \in 1 .. m)
  BY <1>6
<1>12. \A k \in 2 .. m + 1 : L[k] \in FallbackSet
  BY <1>6, <1>7, <1>10
<1>13. \A k \in 1 .. m + 2 : L[k] \in DOMAIN entities
  BY <1>4, <1>8, <1>10, <1>11, <1>12
<1>14. L \in Seq(DOMAIN entities)
  <2>1. F \in [1 .. m -> FallbackSet] /\ m \in Nat
    BY <1>6
  <2>2. F \in [1 .. m -> DOMAIN entities]
    BY <2>1, <1>8
  <2>3. F \in Seq(DOMAIN entities)
    BY <2>1, <2>2
  <2> QED BY <2>3, <1>4, <1>9
<1>15. \A i \in FallbackSet : \E k \in 2 .. m + 1 : L[k] = i
  <2> TAKE i \in FallbackSet
  <2>1. PICK k \in 1 .. m : F[k] = i
    BY <1>6
  <2>2. k + 1 \in 2 .. m + 1 /\ k + 1 - 1 = k
    BY <1>6
  <2>3. L[k + 1] = i
    BY <2>1, <2>2, <1>10
  <2> QED BY <2>2, <2>3
<1>16. IsInjective(L)
  <2> SUFFICES ASSUME NEW a \in 1 .. m + 2, NEW b \in 1 .. m + 2, L[a] = L[b] PROVE a = b
    BY <1>10 DEF IsInjective
  <2>1. CASE a \in 2 .. m + 1 /\ b \in 2 .. m + 1
    <3>1. a - 1 \in 1 .. m /\ b - 1 \in 1 .. m /\ F[a - 1] = F[b - 1] /\ DOMAIN F = 1 .. m
      BY <2>1, <1>6, <1>10
    <3>2. a - 1 = b - 1
      BY <3>1, <1>6 DEF IsInjective
    <3> QED BY <3>2, <1>6
  <2>2. \A k \in 2 .. m + 1 : L[k] # o /\ L[k] # t
    BY <1>8, <1>12
  <2> QED BY <2>1, <2>2, <1>5, <1>10, <1>11
<1> QED BY <1>2, <1>3, <1>4, <1>5, <1>6, <1>10, <1>12, <1>14, <1>15, <1>16 DEF L

\* What uvc_scan_fallback makes of the entities: those of its chain name the next
\* one as their source.
LEMMA Rewires ==
  ASSUME TypeOK, WellFormed, OneTerminalEach, entities' = ConnectedInOrder(FallbackChain)
  PROVE  /\ entities' \in Seq(Entity) /\ Len(entities') = Len(entities) /\ DOMAIN entities' = DOMAIN entities
         /\ \A i \in DOMAIN entities : /\ entities'[i].id = entities[i].id
                                       /\ entities'[i].type = entities[i].type
                                       /\ Len(entities'[i].sources) = Len(entities[i].sources)
         /\ \A k \in 1 .. Len(FallbackChain) - 1 :
              entities'[FallbackChain[k]].sources = <<Byte(entities[FallbackChain[k + 1]].id)>>
         /\ \A i \in DOMAIN entities :
              (\A k \in 1 .. Len(FallbackChain) - 1 : FallbackChain[k] # i) =>
                entities'[i].sources = entities[i].sources
<1> DEFINE L == FallbackChain
<1>1. PICK o \in DOMAIN entities, t \in DOMAIN entities, m \in Nat :
        /\ OutputTerminals = {o} /\ InputTerminals = {t} /\ o # t
        /\ FallbackChain \in Seq(DOMAIN entities) /\ Len(FallbackChain) = m + 2
        /\ FallbackChain[1] = o /\ FallbackChain[m + 2] = t
        /\ \A k \in 2 .. m + 1 : FallbackChain[k] \in FallbackSet
        /\ \A i \in FallbackSet : \E k \in 2 .. m + 1 : FallbackChain[k] = i
        /\ IsInjective(FallbackChain)
  BY FallbackIs
<1> HIDE DEF L
<1>2. L \in Seq(DOMAIN entities) /\ Len(L) = m + 2 /\ DOMAIN L = 1 .. m + 2 /\ IsInjective(L)
      /\ \A k \in 1 .. m + 2 : L[k] \in DOMAIN entities
  <2>1. L \in Seq(DOMAIN entities) /\ Len(L) = m + 2 /\ IsInjective(L)
    BY <1>1 DEF L
  <2> QED BY <2>1
<1>3. ASSUME NEW k \in 1 .. m + 1
      PROVE  L[k] \in DOMAIN entities /\ Pins(L[k]) = 1 /\ L[k + 1] \in DOMAIN entities
  <2>1. L[k] \in DOMAIN entities /\ L[k + 1] \in DOMAIN entities
    BY <1>2
  <2>2. CASE k = 1
    <3>1. L[k] = o /\ Type(o) = "OT"
      BY <2>2, <1>1 DEF L, OutputTerminals, OfType
    <3> QED BY <2>1, <3>1 DEF WellFormed
  <2>3. CASE k # 1
    <3>1. k \in 2 .. m + 1
      BY <2>3
    <3>2. L[k] \in FallbackSet
      BY <3>1, <1>1 DEF L
    <3> QED BY <2>1, <3>2 DEF FallbackSet, TwoPads
  <2> QED BY <2>2, <2>3
<1>4. \A b \in 0 .. Invalid : Byte(b) \in Bytes
  BY DEF Byte, Bytes, Invalid
<1>5. entities' = [i \in DOMAIN entities |->
        IF \E k \in 1 .. m + 1 : L[k] = i
        THEN LET k == CHOOSE k \in 1 .. m + 1 : L[k] = i
             IN [entities[i] EXCEPT !.sources[1] = Byte(entities[L[k + 1]].id)]
        ELSE entities[i]]
  <2>1. Len(L) - 1 = m + 1
    BY <1>2
  <2> QED BY <2>1 DEF ConnectedInOrder, L
<1>6. ASSUME NEW i \in DOMAIN entities, \A k \in 1 .. m + 1 : L[k] # i
      PROVE  entities'[i] = entities[i]
  BY <1>5, <1>6
<1>7. ASSUME NEW k \in 1 .. m + 1
      PROVE  entities'[L[k]] = [entities[L[k]] EXCEPT !.sources = <<Byte(entities[L[k + 1]].id)>>]
  <2> DEFINE i == L[k]
             c == CHOOSE j \in 1 .. m + 1 : L[j] = i
             b == Byte(entities[L[k + 1]].id)
  <2>1. c \in 1 .. m + 1 /\ L[c] = i
    OBVIOUS
  <2>2. c = k
    <3>1. c \in DOMAIN L /\ k \in DOMAIN L
      BY <2>1, <1>2
    <3> HIDE DEF c
    <3> QED BY <2>1, <3>1, <1>2 DEF IsInjective
  <2>3. i \in DOMAIN entities /\ \E j \in 1 .. m + 1 : L[j] = i
    BY <1>3
  <2>4. entities'[i] = [entities[i] EXCEPT !.sources[1] = Byte(entities[L[c + 1]].id)]
    <3> HIDE DEF i
    <3> QED BY <2>3, <1>5
  <2>5. entities[i].sources \in Seq(Bytes) /\ Len(entities[i].sources) = 1 /\ entities[i] \in Entity
    BY <1>3, EntityIs DEF Sources, Pins
  <2>6. [entities[i].sources EXCEPT ![1] = b] = <<b>>
    <3> HIDE DEF b, i
    <3> QED BY <2>5
  <2>7. entities'[i] = [entities[i] EXCEPT !.sources = [@ EXCEPT ![1] = b]]
    <3> HIDE DEF i, c
    <3> QED BY <2>2, <2>4
  <2> HIDE DEF c, b
  <2>8. entities'[i] = [entities[i] EXCEPT !.sources = <<b>>]
    BY <2>5, <2>6, <2>7 DEF Entity
  <2> QED BY <2>8 DEF b
<1>8. DOMAIN entities' = DOMAIN entities
  BY <1>5
<1>9. ASSUME NEW k \in 1 .. m + 1
      PROVE  /\ entities'[L[k]] \in Entity
             /\ entities'[L[k]].sources = <<Byte(entities[L[k + 1]].id)>>
             /\ entities'[L[k]].id = entities[L[k]].id /\ entities'[L[k]].type = entities[L[k]].type
             /\ Len(entities'[L[k]].sources) = Len(entities[L[k]].sources)
  <2>1. entities[L[k]] \in Entity /\ entities[L[k + 1]].id \in 0 .. Invalid
        /\ Len(entities[L[k]].sources) = 1
    BY <1>3, EntityIs DEF Pins, Sources
  <2>2. Byte(entities[L[k + 1]].id) \in Bytes
    BY <2>1, <1>4
  <2> DEFINE b == Byte(entities[L[k + 1]].id)
             e == entities[L[k]]
  <2>3. entities'[L[k]] = [e EXCEPT !.sources = <<b>>]
    BY <1>7
  <2>4. b \in Bytes /\ e \in Entity /\ <<b>> \in Seq(Bytes) /\ Len(<<b>>) = 1
    BY <2>1, <2>2
  <2> HIDE DEF b, e
  <2>5. [e EXCEPT !.sources = <<b>>] \in Entity
        /\ [e EXCEPT !.sources = <<b>>].sources = <<b>>
        /\ [e EXCEPT !.sources = <<b>>].id = e.id /\ [e EXCEPT !.sources = <<b>>].type = e.type
    BY <2>4 DEF Entity
  <2>6. entities'[L[k]] \in Entity
        /\ entities'[L[k]].sources = <<b>>
        /\ entities'[L[k]].id = e.id /\ entities'[L[k]].type = e.type
    BY <2>3, <2>5
  <2> QED BY <2>1, <2>4, <2>6 DEF b, e
<1>10. ASSUME NEW i \in DOMAIN entities
       PROVE  /\ entities'[i] \in Entity
              /\ entities'[i].id = entities[i].id /\ entities'[i].type = entities[i].type
              /\ Len(entities'[i].sources) = Len(entities[i].sources)
  <2>1. CASE \E k \in 1 .. m + 1 : L[k] = i
    <3>1. PICK k \in 1 .. m + 1 : L[k] = i
      BY <2>1
    <3> QED BY <3>1, <1>9
  <2>2. CASE \A k \in 1 .. m + 1 : L[k] # i
    <3>1. entities'[i] = entities[i] /\ entities[i] \in Entity
      BY <2>2, <1>6, EntityIs
    <3> QED BY <3>1
  <2> QED BY <2>1, <2>2
<1>11. entities' \in Seq(Entity) /\ Len(entities') = Len(entities)
  <2>1. DOMAIN entities = 1 .. Len(entities) /\ Len(entities) \in Nat
    BY EntityIs
  <2> DEFINE new == [i \in 1 .. Len(entities) |-> entities'[i]]
  <2>2. entities' = new
    BY <1>5, <2>1
  <2>3. new \in Seq(Entity) /\ Len(new) = Len(entities)
    BY <1>10, <2>1
  <2> QED BY <2>2, <2>3
<1>12. ASSUME NEW i \in DOMAIN entities, \A k \in 1 .. m + 1 : L[k] # i PROVE entities'[i].sources = entities[i].sources
  BY <1>6, <1>12
<1> QED BY <1>2, <1>8, <1>9, <1>10, <1>11, <1>12 DEF L

\* The fallback's chain is the only list.
LEMMA TwoLists ==
  ASSUME NEW T, NEW x \in T, NEW y \in T
  PROVE  /\ DOMAIN Append(<<x>>, y) = 1 .. 2
         /\ Append(<<x>>, y)[1] = x /\ Append(<<x>>, y)[2] = y
<1>1. <<x>> \in Seq(T) /\ Len(<<x>>) = 1 /\ <<x>>[1] = x
  OBVIOUS
<1> QED BY <1>1

\* The fallback's chain is a sound one.
LEMMA FallsBack ==
  ASSUME ChainInv, Fallback, FallbackFits
  PROVE  ChainInv'
<1> DEFINE L == FallbackChain
<1>1. /\ TypeOK /\ WellFormed /\ Marked /\ Cursor
      /\ OneTerminalEach
      /\ pc = "scan" /\ pc' = "done" /\ chains = <<>> /\ chains' = <<L>>
      /\ entities' = ConnectedInOrder(L)
      /\ linked' = linked \cup ToSet(L)
      /\ UNCHANGED <<term, chain, entity, prev, pin, at, forward>>
  BY DEF ChainInv, Fallback, FallbackFits, scan
<1>2. PICK o \in DOMAIN entities, t \in DOMAIN entities, m \in Nat :
        /\ OutputTerminals = {o} /\ InputTerminals = {t} /\ o # t
        /\ L \in Seq(DOMAIN entities) /\ Len(L) = m + 2
        /\ L[1] = o /\ L[m + 2] = t
        /\ \A k \in 2 .. m + 1 : L[k] \in FallbackSet
        /\ \A i \in FallbackSet : \E k \in 2 .. m + 1 : L[k] = i
        /\ IsInjective(L)
  BY <1>1, FallbackIs
<1>3. /\ entities' \in Seq(Entity) /\ Len(entities') = Len(entities) /\ DOMAIN entities' = DOMAIN entities
      /\ \A i \in DOMAIN entities : /\ entities'[i].id = entities[i].id
                                    /\ entities'[i].type = entities[i].type
                                    /\ Len(entities'[i].sources) = Len(entities[i].sources)
      /\ \A k \in 1 .. Len(L) - 1 : entities'[L[k]].sources = <<Byte(entities[L[k + 1]].id)>>
      /\ \A i \in DOMAIN entities :
           (\A k \in 1 .. Len(L) - 1 : L[k] # i) => entities'[i].sources = entities[i].sources
  BY <1>1, Rewires
<1> HIDE DEF L
<1>4. chain = <<>> /\ pin = 0 /\ chain' = <<>>
  BY <1>1 DEF Cursor, Scanning
<1>5. DOMAIN L = 1 .. m + 2 /\ ToSet(L) \subseteq DOMAIN entities /\ DOMAIN entities \subseteq Positions
      /\ \A k \in 1 .. m + 2 : L[k] \in ToSet(L)
  <2>1. DOMAIN L = 1 .. m + 2 /\ \A k \in 1 .. m + 2 : L[k] \in DOMAIN entities
    BY <1>2
  <2> QED BY <2>1, <1>1, EntityIs DEF ToSet
<1>6. Positions' = Positions
  BY <1>3 DEF Positions
<1>7. TypeOK'
  <2>1. L \in Seq(Positions)
    BY <1>2, <1>5
  <2>2. chains' \in Seq(Seq(Positions))
    BY <2>1, <1>1
  <2>3. linked' \subseteq Positions
    BY <1>1, <1>5 DEF TypeOK
  <2> QED BY <1>1, <1>3, <1>4, <1>6, <2>2, <2>3 DEF TypeOK
<1>8. \A i \in DOMAIN entities : Type(i) \in InputTypes => entities'[i].sources = entities[i].sources
  <2> SUFFICES ASSUME NEW i \in DOMAIN entities, Type(i) \in InputTypes,
                      NEW k \in 1 .. m + 1, L[k] = i
               PROVE  FALSE
    BY <1>2, <1>3
  <2>1. i = t
    BY <1>2 DEF InputTerminals, OfType, InputTypes
  <2>2. k \in DOMAIN L /\ m + 2 \in DOMAIN L /\ L[k] = L[m + 2] /\ k # m + 2
    BY <2>1, <1>2, <1>5
  <2> QED BY <2>2, <1>2 DEF IsInjective
<1>9. WellFormed'
  <2>1. ASSUME NEW i \in DOMAIN entities
        PROVE  /\ entities[i].type \in InputTypes => entities'[i].sources = <<>>
               /\ entities[i].type \in {"OT", "PU"} => Len(entities[i].sources) = 1
               /\ entities[i].id # 0
               /\ entities[i].type = "OT" => entities[i].id > 255
               /\ entities[i].type = "GPIO" => entities[i].id \in {GpioId, Invalid}
               /\ entities[i].type \notin {"OT", "GPIO"} => entities[i].id \in 1 .. 255 \cup {Invalid}
               /\ \A j \in DOMAIN entities :
                    entities[i].id = entities[j].id => i = j \/ entities[i].id = Invalid
    BY <1>1, <1>8 DEF WellFormed, Type, Sources, Pins
  <2>2. \A i \in DOMAIN entities : /\ entities'[i].id = entities[i].id
                                    /\ entities'[i].type = entities[i].type
                                    /\ Len(entities'[i].sources) = Len(entities[i].sources)
    BY <1>3
  <2>3. DOMAIN entities' = DOMAIN entities
    BY <1>3
  <2>4. \A i \in DOMAIN entities :
          /\ entities'[i].type \in InputTypes => entities'[i].sources = <<>>
          /\ entities'[i].type \in {"OT", "PU"} => Len(entities'[i].sources) = 1
          /\ entities'[i].id # 0
          /\ entities'[i].type = "OT" => entities'[i].id > 255
          /\ entities'[i].type = "GPIO" => entities'[i].id \in {GpioId, Invalid}
          /\ entities'[i].type \notin {"OT", "GPIO"} => entities'[i].id \in 1 .. 255 \cup {Invalid}
    <3> TAKE i \in DOMAIN entities
    <3>1. /\ entities[i].type \in InputTypes => entities'[i].sources = <<>>
          /\ entities[i].type \in {"OT", "PU"} => Len(entities[i].sources) = 1
          /\ entities[i].id # 0
          /\ entities[i].type = "OT" => entities[i].id > 255
          /\ entities[i].type = "GPIO" => entities[i].id \in {GpioId, Invalid}
          /\ entities[i].type \notin {"OT", "GPIO"} => entities[i].id \in 1 .. 255 \cup {Invalid}
      BY <2>1
    <3>2. /\ entities'[i].id = entities[i].id
          /\ entities'[i].type = entities[i].type
          /\ Len(entities'[i].sources) = Len(entities[i].sources)
      BY <2>2
    <3> QED BY <3>1, <3>2
  <2>5. \A i, j \in DOMAIN entities :
          entities'[i].id = entities'[j].id => i = j \/ entities'[i].id = Invalid
    <3> TAKE i \in DOMAIN entities, j \in DOMAIN entities
    <3>1. entities'[i].id = entities[i].id /\ entities'[j].id = entities[j].id
      BY <2>2
    <3>2. entities[i].id = entities[j].id => i = j \/ entities[i].id = Invalid
      BY <2>1
    <3> QED BY <3>1, <3>2
  <2> QED BY <2>3, <2>4, <2>5 DEF WellFormed, Type, Sources, Pins
<1>10. DOMAIN Lists' = 1 .. 2 /\ Lists'[1] = L /\ Lists'[2] = <<>>
  <2>1. Lists' = Append(<<L>>, <<>>)
    BY <1>1, <1>4 DEF Lists
  <2>2. L \in {L, <<>>} /\ <<>> \in {L, <<>>}
    OBVIOUS
  <2>3. /\ DOMAIN Append(<<L>>, <<>>) = 1 .. 2
        /\ Append(<<L>>, <<>>)[1] = L /\ Append(<<L>>, <<>>)[2] = <<>>
    BY <2>2, TwoLists
  <2> QED BY <2>1, <2>3
<1>11. NeverLinkedTwice'
  <2>1. \A k \in 1 .. 2 : IsInjective(Lists'[k])
    BY <1>2, <1>10, EmptyList
  <2>2. \A k, l \in 1 .. 2 : k # l => ToSet(Lists'[k]) \cap ToSet(Lists'[l]) = {}
    BY <1>10, EmptyList
  <2>3. DOMAIN Lists' = 1 .. 2
    BY <1>10
  <2> QED BY <2>1, <2>2, <2>3 DEF NeverLinkedTwice
<1>12. Marked'
  <2>1. DOMAIN Lists' = 1 .. 2 /\ Lists'[1] = L /\ Lists'[2] = <<>>
    BY <1>10
  <2>2. \A k \in 1 .. 2 : ToSet(Lists'[k]) \subseteq linked'
    BY <2>1, <1>1, EmptyList
  <2>3. linked' \subseteq DOMAIN entities'
    BY <1>1, <1>3, <1>5 DEF Marked
  <2> QED BY <1>1, <2>1, <2>2, <2>3 DEF Marked
<1>13. Cursor'
  BY <1>1, <1>4 DEF Cursor, Scanning, Placed
<1>14. \A id : EntityById(id)' = EntityById(id)
  BY <1>3 DEF EntityById, Identified
<1>15. ASSUME Identifiable',
              NEW e \in ToSet(L), NEW id \in ToSet(entities'[e].sources) \ {0}
       PROVE  EntityById(id) \in ToSet(L)
  <2>1. PICK k \in 1 .. m + 2 : e = L[k]
    BY <1>5 DEF ToSet
  <2>2. CASE k = m + 2
    <3>1. Type(e) \in InputTypes /\ e \in DOMAIN entities
      BY <2>1, <2>2, <1>2 DEF InputTerminals, OfType, InputTypes
    <3>2. entities'[e].sources = <<>>
      BY <3>1, <1>1, <1>8 DEF WellFormed, Sources
    <3> QED BY <3>2, <1>15, EmptyList
  <2>3. CASE k # m + 2
    <3> DEFINE n == L[k + 1]
    <3>1. k \in 1 .. m + 1 /\ k \in 1 .. Len(L) - 1 /\ k + 1 \in 1 .. m + 2
      BY <2>3, <1>2
    <3>2. entities'[e].sources = <<Byte(entities[n].id)>>
      BY <3>1, <2>1, <1>3
    <3>3. id = Byte(entities[n].id) /\ id # 0
      BY <3>2, <1>15 DEF ToSet
    <3>4. n \in DOMAIN entities /\ n \in ToSet(L)
      BY <3>1, <1>2, <1>5
    <3>5. Type(n) # "OT"
      <4>1. CASE k + 1 = m + 2
        BY <4>1, <1>2 DEF InputTerminals, OfType
      <4>2. CASE k + 1 # m + 2
        <5>1. k + 1 \in 2 .. m + 1
          BY <3>1, <4>2
        <5>2. n \in FallbackSet
          BY <5>1, <1>2
        <5> QED BY <5>2 DEF FallbackSet, TwoPads
      <4> QED BY <4>1, <4>2
    <3>6. entities[n].id # Invalid
      BY <3>4, <1>3, <1>15 DEF Identifiable
    <3> HIDE DEF n
    <3>7. entities[n].id \in 1 .. 255 \cup {256}
      BY <3>4, <3>5, <3>6, <1>1 DEF WellFormed, GpioId
    <3>8. id = entities[n].id
      BY <3>3, <3>7 DEF Byte
    <3>9. EntityById(entities[n].id) = n
      BY <1>1, <3>4, <3>6, ByOwnId
    <3> QED BY <3>4, <3>8, <3>9
  <2> QED BY <2>2, <2>3
<1>16. Closing'
  <2>1. \A c \in ToSet(chains') : c = L
    BY <1>1 DEF ToSet
  <2>2. ChainClosed'
    BY <1>14, <1>15, <2>1 DEF ChainClosed, Sources
  <2>3. ToSet(chain') = {}
    BY <1>4, EmptyList
  <2> QED BY <1>1, <2>2, <2>3 DEF Closing
<1> QED BY <1>7, <1>9, <1>11, <1>12, <1>13, <1>16 DEF ChainInv

\* The fallback refuses the device.
LEMMA Refuses ==
  ASSUME ChainInv, Fallback, ~FallbackFits
  PROVE  ChainInv'
<1>1. /\ TypeOK /\ Cursor /\ Closing
      /\ pc = "scan" /\ pc' = "failed" /\ chains = <<>>
      /\ UNCHANGED <<entities, term, chain, entity, prev, pin, at, forward, linked, chains>>
  BY DEF ChainInv, Fallback, scan
<1>2. TypeOK'
  BY <1>1 DEF TypeOK, Positions
<1>3. /\ WellFormed' /\ NeverLinkedTwice' /\ Marked' /\ ChainClosed'
      /\ (\A c \in ToSet(chains) : Closed(c))'
  BY <1>1, KeepsLists
<1>4. chain = <<>> /\ pin = 0
  BY <1>1 DEF Cursor, Scanning
<1>5. Cursor'
  BY <1>1, <1>4 DEF Cursor, Scanning, Placed
<1>6. Closing'
  <2>1. ~FallbackFits'
    BY <1>1, Same
  <2> QED BY <1>1, <1>3, <1>4, <2>1, EmptyList DEF Closing
<1> QED BY <1>2, <1>3, <1>5, <1>6 DEF ChainInv

-----------------------------------------------------------------------------
(* The initial states                                                      *)

\* The descriptors of a device.
Descriptors == [type : Types, id : Bytes, sources : Seq(Bytes)]

\* What DevicesAssumption says of one.
LEMMA DescriptorIs ==
  ASSUME NEW d \in Devices, NEW i \in DOMAIN d
  PROVE  /\ d \in Seq(Descriptors) /\ d[i] \in Descriptors
         /\ d[i].type \in Types /\ d[i].id \in 0 .. 255 /\ d[i].sources \in Seq(Bytes)
         /\ d[i].type \in InputTypes => d[i].sources = <<>>
         /\ d[i].type \in {"OT", "PU"} => Len(d[i].sources) = 1
<1>1. d \in Seq(Descriptors)
  BY DevicesAssumption DEF Descriptors
<1>2. d[i] \in Descriptors
  BY <1>1
<1>3. d[i].type \in Types /\ d[i].id \in 0 .. 255 /\ d[i].sources \in Seq(Bytes)
  BY <1>2 DEF Descriptors, Bytes
<1>4. /\ d[i].type \in InputTypes => d[i].sources = <<>>
      /\ d[i].type \in {"OT", "PU"} => Len(d[i].sources) = 1
  BY DevicesAssumption DEF InputTypes
<1> QED BY <1>1, <1>2, <1>3, <1>4

\* Adding the bit of output terminals to a byte neither overflows nor gives the invalid identifier.
LEMMA Shifted ==
  ASSUME NEW base \in Nat, NEW top \in Nat, NEW n \in Nat,
         n <= 255, base > 255, base + 255 < top
  PROVE  base + n > 255 /\ base + n \in 0 .. top /\ base + n # top
OBVIOUS

\* The identifiers that an entity may ask for.
LEMMA WantedIs ==
  ASSUME NEW d \in Devices, NEW i \in DOMAIN d
  PROVE  /\ d[i].type = "OT" => Wanted(d, i) > 255
         /\ d[i].type = "GPIO" => Wanted(d, i) = GpioId
         /\ d[i].type \notin {"OT", "GPIO"} => Wanted(d, i) \in 0 .. 255
         /\ Wanted(d, i) \in 0 .. Invalid /\ Wanted(d, i) # Invalid
<1>1. d[i].id \in 0 .. 255
  BY DescriptorIs
<1>2. CASE d[i].type = "OT"
  <2>1. Wanted(d, i) = OutputBit + d[i].id
    BY <1>2 DEF Wanted
  <2>2. /\ OutputBit \in Nat /\ Invalid \in Nat
        /\ OutputBit > 255 /\ OutputBit + 255 < Invalid
    BY DEF OutputBit, Invalid
  <2>3. d[i].id \in Nat /\ d[i].id <= 255
    BY <1>1
  <2>4. /\ OutputBit + d[i].id > 255 /\ OutputBit + d[i].id \in 0 .. Invalid
        /\ OutputBit + d[i].id # Invalid
    BY <2>2, <2>3, Shifted
  <2> QED BY <1>2, <2>1, <2>4
<1>3. CASE d[i].type = "GPIO"
  <2>1. Wanted(d, i) = GpioId
    BY <1>3 DEF Wanted
  <2> QED BY <1>3, <2>1 DEF GpioId, Invalid
<1>4. CASE d[i].type \notin {"OT", "GPIO"}
  <2>1. Wanted(d, i) = d[i].id
    BY <1>4 DEF Wanted
  <2>2. \A n \in 0 .. 255 : n \in 0 .. Invalid /\ n # Invalid
    BY DEF Invalid
  <2> QED BY <1>1, <1>4, <2>1, <2>2
<1> QED BY <1>2, <1>3, <1>4

\* ChainInv holds at first: valid identifiers are unique, because uvc_alloc_new_entity
\* invalidates the later ones.
LEMMA ChainInit ==
  Init => ChainInv
<1> SUFFICES ASSUME Init PROVE ChainInv
  OBVIOUS
<1>1. PICK d \in Devices :
        entities = [i \in DOMAIN d |-> [type |-> d[i].type, id |-> Ids(d)[i], sources |-> d[i].sources]]
  BY DEF Init
<1>2. /\ pc = "scan" /\ term = 0 /\ chain = <<>> /\ entity = 0 /\ prev = 0
      /\ pin = 0 /\ at = 0 /\ forward = 0 /\ linked = {} /\ chains = <<>>
  BY DEF Init
<1>3. d \in Seq(Descriptors)
  BY DevicesAssumption DEF Descriptors
<1>4. DOMAIN entities = DOMAIN d /\ DOMAIN d = 1 .. Len(d) /\ Len(d) \in Nat
  BY <1>1, <1>3
<1> DEFINE id(i) == entities[i].id
<1>5. ASSUME NEW i \in DOMAIN d
      PROVE  /\ entities[i].type = d[i].type /\ entities[i].sources = d[i].sources
             /\ id(i) = IF Wanted(d, i) = 0 \/ \E j \in 1 .. i - 1 : Wanted(d, j) = Wanted(d, i)
                        THEN Invalid ELSE Wanted(d, i)
             /\ entities[i] = [type |-> d[i].type, id |-> Ids(d)[i], sources |-> d[i].sources]
             /\ id(i) = Ids(d)[i]
  <2>1. entities[i] = [type |-> d[i].type, id |-> Ids(d)[i], sources |-> d[i].sources]
    BY <1>1
  <2>2. entities[i].type = d[i].type /\ entities[i].sources = d[i].sources /\ entities[i].id = Ids(d)[i]
    BY <2>1
  <2>3. Ids(d)[i] = IF Wanted(d, i) = 0 \/ \E j \in 1 .. i - 1 : Wanted(d, j) = Wanted(d, i)
                    THEN Invalid ELSE Wanted(d, i)
    BY DEF Ids
  <2> QED BY <2>1, <2>2, <2>3
<1>6. ASSUME NEW i \in DOMAIN d
      PROVE  /\ id(i) = Invalid \/ (id(i) = Wanted(d, i) /\ id(i) # 0)
             /\ id(i) \in 0 .. Invalid
             /\ entities[i] \in Entity
  <2>1. id(i) = Invalid \/ (id(i) = Wanted(d, i) /\ id(i) # 0)
    BY <1>5
  <2>2. Wanted(d, i) \in 0 .. Invalid
    BY WantedIs
  <2>3. id(i) \in 0 .. Invalid
    <3>1. Invalid \in 0 .. Invalid
      BY DEF Invalid
    <3> QED BY <2>1, <2>2, <3>1
  <2>4. Ids(d)[i] = id(i)
    BY <1>5
  <2> HIDE DEF id
  <2>5. entities[i] = [type |-> d[i].type, id |-> id(i), sources |-> d[i].sources]
    BY <2>4, <1>5
  <2>6. d[i].type \in Types /\ d[i].sources \in Seq(Bytes)
    BY DescriptorIs
  <2>7. entities[i] \in Entity
    BY <2>3, <2>5, <2>6 DEF Entity
  <2> QED BY <2>1, <2>3, <2>7
<1>7. ASSUME NEW i \in DOMAIN d, NEW j \in DOMAIN d, id(i) = id(j), id(i) # Invalid
      PROVE  i = j
  <2>1. ASSUME NEW a \in DOMAIN d, NEW b \in DOMAIN d, a < b, id(a) = id(b), id(b) # Invalid
        PROVE  FALSE
    <3>1. id(a) = Wanted(d, a) /\ id(b) = Wanted(d, b)
      BY <1>6, <2>1
    <3>2. a \in 1 .. b - 1
      BY <1>4, <2>1
    <3>3. \E c \in 1 .. b - 1 : Wanted(d, c) = Wanted(d, b)
      BY <3>1, <3>2, <2>1
    <3>4. id(b) = Invalid
      BY <1>5, <3>3
    <3> QED BY <3>4, <2>1
  <2>2. i < j \/ j < i \/ i = j
    BY <1>4
  <2> HIDE DEF id
  <2> QED BY <2>1, <2>2, <1>7
<1>8. entities \in Seq(Entity)
  <2>1. entities = [i \in 1 .. Len(d) |-> entities[i]]
    BY <1>1, <1>4
  <2>2. \A i \in 1 .. Len(d) : entities[i] \in Entity
    BY <1>4, <1>6
  <2> QED BY <2>1, <2>2, <1>4
<1>9. TypeOK
  BY <1>2, <1>8 DEF TypeOK, Positions
<1>10. WellFormed
  <2> SUFFICES ASSUME NEW i \in DOMAIN d
               PROVE  /\ Type(i) \in InputTypes => Sources(i) = <<>>
                      /\ Type(i) \in {"OT", "PU"} => Pins(i) = 1
                      /\ id(i) # 0
                      /\ Type(i) = "OT" => id(i) > 255
                      /\ Type(i) = "GPIO" => id(i) \in {GpioId, Invalid}
                      /\ Type(i) \notin {"OT", "GPIO"} => id(i) \in 1 .. 255 \cup {Invalid}
                      /\ \A j \in DOMAIN d : id(i) = id(j) => i = j \/ id(i) = Invalid
    BY <1>4 DEF WellFormed
  <2>1. Type(i) = d[i].type /\ Sources(i) = d[i].sources /\ Pins(i) = Len(d[i].sources)
    BY <1>5 DEF Type, Sources, Pins
  <2>2. id(i) = Invalid \/ (id(i) = Wanted(d, i) /\ id(i) # 0)
    BY <1>6
  <2>3. \A j \in DOMAIN d : id(i) = id(j) => i = j \/ id(i) = Invalid
    BY <1>7
  <2> HIDE DEF id
  <2>4. id(i) # 0
    BY <2>2 DEF Invalid
  <2>5. /\ d[i].type = "OT" => Wanted(d, i) > 255
        /\ d[i].type = "GPIO" => Wanted(d, i) = GpioId
        /\ d[i].type \notin {"OT", "GPIO"} => Wanted(d, i) \in 0 .. 255
    BY WantedIs
  <2>6. d[i].type = "OT" => id(i) > 255
    BY <2>2, <2>5 DEF Invalid
  <2>7. d[i].type = "GPIO" => id(i) \in {GpioId, Invalid}
    BY <2>2, <2>5
  <2>8. d[i].type \notin {"OT", "GPIO"} => id(i) \in 1 .. 255 \cup {Invalid}
    BY <2>2, <2>5
  <2> QED BY <2>1, <2>3, <2>4, <2>6, <2>7, <2>8, DescriptorIs DEF InputTypes
<1>11. DOMAIN Lists = 1 .. 1 /\ Lists[1] = <<>>
  BY <1>2 DEF Lists
<1>12. NeverLinkedTwice
  BY <1>11, EmptyList DEF NeverLinkedTwice
<1>13. Marked
  BY <1>2, <1>11, EmptyList DEF Marked
<1>14. Cursor
  BY <1>2 DEF Cursor, Scanning, Placed
<1>15. Closing
  BY <1>2, EmptyList DEF Closing, ChainClosed
<1> QED BY <1>9, <1>10, <1>12, <1>13, <1>14, <1>15 DEF ChainInv

\* Every step keeps it.
LEMMA ChainStep ==
  ChainInv /\ [Next]_vars => ChainInv'
<1> SUFFICES ASSUME ChainInv, [Next]_vars PROVE ChainInv'
  OBVIOUS
<1>1. CASE StartChain
  BY <1>1, StartsChain
<1>2. CASE NoMemory
  BY <1>2, RunsOutOfMemory
<1>3. CASE ScanEntity
  BY <1>3, ScansEntity
<1>4. CASE RejectEntity
  <2>1. Scanning /\ GiveUp
    BY <1>4 DEF RejectEntity, Scanning
  <2> QED BY <2>1, GivesUp
<1>5. CASE ForwardDone
  <2>1. /\ pc = "forward" /\ UNCHANGED <<entities, scan, linked, chains>>
        /\ pc' = IF pin = 0 THEN "backward" ELSE "pins"
    BY <1>5 DEF ForwardDone, AfterForward
  <2> QED BY <2>1, ForwardEnds
<1>6. CASE FollowReference
  BY <1>6, Follows
<1>7. CASE StartPins
  BY <1>7, StartsPins
<1>8. CASE NextPin
  BY <1>8, FollowsPin
<1>9. CASE PinsDone
  BY <1>9, EndsPins
<1>10. CASE Backward
  BY <1>10, GoesBackward
<1>11. CASE ScanDone
  BY <1>11, EndsScan
<1>12. CASE Fallback
  BY <1>12, FallsBack, Refuses
<1>13. CASE UNCHANGED vars
  <2>1. UNCHANGED <<entities, pc, term, chain, entity, prev, pin, at, forward, linked, chains>>
    BY <1>13 DEF vars, scan
  <2>2. TypeOK' /\ NeverLinkedTwice'
    BY <2>1 DEF ChainInv, TypeOK, Positions, NeverLinkedTwice, Lists
  <2>3. WellFormed'
    BY <2>1, Same DEF ChainInv
  <2>4. Marked'
    BY <2>1, Same DEF ChainInv, Marked, Lists
  <2>5. Cursor'
    BY <2>1, Same DEF ChainInv, Cursor, Scanning, Placed
  <2>6. Closing'
    <3>1. \A c : Closed(c)' = Closed(c)
      BY <2>1, Same DEF Closed
    <3>2. ChainClosed' = ChainClosed
      BY <2>1, Same DEF ChainClosed
    <3>3. \A e, k : Pending(e, k)' = Pending(e, k)
      BY <2>1, Same DEF Pending, Placed
    <3> QED BY <2>1, <3>1, <3>2, <3>3, Same DEF ChainInv, Closing
  <2> QED BY <2>2, <2>3, <2>4, <2>5, <2>6 DEF ChainInv
<1> QED BY <1>1, <1>2, <1>3, <1>4, <1>5, <1>6, <1>7, <1>8, <1>9, <1>10, <1>11, <1>12, <1>13 DEF Next

-----------------------------------------------------------------------------
(* The theorems                                                            *)

\* No entity is linked twice, be it into one list or into two, and a finished chain is
\* closed under its references, whatever the references of the device are: the checks of
\* chain.next and chain.prev in uvc_scan_chain and its helpers suffice.
THEOREM ChainsStaySound ==
  Spec => []ListsSound
<1>1. ChainInv => ListsSound
  BY DEF ChainInv, Closing, ListsSound
<1> QED BY <1>1, ChainInit, ChainStep, PTL DEF Spec

\* A device with one terminal of each kind and one processing unit at most fits the fallback.
LEMMA Rescues ==
  ASSUME ChainInv
  PROVE  RescuedByFallback
<1> SUFFICES ASSUME pc = "failed",
                    Cardinality(OfType({"IT"})) = 1, Cardinality(OutputTerminals) = 1,
                    Cardinality(OfType({"PU"})) <= 1, OfType({"EXT", "GPIO"}) = {}
             PROVE  FALSE
  BY DEF RescuedByFallback
<1> DEFINE L == FallbackChain
<1>1. TypeOK /\ WellFormed /\ ~FallbackFits
  BY DEF ChainInv, Closing
<1>2. InputTerminals = OfType({"IT"})
  BY DEF InputTerminals, OfType
<1>3. OneTerminalEach
  BY <1>2 DEF OneTerminalEach
<1>4. PICK o \in DOMAIN entities, t \in DOMAIN entities, m \in Nat :
        /\ OutputTerminals = {o} /\ InputTerminals = {t} /\ o # t
        /\ L \in Seq(DOMAIN entities) /\ Len(L) = m + 2
        /\ L[1] = o /\ L[m + 2] = t
        /\ \A k \in 2 .. m + 1 : L[k] \in FallbackSet
        /\ \A i \in FallbackSet : \E k \in 2 .. m + 1 : L[k] = i
        /\ IsInjective(L)
  BY <1>1, <1>3, FallbackIs
<1> HIDE DEF L
<1>5. DOMAIN L = 1 .. m + 2
  BY <1>4
<1>6. \A i, j \in OfType({"PU"}) : i = j
  <2>1. IsFiniteSet(OfType({"PU"}))
    <3>1. Len(entities) \in Nat /\ DOMAIN entities = 1 .. Len(entities)
      BY <1>1, EntityIs
    <3>3. IsFiniteSet(1 .. Len(entities))
      BY <3>1, FS_Interval
    <3>2. OfType({"PU"}) \subseteq DOMAIN entities
      BY DEF OfType
    <3> QED BY <3>1, <3>2, <3>3, FS_Subset
  <2>2. Cardinality(OfType({"PU"})) \in Nat
    BY <2>1, FS_CardinalityType
  <2>3. Cardinality(OfType({"PU"})) = 0 \/ Cardinality(OfType({"PU"})) = 1
    BY <2>2
  <2> QED BY <2>1, <2>3, FS_Singleton, FS_EmptySet
<1>7. ASSUME NEW k \in 1 .. m + 2 PROVE Acceptable(L[k], SubSeq(L, 1, k - 1))
  <2>1. /\ Type(L[k]) \in {"OT", "IT", "PU", "XU"}
        /\ Type(L[k]) = "XU" => Pins(L[k]) = 1
    <3>1. CASE k = 1
      BY <3>1, <1>4 DEF OutputTerminals, OfType
    <3>2. CASE k = m + 2
      BY <3>2, <1>2, <1>4 DEF OfType
    <3>3. CASE k # 1 /\ k # m + 2
      <4>1. k \in 2 .. m + 1
        BY <3>3
      <4>2. L[k] \in FallbackSet
        BY <4>1, <1>4
      <4> QED BY <4>2 DEF FallbackSet, TwoPads
    <3> QED BY <3>1, <3>2, <3>3
  <2>2. ASSUME Type(L[k]) = "PU", NEW f \in ToSet(SubSeq(L, 1, k - 1)), Type(f) = "PU"
        PROVE  FALSE
    <3>1. PICK j \in DOMAIN SubSeq(L, 1, k - 1) : f = SubSeq(L, 1, k - 1)[j]
      BY DEF ToSet
    <3>2. j \in 1 .. k - 1 /\ f = L[j]
      BY <3>1, <1>4
    <3>3. j \in DOMAIN L /\ k \in DOMAIN L /\ j # k
      BY <3>2, <1>5
    <3>4. L[j] \in DOMAIN entities /\ L[k] \in DOMAIN entities
      BY <3>3, <1>4, <1>5
    <3>5. L[j] = L[k]
      BY <3>2, <3>4, <1>6, <2>2 DEF OfType
    <3> QED BY <3>3, <3>5, <1>4 DEF IsInjective
  <2> HIDE DEF L
  <2> QED BY <2>1, <2>2 DEF Acceptable, Selector
<1>8. FallbackFits
  BY <1>3, <1>5, <1>7 DEF FallbackFits, L
<1> QED BY <1>1, <1>8

\* uvc_scan_fallback refuses no device with one input terminal, one output terminal and at
\* most one processing unit, wherever its references lead.
THEOREM FallbackRescues ==
  Spec => []RescuedByFallback
BY ChainInit, ChainStep, Rescues, PTL DEF Spec

-----------------------------------------------------------------------------
(* The scan of a documented structure                                      *)

\* path is the main path of a documented structure.
OfPath(path) == path \in Seq(Units) /\ IsInjective(path) /\ MainPath(path)

\* What hangs on the main path: output terminals and branches.
Leaves(path) == OutputTerminals \cup (Units \ ToSet(path))

\* The scan is at level k of the path: above it at the output terminal, below at the
\* only input terminal.
Above(path, k) == IF k = Len(path) THEN term ELSE path[k + 1]
\* Where the scan is, and the entity that it came from.
Standing(path, k) ==
  \/ k = Len(path) + 1 /\ entity = term /\ prev = 0
  \/ k \in DOMAIN path /\ entity = path[k] /\ prev = Above(path, k)
  \/ /\ k = 0 /\ Inputs = {entity} /\ prev = Above(path, 0)
     /\ path = <<>> \/ ~Selector(path[1])

\* What is linked: the levels that the scan has been at, the inputs of the pins it has
\* looked at, and what hangs on either.
LevelsMarked(path, k) ==
  \A j \in DOMAIN path : path[j] \in linked <=> j > k \/ (j = k /\ Placed)
\* The inputs: the only one at the end of the path, or those of the pins so far.
InputsMarked(k) ==
  \A i \in Inputs : i \in linked <=> \/ k = 0 /\ Placed
                                     \/ \E q \in 1 .. pin : i = EntityById(Sources(entity)[q])
\* The forward scan at p has yet to come to i.
Ahead(i, p) == pc = "forward" /\ p = at /\ i > forward
\* What hangs on an entity is linked with it, once the forward scan of it has come by.
LeavesMarked(path) ==
  \A i \in Leaves(path) :
    i \in linked <=> \/ i = term /\ ~(pc = "entity" /\ entity = term)
                     \/ \E p \in linked : p \in SourceEntities(i) /\ ~Ahead(i, p)
\* All that the scan is to find; the privacy GPIO is added at the end.
Whole == OutputTerminals \cup Units \cup Inputs
\* The first chain is being built, and the scan is at some level of the path.
Walking(path) ==
  /\ chains = <<>> /\ term \in OutputTerminals /\ linked = ToSet(chain)
  /\ \E k \in 0 .. Len(path) + 1 : Standing(path, k) /\ LevelsMarked(path, k) /\ InputsMarked(k)
  /\ LeavesMarked(path)
  /\ pc = "forward" /\ pin > 0 => at = EntityById(Sources(entity)[pin])
\* No scan has begun, or the first has found everything.
Walked ==
  \/ chains = <<>> /\ linked = {} /\ term = 0
  \/ Len(chains) = 1 /\ ToSet(chains[1]) = Whole /\ linked = Whole
\* The scan of a device whose main path is path.
Walk(path) == (Scanning => Walking(path)) /\ (pc = "scan" => Walked)
\* The inductive invariant of documented devices: every main path is walked.
WalkInv ==
  /\ pc \notin {"done", "failed"} /\ Identifiable => \A path : OfPath(path) => Walk(path)
  /\ DocumentedFound

\* The sources of an entity, by its pins.
LEMMA SourcesAre ==
  ASSUME TypeOK, NEW i \in DOMAIN entities
  PROVE  /\ SourceEntities(i) = {EntityById(Sources(i)[k]) : k \in 1 .. Pins(i)}
         /\ Pins(i) = 1 => SourceEntities(i) = {EntityById(Sources(i)[1])}
         /\ Pins(i) = 0 => SourceEntities(i) = {}
<1>1. DOMAIN Sources(i) = 1 .. Pins(i) /\ Pins(i) \in Nat
  BY EntityIs
<1>2. ToSet(Sources(i)) = {Sources(i)[k] : k \in 1 .. Pins(i)}
  BY <1>1 DEF ToSet
<1>3. SourceEntities(i) = {EntityById(Sources(i)[k]) : k \in 1 .. Pins(i)}
  BY <1>2 DEF SourceEntities
<1>4. 1 .. 1 = {1} /\ 1 .. 0 = {}
  OBVIOUS
<1> QED BY <1>3, <1>4

\* To name an identifier is to have its entity as a source.
LEMMA Names ==
  ASSUME TypeOK, WellFormed, Identifiable, NEW i \in DOMAIN entities, NEW x \in DOMAIN entities
  PROVE  entities[x].id \in ToSet(Sources(i)) <=> x \in SourceEntities(i)
<1>1. EntityById(entities[x].id) = x
  BY ByOwnId DEF Identifiable
<1>2. 0 \notin DOMAIN entities
  BY EntityIs
<1>3. ASSUME NEW id \in ToSet(Sources(i)), EntityById(id) = x PROVE entities[x].id = id
  BY <1>2, <1>3, ById
<1> QED BY <1>1, <1>3 DEF SourceEntities

\* Each entity of a documented structure.
LEMMA Kinds ==
  ASSUME TypeOK, NEW i \in DOMAIN entities
  PROVE  /\ i \in OutputTerminals <=> Type(i) = "OT"
         /\ i \in Units <=> Type(i) \in {"PU", "XU", "SU"}
         /\ i \in Inputs <=> Type(i) \in {"IT", "EXT"}
         /\ i \in OfType({"GPIO"}) <=> Type(i) = "GPIO"
         /\ i \in OutputTerminals \cup Units \cup Inputs \cup OfType({"GPIO"})
<1>1. Type(i) \in Types
  BY EntityIs
<1> QED BY <1>1 DEF OutputTerminals, Units, Inputs, OfType, Types

\* Terminals and units are entities.
LEMMA KindsAre ==
  /\ OutputTerminals \subseteq DOMAIN entities
  /\ Units \subseteq DOMAIN entities /\ Inputs \subseteq DOMAIN entities
BY DEF OutputTerminals, Units, Inputs, OfType

\* A set that n pins name without repetition: each pin names another entity.
LEMMA PinsDiffer ==
  ASSUME TypeOK, NEW i \in DOMAIN entities, Pins(i) = Cardinality(SourceEntities(i)),
         NEW q \in 1 .. Pins(i), NEW r \in 1 .. Pins(i),
         EntityById(Sources(i)[q]) = EntityById(Sources(i)[r])
  PROVE  q = r
<1> DEFINE f == [k \in 1 .. Pins(i) |-> EntityById(Sources(i)[k])]
<1>1. Pins(i) \in Nat
  BY EntityIs
<1>2. SourceEntities(i) = {EntityById(Sources(i)[k]) : k \in 1 .. Pins(i)}
  BY SourcesAre
<1>3. f \in Surjection(1 .. Pins(i), SourceEntities(i))
  BY <1>2 DEF Surjection
<1>4. IsFiniteSet(1 .. Pins(i)) /\ Cardinality(1 .. Pins(i)) = Pins(i)
  BY <1>1, FS_Interval
<1>5. f \in Injection(1 .. Pins(i), SourceEntities(i))
  <2> HIDE DEF f
  <2> QED BY <1>3, <1>4, FS_SurjSameCardinalityImpliesInj
<1>6. f[q] = f[r]
  OBVIOUS
<1>7. \A a, b \in 1 .. Pins(i) : f[a] = f[b] => a = b
  BY <1>5 DEF Injection, IsInjective
<1> QED BY <1>6, <1>7

\* The main path of a documented structure.
LEMMA PathIs ==
  ASSUME TypeOK, WellFormed, NEW path, OfPath(path)
  PROVE  /\ Len(path) \in Nat /\ DOMAIN path = 1 .. Len(path)
         /\ \A k \in DOMAIN path :
              /\ path[k] \in Units /\ path[k] \in DOMAIN entities /\ path[k] \in ToSet(path)
              /\ SourceEntities(path[k]) = IF k = 1 THEN Inputs ELSE {path[k - 1]}
              /\ Type(path[k]) \in {"PU", "XU", "SU"}
              /\ Type(path[k]) = "XU" => Pins(path[k]) = 1
              /\ k # 1 => Pins(path[k]) = 1
         /\ \A t \in OutputTerminals : /\ Pins(t) = 1
                                       /\ SourceEntities(t) = IF path = <<>> THEN Inputs ELSE {path[Len(path)]}
         /\ \A i \in DOMAIN entities : i \in Units /\ i \notin ToSet(path) =>
              /\ Type(i) = "XU" /\ Pins(i) = 1
              /\ SourceEntities(i) \subseteq ToSet(path) \cup Inputs
<1>1. path \in Seq(Units) /\ IsInjective(path) /\ MainPath(path)
  BY DEF OfPath
<1>2. Len(path) \in Nat /\ DOMAIN path = 1 .. Len(path)
  BY <1>1
<1>3. ASSUME NEW k \in DOMAIN path
      PROVE  /\ path[k] \in Units /\ path[k] \in DOMAIN entities /\ path[k] \in ToSet(path)
             /\ SourceEntities(path[k]) = IF k = 1 THEN Inputs ELSE {path[k - 1]}
             /\ Type(path[k]) \in {"PU", "XU", "SU"}
             /\ Type(path[k]) = "XU" => Pins(path[k]) = 1
             /\ k # 1 => Pins(path[k]) = 1
  <2>1. path[k] \in Units /\ path[k] \in ToSet(path)
    BY <1>1, <1>2 DEF ToSet
  <2>2. path[k] \in DOMAIN entities
    BY <2>1, KindsAre
  <2>3. Type(path[k]) \in {"PU", "XU", "SU"}
    BY <2>1, <2>2, Kinds
  <2>4. /\ SourceEntities(path[k]) = IF k = 1 THEN Inputs ELSE {path[k - 1]}
        /\ Pins(path[k]) = Cardinality(SourceEntities(path[k]))
        /\ Type(path[k]) = "XU" => Pins(path[k]) = 1
    BY <1>1 DEF MainPath
  <2>5. k # 1 => Pins(path[k]) = 1
    BY <2>4, FS_Singleton
  <2> QED BY <2>1, <2>2, <2>3, <2>4, <2>5
<1>4. ASSUME NEW t \in OutputTerminals
      PROVE  /\ Pins(t) = 1
             /\ SourceEntities(t) = IF path = <<>> THEN Inputs ELSE {path[Len(path)]}
  <2>1. t \in DOMAIN entities /\ Type(t) = "OT"
    BY KindsAre, Kinds
  <2> QED BY <1>1, <2>1 DEF MainPath, WellFormed
<1>5. ASSUME NEW i \in DOMAIN entities, i \in Units, i \notin ToSet(path)
      PROVE  /\ Type(i) = "XU" /\ Pins(i) = 1
             /\ SourceEntities(i) \subseteq ToSet(path) \cup Inputs
  BY <1>1, <1>5 DEF MainPath
<1> QED BY <1>2, <1>3, <1>4, <1>5

\* An entity of one pin has one source.
LEMMA OneSource ==
  ASSUME TypeOK, NEW i \in DOMAIN entities, Pins(i) = 1
  PROVE  SourceEntities(i) = {EntityById(Sources(i)[1])}
BY SourcesAre

\* What hangs on the main path has one source, on it.
LEMMA LeafIs ==
  ASSUME TypeOK, WellFormed, NEW path, OfPath(path), NEW i \in Leaves(path)
  PROVE  /\ i \in DOMAIN entities /\ i \notin ToSet(path) /\ i \notin Inputs
         /\ Type(i) \in {"OT", "XU"} /\ Pins(i) = 1
         /\ \E p \in ToSet(path) \cup Inputs : SourceEntities(i) = {p}
<1>1. CASE i \in OutputTerminals
  <2>1. i \in DOMAIN entities /\ Type(i) = "OT"
    BY <1>1, KindsAre, Kinds
  <2>2. i \notin Units /\ i \notin Inputs
    BY <2>1, Kinds
  <2>3. i \notin ToSet(path)
    BY <2>2, PathIs DEF ToSet
  <2>4. Pins(i) = 1 /\ SourceEntities(i) = IF path = <<>> THEN Inputs ELSE {path[Len(path)]}
    BY <1>1, PathIs
  <2>5. SourceEntities(i) = {EntityById(Sources(i)[1])}
    BY <2>1, <2>4, OneSource
  <2>6. CASE path = <<>>
    BY <2>1, <2>2, <2>3, <2>4, <2>5, <2>6
  <2>7. CASE path # <<>>
    <3>1. path \in Seq(Units)
      BY DEF OfPath
    <3>2. Len(path) \in DOMAIN path
      BY <2>7, <3>1
    <3>3. path[Len(path)] \in ToSet(path)
      BY <3>2 DEF ToSet
    <3> QED BY <2>1, <2>2, <2>3, <2>4, <2>7, <3>3
  <2> QED BY <2>6, <2>7
<1>2. CASE i \in Units \ ToSet(path)
  <2>1. i \in DOMAIN entities
    BY <1>2, KindsAre
  <2>2. Type(i) = "XU" /\ Pins(i) = 1 /\ SourceEntities(i) \subseteq ToSet(path) \cup Inputs
    BY <1>2, <2>1, PathIs
  <2>3. SourceEntities(i) = {EntityById(Sources(i)[1])}
    BY <2>1, <2>2, OneSource
  <2>4. i \notin Inputs
    BY <2>1, <2>2, Kinds
  <2> QED BY <1>2, <2>1, <2>2, <2>3, <2>4
<1> QED BY <1>1, <1>2 DEF Leaves

\* Who names an entity: what hangs on it, or the unit above it.
LEMMA WhoNames ==
  ASSUME TypeOK, WellFormed, NEW path, OfPath(path), NEW i \in DOMAIN entities,
         NEW x \in SourceEntities(i)
  PROVE  \/ i \in Leaves(path)
         \/ \E k \in DOMAIN path : i = path[k] /\ IF k = 1 THEN x \in Inputs ELSE x = path[k - 1]
<1>1. i \in OutputTerminals \cup Units
  <2>1. Pins(i) # 0
    BY SourcesAre
  <2>2. Sources(i) # <<>>
    BY <2>1 DEF Pins
  <2>3. Type(i) \notin InputTypes
    BY <2>2 DEF WellFormed
  <2> QED BY <2>3, Kinds DEF InputTypes
<1>2. CASE i \in ToSet(path)
  <2>1. PICK k \in DOMAIN path : i = path[k]
    BY <1>2 DEF ToSet
  <2>2. SourceEntities(path[k]) = IF k = 1 THEN Inputs ELSE {path[k - 1]}
    BY <2>1, PathIs
  <2> QED BY <2>1, <2>2
<1> QED BY <1>1, <1>2 DEF Leaves

\* Without a selector unit there is one input terminal.
LEMMA OneInput ==
  ASSUME TypeOK, WellFormed, NEW path, OfPath(path), path = <<>> \/ ~Selector(path[1])
  PROVE  \E i \in DOMAIN entities : Inputs = {i} /\ Type(i) = "IT"
<1>1. MainPath(path) /\ path \in Seq(Units)
  BY DEF OfPath
<1>2. OfType({"EXT"}) = {} /\ Inputs # {} /\ OutputTerminals # {}
  BY <1>1 DEF MainPath
<1>3. \E i : Inputs = {i}
  <2>1. CASE path = <<>>
    <3>1. PICK t \in OutputTerminals : TRUE
      BY <1>2
    <3>2. t \in DOMAIN entities /\ Pins(t) = 1 /\ SourceEntities(t) = Inputs
      BY <2>1, <3>1, KindsAre, PathIs
    <3> QED BY <3>2, OneSource
  <2>2. CASE path # <<>>
    <3>1. 1 \in DOMAIN path
      BY <2>2, <1>1
    <3>2. /\ path[1] \in DOMAIN entities /\ SourceEntities(path[1]) = Inputs
          /\ Type(path[1]) \in {"PU", "XU", "SU"}
          /\ Type(path[1]) = "XU" => Pins(path[1]) = 1
      BY <3>1, PathIs
    <3>3. Pins(path[1]) = 1
      <4>1. Type(path[1]) = "PU" => Pins(path[1]) = 1
        BY <3>2 DEF WellFormed
      <4>2. ~Selector(path[1])
        BY <2>2
      <4> QED BY <3>2, <4>1, <4>2 DEF Selector
    <3>4. SourceEntities(path[1]) = {EntityById(Sources(path[1])[1])}
      BY <3>2, <3>3, OneSource
    <3> QED BY <3>2, <3>4
  <2> QED BY <2>1, <2>2
<1>4. PICK i : Inputs = {i}
  BY <1>3
<1>5. i \in DOMAIN entities
  BY <1>4, KindsAre
<1>6. Type(i) \in {"IT", "EXT"}
  BY <1>4, <1>5, Kinds
<1>7. Type(i) # "EXT"
  BY <1>2, <1>5 DEF OfType
<1> QED BY <1>4, <1>5, <1>6, <1>7

\* The inputs of a selector unit.
LEMMA SelectorIs ==
  ASSUME TypeOK, WellFormed, NEW path, OfPath(path), NEW k \in DOMAIN path, Selector(path[k])
  PROVE  /\ k = 1
         /\ \A q \in 1 .. Pins(path[1]) : EntityById(Sources(path[1])[q]) \in Inputs
         /\ \A q, r \in 1 .. Pins(path[1]) :
              EntityById(Sources(path[1])[q]) = EntityById(Sources(path[1])[r]) => q = r
         /\ \A i \in Inputs : \E q \in 1 .. Pins(path[1]) : i = EntityById(Sources(path[1])[q])
<1>1. k = 1
  BY PathIs DEF Selector
<1>2. path[1] \in DOMAIN entities /\ SourceEntities(path[1]) = Inputs
  BY <1>1, PathIs
<1>3. SourceEntities(path[1]) = {EntityById(Sources(path[1])[q]) : q \in 1 .. Pins(path[1])}
  BY <1>2, SourcesAre
<1>4. Pins(path[1]) = Cardinality(SourceEntities(path[1]))
  BY <1>1 DEF OfPath, MainPath
<1>5. \A q, r \in 1 .. Pins(path[1]) :
        EntityById(Sources(path[1])[q]) = EntityById(Sources(path[1])[r]) => q = r
  BY <1>2, <1>4, PinsDiffer
<1> QED BY <1>1, <1>2, <1>3, <1>5

\* There is one processing unit on the path at most.
LEMMA OneProcessing ==
  ASSUME TypeOK, WellFormed, NEW path, OfPath(path), NEW j \in DOMAIN path, NEW k \in DOMAIN path,
         Type(path[j]) = "PU", Type(path[k]) = "PU"
  PROVE  j = k
<1> DEFINE S == {m \in DOMAIN path : Type(path[m]) = "PU"}
<1>1. Cardinality(S) <= 1
  BY DEF OfPath, MainPath
<1>2. Len(path) \in Nat /\ DOMAIN path = 1 .. Len(path)
  BY PathIs
<1>3. IsFiniteSet(S)
  <2>1. IsFiniteSet(1 .. Len(path))
    BY <1>2, FS_Interval
  <2> QED BY <2>1, <1>2, FS_Subset
<1>4. Cardinality(S) \in Nat
  BY <1>3, FS_CardinalityType
<1>5. j \in S /\ k \in S
  OBVIOUS
<1> HIDE DEF S
<1>6. Cardinality(S) = 0 \/ Cardinality(S) = 1
  BY <1>1, <1>4
<1> QED BY <1>3, <1>5, <1>6, FS_Singleton, FS_EmptySet

\* The structure stays when the entities do.
LEMMA SamePath ==
  ASSUME UNCHANGED entities
  PROVE  /\ Inputs' = Inputs /\ Units' = Units /\ OutputTerminals' = OutputTerminals /\ Whole' = Whole
         /\ \A i : SourceEntities(i)' = SourceEntities(i)
         /\ \A path : OfPath(path)' = OfPath(path) /\ Leaves(path)' = Leaves(path)
         /\ Documented' = Documented
<1>1. /\ \A i : Type(i)' = Type(i) /\ Sources(i)' = Sources(i) /\ Pins(i)' = Pins(i)
                /\ Selector(i)' = Selector(i)
      /\ \A id : EntityById(id)' = EntityById(id)
      /\ Identifiable' = Identifiable
  BY Same
<1>2. \A types : OfType(types)' = OfType(types)
  BY <1>1 DEF OfType
<1>3. Inputs' = Inputs /\ Units' = Units /\ OutputTerminals' = OutputTerminals
  BY <1>2 DEF Inputs, Units, OutputTerminals
<1>4. \A i : SourceEntities(i)' = SourceEntities(i)
  BY <1>1 DEF SourceEntities
<1>5. \A path : MainPath(path)' = MainPath(path)
  BY <1>1, <1>2, <1>3, <1>4 DEF MainPath
<1>6. \A path : OfPath(path)' = OfPath(path) /\ Leaves(path)' = Leaves(path)
  BY <1>3, <1>5 DEF OfPath, Leaves
<1>7. Documented' = Documented
  BY <1>1, <1>3, <1>5 DEF Documented
<1> QED BY <1>3, <1>4, <1>6, <1>7 DEF Whole

\* A scan begins at the first output terminal.
LEMMA WalkStarts ==
  ASSUME ChainInv, NEW path, OfPath(path), Walk(path), StartChain
  PROVE  Walk(path)'
<1>1. /\ pc = "scan" /\ Unscanned # {} /\ TypeOK /\ WellFormed
      /\ term' = Min(Unscanned) /\ entity' = term' /\ prev' = 0 /\ chain' = <<>> /\ pc' = "entity"
      /\ UNCHANGED <<entities, pin, at, forward, linked, chains>>
  BY DEF StartChain, ChainInv
<1>2. Len(path) \in Nat /\ DOMAIN path = 1 .. Len(path)
  BY <1>1, PathIs
<1>3. Min(Unscanned) \in Unscanned
  <2>1. Unscanned \in SUBSET Nat
    BY <1>1, EntityIs DEF Unscanned
  <2> QED BY <1>1, <2>1, MinIs
<1>4. term' \in OutputTerminals /\ term' \notin linked
  BY <1>1, <1>3 DEF Unscanned, OutputTerminals, OfType, InChain
<1>5. chains = <<>> /\ linked = {}
  <2>1. linked # Whole
    BY <1>4 DEF Whole
  <2> QED BY <1>1, <2>1 DEF Walk, Walked
<1>6. pin = 0
  BY <1>1 DEF ChainInv, Cursor, Scanning
<1>7. linked' = ToSet(chain') /\ linked' = {}
  BY <1>1, <1>5, EmptyList
<1>8. Len(path) + 1 \in 0 .. Len(path) + 1 /\ Len(path) + 1 # 0
  BY <1>2
<1>9. Standing(path, Len(path) + 1)'
  BY <1>1 DEF Standing
<1>10. LevelsMarked(path, Len(path) + 1)'
  BY <1>1, <1>2, <1>7 DEF LevelsMarked, Placed
<1>11. InputsMarked(Len(path) + 1)'
  BY <1>1, <1>6, <1>7, <1>8 DEF InputsMarked
<1>12. LeavesMarked(path)'
  BY <1>1, <1>7 DEF LeavesMarked
<1>13. Walking(path)'
  BY <1>1, <1>4, <1>5, <1>7, <1>8, <1>9, <1>10, <1>11, <1>12, SamePath DEF Walking
<1> QED BY <1>1, <1>13 DEF Walk

\* What Walking says of the place of the scan.
LEMMA PlaceIs ==
  ASSUME ChainInv, NEW path, OfPath(path), Walking(path), Scanning
  PROVE  /\ term \in DOMAIN entities /\ Type(term) = "OT" /\ term \in Leaves(path)
         /\ entity \in DOMAIN entities
         /\ Len(path) \in Nat /\ DOMAIN path = 1 .. Len(path)
         /\ \E k \in 0 .. Len(path) + 1 :
              /\ Standing(path, k) /\ LevelsMarked(path, k) /\ InputsMarked(k)
              /\ k = Len(path) + 1 => entity = term /\ prev = 0
              /\ k \in DOMAIN path => entity = path[k] /\ prev = Above(path, k) /\ entity \in ToSet(path)
              /\ k = 0 => /\ Inputs = {entity} /\ prev = Above(path, 0) /\ Type(entity) = "IT"
                          /\ path = <<>> \/ ~Selector(path[1])
              /\ k \in DOMAIN path \/ k = 0 \/ k = Len(path) + 1
<1>1. TypeOK /\ WellFormed /\ Cursor
  BY DEF ChainInv
<1>2. Len(path) \in Nat /\ DOMAIN path = 1 .. Len(path)
  BY <1>1, PathIs
<1>3. term \in OutputTerminals
  BY DEF Walking
<1>4. term \in DOMAIN entities /\ Type(term) = "OT" /\ term \in Leaves(path)
  BY <1>1, <1>3, Kinds, KindsAre DEF Leaves
<1>5. PICK k \in 0 .. Len(path) + 1 : Standing(path, k) /\ LevelsMarked(path, k) /\ InputsMarked(k)
  BY DEF Walking
<1>6. k = Len(path) + 1 => entity = term /\ prev = 0
  BY <1>2, <1>5 DEF Standing
<1>7. k \in DOMAIN path => entity = path[k] /\ prev = Above(path, k) /\ entity \in ToSet(path)
  BY <1>2, <1>5 DEF Standing, ToSet
<1>8. k = 0 => Inputs = {entity} /\ prev = Above(path, 0) /\ (path = <<>> \/ ~Selector(path[1]))
  BY <1>2, <1>5 DEF Standing
<1>9. k = 0 => Type(entity) = "IT"
  BY <1>1, <1>8, OneInput
<1>10. k \in DOMAIN path \/ k = 0 \/ k = Len(path) + 1
  BY <1>2
<1>11. entity \in DOMAIN entities
  BY <1>1 DEF Cursor
<1> QED BY <1>2, <1>4, <1>5, <1>6, <1>7, <1>8, <1>9, <1>10, <1>11

\* Terminals, the main path and what hangs on it are disjoint.
LEMMA Apart ==
  ASSUME TypeOK, WellFormed, NEW path, OfPath(path)
  PROVE  /\ \A k \in DOMAIN path : path[k] \notin Inputs /\ path[k] \notin Leaves(path)
         /\ \A i \in Inputs : i \notin ToSet(path) /\ i \notin Leaves(path) /\ i \in DOMAIN entities
         /\ \A j, k \in DOMAIN path : path[j] = path[k] => j = k
<1>1. \A k \in DOMAIN path : path[k] \in Units /\ path[k] \in DOMAIN entities /\ path[k] \in ToSet(path)
  BY PathIs
<1>2. \A k \in DOMAIN path : path[k] \notin Inputs
  BY <1>1, Kinds
<1>3. \A k \in DOMAIN path : path[k] \notin Leaves(path)
  BY <1>1, LeafIs
<1>4. ToSet(path) = {path[k] : k \in DOMAIN path}
  BY DEF ToSet
<1>5. \A i \in Inputs : i \notin ToSet(path) /\ i \notin Leaves(path) /\ i \in DOMAIN entities
  BY <1>2, <1>4, LeafIs, KindsAre
<1>6. \A j, k \in DOMAIN path : path[j] = path[k] => j = k
  BY DEF OfPath, IsInjective
<1> QED BY <1>2, <1>3, <1>5, <1>6

\* The entity is linked.
LEMMA WalkScans ==
  ASSUME ChainInv, Identifiable, NEW path, OfPath(path), Walking(path), ScanEntity
  PROVE  Walking(path)'
<1>1. /\ pc = "entity" /\ ~InChain(entity) /\ Link(entity)
      /\ at' = entity /\ forward' = 0 /\ pc' = "forward"
      /\ UNCHANGED <<entities, term, entity, prev, pin, chains>>
  BY DEF ScanEntity
<1>2. TypeOK /\ WellFormed /\ Scanning /\ pin = 0
  BY <1>1 DEF ChainInv, Cursor, Scanning
<1>3. entity \notin linked /\ linked' = linked \cup {entity} /\ chain' = Append(chain, entity)
  BY <1>1 DEF Link, InChain
<1>4. PICK k \in 0 .. Len(path) + 1 :
        /\ Standing(path, k) /\ LevelsMarked(path, k) /\ InputsMarked(k)
        /\ k = Len(path) + 1 => entity = term /\ prev = 0
        /\ k \in DOMAIN path => entity = path[k] /\ prev = Above(path, k) /\ entity \in ToSet(path)
        /\ k = 0 => /\ Inputs = {entity} /\ prev = Above(path, 0) /\ Type(entity) = "IT"
                    /\ path = <<>> \/ ~Selector(path[1])
        /\ k \in DOMAIN path \/ k = 0 \/ k = Len(path) + 1
  BY <1>2, PlaceIs
<1>5. Len(path) \in Nat /\ DOMAIN path = 1 .. Len(path)
  BY <1>2, PlaceIs
<1>6. term \in Leaves(path)
  BY <1>2, PlaceIs
<1>7. linked' = ToSet(chain')
  <2>1. chain \in Seq(Positions)
    BY <1>2 DEF TypeOK
  <2>2. linked = ToSet(chain)
    BY DEF Walking
  <2> QED BY <1>3, <2>1, <2>2, Appended
<1>8. Standing(path, k)'
  BY <1>1, <1>4, Same, SamePath DEF Standing, Above
<1>9. LevelsMarked(path, k)'
  <2> SUFFICES ASSUME NEW j \in DOMAIN path
               PROVE  path[j] \in linked' <=> j > k \/ j = k
    BY <1>1 DEF LevelsMarked, Placed
  <2>1. path[j] \in linked <=> j > k
    BY <1>1, <1>4 DEF LevelsMarked, Placed
  <2>2. path[j] = entity <=> j = k
    <3>1. CASE k \in DOMAIN path
      BY <3>1, <1>2, <1>4, Apart
    <3>2. CASE k \notin DOMAIN path
      <4>1. entity \in Inputs \/ entity \in Leaves(path)
        BY <3>2, <1>4, <1>6
      <4> QED BY <4>1, <3>2, <1>2, Apart
    <3> QED BY <3>1, <3>2
  <2> QED BY <2>1, <2>2, <1>3
<1>10. InputsMarked(k)'
  <2> SUFFICES ASSUME NEW i \in Inputs PROVE i \in linked' <=> k = 0
    BY <1>1, <1>2, SamePath DEF InputsMarked, Placed
  <2>1. i \notin linked
    BY <1>1, <1>2, <1>4 DEF InputsMarked, Placed
  <2>2. i = entity <=> k = 0
    <3>1. k = 0 => i = entity
      BY <1>4
    <3>2. k # 0 => entity \in ToSet(path) \/ entity \in Leaves(path)
      BY <1>4, <1>6
    <3>3. i \notin ToSet(path) /\ i \notin Leaves(path)
      BY <1>2, Apart
    <3> QED BY <3>1, <3>2, <3>3
  <2> QED BY <2>1, <2>2, <1>3
<1>11. LeavesMarked(path)'
  <2> SUFFICES ASSUME NEW i \in Leaves(path)
               PROVE  i \in linked' <=> i = term \/ \E p \in linked' : p \in SourceEntities(i) /\ ~(p = entity /\ i > 0)
    BY <1>1, SamePath DEF LeavesMarked, Ahead
  <2>1. i \in linked <=> (i = term /\ entity # term) \/ \E p \in linked : p \in SourceEntities(i)
    BY <1>1 DEF LeavesMarked, Ahead, Walking
  <2>2. i > 0
    BY <1>2, LeafIs, EntityIs
  <2>3. i = entity <=> i = term /\ entity = term
    <3>1. entity # term => entity \in ToSet(path) \/ entity \in Inputs
      BY <1>4
    <3>2. i \notin ToSet(path) /\ i \notin Inputs
      BY <1>2, LeafIs
    <3> QED BY <3>1, <3>2
  <2>4. (\E p \in linked' : p \in SourceEntities(i) /\ ~(p = entity /\ i > 0))
           <=> \E p \in linked : p \in SourceEntities(i)
    BY <1>3, <2>2
  <2> QED BY <2>1, <2>3, <2>4, <1>3
<1>12. chains' = <<>> /\ term' \in OutputTerminals'
  BY <1>1, SamePath DEF Walking
<1>13. pin' = 0
  BY <1>1, <1>2
<1> QED BY <1>7, <1>8, <1>9, <1>10, <1>11, <1>12, <1>13 DEF Walking

\* It is never refused.
LEMMA WalkAccepts ==
  ASSUME ChainInv, Identifiable, NEW path, OfPath(path), Walking(path), pc = "entity"
  PROVE  ~InChain(entity) /\ Acceptable(entity, chain)
<1>1. TypeOK /\ WellFormed /\ Scanning /\ pin = 0 /\ ~Placed
  BY DEF ChainInv, Cursor, Scanning, Placed
<1>2. PICK k \in 0 .. Len(path) + 1 :
        /\ Standing(path, k) /\ LevelsMarked(path, k) /\ InputsMarked(k)
        /\ k = Len(path) + 1 => entity = term /\ prev = 0
        /\ k \in DOMAIN path => entity = path[k] /\ prev = Above(path, k) /\ entity \in ToSet(path)
        /\ k = 0 => /\ Inputs = {entity} /\ prev = Above(path, 0) /\ Type(entity) = "IT"
                    /\ path = <<>> \/ ~Selector(path[1])
        /\ k \in DOMAIN path \/ k = 0 \/ k = Len(path) + 1
  BY <1>1, PlaceIs
<1>3. /\ Len(path) \in Nat /\ DOMAIN path = 1 .. Len(path)
      /\ term \in Leaves(path) /\ Type(term) = "OT" /\ entity \in DOMAIN entities
  BY <1>1, PlaceIs
<1>4. \A j \in DOMAIN path : path[j] \in linked <=> j > k
  BY <1>1, <1>2 DEF LevelsMarked
<1>5. \A i \in Inputs : i \in linked <=> FALSE
  BY <1>1, <1>2 DEF InputsMarked
<1>6. entity \notin linked
  <2>1. CASE k = Len(path) + 1
    <3>1. \A j \in DOMAIN path : path[j] \notin linked
      BY <1>3, <1>4, <2>1
    <3>2. \A p \in ToSet(path) \cup Inputs : p \notin linked
      BY <3>1, <1>5 DEF ToSet
    <3>3. \E p \in ToSet(path) \cup Inputs : SourceEntities(term) = {p}
      BY <1>1, <1>3, LeafIs
    <3>4. term \in linked <=> \E p \in linked : p \in SourceEntities(term) /\ ~Ahead(term, p)
      BY <1>2, <1>3, <2>1 DEF Walking, LeavesMarked
    <3> QED BY <1>2, <2>1, <3>2, <3>3, <3>4
  <2>2. CASE k \in DOMAIN path
    BY <1>2, <1>3, <1>4, <2>2
  <2>3. CASE k = 0
    BY <1>2, <1>5, <2>3
  <2> QED BY <1>2, <2>1, <2>2, <2>3
<1>7. ASSUME NEW f \in ToSet(chain), Type(f) \in {"PU", "SU"}
      PROVE  \E j \in DOMAIN path : f = path[j] /\ f \in linked
  <2>1. f \in linked
    BY <1>7 DEF Walking
  <2>2. f \in DOMAIN entities
    BY <2>1 DEF ChainInv, Marked
  <2>3. f \in Units
    BY <1>1, <1>7, <2>2, Kinds
  <2>4. f \in ToSet(path)
    BY <1>1, <1>7, <2>2, <2>3, PathIs
  <2> QED BY <2>1, <2>4 DEF ToSet
<1>8. CASE k \notin DOMAIN path
  <2>1. Type(entity) = "OT" \/ Type(entity) = "IT"
    BY <1>2, <1>3, <1>8
  <2> QED BY <1>6, <2>1 DEF Acceptable, Selector, InChain
<1>9. CASE k \in DOMAIN path
  <2>1. /\ entity = path[k] /\ Type(entity) \in {"PU", "XU", "SU"}
        /\ Type(entity) = "XU" => Pins(entity) = 1
    BY <1>1, <1>2, <1>9, PathIs
  <2>2. ASSUME Type(entity) = "PU", NEW f \in ToSet(chain), Type(f) = "PU" PROVE FALSE
    <3>1. PICK j \in DOMAIN path : f = path[j] /\ f \in linked
      BY <1>7, <2>2
    <3>2. j = k
      BY <1>1, <1>9, <2>1, <2>2, <3>1, OneProcessing
    <3> QED BY <1>6, <2>1, <3>1, <3>2
  <2>3. ASSUME Selector(entity), NEW f \in ToSet(chain), Selector(f) PROVE FALSE
    <3>1. PICK j \in DOMAIN path : f = path[j] /\ f \in linked
      BY <1>7, <2>3 DEF Selector
    <3>2. j = 1 /\ k = 1
      BY <1>1, <1>9, <2>1, <2>3, <3>1, SelectorIs
    <3> QED BY <1>6, <2>1, <3>1, <3>2
  <2> QED BY <1>6, <2>1, <2>2, <2>3 DEF Acceptable, InChain
<1> QED BY <1>8, <1>9

\* The levels of a path of n units: 0 below it, n + 1 above it.
LEMMA Between ==
  ASSUME NEW n \in Nat, NEW k \in 0 .. n + 1
  PROVE  /\ k # n + 1 /\ k # n => k + 1 \in 1 .. n
         /\ k + 1 \in 1 .. n => k # n
         /\ k \in 1 .. n /\ k # 1 => k - 1 \in 1 .. n
OBVIOUS

\* Where the scan does not come from hangs nothing but its output terminal.
LEMMA FromIs ==
  ASSUME ChainInv, Identifiable, NEW path, OfPath(path), Walking(path), pc = "forward",
         NEW i \in Leaves(path), i = From
  PROVE  i = term
<1>1. TypeOK /\ WellFormed /\ Scanning
  BY DEF ChainInv, Scanning
<1>2. i \in DOMAIN entities /\ i \notin ToSet(path) /\ Type(i) \in {"OT", "XU"} /\ i # 0
  BY <1>1, LeafIs, EntityIs
<1>3. CASE pin = 0
  <2>1. i = prev
    BY <1>3 DEF From
  <2>2. PICK k \in 0 .. Len(path) + 1 :
          /\ k = Len(path) + 1 => entity = term /\ prev = 0
          /\ k \in DOMAIN path => prev = Above(path, k)
          /\ k = 0 => prev = Above(path, 0)
          /\ k \in DOMAIN path \/ k = 0 \/ k = Len(path) + 1
    BY <1>1, PlaceIs
  <2>3. Len(path) \in Nat /\ DOMAIN path = 1 .. Len(path)
    BY <1>1, PlaceIs
  <2>4. k # Len(path) + 1 /\ prev = Above(path, k)
    BY <1>2, <2>1, <2>2
  <2>5. k # Len(path) => k + 1 \in DOMAIN path
    BY <2>3, <2>4, Between
  <2>6. k # Len(path) => prev \in ToSet(path)
    BY <2>4, <2>5 DEF Above, ToSet
  <2>7. k = Len(path)
    BY <1>2, <2>1, <2>6
  <2> QED BY <2>1, <2>4, <2>7 DEF Above
<1>4. CASE pin # 0
  <2>1. pin > 0
    BY <1>1, <1>4 DEF TypeOK
  <2>2. Selector(entity)
    BY <2>1 DEF ChainInv, Cursor
  <2> QED BY <1>2, <1>4, <2>2 DEF From, Selector
<1> QED BY <1>3, <1>4

\* What hangs on at and is ahead is what refers to it.
LEMMA AheadRefers ==
  ASSUME ChainInv, Identifiable, NEW path, OfPath(path), Walking(path), pc = "forward",
         NEW i \in Leaves(path), i # term, i > forward, at \in SourceEntities(i)
  PROVE  i \in Referring
<1>1. TypeOK /\ WellFormed /\ Scanning /\ Cursor /\ Marked
  BY DEF ChainInv, Scanning
<1>2. i \in DOMAIN entities
  BY <1>1, LeafIs
<1>3. at \in DOMAIN entities
  <2>1. at \in ToSet(chain) /\ ToSet(chain) = linked /\ linked \subseteq DOMAIN entities
    BY <1>1 DEF Cursor, Walking, Marked
  <2> QED BY <2>1
<1>4. entities[at].id \in ToSet(Sources(i))
  BY <1>1, <1>2, <1>3, Names
<1>5. i # From
  BY FromIs
<1> QED BY <1>2, <1>4, <1>5 DEF Referring

\* What refers to at hangs on it, and is in no list yet.
LEMMA RefersHangs ==
  ASSUME ChainInv, Identifiable, NEW path, OfPath(path), Walking(path), pc = "forward",
         NEW e \in Referring
  PROVE  /\ e \in Leaves(path) /\ e # term /\ e \notin linked /\ e > forward
         /\ at \in SourceEntities(e) /\ at \in linked /\ Type(at) # "OT"
<1>1. TypeOK /\ WellFormed /\ Scanning /\ Cursor /\ Marked
  BY DEF ChainInv, Scanning
<1>2. at \in linked /\ at \in DOMAIN entities /\ (pin = 0 => at = entity)
  <2>1. at \in ToSet(chain) /\ ToSet(chain) = linked /\ linked \subseteq DOMAIN entities
    BY <1>1 DEF Cursor, Walking, Marked
  <2> QED BY <1>1, <2>1 DEF Cursor
<1>3. e \in DOMAIN entities /\ e # From /\ e > forward /\ Type(at) # "OT"
  BY <1>1, <1>2, Refers
<1>4. at \in SourceEntities(e)
  <2>1. entities[at].id \in ToSet(Sources(e))
    BY DEF Referring
  <2> QED BY <1>1, <1>2, <1>3, <2>1, Names
<1>5. PICK k \in 0 .. Len(path) + 1 :
        /\ Standing(path, k) /\ LevelsMarked(path, k) /\ InputsMarked(k)
        /\ k = Len(path) + 1 => entity = term /\ prev = 0
        /\ k \in DOMAIN path => entity = path[k] /\ prev = Above(path, k) /\ entity \in ToSet(path)
        /\ k = 0 => /\ Inputs = {entity} /\ prev = Above(path, 0) /\ Type(entity) = "IT"
                    /\ path = <<>> \/ ~Selector(path[1])
        /\ k \in DOMAIN path \/ k = 0 \/ k = Len(path) + 1
  BY <1>1, PlaceIs
<1>6. /\ Len(path) \in Nat /\ DOMAIN path = 1 .. Len(path)
      /\ term \in Leaves(path) /\ term \in DOMAIN entities /\ Type(term) = "OT"
      /\ entity \in DOMAIN entities
  BY <1>1, PlaceIs
\* In the scan of a selector unit at is one of its inputs.
<1>7. ASSUME pin # 0 PROVE e \in Leaves(path) /\ e # term
  <2>1. pin > 0 /\ Selector(entity)
    <3>1. pin > 0
      BY <1>1, <1>7 DEF TypeOK
    <3> QED BY <1>1, <3>1 DEF Cursor
  <2>2. k = 1 /\ 1 \in DOMAIN path /\ entity = path[1]
    <3>1. Type(entity) = "SU"
      BY <2>1 DEF Selector
    <3>2. k \in DOMAIN path
      BY <1>5, <1>6, <3>1
    <3> QED BY <1>1, <1>5, <2>1, <3>2, SelectorIs
  <2>3. at \in Inputs
    <3>1. at = EntityById(Sources(entity)[pin])
      BY <2>1 DEF Walking
    <3>2. pin \in 1 .. Pins(entity)
      <4>1. pin <= Pins(entity) /\ pin \in Nat /\ Pins(entity) \in Nat
        BY <1>1, <1>6, EntityIs DEF Cursor, TypeOK
      <4> QED BY <2>1, <4>1
    <3> QED BY <1>1, <2>1, <2>2, <3>1, <3>2, SelectorIs
  <2>4. e # path[1]
    BY <1>3, <1>7, <2>2 DEF From
  <2>5. e \in Leaves(path)
    <3> SUFFICES ASSUME NEW j \in DOMAIN path, e = path[j], IF j = 1 THEN at \in Inputs ELSE at = path[j - 1]
                 PROVE  FALSE
      BY <1>1, <1>3, <1>4, WhoNames
    <3>1. j # 1
      BY <2>4
    <3>2. j - 1 \in DOMAIN path
      BY <1>6, <3>1
    <3> QED BY <1>1, <2>3, <3>1, <3>2, Apart
  <2>6. e # term
    <3>1. path # <<>>
      BY <2>2
    <3>2. SourceEntities(term) = {path[Len(path)]}
      BY <1>1, <3>1, PathIs DEF Walking
    <3>3. Len(path) \in DOMAIN path
      BY <1>6, <2>2
    <3>4. path[Len(path)] \notin Inputs
      BY <1>1, <3>3, Apart
    <3> QED BY <1>4, <2>3, <3>2, <3>4
  <2> QED BY <2>5, <2>6
<1>8. ASSUME pin = 0 PROVE e \in Leaves(path) /\ e # term
  <2>1. at = entity /\ e # prev
    BY <1>2, <1>3, <1>8 DEF From
  <2>2. k # Len(path) + 1
    BY <1>3, <1>5, <1>6, <2>1
  <2>3. prev = Above(path, k) /\ e # Above(path, k)
    BY <1>5, <2>1, <2>2
  <2>4. e \in Leaves(path)
    <3> SUFFICES ASSUME NEW j \in DOMAIN path, e = path[j], IF j = 1 THEN at \in Inputs ELSE at = path[j - 1]
                 PROVE  FALSE
      BY <1>1, <1>3, <1>4, WhoNames
    <3>1. j = k + 1
      <4>1. CASE j = 1
        <5>1. at \in Inputs
          BY <4>1
        <5>2. k \notin DOMAIN path
          BY <1>1, <1>5, <2>1, <5>1, Apart
        <5> QED BY <1>5, <2>2, <4>1, <5>2
      <4>2. CASE j # 1
        <5>1. j - 1 \in DOMAIN path /\ at = path[j - 1]
          BY <1>6, <4>2
        <5>2. k \in DOMAIN path
          <6>1. path[j - 1] \notin Inputs
            BY <1>1, <5>1, Apart
          <6> QED BY <1>5, <2>1, <2>2, <5>1, <6>1
        <5>3. path[k] = path[j - 1]
          BY <1>5, <2>1, <5>1, <5>2
        <5>4. k = j - 1
          BY <1>1, <5>1, <5>2, <5>3, Apart
        <5> QED BY <1>6, <5>4
      <4> QED BY <4>1, <4>2
    <3>2. k # Len(path) /\ Above(path, k) = path[k + 1]
      <4>1. k # Len(path)
        BY <1>6, <3>1, Between
      <4> QED BY <4>1 DEF Above
    <3> QED BY <2>3, <3>1, <3>2
  <2>5. e # term
    <3> SUFFICES ASSUME e = term PROVE FALSE
      OBVIOUS
    <3>1. SourceEntities(term) = IF path = <<>> THEN Inputs ELSE {path[Len(path)]}
      BY <1>1, PathIs DEF Walking
    <3>2. k = Len(path)
      <4>1. CASE path = <<>>
        <5>1. Len(path) = 0
          BY <4>1
        <5> QED BY <1>5, <1>6, <2>2, <5>1
      <4>2. CASE path # <<>>
        <5>1. Len(path) \in DOMAIN path
          <6>1. path \in Seq(Units)
            BY DEF OfPath
          <6> QED BY <4>2, <6>1
        <5>2. at = path[Len(path)]
          BY <1>4, <3>1, <4>2
        <5>3. k \in DOMAIN path
          <6>1. path[Len(path)] \notin Inputs
            BY <1>1, <5>1, Apart
          <6> QED BY <1>5, <2>1, <2>2, <5>2, <6>1
        <5>4. path[k] = path[Len(path)]
          BY <1>5, <2>1, <5>2, <5>3
        <5> QED BY <1>1, <5>1, <5>3, <5>4, Apart
      <4> QED BY <4>1, <4>2
    <3>3. Above(path, k) = term
      BY <3>2 DEF Above
    <3> QED BY <2>3, <3>3
  <2> QED BY <2>4, <2>5
<1>9. e \in Leaves(path) /\ e # term
  BY <1>7, <1>8
<1>10. e \notin linked
  <2>1. e \in linked <=> \E p \in linked : p \in SourceEntities(e) /\ ~Ahead(e, p)
    BY <1>9 DEF Walking, LeavesMarked
  <2>2. \A p \in SourceEntities(e) : p = at
    BY <1>1, <1>4, <1>9, LeafIs
  <2> QED BY <1>3, <2>1, <2>2 DEF Ahead
<1> QED BY <1>2, <1>3, <1>4, <1>9, <1>10

\* Nothing moves but pc, from one place of the entity to another.
LEMMA WalkStays ==
  ASSUME NEW path, Walking(path), UNCHANGED <<entities, scan, linked, chains>>,
         Placed, Placed', pc' # "forward", pc # "entity", LeavesMarked(path)'
  PROVE  Walking(path)'
<1>1. PICK k \in 0 .. Len(path) + 1 : Standing(path, k) /\ LevelsMarked(path, k) /\ InputsMarked(k)
  BY DEF Walking
<1>2. UNCHANGED <<entities, linked, chains, chain, term, entity, prev, pin, at, forward>>
  BY DEF scan
<1>3. Standing(path, k)'
  BY <1>1, <1>2, Same, SamePath DEF Standing, Above
<1>4. LevelsMarked(path, k)'
  BY <1>1, <1>2 DEF LevelsMarked
<1>5. InputsMarked(k)'
  BY <1>1, <1>2, Same, SamePath DEF InputsMarked
<1>6. chains' = <<>> /\ term' \in OutputTerminals' /\ linked' = ToSet(chain')
  BY <1>2, SamePath DEF Walking
<1> QED BY <1>3, <1>4, <1>5, <1>6 DEF Walking

\* The forward scan ends: all that hangs on the entity at is linked.
LEMMA WalkForwards ==
  ASSUME ChainInv, Identifiable, NEW path, OfPath(path), Walking(path), ForwardDone
  PROVE  Walking(path)'
<1>1. /\ pc = "forward" /\ Referring = {} /\ AfterForward
      /\ UNCHANGED <<entities, scan, linked, chains>>
  BY DEF ForwardDone
<1>2. pc' \in {"backward", "pins"}
  BY <1>1 DEF AfterForward
<1>3. LeavesMarked(path)'
  <2> SUFFICES ASSUME NEW i \in Leaves(path)
               PROVE  i \in linked <=> i = term \/ \E p \in linked : p \in SourceEntities(i)
    BY <1>1, <1>2, SamePath DEF LeavesMarked, Ahead, scan
  <2>1. i \in linked <=> i = term \/ \E p \in linked : p \in SourceEntities(i) /\ ~Ahead(i, p)
    BY <1>1 DEF Walking, LeavesMarked
  <2>2. ASSUME NEW p \in linked, p \in SourceEntities(i), Ahead(i, p), i # term PROVE FALSE
    <3>1. p = at /\ i > forward
      BY <2>2 DEF Ahead
    <3>2. i \in Referring
      BY <1>1, <2>2, <3>1, AheadRefers
    <3> QED BY <1>1, <3>2
  <2> QED BY <2>1, <2>2
<1>4. Placed /\ Placed' /\ pc' # "forward" /\ pc # "entity"
  BY <1>1, <1>2 DEF Placed
<1> QED BY <1>1, <1>3, <1>4, WalkStays

\* A reference is followed: what refers to the entity at is linked.
LEMMA WalkFollows ==
  ASSUME ChainInv, Identifiable, NEW path, OfPath(path), Walking(path), FollowReference
  PROVE  Walking(path)' /\ pc' = "forward"
<1> DEFINE e == Min(Referring)
<1>1. TypeOK /\ WellFormed /\ pc = "forward" /\ Referring # {} /\ Scanning
  BY DEF ChainInv, FollowReference, Scanning
<1>2. e \in Referring /\ \A i \in Referring : e <= i
  <2>1. Referring \in SUBSET Nat
    BY <1>1, EntityIs DEF Referring
  <2> QED BY <2>1, <1>1, MinIs
<1>3. /\ e \in Leaves(path) /\ e # term /\ e \notin linked /\ e > forward
      /\ at \in SourceEntities(e) /\ at \in linked /\ Type(at) # "OT"
  <2> HIDE DEF e
  <2> QED BY <1>1, <1>2, RefersHangs
<1>4. /\ e \in DOMAIN entities /\ e \notin ToSet(path) /\ e \notin Inputs
      /\ Type(e) \in {"OT", "XU"} /\ Pins(e) = 1
  <2> HIDE DEF e
  <2> QED BY <1>1, <1>3, LeafIs
<1>5. /\ Link(e) /\ forward' = e /\ UNCHANGED <<entities, pc, term, entity, prev, pin, at, chains>>
  <2>1. Type(e) = "XU" => Reconnected(e) = entities
    <3> HIDE DEF e
    <3> QED BY <1>1, <1>3, <1>4, Unchanging
  <2>2. ~InChain(e)
    BY <1>3 DEF InChain
  <2> QED BY <1>3, <1>4, <2>1, <2>2 DEF FollowReference
<1> HIDE DEF e
<1>6. linked' = linked \cup {e} /\ chain' = Append(chain, e)
  BY <1>5 DEF Link
<1>7. PICK k \in 0 .. Len(path) + 1 : Standing(path, k) /\ LevelsMarked(path, k) /\ InputsMarked(k)
  BY DEF Walking
<1>8. Standing(path, k)'
  BY <1>5, <1>7, Same, SamePath DEF Standing, Above
<1>9. LevelsMarked(path, k)'
  <2>1. \A j \in DOMAIN path : path[j] # e
    BY <1>4 DEF ToSet
  <2> QED BY <1>5, <1>6, <1>7, <2>1 DEF LevelsMarked, Placed
<1>10. InputsMarked(k)'
  <2>1. \A i \in Inputs : i \in linked' <=> i \in linked
    BY <1>4, <1>6
  <2> QED BY <1>5, <1>7, <2>1, Same, SamePath DEF InputsMarked, Placed
<1>11. linked' = ToSet(chain')
  <2>1. chain \in Seq(Positions)
    BY <1>1 DEF TypeOK
  <2> QED BY <1>6, <2>1, Appended DEF Walking
<1>12. LeavesMarked(path)'
  <2> SUFFICES ASSUME NEW i \in Leaves(path)
               PROVE  i \in linked' <=> i = term \/ \E p \in linked' : p \in SourceEntities(i) /\ ~(p = at /\ i > e)
    BY <1>1, <1>5, SamePath DEF LeavesMarked, Ahead
  <2>1. i \in linked <=> i = term \/ \E p \in linked : p \in SourceEntities(i) /\ ~(p = at /\ i > forward)
    BY <1>1 DEF Walking, LeavesMarked, Ahead
  <2>2. e \notin SourceEntities(i)
    BY <1>1, <1>4, LeafIs
  <2>3. forward \in Nat /\ e \in Nat /\ i \in Nat
    <3>1. i \in DOMAIN entities
      BY <1>1, LeafIs
    <3> QED BY <1>1, <1>4, <3>1, EntityIs DEF TypeOK, Positions
  <2>4. i = e => \E p \in linked' : p \in SourceEntities(i) /\ ~(p = at /\ i > e)
    BY <1>3, <1>6, <2>3
  <2>5. ASSUME NEW p \in linked, p \in SourceEntities(i), p = at, i > forward, i # e, ~(i > e), i # term
        PROVE  FALSE
    <3>1. i \in Referring
      BY <1>1, <2>5, AheadRefers
    <3> QED BY <1>2, <2>3, <2>5, <3>1
  <2>6. \A p \in linked : ~(p = at /\ i > forward) => ~(p = at /\ i > e)
    BY <1>3, <2>3
  <2>7. ASSUME i \in linked' PROVE i = term \/ \E p \in linked' : p \in SourceEntities(i) /\ ~(p = at /\ i > e)
    BY <1>6, <2>1, <2>4, <2>6, <2>7
  <2>8. ASSUME NEW p \in linked', p \in SourceEntities(i), ~(p = at /\ i > e), i # term
        PROVE  i \in linked'
    <3>1. p \in linked
      BY <1>6, <2>2, <2>8
    <3> QED BY <1>6, <2>1, <2>5, <2>8, <3>1
  <2>9. i = term => i \in linked'
    BY <1>6, <2>1
  <2> QED BY <2>7, <2>8, <2>9
<1>13. chains' = <<>> /\ term' \in OutputTerminals'
  BY <1>5, SamePath DEF Walking
<1>14. pin' > 0 => at' = EntityById(Sources(entity)[pin])'
  BY <1>1, <1>5, Same DEF Walking
<1> QED BY <1>1, <1>5, <1>8, <1>9, <1>10, <1>11, <1>12, <1>13, <1>14, <1>7 DEF Walking

\* At a selector unit: its pins come next, nothing is linked.
LEMMA WalkStartsPins ==
  ASSUME NEW path, OfPath(path), Walking(path), StartPins
  PROVE  Walking(path)'
<1>1. /\ pc = "backward" /\ pc' = "pins" /\ UNCHANGED <<entities, scan, linked, chains>>
  BY DEF StartPins
<1>2. LeavesMarked(path)'
  BY <1>1, SamePath DEF Walking, LeavesMarked, Ahead, scan
<1> QED BY <1>1, <1>2, WalkStays DEF Placed

\* The selector unit is the first of the path.
LEMMA SelectsFirst ==
  ASSUME ChainInv, NEW path, OfPath(path), Walking(path), pc \in {"pins", "backward"}, Selector(entity)
  PROVE  /\ 1 \in DOMAIN path /\ entity = path[1]
         /\ Standing(path, 1) /\ LevelsMarked(path, 1) /\ InputsMarked(1)
<1>1. TypeOK /\ WellFormed /\ Scanning
  BY DEF ChainInv, Scanning
<1>2. PICK k \in 0 .. Len(path) + 1 :
        /\ Standing(path, k) /\ LevelsMarked(path, k) /\ InputsMarked(k)
        /\ k = Len(path) + 1 => entity = term
        /\ k \in DOMAIN path => entity = path[k]
        /\ k = 0 => Type(entity) = "IT"
        /\ k \in DOMAIN path \/ k = 0 \/ k = Len(path) + 1
  BY <1>1, PlaceIs
<1>3. Type(term) = "OT"
  BY <1>1, PlaceIs
<1>4. k \in DOMAIN path
  BY <1>2, <1>3 DEF Selector
<1>5. k = 1
  BY <1>1, <1>2, <1>4, SelectorIs
<1> QED BY <1>2, <1>4, <1>5

\* The input of the next pin is linked.
LEMMA WalkPins ==
  ASSUME ChainInv, Identifiable, NEW path, OfPath(path), Walking(path), NextPin
  PROVE  Walking(path)' /\ pc' = "forward"
<1> DEFINE t == EntityById(Sources(entity)[pin + 1])
<1>1. pc = "pins" /\ pin < Pins(entity) /\ TypeOK /\ WellFormed /\ Selector(entity) /\ pin \in Nat
      /\ entity \in DOMAIN entities
  BY DEF NextPin, ChainInv, Cursor, TypeOK, Scanning
<1>2. /\ 1 \in DOMAIN path /\ entity = path[1]
      /\ Standing(path, 1) /\ LevelsMarked(path, 1) /\ InputsMarked(1)
  BY <1>1, SelectsFirst
<1>3. pin + 1 \in 1 .. Pins(entity)
  <2>1. Pins(entity) \in Nat
    BY <1>1, EntityIs
  <2> QED BY <1>1, <2>1
<1>4. t \in Inputs
  BY <1>1, <1>2, <1>3, SelectorIs
<1>5. t \notin linked
  <2>1. t \in linked <=> \E q \in 1 .. pin : t = EntityById(Sources(entity)[q])
    BY <1>2, <1>4 DEF InputsMarked
  <2>2. ASSUME NEW q \in 1 .. pin, t = EntityById(Sources(entity)[q]) PROVE FALSE
    <3>1. q \in 1 .. Pins(entity) /\ q # pin + 1
      <4>1. Pins(entity) \in Nat
        BY <1>1, EntityIs
      <4>2. q \in Nat /\ 1 <= q /\ q <= pin
        BY <1>1
      <4> HIDE DEF t
      <4> QED BY <1>1, <4>1, <4>2
    <3>2. q = pin + 1
      <4>1. EntityById(Sources(path[1])[q]) = EntityById(Sources(path[1])[pin + 1])
        BY <1>2, <2>2
      <4>2. q \in 1 .. Pins(path[1]) /\ pin + 1 \in 1 .. Pins(path[1]) /\ Selector(path[1])
        BY <1>1, <1>2, <1>3, <3>1
      <4> HIDE DEF t
      <4> QED BY <1>1, <1>2, <4>1, <4>2, SelectorIs
    <3> QED BY <3>1, <3>2
  <2> QED BY <2>1, <2>2
<1>6. Connected(t)
  <2>1. t \in DOMAIN entities /\ Type(t) \in {"IT", "EXT"}
    <3> HIDE DEF t
    <3>1. t \in DOMAIN entities
      BY <1>4, KindsAre
    <3> QED BY <1>1, <1>4, <3>1, Kinds
  <2> QED BY <2>1 DEF Connected, InputTerminals, OfType
<1>7. /\ Link(t) /\ pin' = pin + 1 /\ at' = t /\ forward' = 0 /\ pc' = "forward"
      /\ UNCHANGED <<entities, term, entity, prev, chains>>
  BY <1>5, <1>6 DEF NextPin, InChain
<1> HIDE DEF t
<1>8. linked' = linked \cup {t} /\ chain' = Append(chain, t)
  BY <1>7 DEF Link
<1>9. t \notin ToSet(path) /\ t \notin Leaves(path)
  BY <1>1, <1>4, Apart
<1>10. Standing(path, 1)'
  BY <1>2, <1>7, Same, SamePath DEF Standing, Above
<1>11. LevelsMarked(path, 1)'
  <2>1. \A j \in DOMAIN path : path[j] # t
    BY <1>9 DEF ToSet
  <2> QED BY <1>1, <1>2, <1>7, <1>8, <2>1 DEF LevelsMarked, Placed
<1>12. InputsMarked(1)'
  <2> SUFFICES ASSUME NEW i \in Inputs
               PROVE  i \in linked' <=> \E q \in 1 .. pin + 1 : i = EntityById(Sources(entity)[q])
    BY <1>7, Same, SamePath DEF InputsMarked
  <2>1. i \in linked <=> \E q \in 1 .. pin : i = EntityById(Sources(entity)[q])
    BY <1>2 DEF InputsMarked
  <2>2. 1 .. pin + 1 = (1 .. pin) \cup {pin + 1}
    BY <1>1
  <2> QED BY <1>8, <2>1, <2>2 DEF t
<1>13. linked' = ToSet(chain')
  <2>1. chain \in Seq(Positions)
    BY <1>1 DEF TypeOK
  <2> QED BY <1>8, <2>1, Appended DEF Walking
<1>14. LeavesMarked(path)'
  <2> SUFFICES ASSUME NEW i \in Leaves(path)
               PROVE  i \in linked' <=> i = term \/ \E p \in linked' : p \in SourceEntities(i) /\ ~(p = t /\ i > 0)
    BY <1>7, SamePath DEF LeavesMarked, Ahead
  <2>1. i \in linked <=> i = term \/ \E p \in linked : p \in SourceEntities(i)
    BY <1>1 DEF Walking, LeavesMarked, Ahead
  <2>2. i > 0
    BY <1>1, LeafIs, EntityIs
  <2> QED BY <1>5, <1>8, <1>9, <2>1, <2>2
<1>15. chains' = <<>> /\ term' \in OutputTerminals'
  BY <1>7, SamePath DEF Walking
<1>16. at' = EntityById(Sources(entity)[pin])'
  BY <1>7, Same DEF t
<1>17. 1 \in 0 .. Len(path) + 1
  BY <1>1, <1>2, PathIs
<1> QED BY <1>7, <1>10, <1>11, <1>12, <1>13, <1>14, <1>15, <1>16, <1>17 DEF Walking

\* When the whole path and all inputs are linked, so is everything.
LEMMA WholeLinked ==
  ASSUME ChainInv, NEW path, OfPath(path), Walking(path), pc \in {"pins", "backward"},
         \A j \in DOMAIN path : path[j] \in linked, \A i \in Inputs : i \in linked
  PROVE  linked = Whole
<1>1. TypeOK /\ WellFormed /\ Marked
  BY DEF ChainInv
<1>2. ASSUME NEW i \in Leaves(path) PROVE i \in linked
  <2>1. i \in linked <=> i = term \/ \E p \in linked : p \in SourceEntities(i)
    BY DEF Walking, LeavesMarked, Ahead
  <2>2. PICK p \in ToSet(path) \cup Inputs : SourceEntities(i) = {p}
    BY <1>1, LeafIs
  <2>3. p \in linked
    BY DEF ToSet
  <2> QED BY <2>1, <2>2, <2>3
<1>3. Whole \subseteq linked
  <2>1. \A i \in ToSet(path) : i \in linked
    BY DEF ToSet
  <2> QED BY <1>2, <2>1 DEF Whole, Leaves
<1>4. linked \subseteq Whole
  <2> SUFFICES ASSUME NEW i \in linked PROVE i \in Whole
    OBVIOUS
  <2>1. i \in DOMAIN entities /\ i \notin OfType({"GPIO"})
    BY <1>1 DEF Marked
  <2> QED BY <1>1, <2>1, Kinds DEF Whole
<1> QED BY <1>3, <1>4

\* Then the chain is found, with everything in it.
LEMMA WalkFinds ==
  ASSUME ChainInv, NEW path, Walking(path), ChainFound, UNCHANGED linked, UNCHANGED entities, linked = Whole
  PROVE  Walked'
<1>1. chains' = <<chain>> /\ linked = ToSet(chain)
  BY DEF ChainFound, Walking
<1>2. Len(<<chain>>) = 1 /\ <<chain>>[1] = chain
  OBVIOUS
<1>3. Len(chains') = 1 /\ chains'[1] = chain
  BY <1>1, <1>2
<1>4. ToSet(chains[1])' = ToSet(chain)
  BY <1>3
<1> QED BY <1>1, <1>3, <1>4, SamePath DEF Walked

\* The last pin of the selector unit: all has been found.
LEMMA WalkEndsPins ==
  ASSUME ChainInv, Identifiable, NEW path, OfPath(path), Walking(path), PinsDone
  PROVE  pc' = "scan" /\ Walked'
<1>1. /\ pc = "pins" /\ pin = Pins(entity) /\ ChainFound /\ UNCHANGED <<entities, linked>>
      /\ TypeOK /\ WellFormed /\ Selector(entity)
  BY DEF PinsDone, ChainInv, Cursor
<1>2. /\ 1 \in DOMAIN path /\ entity = path[1] /\ LevelsMarked(path, 1) /\ InputsMarked(1)
  BY <1>1, SelectsFirst
<1>3. DOMAIN path = 1 .. Len(path) /\ Len(path) \in Nat
  BY <1>1, PathIs
<1>4. \A j \in DOMAIN path : path[j] \in linked
  <2> SUFFICES ASSUME NEW j \in DOMAIN path PROVE path[j] \in linked
    OBVIOUS
  <2>1. path[j] \in linked <=> j > 1 \/ j = 1
    BY <1>1, <1>2 DEF LevelsMarked, Placed
  <2> QED BY <1>3, <2>1
<1>5. \A i \in Inputs : i \in linked
  <2> SUFFICES ASSUME NEW i \in Inputs PROVE i \in linked
    OBVIOUS
  <2>1. i \in linked <=> \E q \in 1 .. pin : i = EntityById(Sources(entity)[q])
    BY <1>2 DEF InputsMarked
  <2>2. \E q \in 1 .. Pins(path[1]) : i = EntityById(Sources(path[1])[q])
    BY <1>1, <1>2, SelectorIs
  <2> QED BY <1>1, <1>2, <2>1, <2>2
<1>6. linked = Whole
  BY <1>1, <1>4, <1>5, WholeLinked
<1> QED BY <1>1, <1>6, WalkFinds DEF ChainFound

\* The scan goes on with the next entity of the path, or ends below it.
LEMMA WalkGoesBackward ==
  ASSUME ChainInv, Identifiable, NEW path, OfPath(path), Walking(path), Backward
  PROVE  Walk(path)'
<1> DEFINE id == IF Pins(entity) = 0 THEN 0 ELSE Sources(entity)[1]
           e == EntityById(id)
<1>1. pc = "backward" /\ ~Selector(entity) /\ TypeOK /\ WellFormed /\ Scanning /\ pin = 0 /\ Placed
  BY DEF Backward, ChainInv, Cursor, Scanning, Placed
<1>2. PICK k \in 0 .. Len(path) + 1 :
        /\ Standing(path, k) /\ LevelsMarked(path, k) /\ InputsMarked(k)
        /\ k = Len(path) + 1 => entity = term /\ prev = 0
        /\ k \in DOMAIN path => entity = path[k] /\ prev = Above(path, k) /\ entity \in ToSet(path)
        /\ k = 0 => /\ Inputs = {entity} /\ prev = Above(path, 0) /\ Type(entity) = "IT"
                    /\ path = <<>> \/ ~Selector(path[1])
        /\ k \in DOMAIN path \/ k = 0 \/ k = Len(path) + 1
  BY <1>1, PlaceIs
<1>3. /\ Len(path) \in Nat /\ DOMAIN path = 1 .. Len(path)
      /\ term \in Leaves(path) /\ Type(term) = "OT" /\ entity \in DOMAIN entities
  BY <1>1, PlaceIs
\* At the input terminal the chain ends.
<1>4. CASE k = 0
  <2>1. Pins(entity) = 0
    <3>1. Sources(entity) = <<>>
      BY <1>1, <1>2, <1>3, <1>4 DEF WellFormed, InputTypes
    <3> QED BY <3>1 DEF Pins
  <2>2. ChainFound /\ UNCHANGED <<entities, linked>>
    BY <2>1 DEF Backward
  <2>3. \A j \in DOMAIN path : path[j] \in linked
    <3> SUFFICES ASSUME NEW j \in DOMAIN path PROVE path[j] \in linked
      OBVIOUS
    <3>1. path[j] \in linked <=> j > 0 \/ (j = 0 /\ Placed)
      BY <1>2, <1>4 DEF LevelsMarked
    <3> QED BY <1>3, <3>1
  <2>4. \A i \in Inputs : i \in linked
    BY <1>1, <1>2, <1>4 DEF InputsMarked
  <2>5. linked = Whole
    BY <1>1, <2>3, <2>4, WholeLinked
  <2>6. Walked' /\ pc' = "scan"
    BY <2>2, <2>5, WalkFinds DEF ChainFound
  <2> QED BY <2>6 DEF Walk, Scanning
\* Elsewhere it goes one level down.
<1>5. CASE k # 0
  <2>1. Pins(entity) = 1 /\ k - 1 \in 0 .. Len(path) + 1
    <3>1. CASE k = Len(path) + 1
      BY <1>1, <1>2, <1>3, <3>1 DEF WellFormed
    <3>2. CASE k \in DOMAIN path
      <4>1. /\ Type(path[k]) \in {"PU", "XU", "SU"} /\ (Type(path[k]) = "XU" => Pins(path[k]) = 1)
        BY <1>1, <3>2, PathIs
      <4>2. Type(path[k]) = "PU" => Pins(path[k]) = 1
        BY <1>2, <1>3, <1>1, <3>2 DEF WellFormed
      <4>3. ~Selector(path[k])
        BY <1>1, <1>2, <3>2
      <4>4. Pins(path[k]) = 1
        BY <4>1, <4>2, <4>3 DEF Selector
      <4> QED BY <1>2, <1>3, <3>2, <4>4
    <3> QED BY <1>2, <1>5, <3>1, <3>2
  <2>2. SourceEntities(entity) = {e}
    BY <1>1, <1>3, <2>1, OneSource
  <2>3. /\ k = 1 \/ path = <<>> => Inputs = {e}
        /\ k # 1 => k - 1 \in DOMAIN path /\ e = path[k - 1]
    <3>1. CASE k = Len(path) + 1
      <4>1. SourceEntities(entity) = IF path = <<>> THEN Inputs ELSE {path[Len(path)]}
        BY <1>1, <1>2, <3>1, PathIs DEF Walking
      <4>2. path = <<>> <=> Len(path) = 0
        BY DEF OfPath
      <4>3. path # <<>> => k # 1 /\ k - 1 = Len(path) /\ k - 1 \in DOMAIN path
        BY <1>3, <3>1, <4>2
      <4>4. path = <<>> => k = 1
        BY <1>3, <3>1, <4>2
      <4> HIDE DEF e
      <4> QED BY <2>2, <4>1, <4>3, <4>4
    <3>2. CASE k \in DOMAIN path
      <4>1. SourceEntities(entity) = IF k = 1 THEN Inputs ELSE {path[k - 1]}
        BY <1>1, <1>2, <3>2, PathIs
      <4>2. path # <<>>
        BY <3>2
      <4>3. k # 1 => k - 1 \in DOMAIN path
        BY <1>3, <3>2
      <4> HIDE DEF e
      <4> QED BY <2>2, <4>1, <4>2, <4>3
    <3> QED BY <1>2, <1>5, <3>1, <3>2
  <2>4. e \in DOMAIN entities /\ e # term
    <3>1. e \in Inputs \/ e \in ToSet(path)
      <4> HIDE DEF e
      <4> QED BY <2>3 DEF ToSet
    <3> HIDE DEF e
    <3>2. e \in DOMAIN entities
      BY <1>1, <3>1, KindsAre, PathIs DEF ToSet
    <3>3. e # term
      BY <1>1, <1>3, <3>1, LeafIs
    <3> QED BY <3>2, <3>3
  <2>5. e # 0 /\ id # 0
    <3>1. e # 0
      BY <1>1, <2>4, EntityIs
    <3>2. id = Sources(entity)[1] /\ id \in Bytes
      <4>1. id = Sources(entity)[1]
        BY <2>1
      <4>2. 1 \in DOMAIN Sources(entity)
        BY <1>1, <1>3, <2>1, EntityIs
      <4> QED BY <1>1, <1>3, <4>1, <4>2, EntityIs
    <3> HIDE DEF id
    <3> QED BY <1>1, <3>1, <3>2, BySource
  <2>6. /\ prev' = entity /\ entity' = e /\ pc' = "entity" /\ at' = 0 /\ forward' = 0
        /\ UNCHANGED <<entities, term, chain, pin, linked, chains>>
    BY <2>5 DEF Backward
  <2> HIDE DEF e, id
  <2>7. Standing(path, k - 1)'
    <3>1. entity = Above(path, k - 1)
      <4>1. CASE k = Len(path) + 1
        <5>1. k - 1 = Len(path)
          BY <1>3, <4>1
        <5>2. Above(path, k - 1) = term
          BY <5>1 DEF Above
        <5> QED BY <1>2, <4>1, <5>2
      <4>2. CASE k \in DOMAIN path
        <5>1. k - 1 # Len(path) /\ (k - 1) + 1 = k
          BY <1>3, <4>2
        <5> QED BY <1>2, <4>2, <5>1 DEF Above
      <4>3. k \in DOMAIN path \/ k = Len(path) + 1
        BY <1>2, <1>5
      <4> QED BY <4>1, <4>2, <4>3
    <3>2. Above(path, k - 1)' = Above(path, k - 1)
      BY <2>6 DEF Above
    <3>3. CASE k = 1
      <4>1. Inputs = {e}
        BY <2>3, <3>3
      <4>2. path = <<>> \/ ~Selector(path[1])
        <5>1. CASE k = Len(path) + 1
          <6>1. Len(path) = 0
            BY <1>3, <3>3, <5>1
          <6>2. path \in Seq(Units)
            BY DEF OfPath
          <6> QED BY <6>1, <6>2
        <5>2. CASE k \in DOMAIN path
          BY <1>1, <1>2, <3>3, <5>2
        <5> QED BY <1>2, <3>3, <5>1, <5>2
      <4>3. k - 1 = 0
        BY <3>3
      <4> QED BY <2>6, <3>1, <3>2, <4>1, <4>2, <4>3, Same, SamePath DEF Standing
    <3>4. CASE k # 1
      BY <2>3, <2>6, <3>1, <3>2, <3>4 DEF Standing
    <3> QED BY <3>3, <3>4
  <2>8. LevelsMarked(path, k - 1)'
    <3> SUFFICES ASSUME NEW j \in DOMAIN path PROVE path[j] \in linked <=> j > k - 1
      BY <2>6 DEF LevelsMarked, Placed
    <3>1. path[j] \in linked <=> j > k \/ j = k
      BY <1>1, <1>2 DEF LevelsMarked
    <3>2. j \in Nat /\ k \in Nat
      BY <1>3
    <3> QED BY <3>1, <3>2
  <2>9. InputsMarked(k - 1)'
    <3> SUFFICES ASSUME NEW i \in Inputs PROVE i \notin linked
      BY <1>1, <2>6, SamePath DEF InputsMarked, Placed
    <3>1. i \in linked <=> FALSE
      BY <1>1, <1>2, <1>5 DEF InputsMarked
    <3> QED BY <3>1
  <2>10. LeavesMarked(path)'
    <3> SUFFICES ASSUME NEW i \in Leaves(path)
                 PROVE  i \in linked <=> i = term \/ \E p \in linked : p \in SourceEntities(i)
      BY <2>4, <2>6, SamePath DEF LeavesMarked, Ahead
    <3> QED BY <1>1 DEF Walking, LeavesMarked, Ahead
  <2>11. chains' = <<>> /\ term' \in OutputTerminals' /\ linked' = ToSet(chain')
    BY <2>6, SamePath DEF Walking
  <2>12. Walking(path)'
    BY <2>1, <2>6, <2>7, <2>8, <2>9, <2>10, <2>11 DEF Walking
  <2> QED BY <2>6, <2>12 DEF Walk
<1> QED BY <1>4, <1>5

\* A documented structure has a main path.
LEMMA PathOf ==
  ASSUME TypeOK, Documented
  PROVE  \E path : OfPath(path) /\ OutputTerminals # {}
<1>0. PICK units \in SUBSET Units : \E path \in SetToSeqs(units) : MainPath(path)
  BY DEF Documented
<1>1. PICK path \in SetToSeqs(units) : MainPath(path)
  BY <1>0
<1>2. Cardinality(units) \in Nat
  <2>1. Len(entities) \in Nat /\ DOMAIN entities = 1 .. Len(entities)
    BY EntityIs
  <2>2. IsFiniteSet(1 .. Len(entities))
    BY <2>1, FS_Interval
  <2>3. units \subseteq 1 .. Len(entities)
    BY <2>1, KindsAre
  <2>4. IsFiniteSet(units)
    BY <2>2, <2>3, FS_Subset
  <2> QED BY <2>4, FS_CardinalityType
<1>3. /\ path \in [1 .. Cardinality(units) -> units]
      /\ \A i, j \in 1 .. Cardinality(units) : i # j => path[i] # path[j]
  BY DEF SetToSeqs
<1>4. path \in Seq(Units)
  BY <1>2, <1>3
<1>5. IsInjective(path)
  BY <1>3 DEF IsInjective
<1>6. OutputTerminals # {}
  BY <1>1 DEF MainPath
<1> QED BY <1>1, <1>4, <1>5, <1>6 DEF OfPath

\* A scan of a documented device has found it, or has not begun.
LEMMA WalkedIs ==
  ASSUME ChainInv, WalkInv, Documented, pc = "scan"
  PROVE  OutputTerminals # {} /\ Walked
<1>1. PICK path : OfPath(path) /\ OutputTerminals # {}
  BY PathOf DEF ChainInv
<1>2. Walk(path)
  BY <1>1 DEF WalkInv, Documented
<1> QED BY <1>1, <1>2 DEF Walk

\* The scan of the device ends, and the privacy GPIO goes to the only chain.
LEMMA WalkEndsScan ==
  ASSUME ChainInv, WalkInv, ScanDone
  PROVE  DocumentedFound'
<1>1. /\ pc = "scan" /\ chains # <<>> /\ pc' = "done" /\ chains' = WithGpio(chains)
      /\ UNCHANGED entities
      /\ TypeOK /\ WellFormed
  BY DEF ScanDone, ChainInv
<1> SUFFICES ASSUME Documented
             PROVE  Len(chains') = 1 /\ ToSet(chains'[1]) = DOMAIN entities
  BY <1>1, SamePath DEF DocumentedFound
<1>2. Len(chains) = 1 /\ ToSet(chains[1]) = Whole
  BY <1>1, WalkedIs DEF Walked
<1>3. Whole \cup OfType({"GPIO"}) = DOMAIN entities
  <2>1. Whole \cup OfType({"GPIO"}) \subseteq DOMAIN entities
    BY KindsAre DEF Whole, OfType
  <2>2. \A i \in DOMAIN entities : i \in Whole \cup OfType({"GPIO"})
    BY <1>1, Kinds DEF Whole
  <2> QED BY <2>1, <2>2
<1>4. CASE OfType({"GPIO"}) = {}
  BY <1>1, <1>2, <1>3, <1>4 DEF WithGpio
<1>5. CASE OfType({"GPIO"}) # {}
  <2> DEFINE g == Min(OfType({"GPIO"}))
  <2>1. g \in OfType({"GPIO"})
    <3>1. OfType({"GPIO"}) \in SUBSET Nat
      BY <1>1, EntityIs DEF OfType
    <3> QED BY <1>5, <3>1, MinIs
  <2> HIDE DEF g
  <2>2. ASSUME NEW i \in OfType({"GPIO"}) PROVE i = g
    <3>1. \A h \in OfType({"GPIO"}) : h \in DOMAIN entities /\ entities[h].id = GpioId
      BY <1>1 DEF OfType, WellFormed, Documented, Identifiable
    <3>2. i \in DOMAIN entities /\ g \in DOMAIN entities /\ entities[i].id = entities[g].id
      BY <2>1, <3>1
    <3>3. entities[i].id # Invalid
      BY <3>2 DEF Documented, Identifiable
    <3> QED BY <1>1, <3>2, <3>3 DEF WellFormed
  <2>3. chains' = [chains EXCEPT ![1] = Append(@, g)]
    BY <1>1, <1>5 DEF WithGpio, g
  <2>4. chains \in Seq(Seq(Positions)) /\ DOMAIN chains = 1 .. 1
    BY <1>1, <1>2 DEF TypeOK
  <2>5. chains[1] \in Seq(Positions)
    BY <2>4
  <2>6. Len(chains') = 1 /\ chains'[1] = Append(chains[1], g)
    <3>1. 1 \in DOMAIN chains
      BY <2>4
    <3>2. chains'[1] = Append(chains[1], g)
      BY <2>3, <3>1
    <3>3. DOMAIN chains' = DOMAIN chains
      BY <2>3
    <3>4. chains' \in Seq(Seq(Positions'))
      BY EndsScan DEF ChainInv, TypeOK
    <3>5. Len(chains') \in Nat /\ DOMAIN chains' = 1 .. Len(chains')
      BY <3>4
    <3>7. DOMAIN chains' = 1 .. 1
      BY <2>4, <3>3
    <3>8. 1 \in 1 .. Len(chains') /\ ~(2 \in 1 .. Len(chains'))
      <4>1. 1 \in 1 .. 1 /\ ~(2 \in 1 .. 1)
        OBVIOUS
      <4> QED BY <3>5, <3>7, <4>1
    <3>6. Len(chains') = 1
      BY <3>5, <3>8
    <3> QED BY <3>2, <3>6
  <2>7. ToSet(Append(chains[1], g)) = Whole \cup {g}
    BY <1>2, <2>5, Appended
  <2>8. {g} = OfType({"GPIO"})
    BY <2>1, <2>2
  <2> QED BY <1>3, <2>6, <2>7, <2>8
<1> QED BY <1>4, <1>5

\* A documented device is not refused: its first output terminal began a scan.
LEMMA WalkRefuses ==
  ASSUME ChainInv, WalkInv, Fallback, ~FallbackFits
  PROVE  DocumentedFound'
<1>1. /\ pc = "scan" /\ Unscanned = {} /\ chains = <<>> /\ UNCHANGED entities /\ TypeOK
  BY DEF Fallback, ChainInv
<1> SUFFICES ASSUME Documented PROVE FALSE
  BY <1>1, SamePath DEF DocumentedFound
<1>2. OutputTerminals # {} /\ Walked
  BY <1>1, WalkedIs
<1>3. Len(chains) = 0
  BY <1>1
<1>4. linked = {} /\ term = 0
  BY <1>2, <1>3 DEF Walked
<1>5. PICK o \in OutputTerminals : TRUE
  BY <1>2
<1>6. o \in DOMAIN entities /\ Type(o) = "OT" /\ o > 0
  <2>1. o \in DOMAIN entities /\ Type(o) = "OT"
    BY <1>1, <1>5, Kinds, KindsAre
  <2> QED BY <1>1, <2>1, EntityIs
<1>7. o \in Unscanned
  BY <1>4, <1>6 DEF Unscanned, InChain
<1> QED BY <1>1, <1>7

\* Facts about the next state.
LEMMA NextPath ==
  (\A path : TypeOK /\ WellFormed /\ OfPath(path) =>
     /\ Len(path) \in Nat /\ DOMAIN path = 1 .. Len(path)
     /\ \A k \in DOMAIN path :
          /\ path[k] \in Units
          /\ SourceEntities(path[k]) = IF k = 1 THEN Inputs ELSE {path[k - 1]}
          /\ Type(path[k]) = "XU" => Pins(path[k]) = 1
     /\ \A t \in OutputTerminals : SourceEntities(t) = IF path = <<>> THEN Inputs ELSE {path[Len(path)]}
     /\ \A i \in DOMAIN entities : i \in Units /\ i \notin ToSet(path) => Type(i) = "XU" /\ Pins(i) = 1)'
<1>1. \A path : TypeOK /\ WellFormed /\ OfPath(path) =>
     /\ Len(path) \in Nat /\ DOMAIN path = 1 .. Len(path)
     /\ \A k \in DOMAIN path :
          /\ path[k] \in Units
          /\ SourceEntities(path[k]) = IF k = 1 THEN Inputs ELSE {path[k - 1]}
          /\ Type(path[k]) = "XU" => Pins(path[k]) = 1
     /\ \A t \in OutputTerminals : SourceEntities(t) = IF path = <<>> THEN Inputs ELSE {path[Len(path)]}
     /\ \A i \in DOMAIN entities : i \in Units /\ i \notin ToSet(path) => Type(i) = "XU" /\ Pins(i) = 1
  <2> TAKE path
  <2> HAVE TypeOK /\ WellFormed /\ OfPath(path)
  <2> QED BY PathIs
<1> QED BY <1>1, PTL
\* An entity of one pin that names x has x as its source, after a step too.
LEMMA NextSource ==
  (TypeOK /\ WellFormed /\ Identifiable =>
     \A i, x \in DOMAIN entities :
       Pins(i) = 1 /\ Sources(i)[1] = entities[x].id => SourceEntities(i) = {x})'
<1>1. TypeOK /\ WellFormed /\ Identifiable =>
       \A i, x \in DOMAIN entities :
         Pins(i) = 1 /\ Sources(i)[1] = entities[x].id => SourceEntities(i) = {x}
  <2> HAVE TypeOK /\ WellFormed /\ Identifiable
  <2> TAKE i, x \in DOMAIN entities
  <2> HAVE Pins(i) = 1 /\ Sources(i)[1] = entities[x].id
  <2>1. EntityById(entities[x].id) = x
    BY ByOwnId DEF Identifiable
  <2>2. SourceEntities(i) = {EntityById(Sources(i)[1])}
    BY OneSource
  <2> QED BY <2>1, <2>2
<1> QED BY <1>1, PTL
\* The kinds of the entities after a step.
LEMMA NextKinds ==
  (TypeOK => \A i \in DOMAIN entities :
     /\ i \in OutputTerminals <=> Type(i) = "OT"
     /\ i \in Units <=> Type(i) \in {"PU", "XU", "SU"}
     /\ i \in InputTerminals \cup OutputTerminals \cup Units)'
<1>1. TypeOK => \A i \in DOMAIN entities :
     /\ i \in OutputTerminals <=> Type(i) = "OT"
     /\ i \in Units <=> Type(i) \in {"PU", "XU", "SU"}
     /\ i \in InputTerminals \cup OutputTerminals \cup Units
  <2> HAVE TypeOK
  <2> TAKE i \in DOMAIN entities
  <2>1. i \in InputTerminals <=> Type(i) \in {"IT", "EXT", "GPIO"}
    BY DEF InputTerminals, OfType
  <2>2. Type(i) \in Types
    BY EntityIs
  <2> QED BY <2>1, <2>2, Kinds DEF Types
<1> QED BY <1>1, PTL

\* A device that is documented after a step has a main path then.
LEMMA NextPathOf ==
  (TypeOK /\ Documented => \E path : OfPath(path) /\ OutputTerminals # {})'
<1>1. TypeOK /\ Documented => \E path : OfPath(path) /\ OutputTerminals # {}
  BY PathOf
<1> QED BY <1>1, PTL

\* A fallback that leaves the device documented has everything: the sources of its chain
\* are rewired to follow it, so that the main path is a part of it.
LEMMA WalkFallsBack ==
  ASSUME ChainInv, WalkInv, Fallback, FallbackFits
  PROVE  DocumentedFound'
<1>0. PICK L : L = FallbackChain
  OBVIOUS
<1>1. /\ TypeOK /\ WellFormed /\ OneTerminalEach /\ chains' = <<L>>
      /\ entities' = ConnectedInOrder(L)
      /\ \A k \in DOMAIN L : Type(L[k]) # "GPIO"
  BY <1>0 DEF ChainInv, Fallback, FallbackFits, Acceptable
<1>2. PICK o \in DOMAIN entities, t \in DOMAIN entities, m \in Nat :
        /\ OutputTerminals = {o} /\ InputTerminals = {t} /\ o # t
        /\ L \in Seq(DOMAIN entities) /\ Len(L) = m + 2
        /\ L[1] = o /\ L[m + 2] = t
        /\ \A k \in 2 .. m + 1 : L[k] \in FallbackSet
        /\ \A i \in FallbackSet : \E k \in 2 .. m + 1 : L[k] = i
        /\ IsInjective(L)
  BY <1>0, <1>1, FallbackIs
<1>3. /\ DOMAIN entities' = DOMAIN entities
      /\ \A i \in DOMAIN entities : /\ entities'[i].id = entities[i].id
                                    /\ entities'[i].type = entities[i].type
                                    /\ Len(entities'[i].sources) = Len(entities[i].sources)
      /\ \A k \in 1 .. Len(L) - 1 : entities'[L[k]].sources = <<Byte(entities[L[k + 1]].id)>>
  BY <1>0, <1>1, Rewires
<1>4. TypeOK' /\ WellFormed'
  BY FallsBack DEF ChainInv
<1>5. /\ DOMAIN L = 1 .. m + 2 /\ ToSet(L) \subseteq DOMAIN entities
      /\ \A k \in 1 .. m + 2 : L[k] \in ToSet(L) /\ L[k] \in DOMAIN entities
  <2>1. DOMAIN L = 1 .. m + 2 /\ \A k \in 1 .. m + 2 : L[k] \in DOMAIN entities
    BY <1>2
  <2> QED BY <2>1 DEF ToSet
<1> SUFFICES ASSUME Documented'
             PROVE  ToSet(L) = DOMAIN entities
  <2>1. Len(chains') = 1 /\ chains'[1] = L
    BY <1>1
  <2> QED BY <1>3, <2>1 DEF DocumentedFound
<1>6. Identifiable'
  BY DEF Documented
<1>7. PICK path : OfPath(path)'
  BY <1>4, NextPathOf
<1> DEFINE n == Len(path)
<1>8. /\ n \in Nat /\ DOMAIN path = 1 .. n
      /\ \A k \in DOMAIN path :
           /\ path[k] \in Units'
           /\ SourceEntities(path[k])' = IF k = 1 THEN Inputs' ELSE {path[k - 1]}
      /\ \A i \in OutputTerminals' : SourceEntities(i)' = IF path = <<>> THEN Inputs' ELSE {path[n]}
      /\ \A i \in DOMAIN entities' : i \in Units' /\ i \notin ToSet(path) => Type(i)' = "XU" /\ Pins(i)' = 1
  BY <1>4, <1>7, NextPath
<1>9. \A i \in DOMAIN entities :
        /\ Type(i)' = Type(i) /\ Pins(i)' = Pins(i) /\ Type(i) \in Types
        /\ i \in Units' <=> Type(i) \in {"PU", "XU", "SU"}
        /\ i \in OutputTerminals' <=> Type(i) = "OT"
  <2> TAKE i \in DOMAIN entities
  <2>1. Type(i)' = Type(i) /\ Pins(i)' = Pins(i)
    BY <1>3 DEF Type, Pins, Sources
  <2>2. Type(i) \in Types
    BY <1>1, EntityIs
  <2> QED BY <2>1, <2>2, <1>3, <1>4, NextKinds
\* The source of each entity of the chain is the next one.
<1>10. \A k \in 1 .. m + 1 : SourceEntities(L[k])' = {L[k + 1]}
  <2> TAKE k \in 1 .. m + 1
  <2>0. PICK i, x : i = L[k] /\ x = L[k + 1]
    OBVIOUS
  <2>1. k \in 1 .. m + 2 /\ k + 1 \in 1 .. m + 2 /\ k \in 1 .. Len(L) - 1
    BY <1>2
  <2>2. i \in DOMAIN entities /\ x \in DOMAIN entities
    BY <2>0, <2>1, <1>5
  <2>3. Type(x) # "OT"
    <3>1. CASE k + 1 = m + 2
      BY <2>0, <3>1, <1>2 DEF InputTerminals, OfType
    <3>2. CASE k + 1 # m + 2
      <4>1. k + 1 \in 2 .. m + 1
        BY <2>1, <3>2
      <4>2. x \in FallbackSet
        BY <2>0, <4>1, <1>2
      <4> QED BY <4>2 DEF FallbackSet, TwoPads
    <3> QED BY <3>1, <3>2
  <2>4. entities'[i].sources = <<Byte(entities[x].id)>>
    BY <2>0, <2>1, <1>3
  <2>5. entities'[x].id = entities[x].id
    BY <2>2, <1>3
  <2>6. entities[x].id # Invalid
    BY <2>2, <2>5, <1>3, <1>6 DEF Identifiable
  <2>7. entities[x].id \in 1 .. 255
    <3>1. Type(x) # "GPIO"
      BY <2>0, <2>1, <1>1, <1>5
    <3> QED BY <3>1, <2>2, <2>3, <2>6, <1>1 DEF WellFormed
  <2>8. Byte(entities[x].id) = entities'[x].id
    BY <2>5, <2>7 DEF Byte
  <2>9. Sources(i)' = <<entities'[x].id>>
    BY <2>4, <2>8 DEF Sources
  <2>10. Pins(i)' = 1 /\ Sources(i)'[1] = entities'[x].id
    BY <2>9 DEF Pins
  <2>11. i \in DOMAIN entities' /\ x \in DOMAIN entities'
    BY <2>2, <1>3
  <2>12. SourceEntities(i)' = {x}
    BY <2>10, <2>11, <1>4, <1>6, NextSource
  <2> QED BY <2>0, <2>12
\* So each unit of the path is in the chain, the last one first.
<1>11. \A j \in 1 .. n : path[j] \in ToSet(L)
  <2> DEFINE T == {j \in 1 .. n : path[j] \notin ToSet(L)}
  <2> SUFFICES ASSUME T # {} PROVE FALSE
    OBVIOUS
  <2>1. T \in SUBSET (1 .. n)
    OBVIOUS
  <2>2. PICK j \in T : \A i \in T : i <= j
    <3> HIDE DEF T, n
    <3> QED BY <2>1, <1>8, GreatestOf
  <2>3. j \in 1 .. n /\ path[j] \notin ToSet(L)
    OBVIOUS
  <2> HIDE DEF n
  <2>4. CASE j = n
    <3>1. o \in OutputTerminals'
      BY <1>2, <1>9 DEF OutputTerminals, OfType
    <3>2. path # <<>>
      BY <2>3, <1>8
    <3>3. SourceEntities(o)' = {path[n]}
      BY <3>1, <3>2, <1>8
    <3>4. 1 \in 1 .. m + 1 /\ 1 + 1 \in 1 .. m + 2
      OBVIOUS
    <3>5. SourceEntities(o)' = {L[1 + 1]}
      BY <3>4, <1>2, <1>10
    <3>6. path[n] = L[1 + 1]
      BY <3>3, <3>5
    <3> QED BY <3>4, <3>6, <2>3, <2>4, <1>5
  <2>5. CASE j # n
    <3>1. j + 1 \in 1 .. n /\ ~(j + 1 <= j) /\ j + 1 # 1 /\ (j + 1) - 1 = j
      BY <2>3, <2>5, <1>8
    <3>2. path[j + 1] \in ToSet(L)
      BY <3>1, <2>2
    <3>3. PICK k \in 1 .. m + 2 : path[j + 1] = L[k]
      BY <3>2, <1>5 DEF ToSet
    <3>4. j + 1 \in DOMAIN path /\ path[j + 1] \in Units'
      BY <3>1, <1>8
    <3>5. Type(L[k]) \in {"PU", "XU", "SU"}
      BY <3>3, <3>4, <1>5, <1>9
    <3>6. k # m + 2
      BY <3>5, <1>2 DEF InputTerminals, OfType
    <3>7. k \in 1 .. m + 1 /\ k + 1 \in 1 .. m + 2
      BY <3>6
    <3>8. SourceEntities(path[j + 1])' = {L[k + 1]}
      BY <3>3, <3>7, <1>10
    <3>9. SourceEntities(path[j + 1])' = {path[j]}
      BY <3>1, <3>4, <1>8
    <3>10. path[j] = L[k + 1]
      BY <3>8, <3>9
    <3> QED BY <3>7, <3>10, <2>3, <1>5
  <2> QED BY <2>4, <2>5
<1>12. \A i \in DOMAIN entities : i \in ToSet(L)
  <2> TAKE i \in DOMAIN entities
  <2>1. CASE Type(i) = "OT"
    <3>1. i = L[1]
      BY <2>1, <1>2 DEF OutputTerminals, OfType
    <3>2. 1 \in 1 .. m + 2
      OBVIOUS
    <3> QED BY <3>1, <3>2, <1>5
  <2>2. CASE Type(i) \in {"IT", "EXT", "GPIO"}
    <3>1. i = L[m + 2]
      BY <2>2, <1>2 DEF InputTerminals, OfType
    <3>2. m + 2 \in 1 .. m + 2
      OBVIOUS
    <3> QED BY <3>1, <3>2, <1>5
  <2>3. CASE Type(i) \in {"PU", "XU", "SU"}
    <3>1. CASE i \in ToSet(path)
      <4>1. PICK j \in 1 .. n : i = path[j]
        BY <3>1, <1>8 DEF ToSet
      <4> QED BY <4>1, <1>11
    <3>2. CASE i \notin ToSet(path)
      <4>1. i \in Units' /\ i \in DOMAIN entities'
        BY <2>3, <1>3, <1>9
      <4>2. Type(i) = "XU" /\ Pins(i) = 1
        BY <3>2, <4>1, <1>8, <1>9
      <4>3. i \in FallbackSet
        BY <4>2 DEF FallbackSet, TwoPads
      <4>4. PICK k \in 2 .. m + 1 : L[k] = i
        BY <4>3, <1>2
      <4>5. k \in 1 .. m + 2
        OBVIOUS
      <4> QED BY <4>4, <4>5, <1>5
    <3> QED BY <3>1, <3>2
  <2> QED BY <2>1, <2>2, <2>3, <1>9 DEF Types
<1> QED BY <1>5, <1>12

\* A step in which nothing happens keeps the invariant.
LEMMA WalkIdles ==
  ASSUME WalkInv, UNCHANGED vars
  PROVE  WalkInv'
<1>1. UNCHANGED <<entities, pc, term, chain, entity, prev, pin, at, forward, linked, chains>>
  BY DEF vars, scan
<1>2. /\ Inputs' = Inputs /\ Units' = Units /\ OutputTerminals' = OutputTerminals /\ Whole' = Whole
      /\ \A i : SourceEntities(i)' = SourceEntities(i)
      /\ \A path : OfPath(path)' = OfPath(path) /\ Leaves(path)' = Leaves(path)
      /\ Documented' = Documented
  BY <1>1, SamePath
<1>3. /\ \A i : Type(i)' = Type(i) /\ Sources(i)' = Sources(i) /\ Pins(i)' = Pins(i)
                /\ Selector(i)' = Selector(i)
      /\ \A id : EntityById(id)' = EntityById(id)
      /\ Identifiable' = Identifiable
  BY <1>1, Same
<1>4. \A path : \A k : Standing(path, k)' = Standing(path, k)
  BY <1>1, <1>2, <1>3 DEF Standing, Above
<1>5. \A path : \A k : LevelsMarked(path, k)' = LevelsMarked(path, k)
  BY <1>1 DEF LevelsMarked, Placed
<1>6. \A k : InputsMarked(k)' = InputsMarked(k)
  BY <1>1, <1>2, <1>3 DEF InputsMarked, Placed
<1>7. \A path : LeavesMarked(path)' = LeavesMarked(path)
  BY <1>1, <1>2 DEF LeavesMarked, Ahead
<1>8. \A path : Walking(path)' = Walking(path)
  BY <1>1, <1>2, <1>3, <1>4, <1>5, <1>6, <1>7 DEF Walking
<1>9. Walked' = Walked
  BY <1>1, <1>2 DEF Walked
<1>10. \A path : Walk(path)' = Walk(path)
  BY <1>1, <1>8, <1>9 DEF Walk, Scanning
<1>11. DocumentedFound' = DocumentedFound
  BY <1>1, <1>2 DEF DocumentedFound
<1> QED BY <1>1, <1>2, <1>3, <1>10, <1>11 DEF WalkInv

\* Only the fallback rewires a device.
LEMMA KeepsEntities ==
  ASSUME ChainInv,
         \/ StartChain \/ NoMemory \/ ScanEntity \/ RejectEntity \/ ForwardDone
         \/ FollowReference \/ StartPins \/ NextPin \/ PinsDone \/ Backward
  PROVE  /\ UNCHANGED entities
         /\ pc \notin {"done", "failed"} /\ pc' \notin {"done", "failed"}
<1>1. CASE FollowReference
  <2> DEFINE f == Min(Referring)
  <2>1. /\ TypeOK /\ WellFormed /\ Cursor /\ Marked
        /\ pc = "forward" /\ Referring # {}
    BY <1>1 DEF ChainInv, FollowReference
  <2>2. at \in DOMAIN entities
    BY <2>1, ListsAre DEF Cursor, Marked
  <2>3. f \in Referring
    <3>1. Referring \in SUBSET Nat
      BY <2>1, EntityIs DEF Referring
    <3> QED BY <2>1, <3>1, MinIs
  <2>4. Type(f) = "XU" /\ Pins(f) = 1 => Reconnected(f) = entities
    <3> HIDE DEF f
    <3> QED BY <2>1, <2>2, <2>3, Refers, Unchanging
  <2> QED BY <1>1, <2>1, <2>4 DEF FollowReference, ForwardFails, GiveUp
<1>2. CASE NextPin
  BY <1>2 DEF NextPin, GiveUp
<1>3. CASE Backward
  BY <1>3 DEF Backward, GiveUp, ChainFound
<1>4. CASE StartChain \/ NoMemory \/ ScanEntity \/ RejectEntity \/ ForwardDone \/ StartPins \/ PinsDone
  BY <1>4 DEF StartChain, NoMemory, ScanEntity, RejectEntity, GiveUp, ForwardDone, AfterForward, StartPins,
              PinsDone, ChainFound
<1> QED BY <1>1, <1>2, <1>3, <1>4

\* The invariant of the walk is kept.
LEMMA WalkStep ==
  ASSUME ChainInv, WalkInv, [Next]_vars
  PROVE  WalkInv'
<1>1. CASE Fallback
  <2>1. pc' \in {"done", "failed"}
    BY <1>1 DEF Fallback
  <2>2. DocumentedFound'
    BY <1>1, WalkFallsBack, WalkRefuses
  <2> QED BY <2>1, <2>2 DEF WalkInv
<1>2. CASE ScanDone
  <2>1. pc' = "done"
    BY <1>2 DEF ScanDone
  <2>2. DocumentedFound'
    BY <1>2, WalkEndsScan
  <2> QED BY <2>1, <2>2 DEF WalkInv
<1>3. CASE UNCHANGED vars
  BY <1>3, WalkIdles
<1>4. ASSUME \/ StartChain \/ NoMemory \/ ScanEntity \/ RejectEntity \/ ForwardDone
             \/ FollowReference \/ StartPins \/ NextPin \/ PinsDone \/ Backward
      PROVE  WalkInv'
  <2>1. UNCHANGED entities /\ pc \notin {"done", "failed"} /\ pc' \notin {"done", "failed"}
    BY <1>4, KeepsEntities
  <2>2. DocumentedFound'
    BY <2>1 DEF DocumentedFound
  <2>3. Identifiable' = Identifiable /\ \A path : OfPath(path)' = OfPath(path)
    BY <2>1, Same, SamePath
  <2> SUFFICES ASSUME Identifiable, NEW path, OfPath(path)
               PROVE  Walk(path)'
    BY <2>2, <2>3 DEF WalkInv
  <2>4. Walk(path)
    BY <2>1 DEF WalkInv
  <2>5. Scanning => Walking(path)
    BY <2>4 DEF Walk
  <2>6. ASSUME Walking(path)', pc' # "scan" PROVE Walk(path)'
    BY <2>6 DEF Walk
  <2>7. CASE StartChain
    BY <2>4, <2>7, WalkStarts
  <2>8. CASE NoMemory
    BY <2>8 DEF NoMemory, Walk, Scanning
  <2>9. CASE ScanEntity
    <3>1. Scanning /\ pc' = "forward"
      BY <2>9 DEF ScanEntity, Scanning
    <3> QED BY <3>1, <2>5, <2>6, <2>9, WalkScans
  <2>10. CASE RejectEntity
    <3>1. pc = "entity" /\ (InChain(entity) \/ ~Acceptable(entity, chain))
      BY <2>10 DEF RejectEntity
    <3>2. Walking(path)
      BY <3>1, <2>5 DEF Scanning
    <3> QED BY <3>1, <3>2, WalkAccepts
  <2>11. CASE ForwardDone
    <3>1. Scanning /\ pc' # "scan"
      BY <2>11 DEF ForwardDone, AfterForward, Scanning
    <3> QED BY <3>1, <2>5, <2>6, <2>11, WalkForwards
  <2>12. CASE FollowReference
    <3>1. Scanning
      BY <2>12 DEF FollowReference, Scanning
    <3> QED BY <3>1, <2>5, <2>6, <2>12, WalkFollows
  <2>13. CASE StartPins
    <3>1. Scanning /\ pc' # "scan"
      BY <2>13 DEF StartPins, Scanning
    <3> QED BY <3>1, <2>5, <2>6, <2>13, WalkStartsPins
  <2>14. CASE NextPin
    <3>1. Scanning
      BY <2>14 DEF NextPin, Scanning
    <3> QED BY <3>1, <2>5, <2>6, <2>14, WalkPins
  <2>15. CASE PinsDone
    <3>1. Scanning
      BY <2>15 DEF PinsDone, Scanning
    <3>2. pc' = "scan" /\ Walked'
      BY <3>1, <2>5, <2>15, WalkEndsPins
    <3> QED BY <3>2 DEF Walk, Scanning
  <2>16. CASE Backward
    <3>1. Scanning
      BY <2>16 DEF Backward, Scanning
    <3> QED BY <3>1, <2>5, <2>16, WalkGoesBackward
  <2> QED BY <1>4, <2>7, <2>8, <2>9, <2>10, <2>11, <2>12, <2>13, <2>14, <2>15, <2>16
<1> QED BY <1>1, <1>2, <1>3, <1>4 DEF Next

\* No scan has begun.
LEMMA WalkInit ==
  Init => WalkInv
<1> SUFFICES ASSUME Init PROVE WalkInv
  OBVIOUS
<1>1. pc = "scan" /\ chains = <<>> /\ linked = {} /\ term = 0
  BY DEF Init
<1> QED BY <1>1 DEF WalkInv, Walk, Walked, Scanning, DocumentedFound

\* A device of one of the structures that the comment before uvc_scan_chain_entity lists,
\* its entities described in any order, gets one chain with all of its entities.
THEOREM DocumentedIsFound ==
  Spec => []DocumentedFound
<1>1. Init => ChainInv /\ WalkInv
  BY ChainInit, WalkInit
<1>2. ChainInv /\ WalkInv /\ [Next]_vars => (ChainInv /\ WalkInv)'
  BY ChainStep, WalkStep
<1>3. ChainInv /\ WalkInv => DocumentedFound
  BY DEF WalkInv
<1> QED BY <1>1, <1>2, <1>3, PTL DEF Spec

==============================================================================
