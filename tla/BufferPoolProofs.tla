-------------------------- MODULE BufferPoolProofs --------------------------
(***************************************************************************)
(* Proofs about BufferPool for any number of files, pages, frames and      *)
(* callers: PoolSound is inductive, one lemma for each method of the pool. *)
(***************************************************************************)
EXTENDS BufferPool, TLAPS, FiniteSetTheorems, WellFoundedInduction

-----------------------------------------------------------------------------
(* The least element of a set of numbers stands in for induction. *)

(* A set of natural numbers that is not empty has a least element.         *)
LEMMA LeastNat ==
  ASSUME NEW T \in SUBSET Nat, T # {}
  PROVE  \E x \in T : \A y \in T : x <= y
<1> DEFINE R == OpToRel(<, Nat)
<1>1. IsWellFoundedOn(R, Nat)
  BY NatLessThanWellFounded
<1>2. R = {ss \in Nat \X Nat : ss[1] < ss[2]}
  BY DEF OpToRel
<1>3. \A x, y \in Nat : y < x => <<y, x>> \in R
  BY <1>2
<1> HIDE DEF R
<1>4. PICK x \in T : \A y \in T : <<y, x>> \notin R
  BY <1>1, WFMin
<1>5. ASSUME NEW y \in T
      PROVE  x <= y
  <2>1. x \in Nat /\ y \in Nat
    OBVIOUS
  <2>2. ~(y < x)
    BY <1>3, <1>4, <2>1, Zenon
  <2>3. QED
    BY ONLY <2>1, <2>2
<1>6. QED
  BY <1>5

-----------------------------------------------------------------------------
(* The list of the LRU replacer. *)

Distinct(s) == \A i, j \in 1 .. Len(s) : s[i] = s[j] => i = j

(* LRUReplacer::victim takes the first frame out and nothing else.         *)
LEMMA TailList ==
  ASSUME NEW s \in Seq(Frame), s # <<>>, Distinct(s)
  PROVE  /\ Tail(s) \in Seq(Frame) /\ Distinct(Tail(s)) /\ Head(s) \in Frame
         /\ InList(Tail(s)) = InList(s) \ {Head(s)}
<1>1. /\ Tail(s) \in Seq(Frame) /\ Len(s) \in Nat \ {0} /\ Len(Tail(s)) = Len(s) - 1
      /\ Head(s) = s[1] /\ \A i \in 1 .. Len(s) - 1 : Tail(s)[i] = s[i + 1]
  OBVIOUS
<1>2. Distinct(Tail(s))
  BY <1>1 DEF Distinct
<1>3. InList(Tail(s)) \subseteq InList(s) \ {Head(s)}
  BY <1>1 DEF InList, Distinct
<1>4. ASSUME NEW f \in InList(s) \ {Head(s)}
      PROVE  f \in InList(Tail(s))
  <2>1. PICK i \in 1 .. Len(s) : f = s[i]
    BY DEF InList
  <2>2. i - 1 \in 1 .. Len(Tail(s)) /\ Tail(s)[i - 1] = f
    BY <1>1, <1>4, <2>1
  <2>3. QED
    BY <2>2 DEF InList
<1>5. QED
  BY <1>1, <1>2, <1>3, <1>4

(* LRUReplacer::pin takes the frame out and leaves the others.             *)
LEMMA PinList ==
  ASSUME NEW s \in Seq(Frame), NEW f \in Frame, Distinct(s)
  PROVE  /\ pin(s, f) \in Seq(Frame) /\ Distinct(pin(s, f))
         /\ InList(pin(s, f)) = InList(s) \ {f}
<1>1. CASE f \notin InList(s)
  BY <1>1 DEF pin
<1>2. CASE f \in InList(s)
  <2> DEFINE k == Position(s, f)
             t == pin(s, f)
  <2>1. k \in 1 .. Len(s) /\ s[k] = f
    BY <1>2 DEF InList, Position
  <2>2. Len(s) \in Nat /\ \A i \in 1 .. Len(s) : s[i] \in Frame
    OBVIOUS
  <2>3. t = [j \in 1 .. Len(s) - 1 |-> IF j < k THEN s[j] ELSE s[j + 1]]
    BY <1>2 DEF pin
  <2> HIDE DEF k, t
  <2>4. t \in Seq(Frame) /\ Len(t) = Len(s) - 1
    <3>1. \A j \in 1 .. Len(s) - 1 : (IF j < k THEN s[j] ELSE s[j + 1]) \in Frame
      BY <2>1, <2>2
    <3>2. QED
      BY <2>1, <2>2, <2>3, <3>1
  <2>5. \A j \in 1 .. Len(t) : t[j] = IF j < k THEN s[j] ELSE s[j + 1]
    BY <2>2, <2>3, <2>4
  <2>6. Distinct(t)
    BY <2>1, <2>2, <2>4, <2>5 DEF Distinct
  <2>7. InList(t) \subseteq InList(s) \ {f}
    BY <2>1, <2>2, <2>4, <2>5 DEF InList, Distinct
  <2>8. ASSUME NEW g \in InList(s) \ {f}
        PROVE  g \in InList(t)
    <3>1. PICK i \in 1 .. Len(s) : g = s[i]
      BY DEF InList
    <3>2. i # k
      BY <2>1, <2>8, <3>1
    <3>3. \E j \in 1 .. Len(t) : t[j] = g
      <4>1. CASE i < k
        BY <2>1, <2>2, <2>4, <2>5, <3>1, <4>1
      <4>2. CASE i > k
        <5>1. i - 1 \in 1 .. Len(t) /\ t[i - 1] = g
          BY <2>1, <2>2, <2>4, <2>5, <3>1, <4>2
        <5>2. QED
          BY <5>1
      <4>3. QED
        BY <2>1, <2>2, <3>1, <3>2, <4>1, <4>2
    <3>4. QED
      BY <3>3 DEF InList
  <2>9. QED
    BY <2>4, <2>6, <2>7, <2>8 DEF t
<1>3. QED
  BY <1>1, <1>2

(* LRUReplacer::unpin appends the frame, for the list is as long as the    *)
(* pool only when every frame is in it.                                    *)
LEMMA UnpinList ==
  ASSUME NEW s \in Seq(Frame), NEW f \in Frame, Distinct(s)
  PROVE  /\ unpin(s, f) \in Seq(Frame) /\ Distinct(unpin(s, f))
         /\ InList(unpin(s, f)) = InList(s) \cup {f}
<1>1. CASE f \in InList(s)
  BY <1>1 DEF unpin
<1>2. CASE f \notin InList(s)
  <2>1. Len(s) \in Nat /\ \A i \in 1 .. Len(s) : s[i] \in Frame
    OBVIOUS
  <2>2. IsFiniteSet(Frame) /\ IsFiniteSet(Frame \ {f}) /\ Cardinality(Frame) \in Nat
        /\ Cardinality(Frame \ {f}) = Cardinality(Frame) - 1
    BY PoolAssumption, FS_RemoveElement, FS_CardinalityType
  <2>3. IsFiniteSet(1 .. Len(s)) /\ Cardinality(1 .. Len(s)) = Len(s)
    <3>1. 1 \in Int /\ Len(s) \in Int
      BY <2>1
    <3>2. /\ IsFiniteSet(1 .. Len(s))
          /\ Cardinality(1 .. Len(s)) = IF 1 > Len(s) THEN 0 ELSE Len(s) - 1 + 1
      BY <3>1, FS_Interval
    <3>3. QED
      BY <2>1, <3>2
  <2>4. Len(s) <= Cardinality(Frame \ {f})
    <3> DEFINE g == [i \in 1 .. Len(s) |-> s[i]]
    <3>1. g \in Injection(1 .. Len(s), Frame \ {f})
      BY <1>2, <2>1 DEF Injection, IsInjective, Distinct, InList
    <3> HIDE DEF g
    <3>2. Cardinality(1 .. Len(s)) <= Cardinality(Frame \ {f})
      BY <2>2, <3>1, FS_Injection
    <3>3. QED
      BY <2>3, <3>2
  <2>5. unpin(s, f) = Append(s, f)
    BY <1>2, <2>1, <2>2, <2>4 DEF unpin
  <2>6. /\ Append(s, f) \in Seq(Frame) /\ Len(Append(s, f)) = Len(s) + 1
        /\ Append(s, f)[Len(s) + 1] = f
        /\ \A i \in 1 .. Len(s) : Append(s, f)[i] = s[i]
    BY <2>1
  <2>7. InList(Append(s, f)) = InList(s) \cup {f}
    BY <2>1, <2>6 DEF InList
  <2>8. Distinct(Append(s, f))
    BY <1>2, <2>1, <2>6 DEF Distinct, InList
  <2>9. QED
    BY <2>5, <2>6, <2>7, <2>8
<1>3. QED
  BY <1>1, <1>2

(* The first m steps of KeepOnly. *)
IsKeep(g, s, S, m) ==
  g = [n \in 0 .. m |-> IF n = 0 THEN <<>>
                        ELSE IF s[n] \in S THEN Append(g[n - 1], s[n]) ELSE g[n - 1]]

(* The recursion of KeepOnly defines a function.                           *)
LEMMA KeepExists ==
  ASSUME NEW s, NEW S, NEW m \in Nat
  PROVE  \E g : IsKeep(g, s, S, m)
<1> DEFINE T == {k \in Nat : ~\E g : IsKeep(g, s, S, k)}
<1>1. SUFFICES ASSUME T # {} PROVE FALSE
  OBVIOUS
<1>2. PICK k \in T : \A j \in T : k <= j
  <2>1. T \in SUBSET Nat
    OBVIOUS
  <2> HIDE DEF T
  <2>2. QED
    BY <1>1, <2>1, LeastNat
<1>3. k # 0
  <2>1. IsKeep([n \in 0 .. 0 |-> <<>>], s, S, 0)
    BY DEF IsKeep
  <2>2. QED
    BY <2>1
<1>4. k - 1 \in Nat /\ k - 1 \notin T
  BY <1>2, <1>3
<1>5. PICK g : IsKeep(g, s, S, k - 1)
  BY <1>4
<1> DEFINE Step(n, h) == IF s[n] \in S THEN Append(h[n - 1], s[n]) ELSE h[n - 1]
           G == [n \in 0 .. k |-> IF n < k THEN g[n] ELSE Step(k, g)]
<1>6. \A n \in 0 .. k - 1 : g[n] = IF n = 0 THEN <<>> ELSE Step(n, g)
  BY <1>4, <1>5 DEF IsKeep
<1>7. \A n \in 0 .. k : n # 0 => G[n - 1] = g[n - 1]
  BY <1>4
<1>8. \A n \in 0 .. k : G[n] = IF n = 0 THEN <<>> ELSE Step(n, G)
  <2> TAKE n \in 0 .. k
  <2>1. n # 0 => Step(n, G) = Step(n, g)
    BY <1>7
  <2>2. CASE n = k
    BY <1>3, <1>4, <2>1, <2>2
  <2>3. CASE n < k
    <3>1. n \in 0 .. k - 1 /\ G[n] = g[n]
      BY <1>4, <2>3
    <3> HIDE DEF G, Step
    <3>2. QED
      BY <1>6, <2>1, <3>1
  <2>4. QED
    BY <1>4, <2>2, <2>3
<1>9. IsKeep(G, s, S, k)
  <2>1. G = [n \in 0 .. k |-> G[n]]
    OBVIOUS
  <2>2. G = [n \in 0 .. k |-> IF n = 0 THEN <<>> ELSE Step(n, G)]
    <3> HIDE DEF G, Step
    <3>1. QED
      BY <1>8, <2>1
  <2> HIDE DEF G
  <2>3. QED
    BY <2>2 DEF IsKeep
<1>10. QED
  BY <1>9

(* Taking the frames of a file out of the list keeps the others.           *)
LEMMA KeepList ==
  ASSUME NEW s \in Seq(Frame), NEW S, Distinct(s)
  PROVE  /\ KeepOnly(s, S) \in Seq(Frame) /\ Distinct(KeepOnly(s, S))
         /\ InList(KeepOnly(s, S)) = InList(s) \cap S
<1> DEFINE K == CHOOSE g : IsKeep(g, s, S, Len(s))
           Good(n) == /\ K[n] \in Seq(Frame) /\ Distinct(K[n])
                      /\ InList(K[n]) = {s[i] : i \in 1 .. n} \cap S
           T == {n \in 0 .. Len(s) : ~Good(n)}
<1>1. Len(s) \in Nat /\ \A i \in 1 .. Len(s) : s[i] \in Frame
  OBVIOUS
<1>2. IsKeep(K, s, S, Len(s))
  BY <1>1, KeepExists
<1>3. KeepOnly(s, S) = K[Len(s)]
  BY DEF KeepOnly, IsKeep
<1> HIDE DEF K
<1>4. \A n \in 0 .. Len(s) :
        K[n] = IF n = 0 THEN <<>> ELSE IF s[n] \in S THEN Append(K[n - 1], s[n]) ELSE K[n - 1]
  BY <1>2 DEF IsKeep
<1>5. Good(0)
  <2>1. K[0] = <<>>
    BY <1>1, <1>4
  <2>2. <<>> \in Seq(Frame) /\ Len(<<>>) = 0
    OBVIOUS
  <2>3. Distinct(<<>>) /\ InList(<<>>) = {}
    BY <2>2 DEF Distinct, InList
  <2>4. {s[i] : i \in 1 .. 0} = {}
    OBVIOUS
  <2>5. QED
    BY <2>1, <2>2, <2>3, <2>4
<1>6. ASSUME NEW n \in 1 .. Len(s), Good(n - 1)
      PROVE  Good(n)
  <2> DEFINE k == K[n - 1]
  <2>1. /\ n \in Nat /\ n \in 0 .. Len(s) /\ n # 0 /\ s[n] \in Frame
        /\ K[n] = IF s[n] \in S THEN Append(k, s[n]) ELSE k
    BY <1>1, <1>4
  <2>2. k \in Seq(Frame) /\ Distinct(k) /\ InList(k) = {s[i] : i \in 1 .. n - 1} \cap S
    BY <1>6
  <2>3. {s[i] : i \in 1 .. n} = {s[i] : i \in 1 .. n - 1} \cup {s[n]}
    BY <2>1
  <2>4. s[n] \notin {s[i] : i \in 1 .. n - 1}
    BY <1>1, <2>1 DEF Distinct
  <2> HIDE DEF k
  <2>5. CASE s[n] \notin S
    BY <2>1, <2>2, <2>3, <2>5
  <2>6. CASE s[n] \in S
    <3>1. /\ Append(k, s[n]) \in Seq(Frame) /\ Len(Append(k, s[n])) = Len(k) + 1 /\ Len(k) \in Nat
          /\ Append(k, s[n])[Len(k) + 1] = s[n]
          /\ \A i \in 1 .. Len(k) : Append(k, s[n])[i] = k[i]
      BY <2>1, <2>2
    <3>2. InList(Append(k, s[n])) = InList(k) \cup {s[n]}
      BY <3>1 DEF InList
    <3>3. s[n] \notin InList(k)
      BY <2>2, <2>4
    <3>4. Distinct(Append(k, s[n]))
      BY <2>2, <3>1, <3>3 DEF Distinct, InList
    <3>5. K[n] = Append(k, s[n])
      BY <2>1, <2>6
    <3>6. QED
      BY <2>2, <2>3, <2>6, <3>1, <3>2, <3>4, <3>5
  <2>7. QED
    BY <2>5, <2>6
<1>7. T = {}
  <2> SUFFICES ASSUME T # {} PROVE FALSE
    OBVIOUS
  <2>1. T \in SUBSET Nat
    BY <1>1
  <2>2. PICK n \in T : \A j \in T : n <= j
    <3> HIDE DEF T
    <3>1. QED
      BY <2>1, LeastNat
  <2> HIDE DEF Good
  <2>3. n \in 1 .. Len(s)
    BY <1>1, <1>5, <2>2
  <2>4. Good(n - 1)
    BY <1>1, <2>2, <2>3
  <2>5. QED
    BY <1>6, <2>3, <2>4
<1>8. Good(Len(s))
  <2> HIDE DEF Good
  <2>1. QED
    BY <1>1, <1>7
<1>9. QED
  BY <1>3, <1>8 DEF InList

-----------------------------------------------------------------------------
(* What a sound pool says about pages, pins and victims. *)

(* DiskManager::write_page changes the pages it is given; of the others    *)
(* only a hole below them turns into zeroes.                               *)
LEMMA WritePages ==
  ASSUME NEW d \in [Page -> Val \cup {Absent}], NEW S \in SUBSET Page, NEW new \in [Page -> Val]
  PROVE  /\ write_pages(d, S, new) \in [Page -> Val \cup {Absent}]
         /\ \A q \in S : write_pages(d, S, new)[q] = new[q]
         /\ \A q \in Page \ S :
              \/ write_pages(d, S, new)[q] = d[q]
              \/ d[q] = Absent /\ write_pages(d, S, new)[q] = Zero
<1> DEFINE w == write_pages(d, S, new)
           Below(q) == \E r \in S : r[1] = q[1] /\ r[2] > q[2]
<1>1. w = [q \in Page |-> IF q \in S THEN new[q]
                         ELSE IF d[q] = Absent /\ Below(q) THEN Zero ELSE d[q]]
  BY DEF write_pages
<1> HIDE DEF w, Below
<1>2. \A q \in S : w[q] = new[q] /\ w[q] \in Val
  BY <1>1
<1>3. \A q \in Page \ S : w[q] = d[q] \/ (d[q] = Absent /\ w[q] = Zero)
  BY <1>1
<1>4. \A q \in Page : w[q] \in Val \cup {Absent}
  BY <1>2, <1>3, PoolAssumption
<1>5. w \in [Page -> Val \cup {Absent}]
  BY <1>1, <1>4
<1>6. QED
  BY <1>2, <1>3, <1>5 DEF w

(* The types of the fields.                                                *)
LEMMA Types ==
  ASSUME PoolSound
  PROVE  /\ page_table \in [Page -> Frame \cup {NoFrame}]
         /\ pages \in [Frame -> PageFrame]
         /\ \A g \in Frame : /\ pages[g].id \in Page \cup {NoPage} /\ pages[g].data \in Val
                             /\ pages[g].is_dirty \in BOOLEAN /\ pages[g].pin_count \in Nat
         /\ free_list \subseteq Frame
         /\ LRUlist \in Seq(Frame) /\ Distinct(LRUlist) /\ InList(LRUlist) \subseteq Frame
         /\ disk \in [Page -> Val \cup {Absent}]
         /\ fd2pageno \in [Fd -> 0 .. MaxPages]
         /\ opens \in [Fd -> Nat \ {0}] /\ isopen \in [Fd -> BOOLEAN]
         /\ held \in [Handle -> Hold \cup {NoHandle}]
<1>1. TypeOK /\ Distinct(LRUlist)
  BY DEF PoolSound, VictimsUnused, Distinct
<1>2. \A g \in Frame : /\ pages[g].id \in Page \cup {NoPage} /\ pages[g].data \in Val
                       /\ pages[g].is_dirty \in BOOLEAN /\ pages[g].pin_count \in Nat
  BY <1>1 DEF TypeOK, PageFrame
<1>3. \A i \in 1 .. Len(LRUlist) : LRUlist[i] \in Frame
  BY <1>1 DEF TypeOK
<1>4. InList(LRUlist) \subseteq Frame
  BY <1>3 DEF InList
<1>5. QED
  BY <1>1, <1>2, <1>4 DEF TypeOK

(* No frame holds two pages, and a caller's page is in the frame it points *)
(* to.                                                                     *)
LEMMA Located ==
  ASSUME PoolSound
  PROVE  /\ \A p, q \in Page : Mapped(p) /\ page_table[p] = page_table[q] => p = q
         /\ \A h \in Handle : held[h] # NoHandle =>
              /\ held[h] \in Hold /\ held[h].page \in Page /\ held[h].frame \in Frame
              /\ Mapped(held[h].page) /\ page_table[held[h].page] = held[h].frame
              /\ pages[held[h].frame].id = held[h].page
         /\ \A p \in Page : Mapped(p) => page_table[p] \in Frame
<1>1. \A p, q \in Page : Mapped(p) /\ page_table[p] = page_table[q] => p = q
  BY DEF PoolSound, TableSound, Mapped
<1>2. \A p \in Page : Mapped(p) => page_table[p] \in Frame
  BY DEF PoolSound, TypeOK, Mapped
<1>3. ASSUME NEW h \in Handle, held[h] # NoHandle
      PROVE  /\ held[h] \in Hold /\ held[h].page \in Page /\ held[h].frame \in Frame
             /\ Mapped(held[h].page) /\ page_table[held[h].page] = held[h].frame
             /\ pages[held[h].frame].id = held[h].page
  <2>1. held[h] \in Hold
    BY <1>3, Types
  <2>2. held[h].page \in Page /\ held[h].frame \in Frame
    BY <2>1 DEF Hold
  <2>3. page_table[held[h].page] = held[h].frame
    BY <1>3 DEF PoolSound, HandlesLocated
  <2>4. Mapped(held[h].page)
    BY <2>2, <2>3, NullAssumption DEF Mapped
  <2>5. QED
    BY <2>1, <2>2, <2>3, <2>4 DEF PoolSound, TableSound
<1>4. QED
  BY <1>1, <1>2, <1>3

(* The pins of a frame are finitely many, and none says nobody uses it.    *)
LEMMA Pins ==
  ASSUME PoolSound, NEW f \in Frame
  PROVE  /\ IsFiniteSet(HandlesOn(f)) /\ pages[f].pin_count = Cardinality(HandlesOn(f))
         /\ pages[f].pin_count \in Nat
         /\ pages[f].pin_count = 0 <=> HandlesOn(f) = {}
<1>1. IsFiniteSet(HandlesOn(f))
  BY PoolAssumption, FS_Subset DEF HandlesOn
<1>2. pages[f].pin_count = Cardinality(HandlesOn(f))
  BY DEF PoolSound, PinsCounted
<1>3. QED
  BY <1>1, <1>2, FS_CardinalityType, FS_EmptySet

(* What PoolSound says of the frames of the two lists.                     *)
LEMMA Listed ==
  ASSUME PoolSound
  PROVE  /\ \A g \in free_list \cup InList(LRUlist) : HandlesOn(g) = {}
         /\ \A g \in InList(LRUlist) : pages[g].id \in Page /\ page_table[pages[g].id] = g
BY DEF PoolSound, VictimsUnused

(* A victim is in use by nobody, only its own page is mapped to it, and    *)
(* taking it removes it from the lists.                                    *)
LEMMA VictimFacts ==
  ASSUME PoolSound, NEW f \in Frame, Victim(f), TakeVictim(f)
  PROVE  /\ HandlesOn(f) = {}
         /\ \A q \in Page : page_table[q] = f <=> q = pages[f].id
         /\ pages[f].is_dirty => pages[f].id \in Page
         /\ LRUlist' \in Seq(Frame) /\ Distinct(LRUlist')
         /\ InList(LRUlist') = InList(LRUlist) \ {f}
         /\ free_list' = free_list \ {f}
<1>1. LRUlist \in Seq(Frame) /\ Distinct(LRUlist) /\ free_list \cap InList(LRUlist) = {}
  BY DEF PoolSound, TypeOK, VictimsUnused, Distinct
<1>2. CASE f \in free_list
  <2>1. /\ HandlesOn(f) = {} /\ pages[f].id = NoPage /\ ~pages[f].is_dirty
    BY <1>2 DEF PoolSound, VictimsUnused
  <2>2. \A q \in Page : q # NoPage /\ page_table[q] # f
    BY <2>1, NullAssumption DEF PoolSound, TableSound, Mapped
  <2>3. LRUlist' = LRUlist /\ free_list' = free_list \ {f}
    BY <1>2 DEF TakeVictim
  <2>4. QED
    BY <1>1, <1>2, <2>1, <2>2, <2>3
<1>3. CASE f \notin free_list
  <2>1. LRUlist # <<>> /\ f = Head(LRUlist) /\ LRUlist' = Tail(LRUlist) /\ free_list' = free_list \ {f}
    BY <1>3 DEF Victim, TakeVictim
  <2>2. f \in InList(LRUlist)
    <3>1. 1 \in 1 .. Len(LRUlist) /\ Head(LRUlist) = LRUlist[1]
      BY <1>1, <2>1
    <3>2. QED
      BY <2>1, <3>1 DEF InList
  <2>3. HandlesOn(f) = {} /\ pages[f].id \in Page /\ page_table[pages[f].id] = f
    BY <2>2 DEF PoolSound, VictimsUnused
  <2>4. \A q \in Page : page_table[q] = f <=> q = pages[f].id
    BY <2>3, NullAssumption DEF PoolSound, TableSound, Mapped
  <2>5. QED
    BY <1>1, <2>1, <2>3, <2>4, TailList
<1>4. QED
  BY <1>2, <1>3

(* Writing the victim back puts its page on disk and leaves the rest.      *)
LEMMA WriteBackFacts ==
  ASSUME PoolSound, NEW f \in Frame, HandlesOn(f) = {},
         \A q \in Page : page_table[q] = f <=> q = pages[f].id,
         pages[f].is_dirty => pages[f].id \in Page
  PROVE  /\ WriteBack(f) \in [Page -> Val \cup {Absent}]
         /\ \A q \in Page : page_table[q] = f => WriteBack(f)[q] = pages[f].data
         /\ \A q \in Page : page_table[q] # f =>
              \/ WriteBack(f)[q] = disk[q]
              \/ disk[q] = Absent /\ WriteBack(f)[q] = Zero
<1>1. disk \in [Page -> Val \cup {Absent}] /\ pages[f].data \in Val
  BY Types
<1>2. CASE pages[f].is_dirty
  <2>1. pages[f].id \in Page
    BY <1>2
  <2> DEFINE new == [p \in Page |-> pages[f].data]
  <2>2. new \in [Page -> Val] /\ WriteBack(f) = write_pages(disk, {pages[f].id}, new)
    BY <1>1, <1>2 DEF WriteBack
  <2>3. \A q \in Page : new[q] = pages[f].data
    OBVIOUS
  <2> HIDE DEF new
  <2>4. {pages[f].id} \in SUBSET Page
    BY <2>1
  <2> DEFINE w == write_pages(disk, {pages[f].id}, new)
  <2>5. /\ w \in [Page -> Val \cup {Absent}]
        /\ \A q \in {pages[f].id} : w[q] = new[q]
        /\ \A q \in Page \ {pages[f].id} : w[q] = disk[q] \/ (disk[q] = Absent /\ w[q] = Zero)
    BY <1>1, <2>2, <2>4, WritePages
  <2> HIDE DEF w
  <2>6. WriteBack(f) = w
    BY <2>2 DEF w
  <2>7. QED
    BY <2>1, <2>3, <2>5, <2>6
<1>3. CASE ~pages[f].is_dirty
  <2>1. WriteBack(f) = disk
    BY <1>3 DEF WriteBack
  <2>2. ASSUME NEW q \in Page, page_table[q] = f
        PROVE  disk[q] = pages[f].data
    <3>1. Mapped(q)
      BY <2>2, NullAssumption DEF Mapped
    <3>2. ASSUME NEW h \in Handle, held[h] # NoHandle, held[h].page = q
          PROVE  FALSE
      BY <2>2, <3>2, Located DEF HandlesOn
    <3>3. QED
      BY <1>3, <2>2, <3>1, <3>2 DEF PoolSound, CleanIsOnDisk
  <2>3. QED
    BY <1>1, <2>1, <2>2
<1>4. QED
  BY <1>2, <1>3

(* A caller that gets a page is one more user of its frame.                *)
LEMMA TakeHandle ==
  ASSUME PoolSound, NEW h \in Handle, held[h] = NoHandle,
         NEW r \in Hold, held' = [held EXCEPT ![h] = r], NEW g \in Frame
  PROVE  /\ HandlesOn(g)' = IF g = r.frame THEN HandlesOn(g) \cup {h} ELSE HandlesOn(g)
         /\ Cardinality(HandlesOn(g)')
              = IF g = r.frame THEN pages[g].pin_count + 1 ELSE pages[g].pin_count
<1>1. r # NoHandle /\ r.frame \in Frame
  BY NoHandleAssumption DEF Hold
<1>2. \A k \in Handle : held'[k] = IF k = h THEN r ELSE held[k]
  BY Types
<1>3. HandlesOn(g)' = IF g = r.frame THEN HandlesOn(g) \cup {h} ELSE HandlesOn(g)
  BY <1>1, <1>2 DEF HandlesOn
<1>4. h \notin HandlesOn(g)
  BY DEF HandlesOn
<1>5. CASE g = r.frame
  <2>1. HandlesOn(g)' = HandlesOn(g) \cup {h}
    BY <1>3, <1>5
  <2>2. Cardinality(HandlesOn(g) \cup {h}) = Cardinality(HandlesOn(g)) + 1
    BY <1>4, Pins, FS_AddElement
  <2>3. QED
    BY <1>5, <2>1, <2>2, Pins
<1>6. CASE g # r.frame
  BY <1>3, <1>6, Pins
<1>7. QED
  BY <1>5, <1>6

(* One that gives it back is one less.                                     *)
LEMMA DropHandle ==
  ASSUME PoolSound, NEW h \in Handle, held[h] # NoHandle,
         held' = [held EXCEPT ![h] = NoHandle], NEW g \in Frame
  PROVE  /\ HandlesOn(g)' = HandlesOn(g) \ {h}
         /\ Cardinality(HandlesOn(g)')
              = IF g = held[h].frame THEN pages[g].pin_count - 1 ELSE pages[g].pin_count
<1>2. \A k \in Handle : held'[k] = IF k = h THEN NoHandle ELSE held[k]
  BY Types
<1>3. HandlesOn(g)' = HandlesOn(g) \ {h}
  BY <1>2 DEF HandlesOn
<1>4. h \in HandlesOn(g) <=> g = held[h].frame
  BY DEF HandlesOn
<1>5. CASE g = held[h].frame
  <2>1. Cardinality(HandlesOn(g) \ {h}) = Cardinality(HandlesOn(g)) - 1
    BY <1>4, <1>5, Pins, FS_RemoveElement
  <2>2. QED
    BY <1>3, <1>5, <2>1, Pins
<1>6. CASE g # held[h].frame
  <2>1. HandlesOn(g) \ {h} = HandlesOn(g)
    BY <1>4, <1>6
  <2>2. QED
    BY <1>3, <1>6, <2>1, Pins
<1>7. QED
  BY <1>5, <1>6

-----------------------------------------------------------------------------
(* One lemma for each method. *)

(* A page is brought into a victim: what fetch_page on a miss and new_page *)
(* have in common.  The content is that of the disk, or the caller will    *)
(* unpin the page as written.                                              *)
LEMMA LoadInv ==
  ASSUME PoolSound, NEW h \in Handle, NEW p \in Page, NEW f \in Frame,
         NEW c \in Val, NEW w \in BOOLEAN,
         held[h] = NoHandle, ~Mapped(p), isopen[p[1]], Victim(f), TakeVictim(f),
         disk' = WriteBack(f), w \/ disk'[p] = c,
         page_table' = [Erase(pages[f].id) EXCEPT ![p] = f],
         pages' = [pages EXCEPT ![f] = FreshPage(p, c)],
         held' = [held EXCEPT ![h] = [page |-> p, frame |-> f, wrote |-> w]],
         fd2pageno' \in [Fd -> 0 .. MaxPages], p[2] < fd2pageno'[p[1]],
         \A q \in Page : q[2] < fd2pageno[q[1]] => q[2] < fd2pageno'[q[1]],
         UNCHANGED files
  PROVE  PoolSound'
<1> DEFINE r == [page |-> p, frame |-> f, wrote |-> w]
<1>1. /\ HandlesOn(f) = {}
      /\ \A q \in Page : page_table[q] = f <=> q = pages[f].id
      /\ pages[f].is_dirty => pages[f].id \in Page
      /\ LRUlist' \in Seq(Frame) /\ Distinct(LRUlist')
      /\ InList(LRUlist') = InList(LRUlist) \ {f}
      /\ free_list' = free_list \ {f}
  BY VictimFacts
<1>2. /\ disk' \in [Page -> Val \cup {Absent}]
      /\ \A q \in Page : page_table[q] # f =>
           disk'[q] = disk[q] \/ (disk[q] = Absent /\ disk'[q] = Zero)
  BY <1>1, WriteBackFacts
<1>3. r \in Hold /\ r.page = p /\ r.frame = f /\ r.wrote = w /\ r # NoHandle
  BY NoHandleAssumption DEF Hold
<1>4. \A k \in Handle : held'[k] = IF k = h THEN r ELSE held[k]
  BY Types
<1>5. /\ page_table' \in [Page -> Frame \cup {NoFrame}]
      /\ \A q \in Page : page_table'[q] = IF q = p THEN f
                                         ELSE IF page_table[q] = f THEN NoFrame ELSE page_table[q]
  <2>1. Erase(pages[f].id) = [q \in Page |-> IF page_table[q] = f THEN NoFrame ELSE page_table[q]]
    BY <1>1 DEF Erase
  <2>2. page_table' = [[q \in Page |-> IF page_table[q] = f THEN NoFrame ELSE page_table[q]] EXCEPT ![p] = f]
    BY <2>1
  <2>3. QED
    BY ONLY <2>2, Types, PoolSound, p \in Page, f \in Frame
<1>6. /\ pages' \in [Frame -> PageFrame]
      /\ \A g \in Frame : g # f => pages'[g] = pages[g]
      /\ pages'[f].id = p /\ pages'[f].data = c /\ ~pages'[f].is_dirty /\ pages'[f].pin_count = 1
  <2>1. /\ FreshPage(p, c) \in PageFrame /\ FreshPage(p, c).id = p /\ FreshPage(p, c).data = c
        /\ ~FreshPage(p, c).is_dirty /\ FreshPage(p, c).pin_count = 1
    BY DEF FreshPage, PageFrame
  <2>2. pages \in [Frame -> PageFrame]
    BY Types
  <2>3. QED
    BY ONLY <2>1, <2>2, pages' = [pages EXCEPT ![f] = FreshPage(p, c)], f \in Frame
<1> HIDE DEF r
<1>7. \A k \in Handle : held[k] # NoHandle => held[k].frame # f /\ held[k].page # p
  BY <1>1, Located DEF HandlesOn
<1>8. TypeOK'
  <2>1. held' \in [Handle -> Hold \cup {NoHandle}]
    BY <1>3 DEF PoolSound, TypeOK, r
  <2>2. free_list' \subseteq Frame
    BY <1>1, Types
  <2>3. opens' \in [Fd -> Nat \ {0}] /\ isopen' \in [Fd -> BOOLEAN]
    BY DEF PoolSound, TypeOK, files
  <2>4. QED
    BY <1>1, <1>2, <1>5, <1>6, <2>1, <2>2, <2>3 DEF TypeOK
<1>9. HandlesLocated'
  <2> SUFFICES ASSUME NEW k \in Handle, held'[k] # NoHandle
               PROVE  page_table'[held'[k].page] = held'[k].frame
    BY DEF HandlesLocated
  <2>1. CASE k = h
    BY <1>3, <1>4, <1>5, <2>1
  <2>2. CASE k # h
    <3>1. held'[k] = held[k]
      BY <1>4, <2>2
    <3>2. /\ held[k].page \in Page /\ page_table[held[k].page] = held[k].frame
          /\ held[k].frame # f /\ held[k].page # p
      BY <1>7, <3>1, Located
    <3>3. QED
      BY <1>5, <3>1, <3>2
  <2>3. QED
    BY <2>1, <2>2
<1>10. \A q \in Page : Mapped(q)' => q = p \/ (Mapped(q) /\ page_table[q] # f /\ page_table'[q] = page_table[q])
  BY <1>5 DEF Mapped
<1>11. TableSound'
  <2> SUFFICES ASSUME NEW q \in Page, Mapped(q)'
               PROVE  pages'[page_table'[q]].id = q
    BY DEF TableSound
  <2>1. CASE q = p
    BY ONLY <1>5, <1>6, <2>1, p \in Page
  <2>2. CASE q # p
    <3>1. Mapped(q) /\ page_table[q] # f /\ page_table'[q] = page_table[q] /\ page_table[q] \in Frame
      BY <1>10, <2>2, Located
    <3>2. pages[page_table[q]].id = q
      BY <3>1 DEF PoolSound, TableSound
    <3>3. QED
      BY ONLY <1>6, <3>1, <3>2
  <2>3. QED
    BY <2>1, <2>2
<1>12. TableWithinFiles'
  BY <1>10 DEF PoolSound, TableWithinFiles, files
<1>13. PinsCounted'
  <2> SUFFICES ASSUME NEW g \in Frame
               PROVE  pages'[g].pin_count = Cardinality(HandlesOn(g)')
    BY DEF PinsCounted
  <2>1. Cardinality(HandlesOn(g)') = IF g = f THEN pages[g].pin_count + 1 ELSE pages[g].pin_count
    <3>1. held' = [held EXCEPT ![h] = r]
      BY DEF r
    <3>2. QED
      BY ONLY <1>3, <3>1, TakeHandle, PoolSound, h \in Handle, held[h] = NoHandle, g \in Frame
  <2>2. pages[f].pin_count = 0
    BY ONLY <1>1, f \in Frame, PoolSound, Pins
  <2>3. CASE g = f
    <3>1. pages'[f].pin_count = 1
      BY ONLY <1>6
    <3>2. QED
      BY ONLY <2>1, <2>2, <2>3, <3>1
  <2>4. CASE g # f
    BY ONLY <1>6, <2>1, <2>4, g \in Frame
  <2>5. QED
    BY <2>3, <2>4
<1>14. VictimsUnused'
  <2>1. \A g \in free_list' \cup InList(LRUlist') : g \in Frame /\ g # f
    <3>1. \A i \in 1 .. Len(LRUlist') : LRUlist'[i] \in Frame
      <4>1. LRUlist' \in Seq(Frame)
        BY ONLY <1>1
      <4>2. QED
        BY ONLY <4>1
    <3>2. InList(LRUlist') \subseteq Frame
      BY <3>1 DEF InList
    <3>3. free_list' \subseteq Frame
      BY <1>8 DEF TypeOK
    <3>4. QED
      BY <1>1, <3>2, <3>3
  <2>2. \A g \in Frame : g # f => HandlesOn(g)' = HandlesOn(g)
    BY <1>3, TakeHandle DEF r
  <2>3. \A g \in free_list' \cup InList(LRUlist') : HandlesOn(g)' = {}
    BY <1>1, <2>1, <2>2 DEF PoolSound, VictimsUnused
  <2>4. \A g \in free_list' : pages'[g].id = NoPage /\ ~pages'[g].is_dirty
    BY <1>1, <1>6, <2>1 DEF PoolSound, VictimsUnused
  <2>5. \A g \in InList(LRUlist') : pages'[g].id \in Page /\ page_table'[pages'[g].id] = g
    <3> TAKE g \in InList(LRUlist')
    <3>1. g \in Frame /\ g # f /\ pages'[g] = pages[g] /\ pages[g].id \in Page /\ page_table[pages[g].id] = g
      BY <1>1, <1>6, <2>1 DEF PoolSound, VictimsUnused
    <3>2. pages[g].id # p
      BY <3>1, NullAssumption DEF Mapped
    <3>3. QED
      BY <1>5, <3>1, <3>2
  <2>6. free_list' \cap InList(LRUlist') = {}
    BY <1>1 DEF PoolSound, VictimsUnused
  <2>7. QED
    BY <1>1, <2>3, <2>4, <2>5, <2>6 DEF VictimsUnused, Distinct
<1>15. UnpinnedIsEvictable'
  <2> SUFFICES ASSUME NEW q \in Page, Mapped(q)'
               PROVE  pages'[page_table'[q]].pin_count > 0 \/ page_table'[q] \in InList(LRUlist')
    BY DEF UnpinnedIsEvictable
  <2>1. CASE q = p
    BY ONLY <1>5, <1>6, <2>1, p \in Page
  <2>2. CASE q # p
    <3>1. Mapped(q) /\ page_table[q] # f /\ page_table'[q] = page_table[q] /\ page_table[q] \in Frame
      BY <1>10, <2>2, Located
    <3>2. pages[page_table[q]].pin_count > 0 \/ page_table[q] \in InList(LRUlist)
      BY <3>1 DEF PoolSound, UnpinnedIsEvictable
    <3>3. QED
      BY <1>1, <1>6, <3>1, <3>2
  <2>3. QED
    BY <2>1, <2>2
<1>16. CleanIsOnDisk'
  <2> SUFFICES ASSUME NEW q \in Page, Mapped(q)'
               PROVE  \/ pages'[page_table'[q]].is_dirty
                      \/ \E k \in Handle : held'[k] # NoHandle /\ held'[k].page = q /\ held'[k].wrote
                      \/ disk'[q] = pages'[page_table'[q]].data
    BY DEF CleanIsOnDisk
  <2>1. CASE q = p
    <3>1. w => held'[h] # NoHandle /\ held'[h].page = q /\ held'[h].wrote
      BY <1>3, <1>4, <2>1
    <3>2. ~w => disk'[q] = pages'[page_table'[q]].data
      BY <1>5, <1>6, <2>1
    <3>3. QED
      BY <3>1, <3>2
  <2>2. CASE q # p
    <3>1. /\ Mapped(q) /\ page_table[q] # f /\ page_table'[q] = page_table[q] /\ page_table[q] \in Frame
          /\ pages'[page_table'[q]] = pages[page_table[q]]
      <4>1. Mapped(q) /\ page_table[q] # f /\ page_table'[q] = page_table[q]
        BY <1>10, <2>2
      <4>2. page_table[q] \in Frame
        BY <4>1, Located
      <4>3. QED
        BY ONLY <1>6, <4>1, <4>2
    <3>2. \/ pages[page_table[q]].is_dirty
          \/ \E k \in Handle : held[k] # NoHandle /\ held[k].page = q /\ held[k].wrote
          \/ disk[q] = pages[page_table[q]].data
      BY <3>1 DEF PoolSound, CleanIsOnDisk
    <3>3. ASSUME NEW k \in Handle, held[k] # NoHandle, held[k].page = q, held[k].wrote
          PROVE  held'[k] # NoHandle /\ held'[k].page = q /\ held'[k].wrote
      BY <1>4, <3>3
    <3>4. pages[page_table[q]].data # Absent
      BY ONLY <3>1, NullAssumption, PoolSound, Types
    <3>5. QED
      BY <1>2, <3>1, <3>2, <3>3, <3>4
  <2>3. QED
    BY <2>1, <2>2
<1>17. QED
  BY <1>8, <1>9, <1>11, <1>12, <1>13, <1>14, <1>15, <1>16 DEF PoolSound

(* fetch_page of a page in the pool.                                       *)
LEMMA FetchHitInv ==
  ASSUME PoolSound, NEW h \in Handle, NEW p \in Page, held[h] = NoHandle,
         FetchHit(h, p), UNCHANGED <<fd2pageno, files>>
  PROVE  PoolSound'
<1> DEFINE f == page_table[p]
           r == [page |-> p, frame |-> f, wrote |-> FALSE]
<1>1. Mapped(p) /\ f \in Frame
  BY Located DEF FetchHit
<1> HIDE DEF f
<1>2. r \in Hold /\ r.page = p /\ r.frame = f /\ r.wrote = FALSE /\ r # NoHandle
  <2>1. r \in Hold
    BY ONLY <1>1, p \in Page DEF Hold, r
  <2>2. r.page = p /\ r.frame = f /\ r.wrote = FALSE
    BY ONLY DEF r
  <2>3. QED
    BY ONLY <2>1, <2>2, NoHandleAssumption
<1>3. /\ pages' = [pages EXCEPT ![f].pin_count = @ + 1] /\ LRUlist' = pin(LRUlist, f)
      /\ held' = [held EXCEPT ![h] = r] /\ page_table' = page_table
      /\ free_list' = free_list /\ disk' = disk /\ fd2pageno' = fd2pageno
      /\ opens' = opens /\ isopen' = isopen
  BY DEF FetchHit, files, f
<1> HIDE DEF r
<1>4. \A k \in Handle : held'[k] = IF k = h THEN r ELSE held[k]
  BY ONLY <1>3, PoolSound, Types
<1>5. /\ pages' \in [Frame -> PageFrame]
      /\ \A g \in Frame : g # f => pages'[g] = pages[g]
      /\ pages'[f].id = pages[f].id /\ pages'[f].data = pages[f].data
      /\ pages'[f].is_dirty = pages[f].is_dirty /\ pages'[f].pin_count = pages[f].pin_count + 1
  <2> DEFINE x == [pages[f] EXCEPT !.pin_count = @ + 1]
  <2>1. pages \in [Frame -> PageFrame] /\ pages[f] \in PageFrame
    BY ONLY <1>1, PoolSound, Types
  <2>2. /\ x \in PageFrame /\ x.id = pages[f].id /\ x.data = pages[f].data
        /\ x.is_dirty = pages[f].is_dirty /\ x.pin_count = pages[f].pin_count + 1
    BY ONLY <2>1 DEF PageFrame
  <2>3. pages' = [pages EXCEPT ![f] = x]
    BY ONLY <1>3
  <2> HIDE DEF x
  <2>4. QED
    BY ONLY <1>1, <2>1, <2>2, <2>3
<1>6. \A g \in Frame : /\ pages'[g].id = pages[g].id /\ pages'[g].data = pages[g].data
                       /\ pages'[g].is_dirty = pages[g].is_dirty
  BY ONLY <1>5
<1>7. \A q \in Page : Mapped(q)' <=> Mapped(q)
  BY ONLY <1>3 DEF Mapped
<1>8. /\ LRUlist' \in Seq(Frame) /\ Distinct(LRUlist') /\ InList(LRUlist') = InList(LRUlist) \ {f}
  BY ONLY <1>1, <1>3, PoolSound, Types, PinList
<1>9. TypeOK'
  <2>1. held' \in [Handle -> Hold \cup {NoHandle}]
    BY ONLY <1>2, <1>3, PoolSound, Types
  <2>2. QED
    BY ONLY <1>3, <1>5, <1>8, <2>1, PoolSound, Types DEF TypeOK
<1>10. HandlesLocated'
  <2> SUFFICES ASSUME NEW k \in Handle, held'[k] # NoHandle
               PROVE  page_table'[held'[k].page] = held'[k].frame
    BY DEF HandlesLocated
  <2>1. CASE k = h
    BY ONLY <1>2, <1>3, <1>4, <2>1, h \in Handle DEF f
  <2>2. CASE k # h
    BY ONLY <1>3, <1>4, <2>2, k \in Handle, held'[k] # NoHandle, PoolSound, Located
  <2>3. QED
    BY <2>1, <2>2
<1>11. TableSound'
  BY ONLY <1>3, <1>6, <1>7, PoolSound, Located DEF TableSound, PoolSound
<1>12. TableWithinFiles'
  BY ONLY <1>3, <1>7, PoolSound DEF TableWithinFiles, PoolSound
<1>13. \A g \in Frame : /\ HandlesOn(g)' = IF g = f THEN HandlesOn(g) \cup {h} ELSE HandlesOn(g)
                        /\ Cardinality(HandlesOn(g)')
                             = IF g = f THEN pages[g].pin_count + 1 ELSE pages[g].pin_count
  BY ONLY <1>2, <1>3, TakeHandle, PoolSound, h \in Handle, held[h] = NoHandle
<1>14. PinsCounted'
  BY ONLY <1>1, <1>5, <1>13 DEF PinsCounted
<1>15. VictimsUnused'
  <2>1. \A g \in free_list : g # f
    BY ONLY <1>1, PoolSound, NullAssumption, p \in Page DEF PoolSound, VictimsUnused, TableSound, f
  <2>2. \A g \in free_list' \cup InList(LRUlist') : g \in Frame /\ g # f
    BY ONLY <1>3, <1>8, <2>1, PoolSound, Types
  <2>3. \A g \in free_list' \cup InList(LRUlist') : HandlesOn(g)' = {}
    BY ONLY <1>3, <1>8, <1>13, <2>2, PoolSound DEF PoolSound, VictimsUnused
  <2>4. \A g \in free_list' : pages'[g].id = NoPage /\ ~pages'[g].is_dirty
    BY ONLY <1>3, <1>6, <2>2, PoolSound DEF PoolSound, VictimsUnused
  <2>5. \A g \in InList(LRUlist') : pages'[g].id \in Page /\ page_table'[pages'[g].id] = g
    BY ONLY <1>3, <1>6, <1>8, <2>2, PoolSound DEF PoolSound, VictimsUnused
  <2>6. free_list' \cap InList(LRUlist') = {}
    BY ONLY <1>3, <1>8, PoolSound DEF PoolSound, VictimsUnused
  <2>7. QED
    BY ONLY <1>8, <2>3, <2>4, <2>5, <2>6 DEF VictimsUnused, Distinct
<1>16. UnpinnedIsEvictable'
  <2> SUFFICES ASSUME NEW q \in Page, Mapped(q)'
               PROVE  pages'[page_table'[q]].pin_count > 0 \/ page_table'[q] \in InList(LRUlist')
    BY DEF UnpinnedIsEvictable
  <2>1. Mapped(q) /\ page_table'[q] = page_table[q] /\ page_table[q] \in Frame
    BY ONLY <1>3, <1>7, q \in Page, Mapped(q)', PoolSound, Located
  <2>2. pages[page_table[q]].pin_count > 0 \/ page_table[q] \in InList(LRUlist)
    BY ONLY <2>1, q \in Page, PoolSound DEF PoolSound, UnpinnedIsEvictable
  <2>3. CASE page_table[q] = f
    <3>1. pages[f].pin_count \in Nat
      BY ONLY <1>1, PoolSound, Types
    <3>2. pages'[f].pin_count = pages[f].pin_count + 1
      BY ONLY <1>5
    <3>3. QED
      BY ONLY <2>1, <2>3, <3>1, <3>2
  <2>4. CASE page_table[q] # f
    BY ONLY <1>5, <1>8, <2>1, <2>2, <2>4
  <2>5. QED
    BY <2>3, <2>4
<1>17. CleanIsOnDisk'
  <2> SUFFICES ASSUME NEW q \in Page, Mapped(q)'
               PROVE  \/ pages'[page_table'[q]].is_dirty
                      \/ \E k \in Handle : held'[k] # NoHandle /\ held'[k].page = q /\ held'[k].wrote
                      \/ disk'[q] = pages'[page_table'[q]].data
    BY DEF CleanIsOnDisk
  <2>1. Mapped(q) /\ page_table'[q] = page_table[q] /\ page_table[q] \in Frame
    BY ONLY <1>3, <1>7, q \in Page, Mapped(q)', PoolSound, Located
  <2>2. \/ pages[page_table[q]].is_dirty
        \/ \E k \in Handle : held[k] # NoHandle /\ held[k].page = q /\ held[k].wrote
        \/ disk[q] = pages[page_table[q]].data
    BY ONLY <2>1, q \in Page, PoolSound DEF PoolSound, CleanIsOnDisk
  <2>3. ASSUME NEW k \in Handle, held[k] # NoHandle
        PROVE  held'[k] = held[k]
    BY ONLY <1>4, <2>3, held[h] = NoHandle, k \in Handle
  <2>4. QED
    BY ONLY <1>3, <1>6, <2>1, <2>2, <2>3
<1>18. QED
  BY <1>9, <1>10, <1>11, <1>12, <1>14, <1>15, <1>16, <1>17 DEF PoolSound


(* fetch_page of a page that has to be read.                               *)
LEMMA FetchMissInv ==
  ASSUME PoolSound, NEW h \in Handle, NEW p \in Page, NEW f \in Frame, held[h] = NoHandle,
         isopen[p[1]], p[2] < fd2pageno[p[1]],
         FetchMiss(h, p, f), UNCHANGED <<fd2pageno, files>>
  PROVE  PoolSound'
<1>1. /\ ~Mapped(p) /\ Victim(f) /\ TakeVictim(f) /\ disk' = WriteBack(f)
      /\ disk'[p] # Absent /\ page_table' = [Erase(pages[f].id) EXCEPT ![p] = f]
      /\ pages' = [pages EXCEPT ![f] = FreshPage(p, disk'[p])]
      /\ held' = [held EXCEPT ![h] = [page |-> p, frame |-> f, wrote |-> FALSE]]
  BY DEF FetchMiss
<1>2. disk'[p] \in Val
  <2>1. /\ HandlesOn(f) = {}
        /\ \A q \in Page : page_table[q] = f <=> q = pages[f].id
        /\ pages[f].is_dirty => pages[f].id \in Page
    BY ONLY <1>1, PoolSound, f \in Frame, VictimFacts
  <2>2. disk' \in [Page -> Val \cup {Absent}]
    BY ONLY <1>1, <2>1, PoolSound, f \in Frame, WriteBackFacts
  <2>3. QED
    BY ONLY <1>1, <2>2, p \in Page
<1>3. fd2pageno' \in [Fd -> 0 .. MaxPages]
  BY ONLY PoolSound, Types, UNCHANGED <<fd2pageno, files>>
<1> DEFINE c == disk'[p]
<1>4. c \in Val /\ pages' = [pages EXCEPT ![f] = FreshPage(p, c)] /\ (FALSE \/ disk'[p] = c)
  BY ONLY <1>1, <1>2
<1> HIDE DEF c
<1>5. QED
  BY <1>1, <1>3, <1>4, LoadInv

(* new_page: a number not given out before has no page in the pool.        *)
LEMMA NewPageInv ==
  ASSUME PoolSound, NEW h \in Handle, NEW fd \in Fd, new_page(h, fd)
  PROVE  PoolSound'
<1> DEFINE p == <<fd, fd2pageno[fd]>>
<1>1. PICK f \in Frame :
        /\ Victim(f) /\ TakeVictim(f) /\ disk' = WriteBack(f)
        /\ page_table' = [Erase(pages[f].id) EXCEPT ![p] = f]
        /\ pages' = [pages EXCEPT ![f] = FreshPage(p, Zero)]
        /\ held' = [held EXCEPT ![h] = [page |-> p, frame |-> f, wrote |-> TRUE]]
  BY DEF new_page
<1>2. /\ held[h] = NoHandle /\ isopen[fd] /\ fd2pageno[fd] < MaxPages
      /\ fd2pageno' = [fd2pageno EXCEPT ![fd] = @ + 1] /\ UNCHANGED files
  BY DEF new_page
<1>3. fd2pageno \in [Fd -> 0 .. MaxPages] /\ MaxPages \in Nat
  BY Types, PoolAssumption
<1>4. p \in Page /\ p[1] = fd /\ p[2] = fd2pageno[fd]
  BY ONLY <1>2, <1>3, fd \in Fd DEF Page
<1>5. fd2pageno' \in [Fd -> 0 .. MaxPages] /\ fd2pageno'[fd] = fd2pageno[fd] + 1
  BY ONLY <1>2, <1>3, fd \in Fd
<1>6. \A q \in Page : q[1] \in Fd /\ q[2] \in Nat
  BY PoolAssumption DEF Page
<1>7. \A q \in Page : q[2] < fd2pageno[q[1]] => q[2] < fd2pageno'[q[1]]
  BY ONLY <1>2, <1>3, <1>6, fd \in Fd
<1> HIDE DEF p
<1>8. ~Mapped(p) /\ p[2] < fd2pageno'[p[1]]
  BY ONLY <1>3, <1>4, <1>5, PoolSound, fd \in Fd DEF PoolSound, TableWithinFiles
<1>9. Zero \in Val /\ isopen[p[1]]
  BY <1>2, <1>4, PoolAssumption
<1>10. QED
  BY <1>1, <1>2, <1>4, <1>5, <1>7, <1>8, <1>9, LoadInv


(* fetch_page whose read fails: the victim and its page are gone, and      *)
(* everything else is as before.                                           *)
LEMMA FetchFailsInv ==
  ASSUME PoolSound, NEW p \in Page, NEW f \in Frame, FetchFails(p, f), UNCHANGED <<fd2pageno, files>>
  PROVE  PoolSound'
<1>1. /\ ~Mapped(p) /\ Victim(f) /\ TakeVictim(f) /\ disk' = WriteBack(f)
      /\ page_table' = Erase(pages[f].id) /\ held' = held
      /\ pages' = IF pages[f].is_dirty
                  THEN [pages EXCEPT ![f].id = p, ![f].is_dirty = FALSE] ELSE pages
      /\ fd2pageno' = fd2pageno /\ opens' = opens /\ isopen' = isopen
  BY DEF FetchFails, files
<1>2. /\ HandlesOn(f) = {}
      /\ \A q \in Page : page_table[q] = f <=> q = pages[f].id
      /\ pages[f].is_dirty => pages[f].id \in Page
      /\ LRUlist' \in Seq(Frame) /\ Distinct(LRUlist')
      /\ InList(LRUlist') = InList(LRUlist) \ {f}
      /\ free_list' = free_list \ {f}
  BY ONLY <1>1, PoolSound, f \in Frame, VictimFacts
<1>3. /\ disk' \in [Page -> Val \cup {Absent}]
      /\ \A q \in Page : page_table[q] # f =>
           disk'[q] = disk[q] \/ (disk[q] = Absent /\ disk'[q] = Zero)
  BY ONLY <1>1, <1>2, PoolSound, f \in Frame, WriteBackFacts
<1>4. /\ page_table' \in [Page -> Frame \cup {NoFrame}]
      /\ \A q \in Page : page_table'[q] = IF page_table[q] = f THEN NoFrame ELSE page_table[q]
  <2>1. page_table' = [q \in Page |-> IF page_table[q] = f THEN NoFrame ELSE page_table[q]]
    BY ONLY <1>1, <1>2 DEF Erase
  <2>2. QED
    BY ONLY <2>1, PoolSound, Types
<1>5. /\ pages' \in [Frame -> PageFrame] /\ pages'[f].pin_count = pages[f].pin_count
      /\ \A g \in Frame : g # f => pages'[g] = pages[g]
  <2> DEFINE x == [pages[f] EXCEPT !.id = p, !.is_dirty = FALSE]
  <2>1. pages \in [Frame -> PageFrame] /\ pages[f] \in PageFrame
    BY ONLY PoolSound, f \in Frame, Types
  <2>2. x \in PageFrame /\ x.pin_count = pages[f].pin_count
    BY ONLY <2>1, p \in Page DEF PageFrame
  <2>3. pages' = IF pages[f].is_dirty THEN [pages EXCEPT ![f] = x] ELSE pages
    BY ONLY <1>1, <2>1, f \in Frame
  <2> HIDE DEF x
  <2>4. QED
    BY ONLY <2>1, <2>2, <2>3, f \in Frame
<1>6. \A q \in Page : Mapped(q)' =>
        /\ Mapped(q) /\ page_table[q] # f /\ page_table'[q] = page_table[q]
        /\ page_table[q] \in Frame /\ pages'[page_table'[q]] = pages[page_table[q]]
  <2>1. \A q \in Page : Mapped(q)' => Mapped(q) /\ page_table[q] # f /\ page_table'[q] = page_table[q]
    BY ONLY <1>4 DEF Mapped
  <2>2. \A q \in Page : Mapped(q) => page_table[q] \in Frame
    BY ONLY PoolSound, Located
  <2>3. QED
    BY ONLY <1>5, <2>1, <2>2
<1>7. TypeOK'
  BY ONLY <1>1, <1>2, <1>3, <1>4, <1>5, PoolSound, Types DEF TypeOK
<1>8. HandlesLocated'
  <2>1. \A k \in Handle : held[k] # NoHandle => held[k].frame # f
    BY ONLY <1>2 DEF HandlesOn
  <2>2. QED
    BY ONLY <1>1, <1>4, <2>1, PoolSound, Located DEF HandlesLocated
<1>9. TableSound'
  BY ONLY <1>6, PoolSound DEF TableSound, PoolSound
<1>10. TableWithinFiles'
  BY ONLY <1>1, <1>6, PoolSound DEF TableWithinFiles, PoolSound
<1>11. \A g \in Frame : HandlesOn(g)' = HandlesOn(g)
  BY ONLY <1>1 DEF HandlesOn
<1>12. PinsCounted'
  BY ONLY <1>5, <1>11, PoolSound DEF PinsCounted, PoolSound
<1>13. VictimsUnused'
  <2>1. \A g \in free_list' \cup InList(LRUlist') : g \in Frame /\ g # f /\ pages'[g] = pages[g]
    BY ONLY <1>2, <1>5, PoolSound, Types
  <2>2. \A g \in free_list' \cup InList(LRUlist') : HandlesOn(g)' = {}
    BY ONLY <1>2, <1>11, <2>1, PoolSound DEF PoolSound, VictimsUnused
  <2>3. \A g \in free_list' : pages'[g].id = NoPage /\ ~pages'[g].is_dirty
    BY ONLY <1>2, <2>1, PoolSound DEF PoolSound, VictimsUnused
  <2>4. \A g \in InList(LRUlist') : pages'[g].id \in Page /\ page_table'[pages'[g].id] = g
    <3>1. \A g \in InList(LRUlist') : pages[g].id \in Page /\ page_table[pages[g].id] = g
      BY ONLY <1>2, PoolSound, Listed
    <3>2. QED
      BY ONLY <1>4, <2>1, <3>1
  <2>5. free_list' \cap InList(LRUlist') = {}
    BY ONLY <1>2, PoolSound DEF PoolSound, VictimsUnused
  <2>6. QED
    BY ONLY <1>2, <2>2, <2>3, <2>4, <2>5 DEF VictimsUnused, Distinct
<1>14. UnpinnedIsEvictable'
  BY ONLY <1>2, <1>6, PoolSound DEF PoolSound, UnpinnedIsEvictable
<1>15. CleanIsOnDisk'
  <2> SUFFICES ASSUME NEW q \in Page, Mapped(q)'
               PROVE  \/ pages'[page_table'[q]].is_dirty
                      \/ \E k \in Handle : held'[k] # NoHandle /\ held'[k].page = q /\ held'[k].wrote
                      \/ disk'[q] = pages'[page_table'[q]].data
    BY DEF CleanIsOnDisk
  <2>1. /\ Mapped(q) /\ page_table[q] # f /\ page_table[q] \in Frame
        /\ pages'[page_table'[q]] = pages[page_table[q]]
    BY <1>6
  <2>2. \/ pages[page_table[q]].is_dirty
        \/ \E k \in Handle : held[k] # NoHandle /\ held[k].page = q /\ held[k].wrote
        \/ disk[q] = pages[page_table[q]].data
    BY ONLY <2>1, q \in Page, PoolSound DEF PoolSound, CleanIsOnDisk
  <2>3. pages[page_table[q]].data # Absent
    BY ONLY <2>1, NullAssumption, PoolSound, Types
  <2>4. QED
    BY ONLY <1>1, <1>3, <2>1, <2>2, <2>3, q \in Page
<1>16. QED
  BY <1>7, <1>8, <1>9, <1>10, <1>12, <1>13, <1>14, <1>15 DEF PoolSound


(* A write through a pinned pointer.                                       *)
LEMMA WritePageInv ==
  ASSUME PoolSound, NEW h \in Handle, NEW v \in Val, WritePage(h, v)
  PROVE  PoolSound'
<1> DEFINE f == held[h].frame
           r == [held[h] EXCEPT !.wrote = TRUE]
<1>1. /\ held[h] # NoHandle /\ pages' = [pages EXCEPT ![f].data = v]
      /\ held' = [held EXCEPT ![h] = r]
      /\ page_table' = page_table /\ free_list' = free_list /\ LRUlist' = LRUlist
      /\ disk' = disk /\ fd2pageno' = fd2pageno /\ opens' = opens /\ isopen' = isopen
  BY DEF WritePage, files
<1>2. /\ held[h] \in Hold /\ f \in Frame /\ held[h].page \in Page
      /\ page_table[held[h].page] = f /\ pages[f].id = held[h].page
  BY <1>1, Located
<1>3. /\ r \in Hold /\ r.page = held[h].page /\ r.frame = f /\ r.wrote = TRUE
  BY ONLY <1>2 DEF Hold, r
<1>4. r # NoHandle
  BY ONLY <1>3, NoHandleAssumption
<1> HIDE DEF r, f
<1>5. \A k \in Handle : held'[k] = IF k = h THEN r ELSE held[k]
  BY ONLY <1>1, PoolSound, Types
<1>6. /\ pages' \in [Frame -> PageFrame]
      /\ \A g \in Frame : g # f => pages'[g] = pages[g]
      /\ pages'[f].id = pages[f].id /\ pages'[f].is_dirty = pages[f].is_dirty
      /\ pages'[f].pin_count = pages[f].pin_count
  <2> DEFINE x == [pages[f] EXCEPT !.data = v]
  <2>1. pages \in [Frame -> PageFrame] /\ pages[f] \in PageFrame
    BY ONLY <1>2, PoolSound, Types
  <2>2. /\ x \in PageFrame /\ x.id = pages[f].id
        /\ x.is_dirty = pages[f].is_dirty /\ x.pin_count = pages[f].pin_count
    BY ONLY <2>1, v \in Val DEF PageFrame
  <2>3. pages' = [pages EXCEPT ![f] = x]
    BY ONLY <1>1
  <2> HIDE DEF x
  <2>4. QED
    BY ONLY <1>2, <2>1, <2>2, <2>3
<1>7. \A g \in Frame : /\ pages'[g].id = pages[g].id /\ pages'[g].is_dirty = pages[g].is_dirty
                       /\ pages'[g].pin_count = pages[g].pin_count
  BY ONLY <1>6
<1>8. \A q \in Page : Mapped(q)' <=> Mapped(q)
  BY ONLY <1>1 DEF Mapped
<1>9. \A k \in Handle : /\ held'[k] # NoHandle <=> held[k] # NoHandle
                        /\ held[k] # NoHandle => /\ held'[k].page = held[k].page
                                                 /\ held'[k].frame = held[k].frame
                                                 /\ held[k].wrote => held'[k].wrote
  BY ONLY <1>1, <1>3, <1>4, <1>5 DEF f
<1>10. TypeOK'
  <2>1. held' \in [Handle -> Hold \cup {NoHandle}]
    BY ONLY <1>1, <1>3, PoolSound, Types
  <2>2. QED
    BY ONLY <1>1, <1>6, <2>1, PoolSound, Types DEF TypeOK
<1>11. HandlesLocated'
  BY ONLY <1>1, <1>9, PoolSound DEF HandlesLocated, PoolSound
<1>12. TableSound'
  BY ONLY <1>1, <1>7, <1>8, PoolSound, Located DEF TableSound, PoolSound
<1>13. TableWithinFiles'
  BY ONLY <1>1, <1>8, PoolSound DEF TableWithinFiles, PoolSound
<1>14. \A g \in Frame : HandlesOn(g)' = HandlesOn(g)
  BY ONLY <1>9 DEF HandlesOn
<1>15. PinsCounted'
  BY ONLY <1>7, <1>14, PoolSound DEF PinsCounted, PoolSound
<1>16. VictimsUnused'
  <2>1. \A g \in free_list \cup InList(LRUlist) : g \in Frame
    BY ONLY PoolSound, Types
  <2>2. QED
    BY ONLY <1>1, <1>7, <1>14, <2>1, PoolSound DEF PoolSound, VictimsUnused
<1>17. UnpinnedIsEvictable'
  BY ONLY <1>1, <1>7, <1>8, PoolSound, Located DEF PoolSound, UnpinnedIsEvictable
<1>18. CleanIsOnDisk'
  <2> SUFFICES ASSUME NEW q \in Page, Mapped(q)'
               PROVE  \/ pages'[page_table'[q]].is_dirty
                      \/ \E k \in Handle : held'[k] # NoHandle /\ held'[k].page = q /\ held'[k].wrote
                      \/ disk'[q] = pages'[page_table'[q]].data
    BY DEF CleanIsOnDisk
  <2>1. Mapped(q) /\ page_table'[q] = page_table[q] /\ page_table[q] \in Frame
    BY ONLY <1>1, <1>8, q \in Page, Mapped(q)', PoolSound, Located
  <2>2. CASE page_table[q] = f
    <3>1. q = held[h].page
      BY ONLY <1>2, <2>1, <2>2, q \in Page, PoolSound, Located
    <3>2. held'[h] # NoHandle /\ held'[h].page = q /\ held'[h].wrote
      BY ONLY <1>3, <1>4, <1>5, <3>1, h \in Handle
    <3>3. QED
      BY ONLY <3>2, h \in Handle
  <2>3. CASE page_table[q] # f
    <3>1. \/ pages[page_table[q]].is_dirty
          \/ \E k \in Handle : held[k] # NoHandle /\ held[k].page = q /\ held[k].wrote
          \/ disk[q] = pages[page_table[q]].data
      BY ONLY <2>1, q \in Page, PoolSound DEF PoolSound, CleanIsOnDisk
    <3>2. pages'[page_table'[q]] = pages[page_table[q]]
      BY ONLY <1>6, <2>1, <2>3
    <3>3. QED
      BY ONLY <1>1, <1>9, <3>1, <3>2
  <2>4. QED
    BY ONLY <2>2, <2>3
<1>19. QED
  BY <1>10, <1>11, <1>12, <1>13, <1>15, <1>16, <1>17, <1>18 DEF PoolSound


(* unpin_page.  The page is found where the caller had it, and the last    *)
(* user makes it evictable.                                                *)
LEMMA UnpinPageInv ==
  ASSUME PoolSound, NEW h \in Handle, unpin_page(h)
  PROVE  PoolSound'
<1> DEFINE w == held[h].wrote
<1> PICK f \in Frame : f = held[h].frame
  BY Located DEF unpin_page
<1>1. /\ held[h] # NoHandle /\ held' = [held EXCEPT ![h] = NoHandle]
      /\ page_table' = page_table /\ free_list' = free_list
      /\ disk' = disk /\ fd2pageno' = fd2pageno /\ opens' = opens /\ isopen' = isopen
  BY DEF unpin_page, files
<1>2. /\ held[h] \in Hold /\ f \in Frame /\ held[h].page \in Page /\ Mapped(held[h].page)
      /\ page_table[held[h].page] = f /\ pages[f].id = held[h].page
  BY <1>1, Located
<1>3. w \in BOOLEAN
  BY ONLY <1>2 DEF Hold
<1>4. h \in HandlesOn(f) /\ pages[f].pin_count \in Nat /\ pages[f].pin_count > 0
  <2>1. h \in HandlesOn(f)
    BY ONLY <1>1, h \in Handle, f = held[h].frame DEF HandlesOn
  <2>2. pages[f].pin_count \in Nat /\ (pages[f].pin_count = 0 <=> HandlesOn(f) = {})
    BY ONLY <1>2, PoolSound, Pins
  <2>3. QED
    BY ONLY <2>1, <2>2
<1>5. /\ pages' = [pages EXCEPT ![f].pin_count = @ - 1, ![f].is_dirty = Dirtied(@, w)]
      /\ LRUlist' = IF pages[f].pin_count = 1 THEN unpin(LRUlist, f) ELSE LRUlist
  BY <1>2, <1>4 DEF unpin_page
<1> HIDE DEF w
<1>6. \A k \in Handle : held'[k] = IF k = h THEN NoHandle ELSE held[k]
  BY ONLY <1>1, PoolSound, Types
<1>7. /\ pages' \in [Frame -> PageFrame]
      /\ \A g \in Frame : g # f => pages'[g] = pages[g]
      /\ pages'[f].id = pages[f].id /\ pages'[f].data = pages[f].data
      /\ pages'[f].is_dirty = (pages[f].is_dirty \/ w)
      /\ pages'[f].pin_count = pages[f].pin_count - 1
  <2> DEFINE d == pages[f].is_dirty \/ w
             n == pages[f].pin_count - 1
             x == [pages[f] EXCEPT !.pin_count = n, !.is_dirty = d]
  <2>1. pages \in [Frame -> PageFrame] /\ pages[f] \in PageFrame
    BY ONLY <1>2, PoolSound, Types
  <2>2. d \in BOOLEAN /\ n \in Nat
    BY ONLY <1>3, <1>4 DEF d, n
  <2>3. pages' = [pages EXCEPT ![f] = x]
    BY ONLY <1>2, <1>5, <2>1 DEF Dirtied
  <2> HIDE DEF d, n
  <2>4. /\ x \in PageFrame /\ x.id = pages[f].id /\ x.data = pages[f].data
        /\ x.is_dirty = d /\ x.pin_count = n
    BY ONLY <2>1, <2>2 DEF PageFrame
  <2> HIDE DEF x
  <2>5. /\ pages' \in [Frame -> PageFrame] /\ \A g \in Frame : g # f => pages'[g] = pages[g]
        /\ pages'[f] = x
    BY ONLY <1>2, <2>1, <2>3, <2>4
  <2>6. QED
    BY ONLY <2>4, <2>5 DEF d, n
<1>8. \A g \in Frame : /\ pages'[g].id = pages[g].id /\ pages'[g].data = pages[g].data
                       /\ pages[g].is_dirty => pages'[g].is_dirty
  BY ONLY <1>7
<1>9. \A q \in Page : Mapped(q)' <=> Mapped(q)
  BY ONLY <1>1 DEF Mapped
<1>10. \A g \in Frame : /\ HandlesOn(g)' = HandlesOn(g) \ {h}
                        /\ Cardinality(HandlesOn(g)')
                             = IF g = f THEN pages[g].pin_count - 1 ELSE pages[g].pin_count
  BY ONLY <1>1, PoolSound, h \in Handle, f = held[h].frame, DropHandle
<1>11. /\ LRUlist' \in Seq(Frame) /\ Distinct(LRUlist')
       /\ InList(LRUlist') = IF pages[f].pin_count = 1 THEN InList(LRUlist) \cup {f} ELSE InList(LRUlist)
  BY ONLY <1>2, <1>5, PoolSound, Types, UnpinList
<1>12. TypeOK'
  <2>1. held' \in [Handle -> Hold \cup {NoHandle}]
    BY ONLY <1>1, PoolSound, Types
  <2>2. QED
    BY ONLY <1>1, <1>7, <1>11, <2>1, PoolSound, Types DEF TypeOK
<1>13. HandlesLocated'
  BY ONLY <1>1, <1>6, PoolSound DEF HandlesLocated, PoolSound
<1>14. TableSound'
  BY ONLY <1>1, <1>8, <1>9, PoolSound, Located DEF TableSound, PoolSound
<1>15. TableWithinFiles'
  BY ONLY <1>1, <1>9, PoolSound DEF TableWithinFiles, PoolSound
<1>16. PinsCounted'
  <2> SUFFICES ASSUME NEW g \in Frame
               PROVE  pages'[g].pin_count = Cardinality(HandlesOn(g)')
    BY DEF PinsCounted
  <2>1. CASE g = f
    BY ONLY <1>7, <1>10, <2>1, g \in Frame
  <2>2. CASE g # f
    BY ONLY <1>7, <1>10, <2>2, g \in Frame
  <2>3. QED
    BY ONLY <2>1, <2>2
<1>17. f \notin free_list
  BY ONLY <1>4, PoolSound DEF PoolSound, VictimsUnused
<1>18. VictimsUnused'
  <2>1. \A g \in free_list' \cup InList(LRUlist') : g \in Frame
    BY ONLY <1>1, <1>2, <1>11, PoolSound, Types
  <2>2. pages[f].pin_count = 1 => HandlesOn(f)' = {}
    <3>1. IsFiniteSet(HandlesOn(f)) /\ HandlesOn(f)' = HandlesOn(f) \ {h}
      BY ONLY <1>10, PoolSound, Pins, f \in Frame
    <3>2. IsFiniteSet(HandlesOn(f) \ {h})
      BY ONLY <3>1, FS_RemoveElement
    <3>3. pages[f].pin_count = 1 => Cardinality(HandlesOn(f) \ {h}) = 0
      <4>1. Cardinality(HandlesOn(f)') = pages[f].pin_count - 1
        BY ONLY <1>10, f \in Frame
      <4>2. QED
        BY ONLY <3>1, <4>1
    <3>4. QED
      BY ONLY <3>1, <3>2, <3>3, FS_EmptySet
  <2>3. \A g \in free_list' \cup InList(LRUlist') : HandlesOn(g)' = {}
    <3> TAKE g \in free_list' \cup InList(LRUlist')
    <3>1. CASE g \in free_list \cup InList(LRUlist)
      BY ONLY <1>10, <2>1, <3>1, PoolSound, g \in free_list' \cup InList(LRUlist') DEF PoolSound, VictimsUnused
    <3>2. CASE g \notin free_list \cup InList(LRUlist)
      <4>1. free_list' = free_list
        BY ONLY <1>1
      <4>2. g \in InList(LRUlist') \ InList(LRUlist)
        BY ONLY <3>2, <4>1, g \in free_list' \cup InList(LRUlist')
      <4>3. g = f /\ pages[f].pin_count = 1
        BY ONLY <1>11, <4>2
      <4>4. QED
        BY ONLY <2>2, <4>3, Zenon
    <3>3. QED
      BY ONLY <3>1, <3>2
  <2>4. \A g \in free_list' : pages'[g].id = NoPage /\ ~pages'[g].is_dirty
    BY ONLY <1>1, <1>7, <1>17, <2>1, PoolSound DEF PoolSound, VictimsUnused
  <2>5. \A g \in InList(LRUlist') : pages'[g].id \in Page /\ page_table'[pages'[g].id] = g
    <3>1. \A g \in InList(LRUlist) : pages[g].id \in Page /\ page_table[pages[g].id] = g
      BY ONLY PoolSound, Listed
    <3>2. pages[f].id \in Page /\ page_table[pages[f].id] = f
      BY ONLY <1>2
    <3>3. \A g \in InList(LRUlist') : pages[g].id \in Page /\ page_table[pages[g].id] = g
      BY ONLY <1>11, <3>1, <3>2
    <3>4. page_table' = page_table
      BY ONLY <1>1
    <3>5. \A g \in InList(LRUlist') : pages'[g].id = pages[g].id
      BY ONLY <1>8, <2>1
    <3>6. QED
      BY ONLY <3>3, <3>4, <3>5
  <2>6. free_list' \cap InList(LRUlist') = {}
    BY ONLY <1>1, <1>11, <1>17, PoolSound DEF PoolSound, VictimsUnused
  <2>7. QED
    BY ONLY <1>11, <2>3, <2>4, <2>5, <2>6 DEF VictimsUnused, Distinct
<1>19. UnpinnedIsEvictable'
  <2> SUFFICES ASSUME NEW q \in Page, Mapped(q)'
               PROVE  pages'[page_table'[q]].pin_count > 0 \/ page_table'[q] \in InList(LRUlist')
    BY DEF UnpinnedIsEvictable
  <2>1. Mapped(q) /\ page_table'[q] = page_table[q] /\ page_table[q] \in Frame
    BY ONLY <1>1, <1>9, q \in Page, Mapped(q)', PoolSound, Located
  <2>2. pages[page_table[q]].pin_count > 0 \/ page_table[q] \in InList(LRUlist)
    BY ONLY <2>1, q \in Page, PoolSound DEF PoolSound, UnpinnedIsEvictable
  <2>3. CASE page_table[q] = f
    <3>1. pages'[f].pin_count = pages[f].pin_count - 1
      BY ONLY <1>7
    <3>2. pages[f].pin_count = 1 => f \in InList(LRUlist')
      BY ONLY <1>11
    <3>3. pages'[f].pin_count > 0 \/ f \in InList(LRUlist')
      BY ONLY <1>4, <3>1, <3>2
    <3>4. QED
      BY ONLY <2>1, <2>3, <3>3, Zenon
  <2>4. CASE page_table[q] # f
    BY ONLY <1>7, <1>11, <2>1, <2>2, <2>4
  <2>5. QED
    BY ONLY <2>3, <2>4
<1>20. CleanIsOnDisk'
  <2> SUFFICES ASSUME NEW q \in Page, Mapped(q)'
               PROVE  \/ pages'[page_table'[q]].is_dirty
                      \/ \E k \in Handle : held'[k] # NoHandle /\ held'[k].page = q /\ held'[k].wrote
                      \/ disk'[q] = pages'[page_table'[q]].data
    BY DEF CleanIsOnDisk
  <2>1. Mapped(q) /\ page_table'[q] = page_table[q] /\ page_table[q] \in Frame
    BY ONLY <1>1, <1>9, q \in Page, Mapped(q)', PoolSound, Located
  <2>2. \/ pages[page_table[q]].is_dirty
        \/ \E k \in Handle : held[k] # NoHandle /\ held[k].page = q /\ held[k].wrote
        \/ disk[q] = pages[page_table[q]].data
    BY ONLY <2>1, q \in Page, PoolSound DEF PoolSound, CleanIsOnDisk
  <2>3. CASE q = held[h].page /\ w
    BY ONLY <1>2, <1>7, <2>1, <2>3
  <2>4. CASE ~(q = held[h].page /\ w)
    <3>1. ASSUME NEW k \in Handle, held[k] # NoHandle, held[k].page = q, held[k].wrote
          PROVE  held'[k] = held[k]
      BY ONLY <1>6, <2>4, <3>1, k \in Handle DEF w
    <3>2. QED
      BY ONLY <1>1, <1>8, <2>1, <2>2, <3>1
  <2>5. QED
    BY ONLY <2>3, <2>4
<1>21. QED
  BY <1>12, <1>13, <1>14, <1>15, <1>16, <1>18, <1>19, <1>20 DEF PoolSound


(* Pages written to their files, and no longer dirty: what flush_page,     *)
(* flush_all_dirty_pages and close_file have in common.                    *)
LEMMA FlushInv ==
  ASSUME PoolSound, NEW S \in SUBSET Page, \A q \in S : Mapped(q),
         disk' = write_pages(disk, S, InMemory),
         pages' = [f \in Frame |-> IF \E q \in S : page_table[q] = f
                                   THEN [pages[f] EXCEPT !.is_dirty = FALSE] ELSE pages[f]],
         UNCHANGED <<page_table, free_list, LRUlist, fd2pageno, opens, held>>,
         isopen' \in [Fd -> BOOLEAN], \A fd \in Fd : fd \in RecordFd \/ isopen'[fd] = isopen[fd]
  PROVE  PoolSound'
<1>1. /\ page_table' = page_table /\ free_list' = free_list /\ LRUlist' = LRUlist
      /\ fd2pageno' = fd2pageno /\ opens' = opens /\ held' = held
  OBVIOUS
<1>2. InMemory \in [Page -> Val] /\ \A q \in S : InMemory[q] = pages[page_table[q]].data
  <2>1. InMemory = [q \in Page |-> IF Mapped(q) THEN pages[page_table[q]].data ELSE Zero]
    BY ONLY DEF InMemory
  <2>2. \A q \in Page : Mapped(q) => pages[page_table[q]].data \in Val
    BY ONLY PoolSound, Located, Types
  <2>3. QED
    BY ONLY <2>1, <2>2, PoolAssumption, \A q \in S : Mapped(q), S \in SUBSET Page
<1>3. /\ disk' \in [Page -> Val \cup {Absent}]
      /\ \A q \in S : disk'[q] = pages[page_table[q]].data
      /\ \A q \in Page \ S : disk'[q] = disk[q] \/ (disk[q] = Absent /\ disk'[q] = Zero)
  <2>1. disk \in [Page -> Val \cup {Absent}]
    BY ONLY PoolSound, Types
  <2>2. PICK n \in [Page -> Val] : n = InMemory
    BY ONLY <1>2
  <2>3. disk' = write_pages(disk, S, n) /\ \A q \in S : n[q] = pages[page_table[q]].data
    BY ONLY <1>2, <2>2, disk' = write_pages(disk, S, InMemory), Zenon
  <2>4. disk' \in [Page -> Val \cup {Absent}]
    BY ONLY <2>1, <2>3, n \in [Page -> Val], S \in SUBSET Page, WritePages
  <2>5. \A q \in S : disk'[q] = n[q]
    BY ONLY <2>1, <2>3, n \in [Page -> Val], S \in SUBSET Page, WritePages
  <2>6. \A q \in Page \ S : disk'[q] = disk[q] \/ (disk[q] = Absent /\ disk'[q] = Zero)
    BY ONLY <2>1, <2>3, n \in [Page -> Val], S \in SUBSET Page, WritePages
  <2>7. QED
    BY ONLY <2>3, <2>4, <2>5, <2>6, Zenon
<1>4. \A g \in Frame :
        /\ pages'[g] \in PageFrame /\ pages'[g].id = pages[g].id /\ pages'[g].data = pages[g].data
        /\ pages'[g].pin_count = pages[g].pin_count
        /\ pages'[g].is_dirty = IF \E q \in S : page_table[q] = g THEN FALSE ELSE pages[g].is_dirty
  <2> TAKE g \in Frame
  <2> DEFINE x == [pages[g] EXCEPT !.is_dirty = FALSE]
  <2>1. pages[g] \in PageFrame
    BY ONLY PoolSound, Types, g \in Frame
  <2>2. /\ x \in PageFrame /\ x.id = pages[g].id /\ x.data = pages[g].data
        /\ x.pin_count = pages[g].pin_count /\ x.is_dirty = FALSE
    BY ONLY <2>1 DEF PageFrame
  <2>3. pages'[g] = IF \E q \in S : page_table[q] = g THEN x ELSE pages[g]
    OBVIOUS
  <2> HIDE DEF x
  <2>4. QED
    BY ONLY <2>1, <2>2, <2>3
<1>5. pages' \in [Frame -> PageFrame]
  <2>1. pages' = [g \in Frame |-> pages'[g]]
    OBVIOUS
  <2>2. QED
    BY ONLY <1>4, <2>1
<1>6. \A q \in Page : Mapped(q)' <=> Mapped(q)
  BY ONLY <1>1 DEF Mapped
<1>7. TypeOK'
  BY ONLY <1>1, <1>3, <1>5, PoolSound, Types, isopen' \in [Fd -> BOOLEAN] DEF TypeOK
<1>8. HandlesLocated'
  BY ONLY <1>1, PoolSound DEF HandlesLocated, PoolSound
<1>9. TableSound'
  BY ONLY <1>1, <1>4, <1>6, PoolSound, Located DEF TableSound, PoolSound
<1>10. TableWithinFiles'
  <2>1. \A q \in Page : q[1] \in Fd
    BY ONLY DEF Page
  <2>2. QED
    BY ONLY <1>1, <1>6, <2>1, PoolSound, \A fd \in Fd : fd \in RecordFd \/ isopen'[fd] = isopen[fd]
       DEF TableWithinFiles, PoolSound
<1>11. \A g \in Frame : HandlesOn(g)' = HandlesOn(g)
  BY ONLY <1>1 DEF HandlesOn
<1>12. PinsCounted'
  <2> SUFFICES ASSUME NEW g \in Frame
               PROVE  pages'[g].pin_count = Cardinality(HandlesOn(g)')
    BY DEF PinsCounted
  <2>1. pages[g].pin_count = Cardinality(HandlesOn(g))
    BY ONLY PoolSound, g \in Frame DEF PinsCounted, PoolSound
  <2>2. QED
    BY ONLY <1>4, <1>11, <2>1, g \in Frame
<1>13. VictimsUnused'
  <2>1. \A g \in free_list \cup InList(LRUlist) : g \in Frame
    BY ONLY PoolSound, Types
  <2>2. \A g \in free_list : pages'[g].id = NoPage /\ ~pages'[g].is_dirty
    BY ONLY <1>4, <2>1, PoolSound DEF PoolSound, VictimsUnused
  <2>3. \A g \in InList(LRUlist) : pages'[g].id = pages[g].id
    BY ONLY <1>4, <2>1
  <2>4. \A g \in free_list \cup InList(LRUlist) : HandlesOn(g)' = {}
    BY ONLY <1>11, <2>1, PoolSound DEF PoolSound, VictimsUnused
  <2>5. QED
    BY ONLY <1>1, <2>2, <2>3, <2>4, PoolSound DEF PoolSound, VictimsUnused
<1>14. UnpinnedIsEvictable'
  BY ONLY <1>1, <1>4, <1>6, PoolSound, Located DEF PoolSound, UnpinnedIsEvictable
<1>15. CleanIsOnDisk'
  <2> SUFFICES ASSUME NEW q \in Page, Mapped(q)'
               PROVE  \/ pages'[page_table'[q]].is_dirty
                      \/ \E k \in Handle : held'[k] # NoHandle /\ held'[k].page = q /\ held'[k].wrote
                      \/ disk'[q] = pages'[page_table'[q]].data
    BY DEF CleanIsOnDisk
  <2>1. Mapped(q) /\ page_table'[q] = page_table[q] /\ page_table[q] \in Frame
    BY ONLY <1>1, <1>6, q \in Page, Mapped(q)', PoolSound, Located
  <2>2. pages'[page_table'[q]].data = pages[page_table[q]].data /\ pages[page_table[q]].data \in Val
    BY ONLY <1>4, <2>1, PoolSound, Types
  <2>3. CASE q \in S
    BY ONLY <1>3, <2>2, <2>3
  <2>4. CASE q \notin S
    <3>1. ~\E s \in S : page_table[s] = page_table[q]
      BY ONLY <2>1, <2>4, q \in Page, S \in SUBSET Page, PoolSound, Located
    <3>2. pages'[page_table'[q]].is_dirty = pages[page_table[q]].is_dirty
      BY ONLY <1>4, <2>1, <3>1
    <3>3. \/ pages[page_table[q]].is_dirty
          \/ \E k \in Handle : held[k] # NoHandle /\ held[k].page = q /\ held[k].wrote
          \/ disk[q] = pages[page_table[q]].data
      BY ONLY <2>1, q \in Page, PoolSound DEF PoolSound, CleanIsOnDisk
    <3>4. QED
      BY ONLY <1>1, <1>3, <2>2, <2>4, <3>2, <3>3, NullAssumption, q \in Page
  <2>5. QED
    BY ONLY <2>3, <2>4
<1>16. QED
  BY <1>7, <1>8, <1>9, <1>10, <1>12, <1>13, <1>14, <1>15 DEF PoolSound

(* The three methods that flush.                                           *)
LEMMA FlushesInv ==
  ASSUME PoolSound,
         \/ \E p \in Page : flush_page(p)
         \/ flush_all_dirty_pages
         \/ \E fd \in Fd : close_file(fd)
  PROVE  PoolSound'
<1>1. isopen \in [Fd -> BOOLEAN]
  BY ONLY PoolSound, Types
<1>2. ASSUME NEW S \in SUBSET Page, \A q \in S : Mapped(q), Flush(S)
      PROVE  PoolSound'
  <2>1. /\ disk' = write_pages(disk, S, InMemory)
        /\ pages' = [f \in Frame |-> IF \E q \in S : page_table[q] = f
                                     THEN [pages[f] EXCEPT !.is_dirty = FALSE] ELSE pages[f]]
        /\ UNCHANGED <<page_table, free_list, LRUlist, fd2pageno, opens, held>>
        /\ isopen' = isopen
    BY ONLY <1>2 DEF Flush, files
  <2>2. isopen' \in [Fd -> BOOLEAN] /\ \A fd \in Fd : fd \in RecordFd \/ isopen'[fd] = isopen[fd]
    BY ONLY <1>1, <2>1
  <2>3. QED
    BY ONLY <1>2, <2>1, <2>2, PoolSound, S \in SUBSET Page, FlushInv
<1>3. ASSUME NEW fd \in Fd, close_file(fd)
      PROVE  PoolSound'
  <2> DEFINE S == PagesOf(fd)
  <2>1. S \in SUBSET Page /\ \A q \in S : Mapped(q)
    BY ONLY DEF PagesOf
  <2>2. \A f \in Frame : f \in FramesOf(fd) <=> \E q \in S : page_table[q] = f
    BY ONLY DEF FramesOf
  <2>3. /\ disk' = write_pages(disk, S, InMemory)
        /\ pages' = [f \in Frame |-> IF f \in FramesOf(fd)
                                     THEN [pages[f] EXCEPT !.is_dirty = FALSE] ELSE pages[f]]
        /\ UNCHANGED <<page_table, free_list, LRUlist, fd2pageno, opens, held>>
        /\ isopen' = [isopen EXCEPT ![fd] = FALSE] /\ fd \in RecordFd
    BY ONLY <1>3 DEF close_file
  <2> HIDE DEF S
  <2>4. pages' = [f \in Frame |-> IF \E q \in S : page_table[q] = f
                                  THEN [pages[f] EXCEPT !.is_dirty = FALSE] ELSE pages[f]]
    BY ONLY <2>2, <2>3
  <2>5. isopen' \in [Fd -> BOOLEAN] /\ \A e \in Fd : e \in RecordFd \/ isopen'[e] = isopen[e]
    BY ONLY <1>1, <2>3, fd \in Fd
  <2>6. QED
    BY ONLY <2>1, <2>3, <2>4, <2>5, PoolSound, FlushInv
<1>4. ASSUME NEW p \in Page, flush_page(p)
      PROVE  PoolSound'
  BY <1>2, <1>4 DEF flush_page
<1>5. ASSUME flush_all_dirty_pages
      PROVE  PoolSound'
  BY <1>2, <1>5 DEF flush_all_dirty_pages
<1>6. QED
  BY <1>3, <1>4, <1>5


(* delete_page: the page is on disk, and its frame free.                   *)
LEMMA DeletePageInv ==
  ASSUME PoolSound, NEW p \in Page, delete_page(p)
  PROVE  PoolSound'
<1>1. PICK f \in Frame : f = page_table[p] /\ Mapped(p)
  BY Located DEF delete_page
<1>2. /\ pages[f].pin_count = 0 /\ disk' = WriteBack(f) /\ page_table' = Erase(p)
      /\ LRUlist' = pin(LRUlist, f) /\ pages' = [pages EXCEPT ![f] = EmptyPage(f)]
      /\ free_list' = free_list \cup {f} /\ held' = held
      /\ fd2pageno' = fd2pageno /\ opens' = opens /\ isopen' = isopen
  BY <1>1 DEF delete_page, files
<1>3. /\ HandlesOn(f) = {} /\ pages[f].id = p
      /\ \A q \in Page : page_table[q] = f <=> q = p
  <2>1. pages[f].id = p
    BY ONLY <1>1, PoolSound, p \in Page DEF PoolSound, TableSound
  <2>2. QED
    BY ONLY <1>1, <1>2, <2>1, PoolSound, p \in Page, Pins, Located
<1>4. /\ disk' \in [Page -> Val \cup {Absent}]
      /\ \A q \in Page : page_table[q] # f =>
           disk'[q] = disk[q] \/ (disk[q] = Absent /\ disk'[q] = Zero)
  BY ONLY <1>2, <1>3, PoolSound, p \in Page, f \in Frame, WriteBackFacts
<1>5. /\ page_table' \in [Page -> Frame \cup {NoFrame}]
      /\ \A q \in Page : page_table'[q] = IF page_table[q] = f THEN NoFrame ELSE page_table[q]
  <2>1. page_table' = [q \in Page |-> IF page_table[q] = f THEN NoFrame ELSE page_table[q]]
    BY ONLY <1>2, <1>3 DEF Erase
  <2>2. QED
    BY ONLY <2>1, PoolSound, Types
<1>6. /\ pages' \in [Frame -> PageFrame]
      /\ \A g \in Frame : g # f => pages'[g] = pages[g]
      /\ pages'[f].id = NoPage /\ ~pages'[f].is_dirty /\ pages'[f].pin_count = 0
  <2>1. pages \in [Frame -> PageFrame]
    BY ONLY PoolSound, Types
  <2>2. /\ EmptyPage(f) \in PageFrame /\ EmptyPage(f).id = NoPage
        /\ ~EmptyPage(f).is_dirty /\ EmptyPage(f).pin_count = 0
    BY ONLY <1>2, PoolAssumption DEF PageFrame, EmptyPage
  <2>3. QED
    BY ONLY <1>2, <2>1, <2>2, f \in Frame
<1>7. /\ LRUlist' \in Seq(Frame) /\ Distinct(LRUlist') /\ InList(LRUlist') = InList(LRUlist) \ {f}
  BY ONLY <1>2, PoolSound, f \in Frame, Types, PinList
<1>8. \A q \in Page : Mapped(q)' =>
        /\ Mapped(q) /\ page_table[q] # f /\ page_table'[q] = page_table[q]
        /\ page_table[q] \in Frame /\ pages'[page_table'[q]] = pages[page_table[q]]
  <2>1. \A q \in Page : Mapped(q)' => Mapped(q) /\ page_table[q] # f /\ page_table'[q] = page_table[q]
    BY ONLY <1>5 DEF Mapped
  <2>2. QED
    BY ONLY <1>6, <2>1, PoolSound, Located
<1>9. TypeOK'
  BY ONLY <1>2, <1>4, <1>5, <1>6, <1>7, PoolSound, f \in Frame, Types DEF TypeOK
<1>10. HandlesLocated'
  <2>1. \A k \in Handle : held[k] # NoHandle => held[k].frame # f
    BY ONLY <1>3 DEF HandlesOn
  <2>2. \A k \in Handle : held[k] # NoHandle =>
          held[k].page \in Page /\ page_table[held[k].page] = held[k].frame
    BY ONLY PoolSound, Located
  <2>3. held' = held
    BY ONLY <1>2
  <2>4. QED
    BY ONLY <1>5, <2>1, <2>2, <2>3 DEF HandlesLocated
<1>11. TableSound'
  BY ONLY <1>8, PoolSound DEF TableSound, PoolSound
<1>12. TableWithinFiles'
  BY ONLY <1>2, <1>8, PoolSound DEF TableWithinFiles, PoolSound
<1>13. \A g \in Frame : HandlesOn(g)' = HandlesOn(g)
  BY ONLY <1>2 DEF HandlesOn
<1>14. PinsCounted'
  <2>1. \A g \in Frame : pages'[g].pin_count = pages[g].pin_count
    BY ONLY <1>2, <1>6
  <2>2. QED
    BY ONLY <1>13, <2>1, PoolSound DEF PinsCounted, PoolSound
<1>15. VictimsUnused'
  <2>1. \A g \in free_list' \cup InList(LRUlist') : g \in Frame
    BY ONLY <1>2, <1>7, PoolSound, Types, f \in Frame
  <2>2. \A g \in free_list' \cup InList(LRUlist') : HandlesOn(g)' = {}
    BY ONLY <1>2, <1>3, <1>7, <1>13, <2>1, PoolSound DEF PoolSound, VictimsUnused
  <2>3. \A g \in free_list' : pages'[g].id = NoPage /\ ~pages'[g].is_dirty
    BY ONLY <1>2, <1>6, <2>1, PoolSound DEF PoolSound, VictimsUnused
  <2>4. \A g \in InList(LRUlist') : pages'[g].id \in Page /\ page_table'[pages'[g].id] = g
    <3>1. \A g \in InList(LRUlist') : g # f /\ pages[g].id \in Page /\ page_table[pages[g].id] = g
      BY ONLY <1>7, PoolSound, Listed
    <3>2. \A g \in InList(LRUlist') : pages'[g] = pages[g]
      BY ONLY <1>6, <2>1, <3>1
    <3>3. QED
      BY ONLY <1>5, <3>1, <3>2
  <2>5. free_list' \cap InList(LRUlist') = {}
    BY ONLY <1>2, <1>7, PoolSound DEF PoolSound, VictimsUnused
  <2>6. QED
    BY ONLY <1>7, <2>2, <2>3, <2>4, <2>5 DEF VictimsUnused, Distinct
<1>16. UnpinnedIsEvictable'
  BY ONLY <1>7, <1>8, PoolSound DEF PoolSound, UnpinnedIsEvictable
<1>17. CleanIsOnDisk'
  <2> SUFFICES ASSUME NEW q \in Page, Mapped(q)'
               PROVE  \/ pages'[page_table'[q]].is_dirty
                      \/ \E k \in Handle : held'[k] # NoHandle /\ held'[k].page = q /\ held'[k].wrote
                      \/ disk'[q] = pages'[page_table'[q]].data
    BY DEF CleanIsOnDisk
  <2>1. /\ Mapped(q) /\ page_table[q] # f /\ page_table[q] \in Frame
        /\ pages'[page_table'[q]] = pages[page_table[q]]
    BY <1>8
  <2>2. \/ pages[page_table[q]].is_dirty
        \/ \E k \in Handle : held[k] # NoHandle /\ held[k].page = q /\ held[k].wrote
        \/ disk[q] = pages[page_table[q]].data
    BY ONLY <2>1, q \in Page, PoolSound DEF PoolSound, CleanIsOnDisk
  <2>3. pages[page_table[q]].data # Absent
    BY ONLY <2>1, NullAssumption, PoolSound, Types
  <2>4. QED
    BY ONLY <1>2, <1>4, <2>1, <2>2, <2>3, q \in Page
<1>18. QED
  BY <1>9, <1>10, <1>11, <1>12, <1>14, <1>15, <1>16, <1>17 DEF PoolSound


(* close_index: the pages of the file are on disk, and their frames free.  *)
(* Nobody points into the file.                                            *)
LEMMA CloseIndexInv ==
  ASSUME PoolSound, Undisturbed, NEW fd \in Fd, close_index(fd)
  PROVE  PoolSound'
<1> DEFINE E == FramesOf(fd)
<1>1. /\ disk' = write_pages(disk, PagesOf(fd), InMemory)
      /\ page_table' = [q \in Page |-> IF q[1] = fd THEN NoFrame ELSE page_table[q]]
      /\ LRUlist' = KeepOnly(LRUlist, Kept(fd))
      /\ pages' = [f \in Frame |-> IF f \in Kept(fd) THEN pages[f]
                                   ELSE [EmptyPage(f) EXCEPT !.pin_count = 0]]
      /\ free_list' = free_list \cup FramesOf(fd) /\ isopen' = [isopen EXCEPT ![fd] = FALSE]
      /\ fd2pageno' = fd2pageno /\ opens' = opens /\ held' = held
      /\ \A k \in Handle : held[k] # NoHandle => held[k].page[1] # fd
  BY DEF close_index, MayClose, Undisturbed
<1>2. E \subseteq Frame /\ \A f \in E : \E q \in Page : q[1] = fd /\ Mapped(q) /\ page_table[q] = f
  BY ONLY PoolSound, Located DEF E, FramesOf, PagesOf
<1>3. \A q \in Page : Mapped(q) => (page_table[q] \in E <=> q[1] = fd)
  <2>1. \A q \in Page : Mapped(q) /\ q[1] = fd => page_table[q] \in E
    BY ONLY DEF E, FramesOf, PagesOf
  <2>2. QED
    BY ONLY <1>2, <2>1, PoolSound, Located
<1>4. \A k \in Handle : held[k] # NoHandle => held[k].frame \notin E
  BY ONLY <1>1, <1>3, PoolSound, Located
<1>5. \A f \in E : HandlesOn(f) = {} /\ pages[f].pin_count = 0
  <2>1. \A f \in E : HandlesOn(f) = {}
    BY ONLY <1>4 DEF HandlesOn
  <2>2. QED
    BY ONLY <1>2, <2>1, PoolSound, Pins
<1>6. \A f \in Frame : f \in Kept(fd) <=> f \notin E
  BY ONLY DEF Kept, E
<1>7. E \cap free_list = {}
  <2>1. \A f \in E : pages[f].id # NoPage
    <3>1. \A q \in Page : Mapped(q) => pages[page_table[q]].id = q
      BY ONLY PoolSound DEF PoolSound, TableSound
    <3>2. \A q \in Page : q # NoPage
      BY ONLY NullAssumption
    <3>3. QED
      BY ONLY <1>2, <3>1, <3>2
  <2>2. QED
    BY ONLY <2>1, PoolSound DEF PoolSound, VictimsUnused
<1> HIDE DEF E
<1>8. /\ LRUlist' \in Seq(Frame) /\ Distinct(LRUlist') /\ InList(LRUlist') = InList(LRUlist) \ E
  <2>1. /\ LRUlist' \in Seq(Frame) /\ Distinct(LRUlist')
        /\ InList(LRUlist') = InList(LRUlist) \cap Kept(fd)
    BY ONLY <1>1, PoolSound, Types, KeepList
  <2>2. InList(LRUlist) \cap Kept(fd) = InList(LRUlist) \ E
    BY ONLY <1>6, PoolSound, Types
  <2>3. QED
    BY ONLY <2>1, <2>2
<1>9. /\ page_table' \in [Page -> Frame \cup {NoFrame}]
      /\ \A q \in Page : page_table'[q] = IF q[1] = fd THEN NoFrame ELSE page_table[q]
  BY ONLY <1>1, PoolSound, Types
<1>10. /\ pages' \in [Frame -> PageFrame]
       /\ \A g \in Frame : /\ g \notin E => pages'[g] = pages[g]
                           /\ g \in E => /\ pages'[g].id = NoPage /\ ~pages'[g].is_dirty
                                         /\ pages'[g].pin_count = 0
  <2>1. \A g \in Frame : pages[g] \in PageFrame
    BY ONLY PoolSound, Types
  <2>2. ASSUME NEW g \in Frame
        PROVE  /\ [EmptyPage(g) EXCEPT !.pin_count = 0] \in PageFrame
               /\ [EmptyPage(g) EXCEPT !.pin_count = 0].id = NoPage
               /\ ~[EmptyPage(g) EXCEPT !.pin_count = 0].is_dirty
               /\ [EmptyPage(g) EXCEPT !.pin_count = 0].pin_count = 0
    BY ONLY PoolAssumption DEF EmptyPage, PageFrame
  <2>3. pages' = [g \in Frame |-> IF g \notin E THEN pages[g]
                                  ELSE [EmptyPage(g) EXCEPT !.pin_count = 0]]
    BY ONLY <1>1, <1>6
  <2> DEFINE x(g) == [EmptyPage(g) EXCEPT !.pin_count = 0]
  <2>4. \A g \in Frame : /\ x(g) \in PageFrame /\ x(g).id = NoPage
                         /\ ~x(g).is_dirty /\ x(g).pin_count = 0
    BY ONLY <2>2
  <2>5. pages' = [g \in Frame |-> IF g \notin E THEN pages[g] ELSE x(g)]
    BY ONLY <2>3
  <2> HIDE DEF x
  <2>6. QED
    BY ONLY <2>1, <2>4, <2>5
<1>11. disk' \in [Page -> Val \cup {Absent}] /\ \A q \in Page \ PagesOf(fd) :
          disk'[q] = disk[q] \/ (disk[q] = Absent /\ disk'[q] = Zero)
  <2>1. InMemory = [q \in Page |-> IF Mapped(q) THEN pages[page_table[q]].data ELSE Zero]
    BY ONLY DEF InMemory
  <2>2. \A q \in Page : Mapped(q) => pages[page_table[q]].data \in Val
    BY ONLY PoolSound, Located, Types
  <2>3. InMemory \in [Page -> Val] /\ PagesOf(fd) \in SUBSET Page
    BY ONLY <2>1, <2>2, PoolAssumption DEF PagesOf
  <2>4. disk \in [Page -> Val \cup {Absent}]
    BY ONLY PoolSound, Types
  <2>5. PICK S \in SUBSET Page : S = PagesOf(fd)
    BY ONLY <2>3
  <2>6. /\ write_pages(disk, S, InMemory) \in [Page -> Val \cup {Absent}]
        /\ \A q \in Page \ S :
             \/ write_pages(disk, S, InMemory)[q] = disk[q]
             \/ disk[q] = Absent /\ write_pages(disk, S, InMemory)[q] = Zero
    BY ONLY <2>3, <2>4, S \in SUBSET Page, WritePages
  <2>7. QED
    BY ONLY <1>1, <2>5, <2>6
<1>12. \A q \in Page : Mapped(q)' =>
         /\ Mapped(q) /\ q[1] # fd /\ page_table'[q] = page_table[q] /\ page_table[q] \notin E
         /\ page_table[q] \in Frame /\ pages'[page_table'[q]] = pages[page_table[q]]
  <2>1. \A q \in Page : Mapped(q)' => Mapped(q) /\ q[1] # fd /\ page_table'[q] = page_table[q]
    BY ONLY <1>9 DEF Mapped
  <2>2. \A q \in Page : Mapped(q) => page_table[q] \in Frame
    BY ONLY PoolSound, Located
  <2>3. QED
    BY ONLY <1>3, <1>10, <2>1, <2>2
<1>13. TypeOK'
  <2>1. isopen' \in [Fd -> BOOLEAN] /\ free_list' \subseteq Frame
    BY ONLY <1>1, <1>2, PoolSound, Types DEF E
  <2>2. QED
    BY ONLY <1>1, <1>8, <1>9, <1>10, <1>11, <2>1, PoolSound, Types DEF TypeOK
<1>14. HandlesLocated'
  BY ONLY <1>1, <1>9, PoolSound, Located DEF HandlesLocated
<1>15. TableSound'
  BY ONLY <1>12, PoolSound DEF TableSound, PoolSound
<1>16. TableWithinFiles'
  <2>1. \A q \in Page : q[1] \in Fd
    BY ONLY DEF Page
  <2>2. \A e \in Fd : e # fd => isopen'[e] = isopen[e]
    BY ONLY <1>1, PoolSound, Types
  <2>3. ASSUME NEW q \in Page, Mapped(q)'
        PROVE  q[2] < fd2pageno'[q[1]] /\ (q[1] \in RecordFd \/ isopen'[q[1]])
    <3>1. Mapped(q) /\ q[1] # fd
      BY ONLY <1>12, <2>3
    <3>2. q[2] < fd2pageno[q[1]] /\ (q[1] \in RecordFd \/ isopen[q[1]])
      BY ONLY <3>1, PoolSound, q \in Page DEF TableWithinFiles, PoolSound
    <3>3. QED
      BY ONLY <1>1, <2>1, <2>2, <3>1, <3>2, q \in Page
  <2>4. QED
    BY ONLY <2>3 DEF TableWithinFiles
<1>17. \A g \in Frame : HandlesOn(g)' = HandlesOn(g)
  BY ONLY <1>1 DEF HandlesOn
<1>18. PinsCounted'
  <2>1. \A g \in Frame : pages'[g].pin_count = pages[g].pin_count
    BY ONLY <1>5, <1>10
  <2>2. QED
    BY ONLY <1>17, <2>1, PoolSound DEF PinsCounted, PoolSound
<1>19. VictimsUnused'
  <2>1. free_list' = free_list \cup E
    BY ONLY <1>1 DEF E
  <2>2. \A g \in free_list' \cup InList(LRUlist') : g \in Frame
    BY ONLY <1>2, <1>8, <2>1, PoolSound, Types
  <2>3. \A g \in free_list' \cup InList(LRUlist') : HandlesOn(g)' = {}
    BY ONLY <1>5, <1>8, <1>17, <2>1, <2>2, PoolSound DEF PoolSound, VictimsUnused
  <2>4. \A g \in free_list' : pages'[g].id = NoPage /\ ~pages'[g].is_dirty
    BY ONLY <1>10, <2>1, <2>2, PoolSound DEF PoolSound, VictimsUnused
  <2>5. ASSUME NEW g \in InList(LRUlist')
        PROVE  pages'[g].id \in Page /\ page_table'[pages'[g].id] = g
    <3>1. g \in Frame /\ g \notin E /\ g \in InList(LRUlist)
      BY ONLY <1>8, <2>2, <2>5
    <3>2. pages'[g] = pages[g] /\ pages[g].id \in Page /\ page_table[pages[g].id] = g
      BY ONLY <1>10, <3>1, PoolSound DEF PoolSound, VictimsUnused
    <3>3. Mapped(pages[g].id)
      BY ONLY <3>1, <3>2, NullAssumption DEF Mapped
    <3>4. QED
      BY ONLY <1>3, <1>9, <3>1, <3>2, <3>3
  <2>6. free_list' \cap InList(LRUlist') = {}
    BY ONLY <1>8, <2>1, PoolSound DEF PoolSound, VictimsUnused
  <2>7. QED
    BY ONLY <1>8, <2>3, <2>4, <2>5, <2>6 DEF VictimsUnused, Distinct
<1>20. UnpinnedIsEvictable'
  BY ONLY <1>8, <1>12, PoolSound DEF PoolSound, UnpinnedIsEvictable
<1>21. CleanIsOnDisk'
  <2> SUFFICES ASSUME NEW q \in Page, Mapped(q)'
               PROVE  \/ pages'[page_table'[q]].is_dirty
                      \/ \E k \in Handle : held'[k] # NoHandle /\ held'[k].page = q /\ held'[k].wrote
                      \/ disk'[q] = pages'[page_table'[q]].data
    BY DEF CleanIsOnDisk
  <2>1. /\ Mapped(q) /\ q[1] # fd /\ page_table[q] \in Frame
        /\ pages'[page_table'[q]] = pages[page_table[q]]
    BY <1>12
  <2>2. \/ pages[page_table[q]].is_dirty
        \/ \E k \in Handle : held[k] # NoHandle /\ held[k].page = q /\ held[k].wrote
        \/ disk[q] = pages[page_table[q]].data
    BY ONLY <2>1, q \in Page, PoolSound DEF PoolSound, CleanIsOnDisk
  <2>3. pages[page_table[q]].data # Absent
    BY ONLY <2>1, NullAssumption, PoolSound, Types
  <2>4. q \in Page \ PagesOf(fd)
    BY ONLY <2>1, q \in Page DEF PagesOf
  <2>5. QED
    BY ONLY <1>1, <1>11, <2>1, <2>2, <2>3, <2>4
<1>22. QED
  BY <1>13, <1>14, <1>15, <1>16, <1>18, <1>19, <1>20, <1>21 DEF PoolSound


(* A descriptor names a new file.  It is that of an index, whose pages     *)
(* left with close_index.                                                  *)
LEMMA OpenFileInv ==
  ASSUME PoolSound, Undisturbed, NEW fd \in Fd, open_file(fd)
  PROVE  PoolSound'
<1>1. /\ ~isopen[fd] /\ opens[fd] < MaxOpens[fd]
      /\ disk' = [q \in Page |-> IF q[1] = fd THEN Absent ELSE disk[q]]
      /\ fd2pageno' = [fd2pageno EXCEPT ![fd] = 0]
      /\ isopen' = [isopen EXCEPT ![fd] = TRUE] /\ opens' = [opens EXCEPT ![fd] = @ + 1]
      /\ page_table' = page_table /\ pages' = pages /\ free_list' = free_list
      /\ LRUlist' = LRUlist /\ held' = held
  BY DEF open_file
<1>2. fd \notin RecordFd
  <2>1. opens[fd] \in Nat \ {0} /\ MaxOpens[fd] \in Nat
    BY Types, PoolAssumption
  <2>2. QED
    BY ONLY <1>1, <2>1, Undisturbed DEF Undisturbed
<1>3. \A q \in Page : q[1] \in Fd /\ (Mapped(q) => q[1] # fd)
  <2>1. \A q \in Page : q[1] \in Fd
    BY ONLY DEF Page
  <2>2. QED
    BY ONLY <1>1, <1>2, <2>1, PoolSound DEF PoolSound, TableWithinFiles
<1>4. \A q \in Page : Mapped(q)' <=> Mapped(q)
  BY ONLY <1>1 DEF Mapped
<1>5. TypeOK'
  <2>1. disk' \in [Page -> Val \cup {Absent}]
    BY ONLY <1>1, PoolSound, Types
  <2>2. /\ fd2pageno' \in [Fd -> 0 .. MaxPages]
        /\ isopen' \in [Fd -> BOOLEAN] /\ opens' \in [Fd -> Nat \ {0}]
    <3>1. /\ fd2pageno \in [Fd -> 0 .. MaxPages]
          /\ isopen \in [Fd -> BOOLEAN] /\ opens \in [Fd -> Nat \ {0}]
      BY ONLY PoolSound, Types
    <3>2. fd2pageno' \in [Fd -> 0 .. MaxPages]
      <4>1. 0 \in 0 .. MaxPages
        BY ONLY PoolAssumption
      <4>2. QED
        BY ONLY <1>1, <3>1, <4>1
    <3>3. isopen' \in [Fd -> BOOLEAN]
      BY ONLY <1>1, <3>1
    <3>4. opens' \in [Fd -> Nat \ {0}]
      <4>1. opens[fd] + 1 \in Nat \ {0} /\ opens' = [opens EXCEPT ![fd] = opens[fd] + 1]
        BY ONLY <1>1, <3>1, fd \in Fd
      <4>2. QED
        BY ONLY <3>1, <4>1
    <3>5. QED
      BY ONLY <3>2, <3>3, <3>4
  <2>3. QED
    BY ONLY <1>1, <2>1, <2>2, PoolSound, Types DEF TypeOK
<1>6. HandlesLocated'
  BY ONLY <1>1, PoolSound DEF PoolSound, HandlesLocated
<1>7. TableSound'
  BY ONLY <1>1, <1>4, PoolSound DEF PoolSound, TableSound
<1>8. TableWithinFiles'
  <2>1. \A e \in Fd : e # fd => fd2pageno'[e] = fd2pageno[e] /\ isopen'[e] = isopen[e]
    BY ONLY <1>1, PoolSound, Types
  <2>2. ASSUME NEW q \in Page, Mapped(q)'
        PROVE  q[2] < fd2pageno'[q[1]] /\ (q[1] \in RecordFd \/ isopen'[q[1]])
    <3>1. Mapped(q) /\ q[1] \in Fd /\ q[1] # fd
      BY ONLY <1>3, <1>4, <2>2
    <3>2. q[2] < fd2pageno[q[1]] /\ (q[1] \in RecordFd \/ isopen[q[1]])
      BY ONLY <3>1, PoolSound, q \in Page DEF TableWithinFiles, PoolSound
    <3>3. QED
      BY ONLY <2>1, <3>1, <3>2
  <2>3. QED
    BY ONLY <2>2 DEF TableWithinFiles
<1>9. \A g \in Frame : HandlesOn(g)' = HandlesOn(g)
  BY ONLY <1>1 DEF HandlesOn
<1>10. PinsCounted'
  BY ONLY <1>1, <1>9, PoolSound DEF PinsCounted, PoolSound
<1>11. VictimsUnused'
  <2>1. \A g \in free_list \cup InList(LRUlist) : g \in Frame
    BY ONLY PoolSound, Types
  <2>2. \A g \in free_list \cup InList(LRUlist) : HandlesOn(g)' = {}
    BY ONLY <1>9, <2>1, PoolSound DEF PoolSound, VictimsUnused
  <2>3. QED
    BY ONLY <1>1, <2>2, PoolSound DEF PoolSound, VictimsUnused
<1>12. UnpinnedIsEvictable'
  BY ONLY <1>1, <1>4, PoolSound DEF PoolSound, UnpinnedIsEvictable
<1>13. CleanIsOnDisk'
  <2>1. \A q \in Page : Mapped(q) => disk'[q] = disk[q]
    BY ONLY <1>1, <1>3
  <2>2. QED
    BY ONLY <1>1, <1>4, <2>1, PoolSound DEF PoolSound, CleanIsOnDisk
<1>14. QED
  BY <1>5, <1>6, <1>7, <1>8, <1>10, <1>11, <1>12, <1>13 DEF PoolSound

-----------------------------------------------------------------------------
(* The theorems. *)

(* The empty pool is sound.                                                *)
LEMMA InitInv ==
  ASSUME Init
  PROVE  PoolSound
<1>1. /\ page_table = [p \in Page |-> NoFrame]
      /\ pages = [f \in Frame |-> [id |-> NoPage, data |-> Zero, is_dirty |-> FALSE, pin_count |-> 0]]
      /\ free_list = Frame /\ LRUlist = <<>> /\ fd2pageno \in [Fd -> 0 .. MaxPages]
      /\ opens = [fd \in Fd |-> 1] /\ isopen = [fd \in Fd |-> TRUE]
      /\ held = [h \in Handle |-> NoHandle]
  BY DEF Init
<1>2. disk \in [Page -> Val \cup {Absent}]
  BY PoolAssumption DEF Init
<1>3. \A p \in Page : ~Mapped(p)
  BY ONLY <1>1 DEF Mapped
<1>4. /\ pages \in [Frame -> PageFrame]
      /\ \A f \in Frame : pages[f].id = NoPage /\ ~pages[f].is_dirty /\ pages[f].pin_count = 0
  <2> DEFINE x == [id |-> NoPage, data |-> Zero, is_dirty |-> FALSE, pin_count |-> 0]
  <2>1. x \in PageFrame /\ x.id = NoPage /\ ~x.is_dirty /\ x.pin_count = 0
    BY ONLY PoolAssumption DEF PageFrame
  <2>2. pages = [f \in Frame |-> x]
    BY ONLY <1>1
  <2> HIDE DEF x
  <2>3. QED
    BY ONLY <2>1, <2>2
<1>5. InList(LRUlist) = {} /\ LRUlist \in Seq(Frame) /\ Len(LRUlist) = 0
  <2>1. LRUlist = <<>>
    BY ONLY <1>1
  <2>2. LRUlist \in Seq(Frame) /\ Len(LRUlist) = 0
    BY ONLY <2>1
  <2>3. QED
    BY ONLY <2>2 DEF InList
<1>6. \A h \in Handle : held[h] = NoHandle
  BY ONLY <1>1
<1>7. \A f \in Frame : HandlesOn(f) = {}
  BY ONLY <1>6 DEF HandlesOn
<1>8. TypeOK
  <2>1. /\ page_table \in [Page -> Frame \cup {NoFrame}] /\ held \in [Handle -> Hold \cup {NoHandle}]
        /\ opens \in [Fd -> Nat \ {0}] /\ isopen \in [Fd -> BOOLEAN]
    <3>1. page_table \in [Page -> Frame \cup {NoFrame}]
      BY ONLY <1>1
    <3>2. held \in [Handle -> Hold \cup {NoHandle}]
      BY ONLY <1>1
    <3>3. opens \in [Fd -> Nat \ {0}]
      <4>1. opens = [fd \in Fd |-> 1]
        BY ONLY <1>1
      <4>2. QED
        BY ONLY <4>1
    <3>4. isopen \in [Fd -> BOOLEAN]
      BY ONLY <1>1
    <3>5. QED
      BY ONLY <3>1, <3>2, <3>3, <3>4
  <2>2. QED
    BY ONLY <1>1, <1>2, <1>4, <1>5, <2>1 DEF TypeOK
<1>9. HandlesLocated /\ TableSound /\ TableWithinFiles /\ UnpinnedIsEvictable /\ CleanIsOnDisk
  BY ONLY <1>3, <1>6 DEF HandlesLocated, TableSound, TableWithinFiles, UnpinnedIsEvictable, CleanIsOnDisk
<1>10. PinsCounted
  BY ONLY <1>4, <1>7, FS_EmptySet DEF PinsCounted
<1>11. VictimsUnused
  <2>1. free_list = Frame
    BY ONLY <1>1
  <2>2. \A i, j \in 1 .. Len(LRUlist) : LRUlist[i] = LRUlist[j] => i = j
    BY ONLY <1>5
  <2>3. QED
    BY ONLY <1>4, <1>5, <1>7, <2>1, <2>2 DEF VictimsUnused
<1>12. QED
  BY ONLY <1>8, <1>9, <1>10, <1>11 DEF PoolSound

(* Every method keeps the pool sound.                                      *)
LEMMA NextInv ==
  ASSUME Undisturbed, PoolSound, [Next]_vars
  PROVE  PoolSound'
<1>1. CASE UNCHANGED vars
  <2>1. /\ page_table' = page_table /\ pages' = pages /\ free_list' = free_list
        /\ LRUlist' = LRUlist /\ disk' = disk /\ fd2pageno' = fd2pageno
        /\ opens' = opens /\ isopen' = isopen /\ held' = held
    BY ONLY <1>1 DEF vars, files
  <2>2. TypeOK'
    BY ONLY <2>1, PoolSound DEF PoolSound, TypeOK
  <2>3. HandlesLocated' /\ PinsCounted'
    BY ONLY <2>1, PoolSound DEF PoolSound, HandlesLocated, PinsCounted, HandlesOn
  <2>4. TableSound' /\ TableWithinFiles'
    BY ONLY <2>1, PoolSound DEF PoolSound, TableSound, TableWithinFiles, Mapped
  <2>5. VictimsUnused'
    BY ONLY <2>1, PoolSound DEF PoolSound, VictimsUnused, HandlesOn
  <2>6. UnpinnedIsEvictable' /\ CleanIsOnDisk'
    BY ONLY <2>1, PoolSound DEF PoolSound, UnpinnedIsEvictable, CleanIsOnDisk, Mapped
  <2>7. QED
    BY ONLY <2>2, <2>3, <2>4, <2>5, <2>6 DEF PoolSound
<1>2. ASSUME NEW h \in Handle, NEW p \in Page, fetch_page(h, p)
      PROVE  PoolSound'
  BY <1>2, FetchHitInv, FetchMissInv, FetchFailsInv DEF fetch_page
<1>3. QED
  BY <1>1, <1>2, NewPageInv, WritePageInv, UnpinPageInv, FlushesInv, DeletePageInv,
     CloseIndexInv, OpenFileInv DEF Next

(* The bookkeeping of the buffer pool is sound in every reachable state,   *)
(* for any number of files, frames, handles, pages and contents, as long   *)
(* as files are closed with nobody pointing into them and the descriptor   *)
(* of a table file is not used again: page_table_, the frames' ids,        *)
(* pin_count_, free_list_ and the replacer agree through fetch_page,       *)
(* new_page, unpin_page, delete_page, the flushes and the closing and      *)
(* opening of files, and a clean page nobody writes equals its disk copy.  *)
THEOREM PoolIsSound ==
  ASSUME Undisturbed
  PROVE  Spec => []PoolSound
<1>1. Init => PoolSound
  BY InitInv
<1>2. PoolSound /\ [Next]_vars => PoolSound'
  BY NextInv
<1>3. QED
  BY <1>1, <1>2, PTL DEF Spec


=============================================================================
